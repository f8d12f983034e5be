------------------------------- MODULE Launch --------------------------------
(***************************************************************************)
(* `run` from its first to its last step (session/lifecycle.rs): the login *)
(* and the shared settings are brought into the Claude home, a running     *)
(* session is joined or a VM booted, and around the session's command the  *)
(* owner keeps a relay of ports and a watcher of the credentials, which    *)
(* end when it raises `stop`.  The agent, its threads and what it cleans   *)
(* up are HostSpool; who owns the VM is Session.                           *)
(***************************************************************************)
EXTENDS Credentials, PortRelay, Attach

VARIABLES
  shared,     \* a name under a Claude home that is copied from the host's
  code,       \* what became of a process's command
  due         \* the login in the file when a process raised `stop`

launchVars == <<with, pc, stop, shared, code, due>>
vars == <<launchVars, faults, credentialVars, relayVars, attachVars>>

Init ==
  /\ with \in Setups
  /\ pc = [p \in Procs |-> "idle"] /\ stop = [p \in Procs |-> FALSE]
  /\ faults = 0
  /\ shared = [h \in Homes |-> "copied"]
  /\ code = [p \in Procs |-> "none"] /\ due = [p \in Procs |-> 0]
  /\ CredentialsInit /\ RelayInit /\ AttachInit

Goes(p, from, to) == pc[p] = from /\ pc' = [pc EXCEPT ![p] = to]

-----------------------------------------------------------------------------
(* prepare.                                                                  *)

\* Of one project, only a session that serves is joined (the races of two that
\* boot at once are Session's), and a process of another project comes when it
\* likes.
Start(p) ==
  /\ p \in with.procs
  /\ \A q \in with.procs \ {p} :
       with.project[q] = with.project[p] => pc[q] \in {"idle", "executing"} \cup Ended
  /\ Goes(p, "idle", IF p \in with.keychain THEN "syncing" ELSE "sharing")
  /\ IF p \in with.keychain THEN BeginSync(p, "keychain") ELSE UNCHANGED sync
  /\ UNCHANGED <<with, stop, shared, code, due, faults, relayVars, attachVars>>
  /\ UNCHANGED <<keychain, file, staged, latest, refreshing, watch, unsaved, raced>>

\* An error of sync is one of run.
Synced(p) ==
  /\ sync[p].at \in {"done", "failed"}
  /\ Goes(p, "syncing", IF sync[p].at = "done" THEN "sharing" ELSE "failed")
  /\ sync' = [sync EXCEPT ![p] = Idle]
  /\ UNCHANGED <<with, stop, shared, code, due, faults, relayVars, attachVars>>
  /\ UNCHANGED <<keychain, file, staged, latest, refreshing, watch, unsaved, raced>>

\* settings::share replaces a name: it is removed, and made anew.
ShareRemoves(p) ==
  /\ Goes(p, "sharing", "copying")
  /\ shared' = [shared EXCEPT ![Home(p)] = "absent"]
  /\ UNCHANGED <<with, stop, code, due, faults, credentialVars, relayVars, attachVars>>

\* O_EXCL: another session of the home made it meanwhile.
ShareMakes(p) ==
  /\ Goes(p, "copying", IF shared[Home(p)] = "absent" THEN "asking" ELSE "failed")
  /\ shared' = [shared EXCEPT ![Home(p)] = "copied"]
  /\ UNCHANGED <<with, stop, code, due, faults, credentialVars, relayVars, attachVars>>

-----------------------------------------------------------------------------
(* run: join, or launch.                                                     *)

\* A client asks for its command at once.
Join(p) ==
  /\ Goes(p, "asking", "joined") /\ Owners(p) # {}
  /\ attach' = [attach EXCEPT ![p] = "asked"]
  /\ UNCHANGED <<with, stop, shared, code, due, faults, credentialVars, relayVars>>
  /\ UNCHANGED <<window, resized, nudges, resizer, initial, guest, crossed>>

\* create boots and records the mounts, await_sockets waits, listen_all opens the
\* relay's listener, and launch's scope gets its threads.
Launches(p) ==
  /\ Goes(p, "asking", "setting up") /\ Owners(p) = {}
  /\ IF p \in with.ports
       THEN listener' = "open" /\ acceptor' = "accepting"
       ELSE UNCHANGED <<listener, acceptor>>
  /\ IF p \in with.keychain
       THEN watch' = [watch EXCEPT ![p] = [at |-> "looking", stopping |-> FALSE,
                                           changed |-> file[Home(p)] # 0]]
       ELSE UNCHANGED watch
  /\ UNCHANGED <<with, stop, shared, code, due, faults, conn, flow, attachVars>>
  /\ UNCHANGED <<keychain, file, staged, latest, refreshing, sync, unsaved, raced>>

\* set_up, and the session's command once it is done.
SetUp(p) ==
  /\ Goes(p, "setting up", "executing")
  /\ attach' = [attach EXCEPT ![p] = "asked"]
  /\ UNCHANGED <<with, stop, shared, code, due, faults, credentialVars, relayVars>>
  /\ UNCHANGED <<window, resized, nudges, resizer, initial, guest, crossed>>

\* The threads are told, and the login that is to be saved is the one there.
Stops(p, what) ==
  /\ stop' = [stop EXCEPT ![p] = TRUE]
  /\ code' = [code EXCEPT ![p] = what]
  /\ due' = [due EXCEPT ![p] = file[Home(p)]]

\* A setup line that fails ends Claude's session, with its code; any other
\* command runs all the same.  An error of its exec is launch's.
SetUpFails(p) ==
  /\ Fault /\ Goes(p, "setting up", "ending")
  /\ \E what \in {"code", "error"} : Stops(p, what)
  /\ UNCHANGED <<with, shared, credentialVars, relayVars, attachVars>>

\* exec's code, or its error.
Executed(p) ==
  /\ Goes(p, "executing", "ending") /\ attach[p] \in {"answered", "error"}
  /\ Stops(p, IF attach[p] = "answered" THEN "code" ELSE "error")
  /\ UNCHANGED <<with, shared, faults, credentialVars, relayVars, attachVars>>

\* A client returns what it got.
Left(p) ==
  /\ Goes(p, "joined", IF attach[p] = "answered" THEN "ended" ELSE "failed")
  /\ attach[p] \in {"answered", "error"}
  /\ UNCHANGED <<with, stop, shared, code, due, faults, credentialVars, relayVars, attachVars>>

\* Mutant: the watcher is not waited for.
RelayEnded(p) == p \in with.ports => Relayed

\* The scope waits for its threads.  An error goes out past the cleanup.
ThreadsEnded(p) ==
  /\ watch[p].at \in {"none", "ended"}
  /\ p \in with.ports => Relayed

JoinThreads(p) ==
  /\ Goes(p, "ending", IF code[p] = "error" THEN "failed" ELSE "ended")
  /\ ThreadsEnded(p)
  /\ stop' = [stop EXCEPT ![p] = FALSE] /\ code' = [code EXCEPT ![p] = "none"]
  /\ UNCHANGED <<with, shared, due, faults, credentialVars, relayVars, attachVars>>

-----------------------------------------------------------------------------
(* What ends a process early: its threads and its VM go with it.             *)

Abandoned(p) ==
  /\ sync' = [sync EXCEPT ![p] = Idle] /\ watch' = [watch EXCEPT ![p] = Asleep]
  /\ IF p \in with.ports
       THEN /\ listener' = "none" /\ acceptor' = "none"
            /\ conn' = [c \in Conns |-> "done"]
            /\ flow' = [c \in Conns |-> [d \in Directions |-> NoFlow]]
       ELSE UNCHANGED relayVars
  /\ stop' = [stop EXCEPT ![p] = FALSE] /\ code' = [code EXCEPT ![p] = "none"]
  /\ due' = [due EXCEPT ![p] = 0]
  /\ UNCHANGED <<with, shared, attachVars>>
  /\ UNCHANGED <<keychain, file, staged, latest, refreshing, unsaved, raced>>

\* An error of create, await_sockets or listen_all.
LaunchFails(p) ==
  /\ pc[p] = "asking" /\ Owners(p) = {} /\ Fault
  /\ pc' = [pc EXCEPT ![p] = "failed"]
  /\ Abandoned(p)

Killed(p) ==
  /\ pc[p] \notin {"idle"} \cup Ended /\ Fault
  /\ pc' = [pc EXCEPT ![p] = "killed"]
  /\ Abandoned(p)

-----------------------------------------------------------------------------
Prepare(p) == Synced(p) \/ ShareRemoves(p) \/ ShareMakes(p)

Main(p) ==
  \/ Prepare(p)
  \/ Join(p) \/ Launches(p) \/ SetUp(p)
  \/ Executed(p) \/ Left(p) \/ JoinThreads(p)

\* The parts leave each other alone.
CredentialSteps(p) == (Sync(p) \/ Watch(p)) /\ UNCHANGED <<launchVars, relayVars, attachVars>>
AttachSteps(p) ==
  (Serves(p) \/ Resizes(p)) /\ UNCHANGED <<launchVars, credentialVars, relayVars>>

Refreshes ==
  /\ HostRefreshes \/ \E h \in Homes : GuestTruncates(h) \/ GuestFills(h)
  /\ UNCHANGED <<launchVars, faults, relayVars, attachVars>>

Commands(p) ==
  /\ \/ (Exits(p) \/ WindowChanges(p)) /\ UNCHANGED faults
     \/ CannotStart(p)
  /\ UNCHANGED <<launchVars, credentialVars, relayVars>>

Relaying == RelayNext /\ UNCHANGED <<launchVars, credentialVars, attachVars>>

Next ==
  \/ \E p \in with.procs :
       \/ Start(p) \/ Main(p) \/ SetUpFails(p) \/ LaunchFails(p) \/ Killed(p)
       \/ CredentialSteps(p) \/ AttachSteps(p) \/ Commands(p)
       \/ SyncFails(p) /\ UNCHANGED <<launchVars, relayVars, attachVars>>
  \/ Refreshes
  \/ Relaying

Spec == Init /\ [][Next]_vars

\* A process that has something to do does something: its main thread, its
\* watcher, its resizer or the threads of its relay.  Commands exit, peers write
\* and read, and users act as they like: a chunk is never owed to anyone.
Relays(p) ==
  /\ p \in with.ports
  /\ Acceptor \/ \E c \in Conns : Connection(c) \/ \E d \in Directions : Splice(c, d)
  /\ UNCHANGED <<launchVars, faults, credentialVars, attachVars>>

Fairness ==
  \A p \in Procs : WF_vars(Main(p) \/ CredentialSteps(p) \/ AttachSteps(p) \/ Relays(p))

FairSpec == Spec /\ Fairness

-----------------------------------------------------------------------------
\* A thread is only there while its owner is between spawning and joining it,
\* and what is copied or relayed is accounted for.
TypeOK ==
  /\ with \in Setups /\ faults \in 0..with.faults
  /\ pc \in [Procs -> {"idle", "syncing", "sharing", "copying", "asking", "joined"} \cup Booted \cup Ended]
  /\ {keychain, latest} \cup {file[h] : h \in Homes} \subseteq Logins
  /\ staged \in [Homes -> Logins \cup {Missing}]
  /\ \A p \in Procs :
       /\ watch[p].at \notin {"none", "ended"} => pc[p] \in Booted
       /\ Syncing(p) => pc[p] = "syncing" \/ watch[p].at = "copying"
       /\ window[p] \in Sizes /\ {guest[p], initial[p]} \subseteq Sizes \cup {Default}
  /\ acceptor = "accepting" => \E p \in with.ports : HasVm(p)
  /\ \A c \in Conns, d \in Directions : Unread(c, d) >= 0

\* The login a session's command had when it ended is not lost: once the
\* session is over the Keychain has it or a later one, or the file goes on
\* without it.  That a save failed, or another wrote between the look and the
\* write of a copy, is excepted (sync, watch).
LoginSaved ==
  ~raced =>
    \A p \in with.keychain :
      pc[p] = "ended" /\ p \notin unsaved =>
        keychain >= due[p] \/ file[Home(p)] # due[p]

\* A peer that sees the end has everything the other one wrote before it,
\* whichever direction ends first, unless the session stops or a peer closed
\* its socket (splice, send).
EofMeansAll ==
  \A c \in Conns, d \in Directions :
    LET f == flow[c][d]
    IN f.eof /\ f.thread # "none" /\ ~f.broken => f.shut /\ f.got = f.sent

\* When no change of the window is on its way, the guest's terminal has its
\* size.  The one exception is the code's own: the first size is read and set
\* in two steps, and can overtake a later one (attach, while_resizing).
WindowSettles ==
  \A p \in with.terminals :
    /\ attach[p] = "running" /\ Served(p) /\ ~crossed[p]
    /\ ~resized[p] /\ nudges[p] = 0 /\ resizer[p].at = "idle"
    => guest[p] = window[p]

\* A process that got going ends, or waits for a command that runs: no stalled
\* peer of the relay, no login being copied, no resize and no owner that left
\* holds it up (launch, relay, watch, attend, request).  Only a guest that goes
\* on writing into a refused connection does: close_cleanly reads on, whatever
\* `stop` is.
NothingToDiscard == \A c \in Conns : conn[c] = "draining" => Unread(c, "up") = 0
LaunchesEnd ==
  \A p \in Procs :
    <>[]NothingToDiscard =>
      (pc[p] # "idle" ~> pc[p] \in Ended \/ (attach[p] = "running" /\ Served(p)))
=============================================================================
