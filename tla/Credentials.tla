----------------------------- MODULE Credentials -----------------------------
(***************************************************************************)
(* A login, between the host's Keychain and the credentials file of a      *)
(* Claude home (session/credentials.rs).  `sync` copies a later one over   *)
(* an earlier: before a session from the Keychain to the file, and from    *)
(* the file back whenever `watch` sees it modified.                        *)
(*                                                                         *)
(* A login is the number its `expiresAt` ranks it by; 0 stands for a store *)
(* without one: absent, or caught in the middle of a write and unparsable. *)
(* What else the stores hold is left out.                                  *)
(***************************************************************************)
EXTENDS Processes

CONSTANT MaxLogin   \* logins issued in one behaviour

ASSUME MaxLoginAssumption == MaxLogin \in Nat

VARIABLES
  keychain,   \* its login
  file,       \* that of a home's credentials file
  staged,     \* what a home's staged file holds, or Missing
  latest,     \* logins issued so far
  refreshing, \* homes whose file the guest has truncated and not filled
  sync,       \* the copy a process is at
  watch,      \* its watcher
  unsaved,    \* the processes of which a save failed
  raced       \* a copy replaced something else than it had compared with

credentialVars ==
  <<keychain, file, staged, latest, refreshing, sync, watch, unsaved, raced>>

Missing == MaxLogin + 1
Logins == 0..MaxLogin

\* The inode a process writes is the staged file's, unless another renamed it.
Idle == [at |-> "idle", from |-> "keychain", login |-> 0, kept |-> 0, writes |-> "nothing"]
Asleep == [at |-> "none", stopping |-> FALSE, changed |-> FALSE]

CredentialsInit ==
  /\ latest = 0 /\ keychain = 0
  /\ file = [h \in Homes |-> 0] /\ staged = [h \in Homes |-> Missing]
  /\ refreshing = {}
  /\ sync = [p \in Procs |-> Idle] /\ watch = [p \in Procs |-> Asleep]
  /\ unsaved = {} /\ raced = FALSE

\* A new modification time, for every watcher of the file.
Modified(h) ==
  watch' = [p \in Procs |->
    IF Home(p) = h /\ watch[p].at \notin {"none", "ended"}
      THEN [watch[p] EXCEPT !.changed = TRUE] ELSE watch[p]]

-----------------------------------------------------------------------------
(* Who else writes the stores.                                               *)

\* Claude Code in the guest refreshes its token in place.
GuestTruncates(h) ==
  /\ latest < MaxLogin /\ h \notin refreshing
  /\ \E p \in with.keychain : pc[p] = "executing" /\ Home(p) = h
  /\ refreshing' = refreshing \cup {h} /\ file' = [file EXCEPT ![h] = 0]
  /\ Modified(h)
  /\ UNCHANGED <<keychain, staged, latest, sync, unsaved, raced>>

GuestFills(h) ==
  /\ h \in refreshing /\ latest < MaxLogin
  /\ \E p \in Procs : HasVm(p) /\ Home(p) = h
  /\ refreshing' = refreshing \ {h}
  /\ latest' = latest + 1 /\ file' = [file EXCEPT ![h] = latest + 1]
  /\ Modified(h)
  /\ UNCHANGED <<keychain, staged, sync, unsaved, raced>>

\* Claude Code on the host does so in the Keychain.
HostRefreshes ==
  /\ with.keychain # {} /\ latest < MaxLogin
  /\ latest' = latest + 1 /\ keychain' = latest + 1
  /\ UNCHANGED <<file, staged, refreshing, sync, watch, unsaved, raced>>

-----------------------------------------------------------------------------
(* sync, of the process's main thread and then of its watcher.               *)

Syncing(p) == sync[p].at \notin {"idle", "done", "failed"}

BeginSync(p, from) == sync' = [sync EXCEPT ![p] = [Idle EXCEPT !.at = "reading", !.from = from]]

SyncGoes(p, to) == sync' = [sync EXCEPT ![p].at = to]
SyncEnds(p, how) == sync' = [sync EXCEPT ![p] = [Idle EXCEPT !.at = how]]

LoginOf(store, p) == IF store = "keychain" THEN keychain ELSE file[Home(p)]
Target(p) == IF sync[p].from = "keychain" THEN "file" ELSE "keychain"

ReadSource(p) ==
  /\ sync[p].at = "reading"
  /\ LET login == LoginOf(sync[p].from, p)
     IN IF login = 0 THEN SyncEnds(p, "done")
        ELSE sync' = [sync EXCEPT ![p].login = login, ![p].at = "comparing"]
  /\ UNCHANGED <<keychain, file, staged, latest, refreshing, watch, unsaved, raced>>

KeepsTarget(kept, login) == kept # 0 /\ kept >= login

Compare(p) ==
  /\ sync[p].at = "comparing"
  /\ LET kept == LoginOf(Target(p), p)
     IN IF KeepsTarget(kept, sync[p].login) THEN SyncEnds(p, "done")
        ELSE sync' = [sync EXCEPT ![p].kept = kept,
               ![p].at = IF Target(p) = "keychain" THEN "saving" ELSE "opening"]
  /\ UNCHANGED <<keychain, file, staged, latest, refreshing, watch, unsaved, raced>>

\* Keychain::write.
Save(p) ==
  /\ sync[p].at = "saving"
  /\ SyncEnds(p, "done")
  /\ keychain' = sync[p].login
  /\ raced' = (raced \/ keychain # sync[p].kept)
  /\ unsaved' = unsaved \ {p}
  /\ UNCHANGED <<file, staged, latest, refreshing, watch>>

\* CredentialsFile::write: every process of a home stages under one name.
OpenStaged(p) ==
  /\ sync[p].at = "opening"
  /\ sync' = [sync EXCEPT ![p].at = "writing", ![p].writes = "staged"]
  /\ staged' = [staged EXCEPT ![Home(p)] = 0]
  /\ UNCHANGED <<keychain, file, latest, refreshing, watch, unsaved, raced>>

FillStaged(p) ==
  /\ sync[p].at = "writing"
  /\ SyncGoes(p, "renaming")
  /\ CASE sync[p].writes = "staged" ->
            /\ staged' = [staged EXCEPT ![Home(p)] = sync[p].login]
            /\ UNCHANGED <<file, watch, raced>>
       [] sync[p].writes = "published" ->
            /\ file' = [file EXCEPT ![Home(p)] = sync[p].login]
            /\ Modified(Home(p)) /\ raced' = TRUE
            /\ UNCHANGED staged
       [] OTHER -> UNCHANGED <<file, staged, watch, raced>>
  /\ UNCHANGED <<keychain, latest, refreshing, unsaved>>

\* The others' open file goes with the rename.
Published(p) ==
  [q \in Procs |->
    IF q = p THEN [Idle EXCEPT !.at = "done"]
    ELSE IF Home(q) # Home(p) THEN sync[q]
    ELSE CASE sync[q].writes = "staged" -> [sync[q] EXCEPT !.writes = "published"]
           [] sync[q].writes = "published" -> [sync[q] EXCEPT !.writes = "unlinked"]
           [] OTHER -> sync[q]]

Rename(p) ==
  LET h == Home(p)
  IN /\ sync[p].at = "renaming" /\ staged[h] # Missing
     /\ file' = [file EXCEPT ![h] = staged[h]] /\ staged' = [staged EXCEPT ![h] = Missing]
     /\ sync' = Published(p)
     /\ raced' = (raced \/ file[h] # sync[p].kept \/ staged[h] # sync[p].login \/ h \in refreshing)
     /\ refreshing' = refreshing \ {h}
     /\ Modified(h)
     /\ UNCHANGED <<keychain, latest, unsaved>>

\* Another renamed it away.
RenameFails(p) ==
  /\ sync[p].at = "renaming" /\ staged[Home(p)] = Missing
  /\ SyncEnds(p, "failed")
  /\ raced' = TRUE
  /\ UNCHANGED <<keychain, file, staged, latest, refreshing, watch, unsaved>>

\* `security` fails, or the disk does, at a read or a write.
SyncFails(p) ==
  /\ Syncing(p) /\ Fault
  /\ SyncEnds(p, "failed")
  /\ unsaved' = unsaved \cup {p}
  /\ UNCHANGED <<keychain, file, staged, latest, refreshing, watch, raced>>

Sync(p) ==
  /\ \/ ReadSource(p) \/ Compare(p) \/ Save(p)
     \/ OpenStaged(p) \/ FillStaged(p) \/ Rename(p) \/ RenameFails(p)
  /\ UNCHANGED faults

-----------------------------------------------------------------------------
(* watch.                                                                    *)

\* `stop` is read before the modification time is.  Rounds that would see
\* neither changed are left out.
ReadStop(p) ==
  /\ watch[p].at = "looking" /\ (watch[p].changed \/ stop[p])
  /\ watch' = [watch EXCEPT ![p].at = "checking", ![p].stopping = stop[p]]
  /\ UNCHANGED <<keychain, file, staged, latest, refreshing, sync, unsaved, raced>>

\* Mutant: the flag is read again, after the last look.
StoppingNow(p) == stop[p]
Stopping(p) == watch[p].stopping

\* The end of a round: the watcher sleeps, or has looked for the last time.
Rounds(p) == IF Stopping(p) THEN "ended" ELSE "looking"

\* What was seen is kept before the copy is tried.
CheckModified(p) ==
  /\ watch[p].at = "checking"
  /\ watch' = [watch EXCEPT ![p].at = IF watch[p].changed THEN "copying" ELSE Rounds(p),
                            ![p].changed = FALSE]
  /\ IF watch[p].changed THEN BeginSync(p, "file") ELSE UNCHANGED sync
  /\ UNCHANGED <<keychain, file, staged, latest, refreshing, unsaved, raced>>

\* `let _ =`: a failure is dropped.
Copied(p) ==
  /\ watch[p].at = "copying" /\ ~Syncing(p)
  /\ watch' = [watch EXCEPT ![p].at = Rounds(p)]
  /\ sync' = [sync EXCEPT ![p] = Idle]
  /\ UNCHANGED <<keychain, file, staged, latest, refreshing, unsaved, raced>>

Watch(p) ==
  /\ ReadStop(p) \/ CheckModified(p) \/ Copied(p)
  /\ UNCHANGED faults
=============================================================================
