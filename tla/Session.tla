------------------------------- MODULE Session -------------------------------
(***************************************************************************)
(* Who owns the VM of one project.  `run`, `exec` and `shell` ask whether  *)
(* the session's control socket answers: if it does they attach to the     *)
(* process behind it, and if it does not they boot the container and serve *)
(* the socket themselves (session/lifecycle.rs, containerization/mod.rs,   *)
(* control.rs).  Nothing is removed when an owner ends: the directory, its *)
(* `.owner` file and the socket are left to the next boot, and to the      *)
(* sweeps of `clean` and `build` (sweep.rs), which tell a dead owner by    *)
(* the lock it no longer holds.                                            *)
(*                                                                         *)
(* A process runs one command.  The kernel gives a directory and a socket  *)
(* file an identity that its path does not have: a directory is an inode   *)
(* number, a socket the process that bound it.  Removing a directory tree  *)
(* is one step.                                                            *)
(***************************************************************************)
EXTENDS Naturals, FiniteSets

CONSTANTS
  Procs,      \* compostbin processes, one command each
  NoProc,     \* no process
  Commands    \* what they may be started for, a subset of AllCommands

AllCommands == {"run", "build", "clean", "clean --all"}

ASSUME ProcsAssumption == IsFiniteSet(Procs) /\ NoProc \notin Procs
ASSUME CommandsAssumption == Commands \subseteq AllCommands

VARIABLES
  pc,         \* where a process is
  command,    \* what it was started for
  directory,  \* the container's directory at its path; inode 0: there is none
  inodes,     \* directories made so far
  wanted,     \* the inode whose `.owner` a process has open
  lock,       \* the inode whose `.owner` it has locked
  socket,     \* the process that bound the control socket at its path
  peer,       \* the process a client is attached to
  order       \* what the users did so far, see Start

fileVars == <<directory, inodes, socket>>
procVars == <<command, wanted, lock, peer>>
vars == <<pc, fileVars, procVars, order>>

\* boot, then bind; a VM lives from "inspecting" on.
Booting == {"clearing", "making", "opening", "locking", "cloning", "starting"}
Running == {"inspecting", "unlinking", "binding", "serving"}
Joining == {"probing", "connecting"}
Sweeping == {"sweeping", "removing", "emptying"}
Ended == {"done", "refused", "failed"}
States == {"idle", "attached"} \cup Booting \cup Running \cup Joining \cup Sweeping \cup Ended

NoDirectory == [inode |-> 0, owner |-> FALSE, rootfs |-> FALSE, young |-> FALSE]
Exists == directory.inode # 0

Live(p) == pc[p] \in Running

Init ==
  /\ pc = [p \in Procs |-> "idle"]
  /\ command = [p \in Procs |-> "none"]
  /\ directory = NoDirectory /\ inodes = 0
  /\ wanted = [p \in Procs |-> 0] /\ lock = [p \in Procs |-> 0]
  /\ socket = NoProc
  /\ peer = [p \in Procs |-> NoProc]
  /\ order = "calm"

\* control::served: the file outlives its listener, and only a connect tells.
Served == socket # NoProc /\ pc[socket] = "serving"

Go(p, from, to) == pc[p] = from /\ pc' = [pc EXCEPT ![p] = to]

\* The kernel drops a process's locks, listener and VM with it.
\* Mutant: a lock that stays with the file, as a pid in it would.
Leaked(p) == lock
Released(p) == [lock EXCEPT ![p] = 0]

End(p, how) ==
  /\ pc' = [pc EXCEPT ![p] = how]
  /\ command' = [command EXCEPT ![p] = "none"]
  /\ wanted' = [wanted EXCEPT ![p] = 0] /\ lock' = Released(p)
  /\ peer' = [peer EXCEPT ![p] = NoProc]
  /\ UNCHANGED <<order, fileVars>>

-----------------------------------------------------------------------------
(* Session::run: join, or boot.                                              *)

\* Mutant: only the containers of this process count.
KnownHere(p) == Live(p)
IsRunning(p) == Served

\* Users are calm while they start a command only when no other boots, joins or
\* sweeps, and none is `clean --all`.  The code does not know: `order` is a
\* history variable for the properties.
UnderWay(q) == pc[q] \notin {"idle", "attached", "serving"} \cup Ended

Order(c) ==
  IF \E q \in Procs : UnderWay(q) THEN "hasty"
  ELSE IF order = "calm" /\ c = "clean --all" THEN "thorough"
  ELSE order

Start(p) ==
  \E c \in Commands :
    /\ Go(p, "idle", IF c = "run" THEN "probing" ELSE "sweeping")
    /\ command' = [command EXCEPT ![p] = c]
    /\ order' = Order(c)
    /\ UNCHANGED <<fileVars, wanted, lock, peer>>

Probe(p) ==
  /\ Go(p, "probing", IF IsRunning(p) THEN "connecting" ELSE "clearing")
  /\ UNCHANGED <<order, fileVars, procVars>>

\* control::request.
Connect(p) ==
  /\ Served
  /\ Go(p, "connecting", "attached")
  /\ peer' = [peer EXCEPT ![p] = socket]
  /\ UNCHANGED <<order, fileVars, command, wanted, lock>>

\* The owner left between the probe and the connect.
Refused(p) ==
  /\ pc[p] = "connecting" /\ ~Served
  /\ End(p, "refused")

\* boot: whatever a previous run left is removed, whoever uses it.
Clear(p) ==
  /\ Go(p, "clearing", "making")
  /\ directory' = NoDirectory
  /\ UNCHANGED <<order, inodes, socket, procVars>>

\* create_dir_all.
Make(p) ==
  /\ Go(p, "making", "opening")
  /\ IF Exists
       THEN UNCHANGED <<directory, inodes>>
       ELSE /\ inodes' = inodes + 1
            /\ directory' = [NoDirectory EXCEPT !.inode = inodes + 1, !.young = TRUE]
  /\ UNCHANGED <<order, socket, procVars>>

\* sweep::claim opens, and then locks.
OpenOwner(p) ==
  /\ Exists
  /\ Go(p, "opening", "locking")
  /\ directory' = [directory EXCEPT !.owner = TRUE]
  /\ wanted' = [wanted EXCEPT ![p] = directory.inode]
  /\ UNCHANGED <<order, inodes, socket, command, lock, peer>>

\* A second holder of the same file waits for as long as the first lives.
LockOwner(p) ==
  /\ \A q \in Procs : lock[q] # wanted[p]
  /\ Go(p, "locking", "cloning")
  /\ lock' = [lock EXCEPT ![p] = wanted[p]]
  /\ UNCHANGED <<order, fileVars, command, wanted, peer>>

\* Unpacked::rootfs, into whatever directory now has the path.
CloneRootfs(p) ==
  /\ Exists
  /\ Go(p, "cloning", "starting")
  /\ directory' = [directory EXCEPT !.rootfs = TRUE]
  /\ UNCHANGED <<order, inodes, socket, procVars>>

StartVm(p) ==
  /\ directory.rootfs
  /\ Go(p, "starting", "inspecting")
  /\ UNCHANGED <<order, fileVars, procVars>>

\* The directory went meanwhile: boot returns an error and the process ends.
BootFails(p) ==
  /\ \/ pc[p] \in {"opening", "cloning"} /\ ~Exists
     \/ pc[p] = "starting" /\ ~directory.rootfs
  /\ End(p, "failed")

-----------------------------------------------------------------------------
(* serve_control_socket.                                                     *)

\* Mutant: a socket file of a dead owner is left alone.
NeverStale == FALSE
Stale == socket # NoProc /\ ~Served

Inspect(p) ==
  /\ Go(p, "inspecting", IF Stale THEN "unlinking" ELSE "binding")
  /\ UNCHANGED <<order, fileVars, procVars>>

\* By its path: another owner may have bound it since.
Unlink(p) ==
  /\ socket # NoProc
  /\ Go(p, "unlinking", "binding")
  /\ socket' = NoProc
  /\ UNCHANGED <<order, directory, inodes, procVars>>

Bind(p) ==
  /\ socket = NoProc
  /\ Go(p, "binding", "serving")
  /\ socket' = p
  /\ UNCHANGED <<order, directory, inodes, procVars>>

\* remove_file finds nothing, or bind finds the address in use.
BindFails(p) ==
  /\ \/ pc[p] = "unlinking" /\ socket = NoProc
     \/ pc[p] = "binding" /\ socket # NoProc
  /\ End(p, "failed")

-----------------------------------------------------------------------------
(* The session's life and end.                                               *)

\* The owner's own command ended, or an error of launch came first.
Leave(p) == pc[p] = "serving" /\ End(p, "done")

\* A client's command ended: it has its exit code.
Detach(p) == pc[p] = "attached" /\ Live(peer[p]) /\ End(p, "done")

\* Mutant: the loss of an owner that crashed goes unnoticed.
LeftCleanly(p) == pc[peer[p]] = "done"
PeerGone(p) == ~Live(peer[p])

\* read_exact fails on the closed connection.
Drop(p) == pc[p] = "attached" /\ PeerGone(p) /\ End(p, "refused")

\* Killed, at any point.
Crash(p) == pc[p] \notin {"idle"} \cup Ended /\ End(p, "refused")

-----------------------------------------------------------------------------
(* sweep::abandoned, and Session::clean.                                     *)

Lockless == \A q \in Procs : lock[q] # directory.inode

\* `build` passes no runtime directory: nothing then tells an unclaimed one is dead.
Unanswered(p) == command[p] # "build" /\ ~Served

\* Mutant: age alone decides.
Expired(p) == ~directory.young
OwnerGone(p) ==
  IF directory.owner THEN Lockless ELSE ~directory.young /\ Unanswered(p)

Look(p) ==
  /\ Go(p, "sweeping", IF Exists /\ OwnerGone(p) THEN "removing" ELSE "emptying")
  /\ UNCHANGED <<order, fileVars, procVars>>

\* By its path, after the look.
Remove(p) ==
  /\ Go(p, "removing", "emptying")
  /\ directory' = NoDirectory
  /\ UNCHANGED <<order, inodes, socket, procVars>>

\* Mutant: the state directory goes in any case.
AnyClean(p) == command[p] # "build"
RemovesState(p) == command[p] = "clean --all"

\* Session::clean: --all removes the state directory and the socket in it;
\* without it the spool is emptied in place (HostSpool).
Empty(p) ==
  /\ Go(p, "emptying", "done")
  /\ socket' = IF RemovesState(p) THEN NoProc ELSE socket
  /\ command' = [command EXCEPT ![p] = "none"]
  /\ UNCHANGED <<order, directory, inodes, wanted, lock, peer>>

\* An unclaimed directory outlives its grace.
Age ==
  /\ Exists /\ directory.young
  /\ directory' = [directory EXCEPT !.young = FALSE]
  /\ UNCHANGED <<order, pc, inodes, socket, procVars>>

-----------------------------------------------------------------------------
Join(p) == Probe(p) \/ Connect(p) \/ Refused(p)

Boot(p) ==
  \/ Clear(p) \/ Make(p) \/ OpenOwner(p) \/ LockOwner(p)
  \/ CloneRootfs(p) \/ StartVm(p) \/ BootFails(p)

Serve(p) == Inspect(p) \/ Unlink(p) \/ Bind(p) \/ BindFails(p)

Sweep(p) == Look(p) \/ Remove(p) \/ Empty(p)

Next ==
  \/ \E p \in Procs :
       \/ Start(p) \/ Join(p) \/ Boot(p) \/ Serve(p) \/ Sweep(p)
       \/ Leave(p) \/ Detach(p) \/ Drop(p) \/ Crash(p)
  \/ Age

Spec == Init /\ [][Next]_vars

\* What a process does by itself it goes on doing.  Users start and leave
\* sessions, and commands end, as they like.
Fairness ==
  \A p \in Procs : WF_vars(Join(p) \/ Boot(p) \/ Serve(p) \/ Sweep(p) \/ Drop(p))

FairSpec == Spec /\ Fairness

-----------------------------------------------------------------------------
Inodes == 0..Cardinality(Procs)

\* A lock is held from LockOwner until its process ends, and by none other.
TypeOK ==
  /\ pc \in [Procs -> States]
  /\ command \in [Procs -> Commands \cup {"none"}]
  /\ directory \in [inode : Inodes, owner : BOOLEAN, rootfs : BOOLEAN, young : BOOLEAN]
  /\ inodes \in Inodes
  /\ wanted \in [Procs -> Inodes]
  /\ lock \in [Procs -> Inodes]
  /\ \A p \in Procs : lock[p] # 0 <=> pc[p] \in {"cloning", "starting"} \cup Running
  /\ socket \in Procs \cup {NoProc}
  /\ peer \in [Procs -> Procs \cup {NoProc}]
  /\ order \in {"calm", "thorough", "hasty"}

\* A project has one VM: whoever comes while there is one joins it, whatever
\* crashes left behind of earlier ones (Session::run, is_running).
OneVm == \A p, q \in Procs : Live(p) /\ Live(q) => p = q

OneVmWhenCalm == order = "calm" => OneVm

\* Joining a running session is not a matter of which commands came before.
OneVmUnlessHasty == order # "hasty" => OneVm

\* The directory a VM runs from is the one its process locked, with its rootfs:
\* no sweep and no boot removes it while the VM lives (sweep::abandoned, boot).
KeptWhileLive ==
  order = "calm" =>
    \A p \in Procs : Live(p) => directory.inode = lock[p] /\ directory.rootfs

\* An owner that serves is the one clients reach (control::bind).
OwnerReachable ==
  order = "calm" => \A p \in Procs : pc[p] = "serving" => socket = p

\* Nothing that an exit, or a crash at any step, leaves behind stops the next
\* boot (boot, control::bind).
LaunchesSucceed ==
  order # "hasty" => \A p \in Procs : pc[p] # "failed"

\* However commands overlap, each ends, serves, is attached to a living owner,
\* or waits for the lock of one: no client outlives its session, and only
\* an owner that goes on can hold a boot up (control::request, sweep::claim).
CommandsSettle ==
  \A p \in Procs :
    (pc[p] # "idle") ~>
      \/ pc[p] \in Ended \cup {"serving"}
      \/ pc[p] = "attached" /\ Live(peer[p])
      \/ pc[p] = "locking" /\ \E q \in Procs : pc[q] = "serving" /\ lock[q] = wanted[p]
=============================================================================
