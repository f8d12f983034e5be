------------------------------- MODULE Attach --------------------------------
(***************************************************************************)
(* A command run in the guest for a process, with its terminal             *)
(* (containerization/mod.rs, control.rs and terminal.rs).  The owner of    *)
(* the VM attaches by itself; a client asks over the control socket and    *)
(* passes its terminal, and the owner attends to it in a thread.  The      *)
(* guest has a terminal of its own, whose size has to follow: once at the  *)
(* start, and then on every SIGWINCH, which only sets a flag that a        *)
(* thread of the process polls.  A client's sends a nudge for each, and    *)
(* the owner reads the size off the terminal it was passed.                *)
(*                                                                         *)
(* A window's size is the number of changes it went through.               *)
(***************************************************************************)
EXTENDS Processes

CONSTANT MaxWindow   \* sizes a window has in one behaviour

ASSUME WindowAssumption == MaxWindow \in Nat \ {0}

VARIABLES
  attach,     \* where a process's command is
  window,     \* the size of its terminal
  resized,    \* its RESIZED flag
  nudges,     \* resize bytes on their way to the owner
  resizer,    \* the thread that resizes the guest's terminal, and what it read
  initial,    \* the size read at the start
  guest,      \* the size of the guest's terminal
  crossed     \* the size of the start overtook one read later

attachVars == <<attach, window, resized, nudges, resizer, initial, guest, crossed>>

Sizes == 1..MaxWindow
Default == 0
NoResizer == [at |-> "idle", size |-> Default]

AttachInit ==
  /\ attach = [p \in Procs |-> "none"]
  /\ window = [p \in Procs |-> 1]
  /\ resized = [p \in Procs |-> FALSE] /\ nudges = [p \in Procs |-> 0]
  /\ resizer = [p \in Procs |-> NoResizer]
  /\ initial = [p \in Procs |-> Default] /\ guest = [p \in Procs |-> Default]
  /\ crossed = [p \in Procs |-> FALSE]

HasTerminal(p) == p \in with.terminals
Joined(p) == pc[p] = "joined"

\* The owner that serves p's command: itself, or the one it asked.
Served(p) == IF Joined(p) THEN Owners(p) # {} ELSE HasVm(p)

AttachGoes(p, from, to) == attach[p] = from /\ attach' = [attach EXCEPT ![p] = to]

\* The map of processes holds it.
Known(p) == attach[p] \in {"created", "started", "sizing", "running", "exited"}
Alive(p) == attach[p] \in {"started", "sizing", "running"}

-----------------------------------------------------------------------------
(* exec and attach.                                                          *)

\* From `attach`'s exec on the owner knows the process.  Without a terminal
\* nothing of it is to be seen until it runs.
Attends(p) ==
  /\ AttachGoes(p, "asked", IF HasTerminal(p) THEN "created" ELSE "running")
  /\ Served(p)
  /\ UNCHANGED <<window, resized, nudges, resizer, initial, guest, crossed>>

StartProcess(p) ==
  /\ AttachGoes(p, "created", "started")
  /\ Served(p)
  /\ UNCHANGED <<window, resized, nudges, resizer, initial, guest, crossed>>

\* An error of exec or of start.
CannotStart(p) ==
  /\ Served(p) /\ Fault
  /\ AttachGoes(p, "asked", "unstarted") \/ AttachGoes(p, "created", "unstarted")
  /\ UNCHANGED <<window, resized, nudges, resizer, initial, guest, crossed>>

\* Mutant: the size of the window is taken when it next changes.
LeavesInitialSize(p) ==
  /\ AttachGoes(p, "started", "running")
  /\ Served(p)
  /\ UNCHANGED <<window, resized, nudges, resizer, initial, guest, crossed>>

\* resize, the first half.
ReadInitialSize(p) ==
  /\ AttachGoes(p, "started", "sizing")
  /\ Served(p)
  /\ initial' = [initial EXCEPT ![p] = window[p]]
  /\ UNCHANGED <<window, resized, nudges, resizer, guest, crossed>>

SetInitialSize(p) ==
  /\ AttachGoes(p, "sizing", "running")
  /\ Served(p)
  /\ guest' = [guest EXCEPT ![p] = initial[p]]
  /\ crossed' = [crossed EXCEPT ![p] = guest[p] > initial[p]]
  /\ UNCHANGED <<window, resized, nudges, resizer, initial>>

Exits(p) ==
  /\ AttachGoes(p, "running", "exited")
  /\ Served(p)
  /\ UNCHANGED <<window, resized, nudges, resizer, initial, guest, crossed>>

\* Removed from the map and deleted; a client gets the exit code, or FAILED's if
\* it did not start, and with the shutdown both ends' watchers end.
Answered(p) ==
  /\ attach[p] \in {"exited", "unstarted"} /\ (Joined(p) \/ resizer[p].at = "idle")
  /\ Served(p)
  /\ attach' = [attach EXCEPT ![p] = IF @ = "exited" \/ Joined(p) THEN "answered" ELSE "error"]
  /\ resizer' = [resizer EXCEPT ![p] = NoResizer]
  /\ nudges' = [nudges EXCEPT ![p] = 0] /\ resized' = [resized EXCEPT ![p] = FALSE]
  /\ UNCHANGED <<window, initial, guest, crossed>>

\* The connection closed under a client: read_exact fails.
OwnerGone(p) ==
  /\ Joined(p) /\ attach[p] \notin {"none", "answered", "error"} /\ Owners(p) = {}
  /\ attach' = [attach EXCEPT ![p] = "error"]
  /\ nudges' = [nudges EXCEPT ![p] = 0] /\ resized' = [resized EXCEPT ![p] = FALSE]
  /\ resizer' = [resizer EXCEPT ![p] = NoResizer]
  /\ UNCHANGED <<window, initial, guest, crossed>>

-----------------------------------------------------------------------------
(* Resizing.                                                                 *)

Attached(p) == attach[p] \notin {"none", "answered", "error"}

\* The handler is installed before the command is asked for.
WindowChanges(p) ==
  /\ HasTerminal(p) /\ Attached(p) /\ window[p] < MaxWindow
  /\ window' = [window EXCEPT ![p] = @ + 1]
  /\ resized' = [resized EXCEPT ![p] = TRUE]
  /\ UNCHANGED <<attach, nudges, resizer, initial, guest, crossed>>

\* while_resizing, in a client.
Nudge(p) ==
  /\ Joined(p) /\ Attached(p) /\ resized[p]
  /\ resized' = [resized EXCEPT ![p] = FALSE] /\ nudges' = [nudges EXCEPT ![p] = @ + 1]
  /\ UNCHANGED <<attach, window, resizer, initial, guest, crossed>>

\* A nudge read by attend's watcher, or the flag seen by the owner's own: a
\* no-op when the process is not in the map, as before it is started.
Look(p) ==
  /\ resizer[p].at = "idle" /\ Attached(p) /\ Served(p)
  /\ IF Joined(p)
       THEN nudges[p] > 0 /\ nudges' = [nudges EXCEPT ![p] = @ - 1] /\ UNCHANGED resized
       ELSE resized[p] /\ resized' = [resized EXCEPT ![p] = FALSE] /\ UNCHANGED nudges
  /\ resizer' = [resizer EXCEPT ![p].at = IF Known(p) THEN "found" ELSE "idle"]
  /\ UNCHANGED <<attach, window, initial, guest, crossed>>

ReadSize(p) ==
  /\ resizer[p].at = "found" /\ Served(p)
  /\ resizer' = [resizer EXCEPT ![p] = [at |-> "sized", size |-> window[p]]]
  /\ UNCHANGED <<attach, window, resized, nudges, initial, guest, crossed>>

\* A process that has not started, or has exited, is not resized.
Resize(p) ==
  /\ resizer[p].at = "sized" /\ Served(p)
  /\ resizer' = [resizer EXCEPT ![p] = NoResizer]
  /\ guest' = IF Alive(p) THEN [guest EXCEPT ![p] = resizer[p].size] ELSE guest
  /\ UNCHANGED <<attach, window, resized, nudges, initial, crossed>>

-----------------------------------------------------------------------------
Serves(p) ==
  /\ \/ Attends(p) \/ StartProcess(p) \/ ReadInitialSize(p) \/ SetInitialSize(p)
     \/ Answered(p) \/ OwnerGone(p)
  /\ UNCHANGED faults

Resizes(p) ==
  /\ Nudge(p) \/ Look(p) \/ ReadSize(p) \/ Resize(p)
  /\ UNCHANGED faults
=============================================================================
