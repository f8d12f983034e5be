------------------------------ MODULE HostStdin ------------------------------
(***************************************************************************)
(* Standard input of one host command: the guest client's background       *)
(* forwarder appends it to `<id>.in` and marks its end with `<id>.in.eof`; *)
(* the worker's pump polls both and writes what is new to the command's    *)
(* pipe or pseudo-terminal.  Input arrives in units numbered from 1, so    *)
(* that a lost, repeated or swapped one shows.  The command reads or not   *)
(* as it likes, ends when it likes, and may leave a process behind that    *)
(* still has its input open.                                               *)
(***************************************************************************)
EXTENDS Naturals, Sequences

CONSTANTS
  MaxInput,   \* bound: units the guest's input yields
  Capacity,   \* units the pipe or terminal holds before a writer blocks
  Sinks,      \* what the command is started on, of "pipe" and "terminal"
  Heirs       \* TRUE: the command may leave its input to another process

ASSUME InputAssumption == MaxInput \in Nat /\ Capacity \in Nat \ {0}
ASSUME SinksAssumption == Sinks \subseteq {"pipe", "terminal"} /\ Heirs \in BOOLEAN

VARIABLES
  source,     \* the guest's input: its units so far, and whether it has ended
  forwarder,  \* the client's background job
  file,       \* `<id>.in`
  eof,        \* `<id>.in.eof` exists
  client,     \* the client waits for the status, or has left
  sink,       \* pipe or terminal
  queue,      \* units written to it and not read
  holders,    \* processes with the reading end open
  pump,       \* the stdin thread's place in its loop
  ended,      \* what it saw before it read the file
  offset,     \* units read from the file so far
  buffer,     \* units read and not written yet
  finished,   \* the worker's flag: the command was waited for
  got,        \* units the command read
  sawEnd      \* the command read end-of-file

guestVars == <<source, forwarder, client>>
fileVars == <<file, eof>>
pumpVars == <<pump, ended, offset, buffer>>
commandVars == <<sink, holders, finished, got, sawEnd>>
vars == <<guestVars, fileVars, pumpVars, commandVars, queue>>

Init ==
  /\ source = [units |-> 0, open |-> TRUE]
  /\ forwarder = "copying" /\ client = "waiting"
  /\ file = <<>> /\ eof = FALSE
  /\ sink \in Sinks
  /\ queue = <<>>
  /\ holders = {"command"}
  /\ pump = "checking" /\ ended = FALSE /\ offset = 0 /\ buffer = <<>>
  /\ finished = FALSE
  /\ got = <<>> /\ sawEnd = FALSE

-----------------------------------------------------------------------------
(* The guest.                                                                *)

Type ==
  /\ source.open /\ source.units < MaxInput
  /\ source' = [source EXCEPT !.units = @ + 1]
  /\ UNCHANGED <<forwarder, client, fileVars, pumpVars, commandVars, queue>>

EndInput ==
  /\ source.open
  /\ source' = [source EXCEPT !.open = FALSE]
  /\ UNCHANGED <<forwarder, client, fileVars, pumpVars, commandVars, queue>>

\* cat <&3 >> "$input": what it has read goes to the end of the file.
Forward ==
  /\ forwarder = "copying" /\ Len(file) < source.units
  /\ file' = Append(file, Len(file) + 1)
  /\ UNCHANGED <<guestVars, eof, pumpVars, commandVars, queue>>

\* cat has ended.
MarkEnd ==
  /\ forwarder = "copying" /\ ~source.open /\ Len(file) = source.units
  /\ eof' = TRUE
  /\ forwarder' = "done"
  /\ UNCHANGED <<source, client, file, pumpVars, commandVars, queue>>

\* Mutant: the worker writes the status before it joined the stdin thread.
LeavesEarly ==
  /\ client = "waiting" /\ finished
  /\ client' = "left"
  /\ forwarder' = "done"
  /\ file' = <<>> /\ eof' = FALSE
  /\ UNCHANGED <<source, pumpVars, commandVars, queue>>

\* The status, which waits for the stdin thread, is there: the client kills the
\* forwarder and removes both files.
ClientLeaves ==
  /\ client = "waiting" /\ pump = "done" /\ finished
  /\ client' = "left"
  /\ forwarder' = "done"
  /\ file' = <<>> /\ eof' = FALSE
  /\ UNCHANGED <<source, pumpVars, commandVars, queue>>

-----------------------------------------------------------------------------
(* The pump.                                                                 *)

\* What is new in the file.  Mutant: its offset is never advanced.
FromStart == file
NewInput == SubSeq(file, offset + 1, Len(file))

\* Mutant: only the marker counts.
MarkedOnly == eof
MustEnd == eof \/ finished

\* Mutants: the marker is looked for after the file is read, or not at all.
EndSeenLate == eof \/ finished
EndUnseen == ended /\ finished
EndSeen == ended

HasRoom == Len(queue) < Capacity

CheckEnd ==
  /\ pump = "checking"
  /\ ended' = MustEnd
  /\ pump' = "reading"
  /\ UNCHANGED <<offset, buffer, guestVars, fileVars, commandVars, queue>>

\* Opened, sought, read to the end; the marker seen BEFORE decides what follows.
ReadInput ==
  /\ pump = "reading"
  /\ buffer' = NewInput
  /\ offset' = Len(file)
  /\ pump' = "writing"
  /\ UNCHANGED <<ended, guestVars, fileVars, commandVars, queue>>

\* write_all goes on as the pipe has room.
WriteInput ==
  /\ pump = "writing" /\ buffer # <<>>
  /\ holders # {} /\ HasRoom
  /\ queue' = Append(queue, Head(buffer))
  /\ buffer' = Tail(buffer)
  /\ UNCHANGED <<pump, ended, offset, guestVars, fileVars, commandVars>>

\* Nobody is left to read: the write fails, and the thread returns.
WriteFails ==
  /\ pump = "writing" /\ buffer # <<>> /\ holders = {}
  /\ pump' = "done"
  /\ buffer' = <<>>
  /\ UNCHANGED <<ended, offset, guestVars, fileVars, commandVars, queue>>

\* Returning drops the sink; otherwise the loop sleeps and goes round.
Written ==
  /\ pump = "writing" /\ buffer = <<>>
  /\ pump' = IF EndSeen THEN "done" ELSE "checking"
  /\ UNCHANGED <<ended, offset, buffer, guestVars, fileVars, commandVars, queue>>

Pump == CheckEnd \/ ReadInput \/ WriteInput \/ WriteFails \/ Written

-----------------------------------------------------------------------------
(* The command, and the worker that waits for it.                            *)

ReadSink ==
  /\ "command" \in holders /\ queue # <<>>
  /\ got' = Append(got, Head(queue))
  /\ queue' = Tail(queue)
  /\ UNCHANGED <<guestVars, fileVars, pumpVars, sink, holders, finished, sawEnd>>

\* A pipe without a writer is at its end.  A terminal whose master is dropped
\* here is not: the worker's reader holds a copy of it.
ReadEnd ==
  /\ sink = "pipe" /\ pump = "done" /\ queue = <<>>
  /\ "command" \in holders /\ ~sawEnd
  /\ sawEnd' = TRUE
  /\ UNCHANGED <<guestVars, fileVars, pumpVars, sink, holders, finished, got, queue>>

CommandEnds ==
  /\ "command" \in holders
  /\ holders' \in {{}} \cup (IF Heirs THEN {{"heir"}} ELSE {})
  /\ UNCHANGED <<guestVars, fileVars, pumpVars, sink, finished, got, sawEnd, queue>>

HeirEnds ==
  /\ "heir" \in holders
  /\ holders' = holders \ {"heir"}
  /\ UNCHANGED <<guestVars, fileVars, pumpVars, sink, finished, got, sawEnd, queue>>

\* child.wait() has returned.
SetFinished ==
  /\ ~finished /\ "command" \notin holders
  /\ finished' = TRUE
  /\ UNCHANGED <<guestVars, fileVars, pumpVars, sink, holders, got, sawEnd, queue>>

-----------------------------------------------------------------------------
Next ==
  \/ Type \/ EndInput \/ Forward \/ MarkEnd \/ ClientLeaves
  \/ Pump
  \/ ReadSink \/ ReadEnd \/ CommandEnds \/ HeirEnds \/ SetFinished

Spec == Init /\ [][Next]_vars

\* Scripts and threads run on.  A command that is waiting for input reads what
\* comes; it need not end, nor read while it has something else to do: only
\* PatientSpec has it read to the end.
Fairness ==
  /\ WF_vars(Forward) /\ WF_vars(MarkEnd) /\ WF_vars(ClientLeaves)
  /\ WF_vars(Pump) /\ WF_vars(SetFinished)

FairSpec == Spec /\ Fairness

Patience == WF_vars(ReadSink) /\ WF_vars(ReadEnd) /\ WF_vars(HeirEnds)

PatientSpec == FairSpec /\ Patience

-----------------------------------------------------------------------------
Units == 1..MaxInput

Typed ==
  /\ source \in [units : 0..MaxInput, open : BOOLEAN]
  /\ forwarder \in {"copying", "done"} /\ client \in {"waiting", "left"}
  /\ file \in Seq(Units) /\ eof \in BOOLEAN
  /\ sink \in Sinks
  /\ queue \in Seq(Units)
  /\ holders \subseteq {"command", "heir"}
  /\ pump \in {"checking", "reading", "writing", "done"}
  /\ ended \in BOOLEAN /\ offset \in 0..MaxInput /\ buffer \in Seq(Units)
  /\ finished \in BOOLEAN
  /\ got \in Seq(Units) /\ sawEnd \in BOOLEAN

\* And a pump that runs has not read further than its file goes: the client
\* removes `<id>.in` behind the status alone, and the status waits for the pump
\* (seek, pump_stdin; a file that shrank would be read from a hole).
TypeOK == Typed /\ (pump # "done" => offset <= Len(file))

\* Every unit is somewhere on its way exactly once, in order: what the command
\* read, the pipe, the pump's buffer and the rest of the file are the input the
\* forwarder took, until the first write error or the client's departure.
InputOnTheWay ==
  client = "waiting" /\ ~(pump = "done" /\ holders = {})
    => got \o queue \o buffer = SubSeq([n \in 1..Len(file) |-> n], 1, offset)

\* A command that reads end-of-file has read all the guest's input: pump_stdin
\* looks for the marker before it reads, and the forwarder marks last.
EndMeansAll ==
  sawEnd => ~source.open /\ got = [n \in 1..source.units |-> n]

\* Input ends for the command when it ends for the guest.
EndArrives == ~source.open ~> (sawEnd \/ "command" \notin holders)

\* The stdin thread does not outlive the command for good: the status waits for
\* it (an heir of the input ends, by assumption).
PumpReturns == finished ~> pump = "done"
=============================================================================
