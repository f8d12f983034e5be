------------------------- MODULE HostSpoolRefinement -------------------------
(***************************************************************************)
(* The spool implements HostCall.  A call is "taken" when an agent renames *)
(* its request, "finished" when its worker has joined every reader of the  *)
(* command, and "answered" when the client script exits with the status.   *)
(***************************************************************************)
EXTENDS HostSpool

CONSTANT Replies  \* exit codes with the output of both streams

NothingSeen == [s \in Streams |-> <<>>]
NoReply == [code |-> NoCode, output |-> NothingSeen]

ASSUME RepliesAssumption == NoReply \notin Replies

\* The worker is past the join, and can only report.
Concluded(c) ==
  worker[c] \in {"replying", "removing"} \/ (worker[c] = "done" /\ code[c] # NoCode)

Phase(c) ==
  CASE client[c] = "returned" -> "answered"
    [] client[c] \in {"gone", "failed"} -> "lost"
    [] client[c] \in {"idle", "drafted"} -> "idle"
    [] OTHER -> IF Concluded(c) THEN "finished"
                ELSE IF worker[c] = "none" THEN "asked" ELSE "taken"

Result(c) ==
  IF Phase(c) \in {"finished", "answered"}
  THEN [code |-> code[c], output |-> Output(c)]
  ELSE NoReply

Told(c) ==
  IF Phase(c) = "answered" THEN [code |-> exit[c], output |-> seen[c]] ELSE NoReply

Call ==
  INSTANCE HostCall WITH
    Results <- Replies, NoResult <- NoReply,
    phase <- [c \in Calls |-> Phase(c)],
    result <- [c \in Calls |-> Result(c)],
    reply <- [c \in Calls |-> Told(c)],
    lasting <- {c \in Calls : Undisturbed(c)}

\* While the owner lasts, the spool gives each caller what HostCall promises:
\* at most one execution, and the whole result with the status.
ImplementsHostCall == Call!Spec
=============================================================================
