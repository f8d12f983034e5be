------------------------------- MODULE HostCall -------------------------------
(***************************************************************************)
(* What the host-command channel promises its callers: a call is carried   *)
(* out at most once, and a caller that gets an answer while its session    *)
(* lasts gets the whole result, output and exit status together.  A caller *)
(* may also be lost, with its VM or by an interrupt; what becomes of its   *)
(* command is then nobody's to see.                                        *)
(***************************************************************************)
CONSTANTS Calls, Results, NoResult

VARIABLES
  phase,   \* how far each call is
  result,  \* what carrying it out came to
  reply,   \* what the caller was told
  lasting  \* calls whose session has not begun to clean up

vars == <<phase, result, reply, lasting>>

Init ==
  /\ phase = [c \in Calls |-> "idle"]
  /\ result = [c \in Calls |-> NoResult]
  /\ reply = [c \in Calls |-> NoResult]
  /\ lasting = Calls

Advance(c, from, to) == phase[c] = from /\ phase' = [phase EXCEPT ![c] = to]

Ask(c) == Advance(c, "idle", "asked") /\ UNCHANGED <<result, reply, lasting>>

Take(c) == Advance(c, "asked", "taken") /\ UNCHANGED <<result, reply, lasting>>

Finish(c) ==
  /\ Advance(c, "taken", "finished")
  /\ \E r \in Results : result' = [result EXCEPT ![c] = r]
  /\ UNCHANGED <<reply, lasting>>

Answer(c) ==
  /\ Advance(c, "finished", "answered")
  /\ \E r \in Results :
       /\ c \in lasting => r = result[c]
       /\ reply' = [reply EXCEPT ![c] = r]
  /\ UNCHANGED <<result, lasting>>

\* Callers go one by one, or all of a VM together.
Lose ==
  /\ \E lost \in SUBSET {c \in Calls : phase[c] # "answered"} :
       /\ phase' = [c \in Calls |-> IF c \in lost THEN "lost" ELSE phase[c]]
       /\ result' = [c \in Calls |-> IF c \in lost THEN NoResult ELSE result[c]]
  /\ lasting' \in SUBSET Calls
  /\ UNCHANGED reply

Next == Lose \/ \E c \in Calls : Ask(c) \/ Take(c) \/ Finish(c) \/ Answer(c)

Spec == Init /\ [][Next]_vars
=============================================================================
