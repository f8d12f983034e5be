----------------------------- MODULE MCHostSpool -----------------------------
(* Instances of HostSpool, and what it implements. *)
EXTENDS HostSpoolRefinement, TLC

Succeeds == [signalled |-> FALSE, number |-> 0]
Killed == [signalled |-> TRUE, number |-> 2]
SomeExits == {Succeeds, Killed}
OneExit == {Succeeds}

Writes(out, err) == [s \in Streams |-> IF s = "out" THEN out ELSE err]
\* One talkative command, and others that only hold a slot.
OneWriter == [c \in Calls |-> IF c = 1 THEN Writes(2, 1) ELSE Writes(0, 0)]
BothStreams == [c \in Calls |-> IF c = 1 THEN Writes(1, 1) ELSE Writes(0, 0)]
FewWrites == [c \in Calls |-> IF c = 1 THEN Writes(1, 0) ELSE Writes(0, 0)]
\* More chunks than a two-digit binary name can number.
ManyWrites == [c \in Calls |-> Writes(4, 0)]

MCReplies ==
  [code : ExitCodes,
   output : [Streams -> {<<>>, <<1>>, <<2>>, <<1, 2>>}]]

\* Host processes are interchangeable: no property names one.
AnyHost == Permutations(Hosts)
=============================================================================
