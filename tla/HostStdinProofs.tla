--------------------------- MODULE HostStdinProofs ---------------------------
(***************************************************************************)
(* Proofs about HostStdin: for input of any length, through a pipe or a    *)
(* terminal of any capacity.                                               *)
(***************************************************************************)
EXTENDS HostStdin, TLAPS, SequenceTheorems

Numbers(n) == [i \in 1..n |-> i]
Pending == got \o queue \o buffer

(* The file is the input so far, and the marker says that it is all of it.   *)
FileOK ==
  /\ file = Numbers(Len(file))
  /\ client = "waiting" => Len(file) <= source.units
  /\ eof => client = "waiting" /\ forwarder = "done" /\ ~source.open /\ Len(file) = source.units

(* Who has left, and what is over by then.                                   *)
OrderOK ==
  /\ finished => "command" \notin holders
  /\ client = "left" => finished /\ pump = "done" /\ forwarder = "done"
  /\ ended => eof \/ finished

(* The pump has read all of a marked file before it writes for the last      *)
(* time, and returns with nothing in its hands.                              *)
PumpOK ==
  /\ client = "waiting" => offset <= Len(file)
  /\ pump \in {"checking", "reading"} => buffer = <<>>
  /\ "command" \in holders =>
       /\ pump = "writing" /\ ended => offset = Len(file)
       /\ pump = "done" => eof /\ offset = Len(file) /\ buffer = <<>>

(* The units are on their way in order, and an end of file is the end.       *)
WayOK == client = "waiting" /\ ~(pump = "done" /\ holders = {}) => Pending = Numbers(offset)

EndOK == sawEnd => pump = "done" /\ queue = <<>> /\ ~source.open /\ got = Numbers(source.units)

IInv == Typed /\ FileOK /\ OrderOK /\ PumpOK /\ WayOK /\ EndOK

-----------------------------------------------------------------------------
(* Sequences whose head moves from one to the next.                          *)

LEMMA MoveHead ==
  ASSUME NEW S, NEW s \in Seq(S), NEW t \in Seq(S), t # <<>>
  PROVE  Append(s, Head(t)) \o Tail(t) = s \o t
OBVIOUS

LEMMA RestTyped ==
  ASSUME NEW S, NEW f \in Seq(S), NEW k \in Nat
  PROVE  SubSeq(f, k + 1, Len(f)) \in Seq(S)
<1>1. k + 1 \in Nat /\ Len(f) \in Nat /\ \A i \in k + 1..Len(f) : f[i] \in S
  OBVIOUS
<1> QED
  BY <1>1

LEMMA ReadRest ==
  ASSUME NEW m \in Nat, NEW n \in Nat, m <= n
  PROVE  Numbers(m) \o SubSeq(Numbers(n), m + 1, n) = Numbers(n)
BY DEF Numbers

LEMMA NumbersProperties ==
  ASSUME NEW n \in Nat
  PROVE  /\ Numbers(n) \in Seq(Nat) /\ Len(Numbers(n)) = n
         /\ Append(Numbers(n), n + 1) = Numbers(n + 1)
         /\ \A m \in 0..n : SubSeq(Numbers(n), 1, m) = Numbers(m)
BY DEF Numbers

(* What these say of the file, the pipe and the pump's buffer.               *)
LEMMA InputGrows ==
  ASSUME file \in Seq(Units), file = Numbers(Len(file))
  PROVE  /\ Append(file, Len(file) + 1) = Numbers(Len(file) + 1)
         /\ Len(Append(file, Len(file) + 1)) = Len(file) + 1
<1>1. Len(file) \in Nat
  OBVIOUS
<1>2. Append(Numbers(Len(file)), Len(file) + 1) = Numbers(Len(file) + 1)
  BY <1>1, NumbersProperties
<1> QED
  BY <1>2

LEMMA UnitWritten ==
  ASSUME got \in Seq(Units), queue \in Seq(Units), buffer \in Seq(Units), buffer # <<>>
  PROVE  (got \o Append(queue, Head(buffer))) \o Tail(buffer) = (got \o queue) \o buffer
<1>1. got \o Append(queue, Head(buffer)) = Append(got \o queue, Head(buffer))
  BY HeadTailProperties
<1>2. got \o queue \in Seq(Units)
  BY ConcatProperties
<1>3. Append(got \o queue, Head(buffer)) \o Tail(buffer) = (got \o queue) \o buffer
  BY <1>2, MoveHead
<1> QED
  BY <1>1, <1>3

LEMMA UnitRead ==
  ASSUME got \in Seq(Units), queue \in Seq(Units), queue # <<>>
  PROVE  Append(got, Head(queue)) \o Tail(queue) = got \o queue
BY MoveHead

-----------------------------------------------------------------------------
LEMMA TypingStep ==
  ASSUME Typed, FileOK, OrderOK, [Next]_vars
  PROVE  Typed'
<1> USE InputAssumption, SinksAssumption DEF Typed, Units, vars, guestVars, fileVars, pumpVars, commandVars
<1>1. CASE Type
  <2>1. source.units + 1 \in 0..MaxInput
    BY <1>1 DEF Type
  <2>2. source' \in [units : 0..MaxInput, open : BOOLEAN]
    BY <1>1, <2>1 DEF Type
  <2> QED
    BY <1>1, <2>2 DEF Type
<1>2. CASE EndInput BY <1>2 DEF EndInput
<1>3. CASE Forward BY <1>3 DEF Forward
<1>4. CASE MarkEnd BY <1>4 DEF MarkEnd
<1>5. CASE ClientLeaves BY <1>5, EmptySeq DEF ClientLeaves
<1>6. CASE CheckEnd BY <1>6 DEF CheckEnd, MustEnd
<1>7. CASE ReadInput
  <2>1. client = "waiting" /\ Len(file) \in Nat /\ source.units \in 0..MaxInput
    BY <1>7 DEF ReadInput, OrderOK
  <2>2. Len(file) \in 0..MaxInput
    BY <2>1 DEF FileOK
  <2>3. NewInput \in Seq(Units)
    <3>1. file \in Seq(1..MaxInput) /\ offset \in Nat
      BY <2>1
    <3>2. SubSeq(file, offset + 1, Len(file)) \in Seq(1..MaxInput)
      BY <3>1, RestTyped
    <3> QED
      BY <3>2 DEF NewInput
  <2> QED
    BY <1>7, <2>2, <2>3 DEF ReadInput
<1>8. CASE WriteInput BY <1>8 DEF WriteInput, HasRoom
<1>9. CASE WriteFails BY <1>9 DEF WriteFails
<1>10. CASE Written BY <1>10 DEF Written, EndSeen
<1>11. CASE ReadSink BY <1>11 DEF ReadSink
<1>12. CASE ReadEnd BY <1>12 DEF ReadEnd
<1>13. CASE CommandEnds BY <1>13 DEF CommandEnds
<1>14. CASE HeirEnds BY <1>14 DEF HeirEnds
<1>15. CASE SetFinished BY <1>15 DEF SetFinished
<1>16. CASE UNCHANGED vars BY <1>16
<1> QED
  BY <1>1, <1>2, <1>3, <1>4, <1>5, <1>6, <1>7, <1>8, <1>9, <1>10, <1>11, <1>12, <1>13, <1>14, <1>15, <1>16 DEF Next, Pump

LEMMA FileStep ==
  ASSUME Typed, FileOK, OrderOK, [Next]_vars
  PROVE  FileOK'
<1> USE InputAssumption DEF Typed, FileOK, OrderOK, Units, vars, guestVars, fileVars, pumpVars, commandVars
<1>1. CASE Type
  BY <1>1 DEF Type
<1>2. CASE EndInput
  BY <1>2 DEF EndInput
<1>3. CASE Forward
  <2>1. client = "waiting" /\ ~eof
    BY <1>3 DEF Forward
  <2>2. file' = Numbers(Len(file) + 1) /\ Len(file') = Len(file) + 1
    <3>1. file \in Seq(1..MaxInput) /\ file = Numbers(Len(file)) /\ file' = Append(file, Len(file) + 1)
      BY <1>3 DEF Forward
    <3> QED
      BY <3>1, InputGrows
  <2> QED
    BY <1>3, <2>1, <2>2 DEF Forward
<1>4. CASE MarkEnd
  BY <1>4 DEF MarkEnd
<1>5. CASE ClientLeaves
  BY <1>5 DEF ClientLeaves, Numbers
<1>6. CASE CheckEnd
  BY <1>6 DEF CheckEnd
<1>7. CASE ReadInput
  BY <1>7 DEF ReadInput
<1>8. CASE WriteInput
  BY <1>8 DEF WriteInput
<1>9. CASE WriteFails
  BY <1>9 DEF WriteFails
<1>10. CASE Written
  BY <1>10 DEF Written
<1>11. CASE ReadSink
  BY <1>11 DEF ReadSink
<1>12. CASE ReadEnd
  BY <1>12 DEF ReadEnd
<1>13. CASE CommandEnds
  BY <1>13 DEF CommandEnds
<1>14. CASE HeirEnds
  BY <1>14 DEF HeirEnds
<1>15. CASE SetFinished
  BY <1>15 DEF SetFinished
<1>16. CASE UNCHANGED vars
  BY <1>16
<1> QED
  BY <1>1, <1>2, <1>3, <1>4, <1>5, <1>6, <1>7, <1>8, <1>9, <1>10, <1>11, <1>12, <1>13, <1>14, <1>15, <1>16 DEF Next, Pump

LEMMA OrderStep ==
  ASSUME Typed, FileOK, OrderOK, [Next]_vars
  PROVE  OrderOK'
<1> USE InputAssumption DEF Typed, FileOK, OrderOK, vars, guestVars, fileVars, pumpVars, commandVars
<1>1. CASE Type
  BY <1>1 DEF Type
<1>2. CASE EndInput
  BY <1>2 DEF EndInput
<1>3. CASE Forward
  BY <1>3 DEF Forward
<1>4. CASE MarkEnd
  BY <1>4 DEF MarkEnd
<1>5. CASE ClientLeaves
  BY <1>5 DEF ClientLeaves
<1>6. CASE CheckEnd
  BY <1>6 DEF CheckEnd, MustEnd
<1>7. CASE ReadInput
  BY <1>7 DEF ReadInput
<1>8. CASE WriteInput
  BY <1>8 DEF WriteInput
<1>9. CASE WriteFails
  BY <1>9 DEF WriteFails
<1>10. CASE Written
  BY <1>10 DEF Written
<1>11. CASE ReadSink
  BY <1>11 DEF ReadSink
<1>12. CASE ReadEnd
  BY <1>12 DEF ReadEnd
<1>13. CASE CommandEnds
  BY <1>13 DEF CommandEnds
<1>14. CASE HeirEnds
  BY <1>14 DEF HeirEnds
<1>15. CASE SetFinished
  BY <1>15 DEF SetFinished
<1>16. CASE UNCHANGED vars
  BY <1>16
<1> QED
  BY <1>1, <1>2, <1>3, <1>4, <1>5, <1>6, <1>7, <1>8, <1>9, <1>10, <1>11, <1>12, <1>13, <1>14, <1>15, <1>16 DEF Next, Pump

LEMMA PumpStep ==
  ASSUME Typed, FileOK, OrderOK, PumpOK, [Next]_vars
  PROVE  PumpOK'
<1> USE InputAssumption DEF Typed, FileOK, OrderOK, PumpOK, vars, guestVars, fileVars, pumpVars, commandVars
<1>1. CASE Type
  BY <1>1 DEF Type
<1>2. CASE EndInput
  BY <1>2 DEF EndInput
<1>3. CASE Forward
  BY <1>3 DEF Forward
<1>4. CASE MarkEnd
  BY <1>4 DEF MarkEnd
<1>5. CASE ClientLeaves
  BY <1>5 DEF ClientLeaves
<1>6. CASE CheckEnd
  BY <1>6 DEF CheckEnd
<1>7. CASE ReadInput
  BY <1>7 DEF ReadInput
<1>8. CASE WriteInput
  BY <1>8 DEF WriteInput
<1>9. CASE WriteFails
  BY <1>9 DEF WriteFails
<1>10. CASE Written
  BY <1>10 DEF Written, EndSeen
<1>11. CASE ReadSink
  BY <1>11 DEF ReadSink
<1>12. CASE ReadEnd
  BY <1>12 DEF ReadEnd
<1>13. CASE CommandEnds
  BY <1>13 DEF CommandEnds
<1>14. CASE HeirEnds
  BY <1>14 DEF HeirEnds
<1>15. CASE SetFinished
  BY <1>15 DEF SetFinished
<1>16. CASE UNCHANGED vars
  BY <1>16
<1> QED
  BY <1>1, <1>2, <1>3, <1>4, <1>5, <1>6, <1>7, <1>8, <1>9, <1>10, <1>11, <1>12, <1>13, <1>14, <1>15, <1>16 DEF Next, Pump

LEMMA WayStep ==
  ASSUME Typed, FileOK, OrderOK, PumpOK, WayOK, [Next]_vars
  PROVE  WayOK'
<1> USE InputAssumption DEF Typed, OrderOK, PumpOK, WayOK, Pending, vars, guestVars, fileVars, pumpVars, commandVars
<1>1. CASE Type
  BY <1>1 DEF Type
<1>2. CASE EndInput
  BY <1>2 DEF EndInput
<1>3. CASE Forward
  BY <1>3 DEF Forward
<1>4. CASE MarkEnd
  BY <1>4 DEF MarkEnd
<1>5. CASE ClientLeaves
  BY <1>5 DEF ClientLeaves
<1>6. CASE CheckEnd
  BY <1>6 DEF CheckEnd
<1>7. CASE ReadInput
  <2>1. /\ client = "waiting" /\ buffer = <<>> /\ offset \in 0..Len(file)
        /\ UNCHANGED <<got, queue>> /\ offset' = Len(file) /\ buffer' = SubSeq(file, offset + 1, Len(file))
    BY <1>7 DEF ReadInput, NewInput
  <2>2. got \o queue = Numbers(offset)
    BY <1>7, <2>1, ConcatEmptySeq, ConcatProperties DEF ReadInput
  <2>3. Numbers(offset) \o SubSeq(file, offset + 1, Len(file)) = Numbers(Len(file))
    <3>1. Len(file) \in Nat /\ offset \in Nat /\ offset <= Len(file) /\ file = Numbers(Len(file))
      BY <2>1 DEF FileOK
    <3>2. Numbers(offset) \o SubSeq(Numbers(Len(file)), offset + 1, Len(file)) = Numbers(Len(file))
      BY <3>1, ReadRest
    <3> QED
      BY <3>1, <3>2
  <2> QED
    BY <2>1, <2>2, <2>3
<1>8. CASE WriteInput
  <2>1. (got \o Append(queue, Head(buffer))) \o Tail(buffer) = (got \o queue) \o buffer
    <3>1. got \in Seq(Units) /\ queue \in Seq(Units) /\ buffer \in Seq(Units) /\ buffer # <<>>
      BY <1>8 DEF WriteInput
    <3> QED
      BY <3>1, UnitWritten
  <2> QED
    BY <1>8, <2>1 DEF WriteInput
<1>9. CASE WriteFails
  BY <1>9 DEF WriteFails
<1>10. CASE Written
  BY <1>10 DEF Written
<1>11. CASE ReadSink
  <2>1. Append(got, Head(queue)) \o Tail(queue) = got \o queue
    <3>1. got \in Seq(Units) /\ queue \in Seq(Units) /\ queue # <<>>
      BY <1>11 DEF ReadSink
    <3> QED
      BY <3>1, UnitRead
  <2> QED
    BY <1>11, <2>1 DEF ReadSink
<1>12. CASE ReadEnd
  BY <1>12 DEF ReadEnd
<1>13. CASE CommandEnds
  BY <1>13 DEF CommandEnds
<1>14. CASE HeirEnds
  BY <1>14 DEF HeirEnds
<1>15. CASE SetFinished
  BY <1>15 DEF SetFinished
<1>16. CASE UNCHANGED vars
  BY <1>16
<1> QED
  BY <1>1, <1>2, <1>3, <1>4, <1>5, <1>6, <1>7, <1>8, <1>9, <1>10, <1>11, <1>12, <1>13, <1>14, <1>15, <1>16 DEF Next, Pump

LEMMA EndStep ==
  ASSUME Typed, FileOK, OrderOK, PumpOK, WayOK, EndOK, [Next]_vars
  PROVE  EndOK'
<1> USE InputAssumption DEF Typed, FileOK, OrderOK, PumpOK, WayOK, EndOK, vars, guestVars, fileVars, pumpVars, commandVars
<1>1. CASE Type
  BY <1>1 DEF Type
<1>2. CASE EndInput
  BY <1>2 DEF EndInput
<1>3. CASE Forward
  BY <1>3 DEF Forward
<1>4. CASE MarkEnd
  BY <1>4 DEF MarkEnd
<1>5. CASE ClientLeaves
  BY <1>5 DEF ClientLeaves
<1>6. CASE CheckEnd
  BY <1>6 DEF CheckEnd
<1>7. CASE ReadInput
  BY <1>7 DEF ReadInput
<1>8. CASE WriteInput
  BY <1>8 DEF WriteInput
<1>9. CASE WriteFails
  BY <1>9 DEF WriteFails
<1>10. CASE Written
  BY <1>10 DEF Written
<1>11. CASE ReadSink
  BY <1>11 DEF ReadSink
<1>12. CASE ReadEnd
  BY <1>12 DEF ReadEnd, Pending
<1>13. CASE CommandEnds
  BY <1>13 DEF CommandEnds
<1>14. CASE HeirEnds
  BY <1>14 DEF HeirEnds
<1>15. CASE SetFinished
  BY <1>15 DEF SetFinished
<1>16. CASE UNCHANGED vars
  BY <1>16
<1> QED
  BY <1>1, <1>2, <1>3, <1>4, <1>5, <1>6, <1>7, <1>8, <1>9, <1>10, <1>11, <1>12, <1>13, <1>14, <1>15, <1>16 DEF Next, Pump

-----------------------------------------------------------------------------
LEMMA IInvInit ==
  ASSUME Init
  PROVE  IInv
<1> USE InputAssumption, SinksAssumption DEF Init
<1>1. Typed
  <2>1. <<>> \in Seq(Units) /\ Len(<<>>) = 0
    BY EmptySeq
  <2>2. source \in [units : 0..MaxInput, open : BOOLEAN]
    OBVIOUS
  <2>3. 0 \in 0..MaxInput
    OBVIOUS
  <2>4. holders \subseteq {"command", "heir"} /\ sink \in Sinks
    OBVIOUS
  <2> QED
    BY <2>1, <2>2, <2>3, <2>4 DEF Typed
<1>2. FileOK /\ OrderOK /\ PumpOK /\ WayOK /\ EndOK
  BY DEF FileOK, OrderOK, PumpOK, WayOK, EndOK, Pending, Numbers
<1> QED
  BY <1>1, <1>2 DEF IInv

LEMMA IInvStep ==
  ASSUME IInv, [Next]_vars
  PROVE  IInv'
BY TypingStep, FileStep, OrderStep, PumpStep, WayStep, EndStep DEF IInv

(* None of the parts of IInv is inductive without the ones before it.        *)
THEOREM Inductive == Spec => []IInv
BY IInvInit, IInvStep, PTL DEF Spec

(* The pump's offset never lies behind the end of its file: the client,      *)
(* which removes the file, is told of the end only when the pump has         *)
(* returned, whatever is appended meanwhile.                                 *)
THEOREM TypeCorrect == Spec => []TypeOK
<1>1. IInv => TypeOK
  BY DEF IInv, TypeOK, Typed, OrderOK, PumpOK
<1> QED
  BY <1>1, Inductive, PTL

(* What the command read, the pipe and the pump hold is the input so far,    *)
(* nothing lost, doubled or swapped, as long as somebody reads.              *)
THEOREM InputKept == Spec => []InputOnTheWay
<1>1. ASSUME IInv, client = "waiting", ~(pump = "done" /\ holders = {})
      PROVE  got \o queue \o buffer = SubSeq([n \in 1..Len(file) |-> n], 1, offset)
  <2>1. Len(file) \in Nat /\ offset \in 0..Len(file)
    BY <1>1 DEF IInv, Typed, PumpOK
  <2>2. SubSeq(Numbers(Len(file)), 1, offset) = Numbers(offset)
    BY <2>1, NumbersProperties
  <2> QED
    BY <1>1, <2>2 DEF IInv, WayOK, Pending, Numbers
<1>2. IInv => InputOnTheWay
  BY <1>1 DEF InputOnTheWay
<1> QED
  BY <1>2, Inductive, PTL

(* A command that reads end-of-file has all the input there was: the marker  *)
(* is looked for before the file is read.                                    *)
THEOREM EndIsTheEnd == Spec => []EndMeansAll
<1>1. IInv => EndMeansAll
  BY DEF IInv, EndOK, Numbers, EndMeansAll
<1> QED
  BY <1>1, Inductive, PTL
=============================================================================
