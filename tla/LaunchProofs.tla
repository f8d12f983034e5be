----------------------------- MODULE LaunchProofs -----------------------------
(***************************************************************************)
(* Proofs about Launch, for any number of processes, connections and       *)
(* changes of a window: that its threads are where its main threads say,   *)
(* that a relay ends a direction only behind its last chunk, that the      *)
(* guest's terminal settles on the size of the window, and that a login is *)
(* saved.                                                                  *)
(***************************************************************************)
EXTENDS Launch, TLAPS

-----------------------------------------------------------------------------
(* The relay.                                                                *)

Flow ==
  [sent : Nat, shut : BOOLEAN, read : Nat, held : Nat, got : Nat, eof : BOOLEAN,
   gone : BOOLEAN, broken : BOOLEAN, thread : {"none", "reading", "sending", "ended"}]

(* What was read was written or is held, and a thread ends behind the last   *)
(* chunk or leaves the direction broken.                                     *)
Sound(f) ==
  /\ f.read <= f.sent /\ f.read = f.got + f.held
  /\ f.thread = "reading" => f.held = 0
  /\ f.thread = "ended" /\ ~f.broken => f.shut /\ f.got = f.sent
  /\ f.eof => f.thread \in {"none", "ended"}

(* A connection that is not spliced yet has moved nothing, and one that is   *)
(* drained has no splices that would miss what is thrown away.               *)
Fresh(f) == f.thread = "none" /\ ~f.eof /\ f.held = 0

Early == {"none", "queued", "connecting"}

FlowsOK ==
  /\ flow \in [Conns -> [Directions -> Flow]]
  /\ conn \in [Conns -> Early \cup {"splicing", "draining", "done", "dropped"}]
  /\ \A c \in Conns, d \in Directions :
       /\ Sound(flow[c][d]) /\ (conn[c] \in Early => Fresh(flow[c][d]))
       /\ conn[c] = "draining" => flow[c][d].thread = "none"

(* Changes of a record, a field at a time.                                   *)
LEMMA FieldTypes ==
  ASSUME NEW f \in Flow
  PROVE  /\ \A n \in Nat : [f EXCEPT !.read = n] \in Flow
         /\ \A n \in Nat : [f EXCEPT !.held = n] \in Flow
         /\ \A n \in Nat : [f EXCEPT !.got = n] \in Flow
         /\ \A t \in {"none", "reading", "sending", "ended"} : [f EXCEPT !.thread = t] \in Flow
         /\ \A b \in BOOLEAN : [f EXCEPT !.eof = b] \in Flow
         /\ \A b \in BOOLEAN : [f EXCEPT !.broken = b] \in Flow
BY DEF Flow

LEMMA OneFlowChanges ==
  ASSUME FlowsOK, NEW c \in Conns, NEW d \in Directions, NEW f \in Flow, Sound(f),
         flow' = [flow EXCEPT ![c][d] = f], UNCHANGED conn,
         conn[c] \in Early => Fresh(f), conn[c] = "draining" => f.thread = "none"
  PROVE  FlowsOK'
BY DEF FlowsOK

LEMMA RelayStep ==
  ASSUME FlowsOK, RelayNext
  PROVE  FlowsOK'
<1> USE DEF ConnGoes
<1>1. ASSUME NEW c \in Conns, GuestConnects(c) PROVE FlowsOK'
  BY <1>1 DEF GuestConnects, FlowsOK, Early
<1>2. ASSUME NEW c \in Conns, NEW d \in Directions, Writes(c, d) PROVE FlowsOK'
  <2> DEFINE f == [flow[c][d] EXCEPT !.sent = @ + 1]
  <2>1. flow[c][d] \in Flow /\ Sound(flow[c][d]) /\ ~flow[c][d].shut /\ (conn[c] \in Early => Fresh(flow[c][d]))
        /\ (conn[c] = "draining" => flow[c][d].thread = "none")
    BY <1>2 DEF Writes, FlowsOK
  <2>2. f \in Flow /\ Sound(f) /\ (conn[c] \in Early => Fresh(f)) /\ (conn[c] = "draining" => f.thread = "none")
    BY <2>1 DEF Flow, Sound, Fresh
  <2>3. flow' = [flow EXCEPT ![c][d] = f] /\ UNCHANGED conn
    BY <1>2 DEF Writes, FlowsOK
  <2> HIDE DEF f
  <2> QED
    BY <2>2, <2>3, OneFlowChanges
<1>3. ASSUME NEW c \in Conns, NEW d \in Directions, ShutsWriting(c, d) PROVE FlowsOK'
  <2> DEFINE f == [flow[c][d] EXCEPT !.shut = TRUE]
  <2>1. flow[c][d] \in Flow /\ Sound(flow[c][d]) /\ (conn[c] \in Early => Fresh(flow[c][d]))
        /\ (conn[c] = "draining" => flow[c][d].thread = "none")
    BY FlowsOK DEF FlowsOK
  <2>2. f \in Flow /\ Sound(f) /\ (conn[c] \in Early => Fresh(f)) /\ (conn[c] = "draining" => f.thread = "none")
    BY <2>1 DEF Flow, Sound, Fresh
  <2>3. flow' = [flow EXCEPT ![c][d] = f] /\ UNCHANGED conn
    BY <1>3 DEF ShutsWriting, FlowsOK
  <2> HIDE DEF f
  <2> QED
    BY <2>2, <2>3, OneFlowChanges
<1>4. ASSUME NEW c \in Conns, NEW d \in Directions, Closes(c, d) PROVE FlowsOK'
  <2> DEFINE f == [flow[c][d] EXCEPT !.gone = TRUE]
             o == Opposite(d)
             g == [flow[c][o] EXCEPT !.shut = TRUE]
  <2>1. o \in Directions /\ o # d /\ conn[c] \notin Early
    BY <1>4 DEF Opposite, Directions, Closes, Early
  <2>2. /\ flow[c][d] \in Flow /\ Sound(flow[c][d]) /\ flow[c][o] \in Flow /\ Sound(flow[c][o])
        /\ conn[c] = "draining" => flow[c][d].thread = "none" /\ flow[c][o].thread = "none"
    BY <2>1 DEF FlowsOK
  <2>3. /\ f \in Flow /\ Sound(f) /\ g \in Flow /\ Sound(g)
        /\ conn[c] = "draining" => f.thread = "none" /\ g.thread = "none"
    BY <2>2 DEF Flow, Sound
  <2>4. flow' = [flow EXCEPT ![c] = [flow[c] EXCEPT ![d] = f, ![o] = g]] /\ UNCHANGED conn
    BY <1>4, <2>1 DEF Closes, FlowsOK
  <2> HIDE DEF f, g, o
  <2> QED
    BY <2>1, <2>3, <2>4 DEF FlowsOK
<1>5. CASE Finish
  BY <1>5 DEF Finish, FlowsOK
<1>6. ASSUME NEW c \in Conns, Accept(c) PROVE FlowsOK'
  BY <1>6 DEF Accept, FlowsOK, Early
<1>7. CASE StopAccepting
  BY <1>7 DEF StopAccepting, FlowsOK, Early
<1>8. ASSUME NEW c \in Conns, Connect(c) PROVE FlowsOK'
  <2> DEFINE f(d) == [flow[c][d] EXCEPT !.thread = "reading"]
  <2>1. \A d \in Directions : flow[c][d] \in Flow /\ Sound(flow[c][d]) /\ Fresh(flow[c][d])
    BY <1>8 DEF Connect, FlowsOK, Early
  <2>2. \A d \in Directions : f(d) \in Flow /\ Sound(f(d))
    BY <2>1 DEF Flow, Sound, Fresh
  <2>3. /\ flow' = [flow EXCEPT ![c] = [d \in Directions |-> f(d)]]
        /\ conn' = [conn EXCEPT ![c] = "splicing"] /\ "splicing" \notin Early
    BY <1>8 DEF Connect, Early
  <2> HIDE DEF f
  <2> QED
    BY <2>2, <2>3 DEF FlowsOK
<1>9. ASSUME NEW c \in Conns, ConnectRefused(c) PROVE FlowsOK'
  <2> DEFINE f == [flow[c]["down"] EXCEPT !.eof = TRUE]
  <2>1. flow[c]["down"] \in Flow /\ Sound(flow[c]["down"]) /\ Fresh(flow[c]["down"]) /\ "down" \in Directions
    BY <1>9 DEF ConnectRefused, FlowsOK, Early, Directions
  <2>2. f \in Flow /\ Sound(f) /\ f.thread = "none"
    BY <2>1 DEF Flow, Sound, Fresh
  <2>3. /\ flow' = [flow EXCEPT ![c]["down"] = f]
        /\ conn' = [conn EXCEPT ![c] = "draining"] /\ "draining" \notin Early
        /\ \A d \in Directions : flow[c][d].thread = "none"
    BY <1>9, <2>1 DEF ConnectRefused, FlowsOK, Early, Fresh
  <2> HIDE DEF f
  <2> QED
    BY <2>1, <2>2, <2>3 DEF FlowsOK
<1>10. ASSUME NEW c \in Conns, Drained(c) \/ Unconfigured(c) \/ Unspliced(c) PROVE FlowsOK'
  BY <1>10 DEF Drained, Unconfigured, Unspliced, FlowsOK, Early
<1>11. ASSUME NEW c \in Conns, Discard(c) PROVE FlowsOK'
  <2>1. PICK n \in 1..Unread(c, "up") : flow' = [flow EXCEPT ![c]["up"].sent = @ - n]
    BY <1>11 DEF Discard
  <2> DEFINE f == [flow[c]["up"] EXCEPT !.sent = @ - n]
  <2>2. /\ flow \in [Conns -> [Directions -> Flow]] /\ UNCHANGED conn /\ "up" \in Directions
        /\ flow[c]["up"] \in Flow /\ Sound(flow[c]["up"])
        /\ conn[c] \notin Early /\ flow[c]["up"].thread = "none"
    BY <1>11 DEF Discard, FlowsOK, Early, Directions
  <2>3. n \in Nat /\ flow[c]["up"].sent - n \in Nat /\ flow[c]["up"].read <= flow[c]["up"].sent - n
    BY <2>1, <2>2 DEF Unread, Flow, Sound
  <2>4. f \in Flow /\ Sound(f) /\ f.thread = "none"
    BY <2>2, <2>3 DEF Flow, Sound
  <2>5. flow' = [flow EXCEPT ![c]["up"] = f]
    BY <2>1, <2>2
  <2> HIDE DEF f
  <2> QED
    BY <2>2, <2>4, <2>5, OneFlowChanges
<1>12. ASSUME NEW c \in Conns, NEW d \in Directions, Read(c, d) PROVE FlowsOK'
  <2>1. PICK n \in 1..Unread(c, d) :
          flow' = [flow EXCEPT ![c][d].read = @ + n, ![c][d].held = n, ![c][d].thread = "sending"]
    BY <1>12 DEF Read
  <2> DEFINE f0 == flow[c][d]
             f1 == [f0 EXCEPT !.read = @ + n]
             f2 == [f1 EXCEPT !.held = n]
             f3 == [f2 EXCEPT !.thread = "sending"]
             G1 == [flow EXCEPT ![c][d].read = @ + n]
             G2 == [G1 EXCEPT ![c][d].held = n]
  <2>2. /\ flow \in [Conns -> [Directions -> Flow]] /\ UNCHANGED conn
        /\ f0 \in Flow /\ Sound(f0) /\ conn[c] \notin Early \cup {"draining"} /\ f0.thread = "reading"
    BY <1>12 DEF Read, Reading, FlowsOK, Fresh
  <2>3. n \in Nat /\ f0.read + n \in Nat /\ f0.read + n <= f0.sent
    BY <2>1, <2>2 DEF Unread, Flow, Sound
  <2>4. f1 \in Flow /\ f2 \in Flow /\ f3 \in Flow
    BY <2>2, <2>3, FieldTypes
  <2>5. Sound(f3)
    <3>1. /\ f3.sent = f0.sent /\ f3.read = f0.read + n /\ f3.held = n
          /\ f3.got = f0.got /\ f3.thread = "sending" /\ f3.eof = f0.eof
      BY <2>2 DEF Flow
    <3> QED
      BY <2>2, <2>3, <3>1 DEF Sound, Flow
  <2>6. flow' = [flow EXCEPT ![c][d] = f3]
    <3>1. G1 = [flow EXCEPT ![c][d] = f1] /\ flow' = [G2 EXCEPT ![c][d].thread = "sending"]
      BY <2>1, <2>2
    <3> HIDE DEF G1, f0
    <3>2. G2 = [flow EXCEPT ![c][d] = f2]
      BY <2>2, <2>4, <3>1
    <3> HIDE DEF G2, f1, f2
    <3> QED
      BY <2>2, <2>4, <3>1, <3>2
  <2> HIDE DEF f3
  <2> QED
    BY <2>2, <2>4, <2>5, <2>6, OneFlowChanges
<1>13. ASSUME NEW c \in Conns, NEW d \in Directions, NEW b \in BOOLEAN, EndsFlow(c, d, b), UNCHANGED conn,
              flow[c][d].thread \in {"reading", "sending"}, b \/ (Reading(c, d) /\ AtEnd(c, d))
       PROVE  FlowsOK'
  <2> DEFINE f0 == flow[c][d]
             f1 == [f0 EXCEPT !.thread = "ended"]
             f2 == [f1 EXCEPT !.eof = TRUE]
             f3 == [f2 EXCEPT !.broken = @ \/ b]
             G1 == [flow EXCEPT ![c][d].thread = "ended"]
             G2 == [G1 EXCEPT ![c][d].eof = TRUE]
  <2>1. /\ flow \in [Conns -> [Directions -> Flow]]
        /\ f0 \in Flow /\ Sound(f0) /\ conn[c] \notin Early \cup {"draining"}
    BY <1>13 DEF FlowsOK, Fresh
  <2>2. f1 \in Flow /\ f2 \in Flow /\ (f2.broken \/ b) \in BOOLEAN /\ f3 \in Flow
    BY <1>13, <2>1, FieldTypes
  <2>3. Sound(f3)
    <3>1. /\ f3.sent = f0.sent /\ f3.read = f0.read /\ f3.held = f0.held /\ f3.shut = f0.shut
          /\ f3.got = f0.got /\ f3.thread = "ended" /\ f3.broken = (f0.broken \/ b)
      BY <2>1 DEF Flow
    <3>2. ~f3.broken => f0.thread = "reading" /\ f0.shut /\ f0.sent - f0.read = 0
      BY <1>13, <3>1 DEF Reading, AtEnd, Unread
    <3> QED
      BY <2>1, <3>1, <3>2 DEF Sound, Flow
  <2>4. flow' = [flow EXCEPT ![c][d] = f3]
    <3>1. G1 = [flow EXCEPT ![c][d] = f1] /\ flow' = [G2 EXCEPT ![c][d].broken = @ \/ b]
      BY <1>13, <2>1, ZenonT(30) DEF EndsFlow
    <3> HIDE DEF G1, f0
    <3>2. G2 = [flow EXCEPT ![c][d] = f2]
      BY <2>1, <2>2, <3>1
    <3> HIDE DEF f1
    <3>3. G2[c][d].broken = f2.broken
      BY <2>1, <3>2
    <3> HIDE DEF G2, f2
    <3>4. flow' = [G2 EXCEPT ![c][d].broken = f2.broken \/ b]
      BY <3>1, <3>3
    <3> QED
      BY <2>1, <2>2, <3>2, <3>4
  <2> HIDE DEF f3
  <2> QED
    BY <1>13, <2>1, <2>2, <2>3, <2>4, OneFlowChanges
<1>14. ASSUME NEW c \in Conns, NEW d \in Directions,
              ReadEnd(c, d) \/ ReadFails(c, d) \/ WriteFails(c, d) \/ SpliceStops(c, d)
       PROVE  FlowsOK'
  BY <1>13, <1>14 DEF ReadEnd, ReadFails, WriteFails, SpliceStops, Reading, Sending
<1>15. ASSUME NEW c \in Conns, NEW d \in Directions, Write(c, d) PROVE FlowsOK'
  <2>1. PICK n \in 1..flow[c][d].held :
          flow' = [flow EXCEPT ![c][d].got = @ + n, ![c][d].held = @ - n,
                               ![c][d].thread = IF n = flow[c][d].held THEN "reading" ELSE "sending"]
    BY <1>15 DEF Write
  <2> DEFINE f0 == flow[c][d]
             left == f0.held - n
             to == IF n = f0.held THEN "reading" ELSE "sending"
             f1 == [f0 EXCEPT !.got = @ + n]
             f2 == [f1 EXCEPT !.held = left]
             f3 == [f2 EXCEPT !.thread = to]
             G1 == [flow EXCEPT ![c][d].got = @ + n]
             G2 == [G1 EXCEPT ![c][d].held = left]
  <2>2. /\ flow \in [Conns -> [Directions -> Flow]] /\ UNCHANGED conn
        /\ f0 \in Flow /\ Sound(f0) /\ conn[c] \notin Early \cup {"draining"} /\ f0.thread = "sending"
    BY <1>15 DEF Write, Sending, FlowsOK, Fresh
  <2>3. n \in Nat /\ f0.got + n \in Nat /\ left \in Nat /\ to \in {"reading", "sending"}
    BY <2>1, <2>2 DEF Flow
  <2>4. f1 \in Flow /\ f2 \in Flow /\ f3 \in Flow
    <3>1. f1 \in Flow
      BY <2>2, <2>3, FieldTypes
    <3> HIDE DEF f1, left, to
    <3>2. f2 \in Flow
      BY <2>3, <3>1, FieldTypes
    <3> QED
      BY <2>3, <3>1, <3>2, FieldTypes
  <2>5. Sound(f3)
    <3>1. /\ f3.sent = f0.sent /\ f3.read = f0.read /\ f3.held = left /\ f3.shut = f0.shut
          /\ f3.got = f0.got + n /\ f3.thread = to /\ f3.eof = f0.eof
      BY <2>2 DEF Flow
    <3> QED
      BY <2>2, <2>3, <3>1 DEF Sound, Flow
  <2>6. flow' = [flow EXCEPT ![c][d] = f3]
    <3>1. G1 = [flow EXCEPT ![c][d] = f1] /\ flow' = [G2 EXCEPT ![c][d].thread = to]
      BY <2>1, <2>2
    <3> HIDE DEF G1, f0, left, to
    <3>2. G2 = [flow EXCEPT ![c][d] = f2]
      BY <2>2, <2>4, <3>1
    <3> HIDE DEF G2, f1, f2
    <3> QED
      BY <2>2, <2>4, <3>1, <3>2
  <2> HIDE DEF f3
  <2> QED
    BY <2>2, <2>4, <2>5, <2>6, OneFlowChanges
<1> QED
  BY <1>1, <1>2, <1>3, <1>4, <1>5, <1>6, <1>7, <1>8, <1>9, <1>10, <1>11, <1>12, <1>14, <1>15
     DEF RelayNext, Peers, Acceptor, Connection, Splice

(* A relay falls with its process.                                           *)
DropsRelay ==
  /\ listener' = "none" /\ acceptor' = "none"
  /\ conn' = [c \in Conns |-> "done"]
  /\ flow' = [c \in Conns |-> [d \in Directions |-> NoFlow]]

LEMMA RelayFalls ==
  ASSUME FlowsOK, DropsRelay
  PROVE  FlowsOK'
BY DEF FlowsOK, DropsRelay, NoFlow, Flow, Sound, Early

-----------------------------------------------------------------------------
(* The windows.                                                              *)

AttachTyped ==
  /\ attach \in [Procs -> {"none", "asked", "created", "started", "sizing", "running", "exited",
                           "unstarted", "answered", "error"}]
  /\ window \in [Procs -> Sizes]
  /\ resized \in [Procs -> BOOLEAN] /\ nudges \in [Procs -> Nat]
  /\ resizer \in [Procs -> [at : {"idle", "found", "sized"}, size : Sizes \cup {Default}]]
  /\ initial \in [Procs -> Sizes \cup {Default}] /\ guest \in [Procs -> Sizes \cup {Default}]
  /\ crossed \in [Procs -> BOOLEAN]

(* A change of the window that nobody has read the size for yet.             *)
Flagged(p) == resized[p] \/ nudges[p] > 0

(* The guest's terminal is going to be given the window's size.              *)
Chasing(p) ==
  Flagged(p) \/ resizer[p].at = "found" \/ (resizer[p].at = "sized" /\ resizer[p].size = window[p])

(* Sizes only grow, a size read is the window's until a change is flagged,   *)
(* and of the size of the start and a later one the larger one counts.       *)
SizesOK ==
  \A p \in Procs :
    /\ guest[p] <= window[p]
    /\ resizer[p].size <= window[p]
    /\ resizer[p].at = "sized" => resizer[p].size = window[p] \/ Flagged(p)
    /\ initial[p] <= window[p]
    /\ p \in with.terminals =>
         /\ attach[p] = "sizing" => initial[p] = window[p] \/ guest[p] = window[p] \/ Chasing(p)
         /\ attach[p] = "running" => crossed[p] \/ guest[p] = window[p] \/ Chasing(p)

WindowsOK == AttachTyped /\ SizesOK

(* What a process's command is asked for.                                    *)
Asks(p) ==
  /\ attach' = [attach EXCEPT ![p] = "asked"]
  /\ UNCHANGED <<window, resized, nudges, resizer, initial, guest, crossed>>

LEMMA AttachStep ==
  ASSUME WindowsOK, UNCHANGED with, NEW p \in Procs,
         \/ Serves(p) \/ Resizes(p) \/ Exits(p) \/ WindowChanges(p) \/ CannotStart(p) \/ Asks(p)
  PROVE  WindowsOK'
<1> USE WindowAssumption DEF WindowsOK, AttachTyped, SizesOK, Flagged, Chasing, Sizes, Default, AttachGoes, NoResizer
<1>1. CASE Attends(p)
  BY <1>1 DEF Attends, HasTerminal
<1>2. CASE StartProcess(p)
  BY <1>2 DEF StartProcess
<1>3. CASE ReadInitialSize(p)
  BY <1>3 DEF ReadInitialSize
<1>4. CASE SetInitialSize(p)
  <2>1. /\ attach[p] = "sizing" /\ attach' = [attach EXCEPT ![p] = "running"]
        /\ guest' = [guest EXCEPT ![p] = initial[p]]
        /\ crossed' = [crossed EXCEPT ![p] = guest[p] > initial[p]]
        /\ UNCHANGED <<window, resized, nudges, resizer, initial, with>>
    BY <1>4 DEF SetInitialSize
  <2>2. (guest[p] > initial[p]) \in BOOLEAN
    OBVIOUS
  <2>3. AttachTyped'
    BY <2>1, <2>2
  <2>4. p \in with.terminals => guest[p] > initial[p] \/ initial[p] = window[p] \/ Chasing(p)
    <3>1. guest[p] \in Nat /\ initial[p] \in Nat /\ window[p] \in Nat /\ initial[p] <= window[p]
      BY <2>1
    <3>2. p \in with.terminals => initial[p] = window[p] \/ guest[p] = window[p] \/ Chasing(p)
      BY <2>1
    <3>3. guest[p] = window[p] => guest[p] > initial[p] \/ initial[p] = window[p]
      BY <3>1, SMTT(30)
    <3> HIDE DEF Chasing
    <3> QED
      BY <3>2, <3>3
  <2>5. ASSUME NEW q \in Procs, q # p
        PROVE  attach'[q] = attach[q] /\ guest'[q] = guest[q] /\ crossed'[q] = crossed[q]
    BY <2>1, <2>5
  <2>6. attach'[p] = "running" /\ guest'[p] = initial[p] /\ crossed'[p] = (guest[p] > initial[p])
    BY <2>1
  <2>7. ASSUME NEW q \in Procs
        PROVE  SizesOK!(q)'
    <3>1. CASE q = p
      BY <2>1, <2>4, <2>6, <3>1
    <3>2. CASE q # p
      BY <2>1, <2>5, <3>2
    <3> QED
      BY <3>1, <3>2
  <2> QED
    BY <2>3, <2>7
<1>5. CASE Answered(p)
  BY <1>5 DEF Answered
<1>6. CASE OwnerGone(p)
  BY <1>6 DEF OwnerGone
<1>7. CASE Nudge(p)
  BY <1>7 DEF Nudge
<1>8. CASE Look(p)
  <2>1. /\ resizer[p].at = "idle" /\ UNCHANGED <<attach, window, initial, guest, crossed>>
        /\ resizer' = [resizer EXCEPT ![p].at = IF Known(p) THEN "found" ELSE "idle"]
    BY <1>8 DEF Look
  <2>2. \/ nudges[p] > 0 /\ nudges' = [nudges EXCEPT ![p] = @ - 1] /\ UNCHANGED resized
        \/ resized' = [resized EXCEPT ![p] = FALSE] /\ UNCHANGED nudges
    BY <1>8 DEF Look
  <2>3. AttachTyped'
    <3>1. (IF Known(p) THEN "found" ELSE "idle") \in {"idle", "found", "sized"}
      OBVIOUS
    <3>2. resizer' \in [Procs -> [at : {"idle", "found", "sized"}, size : Sizes \cup {Default}]]
      BY <2>1, <3>1
    <3>3. nudges' \in [Procs -> Nat] /\ resized' \in [Procs -> BOOLEAN]
      <4>1. nudges \in [Procs -> Nat] /\ resized \in [Procs -> BOOLEAN]
        OBVIOUS
      <4>2. CASE nudges[p] > 0 /\ nudges' = [nudges EXCEPT ![p] = @ - 1] /\ UNCHANGED resized
        <5>1. nudges[p] - 1 \in Nat
          BY <4>1, <4>2
        <5> QED
          BY <4>1, <4>2, <5>1
      <4>3. CASE resized' = [resized EXCEPT ![p] = FALSE] /\ UNCHANGED nudges
        BY <4>1, <4>3
      <4> QED
        BY <2>2, <4>2, <4>3
    <3> QED
      BY <2>1, <3>2, <3>3
  <2>4. attach[p] \in {"sizing", "running"} => resizer'[p].at = "found"
    BY <2>1 DEF Known
  <2>5. resizer'[p].size = resizer[p].size /\ resizer'[p].at \in {"idle", "found"}
    BY <2>1
  <2>6. ASSUME NEW q \in Procs, q # p
        PROVE  resizer'[q] = resizer[q] /\ nudges'[q] = nudges[q] /\ resized'[q] = resized[q]
    BY <2>1, <2>2, <2>6
  <2> QED
    BY <2>1, <2>3, <2>4, <2>5, <2>6
<1>9. CASE ReadSize(p)
  BY <1>9 DEF ReadSize
<1>10. CASE Resize(p)
  BY <1>10 DEF Resize, Alive
<1>11. CASE Exits(p)
  BY <1>11 DEF Exits
<1>12. CASE WindowChanges(p)
  BY <1>12 DEF WindowChanges
<1>13. CASE CannotStart(p)
  BY <1>13 DEF CannotStart
<1>14. CASE Asks(p)
  BY <1>14 DEF Asks
<1> QED
  BY <1>1, <1>2, <1>3, <1>4, <1>5, <1>6, <1>7, <1>8, <1>9, <1>10, <1>11, <1>12, <1>13, <1>14
     DEF Serves, Resizes

-----------------------------------------------------------------------------
(* The processes, the logins and who copies one.                             *)

PcValues == {"idle", "syncing", "sharing", "copying", "asking", "joined"} \cup Booted \cup Ended
Syncs ==
  [at : {"idle", "reading", "comparing", "saving", "opening", "writing", "renaming", "done", "failed"},
   from : {"keychain", "file"}, login : Logins, kept : Logins,
   writes : {"nothing", "staged", "published", "unlinked"}]
Watches == [at : {"none", "looking", "checking", "copying", "ended"}, stopping : BOOLEAN, changed : BOOLEAN]

SituationOK == with \in Setups /\ faults \in 0..with.faults

ProcsOK ==
  /\ pc \in [Procs -> PcValues]
  /\ stop \in [Procs -> BOOLEAN] /\ code \in [Procs -> {"none", "code", "error"}]
  /\ due \in [Procs -> Logins]

LoginsOK ==
  /\ keychain \in Logins /\ latest \in Logins
  /\ file \in [Homes -> Logins] /\ staged \in [Homes -> Logins \cup {Missing}]
  /\ refreshing \subseteq Homes
  /\ sync \in [Procs -> Syncs] /\ watch \in [Procs -> Watches]
  /\ unsaved \subseteq Procs /\ raced \in BOOLEAN

(* A watcher lives while its owner waits to join it, and a login is copied   *)
(* by the main thread before the session or by the watcher in it.            *)
ThreadsOK ==
  \A p \in Procs :
    /\ watch[p].at \notin {"none", "ended"} => pc[p] \in Booted
    /\ sync[p].at # "idle" => pc[p] = "syncing" \/ watch[p].at = "copying"

AcceptorOK == acceptor = "accepting" => \E p \in with.ports : HasVm(p)

Typing == SituationOK /\ ProcsOK /\ LoginsOK /\ ThreadsOK

LEMMA SituationTypes ==
  ASSUME SituationOK
  PROVE  /\ with.procs \subseteq Procs /\ with.home \in [Procs -> Homes]
         /\ with.keychain \subseteq Procs /\ with.ports \subseteq Procs /\ with.terminals \subseteq Procs
         /\ with.faults \in Nat /\ \A p \in Procs : Home(p) \in Homes
BY SetupsAssumption DEF SituationOK, Situation, Home

LEMMA IdleTypes == Idle \in Syncs /\ Asleep \in Watches /\ Idle.at = "idle" /\ Asleep.at = "none" /\ 0 \in Logins
BY MaxLoginAssumption DEF Idle, Asleep, Syncs, Watches, Logins

(* What a step of the copies does to the threads of the others: nothing but  *)
(* to tell them of a change.                                                 *)
LEMMA ModifiedTypes ==
  ASSUME Typing, NEW h \in Homes, Modified(h)
  PROVE  /\ watch' \in [Procs -> Watches]
         /\ \A p \in Procs : watch'[p].at = watch[p].at /\ watch'[p].stopping = watch[p].stopping
         /\ \A p \in Procs : watch[p].changed => watch'[p].changed
         /\ \A p \in Procs : Home(p) = h /\ watch[p].at \notin {"none", "ended"} => watch'[p].changed
BY DEF Modified, Typing, LoginsOK, Watches

LEMMA SyncMoves ==
  ASSUME Typing, NEW p \in Procs, NEW s \in Syncs, sync[p].at # "idle",
         sync' = [sync EXCEPT ![p] = s],
         watch' \in [Procs -> Watches], \A q \in Procs : watch'[q].at = watch[q].at,
         UNCHANGED <<with, pc>>
  PROVE  sync' \in [Procs -> Syncs] /\ ThreadsOK'
BY DEF Typing, LoginsOK, ThreadsOK

(* The records a copy goes through.                                          *)
LEMMA SyncRecords ==
  ASSUME NEW s \in Syncs, NEW at \in {"comparing", "saving", "opening", "writing", "renaming", "done", "failed"},
         NEW login \in Logins
  PROVE  /\ [s EXCEPT !.at = at] \in Syncs
         /\ [s EXCEPT !.login = login, !.at = at] \in Syncs
         /\ [s EXCEPT !.kept = login, !.at = at] \in Syncs
         /\ \A w \in {"staged", "published", "unlinked"} :
              [s EXCEPT !.writes = w] \in Syncs /\ [s EXCEPT !.at = at, !.writes = w] \in Syncs
         /\ [Idle EXCEPT !.at = at] \in Syncs
         /\ \A from \in {"keychain", "file"} : [Idle EXCEPT !.at = "reading", !.from = from] \in Syncs
<1>1. Idle \in Syncs
  BY IdleTypes
<1> USE DEF Syncs
<1>2. [s EXCEPT !.at = at] \in Syncs
  OBVIOUS
<1>3. [s EXCEPT !.login = login, !.at = at] \in Syncs
  OBVIOUS
<1>4. [s EXCEPT !.kept = login, !.at = at] \in Syncs
  OBVIOUS
<1>5. ASSUME NEW w \in {"staged", "published", "unlinked"}
      PROVE  [s EXCEPT !.writes = w] \in Syncs /\ [s EXCEPT !.at = at, !.writes = w] \in Syncs
  OBVIOUS
<1>6. [Idle EXCEPT !.at = at] \in Syncs
  BY <1>1
<1>7. ASSUME NEW from \in {"keychain", "file"}
      PROVE  [Idle EXCEPT !.at = "reading", !.from = from] \in Syncs
  BY <1>1
<1> QED
  BY <1>2, <1>3, <1>4, <1>5, <1>6, <1>7

LEMMA SyncTyping ==
  ASSUME Typing, NEW p \in Procs, Sync(p) \/ SyncFails(p), UNCHANGED launchVars
  PROVE  Typing'
<1> DEFINE h == Home(p)
<1>1. h \in Homes /\ sync[p] \in Syncs /\ with.faults \in Nat
  BY SituationTypes DEF Typing, LoginsOK
<1>2. UNCHANGED <<with, pc, stop, code, due>> /\ ProcsOK'
  BY DEF Typing, ProcsOK, launchVars
<1>3. SituationOK'
  BY <1>1, <1>2 DEF Typing, SituationOK, Sync, SyncFails, Fault
<1>4. ASSUME NEW t \in Syncs, sync[p].at # "idle", sync' = [sync EXCEPT ![p] = t],
             \/ UNCHANGED watch
             \/ Modified(h),
             keychain' \in Logins, latest' \in Logins, file' \in [Homes -> Logins],
             staged' \in [Homes -> Logins \cup {Missing}], refreshing' \subseteq Homes,
             unsaved' \subseteq Procs, raced' \in BOOLEAN
      PROVE  Typing'
  <2>1. watch' \in [Procs -> Watches] /\ \A q \in Procs : watch'[q].at = watch[q].at
    BY <1>1, <1>4, ModifiedTypes DEF Typing, LoginsOK
  <2>2. sync' \in [Procs -> Syncs] /\ ThreadsOK'
    BY <1>2, <1>4, <2>1, SyncMoves
  <2> QED
    BY <1>2, <1>3, <1>4, <2>1, <2>2 DEF Typing, LoginsOK
<1> USE DEF SyncEnds, SyncGoes
<1>5. CASE ReadSource(p)
  <2>1. LoginOf(sync[p].from, p) \in Logins
    BY <1>1 DEF Typing, LoginsOK, LoginOf
  <2>2. \/ sync' = [sync EXCEPT ![p] = [Idle EXCEPT !.at = "done"]]
        \/ sync' = [sync EXCEPT ![p] = [sync[p] EXCEPT !.login = LoginOf(sync[p].from, p), !.at = "comparing"]]
    BY <1>5, <1>1 DEF ReadSource, Typing, LoginsOK
  <2>3. \E t \in Syncs : sync' = [sync EXCEPT ![p] = t]
    BY <1>1, <2>1, <2>2, SyncRecords
  <2> QED
    BY <1>4, <1>5, <2>3 DEF ReadSource, Typing, LoginsOK
<1>6. CASE Compare(p)
  <2>1. LoginOf(Target(p), p) \in Logins
    BY <1>1 DEF Typing, LoginsOK, LoginOf
  <2>2. \/ sync' = [sync EXCEPT ![p] = [Idle EXCEPT !.at = "done"]]
        \/ \E at \in {"saving", "opening"} :
             sync' = [sync EXCEPT ![p] = [sync[p] EXCEPT !.kept = LoginOf(Target(p), p), !.at = at]]
    BY <1>6, <1>1 DEF Compare, Typing, LoginsOK
  <2>3. \E t \in Syncs : sync' = [sync EXCEPT ![p] = t]
    BY <1>1, <2>1, <2>2, SyncRecords
  <2> QED
    BY <1>4, <1>6, <2>3 DEF Compare, Typing, LoginsOK
<1>7. CASE Save(p)
  <2>1. \E t \in Syncs : sync' = [sync EXCEPT ![p] = t]
    BY <1>1, <1>7, SyncRecords, IdleTypes DEF Save
  <2>2. sync[p].login \in Logins
    BY <1>1 DEF Syncs
  <2>3. raced' \in BOOLEAN
    BY <1>7 DEF Save, Typing, LoginsOK
  <2> QED
    BY <1>4, <1>7, <2>1, <2>2, <2>3 DEF Save, Typing, LoginsOK
<1>8. CASE OpenStaged(p)
  <2>1. sync' = [sync EXCEPT ![p] = [sync[p] EXCEPT !.at = "writing", !.writes = "staged"]]
    BY <1>8, <1>1 DEF OpenStaged, Typing, LoginsOK
  <2>2. \E t \in Syncs : sync' = [sync EXCEPT ![p] = t]
    BY <1>1, <2>1, SyncRecords, IdleTypes
  <2>3. staged' \in [Homes -> Logins \cup {Missing}]
    BY <1>1, <1>8, IdleTypes DEF OpenStaged, Typing, LoginsOK
  <2> QED
    BY <1>4, <1>8, <2>2, <2>3 DEF OpenStaged, Typing, LoginsOK
<1>9. CASE FillStaged(p)
  <2>1. sync' = [sync EXCEPT ![p] = [sync[p] EXCEPT !.at = "renaming"]]
    BY <1>9, <1>1 DEF FillStaged, Typing, LoginsOK
  <2>2. \E t \in Syncs : sync' = [sync EXCEPT ![p] = t]
    BY <1>1, <2>1, SyncRecords, IdleTypes
  <2>3. sync[p].login \in Logins
    BY <1>1 DEF Syncs
  <2>4. \/ staged' = [staged EXCEPT ![h] = sync[p].login] /\ UNCHANGED <<file, watch, raced>>
        \/ file' = [file EXCEPT ![h] = sync[p].login] /\ Modified(h) /\ raced' = TRUE /\ UNCHANGED staged
        \/ UNCHANGED <<file, staged, watch, raced>>
    BY <1>9 DEF FillStaged
  <2>5. /\ staged' \in [Homes -> Logins \cup {Missing}] /\ file' \in [Homes -> Logins] /\ raced' \in BOOLEAN
        /\ UNCHANGED watch \/ Modified(h)
    BY <1>1, <2>3, <2>4 DEF Typing, LoginsOK
  <2> QED
    BY <1>4, <1>9, <2>2, <2>5 DEF FillStaged, Typing, LoginsOK
<1>10. CASE Rename(p)
  <2>1. /\ staged[h] # Missing /\ file' = [file EXCEPT ![h] = staged[h]] /\ staged' = [staged EXCEPT ![h] = Missing]
        /\ sync' = Published(p) /\ refreshing' = refreshing \ {h} /\ Modified(h)
        /\ UNCHANGED <<keychain, latest, unsaved>> /\ sync[p].at = "renaming"
        /\ raced' = (raced \/ file[h] # sync[p].kept \/ staged[h] # sync[p].login \/ h \in refreshing)
    BY <1>10 DEF Rename
  <2>2. watch' \in [Procs -> Watches] /\ \A q \in Procs : watch'[q].at = watch[q].at
    BY <1>1, <2>1, ModifiedTypes
  <2>3. \A q \in Procs : Published(p)[q] \in Syncs /\ (Published(p)[q].at # "idle" => sync[q].at # "idle")
    <3>1. ASSUME NEW q \in Procs
          PROVE  Published(p)[q] \in Syncs /\ (Published(p)[q].at # "idle" => sync[q].at # "idle")
      <4>1. \/ q = p /\ Published(p)[q] = [Idle EXCEPT !.at = "done"]
            \/ Published(p)[q] = sync[q]
            \/ \E w \in {"published", "unlinked"} : Published(p)[q] = [sync[q] EXCEPT !.writes = w]
        BY DEF Published
      <4>2. sync[q] \in Syncs
        BY DEF Typing, LoginsOK
      <4>3. \A w \in {"published", "unlinked"} :
              [sync[q] EXCEPT !.writes = w] \in Syncs /\ [sync[q] EXCEPT !.writes = w].at = sync[q].at
        BY <4>2 DEF Syncs
      <4>4. [Idle EXCEPT !.at = "done"] \in Syncs
        BY <4>2, SyncRecords, IdleTypes
      <4> QED
        BY <2>1, <4>1, <4>2, <4>3, <4>4
    <3> QED
      BY <3>1
  <2>4. sync' \in [Procs -> Syncs]
    BY <2>1, <2>3 DEF Published
  <2>5. ThreadsOK'
    BY <1>2, <2>1, <2>2, <2>3 DEF Typing, ThreadsOK, LoginsOK
  <2>6. raced' \in BOOLEAN
    BY <2>1 DEF Typing, LoginsOK
  <2>7. file' \in [Homes -> Logins] /\ staged' \in [Homes -> Logins \cup {Missing}] /\ refreshing' \subseteq Homes
    BY <1>1, <2>1 DEF Typing, LoginsOK
  <2> QED
    BY <1>2, <1>3, <2>1, <2>2, <2>4, <2>5, <2>6, <2>7 DEF Typing, LoginsOK
<1>11. CASE RenameFails(p)
  <2>1. \E t \in Syncs : sync' = [sync EXCEPT ![p] = t]
    BY <1>1, <1>11, SyncRecords, IdleTypes DEF RenameFails
  <2> QED
    BY <1>4, <1>11, <2>1 DEF RenameFails, Typing, LoginsOK
<1>12. CASE SyncFails(p)
  <2>1. \E t \in Syncs : sync' = [sync EXCEPT ![p] = t]
    BY <1>1, <1>12, SyncRecords, IdleTypes DEF SyncFails
  <2>2. sync[p].at # "idle"
    BY <1>12 DEF SyncFails, Syncing
  <2> QED
    BY <1>4, <1>12, <2>1, <2>2 DEF SyncFails, Typing, LoginsOK
<1> QED
  BY <1>5, <1>6, <1>7, <1>8, <1>9, <1>10, <1>11, <1>12 DEF Sync

LEMMA WatchTyping ==
  ASSUME Typing, NEW p \in Procs, Watch(p), UNCHANGED launchVars
  PROVE  Typing'
<1>1. UNCHANGED <<with, pc, stop, code, due, faults>> /\ ProcsOK' /\ SituationOK'
  BY DEF Typing, ProcsOK, SituationOK, launchVars, Watch
<1>2. watch \in [Procs -> Watches] /\ sync \in [Procs -> Syncs] /\ stop[p] \in BOOLEAN
  BY DEF Typing, LoginsOK, ProcsOK
<1>3. Rounds(p) \in {"looking", "ended"}
  BY DEF Rounds
<1>4. CASE ReadStop(p)
  <2>1. watch' = [watch EXCEPT ![p] = [watch[p] EXCEPT !.at = "checking", !.stopping = stop[p]]]
        /\ watch[p].at = "looking"
    BY <1>2, <1>4 DEF ReadStop
  <2>2. watch' \in [Procs -> Watches] /\ watch'[p].at = "checking" /\ \A q \in Procs \ {p} : watch'[q] = watch[q]
    BY <1>2, <2>1 DEF Watches
  <2> QED
    BY <1>1, <1>4, <2>1, <2>2 DEF ReadStop, Typing, LoginsOK, ThreadsOK
<1>5. CASE CheckModified(p)
  <2>1. /\ watch[p].at = "checking"
        /\ watch' = [watch EXCEPT ![p] = [watch[p] EXCEPT !.at = IF watch[p].changed THEN "copying" ELSE Rounds(p),
                                                        !.changed = FALSE]]
    BY <1>2, <1>5 DEF CheckModified
  <2>2. /\ watch' \in [Procs -> Watches] /\ \A q \in Procs \ {p} : watch'[q] = watch[q]
        /\ watch'[p].at = IF watch[p].changed THEN "copying" ELSE Rounds(p)
    BY <1>2, <1>3, <2>1 DEF Watches
  <2>3. [Idle EXCEPT !.at = "reading", !.from = "file"] \in Syncs
    BY <1>2, IdleTypes, SyncRecords
  <2>4. sync' \in [Procs -> Syncs] /\ \A q \in Procs \ {p} : sync'[q] = sync[q]
    BY <1>2, <1>5, <2>3 DEF CheckModified, BeginSync
  <2>5. pc[p] \in Booted /\ (watch[p].changed \/ sync'[p] = sync[p]) /\ pc[p] # "syncing" /\ sync[p].at = "idle"
    BY <1>2, <1>5, <2>1 DEF CheckModified, Typing, ThreadsOK, Booted
  <2> QED
    BY <1>1, <1>5, <2>2, <2>4, <2>5 DEF CheckModified, Typing, LoginsOK, ThreadsOK
<1>6. CASE Copied(p)
  <2>1. /\ watch[p].at = "copying" /\ sync' = [sync EXCEPT ![p] = Idle]
        /\ watch' = [watch EXCEPT ![p] = [watch[p] EXCEPT !.at = Rounds(p)]]
    BY <1>2, <1>6 DEF Copied
  <2>2. /\ watch' \in [Procs -> Watches] /\ \A q \in Procs \ {p} : watch'[q] = watch[q] /\ sync'[q] = sync[q]
        /\ watch'[p].at = Rounds(p) /\ sync'[p].at = "idle" /\ sync' \in [Procs -> Syncs]
    BY <1>2, <1>3, <2>1, IdleTypes DEF Watches
  <2> QED
    BY <1>1, <1>3, <1>6, <2>1, <2>2 DEF Copied, Typing, LoginsOK, ThreadsOK
<1> QED
  BY <1>4, <1>5, <1>6 DEF Watch

LEMMA RefreshTyping ==
  ASSUME Typing, Refreshes
  PROVE  Typing'
<1>1. UNCHANGED <<with, pc, stop, code, due, faults, sync>> /\ ProcsOK' /\ SituationOK'
  BY DEF Typing, ProcsOK, SituationOK, launchVars, Refreshes, HostRefreshes, GuestTruncates, GuestFills
<1>2. latest < MaxLogin => latest + 1 \in Logins
  BY MaxLoginAssumption DEF Typing, LoginsOK, Logins
<1>3. CASE HostRefreshes
  BY <1>1, <1>2, <1>3 DEF HostRefreshes, Typing, LoginsOK, ThreadsOK
<1>4. ASSUME NEW h \in Homes, GuestTruncates(h) \/ GuestFills(h)
      PROVE  Typing'
  <2>1. /\ Modified(h)
        /\ \/ file' = [file EXCEPT ![h] = 0] /\ latest' = latest
           \/ latest < MaxLogin /\ file' = [file EXCEPT ![h] = latest + 1] /\ latest' = latest + 1
    <3>1. CASE GuestTruncates(h)
      BY <3>1 DEF GuestTruncates
    <3>2. CASE GuestFills(h)
      BY <3>2 DEF GuestFills
    <3> QED
      BY <1>4, <3>1, <3>2
  <2>2. UNCHANGED <<keychain, staged, unsaved, raced>> /\ refreshing' \subseteq Homes
    BY <1>4 DEF GuestTruncates, GuestFills, Typing, LoginsOK
  <2>3. file' \in [Homes -> Logins] /\ latest' \in Logins
    BY <1>2, <2>1, IdleTypes DEF Typing, LoginsOK
  <2>4. watch' \in [Procs -> Watches] /\ \A q \in Procs : watch'[q].at = watch[q].at
    BY <2>1, ModifiedTypes
  <2> QED
    BY <1>1, <2>2, <2>3, <2>4 DEF Typing, LoginsOK, ThreadsOK
<1> QED
  BY <1>3, <1>4 DEF Refreshes

(* What the main thread does.                                                *)
LEMMA MainTyping ==
  ASSUME Typing, NEW p \in Procs, p \in with.procs,
         \/ Start(p) \/ Main(p) \/ SetUpFails(p) \/ LaunchFails(p) \/ Killed(p)
  PROVE  Typing'
<1>1. /\ pc \in [Procs -> PcValues] /\ stop \in [Procs -> BOOLEAN]
      /\ code \in [Procs -> {"none", "code", "error"}] /\ due \in [Procs -> Logins]
      /\ sync \in [Procs -> Syncs] /\ watch \in [Procs -> Watches]
      /\ file[Home(p)] \in Logins /\ with.faults \in Nat
  BY SituationTypes DEF Typing, ProcsOK, LoginsOK
<1> USE DEF Goes, PcValues, Booted, Ended
<1>2. ASSUME UNCHANGED with, faults' = faults \/ Fault PROVE SituationOK'
  <2>1. with' = with /\ with \in Setups /\ faults \in 0..with.faults
    BY <1>2 DEF Typing, SituationOK
  <2>2. faults' \in 0..with.faults
    <3>1. with.faults \in Nat
      BY <1>1
    <3> QED
      BY <1>2, <2>1, <3>1 DEF Fault
  <2> QED
    BY <2>1, <2>2 DEF SituationOK
<1>3. ASSUME NEW to \in PcValues \ {"syncing"}, pc' = [pc EXCEPT ![p] = to],
             watch[p].at \in {"none", "ended"} \/ to \in Booted, sync[p].at = "idle" \/ pc[p] # "syncing",
             UNCHANGED <<sync, watch>>
      PROVE  ThreadsOK'
  BY <1>1, <1>3 DEF Typing, ThreadsOK
<1>4. pc[p] \notin Booted => watch[p].at \in {"none", "ended"}
  BY DEF Typing, ThreadsOK
<1>5. CASE Start(p)
  <2>1. [Idle EXCEPT !.at = "reading", !.from = "keychain"] \in Syncs
    BY <1>1, IdleTypes, SyncRecords
  <2>2. /\ pc[p] = "idle" /\ UNCHANGED watch
        /\ \/ /\ pc' = [pc EXCEPT ![p] = "syncing"]
              /\ sync' = [sync EXCEPT ![p] = [Idle EXCEPT !.at = "reading", !.from = "keychain"]]
           \/ pc' = [pc EXCEPT ![p] = "sharing"] /\ UNCHANGED sync
    BY <1>5 DEF Start, BeginSync
  <2>3. sync' \in [Procs -> Syncs] /\ pc' \in [Procs -> PcValues] /\ ThreadsOK'
    BY <1>1, <2>1, <2>2, ZenonT(30) DEF Typing, ThreadsOK
  <2> QED
    BY <1>1, <1>2, <1>5, <2>2, <2>3 DEF Start, Typing, ProcsOK, LoginsOK
<1>6. CASE Synced(p)
  <2>1. sync' \in [Procs -> Syncs] /\ pc' \in [Procs -> PcValues] /\ ThreadsOK'
    BY <1>1, <1>4, <1>6, IdleTypes DEF Synced, Typing, ThreadsOK
  <2> QED
    BY <1>1, <1>2, <1>6, <2>1 DEF Synced, Typing, ProcsOK, LoginsOK
<1>7. CASE ShareRemoves(p) \/ ShareMakes(p) \/ Join(p)
  <2>1. pc' \in [Procs -> PcValues] /\ ThreadsOK'
    BY <1>1, <1>4, <1>7, ZenonT(30) DEF ShareRemoves, ShareMakes, Join, Typing, ThreadsOK, credentialVars
  <2> QED
    BY <1>1, <1>2, <1>7, <2>1 DEF ShareRemoves, ShareMakes, Join, Typing, ProcsOK, LoginsOK, credentialVars
<1>8. CASE Launches(p)
  <2>1. [at |-> "looking", stopping |-> FALSE, changed |-> file[Home(p)] # 0] \in Watches
    BY DEF Watches
  <2>2. pc' \in [Procs -> PcValues] /\ watch' \in [Procs -> Watches] /\ ThreadsOK'
    <3>1. CASE watch' = [watch EXCEPT ![p] = [at |-> "looking", stopping |-> FALSE, changed |-> file[Home(p)] # 0]]
      BY <1>1, <1>4, <1>8, <2>1, <3>1 DEF Launches, Typing, ThreadsOK
    <3>2. CASE UNCHANGED watch
      BY <1>1, <1>4, <1>8, <3>2 DEF Launches, Typing, ThreadsOK
    <3> QED
      BY <1>8, <3>1, <3>2 DEF Launches
  <2> QED
    BY <1>1, <1>2, <1>8, <2>2 DEF Launches, Typing, ProcsOK, LoginsOK
<1>9. CASE SetUp(p)
  <2>1. pc' \in [Procs -> PcValues] /\ ThreadsOK'
    BY <1>1, <1>9 DEF SetUp, Typing, ThreadsOK, credentialVars
  <2> QED
    BY <1>1, <1>2, <1>9, <2>1 DEF SetUp, Typing, ProcsOK, LoginsOK, credentialVars
<1>10. CASE SetUpFails(p) \/ Executed(p)
  <2>1. /\ pc' = [pc EXCEPT ![p] = "ending"] /\ pc[p] \in {"setting up", "executing"}
        /\ stop' = [stop EXCEPT ![p] = TRUE] /\ due' = [due EXCEPT ![p] = file[Home(p)]]
        /\ \E what \in {"code", "error"} : code' = [code EXCEPT ![p] = what]
        /\ UNCHANGED <<with, credentialVars>> /\ (faults' = faults \/ Fault)
    <3>1. CASE SetUpFails(p)
      BY <3>1 DEF SetUpFails, Stops
    <3>2. CASE Executed(p)
      BY <3>2 DEF Executed, Stops
    <3> QED
      BY <1>10, <3>1, <3>2
  <2>2. ProcsOK'
    BY <1>1, <2>1 DEF ProcsOK
  <2>3. LoginsOK' /\ ThreadsOK'
    BY <1>1, <2>1 DEF Typing, LoginsOK, ThreadsOK, credentialVars
  <2> QED
    BY <1>2, <2>1, <2>2, <2>3 DEF Typing
<1>11. CASE Left(p)
  <2>1. pc' \in [Procs -> PcValues] /\ ThreadsOK'
    BY <1>1, <1>4, <1>11 DEF Left, Typing, ThreadsOK, credentialVars
  <2> QED
    BY <1>1, <1>2, <1>11, <2>1 DEF Left, Typing, ProcsOK, LoginsOK, credentialVars
<1>12. CASE JoinThreads(p)
  <2>1. ProcsOK' /\ ThreadsOK'
    BY <1>1, <1>12 DEF JoinThreads, ThreadsEnded, Typing, ProcsOK, ThreadsOK, credentialVars
  <2> QED
    BY <1>2, <1>12, <2>1 DEF JoinThreads, Typing, LoginsOK, credentialVars
<1>13. CASE LaunchFails(p) \/ Killed(p)
  <2>1. /\ \E to \in {"failed", "killed"} : pc' = [pc EXCEPT ![p] = to]
        /\ Fault /\ Abandoned(p)
    BY <1>13 DEF LaunchFails, Killed
  <2>2. /\ sync' \in [Procs -> Syncs] /\ watch' \in [Procs -> Watches]
        /\ \A q \in Procs \ {p} : sync'[q] = sync[q] /\ watch'[q] = watch[q] /\ pc'[q] = pc[q]
        /\ sync'[p].at = "idle" /\ watch'[p].at = "none"
    BY <1>1, <2>1, IdleTypes DEF Abandoned
  <2>3. ProcsOK'
    BY <1>1, <2>1, IdleTypes DEF Abandoned, ProcsOK
  <2>4. ThreadsOK'
    BY <2>2 DEF Typing, ThreadsOK
  <2> QED
    BY <1>2, <2>1, <2>2, <2>3, <2>4 DEF Abandoned, Typing, LoginsOK
<1> QED
  BY <1>5, <1>6, <1>7, <1>8, <1>9, <1>10, <1>11, <1>12, <1>13 DEF Main, Prepare

LEMMA TypingStep ==
  ASSUME Typing, [Next]_vars
  PROVE  Typing'
<1>1. ASSUME NEW p \in with.procs, Start(p) \/ Main(p) \/ SetUpFails(p) \/ LaunchFails(p) \/ Killed(p)
      PROVE  Typing'
  BY <1>1, MainTyping, SituationTypes DEF Typing
<1>2. ASSUME NEW p \in with.procs, CredentialSteps(p) \/ (SyncFails(p) /\ UNCHANGED <<launchVars, relayVars, attachVars>>)
      PROVE  Typing'
  BY <1>2, SyncTyping, WatchTyping, SituationTypes DEF Typing, CredentialSteps
<1>3. ASSUME UNCHANGED <<launchVars, credentialVars>>, faults' = faults \/ Fault
      PROVE  Typing'
  <2>1. with.faults \in Nat
    BY SituationTypes DEF Typing
  <2>2. with' = with /\ with \in Setups /\ faults \in 0..with.faults
    BY <1>3 DEF Typing, SituationOK, launchVars
  <2>3. SituationOK'
    BY <1>3, <2>1, <2>2 DEF SituationOK, Fault
  <2> QED
    BY <1>3, <2>3 DEF Typing, ProcsOK, LoginsOK, ThreadsOK, launchVars, credentialVars
<1>4. ASSUME NEW p \in with.procs, AttachSteps(p) \/ Commands(p)
      PROVE  Typing'
  <2>1. UNCHANGED <<launchVars, credentialVars>> /\ (faults' = faults \/ Fault)
    BY <1>4 DEF AttachSteps, Commands, Serves, Resizes, CannotStart
  <2> QED
    BY <1>3, <2>1
<1>5. CASE Relaying
  BY <1>3, <1>5 DEF Relaying, RelayNext
<1>6. CASE Refreshes
  BY <1>6, RefreshTyping
<1>7. CASE UNCHANGED vars
  BY <1>3, <1>7 DEF vars
<1> QED
  BY <1>1, <1>2, <1>4, <1>5, <1>6, <1>7 DEF Next

LEMMA FlowsStep ==
  ASSUME FlowsOK, [Next]_vars
  PROVE  FlowsOK'
<1>1. ASSUME UNCHANGED <<conn, flow>> PROVE FlowsOK'
  BY <1>1 DEF FlowsOK
<1>2. ASSUME NEW p \in with.procs, Start(p) \/ Main(p) \/ SetUpFails(p)
      PROVE  UNCHANGED <<conn, flow>>
  <2>1. CASE Start(p) BY <2>1 DEF Start, relayVars
  <2>2. CASE Prepare(p) BY <2>2 DEF Prepare, Synced, ShareRemoves, ShareMakes, relayVars
  <2>3. CASE Join(p) BY <2>3 DEF Join, relayVars
  <2>4. CASE Launches(p) BY <2>4 DEF Launches
  <2>5. CASE SetUp(p) BY <2>5 DEF SetUp, relayVars
  <2>6. CASE Executed(p) \/ SetUpFails(p) BY <2>6 DEF Executed, SetUpFails, relayVars
  <2>7. CASE Left(p) \/ JoinThreads(p) BY <2>7 DEF Left, JoinThreads, relayVars
  <2> QED
    BY <1>2, <2>1, <2>2, <2>3, <2>4, <2>5, <2>6, <2>7 DEF Main
<1>3. ASSUME NEW p \in with.procs, LaunchFails(p) \/ Killed(p)
      PROVE  DropsRelay \/ UNCHANGED <<conn, flow>>
  BY <1>3 DEF LaunchFails, Killed, Abandoned, DropsRelay, relayVars
<1>4. ASSUME NEW p \in with.procs,
             \/ CredentialSteps(p) \/ AttachSteps(p) \/ Commands(p)
             \/ SyncFails(p) /\ UNCHANGED <<launchVars, relayVars, attachVars>>
      PROVE  UNCHANGED <<conn, flow>>
  BY <1>4 DEF CredentialSteps, AttachSteps, Commands, relayVars
<1>5. CASE Refreshes BY <1>1, <1>5 DEF Refreshes, relayVars
<1>6. CASE Relaying BY <1>6, RelayStep DEF Relaying
<1>7. CASE UNCHANGED vars BY <1>1, <1>7 DEF vars, relayVars
<1> QED
  BY <1>1, <1>2, <1>3, <1>4, <1>5, <1>6, <1>7, RelayFalls DEF Next

LEMMA WindowsStep ==
  ASSUME Typing, WindowsOK, [Next]_vars
  PROVE  WindowsOK'
<1>1. ASSUME UNCHANGED <<with, attachVars>> PROVE WindowsOK'
  BY <1>1 DEF WindowsOK, AttachTyped, SizesOK, Flagged, Chasing, attachVars
<1>2. ASSUME NEW p \in with.procs, Start(p) \/ Main(p) \/ SetUpFails(p) \/ LaunchFails(p) \/ Killed(p)
      PROVE  UNCHANGED with /\ (UNCHANGED attachVars \/ Asks(p))
  <2>1. CASE Start(p) BY <2>1 DEF Start
  <2>2. CASE Prepare(p) BY <2>2 DEF Prepare, Synced, ShareRemoves, ShareMakes
  <2>3. CASE Join(p) BY <2>3 DEF Join, Asks
  <2>4. CASE Launches(p) BY <2>4 DEF Launches
  <2>5. CASE SetUp(p) BY <2>5 DEF SetUp, Asks
  <2>6. CASE Executed(p) \/ SetUpFails(p) BY <2>6 DEF Executed, SetUpFails
  <2>7. CASE Left(p) \/ JoinThreads(p) BY <2>7 DEF Left, JoinThreads
  <2>8. CASE LaunchFails(p) \/ Killed(p) BY <2>8 DEF LaunchFails, Killed, Abandoned
  <2> QED
    BY <1>2, <2>1, <2>2, <2>3, <2>4, <2>5, <2>6, <2>7, <2>8 DEF Main
<1>3. ASSUME NEW p \in with.procs, AttachSteps(p) \/ Commands(p)
      PROVE  WindowsOK'
  <2>1. p \in Procs
    BY SituationTypes DEF Typing
  <2>2. UNCHANGED with /\ (Serves(p) \/ Resizes(p) \/ Exits(p) \/ WindowChanges(p) \/ CannotStart(p))
    BY <1>3 DEF AttachSteps, Commands, launchVars
  <2> QED
    BY <2>1, <2>2, AttachStep
<1>4. ASSUME NEW p \in with.procs,
             CredentialSteps(p) \/ (SyncFails(p) /\ UNCHANGED <<launchVars, relayVars, attachVars>>)
      PROVE  UNCHANGED <<with, attachVars>>
  BY <1>4 DEF CredentialSteps, launchVars
<1>5. CASE Refreshes BY <1>1, <1>5 DEF Refreshes, launchVars
<1>6. CASE Relaying BY <1>1, <1>6 DEF Relaying, launchVars
<1>7. CASE UNCHANGED vars BY <1>1, <1>7 DEF vars, launchVars
<1>8. \A p \in with.procs : p \in Procs
  BY SituationTypes DEF Typing
<1> QED
  BY <1>1, <1>2, <1>3, <1>4, <1>5, <1>6, <1>7, <1>8, AttachStep DEF Next

(* The one acceptor there is belongs to a process that has a VM: it is gone  *)
(* before the process goes on.                                               *)
LEMMA AcceptorStep ==
  ASSUME Typing, AcceptorOK, [Next]_vars
  PROVE  AcceptorOK'
<1> USE DEF AcceptorOK, HasVm
<1>1. pc \in [Procs -> PcValues] /\ with.procs \subseteq Procs /\ with.ports \subseteq Procs
  BY SituationTypes DEF Typing, ProcsOK
<1>2. ASSUME UNCHANGED <<with, pc>>, acceptor' = "accepting" => acceptor = "accepting"
      PROVE  AcceptorOK'
  BY <1>2
<1>3. ASSUME NEW p \in with.procs, NEW to \in PcValues, pc' = [pc EXCEPT ![p] = to],
             pc[p] \notin Booted \/ to \in Booted \/ p \notin with.ports, UNCHANGED <<with, acceptor>>
      PROVE  AcceptorOK'
  BY <1>1, <1>3
<1>4. ASSUME NEW p \in with.procs, Start(p) \/ Main(p) \/ SetUpFails(p)
      PROVE  AcceptorOK'
  <2> USE DEF Goes, relayVars, PcValues, Booted, Ended
  <2>1. CASE Start(p) BY <1>1, <1>3, <2>1 DEF Start
  <2>2. CASE Synced(p) BY <1>1, <1>3, <2>2 DEF Synced
  <2>3. CASE ShareRemoves(p) \/ ShareMakes(p) BY <1>1, <1>3, <2>3 DEF ShareRemoves, ShareMakes
  <2>4. CASE Join(p) BY <1>1, <1>3, <2>4 DEF Join
  <2>5. CASE Launches(p) BY <1>1, <2>5 DEF Launches
  <2>6. CASE SetUp(p) BY <1>1, <1>3, <2>6 DEF SetUp
  <2>7. CASE Executed(p) BY <1>1, <1>3, <2>7 DEF Executed, Stops
  <2>8. CASE SetUpFails(p) BY <1>1, <1>3, <2>8 DEF SetUpFails, Stops
  <2>9. CASE Left(p) BY <1>1, <1>3, <2>9 DEF Left
  <2>10. CASE JoinThreads(p) BY <1>1, <2>10 DEF JoinThreads, ThreadsEnded, Relayed
  <2> QED
    BY <1>4, <2>1, <2>2, <2>3, <2>4, <2>5, <2>6, <2>7, <2>8, <2>9, <2>10 DEF Main, Prepare
<1>5. ASSUME NEW p \in with.procs, LaunchFails(p) \/ Killed(p)
      PROVE  AcceptorOK'
  BY <1>1, <1>5 DEF LaunchFails, Killed, Abandoned, relayVars
<1>6. ASSUME NEW p \in with.procs,
             \/ CredentialSteps(p) \/ AttachSteps(p) \/ Commands(p)
             \/ SyncFails(p) /\ UNCHANGED <<launchVars, relayVars, attachVars>>
      PROVE  AcceptorOK'
  BY <1>2, <1>6 DEF CredentialSteps, AttachSteps, Commands, relayVars, launchVars
<1>7. CASE Refreshes BY <1>2, <1>7 DEF Refreshes, relayVars, launchVars
<1>8. CASE Relaying
  <2>1. acceptor' = "accepting" => acceptor = "accepting"
    <3>1. CASE Peers
      BY <3>1 DEF Peers, GuestConnects, Writes, ShutsWriting, Closes
    <3>2. CASE Acceptor
      BY <3>2 DEF Acceptor, Finish, Accept, StopAccepting
    <3>3. ASSUME NEW c \in Conns, Connection(c) PROVE UNCHANGED acceptor
      BY <3>3 DEF Connection, Connect, ConnectRefused, Discard, Drained, Unconfigured, Unspliced
    <3>4. ASSUME NEW c \in Conns, NEW d \in Directions, Splice(c, d) \/ Write(c, d) PROVE UNCHANGED acceptor
      BY <3>4 DEF Splice, Read, ReadEnd, ReadFails, Write, WriteFails, SpliceStops
    <3> QED
      BY <1>8, <3>1, <3>2, <3>3, <3>4 DEF Relaying, RelayNext
  <2> QED
    BY <1>2, <1>8, <2>1 DEF Relaying, launchVars
<1>9. CASE UNCHANGED vars BY <1>2, <1>9 DEF vars, relayVars, launchVars
<1> QED
  BY <1>4, <1>5, <1>6, <1>7, <1>8, <1>9 DEF Next

-----------------------------------------------------------------------------
IInv == Typing /\ FlowsOK /\ WindowsOK /\ AcceptorOK

LEMMA IInvInit ==
  ASSUME Init
  PROVE  IInv
<1> USE DEF Init
<1>1. Typing
  <2>1. with.faults \in Nat
    BY SetupsAssumption DEF Situation
  <2>2. SituationOK
    BY <2>1 DEF SituationOK
  <2>3. ProcsOK
    BY IdleTypes DEF ProcsOK, PcValues
  <2>4. LoginsOK
    BY IdleTypes DEF CredentialsInit, LoginsOK
  <2>5. ThreadsOK
    BY IdleTypes DEF CredentialsInit, ThreadsOK
  <2> QED
    BY <2>2, <2>3, <2>4, <2>5 DEF Typing
<1>2. FlowsOK /\ AcceptorOK
  BY DEF RelayInit, FlowsOK, AcceptorOK, NoFlow, Flow, Sound, Fresh, Early
<1>3. AttachTyped
  BY WindowAssumption DEF AttachInit, AttachTyped, Sizes, Default, NoResizer
<1>4. SizesOK
  BY WindowAssumption DEF AttachInit, SizesOK, Sizes, Default, NoResizer
<1> QED
  BY <1>1, <1>2, <1>3, <1>4 DEF IInv, WindowsOK

LEMMA IInvStep ==
  ASSUME IInv, [Next]_vars
  PROVE  IInv'
BY TypingStep, FlowsStep, WindowsStep, AcceptorStep DEF IInv

(* Every state has the invariant TLC checks a few of the parts of.           *)
THEOREM Inductive == Spec => []IInv
BY IInvInit, IInvStep, PTL DEF Spec

(* No thread outlives the place where its owner joins it: a watcher, a copy  *)
(* or an acceptor is only there while its process is (launch).               *)
THEOREM TypeCorrect == Spec => []TypeOK
<1>1. ASSUME IInv PROVE TypeOK
  <2>1. /\ pc \in [Procs -> PcValues] /\ with \in Setups /\ faults \in 0..with.faults
        /\ staged \in [Homes -> Logins \cup {Missing}]
    BY <1>1 DEF IInv, Typing, SituationOK, ProcsOK, LoginsOK
  <2>2. {keychain, latest} \cup {file[h] : h \in Homes} \subseteq Logins
    BY <1>1 DEF IInv, Typing, LoginsOK
  <2>3. ASSUME NEW p \in Procs
        PROVE  /\ watch[p].at \notin {"none", "ended"} => pc[p] \in Booted
               /\ Syncing(p) => pc[p] = "syncing" \/ watch[p].at = "copying"
    BY <1>1 DEF IInv, Typing, ThreadsOK, Syncing
  <2>4. ASSUME NEW p \in Procs
        PROVE  window[p] \in Sizes /\ {guest[p], initial[p]} \subseteq Sizes \cup {Default}
    BY <1>1 DEF IInv, WindowsOK, AttachTyped
  <2>5. ASSUME NEW c \in Conns, NEW d \in Directions
        PROVE  Unread(c, d) >= 0
    BY <1>1 DEF IInv, FlowsOK, Sound, Flow, Unread
  <2>6. acceptor = "accepting" => \E p \in with.ports : HasVm(p)
    BY <1>1 DEF IInv, AcceptorOK
  <2> QED
    BY <2>1, <2>2, <2>3, <2>4, <2>5, <2>6 DEF TypeOK, PcValues
<1> QED
  BY <1>1, Inductive, PTL

(* However the threads of a relay interleave, a peer is told the end of a    *)
(* direction behind its last chunk, or the direction is broken.              *)
THEOREM EndBehindAll == Spec => []EofMeansAll
<1>1. ASSUME IInv PROVE EofMeansAll
  <2>1. ASSUME NEW c \in Conns, NEW d \in Directions, NEW f, f = flow[c][d],
               f.eof, f.thread # "none", ~f.broken
        PROVE  f.shut /\ f.got = f.sent
    BY <1>1, <2>1 DEF IInv, FlowsOK, Sound
  <2> QED
    BY <2>1 DEF EofMeansAll
<1> QED
  BY <1>1, Inductive, PTL

(* With nothing on its way the guest's terminal has the window's size, but   *)
(* for the crossing the code allows.                                         *)
THEOREM TerminalSettles == Spec => []WindowSettles
<1>1. ASSUME IInv PROVE WindowSettles
  <2>1. ASSUME NEW p \in with.terminals, attach[p] = "running", ~crossed[p], ~resized[p],
               nudges[p] = 0, resizer[p].at = "idle"
        PROVE  guest[p] = window[p]
    BY <1>1, <2>1, SituationTypes DEF IInv, Typing, WindowsOK, SizesOK, Chasing, Flagged
  <2> QED
    BY <2>1 DEF WindowSettles
<1> QED
  BY <1>1, Inductive, PTL

-----------------------------------------------------------------------------
(* Logins, for any number of sessions of any number of Claude homes: the     *)
(* login a session ends with is saved.                                       *)

(* Who copies which way.                                                     *)
CopyOK(p) ==
  /\ sync[p].at \in {"opening", "writing", "renaming"} => sync[p].from = "keychain"
  /\ sync[p].at = "saving" => sync[p].from = "file"
  /\ watch[p].at = "copying" /\ Syncing(p) => sync[p].from = "file"
  /\ pc[p] = "syncing" /\ Syncing(p) => sync[p].from = "keychain"
CopiesOK == \A p \in Procs : CopyOK(p)

(* The watcher of a session that goes on is there and not to stop, and the   *)
(* login to be saved is not fixed before.                                    *)
WatcherOK(p) ==
  /\ stop[p] => pc[p] = "ending"
  /\ watch[p].at \in {"checking", "copying"} /\ watch[p].stopping => pc[p] = "ending"
  /\ p \in with.keychain /\ pc[p] \in {"setting up", "executing"} => watch[p].at \notin {"none", "ended"}
  /\ pc[p] \notin {"ending"} \cup Ended => due[p] = 0
WatchersOK == \A p \in Procs : WatcherOK(p)

(* Nobody has a login that was not issued.                                   *)
IssuedOK ==
  /\ keychain <= latest
  /\ \A h \in Homes : file[h] <= latest /\ (staged[h] # Missing => staged[h] <= latest)
  /\ \A p \in Procs : sync[p].login <= latest /\ due[p] <= latest

(* The watcher has the last change of the file before it, and will try.      *)
Unsettled(p) ==
  LET w == watch[p]
      s == sync[p]
  IN \/ w.at \in {"looking", "checking"} /\ w.changed
     \/ /\ w.at = "copying"
        /\ \/ w.changed /\ ~w.stopping
           \/ s.at = "reading"
           \/ s.at \in {"comparing", "saving"} /\ s.login = file[Home(p)]

(* p's last login is past saving.                                            *)
Past(p) == keychain >= due[p] \/ file[Home(p)] # due[p]

(* A login copied to the file is in the Keychain, which only gets later      *)
(* ones; the login a watcher copies is the file's, or another round follows, *)
(* or the file was changed after the command had ended.                      *)
CarryOK(p) ==
  /\ sync[p].at \in {"comparing", "opening", "writing", "renaming"} /\ sync[p].from = "keychain"
       => sync[p].login <= keychain
  /\ sync[p].at = "saving" => ~KeepsTarget(sync[p].kept, sync[p].login)
  /\ watch[p].at = "copying" /\ sync[p].at \in {"comparing", "saving"} =>
       \/ sync[p].login = file[Home(p)]
       \/ watch[p].changed /\ ~watch[p].stopping
       \/ watch[p].stopping /\ Past(p)
CarriedOK == \A p \in Procs : CarryOK(p)

(* The file's login is saved or going to be, while the session goes on; the  *)
(* login it ended with, from then on.                                        *)
SaveOK(p) ==
  p \in with.keychain =>
    /\ pc[p] \in {"setting up", "executing"} =>
         keychain >= file[Home(p)] \/ p \in unsaved \/ Unsettled(p)
    /\ pc[p] \in {"ending", "ended"} => Past(p) \/ p \in unsaved \/ Unsettled(p)
SavedOK == \A p \in Procs : SaveOK(p)

LoginInv == CopiesOK /\ WatchersOK /\ IssuedOK /\ (~raced => CarriedOK /\ SavedOK)

-----------------------------------------------------------------------------
(* The main thread.                                                          *)

(* What it leaves alone, of its own process.                                 *)
Keeps(p, pcs, threads) ==
  /\ pcs => stop'[p] = stop[p] /\ due'[p] = due[p]
  /\ threads => sync'[p] = sync[p] /\ watch'[p] = watch[p]

(* Its moves: it begins to copy a login, gets on, boots, runs the command,   *)
(* tells its threads to end, leaves as a client, joins them, or dies.        *)
Begins(p) ==
  /\ pc[p] = "idle" /\ pc'[p] = "syncing" /\ Keeps(p, TRUE, FALSE) /\ watch'[p] = watch[p]
  /\ sync'[p].at = "reading" /\ sync'[p].from = "keychain" /\ sync'[p].login = 0
GetsOn(p) ==
  /\ pc[p] \in {"idle", "syncing", "sharing", "copying", "asking"}
  /\ pc'[p] \in {"sharing", "copying", "asking", "joined", "failed"}
  /\ Keeps(p, TRUE, FALSE) /\ watch'[p] = watch[p] /\ (sync'[p] = sync[p] \/ sync'[p] = Idle)
Boots(p) ==
  /\ pc[p] = "asking" /\ pc'[p] = "setting up" /\ Keeps(p, TRUE, FALSE) /\ sync'[p] = sync[p]
  /\ IF p \in with.keychain
       THEN watch'[p] = [at |-> "looking", stopping |-> FALSE, changed |-> file[Home(p)] # 0]
       ELSE watch'[p] = watch[p]
Runs(p) == pc[p] = "setting up" /\ pc'[p] = "executing" /\ Keeps(p, TRUE, TRUE)
Tells(p) ==
  /\ pc[p] \in {"setting up", "executing"} /\ pc'[p] = "ending" /\ Keeps(p, FALSE, TRUE)
  /\ stop'[p] /\ due'[p] = file[Home(p)]
Leaves(p) == pc[p] = "joined" /\ pc'[p] \in {"ended", "failed"} /\ Keeps(p, TRUE, TRUE)
Joins(p) ==
  /\ pc[p] = "ending" /\ pc'[p] \in {"ended", "failed"} /\ watch[p].at \in {"none", "ended"}
  /\ Keeps(p, FALSE, TRUE) /\ ~stop'[p] /\ due'[p] = due[p]
Dies(p) ==
  /\ pc'[p] \in {"failed", "killed"} /\ sync'[p] = Idle /\ watch'[p] = Asleep
  /\ ~stop'[p] /\ due'[p] = 0

Moves(p) ==
  /\ UNCHANGED <<with, keychain, file, staged, latest, unsaved, raced>>
  /\ \A q \in Procs \ {p} :
       pc'[q] = pc[q] /\ stop'[q] = stop[q] /\ due'[q] = due[q] /\ sync'[q] = sync[q] /\ watch'[q] = watch[q]
  /\ Begins(p) \/ GetsOn(p) \/ Boots(p) \/ Runs(p) \/ Tells(p) \/ Leaves(p) \/ Joins(p) \/ Dies(p)

LEMMA MainMoves ==
  ASSUME Typing, NEW p \in Procs,
         \/ Start(p) \/ Main(p) \/ SetUpFails(p) \/ LaunchFails(p) \/ Killed(p)
  PROVE  Moves(p)
<1>1. /\ pc \in [Procs -> PcValues] /\ stop \in [Procs -> BOOLEAN] /\ due \in [Procs -> Logins]
      /\ sync \in [Procs -> Syncs] /\ watch \in [Procs -> Watches]
  BY DEF Typing, ProcsOK, LoginsOK
<1> USE DEF Goes, Keeps, Moves
<1>2. CASE Start(p)
  BY <1>1, <1>2, ZenonT(30) DEF Start, BeginSync, Begins, GetsOn, Idle
<1>3. CASE Synced(p)
  BY <1>1, <1>3 DEF Synced, GetsOn
<1>4. CASE ShareRemoves(p)
  BY <1>1, <1>4 DEF ShareRemoves, GetsOn, credentialVars
<1>5. CASE ShareMakes(p)
  BY <1>1, <1>5 DEF ShareMakes, GetsOn, credentialVars
<1>6. CASE Join(p)
  BY <1>1, <1>6 DEF Join, GetsOn, credentialVars
<1>7. CASE Launches(p)
  BY <1>1, <1>7 DEF Launches, Boots, Home
<1>8. CASE SetUp(p)
  BY <1>1, <1>8 DEF SetUp, Runs, credentialVars
<1>9. CASE Executed(p)
  BY <1>1, <1>9 DEF Executed, Stops, Tells, credentialVars
<1>10. CASE SetUpFails(p)
  BY <1>1, <1>10 DEF SetUpFails, Stops, Tells, credentialVars
<1>11. CASE Left(p)
  BY <1>1, <1>11 DEF Left, Leaves, credentialVars
<1>12. CASE JoinThreads(p)
  BY <1>1, <1>12 DEF JoinThreads, ThreadsEnded, Joins, credentialVars
<1>13. CASE LaunchFails(p) \/ Killed(p)
  BY <1>1, <1>13 DEF LaunchFails, Killed, Abandoned, Dies
<1> QED
  BY <1>2, <1>3, <1>4, <1>5, <1>6, <1>7, <1>8, <1>9, <1>10, <1>11, <1>12, <1>13 DEF Main, Prepare

LEMMA MovesKeep ==
  ASSUME Typing, CopiesOK, WatchersOK, IssuedOK, NEW p \in Procs, Moves(p)
  PROVE  CopiesOK' /\ WatchersOK' /\ IssuedOK'
<1>1. /\ pc[p] \in PcValues /\ (sync[p].at # "idle" => pc[p] = "syncing" \/ watch[p].at = "copying")
      /\ (watch[p].at \notin {"none", "ended"} => pc[p] \in Booted) /\ Home(p) \in Homes
      /\ 0 <= latest /\ latest \in Nat
  BY SituationTypes, MaxLoginAssumption DEF Typing, ProcsOK, LoginsOK, ThreadsOK, Logins
<1>2. /\ UNCHANGED <<with, keychain, file, staged, latest>>
      /\ \A q \in Procs \ {p} :
           pc'[q] = pc[q] /\ stop'[q] = stop[q] /\ due'[q] = due[q] /\ sync'[q] = sync[q] /\ watch'[q] = watch[q]
  BY DEF Moves
<1> USE DEF Keeps, PcValues, Booted, Ended
<1>3. CopiesOK'
  <2>1. CopyOK(p)'
    <3> USE DEF CopyOK, Syncing
    <3>1. CopyOK(p)
      BY DEF CopiesOK
    <3>2. CASE Begins(p) BY <1>1, <3>2 DEF Begins
    <3>3. CASE GetsOn(p) BY <1>1, <3>1, <3>3, IdleTypes DEF GetsOn
    <3>4. CASE Boots(p) BY <1>1, <3>1, <3>4 DEF Boots
    <3>5. CASE Runs(p) \/ Leaves(p) BY <3>1, <3>5 DEF Runs, Leaves
    <3>6. CASE Tells(p) \/ Joins(p) BY <3>1, <3>6 DEF Tells, Joins
    <3>7. CASE Dies(p) BY <3>7, IdleTypes DEF Dies
    <3> QED
      BY <3>2, <3>3, <3>4, <3>5, <3>6, <3>7 DEF Moves
  <2>2. ASSUME NEW q \in Procs \ {p} PROVE CopyOK(q)'
    BY <1>2 DEF CopiesOK, CopyOK, Syncing
  <2> QED
    BY <2>1, <2>2 DEF CopiesOK
<1>4. WatchersOK'
  <2>1. WatcherOK(p)'
    <3> USE <1>2 DEF WatcherOK
    <3>1. WatcherOK(p)
      BY DEF WatchersOK
    <3>2. CASE Begins(p) BY <1>1, <3>1, <3>2 DEF Begins
    <3>3. CASE GetsOn(p) BY <1>1, <3>1, <3>3 DEF GetsOn
    <3>4. CASE Boots(p)
      <4>1. watch'[p].at = "looking" \/ (p \notin with.keychain /\ watch'[p] = watch[p])
        <5>1. CASE p \in with.keychain
          <6>1. watch'[p] = [at |-> "looking", stopping |-> FALSE, changed |-> file[Home(p)] # 0]
            BY <3>4, <5>1 DEF Boots
          <6> QED
            BY <6>1
        <5>2. CASE p \notin with.keychain
          BY <3>4, <5>2 DEF Boots
        <5> QED
          BY <5>1, <5>2
      <4> QED
        BY <1>1, <3>1, <3>4, <4>1 DEF Boots
    <3>5. CASE Runs(p) \/ Leaves(p) BY <3>1, <3>5 DEF Runs, Leaves
    <3>6. CASE Tells(p) \/ Joins(p) BY <3>1, <3>6 DEF Tells, Joins
    <3>7. CASE Dies(p) BY <3>7, IdleTypes DEF Dies
    <3> QED
      BY <3>2, <3>3, <3>4, <3>5, <3>6, <3>7 DEF Moves
  <2>2. ASSUME NEW q \in Procs \ {p} PROVE WatcherOK(q)'
    BY <1>2 DEF WatchersOK, WatcherOK
  <2> QED
    BY <2>1, <2>2 DEF WatchersOK
<1>5. IssuedOK'
  <2>1. sync'[p].login <= latest /\ due'[p] <= latest
    <3>1. sync[p].login <= latest /\ due[p] <= latest /\ file[Home(p)] <= latest /\ Idle.login <= latest
      BY <1>1 DEF IssuedOK, Idle
    <3> QED
      BY <1>1, <3>1 DEF Moves, Begins, GetsOn, Boots, Runs, Tells, Leaves, Joins, Dies
  <2> QED
    BY <1>2, <2>1 DEF IssuedOK
<1> QED
  BY <1>3, <1>4, <1>5

LEMMA NewWatch ==
  ASSUME NEW b, NEW w, w = [at |-> "looking", stopping |-> FALSE, changed |-> b]
  PROVE  w.at = "looking" /\ w.changed = b
OBVIOUS

LEMMA BootWatches ==
  ASSUME NEW p, p \in with.keychain, Boots(p)
  PROVE  watch'[p].at = "looking" /\ (file[Home(p)] # 0 => watch'[p].changed) /\ pc'[p] = "setting up"
<1> DEFINE b == file[Home(p)] # 0
<1>1. watch'[p] = [at |-> "looking", stopping |-> FALSE, changed |-> b] /\ pc'[p] = "setting up"
  BY DEF Boots
<1> HIDE DEF b
<1>2. watch'[p].at = "looking" /\ watch'[p].changed = b
  BY <1>1, NewWatch
<1> USE DEF b
<1> QED
  BY <1>1, <1>2, Zenon

LEMMA MovesSave ==
  ASSUME Typing, CopiesOK, WatchersOK, IssuedOK, CarriedOK, SavedOK, NEW p \in Procs, Moves(p)
  PROVE  CarriedOK' /\ SavedOK'
<1>1. /\ pc[p] \in PcValues /\ (sync[p].at # "idle" => pc[p] = "syncing" \/ watch[p].at = "copying")
      /\ (watch[p].at \notin {"none", "ended"} => pc[p] \in Booted) /\ Home(p) \in Homes
      /\ keychain \in Nat /\ file[Home(p)] \in Nat /\ WatcherOK(p) /\ CarryOK(p) /\ SaveOK(p)
  BY SituationTypes, MaxLoginAssumption
     DEF Typing, ProcsOK, LoginsOK, ThreadsOK, Logins, WatchersOK, CarriedOK, SavedOK
<1>2. /\ UNCHANGED <<with, keychain, file, staged, latest, unsaved>>
      /\ \A q \in Procs : Home(q)' = Home(q)
      /\ \A q \in Procs \ {p} :
           pc'[q] = pc[q] /\ stop'[q] = stop[q] /\ due'[q] = due[q] /\ sync'[q] = sync[q] /\ watch'[q] = watch[q]
  BY DEF Moves, Home
<1> USE DEF Keeps, PcValues, Booted, Ended
<1>3. CarryOK(p)'
  <2> USE <1>2 DEF CarryOK, Past
  <2>1. CASE Begins(p) BY <1>1, <2>1 DEF Begins
  <2>2. CASE GetsOn(p) BY <1>1, <2>2, IdleTypes DEF GetsOn
  <2>3. CASE Boots(p) BY <1>1, <2>3 DEF Boots
  <2>4. CASE Runs(p) \/ Leaves(p) BY <1>1, <2>4 DEF Runs, Leaves
  <2>5. CASE Tells(p) BY <1>1, <2>5 DEF Tells, WatcherOK
  <2>6. CASE Joins(p) BY <1>1, <2>6 DEF Joins
  <2>7. CASE Dies(p) BY <2>7, IdleTypes DEF Dies
  <2> QED
    BY <2>1, <2>2, <2>3, <2>4, <2>5, <2>6, <2>7 DEF Moves
<1>4. SaveOK(p)'
  <2> USE <1>2 DEF SaveOK, Past, Unsettled
  <2>1. CASE Begins(p) BY <2>1 DEF Begins
  <2>2. CASE GetsOn(p) BY <2>2 DEF GetsOn
  <2>3. CASE Boots(p)
    <3>1. CASE p \in with.keychain
      <4>1. watch'[p].at = "looking" /\ (file[Home(p)] # 0 => watch'[p].changed) /\ pc'[p] = "setting up"
        BY <2>3, <3>1, BootWatches
      <4>3. CASE file[Home(p)] # 0
        BY <4>1, <4>3
      <4>4. CASE file[Home(p)] = 0
        <5>1. (keychain >= file[Home(p)])'
          <6>1. keychain' = keychain /\ file' = file /\ Home(p)' = Home(p)
            OBVIOUS
          <6>2. keychain \in Nat
            BY <1>1
          <6> QED
            BY <4>4, <6>1, <6>2
        <5> QED
          BY <4>1, <5>1
      <4> QED
        BY <4>3, <4>4
    <3>2. CASE p \notin with.keychain
      BY <3>2
    <3> QED
      BY <3>1, <3>2
  <2>4. CASE Runs(p) BY <1>1, <2>4 DEF Runs
  <2>5. CASE Tells(p) BY <1>1, <2>5 DEF Tells
  <2>6. CASE Leaves(p)
    <3>1. due'[p] = 0 /\ keychain' >= 0
      BY <1>1, <2>6 DEF Leaves, WatcherOK
    <3> QED
      BY <2>6, <3>1 DEF Leaves
  <2>7. CASE Joins(p) BY <1>1, <2>7 DEF Joins
  <2>8. CASE Dies(p) BY <2>8 DEF Dies
  <2> QED
    BY <2>1, <2>2, <2>3, <2>4, <2>5, <2>6, <2>7, <2>8 DEF Moves
<1>5. ASSUME NEW q \in Procs \ {p} PROVE CarryOK(q)' /\ SaveOK(q)'
  <2>1. CarryOK(q) /\ SaveOK(q)
    BY DEF CarriedOK, SavedOK
  <2> QED
    BY <1>2, <2>1 DEF CarryOK, SaveOK, Past, Unsettled
<1> QED
  BY <1>3, <1>4, <1>5 DEF CarriedOK, SavedOK

-----------------------------------------------------------------------------
(* The copies.                                                               *)

(* Another's step: the Keychain's login gets no earlier, and a change of the *)
(* file is one the watcher is told of.                                       *)
LEMMA Bystander ==
  ASSUME Typing, Typing', NEW q \in Procs, CopyOK(q), WatcherOK(q),
         UNCHANGED <<with, pc, stop, due>>,
         sync'[q].at = sync[q].at, sync'[q].from = sync[q].from,
         watch'[q].at = watch[q].at, watch'[q].stopping = watch[q].stopping
  PROVE  /\ CopyOK(q)' /\ WatcherOK(q)'
         /\ /\ CarryOK(q) /\ SaveOK(q) /\ keychain' >= keychain
            /\ sync'[q].login = sync[q].login /\ sync'[q].kept = sync[q].kept
            /\ q \in unsaved => q \in unsaved'
            /\ \/ file'[Home(q)] = file[Home(q)] /\ (watch[q].changed => watch'[q].changed)
               \/ Past(q)' /\ (watch[q].at \notin {"none", "ended"} => watch'[q].changed)
            => CarryOK(q)' /\ SaveOK(q)'
<1>1. /\ keychain \in Nat /\ keychain' \in Nat /\ due[q] \in Nat /\ file[Home(q)] \in Nat /\ file'[Home(q)] \in Nat
      /\ sync[q].login \in Nat /\ Home(q)' = Home(q) /\ due'[q] = due[q] /\ pc'[q] = pc[q]
      /\ watch[q].at \in {"none", "looking", "checking", "copying", "ended"}
  BY SituationTypes, MaxLoginAssumption DEF Typing, ProcsOK, LoginsOK, Logins, Syncs, Watches, Home
<1>2. CopyOK(q)' /\ WatcherOK(q)'
  BY DEF CopyOK, WatcherOK, Syncing
<1>3. ASSUME CarryOK(q), SaveOK(q), keychain' >= keychain,
             sync'[q].login = sync[q].login, sync'[q].kept = sync[q].kept, q \in unsaved => q \in unsaved',
             \/ file'[Home(q)] = file[Home(q)] /\ (watch[q].changed => watch'[q].changed)
             \/ Past(q)' /\ (watch[q].at \notin {"none", "ended"} => watch'[q].changed)
      PROVE  CarryOK(q)' /\ SaveOK(q)'
  <2>1. Past(q) /\ file'[Home(q)] = file[Home(q)] => Past(q)'
    BY <1>1, <1>3 DEF Past
  <2>2. sync[q].login <= keychain => sync'[q].login <= keychain'
    BY <1>1, <1>3
  <2>3. CASE file'[Home(q)] = file[Home(q)] /\ (watch[q].changed => watch'[q].changed)
    <3>1. keychain >= file[Home(q)] => keychain' >= file'[Home(q)']
      BY <1>1, <1>3, <2>3
    <3>2. Unsettled(q) => Unsettled(q)'
      BY <1>1, <1>3, <2>3 DEF Unsettled
    <3>3. CarryOK(q)'
      BY <1>1, <1>3, <2>1, <2>2, <2>3 DEF CarryOK, KeepsTarget
    <3>4. SaveOK(q)'
      BY <1>1, <1>3, <2>1, <2>3, <3>1, <3>2 DEF SaveOK
    <3> QED
      BY <3>3, <3>4
  <2>4. CASE Past(q)' /\ (watch[q].at \notin {"none", "ended"} => watch'[q].changed)
    <3>1. CarryOK(q)'
      BY <1>1, <1>3, <2>2, <2>4 DEF CarryOK, KeepsTarget
    <3>2. SaveOK(q)'
      BY <1>1, <1>3, <2>4 DEF SaveOK, Unsettled, WatcherOK
    <3> QED
      BY <3>1, <3>2
  <2> QED
    BY <1>3, <2>3, <2>4
<1> QED
  BY <1>2, <1>3

(* A step of p's copy that changes no file: the others stand by.             *)
LEMMA CopyQuietly ==
  ASSUME Typing, Typing', CopiesOK, WatchersOK, NEW p \in Procs, UNCHANGED <<with, pc, stop, due, file, watch>>,
         \A q \in Procs \ {p} : sync'[q] = sync[q],
         CopyOK(p)', WatcherOK(p)'
  PROVE  /\ CopiesOK' /\ WatchersOK'
         /\ /\ CarriedOK /\ SavedOK /\ CarryOK(p)' /\ SaveOK(p)'
            /\ keychain' >= keychain /\ unsaved \ {p} \subseteq unsaved'
            => CarriedOK' /\ SavedOK'
<1>1. ASSUME NEW q \in Procs \ {p}
      PROVE  CopyOK(q)' /\ WatcherOK(q)'
  BY Bystander DEF CopiesOK, WatchersOK
<1>2. ASSUME CarriedOK, SavedOK, keychain' >= keychain, unsaved \ {p} \subseteq unsaved', NEW q \in Procs \ {p}
      PROVE  CarryOK(q)' /\ SaveOK(q)'
  <2>1. CopyOK(q) /\ WatcherOK(q) /\ CarryOK(q) /\ SaveOK(q)
    BY <1>2 DEF CopiesOK, WatchersOK, CarriedOK, SavedOK
  <2>2. sync'[q] = sync[q] /\ watch'[q] = watch[q] /\ file'[Home(q)] = file[Home(q)] /\ (q \in unsaved => q \in unsaved')
    BY <1>2
  <2> QED
    BY <1>2, <2>1, <2>2, Bystander
<1> QED
  BY <1>1, <1>2 DEF CopiesOK, WatchersOK, CarriedOK, SavedOK

(* What is known of a process that copies.                                   *)
LEMMA CopyTypes ==
  ASSUME Typing, CopiesOK, WatchersOK, NEW p \in Procs
  PROVE  /\ sync[p] \in Syncs /\ sync \in [Procs -> Syncs] /\ sync[p].login \in Nat /\ sync[p].kept \in Nat
         /\ keychain \in Nat /\ file[Home(p)] \in Nat /\ due[p] \in Nat /\ latest \in Nat
         /\ sync[p].at # "idle" => pc[p] = "syncing" \/ watch[p].at = "copying"
         /\ watch[p].at \notin {"none", "ended"} => pc[p] \in Booted
         /\ CopyOK(p) /\ WatcherOK(p) /\ Home(p) \in Homes /\ watch[p] \in Watches
BY SituationTypes, MaxLoginAssumption
   DEF Typing, ProcsOK, LoginsOK, ThreadsOK, Logins, Syncs, CopiesOK, WatchersOK

(* p's own copy has ended, and its login is saved, not to be saved, or never *)
(* will.                                                                     *)
LEMMA CopyOver ==
  ASSUME Typing, CopiesOK, WatchersOK, NEW p \in Procs, UNCHANGED <<with, pc, stop, due, file, watch>>,
         sync'[p].at \in {"done", "failed"}
  PROVE  /\ CopyOK(p)' /\ WatcherOK(p)' /\ CarryOK(p)'
         /\ /\ SaveOK(p) /\ keychain' \in Nat /\ keychain' >= keychain
            /\ \/ pc[p] = "syncing"
               \/ watch[p].at = "copying" /\ (keychain' >= file[Home(p)] \/ (watch[p].changed /\ ~watch[p].stopping)
                                             \/ (watch[p].stopping /\ Past(p)))
               \/ p \in unsaved'
            => SaveOK(p)'
<1>1. /\ CopyOK(p) /\ WatcherOK(p) /\ keychain \in Nat /\ file[Home(p)] \in Nat /\ due[p] \in Nat
      /\ Home(p)' = Home(p) /\ due'[p] = due[p] /\ pc'[p] = pc[p]
  BY CopyTypes DEF Home
<1>2. CopyOK(p)' /\ WatcherOK(p)' /\ CarryOK(p)'
  BY <1>1 DEF CopyOK, WatcherOK, CarryOK, Syncing
<1>3. ASSUME SaveOK(p), keychain' \in Nat, keychain' >= keychain,
             \/ pc[p] = "syncing"
             \/ watch[p].at = "copying" /\ (keychain' >= file[Home(p)] \/ (watch[p].changed /\ ~watch[p].stopping)
                                           \/ (watch[p].stopping /\ Past(p)))
             \/ p \in unsaved'
      PROVE  SaveOK(p)'
  <2>1. Past(p) => Past(p)'
    BY <1>1, <1>3 DEF Past
  <2>2. keychain' >= file[Home(p)] => (keychain >= file[Home(p)])' /\ Past(p)'
    BY <1>1, <1>3 DEF Past
  <2> QED
    BY <1>1, <1>3, <2>1, <2>2 DEF SaveOK, Unsettled, WatcherOK
<1> QED
  BY <1>2, <1>3

LEMMA SyncKeeps ==
  ASSUME Typing, Typing', CopiesOK, WatchersOK, IssuedOK, ~raced => CarriedOK /\ SavedOK,
         NEW p \in Procs, Sync(p) \/ SyncFails(p), UNCHANGED launchVars
  PROVE  LoginInv'
<1> DEFINE h == Home(p)
<1>1. /\ UNCHANGED <<with, pc, stop, due>>
      /\ sync[p] \in Syncs /\ sync \in [Procs -> Syncs] /\ sync[p].login \in Nat /\ sync[p].kept \in Nat
      /\ keychain \in Nat /\ file[h] \in Nat /\ due[p] \in Nat /\ latest \in Nat
      /\ sync[p].at # "idle" => pc[p] = "syncing" \/ watch[p].at = "copying"
      /\ pc[p] = "syncing" => watch[p].at \in {"none", "ended"}
      /\ CopyOK(p) /\ WatcherOK(p) /\ h \in Homes /\ watch[p] \in Watches
  BY CopyTypes DEF launchVars, Booted, Watches
<1>3. keychain' \in Nat /\ sync[p].login <= latest
  BY MaxLoginAssumption DEF Typing, LoginsOK, Logins, IssuedOK
<1>4. ~raced => CarryOK(p) /\ SaveOK(p)
  BY DEF CarriedOK, SavedOK
<1> HIDE DEF h
<1> USE DEF SyncEnds, SyncGoes
<1>5. ASSUME NEW at \in {"done", "failed"}, sync' = [sync EXCEPT ![p] = [Idle EXCEPT !.at = at]]
      PROVE  sync'[p].at \in {"done", "failed"} /\ sync'[p].login = 0 /\ \A q \in Procs \ {p} : sync'[q] = sync[q]
  BY <1>1, <1>5 DEF Idle
<1>6. ASSUME UNCHANGED <<keychain, file, staged, latest>>, \A q \in Procs \ {p} : sync'[q].login = sync[q].login,
             sync'[p].login <= latest
      PROVE  IssuedOK'
  BY <1>1, <1>6 DEF IssuedOK
<1>7. CASE ReadSource(p)
  <2> DEFINE login == LoginOf(sync[p].from, p)
  <2>1. /\ sync[p].at = "reading" /\ UNCHANGED <<keychain, file, staged, latest, watch, unsaved, raced>>
        /\ \/ login = 0 /\ sync' = [sync EXCEPT ![p] = [Idle EXCEPT !.at = "done"]]
           \/ login # 0 /\ sync' = [sync EXCEPT ![p] = [sync[p] EXCEPT !.login = login, !.at = "comparing"]]
    BY <1>1, <1>7 DEF ReadSource
  <2>2. login \in Nat /\ login <= latest /\ (sync[p].from = "keychain" => login = keychain)
        /\ (sync[p].from = "file" => login = file[h])
    BY <1>1 DEF LoginOf, IssuedOK, h
  <2> HIDE DEF login
  <2>3. CASE login = 0 /\ sync' = [sync EXCEPT ![p] = [Idle EXCEPT !.at = "done"]]
    <3>1. sync'[p].at \in {"done", "failed"} /\ sync'[p].login = 0 /\ \A q \in Procs \ {p} : sync'[q] = sync[q]
      BY <1>5, <2>3
    <3>2. watch[p].at = "copying" => keychain' >= file[h]
      BY <1>1, <2>1, <2>2, <2>3 DEF CopyOK, Syncing
    <3>3. CopyOK(p)' /\ WatcherOK(p)' /\ CarryOK(p)' /\ (~raced => SaveOK(p)')
      BY <1>1, <1>4, <2>1, <3>1, <3>2, CopyOver DEF h
    <3> QED
      BY <1>1, <1>6, <2>1, <3>1, <3>3, CopyQuietly DEF LoginInv
  <2>4. CASE sync' = [sync EXCEPT ![p] = [sync[p] EXCEPT !.login = login, !.at = "comparing"]]
    <3>1. /\ sync'[p].at = "comparing" /\ sync'[p].from = sync[p].from /\ sync'[p].login = login
          /\ \A q \in Procs \ {p} : sync'[q] = sync[q]
      BY <1>1, <2>4 DEF Syncs
    <3>2. CopyOK(p)' /\ WatcherOK(p)'
      BY <1>1, <2>1, <3>1 DEF CopyOK, WatcherOK, Syncing
    <3>3. Home(p)' = h /\ (watch[p].at = "copying" => login = file[h])
      BY <1>1, <2>1, <2>2 DEF CopyOK, Syncing, h, Home
    <3>4. ~raced => CarryOK(p)'
      BY <1>1, <2>1, <2>2, <3>1, <3>3 DEF CarryOK
    <3>5. ~raced => SaveOK(p)'
      BY <1>1, <1>4, <2>1, <3>1, <3>3 DEF SaveOK, Unsettled, Past, h
    <3> QED
      BY <1>1, <1>6, <2>1, <2>2, <3>1, <3>2, <3>4, <3>5, CopyQuietly DEF LoginInv
  <2> QED
    BY <2>1, <2>3, <2>4
<1>8. CASE Compare(p)
  <2> DEFINE kept == LoginOf(Target(p), p)
             at == IF Target(p) = "keychain" THEN "saving" ELSE "opening"
  <2>1. /\ sync[p].at = "comparing" /\ UNCHANGED <<keychain, file, staged, latest, watch, unsaved, raced>>
        /\ \/ KeepsTarget(kept, sync[p].login) /\ sync' = [sync EXCEPT ![p] = [Idle EXCEPT !.at = "done"]]
           \/ ~KeepsTarget(kept, sync[p].login) /\ sync' = [sync EXCEPT ![p] = [sync[p] EXCEPT !.kept = kept, !.at = at]]
    BY <1>1, <1>8 DEF Compare
  <2>2. /\ sync[p].from = "file" => kept = keychain /\ at = "saving"
        /\ sync[p].from = "keychain" => at = "opening"
        /\ sync[p].from \in {"file", "keychain"}
    BY <1>1 DEF LoginOf, Target, Syncs
  <2> HIDE DEF kept, at
  <2>3. CASE KeepsTarget(kept, sync[p].login) /\ sync' = [sync EXCEPT ![p] = [Idle EXCEPT !.at = "done"]]
    <3>1. sync'[p].at \in {"done", "failed"} /\ sync'[p].login = 0 /\ \A q \in Procs \ {p} : sync'[q] = sync[q]
      BY <1>5, <2>3
    <3>2. watch[p].at = "copying" => keychain >= sync[p].login
      BY <1>1, <2>1, <2>2, <2>3 DEF CopyOK, Syncing, KeepsTarget
    <3>3. ~raced /\ watch[p].at = "copying" =>
            keychain' >= file[h] \/ (watch[p].changed /\ ~watch[p].stopping) \/ (watch[p].stopping /\ Past(p))
      BY <1>4, <2>1, <3>2 DEF CarryOK, h
    <3>4. CopyOK(p)' /\ WatcherOK(p)' /\ CarryOK(p)' /\ (~raced => SaveOK(p)')
      BY <1>1, <1>3, <1>4, <2>1, <3>1, <3>3, CopyOver DEF h
    <3> QED
      BY <1>1, <1>6, <2>1, <3>1, <3>4, CopyQuietly DEF LoginInv
  <2>4. CASE ~KeepsTarget(kept, sync[p].login) /\ sync' = [sync EXCEPT ![p] = [sync[p] EXCEPT !.kept = kept, !.at = at]]
    <3>1. /\ sync'[p].at = at /\ sync'[p].from = sync[p].from /\ sync'[p].login = sync[p].login /\ sync'[p].kept = kept
          /\ \A q \in Procs \ {p} : sync'[q] = sync[q]
      BY <1>1, <2>4 DEF Syncs
    <3>2. CopyOK(p)' /\ WatcherOK(p)'
      BY <1>1, <2>1, <2>2, <3>1 DEF CopyOK, WatcherOK, Syncing
    <3>3. Home(p)' = h
      BY <1>1 DEF h, Home
    <3>4. ~raced => CarryOK(p)'
      BY <1>1, <1>4, <2>1, <2>2, <2>4, <3>1, <3>3 DEF CarryOK, Past, CopyOK, Syncing, h
    <3>5. watch[p].at = "copying" => at = "saving"
      BY <1>1, <2>1, <2>2 DEF CopyOK, Syncing
    <3>6. ~raced => SaveOK(p)'
      BY <1>1, <1>4, <2>1, <3>1, <3>3, <3>5 DEF SaveOK, Unsettled, Past, h
    <3> QED
      BY <1>1, <1>3, <1>6, <2>1, <3>1, <3>2, <3>4, <3>6, CopyQuietly DEF LoginInv
  <2> QED
    BY <2>1, <2>3, <2>4
<1>9. CASE Save(p)
  <2>1. /\ sync[p].at = "saving" /\ sync' = [sync EXCEPT ![p] = [Idle EXCEPT !.at = "done"]]
        /\ keychain' = sync[p].login /\ UNCHANGED <<file, staged, latest, watch>> /\ unsaved' = unsaved \ {p}
        /\ raced' = (raced \/ keychain # sync[p].kept)
    BY <1>9 DEF Save
  <2>2. sync'[p].at \in {"done", "failed"} /\ sync'[p].login = 0 /\ \A q \in Procs \ {p} : sync'[q] = sync[q]
    BY <1>5, <2>1
  <2>3. CopyOK(p)' /\ WatcherOK(p)' /\ CarryOK(p)'
    BY <1>1, <2>1, <2>2, CopyOver
  <2>4. ASSUME ~raced' PROVE SaveOK(p)' /\ keychain' >= keychain /\ ~raced
    <3>1. ~raced /\ keychain = sync[p].kept
      BY <2>1, <2>4
    <3>2. keychain' >= keychain
      BY <1>1, <1>4, <2>1, <3>1 DEF CarryOK, KeepsTarget
    <3>3. /\ watch[p].at = "copying"
          /\ keychain' >= file[h] \/ (watch[p].changed /\ ~watch[p].stopping) \/ (watch[p].stopping /\ Past(p))
      BY <1>1, <1>4, <2>1, <3>1 DEF CarryOK, CopyOK, Syncing, h
    <3> QED
      BY <1>1, <1>3, <1>4, <2>1, <2>2, <3>1, <3>2, <3>3, CopyOver DEF h
  <2>5. IssuedOK'
    BY <1>1, <1>3, <2>1, <2>2 DEF IssuedOK
  <2> QED
    BY <1>1, <2>1, <2>2, <2>3, <2>4, <2>5, CopyQuietly DEF LoginInv
<1>10. CASE OpenStaged(p) \/ (FillStaged(p) /\ UNCHANGED <<file, watch, raced>>)
  <2>1. /\ sync[p].at \in {"opening", "writing"} /\ UNCHANGED <<keychain, file, latest, watch, unsaved, raced>>
        /\ \/ sync' = [sync EXCEPT ![p].at = "writing", ![p].writes = "staged"]
           \/ sync' = [sync EXCEPT ![p].at = "renaming"]
        /\ \/ staged' = [staged EXCEPT ![h] = 0] \/ staged' = [staged EXCEPT ![h] = sync[p].login] \/ UNCHANGED staged
    <3>1. CASE OpenStaged(p)
      BY <3>1 DEF OpenStaged, h
    <3>2. CASE FillStaged(p) /\ UNCHANGED <<file, watch, raced>>
      BY <3>2 DEF FillStaged, h
    <3> QED
      BY <1>10, <3>1, <3>2
  <2>2. /\ sync'[p].at \in {"writing", "renaming"} /\ sync'[p].from = sync[p].from /\ sync'[p].login = sync[p].login
        /\ \A q \in Procs \ {p} : sync'[q] = sync[q]
    BY <1>1, <2>1 DEF Syncs
  <2>3. watch[p].at # "copying" /\ pc[p] = "syncing"
    BY <1>1, <2>1 DEF CopyOK, Syncing
  <2>4. CopyOK(p)' /\ WatcherOK(p)'
    BY <1>1, <2>1, <2>2, <2>3 DEF CopyOK, WatcherOK, Syncing
  <2>5. ~raced => CarryOK(p)' /\ SaveOK(p)'
    BY <1>1, <1>4, <2>1, <2>2, <2>3 DEF CarryOK, SaveOK
  <2>6. staged \in [Homes -> Logins \cup {Missing}]
    BY DEF Typing, LoginsOK
  <2>7. IssuedOK'
    <3>1. \A g \in Homes : staged'[g] # Missing => staged'[g] <= latest
      BY <1>1, <1>3, <2>1, <2>6 DEF IssuedOK
    <3> QED
      BY <1>1, <1>3, <2>1, <2>2, <3>1 DEF IssuedOK
  <2> QED
    BY <1>1, <2>1, <2>2, <2>4, <2>5, <2>7, CopyQuietly DEF LoginInv
<1>11. CASE FillStaged(p) /\ sync[p].writes = "published"
  <2>1. /\ sync[p].at = "writing" /\ sync' = [sync EXCEPT ![p].at = "renaming"] /\ raced' = TRUE
        /\ file' = [file EXCEPT ![h] = sync[p].login] /\ Modified(h) /\ UNCHANGED <<keychain, latest, staged, unsaved>>
    BY <1>11 DEF FillStaged, h
  <2>2. /\ sync'[p].at = "renaming" /\ sync'[p].from = sync[p].from /\ sync'[p].login = sync[p].login
        /\ \A q \in Procs \ {p} : sync'[q] = sync[q]
    BY <1>1, <2>1 DEF Syncs
  <2>3. \A q \in Procs : watch'[q].at = watch[q].at /\ watch'[q].stopping = watch[q].stopping
    BY <1>1, <2>1, ModifiedTypes
  <2>4. CopiesOK' /\ WatchersOK'
    <3>1. CopyOK(p)' /\ WatcherOK(p)'
      BY <1>1, <2>1, <2>2, <2>3 DEF CopyOK, WatcherOK, Syncing
    <3>2. ASSUME NEW q \in Procs \ {p} PROVE CopyOK(q)' /\ WatcherOK(q)'
      BY <1>1, <2>2, <2>3, Bystander DEF CopiesOK, WatchersOK
    <3> QED
      BY <3>1, <3>2 DEF CopiesOK, WatchersOK
  <2>5. IssuedOK'
    <3>1. file \in [Homes -> Logins]
      BY DEF Typing, LoginsOK
    <3>2. \A g \in Homes : file'[g] <= latest
      BY <1>1, <1>3, <2>1, <3>1 DEF IssuedOK
    <3> QED
      BY <1>1, <1>3, <2>1, <2>2, <3>2 DEF IssuedOK
  <2> QED
    BY <2>1, <2>4, <2>5 DEF LoginInv
<1>12. CASE Rename(p)
  <2>1. /\ sync[p].at = "renaming" /\ staged[h] # Missing /\ sync' = Published(p) /\ Modified(h)
        /\ file' = [file EXCEPT ![h] = staged[h]] /\ staged' = [staged EXCEPT ![h] = Missing]
        /\ (staged[h] # sync[p].login \/ raced => raced') /\ UNCHANGED <<keychain, latest, unsaved>>
    BY <1>12 DEF Rename, h
  <2>2. /\ sync'[p] = [Idle EXCEPT !.at = "done"]
        /\ \A q \in Procs \ {p} : sync'[q] = sync[q] \/ \E w \in {"published", "unlinked"} : sync'[q] = [sync[q] EXCEPT !.writes = w]
    BY <2>1 DEF Published
  <2>3. ASSUME NEW q \in Procs \ {p}
        PROVE  /\ sync'[q].at = sync[q].at /\ sync'[q].from = sync[q].from
               /\ sync'[q].login = sync[q].login /\ sync'[q].kept = sync[q].kept
    <3>1. sync[q] \in Syncs
      BY <1>1
    <3>2. ASSUME NEW w \in {"published", "unlinked"}, sync'[q] = [sync[q] EXCEPT !.writes = w]
          PROVE  /\ sync'[q].at = sync[q].at /\ sync'[q].from = sync[q].from
                 /\ sync'[q].login = sync[q].login /\ sync'[q].kept = sync[q].kept
      BY <3>1, <3>2 DEF Syncs
    <3> QED
      BY <2>2, <3>2
  <2>4. sync'[p].at = "done" /\ sync'[p].login = 0
    BY <2>2 DEF Idle
  <2>5. /\ \A q \in Procs : watch'[q].at = watch[q].at /\ watch'[q].stopping = watch[q].stopping
        /\ \A q \in Procs : watch[q].changed => watch'[q].changed
        /\ \A q \in Procs : Home(q) = h /\ watch[q].at \notin {"none", "ended"} => watch'[q].changed
    BY <1>1, <2>1, ModifiedTypes
  <2>6. file \in [Homes -> Logins] /\ staged \in [Homes -> Logins \cup {Missing}] /\ keychain' = keychain
    BY <2>1 DEF Typing, LoginsOK
  <2>7. pc[p] = "syncing" /\ sync[p].from = "keychain" /\ watch[p].at # "copying"
    BY <1>1, <2>1 DEF CopyOK, Syncing
  <2>8. CopyOK(p)' /\ WatcherOK(p)' /\ CarryOK(p)' /\ SaveOK(p)'
    <3>1. pc'[p] = "syncing" /\ stop'[p] = stop[p] /\ due'[p] = due[p] /\ with' = with /\ watch'[p].at # "copying"
      BY <1>1, <2>5, <2>7
    <3>2. CopyOK(p)' /\ CarryOK(p)' /\ SaveOK(p)'
      BY <2>4, <3>1 DEF CopyOK, CarryOK, SaveOK, Syncing
    <3>3. WatcherOK(p)'
      BY <1>1, <2>5, <3>1 DEF WatcherOK
    <3> QED
      BY <3>2, <3>3
  <2>9. ASSUME NEW q \in Procs \ {p}
        PROVE  CopyOK(q)' /\ WatcherOK(q)' /\ (~raced' => CarryOK(q)' /\ SaveOK(q)')
    <3>1. CopyOK(q) /\ WatcherOK(q) /\ due[q] \in Nat /\ Home(q) \in Homes /\ Home(q)' = Home(q) /\ due'[q] = due[q]
      BY <1>1, CopyTypes DEF Home
    <3>2. ASSUME ~raced'
          PROVE  /\ CarryOK(q) /\ SaveOK(q) /\ keychain' >= keychain /\ (q \in unsaved => q \in unsaved')
                 /\ \/ file'[Home(q)] = file[Home(q)] /\ (watch[q].changed => watch'[q].changed)
                    \/ Past(q)' /\ (watch[q].at \notin {"none", "ended"} => watch'[q].changed)
      <4>1. ~raced /\ staged[h] = sync[p].login /\ sync[p].login <= keychain
        BY <1>4, <2>1, <2>7, <3>2 DEF CarryOK
      <4>2. CarryOK(q) /\ SaveOK(q) /\ keychain' >= keychain /\ (q \in unsaved => q \in unsaved')
        BY <1>1, <2>1, <2>6, <4>1 DEF CarriedOK, SavedOK
      <4>3. CASE Home(q) # h
        BY <2>1, <2>5, <2>6, <3>1, <4>2, <4>3
      <4>4. CASE Home(q) = h
        <5>1. file'[h] = sync[p].login /\ keychain' >= file'[h]
          BY <1>1, <2>1, <2>6, <4>1
        <5>2. Past(q)'
          BY <1>1, <3>1, <4>4, <5>1 DEF Past
        <5> QED
          BY <2>5, <4>2, <4>4, <5>2
      <4> QED
        BY <4>3, <4>4
    <3>3. sync'[q].at = sync[q].at /\ sync'[q].from = sync[q].from /\ sync'[q].login = sync[q].login /\ sync'[q].kept = sync[q].kept
      BY <2>3
    <3> QED
      BY <1>1, <2>5, <3>1, <3>2, <3>3, Bystander
  <2>10. IssuedOK'
    <3>1. \A g \in Homes : file'[g] <= latest /\ (staged'[g] # Missing => staged'[g] <= latest)
      BY <1>1, <2>1, <2>6 DEF IssuedOK
    <3>2. \A q \in Procs : sync'[q].login <= latest
      BY <1>1, <2>3, <2>4 DEF IssuedOK
    <3> QED
      BY <1>1, <2>1, <3>1, <3>2 DEF IssuedOK
  <2> QED
    BY <2>8, <2>9, <2>10 DEF LoginInv, CopiesOK, WatchersOK, CarriedOK, SavedOK
<1>13. CASE RenameFails(p) \/ SyncFails(p)
  <2>1. /\ sync' = [sync EXCEPT ![p] = [Idle EXCEPT !.at = "failed"]] /\ UNCHANGED <<keychain, file, staged, latest, watch>>
        /\ unsaved \subseteq unsaved' /\ (~raced' => ~raced /\ p \in unsaved')
    BY <1>13 DEF RenameFails, SyncFails
  <2>2. sync'[p].at \in {"done", "failed"} /\ sync'[p].login = 0 /\ \A q \in Procs \ {p} : sync'[q] = sync[q]
    BY <1>5, <2>1
  <2>3. CopyOK(p)' /\ WatcherOK(p)' /\ CarryOK(p)' /\ (~raced' => SaveOK(p)')
    BY <1>1, <1>3, <1>4, <2>1, <2>2, CopyOver
  <2> QED
    BY <1>1, <1>6, <2>1, <2>2, <2>3, CopyQuietly DEF LoginInv
<1>14. FillStaged(p) => UNCHANGED <<file, watch, raced>> \/ sync[p].writes = "published"
  BY DEF FillStaged
<1> QED
  BY <1>7, <1>8, <1>9, <1>10, <1>11, <1>12, <1>13, <1>14 DEF Sync

-----------------------------------------------------------------------------
(* The watcher, and whoever else writes the stores.                          *)

LEMMA WatchKeeps ==
  ASSUME Typing, Typing', CopiesOK, WatchersOK, IssuedOK, ~raced => CarriedOK /\ SavedOK,
         NEW p \in Procs, Watch(p), UNCHANGED launchVars
  PROVE  LoginInv'
<1>1. /\ UNCHANGED <<with, pc, stop, due>>
      /\ sync[p] \in Syncs /\ sync \in [Procs -> Syncs] /\ sync[p].login \in Nat /\ sync[p].kept \in Nat
      /\ keychain \in Nat /\ file[Home(p)] \in Nat /\ due[p] \in Nat /\ latest \in Nat
      /\ sync[p].at # "idle" => pc[p] = "syncing" \/ watch[p].at = "copying"
      /\ watch[p].at \notin {"none", "ended"} => pc[p] \in Booted
      /\ CopyOK(p) /\ WatcherOK(p) /\ Home(p)' = Home(p) /\ watch[p] \in Watches
  BY CopyTypes DEF launchVars, Home
<1>2. watch \in [Procs -> Watches] /\ stop[p] \in BOOLEAN /\ Rounds(p) = IF watch[p].stopping THEN "ended" ELSE "looking"
  BY DEF Typing, LoginsOK, ProcsOK, Rounds, Stopping
<1>3. UNCHANGED <<keychain, file, staged, latest, unsaved, raced>>
  BY DEF Watch, ReadStop, CheckModified, Copied
<1>4. ~raced => CarryOK(p) /\ SaveOK(p)
  BY DEF CarriedOK, SavedOK
<1>5. ASSUME \A q \in Procs \ {p} : sync'[q] = sync[q] /\ watch'[q] = watch[q], sync'[p].login <= latest,
             CopyOK(p)', WatcherOK(p)', ~raced => CarryOK(p)' /\ SaveOK(p)'
      PROVE  LoginInv'
  <2>1. ASSUME NEW q \in Procs \ {p}
        PROVE  CopyOK(q)' /\ WatcherOK(q)' /\ (~raced => CarryOK(q)' /\ SaveOK(q)')
    <3>1. CopyOK(q) /\ WatcherOK(q) /\ (~raced => CarryOK(q) /\ SaveOK(q)) /\ keychain' = keychain /\ keychain \in Nat
      BY <1>1, <1>3 DEF CopiesOK, WatchersOK, CarriedOK, SavedOK
    <3>2. sync'[q] = sync[q] /\ watch'[q] = watch[q] /\ file' = file /\ unsaved' = unsaved /\ keychain' >= keychain
      BY <1>3, <1>5, <3>1
    <3> QED
      BY <1>1, <3>1, <3>2, Bystander
  <2>2. IssuedOK'
    BY <1>1, <1>3, <1>5 DEF IssuedOK
  <2> QED
    BY <1>3, <1>5, <2>1, <2>2 DEF LoginInv, CopiesOK, WatchersOK, CarriedOK, SavedOK
<1>6. sync[p].login <= latest
  BY DEF IssuedOK
<1>7. CASE ReadStop(p)
  <2>1. /\ watch[p].at = "looking" /\ sync' = sync
        /\ watch' = [watch EXCEPT ![p] = [watch[p] EXCEPT !.at = "checking", !.stopping = stop[p]]]
    BY <1>2, <1>7 DEF ReadStop
  <2>2. /\ watch'[p].at = "checking" /\ watch'[p].stopping = stop[p] /\ watch'[p].changed = watch[p].changed
        /\ \A q \in Procs \ {p} : sync'[q] = sync[q] /\ watch'[q] = watch[q]
    BY <1>1, <1>2, <2>1 DEF Watches
  <2>3. CopyOK(p)' /\ WatcherOK(p)'
    BY <1>1, <2>1, <2>2 DEF CopyOK, WatcherOK, Syncing, Booted
  <2>4. ~raced => CarryOK(p)' /\ SaveOK(p)'
    BY <1>1, <1>3, <1>4, <2>1, <2>2 DEF CarryOK, SaveOK, Unsettled, Past
  <2> QED
    BY <1>5, <1>6, <2>1, <2>2, <2>3, <2>4
<1>8. CASE CheckModified(p)
  <2>1. sync[p].at = "idle" /\ watch[p].at = "checking"
    BY <1>1, <1>8 DEF CheckModified, Booted
  <2>2. CASE watch[p].changed
    <3>1. /\ watch' = [watch EXCEPT ![p] = [watch[p] EXCEPT !.at = "copying", !.changed = FALSE]]
          /\ sync' = [sync EXCEPT ![p] = [Idle EXCEPT !.at = "reading", !.from = "file"]]
      BY <1>2, <1>8, <2>2 DEF CheckModified, BeginSync
    <3>2. /\ watch'[p].at = "copying" /\ watch'[p].stopping = watch[p].stopping
          /\ \A q \in Procs \ {p} : sync'[q] = sync[q] /\ watch'[q] = watch[q]
      BY <1>1, <1>2, <3>1 DEF Watches
    <3>3. sync'[p].at = "reading" /\ sync'[p].from = "file" /\ sync'[p].login = 0
      BY <1>1, <3>1 DEF Idle
    <3>4. CopyOK(p)' /\ WatcherOK(p)'
      BY <1>1, <2>1, <3>2, <3>3 DEF CopyOK, WatcherOK, Syncing, Booted
    <3>5. CarryOK(p)' /\ SaveOK(p)'
      BY <3>2, <3>3 DEF CarryOK, SaveOK, Unsettled
    <3> QED
      BY <1>1, <1>5, <3>2, <3>3, <3>4, <3>5
  <2>3. CASE ~watch[p].changed
    <3>1. watch' = [watch EXCEPT ![p] = [watch[p] EXCEPT !.at = Rounds(p), !.changed = FALSE]] /\ sync' = sync
      BY <1>2, <1>8, <2>3 DEF CheckModified
    <3>2. /\ watch'[p].at = Rounds(p) /\ watch'[p].stopping = watch[p].stopping
          /\ \A q \in Procs \ {p} : sync'[q] = sync[q] /\ watch'[q] = watch[q]
      BY <1>1, <1>2, <3>1 DEF Watches
    <3>3. CopyOK(p)' /\ WatcherOK(p)'
      BY <1>1, <1>2, <2>1, <3>1, <3>2 DEF CopyOK, WatcherOK, Syncing
    <3>4. ~raced => CarryOK(p)' /\ SaveOK(p)'
      BY <1>1, <1>2, <1>3, <1>4, <2>1, <2>3, <3>1, <3>2 DEF CarryOK, SaveOK, Unsettled, Past
    <3> QED
      BY <1>5, <1>6, <3>1, <3>2, <3>3, <3>4
  <2> QED
    BY <2>2, <2>3
<1>9. CASE Copied(p)
  <2>1. /\ watch[p].at = "copying" /\ sync[p].at \in {"idle", "done", "failed"} /\ sync' = [sync EXCEPT ![p] = Idle]
        /\ watch' = [watch EXCEPT ![p] = [watch[p] EXCEPT !.at = Rounds(p)]]
    BY <1>1, <1>2, <1>9 DEF Copied, Syncing
  <2>2. /\ watch'[p].at = Rounds(p) /\ watch'[p].stopping = watch[p].stopping /\ watch'[p].changed = watch[p].changed
        /\ sync'[p].at = "idle" /\ sync'[p].login = 0
        /\ \A q \in Procs \ {p} : sync'[q] = sync[q] /\ watch'[q] = watch[q]
    BY <1>1, <1>2, <2>1 DEF Watches, Idle
  <2>3. CopyOK(p)' /\ WatcherOK(p)'
    BY <1>1, <1>2, <2>1, <2>2 DEF CopyOK, WatcherOK, Syncing
  <2>4. ~raced => CarryOK(p)' /\ SaveOK(p)'
    BY <1>1, <1>2, <1>3, <1>4, <2>1, <2>2 DEF CarryOK, SaveOK, Unsettled, Past
  <2> QED
    BY <1>1, <1>5, <2>2, <2>3, <2>4
<1> QED
  BY <1>7, <1>8, <1>9 DEF Watch

LEMMA RefreshKeeps ==
  ASSUME Typing, Typing', CopiesOK, WatchersOK, IssuedOK, ~raced => CarriedOK /\ SavedOK, Refreshes
  PROVE  LoginInv'
<1>1. UNCHANGED <<with, pc, stop, due, sync, unsaved, raced, staged>>
  BY DEF Refreshes, launchVars, HostRefreshes, GuestTruncates, GuestFills
<1>2. keychain \in Nat /\ latest \in Nat /\ keychain <= latest /\ file \in [Homes -> Logins]
  BY MaxLoginAssumption DEF Typing, LoginsOK, Logins, IssuedOK
<1>3. ASSUME NEW q \in Procs
      PROVE  CopyOK(q) /\ WatcherOK(q) /\ due[q] \in Nat /\ due[q] <= latest /\ Home(q) \in Homes /\ Home(q)' = Home(q)
  BY <1>1, CopyTypes DEF IssuedOK, Home
<1>4. CASE HostRefreshes
  <2>1. keychain' = latest + 1 /\ latest' = latest + 1 /\ UNCHANGED <<file, watch>> /\ keychain' >= keychain
    BY <1>2, <1>4 DEF HostRefreshes
  <2>2. ASSUME NEW q \in Procs
        PROVE  CopyOK(q)' /\ WatcherOK(q)' /\ (~raced => CarryOK(q)' /\ SaveOK(q)')
    <3>1. ~raced => CarryOK(q) /\ SaveOK(q)
      BY DEF CarriedOK, SavedOK
    <3> QED
      BY <1>1, <1>3, <2>1, <3>1, Bystander
  <2>3. IssuedOK'
    <3>1. staged \in [Homes -> Logins \cup {Missing}] /\ sync \in [Procs -> Syncs]
      BY DEF Typing, LoginsOK
    <3>2. ASSUME NEW h \in Homes PROVE file'[h] <= latest' /\ (staged'[h] # Missing => staged'[h] <= latest')
      BY <1>1, <1>2, <2>1, <3>1, MaxLoginAssumption DEF IssuedOK, Logins
    <3>3. ASSUME NEW q \in Procs PROVE sync'[q].login <= latest' /\ due'[q] <= latest'
      BY <1>1, <1>2, <1>3, <2>1, CopyTypes DEF IssuedOK
    <3> QED
      BY <1>2, <2>1, <3>2, <3>3 DEF IssuedOK
  <2> QED
    BY <1>1, <2>2, <2>3 DEF LoginInv, CopiesOK, WatchersOK, CarriedOK, SavedOK
<1>5. ASSUME NEW h \in Homes, GuestTruncates(h) \/ GuestFills(h)
      PROVE  LoginInv'
  <2>1. /\ keychain' = keychain /\ Modified(h)
        /\ \/ file' = [file EXCEPT ![h] = 0] /\ latest' = latest
           \/ file' = [file EXCEPT ![h] = latest + 1] /\ latest' = latest + 1
    <3>1. CASE GuestTruncates(h)
      BY <3>1 DEF GuestTruncates
    <3>2. CASE GuestFills(h)
      BY <3>2 DEF GuestFills
    <3> QED
      BY <1>5, <3>1, <3>2
  <2>2. /\ \A q \in Procs : watch'[q].at = watch[q].at /\ watch'[q].stopping = watch[q].stopping
        /\ \A q \in Procs : watch[q].changed => watch'[q].changed
        /\ \A q \in Procs : Home(q) = h /\ watch[q].at \notin {"none", "ended"} => watch'[q].changed
    BY <2>1, ModifiedTypes
  <2>3. ASSUME NEW q \in Procs
        PROVE  CopyOK(q)' /\ WatcherOK(q)' /\ (~raced => CarryOK(q)' /\ SaveOK(q)')
    <3>1. ~raced => CarryOK(q) /\ SaveOK(q)
      BY DEF CarriedOK, SavedOK
    <3>2. \/ file'[Home(q)] = file[Home(q)] /\ (watch[q].changed => watch'[q].changed)
          \/ Past(q)' /\ (watch[q].at \notin {"none", "ended"} => watch'[q].changed)
      <4>1. CASE Home(q) # h
        BY <1>2, <1>3, <2>1, <2>2, <4>1
      <4>2. CASE Home(q) = h
        <5>1. file'[h] = 0 \/ file'[h] = latest + 1
          BY <1>2, <2>1
        <5>2. keychain' >= due[q] \/ file'[h] # due[q]
          BY <1>2, <1>3, <2>1, <5>1
        <5> QED
          BY <1>1, <1>3, <2>2, <4>2, <5>2 DEF Past
      <4> QED
        BY <4>1, <4>2
    <3>3. keychain' >= keychain
      BY <1>2, <2>1
    <3> QED
      BY <1>1, <1>3, <2>2, <3>1, <3>2, <3>3, Bystander
  <2>4. IssuedOK'
    <3>1. staged \in [Homes -> Logins \cup {Missing}] /\ latest' \in Nat /\ latest <= latest'
      BY <1>2, <2>1 DEF Typing, LoginsOK
    <3>2. ASSUME NEW g \in Homes PROVE file'[g] <= latest' /\ (staged'[g] # Missing => staged'[g] <= latest')
      BY <1>1, <1>2, <2>1, <3>1, MaxLoginAssumption DEF IssuedOK, Logins
    <3>3. ASSUME NEW q \in Procs PROVE sync'[q].login <= latest' /\ due'[q] <= latest'
      BY <1>1, <1>2, <1>3, <3>1, CopyTypes DEF IssuedOK
    <3> QED
      BY <1>2, <2>1, <3>1, <3>2, <3>3 DEF IssuedOK
  <2> QED
    BY <1>1, <2>3, <2>4 DEF LoginInv, CopiesOK, WatchersOK, CarriedOK, SavedOK
<1> QED
  BY <1>4, <1>5 DEF Refreshes

LEMMA LoginStep ==
  ASSUME Typing, Typing', LoginInv, [Next]_vars
  PROVE  LoginInv'
<1>1. CopiesOK /\ WatchersOK /\ IssuedOK /\ (~raced => CarriedOK /\ SavedOK)
  BY DEF LoginInv
<1>2. ASSUME NEW p \in with.procs, Start(p) \/ Main(p) \/ SetUpFails(p) \/ LaunchFails(p) \/ Killed(p)
      PROVE  LoginInv'
  <2>1. p \in Procs
    BY SituationTypes DEF Typing
  <2>2. Moves(p)
    BY <1>2, <2>1, MainMoves
  <2>3. UNCHANGED raced
    BY <2>2 DEF Moves
  <2> QED
    BY <1>1, <2>1, <2>2, <2>3, MovesKeep, MovesSave DEF LoginInv
<1>3. ASSUME NEW p \in with.procs,
             CredentialSteps(p) \/ (SyncFails(p) /\ UNCHANGED <<launchVars, relayVars, attachVars>>)
      PROVE  LoginInv'
  <2>1. p \in Procs
    BY SituationTypes DEF Typing
  <2> QED
    BY <1>1, <1>3, <2>1, SyncKeeps, WatchKeeps DEF CredentialSteps
<1>4. CASE Refreshes
  BY <1>1, <1>4, RefreshKeeps
<1>5. ASSUME UNCHANGED <<launchVars, credentialVars>>
      PROVE  LoginInv'
  BY <1>1, <1>5, ZenonT(30) DEF launchVars, credentialVars, LoginInv, CopiesOK, CopyOK, Syncing, WatchersOK, WatcherOK, IssuedOK,
                    CarriedOK, CarryOK, SavedOK, SaveOK, Unsettled, Past, Home, KeepsTarget
<1>6. ASSUME NEW p \in with.procs, AttachSteps(p) \/ Commands(p)
      PROVE  UNCHANGED <<launchVars, credentialVars>>
  BY <1>6 DEF AttachSteps, Commands
<1>7. Relaying \/ UNCHANGED vars => UNCHANGED <<launchVars, credentialVars>>
  BY DEF Relaying, vars
<1> QED
  BY <1>2, <1>3, <1>4, <1>5, <1>6, <1>7 DEF Next

LEMMA LoginInit ==
  ASSUME Init
  PROVE  LoginInv
BY DEF Init, CredentialsInit, LoginInv, CopiesOK, CopyOK, Syncing, WatchersOK, WatcherOK, IssuedOK,
       CarriedOK, CarryOK, SavedOK, SaveOK, Idle, Asleep

(* What is known of the logins holds on, step by step, with the typing.       *)
THEOREM LoginInductive == Spec => [](Typing /\ LoginInv)
<1>1. Init => Typing /\ LoginInv
  BY IInvInit, LoginInit DEF IInv
<1>2. Typing /\ LoginInv /\ [Next]_vars => (Typing /\ LoginInv)'
  BY TypingStep, LoginStep
<1> QED
  BY <1>1, <1>2, PTL DEF Spec

(* The login a session ended with is in the Keychain, or was changed after,  *)
(* or a save failed; two copies that raced are the code's own exception.     *)
THEOREM LoginNotLost == Spec => []LoginSaved
<1>1. ASSUME Typing, LoginInv PROVE LoginSaved
  <2>1. ASSUME ~raced, NEW p \in with.keychain, pc[p] = "ended", p \notin unsaved
        PROVE  keychain >= due[p] \/ file[Home(p)] # due[p]
    <3>1. p \in Procs /\ SaveOK(p) /\ watch[p].at \in {"none", "ended"}
      BY <1>1, <2>1, SituationTypes DEF LoginInv, SavedOK, Typing, LoginsOK, ThreadsOK, Booted
    <3> QED
      BY <2>1, <3>1 DEF SaveOK, Unsettled, Past
  <2> QED
    BY <2>1 DEF LoginSaved
<1> QED
  BY <1>1, LoginInductive, PTL
=============================================================================
