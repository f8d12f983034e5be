---------------------------- MODULE HostCallProofs ----------------------------
(***************************************************************************)
(* Proofs about what the caller of a host command gets: its output in      *)
(* order, all of it with the status, and so the whole promise of HostCall. *)
(***************************************************************************)
EXTENDS HostSpoolRefinement, HostSpoolProofs

-----------------------------------------------------------------------------
(* The output: chunks that are there, printed ones, and the names the glob   *)
(* has left, of every call and stream.                                       *)

Speechless == {"refused", "unspawnable"}

\* The number of the last chunk of a stream so far, published or not.
Last(c, s) ==
  IF kind[c] \in Speechless
  THEN IF s = "err" /\ code[c] # NoCode THEN 1 ELSE 0
  ELSE sequence[c][s]

\* What was printed is before what is there; what the glob did not list yet is
\* after what it has left.
StreamOK(c, s) ==
  /\ chunks[c][s] \subseteq 1..Last(c, s)
  /\ \A i \in DOMAIN seen[c][s] :
       /\ seen[c][s][i] \in 1..Last(c, s)
       /\ \A n \in chunks[c][s] : seen[c][s][i] < n
       /\ \A j \in DOMAIN seen[c][s] : i < j => seen[c][s][i] < seen[c][s][j]
  /\ sequence[c][s] <= written[c][s] /\ written[c][s] <= MaxWrites[c][s]
GlobOK(c) ==
  /\ glob[c] \subseteq 1..Last(c, stream[c])
  /\ client[c] # "draining" => glob[c] = {}
  /\ \A n \in chunks[c][stream[c]] \ glob[c] : \A g \in glob[c] : g < n

\* No output before the command, nor a code.
FreshOK(c) ==
  worker[c] \in {"none", "claimed"} =>
    code[c] = NoCode /\ \A s \in Streams : written[c][s] = 0
Ordered == \A c \in Calls : FreshOK(c) /\ GlobOK(c) /\ \A s \in Streams : StreamOK(c, s)

\* Every chunk the call will ever have was published.
AllOut(c) ==
  IF kind[c] \in Speechless THEN code[c] # NoCode
  ELSE \A s \in Streams : sequence[c][s] = written[c][s]

\* A reader ends with its stream, and a worker with its readers.
ThroughOK(c) ==
  /\ worker[c] = "running" => \A s \in Streams \ readers[c] : s \notin held[c] /\ sequence[c][s] = written[c][s]
  /\ worker[c] \in {"replying", "removing"} \/ status[c] # NoCode => AllOut(c)

\* From the status it saw on, a client finds all there is.
FinishedOK(c) ==
  /\ client[c] = "leaving" => finished[c]
  /\ finished[c] =>
       /\ worker[c] \in {"removing", "done"} /\ AllOut(c)
       /\ client[c] = "draining" => chunks[c][stream[c]] \subseteq glob[c]
       /\ client[c] \in {"listing", "draining"} /\ stream[c] = "err" => chunks[c]["out"] = {}
       /\ client[c] = "leaving" => \A s \in Streams : chunks[c][s] = {}

\* One owner at a time; its VM is what clients run in, and nobody else removes.
AloneOK ==
  /\ \A g, h \in Hosts : host[g] # "off" /\ host[h] # "off" => g = h
  /\ \A h \in Hosts : doomed[h] # {} => host[h] \in {"creating", "cleaning"}
  /\ cleans = 0 => doomed[NoHost] = {}
  /\ \A c \in Calls : Active(c) => home[c] \in Hosts /\ HasVm(home[c])

\* Undisturbed, what was printed is the beginning, and what is there is the rest.
ExactOK(c) ==
  Active(c) /\ Undisturbed(c) =>
    /\ \A s \in Streams :
         /\ \A i \in DOMAIN seen[c][s] : seen[c][s][i] = i
         /\ (Len(seen[c][s]) + 1)..Last(c, s) \subseteq chunks[c][s]
    /\ glob[c] \subseteq chunks[c][stream[c]]
Whole == AloneOK /\ \A c \in Calls : ThroughOK(c) /\ FinishedOK(c) /\ ExactOK(c)

\* As many chunks as names in order: the padding makes them sort by number.
Numbered == \A c \in Calls, s \in Streams : MaxWrites[c][s] < SequenceLimit

\* The first name of a set of padded numbers is the least number.
LEMMA FirstIsLeast ==
  ASSUME NEW m \in Nat, m < SequenceLimit \/ m <= 1,
         NEW S \in SUBSET (1..m), S # {}
  PROVE  FirstName(S) \in S /\ \A n \in S : FirstName(S) <= n
<1>1. S \subseteq Nat
  OBVIOUS
<1>2. ASSUME NEW k \in S, NEW n \in S, k < n
      PROVE  NameKey(k) < NameKey(n)
  <2>1. /\ k \in Nat /\ n \in Nat /\ k < SequenceLimit /\ n < SequenceLimit
        /\ Radix \in Nat /\ Radix > 0
    BY <1>2, NamesAssumption
  <2>2. Radix * k < Radix * n
    BY <2>1, <1>2
  <2> QED
    BY <2>1, <2>2 DEF NameKey
<1>3. PICK k \in S : \A n \in S : <<n, k>> \notin OpToRel(<, Nat)
  BY <1>1, NatLessThanWellFounded, WFMin
<1>4. ASSUME NEW n \in S
      PROVE  k <= n
  <2>1. ~(n < k)
    BY <1>1, <1>3 DEF OpToRel
  <2> QED
    BY <1>1, <2>1
<1>5. \A n \in S \ {k} : NameBefore(k, n)
  <2> SUFFICES ASSUME NEW n \in S \ {k}
               PROVE  NameBefore(k, n)
    OBVIOUS
  <2>1. k < n
    BY <1>1, <1>4
  <2> QED
    BY <1>2, <2>1 DEF NameBefore
<1> DEFINE f == FirstName(S)
<1>6. f \in S /\ \A n \in S \ {f} : NameBefore(f, n)
  BY <1>5 DEF FirstName
<1> HIDE DEF f
<1>7. ASSUME NEW n \in S
      PROVE  f <= n
  <2> SUFFICES ASSUME n < f
               PROVE  FALSE
    BY <1>1, <1>6
  <2>1. NameKey(n) < NameKey(f)
    BY <1>2, <1>6
  <2>2. NameBefore(f, n)
    BY <1>1, <1>6
  <2>3. NameKey(n) \in Int /\ NameKey(f) \in Int
    BY <1>1, <1>6, NamesAssumption DEF NameKey
  <2> QED
    BY <1>1, <1>6, <2>1, <2>2, <2>3 DEF NameBefore
<1> QED
  BY <1>6, <1>7 DEF f

\* No new chunk or number, and no glob but what is left of one.
LEMMA OrderedKept ==
  ASSUME TypeOK, Ordered,
         UNCHANGED <<seen, kind, code, sequence, written>>,
         \A c \in Calls, s \in Streams : chunks'[c][s] \subseteq chunks[c][s],
         \A c \in Calls :
           /\ worker'[c] \in {"none", "claimed"} => worker[c] \in {"none", "claimed"}
           /\ stream'[c] \in Streams
           /\ \/ glob'[c] = {}
              \/ glob'[c] = glob[c] /\ stream'[c] = stream[c] /\ client'[c] = "draining" /\ client[c] = "draining"
  PROVE  Ordered'
<1> SUFFICES ASSUME NEW c \in Calls
             PROVE  Ordered!(c)'
  BY DEF Ordered
<1>1. FreshOK(c)'
  BY DEF Ordered, FreshOK
<1>2. GlobOK(c)'
  <2>1. CASE glob'[c] = {}
    BY <2>1 DEF GlobOK
  <2>2. CASE glob'[c] = glob[c] /\ stream'[c] = stream[c] /\ client'[c] = "draining"
    <3>1. GlobOK(c) /\ stream[c] \in Streams
      BY DEF Ordered, TypeOK, ClientTypes
    <3>2. chunks'[c][stream'[c]] \subseteq chunks[c][stream[c]]
      BY <2>2, <3>1
    <3> QED
      BY <2>2, <3>1, <3>2 DEF GlobOK, Last
  <2> QED
    BY <2>1, <2>2
<1>3. ASSUME NEW s \in Streams
      PROVE  StreamOK(c, s)'
  BY DEF Ordered, StreamOK, Last
<1> QED
  BY <1>1, <1>2, <1>3

\* What a cleanup removes of the output.
LEMMA ResponseGoes ==
  ASSUME TypeOK, NEW h \in Cleaners, RemoveResponse(h), NEW c \in Calls, NEW s \in Streams
  PROVE  chunks'[c][s] \subseteq chunks[c][s]
<1>1. PICK f \in doomed[h] :
        IF f.name = "status" THEN UNCHANGED chunks
        ELSE chunks' = [chunks EXCEPT ![f.call][f.name] = @ \ {f.number}]
  BY DEF RemoveResponse
<1>2. f.call \in Calls /\ (f.name = "status" \/ f.name \in Streams)
  BY <1>1 DEF TypeOK, SpoolTypes
<1>3. CASE f.name = "status"
  BY <1>1, <1>3
<1>4. CASE f.name # "status"
  <2>1. chunks \in [Calls -> [Streams -> SUBSET (Nat \ {0})]]
    BY DEF TypeOK, SpoolTypes
  <2> QED
    BY ONLY <1>1, <1>2, <1>4, <2>1, c \in Calls, s \in Streams
<1> QED
  BY <1>3, <1>4

\* What most steps leave of the output.
Kept ==
  /\ UNCHANGED <<seen, kind, code, sequence, written>>
  /\ \A c \in Calls, s \in Streams : chunks'[c][s] \subseteq chunks[c][s]
  /\ \A c \in Calls :
       /\ worker'[c] \in {"none", "claimed"} => worker[c] \in {"none", "claimed"}
       /\ \/ glob'[c] = {}
          \/ /\ glob'[c] = glob[c] /\ stream'[c] = stream[c]
             /\ client'[c] = "draining" /\ client[c] = "draining"

\* The steps that make output or print it.
Speaks ==
  \E c \in Calls :
    \/ Begin(c) \/ ListChunks(c) \/ DrainChunk(c) \/ Refuse(c) \/ ChildExits(c)
    \/ \E s \in Streams : Publish(c, s) \/ Write(c, s)

\* A step that neither makes output nor prints it leaves it in order.
LEMMA KeptStep ==
  ASSUME TypeOK, Inv, Ordered, [Next]_vars
  PROVE  Kept \/ Speaks
<1> USE DEF TypeOK, SpoolTypes, ClientTypes, ChildTypes, WorkerTypes, vars, spoolVars, clientVars, drainVars,
            childVars, workerVars, Kept, Ordered, GlobOK, Inv, Claims
<1>1. ASSUME NEW c \in Calls, Submit(c)
      PROVE  Kept
  BY <1>1 DEF Submit
<1>2. ASSUME NEW c \in Calls, CheckStatus(c)
      PROVE  Kept
  BY <1>2 DEF CheckStatus
<1>3. ASSUME NEW c \in Calls, DrainDone(c)
      PROVE  Kept
  BY <1>3 DEF DrainDone, StatusBefore
<1>4. ASSUME NEW c \in Calls, Leave(c)
      PROVE  Kept
  BY <1>4 DEF Leave, Ending, Forget
<1>5. ASSUME NEW c \in Calls, Interrupt(c)
      PROVE  Kept
  BY <1>5 DEF Interrupt, Forget, Active
<1>6. ASSUME NEW h \in Hosts, Poll(h)
      PROVE  Kept
  BY <1>6 DEF Poll
<1>7. ASSUME NEW h \in Hosts, Claim(h)
      PROVE  Kept
  BY <1>7, ZenonT(30) DEF Claim, Renames
<1>8. ASSUME NEW h \in Hosts, AgentFails(h)
      PROVE  Kept
  BY <1>8 DEF AgentFails
<1>9. ASSUME NEW h \in Hosts, SeeStop(h)
      PROVE  Kept
  BY <1>9 DEF SeeStop, Stops
<1>10. ASSUME NEW c \in Calls, Spawn(c)
      PROVE  Kept
  BY <1>10 DEF Spawn
<1>11. ASSUME NEW c \in Calls, Fail(c)
      PROVE  Kept
  BY <1>11 DEF Fail
<1>12. ASSUME NEW c \in Calls, Join(c)
      PROVE  Kept
  BY <1>12 DEF Join, ThreadsEnded
<1>13. ASSUME NEW c \in Calls, Reply(c)
      PROVE  Kept
  BY <1>13 DEF Reply
<1>14. ASSUME NEW c \in Calls, RemoveClaim(c)
      PROVE  Kept
  BY <1>14 DEF RemoveClaim
<1>15. ASSUME NEW c \in Calls, NEW s \in Streams, ReaderEnds(c, s)
      PROVE  Kept
  BY <1>15 DEF ReaderEnds
<1>16. ASSUME NEW c \in Calls, PumpEnds(c)
      PROVE  Kept
  BY <1>16 DEF PumpEnds
<1>17. ASSUME NEW c \in Calls, NEW s \in Streams, Release(c, s)
      PROVE  Kept
  BY <1>17 DEF Release
<1>18. ASSUME NEW h \in Hosts, Create(h)
      PROVE  Kept
  BY <1>18 DEF Create, Sweep
<1>19. ASSUME NEW h \in Hosts, Boot(h)
      PROVE  Kept
  BY <1>19 DEF Boot
<1>20. ASSUME NEW h \in Hosts, Serve(h)
      PROVE  Kept
  BY <1>20 DEF Serve
<1>21. ASSUME NEW h \in Hosts, Stop(h)
      PROVE  Kept
  BY <1>21 DEF Stop
<1>22. ASSUME NEW h \in Hosts, CleanAfterExit(h)
      PROVE  Kept
  BY <1>22 DEF CleanAfterExit, Joined, EmptySpool
<1>23. ASSUME NEW h \in Hosts, Cleaned(h)
      PROVE  Kept
  BY <1>23 DEF Cleaned
<1>24. ASSUME NEW h \in Hosts, SkipCleanup(h)
      PROVE  Kept
  BY <1>24 DEF SkipCleanup, Joined
<1>25. ASSUME NEW h \in Hosts, ExitProcess(h)
      PROVE  Kept
  BY <1>25 DEF ExitProcess, Die, Forget, InFlight
<1>26. ASSUME NEW h \in Hosts, Crash(h)
      PROVE  Kept
  BY <1>26 DEF Crash, Die, Forget, InFlight
<1>27. ASSUME NEW h \in Cleaners, RemoveResponse(h)
      PROVE  Kept
  <2>1. \A c \in Calls, s \in Streams : chunks'[c][s] \subseteq chunks[c][s]
    BY <1>27, ResponseGoes
  <2> QED
    BY <1>27, <2>1 DEF RemoveResponse
<1>28. ASSUME NEW h \in Cleaners, AbandonCleanup(h)
      PROVE  Kept
  BY <1>28 DEF AbandonCleanup
<1>29. CASE Clean
  BY <1>29 DEF Clean, EmptySpool
<1>30. CASE UNCHANGED vars
  BY <1>30
<1> QED
  BY <1>1, <1>2, <1>3, <1>4, <1>5, <1>6, <1>7, <1>8, <1>9, <1>10, <1>11, <1>12, <1>13, <1>14, <1>15, <1>16, <1>17, <1>18, <1>19, <1>20, <1>21, <1>22, <1>23, <1>24, <1>25, <1>26, <1>27, <1>28, <1>29, <1>30
  DEF Next, Client, Worker, Command, Agent, Leaving, Speaks

\* A name number is one of those in order.
LEMMA LastIsSmall ==
  ASSUME Numbered, TypeOK, Ordered, NEW c \in Calls, NEW s \in Streams
  PROVE  Last(c, s) \in Nat /\ (Last(c, s) < SequenceLimit \/ Last(c, s) <= 1)
<1>1. StreamOK(c, s) /\ sequence[c][s] \in Nat /\ written[c][s] \in Nat /\ MaxWrites[c][s] \in Nat
  BY MaxWritesAssumption DEF Ordered, TypeOK, ChildTypes
<1>2. MaxWrites[c][s] < SequenceLimit /\ SequenceLimit \in Nat
  BY NamesAssumption DEF Numbered
<1> QED
  BY <1>1, <1>2 DEF StreamOK, Last

\* A call without an outcome has no output.
LEMMA Silent ==
  ASSUME TypeOK, Ordered, NEW c \in Calls, worker[c] \in {"none", "claimed"}, NEW s \in Streams
  PROVE  /\ Last(c, s) = 0 /\ chunks[c][s] = {} /\ seen[c][s] = <<>> /\ glob[c] = {}
         /\ code[c] = NoCode /\ sequence[c][s] = 0 /\ written[c][s] = 0
<1>1. \A t \in Streams : Last(c, t) = 0 /\ sequence[c][t] = 0 /\ written[c][t] = 0
  <2>1. \A t \in Streams :
          written[c][t] = 0 /\ sequence[c][t] \in Nat /\ sequence[c][t] <= written[c][t]
    BY DEF Ordered, FreshOK, StreamOK, TypeOK, ChildTypes
  <2>2. code[c] = NoCode
    BY DEF Ordered, FreshOK
  <2> QED
    BY <2>1, <2>2 DEF Last
<1>2. chunks[c][s] \subseteq 1..0
  BY <1>1 DEF Ordered, StreamOK
<1>3. seen[c][s] = <<>>
  <2>1. seen[c][s] \in Seq(Nat)
    BY DEF TypeOK, ClientTypes
  <2>2. \A i \in DOMAIN seen[c][s] : seen[c][s][i] \in 1..0
    BY <1>1 DEF Ordered, StreamOK
  <2>3. Len(seen[c][s]) = 0
    <3>1. Len(seen[c][s]) \in Nat /\ DOMAIN seen[c][s] = 1..Len(seen[c][s])
      BY <2>1
    <3>2. 1 \notin DOMAIN seen[c][s]
      BY <2>2
    <3> QED
      BY <3>1, <3>2
  <2> QED
    BY <2>1, <2>3
<1>4. glob[c] \subseteq 1..0
  BY <1>1 DEF Ordered, GlobOK, TypeOK, ClientTypes
<1> QED
  BY <1>1, <1>2, <1>3, <1>4 DEF Ordered, FreshOK

\* One that does leaves it in order too.
LEMMA SpeaksStep ==
  ASSUME Numbered, TypeOK, Inv, Ordered, Speaks
  PROVE  Ordered'
<1> DEFINE Sound(c) == FreshOK(c) /\ GlobOK(c) /\ \A s \in Streams : StreamOK(c, s)
<1>a. \A c \in Calls : Sound(c)
  BY DEF Ordered
<1>b. SUFFICES ASSUME NEW d \in Calls
               PROVE  Sound(d)'
  BY DEF Ordered
<1>c. Sound(d)
  BY <1>a
<1>d. stream[d] \in Streams
  BY DEF TypeOK, ClientTypes
<1>1. ASSUME NEW c \in Calls, Begin(c)
      PROVE  Sound(d)'
  <2>1. /\ UNCHANGED <<chunks, seen, glob, stream, code, worker, sequence, written>>
        /\ d # c => kind'[d] = kind[d] /\ client'[d] = client[d]
    BY <1>1 DEF Begin, TypeOK, ClientTypes, childVars, workerVars
  <2>2. CASE d # c
    BY <1>c, <2>1, <2>2 DEF FreshOK, GlobOK, StreamOK, Last
  <2>3. CASE d = c
    <3>1. worker[d] = "none"
      BY <1>1, <2>3 DEF Begin, Inv, Claims
    <3>2. ASSUME NEW s \in Streams
          PROVE  Last(d, s)' = 0
      BY <2>1, <3>1, Silent DEF Last
    <3>3. \A s \in Streams : chunks[d][s] = {} /\ seen[d][s] = <<>> /\ glob[d] = {}
      BY <3>1, Silent
    <3> QED
      BY <1>c, <1>d, <2>1, <3>2, <3>3 DEF FreshOK, GlobOK, StreamOK
  <2> QED
    BY <2>2, <2>3
<1>2. ASSUME NEW c \in Calls, ListChunks(c)
      PROVE  Sound(d)'
  <2>1. /\ UNCHANGED <<chunks, seen, stream, code, kind, worker, sequence, written>>
        /\ d # c => glob'[d] = glob[d] /\ client'[d] = client[d]
        /\ d = c => glob'[d] = chunks[d][stream[d]] /\ client'[d] = "draining"
    BY <1>2 DEF ListChunks, TypeOK, ClientTypes, spoolVars, drainVars, childVars, workerVars
  <2> QED
    BY <1>c, <1>d, <2>1 DEF FreshOK, GlobOK, StreamOK, Last
<1>3. ASSUME NEW c \in Calls, DrainChunk(c)
      PROVE  Sound(d)'
  <2>s. PICK s \in Streams : s = stream[c]
    BY DEF TypeOK, ClientTypes
  <2> DEFINE n == FirstName(glob[c])
  <2>1. /\ UNCHANGED <<client, stream, code, kind, worker, sequence, written>>
        /\ d # c => glob'[d] = glob[d] /\ chunks'[d] = chunks[d] /\ seen'[d] = seen[d]
        /\ client[c] = "draining" /\ glob[c] # {} /\ glob'[c] = glob[c] \ {n}
    BY <1>3 DEF DrainChunk, TypeOK, ClientTypes, SpoolTypes, drainVars, childVars, workerVars
  <2>2. CASE d # c
    BY <1>c, <2>1, <2>2 DEF FreshOK, GlobOK, StreamOK, Last
  <2>3. CASE d = c
    <3>1. /\ s \in Streams /\ glob[c] \subseteq 1..Last(c, s)
          /\ Last(c, s) \in Nat /\ (Last(c, s) < SequenceLimit \/ Last(c, s) <= 1)
          /\ seen[c][s] \in Seq(Nat) /\ chunks[c][s] \subseteq Nat
      <4>1. glob[c] \subseteq 1..Last(c, s)
        BY <1>a, <2>s DEF GlobOK
      <4>2. seen[c][s] \in Seq(Nat \ {0}) /\ chunks[c][s] \subseteq Nat \ {0}
        BY DEF TypeOK, ClientTypes, SpoolTypes
      <4>3. seen[c][s] \in Seq(Nat)
        BY <4>2
      <4> QED
        BY <4>1, <4>2, <4>3, LastIsSmall
    <3>2. n \in glob[c] /\ \A k \in glob[c] : n <= k
      BY <2>1, <3>1, FirstIsLeast
    <3>3. \A k \in chunks[c][s] : k # n => n < k
      BY <1>a, <2>s, <3>1, <3>2 DEF GlobOK
    <3>4. \A t \in Streams : t # s => chunks'[c][t] = chunks[c][t] /\ seen'[c][t] = seen[c][t]
      BY <1>3, <2>s, <3>1 DEF DrainChunk, TypeOK, ClientTypes, SpoolTypes
    <3>5. \/ n \in chunks[c][s] /\ chunks'[c][s] = chunks[c][s] \ {n} /\ seen'[c][s] = Append(seen[c][s], n)
          \/ n \notin chunks[c][s] /\ chunks'[c][s] = chunks[c][s] /\ seen'[c][s] = seen[c][s]
      BY <1>3, <2>s, <3>1 DEF DrainChunk, Printed, TypeOK, ClientTypes, SpoolTypes
    <3> HIDE DEF n
    <3>6. \A t \in Streams : Last(c, t)' = Last(c, t)
      BY <2>1 DEF Last
    <3>7. StreamOK(c, s)'
      <4>1. CASE seen'[c][s] = seen[c][s] /\ chunks'[c][s] = chunks[c][s]
        BY <1>a, <2>1, <3>1, <3>6, <4>1 DEF StreamOK
      <4>2. CASE n \in chunks[c][s] /\ chunks'[c][s] = chunks[c][s] \ {n} /\ seen'[c][s] = Append(seen[c][s], n)
        <5> DEFINE q == seen[c][s]
                   p == Append(q, n)
        <5>1. /\ Len(p) = Len(q) + 1 /\ p[Len(q) + 1] = n
              /\ \A i \in 1..Len(q) : p[i] = q[i]
              /\ DOMAIN p = 1..(Len(q) + 1) /\ DOMAIN q = 1..Len(q) /\ Len(q) \in Nat
          BY <3>1
        <5>2. StreamOK(c, s)
          BY <1>a, <3>1
        <5>3. \A i \in 1..Len(q) : q[i] < n /\ q[i] \in 1..Last(c, s)
          BY <4>2, <5>1, <5>2 DEF StreamOK
        <5>4. n \in 1..Last(c, s)
          BY <4>2, <5>2 DEF StreamOK
        <5> HIDE DEF p
        <5>5. ASSUME NEW i \in 1..(Len(q) + 1)
              PROVE  /\ p[i] \in 1..Last(c, s)
                     /\ \A k \in chunks[c][s] \ {n} : p[i] < k
                     /\ \A j \in 1..(Len(q) + 1) : i < j => p[i] < p[j]
          <6>1. CASE i = Len(q) + 1
            BY <3>3, <5>1, <5>4, <6>1
          <6>2. CASE i # Len(q) + 1
            <7>1. i \in 1..Len(q) /\ p[i] = q[i]
              BY <5>1, <6>2
            <7>2. /\ q[i] \in 1..Last(c, s)
                  /\ \A k \in chunks[c][s] : q[i] < k
                  /\ \A j \in 1..Len(q) : i < j => q[i] < q[j]
              BY <5>1, <5>2, <7>1 DEF StreamOK
            <7>3. q[i] < n
              BY <5>3, <7>1
            <7>4. \A j \in 1..(Len(q) + 1) : i < j => p[i] < p[j]
              <8>1. \A j \in 1..(Len(q) + 1) : j \in 1..Len(q) \/ j = Len(q) + 1
                BY <5>1
              <8> QED
                BY <5>1, <7>1, <7>2, <7>3, <8>1
            <7> QED
              BY <7>1, <7>2, <7>4
          <6> QED
            BY <6>1, <6>2
        <5>6. seen'[c][s] = p
          BY <4>2 DEF p
        <5> QED
          BY <2>1, <3>1, <3>6, <4>2, <5>1, <5>2, <5>5, <5>6 DEF StreamOK
      <4> QED
        BY <3>5, <4>1, <4>2
    <3>8. \A t \in Streams : StreamOK(c, t)'
      BY <1>a, <2>1, <3>4, <3>6, <3>7 DEF StreamOK
    <3>9. GlobOK(c)'
      <4>1. s = stream[c] /\ glob'[c] \subseteq glob[c] /\ chunks'[c][s] \subseteq chunks[c][s]
        BY <2>s, <2>1, <3>5
      <4>2. n \notin chunks'[c][s] \/ n \notin chunks[c][s]
        BY <3>5
      <4>3. chunks'[c][s] \ glob'[c] \subseteq chunks[c][s] \ glob[c]
        BY <2>1, <3>5, <4>1, <4>2
      <4> QED
        BY <1>a, <2>s, <2>1, <3>1, <3>6, <4>1, <4>3 DEF GlobOK
    <3> QED
      BY <1>c, <2>1, <2>3, <3>8, <3>9 DEF FreshOK
  <2> QED
    BY <2>2, <2>3
<1>4. ASSUME NEW c \in Calls, Refuse(c)
      PROVE  Sound(d)'
  <2>1. /\ UNCHANGED <<client, seen, glob, stream, kind, sequence, written>>
        /\ d # c => chunks'[d] = chunks[d] /\ code'[d] = code[d] /\ worker'[d] = worker[d]
        /\ d = c => /\ worker'[d] = "replying" /\ code'[d] # NoCode /\ kind[d] \in Speechless
                    /\ chunks'[d]["err"] = chunks[d]["err"] \cup {1}
                    /\ chunks'[d]["out"] = chunks[d]["out"]
    BY <1>4 DEF Refuse, Message, Speechless, NoCode, REJECTED_EXIT_CODE, TypeOK, SpoolTypes, WorkerTypes,
                clientVars, childVars, Streams
  <2>2. CASE d # c
    BY <1>c, <2>1, <2>2 DEF FreshOK, GlobOK, StreamOK, Last
  <2>3. CASE d = c
    <3>1. worker[c] \in {"none", "claimed"}
      BY <1>4 DEF Refuse
    <3>2. \A s \in Streams : /\ chunks[d][s] = {} /\ seen[d][s] = <<>> /\ glob[d] = {}
                             /\ sequence[d][s] = 0 /\ written[d][s] = 0
      BY <2>3, <3>1, Silent
    <3>3. Last(d, "err")' = 1 /\ Last(d, "out")' = 0
      BY <2>1, <2>3 DEF Last
    <3>4. chunks'[d]["err"] = {1} /\ chunks'[d]["out"] = {}
      BY <2>1, <2>3, <3>2 DEF Streams
    <3>5. \A s \in Streams : StreamOK(d, s)'
      BY <1>c, <2>1, <3>2, <3>3, <3>4 DEF StreamOK, Streams
    <3>6. GlobOK(d)'
      BY <1>c, <2>1, <3>2, <1>d DEF GlobOK
    <3> QED
      BY <2>1, <2>3, <3>5, <3>6 DEF FreshOK
  <2> QED
    BY <2>2, <2>3
<1>5. ASSUME NEW c \in Calls, ChildExits(c)
      PROVE  Sound(d)'
  <2>1. /\ UNCHANGED <<client, chunks, seen, glob, stream, kind, worker, sequence, written>>
        /\ d # c => code'[d] = code[d]
    BY <1>5 DEF ChildExits, TypeOK, WorkerTypes, spoolVars, clientVars, drainVars
  <2>2. worker[c] = "running" /\ kind[c] \notin Speechless
    BY <1>5 DEF ChildExits, Inv, Verdicts, Speechless
  <2> QED
    BY <1>c, <2>1, <2>2 DEF FreshOK, GlobOK, StreamOK, Last
<1>6. ASSUME NEW c \in Calls, NEW s \in Streams, Publish(c, s)
      PROVE  Sound(d)'
  <2>1. /\ UNCHANGED <<client, seen, glob, stream, kind, code, worker, written>>
        /\ \A t \in Streams : d # c \/ t # s =>
             chunks'[d][t] = chunks[d][t] /\ sequence'[d][t] = sequence[d][t]
        /\ sequence[c][s] < written[c][s] /\ sequence'[c][s] = sequence[c][s] + 1
        /\ chunks'[c][s] \subseteq chunks[c][s] \cup {sequence[c][s] + 1}
    BY <1>6 DEF Publish, NextNumber, TypeOK, SpoolTypes, ChildTypes, clientVars, drainVars, workerVars
  <2>2. worker[c] = "running" /\ kind[c] \notin Speechless
    BY <1>6 DEF Publish, Inv, Verdicts, Threads, Speechless
  <2>3. CASE d # c
    BY <1>c, <1>d, <2>1, <2>3 DEF FreshOK, GlobOK, StreamOK, Last
  <2>4. CASE d = c
    <3>1. /\ sequence[c][s] \in Nat /\ written[c][s] \in Nat
          /\ Last(c, s) = sequence[c][s] /\ Last(c, s)' = sequence[c][s] + 1
      BY <2>1, <2>2 DEF Last, TypeOK, ChildTypes
    <3>2. \A t \in Streams : t # s => Last(c, t)' = Last(c, t)
      BY <2>1, <2>4 DEF Last
    <3>3. StreamOK(c, s)'
      <4>1. StreamOK(c, s)
        BY <1>a
      <4>2. ASSUME NEW i \in DOMAIN seen[c][s], NEW n \in chunks'[c][s]
            PROVE  seen[c][s][i] < n
        BY <2>1, <3>1, <4>1 DEF StreamOK
      <4> QED
        BY <2>1, <3>1, <4>1, <4>2 DEF StreamOK
    <3>4. \A t \in Streams : StreamOK(c, t)'
      BY <1>a, <2>1, <2>4, <3>2, <3>3 DEF StreamOK
    <3>5. GlobOK(c)'
      <4>1. CASE stream[c] = s
        BY <1>a, <2>1, <3>1, <4>1 DEF GlobOK
      <4>2. CASE stream[c] # s
        BY <1>a, <1>d, <2>1, <2>4, <3>2, <4>2 DEF GlobOK
      <4> QED
        BY <4>1, <4>2
    <3> QED
      BY <1>c, <2>1, <2>2, <2>4, <3>4, <3>5 DEF FreshOK
  <2> QED
    BY <2>3, <2>4
<1>7. ASSUME NEW c \in Calls, NEW s \in Streams, Write(c, s)
      PROVE  Sound(d)'
  <2>1. /\ UNCHANGED <<client, chunks, seen, glob, stream, kind, code, worker, sequence>>
        /\ worker[c] = "running" /\ written[c][s] < MaxWrites[c][s]
        /\ written'[c][s] = written[c][s] + 1
        /\ \A t \in Streams : d # c \/ t # s => written'[d][t] = written[d][t]
    BY <1>7 DEF Write, TypeOK, ChildTypes, spoolVars, clientVars, drainVars, workerVars
  <2>2. \A t \in Streams : Last(d, t)' = Last(d, t)
    BY <2>1 DEF Last
  <2>3. ASSUME NEW t \in Streams
        PROVE  sequence[d][t] <= written'[d][t] /\ written'[d][t] <= MaxWrites[d][t]
    <3>1. /\ sequence[d][t] \in Nat /\ written[d][t] \in Nat /\ MaxWrites[d][t] \in Nat
          /\ sequence[d][t] <= written[d][t] /\ written[d][t] <= MaxWrites[d][t]
      BY <1>c, MaxWritesAssumption DEF StreamOK, TypeOK, ChildTypes
    <3> QED
      BY <2>1, <3>1
  <2> QED
    BY <1>c, <1>d, <2>1, <2>2, <2>3 DEF FreshOK, GlobOK, StreamOK
<1> QED
  BY <1>1, <1>2, <1>3, <1>4, <1>5, <1>6, <1>7 DEF Speaks

\* Either way the output stays in order.
LEMMA OrderedStep ==
  ASSUME Numbered, TypeOK, Inv, Ordered, [Next]_vars
  PROVE  Ordered'
<1>1. CASE Kept
  <2>1. \A c \in Calls : stream'[c] \in Streams
    BY TypingStep DEF TypeOK, ClientTypes
  <2> QED
    BY <1>1, <2>1, OrderedKept DEF Kept
<1> QED
  BY <1>1, KeptStep, SpeaksStep

\* The order of the output, as an invariant of the specification.
LEMMA OrderedHolds ==
  ASSUME Numbered
  PROVE  Spec => [](TypeOK /\ Inv /\ Ordered)
<1>1. Init => Ordered
  <2> SUFFICES ASSUME Init, NEW c \in Calls
               PROVE  Ordered!(c)
    BY DEF Ordered
  <2>1. \A s \in Streams : MaxWrites[c][s] \in Nat
    BY MaxWritesAssumption
  <2> QED
    BY <2>1 DEF Init, Streams, FreshOK, GlobOK, StreamOK
<1>2. TypeOK /\ Inv /\ Ordered /\ [Next]_vars => Ordered'
  BY OrderedStep
<1> QED
  BY <1>1, <1>2, InvHolds, TypeCorrect, PTL DEF Spec

(* What a client prints of a stream is in the order it was read, none twice, *)
(* whatever is cleaned, swept or lost under it, as long as the numbers have  *)
(* no more digits than SEQUENCE_WIDTH.                                       *)
THEOREM OrderHolds == ASSUME Numbered PROVE Spec => []OutputInOrder
<1>1. Ordered => OutputInOrder
  BY DEF Ordered, StreamOK, OutputInOrder
<1> QED
  BY <1>1, OrderedHolds, PTL

-----------------------------------------------------------------------------
(* One call at a time: what a step does to its worker, and to its client.    *)

\* Nothing happens to its worker, and its status stays or is removed.
Still(d) ==
  /\ worker'[d] = worker[d] /\ kind'[d] = kind[d] /\ code'[d] = code[d]
  /\ readers'[d] = readers[d] /\ held'[d] = held[d]
  /\ sequence'[d] = sequence[d] /\ written'[d] = written[d]
  /\ status'[d] \in {status[d], NoCode}

\* Its process is gone.
Killed(d) ==
  /\ \E h \in Hosts : host[h] # "off" /\ Die(h)
  /\ worker'[d] \in {worker[d], "done"} /\ readers'[d] \in {readers[d], {}}
  /\ (worker'[d] = "done" \/ readers'[d] = readers[d])
  /\ UNCHANGED <<kind, code, held, sequence, written, status>>
WorkerMoves(d) ==
  \/ Begin(d) \/ Refuse(d) \/ Spawn(d) \/ Fail(d) \/ ChildExits(d) \/ Join(d) \/ Reply(d) \/ RemoveClaim(d)
  \/ \E s \in Streams : Write(d, s) \/ Release(d, s) \/ Publish(d, s) \/ ReaderEnds(d, s)
  \/ Killed(d) \/ \E h \in Hosts : Claim(h) /\ target[h] = d /\ d \in requests

\* Of a call's worker, only its own steps change anything.
LEMMA StillStep ==
  ASSUME TypeOK, [Next]_vars, NEW d \in Calls
  PROVE  Still(d) \/ WorkerMoves(d)
<1> USE DEF TypeOK, SpoolTypes, ClientTypes, HostTypes, ChildTypes, WorkerTypes, vars, spoolVars, clientVars, drainVars,
            hostVars, childVars, workerVars, Still, WorkerMoves
<1>1. ASSUME NEW c \in Calls, Begin(c)
      PROVE  Still(d) \/ WorkerMoves(d)
  BY <1>1 DEF Begin
<1>2. ASSUME NEW c \in Calls, Submit(c)
      PROVE  Still(d) \/ WorkerMoves(d)
  BY <1>2 DEF Submit
<1>3. ASSUME NEW c \in Calls, CheckStatus(c)
      PROVE  Still(d) \/ WorkerMoves(d)
  BY <1>3 DEF CheckStatus
<1>4. ASSUME NEW c \in Calls, ListChunks(c)
      PROVE  Still(d) \/ WorkerMoves(d)
  BY <1>4 DEF ListChunks
<1>5. ASSUME NEW c \in Calls, DrainChunk(c)
      PROVE  Still(d) \/ WorkerMoves(d)
  BY <1>5 DEF DrainChunk, Printed
<1>6. ASSUME NEW c \in Calls, DrainDone(c)
      PROVE  Still(d) \/ WorkerMoves(d)
  BY <1>6 DEF DrainDone, StatusBefore
<1>7. ASSUME NEW c \in Calls, Leave(c)
      PROVE  Still(d) \/ WorkerMoves(d)
  BY <1>7 DEF Leave, Ending, Forget
<1>8. ASSUME NEW c \in Calls, Interrupt(c)
      PROVE  Still(d) \/ WorkerMoves(d)
  BY <1>8 DEF Interrupt, Forget, Active
<1>9. ASSUME NEW h \in Hosts, Poll(h)
      PROVE  Still(d) \/ WorkerMoves(d)
  BY <1>9 DEF Poll
<1>10. ASSUME NEW h \in Hosts, Claim(h)
      PROVE  Still(d) \/ WorkerMoves(d)
  BY <1>10 DEF Claim, Renames
<1>11. ASSUME NEW h \in Hosts, AgentFails(h)
      PROVE  Still(d) \/ WorkerMoves(d)
  BY <1>11 DEF AgentFails
<1>12. ASSUME NEW h \in Hosts, SeeStop(h)
      PROVE  Still(d) \/ WorkerMoves(d)
  BY <1>12 DEF SeeStop, Stops
<1>13. ASSUME NEW c \in Calls, Refuse(c)
      PROVE  Still(d) \/ WorkerMoves(d)
  BY <1>13 DEF Refuse, Message
<1>14. ASSUME NEW c \in Calls, Spawn(c)
      PROVE  Still(d) \/ WorkerMoves(d)
  BY <1>14 DEF Spawn, Sources
<1>15. ASSUME NEW c \in Calls, Fail(c)
      PROVE  Still(d) \/ WorkerMoves(d)
  BY <1>15 DEF Fail
<1>16. ASSUME NEW c \in Calls, NEW s \in Streams, Write(c, s)
      PROVE  Still(d) \/ WorkerMoves(d)
  BY <1>16 DEF Write
<1>17. ASSUME NEW c \in Calls, ChildExits(c)
      PROVE  Still(d) \/ WorkerMoves(d)
  BY <1>17, ZenonT(30) DEF ChildExits
<1>18. ASSUME NEW c \in Calls, NEW s \in Streams, Release(c, s)
      PROVE  Still(d) \/ WorkerMoves(d)
  BY <1>18 DEF Release
<1>19. ASSUME NEW c \in Calls, NEW s \in Streams, Publish(c, s)
      PROVE  Still(d) \/ WorkerMoves(d)
  BY <1>19 DEF Publish, NextNumber
<1>20. ASSUME NEW c \in Calls, NEW s \in Streams, ReaderEnds(c, s)
      PROVE  Still(d) \/ WorkerMoves(d)
  BY <1>20 DEF ReaderEnds
<1>21. ASSUME NEW c \in Calls, PumpEnds(c)
      PROVE  Still(d) \/ WorkerMoves(d)
  BY <1>21 DEF PumpEnds
<1>22. ASSUME NEW c \in Calls, Join(c)
      PROVE  Still(d) \/ WorkerMoves(d)
  BY <1>22 DEF Join, ThreadsEnded
<1>23. ASSUME NEW c \in Calls, Reply(c)
      PROVE  Still(d) \/ WorkerMoves(d)
  BY <1>23 DEF Reply
<1>24. ASSUME NEW c \in Calls, RemoveClaim(c)
      PROVE  Still(d) \/ WorkerMoves(d)
  BY <1>24 DEF RemoveClaim
<1>25. ASSUME NEW h \in Hosts, Create(h)
      PROVE  Still(d) \/ WorkerMoves(d)
  BY <1>25 DEF Create, Sweep
<1>26. ASSUME NEW h \in Hosts, Boot(h)
      PROVE  Still(d) \/ WorkerMoves(d)
  BY <1>26 DEF Boot
<1>27. ASSUME NEW h \in Hosts, Serve(h)
      PROVE  Still(d) \/ WorkerMoves(d)
  BY <1>27 DEF Serve
<1>28. ASSUME NEW h \in Hosts, Stop(h)
      PROVE  Still(d) \/ WorkerMoves(d)
  BY <1>28 DEF Stop
<1>29. ASSUME NEW h \in Hosts, CleanAfterExit(h)
      PROVE  Still(d) \/ WorkerMoves(d)
  BY <1>29 DEF CleanAfterExit, Joined, EmptySpool
<1>30. ASSUME NEW h \in Hosts, Cleaned(h)
      PROVE  Still(d) \/ WorkerMoves(d)
  BY <1>30 DEF Cleaned
<1>31. ASSUME NEW h \in Hosts, SkipCleanup(h)
      PROVE  Still(d) \/ WorkerMoves(d)
  BY <1>31 DEF SkipCleanup, Joined
<1>32. ASSUME NEW h \in Hosts, ExitProcess(h)
      PROVE  Still(d) \/ WorkerMoves(d)
  <2>1. /\ host[h] # "off" /\ Die(h)
    BY <1>32 DEF ExitProcess
  <2>2. Killed(d)
    BY <1>32, <2>1 DEF Die, InFlight, BusyWorker, Killed
  <2> QED
    BY <2>2
<1>33. ASSUME NEW h \in Hosts, Crash(h)
      PROVE  Still(d) \/ WorkerMoves(d)
  <2>1. /\ host[h] # "off" /\ Die(h)
    BY <1>33 DEF Crash
  <2>2. Killed(d)
    BY <1>33, <2>1 DEF Die, InFlight, BusyWorker, Killed
  <2> QED
    BY <2>2
<1>34. ASSUME NEW h \in Cleaners, RemoveResponse(h)
      PROVE  Still(d) \/ WorkerMoves(d)
  <2>1. status' \in [Calls -> Codes] /\ \A c \in Calls : status'[c] \in {status[c], NoCode}
    <3>1. PICK f \in doomed[h] :
            status' = IF f.name = "status" THEN [status EXCEPT ![f.call] = NoCode] ELSE status
      BY <1>34 DEF RemoveResponse
    <3>2. status \in [Calls -> Codes] /\ NoCode \in Codes
      BY DEF Codes
    <3> QED
      BY ONLY <3>1, <3>2
  <2> QED
    BY <1>34, <2>1 DEF RemoveResponse
<1>35. ASSUME NEW h \in Cleaners, AbandonCleanup(h)
      PROVE  Still(d) \/ WorkerMoves(d)
  BY <1>35 DEF AbandonCleanup
<1>36. CASE Clean
  BY <1>36 DEF Clean, EmptySpool
<1>37. CASE UNCHANGED vars
  BY <1>37
<1> QED
  BY <1>1, <1>2, <1>3, <1>4, <1>5, <1>6, <1>7, <1>8, <1>9, <1>10, <1>11, <1>12, <1>13, <1>14, <1>15, <1>16, <1>17, <1>18, <1>19, <1>20, <1>21, <1>22, <1>23, <1>24, <1>25, <1>26, <1>27, <1>28, <1>29, <1>30, <1>31, <1>32, <1>33, <1>34, <1>35, <1>36, <1>37
  DEF Next, Client, Worker, Command, Agent, Leaving

\* Readers end with their streams, and workers with their readers.
LEMMA ThroughStep ==
  ASSUME TypeOK, Inv, Ordered, [Next]_vars, NEW d \in Calls, ThroughOK(d)
  PROVE  ThroughOK(d)'
<1>a. /\ status'[d] # NoCode => worker'[d] \in {"removing", "done"}
      /\ status[d] # NoCode => worker[d] \in {"removing", "done"}
      /\ worker[d] # "running" => readers[d] = {}
  BY InvStep DEF Inv, Threads
<1>b. \A s \in Streams : sequence[d][s] \in Nat /\ written[d][s] \in Nat
  BY DEF TypeOK, ChildTypes
<1>1. CASE Still(d)
  BY <1>1 DEF Still, ThroughOK, AllOut
<1>2. CASE Killed(d)
  BY <1>2, <1>a DEF Killed, ThroughOK, AllOut
<1>3. CASE Begin(d)
  <2>1. worker[d] = "none" /\ UNCHANGED <<worker, status>>
    BY <1>3 DEF Begin, Inv, Claims, workerVars
  <2> QED
    BY <1>a, <2>1 DEF ThroughOK
<1>4. CASE Refuse(d)
  <2>1. /\ worker'[d] = "replying" /\ code'[d] # NoCode /\ kind'[d] \in Speechless
    BY <1>4 DEF Refuse, Speechless, NoCode, REJECTED_EXIT_CODE, TypeOK, WorkerTypes, clientVars, drainVars
  <2> QED
    BY <2>1 DEF ThroughOK, AllOut
<1>5. CASE Spawn(d)
  <2>1. /\ worker'[d] = "running" /\ held'[d] = readers'[d] /\ UNCHANGED <<sequence, written, status>>
    BY <1>5 DEF Spawn, TypeOK, ChildTypes, WorkerTypes, spoolVars
  <2>2. status[d] = NoCode
    BY <1>5, <1>a DEF Spawn
  <2>3. \A s \in Streams : sequence[d][s] = 0 /\ written[d][s] = 0
    BY <1>5, Silent DEF Spawn
  <2> QED
    BY <2>1, <2>2, <2>3 DEF ThroughOK, AllOut
<1>6. CASE Fail(d)
  <2>1. /\ worker'[d] = "done"
        /\ UNCHANGED <<status, kind, code, sequence, written>>
    BY <1>6 DEF Fail, TypeOK, WorkerTypes, spoolVars, clientVars, drainVars, childVars
  <2> QED
    BY <2>1 DEF ThroughOK, AllOut
<1>7. CASE ChildExits(d)
  <2>1. /\ worker[d] = "running" /\ UNCHANGED <<worker, status, readers, sequence, written>>
        /\ held'[d] \subseteq held[d]
    BY <1>7 DEF ChildExits, TypeOK, ChildTypes, spoolVars
  <2> QED
    BY <1>a, <2>1 DEF ThroughOK
<1>8. CASE Join(d)
  <2>1. /\ worker[d] = "running" /\ readers[d] = {} /\ UNCHANGED <<status, sequence, written, kind>>
        /\ kind[d] \notin Speechless
    BY <1>8 DEF Join, ThreadsEnded, spoolVars, clientVars, drainVars, childVars, Inv, Verdicts, Speechless
  <2>2. worker'[d] # "running"
    BY <1>8 DEF Join, TypeOK, WorkerTypes
  <2> QED
    BY <2>1, <2>2 DEF ThroughOK, AllOut
<1>9. CASE Reply(d) \/ RemoveClaim(d)
  <2>1. /\ worker[d] \in {"replying", "removing"} /\ worker'[d] # "running"
        /\ UNCHANGED <<sequence, written, kind, code>>
    BY <1>9 DEF Reply, RemoveClaim, clientVars, drainVars, childVars, TypeOK, WorkerTypes
  <2> QED
    BY <2>1 DEF ThroughOK, AllOut
<1>10. ASSUME NEW s \in Streams, Write(d, s) \/ Release(d, s) \/ Publish(d, s) \/ ReaderEnds(d, s)
       PROVE  ThroughOK(d)'
  <2>1. worker[d] = "running" /\ UNCHANGED <<worker, status>>
    BY <1>10, <1>a DEF Write, Release, Publish, ReaderEnds, workerVars, spoolVars
  <2>2. ASSUME NEW t \in Streams, t \notin readers'[d]
        PROVE  t \notin held'[d] /\ sequence'[d][t] = written'[d][t]
    <3>1. t \notin readers[d] => t \notin held[d] /\ sequence[d][t] = written[d][t]
      BY <2>1 DEF ThroughOK
    <3>2. CASE Write(d, s)
      BY <3>1, <3>2, <2>2 DEF Write, TypeOK, ChildTypes
    <3>3. CASE Release(d, s)
      BY <3>1, <3>3, <2>2 DEF Release, TypeOK, ChildTypes
    <3>4. CASE Publish(d, s)
      BY <3>1, <3>4, <2>2 DEF Publish, TypeOK, ChildTypes
    <3>5. CASE ReaderEnds(d, s)
      BY <3>1, <3>5, <2>2 DEF ReaderEnds, TypeOK, ChildTypes
    <3> QED
      BY <1>10, <3>2, <3>3, <3>4, <3>5
  <2> QED
    BY <1>a, <2>1, <2>2 DEF ThroughOK
<1>11. ASSUME NEW h \in Hosts, Claim(h), target[h] = d, d \in requests
       PROVE  ThroughOK(d)'
  <2>1. /\ worker'[d] = "claimed" /\ UNCHANGED status /\ worker[d] = "none"
    BY <1>11 DEF Claim, Renames, TypeOK, WorkerTypes, Inv, Claims
  <2> QED
    BY <1>a, <2>1 DEF ThroughOK
<1> QED
  BY <1>1, <1>2, <1>3, <1>4, <1>5, <1>6, <1>7, <1>8, <1>9, <1>10, <1>11, StillStep DEF WorkerMoves

\* What a step does to a call's client and to what it has left to print.
Seated(d) ==
  /\ client'[d] = client[d] /\ finished'[d] = finished[d] /\ stream'[d] = stream[d] /\ glob'[d] = glob[d]
  /\ \A s \in Streams : chunks'[d][s] \subseteq chunks[d][s]
Gone(d) ==
  /\ Active(d) /\ (client'[d] \in {"failed", "gone"} \/ Leave(d))
  /\ client'[d] \in {"returned", "failed", "gone"} /\ finished'[d] = FALSE
  /\ stream'[d] = "out" /\ glob'[d] = {}
  /\ UNCHANGED <<chunks, seen>>
ClientMoves(d) ==
  \/ Begin(d) \/ Submit(d) \/ CheckStatus(d) \/ ListChunks(d) \/ DrainChunk(d) \/ DrainDone(d)
  \/ Gone(d) \/ Refuse(d) \/ \E s \in Streams : Publish(d, s)

\* Of a call's client, only its own steps take anything but chunks away.
LEMMA SeatedStep ==
  ASSUME TypeOK, [Next]_vars, NEW d \in Calls
  PROVE  Seated(d) \/ ClientMoves(d)
<1> USE DEF TypeOK, SpoolTypes, ClientTypes, HostTypes, ChildTypes, WorkerTypes, vars, spoolVars, clientVars, drainVars,
            hostVars, childVars, workerVars, Seated, ClientMoves
<1>1. ASSUME NEW c \in Calls, Begin(c)
      PROVE  Seated(d) \/ ClientMoves(d)
  BY <1>1 DEF Begin
<1>2. ASSUME NEW c \in Calls, Submit(c)
      PROVE  Seated(d) \/ ClientMoves(d)
  BY <1>2 DEF Submit
<1>3. ASSUME NEW c \in Calls, CheckStatus(c)
      PROVE  Seated(d) \/ ClientMoves(d)
  BY <1>3 DEF CheckStatus
<1>4. ASSUME NEW c \in Calls, ListChunks(c)
      PROVE  Seated(d) \/ ClientMoves(d)
  BY <1>4 DEF ListChunks
<1>5. ASSUME NEW c \in Calls, DrainChunk(c)
      PROVE  Seated(d) \/ ClientMoves(d)
  BY <1>5 DEF DrainChunk, Printed
<1>6. ASSUME NEW c \in Calls, DrainDone(c)
      PROVE  Seated(d) \/ ClientMoves(d)
  BY <1>6, SMTT(30) DEF DrainDone, StatusBefore
<1>7. ASSUME NEW c \in Calls, Leave(c)
      PROVE  Seated(d) \/ ClientMoves(d)
  <2>1. c = d => Gone(d)
    BY <1>7 DEF Leave, Ending, Forget, Gone, Active, ActiveClient
  <2>2. c # d => Seated(d)
    BY <1>7 DEF Leave, Ending, Forget
  <2> QED
    BY <2>1, <2>2
<1>8. ASSUME NEW c \in Calls, Interrupt(c)
      PROVE  Seated(d) \/ ClientMoves(d)
  <2>1. c = d => Gone(d)
    BY <1>8 DEF Interrupt, Forget, Active, Gone, Active, ActiveClient
  <2>2. c # d => Seated(d)
    BY <1>8 DEF Interrupt, Forget, Active
  <2> QED
    BY <2>1, <2>2
<1>9. ASSUME NEW h \in Hosts, Poll(h)
      PROVE  Seated(d) \/ ClientMoves(d)
  BY <1>9 DEF Poll
<1>10. ASSUME NEW h \in Hosts, Claim(h)
      PROVE  Seated(d) \/ ClientMoves(d)
  BY <1>10 DEF Claim, Renames
<1>11. ASSUME NEW h \in Hosts, AgentFails(h)
      PROVE  Seated(d) \/ ClientMoves(d)
  BY <1>11 DEF AgentFails
<1>12. ASSUME NEW h \in Hosts, SeeStop(h)
      PROVE  Seated(d) \/ ClientMoves(d)
  BY <1>12 DEF SeeStop, Stops
<1>13. ASSUME NEW c \in Calls, Refuse(c)
      PROVE  Seated(d) \/ ClientMoves(d)
  BY <1>13 DEF Refuse, Message
<1>14. ASSUME NEW c \in Calls, Spawn(c)
      PROVE  Seated(d) \/ ClientMoves(d)
  BY <1>14 DEF Spawn, Sources
<1>15. ASSUME NEW c \in Calls, Fail(c)
      PROVE  Seated(d) \/ ClientMoves(d)
  BY <1>15 DEF Fail
<1>16. ASSUME NEW c \in Calls, NEW s \in Streams, Write(c, s)
      PROVE  Seated(d) \/ ClientMoves(d)
  BY <1>16 DEF Write
<1>17. ASSUME NEW c \in Calls, ChildExits(c)
      PROVE  Seated(d) \/ ClientMoves(d)
  BY <1>17 DEF ChildExits
<1>18. ASSUME NEW c \in Calls, NEW s \in Streams, Release(c, s)
      PROVE  Seated(d) \/ ClientMoves(d)
  BY <1>18 DEF Release
<1>19. ASSUME NEW c \in Calls, NEW s \in Streams, Publish(c, s)
      PROVE  Seated(d) \/ ClientMoves(d)
  BY <1>19 DEF Publish, NextNumber
<1>20. ASSUME NEW c \in Calls, NEW s \in Streams, ReaderEnds(c, s)
      PROVE  Seated(d) \/ ClientMoves(d)
  BY <1>20 DEF ReaderEnds
<1>21. ASSUME NEW c \in Calls, PumpEnds(c)
      PROVE  Seated(d) \/ ClientMoves(d)
  BY <1>21 DEF PumpEnds
<1>22. ASSUME NEW c \in Calls, Join(c)
      PROVE  Seated(d) \/ ClientMoves(d)
  BY <1>22 DEF Join, ThreadsEnded
<1>23. ASSUME NEW c \in Calls, Reply(c)
      PROVE  Seated(d) \/ ClientMoves(d)
  BY <1>23 DEF Reply
<1>24. ASSUME NEW c \in Calls, RemoveClaim(c)
      PROVE  Seated(d) \/ ClientMoves(d)
  BY <1>24 DEF RemoveClaim
<1>25. ASSUME NEW h \in Hosts, Create(h)
      PROVE  Seated(d) \/ ClientMoves(d)
  BY <1>25 DEF Create, Sweep
<1>26. ASSUME NEW h \in Hosts, Boot(h)
      PROVE  Seated(d) \/ ClientMoves(d)
  BY <1>26 DEF Boot
<1>27. ASSUME NEW h \in Hosts, Serve(h)
      PROVE  Seated(d) \/ ClientMoves(d)
  BY <1>27 DEF Serve
<1>28. ASSUME NEW h \in Hosts, Stop(h)
      PROVE  Seated(d) \/ ClientMoves(d)
  BY <1>28 DEF Stop
<1>29. ASSUME NEW h \in Hosts, CleanAfterExit(h)
      PROVE  Seated(d) \/ ClientMoves(d)
  BY <1>29 DEF CleanAfterExit, Joined, EmptySpool
<1>30. ASSUME NEW h \in Hosts, Cleaned(h)
      PROVE  Seated(d) \/ ClientMoves(d)
  BY <1>30 DEF Cleaned
<1>31. ASSUME NEW h \in Hosts, SkipCleanup(h)
      PROVE  Seated(d) \/ ClientMoves(d)
  BY <1>31 DEF SkipCleanup, Joined
<1>32. ASSUME NEW h \in Hosts, ExitProcess(h)
      PROVE  Seated(d) \/ ClientMoves(d)
  <2>1. CASE home[d] = h /\ Active(d)
    <3>1. Gone(d)
      BY <1>32, <2>1 DEF ExitProcess, Die, Forget, Gone
    <3> QED
      BY <3>1
  <2>2. CASE ~(home[d] = h /\ Active(d))
    BY <1>32, <2>2 DEF ExitProcess, Die, Forget
  <2> QED
    BY <2>1, <2>2
<1>33. ASSUME NEW h \in Hosts, Crash(h)
      PROVE  Seated(d) \/ ClientMoves(d)
  <2>1. CASE home[d] = h /\ Active(d)
    <3>1. Gone(d)
      BY <1>33, <2>1 DEF Crash, Die, Forget, Gone
    <3> QED
      BY <3>1
  <2>2. CASE ~(home[d] = h /\ Active(d))
    BY <1>33, <2>2 DEF Crash, Die, Forget
  <2> QED
    BY <2>1, <2>2
<1>34. ASSUME NEW h \in Cleaners, RemoveResponse(h)
      PROVE  Seated(d) \/ ClientMoves(d)
  <2>1. \A s \in Streams : chunks'[d][s] \subseteq chunks[d][s]
    BY <1>34, ResponseGoes
  <2> QED
    BY <1>34, <2>1 DEF RemoveResponse
<1>35. ASSUME NEW h \in Cleaners, AbandonCleanup(h)
      PROVE  Seated(d) \/ ClientMoves(d)
  BY <1>35 DEF AbandonCleanup
<1>36. CASE Clean
  BY <1>36 DEF Clean, EmptySpool
<1>37. CASE UNCHANGED vars
  BY <1>37
<1> QED
  BY <1>1, <1>2, <1>3, <1>4, <1>5, <1>6, <1>7, <1>8, <1>9, <1>10, <1>11, <1>12, <1>13, <1>14, <1>15, <1>16, <1>17, <1>18, <1>19, <1>20, <1>21, <1>22, <1>23, <1>24, <1>25, <1>26, <1>27, <1>28, <1>29, <1>30, <1>31, <1>32, <1>33, <1>34, <1>35, <1>36, <1>37
  DEF Next, Client, Worker, Command, Agent, Leaving

\* Past the answer, a worker's result is what it is.
LEMMA Concluding ==
  ASSUME TypeOK, Inv, [Next]_vars, NEW d \in Calls, worker[d] \in {"removing", "done"}
  PROVE  /\ worker'[d] \in {"removing", "done"}
         /\ kind'[d] = kind[d] /\ code'[d] = code[d]
         /\ sequence'[d] = sequence[d] /\ written'[d] = written[d]
<1>1. readers[d] = {} /\ d \notin requests /\ client[d] # "idle"
  BY DEF Inv, Threads, Claims
<1>2. CASE Still(d) \/ Killed(d)
  BY <1>2 DEF Still, Killed
<1>3. CASE RemoveClaim(d)
  BY <1>3 DEF RemoveClaim, TypeOK, WorkerTypes, clientVars, drainVars, childVars
<1> QED
  BY <1>1, <1>2, <1>3, StillStep
  DEF WorkerMoves, Begin, Refuse, Spawn, Fail, ChildExits, Join, Reply, Write, Release, Publish, ReaderEnds

\* A client that saw the status finds all there is, and leaves nothing.
LEMMA FinishedStep ==
  ASSUME TypeOK, Inv, Ordered, [Next]_vars, NEW d \in Calls, ThroughOK(d), FinishedOK(d)
  PROVE  FinishedOK(d)'
<1> USE DEF FinishedOK
<1>a. stream[d] \in Streams /\ client[d] \in ClientStates /\ finished[d] \in BOOLEAN
  BY DEF TypeOK, ClientTypes
<1>b. ASSUME finished[d]
      PROVE  worker'[d] \in {"removing", "done"} /\ AllOut(d)'
  <2>1. worker[d] \in {"removing", "done"} /\ AllOut(d)
    BY <1>b
  <2> QED
    BY <2>1, Concluding DEF AllOut
<1>1. CASE Seated(d)
  BY <1>a, <1>b, <1>1 DEF Seated, Streams
<1>2. CASE Begin(d) \/ Submit(d) \/ Gone(d)
  <2>1. CASE Gone(d)
    BY <2>1 DEF Gone
  <2>2. CASE Begin(d) \/ Submit(d)
    <3>1. client'[d] \in {"drafted", "checking", "failed"} /\ finished'[d] = finished[d]
      BY <2>2 DEF Begin, Submit, TypeOK, ClientTypes
    <3> QED
      BY <1>b, <3>1
  <2> QED
    BY <1>2, <2>1, <2>2
<1>3. CASE CheckStatus(d)
  <2>1. /\ client'[d] = "listing" /\ stream'[d] = "out" /\ (finished'[d] => status[d] # NoCode)
        /\ UNCHANGED <<worker, kind, code, sequence, written>>
    BY <1>3 DEF CheckStatus, TypeOK, ClientTypes, drainVars, childVars, workerVars
  <2>2. status[d] # NoCode => worker[d] \in {"removing", "done"} /\ AllOut(d)
    BY DEF Inv, Threads, ThroughOK
  <2> QED
    BY <2>1, <2>2 DEF AllOut
<1>4. CASE ListChunks(d)
  <2>1. /\ client[d] = "listing" /\ client'[d] = "draining" /\ glob'[d] = chunks[d][stream[d]]
        /\ UNCHANGED <<finished, stream, chunks>>
    BY <1>4 DEF ListChunks, TypeOK, ClientTypes, spoolVars
  <2> QED
    BY <1>b, <2>1
<1>5. CASE DrainChunk(d)
  <2> DEFINE n == FirstName(glob[d])
  <2>1. /\ client[d] = "draining" /\ glob'[d] = glob[d] \ {n}
        /\ UNCHANGED <<client, finished, stream>>
    BY <1>5 DEF DrainChunk, TypeOK, ClientTypes
  <2>2. /\ chunks'[d][stream[d]] \subseteq chunks[d][stream[d]] \ {n}
        /\ \A s \in Streams : s # stream[d] => chunks'[d][s] = chunks[d][s]
    BY <1>a, <1>5 DEF DrainChunk, Printed, TypeOK, ClientTypes, SpoolTypes
  <2> HIDE DEF n
  <2> QED
    BY <1>a, <1>b, <2>1, <2>2 DEF Streams
<1>6. CASE DrainDone(d)
  <2>1. /\ client[d] = "draining" /\ glob[d] = {} /\ glob'[d] = {}
        /\ UNCHANGED <<finished, chunks>>
        /\ \/ stream[d] = "out" /\ stream'[d] = "err" /\ client'[d] = "listing"
           \/ /\ stream[d] = "err" /\ stream'[d] = "err"
              /\ client'[d] = IF finished[d] THEN "leaving" ELSE "checking"
    BY <1>6 DEF DrainDone, StatusBefore, TypeOK, ClientTypes, spoolVars
  <2> QED
    BY <1>b, <2>1 DEF Streams
<1>7. CASE Refuse(d) \/ \E s \in Streams : Publish(d, s)
  <2>1. worker[d] \notin {"removing", "done"} /\ UNCHANGED <<client, finished>>
    BY <1>7 DEF Refuse, Publish, Inv, Threads, clientVars
  <2> QED
    BY <2>1
<1> QED
  BY <1>1, <1>2, <1>3, <1>4, <1>5, <1>6, <1>7, SeatedStep DEF ClientMoves

\* A container has one owner, and only that one cleans up under clients.
LEMMA AloneStep ==
  ASSUME OneOwner, TypeOK, AloneOK, [Next]_vars
  PROVE  AloneOK'
<1> USE BoundsAssumption, HostsAssumption
    DEF TypeOK, SpoolTypes, ClientTypes, HostTypes, vars, spoolVars, clientVars, drainVars,
        hostVars, childVars, workerVars, AloneOK, Active, ActiveClient, HasVm, Booted, Cleaners
<1>1. ASSUME NEW c \in Calls, Begin(c)
      PROVE  AloneOK'
  BY <1>1 DEF Begin
<1>2. ASSUME NEW c \in Calls, Submit(c)
      PROVE  AloneOK'
  BY <1>2 DEF Submit
<1>3. ASSUME NEW c \in Calls, CheckStatus(c)
      PROVE  AloneOK'
  BY <1>3 DEF CheckStatus
<1>4. ASSUME NEW c \in Calls, ListChunks(c)
      PROVE  AloneOK'
  BY <1>4 DEF ListChunks
<1>5. ASSUME NEW c \in Calls, DrainChunk(c)
      PROVE  AloneOK'
  BY <1>5 DEF DrainChunk, Printed
<1>6. ASSUME NEW c \in Calls, DrainDone(c)
      PROVE  AloneOK'
  BY <1>6 DEF DrainDone, StatusBefore
<1>7. ASSUME NEW c \in Calls, Leave(c)
      PROVE  AloneOK'
  BY <1>7 DEF Leave, Ending, Forget
<1>8. ASSUME NEW c \in Calls, Interrupt(c)
      PROVE  AloneOK'
  BY <1>8 DEF Interrupt, Forget, Active
<1>9. ASSUME NEW h \in Hosts, Poll(h)
      PROVE  AloneOK'
  BY <1>9 DEF Poll
<1>10. ASSUME NEW h \in Hosts, Claim(h)
      PROVE  AloneOK'
  BY <1>10 DEF Claim, Renames
<1>11. ASSUME NEW h \in Hosts, AgentFails(h)
      PROVE  AloneOK'
  BY <1>11 DEF AgentFails
<1>12. ASSUME NEW h \in Hosts, SeeStop(h)
      PROVE  AloneOK'
  BY <1>12 DEF SeeStop, Stops
<1>13. ASSUME NEW c \in Calls, Refuse(c)
      PROVE  AloneOK'
  BY <1>13 DEF Refuse, Message
<1>14. ASSUME NEW c \in Calls, Spawn(c)
      PROVE  AloneOK'
  BY <1>14 DEF Spawn, Sources
<1>15. ASSUME NEW c \in Calls, Fail(c)
      PROVE  AloneOK'
  BY <1>15 DEF Fail
<1>16. ASSUME NEW c \in Calls, NEW s \in Streams, Write(c, s)
      PROVE  AloneOK'
  BY <1>16 DEF Write
<1>17. ASSUME NEW c \in Calls, ChildExits(c)
      PROVE  AloneOK'
  BY <1>17 DEF ChildExits
<1>18. ASSUME NEW c \in Calls, NEW s \in Streams, Release(c, s)
      PROVE  AloneOK'
  BY <1>18 DEF Release
<1>19. ASSUME NEW c \in Calls, NEW s \in Streams, Publish(c, s)
      PROVE  AloneOK'
  BY <1>19 DEF Publish, NextNumber
<1>20. ASSUME NEW c \in Calls, NEW s \in Streams, ReaderEnds(c, s)
      PROVE  AloneOK'
  BY <1>20 DEF ReaderEnds
<1>21. ASSUME NEW c \in Calls, PumpEnds(c)
      PROVE  AloneOK'
  BY <1>21 DEF PumpEnds
<1>22. ASSUME NEW c \in Calls, Join(c)
      PROVE  AloneOK'
  BY <1>22 DEF Join, ThreadsEnded
<1>23. ASSUME NEW c \in Calls, Reply(c)
      PROVE  AloneOK'
  BY <1>23 DEF Reply
<1>24. ASSUME NEW c \in Calls, RemoveClaim(c)
      PROVE  AloneOK'
  BY <1>24 DEF RemoveClaim
<1>25. ASSUME NEW h \in Hosts, Create(h)
      PROVE  AloneOK'
  BY <1>25 DEF Create, Sweep
<1>26. ASSUME NEW h \in Hosts, Boot(h)
      PROVE  AloneOK'
  BY <1>26 DEF Boot
<1>27. ASSUME NEW h \in Hosts, Serve(h)
      PROVE  AloneOK'
  BY <1>27 DEF Serve
<1>28. ASSUME NEW h \in Hosts, Stop(h)
      PROVE  AloneOK'
  BY <1>28 DEF Stop
<1>29. ASSUME NEW h \in Hosts, CleanAfterExit(h)
      PROVE  AloneOK'
  BY <1>29 DEF CleanAfterExit, Joined, EmptySpool
<1>30. ASSUME NEW h \in Hosts, Cleaned(h)
      PROVE  AloneOK'
  BY <1>30 DEF Cleaned
<1>31. ASSUME NEW h \in Hosts, SkipCleanup(h)
      PROVE  AloneOK'
  BY <1>31 DEF SkipCleanup, Joined
<1>32. ASSUME NEW h \in Hosts, ExitProcess(h)
      PROVE  AloneOK'
  BY <1>32 DEF ExitProcess, Die, Forget, InFlight
<1>33. ASSUME NEW h \in Hosts, Crash(h)
      PROVE  AloneOK'
  BY <1>33 DEF Crash, Die, Forget, InFlight
<1>34. ASSUME NEW h \in Cleaners, RemoveResponse(h)
      PROVE  AloneOK'
  BY <1>34 DEF RemoveResponse
<1>35. ASSUME NEW h \in Cleaners, AbandonCleanup(h)
      PROVE  AloneOK'
  BY <1>35 DEF AbandonCleanup
<1>36. CASE Clean
  BY <1>36 DEF Clean, EmptySpool
<1>37. CASE UNCHANGED vars
  BY <1>37
<1> QED
  BY <1>1, <1>2, <1>3, <1>4, <1>5, <1>6, <1>7, <1>8, <1>9, <1>10, <1>11, <1>12, <1>13, <1>14, <1>15, <1>16, <1>17, <1>18, <1>19, <1>20, <1>21, <1>22, <1>23, <1>24, <1>25, <1>26, <1>27, <1>28, <1>29, <1>30, <1>31, <1>32, <1>33, <1>34, <1>35, <1>36, <1>37
  DEF Next, Client, Worker, Command, Agent, Leaving

\* Who touches the output of a call.
Same(d) == chunks'[d] = chunks[d] /\ seen'[d] = seen[d]
Touches(d) ==
  \/ DrainChunk(d) \/ Refuse(d) \/ (\E s \in Streams : Publish(d, s))
  \/ \E h \in Cleaners : RemoveResponse(h)

\* Nobody else touches the output of a call.
LEMMA SameStep ==
  ASSUME TypeOK, [Next]_vars, NEW d \in Calls
  PROVE  Same(d) \/ Touches(d)
<1> USE DEF TypeOK, SpoolTypes, ClientTypes, vars, spoolVars, clientVars, Same, Touches
<1>1. ASSUME NEW c \in Calls, Begin(c)
      PROVE  Same(d) \/ Touches(d)
  BY <1>1 DEF Begin
<1>2. ASSUME NEW c \in Calls, Submit(c)
      PROVE  Same(d) \/ Touches(d)
  BY <1>2 DEF Submit
<1>3. ASSUME NEW c \in Calls, CheckStatus(c)
      PROVE  Same(d) \/ Touches(d)
  BY <1>3 DEF CheckStatus
<1>4. ASSUME NEW c \in Calls, ListChunks(c)
      PROVE  Same(d) \/ Touches(d)
  BY <1>4 DEF ListChunks
<1>5. ASSUME NEW c \in Calls, DrainChunk(c)
      PROVE  Same(d) \/ Touches(d)
  BY <1>5 DEF DrainChunk, Printed
<1>6. ASSUME NEW c \in Calls, DrainDone(c)
      PROVE  Same(d) \/ Touches(d)
  BY <1>6 DEF DrainDone, StatusBefore
<1>7. ASSUME NEW c \in Calls, Leave(c)
      PROVE  Same(d) \/ Touches(d)
  BY <1>7 DEF Leave, Ending, Forget
<1>8. ASSUME NEW c \in Calls, Interrupt(c)
      PROVE  Same(d) \/ Touches(d)
  BY <1>8 DEF Interrupt, Forget, Active
<1>9. ASSUME NEW h \in Hosts, Poll(h)
      PROVE  Same(d) \/ Touches(d)
  BY <1>9 DEF Poll
<1>10. ASSUME NEW h \in Hosts, Claim(h)
      PROVE  Same(d) \/ Touches(d)
  BY <1>10 DEF Claim, Renames
<1>11. ASSUME NEW h \in Hosts, AgentFails(h)
      PROVE  Same(d) \/ Touches(d)
  BY <1>11 DEF AgentFails
<1>12. ASSUME NEW h \in Hosts, SeeStop(h)
      PROVE  Same(d) \/ Touches(d)
  BY <1>12 DEF SeeStop, Stops
<1>13. ASSUME NEW c \in Calls, Refuse(c)
      PROVE  Same(d) \/ Touches(d)
  BY <1>13 DEF Refuse, Message
<1>14. ASSUME NEW c \in Calls, Spawn(c)
      PROVE  Same(d) \/ Touches(d)
  BY <1>14 DEF Spawn, Sources
<1>15. ASSUME NEW c \in Calls, Fail(c)
      PROVE  Same(d) \/ Touches(d)
  BY <1>15 DEF Fail
<1>16. ASSUME NEW c \in Calls, NEW s \in Streams, Write(c, s)
      PROVE  Same(d) \/ Touches(d)
  BY <1>16 DEF Write
<1>17. ASSUME NEW c \in Calls, ChildExits(c)
      PROVE  Same(d) \/ Touches(d)
  BY <1>17 DEF ChildExits
<1>18. ASSUME NEW c \in Calls, NEW s \in Streams, Release(c, s)
      PROVE  Same(d) \/ Touches(d)
  BY <1>18 DEF Release
<1>19. ASSUME NEW c \in Calls, NEW s \in Streams, Publish(c, s)
      PROVE  Same(d) \/ Touches(d)
  BY <1>19 DEF Publish, NextNumber
<1>20. ASSUME NEW c \in Calls, NEW s \in Streams, ReaderEnds(c, s)
      PROVE  Same(d) \/ Touches(d)
  BY <1>20 DEF ReaderEnds
<1>21. ASSUME NEW c \in Calls, PumpEnds(c)
      PROVE  Same(d) \/ Touches(d)
  BY <1>21 DEF PumpEnds
<1>22. ASSUME NEW c \in Calls, Join(c)
      PROVE  Same(d) \/ Touches(d)
  BY <1>22 DEF Join, ThreadsEnded
<1>23. ASSUME NEW c \in Calls, Reply(c)
      PROVE  Same(d) \/ Touches(d)
  BY <1>23 DEF Reply
<1>24. ASSUME NEW c \in Calls, RemoveClaim(c)
      PROVE  Same(d) \/ Touches(d)
  BY <1>24 DEF RemoveClaim
<1>25. ASSUME NEW h \in Hosts, Create(h)
      PROVE  Same(d) \/ Touches(d)
  BY <1>25 DEF Create, Sweep
<1>26. ASSUME NEW h \in Hosts, Boot(h)
      PROVE  Same(d) \/ Touches(d)
  BY <1>26 DEF Boot
<1>27. ASSUME NEW h \in Hosts, Serve(h)
      PROVE  Same(d) \/ Touches(d)
  BY <1>27 DEF Serve
<1>28. ASSUME NEW h \in Hosts, Stop(h)
      PROVE  Same(d) \/ Touches(d)
  BY <1>28 DEF Stop
<1>29. ASSUME NEW h \in Hosts, CleanAfterExit(h)
      PROVE  Same(d) \/ Touches(d)
  BY <1>29 DEF CleanAfterExit, Joined, EmptySpool
<1>30. ASSUME NEW h \in Hosts, Cleaned(h)
      PROVE  Same(d) \/ Touches(d)
  BY <1>30 DEF Cleaned
<1>31. ASSUME NEW h \in Hosts, SkipCleanup(h)
      PROVE  Same(d) \/ Touches(d)
  BY <1>31 DEF SkipCleanup, Joined
<1>32. ASSUME NEW h \in Hosts, ExitProcess(h)
      PROVE  Same(d) \/ Touches(d)
  BY <1>32 DEF ExitProcess, Die, Forget, InFlight
<1>33. ASSUME NEW h \in Hosts, Crash(h)
      PROVE  Same(d) \/ Touches(d)
  BY <1>33 DEF Crash, Die, Forget, InFlight
<1>34. ASSUME NEW h \in Cleaners, RemoveResponse(h)
      PROVE  Same(d) \/ Touches(d)
  BY <1>34 DEF RemoveResponse
<1>35. ASSUME NEW h \in Cleaners, AbandonCleanup(h)
      PROVE  Same(d) \/ Touches(d)
  BY <1>35 DEF AbandonCleanup
<1>36. CASE Clean
  BY <1>36 DEF Clean, EmptySpool
<1>37. CASE UNCHANGED vars
  BY <1>37
<1> QED
  BY <1>1, <1>2, <1>3, <1>4, <1>5, <1>6, <1>7, <1>8, <1>9, <1>10, <1>11, <1>12, <1>13, <1>14, <1>15, <1>16, <1>17, <1>18, <1>19, <1>20, <1>21, <1>22, <1>23, <1>24, <1>25, <1>26, <1>27, <1>28, <1>29, <1>30, <1>31, <1>32, <1>33, <1>34, <1>35, <1>36, <1>37
  DEF Next, Client, Worker, Command, Agent, Leaving

\* A client lasts only with a session that has not begun to clean up, and then
\* nobody removes its output.
LEMMA Lasts ==
  ASSUME TypeOK, AloneOK, AloneOK', [Next]_vars,
         NEW d \in Calls, Active(d)', Undisturbed(d)', client[d] # "idle"
  PROVE  Active(d) /\ Undisturbed(d) /\ ~(\E h \in Cleaners : RemoveResponse(h))
<1> USE DEF TypeOK, HostTypes, ClientTypes, hostVars, clientVars, drainVars, vars
<1> DEFINE Goes == /\ Active(d)
                  /\ home'[d] = home[d]
                  /\ cleans <= cleans'
                  /\ \A h \in Hosts : host[h] \in {"cleaning", "ended"} => host'[h] \in {"cleaning", "ended", "off"}
<1>g. Goes
  <2> USE BoundsAssumption DEF Active, ActiveClient
  <2>1. ASSUME NEW c \in Calls, Begin(c)
        PROVE  Goes
    BY <2>1 DEF Begin
  <2>2. ASSUME NEW c \in Calls, Submit(c)
        PROVE  Goes
    BY <2>2 DEF Submit
  <2>3. ASSUME NEW c \in Calls, CheckStatus(c)
        PROVE  Goes
    BY <2>3 DEF CheckStatus
  <2>4. ASSUME NEW c \in Calls, ListChunks(c)
        PROVE  Goes
    BY <2>4 DEF ListChunks
  <2>5. ASSUME NEW c \in Calls, DrainChunk(c)
        PROVE  Goes
    BY <2>5 DEF DrainChunk, Printed
  <2>6. ASSUME NEW c \in Calls, DrainDone(c)
        PROVE  Goes
    BY <2>6 DEF DrainDone, StatusBefore
  <2>7. ASSUME NEW c \in Calls, Leave(c)
        PROVE  Goes
    BY <2>7 DEF Leave, Ending, Forget
  <2>8. ASSUME NEW c \in Calls, Interrupt(c)
        PROVE  Goes
    BY <2>8 DEF Interrupt, Forget, Active
  <2>9. ASSUME NEW h \in Hosts, Poll(h)
        PROVE  Goes
    BY <2>9 DEF Poll
  <2>10. ASSUME NEW h \in Hosts, Claim(h)
        PROVE  Goes
    BY <2>10 DEF Claim, Renames
  <2>11. ASSUME NEW h \in Hosts, AgentFails(h)
        PROVE  Goes
    BY <2>11 DEF AgentFails
  <2>12. ASSUME NEW h \in Hosts, SeeStop(h)
        PROVE  Goes
    BY <2>12 DEF SeeStop, Stops
  <2>13. ASSUME NEW c \in Calls, Refuse(c)
        PROVE  Goes
    BY <2>13 DEF Refuse, Message
  <2>14. ASSUME NEW c \in Calls, Spawn(c)
        PROVE  Goes
    BY <2>14 DEF Spawn, Sources
  <2>15. ASSUME NEW c \in Calls, Fail(c)
        PROVE  Goes
    BY <2>15 DEF Fail
  <2>16. ASSUME NEW c \in Calls, NEW s \in Streams, Write(c, s)
        PROVE  Goes
    BY <2>16 DEF Write
  <2>17. ASSUME NEW c \in Calls, ChildExits(c)
        PROVE  Goes
    BY <2>17 DEF ChildExits
  <2>18. ASSUME NEW c \in Calls, NEW s \in Streams, Release(c, s)
        PROVE  Goes
    BY <2>18 DEF Release
  <2>19. ASSUME NEW c \in Calls, NEW s \in Streams, Publish(c, s)
        PROVE  Goes
    BY <2>19 DEF Publish, NextNumber
  <2>20. ASSUME NEW c \in Calls, NEW s \in Streams, ReaderEnds(c, s)
        PROVE  Goes
    BY <2>20 DEF ReaderEnds
  <2>21. ASSUME NEW c \in Calls, PumpEnds(c)
        PROVE  Goes
    BY <2>21 DEF PumpEnds
  <2>22. ASSUME NEW c \in Calls, Join(c)
        PROVE  Goes
    BY <2>22 DEF Join, ThreadsEnded
  <2>23. ASSUME NEW c \in Calls, Reply(c)
        PROVE  Goes
    BY <2>23 DEF Reply
  <2>24. ASSUME NEW c \in Calls, RemoveClaim(c)
        PROVE  Goes
    BY <2>24 DEF RemoveClaim
  <2>25. ASSUME NEW h \in Hosts, Create(h)
        PROVE  Goes
    BY <2>25 DEF Create, Sweep
  <2>26. ASSUME NEW h \in Hosts, Boot(h)
        PROVE  Goes
    BY <2>26 DEF Boot
  <2>27. ASSUME NEW h \in Hosts, Serve(h)
        PROVE  Goes
    BY <2>27 DEF Serve
  <2>28. ASSUME NEW h \in Hosts, Stop(h)
        PROVE  Goes
    BY <2>28 DEF Stop
  <2>29. ASSUME NEW h \in Hosts, CleanAfterExit(h)
        PROVE  Goes
    BY <2>29 DEF CleanAfterExit, Joined, EmptySpool
  <2>30. ASSUME NEW h \in Hosts, Cleaned(h)
        PROVE  Goes
    BY <2>30 DEF Cleaned
  <2>31. ASSUME NEW h \in Hosts, SkipCleanup(h)
        PROVE  Goes
    BY <2>31 DEF SkipCleanup, Joined
  <2>32. ASSUME NEW h \in Hosts, ExitProcess(h)
        PROVE  Goes
    BY <2>32 DEF ExitProcess, Die, Active
  <2>33. ASSUME NEW h \in Hosts, Crash(h)
        PROVE  Goes
    BY <2>33 DEF Crash, Die, Active
  <2>34. ASSUME NEW h \in Cleaners, RemoveResponse(h)
        PROVE  Goes
    BY <2>34 DEF RemoveResponse
  <2>35. ASSUME NEW h \in Cleaners, AbandonCleanup(h)
        PROVE  Goes
    BY <2>35 DEF AbandonCleanup
  <2>36. CASE Clean
    BY <2>36 DEF Clean, EmptySpool
  <2>37. CASE UNCHANGED vars
    BY <2>37
  <2> QED
    BY <2>1, <2>2, <2>3, <2>4, <2>5, <2>6, <2>7, <2>8, <2>9, <2>10, <2>11, <2>12, <2>13, <2>14, <2>15, <2>16, <2>17, <2>18, <2>19, <2>20, <2>21, <2>22, <2>23, <2>24, <2>25, <2>26, <2>27, <2>28, <2>29, <2>30, <2>31, <2>32, <2>33, <2>34, <2>35, <2>36, <2>37
    DEF Next, Client, Worker, Command, Agent, Leaving
<1>1. /\ home[d] \in Hosts /\ HasVm(home[d])' /\ HasVm(home[d]) /\ Active(d)
  BY <1>g DEF AloneOK, HasVm
<1>2. cleans \in Nat /\ cleans' \in Nat /\ cleans' = 0
  BY TypingStep, BoundsAssumption DEF Undisturbed
<1>3. Undisturbed(d)
  BY <1>g, <1>1, <1>2 DEF Undisturbed, HasVm, Booted
<1>4. ASSUME NEW h \in Cleaners, RemoveResponse(h)
      PROVE  FALSE
  <2>1. doomed[h] # {}
    BY <1>4 DEF RemoveResponse
  <2>2. h \in Hosts
    BY <1>3, <2>1 DEF Undisturbed, AloneOK, Cleaners
  <2>3. host[h] \in {"creating", "cleaning"}
    BY <2>1, <2>2 DEF AloneOK
  <2>4. h = home[d]
    BY <1>1, <2>2, <2>3 DEF AloneOK, HasVm, Booted
  <2> QED
    BY <1>1, <1>3, <2>3, <2>4 DEF Undisturbed, HasVm, Booted
<1> QED
  BY <1>1, <1>3, <1>4

\* Only a refusal and a reader give a stream a new last chunk.
LEMMA LastStays ==
  ASSUME TypeOK, Inv, [Next]_vars, NEW d \in Calls, client[d] # "idle", NEW t \in Streams
  PROVE  Last(d, t)' = Last(d, t) \/ Refuse(d) \/ \E s \in Streams : Publish(d, s)
<1>1. CASE Still(d) \/ Killed(d)
  BY <1>1 DEF Still, Killed, Last
<1>2. CASE ChildExits(d)
  <2>1. kind[d] \notin Speechless
    BY <1>2 DEF ChildExits, Inv, Verdicts, Speechless
  <2> QED
    BY <1>2, <2>1 DEF ChildExits, Last, clientVars, drainVars
<1>3. CASE \/ Spawn(d) \/ Fail(d) \/ Join(d) \/ Reply(d) \/ RemoveClaim(d)
           \/ \E s \in Streams : Write(d, s) \/ Release(d, s) \/ ReaderEnds(d, s)
  BY <1>3 DEF Spawn, Fail, Join, Reply, RemoveClaim, Write, Release, ReaderEnds, Last,
              clientVars, drainVars, childVars, workerVars
<1>4. ASSUME NEW h \in Hosts, Claim(h)
      PROVE  Last(d, t)' = Last(d, t)
  BY <1>4 DEF Claim, Last, clientVars, drainVars, childVars
<1> QED
  BY <1>1, <1>2, <1>3, <1>4, StillStep DEF WorkerMoves, Begin

\* Undisturbed, a client prints the chunks by number and skips none.
LEMMA ExactStep ==
  ASSUME Numbered, ~Faults, TypeOK, Inv, Ordered, AloneOK, AloneOK', [Next]_vars,
         NEW d \in Calls, ExactOK(d)
  PROVE  ExactOK(d)'
<1> SUFFICES ASSUME Active(d)', Undisturbed(d)'
             PROVE  /\ \A s \in Streams :
                         /\ \A i \in DOMAIN seen'[d][s] : seen'[d][s][i] = i
                         /\ (Len(seen'[d][s]) + 1)..Last(d, s)' \subseteq chunks'[d][s]
                    /\ glob'[d] \subseteq chunks'[d][stream'[d]]
  BY DEF ExactOK
<1>a. /\ stream[d] \in Streams /\ stream'[d] \in Streams /\ glob[d] \subseteq Nat
      /\ \A s \in Streams : seen[d][s] \in Seq(Nat) /\ chunks[d][s] \subseteq Nat
  <2>1. \A s \in Streams : seen[d][s] \in Seq(Nat \ {0}) /\ chunks[d][s] \subseteq Nat \ {0}
    BY DEF TypeOK, ClientTypes, SpoolTypes
  <2>2. \A s \in Streams : seen[d][s] \in Seq(Nat)
    BY <2>1
  <2> QED
    BY <2>1, <2>2, TypingStep DEF TypeOK, ClientTypes
<1>b. \A s \in Streams : Last(d, s) \in Nat /\ (Last(d, s) < SequenceLimit \/ Last(d, s) <= 1)
  BY LastIsSmall
<1>1. CASE client[d] = "idle"
  <2>1. worker[d] = "none"
    BY <1>1 DEF Inv, Claims
  <2>2. CASE Seated(d) \/ Gone(d)
    BY <1>1, <2>2 DEF Seated, Gone, Active, ActiveClient
  <2>3. CASE Begin(d)
    <3>1. \A s \in Streams : /\ seen[d][s] = <<>> /\ glob[d] = {} /\ code[d] = NoCode /\ sequence[d][s] = 0
      BY <2>1, Silent
    <3>2. UNCHANGED <<seen, glob, code, sequence, chunks>>
      BY <2>3 DEF Begin, childVars, workerVars
    <3>3. \A s \in Streams : Last(d, s)' = 0
      BY <3>1, <3>2 DEF Last
    <3> QED
      BY <1>a, <3>1, <3>2, <3>3
  <2> QED
    BY <1>1, <2>1, <2>2, <2>3, SeatedStep
    DEF ClientMoves, Submit, CheckStatus, ListChunks, DrainChunk, DrainDone, Refuse, Publish, Inv, Threads
<1>2. CASE client[d] # "idle"
  <2>1. Active(d) /\ Undisturbed(d) /\ ~(\E h \in Cleaners : RemoveResponse(h))
    BY <1>2, Lasts
  <2>2. /\ \A s \in Streams :
             /\ \A i \in DOMAIN seen[d][s] : seen[d][s][i] = i
             /\ (Len(seen[d][s]) + 1)..Last(d, s) \subseteq chunks[d][s]
        /\ glob[d] \subseteq chunks[d][stream[d]]
    BY <2>1 DEF ExactOK
  <2>3. \A s \in Streams : StreamOK(d, s)
    BY DEF Ordered
  <2>4. GlobOK(d)
    BY DEF Ordered
  <2>5. CASE Refuse(d)
    <3>1. \A s \in Streams : /\ seen[d][s] = <<>> /\ glob[d] = {} /\ chunks[d][s] = {}
                             /\ Last(d, s) = 0 /\ code[d] = NoCode /\ sequence[d][s] = 0
      BY <2>5, Silent DEF Refuse
    <3>2. /\ UNCHANGED <<seen, glob, stream, kind>> /\ kind[d] \in Speechless /\ code'[d] # NoCode
          /\ chunks'[d]["err"] = chunks[d]["err"] \cup {1}
      BY <2>5 DEF Refuse, Message, clientVars, drainVars, Speechless, NoCode, REJECTED_EXIT_CODE,
                  TypeOK, WorkerTypes, SpoolTypes, Streams
    <3>3. Last(d, "err")' = 1 /\ Last(d, "out")' = 0
      BY <3>2 DEF Last
    <3> QED
      BY <1>a, <3>1, <3>2, <3>3 DEF Streams
  <2>6. ASSUME NEW s \in Streams, Publish(d, s)
        PROVE  /\ \A t \in Streams :
                    /\ \A i \in DOMAIN seen'[d][t] : seen'[d][t][i] = i
                    /\ (Len(seen'[d][t]) + 1)..Last(d, t)' \subseteq chunks'[d][t]
               /\ glob'[d] \subseteq chunks'[d][stream'[d]]
    <3>1. /\ UNCHANGED <<seen, glob, stream, kind, code>>
          /\ chunks'[d][s] = chunks[d][s] \cup {sequence[d][s] + 1}
          /\ sequence'[d][s] = sequence[d][s] + 1
          /\ \A t \in Streams : t # s => chunks'[d][t] = chunks[d][t] /\ sequence'[d][t] = sequence[d][t]
      BY <2>6 DEF Publish, NextNumber, clientVars, drainVars, workerVars, TypeOK, SpoolTypes, ChildTypes
    <3>2. kind[d] \notin Speechless
      BY <2>6 DEF Publish, Inv, Threads, Verdicts, Speechless
    <3>3. /\ Last(d, s)' = Last(d, s) + 1 /\ Last(d, s) = sequence[d][s]
          /\ \A t \in Streams : t # s => Last(d, t)' = Last(d, t)
      BY <3>1, <3>2 DEF Last
    <3>4. (Len(seen[d][s]) + 1)..(Last(d, s) + 1) \subseteq chunks'[d][s]
      BY <1>a, <1>b, <2>2, <3>1, <3>3
    <3> QED
      BY <1>a, <2>2, <3>1, <3>3, <3>4
  <2>7. CASE DrainChunk(d)
    <3>s. PICK s \in Streams : s = stream[d]
      BY <1>a
    <3> DEFINE n == FirstName(glob[d])
               k == Len(seen[d][s])
    <3>1. /\ glob[d] # {} /\ glob'[d] = glob[d] \ {n} /\ stream'[d] = s
          /\ UNCHANGED <<kind, code, sequence>>
          /\ \A t \in Streams : t # s => seen'[d][t] = seen[d][t] /\ chunks'[d][t] = chunks[d][t]
          /\ n \in chunks[d][s] => /\ seen'[d][s] = Append(seen[d][s], n)
                                   /\ chunks'[d][s] = chunks[d][s] \ {n}
      BY <2>7, <3>s DEF DrainChunk, Printed, TypeOK, ClientTypes, SpoolTypes, drainVars, childVars, workerVars
    <3>2. n \in glob[d] /\ \A g \in glob[d] : n <= g
      <4>1. glob[d] \subseteq 1..Last(d, s)
        BY <2>4, <3>s DEF GlobOK
      <4> QED
        BY <1>b, <3>1, <4>1, FirstIsLeast
    <3>3. n \in chunks[d][s] /\ n \in 1..Last(d, s)
      BY <2>2, <2>3, <3>s, <3>2 DEF StreamOK
    <3> HIDE DEF n
    <3>4. k \in Nat /\ k < n
      <4>1. k \in Nat /\ (k > 0 => k \in DOMAIN seen[d][s])
        BY <1>a
      <4>2. k > 0 => seen[d][s][k] = k /\ seen[d][s][k] < n
        BY <2>2, <2>3, <3>3, <4>1 DEF StreamOK
      <4> QED
        BY <3>3, <4>1, <4>2
    <3>5. n = k + 1
      <4> SUFFICES ASSUME k + 1 < n
                   PROVE  FALSE
        BY <3>3, <3>4
      <4>1. k + 1 \in chunks[d][s]
        BY <1>b, <2>2, <3>3, <3>4
      <4>2. k + 1 \notin glob[d]
        BY <3>2, <3>3, <3>4
      <4>3. n < k + 1
        BY <2>4, <3>s, <3>2, <4>1, <4>2 DEF GlobOK
      <4> QED
        BY <3>3, <3>4, <4>3
    <3>6. \A t \in Streams : Last(d, t)' = Last(d, t)
      BY <3>1 DEF Last
    <3>7. /\ Len(seen'[d][s]) = k + 1
          /\ \A i \in DOMAIN seen'[d][s] : seen'[d][s][i] = i
      <4>1. /\ DOMAIN seen'[d][s] = 1..(k + 1) /\ Len(seen'[d][s]) = k + 1
            /\ seen'[d][s][k + 1] = n /\ \A i \in 1..k : seen'[d][s][i] = seen[d][s][i]
            /\ DOMAIN seen[d][s] = 1..k
        <5>1. /\ seen[d][s] \in Seq(Nat) /\ n \in Nat
              /\ seen'[d][s] = Append(seen[d][s], n)
          BY <1>a, <3>1, <3>3
        <5> QED
          BY ONLY <5>1
      <4>2. \A i \in 1..(k + 1) : i \in 1..k \/ i = k + 1
        BY <3>4
      <4> QED
        BY <2>2, <3>5, <4>1, <4>2
    <3>8. (k + 2)..Last(d, s) \subseteq chunks'[d][s]
      BY <1>b, <2>2, <3>1, <3>3, <3>4, <3>5
    <3>9. glob'[d] \subseteq chunks'[d][s]
      BY <2>2, <3>s, <3>1, <3>3
    <3>10. \A t \in Streams :
             /\ \A i \in DOMAIN seen'[d][t] : seen'[d][t][i] = i
             /\ (Len(seen'[d][t]) + 1)..Last(d, t)' \subseteq chunks'[d][t]
      <4> SUFFICES ASSUME NEW t \in Streams
                   PROVE  /\ \A i \in DOMAIN seen'[d][t] : seen'[d][t][i] = i
                          /\ (Len(seen'[d][t]) + 1)..Last(d, t)' \subseteq chunks'[d][t]
        OBVIOUS
      <4>1. CASE t = s
        <5>1. Len(seen'[d][s]) + 1 = k + 2
          BY <3>4, <3>7
        <5> QED
          BY <3>6, <3>7, <3>8, <4>1, <5>1
      <4>2. CASE t # s
        BY <2>2, <3>1, <3>6, <4>2
      <4> QED
        BY <4>1, <4>2
    <3> QED
      BY <3>1, <3>9, <3>10
  <2>8. CASE Same(d) /\ ~Refuse(d) /\ ~(\E s \in Streams : Publish(d, s))
    <3>1. \A s \in Streams : Last(d, s)' = Last(d, s)
      BY <1>2, <2>8, LastStays
    <3>2. glob'[d] \subseteq chunks[d][stream'[d]]
      <4>1. CASE Seated(d)
        BY <2>2, <4>1 DEF Seated
      <4>2. CASE Submit(d) \/ CheckStatus(d) \/ DrainDone(d)
        <5>1. glob[d] = {} /\ UNCHANGED glob
          BY <2>4, <4>2 DEF Submit, CheckStatus, DrainDone, GlobOK
        <5> QED
          BY <5>1
      <4>3. CASE ListChunks(d)
        BY <4>3 DEF ListChunks, TypeOK, ClientTypes
      <4>4. CASE DrainChunk(d)
        BY <2>2, <4>4 DEF DrainChunk, TypeOK, ClientTypes
      <4>5. ~Begin(d) /\ ~Gone(d)
        BY <1>2 DEF Begin, Gone, Active, ActiveClient
      <4> QED
        BY <2>8, <4>1, <4>2, <4>3, <4>4, <4>5, SeatedStep DEF ClientMoves
    <3> QED
      BY <2>2, <2>8, <3>1, <3>2 DEF Same
  <2> QED
    BY <2>1, <2>5, <2>6, <2>7, <2>8, SameStep DEF Touches
<1> QED
  BY <1>1, <1>2

\* The parts together: what is printed and what is there stay whole.
LEMMA WholeStep ==
  ASSUME Numbered, OneOwner, ~Faults, TypeOK, Inv, Ordered, Whole, [Next]_vars
  PROVE  Whole'
<1>1. AloneOK'
  BY AloneStep DEF Whole
<1>2. ASSUME NEW c \in Calls
      PROVE  ThroughOK(c)' /\ FinishedOK(c)' /\ ExactOK(c)'
  BY <1>1, ThroughStep, FinishedStep, ExactStep DEF Whole
<1> QED
  BY <1>1, <1>2 DEF Whole

\* What is printed by number, none left, none to come, is all of it.
LEMMA PrintedIsAll ==
  ASSUME TypeOK, Inv, Ordered, Whole, NEW c \in Calls, client[c] = "leaving", Undisturbed(c)
  PROVE  seen[c] = Output(c)
<1>1. /\ finished[c] /\ AllOut(c) /\ \A s \in Streams : chunks[c][s] = {}
  BY DEF Whole, FinishedOK
<1>2. ASSUME NEW s \in Streams
      PROVE  seen[c][s] = [i \in 1..Last(c, s) |-> i]
  <2>1. /\ \A i \in DOMAIN seen[c][s] : seen[c][s][i] = i
        /\ (Len(seen[c][s]) + 1)..Last(c, s) \subseteq chunks[c][s]
    BY DEF Whole, ExactOK, Active, ActiveClient
  <2>2. /\ seen[c][s] \in Seq(Nat \ {0}) /\ Last(c, s) \in Nat
    BY DEF TypeOK, ClientTypes, ChildTypes, Last
  <2>3. /\ DOMAIN seen[c][s] = 1..Len(seen[c][s]) /\ Len(seen[c][s]) \in Nat
        /\ seen[c][s] = [i \in 1..Len(seen[c][s]) |-> seen[c][s][i]]
    <3>1. \A q \in Seq(Nat \ {0}) :
            /\ DOMAIN q = 1..Len(q) /\ Len(q) \in Nat
            /\ q = [i \in 1..Len(q) |-> q[i]]
      OBVIOUS
    <3> QED
      BY <2>2, <3>1, Zenon
  <2>4. Len(seen[c][s]) <= Last(c, s)
    <3>1. CASE Len(seen[c][s]) = 0
      BY <2>2, <3>1
    <3>2. CASE Len(seen[c][s]) > 0
      <4>1. Len(seen[c][s]) \in DOMAIN seen[c][s]
        BY <2>3, <3>2
      <4>2. Len(seen[c][s]) \in 1..Last(c, s)
        BY <2>1, <4>1 DEF Ordered, StreamOK
      <4> QED
        BY <2>2, <4>2
    <3> QED
      BY <2>3, <3>1, <3>2
  <2>5. Len(seen[c][s]) >= Last(c, s)
    BY <1>1, <2>1, <2>2, <2>3
  <2>6. Len(seen[c][s]) = Last(c, s)
    BY <2>2, <2>3, <2>4, <2>5
  <2> QED
    BY <2>1, <2>3, <2>6
<1>3. seen[c] = [s \in Streams |-> [i \in 1..Last(c, s) |-> i]]
  <2>1. seen[c] \in [Streams -> Seq(Nat \ {0})]
    BY DEF TypeOK, ClientTypes
  <2> QED
    BY <1>2, <2>1
<1>4. ASSUME NEW s \in Streams
      PROVE  Output(c)[s] = [i \in 1..Last(c, s) |-> i]
  <2>1. CASE kind[c] \in Speechless
    <3>1. Last(c, s) = IF s = "err" THEN 1 ELSE 0
      BY <1>1, <2>1 DEF AllOut, Last
    <3>2. Output(c)[s] = IF s = "err" THEN <<1>> ELSE <<>>
      BY <2>1 DEF Output, Speechless
    <3> QED
      BY <3>1, <3>2
  <2>2. CASE kind[c] \notin Speechless
    <3>1. Last(c, s) = written[c][s]
      BY <1>1, <2>2 DEF AllOut, Last
    <3>2. Output(c)[s] = [i \in 1..written[c][s] |-> i]
      BY <2>2 DEF Output, Speechless
    <3> QED
      BY <3>1, <3>2
  <2> QED
    BY <2>1, <2>2
<1> QED
  BY <1>3, <1>4 DEF Output

\* The output is whole, as an invariant of the specification.
LEMMA WholeHolds ==
  ASSUME Numbered, OneOwner, ~Faults
  PROVE  Spec => [](TypeOK /\ Inv /\ Ordered /\ Whole)
<1>1. Init => Whole
  <2> SUFFICES ASSUME Init
               PROVE  Whole
    OBVIOUS
  <2>1. AloneOK
    BY DEF Init, AloneOK, Active, ActiveClient, Cleaners
  <2>2. ASSUME NEW c \in Calls
        PROVE  ThroughOK(c) /\ FinishedOK(c) /\ ExactOK(c)
    BY DEF Init, ThroughOK, FinishedOK, ExactOK, Active, ActiveClient
  <2> QED
    BY <2>1, <2>2 DEF Whole
<1>2. TypeOK /\ Inv /\ Ordered /\ Whole /\ [Next]_vars => Whole'
  BY WholeStep
<1> QED
  BY <1>1, <1>2, OrderedHolds, PTL DEF Spec

(* A client about to exit with the status printed every chunk of both        *)
(* streams, with one owner at a time, a spool that can be written, and       *)
(* nobody cleaning up: the status is looked for before the drain.            *)
THEOREM AllIsPrinted == ASSUME Numbered, OneOwner, ~Faults PROVE Spec => []OutputComplete
<1>1. TypeOK /\ Inv /\ Ordered /\ Whole => OutputComplete
  BY PrintedIsAll DEF OutputComplete
<1> QED
  BY <1>1, WholeHolds, PTL

-----------------------------------------------------------------------------
(* The refinement of HostCall, call by call.                                 *)

\* Room for whatever a command may print and exit with.
AllReplies == [code : ExitCodes, output : [Streams -> Seq(Nat \ {0})]] \subseteq Replies

\* A command that ended has an exit code.
Coded == \A c \in Calls : child[c] = "exited" => code[c] # NoCode

\* A step keeps the code of a command that ended.
LEMMA CodedStep ==
  ASSUME TypeOK, Inv, Coded, [Next]_vars
  PROVE  Coded'
<1> SUFFICES ASSUME NEW d \in Calls, child'[d] = "exited"
             PROVE  code'[d] # NoCode
  BY DEF Coded
<1>1. ASSUME NEW c \in Calls, Refuse(c)
      PROVE  code'[d] # NoCode
  BY <1>1 DEF Refuse, Coded, TypeOK, WorkerTypes, NoCode, REJECTED_EXIT_CODE, childVars
<1>2. ASSUME NEW c \in Calls, ChildExits(c)
      PROVE  code'[d] # NoCode
  <2>1. \A e \in Exits : ExitCode(e) # NoCode
    BY ExitsAssumption DEF ExitCode, NoCode, SIGNAL_EXIT_BASE
  <2> QED
    BY <1>2, <2>1 DEF ChildExits, Coded, TypeOK, WorkerTypes, ChildTypes
<1> USE DEF Coded, TypeOK, ChildTypes, WorkerTypes, vars, childVars, workerVars
<1>3. ASSUME NEW c \in Calls, Begin(c)
      PROVE  code'[d] # NoCode
  BY <1>3 DEF Begin
<1>4. ASSUME NEW c \in Calls, Submit(c)
      PROVE  code'[d] # NoCode
  BY <1>4 DEF Submit
<1>5. ASSUME NEW c \in Calls, CheckStatus(c)
      PROVE  code'[d] # NoCode
  BY <1>5 DEF CheckStatus
<1>6. ASSUME NEW c \in Calls, ListChunks(c)
      PROVE  code'[d] # NoCode
  BY <1>6 DEF ListChunks
<1>7. ASSUME NEW c \in Calls, DrainChunk(c)
      PROVE  code'[d] # NoCode
  BY <1>7 DEF DrainChunk, Printed
<1>8. ASSUME NEW c \in Calls, DrainDone(c)
      PROVE  code'[d] # NoCode
  BY <1>8 DEF DrainDone, StatusBefore
<1>9. ASSUME NEW c \in Calls, Leave(c)
      PROVE  code'[d] # NoCode
  BY <1>9 DEF Leave, Ending, Forget
<1>10. ASSUME NEW c \in Calls, Interrupt(c)
      PROVE  code'[d] # NoCode
  BY <1>10 DEF Interrupt, Forget, Active
<1>11. ASSUME NEW h \in Hosts, Poll(h)
      PROVE  code'[d] # NoCode
  BY <1>11 DEF Poll
<1>12. ASSUME NEW h \in Hosts, Claim(h)
      PROVE  code'[d] # NoCode
  BY <1>12 DEF Claim, Renames
<1>13. ASSUME NEW h \in Hosts, AgentFails(h)
      PROVE  code'[d] # NoCode
  BY <1>13 DEF AgentFails
<1>14. ASSUME NEW h \in Hosts, SeeStop(h)
      PROVE  code'[d] # NoCode
  BY <1>14 DEF SeeStop, Stops
<1>15. ASSUME NEW c \in Calls, Spawn(c)
      PROVE  code'[d] # NoCode
  BY <1>15 DEF Spawn, Sources
<1>16. ASSUME NEW c \in Calls, Fail(c)
      PROVE  code'[d] # NoCode
  BY <1>16 DEF Fail
<1>17. ASSUME NEW c \in Calls, NEW s \in Streams, Write(c, s)
      PROVE  code'[d] # NoCode
  BY <1>17 DEF Write
<1>18. ASSUME NEW c \in Calls, NEW s \in Streams, Release(c, s)
      PROVE  code'[d] # NoCode
  BY <1>18 DEF Release
<1>19. ASSUME NEW c \in Calls, NEW s \in Streams, Publish(c, s)
      PROVE  code'[d] # NoCode
  BY <1>19 DEF Publish, NextNumber
<1>20. ASSUME NEW c \in Calls, NEW s \in Streams, ReaderEnds(c, s)
      PROVE  code'[d] # NoCode
  BY <1>20 DEF ReaderEnds
<1>21. ASSUME NEW c \in Calls, PumpEnds(c)
      PROVE  code'[d] # NoCode
  BY <1>21 DEF PumpEnds
<1>22. ASSUME NEW c \in Calls, Join(c)
      PROVE  code'[d] # NoCode
  BY <1>22 DEF Join, ThreadsEnded
<1>23. ASSUME NEW c \in Calls, Reply(c)
      PROVE  code'[d] # NoCode
  BY <1>23 DEF Reply
<1>24. ASSUME NEW c \in Calls, RemoveClaim(c)
      PROVE  code'[d] # NoCode
  BY <1>24 DEF RemoveClaim
<1>25. ASSUME NEW h \in Hosts, Create(h)
      PROVE  code'[d] # NoCode
  BY <1>25 DEF Create, Sweep
<1>26. ASSUME NEW h \in Hosts, Boot(h)
      PROVE  code'[d] # NoCode
  BY <1>26 DEF Boot
<1>27. ASSUME NEW h \in Hosts, Serve(h)
      PROVE  code'[d] # NoCode
  BY <1>27 DEF Serve
<1>28. ASSUME NEW h \in Hosts, Stop(h)
      PROVE  code'[d] # NoCode
  BY <1>28 DEF Stop
<1>29. ASSUME NEW h \in Hosts, CleanAfterExit(h)
      PROVE  code'[d] # NoCode
  BY <1>29 DEF CleanAfterExit, Joined, EmptySpool
<1>30. ASSUME NEW h \in Hosts, Cleaned(h)
      PROVE  code'[d] # NoCode
  BY <1>30 DEF Cleaned
<1>31. ASSUME NEW h \in Hosts, SkipCleanup(h)
      PROVE  code'[d] # NoCode
  BY <1>31 DEF SkipCleanup, Joined
<1>32. ASSUME NEW h \in Hosts, ExitProcess(h)
      PROVE  code'[d] # NoCode
  BY <1>32 DEF ExitProcess, Die, Forget, InFlight
<1>33. ASSUME NEW h \in Hosts, Crash(h)
      PROVE  code'[d] # NoCode
  BY <1>33 DEF Crash, Die, Forget, InFlight
<1>34. ASSUME NEW h \in Cleaners, RemoveResponse(h)
      PROVE  code'[d] # NoCode
  BY <1>34 DEF RemoveResponse
<1>35. ASSUME NEW h \in Cleaners, AbandonCleanup(h)
      PROVE  code'[d] # NoCode
  BY <1>35 DEF AbandonCleanup
<1>36. CASE Clean
  BY <1>36 DEF Clean, EmptySpool
<1>37. CASE UNCHANGED vars
  BY <1>37
<1> QED
  BY <1>1, <1>2, <1>3, <1>4, <1>5, <1>6, <1>7, <1>8, <1>9, <1>10, <1>11, <1>12, <1>13, <1>14, <1>15, <1>16, <1>17, <1>18, <1>19, <1>20, <1>21, <1>22, <1>23, <1>24, <1>25, <1>26, <1>27, <1>28, <1>29, <1>30, <1>31, <1>32, <1>33, <1>34, <1>35, <1>36, <1>37
  DEF Next, Client, Worker, Command, Agent, Leaving

\* What HostCall sees of a call, and what that is made of.
Alike(d) ==
  /\ client'[d] = client[d] /\ worker'[d] = worker[d] /\ code'[d] = code[d] /\ kind'[d] = kind[d]
  /\ written'[d] = written[d] /\ exit'[d] = exit[d] /\ seen'[d] = seen[d]
SameView(d) == Phase(d)' = Phase(d) /\ Result(d)' = Result(d) /\ Told(d)' = Told(d)
GetsLost(d) ==
  /\ Phase(d) # "answered" /\ Phase(d)' = "lost"
  /\ Result(d)' = NoReply /\ Told(d)' = Told(d)
Advances(d) ==
  \/ Submit(d) /\ d \in drafts
  \/ Leave(d) /\ status[d] # NoCode
  \/ Refuse(d) \/ Join(d)
  \/ \E h \in Hosts : Claim(h) /\ target[h] = d /\ d \in requests

Under == {"checking", "listing", "draining", "leaving"}

\* What is alike is the same to HostCall.
LEMMA AlikeViews ==
  ASSUME NEW d \in Calls, Alike(d)
  PROVE  SameView(d)
<1>1. Concluded(d)' = Concluded(d) /\ Output(d)' = Output(d)
  BY DEF Alike, Concluded, Output
<1>2. Phase(d)' = Phase(d)
  BY <1>1 DEF Alike, Phase
<1> QED
  BY <1>1, <1>2 DEF Alike, SameView, Result, Told

\* A call that was not answered, and is not.
LEMMA Unanswered ==
  ASSUME NEW d \in Calls, Phase(d) \in {"idle", "asked", "taken", "lost"},
         Phase(d)' = Phase(d) \/ Phase(d)' = "lost"
  PROVE  SameView(d) \/ GetsLost(d)
BY DEF SameView, GetsLost, Result, Told

\* Only a client that leaves has a new exit status.
LEMMA ExitStep ==
  ASSUME TypeOK, [Next]_vars, NEW d \in Calls
  PROVE  exit'[d] = exit[d] \/ Leave(d)
<1> USE DEF TypeOK, ClientTypes, vars, clientVars, drainVars
<1>1. ASSUME NEW c \in Calls, Begin(c)
      PROVE  exit'[d] = exit[d] \/ Leave(d)
  BY <1>1 DEF Begin
<1>2. ASSUME NEW c \in Calls, Submit(c)
      PROVE  exit'[d] = exit[d] \/ Leave(d)
  BY <1>2 DEF Submit
<1>3. ASSUME NEW c \in Calls, CheckStatus(c)
      PROVE  exit'[d] = exit[d] \/ Leave(d)
  BY <1>3 DEF CheckStatus
<1>4. ASSUME NEW c \in Calls, ListChunks(c)
      PROVE  exit'[d] = exit[d] \/ Leave(d)
  BY <1>4 DEF ListChunks
<1>5. ASSUME NEW c \in Calls, DrainChunk(c)
      PROVE  exit'[d] = exit[d] \/ Leave(d)
  BY <1>5 DEF DrainChunk, Printed
<1>6. ASSUME NEW c \in Calls, DrainDone(c)
      PROVE  exit'[d] = exit[d] \/ Leave(d)
  BY <1>6 DEF DrainDone, StatusBefore
<1>7. ASSUME NEW c \in Calls, Leave(c)
      PROVE  exit'[d] = exit[d] \/ Leave(d)
  BY <1>7 DEF Leave, Ending, Forget
<1>8. ASSUME NEW c \in Calls, Interrupt(c)
      PROVE  exit'[d] = exit[d] \/ Leave(d)
  BY <1>8 DEF Interrupt, Forget, Active
<1>9. ASSUME NEW h \in Hosts, Poll(h)
      PROVE  exit'[d] = exit[d] \/ Leave(d)
  BY <1>9 DEF Poll
<1>10. ASSUME NEW h \in Hosts, Claim(h)
      PROVE  exit'[d] = exit[d] \/ Leave(d)
  BY <1>10 DEF Claim, Renames
<1>11. ASSUME NEW h \in Hosts, AgentFails(h)
      PROVE  exit'[d] = exit[d] \/ Leave(d)
  BY <1>11 DEF AgentFails
<1>12. ASSUME NEW h \in Hosts, SeeStop(h)
      PROVE  exit'[d] = exit[d] \/ Leave(d)
  BY <1>12 DEF SeeStop, Stops
<1>13. ASSUME NEW c \in Calls, Refuse(c)
      PROVE  exit'[d] = exit[d] \/ Leave(d)
  BY <1>13 DEF Refuse, Message
<1>14. ASSUME NEW c \in Calls, Spawn(c)
      PROVE  exit'[d] = exit[d] \/ Leave(d)
  BY <1>14 DEF Spawn, Sources
<1>15. ASSUME NEW c \in Calls, Fail(c)
      PROVE  exit'[d] = exit[d] \/ Leave(d)
  BY <1>15 DEF Fail
<1>16. ASSUME NEW c \in Calls, NEW s \in Streams, Write(c, s)
      PROVE  exit'[d] = exit[d] \/ Leave(d)
  BY <1>16 DEF Write
<1>17. ASSUME NEW c \in Calls, ChildExits(c)
      PROVE  exit'[d] = exit[d] \/ Leave(d)
  BY <1>17 DEF ChildExits
<1>18. ASSUME NEW c \in Calls, NEW s \in Streams, Release(c, s)
      PROVE  exit'[d] = exit[d] \/ Leave(d)
  BY <1>18 DEF Release
<1>19. ASSUME NEW c \in Calls, NEW s \in Streams, Publish(c, s)
      PROVE  exit'[d] = exit[d] \/ Leave(d)
  BY <1>19 DEF Publish, NextNumber
<1>20. ASSUME NEW c \in Calls, NEW s \in Streams, ReaderEnds(c, s)
      PROVE  exit'[d] = exit[d] \/ Leave(d)
  BY <1>20 DEF ReaderEnds
<1>21. ASSUME NEW c \in Calls, PumpEnds(c)
      PROVE  exit'[d] = exit[d] \/ Leave(d)
  BY <1>21 DEF PumpEnds
<1>22. ASSUME NEW c \in Calls, Join(c)
      PROVE  exit'[d] = exit[d] \/ Leave(d)
  BY <1>22 DEF Join, ThreadsEnded
<1>23. ASSUME NEW c \in Calls, Reply(c)
      PROVE  exit'[d] = exit[d] \/ Leave(d)
  BY <1>23 DEF Reply
<1>24. ASSUME NEW c \in Calls, RemoveClaim(c)
      PROVE  exit'[d] = exit[d] \/ Leave(d)
  BY <1>24 DEF RemoveClaim
<1>25. ASSUME NEW h \in Hosts, Create(h)
      PROVE  exit'[d] = exit[d] \/ Leave(d)
  BY <1>25 DEF Create, Sweep
<1>26. ASSUME NEW h \in Hosts, Boot(h)
      PROVE  exit'[d] = exit[d] \/ Leave(d)
  BY <1>26 DEF Boot
<1>27. ASSUME NEW h \in Hosts, Serve(h)
      PROVE  exit'[d] = exit[d] \/ Leave(d)
  BY <1>27 DEF Serve
<1>28. ASSUME NEW h \in Hosts, Stop(h)
      PROVE  exit'[d] = exit[d] \/ Leave(d)
  BY <1>28 DEF Stop
<1>29. ASSUME NEW h \in Hosts, CleanAfterExit(h)
      PROVE  exit'[d] = exit[d] \/ Leave(d)
  BY <1>29 DEF CleanAfterExit, Joined, EmptySpool
<1>30. ASSUME NEW h \in Hosts, Cleaned(h)
      PROVE  exit'[d] = exit[d] \/ Leave(d)
  BY <1>30 DEF Cleaned
<1>31. ASSUME NEW h \in Hosts, SkipCleanup(h)
      PROVE  exit'[d] = exit[d] \/ Leave(d)
  BY <1>31 DEF SkipCleanup, Joined
<1>32. ASSUME NEW h \in Hosts, ExitProcess(h)
      PROVE  exit'[d] = exit[d] \/ Leave(d)
  BY <1>32 DEF ExitProcess, Die, Forget, InFlight
<1>33. ASSUME NEW h \in Hosts, Crash(h)
      PROVE  exit'[d] = exit[d] \/ Leave(d)
  BY <1>33 DEF Crash, Die, Forget, InFlight
<1>34. ASSUME NEW h \in Cleaners, RemoveResponse(h)
      PROVE  exit'[d] = exit[d] \/ Leave(d)
  BY <1>34 DEF RemoveResponse
<1>35. ASSUME NEW h \in Cleaners, AbandonCleanup(h)
      PROVE  exit'[d] = exit[d] \/ Leave(d)
  BY <1>35 DEF AbandonCleanup
<1>36. CASE Clean
  BY <1>36 DEF Clean, EmptySpool
<1>37. CASE UNCHANGED vars
  BY <1>37
<1> QED
  BY <1>1, <1>2, <1>3, <1>4, <1>5, <1>6, <1>7, <1>8, <1>9, <1>10, <1>11, <1>12, <1>13, <1>14, <1>15, <1>16, <1>17, <1>18, <1>19, <1>20, <1>21, <1>22, <1>23, <1>24, <1>25, <1>26, <1>27, <1>28, <1>29, <1>30, <1>31, <1>32, <1>33, <1>34, <1>35, <1>36, <1>37
  DEF Next, Client, Worker, Command, Agent, Leaving

\* An answered call is over.
LEMMA AnsweredStays ==
  ASSUME TypeOK, Inv, [Next]_vars, NEW d \in Calls, client[d] = "returned"
  PROVE  SameView(d)
<1>1. worker[d] \in {"removing", "done"} /\ readers[d] = {}
  BY DEF Inv, Threads, Verdicts
<1>2. kind'[d] = kind[d] /\ code'[d] = code[d] /\ written'[d] = written[d]
  BY <1>1, Concluding
<1>3. client'[d] = "returned"
  BY <1>1, SeatedStep
  DEF Seated, ClientMoves, Begin, Submit, CheckStatus, ListChunks, DrainChunk, DrainDone, Gone, Active,
      ActiveClient, Refuse, Publish
<1>4. exit'[d] = exit[d]
  BY ExitStep DEF Leave
<1>5. seen'[d] = seen[d]
  BY <1>1, SameStep DEF Same, Touches, DrainChunk, Refuse, Publish, RemoveResponse, clientVars
<1> QED
  BY <1>2, <1>3, <1>4, <1>5 DEF SameView, Phase, Result, Told, Output

\* A call that was not submitted or is over is nobody's to carry out.
LEMMA OutsideStays ==
  ASSUME TypeOK, Inv, [Next]_vars, NEW d \in Calls,
         client[d] \in {"idle", "drafted", "failed", "gone"}
  PROVE  SameView(d) \/ GetsLost(d) \/ Advances(d)
<1>1. Phase(d) \in {"idle", "lost"} /\ (client[d] \in {"failed", "gone"} => Phase(d) = "lost")
  BY DEF Phase
<1>2. client[d] \in {"idle", "drafted"} => worker[d] = "none"
  BY DEF Inv, Claims
<1>3. worker[d] = "none" => readers[d] = {}
  BY DEF Inv, Threads
<1>4. CASE client'[d] = client[d] \/ client'[d] \in {"failed", "gone"}
  <2>1. Phase(d)' = Phase(d) \/ Phase(d)' = "lost"
    BY <1>4 DEF Phase
  <2> QED
    BY <1>1, <2>1, Unanswered
<1>5. CASE Begin(d)
  <2>1. client[d] = "idle" /\ client'[d] = "drafted"
    BY <1>5 DEF Begin, TypeOK, ClientTypes
  <2>2. Phase(d)' = Phase(d)
    BY <2>1 DEF Phase
  <2> QED
    BY <1>1, <2>2, Unanswered
<1>6. CASE Submit(d)
  <2>1. CASE d \in drafts
    BY <1>6, <2>1 DEF Advances
  <2>2. CASE d \notin drafts
    BY <1>4, <1>6, <2>2 DEF Submit, TypeOK, ClientTypes
  <2> QED
    BY <2>1, <2>2
<1>7. CASE Seated(d)
  BY <1>4, <1>7 DEF Seated
<1>8. CASE Gone(d)
  BY <1>4, <1>8 DEF Gone, Leave
<1>9. CASE Refuse(d) \/ \E s \in Streams : Publish(d, s)
  BY <1>4, <1>9 DEF Refuse, Publish, clientVars
<1> QED
  BY <1>4, <1>5, <1>6, <1>7, <1>8, <1>9, SeatedStep
  DEF ClientMoves, CheckStatus, ListChunks, DrainChunk, DrainDone

\* While the script polls, the phase is the worker's.
LEMMA WorkersPhase ==
  ASSUME NEW d \in Calls, client[d] \in Under
  PROVE  Phase(d) = IF Concluded(d) THEN "finished" ELSE IF worker[d] = "none" THEN "asked" ELSE "taken"
BY DEF Under, Phase

\* The same after a step.
LEMMA WorkersPhaseNext ==
  ASSUME NEW d \in Calls, client'[d] \in Under
  PROVE  Phase(d)' = IF Concluded(d)' THEN "finished" ELSE IF worker'[d] = "none" THEN "asked" ELSE "taken"
BY DEF Under, Phase

\* A client that goes on waiting sees nothing, or its worker get on.
LEMMA UnderStays ==
  ASSUME ~Faults, TypeOK, Inv, Ordered, Coded, AloneOK, [Next]_vars, NEW d \in Calls,
         client[d] \in Under, client'[d] \in Under
  PROVE  SameView(d) \/ Advances(d)
<1>a. /\ client[d] # "returned" /\ client'[d] # "returned" /\ client[d] # "idle" /\ Active(d)
  BY DEF Under, Active, ActiveClient
<1>b. Told(d) = NoReply /\ Told(d)' = NoReply
  BY WorkersPhase, WorkersPhaseNext DEF Told
<1>1. ASSUME worker'[d] = worker[d], code'[d] = code[d], kind'[d] = kind[d], written'[d] = written[d]
      PROVE  SameView(d)
  <2>1. Concluded(d)' = Concluded(d) /\ Output(d)' = Output(d)
    BY <1>1 DEF Concluded, Output
  <2>2. Phase(d)' = Phase(d)
    BY <1>1, <2>1, WorkersPhase, WorkersPhaseNext
  <2> QED
    BY <1>1, <1>b, <2>1, <2>2 DEF SameView, Result
<1>2. ASSUME Phase(d) = "taken", Phase(d)' = "taken"
      PROVE  SameView(d)
  BY <1>b, <1>2 DEF SameView, Result
<1>3. CASE Still(d)
  BY <1>1, <1>3 DEF Still
<1>4. CASE Killed(d)
  <2>1. PICK h \in Hosts : host[h] # "off" /\ Die(h)
    BY <1>4 DEF Killed
  <2>2. h = home[d]
    BY <1>a, <2>1 DEF AloneOK, HasVm, Booted
  <2>3. client'[d] = "gone"
    BY <1>a, <2>1, <2>2 DEF Die
  <2> QED
    BY <2>3 DEF Under
<1>5. CASE Spawn(d)
  <2>1. worker[d] = "claimed" /\ worker'[d] = "running"
    BY <1>5 DEF Spawn, TypeOK, WorkerTypes
  <2> QED
    BY <1>2, <2>1, WorkersPhase, WorkersPhaseNext DEF Concluded
<1>6. CASE Fail(d)
  <2>1. worker[d] = "claimed" /\ worker'[d] = "done" /\ UNCHANGED code
    BY <1>6 DEF Fail, TypeOK, WorkerTypes
  <2>2. code[d] = NoCode
    BY <2>1 DEF Ordered, FreshOK
  <2> QED
    BY <1>2, <2>1, <2>2, WorkersPhase, WorkersPhaseNext DEF Concluded
<1>7. CASE ChildExits(d) \/ \E s \in Streams : Write(d, s) \/ Release(d, s)
  <2>1. worker[d] = "running" /\ UNCHANGED worker
    BY <1>7 DEF ChildExits, Write, Release, workerVars
  <2> QED
    BY <1>2, <2>1, WorkersPhase, WorkersPhaseNext DEF Concluded
<1>8. CASE \E s \in Streams : Publish(d, s) \/ ReaderEnds(d, s)
  BY <1>1, <1>8 DEF Publish, ReaderEnds, clientVars, drainVars, workerVars
<1>9. CASE Reply(d) \/ RemoveClaim(d)
  <2>1. /\ worker[d] \in {"replying", "removing"} /\ worker'[d] \in {"removing", "done"}
        /\ UNCHANGED <<code, kind, written>>
    BY <1>9 DEF Reply, RemoveClaim, TypeOK, WorkerTypes, clientVars, drainVars, childVars
  <2>2. code[d] # NoCode
    BY <2>1 DEF Inv, Verdicts, Outcome, Coded, NoCode, REJECTED_EXIT_CODE
  <2>3. Concluded(d) /\ Concluded(d)' /\ Output(d)' = Output(d)
    BY <2>1, <2>2 DEF Concluded, Output
  <2>4. Phase(d) = "finished" /\ Phase(d)' = "finished"
    BY <2>3, WorkersPhase, WorkersPhaseNext
  <2> QED
    BY <1>b, <2>1, <2>3, <2>4 DEF SameView, Result
<1> QED
  BY <1>a, <1>3, <1>4, <1>5, <1>6, <1>7, <1>8, <1>9, StillStep DEF WorkerMoves, Advances, Begin

\* What a step can be to a call: nothing, its loss, or the next phase.
LEMMA ViewStep ==
  ASSUME ~Faults, TypeOK, Inv, Ordered, Coded, AloneOK, [Next]_vars, NEW d \in Calls
  PROVE  SameView(d) \/ GetsLost(d) \/ Advances(d)
<1>1. client[d] \in {"idle", "drafted", "failed", "gone", "returned"} \cup Under
  BY DEF TypeOK, ClientTypes, ClientStates, ActiveClient, Under
<1>2. CASE client[d] \in Under
  <2>1. client'[d] \in Under \/ Gone(d)
    BY <1>2, SeatedStep
    DEF Seated, ClientMoves, Begin, Submit, CheckStatus, ListChunks, DrainChunk, DrainDone, StatusBefore, Refuse, Publish,
        clientVars, Under, TypeOK, ClientTypes
  <2>2. CASE Gone(d)
    <3>1. CASE client'[d] \in {"failed", "gone"}
      <4>1. Phase(d) # "answered" /\ Phase(d)' = "lost"
        BY <1>2, <3>1 DEF Phase, Under
      <4> QED
        BY <4>1 DEF GetsLost, Result, Told
    <3>2. CASE client'[d] \notin {"failed", "gone"}
      <4>1. Leave(d) /\ status[d] # NoCode
        BY <2>2, <3>2 DEF Gone, Leave, Ending, TypeOK, ClientTypes
      <4> QED
        BY <4>1 DEF Advances
    <3> QED
      BY <3>1, <3>2
  <2> QED
    BY <1>2, <2>1, <2>2, UnderStays
<1> QED
  BY <1>1, <1>2, OutsideStays, AnsweredStays

\* The step of HostCall that an advance is.
Asked(d) == Phase(d) = "idle" /\ Phase(d)' = "asked" /\ Result(d)' = Result(d) /\ Told(d)' = Told(d)
Taken(d) == Phase(d) = "asked" /\ Phase(d)' = "taken" /\ Result(d)' = Result(d) /\ Told(d)' = Told(d)
Finished(d) ==
  /\ Phase(d) = "taken" /\ Phase(d)' = "finished"
  /\ Result(d)' \in Replies /\ Told(d)' = Told(d)
Answered(d) ==
  /\ Phase(d) = "finished" /\ Phase(d)' = "answered" /\ Result(d)' = Result(d)
  /\ Told(d)' \in Replies /\ (Undisturbed(d) => Told(d)' = Result(d))

\* The output of a command is a sequence of chunk numbers on each stream.
LEMMA OutputTyped ==
  ASSUME TypeOK, NEW d \in Calls
  PROVE  Output(d) \in [Streams -> Seq(Nat \ {0})]
<1>1. \A n \in Nat : [i \in 1..n |-> i] \in Seq(Nat \ {0})
  OBVIOUS
<1>2. \A s \in Streams : written[d][s] \in Nat
  BY DEF TypeOK, ChildTypes
<1>3. <<1>> \in Seq(Nat \ {0}) /\ <<>> \in Seq(Nat \ {0})
  OBVIOUS
<1> QED
  BY <1>1, <1>2, <1>3 DEF Output

\* An advance takes its call one phase on, and leaves the others alone.
LEMMA AdvanceStep ==
  ASSUME AllReplies, TypeOK, Inv, Ordered, Whole, Coded, [Next]_vars, NEW d \in Calls, Advances(d)
  PROVE  /\ \A e \in Calls : e # d => SameView(e)
         /\ \A e \in Calls : Undisturbed(e)' = Undisturbed(e)
         /\ SameView(d) \/ GetsLost(d) \/ Asked(d) \/ Taken(d) \/ Finished(d) \/ Answered(d)
<1> USE DEF TypeOK, ClientTypes, WorkerTypes
<1>1. CASE Submit(d) /\ d \in drafts
  <2>1. /\ \A e \in Calls : e # d => Alike(e)
        /\ UNCHANGED <<worker, host, home, cleans>>
    BY <1>1 DEF Submit, Alike, drainVars, hostVars, childVars, workerVars
  <2>2. client[d] = "drafted" /\ client'[d] = "checking" /\ worker[d] = "none"
    BY <1>1 DEF Submit, Inv, Claims
  <2>3. Asked(d)
    BY <2>1, <2>2 DEF Asked, Phase, Result, Told, Concluded
  <2> QED
    BY <2>1, <2>3, AlikeViews DEF Undisturbed
<1>2. CASE Leave(d) /\ status[d] # NoCode
  <2>1. /\ \A e \in Calls : e # d => Alike(e)
        /\ UNCHANGED <<worker, code, kind, written, seen, host, home, cleans>>
    BY <1>2 DEF Leave, Alike, hostVars, childVars, workerVars
  <2>2. client[d] = "leaving" /\ client'[d] = "returned" /\ exit'[d] = status[d]
    BY <1>2 DEF Leave, Ending
  <2>3. worker[d] \in {"removing", "done"} /\ status[d] = code[d]
    BY <1>2 DEF Inv, Threads, Verdicts
  <2>4. Phase(d) = "finished" /\ Phase(d)' = "answered"
    BY <1>2, <2>2, <2>3 DEF Phase, Concluded
  <2>5. Result(d) = [code |-> code[d], output |-> Output(d)] /\ Result(d)' = Result(d)
    BY <2>1, <2>4 DEF Result, Output
  <2>6. Told(d)' = [code |-> code[d], output |-> seen[d]]
    BY <2>1, <2>2, <2>3, <2>4 DEF Told
  <2>7. Undisturbed(d) => seen[d] = Output(d)
    BY <2>2, PrintedIsAll
  <2>8. Told(d)' \in Replies
    <3>1. code[d] \in ExitCodes /\ seen[d] \in [Streams -> Seq(Nat \ {0})]
      BY <1>2, <2>3 DEF Codes
    <3> QED
      BY <2>6, <3>1 DEF AllReplies
  <2>9. Answered(d)
    BY <2>4, <2>5, <2>6, <2>7, <2>8 DEF Answered
  <2> QED
    BY <2>1, <2>9, AlikeViews DEF Undisturbed
<1>3. CASE Refuse(d) \/ Join(d)
  <2>1. /\ \A e \in Calls : e # d => Alike(e)
        /\ UNCHANGED <<client, kind, written, exit, seen, host, home, cleans>>
    BY <1>3 DEF Refuse, Join, Alike, spoolVars, clientVars, drainVars, hostVars, childVars
  <2>2. /\ worker[d] \in {"claimed", "running"} /\ worker'[d] = "replying"
        /\ code'[d] \in ExitCodes
    <3>1. CASE Refuse(d)
      BY <3>1 DEF Refuse, ExitCodes
    <3>2. CASE Join(d)
      <4>1. child[d] = "exited" /\ UNCHANGED code /\ worker[d] = "running" /\ worker'[d] = "replying"
        BY <3>2 DEF Join
      <4> QED
        BY <4>1 DEF Coded, Codes
    <3> QED
      BY <1>3, <3>1, <3>2
  <2>3. Result(d)' = NoReply \/ Result(d)' \in Replies
    <3>1. Output(d)' \in [Streams -> Seq(Nat \ {0})]
      BY <2>1, OutputTyped DEF Output
    <3> QED
      BY <2>2, <3>1 DEF Result, AllReplies
  <2>4. CASE client[d] \in Under
    <3>1. Phase(d) = "taken" /\ Phase(d)' = "finished"
      BY <2>1, <2>2, <2>4, WorkersPhase, WorkersPhaseNext DEF Concluded
    <3>2. Result(d)' \in Replies
      <4>1. Output(d)' \in [Streams -> Seq(Nat \ {0})]
        BY <2>1, OutputTyped DEF Output
      <4> QED
        BY <2>2, <3>1, <4>1 DEF Result, AllReplies
    <3>3. Finished(d)
      BY <3>1, <3>2 DEF Finished, Told
    <3> QED
      BY <2>1, <3>3, AlikeViews DEF Undisturbed
  <2>5. CASE client[d] \notin Under
    <3>1. client[d] \in {"idle", "drafted", "failed", "gone"}
      BY <2>2, <2>5 DEF ClientStates, ActiveClient, Under, Inv, Verdicts
    <3>2. Phase(d)' = Phase(d) /\ Phase(d) \in {"idle", "lost"}
      BY <2>1, <3>1 DEF Phase
    <3>3. SameView(d)
      BY <3>2 DEF SameView, Result, Told
    <3> QED
      BY <2>1, <3>3, AlikeViews DEF Undisturbed
  <2> QED
    BY <2>4, <2>5
<1>4. ASSUME NEW h \in Hosts, Claim(h), target[h] = d, d \in requests
      PROVE  /\ \A e \in Calls : e # d => SameView(e)
             /\ \A e \in Calls : Undisturbed(e)' = Undisturbed(e)
             /\ SameView(d) \/ GetsLost(d) \/ Asked(d) \/ Taken(d) \/ Finished(d) \/ Answered(d)
  <2>1. /\ \A e \in Calls : e # d => Alike(e)
        /\ UNCHANGED <<client, code, kind, written, exit, seen, home, cleans>>
    BY <1>4 DEF Claim, Renames, Alike, clientVars, drainVars, childVars
  <2>2. worker[d] = "none" /\ worker'[d] = "claimed"
    BY <1>4 DEF Claim, Renames, Inv, Claims
  <2>3. \A e \in Calls : Undisturbed(e)' = Undisturbed(e)
    <3>1. \A g \in Hosts : (host'[g] \in {"cleaning", "ended"}) = (host[g] \in {"cleaning", "ended"})
      BY <1>4 DEF Claim, HostTypes
    <3> QED
      BY <2>1, <3>1 DEF Undisturbed
  <2>4. CASE client[d] \in Under
    <3>1. Phase(d) = "asked" /\ Phase(d)' = "taken"
      BY <2>1, <2>2, <2>4, WorkersPhase, WorkersPhaseNext DEF Concluded
    <3>2. Taken(d)
      BY <3>1 DEF Taken, Result, Told
    <3> QED
      BY <2>1, <2>3, <3>2, AlikeViews
  <2>5. CASE client[d] \notin Under
    <3>1. client[d] \in {"idle", "drafted", "failed", "gone"}
      BY <2>2, <2>5 DEF ClientStates, ActiveClient, Under, Inv, Verdicts
    <3>2. Phase(d)' = Phase(d) /\ Phase(d) \in {"idle", "lost"}
      BY <2>1, <3>1 DEF Phase
    <3>3. SameView(d)
      BY <3>2 DEF SameView, Result, Told
    <3> QED
      BY <2>1, <2>3, <3>3, AlikeViews
  <2> QED
    BY <2>4, <2>5
<1> QED
  BY <1>1, <1>2, <1>3, <1>4 DEF Advances

\* Every step is a step of HostCall, or none.
LEMMA CallStep ==
  ASSUME AllReplies, ~Faults, TypeOK, Inv, Ordered, Whole, Coded, [Next]_vars
  PROVE  [Call!Next]_Call!vars
<1> DEFINE phase == [c \in Calls |-> Phase(c)]
           result == [c \in Calls |-> Result(c)]
           reply == [c \in Calls |-> Told(c)]
           lasting == {c \in Calls : Undisturbed(c)}
<1>1. ASSUME \A d \in Calls : SameView(d) \/ GetsLost(d)
      PROVE  Call!Lose
  <2> DEFINE lost == {c \in Calls : ~SameView(c)}
  <2>1. lost \in SUBSET {c \in Calls : phase[c] # "answered"}
    BY <1>1 DEF GetsLost
  <2>2. phase' = [c \in Calls |-> IF c \in lost THEN "lost" ELSE phase[c]]
    BY <1>1 DEF GetsLost, SameView
  <2>3. result' = [c \in Calls |-> IF c \in lost THEN NoReply ELSE result[c]]
    BY <1>1 DEF GetsLost, SameView
  <2>4. reply' = reply
    BY <1>1 DEF GetsLost, SameView
  <2>5. lasting' \in SUBSET Calls
    OBVIOUS
  <2> HIDE DEF phase, result, reply, lasting, lost
  <2> QED
    BY <2>1, <2>2, <2>3, <2>4, <2>5 DEF Call!Lose, phase, result, reply, lasting
<1>2. ASSUME NEW d \in Calls, Advances(d), ~(SameView(d) \/ GetsLost(d))
      PROVE  Call!Next
  <2>1. /\ \A e \in Calls : e # d => SameView(e)
        /\ \A e \in Calls : Undisturbed(e)' = Undisturbed(e)
        /\ Asked(d) \/ Taken(d) \/ Finished(d) \/ Answered(d)
    BY <1>2, AdvanceStep
  <2>2. lasting' = lasting
    BY <2>1
  <2>3. phase' = [phase EXCEPT ![d] = Phase(d)']
    BY <2>1 DEF SameView
  <2>4. result' = [result EXCEPT ![d] = Result(d)']
    BY <2>1 DEF SameView
  <2>5. reply' = [reply EXCEPT ![d] = Told(d)']
    BY <2>1 DEF SameView
  <2>6. Result(d)' = Result(d) => result' = result
    BY <2>1 DEF SameView
  <2>7. Told(d)' = Told(d) => reply' = reply
    BY <2>1 DEF SameView
  <2>8. phase[d] = Phase(d) /\ result[d] = Result(d) /\ (d \in lasting <=> Undisturbed(d))
    OBVIOUS
  <2> HIDE DEF phase, result, reply, lasting
  <2>9. CASE Asked(d)
    <3>1. Call!Ask(d)
      BY <2>2, <2>3, <2>6, <2>7, <2>8, <2>9 DEF Call!Ask, Call!Advance, Asked, phase, result, reply, lasting
    <3> QED
      BY <3>1 DEF Call!Next
  <2>10. CASE Taken(d)
    <3>1. Call!Take(d)
      BY <2>2, <2>3, <2>6, <2>7, <2>8, <2>10 DEF Call!Take, Call!Advance, Taken, phase, result, reply, lasting
    <3> QED
      BY <3>1 DEF Call!Next
  <2>11. CASE Finished(d)
    <3>1. Call!Finish(d)
      BY <2>2, <2>3, <2>4, <2>7, <2>8, <2>11 DEF Call!Finish, Call!Advance, Finished, phase, result, reply, lasting
    <3> QED
      BY <3>1 DEF Call!Next
  <2>12. CASE Answered(d)
    <3>1. Call!Answer(d)
      BY <2>2, <2>3, <2>5, <2>6, <2>8, <2>12 DEF Call!Answer, Call!Advance, Answered, phase, result, reply, lasting
    <3> QED
      BY <3>1 DEF Call!Next
  <2> QED
    BY <2>1, <2>9, <2>10, <2>11, <2>12
<1>3. CASE \A d \in Calls : SameView(d) \/ GetsLost(d)
  BY <1>1, <1>3 DEF Call!Next
<1>4. CASE \E d \in Calls : ~(SameView(d) \/ GetsLost(d))
  BY <1>2, <1>4, ViewStep DEF Whole
<1> QED
  BY <1>3, <1>4

(* With one owner at a time and a spool that can be written, the channel     *)
(* implements HostCall: each call is carried out at most once, and a caller  *)
(* that is answered while its session lasts gets code and output whole.      *)
THEOREM SpoolImplementsCall ==
  ASSUME Numbered, OneOwner, ~Faults, AllReplies
  PROVE  Spec => ImplementsHostCall
<1>1. Init => Call!Init
  <2> SUFFICES ASSUME Init
               PROVE  Call!Init
    OBVIOUS
  <2>1. ASSUME NEW c \in Calls
        PROVE  Phase(c) = "idle" /\ Result(c) = NoReply /\ Told(c) = NoReply /\ Undisturbed(c)
    BY HostsAssumption DEF Init, Phase, Result, Told, Undisturbed
  <2> QED
    BY <2>1 DEF Call!Init
<1>2. Init => Coded
  BY DEF Init, Coded
<1>3. TypeOK /\ Inv /\ Coded /\ [Next]_vars => Coded'
  BY CodedStep
<1>4. TypeOK /\ Inv /\ Ordered /\ Whole /\ Coded /\ [Next]_vars => [Call!Next]_Call!vars
  BY CallStep
<1> QED
  BY <1>1, <1>2, <1>3, <1>4, WholeHolds, PTL DEF Spec, ImplementsHostCall, Call!Spec

=============================================================================
