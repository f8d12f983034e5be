--------------------------- MODULE HostSpoolProofs ---------------------------
(***************************************************************************)
(* Proofs about HostSpool.                                                 *)
(***************************************************************************)
EXTENDS HostSpool, TLAPS, FiniteSetTheorems, WellFoundedInduction

-----------------------------------------------------------------------------
(* The agent's choice of a request is a request: every nonempty set of names *)
(* has a first one.                                                          *)
LEMMA OldestIsOne ==
  ASSUME NEW S \in SUBSET Calls, S # {}
  PROVE  Oldest(S) \in S
<1>1. S \subseteq Nat
  BY CallsAssumption
<1>2. PICK c \in S : \A d \in S : <<d, c>> \notin OpToRel(<, Nat)
  BY <1>1, NatLessThanWellFounded, WFMin
<1>3. ASSUME NEW d \in S
      PROVE  c <= d
  <2>1. <<d, c>> \notin OpToRel(<, Nat)
    BY <1>2
  <2>2. ~(d < c)
    BY <1>1, <2>1 DEF OpToRel
  <2> QED
    BY <1>1, <2>2
<1> QED
  BY <1>3 DEF Oldest

-----------------------------------------------------------------------------
(* Type correctness: the state stays well formed through every step of every *)
(* actor, whatever the sizes of the instance.                                *)

LEMMA ResponseFilesTyped ==
  ASSUME SpoolTypes
  PROVE  ResponseFiles \subseteq [call : Calls, name : Streams \cup {"status"}, number : Nat]
<1>1. ASSUME NEW c \in Calls, NEW s \in Streams, NEW n \in chunks[c][s]
      PROVE  File(c, s, n) \in [call : Calls, name : Streams \cup {"status"}, number : Nat]
  <2>1. chunks[c][s] \subseteq Nat
    BY DEF SpoolTypes
  <2> QED
    BY <2>1 DEF File
<1>2. ASSUME NEW c \in Calls
      PROVE  File(c, "status", 0) \in [call : Calls, name : Streams \cup {"status"}, number : Nat]
  BY DEF File
<1>3. ASSUME NEW f \in ResponseFiles
      PROVE  \/ \E c \in Calls, s \in Streams : \E n \in chunks[c][s] : f = File(c, s, n)
             \/ \E c \in Calls : f = File(c, "status", 0)
  <2>1. CASE f \in StatusFiles
    BY <2>1 DEF StatusFiles
  <2>2. CASE f \in UNION {ChunkFiles(c, s) : c \in Calls, s \in Streams}
    <3>1. PICK S \in {ChunkFiles(c, s) : c \in Calls, s \in Streams} : f \in S
      BY <2>2
    <3>2. PICK c \in Calls, s \in Streams : S = ChunkFiles(c, s)
      BY <3>1
    <3>3. \E n \in chunks[c][s] : f = File(c, s, n)
      BY <3>1, <3>2 DEF ChunkFiles
    <3> QED
      BY <3>2, <3>3
  <2> QED
    BY <1>3, <2>1, <2>2 DEF ResponseFiles
<1> QED
  BY <1>1, <1>2, <1>3

LEMMA TypingStep ==
  ASSUME TypeOK, [Next]_vars
  PROVE  TypeOK'
<1> USE CallsAssumption, KindsAssumption, ExitsAssumption, BoundsAssumption
    DEF TypeOK, vars, spoolVars, clientVars, drainVars, hostVars, childVars, workerVars,
        Streams, Booted, ActiveClient, BusyWorker, HostStates, ClientStates, WorkerStates,
        Codes, ExitCodes, ExitCode, Cleaners, NoCall, NoCode, NoKind,
        REJECTED_EXIT_CODE, SIGNAL_EXIT_BASE
<1>1. ASSUME NEW c \in Calls, Begin(c)
       PROVE  TypeOK'
  <2>1. SpoolTypes'
    BY <1>1 DEF Begin, SpoolTypes
  <2>2. ClientTypes'
    BY <1>1 DEF Begin, ClientTypes
  <2>3. HostTypes'
    BY <1>1 DEF Begin, HostTypes
  <2>4. ChildTypes'
    BY <1>1 DEF Begin, ChildTypes
  <2>5. WorkerTypes'
    BY <1>1 DEF Begin, WorkerTypes
  <2> QED
    BY <2>1, <2>2, <2>3, <2>4, <2>5
<1>2. ASSUME NEW c \in Calls, Submit(c)
       PROVE  TypeOK'
  <2>1. SpoolTypes'
    BY <1>2 DEF Submit, SpoolTypes
  <2>2. ClientTypes'
    BY <1>2 DEF Submit, ClientTypes
  <2>3. HostTypes'
    BY <1>2 DEF Submit, HostTypes
  <2>4. ChildTypes'
    BY <1>2 DEF Submit, ChildTypes
  <2>5. WorkerTypes'
    BY <1>2 DEF Submit, WorkerTypes
  <2> QED
    BY <2>1, <2>2, <2>3, <2>4, <2>5
<1>3. ASSUME NEW c \in Calls, CheckStatus(c)
       PROVE  TypeOK'
  BY <1>3 DEF CheckStatus, SpoolTypes, ClientTypes, HostTypes, ChildTypes, WorkerTypes
<1>4. ASSUME NEW c \in Calls, ListChunks(c)
       PROVE  TypeOK'
  <2>1. SpoolTypes'
    BY <1>4 DEF ListChunks, SpoolTypes
  <2>2. ClientTypes'
    <3>1. stream[c] \in Streams
      BY <1>4 DEF ClientTypes
    <3>2. chunks[c][stream[c]] \in SUBSET (Nat \ {0})
      BY <1>4, <3>1 DEF SpoolTypes
    <3> QED
      BY <1>4, <3>2 DEF ListChunks, ClientTypes
  <2>3. HostTypes'
    BY <1>4 DEF ListChunks, HostTypes
  <2>4. ChildTypes'
    BY <1>4 DEF ListChunks, ChildTypes
  <2>5. WorkerTypes'
    BY <1>4 DEF ListChunks, WorkerTypes
  <2> QED
    BY <2>1, <2>2, <2>3, <2>4, <2>5
<1>5. ASSUME NEW c \in Calls, DrainChunk(c)
       PROVE  TypeOK'
  <2>1. SpoolTypes'
    <3> DEFINE n == FirstName(glob[c])
    <3>1. stream[c] \in Streams /\ chunks[c][stream[c]] \ Printed(n) \in SUBSET (Nat \ {0})
      BY DEF SpoolTypes, ClientTypes
    <3>2. \/ chunks' = [chunks EXCEPT ![c][stream[c]] = chunks[c][stream[c]] \ Printed(n)]
          \/ UNCHANGED chunks
      BY <1>5 DEF DrainChunk, SpoolTypes
    <3> HIDE DEF n
    <3>3. chunks' \in [Calls -> [Streams -> SUBSET (Nat \ {0})]]
      BY <3>1, <3>2 DEF SpoolTypes
    <3> QED
      BY <1>5, <3>3 DEF DrainChunk, SpoolTypes
  <2>2. ClientTypes'
    <3> DEFINE n == FirstName(glob[c])
    <3>1. stream[c] \in Streams /\ glob[c] \ {n} \in SUBSET (Nat \ {0})
      BY DEF ClientTypes
    <3>2. n \in chunks[c][stream[c]] => n \in Nat \ {0}
      BY <3>1 DEF SpoolTypes
    <3>3. \/ n \in chunks[c][stream[c]] /\ seen' = [seen EXCEPT ![c][stream[c]] = Append(@, n)]
          \/ UNCHANGED seen
      BY <1>5 DEF DrainChunk
    <3>4. glob' = [glob EXCEPT ![c] = glob[c] \ {n}]
      BY <1>5 DEF DrainChunk, ClientTypes
    <3> HIDE DEF n
    <3>5. seen' \in [Calls -> [Streams -> Seq(Nat \ {0})]]
      <4>1. CASE UNCHANGED seen
        BY <4>1 DEF ClientTypes
      <4>2. CASE /\ n \in Nat \ {0}
                 /\ seen' = [seen EXCEPT ![c][stream[c]] = Append(@, n)]
        <5>1. seen[c][stream[c]] \in Seq(Nat \ {0})
          BY <3>1 DEF ClientTypes
        <5>2. Append(seen[c][stream[c]], n) \in Seq(Nat \ {0})
          BY <4>2, <5>1
        <5> QED
          BY <3>1, <4>2, <5>2 DEF ClientTypes
      <4> QED
        BY <3>2, <3>3, <4>1, <4>2
    <3>6. glob' \in [Calls -> SUBSET (Nat \ {0})]
      BY <3>1, <3>4 DEF ClientTypes
    <3> QED
      BY <1>5, <3>5, <3>6 DEF DrainChunk, ClientTypes
  <2>3. HostTypes'
    BY <1>5 DEF DrainChunk, Printed, HostTypes
  <2>4. ChildTypes'
    BY <1>5 DEF DrainChunk, Printed, ChildTypes
  <2>5. WorkerTypes'
    BY <1>5 DEF DrainChunk, Printed, WorkerTypes
  <2> QED
    BY <2>1, <2>2, <2>3, <2>4, <2>5
<1>6. ASSUME NEW c \in Calls, DrainDone(c)
       PROVE  TypeOK'
  <2>1. SpoolTypes'
    BY <1>6 DEF DrainDone, SpoolTypes
  <2>2. ClientTypes'
    BY <1>6 DEF DrainDone, StatusBefore, ClientTypes
  <2>3. HostTypes'
    BY <1>6 DEF DrainDone, HostTypes
  <2>4. ChildTypes'
    BY <1>6 DEF DrainDone, ChildTypes
  <2>5. WorkerTypes'
    BY <1>6 DEF DrainDone, WorkerTypes
  <2> QED
    BY <2>1, <2>2, <2>3, <2>4, <2>5
<1>7. ASSUME NEW c \in Calls, Leave(c)
       PROVE  TypeOK'
  <2>1. SpoolTypes'
    BY <1>7 DEF Leave, Forget, Ending, SpoolTypes
  <2>2. ClientTypes'
    <3>1. exit' \in [Calls -> Codes] /\ client' \in [Calls -> ClientStates]
      BY <1>7 DEF Leave, Ending, ClientTypes, SpoolTypes
    <3>2. /\ finished' \in [Calls -> BOOLEAN]
          /\ stream' \in [Calls -> Streams]
          /\ glob' \in [Calls -> SUBSET (Nat \ {0})]
      BY <1>7 DEF Leave, Forget, ClientTypes
    <3> QED
      BY <1>7, <3>1, <3>2 DEF Leave, ClientTypes
  <2>3. HostTypes'
    BY <1>7 DEF Leave, Forget, Ending, HostTypes
  <2>4. ChildTypes'
    BY <1>7 DEF Leave, Forget, Ending, ChildTypes
  <2>5. WorkerTypes'
    BY <1>7 DEF Leave, Forget, Ending, WorkerTypes
  <2> QED
    BY <2>1, <2>2, <2>3, <2>4, <2>5
<1>8. ASSUME NEW c \in Calls, Interrupt(c)
       PROVE  TypeOK'
  BY <1>8 DEF Interrupt, Forget, Active, SpoolTypes, ClientTypes, HostTypes, ChildTypes, WorkerTypes
<1>9. ASSUME NEW h \in Hosts, Poll(h)
       PROVE  TypeOK'
  <2>1. SpoolTypes'
    BY <1>9 DEF Poll, HasSlot, SpoolTypes
  <2>2. ClientTypes'
    BY <1>9 DEF Poll, HasSlot, ClientTypes
  <2>3. HostTypes'
    <3>1. Oldest(requests) \in Calls
      BY <1>9, OldestIsOne DEF Poll, SpoolTypes
    <3> QED
      BY <1>9, <3>1 DEF Poll, HostTypes
  <2>4. ChildTypes'
    BY <1>9 DEF Poll, HasSlot, ChildTypes
  <2>5. WorkerTypes'
    BY <1>9 DEF Poll, HasSlot, WorkerTypes
  <2> QED
    BY <2>1, <2>2, <2>3, <2>4, <2>5
<1>10. ASSUME NEW h \in Hosts, Claim(h)
       PROVE  TypeOK'
  <2>1. SpoolTypes'
    BY <1>10 DEF Claim, Renames, SpoolTypes
  <2>2. ClientTypes'
    BY <1>10 DEF Claim, Renames, ClientTypes
  <2>3. HostTypes'
    BY <1>10 DEF Claim, Renames, HostTypes
  <2>4. ChildTypes'
    BY <1>10 DEF Claim, Renames, ChildTypes
  <2>5. WorkerTypes'
    BY <1>10 DEF Claim, Renames, WorkerTypes
  <2> QED
    BY <2>1, <2>2, <2>3, <2>4, <2>5
<1>11. ASSUME NEW h \in Hosts, AgentFails(h)
       PROVE  TypeOK'
  BY <1>11 DEF AgentFails, SpoolTypes, ClientTypes, HostTypes, ChildTypes, WorkerTypes
<1>12. ASSUME NEW h \in Hosts, SeeStop(h)
       PROVE  TypeOK'
  BY <1>12 DEF SeeStop, Stops, SpoolTypes, ClientTypes, HostTypes, ChildTypes, WorkerTypes
<1>13. ASSUME NEW c \in Calls, Refuse(c)
       PROVE  TypeOK'
  <2>1. SpoolTypes'
    <3>1. Message(c) \in SUBSET (Nat \ {0})
      <4>1. chunks \in [Calls -> [Streams -> SUBSET (Nat \ {0})]]
        BY DEF SpoolTypes
      <4>2. chunks[c] \in [Streams -> SUBSET (Nat \ {0})]
        BY ONLY <4>1, c \in Calls
      <4>3. chunks[c]["err"] \in SUBSET (Nat \ {0})
        BY ONLY <4>2 DEF Streams
      <4> QED
        BY ONLY <4>3 DEF Message
    <3>2. chunks' \in [Calls -> [Streams -> SUBSET (Nat \ {0})]]
      BY <1>13, <3>1 DEF Refuse, SpoolTypes
    <3> QED
      BY <1>13, <3>2 DEF Refuse, SpoolTypes
  <2>2. ClientTypes'
    BY <1>13 DEF Refuse, Message, ClientTypes
  <2>3. HostTypes'
    BY <1>13 DEF Refuse, Message, HostTypes
  <2>4. ChildTypes'
    BY <1>13 DEF Refuse, Message, ChildTypes
  <2>5. WorkerTypes'
    BY <1>13 DEF Refuse, Message, WorkerTypes
  <2> QED
    BY <2>1, <2>2, <2>3, <2>4, <2>5
<1>14. ASSUME NEW c \in Calls, Spawn(c)
       PROVE  TypeOK'
  <2>1. SpoolTypes'
    BY <1>14 DEF Spawn, Sources, SpoolTypes
  <2>2. ClientTypes'
    BY <1>14 DEF Spawn, Sources, ClientTypes
  <2>3. HostTypes'
    BY <1>14 DEF Spawn, Sources, HostTypes
  <2>4. ChildTypes'
    BY <1>14 DEF Spawn, Sources, ChildTypes
  <2>5. WorkerTypes'
    BY <1>14 DEF Spawn, Sources, WorkerTypes
  <2> QED
    BY <2>1, <2>2, <2>3, <2>4, <2>5
<1>15. ASSUME NEW c \in Calls, Fail(c)
       PROVE  TypeOK'
  BY <1>15 DEF Fail, SpoolTypes, ClientTypes, HostTypes, ChildTypes, WorkerTypes
<1>16. ASSUME NEW c \in Calls, Join(c)
       PROVE  TypeOK'
  BY <1>16 DEF Join, ThreadsEnded, SpoolTypes, ClientTypes, HostTypes, ChildTypes, WorkerTypes
<1>17. ASSUME NEW c \in Calls, Reply(c)
       PROVE  TypeOK'
  BY <1>17 DEF Reply, SpoolTypes, ClientTypes, HostTypes, ChildTypes, WorkerTypes
<1>18. ASSUME NEW c \in Calls, RemoveClaim(c)
       PROVE  TypeOK'
  BY <1>18 DEF RemoveClaim, SpoolTypes, ClientTypes, HostTypes, ChildTypes, WorkerTypes
<1>19. ASSUME NEW c \in Calls, NEW s \in Streams, Publish(c, s)
       PROVE  TypeOK'
  <2>1. SpoolTypes'
    <3>1. chunks[c][s] \cup {NextNumber(c, s)} \in SUBSET (Nat \ {0})
      BY DEF NextNumber, SpoolTypes, ChildTypes
    <3>2. \/ chunks' = [chunks EXCEPT ![c][s] = chunks[c][s] \cup {NextNumber(c, s)}]
          \/ UNCHANGED chunks
      BY <1>19 DEF Publish, SpoolTypes
    <3>3. chunks' \in [Calls -> [Streams -> SUBSET (Nat \ {0})]]
      BY <3>1, <3>2 DEF SpoolTypes
    <3> QED
      BY <1>19, <3>3 DEF Publish, SpoolTypes
  <2>2. ClientTypes'
    BY <1>19 DEF Publish, NextNumber, ClientTypes
  <2>3. HostTypes'
    BY <1>19 DEF Publish, NextNumber, HostTypes
  <2>4. ChildTypes'
    BY <1>19 DEF Publish, NextNumber, ChildTypes
  <2>5. WorkerTypes'
    BY <1>19 DEF Publish, NextNumber, WorkerTypes
  <2> QED
    BY <2>1, <2>2, <2>3, <2>4, <2>5
<1>20. ASSUME NEW c \in Calls, NEW s \in Streams, ReaderEnds(c, s)
       PROVE  TypeOK'
  BY <1>20 DEF ReaderEnds, SpoolTypes, ClientTypes, HostTypes, ChildTypes, WorkerTypes
<1>21. ASSUME NEW c \in Calls, ChildExits(c)
       PROVE  TypeOK'
  <2>1. SpoolTypes'
    BY <1>21 DEF ChildExits, SpoolTypes
  <2>2. ClientTypes'
    BY <1>21 DEF ChildExits, ClientTypes
  <2>3. HostTypes'
    BY <1>21 DEF ChildExits, HostTypes
  <2>4. ChildTypes'
    BY <1>21 DEF ChildExits, ChildTypes
  <2>5. WorkerTypes'
    BY <1>21 DEF ChildExits, WorkerTypes
  <2> QED
    BY <2>1, <2>2, <2>3, <2>4, <2>5
<1>22. ASSUME NEW c \in Calls, PumpEnds(c)
       PROVE  TypeOK'
  BY <1>22 DEF PumpEnds, SpoolTypes, ClientTypes, HostTypes, ChildTypes, WorkerTypes
<1>23. ASSUME NEW c \in Calls, NEW s \in Streams, Write(c, s)
       PROVE  TypeOK'
  <2>1. SpoolTypes'
    BY <1>23 DEF Write, SpoolTypes
  <2>2. ClientTypes'
    BY <1>23 DEF Write, ClientTypes
  <2>3. HostTypes'
    BY <1>23 DEF Write, HostTypes
  <2>4. ChildTypes'
    BY <1>23 DEF Write, ChildTypes
  <2>5. WorkerTypes'
    BY <1>23 DEF Write, WorkerTypes
  <2> QED
    BY <2>1, <2>2, <2>3, <2>4, <2>5
<1>24. ASSUME NEW c \in Calls, NEW s \in Streams, Release(c, s)
       PROVE  TypeOK'
  BY <1>24 DEF Release, SpoolTypes, ClientTypes, HostTypes, ChildTypes, WorkerTypes
<1>25. ASSUME NEW h \in Hosts, Create(h)
       PROVE  TypeOK'
  <2>1. SpoolTypes'
    BY <1>25, ResponseFilesTyped DEF Create, Sweep, SpoolTypes
  <2>2. ClientTypes'
    BY <1>25 DEF Create, Sweep, ClientTypes
  <2>3. HostTypes'
    BY <1>25 DEF Create, Sweep, HostTypes
  <2>4. ChildTypes'
    BY <1>25 DEF Create, Sweep, ChildTypes
  <2>5. WorkerTypes'
    BY <1>25 DEF Create, Sweep, WorkerTypes
  <2> QED
    BY <2>1, <2>2, <2>3, <2>4, <2>5
<1>26. ASSUME NEW h \in Hosts, Boot(h)
       PROVE  TypeOK'
  BY <1>26 DEF Boot, SpoolTypes, ClientTypes, HostTypes, ChildTypes, WorkerTypes
<1>27. ASSUME NEW h \in Hosts, Serve(h)
       PROVE  TypeOK'
  BY <1>27 DEF Serve, SpoolTypes, ClientTypes, HostTypes, ChildTypes, WorkerTypes
<1>28. ASSUME NEW h \in Hosts, Stop(h)
       PROVE  TypeOK'
  BY <1>28 DEF Stop, SpoolTypes, ClientTypes, HostTypes, ChildTypes, WorkerTypes
<1>29. ASSUME NEW h \in Hosts, CleanAfterExit(h)
       PROVE  TypeOK'
  <2>1. SpoolTypes'
    BY <1>29, ResponseFilesTyped DEF CleanAfterExit, EmptySpool, SpoolTypes
  <2>2. ClientTypes'
    BY <1>29 DEF CleanAfterExit, Joined, EmptySpool, ClientTypes
  <2>3. HostTypes'
    BY <1>29 DEF CleanAfterExit, Joined, EmptySpool, HostTypes
  <2>4. ChildTypes'
    BY <1>29 DEF CleanAfterExit, Joined, EmptySpool, ChildTypes
  <2>5. WorkerTypes'
    BY <1>29 DEF CleanAfterExit, Joined, EmptySpool, WorkerTypes
  <2> QED
    BY <2>1, <2>2, <2>3, <2>4, <2>5
<1>30. ASSUME NEW h \in Hosts, Cleaned(h)
       PROVE  TypeOK'
  BY <1>30 DEF Cleaned, SpoolTypes, ClientTypes, HostTypes, ChildTypes, WorkerTypes
<1>31. ASSUME NEW h \in Hosts, SkipCleanup(h)
       PROVE  TypeOK'
  BY <1>31 DEF SkipCleanup, Joined, SpoolTypes, ClientTypes, HostTypes, ChildTypes, WorkerTypes
<1>32. ASSUME NEW h \in Hosts, ExitProcess(h)
       PROVE  TypeOK'
  <2>1. SpoolTypes'
    BY <1>32 DEF ExitProcess, Die, Forget, SpoolTypes
  <2>2. ClientTypes'
    BY <1>32 DEF ExitProcess, Die, Forget, ClientTypes
  <2>3. HostTypes'
    BY <1>32 DEF ExitProcess, Die, Forget, HostTypes
  <2>4. ChildTypes'
    BY <1>32 DEF ExitProcess, Die, Forget, ChildTypes
  <2>5. WorkerTypes'
    BY <1>32 DEF ExitProcess, Die, Forget, WorkerTypes
  <2> QED
    BY <2>1, <2>2, <2>3, <2>4, <2>5
<1>33. ASSUME NEW h \in Hosts, Crash(h)
       PROVE  TypeOK'
  <2>1. SpoolTypes'
    BY <1>33 DEF Crash, Die, Forget, SpoolTypes
  <2>2. ClientTypes'
    BY <1>33 DEF Crash, Die, Forget, ClientTypes
  <2>3. HostTypes'
    BY <1>33 DEF Crash, Die, Forget, HostTypes
  <2>4. ChildTypes'
    BY <1>33 DEF Crash, Die, Forget, ChildTypes
  <2>5. WorkerTypes'
    BY <1>33 DEF Crash, Die, Forget, WorkerTypes
  <2> QED
    BY <2>1, <2>2, <2>3, <2>4, <2>5
<1>34. ASSUME NEW h \in Cleaners, RemoveResponse(h)
       PROVE  TypeOK'
  <2>1. SpoolTypes'
    BY <1>34 DEF RemoveResponse, SpoolTypes
  <2>2. ClientTypes'
    BY <1>34 DEF RemoveResponse, ClientTypes
  <2>3. HostTypes'
    BY <1>34 DEF RemoveResponse, HostTypes
  <2>4. ChildTypes'
    BY <1>34 DEF RemoveResponse, ChildTypes
  <2>5. WorkerTypes'
    BY <1>34 DEF RemoveResponse, WorkerTypes
  <2> QED
    BY <2>1, <2>2, <2>3, <2>4, <2>5
<1>35. ASSUME NEW h \in Cleaners, AbandonCleanup(h)
       PROVE  TypeOK'
  BY <1>35 DEF AbandonCleanup, SpoolTypes, ClientTypes, HostTypes, ChildTypes, WorkerTypes
<1>36. CASE Clean
  <2>1. SpoolTypes'
    BY <1>36, ResponseFilesTyped DEF Clean, EmptySpool, SpoolTypes
  <2>2. ClientTypes'
    BY <1>36 DEF Clean, EmptySpool, ClientTypes
  <2>3. HostTypes'
    BY <1>36 DEF Clean, EmptySpool, HostTypes
  <2>4. ChildTypes'
    BY <1>36 DEF Clean, EmptySpool, ChildTypes
  <2>5. WorkerTypes'
    BY <1>36 DEF Clean, EmptySpool, WorkerTypes
  <2> QED
    BY <2>1, <2>2, <2>3, <2>4, <2>5
<1>37. CASE UNCHANGED vars
  BY <1>37 DEF SpoolTypes, ClientTypes, HostTypes, ChildTypes, WorkerTypes
<1> QED
  BY <1>1, <1>2, <1>3, <1>4, <1>5, <1>6, <1>7, <1>8, <1>9, <1>10, <1>11, <1>12, <1>13, <1>14, <1>15, <1>16, <1>17, <1>18, <1>19, <1>20, <1>21, <1>22, <1>23, <1>24, <1>25, <1>26, <1>27, <1>28, <1>29, <1>30, <1>31, <1>32, <1>33, <1>34, <1>35, <1>36, <1>37
  DEF Next, Client, Worker, Command, Agent, Leaving

THEOREM TypeCorrect == Spec => []TypeOK
<1>1. Init => TypeOK
  <2> USE DEF Init, Streams, Codes, Cleaners, NoCall, NoCode, NoKind
  <2>1. Init => SpoolTypes
    BY DEF SpoolTypes
  <2>2. Init => ClientTypes
    BY DEF ClientTypes, ClientStates
  <2>3. Init => HostTypes
    BY BoundsAssumption DEF HostTypes, HostStates
  <2>4. Init => ChildTypes
    BY DEF ChildTypes
  <2>5. Init => WorkerTypes
    BY DEF WorkerTypes, WorkerStates
  <2> QED
    BY <2>1, <2>2, <2>3, <2>4, <2>5 DEF TypeOK
<1> QED
  BY <1>1, TypingStep, PTL DEF Spec

-----------------------------------------------------------------------------
(* The inductive invariant.  Each of its parts is about one hand-over: of    *)
(* the request, of the output and of the result.                             *)

\* A request file means no worker has the call, and no worker means nothing ran:
\* what the rename of a claim has to keep.
Claims ==
  \A c \in Calls :
    /\ client[c] \in {"idle", "drafted"} => worker[c] = "none" /\ c \notin requests
    /\ c \in requests => worker[c] = "none"
    /\ worker[c] \in {"none", "claimed"} => executions[c] = 0
    /\ executions[c] <= 1

\* Readers live only while the worker waits for them, before any status.
Threads ==
  \A c \in Calls :
    /\ worker[c] # "running" => readers[c] = {}
    /\ status[c] # NoCode => worker[c] \in {"removing", "done"}

\* What a worker may report: its command ran once and ended, or nothing ran.
Outcome(c) ==
  IF kind[c] \in {"pipes", "terminal"}
  THEN executions[c] = 1 /\ child[c] = "exited"
  ELSE executions[c] = 0 /\ code[c] = REJECTED_EXIT_CODE

\* A status, and an exit code taken from it, is the worker's verdict.
Verdicts ==
  \A c \in Calls :
    /\ worker[c] = "running" => kind[c] \in {"pipes", "terminal"} /\ executions[c] = 1
    /\ worker[c] \in {"replying", "removing"} => Outcome(c)
    /\ status[c] # NoCode => status[c] = code[c] /\ Outcome(c)
    /\ client[c] = "returned" =>
         worker[c] \in {"removing", "done"} /\ exit[c] = code[c] /\ Outcome(c)

Inv == Claims /\ Threads /\ Verdicts

LEMMA InvStep ==
  ASSUME TypeOK, Inv, [Next]_vars
  PROVE  Inv'
<1> USE DEF Inv, TypeOK, SpoolTypes, ClientTypes, HostTypes, ChildTypes, WorkerTypes, vars, spoolVars, clientVars, drainVars, hostVars, childVars, workerVars,
        BusyWorker, ActiveClient, NoCode, Streams
<1>1. ASSUME NEW c \in Calls, Begin(c)
       PROVE  Inv'
  BY SMTT(60), <1>1 DEF Begin, Claims, Threads, Verdicts, Outcome
<1>2. ASSUME NEW c \in Calls, Submit(c)
       PROVE  Inv'
  BY SMTT(60), <1>2 DEF Submit, Claims, Threads, Verdicts, Outcome
<1>3. ASSUME NEW c \in Calls, CheckStatus(c)
       PROVE  Inv'
  BY <1>3 DEF CheckStatus, Claims, Threads, Verdicts, Outcome
<1>4. ASSUME NEW c \in Calls, ListChunks(c)
       PROVE  Inv'
  BY <1>4 DEF ListChunks, Claims, Threads, Verdicts, Outcome
<1>5. ASSUME NEW c \in Calls, DrainChunk(c)
       PROVE  Inv'
  BY <1>5 DEF DrainChunk, Claims, Threads, Verdicts, Outcome
<1>6. ASSUME NEW c \in Calls, DrainDone(c)
       PROVE  Inv'
  <2>1. Claims'
    BY SMTT(60), <1>6 DEF DrainDone, StatusBefore, Claims
  <2>2. Threads'
    BY <1>6 DEF DrainDone, StatusBefore, Claims, Threads
  <2>3. Verdicts'
    BY SMTT(60), <1>6 DEF DrainDone, StatusBefore, Claims, Threads, Verdicts, Outcome
  <2> QED
    BY <2>1, <2>2, <2>3
<1>7. ASSUME NEW c \in Calls, Leave(c)
       PROVE  Inv'
  <2>1. Claims'
    BY <1>7 DEF Leave, Ending, Claims
  <2>2. Threads'
    BY <1>7 DEF Leave, Ending, Claims, Threads
  <2>3. Verdicts'
    BY SMTT(60), <1>7 DEF Leave, Ending, Claims, Threads, Verdicts, Outcome
  <2> QED
    BY <2>1, <2>2, <2>3
<1>8. ASSUME NEW c \in Calls, Interrupt(c)
       PROVE  Inv'
  BY <1>8 DEF Interrupt, Active, Claims, Threads, Verdicts, Outcome
<1>9. ASSUME NEW h \in Hosts, Poll(h)
       PROVE  Inv'
  BY <1>9 DEF Poll, Claims, Threads, Verdicts, Outcome
<1>10. ASSUME NEW h \in Hosts, Claim(h)
       PROVE  Inv'
  <2>1. Claims'
    BY SMTT(60), <1>10 DEF Claim, Renames, Claims
  <2>2. Threads'
    <3> SUFFICES ASSUME NEW c \in Calls
                 PROVE  Threads!(c)'
      BY DEF Threads
    <3>1. worker[c] = worker'[c] \/ (worker[c] = "none" /\ worker'[c] = "claimed")
      BY <1>10 DEF Claim, Renames, Claims
    <3>2. UNCHANGED <<readers, status>>
      BY <1>10 DEF Claim
    <3> QED
      BY <3>1, <3>2 DEF Threads
  <2>3. Verdicts'
    <3> SUFFICES ASSUME NEW c \in Calls
                 PROVE  Verdicts!(c)'
      BY DEF Verdicts
    <3>1. Verdicts!(c) /\ (status[c] # NoCode => worker[c] # "none")
      BY DEF Verdicts, Threads
    <3>2. worker[c] = worker'[c] \/ (worker[c] = "none" /\ worker'[c] = "claimed")
      BY <1>10 DEF Claim, Renames, Claims
    <3>3. UNCHANGED <<kind, executions, child, code, status, client, exit>>
      BY <1>10 DEF Claim
    <3> QED
      BY <3>1, <3>2, <3>3 DEF Outcome
  <2> QED
    BY <2>1, <2>2, <2>3
<1>11. ASSUME NEW h \in Hosts, AgentFails(h)
       PROVE  Inv'
  BY <1>11 DEF AgentFails, Claims, Threads, Verdicts, Outcome
<1>12. ASSUME NEW h \in Hosts, SeeStop(h)
       PROVE  Inv'
  BY <1>12 DEF SeeStop, Claims, Threads, Verdicts, Outcome
<1>13. ASSUME NEW c \in Calls, Refuse(c)
       PROVE  Inv'
  <2>1. Claims'
    BY <1>13 DEF Refuse, Claims
  <2>2. Threads'
    BY <1>13 DEF Refuse, Claims, Threads
  <2>3. Verdicts'
    <3> SUFFICES ASSUME NEW d \in Calls
                 PROVE  Verdicts!(d)'
      BY DEF Verdicts
    <3>1. CASE d = c
      <4>1. executions[c] = 0 /\ status[c] = NoCode /\ client[c] # "returned"
        BY <1>13 DEF Refuse, Claims, Threads, Verdicts
      <4>2. worker'[c] = "replying" /\ code'[c] = REJECTED_EXIT_CODE
        BY <1>13 DEF Refuse
      <4> QED
        BY <1>13, <3>1, <4>1, <4>2 DEF Refuse, Outcome
    <3>2. CASE d # c
      <4>1. worker'[d] = worker[d] /\ code'[d] = code[d]
        BY <1>13, <3>2 DEF Refuse
      <4> QED
        BY <1>13, <4>1 DEF Refuse, Verdicts, Outcome
    <3> QED
      BY <3>1, <3>2
  <2> QED
    BY <2>1, <2>2, <2>3
<1>14. ASSUME NEW c \in Calls, Spawn(c)
       PROVE  Inv'
  <2>1. Claims'
    BY SMTT(60), <1>14 DEF Spawn, Sources, Claims
  <2>2. Threads'
    BY SMTT(60), <1>14 DEF Spawn, Sources, Claims, Threads
  <2>3. Verdicts'
    BY SMTT(60), <1>14 DEF Spawn, Sources, Claims, Threads, Verdicts, Outcome
  <2> QED
    BY <2>1, <2>2, <2>3
<1>15. ASSUME NEW c \in Calls, Fail(c)
       PROVE  Inv'
  <2>1. Claims'
    BY <1>15 DEF Fail, Claims
  <2>2. Threads'
    BY <1>15 DEF Fail, Claims, Threads
  <2>3. Verdicts'
    BY <1>15 DEF Fail, Claims, Threads, Verdicts, Outcome
  <2> QED
    BY <2>1, <2>2, <2>3
<1>16. ASSUME NEW c \in Calls, Join(c)
       PROVE  Inv'
  <2>1. Claims'
    BY SMTT(60), <1>16 DEF Join, ThreadsEnded, Claims
  <2>2. Threads'
    BY <1>16 DEF Join, ThreadsEnded, Claims, Threads
  <2>3. Verdicts'
    BY SMTT(60), <1>16 DEF Join, ThreadsEnded, Claims, Threads, Verdicts, Outcome
  <2> QED
    BY <2>1, <2>2, <2>3
<1>17. ASSUME NEW c \in Calls, Reply(c)
       PROVE  Inv'
  <2>1. Claims'
    BY <1>17 DEF Reply, Claims
  <2>2. Threads'
    BY <1>17 DEF Reply, Claims, Threads
  <2>3. Verdicts'
    BY SMTT(60), <1>17 DEF Reply, Claims, Threads, Verdicts, Outcome
  <2> QED
    BY <2>1, <2>2, <2>3
<1>18. ASSUME NEW c \in Calls, RemoveClaim(c)
       PROVE  Inv'
  <2>1. Claims'
    BY <1>18 DEF RemoveClaim, Claims
  <2>2. Threads'
    BY <1>18 DEF RemoveClaim, Claims, Threads
  <2>3. Verdicts'
    BY <1>18 DEF RemoveClaim, Claims, Threads, Verdicts, Outcome
  <2> QED
    BY <2>1, <2>2, <2>3
<1>19. ASSUME NEW c \in Calls, NEW s \in Streams, Publish(c, s)
       PROVE  Inv'
  BY <1>19 DEF Publish, Claims, Threads, Verdicts, Outcome
<1>20. ASSUME NEW c \in Calls, NEW s \in Streams, ReaderEnds(c, s)
       PROVE  Inv'
  BY SMTT(60), <1>20 DEF ReaderEnds, Claims, Threads, Verdicts, Outcome
<1>21. ASSUME NEW c \in Calls, ChildExits(c)
       PROVE  Inv'
  BY SMTT(60), <1>21 DEF ChildExits, Claims, Threads, Verdicts, Outcome
<1>22. ASSUME NEW c \in Calls, PumpEnds(c)
       PROVE  Inv'
  BY <1>22 DEF PumpEnds, Claims, Threads, Verdicts, Outcome
<1>23. ASSUME NEW c \in Calls, NEW s \in Streams, Write(c, s)
       PROVE  Inv'
  BY <1>23 DEF Write, Claims, Threads, Verdicts, Outcome
<1>24. ASSUME NEW c \in Calls, NEW s \in Streams, Release(c, s)
       PROVE  Inv'
  BY <1>24 DEF Release, Claims, Threads, Verdicts, Outcome
<1>25. ASSUME NEW h \in Hosts, Create(h)
       PROVE  Inv'
  BY <1>25 DEF Create, Sweep, Claims, Threads, Verdicts, Outcome
<1>26. ASSUME NEW h \in Hosts, Boot(h)
       PROVE  Inv'
  BY <1>26 DEF Boot, Claims, Threads, Verdicts, Outcome
<1>27. ASSUME NEW h \in Hosts, Serve(h)
       PROVE  Inv'
  BY <1>27 DEF Serve, Claims, Threads, Verdicts, Outcome
<1>28. ASSUME NEW h \in Hosts, Stop(h)
       PROVE  Inv'
  BY <1>28 DEF Stop, Claims, Threads, Verdicts, Outcome
<1>29. ASSUME NEW h \in Hosts, CleanAfterExit(h)
       PROVE  Inv'
  BY <1>29 DEF CleanAfterExit, Joined, EmptySpool, Claims, Threads, Verdicts, Outcome
<1>30. ASSUME NEW h \in Hosts, Cleaned(h)
       PROVE  Inv'
  BY <1>30 DEF Cleaned, Claims, Threads, Verdicts, Outcome
<1>31. ASSUME NEW h \in Hosts, SkipCleanup(h)
       PROVE  Inv'
  BY <1>31 DEF SkipCleanup, Joined, Claims, Threads, Verdicts, Outcome
<1>32. ASSUME NEW h \in Hosts, ExitProcess(h)
       PROVE  Inv'
  BY SMTT(60), <1>32 DEF ExitProcess, Die, Active, InFlight, Claims, Threads, Verdicts, Outcome
<1>33. ASSUME NEW h \in Hosts, Crash(h)
       PROVE  Inv'
  BY SMTT(60), <1>33 DEF Crash, Die, Active, InFlight, Claims, Threads, Verdicts, Outcome
<1>34. ASSUME NEW h \in Cleaners, RemoveResponse(h)
       PROVE  Inv'
  <2>1. Claims'
    BY <1>34 DEF RemoveResponse, Claims
  <2>2. Threads'
    <3>1. \A c \in Calls : status'[c] \in {status[c], NoCode}
      BY <1>34 DEF RemoveResponse
    <3>2. UNCHANGED <<worker, readers>>
      BY <1>34 DEF RemoveResponse
    <3> QED
      BY <3>1, <3>2 DEF Threads
  <2>3. Verdicts'
    <3>1. \A c \in Calls : status'[c] \in {status[c], NoCode}
      BY <1>34 DEF RemoveResponse
    <3>2. UNCHANGED <<worker, kind, executions, child, code, client, exit>>
      BY <1>34 DEF RemoveResponse
    <3> QED
      BY <3>1, <3>2 DEF Verdicts, Outcome
  <2> QED
    BY <2>1, <2>2, <2>3
<1>35. ASSUME NEW h \in Cleaners, AbandonCleanup(h)
       PROVE  Inv'
  BY <1>35 DEF AbandonCleanup, Claims, Threads, Verdicts, Outcome
<1>36. CASE Clean
  BY <1>36 DEF Clean, EmptySpool, Claims, Threads, Verdicts, Outcome
<1>37. CASE UNCHANGED vars
  BY <1>37 DEF Claims, Threads, Verdicts, Outcome
<1> QED
  BY <1>1, <1>2, <1>3, <1>4, <1>5, <1>6, <1>7, <1>8, <1>9, <1>10, <1>11, <1>12, <1>13, <1>14, <1>15, <1>16, <1>17, <1>18, <1>19, <1>20, <1>21, <1>22, <1>23, <1>24, <1>25, <1>26, <1>27, <1>28, <1>29, <1>30, <1>31, <1>32, <1>33, <1>34, <1>35, <1>36, <1>37
  DEF Next, Client, Worker, Command, Agent, Leaving

LEMMA InvHolds == Spec => []Inv
<1>1. Init => Inv
  BY DEF Init, Inv, Claims, Threads, Verdicts
<1> QED
  BY <1>1, InvStep, TypeCorrect, PTL DEF Spec

(* A request runs at most one command, however agents race and wherever they *)
(* die (claim_next: the rename is the claim).                                *)
THEOREM RunsAtMostOnce == Spec => []AtMostOnce
<1>1. Inv => AtMostOnce
  BY DEF Inv, Claims, AtMostOnce
<1> QED
  BY <1>1, InvHolds, PTL

(* An exit code the client returns is its own command's, or the refusal's,   *)
(* through every cleanup, sweep, crash and failed write.                     *)
THEOREM AnswersHold == Spec => []AnswersAreReal
<1>1. TypeOK /\ Inv => AnswersAreReal
  BY DEF Inv, Verdicts, Outcome, AnswersAreReal
<1> QED
  BY <1>1, InvHolds, TypeCorrect, PTL

-----------------------------------------------------------------------------
(* No chunk after the status: only a refusal and a reader add chunks, and    *)
(* both are over when the status appears.                                    *)

Quiet ==
  \A d \in Calls, t \in Streams :
    status[d] # NoCode => chunks'[d][t] \subseteq chunks[d][t]

LEMMA QuietStep ==
  ASSUME TypeOK, Inv, [Next]_vars
  PROVE  Quiet
<1> USE DEF Quiet, TypeOK, SpoolTypes, Inv, Threads, vars, spoolVars
<1>1. ASSUME NEW c \in Calls, Begin(c)
       PROVE  Quiet
  BY <1>1 DEF Begin
<1>2. ASSUME NEW c \in Calls, Submit(c)
       PROVE  Quiet
  BY <1>2 DEF Submit
<1>3. ASSUME NEW c \in Calls, CheckStatus(c)
       PROVE  Quiet
  BY <1>3 DEF CheckStatus
<1>4. ASSUME NEW c \in Calls, ListChunks(c)
       PROVE  Quiet
  BY <1>4 DEF ListChunks
<1>5. ASSUME NEW c \in Calls, DrainChunk(c)
       PROVE  Quiet
  BY <1>5 DEF DrainChunk, Printed
<1>6. ASSUME NEW c \in Calls, DrainDone(c)
       PROVE  Quiet
  BY <1>6 DEF DrainDone, StatusBefore
<1>7. ASSUME NEW c \in Calls, Leave(c)
       PROVE  Quiet
  BY <1>7 DEF Leave, Ending
<1>8. ASSUME NEW c \in Calls, Interrupt(c)
       PROVE  Quiet
  BY <1>8 DEF Interrupt, Active
<1>9. ASSUME NEW h \in Hosts, Poll(h)
       PROVE  Quiet
  BY <1>9 DEF Poll
<1>10. ASSUME NEW h \in Hosts, Claim(h)
       PROVE  Quiet
  BY <1>10 DEF Claim, Renames
<1>11. ASSUME NEW h \in Hosts, AgentFails(h)
       PROVE  Quiet
  BY <1>11 DEF AgentFails
<1>12. ASSUME NEW h \in Hosts, SeeStop(h)
       PROVE  Quiet
  BY <1>12 DEF SeeStop
<1>13. ASSUME NEW c \in Calls, Refuse(c)
       PROVE  Quiet
  BY <1>13 DEF Refuse, Claims, Threads
<1>14. ASSUME NEW c \in Calls, Spawn(c)
       PROVE  Quiet
  BY <1>14 DEF Spawn, Sources
<1>15. ASSUME NEW c \in Calls, Fail(c)
       PROVE  Quiet
  BY <1>15 DEF Fail
<1>16. ASSUME NEW c \in Calls, Join(c)
       PROVE  Quiet
  BY <1>16 DEF Join, ThreadsEnded
<1>17. ASSUME NEW c \in Calls, Reply(c)
       PROVE  Quiet
  BY <1>17 DEF Reply
<1>18. ASSUME NEW c \in Calls, RemoveClaim(c)
       PROVE  Quiet
  BY <1>18 DEF RemoveClaim
<1>19. ASSUME NEW c \in Calls, NEW s \in Streams, Publish(c, s)
       PROVE  Quiet
  BY <1>19 DEF Publish, NextNumber
<1>20. ASSUME NEW c \in Calls, NEW s \in Streams, ReaderEnds(c, s)
       PROVE  Quiet
  BY <1>20 DEF ReaderEnds
<1>21. ASSUME NEW c \in Calls, ChildExits(c)
       PROVE  Quiet
  BY <1>21 DEF ChildExits
<1>22. ASSUME NEW c \in Calls, PumpEnds(c)
       PROVE  Quiet
  BY <1>22 DEF PumpEnds
<1>23. ASSUME NEW c \in Calls, NEW s \in Streams, Write(c, s)
       PROVE  Quiet
  BY <1>23 DEF Write
<1>24. ASSUME NEW c \in Calls, NEW s \in Streams, Release(c, s)
       PROVE  Quiet
  BY <1>24 DEF Release
<1>25. ASSUME NEW h \in Hosts, Create(h)
       PROVE  Quiet
  BY <1>25 DEF Create, Sweep
<1>26. ASSUME NEW h \in Hosts, Boot(h)
       PROVE  Quiet
  BY <1>26 DEF Boot
<1>27. ASSUME NEW h \in Hosts, Serve(h)
       PROVE  Quiet
  BY <1>27 DEF Serve
<1>28. ASSUME NEW h \in Hosts, Stop(h)
       PROVE  Quiet
  BY <1>28 DEF Stop
<1>29. ASSUME NEW h \in Hosts, CleanAfterExit(h)
       PROVE  Quiet
  BY <1>29 DEF CleanAfterExit, Joined, EmptySpool
<1>30. ASSUME NEW h \in Hosts, Cleaned(h)
       PROVE  Quiet
  BY <1>30 DEF Cleaned
<1>31. ASSUME NEW h \in Hosts, SkipCleanup(h)
       PROVE  Quiet
  BY <1>31 DEF SkipCleanup, Joined
<1>32. ASSUME NEW h \in Hosts, ExitProcess(h)
       PROVE  Quiet
  BY <1>32 DEF ExitProcess, Die, Active, InFlight
<1>33. ASSUME NEW h \in Hosts, Crash(h)
       PROVE  Quiet
  BY <1>33 DEF Crash, Die, Active, InFlight
<1>34. ASSUME NEW h \in Cleaners, RemoveResponse(h)
       PROVE  Quiet
  BY <1>34 DEF RemoveResponse
<1>35. ASSUME NEW h \in Cleaners, AbandonCleanup(h)
       PROVE  Quiet
  BY <1>35 DEF AbandonCleanup
<1>36. CASE Clean
  BY <1>36 DEF Clean, EmptySpool
<1>37. CASE UNCHANGED vars
  BY <1>37
<1> QED
  BY <1>1, <1>2, <1>3, <1>4, <1>5, <1>6, <1>7, <1>8, <1>9, <1>10, <1>11, <1>12, <1>13, <1>14, <1>15, <1>16, <1>17, <1>18, <1>19, <1>20, <1>21, <1>22, <1>23, <1>24, <1>25, <1>26, <1>27, <1>28, <1>29, <1>30, <1>31, <1>32, <1>33, <1>34, <1>35, <1>36, <1>37
  DEF Next, Client, Worker, Command, Agent, Leaving

THEOREM StatusEndsOutput == Spec => NoChunkAfterStatus
<1>1. TypeOK /\ Inv /\ [Next]_vars =>
        [\A c \in Calls, s \in Streams :
           status[c] # NoCode => chunks'[c][s] \subseteq chunks[c][s]]_vars
  BY QuietStep DEF Quiet
<1> QED
  BY <1>1, InvHolds, TypeCorrect, PTL DEF Spec, NoChunkAfterStatus

-----------------------------------------------------------------------------
(* The concurrency limit: an agent about to claim has a slot free, and keeps *)
(* it until it claims because nobody else hands it work.                     *)

SlotKept ==
  \A h \in Hosts :
    /\ Cardinality(InFlight(h)) <= Slots
    /\ host[h] = "claiming" => Cardinality(InFlight(h)) < Slots

Calmer ==
  \A g \in Hosts :
    /\ InFlight(g)' \subseteq InFlight(g)
    /\ host'[g] = "claiming" => host[g] = "claiming"

LEMMA CalmerStep ==
  ASSUME TypeOK, [Next]_vars, \A h \in Hosts : ~Poll(h) /\ ~Claim(h)
  PROVE  Calmer
<1> USE DEF Calmer, InFlight, BusyWorker, TypeOK, HostTypes, WorkerTypes, vars, hostVars, workerVars
<1>1. ASSUME NEW c \in Calls, Begin(c)
       PROVE  Calmer
  BY <1>1 DEF Begin
<1>2. ASSUME NEW c \in Calls, Submit(c)
       PROVE  Calmer
  BY <1>2 DEF Submit
<1>3. ASSUME NEW c \in Calls, CheckStatus(c)
       PROVE  Calmer
  BY <1>3 DEF CheckStatus
<1>4. ASSUME NEW c \in Calls, ListChunks(c)
       PROVE  Calmer
  BY <1>4 DEF ListChunks
<1>5. ASSUME NEW c \in Calls, DrainChunk(c)
       PROVE  Calmer
  BY <1>5 DEF DrainChunk
<1>6. ASSUME NEW c \in Calls, DrainDone(c)
       PROVE  Calmer
  BY <1>6 DEF DrainDone, StatusBefore
<1>7. ASSUME NEW c \in Calls, Leave(c)
       PROVE  Calmer
  BY <1>7 DEF Leave, Ending
<1>8. ASSUME NEW c \in Calls, Interrupt(c)
       PROVE  Calmer
  BY <1>8 DEF Interrupt, Active
<1>9. ASSUME NEW h \in Hosts, AgentFails(h)
       PROVE  Calmer
  BY <1>9 DEF AgentFails
<1>10. ASSUME NEW h \in Hosts, SeeStop(h)
       PROVE  Calmer
  BY <1>10 DEF SeeStop
<1>11. ASSUME NEW c \in Calls, Refuse(c)
       PROVE  Calmer
  BY <1>11 DEF Refuse
<1>12. ASSUME NEW c \in Calls, Spawn(c)
       PROVE  Calmer
  BY <1>12 DEF Spawn, Sources
<1>13. ASSUME NEW c \in Calls, Fail(c)
       PROVE  Calmer
  BY <1>13 DEF Fail
<1>14. ASSUME NEW c \in Calls, Join(c)
       PROVE  Calmer
  BY <1>14 DEF Join, ThreadsEnded
<1>15. ASSUME NEW c \in Calls, Reply(c)
       PROVE  Calmer
  BY <1>15 DEF Reply
<1>16. ASSUME NEW c \in Calls, RemoveClaim(c)
       PROVE  Calmer
  BY <1>16 DEF RemoveClaim
<1>17. ASSUME NEW c \in Calls, NEW s \in Streams, Publish(c, s)
       PROVE  Calmer
  BY <1>17 DEF Publish
<1>18. ASSUME NEW c \in Calls, NEW s \in Streams, ReaderEnds(c, s)
       PROVE  Calmer
  BY <1>18 DEF ReaderEnds
<1>19. ASSUME NEW c \in Calls, ChildExits(c)
       PROVE  Calmer
  BY <1>19 DEF ChildExits
<1>20. ASSUME NEW c \in Calls, PumpEnds(c)
       PROVE  Calmer
  BY <1>20 DEF PumpEnds
<1>21. ASSUME NEW c \in Calls, NEW s \in Streams, Write(c, s)
       PROVE  Calmer
  BY <1>21 DEF Write
<1>22. ASSUME NEW c \in Calls, NEW s \in Streams, Release(c, s)
       PROVE  Calmer
  BY <1>22 DEF Release
<1>23. ASSUME NEW h \in Hosts, Create(h)
       PROVE  Calmer
  BY <1>23 DEF Create, Sweep
<1>24. ASSUME NEW h \in Hosts, Boot(h)
       PROVE  Calmer
  BY <1>24 DEF Boot
<1>25. ASSUME NEW h \in Hosts, Serve(h)
       PROVE  Calmer
  BY <1>25 DEF Serve
<1>26. ASSUME NEW h \in Hosts, Stop(h)
       PROVE  Calmer
  BY <1>26 DEF Stop
<1>27. ASSUME NEW h \in Hosts, CleanAfterExit(h)
       PROVE  Calmer
  BY <1>27 DEF CleanAfterExit, Joined, EmptySpool
<1>28. ASSUME NEW h \in Hosts, Cleaned(h)
       PROVE  Calmer
  BY <1>28 DEF Cleaned
<1>29. ASSUME NEW h \in Hosts, SkipCleanup(h)
       PROVE  Calmer
  BY <1>29 DEF SkipCleanup, Joined
<1>30. ASSUME NEW h \in Hosts, ExitProcess(h)
       PROVE  Calmer
  BY <1>30 DEF ExitProcess, Die
<1>31. ASSUME NEW h \in Hosts, Crash(h)
       PROVE  Calmer
  BY <1>31 DEF Crash, Die
<1>32. ASSUME NEW h \in Cleaners, RemoveResponse(h)
       PROVE  Calmer
  BY <1>32 DEF RemoveResponse
<1>33. ASSUME NEW h \in Cleaners, AbandonCleanup(h)
       PROVE  Calmer
  BY <1>33 DEF AbandonCleanup
<1>34. CASE Clean
  BY <1>34 DEF Clean, EmptySpool
<1>35. CASE UNCHANGED vars
  BY <1>35
<1> QED
  BY <1>1, <1>2, <1>3, <1>4, <1>5, <1>6, <1>7, <1>8, <1>9, <1>10, <1>11, <1>12, <1>13, <1>14, <1>15, <1>16, <1>17, <1>18, <1>19, <1>20, <1>21, <1>22, <1>23, <1>24, <1>25, <1>26, <1>27, <1>28, <1>29, <1>30, <1>31, <1>32, <1>33, <1>34, <1>35
  DEF Next, Client, Worker, Command, Agent, Leaving

LEMMA InFlightCounted ==
  ASSUME NEW h \in Hosts
  PROVE  /\ IsFiniteSet(InFlight(h))
         /\ Cardinality(InFlight(h)) \in Nat
  BY CallsAssumption, FS_Subset, FS_CardinalityType DEF InFlight

LEMMA SlotKeptStep ==
  ASSUME TypeOK, SlotKept, [Next]_vars
  PROVE  SlotKept'
<1>1. Slots \in Nat \ {0}
  BY ConcurrencyAssumption DEF Slots
<1>2. CASE \A h \in Hosts : ~Poll(h) /\ ~Claim(h)
  <2> SUFFICES ASSUME NEW g \in Hosts
               PROVE  SlotKept!(g)'
    BY DEF SlotKept
  <2>1. InFlight(g)' \subseteq InFlight(g) /\ (host'[g] = "claiming" => host[g] = "claiming")
    BY <1>2, CalmerStep DEF Calmer
  <2>2. Cardinality(InFlight(g)') \in Nat /\ Cardinality(InFlight(g)') <= Cardinality(InFlight(g))
    BY <2>1, InFlightCounted, FS_Subset, FS_CardinalityType
  <2> QED
    BY <1>1, <2>1, <2>2, InFlightCounted DEF SlotKept
<1>3. ASSUME NEW h \in Hosts, Poll(h)
      PROVE  SlotKept'
  <2>1. \A g \in Hosts : InFlight(g)' = InFlight(g)
    BY <1>3 DEF Poll, InFlight, workerVars
  <2>2. Cardinality(InFlight(h)) < Slots
    BY <1>3 DEF Poll, HasSlot
  <2>3. \A g \in Hosts : g # h => host'[g] = host[g]
    BY <1>3 DEF Poll, TypeOK, HostTypes
  <2> QED
    BY <2>1, <2>2, <2>3 DEF SlotKept
<1>4. ASSUME NEW h \in Hosts, Claim(h)
      PROVE  SlotKept'
  <2> DEFINE c == target[h]
  <2>1. /\ host[h] = "claiming" /\ host'[h] = "polling"
        /\ \A g \in Hosts : g # h => host'[g] = host[g]
    BY <1>4 DEF Claim, TypeOK, HostTypes
  <2>2. InFlight(h)' \subseteq InFlight(h) \cup {c}
    BY <1>4 DEF Claim, InFlight, BusyWorker, TypeOK, WorkerTypes
  <2>3. \A g \in Hosts : g # h => InFlight(g)' \subseteq InFlight(g)
    BY <1>4 DEF Claim, InFlight, BusyWorker, TypeOK, WorkerTypes
  <2>4. /\ Cardinality(InFlight(h)') \in Nat
        /\ Cardinality(InFlight(h)') <= Cardinality(InFlight(h)) + 1
    <3>1. /\ IsFiniteSet(InFlight(h) \cup {c})
          /\ Cardinality(InFlight(h) \cup {c}) \in Nat
          /\ Cardinality(InFlight(h) \cup {c}) <= Cardinality(InFlight(h)) + 1
      BY InFlightCounted, FS_AddElement, FS_CardinalityType
    <3> QED
      BY <2>2, <3>1, InFlightCounted, FS_Subset, FS_CardinalityType
  <2>5. ASSUME NEW g \in Hosts, g # h
        PROVE  /\ Cardinality(InFlight(g)') \in Nat
               /\ Cardinality(InFlight(g)') <= Cardinality(InFlight(g))
    BY <2>3, <2>5, InFlightCounted, FS_Subset, FS_CardinalityType
  <2> SUFFICES ASSUME NEW g \in Hosts
               PROVE  SlotKept!(g)'
    BY DEF SlotKept
  <2>6. CASE g = h
    BY <1>1, <2>1, <2>4, <2>6, InFlightCounted DEF SlotKept
  <2>7. CASE g # h
    BY <1>1, <2>1, <2>5, <2>7, InFlightCounted DEF SlotKept
  <2> QED
    BY <2>6, <2>7
<1> QED
  BY <1>2, <1>3, <1>4

(* No more commands run at once than the manifest allows, per agent.         *)
THEOREM LimitHolds == Spec => []WithinLimit
<1>1. Init => SlotKept
  <2> SUFFICES ASSUME Init, NEW h \in Hosts
               PROVE  SlotKept!(h)
    BY DEF SlotKept
  <2>1. InFlight(h) = {}
    BY DEF Init, InFlight, BusyWorker
  <2> QED
    BY <2>1, FS_EmptySet, ConcurrencyAssumption DEF Init, Slots
<1>2. SlotKept => WithinLimit
  BY DEF SlotKept, WithinLimit
<1> QED
  BY <1>1, <1>2, SlotKeptStep, TypeCorrect, PTL DEF Spec

=============================================================================
