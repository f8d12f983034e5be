---------------------------- MODULE SessionProofs ----------------------------
(***************************************************************************)
(* Proofs about Session: for any number of processes, whatever crashes.    *)
(***************************************************************************)
EXTENDS Session, TLAPS, FiniteSetTheorems

-----------------------------------------------------------------------------
(* Type correctness.  There are no more directories than processes that got  *)
(* past making one, and a process only locks what it found there.            *)

Makers == {p \in Procs : pc[p] \notin {"idle", "making", "clearing"} \cup Joining}

Counted ==
  /\ inodes <= Cardinality(Makers)
  /\ \A p \in Procs : pc[p] = "locking" => wanted[p] # 0

-----------------------------------------------------------------------------
(* While no two commands of the users overlap, one process at most is        *)
(* anywhere but idle, attached or serving, and each step of its boot finds   *)
(* what the step before it left.                                             *)

Alone == \A p, q \in Procs : UnderWay(p) /\ UnderWay(q) => p = q

Holds(p) == directory.inode = lock[p] /\ directory.rootfs

Phase(p) ==
  /\ pc[p] \in Booting \cup {"inspecting", "unlinking"} => ~Served
  /\ pc[p] \in {"opening", "locking", "cloning"} => Exists
  /\ pc[p] = "locking" => directory.inode = wanted[p] /\ directory.owner
  /\ pc[p] = "cloning" => directory.inode = lock[p] /\ directory.owner
  /\ pc[p] \in {"starting", "inspecting", "unlinking", "binding"} => Holds(p) /\ directory.owner
  /\ pc[p] = "unlinking" => socket # NoProc
  /\ pc[p] = "binding" => socket = NoProc
  /\ pc[p] # "failed"

Orderly == order # "hasty" => Alone /\ \A p \in Procs : Phase(p)

(* When besides nobody ran `clean --all', whoever boots or removes the       *)
(* directory does so while nobody else lives in it, since a socket that      *)
(* answers or a lock that is held would have told.                           *)

Disturbs(p) == pc[p] \in Booting \cup Running \cup {"removing"}

Settled(p) ==
  /\ command[p] # "clean --all"
  /\ Live(p) => Holds(p) /\ directory.owner
  /\ pc[p] = "serving" => socket = p

Calm ==
  order = "calm" => /\ \A p \in Procs : Settled(p)
                    /\ \A p, q \in Procs : Disturbs(p) /\ Live(q) => p = q

IInv == TypeOK /\ Counted /\ Orderly /\ Calm

LEMMA CountingStep ==
  ASSUME TypeOK, Counted, [Next]_vars
  PROVE  Counted'
<1> USE ProcsAssumption DEF vars, fileVars, procVars, Go, End, Joining, Ended
<1>1. IsFiniteSet(Makers) /\ IsFiniteSet(Makers') /\ Cardinality(Makers) \in Nat /\ Cardinality(Makers') \in Nat
  BY FS_Subset, FS_CardinalityType DEF Makers
<1>2. Makers \subseteq Makers'
  BY DEF Makers, TypeOK, Next, Join, Boot, Serve, Sweep, Start, Probe, Connect, Refused, Clear, Make, OpenOwner, LockOwner, CloneRootfs, StartVm, BootFails, Inspect, Unlink, Bind, BindFails, Look, Remove, Empty, Leave, Detach, Drop, Crash, Age
<1>3. inodes' = inodes \/ \E p \in Procs : Make(p) /\ inodes' = inodes + 1
  BY DEF Next, Join, Boot, Serve, Sweep, Start, Probe, Connect, Refused, Clear, Make, OpenOwner, LockOwner, CloneRootfs, StartVm, BootFails, Inspect, Unlink, Bind, BindFails, Look, Remove, Empty, Leave, Detach, Drop, Crash, Age
<1>4. inodes' <= Cardinality(Makers')
  <2>1. Cardinality(Makers) <= Cardinality(Makers')
    BY <1>1, <1>2, FS_Subset
  <2>2. ASSUME NEW p \in Procs, Make(p), inodes' = inodes + 1
        PROVE  inodes' <= Cardinality(Makers')
    <3>1. p \notin Makers /\ Makers \cup {p} \subseteq Makers'
      BY <1>2, <2>2 DEF Makers, Make, TypeOK
    <3>2. Cardinality(Makers \cup {p}) = Cardinality(Makers) + 1
      BY <1>1, <3>1, FS_AddElement
    <3>3. Cardinality(Makers \cup {p}) <= Cardinality(Makers')
      BY <1>1, <3>1, FS_Subset
    <3> QED
      BY <1>1, <2>2, <3>2, <3>3, FS_CardinalityType DEF Counted, TypeOK, Inodes
  <2> QED
    BY <1>1, <1>3, <2>1, <2>2, FS_CardinalityType DEF Counted, TypeOK, Inodes
<1>5. ASSUME NEW p \in Procs, pc'[p] = "locking"
      PROVE  wanted'[p] # 0
  BY <1>5 DEF Counted, TypeOK, Exists, Next, Join, Boot, Serve, Sweep, Start, Probe, Connect, Refused, Clear, Make, OpenOwner, LockOwner, CloneRootfs, StartVm, BootFails, Inspect, Unlink, Bind, BindFails, Look, Remove, Empty, Leave, Detach, Drop, Crash, Age
<1> QED
  BY <1>4, <1>5 DEF Counted

LEMMA TypingStep ==
  ASSUME TypeOK, Counted, [Next]_vars
  PROVE  TypeOK'
<1>0. inodes' \in Inodes /\ Cardinality(Procs) \in Nat
  <2>1. Counted'
    BY CountingStep
  <2>2. Makers' \subseteq Procs /\ IsFiniteSet(Makers')
    BY ProcsAssumption, FS_Subset DEF Makers
  <2>3. Cardinality(Makers') <= Cardinality(Procs) /\ Cardinality(Makers') \in Nat /\ Cardinality(Procs) \in Nat
    BY <2>2, ProcsAssumption, FS_Subset, FS_CardinalityType
  <2>4. inodes' \in Nat
    BY <2>3 DEF TypeOK, Inodes, Next, Join, Boot, Serve, Sweep, Start, Probe, Connect, Refused, Clear, Make, OpenOwner, LockOwner, CloneRootfs, StartVm, BootFails, Inspect, Unlink, Bind, BindFails, Look, Remove, Empty, Leave, Detach, Drop, Crash, Age, vars, fileVars, procVars, End
  <2> QED
    BY <2>1, <2>3, <2>4 DEF Counted, Inodes
<1> USE ProcsAssumption, CommandsAssumption DEF TypeOK, Counted, vars, fileVars, procVars, Go, End, Released, NoDirectory,
      States, Booting, Running, Joining, Sweeping, Ended, Inodes
<1>1. ASSUME NEW p \in Procs, Start(p)
      PROVE  TypeOK'
  <2>1. PICK c \in Commands : /\ pc' = [pc EXCEPT ![p] = IF c = "run" THEN "probing" ELSE "sweeping"]
                              /\ command' = [command EXCEPT ![p] = c] /\ order' = Order(c)
    BY <1>1 DEF Start
  <2>2. Order(c) \in {"calm", "thorough", "hasty"}
    BY DEF Order
  <2>3. /\ pc' \in [Procs -> States] /\ command' \in [Procs -> Commands \cup {"none"}]
        /\ \A q \in Procs : lock[q] # 0 <=> pc'[q] \in {"cloning", "starting"} \cup Running
    BY <1>1, <2>1 DEF Start
  <2> QED
    BY <1>1, <2>1, <2>2, <2>3 DEF Start
<1>2. ASSUME NEW p \in Procs, Probe(p)
      PROVE  TypeOK'
  BY <1>0, <1>2 DEF Probe
<1>3. ASSUME NEW p \in Procs, Connect(p)
      PROVE  TypeOK'
  BY <1>0, <1>3 DEF Connect
<1>4. ASSUME NEW p \in Procs, Refused(p)
      PROVE  TypeOK'
  BY <1>0, <1>4 DEF Refused
<1>5. ASSUME NEW p \in Procs, Clear(p)
      PROVE  TypeOK'
  BY <1>0, <1>5 DEF Clear
<1>6. ASSUME NEW p \in Procs, Make(p)
      PROVE  TypeOK'
  <2>1. /\ pc[p] = "making" /\ pc' = [pc EXCEPT ![p] = "opening"]
        /\ UNCHANGED <<order, socket, command, wanted, lock, peer>>
    BY <1>6 DEF Make
  <2>2. /\ pc' \in [Procs -> States]
        /\ \A q \in Procs : lock[q] # 0 <=> pc'[q] \in {"cloning", "starting"} \cup Running
    BY <2>1
  <2>3. /\ inodes' \in Inodes
        /\ directory' \in [inode : Inodes, owner : BOOLEAN, rootfs : BOOLEAN, young : BOOLEAN]
    <3>1. CASE Exists
      BY <1>6, <3>1 DEF Make
    <3>2. CASE ~Exists
      <4>1. inodes' = inodes + 1
        BY <1>6, <3>2 DEF Make
      <4>2. directory' = [inode |-> inodes', owner |-> FALSE, rootfs |-> FALSE, young |-> TRUE]
        BY <1>6, <3>2, <4>1 DEF Make
      <4>3. inodes' \in Inodes
        BY <1>0, <4>1
      <4> QED
        BY <4>2, <4>3
    <3> QED
      BY <3>1, <3>2
  <2> QED
    BY <2>1, <2>2, <2>3
<1>7. ASSUME NEW p \in Procs, OpenOwner(p)
      PROVE  TypeOK'
  BY <1>0, <1>7 DEF OpenOwner, Exists
<1>8. ASSUME NEW p \in Procs, LockOwner(p)
      PROVE  TypeOK'
  BY <1>0, <1>8 DEF LockOwner
<1>9. ASSUME NEW p \in Procs, CloneRootfs(p)
      PROVE  TypeOK'
  BY <1>0, <1>9 DEF CloneRootfs
<1>10. ASSUME NEW p \in Procs, StartVm(p)
      PROVE  TypeOK'
  BY <1>0, <1>10 DEF StartVm
<1>11. ASSUME NEW p \in Procs, BootFails(p)
      PROVE  TypeOK'
  BY <1>0, <1>11 DEF BootFails
<1>12. ASSUME NEW p \in Procs, Inspect(p)
      PROVE  TypeOK'
  BY <1>0, <1>12 DEF Inspect
<1>13. ASSUME NEW p \in Procs, Unlink(p)
      PROVE  TypeOK'
  BY <1>0, <1>13 DEF Unlink
<1>14. ASSUME NEW p \in Procs, Bind(p)
      PROVE  TypeOK'
  BY <1>0, <1>14 DEF Bind
<1>15. ASSUME NEW p \in Procs, BindFails(p)
      PROVE  TypeOK'
  BY <1>0, <1>15 DEF BindFails
<1>16. ASSUME NEW p \in Procs, Look(p)
      PROVE  TypeOK'
  BY <1>0, <1>16 DEF Look
<1>17. ASSUME NEW p \in Procs, Remove(p)
      PROVE  TypeOK'
  BY <1>0, <1>17 DEF Remove
<1>18. ASSUME NEW p \in Procs, Empty(p)
      PROVE  TypeOK'
  BY <1>0, <1>18 DEF Empty
<1>19. ASSUME NEW p \in Procs, Leave(p)
      PROVE  TypeOK'
  BY <1>0, <1>19 DEF Leave
<1>20. ASSUME NEW p \in Procs, Detach(p)
      PROVE  TypeOK'
  BY <1>0, <1>20 DEF Detach
<1>21. ASSUME NEW p \in Procs, Drop(p)
      PROVE  TypeOK'
  BY <1>0, <1>21 DEF Drop
<1>22. ASSUME NEW p \in Procs, Crash(p)
      PROVE  TypeOK'
  BY <1>0, <1>22 DEF Crash
<1>23. CASE Age
  BY <1>23 DEF Age
<1>24. CASE UNCHANGED vars
  BY <1>24
<1> QED
  BY <1>1, <1>2, <1>3, <1>4, <1>5, <1>6, <1>7, <1>8, <1>9, <1>10, <1>11, <1>12, <1>13, <1>14, <1>15, <1>16, <1>17, <1>18, <1>19, <1>20, <1>21, <1>22, <1>23, <1>24 DEF Next, Join, Boot, Serve, Sweep

LEMMA OrderlyStep ==
  ASSUME TypeOK, Orderly, Calm, [Next]_vars
  PROVE  Orderly'
<1> USE ProcsAssumption, CommandsAssumption DEF vars, fileVars, procVars, Go, End, Released, States, Booting, Running, Joining, Sweeping, Ended, TypeOK, Inodes, Orderly, Alone, Phase, Holds, UnderWay, Served, Exists, NoDirectory
<1>1. ASSUME NEW p \in Procs, Start(p)
      PROVE  Orderly'
  <2> SUFFICES ASSUME order' # "hasty", NEW r \in Procs
               PROVE  Phase(r)' /\ \A q \in Procs : (UnderWay(r) /\ UnderWay(q))' => r = q
    BY DEF Orderly, Alone
  <2>1. /\ order # "hasty" /\ Phase(p) /\ Phase(r)
        /\ pc'[r] = IF r = p THEN pc'[p] ELSE pc[r]
    BY <1>1 DEF Start, Orderly, TypeOK, Order
  <2>2. \A q \in Procs : q # p => ~UnderWay(q) /\ ~UnderWay(q)'
    BY <1>1, <2>1, ZenonT(30) DEF Start, Orderly, Alone, UnderWay, TypeOK, Ended, Order
  <2>3. ASSUME r = p
        PROVE  Phase(r)'
    BY <1>1, <2>1, <2>3 DEF Start, Phase, Holds, TypeOK, Inodes, Exists, Served, NoDirectory, Booting, Ended
  <2>4. ASSUME r # p
        PROVE  Phase(r)'
    BY <2>1, <2>2, <2>4 DEF Phase, UnderWay, Booting, Ended
  <2> QED
    BY <2>2, <2>3, <2>4
<1>2. ASSUME NEW p \in Procs, Probe(p)
      PROVE  Orderly'
  <2> SUFFICES ASSUME order' # "hasty", NEW r \in Procs
               PROVE  Phase(r)' /\ \A q \in Procs : (UnderWay(r) /\ UnderWay(q))' => r = q
    BY DEF Orderly, Alone
  <2>1. /\ order # "hasty" /\ Phase(p) /\ Phase(r)
        /\ pc'[r] = IF r = p THEN pc'[p] ELSE pc[r]
    BY <1>2 DEF Probe, Orderly, TypeOK
  <2>2. \A q \in Procs : q # p => ~UnderWay(q) /\ ~UnderWay(q)'
    BY <1>2, <2>1 DEF Probe, Orderly, Alone, UnderWay, TypeOK, Ended
  <2>3. ASSUME r = p
        PROVE  Phase(r)'
    BY <1>2, <2>1, <2>3 DEF Probe, Phase, Holds, TypeOK, Inodes, Exists, Served, NoDirectory, Booting, Ended, IsRunning
  <2>4. ASSUME r # p
        PROVE  Phase(r)'
    BY <2>1, <2>2, <2>4 DEF Phase, UnderWay, Booting, Ended
  <2> QED
    BY <2>2, <2>3, <2>4
<1>3. ASSUME NEW p \in Procs, Connect(p)
      PROVE  Orderly'
  BY <1>3 DEF Connect
<1>4. ASSUME NEW p \in Procs, Refused(p)
      PROVE  Orderly'
  BY <1>4 DEF Refused
<1>5. ASSUME NEW p \in Procs, Clear(p)
      PROVE  Orderly'
  BY <1>5 DEF Clear
<1>6. ASSUME NEW p \in Procs, Make(p)
      PROVE  Orderly'
  <2> SUFFICES ASSUME order' # "hasty", NEW r \in Procs
               PROVE  Phase(r)' /\ \A q \in Procs : (UnderWay(r) /\ UnderWay(q))' => r = q
    BY DEF Orderly, Alone
  <2>1. /\ order # "hasty" /\ Phase(p) /\ Phase(r)
        /\ pc'[r] = IF r = p THEN pc'[p] ELSE pc[r]
    BY <1>6 DEF Make, Orderly, TypeOK
  <2>2. \A q \in Procs : q # p => ~UnderWay(q) /\ ~UnderWay(q)'
    BY <1>6, <2>1 DEF Make, Orderly, Alone, UnderWay, TypeOK, Ended
  <2>3. ASSUME r = p
        PROVE  Phase(r)'
    <3>1. inodes + 1 # 0
      BY FS_CardinalityType DEF TypeOK, Inodes
    <3>2. pc'[p] = "opening" /\ ~Served /\ socket' = socket
      BY <1>6, <2>1 DEF Make, Phase, Booting, TypeOK
    <3>3. ~Served'
      BY <1>6, <3>2 DEF Make, Served, TypeOK
    <3>4. Exists'
      BY <1>6, <3>1, ZenonT(30) DEF Make, Exists, NoDirectory
    <3> QED
      BY <2>3, <3>2, <3>3, <3>4 DEF Phase
  <2>4. ASSUME r # p
        PROVE  Phase(r)'
    BY <2>1, <2>2, <2>4 DEF Phase, UnderWay, Booting, Ended
  <2> QED
    BY <2>2, <2>3, <2>4
<1>7. ASSUME NEW p \in Procs, OpenOwner(p)
      PROVE  Orderly'
  BY <1>7 DEF OpenOwner
<1>8. ASSUME NEW p \in Procs, LockOwner(p)
      PROVE  Orderly'
  BY <1>8 DEF LockOwner
<1>9. ASSUME NEW p \in Procs, CloneRootfs(p)
      PROVE  Orderly'
  BY <1>9 DEF CloneRootfs
<1>10. ASSUME NEW p \in Procs, StartVm(p)
      PROVE  Orderly'
  BY <1>10 DEF StartVm
<1>11. ASSUME NEW p \in Procs, BootFails(p)
      PROVE  Orderly'
  BY <1>11 DEF BootFails
<1>12. ASSUME NEW p \in Procs, Inspect(p)
      PROVE  Orderly'
  <2> SUFFICES ASSUME order' # "hasty", NEW r \in Procs
               PROVE  Phase(r)' /\ \A q \in Procs : (UnderWay(r) /\ UnderWay(q))' => r = q
    BY DEF Orderly, Alone
  <2>1. /\ order # "hasty" /\ Phase(p) /\ Phase(r)
        /\ pc'[r] = IF r = p THEN pc'[p] ELSE pc[r]
    BY <1>12 DEF Inspect, Orderly, TypeOK
  <2>2. \A q \in Procs : q # p => ~UnderWay(q) /\ ~UnderWay(q)'
    BY <1>12, <2>1 DEF Inspect, Orderly, Alone, UnderWay, TypeOK, Ended
  <2>3. ASSUME r = p
        PROVE  Phase(r)'
    BY <1>12, <2>1, <2>3 DEF Inspect, Phase, Holds, TypeOK, Inodes, Exists, Served, NoDirectory, Booting, Ended, Stale
  <2>4. ASSUME r # p
        PROVE  Phase(r)'
    BY <2>1, <2>2, <2>4 DEF Phase, UnderWay, Booting, Ended
  <2> QED
    BY <2>2, <2>3, <2>4
<1>13. ASSUME NEW p \in Procs, Unlink(p)
      PROVE  Orderly'
  BY <1>13 DEF Unlink
<1>14. ASSUME NEW p \in Procs, Bind(p)
      PROVE  Orderly'
  BY <1>14 DEF Bind
<1>15. ASSUME NEW p \in Procs, BindFails(p)
      PROVE  Orderly'
  BY <1>15 DEF BindFails
<1>16. ASSUME NEW p \in Procs, Look(p)
      PROVE  Orderly'
  BY <1>16 DEF Look
<1>17. ASSUME NEW p \in Procs, Remove(p)
      PROVE  Orderly'
  BY <1>17 DEF Remove
<1>18. ASSUME NEW p \in Procs, Empty(p)
      PROVE  Orderly'
  BY <1>18 DEF Empty
<1>19. ASSUME NEW p \in Procs, Leave(p)
      PROVE  Orderly'
  BY <1>19 DEF Leave
<1>20. ASSUME NEW p \in Procs, Detach(p)
      PROVE  Orderly'
  BY <1>20 DEF Detach
<1>21. ASSUME NEW p \in Procs, Drop(p)
      PROVE  Orderly'
  BY <1>21 DEF Drop
<1>22. ASSUME NEW p \in Procs, Crash(p)
      PROVE  Orderly'
  BY <1>22 DEF Crash
<1>23. CASE Age
  BY <1>23 DEF Age
<1>24. CASE UNCHANGED vars
  BY <1>24
<1> QED
  BY <1>1, <1>2, <1>3, <1>4, <1>5, <1>6, <1>7, <1>8, <1>9, <1>10, <1>11, <1>12, <1>13, <1>14, <1>15, <1>16, <1>17, <1>18, <1>19, <1>20, <1>21, <1>22, <1>23, <1>24 DEF Next, Join, Boot, Serve, Sweep

LEMMA OthersServe ==
  ASSUME Alone, NEW p \in Procs, UnderWay(p), NEW q \in Procs, q # p, Live(q)
  PROVE  pc[q] = "serving"
BY DEF Alone, UnderWay, Live, Running, Ended

LEMMA CalmEnd ==
  ASSUME TypeOK, Calm, NEW p \in Procs, NEW how \in Ended, End(p, how)
  PROVE  Calm'
<1> SUFFICES ASSUME order = "calm", NEW r \in Procs
             PROVE  /\ Settled(r)'
                    /\ \A q \in Procs : (Disturbs(r) /\ Live(q))' => r = q
  BY DEF Calm, End
<1>1. \A q \in Procs : pc'[q] = IF q = p THEN how ELSE pc[q]
  BY DEF TypeOK, End
<1>2. Settled(r)'
  <2>1. CASE r = p
    BY <1>1, <2>1 DEF TypeOK, End, Ended, Settled, Live, Running
  <2>2. CASE r # p
    BY <1>1, <2>2 DEF TypeOK, End, Settled, Live, Holds, Released, Calm, fileVars
  <2> QED
    BY <2>1, <2>2
<1>3. ASSUME NEW q \in Procs, (Disturbs(r) /\ Live(q))'
      PROVE  r = q
  BY <1>1, <1>3 DEF Calm, Disturbs, Live, Ended, Booting, Running
<1> QED
  BY <1>2, <1>3

LEMMA CalmStep ==
  ASSUME TypeOK, Orderly, Calm, [Next]_vars
  PROVE  Calm'
<1> USE ProcsAssumption, CommandsAssumption DEF vars, fileVars, procVars, Go
<1>1. ASSUME NEW p \in Procs, Start(p)
      PROVE  Calm'
  <2> SUFFICES ASSUME order' = "calm", NEW r \in Procs
               PROVE  /\ Settled(r)'
                      /\ \A q \in Procs : (Disturbs(r) /\ Live(q))' => r = q
    BY DEF Calm
  <2>1. /\ order = "calm"
        /\ \A q \in Procs : Settled(q) /\ Phase(q) /\ pc'[q] = IF q = p THEN pc'[p] ELSE pc[q]
        /\ \A s, q \in Procs : Disturbs(s) /\ Live(q) => s = q
        /\ Alone
    BY <1>1 DEF Start, Calm, Orderly, TypeOK, Order
  <2>2. ASSUME r = p PROVE Settled(r)'
    <3>1. Settled(p) /\ Phase(p)
      BY <2>1
    <3> QED
      <4>1. PICK c \in Commands : /\ command' = [command EXCEPT ![p] = c] /\ order' = Order(c)
                                  /\ pc'[p] \in {"probing", "sweeping"}
        BY <1>1 DEF Start, TypeOK
      <4>2. c # "clean --all"
        BY <2>1, <4>1 DEF Order
      <4> QED
        BY <2>2, <4>1, <4>2 DEF Settled, TypeOK, Live, Running
  <2>3. ASSUME r # p PROVE Settled(r)'
    <3>1. /\ Settled(r) /\ (Live(r)' <=> Live(r)) /\ pc'[r] = pc[r]
          /\ Disturbs(p) => ~Live(r)
      BY <2>1, <2>3 DEF Live
    <3> QED
      BY <1>1, <2>1, <2>3, <3>1, ZenonT(30) DEF Start, Settled, Disturbs, TypeOK, Holds, Booting, Running
  <2>4. Settled(r)'
    BY <2>2, <2>3
  <2>5. ASSUME NEW q \in Procs, (Disturbs(r) /\ Live(q))'
        PROVE  r = q
    BY <1>1, <2>1, <2>5 DEF Start, Disturbs, Live, TypeOK, Booting, Running
  <2> QED
    BY <2>4, <2>5
<1>2. ASSUME NEW p \in Procs, Probe(p)
      PROVE  Calm'
  <2> SUFFICES ASSUME order' = "calm", NEW r \in Procs
               PROVE  /\ Settled(r)'
                      /\ \A q \in Procs : (Disturbs(r) /\ Live(q))' => r = q
    BY DEF Calm
  <2>1. /\ order = "calm"
        /\ \A q \in Procs : Settled(q) /\ Phase(q) /\ pc'[q] = IF q = p THEN pc'[p] ELSE pc[q]
        /\ \A s, q \in Procs : Disturbs(s) /\ Live(q) => s = q
        /\ Alone
    BY <1>2 DEF Probe, Calm, Orderly, TypeOK
  <2>2. ASSUME r = p PROVE Settled(r)'
    <3>1. Settled(p) /\ Phase(p)
      BY <2>1
    <3> QED
      BY <1>2, <2>1, <2>2, <3>1 DEF Probe, Settled, TypeOK, Live, Holds, Phase, Exists, NoDirectory, Booting, Running
  <2>3. ASSUME r # p PROVE Settled(r)'
    <3>1. /\ Settled(r) /\ (Live(r)' <=> Live(r)) /\ pc'[r] = pc[r]
          /\ Disturbs(p) => ~Live(r)
      BY <2>1, <2>3 DEF Live
    <3> QED
      BY <1>2, <2>1, <2>3, <3>1 DEF Probe, Settled, Disturbs, TypeOK, Holds, Booting, Running
  <2>4. Settled(r)'
    BY <2>2, <2>3
  <2>5. ASSUME NEW q \in Procs, (Disturbs(r) /\ Live(q))'
        PROVE  r = q
    <3>1. CASE r = p
      <4>1. pc'[p] \in {"connecting", "clearing"} /\ UnderWay(p)
        BY <1>2, <2>1 DEF Probe, TypeOK, UnderWay, Ended
      <4>2. pc'[p] = "clearing" /\ ~Served
        BY <1>2, <2>1, <2>5, <3>1, <4>1 DEF Probe, IsRunning, Disturbs, TypeOK, Booting, Running
      <4>3. ASSUME q # p
            PROVE  FALSE
        <5>1. Live(q) /\ pc[q] = "serving"
          BY <2>1, <2>5, <4>1, <4>3, OthersServe DEF Live
        <5> QED
          BY <2>1, <4>2, <5>1 DEF Served, Settled
      <4> QED
        BY <3>1, <4>3
    <3>2. CASE r # p
      BY <1>2, <2>1, <2>5, <3>2 DEF Probe, Disturbs, Live, Running, TypeOK
    <3> QED
      BY <3>1, <3>2
  <2> QED
    BY <2>4, <2>5
<1>3. ASSUME NEW p \in Procs, Connect(p)
      PROVE  Calm'
  <2> SUFFICES ASSUME order' = "calm", NEW r \in Procs
               PROVE  /\ Settled(r)'
                      /\ \A q \in Procs : (Disturbs(r) /\ Live(q))' => r = q
    BY DEF Calm
  <2>1. /\ order = "calm"
        /\ \A q \in Procs : Settled(q) /\ Phase(q) /\ pc'[q] = IF q = p THEN pc'[p] ELSE pc[q]
        /\ \A s, q \in Procs : Disturbs(s) /\ Live(q) => s = q
        /\ Alone
    BY <1>3 DEF Connect, Calm, Orderly, TypeOK
  <2>2. ASSUME r = p PROVE Settled(r)'
    <3>1. Settled(p) /\ Phase(p)
      BY <2>1
    <3> QED
      BY <1>3, <2>1, <2>2, <3>1 DEF Connect, Settled, TypeOK, Live, Holds, Phase, Exists, NoDirectory, Booting, Running
  <2>3. ASSUME r # p PROVE Settled(r)'
    <3>1. /\ Settled(r) /\ (Live(r)' <=> Live(r)) /\ pc'[r] = pc[r]
          /\ Disturbs(p) => ~Live(r)
      BY <2>1, <2>3 DEF Live
    <3> QED
      BY <1>3, <2>1, <2>3, <3>1 DEF Connect, Settled, Disturbs, TypeOK, Holds, Booting, Running
  <2>4. Settled(r)'
    BY <2>2, <2>3
  <2>5. ASSUME NEW q \in Procs, (Disturbs(r) /\ Live(q))'
        PROVE  r = q
    BY <1>3, <2>1, <2>5 DEF Connect, Disturbs, Live, TypeOK, Booting, Running
  <2> QED
    BY <2>4, <2>5
<1>4. ASSUME NEW p \in Procs, Refused(p)
      PROVE  Calm'
  BY <1>4, CalmEnd DEF Refused, Ended
<1>5. ASSUME NEW p \in Procs, Clear(p)
      PROVE  Calm'
  <2> SUFFICES ASSUME order' = "calm", NEW r \in Procs
               PROVE  /\ Settled(r)'
                      /\ \A q \in Procs : (Disturbs(r) /\ Live(q))' => r = q
    BY DEF Calm
  <2>1. /\ order = "calm"
        /\ \A q \in Procs : Settled(q) /\ Phase(q) /\ pc'[q] = IF q = p THEN pc'[p] ELSE pc[q]
        /\ \A s, q \in Procs : Disturbs(s) /\ Live(q) => s = q
        /\ Alone
    BY <1>5 DEF Clear, Calm, Orderly, TypeOK
  <2>2. ASSUME r = p PROVE Settled(r)'
    <3>1. Settled(p) /\ Phase(p)
      BY <2>1
    <3> QED
      BY <1>5, <2>1, <2>2, <3>1, ZenonT(30) DEF Clear, Settled, TypeOK, Live, Holds, Phase, Exists, NoDirectory, Booting, Running
  <2>3. ASSUME r # p PROVE Settled(r)'
    <3>1. /\ Settled(r) /\ (Live(r)' <=> Live(r)) /\ pc'[r] = pc[r]
          /\ Disturbs(p) => ~Live(r)
      BY <2>1, <2>3 DEF Live
    <3> QED
      BY <1>5, <2>1, <2>3, <3>1 DEF Clear, Settled, Disturbs, TypeOK, Holds, Booting, Running
  <2>4. Settled(r)'
    BY <2>2, <2>3
  <2>5. ASSUME NEW q \in Procs, (Disturbs(r) /\ Live(q))'
        PROVE  r = q
    BY <1>5, <2>1, <2>5 DEF Clear, Disturbs, Live, TypeOK, Booting, Running
  <2> QED
    BY <2>4, <2>5
<1>6. ASSUME NEW p \in Procs, Make(p)
      PROVE  Calm'
  <2> SUFFICES ASSUME order' = "calm", NEW r \in Procs
               PROVE  /\ Settled(r)'
                      /\ \A q \in Procs : (Disturbs(r) /\ Live(q))' => r = q
    BY DEF Calm
  <2>1. /\ order = "calm"
        /\ \A q \in Procs : Settled(q) /\ Phase(q) /\ pc'[q] = IF q = p THEN pc'[p] ELSE pc[q]
        /\ \A s, q \in Procs : Disturbs(s) /\ Live(q) => s = q
        /\ Alone
    BY <1>6 DEF Make, Calm, Orderly, TypeOK
  <2>2. ASSUME r = p PROVE Settled(r)'
    <3>1. Settled(p) /\ Phase(p)
      BY <2>1
    <3> QED
      BY <1>6, <2>1, <2>2, <3>1, ZenonT(30) DEF Make, Settled, TypeOK, Live, Holds, Phase, Exists, NoDirectory, Booting, Running
  <2>3. ASSUME r # p PROVE Settled(r)'
    <3>1. /\ Settled(r) /\ (Live(r)' <=> Live(r)) /\ pc'[r] = pc[r]
          /\ Disturbs(p) => ~Live(r)
      BY <2>1, <2>3 DEF Live
    <3> QED
      BY <1>6, <2>1, <2>3, <3>1 DEF Make, Settled, Disturbs, TypeOK, Holds, Booting, Running
  <2>4. Settled(r)'
    BY <2>2, <2>3
  <2>5. ASSUME NEW q \in Procs, (Disturbs(r) /\ Live(q))'
        PROVE  r = q
    BY <1>6, <2>1, <2>5 DEF Make, Disturbs, Live, TypeOK, Booting, Running
  <2> QED
    BY <2>4, <2>5
<1>7. ASSUME NEW p \in Procs, OpenOwner(p)
      PROVE  Calm'
  <2> SUFFICES ASSUME order' = "calm", NEW r \in Procs
               PROVE  /\ Settled(r)'
                      /\ \A q \in Procs : (Disturbs(r) /\ Live(q))' => r = q
    BY DEF Calm
  <2>1. /\ order = "calm"
        /\ \A q \in Procs : Settled(q) /\ Phase(q) /\ pc'[q] = IF q = p THEN pc'[p] ELSE pc[q]
        /\ \A s, q \in Procs : Disturbs(s) /\ Live(q) => s = q
        /\ Alone
    BY <1>7 DEF OpenOwner, Calm, Orderly, TypeOK
  <2>2. ASSUME r = p PROVE Settled(r)'
    <3>1. Settled(p) /\ Phase(p)
      BY <2>1
    <3> QED
      BY <1>7, <2>1, <2>2, <3>1 DEF OpenOwner, Settled, TypeOK, Live, Holds, Phase, Exists, NoDirectory, Booting, Running
  <2>3. ASSUME r # p PROVE Settled(r)'
    <3>1. /\ Settled(r) /\ (Live(r)' <=> Live(r)) /\ pc'[r] = pc[r]
          /\ Disturbs(p) => ~Live(r)
      BY <2>1, <2>3 DEF Live
    <3> QED
      BY <1>7, <2>1, <2>3, <3>1 DEF OpenOwner, Settled, Disturbs, TypeOK, Holds, Booting, Running
  <2>4. Settled(r)'
    BY <2>2, <2>3
  <2>5. ASSUME NEW q \in Procs, (Disturbs(r) /\ Live(q))'
        PROVE  r = q
    BY <1>7, <2>1, <2>5 DEF OpenOwner, Disturbs, Live, TypeOK, Booting, Running
  <2> QED
    BY <2>4, <2>5
<1>8. ASSUME NEW p \in Procs, LockOwner(p)
      PROVE  Calm'
  <2> SUFFICES ASSUME order' = "calm", NEW r \in Procs
               PROVE  /\ Settled(r)'
                      /\ \A q \in Procs : (Disturbs(r) /\ Live(q))' => r = q
    BY DEF Calm
  <2>1. /\ order = "calm"
        /\ \A q \in Procs : Settled(q) /\ Phase(q) /\ pc'[q] = IF q = p THEN pc'[p] ELSE pc[q]
        /\ \A s, q \in Procs : Disturbs(s) /\ Live(q) => s = q
        /\ Alone
    BY <1>8 DEF LockOwner, Calm, Orderly, TypeOK
  <2>2. ASSUME r = p PROVE Settled(r)'
    <3>1. Settled(p) /\ Phase(p)
      BY <2>1
    <3> QED
      BY <1>8, <2>1, <2>2, <3>1 DEF LockOwner, Settled, TypeOK, Live, Holds, Phase, Exists, NoDirectory, Booting, Running
  <2>3. ASSUME r # p PROVE Settled(r)'
    <3>1. /\ Settled(r) /\ (Live(r)' <=> Live(r)) /\ pc'[r] = pc[r]
          /\ Disturbs(p) => ~Live(r)
      BY <2>1, <2>3 DEF Live
    <3> QED
      BY <1>8, <2>1, <2>3, <3>1 DEF LockOwner, Settled, Disturbs, TypeOK, Holds, Booting, Running
  <2>4. Settled(r)'
    BY <2>2, <2>3
  <2>5. ASSUME NEW q \in Procs, (Disturbs(r) /\ Live(q))'
        PROVE  r = q
    BY <1>8, <2>1, <2>5 DEF LockOwner, Disturbs, Live, TypeOK, Booting, Running
  <2> QED
    BY <2>4, <2>5
<1>9. ASSUME NEW p \in Procs, CloneRootfs(p)
      PROVE  Calm'
  <2> SUFFICES ASSUME order' = "calm", NEW r \in Procs
               PROVE  /\ Settled(r)'
                      /\ \A q \in Procs : (Disturbs(r) /\ Live(q))' => r = q
    BY DEF Calm
  <2>1. /\ order = "calm"
        /\ \A q \in Procs : Settled(q) /\ Phase(q) /\ pc'[q] = IF q = p THEN pc'[p] ELSE pc[q]
        /\ \A s, q \in Procs : Disturbs(s) /\ Live(q) => s = q
        /\ Alone
    BY <1>9 DEF CloneRootfs, Calm, Orderly, TypeOK
  <2>2. ASSUME r = p PROVE Settled(r)'
    <3>1. Settled(p) /\ Phase(p)
      BY <2>1
    <3> QED
      BY <1>9, <2>1, <2>2, <3>1 DEF CloneRootfs, Settled, TypeOK, Live, Holds, Phase, Exists, NoDirectory, Booting, Running
  <2>3. ASSUME r # p PROVE Settled(r)'
    <3>1. /\ Settled(r) /\ (Live(r)' <=> Live(r)) /\ pc'[r] = pc[r]
          /\ Disturbs(p) => ~Live(r)
      BY <2>1, <2>3 DEF Live
    <3> QED
      BY <1>9, <2>1, <2>3, <3>1 DEF CloneRootfs, Settled, Disturbs, TypeOK, Holds, Booting, Running
  <2>4. Settled(r)'
    BY <2>2, <2>3
  <2>5. ASSUME NEW q \in Procs, (Disturbs(r) /\ Live(q))'
        PROVE  r = q
    BY <1>9, <2>1, <2>5 DEF CloneRootfs, Disturbs, Live, TypeOK, Booting, Running
  <2> QED
    BY <2>4, <2>5
<1>10. ASSUME NEW p \in Procs, StartVm(p)
      PROVE  Calm'
  <2> SUFFICES ASSUME order' = "calm", NEW r \in Procs
               PROVE  /\ Settled(r)'
                      /\ \A q \in Procs : (Disturbs(r) /\ Live(q))' => r = q
    BY DEF Calm
  <2>1. /\ order = "calm"
        /\ \A q \in Procs : Settled(q) /\ Phase(q) /\ pc'[q] = IF q = p THEN pc'[p] ELSE pc[q]
        /\ \A s, q \in Procs : Disturbs(s) /\ Live(q) => s = q
        /\ Alone
    BY <1>10 DEF StartVm, Calm, Orderly, TypeOK
  <2>2. ASSUME r = p PROVE Settled(r)'
    <3>1. Settled(p) /\ Phase(p)
      BY <2>1
    <3> QED
      BY <1>10, <2>1, <2>2, <3>1 DEF StartVm, Settled, TypeOK, Live, Holds, Phase, Exists, NoDirectory, Booting, Running
  <2>3. ASSUME r # p PROVE Settled(r)'
    <3>1. /\ Settled(r) /\ (Live(r)' <=> Live(r)) /\ pc'[r] = pc[r]
          /\ Disturbs(p) => ~Live(r)
      BY <2>1, <2>3 DEF Live
    <3> QED
      BY <1>10, <2>1, <2>3, <3>1 DEF StartVm, Settled, Disturbs, TypeOK, Holds, Booting, Running
  <2>4. Settled(r)'
    BY <2>2, <2>3
  <2>5. ASSUME NEW q \in Procs, (Disturbs(r) /\ Live(q))'
        PROVE  r = q
    <3>1. Disturbs(p) /\ ~Live(p) /\ UnderWay(p)
      BY <1>10 DEF StartVm, Disturbs, Live, UnderWay, Booting, Running, Ended
    <3>2. \A t \in Procs : t # p => ~Live(t) /\ ~UnderWay(t) /\ pc'[t] = pc[t]
      BY <2>1, <3>1 DEF Alone
    <3>3. \A t \in Procs : t # p => ~Live(t)' /\ ~Disturbs(t)'
      BY <3>2 DEF Live, UnderWay, Disturbs, Booting, Running, Ended
    <3> QED
      BY <2>5, <3>3
  <2> QED
    BY <2>4, <2>5
<1>11. ASSUME NEW p \in Procs, BootFails(p)
      PROVE  Calm'
  BY <1>11, CalmEnd DEF BootFails, Ended
<1>12. ASSUME NEW p \in Procs, Inspect(p)
      PROVE  Calm'
  <2> SUFFICES ASSUME order' = "calm", NEW r \in Procs
               PROVE  /\ Settled(r)'
                      /\ \A q \in Procs : (Disturbs(r) /\ Live(q))' => r = q
    BY DEF Calm
  <2>1. /\ order = "calm"
        /\ \A q \in Procs : Settled(q) /\ Phase(q) /\ pc'[q] = IF q = p THEN pc'[p] ELSE pc[q]
        /\ \A s, q \in Procs : Disturbs(s) /\ Live(q) => s = q
        /\ Alone
    BY <1>12 DEF Inspect, Calm, Orderly, TypeOK
  <2>2. ASSUME r = p PROVE Settled(r)'
    <3>1. Settled(p) /\ Phase(p)
      BY <2>1
    <3> QED
      BY <1>12, <2>1, <2>2, <3>1 DEF Inspect, Settled, TypeOK, Live, Holds, Phase, Exists, NoDirectory, Booting, Running
  <2>3. ASSUME r # p PROVE Settled(r)'
    <3>1. /\ Settled(r) /\ (Live(r)' <=> Live(r)) /\ pc'[r] = pc[r]
          /\ Disturbs(p) => ~Live(r)
      BY <2>1, <2>3 DEF Live
    <3> QED
      BY <1>12, <2>1, <2>3, <3>1 DEF Inspect, Settled, Disturbs, TypeOK, Holds, Booting, Running
  <2>4. Settled(r)'
    BY <2>2, <2>3
  <2>5. ASSUME NEW q \in Procs, (Disturbs(r) /\ Live(q))'
        PROVE  r = q
    BY <1>12, <2>1, <2>5 DEF Inspect, Disturbs, Live, TypeOK, Booting, Running
  <2> QED
    BY <2>4, <2>5
<1>13. ASSUME NEW p \in Procs, Unlink(p)
      PROVE  Calm'
  <2> SUFFICES ASSUME order' = "calm", NEW r \in Procs
               PROVE  /\ Settled(r)'
                      /\ \A q \in Procs : (Disturbs(r) /\ Live(q))' => r = q
    BY DEF Calm
  <2>1. /\ order = "calm"
        /\ \A q \in Procs : Settled(q) /\ Phase(q) /\ pc'[q] = IF q = p THEN pc'[p] ELSE pc[q]
        /\ \A s, q \in Procs : Disturbs(s) /\ Live(q) => s = q
        /\ Alone
    BY <1>13 DEF Unlink, Calm, Orderly, TypeOK
  <2>2. ASSUME r = p PROVE Settled(r)'
    <3>1. Settled(p) /\ Phase(p)
      BY <2>1
    <3> QED
      BY <1>13, <2>1, <2>2, <3>1 DEF Unlink, Settled, TypeOK, Live, Holds, Phase, Exists, NoDirectory, Booting, Running
  <2>3. ASSUME r # p PROVE Settled(r)'
    <3>1. /\ Settled(r) /\ (Live(r)' <=> Live(r)) /\ pc'[r] = pc[r]
          /\ Disturbs(p) => ~Live(r)
      BY <2>1, <2>3 DEF Live
    <3> QED
      BY <1>13, <2>1, <2>3, <3>1 DEF Unlink, Settled, Disturbs, Live, TypeOK, Holds, Booting, Running
  <2>4. Settled(r)'
    BY <2>2, <2>3
  <2>5. ASSUME NEW q \in Procs, (Disturbs(r) /\ Live(q))'
        PROVE  r = q
    BY <1>13, <2>1, <2>5 DEF Unlink, Disturbs, Live, TypeOK, Booting, Running
  <2> QED
    BY <2>4, <2>5
<1>14. ASSUME NEW p \in Procs, Bind(p)
      PROVE  Calm'
  <2> SUFFICES ASSUME order' = "calm", NEW r \in Procs
               PROVE  /\ Settled(r)'
                      /\ \A q \in Procs : (Disturbs(r) /\ Live(q))' => r = q
    BY DEF Calm
  <2>1. /\ order = "calm"
        /\ \A q \in Procs : Settled(q) /\ Phase(q) /\ pc'[q] = IF q = p THEN pc'[p] ELSE pc[q]
        /\ \A s, q \in Procs : Disturbs(s) /\ Live(q) => s = q
        /\ Alone
    BY <1>14 DEF Bind, Calm, Orderly, TypeOK
  <2>2. ASSUME r = p PROVE Settled(r)'
    <3>1. Settled(p) /\ Phase(p)
      BY <2>1
    <3> QED
      BY <1>14, <2>1, <2>2, <3>1 DEF Bind, Settled, TypeOK, Live, Holds, Phase, Exists, NoDirectory, Booting, Running
  <2>3. ASSUME r # p PROVE Settled(r)'
    <3>1. /\ Settled(r) /\ (Live(r)' <=> Live(r)) /\ pc'[r] = pc[r]
          /\ Disturbs(p) => ~Live(r)
      BY <2>1, <2>3 DEF Live
    <3> QED
      BY <1>14, <2>1, <2>3, <3>1 DEF Bind, Settled, Disturbs, TypeOK, Holds, Booting, Running
  <2>4. Settled(r)'
    BY <2>2, <2>3
  <2>5. ASSUME NEW q \in Procs, (Disturbs(r) /\ Live(q))'
        PROVE  r = q
    BY <1>14, <2>1, <2>5 DEF Bind, Disturbs, Live, TypeOK, Booting, Running
  <2> QED
    BY <2>4, <2>5
<1>15. ASSUME NEW p \in Procs, BindFails(p)
      PROVE  Calm'
  BY <1>15, CalmEnd DEF BindFails, Ended
<1>16. ASSUME NEW p \in Procs, Look(p)
      PROVE  Calm'
  <2> SUFFICES ASSUME order' = "calm", NEW r \in Procs
               PROVE  /\ Settled(r)'
                      /\ \A q \in Procs : (Disturbs(r) /\ Live(q))' => r = q
    BY DEF Calm
  <2>1. /\ order = "calm"
        /\ \A q \in Procs : Settled(q) /\ Phase(q) /\ pc'[q] = IF q = p THEN pc'[p] ELSE pc[q]
        /\ \A s, q \in Procs : Disturbs(s) /\ Live(q) => s = q
        /\ Alone
    BY <1>16 DEF Look, Calm, Orderly, TypeOK
  <2>2. ASSUME r = p PROVE Settled(r)'
    <3>1. Settled(p) /\ Phase(p)
      BY <2>1
    <3> QED
      BY <1>16, <2>1, <2>2, <3>1 DEF Look, Settled, TypeOK, Live, Holds, Phase, Exists, NoDirectory, Booting, Running
  <2>3. ASSUME r # p PROVE Settled(r)'
    <3>1. /\ Settled(r) /\ (Live(r)' <=> Live(r)) /\ pc'[r] = pc[r]
          /\ Disturbs(p) => ~Live(r)
      BY <2>1, <2>3 DEF Live
    <3> QED
      BY <1>16, <2>1, <2>3, <3>1 DEF Look, Settled, Disturbs, TypeOK, Holds, Booting, Running
  <2>4. Settled(r)'
    BY <2>2, <2>3
  <2>5. ASSUME NEW q \in Procs, (Disturbs(r) /\ Live(q))'
        PROVE  r = q
    <3>1. CASE r = p
      <4>1. UnderWay(p) /\ pc'[p] \in {"removing", "emptying"}
        BY <1>16, <2>1 DEF Look, UnderWay, Ended, TypeOK
      <4>2. Exists /\ OwnerGone(p)
        BY <1>16, <2>5, <3>1, <4>1 DEF Look, Disturbs, Booting, Running, TypeOK
      <4>3. ASSUME q # p
            PROVE  FALSE
        <5>1. Live(q)
          BY <2>1, <2>5, <4>3 DEF Live
        <5>2. directory.inode = lock[q] /\ directory.owner
          BY <2>1, <5>1 DEF Settled, Holds
        <5> QED
          BY <4>2, <5>2 DEF OwnerGone, Lockless
      <4> QED
        BY <3>1, <4>3
    <3>2. CASE r # p
      BY <1>16, <2>1, <2>5, <3>2 DEF Look, Disturbs, Live, Running, TypeOK
    <3> QED
      BY <3>1, <3>2
  <2> QED
    BY <2>4, <2>5
<1>17. ASSUME NEW p \in Procs, Remove(p)
      PROVE  Calm'
  <2> SUFFICES ASSUME order' = "calm", NEW r \in Procs
               PROVE  /\ Settled(r)'
                      /\ \A q \in Procs : (Disturbs(r) /\ Live(q))' => r = q
    BY DEF Calm
  <2>1. /\ order = "calm"
        /\ \A q \in Procs : Settled(q) /\ Phase(q) /\ pc'[q] = IF q = p THEN pc'[p] ELSE pc[q]
        /\ \A s, q \in Procs : Disturbs(s) /\ Live(q) => s = q
        /\ Alone
    BY <1>17 DEF Remove, Calm, Orderly, TypeOK
  <2>2. ASSUME r = p PROVE Settled(r)'
    <3>1. Settled(p) /\ Phase(p)
      BY <2>1
    <3> QED
      BY <1>17, <2>1, <2>2, <3>1, ZenonT(30) DEF Remove, Settled, TypeOK, Live, Holds, Phase, Exists, NoDirectory, Booting, Running
  <2>3. ASSUME r # p PROVE Settled(r)'
    <3>1. /\ Settled(r) /\ (Live(r)' <=> Live(r)) /\ pc'[r] = pc[r]
          /\ Disturbs(p) => ~Live(r)
      BY <2>1, <2>3 DEF Live
    <3> QED
      BY <1>17, <2>1, <2>3, <3>1 DEF Remove, Settled, Disturbs, TypeOK, Holds, Booting, Running
  <2>4. Settled(r)'
    BY <2>2, <2>3
  <2>5. ASSUME NEW q \in Procs, (Disturbs(r) /\ Live(q))'
        PROVE  r = q
    BY <1>17, <2>1, <2>5 DEF Remove, Disturbs, Live, TypeOK, Booting, Running
  <2> QED
    BY <2>4, <2>5
<1>18. ASSUME NEW p \in Procs, Empty(p)
      PROVE  Calm'
  <2> SUFFICES ASSUME order' = "calm", NEW r \in Procs
               PROVE  /\ Settled(r)'
                      /\ \A q \in Procs : (Disturbs(r) /\ Live(q))' => r = q
    BY DEF Calm
  <2>1. /\ order = "calm"
        /\ \A q \in Procs : Settled(q) /\ Phase(q) /\ pc'[q] = IF q = p THEN pc'[p] ELSE pc[q]
        /\ \A s, q \in Procs : Disturbs(s) /\ Live(q) => s = q
        /\ Alone
    BY <1>18 DEF Empty, Calm, Orderly, TypeOK
  <2>2. ASSUME r = p PROVE Settled(r)'
    <3>1. Settled(p) /\ Phase(p)
      BY <2>1
    <3> QED
      BY <1>18, <2>1, <2>2, <3>1, ZenonT(30) DEF Empty, Settled, TypeOK, Live, Holds, Phase, Exists, NoDirectory, Booting, Running
  <2>3. ASSUME r # p PROVE Settled(r)'
    <3>1. /\ Settled(r) /\ (Live(r)' <=> Live(r)) /\ pc'[r] = pc[r]
          /\ Disturbs(p) => ~Live(r)
      BY <2>1, <2>3 DEF Live
    <3> QED
      BY <1>18, <2>1, <2>3, <3>1 DEF Empty, RemovesState, Settled, Disturbs, TypeOK, Holds, Booting, Running
  <2>4. Settled(r)'
    BY <2>2, <2>3
  <2>5. ASSUME NEW q \in Procs, (Disturbs(r) /\ Live(q))'
        PROVE  r = q
    BY <1>18, <2>1, <2>5 DEF Empty, Disturbs, Live, TypeOK, Booting, Running
  <2> QED
    BY <2>4, <2>5
<1>19. ASSUME NEW p \in Procs, Leave(p)
      PROVE  Calm'
  BY <1>19, CalmEnd DEF Leave, Ended
<1>20. ASSUME NEW p \in Procs, Detach(p)
      PROVE  Calm'
  BY <1>20, CalmEnd DEF Detach, Ended
<1>21. ASSUME NEW p \in Procs, Drop(p)
      PROVE  Calm'
  BY <1>21, CalmEnd DEF Drop, Ended
<1>22. ASSUME NEW p \in Procs, Crash(p)
      PROVE  Calm'
  BY <1>22, CalmEnd DEF Crash, Ended
<1>23. CASE Age
  BY <1>23 DEF Age, TypeOK, Inodes, Calm, Settled, Disturbs, Live, Holds
<1>24. CASE UNCHANGED vars
  BY <1>24 DEF Calm, Settled, Disturbs, Live, Holds
<1> QED
  BY <1>1, <1>2, <1>3, <1>4, <1>5, <1>6, <1>7, <1>8, <1>9, <1>10, <1>11, <1>12, <1>13, <1>14, <1>15, <1>16, <1>17, <1>18, <1>19, <1>20, <1>21, <1>22, <1>23, <1>24 DEF Next, Join, Boot, Serve, Sweep

-----------------------------------------------------------------------------
LEMMA IInvInit ==
  ASSUME Init
  PROVE  IInv
<1> USE ProcsAssumption DEF Init
<1>1. TypeOK
  BY FS_CardinalityType DEF TypeOK, Inodes, NoDirectory, States, Running
<1>2. Counted
  <2>1. Makers = {}
    BY DEF Makers
  <2> QED
    BY <2>1, FS_EmptySet DEF Counted
<1>3. Orderly
  BY DEF Orderly, Alone, Phase, UnderWay, Booting
<1>4. Calm
  BY DEF Calm, Settled, Disturbs, Live, Booting, Running
<1> QED
  BY <1>1, <1>2, <1>3, <1>4 DEF IInv

LEMMA IInvStep ==
  ASSUME IInv, [Next]_vars
  PROVE  IInv'
BY TypingStep, CountingStep, OrderlyStep, CalmStep DEF IInv

(* The four parts of IInv are kept by every step, each with those before it. *)
THEOREM Inductive == Spec => []IInv
BY IInvInit, IInvStep, PTL DEF Spec

(* A process is where its lock says: it has one exactly from LockOwner until *)
(* it ends, and the inode is never more than the processes that made one.    *)
THEOREM TypeCorrect == Spec => []TypeOK
<1>1. IInv => TypeOK
  BY DEF IInv
<1> QED
  BY <1>1, Inductive, PTL

(* While commands do not overlap, whatever crashed before, there is one VM:  *)
(* is_running and boot are two steps, but nothing comes between them.        *)
THEOREM SingleVm == Spec => []OneVmWhenCalm
<1>1. IInv => OneVmWhenCalm
  BY DEF IInv, Calm, Disturbs, Live, OneVmWhenCalm, OneVm
<1> QED
  BY <1>1, Inductive, PTL

(* A VM keeps the directory its process locked, through every sweep.         *)
THEOREM DirectoryKept == Spec => []KeptWhileLive
<1>1. IInv => KeptWhileLive
  BY DEF IInv, Calm, Settled, Holds, KeptWhileLive
<1> QED
  BY <1>1, Inductive, PTL

(* Clients find the owner that serves: no later socket takes its path.       *)
THEOREM SocketKept == Spec => []OwnerReachable
<1>1. IInv => OwnerReachable
  BY DEF IInv, Calm, Settled, OwnerReachable
<1> QED
  BY <1>1, Inductive, PTL

(* Nothing a crash or `clean --all' leaves behind makes a boot fail, as long *)
(* as no other command is under way with it.                                 *)
THEOREM BootsSucceed == Spec => []LaunchesSucceed
<1>1. IInv => LaunchesSucceed
  BY DEF IInv, Orderly, Phase, LaunchesSucceed
<1> QED
  BY <1>1, Inductive, PTL
=============================================================================
