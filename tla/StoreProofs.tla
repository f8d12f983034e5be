---------------------------- MODULE StoreProofs ----------------------------
(***************************************************************************)
(* What the image store keeps, proved for any number of builds, boots,     *)
(* cleans and provisioning processes, and of faults.                       *)
(*                                                                         *)
(* The parts of the invariant speak of the image store alone, so they      *)
(* serve both Spec (builds, boots and cleans) and LibrarySpec (the same,   *)
(* and provisioning, in LibraryProofs): types; whose the lock is; which    *)
(* blobs must be there; what is kept under a name; who has to reclaim.     *)
(***************************************************************************)
EXTENDS Library, SequenceTheorems, TLAPS

Names == {"debian", "claude", "project"}
Digests == Rootfs \cup {InitImage(version) : version \in References}

Locals ==
  [plan : {1, 2}, wrote : Nat, keyed : Seq(0..2), base : Rootfs, start : {0, 1}, seen : Seq(0..2),
   rootfs : Rootfs, kept : SUBSET Digests]
Snapshot == [key : Rootfs \X {1, 2} \X {0, 1} \X Seq(0..2), rootfs : Rootfs]

\* TypeOver, and what it leaves open.
BlobsTyped == \A blob \in blobs : blob[1] \in Digests /\ blob[2] \in {"index", "layer"}
TagsTyped ==
  /\ DOMAIN tags \subseteq Names \cup References
  /\ \A t \in DOMAIN tags : tags[t] \in Digests /\ (t \in Names => tags[t] \in Rootfs)
SnapshotsTyped ==
  /\ snapshots \in Seq(Snapshot)
  /\ \A i, j \in DOMAIN snapshots : snapshots[i].key = snapshots[j].key => i = j
RecordsTyped == \A k \in DOMAIN records : records[k] \in Rootfs
UnpackedTyped == \A d \in DOMAIN unpacked : d \in Rootfs /\ unpacked[d] = d
LocksTyped ==
  /\ context \in [Scripts -> 0..2] /\ disturbed \subseteq Builders /\ faults \in 0..MaxFaults
  /\ building \subseteq Builders /\ reclaiming \in Builders \cup Cleaners \cup {NoProc}
\* Where a build has scripts keyed and copied.
LocalsOK(b) ==
  /\ pc[b] \in {"idle", "truncating", "filling"} => job[b].keyed = <<>>
  /\ pc[b] = "keying" => Len(job[b].keyed) < ScriptCount
  /\ pc[b] = "stepping" => job[b].start = 0
  /\ pc[b] # "stepping" => job[b].seen = <<>>
PlacesTyped ==
  /\ DOMAIN pc = Procs
  /\ job \in [Procs -> Locals]
  /\ \A b \in Builders : LocalsOK(b)
Typing ==
  /\ BlobsTyped /\ TagsTyped /\ SnapshotsTyped /\ RecordsTyped /\ UnpackedTyped
  /\ LocksTyped /\ PlacesTyped

\* A build shares the lock from before its pull to its end; who deletes has
\* it to itself.
LockOf(p) ==
  /\ pc[p] \in Sharing => p \in Builders
  /\ p \in Builders => (p \in building <=> pc[p] \in Sharing)
  /\ pc[p] = "deleting" <=> reclaiming = p
LocksOK == (\A p \in Procs : LockOf(p)) /\ (reclaiming # NoProc => building = {})

\* The blobs of the tags in T, of bases in use and of images about to be tagged.
Complete(T) == \A t \in DOMAIN tags : t \in T => Holds(tags[t])
BlobsOf(b) ==
  /\ pc[b] \in UsingBase => Holds(job[b].base)
  /\ pc[b] \in {"storing", "retagging"} => Holds(job[b].rootfs)
BlobsOK == \A b \in Builders : BlobsOf(b)

\* What a build that nobody disturbs writes of the context is there when it keys
\* it, and still when it copies it.
Filled == {"keying", "locking", "pulling", "tagging", "looking", "restoring", "unpacking", "stepping"}
KeyedOK(b) ==
  /\ pc[b] = "idle" => job[b].wrote = 0
  /\ job[b].plan = 1 /\ b \notin disturbed =>
       /\ pc[b] \in {"truncating", "filling"} =>
            \A s \in Scripts : s <= job[b].wrote => context[s] = Version(b)
       /\ pc[b] \in Filled => context = Whole(Version(b))
       /\ pc[b] = "keying" => \A i \in DOMAIN job[b].keyed : job[b].keyed[i] = Version(b)
       /\ pc[b] \in Sharing \cup {"locking"} => job[b].keyed = Whole(Version(b))
       /\ pc[b] = "stepping" => \A i \in DOMAIN job[b].seen : job[b].seen[i] = Version(b)
\* Its rootfs is as far as the step it is at, excepting what builds in X did.
Finished == {"ingesting", "storing", "saving", "writing", "retagging"}
JobOK(b, X) ==
  /\ pc[b] = "tagging" => job[b].plan = 1
  /\ pc[b] \in Sharing \ {"pulling"} => job[b].base # <<>>
  /\ pc[b] = "stepping" =>
       Follows(job[b].rootfs, job[b].base, job[b].plan, 0, {job[b].keyed} \cap Releases, X)
  /\ pc[b] \in Finished =>
       Follows(job[b].rootfs, job[b].base, job[b].plan, 1, {job[b].keyed} \cap Releases, X)
\* CacheHonest, part by part; no image is empty.
MadeBy(d, plan, X) == Len(d) > 1 /\ Follows(d, SubSeq(d, 1, Len(d) - 1), plan, 1, Releases, X)
TagsHonest(X) ==
  /\ \A t \in DOMAIN tags : t \in Names => tags[t] # <<>>
  /\ \A n \in {1, 2} : Plans[n].tag \in DOMAIN tags => MadeBy(tags[Plans[n].tag], n, X)
SnapshotsHonest(X) == \A i \in DOMAIN snapshots : LET k == snapshots[i].key IN
  Follows(snapshots[i].rootfs, k[1], k[2], k[3], {k[4]} \cap Releases, X)
RecordsHonest(X) == \A k \in DOMAIN records :
  records[k] # Torn => Follows(records[k], k[1], k[2], k[3], {k[4]} \cap Releases, X)
HonestBut(X) ==
  /\ \A b \in Builders : JobOK(b, X)
  /\ TagsHonest(X) /\ SnapshotsHonest(X) /\ RecordsHonest(X)
RunningHonest == \A s \in Booters : pc[s] = "running" => job[s].rootfs = job[s].base
AllKeyed == \A b \in Builders : KeyedOK(b)
HonestInv == AllKeyed /\ HonestBut(disturbed) /\ RunningHonest

\* Until a build has taken the lock nothing is promised; from then on, unless
\* somebody died, no blob is left, or somebody still has to delete what is.
Untouched == \A b \in Builders : pc[b] \in {"away", "idle", "truncating", "filling", "keying", "locking"}
Owing(p) ==
  \/ p \in Builders /\ pc[p] \in Sharing \cup {"listing", "dropping", "reclaiming"}
  \/ pc[p] \in {"deleting", "failed"}
ReclaimOK == Untouched \/ blobs \subseteq Referenced \/ \E p \in Builders \cup Cleaners : Owing(p)

-----------------------------------------------------------------------------
(* Lemmas about the operators of the model. *)

LEMMA PlansAre ==
  /\ DOMAIN Plans = {1, 2} /\ Len(Plans) = 2
  /\ \A n \in {1, 2} : Len(Plans[n].reads) = 1 /\ DOMAIN Plans[n].reads = {1}
  /\ Plans[1].base = "debian" /\ Plans[1].tag = "claude"
  /\ Plans[2].base = "claude" /\ Plans[2].tag = "project"
  /\ Plans[1].reads[1] = TRUE /\ Plans[2].reads[1] = FALSE
<1>1. Plans[1].reads = <<TRUE>> /\ Plans[2].reads = <<FALSE>>
  BY DEF Plans
<1>2. /\ DOMAIN Plans = {1, 2} /\ Len(Plans) = 2
      /\ \A n \in {1, 2} : Len(Plans[n].reads) = 1 /\ DOMAIN Plans[n].reads = {1}
      /\ Plans[1].base = "debian" /\ Plans[1].tag = "claude"
      /\ Plans[2].base = "claude" /\ Plans[2].tag = "project"
  BY DEF Plans
<1>3. <<TRUE>>[1] = TRUE /\ <<FALSE>>[1] = FALSE
  OBVIOUS
<1> QED BY <1>1, <1>2, <1>3

\* Only the first plan reads the context.
LEMMA ReadersAre ==
  ASSUME NEW p, job[p].plan \in {1, 2}
  PROVE  ReadsContext(p) <=> job[p].plan = 1
BY PlansAre DEF ReadsContext, Plan

LEMMA VersionIs == \A b : Version(b) \in 1..2 /\ Whole(Version(b)) \in Releases
BY DEF Version, Releases

LEMMA ScriptsAre == ScriptCount \in Nat /\ ScriptCount > 0 /\ Scripts = 1..ScriptCount
BY BoundsAssumption DEF Scripts

LEMMA WholeIs ==
  ASSUME NEW S, NEW s \in Seq(S), NEW release, Len(s) = ScriptCount, \A i \in DOMAIN s : s[i] = release
  PROVE  s = Whole(release)
<1>1. DOMAIN s = Scripts
  BY ScriptsAre
<1>2. s = [i \in Scripts |-> s[i]]
  BY <1>1
<1> QED BY <1>1, <1>2 DEF Whole

\* What is used now comes first: the same snapshots, each once.
LEMMA TouchedKeeps ==
  ASSUME snapshots \in Seq(Snapshot), NEW key, key \in Held
  PROVE  /\ Touched(key) \in Seq(Snapshot)
         /\ Found(key).key = key
         /\ \E i \in DOMAIN snapshots : Found(key) = snapshots[i]
         /\ \A i \in DOMAIN Touched(key) : \E j \in DOMAIN snapshots : Touched(key)[i] = snapshots[j]
         /\ (\A i, j \in DOMAIN snapshots : snapshots[i].key = snapshots[j].key => i = j)
              => \A i, j \in DOMAIN Touched(key) : Touched(key)[i].key = Touched(key)[j].key => i = j
<1> DEFINE at == Place(key)
           before == SubSeq(snapshots, 1, at - 1)
           after == SubSeq(snapshots, at + 1, Len(snapshots))
           rest == before \o after
           all == <<snapshots[at]>> \o rest
<1>1. at \in DOMAIN snapshots /\ snapshots[at].key = key
  BY DEF Place, Held
<1> HIDE DEF at
<1>2. at \in 1..Len(snapshots)
  BY <1>1
<1>3. /\ before \in Seq(Snapshot) /\ Len(before) = at - 1
      /\ \A i \in 1..(at - 1) : before[i] = snapshots[i]
  BY <1>2
<1>4. /\ after \in Seq(Snapshot) /\ Len(after) = Len(snapshots) - at
      /\ \A i \in 1..(Len(snapshots) - at) : after[i] = snapshots[at + i]
  BY <1>2
<1> HIDE DEF before, after
<1>5. /\ rest \in Seq(Snapshot) /\ Len(rest) = Len(snapshots) - 1
      /\ \A i \in 1..(Len(snapshots) - 1) :
           rest[i] = IF i < at THEN snapshots[i] ELSE snapshots[i + 1]
  <2>1. rest \in Seq(Snapshot) /\ Len(rest) = Len(snapshots) - 1
    BY <1>2, <1>3, <1>4
  <2>2. ASSUME NEW i \in 1..(Len(snapshots) - 1)
        PROVE  rest[i] = IF i < at THEN snapshots[i] ELSE snapshots[i + 1]
    <3>1. rest[i] = IF i <= Len(before) THEN before[i] ELSE after[i - Len(before)]
      BY <1>2, <1>3, <1>4, <2>2, ConcatProperties
    <3>2. CASE i < at
      BY <3>1, <3>2, <1>2, <1>3, <2>2
    <3>3. CASE i >= at
      BY <3>1, <3>3, <1>2, <1>3, <1>4, <2>2
    <3>4. i < at \/ i >= at
      BY <1>2, <2>2
    <3> QED BY <3>2, <3>3, <3>4
  <2> QED BY <2>1, <2>2
<1> HIDE DEF rest
<1>6. /\ all \in Seq(Snapshot) /\ Len(all) = Len(snapshots)
      /\ \A i \in 1..Len(snapshots) : all[i] = IF i = 1 THEN snapshots[at] ELSE rest[i - 1]
  <2>1. snapshots[at] \in Snapshot
    BY <1>1, ElementOfSeq
  <2>2. <<snapshots[at]>> \in Seq(Snapshot) /\ Len(<<snapshots[at]>>) = 1
    BY <2>1
  <2>3. all \in Seq(Snapshot) /\ Len(all) = Len(snapshots)
    BY <2>2, <1>2, <1>5, ConcatProperties
  <2>4. ASSUME NEW i \in 1..Len(snapshots)
        PROVE  all[i] = IF i = 1 THEN snapshots[at] ELSE rest[i - 1]
    BY <2>2, <2>4, <1>2, <1>5, ConcatProperties
  <2> QED BY <2>3, <2>4
<1>7. Touched(key) = all /\ Found(key) = snapshots[at]
  BY DEF Touched, Found, RemoveAt, at, all, rest, before, after
<1> HIDE DEF all
<1> DEFINE from(i) == IF i = 1 THEN at ELSE IF i <= at THEN i - 1 ELSE i
<1>8. \A i \in 1..Len(snapshots) : from(i) \in 1..Len(snapshots) /\ all[i] = snapshots[from(i)]
  BY <1>2, <1>5, <1>6
<1>9. \A i, j \in 1..Len(snapshots) : from(i) = from(j) => i = j
  BY <1>2
<1>10. DOMAIN all = 1..Len(snapshots) /\ DOMAIN snapshots = 1..Len(snapshots)
  BY <1>6
<1> HIDE DEF from
<1>11. \A i \in DOMAIN all : \E j \in DOMAIN snapshots : all[i] = snapshots[j]
  BY <1>8, <1>10
<1>12. ASSUME \A i, j \in DOMAIN snapshots : snapshots[i].key = snapshots[j].key => i = j,
              NEW i \in DOMAIN all, NEW j \in DOMAIN all, all[i].key = all[j].key
       PROVE  i = j
  <2>1. from(i) = from(j)
    BY <1>8, <1>10, <1>12
  <2> QED BY <2>1, <1>9, <1>10
<1> QED BY <1>1, <1>6, <1>7, <1>11, <1>12

\* What is kept anew comes first; what is kept already is only touched.
LEMMA SavedOnce ==
  ASSUME snapshots \in Seq(Snapshot), faults \in 0..MaxFaults,
         \A i, j \in DOMAIN snapshots : snapshots[i].key = snapshots[j].key => i = j,
         NEW key, NEW rootfs, [key |-> key, rootfs |-> rootfs] \in Snapshot,
         SaveRootfs(rootfs, key)
  PROVE  /\ snapshots' \in Seq(Snapshot) /\ faults' \in 0..MaxFaults
         /\ \A i, j \in DOMAIN snapshots' : snapshots'[i].key = snapshots'[j].key => i = j
         /\ \A i \in DOMAIN snapshots' :
              \/ snapshots'[i] = [key |-> key, rootfs |-> rootfs]
              \/ \E j \in DOMAIN snapshots : snapshots'[i] = snapshots[j]
<1> USE BoundsAssumption
<1>1. CASE key \in Held /\ snapshots' = Touched(key) /\ UNCHANGED faults
  BY <1>1, TouchedKeeps
<1>2. CASE key \notin Held /\ snapshots' = <<[key |-> key, rootfs |-> rootfs]>> \o snapshots /\ UNCHANGED faults
  <2> DEFINE new == [key |-> key, rootfs |-> rootfs]
  <2>1. new.key = key
    OBVIOUS
  <2>2. new \in Snapshot
    OBVIOUS
  <2> HIDE DEF new
  <2>3. <<new>> \in Seq(Snapshot) /\ Len(<<new>>) = 1 /\ <<new>>[1] = new
    BY <2>2
  <2>4. /\ snapshots' \in Seq(Snapshot) /\ Len(snapshots') = Len(snapshots) + 1
        /\ \A i \in 1..(Len(snapshots) + 1) : snapshots'[i] = IF i = 1 THEN new ELSE snapshots[i - 1]
    <3>1. snapshots' = <<new>> \o snapshots
      BY <1>2 DEF new
    <3> QED BY <3>1, <2>3, ConcatProperties
  <2>5. \A i \in 1..Len(snapshots) : snapshots[i].key # key
    BY <1>2 DEF Held
  <2>6. DOMAIN snapshots = 1..Len(snapshots) /\ DOMAIN snapshots' = 1..(Len(snapshots) + 1)
    BY <2>4
  <2>7. \A i \in 1..(Len(snapshots) + 1) : i # 1 => i - 1 \in 1..Len(snapshots)
    OBVIOUS
  <2>8. \A i, j \in 1..(Len(snapshots) + 1) : i # 1 /\ j # 1 /\ i - 1 = j - 1 => i = j
    OBVIOUS
  <2>9. faults' = faults
    BY <1>2
  <2>10. \A i, j \in DOMAIN snapshots' : snapshots'[i].key = snapshots'[j].key => i = j
      <3>1. ASSUME NEW i \in DOMAIN snapshots', NEW j \in DOMAIN snapshots',
                 snapshots'[i].key = snapshots'[j].key
          PROVE  i = j
      <4>1. i \in 1..(Len(snapshots) + 1) /\ j \in 1..(Len(snapshots) + 1)
        BY <2>6
      <4>2. i = 1 <=> j = 1
        BY <2>1, <2>4, <2>5, <2>7, <3>1, <4>1
      <4>3. ASSUME i # 1, j # 1
            PROVE  i - 1 = j - 1
        <5>1. i - 1 \in DOMAIN snapshots /\ j - 1 \in DOMAIN snapshots
          BY <2>6, <2>7, <4>1, <4>3
        <5>2. snapshots'[i] = snapshots[i - 1] /\ snapshots'[j] = snapshots[j - 1]
          BY <2>4, <4>1, <4>3
        <5>3. snapshots[i - 1].key = snapshots[j - 1].key
          BY <5>2, <3>1
        <5> QED BY <5>1, <5>3
      <4> QED BY <2>8, <4>1, <4>2, <4>3
    <3> QED BY <3>1
  <2>11. \A i \in DOMAIN snapshots' : snapshots'[i] = new \/ \E j \in DOMAIN snapshots : snapshots'[i] = snapshots[j]
    BY <2>4, <2>6, <2>7
  <2> QED BY <2>4, <2>9, <2>10, <2>11 DEF new
<1>3. CASE key \notin Held /\ UNCHANGED snapshots /\ Fault
  BY <1>3 DEF Fault
<1> QED BY <1>1, <1>2, <1>3 DEF SaveRootfs

\* Eviction keeps the first.
LEMMA EvictedFromTheEnd ==
  ASSUME snapshots \in Seq(Snapshot), NEW n \in 0..Len(snapshots)
  PROVE  /\ SubSeq(snapshots, 1, n) \in Seq(Snapshot)
         /\ \A i \in DOMAIN SubSeq(snapshots, 1, n) :
              i \in DOMAIN snapshots /\ SubSeq(snapshots, 1, n)[i] = snapshots[i]
OBVIOUS

LEMMA KeyTyped ==
  ASSUME NEW p \in Procs, job \in [Procs -> Locals], NEW i \in {0, 1}
  PROVE  StepKey(p, i) \in Rootfs \X {1, 2} \X {0, 1} \X Seq(0..2)
<1>1. job[p].base \in Rootfs /\ job[p].plan \in {1, 2} /\ job[p].keyed \in Seq(0..2)
  BY DEF Locals
<1> DEFINE k == IF \E j \in 1..i : Plan(p).reads[j] THEN job[p].keyed ELSE <<>>
<1>2. k \in Seq(0..2)
  BY <1>1
<1> HIDE DEF k
<1>3. StepKey(p, i) = <<job[p].base, job[p].plan, i, k>>
  BY DEF StepKey, k
<1> QED BY <1>1, <1>2, <1>3

LEMMA FollowsNothing ==
  ASSUME NEW base \in Rootfs, NEW plan, NEW keyed, NEW X
  PROVE  Follows(base, base, plan, 0, keyed, X)
<1>1. SubSeq(base, 1, Len(base)) = base /\ Len(base) = Len(base) + 0
  BY DEF Rootfs
<1>2. 1..0 = {}
  OBVIOUS
<1> QED BY <1>1, <1>2 DEF Follows

LEMMA FollowsBase ==
  ASSUME NEW rootfs \in Rootfs, NEW base \in Rootfs, NEW plan, NEW keyed, NEW X,
         Follows(rootfs, base, plan, 0, keyed, X)
  PROVE  rootfs = base
<1>1. Len(rootfs) = Len(base) /\ SubSeq(rootfs, 1, Len(base)) = base
  BY DEF Follows, Rootfs
<1>2. SubSeq(rootfs, 1, Len(rootfs)) = rootfs
  BY DEF Rootfs
<1> QED BY <1>1, <1>2

\* One more step on the base.
LEMMA FollowsStep ==
  ASSUME NEW base \in Rootfs, NEW plan \in {1, 2}, NEW keyed, NEW b \in Builders, NEW X,
         NEW seen \in Seq(0..2), Plans[plan].reads[1] => seen \in keyed \/ b \in X
  PROVE  /\ Append(base, <<plan, 1, seen, b>>) \in Rootfs
         /\ Follows(Append(base, <<plan, 1, seen, b>>), base, plan, 1, keyed, X)
<1> DEFINE token == <<plan, 1, seen, b>>
           Token == (0..2) \X (0..2) \X Seq(0..2) \X (Builders \cup {NoProc})
<1>1. token \in Token /\ token[1] = plan /\ token[2] = 1 /\ token[3] = seen /\ token[4] = b
  OBVIOUS
<1>2. Plans[plan].reads[1] => token[3] \in keyed \/ token[4] \in X
  BY <1>1
<1>3. base \in Seq(Token) /\ Rootfs = Seq(Token)
  BY DEF Rootfs
<1> HIDE DEF token, Token
<1>4. /\ Append(base, token) \in Seq(Token) /\ Len(Append(base, token)) = Len(base) + 1
      /\ Append(base, token)[Len(base) + 1] = token
      /\ SubSeq(Append(base, token), 1, Len(base)) = base
  BY <1>1, <1>3
<1>5. \A i \in 1..1 : i = 1
  OBVIOUS
<1> QED BY <1>1, <1>2, <1>3, <1>4, <1>5 DEF Follows, token

LEMMA FollowsWider ==
  ASSUME NEW rootfs, NEW base, NEW plan, NEW n, NEW some, NEW more, some \subseteq more,
         NEW X, NEW Y, X \subseteq Y, Follows(rootfs, base, plan, n, some, X)
  PROVE  Follows(rootfs, base, plan, n, more, Y)
BY DEF Follows

\* A key names the context only if a step read it.
LEMMA FollowsKey ==
  ASSUME NEW p \in Procs, job \in [Procs -> Locals], NEW i \in {0, 1}, NEW rootfs, NEW X
  PROVE  LET k == StepKey(p, i)
         IN Follows(rootfs, k[1], k[2], k[3], {k[4]} \cap Releases, X)
            <=> Follows(rootfs, job[p].base, job[p].plan, i, {job[p].keyed} \cap Releases, X)
<1> DEFINE plan == job[p].plan
           reads == \E j \in 1..i : Plan(p).reads[j]
           keyed == IF reads THEN job[p].keyed ELSE <<>>
           k == StepKey(p, i)
<1>1. plan \in {1, 2} /\ Plan(p) = Plans[plan]
  BY DEF Locals, Plan
<1>2. k[1] = job[p].base /\ k[2] = plan /\ k[3] = i /\ k[4] = keyed
  BY DEF StepKey
<1>3. \A j \in 1..i : Plans[plan].reads[j] => keyed = job[p].keyed
  BY <1>1
<1> HIDE DEF k, keyed
<1> QED BY <1>2, <1>3 DEF Follows, k, plan

LEMMA Appended ==
  ASSUME NEW a, NEW b, NEW c, NEW d, NEW e
  PROVE  LET k == Append(<<a, b, c, d>>, e) IN k[1] = a /\ k[2] = b /\ k[3] = c /\ k[4] = d
OBVIOUS

LEMMA ImageKeyIs ==
  ASSUME NEW p \in Procs, job \in [Procs -> Locals]
  PROVE  LET k == StepKey(p, 1) IN
         ImageKey(p)[1] = k[1] /\ ImageKey(p)[2] = k[2] /\ ImageKey(p)[3] = k[3] /\ ImageKey(p)[4] = k[4]
<1>1. job[p].plan \in {1, 2}
  BY DEF Locals
<1>2. Len(Plan(p).reads) = 1
  BY <1>1, PlansAre DEF Plan
<1> DEFINE keyed == IF \E j \in 1..1 : Plan(p).reads[j] THEN job[p].keyed ELSE <<>>
<1> HIDE DEF keyed
<1>3. StepKey(p, 1) = <<job[p].base, job[p].plan, 1, keyed>>
  BY DEF StepKey, keyed
<1> QED BY <1>2, <1>3, Appended DEF ImageKey

-----------------------------------------------------------------------------
(* What a step does to the place and the locals of the process that takes it *)
(* and that it leaves every other process alone.                           *)

Others(p) == \A q \in Procs : q # p => pc'[q] = pc[q] /\ job'[q] = job[q]
Same(p) == job'[p] = job[p]
Goes(p, label) ==
  /\ DOMAIN pc' = Procs /\ job' \in [Procs -> Locals]
  /\ pc'[p] = label /\ Others(p)

LEMMA Going ==
  ASSUME Typing, NEW p \in Procs, NEW label, Goto(p, label)
  PROVE  /\ DOMAIN pc' = Procs /\ pc'[p] = label
         /\ \A q \in Procs : q # p => pc'[q] = pc[q]
BY DEF Typing, PlacesTyped, Goto

LEMMA NullTyped == <<>> \in Rootfs /\ Debian \in Rootfs /\ Debian # <<>>
<1>1. Debian \in Rootfs
  <2>1. <<>> \in Seq(0..2)
    OBVIOUS
  <2>2. ASSUME NEW seen \in Seq(0..2)
        PROVE  << <<0, 0, seen, NoProc>> >> \in Rootfs
    BY DEF Rootfs
  <2> QED BY <2>1, <2>2 DEF Debian
<1> QED BY <1>1 DEF Rootfs, Debian

LEMMA Resting ==
  ASSUME Typing, NEW p \in Procs, NEW label, Goto(p, label), UNCHANGED job
  PROVE  Goes(p, label) /\ Same(p)
BY Going DEF Typing, PlacesTyped, Goes, Others, Same

LEMMA Beginning ==
  ASSUME Typing, NEW p \in Procs, NEW label, Goto(p, label),
         NEW plan \in {1, 2}, Begin(p, plan)
  PROVE  /\ Goes(p, label)
         /\ job'[p].plan = plan /\ job'[p].base = <<>> /\ job'[p].rootfs = <<>> /\ job'[p].wrote = 0 /\ job'[p].keyed = <<>> /\ job'[p].seen = <<>>
<1> DEFINE new == [NoJob EXCEPT !.plan = plan]
<1>0. <<>> \in Seq(0..2)
  OBVIOUS
<1>1. new \in Locals
  BY <1>0, NullTyped DEF NoJob, Locals
<1>2. /\ new.plan = plan /\ new.base = <<>> /\ new.rootfs = <<>>
      /\ new.wrote = 0 /\ new.keyed = <<>> /\ new.seen = <<>>
  BY DEF NoJob
<1>3. job' = [job EXCEPT ![p] = new]
  BY DEF Begin
<1> HIDE DEF new
<1>4. job' \in [Procs -> Locals] /\ job'[p] = new /\ \A q \in Procs : q # p => job'[q] = job[q]
  BY <1>1, <1>3 DEF Typing, PlacesTyped
<1> QED BY <1>2, <1>4, Going DEF Goes, Others

LEMMA SettingWrote ==
  ASSUME Typing, NEW p \in Procs, NEW label, Goto(p, label),
         NEW value \in Nat, Set(p, "wrote", value)
  PROVE  /\ Goes(p, label)
         /\ job'[p].wrote = value
         /\ job'[p].plan = job[p].plan /\ job'[p].keyed = job[p].keyed /\ job'[p].base = job[p].base /\ job'[p].start = job[p].start
         /\ job'[p].seen = job[p].seen /\ job'[p].rootfs = job[p].rootfs /\ job'[p].kept = job[p].kept
<1> DEFINE new == [job[p] EXCEPT !["wrote"] = value]
<1>1. job[p] \in Locals
  BY DEF Typing, PlacesTyped
<1>2. new \in Locals
  BY <1>1 DEF Locals
<1>3. /\ new.wrote = value
      /\ new.plan = job[p].plan /\ new.keyed = job[p].keyed /\ new.base = job[p].base /\ new.start = job[p].start
      /\ new.seen = job[p].seen /\ new.rootfs = job[p].rootfs /\ new.kept = job[p].kept
  BY <1>1 DEF Locals
<1>4. job' = [job EXCEPT ![p] = new]
  BY DEF Set
<1> HIDE DEF new
<1>5. job' \in [Procs -> Locals] /\ job'[p] = new /\ \A q \in Procs : q # p => job'[q] = job[q]
  BY <1>2, <1>4 DEF Typing, PlacesTyped
<1> QED BY <1>3, <1>5, Going DEF Goes, Others

LEMMA SettingKeyed ==
  ASSUME Typing, NEW p \in Procs, NEW label, Goto(p, label),
         NEW value \in Seq(0..2), Set(p, "keyed", value)
  PROVE  /\ Goes(p, label)
         /\ job'[p].keyed = value
         /\ job'[p].plan = job[p].plan /\ job'[p].wrote = job[p].wrote /\ job'[p].base = job[p].base /\ job'[p].start = job[p].start
         /\ job'[p].seen = job[p].seen /\ job'[p].rootfs = job[p].rootfs /\ job'[p].kept = job[p].kept
<1> DEFINE new == [job[p] EXCEPT !["keyed"] = value]
<1>1. job[p] \in Locals
  BY DEF Typing, PlacesTyped
<1>2. new \in Locals
  BY <1>1 DEF Locals
<1>3. /\ new.keyed = value
      /\ new.plan = job[p].plan /\ new.wrote = job[p].wrote /\ new.base = job[p].base /\ new.start = job[p].start
      /\ new.seen = job[p].seen /\ new.rootfs = job[p].rootfs /\ new.kept = job[p].kept
  BY <1>1 DEF Locals
<1>4. job' = [job EXCEPT ![p] = new]
  BY DEF Set
<1> HIDE DEF new
<1>5. job' \in [Procs -> Locals] /\ job'[p] = new /\ \A q \in Procs : q # p => job'[q] = job[q]
  BY <1>2, <1>4 DEF Typing, PlacesTyped
<1> QED BY <1>3, <1>5, Going DEF Goes, Others

LEMMA SettingBase ==
  ASSUME Typing, NEW p \in Procs, NEW label, Goto(p, label),
         NEW value \in Rootfs, Set(p, "base", value)
  PROVE  /\ Goes(p, label)
         /\ job'[p].base = value
         /\ job'[p].plan = job[p].plan /\ job'[p].wrote = job[p].wrote /\ job'[p].keyed = job[p].keyed /\ job'[p].start = job[p].start
         /\ job'[p].seen = job[p].seen /\ job'[p].rootfs = job[p].rootfs /\ job'[p].kept = job[p].kept
<1> DEFINE new == [job[p] EXCEPT !["base"] = value]
<1>1. job[p] \in Locals
  BY DEF Typing, PlacesTyped
<1>2. new \in Locals
  BY <1>1 DEF Locals
<1>3. /\ new.base = value
      /\ new.plan = job[p].plan /\ new.wrote = job[p].wrote /\ new.keyed = job[p].keyed /\ new.start = job[p].start
      /\ new.seen = job[p].seen /\ new.rootfs = job[p].rootfs /\ new.kept = job[p].kept
  BY <1>1 DEF Locals
<1>4. job' = [job EXCEPT ![p] = new]
  BY DEF Set
<1> HIDE DEF new
<1>5. job' \in [Procs -> Locals] /\ job'[p] = new /\ \A q \in Procs : q # p => job'[q] = job[q]
  BY <1>2, <1>4 DEF Typing, PlacesTyped
<1> QED BY <1>3, <1>5, Going DEF Goes, Others

LEMMA SettingStart ==
  ASSUME Typing, NEW p \in Procs, NEW label, Goto(p, label),
         NEW value \in {0, 1}, Set(p, "start", value)
  PROVE  /\ Goes(p, label)
         /\ job'[p].start = value
         /\ job'[p].plan = job[p].plan /\ job'[p].wrote = job[p].wrote /\ job'[p].keyed = job[p].keyed /\ job'[p].base = job[p].base
         /\ job'[p].seen = job[p].seen /\ job'[p].rootfs = job[p].rootfs /\ job'[p].kept = job[p].kept
<1> DEFINE new == [job[p] EXCEPT !["start"] = value]
<1>1. job[p] \in Locals
  BY DEF Typing, PlacesTyped
<1>2. new \in Locals
  BY <1>1 DEF Locals
<1>3. /\ new.start = value
      /\ new.plan = job[p].plan /\ new.wrote = job[p].wrote /\ new.keyed = job[p].keyed /\ new.base = job[p].base
      /\ new.seen = job[p].seen /\ new.rootfs = job[p].rootfs /\ new.kept = job[p].kept
  BY <1>1 DEF Locals
<1>4. job' = [job EXCEPT ![p] = new]
  BY DEF Set
<1> HIDE DEF new
<1>5. job' \in [Procs -> Locals] /\ job'[p] = new /\ \A q \in Procs : q # p => job'[q] = job[q]
  BY <1>2, <1>4 DEF Typing, PlacesTyped
<1> QED BY <1>3, <1>5, Going DEF Goes, Others

LEMMA SettingSeen ==
  ASSUME Typing, NEW p \in Procs, NEW label, Goto(p, label),
         NEW value \in Seq(0..2), Set(p, "seen", value)
  PROVE  /\ Goes(p, label)
         /\ job'[p].seen = value
         /\ job'[p].plan = job[p].plan /\ job'[p].wrote = job[p].wrote /\ job'[p].keyed = job[p].keyed /\ job'[p].base = job[p].base
         /\ job'[p].start = job[p].start /\ job'[p].rootfs = job[p].rootfs /\ job'[p].kept = job[p].kept
<1> DEFINE new == [job[p] EXCEPT !["seen"] = value]
<1>1. job[p] \in Locals
  BY DEF Typing, PlacesTyped
<1>2. new \in Locals
  BY <1>1 DEF Locals
<1>3. /\ new.seen = value
      /\ new.plan = job[p].plan /\ new.wrote = job[p].wrote /\ new.keyed = job[p].keyed /\ new.base = job[p].base
      /\ new.start = job[p].start /\ new.rootfs = job[p].rootfs /\ new.kept = job[p].kept
  BY <1>1 DEF Locals
<1>4. job' = [job EXCEPT ![p] = new]
  BY DEF Set
<1> HIDE DEF new
<1>5. job' \in [Procs -> Locals] /\ job'[p] = new /\ \A q \in Procs : q # p => job'[q] = job[q]
  BY <1>2, <1>4 DEF Typing, PlacesTyped
<1> QED BY <1>3, <1>5, Going DEF Goes, Others

LEMMA SettingRootfs ==
  ASSUME Typing, NEW p \in Procs, NEW label, Goto(p, label),
         NEW value \in Rootfs, Set(p, "rootfs", value)
  PROVE  /\ Goes(p, label)
         /\ job'[p].rootfs = value
         /\ job'[p].plan = job[p].plan /\ job'[p].wrote = job[p].wrote /\ job'[p].keyed = job[p].keyed /\ job'[p].base = job[p].base
         /\ job'[p].start = job[p].start /\ job'[p].seen = job[p].seen /\ job'[p].kept = job[p].kept
<1> DEFINE new == [job[p] EXCEPT !["rootfs"] = value]
<1>1. job[p] \in Locals
  BY DEF Typing, PlacesTyped
<1>2. new \in Locals
  BY <1>1 DEF Locals
<1>3. /\ new.rootfs = value
      /\ new.plan = job[p].plan /\ new.wrote = job[p].wrote /\ new.keyed = job[p].keyed /\ new.base = job[p].base
      /\ new.start = job[p].start /\ new.seen = job[p].seen /\ new.kept = job[p].kept
  BY <1>1 DEF Locals
<1>4. job' = [job EXCEPT ![p] = new]
  BY DEF Set
<1> HIDE DEF new
<1>5. job' \in [Procs -> Locals] /\ job'[p] = new /\ \A q \in Procs : q # p => job'[q] = job[q]
  BY <1>2, <1>4 DEF Typing, PlacesTyped
<1> QED BY <1>3, <1>5, Going DEF Goes, Others

LEMMA SettingKept ==
  ASSUME Typing, NEW p \in Procs, NEW label, Goto(p, label),
         NEW value \in SUBSET Digests, Set(p, "kept", value)
  PROVE  /\ Goes(p, label)
         /\ job'[p].kept = value
         /\ job'[p].plan = job[p].plan /\ job'[p].wrote = job[p].wrote /\ job'[p].keyed = job[p].keyed /\ job'[p].base = job[p].base
         /\ job'[p].start = job[p].start /\ job'[p].seen = job[p].seen /\ job'[p].rootfs = job[p].rootfs
<1> DEFINE new == [job[p] EXCEPT !["kept"] = value]
<1>1. job[p] \in Locals
  BY DEF Typing, PlacesTyped
<1>2. new \in Locals
  BY <1>1 DEF Locals
<1>3. /\ new.kept = value
      /\ new.plan = job[p].plan /\ new.wrote = job[p].wrote /\ new.keyed = job[p].keyed /\ new.base = job[p].base
      /\ new.start = job[p].start /\ new.seen = job[p].seen /\ new.rootfs = job[p].rootfs
  BY <1>1 DEF Locals
<1>4. job' = [job EXCEPT ![p] = new]
  BY DEF Set
<1> HIDE DEF new
<1>5. job' \in [Procs -> Locals] /\ job'[p] = new /\ \A q \in Procs : q # p => job'[q] = job[q]
  BY <1>2, <1>4 DEF Typing, PlacesTyped
<1> QED BY <1>3, <1>5, Going DEF Goes, Others

LEMMA SettingBoth ==
  ASSUME Typing, NEW p \in Procs, NEW label, Goto(p, label),
         NEW rootfs \in Rootfs, NEW start \in {0, 1},
         job' = [job EXCEPT ![p].rootfs = rootfs, ![p].start = start]
  PROVE  /\ Goes(p, label)
         /\ job'[p].rootfs = rootfs /\ job'[p].start = start /\ job'[p].plan = job[p].plan
         /\ job'[p].keyed = job[p].keyed /\ job'[p].base = job[p].base
         /\ job'[p].wrote = job[p].wrote /\ job'[p].seen = job[p].seen
<1> DEFINE new == [job[p] EXCEPT !.rootfs = rootfs, !.start = start]
<1>1. job[p] \in Locals
  BY DEF Typing, PlacesTyped
<1>2. new \in Locals
  BY <1>1 DEF Locals
<1>3. /\ new.rootfs = rootfs /\ new.start = start /\ new.plan = job[p].plan
      /\ new.keyed = job[p].keyed /\ new.base = job[p].base
      /\ new.wrote = job[p].wrote /\ new.seen = job[p].seen
  BY <1>1 DEF Locals
<1>4. job' = [job EXCEPT ![p] = new]
  BY DEF Typing, PlacesTyped
<1> HIDE DEF new
<1>5. job' \in [Procs -> Locals] /\ job'[p] = new /\ \A q \in Procs : q # p => job'[q] = job[q]
  BY <1>2, <1>4 DEF Typing, PlacesTyped
<1> QED BY <1>3, <1>5, Going DEF Goes, Others

LEMMA SettingAll ==
  ASSUME Typing, NEW p \in Procs, NEW label, Goto(p, label),
         NEW rootfs \in Rootfs, NEW start \in {0, 1},
         job' = [job EXCEPT ![p].rootfs = rootfs, ![p].start = start, ![p].seen = <<>>]
  PROVE  /\ Goes(p, label)
         /\ job'[p].rootfs = rootfs /\ job'[p].start = start /\ job'[p].plan = job[p].plan
         /\ job'[p].keyed = job[p].keyed /\ job'[p].base = job[p].base
         /\ job'[p].wrote = job[p].wrote /\ job'[p].seen = <<>>
<1> DEFINE new == [job[p] EXCEPT !.rootfs = rootfs, !.start = start, !.seen = <<>>]
<1>1. job[p] \in Locals
  BY DEF Typing, PlacesTyped
<1>0. <<>> \in Seq(0..2)
  OBVIOUS
<1>2. new \in Locals
  BY <1>0, <1>1 DEF Locals
<1>3. /\ new.rootfs = rootfs /\ new.start = start /\ new.plan = job[p].plan
      /\ new.keyed = job[p].keyed /\ new.base = job[p].base
      /\ new.wrote = job[p].wrote /\ new.seen = <<>>
  BY <1>1 DEF Locals
<1>4. job' = [job EXCEPT ![p] = new]
  BY DEF Typing, PlacesTyped
<1> HIDE DEF new
<1>5. job' \in [Procs -> Locals] /\ job'[p] = new /\ \A q \in Procs : q # p => job'[q] = job[q]
  BY <1>2, <1>4 DEF Typing, PlacesTyped
<1> QED BY <1>3, <1>5, Going DEF Goes, Others

LEMMA WritesMoves ==
  ASSUME Typing, NEW b \in Builders, NEW content \in 0..2, Writes(b, job[b].wrote + 1, content)
  PROVE  /\ context' \in [Scripts -> 0..2] /\ disturbed \subseteq disturbed' /\ disturbed' \subseteq Builders
         /\ \A s \in Scripts : context'[s] = IF s = job[b].wrote + 1 THEN content ELSE context[s]
         /\ \A c \in Builders : c # b /\ c \notin disturbed' /\ job[c].plan = 1 =>
              pc[c] \notin {"truncating", "filling"} \cup Filled
<1>1. \A c \in Builders : job[c].plan \in {1, 2}
  BY DEF Procs, Typing, PlacesTyped, Locals
<1>2. ASSUME NEW c \in Builders, c # b, c \notin disturbed', job[c].plan = 1
      PROVE  pc[c] \notin {"truncating", "filling"} \cup Filled
  <2>1. ~Copies(c)
    BY <1>2 DEF Writes
  <2> QED BY <1>1, <1>2, <2>1, ReadersAre DEF Copies, Filled
<1>3. context' \in [Scripts -> 0..2]
  BY DEF Writes, Typing, LocksTyped
<1>4. \A s \in Scripts : context'[s] = IF s = job[b].wrote + 1 THEN content ELSE context[s]
  BY DEF Writes, Typing, LocksTyped
<1>5. disturbed \subseteq disturbed' /\ disturbed' \subseteq Builders
  BY DEF Writes, Typing, LocksTyped
<1> QED BY <1>2, <1>3, <1>4, <1>5

LEMMA TruncateMoves ==
  ASSUME Typing, NEW b \in Builders, Truncate(b)
  PROVE  /\ Goes(b, "filling") /\ Same(b) /\ pc[b] \in {"idle", "truncating"}
         /\ Writes(b, job[b].wrote + 1, 0)
<1>1. b \in Procs
  BY DEF Procs
<1> QED BY <1>1, Resting DEF Truncate

LEMMA FillMoves ==
  ASSUME Typing, NEW b \in Builders, Fill(b)
  PROVE  /\ pc[b] = "filling" /\ Writes(b, job[b].wrote + 1, Version(b))
         /\ job'[b].wrote = job[b].wrote + 1
         /\ Goes(b, IF job[b].wrote + 1 = ScriptCount THEN "keying" ELSE "truncating")
         /\ job'[b].keyed = job[b].keyed /\ job'[b].seen = job[b].seen /\ job'[b].plan = job[b].plan
<1> DEFINE label == IF job[b].wrote + 1 = ScriptCount THEN "keying" ELSE "truncating"
<1>1. b \in Procs /\ job[b].wrote + 1 \in Nat
  BY DEF Procs, Typing, PlacesTyped, Locals
<1>2. pc[b] = "filling" /\ Writes(b, job[b].wrote + 1, Version(b)) /\ Set(b, "wrote", job[b].wrote + 1)
  BY DEF Fill
<1>3. job'[b].wrote = job[b].wrote + 1
  <2>1. job[b] \in Locals /\ b \in DOMAIN job
    BY <1>1 DEF Typing, PlacesTyped
  <2>2. job'[b] = [job[b] EXCEPT !["wrote"] = job[b].wrote + 1]
    BY <1>2, <2>1 DEF Set
  <2> QED BY <2>1, <2>2 DEF Locals
<1>4. Goto(b, label)
  BY <1>3 DEF Fill
<1> HIDE DEF label
<1>5. /\ Goes(b, label) /\ job'[b].keyed = job[b].keyed /\ job'[b].seen = job[b].seen
      /\ job'[b].plan = job[b].plan
  BY <1>1, <1>2, <1>4, SettingWrote
<1> QED BY <1>2, <1>3, <1>5 DEF label

LEMMA KeysMoves ==
  ASSUME Typing, NEW b \in Builders, Keys(b)
  PROVE  /\ pc[b] = "keying" /\ pc'[b] \in {"keying", "locking"} /\ Goes(b, pc'[b])
         /\ job'[b].plan = job[b].plan /\ job'[b].seen = job[b].seen
         /\ pc'[b] = "keying" => Len(job'[b].keyed) < ScriptCount
         /\ job[b].plan = 1 =>
              /\ Len(job[b].keyed) + 1 \in Scripts
              /\ job'[b].keyed = Append(job[b].keyed, context[Len(job[b].keyed) + 1])
              /\ pc'[b] = "locking" => Len(job'[b].keyed) = ScriptCount
<1>1. b \in Procs /\ job[b].plan \in {1, 2} /\ job[b].keyed \in Seq(0..2) /\ pc[b] = "keying"
  BY DEF Procs, Typing, PlacesTyped, Locals, Keys
<1>2. CASE job[b].plan = 1
  <2> DEFINE keyed == Append(job[b].keyed, context[Len(job[b].keyed) + 1])
  <2>1. Len(job[b].keyed) + 1 \in Scripts
    BY <1>1, ScriptsAre DEF Typing, PlacesTyped, LocalsOK
  <2>2. context[Len(job[b].keyed) + 1] \in 0..2
    BY <2>1 DEF Typing, LocksTyped
  <2>3. keyed \in Seq(0..2) /\ Len(keyed) = Len(job[b].keyed) + 1
    BY <1>1, <2>2
  <2>4. Set(b, "keyed", keyed)
    BY <1>1, <1>2, ReadersAre DEF Keys
  <2> HIDE DEF keyed
  <2>5. job'[b].keyed = keyed
    <3>1. job[b] \in Locals /\ b \in DOMAIN job
      BY <1>1 DEF Typing, PlacesTyped
    <3>2. job'[b] = [job[b] EXCEPT !["keyed"] = keyed]
      BY <2>4, <3>1 DEF Set
    <3> QED BY <3>1, <3>2 DEF Locals
  <2>6. PICK label \in {"keying", "locking"} :
          Goto(b, label) /\ (label = "locking" <=> Len(keyed) = ScriptCount)
    BY <1>1, <1>2, <2>5, ReadersAre DEF Keys
  <2>7. Goes(b, label) /\ job'[b].plan = job[b].plan /\ job'[b].seen = job[b].seen
    BY <1>1, <2>3, <2>4, <2>6, SettingKeyed
  <2>8. pc'[b] = label
    BY <2>7 DEF Goes
  <2>9. label = "keying" => Len(keyed) < ScriptCount
    BY <2>1, <2>3, <2>6, <1>1, ScriptsAre
  <2> QED BY <1>1, <2>1, <2>5, <2>6, <2>7, <2>8, <2>9 DEF keyed
<1>3. CASE job[b].plan = 2
  <2>1. Goto(b, "locking") /\ UNCHANGED job
    BY <1>1, <1>3, ReadersAre DEF Keys
  <2>2. Goes(b, "locking") /\ Same(b)
    BY <1>1, <2>1, Resting
  <2> QED BY <1>1, <1>3, <2>2 DEF Goes, Same
<1> QED BY <1>1, <1>2, <1>3

LEMMA LockSharedMoves ==
  ASSUME Typing, NEW b \in Builders, LockShared(b)
  PROVE  Goes(b, "pulling") /\ Same(b) /\ pc[b] = "locking"
<1>1. b \in Procs
  BY DEF Procs
<1> QED BY <1>1, Resting DEF LockShared

LEMMA PullMoves ==
  ASSUME Typing, NEW b \in Builders, Pull(b)
  PROVE  /\ pc[b] = "pulling" /\ Plan(b).base \in Names
         /\ job'[b].plan = job[b].plan /\ job'[b].keyed = job[b].keyed /\ job'[b].seen = job[b].seen
         /\ \/ /\ Plan(b).base \in DOMAIN tags
               /\ Goes(b, "looking") /\ job'[b].base = tags[Plan(b).base] /\ blobs' = blobs
            \/ /\ Plan(b).base = "debian" /\ job[b].plan = 1
               /\ Goes(b, "tagging") /\ job'[b].base = Debian /\ blobs' = blobs \cup Parts(Debian)
<1>1. b \in Procs /\ job[b].plan \in {1, 2}
  BY DEF Procs, Typing, PlacesTyped, Locals
<1>2. Plan(b).base \in Names /\ (Plan(b).base = "debian" => job[b].plan = 1)
  BY <1>1, PlansAre DEF Plan, Names
<1>3. CASE Plan(b).base \in DOMAIN tags /\ Set(b, "base", tags[Plan(b).base]) /\ Goto(b, "looking") /\ UNCHANGED blobs
  <2>2. tags[Plan(b).base] \in Rootfs
    BY <1>2, <1>3 DEF Typing, TagsTyped
  <2>3. Goes(b, "looking") /\ job'[b].base = tags[Plan(b).base] /\ job'[b].plan = job[b].plan /\ job'[b].keyed = job[b].keyed /\ job'[b].seen = job[b].seen
    BY <1>1, <1>3, <2>2, SettingBase
  <2> QED BY <1>2, <1>3, <2>3 DEF Pull
<1>4. CASE Plan(b).base = "debian" /\ blobs' = blobs \cup Parts(Debian) /\ Set(b, "base", Debian) /\ Goto(b, "tagging")
  <2>1. Goes(b, "tagging") /\ job'[b].base = Debian /\ job'[b].plan = job[b].plan /\ job'[b].keyed = job[b].keyed /\ job'[b].seen = job[b].seen
    BY <1>1, <1>4, NullTyped, SettingBase
  <2> QED BY <1>2, <1>4, <2>1 DEF Pull
<1> QED BY <1>3, <1>4 DEF Pull

LEMMA TagPulledMoves ==
  ASSUME Typing, NEW b \in Builders, TagPulled(b)
  PROVE  Goes(b, "looking") /\ Same(b) /\ pc[b] = "tagging"
<1>1. b \in Procs
  BY DEF Procs
<1> QED BY <1>1, Resting DEF TagPulled

LEMMA LookMoves ==
  ASSUME Typing, NEW b \in Builders, Look(b)
  PROVE  /\ pc[b] = "looking"
         /\ job'[b].plan = job[b].plan /\ job'[b].keyed = job[b].keyed /\ job'[b].seen = job[b].seen /\ job'[b].base = job[b].base
         /\ \/ UseRecord(b) /\ Goes(b, "retagging") /\ job'[b].rootfs = records[ImageKey(b)]
            \/ Goes(b, "restoring")
            \/ Goes(b, "unpacking")
<1>1. b \in Procs /\ job[b].plan \in {1, 2}
  BY DEF Procs, Typing, PlacesTyped, Locals
<1> DEFINE cached == {i \in 0..Len(Plan(b).reads) : b \notin Fresh /\ HoldsRootfs(b, i)}
           start == CHOOSE i \in cached : \A j \in cached : j <= i
<1>2. CASE UseRecord(b) /\ Set(b, "rootfs", records[ImageKey(b)]) /\ Goto(b, "retagging")
  <2>1. records[ImageKey(b)] \in Rootfs
    BY <1>2 DEF UseRecord, Recorded, Typing, RecordsTyped
  <2>2. /\ Goes(b, "retagging") /\ job'[b].rootfs = records[ImageKey(b)]
        /\ job'[b].plan = job[b].plan /\ job'[b].keyed = job[b].keyed /\ job'[b].seen = job[b].seen /\ job'[b].base = job[b].base
    BY <1>1, <1>2, <2>1, SettingRootfs
  <2> QED BY <1>2, <2>2 DEF Look
<1>3. CASE cached # {} /\ Set(b, "start", start) /\ Goto(b, "restoring")
  <2>0. Len(Plan(b).reads) = 1
    BY <1>1, PlansAre DEF Plan
  <2>1. cached \subseteq {0, 1}
    BY <2>0
  <2>2. \E i \in cached : \A j \in cached : j <= i
    <3>1. CASE 1 \in cached
      BY <2>1, <3>1
    <3>2. CASE 1 \notin cached
      <4>1. cached = {0}
        BY <1>3, <2>1, <3>2
      <4> HIDE DEF cached
      <4> QED BY <4>1
    <3> QED BY <3>1, <3>2
  <2>3. start \in {0, 1}
    BY <2>1, <2>2
  <2> HIDE DEF start
  <2>4. /\ Goes(b, "restoring")
        /\ job'[b].plan = job[b].plan /\ job'[b].keyed = job[b].keyed /\ job'[b].seen = job[b].seen /\ job'[b].base = job[b].base
    BY <1>1, <1>3, <2>3, SettingStart
  <2> QED BY <2>4 DEF Look
<1>4. CASE Goto(b, "unpacking") /\ UNCHANGED job
  <2>1. Goes(b, "unpacking") /\ Same(b)
    BY <1>1, <1>4, Resting
  <2> QED BY <2>1 DEF Look, Same
<1> QED BY <1>2, <1>3, <1>4 DEF Look

LEMMA RestoreMoves ==
  ASSUME Typing, NEW b \in Builders, Restore(b)
  PROVE  /\ pc[b] = "restoring" /\ job[b].start \in {0, 1}
         /\ StepKey(b, job[b].start) \in Held
         /\ Goes(b, IF job[b].start = 1 THEN "ingesting" ELSE "stepping")
         /\ job'[b].rootfs = Found(StepKey(b, job[b].start)).rootfs /\ job'[b].start = job[b].start
         /\ job'[b].plan = job[b].plan /\ job'[b].keyed = job[b].keyed /\ job'[b].seen = job[b].seen /\ job'[b].base = job[b].base
<1> DEFINE key == StepKey(b, job[b].start)
<1>1. b \in Procs /\ job[b].plan \in {1, 2} /\ job[b].start \in {0, 1}
  BY DEF Procs, Typing, PlacesTyped, Locals
<1>2. key \in Held /\ pc[b] = "restoring"
  BY DEF Restore, HoldsRootfs
<1>3. Found(key) \in Snapshot
  BY <1>2, TouchedKeeps DEF Typing, SnapshotsTyped
<1>4. Found(key).rootfs \in Rootfs
  BY <1>3 DEF Snapshot
<1>5. Set(b, "rootfs", Found(key).rootfs)
  BY DEF Restore
<1>6. Goto(b, IF job[b].start = 1 THEN "ingesting" ELSE "stepping")
  BY <1>1, PlansAre DEF Restore, NextStep, Plan
<1> HIDE DEF key
<1>7. /\ Goes(b, IF job[b].start = 1 THEN "ingesting" ELSE "stepping")
      /\ job'[b].rootfs = Found(key).rootfs /\ job'[b].start = job[b].start
      /\ job'[b].plan = job[b].plan /\ job'[b].keyed = job[b].keyed /\ job'[b].seen = job[b].seen /\ job'[b].base = job[b].base
  BY <1>1, <1>4, <1>5, <1>6, SettingRootfs
<1> QED BY <1>1, <1>2, <1>7 DEF key

LEMMA UnpackMoves ==
  ASSUME Typing, NEW b \in Builders, Unpack(b)
  PROVE  /\ pc[b] = "unpacking" /\ Goes(b, "stepping")
         /\ job'[b].rootfs = job[b].base /\ job'[b].start = 0
         /\ job'[b].plan = job[b].plan /\ job'[b].keyed = job[b].keyed /\ job'[b].seen = job[b].seen /\ job'[b].base = job[b].base
<1>1. b \in Procs /\ job[b].plan \in {1, 2} /\ job[b].base \in Rootfs
  BY DEF Procs, Typing, PlacesTyped, Locals
<1>2. Goto(b, "stepping")
  BY <1>1, PlansAre DEF Unpack, NextStep, Plan
<1> QED BY <1>1, <1>2, SettingBoth DEF Unpack

LEMMA CopyScriptMoves ==
  ASSUME Typing, NEW b \in Builders, CopyScript(b)
  PROVE  /\ pc[b] = "stepping" /\ Goes(b, "stepping") /\ Len(job[b].seen) + 1 \in Scripts
         /\ job'[b].seen = Append(job[b].seen, context[Len(job[b].seen) + 1])
         /\ job'[b].plan = job[b].plan /\ job'[b].keyed = job[b].keyed /\ job'[b].start = job[b].start
         /\ job'[b].base = job[b].base /\ job'[b].rootfs = job[b].rootfs
<1> DEFINE seen == Append(job[b].seen, context[Len(job[b].seen) + 1])
<1>1. b \in Procs /\ job[b].seen \in Seq(0..2) /\ pc[b] = "stepping" /\ Len(job[b].seen) < ScriptCount
  BY DEF Procs, Typing, PlacesTyped, Locals, CopyScript
<1>2. Len(job[b].seen) + 1 \in Scripts
  BY <1>1, ScriptsAre
<1>3. seen \in Seq(0..2)
  BY <1>1, <1>2 DEF Typing, LocksTyped
<1>4. Set(b, "seen", seen)
  BY DEF CopyScript
<1> HIDE DEF seen
<1>5. Goto(b, "stepping")
  BY DEF CopyScript
<1>6. /\ Goes(b, "stepping") /\ job'[b].seen = seen
      /\ job'[b].plan = job[b].plan /\ job'[b].keyed = job[b].keyed /\ job'[b].start = job[b].start
      /\ job'[b].base = job[b].base /\ job'[b].rootfs = job[b].rootfs
  BY <1>1, <1>3, <1>4, <1>5, SettingSeen
<1> QED BY <1>1, <1>2, <1>6 DEF seen

LEMMA StepMoves ==
  ASSUME Typing, NEW b \in Builders, Step(b)
  PROVE  LET rootfs == Append(job[b].rootfs, <<job[b].plan, 1, job[b].seen, b>>)
         IN /\ pc[b] = "stepping" /\ Goes(b, "ingesting")
            /\ job[b].plan = 1 => Len(job[b].seen) = ScriptCount
            /\ rootfs \in Rootfs /\ SaveRootfs(rootfs, StepKey(b, 1))
            /\ job'[b].rootfs = rootfs /\ job'[b].start = 1 /\ job'[b].seen = <<>>
            /\ job'[b].plan = job[b].plan /\ job'[b].keyed = job[b].keyed /\ job'[b].base = job[b].base
<1> DEFINE rootfs == Append(job[b].rootfs, <<job[b].plan, 1, job[b].seen, b>>)
<1>1. /\ b \in Procs /\ job[b].plan \in {1, 2} /\ job[b].rootfs \in Rootfs /\ pc[b] = "stepping"
      /\ job[b].seen \in Seq(0..2)
  BY DEF Procs, Typing, PlacesTyped, Locals, Step
<1>2. job[b].start + 1 = 1
  BY <1>1 DEF Typing, PlacesTyped, LocalsOK
<1>3. Goto(b, "ingesting")
  BY <1>1, <1>2, PlansAre DEF Step, StepKept, NextStep, Plan
<1>4. job[b].plan = 1 => Len(job[b].seen) = ScriptCount
  BY <1>1, <1>2, PlansAre DEF Step, Copied, Plan
<1>5. rootfs \in Rootfs
  BY <1>1 DEF Rootfs
<1>6. /\ SaveRootfs(rootfs, StepKey(b, 1))
      /\ job' = [job EXCEPT ![b].rootfs = rootfs, ![b].start = 1, ![b].seen = <<>>]
  BY <1>2 DEF Step, StepKept
<1> HIDE DEF rootfs
<1>7. /\ Goes(b, "ingesting") /\ job'[b].rootfs = rootfs /\ job'[b].start = 1 /\ job'[b].seen = <<>>
      /\ job'[b].plan = job[b].plan /\ job'[b].keyed = job[b].keyed /\ job'[b].base = job[b].base
  BY <1>1, <1>3, <1>5, <1>6, SettingAll
<1> QED BY <1>1, <1>4, <1>5, <1>6, <1>7 DEF rootfs

LEMMA IngestMoves ==
  ASSUME Typing, NEW b \in Builders, Ingest(b)
  PROVE  Goes(b, "storing") /\ Same(b) /\ pc[b] = "ingesting"
<1>1. b \in Procs
  BY DEF Procs
<1> QED BY <1>1, Resting DEF Ingest

LEMMA TagMoves ==
  ASSUME Typing, NEW b \in Builders, Tag(b)
  PROVE  Goes(b, IF pc[b] = "storing" THEN "saving" ELSE "releasing") /\ Same(b) /\ pc[b] \in {"storing", "retagging"}
<1>1. b \in Procs
  BY DEF Procs
<1> QED BY <1>1, Resting DEF Tag

LEMMA SaveImageMoves ==
  ASSUME Typing, NEW b \in Builders, SaveImage(b)
  PROVE  /\ Same(b)
         /\ \/ pc[b] = "saving" /\ Goes(b, "writing") /\ records' = Put(records, ImageKey(b), Torn)
            \/ pc[b] = "writing" /\ Goes(b, "releasing") /\ records' = Put(records, ImageKey(b), job[b].rootfs)
            \/ pc[b] \in {"saving", "writing"} /\ Goes(b, "releasing") /\ records' = records
<1>1. b \in Procs
  BY DEF Procs
<1> QED BY <1>1, Resting DEF SaveImage

LEMMA UnlockMoves ==
  ASSUME Typing, NEW b \in Builders, Unlock(b)
  PROVE  Goes(b, "listing") /\ Same(b) /\ pc[b] = "releasing"
<1>1. b \in Procs
  BY DEF Procs
<1> QED BY <1>1, Resting DEF Unlock

LEMMA EvictMoves ==
  ASSUME Typing, NEW b \in Builders, Evict(b)
  PROVE  /\ pc[b] = "evicting" /\ ((Goes(b, "keying") /\ job'[b].plan = 2) \/ Goes(b, "done"))
         /\ job'[b].base = <<>> /\ job'[b].rootfs = <<>> /\ job'[b].wrote = 0 /\ job'[b].keyed = <<>> /\ job'[b].seen = <<>>
<1>1. b \in Procs /\ job[b].plan \in {1, 2}
  BY DEF Procs, Typing, PlacesTyped, Locals
<1>2. CASE b \notin Plain /\ job[b].plan < Len(Plans)
  <2>1. job[b].plan + 1 = 2
    BY <1>1, <1>2, PlansAre
  <2>2. Begin(b, 2) /\ Goto(b, "keying")
    BY <1>2, <2>1 DEF Evict
  <2> QED BY <1>1, <2>1, <2>2, Beginning DEF Evict
<1>3. CASE ~(b \notin Plain /\ job[b].plan < Len(Plans))
  <2>1. Begin(b, job[b].plan) /\ Goto(b, "done")
    BY <1>3 DEF Evict
  <2> QED BY <1>1, <2>1, Beginning DEF Evict
<1> QED BY <1>2, <1>3

LEMMA BuildFailsMoves ==
  ASSUME Typing, NEW b \in Builders, BuildFails(b)
  PROVE  /\ Goes(b, "failed") /\ pc[b] \in {"truncating", "filling", "keying", "pulling", "stepping", "ingesting", "restoring", "unpacking"}
         /\ job'[b].base = <<>> /\ job'[b].rootfs = <<>> /\ job'[b].wrote = 0 /\ job'[b].keyed = <<>> /\ job'[b].seen = <<>>
<1>1. b \in Procs /\ job[b].plan \in {1, 2}
  BY DEF Procs, Typing, PlacesTyped, Locals
<1>2. Goto(b, "failed") /\ Begin(b, job[b].plan) /\ pc[b] \in {"truncating", "filling", "keying", "pulling", "stepping", "ingesting", "restoring", "unpacking"}
  BY DEF BuildFails
<1> QED BY <1>1, <1>2, Beginning

LEMMA StartCleanMoves ==
  ASSUME Typing, NEW c \in Cleaners, StartClean(c)
  PROVE  Goes(c, "listing") /\ Same(c) /\ pc[c] = "idle"
<1>1. c \in Procs
  BY DEF Procs
<1> QED BY <1>1, Resting DEF StartClean

LEMMA ForgetMoves ==
  ASSUME Typing, NEW c \in Cleaners, Forget(c)
  PROVE  Goes(c, "done") /\ Same(c) /\ pc[c] = "forgetting"
<1>1. c \in Procs
  BY DEF Procs
<1> QED BY <1>1, Resting DEF Forget

LEMMA ListMoves ==
  ASSUME Typing, NEW p \in Builders \cup Cleaners, List(p)
  PROVE  /\ pc[p] = "listing" /\ Goes(p, "dropping")
         /\ job'[p].base = job[p].base /\ job'[p].rootfs = job[p].rootfs /\ job'[p].seen = job[p].seen
<1>1. p \in Procs /\ pc[p] = "listing"
  BY DEF Procs, List
<1>2. {tags[t] : t \in DOMAIN tags} \in SUBSET Digests
  BY DEF Typing, TagsTyped
<1>3. Set(p, "kept", {tags[t] : t \in DOMAIN tags}) /\ Goto(p, "dropping")
  BY DEF List
<1> QED BY <1>1, <1>2, <1>3, SettingKept

LEMMA EvictUnpackedMoves ==
  ASSUME Typing, NEW p \in Builders \cup Cleaners, EvictUnpacked(p)
  PROVE  /\ Goes(p, "reclaiming") /\ pc[p] = "dropping"
         /\ job'[p].base = <<>> /\ job'[p].rootfs = <<>> /\ job'[p].wrote = 0 /\ job'[p].keyed = <<>> /\ job'[p].seen = <<>>
<1>1. p \in Procs /\ job[p].plan \in {1, 2}
  BY DEF Procs, Typing, PlacesTyped, Locals
<1>2. Goto(p, "reclaiming") /\ Begin(p, job[p].plan) /\ pc[p] = "dropping"
  BY DEF EvictUnpacked
<1> QED BY <1>1, <1>2, Beginning

LEMMA LockExclusiveMoves ==
  ASSUME Typing, NEW p \in Builders \cup Cleaners, LockExclusive(p)
  PROVE  /\ pc[p] = "reclaiming" /\ Same(p)
         /\ \/ building = {} /\ reclaiming = NoProc /\ reclaiming' = p /\ Goes(p, "deleting")
            \/ (building # {} \/ reclaiming # NoProc) /\ reclaiming' = reclaiming /\ Goes(p, AfterReclaim(p))
<1>1. p \in Procs 
  BY DEF Procs
<1> QED BY <1>1, Resting DEF LockExclusive

LEMMA DeleteMoves ==
  ASSUME Typing, NEW p \in Builders \cup Cleaners, Delete(p)
  PROVE  pc[p] = "deleting" /\ Same(p) /\ Goes(p, AfterReclaim(p))
<1>1. p \in Procs 
  BY DEF Procs
<1> QED BY <1>1, Resting DEF Delete

LEMMA GetMoves ==
  ASSUME Typing, NEW s \in Booters, Get(s)
  PROVE  /\ pc[s] = "idle" /\ Goes(s, "reading")
<1>1. s \in Procs /\ pc[s] = "idle" /\ "claude" \in DOMAIN tags
  BY DEF Procs, Get
<1>2. tags["claude"] \in Rootfs
  BY <1>1 DEF Typing, TagsTyped, Names
<1>3. Set(s, "base", tags["claude"]) /\ Goto(s, "reading")
  BY DEF Get
<1> QED BY <1>1, <1>2, <1>3, SettingBase

LEMMA ReadConfigMoves ==
  ASSUME Typing, NEW s \in Booters, ReadConfig(s)
  PROVE  /\ pc[s] = "reading" /\ Same(s) /\ (Goes(s, "cloning") \/ Goes(s, "extracting"))
<1>1. s \in Procs
  BY DEF Procs
<1> QED BY <1>1, Resting DEF ReadConfig

LEMMA ExtractMoves ==
  ASSUME Typing, NEW s \in Booters, Extract(s)
  PROVE  Goes(s, "cloning") /\ Same(s) /\ pc[s] = "extracting"
<1>1. s \in Procs
  BY DEF Procs
<1> QED BY <1>1, Resting DEF Extract

LEMMA CloneMoves ==
  ASSUME Typing, NEW s \in Booters, Clone(s)
  PROVE  /\ pc[s] = "cloning" /\ Goes(s, "running")
         /\ job'[s].base = job[s].base /\ job'[s].rootfs = unpacked[job[s].base] /\ job[s].base \in DOMAIN unpacked
<1>1. s \in Procs /\ pc[s] = "cloning" /\ job[s].base \in DOMAIN unpacked
  BY DEF Procs, Clone
<1>2. unpacked[job[s].base] \in Rootfs
  BY <1>1 DEF Typing, UnpackedTyped
<1>3. Set(s, "rootfs", unpacked[job[s].base]) /\ Goto(s, "running")
  BY DEF Clone
<1> QED BY <1>1, <1>2, <1>3, SettingRootfs

LEMMA BootFailsMoves ==
  ASSUME Typing, NEW s \in Booters, BootFails(s)
  PROVE  Goes(s, "failed") /\ Same(s) /\ pc[s] \in {"reading", "extracting", "cloning"}
<1>1. s \in Procs
  BY DEF Procs
<1> QED BY <1>1, Resting DEF BootFails

LEMMA CrashMoves ==
  ASSUME Typing, NEW p \in Builders \cup Cleaners, Crash(p)
  PROVE  /\ Goes(p, "failed") /\ (p \in building \/ p = reclaiming)
         /\ job'[p].base = <<>> /\ job'[p].rootfs = <<>> /\ job'[p].wrote = 0 /\ job'[p].keyed = <<>> /\ job'[p].seen = <<>>
<1>1. p \in Procs /\ job[p].plan \in {1, 2}
  BY DEF Procs, Typing, PlacesTyped, Locals
<1>2. Goto(p, "failed") /\ Begin(p, job[p].plan) /\ (p \in building \/ p = reclaiming)
  BY DEF Crash
<1> QED BY <1>1, <1>2, Beginning

-----------------------------------------------------------------------------
(* Types. *)

LEMMA TypingKept ==
  ASSUME Typing, [Next]_vars
  PROVE  Typing'
<1> USE DEF Typing, contextVars
<1>1. ASSUME NEW b \in Builders, Keys(b)
      PROVE  Typing'
  <2>1. UNCHANGED <<blobs, tags, snapshots, records, unpacked, context, disturbed, faults, building, reclaiming>>
    BY <1>1 DEF Keys, storeVars, lockVars
  <2>2. PlacesTyped'
    BY <1>1, KeysMoves DEF Goes, Others, Same, PlacesTyped, LocalsOK, Procs
  <2> QED BY <2>1, <2>2 DEF BlobsTyped, TagsTyped, SnapshotsTyped, RecordsTyped, UnpackedTyped, LocksTyped
<1>2. ASSUME NEW b \in Builders, LockShared(b)
      PROVE  Typing'
  <2>1. UNCHANGED <<blobs, tags, snapshots, records, unpacked>>
    BY <1>2 DEF LockShared, storeVars, lockVars
  <2>2. LocksTyped'
    BY <1>2 DEF LockShared, LocksTyped
  <2>3. PlacesTyped'
    BY <1>2, LockSharedMoves DEF Goes, Others, Same, PlacesTyped, LocalsOK, Procs
  <2> QED BY <2>1, <2>2, <2>3 DEF BlobsTyped, TagsTyped, SnapshotsTyped, RecordsTyped, UnpackedTyped
<1>3. ASSUME NEW b \in Builders, Pull(b)
      PROVE  Typing'
  <2>1. UNCHANGED <<tags, snapshots, records, unpacked, context, disturbed, faults, building, reclaiming>>
    BY <1>3 DEF Pull, storeVars, lockVars
  <2>2. BlobsTyped'
    BY <1>3, PullMoves, NullTyped DEF Parts, Digests, BlobsTyped
  <2>3. PlacesTyped'
    BY <1>3, PullMoves DEF Goes, Others, Same, PlacesTyped, LocalsOK, Procs
  <2> QED BY <2>1, <2>2, <2>3 DEF TagsTyped, SnapshotsTyped, RecordsTyped, UnpackedTyped, LocksTyped
<1>4. ASSUME NEW b \in Builders, TagPulled(b)
      PROVE  Typing'
  <2>1. UNCHANGED <<blobs, snapshots, records, unpacked, context, disturbed, faults, building, reclaiming>>
    BY <1>4 DEF TagPulled, storeVars, lockVars
  <2>2. TagsTyped'
    <3>1. Plan(b).base \in Names /\ job[b].base \in Rootfs
      BY PlansAre DEF PlacesTyped, Locals, Procs, Plan, Names
    <3> QED BY <1>4, <3>1 DEF TagPulled, Put, TagsTyped, Digests
  <2>3. PlacesTyped'
    BY <1>4, TagPulledMoves DEF Goes, Others, Same, PlacesTyped, LocalsOK, Procs
  <2> QED BY <2>1, <2>2, <2>3 DEF BlobsTyped, SnapshotsTyped, RecordsTyped, UnpackedTyped, LocksTyped
<1>5. ASSUME NEW b \in Builders, Look(b)
      PROVE  Typing'
  <2>1. UNCHANGED <<blobs, tags, snapshots, records, unpacked, context, disturbed, faults, building, reclaiming>>
    BY <1>5 DEF Look, storeVars, lockVars
  <2>2. PlacesTyped'
    BY <1>5, LookMoves DEF Goes, Others, Same, PlacesTyped, LocalsOK, Procs
  <2> QED BY <2>1, <2>2 DEF BlobsTyped, TagsTyped, SnapshotsTyped, RecordsTyped, UnpackedTyped, LocksTyped
<1>6. ASSUME NEW b \in Builders, Restore(b)
      PROVE  Typing'
  <2>1. UNCHANGED <<blobs, tags, records, unpacked, context, disturbed, faults, building, reclaiming>>
    BY <1>6 DEF Restore, storeVars, lockVars
  <2>2. SnapshotsTyped'
    <3>1. snapshots' = Touched(StepKey(b, job[b].start)) /\ StepKey(b, job[b].start) \in Held
      BY <1>6, RestoreMoves DEF Restore
    <3> QED BY <3>1, TouchedKeeps DEF SnapshotsTyped
  <2>3. PlacesTyped'
    BY <1>6, RestoreMoves DEF Goes, Others, Same, PlacesTyped, LocalsOK, Procs
  <2> QED BY <2>1, <2>2, <2>3 DEF BlobsTyped, TagsTyped, RecordsTyped, UnpackedTyped, LocksTyped
<1>7. ASSUME NEW b \in Builders, Unpack(b)
      PROVE  Typing'
  <2>1. UNCHANGED <<blobs, tags, records, unpacked>>
    BY <1>7 DEF Unpack, storeVars, lockVars
  <2>2. SnapshotsTyped'
    <3>1. /\ SaveRootfs(job[b].base, StepKey(b, 0))
          /\ [key |-> StepKey(b, 0), rootfs |-> job[b].base] \in Snapshot
      BY <1>7, KeyTyped DEF Unpack, PlacesTyped, Locals, Procs, Snapshot
    <3> QED BY <3>1, SavedOnce DEF SnapshotsTyped, LocksTyped
  <2>3. LocksTyped'
    <3>1. /\ SaveRootfs(job[b].base, StepKey(b, 0))
          /\ [key |-> StepKey(b, 0), rootfs |-> job[b].base] \in Snapshot
      BY <1>7, KeyTyped DEF Unpack, PlacesTyped, Locals, Procs, Snapshot
    <3>2. faults' \in 0..MaxFaults
      BY <3>1, SavedOnce DEF SnapshotsTyped, LocksTyped
    <3> QED BY <1>7, <3>2 DEF Unpack, LocksTyped, lockVars
  <2>4. PlacesTyped'
    BY <1>7, UnpackMoves DEF Goes, Others, Same, PlacesTyped, LocalsOK, Procs
  <2> QED BY <2>1, <2>2, <2>3, <2>4 DEF BlobsTyped, TagsTyped, RecordsTyped, UnpackedTyped
<1>8. ASSUME NEW b \in Builders, Step(b)
      PROVE  Typing'
  <2>1. UNCHANGED <<blobs, tags, records, unpacked>>
    BY <1>8 DEF Step, StepKept, storeVars, lockVars
  <2>2. SnapshotsTyped'
    <3>1. PICK rootfs \in Rootfs : SaveRootfs(rootfs, StepKey(b, 1))
      BY <1>8, StepMoves
    <3>2. [key |-> StepKey(b, 1), rootfs |-> rootfs] \in Snapshot
      BY KeyTyped DEF PlacesTyped, LocalsOK, Procs, Snapshot
    <3> QED BY <3>1, <3>2, SavedOnce DEF SnapshotsTyped, LocksTyped
  <2>3. LocksTyped'
    <3>1. PICK rootfs \in Rootfs : SaveRootfs(rootfs, StepKey(b, 1))
      BY <1>8, StepMoves
    <3>2. [key |-> StepKey(b, 1), rootfs |-> rootfs] \in Snapshot
      BY KeyTyped DEF PlacesTyped, LocalsOK, Procs, Snapshot
    <3>3. faults' \in 0..MaxFaults
      BY <3>1, <3>2, SavedOnce DEF SnapshotsTyped, LocksTyped
    <3> QED BY <1>8, <3>3 DEF Step, StepKept, LocksTyped, lockVars
  <2>4. PlacesTyped'
    BY <1>8, StepMoves, ZenonT(30) DEF Goes, Others, Same, PlacesTyped, LocalsOK, Procs
  <2> QED BY <2>1, <2>2, <2>3, <2>4 DEF BlobsTyped, TagsTyped, RecordsTyped, UnpackedTyped
<1>9. ASSUME NEW b \in Builders, Ingest(b)
      PROVE  Typing'
  <2>1. UNCHANGED <<tags, snapshots, records, unpacked, context, disturbed, faults, building, reclaiming>>
    BY <1>9 DEF Ingest, storeVars, lockVars
  <2>2. BlobsTyped'
    <3>1. job[b].rootfs \in Rootfs
      BY DEF PlacesTyped, Locals, Procs
    <3> QED BY <1>9, <3>1 DEF Ingest, Parts, Digests, BlobsTyped
  <2>3. PlacesTyped'
    BY <1>9, IngestMoves DEF Goes, Others, Same, PlacesTyped, LocalsOK, Procs
  <2> QED BY <2>1, <2>2, <2>3 DEF TagsTyped, SnapshotsTyped, RecordsTyped, UnpackedTyped, LocksTyped
<1>10. ASSUME NEW b \in Builders, Tag(b)
      PROVE  Typing'
  <2>1. UNCHANGED <<blobs, snapshots, records, unpacked, context, disturbed, faults, building, reclaiming>>
    BY <1>10 DEF Tag, storeVars, lockVars
  <2>2. TagsTyped'
    <3>1. Plan(b).tag \in Names /\ job[b].rootfs \in Rootfs
      BY PlansAre DEF PlacesTyped, Locals, Procs, Plan, Names
    <3> QED BY <1>10, <3>1 DEF Tag, Put, TagsTyped, Digests
  <2>3. PlacesTyped'
    BY <1>10, TagMoves DEF Goes, Others, Same, PlacesTyped, LocalsOK, Procs
  <2> QED BY <2>1, <2>2, <2>3 DEF BlobsTyped, SnapshotsTyped, RecordsTyped, UnpackedTyped, LocksTyped
<1>11. ASSUME NEW b \in Builders, SaveImage(b)
      PROVE  Typing'
  <2>1. UNCHANGED <<blobs, tags, snapshots, unpacked>>
    BY <1>11 DEF SaveImage, storeVars, lockVars
  <2>2. RecordsTyped'
    <3>1. job[b].rootfs \in Rootfs
      BY DEF PlacesTyped, Locals, Procs
    <3>2. CASE records' = Put(records, ImageKey(b), Torn)
      BY <3>2, NullTyped DEF Put, Torn, RecordsTyped
    <3>3. CASE records' = Put(records, ImageKey(b), job[b].rootfs)
      BY <3>1, <3>3 DEF Put, RecordsTyped
    <3>4. CASE records' = records
      BY <3>4 DEF RecordsTyped
    <3> QED BY <1>11, <3>2, <3>3, <3>4, SaveImageMoves
  <2>3. LocksTyped'
    BY <1>11, BoundsAssumption DEF SaveImage, LocksTyped, Fault, lockVars
  <2>4. PlacesTyped'
    BY <1>11, SaveImageMoves DEF Goes, Others, Same, PlacesTyped, LocalsOK, Procs
  <2> QED BY <2>1, <2>2, <2>3, <2>4 DEF BlobsTyped, TagsTyped, SnapshotsTyped, UnpackedTyped
<1>12. ASSUME NEW b \in Builders, Unlock(b)
      PROVE  Typing'
  <2>1. UNCHANGED <<blobs, tags, snapshots, records, unpacked>>
    BY <1>12 DEF Unlock, storeVars, lockVars
  <2>2. LocksTyped'
    BY <1>12 DEF Unlock, LocksTyped
  <2>3. PlacesTyped'
    BY <1>12, UnlockMoves DEF Goes, Others, Same, PlacesTyped, LocalsOK, Procs
  <2> QED BY <2>1, <2>2, <2>3 DEF BlobsTyped, TagsTyped, SnapshotsTyped, RecordsTyped, UnpackedTyped
<1>13. ASSUME NEW b \in Builders, Evict(b)
      PROVE  Typing'
  <2>1. UNCHANGED <<blobs, tags, records, unpacked, context, disturbed, faults, building, reclaiming>>
    BY <1>13 DEF Evict, storeVars, lockVars
  <2>2. SnapshotsTyped'
    <3> DEFINE left == IF Keep < Len(snapshots) THEN Keep ELSE Len(snapshots)
    <3>1. left \in 0..Len(snapshots)
      BY BoundsAssumption DEF SnapshotsTyped
    <3>2. snapshots' = SubSeq(snapshots, 1, left)
      BY <1>13 DEF Evict
    <3> HIDE DEF left
    <3> QED BY <3>1, <3>2, EvictedFromTheEnd DEF SnapshotsTyped
  <2>3. PlacesTyped'
    BY <1>13, EvictMoves, ScriptsAre DEF Goes, Others, Same, PlacesTyped, LocalsOK, Procs
  <2> QED BY <2>1, <2>2, <2>3 DEF BlobsTyped, TagsTyped, RecordsTyped, UnpackedTyped, LocksTyped
<1>14. ASSUME NEW b \in Builders, BuildFails(b)
      PROVE  Typing'
  <2>1. UNCHANGED <<blobs, tags, snapshots, records, unpacked>>
    BY <1>14 DEF BuildFails, storeVars, lockVars
  <2>2. LocksTyped'
    BY <1>14, BoundsAssumption DEF BuildFails, LocksTyped, Fault
  <2>3. PlacesTyped'
    BY <1>14, BuildFailsMoves DEF Goes, Others, Same, PlacesTyped, LocalsOK, Procs
  <2> QED BY <2>1, <2>2, <2>3 DEF BlobsTyped, TagsTyped, SnapshotsTyped, RecordsTyped, UnpackedTyped
<1>15. ASSUME NEW c \in Cleaners, StartClean(c)
      PROVE  Typing'
  <2>1. UNCHANGED <<blobs, tags, snapshots, records, unpacked, context, disturbed, faults, building, reclaiming>>
    BY <1>15 DEF StartClean, storeVars, lockVars
  <2>2. PlacesTyped'
    BY <1>15, StartCleanMoves DEF Goes, Others, Same, PlacesTyped, LocalsOK, Procs
  <2> QED BY <2>1, <2>2 DEF BlobsTyped, TagsTyped, SnapshotsTyped, RecordsTyped, UnpackedTyped, LocksTyped
<1>16. ASSUME NEW c \in Cleaners, Forget(c)
      PROVE  Typing'
  <2>1. UNCHANGED <<blobs, tags, snapshots, unpacked, context, disturbed, faults, building, reclaiming>>
    BY <1>16 DEF Forget, storeVars, lockVars
  <2>2. RecordsTyped'
    BY <1>16 DEF Forget, Only, RecordsTyped
  <2>3. PlacesTyped'
    BY <1>16, ForgetMoves DEF Goes, Others, Same, PlacesTyped, LocalsOK, Procs
  <2> QED BY <2>1, <2>2, <2>3 DEF BlobsTyped, TagsTyped, SnapshotsTyped, UnpackedTyped, LocksTyped
<1>17. ASSUME NEW p \in Builders \cup Cleaners, List(p)
      PROVE  Typing'
  <2>1. UNCHANGED <<blobs, tags, snapshots, records, unpacked, context, disturbed, faults, building, reclaiming>>
    BY <1>17 DEF List, storeVars, lockVars
  <2>2. PlacesTyped'
    BY <1>17, ListMoves DEF Goes, Others, Same, PlacesTyped, LocalsOK, Procs
  <2> QED BY <2>1, <2>2 DEF BlobsTyped, TagsTyped, SnapshotsTyped, RecordsTyped, UnpackedTyped, LocksTyped
<1>18. ASSUME NEW p \in Builders \cup Cleaners, EvictUnpacked(p)
      PROVE  Typing'
  <2>1. UNCHANGED <<blobs, tags, snapshots, records, context, disturbed, faults, building, reclaiming>>
    BY <1>18 DEF EvictUnpacked, storeVars, lockVars
  <2>2. UnpackedTyped'
    BY <1>18 DEF EvictUnpacked, Only, UnpackedTyped
  <2>3. PlacesTyped'
    BY <1>18, EvictUnpackedMoves DEF Goes, Others, Same, PlacesTyped, LocalsOK, Procs
  <2> QED BY <2>1, <2>2, <2>3 DEF BlobsTyped, TagsTyped, SnapshotsTyped, RecordsTyped, LocksTyped
<1>19. ASSUME NEW p \in Builders \cup Cleaners, LockExclusive(p)
      PROVE  Typing'
  <2>1. UNCHANGED <<blobs, tags, snapshots, records, unpacked>>
    BY <1>19 DEF LockExclusive, storeVars, lockVars
  <2>2. LocksTyped'
    BY <1>19 DEF LockExclusive, LocksTyped, Procs
  <2>3. PlacesTyped'
    BY <1>19, LockExclusiveMoves DEF Goes, Others, Same, PlacesTyped, LocalsOK, Procs, AfterReclaim
  <2> QED BY <2>1, <2>2, <2>3 DEF BlobsTyped, TagsTyped, SnapshotsTyped, RecordsTyped, UnpackedTyped
<1>20. ASSUME NEW p \in Builders \cup Cleaners, Delete(p)
      PROVE  Typing'
  <2>1. UNCHANGED <<tags, snapshots, records, unpacked>>
    BY <1>20 DEF Delete, storeVars, lockVars
  <2>2. BlobsTyped'
    BY <1>20 DEF Delete, BlobsTyped
  <2>3. LocksTyped'
    BY <1>20 DEF Delete, LocksTyped
  <2>4. PlacesTyped'
    BY <1>20, DeleteMoves DEF Goes, Others, Same, PlacesTyped, LocalsOK, Procs, AfterReclaim
  <2> QED BY <2>1, <2>2, <2>3, <2>4 DEF TagsTyped, SnapshotsTyped, RecordsTyped, UnpackedTyped
<1>21. ASSUME NEW p \in Builders \cup Cleaners, Crash(p)
      PROVE  Typing'
  <2>1. UNCHANGED <<tags, snapshots, records, unpacked>>
    BY <1>21 DEF Crash, storeVars, lockVars
  <2>2. BlobsTyped'
    BY <1>21 DEF Crash, BlobsTyped
  <2>3. LocksTyped'
    BY <1>21, BoundsAssumption DEF Crash, LocksTyped, Fault
  <2>4. PlacesTyped'
    BY <1>21, CrashMoves DEF Goes, Others, Same, PlacesTyped, LocalsOK, Procs
  <2> QED BY <2>1, <2>2, <2>3, <2>4 DEF TagsTyped, SnapshotsTyped, RecordsTyped, UnpackedTyped
<1>22. ASSUME NEW s \in Booters, Get(s)
      PROVE  Typing'
  <2>1. UNCHANGED <<blobs, tags, snapshots, records, unpacked, context, disturbed, faults, building, reclaiming>>
    BY <1>22 DEF Get, storeVars, lockVars
  <2>2. PlacesTyped'
    BY <1>22, GetMoves, ProcsAssumption DEF Goes, Others, PlacesTyped, LocalsOK, Procs
  <2> QED BY <2>1, <2>2 DEF BlobsTyped, TagsTyped, SnapshotsTyped, RecordsTyped, UnpackedTyped, LocksTyped
<1>23. ASSUME NEW s \in Booters, ReadConfig(s)
      PROVE  Typing'
  <2>1. UNCHANGED <<blobs, tags, snapshots, records, unpacked, context, disturbed, faults, building, reclaiming>>
    BY <1>23 DEF ReadConfig, storeVars, lockVars
  <2>2. PlacesTyped'
    BY <1>23, ReadConfigMoves DEF Goes, Others, Same, PlacesTyped, LocalsOK, Procs
  <2> QED BY <2>1, <2>2 DEF BlobsTyped, TagsTyped, SnapshotsTyped, RecordsTyped, UnpackedTyped, LocksTyped
<1>24. ASSUME NEW s \in Booters, Extract(s)
      PROVE  Typing'
  <2>1. UNCHANGED <<blobs, tags, snapshots, records, context, disturbed, faults, building, reclaiming>>
    BY <1>24 DEF Extract, storeVars, lockVars
  <2>2. UnpackedTyped'
    <3>1. job[s].base \in Rootfs
      BY DEF PlacesTyped, Locals, Procs
    <3> QED BY <1>24, <3>1 DEF Extract, Put, UnpackedTyped
  <2>3. PlacesTyped'
    BY <1>24, ExtractMoves DEF Goes, Others, Same, PlacesTyped, LocalsOK, Procs
  <2> QED BY <2>1, <2>2, <2>3 DEF BlobsTyped, TagsTyped, SnapshotsTyped, RecordsTyped, LocksTyped
<1>25. ASSUME NEW s \in Booters, Clone(s)
      PROVE  Typing'
  <2>1. UNCHANGED <<blobs, tags, snapshots, records, unpacked, context, disturbed, faults, building, reclaiming>>
    BY <1>25 DEF Clone, storeVars, lockVars
  <2>2. PlacesTyped'
    BY <1>25, CloneMoves, ProcsAssumption DEF Goes, Others, PlacesTyped, LocalsOK, Procs
  <2> QED BY <2>1, <2>2 DEF BlobsTyped, TagsTyped, SnapshotsTyped, RecordsTyped, UnpackedTyped, LocksTyped
<1>26. ASSUME NEW s \in Booters, BootFails(s)
      PROVE  Typing'
  <2>1. UNCHANGED <<blobs, tags, snapshots, records, unpacked, context, disturbed, faults, building, reclaiming>>
    BY <1>26 DEF BootFails, storeVars, lockVars
  <2>2. PlacesTyped'
    BY <1>26, BootFailsMoves DEF Goes, Others, Same, PlacesTyped, LocalsOK, Procs
  <2> QED BY <2>1, <2>2 DEF BlobsTyped, TagsTyped, SnapshotsTyped, RecordsTyped, UnpackedTyped, LocksTyped
<1>27. CASE UNCHANGED vars
  BY <1>27 DEF vars, storeVars, lockVars, BlobsTyped, TagsTyped, SnapshotsTyped, RecordsTyped, UnpackedTyped, LocksTyped, PlacesTyped, LocalsOK
<1>28. ASSUME NEW b \in Builders, Truncate(b)
      PROVE  Typing'
  <2>1. UNCHANGED <<blobs, tags, snapshots, records, unpacked, faults, building, reclaiming>>
    BY <1>28 DEF Truncate, storeVars, lockVars
  <2>2. LocksTyped'
    BY <1>28, <2>1, TruncateMoves, WritesMoves, VersionIs DEF LocksTyped
  <2>3. PlacesTyped'
    BY <1>28, TruncateMoves, ScriptsAre DEF Goes, Others, Same, PlacesTyped, LocalsOK, Procs
  <2> QED BY <2>1, <2>2, <2>3 DEF BlobsTyped, TagsTyped, SnapshotsTyped, RecordsTyped, UnpackedTyped
<1>29. ASSUME NEW b \in Builders, Fill(b)
      PROVE  Typing'
  <2>1. UNCHANGED <<blobs, tags, snapshots, records, unpacked, faults, building, reclaiming>>
    BY <1>29 DEF Fill, storeVars, lockVars
  <2>2. LocksTyped'
    BY <1>29, <2>1, FillMoves, WritesMoves, VersionIs DEF LocksTyped
  <2>3. PlacesTyped'
    BY <1>29, FillMoves, ScriptsAre DEF Goes, Others, Same, PlacesTyped, LocalsOK, Procs
  <2> QED BY <2>1, <2>2, <2>3 DEF BlobsTyped, TagsTyped, SnapshotsTyped, RecordsTyped, UnpackedTyped
<1>30. ASSUME NEW b \in Builders, CopyScript(b)
      PROVE  Typing'
  <2>1. UNCHANGED <<blobs, tags, snapshots, records, unpacked, context, disturbed, faults, building, reclaiming>>
    BY <1>30 DEF CopyScript, storeVars, lockVars
  <2>2. PlacesTyped'
    BY <1>30, CopyScriptMoves DEF Goes, Others, Same, PlacesTyped, LocalsOK, Procs
  <2> QED BY <2>1, <2>2 DEF BlobsTyped, TagsTyped, SnapshotsTyped, RecordsTyped, UnpackedTyped, LocksTyped
<1> QED BY <1>1, <1>2, <1>3, <1>4, <1>5, <1>6, <1>7, <1>8, <1>9, <1>10, <1>11, <1>12, <1>13, <1>14, <1>15, <1>16, <1>17, <1>18, <1>19, <1>20, <1>21, <1>22, <1>23, <1>24, <1>25, <1>26, <1>27, <1>28, <1>29, <1>30 DEF Next, Build, Reclaim, Boot

-----------------------------------------------------------------------------
(* Whose the lock is. *)

LEMMA LocksKept ==
  ASSUME Typing, LocksOK, [Next]_vars
  PROVE  LocksOK'
<1> USE DEF LocksOK, LockOf, Sharing
<1>1. ASSUME NEW b \in Builders, Keys(b)
      PROVE  LocksOK'
  BY <1>1, KeysMoves, ProcsAssumption DEF Keys, Goes, Others, Procs, lockVars
<1>2. ASSUME NEW b \in Builders, LockShared(b)
      PROVE  LocksOK'
  BY <1>2, LockSharedMoves, ProcsAssumption DEF LockShared, Goes, Others, Procs, lockVars
<1>3. ASSUME NEW b \in Builders, Pull(b)
      PROVE  LocksOK'
  BY <1>3, PullMoves, ProcsAssumption DEF Pull, Goes, Others, Procs, lockVars
<1>4. ASSUME NEW b \in Builders, TagPulled(b)
      PROVE  LocksOK'
  BY <1>4, TagPulledMoves, ProcsAssumption DEF TagPulled, Goes, Others, Procs, lockVars
<1>5. ASSUME NEW b \in Builders, Look(b)
      PROVE  LocksOK'
  BY <1>5, LookMoves, ProcsAssumption, SMTT(30) DEF Look, Goes, Others, Procs, lockVars
<1>6. ASSUME NEW b \in Builders, Restore(b)
      PROVE  LocksOK'
  BY <1>6, RestoreMoves, ProcsAssumption DEF Restore, Goes, Others, Procs, lockVars
<1>7. ASSUME NEW b \in Builders, Unpack(b)
      PROVE  LocksOK'
  <2>1. pc[b] = "unpacking" /\ Goes(b, "stepping") /\ UNCHANGED <<building, reclaiming>> /\ b \in Procs
    BY <1>7, UnpackMoves DEF Unpack, Procs, lockVars
  <2>2. \A p \in Procs : LockOf(p)'
    BY <2>1 DEF Goes, Others
  <2> QED
    BY <2>1, <2>2
<1>8. ASSUME NEW b \in Builders, Step(b)
      PROVE  LocksOK'
  <2>1. pc[b] = "stepping" /\ Goes(b, "ingesting")
    BY <1>8, StepMoves
  <2>2. building' = building /\ reclaiming' = reclaiming
    BY <1>8 DEF Step, StepKept, lockVars
  <2> QED BY <2>1, <2>2, ProcsAssumption DEF Goes, Others, Procs
<1>9. ASSUME NEW b \in Builders, Ingest(b)
      PROVE  LocksOK'
  BY <1>9, IngestMoves, ProcsAssumption DEF Ingest, Goes, Others, Procs, lockVars
<1>10. ASSUME NEW b \in Builders, Tag(b)
      PROVE  LocksOK'
  BY <1>10, TagMoves, ProcsAssumption DEF Tag, Goes, Others, Procs, lockVars
<1>11. ASSUME NEW b \in Builders, SaveImage(b)
      PROVE  LocksOK'
  BY <1>11, SaveImageMoves, ProcsAssumption DEF SaveImage, Goes, Others, Procs, lockVars
<1>12. ASSUME NEW b \in Builders, Unlock(b)
      PROVE  LocksOK'
  BY <1>12, UnlockMoves, ProcsAssumption DEF Unlock, Goes, Others, Procs, lockVars
<1>13. ASSUME NEW b \in Builders, Evict(b)
      PROVE  LocksOK'
  BY <1>13, EvictMoves, ProcsAssumption DEF Evict, Goes, Others, Procs, lockVars
<1>14. ASSUME NEW b \in Builders, BuildFails(b)
      PROVE  LocksOK'
  BY <1>14, BuildFailsMoves, ProcsAssumption DEF BuildFails, Goes, Others, Procs, lockVars
<1>15. ASSUME NEW c \in Cleaners, StartClean(c)
      PROVE  LocksOK'
  BY <1>15, StartCleanMoves, ProcsAssumption DEF StartClean, Goes, Others, Procs, lockVars
<1>16. ASSUME NEW c \in Cleaners, Forget(c)
      PROVE  LocksOK'
  BY <1>16, ForgetMoves, ProcsAssumption DEF Forget, Goes, Others, Procs, lockVars
<1>17. ASSUME NEW p \in Builders \cup Cleaners, List(p)
      PROVE  LocksOK'
  BY <1>17, ListMoves, ProcsAssumption DEF List, Goes, Others, Procs, lockVars
<1>18. ASSUME NEW p \in Builders \cup Cleaners, EvictUnpacked(p)
      PROVE  LocksOK'
  BY <1>18, EvictUnpackedMoves, ProcsAssumption DEF EvictUnpacked, Goes, Others, Procs, lockVars
<1>19. ASSUME NEW p \in Builders \cup Cleaners, LockExclusive(p)
      PROVE  LocksOK'
  BY <1>19, LockExclusiveMoves, ProcsAssumption DEF LockExclusive, Goes, Others, Procs, lockVars, AfterReclaim, Typing, LocksTyped
<1>20. ASSUME NEW p \in Builders \cup Cleaners, Delete(p)
      PROVE  LocksOK'
  BY <1>20, DeleteMoves, ProcsAssumption DEF Delete, Goes, Others, Procs, lockVars, AfterReclaim, Typing, LocksTyped
<1>21. ASSUME NEW p \in Builders \cup Cleaners, Crash(p)
      PROVE  LocksOK'
  BY <1>21, CrashMoves, ProcsAssumption, ZenonT(30) DEF Crash, Goes, Others, Procs, lockVars, Typing, LocksTyped
<1>22. ASSUME NEW s \in Booters, Get(s)
      PROVE  LocksOK'
  BY <1>22, GetMoves, ProcsAssumption DEF Get, Goes, Others, Procs, lockVars
<1>23. ASSUME NEW s \in Booters, ReadConfig(s)
      PROVE  LocksOK'
  BY <1>23, ReadConfigMoves, ProcsAssumption DEF ReadConfig, Goes, Others, Procs, lockVars
<1>24. ASSUME NEW s \in Booters, Extract(s)
      PROVE  LocksOK'
  BY <1>24, ExtractMoves, ProcsAssumption DEF Extract, Goes, Others, Procs, lockVars
<1>25. ASSUME NEW s \in Booters, Clone(s)
      PROVE  LocksOK'
  BY <1>25, CloneMoves, ProcsAssumption DEF Clone, Goes, Others, Procs, lockVars
<1>26. ASSUME NEW s \in Booters, BootFails(s)
      PROVE  LocksOK'
  BY <1>26, BootFailsMoves, ProcsAssumption DEF BootFails, Goes, Others, Procs, lockVars
<1>27. CASE UNCHANGED vars
  BY <1>27 DEF vars, lockVars
<1>28. ASSUME NEW b \in Builders, Truncate(b)
      PROVE  LocksOK'
  BY <1>28, TruncateMoves, ProcsAssumption DEF Truncate, Goes, Others, Procs, lockVars
<1>29. ASSUME NEW b \in Builders, Fill(b)
      PROVE  LocksOK'
  BY <1>29, FillMoves, ProcsAssumption DEF Fill, Goes, Others, Procs, lockVars
<1>30. ASSUME NEW b \in Builders, CopyScript(b)
      PROVE  LocksOK'
  BY <1>30, CopyScriptMoves, ProcsAssumption DEF CopyScript, Goes, Others, Procs, lockVars
<1> QED BY <1>1, <1>2, <1>3, <1>4, <1>5, <1>6, <1>7, <1>8, <1>9, <1>10, <1>11, <1>12, <1>13, <1>14, <1>15, <1>16, <1>17, <1>18, <1>19, <1>20, <1>21, <1>22, <1>23, <1>24, <1>25, <1>26, <1>27, <1>28, <1>29, <1>30 DEF Next, Build, Reclaim, Boot

-----------------------------------------------------------------------------
(* Which blobs are there. *)

LEMMA BlobsKept ==
  ASSUME Typing, LocksOK, BlobsOK, NEW T, Names \subseteq T, Complete(T), [Next]_vars
  PROVE  BlobsOK' /\ Complete(T)'
<1> USE DEF BlobsOK, BlobsOf, Complete, Holds, UsingBase
<1>1. ASSUME NEW b \in Builders, Keys(b)
      PROVE  BlobsOK' /\ Complete(T)'
  BY <1>1, KeysMoves, ProcsAssumption DEF Keys, Goes, Others, Same, Procs, storeVars
<1>2. ASSUME NEW b \in Builders, LockShared(b)
      PROVE  BlobsOK' /\ Complete(T)'
  BY <1>2, LockSharedMoves, ProcsAssumption DEF LockShared, Goes, Others, Same, Procs, storeVars
<1>3. ASSUME NEW b \in Builders, Pull(b)
      PROVE  BlobsOK' /\ Complete(T)'
  <2>1. blobs \subseteq blobs' /\ Goes(b, pc'[b]) /\ pc'[b] \in {"looking", "tagging"} /\ tags' = tags
    BY <1>3, PullMoves DEF Pull, Goes
  <2>2. Parts(job'[b].base) \subseteq blobs'
    BY <1>3, PullMoves DEF Pull
  <2> QED BY <2>1, <2>2 DEF Goes, Others, Procs
<1>4. ASSUME NEW b \in Builders, TagPulled(b)
      PROVE  BlobsOK' /\ Complete(T)'
  <2>1. Goes(b, "looking") /\ Same(b) /\ Parts(job[b].base) \subseteq blobs /\ blobs' = blobs
    BY <1>4, TagPulledMoves DEF TagPulled
  <2>2. tags' = Put(tags, Plan(b).base, job[b].base)
    BY <1>4 DEF TagPulled
  <2> QED BY <2>1, <2>2 DEF Goes, Others, Same, Procs, Put
<1>5. ASSUME NEW b \in Builders, Look(b)
      PROVE  BlobsOK' /\ Complete(T)'
  <2>1. Goes(b, pc'[b]) /\ pc[b] = "looking" /\ pc'[b] \in {"retagging", "restoring", "unpacking"}
    BY <1>5, LookMoves DEF Goes
  <2>2. job'[b].base = job[b].base /\ blobs' = blobs /\ tags' = tags
    BY <1>5, LookMoves DEF Look, storeVars
  <2>3. pc'[b] = "retagging" => Parts(job'[b].rootfs) \subseteq blobs
    BY <1>5, LookMoves DEF Goes, UseRecord
  <2> QED BY <2>1, <2>2, <2>3 DEF Goes, Others, Procs
<1>6. ASSUME NEW b \in Builders, Restore(b)
      PROVE  BlobsOK' /\ Complete(T)'
  BY <1>6, RestoreMoves, ProcsAssumption DEF Restore, Goes, Others, Same, Procs, storeVars
<1>7. ASSUME NEW b \in Builders, Unpack(b)
      PROVE  BlobsOK' /\ Complete(T)'
  BY <1>7, UnpackMoves, ProcsAssumption DEF Unpack, Goes, Others, Same, Procs, storeVars
<1>8. ASSUME NEW b \in Builders, Step(b)
      PROVE  BlobsOK' /\ Complete(T)'
  <2>1. pc[b] = "stepping" /\ Goes(b, "ingesting") /\ job'[b].base = job[b].base
    BY <1>8, StepMoves
  <2>2. blobs' = blobs /\ tags' = tags
    BY <1>8 DEF Step, StepKept
  <2> QED BY <2>1, <2>2 DEF Goes, Others, Procs
<1>9. ASSUME NEW b \in Builders, Ingest(b)
      PROVE  BlobsOK' /\ Complete(T)'
  BY <1>9, IngestMoves, ProcsAssumption DEF Ingest, Goes, Others, Same, Procs, storeVars
<1>10. ASSUME NEW b \in Builders, Tag(b)
      PROVE  BlobsOK' /\ Complete(T)'
  <2>1. Goes(b, pc'[b]) /\ pc'[b] \in {"saving", "releasing"} /\ Same(b) /\ blobs' = blobs
    BY <1>10, TagMoves DEF Tag, Goes
  <2>2. tags' = Put(tags, Plan(b).tag, job[b].rootfs) /\ Parts(job[b].rootfs) \subseteq blobs
    BY <1>10 DEF Tag
  <2> QED BY <2>1, <2>2 DEF Goes, Others, Same, Procs, Put
<1>11. ASSUME NEW b \in Builders, SaveImage(b)
      PROVE  BlobsOK' /\ Complete(T)'
  BY <1>11, SaveImageMoves, ProcsAssumption DEF SaveImage, Goes, Others, Same, Procs, storeVars
<1>12. ASSUME NEW b \in Builders, Unlock(b)
      PROVE  BlobsOK' /\ Complete(T)'
  BY <1>12, UnlockMoves, ProcsAssumption DEF Unlock, Goes, Others, Same, Procs, storeVars
<1>13. ASSUME NEW b \in Builders, Evict(b)
      PROVE  BlobsOK' /\ Complete(T)'
  BY <1>13, EvictMoves, ProcsAssumption DEF Evict, Goes, Others, Same, Procs, storeVars
<1>14. ASSUME NEW b \in Builders, BuildFails(b)
      PROVE  BlobsOK' /\ Complete(T)'
  BY <1>14, BuildFailsMoves, ProcsAssumption DEF BuildFails, Goes, Others, Same, Procs, storeVars
<1>15. ASSUME NEW c \in Cleaners, StartClean(c)
      PROVE  BlobsOK' /\ Complete(T)'
  BY <1>15, StartCleanMoves, ProcsAssumption DEF StartClean, Goes, Others, Same, Procs, storeVars
<1>16. ASSUME NEW c \in Cleaners, Forget(c)
      PROVE  BlobsOK' /\ Complete(T)'
  BY <1>16, ForgetMoves, ProcsAssumption DEF Forget, Goes, Others, Same, Procs, storeVars
<1>17. ASSUME NEW p \in Builders \cup Cleaners, List(p)
      PROVE  BlobsOK' /\ Complete(T)'
  BY <1>17, ListMoves, ProcsAssumption DEF List, Goes, Others, Same, Procs, storeVars
<1>18. ASSUME NEW p \in Builders \cup Cleaners, EvictUnpacked(p)
      PROVE  BlobsOK' /\ Complete(T)'
  BY <1>18, EvictUnpackedMoves, ProcsAssumption DEF EvictUnpacked, Goes, Others, Same, Procs, storeVars
<1>19. ASSUME NEW p \in Builders \cup Cleaners, LockExclusive(p)
      PROVE  BlobsOK' /\ Complete(T)'
  BY <1>19, LockExclusiveMoves, ProcsAssumption DEF LockExclusive, Goes, Others, Same, Procs, storeVars, AfterReclaim
<1>20. ASSUME NEW p \in Builders \cup Cleaners, Delete(p)
      PROVE  BlobsOK' /\ Complete(T)'
  <2>1. reclaiming = p /\ building = {} /\ p \in Procs
    BY <1>20, DeleteMoves, ProcsAssumption DEF LocksOK, LockOf, Procs
  <2>2. \A b \in Builders : pc[b] \notin Sharing
    BY <2>1 DEF LocksOK, LockOf, Procs
  <2>3. Goes(p, AfterReclaim(p)) /\ blobs' = blobs \cap Referenced /\ tags' = tags
    BY <1>20, DeleteMoves DEF Delete
  <2>4. \A b \in Builders : pc'[b] \notin Sharing
    BY <2>2, <2>3 DEF Goes, Others, AfterReclaim, Procs, Sharing
  <2>5. \A t \in DOMAIN tags : Parts(tags[t]) \subseteq Referenced
    BY DEF Referenced
  <2> QED BY <2>3, <2>4, <2>5 DEF Sharing
<1>21. ASSUME NEW p \in Builders \cup Cleaners, Crash(p)
      PROVE  BlobsOK' /\ Complete(T)'
  <2>1. Goes(p, "failed") /\ tags' = tags /\ p \in Procs
    BY <1>21, CrashMoves DEF Crash, Procs
  <2>2. CASE pc[p] = "deleting"
    <3>1. building = {} /\ \E S \in SUBSET (blobs \ Referenced) : blobs' = blobs \ S
      BY <1>21, <2>2, <2>1, ProcsAssumption DEF LocksOK, LockOf, Procs, Crash
    <3>2. \A b \in Builders : pc'[b] \notin Sharing
      BY <2>1, <3>1 DEF LocksOK, LockOf, Goes, Others, Procs, Sharing
    <3>3. \A t \in DOMAIN tags : Parts(tags[t]) \subseteq Referenced
      BY DEF Referenced
    <3> QED BY <2>1, <3>1, <3>2, <3>3 DEF Sharing
  <2>3. CASE pc[p] # "deleting"
    <3>1. blobs' = blobs
      BY <1>21, <2>3 DEF Crash
    <3> QED BY <2>1, <3>1 DEF Goes, Others, Procs
  <2> QED BY <2>2, <2>3
<1>22. ASSUME NEW s \in Booters, Get(s)
      PROVE  BlobsOK' /\ Complete(T)'
  BY <1>22, GetMoves, ProcsAssumption DEF Get, Goes, Others, Same, Procs, storeVars
<1>23. ASSUME NEW s \in Booters, ReadConfig(s)
      PROVE  BlobsOK' /\ Complete(T)'
  BY <1>23, ReadConfigMoves, ProcsAssumption DEF ReadConfig, Goes, Others, Same, Procs, storeVars
<1>24. ASSUME NEW s \in Booters, Extract(s)
      PROVE  BlobsOK' /\ Complete(T)'
  BY <1>24, ExtractMoves, ProcsAssumption DEF Extract, Goes, Others, Same, Procs, storeVars
<1>25. ASSUME NEW s \in Booters, Clone(s)
      PROVE  BlobsOK' /\ Complete(T)'
  BY <1>25, CloneMoves, ProcsAssumption DEF Clone, Goes, Others, Same, Procs, storeVars
<1>26. ASSUME NEW s \in Booters, BootFails(s)
      PROVE  BlobsOK' /\ Complete(T)'
  BY <1>26, BootFailsMoves, ProcsAssumption DEF BootFails, Goes, Others, Same, Procs, storeVars
<1>27. CASE UNCHANGED vars
  BY <1>27 DEF vars, storeVars
<1>28. ASSUME NEW b \in Builders, Truncate(b)
      PROVE  BlobsOK' /\ Complete(T)'
  BY <1>28, TruncateMoves, ProcsAssumption DEF Truncate, Goes, Others, Same, Procs, storeVars
<1>29. ASSUME NEW b \in Builders, Fill(b)
      PROVE  BlobsOK' /\ Complete(T)'
  BY <1>29, FillMoves, ProcsAssumption DEF Fill, Goes, Others, Same, Procs, storeVars
<1>30. ASSUME NEW b \in Builders, CopyScript(b)
      PROVE  BlobsOK' /\ Complete(T)'
  BY <1>30, CopyScriptMoves, ProcsAssumption DEF CopyScript, Goes, Others, Same, Procs, storeVars
<1> QED BY <1>1, <1>2, <1>3, <1>4, <1>5, <1>6, <1>7, <1>8, <1>9, <1>10, <1>11, <1>12, <1>13, <1>14, <1>15, <1>16, <1>17, <1>18, <1>19, <1>20, <1>21, <1>22, <1>23, <1>24, <1>25, <1>26, <1>27, <1>28, <1>29, <1>30 DEF Next, Build, Reclaim, Boot

-----------------------------------------------------------------------------
(* What is kept under a name. *)

\* A finished image is its base and one step.
LEMMA WholeImage ==
  ASSUME NEW rootfs \in Rootfs, NEW base \in Rootfs, base # <<>>, NEW plan, NEW keyed, NEW X,
         Follows(rootfs, base, plan, 1, keyed \cap Releases, X)
  PROVE  MadeBy(rootfs, plan, X) /\ rootfs # <<>>
<1>1. Len(rootfs) = Len(base) + 1 /\ SubSeq(rootfs, 1, Len(base)) = base
  BY DEF Follows
<1>2. Len(base) \in Nat /\ Len(base) > 0
  BY DEF Rootfs
<1>3. Len(rootfs) - 1 = Len(base) /\ Len(rootfs) > 1
  BY <1>1, <1>2
<1>4. Follows(rootfs, base, plan, 1, Releases, X)
  BY FollowsWider
<1>5. rootfs # <<>>
  BY <1>3
<1> QED BY <1>1, <1>3, <1>4, <1>5 DEF MadeBy

\* A step that leaves the context alone only matters to who takes it.
LEMMA KeyedStays ==
  ASSUME AllKeyed, NEW p \in Procs, NEW label, Goes(p, label), UNCHANGED contextVars,
         p \in Builders => KeyedOK(p)'
  PROVE  AllKeyed'
<1>1. ASSUME NEW c \in Builders, c # p
      PROVE  KeyedOK(c)'
  BY <1>1 DEF AllKeyed, KeyedOK, Goes, Others, Procs, contextVars
<1> QED BY <1>1 DEF AllKeyed

LEMMA KeyedKept ==
  ASSUME Typing, LocksOK, AllKeyed, [Next]_vars
  PROVE  AllKeyed'
<1>0. /\ \A c \in Builders : KeyedOK(c) /\ LocalsOK(c) /\ job[c].plan \in {1, 2}
      /\ \A c \in Builders : job[c].keyed \in Seq(0..2) /\ job[c].seen \in Seq(0..2) /\ job[c].wrote \in Nat
      /\ Builders \subseteq Procs /\ context \in [Scripts -> 0..2]
  BY DEF AllKeyed, Typing, PlacesTyped, LocksTyped, Locals, Procs
<1> USE DEF Sharing, Filled
<1>1. ASSUME NEW b \in Builders, Keys(b)
      PROVE  AllKeyed'
  <2>1. UNCHANGED contextVars
    BY <1>1 DEF Keys
  <2>2. KeyedOK(b)'
    <3>1. /\ pc[b] = "keying" /\ pc'[b] \in {"keying", "locking"} /\ job'[b].plan = job[b].plan
          /\ job'[b] \in Locals
      BY <1>0, <1>1, KeysMoves DEF Goes
    <3>2. ASSUME job[b].plan = 1, b \notin disturbed
          PROVE  /\ \A i \in DOMAIN job'[b].keyed : job'[b].keyed[i] = Version(b)
                 /\ pc'[b] = "locking" => job'[b].keyed = Whole(Version(b))
      <4> DEFINE last == Len(job[b].keyed) + 1
      <4>1. /\ last \in Scripts /\ context = Whole(Version(b))
            /\ job'[b].keyed = Append(job[b].keyed, context[last])
            /\ pc'[b] = "locking" => Len(job'[b].keyed) = ScriptCount
        BY <1>0, <1>1, <3>1, <3>2, KeysMoves DEF KeyedOK
      <4>2. context[last] = Version(b)
        BY <4>1 DEF Whole
      <4>3. \A i \in DOMAIN job[b].keyed : job[b].keyed[i] = Version(b)
        BY <1>0, <3>1, <3>2 DEF KeyedOK
      <4>4. job[b].keyed \in Seq(0..2) /\ Version(b) \in 0..2
        BY <1>0, VersionIs
      <4>5. ASSUME NEW i \in DOMAIN job'[b].keyed
            PROVE  job'[b].keyed[i] = Version(b)
        <5>1. i \in 1..(Len(job[b].keyed) + 1)
          BY <4>1, <4>2, <4>4, <4>5
        <5>2. CASE i = Len(job[b].keyed) + 1
          BY <4>1, <4>2, <4>4, <5>2
        <5>3. CASE i \in 1..Len(job[b].keyed)
          BY <4>1, <4>2, <4>3, <4>4, <5>3
        <5> QED BY <4>4, <5>1, <5>2, <5>3
      <4>6. job'[b].keyed \in Seq(0..2)
        BY <3>1 DEF Locals
      <4> QED BY <4>1, <4>5, <4>6, WholeIs
    <3>3. disturbed' = disturbed /\ context' = context
      BY <2>1 DEF contextVars
    <3> QED BY <1>0, <3>1, <3>2, <3>3 DEF KeyedOK
  <2> QED BY <1>0, <1>1, <2>1, <2>2, KeysMoves, KeyedStays
<1>2. ASSUME NEW b \in Builders, LockShared(b)
      PROVE  AllKeyed'
  <2>1. UNCHANGED contextVars
    BY <1>2 DEF LockShared
  <2>2. b \in Procs /\ Goes(b, pc'[b])
    BY <1>2, LockSharedMoves DEF Goes, Procs
  <2>3. b \in Builders => KeyedOK(b)'
    BY <1>0, <1>2, <2>1, <2>2, LockSharedMoves DEF Goes, Same, KeyedOK, LocalsOK, contextVars
  <2> QED BY <2>1, <2>2, <2>3, KeyedStays
<1>3. ASSUME NEW b \in Builders, Pull(b)
      PROVE  AllKeyed'
  <2>1. UNCHANGED contextVars
    BY <1>3 DEF Pull
  <2>2. b \in Procs /\ Goes(b, pc'[b])
    BY <1>3, PullMoves DEF Goes, Procs
  <2>3. b \in Builders => KeyedOK(b)'
    BY <1>0, <1>3, <2>1, <2>2, PullMoves DEF Goes, Same, KeyedOK, LocalsOK, contextVars
  <2> QED BY <2>1, <2>2, <2>3, KeyedStays
<1>4. ASSUME NEW b \in Builders, TagPulled(b)
      PROVE  AllKeyed'
  <2>1. UNCHANGED contextVars
    BY <1>4 DEF TagPulled
  <2>2. b \in Procs /\ Goes(b, pc'[b])
    BY <1>4, TagPulledMoves DEF Goes, Procs
  <2>3. b \in Builders => KeyedOK(b)'
    BY <1>0, <1>4, <2>1, <2>2, TagPulledMoves DEF Goes, Same, KeyedOK, LocalsOK, contextVars
  <2> QED BY <2>1, <2>2, <2>3, KeyedStays
<1>5. ASSUME NEW b \in Builders, Look(b)
      PROVE  AllKeyed'
  <2>1. UNCHANGED contextVars
    BY <1>5 DEF Look
  <2>2. b \in Procs /\ Goes(b, pc'[b])
    BY <1>5, LookMoves DEF Goes, Procs
  <2>3. b \in Builders => KeyedOK(b)'
    BY <1>0, <1>5, <2>1, <2>2, LookMoves DEF Goes, Same, KeyedOK, LocalsOK, contextVars
  <2> QED BY <2>1, <2>2, <2>3, KeyedStays
<1>6. ASSUME NEW b \in Builders, Restore(b)
      PROVE  AllKeyed'
  <2>1. UNCHANGED contextVars
    BY <1>6 DEF Restore
  <2>2. b \in Procs /\ Goes(b, pc'[b])
    BY <1>6, RestoreMoves DEF Goes, Procs
  <2>3. b \in Builders => KeyedOK(b)'
    BY <1>0, <1>6, <2>1, <2>2, RestoreMoves DEF Goes, Same, KeyedOK, LocalsOK, contextVars
  <2> QED BY <2>1, <2>2, <2>3, KeyedStays
<1>7. ASSUME NEW b \in Builders, Unpack(b)
      PROVE  AllKeyed'
  <2>1. UNCHANGED contextVars
    BY <1>7 DEF Unpack
  <2>2. b \in Procs /\ Goes(b, pc'[b])
    BY <1>7, UnpackMoves DEF Goes, Procs
  <2>3. b \in Builders => KeyedOK(b)'
    BY <1>0, <1>7, <2>1, <2>2, UnpackMoves DEF Goes, Same, KeyedOK, LocalsOK, contextVars
  <2> QED BY <2>1, <2>2, <2>3, KeyedStays
<1>8. ASSUME NEW b \in Builders, Step(b)
      PROVE  AllKeyed'
  <2>1. UNCHANGED contextVars
    BY <1>8 DEF Step, StepKept
  <2>2. b \in Procs /\ Goes(b, pc'[b])
    BY <1>8, StepMoves DEF Goes, Procs
  <2>3. b \in Builders => KeyedOK(b)'
    BY <1>0, <1>8, <2>1, <2>2, StepMoves DEF Goes, Same, KeyedOK, LocalsOK, contextVars
  <2> QED BY <2>1, <2>2, <2>3, KeyedStays
<1>9. ASSUME NEW b \in Builders, Ingest(b)
      PROVE  AllKeyed'
  <2>1. UNCHANGED contextVars
    BY <1>9 DEF Ingest
  <2>2. b \in Procs /\ Goes(b, pc'[b])
    BY <1>9, IngestMoves DEF Goes, Procs
  <2>3. b \in Builders => KeyedOK(b)'
    BY <1>0, <1>9, <2>1, <2>2, IngestMoves DEF Goes, Same, KeyedOK, LocalsOK, contextVars
  <2> QED BY <2>1, <2>2, <2>3, KeyedStays
<1>10. ASSUME NEW b \in Builders, Tag(b)
      PROVE  AllKeyed'
  <2>1. UNCHANGED contextVars
    BY <1>10 DEF Tag
  <2>2. b \in Procs /\ Goes(b, pc'[b])
    BY <1>10, TagMoves DEF Goes, Procs
  <2>3. b \in Builders => KeyedOK(b)'
    BY <1>0, <1>10, <2>1, <2>2, TagMoves DEF Goes, Same, KeyedOK, LocalsOK, contextVars
  <2> QED BY <2>1, <2>2, <2>3, KeyedStays
<1>11. ASSUME NEW b \in Builders, SaveImage(b)
      PROVE  AllKeyed'
  <2>1. UNCHANGED contextVars
    BY <1>11 DEF SaveImage
  <2>2. b \in Procs /\ Goes(b, pc'[b])
    BY <1>11, SaveImageMoves DEF Goes, Procs
  <2>3. b \in Builders => KeyedOK(b)'
    BY <1>0, <1>11, <2>1, <2>2, SaveImageMoves DEF Goes, Same, KeyedOK, LocalsOK, contextVars
  <2> QED BY <2>1, <2>2, <2>3, KeyedStays
<1>12. ASSUME NEW b \in Builders, Unlock(b)
      PROVE  AllKeyed'
  <2>1. UNCHANGED contextVars
    BY <1>12 DEF Unlock
  <2>2. b \in Procs /\ Goes(b, pc'[b])
    BY <1>12, UnlockMoves DEF Goes, Procs
  <2>3. b \in Builders => KeyedOK(b)'
    BY <1>0, <1>12, <2>1, <2>2, UnlockMoves DEF Goes, Same, KeyedOK, LocalsOK, contextVars
  <2> QED BY <2>1, <2>2, <2>3, KeyedStays
<1>13. ASSUME NEW b \in Builders, Evict(b)
      PROVE  AllKeyed'
  <2>1. UNCHANGED contextVars
    BY <1>13 DEF Evict
  <2>2. b \in Procs /\ Goes(b, pc'[b])
    BY <1>13, EvictMoves DEF Goes, Procs
  <2>3. b \in Builders => KeyedOK(b)'
    BY <1>0, <1>13, <2>1, <2>2, EvictMoves DEF Goes, Same, KeyedOK, LocalsOK, contextVars
  <2> QED BY <2>1, <2>2, <2>3, KeyedStays
<1>14. ASSUME NEW b \in Builders, BuildFails(b)
      PROVE  AllKeyed'
  <2>1. UNCHANGED contextVars
    BY <1>14 DEF BuildFails
  <2>2. b \in Procs /\ Goes(b, pc'[b])
    BY <1>14, BuildFailsMoves DEF Goes, Procs
  <2>3. b \in Builders => KeyedOK(b)'
    BY <1>0, <1>14, <2>1, <2>2, BuildFailsMoves DEF Goes, Same, KeyedOK, LocalsOK, contextVars
  <2> QED BY <2>1, <2>2, <2>3, KeyedStays
<1>15. ASSUME NEW c \in Cleaners, StartClean(c)
      PROVE  AllKeyed'
  <2>1. UNCHANGED contextVars
    BY <1>15 DEF StartClean
  <2>2. c \in Procs /\ c \notin Builders /\ Goes(c, pc'[c])
    BY <1>15, StartCleanMoves, ProcsAssumption DEF Goes, Procs
  <2> QED BY <2>1, <2>2, KeyedStays
<1>16. ASSUME NEW c \in Cleaners, Forget(c)
      PROVE  AllKeyed'
  <2>1. UNCHANGED contextVars
    BY <1>16 DEF Forget
  <2>2. c \in Procs /\ c \notin Builders /\ Goes(c, pc'[c])
    BY <1>16, ForgetMoves, ProcsAssumption DEF Goes, Procs
  <2> QED BY <2>1, <2>2, KeyedStays
<1>17. ASSUME NEW p \in Builders \cup Cleaners, List(p)
      PROVE  AllKeyed'
  <2>1. UNCHANGED contextVars
    BY <1>17 DEF List
  <2>2. p \in Procs /\ Goes(p, pc'[p])
    BY <1>17, ListMoves DEF Goes, Procs
  <2>3. p \in Builders => KeyedOK(p)'
    BY <1>0, <1>17, <2>1, <2>2, ListMoves DEF Goes, Same, KeyedOK, LocalsOK, contextVars
  <2> QED BY <2>1, <2>2, <2>3, KeyedStays
<1>18. ASSUME NEW p \in Builders \cup Cleaners, EvictUnpacked(p)
      PROVE  AllKeyed'
  <2>1. UNCHANGED contextVars
    BY <1>18 DEF EvictUnpacked
  <2>2. p \in Procs /\ Goes(p, pc'[p])
    BY <1>18, EvictUnpackedMoves DEF Goes, Procs
  <2>3. p \in Builders => KeyedOK(p)'
    BY <1>0, <1>18, <2>1, <2>2, EvictUnpackedMoves DEF Goes, Same, KeyedOK, LocalsOK, contextVars
  <2> QED BY <2>1, <2>2, <2>3, KeyedStays
<1>19. ASSUME NEW p \in Builders \cup Cleaners, LockExclusive(p)
      PROVE  AllKeyed'
  <2>1. UNCHANGED contextVars
    BY <1>19 DEF LockExclusive
  <2>2. p \in Procs /\ Goes(p, pc'[p])
    BY <1>19, LockExclusiveMoves DEF Goes, Procs
  <2>3. p \in Builders => KeyedOK(p)'
    BY <1>0, <1>19, <2>1, <2>2, LockExclusiveMoves DEF Goes, Same, KeyedOK, LocalsOK, contextVars, AfterReclaim
  <2> QED BY <2>1, <2>2, <2>3, KeyedStays
<1>20. ASSUME NEW p \in Builders \cup Cleaners, Delete(p)
      PROVE  AllKeyed'
  <2>1. UNCHANGED contextVars
    BY <1>20 DEF Delete
  <2>2. p \in Procs /\ Goes(p, pc'[p])
    BY <1>20, DeleteMoves DEF Goes, Procs
  <2>3. p \in Builders => KeyedOK(p)'
    BY <1>0, <1>20, <2>1, <2>2, DeleteMoves DEF Goes, Same, KeyedOK, LocalsOK, contextVars, AfterReclaim
  <2> QED BY <2>1, <2>2, <2>3, KeyedStays
<1>21. ASSUME NEW p \in Builders \cup Cleaners, Crash(p)
      PROVE  AllKeyed'
  <2>1. UNCHANGED contextVars
    BY <1>21 DEF Crash
  <2>2. p \in Procs /\ Goes(p, pc'[p])
    BY <1>21, CrashMoves DEF Goes, Procs
  <2>3. p \in Builders => KeyedOK(p)'
    BY <1>0, <1>21, <2>1, <2>2, CrashMoves DEF Goes, Same, KeyedOK, LocalsOK, contextVars
  <2> QED BY <2>1, <2>2, <2>3, KeyedStays
<1>22. ASSUME NEW s \in Booters, Get(s)
      PROVE  AllKeyed'
  <2>1. UNCHANGED contextVars
    BY <1>22 DEF Get
  <2>2. s \in Procs /\ s \notin Builders /\ Goes(s, pc'[s])
    BY <1>22, GetMoves, ProcsAssumption DEF Goes, Procs
  <2> QED BY <2>1, <2>2, KeyedStays
<1>23. ASSUME NEW s \in Booters, ReadConfig(s)
      PROVE  AllKeyed'
  <2>1. UNCHANGED contextVars
    BY <1>23 DEF ReadConfig
  <2>2. s \in Procs /\ s \notin Builders /\ Goes(s, pc'[s])
    BY <1>23, ReadConfigMoves, ProcsAssumption DEF Goes, Procs
  <2> QED BY <2>1, <2>2, KeyedStays
<1>24. ASSUME NEW s \in Booters, Extract(s)
      PROVE  AllKeyed'
  <2>1. UNCHANGED contextVars
    BY <1>24 DEF Extract
  <2>2. s \in Procs /\ s \notin Builders /\ Goes(s, pc'[s])
    BY <1>24, ExtractMoves, ProcsAssumption DEF Goes, Procs
  <2> QED BY <2>1, <2>2, KeyedStays
<1>25. ASSUME NEW s \in Booters, Clone(s)
      PROVE  AllKeyed'
  <2>1. UNCHANGED contextVars
    BY <1>25 DEF Clone
  <2>2. s \in Procs /\ s \notin Builders /\ Goes(s, pc'[s])
    BY <1>25, CloneMoves, ProcsAssumption DEF Goes, Procs
  <2> QED BY <2>1, <2>2, KeyedStays
<1>26. ASSUME NEW s \in Booters, BootFails(s)
      PROVE  AllKeyed'
  <2>1. UNCHANGED contextVars
    BY <1>26 DEF BootFails
  <2>2. s \in Procs /\ s \notin Builders /\ Goes(s, pc'[s])
    BY <1>26, BootFailsMoves, ProcsAssumption DEF Goes, Procs
  <2> QED BY <2>1, <2>2, KeyedStays
<1>27. CASE UNCHANGED vars
  BY <1>27 DEF vars, contextVars, AllKeyed, KeyedOK
<1>28. ASSUME NEW b \in Builders, Truncate(b)
      PROVE  AllKeyed'
  <2>1. /\ Goes(b, "filling") /\ Same(b) /\ pc[b] \in {"idle", "truncating"}
        /\ Writes(b, job[b].wrote + 1, 0)
    BY <1>28, TruncateMoves
  <2>2. /\ disturbed \subseteq disturbed'
        /\ \A s \in Scripts : context'[s] = IF s = job[b].wrote + 1 THEN 0 ELSE context[s]
        /\ \A c \in Builders : c # b /\ c \notin disturbed' /\ job[c].plan = 1 =>
             pc[c] \notin {"truncating", "filling"} \cup Filled
    BY <2>1, WritesMoves
  <2>3. KeyedOK(b)'
    BY <1>0, <2>1, <2>2, ScriptsAre DEF Goes, Same, KeyedOK
  <2>4. ASSUME NEW c \in Builders, c # b
        PROVE  KeyedOK(c)'
    BY <1>0, <2>1, <2>2, <2>4 DEF Goes, Others, KeyedOK
  <2> QED BY <2>3, <2>4 DEF AllKeyed
<1>29. ASSUME NEW b \in Builders, Fill(b)
      PROVE  AllKeyed'
  <2>1. /\ pc[b] = "filling" /\ Writes(b, job[b].wrote + 1, Version(b))
        /\ job'[b].wrote = job[b].wrote + 1
        /\ Goes(b, IF job[b].wrote + 1 = ScriptCount THEN "keying" ELSE "truncating")
        /\ job'[b].keyed = job[b].keyed /\ job'[b].seen = job[b].seen /\ job'[b].plan = job[b].plan
    BY <1>29, FillMoves
  <2>2. /\ context' \in [Scripts -> 0..2] /\ disturbed \subseteq disturbed'
        /\ \A s \in Scripts : context'[s] = IF s = job[b].wrote + 1 THEN Version(b) ELSE context[s]
        /\ \A c \in Builders : c # b /\ c \notin disturbed' /\ job[c].plan = 1 =>
             pc[c] \notin {"truncating", "filling"} \cup Filled
    BY <2>1, WritesMoves, VersionIs
  <2>3. KeyedOK(b)'
    <3>1. pc'[b] \in {"keying", "truncating"} /\ (pc'[b] = "keying" => job[b].wrote + 1 = ScriptCount)
      BY <2>1 DEF Goes
    <3>2. job[b].keyed = <<>>
      BY <1>0, <2>1 DEF LocalsOK
    <3>3. ASSUME job[b].plan = 1, b \notin disturbed'
          PROVE  \A s \in Scripts : s <= job[b].wrote + 1 => context'[s] = Version(b)
      BY <1>0, <2>1, <2>2, <3>3, ScriptsAre DEF KeyedOK
    <3>4. ASSUME job[b].plan = 1, b \notin disturbed', pc'[b] = "keying"
          PROVE  context' = Whole(Version(b))
      <4>1. \A s \in Scripts : context'[s] = Version(b)
        BY <3>1, <3>3, <3>4, ScriptsAre
      <4> QED BY <2>2, <4>1 DEF Whole
    <3> QED BY <2>1, <3>1, <3>2, <3>3, <3>4 DEF KeyedOK
  <2>4. ASSUME NEW c \in Builders, c # b
        PROVE  KeyedOK(c)'
    BY <1>0, <2>1, <2>2, <2>4 DEF Goes, Others, KeyedOK
  <2> QED BY <2>3, <2>4 DEF AllKeyed
<1>30. ASSUME NEW b \in Builders, CopyScript(b)
      PROVE  AllKeyed'
  <2> DEFINE last == Len(job[b].seen) + 1
  <2>1. /\ pc[b] = "stepping" /\ Goes(b, "stepping") /\ last \in Scripts
        /\ job'[b].seen = Append(job[b].seen, context[last])
        /\ job'[b].plan = job[b].plan /\ job'[b].keyed = job[b].keyed
    BY <1>30, CopyScriptMoves
  <2>2. UNCHANGED contextVars
    BY <1>30 DEF CopyScript
  <2>3. ASSUME job[b].plan = 1, b \notin disturbed, NEW i \in DOMAIN job'[b].seen
        PROVE  job'[b].seen[i] = Version(b)
    <3>1. context[last] = Version(b) /\ \A j \in DOMAIN job[b].seen : job[b].seen[j] = Version(b)
      BY <1>0, <2>1, <2>3 DEF KeyedOK, Whole
    <3>2. job[b].seen \in Seq(0..2) /\ Version(b) \in 0..2
      BY <1>0, VersionIs
    <3>3. i \in 1..(Len(job[b].seen) + 1)
      BY <2>1, <2>3, <3>1, <3>2
    <3>4. CASE i = Len(job[b].seen) + 1
      BY <2>1, <3>1, <3>2, <3>4
    <3>5. CASE i \in 1..Len(job[b].seen)
      BY <2>1, <3>1, <3>2, <3>5
    <3> QED BY <3>2, <3>3, <3>4, <3>5
  <2> HIDE DEF last
  <2>4. KeyedOK(b)'
    BY <1>0, <2>1, <2>2, <2>3 DEF Goes, KeyedOK, contextVars
  <2> QED BY <1>0, <2>1, <2>2, <2>4, KeyedStays
<1> QED BY <1>1, <1>2, <1>3, <1>4, <1>5, <1>6, <1>7, <1>8, <1>9, <1>10, <1>11, <1>12, <1>13, <1>14, <1>15, <1>16, <1>17, <1>18, <1>19, <1>20, <1>21, <1>22, <1>23, <1>24, <1>25, <1>26, <1>27, <1>28, <1>29, <1>30 DEF Next, Build, Reclaim, Boot

\* The step that runs is the one that is keyed, unless another build wrote the
\* scripts meanwhile.
LEMMA StepFollows ==
  ASSUME Typing, AllKeyed, NEW X, disturbed = X, HonestBut(X), NEW b \in Builders, Step(b)
  PROVE  Follows(Append(job[b].rootfs, <<job[b].plan, 1, job[b].seen, b>>), job[b].base, job[b].plan, 1,
                 {job[b].keyed} \cap Releases, X)
<1>1. /\ b \in Procs /\ job[b].plan \in {1, 2} /\ job[b].base \in Rootfs /\ job[b].rootfs \in Rootfs
      /\ job[b].seen \in Seq(0..2) /\ pc[b] = "stepping"
  BY StepMoves DEF Procs, Typing, PlacesTyped, Locals
<1>2. ASSUME job[b].plan = 1, b \notin X
      PROVE  job[b].seen \in {job[b].keyed} \cap Releases
  <2>1. /\ job[b].keyed = Whole(Version(b))
        /\ \A i \in DOMAIN job[b].seen : job[b].seen[i] = Version(b)
    BY <1>1, <1>2 DEF AllKeyed, KeyedOK, Sharing
  <2>2. Len(job[b].seen) = ScriptCount
    BY <1>2, StepMoves
  <2>3. job[b].seen = Whole(Version(b))
    BY <1>1, <2>1, <2>2, WholeIs
  <2> QED BY <2>1, <2>3, VersionIs
<1>3. Follows(job[b].rootfs, job[b].base, job[b].plan, 0, {job[b].keyed} \cap Releases, X)
  BY <1>1 DEF HonestBut, JobOK
<1>4. job[b].rootfs = job[b].base
  BY <1>1, <1>3, FollowsBase
<1>5. Plans[job[b].plan].reads[1] => job[b].plan = 1
  BY <1>1, PlansAre
<1> QED BY <1>1, <1>2, <1>4, <1>5, FollowsStep

LEMMA JobsKept ==
  ASSUME Typing, AllKeyed, NEW X, disturbed = X, HonestBut(X), [Next]_vars
  PROVE  \A c \in Builders : JobOK(c, X)'
<1> USE DEF HonestBut, JobOK, Sharing, Finished
<1>1. ASSUME NEW b \in Builders, Keys(b)
      PROVE  \A c \in Builders : JobOK(c, X)'
  BY <1>1, KeysMoves, ProcsAssumption, ZenonT(30) DEF Goes, Others, Same, Procs
<1>2. ASSUME NEW b \in Builders, LockShared(b)
      PROVE  \A c \in Builders : JobOK(c, X)'
  BY <1>2, LockSharedMoves, ProcsAssumption, SMTT(30), ZenonT(30) DEF Goes, Others, Same, Procs
<1>3. ASSUME NEW b \in Builders, Pull(b)
      PROVE  \A c \in Builders : JobOK(c, X)'
  <2>1. Goes(b, pc'[b]) /\ pc'[b] \in {"looking", "tagging"} /\ job'[b].plan = job[b].plan
    BY <1>3, PullMoves DEF Goes
  <2>2. job'[b].base # <<>>
    BY <1>3, PullMoves, NullTyped DEF TagsHonest
  <2>3. pc'[b] = "tagging" => job'[b].plan = 1
    BY <1>3, PullMoves DEF Goes
  <2> QED BY <2>1, <2>2, <2>3 DEF Goes, Others, Procs
<1>4. ASSUME NEW b \in Builders, TagPulled(b)
      PROVE  \A c \in Builders : JobOK(c, X)'
  <2>1. pc[b] = "tagging" /\ Goes(b, "looking") /\ Same(b)
    BY <1>4, TagPulledMoves
  <2> QED BY <2>1 DEF Goes, Others, Procs, Same
<1>5. ASSUME NEW b \in Builders, Look(b)
      PROVE  \A c \in Builders : JobOK(c, X)'
  <2>1. /\ pc[b] = "looking" /\ Goes(b, pc'[b]) /\ pc'[b] \in {"retagging", "restoring", "unpacking"}
        /\ job'[b].plan = job[b].plan /\ job'[b].keyed = job[b].keyed /\ job'[b].seen = job[b].seen /\ job'[b].base = job[b].base
    BY <1>5, LookMoves DEF Goes
  <2>2. ASSUME pc'[b] = "retagging"
        PROVE  Follows(job'[b].rootfs, job'[b].base, job'[b].plan, 1, {job'[b].keyed} \cap Releases, X)
    <3> DEFINE k == ImageKey(b)
    <3>1. UseRecord(b) /\ job'[b].rootfs = records[k]
      BY <1>5, <2>2, LookMoves DEF Goes
    <3>2. Follows(records[k], k[1], k[2], k[3], {k[4]} \cap Releases, X)
      BY <3>1 DEF UseRecord, Recorded, RecordsHonest
    <3>3. b \in Procs /\ job \in [Procs -> Locals]
      BY DEF Procs, Typing, PlacesTyped
    <3>4. Follows(records[k], job[b].base, job[b].plan, 1, {job[b].keyed} \cap Releases, X)
      BY <3>2, <3>3, FollowsKey, ImageKeyIs
    <3> QED BY <2>1, <3>1, <3>4
  <2> QED BY <2>1, <2>2 DEF Goes, Others, Procs
<1>6. ASSUME NEW b \in Builders, Restore(b)
      PROVE  \A c \in Builders : JobOK(c, X)'
  <2> DEFINE k == StepKey(b, job[b].start)
  <2>1. /\ pc[b] = "restoring" /\ k \in Held /\ job[b].start \in {0, 1}
        /\ Goes(b, IF job[b].start = 1 THEN "ingesting" ELSE "stepping")
        /\ job'[b].rootfs = Found(k).rootfs
        /\ job'[b].plan = job[b].plan /\ job'[b].keyed = job[b].keyed /\ job'[b].seen = job[b].seen /\ job'[b].base = job[b].base
    BY <1>6, RestoreMoves
  <2>2. b \in Procs /\ job \in [Procs -> Locals]
    BY DEF Procs, Typing, PlacesTyped
  <2>3. Follows(Found(k).rootfs, k[1], k[2], k[3], {k[4]} \cap Releases, X)
    <3> HIDE DEF k
    <3>1. PICK i \in DOMAIN snapshots : Found(k) = snapshots[i]
      BY <2>1, TouchedKeeps DEF Typing, SnapshotsTyped
    <3>2. snapshots[i].key = k
      BY <2>1, <3>1, TouchedKeeps DEF Typing, SnapshotsTyped
    <3> QED BY <3>1, <3>2 DEF SnapshotsHonest
  <2>4. Follows(Found(k).rootfs, job[b].base, job[b].plan, job[b].start, {job[b].keyed} \cap Releases, X)
    BY <2>1, <2>2, <2>3, FollowsKey
  <2> HIDE DEF k
  <2>5. job[b].base # <<>>
    BY <2>1
  <2>6. JobOK(b, X)'
    BY <2>1, <2>2, <2>4, <2>5 DEF Goes
  <2>7. ASSUME NEW c \in Builders, c # b
        PROVE  JobOK(c, X)'
    BY <2>1, <2>7 DEF Goes, Others, Procs
  <2> QED BY <2>6, <2>7
<1>7. ASSUME NEW b \in Builders, Unpack(b)
      PROVE  \A c \in Builders : JobOK(c, X)'
  <2>1. /\ pc[b] = "unpacking" /\ Goes(b, "stepping") /\ job'[b].rootfs = job[b].base
        /\ job'[b].plan = job[b].plan /\ job'[b].keyed = job[b].keyed /\ job'[b].seen = job[b].seen /\ job'[b].base = job[b].base
    BY <1>7, UnpackMoves
  <2>2. job[b].base \in Rootfs
    BY DEF Procs, Typing, PlacesTyped, Locals
  <2>3. Follows(job[b].base, job[b].base, job[b].plan, 0, {job[b].keyed} \cap Releases, X)
    BY <2>2, FollowsNothing
  <2> QED BY <2>1, <2>3 DEF Goes, Others, Procs
<1>8. ASSUME NEW b \in Builders, Step(b)
      PROVE  \A c \in Builders : JobOK(c, X)'
  <2> DEFINE rootfs == Append(job[b].rootfs, <<job[b].plan, 1, job[b].seen, b>>)
  <2>1. /\ pc[b] = "stepping" /\ Goes(b, "ingesting") /\ job'[b].rootfs = rootfs
        /\ job'[b].plan = job[b].plan /\ job'[b].keyed = job[b].keyed /\ job'[b].base = job[b].base
    BY <1>8, StepMoves
  <2>2. Follows(rootfs, job[b].base, job[b].plan, 1, {job[b].keyed} \cap Releases, X)
    BY <1>8, StepFollows
  <2> HIDE DEF rootfs
  <2> QED BY <2>1, <2>2 DEF Goes, Others, Procs
<1>9. ASSUME NEW b \in Builders, Ingest(b)
      PROVE  \A c \in Builders : JobOK(c, X)'
  BY <1>9, IngestMoves, ProcsAssumption, ZenonT(30) DEF Goes, Others, Same, Procs
<1>10. ASSUME NEW b \in Builders, Tag(b)
      PROVE  \A c \in Builders : JobOK(c, X)'
  BY <1>10, TagMoves, ProcsAssumption DEF Goes, Others, Same, Procs
<1>11. ASSUME NEW b \in Builders, SaveImage(b)
      PROVE  \A c \in Builders : JobOK(c, X)'
  BY <1>11, SaveImageMoves, ProcsAssumption, ZenonT(30) DEF Goes, Others, Same, Procs
<1>12. ASSUME NEW b \in Builders, Unlock(b)
      PROVE  \A c \in Builders : JobOK(c, X)'
  BY <1>12, UnlockMoves, ProcsAssumption, ZenonT(30) DEF Goes, Others, Same, Procs
<1>13. ASSUME NEW b \in Builders, Evict(b)
      PROVE  \A c \in Builders : JobOK(c, X)'
  <2>1. b \in Procs /\ Goes(b, pc'[b]) /\ pc'[b] \in {"keying", "done"}
    BY <1>13, EvictMoves DEF Goes, Procs
  <2> QED BY <2>1 DEF Goes, Others, Procs
<1>14. ASSUME NEW b \in Builders, BuildFails(b)
      PROVE  \A c \in Builders : JobOK(c, X)'
  BY <1>14, BuildFailsMoves, ProcsAssumption, SMTT(30) DEF Goes, Others, Same, Procs
<1>15. ASSUME NEW c \in Cleaners, StartClean(c)
      PROVE  \A b \in Builders : JobOK(b, X)'
  BY <1>15, StartCleanMoves, ProcsAssumption, SMTT(30) DEF Goes, Others, Same, Procs
<1>16. ASSUME NEW c \in Cleaners, Forget(c)
      PROVE  \A b \in Builders : JobOK(b, X)'
  BY <1>16, ForgetMoves, ProcsAssumption, ZenonT(30) DEF Goes, Others, Same, Procs
<1>17. ASSUME NEW p \in Builders \cup Cleaners, List(p)
      PROVE  \A c \in Builders : JobOK(c, X)'
  BY <1>17, ListMoves, ProcsAssumption DEF Goes, Others, Same, Procs
<1>18. ASSUME NEW p \in Builders \cup Cleaners, EvictUnpacked(p)
      PROVE  \A c \in Builders : JobOK(c, X)'
  BY <1>18, EvictUnpackedMoves, ProcsAssumption, ZenonT(30) DEF Goes, Others, Same, Procs
<1>19. ASSUME NEW p \in Builders \cup Cleaners, LockExclusive(p)
      PROVE  \A c \in Builders : JobOK(c, X)'
  <2>1. p \in Procs /\ Goes(p, pc'[p]) /\ pc'[p] \in {"deleting", "evicting", "forgetting"}
    BY <1>19, LockExclusiveMoves DEF Goes, AfterReclaim, Procs
  <2> QED BY <2>1 DEF Goes, Others, Procs
<1>20. ASSUME NEW p \in Builders \cup Cleaners, Delete(p)
      PROVE  \A c \in Builders : JobOK(c, X)'
  <2>1. p \in Procs /\ Goes(p, pc'[p]) /\ pc'[p] \in {"evicting", "forgetting"}
    BY <1>20, DeleteMoves DEF Goes, AfterReclaim, Procs
  <2> QED BY <2>1 DEF Goes, Others, Procs
<1>21. ASSUME NEW p \in Builders \cup Cleaners, Crash(p)
      PROVE  \A c \in Builders : JobOK(c, X)'
  BY <1>21, CrashMoves, ProcsAssumption, ZenonT(30) DEF Goes, Others, Same, Procs
<1>22. ASSUME NEW s \in Booters, Get(s)
      PROVE  \A c \in Builders : JobOK(c, X)'
  BY <1>22, GetMoves, ProcsAssumption DEF Goes, Others, Same, Procs
<1>23. ASSUME NEW s \in Booters, ReadConfig(s)
      PROVE  \A c \in Builders : JobOK(c, X)'
  BY <1>23, ReadConfigMoves, ProcsAssumption, ZenonT(30) DEF Goes, Others, Same, Procs
<1>24. ASSUME NEW s \in Booters, Extract(s)
      PROVE  \A c \in Builders : JobOK(c, X)'
  <2>1. s \in Procs /\ Goes(s, "cloning") /\ s \notin Builders
    BY <1>24, ExtractMoves, ProcsAssumption DEF Procs
  <2> QED BY <2>1 DEF Goes, Others, Procs
<1>25. ASSUME NEW s \in Booters, Clone(s)
      PROVE  \A c \in Builders : JobOK(c, X)'
  <2>1. Goes(s, "running") /\ s \notin Builders
    BY <1>25, CloneMoves, ProcsAssumption
  <2> QED BY <2>1 DEF Goes, Others, Procs
<1>26. ASSUME NEW s \in Booters, BootFails(s)
      PROVE  \A c \in Builders : JobOK(c, X)'
  BY <1>26, BootFailsMoves, ProcsAssumption, ZenonT(30) DEF Goes, Others, Same, Procs
<1>27. CASE UNCHANGED vars
  BY <1>27 DEF vars, storeVars
<1>28. ASSUME NEW b \in Builders, Truncate(b)
      PROVE  \A c \in Builders : JobOK(c, X)'
  <2>1. b \in Procs /\ Goes(b, pc'[b]) /\ pc'[b] = "filling"
    BY <1>28, TruncateMoves DEF Goes, Procs
  <2> QED BY <2>1 DEF Goes, Others, Procs
<1>29. ASSUME NEW b \in Builders, Fill(b)
      PROVE  \A c \in Builders : JobOK(c, X)'
  <2>1. b \in Procs /\ Goes(b, pc'[b]) /\ pc'[b] \in {"keying", "truncating"}
    BY <1>29, FillMoves DEF Goes, Procs
  <2> QED BY <2>1 DEF Goes, Others, Procs
<1>30. ASSUME NEW b \in Builders, CopyScript(b)
      PROVE  \A c \in Builders : JobOK(c, X)'
  <2>1. /\ pc[b] = "stepping" /\ Goes(b, "stepping") /\ job'[b].rootfs = job[b].rootfs
        /\ job'[b].plan = job[b].plan /\ job'[b].keyed = job[b].keyed /\ job'[b].base = job[b].base
    BY <1>30, CopyScriptMoves
  <2> QED BY <2>1 DEF Goes, Others, Procs
<1> QED BY <1>1, <1>2, <1>3, <1>4, <1>5, <1>6, <1>7, <1>8, <1>9, <1>10, <1>11, <1>12, <1>13, <1>14, <1>15, <1>16, <1>17, <1>18, <1>19, <1>20, <1>21, <1>22, <1>23, <1>24, <1>25, <1>26, <1>27, <1>28, <1>29, <1>30 DEF Next, Build, Reclaim, Boot

LEMMA TagsHonestKept ==
  ASSUME Typing, AllKeyed, NEW X, disturbed = X, HonestBut(X), [Next]_vars
  PROVE  TagsHonest(X)'
<1> USE DEF TagsHonest, HonestBut
<1>1. ASSUME NEW b \in Builders, Keys(b)
      PROVE  TagsHonest(X)'
  BY <1>1 DEF Keys, storeVars
<1>2. ASSUME NEW b \in Builders, LockShared(b)
      PROVE  TagsHonest(X)'
  BY <1>2 DEF LockShared, storeVars
<1>3. ASSUME NEW b \in Builders, Pull(b)
      PROVE  TagsHonest(X)'
  BY <1>3 DEF Pull, storeVars
<1>4. ASSUME NEW b \in Builders, TagPulled(b)
      PROVE  TagsHonest(X)'
  <2>1. b \in Procs /\ job[b].plan = 1 /\ Plan(b).base = "debian" /\ job[b].base # <<>>
    BY <1>4, PlansAre DEF Procs, TagPulled, JobOK, Plan, Sharing
  <2>2. tags' = Put(tags, "debian", job[b].base)
    BY <1>4, <2>1 DEF TagPulled
  <2>3. \A n \in {1, 2} : Plans[n].tag # "debian"
    BY PlansAre
  <2>4. DOMAIN tags' = DOMAIN tags \cup {"debian"} /\ tags'["debian"] = job[b].base
    BY <2>2 DEF Put
  <2>5. \A t \in DOMAIN tags : t # "debian" => tags'[t] = tags[t]
    BY <2>2 DEF Put
  <2> QED BY <2>1, <2>3, <2>4, <2>5
<1>5. ASSUME NEW b \in Builders, Look(b)
      PROVE  TagsHonest(X)'
  BY <1>5 DEF Look, storeVars
<1>6. ASSUME NEW b \in Builders, Restore(b)
      PROVE  TagsHonest(X)'
  BY <1>6 DEF Restore, storeVars
<1>7. ASSUME NEW b \in Builders, Unpack(b)
      PROVE  TagsHonest(X)'
  BY <1>7 DEF Unpack, storeVars
<1>8. ASSUME NEW b \in Builders, Step(b)
      PROVE  TagsHonest(X)'
  BY <1>8 DEF Step, StepKept
<1>9. ASSUME NEW b \in Builders, Ingest(b)
      PROVE  TagsHonest(X)'
  BY <1>9 DEF Ingest, storeVars
<1>10. ASSUME NEW b \in Builders, Tag(b)
      PROVE  TagsHonest(X)'
  <2> DEFINE plan == job[b].plan
             tag == Plans[plan].tag
  <2>1. b \in Procs /\ plan \in {1, 2} /\ pc[b] \in {"storing", "retagging"}
    BY <1>10 DEF Procs, Typing, PlacesTyped, Locals, Tag
  <2>2. job[b].rootfs \in Rootfs /\ job[b].base \in Rootfs /\ job[b].base # <<>>
    BY <2>1 DEF Typing, PlacesTyped, Locals, JobOK, Sharing
  <2>4. Follows(job[b].rootfs, job[b].base, plan, 1, {job[b].keyed} \cap Releases, X)
    BY <2>1 DEF JobOK, Finished
  <2>5. MadeBy(job[b].rootfs, plan, X) /\ job[b].rootfs # <<>>
    BY <2>2, <2>4, WholeImage
  <2>6. \A n \in {1, 2} : Plans[n].tag = tag => n = plan
    BY <2>1, PlansAre
  <2>7. tags' = Put(tags, tag, job[b].rootfs)
    BY <1>10 DEF Tag, Plan
  <2>8. DOMAIN tags' = DOMAIN tags \cup {tag} /\ tags'[tag] = job[b].rootfs
    BY <2>7 DEF Put
  <2>9. \A t \in DOMAIN tags : t # tag => tags'[t] = tags[t]
    BY <2>7 DEF Put
  <2> HIDE DEF plan, tag
  <2> QED BY <2>5, <2>6, <2>8, <2>9 DEF plan
<1>11. ASSUME NEW b \in Builders, SaveImage(b)
      PROVE  TagsHonest(X)'
  BY <1>11 DEF SaveImage, storeVars
<1>12. ASSUME NEW b \in Builders, Unlock(b)
      PROVE  TagsHonest(X)'
  BY <1>12 DEF Unlock, storeVars
<1>13. ASSUME NEW b \in Builders, Evict(b)
      PROVE  TagsHonest(X)'
  BY <1>13 DEF Evict, storeVars
<1>14. ASSUME NEW b \in Builders, BuildFails(b)
      PROVE  TagsHonest(X)'
  BY <1>14 DEF BuildFails, storeVars
<1>15. ASSUME NEW c \in Cleaners, StartClean(c)
      PROVE  TagsHonest(X)'
  BY <1>15 DEF StartClean, storeVars
<1>16. ASSUME NEW c \in Cleaners, Forget(c)
      PROVE  TagsHonest(X)'
  BY <1>16 DEF Forget, storeVars
<1>17. ASSUME NEW p \in Builders \cup Cleaners, List(p)
      PROVE  TagsHonest(X)'
  BY <1>17 DEF List, storeVars
<1>18. ASSUME NEW p \in Builders \cup Cleaners, EvictUnpacked(p)
      PROVE  TagsHonest(X)'
  BY <1>18 DEF EvictUnpacked, storeVars
<1>19. ASSUME NEW p \in Builders \cup Cleaners, LockExclusive(p)
      PROVE  TagsHonest(X)'
  BY <1>19 DEF LockExclusive, storeVars
<1>20. ASSUME NEW p \in Builders \cup Cleaners, Delete(p)
      PROVE  TagsHonest(X)'
  BY <1>20 DEF Delete, storeVars
<1>21. ASSUME NEW p \in Builders \cup Cleaners, Crash(p)
      PROVE  TagsHonest(X)'
  BY <1>21 DEF Crash, storeVars
<1>22. ASSUME NEW s \in Booters, Get(s)
      PROVE  TagsHonest(X)'
  BY <1>22 DEF Get, storeVars
<1>23. ASSUME NEW s \in Booters, ReadConfig(s)
      PROVE  TagsHonest(X)'
  BY <1>23 DEF ReadConfig, storeVars
<1>24. ASSUME NEW s \in Booters, Extract(s)
      PROVE  TagsHonest(X)'
  BY <1>24 DEF Extract, storeVars
<1>25. ASSUME NEW s \in Booters, Clone(s)
      PROVE  TagsHonest(X)'
  BY <1>25 DEF Clone, storeVars
<1>26. ASSUME NEW s \in Booters, BootFails(s)
      PROVE  TagsHonest(X)'
  BY <1>26 DEF BootFails, storeVars
<1>27. CASE UNCHANGED vars
  BY <1>27 DEF vars, storeVars
<1>28. ASSUME NEW b \in Builders, Truncate(b)
      PROVE  TagsHonest(X)'
  BY <1>28 DEF Truncate, storeVars
<1>29. ASSUME NEW b \in Builders, Fill(b)
      PROVE  TagsHonest(X)'
  BY <1>29 DEF Fill, storeVars
<1>30. ASSUME NEW b \in Builders, CopyScript(b)
      PROVE  TagsHonest(X)'
  BY <1>30 DEF CopyScript, storeVars
<1> QED BY <1>1, <1>2, <1>3, <1>4, <1>5, <1>6, <1>7, <1>8, <1>9, <1>10, <1>11, <1>12, <1>13, <1>14, <1>15, <1>16, <1>17, <1>18, <1>19, <1>20, <1>21, <1>22, <1>23, <1>24, <1>25, <1>26, <1>27, <1>28, <1>29, <1>30 DEF Next, Build, Reclaim, Boot

LEMMA SnapshotsHonestKept ==
  ASSUME Typing, AllKeyed, NEW X, disturbed = X, HonestBut(X), [Next]_vars
  PROVE  SnapshotsHonest(X)'
<1> USE DEF SnapshotsHonest, HonestBut
<1>1. ASSUME NEW b \in Builders, Keys(b)
      PROVE  SnapshotsHonest(X)'
  BY <1>1 DEF Keys, storeVars
<1>2. ASSUME NEW b \in Builders, LockShared(b)
      PROVE  SnapshotsHonest(X)'
  BY <1>2 DEF LockShared, storeVars
<1>3. ASSUME NEW b \in Builders, Pull(b)
      PROVE  SnapshotsHonest(X)'
  BY <1>3 DEF Pull, storeVars
<1>4. ASSUME NEW b \in Builders, TagPulled(b)
      PROVE  SnapshotsHonest(X)'
  BY <1>4 DEF TagPulled, storeVars
<1>5. ASSUME NEW b \in Builders, Look(b)
      PROVE  SnapshotsHonest(X)'
  BY <1>5 DEF Look, storeVars
<1>6. ASSUME NEW b \in Builders, Restore(b)
      PROVE  SnapshotsHonest(X)'
  <2>1. snapshots' = Touched(StepKey(b, job[b].start)) /\ StepKey(b, job[b].start) \in Held
    BY <1>6, RestoreMoves DEF Restore
  <2>2. ASSUME NEW i \in DOMAIN snapshots'
        PROVE  \E j \in DOMAIN snapshots : snapshots'[i] = snapshots[j]
    BY <2>1, TouchedKeeps DEF Typing, SnapshotsTyped
  <2> QED BY <2>2
<1>7. ASSUME NEW b \in Builders, Unpack(b)
      PROVE  SnapshotsHonest(X)'
  <2>1. b \in Procs /\ job[b].base \in Rootfs /\ SaveRootfs(job[b].base, StepKey(b, 0))
    BY <1>7 DEF Procs, Typing, PlacesTyped, Locals, Unpack
  <2> DEFINE new == [key |-> StepKey(b, 0), rootfs |-> job[b].base]
  <2>2. new \in Snapshot
    BY <2>1, KeyTyped DEF Typing, PlacesTyped, Snapshot
  <2>3. Follows(new.rootfs, new.key[1], new.key[2], new.key[3], {new.key[4]} \cap Releases, X)
    BY <2>1, FollowsNothing, FollowsKey DEF Typing, PlacesTyped
  <2>4. \A i \in DOMAIN snapshots' : snapshots'[i] = new \/ \E j \in DOMAIN snapshots : snapshots'[i] = snapshots[j]
    BY <2>1, <2>2, SavedOnce DEF Typing, SnapshotsTyped, LocksTyped
  <2> HIDE DEF new
  <2> QED BY <2>3, <2>4
<1>8. ASSUME NEW b \in Builders, Step(b)
      PROVE  SnapshotsHonest(X)'
  <2> DEFINE rootfs == Append(job[b].rootfs, <<job[b].plan, 1, job[b].seen, b>>)
             new == [key |-> StepKey(b, 1), rootfs |-> rootfs]
  <2>1. b \in Procs
    BY DEF Procs
  <2>2. rootfs \in Rootfs /\ SaveRootfs(rootfs, StepKey(b, 1))
    BY <1>8, StepMoves
  <2>3. Follows(rootfs, job[b].base, job[b].plan, 1, {job[b].keyed} \cap Releases, X)
    BY <1>8, StepFollows
  <2> HIDE DEF rootfs
  <2>4. new \in Snapshot
    BY <2>1, <2>2, KeyTyped DEF Typing, PlacesTyped, Snapshot
  <2>5. Follows(new.rootfs, new.key[1], new.key[2], new.key[3], {new.key[4]} \cap Releases, X)
    BY <2>1, <2>3, FollowsKey DEF Typing, PlacesTyped
  <2>6. \A i \in DOMAIN snapshots' : snapshots'[i] = new \/ \E j \in DOMAIN snapshots : snapshots'[i] = snapshots[j]
    BY <2>2, <2>4, SavedOnce DEF Typing, SnapshotsTyped, LocksTyped
  <2> HIDE DEF new
  <2> QED BY <2>5, <2>6
<1>9. ASSUME NEW b \in Builders, Ingest(b)
      PROVE  SnapshotsHonest(X)'
  BY <1>9 DEF Ingest, storeVars
<1>10. ASSUME NEW b \in Builders, Tag(b)
      PROVE  SnapshotsHonest(X)'
  BY <1>10 DEF Tag, storeVars
<1>11. ASSUME NEW b \in Builders, SaveImage(b)
      PROVE  SnapshotsHonest(X)'
  BY <1>11 DEF SaveImage, storeVars
<1>12. ASSUME NEW b \in Builders, Unlock(b)
      PROVE  SnapshotsHonest(X)'
  BY <1>12 DEF Unlock, storeVars
<1>13. ASSUME NEW b \in Builders, Evict(b)
      PROVE  SnapshotsHonest(X)'
  <2> DEFINE left == IF Keep < Len(snapshots) THEN Keep ELSE Len(snapshots)
  <2>1. left \in 0..Len(snapshots) /\ snapshots \in Seq(Snapshot)
    BY BoundsAssumption DEF Typing, SnapshotsTyped
  <2>2. snapshots' = SubSeq(snapshots, 1, left)
    BY <1>13 DEF Evict
  <2> HIDE DEF left
  <2> QED BY <2>1, <2>2, EvictedFromTheEnd
<1>14. ASSUME NEW b \in Builders, BuildFails(b)
      PROVE  SnapshotsHonest(X)'
  BY <1>14 DEF BuildFails, storeVars
<1>15. ASSUME NEW c \in Cleaners, StartClean(c)
      PROVE  SnapshotsHonest(X)'
  BY <1>15 DEF StartClean, storeVars
<1>16. ASSUME NEW c \in Cleaners, Forget(c)
      PROVE  SnapshotsHonest(X)'
  BY <1>16 DEF Forget, storeVars
<1>17. ASSUME NEW p \in Builders \cup Cleaners, List(p)
      PROVE  SnapshotsHonest(X)'
  BY <1>17 DEF List, storeVars
<1>18. ASSUME NEW p \in Builders \cup Cleaners, EvictUnpacked(p)
      PROVE  SnapshotsHonest(X)'
  BY <1>18 DEF EvictUnpacked, storeVars
<1>19. ASSUME NEW p \in Builders \cup Cleaners, LockExclusive(p)
      PROVE  SnapshotsHonest(X)'
  BY <1>19 DEF LockExclusive, storeVars
<1>20. ASSUME NEW p \in Builders \cup Cleaners, Delete(p)
      PROVE  SnapshotsHonest(X)'
  BY <1>20 DEF Delete, storeVars
<1>21. ASSUME NEW p \in Builders \cup Cleaners, Crash(p)
      PROVE  SnapshotsHonest(X)'
  BY <1>21 DEF Crash, storeVars
<1>22. ASSUME NEW s \in Booters, Get(s)
      PROVE  SnapshotsHonest(X)'
  BY <1>22 DEF Get, storeVars
<1>23. ASSUME NEW s \in Booters, ReadConfig(s)
      PROVE  SnapshotsHonest(X)'
  BY <1>23 DEF ReadConfig, storeVars
<1>24. ASSUME NEW s \in Booters, Extract(s)
      PROVE  SnapshotsHonest(X)'
  BY <1>24 DEF Extract, storeVars
<1>25. ASSUME NEW s \in Booters, Clone(s)
      PROVE  SnapshotsHonest(X)'
  BY <1>25 DEF Clone, storeVars
<1>26. ASSUME NEW s \in Booters, BootFails(s)
      PROVE  SnapshotsHonest(X)'
  BY <1>26 DEF BootFails, storeVars
<1>27. CASE UNCHANGED vars
  BY <1>27 DEF vars, storeVars
<1>28. ASSUME NEW b \in Builders, Truncate(b)
      PROVE  SnapshotsHonest(X)'
  BY <1>28 DEF Truncate, storeVars
<1>29. ASSUME NEW b \in Builders, Fill(b)
      PROVE  SnapshotsHonest(X)'
  BY <1>29 DEF Fill, storeVars
<1>30. ASSUME NEW b \in Builders, CopyScript(b)
      PROVE  SnapshotsHonest(X)'
  BY <1>30 DEF CopyScript, storeVars
<1> QED BY <1>1, <1>2, <1>3, <1>4, <1>5, <1>6, <1>7, <1>8, <1>9, <1>10, <1>11, <1>12, <1>13, <1>14, <1>15, <1>16, <1>17, <1>18, <1>19, <1>20, <1>21, <1>22, <1>23, <1>24, <1>25, <1>26, <1>27, <1>28, <1>29, <1>30 DEF Next, Build, Reclaim, Boot

LEMMA RecordsHonestKept ==
  ASSUME Typing, AllKeyed, NEW X, disturbed = X, HonestBut(X), [Next]_vars
  PROVE  RecordsHonest(X)'
<1> USE DEF RecordsHonest, HonestBut
<1>1. ASSUME NEW b \in Builders, Keys(b)
      PROVE  RecordsHonest(X)'
  BY <1>1 DEF Keys, storeVars
<1>2. ASSUME NEW b \in Builders, LockShared(b)
      PROVE  RecordsHonest(X)'
  BY <1>2 DEF LockShared, storeVars
<1>3. ASSUME NEW b \in Builders, Pull(b)
      PROVE  RecordsHonest(X)'
  BY <1>3 DEF Pull, storeVars
<1>4. ASSUME NEW b \in Builders, TagPulled(b)
      PROVE  RecordsHonest(X)'
  BY <1>4 DEF TagPulled, storeVars
<1>5. ASSUME NEW b \in Builders, Look(b)
      PROVE  RecordsHonest(X)'
  BY <1>5 DEF Look, storeVars
<1>6. ASSUME NEW b \in Builders, Restore(b)
      PROVE  RecordsHonest(X)'
  BY <1>6 DEF Restore, storeVars
<1>7. ASSUME NEW b \in Builders, Unpack(b)
      PROVE  RecordsHonest(X)'
  BY <1>7 DEF Unpack, storeVars
<1>8. ASSUME NEW b \in Builders, Step(b)
      PROVE  RecordsHonest(X)'
  BY <1>8 DEF Step, StepKept
<1>9. ASSUME NEW b \in Builders, Ingest(b)
      PROVE  RecordsHonest(X)'
  BY <1>9 DEF Ingest, storeVars
<1>10. ASSUME NEW b \in Builders, Tag(b)
      PROVE  RecordsHonest(X)'
  BY <1>10 DEF Tag, storeVars
<1>11. ASSUME NEW b \in Builders, SaveImage(b)
      PROVE  RecordsHonest(X)'
  <2>1. CASE records' = Put(records, ImageKey(b), Torn)
    BY <2>1 DEF Put
  <2>2. CASE pc[b] = "writing" /\ records' = Put(records, ImageKey(b), job[b].rootfs)
    <3> DEFINE k == ImageKey(b)
    <3>1. b \in Procs /\ job \in [Procs -> Locals]
      BY DEF Procs, Typing, PlacesTyped
    <3>2. Follows(job[b].rootfs, job[b].base, job[b].plan, 1, {job[b].keyed} \cap Releases, X)
      BY <2>2 DEF JobOK, Finished
    <3>3. Follows(job[b].rootfs, k[1], k[2], k[3], {k[4]} \cap Releases, X)
      BY <3>1, <3>2, FollowsKey, ImageKeyIs
    <3> HIDE DEF k
    <3>4. records' = Put(records, k, job[b].rootfs)
      BY <2>2 DEF k
    <3> QED BY <3>3, <3>4 DEF Put
  <2>3. CASE records' = records
    BY <2>3
  <2> QED BY <1>11, <2>1, <2>2, <2>3, SaveImageMoves
<1>12. ASSUME NEW b \in Builders, Unlock(b)
      PROVE  RecordsHonest(X)'
  BY <1>12 DEF Unlock, storeVars
<1>13. ASSUME NEW b \in Builders, Evict(b)
      PROVE  RecordsHonest(X)'
  BY <1>13 DEF Evict, storeVars
<1>14. ASSUME NEW b \in Builders, BuildFails(b)
      PROVE  RecordsHonest(X)'
  BY <1>14 DEF BuildFails, storeVars
<1>15. ASSUME NEW c \in Cleaners, StartClean(c)
      PROVE  RecordsHonest(X)'
  BY <1>15 DEF StartClean, storeVars
<1>16. ASSUME NEW c \in Cleaners, Forget(c)
      PROVE  RecordsHonest(X)'
  BY <1>16 DEF Forget, Only
<1>17. ASSUME NEW p \in Builders \cup Cleaners, List(p)
      PROVE  RecordsHonest(X)'
  BY <1>17 DEF List, storeVars
<1>18. ASSUME NEW p \in Builders \cup Cleaners, EvictUnpacked(p)
      PROVE  RecordsHonest(X)'
  BY <1>18 DEF EvictUnpacked, storeVars
<1>19. ASSUME NEW p \in Builders \cup Cleaners, LockExclusive(p)
      PROVE  RecordsHonest(X)'
  BY <1>19 DEF LockExclusive, storeVars
<1>20. ASSUME NEW p \in Builders \cup Cleaners, Delete(p)
      PROVE  RecordsHonest(X)'
  BY <1>20 DEF Delete, storeVars
<1>21. ASSUME NEW p \in Builders \cup Cleaners, Crash(p)
      PROVE  RecordsHonest(X)'
  BY <1>21 DEF Crash, storeVars
<1>22. ASSUME NEW s \in Booters, Get(s)
      PROVE  RecordsHonest(X)'
  BY <1>22 DEF Get, storeVars
<1>23. ASSUME NEW s \in Booters, ReadConfig(s)
      PROVE  RecordsHonest(X)'
  BY <1>23 DEF ReadConfig, storeVars
<1>24. ASSUME NEW s \in Booters, Extract(s)
      PROVE  RecordsHonest(X)'
  BY <1>24 DEF Extract, storeVars
<1>25. ASSUME NEW s \in Booters, Clone(s)
      PROVE  RecordsHonest(X)'
  BY <1>25 DEF Clone, storeVars
<1>26. ASSUME NEW s \in Booters, BootFails(s)
      PROVE  RecordsHonest(X)'
  BY <1>26 DEF BootFails, storeVars
<1>27. CASE UNCHANGED vars
  BY <1>27 DEF vars, storeVars
<1>28. ASSUME NEW b \in Builders, Truncate(b)
      PROVE  RecordsHonest(X)'
  BY <1>28 DEF Truncate, storeVars
<1>29. ASSUME NEW b \in Builders, Fill(b)
      PROVE  RecordsHonest(X)'
  BY <1>29 DEF Fill, storeVars
<1>30. ASSUME NEW b \in Builders, CopyScript(b)
      PROVE  RecordsHonest(X)'
  BY <1>30 DEF CopyScript, storeVars
<1> QED BY <1>1, <1>2, <1>3, <1>4, <1>5, <1>6, <1>7, <1>8, <1>9, <1>10, <1>11, <1>12, <1>13, <1>14, <1>15, <1>16, <1>17, <1>18, <1>19, <1>20, <1>21, <1>22, <1>23, <1>24, <1>25, <1>26, <1>27, <1>28, <1>29, <1>30 DEF Next, Build, Reclaim, Boot

LEMMA RunningHonestKept ==
  ASSUME Typing, RunningHonest, [Next]_vars
  PROVE  RunningHonest'
<1> USE DEF RunningHonest
<1>1. ASSUME NEW b \in Builders, Keys(b)
      PROVE  RunningHonest'
  BY <1>1, KeysMoves, ProcsAssumption DEF Goes, Others, Procs
<1>2. ASSUME NEW b \in Builders, LockShared(b)
      PROVE  RunningHonest'
  BY <1>2, LockSharedMoves, ProcsAssumption DEF Goes, Others, Procs
<1>3. ASSUME NEW b \in Builders, Pull(b)
      PROVE  RunningHonest'
  BY <1>3, PullMoves, ProcsAssumption DEF Goes, Others, Procs
<1>4. ASSUME NEW b \in Builders, TagPulled(b)
      PROVE  RunningHonest'
  BY <1>4, TagPulledMoves, ProcsAssumption DEF Goes, Others, Procs
<1>5. ASSUME NEW b \in Builders, Look(b)
      PROVE  RunningHonest'
  BY <1>5, LookMoves, ProcsAssumption DEF Goes, Others, Procs
<1>6. ASSUME NEW b \in Builders, Restore(b)
      PROVE  RunningHonest'
  BY <1>6, RestoreMoves, ProcsAssumption DEF Goes, Others, Procs
<1>7. ASSUME NEW b \in Builders, Unpack(b)
      PROVE  RunningHonest'
  BY <1>7, UnpackMoves, ProcsAssumption DEF Goes, Others, Procs
<1>8. ASSUME NEW b \in Builders, Step(b)
      PROVE  RunningHonest'
  BY <1>8, StepMoves, ProcsAssumption, ZenonT(30) DEF Goes, Others, Procs
<1>9. ASSUME NEW b \in Builders, Ingest(b)
      PROVE  RunningHonest'
  BY <1>9, IngestMoves, ProcsAssumption DEF Goes, Others, Procs
<1>10. ASSUME NEW b \in Builders, Tag(b)
      PROVE  RunningHonest'
  BY <1>10, TagMoves, ProcsAssumption DEF Goes, Others, Procs
<1>11. ASSUME NEW b \in Builders, SaveImage(b)
      PROVE  RunningHonest'
  BY <1>11, SaveImageMoves, ProcsAssumption DEF Goes, Others, Procs
<1>12. ASSUME NEW b \in Builders, Unlock(b)
      PROVE  RunningHonest'
  BY <1>12, UnlockMoves, ProcsAssumption DEF Goes, Others, Procs
<1>13. ASSUME NEW b \in Builders, Evict(b)
      PROVE  RunningHonest'
  BY <1>13, EvictMoves, ProcsAssumption DEF Goes, Others, Procs
<1>14. ASSUME NEW b \in Builders, BuildFails(b)
      PROVE  RunningHonest'
  BY <1>14, BuildFailsMoves, ProcsAssumption DEF Goes, Others, Procs
<1>15. ASSUME NEW c \in Cleaners, StartClean(c)
      PROVE  RunningHonest'
  BY <1>15, StartCleanMoves, ProcsAssumption DEF Goes, Others, Procs
<1>16. ASSUME NEW c \in Cleaners, Forget(c)
      PROVE  RunningHonest'
  BY <1>16, ForgetMoves, ProcsAssumption DEF Goes, Others, Procs
<1>17. ASSUME NEW p \in Builders \cup Cleaners, List(p)
      PROVE  RunningHonest'
  BY <1>17, ListMoves, ProcsAssumption DEF Goes, Others, Procs
<1>18. ASSUME NEW p \in Builders \cup Cleaners, EvictUnpacked(p)
      PROVE  RunningHonest'
  BY <1>18, EvictUnpackedMoves, ProcsAssumption DEF Goes, Others, Procs
<1>19. ASSUME NEW p \in Builders \cup Cleaners, LockExclusive(p)
      PROVE  RunningHonest'
  BY <1>19, LockExclusiveMoves, ProcsAssumption DEF Goes, Others, Procs, AfterReclaim
<1>20. ASSUME NEW p \in Builders \cup Cleaners, Delete(p)
      PROVE  RunningHonest'
  BY <1>20, DeleteMoves, ProcsAssumption DEF Goes, Others, Procs, AfterReclaim
<1>21. ASSUME NEW p \in Builders \cup Cleaners, Crash(p)
      PROVE  RunningHonest'
  BY <1>21, CrashMoves, ProcsAssumption DEF Goes, Others, Procs
<1>22. ASSUME NEW s \in Booters, Get(s)
      PROVE  RunningHonest'
  BY <1>22, GetMoves, ProcsAssumption DEF Goes, Others, Procs
<1>23. ASSUME NEW s \in Booters, ReadConfig(s)
      PROVE  RunningHonest'
  BY <1>23, ReadConfigMoves, ProcsAssumption DEF Goes, Others, Procs
<1>24. ASSUME NEW s \in Booters, Extract(s)
      PROVE  RunningHonest'
  BY <1>24, ExtractMoves, ProcsAssumption DEF Goes, Others, Procs
<1>25. ASSUME NEW s \in Booters, Clone(s)
      PROVE  RunningHonest'
  <2>1. /\ Goes(s, "running") /\ job[s].base \in DOMAIN unpacked
        /\ job'[s].base = job[s].base /\ job'[s].rootfs = unpacked[job[s].base]
    BY <1>25, CloneMoves
  <2>2. job'[s].rootfs = job'[s].base
    BY <2>1 DEF Typing, UnpackedTyped
  <2> QED BY <2>1, <2>2 DEF Goes, Others, Procs
<1>26. ASSUME NEW s \in Booters, BootFails(s)
      PROVE  RunningHonest'
  BY <1>26, BootFailsMoves, ProcsAssumption DEF Goes, Others, Procs
<1>27. CASE UNCHANGED vars
  BY <1>27 DEF vars, storeVars
<1>28. ASSUME NEW b \in Builders, Truncate(b)
      PROVE  RunningHonest'
  BY <1>28, TruncateMoves, ProcsAssumption DEF Goes, Others, Procs
<1>29. ASSUME NEW b \in Builders, Fill(b)
      PROVE  RunningHonest'
  BY <1>29, FillMoves, ProcsAssumption DEF Goes, Others, Procs
<1>30. ASSUME NEW b \in Builders, CopyScript(b)
      PROVE  RunningHonest'
  BY <1>30, CopyScriptMoves, ProcsAssumption DEF Goes, Others, Procs
<1> QED BY <1>1, <1>2, <1>3, <1>4, <1>5, <1>6, <1>7, <1>8, <1>9, <1>10, <1>11, <1>12, <1>13, <1>14, <1>15, <1>16, <1>17, <1>18, <1>19, <1>20, <1>21, <1>22, <1>23, <1>24, <1>25, <1>26, <1>27, <1>28, <1>29, <1>30 DEF Next, Build, Reclaim, Boot

-----------------------------------------------------------------------------
(* Who still has to reclaim. *)

LEMMA ReclaimKept ==
  ASSUME Typing, LocksOK, ReclaimOK, [Next]_vars
  PROVE  ReclaimOK'
<1> USE DEF ReclaimOK, Untouched, Owing, Referenced
<1>1. ASSUME NEW b \in Builders, Keys(b)
      PROVE  ReclaimOK'
  BY <1>1, KeysMoves, ProcsAssumption DEF Keys, Goes, Others, Procs, storeVars, Sharing
<1>2. ASSUME NEW b \in Builders, LockShared(b)
      PROVE  ReclaimOK'
  BY <1>2, LockSharedMoves, ProcsAssumption DEF LockShared, Goes, Others, Procs, storeVars, Sharing
<1>3. ASSUME NEW b \in Builders, Pull(b)
      PROVE  ReclaimOK'
  BY <1>3, PullMoves, ProcsAssumption DEF Pull, Goes, Others, Procs, storeVars, Sharing
<1>4. ASSUME NEW b \in Builders, TagPulled(b)
      PROVE  ReclaimOK'
  BY <1>4, TagPulledMoves, ProcsAssumption DEF TagPulled, Goes, Others, Procs, storeVars, Sharing
<1>5. ASSUME NEW b \in Builders, Look(b)
      PROVE  ReclaimOK'
  BY <1>5, LookMoves, ProcsAssumption DEF Look, Goes, Others, Procs, storeVars, Sharing
<1>6. ASSUME NEW b \in Builders, Restore(b)
      PROVE  ReclaimOK'
  <2>1. Goes(b, pc'[b]) /\ pc'[b] \in {"ingesting", "stepping"}
    BY <1>6, RestoreMoves DEF Goes
  <2> QED BY <2>1 DEF Goes, Sharing
<1>7. ASSUME NEW b \in Builders, Unpack(b)
      PROVE  ReclaimOK'
  BY <1>7, UnpackMoves, ProcsAssumption DEF Unpack, Goes, Others, Procs, storeVars, Sharing
<1>8. ASSUME NEW b \in Builders, Step(b)
      PROVE  ReclaimOK'
  <2>1. Goes(b, "ingesting")
    BY <1>8, StepMoves
  <2> QED BY <2>1 DEF Goes, Sharing
<1>9. ASSUME NEW b \in Builders, Ingest(b)
      PROVE  ReclaimOK'
  BY <1>9, IngestMoves, ProcsAssumption DEF Ingest, Goes, Others, Procs, storeVars, Sharing
<1>10. ASSUME NEW b \in Builders, Tag(b)
      PROVE  ReclaimOK'
  BY <1>10, TagMoves, ProcsAssumption DEF Tag, Goes, Others, Procs, storeVars, Sharing
<1>11. ASSUME NEW b \in Builders, SaveImage(b)
      PROVE  ReclaimOK'
  BY <1>11, SaveImageMoves, ProcsAssumption DEF SaveImage, Goes, Others, Procs, storeVars, Sharing
<1>12. ASSUME NEW b \in Builders, Unlock(b)
      PROVE  ReclaimOK'
  BY <1>12, UnlockMoves, ProcsAssumption DEF Unlock, Goes, Others, Procs, storeVars, Sharing
<1>13. ASSUME NEW b \in Builders, Evict(b)
      PROVE  ReclaimOK'
  BY <1>13, EvictMoves, ProcsAssumption DEF Evict, Goes, Others, Procs, storeVars, Sharing
<1>14. ASSUME NEW b \in Builders, BuildFails(b)
      PROVE  ReclaimOK'
  BY <1>14, BuildFailsMoves, ProcsAssumption DEF BuildFails, Goes, Others, Procs, storeVars, Sharing
<1>15. ASSUME NEW c \in Cleaners, StartClean(c)
      PROVE  ReclaimOK'
  BY <1>15, StartCleanMoves, ProcsAssumption DEF StartClean, Goes, Others, Procs, storeVars, Sharing
<1>16. ASSUME NEW c \in Cleaners, Forget(c)
      PROVE  ReclaimOK'
  BY <1>16, ForgetMoves, ProcsAssumption DEF Forget, Goes, Others, Procs, storeVars, Sharing
<1>17. ASSUME NEW p \in Builders \cup Cleaners, List(p)
      PROVE  ReclaimOK'
  BY <1>17, ListMoves, ProcsAssumption DEF List, Goes, Others, Procs, storeVars, Sharing
<1>18. ASSUME NEW p \in Builders \cup Cleaners, EvictUnpacked(p)
      PROVE  ReclaimOK'
  BY <1>18, EvictUnpackedMoves, ProcsAssumption DEF EvictUnpacked, Goes, Others, Procs, storeVars, Sharing
<1>19. ASSUME NEW p \in Builders \cup Cleaners, LockExclusive(p)
      PROVE  ReclaimOK'
  <2>1. p \in Procs /\ blobs' = blobs /\ tags' = tags
    BY <1>19 DEF LockExclusive, storeVars, Procs
  <2>2. CASE Goes(p, "deleting")
    BY <2>2, <1>19 DEF Goes
  <2>3. CASE (building # {} \/ reclaiming # NoProc) /\ Goes(p, AfterReclaim(p))
    <3>1. PICK q \in Builders \cup Cleaners : (q \in Builders /\ pc[q] \in Sharing) \/ pc[q] = "deleting"
      BY <2>3 DEF LocksOK, LockOf, Typing, LocksTyped, Procs
    <3>2. q # p /\ q \in Procs
      BY <1>19, <3>1 DEF LockExclusive, Sharing, Procs
    <3>3. pc'[q] = pc[q]
      BY <2>3, <3>2 DEF Goes, Others
    <3> QED BY <3>1, <3>3
  <2> QED BY <1>19, <2>2, <2>3, LockExclusiveMoves
<1>20. ASSUME NEW p \in Builders \cup Cleaners, Delete(p)
      PROVE  ReclaimOK'
  <2>1. blobs' = blobs \cap Referenced /\ tags' = tags
    BY <1>20 DEF Delete
  <2> QED BY <2>1
<1>21. ASSUME NEW p \in Builders \cup Cleaners, Crash(p)
      PROVE  ReclaimOK'
  BY <1>21, CrashMoves, ProcsAssumption DEF Crash, Goes, Others, Procs, storeVars, Sharing
<1>22. ASSUME NEW s \in Booters, Get(s)
      PROVE  ReclaimOK'
  BY <1>22, GetMoves, ProcsAssumption DEF Get, Goes, Others, Procs, storeVars, Sharing
<1>23. ASSUME NEW s \in Booters, ReadConfig(s)
      PROVE  ReclaimOK'
  BY <1>23, ReadConfigMoves, ProcsAssumption DEF ReadConfig, Goes, Others, Procs, storeVars, Sharing
<1>24. ASSUME NEW s \in Booters, Extract(s)
      PROVE  ReclaimOK'
  BY <1>24, ExtractMoves, ProcsAssumption DEF Extract, Goes, Others, Procs, storeVars, Sharing
<1>25. ASSUME NEW s \in Booters, Clone(s)
      PROVE  ReclaimOK'
  BY <1>25, CloneMoves, ProcsAssumption DEF Clone, Goes, Others, Procs, storeVars, Sharing
<1>26. ASSUME NEW s \in Booters, BootFails(s)
      PROVE  ReclaimOK'
  BY <1>26, BootFailsMoves, ProcsAssumption DEF BootFails, Goes, Others, Procs, storeVars, Sharing
<1>27. CASE UNCHANGED vars
  BY <1>27 DEF vars, storeVars
<1>28. ASSUME NEW b \in Builders, Truncate(b)
      PROVE  ReclaimOK'
  BY <1>28, TruncateMoves, ProcsAssumption DEF Truncate, Goes, Others, Procs, storeVars, Sharing
<1>29. ASSUME NEW b \in Builders, Fill(b)
      PROVE  ReclaimOK'
  BY <1>29, FillMoves, ProcsAssumption DEF Fill, Goes, Others, Procs, storeVars, Sharing
<1>30. ASSUME NEW b \in Builders, CopyScript(b)
      PROVE  ReclaimOK'
  BY <1>30, CopyScriptMoves, ProcsAssumption DEF CopyScript, Goes, Others, Procs, storeVars, Sharing
<1> QED BY <1>1, <1>2, <1>3, <1>4, <1>5, <1>6, <1>7, <1>8, <1>9, <1>10, <1>11, <1>12, <1>13, <1>14, <1>15, <1>16, <1>17, <1>18, <1>19, <1>20, <1>21, <1>22, <1>23, <1>24, <1>25, <1>26, <1>27, <1>28, <1>29, <1>30 DEF Next, Build, Reclaim, Boot

LEMMA NothingIsLeft ==
  ASSUME ReclaimOK
  PROVE  NothingLeftBehind
BY DEF ReclaimOK, Untouched, Owing, NothingLeftBehind, Sharing

LEMMA AwayStays ==
  ASSUME Typing, LocksOK, [Next]_vars
  PROVE  \A other \in Builders : pc[other] = "away" => pc'[other] = "away"
<1> USE DEF Typing
<1>1. ASSUME NEW b \in Builders, Keys(b)
      PROVE  \A other \in Builders : pc[other] = "away" => pc'[other] = "away"
  BY <1>1, KeysMoves, ProcsAssumption DEF Goes, Others, Procs
<1>2. ASSUME NEW b \in Builders, LockShared(b)
      PROVE  \A other \in Builders : pc[other] = "away" => pc'[other] = "away"
  BY <1>2, LockSharedMoves, ProcsAssumption DEF Goes, Others, Procs
<1>3. ASSUME NEW b \in Builders, Pull(b)
      PROVE  \A other \in Builders : pc[other] = "away" => pc'[other] = "away"
  BY <1>3, PullMoves, ProcsAssumption DEF Goes, Others, Procs
<1>4. ASSUME NEW b \in Builders, TagPulled(b)
      PROVE  \A other \in Builders : pc[other] = "away" => pc'[other] = "away"
  BY <1>4, TagPulledMoves, ProcsAssumption DEF Goes, Others, Procs
<1>5. ASSUME NEW b \in Builders, Look(b)
      PROVE  \A other \in Builders : pc[other] = "away" => pc'[other] = "away"
  BY <1>5, LookMoves, ProcsAssumption DEF Goes, Others, Procs
<1>6. ASSUME NEW b \in Builders, Restore(b)
      PROVE  \A other \in Builders : pc[other] = "away" => pc'[other] = "away"
  BY <1>6, RestoreMoves, ProcsAssumption DEF Goes, Others, Procs
<1>7. ASSUME NEW b \in Builders, Unpack(b)
      PROVE  \A other \in Builders : pc[other] = "away" => pc'[other] = "away"
  BY <1>7, UnpackMoves, ProcsAssumption DEF Goes, Others, Procs
<1>8. ASSUME NEW b \in Builders, Step(b)
      PROVE  \A other \in Builders : pc[other] = "away" => pc'[other] = "away"
  <2>1. Goes(b, "ingesting") /\ pc[b] = "stepping"
    BY <1>8, StepMoves
  <2> QED BY <2>1 DEF Goes, Others, Procs
<1>9. ASSUME NEW b \in Builders, Ingest(b)
      PROVE  \A other \in Builders : pc[other] = "away" => pc'[other] = "away"
  BY <1>9, IngestMoves, ProcsAssumption DEF Goes, Others, Procs
<1>10. ASSUME NEW b \in Builders, Tag(b)
      PROVE  \A other \in Builders : pc[other] = "away" => pc'[other] = "away"
  BY <1>10, TagMoves, ProcsAssumption DEF Goes, Others, Procs
<1>11. ASSUME NEW b \in Builders, SaveImage(b)
      PROVE  \A other \in Builders : pc[other] = "away" => pc'[other] = "away"
  BY <1>11, SaveImageMoves, ProcsAssumption DEF Goes, Others, Procs
<1>12. ASSUME NEW b \in Builders, Unlock(b)
      PROVE  \A other \in Builders : pc[other] = "away" => pc'[other] = "away"
  BY <1>12, UnlockMoves, ProcsAssumption DEF Goes, Others, Procs
<1>13. ASSUME NEW b \in Builders, Evict(b)
      PROVE  \A other \in Builders : pc[other] = "away" => pc'[other] = "away"
  BY <1>13, EvictMoves, ProcsAssumption DEF Goes, Others, Procs
<1>14. ASSUME NEW b \in Builders, BuildFails(b)
      PROVE  \A other \in Builders : pc[other] = "away" => pc'[other] = "away"
  BY <1>14, BuildFailsMoves, ProcsAssumption DEF Goes, Others, Procs
<1>15. ASSUME NEW c \in Cleaners, StartClean(c)
      PROVE  \A other \in Builders : pc[other] = "away" => pc'[other] = "away"
  BY <1>15, StartCleanMoves, ProcsAssumption DEF Goes, Others, Procs
<1>16. ASSUME NEW c \in Cleaners, Forget(c)
      PROVE  \A other \in Builders : pc[other] = "away" => pc'[other] = "away"
  BY <1>16, ForgetMoves, ProcsAssumption DEF Goes, Others, Procs
<1>17. ASSUME NEW p \in Builders \cup Cleaners, List(p)
      PROVE  \A other \in Builders : pc[other] = "away" => pc'[other] = "away"
  BY <1>17, ListMoves, ProcsAssumption DEF Goes, Others, Procs
<1>18. ASSUME NEW p \in Builders \cup Cleaners, EvictUnpacked(p)
      PROVE  \A other \in Builders : pc[other] = "away" => pc'[other] = "away"
  BY <1>18, EvictUnpackedMoves, ProcsAssumption DEF Goes, Others, Procs
<1>19. ASSUME NEW p \in Builders \cup Cleaners, LockExclusive(p)
      PROVE  \A other \in Builders : pc[other] = "away" => pc'[other] = "away"
  BY <1>19, LockExclusiveMoves, ProcsAssumption DEF Goes, Others, Procs
<1>20. ASSUME NEW p \in Builders \cup Cleaners, Delete(p)
      PROVE  \A other \in Builders : pc[other] = "away" => pc'[other] = "away"
  BY <1>20, DeleteMoves, ProcsAssumption DEF Goes, Others, Procs
<1>21. ASSUME NEW p \in Builders \cup Cleaners, Crash(p)
      PROVE  \A other \in Builders : pc[other] = "away" => pc'[other] = "away"
  <2>1. Goes(p, "failed") /\ pc[p] # "away"
    BY <1>21, CrashMoves, ProcsAssumption DEF LocksOK, LockOf, Procs, Sharing, LocksTyped
  <2> QED BY <2>1 DEF Goes, Others, Procs
<1>22. ASSUME NEW s \in Booters, Get(s)
      PROVE  \A other \in Builders : pc[other] = "away" => pc'[other] = "away"
  BY <1>22, GetMoves, ProcsAssumption DEF Goes, Others, Procs
<1>23. ASSUME NEW s \in Booters, ReadConfig(s)
      PROVE  \A other \in Builders : pc[other] = "away" => pc'[other] = "away"
  BY <1>23, ReadConfigMoves, ProcsAssumption DEF Goes, Others, Procs
<1>24. ASSUME NEW s \in Booters, Extract(s)
      PROVE  \A other \in Builders : pc[other] = "away" => pc'[other] = "away"
  BY <1>24, ExtractMoves, ProcsAssumption DEF Goes, Others, Procs
<1>25. ASSUME NEW s \in Booters, Clone(s)
      PROVE  \A other \in Builders : pc[other] = "away" => pc'[other] = "away"
  BY <1>25, CloneMoves, ProcsAssumption DEF Goes, Others, Procs
<1>26. ASSUME NEW s \in Booters, BootFails(s)
      PROVE  \A other \in Builders : pc[other] = "away" => pc'[other] = "away"
  BY <1>26, BootFailsMoves, ProcsAssumption DEF Goes, Others, Procs
<1>27. CASE UNCHANGED vars
  BY <1>27 DEF vars, storeVars
<1>28. ASSUME NEW b \in Builders, Truncate(b)
      PROVE  \A other \in Builders : pc[other] = "away" => pc'[other] = "away"
  BY <1>28, TruncateMoves, ProcsAssumption DEF Goes, Others, Procs
<1>29. ASSUME NEW b \in Builders, Fill(b)
      PROVE  \A other \in Builders : pc[other] = "away" => pc'[other] = "away"
  BY <1>29, FillMoves, ProcsAssumption DEF Goes, Others, Procs
<1>30. ASSUME NEW b \in Builders, CopyScript(b)
      PROVE  \A other \in Builders : pc[other] = "away" => pc'[other] = "away"
  BY <1>30, CopyScriptMoves, ProcsAssumption DEF Goes, Others, Procs
<1> QED BY <1>1, <1>2, <1>3, <1>4, <1>5, <1>6, <1>7, <1>8, <1>9, <1>10, <1>11, <1>12, <1>13, <1>14, <1>15, <1>16, <1>17, <1>18, <1>19, <1>20, <1>21, <1>22, <1>23, <1>24, <1>25, <1>26, <1>27, <1>28, <1>29, <1>30 DEF Next, Build, Reclaim, Boot

-----------------------------------------------------------------------------
(* The initial states. *)

LEMMA BuiltTyped ==
  ASSUME NEW release \in 1..2
  PROVE  /\ Built(release) \in Rootfs /\ Len(Built(release)) = 2
         /\ Follows(Built(release), Debian, 1, 1, {Whole(release)} \cap Releases, {})
<1>1. Debian \in Rootfs /\ Len(Debian) = 1
  BY NullTyped DEF Debian
<1> DEFINE Token == (0..2) \X (0..2) \X Seq(0..2) \X (Builders \cup {NoProc})
           token == <<1, 1, Whole(release), NoProc>>
<1>2. token \in Token /\ token[1] = 1 /\ token[2] = 1 /\ token[3] \in {Whole(release)} \cap Releases
  <2>1. Whole(release) \in Seq(0..2) /\ Whole(release) \in Releases
    BY ScriptsAre DEF Whole, Releases
  <2> QED BY <2>1
<1>3. Rootfs = Seq(Token) /\ Built(release) = Append(Debian, token)
  BY DEF Rootfs, Built
<1> HIDE DEF Token, token
<1>4. /\ Append(Debian, token) \in Seq(Token) /\ Len(Append(Debian, token)) = 2
      /\ Append(Debian, token)[2] = token /\ SubSeq(Append(Debian, token), 1, 1) = Debian
  <2>1. Debian \in Seq(Token) /\ Append(Debian, token) \in Seq(Token)
    BY <1>1, <1>2, <1>3
  <2>2. Len(Append(Debian, token)) = 2 /\ Append(Debian, token)[2] = token
    BY <2>1, <1>1, <1>2, AppendProperties
  <2>3. SubSeq(Append(Debian, token), 1, Len(Debian)) = Debian
    BY <2>1, <1>2
  <2> QED BY <2>1, <2>2, <2>3, <1>1
<1>5. \A i \in 1..1 : i = 1
  OBVIOUS
<1> QED BY <1>1, <1>2, <1>3, <1>4, <1>5 DEF Follows

\* Builds and cleans idle, or away: nothing but tags, blobs and records.
Quiet ==
  /\ snapshots = <<>> /\ unpacked = <<>> /\ faults \in 0..MaxFaults
  /\ context = Whole(0) /\ disturbed = {}
  /\ building = {} /\ reclaiming = NoProc
  /\ pc \in [Procs -> {"idle", "away"}] /\ job = [p \in Procs |-> NoJob]

LEMMA QuietStart ==
  ASSUME Quiet, BlobsTyped, TagsTyped, RecordsTyped
  PROVE  /\ Typing /\ LocksOK /\ BlobsOK /\ ReclaimOK
         /\ AllKeyed /\ (\A b \in Builders : JobOK(b, {})) /\ SnapshotsHonest({}) /\ RunningHonest
<1> USE DEF Quiet
<1>1. SnapshotsTyped /\ SnapshotsHonest({})
  BY DEF SnapshotsTyped, SnapshotsHonest
<1>2. UnpackedTyped
  BY DEF UnpackedTyped
<1>3. LocksTyped
  BY BoundsAssumption DEF LocksTyped, Whole
<1>4. \A p \in Procs : pc[p] \in {"idle", "away"}
  OBVIOUS
<1>5. PlacesTyped
  <2>1. <<>> \in Seq(0..2)
    OBVIOUS
  <2>2. NoJob \in Locals /\ NoJob.keyed = <<>> /\ NoJob.seen = <<>>
    BY <2>1, NullTyped DEF NoJob, Locals
  <2> QED BY <1>4, <2>2 DEF PlacesTyped, LocalsOK, Procs
<1>6. LocksOK
  BY <1>4, ProcsAssumption DEF LocksOK, LockOf, Sharing, Procs
<1>7. BlobsOK
  BY <1>4 DEF BlobsOK, BlobsOf, UsingBase, Procs
<1>8. ReclaimOK
  BY <1>4 DEF ReclaimOK, Untouched, Procs
<1>9. AllKeyed
  BY <1>4 DEF AllKeyed, KeyedOK, Sharing, Filled, Procs, NoJob
<1>10. \A b \in Builders : JobOK(b, {})
  BY <1>4 DEF JobOK, Sharing, Finished, Procs
<1>11. RunningHonest
  BY <1>4 DEF RunningHonest, Procs
<1> QED BY <1>1, <1>2, <1>3, <1>5, <1>6, <1>7, <1>8, <1>9, <1>10, <1>11 DEF Typing

LEMMA StoreStart ==
  ASSUME Init
  PROVE  Typing /\ LocksOK /\ BlobsOK /\ Complete(Names \cup References) /\ ReclaimOK /\ HonestInv
<1>1. Quiet
  <2>1. PICK situation \in Situations :
          /\ pc = [p \in Procs |-> IF p \in situation.present THEN "idle" ELSE "away"]
          /\ faults = MaxFaults - situation.faults
    BY DEF Init
  <2>2. situation.faults \in 0..MaxFaults
    BY SituationsAssumption
  <2>3. faults \in 0..MaxFaults
    BY <2>1, <2>2, BoundsAssumption
  <2> QED BY <2>1, <2>3 DEF Init, Quiet
<1>2. \A d : Parts(d) = {<<d, "index">>, <<d, "layer">>}
  BY DEF Parts
<1>3. CASE Empty
  <2>1. BlobsTyped /\ TagsTyped /\ RecordsTyped /\ TagsHonest({}) /\ RecordsHonest({}) /\ Complete(Names \cup References)
    BY <1>3 DEF Empty, BlobsTyped, TagsTyped, RecordsTyped, TagsHonest, RecordsHonest, Complete
  <2> QED BY <1>1, <2>1, QuietStart DEF HonestInv, HonestBut, Quiet
<1>4. CASE Left
  <2>1. /\ DOMAIN tags = {"debian", "claude"} /\ tags["debian"] = Debian /\ tags["claude"] = Built(2)
    BY <1>4 DEF Left
  <2>2. blobs = Parts(Debian) \cup Parts(Built(2)) \cup {<<Built(1), "index">>}
    BY <1>4 DEF Left
  <2>3. records = [k \in {<<Debian, 1, 1, Whole(1), "image">>} |-> Built(1)]
    BY <1>4 DEF Left
  <2>4. Built(1) \in Rootfs /\ Built(2) \in Rootfs /\ Debian \in Rootfs
    BY BuiltTyped, NullTyped
  <2>5. BlobsTyped
    BY <2>2, <2>4, <1>2 DEF BlobsTyped, Digests
  <2>6. TagsTyped
    BY <2>1, <2>4 DEF TagsTyped, Digests, Names
  <2>7. RecordsTyped
    BY <2>3, <2>4 DEF RecordsTyped
  <2>8. Complete(Names \cup References)
    BY <2>1, <2>2 DEF Complete, Holds
  <2>9. TagsHonest({})
    <3>1. MadeBy(Built(2), 1, {}) /\ Built(2) # <<>>
      <4>1. Follows(Built(2), Debian, 1, 1, {Whole(2)} \cap Releases, {})
        BY BuiltTyped
      <4> QED BY <4>1, <2>4, NullTyped, WholeImage
    <3> QED BY <2>1, <3>1, NullTyped, PlansAre DEF TagsHonest
  <2>10. RecordsHonest({})
    <3> DEFINE k == <<Debian, 1, 1, Whole(1), "image">>
    <3>1. k[1] = Debian /\ k[2] = 1 /\ k[3] = 1 /\ k[4] = Whole(1)
      OBVIOUS
    <3>2. DOMAIN records = {k} /\ records[k] = Built(1)
      BY <2>3
    <3> HIDE DEF k
    <3>3. Follows(records[k], k[1], k[2], k[3], {k[4]} \cap Releases, {})
      BY <3>1, <3>2, BuiltTyped
    <3> QED BY <3>2, <3>3 DEF RecordsHonest
  <2> QED BY <1>1, <2>5, <2>6, <2>7, <2>8, <2>9, <2>10, QuietStart DEF HonestInv, HonestBut, Quiet
<1> QED BY <1>3, <1>4 DEF Init

-----------------------------------------------------------------------------
(* The store without provisioning.                                         *)

LEMMA StoreKept ==
  ASSUME Typing, LocksOK, BlobsOK, Complete(Names \cup References), [Next]_vars
  PROVE  Typing' /\ LocksOK' /\ BlobsOK' /\ Complete(Names \cup References)'
BY TypingKept, LocksKept, BlobsKept

LEMMA HonestWider ==
  ASSUME NEW X, X \subseteq disturbed', HonestBut(X)'
  PROVE  HonestBut(disturbed)'
<1>1. ASSUME NEW b \in Builders
      PROVE  JobOK(b, disturbed)'
  <2>1. JobOK(b, X)'
    BY DEF HonestBut
  <2> QED BY <2>1, FollowsWider DEF JobOK
<1>2. TagsHonest(disturbed)'
  <2>1. TagsHonest(X)'
    BY DEF HonestBut
  <2> QED BY <2>1, FollowsWider DEF TagsHonest, MadeBy
<1>3. SnapshotsHonest(disturbed)'
  <2>1. SnapshotsHonest(X)'
    BY DEF HonestBut
  <2> QED BY <2>1, FollowsWider DEF SnapshotsHonest
<1>4. RecordsHonest(disturbed)'
  <2>1. RecordsHonest(X)'
    BY DEF HonestBut
  <2> QED BY <2>1, FollowsWider DEF RecordsHonest
<1> QED BY <1>1, <1>2, <1>3, <1>4 DEF HonestBut

\* What was disturbed stays so.
LEMMA DisturbedGrows ==
  ASSUME Typing, [Next]_vars
  PROVE  disturbed \subseteq disturbed'
<1>1. ASSUME NEW b \in Builders, Truncate(b) \/ Fill(b)
      PROVE  disturbed \subseteq disturbed'
  BY <1>1, TruncateMoves, FillMoves, WritesMoves, VersionIs
<1>2. ASSUME NEW b \in Builders, Build(b), ~Truncate(b), ~Fill(b)
      PROVE  disturbed' = disturbed
  BY <1>2 DEF Build, Keys, LockShared, Pull, TagPulled, Look, Restore, Unpack, CopyScript, Step, StepKept, Ingest,
       Tag, SaveImage, Unlock, Evict, BuildFails, contextVars
<1>3. ASSUME NEW p, Reclaim(p) \/ StartClean(p) \/ Forget(p) \/ Crash(p) \/ Boot(p)
      PROVE  disturbed' = disturbed
  BY <1>3 DEF Reclaim, List, EvictUnpacked, LockExclusive, Delete, StartClean, Forget, Crash, Boot, Get,
       ReadConfig, Extract, Clone, BootFails, contextVars
<1>4. CASE UNCHANGED vars
  BY <1>4 DEF vars, contextVars
<1> QED BY <1>1, <1>2, <1>3, <1>4 DEF Next

LEMMA HonestKept ==
  ASSUME Typing, LocksOK, HonestInv, [Next]_vars
  PROVE  HonestInv'
<1>1. AllKeyed' /\ RunningHonest'
  BY KeyedKept, RunningHonestKept DEF HonestInv
<1>2. PICK X : X = disturbed
  OBVIOUS
<1>3. AllKeyed /\ HonestBut(X)
  BY <1>2 DEF HonestInv
<1>4. TagsHonest(X)' /\ SnapshotsHonest(X)' /\ RecordsHonest(X)' /\ \A b \in Builders : JobOK(b, X)'
  BY <1>2, <1>3, TagsHonestKept, SnapshotsHonestKept, RecordsHonestKept, JobsKept
<1>5. HonestBut(X)'
  BY <1>4 DEF HonestBut
<1>6. HonestBut(disturbed)'
  BY <1>2, <1>5, DisturbedGrows, HonestWider
<1> QED BY <1>1, <1>6 DEF HonestInv

LEMMA HonestCache ==
  ASSUME Typing, HonestInv
  PROVE  CacheHonest
<1>1. ASSUME NEW n \in DOMAIN Plans, Plans[n].tag \in DOMAIN tags
      PROVE  LET d == tags[Plans[n].tag]
                 steps == Len(Plans[n].reads)
             IN Len(d) > steps /\ Follows(d, SubSeq(d, 1, Len(d) - steps), n, steps, Releases, disturbed)
  BY <1>1, PlansAre DEF HonestInv, HonestBut, TagsHonest, MadeBy
<1>2. \A k \in DOMAIN records : Recorded(k) => Follows(records[k], k[1], k[2], k[3], {k[4]}, disturbed)
  <2>1. ASSUME NEW k \in DOMAIN records, Recorded(k)
        PROVE  Follows(records[k], k[1], k[2], k[3], {k[4]}, disturbed)
    <3>1. Follows(records[k], k[1], k[2], k[3], {k[4]} \cap Releases, disturbed)
      BY <2>1 DEF HonestInv, HonestBut, RecordsHonest, Recorded
    <3>2. {k[4]} \cap Releases \subseteq {k[4]}
      OBVIOUS
    <3> QED BY <3>1, <3>2, FollowsWider
  <2> QED BY <2>1
<1>3. \A d \in DOMAIN unpacked : unpacked[d] = d
  BY DEF Typing, UnpackedTyped
<1>4. \A i \in DOMAIN snapshots : LET k == snapshots[i].key IN
        Follows(snapshots[i].rootfs, k[1], k[2], k[3], {k[4]}, disturbed)
  <2>1. ASSUME NEW i \in DOMAIN snapshots, NEW k, k = snapshots[i].key
        PROVE  Follows(snapshots[i].rootfs, k[1], k[2], k[3], {k[4]}, disturbed)
    <3>1. Follows(snapshots[i].rootfs, k[1], k[2], k[3], {k[4]} \cap Releases, disturbed)
      BY <2>1 DEF HonestInv, HonestBut, SnapshotsHonest
    <3>2. {k[4]} \cap Releases \subseteq {k[4]}
      OBVIOUS
    <3> QED BY <3>1, <3>2, FollowsWider
  <2> QED BY <2>1
<1> QED BY <1>1, <1>2, <1>3, <1>4 DEF CacheHonest, HonestInv, RunningHonest

\* A tagged image has all its blobs in the store, whatever builds, boots and
\* cleans run at once and whoever dies: build.rs takes reclaim.lock before it
\* pulls and sweep.rs deletes only what no tag refers to, when it has it alone.
THEOREM TagsKeepBlobs == Spec => []TagsComplete
<1> DEFINE Inv == Typing /\ LocksOK /\ BlobsOK /\ Complete(Names \cup References)
<1>1. Init => Inv
  BY StoreStart
<1>2. Inv /\ [Next]_vars => Inv'
  BY StoreKept
<1>3. Inv => TagsComplete
  BY DEF Typing, TagsTyped, Complete, TagsComplete, Holds
<1> HIDE DEF Inv
<1> QED BY <1>1, <1>2, <1>3, PTL DEF Spec
=============================================================================
