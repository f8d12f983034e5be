------------------------------ MODULE ImageStore ------------------------------
(***************************************************************************)
(* The image store that every compostbin process of a user shares: tags,   *)
(* the blobs they refer to, the build cache (rootfs snapshots and records  *)
(* of finished images) and the unpacked images containers are cloned from. *)
(* `build` (build.rs, provision done), `run` as far as the container's     *)
(* rootfs (mod.rs, unpacked.rs), and `clean` (sweep.rs) work on it at once.*)
(*                                                                         *)
(* A rootfs is the sequence of what was done to it: an image pulled from   *)
(* the registry, then one token per step that ran.  An image's digest is   *)
(* its content, so it is the same sequence.  A key is the digest of what   *)
(* it is made of, so it is the tuple of that.  A file that is written      *)
(* aside and renamed appears in one step; its scratch copy is left out.    *)
(* The guest scripts of the build context are written in place: a script   *)
(* is the release it is of, or 0 while it is absent or cut short.          *)
(***************************************************************************)
EXTENDS Naturals, FiniteSets, Sequences, SequencesExt

CONSTANTS
  Builders,    \* processes running `compostbin build`
  Plain,       \* those of them whose manifest has no [image]: one plan
  Fresh,       \* those of them started with --no-cache
  NewVersion,  \* those of them of the newer release, with other guest scripts
  Booters,     \* processes that may boot a container
  Cleaners,    \* processes that may run `compostbin clean`; one may be in both
  NoProc,      \* no process
  ScriptCount, \* the guest scripts in the build context
  Keep,        \* KEEP, the snapshots that survive a build
  Situations,  \* which processes work at once, and how many faults they may meet
  MaxFaults    \* bound: processes that die, steps and transfers that fail

ASSUME ProcsAssumption ==
  /\ Plain \cup Fresh \subseteq Builders /\ NewVersion \subseteq Builders
  /\ Builders \cap (Booters \cup Cleaners) = {}
  /\ NoProc \notin Builders \cup Booters \cup Cleaners
ASSUME SituationsAssumption ==
  Situations \subseteq [present : SUBSET (Builders \cup Booters \cup Cleaners), faults : 0..MaxFaults]
ASSUME BoundsAssumption == Keep \in Nat /\ MaxFaults \in Nat /\ ScriptCount \in Nat \ {0}

VARIABLES
  blobs,       \* content: <<digest, part>>
  tags,        \* reference -> digest
  snapshots,   \* rootfs snapshots [key, rootfs], the last used first
  records,     \* image records: key -> digest, or Torn
  unpacked,    \* digest -> the rootfs unpacked from it
  context,     \* the guest scripts in the build context
  disturbed,   \* history: builds whose scripts another wrote before they were copied
  building,    \* the builds that share reclaim.lock
  reclaiming,  \* the process that has it to itself
  pc, job,     \* where a process is, and its locals
  faults

storeVars == <<blobs, tags, snapshots, records, unpacked>>
lockVars == <<building, reclaiming>>
contextVars == <<context, disturbed>>
vars == <<storeVars, lockVars, contextVars, pc, job, faults>>

Procs == Builders \cup Booters \cup Cleaners
Version(b) == IF b \in NewVersion THEN 2 ELSE 1
Torn == <<>>
Scripts == 1..ScriptCount
Whole(release) == [s \in Scripts |-> release]
Debian == << <<0, 0, <<>>, NoProc>> >>
Parts(d) == {<<d, "index">>, <<d, "layer">>}

\* In build order; a step is whether its script names the context's mount.
\* A plan's steps are one here: what matters of them is read or not read.
Plans ==
  << [base |-> "debian", tag |-> "claude", reads |-> <<TRUE>>],
     [base |-> "claude", tag |-> "project", reads |-> <<FALSE>>] >>

NoJob ==
  [plan |-> 1, wrote |-> 0, keyed |-> <<>>, base |-> <<>>, start |-> 0, seen |-> <<>>,
   rootfs |-> <<>>, kept |-> {}]

\* An empty store; or one in which an older build was recorded, its image
\* replaced by another release's, and a reclaim of it stopped half way.
Built(release) == Append(Debian, <<1, 1, Whole(release), NoProc>>)
Empty == blobs = {} /\ tags = <<>> /\ records = <<>>
Left ==
  /\ tags = [debian |-> Debian, claude |-> Built(2)]
  /\ blobs = Parts(Debian) \cup Parts(Built(2)) \cup {<<Built(1), "index">>}
  /\ records = [k \in {<<Debian, 1, 1, Whole(1), "image">>} |-> Built(1)]

Init ==
  /\ Empty \/ Left
  /\ snapshots = <<>> /\ unpacked = <<>>
  /\ context = Whole(0) /\ disturbed = {}
  /\ building = {} /\ reclaiming = NoProc
  /\ \E situation \in Situations :
       /\ pc = [p \in Procs |-> IF p \in situation.present THEN "idle" ELSE "away"]
       /\ faults = MaxFaults - situation.faults
  /\ job = [p \in Procs |-> NoJob]

Fault == faults < MaxFaults /\ faults' = faults + 1
Goto(p, label) == pc' = [pc EXCEPT ![p] = label]
Set(p, field, value) == job' = [job EXCEPT ![p][field] = value]
\* The next plan, or nothing, and its locals.
Begin(p, plan) == job' = [job EXCEPT ![p] = [NoJob EXCEPT !.plan = plan]]
Plan(p) == Plans[job[p].plan]
Put(map, k, v) == [x \in DOMAIN map \cup {k} |-> IF x = k THEN v ELSE map[x]]
Only(map, S) == [x \in DOMAIN map \cap S |-> map[x]]

--------------------------------------------------------------------------
(* Keys, snapshots and records.                                            *)

\* The key after step i (0: before any): the base's digest, the steps, and the
\* context's contents once a step read them.
StepKey(p, i) ==
  <<job[p].base, job[p].plan, i,
    IF \E j \in 1..i : Plan(p).reads[j] THEN job[p].keyed ELSE <<>> >>
ImageKey(p) == Append(StepKey(p, Len(Plan(p).reads)), "image")

Held == {snapshots[i].key : i \in DOMAIN snapshots}
Place(key) == CHOOSE i \in DOMAIN snapshots : snapshots[i].key = key
Found(key) == snapshots[Place(key)]
HoldsRootfs(p, i) == StepKey(p, i) \in Held

\* Used now, so the first of entries(): restore, and save_rootfs of a key that exists.
Touched(key) == <<Found(key)>> \o RemoveAt(snapshots, Place(key))

SaveRootfs(rootfs, key) ==
  \/ /\ key \in Held /\ snapshots' = Touched(key)
     /\ UNCHANGED faults
  \/ /\ key \notin Held /\ snapshots' = <<[key |-> key, rootfs |-> rootfs]>> \o snapshots
     /\ UNCHANGED faults
  \/ /\ key \notin Held /\ UNCHANGED snapshots          \* a failed save is only noted
     /\ Fault

\* The record names an image, and every blob of the image is there.
Recorded(key) == key \in DOMAIN records /\ records[key] # Torn
\* Mutant: only the index is looked for.
HoldsIndex(d) == <<d, "index">> \in blobs

Holds(d) == Parts(d) \subseteq blobs

--------------------------------------------------------------------------
(* build *)

ReadsContext(b) == \E i \in DOMAIN Plan(b).reads : Plan(b).reads[i]

\* It has begun to write the scripts, and the step that copies them is not over.
Copies(b) ==
  ReadsContext(b) /\ pc[b] \in {"truncating", "filling", "keying", "locking", "pulling", "tagging",
                                "looking", "restoring", "unpacking", "stepping"}

Writes(b, script, content) ==
  /\ context' = [context EXCEPT ![script] = content]
  /\ disturbed' = disturbed \cup {c \in Builders \ {b} : Copies(c)}

\* image::build's plans writes the scripts one by one, each in place, whoever
\* else builds.
Truncate(b) ==
  /\ pc[b] \in {"idle", "truncating"}
  /\ Writes(b, job[b].wrote + 1, 0)
  /\ Goto(b, "filling")
  /\ UNCHANGED <<storeVars, lockVars, job, faults>>

Fill(b) ==
  /\ pc[b] = "filling"
  /\ Writes(b, job[b].wrote + 1, Version(b))
  /\ Set(b, "wrote", job[b].wrote + 1)
  /\ Goto(b, IF job'[b].wrote = ScriptCount THEN "keying" ELSE "truncating")
  /\ UNCHANGED <<storeVars, lockVars, faults>>

\* cache::keys, before any lock, digests the context script by script if a step
\* of the plan reads it.
Keys(b) ==
  /\ pc[b] = "keying"
  /\ \/ /\ ReadsContext(b)
        /\ Set(b, "keyed", Append(job[b].keyed, context[Len(job[b].keyed) + 1]))
        /\ Goto(b, IF Len(job'[b].keyed) = ScriptCount THEN "locking" ELSE "keying")
     \/ ~ReadsContext(b) /\ Goto(b, "locking") /\ UNCHANGED job
  /\ UNCHANGED <<storeVars, lockVars, contextVars, faults>>

\* Mutant: the lock is dropped at once, before the pull.
LockNothing(b) ==
  /\ pc[b] = "locking" /\ reclaiming = NoProc
  /\ Goto(b, "pulling")
  /\ UNCHANGED <<storeVars, lockVars, contextVars, job, faults>>

\* sweep::building: waits while blobs are reclaimed.
LockShared(b) ==
  /\ pc[b] = "locking" /\ reclaiming = NoProc
  /\ building' = building \cup {b}
  /\ Goto(b, "pulling")
  /\ UNCHANGED <<storeVars, reclaiming, contextVars, job, faults>>

\* pulled: what is tagged is not pulled again; only the base is in a registry.
Pull(b) ==
  /\ pc[b] = "pulling"
  /\ LET base == Plan(b).base IN
     \/ /\ base \in DOMAIN tags
        /\ Set(b, "base", tags[base]) /\ Goto(b, "looking")
        /\ UNCHANGED blobs
     \/ /\ base \notin DOMAIN tags /\ base = "debian"
        /\ blobs' = blobs \cup Parts(Debian)
        /\ Set(b, "base", Debian) /\ Goto(b, "tagging")
  /\ UNCHANGED <<tags, snapshots, records, unpacked, lockVars, contextVars, faults>>

TagPulled(b) ==
  /\ pc[b] = "tagging"
  /\ tags' = Put(tags, Plan(b).base, job[b].base)
  /\ Goto(b, "looking")
  /\ UNCHANGED <<blobs, snapshots, records, unpacked, lockVars, contextVars, job, faults>>

\* build: a recorded image whose blobs are all there is only tagged again.
UseRecord(b) == b \notin Fresh /\ Recorded(ImageKey(b)) /\ Holds(records[ImageKey(b)])

\* Else prepare finds the last snapshot, or the base's, or none.
Look(b) ==
  /\ pc[b] = "looking"
  /\ LET cached == {i \in 0..Len(Plan(b).reads) : b \notin Fresh /\ HoldsRootfs(b, i)}
     IN \/ /\ UseRecord(b)
           /\ Set(b, "rootfs", records[ImageKey(b)]) /\ Goto(b, "retagging")
        \/ /\ ~UseRecord(b) /\ cached # {}
           /\ Set(b, "start", CHOOSE i \in cached : \A j \in cached : j <= i)
           /\ Goto(b, "restoring")
        \/ /\ ~UseRecord(b) /\ cached = {}
           /\ Goto(b, "unpacking") /\ UNCHANGED job
  /\ UNCHANGED <<storeVars, lockVars, contextVars, faults>>

NextStep(b, done) == IF done = Len(Plan(b).reads) THEN "ingesting" ELSE "stepping"

\* Snapshots::restore; another build's evict may have been there first.
Restore(b) ==
  /\ pc[b] = "restoring" /\ HoldsRootfs(b, job[b].start)
  /\ LET key == StepKey(b, job[b].start) IN
     /\ Set(b, "rootfs", Found(key).rootfs)
     /\ snapshots' = Touched(key)
  /\ Goto(b, NextStep(b, job[b].start))
  /\ UNCHANGED <<blobs, tags, records, unpacked, lockVars, contextVars, faults>>

Unpack(b) ==
  /\ pc[b] = "unpacking" /\ Holds(job[b].base)
  /\ job' = [job EXCEPT ![b].rootfs = job[b].base, ![b].start = 0]
  /\ SaveRootfs(job[b].base, StepKey(b, 0))
  /\ Goto(b, NextStep(b, 0))
  /\ UNCHANGED <<blobs, tags, records, unpacked, lockVars, contextVars>>

\* Builder::run: the step's script copies the context's as they are now, one by
\* one.
CopyScript(b) ==
  /\ pc[b] = "stepping" /\ Plan(b).reads[job[b].start + 1] /\ Len(job[b].seen) < ScriptCount
  /\ Set(b, "seen", Append(job[b].seen, context[Len(job[b].seen) + 1]))
  /\ Goto(b, "stepping")
  /\ UNCHANGED <<storeVars, lockVars, contextVars, faults>>

Copied(b) == Plan(b).reads[job[b].start + 1] => Len(job[b].seen) = ScriptCount

\* What step i leaves, kept under a key, unless the snapshot cannot be taken.
StepKept(b, i, key) ==
  LET rootfs == Append(job[b].rootfs, <<job[b].plan, i, job[b].seen, b>>)
  IN /\ job' = [job EXCEPT ![b].rootfs = rootfs, ![b].start = i, ![b].seen = <<>>]
     /\ SaveRootfs(rootfs, key)
     /\ Goto(b, NextStep(b, i))
     /\ UNCHANGED <<blobs, tags, records, unpacked, lockVars, contextVars>>

\* Mutant: the snapshot goes under the key of the step before.
StepUnderLastKey(b) ==
  /\ pc[b] = "stepping" /\ Copied(b)
  /\ StepKept(b, job[b].start + 1, StepKey(b, job[b].start))

Step(b) ==
  /\ pc[b] = "stepping" /\ Copied(b)
  /\ StepKept(b, job[b].start + 1, StepKey(b, job[b].start + 1))

Ingest(b) ==
  /\ pc[b] = "ingesting"
  /\ blobs' = blobs \cup Parts(job[b].rootfs)
  /\ Goto(b, "storing")
  /\ UNCHANGED <<tags, snapshots, records, unpacked, lockVars, contextVars, job, faults>>

\* images.create: the tag moves to the new image.
Tag(b) ==
  /\ pc[b] \in {"storing", "retagging"}
  /\ tags' = Put(tags, Plan(b).tag, job[b].rootfs)
  /\ Goto(b, IF pc[b] = "storing" THEN "saving" ELSE "releasing")
  /\ UNCHANGED <<blobs, snapshots, records, unpacked, lockVars, contextVars, job, faults>>

\* save_image writes in place: cut short first, whole later; or it fails.
SaveImage(b) ==
  /\ \/ /\ pc[b] = "saving"
        /\ records' = Put(records, ImageKey(b), Torn)
        /\ Goto(b, "writing") /\ UNCHANGED faults
     \/ /\ pc[b] = "writing"
        /\ records' = Put(records, ImageKey(b), job[b].rootfs)
        /\ Goto(b, "releasing") /\ UNCHANGED faults
     \/ /\ pc[b] \in {"saving", "writing"}
        /\ UNCHANGED records /\ Goto(b, "releasing") /\ Fault
  /\ UNCHANGED <<blobs, tags, snapshots, unpacked, lockVars, contextVars, job>>

\* Mutant: the lock is still held when blobs are reclaimed.
UnlockLate(b) ==
  /\ pc[b] = "releasing"
  /\ Goto(b, "listing")
  /\ UNCHANGED <<storeVars, lockVars, contextVars, job, faults>>

Unlock(b) ==
  /\ pc[b] = "releasing"
  /\ building' = building \ {b}
  /\ Goto(b, "listing")
  /\ UNCHANGED <<storeVars, reclaiming, contextVars, job, faults>>

\* Snapshots::evict: the last used are left.  Nothing grows as old as KEEP_FOR
\* here.  Then the next plan.
Evict(b) ==
  /\ pc[b] = "evicting"
  /\ snapshots' = SubSeq(snapshots, 1, IF Keep < Len(snapshots) THEN Keep ELSE Len(snapshots))
  /\ IF b \notin Plain /\ job[b].plan < Len(Plans)
       THEN Begin(b, job[b].plan + 1) /\ Goto(b, "keying")
       ELSE Begin(b, job[b].plan) /\ Goto(b, "done")
  /\ UNCHANGED <<blobs, tags, records, unpacked, lockVars, contextVars, faults>>

\* Every error of build drops the lock and returns; nothing is reclaimed.  A
\* script that changes while it is digested is one.
BuildFails(b) ==
  /\ \/ /\ pc[b] \in {"truncating", "filling", "pulling", "stepping", "ingesting"} /\ Fault
     \/ pc[b] = "keying" /\ ReadsContext(b) /\ b \in disturbed /\ UNCHANGED faults
     \/ pc[b] = "restoring" /\ ~HoldsRootfs(b, job[b].start) /\ UNCHANGED faults
     \/ pc[b] = "unpacking" /\ ~Holds(job[b].base) /\ UNCHANGED faults
  /\ building' = building \ {b}
  /\ Begin(b, job[b].plan) /\ Goto(b, "failed")
  /\ UNCHANGED <<storeVars, reclaiming, contextVars>>

--------------------------------------------------------------------------
(* sweep::reclaim, of a build that ends and of `clean`.                     *)

StartClean(c) ==
  /\ pc[c] = "idle"
  /\ Goto(c, "listing")
  /\ UNCHANGED <<storeVars, lockVars, contextVars, job, faults>>

List(p) ==
  /\ pc[p] = "listing"
  /\ Set(p, "kept", {tags[t] : t \in DOMAIN tags})
  /\ Goto(p, "dropping")
  /\ UNCHANGED <<storeVars, lockVars, contextVars, faults>>

\* Unpacked::evict, outside the lock.
EvictUnpacked(p) ==
  /\ pc[p] = "dropping"
  /\ unpacked' = Only(unpacked, job[p].kept)
  /\ Begin(p, job[p].plan) /\ Goto(p, "reclaiming")
  /\ UNCHANGED <<blobs, tags, snapshots, records, lockVars, contextVars, faults>>

AfterReclaim(p) == IF p \in Builders THEN "evicting" ELSE "forgetting"

\* Mutant: a lock that would block counts as taken.
LockAnyway(p) ==
  /\ pc[p] = "reclaiming"
  /\ reclaiming' = p /\ Goto(p, "deleting")
  /\ UNCHANGED <<storeVars, building, contextVars, job, faults>>

\* try_lock: a build that runs, or another reclaim, leaves the blobs alone.
LockExclusive(p) ==
  /\ pc[p] = "reclaiming"
  /\ \/ /\ building = {} /\ reclaiming = NoProc
        /\ reclaiming' = p /\ Goto(p, "deleting")
     \/ /\ building # {} \/ reclaiming # NoProc
        /\ Goto(p, AfterReclaim(p)) /\ UNCHANGED reclaiming
  /\ UNCHANGED <<storeVars, building, contextVars, job, faults>>

Referenced == UNION {Parts(tags[t]) : t \in DOMAIN tags}

\* clean_up_orphaned_blobs.
Delete(p) ==
  /\ pc[p] = "deleting"
  /\ blobs' = blobs \cap Referenced
  /\ reclaiming' = NoProc
  /\ Goto(p, AfterReclaim(p))
  /\ UNCHANGED <<tags, snapshots, records, unpacked, building, contextVars, job, faults>>

\* forget_images: a record that cannot be read may be in the writing.
Forget(c) ==
  /\ pc[c] = "forgetting"
  /\ records' = Only(records, {k \in DOMAIN records : Recorded(k) => Holds(records[k])})
  /\ Goto(c, "done")
  /\ UNCHANGED <<blobs, tags, snapshots, unpacked, lockVars, contextVars, job, faults>>

--------------------------------------------------------------------------
(* boot, as far as the rootfs; it takes no lock.                            *)

Get(s) ==
  /\ pc[s] = "idle" /\ "claude" \in DOMAIN tags
  /\ Set(s, "base", tags["claude"])
  /\ Goto(s, "reading")
  /\ UNCHANGED <<storeVars, lockVars, contextVars, faults>>

ReadConfig(s) ==
  /\ pc[s] = "reading" /\ <<job[s].base, "index">> \in blobs
  /\ Goto(s, IF job[s].base \in DOMAIN unpacked THEN "cloning" ELSE "extracting")
  /\ UNCHANGED <<storeVars, lockVars, contextVars, job, faults>>

\* Unpacked::unpack; settle: an equal copy may be there by now.
Extract(s) ==
  /\ pc[s] = "extracting" /\ Holds(job[s].base)
  /\ unpacked' = Put(unpacked, job[s].base, job[s].base)
  /\ Goto(s, "cloning")
  /\ UNCHANGED <<blobs, tags, snapshots, records, lockVars, contextVars, job, faults>>

Clone(s) ==
  /\ pc[s] = "cloning" /\ job[s].base \in DOMAIN unpacked
  /\ Set(s, "rootfs", unpacked[job[s].base])
  /\ Goto(s, "running")
  /\ UNCHANGED <<storeVars, lockVars, contextVars, faults>>

BootFails(s) ==
  /\ \/ pc[s] = "reading" /\ <<job[s].base, "index">> \notin blobs
     \/ pc[s] = "extracting" /\ ~Holds(job[s].base)
     \/ pc[s] = "cloning" /\ job[s].base \notin DOMAIN unpacked
  /\ Goto(s, "failed")
  /\ UNCHANGED <<storeVars, lockVars, contextVars, job, faults>>

--------------------------------------------------------------------------
\* A process dies: the kernel drops its locks, and a reclaim stops half way.
\* Without a lock its death is only that it takes no more steps.
Crash(p) ==
  /\ p \in building \/ p = reclaiming
  /\ Fault
  /\ building' = building \ {p}
  /\ reclaiming' = IF reclaiming = p THEN NoProc ELSE reclaiming
  /\ IF pc[p] = "deleting"
       THEN \E S \in SUBSET (blobs \ Referenced) : blobs' = blobs \ S
       ELSE UNCHANGED blobs
  /\ Begin(p, job[p].plan) /\ Goto(p, "failed")
  /\ UNCHANGED <<tags, snapshots, records, unpacked, contextVars>>

Build(b) ==
  \/ Truncate(b) \/ Fill(b) \/ Keys(b) \/ LockShared(b) \/ Pull(b) \/ TagPulled(b)
  \/ Look(b) \/ Restore(b) \/ Unpack(b) \/ CopyScript(b) \/ Step(b) \/ Ingest(b)
  \/ Tag(b) \/ SaveImage(b) \/ Unlock(b) \/ Evict(b) \/ BuildFails(b)
Reclaim(p) == List(p) \/ EvictUnpacked(p) \/ LockExclusive(p) \/ Delete(p)
Boot(s) == Get(s) \/ ReadConfig(s) \/ Extract(s) \/ Clone(s) \/ BootFails(s)

Next ==
  \/ \E b \in Builders : Build(b)
  \/ \E c \in Cleaners : StartClean(c) \/ Forget(c)
  \/ \E p \in Builders \cup Cleaners : Reclaim(p)
  \/ \E s \in Booters : Boot(s)
  \/ \E p \in Builders \cup Cleaners : Crash(p)

Spec == Init /\ [][Next]_vars

--------------------------------------------------------------------------
(* Properties *)

Rootfs == Seq((0..2) \X (0..2) \X Seq(0..2) \X (Builders \cup {NoProc}))
\* Beside the types: the lock is shared by the builds between taking and dropping
\* it, however they leave, or it is one reclaim's while it deletes.
Sharing == {"pulling", "tagging", "looking", "restoring", "unpacking", "stepping",
            "ingesting", "storing", "saving", "writing", "retagging", "releasing"}
TypeOver(references, digests) ==
  /\ \A blob \in blobs : blob[1] \in digests /\ blob[2] \in {"index", "layer"}
  /\ DOMAIN tags \subseteq references
  /\ \A t \in DOMAIN tags : tags[t] \in digests
  /\ \A d \in DOMAIN unpacked : d \in digests
  /\ context \in [Scripts -> 0..2] /\ disturbed \subseteq Builders
  /\ building = {b \in Builders : pc[b] \in Sharing}
  /\ \A p \in Procs : pc[p] = "deleting" <=> reclaiming = p
  /\ reclaiming # NoProc => building = {}
  /\ faults \in 0..MaxFaults
  /\ \A p \in Procs : job[p].plan \in DOMAIN Plans /\ job[p].rootfs \in Rootfs
TypeOK == TypeOver({"debian", "claude", "project"}, Rootfs)

\* Every blob of a tagged image is in the store, whatever was reclaimed
\* meanwhile and whoever died at it (sweep.rs: a build's blobs are
\* unreferenced until it tags its image; build.rs 54-59: a record's may be gone).
TagsComplete == \A t \in DOMAIN tags : Parts(tags[t]) \subseteq blobs

\* The base a build works on keeps its blobs from the pull to the end of the
\* build, though another build may move the base's tag (build.rs 37-38).
UsingBase == {"tagging", "looking", "unpacking", "restoring", "stepping", "ingesting", "storing"}
BasesHeld == \A b \in Builders : pc[b] \in UsingBase => Parts(job[b].base) \subseteq blobs

\* What a rootfs must be to be kept under a key: the base, then each step of
\* the plan once and in order, the context read being one keyed, except by an
\* excused build.
Follows(rootfs, base, plan, n, keyed, excused) ==
  /\ Len(rootfs) = Len(base) + n
  /\ SubSeq(rootfs, 1, Len(base)) = base
  /\ \A i \in 1..n : LET token == rootfs[Len(base) + i] IN
       /\ token[1] = plan /\ token[2] = i
       /\ Plans[plan].reads[i] => token[3] \in keyed \/ token[4] \in excused

Releases == {Whole(1), Whole(2)}

\* Everything the store keeps under a name is what the name says: a tag names
\* a finished image, its base with every step of its plan, each once and in
\* order, whether they ran, were restored or were found in a record; snapshots
\* and readable image records hold the steps of their key, none cut short by
\* a failed step, a crash or another build's eviction; an unpacked entry is
\* the whole of its image, which is what containers run.  The scripts a step
\* copied are those its key was made of, whole and of one release, also in
\* what other builds restored: except of a build during which another wrote
\* the scripts (plans writes them in place, before any lock).
CacheHonest ==
  /\ \A n \in DOMAIN Plans : Plans[n].tag \in DOMAIN tags =>
       LET d == tags[Plans[n].tag]
           steps == Len(Plans[n].reads)
       IN Len(d) > steps /\ Follows(d, SubSeq(d, 1, Len(d) - steps), n, steps, Releases, disturbed)
  /\ \A i \in DOMAIN snapshots : LET k == snapshots[i].key IN
       Follows(snapshots[i].rootfs, k[1], k[2], k[3], {k[4]}, disturbed)
  /\ \A k \in DOMAIN records :
       Recorded(k) => Follows(records[k], k[1], k[2], k[3], {k[4]}, disturbed)
  /\ \A d \in DOMAIN unpacked : unpacked[d] = d
  /\ \A s \in Booters : pc[s] = "running" => job[s].rootfs = job[s].base

\* Once nothing runs, and nothing died or failed, no unreferenced blob is left:
\* of builds that end together, which skip the reclaim while another has
\* the lock, one still does it after the last tag (build.rs 101-102).
NothingLeftBehind ==
  ((\A p \in Builders \cup Cleaners : pc[p] \in {"away", "idle", "done"}) /\ \E b \in Builders : pc[b] = "done")
    => blobs \subseteq Referenced
=============================================================================
