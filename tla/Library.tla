------------------------------ MODULE Library ------------------------------
(***************************************************************************)
(* The image store with its kernels and init images: what `provision` does *)
(* before a build, by processes of several releases that pin different     *)
(* versions of both, while `clean` may run (provision.rs, store.rs).       *)
(*                                                                         *)
(* It composes with the ImageStore in one of two situations, which Init    *)
(* picks: builds, a boot and a clean in a provisioned store, or processes  *)
(* that provision it and a clean.  An init image's reference is its tag,   *)
(* the text of its version.  A process that dies takes no more steps.      *)
(***************************************************************************)
EXTENDS ImageStore

CONSTANTS
  Provisioners,  \* processes, each of a release
  Pin,           \* the versions its release pins: [kernel, initfs], texts
  Number         \* the numbers of a text that is a dotted release number

ASSUME NumberAssumption == \A version \in DOMAIN Number : Number[version] \in Seq(Nat)
ASSUME PinsAssumption ==
  \A p \in Provisioners :
    DOMAIN Pin[p] = {"kernel", "initfs"} /\ \A kind \in DOMAIN Pin[p] : Pin[p][kind] \in DOMAIN Number

VARIABLES
  files,  \* the kernels and init file systems in place: <<kind, version>>
  stage,  \* where a process is
  older,  \* what it found to retire
  caught  \* history: the init images a reclaim took before they were tagged

fileVars == <<files, stage, older>>
libraryVars == <<vars, fileVars, caught>>

Pins(p) == {<<kind, Pin[p][kind]>> : kind \in {"kernel", "initfs"}}
Initfs(p) == <<"initfs", Pin[p].initfs>>
Kernel(p) == <<"kernel", Pin[p].kernel>>
References == {Pin[p].initfs : p \in Provisioners}
\* An init image's reference is no reference of a plan's.
ASSUME ReferencesAssumption == {"debian", "claude", "project"} \cap References = {}
InitImage(version) == << <<0, 0, <<>>, version>> >>

\* A store nothing provisioned, or one that a release did.
InitProvision ==
  /\ \/ blobs = {} /\ tags = <<>> /\ files = {}
     \/ \E p \in Provisioners :
          /\ tags = [version \in {Pin[p].initfs} |-> InitImage(version)]
          /\ blobs = Parts(InitImage(Pin[p].initfs))
          /\ files = Pins(p)
  /\ snapshots = <<>> /\ records = <<>> /\ unpacked = <<>>
  /\ context = Whole(0) /\ disturbed = {} /\ building = {} /\ reclaiming = NoProc /\ faults = 0
  /\ pc = [p \in Procs |-> IF p \in Cleaners THEN "idle" ELSE "away"]
  /\ job = [p \in Procs |-> NoJob]
  /\ stage = [p \in Provisioners |-> "provisioning"]

LibraryInit ==
  /\ \/ InitProvision
     \/ Init /\ files = {} /\ stage = [p \in Provisioners |-> "away"]
  /\ older = [p \in Provisioners |-> {}]
  /\ caught = {}

To(p, label) == stage' = [stage EXCEPT ![p] = label]

-----------------------------------------------------------------------------
\* A release number without the zeros it ends in.
Trimmed(number) ==
  LET last == {i \in DOMAIN number : number[i] # 0}
  IN SubSeq(number, 1, IF last = {} THEN 0 ELSE CHOOSE i \in last : \A j \in last : j <= i)

Before(m, n) ==
  \E i \in DOMAIN n : /\ i <= Len(m) + 1
                      /\ SubSeq(m, 1, i - 1) = SubSeq(n, 1, i - 1)
                      /\ i <= Len(m) => m[i] < n[i]

\* Mutant: 0.10 is older than 0.10.0.
IsOlderUntrimmed(version, than) ==
  {version, than} \subseteq DOMAIN Number /\ Before(Number[version], Number[than])

\* False unless both are release numbers.
IsOlder(version, than) ==
  {version, than} \subseteq DOMAIN Number /\ Before(Trimmed(Number[version]), Trimmed(Number[than]))

RetiredFiles(p) == {file \in files : IsOlder(file[2], Pin[p][file[1]])}
RetiredImages(p) ==
  {image \in {<<"image", reference>> : reference \in DOMAIN tags} : IsOlder(image[2], Pin[p].initfs)}

-----------------------------------------------------------------------------
(* provision *)

\* kernel: one of its version is taken as it is.
LookForKernel(p) ==
  /\ stage[p] = "provisioning"
  /\ To(p, IF Kernel(p) \in files THEN "looking" ELSE "fetching")
  /\ UNCHANGED <<vars, files, older>>

\* It is downloaded and unpacked aside, then moved, whatever is there now.
MoveKernel(p) ==
  /\ stage[p] = "fetching"
  /\ files' = files \cup {Kernel(p)}
  /\ To(p, "looking")
  /\ UNCHANGED <<vars, older>>

LookForInitfs(p) ==
  /\ stage[p] = "looking"
  /\ To(p, IF Initfs(p) \in files THEN "retiring" ELSE "pulling")
  /\ UNCHANGED <<vars, files, older>>

\* get_init_image: the image tagged, or one pulled.  No lock is held.
GetInitImage(p) ==
  /\ stage[p] = "pulling"
  /\ LET tagged == Pin[p].initfs \in DOMAIN tags
     IN /\ blobs' = IF tagged THEN blobs ELSE blobs \cup Parts(InitImage(Pin[p].initfs))
        /\ To(p, IF tagged THEN "unpacking" ELSE "tagging")
  /\ UNCHANGED <<tags, snapshots, records, unpacked, lockVars, contextVars, pc, job, faults, files, older>>

\* The pulled image gets its tag, whatever became of its blobs meanwhile.
TagInitImage(p) ==
  /\ stage[p] = "tagging"
  /\ tags' = Put(tags, Pin[p].initfs, InitImage(Pin[p].initfs))
  /\ To(p, "unpacking")
  /\ UNCHANGED <<blobs, snapshots, records, unpacked, lockVars, contextVars, pc, job, faults, files, older>>

\* init_block, then settle: an equal file may be there by now.
UnpackInitfs(p) ==
  /\ stage[p] = "unpacking" /\ Holds(InitImage(Pin[p].initfs))
  /\ files' = files \cup {Initfs(p)}
  /\ To(p, "retiring")
  /\ UNCHANGED <<vars, older>>

\* Nothing is retired then, and nothing built.
ProvisionFails(p) ==
  /\ \/ stage[p] \in {"fetching", "pulling"} /\ Fault
     \/ stage[p] = "unpacking" /\ ~Holds(InitImage(Pin[p].initfs)) /\ UNCHANGED faults
  /\ To(p, "failed")
  /\ UNCHANGED <<storeVars, lockVars, contextVars, pc, job, files, older>>

\* retire lists the files of older versions, then removes them one by one; one
\* that another process removed is only noted.
ListRetired(p) ==
  /\ stage[p] = "retiring"
  /\ older' = [older EXCEPT ![p] = RetiredFiles(p)]
  /\ To(p, "removing")
  /\ UNCHANGED <<vars, files>>

RemoveFile(p) ==
  /\ stage[p] = "removing"
  /\ \E file \in older[p] :
       /\ files' = files \ {file}
       /\ older' = [older EXCEPT ![p] = @ \ {file}]
  /\ UNCHANGED <<vars, stage>>

\* Then the references, whose blobs are left to a reclaim.
ListImages(p) ==
  /\ stage[p] = "removing" /\ older[p] = {}
  /\ older' = [older EXCEPT ![p] = RetiredImages(p)]
  /\ To(p, "untagging")
  /\ UNCHANGED <<vars, files>>

DeleteImage(p) ==
  /\ stage[p] = "untagging"
  /\ \E image \in older[p] :
       /\ tags' = Only(tags, DOMAIN tags \ {image[2]})
       /\ older' = [older EXCEPT ![p] = @ \ {image}]
  /\ UNCHANGED <<blobs, snapshots, records, unpacked, lockVars, contextVars, pc, job, faults, files, stage>>

Provisioned(p) ==
  /\ stage[p] = "untagging" /\ older[p] = {}
  /\ To(p, "provisioned")
  /\ UNCHANGED <<vars, files, older>>

-----------------------------------------------------------------------------
\* select: a session is only started in a store that is ready.
Select(p) ==
  /\ stage[p] = "provisioned"
  /\ To(p, IF Pins(p) \subseteq files THEN "selected" ELSE "unready")
  /\ UNCHANGED <<vars, files, older>>

\* boot opens the kernel and the init file system by name, later.
OpenKernel(p) ==
  /\ stage[p] = "selected"
  /\ To(p, IF Pins(p) \subseteq files THEN "booted" ELSE "lost")
  /\ UNCHANGED <<vars, files, older>>

Provision(p) ==
  \/ LookForKernel(p) \/ MoveKernel(p) \/ LookForInitfs(p) \/ GetInitImage(p)
  \/ TagInitImage(p) \/ UnpackInitfs(p) \/ ProvisionFails(p) \/ ListRetired(p) \/ RemoveFile(p)
  \/ ListImages(p) \/ DeleteImage(p) \/ Provisioned(p) \/ Select(p) \/ OpenKernel(p)

\* It was pulled and not tagged when blobs of it were taken, and they have not
\* been pulled again.
Catches ==
  caught' = {version \in References :
    /\ ~(Parts(InitImage(version)) \subseteq blobs')
    /\ \/ version \in caught
       \/ \E p \in Provisioners : stage[p] = "tagging" /\ Pin[p].initfs = version}

LibraryNext ==
  /\ \/ Next /\ UNCHANGED fileVars
     \/ \E p \in Provisioners : Provision(p)
  /\ Catches

LibrarySpec == LibraryInit /\ [][LibraryNext]_libraryVars

-----------------------------------------------------------------------------
LibraryTypeOK ==
  /\ TypeOver({"debian", "claude", "project"} \cup References,
              Rootfs \cup {InitImage(version) : version \in References})
  /\ files \subseteq UNION {Pins(p) : p \in Provisioners} /\ caught \subseteq References
  /\ \A p \in Provisioners : \A thing \in older[p] : IsOlder(thing[2], Pin[p].initfs) \/ thing[1] = "kernel"

\* Every blob of a tagged image is in the store, whatever was reclaimed
\* meanwhile and whoever died at it: a plan's image by the lock its build takes
\* before the pull (build.rs 37), an init image unless a reclaim ran between its
\* pull, which takes no lock, and its tag (initfs).
ImagesComplete == \A t \in DOMAIN tags : t \in caught \/ Parts(tags[t]) \subseteq blobs

\* A release number is newer when the first part they differ in is larger; the
\* parts it does not have are zero.
Part(version, i) == IF i \in DOMAIN Number[version] THEN Number[version][i] ELSE 0
Newer(version, than) ==
  \E i \in DOMAIN Number[version] :
    /\ Part(version, i) > Part(than, i)
    /\ \A j \in 1..(i - 1) : Part(version, j) = Part(than, j)

\* What a process provisioned stays in place until one whose release pins a
\* newer version of it comes to retire the older ones: releases that pin the
\* same version, however it is spelled, and older ones never take each other's
\* kernel or init file system (store.rs 86: a newer one may belong to another
\* compostbin sharing the store).
ReadyUntilNewer ==
  \A p \in Provisioners : stage[p] \in {"provisioned", "selected", "unready", "booted", "lost"} =>
    \A kind \in {"kernel", "initfs"} :
      \/ <<kind, Pin[p][kind]>> \in files
      \/ \E q \in Provisioners :
           /\ Newer(Pin[q][kind], Pin[p][kind])
           /\ stage[q] \notin {"provisioning", "fetching", "looking", "pulling", "tagging",
                               "unpacking", "retiring", "failed"}
=============================================================================
