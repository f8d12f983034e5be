--------------------------- MODULE LibraryProofs ---------------------------
(***************************************************************************)
(* The image store together with its kernels and init images: every        *)
(* invariant of the store's run, for any number of processes, releases and *)
(* faults, and any release numbers.                                        *)
(*                                                                         *)
(* A step of Next leaves files, stages and retirements alone, so the parts *)
(* of StoreProofs only need provisioning's steps looked at; ProcessOK is   *)
(* what provisioning itself maintains, and ImagesOK what becomes of the     *)
(* init images it pulls without a lock.                                    *)
(***************************************************************************)
EXTENDS StoreProofs, WellFoundedInduction

Placed == {"retiring", "removing", "untagging", "provisioned", "selected", "unready", "booted", "lost"}
Retired == Placed \ {"retiring"}
\* It is there, or a process of a newer release came to retire it.
InPlace(p, kind) ==
  \/ <<kind, Pin[p][kind]>> \in files
  \/ \E q \in Provisioners : stage[q] \in Retired /\ Newer(Pin[q][kind], Pin[p][kind])

\* What is retired is older, file by file.
OlderOK(p) ==
  \A thing \in older[p] :
    /\ thing[1] = "kernel" \/ IsOlder(thing[2], Pin[p].initfs)
    /\ stage[p] = "removing" => thing[1] \in {"kernel", "initfs"} /\ IsOlder(thing[2], Pin[p][thing[1]])
ProcessOK(p) ==
  /\ stage[p] \in Placed \cup {"looking", "pulling", "tagging", "unpacking"} => InPlace(p, "kernel")
  /\ stage[p] \in Placed => InPlace(p, "initfs")
FilesOK ==
  /\ DOMAIN stage = Provisioners /\ DOMAIN older = Provisioners
  /\ files \subseteq UNION {Pins(p) : p \in Provisioners}
  /\ \A p \in Provisioners : ProcessOK(p) /\ OlderOK(p)

\* Builds do not run while a store is provisioned.
Apart == (\A b \in Builders : pc[b] = "away") \/ (\A p \in Provisioners : stage[p] = "away")

LibraryInv ==
  /\ Typing /\ LocksOK /\ BlobsOK /\ ReclaimOK /\ Apart /\ FilesOK
  /\ caught \subseteq References

\* An init image that no reclaim took before it was tagged is complete from its
\* pull on.
Waiting(version) == \E p \in Provisioners : stage[p] = "tagging" /\ Pin[p].initfs = version
ImagesOK ==
  \A version \in References :
    /\ version \in DOMAIN tags => tags[version] = InitImage(version)
    /\ version \notin caught /\ (version \in DOMAIN tags \/ Waiting(version)) => Holds(InitImage(version))

-----------------------------------------------------------------------------
(* Release numbers. *)

\* A set of natural numbers has a least element.
LEMMA Least ==
  ASSUME NEW T, T \subseteq Nat, T # {}
  PROVE  \E x \in T : \A y \in T : x <= y
<1> DEFINE R == OpToRel(<, Nat)
<1>1. IsWellFoundedOn(R, Nat)
  BY NatLessThanWellFounded
<1>2. \A x, y \in Nat : x < y => <<x, y>> \in R
  BY DEF OpToRel
<1> HIDE DEF R
<1>3. PICK x \in T : \A y \in Nat : <<y, x>> \in R => y \notin T
  BY <1>1, WFMin
<1>4. ASSUME NEW y \in T
      PROVE  x <= y
  <2>1. x \in Nat /\ y \in Nat
    BY <1>4
  <2>2. ~(y < x)
    BY <2>1, <1>2, <1>3, <1>4
  <2> QED BY <2>1, <2>2
<1> QED BY <1>4

LEMMA Greatest ==
  ASSUME NEW n \in Nat, NEW S, S \subseteq 1..n, S # {}
  PROVE  \E x \in S : \A y \in S : y <= x
<1> DEFINE T == {n - x : x \in S}
<1>1. T \subseteq Nat /\ T # {}
  <2>1. \A x \in S : n - x \in Nat
    OBVIOUS
  <2> QED BY <2>1
<1>2. PICK t \in T : \A y \in T : t <= y
  BY <1>1, Least
<1>3. PICK x \in S : t = n - x
  BY <1>2
<1>4. ASSUME NEW y \in S
      PROVE  y <= x
  <2>1. n - y \in T
    OBVIOUS
  <2>2. n - x <= n - y
    BY <1>2, <1>3, <2>1
  <2>3. x \in Int /\ y \in Int
    OBVIOUS
  <2> QED BY <2>2, <2>3
<1> QED BY <1>4

\* What is left of a number without the zeros it ends in.
LEMMA TrimmedIs ==
  ASSUME NEW s \in Seq(Nat)
  PROVE  /\ Trimmed(s) \in Seq(Nat) /\ Len(Trimmed(s)) <= Len(s)
         /\ \A j \in 1..Len(Trimmed(s)) : Trimmed(s)[j] = s[j]
         /\ \A j \in 1..Len(s) : j > Len(Trimmed(s)) => s[j] = 0
         /\ Len(Trimmed(s)) > 0 => s[Len(Trimmed(s))] # 0
<1> DEFINE last == {i \in DOMAIN s : s[i] # 0}
           end == IF last = {} THEN 0 ELSE CHOOSE i \in last : \A j \in last : j <= i
<1>1. /\ end \in 0..Len(s) /\ (end > 0 => s[end] # 0)
      /\ \A j \in 1..Len(s) : j > end => s[j] = 0
  <2>1. CASE last = {}
    BY <2>1
  <2>2. CASE last # {}
    <3>1. last \subseteq 1..Len(s)
      OBVIOUS
    <3>2. \E i \in last : \A j \in last : j <= i
      <4>1. Len(s) \in Nat
        OBVIOUS
      <4> HIDE DEF last
      <4> QED BY <2>2, <3>1, <4>1, Greatest
    <3>3. end \in last /\ \A j \in last : j <= end
      BY <2>2, <3>2
    <3> HIDE DEF end
    <3>4. ASSUME NEW j \in 1..Len(s), j > end
          PROVE  s[j] = 0
      <4>1. j \notin last
        BY <3>1, <3>3, <3>4
      <4> QED BY <4>1
    <3> QED BY <3>1, <3>3, <3>4
  <2> QED BY <2>1, <2>2
<1>2. Trimmed(s) = SubSeq(s, 1, end)
  BY DEF Trimmed
<1> HIDE DEF end
<1>3. SubSeq(s, 1, end) \in Seq(Nat) /\ Len(SubSeq(s, 1, end)) = end
  BY <1>1
<1>4. \A j \in 1..end : SubSeq(s, 1, end)[j] = s[j]
  BY <1>1
<1> QED BY <1>1, <1>2, <1>3, <1>4

\* is_older agrees with the order of release numbers, however they are spelled.
LEMMA OlderIsNewer ==
  ASSUME NEW version, NEW than, IsOlder(version, than)
  PROVE  Newer(than, version)
<1> DEFINE a == Number[version]
           b == Number[than]
           m == Trimmed(a)
           n == Trimmed(b)
<1>1. a \in Seq(Nat) /\ b \in Seq(Nat)
  BY NumberAssumption DEF IsOlder
<1>2. PICK i \in DOMAIN n : /\ i <= Len(m) + 1
                            /\ SubSeq(m, 1, i - 1) = SubSeq(n, 1, i - 1)
                            /\ i <= Len(m) => m[i] < n[i]
  BY DEF IsOlder, Before
<1>3. /\ \A j \in 1..Len(a) : Part(version, j) = a[j]
      /\ \A j \in Nat \ {0} : j > Len(a) => Part(version, j) = 0
      /\ \A j \in 1..Len(b) : Part(than, j) = b[j]
      /\ \A j \in Nat \ {0} : j > Len(b) => Part(than, j) = 0
  BY <1>1 DEF Part
<1> HIDE DEF a, b
<1>4. /\ m \in Seq(Nat) /\ Len(m) <= Len(a) /\ (\A j \in 1..Len(m) : m[j] = a[j])
      /\ \A j \in 1..Len(a) : j > Len(m) => a[j] = 0
  BY <1>1, TrimmedIs
<1>5. /\ n \in Seq(Nat) /\ Len(n) <= Len(b) /\ (\A j \in 1..Len(n) : n[j] = b[j])
      /\ Len(n) > 0 => b[Len(n)] # 0
  BY <1>1, TrimmedIs
<1> HIDE DEF m, n
<1>6. i \in 1..Len(n) /\ i \in 1..Len(b) /\ Len(m) \in Nat /\ Len(n) \in Nat /\ Len(a) \in Nat /\ Len(b) \in Nat
  <2>1. Len(m) \in Nat /\ Len(n) \in Nat /\ Len(a) \in Nat /\ Len(b) \in Nat
    BY <1>1, <1>4, <1>5
  <2>2. i \in 1..Len(n)
    BY <1>2, <1>5
  <2> QED BY <2>1, <2>2, <1>5
<1>7. \A j \in 1..(i - 1) : m[j] = n[j]
  <2>1. i - 1 \in 0..Len(m) /\ i - 1 \in 0..Len(n)
    BY <1>2, <1>6
  <2>2. \A j \in 1..(i - 1) : SubSeq(m, 1, i - 1)[j] = m[j]
    BY <2>1, <1>4
  <2>3. \A j \in 1..(i - 1) : SubSeq(n, 1, i - 1)[j] = n[j]
    BY <2>1, <1>5
  <2> QED BY <2>2, <2>3, <1>2
<1>8. \A j \in 1..(i - 1) : Part(version, j) = Part(than, j)
  <2>1. ASSUME NEW j \in 1..(i - 1)
        PROVE  Part(version, j) = Part(than, j)
    <3>1. j \in 1..Len(m) /\ j \in 1..Len(n)
      BY <1>2, <1>6
    <3>2. j \in 1..Len(a) /\ j \in 1..Len(b)
      BY <3>1, <1>4, <1>5, <1>6, SMTT(30)
    <3>3. m[j] = a[j] /\ n[j] = b[j] /\ m[j] = n[j]
      BY <3>1, <1>4, <1>5, <1>7
    <3> QED BY <3>2, <3>3, <1>3
  <2> QED BY <2>1
<1>9. DOMAIN b = 1..Len(b) /\ \A j \in 1..Len(b) : b[j] \in Nat
  BY <1>1
<1>10. CASE i <= Len(m)
  <2>1. i \in 1..Len(m) /\ i \in 1..Len(a)
    BY <1>4, <1>6, <1>10
  <2>2. Part(version, i) = m[i] /\ Part(than, i) = n[i] /\ m[i] < n[i]
    BY <2>1, <1>2, <1>3, <1>4, <1>5, <1>6, <1>10
  <2>3. m[i] \in Nat /\ n[i] \in Nat
    BY <2>1, <1>4, <1>5, <1>6
  <2>4. Part(than, i) > Part(version, i)
    BY <2>2, <2>3
  <2> QED BY <2>4, <1>6, <1>8, <1>9 DEF Newer, b
<1>11. CASE i > Len(m)
  <2> DEFINE l == Len(n)
  <2>1. i = Len(m) + 1 /\ l \in 1..Len(b) /\ l >= i /\ b[l] # 0
    BY <1>2, <1>5, <1>6, <1>11
  <2>2. \A j \in Nat \ {0} : j > Len(m) => Part(version, j) = 0
    <3>1. ASSUME NEW j \in Nat \ {0}, j > Len(m)
          PROVE  Part(version, j) = 0
      <4>1. CASE j \in 1..Len(a)
        BY <3>1, <4>1, <1>3, <1>4
      <4>2. CASE j > Len(a)
        BY <4>2, <1>3
      <4> QED BY <4>1, <4>2, <1>6
    <3> QED BY <3>1
  <2> DEFINE some == {j \in i..l : b[j] # 0}
  <2>3. some \subseteq Nat /\ some # {}
    BY <2>1, <1>6
  <2>4. PICK first \in some : \A j \in some : first <= j
    BY <2>3, Least
  <2>5. first \in i..l /\ b[first] # 0 /\ first \in 1..Len(b) /\ first \in Nat \ {0} /\ first > Len(m)
    BY <2>1, <1>6
  <2>6. Part(than, first) = b[first] /\ Part(version, first) = 0 /\ b[first] \in Nat
    BY <2>2, <2>5, <1>3, <1>9
  <2>7. Part(than, first) > Part(version, first)
    BY <2>5, <2>6
  <2>8. ASSUME NEW j \in 1..(first - 1)
        PROVE  Part(than, j) = Part(version, j)
    <3>1. CASE j \in 1..(i - 1)
      BY <3>1, <1>8
    <3>2. CASE j >= i
      <4>1. j \in i..l /\ j < first /\ j \in 1..Len(b) /\ j \in Nat \ {0} /\ j > Len(m)
        BY <2>1, <2>5, <2>8, <3>2, <1>6
      <4>2. j \notin some
        BY <2>4, <2>5, <4>1
      <4>3. b[j] = 0
        BY <4>1, <4>2
      <4> QED BY <4>1, <4>3, <2>2, <1>3
    <3> QED BY <3>1, <3>2, <2>5, <2>8, <1>6
  <2> QED BY <2>5, <2>7, <2>8, <1>9 DEF Newer, b
<1> QED BY <1>6, <1>10, <1>11
-----------------------------------------------------------------------------
(* What provisioning does to kernels and init file systems. *)

LEMMA Staging ==
  ASSUME DOMAIN stage = Provisioners, NEW p \in Provisioners, NEW label, To(p, label)
  PROVE  /\ DOMAIN stage' = Provisioners /\ stage'[p] = label
         /\ \A q \in Provisioners : q # p => stage'[q] = stage[q]
BY DEF To

LEMMA InPlaceStays ==
  ASSUME \A q \in Provisioners : stage[q] \in Retired => stage'[q] \in Retired,
         NEW p, NEW kind, InPlace(p, kind),
         <<kind, Pin[p][kind]>> \in files => <<kind, Pin[p][kind]>> \in files'
  PROVE  InPlace(p, kind)'
BY DEF InPlace

LEMMA PinsAre ==
  ASSUME NEW p \in Provisioners
  PROVE  /\ Pin[p].initfs \in References
         /\ Kernel(p) \in Pins(p) /\ Initfs(p) \in Pins(p)
         /\ \A file \in Pins(p) : file[1] \in {"kernel", "initfs"}
BY DEF References, Kernel, Initfs, Pins

\* A step that takes no file away, and leaves what is to be retired alone.
LEMMA MovesOn ==
  ASSUME FilesOK, NEW p \in Provisioners, NEW label, To(p, label),
         stage[p] \in Retired => label \in Retired,
         files \subseteq files', files' \subseteq UNION {Pins(q) : q \in Provisioners},
         older' = older, label # "removing",
         label \in Placed \cup {"looking", "pulling", "tagging", "unpacking"} =>
           Kernel(p) \in files' \/ InPlace(p, "kernel"),
         label \in Placed => Initfs(p) \in files' \/ InPlace(p, "initfs")
  PROVE  FilesOK'
<1>1. /\ DOMAIN stage' = Provisioners /\ stage'[p] = label
      /\ \A q \in Provisioners : q # p => stage'[q] = stage[q]
  BY Staging DEF FilesOK
<1>2. \A q \in Provisioners : stage[q] \in Retired => stage'[q] \in Retired
  BY <1>1
<1>3. \A q, kind : InPlace(q, kind) => InPlace(q, kind)'
  BY <1>2, InPlaceStays
<1>4. ASSUME NEW q \in Provisioners
      PROVE  ProcessOK(q)' /\ OlderOK(q)'
  <2>1. OlderOK(q)'
    BY <1>1 DEF FilesOK, OlderOK
  <2>2. CASE q = p
    BY <1>1, <1>3, <2>1, <2>2 DEF ProcessOK, InPlace, Kernel, Initfs
  <2>3. CASE q # p
    BY <1>1, <1>3, <2>1, <2>3 DEF ProcessOK, FilesOK
  <2> QED BY <2>2, <2>3
<1> QED BY <1>1, <1>4 DEF FilesOK

LEMMA FilesKept ==
  ASSUME FilesOK, NEW p \in Provisioners, Provision(p)
  PROVE  FilesOK'
<1>0. ProcessOK(p) /\ OlderOK(p) /\ files \subseteq UNION {Pins(q) : q \in Provisioners}
  BY DEF FilesOK
<1> USE DEF Placed, Retired
<1>1. CASE LookForKernel(p)
  BY <1>1, <1>0, MovesOn DEF LookForKernel
<1>2. CASE MoveKernel(p)
  <2>1. files' \subseteq UNION {Pins(q) : q \in Provisioners} /\ Kernel(p) \in files'
    BY <1>0, <1>2, PinsAre DEF MoveKernel
  <2> QED BY <1>2, <2>1, MovesOn DEF MoveKernel
<1>3. CASE LookForInitfs(p)
  BY <1>3, <1>0, MovesOn DEF LookForInitfs, ProcessOK
<1>4. CASE GetInitImage(p)
  <2>1. PICK label \in {"unpacking", "tagging"} : To(p, label)
    BY <1>4 DEF GetInitImage
  <2>2. UNCHANGED <<files, older>> /\ stage[p] = "pulling"
    BY <1>4 DEF GetInitImage
  <2> QED BY <2>1, <2>2, <1>0, MovesOn DEF ProcessOK
<1>14. CASE TagInitImage(p)
  BY <1>14, <1>0, MovesOn DEF TagInitImage, ProcessOK
<1>5. CASE UnpackInitfs(p)
  <2>1. files' \subseteq UNION {Pins(q) : q \in Provisioners} /\ Initfs(p) \in files' /\ files \subseteq files'
    BY <1>0, <1>5, PinsAre DEF UnpackInitfs
  <2>2. To(p, "retiring") /\ stage[p] = "unpacking" /\ older' = older
    BY <1>5 DEF UnpackInitfs
  <2> QED BY <2>1, <2>2, <1>0, MovesOn DEF ProcessOK
<1>6. CASE ProvisionFails(p)
  <2>1. To(p, "failed") /\ stage[p] \in {"fetching", "pulling", "unpacking"} /\ UNCHANGED <<files, older>>
    BY <1>6 DEF ProvisionFails
  <2> QED BY <2>1, <1>0, MovesOn
<1>7. CASE ListRetired(p)
  <2>1. /\ DOMAIN stage' = Provisioners /\ stage[p] = "retiring" /\ stage'[p] = "removing"
        /\ \A q \in Provisioners : q # p => stage'[q] = stage[q]
    BY <1>7, Staging DEF ListRetired, FilesOK
  <2>2. DOMAIN older' = Provisioners /\ older'[p] = RetiredFiles(p) /\ \A q \in Provisioners : q # p => older'[q] = older[q]
    BY <1>7 DEF ListRetired, FilesOK
  <2>3. files' = files
    BY <1>7 DEF ListRetired
  <2>4. \A q \in Provisioners : stage[q] \in Retired => stage'[q] \in Retired
    BY <2>1
  <2>5. \A q, kind : InPlace(q, kind) => InPlace(q, kind)'
    BY <2>3, <2>4, InPlaceStays
  <2>6. ASSUME NEW file \in RetiredFiles(p)
        PROVE  file[1] \in {"kernel", "initfs"} /\ IsOlder(file[2], Pin[p][file[1]])
    BY <1>0, PinsAre DEF RetiredFiles
  <2>7. OlderOK(p)'
    BY <2>1, <2>2, <2>6 DEF OlderOK
  <2>8. \A q \in Provisioners : q # p => OlderOK(q)'
    BY <2>1, <2>2 DEF OlderOK, FilesOK
  <2>9. \A q \in Provisioners : ProcessOK(q)'
    BY <2>1, <2>5 DEF ProcessOK, FilesOK
  <2> QED BY <2>1, <2>2, <2>3, <2>7, <2>8, <2>9 DEF FilesOK
<1>8. CASE RemoveFile(p)
  <2>1. PICK file \in older[p] : files' = files \ {file} /\ older' = [older EXCEPT ![p] = @ \ {file}]
    BY <1>8 DEF RemoveFile
  <2>2. stage' = stage /\ stage[p] = "removing"
    BY <1>8 DEF RemoveFile
  <2>3. file[1] \in {"kernel", "initfs"} /\ IsOlder(file[2], Pin[p][file[1]])
    BY <1>0, <2>2 DEF OlderOK
  <2>4. DOMAIN older' = Provisioners /\ \A q \in Provisioners : older'[q] \subseteq older[q]
    BY <2>1 DEF FilesOK
  <2>5. ASSUME NEW q \in Provisioners, NEW kind \in {"kernel", "initfs"}, InPlace(q, kind)
        PROVE  InPlace(q, kind)'
    <3>1. CASE file = <<kind, Pin[q][kind]>>
      <4>1. Newer(Pin[p][kind], Pin[q][kind])
        BY <2>3, <3>1, OlderIsNewer
      <4> QED BY <2>2, <4>1 DEF InPlace
    <3>2. CASE file # <<kind, Pin[q][kind]>>
      BY <2>1, <2>2, <2>5, <3>2 DEF InPlace
    <3> QED BY <3>1, <3>2
  <2>6. \A q \in Provisioners : OlderOK(q)'
    BY <2>2, <2>4 DEF OlderOK, FilesOK
  <2>7. \A q \in Provisioners : ProcessOK(q)'
    BY <2>2, <2>5 DEF ProcessOK, FilesOK
  <2> QED BY <2>1, <2>2, <2>4, <2>6, <2>7 DEF FilesOK
<1>9. CASE ListImages(p)
  <2>1. /\ DOMAIN stage' = Provisioners /\ stage[p] = "removing" /\ stage'[p] = "untagging"
        /\ \A q \in Provisioners : q # p => stage'[q] = stage[q]
    BY <1>9, Staging DEF ListImages, FilesOK
  <2>2. DOMAIN older' = Provisioners /\ older'[p] = RetiredImages(p) /\ \A q \in Provisioners : q # p => older'[q] = older[q]
    BY <1>9 DEF ListImages, FilesOK
  <2>3. files' = files
    BY <1>9 DEF ListImages
  <2>4. \A q \in Provisioners : stage[q] \in Retired => stage'[q] \in Retired
    BY <2>1
  <2>5. \A q, kind : InPlace(q, kind) => InPlace(q, kind)'
    BY <2>3, <2>4, InPlaceStays
  <2>6. \A image \in RetiredImages(p) : IsOlder(image[2], Pin[p].initfs)
    BY DEF RetiredImages
  <2>7. OlderOK(p)'
    BY <2>1, <2>2, <2>6 DEF OlderOK
  <2>8. \A q \in Provisioners : q # p => OlderOK(q)'
    BY <2>1, <2>2 DEF OlderOK, FilesOK
  <2>9. \A q \in Provisioners : ProcessOK(q)'
    BY <2>1, <2>5 DEF ProcessOK, FilesOK
  <2> QED BY <2>1, <2>2, <2>3, <2>7, <2>8, <2>9 DEF FilesOK
<1>10. CASE DeleteImage(p)
  <2>1. stage' = stage /\ files' = files
    BY <1>10 DEF DeleteImage
  <2>2. DOMAIN older' = Provisioners /\ \A q \in Provisioners : older'[q] \subseteq older[q]
    BY <1>10 DEF DeleteImage, FilesOK
  <2>3. \A q \in Provisioners : OlderOK(q)'
    BY <2>1, <2>2 DEF OlderOK, FilesOK
  <2>4. \A q \in Provisioners : ProcessOK(q)'
    BY <2>1 DEF ProcessOK, FilesOK, InPlace
  <2> QED BY <2>1, <2>2, <2>3, <2>4 DEF FilesOK
<1>11. CASE Provisioned(p)
  BY <1>11, <1>0, MovesOn DEF Provisioned, ProcessOK
<1>12. CASE Select(p)
  <2>1. PICK label \in {"selected", "unready"} : To(p, label)
    BY <1>12 DEF Select
  <2> QED BY <1>12, <2>1, <1>0, MovesOn DEF Select, ProcessOK
<1>13. CASE OpenKernel(p)
  <2>1. PICK label \in {"booted", "lost"} : To(p, label)
    BY <1>13 DEF OpenKernel
  <2> QED BY <1>13, <2>1, <1>0, MovesOn DEF OpenKernel, ProcessOK
<1> QED BY <1>1, <1>2, <1>3, <1>4, <1>5, <1>6, <1>7, <1>8, <1>9, <1>10, <1>11, <1>12, <1>13, <1>14 DEF Provision

-----------------------------------------------------------------------------
(* What provisioning does to the rest of the store. *)

\* It pulls an init image, tags it, takes a tag away, or leaves the store alone.
LEMMA ProvisionTouches ==
  ASSUME NEW p \in Provisioners, Provision(p)
  PROVE  /\ UNCHANGED <<snapshots, records, unpacked, lockVars, contextVars, pc, job>>
         /\ faults' = faults \/ Fault
         /\ \/ UNCHANGED <<blobs, tags>>
            \/ GetInitImage(p)
            \/ TagInitImage(p)
            \/ DeleteImage(p)
<1>1. CASE LookForKernel(p)
  BY <1>1 DEF LookForKernel, vars, storeVars
<1>2. CASE MoveKernel(p)
  BY <1>2 DEF MoveKernel, vars, storeVars
<1>3. CASE LookForInitfs(p)
  BY <1>3 DEF LookForInitfs, vars, storeVars
<1>4. CASE GetInitImage(p)
  BY <1>4 DEF GetInitImage, vars, storeVars
<1>5. CASE UnpackInitfs(p)
  BY <1>5 DEF UnpackInitfs, vars, storeVars
<1>6. CASE ProvisionFails(p)
  BY <1>6 DEF ProvisionFails, vars, storeVars
<1>7. CASE ListRetired(p)
  BY <1>7 DEF ListRetired, vars, storeVars
<1>8. CASE RemoveFile(p)
  BY <1>8 DEF RemoveFile, vars, storeVars
<1>9. CASE ListImages(p)
  BY <1>9 DEF ListImages, vars, storeVars
<1>10. CASE DeleteImage(p)
  BY <1>10 DEF DeleteImage, vars, storeVars
<1>11. CASE Provisioned(p)
  BY <1>11 DEF Provisioned, vars, storeVars
<1>12. CASE Select(p)
  BY <1>12 DEF Select, vars, storeVars
<1>13. CASE OpenKernel(p)
  BY <1>13 DEF OpenKernel, vars, storeVars
<1>14. CASE TagInitImage(p)
  BY <1>14 DEF TagInitImage, vars, storeVars
<1> QED BY <1>1, <1>2, <1>3, <1>4, <1>5, <1>6, <1>7, <1>8, <1>9, <1>10, <1>11, <1>12, <1>13, <1>14 DEF Provision

LEMMA ImagePulled ==
  ASSUME NEW p \in Provisioners, GetInitImage(p), NEW version, version = Pin[p].initfs
  PROVE  /\ version \in References /\ version \notin Names /\ tags' = tags
         /\ blobs \subseteq blobs' /\ blobs' \subseteq blobs \cup Parts(InitImage(version))
         /\ version \notin DOMAIN tags => Parts(InitImage(version)) \subseteq blobs'
         /\ To(p, IF version \in DOMAIN tags THEN "unpacking" ELSE "tagging")
<1>1. version \in References /\ version \notin Names
  BY PinsAre, ReferencesAssumption DEF Names
<1>2. blobs' = IF version \in DOMAIN tags THEN blobs ELSE blobs \cup Parts(InitImage(version))
  BY DEF GetInitImage
<1>3. tags' = tags /\ To(p, IF version \in DOMAIN tags THEN "unpacking" ELSE "tagging")
  BY DEF GetInitImage
<1> QED BY <1>1, <1>2, <1>3

LEMMA ImageTagged ==
  ASSUME NEW p \in Provisioners, TagInitImage(p), NEW version, version = Pin[p].initfs
  PROVE  /\ version \in References /\ version \notin Names /\ stage[p] = "tagging"
         /\ blobs' = blobs /\ tags' = Put(tags, version, InitImage(version))
         /\ To(p, "unpacking")
BY PinsAre, ReferencesAssumption DEF Names, TagInitImage

LEMMA ImagesDeleted ==
  ASSUME NEW p \in Provisioners, DeleteImage(p)
  PROVE  /\ blobs' = blobs /\ DOMAIN tags' \subseteq DOMAIN tags
         /\ \A t \in DOMAIN tags' : tags'[t] = tags[t]
BY DEF DeleteImage, Only

LEMMA ProvisionKeeps ==
  ASSUME Typing, LocksOK, BlobsOK, NEW p \in Provisioners, Provision(p)
  PROVE  Typing' /\ LocksOK' /\ BlobsOK' /\ blobs \subseteq blobs'
<1>1. UNCHANGED <<snapshots, records, unpacked, building, reclaiming, context, disturbed, pc, job>>
  BY ProvisionTouches DEF lockVars, contextVars
<1>2. SnapshotsTyped' /\ RecordsTyped' /\ UnpackedTyped' /\ PlacesTyped'
  BY <1>1 DEF Typing, SnapshotsTyped, RecordsTyped, UnpackedTyped, PlacesTyped, LocalsOK
<1>3. LocksTyped'
  BY <1>1, ProvisionTouches, BoundsAssumption DEF Typing, LocksTyped, Fault
<1>4. LocksOK'
  BY <1>1 DEF LocksOK, LockOf
<1>5. blobs \subseteq blobs'
  BY ProvisionTouches, ImagePulled, ImageTagged, ImagesDeleted
<1>6. BlobsOK'
  BY <1>1, <1>5 DEF BlobsOK, BlobsOf, Holds
<1> DEFINE version == Pin[p].initfs
<1>7. BlobsTyped' /\ TagsTyped'
  <2>1. CASE UNCHANGED <<blobs, tags>>
    BY <2>1 DEF Typing, BlobsTyped, TagsTyped
  <2>2. CASE GetInitImage(p)
    <3>1. version \in References /\ blobs' \subseteq blobs \cup Parts(InitImage(version)) /\ tags' = tags
      BY <2>2, ImagePulled
    <3> HIDE DEF version
    <3> QED BY <3>1 DEF Typing, BlobsTyped, TagsTyped, Parts, Digests
  <2>3. CASE TagInitImage(p)
    <3>1. /\ version \in References /\ version \notin Names
          /\ blobs' = blobs /\ tags' = Put(tags, version, InitImage(version))
      BY <2>3, ImageTagged
    <3> HIDE DEF version
    <3> QED BY <3>1 DEF Typing, BlobsTyped, TagsTyped, Put, Digests
  <2>4. CASE DeleteImage(p)
    BY <2>4, ImagesDeleted DEF Typing, BlobsTyped, TagsTyped
  <2> QED BY <2>1, <2>2, <2>3, <2>4, ProvisionTouches
<1> QED BY <1>2, <1>3, <1>4, <1>5, <1>6, <1>7 DEF Typing

\* It leaves the tags that plans name alone.
LEMMA NamesStay ==
  ASSUME NEW p \in Provisioners, Provision(p)
  PROVE  \A t \in Names : (t \in DOMAIN tags' => t \in DOMAIN tags /\ tags'[t] = tags[t])
<1>1. CASE UNCHANGED <<blobs, tags>>
  BY <1>1
<1>2. CASE GetInitImage(p)
  BY <1>2, ImagePulled
<1>3. CASE TagInitImage(p)
  <2> DEFINE version == Pin[p].initfs
  <2>1. version \notin Names /\ tags' = Put(tags, version, InitImage(version))
    BY <1>3, ImageTagged
  <2> HIDE DEF version
  <2> QED BY <2>1 DEF Put
<1>4. CASE DeleteImage(p)
  BY <1>4, ImagesDeleted
<1> QED BY <1>1, <1>2, <1>3, <1>4, ProvisionTouches

LEMMA ProvisionHonest ==
  ASSUME HonestInv, NEW p \in Provisioners, Provision(p)
  PROVE  HonestInv'
<1>1. UNCHANGED <<snapshots, records, unpacked, context, disturbed, pc, job>>
  BY ProvisionTouches DEF contextVars
<1>2. AllKeyed' /\ RunningHonest'
  BY <1>1 DEF HonestInv, AllKeyed, KeyedOK, RunningHonest
<1>3. (\A b \in Builders : JobOK(b, disturbed)') /\ SnapshotsHonest(disturbed)' /\ RecordsHonest(disturbed)'
  BY <1>1 DEF HonestInv, HonestBut, JobOK, SnapshotsHonest, RecordsHonest
<1>4. \A n \in {1, 2} : Plans[n].tag \in Names
  BY PlansAre DEF Names
<1>5. TagsHonest(disturbed)'
  BY <1>1, <1>4, NamesStay DEF HonestInv, HonestBut, TagsHonest
<1> QED BY <1>2, <1>3, <1>5 DEF HonestInv, HonestBut

\* Builds, boots and cleans leave the tags of init images alone.
LEMMA ReferencesStay ==
  ASSUME Typing, [Next]_vars
  PROVE  \A t : t \notin Names =>
           (t \in DOMAIN tags' <=> t \in DOMAIN tags) /\ (t \in DOMAIN tags => tags'[t] = tags[t])
<1>1. ASSUME NEW b \in Builders, TagPulled(b) \/ Tag(b)
      PROVE  \A t : t \notin Names =>
               (t \in DOMAIN tags' <=> t \in DOMAIN tags) /\ (t \in DOMAIN tags => tags'[t] = tags[t])
  <2>1. job[b].plan \in {1, 2}
    BY DEF Procs, Typing, PlacesTyped, Locals
  <2>2. Plan(b).base \in Names /\ Plan(b).tag \in Names
    BY <2>1, PlansAre DEF Plan, Names
  <2> QED BY <1>1, <2>2 DEF TagPulled, Tag, Put
<1>2. ASSUME NEW b \in Builders, Build(b), ~TagPulled(b), ~Tag(b)
      PROVE  tags' = tags
  BY <1>2 DEF Build, Truncate, Fill, Keys, LockShared, Pull, Look, Restore, Unpack, CopyScript, Step, StepKept,
       Ingest, SaveImage, Unlock, Evict, BuildFails, storeVars
<1>3. ASSUME NEW p, Reclaim(p) \/ StartClean(p) \/ Forget(p) \/ Crash(p) \/ Boot(p)
      PROVE  tags' = tags
  BY <1>3 DEF Reclaim, List, EvictUnpacked, LockExclusive, Delete, StartClean, Forget, Crash, Boot, Get,
       ReadConfig, Extract, Clone, BootFails, storeVars
<1>4. CASE UNCHANGED vars
  BY <1>4 DEF vars, storeVars
<1> QED BY <1>1, <1>2, <1>3, <1>4 DEF Next

-----------------------------------------------------------------------------
(* The theorems. *)

LEMMA LibraryStart ==
  ASSUME LibraryInit
  PROVE  LibraryInv /\ Complete(Names) /\ ImagesOK /\ HonestInv
<1>1. CASE InitProvision
  <2>1. Quiet
    BY <1>1, BoundsAssumption DEF InitProvision, Quiet
  <2>2. records = <<>>
    BY <1>1 DEF InitProvision
  <2>3. RecordsTyped /\ RecordsHonest({})
    BY <2>2 DEF RecordsTyped, RecordsHonest
  <2>0. /\ stage = [p \in Provisioners |-> "provisioning"] /\ older = [p \in Provisioners |-> {}]
        /\ caught = {}
    BY <1>1 DEF InitProvision, LibraryInit
  <2>4. /\ BlobsTyped /\ TagsTyped /\ TagsHonest({}) /\ Complete(Names) /\ ImagesOK
        /\ files \subseteq UNION {Pins(p) : p \in Provisioners}
    <3>1. CASE blobs = {} /\ tags = <<>> /\ files = {}
      BY <2>0, <3>1 DEF BlobsTyped, TagsTyped, TagsHonest, Complete, ImagesOK, Waiting
    <3>2. ASSUME NEW p \in Provisioners,
                 tags = [version \in {Pin[p].initfs} |-> InitImage(version)],
                 blobs = Parts(InitImage(Pin[p].initfs)), files = Pins(p)
          PROVE  /\ BlobsTyped /\ TagsTyped /\ TagsHonest({}) /\ Complete(Names) /\ ImagesOK
                 /\ files \subseteq UNION {Pins(q) : q \in Provisioners}
      <4> DEFINE version == Pin[p].initfs
      <4>1. version \in References /\ version \notin Names
        BY PinsAre, ReferencesAssumption DEF Names
      <4>2. DOMAIN tags = {version} /\ tags[version] = InitImage(version) /\ blobs = Parts(InitImage(version))
        BY <3>2
      <4> HIDE DEF version
      <4>3. BlobsTyped
        BY <4>1, <4>2 DEF BlobsTyped, Parts, Digests
      <4>4. TagsTyped
        BY <4>1, <4>2 DEF TagsTyped, Digests
      <4>5. TagsHonest({})
        BY <4>1, <4>2, PlansAre DEF TagsHonest, Names
      <4>6. Complete(Names) /\ ImagesOK
        BY <2>0, <4>2 DEF Complete, Holds, ImagesOK, Waiting
      <4> QED BY <3>2, <4>3, <4>4, <4>5, <4>6
    <3> QED BY <1>1, <3>1, <3>2 DEF InitProvision
  <2>6. FilesOK
    BY <2>0, <2>4 DEF FilesOK, ProcessOK, OlderOK, Placed
  <2>7. Apart
    <3>1. \A b \in Builders : b \in Procs /\ b \notin Cleaners
      BY ProcsAssumption DEF Procs
    <3> QED BY <1>1, <3>1 DEF InitProvision, Apart
  <2>8. HonestInv
    BY <2>1, <2>3, <2>4, QuietStart DEF HonestInv, HonestBut, Quiet
  <2> QED BY <2>0, <2>1, <2>3, <2>4, <2>6, <2>7, <2>8, QuietStart DEF LibraryInv
<1>2. CASE Init /\ files = {} /\ stage = [p \in Provisioners |-> "away"]
  <2>1. FilesOK /\ Apart
    BY <1>2 DEF LibraryInit, FilesOK, ProcessOK, OlderOK, Placed, Apart
  <2>2. Typing /\ LocksOK /\ BlobsOK /\ Complete(Names \cup References) /\ ReclaimOK /\ HonestInv
    BY <1>2, StoreStart
  <2>3. ASSUME NEW version \in References
        PROVE  version \notin DOMAIN tags /\ ~Waiting(version)
    <3>1. version \notin Names
      BY ReferencesAssumption DEF Names
    <3> QED BY <1>2, <3>1 DEF Init, Empty, Left, Waiting, Names
  <2>4. caught = {}
    BY DEF LibraryInit
  <2> QED BY <2>1, <2>2, <2>3, <2>4 DEF LibraryInv, Complete, ImagesOK
<1> QED BY <1>1, <1>2 DEF LibraryInit

LEMMA LibraryKept ==
  ASSUME LibraryInv, Complete(Names), [LibraryNext]_libraryVars
  PROVE  LibraryInv' /\ Complete(Names)'
<1> USE DEF LibraryInv
<1>0. caught' \subseteq References
  BY DEF LibraryNext, Catches, libraryVars
<1>1. CASE [Next]_vars /\ UNCHANGED fileVars
  <2>1. Typing' /\ LocksOK' /\ BlobsOK' /\ Complete(Names)' /\ ReclaimOK'
    BY <1>1, TypingKept, LocksKept, BlobsKept, ReclaimKept
  <2>2. FilesOK'
    BY <1>1 DEF fileVars, FilesOK, ProcessOK, OlderOK, InPlace
  <2>3. Apart'
    BY <1>1, AwayStays DEF Apart, fileVars
  <2> QED BY <1>0, <2>1, <2>2, <2>3
<1>2. ASSUME NEW p \in Provisioners, Provision(p)
      PROVE  LibraryInv' /\ Complete(Names)'
  <2>1. Typing' /\ LocksOK' /\ BlobsOK' /\ Complete(Names)'
    BY <1>2, ProvisionKeeps, NamesStay DEF Complete, Holds
  <2>2. FilesOK'
    BY <1>2, FilesKept
  <2>3. stage[p] # "away"
    BY <1>2 DEF Provision, LookForKernel, MoveKernel, LookForInitfs, GetInitImage, TagInitImage, UnpackInitfs,
         ProvisionFails, ListRetired, RemoveFile, ListImages, DeleteImage, Provisioned, Select, OpenKernel
  <2>4. (\A b \in Builders : pc[b] = "away") /\ pc' = pc
    BY <1>2, <2>3, ProvisionTouches DEF Apart
  <2>5. Apart' /\ ReclaimOK'
    BY <2>4 DEF Apart, ReclaimOK, Untouched
  <2> QED BY <1>0, <2>1, <2>2, <2>5
<1> QED BY <1>1, <1>2 DEF LibraryNext, libraryVars

\* A version that is not caught either has its blobs after the step, or was
\* not caught before, when nobody was about to tag it.
LEMMA ImagesKept ==
  ASSUME LibraryInv, Complete(Names), ImagesOK, [LibraryNext]_libraryVars
  PROVE  ImagesOK'
<1>1. CASE UNCHANGED libraryVars
  BY <1>1 DEF libraryVars, vars, storeVars, fileVars, ImagesOK, Waiting, Holds
<1>2. CASE LibraryNext
  <2> SUFFICES ASSUME NEW version \in References
               PROVE  /\ version \in DOMAIN tags' => tags'[version] = InitImage(version)
                      /\ version \notin caught' /\ (version \in DOMAIN tags' \/ Waiting(version)') =>
                           Parts(InitImage(version)) \subseteq blobs'
    BY DEF ImagesOK, Holds
  <2>1. version \notin caught' =>
          Parts(InitImage(version)) \subseteq blobs' \/ (version \notin caught /\ ~Waiting(version))
    BY <1>2 DEF LibraryNext, Catches, Waiting
  <2>2. version \notin Names
    BY ReferencesAssumption DEF Names
  <2>3. /\ version \in DOMAIN tags => tags[version] = InitImage(version)
        /\ version \notin caught /\ version \in DOMAIN tags => Parts(InitImage(version)) \subseteq blobs
    BY DEF ImagesOK, Holds
  <2>4. CASE Next /\ UNCHANGED fileVars
    <3>1. /\ version \in DOMAIN tags' <=> version \in DOMAIN tags
          /\ version \in DOMAIN tags => tags'[version] = tags[version]
      BY <2>2, <2>4, ReferencesStay DEF LibraryInv
    <3>2. Waiting(version)' <=> Waiting(version)
      BY <2>4 DEF fileVars, Waiting
    <3>3. ASSUME version \notin caught, version \in DOMAIN tags
          PROVE  Parts(InitImage(version)) \subseteq blobs'
      <4>1. Complete(Names \cup {version})
        BY <2>3, <3>3 DEF Complete, Holds
      <4>2. Complete(Names \cup {version})'
        BY <2>4, <4>1, BlobsKept DEF LibraryInv
      <4> QED BY <2>3, <3>1, <3>3, <4>2 DEF Complete, Holds
    <3> QED BY <2>1, <2>3, <3>1, <3>2, <3>3
  <2>5. ASSUME NEW p \in Provisioners, Provision(p)
        PROVE  /\ version \in DOMAIN tags' => tags'[version] = InitImage(version)
               /\ version \notin caught' /\ (version \in DOMAIN tags' \/ Waiting(version)') =>
                    Parts(InitImage(version)) \subseteq blobs'
    <3>1. blobs \subseteq blobs'
      BY <2>5, ProvisionKeeps DEF LibraryInv
    <3>2. /\ version \in DOMAIN tags' => tags'[version] = InitImage(version)
          /\ version \in DOMAIN tags' => version \in DOMAIN tags \/ Waiting(version)
      <4>1. CASE UNCHANGED <<blobs, tags>>
        BY <2>3, <4>1
      <4>2. CASE GetInitImage(p)
        BY <2>3, <4>2, ImagePulled
      <4>3. CASE TagInitImage(p)
        <5> DEFINE own == Pin[p].initfs
        <5>1. stage[p] = "tagging" /\ tags' = Put(tags, own, InitImage(own))
          BY <4>3, ImageTagged
        <5>2. version = own => Waiting(version)
          BY <5>1 DEF Waiting
        <5> HIDE DEF own
        <5> QED BY <2>3, <5>1, <5>2 DEF Put
      <4>4. CASE DeleteImage(p)
        BY <2>3, <4>4, ImagesDeleted
      <4> QED BY <2>5, <4>1, <4>2, <4>3, <4>4, ProvisionTouches
    <3>3. Waiting(version)' => Waiting(version) \/ Parts(InitImage(version)) \subseteq blobs'
      <4>1. SUFFICES ASSUME NEW q \in Provisioners, stage'[q] = "tagging", Pin[q].initfs = version, stage[q] # "tagging"
                     PROVE  Parts(InitImage(version)) \subseteq blobs'
        BY DEF Waiting
      <4>2. q = p /\ GetInitImage(p)
        BY <2>5, <4>1 DEF LibraryInv, FilesOK, To, Provision, LookForKernel, MoveKernel, LookForInitfs, TagInitImage,
             UnpackInitfs, ProvisionFails, ListRetired, RemoveFile, ListImages, DeleteImage, Provisioned, Select,
             OpenKernel, GetInitImage
      <4>3. stage'[p] = IF version \in DOMAIN tags THEN "unpacking" ELSE "tagging"
        BY <4>1, <4>2, ImagePulled, Staging DEF LibraryInv, FilesOK
      <4> QED BY <4>1, <4>2, <4>3, ImagePulled
    <3> QED BY <2>1, <2>3, <3>1, <3>2, <3>3
  <2> QED BY <1>2, <2>4, <2>5 DEF LibraryNext
<1> QED BY <1>1, <1>2

\* The inductive invariant: types, whose the lock is, the blobs that must be
\* there, who still has to reclaim, and what provisioning left in place.
THEOREM Inductive == LibrarySpec => [](LibraryInv /\ Complete(Names))
<1>1. LibraryInit => LibraryInv /\ Complete(Names)
  BY LibraryStart
<1>2. LibraryInv /\ Complete(Names) /\ [LibraryNext]_libraryVars => (LibraryInv /\ Complete(Names))'
  BY LibraryKept
<1> QED BY <1>1, <1>2, PTL DEF LibrarySpec

\* The store stays well formed: reclaim.lock is shared by the builds from before
\* their pull to their end, however they leave, or it is the one reclaim's that
\* deletes; and nothing is listed to retire but older versions.
THEOREM TypeCorrect == LibrarySpec => []LibraryTypeOK
<1>1. LibraryInv => LibraryTypeOK
  <2> SUFFICES ASSUME LibraryInv PROVE LibraryTypeOK
    OBVIOUS
  <2>1. TypeOver(Names \cup References, Digests)
    <3>1. context \in [Scripts -> 0..2] /\ disturbed \subseteq Builders /\ faults \in 0..MaxFaults
      BY DEF LibraryInv, Typing, LocksTyped
    <3>4. /\ building = {b \in Builders : pc[b] \in Sharing}
          /\ \A p \in Procs : pc[p] = "deleting" <=> reclaiming = p
          /\ reclaiming # NoProc => building = {}
      BY DEF LibraryInv, LocksOK, LockOf, Typing, LocksTyped, Procs
    <3>2. \A p \in Procs : job[p].plan \in DOMAIN Plans /\ job[p].rootfs \in Rootfs
      BY PlansAre DEF LibraryInv, Typing, PlacesTyped, Locals
    <3>3. \A d \in DOMAIN unpacked : d \in Digests
      BY DEF LibraryInv, Typing, UnpackedTyped, Digests
    <3> QED BY <3>1, <3>2, <3>3, <3>4 DEF LibraryInv, Typing, BlobsTyped, TagsTyped, TypeOver
  <2>2. files \subseteq UNION {Pins(p) : p \in Provisioners} /\ caught \subseteq References
    BY DEF LibraryInv, FilesOK
  <2>3. \A p \in Provisioners : \A thing \in older[p] : IsOlder(thing[2], Pin[p].initfs) \/ thing[1] = "kernel"
    BY DEF LibraryInv, FilesOK, OlderOK
  <2> QED BY <2>1, <2>2, <2>3 DEF LibraryTypeOK, Names, Digests
<1> QED BY <1>1, Inductive, PTL

\* Every tag has its blobs with provisioning at work too, excepting an init image
\* a reclaim took between its pull and its tag: get_init_image takes no lock.
THEOREM InitImagesKeepBlobs == LibrarySpec => []ImagesComplete
<1> DEFINE Inv == LibraryInv /\ Complete(Names) /\ ImagesOK
<1>1. LibraryInit => Inv
  BY LibraryStart
<1>2. Inv /\ [LibraryNext]_libraryVars => Inv'
  BY LibraryKept, ImagesKept
<1>3. Inv => ImagesComplete
  BY DEF LibraryInv, Typing, TagsTyped, Complete, ImagesOK, ImagesComplete, Holds
<1> HIDE DEF Inv
<1> QED BY <1>1, <1>2, <1>3, PTL DEF LibrarySpec

\* A build's base keeps its blobs from the pull to the end of the build, though
\* another build moves the tag and a clean deletes what no tag refers to.
THEOREM BaseKeepsBlobs == LibrarySpec => []BasesHeld
<1>1. LibraryInv => BasesHeld
  BY DEF LibraryInv, BlobsOK, BlobsOf, BasesHeld, Holds
<1> QED BY <1>1, Inductive, PTL

\* What the store keeps under a name is what the name says, whatever releases
\* are at work, except what builds did whose scripts another wrote before they
\* had copied them.
THEOREM NamesHonest == LibrarySpec => []CacheHonest
<1> DEFINE Inv == LibraryInv /\ Complete(Names) /\ HonestInv
<1>1. LibraryInit => Inv
  BY LibraryStart
<1>2. Inv /\ [LibraryNext]_libraryVars => Inv'
  <2> SUFFICES ASSUME Inv, [LibraryNext]_libraryVars PROVE Inv'
    OBVIOUS
  <2>1. LibraryInv' /\ Complete(Names)'
    BY LibraryKept
  <2>2. CASE [Next]_vars
    BY <2>1, <2>2, HonestKept DEF LibraryInv
  <2>3. ASSUME NEW p \in Provisioners, Provision(p)
        PROVE  HonestInv'
    BY <2>3, ProvisionHonest DEF LibraryInv
  <2> QED BY <2>1, <2>2, <2>3 DEF LibraryNext, libraryVars
<1>3. Inv => CacheHonest
  BY HonestCache DEF LibraryInv
<1> HIDE DEF Inv
<1> QED BY <1>1, <1>2, <1>3, PTL DEF LibrarySpec

\* When builds and cleans are over, and nobody died, no unreferenced blob is
\* left: of builds that skip the reclaim, the last to end does not.
THEOREM BlobsReclaimed == LibrarySpec => []NothingLeftBehind
<1>1. LibraryInv => NothingLeftBehind
  BY NothingIsLeft DEF LibraryInv
<1> QED BY <1>1, Inductive, PTL

\* A kernel or init file system that was provisioned stays until a process of
\* a newer release retires it.
THEOREM ReadyStays == LibrarySpec => []ReadyUntilNewer
<1>1. LibraryInv => ReadyUntilNewer
  BY DEF LibraryInv, FilesOK, ProcessOK, InPlace, Placed, Retired, ReadyUntilNewer
<1> QED BY <1>1, Inductive, PTL
=============================================================================
