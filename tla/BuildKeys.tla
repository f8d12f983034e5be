----------------------------- MODULE BuildKeys -----------------------------
(***************************************************************************)
(* The keys of a build plan's steps (cache.rs): what goes into them, and   *)
(* so what a cached rootfs is taken to depend on.  A key hashes fields,    *)
(* each with its length before it, so it is the sequence of them; a digest *)
(* stands as the text of what it is of.                                    *)
(*                                                                         *)
(* A script is its text and the paths in it; a directory is a function     *)
(* from its files' relative paths to entries [kind, executable, text].     *)
(***************************************************************************)
EXTENDS Sequences, SequencesExt, TLC

CONSTANT PathOrder  \* the relative paths there are, in order

Digest(fields) == ToString(fields)
Unreadable == "unreadable"

\* BuildStep: a user left out is root.  Names are for the log.
Step(script, user) == [script |-> script, user |-> IF user = "" THEN "root" ELSE user]

\* reads: a step that names a mount is keyed on its contents.
Reads(step, mount) == mount.destination \in step.script.paths

\* A file's length when it was opened frames what is read of it after; text is
\* what it held then, and `now`, what was read.
Contents(entry) == IF Len(entry.text) = Len(entry.now) THEN entry.now ELSE Unreadable

\* collect keeps files and links, and the executable bit of a file.
Kept(tree) == SelectSeq(PathOrder, LAMBDA path : path \in DOMAIN tree /\ tree[path].kind \in {"file", "link"})
EntryFields(path, entry) ==
  IF entry.kind = "link" THEN <<path, "symlink", entry.text>>
  ELSE <<path, IF entry.executable THEN "755" ELSE "644", Contents(entry)>>
IsReadable(tree) == \A path \in DOMAIN tree : tree[path].kind = "file" => Contents(tree[path]) # Unreadable
DigestOf(tree) ==
  LET kept == Kept(tree)
  IN Digest(FlattenSeq([i \in DOMAIN kept |-> EntryFields(kept[i], tree[kept[i]])]))

\* The key before any step, and after each: the scripts and users so far, and
\* the contents of the mounts they read.  The base's digest is salted in later.
StepFields(plan, step) ==
  LET read == SelectSeq(plan.mounts, LAMBDA mount : Reads(step, mount))
  IN <<step.script.text, step.user>> \o [i \in DOMAIN read |-> DigestOf(read[i].source)]
KeyAfter(plan, n) ==
  Digest(<<"compostbin/build/1">> \o plan.environment
         \o FlattenSeq([i \in 1..n |-> StepFields(plan, plan.steps[i])]))

Readable(plan) ==
  \A i \in DOMAIN plan.mounts :
    (\E j \in DOMAIN plan.steps : Reads(plan.steps[j], plan.mounts[i])) => IsReadable(plan.mounts[i].source)
Keys(plan) == [n \in 1..Len(plan.steps) + 1 |-> KeyAfter(plan, n - 1)]
=============================================================================
