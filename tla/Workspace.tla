------------------------------ MODULE Workspace ------------------------------
(***************************************************************************)
(* Host paths, what they resolve to, and the list of mounts a session is   *)
(* given.  Pure operators: the state machines that use them keep the       *)
(* files.  A canonical path is the sequence of its names, so that          *)
(* Path::starts_with is IsPrefix; a path as it is written (a "raw" path)   *)
(* is a record [from, path], where from is "home" for ~/..., "root" for    *)
(* /... and "cwd" for every other spelling (~user included).  `..' is not  *)
(* modelled: canonicalize is what follows symbolic links.                  *)
(***************************************************************************)
EXTENDS Naturals, FiniteSets, TLC, SequencesExt

CONSTANTS Home,       \* $HOME
          Cwd,        \* the project directory: where every command is run
          ConfigDir,  \* $CLAUDE_CONFIG_DIR as written, or NoPath
          Links       \* the symbolic links: their path, to a canonical path

NoPath == <<>>
StartsWith(path, root) == IsPrefix(root, path)
Below(path, root) == SubSeq(path, Len(root) + 1, Len(path))

Resolve(raw) == CASE raw.from = "home" -> Home \o raw.path
                  [] raw.from = "root" -> raw.path
                  [] raw.from = "cwd"  -> Cwd \o raw.path

\* The Claude home of the host: an empty variable counts as unset.
HostClaudeHome == IF ConfigDir = NoPath THEN Append(Home, ".claude")
                  ELSE Resolve(ConfigDir)

\* Links are not nested and lead to canonical paths.
Canonical(path) ==
  LET on == {l \in DOMAIN Links : StartsWith(path, l)}
  IN IF on = {} THEN path
     ELSE LET link == CHOOSE l \in on : TRUE IN Links[link] \o Below(path, link)

\* Whether a root holds a path; which one is only told the user.
InRoot(path, roots) == \E i \in DOMAIN roots : StartsWith(path, roots[i])

Dir(names) == [from |-> "root", path |-> names]
InHome(names) == [from |-> "home", path |-> names]

SensitivePaths == {Dir(<<"etc">>), Dir(<<"private", "etc">>)} \union
  {InHome(<<n>>) : n \in {".aws", ".gnupg", ".kube", ".ssh"}} \union
  {InHome(<<"Library", "Keychains">>)}
BroadPaths == {Dir(<<>>), Dir(<<"Users">>), InHome(<<>>)} \union
  {InHome(<<n>>) : n \in {"Desktop", "Documents", "Downloads"}}

Danger(path) ==
  IF \E s \in SensitivePaths : StartsWith(path, Resolve(s)) THEN "sensitive"
  ELSE IF \E b \in BroadPaths : path = Resolve(b) THEN "broad"
  ELSE "none"

-----------------------------------------------------------------------------
\* A workspace is the sequence of its entries, in the order they were pushed.
Mounted(name) == <<"workspace", name>>

\* lib, then lib-2, lib-3, ...: the first name no earlier entry has taken.
BaseName(host) == IF host = <<>> THEN "root" ELSE Last(host)
NthName(base, n) == IF n = 1 THEN base ELSE base \o "-" \o ToString(n)
UniqueName(workspace, host) ==
  LET base == BaseName(host)
      free(n) == \A i \in DOMAIN workspace : workspace[i].guest # Mounted(NthName(base, n))
  IN NthName(base, CHOOSE n \in 1 .. Len(workspace) + 1 :
                     free(n) /\ \A k \in 1 .. n - 1 : ~free(k))

\* What asks for a mount.  NoPath is no target.
Claim(host, target, origin, readonly) ==
  [host |-> host, target |-> target, origin |-> origin, readonly |-> readonly]
EntryFor(workspace, claim) ==
  [guest    |-> IF claim.target = NoPath THEN Mounted(UniqueName(workspace, claim.host))
                ELSE claim.target,
   host     |-> claim.host,
   origin   |-> claim.origin,
   readonly |-> claim.readonly]
Push(workspace, claim) == Append(workspace, EntryFor(workspace, claim))

\* The workspace the claims make, pushed one by one.
Pushed(claims) ==
  LET work[n \in 0 .. Len(claims)] == IF n = 0 THEN <<>> ELSE Push(work[n - 1], claims[n])
  IN work[Len(claims)]

\* Where a host path is in the guest, through the first entry that holds it.
GuestPath(workspace, path) ==
  LET of == {i \in DOMAIN workspace : StartsWith(path, workspace[i].host)}
  IN IF of = {} THEN NoPath
     ELSE LET e == workspace[CHOOSE i \in of : \A j \in of : i <= j]
          IN e.guest \o Below(path, e.host)

Outermost(workspace) ==
  LET hosts == {workspace[i].host : i \in DOMAIN workspace}
  IN {h \in hosts : \A o \in hosts : StartsWith(h, o) => h = o}

\* The walk sees `limit' children at most, a directory's only after the
\* directory, and in no order the code fixes: one result for each outcome.
EscapingSymlinks(workspace, tree, limit) ==
  LET children == {p \in tree \union DOMAIN Links :
                     \E h \in Outermost(workspace) : StartsWith(p, h) /\ p # h}
      parents(p) == {q \in children : StartsWith(p, q) /\ q # p}
      size == IF Cardinality(children) < limit THEN Cardinality(children) ELSE limit
      walks == {s \in SUBSET children :
                  Cardinality(s) = size /\ \A p \in s : parents(p) \subseteq s}
      out(s) == {l \in s \intersect DOMAIN Links :
                   Links[l] \in tree /\ GuestPath(workspace, Links[l]) = NoPath}
  IN {[escapes |-> out(s), exhausted |-> s # children] : s \in walks}
=============================================================================
