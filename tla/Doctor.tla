------------------------------- MODULE Doctor -------------------------------
(***************************************************************************)
(* The checks of `compostbin doctor', each a status and the items it       *)
(* names, as operators of the session and of what the check looks at: the  *)
(* host (a record: the tree of existing paths, the image store, the        *)
(* logins, what listens), whether the container runs, and its record.      *)
(***************************************************************************)
EXTENDS RunSpec

CONSTANT WalkLimit   \* WALK_LIMIT: the children doctor's walk may see

Check(status, items) == [status |-> status, items |-> items]
Worst(bad, status, items) == IF bad THEN Check(status, items) ELSE Check("Ok", {})

\* The store is read once for both.
StoreCheck(host) == Worst(~host.readable, "Fail", {})
BaseImage(session, host) ==
  LET wanted == <<Key(session, <<"project", "image">>)>>
  IN Worst(~host.readable \/ wanted \notin host.images \/ wanted \in host.missing,
           "Fail", {wanted})

\* Mutant: the paths of the local file are not looked for.
MountedSharedPaths(session, host) ==
  LET missing == {e.host : e \in {e \in ToSet(WorkspaceOf(session)) :
                    e.origin \in {"root", "explicit"} /\ Canonical(e.host) \notin host.tree}}
  IN Worst(missing # {}, "Fail", missing)

\* Every entry but the project, which is where the command runs.
MountedPaths(session, host) ==
  LET entries == ToSet(WorkspaceOf(session))
      missing == {e.host : e \in {e \in entries : /\ e.origin # "project"
                                                  /\ Canonical(e.host) \notin host.tree}}
  IN Worst(missing # {}, "Fail", missing)

DanglingSymlinks(session, host) ==
  {Worst(found.escapes # {}, "Warn", found.escapes) :
     found \in EscapingSymlinks(WorkspaceOf(session), host.tree, WalkLimit)}

\* Judged by its canonical path when it has one.
RootBreadth(session, host) ==
  LET judged(p) == IF Canonical(p) \in host.tree THEN Canonical(p) ELSE p
      dangerous == {e.host : e \in {e \in ToSet(WorkspaceOf(session)) :
                                      Danger(judged(e.host)) # "none"}}
  IN Worst(dangerous # {}, "Warn", dangerous)

\* Whether the container was started with the mounts the manifest now has.
LiveMounts(session, running, file) ==
  CASE ~running                         -> Check("Ok", {"not running"})
    [] running /\ file.state = "absent" -> Check("Warn", {"no record"})
    [] OTHER -> LET drift == Drift(file.record, session)
                IN Worst(~DriftIsEmpty(drift), "Warn", DriftLines(drift))

Allowlist(session) ==
  LET served == ServedCommands(session.manifest.table)
      widened == {n \in DOMAIN served : served[n].arguments}
  IN Check(IF HasCommands(session.manifest.table) /\ widened # {} THEN "Warn" ELSE "Ok",
           DOMAIN served)

\* Ports or sockets nothing answers for, where they answer in the guest.
Forwarded(session, host, kind) ==
  LET forwards == {f \in ToSet(ForwardsOf(session.manifest.table)) : f.upstream.kind = kind}
      idle == {GuestAddress(f) : f \in {f \in forwards : f.upstream.at \notin host.listening}}
  IN Worst(idle # {}, "Warn", idle)

\* A login in the session's own home does, else the Keychain, else a key.
CredentialsCheck(session, host) ==
  LET keychain == Get(session.user, <<"claude", "keychain">>, UserDefault[<<"claude", "keychain">>])
      login == host.fileLogin \/ (keychain /\ host.keychainLogin = "yes") \/ host.apiKey
  IN Worst(~login, "Fail", {})

\* diagnose: one outcome for each order the walk may take.
Diagnose(session, host, running, file) ==
  {[store       |-> StoreCheck(host),
    image       |-> BaseImage(session, host),
    paths       |-> MountedPaths(session, host),
    symlinks    |-> symlinks,
    live        |-> LiveMounts(session, running, file),
    breadth     |-> RootBreadth(session, host),
    credentials |-> CredentialsCheck(session, host),
    commands    |-> Allowlist(session),
    ports       |-> Forwarded(session, host, "port"),
    sockets     |-> Forwarded(session, host, "socket")] :
     symlinks \in DanglingSymlinks(session, host)}

Failed(checks) == \E c \in DOMAIN checks : checks[c].status = "Fail"

-----------------------------------------------------------------------------
\* Retired keys, in the order of the files they are looked for in.
RetiredKeys == <<<<"claude", "keychain">>, <<"claude", "seed_from_keychain">>>>
RetiredIn(files) ==
  LET of(file, table) == FoldLeft(LAMBDA found, k :
                           IF k \in DOMAIN table
                           THEN Append(found, [file |-> file, value |-> table[k]]) ELSE found,
                           <<>>, RetiredKeys)
  IN FoldLeft(LAMBDA found, f : found \o of(f.name, f.table), <<>>, files)

\* The setting that was in effect: the first that is a boolean.
InEffect(retired) ==
  LET set == {i \in DOMAIN retired : retired[i].value \in {"true", "false"}}
  IN set # {} /\ retired[CHOOSE i \in set : \A j \in set : i <= j].value = "true"

\* Mutant: only a user configuration that has a [claude] table takes it.
TakesKeychainInTable(retired, user) ==
  InEffect(retired) /\ Names(user, <<"claude">>) = {"shared"}

\* The user configuration with the setting, unless it has its own.
TakesKeychain(retired, user) ==
  InEffect(retired) /\ <<"claude", "keychain">> \notin DOMAIN user
WithKeychain(user) == With(user, <<"claude", "keychain">>, TRUE)
WithoutRetired(table) == [k \in DOMAIN table \ ToSet(RetiredKeys) |-> table[k]]
=============================================================================
