------------------------------ MODULE RunSpec ------------------------------
(***************************************************************************)
(* What a session makes of its manifest: the workspace, the mounts, the    *)
(* forwards and the environment of its container, the record of what it    *)
(* was started with and how that differs from the manifest of now.  A      *)
(* session is a record [manifest, profile, user], profile "" for none and  *)
(* user the table of the user configuration.                               *)
(***************************************************************************)
EXTENDS Forwards, HostRequest

CONSTANTS
  Hash,           \* container name -> a hash of it
  GuestOverhead   \* the memory a VM needs beside its container's

Key(session, key) == Value(session.manifest.table, key)
Ports(session) == Key(session, <<"host", "ports">>)
Roots(session) == LET roots == Key(session, <<"workspace", "roots">>)
                  IN [i \in DOMAIN roots |-> Resolve(roots[i])]

\* The container's name; a profile's carries the directory with it.
ContainerName(session) ==
  LET name == Key(session, <<"project", "name">>)
  IN CASE session.profile # "" -> <<Last(Cwd), Cwd>>
       [] session.profile = "" /\ name # "" -> <<name>>
       [] OTHER -> <<Last(Cwd)>>

RootClaims(session) ==
  [i \in DOMAIN Roots(session) |-> Claim(Roots(session)[i], NoPath, "root", FALSE)]
ProjectClaims(session) ==
  IF InRoot(Cwd, Roots(session)) THEN <<>> ELSE <<Claim(Cwd, NoPath, "project", FALSE)>>
PathClaims(session) ==
  LET paths == session.manifest.paths
  IN [i \in DOMAIN paths |->
        Claim(Resolve(paths[i].source), paths[i].target,
              IF paths[i].local THEN "local" ELSE "explicit", paths[i].readonly)]

\* Mutant: the project comes after the declared paths.
ClaimsWithProjectLast(session) ==
  RootClaims(session) \o PathClaims(session) \o ProjectClaims(session)

\* The roots, the project unless a root holds it, then the declared paths: a
\* guest name goes to the first that claims it.
Claims(session) == RootClaims(session) \o ProjectClaims(session) \o PathClaims(session)
WorkspaceOf(session) == Pushed(Claims(session))

StateDir(session) == Home \o <<".local", "state", "sessions">> \o ContainerName(session)
ClaudeHome(session) ==
  IF Key(session, <<"claude", "home">>) # NoPath
  THEN Resolve(Key(session, <<"claude", "home">>))
  ELSE Append(StateDir(session), "claude-home")

Mount(source, target, readonly) ==
  [source |-> source, target |-> target, readonly |-> readonly]

Mounts(session) ==
  LET work == WorkspaceOf(session)
  IN [i \in DOMAIN work |-> Mount(work[i].host, work[i].guest, work[i].readonly)]
     \o (IF HasCommands(session.manifest.table)
         THEN <<Mount(Append(StateDir(session), "host"), <<"run", "compostbin", "host">>, FALSE)>>
         ELSE <<>>)
     \o <<Mount(Append(StateDir(session), "managed"), <<"etc", "claude-code">>, TRUE),
          Mount(ClaudeHome(session), <<"home", "claude", ".claude">>, FALSE)>>

Workdir(session) == LET guest == GuestPath(WorkspaceOf(session), Cwd)
                    IN IF guest = NoPath THEN <<"workspace">> ELSE guest

\* The image a session boots: one of its own when [image] adds anything.
Image(session) ==
  IF ImageIsEmpty(session.manifest.table) THEN <<Key(session, <<"project", "image">>)>>
  ELSE IF session.profile # "" THEN <<"profile", session.profile>>
  ELSE <<"project">> \o ContainerName(session)

SocketsOf(session) ==
  [n \in SocketNames(session.manifest.table) |-> SocketOf(session.manifest.table, n)]

\* [container] env, but for the variables that [container.environment] sets.
Inherit(name) == [kind |-> "inherit", name |-> name]
Assign(name, value) == [kind |-> "set", name |-> name, value |-> value]
InheritedEnv(session) ==
  LET table == session.manifest.table
      set == Names(table, Environment)
      env == SelectSeq(Key(session, <<"container", "env">>), LAMBDA n : n \notin set)
      names == SetToSeq(set)
  IN [i \in DOMAIN env |-> Inherit(env[i])]
     \o [i \in DOMAIN names |-> Assign(names[i], table[Append(Environment, names[i])])]

\* The setup lines, Claude and the processes of the project run with these.
Own == <<Assign("CLAUDE_CONFIG_DIR", "claude home"), Assign("IS_SANDBOX", "1")>>
ExecSpec(session, arguments) ==
  [arguments   |-> arguments,
   env         |-> InheritedEnv(session) \o Own
                   \o (IF Key(session, <<"host", "clipboard">>)
                       THEN <<Assign("WAYLAND_DISPLAY", "compostbin-clipboard")>> ELSE <<>>),
   interactive |-> TRUE,
   name        |-> ContainerName(session),
   tty         |-> TRUE,
   user        |-> "",
   workdir     |-> Workdir(session)]
\* Setup is kept off the input meant for Claude; sockets are looked at by root.
SetupSpec(session, line) ==
  [ExecSpec(session, <<"bash", "-euo", "pipefail", "-c", line>>) EXCEPT
     !.interactive = FALSE, !.tty = FALSE]
SocketsReadySpec(session) == [SetupSpec(session, "sockets ready") EXCEPT !.user = "root"]
ProcessSpec(session, process) ==
  [ExecSpec(session, process.argv) EXCEPT !.tty = process.tty, !.user = process.user]

\* What the engine is asked for.  Root makes the sockets.
SpecOf(session) ==
  [arguments |-> Process(session.manifest.table),
   env       |-> InheritedEnv(session),
   image     |-> Image(session),
   mounts    |-> Mounts(session),
   name      |-> ContainerName(session),
   cpus      |-> Key(session, <<"container", "cpus">>),
   memory    |-> ParseMemory(Key(session, <<"container", "memory">>)),
   user      |-> IF HasSockets(session.manifest.table) THEN "root" ELSE "",
   workdir   |-> Workdir(session)]

\* The engine's configuration of the container: the VM around it has a core and
\* memory to spare, a mount is read-only by an option, the address is hashed.
Share(mount) == [source |-> mount.source, destination |-> mount.target,
                 options |-> IF mount.readonly THEN <<"ro">> ELSE <<>>]
Vm(spec) == [cpus |-> spec.cpus + 1, memory |-> spec.memory + GuestOverhead]
FirstHost == 2
LastHost == 250
Address(name) == FirstHost + (Hash[name] % (LastHost - FirstHost + 1))
Configure(spec, image) ==
  [cpus      |-> spec.cpus,
   memory    |-> spec.memory,
   arguments |-> spec.arguments,
   env       |-> image.env \o spec.env,
   user      |-> IF spec.user = "" THEN image.user ELSE spec.user,
   workdir   |-> spec.workdir,
   address   |-> Address(spec.name),
   mounts    |-> [i \in DOMAIN spec.mounts |-> Share(spec.mounts[i])]]

\* The facts of the briefing mounted for Claude.
Briefing(session) ==
  [commands  |-> ServedCommands(session.manifest.table),
   clipboard |-> Key(session, <<"host", "clipboard">>),
   ports     |-> ToSet(Ports(session)),
   sockets   |-> SocketTargets(session.manifest.table)]

-----------------------------------------------------------------------------
\* Record::of, as the record file holds it.
RecordOf(session) ==
  [mounts |-> Mounts(session), ports |-> ToSet(Ports(session)), sockets |-> SocketsOf(session)]
EmptyRecord == [mounts |-> <<>>, ports |-> {}, sockets |-> EmptyTable]

\* Mutant: mounts are compared by guest path only.
DriftOfTargets(record, session) ==
  LET targets(mounts) == {mount.target : mount \in ToSet(mounts)}
      sockets == SocketsOf(session)
  IN [added        |-> targets(Mounts(session)) \ targets(record.mounts),
      removed      |-> targets(record.mounts) \ targets(Mounts(session)),
      addedPorts   |-> ToSet(Ports(session)) \ record.ports,
      removedPorts |-> record.ports \ ToSet(Ports(session)),
      changedSockets |-> IF sockets = record.sockets THEN {} ELSE DOMAIN sockets]

\* What the record and the session's mounts, ports and sockets differ in.
\* Mounts are matched by guest path, the first recorded one of each.
Drift(record, session) ==
  LET ports == ToSet(Ports(session))
      sockets == SocketsOf(session)
      wanted == ToSet(Mounts(session))
      targets(mounts) == {mount.target : mount \in mounts}
      first(target) == LET at == {i \in DOMAIN record.mounts : record.mounts[i].target = target}
                       IN record.mounts[CHOOSE i \in at : \A j \in at : i <= j]
      both == DOMAIN sockets \intersect DOMAIN record.sockets
      known == targets(ToSet(record.mounts))
  IN [added          |-> {w \in wanted : w.target \notin known},
      changed        |-> {w \in wanted : w.target \in known /\ first(w.target) # w},
      removed        |-> {r \in ToSet(record.mounts) : r.target \notin targets(wanted)},
      addedPorts     |-> ports \ record.ports,
      removedPorts   |-> record.ports \ ports,
      addedSockets   |-> DOMAIN sockets \ DOMAIN record.sockets,
      removedSockets |-> DOMAIN record.sockets \ DOMAIN sockets,
      changedSockets |-> {n \in both : sockets[n] # record.sockets[n]}]

\* Why each is a difference, as doctor tells it.
Reasons == [added |-> "invisible in the session", removed |-> "still exposed",
            changed |-> "mounted differently", addedPorts |-> "refused in the session",
            removedPorts |-> "still reachable", addedSockets |-> "missing in the session",
            removedSockets |-> "still reachable", changedSockets |-> ""]
DriftLines(drift) ==
  UNION {{<<part, Reasons[part], d>> : d \in drift[part]} : part \in DOMAIN drift}

DriftIsEmpty(drift) == \A part \in DOMAIN drift : drift[part] = {}

-----------------------------------------------------------------------------
\* Session::add: the path is canonical.
AddOutcome(session, path, readonly, isLocal) ==
  IF InRoot(path, Roots(session))
  THEN [outcome |-> "AlreadyMounted", local |-> FALSE, entry |-> EmptyTable]
  ELSE [outcome |-> "NeedsRestart", local |-> isLocal,
        entry   |-> [source |-> Dir(path), target |-> NoPath, readonly |-> readonly]]

\* The first socket that would be made inside a mount, and hidden by it.
SocketInMount(session) ==
  \E target \in SocketTargets(session.manifest.table), i \in DOMAIN Mounts(session) :
     StartsWith(target, Mounts(session)[i].target)
=============================================================================
