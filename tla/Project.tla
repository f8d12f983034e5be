------------------------------- MODULE Project -------------------------------
(***************************************************************************)
(* The files of one project and the commands that read and rewrite them:   *)
(* init, add, doctor, doctor --fix, install, and run as far as it makes    *)
(* the container and records what it was started with.  Commands of        *)
(* several terminals interleave file by file, a save is a truncation and a *)
(* write, the user edits in between and a command may be killed.  No       *)
(* profile is given; what a session does once it runs is Session's.        *)
(***************************************************************************)
EXTENDS Doctor

CONSTANTS
  Procs,         \* terminals
  Schedules,     \* [commands, shared, local]: what may be run in each terminal,
                 \* [Procs -> [may, times]], over which files to begin with
  AddArgs,       \* arguments of add: [raw, force, local, readonly]
  SharedTables, LocalTables, UserTables,   \* what the user writes in each file
  Hosts,         \* hosts to begin with
  Removable,     \* the directories the user may remove
  MaxEdits, MaxFaults

ASSUME BoundsAssumption == MaxEdits \in Nat /\ MaxFaults \in Nat

\* A raw path, and an entry of [[paths]].
Raws == ToSet(SourceOrder)
Entries == [source : Raws, target : Seq(STRING), readonly : BOOLEAN]
ASSUME PathsAssumption ==
  /\ Home \in Seq(STRING) /\ Cwd \in Seq(STRING)
  /\ SourceOrder \in Seq([from : {"home", "root", "cwd"}, path : Seq(STRING)])
  /\ \A arg \in AddArgs :
       /\ Dir(Canonical(Resolve(arg.raw))) \in Raws
       /\ {arg.force, arg.local, arg.readonly} \subseteq BOOLEAN

\* Keys are sequences of names.
KeyPath(k) == k \in Seq(ToSet(k))
\* The user writes what the types of the manifest take.
Typed(table) ==
  /\ \A k \in DOMAIN table : KeyPath(k)
  /\ Paths \in DOMAIN table => table[Paths] \in Seq(Entries)
  /\ <<"workspace", "roots">> \in DOMAIN table => table[<<"workspace", "roots">>] \in Seq(Raws)
ASSUME TablesAssumption ==
  /\ \A t \in SharedTables \union LocalTables : Typed(t)
  /\ \A u \in UserTables : <<"claude", "keychain">> \in DOMAIN u => u[<<"claude", "keychain">>] \in BOOLEAN

\* Which of two that launch has the container is Session's question: one terminal runs.
Commanding == {"add", "doctor", "fix", "init", "install", "run"}
ASSUME SchedulesAssumption ==
  \A begin \in Schedules :
    /\ begin.commands \in [Procs -> [may : SUBSET Commanding, times : Nat]]
    /\ \A p, q \in Procs : "run" \in begin.commands[p].may \intersect begin.commands[q].may => p = q
    /\ begin.shared \subseteq {Absent, Unparsable} \union {Holding(t) : t \in SharedTables}
    /\ begin.local \subseteq {Absent, Unparsable} \union {Holding(t) : t \in LocalTables}

\* The project is there, and stays.
ASSUME HostsAssumption ==
  /\ \A h \in Hosts : /\ {"tree", "readable", "images", "missing"} \subseteq DOMAIN h
                      /\ h.readable \in BOOLEAN /\ Canonical(Cwd) \in h.tree
  /\ Canonical(Cwd) \notin Removable

VARIABLES
  files,     \* "shared", "local" and "user": a text's table
  record,    \* the mount record of the container
  vm,        \* the container: what it was started with
  host,      \* the tree of directories, the image store, the logins
  skills,    \* the installed files: the shipped one, a stray one, profiles
  pc, my,    \* where each command is, and its local variables
  trusted,   \* history: what doctor last found nothing wrong with
  given,     \* history: what add has recorded
  setting,   \* history: the Keychain setting as doctor --fix found it
  left       \* the commands, edits and faults still to come
vars == <<files, record, vm, host, skills, pc, my, trusted, given, setting, left>>

NoVm == [up |-> FALSE, recorded |-> FALSE, spec |-> EmptyRecord]
NoRecord == [state |-> "absent", record |-> EmptyRecord]
NoSession == [manifest |-> NoManifest, profile |-> "", user |-> EmptyTable]
Idle == [command |-> "none", arg |-> EmptyTable, base |-> Absent, session |-> NoSession,
         retired |-> <<>>, todo |-> <<>>, file |-> "", out |-> EmptyTable, next |-> "",
         running |-> FALSE, host |-> EmptyTable, plan |-> {}, stale |-> FALSE]
NotTrusted == [session |-> NoSession, host |-> EmptyTable]

\* Whether the session signs in with the Keychain: the user's own setting, or
\* the retired key in effect.
KeychainOn(f) ==
  IF <<"claude", "keychain">> \in DOMAIN f.user.table
  THEN f.user.table[<<"claude", "keychain">>]
  ELSE InEffect(RetiredIn(<<[name |-> "local", table |-> f.local.table],
                            [name |-> "shared", table |-> f.shared.table]>>))

Init ==
  /\ \E begin \in Schedules :
       /\ left = [commands |-> begin.commands, edits |-> MaxEdits, faults |-> MaxFaults]
       /\ files \in [shared : begin.shared, local : begin.local,
                     user : {Holding(u) : u \in UserTables}]
  /\ record = NoRecord /\ vm = NoVm
  /\ host \in Hosts
  /\ skills = [shipped |-> "absent", stray |-> FALSE, profiles |-> FALSE]
  /\ pc = [p \in Procs |-> "idle"] /\ my = [p \in Procs |-> Idle]
  /\ trusted = NotTrusted /\ given = {} /\ setting = KeychainOn(files)

\* p goes on at `to' with its local variables; what it changes, the commands
\* under way in the other terminals have read too early.
Go(p, to, locals) ==
  /\ pc' = [pc EXCEPT ![p] = to]
  /\ my' = [my EXCEPT ![p] = IF to = "idle" THEN Idle ELSE locals]
Disturbing(p, to, locals) ==
  /\ pc' = [pc EXCEPT ![p] = to]
  /\ my' = [q \in Procs |-> IF q = p THEN (IF to = "idle" THEN Idle ELSE locals)
                            ELSE [my[q] EXCEPT !.stale = pc[q] # "idle"]]
Disturbed == my' = [q \in Procs |-> [my[q] EXCEPT !.stale = pc[q] # "idle"]]
Outside == <<record, vm, host, skills, trusted, given, setting>>

\* Of all that rewrites the files, only a fix that has read what is there is
\* meant to keep the setting.
Set(p) == setting' = IF my[p].command = "fix" /\ ~my[p].stale THEN setting
                     ELSE KeychainOn(files')

-----------------------------------------------------------------------------
(* Starting a command.  Clap hands each its arguments.                     *)

Start(p, command, to) ==
  /\ pc[p] = "idle" /\ left.commands[p].times > 0 /\ command \in left.commands[p].may
  /\ left' = [left EXCEPT !.commands[p].times = @ - 1]
  /\ Go(p, to, [Idle EXCEPT !.command = command])
  /\ UNCHANGED <<files, Outside>>

\* mount::add judges the canonical path; a refusal or a missing path ends it.
StartAdd(p, arg) ==
  LET path == Canonical(Resolve(arg.raw))
  IN /\ pc[p] = "idle" /\ left.commands[p].times > 0 /\ "add" \in left.commands[p].may
     /\ path \in host.tree
     /\ Danger(path) = "none" \/ arg.force
     /\ left' = [left EXCEPT !.commands[p].times = @ - 1]
     /\ Go(p, "load_shared", [Idle EXCEPT !.command = "add",
                              !.arg = [path |-> path, force |-> arg.force, local |-> arg.local,
                                       readonly |-> arg.readonly]])
     /\ UNCHANGED <<files, Outside>>

StartInit(p) ==
  /\ pc[p] = "idle" /\ left.commands[p].times > 0 /\ "init" \in left.commands[p].may
  /\ left' = [left EXCEPT !.commands[p].times = @ - 1]
  /\ Go(p, "save", [Idle EXCEPT !.command = "init", !.file = "shared",
                    !.out = NamedAfter(Cwd), !.next = "idle"])
  /\ UNCHANGED <<files, Outside>>

-----------------------------------------------------------------------------
(* TomlFile::save writes in place: readers may find the file empty.        *)

Truncate(p) ==
  /\ pc[p] = "save"
  /\ files' = [files EXCEPT ![my[p].file] = Truncated]
  /\ Disturbing(p, "write", my[p]) /\ Set(p)
  /\ UNCHANGED <<record, vm, host, skills, trusted, given, left>>

Write(p) ==
  /\ pc[p] = "write"
  /\ files' = [files EXCEPT ![my[p].file] = Holding(my[p].out)]
  /\ Disturbing(p, my[p].next, my[p]) /\ Set(p)
  /\ given' = IF my[p].command # "add" THEN given
              ELSE given \union {[path |-> my[p].arg.path, force |-> my[p].arg.force,
                                  local |-> my[p].arg.local]}
  /\ UNCHANGED <<record, vm, host, skills, trusted, left>>

\* Session::load: the shared file, then the local one and the user's, which
\* only doctor --fix rewrites.
LoadShared(p) ==
  /\ pc[p] = "load_shared"
  /\ Go(p, "load_local", [my[p] EXCEPT !.base = files.shared])
  /\ UNCHANGED <<files, Outside, left>>

AfterLoad == [add |-> "record_path", doctor |-> "look", fix |-> "look", run |-> "is_running"]

\* Mutant: a manifest that does not load is taken all the same.
LoadLocalAnyhow(p) ==
  /\ pc[p] = "load_local"
  /\ Go(p, AfterLoad[my[p].command],
        [my[p] EXCEPT !.session = [manifest |-> Load(my[p].base, files.local), profile |-> "",
                                   user |-> files.user.table]])
  /\ UNCHANGED <<files, Outside, left>>

LoadLocal(p) ==
  LET manifest == Load(my[p].base, files.local)
  IN /\ pc[p] = "load_local"
     /\ IF manifest.ok /\ LoadIfPresent(files.user)
        THEN Go(p, AfterLoad[my[p].command],
                [my[p] EXCEPT !.base = Absent,
                              !.session = [manifest |-> manifest, profile |-> "",
                                           user |-> files.user.table]])
        ELSE Go(p, "idle", Idle)
     /\ UNCHANGED <<files, Outside, left>>

\* Mutant: what is saved are the paths of the manifest as it was loaded.
RecordLoaded(p) ==
  LET arg == my[p].arg
      added == AddOutcome(my[p].session, arg.path, arg.readonly, arg.local)
      file == FileOf(added.local)
      loaded == [e \in DOMAIN my[p].session.manifest.paths |->
                   [k \in {"source", "target", "readonly"} |-> my[p].session.manifest.paths[e][k]]]
  IN /\ pc[p] = "record_path"
     /\ added.outcome # "AlreadyMounted" /\ LoadIfPresent(files[file])
     /\ Go(p, "save", [my[p] EXCEPT !.file = file, !.next = "idle",
              !.out = WithPath(With(files[file].table, Paths, loaded), added.entry)])
     /\ UNCHANGED <<files, Outside, left>>

\* Session::add, then record_path on the one file the entry belongs in.
RecordPath(p) ==
  LET arg == my[p].arg
      added == AddOutcome(my[p].session, arg.path, arg.readonly, arg.local)
      file == FileOf(added.local)
  IN /\ pc[p] = "record_path"
     /\ IF added.outcome = "AlreadyMounted" \/ ~LoadIfPresent(files[file])
        THEN Go(p, "idle", Idle)
        ELSE Go(p, "save", [my[p] EXCEPT !.file = file, !.next = "idle",
                            !.out = WithPath(files[file].table, added.entry)])
     /\ UNCHANGED <<files, Outside, left>>

-----------------------------------------------------------------------------
(* doctor, and doctor --fix: retired keys come first, since a manifest     *)
(* that sets one does not load.                                            *)

FindInLocal(p) ==
  /\ pc[p] = "retired"
  /\ IF LoadIfPresent(files.local) THEN Go(p, "retired_shared", [my[p] EXCEPT !.base = files.local])
     ELSE Go(p, "idle", Idle)
  /\ UNCHANGED <<files, Outside, left>>

FindRetired(p) ==
  LET found == RetiredIn(<<[name |-> "local", table |-> my[p].base.table],
                           [name |-> "shared", table |-> files.shared.table]>>)
      in(file) == IF \E i \in DOMAIN found : found[i].file = file THEN <<file>> ELSE <<>>
      fixing == my[p].command = "fix"
  IN /\ pc[p] = "retired_shared"
     /\ IF ~LoadIfPresent(files.shared) \/ (found # <<>> /\ ~fixing) THEN Go(p, "idle", Idle)
        ELSE IF found = <<>> THEN Go(p, "load_shared", [my[p] EXCEPT !.base = Absent])
        ELSE Go(p, "fix_user", [my[p] EXCEPT !.base = Absent, !.retired = found,
                                             !.todo = in("local") \o in("shared")])
     /\ UNCHANGED <<files, Outside, left>>

\* config::fix: the user configuration before the files it comes from.
FixUser(p) ==
  /\ pc[p] = "fix_user"
  /\ IF InEffect(my[p].retired) /\ ~LoadIfPresent(files.user) THEN Go(p, "idle", Idle)
     ELSE IF TakesKeychain(my[p].retired, files.user.table)
          THEN Go(p, "save", [my[p] EXCEPT !.file = "user", !.next = "fix_files",
                              !.out = WithKeychain(files.user.table)])
     ELSE Go(p, "fix_files", my[p])
  /\ UNCHANGED <<files, Outside, left>>

FixFiles(p) ==
  LET todo == my[p].todo
  IN /\ pc[p] = "fix_files"
     /\ IF todo = <<>> THEN Go(p, "load_shared", [my[p] EXCEPT !.retired = <<>>])
        ELSE IF ~LoadIfPresent(files[Head(todo)]) THEN Go(p, "idle", Idle)
        ELSE Go(p, "save", [my[p] EXCEPT !.file = Head(todo), !.todo = Tail(todo),
                                         !.next = "fix_files",
                                         !.out = WithoutRetired(files[Head(todo)].table)])
     /\ UNCHANGED <<files, Outside, left>>

\* select needs a store that is ready; diagnose reads the images and whether
\* the container runs before everything else.
Look(p) ==
  /\ pc[p] = "look"
  /\ IF host.ready THEN Go(p, "diagnose", [my[p] EXCEPT !.running = vm.up, !.host = host])
     ELSE Go(p, "idle", Idle)
  /\ UNCHANGED <<files, Outside, left>>

Diagnosed(p) ==
  Diagnose(my[p].session, [host EXCEPT !.images = my[p].host.images,
                                       !.readable = my[p].host.readable],
           my[p].running, record)

DiagnoseAll(p) ==
  /\ pc[p] = "diagnose"
  /\ \E checks \in Diagnosed(p) :
       trusted' = IF Failed(checks) \/ my[p].running \/ my[p].stale THEN trusted
                  ELSE [session |-> my[p].session, host |-> host]
  /\ Go(p, "idle", Idle)
  /\ UNCHANGED <<setting, files, record, vm, host, skills, given, left>>

-----------------------------------------------------------------------------
(* run, from an engine that may hold the container already.                *)

IsRunning(p) ==
  /\ pc[p] = "is_running"
  /\ Go(p, IF vm.up \/ ~host.ready THEN "idle" ELSE "create", my[p])
  /\ UNCHANGED <<files, Outside, left>>

\* What keeps Session::create from booting.
CannotCreate(session) ==
  LET image == Image(session)
      exists(mount) == \/ StartsWith(mount.source, StateDir(session))
                       \/ mount.source = ClaudeHome(session)   \* run makes both
                       \/ Canonical(mount.source) \in host.tree
  IN \/ SocketInMount(session)
     \/ ~host.readable \/ image \notin host.images \/ image \in host.missing
     \/ \E i \in DOMAIN Mounts(session) : ~exists(Mounts(session)[i])

Create(p) ==
  /\ pc[p] = "create"
  /\ IF CannotCreate(my[p].session) THEN Go(p, "idle", Idle) /\ UNCHANGED vm
     ELSE /\ vm' = [up |-> TRUE, recorded |-> FALSE, spec |-> RecordOf(my[p].session)]
          /\ Go(p, "record", my[p])
  /\ UNCHANGED <<setting, files, record, host, skills, trusted, given, left>>

\* Record::save, in place as well.
TruncateRecord(p) ==
  /\ pc[p] = "record"
  /\ record' = [state |-> "table", record |-> EmptyRecord]
  /\ Disturbing(p, "record_write", my[p])
  /\ UNCHANGED <<setting, files, vm, host, skills, trusted, given, left>>
WriteRecord(p) ==
  /\ pc[p] = "record_write"
  /\ record' = [state |-> "table", record |-> RecordOf(my[p].session)]
  /\ vm' = [vm EXCEPT !.recorded = TRUE]
  /\ Disturbing(p, "attached", my[p])
  /\ UNCHANGED <<setting, files, host, skills, trusted, given, left>>

\* The container goes with the process that made it.
Exit(p) ==
  /\ pc[p] = "attached"
  /\ vm' = NoVm
  /\ Go(p, "idle", Idle)
  /\ UNCHANGED <<setting, files, record, host, skills, trusted, given, left>>

-----------------------------------------------------------------------------
(* install: skills::plan, the question, skills::apply.                     *)

PlanOf(found) ==
  (IF found.profiles THEN {} ELSE {"CreateDirectory"}) \union
  (CASE found.shipped = "absent"  -> {"Create"}
     [] found.shipped = "other"   -> {"Update"}
     [] found.shipped = "current" -> {}) \union
  (IF found.stray THEN {"Remove"} ELSE {})

Plan(p) ==
  /\ pc[p] = "plan"
  /\ IF PlanOf(skills) = {} THEN Go(p, "idle", Idle)
     ELSE \/ Go(p, "apply", [my[p] EXCEPT !.plan = PlanOf(skills)])
          \/ Go(p, "idle", Idle)                \* the answer was no
  /\ UNCHANGED <<files, Outside, left>>

\* Mutant: a stray file is left when anything else was to do.
ApplyAllButStrays(p) ==
  LET rest == my[p].plan \ {"CreateDirectory", "Remove"}
  IN /\ pc[p] = "apply"
     /\ skills' = IF rest = {} THEN [skills EXCEPT !.profiles = TRUE, !.stray = FALSE]
                  ELSE [skills EXCEPT !.profiles = TRUE, !.shipped = "current"]
     /\ Disturbing(p, "idle", Idle)
     /\ UNCHANGED <<setting, files, record, vm, host, trusted, given, left>>

\* In the order planned: the directory, the shipped files, then the strays.  A
\* shipped file is emptied and written in place; removing one that is gone is an
\* error and ends it.
Apply(p) ==
  LET plan == my[p].plan
      change == CASE "CreateDirectory" \in plan -> "CreateDirectory"
                  [] plan \intersect {"Create", "Update"} # {} /\ "CreateDirectory" \notin plan
                       -> CHOOSE c \in {"Create", "Update"} : c \in plan
                  [] OTHER -> "Remove"
      gone == change = "Remove" /\ ~skills.stray
      rest == IF gone THEN {} ELSE plan \ {change}
  IN /\ pc[p] = "apply"
     /\ skills' = CASE change = "CreateDirectory" -> [skills EXCEPT !.profiles = TRUE]
                    [] change = "Remove"          -> [skills EXCEPT !.stray = FALSE]
                    [] OTHER                      -> [skills EXCEPT !.shipped = "other"]
     /\ Disturbing(p, IF change \in {"Create", "Update"} THEN "apply_write"
                      ELSE IF rest = {} THEN "idle" ELSE "apply", [my[p] EXCEPT !.plan = rest])
     /\ UNCHANGED <<setting, files, record, vm, host, trusted, given, left>>

\* fs::write fills what it has truncated.
WriteSkill(p) ==
  /\ pc[p] = "apply_write"
  /\ skills' = [skills EXCEPT !.shipped = "current"]
  /\ Disturbing(p, IF my[p].plan = {} THEN "idle" ELSE "apply", my[p])
  /\ UNCHANGED <<setting, files, record, vm, host, trusted, given, left>>

-----------------------------------------------------------------------------
(* The user, between any two steps; and a command killed between two.      *)

Editing == left.edits > 0 /\ left' = [left EXCEPT !.edits = @ - 1] /\ Disturbed /\ UNCHANGED pc

EditFile ==
  /\ Editing
  /\ \E f \in {"shared", "local"} :
       \E t \in IF f = "shared" THEN SharedTables ELSE LocalTables :
         files' = [files EXCEPT ![f] = Holding(t)]
  /\ setting' = KeychainOn(files')
  /\ UNCHANGED <<record, vm, host, skills, trusted, given>>

RemoveDirectory ==
  /\ Editing
  /\ \E d \in Removable \intersect host.tree : host' = [host EXCEPT !.tree = @ \ {d}]
  /\ UNCHANGED <<setting, files, record, vm, skills, trusted, given>>

EditSkills ==
  /\ Editing
  /\ \E p \in Procs : "install" \in left.commands[p].may
  /\ skills' \in {[skills EXCEPT !.shipped = "other"], [skills EXCEPT !.stray = ~@]}
  /\ UNCHANGED <<setting, files, record, vm, host, trusted, given>>

Kill(p) ==
  /\ left.faults > 0 /\ left' = [left EXCEPT !.faults = @ - 1]
  /\ pc[p] \in {"write", "fix_files", "record", "record_write", "apply", "apply_write"}
  /\ vm' = IF my[p].command = "run" THEN NoVm ELSE vm
  /\ Disturbing(p, "idle", Idle)
  /\ UNCHANGED <<setting, files, record, host, skills, trusted, given>>

CommandStep(p) ==
  \/ Start(p, "doctor", "retired") \/ Start(p, "fix", "retired")
  \/ Start(p, "run", "load_shared") \/ Start(p, "install", "plan")
  \/ (\E arg \in AddArgs : StartAdd(p, arg)) \/ StartInit(p)
  \/ Truncate(p) \/ Write(p) \/ LoadShared(p) \/ LoadLocal(p) \/ RecordPath(p)
  \/ FindInLocal(p) \/ FindRetired(p) \/ FixUser(p) \/ FixFiles(p) \/ Look(p) \/ DiagnoseAll(p)
  \/ IsRunning(p) \/ Create(p) \/ TruncateRecord(p) \/ WriteRecord(p) \/ Exit(p)
  \/ Plan(p) \/ Apply(p) \/ WriteSkill(p)

Next == \/ \E p \in Procs : CommandStep(p) \/ Kill(p)
        \/ EditFile \/ RemoveDirectory \/ EditSkills
Spec == Init /\ [][Next]_vars

-----------------------------------------------------------------------------
(* Properties.                                                             *)

Places == {"idle", "load_shared", "load_local", "record_path", "save", "write", "retired",
           "retired_shared", "fix_user", "fix_files", "look", "diagnose", "is_running", "create", "record",
           "record_write", "attached", "plan", "apply", "apply_write"}

\* The variables keep their types, a command past its load has a manifest, and
\* there is a container exactly while the process that made it is there.
TypeOK ==
  /\ \A f \in DOMAIN files : files[f].state \in {"absent", "unparsable", "table"}
  /\ record.state \in {"absent", "table"} /\ {vm.up, vm.recorded, setting} \subseteq BOOLEAN
  /\ skills.shipped \in {"absent", "other", "current"} /\ skills.stray \in BOOLEAN
  /\ \A p \in Procs :
       /\ pc[p] \in Places
       /\ pc[p] = "idle" <=> my[p].command = "none"
       /\ pc[p] \in {"record_path", "look", "diagnose", "is_running", "create"}
            => my[p].session.manifest.ok
  /\ vm.up <=> \E p \in Procs : pc[p] \in {"record", "record_write", "attached"}

\* The manifest the files give now, as a session of it.
Now == [manifest |-> Load(files.shared, files.local), profile |-> "", user |-> files.user.table]

\* No two mounts of a loaded session meet at one guest path unless a declared
\* target put the later one there, and no declared path without a target takes
\* the project's name from it: session::workspace and unique_name, whatever
\* the two files hold and in whatever order the saves have sorted their paths.
NamesAreDistinct ==
  \A p \in Procs :
    pc[p] \in {"record_path", "look", "is_running"} =>
      LET session == my[p].session
          work == WorkspaceOf(session)
          declared == {Resolve(e.source) : e \in {e \in ToSet(session.manifest.paths) :
                                                    e.target # NoPath}}
          made == {i \in DOMAIN work : \/ work[i].origin \in {"root", "project"}
                                       \/ work[i].host \notin declared}
      IN /\ \A i \in DOMAIN work, j \in made : i < j => work[i].guest # work[j].guest
         /\ ~InRoot(Cwd, Roots(session))
              => \/ GuestPath(work, Cwd) = Mounted(BaseName(Cwd))
                 \/ \E e \in ToSet(work) : e.origin = "root" /\ e.guest = Mounted(BaseName(Cwd))

\* A path `add' recorded is in the file it was meant for: no local path is in
\* the shared file, nor the reverse, however adds, fixes and edits of the two
\* files overlap; and none is dangerous unless it was forced.
RecordedWhereAsked ==
  LET paths(table) == {e.source : e \in ToSet(Get(table, Paths, <<>>))}
      written(tables) == UNION {paths(t) : t \in tables}
      recorded(isLocal) == {Dir(g.path) : g \in {h \in given : h.local = isLocal}}
  IN /\ paths(files.shared.table) \subseteq written(SharedTables) \union recorded(FALSE)
     /\ paths(files.local.table) \subseteq written(LocalTables) \union recorded(TRUE)
     /\ \A g \in given : g.force \/ Danger(g.path) = "none"

\* An add nothing else ran into changes what the next container mounts by the
\* path it was given and by nothing else, through the load, the sort, the
\* save and the load again.
AddsOnlyAMount ==
  [][\A p \in Procs :
       pc[p] = "write" /\ my[p].command = "add" /\ Write(p) /\ ~my[p].stale =>
         LET seen(session) == {<<Resolve(e.source), e.readonly, e.local>> :
                                 e \in ToSet(session.manifest.paths)}
             mounts(session) == {<<e.host, e.readonly>> : e \in ToSet(WorkspaceOf(session))}
             arg == my[p].arg
         IN /\ Now'.manifest.ok
            /\ seen(Now') = seen(my[p].session) \union {<<arg.path, arg.readonly, arg.local>>}
            /\ mounts(Now') = mounts(my[p].session) \union {<<arg.path, arg.readonly>>}]_vars

\* A Keychain setting that is on is never lost to doctor --fix: at none of its
\* steps, wherever it is killed and whatever runs beside it, because the user
\* configuration has it before a manifest loses it (config::fix).
KeychainKept == setting => KeychainOn(files)

\* When doctor finds a running container to have the mounts the manifest
\* declares, the container has them: the same source and mode at each guest
\* path, the same ports and sockets.  Not while its maker has yet to save the
\* record, and not for a guest path declared twice.
DriftHonest ==
  [][\A p \in Procs :
       LET session == my[p].session
           wanted == Mounts(session)
           single(mounts) == \A i, j \in DOMAIN mounts :
                                mounts[i].target = mounts[j].target => i = j
       IN /\ pc[p] = "diagnose" /\ DiagnoseAll(p)
          /\ my[p].running /\ vm.up /\ vm.recorded
          /\ LiveMounts(session, TRUE, record).status = "Ok"
          /\ single(wanted) /\ single(vm.spec.mounts)
          => /\ ToSet(wanted) = ToSet(vm.spec.mounts)
             /\ ToSet(Ports(session)) = vm.spec.ports
             /\ SocketsOf(session) = vm.spec.sockets]_vars

\* A container that cannot be made although doctor failed nothing for the
\* same files and the same host has a socket inside a mount or an image of its
\* own, the two things doctor does not look at.
HealthyStarts ==
  [][\A p \in Procs :
       /\ pc[p] = "create" /\ Create(p) /\ ~vm'.up
       /\ my[p].session = trusted.session /\ host = trusted.host
       => SocketInMount(my[p].session) \/ Image(my[p].session) # <<"base">>]_vars

\* An installation nobody interfered with leaves nothing to install, also one
\* that starts where another was killed: an empty plan means up to date.
InstallConverges ==
  [][\A p \in Procs :
       pc[p] \in {"apply", "apply_write"} /\ pc'[p] = "idle" /\ left' = left /\ ~my[p].stale
         => PlanOf(skills') = {}]_vars
=============================================================================
