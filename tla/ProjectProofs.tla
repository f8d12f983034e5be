---------------------------- MODULE ProjectProofs -----------------------------
(***************************************************************************)
(* Proofs about Project, for any tables, schedules and number of           *)
(* terminals: where its commands are and what each has in hand, what an    *)
(* installation and a fix leave behind, what add records and what it       *)
(* changes for the next container, what doctor says of a container and of  *)
(* the next start, and which names a workspace gives.                      *)
(***************************************************************************)
EXTENDS Project, TLAPS, FiniteSetTheorems, SequenceTheorems, WellFoundedInduction

-----------------------------------------------------------------------------
(* Steps.                                                                    *)

Framed == DOMAIN pc = Procs /\ DOMAIN my = Procs

(* What a step does to the terminal that takes it, and to the others.        *)
Moves(p, to, local) == pc'[p] = to /\ my'[p] = IF to = "idle" THEN Idle ELSE local
Untouched(q) == pc'[q] = pc[q] /\ my'[q] = my[q]
Outdated(q) == pc'[q] = pc[q] /\ my'[q] = [my[q] EXCEPT !.stale = pc[q] # "idle"]

LEMMA Going ==
  ASSUME Framed, NEW p \in Procs, NEW to, NEW local, Go(p, to, local)
  PROVE  Framed' /\ Moves(p, to, local) /\ \A q \in Procs \ {p} : Untouched(q)
BY DEF Framed, Go, Moves, Untouched

LEMMA Disturbs ==
  ASSUME Framed, NEW p \in Procs, NEW to, NEW local, Disturbing(p, to, local)
  PROVE  Framed' /\ Moves(p, to, local) /\ \A q \in Procs \ {p} : Outdated(q)
BY DEF Framed, Disturbing, Moves, Outdated

LEMMA Edits ==
  ASSUME Framed, Editing
  PROVE  Framed' /\ \A q \in Procs : Outdated(q)
BY DEF Framed, Editing, Disturbed, Outdated

(* A command that has read nothing too early sees what it has read.          *)
Calm(q) == UNCHANGED <<files, record, skills>> /\ host' = host
Bystander(q) == (Untouched(q) /\ Calm(q)) \/ Outdated(q)
Moving(p) == \A q \in Procs \ {p} : Bystander(q)

LEMMA MovingStep ==
  ASSUME Framed, NEW p \in Procs, CommandStep(p) \/ Kill(p)
  PROVE  Framed' /\ Moving(p)
<1> DEFINE Goes == \E to, local : Go(p, to, local)
           Disturbs_ == \E to, local : Disturbing(p, to, local)
<1>1. ASSUME Goes, UNCHANGED <<files, record, skills, host>>
      PROVE  Framed' /\ Moving(p)
  BY <1>1, Going DEF Moving, Bystander, Calm
<1>2. ASSUME Disturbs_
      PROVE  Framed' /\ Moving(p)
  BY <1>2, Disturbs DEF Moving, Bystander
<1>3. ASSUME NEW command, NEW to, Start(p, command, to)
      PROVE  Goes /\ UNCHANGED <<files, record, skills, host>>
  BY <1>3 DEF Start, Outside
<1>4. ASSUME NEW arg, StartAdd(p, arg)
      PROVE  Goes /\ UNCHANGED <<files, record, skills, host>>
  BY <1>4 DEF StartAdd, Outside
<1>5. ASSUME StartInit(p)
      PROVE  Goes /\ UNCHANGED <<files, record, skills, host>>
  BY <1>5 DEF StartInit, Outside
<1>6. ASSUME LoadShared(p) \/ LoadLocal(p) \/ RecordPath(p)
      PROVE  Goes /\ UNCHANGED <<files, record, skills, host>>
  BY <1>6 DEF LoadShared, LoadLocal, RecordPath, Outside
<1>7. ASSUME FixUser(p) \/ FixFiles(p)
      PROVE  Goes /\ UNCHANGED <<files, record, skills, host>>
  <2>1. CASE FixUser(p)
    BY <2>1 DEF FixUser, Outside
  <2>2. CASE FixFiles(p)
    BY <2>2 DEF FixFiles, Outside
  <2> QED BY <1>7, <2>1, <2>2
<1>8. ASSUME FindInLocal(p) \/ FindRetired(p)
      PROVE  Goes /\ UNCHANGED <<files, record, skills, host>>
  BY <1>8 DEF FindInLocal, FindRetired, Outside
<1>9. ASSUME Look(p) \/ DiagnoseAll(p) \/ IsRunning(p) \/ Create(p) \/ Exit(p) \/ Plan(p)
      PROVE  Goes /\ UNCHANGED <<files, record, skills, host>>
  BY <1>9 DEF Look, DiagnoseAll, IsRunning, Create, Exit, Plan, Outside
<1>10. ASSUME \/ Truncate(p) \/ Write(p) \/ TruncateRecord(p) \/ WriteRecord(p)
              \/ Apply(p) \/ WriteSkill(p) \/ Kill(p)
       PROVE  Disturbs_
  BY <1>10 DEF Truncate, Write, TruncateRecord, WriteRecord, Apply, WriteSkill, Kill
<1> HIDE DEF Goes, Disturbs_
<1> QED
  BY <1>1, <1>2, <1>3, <1>4, <1>5, <1>6, <1>7, <1>8, <1>9, <1>10 DEF CommandStep

-----------------------------------------------------------------------------
(* Where each command is.                                                    *)

Loading == {"add", "doctor", "fix", "run"}
CommandsAt ==
  [idle |-> {"none"}, load_shared |-> Loading, load_local |-> Loading,
   record_path |-> {"add"}, save |-> {"add", "init", "fix"}, write |-> {"add", "init", "fix"},
   retired |-> {"doctor", "fix"}, retired_shared |-> {"doctor", "fix"}, fix_user |-> {"fix"}, fix_files |-> {"fix"},
   look |-> {"doctor", "fix"}, diagnose |-> {"doctor", "fix"}, is_running |-> {"run"},
   create |-> {"run"}, record |-> {"run"}, record_write |-> {"run"}, attached |-> {"run"},
   plan |-> {"install"}, apply |-> {"install"}, apply_write |-> {"install"}]

Fields == {"command", "arg", "base", "session", "retired", "todo", "file", "out", "next",
           "running", "host", "plan", "stale"}
Loaded == {"record_path", "look", "diagnose", "is_running", "create"}
Saves(l) == IF l.command = "fix" THEN l.next = "fix_files" /\ l.file \in {"user", "local", "shared"}
            ELSE l.next = "idle" /\ l.file \in {"local", "shared"}
Shape(place, l) ==
  /\ DOMAIN l = Fields
  /\ l.command \in CommandsAt[place]
  /\ l.todo \in Seq({"local", "shared"})
  /\ place \in {"save", "write"} => Saves(l)
  /\ place \in Loaded => l.session.manifest.ok

Control ==
  /\ Framed
  /\ \A p \in Procs : pc[p] \in Places /\ Shape(pc[p], my[p])

LEMMA IdleFields ==
  /\ DOMAIN Idle = Fields /\ Idle.command = "none"
  /\ Idle.todo \in Seq({"local", "shared"}) /\ ~Idle.stale
BY DEF Idle, Fields

LEMMA IdleShape == Shape("idle", Idle)
BY IdleFields DEF Shape, CommandsAt, Loaded

(* What others do does not change where a command is.                        *)
LEMMA ShapeStays ==
  ASSUME NEW place, NEW l, Shape(place, l), NEW b
  PROVE  Shape(place, [l EXCEPT !.stale = b])
BY DEF Shape, Saves, Fields

LEMMA ControlMoves ==
  ASSUME Control, Framed', NEW p \in Procs, NEW to \in Places, NEW local,
         Moves(p, to, local), to = "idle" \/ Shape(to, local), Moving(p)
  PROVE  Control'
<1>1. ASSUME NEW q \in Procs
      PROVE  pc'[q] \in Places /\ Shape(pc'[q], my'[q])
  <2>1. CASE q = p
    BY <2>1, IdleShape DEF Moves
  <2>2. CASE q # p /\ Untouched(q)
    BY <2>2 DEF Untouched, Control
  <2>3. CASE q # p /\ Outdated(q)
    BY <2>3, ShapeStays DEF Outdated, Control
  <2> QED BY <2>1, <2>2, <2>3 DEF Moving, Bystander
<1> QED BY <1>1 DEF Control

LEMMA ControlInit == Init => Control
<1>1. Init => Framed /\ \A p \in Procs : pc[p] = "idle" /\ my[p] = Idle
  BY DEF Init, Framed
<1> QED BY <1>1, IdleShape DEF Control, Places

(* A command steps to a place of its own.                                    *)
LEMMA ControlStep ==
  ASSUME Control, NEW p \in Procs, CommandStep(p) \/ Kill(p)
  PROVE  Control'
<1>1. Framed /\ Framed' /\ Moving(p)
  BY MovingStep DEF Control
<1>2. ASSUME NEW to \in Places, NEW local, Go(p, to, local) \/ Disturbing(p, to, local),
             to = "idle" \/ Shape(to, local)
      PROVE  Control'
  BY <1>1, <1>2, Going, Disturbs, ControlMoves
<1> USE DEF Control
<1>3. ASSUME NEW command, NEW to,
             <<command, to>> \in {<<"doctor", "retired">>, <<"fix", "retired">>,
                                  <<"run", "load_shared">>, <<"install", "plan">>},
             Start(p, command, to)
      PROVE  Control'
  <2> DEFINE local == [Idle EXCEPT !.command = command]
  <2>1. to \in Places /\ Go(p, to, local)
    BY <1>3 DEF Start, Places
  <2>2. Shape(to, local)
    BY <1>3, IdleFields DEF Shape, Fields, CommandsAt, Loading, Loaded
  <2> HIDE DEF local
  <2> QED BY <1>2, <2>1, <2>2
<1>4. ASSUME NEW arg, StartAdd(p, arg)
      PROVE  Control'
  <2>1. PICK a : Go(p, "load_shared", [Idle EXCEPT !.command = "add", !.arg = a])
    BY <1>4 DEF StartAdd
  <2>2. Shape("load_shared", [Idle EXCEPT !.command = "add", !.arg = a])
    BY IdleFields DEF Shape, Fields, CommandsAt, Loading, Loaded
  <2> QED BY <1>2, <2>1, <2>2 DEF Places
<1>5. ASSUME StartInit(p)
      PROVE  Control'
  <2>1. PICK out : Go(p, "save", [Idle EXCEPT !.command = "init", !.file = "shared",
                                  !.out = out, !.next = "idle"])
    BY <1>5 DEF StartInit
  <2>2. Shape("save", [Idle EXCEPT !.command = "init", !.file = "shared", !.out = out, !.next = "idle"])
    BY IdleFields DEF Shape, Fields, CommandsAt, Loaded, Saves
  <2> QED BY <1>2, <2>1, <2>2 DEF Places
<1>6. CASE Truncate(p)
  <2>1. Shape("write", my[p])
    BY <1>6 DEF Truncate, Shape, CommandsAt, Loaded
  <2> QED BY <1>2, <1>6, <2>1 DEF Truncate, Places
<1>7. CASE Write(p)
  <2>1. Shape("write", my[p]) /\ Saves(my[p])
    BY <1>7 DEF Write, Shape
  <2>2. my[p].next = "idle" \/ (my[p].next = "fix_files" /\ my[p].command = "fix")
    BY <2>1 DEF Saves
  <2>3. my[p].command = "fix" => Shape("fix_files", my[p])
    BY <2>1 DEF Shape, CommandsAt, Loaded
  <2> QED BY <1>2, <1>7, <2>2, <2>3 DEF Write, Places
<1>8. CASE LoadShared(p)
  <2>1. Shape("load_local", [my[p] EXCEPT !.base = files.shared])
    BY <1>8 DEF LoadShared, Shape, CommandsAt, Loaded
  <2> QED BY <1>2, <1>8, <2>1 DEF LoadShared, Places
<1>9. CASE LoadLocal(p)
  <2> DEFINE manifest == Load(my[p].base, files.local)
             to == AfterLoad[my[p].command]
             local == [my[p] EXCEPT !.base = Absent,
                              !.session = [manifest |-> manifest, profile |-> "",
                                           user |-> files.user.table]]
  <2>1. my[p].command \in Loading
    BY <1>9 DEF LoadLocal, Shape, CommandsAt
  <2>2. CASE manifest.ok /\ LoadIfPresent(files.user)
    <3>1. Go(p, to, local)
      BY <1>9, <2>2 DEF LoadLocal
    <3>2. to \in Places
      BY <2>1 DEF AfterLoad, Loading, Places
    <3>3. Shape(to, local)
      <4>1. /\ DOMAIN local = Fields /\ local.command = my[p].command /\ local.todo = my[p].todo
            /\ local.session.manifest.ok /\ Shape("load_local", my[p])
        <5> HIDE DEF manifest
        <5> QED BY <1>9, <2>2 DEF LoadLocal, Shape, Fields
      <4> HIDE DEF local
      <4> QED BY <2>1, <4>1 DEF Shape, CommandsAt, Loading, Loaded, AfterLoad
    <3> HIDE DEF to, local
    <3> QED BY <1>2, <3>1, <3>2, <3>3
  <2>3. CASE ~(manifest.ok /\ LoadIfPresent(files.user))
    <3>1. Go(p, "idle", Idle)
      BY <1>9, <2>3 DEF LoadLocal
    <3> QED BY <1>2, <3>1 DEF Places
  <2> QED BY <2>2, <2>3
<1>10. CASE RecordPath(p)
  <2>1. CASE Go(p, "idle", Idle)
    BY <1>2, <2>1 DEF Places
  <2>2. ASSUME NEW isLocal, NEW out,
               Go(p, "save", [my[p] EXCEPT !.file = FileOf(isLocal), !.next = "idle", !.out = out])
        PROVE  Control'
    <3>1. Shape("save", [my[p] EXCEPT !.file = FileOf(isLocal), !.next = "idle", !.out = out])
      BY <1>10 DEF RecordPath, Shape, CommandsAt, Loaded, Saves, FileOf, Fields
    <3> QED BY <1>2, <2>2, <3>1 DEF Places
  <2> QED BY <1>10, <2>1, <2>2 DEF RecordPath
<1>11. CASE FindRetired(p)
  <2>1. CASE Go(p, "idle", Idle)
    BY <1>2, <2>1 DEF Places
  <2>2. CASE Go(p, "load_shared", [my[p] EXCEPT !.base = Absent])
    <3>1. Shape("load_shared", [my[p] EXCEPT !.base = Absent])
      BY <1>11 DEF FindRetired, Shape, CommandsAt, Loaded, Loading, Fields
    <3> QED BY <1>2, <2>2, <3>1 DEF Places
  <2>3. ASSUME my[p].command = "fix", NEW found, NEW todo \in Seq({"local", "shared"}),
               Go(p, "fix_user", [my[p] EXCEPT !.base = Absent, !.retired = found, !.todo = todo])
        PROVE  Control'
    <3>1. Shape("fix_user", [my[p] EXCEPT !.base = Absent, !.retired = found, !.todo = todo])
      BY <2>3 DEF Shape, CommandsAt, Loaded, Fields
    <3> QED BY <1>2, <2>3, <3>1 DEF Places
  <2> DEFINE found == RetiredIn(<<[name |-> "local", table |-> my[p].base.table],
                                 [name |-> "shared", table |-> files.shared.table]>>)
             in(file) == IF \E i \in DOMAIN found : found[i].file = file THEN <<file>> ELSE <<>>
  <2>4. in("local") \o in("shared") \in Seq({"local", "shared"})
    BY ConcatProperties
  <2>5. \/ Go(p, "idle", Idle) \/ Go(p, "load_shared", [my[p] EXCEPT !.base = Absent])
        \/ /\ my[p].command = "fix"
           /\ Go(p, "fix_user", [my[p] EXCEPT !.base = Absent, !.retired = found,
                                              !.todo = in("local") \o in("shared")])
    <3> HIDE DEF found
    <3> QED BY <1>11 DEF FindRetired, found
  <2> HIDE DEF found, in
  <2> QED BY <2>1, <2>2, <2>3, <2>4, <2>5
<1>12. CASE FixUser(p)
  <2>1. CASE Go(p, "idle", Idle)
    BY <1>2, <2>1 DEF Places
  <2>2. ASSUME NEW out,
               Go(p, "save", [my[p] EXCEPT !.file = "user", !.next = "fix_files", !.out = out])
        PROVE  Control'
    <3>1. Shape("save", [my[p] EXCEPT !.file = "user", !.next = "fix_files", !.out = out])
      BY <1>12 DEF FixUser, Shape, CommandsAt, Loaded, Saves, Fields
    <3> QED BY <1>2, <2>2, <3>1 DEF Places
  <2>3. CASE Go(p, "fix_files", my[p])
    <3>1. Shape("fix_files", my[p])
      BY <1>12 DEF FixUser, Shape, CommandsAt, Loaded
    <3> QED BY <1>2, <2>3, <3>1 DEF Places
  <2> QED BY <1>12, <2>1, <2>2, <2>3 DEF FixUser
<1>13. CASE FixFiles(p)
  <2>1. CASE Go(p, "idle", Idle)
    BY <1>2, <2>1 DEF Places
  <2>2. CASE Go(p, "load_shared", [my[p] EXCEPT !.retired = <<>>])
    <3>1. Shape("load_shared", [my[p] EXCEPT !.retired = <<>>])
      BY <1>13 DEF FixFiles, Shape, CommandsAt, Loaded, Loading, Fields
    <3> QED BY <1>2, <2>2, <3>1 DEF Places
  <2>3. ASSUME my[p].todo # <<>>, NEW out,
               Go(p, "save", [my[p] EXCEPT !.file = Head(my[p].todo), !.todo = Tail(my[p].todo),
                                           !.next = "fix_files", !.out = out])
        PROVE  Control'
    <3>1. Shape("fix_files", my[p])
      BY <1>13 DEF FixFiles
    <3>2. Head(my[p].todo) \in {"local", "shared"} /\ Tail(my[p].todo) \in Seq({"local", "shared"})
      BY <2>3, <3>1, HeadTailProperties DEF Shape
    <3>3. Shape("save", [my[p] EXCEPT !.file = Head(my[p].todo), !.todo = Tail(my[p].todo),
                                      !.next = "fix_files", !.out = out])
      BY <3>1, <3>2 DEF Shape, CommandsAt, Loaded, Saves, Fields
    <3> QED BY <1>2, <2>3, <3>3 DEF Places
  <2> QED BY <1>13, <2>1, <2>2, <2>3 DEF FixFiles
<1>14. ASSUME NEW from \in Places, NEW to \in Places, NEW local, Shape(from, my[p]),
              Go(p, to, local) \/ Disturbing(p, to, local),
              \/ to = "idle"
              \/ /\ DOMAIN local = Fields /\ local.command = my[p].command
                 /\ local.todo = my[p].todo /\ local.session = my[p].session
                 /\ <<from, to>> \in {<<"look", "diagnose">>, <<"is_running", "create">>,
                        <<"create", "record">>, <<"record", "record_write">>,
                        <<"record_write", "attached">>, <<"plan", "apply">>, <<"apply", "apply">>,
                        <<"apply", "apply_write">>, <<"apply_write", "apply">>}
       PROVE  Control'
  <2>1. to = "idle" \/ Shape(to, local)
    BY <1>14 DEF Shape, CommandsAt, Loaded
  <2> QED BY <1>2, <1>14, <2>1
<1>15. DOMAIN my[p] = Fields
  BY DEF Shape
<1>16. CASE Look(p) \/ DiagnoseAll(p) \/ IsRunning(p)
  <2>1. CASE Look(p)
    <3>1. Shape("look", my[p])
      BY <2>1 DEF Look
    <3> DEFINE local == [my[p] EXCEPT !.running = vm.up, !.host = host]
    <3>2. Go(p, "diagnose", local) \/ Go(p, "idle", Idle)
      BY <2>1 DEF Look
    <3>3. /\ DOMAIN local = Fields /\ local.command = my[p].command
          /\ local.todo = my[p].todo /\ local.session = my[p].session
      BY <1>15 DEF Fields
    <3> HIDE DEF local
    <3> QED BY <1>14, <3>1, <3>2, <3>3 DEF Places
  <2>2. CASE DiagnoseAll(p)
    BY <1>2, <2>2 DEF DiagnoseAll, Places
  <2>3. CASE IsRunning(p)
    BY <1>14, <1>15, <2>3 DEF IsRunning, Places
  <2> QED BY <1>16, <2>1, <2>2, <2>3
<1>17. CASE Create(p) \/ TruncateRecord(p) \/ WriteRecord(p) \/ Exit(p) \/ Kill(p)
  BY <1>14, <1>15, <1>17 DEF Create, TruncateRecord, WriteRecord, Exit, Kill, Places
<1>18. CASE Plan(p) \/ Apply(p) \/ WriteSkill(p)
  <2>1. ASSUME NEW plan, NEW to,
               <<pc[p], to>> \in {<<"plan", "apply">>, <<"apply", "apply">>, <<"apply", "apply_write">>},
               \/ Go(p, to, [my[p] EXCEPT !.plan = plan])
               \/ Disturbing(p, to, [my[p] EXCEPT !.plan = plan])
        PROVE  Control'
    <3> DEFINE local == [my[p] EXCEPT !.plan = plan]
    <3>1. /\ DOMAIN local = Fields /\ local.command = my[p].command
          /\ local.todo = my[p].todo /\ local.session = my[p].session
      BY <1>15 DEF Fields
    <3>2. Go(p, to, local) \/ Disturbing(p, to, local)
      BY <2>1
    <3> HIDE DEF local
    <3> QED BY <1>14, <2>1, <3>1, <3>2 DEF Places
  <2>2. ASSUME NEW local, Go(p, "idle", local) \/ Disturbing(p, "idle", local)
        PROVE  Control'
    BY <1>2, <2>2 DEF Places
  <2>3. CASE Plan(p)
    BY <2>1, <2>2, <2>3 DEF Plan
  <2>4. CASE Apply(p)
    BY <2>1, <2>2, <2>4 DEF Apply
  <2>5. CASE WriteSkill(p)
    BY <1>14, <1>15, <2>5 DEF WriteSkill, Places
  <2> QED BY <1>18, <2>3, <2>4, <2>5
<1>19. CASE FindInLocal(p)
  <2>1. CASE Go(p, "idle", Idle)
    BY <1>2, <2>1 DEF Places
  <2>2. ASSUME NEW text, Go(p, "retired_shared", [my[p] EXCEPT !.base = text])
        PROVE  Control'
    <3>1. Shape("retired_shared", [my[p] EXCEPT !.base = text])
      BY <1>19 DEF FindInLocal, Shape, CommandsAt, Loaded, Fields
    <3> QED BY <1>2, <2>2, <3>1 DEF Places
  <2> QED BY <1>19, <2>1, <2>2 DEF FindInLocal
<1> QED
  BY <1>3, <1>4, <1>5, <1>6, <1>7, <1>8, <1>9, <1>10, <1>11, <1>12, <1>13, <1>16, <1>17, <1>18, <1>19
     DEF CommandStep

-----------------------------------------------------------------------------
(* What a step may change, and where it may lead.                            *)

(* The actions that change each variable.                                    *)
Changes(p) ==
  /\ Truncate(p) \/ Write(p) \/ (files' = files /\ setting' = setting)
  /\ TruncateRecord(p) \/ WriteRecord(p) \/ record' = record
  /\ Create(p) \/ WriteRecord(p) \/ Exit(p) \/ vm' = vm
  /\ host' = host
  /\ Apply(p) \/ WriteSkill(p) \/ skills' = skills
  /\ DiagnoseAll(p) \/ trusted' = trusted
  /\ Write(p) \/ given' = given

LEMMA Changing ==
  ASSUME NEW p \in Procs, CommandStep(p)
  PROVE  Changes(p)
<1>1. ASSUME \/ \E command, to : Start(p, command, to)
             \/ \E arg : StartAdd(p, arg)
             \/ StartInit(p)
      PROVE  Changes(p)
  BY <1>1 DEF Start, StartAdd, StartInit, Outside, Changes
<1>2. CASE LoadShared(p) \/ LoadLocal(p) \/ RecordPath(p) \/ FindInLocal(p) \/ FindRetired(p)
  BY <1>2 DEF LoadShared, LoadLocal, RecordPath, FindInLocal, FindRetired, Outside, Changes
<1>3. CASE FixUser(p) \/ FixFiles(p)
  <2>1. UNCHANGED <<files, Outside>>
    BY <1>3 DEF FixUser, FixFiles
  <2> QED BY <2>1 DEF Outside, Changes
<1>4. CASE Look(p) \/ IsRunning(p) \/ Plan(p)
  BY <1>4 DEF Look, IsRunning, Plan, Outside, Changes
<1>5. CASE DiagnoseAll(p) \/ Truncate(p) \/ Write(p) \/ Apply(p) \/ WriteSkill(p)
  BY <1>5 DEF DiagnoseAll, Truncate, Write, Apply, WriteSkill, Changes
<1>6. CASE Create(p) \/ TruncateRecord(p) \/ WriteRecord(p) \/ Exit(p)
  BY <1>6 DEF Create, TruncateRecord, WriteRecord, Exit, Changes
<1> QED BY <1>1, <1>2, <1>3, <1>4, <1>5, <1>6 DEF CommandStep

(* The actions that lead to each place.                                      *)
Arrives(p) ==
  /\ pc'[p] = "load_local" => LoadShared(p)
  /\ pc'[p] \in {"record_path", "look", "is_running"} => LoadLocal(p)
  /\ pc'[p] = "save" => StartInit(p) \/ RecordPath(p) \/ FixUser(p) \/ FixFiles(p)
  /\ pc'[p] = "write" => Truncate(p)
  /\ pc'[p] = "retired_shared" => FindInLocal(p)
  /\ pc'[p] = "fix_user" => FindRetired(p)
  /\ pc'[p] = "fix_files" => FixUser(p) \/ Write(p)
  /\ pc'[p] = "diagnose" => Look(p)
  /\ pc'[p] = "create" => IsRunning(p)
  /\ pc'[p] = "record" => Create(p)
  /\ pc'[p] = "record_write" => TruncateRecord(p)
  /\ pc'[p] = "attached" => WriteRecord(p)
  /\ pc'[p] = "apply" => Plan(p) \/ Apply(p) \/ WriteSkill(p)
  /\ pc'[p] = "apply_write" => Apply(p)

LEMMA Arriving ==
  ASSUME Control, NEW p \in Procs, CommandStep(p)
  PROVE  Arrives(p)
<1> USE DEF Control
<1>1. ASSUME NEW to, NEW local, Go(p, to, local) \/ Disturbing(p, to, local)
      PROVE  pc'[p] = to
  BY <1>1 DEF Framed, Go, Disturbing
<1>2. ASSUME NEW to, pc'[p] = to, to \in {"idle", "retired", "load_shared", "plan"}
      PROVE  Arrives(p)
  BY <1>2 DEF Arrives
<1>3. ASSUME \/ Start(p, "doctor", "retired") \/ Start(p, "fix", "retired")
             \/ Start(p, "run", "load_shared") \/ Start(p, "install", "plan")
      PROVE  Arrives(p)
  BY <1>1, <1>2, <1>3 DEF Start
<1>4. ASSUME NEW arg, StartAdd(p, arg)
      PROVE  Arrives(p)
  BY <1>1, <1>2, <1>4 DEF StartAdd
<1>5. CASE StartInit(p)
  <2>1. pc'[p] = "save"
    BY <1>1, <1>5 DEF StartInit
  <2> QED BY <1>5, <2>1 DEF Arrives
<1>6. CASE Truncate(p) \/ LoadShared(p)
  <2>1. pc'[p] = IF Truncate(p) THEN "write" ELSE "load_local"
    BY <1>1, <1>6 DEF Truncate, LoadShared
  <2> QED BY <1>6, <2>1 DEF Arrives
<1>7. CASE Write(p)
  <2>1. pc'[p] \in {"idle", "fix_files"}
    BY <1>1, <1>7 DEF Write, Shape, Saves
  <2> QED BY <1>7, <2>1 DEF Arrives
<1>8. CASE LoadLocal(p)
  <2>1. my[p].command \in Loading
    BY <1>8 DEF LoadLocal, Shape, CommandsAt
  <2>2. pc'[p] \in {"idle", AfterLoad[my[p].command]}
    BY <1>1, <1>8 DEF LoadLocal
  <2>3. pc'[p] \in {"idle", "record_path", "look", "is_running"}
    BY <2>1, <2>2 DEF Loading, AfterLoad
  <2> QED BY <1>8, <2>3 DEF Arrives
<1>9. CASE RecordPath(p)
  <2>1. pc'[p] \in {"idle", "save"}
    BY <1>1, <1>9 DEF RecordPath
  <2> QED BY <1>9, <2>1 DEF Arrives
<1>10. CASE FindInLocal(p) \/ FindRetired(p)
  <2>1. CASE FindInLocal(p)
    <3>1. pc'[p] \in {"idle", "retired_shared"}
      BY <1>1, <2>1 DEF FindInLocal
    <3> QED BY <2>1, <3>1 DEF Arrives
  <2>2. CASE FindRetired(p)
    <3>1. pc'[p] \in {"idle", "load_shared", "fix_user"}
      BY <1>1, <2>2 DEF FindRetired
    <3> QED BY <2>2, <3>1 DEF Arrives
  <2> QED BY <1>10, <2>1, <2>2
<1>11. CASE FixUser(p)
  <2>1. pc'[p] \in {"idle", "save", "fix_files"}
    BY <1>1, <1>11 DEF FixUser
  <2> QED BY <1>11, <2>1 DEF Arrives
<1>12. CASE FixFiles(p)
  <2>1. pc'[p] \in {"idle", "load_shared", "save"}
    BY <1>1, <1>12 DEF FixFiles
  <2> QED BY <1>12, <2>1 DEF Arrives
<1>13. CASE Look(p) \/ DiagnoseAll(p) \/ IsRunning(p)
  <2>1. CASE Look(p)
    <3>1. pc'[p] \in {"idle", "diagnose"}
      BY <1>1, <2>1 DEF Look
    <3> QED BY <2>1, <3>1 DEF Arrives
  <2>2. CASE DiagnoseAll(p)
    BY <1>1, <1>2, <2>2 DEF DiagnoseAll
  <2>3. CASE IsRunning(p)
    <3>1. pc'[p] \in {"idle", "create"}
      BY <1>1, <2>3 DEF IsRunning
    <3> QED BY <2>3, <3>1 DEF Arrives
  <2> QED BY <1>13, <2>1, <2>2, <2>3
<1>14. CASE Create(p) \/ TruncateRecord(p) \/ WriteRecord(p) \/ Exit(p)
  <2>1. CASE Create(p)
    <3>1. pc'[p] \in {"idle", "record"}
      BY <1>1, <2>1 DEF Create
    <3> QED BY <2>1, <3>1 DEF Arrives
  <2>2. CASE TruncateRecord(p) \/ WriteRecord(p) \/ Exit(p)
    <3>1. \/ TruncateRecord(p) /\ pc'[p] = "record_write"
          \/ WriteRecord(p) /\ pc'[p] = "attached"
          \/ pc'[p] = "idle"
      BY <1>1, <2>2 DEF TruncateRecord, WriteRecord, Exit
    <3> QED BY <3>1 DEF Arrives
  <2> QED BY <1>14, <2>1, <2>2
<1>15. CASE Plan(p) \/ Apply(p) \/ WriteSkill(p)
  <2>1. pc'[p] \in {"idle", "apply"} \/ (Apply(p) /\ pc'[p] = "apply_write")
    BY <1>1, <1>15 DEF Plan, Apply, WriteSkill
  <2> QED BY <1>15, <2>1 DEF Arrives
<1> QED
  BY <1>3, <1>4, <1>5, <1>6, <1>7, <1>8, <1>9, <1>10, <1>11, <1>12, <1>13, <1>14, <1>15
     DEF CommandStep

-----------------------------------------------------------------------------
(* Control is kept.                                                          *)

LEMMA EditsDisturb ==
  ASSUME Control, EditFile \/ RemoveDirectory \/ EditSkills
  PROVE  Control' /\ \A q \in Procs : Outdated(q)
<1>1. Framed' /\ \A q \in Procs : Outdated(q)
  BY Edits DEF Control, EditFile, RemoveDirectory, EditSkills
<1>2. ASSUME NEW q \in Procs
      PROVE  pc'[q] \in Places /\ Shape(pc'[q], my'[q])
  <2>1. Outdated(q)
    BY <1>1
  <2> QED BY <2>1, ShapeStays DEF Control, Outdated
<1> QED BY <1>1, <1>2 DEF Control

LEMMA ControlNext ==
  ASSUME Control, [Next]_vars
  PROVE  Control'
<1>1. CASE UNCHANGED vars
  BY <1>1 DEF vars, Control, Framed, Shape, Saves
<1> QED BY <1>1, ControlStep, EditsDisturb DEF Next

-----------------------------------------------------------------------------
(* The invariant, part by part.                                              *)

SkillsOK == skills \in [shipped : {"absent", "other", "current"}, stray : BOOLEAN, profiles : BOOLEAN]

(* An installation nobody interfered with has in hand what is left to do,    *)
(* besides the file it has emptied.                                          *)
InstallAt(place, l) ==
  ~l.stale =>
    /\ place = "apply" => l.plan = PlanOf(skills) /\ l.plan # {}
    /\ place = "apply_write" => l.plan = PlanOf([skills EXCEPT !.shipped = "current"])

Keychain == <<"claude", "keychain">>
RetiredNow == RetiredIn(<<[name |-> "local", table |-> files.local.table],
                          [name |-> "shared", table |-> files.shared.table]>>)
UserOn == Keychain \in DOMAIN files.user.table /\ files.user.table[Keychain]

(* A fix nobody interfered with has the setting in the user configuration,   *)
(* or on its way there with the retired keys still in place, before it       *)
(* rewrites a manifest.                                                      *)
FixAt(place, l) ==
  ~l.stale =>
    /\ place = "retired_shared" => l.base = files.local
    /\ place = "fix_user" => l.retired = RetiredNow
    /\ place = "fix_files" => (setting => UserOn)
    /\ place \in {"save", "write"} /\ l.command = "fix" =>
         IF l.file = "user" THEN InEffect(RetiredNow) /\ Keychain \in DOMAIN l.out /\ l.out[Keychain]
         ELSE setting => UserOn

(* Files are of their types, and so is what is saved.                        *)
UserTyped(table) == Keychain \in DOMAIN table => table[Keychain] \in BOOLEAN
FilesOK ==
  /\ DOMAIN files = {"shared", "local", "user"}
  /\ \A f \in DOMAIN files : files[f].state \in {"absent", "unparsable", "table"}
  /\ UserTyped(files.user.table) /\ setting \in BOOLEAN
UserSavedAt(place, l) ==
  place \in {"save", "write"} /\ l.file = "user" => UserTyped(l.out) /\ l.command = "fix"
TablesOK == Typed(files.shared.table) /\ Typed(files.local.table)
SavedAt(place, l) ==
  /\ place \in {"save", "write"} /\ l.file # "user" => Typed(l.out)
  /\ place = "load_local" => Typed(l.base.table)

(* What may be mounted by a file: what the user wrote there and what add was *)
(* asked to record there.                                                    *)
SourcesIn(table) == {e.source : e \in ToSet(Get(table, Paths, <<>>))}
Recorded(isLocal) == {Dir(g.path) : g \in {h \in given : h.local = isLocal}}
AskedShared == (UNION {SourcesIn(t) : t \in SharedTables}) \union Recorded(FALSE)
AskedLocal == (UNION {SourcesIn(t) : t \in LocalTables}) \union Recorded(TRUE)
Asked(file) == IF file = "shared" THEN AskedShared ELSE AskedLocal
AddAt(place, l) ==
  l.command = "add" =>
    /\ Dir(l.arg.path) \in Raws /\ l.arg.local \in BOOLEAN /\ l.arg.readonly \in BOOLEAN
    /\ l.arg.force \/ Danger(l.arg.path) = "none"
    /\ place \in {"save", "write"} => l.file = FileOf(l.arg.local)
OutAt(place, l) ==
  place \in {"save", "write"} /\ l.file # "user" =>
    SourcesIn(l.out) \subseteq Asked(l.file) \union (IF l.command = "add" THEN {Dir(l.arg.path)} ELSE {})

(* The terminal that runs has the container and its record.                  *)
HasVm(place) == place \in {"record", "record_write", "attached"}
RunAt(place, l) ==
  HasVm(place) =>
    /\ vm.up /\ vm.spec = RecordOf(l.session) /\ (vm.recorded <=> place = "attached")
    /\ place = "attached" => record = [state |-> "table", record |-> RecordOf(l.session)]
RunsAlone ==
  /\ DOMAIN left = {"commands", "edits", "faults"} /\ left.edits \in Nat /\ left.faults \in Nat
  /\ left.commands \in [Procs -> [may : SUBSET Commanding, times : Nat]]
  /\ \A p, q \in Procs : "run" \in left.commands[p].may \intersect left.commands[q].may => p = q
  /\ \A p \in Procs : my[p].command = "run" => "run" \in left.commands[p].may
VmOK ==
  /\ DOMAIN vm = {"up", "recorded", "spec"} /\ vm.up \in BOOLEAN /\ vm.recorded \in BOOLEAN
  /\ vm.up => \E p \in Procs : HasVm(pc[p])
  /\ record.state \in {"absent", "table"}

(* What doctor found healthy.                                                *)
Healthy(session, at) ==
  /\ at.readable
  /\ <<Key(session, <<"project", "image">>)>> \in at.images \ at.missing
  /\ \A i \in DOMAIN WorkspaceOf(session) :
       WorkspaceOf(session)[i].origin # "project" => Canonical(WorkspaceOf(session)[i].host) \in at.tree
HostOK ==
  /\ {"tree", "readable", "images", "missing"} \subseteq DOMAIN host
  /\ host.readable \in BOOLEAN /\ Canonical(Cwd) \in host.tree
LookAt(place, l) == place = "diagnose" => l.host.images = host.images /\ l.host.readable = host.readable
TrustedOK == trusted.session.manifest.ok => Healthy(trusted.session, trusted.host)

(* A session's mounts are of their types.                                    *)
MarkedEntries == [source : Raws, target : Seq(STRING), readonly : BOOLEAN, local : BOOLEAN]
SessionTyped(session) ==
  /\ Key(session, <<"workspace", "roots">>) \in Seq(Raws)
  /\ session.manifest.paths \in Seq(MarkedEntries)
SessionAt(place, l) == place \in Loaded \/ HasVm(place) => SessionTyped(l.session)

-----------------------------------------------------------------------------
(* Installations.                                                            *)

(* The files of the skills keep their types.                                 *)
LEMMA SkillsStep ==
  ASSUME SkillsOK, [Next]_vars
  PROVE  SkillsOK'
<1> USE DEF SkillsOK
<1>1. ASSUME NEW p \in Procs, CommandStep(p) \/ Kill(p)
      PROVE  SkillsOK'
  <2>1. CASE Apply(p) \/ WriteSkill(p)
    <3>1. \/ skills' = [skills EXCEPT !.profiles = TRUE]
          \/ skills' = [skills EXCEPT !.stray = FALSE]
          \/ skills' = [skills EXCEPT !.shipped = "other"]
          \/ skills' = [skills EXCEPT !.shipped = "current"]
      BY <2>1 DEF Apply, WriteSkill
    <3> QED BY <3>1
  <2>2. CASE skills' = skills
    BY <2>2
  <2>3. CASE Kill(p)
    BY <2>3 DEF Kill
  <2> QED BY <1>1, <2>1, <2>2, <2>3, Changing DEF Changes
<1>2. CASE EditFile \/ RemoveDirectory \/ EditSkills
  BY <1>2 DEF EditFile, RemoveDirectory, EditSkills
<1>3. CASE UNCHANGED vars
  BY <1>3 DEF vars
<1> QED BY <1>1, <1>2, <1>3 DEF Next

(* What an applied step of a plan leaves is the plan for what is then there, *)
(* or will be once the file it emptied is written.                           *)
LEMMA PlanShrinks ==
  ASSUME SkillsOK, Control, NEW p \in Procs, Apply(p),
         my[p].plan = PlanOf(skills), my[p].plan # {}
  PROVE  \E rest :
           /\ pc'[p] \in {IF rest = {} THEN "idle" ELSE "apply", "apply_write"}
           /\ my'[p] = IF pc'[p] = "idle" THEN Idle ELSE [my[p] EXCEPT !.plan = rest]
           /\ rest = PlanOf(IF pc'[p] = "apply_write" THEN [skills' EXCEPT !.shipped = "current"] ELSE skills')
<1> DEFINE plan == my[p].plan
           change == CASE "CreateDirectory" \in plan -> "CreateDirectory"
                       [] plan \intersect {"Create", "Update"} # {} /\ "CreateDirectory" \notin plan
                            -> CHOOSE c \in {"Create", "Update"} : c \in plan
                       [] OTHER -> "Remove"
           gone == change = "Remove" /\ ~skills.stray
           rest == IF gone THEN {} ELSE plan \ {change}
           to == IF change \in {"Create", "Update"} THEN "apply_write"
                 ELSE IF rest = {} THEN "idle" ELSE "apply"
<1>1. /\ skills' = CASE change = "CreateDirectory" -> [skills EXCEPT !.profiles = TRUE]
                      [] change = "Remove"          -> [skills EXCEPT !.stray = FALSE]
                      [] OTHER                      -> [skills EXCEPT !.shipped = "other"]
      /\ Disturbing(p, to, [my[p] EXCEPT !.plan = rest])
  BY DEF Apply
<1>2. plan = PlanOf(skills) /\ plan # {}
  OBVIOUS
<1> HIDE DEF plan
<1>3. rest = PlanOf(IF to = "apply_write" THEN [skills' EXCEPT !.shipped = "current"] ELSE skills')
  <2>1. CASE "CreateDirectory" \in plan
    BY <1>1, <1>2, <2>1 DEF SkillsOK, PlanOf
  <2>2. CASE "CreateDirectory" \notin plan /\ skills.shipped # "current"
    <3>1. plan \intersect {"Create", "Update"} # {}
      BY <1>2, <2>2 DEF SkillsOK, PlanOf
    <3>2. change \in {"Create", "Update"} /\ change \in plan
      <4>1. \E c \in {"Create", "Update"} : c \in plan
        BY <3>1
      <4>2. change = CHOOSE c \in {"Create", "Update"} : c \in plan
        BY <1>1, <2>2, <3>1
      <4> QED BY <4>1, <4>2
    <3>3. skills' = [skills EXCEPT !.shipped = "other"] /\ to = "apply_write" /\ rest = plan \ {change}
      BY <1>1, <3>2
    <3>4. [skills' EXCEPT !.shipped = "current"] = [skills EXCEPT !.shipped = "current"]
      BY <3>3 DEF SkillsOK
    <3>5. PlanOf([skills EXCEPT !.shipped = "current"]) = plan \ {change}
      BY <1>2, <2>2, <3>2 DEF SkillsOK, PlanOf
    <3> HIDE DEF change, to, rest
    <3> QED BY <3>3, <3>4, <3>5
  <2>3. CASE "CreateDirectory" \notin plan /\ skills.shipped = "current"
    <3>1. plan = {"Remove"} /\ skills.stray /\ skills.profiles
      BY <1>2, <2>3 DEF SkillsOK, PlanOf
    <3>2. change = "Remove" /\ rest = {} /\ to = "idle"
      BY <1>1, <3>1
    <3> QED BY <1>1, <2>3, <3>1, <3>2 DEF SkillsOK, PlanOf
  <2> QED BY <2>1, <2>2, <2>3
<1>4. to \in {IF rest = {} THEN "idle" ELSE "apply", "apply_write"}
  OBVIOUS
<1> HIDE DEF rest, to
<1>5. Moves(p, to, [my[p] EXCEPT !.plan = rest])
  BY <1>1, Disturbs DEF Control
<1>6. pc'[p] = to /\ my'[p] = IF to = "idle" THEN Idle ELSE [my[p] EXCEPT !.plan = rest]
  BY <1>5 DEF Moves
<1> QED BY <1>3, <1>4, <1>6

Installs == \A p \in Procs : InstallAt(pc[p], my[p])

LEMMA InstallsStep ==
  ASSUME Control, SkillsOK, Installs, [Next]_vars
  PROVE  Installs'
<1>1. ASSUME NEW q \in Procs, Bystander(q)
      PROVE  InstallAt(pc[q], my[q])'
  <2>1. CASE Untouched(q) /\ Calm(q)
    BY <2>1 DEF Untouched, Calm, Installs, InstallAt
  <2>2. CASE Outdated(q)
    BY <2>2 DEF Outdated, Control, Shape, Fields, InstallAt
  <2> QED BY <1>1, <2>1, <2>2 DEF Bystander
<1>2. ASSUME NEW p \in Procs, CommandStep(p) \/ Kill(p)
      PROVE  InstallAt(pc[p], my[p])'
  <2>1. CASE Plan(p)
    <3>1. \/ pc'[p] = "idle"
          \/ /\ pc'[p] = "apply" /\ my'[p] = [my[p] EXCEPT !.plan = PlanOf(skills)]
             /\ PlanOf(skills) # {} /\ skills' = skills
      BY <2>1, Going DEF Control, Plan, Moves, Outside
    <3> QED BY <3>1 DEF InstallAt, Control, Shape, Fields
  <2>2. CASE Apply(p)
    <3>1. CASE my[p].stale
      <4>1. ASSUME NEW rest, NEW to, Disturbing(p, to, [my[p] EXCEPT !.plan = rest])
            PROVE  InstallAt(pc[p], my[p])'
        <5>1. pc'[p] = to /\ my'[p] = IF to = "idle" THEN Idle ELSE [my[p] EXCEPT !.plan = rest]
          BY <4>1, Disturbs DEF Control, Moves
        <5> QED BY <3>1, <5>1 DEF InstallAt, Control, Shape, Fields
      <4> QED BY <2>2, <4>1 DEF Apply
    <3>2. CASE ~my[p].stale
      <4>1. my[p].plan = PlanOf(skills) /\ my[p].plan # {}
        BY <2>2, <3>2 DEF Apply, Installs, InstallAt
      <4>2. PICK rest :
              /\ pc'[p] \in {IF rest = {} THEN "idle" ELSE "apply", "apply_write"}
              /\ my'[p] = IF pc'[p] = "idle" THEN Idle ELSE [my[p] EXCEPT !.plan = rest]
              /\ rest = PlanOf(IF pc'[p] = "apply_write" THEN [skills' EXCEPT !.shipped = "current"]
                               ELSE skills')
        BY <2>2, <4>1, PlanShrinks
      <4>3. pc'[p] # "idle" => my'[p].plan = rest
        BY <4>2 DEF Control, Shape, Fields
      <4> QED BY <4>2, <4>3 DEF InstallAt
    <3> QED BY <3>1, <3>2
  <2>4. CASE WriteSkill(p)
    <3>1. /\ pc[p] = "apply_write" /\ skills' = [skills EXCEPT !.shipped = "current"]
          /\ Moves(p, IF my[p].plan = {} THEN "idle" ELSE "apply", my[p])
      BY <2>4, Disturbs DEF Control, WriteSkill
    <3>2. pc'[p] = "idle" \/ (pc'[p] = "apply" /\ my'[p] = my[p] /\ my[p].plan # {})
      BY <3>1 DEF Moves
    <3> QED BY <3>1, <3>2 DEF Installs, InstallAt
  <2>3. CASE Kill(p)
    BY <2>3, Disturbs DEF Kill, Control, Moves, InstallAt
  <2>5. CASE CommandStep(p) /\ ~Plan(p) /\ ~Apply(p) /\ ~WriteSkill(p)
    BY <2>5, Arriving DEF Arrives, InstallAt
  <2> QED BY <1>2, <2>1, <2>2, <2>3, <2>4, <2>5
<1>3. ASSUME NEW p \in Procs, CommandStep(p) \/ Kill(p)
      PROVE  Installs'
  BY <1>1, <1>2, <1>3, MovingStep DEF Control, Moving, Installs
<1>4. CASE EditFile \/ RemoveDirectory \/ EditSkills
  BY <1>1, <1>4, EditsDisturb DEF Bystander, Installs
<1>5. CASE UNCHANGED vars
  BY <1>5 DEF vars, Installs, InstallAt
<1> QED BY <1>3, <1>4, <1>5 DEF Next

LEMMA InstallsInit ==
  ASSUME Init
  PROVE  SkillsOK /\ Installs
<1>1. skills = [shipped |-> "absent", stray |-> FALSE, profiles |-> FALSE]
  BY DEF Init
<1>2. \A p \in Procs : pc[p] = "idle"
  BY DEF Init
<1> QED BY <1>1, <1>2 DEF SkillsOK, Installs, InstallAt

-----------------------------------------------------------------------------
(* What is left to come, and the one terminal that runs.                     *)

(* A command is the one that was started.                                    *)
Begins(p) ==
  /\ left.commands[p].times > 0 /\ my'[p].command \in left.commands[p].may
  /\ left' = [left EXCEPT !.commands[p].times = @ - 1]
  /\ my'[p].command = "add" => \E arg \in AddArgs : StartAdd(p, arg)
Continues(p) ==
  /\ left' = left
  /\ \/ my'[p].command = "none"
     \/ my'[p].command = my[p].command /\ my'[p].arg = my[p].arg

LEMMA Beginning ==
  ASSUME Control, NEW p \in Procs, CommandStep(p)
  PROVE  Begins(p) \/ Continues(p)
<1>1. DOMAIN my[p] = Fields /\ DOMAIN Idle = Fields /\ Idle.command = "none"
  BY IdleFields DEF Control, Shape
<1>2. ASSUME NEW to, NEW local, Go(p, to, local) \/ Disturbing(p, to, local),
             (local.command = my[p].command /\ local.arg = my[p].arg) \/ to = "idle", left' = left
      PROVE  Continues(p)
  BY <1>1, <1>2, Going, Disturbs DEF Control, Moves, Continues
<1>3. ASSUME NEW command, NEW to, Start(p, command, to), to # "idle", command # "add"
      PROVE  Begins(p)
  <2>1. my'[p] = [Idle EXCEPT !.command = command]
    BY <1>3, Going DEF Start, Control, Moves
  <2> QED BY <1>1, <1>3, <2>1 DEF Start, Begins, Fields
<1>4. ASSUME NEW arg \in AddArgs, StartAdd(p, arg)
      PROVE  Begins(p)
  <2>1. PICK a : Go(p, "load_shared", [Idle EXCEPT !.command = "add", !.arg = a])
    BY <1>4 DEF StartAdd
  <2>2. my'[p] = [Idle EXCEPT !.command = "add", !.arg = a]
    BY <2>1, Going DEF Control, Moves
  <2> QED BY <1>1, <1>4, <2>2 DEF StartAdd, Begins, Fields
<1>5. ASSUME StartInit(p)
      PROVE  Begins(p)
  <2>1. PICK out : Go(p, "save", [Idle EXCEPT !.command = "init", !.file = "shared",
                                  !.out = out, !.next = "idle"])
    BY <1>5 DEF StartInit
  <2>2. my'[p] = [Idle EXCEPT !.command = "init", !.file = "shared", !.out = out, !.next = "idle"]
    BY <2>1, Going DEF Control, Moves
  <2> QED BY <1>1, <1>5, <2>2 DEF StartInit, Begins, Fields
<1>6. CASE LoadShared(p) \/ LoadLocal(p) \/ RecordPath(p)
  <2>1. CASE LoadShared(p)
    BY <1>1, <1>2, <2>1 DEF LoadShared, Fields
  <2>2. CASE LoadLocal(p)
    <3>1. ASSUME NEW to, NEW session, left' = left,
                 Go(p, to, [my[p] EXCEPT !.base = Absent, !.session = session])
          PROVE  Continues(p)
      BY <1>1, <1>2, <3>1 DEF Fields
    <3> QED BY <1>2, <2>2, <3>1 DEF LoadLocal
  <2>3. CASE RecordPath(p)
    BY <1>1, <1>2, <2>3 DEF RecordPath, Fields
  <2> QED BY <1>6, <2>1, <2>2, <2>3
<1>7. CASE FindInLocal(p) \/ FindRetired(p) \/ FixUser(p) \/ FixFiles(p)
  <2>1. ASSUME NEW to, NEW file, NEW todo, NEW next, NEW out, NEW retired, NEW base, left' = left,
               \/ Go(p, to, [my[p] EXCEPT !.base = base])
               \/ Go(p, to, [my[p] EXCEPT !.base = base, !.retired = retired, !.todo = todo])
               \/ Go(p, to, [my[p] EXCEPT !.file = file, !.next = next, !.out = out])
               \/ Go(p, to, [my[p] EXCEPT !.file = file, !.todo = todo, !.next = next, !.out = out])
               \/ Go(p, to, [my[p] EXCEPT !.retired = retired])
               \/ Go(p, "idle", Idle) \/ Go(p, to, my[p])
        PROVE  Continues(p)
    BY <1>1, <1>2, <2>1 DEF Fields
  <2>2. CASE FindInLocal(p) \/ FindRetired(p)
    <3>1. CASE FindInLocal(p)
      BY <2>1, <3>1 DEF FindInLocal
    <3>2. CASE FindRetired(p)
      BY <2>1, <3>2 DEF FindRetired
    <3> QED BY <2>2, <3>1, <3>2
  <2>3. CASE FixUser(p)
    BY <2>1, <2>3 DEF FixUser
  <2>4. CASE FixFiles(p)
    BY <2>1, <2>4 DEF FixFiles
  <2> QED BY <1>7, <2>2, <2>3, <2>4
<1>8. CASE Look(p) \/ DiagnoseAll(p) \/ IsRunning(p) \/ Plan(p)
  BY <1>1, <1>2, <1>8 DEF Look, DiagnoseAll, IsRunning, Plan, Fields
<1>9. CASE Create(p) \/ TruncateRecord(p) \/ WriteRecord(p) \/ Exit(p)
  BY <1>1, <1>2, <1>9 DEF Create, TruncateRecord, WriteRecord, Exit
<1>10. CASE Truncate(p) \/ Write(p)
  BY <1>1, <1>2, <1>10 DEF Truncate, Write
<1>11. CASE Apply(p) \/ WriteSkill(p)
  BY <1>1, <1>2, <1>11 DEF Apply, WriteSkill, Fields
<1> QED
  BY <1>3, <1>4, <1>5, <1>6, <1>7, <1>8, <1>9, <1>10, <1>11 DEF CommandStep

LEMMA RunsAloneStep ==
  ASSUME Control, RunsAlone, [Next]_vars
  PROVE  RunsAlone'
<1> USE DEF RunsAlone
<1>1. ASSUME NEW q \in Procs, Bystander(q) \/ my'[q].command = "none"
      PROVE  my'[q].command \in {my[q].command, "none"}
  BY <1>1 DEF Bystander, Untouched, Outdated, Control, Shape, Fields
<1>2. ASSUME NEW p \in Procs, CommandStep(p)
      PROVE  RunsAlone'
  <2>1. \A q \in Procs \ {p} : my'[q].command \in {my[q].command, "none"}
    BY <1>1, <1>2, MovingStep DEF Control, Moving
  <2>2. CASE Begins(p)
    <3>1. /\ left' = [left EXCEPT !.commands[p].times = @ - 1] /\ left.commands[p].times > 0
          /\ left.commands[p].times \in Nat
      BY <2>2 DEF Begins
    <3>2. /\ left.edits = left.edits' /\ left.faults = left.faults' /\ DOMAIN left' = DOMAIN left
          /\ left'.commands = [left.commands EXCEPT ![p].times = @ - 1]
      BY <3>1
    <3>3. /\ left'.commands \in [Procs -> [may : SUBSET Commanding, times : Nat]]
          /\ \A q \in Procs : left'.commands[q].may = left.commands[q].may
      BY <3>1, <3>2
    <3>4. \A q \in Procs : my'[q].command = "run" => "run" \in left'.commands[q].may
      BY <2>1, <2>2, <3>3 DEF Begins
    <3> QED BY <3>2, <3>3, <3>4
  <2>3. CASE Continues(p)
    BY <2>1, <2>3 DEF Continues
  <2> QED BY <1>2, <2>2, <2>3, Beginning
<1>3. ASSUME NEW p \in Procs, Kill(p)
      PROVE  RunsAlone'
  <2>1. \A q \in Procs : my'[q].command \in {my[q].command, "none"}
    <3>1. my'[p] = Idle
      BY <1>3, Disturbs DEF Kill, Control, Moves
    <3> QED BY <1>1, <1>3, <3>1, IdleFields, MovingStep DEF Control, Moving
  <2>2. left' = [left EXCEPT !.faults = @ - 1] /\ left.faults > 0
    BY <1>3 DEF Kill
  <2> QED BY <2>1, <2>2
<1>4. CASE EditFile \/ RemoveDirectory \/ EditSkills
  <2>1. \A q \in Procs : my'[q].command \in {my[q].command, "none"}
    BY <1>1, <1>4, EditsDisturb DEF Bystander
  <2>2. left' = [left EXCEPT !.edits = @ - 1] /\ left.edits > 0
    BY <1>4 DEF EditFile, RemoveDirectory, EditSkills, Editing
  <2> QED BY <2>1, <2>2
<1>5. CASE UNCHANGED vars
  BY <1>5 DEF vars
<1> QED BY <1>2, <1>3, <1>4, <1>5 DEF Next

LEMMA RunsAloneInit ==
  ASSUME Init
  PROVE  RunsAlone
<1>1. PICK begin \in Schedules :
        left = [commands |-> begin.commands, edits |-> MaxEdits, faults |-> MaxFaults]
  BY DEF Init
<1>2. \A p \in Procs : my[p] = Idle
  BY DEF Init
<1> QED BY <1>1, <1>2, BoundsAssumption, SchedulesAssumption, IdleFields DEF RunsAlone

LEMMA Converging ==
  ASSUME Control, SkillsOK, Installs, RunsAlone, [Next]_vars,
         NEW p \in Procs, pc[p] \in {"apply", "apply_write"}, pc'[p] = "idle", left' = left, ~my[p].stale
  PROVE  PlanOf(skills') = {}
<1>1. CASE Apply(p)
  <2>1. my[p].plan = PlanOf(skills) /\ my[p].plan # {}
    BY <1>1 DEF Apply, Installs, InstallAt
  <2> QED BY <1>1, <2>1, PlanShrinks
<1>2. CASE WriteSkill(p)
  <2>1. /\ pc[p] = "apply_write" /\ skills' = [skills EXCEPT !.shipped = "current"]
        /\ Moves(p, IF my[p].plan = {} THEN "idle" ELSE "apply", my[p])
    BY <1>2, Disturbs DEF Control, WriteSkill
  <2>2. my[p].plan = {}
    BY <2>1 DEF Moves
  <2> QED BY <2>1, <2>2 DEF Installs, InstallAt
<1>3. CASE CommandStep(p)
  <2>1. Apply(p) \/ WriteSkill(p)
    BY <1>3, Beginning DEF CommandStep, Start, StartAdd, StartInit, Truncate, Write, LoadShared,
         LoadLocal, RecordPath, FindInLocal, FindRetired, FixUser, FixFiles, Look, DiagnoseAll,
         IsRunning, Create, TruncateRecord, WriteRecord, Exit, Plan
  <2> QED BY <1>1, <1>2, <2>1
<1>4. CASE Kill(p)
  <2>1. left.faults \in Nat /\ left' = [left EXCEPT !.faults = @ - 1] /\ "faults" \in DOMAIN left
    BY <1>4 DEF Kill, RunsAlone
  <2>2. left'.faults = left.faults - 1
    BY <2>1
  <2> QED BY <2>1, <2>2
<1>5. ASSUME NEW q \in Procs \ {p}, CommandStep(q) \/ Kill(q)
      PROVE  FALSE
  BY <1>5, MovingStep DEF Control, Moving, Bystander, Untouched, Outdated
<1>6. CASE EditFile \/ RemoveDirectory \/ EditSkills
  BY <1>6, EditsDisturb DEF Outdated
<1>7. CASE UNCHANGED vars
  BY <1>7 DEF vars
<1> QED BY <1>3, <1>4, <1>5, <1>6, <1>7 DEF Next

(* An installation nobody interfered with leaves nothing to install, also    *)
(* one that starts where another was killed (InstallConverges).              *)
THEOREM InstallationsConverge == Spec => InstallConverges
<1> DEFINE Inv == Control /\ SkillsOK /\ Installs /\ RunsAlone
<1>1. Init => Inv
  BY ControlInit, InstallsInit, RunsAloneInit
<1>2. Inv /\ [Next]_vars => Inv'
  BY ControlNext, SkillsStep, InstallsStep, RunsAloneStep
<1>3. Inv /\ [Next]_vars =>
        [\A p \in Procs :
           pc[p] \in {"apply", "apply_write"} /\ pc'[p] = "idle" /\ left' = left /\ ~my[p].stale
             => PlanOf(skills') = {}]_vars
  BY Converging
<1> QED BY <1>1, <1>2, <1>3, PTL DEF Spec, InstallConverges

-----------------------------------------------------------------------------
(* The Keychain setting.                                                     *)

UserSaves == \A p \in Procs : UserSavedAt(pc[p], my[p])
Fixes == \A p \in Procs : FixAt(pc[p], my[p])

LEMMA KeychainTyped ==
  ASSUME NEW f, UserTyped(f.user.table)
  PROVE  KeychainOn(f) \in BOOLEAN
BY DEF KeychainOn, UserTyped, Keychain, InEffect

LEMMA KeychainNow ==
  KeychainOn(files) = IF Keychain \in DOMAIN files.user.table THEN files.user.table[Keychain]
                      ELSE InEffect(RetiredNow)
BY DEF KeychainOn, Keychain, RetiredNow

LEMMA WithKeychainHas ==
  ASSUME NEW user
  PROVE  /\ Keychain \in DOMAIN WithKeychain(user) /\ WithKeychain(user)[Keychain]
         /\ UserTyped(WithKeychain(user))
<1>1. WithKeychain(user) = With(user, Keychain, TRUE)
  BY DEF WithKeychain, Keychain
<1>2. /\ DOMAIN With(user, Keychain, TRUE) = DOMAIN user \union {Keychain}
      /\ With(user, Keychain, TRUE)[Keychain] = TRUE
  BY DEF With, Over
<1> QED BY <1>1, <1>2 DEF UserTyped

(* What a fix is about to save in the user configuration.                    *)
LEMMA SavingUser ==
  ASSUME Control, NEW p \in Procs, CommandStep(p), pc'[p] = "save"
  PROVE  \/ my'[p].command # "fix" /\ my'[p].file # "user"
         \/ /\ FixUser(p) /\ TakesKeychain(my[p].retired, files.user.table)
            /\ my'[p] = [my[p] EXCEPT !.file = "user", !.next = "fix_files",
                                      !.out = WithKeychain(files.user.table)]
         \/ /\ FixFiles(p) /\ my'[p].file # "user" /\ my'[p].stale = my[p].stale
<1>1. DOMAIN my[p] = Fields /\ DOMAIN Idle = Fields
  BY IdleFields DEF Control, Shape
<1>2. Framed /\ ("save" # "idle")
  BY DEF Control
<1>3. CASE StartInit(p)
  <2>1. PICK out : Go(p, "save", [Idle EXCEPT !.command = "init", !.file = "shared",
                                  !.out = out, !.next = "idle"])
    BY <1>3 DEF StartInit
  <2>2. my'[p] = [Idle EXCEPT !.command = "init", !.file = "shared", !.out = out, !.next = "idle"]
    BY <1>2, <2>1, Going DEF Moves
  <2> QED BY <1>1, <2>2 DEF Fields
<1>4. CASE RecordPath(p)
  <2>1. my[p].command = "add"
    BY <1>4 DEF RecordPath, Control, Shape, CommandsAt
  <2>2. ASSUME NEW isLocal, NEW out,
               Go(p, "save", [my[p] EXCEPT !.file = FileOf(isLocal), !.next = "idle", !.out = out])
        PROVE  my'[p].command # "fix" /\ my'[p].file # "user"
    <3>1. my'[p] = [my[p] EXCEPT !.file = FileOf(isLocal), !.next = "idle", !.out = out]
      BY <1>2, <2>2, Going DEF Moves
    <3> QED BY <1>1, <2>1, <3>1 DEF Fields, FileOf
  <2>3. ~Go(p, "idle", Idle)
    BY <1>2, Going DEF Moves
  <2> QED BY <1>4, <2>2, <2>3 DEF RecordPath
<1>5. CASE FixUser(p)
  <2>1. ~Go(p, "idle", Idle) /\ ~Go(p, "fix_files", my[p])
    BY <1>2, Going DEF Moves
  <2>2. /\ TakesKeychain(my[p].retired, files.user.table)
        /\ Go(p, "save", [my[p] EXCEPT !.file = "user", !.next = "fix_files",
                                       !.out = WithKeychain(files.user.table)])
    BY <1>5, <2>1 DEF FixUser
  <2> QED BY <1>2, <1>5, <2>2, Going DEF Moves
<1>6. CASE FixFiles(p)
  <2>1. ~Go(p, "idle", Idle) /\ ~Go(p, "load_shared", [my[p] EXCEPT !.retired = <<>>])
    BY <1>2, Going DEF Moves
  <2>2. /\ my[p].todo # <<>>
        /\ \E out : Go(p, "save", [my[p] EXCEPT !.file = Head(my[p].todo), !.todo = Tail(my[p].todo),
                                               !.next = "fix_files", !.out = out])
    BY <1>6, <2>1 DEF FixFiles
  <2>3. Head(my[p].todo) # "user"
    BY <2>2, HeadTailProperties DEF Control, Shape
  <2>4. PICK out : my'[p] = [my[p] EXCEPT !.file = Head(my[p].todo), !.todo = Tail(my[p].todo),
                                          !.next = "fix_files", !.out = out]
    BY <1>2, <2>2, Going DEF Moves
  <2> QED BY <1>1, <1>6, <2>3, <2>4 DEF Fields
<1> QED BY <1>3, <1>4, <1>5, <1>6, Arriving DEF Arrives

(* What a save does to the files.                                            *)
Saved(p, text) ==
  /\ files' = [files EXCEPT ![my[p].file] = Holding(text)]
  /\ Set(p)

LEMMA Saving ==
  ASSUME Control, FilesOK, UserSaves, NEW p \in Procs, Truncate(p) \/ Write(p)
  PROVE  /\ \E text \in {EmptyTable, my[p].out} : Saved(p, text)
         /\ DOMAIN files' = DOMAIN files /\ my[p].file \in DOMAIN files
         /\ my[p].file = "user" => UserTyped(my[p].out) /\ my[p].command = "fix"
BY DEF Truncate, Write, Truncated, Saved, Control, Shape, Saves, FilesOK, UserSaves, UserSavedAt

LEMMA FilesStep ==
  ASSUME Control, FilesOK, UserSaves, [Next]_vars
  PROVE  FilesOK'
<1>1. ASSUME NEW p \in Procs, Truncate(p) \/ Write(p)
      PROVE  FilesOK'
  <2>1. PICK text \in {EmptyTable, my[p].out} : Saved(p, text)
    BY <1>1, Saving
  <2>2. my[p].file \in DOMAIN files /\ (my[p].file = "user" => UserTyped(text))
    BY <1>1, Saving DEF UserTyped, EmptyTable
  <2>3. /\ DOMAIN files' = DOMAIN files
        /\ \A f \in DOMAIN files : files'[f] = files[f] \/ files'[f].state = "table"
        /\ UserTyped(files'.user.table)
    BY <2>1, <2>2 DEF Saved, Holding, FilesOK
  <2>4. setting' \in BOOLEAN
    BY <2>1, <2>3, KeychainTyped DEF Saved, Set, FilesOK
  <2> QED BY <2>3, <2>4 DEF FilesOK
<1>2. ASSUME files' = files, setting' = setting
      PROVE  FilesOK'
  BY <1>2 DEF FilesOK
<1>3. CASE EditFile
  <2>1. PICK f \in {"shared", "local"} : \E t : files' = [files EXCEPT ![f] = Holding(t)]
    BY <1>3 DEF EditFile
  <2>2. setting' = KeychainOn(files') /\ UserTyped(files'.user.table)
    BY <1>3, <2>1 DEF EditFile, FilesOK
  <2>3. setting' \in BOOLEAN
    BY <2>2, KeychainTyped
  <2> QED BY <2>1, <2>2, <2>3 DEF FilesOK, Holding
<1>4. CASE RemoveDirectory \/ EditSkills
  BY <1>2, <1>4 DEF RemoveDirectory, EditSkills
<1>5. ASSUME NEW p \in Procs, CommandStep(p) \/ Kill(p)
      PROVE  FilesOK'
  BY <1>1, <1>2, <1>5, Changing DEF Changes, Kill
<1> QED BY <1>2, <1>3, <1>4, <1>5 DEF Next, vars

LEMMA UserSavesStep ==
  ASSUME Control, UserSaves, [Next]_vars
  PROVE  UserSaves'
<1>1. ASSUME NEW q \in Procs, Untouched(q) \/ Outdated(q)
      PROVE  UserSavedAt(pc[q], my[q])'
  BY <1>1 DEF Untouched, Outdated, Control, Shape, Fields, UserSaves, UserSavedAt
<1>2. ASSUME NEW p \in Procs, CommandStep(p)
      PROVE  UserSavedAt(pc[p], my[p])'
  <2>1. CASE pc'[p] = "save"
    <3>1. \/ my'[p].file # "user"
          \/ /\ FixUser(p) /\ DOMAIN my[p] = Fields
             /\ my'[p] = [my[p] EXCEPT !.file = "user", !.next = "fix_files",
                                       !.out = WithKeychain(files.user.table)]
      BY <1>2, <2>1, SavingUser DEF Control, Shape
    <3>2. FixUser(p) => my[p].command = "fix"
      BY DEF FixUser, Control, Shape, CommandsAt
    <3>3. my'[p].file # "user" \/ (UserTyped(my'[p].out) /\ my'[p].command = "fix")
      <4>1. CASE my'[p].file # "user"
        BY <4>1
      <4>2. CASE my'[p].file = "user"
        <5>1. my'[p].out = WithKeychain(files.user.table) /\ my'[p].command = "fix"
          BY <3>1, <3>2, <4>2 DEF Fields
        <5> QED BY <5>1, WithKeychainHas
      <4> QED BY <4>1, <4>2
    <3> QED BY <3>3 DEF UserSavedAt, UserTyped
  <2>2. CASE pc'[p] = "write"
    <3>1. Truncate(p)
      BY <1>2, <2>2, Arriving DEF Arrives
    <3>2. my'[p] = my[p]
      BY <2>2, <3>1, Disturbs DEF Truncate, Control, Moves
    <3> QED BY <2>2, <3>1, <3>2 DEF Truncate, UserSaves, UserSavedAt
  <2> QED BY <2>1, <2>2 DEF UserSavedAt
<1>3. ASSUME NEW p \in Procs, Kill(p)
      PROVE  UserSavedAt(pc[p], my[p])'
  BY <1>3, Disturbs DEF Kill, Control, Moves, UserSavedAt
<1>4. ASSUME NEW p \in Procs, CommandStep(p) \/ Kill(p)
      PROVE  UserSaves'
  BY <1>1, <1>2, <1>3, <1>4, MovingStep DEF Control, Moving, Bystander, UserSaves
<1>5. CASE EditFile \/ RemoveDirectory \/ EditSkills
  BY <1>1, <1>5, EditsDisturb DEF UserSaves
<1>6. CASE UNCHANGED vars
  BY <1>1, <1>6 DEF vars, Untouched, UserSaves
<1> QED BY <1>4, <1>5, <1>6 DEF Next

LEMMA FilesInit ==
  ASSUME Init
  PROVE  FilesOK /\ UserSaves /\ KeychainKept
<1>1. PICK begin \in Schedules :
        files \in [shared : begin.shared, local : begin.local, user : {Holding(u) : u \in UserTables}]
  BY DEF Init
<1>2. /\ begin.shared \subseteq {Absent, Unparsable} \union {Holding(t) : t \in SharedTables}
      /\ begin.local \subseteq {Absent, Unparsable} \union {Holding(t) : t \in LocalTables}
  BY SchedulesAssumption
<1>3. DOMAIN files = {"shared", "local", "user"}
      /\ \A f \in DOMAIN files : files[f].state \in {"absent", "unparsable", "table"}
  BY <1>1, <1>2 DEF Holding, Absent, Unparsable
<1>4. UserTyped(files.user.table)
  BY <1>1, TablesAssumption DEF Holding, UserTyped, Keychain
<1>5. setting = KeychainOn(files) /\ \A p \in Procs : pc[p] = "idle"
  BY DEF Init
<1> QED BY <1>3, <1>4, <1>5, KeychainTyped DEF FilesOK, UserSaves, UserSavedAt, KeychainKept

(* A save keeps the setting, and what the fix that makes it counts on.       *)
LEMMA SaveKeeps ==
  ASSUME Control, FilesOK, UserSaves, Fixes, NEW p \in Procs, Truncate(p) \/ Write(p)
  PROVE  /\ KeychainKept'
         /\ my[p].command = "fix" /\ ~my[p].stale =>
              IF my[p].file = "user"
              THEN Truncate(p) => (InEffect(RetiredNow))'
              ELSE (setting => UserOn)'
         /\ my[p].command = "fix" /\ ~my[p].stale /\ my[p].file = "user" /\ Write(p) => UserOn'
<1>1. /\ files' = [files EXCEPT ![my[p].file] = IF Truncate(p) THEN Truncated ELSE Holding(my[p].out)]
      /\ Set(p) /\ my[p].file \in DOMAIN files
      /\ (Truncate(p) => pc[p] = "save") /\ (~Truncate(p) => Write(p) /\ pc[p] = "write")
      /\ (Write(p) => pc[p] = "write")
  BY Saving DEF Truncate, Write
<1>2. CASE ~(my[p].command = "fix" /\ ~my[p].stale)
  BY <1>1, <1>2 DEF Set, KeychainKept
<1>3. CASE my[p].command = "fix" /\ ~my[p].stale
  <2>1. setting' = setting
    BY <1>1, <1>3 DEF Set
  <2>2. CASE my[p].file = "user"
    <3>1. InEffect(RetiredNow) /\ Keychain \in DOMAIN my[p].out /\ my[p].out[Keychain]
      BY <1>1, <1>3, <2>2 DEF Fixes, FixAt
    <3>2. (RetiredNow)' = RetiredNow
      BY <1>1, <2>2 DEF RetiredNow, FilesOK
    <3>3. CASE Truncate(p)
      <4>1. files'.user.table = EmptyTable
        BY <1>1, <2>2, <3>3 DEF Truncated, Holding
      <4>2. Keychain \notin DOMAIN files'.user.table
        BY <4>1 DEF EmptyTable
      <4>3. KeychainOn(files') = InEffect(RetiredNow)
        BY <3>2, <4>2 DEF KeychainOn, Keychain, RetiredNow
      <4>4. ~Write(p)
        BY <1>1, <3>3
      <4> QED BY <2>2, <3>1, <3>2, <4>3, <4>4 DEF KeychainKept
    <3>4. CASE ~Truncate(p)
      <4>1. files'.user.table = my[p].out
        BY <1>1, <2>2, <3>4 DEF Holding
      <4>2. KeychainOn(files')
        BY <3>1, <4>1 DEF KeychainOn, Keychain
      <4> QED BY <2>2, <3>1, <3>4, <4>1, <4>2 DEF KeychainKept, UserOn
    <3> QED BY <3>3, <3>4
  <2>3. CASE my[p].file # "user"
    <3>1. setting => UserOn
      BY <1>1, <1>3, <2>3 DEF Fixes, FixAt
    <3>2. files'.user = files.user
      BY <1>1, <2>3 DEF FilesOK
    <3>3. UserOn' = UserOn
      BY <3>2 DEF UserOn
    <3>4. UserOn' => KeychainOn(files')
      BY DEF UserOn, KeychainOn, Keychain
    <3> QED BY <2>1, <2>3, <3>1, <3>3, <3>4 DEF KeychainKept
  <2> QED BY <2>2, <2>3
<1> QED BY <1>2, <1>3

(* Where a fix goes on, it counts on what is so.                             *)
LEMMA FixGoesOn ==
  ASSUME Control, FilesOK, UserSaves, Fixes, KeychainKept, NEW p \in Procs, CommandStep(p)
  PROVE  FixAt(pc[p], my[p])'
<1>1. DOMAIN my[p] = Fields /\ Framed
  BY DEF Control, Shape
<1>2. CASE pc'[p] = "fix_user"
  <2> DEFINE found == RetiredIn(<<[name |-> "local", table |-> my[p].base.table],
                                 [name |-> "shared", table |-> files.shared.table]>>)
  <2>1. FindRetired(p)
    BY <1>2, Arriving DEF Arrives
  <2>2. /\ ~Go(p, "idle", Idle) /\ ~Go(p, "load_shared", [my[p] EXCEPT !.base = Absent])
    BY <1>1, <1>2, Going DEF Moves
  <2>3. PICK todo : Go(p, "fix_user", [my[p] EXCEPT !.base = Absent, !.retired = found, !.todo = todo])
    <3> HIDE DEF found
    <3> QED BY <2>1, <2>2 DEF FindRetired, found
  <2>4. my'[p] = [my[p] EXCEPT !.base = Absent, !.retired = found, !.todo = todo] /\ files' = files
    <3> HIDE DEF found
    <3> QED BY <1>1, <2>1, <2>3, Going DEF Moves, FindRetired
  <2>5. ~my[p].stale => found = RetiredNow
    BY <2>1 DEF FindRetired, Fixes, FixAt, RetiredNow
  <2>6. my'[p].retired = found /\ my'[p].stale = my[p].stale /\ (RetiredNow)' = RetiredNow
    <3> HIDE DEF found
    <3> QED BY <1>1, <2>4 DEF Fields, RetiredNow
  <2> HIDE DEF found
  <2> QED BY <1>2, <2>5, <2>6 DEF FixAt
<1>3. CASE pc'[p] = "fix_files"
  <2>1. CASE FixUser(p)
    <3>1. ~Go(p, "idle", Idle) /\ ~\E l : Go(p, "save", l)
      BY <1>1, <1>3, Going DEF Moves
    <3>2. ~TakesKeychain(my[p].retired, files.user.table) /\ Go(p, "fix_files", my[p])
      BY <2>1, <3>1 DEF FixUser
    <3>3. my'[p] = my[p] /\ files' = files /\ setting' = setting
      BY <1>1, <2>1, <3>2, Going DEF Moves, FixUser, Outside
    <3>4. ASSUME ~my[p].stale, setting
          PROVE  UserOn
      <4>1. KeychainOn(files) /\ my[p].retired = RetiredNow
        BY <2>1, <3>4 DEF FixUser, Fixes, FixAt, KeychainKept
      <4>2. CASE Keychain \in DOMAIN files.user.table
        BY <4>1, <4>2, KeychainNow DEF UserOn
      <4>3. CASE Keychain \notin DOMAIN files.user.table
        <5>1. InEffect(RetiredNow)
          BY <4>1, <4>3, KeychainNow
        <5> QED BY <3>2, <4>1, <4>3, <5>1 DEF TakesKeychain, Keychain
      <4> QED BY <4>2, <4>3
    <3>5. UserOn' = UserOn
      BY <3>3 DEF UserOn
    <3> QED BY <1>3, <3>3, <3>4, <3>5 DEF FixAt
  <2>2. CASE Write(p)
    <3>1. my'[p] = my[p] /\ my[p].command = "fix"
      BY <1>1, <1>3, <2>2, Disturbs DEF Write, Moves, Control, Shape, Saves
    <3>2. ~my[p].stale => (setting => UserOn)'
      BY <2>2, <3>1, SaveKeeps
    <3> QED BY <1>3, <3>1, <3>2 DEF FixAt
  <2> QED BY <1>3, <2>1, <2>2, Arriving DEF Arrives
<1>4. CASE pc'[p] = "save"
  <2>1. CASE my'[p].command # "fix"
    BY <1>4, <2>1 DEF FixAt
  <2>2. CASE FixUser(p) /\ TakesKeychain(my[p].retired, files.user.table)
             /\ my'[p] = [my[p] EXCEPT !.file = "user", !.next = "fix_files",
                                       !.out = WithKeychain(files.user.table)]
    <3>1. my'[p].file = "user" /\ my'[p].out = WithKeychain(files.user.table)
          /\ my'[p].stale = my[p].stale /\ files' = files
      BY <1>1, <2>2 DEF Fields, FixUser
    <3>2. (RetiredNow)' = RetiredNow
      BY <3>1 DEF RetiredNow
    <3>3. ~my[p].stale => InEffect(RetiredNow)
      BY <2>2 DEF FixUser, Fixes, FixAt, TakesKeychain
    <3> QED BY <1>4, <3>1, <3>2, <3>3, WithKeychainHas DEF FixAt
  <2>3. CASE FixFiles(p) /\ my'[p].file # "user" /\ my'[p].stale = my[p].stale
    <3>1. files' = files /\ setting' = setting /\ (~my[p].stale => (setting => UserOn))
      BY <2>3 DEF FixFiles, Outside, Fixes, FixAt
    <3>2. UserOn' = UserOn
      BY <3>1 DEF UserOn
    <3> QED BY <1>4, <2>3, <3>1, <3>2 DEF FixAt
  <2> QED BY <1>4, <2>1, <2>2, <2>3, SavingUser
<1>5. CASE pc'[p] = "write"
  <2>1. Truncate(p)
    BY <1>5, Arriving DEF Arrives
  <2>2. my'[p] = my[p]
    BY <1>1, <1>5, <2>1, Disturbs DEF Truncate, Moves
  <2>3. my[p].command = "fix" /\ ~my[p].stale =>
          IF my[p].file = "user"
          THEN (InEffect(RetiredNow))' /\ Keychain \in DOMAIN my[p].out /\ my[p].out[Keychain]
          ELSE (setting => UserOn)'
    <3>1. my[p].command = "fix" /\ ~my[p].stale /\ my[p].file = "user"
            => Keychain \in DOMAIN my[p].out /\ my[p].out[Keychain]
      BY <2>1 DEF Truncate, Fixes, FixAt
    <3> QED BY <2>1, <3>1, SaveKeeps
  <2> QED BY <1>5, <2>2, <2>3 DEF FixAt
<1>6. CASE pc'[p] = "retired_shared"
  <2>1. FindInLocal(p)
    BY <1>6, Arriving DEF Arrives
  <2>2. ~Go(p, "idle", Idle)
    BY <1>1, <1>6, Going DEF Moves
  <2>3. my'[p] = [my[p] EXCEPT !.base = files.local] /\ files' = files
    BY <1>1, <1>6, <2>1, <2>2, Going DEF Moves, FindInLocal
  <2> QED BY <1>1, <1>6, <2>3 DEF FixAt, Fields
<1> QED BY <1>2, <1>3, <1>4, <1>5, <1>6 DEF FixAt

LEMMA FixesStep ==
  ASSUME Control, FilesOK, UserSaves, Fixes, KeychainKept, [Next]_vars
  PROVE  Fixes' /\ KeychainKept'
<1>1. ASSUME NEW q \in Procs, Outdated(q) \/ (Untouched(q) /\ files' = files /\ setting' = setting)
      PROVE  FixAt(pc[q], my[q])'
  <2>1. CASE Outdated(q)
    BY <2>1 DEF Outdated, Control, Shape, Fields, FixAt
  <2>2. CASE Untouched(q) /\ files' = files /\ setting' = setting
    <3>1. UserOn' = UserOn /\ (RetiredNow)' = RetiredNow
      BY <2>2 DEF UserOn, RetiredNow
    <3> QED BY <2>2, <3>1 DEF Untouched, Fixes, FixAt
  <2> QED BY <1>1, <2>1, <2>2
<1>2. ASSUME files' = files, setting' = setting
      PROVE  KeychainKept'
  BY <1>2 DEF KeychainKept
<1>3. ASSUME NEW p \in Procs, Truncate(p) \/ Write(p)
      PROVE  \A q \in Procs \ {p} : Outdated(q)
  BY <1>3, Disturbs DEF Control, Truncate, Write
<1>4. ASSUME NEW p \in Procs, CommandStep(p)
      PROVE  Fixes' /\ KeychainKept'
  <2>1. CASE Truncate(p) \/ Write(p)
    BY <1>1, <1>3, <1>4, <2>1, FixGoesOn, SaveKeeps DEF Fixes
  <2>2. CASE files' = files /\ setting' = setting
    BY <1>1, <1>2, <1>4, <2>2, FixGoesOn, MovingStep DEF Control, Moving, Bystander, Fixes
  <2> QED BY <1>4, <2>1, <2>2, Changing DEF Changes
<1>5. ASSUME NEW p \in Procs, Kill(p)
      PROVE  Fixes' /\ KeychainKept'
  <2>1. FixAt(pc[p], my[p])'
    BY <1>5, Disturbs DEF Kill, Control, Moves, FixAt
  <2> QED BY <1>1, <1>2, <1>5, <2>1, MovingStep DEF Kill, Control, Moving, Bystander, Fixes
<1>6. CASE EditFile \/ RemoveDirectory \/ EditSkills
  <2>1. Fixes'
    BY <1>1, <1>6, EditsDisturb DEF Fixes
  <2>2. KeychainKept'
    BY <1>2, <1>6 DEF EditFile, RemoveDirectory, EditSkills, KeychainKept
  <2> QED BY <2>1, <2>2
<1>7. CASE UNCHANGED vars
  BY <1>1, <1>2, <1>7 DEF vars, Untouched, Fixes
<1> QED BY <1>4, <1>5, <1>6, <1>7 DEF Next

(* A Keychain setting that is on is never lost to doctor --fix, wherever it  *)
(* is killed and whatever runs beside it (KeychainKept): a fix that nobody   *)
(* interfered with rewrites a manifest only once the user configuration has  *)
(* the setting.                                                              *)
THEOREM KeychainStays == Spec => []KeychainKept
<1> DEFINE Inv == Control /\ FilesOK /\ UserSaves /\ Fixes /\ KeychainKept
<1>1. Init => Inv
  <2>1. Init => Fixes
    BY DEF Init, Fixes, FixAt
  <2> QED BY <2>1, ControlInit, FilesInit
<1>2. Inv /\ [Next]_vars => Inv'
  BY ControlNext, FilesStep, UserSavesStep, FixesStep
<1> QED BY <1>1, <1>2, PTL DEF Spec

-----------------------------------------------------------------------------
(* The container and its record.                                             *)

Runs == \A p \in Procs : RunAt(pc[p], my[p])

(* The terminal that has the container is the only one that runs.            *)
LEMMA OneRuns ==
  ASSUME Control, RunsAlone, NEW p \in Procs, NEW q \in Procs,
         my[p].command = "run", HasVm(pc[q]) \/ my[q].command = "run"
  PROVE  q = p
<1>1. my[q].command = "run"
  BY DEF Control, Shape, HasVm, CommandsAt
<1> QED BY <1>1 DEF RunsAlone

(* Who changes the container or its record, and how.                         *)
LEMMA VmMoves ==
  ASSUME Control, VmOK, NEW p \in Procs, CommandStep(p) \/ Kill(p)
  PROVE  \/ vm' = vm /\ record' = record /\ (HasVm(pc[p]) <=> HasVm(pc'[p])) /\ ~HasVm(pc[p])
         \/ /\ my[p].command = "run"
            /\ \/ /\ vm' = [up |-> TRUE, recorded |-> FALSE, spec |-> RecordOf(my[p].session)]
                  /\ record' = record /\ pc'[p] = "record" /\ my'[p] = my[p]
               \/ /\ vm' = vm /\ pc[p] = "record" /\ pc'[p] = "record_write" /\ my'[p] = my[p]
                  /\ record'.state = "table"
               \/ /\ vm' = [vm EXCEPT !.recorded = TRUE] /\ my'[p] = my[p]
                  /\ pc[p] = "record_write" /\ pc'[p] = "attached"
                  /\ record' = [state |-> "table", record |-> RecordOf(my[p].session)]
               \/ vm' = NoVm /\ record' = record /\ pc'[p] = "idle"
<1>1. CASE Create(p)
  <2>1. pc[p] = "create" /\ my[p].command = "run" /\ record' = record
    BY <1>1 DEF Create, Control, Shape, CommandsAt
  <2>2. CASE Go(p, "idle", Idle) /\ vm' = vm
    BY <2>1, <2>2, Going DEF Control, Moves, HasVm
  <2>3. CASE /\ vm' = [up |-> TRUE, recorded |-> FALSE, spec |-> RecordOf(my[p].session)]
             /\ Go(p, "record", my[p])
    BY <2>1, <2>3, Going DEF Control, Moves
  <2> QED BY <1>1, <2>2, <2>3 DEF Create
<1>2. CASE TruncateRecord(p)
  BY <1>2, Disturbs DEF TruncateRecord, Control, Moves, Shape, CommandsAt
<1>3. CASE WriteRecord(p)
  BY <1>3, Disturbs DEF WriteRecord, Control, Moves, Shape, CommandsAt
<1>4. CASE Exit(p)
  BY <1>4, Going DEF Exit, Control, Moves, Shape, CommandsAt
<1>5. CASE Kill(p)
  <2>1. pc'[p] = "idle" /\ record' = record
    BY <1>5, Disturbs DEF Kill, Control, Moves
  <2>2. HasVm(pc[p]) => my[p].command = "run"
    BY DEF Control, Shape, HasVm, CommandsAt
  <2> QED BY <1>5, <2>1, <2>2 DEF Kill, HasVm
<1>6. CASE CommandStep(p) /\ ~Create(p) /\ ~TruncateRecord(p) /\ ~WriteRecord(p) /\ ~Exit(p)
  <2>1. vm' = vm /\ record' = record
    BY <1>6, Changing DEF Changes
  <2>2. ~HasVm(pc'[p])
    BY <1>6, Arriving DEF Arrives, HasVm
  <2>3. ~HasVm(pc[p])
    BY <1>6 DEF HasVm, CommandStep, Start, StartAdd, StartInit, Truncate, Write, LoadShared,
       LoadLocal, RecordPath, FindInLocal, FindRetired, FixUser, FixFiles, Look, DiagnoseAll,
       IsRunning, Plan, Apply, WriteSkill
  <2> QED BY <2>1, <2>2, <2>3
<1> QED BY <1>1, <1>2, <1>3, <1>4, <1>5, <1>6

LEMMA VmStep ==
  ASSUME Control, RunsAlone, VmOK, Runs, [Next]_vars
  PROVE  VmOK' /\ Runs'
<1>1. ASSUME NEW q \in Procs, Untouched(q) \/ Outdated(q)
      PROVE  pc'[q] = pc[q] /\ my'[q].session = my[q].session
  BY <1>1 DEF Untouched, Outdated, Control, Shape, Fields
<1>2. ASSUME vm' = vm, record' = record,
             \A q \in Procs : \/ pc'[q] = pc[q] /\ my'[q].session = my[q].session
                              \/ ~HasVm(pc[q]) /\ ~HasVm(pc'[q])
      PROVE  VmOK' /\ Runs'
  <2>1. VmOK'
    BY <1>2 DEF VmOK
  <2>2. ASSUME NEW q \in Procs
        PROVE  RunAt(pc[q], my[q])'
    <3>1. HasVm(pc'[q]) => HasVm(pc[q]) /\ pc'[q] = pc[q] /\ my'[q].session = my[q].session
      BY <1>2
    <3> QED BY <1>2, <3>1 DEF RunAt, Runs
  <2> QED BY <2>1, <2>2 DEF Runs
<1>3. ASSUME NEW p \in Procs, CommandStep(p) \/ Kill(p)
      PROVE  VmOK' /\ Runs'
  <2>1. \A q \in Procs \ {p} : pc'[q] = pc[q] /\ my'[q].session = my[q].session
    BY <1>1, <1>3, MovingStep DEF Control, Moving, Bystander
  <2>2. CASE vm' = vm /\ record' = record /\ (HasVm(pc[p]) <=> HasVm(pc'[p])) /\ ~HasVm(pc[p])
    BY <1>2, <2>1, <2>2
  <2>3. CASE my[p].command = "run"
    <3>1. \A q \in Procs \ {p} : ~HasVm(pc'[q])
      BY <2>1, <2>3, OneRuns
    <3>2. ASSUME RunAt(pc[p], my[p])'
          PROVE  Runs'
      BY <3>1, <3>2 DEF Runs, RunAt
    <3>3. CASE /\ vm' = [up |-> TRUE, recorded |-> FALSE, spec |-> RecordOf(my[p].session)]
               /\ record' = record /\ pc'[p] = "record" /\ my'[p] = my[p]
      <4>1. RunAt(pc[p], my[p])'
        BY <3>3 DEF RunAt
      <4>2. VmOK'
        BY <3>3 DEF VmOK, HasVm
      <4> QED BY <3>2, <4>1, <4>2
    <3>4. CASE /\ vm' = vm /\ pc[p] = "record" /\ pc'[p] = "record_write" /\ my'[p] = my[p]
               /\ record'.state = "table"
      <4>1. RunAt(pc[p], my[p])'
        BY <3>4 DEF Runs, RunAt, HasVm
      <4>2. VmOK'
        BY <3>4 DEF VmOK, HasVm
      <4> QED BY <3>2, <4>1, <4>2
    <3>5. CASE /\ vm' = [vm EXCEPT !.recorded = TRUE] /\ my'[p] = my[p]
               /\ pc[p] = "record_write" /\ pc'[p] = "attached"
               /\ record' = [state |-> "table", record |-> RecordOf(my[p].session)]
      <4>1. /\ DOMAIN vm' = DOMAIN vm /\ vm'.up = vm.up /\ vm'.recorded = TRUE
            /\ vm'.spec = vm.spec /\ vm.up /\ vm.spec = RecordOf(my[p].session)
        BY <3>5 DEF VmOK, Runs, RunAt, HasVm
      <4>2. RunAt(pc[p], my[p])'
        BY <3>5, <4>1 DEF RunAt
      <4>3. VmOK'
        BY <3>5, <4>1 DEF VmOK, HasVm
      <4> QED BY <3>2, <4>2, <4>3
    <3>6. CASE vm' = NoVm /\ record' = record /\ pc'[p] = "idle"
      <4>1. RunAt(pc[p], my[p])'
        BY <3>6 DEF RunAt, HasVm
      <4>2. VmOK'
        BY <3>6 DEF VmOK, NoVm
      <4> QED BY <3>2, <4>1, <4>2
    <3>7. CASE vm' = vm /\ record' = record /\ (HasVm(pc[p]) <=> HasVm(pc'[p])) /\ ~HasVm(pc[p])
      BY <2>2, <3>7
    <3> QED BY <1>3, <2>3, <3>3, <3>4, <3>5, <3>6, <3>7, VmMoves
  <2> QED BY <1>3, <2>2, <2>3, VmMoves
<1>4. CASE EditFile \/ RemoveDirectory \/ EditSkills
  <2>1. vm' = vm /\ record' = record
    BY <1>4 DEF EditFile, RemoveDirectory, EditSkills
  <2> QED BY <1>1, <1>2, <1>4, <2>1, EditsDisturb
<1>5. CASE UNCHANGED vars
  BY <1>1, <1>2, <1>5 DEF vars, Untouched
<1> QED BY <1>3, <1>4, <1>5 DEF Next

LEMMA VmInit ==
  ASSUME Init
  PROVE  VmOK /\ Runs
<1>1. vm = NoVm /\ record = NoRecord /\ \A p \in Procs : pc[p] = "idle"
  BY DEF Init
<1> QED BY <1>1 DEF VmOK, Runs, RunAt, HasVm, NoVm, NoRecord

Typing == Control /\ SkillsOK /\ FilesOK /\ UserSaves /\ RunsAlone /\ VmOK /\ Runs

LEMMA TypingImplies ==
  ASSUME Typing
  PROVE  TypeOK
<1> USE DEF Typing
<1>1. /\ \A f \in DOMAIN files : files[f].state \in {"absent", "unparsable", "table"}
      /\ record.state \in {"absent", "table"} /\ {vm.up, vm.recorded, setting} \subseteq BOOLEAN
      /\ skills.shipped \in {"absent", "other", "current"} /\ skills.stray \in BOOLEAN
  BY DEF FilesOK, VmOK, SkillsOK
<1>2. ASSUME NEW p \in Procs
      PROVE  /\ pc[p] \in Places
             /\ pc[p] = "idle" <=> my[p].command = "none"
             /\ pc[p] \in Loaded => my[p].session.manifest.ok
  BY DEF Control, Shape, CommandsAt, Places, Loading
<1>3. vm.up <=> \E p \in Procs : HasVm(pc[p])
  BY DEF VmOK, Runs, RunAt
<1> QED BY <1>1, <1>2, <1>3 DEF TypeOK, Loaded, HasVm

(* The files, the record, the container and the skills keep their types, a   *)
(* command past its load has a manifest that parsed, and a container is up   *)
(* exactly while the process that made it is there (TypeOK), for one         *)
(* terminal that runs and any number of others.                              *)
THEOREM TypesHold == Spec => []TypeOK
<1>1. Init => Typing
  BY ControlInit, InstallsInit, FilesInit, RunsAloneInit, VmInit DEF Typing
<1>2. Typing /\ [Next]_vars => Typing'
  BY ControlNext, SkillsStep, FilesStep, UserSavesStep, RunsAloneStep, VmStep DEF Typing
<1>3. Typing => TypeOK
  BY TypingImplies
<1> QED BY <1>1, <1>2, <1>3, PTL DEF Spec

-----------------------------------------------------------------------------
(* What the operators on tables keep.                                        *)

(* A save's sort moves the entries and neither drops nor doubles one.        *)
LEMMA Sorted ==
  ASSUME NEW E, NEW entries \in Seq(E), \A e \in E : e.source \in Raws
  PROVE  /\ SortedBySource(entries) \in Seq(E)
         /\ ToSet(SortedBySource(entries)) = ToSet(entries)
<1> DEFINE D == DOMAIN entries
           at(i) == CHOOSE n \in DOMAIN SourceOrder : SourceOrder[n] = entries[i].source
           before(i, j) == at(i) < at(j) \/ (at(i) = at(j) /\ i < j)
           B(i) == {j \in DOMAIN entries : before(j, i)}
           count(i) == Cardinality(B(i))
           rank(i) == count(i) + 1
           from(n) == CHOOSE i \in DOMAIN entries : rank(i) = n
           sorted == [n \in DOMAIN entries |-> entries[from(n)]]
<1>1. SortedBySource(entries) = sorted
  BY DEF SortedBySource
<1>2. D = 1 .. Len(entries) /\ Len(entries) \in Nat /\ D \subseteq Nat
  OBVIOUS
<1>3. \A i \in D : at(i) \in Nat
  <2>1. ASSUME NEW i \in D
        PROVE  at(i) \in Nat
    <3>1. entries[i].source \in ToSet(SourceOrder)
      BY DEF Raws
    <3>2. \E n \in DOMAIN SourceOrder : SourceOrder[n] = entries[i].source
      BY <3>1 DEF ToSet
    <3>3. at(i) \in DOMAIN SourceOrder
      BY <3>2
    <3>4. DOMAIN SourceOrder \subseteq Nat
      BY PathsAssumption
    <3> QED BY <3>3, <3>4
  <2> QED BY <2>1
<1> HIDE DEF at
<1>4. \A i, j \in D : i # j => before(i, j) \/ before(j, i)
  BY <1>2, <1>3
<1>5. \A i, j, k \in D : before(i, j) /\ before(j, k) => before(i, k)
  BY <1>2, <1>3
<1>6. \A i \in D : ~before(i, i)
  BY <1>2, <1>3
<1>7. IsFiniteSet(D) /\ Cardinality(D) = Len(entries)
  BY <1>2, FS_Interval
<1> HIDE DEF before, D, count
<1>8. \A i \in D : IsFiniteSet(B(i)) /\ B(i) \subseteq D \ {i} /\ count(i) \in 0 .. Len(entries) - 1
  <2>1. ASSUME NEW i \in D
        PROVE  IsFiniteSet(B(i)) /\ B(i) \subseteq D \ {i} /\ count(i) \in 0 .. Len(entries) - 1
    <3>1. B(i) \subseteq D \ {i}
      BY <1>6 DEF D
    <3>2. IsFiniteSet(D \ {i}) /\ Cardinality(D \ {i}) = Len(entries) - 1
      BY <1>7, FS_RemoveElement
    <3>3. IsFiniteSet(B(i)) /\ Cardinality(B(i)) <= Len(entries) - 1
      BY <3>1, <3>2, FS_Subset
    <3>4. Cardinality(B(i)) \in Nat
      BY <3>3, FS_CardinalityType
    <3> QED BY <1>2, <3>1, <3>3, <3>4 DEF count
  <2> QED BY <2>1
<1> HIDE DEF B
<1>9. ASSUME NEW i \in D, NEW j \in D, before(j, i)
      PROVE  count(j) < count(i)
  <2>1. B(j) \subseteq B(i) /\ j \in B(i) /\ j \notin B(j)
    BY <1>5, <1>6, <1>9 DEF B, D
  <2>2. Cardinality(B(j)) <= Cardinality(B(i)) /\ Cardinality(B(j)) # Cardinality(B(i))
    BY <1>8, <2>1, FS_Subset
  <2>3. count(j) <= count(i) /\ count(j) # count(i)
    BY <2>2 DEF count
  <2>4. count(j) \in Nat /\ count(i) \in Nat
    BY <1>8
  <2> QED BY <2>3, <2>4
<1> DEFINE f == [i \in D |-> rank(i)]
<1>10. \A i \in D : rank(i) \in D
  BY <1>2, <1>8
<1>11. \A i, j \in D : rank(i) = rank(j) => i = j
  <2>1. ASSUME NEW i \in D, NEW j \in D, rank(i) = rank(j), i # j
        PROVE  FALSE
    <3>1. count(i) = count(j) /\ count(i) \in Nat
      BY <1>8, <2>1
    <3>2. ~(count(i) < count(j)) /\ ~(count(j) < count(i))
      BY <3>1
    <3> QED BY <1>4, <1>9, <2>1, <3>2
  <2> QED BY <2>1
<1> HIDE DEF rank
<1>12. f \in Injection(D, D)
  BY <1>10, <1>11 DEF Injection, IsInjective
<1>13. f \in Surjection(D, D)
  BY <1>7, <1>12, FS_Injection
<1>14. \A n \in D : \E i \in D : rank(i) = n
  BY <1>13 DEF Surjection
<1>15. \A n \in D : from(n) \in D /\ rank(from(n)) = n
  BY <1>14 DEF D
<1>16. \A i \in D : from(rank(i)) = i
  BY <1>10, <1>11, <1>15
<1> HIDE DEF from
<1>17. sorted = [n \in D |-> entries[from(n)]] /\ DOMAIN entries = D
  BY DEF D
<1> HIDE DEF sorted
<1>18. \A n \in D : entries[n] \in E
  BY DEF D
<1>19. sorted \in Seq(E)
  <2>1. \A n \in 1 .. Len(entries) : sorted[n] \in E
    BY <1>2, <1>15, <1>17, <1>18 DEF D
  <2>2. sorted = [n \in 1 .. Len(entries) |-> sorted[n]]
    BY <1>2, <1>17 DEF D
  <2> QED BY <1>2, <2>1, <2>2
<1>20. ToSet(sorted) = ToSet(entries)
  <2>1. ToSet(sorted) = {entries[from(n)] : n \in D}
    BY <1>17 DEF ToSet
  <2>2. ToSet(entries) = {entries[i] : i \in D}
    BY <1>17 DEF ToSet
  <2> QED BY <1>10, <1>15, <1>16, <2>1, <2>2
<1> QED BY <1>1, <1>19, <1>20

LEMMA DefaultPaths == Default[Paths] = <<>> /\ Default[<<"workspace", "roots">>] = <<>>
<1>1. \A name, k : <<name, k>> # Paths
  BY DEF Paths
<1>2. ASSUME NEW over, NEW table, NEW key, key \notin DOMAIN over, key \in DOMAIN table
      PROVE  key \in DOMAIN Over(over, table) /\ Over(over, table)[key] = table[key]
  BY <1>2 DEF Over
<1> DEFINE roots == <<"workspace", "roots">>
           rest == With(WorkspaceConfig, Paths, <<>>)
<1>3. ASSUME NEW name, NEW keys, name # "workspace"
      PROVE  Paths \notin DOMAIN Within(name, keys) /\ roots \notin DOMAIN Within(name, keys)
  BY <1>1, <1>3 DEF Within
<1>4. /\ Paths \in DOMAIN rest /\ rest[Paths] = <<>>
      /\ roots \in DOMAIN rest /\ rest[roots] = <<>>
  <2>1. roots \in DOMAIN WorkspaceConfig /\ WorkspaceConfig[roots] = <<>>
    BY DEF WorkspaceConfig, Within
  <2> QED BY <1>1, <2>1 DEF With, Over
<1> HIDE DEF rest, roots
<1>5. ASSUME NEW key \in {Paths, roots}
      PROVE  Default[key] = <<>>
  <2>1. key \notin DOMAIN ClaudeConfig /\ key \notin DOMAIN ContainerConfig /\ key \notin DOMAIN HostConfig
    BY <1>3 DEF ClaudeConfig, ContainerConfig, HostConfig
  <2>2. key \notin DOMAIN ImageConfig /\ key \notin DOMAIN ProjectConfig
    BY <1>3 DEF ImageConfig, ProjectConfig
  <2>3. key \in DOMAIN Over(ProjectConfig, rest) /\ Over(ProjectConfig, rest)[key] = <<>>
    BY <1>2, <1>4, <2>2
  <2>4. key \in DOMAIN Over(ImageConfig, Over(ProjectConfig, rest))
        /\ Over(ImageConfig, Over(ProjectConfig, rest))[key] = <<>>
    BY <1>2, <2>2, <2>3
  <2>5. key \in DOMAIN Over(HostConfig, Over(ImageConfig, Over(ProjectConfig, rest)))
        /\ Over(HostConfig, Over(ImageConfig, Over(ProjectConfig, rest)))[key] = <<>>
    BY <1>2, <2>1, <2>4
  <2>6. key \in DOMAIN Over(ContainerConfig, Over(HostConfig, Over(ImageConfig, Over(ProjectConfig, rest))))
        /\ Over(ContainerConfig, Over(HostConfig, Over(ImageConfig, Over(ProjectConfig, rest))))[key] = <<>>
    BY <1>2, <2>1, <2>5
  <2> QED BY <1>2, <2>1, <2>6 DEF Default, rest
<1> QED BY <1>5 DEF roots

LEMMA EmptyTyped == Typed(EmptyTable) /\ SourcesIn(EmptyTable) = {}
BY DEF Typed, EmptyTable, SourcesIn, Get, ToSet

(* The entries of a file with one more, as a save sorts them.                *)
LEMMA EntriesAdded ==
  ASSUME NEW table, Typed(table), NEW entry \in Entries
  PROVE  /\ Value(table, Paths) = Get(table, Paths, <<>>) /\ Value(table, Paths) \in Seq(Entries)
         /\ \E sorted \in Seq(Entries) :
              /\ WithPath(table, entry) = With(table, Paths, sorted)
              /\ ToSet(sorted) = ToSet(Value(table, Paths)) \union {entry}
<1> DEFINE paths == Value(table, Paths)
           more == Append(paths, entry)
           sorted == SortedBySource(more)
<1>1. paths = Get(table, Paths, <<>>) /\ paths \in Seq(Entries)
  BY DefaultPaths DEF Value, Get, Typed
<1>2. more \in Seq(Entries) /\ ToSet(more) = ToSet(paths) \union {entry}
  BY <1>1 DEF ToSet
<1>3. \A e \in Entries : e.source \in Raws
  BY DEF Entries
<1>4. WithPath(table, entry) = With(table, Paths, sorted)
  BY DEF WithPath
<1> HIDE DEF more
<1>5. sorted \in Seq(Entries) /\ ToSet(sorted) = ToSet(more)
  BY <1>2, <1>3, Sorted
<1> HIDE DEF sorted
<1> QED BY <1>1, <1>2, <1>4, <1>5

(* Adding an entry adds its source to those the file names.                  *)
LEMMA PathAdded ==
  ASSUME NEW table, Typed(table), NEW entry \in Entries
  PROVE  /\ Typed(WithPath(table, entry))
         /\ SourcesIn(WithPath(table, entry)) = SourcesIn(table) \union {entry.source}
<1> DEFINE paths == Value(table, Paths)
<1>1. paths = Get(table, Paths, <<>>)
  BY EntriesAdded
<1>2. PICK sorted \in Seq(Entries) :
        WithPath(table, entry) = With(table, Paths, sorted) /\ ToSet(sorted) = ToSet(paths) \union {entry}
  BY EntriesAdded
<1>3. /\ DOMAIN WithPath(table, entry) = DOMAIN table \union {Paths}
      /\ WithPath(table, entry)[Paths] = sorted
      /\ \A k \in DOMAIN table \ {Paths} : WithPath(table, entry)[k] = table[k]
  BY <1>2 DEF With, Over
<1>4. Typed(WithPath(table, entry))
  <2>1. <<"workspace", "roots">> # Paths /\ KeyPath(Paths)
    BY DEF Paths, KeyPath, ToSet
  <2> QED BY <1>3, <2>1 DEF Typed
<1>5. Get(WithPath(table, entry), Paths, <<>>) = sorted
  BY <1>3 DEF Get
<1> HIDE DEF paths
<1>6. SourcesIn(WithPath(table, entry)) = {e.source : e \in ToSet(paths) \union {entry}}
  BY <1>2, <1>5 DEF SourcesIn
<1>7. SourcesIn(table) = {e.source : e \in ToSet(paths)}
  BY <1>1 DEF SourcesIn
<1> QED BY <1>4, <1>6, <1>7

LEMMA RetiredDropped ==
  ASSUME NEW table, Typed(table)
  PROVE  Typed(WithoutRetired(table)) /\ SourcesIn(WithoutRetired(table)) \subseteq SourcesIn(table)
<1>1. /\ DOMAIN WithoutRetired(table) \subseteq DOMAIN table
      /\ \A k \in DOMAIN WithoutRetired(table) : WithoutRetired(table)[k] = table[k]
  BY DEF WithoutRetired
<1> QED BY <1>1 DEF Typed, SourcesIn, Get, ToSet

LEMMA NamedAfterTyped ==
  ASSUME NEW dir
  PROVE  Typed(NamedAfter(dir)) /\ SourcesIn(NamedAfter(dir)) = {}
<1>1. DOMAIN NamedAfter(dir) \subseteq {<<"project", "name">>, <<"project", "image">>}
  BY DEF NamedAfter, Rendered, With, Over, EmptyTable
<1>2. Paths \notin DOMAIN NamedAfter(dir) /\ <<"workspace", "roots">> \notin DOMAIN NamedAfter(dir)
  BY <1>1 DEF Paths
<1>3. KeyPath(<<"project", "name">>) /\ KeyPath(<<"project", "image">>)
  <2>1. \A a, b : KeyPath(<<a, b>>)
    BY DEF KeyPath, ToSet
  <2> QED BY <2>1
<1> QED BY <1>1, <1>2, <1>3 DEF Typed, SourcesIn, Get, ToSet

-----------------------------------------------------------------------------
(* What add records.                                                         *)

Adds == \A p \in Procs : AddAt(pc[p], my[p])
TableSaves == \A p \in Procs : SavedAt(pc[p], my[p]) /\ OutAt(pc[p], my[p])
FilesAsked ==
  /\ SourcesIn(files.shared.table) \subseteq AskedShared
  /\ SourcesIn(files.local.table) \subseteq AskedLocal
GivenOK == \A g \in given : g.force \/ Danger(g.path) = "none"

(* Where a text to save comes from.                                          *)
LEMMA SavingTable ==
  ASSUME Control, NEW p \in Procs, CommandStep(p), pc'[p] = "save"
  PROVE  \/ /\ my'[p].command = "init" /\ my'[p].file = "shared" /\ my'[p].out = NamedAfter(Cwd)
         \/ /\ my[p].command = "add" /\ my'[p].command = "add" /\ my'[p].arg = my[p].arg
            /\ my'[p].file = FileOf(my[p].arg.local)
            /\ my'[p].out = WithPath(files[my'[p].file].table,
                                     [source |-> Dir(my[p].arg.path), target |-> NoPath,
                                      readonly |-> my[p].arg.readonly])
         \/ /\ my'[p].command = "fix" /\ my'[p].file = "user"
         \/ /\ my'[p].command = "fix" /\ my'[p].file \in {"local", "shared"}
            /\ my'[p].out = WithoutRetired(files[my'[p].file].table)
<1>1. DOMAIN my[p] = Fields /\ DOMAIN Idle = Fields /\ Framed
  BY IdleFields DEF Control, Shape
<1>2. CASE StartInit(p)
  <2> DEFINE out == NamedAfter(Cwd)
  <2>1. Go(p, "save", [Idle EXCEPT !.command = "init", !.file = "shared", !.out = out, !.next = "idle"])
    BY <1>2 DEF StartInit
  <2> HIDE DEF out
  <2>2. my'[p] = [Idle EXCEPT !.command = "init", !.file = "shared", !.out = out, !.next = "idle"]
    BY <1>1, <2>1, Going DEF Moves
  <2>3. my'[p].command = "init" /\ my'[p].file = "shared" /\ my'[p].out = out
    BY <1>1, <2>2 DEF Fields
  <2> QED BY <2>3 DEF out
<1>3. CASE RecordPath(p)
  <2> DEFINE arg == my[p].arg
             added == AddOutcome(my[p].session, arg.path, arg.readonly, arg.local)
             file == FileOf(added.local)
             out == WithPath(files[file].table, added.entry)
  <2>1. my[p].command = "add"
    BY <1>3 DEF RecordPath, Control, Shape, CommandsAt
  <2>2. ~Go(p, "idle", Idle)
    BY <1>1, Going DEF Moves
  <2>3. /\ added.outcome # "AlreadyMounted"
        /\ Go(p, "save", [my[p] EXCEPT !.file = file, !.next = "idle", !.out = out])
    BY <1>3, <2>2 DEF RecordPath
  <2>4. /\ added.local = arg.local
        /\ added.entry = [source |-> Dir(arg.path), target |-> NoPath, readonly |-> arg.readonly]
    BY <2>3 DEF AddOutcome
  <2> HIDE DEF out, file
  <2>5. my'[p] = [my[p] EXCEPT !.file = file, !.next = "idle", !.out = out]
    BY <1>1, <2>3, Going DEF Moves
  <2>6. my'[p].command = "add" /\ my'[p].file = file /\ my'[p].out = out /\ my'[p].arg = arg
    BY <1>1, <2>1, <2>5 DEF Fields
  <2> QED BY <2>1, <2>4, <2>6 DEF out, file
<1>4. CASE FixUser(p)
  <2>1. ~Go(p, "idle", Idle) /\ ~Go(p, "fix_files", my[p])
    BY <1>1, Going DEF Moves
  <2>2. \E out : Go(p, "save", [my[p] EXCEPT !.file = "user", !.next = "fix_files", !.out = out])
    BY <1>4, <2>1 DEF FixUser
  <2>3. PICK out : my'[p] = [my[p] EXCEPT !.file = "user", !.next = "fix_files", !.out = out]
    BY <1>1, <2>2, Going DEF Moves
  <2>4. my[p].command = "fix"
    BY <1>4 DEF FixUser, Control, Shape, CommandsAt
  <2> QED BY <1>1, <2>3, <2>4 DEF Fields
<1>5. CASE FixFiles(p)
  <2>1. ~Go(p, "idle", Idle) /\ ~Go(p, "load_shared", [my[p] EXCEPT !.retired = <<>>])
    BY <1>1, Going DEF Moves
  <2> DEFINE file == Head(my[p].todo)
             out == WithoutRetired(files[file].table)
  <2>2. /\ my[p].todo # <<>>
        /\ Go(p, "save", [my[p] EXCEPT !.file = file, !.todo = Tail(my[p].todo),
                                       !.next = "fix_files", !.out = out])
    BY <1>5, <2>1 DEF FixFiles
  <2>3. file \in {"local", "shared"}
    BY <2>2, HeadTailProperties DEF Control, Shape
  <2>4. my[p].command = "fix"
    BY <1>5 DEF FixFiles, Control, Shape, CommandsAt
  <2> HIDE DEF file, out
  <2>5. my'[p] = [my[p] EXCEPT !.file = file, !.todo = Tail(my[p].todo),
                               !.next = "fix_files", !.out = out]
    BY <1>1, <2>2, Going DEF Moves
  <2>6. my'[p].command = "fix" /\ my'[p].file = file /\ my'[p].out = out
    BY <1>1, <2>4, <2>5 DEF Fields
  <2> QED BY <2>3, <2>6 DEF out
<1> QED BY <1>2, <1>3, <1>4, <1>5, Arriving DEF Arrives

LEMMA AddsStep ==
  ASSUME Control, Adds, [Next]_vars
  PROVE  Adds'
<1>1. ASSUME NEW q \in Procs, Untouched(q) \/ Outdated(q)
      PROVE  AddAt(pc[q], my[q])'
  <2>1. pc'[q] = pc[q] /\ my'[q].command = my[q].command /\ my'[q].arg = my[q].arg
        /\ my'[q].file = my[q].file
    BY <1>1 DEF Untouched, Outdated, Control, Shape, Fields
  <2> QED BY <2>1 DEF Adds, AddAt
<1>2. ASSUME NEW p \in Procs, CommandStep(p), my'[p].command = "add"
      PROVE  AddAt(pc[p], my[p])'
  <2>1. CASE Begins(p)
    <3>1. PICK arg \in AddArgs : StartAdd(p, arg)
      BY <1>2, <2>1 DEF Begins
    <3> DEFINE a == [path |-> Canonical(Resolve(arg.raw)), force |-> arg.force,
                     local |-> arg.local, readonly |-> arg.readonly]
    <3>2. /\ Go(p, "load_shared", [Idle EXCEPT !.command = "add", !.arg = a])
          /\ Danger(a.path) = "none" \/ a.force
      BY <3>1 DEF StartAdd
    <3>3. Dir(a.path) \in Raws /\ a.local \in BOOLEAN /\ a.readonly \in BOOLEAN
      BY PathsAssumption
    <3> HIDE DEF a
    <3>4. pc'[p] = "load_shared" /\ my'[p].arg = a
      <4>1. pc'[p] = "load_shared" /\ my'[p] = [Idle EXCEPT !.command = "add", !.arg = a]
        BY <3>2, Going DEF Control, Moves
      <4> QED BY <4>1, IdleFields DEF Fields
    <3> QED BY <3>2, <3>3, <3>4 DEF AddAt
  <2>2. CASE Continues(p)
    <3>1. my[p].command = "add" /\ my'[p].arg = my[p].arg
      BY <1>2, <2>2 DEF Continues
    <3>2. CASE pc'[p] = "save"
      BY <1>2, <3>1, <3>2, SavingTable DEF Adds, AddAt
    <3>3. CASE pc'[p] = "write"
      <4>1. Truncate(p)
        BY <1>2, <3>3, Arriving DEF Arrives
      <4>2. my'[p] = my[p] /\ pc[p] = "save"
        BY <3>3, <4>1, Disturbs DEF Truncate, Control, Moves
      <4> QED BY <4>2 DEF Adds, AddAt
    <3> QED BY <3>1, <3>2, <3>3 DEF Adds, AddAt
  <2> QED BY <1>2, <2>1, <2>2, Beginning
<1>3. ASSUME NEW p \in Procs, Kill(p)
      PROVE  AddAt(pc[p], my[p])'
  <2>1. my'[p] = Idle
    BY <1>3, Disturbs DEF Kill, Control, Moves
  <2> QED BY <2>1, IdleFields DEF AddAt
<1>4. ASSUME NEW p \in Procs, CommandStep(p) \/ Kill(p)
      PROVE  Adds'
  <2>1. AddAt(pc[p], my[p])'
    BY <1>2, <1>3, <1>4 DEF AddAt
  <2> QED BY <1>1, <1>4, <2>1, MovingStep DEF Control, Moving, Bystander, Adds
<1>5. CASE EditFile \/ RemoveDirectory \/ EditSkills
  BY <1>1, <1>5, EditsDisturb DEF Adds
<1>6. CASE UNCHANGED vars
  BY <1>1, <1>6 DEF vars, Untouched, Adds
<1> QED BY <1>4, <1>5, <1>6 DEF Next

(* What is recorded is only ever added to.                                   *)
LEMMA AskedGrows ==
  ASSUME given \subseteq given'
  PROVE  AskedShared \subseteq AskedShared' /\ AskedLocal \subseteq AskedLocal'
<1>1. \A isLocal : Recorded(isLocal) \subseteq {Dir(g.path) : g \in {h \in given' : h.local = isLocal}}
  BY DEF Recorded
<1>2. Recorded(TRUE) \subseteq Recorded(TRUE)' /\ Recorded(FALSE) \subseteq Recorded(FALSE)'
  BY <1>1 DEF Recorded
<1> QED BY <1>2 DEF AskedShared, AskedLocal

(* A save puts into its file what the file is meant to have.                 *)
LEMMA SaveAsked ==
  ASSUME Control, FilesOK, UserSaves, Adds, TableSaves, TablesOK, FilesAsked, GivenOK,
         NEW p \in Procs, Truncate(p) \/ Write(p)
  PROVE  TablesOK' /\ FilesAsked' /\ GivenOK' /\ given \subseteq given'
<1>1. /\ given \subseteq given'
      /\ \A g \in given' \ given : /\ Write(p) /\ my[p].command = "add"
                                   /\ g = [path |-> my[p].arg.path, force |-> my[p].arg.force,
                                           local |-> my[p].arg.local]
      /\ Write(p) /\ my[p].command = "add" =>
           [path |-> my[p].arg.path, force |-> my[p].arg.force, local |-> my[p].arg.local] \in given'
  BY DEF Truncate, Write
<1>2. GivenOK'
  BY <1>1 DEF GivenOK, Adds, AddAt
<1>3. PICK text : /\ files' = [files EXCEPT ![my[p].file] = Holding(text)]
                  /\ text = EmptyTable \/ (Write(p) /\ text = my[p].out)
  BY DEF Truncate, Write, Truncated
<1>4. /\ DOMAIN files = {"shared", "local", "user"} /\ my[p].file \in {"shared", "local", "user"}
      /\ pc[p] \in {"save", "write"}
  BY Saving DEF FilesOK, Truncate, Write
<1>5. \A f \in {"shared", "local"} :
        files'[f].table = IF f = my[p].file THEN text ELSE files[f].table
  BY <1>3, <1>4 DEF Holding
<1>6. my[p].file # "user" => Typed(text)
  BY <1>3, <1>4, EmptyTyped DEF TableSaves, SavedAt
<1>7. TablesOK'
  <2>1. Typed(files'.shared.table) /\ Typed(files'.local.table)
    BY <1>5, <1>6 DEF TablesOK
  <2> QED BY <2>1 DEF TablesOK
<1>8. my[p].file # "user" =>
        SourcesIn(text) \subseteq IF my[p].file = "shared" THEN AskedShared' ELSE AskedLocal'
  <2>1. CASE text = EmptyTable
    BY <2>1, EmptyTyped
  <2>2. CASE my[p].file # "user" /\ Write(p) /\ text = my[p].out
    <3>1. SourcesIn(text) \subseteq
            Asked(my[p].file) \union (IF my[p].command = "add" THEN {Dir(my[p].arg.path)} ELSE {})
      BY <1>4, <2>2 DEF TableSaves, OutAt
    <3>2. ASSUME my[p].command = "add"
          PROVE  Dir(my[p].arg.path) \in IF my[p].file = "shared" THEN AskedShared' ELSE AskedLocal'
      <4>1. my[p].file = FileOf(my[p].arg.local) /\ my[p].arg.local \in BOOLEAN
        BY <1>4, <3>2 DEF Adds, AddAt
      <4> DEFINE g == [path |-> my[p].arg.path, force |-> my[p].arg.force, local |-> my[p].arg.local]
      <4>2. g \in given'
        BY <1>1, <2>2, <3>2
      <4>3. CASE my[p].arg.local = TRUE
        <5>1. my[p].file = "local" /\ g.local = TRUE /\ g.path = my[p].arg.path
          BY <4>1, <4>2, <4>3 DEF FileOf
        <5> HIDE DEF g
        <5>2. Dir(g.path) \in Recorded(TRUE)'
          BY <4>2, <5>1 DEF Recorded
        <5> QED BY <5>1, <5>2 DEF AskedLocal
      <4>4. CASE my[p].arg.local = FALSE
        <5>1. my[p].file = "shared" /\ g.local = FALSE /\ g.path = my[p].arg.path
          BY <4>1, <4>2, <4>4 DEF FileOf
        <5> HIDE DEF g
        <5>2. Dir(g.path) \in Recorded(FALSE)'
          BY <4>2, <5>1 DEF Recorded
        <5> QED BY <5>1, <5>2 DEF AskedShared
      <4> QED BY <4>1, <4>3, <4>4
    <3> QED BY <1>1, <3>1, <3>2, AskedGrows DEF Asked
  <2> QED BY <1>3, <2>1, <2>2
<1>9. FilesAsked'
  <2>1. AskedShared \subseteq AskedShared' /\ AskedLocal \subseteq AskedLocal'
    BY <1>1, AskedGrows
  <2>2. SourcesIn(files'.shared.table) \subseteq AskedShared'
    BY <1>5, <1>8, <2>1 DEF FilesAsked
  <2>3. SourcesIn(files'.local.table) \subseteq AskedLocal'
    BY <1>5, <1>8, <2>1 DEF FilesAsked
  <2> QED BY <2>2, <2>3 DEF FilesAsked
<1> QED BY <1>1, <1>2, <1>7, <1>9

(* What a command is about to save it has of the file it saves it to.        *)
LEMMA TableSavesOf ==
  ASSUME Control, Adds, TableSaves, TablesOK, FilesAsked, NEW p \in Procs, CommandStep(p),
         given \subseteq given'
  PROVE  (SavedAt(pc[p], my[p]) /\ OutAt(pc[p], my[p]))'
<1>1. AskedShared \subseteq AskedShared' /\ AskedLocal \subseteq AskedLocal'
  BY AskedGrows
<1>2. CASE pc'[p] = "save"
  <2>1. CASE my'[p].file = "user"
    BY <1>2, <2>1 DEF SavedAt, OutAt
  <2>2. CASE /\ my'[p].command = "init" /\ my'[p].file = "shared" /\ my'[p].out = NamedAfter(Cwd)
    BY <1>2, <2>2, NamedAfterTyped DEF SavedAt, OutAt
  <2>3. CASE /\ my[p].command = "add" /\ my'[p].command = "add" /\ my'[p].arg = my[p].arg
             /\ my'[p].file = FileOf(my[p].arg.local)
             /\ my'[p].out = WithPath(files[my'[p].file].table,
                                      [source |-> Dir(my[p].arg.path), target |-> NoPath,
                                       readonly |-> my[p].arg.readonly])
    <3> DEFINE file == my'[p].file
               entry == [source |-> Dir(my[p].arg.path), target |-> NoPath,
                         readonly |-> my[p].arg.readonly]
    <3>1. entry \in Entries /\ entry.source = Dir(my[p].arg.path)
      BY <2>3 DEF Adds, AddAt, Entries, NoPath
    <3>2. file \in {"shared", "local"}
      BY <2>3 DEF FileOf
    <3>3. Typed(files[file].table) /\ SourcesIn(files[file].table) \subseteq Asked(file)
      BY <3>2 DEF TablesOK, FilesAsked, Asked
    <3>4. my'[p].out = WithPath(files[file].table, entry)
      BY <2>3
    <3> HIDE DEF entry
    <3>5. Typed(my'[p].out) /\ SourcesIn(my'[p].out) = SourcesIn(files[file].table) \union {Dir(my[p].arg.path)}
      BY <3>1, <3>3, <3>4, PathAdded
    <3>6. SourcesIn(my'[p].out) \subseteq
            (IF file = "shared" THEN AskedShared' ELSE AskedLocal') \union {Dir(my'[p].arg.path)}
      BY <1>1, <2>3, <3>3, <3>5 DEF Asked
    <3> QED BY <1>2, <2>3, <3>5, <3>6 DEF SavedAt, OutAt, Asked
  <2>4. CASE /\ my'[p].command = "fix" /\ my'[p].file \in {"local", "shared"}
             /\ my'[p].out = WithoutRetired(files[my'[p].file].table)
    <3>1. Typed(files[my'[p].file].table) /\ SourcesIn(files[my'[p].file].table) \subseteq Asked(my'[p].file)
      BY <2>4 DEF TablesOK, FilesAsked, Asked
    <3>2. /\ Typed(my'[p].out)
          /\ SourcesIn(my'[p].out) \subseteq IF my'[p].file = "shared" THEN AskedShared' ELSE AskedLocal'
      BY <1>1, <2>4, <3>1, RetiredDropped DEF Asked
    <3> QED BY <1>2, <2>4, <3>2 DEF SavedAt, OutAt, Asked
  <2> QED BY <1>2, <2>1, <2>2, <2>3, <2>4, SavingTable
<1>3. CASE pc'[p] = "write"
  <2>1. Truncate(p)
    BY <1>3, Arriving DEF Arrives
  <2>2. my'[p] = my[p] /\ pc[p] = "save"
    BY <1>3, <2>1, Disturbs DEF Truncate, Control, Moves
  <2>3. SavedAt(pc[p], my[p])'
    BY <1>3, <2>2 DEF TableSaves, SavedAt
  <2>4. OutAt(pc[p], my[p])'
    BY <1>1, <1>3, <2>2 DEF TableSaves, OutAt, Asked
  <2> QED BY <2>3, <2>4
<1>4. CASE pc'[p] = "load_local"
  <2>1. LoadShared(p)
    BY <1>4, Arriving DEF Arrives
  <2>2. my'[p] = [my[p] EXCEPT !.base = files.shared]
    BY <1>4, <2>1, Going DEF LoadShared, Control, Moves
  <2>3. my'[p].base = files.shared
    BY <2>2 DEF Control, Shape, Fields
  <2> QED BY <1>4, <2>3 DEF SavedAt, OutAt, TablesOK
<1> QED BY <1>2, <1>3, <1>4 DEF SavedAt, OutAt

LEMMA TablesStep ==
  ASSUME Control, FilesOK, UserSaves, Adds, TableSaves, TablesOK, FilesAsked, GivenOK, [Next]_vars
  PROVE  TableSaves' /\ TablesOK' /\ FilesAsked' /\ GivenOK'
<1>1. ASSUME NEW q \in Procs, Untouched(q) \/ Outdated(q), given \subseteq given'
      PROVE  (SavedAt(pc[q], my[q]) /\ OutAt(pc[q], my[q]))'
  <2>1. /\ pc'[q] = pc[q] /\ my'[q].command = my[q].command /\ my'[q].arg = my[q].arg
        /\ my'[q].file = my[q].file /\ my'[q].out = my[q].out /\ my'[q].base = my[q].base
    BY <1>1 DEF Untouched, Outdated, Control, Shape, Fields
  <2>2. AskedShared \subseteq AskedShared' /\ AskedLocal \subseteq AskedLocal'
    BY <1>1, AskedGrows
  <2> QED BY <2>1, <2>2 DEF TableSaves, SavedAt, OutAt, Asked
<1>2. ASSUME files' = files, given' = given
      PROVE  TablesOK' /\ FilesAsked' /\ GivenOK' /\ given \subseteq given'
  BY <1>2 DEF TablesOK, FilesAsked, GivenOK, AskedShared, AskedLocal, Recorded
<1>3. ASSUME NEW p \in Procs, CommandStep(p)
      PROVE  TableSaves' /\ TablesOK' /\ FilesAsked' /\ GivenOK'
  <2>1. TablesOK' /\ FilesAsked' /\ GivenOK' /\ given \subseteq given'
    BY <1>2, <1>3, Changing, SaveAsked DEF Changes
  <2>2. (SavedAt(pc[p], my[p]) /\ OutAt(pc[p], my[p]))'
    BY <1>3, <2>1, TableSavesOf
  <2> QED BY <1>1, <1>3, <2>1, <2>2, MovingStep DEF Control, Moving, Bystander, TableSaves
<1>4. ASSUME NEW p \in Procs, Kill(p)
      PROVE  TableSaves' /\ TablesOK' /\ FilesAsked' /\ GivenOK'
  <2>1. TablesOK' /\ FilesAsked' /\ GivenOK' /\ given \subseteq given'
    BY <1>2, <1>4 DEF Kill
  <2>2. (SavedAt(pc[p], my[p]) /\ OutAt(pc[p], my[p]))'
    BY <1>4, Disturbs DEF Kill, Control, Moves, SavedAt, OutAt
  <2> QED BY <1>1, <1>4, <2>1, <2>2, MovingStep DEF Control, Moving, Bystander, TableSaves
<1>5. CASE EditFile \/ RemoveDirectory \/ EditSkills
  <2>1. given' = given
    BY <1>5 DEF EditFile, RemoveDirectory, EditSkills
  <2>2. TableSaves'
    BY <1>1, <1>5, <2>1, EditsDisturb DEF TableSaves
  <2>3. CASE EditFile
    <3>0. PICK f \in {"shared", "local"} :
            \E t \in IF f = "shared" THEN SharedTables ELSE LocalTables :
              files' = [files EXCEPT ![f] = Holding(t)]
      BY <2>3 DEF EditFile
    <3>1. PICK t \in IF f = "shared" THEN SharedTables ELSE LocalTables :
            files' = [files EXCEPT ![f] = Holding(t)]
      BY <3>0
    <3>2. Typed(t) /\ SourcesIn(t) \subseteq IF f = "shared" THEN AskedShared ELSE AskedLocal
      BY <3>1, TablesAssumption DEF AskedShared, AskedLocal
    <3>3. \A g \in {"shared", "local"} : files'[g].table = IF g = f THEN t ELSE files[g].table
      BY <3>1 DEF Holding, FilesOK
    <3>4. TablesOK'
      BY <3>2, <3>3 DEF TablesOK
    <3>5. AskedShared' = AskedShared /\ AskedLocal' = AskedLocal
      BY <2>1 DEF AskedShared, AskedLocal, Recorded
    <3>6. FilesAsked' /\ GivenOK'
      BY <2>1, <3>2, <3>3, <3>5 DEF FilesAsked, GivenOK
    <3> QED BY <2>2, <3>4, <3>6
  <2>4. CASE RemoveDirectory \/ EditSkills
    BY <1>2, <2>1, <2>2, <2>4 DEF RemoveDirectory, EditSkills
  <2> QED BY <1>5, <2>2, <2>3, <2>4
<1>6. CASE UNCHANGED vars
  BY <1>1, <1>2, <1>6 DEF vars, Untouched, TableSaves
<1> QED BY <1>3, <1>4, <1>5, <1>6 DEF Next

LEMMA AddsInit ==
  ASSUME Init
  PROVE  Adds /\ TableSaves /\ TablesOK /\ FilesAsked /\ GivenOK
<1>1. given = {} /\ \A p \in Procs : pc[p] = "idle" /\ my[p] = Idle
  BY DEF Init
<1>2. PICK begin \in Schedules :
        files \in [shared : begin.shared, local : begin.local, user : {Holding(u) : u \in UserTables}]
  BY DEF Init
<1>3. /\ begin.shared \subseteq {Absent, Unparsable} \union {Holding(t) : t \in SharedTables}
      /\ begin.local \subseteq {Absent, Unparsable} \union {Holding(t) : t \in LocalTables}
  BY SchedulesAssumption
<1>4. /\ files.shared.table = EmptyTable \/ files.shared.table \in SharedTables
      /\ files.local.table = EmptyTable \/ files.local.table \in LocalTables
  BY <1>2, <1>3 DEF Absent, Unparsable, Holding
<1>5. TablesOK
  BY <1>4, EmptyTyped, TablesAssumption DEF TablesOK
<1>6. FilesAsked
  BY <1>4, EmptyTyped DEF FilesAsked, AskedShared, AskedLocal
<1> QED BY <1>1, <1>5, <1>6, IdleFields DEF Adds, AddAt, TableSaves, SavedAt, OutAt, GivenOK

LEMMA AskedImplies ==
  ASSUME FilesAsked, GivenOK
  PROVE  RecordedWhereAsked
<1> DEFINE paths(table) == {e.source : e \in ToSet(Get(table, Paths, <<>>))}
           written(tables) == UNION {paths(t) : t \in tables}
           recorded(isLocal) == {Dir(g.path) : g \in {h \in given : h.local = isLocal}}
<1> HIDE DEF recorded
<1>4. \A isLocal : recorded(isLocal) = Recorded(isLocal)
  BY DEF recorded, Recorded
<1>5. \A table : paths(table) = SourcesIn(table)
  BY DEF SourcesIn
<1> HIDE DEF paths
<1>6. \A tables : written(tables) = UNION {SourcesIn(t) : t \in tables}
  BY <1>5
<1> HIDE DEF written
<1>1. paths(files.shared.table) \subseteq written(SharedTables) \union recorded(FALSE)
  BY <1>4, <1>5, <1>6 DEF FilesAsked, AskedShared
<1>2. paths(files.local.table) \subseteq written(LocalTables) \union recorded(TRUE)
  BY <1>4, <1>5, <1>6 DEF FilesAsked, AskedLocal
<1>3. \A g \in given : g.force \/ Danger(g.path) = "none"
  BY DEF GivenOK
<1> HIDE DEF paths, written, recorded
<1> QED BY <1>1, <1>2, <1>3 DEF RecordedWhereAsked, paths, written, recorded

(* A path that add recorded is in the file it was meant for and in no other, *)
(* however the saves of several terminals, a fix and the user's edits        *)
(* overlap, and none is dangerous unless forced (RecordedWhereAsked).        *)
THEOREM PathsStay == Spec => []RecordedWhereAsked
<1> DEFINE Inv == /\ Control /\ FilesOK /\ UserSaves /\ Adds
                  /\ TableSaves /\ TablesOK /\ FilesAsked /\ GivenOK
<1>1. Init => Inv
  BY ControlInit, FilesInit, AddsInit
<1>2. Inv /\ [Next]_vars => Inv'
  BY ControlNext, FilesStep, UserSavesStep, AddsStep, TablesStep
<1>3. Inv => RecordedWhereAsked
  BY AskedImplies
<1> QED BY <1>1, <1>2, <1>3, PTL DEF Spec

-----------------------------------------------------------------------------
(* What a session that loaded has.                                           *)

SessionsTyped == \A p \in Procs : SessionAt(pc[p], my[p])

LEMMA MarkedTyped ==
  ASSUME NEW entries \in Seq(Entries), NEW isLocal \in BOOLEAN
  PROVE  Marked(entries, isLocal) \in Seq(MarkedEntries)
<1>1. \A i \in 1 .. Len(entries) : entries[i] \in Entries
  OBVIOUS
<1>2. DOMAIN entries = 1 .. Len(entries) /\ Len(entries) \in Nat
  OBVIOUS
<1>3. \A i \in 1 .. Len(entries) :
        [source |-> entries[i].source, target |-> entries[i].target,
         readonly |-> entries[i].readonly, local |-> isLocal] \in MarkedEntries
  BY <1>1 DEF Entries, MarkedEntries
<1> QED BY <1>2, <1>3 DEF Marked

(* A manifest of two files of their types has roots and paths of their types. *)
LEMMA LoadTyped ==
  ASSUME NEW shared, NEW local, Typed(shared.table), Typed(local.table), Load(shared, local).ok,
         NEW user
  PROVE  SessionTyped([manifest |-> Load(shared, local), profile |-> "", user |-> user])
<1> DEFINE over == Without(local.table, Paths)
           command(k) == IF IsPrefix(Commands, k) /\ Len(k) > 2 THEN SubSeq(k, 1, 3) ELSE k
           hidden(k) == \E l \in DOMAIN over : \/ IsPrefix(command(l), k)
                                               \/ IsPrefix(k, l)
           rest == [k \in {k \in DOMAIN shared.table : ~hidden(k)} |-> shared.table[k]]
           merged == Overlay(shared.table, over)
           roots == <<"workspace", "roots">>
<1>1. merged = Over(over, rest)
  BY DEF Overlay
<1>2. DOMAIN rest \subseteq DOMAIN shared.table /\ \A k \in DOMAIN rest : rest[k] = shared.table[k]
  OBVIOUS
<1>3. DOMAIN over = DOMAIN local.table \ {Paths} /\ \A k \in DOMAIN over : over[k] = local.table[k]
  BY DEF Without
<1> HIDE DEF over, rest, merged
<1>4. /\ DOMAIN merged = DOMAIN over \union DOMAIN rest
      /\ \A k \in DOMAIN merged : merged[k] = IF k \in DOMAIN over THEN over[k] ELSE rest[k]
  BY <1>1 DEF Over
<1>5. Value(merged, roots) \in Seq(Raws)
  <2>1. roots \in DOMAIN merged => merged[roots] \in Seq(Raws)
    BY <1>2, <1>3, <1>4 DEF Typed
  <2> QED BY <2>1, DefaultPaths DEF Value, Get
<1>6. Value(merged, Paths) \in Seq(Entries)
  <2>1. Paths \in DOMAIN merged => merged[Paths] \in Seq(Entries)
    BY <1>2, <1>3, <1>4 DEF Typed
  <2> QED BY <2>1, DefaultPaths DEF Value, Get
<1>7. Value(local.table, Paths) \in Seq(Entries)
  BY DefaultPaths DEF Value, Get, Typed
<1>8. Load(shared, local) =
        [ok |-> TRUE, table |-> merged,
         paths |-> Marked(Value(merged, Paths), FALSE) \o Marked(Value(local.table, Paths), TRUE)]
  BY DEF Load, NoManifest, merged, over
<1>9. Marked(Value(merged, Paths), FALSE) \o Marked(Value(local.table, Paths), TRUE) \in Seq(MarkedEntries)
  <2> DEFINE shown == Value(merged, Paths)
             own == Value(local.table, Paths)
  <2>1. shown \in Seq(Entries) /\ own \in Seq(Entries)
    BY <1>6, <1>7
  <2> HIDE DEF shown, own
  <2>2. \A b \in BOOLEAN : Marked(shown, b) \in Seq(MarkedEntries) /\ Marked(own, b) \in Seq(MarkedEntries)
    BY <2>1, MarkedTyped
  <2>3. Marked(shown, FALSE) \in Seq(MarkedEntries) /\ Marked(own, TRUE) \in Seq(MarkedEntries)
    BY <2>2
  <2> HIDE DEF Marked
  <2>4. Marked(shown, FALSE) \o Marked(own, TRUE) \in Seq(MarkedEntries)
    BY <2>3, ConcatProperties
  <2> QED BY <2>4 DEF shown, own
<1> DEFINE session == [manifest |-> Load(shared, local), profile |-> "", user |-> user]
           both == Marked(Value(merged, Paths), FALSE) \o Marked(Value(local.table, Paths), TRUE)
<1>10. both \in Seq(MarkedEntries) /\ session.manifest = [ok |-> TRUE, table |-> merged, paths |-> both]
  BY <1>8, <1>9
<1> HIDE DEF both, session
<1>11. session.manifest.table = merged /\ session.manifest.paths \in Seq(MarkedEntries)
  BY <1>10
<1>12. SessionTyped(session)
  BY <1>5, <1>11 DEF SessionTyped, Key
<1> QED BY <1>12 DEF session

LEMMA SessionsStep ==
  ASSUME Control, TablesOK, TableSaves, SessionsTyped, [Next]_vars
  PROVE  SessionsTyped'
<1>1. ASSUME NEW q \in Procs, Untouched(q) \/ Outdated(q)
      PROVE  SessionAt(pc[q], my[q])'
  <2>1. pc'[q] = pc[q] /\ my'[q].session = my[q].session
    BY <1>1 DEF Untouched, Outdated, Control, Shape, Fields
  <2> QED BY <2>1 DEF SessionsTyped, SessionAt
<1>2. ASSUME NEW p \in Procs, CommandStep(p)
      PROVE  SessionAt(pc[p], my[p])'
  <2>1. CASE LoadLocal(p) /\ pc'[p] # "idle"
    <3> DEFINE manifest == Load(my[p].base, files.local)
               session == [manifest |-> manifest, profile |-> "", user |-> files.user.table]
    <3>1. ~Go(p, "idle", Idle)
      BY <2>1, Going DEF Control, Moves
    <3>2. manifest.ok /\ Go(p, AfterLoad[my[p].command], [my[p] EXCEPT !.base = Absent, !.session = session])
      BY <2>1, <3>1 DEF LoadLocal
    <3>3. Typed(my[p].base.table) /\ Typed(files.local.table)
      BY <2>1 DEF LoadLocal, TableSaves, SavedAt, TablesOK
    <3>4. SessionTyped(session)
      BY <3>2, <3>3, LoadTyped
    <3> HIDE DEF session, manifest
    <3>5. my'[p] = [my[p] EXCEPT !.base = Absent, !.session = session]
      BY <2>1, <3>2, Going DEF Control, Moves
    <3>6. my'[p].session = session
      BY <3>5 DEF Control, Shape, Fields
    <3> QED BY <3>4, <3>6 DEF SessionAt
  <2>2. ASSUME my'[p].session = my[p].session, pc[p] \in Loaded \/ HasVm(pc[p])
        PROVE  SessionAt(pc[p], my[p])'
    BY <2>2 DEF SessionsTyped, SessionAt
  <2>3. CASE Look(p) /\ pc'[p] # "idle"
    <3>1. Go(p, "diagnose", [my[p] EXCEPT !.running = vm.up, !.host = host])
      BY <2>3, Going DEF Look, Control, Moves
    <3>2. my'[p] = [my[p] EXCEPT !.running = vm.up, !.host = host]
      BY <3>1, Going DEF Control, Moves
    <3>3. my'[p].session = my[p].session
      BY <3>2 DEF Control, Shape, Fields
    <3> QED BY <2>2, <2>3, <3>3 DEF Look, Loaded
  <2>4. CASE (IsRunning(p) \/ Create(p)) /\ pc'[p] # "idle"
    <3>1. my'[p] = my[p]
      BY <2>4, Going DEF IsRunning, Create, Control, Moves
    <3> QED BY <2>2, <2>4, <3>1 DEF IsRunning, Create, Loaded
  <2>5. CASE TruncateRecord(p) \/ WriteRecord(p)
    <3>1. my'[p] = my[p]
      BY <2>5, Disturbs DEF TruncateRecord, WriteRecord, Control, Moves
    <3> QED BY <2>2, <2>5, <3>1 DEF TruncateRecord, WriteRecord, HasVm
  <2> QED BY <1>2, <2>1, <2>3, <2>4, <2>5, Arriving DEF Arrives, SessionAt, Loaded, HasVm
<1>3. ASSUME NEW p \in Procs, Kill(p)
      PROVE  SessionAt(pc[p], my[p])'
  BY <1>3, Disturbs DEF Kill, Control, Moves, SessionAt, Loaded, HasVm
<1>4. ASSUME NEW p \in Procs, CommandStep(p) \/ Kill(p)
      PROVE  SessionsTyped'
  BY <1>1, <1>2, <1>3, <1>4, MovingStep DEF Control, Moving, Bystander, SessionsTyped
<1>5. CASE EditFile \/ RemoveDirectory \/ EditSkills
  BY <1>1, <1>5, EditsDisturb DEF SessionsTyped
<1>6. CASE UNCHANGED vars
  BY <1>1, <1>6 DEF vars, Untouched, SessionsTyped
<1> QED BY <1>4, <1>5, <1>6 DEF Next

LEMMA SessionsInit ==
  ASSUME Init
  PROVE  SessionsTyped
<1>1. \A p \in Procs : pc[p] = "idle"
  BY DEF Init
<1> QED BY <1>1 DEF SessionsTyped, SessionAt, Loaded, HasVm

-----------------------------------------------------------------------------
(* The workspace a list of claims makes.                                     *)

(* A set of naturals that is not empty has a least element.                  *)
LEMMA Least ==
  ASSUME NEW T, T \subseteq Nat, T # {}
  PROVE  \E x \in T : \A y \in T : x <= y
<1> DEFINE R == OpToRel(<, Nat)
<1>1. IsWellFoundedOn(R, Nat)
  BY NatLessThanWellFounded
<1>2. \A x, y \in Nat : x < y => <<x, y>> \in R
  BY DEF OpToRel
<1> HIDE DEF R
<1>3. PICK x \in T : \A y \in Nat : <<y, x>> \in R => y \notin T
  BY <1>1, WFMin
<1>4. \A y \in T : ~(y < x)
  BY <1>2, <1>3
<1> QED BY <1>4

(* The workspaces after each of the first m claims.                          *)
WorkUpTo(work, m, claims) ==
  work = [n \in 0 .. m |-> IF n = 0 THEN <<>> ELSE Push(work[n - 1], claims[n])]

LEMMA WorkExists ==
  ASSUME NEW claims, NEW N \in Nat
  PROVE  \A m \in 0 .. N : \E work : WorkUpTo(work, m, claims)
<1> DEFINE T == {m \in 0 .. N : ~\E work : WorkUpTo(work, m, claims)}
<1>1. SUFFICES ASSUME T # {} PROVE FALSE
  OBVIOUS
<1>a. T \subseteq Nat
  OBVIOUS
<1>b. \E m \in T : \A y \in T : m <= y
  <2> HIDE DEF T
  <2> QED BY <1>1, <1>a, Least
<1>2. PICK m \in T : \A y \in T : m <= y
  BY <1>b
<1>3. CASE m = 0
  <2> DEFINE work == [n \in 0 .. 0 |-> <<>>]
  <2>1. WorkUpTo(work, 0, claims)
    BY DEF WorkUpTo
  <2> HIDE DEF work
  <2> QED BY <1>3, <2>1
<1>4. CASE m # 0
  <2>1. m - 1 \in 0 .. N /\ m - 1 \notin T /\ m \in Nat \ {0}
    BY <1>2, <1>4
  <2>2. PICK before : WorkUpTo(before, m - 1, claims)
    BY <2>1
  <2> DEFINE work == [n \in 0 .. m |-> IF n = m THEN Push(before[m - 1], claims[m]) ELSE before[n]]
  <2>3. /\ DOMAIN work = 0 .. m /\ work[m] = Push(before[m - 1], claims[m])
        /\ \A n \in 0 .. m - 1 : work[n] = before[n]
    BY <2>1
  <2>4. work = [n \in 0 .. m |-> work[n]]
    OBVIOUS
  <2> HIDE DEF work
  <2>5. \A n \in 0 .. m - 1 : before[n] = IF n = 0 THEN <<>> ELSE Push(before[n - 1], claims[n])
    BY <2>2 DEF WorkUpTo
  <2>6. ASSUME NEW n \in 0 .. m
        PROVE  work[n] = IF n = 0 THEN <<>> ELSE Push(work[n - 1], claims[n])
    <3>1. CASE n = m
      <4>1. m - 1 \in 0 .. m - 1
        BY <2>1
      <4> QED BY <2>1, <2>3, <3>1, <4>1
    <3>2. CASE n # m
      <4>1. n \in 0 .. m - 1 /\ (n # 0 => n - 1 \in 0 .. m - 1)
        BY <2>1, <3>2
      <4> QED BY <2>3, <2>5, <4>1
    <3> QED BY <3>1, <3>2
  <2>7. WorkUpTo(work, m, claims)
    BY <2>4, <2>6 DEF WorkUpTo
  <2> QED BY <2>7
<1> QED BY <1>3, <1>4

(* Each claim has one entry, made of what was there before it.               *)
LEMMA PushedOneByOne ==
  ASSUME NEW claims, Len(claims) \in Nat
  PROVE  LET W == Pushed(claims)
         IN /\ W \in Seq(ToSet(W)) /\ Len(W) = Len(claims)
            /\ \A i \in 1 .. Len(claims) : \E before \in Seq(ToSet(W)) :
                 /\ Len(before) = i - 1 /\ \A j \in 1 .. i - 1 : before[j] = W[j]
                 /\ W[i] = EntryFor(before, claims[i])
<1> DEFINE N == Len(claims)
           W == Pushed(claims)
<1>1. PICK work : WorkUpTo(work, N, claims) /\ W = work[N]
  <2> DEFINE work == CHOOSE w : WorkUpTo(w, N, claims)
  <2>1. N \in 0 .. N
    OBVIOUS
  <2>2. \E w : WorkUpTo(w, N, claims)
    BY <2>1, WorkExists
  <2>3. WorkUpTo(work, N, claims)
    BY <2>2
  <2>4. W = work[N]
    BY DEF Pushed, WorkUpTo
  <2> QED BY <2>3, <2>4
<1> DEFINE E == {EntryFor(work[n - 1], claims[n]) : n \in 1 .. N}
           Ok(n) == /\ work[n] \in Seq(E) /\ Len(work[n]) = n
                    /\ \A i \in 1 .. n : work[n][i] = EntryFor(work[i - 1], claims[i])
           T == {n \in 0 .. N : ~Ok(n)}
<1>2. work[0] = <<>> /\ \A n \in 1 .. N : work[n] = Append(work[n - 1], EntryFor(work[n - 1], claims[n]))
  <2>1. \A n \in 0 .. N : work[n] = IF n = 0 THEN <<>> ELSE Push(work[n - 1], claims[n])
    BY <1>1 DEF WorkUpTo
  <2>2. 0 \in 0 .. N /\ \A n \in 1 .. N : n \in 0 .. N /\ n # 0
    OBVIOUS
  <2>3. work[0] = <<>> /\ \A n \in 1 .. N : work[n] = Push(work[n - 1], claims[n])
    BY <2>1, <2>2
  <2> QED BY <2>3 DEF Push
<1>3. \A n \in 1 .. N : EntryFor(work[n - 1], claims[n]) \in E
  OBVIOUS
<1> HIDE DEF E, W
<1>4. T = {}
  <2>1. SUFFICES ASSUME T # {} PROVE FALSE
    OBVIOUS
  <2>a. T \subseteq 0 .. N /\ T \subseteq Nat
    OBVIOUS
  <2>b. \E m \in T : \A y \in T : m <= y
    <3> HIDE DEF T
    <3> QED BY <2>1, <2>a, Least
  <2>2. PICK m \in T : \A y \in T : m <= y
    BY <2>b
  <2>3. CASE m = 0
    <3>1. work[0] \in Seq(E) /\ Len(work[0]) = 0
      BY <1>2
    <3>2. Ok(0)
      BY <3>1
    <3> QED BY <2>2, <2>3, <3>2
  <2>4. CASE m # 0
    <3>1. m \in 1 .. N /\ m - 1 \in 0 .. N /\ Ok(m - 1)
      BY <2>2, <2>4
    <3> DEFINE b == work[m - 1]
               e == EntryFor(work[m - 1], claims[m])
    <3>2. b \in Seq(E) /\ Len(b) = m - 1 /\ e \in E /\ work[m] = Append(b, e)
      BY <1>2, <1>3, <3>1
    <3>3. \A i \in 1 .. m - 1 : b[i] = EntryFor(work[i - 1], claims[i])
      BY <3>1
    <3> HIDE DEF b, e
    <3>4. /\ work[m] \in Seq(E) /\ Len(work[m]) = m /\ work[m][m] = e
          /\ \A i \in 1 .. m - 1 : work[m][i] = b[i]
      BY <3>1, <3>2
    <3>5. \A i \in 1 .. m : work[m][i] = EntryFor(work[i - 1], claims[i])
      BY <3>1, <3>3, <3>4 DEF e
    <3> QED BY <2>2, <3>4, <3>5
  <2> QED BY <2>3, <2>4
<1>5. \A n \in 0 .. N : Ok(n)
  BY <1>4
<1>6. W \in Seq(E) /\ Len(W) = N /\ \A i \in 1 .. N : W[i] = EntryFor(work[i - 1], claims[i])
  BY <1>1, <1>5
<1>7. \A i \in 1 .. N : W[i] \in ToSet(W)
  BY <1>6 DEF ToSet
<1>8. W \in Seq(ToSet(W))
  <2>1. W = [i \in 1 .. N |-> W[i]]
    BY <1>6
  <2> QED BY <1>7, <2>1
<1>9. ASSUME NEW i \in 1 .. N
      PROVE  \E before \in Seq(ToSet(W)) :
               /\ Len(before) = i - 1 /\ \A j \in 1 .. i - 1 : before[j] = W[j]
               /\ W[i] = EntryFor(before, claims[i])
  <2>1. i - 1 \in 0 .. N /\ Ok(i - 1)
    BY <1>5
  <2> DEFINE b == work[i - 1]
  <2>2. b \in Seq(E) /\ Len(b) = i - 1 /\ \A j \in 1 .. i - 1 : b[j] = W[j]
    BY <1>6, <2>1
  <2>3. W[i] = EntryFor(b, claims[i])
    BY <1>6
  <2> HIDE DEF b
  <2>4. \A j \in 1 .. i - 1 : b[j] \in ToSet(W)
    BY <1>7, <2>2
  <2>5. b \in Seq(ToSet(W))
    <3>1. b = [j \in 1 .. i - 1 |-> b[j]]
      BY <2>2
    <3> QED BY <2>4, <3>1
  <2> QED BY <2>2, <2>3, <2>5
<1> QED BY <1>6, <1>8, <1>9 DEF W

(* What a session claims, in the order it claims it: roots and the project   *)
(* have no target, and a declared path has that of its entry.                *)
Claimed == [host : Seq(STRING), target : Seq(STRING),
            origin : {"root", "project", "explicit", "local"}, readonly : BOOLEAN]
ClaimOK(session, claim) ==
  \/ claim.origin = "root" /\ claim.target = NoPath
  \/ claim.origin = "project" /\ claim.target = NoPath /\ claim.host = Cwd
  \/ /\ claim.origin \in {"explicit", "local"}
     /\ \E e \in ToSet(session.manifest.paths) :
          claim.host = Resolve(e.source) /\ claim.target = e.target

LEMMA RawsResolve ==
  ASSUME NEW raw \in Raws
  PROVE  Resolve(raw) \in Seq(STRING)
<1>1. raw \in [from : {"home", "root", "cwd"}, path : Seq(STRING)]
  <2> DEFINE Raw == [from : {"home", "root", "cwd"}, path : Seq(STRING)]
  <2>1. SourceOrder \in Seq(Raw)
    BY PathsAssumption
  <2>2. PICK n \in DOMAIN SourceOrder : raw = SourceOrder[n]
    BY DEF Raws, ToSet
  <2> HIDE DEF Raw
  <2>3. raw \in Raw
    BY <2>1, <2>2
  <2> QED BY <2>3 DEF Raw
<1>2. Home \in Seq(STRING) /\ Cwd \in Seq(STRING)
  BY PathsAssumption
<1>3. Home \o raw.path \in Seq(STRING) /\ Cwd \o raw.path \in Seq(STRING) /\ raw.path \in Seq(STRING)
  BY <1>1, <1>2, ConcatProperties
<1> QED BY <1>1, <1>3 DEF Resolve

LEMMA RootsTyped ==
  ASSUME NEW session, SessionTyped(session)
  PROVE  /\ Roots(session) \in Seq(Seq(STRING)) /\ RootClaims(session) \in Seq(Claimed)
         /\ Len(RootClaims(session)) = Len(Roots(session))
         /\ \A i \in 1 .. Len(Roots(session)) :
              RootClaims(session)[i] = Claim(Roots(session)[i], NoPath, "root", FALSE)
<1> DEFINE roots == Key(session, <<"workspace", "roots">>)
           N == Len(roots)
<1>1. roots \in Seq(Raws) /\ N \in Nat /\ DOMAIN roots = 1 .. N
  BY DEF SessionTyped
<1>2. \A i \in 1 .. N : roots[i] \in Raws
  BY <1>1
<1>3. Roots(session) = [i \in DOMAIN roots |-> Resolve(roots[i])]
  BY DEF Roots
<1> HIDE DEF roots, N
<1>4. Roots(session) = [i \in 1 .. N |-> Resolve(roots[i])] /\ \A i \in 1 .. N : Resolve(roots[i]) \in Seq(STRING)
  BY <1>1, <1>2, <1>3, RawsResolve
<1> DEFINE R == Roots(session)
<1>5. /\ R \in Seq(Seq(STRING)) /\ Len(R) = N /\ DOMAIN R = 1 .. N
      /\ \A i \in 1 .. N : R[i] \in Seq(STRING)
  BY <1>1, <1>4
<1>6. RootClaims(session) = [i \in DOMAIN R |-> Claim(R[i], NoPath, "root", FALSE)]
  BY DEF RootClaims
<1> HIDE DEF R
<1>7. NoPath \in Seq(STRING)
  BY DEF NoPath
<1>8. \A i \in 1 .. N : Claim(R[i], NoPath, "root", FALSE) \in Claimed
  BY <1>5, <1>7 DEF Claim, Claimed
<1>9. /\ RootClaims(session) \in Seq(Claimed) /\ Len(RootClaims(session)) = N
      /\ \A i \in 1 .. N : RootClaims(session)[i] = Claim(R[i], NoPath, "root", FALSE)
  <2> DEFINE made(i) == Claim(R[i], NoPath, "root", FALSE)
  <2>1. RootClaims(session) = [i \in 1 .. N |-> made(i)] /\ \A i \in 1 .. N : made(i) \in Claimed
    BY <1>5, <1>6, <1>8
  <2> HIDE DEF made
  <2>2. /\ RootClaims(session) \in Seq(Claimed) /\ Len(RootClaims(session)) = N
        /\ \A i \in 1 .. N : RootClaims(session)[i] = made(i)
    BY <1>1, <2>1
  <2> QED BY <2>2 DEF made
<1> QED BY <1>5, <1>9 DEF R

LEMMA ClaimsMade ==
  ASSUME NEW session, SessionTyped(session)
  PROVE  /\ Claims(session) \in Seq(Claimed)
         /\ ProjectClaims(session) \in Seq(Claimed) /\ PathClaims(session) \in Seq(Claimed)
         /\ \A i \in 1 .. Len(Claims(session)) : ClaimOK(session, Claims(session)[i])
         /\ \A i \in 1 .. Len(Roots(session)) :
              i \in 1 .. Len(Claims(session)) /\ Claims(session)[i] = RootClaims(session)[i]
         /\ ~InRoot(Cwd, Roots(session))
              => /\ Len(Roots(session)) + 1 \in 1 .. Len(Claims(session))
                 /\ Claims(session)[Len(Roots(session)) + 1] = Claim(Cwd, NoPath, "project", FALSE)
<1> DEFINE A == RootClaims(session)
           B == ProjectClaims(session)
           C == PathClaims(session)
           paths == session.manifest.paths
           R == Len(Roots(session))
<1>1. /\ RootClaims(session) \in Seq(Claimed) /\ Roots(session) \in Seq(Seq(STRING))
      /\ Len(RootClaims(session)) = Len(Roots(session))
      /\ \A i \in 1 .. Len(Roots(session)) :
           RootClaims(session)[i] = Claim(Roots(session)[i], NoPath, "root", FALSE)
  BY RootsTyped
<1>a. A \in Seq(Claimed) /\ Len(A) = R /\ R \in Nat
  BY <1>1
<1>2. \A i \in 1 .. R : ClaimOK(session, A[i])
  <2>1. \A h : ClaimOK(session, Claim(h, NoPath, "root", FALSE))
    BY DEF ClaimOK, Claim
  <2> QED BY <1>1, <2>1
<1>3. /\ B \in Seq(Claimed) /\ \A i \in 1 .. Len(B) : ClaimOK(session, B[i])
      /\ ~InRoot(Cwd, Roots(session)) => Len(B) = 1 /\ B[1] = Claim(Cwd, NoPath, "project", FALSE)
  <2>1. Cwd \in Seq(STRING) /\ NoPath \in Seq(STRING)
    BY PathsAssumption DEF NoPath
  <2>2. Claim(Cwd, NoPath, "project", FALSE) \in Claimed /\ ClaimOK(session, Claim(Cwd, NoPath, "project", FALSE))
    BY <2>1 DEF Claim, Claimed, ClaimOK
  <2> DEFINE c == Claim(Cwd, NoPath, "project", FALSE)
  <2>3. B = IF InRoot(Cwd, Roots(session)) THEN <<>> ELSE <<c>>
    BY DEF ProjectClaims
  <2>4. c \in Claimed /\ ClaimOK(session, c)
    BY <2>2
  <2> HIDE DEF B, c
  <2>5. InRoot(Cwd, Roots(session)) =>
          B \in Seq(Claimed) /\ \A i \in 1 .. Len(B) : ClaimOK(session, B[i])
    BY <2>3
  <2>6. ASSUME ~InRoot(Cwd, Roots(session))
        PROVE  /\ B \in Seq(Claimed) /\ \A i \in 1 .. Len(B) : ClaimOK(session, B[i])
               /\ Len(B) = 1 /\ B[1] = c
    <3>1. B = <<c>>
      BY <2>3, <2>6
    <3>2. B \in Seq(Claimed) /\ Len(B) = 1 /\ B[1] = c
      BY <2>4, <3>1
    <3>3. \A i \in 1 .. Len(B) : B[i] = c
      BY <3>2
    <3> QED BY <2>4, <2>6, <3>2, <3>3
  <2>7. /\ B \in Seq(Claimed) /\ \A i \in 1 .. Len(B) : ClaimOK(session, B[i])
        /\ ~InRoot(Cwd, Roots(session)) => Len(B) = 1 /\ B[1] = c
    BY <2>5, <2>6
  <2> QED BY <2>7 DEF c
<1>4. C \in Seq(Claimed) /\ \A i \in 1 .. Len(C) : ClaimOK(session, C[i])
  <2> DEFINE made(e) == Claim(Resolve(e.source), e.target, IF e.local THEN "local" ELSE "explicit", e.readonly)
  <2>1. paths \in Seq(MarkedEntries) /\ Len(paths) \in Nat /\ DOMAIN paths = 1 .. Len(paths)
    BY DEF SessionTyped
  <2>2. C = [i \in DOMAIN paths |-> made(paths[i])]
    BY DEF PathClaims
  <2>3. ASSUME NEW e \in ToSet(paths)
        PROVE  made(e) \in Claimed /\ ClaimOK(session, made(e))
    <3>1. e \in MarkedEntries
      BY <2>1 DEF ToSet
    <3>2. Resolve(e.source) \in Seq(STRING)
      BY <3>1, RawsResolve DEF MarkedEntries
    <3> QED BY <3>1, <3>2 DEF Claim, Claimed, ClaimOK, MarkedEntries
  <2>4. \A i \in 1 .. Len(paths) : paths[i] \in ToSet(paths)
    BY <2>1 DEF ToSet
  <2> HIDE DEF made, paths, C
  <2>5. C = [i \in 1 .. Len(paths) |-> made(paths[i])] /\ \A i \in 1 .. Len(paths) : made(paths[i]) \in Claimed
    BY <2>1, <2>2, <2>3, <2>4
  <2>6. C \in Seq(Claimed) /\ Len(C) = Len(paths) /\ \A i \in 1 .. Len(paths) : C[i] = made(paths[i])
    BY <2>1, <2>5
  <2> QED BY <2>3, <2>4, <2>6
<1>5. Claims(session) = (A \o B) \o C
  BY DEF Claims
<1> HIDE DEF A, B, C, R
<1>6. /\ A \o B \in Seq(Claimed) /\ Len(A \o B) = R + Len(B)
      /\ \A i \in 1 .. R + Len(B) : (A \o B)[i] = IF i <= R THEN A[i] ELSE B[i - R]
  BY <1>a, <1>3, ConcatProperties
<1> DEFINE AB == A \o B
<1> HIDE DEF AB
<1>7. /\ AB \o C \in Seq(Claimed) /\ Len(AB \o C) = R + Len(B) + Len(C)
      /\ \A i \in 1 .. R + Len(B) + Len(C) : (AB \o C)[i] = IF i <= R + Len(B) THEN AB[i] ELSE C[i - (R + Len(B))]
  BY <1>4, <1>6, ConcatProperties DEF AB
<1> DEFINE all == AB \o C
<1>8. Claims(session) = all
  BY <1>5 DEF AB
<1>9. Len(B) \in Nat /\ Len(C) \in Nat
  BY <1>3, <1>4
<1> HIDE DEF all
<1>10. \A i \in 1 .. Len(all) :
         \/ i \in 1 .. R /\ all[i] = A[i]
         \/ i - R \in 1 .. Len(B) /\ all[i] = B[i - R]
         \/ i - (R + Len(B)) \in 1 .. Len(C) /\ all[i] = C[i - (R + Len(B))]
  BY <1>a, <1>6, <1>7, <1>9 DEF all, AB
<1>11. \A i \in 1 .. Len(all) : ClaimOK(session, all[i])
  BY <1>2, <1>3, <1>4, <1>10
<1>12. Len(all) = R + Len(B) + Len(C)
  BY <1>7 DEF all
<1>13. \A i \in 1 .. R : i \in 1 .. Len(all) /\ all[i] = A[i]
  BY <1>a, <1>9, <1>10, <1>12
<1>14. Len(B) = 1 => R + 1 \in 1 .. Len(all) /\ all[R + 1] = B[1]
  <2>1. SUFFICES ASSUME Len(B) = 1 PROVE R + 1 \in 1 .. Len(all) /\ all[R + 1] = B[1]
    OBVIOUS
  <2>2. R + 1 \in 1 .. Len(all)
    BY <1>a, <1>9, <1>12, <2>1
  <2> QED BY <1>a, <1>9, <1>10, <2>1, <2>2
<1>15. all \in Seq(Claimed)
  BY <1>7 DEF all
<1> QED BY <1>3, <1>4, <1>8, <1>11, <1>13, <1>14, <1>15 DEF A, B, C, R

(* The entries of a session's workspace, each of one claim.                  *)
LEMMA WorkspaceMade ==
  ASSUME NEW session, SessionTyped(session)
  PROVE  LET W == WorkspaceOf(session)
         IN /\ W \in Seq(ToSet(W)) /\ Len(W) = Len(Claims(session)) /\ Len(W) \in Nat
            /\ \A i \in 1 .. Len(W) : \E before \in Seq(ToSet(W)) :
                 /\ Len(before) = i - 1 /\ \A j \in 1 .. i - 1 : before[j] = W[j]
                 /\ W[i] = EntryFor(before, Claims(session)[i])
                 /\ ClaimOK(session, Claims(session)[i]) /\ Claims(session)[i] \in Claimed
<1>a. /\ Claims(session) \in Seq(Claimed)
      /\ \A i \in 1 .. Len(Claims(session)) : ClaimOK(session, Claims(session)[i])
  BY ClaimsMade
<1>1. Len(Claims(session)) \in Nat
  BY <1>a
<1>2. \A i \in 1 .. Len(Claims(session)) : Claims(session)[i] \in Claimed
  BY <1>a
<1>3. WorkspaceOf(session) = Pushed(Claims(session))
  BY DEF WorkspaceOf
<1> QED BY <1>a, <1>1, <1>2, <1>3, PushedOneByOne

(* A session's mounts are numbered from one.                                 *)
LEMMA MountsMade ==
  ASSUME NEW session, SessionTyped(session)
  PROVE  \E T : /\ Mounts(session) \in Seq(T)
                /\ \A i \in 1 .. Len(Mounts(session)) :
                     \/ \E n \in 1 .. Len(WorkspaceOf(session)) :
                          Mounts(session)[i].source = WorkspaceOf(session)[n].host
                     \/ Mounts(session)[i].source \in
                          {Append(StateDir(session), "host"), Append(StateDir(session), "managed"),
                           ClaudeHome(session)}
<1> DEFINE W == WorkspaceOf(session)
           A == [i \in DOMAIN W |-> Mount(W[i].host, W[i].guest, W[i].readonly)]
           B == IF HasCommands(session.manifest.table)
                THEN <<Mount(Append(StateDir(session), "host"), <<"run", "compostbin", "host">>, FALSE)>>
                ELSE <<>>
           C == <<Mount(Append(StateDir(session), "managed"), <<"etc", "claude-code">>, TRUE),
                  Mount(ClaudeHome(session), <<"home", "claude", ".claude">>, FALSE)>>
           own == {Append(StateDir(session), "host"), Append(StateDir(session), "managed"),
                   ClaudeHome(session)}
           OK(m) == \/ \E n \in 1 .. Len(W) : m.source = W[n].host
                    \/ m.source \in own
           T == ToSet(A) \union ToSet(B) \union ToSet(C)
<1>1. Mounts(session) = (A \o B) \o C
  BY DEF Mounts
<1>2. W \in Seq(ToSet(W)) /\ Len(W) \in Nat
  BY WorkspaceMade
<1>3. A \in Seq(ToSet(A)) /\ \A m \in ToSet(A) : OK(m)
  <2> DEFINE at(i) == Mount(W[i].host, W[i].guest, W[i].readonly)
  <2> HIDE DEF W
  <2>1. DOMAIN W = 1 .. Len(W)
    BY <1>2
  <2>2. \A i \in 1 .. Len(W) : OK(at(i))
    BY DEF Mount
  <2>3. A = [i \in 1 .. Len(W) |-> at(i)]
    BY <2>1
  <2> HIDE DEF at, A, OK
  <2>4. /\ ToSet(A) = {at(i) : i \in 1 .. Len(W)}
        /\ DOMAIN A = 1 .. Len(W) /\ \A i \in 1 .. Len(W) : A[i] = at(i)
    BY <2>3 DEF ToSet
  <2>5. A \in Seq(ToSet(A))
    BY <1>2, <2>3, <2>4
  <2> QED BY <2>2, <2>4, <2>5
<1>4. B \in Seq(ToSet(B)) /\ C \in Seq(ToSet(C))
  <2> DEFINE m == Mount(Append(StateDir(session), "host"), <<"run", "compostbin", "host">>, FALSE)
             m1 == Mount(Append(StateDir(session), "managed"), <<"etc", "claude-code">>, TRUE)
             m2 == Mount(ClaudeHome(session), <<"home", "claude", ".claude">>, FALSE)
  <2>1. B = (IF HasCommands(session.manifest.table) THEN <<m>> ELSE <<>>) /\ C = <<m1, m2>>
    OBVIOUS
  <2> HIDE DEF m, m1, m2, B, C
  <2> QED BY <2>1 DEF ToSet
<1>5. \A m \in ToSet(B) \union ToSet(C) : OK(m)
  <2> DEFINE m == Mount(Append(StateDir(session), "host"), <<"run", "compostbin", "host">>, FALSE)
             m1 == Mount(Append(StateDir(session), "managed"), <<"etc", "claude-code">>, TRUE)
             m2 == Mount(ClaudeHome(session), <<"home", "claude", ".claude">>, FALSE)
  <2>1. B = (IF HasCommands(session.manifest.table) THEN <<m>> ELSE <<>>) /\ C = <<m1, m2>>
    OBVIOUS
  <2>2. OK(m) /\ OK(m1) /\ OK(m2)
    BY DEF Mount
  <2> HIDE DEF m, m1, m2, B, C, OK
  <2> QED BY <2>1, <2>2 DEF ToSet
<1> HIDE DEF A, B, C, OK
<1>6. A \in Seq(T) /\ B \in Seq(T) /\ C \in Seq(T) /\ \A m \in T : OK(m)
  BY <1>3, <1>4, <1>5
<1> HIDE DEF T
<1>7. (A \o B) \o C \in Seq(T)
  BY <1>6, ConcatProperties
<1>8. \A i \in 1 .. Len(Mounts(session)) : OK(Mounts(session)[i])
  BY <1>1, <1>6, <1>7
<1> QED BY <1>1, <1>7, <1>8 DEF OK

-----------------------------------------------------------------------------
(* Doctor and a running container.                                           *)

(* A drift that is empty: the same mounts when no guest path has two, the    *)
(* same ports and the same sockets.                                          *)
LEMMA NoDrift ==
  ASSUME NEW session, SessionTyped(session), NEW other, SessionTyped(other),
         DriftIsEmpty(Drift(RecordOf(other), session)),
         \A i, j \in DOMAIN Mounts(session) :
           Mounts(session)[i].target = Mounts(session)[j].target => i = j,
         \A i, j \in DOMAIN Mounts(other) :
           Mounts(other)[i].target = Mounts(other)[j].target => i = j
  PROVE  /\ ToSet(Mounts(session)) = ToSet(Mounts(other))
         /\ ToSet(Ports(session)) = ToSet(Ports(other))
         /\ SocketsOf(session) = SocketsOf(other)
<1> DEFINE A == Mounts(session)
           B == Mounts(other)
           wanted == ToSet(A)
           targets(mounts) == {mount.target : mount \in mounts}
           first(target) == LET at == {i \in DOMAIN B : B[i].target = target}
                            IN B[CHOOSE i \in at : \A j \in at : i <= j]
           known == targets(ToSet(B))
           sockets == SocketsOf(session)
           old == SocketsOf(other)
           ports == ToSet(Ports(session))
           were == ToSet(Ports(other))
           r0 == RecordOf(other)
           added == {w \in wanted : w.target \notin known}
           changed == {w \in wanted : w.target \in known /\ first(w.target) # w}
           removed == {r \in ToSet(B) : r.target \notin targets(wanted)}
           differ == {n \in DOMAIN sockets \intersect DOMAIN old : sockets[n] # old[n]}
<1>a. r0.mounts = B /\ r0.ports = were /\ r0.sockets = old
  BY DEF RecordOf
<1>b. Drift(r0, session) =
        [added          |-> added,
         changed        |-> changed,
         removed        |-> removed,
         addedPorts     |-> ports \ were,
         removedPorts   |-> were \ ports,
         addedSockets   |-> DOMAIN sockets \ DOMAIN old,
         removedSockets |-> DOMAIN old \ DOMAIN sockets,
         changedSockets |-> differ]
  <2> HIDE DEF r0
  <2> QED BY <1>a DEF Drift
<1>c. /\ added = {} /\ changed = {} /\ removed = {} /\ ports \ were = {} /\ were \ ports = {}
      /\ DOMAIN sockets \ DOMAIN old = {} /\ DOMAIN old \ DOMAIN sockets = {} /\ differ = {}
  <2> HIDE DEF r0, added, changed, removed, ports, were, sockets, old, differ
  <2>1. DriftIsEmpty(Drift(r0, session))
    BY DEF r0
  <2> QED BY <1>b, <2>1 DEF DriftIsEmpty
<1>1. /\ \A w \in wanted : w.target \in known
      /\ \A w \in wanted : w.target \in known => first(w.target) = w
      /\ \A r \in ToSet(B) : r.target \in targets(wanted)
  <2>1. added = {} /\ changed = {} /\ removed = {}
    BY <1>c
  <2> HIDE DEF wanted, B, known, first, targets
  <2> QED BY <2>1
<1>2. ports \ were = {} /\ were \ ports = {}
  BY <1>c
<1>3. /\ DOMAIN sockets \ DOMAIN old = {} /\ DOMAIN old \ DOMAIN sockets = {} /\ differ = {}
  BY <1>c
<1>4. DOMAIN A \subseteq Nat /\ DOMAIN B \subseteq Nat
  <2>1. \E T : Mounts(session) \in Seq(T)
    BY MountsMade
  <2>2. \E T : Mounts(other) \in Seq(T)
    BY MountsMade
  <2> QED BY <2>1, <2>2
<1>5. sockets = old
  <2>1. sockets = [n \in DOMAIN sockets |-> sockets[n]] /\ old = [n \in DOMAIN old |-> old[n]]
    BY DEF SocketsOf
  <2> HIDE DEF sockets, old
  <2> QED BY <1>3, <2>1
<1> HIDE DEF A, B, wanted
<1>6. ASSUME NEW w \in wanted
      PROVE  w \in ToSet(B)
  <2>1. PICK i \in DOMAIN B : B[i].target = w.target
    BY <1>1, <1>6 DEF ToSet
  <2> DEFINE at == {n \in DOMAIN B : B[n].target = w.target}
  <2>2. at = {i}
    BY <2>1 DEF B
  <2>3. (CHOOSE n \in at : \A j \in at : n <= j) = i
    <3>1. i \in Nat
      BY <1>4, <2>1
    <3> HIDE DEF at
    <3> QED BY <2>2, <3>1
  <2>4. first(w.target) = B[i]
    BY <2>3
  <2>5. w.target \in known
    BY <1>1, <1>6
  <2>6. w = B[i]
    BY <1>1, <1>6, <2>4, <2>5
  <2> QED BY <2>1, <2>6 DEF ToSet
<1>7. ASSUME NEW r \in ToSet(B)
      PROVE  r \in wanted
  <2>1. PICK w \in wanted : w.target = r.target
    BY <1>1, <1>7
  <2>2. w \in ToSet(B)
    BY <1>6
  <2>3. PICK i \in DOMAIN B, j \in DOMAIN B : r = B[i] /\ w = B[j]
    BY <1>7, <2>2 DEF ToSet
  <2>4. i = j
    BY <2>1, <2>3 DEF B
  <2> QED BY <2>1, <2>3, <2>4
<1>8. wanted = ToSet(B)
  BY <1>6, <1>7
<1>9. ports = were
  <2> HIDE DEF ports, were
  <2> QED BY <1>2
<1> QED BY <1>5, <1>8, <1>9 DEF wanted, A, B

LEMMA HonestStep ==
  ASSUME Control, VmOK, Runs, SessionsTyped, NEW p \in Procs
  PROVE  LET session == my[p].session
             wanted == Mounts(session)
             single(mounts) == \A i, j \in DOMAIN mounts :
                                  mounts[i].target = mounts[j].target => i = j
         IN /\ pc[p] = "diagnose" /\ DiagnoseAll(p)
            /\ my[p].running /\ vm.up /\ vm.recorded
            /\ LiveMounts(session, TRUE, record).status = "Ok"
            /\ single(wanted) /\ single(vm.spec.mounts)
            => /\ ToSet(wanted) = ToSet(vm.spec.mounts)
               /\ ToSet(Ports(session)) = vm.spec.ports
               /\ SocketsOf(session) = vm.spec.sockets
<1> DEFINE session == my[p].session
           single(mounts) == \A i, j \in DOMAIN mounts :
                                mounts[i].target = mounts[j].target => i = j
<1>1. SUFFICES ASSUME pc[p] = "diagnose", vm.up, vm.recorded,
                      LiveMounts(session, TRUE, record).status = "Ok",
                      single(Mounts(session)), single(vm.spec.mounts)
               PROVE  /\ ToSet(Mounts(session)) = ToSet(vm.spec.mounts)
                      /\ ToSet(Ports(session)) = vm.spec.ports
                      /\ SocketsOf(session) = vm.spec.sockets
  OBVIOUS
<1>2. PICK q \in Procs : HasVm(pc[q])
  BY <1>1 DEF VmOK
<1> DEFINE other == my[q].session
<1>3. /\ vm.spec = RecordOf(other) /\ pc[q] = "attached"
      /\ record = [state |-> "table", record |-> RecordOf(other)]
  BY <1>1, <1>2 DEF Runs, RunAt
<1>4. SessionTyped(session) /\ SessionTyped(other)
  BY <1>1, <1>2 DEF SessionsTyped, SessionAt, Loaded
<1>5. vm.spec.mounts = Mounts(other) /\ vm.spec.ports = ToSet(Ports(other)) /\ vm.spec.sockets = SocketsOf(other)
  BY <1>3 DEF RecordOf
<1>6. DriftIsEmpty(Drift(RecordOf(other), session))
  <2> DEFINE r == RecordOf(other)
  <2>1. record.state = "table" /\ record.record = r
    BY <1>3
  <2> HIDE DEF r, session
  <2>2. LiveMounts(session, TRUE, record) =
          Worst(~DriftIsEmpty(Drift(r, session)), "Warn", DriftLines(Drift(r, session)))
    BY <2>1 DEF LiveMounts
  <2>3. ASSUME ~DriftIsEmpty(Drift(r, session))
        PROVE  FALSE
    <3>1. LiveMounts(session, TRUE, record) = Check("Warn", DriftLines(Drift(r, session)))
      BY <2>2, <2>3 DEF Worst
    <3>2. \A items : Check("Warn", items).status = "Warn"
      BY DEF Check
    <3>3. LiveMounts(session, TRUE, record).status = "Warn"
      BY <3>1, <3>2
    <3> QED BY <1>1, <3>3 DEF session
  <2> QED BY <2>3 DEF r, session
<1> HIDE DEF session, other
<1> QED BY <1>1, <1>4, <1>5, <1>6, NoDrift

(* When doctor finds a running container to have the mounts, the ports and   *)
(* the sockets of the manifest, it has them: Record::drift overlooks nothing *)
(* where no guest path is declared twice, for any two manifests and however  *)
(* the runs, the edits and the saves of the record interleave (DriftHonest). *)
THEOREM DriftTold == Spec => DriftHonest
<1> DEFINE Inv == Typing /\ Adds /\ TableSaves /\ TablesOK /\ FilesAsked /\ GivenOK /\ SessionsTyped
<1>1. Init => Inv
  BY ControlInit, InstallsInit, FilesInit, RunsAloneInit, VmInit, AddsInit, SessionsInit DEF Typing
<1>2. Inv /\ [Next]_vars => Inv'
  BY ControlNext, SkillsStep, FilesStep, UserSavesStep, RunsAloneStep, VmStep, AddsStep, TablesStep,
     SessionsStep DEF Typing
<1>3. Inv => \A p \in Procs :
               LET session == my[p].session
                   wanted == Mounts(session)
                   single(mounts) == \A i, j \in DOMAIN mounts :
                                        mounts[i].target = mounts[j].target => i = j
               IN /\ pc[p] = "diagnose" /\ DiagnoseAll(p)
                  /\ my[p].running /\ vm.up /\ vm.recorded
                  /\ LiveMounts(session, TRUE, record).status = "Ok"
                  /\ single(wanted) /\ single(vm.spec.mounts)
                  => /\ ToSet(wanted) = ToSet(vm.spec.mounts)
                     /\ ToSet(Ports(session)) = vm.spec.ports
                     /\ SocketsOf(session) = vm.spec.sockets
  BY HonestStep DEF Typing
<1> QED BY <1>1, <1>2, <1>3, PTL DEF Spec, DriftHonest

-----------------------------------------------------------------------------
(* Doctor and the next start.                                                *)

Looks == \A p \in Procs : LookAt(pc[p], my[p])

(* Diagnoses of which none is a failure.                                     *)
LEMMA NothingFailed ==
  ASSUME NEW session, NEW at, NEW running, NEW file,
         NEW checks \in Diagnose(session, at, running, file), ~Failed(checks)
  PROVE  Healthy(session, at)
<1> DEFINE W == WorkspaceOf(session)
           wanted == <<Key(session, <<"project", "image">>)>>
           bad == ~at.readable \/ wanted \notin at.images \/ wanted \in at.missing
           missing == {e.host : e \in {e \in ToSet(W) : /\ e.origin # "project"
                                                        /\ Canonical(e.host) \notin at.tree}}
<1>1. \A items : Check("Fail", items).status = "Fail"
  BY DEF Check
<1>2. checks.image = BaseImage(session, at) /\ checks.paths = MountedPaths(session, at)
      /\ {"image", "paths"} \subseteq DOMAIN checks
  BY DEF Diagnose
<1>3. checks.image.status # "Fail" /\ checks.paths.status # "Fail"
  BY <1>2 DEF Failed
<1>4. ~bad
  <2>1. checks.image = Worst(bad, "Fail", {wanted})
    BY <1>2 DEF BaseImage
  <2> HIDE DEF bad, wanted
  <2>2. bad => checks.image = Check("Fail", {wanted})
    BY <2>1 DEF Worst
  <2> QED BY <1>1, <1>3, <2>2
<1>5. missing = {}
  <2>1. checks.paths = Worst(missing # {}, "Fail", missing)
    BY <1>2 DEF MountedPaths
  <2> HIDE DEF missing
  <2>2. missing # {} => checks.paths = Check("Fail", missing)
    BY <2>1 DEF Worst
  <2> QED BY <1>1, <1>3, <2>2
<1>6. ASSUME NEW i \in DOMAIN W, W[i].origin # "project"
      PROVE  Canonical(W[i].host) \in at.tree
  <2>1. W[i] \in ToSet(W)
    BY <1>6 DEF ToSet
  <2> HIDE DEF W
  <2> QED BY <1>5, <1>6, <2>1
<1> QED BY <1>4, <1>6 DEF Healthy

LEMMA TrustedStep ==
  ASSUME Control, HostOK, Looks, TrustedOK, NEW p \in Procs, CommandStep(p) \/ Kill(p)
  PROVE  TrustedOK'
<1>1. CASE trusted' = trusted
  BY <1>1 DEF TrustedOK
<1>2. CASE DiagnoseAll(p) /\ trusted' # trusted
  <2> DEFINE session == my[p].session
             at == [host EXCEPT !.images = my[p].host.images, !.readable = my[p].host.readable]
  <2>1. PICK checks \in Diagnosed(p) : ~Failed(checks) /\ trusted' = [session |-> session, host |-> host]
    BY <1>2 DEF DiagnoseAll
  <2>2. checks \in Diagnose(session, at, my[p].running, record)
    BY <2>1 DEF Diagnosed
  <2>3. my[p].host.images = host.images /\ my[p].host.readable = host.readable
    BY <1>2 DEF DiagnoseAll, Looks, LookAt
  <2>4. /\ at.images = host.images /\ at.readable = host.readable
        /\ at.tree = host.tree /\ at.missing = host.missing
    BY <2>3 DEF HostOK
  <2> HIDE DEF at, session
  <2>5. Healthy(session, at)
    BY <2>1, <2>2, NothingFailed
  <2>6. Healthy(session, host)
    BY <2>4, <2>5 DEF Healthy
  <2>7. trusted'.session = session /\ trusted'.host = host
    BY <2>1
  <2> QED BY <2>6, <2>7 DEF TrustedOK
<1>3. Kill(p) => trusted' = trusted
  BY DEF Kill
<1> QED BY <1>1, <1>2, <1>3, Changing DEF Changes

LEMMA HealthStep ==
  ASSUME Control, HostOK, Looks, TrustedOK, [Next]_vars
  PROVE  HostOK' /\ Looks' /\ TrustedOK'
<1>1. ASSUME NEW q \in Procs, Untouched(q) \/ Outdated(q),
             host'.images = host.images, host'.readable = host.readable
      PROVE  LookAt(pc[q], my[q])'
  <2>1. pc'[q] = pc[q] /\ my'[q].host = my[q].host
    BY <1>1 DEF Untouched, Outdated, Control, Shape, Fields
  <2> QED BY <1>1, <2>1 DEF Looks, LookAt
<1>2. ASSUME NEW p \in Procs, CommandStep(p) \/ Kill(p)
      PROVE  HostOK' /\ Looks' /\ TrustedOK'
  <2>1. host' = host
    BY <1>2, Changing DEF Changes, Kill
  <2>2. LookAt(pc[p], my[p])'
    <3>1. CASE Look(p) /\ pc'[p] = "diagnose"
      <4>1. Go(p, "diagnose", [my[p] EXCEPT !.running = vm.up, !.host = host])
        BY <3>1, Going DEF Look, Control, Moves
      <4>2. my'[p] = [my[p] EXCEPT !.running = vm.up, !.host = host]
        BY <4>1, Going DEF Control, Moves
      <4>3. my'[p].host = host
        BY <4>2 DEF Control, Shape, Fields
      <4> QED BY <2>1, <4>3 DEF LookAt
    <3>2. CASE Kill(p)
      BY <3>2, Disturbs DEF Kill, Control, Moves, LookAt
    <3> QED BY <1>2, <3>1, <3>2, Arriving DEF Arrives, LookAt
  <2>3. HostOK'
    BY <2>1 DEF HostOK
  <2>4. \A q \in Procs \ {p} : LookAt(pc[q], my[q])'
    BY <1>1, <1>2, <2>1, MovingStep DEF Control, Moving, Bystander
  <2>5. Looks'
    BY <2>2, <2>4 DEF Looks
  <2> QED BY <1>2, <2>3, <2>5, TrustedStep
<1>3. CASE EditFile \/ EditSkills
  <2>1. host' = host /\ trusted' = trusted
    BY <1>3 DEF EditFile, EditSkills
  <2>2. Looks'
    BY <1>1, <1>3, <2>1, EditsDisturb DEF Looks
  <2> QED BY <2>1, <2>2 DEF HostOK, TrustedOK
<1>4. CASE RemoveDirectory
  <2>1. PICK d \in Removable : host' = [host EXCEPT !.tree = @ \ {d}]
    BY <1>4 DEF RemoveDirectory
  <2>2. /\ DOMAIN host' = DOMAIN host /\ host'.tree = host.tree \ {d}
        /\ host'.images = host.images /\ host'.readable = host.readable
    BY <2>1 DEF HostOK
  <2>3. Canonical(Cwd) # d
    BY HostsAssumption
  <2>4. HostOK'
    BY <2>2, <2>3 DEF HostOK
  <2>5. Looks'
    BY <1>1, <1>4, <2>2, EditsDisturb DEF Looks
  <2>6. TrustedOK'
    BY <1>4 DEF RemoveDirectory, TrustedOK
  <2> QED BY <2>4, <2>5, <2>6
<1>5. CASE UNCHANGED vars
  <2>1. HostOK' /\ TrustedOK'
    BY <1>5 DEF vars, HostOK, TrustedOK
  <2>2. Looks'
    BY <1>1, <1>5 DEF vars, Looks, Untouched
  <2> QED BY <2>1, <2>2
<1> QED BY <1>2, <1>3, <1>4, <1>5 DEF Next

LEMMA HealthInit ==
  ASSUME Init
  PROVE  HostOK /\ Looks /\ TrustedOK
<1>1. host \in Hosts /\ (\A p \in Procs : pc[p] = "idle") /\ trusted = NotTrusted
  BY DEF Init
<1>2. HostOK
  BY <1>1, HostsAssumption DEF HostOK
<1>3. TrustedOK
  BY <1>1 DEF TrustedOK, NotTrusted, NoSession, NoManifest
<1> QED BY <1>1, <1>2, <1>3 DEF Looks, LookAt

LEMMA SeqGrows ==
  ASSUME NEW S, NEW T, S \subseteq T, NEW s \in Seq(S)
  PROVE  s \in Seq(T)
<1>1. Len(s) \in Nat /\ s = [i \in 1 .. Len(s) |-> s[i]] /\ \A i \in 1 .. Len(s) : s[i] \in T
  OBVIOUS
<1> QED BY <1>1

LEMMA ShortSeq ==
  ASSUME NEW S
  PROVE  \A x, y, z \in S : <<x>> \in Seq(S) /\ <<x, y>> \in Seq(S) /\ <<x, y, z>> \in Seq(S)
OBVIOUS

(* The directories that run makes are below the state directory.             *)
LEMMA StateDirHolds ==
  ASSUME NEW session, NEW name
  PROVE  StartsWith(Append(StateDir(session), name), StateDir(session))
<1> DEFINE S == STRING \union {name, Last(Cwd), Cwd, Key(session, <<"project", "name">>)}
                       \union {".local", "state", "sessions"}
           s == StateDir(session)
<1>1. s \in Seq(S)
  <2>1. ContainerName(session) \in Seq(S)
    <3> DEFINE a == Last(Cwd)
               b == Key(session, <<"project", "name">>)
    <3>1. ContainerName(session) \in {<<a, Cwd>>, <<b>>, <<a>>}
      BY DEF ContainerName
    <3>2. {a, b, Cwd} \subseteq S
      OBVIOUS
    <3> HIDE DEF a, b, S
    <3>3. <<a, Cwd>> \in Seq(S) /\ <<b>> \in Seq(S) /\ <<a>> \in Seq(S)
      BY <3>2, ShortSeq
    <3> QED BY <3>1, <3>3
  <2>2. Home \in Seq(S) /\ <<".local", "state", "sessions">> \in Seq(S)
    <3>1. Home \in Seq(STRING) /\ STRING \subseteq S
      BY PathsAssumption
    <3>3. {".local", "state", "sessions"} \subseteq S
      OBVIOUS
    <3> HIDE DEF S
    <3>2. Home \in Seq(S)
      BY <3>1, SeqGrows
    <3>4. <<".local", "state", "sessions">> \in Seq(S)
      BY <3>3, ShortSeq
    <3> QED BY <3>2, <3>4
  <2> HIDE DEF S
  <2>3. (Home \o <<".local", "state", "sessions">>) \o ContainerName(session) \in Seq(S)
    BY <2>1, <2>2, ConcatProperties
  <2> QED BY <2>3 DEF StateDir
<1>2. name \in S
  OBVIOUS
<1> HIDE DEF S, s
<1> DEFINE t == Append(s, name)
<1>3. t \in Seq(S) /\ Len(t) = Len(s) + 1 /\ Len(s) \in Nat /\ \A i \in 1 .. Len(s) : t[i] = s[i]
  BY <1>1, <1>2
<1> HIDE DEF t
<1>4. SubSeq(s, 1, Len(s)) = SubSeq(t, 1, Len(s))
  BY <1>1, <1>3
<1>5. IsPrefix(s, t)
  BY <1>3, <1>4 DEF IsPrefix
<1> QED BY <1>5 DEF StartsWith, s, t

(* The image a session boots is of the library, or one of its own.           *)
LEMMA ImageOfItsOwn ==
  ASSUME NEW session, ~ImageIsEmpty(session.manifest.table)
  PROVE  Image(session) # <<"base">>
<1>1. CASE session.profile # ""
  BY <1>1 DEF Image
<1>2. CASE session.profile = ""
  <2>1. PICK n : n = ContainerName(session) /\ \E x, y : n = <<x, y>> \/ n = <<x>>
    BY <1>2 DEF ContainerName
  <2>2. Image(session) = <<"project">> \o n
    BY <1>2, <2>1 DEF Image
  <2>3. PICK x, y : n = <<x, y>> \/ n = <<x>>
    BY <2>1
  <2> DEFINE S == {x, y, "project"}
  <2>4. n \in Seq(S) /\ <<"project">> \in Seq(S) /\ Len(<<"project">>) = 1 /\ Len(n) \in {1, 2}
    BY <2>3
  <2> HIDE DEF S
  <2>5. Len(<<"project">> \o n) = 1 + Len(n)
    BY <2>4, ConcatProperties
  <2> QED BY <2>2, <2>4, <2>5
<1> QED BY <1>1, <1>2

LEMMA HealthyCreates ==
  ASSUME HostOK, NEW session, SessionTyped(session), Healthy(session, host), CannotCreate(session)
  PROVE  SocketInMount(session) \/ Image(session) # <<"base">>
<1> DEFINE W == WorkspaceOf(session)
           exists(mount) == \/ StartsWith(mount.source, StateDir(session))
                            \/ mount.source = ClaudeHome(session)
                            \/ Canonical(mount.source) \in host.tree
<1>1. SUFFICES ASSUME ~SocketInMount(session), ImageIsEmpty(session.manifest.table)
               PROVE  FALSE
  BY ImageOfItsOwn
<1>2. Image(session) = <<Key(session, <<"project", "image">>)>>
  BY <1>1 DEF Image
<1>3. host.readable /\ Image(session) \in host.images /\ Image(session) \notin host.missing
  BY <1>2 DEF Healthy
<1>4. PICK i \in DOMAIN Mounts(session) : ~exists(Mounts(session)[i])
  <2> HIDE DEF exists
  <2> QED BY <1>1, <1>3 DEF CannotCreate, exists
<1> DEFINE m == Mounts(session)[i]
<1>5. \/ \E n \in 1 .. Len(W) : m.source = W[n].host
      \/ m.source \in {Append(StateDir(session), "host"), Append(StateDir(session), "managed"),
                       ClaudeHome(session)}
  <2>1. PICK T : /\ Mounts(session) \in Seq(T)
                 /\ \A j \in 1 .. Len(Mounts(session)) :
                      \/ \E n \in 1 .. Len(WorkspaceOf(session)) :
                           Mounts(session)[j].source = WorkspaceOf(session)[n].host
                      \/ Mounts(session)[j].source \in
                           {Append(StateDir(session), "host"), Append(StateDir(session), "managed"),
                            ClaudeHome(session)}
    BY MountsMade
  <2>2. i \in 1 .. Len(Mounts(session))
    BY <2>1
  <2> QED BY <2>1, <2>2
<1> HIDE DEF m
<1>6. ASSUME NEW n \in 1 .. Len(W)
      PROVE  Canonical(W[n].host) \in host.tree
  <2>1. W \in Seq(ToSet(W)) /\ Len(W) \in Nat
    BY WorkspaceMade
  <2>2. PICK before, claim : W[n] = EntryFor(before, claim) /\ ClaimOK(session, claim)
    BY WorkspaceMade
  <2>3. W[n].host = claim.host /\ W[n].origin = claim.origin
    BY <2>2 DEF EntryFor
  <2>4. n \in DOMAIN W
    BY <2>1
  <2>5. CASE W[n].origin # "project"
    BY <2>4, <2>5 DEF Healthy
  <2>6. CASE W[n].origin = "project"
    BY <2>2, <2>3, <2>6 DEF ClaimOK, HostOK
  <2> QED BY <2>5, <2>6
<1>7. exists(m)
  BY <1>5, <1>6, StateDirHolds
<1> QED BY <1>4, <1>7 DEF m

LEMMA TrustedStarts ==
  ASSUME Control, HostOK, TrustedOK, SessionsTyped, NEW p \in Procs
  PROVE  /\ pc[p] = "create" /\ Create(p) /\ ~vm'.up
         /\ my[p].session = trusted.session /\ host = trusted.host
         => SocketInMount(my[p].session) \/ Image(my[p].session) # <<"base">>
<1>1. SUFFICES ASSUME pc[p] = "create", Create(p), ~vm'.up,
                      my[p].session = trusted.session, host = trusted.host
               PROVE  SocketInMount(my[p].session) \/ Image(my[p].session) # <<"base">>
  OBVIOUS
<1>2. my[p].session.manifest.ok /\ SessionTyped(my[p].session)
  BY <1>1 DEF Control, Shape, SessionsTyped, SessionAt, Loaded
<1>3. Healthy(my[p].session, host)
  BY <1>1, <1>2 DEF TrustedOK
<1>4. CannotCreate(my[p].session)
  BY <1>1 DEF Create
<1> QED BY <1>2, <1>3, <1>4, HealthyCreates

(* A container that cannot be made although doctor failed nothing for the    *)
(* same files and the same host has a socket inside a mount or an image of   *)
(* its own: there is no third thing that doctor overlooks and Session::create *)
(* refuses, for any manifest and host (HealthyStarts).                       *)
THEOREM DoctorSuffices == Spec => HealthyStarts
<1> DEFINE Inv == /\ Typing /\ Adds /\ TableSaves /\ TablesOK /\ FilesAsked /\ GivenOK
                  /\ SessionsTyped /\ HostOK /\ Looks /\ TrustedOK
<1>1. Init => Inv
  BY ControlInit, InstallsInit, FilesInit, RunsAloneInit, VmInit, AddsInit, SessionsInit,
     HealthInit DEF Typing
<1>2. Inv /\ [Next]_vars => Inv'
  BY ControlNext, SkillsStep, FilesStep, UserSavesStep, RunsAloneStep, VmStep, AddsStep, TablesStep,
     SessionsStep, HealthStep DEF Typing
<1>3. Inv => \A p \in Procs :
               /\ pc[p] = "create" /\ Create(p) /\ ~vm'.up
               /\ my[p].session = trusted.session /\ host = trusted.host
               => SocketInMount(my[p].session) \/ Image(my[p].session) # <<"base">>
  BY TrustedStarts DEF Typing
<1> QED BY <1>1, <1>2, <1>3, PTL DEF Spec, HealthyStarts

-----------------------------------------------------------------------------
(* The names a workspace gives.                                              *)

(* Two numbers never make one name of a base: the digits tell them apart     *)
(* (MCProject's NumbersTell has TLC look at some).                           *)
(* A base is a path's last name, or what stands for the root directory.      *)
Bases == STRING \union {"root"}
SuffixesDiffer ==
  \A base \in Bases : \A m, n \in Nat \ {0} : NthName(base, m) = NthName(base, n) => m = n

(* unique_name returns a name no entry has, and the base when that is free.  *)
LEMMA UniqueIsFree ==
  ASSUME SuffixesDiffer, NEW S, NEW workspace \in Seq(S), NEW path, BaseName(path) \in Bases
  PROVE  /\ \A i \in DOMAIN workspace : workspace[i].guest # Mounted(UniqueName(workspace, path))
         /\ (\A i \in DOMAIN workspace : workspace[i].guest # Mounted(BaseName(path)))
              => UniqueName(workspace, path) = BaseName(path)
<1> DEFINE base == BaseName(path)
           N == Len(workspace)
           name(n) == Mounted(NthName(base, n))
           free(n) == \A i \in DOMAIN workspace : workspace[i].guest # name(n)
           first(n) == free(n) /\ \A k \in 1 .. n - 1 : ~free(k)
           c == CHOOSE n \in 1 .. N + 1 : first(n)
           F == {n \in 1 .. N + 1 : free(n)}
<1>1. N \in Nat /\ DOMAIN workspace = 1 .. N
  OBVIOUS
<1>2. UniqueName(workspace, path) = NthName(base, c)
  BY DEF UniqueName
<1>3. \A m, n \in 1 .. N + 1 : name(m) = name(n) => m = n
  <2>1. \A m, n \in 1 .. N + 1 : name(m) = name(n) => NthName(base, m) = NthName(base, n)
    BY DEF Mounted
  <2>2. \A m, n \in 1 .. N + 1 : NthName(base, m) = NthName(base, n) => m = n
    <3>1. \A m \in 1 .. N + 1 : m \in Nat \ {0}
      BY <1>1
    <3>2. base \in Bases
      OBVIOUS
    <3> HIDE DEF base, N
    <3> QED BY <3>1, <3>2 DEF SuffixesDiffer
  <2> QED BY <2>1, <2>2
<1> HIDE DEF N, name, base
<1>4. F # {}
  <2>1. SUFFICES ASSUME \A n \in 1 .. N + 1 : ~free(n) PROVE FALSE
    OBVIOUS
  <2> DEFINE f == [n \in 1 .. N + 1 |-> CHOOSE i \in 1 .. N : workspace[i].guest = name(n)]
  <2>2. \A n \in 1 .. N + 1 : \E i \in 1 .. N : workspace[i].guest = name(n)
    BY <1>1, <2>1
  <2>3. \A n \in 1 .. N + 1 : f[n] \in 1 .. N /\ workspace[f[n]].guest = name(n)
    BY <2>2
  <2>4. f \in [1 .. N + 1 -> 1 .. N]
    BY <2>3
  <2>5. /\ IsFiniteSet(1 .. N) /\ Cardinality(1 .. N) = N
        /\ IsFiniteSet(1 .. N + 1) /\ Cardinality(1 .. N + 1) = N + 1
    <3>1. \A a, b \in Int : IsFiniteSet(a .. b) /\ Cardinality(a .. b) = IF a > b THEN 0 ELSE b - a + 1
      BY FS_Interval
    <3> QED BY <1>1, <3>1
  <2>6. Cardinality(1 .. N) < Cardinality(1 .. N + 1)
    BY <1>1, <2>5
  <2> HIDE DEF f
  <2>7. PICK m, n \in 1 .. N + 1 : m # n /\ f[m] = f[n]
    BY <2>4, <2>5, <2>6, FS_PigeonHole
  <2> QED BY <1>3, <2>3, <2>7
<1>5. \E n \in 1 .. N + 1 : first(n)
  <2>1. F \subseteq Nat /\ F \subseteq 1 .. N + 1
    BY <1>1
  <2>2. \E x \in F : \A y \in F : x <= y
    <3> HIDE DEF F
    <3> QED BY <1>4, <2>1, Least
  <2>3. PICK x \in F : \A y \in F : x <= y
    BY <2>2
  <2>4. \A k \in 1 .. x - 1 : k \in 1 .. N + 1 /\ ~(x <= k)
    BY <1>1, <2>3
  <2>5. \A k \in 1 .. x - 1 : ~free(k)
    BY <2>3, <2>4
  <2> QED BY <2>3, <2>5
<1>6. c \in 1 .. N + 1 /\ first(c)
  <2> HIDE DEF first
  <2> QED BY <1>5
<1>7. free(1) => c = 1
  <2>1. ASSUME c # 1 PROVE 1 \in 1 .. c - 1
    BY <1>1, <1>6, <2>1
  <2> QED BY <1>6, <2>1
<1>8. NthName(base, 1) = base
  BY DEF NthName
<1> HIDE DEF c
<1>9. free(c)
  BY <1>6
<1>10. \A i \in DOMAIN workspace : workspace[i].guest # Mounted(UniqueName(workspace, path))
  BY <1>2, <1>9 DEF name
<1>11. (\A i \in DOMAIN workspace : workspace[i].guest # Mounted(base)) => UniqueName(workspace, path) = base
  BY <1>2, <1>7, <1>8 DEF name
<1> QED BY <1>10, <1>11 DEF base

LEMMA BaseNamed ==
  ASSUME NEW path \in Seq(STRING)
  PROVE  BaseName(path) \in Bases
<1>1. path # <<>> => Last(path) \in Bases
  BY DEF Last, Bases
<1> QED BY <1>1 DEF BaseName, Bases

LEMMA NamesHold ==
  ASSUME SuffixesDiffer, NEW session, SessionTyped(session)
  PROVE  LET work == WorkspaceOf(session)
             declared == {Resolve(e.source) : e \in {e \in ToSet(session.manifest.paths) :
                                                       e.target # NoPath}}
             made == {i \in DOMAIN work : \/ work[i].origin \in {"root", "project"}
                                          \/ work[i].host \notin declared}
         IN /\ \A i \in DOMAIN work, j \in made : i < j => work[i].guest # work[j].guest
            /\ ~InRoot(Cwd, Roots(session))
                 => \/ GuestPath(work, Cwd) = Mounted(BaseName(Cwd))
                    \/ \E e \in ToSet(work) : e.origin = "root" /\ e.guest = Mounted(BaseName(Cwd))
<1> DEFINE W == WorkspaceOf(session)
           N == Len(W)
           claims == Claims(session)
           paths == session.manifest.paths
           declared == {Resolve(e.source) : e \in {e \in ToSet(paths) : e.target # NoPath}}
           R == Len(Roots(session))
<1>1. /\ W \in Seq(ToSet(W)) /\ N = Len(claims) /\ N \in Nat
      /\ \A i \in 1 .. N : \E before \in Seq(ToSet(W)) :
           /\ Len(before) = i - 1 /\ \A j \in 1 .. i - 1 : before[j] = W[j]
           /\ W[i] = EntryFor(before, claims[i])
           /\ ClaimOK(session, claims[i]) /\ claims[i] \in Claimed
  BY WorkspaceMade
<1>2. DOMAIN W = 1 .. N
  BY <1>1
<1> HIDE DEF W, N, claims, declared, R
<1>3. ASSUME NEW j \in 1 .. N, W[j].origin \in {"root", "project"} \/ W[j].host \notin declared
      PROVE  claims[j].target = NoPath
  <2>1. PICK before : W[j] = EntryFor(before, claims[j]) /\ ClaimOK(session, claims[j])
    BY <1>1
  <2>2. W[j].host = claims[j].host /\ W[j].origin = claims[j].origin
    BY <2>1 DEF EntryFor
  <2>3. ASSUME NEW e \in ToSet(paths), claims[j].host = Resolve(e.source), claims[j].target = e.target,
               claims[j].target # NoPath
        PROVE  claims[j].host \in declared
    BY <2>3 DEF declared
  <2> QED BY <1>3, <2>1, <2>2, <2>3 DEF ClaimOK
<1>4. ASSUME NEW j \in 1 .. N, claims[j].target = NoPath
      PROVE  /\ W[j].host = claims[j].host /\ W[j].origin = claims[j].origin
             /\ \A i \in 1 .. j - 1 : W[i].guest # W[j].guest
             /\ (\A i \in 1 .. j - 1 : W[i].guest # Mounted(BaseName(claims[j].host)))
                  => W[j].guest = Mounted(BaseName(claims[j].host))
  <2>1. PICK before \in Seq(ToSet(W)) :
          /\ Len(before) = j - 1 /\ \A i \in 1 .. j - 1 : before[i] = W[i]
          /\ W[j] = EntryFor(before, claims[j]) /\ claims[j] \in Claimed
    BY <1>1
  <2> DEFINE path == claims[j].host
  <2>2. /\ W[j].guest = Mounted(UniqueName(before, path))
        /\ W[j].host = path /\ W[j].origin = claims[j].origin
    BY <1>4, <2>1 DEF EntryFor
  <2>3. BaseName(path) \in Bases
    BY <2>1, BaseNamed DEF Claimed
  <2>4. DOMAIN before = 1 .. j - 1
    BY <2>1
  <2> HIDE DEF path
  <2>5. /\ \A i \in DOMAIN before : before[i].guest # Mounted(UniqueName(before, path))
        /\ (\A i \in DOMAIN before : before[i].guest # Mounted(BaseName(path)))
             => UniqueName(before, path) = BaseName(path)
    BY <2>3, UniqueIsFree
  <2> QED BY <2>1, <2>2, <2>4, <2>5 DEF path
<1>5. ASSUME NEW i \in DOMAIN W, NEW j \in DOMAIN W,
             W[j].origin \in {"root", "project"} \/ W[j].host \notin declared, i < j
      PROVE  W[i].guest # W[j].guest
  <2>1. i \in 1 .. j - 1 /\ j \in 1 .. N
    BY <1>1, <1>2, <1>5
  <2> QED BY <1>3, <1>4, <1>5, <2>1
<1>6. ASSUME ~InRoot(Cwd, Roots(session))
      PROVE  \/ GuestPath(W, Cwd) = Mounted(BaseName(Cwd))
             \/ \E e \in ToSet(W) : e.origin = "root" /\ e.guest = Mounted(BaseName(Cwd))
  <2> DEFINE p == R + 1
             of == {i \in DOMAIN W : StartsWith(Cwd, W[i].host)}
  <2>1. /\ Roots(session) \in Seq(Seq(STRING)) /\ DOMAIN Roots(session) = 1 .. R /\ R \in Nat
        /\ \A i \in 1 .. R : RootClaims(session)[i] = Claim(Roots(session)[i], NoPath, "root", FALSE)
    <3>1. /\ Roots(session) \in Seq(Seq(STRING))
          /\ \A i \in 1 .. Len(Roots(session)) :
               RootClaims(session)[i] = Claim(Roots(session)[i], NoPath, "root", FALSE)
      BY RootsTyped
    <3> DEFINE T == Seq(STRING)
    <3>2. Roots(session) \in Seq(T)
      BY <3>1
    <3> HIDE DEF T
    <3>3. DOMAIN Roots(session) = 1 .. Len(Roots(session)) /\ Len(Roots(session)) \in Nat
      BY <3>2
    <3> QED BY <3>1, <3>3 DEF R
  <2>2. /\ \A i \in 1 .. R : i \in 1 .. N /\ claims[i] = Claim(Roots(session)[i], NoPath, "root", FALSE)
        /\ p \in 1 .. N /\ claims[p] = Claim(Cwd, NoPath, "project", FALSE)
    <3>1. /\ \A i \in 1 .. R : i \in 1 .. Len(claims) /\ claims[i] = RootClaims(session)[i]
          /\ p \in 1 .. Len(claims) /\ claims[p] = Claim(Cwd, NoPath, "project", FALSE)
      BY <1>6, ClaimsMade DEF R, claims
    <3> QED BY <1>1, <2>1, <3>1
  <2>a. /\ \A i \in 1 .. R : /\ i \in 1 .. N /\ claims[i].target = NoPath
                              /\ claims[i].host = Roots(session)[i] /\ claims[i].origin = "root"
        /\ p \in 1 .. N /\ claims[p].target = NoPath /\ claims[p].host = Cwd
    <3>1. ASSUME NEW i \in 1 .. R
          PROVE  /\ i \in 1 .. N /\ claims[i].target = NoPath
                 /\ claims[i].host = Roots(session)[i] /\ claims[i].origin = "root"
      <4>1. i \in 1 .. N /\ claims[i] = Claim(Roots(session)[i], NoPath, "root", FALSE)
        BY <2>2
      <4> QED BY <4>1 DEF Claim
    <3>2. p \in 1 .. N /\ claims[p] = Claim(Cwd, NoPath, "project", FALSE)
      BY <2>2
    <3>3. claims[p].target = NoPath /\ claims[p].host = Cwd
      BY <3>2 DEF Claim
    <3> HIDE DEF p
    <3> QED BY <3>1, <3>2, <3>3
  <2> HIDE DEF p
  <2>4. \A i \in 1 .. R : W[i].host = Roots(session)[i] /\ W[i].origin = "root"
    BY <1>4, <2>a
  <2>5. /\ W[p].host = Cwd
        /\ (\A i \in 1 .. p - 1 : W[i].guest # Mounted(BaseName(Cwd))) => W[p].guest = Mounted(BaseName(Cwd))
    BY <1>4, <2>a
  <2>6. \A i \in 1 .. R : ~StartsWith(Cwd, W[i].host)
    BY <1>6, <2>1, <2>4 DEF InRoot
  <2>7. StartsWith(Cwd, Cwd) /\ Below(Cwd, Cwd) = <<>>
    <3>1. Cwd \in Seq(STRING)
      BY PathsAssumption
    <3>2. Len(Cwd) \in Nat /\ SubSeq(Cwd, Len(Cwd) + 1, Len(Cwd)) = <<>>
      BY <3>1
    <3> QED BY <3>2 DEF StartsWith, IsPrefix, Below
  <2>8. p \in of /\ \A i \in of : p <= i
    <3>1. p \in of
      BY <1>2, <2>a, <2>5, <2>7
    <3>2. ASSUME NEW i \in of PROVE p <= i
      <4>1. i \in 1 .. N /\ i \notin 1 .. R
        BY <1>2, <2>6
      <4> QED BY <1>1, <2>1, <4>1 DEF p
    <3> QED BY <3>1, <3>2
  <2>9. of \subseteq Nat
    BY <1>2
  <2>10. (CHOOSE i \in of : \A j \in of : i <= j) = p
    <3> HIDE DEF of, p
    <3>1. \A i \in of : (\A j \in of : i <= j) => i = p
      BY <2>8, <2>9
    <3> QED BY <2>8, <3>1
  <2>11. GuestPath(W, Cwd) = W[p].guest \o <<>>
    <3>1. GuestPath(W, Cwd) = IF of = {} THEN NoPath
                              ELSE LET e == W[CHOOSE i \in of : \A j \in of : i <= j]
                                   IN e.guest \o Below(Cwd, e.host)
      BY DEF GuestPath
    <3> HIDE DEF of, p
    <3> QED BY <2>5, <2>7, <2>8, <2>10, <3>1
  <2>12. CASE \A i \in 1 .. p - 1 : W[i].guest # Mounted(BaseName(Cwd))
    <3>1. W[p].guest = Mounted(BaseName(Cwd))
      BY <2>5, <2>12
    <3> DEFINE S == {"workspace", BaseName(Cwd)}
    <3>2. Mounted(BaseName(Cwd)) \in Seq(S)
      BY ShortSeq DEF Mounted
    <3>3. Mounted(BaseName(Cwd)) \o <<>> = Mounted(BaseName(Cwd))
      BY <3>2, ConcatEmptySeq
    <3> QED BY <2>11, <3>1, <3>3
  <2>13. CASE ~\A i \in 1 .. p - 1 : W[i].guest # Mounted(BaseName(Cwd))
    <3>1. PICK i \in 1 .. p - 1 : W[i].guest = Mounted(BaseName(Cwd))
      BY <2>13
    <3>2. i \in 1 .. R /\ i \in DOMAIN W
      <4>1. i \in 1 .. R
        BY <2>1 DEF p
      <4> QED BY <1>2, <2>a, <4>1
    <3> QED BY <2>4, <3>1, <3>2 DEF ToSet
  <2> QED BY <2>12, <2>13
<1> QED BY <1>5, <1>6 DEF W, declared

LEMMA NamedApart ==
  ASSUME SuffixesDiffer, SessionsTyped
  PROVE  NamesAreDistinct
<1>1. \A p \in Procs : pc[p] \in {"record_path", "look", "is_running"} => SessionTyped(my[p].session)
  BY DEF SessionsTyped, SessionAt, Loaded
<1> QED BY <1>1, NamesHold DEF NamesAreDistinct

(* No two mounts of a session that loaded meet at one guest path unless a    *)
(* declared target put the later one there, and nothing but a root takes the *)
(* project's name from it, for any two files and however many claims compete *)
(* for one name (NamesAreDistinct); given that the digits of two numbers     *)
(* differ, which is all that is left of ToString.                            *)
THEOREM NamesDiffer ==
  ASSUME SuffixesDiffer
  PROVE  Spec => []NamesAreDistinct
<1> DEFINE Inv == /\ Control /\ FilesOK /\ UserSaves /\ Adds /\ TableSaves /\ TablesOK
                  /\ FilesAsked /\ GivenOK /\ SessionsTyped
<1>1. Init => Inv
  BY ControlInit, FilesInit, AddsInit, SessionsInit
<1>2. Inv /\ [Next]_vars => Inv'
  BY ControlNext, FilesStep, UserSavesStep, AddsStep, TablesStep, SessionsStep
<1>3. Inv => NamesAreDistinct
  BY NamedApart
<1> QED BY <1>1, <1>2, <1>3, PTL DEF Spec

-----------------------------------------------------------------------------
(* What a path that is added changes.                                        *)

(* What paths list, what a session mounts by them, and a session that has    *)
(* one more of each.                                                         *)
Listed(paths) == {<<Resolve(e.source), e.readonly, e.local>> : e \in ToSet(paths)}
Exposed(session) == {<<e.host, e.readonly>> : e \in ToSet(WorkspaceOf(session))}
OnlyAdds(session, later, arg) ==
  /\ later.manifest.ok
  /\ Listed(later.manifest.paths)
       = Listed(session.manifest.paths) \union {<<arg.path, arg.readonly, arg.local>>}
  /\ Exposed(later) = Exposed(session) \union {<<arg.path, arg.readonly>>}

(* A key that a manifest may have, but for the paths, is of two names or     *)
(* more, and the first is that of another table.                             *)
LEMMA KnownKeys ==
  ASSUME NEW key, KeyPath(key), Known(key), key # Paths
  PROVE  /\ Len(key) \in 2 .. 4 /\ key[1] # "paths"
         /\ IsPrefix(Environment, key) /\ Len(key) > 2 => key = Append(Environment, key[3])
<1>a. PICK T : key \in Seq(T)
  BY DEF KeyPath
<1>1. ASSUME NEW name, NEW keys, key \in DOMAIN Within(name, keys)
      PROVE  Len(key) = 2 /\ key[1] = name
  BY <1>1 DEF Within
<1>2. CASE key \in DOMAIN Default
  <2>1. \/ key \in DOMAIN ClaudeConfig \/ key \in DOMAIN ContainerConfig \/ key \in DOMAIN HostConfig
        \/ key \in DOMAIN ImageConfig \/ key \in DOMAIN ProjectConfig \/ key \in DOMAIN WorkspaceConfig
        \/ key = Paths
    BY <1>2 DEF Default, Over, With
  <2>2. Len(key) = 2 /\ key[1] \in {"claude", "container", "host", "image", "project", "workspace"}
    BY <1>1, <2>1 DEF ClaudeConfig, ContainerConfig, HostConfig, ImageConfig, ProjectConfig, WorkspaceConfig
  <2> QED BY <2>2
<1>3. ASSUME NEW a, NEW b, IsPrefix(<<a, b>>, key), Len(key) >= 2
      PROVE  key[1] = a /\ key[2] = b
  BY <1>3 DEF IsPrefix
<1>4. CASE IsPrefix(Environment, key) /\ Len(key) = 3
  BY <1>a, <1>3, <1>4 DEF Environment
<1>5. CASE (IsPrefix(Sockets, key) \/ IsPrefix(Commands, key)) /\ Len(key) = 4
  <2>1. key[1] = "host"
    BY <1>3, <1>5 DEF Sockets, Commands
  <2>2. ~IsPrefix(Environment, key)
    BY <1>3, <1>5, <2>1 DEF Environment
  <2> QED BY <1>5, <2>1, <2>2
<1> QED BY <1>2, <1>4, <1>5 DEF Known

(* A table with other paths has everything else as it was.                   *)
PathsOver(more, table, entries) ==
  /\ DOMAIN more = DOMAIN table \union {Paths} /\ more[Paths] = entries
  /\ \A k \in DOMAIN table \ {Paths} : more[k] = table[k]
  /\ \A k : k # Paths => (k \in DOMAIN more <=> k \in DOMAIN table)
  /\ \A k, default : k # Paths => Get(more, k, default) = Get(table, k, default)
  /\ Value(more, Paths) = entries
  /\ \A k : k # Paths => Value(more, k) = Value(table, k)
  /\ \A a, b : Names(more, <<a, b>>) = Names(table, <<a, b>>)

LEMMA PathsSet ==
  ASSUME NEW table, NEW entries
  PROVE  PathsOver(With(table, Paths, entries), table, entries)
<1> DEFINE more == With(table, Paths, entries)
<1>1. /\ DOMAIN more = DOMAIN table \union {Paths} /\ more[Paths] = entries
      /\ \A k \in DOMAIN table \ {Paths} : more[k] = table[k]
  BY DEF With, Over
<1> HIDE DEF more
<1>2. \A k : k # Paths => (k \in DOMAIN more <=> k \in DOMAIN table)
  BY <1>1
<1>3. \A k, default : k # Paths => Get(more, k, default) = Get(table, k, default)
  BY <1>1, <1>2 DEF Get
<1>4. Value(more, Paths) = entries
  BY <1>1 DEF Value, Get
<1>5. \A k : k # Paths => Value(more, k) = Value(table, k)
  BY <1>3 DEF Value
<1>6. ASSUME NEW a, NEW b
      PROVE  Names(more, <<a, b>>) = Names(table, <<a, b>>)
  <2>1. Len(Paths) = 1 /\ Len(<<a, b>>) = 2
    BY DEF Paths
  <2>2. {k \in DOMAIN more : IsPrefix(<<a, b>>, k) /\ Len(k) > Len(<<a, b>>)}
          = {k \in DOMAIN table : IsPrefix(<<a, b>>, k) /\ Len(k) > Len(<<a, b>>)}
    BY <1>2, <2>1
  <2> QED BY <2>2 DEF Names
<1>7. PathsOver(more, table, entries)
  BY <1>1, <1>2, <1>3, <1>4, <1>5, <1>6 DEF PathsOver
<1> QED BY <1>7 DEF more


(* What the deserializers take of a table does not depend on its paths.      *)
LEMMA ParsesAnyPaths ==
  ASSUME NEW table, \A k \in DOMAIN table : KeyPath(k), Parses(table), NEW entries
  PROVE  Parses(With(table, Paths, entries))
<1> DEFINE more == With(table, Paths, entries)
<1>a. PathsOver(more, table, entries)
  BY PathsSet
<1> HIDE DEF more
<1>1. /\ DOMAIN more = DOMAIN table \union {Paths}
      /\ \A k \in DOMAIN table \ {Paths} : more[k] = table[k]
      /\ \A k : k # Paths => (k \in DOMAIN more <=> k \in DOMAIN table)
      /\ \A k, default : k # Paths => Get(more, k, default) = Get(table, k, default)
      /\ \A k : k # Paths => Value(more, k) = Value(table, k)
      /\ \A a, b : Names(more, <<a, b>>) = Names(table, <<a, b>>)
  BY <1>a DEF PathsOver
<1>2. \A a, b : <<a, b>> # Paths
  BY DEF Paths
<1>3. \A a, b, c, d : <<a, b>> \o <<c, d>> # Paths
  BY DEF Paths
<1>4. \A k \in DOMAIN more : Known(k)
  <2>1. Known(Paths)
    <3>1. Paths \in DOMAIN Default
      BY DEF Default, Over, With
    <3> QED BY <3>1 DEF Known
  <2> QED BY <1>1, <2>1 DEF Parses
<1>5. ParseMemory(Value(more, <<"container", "memory">>)) > 0
  BY <1>1, <1>2 DEF Parses
<1>6. ValidEnvironment(more)
  <2>1. Value(more, <<"container", "env">>) = Value(table, <<"container", "env">>)
    BY <1>1, <1>2
  <2>2. Names(more, Environment) = Names(table, Environment)
    BY <1>1 DEF Environment
  <2>3. ASSUME NEW n \in Names(table, Environment)
        PROVE  more[Append(Environment, n)] = table[Append(Environment, n)]
    <3>1. PICK k \in DOMAIN table : IsPrefix(Environment, k) /\ Len(k) > Len(Environment)
                                    /\ n = k[Len(Environment) + 1]
      BY DEF Names
    <3>2. Len(Environment) = 2
      BY DEF Environment
    <3>3. k # Paths /\ KeyPath(k) /\ Known(k)
      BY <3>1, <3>2 DEF Paths, Parses
    <3>4. k = Append(Environment, n)
      BY <3>1, <3>2, <3>3, KnownKeys
    <3> QED BY <1>1, <3>3, <3>4
  <2>4. ValidEnvironment(table)
    BY DEF Parses
  <2> QED BY <2>1, <2>2, <2>3, <2>4 DEF ValidEnvironment
<1>7. ValidSockets(more)
  <2>1. Names(more, Sockets) = Names(table, Sockets)
    BY <1>1 DEF Sockets
  <2>2. \A n, key : Sockets \o <<n, key>> # Paths
    BY <1>3 DEF Sockets
  <2>3. \A n, key : SocketValue(more, n, key) = SocketValue(table, n, key)
    BY <1>1, <2>2 DEF SocketValue
  <2>4. \A n : Sockets \o <<n, "source">> \in DOMAIN more <=> Sockets \o <<n, "source">> \in DOMAIN table
    BY <1>1, <2>2
  <2>5. ValidSockets(table)
    BY DEF Parses
  <2> QED BY <2>1, <2>3, <2>4, <2>5 DEF ValidSockets
<1>8. \A n \in Names(more, Commands) : Commands \o <<n, "argv">> \in DOMAIN more
  <2>1. Names(more, Commands) = Names(table, Commands)
    BY <1>1 DEF Commands
  <2>2. \A n : Commands \o <<n, "argv">> # Paths
    BY <1>3 DEF Commands
  <2> QED BY <1>1, <2>1, <2>2 DEF Parses
<1> QED BY <1>4, <1>5, <1>6, <1>7, <1>8 DEF Parses, more

(* A manifest needs no key.                                                  *)
LEMMA EmptyParses == Parses(EmptyTable)
<1>1. DOMAIN EmptyTable = {}
  BY DEF EmptyTable
<1>2. \A at : Names(EmptyTable, at) = {}
  BY <1>1 DEF Names
<1>3. \A k : Value(EmptyTable, k) = Default[k]
  BY <1>1 DEF Value, Get
<1> DEFINE memory == <<"container", "memory">>
           env == <<"container", "env">>
<1>4. memory \in DOMAIN ContainerConfig /\ ContainerConfig[memory] = DefaultMemory
      /\ env \in DOMAIN ContainerConfig /\ ContainerConfig[env] = <<>>
  BY DEF ContainerConfig, Within
<1>5. memory \notin DOMAIN ClaudeConfig /\ env \notin DOMAIN ClaudeConfig
  BY DEF ClaudeConfig, Within
<1>6. Default[memory] = DefaultMemory /\ Default[env] = <<>>
  <2> HIDE DEF memory, env
  <2> QED BY <1>4, <1>5 DEF Default, Over
<1>7. ParseMemory(Value(EmptyTable, memory)) > 0
  BY <1>3, <1>6, DefaultMemoryAssumption
<1>8. ToSet(Value(EmptyTable, env)) = {}
  BY <1>3, <1>6 DEF ToSet
<1>9. ValidEnvironment(EmptyTable)
  BY <1>2, <1>8 DEF ValidEnvironment
<1>10. ValidSockets(EmptyTable)
  BY <1>2 DEF ValidSockets
<1> QED BY <1>1, <1>2, <1>7, <1>9, <1>10 DEF Parses


(* What is over what is over a table, in either order.                       *)
LEMMA OverAssociates ==
  ASSUME NEW a, NEW b, NEW c
  PROVE  Over(Over(a, b), c) = Over(a, Over(b, c))
BY DEF Over

(* Where the local file says nothing of the paths they stay those of the     *)
(* shared one, whatever they are.                                            *)
LEMMA OverlayLeavesPaths ==
  ASSUME NEW base, NEW over, \A k \in DOMAIN over : KeyPath(k), \A k \in DOMAIN over : Known(k),
         Paths \notin DOMAIN over, NEW entries
  PROVE  /\ Overlay(With(base, Paths, entries), over) = With(Overlay(base, over), Paths, entries)
         /\ Value(Overlay(base, over), Paths) = Value(base, Paths)
<1> DEFINE command(k) == IF IsPrefix(Commands, k) /\ Len(k) > 2 THEN SubSeq(k, 1, 3) ELSE k
           hidden(k) == \E l \in DOMAIN over : \/ IsPrefix(command(l), k)
                                               \/ IsPrefix(k, l)
           rest(table) == [k \in {k \in DOMAIN table : ~hidden(k)} |-> table[k]]
           more == With(base, Paths, entries)
<1>1. ~hidden(Paths)
  <2>1. SUFFICES ASSUME NEW l \in DOMAIN over, IsPrefix(command(l), Paths) \/ IsPrefix(Paths, l)
                 PROVE  FALSE
    OBVIOUS
  <2>a. PICK T : l \in Seq(T)
    BY DEF KeyPath
  <2>2. Len(l) \in 2 .. 4 /\ l[1] # "paths"
    BY KnownKeys
  <2>3. Len(command(l)) > 1
    <3>1. IsPrefix(Commands, l) /\ Len(l) > 2 => Len(SubSeq(l, 1, 3)) = 3
      BY <2>a, <2>2
    <3> QED BY <2>2, <3>1
  <2>4. ~IsPrefix(command(l), Paths)
    <3> HIDE DEF command
    <3> QED BY <2>3 DEF IsPrefix, Paths
  <2>5. ~IsPrefix(Paths, l)
    BY <2>2 DEF IsPrefix, Paths
  <2> QED BY <2>1, <2>4, <2>5
<1>2. \A table : Overlay(table, over) = Over(over, rest(table))
  BY DEF Overlay
<1> HIDE DEF hidden
<1>3. /\ DOMAIN more = DOMAIN base \union {Paths} /\ more[Paths] = entries
      /\ \A k \in DOMAIN base \ {Paths} : more[k] = base[k]
  BY DEF With, Over
<1> HIDE DEF more
<1> DEFINE S == DOMAIN over \union {Paths} \union {k \in DOMAIN base : ~hidden(k)}
           at(k) == IF k = Paths THEN entries ELSE IF k \in DOMAIN over THEN over[k] ELSE base[k]
<1>4. Over(over, rest(more)) = [k \in S |-> at(k)]
  <2>1. DOMAIN over \union DOMAIN rest(more) = S
    BY <1>1, <1>3
  <2>2. \A k \in S : (IF k \in DOMAIN over THEN over[k] ELSE rest(more)[k]) = at(k)
    BY <1>1, <1>3
  <2> HIDE DEF rest, S, at
  <2> QED BY <2>1, <2>2 DEF Over
<1>5. With(Over(over, rest(base)), Paths, entries) = [k \in S |-> at(k)]
  <2> DEFINE old == Over(over, rest(base))
  <2>1. /\ DOMAIN old = DOMAIN over \union {k \in DOMAIN base : ~hidden(k)}
        /\ \A k \in DOMAIN old : old[k] = IF k \in DOMAIN over THEN over[k] ELSE base[k]
    BY DEF Over
  <2> HIDE DEF old
  <2>2. {Paths} \union DOMAIN old = S
    BY <2>1
  <2>3. With(old, Paths, entries) = [k \in {Paths} \union DOMAIN old |-> IF k = Paths THEN entries ELSE old[k]]
    BY DEF With, Over
  <2>4. \A k \in S : (IF k = Paths THEN entries ELSE old[k]) = at(k)
    BY <2>1
  <2> HIDE DEF S, at
  <2>5. With(old, Paths, entries) = [k \in S |-> at(k)]
    BY <2>2, <2>3, <2>4
  <2> QED BY <2>5 DEF old
<1>6. Overlay(more, over) = With(Overlay(base, over), Paths, entries)
  <2> HIDE DEF rest, S, at
  <2> QED BY <1>2, <1>4, <1>5
<1>7. Value(Overlay(base, over), Paths) = Value(base, Paths)
  <2>1. /\ Paths \in DOMAIN Over(over, rest(base)) <=> Paths \in DOMAIN base
        /\ Paths \in DOMAIN base => Over(over, rest(base))[Paths] = base[Paths]
    BY <1>1 DEF Over
  <2> HIDE DEF rest
  <2> QED BY <1>2, <2>1 DEF Value, Get
<1> QED BY <1>6, <1>7 DEF more


(* A file as a save or the user leaves it, or not there.                     *)
TextOK(file) == /\ Typed(file.table) /\ file.state \in {"absent", "unparsable", "table"}
                /\ file.state = "absent" => file.table = EmptyTable

(* What a manifest that loads is made of.                                    *)
LEMMA LoadGives ==
  ASSUME NEW shared, NEW local, TextOK(shared), TextOK(local), Load(shared, local).ok
  PROVE  /\ ReadTable(shared) /\ LoadIfPresent(local)
         /\ Parses(WithSharedSockets(local.table, shared.table))
         /\ \A k \in DOMAIN local.table : Known(k)
         /\ Parses(Overlay(shared.table, Without(local.table, Paths)))
         /\ Load(shared, local) =
              [ok    |-> TRUE,
               table |-> Overlay(shared.table, Without(local.table, Paths)),
               paths |-> Marked(Value(shared.table, Paths), FALSE)
                           \o Marked(Value(local.table, Paths), TRUE)]
<1> DEFINE base == shared.table
           over == local.table
           merged == Overlay(base, Without(over, Paths))
           ok == /\ ReadTable(shared) /\ LoadIfPresent(local)
                 /\ local.state = "table" => Parses(WithSharedSockets(over, base))
                 /\ Parses(merged)
           given_ == [ok    |-> TRUE,
                      table |-> merged,
                      paths |-> Marked(Value(merged, Paths), FALSE) \o Marked(Value(over, Paths), TRUE)]
<1>1. Load(shared, local) = IF ~ok THEN NoManifest ELSE given_
  BY DEF Load
<1>2. ok
  BY <1>1 DEF NoManifest
<1>3. Parses(WithSharedSockets(over, base))
  <2>1. CASE local.state = "absent"
    <3>1. over = EmptyTable
      BY <2>1 DEF TextOK
    <3>2. Names(over, Sockets) = {}
      BY <3>1 DEF Names, EmptyTable
    <3>3. WithSharedSockets(over, base) = EmptyTable
      BY <3>1, <3>2 DEF WithSharedSockets, Over, EmptyTable
    <3> QED BY <3>3, EmptyParses
  <2> QED BY <1>2, <2>1 DEF TextOK, LoadIfPresent
<1>4. \A k \in DOMAIN over : Known(k)
  <2>1. DOMAIN over \subseteq DOMAIN WithSharedSockets(over, base)
    BY DEF WithSharedSockets, Over
  <2> QED BY <1>3, <2>1 DEF Parses
<1>5. Value(merged, Paths) = Value(base, Paths)
  <2> DEFINE rest == Without(over, Paths)
  <2>1. DOMAIN rest = DOMAIN over \ {Paths}
    BY DEF Without
  <2>2. \A k \in DOMAIN over : KeyPath(k)
    BY DEF TextOK, Typed
  <2> HIDE DEF rest
  <2>3. Value(Overlay(base, rest), Paths) = Value(base, Paths)
    BY <1>4, <2>1, <2>2, OverlayLeavesPaths
  <2> QED BY <2>3 DEF rest
<1> HIDE DEF merged
<1>6. given_.paths = Marked(Value(base, Paths), FALSE) \o Marked(Value(over, Paths), TRUE)
  BY <1>5
<1> QED BY <1>1, <1>2, <1>3, <1>4, <1>5, <1>6 DEF merged

(* With other paths in the shared file it loads again, to the same values    *)
(* but for them.                                                             *)
LEMMA SharedReloads ==
  ASSUME NEW shared, NEW local, TextOK(shared), TextOK(local), Load(shared, local).ok,
         NEW entries
  PROVE  Load(Holding(With(shared.table, Paths, entries)), local) =
           [ok    |-> TRUE,
            table |-> With(Load(shared, local).table, Paths, entries),
            paths |-> Marked(entries, FALSE) \o Marked(Value(local.table, Paths), TRUE)]
<1> DEFINE base == shared.table
           over == local.table
           rest == Without(over, Paths)
           merged == Overlay(base, rest)
           more == With(base, Paths, entries)
<1>1. /\ ReadTable(shared) /\ LoadIfPresent(local)
      /\ Parses(WithSharedSockets(over, base)) /\ Parses(merged)
      /\ \A k \in DOMAIN over : Known(k)
      /\ Load(shared, local).table = merged
  <2>1. /\ ReadTable(shared) /\ LoadIfPresent(local)
        /\ Parses(WithSharedSockets(over, base)) /\ Parses(merged)
        /\ \A k \in DOMAIN over : Known(k)
    BY LoadGives
  <2>2. Load(shared, local) =
          [ok    |-> TRUE,
           table |-> merged,
           paths |-> Marked(Value(base, Paths), FALSE) \o Marked(Value(over, Paths), TRUE)]
    BY LoadGives
  <2> HIDE DEF merged
  <2>3. Load(shared, local).table = merged
    BY <2>2
  <2> QED BY <2>1, <2>3
<1>2. (\A k \in DOMAIN over : KeyPath(k)) /\ \A k \in DOMAIN base : KeyPath(k)
  BY DEF TextOK, Typed
<1>3. DOMAIN rest = DOMAIN over \ {Paths}
  BY DEF Without
<1>4. Overlay(more, rest) = With(merged, Paths, entries)
  <2> HIDE DEF rest
  <2> QED BY <1>1, <1>2, <1>3, OverlayLeavesPaths
<1>5. Parses(Overlay(more, rest))
  <2>1. DOMAIN merged \subseteq DOMAIN base \union DOMAIN rest
    BY DEF Overlay, Over
  <2>2. \A k \in DOMAIN merged : KeyPath(k)
    BY <1>2, <1>3, <2>1
  <2> HIDE DEF merged
  <2> QED BY <1>1, <1>4, <2>2, ParsesAnyPaths
<1>6. WithSharedSockets(over, more) = WithSharedSockets(over, base)
  <2> DEFINE given_(table) ==
               {k \in DOMAIN table : /\ IsPrefix(Sockets, k) /\ Len(k) = 4 /\ k[4] = "source"
                                     /\ k[3] \in Names(over, Sockets)}
  <2>1. PathsOver(more, base, entries)
    BY PathsSet
  <2> HIDE DEF more
  <2>2. \A k : Len(k) = 4 => k # Paths
    BY DEF Paths
  <2>3. given_(more) = given_(base) /\ \A k \in given_(base) : more[k] = base[k]
    BY <2>1, <2>2 DEF PathsOver
  <2>4. [k \in given_(more) |-> more[k]] = [k \in given_(base) |-> base[k]]
    <3> HIDE DEF given_
    <3> QED BY <2>3
  <2>5. \A table : WithSharedSockets(over, table) = Over(over, [k \in given_(table) |-> table[k]])
    BY DEF WithSharedSockets
  <2> HIDE DEF given_
  <2> QED BY <2>4, <2>5
<1>7. Value(Overlay(more, rest), Paths) = entries
  <2>1. PathsOver(With(merged, Paths, entries), merged, entries)
    BY PathsSet
  <2> HIDE DEF merged, rest, more
  <2> QED BY <1>4, <2>1 DEF PathsOver
<1> DEFINE file == Holding(more)
<1>8. file.state = "table" /\ file.table = more
  BY DEF Holding
<1> HIDE DEF file, more, merged, rest
<1>9. Load(file, local) = [ok    |-> TRUE,
                           table |-> Overlay(more, rest),
                           paths |-> Marked(Value(Overlay(more, rest), Paths), FALSE)
                                       \o Marked(Value(over, Paths), TRUE)]
  BY <1>1, <1>5, <1>6, <1>8 DEF Load, ReadTable, rest
<1> QED BY <1>1, <1>4, <1>7, <1>9 DEF file, more

(* With other paths in the local file as well: not even its table changes.   *)
LEMMA LocalReloads ==
  ASSUME NEW shared, NEW local, TextOK(shared), TextOK(local), Load(shared, local).ok,
         NEW entries
  PROVE  Load(shared, Holding(With(local.table, Paths, entries))) =
           [ok    |-> TRUE,
            table |-> Load(shared, local).table,
            paths |-> Marked(Value(shared.table, Paths), FALSE) \o Marked(entries, TRUE)]
<1> DEFINE base == shared.table
           over == local.table
           more == With(over, Paths, entries)
           merged == Overlay(base, Without(over, Paths))
<1>1. /\ ReadTable(shared) /\ LoadIfPresent(local)
      /\ Parses(WithSharedSockets(over, base)) /\ Parses(merged)
      /\ \A k \in DOMAIN over : Known(k)
      /\ Load(shared, local).table = merged
  <2>1. /\ ReadTable(shared) /\ LoadIfPresent(local)
        /\ Parses(WithSharedSockets(over, base)) /\ Parses(merged)
        /\ \A k \in DOMAIN over : Known(k)
    BY LoadGives
  <2>2. Load(shared, local) =
          [ok    |-> TRUE,
           table |-> merged,
           paths |-> Marked(Value(base, Paths), FALSE) \o Marked(Value(over, Paths), TRUE)]
    BY LoadGives
  <2> HIDE DEF merged
  <2>3. Load(shared, local).table = merged
    BY <2>2
  <2> QED BY <2>1, <2>3
<1>2. (\A k \in DOMAIN over : KeyPath(k)) /\ \A k \in DOMAIN base : KeyPath(k)
  BY DEF TextOK, Typed
<1>3. PathsOver(more, over, entries)
  BY PathsSet
<1>4. Without(more, Paths) = Without(over, Paths)
  <2> HIDE DEF more
  <2>1. DOMAIN more \ {Paths} = DOMAIN over \ {Paths}
    BY <1>3 DEF PathsOver
  <2>2. \A k \in DOMAIN over \ {Paths} : more[k] = over[k]
    BY <1>3 DEF PathsOver
  <2> QED BY <2>1, <2>2 DEF Without
<1>5. Parses(WithSharedSockets(more, base))
  <2> DEFINE sources(table) ==
               [k \in {k \in DOMAIN base : /\ IsPrefix(Sockets, k) /\ Len(k) = 4 /\ k[4] = "source"
                                           /\ k[3] \in Names(table, Sockets)} |-> base[k]]
             old == WithSharedSockets(over, base)
  <2>1. \A table : WithSharedSockets(table, base) = Over(table, sources(table))
    BY DEF WithSharedSockets
  <2>2. sources(more) = sources(over)
    <3>1. Names(more, Sockets) = Names(over, Sockets)
      <4> HIDE DEF more
      <4> QED BY <1>3 DEF PathsOver, Sockets
    <3> QED BY <3>1
  <2>3. \A k \in DOMAIN old : KeyPath(k)
    <3>1. DOMAIN old \subseteq DOMAIN over \union DOMAIN base
      BY DEF WithSharedSockets, Over
    <3> QED BY <1>2, <3>1
  <2> HIDE DEF sources
  <2>4. WithSharedSockets(more, base) = With(old, Paths, entries)
    BY <2>1, <2>2, OverAssociates DEF With
  <2> HIDE DEF old, more
  <2>5. Parses(old)
    BY <1>1 DEF old
  <2> QED BY <2>3, <2>4, <2>5, ParsesAnyPaths
<1>6. Value(Overlay(base, Without(over, Paths)), Paths) = Value(base, Paths)
  <2> DEFINE rest == Without(over, Paths)
  <2>1. DOMAIN rest = DOMAIN over \ {Paths}
    BY DEF Without
  <2> HIDE DEF rest
  <2>2. Value(Overlay(base, rest), Paths) = Value(base, Paths)
    BY <1>1, <1>2, <2>1, OverlayLeavesPaths
  <2> QED BY <2>2 DEF rest
<1> DEFINE file == Holding(more)
<1>7. file.state = "table" /\ file.table = more
  BY DEF Holding
<1>8. Value(more, Paths) = entries
  BY <1>3 DEF PathsOver
<1> HIDE DEF file, more, merged
<1>9. Load(shared, file) = [ok    |-> TRUE,
                            table |-> Overlay(base, Without(more, Paths)),
                            paths |-> Marked(Value(Overlay(base, Without(more, Paths)), Paths), FALSE)
                                        \o Marked(Value(more, Paths), TRUE)]
  BY <1>1, <1>4, <1>5, <1>7 DEF Load, LoadIfPresent, merged
<1> QED BY <1>1, <1>4, <1>6, <1>8, <1>9 DEF file, more, merged

(* Sequences, end to end.                                                    *)
LEMMA InBoth ==
  ASSUME NEW T, NEW s \in Seq(T), NEW t \in Seq(T)
  PROVE  ToSet(s \o t) = ToSet(s) \union ToSet(t)
<1>1. /\ s \o t \in Seq(T) /\ Len(s \o t) = Len(s) + Len(t)
      /\ Len(s) \in Nat /\ Len(t) \in Nat
      /\ \A i \in 1 .. Len(s) : (s \o t)[i] = s[i]
      /\ \A i \in 1 .. Len(t) : (s \o t)[Len(s) + i] = t[i]
  OBVIOUS
<1> DEFINE both == s \o t
<1>2. DOMAIN both = 1 .. Len(s) + Len(t) /\ DOMAIN s = 1 .. Len(s) /\ DOMAIN t = 1 .. Len(t)
  BY <1>1
<1> HIDE DEF both
<1>3. ASSUME NEW i \in DOMAIN both
      PROVE  both[i] \in ToSet(s) \union ToSet(t)
  <2>1. CASE i <= Len(s)
    BY <1>1, <1>2, <2>1 DEF both, ToSet
  <2>2. CASE i > Len(s)
    <3>1. i - Len(s) \in 1 .. Len(t) /\ Len(s) + (i - Len(s)) = i
      BY <1>1, <1>2, <2>2
    <3>2. both[i] = t[i - Len(s)]
      BY <1>1, <3>1 DEF both
    <3> QED BY <1>2, <3>1, <3>2 DEF ToSet
  <2> QED BY <1>1, <1>2, <2>1, <2>2
<1>4. ASSUME NEW i \in DOMAIN s
      PROVE  s[i] \in ToSet(both)
  BY <1>1, <1>2 DEF both, ToSet
<1>5. ASSUME NEW i \in DOMAIN t
      PROVE  t[i] \in ToSet(both)
  <2>1. Len(s) + i \in DOMAIN both
    BY <1>1, <1>2
  <2> QED BY <1>1, <1>2, <2>1 DEF both, ToSet
<1> QED BY <1>3, <1>4, <1>5 DEF ToSet, both

(* What the paths of a loaded manifest list: those of each file.             *)
LEMMA MarkedLists ==
  ASSUME NEW s \in Seq(Entries), NEW m \in BOOLEAN
  PROVE  /\ Listed(Marked(s, m)) = {<<Resolve(e.source), e.readonly, m>> : e \in ToSet(s)}
         /\ {<<Resolve(e.source), e.readonly>> : e \in ToSet(Marked(s, m))}
              = {<<Resolve(e.source), e.readonly>> : e \in ToSet(s)}
<1> DEFINE mark(e) == [source |-> e.source, target |-> e.target,
                       readonly |-> e.readonly, local |-> m]
           full(e) == <<Resolve(e.source), e.readonly, e.local>>
           pair(e) == <<Resolve(e.source), e.readonly>>
<1>1. ToSet(Marked(s, m)) = {mark(e) : e \in ToSet(s)}
  BY DEF Marked, ToSet
<1>2. \A e : full(mark(e)) = <<Resolve(e.source), e.readonly, m>> /\ pair(mark(e)) = pair(e)
  OBVIOUS
<1>3. /\ {full(e) : e \in ToSet(Marked(s, m))} = {full(mark(e)) : e \in ToSet(s)}
      /\ {pair(e) : e \in ToSet(Marked(s, m))} = {pair(mark(e)) : e \in ToSet(s)}
  <2> HIDE DEF full, pair, mark
  <2> QED BY <1>1
<1> HIDE DEF mark
<1>4. /\ {full(e) : e \in ToSet(Marked(s, m))} = {<<Resolve(e.source), e.readonly, m>> : e \in ToSet(s)}
      /\ {pair(e) : e \in ToSet(Marked(s, m))} = {pair(e) : e \in ToSet(s)}
  BY <1>2, <1>3
<1> QED BY <1>4 DEF Listed

LEMMA ListedInBoth ==
  ASSUME NEW a \in Seq(Entries), NEW b \in Seq(Entries)
  PROVE  LET paths == Marked(a, FALSE) \o Marked(b, TRUE)
         IN /\ Listed(paths) = {<<Resolve(e.source), e.readonly, FALSE>> : e \in ToSet(a)}
                                 \union {<<Resolve(e.source), e.readonly, TRUE>> : e \in ToSet(b)}
            /\ {<<Resolve(e.source), e.readonly>> : e \in ToSet(paths)}
                 = {<<Resolve(e.source), e.readonly>> : e \in ToSet(a) \union ToSet(b)}
<1> DEFINE A == Marked(a, FALSE)
           B == Marked(b, TRUE)
           paths == A \o B
           pairs(s) == {<<Resolve(e.source), e.readonly>> : e \in s}
<1>1. A \in Seq(MarkedEntries) /\ B \in Seq(MarkedEntries)
  <2> HIDE DEF Marked
  <2> QED BY MarkedTyped
<1>2. /\ Listed(A) = {<<Resolve(e.source), e.readonly, FALSE>> : e \in ToSet(a)}
      /\ pairs(ToSet(A)) = pairs(ToSet(a))
  BY MarkedLists, Zenon
<1>3. /\ Listed(B) = {<<Resolve(e.source), e.readonly, TRUE>> : e \in ToSet(b)}
      /\ pairs(ToSet(B)) = pairs(ToSet(b))
  BY MarkedLists, Zenon
<1>4. ToSet(paths) = ToSet(A) \union ToSet(B)
  <2> HIDE DEF A, B
  <2> QED BY <1>1, InBoth
<1> HIDE DEF A, B, paths
<1>5. Listed(paths) = Listed(A) \union Listed(B)
  BY <1>4 DEF Listed
<1>6. \A s, t : pairs(s \union t) = pairs(s) \union pairs(t)
  OBVIOUS
<1> HIDE DEF pairs
<1>7. pairs(ToSet(paths)) = pairs(ToSet(a) \union ToSet(b))
  <2>1. pairs(ToSet(A)) = pairs(ToSet(a)) /\ pairs(ToSet(B)) = pairs(ToSet(b))
    BY <1>2, <1>3
  <2>2. pairs(ToSet(paths)) = pairs(ToSet(A)) \union pairs(ToSet(B))
    BY <1>4, <1>6
  <2>3. pairs(ToSet(a) \union ToSet(b)) = pairs(ToSet(a)) \union pairs(ToSet(b))
    BY <1>6
  <2> QED BY <2>1, <2>2, <2>3
<1> QED BY <1>2, <1>3, <1>5, <1>7 DEF A, B, paths, pairs

(* A session mounts its roots, the project unless a root holds it, and the   *)
(* declared paths, each once it is claimed.                                  *)
OfItsOwn(session) ==
  {<<r, FALSE>> : r \in ToSet(Roots(session))}
    \union (IF InRoot(Cwd, Roots(session)) THEN {} ELSE {<<Cwd, FALSE>>})

LEMMA ExposedMade ==
  ASSUME NEW session, SessionTyped(session)
  PROVE  Exposed(session) =
           OfItsOwn(session)
             \union {<<Resolve(e.source), e.readonly>> : e \in ToSet(session.manifest.paths)}
<1> DEFINE C == Claims(session)
           W == WorkspaceOf(session)
           asked(claims) == {<<c.host, c.readonly>> : c \in ToSet(claims)}
<1>1. /\ C \in Seq(Claimed) /\ W \in Seq(ToSet(W)) /\ Len(W) = Len(C) /\ Len(C) \in Nat
      /\ \A i \in 1 .. Len(C) : \E before : W[i] = EntryFor(before, C[i])
  BY ClaimsMade, WorkspaceMade
<1>2. \A i \in 1 .. Len(C) : W[i].host = C[i].host /\ W[i].readonly = C[i].readonly
  <2>1. \A before, c : EntryFor(before, c).host = c.host /\ EntryFor(before, c).readonly = c.readonly
    BY DEF EntryFor
  <2> QED BY <1>1, <2>1
<1>3. DOMAIN W = 1 .. Len(C) /\ DOMAIN C = 1 .. Len(C)
  <2> HIDE DEF C, W
  <2> QED BY <1>1
<1> HIDE DEF C, W
<1>4. Exposed(session) = {<<W[i].host, W[i].readonly>> : i \in 1 .. Len(C)}
  BY <1>3 DEF Exposed, ToSet, W
<1>5. asked(C) = {<<C[i].host, C[i].readonly>> : i \in 1 .. Len(C)}
  BY <1>3 DEF ToSet
<1>6. Exposed(session) = asked(C)
  BY <1>2, <1>4, <1>5
<1> DEFINE R == RootClaims(session)
           P == ProjectClaims(session)
           D == PathClaims(session)
<1>7. R \in Seq(Claimed) /\ P \in Seq(Claimed) /\ D \in Seq(Claimed)
  BY RootsTyped, ClaimsMade
<1>8. ToSet(C) = ToSet(R) \union ToSet(P) \union ToSet(D)
  <2>1. C = (R \o P) \o D
    BY DEF C, Claims
  <2> HIDE DEF R, P, D, C
  <2>2. R \o P \in Seq(Claimed) /\ ToSet(R \o P) = ToSet(R) \union ToSet(P)
    BY <1>7, InBoth, ConcatProperties
  <2> DEFINE RP == R \o P
  <2>a. RP \in Seq(Claimed) /\ D \in Seq(Claimed)
    BY <1>7, <2>2
  <2> HIDE DEF RP
  <2>3. ToSet(RP \o D) = ToSet(RP) \union ToSet(D)
    BY <2>a, InBoth
  <2> QED BY <2>1, <2>2, <2>3 DEF RP
<1>9. asked(C) = asked(R) \union asked(P) \union asked(D)
  BY <1>8
<1>10. asked(R) = {<<r, FALSE>> : r \in ToSet(Roots(session))}
  <2> DEFINE roots == Roots(session)
             made(r) == Claim(r, NoPath, "root", FALSE)
  <2>1. R = [i \in DOMAIN roots |-> made(roots[i])]
    BY DEF RootClaims
  <2>2. \A r : <<made(r).host, made(r).readonly>> = <<r, FALSE>>
    BY DEF Claim
  <2> HIDE DEF R, roots, made
  <2>3. ToSet(R) = {made(r) : r \in ToSet(roots)}
    BY <2>1 DEF ToSet
  <2>a. asked(R) = {<<made(r).host, made(r).readonly>> : r \in ToSet(roots)}
    BY <2>3
  <2>4. asked(R) = {<<r, FALSE>> : r \in ToSet(roots)}
    BY <2>2, <2>a, Zenon
  <2> QED BY <2>4 DEF roots
<1>11. asked(P) = IF InRoot(Cwd, Roots(session)) THEN {} ELSE {<<Cwd, FALSE>>}
  <2> DEFINE c == Claim(Cwd, NoPath, "project", FALSE)
  <2>1. P = IF InRoot(Cwd, Roots(session)) THEN <<>> ELSE <<c>>
    BY DEF ProjectClaims
  <2>2. c.host = Cwd /\ c.readonly = FALSE
    BY DEF Claim
  <2> HIDE DEF P, c
  <2>3. ToSet(<<>>) = {} /\ ToSet(<<c>>) = {c}
    BY DEF ToSet
  <2>4. ToSet(P) = IF InRoot(Cwd, Roots(session)) THEN {} ELSE {c}
    BY <2>1, <2>3
  <2> QED BY <2>2, <2>4
<1>12. asked(D) = {<<Resolve(e.source), e.readonly>> : e \in ToSet(session.manifest.paths)}
  <2> DEFINE paths == session.manifest.paths
             made(e) == Claim(Resolve(e.source), e.target,
                              IF e.local THEN "local" ELSE "explicit", e.readonly)
  <2>1. D = [i \in DOMAIN paths |-> made(paths[i])]
    BY DEF PathClaims
  <2>2. \A e : made(e).host = Resolve(e.source) /\ made(e).readonly = e.readonly
    BY DEF Claim
  <2> HIDE DEF D, paths, made
  <2>3. ToSet(D) = {made(e) : e \in ToSet(paths)}
    BY <2>1 DEF ToSet
  <2>4. asked(D) = {<<Resolve(e.source), e.readonly>> : e \in ToSet(paths)}
    BY <2>2, <2>3
  <2> QED BY <2>4 DEF paths
<1> HIDE DEF asked
<1> QED BY <1>6, <1>9, <1>10, <1>11, <1>12 DEF OfItsOwn


(* One more entry in either file, with the same roots, is one more path.     *)
LEMMA OneMore ==
  ASSUME NEW session, NEW later, SessionTyped(session), SessionTyped(later), later.manifest.ok,
         Roots(later) = Roots(session),
         NEW a \in Seq(Entries), NEW b \in Seq(Entries),
         NEW more \in Seq(Entries), NEW old \in Seq(Entries), NEW entry,
         ToSet(more) = ToSet(old) \union {entry},
         NEW arg, entry.readonly = arg.readonly, Resolve(entry.source) = arg.path,
         session.manifest.paths = Marked(a, FALSE) \o Marked(b, TRUE),
         \/ /\ arg.local = FALSE /\ old = a
            /\ later.manifest.paths = Marked(more, FALSE) \o Marked(b, TRUE)
         \/ /\ arg.local = TRUE /\ old = b
            /\ later.manifest.paths = Marked(a, FALSE) \o Marked(more, TRUE)
  PROVE  OnlyAdds(session, later, arg)
<1> DEFINE pair(e) == <<Resolve(e.source), e.readonly>>
           pairs(s) == {pair(e) : e \in s}
           full(e, m) == <<Resolve(e.source), e.readonly, m>>
           fulls(s, m) == {full(e, m) : e \in s}
           of(x) == x.manifest.paths
<1>1. pair(entry) = <<arg.path, arg.readonly>>
  OBVIOUS
<1>2. \A m : full(entry, m) = <<arg.path, arg.readonly, m>>
  OBVIOUS
<1>3. /\ Listed(of(session)) = fulls(ToSet(a), FALSE) \union fulls(ToSet(b), TRUE)
      /\ pairs(ToSet(of(session))) = pairs(ToSet(a) \union ToSet(b))
  BY ListedInBoth
<1>4. /\ pairs(ToSet(more)) = pairs(ToSet(old)) \union {<<arg.path, arg.readonly>>}
      /\ \A m : fulls(ToSet(more), m) = fulls(ToSet(old), m) \union {<<arg.path, arg.readonly, m>>}
  <2> HIDE DEF pair, full
  <2> QED BY <1>1, <1>2
<1>5. \A s, t : pairs(s \union t) = pairs(s) \union pairs(t)
  OBVIOUS
<1>6. /\ Listed(of(later)) = Listed(of(session)) \union {<<arg.path, arg.readonly, arg.local>>}
      /\ pairs(ToSet(of(later))) = pairs(ToSet(of(session))) \union {<<arg.path, arg.readonly>>}
  <2>1. CASE arg.local = FALSE /\ old = a /\ of(later) = Marked(more, FALSE) \o Marked(b, TRUE)
    <3>1. /\ Listed(of(later)) = fulls(ToSet(more), FALSE) \union fulls(ToSet(b), TRUE)
          /\ pairs(ToSet(of(later))) = pairs(ToSet(more) \union ToSet(b))
      BY <2>1, ListedInBoth
    <3> HIDE DEF pairs, fulls, of
    <3>2. Listed(of(later)) = Listed(of(session)) \union {<<arg.path, arg.readonly, FALSE>>}
      BY <1>3, <1>4, <2>1, <3>1
    <3>3. pairs(ToSet(of(later))) = pairs(ToSet(of(session))) \union {<<arg.path, arg.readonly>>}
      <4>1. pairs(ToSet(of(later))) = pairs(ToSet(more)) \union pairs(ToSet(b))
        BY <1>5, <3>1
      <4>2. pairs(ToSet(of(session))) = pairs(ToSet(old)) \union pairs(ToSet(b))
        BY <1>3, <1>5, <2>1
      <4> QED BY <1>4, <4>1, <4>2
    <3> QED BY <2>1, <3>2, <3>3
  <2>2. CASE arg.local = TRUE /\ old = b /\ of(later) = Marked(a, FALSE) \o Marked(more, TRUE)
    <3>1. /\ Listed(of(later)) = fulls(ToSet(a), FALSE) \union fulls(ToSet(more), TRUE)
          /\ pairs(ToSet(of(later))) = pairs(ToSet(a) \union ToSet(more))
      BY <2>2, ListedInBoth
    <3> HIDE DEF pairs, fulls, of
    <3>2. Listed(of(later)) = Listed(of(session)) \union {<<arg.path, arg.readonly, TRUE>>}
      BY <1>3, <1>4, <2>2, <3>1
    <3>3. pairs(ToSet(of(later))) = pairs(ToSet(of(session))) \union {<<arg.path, arg.readonly>>}
      <4>1. pairs(ToSet(of(later))) = pairs(ToSet(a)) \union pairs(ToSet(more))
        BY <1>5, <3>1
      <4>2. pairs(ToSet(of(session))) = pairs(ToSet(a)) \union pairs(ToSet(old))
        BY <1>3, <1>5, <2>2
      <4> QED BY <1>4, <4>1, <4>2
    <3> QED BY <2>2, <3>2, <3>3
  <2> QED BY <2>1, <2>2
<1>7. /\ Exposed(session) = OfItsOwn(session) \union pairs(ToSet(of(session)))
      /\ Exposed(later) = OfItsOwn(later) \union pairs(ToSet(of(later)))
  BY ExposedMade
<1>8. OfItsOwn(later) = OfItsOwn(session)
  BY DEF OfItsOwn
<1> HIDE DEF pairs, fulls, pair, full
<1>9. Exposed(later) = Exposed(session) \union {<<arg.path, arg.readonly>>}
  BY <1>6, <1>7, <1>8
<1> QED BY <1>6, <1>9 DEF OnlyAdds

(* What add makes of the two files when nothing else touches them.           *)
LEMMA AddedAlone ==
  ASSUME NEW shared, NEW local, TextOK(shared), TextOK(local), Load(shared, local).ok,
         NEW user, NEW arg, Dir(arg.path) \in Raws, arg.readonly \in BOOLEAN, arg.local \in BOOLEAN,
         NEW entry, entry = [source |-> Dir(arg.path), target |-> NoPath, readonly |-> arg.readonly],
         NEW after, after = IF arg.local THEN Load(shared, Holding(WithPath(local.table, entry)))
                            ELSE Load(Holding(WithPath(shared.table, entry)), local)
  PROVE  OnlyAdds([manifest |-> Load(shared, local), profile |-> "", user |-> user],
                  [manifest |-> after, profile |-> "", user |-> user], arg)
<1> DEFINE before == Load(shared, local)
           session == [manifest |-> before, profile |-> "", user |-> user]
           later == [manifest |-> after, profile |-> "", user |-> user]
           a == Value(shared.table, Paths)
           b == Value(local.table, Paths)
           text == IF arg.local THEN local.table ELSE shared.table
           old == Value(text, Paths)
<1>1. /\ entry \in Entries /\ entry.readonly = arg.readonly /\ Resolve(entry.source) = arg.path
  <2>1. NoPath \in Seq(STRING)
    BY DEF NoPath
  <2>2. Resolve(Dir(arg.path)) = arg.path
    BY DEF Resolve, Dir
  <2> QED BY <2>1, <2>2 DEF Entries
<1>2. /\ Typed(shared.table) /\ Typed(local.table) /\ Typed(text)
      /\ a \in Seq(Entries) /\ b \in Seq(Entries) /\ old \in Seq(Entries)
  <2>1. Typed(shared.table) /\ Typed(local.table)
    BY DEF TextOK
  <2>2. \A table : Typed(table) => Value(table, Paths) \in Seq(Entries)
    BY DefaultPaths DEF Value, Get, Typed
  <2> QED BY <2>1, <2>2
<1>3. PICK more \in Seq(Entries) : /\ WithPath(text, entry) = With(text, Paths, more)
                                   /\ ToSet(more) = ToSet(old) \union {entry}
  <2> HIDE DEF text
  <2> QED BY <1>1, <1>2, EntriesAdded
<1>4. Typed(With(text, Paths, more))
  <2> HIDE DEF text
  <2> QED BY <1>1, <1>2, <1>3, PathAdded
<1>5. before.paths = Marked(a, FALSE) \o Marked(b, TRUE)
  <2>1. before = [ok    |-> TRUE,
                  table |-> Overlay(shared.table, Without(local.table, Paths)),
                  paths |-> Marked(a, FALSE) \o Marked(b, TRUE)]
    BY LoadGives
  <2> HIDE DEF before, a, b
  <2> QED BY <2>1
<1>6. SessionTyped(session)
  <2> HIDE DEF SessionTyped
  <2> QED BY <1>2, LoadTyped
<1> DEFINE file == Holding(With(text, Paths, more))
           roots == <<"workspace", "roots">>
<1>7. /\ SessionTyped(later) /\ after.ok
      /\ Value(after.table, roots) = Value(before.table, roots)
      /\ \/ /\ arg.local = FALSE /\ old = a
            /\ after.paths = Marked(more, FALSE) \o Marked(b, TRUE)
         \/ /\ arg.local = TRUE /\ old = b
            /\ after.paths = Marked(a, FALSE) \o Marked(more, TRUE)
  <2>1. file.table = With(text, Paths, more)
    BY DEF Holding
  <2>2. CASE ~arg.local
    <3>1. text = shared.table /\ old = a
      BY <2>2
    <3>2. after = Load(file, local)
      BY <1>3, <2>2
    <3>3. after = [ok    |-> TRUE,
                   table |-> With(before.table, Paths, more),
                   paths |-> Marked(more, FALSE) \o Marked(b, TRUE)]
      <4>1. after = Load(Holding(With(shared.table, Paths, more)), local)
        BY <3>1, <3>2
      <4> HIDE DEF a, text, old, file
      <4> QED BY <4>1, SharedReloads
    <3> HIDE DEF file, before, a, b, text, old
    <3>4. after.ok /\ after.paths = Marked(more, FALSE) \o Marked(b, TRUE)
          /\ after.table = With(before.table, Paths, more)
      <4> DEFINE paths == Marked(more, FALSE) \o Marked(b, TRUE)
                 table == With(before.table, Paths, more)
      <4>1. after = [ok |-> TRUE, table |-> table, paths |-> paths]
        BY <3>3
      <4> HIDE DEF paths, table
      <4>2. after.ok /\ after.paths = paths /\ after.table = table
        BY <4>1
      <4> QED BY <4>2 DEF paths, table
    <3>5. SessionTyped([manifest |-> Load(file, local), profile |-> "", user |-> user])
      <4> HIDE DEF SessionTyped
      <4> QED BY <1>2, <1>4, <2>1, <3>2, <3>4, LoadTyped
    <3>6. Value(after.table, roots) = Value(before.table, roots)
      <4>1. PathsOver(With(before.table, Paths, more), before.table, more) /\ roots # Paths
        BY PathsSet DEF Paths
      <4> HIDE DEF roots
      <4> QED BY <3>4, <4>1 DEF PathsOver
    <3> QED BY <2>2, <3>1, <3>2, <3>4, <3>5, <3>6
  <2>3. CASE arg.local
    <3>1. text = local.table /\ old = b
      BY <2>3
    <3>2. after = Load(shared, file)
      BY <1>3, <2>3
    <3>3. after = [ok    |-> TRUE,
                   table |-> before.table,
                   paths |-> Marked(a, FALSE) \o Marked(more, TRUE)]
      <4>1. after = Load(shared, Holding(With(local.table, Paths, more)))
        BY <3>1, <3>2
      <4> HIDE DEF b, text, old, file
      <4> QED BY <4>1, LocalReloads
    <3> HIDE DEF file, before, a, b, text, old
    <3>4. after.ok /\ after.paths = Marked(a, FALSE) \o Marked(more, TRUE)
          /\ after.table = before.table
      <4> DEFINE paths == Marked(a, FALSE) \o Marked(more, TRUE)
                 table == before.table
      <4>1. after = [ok |-> TRUE, table |-> table, paths |-> paths]
        BY <3>3
      <4> HIDE DEF paths, table
      <4>2. after.ok /\ after.paths = paths /\ after.table = table
        BY <4>1
      <4> QED BY <4>2 DEF paths, table
    <3>5. SessionTyped([manifest |-> Load(shared, file), profile |-> "", user |-> user])
      <4> HIDE DEF SessionTyped
      <4> QED BY <1>2, <1>4, <2>1, <3>2, <3>4, LoadTyped
    <3> QED BY <2>3, <3>1, <3>2, <3>4, <3>5
  <2> QED BY <2>2, <2>3
<1>8. Roots(later) = Roots(session)
  <2>1. Key(later, roots) = Key(session, roots)
    BY <1>7 DEF Key
  <2> QED BY <2>1 DEF Roots
<1> HIDE DEF before, a, b, old, text, file
<1>9. session.manifest.paths = Marked(a, FALSE) \o Marked(b, TRUE) /\ later.manifest = after
  BY <1>5
<1> HIDE DEF session, later
<1>10. OnlyAdds(session, later, arg)
  BY <1>1, <1>2, <1>3, <1>6, <1>7, <1>8, <1>9, OneMore
<1> QED BY <1>10 DEF session, later, before

(* An add nobody interfered with has read what the files hold, and what it   *)
(* has yet to write gives what it read and the path.                         *)
SessionOf(fs) == [manifest |-> Load(fs.shared, fs.local), profile |-> "", user |-> fs.user.table]
FreshAt(place, l) ==
  l.command = "add" /\ ~l.stale =>
    /\ place = "load_local" => l.base = files.shared
    /\ place = "record_path" => l.session = SessionOf(files)
    /\ place \in {"save", "write"} =>
         OnlyAdds(l.session, SessionOf([files EXCEPT ![l.file] = Holding(l.out)]), l.arg)
Fresh == \A p \in Procs : FreshAt(pc[p], my[p])
TextsOK == \A f \in {"shared", "local"} : files[f].state = "absent" => files[f].table = EmptyTable

LEMMA TextsInit ==
  ASSUME Init
  PROVE  TextsOK
<1>1. PICK begin \in Schedules :
        files \in [shared : begin.shared, local : begin.local, user : {Holding(u) : u \in UserTables}]
  BY DEF Init
<1>2. begin.shared \union begin.local
        \subseteq {Absent, Unparsable} \union {Holding(t) : t \in SharedTables \union LocalTables}
  BY SchedulesAssumption
<1>3. \A text \in {Absent, Unparsable} \union {Holding(t) : t \in SharedTables \union LocalTables} :
        text.state = "absent" => text.table = EmptyTable
  BY DEF Absent, Unparsable, Holding
<1> QED BY <1>1, <1>2, <1>3 DEF TextsOK

LEMMA TextsStep ==
  ASSUME FilesOK, TextsOK, [Next]_vars
  PROVE  TextsOK'
<1>1. ASSUME NEW f, NEW text, files' = [files EXCEPT ![f] = text], text.state = "table"
      PROVE  TextsOK'
  <2>1. \A g \in {"shared", "local"} : files'[g] = files[g] \/ files'[g] = text
    BY <1>1 DEF FilesOK
  <2> QED BY <1>1, <2>1 DEF TextsOK
<1>2. CASE files' = files
  BY <1>2 DEF TextsOK
<1>3. ASSUME NEW p \in Procs, CommandStep(p)
      PROVE  TextsOK'
  <2>1. CASE Truncate(p) \/ Write(p)
    <3>1. \E f, text : files' = [files EXCEPT ![f] = text] /\ text.state = "table"
      BY <2>1 DEF Truncate, Write, Truncated, Holding
    <3> QED BY <1>1, <3>1
  <2> QED BY <1>2, <1>3, <2>1, Changing DEF Changes
<1>4. CASE EditFile
  <2>1. \E f, text : files' = [files EXCEPT ![f] = text] /\ text.state = "table"
    <3>1. PICK f \in {"shared", "local"} : \E t : files' = [files EXCEPT ![f] = Holding(t)]
      BY <1>4 DEF EditFile
    <3>2. \A t : Holding(t).state = "table"
      BY DEF Holding
    <3> QED BY <3>1, <3>2
  <2> QED BY <1>1, <2>1
<1>5. CASE RemoveDirectory \/ EditSkills \/ (\E p \in Procs : Kill(p)) \/ UNCHANGED vars
  BY <1>2, <1>5 DEF RemoveDirectory, EditSkills, Kill, vars
<1> QED BY <1>3, <1>4, <1>5 DEF Next

LEMMA TextsTyped ==
  ASSUME FilesOK, TablesOK, TextsOK
  PROVE  TextOK(files.shared) /\ TextOK(files.local)
BY DEF FilesOK, TablesOK, TextsOK, TextOK

(* What a step of the terminal that adds has in hand.                        *)
LEMMA FreshStepOf ==
  ASSUME Control, FilesOK, TablesOK, TextsOK, Adds, Fresh, NEW p \in Procs, CommandStep(p)
  PROVE  FreshAt(pc[p], my[p])'
<1>1. SUFFICES ASSUME my'[p].command = "add", ~my'[p].stale,
                      pc'[p] \in {"load_local", "record_path", "save", "write"}
               PROVE  FreshAt(pc[p], my[p])'
  BY DEF FreshAt
<1>2. DOMAIN my[p] = Fields /\ Framed /\ Arrives(p)
  BY Arriving DEF Control, Shape
<1>3. CASE pc'[p] = "load_local"
  <2>1. LoadShared(p)
    BY <1>2, <1>3 DEF Arrives
  <2>2. files' = files /\ my'[p] = [my[p] EXCEPT !.base = files.shared]
    BY <1>2, <1>3, <2>1, Going DEF LoadShared, Moves
  <2>3. my'[p].base = files'.shared
    BY <1>2, <2>2 DEF Fields
  <2> QED BY <1>3, <2>3 DEF FreshAt
<1>4. CASE pc'[p] = "record_path"
  <2> DEFINE manifest == Load(my[p].base, files.local)
             session == [manifest |-> manifest, profile |-> "", user |-> files.user.table]
  <2>1. LoadLocal(p)
    BY <1>2, <1>4 DEF Arrives
  <2>2. ~Go(p, "idle", Idle)
    BY <1>2, <1>4, Going DEF Moves
  <2>3. /\ files' = files /\ pc[p] = "load_local"
        /\ Go(p, AfterLoad[my[p].command], [my[p] EXCEPT !.base = Absent, !.session = session])
    BY <2>1, <2>2 DEF LoadLocal
  <2> HIDE DEF session
  <2>4. my'[p] = [my[p] EXCEPT !.base = Absent, !.session = session]
    BY <1>2, <1>4, <2>3, Going DEF Moves
  <2>5. my'[p].session = session /\ my[p].command = "add" /\ ~my[p].stale
    BY <1>1, <1>2, <2>4 DEF Fields
  <2>6. my[p].base = files.shared
    BY <2>3, <2>5 DEF Fresh, FreshAt
  <2>7. session = SessionOf(files')
    BY <2>3, <2>6 DEF session, SessionOf
  <2> QED BY <1>4, <2>5, <2>7 DEF FreshAt
<1>5. CASE pc'[p] = "save"
  <2> DEFINE arg == my[p].arg
             added == AddOutcome(my[p].session, arg.path, arg.readonly, arg.local)
             file == FileOf(added.local)
             entry == [source |-> Dir(arg.path), target |-> NoPath, readonly |-> arg.readonly]
             out == WithPath(files[file].table, added.entry)
  <2>1. RecordPath(p)
    <3>1. StartInit(p) => my'[p].command = "init"
      <4> DEFINE saved == NamedAfter(Cwd)
      <4> HIDE DEF saved
      <4>1. StartInit(p) => my'[p] = [Idle EXCEPT !.command = "init", !.file = "shared",
                                                  !.out = saved, !.next = "idle"]
        BY <1>2, <1>5, Going DEF StartInit, Moves, saved
      <4> QED BY <4>1, IdleFields DEF Fields
    <3>2. FixUser(p) \/ FixFiles(p) => my[p].command = "fix"
      BY DEF FixUser, FixFiles, Control, Shape, CommandsAt
    <3>3. FixUser(p) \/ FixFiles(p) => my'[p].command = my[p].command
      <4>1. \A l : Go(p, "save", l) => my'[p] = l
        BY <1>2, Going DEF Moves
      <4>2. ~Go(p, "idle", Idle) /\ ~Go(p, "fix_files", my[p])
            /\ ~Go(p, "load_shared", [my[p] EXCEPT !.retired = <<>>])
        BY <1>2, <1>5, Going DEF Moves
      <4>3. FixUser(p) =>
              \E o : Go(p, "save", [my[p] EXCEPT !.file = "user", !.next = "fix_files", !.out = o])
        BY <4>2 DEF FixUser
      <4>4. FixFiles(p) =>
              \E f, t, o : Go(p, "save", [my[p] EXCEPT !.file = f, !.todo = t,
                                                       !.next = "fix_files", !.out = o])
        BY <4>2 DEF FixFiles
      <4>5. FixUser(p) \/ FixFiles(p) =>
              \/ \E o : my'[p] = [my[p] EXCEPT !.file = "user", !.next = "fix_files", !.out = o]
              \/ \E f, t, o : my'[p] = [my[p] EXCEPT !.file = f, !.todo = t,
                                                     !.next = "fix_files", !.out = o]
        BY <4>1, <4>3, <4>4
      <4> QED BY <1>2, <4>5 DEF Fields
    <3> QED BY <1>1, <1>2, <1>5, <3>1, <3>2, <3>3 DEF Arrives
  <2>2. ~Go(p, "idle", Idle)
    BY <1>2, <1>5, Going DEF Moves
  <2>3. /\ pc[p] = "record_path" /\ files' = files
        /\ added.outcome # "AlreadyMounted"
        /\ Go(p, "save", [my[p] EXCEPT !.file = file, !.next = "idle", !.out = out])
    BY <2>1, <2>2 DEF RecordPath
  <2>4. added.local = arg.local /\ added.entry = entry
    BY <2>3 DEF AddOutcome
  <2> HIDE DEF out, file
  <2>5. my'[p] = [my[p] EXCEPT !.file = file, !.next = "idle", !.out = out]
    BY <1>2, <2>3, Going DEF Moves
  <2>6. /\ my'[p].file = file /\ my'[p].out = out /\ my'[p].arg = arg
        /\ my'[p].session = my[p].session /\ my[p].command = "add" /\ ~my[p].stale
    BY <1>1, <1>2, <2>5 DEF Fields
  <2>7. my[p].session = SessionOf(files) /\ my[p].session.manifest.ok
    BY <2>3, <2>6 DEF Fresh, FreshAt, Control, Shape, Loaded
  <2>8. Dir(arg.path) \in Raws /\ arg.readonly \in BOOLEAN /\ arg.local \in BOOLEAN
    BY <2>6 DEF Adds, AddAt
  <2> DEFINE after == IF arg.local THEN Load(files.shared, Holding(WithPath(files.local.table, entry)))
                      ELSE Load(Holding(WithPath(files.shared.table, entry)), files.local)
             next == [files EXCEPT ![file] = Holding(out)]
             user == files.user.table
  <2>9. OnlyAdds([manifest |-> Load(files.shared, files.local), profile |-> "", user |-> user],
                 [manifest |-> after, profile |-> "", user |-> user], arg)
    <3>1. Load(files.shared, files.local).ok
      <4>1. SessionOf(files).manifest = Load(files.shared, files.local)
        BY DEF SessionOf
      <4> QED BY <2>7, <4>1
    <3> HIDE DEF arg, entry, after, user
    <3>2. entry = [source |-> Dir(arg.path), target |-> NoPath, readonly |-> arg.readonly]
          /\ after = IF arg.local THEN Load(files.shared, Holding(WithPath(files.local.table, entry)))
                     ELSE Load(Holding(WithPath(files.shared.table, entry)), files.local)
      BY DEF entry, after
    <3> QED BY <2>8, <3>1, <3>2, TextsTyped, AddedAlone
  <2>10. /\ next.shared = IF arg.local THEN files.shared ELSE Holding(WithPath(files.shared.table, entry))
         /\ next.local = IF arg.local THEN Holding(WithPath(files.local.table, entry)) ELSE files.local
         /\ next.user = files.user
    <3>1. file = IF arg.local THEN "local" ELSE "shared"
      BY <2>4 DEF file, FileOf
    <3>2. out = WithPath(files[file].table, entry)
      BY <2>4 DEF out
    <3> HIDE DEF entry
    <3> QED BY <3>1, <3>2 DEF FilesOK
  <2> HIDE DEF next, entry, arg
  <2>11. SessionOf(next) = [manifest |-> after, profile |-> "", user |-> user]
    BY <2>10 DEF SessionOf
  <2>12. OnlyAdds(my[p].session, SessionOf(next), arg)
    <3> HIDE DEF after
    <3> QED BY <2>7, <2>9, <2>11 DEF SessionOf
  <2>13. next = [files' EXCEPT ![my'[p].file] = Holding(my'[p].out)]
    BY <2>3, <2>6 DEF next
  <2>14. OnlyAdds(my'[p].session, SessionOf([files' EXCEPT ![my'[p].file] = Holding(my'[p].out)]), my'[p].arg)
    BY <2>6, <2>12, <2>13 DEF arg
  <2> QED BY <1>5, <2>14 DEF FreshAt
<1>6. CASE pc'[p] = "write"
  <2>1. Truncate(p)
    BY <1>2, <1>6 DEF Arrives
  <2>2. /\ my'[p] = my[p] /\ pc[p] = "save"
        /\ files' = [files EXCEPT ![my[p].file] = Truncated]
    BY <1>2, <1>6, <2>1, Disturbs DEF Truncate, Moves
  <2>3. OnlyAdds(my[p].session, SessionOf([files EXCEPT ![my[p].file] = Holding(my[p].out)]), my[p].arg)
    BY <1>1, <2>2 DEF Fresh, FreshAt
  <2>4. [files' EXCEPT ![my[p].file] = Holding(my[p].out)] = [files EXCEPT ![my[p].file] = Holding(my[p].out)]
    BY <2>2
  <2> QED BY <1>6, <2>2, <2>3, <2>4 DEF FreshAt
<1> QED BY <1>1, <1>3, <1>4, <1>5, <1>6

LEMMA FreshStep ==
  ASSUME Control, FilesOK, TablesOK, TextsOK, Adds, Fresh, [Next]_vars
  PROVE  Fresh'
<1>1. ASSUME NEW q \in Procs, Untouched(q), files' = files
      PROVE  FreshAt(pc[q], my[q])'
  BY <1>1 DEF Untouched, Fresh, FreshAt
<1>2. ASSUME NEW q \in Procs, Outdated(q)
      PROVE  FreshAt(pc[q], my[q])'
  <2>1. pc'[q] = pc[q] /\ my'[q].stale = (pc[q] # "idle")
    BY <1>2 DEF Outdated, Control, Shape, Fields
  <2> QED BY <2>1 DEF FreshAt
<1>3. ASSUME NEW p \in Procs, Kill(p)
      PROVE  FreshAt(pc[p], my[p])'
  BY <1>3, Disturbs DEF Kill, Control, Moves, FreshAt
<1>4. ASSUME NEW p \in Procs, CommandStep(p) \/ Kill(p)
      PROVE  Fresh'
  <2>1. FreshAt(pc[p], my[p])'
    BY <1>3, <1>4, FreshStepOf
  <2>2. \A q \in Procs \ {p} : (Untouched(q) /\ files' = files) \/ Outdated(q)
    BY <1>4, MovingStep DEF Control, Moving, Bystander, Calm
  <2> QED BY <1>1, <1>2, <2>1, <2>2 DEF Fresh
<1>5. CASE EditFile \/ RemoveDirectory \/ EditSkills
  BY <1>2, <1>5, EditsDisturb DEF Fresh
<1>6. CASE UNCHANGED vars
  BY <1>1, <1>6 DEF vars, Untouched, Fresh
<1> QED BY <1>4, <1>5, <1>6 DEF Next

LEMMA OnlyAMount ==
  ASSUME Control, FilesOK, Adds, Fresh, NEW p \in Procs,
         pc[p] = "write", my[p].command = "add", Write(p), ~my[p].stale
  PROVE  OnlyAdds(my[p].session, Now', my[p].arg)
<1>1. files' = [files EXCEPT ![my[p].file] = Holding(my[p].out)]
  BY DEF Write
<1>2. OnlyAdds(my[p].session, SessionOf(files'), my[p].arg)
  BY <1>1 DEF Fresh, FreshAt
<1>3. Now' = SessionOf(files')
  BY DEF Now, SessionOf
<1> QED BY <1>2, <1>3

(* An add nothing else ran into changes what the next container mounts by    *)
(* the path it was given and by nothing else: the files still make a         *)
(* manifest, which lists that path beside those it listed, and a session of  *)
(* it mounts what it mounted and the path (AddsOnlyAMount).                  *)
THEOREM AddsAMount == Spec => AddsOnlyAMount
<1> DEFINE Inv == /\ Control /\ FilesOK /\ UserSaves /\ Adds /\ TextsOK /\ Fresh
                  /\ TableSaves /\ TablesOK /\ FilesAsked /\ GivenOK
           Adding(p) ==
             pc[p] = "write" /\ my[p].command = "add" /\ Write(p) /\ ~my[p].stale =>
               LET seen(session) == {<<Resolve(e.source), e.readonly, e.local>> :
                                       e \in ToSet(session.manifest.paths)}
                   mounts(session) == {<<e.host, e.readonly>> : e \in ToSet(WorkspaceOf(session))}
                   arg == my[p].arg
               IN /\ Now'.manifest.ok
                  /\ seen(Now') = seen(my[p].session) \union {<<arg.path, arg.readonly, arg.local>>}
                  /\ mounts(Now') = mounts(my[p].session) \union {<<arg.path, arg.readonly>>}
<1>1. Init => Inv
  <2>1. ASSUME Init
        PROVE  Fresh
    BY <2>1 DEF Init, Fresh, FreshAt
  <2> QED BY <2>1, ControlInit, FilesInit, AddsInit, TextsInit
<1>2. Inv /\ [Next]_vars => Inv'
  BY ControlNext, FilesStep, UserSavesStep, AddsStep, TablesStep, TextsStep, FreshStep
<1>3. Inv => \A p \in Procs : Adding(p)
  <2>1. ASSUME Inv, NEW p \in Procs
        PROVE  Adding(p)
    <3>1. pc[p] = "write" /\ my[p].command = "add" /\ Write(p) /\ ~my[p].stale
            => OnlyAdds(my[p].session, Now', my[p].arg)
      BY <2>1, OnlyAMount
    <3> QED BY <3>1 DEF OnlyAdds, Listed, Exposed
  <2> QED BY <2>1
<1> QED BY <1>1, <1>2, <1>3, PTL DEF Spec, AddsOnlyAMount

=============================================================================
