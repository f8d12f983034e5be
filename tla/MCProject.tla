------------------------------ MODULE MCProject ------------------------------
(***************************************************************************)
(* A project in ~/ws/app, with libraries of one name in two places, a link *)
(* to ~/.ssh, and files that set what the two manifests can disagree in.   *)
(***************************************************************************)
EXTENDS Project

MCHome == <<"u">>
MCCwd == <<"u", "ws", "app">>
MCConfigDir == <<>>
MCLinks == (<<"u", "keys">> :> <<"u", ".ssh">>) @@ (<<"u", "ws", "app", "out">> :> <<"x", "lib">>)
Lib == InHome(<<"lib">>)
MCSourceOrder == <<Dir(<<"u", ".ssh">>), Dir(<<"u", "lib">>), Dir(<<"x", "lib">>), Lib,
                   InHome(<<"ws">>)>>
MCMemoryUnit == [G |-> 64, M |-> 16, K |-> 4]
MCTree == {<<"u">>, <<"u", ".ssh">>, <<"u", "lib">>, <<"u", "ws">>, <<"u", "ws", "app">>,
           <<"x", "lib">>}

Entry(source, target, readonly) == [source |-> source, target |-> target, readonly |-> readonly]
Rooted == <<"workspace", "roots">>
Retiring == <<"claude", "keychain">>
Sock(key) == Sockets \o <<"s", key>>
Serving(readonly) ==   \* a library, a port, and a socket of the host
  (Paths :> <<Entry(Lib, <<>>, readonly)>>) @@ (<<"host", "ports">> :> <<1>>) @@ (Sock("source") :> Lib)
MCSharedTables ==
  {Serving(TRUE), Serving(FALSE),
   \* a root over the project, a command, an image of its own
   (Rooted :> <<InHome(<<"ws">>)>>) @@ (Commands \o <<"c", "argv">> :> "run")
     @@ (Commands \o <<"c", "arguments">> :> TRUE) @@ (<<"image", "packages">> :> <<"jq">>)
     @@ (<<"container", "memory">> :> [count |-> 3, unit |-> "K"]),
   \* a target that is the project's name, and a retired key
   (Paths :> <<Entry(Lib, Mounted("app"), FALSE)>>) @@ (<<"claude", "seed_from_keychain">> :> "true")
     @@ (<<"container", "env">> :> <<"V">>) @@ (<<"project", "image">> :> "base")}
MCLocalTables ==
  {(Paths :> <<Entry(Dir(<<"x", "lib">>), <<>>, FALSE)>>),
   (Retiring :> "false"),
   (Sock("mode") :> <<6, 0, 0>>) @@ (Sock("target") :> <<"workspace", "app", "s">>)
     @@ (Commands \o <<"c", "argv">> :> "other") @@ (<<"host", "clipboard">> :> TRUE)
     @@ (Append(Environment, "V") :> "set")}
MCUserTables == {EmptyTable}
MCHosts == {[tree |-> MCTree, ready |-> TRUE, readable |-> TRUE, images |-> {<<"base">>},
             missing |-> {}, fileLogin |-> FALSE, keychainLogin |-> "yes", apiKey |-> TRUE,
             listening |-> {<<1>>}]}
MCRemovable == {<<"x", "lib">>}
MCAddArgs == {[raw |-> r, force |-> FALSE, local |-> l, readonly |-> FALSE] :
                r \in {InHome(<<"lib">>), InHome(<<"keys">>)}, l \in BOOLEAN}

\* What runs beside what: a container and the commands that change or compare
\* its files; two that save; a killed installation, and a killed fix, again.
May(commands, times) == [may |-> commands, times |-> times]
AnyShared == {Holding(t) : t \in SharedTables}
AnyLocal == {Absent} \union {Holding(t) : t \in LocalTables}
Setting(key) == {Holding(t) : t \in {t \in SharedTables \union LocalTables : key \in DOMAIN t}}
MCSchedules ==
  {[commands |-> "t1" :> May({"add", "doctor"}, 1) @@ "t2" :> May({"run"}, 2),
    shared |-> AnyShared, local |-> AnyLocal],
   [commands |-> "t1" :> May({"add", "fix", "init"}, 1) @@ "t2" :> May({"add"}, 1),
    shared |-> AnyShared, local |-> AnyLocal],
   [commands |-> "t1" :> May({"install"}, 2) @@ "t2" :> May({"install"}, 1),
    shared |-> Setting(Rooted), local |-> {Absent}],
   [commands |-> "t1" :> May({"fix"}, 2) @@ "t2" :> May({"doctor"}, 1),
    shared |-> AnyShared, local |-> {Absent} \union Setting(Retiring)]}

-----------------------------------------------------------------------------
(* What the manifest's operators promise of the tables in use, and of some *)
(* that a rule refuses.                                                    *)

MCSpelling == ("2nd" :> <<"digit", "letter">>) @@ (".s" :> <<".", "letter">>)
                @@ ("s-1" :> <<"letter", "-", "digit">>) @@ ("a b" :> <<"letter", "other">>)
                @@ ("" :> <<>>)
Tables == MCSharedTables \union MCLocalTables \union
          {(Sock("source") :> Lib) @@ (Sock("mode") :> mode) :
             mode \in {<<6, 6, 0>>, <<0, 6, 6, 0>>, <<0, 6, 0, 0>>}} \union
          {(<<"container", "memory">> :> [count |-> n, unit |-> u]) :
             n \in {1, 2, 4, 32}, u \in {"", "K", "M"}}

\* A manifest read back from its rendering has the same values, but for a
\* concurrency with nothing to run: deserializing undoes serializing.
ASSUME RenderKeeps ==
  \A t \in {t \in Tables : Parses(t)} :
    LET back == Rendered(t)
        bytes(table) == ParseMemory(Value(table, <<"container", "memory">>))
        kept(k) == CASE k = <<"container", "memory">> -> TRUE
                     [] k = Paths -> ToSet(Value(t, k)) = ToSet(Value(back, k))
                     [] k = <<"host", "concurrency">> -> HostIsEmpty(t) \/ Value(t, k) = Value(back, k)
                     [] OTHER -> Value(t, k) = Value(back, k)
    IN /\ Parses(back) /\ bytes(t) = bytes(back)
       /\ \A k \in DOMAIN Default : kept(k)
       /\ Names(t, Sockets) = Names(back, Sockets) /\ Names(t, Commands) = Names(back, Commands)
       /\ Rendered(back) = back

\* Two numbers never make one guest name of a base.
ASSUME NumbersTell ==
  \A base \in {"lib", "lib-2", "root"}, m, n \in 1 .. 30 : NthName(base, m) = NthName(base, n) => m = n

\* Names that are no variable or no socket; one target twice; a reserved
\* variable; a partial command; an unknown key.
ASSUME Refuses ==
  /\ \A n \in {"2nd", "a b", "", "s-1", "IS_SANDBOX"} : ~Parses(Append(Environment, n) :> "set")
  /\ \A n \in {".s", "a b", ""} : ~Parses(Sockets \o <<n, "source">> :> Lib)
  /\ Parses(Sockets \o <<"2nd", "source">> :> Lib) /\ Parses(Append(Environment, "V") :> "set")
  /\ ~Parses((Sock("source") :> Lib) @@ (Sockets \o <<"o", "source">> :> Lib)
                @@ (Sockets \o <<"o", "target">> :> HostSocket("s").target))
  /\ ~Parses(Append(Environment, "V") :> "NUL") /\ ~Parses(<<"container", "env">> :> <<"IS_SANDBOX">>)
  /\ ~Parses(Commands \o <<"c", "tty">> :> TRUE) /\ ~Parses(<<"claude", "keychain">> :> TRUE)

\* Every forward has a vsock port of its own, those of sockets lie above those
\* of ports, the guest's relay reads of an argument what was written into it
\* and makes each socket the way its readiness is judged; a port named twice is
\* not listened on: ports.rs, compostbin-ports.
Ported(ports) == (Sock("source") :> Lib) @@ (Sockets \o <<"o", "source">> :> Lib)
                   @@ (Sock("mode") :> <<6, 0, 0>>) @@ (<<"host", "ports">> :> ports)
ASSUME ForwardsAreDistinct ==
  \A ports \in {<<>>, <<1>>, <<1, 65535>>} :
    LET forwards == ForwardsOf(Ported(ports))
        relays == [i \in DOMAIN forwards |-> RelayOf(GuestArgument(forwards[i]))]
    IN /\ ListenAll(forwards, {}) = [ok |-> TRUE, bound |-> forwards]
       /\ ~ListenAll(forwards, {forwards[1].vsock}).ok
       /\ \A i \in DOMAIN forwards : relays[i].vsock = forwards[i].vsock
       /\ \A i, j \in DOMAIN forwards :
            forwards[i].upstream.kind = "port" /\ forwards[j].upstream.kind = "socket"
              => forwards[i].vsock < forwards[j].vsock
       /\ {relays[i].listen : i \in DOMAIN relays} =
            {<<"tcp", p>> : p \in ToSet(ports)} \union {<<"unix", t>> : t \in SocketTargets(Ported(ports))}
       /\ SocketsReady(Ported(ports), ToSet(relays))
       /\ Len(Process(Ported(ports))) = Len(forwards) + 1
ASSUME PortsMayRepeat == Parses(Ported(<<1, 1>>)) /\ ~ListenAll(ForwardsOf(Ported(<<1, 1>>)), {}).ok

\* No request runs anything but a declared argv with the arguments asked for
\* after it, and none of those matches a denied flag; what is left out of
\* `deny' may be given: resolve and is_denied over short texts.
Texts == BoundedSeq({"-", "=", "c"}, 3)
Command(arguments, deny) == [argv |-> <<"run">>, arguments |-> arguments, deny |-> <<deny>>, tty |-> FALSE]
Spells(flag, argument) ==   \* what deny is documented to refuse
  \/ argument = flag
  \/ Len(argument) > Len(flag) /\ SubSeq(argument, 1, Len(flag) + 1) = Append(flag, "=")
  \/ flag \in {<<"-", c>> : c \in {"=", "c"}} /\ IsPrefix(flag, argument)
ASSUME DenyRefuses ==
  \A deny \in Texts, argument \in Texts :
    LET asked == ResolveRequest("c" :> Command(TRUE, deny), "c", <<argument>>)
        parsed == ParseRequest("c", <<argument>>)
    IN /\ parsed.ok /\ parsed.arguments = <<argument>>
       /\ asked = IF Spells(deny, argument) THEN Refused("DeniedArgument", argument)
                  ELSE Resolved(<<"run", argument>>, FALSE)
       /\ ResolveRequest("c" :> Command(FALSE, deny), "c", <<argument>>).refusal = "ArgumentsNotAllowed"
       /\ ResolveRequest("c" :> Command(FALSE, deny), "c", <<>>) = Resolved(<<"run">>, FALSE)
       /\ ResolveRequest("c" :> Command(TRUE, deny), "d", <<argument>>).refusal = "UnknownCommand"
\* The one text that changes on its way, and the clipboard's two commands.
ASSUME Altered == ParseRequest("c", <<<<"c", "CR">>>>).arguments = <<<<"c">>>>
ASSUME ClipboardServed ==
  LET on == <<"host", "clipboard">> :> TRUE
      own == Commands \o <<"clipboard", "argv">> :> <<"tee">>
  IN /\ ServedCommands(on) = "clipboard" :> Clipboard /\ DOMAIN ServedCommands(own) = {"clipboard"}
     /\ ServedCommands(on @@ own)["clipboard"].argv = <<"tee">>

-----------------------------------------------------------------------------
(* The clipboard's tools in the guest.                                     *)
Tool == INSTANCE Clipboard WITH
  Dashed <- {"-o", "-i", "-p", "-c", "-t", "-selection", "--secondary"}
Given == {<<"-o">>, <<"-i">>, <<"-p">>, <<"-c">>, <<"-t", "x">>, <<"--secondary">>, <<"-selection", "primary">>,
          <<"-selection", "clipboard">>, <<"f">>, <<"g">>}

\* What complete options ask for, wherever they stand.
Asks(name, options, onTerminal) ==
  LET stops == {i \in DOMAIN options : <<name, options[i][1]>> \in Tool!Pastes \union Tool!Clears}
      first == CHOOSE i \in stops : \A j \in stops : i <= j
      has(set) == \E i \in DOMAIN options : <<name, options[i][1]>> \in set
      primary == \/ has(Tool!Primaries)
                 \/ name = "xclip" /\ <<"-selection", "primary">> \in ToSet(options)
      others == FlattenSeq(SelectSeq(options, LAMBDA o : o[1] \in {"f", "g"}))
  IN IF stops # {}
       THEN Tool!Ended(IF <<name, options[first][1]>> \in Tool!Pastes THEN "refused" ELSE "cleared", <<>>)
     ELSE IF name = "xsel" /\ ~has(Tool!Inputs) /\ onTerminal THEN Tool!Ended("refused", <<>>)
     ELSE IF primary THEN Tool!Ended("discarded", <<>>)
     ELSE IF others = <<>> \/ name \in {"xsel", "pbcopy"} THEN Tool!Ended("input", <<>>)
     ELSE Tool!Ended(IF name = "wl-copy" THEN "text" ELSE "files", others)

\* Nothing is pasted, a primary selection never reaches the host, and the files
\* or words that do are those given, in their order.  An option that lacks its
\* value takes a file in its place, or ends the script.
Understood(name) ==   \* what takes a value there
  {o \in Given : Len(o) = 1 \/ <<name, o[1]>> \in Tool!Selections \union Tool!WithValue}
ASSUME OnlyCopies ==
  \A name \in {"pbcopy", "xclip", "xsel", "wl-copy"}, onTerminal \in BOOLEAN :
    \A options \in BoundedSeq(Understood(name), 3) :
      Tool!Run(name, FlattenSeq(options), onTerminal) = Asks(name, options, onTerminal)
ASSUME TakesAFile ==
  /\ Tool!Run("xclip", <<"f", "-selection">>, FALSE) = Tool!Ended("input", <<>>)
  /\ Tool!Run("xclip", <<"-selection">>, FALSE).end = "error"

-----------------------------------------------------------------------------
(* The specs the engine is given.                                          *)
MCHash == [name \in {<<"app">>, <<"app", MCCwd>>} |-> IF Len(name) = 1 THEN 1000 ELSE 249]
Sessions == {[manifest |-> [table |-> t, paths |-> <<>>], profile |-> p, user |-> EmptyTable] :
               t \in {t \in Tables : Parses(t)}, p \in {"", "work"}}

\* No variable of the project takes the place of compostbin's own, the image's
\* are overridden by the session's, the VM has more than its container, and
\* sockets are only looked at as root.
ASSUME SpecsAreWhole ==
  \A session \in Sessions :
    LET exec == ExecSpec(session, <<"claude">>)
        at(name) == {i \in DOMAIN exec.env : exec.env[i].name = name}
        image == [env |-> <<Assign("V", "image")>>, user |-> "claude"]
        spec == SpecOf(session)
        configured == Configure(spec, image)
    IN /\ \A i \in DOMAIN Own : \A j \in at(Own[i].name) : exec.env[j] = Own[i]
       /\ \A name \in Names(session.manifest.table, Environment) : Cardinality(at(name)) = 1
       /\ SetupSpec(session, "x").env = exec.env /\ SocketsReadySpec(session).user = "root"
       /\ ~SetupSpec(session, "x").interactive /\ exec.interactive
       /\ Vm(spec).cpus > configured.cpus /\ Vm(spec).memory > configured.memory
       /\ configured.user = (IF HasSockets(session.manifest.table) THEN "root" ELSE "claude")
       /\ SubSeq(configured.env, 2, Len(configured.env)) = spec.env
       /\ configured.address \in FirstHost..LastHost
=============================================================================
