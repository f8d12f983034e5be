------------------------------ MODULE Manifest ------------------------------
(***************************************************************************)
(* The manifest: a TOML table is the function from its key paths (the      *)
(* names of the tables down to a key) to values, so that a table is there  *)
(* when a key under it is.  A file holds a table, or nothing, or a text    *)
(* that does not parse.  Texts are names, of which Spelling knows the      *)
(* kinds of characters where a rule looks at them.                         *)
(***************************************************************************)
EXTENDS Workspace

CONSTANTS
  Spelling,       \* the names not spelt in letters only: the characters of each
  SourceOrder,    \* the raw paths in use, in the byte order of their text
  MemoryUnit,     \* [G |-> , M |-> , K |-> ]: MEMORY_UNITS, scaled down
  MemoryLimit     \* the first number a u64 cannot hold, scaled down with it

EmptyTable == [k \in {} |-> NoPath]
Absent == [state |-> "absent", table |-> EmptyTable]
Unparsable == [state |-> "unparsable", table |-> EmptyTable]
Holding(table) == [state |-> "table", table |-> table]
\* What fs::write leaves between its truncation and its write: a text without
\* a key is a table without a key, not an error.
Truncated == Holding(EmptyTable)
\* A file that need not be there, and one that must.
LoadIfPresent(file) == file.state # "unparsable"
ReadTable(file) == file.state = "table"

\* `table' under the keys of `over', which take the place of its own.
Over(over, table) ==
  [k \in DOMAIN over \union DOMAIN table |-> IF k \in DOMAIN over THEN over[k] ELSE table[k]]
With(table, key, value) == Over([k \in {key} |-> value], table)
Get(table, key, default) == IF key \in DOMAIN table THEN table[key] ELSE default
Names(table, at) == {k[Len(at) + 1] : k \in {k \in DOMAIN table :
                       IsPrefix(at, k) /\ Len(k) > Len(at)}}
Without(table, key) == [k \in DOMAIN table \ {key} |-> table[k]]

Paths == <<"paths">>
Sockets == <<"host", "sockets">>
Commands == <<"host", "commands">>
Environment == <<"container", "environment">>

-----------------------------------------------------------------------------
(* The keys of each table, and what a key that is not there stands for.    *)

Within(table, keys) == [k \in {<<table, k>> : k \in DOMAIN keys} |-> keys[k[2]]]

DefaultMemory == [count |-> 2, unit |-> "M"]
ClaudeConfig == Within("claude", [home |-> NoPath, shared |-> <<>>])
ContainerConfig ==
  Within("container", [cpus |-> 4, env |-> <<>>, memory |-> DefaultMemory, setup |-> <<>>])
HostConfig == Within("host", [clipboard |-> FALSE, concurrency |-> 8, ports |-> <<>>])
ImageConfig == Within("image", [packages |-> <<>>, run |-> <<>>, run_as_root |-> <<>>])
ProjectConfig == Within("project", [image |-> "base", name |-> ""])
WorkspaceConfig == Within("workspace", [roots |-> <<>>])
Default == Over(ClaudeConfig, Over(ContainerConfig, Over(HostConfig, Over(ImageConfig,
             Over(ProjectConfig, With(WorkspaceConfig, Paths, <<>>))))))
Value(table, key) == Get(table, key, Default[key])

\* Of a user's configuration.
UserDefault == Within("claude", [keychain |-> FALSE, shared |-> <<>>])

\* Entries with a key that must be there, argv and source.
DefaultMode == <<0, 6, 6, 0>>
HostCommand == [arguments |-> FALSE, deny |-> <<>>, tty |-> FALSE]
CommandValue(table, name, key) == Get(table, Commands \o <<name, key>>, HostCommand[key])
HostSocket(name) == [target |-> <<"run", "compostbin", "sockets", name>>, mode |-> DefaultMode]
SocketValue(table, name, key) ==
  Get(table, Sockets \o <<name, key>>, HostSocket(name)[key])

HasCommands(table) == Value(table, <<"host", "clipboard">>) \/ Names(table, Commands) # {}
HasPorts(table) == Value(table, <<"host", "ports">>) # <<>>
HasSockets(table) == Names(table, Sockets) # {}
HostIsEmpty(table) == ~HasCommands(table) /\ ~HasPorts(table) /\ ~HasSockets(table)
ImageIsEmpty(table) == \A k \in DOMAIN ImageConfig : Value(table, k) = <<>>

-----------------------------------------------------------------------------
(* What the deserializers take.                                            *)

Reserved == {"CLAUDE_CONFIG_DIR", "IS_SANDBOX", "WAYLAND_DISPLAY"}
Spelt(name) == Get(Spelling, name, <<"letter">>)
IsVariableName(name) == /\ Spelt(name) # <<>> /\ Head(Spelt(name)) # "digit"
                        /\ ToSet(Spelt(name)) \subseteq {"letter", "digit", "_"}
OfNameCharacters(name) == ToSet(Spelt(name)) \subseteq {"letter", "digit", "-", "_", "."}
IsSocketName(name) == /\ Spelt(name) # <<>> /\ Head(Spelt(name)) # "."
                      /\ OfNameCharacters(name)

\* Memory: a count and a unit letter ("" for none), to bytes; 0 for refused.
ParseMemory(text) ==
  LET scale == IF text.unit = "" THEN 1 ELSE Get(MemoryUnit, text.unit, 0)
  IN IF text.count * scale < MemoryLimit THEN text.count * scale ELSE 0

\* The default is a size.
ASSUME DefaultMemoryAssumption == ParseMemory(DefaultMemory) > 0
\* The largest unit that divides the bytes.
DisplayMemory(bytes) ==
  LET fits == {u \in DOMAIN MemoryUnit : bytes % MemoryUnit[u] = 0}
  IN IF fits = {} THEN [count |-> bytes, unit |-> ""]
     ELSE LET u == CHOOSE u \in fits : \A o \in fits : MemoryUnit[u] >= MemoryUnit[o]
          IN [count |-> bytes \div MemoryUnit[u], unit |-> u]

\* A socket's mode: three or four octal digits, no more than 0777; shown as four.
ValidMode(digits) ==
  /\ Len(digits) \in 3 .. 4
  /\ \A i \in DOMAIN digits : digits[i] \in 0 .. 7
  /\ Len(digits) = 4 => digits[1] = 0
DisplayMode(digits) == IF Len(digits) = 3 THEN <<0>> \o digits ELSE digits

\* A relative target is one of names with other characters, as a quoted one is.
ValidSockets(table) ==
  LET names == Names(table, Sockets)
      target(n) == SocketValue(table, n, "target")
  IN \A n \in names :
       /\ IsSocketName(n)
       /\ Sockets \o <<n, "source">> \in DOMAIN table
       /\ ValidMode(SocketValue(table, n, "mode"))
       /\ \A part \in ToSet(target(n)) : part # ".." /\ OfNameCharacters(part)
       /\ \A o \in names \ {n} : target(o) # target(n)

\* Variables compostbin sets itself are refused, and a value with a NUL in it.
ValidEnvironment(table) ==
  /\ ToSet(Value(table, <<"container", "env">>)) \intersect Reserved = {}
  /\ \A n \in Names(table, Environment) :
       IsVariableName(n) /\ n \notin Reserved /\ table[Append(Environment, n)] # "NUL"

\* deny_unknown_fields: the keys the types name.
Known(key) ==
  \/ key \in DOMAIN Default
  \/ IsPrefix(Environment, key) /\ Len(key) = 3
  \/ IsPrefix(Sockets, key) /\ Len(key) = 4 /\ key[4] \in {"source", "target", "mode"}
  \/ IsPrefix(Commands, key) /\ Len(key) = 4 /\ key[4] \in {"argv"} \union DOMAIN HostCommand

\* Whether a table is a manifest.
Parses(table) ==
  /\ \A k \in DOMAIN table : Known(k)
  /\ ParseMemory(Value(table, <<"container", "memory">>)) > 0
  /\ ValidEnvironment(table)
  /\ ValidSockets(table)
  /\ \A n \in Names(table, Commands) : Commands \o <<n, "argv">> \in DOMAIN table

-----------------------------------------------------------------------------
\* Each key of `local' replaces the shared one, table by table; a value takes
\* the place of a table and a table of a value; a host command goes whole.
Overlay(shared, local) ==
  LET command(k) == IF IsPrefix(Commands, k) /\ Len(k) > 2 THEN SubSeq(k, 1, 3) ELSE k
      hidden(k) == \E l \in DOMAIN local : \/ IsPrefix(command(l), k)
                                           \/ IsPrefix(k, l)
  IN Over(local, [k \in {k \in DOMAIN shared : ~hidden(k)} |-> shared[k]])

\* `local' with the shared source of each socket it does not give one.
WithSharedSockets(local, shared) ==
  Over(local, [k \in {k \in DOMAIN shared : /\ IsPrefix(Sockets, k) /\ Len(k) = 4
                                            /\ k[4] = "source"
                                            /\ k[3] \in Names(local, Sockets)} |-> shared[k]])

Marked(entries, isLocal) ==
  [i \in DOMAIN entries |-> [source |-> entries[i].source, target |-> entries[i].target,
                             readonly |-> entries[i].readonly, local |-> isLocal]]

NoManifest == [ok |-> FALSE, table |-> EmptyTable, paths |-> <<>>]

\* Mutant: the local paths are merged as any other key, and so replace.
LoadReplacingPaths(shared, local) ==
  LET merged == Overlay(shared.table, local.table)
  IN IF ~(ReadTable(shared) /\ LoadIfPresent(local) /\ Parses(merged))
     THEN NoManifest
     ELSE [ok |-> TRUE, table |-> merged, paths |-> Marked(Value(merged, Paths), FALSE)]

\* The manifest of a shared and a local file: the shared table is only parsed
\* with the local one over it, the local one alone as well.
Load(shared, local) ==
  LET base == shared.table
      over == local.table
      merged == Overlay(base, Without(over, Paths))
      ok == /\ ReadTable(shared)
            /\ LoadIfPresent(local)
            /\ local.state = "table" => Parses(WithSharedSockets(over, base))
            /\ Parses(merged)
  IN IF ~ok THEN NoManifest
     ELSE [ok    |-> TRUE,
           table |-> merged,
           paths |-> Marked(Value(merged, Paths), FALSE)
                       \o Marked(Value(over, Paths), TRUE)]

\* The sort by source that a save does; equal sources keep their order.
SortedBySource(entries) ==
  LET at(i) == CHOOSE n \in DOMAIN SourceOrder : SourceOrder[n] = entries[i].source
      before(i, j) == at(i) < at(j) \/ (at(i) = at(j) /\ i < j)
      rank(i) == Cardinality({j \in DOMAIN entries : before(j, i)}) + 1
  IN [n \in DOMAIN entries |-> entries[CHOOSE i \in DOMAIN entries : rank(i) = n]]

\* A manifest as it is saved: every value that is not the default and, default
\* or not, the image; of [host] nothing when it has nothing to serve.
Rendered(table) ==
  LET shown(k) == CASE k = Paths -> SortedBySource(table[k])
                    [] k = <<"container", "memory">> -> DisplayMemory(ParseMemory(table[k]))
                    [] IsPrefix(Sockets, k) /\ k[4] = "mode" -> DisplayMode(table[k])
                    [] OTHER -> table[k]
      default(k) == CASE k \in DOMAIN Default -> shown(k) = Default[k]
                      [] IsPrefix(Sockets, k) /\ k[4] = "mode" -> shown(k) = DefaultMode
                      [] IsPrefix(Commands, k) /\ k[4] # "argv" -> table[k] = HostCommand[k[4]]
                      [] OTHER -> FALSE
      empty(k) == k[1] = "host" /\ HostIsEmpty(table)
      image == <<"project", "image">>
  IN With([k \in {k \in DOMAIN table : ~default(k) /\ ~empty(k)} |-> shown(k)],
          image, Value(table, image))

\* Manifest::named_after, as it renders.
NamedAfter(dir) == Rendered(With(EmptyTable, <<"project", "name">>, Last(dir)))

\* record_path: the file an entry belongs in, and the table to save there of
\* the table read.
FileOf(isLocal) == IF isLocal THEN "local" ELSE "shared"
WithPath(table, entry) ==
  With(table, Paths, SortedBySource(Append(Value(table, Paths), entry)))
=============================================================================
