----------------------------- MODULE HostRequest -----------------------------
(***************************************************************************)
(* From the lines of a request of the guest to what the agent runs, or why *)
(* not.  A command's name is a name; an argument is the sequence of its    *)
(* characters, of which none is a newline: the guest's client refuses one. *)
(* The commands are those of [host.commands] and the clipboard's own.      *)
(***************************************************************************)
EXTENDS Manifest

Refused(why, what) == [refusal |-> why, of |-> what, argv |-> <<>>, tty |-> FALSE]
Resolved(argv, tty) == [refusal |-> "none", of |-> <<>>, argv |-> argv, tty |-> tty]

\* One field per line, the command first.  str::lines takes the carriage return
\* before a newline with it.
ParseRequest(command, lines) ==
  LET field(line) == IF line # <<>> /\ Last(line) = "CR" THEN Front(line) ELSE line
  IN [ok |-> command # "", command |-> command,
      arguments |-> [i \in DOMAIN lines |-> field(lines[i])]]

\* `--config' denies itself and `--config=x', and a single letter also what is
\* joined to it.
IsDenied(deny, argument) ==
  \E i \in DOMAIN deny :
    LET short == Len(deny[i]) = 2 /\ Head(deny[i]) = "-" /\ deny[i] # <<"-", "-">>
        rest == SubSeq(argument, Len(deny[i]) + 1, Len(argument))
    IN IsPrefix(deny[i], argument) /\ (rest = <<>> \/ Head(rest) = "=" \/ short)

\* served_commands: a declared clipboard takes the place of the built-in one.
Clipboard == [arguments |-> FALSE, argv |-> <<"pbcopy">>, deny |-> <<>>, tty |-> FALSE]
ServedCommands(table) ==
  LET declared == [n \in Names(table, Commands) |->
                     [argv |-> Get(table, Commands \o <<n, "argv">>, <<>>)]
                       @@ [k \in DOMAIN HostCommand |-> CommandValue(table, n, k)]]
  IN IF Value(table, <<"host", "clipboard">>) THEN declared @@ ("clipboard" :> Clipboard)
     ELSE declared

\* The first of these that applies, in the order the code asks.
ResolveRequest(commands, command, arguments) ==
  LET denied == {i \in DOMAIN arguments : IsDenied(commands[command].deny, arguments[i])}
  IN IF command \notin DOMAIN commands THEN Refused("UnknownCommand", command)
     ELSE IF commands[command].argv = <<>> THEN Refused("EmptyCommand", command)
     ELSE IF arguments # <<>> /\ ~commands[command].arguments
          THEN Refused("ArgumentsNotAllowed", command)
     ELSE IF denied # {}
          THEN Refused("DeniedArgument", arguments[CHOOSE i \in denied : \A j \in denied : i <= j])
     ELSE Resolved(commands[command].argv \o arguments, commands[command].tty)
=============================================================================
