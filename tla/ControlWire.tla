----------------------------- MODULE ControlWire ------------------------------
(***************************************************************************)
(* What a client of a running session sends its owner over the control     *)
(* socket, what the owner makes of it, and the process it starts           *)
(* (containerization/control.rs, mod.rs, spec.rs and stdio.rs).  Operators *)
(* only: a request on its way is Wire, attaching and resizing Attach.      *)
(*                                                                         *)
(* A text is a sequence of tokens: the two marks of the format, and words  *)
(* without a mark in them.  A variable is its name, then its value.  A     *)
(* descriptor is the file it refers to, so that passing it (SCM_RIGHTS)    *)
(* keeps it.                                                               *)
(***************************************************************************)
EXTENDS Naturals, FiniteSets, TLC, SequencesExt

CONSTANTS
  Newline, Unit,   \* the marks: a line ends, an item of a list ends
  Unattached       \* no descriptor

-----------------------------------------------------------------------------
(* Streams.                                                                  *)

NoStreams == [l \in {"t", "i", "o", "e"} |-> Unattached]
OnTerminal == [NoStreams EXCEPT !["t"] = "stdin", !["o"] = "stdout"]
Inherited(interactive) ==
  [NoStreams EXCEPT !["o"] = "stdout", !["e"] = "stderr",
                    !["i"] = IF interactive THEN "stdin" ELSE Unattached]

HasTerminal(stdio) == stdio["t"] # Unattached

\* exec: both ends must be terminals, so that redirected output has no escapes.
StdioOf(streams) ==
  IF streams.tty /\ streams.stdin = "tty" /\ streams.stdout = "tty"
    THEN OnTerminal ELSE Inherited(streams.interactive)

\* Descriptors cross in this order.
Labels(stdio) == SelectSeq(<<"t", "i", "o", "e">>, LAMBDA l : stdio[l] # Unattached)
Descriptors(stdio) == LET labels == Labels(stdio)
                      IN [i \in DOMAIN labels |-> stdio[labels[i]]]

Malformed == [ok |-> FALSE]

FromLabels(labels, descriptors) ==
  IF Len(labels) # Len(descriptors) \/ ~(ToSet(labels) \subseteq DOMAIN NoStreams)
  THEN Malformed
  ELSE [ok |-> TRUE,
        stdio |-> [l \in DOMAIN NoStreams |->
                     IF l \in ToSet(labels)
                     THEN descriptors[CHOOSE i \in DOMAIN labels :
                            labels[i] = l /\ \A j \in DOMAIN labels : labels[j] = l => j <= i]
                     ELSE Unattached]]

-----------------------------------------------------------------------------
(* The format.                                                               *)

Joined(texts, mark) ==
  IF texts = <<>> THEN <<>>
  ELSE FoldLeft(LAMBDA text, next : text \o <<mark>> \o next, Head(texts), Tail(texts))

\* Of the pieces between marks, n at most: the last one holds the other marks.
Pieces(text, mark, n) ==
  LET marks == {i \in DOMAIN text : text[i] = mark}
      nth(i) == Cardinality({j \in marks : j <= i})
      at == {i \in marks : nth(i) < n}
      ends == Append(SetToSortSeq(at, <), Len(text) + 1)
  IN [k \in DOMAIN ends |-> SubSeq(text, IF k = 1 THEN 1 ELSE ends[k - 1] + 1, ends[k] - 1)]

\* split: an empty line is an empty list.
Split(line) == IF line = <<>> THEN <<>> ELSE Pieces(line, Unit, Len(line) + 1)

Encode(request, stdio) ==
  Joined(<<Joined(request.arguments, Unit), Joined(request.environment, Unit),
           request.user, Labels(stdio), request.directory>>, Newline)

Decode(payload, descriptors) ==
  LET lines == Pieces(payload, Newline, 5)
      streams == FromLabels(lines[4], descriptors)
  IN IF Len(lines) < 5 THEN Malformed
     ELSE IF ~streams.ok THEN Malformed
     ELSE [ok |-> TRUE, stdio |-> streams.stdio,
           request |-> [arguments |-> Split(lines[1]), environment |-> Split(lines[2]),
                        user |-> lines[3], directory |-> lines[5]]]

\* served: a connection that says nothing.
Probe(payload, descriptors) == payload = <<>> /\ descriptors = <<>>

-----------------------------------------------------------------------------
(* The process.                                                              *)

Environment(env, host) ==
  LET given == SelectSeq(env, LAMBDA v : v.kind = "set" \/ v.name \in DOMAIN host)
  IN [i \in DOMAIN given |->
        <<given[i].name, IF given[i].kind = "set" THEN given[i].value ELSE host[given[i].name]>>]

Sets(variables, name) == \E i \in DOMAIN variables : Head(variables[i]) = name
\* Of a variable given twice the last counts.
Value(variables, name) ==
  LET of == {i \in DOMAIN variables : Head(variables[i]) = name}
  IN Tail(variables[CHOOSE i \in of : \A j \in of : j <= i])

\* seed: the image's process, with a path.
Seed(image) ==
  [image EXCEPT !.environment = IF Sets(@, "PATH") THEN @ ELSE Append(@, <<"PATH", "default">>)]

\* configuration: the caller's variables come after the image's.
Configuration(image, request, stdio) ==
  LET seed == Seed(image)
      environment == seed.environment \o request.environment
  IN [arguments   |-> request.arguments,
      directory   |-> request.directory,
      user        |-> IF request.user = <<>> THEN seed.user ELSE request.user,
      terminal    |-> HasTerminal(stdio),
      environment |-> IF HasTerminal(stdio) /\ ~Sets(environment, "TERM")
                      THEN Append(environment, <<"TERM", "xterm">>) ELSE environment,
      stdin       |-> IF HasTerminal(stdio) THEN stdio["t"] ELSE stdio["i"],
      stdout      |-> stdio["o"],
      stderr      |-> IF HasTerminal(stdio) THEN Unattached ELSE stdio["e"]]
=============================================================================
