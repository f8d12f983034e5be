------------------------------ MODULE MCLaunch -------------------------------
(* The situations of the run: two sessions with logins, of one Claude home   *)
(* or of two; one session with a forwarded port; a session and its client,   *)
(* each with a terminal.                                                     *)
EXTENDS Launch, Sequences

CONSTANTS p1, p2, h1

Nobody ==
  [procs |-> {p1, p2}, home |-> [p \in Procs |-> h1], project |-> [p \in Procs |-> p],
   keychain |-> {}, ports |-> {}, terminals |-> {}, faults |-> 1]

OneHome == [Nobody EXCEPT !.keychain = {p1, p2}, !.faults = 0]
OneProject == [Nobody EXCEPT !.keychain = {p1, p2}, !.project = [p \in Procs |-> p1]]
OnePort == [Nobody EXCEPT !.procs = {p1}, !.ports = {p1}]
OneClient == [Nobody EXCEPT !.terminals = {p1, p2}, !.project = [p \in Procs |-> p1]]

MCSetups == {OneHome, OneProject, OnePort, OneClient}

-----------------------------------------------------------------------------
(* The one message of a client, over short requests without a newline in     *)
(* their lists; what a newline there does is the run of Wire.                *)
W == INSTANCE ControlWire WITH Newline <- "newline", Unit <- "unit", Unattached <- "none"

Lists == {<<>>, << <<"a">> >>, << <<"a">>, <<"b", "c">> >>, << <<>>, <<"a">> >>}
Wanted == [arguments : Lists, environment : Lists, user : {<<>>, <<"root">>},
           directory : {<<>>, <<"a">>, <<"a", "newline", "b">>}]
Streams == {W!OnTerminal, W!Inherited(TRUE), W!Inherited(FALSE)}

\* A request comes back as it was sent, with each stream where it was; of one
\* that was cut short nothing is read but, at most, a shorter directory.
ASSUME RoundTrip ==
  \A request \in Wanted, stdio \in Streams :
    LET sent == W!Encode(request, stdio)
        fds == W!Descriptors(stdio)
    IN /\ W!Decode(sent, fds) = [ok |-> TRUE, stdio |-> stdio, request |-> request]
       /\ \A n \in 0..Len(sent) - 1 :
            LET cut == W!Decode(SubSeq(sent, 1, n), fds)
            IN cut.ok => [cut.request EXCEPT !.directory = request.directory] = request

\* Labels and descriptors that disagree are refused.
ASSUME NoStreamIsGuessed ==
  \A stdio \in Streams, other \in Streams :
    W!FromLabels(W!Labels(stdio), W!Descriptors(other)).ok <=>
      Len(W!Labels(stdio)) = Len(W!Descriptors(other))

\* The process of a request: a path whatever the image says, a TERM on a
\* terminal, the caller's variables before the image's, no stderr beside a
\* terminal.
Images == {<<>>, << <<"TERM", "image">> >>, << <<"PATH", "image">>, <<"TERM", "image">> >>}
Declared == {<<>>, <<[kind |-> "inherit", name |-> "TERM"],
                     [kind |-> "set", name |-> "PATH", value |-> "declared"]>>}
Hosts == {[n \in {"TERM"} |-> "host"], [n \in {} |-> "host"]}
ASSUME ProcessIsWhole ==
  \A image \in Images, declared \in Declared, host \in Hosts, stdio \in Streams :
    LET caller == W!Environment(declared, host)
        request == [arguments |-> <<>>, environment |-> caller, user |-> <<>>, directory |-> <<>>]
        seed == [environment |-> image, user |-> <<"claude">>]
        process == W!Configuration(seed, request, stdio)
    IN /\ W!Sets(process.environment, "PATH")
       /\ process.terminal => W!Sets(process.environment, "TERM") /\ process.stderr = "none"
       /\ \A i \in DOMAIN caller :
            W!Value(process.environment, Head(caller[i])) = Tail(caller[i])
=============================================================================
