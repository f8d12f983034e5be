-------------------------------- MODULE Wire ---------------------------------
(***************************************************************************)
(* One request of a client on its way, from the command line to what the   *)
(* owner makes of it (containerization/control.rs: served, request,        *)
(* attend).                                                                *)
(***************************************************************************)
EXTENDS ControlWire

CONSTANTS
  MaxRequest,      \* MAX_REQUEST, in tokens
  Buffer,          \* what one recvmsg finds of a request, in tokens, at least
  Requests,        \* what clients ask: [arguments, environment, user, directory]
  Ttys             \* what a client's streams are: [tty, interactive, stdin, stdout]

VARIABLES
  asked,      \* the request and the streams of the client
  wire,       \* what it sent: a payload and descriptors, or nothing yet
  verdict     \* what the owner made of it, and what it runs

vars == <<asked, wire, verdict>>

-----------------------------------------------------------------------------
Nothing == [payload |-> <<>>, descriptors |-> <<>>]
Undecided == [is |-> "none"]

Init ==
  /\ asked \in [request : Requests, streams : Ttys]
  /\ wire = Nothing /\ verdict = Undecided

\* served: connects, and closes.
Connects ==
  /\ verdict.is = "none" /\ wire = Nothing
  /\ verdict' = [is |-> IF Probe(wire.payload, wire.descriptors) THEN "probe" ELSE "error"]
  /\ UNCHANGED <<asked, wire>>

\* request: one sendmsg.
Sends ==
  /\ verdict.is \in {"none", "probe"} /\ wire = Nothing
  /\ LET stdio == StdioOf(asked.streams)
     IN wire' = [payload |-> Encode(asked.request, stdio), descriptors |-> Descriptors(stdio)]
  /\ verdict' = Undecided
  /\ UNCHANGED asked

\* What one recvmsg may find of a payload: a request that fits the socket's
\* buffer whole, else any part of it from there on.
Received(payload) ==
  {SubSeq(payload, 1, n) : n \in {n \in 0..Len(payload) : n = Len(payload) \/ n >= Buffer}}

\* attend, receive: a full buffer is a truncated request.
Attends ==
  /\ verdict.is = "none" /\ wire # Nothing
  /\ \E payload \in Received(wire.payload) :
       LET decoded == Decode(payload, wire.descriptors)
       IN verdict' = IF Len(payload) >= MaxRequest THEN [is |-> "too long"]
                     ELSE IF decoded.ok
                     THEN [is |-> "runs", request |-> decoded.request, stdio |-> decoded.stdio]
                     ELSE [is |-> "malformed"]
  /\ UNCHANGED <<asked, wire>>

Next == Connects \/ Sends \/ Attends
Spec == Init /\ [][Next]_vars

\* An owner runs what its client asked for, on the client's streams, or has a
\* reason that is the request's size: what is set for every session of the
\* container holds in a joined one too (request, attend; docs/manifest/container.md).
RunsWhatWasAsked ==
  /\ verdict.is # "malformed"
  /\ verdict.is = "runs" =>
       verdict.request = asked.request /\ verdict.stdio = StdioOf(asked.streams)
=============================================================================
