------------------------------ MODULE PortRelay ------------------------------
(***************************************************************************)
(* The relay of one forwarded port or socket (host/ports.rs, and           *)
(* image/compostbin-ports for who calls it): an acceptor takes the guest's *)
(* connections, each is connected to the host's service and spliced by two *)
(* threads, one for each direction, until both have ended.                 *)
(*                                                                         *)
(* A direction carries numbered chunks; what a read returns and how much   *)
(* of it a write takes is the kernel's choice.  A peer need not read: a    *)
(* chunk may never be taken.  A refused connection's are not counted.       *)
(***************************************************************************)
EXTENDS Processes

LOCAL INSTANCE FiniteSetsExt

CONSTANTS
  Conns,      \* connections the guest may make
  MaxChunks   \* chunks written in one behaviour

ASSUME RelayAssumption == IsFiniteSet(Conns) /\ MaxChunks \in Nat

VARIABLES
  listener,   \* the vsock listener
  acceptor,   \* its thread
  conn,       \* a connection, as its thread sees it
  flow        \* its two directions

relayVars == <<listener, acceptor, conn, flow>>

\* "up" from the guest to the service, "down" back.
Directions == {"up", "down"}
Opposite(d) == IF d = "up" THEN "down" ELSE "up"

\* What the source sent and whether it shut its end, what the thread read and
\* what of that it holds, what the destination got, whether it was told the end
\* and reads no more, and whether an error cut the direction short.
NoFlow ==
  [sent |-> 0, shut |-> FALSE, read |-> 0, held |-> 0, got |-> 0, eof |-> FALSE,
   gone |-> FALSE, broken |-> FALSE, thread |-> "none"]

RelayInit ==
  /\ listener = "none" /\ acceptor = "none"
  /\ conn = [c \in Conns |-> "none"]
  /\ flow = [c \in Conns |-> [d \in Directions |-> NoFlow]]

RelayStops == \E p \in with.ports : stop[p]

ConnGoes(c, from, to) == conn[c] = from /\ conn' = [conn EXCEPT ![c] = to]

-----------------------------------------------------------------------------
(* The guest and the service.                                                *)

GuestConnects(c) ==
  /\ listener = "open" /\ ConnGoes(c, "none", "queued")
  /\ UNCHANGED <<listener, acceptor, flow>>

Sent == MapThenSumSet(LAMBDA x : flow[x[1]][x[2]].sent, Conns \X Directions)

EndpointActs(c, d) ==
  conn[c] = "splicing" \/ (d = "up" /\ conn[c] \in {"queued", "connecting", "draining"})

Writes(c, d) ==
  /\ EndpointActs(c, d) /\ ~flow[c][d].shut /\ Sent < MaxChunks
  /\ flow' = [flow EXCEPT ![c][d].sent = @ + 1]
  /\ UNCHANGED <<listener, acceptor, conn>>

ShutsWriting(c, d) ==
  /\ EndpointActs(c, d) /\ ~flow[c][d].shut
  /\ flow' = [flow EXCEPT ![c][d].shut = TRUE]
  /\ UNCHANGED <<listener, acceptor, conn>>

\* The destination of a direction closes its socket: its own writing ends too.
Closes(c, d) ==
  /\ conn[c] = "splicing" \/ (d = "down" /\ conn[c] = "draining")
  /\ ~flow[c][d].gone
  /\ flow' = [flow EXCEPT ![c][d].gone = TRUE, ![c][Opposite(d)].shut = TRUE]
  /\ UNCHANGED <<listener, acceptor, conn>>

-----------------------------------------------------------------------------
(* relay and accept.                                                         *)

\* Mutant: the acceptor is left to see `stop` for itself, which it never reads.
NeverFinish == FALSE
Finishes == RelayStops

Finish ==
  /\ acceptor # "none" /\ listener = "open" /\ Finishes
  /\ listener' = "finished"
  /\ UNCHANGED <<acceptor, conn, flow>>

Accept(c) ==
  /\ acceptor = "accepting" /\ ConnGoes(c, "queued", "connecting")
  /\ UNCHANGED <<listener, acceptor, flow>>

\* accept returns None; what is still queued is dropped with the listener.
StopAccepting ==
  /\ acceptor = "accepting" /\ listener = "finished"
  /\ acceptor' = "ended"
  /\ conn' = [c \in Conns |-> IF conn[c] = "queued" THEN "dropped" ELSE conn[c]]
  /\ UNCHANGED <<listener, flow>>

\* The scopes of accept and of relay wait for every connection's thread.
Relayed ==
  \/ acceptor = "none"
  \/ /\ acceptor = "ended"
     /\ \A c \in Conns : conn[c] \in {"none", "dropped", "done"}

-----------------------------------------------------------------------------
(* connect, splice_to and close_cleanly.                                     *)

Connect(c) ==
  /\ ConnGoes(c, "connecting", "splicing")
  /\ flow' = [flow EXCEPT ![c] = [d \in Directions |-> [flow[c][d] EXCEPT !.thread = "reading"]]]
  /\ UNCHANGED <<listener, acceptor>>

\* Nothing answers: the guest is told the end, and drained so that it is not
\* reset.
ConnectRefused(c) ==
  /\ ConnGoes(c, "connecting", "draining")
  /\ flow' = [flow EXCEPT ![c]["down"].eof = TRUE]
  /\ UNCHANGED <<listener, acceptor>>

Unread(c, d) == flow[c][d].sent - flow[c][d].read

\* What the guest goes on sending is read and thrown away, whatever `stop` is.
Discard(c) ==
  /\ conn[c] = "draining"
  /\ \E n \in 1..Unread(c, "up") : flow' = [flow EXCEPT ![c]["up"].sent = @ - n]
  /\ UNCHANGED <<listener, acceptor, conn>>

\* A read finds the end, or nothing for one interval, or the connection reset.
Drained(c) ==
  /\ Unread(c, "up") = 0 \/ flow[c]["down"].gone
  /\ ConnGoes(c, "draining", "done")
  /\ UNCHANGED <<listener, acceptor, flow>>

\* configure fails.
Unconfigured(c) == ConnGoes(c, "connecting", "done") /\ UNCHANGED <<listener, acceptor, flow>>

\* Both sockets close with the second of the two threads.
Unspliced(c) ==
  /\ \A d \in Directions : flow[c][d].thread = "ended"
  /\ ConnGoes(c, "splicing", "done")
  /\ UNCHANGED <<listener, acceptor, flow>>

-----------------------------------------------------------------------------
(* splice and send, one direction.                                           *)

Reading(c, d) == flow[c][d].thread = "reading"
Sending(c, d) == flow[c][d].thread = "sending"

Read(c, d) ==
  /\ Reading(c, d)
  /\ \E n \in 1..Unread(c, d) :
       flow' = [flow EXCEPT ![c][d].read = @ + n, ![c][d].held = n, ![c][d].thread = "sending"]
  /\ UNCHANGED <<listener, acceptor, conn>>

\* However a splice ends it shuts the destination's side.
EndsFlow(c, d, broken) ==
  flow' = [flow EXCEPT ![c][d].thread = "ended", ![c][d].eof = TRUE, ![c][d].broken = @ \/ broken]

AtEnd(c, d) == flow[c][d].shut /\ Unread(c, d) = 0

ReadEnd(c, d) ==
  /\ Reading(c, d) /\ AtEnd(c, d)
  /\ EndsFlow(c, d, FALSE)
  /\ UNCHANGED <<listener, acceptor, conn>>

\* The source closed its socket and reset the connection.
ReadFails(c, d) ==
  /\ Reading(c, d) /\ flow[c][Opposite(d)].gone
  /\ EndsFlow(c, d, TRUE)
  /\ UNCHANGED <<listener, acceptor, conn>>

\* Mutant: what one write does not take is forgotten.
WriteOnce(c, d) ==
  /\ Sending(c, d) /\ ~flow[c][d].gone
  /\ \E n \in 1..flow[c][d].held :
       flow' = [flow EXCEPT ![c][d].got = @ + n, ![c][d].held = 0, ![c][d].thread = "reading"]
  /\ UNCHANGED <<listener, acceptor, conn>>

Write(c, d) ==
  /\ Sending(c, d) /\ ~flow[c][d].gone
  /\ \E n \in 1..flow[c][d].held :
       flow' = [flow EXCEPT ![c][d].got = @ + n, ![c][d].held = @ - n,
                            ![c][d].thread = IF n = flow[c][d].held THEN "reading" ELSE "sending"]
  /\ UNCHANGED <<listener, acceptor, conn>>

WriteFails(c, d) ==
  /\ Sending(c, d) /\ flow[c][d].gone
  /\ EndsFlow(c, d, TRUE)
  /\ UNCHANGED <<listener, acceptor, conn>>

\* A read or a write times out, and `stop` is looked at.
SpliceStops(c, d) ==
  /\ RelayStops /\ (Reading(c, d) \/ Sending(c, d))
  /\ EndsFlow(c, d, TRUE)
  /\ UNCHANGED <<listener, acceptor, conn>>

-----------------------------------------------------------------------------
Peers ==
  \E c \in Conns :
    \/ GuestConnects(c)
    \/ \E d \in Directions : Writes(c, d) \/ ShutsWriting(c, d) \/ Closes(c, d)

Acceptor == Finish \/ StopAccepting \/ \E c \in Conns : Accept(c)

Connection(c) ==
  Connect(c) \/ ConnectRefused(c) \/ Discard(c) \/ Drained(c) \/ Unconfigured(c) \/ Unspliced(c)

Splice(c, d) ==
  Read(c, d) \/ ReadEnd(c, d) \/ ReadFails(c, d) \/ WriteFails(c, d) \/ SpliceStops(c, d)

RelayNext ==
  /\ \/ Peers \/ Acceptor
     \/ \E c \in Conns : Connection(c) \/ \E d \in Directions : Splice(c, d) \/ Write(c, d)
  /\ UNCHANGED faults
=============================================================================
