------------------------------ MODULE Forwards ------------------------------
(***************************************************************************)
(* Host ports and sockets, from the manifest to what listens for them: a   *)
(* forward is a vsock port of the VM, where it answers in the guest and    *)
(* what it is connected to on the host.  The guest's relay is started with *)
(* one argument for each; an argument is the sequence of its fields, the   *)
(* texts between the colons.                                               *)
(***************************************************************************)
EXTENDS Manifest

VsockPortBase == 1879048192                       \* 0x7000_0000
SocketVsockPortBase == VsockPortBase + 65536      \* above every port's

Forward(upstream, guest, vsock) ==
  [upstream |-> upstream, guest |-> guest, vsock |-> vsock]
Tcp(port) == [kind |-> "port", at |-> <<port>>]
Unix(path) == [kind |-> "socket", at |-> path]

FromPort(port) == Forward(Tcp(port), [port |-> port], VsockPortBase + port)
Socket(source, target, mode, index) ==
  Forward(Unix(source), [path |-> target, mode |-> mode], SocketVsockPortBase + index)

SocketNames(table) == Names(table, Sockets)
\* What a socket of the manifest is; the order of the names numbers them.
SocketOf(table, name) ==
  [source |-> Get(table, Sockets \o <<name, "source">>, NoPath),
   target |-> SocketValue(table, name, "target"),
   mode   |-> SocketValue(table, name, "mode")]
SocketTargets(table) == {SocketValue(table, n, "target") : n \in SocketNames(table)}

ForwardsOf(table) ==
  LET ports == Value(table, <<"host", "ports">>)
      names == SetToSeq(SocketNames(table))
      socket(i) == SocketOf(table, names[i])
  IN [i \in DOMAIN ports |-> FromPort(ports[i])] \o
     [i \in DOMAIN names |-> Socket(Resolve(socket(i).source), socket(i).target,
                                    DisplayMode(socket(i).mode), i - 1)]

GuestAddress(forward) ==
  IF forward.upstream.kind = "port" THEN <<"localhost", forward.guest.port>>
  ELSE forward.guest.path

\* The path is last, so that nothing is read after it.
GuestArgument(forward) ==
  IF forward.upstream.kind = "port" THEN <<forward.guest.port, forward.vsock>>
  ELSE <<"unix", forward.guest.mode, forward.vsock, forward.guest.path>>

\* The container's own process: the relay, or what does nothing.
Process(table) ==
  IF ForwardsOf(table) = <<>> THEN <<"sleep", "infinity">>
  ELSE <<"compostbin-ports">> \o [i \in DOMAIN ForwardsOf(table) |-> GuestArgument(ForwardsOf(table)[i])]

\* compostbin-ports: what it listens on for one of its arguments, and where
\* it passes a connection on to.  An argument of two fields is a port's.
RelayOf(argument) ==
  IF Len(argument) = 4
  THEN [listen |-> <<"unix", argument[4]>>, group |-> "compostbin", mode |-> argument[2],
        vsock |-> argument[3]]
  ELSE [listen |-> <<"tcp", argument[1]>>, group |-> "", mode |-> <<>>, vsock |-> argument[2]]

\* The script that waits for every socket, and for its group and mode.
SocketsReady(table, relays) ==
  \A n \in SocketNames(table) :
    \E relay \in relays : /\ relay.listen = <<"unix", SocketValue(table, n, "target")>>
                          /\ relay.group = "compostbin"
                          /\ relay.mode = DisplayMode(SocketValue(table, n, "mode"))

\* listen_all: the vsock ports taken in order, none when one is taken already.
ListenAll(forwards, taken) ==
  LET ports == [i \in DOMAIN forwards |-> forwards[i].vsock]
      free == \A i \in DOMAIN ports : ports[i] \notin taken \union {ports[j] : j \in 1 .. i - 1}
  IN [ok |-> free, bound |-> IF free THEN forwards ELSE <<>>]
=============================================================================
