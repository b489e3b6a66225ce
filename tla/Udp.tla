--------------------------------- MODULE Udp ---------------------------------
(***************************************************************************)
(* One UdpMulticastSender and one UdpMulticastReceiver on the same group   *)
(* (include/multicast_udp.hpp), on one host.  The receive buffer is the    *)
(* operating system's: it keeps the datagrams in order, and a datagram is  *)
(* lost when it finds the buffer full or when sendto() fails, which no     *)
(* caller looks at.                                                        *)
(***************************************************************************)
EXTENDS Naturals, Sequences, Functions

CONSTANT SocketRoom   \* datagrams the receive buffer (SO_RCVBUF) holds

ASSUME SocketAssumption == SocketRoom \in Nat

VARIABLES socket,   \* the datagrams in the buffer, each a sequence of messages
          lost      \* history: messages in datagrams that were lost

socketVars == <<socket, lost>>

SocketInit == socket = << >> /\ lost = 0

MessagesIn(datagrams) ==
  SumFunction([k \in DOMAIN datagrams |-> Len(datagrams[k])])

Send(datagram) ==
  \/ /\ Len(socket) < SocketRoom
     /\ socket' = Append(socket, datagram)
     /\ UNCHANGED lost
  \/ /\ lost' = lost + Len(datagram)
     /\ UNCHANGED socket

\* recv() with a datagram to return.  The datagram is the parameter: it holds of
\* exactly the one that comes next.
Recv(datagram) ==
  /\ socket # << >>
  /\ datagram = Head(socket)
  /\ socket' = Tail(socket)
  /\ UNCHANGED lost

\* recv() returns -1 once SO_RCVTIMEO has passed without a datagram.
RecvTimesOut == socket = << >>
=============================================================================
