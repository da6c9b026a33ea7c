---------------------------- MODULE SocketStream ----------------------------
(***************************************************************************)
(* The MeshSocketInterfaces at the ends of TCP connections that a server   *)
(* accepts one after the other under the same key: how they put packets on *)
(* the streams and take them off                                           *)
(* (src/interfaces/mesh_socket_interface.cpp, src/socket).                 *)
(*                                                                         *)
(* send_packet writes a size and then a payload, in two calls of Send, and *)
(* looks the client's handle up for each of them.  check_packets polls for *)
(* what has arrived and puts a packet together over as many polls as it    *)
(* takes.  The mesh thread of a process does both: it polls, and what it   *)
(* receives makes it send.                                                 *)
(*                                                                         *)
(* A connection that is accepted takes the place of the one before: the    *)
(* server looks up and polls the new handle from then on, and neither      *)
(* closes the old one nor wakes a Send that waits on it.                   *)
(*                                                                         *)
(* A stream holds only so much that the other end has not taken.  Send on  *)
(* a full one waits on a blocking socket, and waits for ever if nobody     *)
(* polls at the other end; on a socket that does not block it writes what  *)
(* fits, and nobody looks at how much that was.  The sockets a Windows     *)
(* server accepts do not block, all others do.                             *)
(*                                                                         *)
(* A byte is <<packet, position>>: positions 1 .. HeaderSize are the size  *)
(* field, the others the payload.                                          *)
(***************************************************************************)
EXTENDS Integers, Sequences

CONSTANTS
  Net,            \* the mesh thread of the server
  Apps,           \* other threads that send on the server
  HeaderSize,     \* sizeof(uint)
  Sizes,          \* sizes of the packets the mesh sends (never 0)
  GarbageSizes,   \* sizes that bytes which are no size field may read as
  Capacity,       \* bytes a stream holds that were sent and not yet taken
  MaxPackets,     \* bound: packets sent
  MaxConnections  \* bound: connections accepted under the client's key

Connections == 1 .. MaxConnections

\* The ends of every connection.  A client is a process of its own, whose mesh
\* thread goes by the name of its end.
Ends    == {"server", "client"} \X Connections
Clients == {"client"} \X Connections

ServerThreads == {Net} \cup Apps
Threads       == ServerThreads \cup Clients

ASSUME ThreadsAssumption == Net \notin Apps /\ ServerThreads \cap Clients = {}
ASSUME HeaderSizeAssumption == HeaderSize \in Nat \ {0}
ASSUME SizesAssumption == Sizes \subseteq Nat \ {0}
ASSUME GarbageSizesAssumption == GarbageSizes \subseteq Nat
ASSUME CapacityAssumption == Capacity \in Nat /\ Capacity >= HeaderSize
ASSUME BoundsAssumption == MaxPackets \in Nat /\ MaxConnections \in Nat \ {0}

VARIABLES
  nonblocking, \* sides whose sockets do not block
  sent,        \* history: size and sending end of each packet
  left,        \* bytes each thread's current Send has still to write
  next,        \* the packet whose payload each thread has still to Send
  on,          \* the connection each thread of the server last looked up
  stream,      \* bytes each end has written and the other not yet taken
  buffer,      \* ClientRecvBuffer of each end
  delivered,   \* non-empty packets handed to on_packet, as bytes
  spurious,    \* ends that were handed an empty packet
  connections, \* connections accepted so far; the last one is in the table
  closed,      \* connections whose client has ended
  torn         \* history: ends whose stream is not one whole packet after
               \* another: two sends, or a send and an accept, overlapped, or
               \* a Send was cut short

senders   == <<sent, left, next, on>>
receivers == <<buffer, delivered, spurious>>
table     == <<connections, closed>>
vars      == <<nonblocking, senders, stream, receivers, table, torn>>

Packets == 1 .. Len(sent)
None    == 0

\* The end a thread writes to, or last wrote to.
EndOf(t) == IF t \in Clients THEN t ELSE <<"server", on[t]>>

\* clients[addr].handle, as it is now.
Handle(t) == IF t \in Clients THEN t ELSE <<"server", connections>>

Peer(e) == <<IF e[1] = "client" THEN "server" ELSE "client", e[2]>>

Header(p)  == [i \in 1 .. HeaderSize |-> <<p, i>>]
Payload(p) == [i \in 1 .. sent[p].size |-> <<p, HeaderSize + i>>]

Fresh == [size |-> 0, data |-> << >>]

\* Thread t is not inside send_packet.
Idle(t) == left[t] = << >> /\ next[t] = None

Room(e) == Capacity - Len(stream[e])

Least(there, wanted) == IF there < wanted THEN there ELSE wanted

Init ==
  /\ nonblocking \in {{}, {"server"}}
  /\ sent = << >>
  /\ left = [t \in Threads |-> << >>]
  /\ next = [t \in Threads |-> None]
  /\ on = [t \in ServerThreads |-> 1]
  /\ stream = [e \in Ends |-> << >>]
  /\ buffer = [e \in Ends |-> Fresh]
  /\ delivered = [e \in Ends |-> << >>]
  /\ spurious = {}
  /\ connections = 1
  /\ closed = {}
  /\ torn = {}
-----------------------------------------------------------------------------
(* send_packet, on any thread. *)

\* Thread t is inside send_packet at end e.
Writes(t, e) == EndOf(t) = e /\ ~Idle(t)

Overlaps(t, e) == \E u \in Threads \ {t} : Writes(u, e)

\* The payload goes to another connection than the size field did.
Strays(t, e) == next[t] # None /\ EndOf(t) # e

\* A Send to e does not wait: the socket does not block, or the peer is gone.
NeverWaits(e) == e[1] \in nonblocking \/ e[2] \in closed

\* Mutant: a Send on a full stream gives up, as on a socket that does not block.
GivesUp(e, bytes) == << >>

\* What a Send that could not write all of these bytes goes on with.
Rest(e, bytes) == IF NeverWaits(e) THEN << >> ELSE bytes

\* Socket::Send: as much as there is room for is written at once, and nothing when
\* the peer is gone.
Send(t, e, bytes) ==
  LET count == IF e[2] \in closed THEN 0 ELSE Least(Room(e), Len(bytes))
      rest  == SubSeq(bytes, count + 1, Len(bytes))
  IN  /\ stream' = [stream EXCEPT ![e] = @ \o SubSeq(bytes, 1, count)]
      /\ left' = [left EXCEPT ![t] = Rest(e, rest)]
      /\ torn' = torn \cup
           {d \in {e, EndOf(t)} :
              \/ Strays(t, e)
              \/ d = e /\ (Overlaps(t, e) \/ (rest # << >> /\ NeverWaits(e)))}

\* A thread of the server has looked the handle up.
LookedUp(t) ==
  on' = [u \in ServerThreads |-> IF u = t THEN connections ELSE on[u]]

\* Send(clients[addr].handle, &size, sizeof(uint)).
SendSize(t, size) ==
  /\ Idle(t)
  /\ t \in Clients => t[2] \notin closed
  /\ Len(sent) < MaxPackets
  /\ sent' = Append(sent, [size |-> size, end |-> Handle(t)])
  /\ next' = [next EXCEPT ![t] = Len(sent')]
  /\ LookedUp(t)
  /\ Send(t, Handle(t), Header(Len(sent')))
  /\ UNCHANGED <<nonblocking, receivers, table>>

\* Send(clients[addr].handle, packet, size).
SendPayload(t) ==
  /\ left[t] = << >>
  /\ next[t] # None
  /\ next' = [next EXCEPT ![t] = None]
  /\ LookedUp(t)
  /\ Send(t, Handle(t), Payload(next[t]))
  /\ UNCHANGED <<nonblocking, sent, receivers, table>>

\* A blocking Send that has waited for room goes on, on the handle it was given.
Resume(t) ==
  /\ left[t] # << >>
  /\ Room(EndOf(t)) > 0
  /\ Send(t, EndOf(t), left[t])
  /\ UNCHANGED <<nonblocking, sent, next, on, receivers, table>>
-----------------------------------------------------------------------------
(* check_packets, on the mesh thread. *)

\* clients[phy_addr] = {ClientRecvBuffer(), client_sock}: the next connection takes
\* the place of this one, which stays as it is, and so does a Send that waits on
\* it.  On Windows the key has host and port, and is that of a client that ended.
Reconnect ==
  /\ Idle(Net)
  /\ connections < MaxConnections
  /\ nonblocking # {} => connections \in closed
  /\ connections' = connections + 1
  /\ UNCHANGED <<nonblocking, senders, stream, receivers, closed, torn>>

\* A client ends.  What it has written arrives up to some byte, what it has not
\* taken is lost, and a Send that waits for it to do so ends.
Close(c) ==
  /\ c \notin closed
  /\ closed' = closed \cup {c}
  /\ \E n \in 0 .. Len(stream[<<"client", c>>]) :
        stream' = [stream EXCEPT ![<<"client", c>>] = SubSeq(@, 1, n)]
  /\ left' = [t \in Threads |-> IF EndOf(t)[2] = c THEN << >> ELSE left[t]]
  /\ next' = [next EXCEPT ![<<"client", c>>] = None]
  /\ UNCHANGED <<nonblocking, sent, on, receivers, connections, torn>>

\* What a size field of these bytes reads as.
ReadSize(bytes) ==
  LET whole == {p \in Packets : bytes = Header(p)}
  IN  IF whole # {} THEN {sent[p].size : p \in whole} ELSE GarbageSizes

\* Mutant: whatever is there is taken for the size field.
AnyHeader(e, available) ==
  CASE buffer[e].size # 0 -> 0
    [] available >= HeaderSize -> HeaderSize
    [] OTHER -> available

\* How much of what is available to e is read as the size field.
HeaderIn(e, available) ==
  IF buffer[e].size = 0 /\ available >= HeaderSize THEN HeaderSize ELSE 0

\* Mutant: everything that is there goes into the packet.
TakeAll(there, wanted) == there

\* Mutant: a payload is taken when all of it is there.
AllOrNothing(there, wanted) == IF there < wanted THEN 0 ELSE wanted

Count(there, wanted) == Least(there, wanted)

\* Mutant: what has come so far is taken for the packet.
PartIsWhole(data, size) == Len(data) <= size

Whole(data, size) == Len(data) = size

\* The mesh thread of end e is not sending, and has the connection in its table.
Polls(e) ==
  IF e \in Clients THEN Idle(e) /\ e[2] \notin closed
  ELSE Idle(Net) /\ e[2] = connections

\* One turn of check_packets, with GetAvailableBytes = available > 0.
CheckPackets(e, available) ==
  LET incoming == stream[Peer(e)]
      header   == HeaderIn(e, available)
  IN
  /\ Polls(e)
  /\ \E size \in IF header = 0 THEN {buffer[e].size}
                 ELSE ReadSize(SubSeq(incoming, 1, header)) :
       LET count == Count(available - header, size - Len(buffer[e].data))
           data  == buffer[e].data \o SubSeq(incoming, header + 1, header + count)
           Hold(b) == buffer' = [buffer EXCEPT ![e] = b]
       IN  /\ stream' = [stream EXCEPT ![Peer(e)] =
                           SubSeq(@, header + count + 1, Len(@))]
           /\ \/ /\ ~Whole(data, size)
                 /\ Hold([size |-> size, data |-> data])
                 /\ UNCHANGED <<delivered, spurious>>
              \/ /\ Whole(data, size) /\ data # << >>
                 /\ Hold(Fresh)
                 /\ delivered' = [delivered EXCEPT ![e] = Append(@, data)]
                 /\ UNCHANGED spurious
              \/ /\ Whole(data, size) /\ data = << >>
                 /\ Hold(Fresh)
                 /\ spurious' = spurious \cup {e}
                 /\ UNCHANGED delivered
  /\ UNCHANGED <<nonblocking, senders, table, torn>>

\* TCP has brought some of what the peer has written.
Poll(e) == \E n \in 1 .. Len(stream[Peer(e)]) : CheckPackets(e, n)

\* TCP has brought all of it.
PollAll(e) ==
  stream[Peer(e)] # << >> /\ CheckPackets(e, Len(stream[Peer(e)]))
-----------------------------------------------------------------------------
Next ==
  \/ \E t \in Threads :
        SendPayload(t) \/ Resume(t) \/ \E size \in Sizes : SendSize(t, size)
  \/ \E e \in Ends : Poll(e)
  \/ Reconnect
  \/ \E c \in Connections : Close(c)

Spec == Init /\ [][Next]_vars

\* A thread inside send_packet goes on when it can, TCP delivers on a
\* connection that stays up, and a mesh thread that is not sending polls.
FairSpec ==
  /\ Spec
  /\ \A t \in Threads : WF_vars(SendPayload(t)) /\ WF_vars(Resume(t))
  /\ \A e \in Ends : WF_vars(PollAll(e))
-----------------------------------------------------------------------------
Byte == (1 .. MaxPackets) \X Nat

\* A buffer that is in use has room left: size - old_size never wraps.
TypeOK ==
  /\ nonblocking \subseteq {"server", "client"}
  /\ sent \in Seq([size : Sizes, end : Ends])
  /\ left \in [Threads -> Seq(Byte)]
  /\ next \in [Threads -> 0 .. Len(sent)]
  /\ on \in [ServerThreads -> 1 .. connections]
  /\ stream \in [Ends -> Seq(Byte)]
  /\ buffer \in [Ends -> [size : Nat, data : Seq(Byte)]]
  /\ delivered \in [Ends -> Seq(Seq(Byte))]
  /\ \A e \in Ends :
       /\ Room(e) \in 0 .. Capacity
       /\ buffer[e] = Fresh \/ Len(buffer[e].data) < buffer[e].size
  /\ spurious \subseteq Ends
  /\ connections \in Connections
  /\ closed \subseteq Connections
  /\ torn \subseteq Ends

\* The packets end e was handed, by number.
Got(e) == [i \in DOMAIN delivered[e] |-> delivered[e][i][1][1]]

\* Packets come out of check_packets whole, in the order they went in and at
\* the other end, however TCP cuts the stream up and however often a Send has
\* to wait, as long as no two threads of an end were inside send_packet at once,
\* no connection was replaced in the middle of one and no Send was cut short.
DeliveredIntact ==
  \A e \in Ends \ {Peer(d) : d \in torn} :
    /\ \A i \in DOMAIN Got(e) :
         /\ delivered[e][i] = Payload(Got(e)[i])
         /\ sent[Got(e)[i]].end = Peer(e)
    /\ \A i, j \in DOMAIN Got(e) : i < j => Got(e)[i] < Got(e)[j]

\* While its peer's stream is not torn a receiver is never out of step: what it
\* collects is the beginning of one packet, and it knows that packet's size.
ReceiverInStep ==
  \A e \in Ends \ {Peer(d) : d \in torn} :
    \/ buffer[e] = Fresh
    \/ \E p \in Packets :
         /\ buffer[e].size = sent[p].size
         /\ buffer[e].data = SubSeq(Payload(p), 1, Len(buffer[e].data))

\* check_packets may hand the mesh an empty packet when it polls between the
\* bytes of a size field (0 of 0 bytes count as whole), but it takes nothing off
\* the stream then: the size field is still read as one.
EmptyTakesNothing ==
  [][\A e \in spurious' \ spurious :
       Peer(e) \in torn \/ (buffer[e] = Fresh /\ stream' = stream)]_vars

\* A client waits in a Send for a server that does not poll it: it has not accepted
\* the client yet, polls the one that came after it, or waits in a Send itself.
Stuck(c) ==
  /\ left[<<"client", c>>] # << >> /\ Room(<<"client", c>>) = 0
  /\ c # connections \/ (left[Net] # << >> /\ Room(EndOf(Net)) = 0)

\* A thread comes back from send_packet, however full the stream is and whatever
\* becomes of the connection, unless the client it sends to, or that it is, waits
\* in a Send of its own for a server that does not poll it.
SendsReturn == \A t \in Threads : ~Idle(t) ~> Idle(t) \/ Stuck(EndOf(t)[2])

\* A packet is delivered in the end, unless its stream is torn, its client has
\* ended or waits as above, or it is from a client that the server does not poll:
\* packets to a client whose place was taken still arrive.
PacketsArrive ==
  \A p \in 1 .. MaxPackets :
    p \in Packets ~>
      p \in Packets /\
      LET e == sent[p].end
      IN  \/ \E i \in DOMAIN Got(Peer(e)) : Got(Peer(e))[i] = p
          \/ e \in torn \/ e[2] \in closed \/ Stuck(e[2])
          \/ e \in Clients /\ e[2] # connections

\* Packets on their way to e.
OnTheWay(e) ==
  {p \in Packets : /\ sent[p].end = Peer(e)
                   /\ \A i \in DOMAIN Got(e) : Got(e)[i] # p}

Channel(e) == INSTANCE PacketChannel WITH
  Packets <- 1 .. MaxPackets, queue <- OnTheWay(e), delivered <- Got(e)

ChannelsEmpty == \A e \in Ends : Channel(e)!Init

\* A step of each channel, unless it is torn or nothing happens on it.
ChannelsStep ==
  \A e \in Ends : \/ Channel(e)!Next
                  \/ UNCHANGED <<OnTheWay(e), Got(e)>>
                  \/ Peer(e) \in torn'

\* Each direction implements PacketChannel for as long as it is not torn.
ImplementsChannel == ChannelsEmpty /\ [][ChannelsStep]_vars
=============================================================================
