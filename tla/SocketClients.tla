---------------------------- MODULE SocketClients ----------------------------
(***************************************************************************)
(* The clients of a MeshSocketInterface server                             *)
(* (src/interfaces/mesh_socket_interface.cpp, src/socket).                 *)
(*                                                                         *)
(* The server files every connection it accepts under a key that           *)
(* AddressU64 makes of the peer's address, and the mesh knows the peer by  *)
(* that key: what it receives comes with the key, what it sends goes to    *)
(* the connection the key stands for at that time.  On Windows the key is  *)
(* host and port.  On Unix it is the host and two bytes of an integer      *)
(* nobody has initialised; a connection with a known key replaces the one  *)
(* before it.  Nothing ever removes a client, and nothing closes a handle, *)
(* so a server that has accepted as many connections as the system lets a  *)
(* process open accepts no more: on Unix the process ends there.           *)
(*                                                                         *)
(* Packets are whole here; SocketStream has the stream below them.         *)
(***************************************************************************)
EXTENDS Integers, Sequences

CONSTANTS
  Hosts,           \* addresses peers connect from
  Ports,           \* ports they connect from
  UnixHosts,       \* hosts whose peer is a khawasu_pc client on Unix
  Tails,           \* what the two uninitialised bytes of a key may hold
  Platforms,       \* platforms the server may run on
  HandleLimits,    \* how many connections the system may let it accept
  MaxConnections   \* bound: connections made

ASSUME UnixHostsAssumption == UnixHosts \subseteq Hosts
ASSUME PlatformsAssumption == Platforms \subseteq {"unix", "windows"}
ASSUME HandleLimitsAssumption == HandleLimits \subseteq Nat
ASSUME MaxConnectionsAssumption == MaxConnections \in Nat

VARIABLES
  platform,    \* the platform of the server
  limit,       \* connections the system lets the server accept
  interfaces,  \* UnixHosts that have constructed their client interface
  conns,       \* history: host and port of each connection
  open,        \* connections the peer has not closed
  backlog,     \* connections not accepted yet, oldest first
  clients,     \* the connection filed under each key
  turn,        \* keys check_packets has still to look at in this call
  waiting,     \* connections with a packet to be received
  answering,   \* <<c, key>>: an answer to a packet that came from c
  strayed,     \* history: <<c, d>>: an answer to c that was sent to d
  replaced,    \* history: connections that lost their key to another
  stopped      \* SIGPIPE, or a failed accept, has ended the server

system == <<platform, limit>>
peers  == <<interfaces, conns, open>>
server == <<clients, turn>>
vars   == <<system, peers, backlog, server, waiting, answering, strayed,
            replaced, stopped>>

Connections == 1 .. MaxConnections
None        == 0

Keys == Hosts \X (Ports \cup Tails)

Host(c) == conns[c].host
Port(c) == conns[c].port

\* Mutant: the port is left out on Windows too.
HostOnly(c) == {<<Host(c), tail>> : tail \in Tails}

\* AddressU64 on Windows.
WindowsKeys(c) == {<<Host(c), Port(c)>>}

\* Mutant: the host is left out.
TailOnly(c) == {<<CHOOSE h \in Hosts : TRUE, tail>> : tail \in Tails}

\* AddressU64 on Unix: six bytes from sin_addr on reach four of the host and
\* two of padding; the last two of the integer are not written.
UnixKeys(c) == {<<Host(c), tail>> : tail \in Tails}

AddressU64(c) == IF platform = "windows" THEN WindowsKeys(c) ELSE UnixKeys(c)

Init ==
  /\ platform \in Platforms
  /\ limit \in HandleLimits
  /\ interfaces = {}
  /\ conns = << >>
  /\ open = {}
  /\ backlog = << >>
  /\ clients = [k \in Keys |-> None]
  /\ turn = {}
  /\ waiting = {}
  /\ answering = {}
  /\ strayed = {}
  /\ replaced = {}
  /\ stopped = FALSE
-----------------------------------------------------------------------------
(* The peers. *)

\* A peer connects; TCP allows one open connection for a host and port.
Connect(h, p) ==
  /\ h \notin UnixHosts
  /\ Len(conns) < MaxConnections
  /\ \A c \in open : <<Host(c), Port(c)>> # <<h, p>>
  /\ conns' = Append(conns, [host |-> h, port |-> p])
  /\ open' = open \cup {Len(conns')}
  /\ backlog' = Append(backlog, Len(conns'))
  /\ UNCHANGED <<system, interfaces, server, waiting, answering, strayed,
                 replaced, stopped>>

\* Socket::Connect on Unix passes the size of a pointer as the size of the
\* address: connect fails, Connect returns the address all the same, and the
\* constructor files a socket that is connected to nothing.
ConnectUnix(h) ==
  /\ h \in UnixHosts
  /\ interfaces' = interfaces \cup {h}
  /\ UNCHANGED <<system, conns, open, backlog, server, waiting, answering,
                 strayed, replaced, stopped>>

PeerSend(c) ==
  /\ waiting' = waiting \cup {c}
  /\ UNCHANGED <<system, peers, backlog, server, answering, strayed,
                 replaced, stopped>>

\* What the peer sent before can still be received.
PeerClose(c) ==
  /\ open' = open \ {c}
  /\ UNCHANGED <<system, interfaces, conns, backlog, server, waiting,
                 answering, strayed, replaced, stopped>>
-----------------------------------------------------------------------------
(* The server. *)

Filed(table) == {k \in Keys : table[k] # None}

\* Mutant: buffer and handle are assigned one by one, each to the key of
\* another call of AddressU64.
FiledTwice(c) ==
  {[clients EXCEPT ![j] = c, ![k] = c] : j, k \in AddressU64(c)}

\* clients[phy_addr] = {ClientRecvBuffer(), client_sock}.
FiledAs(c) == {[clients EXCEPT ![k] = c] : k \in AddressU64(c)}

\* Mutant: a server that has a client leaves the others in the backlog.
OneClientOnly == backlog # << >> /\ Filed(clients) = {}

\* GetStatus of the listening socket.
ConnectionReady == backlog # << >>

\* Every handle the server may have is in use, by a client or by one that has
\* closed or was replaced.
OutOfHandles == Len(conns) - Len(backlog) >= limit

\* check_packets begins: it accepts one connection, if there is one.
BeginPoll ==
  /\ turn = {}
  /\ \/ /\ ~ConnectionReady
        /\ turn' = Filed(clients)
        /\ UNCHANGED <<backlog, clients, replaced, stopped>>
     \/ /\ ConnectionReady /\ ~OutOfHandles
        /\ clients' \in FiledAs(Head(backlog))
        /\ replaced' = replaced \cup
             {clients[k] : k \in {k \in Filed(clients) : clients'[k] # clients[k]}}
        /\ backlog' = Tail(backlog)
        /\ turn' = Filed(clients')
        /\ UNCHANGED stopped
     \/ /\ ConnectionReady /\ OutOfHandles \* Accept: exit, or no client
        /\ stopped' = (platform = "unix")
        /\ turn' = Filed(clients)
        /\ UNCHANGED <<backlog, clients, replaced>>
  /\ UNCHANGED <<system, peers, waiting, answering, strayed>>

\* Mutant: a client that has closed is passed over.
ReadableIfOpen(c) == c \in waiting /\ c \in open

\* GetStatus = 1 and GetAvailableBytes > 0.
Readable(c) == c \in waiting

\* One turn of the loop over clients.
Visit(k) ==
  /\ k \in turn
  /\ turn' = turn \ {k}
  /\ \/ /\ Readable(clients[k])
        /\ waiting' = waiting \ {clients[k]}
        /\ answering' = answering \cup {<<clients[k], k>>}
     \/ /\ ~Readable(clients[k])
        /\ UNCHANGED <<waiting, answering>>
  /\ UNCHANGED <<system, peers, backlog, clients, strayed, replaced, stopped>>

\* A Send to a peer that has closed: on Unix the signal ends the process, if
\* the peer's reset has come by then; otherwise the error is ignored.
SendTo(targets) ==
  stopped' \in IF platform = "unix" /\ ~(targets \subseteq open)
               THEN BOOLEAN ELSE {FALSE}

\* send_packet to the key a packet came with, at once or later.
SendPacket(a) ==
  LET to == clients[a[2]]
  IN  /\ answering' = answering \ {a}
      /\ strayed' = IF to \in open \ {a[1]} THEN strayed \cup {<<a[1], to>>}
                    ELSE strayed
      /\ SendTo({to})
  /\ UNCHANGED <<system, peers, backlog, server, waiting, replaced>>

\* send_hello to all clients.
SendHello ==
  /\ SendTo({clients[k] : k \in Filed(clients)})
  /\ UNCHANGED <<system, peers, backlog, server, waiting, answering, strayed,
                 replaced>>
-----------------------------------------------------------------------------
CheckPackets == ~stopped /\ (BeginPoll \/ \E k \in Keys : Visit(k))

Next ==
  \/ CheckPackets
  \/ /\ ~stopped
     /\ \/ \E h \in Hosts : ConnectUnix(h) \/ \E p \in Ports : Connect(h, p)
        \/ \E c \in open : PeerSend(c) \/ PeerClose(c)
        \/ (\E a \in answering : SendPacket(a)) \/ SendHello

Spec == Init /\ [][Next]_vars

\* The mesh thread keeps calling check_packets.
FairSpec == Spec /\ WF_vars(CheckPackets)
-----------------------------------------------------------------------------
\* A connection is filed under one key at most: it is polled once in a call of
\* check_packets and gets one copy of a hello.
TypeOK ==
  /\ platform \in Platforms /\ limit \in HandleLimits
  /\ interfaces \subseteq UnixHosts
  /\ conns \in Seq([host : Hosts, port : Ports])
  /\ open \subseteq DOMAIN conns /\ waiting \subseteq DOMAIN conns
  /\ backlog \in Seq(DOMAIN conns)
  /\ clients \in [Keys -> 0 .. Len(conns)]
  /\ \A j, k \in Filed(clients) : clients[j] = clients[k] => j = k
  /\ turn \subseteq Filed(clients)
  /\ answering \subseteq (DOMAIN conns) \X Filed(clients)
  /\ strayed \subseteq (DOMAIN conns) \X (DOMAIN conns)
  /\ replaced \subseteq DOMAIN conns
  /\ stopped \in BOOLEAN

\* An answer goes to the connection its packet came from, or, if that one was
\* replaced, to another of the same host.
AnswersStayWithHost ==
  \A s \in strayed : s[1] \in replaced /\ Host(s[1]) = Host(s[2])

\* On Windows a client that is connected is never replaced.
ConnectedClientKept == platform = "windows" => replaced \cap open = {}

\* What a client sends is received, even if it closes after it, unless the
\* client is replaced, or not accepted for want of handles, or the server has
\* been ended.
SentIsReceived ==
  \A c \in Connections :
    c \in waiting ~>
      \/ c \notin waiting \/ c \in replaced \/ stopped
      \/ OutOfHandles /\ c \notin {clients[k] : k \in Keys}

\* Every connection is accepted in the end, whatever the clients before it do,
\* unless the handles run out or the server has been ended.
ConnectionsAccepted ==
  \A c \in Connections :
    (\E i \in DOMAIN backlog : backlog[i] = c) ~>
      \/ \A i \in DOMAIN backlog : backlog[i] # c
      \/ OutOfHandles
      \/ stopped

\* The README's example connects a client to a socket server; the constructor
\* throws MeshSocketInterfaceConnectionException if it cannot.
ConstructedIsConnected ==
  \A h \in interfaces : \E c \in DOMAIN conns : Host(c) = h
=============================================================================
