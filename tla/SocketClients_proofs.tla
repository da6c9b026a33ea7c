------------------------ MODULE SocketClients_proofs ------------------------
(* Proofs about SocketClients, for every value of its constants. *)
EXTENDS SocketClients, TLAPS

\* How many connections the server has accepted.
Accepted == Len(conns) - Len(backlog)

\* The backlog holds the connections after those, in order.
InLine ==
  /\ Len(backlog) <= Len(conns)
  /\ \A i \in 1 .. Len(backlog) : backlog[i] = Accepted + i
  /\ \A k \in Keys : clients[k] <= Accepted

TypeInv == TypeOK /\ InLine

\* Initially nothing is connected.
LEMMA InitTypeInv == Init => TypeInv
<1> SUFFICES ASSUME Init PROVE TypeInv
  OBVIOUS
<1>1. conns = << >> /\ backlog = << >> /\ Filed(clients) = {}
  BY DEF Init, Filed
<1>2. clients \in [Keys -> 0 .. Len(conns)]
  BY <1>1 DEF Init, None
<1>3. TypeOK
  <2>1. conns \in Seq([host : Hosts, port : Ports]) /\ backlog \in Seq(DOMAIN conns)
    BY <1>1
  <2>2. Len(conns) = 0 /\ DOMAIN conns = {}
    BY <1>1
  <2> QED
    BY <1>1, <1>2, <2>1, <2>2 DEF Init, TypeOK
<1>4. InLine
  BY <1>1 DEF Init, InLine, Accepted, None
<1> QED
  BY <1>3, <1>4 DEF TypeInv

\* The keys AddressU64 makes of a connection are keys, and have its host; on
\* Windows there is one, and it has the port too.
LEMMA AddressHasHost ==
  ASSUME TypeOK, NEW c \in 1 .. Len(conns), NEW k \in AddressU64(c)
  PROVE  /\ k \in Keys /\ k[1] = Host(c)
         /\ platform = "windows" => k[2] = Port(c)
<1>1. Host(c) \in Hosts /\ Port(c) \in Ports
  <2> DEFINE Peer == [host : Hosts, port : Ports]
  <2>1. conns \in Seq(Peer)
    BY DEF TypeOK
  <2> HIDE DEF Peer
  <2>2. conns[c] \in Peer
    BY <2>1
  <2> QED
    BY <2>2 DEF Host, Port, Peer
<1>2. CASE platform = "windows"
  <2>1. k = <<Host(c), Port(c)>>
    BY <1>2 DEF AddressU64, WindowsKeys
  <2> QED
    BY <1>1, <2>1 DEF Keys
<1>3. CASE platform # "windows"
  <2>1. PICK tail \in Tails : k = <<Host(c), tail>>
    BY <1>3 DEF AddressU64, UnixKeys
  <2> QED
    BY <1>1, <1>3, <2>1 DEF Keys
<1> QED
  BY <1>2, <1>3

\* What accepting a connection does to the table: the connection is new to it.
LEMMA AcceptFiles ==
  ASSUME TypeInv, backlog # << >>, clients' \in FiledAs(Head(backlog))
  PROVE  /\ Head(backlog) = Accepted + 1
         /\ Head(backlog) \in 1 .. Len(conns)
         /\ \E k \in AddressU64(Head(backlog)) :
              /\ k \in Keys
              /\ clients' = [clients EXCEPT ![k] = Head(backlog)]
         /\ Len(backlog) > 0
<1> DEFINE c == Head(backlog)
<1>1. Len(backlog) > 0 /\ c = backlog[1]
  BY DEF TypeInv, TypeOK
<1>2. c = Accepted + 1 /\ c \in 1 .. Len(conns)
  BY <1>1 DEF TypeInv, TypeOK, InLine, Accepted
<1>3. PICK k \in AddressU64(c) : clients' = [clients EXCEPT ![k] = c]
  BY DEF FiledAs
<1>4. k \in Keys
  BY <1>2, AddressHasHost DEF TypeInv
<1> QED
  BY <1>1, <1>2, <1>3, <1>4

\* Every action keeps the types.
LEMMA NextTypeInv == TypeInv /\ [Next]_vars => TypeInv'
<1> SUFFICES ASSUME TypeInv, [Next]_vars PROVE TypeInv'
  OBVIOUS
<1> USE DEF TypeInv, TypeOK, system, peers, server
<1>1. ASSUME NEW h \in Hosts, NEW p \in Ports, Connect(h, p) PROVE TypeInv'
  <2>1. /\ conns' = Append(conns, [host |-> h, port |-> p])
        /\ Len(conns') = Len(conns) + 1
        /\ conns' \in Seq([host : Hosts, port : Ports])
    BY <1>1 DEF Connect
  <2>2. /\ backlog' = Append(backlog, Len(conns'))
        /\ Len(backlog') = Len(backlog) + 1
        /\ backlog' \in Seq(DOMAIN conns')
    <3>1. backlog \in Seq(DOMAIN conns') /\ Len(conns') \in DOMAIN conns'
      BY <2>1
    <3> QED
      BY <1>1, <3>1 DEF Connect
  <2>3. Accepted' = Accepted
    BY <2>1, <2>2 DEF Accepted
  <2>4. InLine'
    <3>1. clients' = clients /\ Len(backlog') <= Len(conns')
      BY <1>1, <2>1, <2>2 DEF Connect, InLine
    <3>2. \A i \in 1 .. Len(backlog') : backlog'[i] = Accepted + i
      BY <2>1, <2>2, SMTT(20) DEF InLine, Accepted
    <3> QED
      BY <2>3, <3>1, <3>2 DEF InLine
  <2>5. clients' \in [Keys -> 0 .. Len(conns')] /\ Filed(clients') = Filed(clients)
        /\ clients' = clients
    BY <1>1, <2>1 DEF Connect
  <2> QED
    BY <1>1, <2>1, <2>2, <2>4, <2>5 DEF Connect
<1>2. ASSUME NEW h \in Hosts, ConnectUnix(h) PROVE TypeInv'
  BY <1>2 DEF ConnectUnix, InLine, Accepted
<1>3. ASSUME NEW c \in open, PeerSend(c) \/ PeerClose(c) PROVE TypeInv'
  BY <1>3 DEF PeerSend, PeerClose, InLine, Accepted
<1>4. CASE BeginPoll
  <2>1. CASE UNCHANGED <<backlog, clients>>
    BY <1>4, <2>1 DEF BeginPoll, InLine, Accepted
  <2>2. CASE ConnectionReady /\ clients' \in FiledAs(Head(backlog)) /\ backlog' = Tail(backlog)
    <3> DEFINE c == Head(backlog)
    <3>1. /\ c = Accepted + 1 /\ c \in 1 .. Len(conns) /\ Len(backlog) > 0
      BY <2>2, AcceptFiles DEF ConnectionReady
    <3>2. PICK k \in Keys : clients' = [clients EXCEPT ![k] = c]
      BY <2>2, AcceptFiles DEF ConnectionReady
    <3>3. UNCHANGED <<system, peers, waiting, answering, strayed>> /\ turn' = Filed(clients')
      BY <1>4, <2>2 DEF BeginPoll
    <3>t. Len(backlog') = Len(backlog) - 1 /\ UNCHANGED conns
      BY <2>2, <3>1, <3>3
    <3>4. Accepted' = Accepted + 1
      BY <3>1, <3>t DEF Accepted
    <3>5. InLine'
      <4>1. \A j \in Keys : clients'[j] <= Accepted + 1
        BY <3>1, <3>2 DEF InLine, Accepted
      <4>2. \A i \in 1 .. Len(backlog') : backlog'[i] = backlog[i + 1]
        BY <2>2, <3>1
      <4> QED
        BY <3>1, <3>t, <3>4, <4>1, <4>2 DEF InLine, Accepted
    <3>6. clients' \in [Keys -> 0 .. Len(conns)]
      BY <3>1, <3>2
    <3>7. \A j \in Keys : clients[j] # c
      BY <3>1 DEF InLine, Accepted
    <3>8. Filed(clients) \subseteq Filed(clients')
      BY <3>1, <3>2 DEF Filed, None
    <3>9. \A i, j \in Filed(clients') : clients'[i] = clients'[j] => i = j
      BY <3>2, <3>7 DEF Filed
    <3>10. backlog' \in Seq(DOMAIN conns)
      BY <2>2, <3>1
    <3>11. replaced' \subseteq DOMAIN conns /\ stopped' \in BOOLEAN
      <4>1. \A j \in Filed(clients) : clients[j] \in 1 .. Len(conns)
        BY DEF Filed, None
      <4> QED
        BY <1>4, <2>2, <4>1 DEF BeginPoll, ConnectionReady
    <3> QED
      BY <3>3, <3>5, <3>6, <3>8, <3>9, <3>10, <3>11
  <2> QED
    BY <1>4, <2>1, <2>2 DEF BeginPoll
<1>5. ASSUME NEW k \in Keys, Visit(k) PROVE TypeInv'
  <2>1. k \in Filed(clients) /\ clients[k] \in 1 .. Len(conns)
    BY <1>5 DEF Visit, Filed, None
  <2> QED
    BY <1>5, <2>1 DEF Visit, InLine, Accepted
<1>6. ASSUME NEW a \in answering, SendPacket(a) PROVE TypeInv'
  <2>1. a[1] \in 1 .. Len(conns)
    OBVIOUS
  <2>2. strayed' \subseteq (DOMAIN conns) \X (DOMAIN conns)
    <3>1. strayed' = strayed \/ \E d \in open : strayed' = strayed \cup {<<a[1], d>>}
      BY <1>6 DEF SendPacket
    <3> QED
      BY <2>1, <3>1
  <2>3. stopped' \in BOOLEAN
    BY <1>6 DEF SendPacket, SendTo
  <2>4. UNCHANGED <<system, peers, backlog, server, waiting, replaced>>
        /\ answering' \subseteq answering
    BY <1>6 DEF SendPacket
  <2> QED
    BY <2>2, <2>3, <2>4 DEF InLine, Accepted
<1>7. CASE SendHello
  BY <1>7 DEF SendHello, SendTo, InLine, Accepted
<1>8. CASE UNCHANGED vars
  BY <1>8 DEF vars, InLine, Accepted
<1> QED
  BY <1>1, <1>2, <1>3, <1>4, <1>5, <1>6, <1>7, <1>8 DEF Next, CheckPackets

\* The variables have their types, and a connection is filed under one key.
THEOREM TypeCorrect == Spec => []TypeOK
<1>1. Spec => []TypeInv
  BY InitTypeInv, NextTypeInv, PTL DEF Spec
<1> QED
  BY <1>1, PTL DEF TypeInv

\* A client has its host's key, and on Windows the key of its port; an answer is
\* on its way to the host it is for, and to another of it only after the one it
\* is for was replaced.
Keyed ==
  /\ \A k \in Filed(clients) :
       /\ k[1] = Host(clients[k])
       /\ platform = "windows" => k[2] = Port(clients[k])
  /\ \A a \in answering :
       /\ a[2][1] = Host(a[1])
       /\ clients[a[2]] = a[1] \/ a[1] \in replaced
  /\ AnswersStayWithHost

\* A host and port that are connected are not those of an earlier connection
\* that is open.
OpenIsLast ==
  \A c, d \in DOMAIN conns :
    c < d /\ Host(c) = Host(d) /\ Port(c) = Port(d) => c \notin open

ClientsInv == Keyed /\ OpenIsLast /\ ConnectedClientKept

\* Initially no key is taken.
LEMMA InitClientsInv == Init => ClientsInv
  BY DEF Init, ClientsInv, Keyed, OpenIsLast, AnswersStayWithHost,
         ConnectedClientKept, Filed

\* A step leaves the connections there are as they are.
LEMMA HostsKept ==
  ASSUME TypeInv, [Next]_vars
  PROVE  /\ Len(conns') >= Len(conns)
         /\ \A c \in 1 .. Len(conns) : conns'[c] = conns[c]
<1>1. ASSUME NEW h \in Hosts, NEW p \in Ports, Connect(h, p)
      PROVE  /\ Len(conns') >= Len(conns)
             /\ \A c \in 1 .. Len(conns) : conns'[c] = conns[c]
  BY <1>1 DEF Connect, TypeInv, TypeOK
<1>2. (\E h \in Hosts, p \in Ports : Connect(h, p)) \/ UNCHANGED conns
  BY DEF Next, CheckPackets, vars, peers, ConnectUnix, PeerSend, PeerClose, BeginPoll,
         Visit, SendPacket, SendHello
<1> QED
  BY <1>1, <1>2 DEF TypeInv, TypeOK

\* A connection that is open is the last of its peer.
LEMMA NextOpenIsLast == TypeInv /\ OpenIsLast /\ [Next]_vars => OpenIsLast'
<1> SUFFICES ASSUME TypeInv, OpenIsLast, [Next]_vars PROVE OpenIsLast'
  OBVIOUS
<1> USE DEF TypeInv, TypeOK
<1>1. ASSUME NEW h \in Hosts, NEW p \in Ports, Connect(h, p) PROVE OpenIsLast'
  <2>1. /\ Len(conns') = Len(conns) + 1
        /\ \A c \in 1 .. Len(conns) : conns'[c] = conns[c]
        /\ conns'[Len(conns) + 1] = [host |-> h, port |-> p]
        /\ DOMAIN conns' = 1 .. Len(conns) + 1
        /\ open' = open \cup {Len(conns) + 1}
    BY <1>1 DEF Connect
  <2> SUFFICES ASSUME NEW c \in DOMAIN conns', NEW d \in DOMAIN conns', c < d,
                      Host(c)' = Host(d)', Port(c)' = Port(d)'
               PROVE  c \notin open'
    BY DEF OpenIsLast
  <2>2. c \in 1 .. Len(conns) /\ Host(c)' = Host(c) /\ Port(c)' = Port(c)
    BY <2>1 DEF Host, Port
  <2>3. CASE d \in 1 .. Len(conns)
    <3>1. Host(d)' = Host(d) /\ Port(d)' = Port(d)
      BY <2>1, <2>3 DEF Host, Port
    <3>2. c \in DOMAIN conns /\ d \in DOMAIN conns /\ c # Len(conns) + 1
      BY <2>2, <2>3
    <3>3. Host(c) = Host(d) /\ Port(c) = Port(d)
      BY <2>2, <3>1
    <3>4. c \notin open
      BY <3>2, <3>3 DEF OpenIsLast
    <3> QED
      BY <2>1, <3>2, <3>4
  <2>4. CASE d = Len(conns) + 1
    <3>1. Host(d)' = h /\ Port(d)' = p
      BY <2>1, <2>4 DEF Host, Port
    <3>2. Host(c) = h /\ Port(c) = p
      BY <2>2, <3>1
    <3>3. c \notin open
      BY <1>1, <3>2 DEF Connect
    <3>4. c # Len(conns) + 1
      BY <2>2
    <3> QED
      BY <2>1, <3>3, <3>4
  <2> QED
    BY <2>1, <2>3, <2>4
<1>2. (\E h \in Hosts, p \in Ports : Connect(h, p))
      \/ (UNCHANGED conns /\ open' \subseteq open)
  BY DEF Next, CheckPackets, vars, peers, ConnectUnix, PeerSend, PeerClose, BeginPoll,
         Visit, SendPacket, SendHello
<1> QED
  BY <1>1, <1>2 DEF OpenIsLast, Host, Port

\* Accepting a connection replaces at most the client that has its key, and that
\* client is one of the same host; on Windows it is closed.
LEMMA NextKeyedPoll ==
  ASSUME TypeInv, Keyed, OpenIsLast, ConnectedClientKept, BeginPoll
  PROVE  Keyed' /\ ConnectedClientKept'
<1> USE DEF TypeInv, TypeOK, peers, system
<1>1. UNCHANGED <<conns, platform, open, answering, strayed>>
  BY DEF BeginPoll
<1>2. CASE UNCHANGED <<clients, replaced>>
  BY <1>1, <1>2 DEF Keyed, Filed, Host, Port, AnswersStayWithHost, ConnectedClientKept
<1>3. CASE /\ ConnectionReady
           /\ clients' \in FiledAs(Head(backlog))
           /\ replaced' = replaced \cup
                {clients[k] : k \in {k \in Filed(clients) : clients'[k] # clients[k]}}
  <2> DEFINE c == Head(backlog)
  <2>1. PICK k \in AddressU64(c) : k \in Keys /\ clients' = [clients EXCEPT ![k] = c]
    BY <1>3, AcceptFiles DEF ConnectionReady
  <2>2. c = Accepted + 1 /\ c \in 1 .. Len(conns)
    BY <1>3, AcceptFiles DEF ConnectionReady
  <2> HIDE DEF c
  <2>3. k[1] = Host(c) /\ (platform = "windows" => k[2] = Port(c))
    BY <2>1, <2>2, AddressHasHost
  <2>4. \A j \in Filed(clients') :
          \/ j = k /\ clients'[j] = c
          \/ j \in Filed(clients) /\ clients'[j] = clients[j]
    BY <2>1 DEF Filed
  <2>5. \A j \in Filed(clients)' :
          /\ j[1] = Host(clients[j])'
          /\ platform' = "windows" => j[2] = Port(clients[j])'
    BY <1>1, <2>3, <2>4 DEF Keyed, Host, Port, Filed
  <2>6. \A j \in Filed(clients) : clients'[j] = clients[j] \/ clients[j] \in replaced'
    BY <1>3
  <2>7. replaced \subseteq replaced'
    BY <1>3
  <2>8. \A a \in answering' :
          /\ a[2][1] = Host(a[1])'
          /\ clients'[a[2]] = a[1] \/ a[1] \in replaced'
    BY <1>1, <2>6, <2>7 DEF Keyed, Host
  <2>9. AnswersStayWithHost'
    BY <1>1, <2>7 DEF Keyed, AnswersStayWithHost, Host
  <2>10. ASSUME platform = "windows", NEW d \in replaced', d \in open
         PROVE  FALSE
    <3>1. d \notin replaced
      BY <2>10 DEF ConnectedClientKept
    <3>2. PICK j \in Filed(clients) : clients'[j] # clients[j] /\ d = clients[j]
      BY <1>3, <2>10, <3>1
    <3>3. j = k
      BY <2>1, <3>2
    <3>4. Host(d) = Host(c) /\ Port(d) = Port(c)
      BY <2>3, <2>10, <3>2, <3>3 DEF Keyed
    <3>5. d \in 1 .. Len(conns) /\ d < c
      <4>1. d \in Nat /\ d <= Accepted /\ d # 0 /\ d <= Len(conns)
        BY <3>2 DEF InLine, Filed, None
      <4> QED
        BY <2>2, <4>1 DEF Accepted
    <3> QED
      BY <2>2, <2>10, <3>4, <3>5 DEF OpenIsLast
  <2> QED
    BY <1>1, <2>5, <2>8, <2>9, <2>10 DEF Keyed, ConnectedClientKept
<1> QED
  BY <1>2, <1>3 DEF BeginPoll

\* A client is filed under the key of its connection.
LEMMA NextKeyed ==
  ASSUME TypeInv, Keyed, OpenIsLast, ConnectedClientKept, [Next]_vars
  PROVE  Keyed' /\ ConnectedClientKept'
<1> USE DEF TypeInv, TypeOK, peers, system, server
<1>1. \A c \in 1 .. Len(conns) : Host(c)' = Host(c) /\ Port(c)' = Port(c)
  BY HostsKept DEF Host, Port
<1>2. \A k \in Filed(clients) : clients[k] \in 1 .. Len(conns)
  BY DEF Filed, None
<1>3. ASSUME UNCHANGED <<platform, clients, replaced>>, strayed' = strayed,
             answering' \subseteq answering
      PROVE  Keyed'
  <2>1. ASSUME NEW k \in Filed(clients)'
        PROVE  k[1] = Host(clients[k])' /\ (platform' = "windows" => k[2] = Port(clients[k])')
    <3>1. k \in Filed(clients) /\ clients' = clients
      BY <1>3 DEF Filed
    <3>2. Host(clients[k])' = Host(clients[k]) /\ Port(clients[k])' = Port(clients[k])
      BY <1>1, <1>2, <3>1
    <3> QED
      BY <1>3, <3>1, <3>2 DEF Keyed
  <2>2. ASSUME NEW a \in answering'
        PROVE  a[2][1] = Host(a[1])' /\ (clients'[a[2]] = a[1] \/ a[1] \in replaced')
    <3>1. a \in answering /\ a[1] \in 1 .. Len(conns)
      BY <1>3
    <3>2. Host(a[1])' = Host(a[1])
      BY <1>1, <3>1
    <3> QED
      BY <1>3, <3>1, <3>2 DEF Keyed
  <2>3. ASSUME NEW s \in strayed'
        PROVE  s[1] \in replaced' /\ Host(s[1])' = Host(s[2])'
    <3>1. s \in strayed /\ s[1] \in 1 .. Len(conns) /\ s[2] \in 1 .. Len(conns)
      BY <1>3
    <3>2. Host(s[1])' = Host(s[1]) /\ Host(s[2])' = Host(s[2])
      BY <1>1, <3>1
    <3> QED
      BY <1>3, <3>1, <3>2 DEF Keyed, AnswersStayWithHost
  <2> QED
    BY <2>1, <2>2, <2>3 DEF Keyed, AnswersStayWithHost
<1>4. ASSUME UNCHANGED <<platform, replaced>>,
             open' \subseteq open \/ (open' \cap 1 .. Len(conns)) \subseteq open
      PROVE  ConnectedClientKept'
  BY <1>4 DEF ConnectedClientKept
<1>5. ASSUME NEW h \in Hosts, NEW p \in Ports, Connect(h, p)
      PROVE  Keyed' /\ ConnectedClientKept'
  <2>1. /\ UNCHANGED <<platform, clients, replaced, strayed, answering>>
        /\ open' = open \cup {Len(conns')} /\ Len(conns') = Len(conns) + 1
    BY <1>5 DEF Connect
  <2> QED
    BY <1>3, <1>4, <2>1
<1>6. ASSUME NEW k \in Keys, Visit(k) PROVE Keyed' /\ ConnectedClientKept'
  <2>1. /\ UNCHANGED <<platform, conns, clients, replaced, strayed, open>>
        /\ \A a \in answering' : a \in answering \/ a = <<clients[k], k>>
        /\ k \in Filed(clients)
    BY <1>6 DEF Visit
  <2>2. Keyed'
    BY <2>1 DEF Keyed, AnswersStayWithHost, Filed, Host, Port
  <2> QED
    BY <1>4, <2>1, <2>2
<1>7. ASSUME NEW a \in answering, SendPacket(a) PROVE Keyed' /\ ConnectedClientKept'
  <2> DEFINE to == clients[a[2]]
  <2>1. /\ UNCHANGED <<platform, conns, clients, replaced, open>>
        /\ answering' \subseteq answering
        /\ strayed' = strayed \/ (to # a[1] /\ strayed' = strayed \cup {<<a[1], to>>})
    BY <1>7 DEF SendPacket
  <2>2. a[2] \in Filed(clients) /\ a[2][1] = Host(a[1])
        /\ (to = a[1] \/ a[1] \in replaced)
    BY DEF Keyed
  <2>3. Host(to) = Host(a[1])
    BY <2>2 DEF Keyed
  <2>4. AnswersStayWithHost'
    BY <2>1, <2>2, <2>3 DEF Keyed, AnswersStayWithHost, Host
  <2>5. Keyed'
    BY <2>1, <2>4 DEF Keyed, Filed, Host, Port
  <2> QED
    BY <1>4, <2>1, <2>5
<1>8. CASE BeginPoll
  BY <1>8, NextKeyedPoll
<1>9. CASE /\ UNCHANGED <<platform, clients, replaced, strayed, answering>>
           /\ open' \subseteq open
  BY <1>3, <1>4, <1>9
<1> QED
  BY <1>5, <1>6, <1>7, <1>8, <1>9
  DEF Next, CheckPackets, vars, ConnectUnix, PeerSend, PeerClose, SendHello

\* The table, the backlog and the open connections always go together.
THEOREM ClientsInvariant == Spec => []ClientsInv
<1>1. Spec => []TypeInv
  BY InitTypeInv, NextTypeInv, PTL DEF Spec
<1>2. TypeInv /\ ClientsInv /\ [Next]_vars => ClientsInv'
  BY NextOpenIsLast, NextKeyed DEF ClientsInv
<1> QED
  BY <1>1, <1>2, InitClientsInv, PTL DEF Spec

\* An answer goes to the connection its packet came from, or to another of the
\* same host that replaced it, on either platform and for all uninitialised bytes.
THEOREM AnswersStay == Spec => []AnswersStayWithHost
<1>1. ClientsInv => AnswersStayWithHost
  BY DEF ClientsInv, Keyed
<1> QED
  BY <1>1, ClientsInvariant, PTL

\* On Windows a client that is connected is never replaced.
THEOREM ConnectedClientsKept == Spec => []ConnectedClientKept
<1>1. ClientsInv => ConnectedClientKept
  BY DEF ClientsInv
<1> QED
  BY <1>1, ClientsInvariant, PTL
=============================================================================
