------------------------ MODULE SocketStream_proofs ------------------------
(***************************************************************************)
(* Proofs about SocketStream, for every value of its constants.            *)
(*                                                                         *)
(* The invariant is about what the streams do not show: for each direction *)
(* that is not torn there is a line of whole packets, of which the sender  *)
(* has written the first s bytes and the receiver has taken the first r.   *)
(***************************************************************************)
EXTENDS SocketStream, SequenceTheorems, TLAPS

TypeInv == TypeOK /\ Len(sent) <= MaxPackets

\* Bytes of packet p on the stream: its size field and its payload.
Total(p) == HeaderSize + sent[p].size

\* Line is whole packets, in the order end d sent them: byte i is in its place in
\* a packet that is all there.
WholePackets(d, line) ==
  \A i \in 1 .. Len(line) :
    LET p == line[i][1]
        k == line[i][2]
    IN  /\ p \in Packets /\ sent[p].end = d
        /\ k \in 1 .. Total(p) /\ k <= i /\ i - k + Total(p) <= Len(line)
        /\ \A j \in 1 .. Total(p) : line[i - k + j] = <<p, j>>

InOrder(line) ==
  \A i, j \in 1 .. Len(line) :
    i < j => \/ line[i][1] < line[j][1]
             \/ line[i][1] = line[j][1] /\ j - i = line[j][2] - line[i][2]

\* End e has taken the first r bytes of line.
TakenBy(e, line, r) ==
  IF buffer[e] = Fresh
  THEN r < Len(line) => line[r + 1][2] = 1
  ELSE LET n == Len(buffer[e].data)
       IN  /\ r >= HeaderSize + n
           /\ line[r][2] = HeaderSize + n
           /\ buffer[e].size = sent[line[r][1]].size
           /\ buffer[e].data = SubSeq(Payload(line[r][1]), 1, n)

\* What e was handed are packets of its peer, whole and in order.
HandedOver(e) ==
  /\ \A i \in DOMAIN delivered[e] :
       /\ Got(e)[i] \in Packets
       /\ delivered[e][i] = Payload(Got(e)[i])
       /\ sent[Got(e)[i]].end = Peer(e)
  /\ \A i, j \in DOMAIN delivered[e] : i < j => Got(e)[i] < Got(e)[j]

\* The rest of line are the packets that e was not handed yet.
StillToCome(e, line, r) ==
  /\ \A i \in DOMAIN delivered[e], j \in r + 1 .. Len(line) : Got(e)[i] < line[j][1]
  /\ \A p \in Packets :
       sent[p].end = Peer(e) =>
         \/ \E i \in DOMAIN delivered[e] : Got(e)[i] = p
         \/ \E j \in r + 1 .. Len(line) : line[j][1] = p

\* Once thread t is done with its current Send, which ends with byte m, it has
\* the payload of packet next[t] to write, if any.
Behind(t, line, m) ==
  IF next[t] = None THEN m = Len(line)
  ELSE /\ m >= 1 /\ line[m] = <<next[t], HeaderSize>>
       /\ Len(line) = m + sent[next[t]].size

\* A thread inside send_packet is alone at its end, and has the rest of line,
\* from byte s + 1 on, still to write, unless the client has ended.
ToWrite(d, line, s) ==
  d[2] \notin closed =>
  /\ \A t \in Threads : Writes(t, d) =>
       /\ \A u \in Threads \ {t} : ~Writes(u, d)
       /\ \E m \in s .. Len(line) :
            /\ left[t] = SubSeq(line, s + 1, m) /\ Len(left[t]) = m - s
            /\ Behind(t, line, m)
  /\ (\A t \in Threads : ~Writes(t, d)) => s = Len(line)

\* End d has written the first s bytes of line, its peer has taken r of them.
Flow(d, line, r, s) ==
  /\ WholePackets(d, line) /\ InOrder(line)
  /\ r <= s /\ s <= Len(line)
  /\ stream[d] = SubSeq(line, r + 1, s)
  /\ TakenBy(Peer(d), line, r)
  /\ StillToCome(Peer(d), line, r)
  /\ ToWrite(d, line, s)

FlowInv ==
  \A d \in Ends \ torn :
    /\ HandedOver(Peer(d))
    /\ \E line \in Seq(Byte), r, s \in Nat : Flow(d, line, r, s)

-----------------------------------------------------------------------------
(* Slices of sequences. *)

\* SubSeq(q, a + 1, b) is what lies between the cuts a and b.
LEMMA Slice ==
  ASSUME NEW S, NEW q \in Seq(S), NEW a \in Nat, NEW b \in Nat, a <= b, b <= Len(q)
  PROVE  /\ SubSeq(q, a + 1, b) \in Seq(S)
         /\ Len(SubSeq(q, a + 1, b)) = b - a
         /\ \A i \in 1 .. b - a : SubSeq(q, a + 1, b)[i] = q[a + i]
<1>1. \A i \in a + 1 .. b : q[i] \in S
  BY ElementOfSeq
<1>2. /\ SubSeq(q, a + 1, b) \in Seq(S)
      /\ Len(SubSeq(q, a + 1, b)) = IF a + 1 <= b THEN b - (a + 1) + 1 ELSE 0
      /\ \A i \in 1 .. b - (a + 1) + 1 : SubSeq(q, a + 1, b)[i] = q[a + 1 + i - 1]
  <2>1. a + 1 \in Int /\ b \in Int
    OBVIOUS
  <2> QED
    BY <1>1, <2>1, SubSeqProperties
<1> QED
  BY <1>2

\* A slice of a slice is a slice.
LEMMA SliceOfSlice ==
  ASSUME NEW S, NEW q \in Seq(S), NEW a \in Nat, NEW b \in Nat, a <= b, b <= Len(q),
         NEW i \in Nat, NEW j \in Nat, i <= j, j <= b - a
  PROVE  SubSeq(SubSeq(q, a + 1, b), i + 1, j) = SubSeq(q, a + i + 1, a + j)
<1> DEFINE x == SubSeq(q, a + 1, b)
           y == SubSeq(x, i + 1, j)
           z == SubSeq(q, a + i + 1, a + j)
<1>1. /\ x \in Seq(S) /\ Len(x) = b - a
      /\ \A k \in 1 .. b - a : x[k] = q[a + k]
  BY Slice
<1> HIDE DEF x
<1>2. /\ y \in Seq(S) /\ Len(y) = j - i
      /\ \A k \in 1 .. j - i : y[k] = x[i + k]
  BY <1>1, Slice
<1>3. /\ z \in Seq(S) /\ Len(z) = j - i
      /\ \A k \in 1 .. j - i : z[k] = q[a + i + k]
  <2>1. a + i \in Nat /\ a + j \in Nat /\ a + i <= a + j /\ a + j <= Len(q)
    OBVIOUS
  <2> QED
    BY <2>1, Slice
<1> HIDE DEF y, z
<1>4. \A k \in 1 .. Len(y) : y[k] = z[k]
  BY <1>1, <1>2, <1>3
<1>5. y = z
  BY <1>2, <1>3, <1>4, SeqEqual
<1> QED
  BY <1>5 DEF x, y, z

\* Two slices that meet make one.
LEMMA SliceConcat ==
  ASSUME NEW S, NEW q \in Seq(S), NEW a \in Nat, NEW b \in Nat, NEW c \in Nat,
         a <= b, b <= c, c <= Len(q)
  PROVE  SubSeq(q, a + 1, b) \o SubSeq(q, b + 1, c) = SubSeq(q, a + 1, c)
<1>1. a + 1 \in 1 .. Len(q) + 1 /\ b \in a + 1 - 1 .. Len(q) /\ c \in b .. Len(q)
  OBVIOUS
<1> QED
  BY <1>1, ConcatAdjacentSubSeq

\* The same for slices that begin at the front.
LEMMA FrontOfSlice ==
  ASSUME NEW S, NEW q \in Seq(S), NEW a \in Nat, NEW b \in Nat, a <= b, b <= Len(q),
         NEW j \in Nat, j <= b - a
  PROVE  SubSeq(SubSeq(q, a + 1, b), 1, j) = SubSeq(q, a + 1, a + j)
<1>1. PICK i \in Nat : i = 0
  OBVIOUS
<1>2. SubSeq(SubSeq(q, a + 1, b), i + 1, j) = SubSeq(q, a + i + 1, a + j)
  BY <1>1, SliceOfSlice
<1>3. i + 1 = 1 /\ a + i + 1 = a + 1
  BY <1>1
<1> QED
  BY <1>2, <1>3

\* Two that meet, of which the first begins at the front.
LEMMA FrontConcat ==
  ASSUME NEW S, NEW q \in Seq(S), NEW b \in Nat, NEW c \in Nat, b <= c, c <= Len(q)
  PROVE  SubSeq(q, 1, b) \o SubSeq(q, b + 1, c) = SubSeq(q, 1, c)
<1>1. PICK a \in Nat : a = 0
  OBVIOUS
<1>2. SubSeq(q, a + 1, b) \o SubSeq(q, b + 1, c) = SubSeq(q, a + 1, c)
  BY <1>1, SliceConcat
<1>3. a + 1 = 1
  BY <1>1
<1> QED
  BY <1>2, <1>3

\* A slice of the first part of a sequence, and the second part as a slice.
LEMMA SliceOfConcat ==
  ASSUME NEW S, NEW q \in Seq(S), NEW w \in Seq(S),
         NEW a \in Nat, NEW b \in Nat, a <= b, b <= Len(q)
  PROVE  /\ SubSeq(q \o w, a + 1, b) = SubSeq(q, a + 1, b)
         /\ SubSeq(q \o w, Len(q) + 1, Len(q) + Len(w)) = w
<1> DEFINE qw == q \o w
           x == SubSeq(qw, a + 1, b)
           y == SubSeq(q, a + 1, b)
           z == SubSeq(qw, Len(q) + 1, Len(q) + Len(w))
<1>1. /\ qw \in Seq(S) /\ Len(qw) = Len(q) + Len(w)
      /\ \A i \in 1 .. Len(q) + Len(w) :
           qw[i] = IF i <= Len(q) THEN q[i] ELSE w[i - Len(q)]
  BY ConcatProperties
<1>2. Len(q) \in Nat /\ Len(w) \in Nat
  OBVIOUS
<1> HIDE DEF qw
<1>3. /\ x \in Seq(S) /\ Len(x) = b - a
      /\ \A k \in 1 .. b - a : x[k] = qw[a + k]
  BY <1>1, <1>2, Slice
<1>4. /\ y \in Seq(S) /\ Len(y) = b - a
      /\ \A k \in 1 .. b - a : y[k] = q[a + k]
  BY <1>1, <1>2, Slice
<1>5. /\ z \in Seq(S) /\ Len(z) = Len(w)
      /\ \A k \in 1 .. Len(w) : z[k] = qw[Len(q) + k]
  <2>1. Len(q) + Len(w) \in Nat /\ Len(q) <= Len(q) + Len(w)
    BY <1>2
  <2>2. /\ z \in Seq(S) /\ Len(z) = Len(q) + Len(w) - Len(q)
        /\ \A k \in 1 .. Len(q) + Len(w) - Len(q) : z[k] = qw[Len(q) + k]
    BY <1>1, <1>2, <2>1, Slice
  <2> QED
    BY <1>2, <2>2
<1> HIDE DEF x, y, z
<1>6. x = y
  <2>1. ASSUME NEW k \in 1 .. Len(x) PROVE x[k] = y[k]
    <3>1. x[k] = qw[a + k] /\ y[k] = q[a + k]
      BY <1>3, <1>4
    <3>2. a + k \in 1 .. Len(q) + Len(w) /\ a + k <= Len(q)
      BY <1>2, <1>3
    <3> QED
      BY <1>1, <3>1, <3>2
  <2> QED
    BY <1>3, <1>4, <2>1, SeqEqual
<1>7. z = w
  <2>1. ASSUME NEW k \in 1 .. Len(z) PROVE z[k] = w[k]
    <3> DEFINE j == Len(q) + k
    <3>1. z[k] = qw[j] /\ k \in 1 .. Len(w)
      BY <1>5
    <3>2. j \in 1 .. Len(q) + Len(w) /\ ~ (j <= Len(q)) /\ j - Len(q) = k
      BY <1>2, <3>1
    <3> HIDE DEF j
    <3> QED
      BY <1>1, <3>1, <3>2
  <2> QED
    BY <1>5, <2>1, SeqEqual
<1> QED
  BY <1>6, <1>7 DEF x, y, z, qw
-----------------------------------------------------------------------------
(* Types. *)

\* A size field and a payload are bytes of their packet, in order.
LEMMA PacketBytes ==
  ASSUME NEW p \in 1 .. MaxPackets
  PROVE  /\ Header(p) \in Seq(Byte) /\ Len(Header(p)) = HeaderSize
         /\ \A i \in 1 .. HeaderSize : Header(p)[i] = <<p, i>>
<1>1. HeaderSize \in Nat /\ \A i \in 1 .. HeaderSize : <<p, i>> \in Byte
  BY HeaderSizeAssumption DEF Byte
<1> QED
  BY <1>1 DEF Header

\* A packet that was sent has a size and a payload of that size.
LEMMA PayloadBytes ==
  ASSUME TypeInv, NEW p \in Packets
  PROVE  /\ p \in 1 .. MaxPackets
         /\ sent[p].size \in Nat \ {0}
         /\ Payload(p) \in Seq(Byte) /\ Len(Payload(p)) = sent[p].size
         /\ \A i \in 1 .. sent[p].size : Payload(p)[i] = <<p, HeaderSize + i>>
<1>1. sent[p].size \in Nat \ {0}
  <2> DEFINE Record == [size : Sizes, end : Ends]
  <2>1. sent \in Seq(Record)
    BY DEF TypeInv, TypeOK
  <2> HIDE DEF Record
  <2>2. sent[p] \in Record
    BY <2>1 DEF Packets
  <2> QED
    BY <2>2, SizesAssumption DEF Record
<1>2. p \in 1 .. MaxPackets
  BY BoundsAssumption DEF TypeInv, TypeOK, Packets
<1>3. \A i \in 1 .. sent[p].size : <<p, HeaderSize + i>> \in Byte
  BY <1>1, <1>2, HeaderSizeAssumption DEF Byte
<1> QED
  BY <1>1, <1>2, <1>3 DEF Payload

\* The other end of a connection.
LEMMA PeerIs ==
  ASSUME NEW e \in Ends
  PROVE  /\ Peer(e) \in Ends /\ Peer(Peer(e)) = e /\ Peer(e) # e
         /\ Peer(e)[2] = e[2]
  BY DEF Peer, Ends

\* A thread writes to an end of a connection.
LEMMA EndOfIs ==
  ASSUME TypeInv, NEW t \in Threads
  PROVE  EndOf(t) \in Ends /\ Handle(t) \in Ends
<1>1. CASE t \in Clients
  BY <1>1 DEF EndOf, Handle, Clients, Ends
<1>2. CASE t \notin Clients
  <2>1. t \in ServerThreads
    BY <1>2 DEF Threads
  <2>2. /\ connections \in Connections /\ connections \in 1 .. MaxConnections
        /\ on[t] \in 1 .. connections
    BY <2>1 DEF TypeInv, TypeOK, Connections
  <2>3. on[t] \in Connections
    BY <2>2, BoundsAssumption DEF Connections
  <2> QED
    BY <1>2, <2>2, <2>3 DEF EndOf, Handle, Ends
<1> QED
  BY <1>1, <1>2

\* Thread t goes on at end e, the others where they were.
Goes(t, e) == EndOf(t)' = e /\ \A u \in Threads \ {t} : EndOf(u)' = EndOf(u)

\* That is what becomes of a handle that is looked up, and of one that is kept.
LEMMA GoesThere ==
  ASSUME TypeInv, NEW t \in Threads, LookedUp(t)
  PROVE  Goes(t, Handle(t)) /\ on' \in [ServerThreads -> 1 .. connections]
<1>1. /\ on \in [ServerThreads -> 1 .. connections] /\ connections \in 1 .. connections
      /\ on' = [u \in ServerThreads |-> IF u = t THEN connections ELSE on[u]]
  BY BoundsAssumption DEF TypeInv, TypeOK, LookedUp, Connections
<1>2. EndOf(t)' = Handle(t)
  BY <1>1 DEF EndOf, Handle, Threads
<1>3. \A u \in Threads \ {t} : EndOf(u)' = EndOf(u)
  BY <1>1 DEF EndOf, Threads
<1>4. on' \in [ServerThreads -> 1 .. connections]
  BY <1>1
<1> QED
  BY <1>2, <1>3, <1>4 DEF Goes

LEMMA StaysThere ==
  ASSUME on' = on, NEW t \in Threads
  PROVE  Goes(t, EndOf(t))
  BY DEF Goes, EndOf

\* Send writes as much as there is room for and keeps the rest of the bytes to
\* write, unless it is cut short.
LEMMA SendStep ==
  ASSUME TypeInv, NEW t \in Threads, NEW e \in Ends, NEW bytes \in Seq(Byte),
         Send(t, e, bytes)
  PROVE  /\ stream' \in [Ends -> Seq(Byte)]
         /\ left' \in [Threads -> Seq(Byte)]
         /\ \A d \in Ends : Room(d)' \in 0 .. Capacity
         /\ torn \subseteq torn' /\ torn' \subseteq Ends
         /\ \A u \in Threads \ {t} : left'[u] = left[u]
         /\ \A d \in Ends \ {e} : stream'[d] = stream[d]
         /\ next[t] # None /\ EndOf(t) # e => e \in torn' /\ EndOf(t) \in torn'
         /\ bytes # << >> /\ e \notin torn' => e[2] \notin closed
         /\ \E count \in 0 .. Len(bytes) :
              /\ stream'[e] = stream[e] \o SubSeq(bytes, 1, count)
              /\ e \notin torn' =>
                   /\ ~Overlaps(t, e)
                   /\ left'[t] = SubSeq(bytes, count + 1, Len(bytes))
<1> DEFINE count == IF e[2] \in closed THEN 0 ELSE Least(Room(e), Len(bytes))
           first == SubSeq(bytes, 1, count)
           rest == SubSeq(bytes, count + 1, Len(bytes))
           tears == {d \in {e, EndOf(t)} :
                       \/ Strays(t, e)
                       \/ d = e /\ (Overlaps(t, e) \/ (rest # << >> /\ NeverWaits(e)))}
<1>1. EndOf(t) \in Ends
  BY EndOfIs
<1>2. /\ stream \in [Ends -> Seq(Byte)] /\ left \in [Threads -> Seq(Byte)]
      /\ torn \subseteq Ends /\ \A d \in Ends : Room(d) \in 0 .. Capacity
  BY DEF TypeInv, TypeOK
<1>3. /\ stream' = [stream EXCEPT ![e] = @ \o first]
      /\ left' = [left EXCEPT ![t] = Rest(e, rest)]
      /\ torn' = torn \cup tears
  BY DEF Send
<1>4. Len(bytes) \in Nat /\ Room(e) \in Nat /\ Capacity \in Nat
  BY <1>2, CapacityAssumption
<1>5. count \in 0 .. Len(bytes) /\ count <= Room(e)
  BY <1>4 DEF Least
<1> HIDE DEF count
<1>6. /\ first \in Seq(Byte) /\ Len(first) = count
      /\ rest \in Seq(Byte)
  <2>1. 0 \in Nat /\ 0 <= count /\ count \in Nat /\ count <= Len(bytes)
    BY <1>4, <1>5
  <2>2. /\ SubSeq(bytes, 0 + 1, count) \in Seq(Byte)
        /\ Len(SubSeq(bytes, 0 + 1, count)) = count - 0
    BY <2>1, Slice
  <2>3. rest \in Seq(Byte)
    BY <1>4, <2>1, Slice
  <2> QED
    BY <2>1, <2>2, <2>3
<1> HIDE DEF first, rest
<1>7. Rest(e, rest) \in Seq(Byte)
  BY <1>6 DEF Rest
<1>8. stream' \in [Ends -> Seq(Byte)] /\ left' \in [Threads -> Seq(Byte)]
  <2>1. stream[e] \o first \in Seq(Byte)
    BY <1>2, <1>6
  <2> QED
    BY <1>2, <1>3, <1>7, <2>1
<1>9. ASSUME NEW d \in Ends PROVE Room(d)' \in 0 .. Capacity
  <2>1. CASE d # e
    BY <1>2, <1>3, <2>1 DEF Room
  <2>2. CASE d = e
    <3>1. stream'[e] = stream[e] \o first /\ stream[e] \in Seq(Byte)
      BY <1>1, <1>2, <1>3
    <3>2. Len(stream'[e]) = Len(stream[e]) + count
      BY <1>6, <3>1, ConcatProperties
    <3> QED
      BY <1>4, <1>5, <2>2, <3>1, <3>2 DEF Room
  <2> QED
    BY <2>1, <2>2
<1>10. ASSUME e \notin torn'
       PROVE  ~Overlaps(t, e) /\ left'[t] = rest
  BY <1>2, <1>3, <1>10 DEF Rest
<1>11. /\ stream'[e] = stream[e] \o first
       /\ \A d \in Ends \ {e} : stream'[d] = stream[d]
       /\ \A u \in Threads \ {t} : left'[u] = left[u]
  BY <1>1, <1>2, <1>3
<1>12. torn \subseteq torn' /\ torn' \subseteq Ends
  BY <1>1, <1>2, <1>3
<1>13. next[t] # None /\ EndOf(t) # e => e \in torn' /\ EndOf(t) \in torn'
  BY <1>3 DEF Strays
<1>14. ASSUME bytes # << >>, e \notin torn', e[2] \in closed
       PROVE  FALSE
  <2>1. count = 0
    BY <1>14 DEF count
  <2>2. rest = SubSeq(bytes, 1, Len(bytes))
    BY <2>1 DEF rest
  <2>3. rest = bytes
    BY <2>2, SubSeqFull
  <2> QED
    BY <1>3, <1>14, <2>3 DEF NeverWaits
<1> QED
  BY <1>5, <1>8, <1>9, <1>10, <1>11, <1>12, <1>13, <1>14 DEF first, rest

\* A thread whose stream is not torn sends where it did before, and to a client that
\* has not ended.
LEMMA SendsOn ==
  ASSUME TypeInv, NEW t \in Threads, NEW e \in Ends, NEW bytes \in Seq(Byte),
         Send(t, e, bytes), bytes # << >>,
         EndOf(t) \notin torn', next[t] # None \/ e = EndOf(t)
  PROVE  e = EndOf(t) /\ e[2] \notin closed
<1>1. /\ next[t] # None /\ EndOf(t) # e => EndOf(t) \in torn'
      /\ bytes # << >> /\ e \notin torn' => e[2] \notin closed
  BY SendStep
<1> QED
  BY <1>1

\* Initially nothing was sent.
LEMMA InitTypeInv == Init => TypeInv
<1> SUFFICES ASSUME Init PROVE TypeInv
  OBVIOUS
<1> DEFINE Record == [size : Sizes, end : Ends]
<1>1. sent = << >> /\ Len(sent) = 0 /\ sent \in Seq(Record)
  BY DEF Init
<1>2. << >> \in Seq(Byte) /\ << >> \in Seq(Seq(Byte)) /\ Fresh \in [size : Nat, data : Seq(Byte)]
  BY DEF Fresh
<1>3. /\ left \in [Threads -> Seq(Byte)] /\ next \in [Threads -> 0 .. Len(sent)]
      /\ stream \in [Ends -> Seq(Byte)]
      /\ buffer \in [Ends -> [size : Nat, data : Seq(Byte)]]
      /\ delivered \in [Ends -> Seq(Seq(Byte))]
  BY <1>1, <1>2 DEF Init, None
<1>4. \A e \in Ends : Room(e) \in 0 .. Capacity /\ buffer[e] = Fresh
  <2>1. \A e \in Ends : Len(stream[e]) = 0
    BY DEF Init
  <2> QED
    BY <2>1, CapacityAssumption DEF Init, Room
<1>5. /\ nonblocking \subseteq {"server", "client"} /\ spurious \subseteq Ends
      /\ torn \subseteq Ends /\ connections \in Connections /\ closed \subseteq Connections
      /\ on \in [ServerThreads -> 1 .. connections]
  BY BoundsAssumption DEF Init, Connections
<1>6. Len(sent) <= MaxPackets
  BY <1>1, BoundsAssumption
<1> QED
  BY <1>1, <1>3, <1>4, <1>5, <1>6 DEF TypeInv, TypeOK

\* What a size field may read as.
LEMMA ReadSizeType == ASSUME TypeInv, NEW bytes PROVE ReadSize(bytes) \subseteq Nat
  BY PayloadBytes, GarbageSizesAssumption DEF ReadSize

\* What a turn of check_packets takes of what is available, at most.
LEMMA CountStep ==
  ASSUME TypeInv, NEW e \in Ends, NEW available \in 1 .. Len(stream[Peer(e)]),
         NEW size \in IF HeaderIn(e, available) = 0 THEN {buffer[e].size}
                      ELSE ReadSize(SubSeq(stream[Peer(e)], 1, HeaderIn(e, available)))
  PROVE  LET header == HeaderIn(e, available)
             old    == buffer[e].data
             count  == Count(available - header, size - Len(old))
         IN  /\ header \in 0 .. available /\ size \in Nat
             /\ old \in Seq(Byte)
             /\ IF header = 0 THEN buffer[e].size = 0 => available < HeaderSize
                ELSE header = HeaderSize /\ buffer[e].size = 0
             /\ buffer[e].size = 0 <=> buffer[e] = Fresh
             /\ buffer[e] = Fresh => Len(old) = 0
             /\ Len(old) <= size
             /\ count \in Nat /\ header + count <= available
             /\ Len(old) + count <= size
<1> DEFINE header == HeaderIn(e, available)
           old == buffer[e].data
           count == Count(available - header, size - Len(old))
<1>1. /\ buffer[e] \in [size : Nat, data : Seq(Byte)]
      /\ buffer[e] = Fresh \/ Len(old) < buffer[e].size
      /\ Peer(e) \in Ends /\ stream[Peer(e)] \in Seq(Byte)
  BY PeerIs DEF TypeInv, TypeOK
<1>2. old \in Seq(Byte) /\ buffer[e].size \in Nat /\ Len(old) \in Nat
  BY <1>1
<1>3. buffer[e] = Fresh => Len(old) = 0 /\ buffer[e].size = 0
  BY DEF Fresh
<1>4. available \in Nat /\ HeaderSize \in Nat
  BY <1>1, HeaderSizeAssumption
<1>5. /\ header \in 0 .. available
      /\ IF header = 0 THEN buffer[e].size = 0 => available < HeaderSize
         ELSE header = HeaderSize /\ buffer[e].size = 0
  BY <1>2, <1>4, HeaderSizeAssumption DEF HeaderIn
<1> HIDE DEF header, old
<1>6. size \in Nat
  <2>1. size \in IF header = 0 THEN {buffer[e].size}
                ELSE ReadSize(SubSeq(stream[Peer(e)], 1, header))
    BY DEF header
  <2> QED
    BY <1>2, <2>1, ReadSizeType
<1>7. Len(old) <= size
  <2>1. CASE header = 0
    <3>1. size = buffer[e].size
      BY <2>1 DEF header
    <3> QED
      BY <1>1, <1>2, <1>3, <3>1
  <2>2. CASE header # 0
    BY <1>1, <1>2, <1>3, <1>5, <1>6, <2>2
  <2> QED
    BY <2>1, <2>2
<1>8. count \in Nat /\ header + count <= available /\ Len(old) + count <= size
  BY <1>2, <1>4, <1>5, <1>6, <1>7 DEF Count, Least
<1> QED
  BY <1>1, <1>2, <1>3, <1>5, <1>6, <1>7, <1>8 DEF header, old

\* A turn of check_packets that reads header bytes as a size and puts count more
\* into the packet.
Takes(e, header, size, count) ==
  LET incoming == stream[Peer(e)]
      data == buffer[e].data \o SubSeq(incoming, header + 1, header + count)
  IN  /\ IF header = 0 THEN size = buffer[e].size
         ELSE /\ header = HeaderSize /\ buffer[e] = Fresh
              /\ size \in ReadSize(SubSeq(incoming, 1, HeaderSize))
      /\ header + count <= Len(incoming)
      /\ data \in Seq(Byte) /\ Len(data) = Len(buffer[e].data) + count
      /\ Len(data) <= size
      /\ stream' = [stream EXCEPT ![Peer(e)] =
                      SubSeq(incoming, header + count + 1, Len(incoming))]
      /\ IF Len(data) # size
         THEN /\ buffer' = [buffer EXCEPT ![e] = [size |-> size, data |-> data]]
              /\ UNCHANGED <<delivered, spurious>>
         ELSE /\ buffer' = [buffer EXCEPT ![e] = Fresh]
              /\ IF data # << >>
                 THEN /\ delivered' = [delivered EXCEPT ![e] = Append(@, data)]
                      /\ UNCHANGED spurious
                 ELSE spurious' = spurious \cup {e} /\ UNCHANGED delivered

\* Every turn of check_packets is of that form.
LEMMA TakeStep ==
  ASSUME TypeInv, NEW e \in Ends, Poll(e)
  PROVE  /\ \E header, size, count \in Nat : Takes(e, header, size, count)
         /\ UNCHANGED <<nonblocking, senders, table, torn>>
<1>1. PICK available \in 1 .. Len(stream[Peer(e)]) : CheckPackets(e, available)
  BY SMTT(60) DEF Poll
<1> DEFINE incoming == stream[Peer(e)]
           header == HeaderIn(e, available)
           old == buffer[e].data
<1>2. PICK size \in IF header = 0 THEN {buffer[e].size}
                    ELSE ReadSize(SubSeq(incoming, 1, header)) :
        LET count == Count(available - header, size - Len(old))
            data  == old \o SubSeq(incoming, header + 1, header + count)
            Hold(b) == buffer' = [buffer EXCEPT ![e] = b]
        IN  /\ stream' = [stream EXCEPT ![Peer(e)] =
                            SubSeq(@, header + count + 1, Len(@))]
            /\ \/ /\ ~Whole(data, size)
                  /\ Hold([size |-> size, data |-> data])
                  /\ UNCHANGED <<delivered, spurious>>
               \/ /\ Whole(data, size) /\ data # << >>
                  /\ Hold(Fresh)
                  /\ delivered' = [delivered EXCEPT ![e] = Append(@, data)]
                  /\ UNCHANGED spurious
               \/ /\ Whole(data, size) /\ data = << >>
                  /\ Hold(Fresh)
                  /\ spurious' = spurious \cup {e}
                  /\ UNCHANGED delivered
  BY <1>1 DEF CheckPackets
<1> DEFINE count == Count(available - header, size - Len(old))
           more == SubSeq(incoming, header + 1, header + count)
           data == old \o more
<1>3. /\ header \in 0 .. available /\ size \in Nat
      /\ old \in Seq(Byte)
      /\ IF header = 0 THEN buffer[e].size = 0 => available < HeaderSize
         ELSE header = HeaderSize /\ buffer[e].size = 0
      /\ buffer[e].size = 0 <=> buffer[e] = Fresh
      /\ buffer[e] = Fresh => Len(old) = 0
      /\ Len(old) <= size
      /\ count \in Nat /\ header + count <= available
      /\ Len(old) + count <= size
  BY <1>2, CountStep
<1>4. incoming \in Seq(Byte) /\ Peer(e) \in Ends
  BY PeerIs DEF TypeInv, TypeOK
<1>5. header \in Nat /\ Len(incoming) \in Nat /\ header + count <= Len(incoming)
  BY <1>3, <1>4
<1>6. stream' = [stream EXCEPT ![Peer(e)] =
                   SubSeq(incoming, header + count + 1, Len(incoming))]
  BY <1>2
<1>7. IF header = 0 THEN size = buffer[e].size
      ELSE /\ header = HeaderSize /\ buffer[e] = Fresh
           /\ size \in ReadSize(SubSeq(incoming, 1, HeaderSize))
  BY <1>2, <1>3, SMTT(60)
<1>8. IF Len(data) # size
      THEN /\ buffer' = [buffer EXCEPT ![e] = [size |-> size, data |-> data]]
           /\ UNCHANGED <<delivered, spurious>>
      ELSE /\ buffer' = [buffer EXCEPT ![e] = Fresh]
           /\ IF data # << >>
              THEN /\ delivered' = [delivered EXCEPT ![e] = Append(@, data)]
                   /\ UNCHANGED spurious
              ELSE spurious' = spurious \cup {e} /\ UNCHANGED delivered
  BY <1>2 DEF Whole
<1> HIDE DEF header, count, incoming
<1>9. data \in Seq(Byte) /\ Len(data) = Len(old) + count
  <2>1. more \in Seq(Byte) /\ Len(more) = header + count - header
    <3> DEFINE stop == header + count
    <3>1. /\ header \in Nat /\ stop \in Nat
          /\ header <= stop /\ stop <= Len(incoming)
      BY <1>3, <1>5
    <3> HIDE DEF stop
    <3>2. /\ SubSeq(incoming, header + 1, stop) \in Seq(Byte)
          /\ Len(SubSeq(incoming, header + 1, stop)) = stop - header
      BY <1>4, <3>1, Slice
    <3> QED
      BY <1>3, <1>5, <3>2, SMTT(60) DEF stop
  <2>2. Len(more) = count
    BY <1>3, <1>5, <2>1
  <2> HIDE DEF more, old
  <2> QED
    BY <1>3, <2>1, <2>2, ConcatProperties
<1>10. Takes(e, header, size, count)
  BY <1>3, <1>5, <1>6, <1>7, <1>8, <1>9 DEF Takes, incoming
<1>11. UNCHANGED <<nonblocking, senders, table, torn>>
  BY <1>1 DEF CheckPackets
<1> QED
  BY <1>3, <1>5, <1>10, <1>11

\* Every step keeps the types.
LEMMA NextTypeInv == TypeInv /\ [Next]_vars => TypeInv'
<1> SUFFICES ASSUME TypeInv, [Next]_vars PROVE TypeInv'
  OBVIOUS
<1> DEFINE Record == [size : Sizes, end : Ends]
           Buffers == [size : Nat, data : Seq(Byte)]
<1> USE DEF senders, receivers, table
<1>0. /\ nonblocking \subseteq {"server", "client"} /\ sent \in Seq(Record)
      /\ left \in [Threads -> Seq(Byte)] /\ next \in [Threads -> 0 .. Len(sent)]
      /\ stream \in [Ends -> Seq(Byte)] /\ buffer \in [Ends -> Buffers]
      /\ delivered \in [Ends -> Seq(Seq(Byte))]
      /\ \A e \in Ends : /\ Room(e) \in 0 .. Capacity
                         /\ buffer[e] = Fresh \/ Len(buffer[e].data) < buffer[e].size
      /\ on \in [ServerThreads -> 1 .. connections]
      /\ spurious \subseteq Ends /\ connections \in Connections
      /\ closed \subseteq Connections /\ torn \subseteq Ends
      /\ Len(sent) \in Nat /\ Len(sent) <= MaxPackets
      /\ MaxPackets \in Nat
  BY BoundsAssumption DEF TypeInv, TypeOK
<1>1. ASSUME NEW t \in Threads, NEW size \in Sizes, SendSize(t, size) PROVE TypeInv'
  <2> DEFINE p == Len(sent')
             e == Handle(t)
             record == [size |-> size, end |-> e]
  <2>1. /\ sent' = Append(sent, record) /\ next' = [next EXCEPT ![t] = p]
        /\ Len(sent) < MaxPackets /\ LookedUp(t) /\ Send(t, e, Header(p))
        /\ UNCHANGED <<nonblocking, receivers, table>>
    BY <1>1 DEF SendSize
  <2>2. e \in Ends
    BY EndOfIs
  <2> HIDE DEF e
  <2>3. record \in Record
    BY <2>2
  <2> HIDE DEF record, Record
  <2>4. sent' \in Seq(Record) /\ p = Len(sent) + 1
    BY <1>0, <2>1, <2>3
  <2>5. p \in 1 .. MaxPackets
    BY <1>0, <2>1, <2>4
  <2>6. Header(p) \in Seq(Byte)
    BY <2>5, PacketBytes
  <2>7. /\ stream' \in [Ends -> Seq(Byte)] /\ left' \in [Threads -> Seq(Byte)]
        /\ \A d \in Ends : Room(d)' \in 0 .. Capacity
        /\ torn' \subseteq Ends
    BY <2>1, <2>2, <2>6, SendStep
  <2>8. on' \in [ServerThreads -> 1 .. connections]
    BY <2>1, GoesThere
  <2>9. next' \in [Threads -> 0 .. Len(sent')]
    BY <1>0, <2>1, <2>4
  <2>10. UNCHANGED <<nonblocking, buffer, delivered, spurious, connections, closed>>
    BY <2>1
  <2>11. sent' \in Seq([size : Sizes, end : Ends])
    BY <2>4 DEF Record
  <2>12. Len(sent') <= MaxPackets
    BY <1>0, <2>5
  <2> HIDE DEF p
  <2> QED
    BY <1>0, <2>7, <2>8, <2>9, <2>10, <2>11, <2>12 DEF TypeInv, TypeOK
<1>2. ASSUME NEW t \in Threads, SendPayload(t) PROVE TypeInv'
  <2>1. /\ next' = [next EXCEPT ![t] = None] /\ next[t] # None
        /\ LookedUp(t) /\ Send(t, Handle(t), Payload(next[t]))
        /\ UNCHANGED <<nonblocking, sent, receivers, table>>
    BY <1>2 DEF SendPayload
  <2>2. next[t] \in Packets /\ next' \in [Threads -> 0 .. Len(sent)]
    BY <1>0, <2>1 DEF Packets, None
  <2>3. Payload(next[t]) \in Seq(Byte) /\ Handle(t) \in Ends
    BY <2>2, PayloadBytes, EndOfIs
  <2>4. /\ stream' \in [Ends -> Seq(Byte)] /\ left' \in [Threads -> Seq(Byte)]
        /\ \A d \in Ends : Room(d)' \in 0 .. Capacity
        /\ torn' \subseteq Ends
    BY <2>1, <2>3, SendStep
  <2>5. on' \in [ServerThreads -> 1 .. connections]
    BY <2>1, GoesThere
  <2> QED
    BY <1>0, <2>1, <2>2, <2>4, <2>5 DEF TypeInv, TypeOK
<1>3. ASSUME NEW t \in Threads, Resume(t) PROVE TypeInv'
  <2>1. /\ left[t] \in Seq(Byte) /\ Send(t, EndOf(t), left[t])
        /\ UNCHANGED <<nonblocking, sent, next, on, receivers, table>>
    BY <1>0, <1>3 DEF Resume
  <2>2. EndOf(t) \in Ends
    BY EndOfIs
  <2>3. /\ stream' \in [Ends -> Seq(Byte)] /\ left' \in [Threads -> Seq(Byte)]
        /\ \A d \in Ends : Room(d)' \in 0 .. Capacity
        /\ torn' \subseteq Ends
    BY <2>1, <2>2, SendStep
  <2> QED
    BY <1>0, <2>1, <2>3 DEF TypeInv, TypeOK
<1>4. ASSUME NEW e \in Ends, Poll(e) PROVE TypeInv'
  <2>1. PICK header, size, count \in Nat : Takes(e, header, size, count)
    BY <1>4, TakeStep
  <2>2. UNCHANGED <<nonblocking, senders, table, torn>>
    BY <1>4, TakeStep
  <2> DEFINE incoming == stream[Peer(e)]
             data == buffer[e].data \o SubSeq(incoming, header + 1, header + count)
             later == SubSeq(incoming, header + count + 1, Len(incoming))
  <2>3. /\ header + count <= Len(incoming) /\ data \in Seq(Byte) /\ Len(data) <= size
        /\ stream' = [stream EXCEPT ![Peer(e)] = later]
        /\ IF Len(data) # size
           THEN /\ buffer' = [buffer EXCEPT ![e] = [size |-> size, data |-> data]]
                /\ UNCHANGED <<delivered, spurious>>
           ELSE /\ buffer' = [buffer EXCEPT ![e] = Fresh]
                /\ IF data # << >>
                   THEN /\ delivered' = [delivered EXCEPT ![e] = Append(@, data)]
                        /\ UNCHANGED spurious
                   ELSE spurious' = spurious \cup {e} /\ UNCHANGED delivered
    BY <2>1 DEF Takes
  <2>4. Peer(e) \in Ends /\ incoming \in Seq(Byte)
    BY <1>0, PeerIs
  <2>5. later \in Seq(Byte) /\ Len(later) <= Len(incoming) /\ Len(later) \in Nat
    <3> DEFINE from == header + count
    <3>1. from \in Nat /\ from <= Len(incoming) /\ Len(incoming) \in Nat
      BY <2>3, <2>4
    <3> HIDE DEF from, incoming
    <3>2. /\ SubSeq(incoming, from + 1, Len(incoming)) \in Seq(Byte)
          /\ Len(SubSeq(incoming, from + 1, Len(incoming))) = Len(incoming) - from
      BY <2>4, <3>1, Slice
    <3> QED
      BY <3>1, <3>2 DEF from
  <2> HIDE DEF data, later
  <2>6. stream' \in [Ends -> Seq(Byte)]
    BY <1>0, <2>3, <2>5
  <2>7. ASSUME NEW d \in Ends PROVE Room(d)' \in 0 .. Capacity
    <3>1. CASE d # Peer(e)
      BY <1>0, <2>3, <3>1 DEF Room
    <3>2. CASE d = Peer(e)
      <4>1. stream'[d] = later /\ Room(d) = Capacity - Len(incoming)
        BY <1>0, <2>3, <2>4, <3>2 DEF Room
      <4> QED
        BY <1>0, <2>4, <2>5, <4>1, CapacityAssumption, SMTT(60) DEF Room
    <3> QED
      BY <3>1, <3>2
  <2>8. /\ buffer' \in [Ends -> Buffers]
        /\ \A d \in Ends : buffer'[d] = Fresh \/ Len(buffer'[d].data) < buffer'[d].size
    <3>1. CASE Len(data) # size
      <4> DEFINE new == [size |-> size, data |-> data]
      <4>1. new \in Buffers /\ Len(new.data) < new.size
        BY <2>3, <3>1
      <4>2. buffer' = [buffer EXCEPT ![e] = new]
        BY <2>3, <3>1
      <4> HIDE DEF new, Buffers
      <4> QED
        BY <1>0, <4>1, <4>2
    <3>2. CASE Len(data) = size
      <4>1. Fresh \in Buffers /\ buffer' = [buffer EXCEPT ![e] = Fresh]
        BY <2>3, <3>2 DEF Fresh
      <4> HIDE DEF Buffers
      <4> QED
        BY <1>0, <4>1
    <3> QED
      BY <3>1, <3>2
  <2>9. delivered' \in [Ends -> Seq(Seq(Byte))] /\ spurious' \subseteq Ends
    <3> DEFINE Packet == Seq(Byte)
    <3>1. data \in Packet /\ delivered \in [Ends -> Seq(Packet)]
      BY <1>0, <2>3
    <3> HIDE DEF Packet
    <3>2. ASSUME delivered' = delivered PROVE delivered' \in [Ends -> Seq(Packet)]
      BY <3>1, <3>2
    <3>3. ASSUME delivered' = [delivered EXCEPT ![e] = Append(@, data)]
          PROVE  delivered' \in [Ends -> Seq(Packet)]
      <4>1. Append(delivered[e], data) \in Seq(Packet)
        BY <3>1
      <4> QED
        BY <3>1, <3>3, <4>1
    <3>4. delivered' \in [Ends -> Seq(Packet)]
      BY <2>3, <3>2, <3>3
    <3> QED
      BY <1>0, <2>3, <3>4 DEF Packet
  <2> QED
    BY <1>0, <2>2, <2>6, <2>7, <2>8, <2>9 DEF TypeInv, TypeOK
<1>5. ASSUME Reconnect PROVE TypeInv'
  <2>1. /\ connections < MaxConnections /\ connections' = connections + 1
        /\ UNCHANGED <<nonblocking, senders, stream, receivers, closed, torn>>
    BY <1>5 DEF Reconnect
  <2>2. connections' \in Connections /\ 1 .. connections \subseteq 1 .. connections'
    BY <1>0, <2>1, BoundsAssumption DEF Connections
  <2>3. on' \in [ServerThreads -> 1 .. connections']
    BY <1>0, <2>1, <2>2
  <2> QED
    BY <1>0, <2>1, <2>2, <2>3 DEF TypeInv, TypeOK, Room
<1>6. ASSUME NEW c \in Connections, Close(c) PROVE TypeInv'
  <2> DEFINE e == <<"client", c>>
  <2>1. PICK n \in 0 .. Len(stream[e]) : stream' = [stream EXCEPT ![e] = SubSeq(@, 1, n)]
    BY <1>6 DEF Close
  <2>2. /\ closed' = closed \cup {c}
        /\ left' = [t \in Threads |-> IF EndOf(t)[2] = c THEN << >> ELSE left[t]]
        /\ next' = [next EXCEPT ![e] = None]
        /\ UNCHANGED <<nonblocking, sent, on, receivers, connections, torn>>
    BY <1>6 DEF Close
  <2>3. e \in Ends
    BY DEF Ends
  <2> HIDE DEF e
  <2>4. /\ stream[e] \in Seq(Byte) /\ n \in Nat /\ n <= Len(stream[e])
        /\ Len(stream[e]) \in Nat
    BY <1>0, <2>1, <2>3
  <2>5. SubSeq(stream[e], 1, n) \in Seq(Byte) /\ Len(SubSeq(stream[e], 1, n)) = n
    <3>1. PICK z \in Nat : z = 0
      OBVIOUS
    <3>2. /\ SubSeq(stream[e], z + 1, n) \in Seq(Byte)
          /\ Len(SubSeq(stream[e], z + 1, n)) = n - z
      BY <2>4, <3>1, Slice
    <3> QED
      BY <2>4, <3>1, <3>2
  <2>6. stream' \in [Ends -> Seq(Byte)]
    BY <1>0, <2>1, <2>5
  <2>7. ASSUME NEW d \in Ends PROVE Room(d)' \in 0 .. Capacity
    <3>1. CASE d # e
      BY <1>0, <2>1, <3>1 DEF Room
    <3>2. CASE d = e
      <4>1. Len(stream'[d]) = n
        BY <1>0, <2>1, <2>3, <2>5, <3>2
      <4> QED
        BY <1>0, <2>3, <2>4, <3>2, <4>1, CapacityAssumption DEF Room
    <3> QED
      BY <3>1, <3>2
  <2>8. left' \in [Threads -> Seq(Byte)]
    <3>1. << >> \in Seq(Byte)
      OBVIOUS
    <3> QED
      BY <1>0, <2>2, <3>1
  <2>9. next' \in [Threads -> 0 .. Len(sent)]
    <3>1. None \in 0 .. Len(sent)
      BY <1>0 DEF None
    <3> QED
      BY <1>0, <2>2, <3>1
  <2>10. closed' \subseteq Connections
    BY <1>0, <2>2
  <2> QED
    BY <1>0, <2>2, <2>6, <2>7, <2>8, <2>9, <2>10 DEF TypeInv, TypeOK
<1>7. CASE UNCHANGED vars
  BY <1>0, <1>7 DEF vars, TypeInv, TypeOK, Room
<1> QED
  BY <1>1, <1>2, <1>3, <1>4, <1>5, <1>6, <1>7 DEF Next

\* The type invariant of SocketStream: a stream never holds more than it can,
\* and the room left in a receive buffer never wraps.
THEOREM TypeCorrect == Spec => []TypeOK
<1>1. TypeInv => TypeOK
  BY DEF TypeInv
<1> QED
  BY <1>1, InitTypeInv, NextTypeInv, PTL DEF Spec
-----------------------------------------------------------------------------
(* What was sent stays sent. *)

\* Packets are sent, and none that was sent changes.
Grows == /\ Packets \subseteq Packets'
         /\ \A p \in Packets : sent'[p] = sent[p]

\* A new packet is numbered behind the others.
LEMMA GrowsIfAppended ==
  ASSUME TypeInv, NEW x, sent' = Append(sent, x)
  PROVE  /\ Grows /\ Packets' = Packets \cup {Len(sent')}
         /\ Len(sent') = Len(sent) + 1 /\ Len(sent') \in Nat \ {0}
         /\ sent'[Len(sent')] = x
<1> DEFINE Record == [size : Sizes, end : Ends]
<1>1. sent \in Seq(Record)
  BY DEF TypeInv, TypeOK
<1> HIDE DEF Record
<1>2. /\ Len(sent) \in Nat /\ Len(sent') = Len(sent) + 1
      /\ \A p \in 1 .. Len(sent) : sent'[p] = sent[p]
      /\ sent'[Len(sent) + 1] = x
  BY <1>1
<1> QED
  BY <1>2 DEF Grows, Packets

\* Sizes and payloads of packets that were sent stay the same.
LEMMA PayloadKept ==
  ASSUME Grows, NEW p \in Packets
  PROVE  /\ p \in Packets' /\ sent'[p] = sent[p]
         /\ Total(p)' = Total(p) /\ Payload(p)' = Payload(p)
<1>1. p \in Packets' /\ sent'[p] = sent[p]
  BY DEF Grows
<1> QED
  BY <1>1 DEF Total, Payload

\* Whole packets stay whole.
LEMMA WholeKept ==
  ASSUME Grows, NEW d \in Ends, NEW line \in Seq(Byte),
         WholePackets(d, line)
  PROVE  WholePackets(d, line)'
<1>1. SUFFICES ASSUME NEW i \in 1 .. Len(line)
      PROVE LET p == line[i][1]
                k == line[i][2]
            IN  /\ p \in Packets' /\ sent'[p].end = d
                /\ k \in 1 .. Total(p)' /\ k <= i /\ i - k + Total(p)' <= Len(line)
                /\ \A j \in 1 .. Total(p)' : line[i - k + j] = <<p, j>>
  BY DEF WholePackets
<1> DEFINE p == line[i][1]
           k == line[i][2]
<1>2. /\ p \in Packets /\ sent[p].end = d
      /\ k \in 1 .. Total(p) /\ k <= i /\ i - k + Total(p) <= Len(line)
      /\ \A j \in 1 .. Total(p) : line[i - k + j] = <<p, j>>
  BY DEF WholePackets
<1> HIDE DEF p, k
<1>3. p \in Packets' /\ sent'[p] = sent[p] /\ Total(p)' = Total(p)
  BY <1>2, PayloadKept
<1>4. /\ p \in Packets' /\ sent'[p].end = d
      /\ k \in 1 .. Total(p)' /\ k <= i /\ i - k + Total(p)' <= Len(line)
      /\ \A j \in 1 .. Total(p)' : line[i - k + j] = <<p, j>>
  BY <1>2, <1>3
<1> QED
  BY <1>4 DEF p, k

\* What a receiver was handed stays as it is.
LEMMA HandedKept ==
  ASSUME Grows, NEW e \in Ends, delivered'[e] = delivered[e], HandedOver(e)
  PROVE  HandedOver(e)' /\ Got(e)' = Got(e)
<1>1. Got(e)' = Got(e)
  BY DEF Got
<1>2. ASSUME NEW i \in DOMAIN delivered'[e]
      PROVE  /\ (Got(e)[i])' \in Packets'
             /\ delivered'[e][i] = Payload(Got(e)[i])'
             /\ sent'[(Got(e)[i])'].end = Peer(e)
  <2>1. PICK p : p = Got(e)[i]
    OBVIOUS
  <2>2. p \in Packets /\ delivered[e][i] = Payload(p) /\ sent[p].end = Peer(e)
    BY <2>1 DEF HandedOver
  <2>3. p \in Packets' /\ sent'[p] = sent[p] /\ Payload(p)' = Payload(p)
    BY <2>2, PayloadKept
  <2>4. p \in Packets' /\ delivered'[e][i] = Payload(p)' /\ sent'[p].end = Peer(e)
    BY <2>2, <2>3
  <2>5. (Got(e)[i])' = p
    BY <1>1, <2>1
  <2> QED
    BY <2>4, <2>5 DEF Payload
<1>3. \A i, j \in DOMAIN delivered'[e] : i < j => (Got(e)[i])' < (Got(e)[j])'
  BY <1>1 DEF HandedOver
<1> QED
  BY <1>1, <1>2, <1>3 DEF HandedOver

\* So does what a receiver has taken, if its buffer stays as it is.
LEMMA TakenKept ==
  ASSUME TypeInv, Grows, NEW e \in Ends, NEW line \in Seq(Byte), NEW r \in Nat,
         r <= Len(line), WholePackets(Peer(e), line), TakenBy(e, line, r),
         buffer'[e] = buffer[e]
  PROVE  TakenBy(e, line, r)'
<1>1. CASE buffer[e] = Fresh
  BY <1>1 DEF TakenBy, Fresh
<1>2. CASE buffer[e] # Fresh
  <2> DEFINE n == Len(buffer[e].data)
             p == line[r][1]
  <2>1. /\ r >= HeaderSize + n /\ line[r][2] = HeaderSize + n
        /\ buffer[e].size = sent[p].size
        /\ buffer[e].data = SubSeq(Payload(p), 1, n)
    BY <1>2 DEF TakenBy
  <2>2. n \in Nat
    BY DEF TypeInv, TypeOK
  <2>3. r \in 1 .. Len(line)
    BY <2>1, <2>2, HeaderSizeAssumption
  <2>4. p \in Packets
    BY <2>3 DEF WholePackets
  <2>5. sent'[p] = sent[p] /\ Payload(p)' = Payload(p)
    BY <2>4, PayloadKept
  <2>6. /\ r >= HeaderSize + n /\ line[r][2] = HeaderSize + n
        /\ buffer'[e].size = sent'[p].size
        /\ buffer'[e].data = SubSeq(Payload(p)', 1, n)
    BY <2>1, <2>5
  <2> HIDE DEF p
  <2>7. p = line[r][1] /\ n = Len(buffer'[e].data) /\ buffer'[e] # Fresh
    BY <1>2 DEF p, Fresh
  <2> QED
    BY <2>6, <2>7 DEF TakenBy
<1> QED
  BY <1>1, <1>2

\* So does what is still to come, if nothing new is sent to the receiver.
LEMMA ComeKept ==
  ASSUME Grows, NEW e \in Ends, NEW line \in Seq(Byte), NEW r \in Nat,
         StillToCome(e, line, r),
         delivered'[e] = delivered[e],
         \A p \in Packets' \ Packets : sent'[p].end # Peer(e)
  PROVE  StillToCome(e, line, r)'
<1>1. Got(e)' = Got(e)
  BY DEF Got
<1>2. ASSUME NEW p \in Packets', sent'[p].end = Peer(e)
      PROVE  \/ \E i \in DOMAIN delivered'[e] : (Got(e)[i])' = p
             \/ \E j \in r + 1 .. Len(line) : line[j][1] = p
  <2>1. p \in Packets /\ sent'[p] = sent[p]
    BY <1>2 DEF Grows
  <2> QED
    BY <1>1, <1>2, <2>1 DEF StillToCome
<1> QED
  BY <1>1, <1>2 DEF StillToCome

\* Those who are inside send_packet at end d stay there with what they have left.
WritersKept(d) ==
  \A t \in Threads :
    /\ Writes(t, d)' <=> Writes(t, d)
    /\ Writes(t, d) => left'[t] = left[t] /\ next'[t] = next[t]

\* So does what an end has still to write.
LEMMA WriteKept ==
  ASSUME TypeInv, Grows, NEW d \in Ends, NEW line \in Seq(Byte), NEW s \in Nat,
         ToWrite(d, line, s), WritersKept(d), closed \subseteq closed'
  PROVE  ToWrite(d, line, s)'
<1>1. SUFFICES ASSUME d[2] \notin closed' PROVE ToWrite(d, line, s)'
  BY DEF ToWrite
<1>2. ASSUME NEW t \in Threads, Writes(t, d)'
      PROVE  /\ \A u \in Threads \ {t} : ~Writes(u, d)'
             /\ \E m \in s .. Len(line) :
                  /\ left'[t] = SubSeq(line, s + 1, m) /\ Len(left'[t]) = m - s
                  /\ Behind(t, line, m)'
  <2>1. Writes(t, d) /\ left'[t] = left[t] /\ next'[t] = next[t]
    BY <1>2 DEF WritersKept
  <2>2. /\ \A u \in Threads \ {t} : ~Writes(u, d)
        /\ \E m \in s .. Len(line) :
             /\ left[t] = SubSeq(line, s + 1, m) /\ Len(left[t]) = m - s
             /\ Behind(t, line, m)
    BY <1>1, <2>1 DEF ToWrite
  <2>3. next[t] # None => sent'[next[t]] = sent[next[t]]
    <3>1. next[t] \in 0 .. Len(sent)
      BY DEF TypeInv, TypeOK
    <3> QED
      BY <3>1 DEF Grows, Packets, None
  <2>4. ASSUME NEW m PROVE Behind(t, line, m) => Behind(t, line, m)'
    BY <2>1, <2>3 DEF Behind, None
  <2>5. \A u \in Threads \ {t} : ~Writes(u, d)'
    BY <2>2 DEF WritersKept
  <2> QED
    BY <2>1, <2>2, <2>4, <2>5
<1>3. (\A t \in Threads : ~Writes(t, d)') => s = Len(line)
  BY <1>1 DEF ToWrite, WritersKept
<1> QED
  BY <1>2, <1>3 DEF ToWrite

\* A step that leaves all senders alone.
LEMMA SendersKept ==
  ASSUME senders' = senders, NEW d \in Ends
  PROVE  WritersKept(d)
<1>1. left' = left /\ next' = next /\ on' = on
  BY DEF senders
<1> QED
  BY <1>1 DEF WritersKept, Writes, EndOf, Idle

\* A step that does not touch what is between end d and its peer.
LEMMA FlowKept ==
  ASSUME TypeInv, Grows, NEW d \in Ends, NEW line \in Seq(Byte), NEW r \in Nat, NEW s \in Nat,
         Flow(d, line, r, s),
         stream'[d] = stream[d], buffer'[Peer(d)] = buffer[Peer(d)],
         delivered'[Peer(d)] = delivered[Peer(d)],
         WritersKept(d), closed \subseteq closed',
         \A p \in Packets' \ Packets : sent'[p].end # d
  PROVE  Flow(d, line, r, s)'
<1>1. Peer(d) \in Ends /\ Peer(Peer(d)) = d
  BY PeerIs
<1>2. /\ WholePackets(d, line) /\ InOrder(line)
      /\ r <= s /\ s <= Len(line)
      /\ stream[d] = SubSeq(line, r + 1, s)
      /\ TakenBy(Peer(d), line, r)
      /\ StillToCome(Peer(d), line, r)
      /\ ToWrite(d, line, s)
  BY DEF Flow
<1>3. WholePackets(d, line)'
  BY <1>2, WholeKept
<1>4. TakenBy(Peer(d), line, r)'
  BY <1>1, <1>2, TakenKept
<1>5. StillToCome(Peer(d), line, r)'
  BY <1>1, <1>2, ComeKept
<1>6. ToWrite(d, line, s)'
  BY <1>2, WriteKept
<1>7. InOrder(line)'
  BY <1>2 DEF InOrder
<1> QED
  BY <1>2, <1>3, <1>4, <1>5, <1>6, <1>7 DEF Flow
-----------------------------------------------------------------------------
(* Writing. *)

\* Thread t has written line at end e up to byte z, and keeps what is left up to
\* byte m.
Wrote(t, e, line, r, z, m) ==
  /\ stream'[e] = SubSeq(line, r + 1, z)
  /\ left'[t] = SubSeq(line, z + 1, m)
  /\ Len(left'[t]) = m - z

\* A Send of bytes that line goes on with writes a part of them; the thread
\* keeps the rest to write.
LEMMA WriteStep ==
  ASSUME TypeInv, NEW t \in Threads, NEW e \in Ends, NEW bytes \in Seq(Byte),
         Send(t, e, bytes),
         e \notin torn',
         NEW line \in Seq(Byte), NEW r \in Nat, NEW s \in Nat, NEW m \in Nat,
         r <= s, s <= m, m <= Len(line),
         stream[e] = SubSeq(line, r + 1, s),
         bytes = SubSeq(line, s + 1, m)
  PROVE  /\ ~Overlaps(t, e)
         /\ \E z \in s .. m : Wrote(t, e, line, r, z, m)
<1>1. PICK count \in 0 .. Len(bytes) :
        /\ stream'[e] = stream[e] \o SubSeq(bytes, 1, count)
        /\ e \notin torn' =>
             /\ ~Overlaps(t, e)
             /\ left'[t] = SubSeq(bytes, count + 1, Len(bytes))
  BY SendStep
<1> DEFINE z == s + count
<1>2. Len(bytes) = m - s
  BY Slice
<1>3. /\ Len(bytes) \in Nat /\ count \in Nat /\ count <= m - s
      /\ z \in Nat /\ s <= z /\ z <= m /\ z <= Len(line)
      /\ s + Len(bytes) = m
  BY <1>2
<1>4. SubSeq(bytes, 1, count) = SubSeq(line, s + 1, z)
  <2>1. SubSeq(SubSeq(line, s + 1, m), 0 + 1, count) = SubSeq(line, s + 0 + 1, s + count)
    <3>1. 0 \in Nat /\ 0 <= count /\ count <= m - s
      BY <1>3
    <3> QED
      BY <1>3, <3>1, SliceOfSlice
  <2> QED
    BY <2>1
<1>5. SubSeq(bytes, count + 1, Len(bytes)) = SubSeq(line, z + 1, m)
  <2>1. SubSeq(SubSeq(line, s + 1, m), count + 1, Len(bytes))
          = SubSeq(line, s + count + 1, s + Len(bytes))
    BY <1>2, <1>3, SliceOfSlice
  <2> QED
    BY <1>3, <2>1
<1> HIDE DEF z
<1>6. stream'[e] = SubSeq(line, r + 1, z)
  <2>1. SubSeq(line, r + 1, s) \o SubSeq(line, s + 1, z) = SubSeq(line, r + 1, z)
    BY <1>3, SliceConcat
  <2> QED
    BY <1>1, <1>4, <2>1
<1>7. ~Overlaps(t, e) /\ left'[t] = SubSeq(line, z + 1, m)
  BY <1>1, <1>5
<1>8. Len(left'[t]) = m - z
  BY <1>3, <1>7, Slice
<1>9. Wrote(t, e, line, r, z, m)
  BY <1>6, <1>7, <1>8 DEF Wrote
<1>10. z \in s .. m
  BY <1>3
<1> QED
  BY <1>7, <1>9, <1>10

\* What the thread has to write after that is the rest of line.
LEMMA WriterStep ==
  ASSUME TypeInv, NEW t \in Threads, NEW e \in Ends, NEW bytes \in Seq(Byte),
         Send(t, e, bytes),
         ~Overlaps(t, e), Goes(t, e),
         NEW line \in Seq(Byte), NEW s \in Nat, NEW m \in Nat, m <= Len(line),
         NEW z \in s .. m,
         left'[t] = SubSeq(line, z + 1, m), Len(left'[t]) = m - z,
         \A u \in Threads \ {t} : next'[u] = next[u],
         Behind(t, line, m)'
  PROVE  ToWrite(e, line, z)'
<1>1. Len(line) \in Nat /\ z \in Nat /\ m \in z .. Len(line)
  BY LenProperties
<1>2. \A u \in Threads \ {t} : ~Writes(u, e)'
  <2>1. \A u \in Threads \ {t} : left'[u] = left[u]
    BY SendStep
  <2> QED
    BY <2>1 DEF Overlaps, Writes, Idle, Goes
<1>3. ASSUME NEW u \in Threads, Writes(u, e)'
      PROVE  /\ \A v \in Threads \ {u} : ~Writes(v, e)'
             /\ \E k \in z .. Len(line) :
                  /\ left'[u] = SubSeq(line, z + 1, k) /\ Len(left'[u]) = k - z
                  /\ Behind(u, line, k)'
  <2>1. u = t
    BY <1>2, <1>3
  <2> QED
    BY <1>1, <1>2, <2>1
<1>4. ASSUME \A u \in Threads : ~Writes(u, e)'
      PROVE  z = Len(line)
  <2>1. left'[t] = << >> /\ next'[t] = None
    BY <1>4 DEF Writes, Idle, None, Goes
  <2>2. Len(left'[t]) = 0
    BY <2>1
  <2>3. m = Len(line)
    BY <2>1 DEF Behind, None
  <2> QED
    BY <1>1, <2>2, <2>3
<1> QED
  BY <1>3, <1>4 DEF ToWrite

\* SendPayload and a Resume on an untorn stream go on with line.
LEMMA WriteOn ==
  ASSUME TypeInv, NEW t \in Threads, NEW e \in Ends, NEW bytes \in Seq(Byte),
         Send(t, e, bytes), Goes(t, e),
         e \notin torn', UNCHANGED <<sent, receivers>>,
         \A u \in Threads \ {t} : next'[u] = next[u],
         NEW line \in Seq(Byte), NEW r \in Nat, NEW s \in Nat, NEW m \in Nat,
         Flow(e, line, r, s),
         s <= m, m <= Len(line), bytes = SubSeq(line, s + 1, m),
         Behind(t, line, m)'
  PROVE  \E z \in Nat : Flow(e, line, r, z)'
<1>1. /\ WholePackets(e, line) /\ InOrder(line)
      /\ r <= s /\ s <= Len(line)
      /\ stream[e] = SubSeq(line, r + 1, s)
      /\ TakenBy(Peer(e), line, r)
      /\ StillToCome(Peer(e), line, r)
  BY DEF Flow
<1>2. /\ ~Overlaps(t, e)
      /\ \E z \in s .. m : Wrote(t, e, line, r, z, m)
  BY <1>1, WriteStep
<1>3. PICK z \in s .. m : /\ stream'[e] = SubSeq(line, r + 1, z)
                          /\ left'[t] = SubSeq(line, z + 1, m)
                          /\ Len(left'[t]) = m - z
  BY <1>2 DEF Wrote
<1>4. z \in Nat /\ r <= z /\ z <= Len(line)
  BY <1>1, LenProperties
<1>5. ToWrite(e, line, z)'
  BY <1>2, <1>3, WriterStep
<1>6. e \in Ends /\ Peer(e) \in Ends /\ Peer(Peer(e)) = e
  BY PeerIs
<1>7. Grows
  BY DEF Grows, Packets
<1>8. /\ WholePackets(e, line)' /\ TakenBy(Peer(e), line, r)'
      /\ StillToCome(Peer(e), line, r)' /\ InOrder(line)'
  <2>1. buffer'[Peer(e)] = buffer[Peer(e)]
        /\ delivered'[Peer(e)] = delivered[Peer(e)] /\ r <= Len(line)
    BY <1>1 DEF receivers
  <2>2. \A p \in Packets' \ Packets : sent'[p].end # e
    BY DEF Packets
  <2>3. WholePackets(e, line)'
    BY <1>1, <1>6, <1>7, <2>1, WholeKept
  <2>4. TakenBy(Peer(e), line, r)'
    BY <1>1, <1>6, <1>7, <2>1, TakenKept
  <2>5. StillToCome(Peer(e), line, r)'
    BY <1>1, <1>6, <1>7, <2>1, <2>2, ComeKept
  <2> QED
    BY <1>1, <2>3, <2>4, <2>5 DEF InOrder
<1>9. Flow(e, line, r, z)'
  BY <1>3, <1>4, <1>5, <1>8 DEF Flow
<1> QED
  BY <1>4, <1>9
-----------------------------------------------------------------------------
(* Packets on the line. *)

\* Packet p is on line from byte b + 1 on.
At(d, line, p, b) ==
  /\ p \in Packets /\ sent[p].end = d
  /\ b + Total(p) <= Len(line)
  /\ \A j \in 1 .. Total(p) : line[b + j] = <<p, j>>

\* Every byte of line is in a packet.
LEMMA Extent ==
  ASSUME TypeInv, NEW d \in Ends, NEW line \in Seq(Byte), WholePackets(d, line),
         NEW i \in 1 .. Len(line)
  PROVE  \E p \in Packets, b \in Nat :
           At(d, line, p, b) /\ i >= b + 1 /\ i <= b + Total(p)
<1> DEFINE p == line[i][1]
           k == line[i][2]
           b == i - k
<1>1. /\ p \in Packets /\ sent[p].end = d
      /\ k \in 1 .. Total(p) /\ k <= i /\ i - k + Total(p) <= Len(line)
      /\ \A j \in 1 .. Total(p) : line[i - k + j] = <<p, j>>
  BY DEF WholePackets
<1> HIDE DEF p, k
<1>2. Total(p) \in Nat
  BY <1>1, PayloadBytes, HeaderSizeAssumption DEF Total
<1>3. k \in Nat /\ i \in Nat /\ k >= 1 /\ k <= Total(p)
  BY <1>1, <1>2, LenProperties
<1>4. b \in Nat /\ i >= b + 1 /\ i <= b + Total(p)
  BY <1>1, <1>2, <1>3
<1>5. At(d, line, p, b)
  BY <1>1 DEF At
<1> QED
  BY <1>1, <1>4, <1>5

\* A packet on line is as long as its size says, and all there.
LEMMA AtSizes ==
  ASSUME TypeInv, NEW d \in Ends, NEW line \in Seq(Byte), NEW p, NEW b \in Nat,
         At(d, line, p, b)
  PROVE  /\ p \in Packets /\ sent[p].size \in Nat \ {0}
         /\ HeaderSize \in Nat \ {0}
         /\ Total(p) \in Nat /\ Total(p) = HeaderSize + sent[p].size
         /\ b + Total(p) <= Len(line) /\ Len(line) \in Nat
<1>1. p \in Packets /\ b + Total(p) <= Len(line)
  BY DEF At
<1>2. /\ sent[p].size \in Nat \ {0} /\ HeaderSize \in Nat \ {0}
      /\ Total(p) = HeaderSize + sent[p].size
  BY <1>1, PayloadBytes, HeaderSizeAssumption DEF Total
<1>3. Total(p) \in Nat /\ Len(line) \in Nat
  BY <1>2
<1> QED
  BY <1>1, <1>2, <1>3

\* Its bytes are in their places.
LEMMA AtPlace ==
  ASSUME TypeInv, NEW d \in Ends, NEW line \in Seq(Byte), NEW p, NEW b \in Nat,
         At(d, line, p, b), NEW i \in Nat, i >= b + 1, i <= b + Total(p)
  PROVE  /\ i \in 1 .. Len(line) /\ line[i] = <<p, i - b>>
         /\ line[i][1] = p /\ line[i][2] = i - b
<1>1. Total(p) \in Nat /\ b + Total(p) <= Len(line) /\ Len(line) \in Nat
  BY AtSizes
<1> DEFINE j == i - b
<1>2. j \in 1 .. Total(p) /\ b + j = i /\ i \in 1 .. Len(line)
  BY <1>1
<1> HIDE DEF j
<1>3. line[i] = <<p, j>>
  <2>1. line[b + j] = <<p, j>>
    BY <1>2 DEF At
  <2> QED
    BY <1>2, <2>1
<1> QED
  BY <1>2, <1>3 DEF j

\* The size field of a packet that begins after byte b.
HeaderAt(line, p, b) == SubSeq(line, b + 1, b + HeaderSize) = Header(p)

\* A slice of line that is the size field.
LEMMA AtHeader ==
  ASSUME TypeInv, NEW d \in Ends, NEW line \in Seq(Byte), NEW p, NEW b \in Nat,
         At(d, line, p, b)
  PROVE  HeaderAt(line, p, b)
<1>1. /\ p \in Packets /\ sent[p].size \in Nat \ {0} /\ HeaderSize \in Nat \ {0}
      /\ Total(p) \in Nat /\ Total(p) = HeaderSize + sent[p].size
      /\ b + Total(p) <= Len(line) /\ Len(line) \in Nat
  BY AtSizes
<1>2. SubSeq(line, b + 1, b + HeaderSize) = Header(p)
  <2> DEFINE x == SubSeq(line, b + 1, b + HeaderSize)
  <2>1. /\ Header(p) \in Seq(Byte) /\ Len(Header(p)) = HeaderSize
        /\ \A i \in 1 .. HeaderSize : Header(p)[i] = <<p, i>>
    BY <1>1, PayloadBytes, PacketBytes
  <2> DEFINE stop == b + HeaderSize
  <2>2. stop \in Nat /\ b <= stop /\ stop <= Len(line) /\ stop - b = HeaderSize
    BY <1>1
  <2> HIDE DEF stop
  <2>3. /\ SubSeq(line, b + 1, stop) \in Seq(Byte)
        /\ Len(SubSeq(line, b + 1, stop)) = stop - b
        /\ \A i \in 1 .. stop - b : SubSeq(line, b + 1, stop)[i] = line[b + i]
    BY <2>2, Slice
  <2>4. /\ x \in Seq(Byte) /\ Len(x) = HeaderSize
        /\ \A i \in 1 .. HeaderSize : x[i] = line[b + i]
    BY <2>2, <2>3 DEF stop
  <2> HIDE DEF x
  <2>5. ASSUME NEW i \in 1 .. HeaderSize PROVE x[i] = Header(p)[i]
    <3>1. b + i \in Nat /\ b + i >= b + 1 /\ b + i <= b + Total(p) /\ b + i - b = i
      BY <1>1
    <3>2. line[b + i] = <<p, b + i - b>>
      BY <3>1, AtPlace
    <3>3. line[b + i] = <<p, i>>
      BY <3>1, <3>2
    <3>4. x[i] = line[b + i] /\ Header(p)[i] = <<p, i>>
      BY <2>1, <2>4
    <3> QED
      BY <3>3, <3>4
  <2>6. x = Header(p)
    BY <2>1, <2>4, <2>5, SeqEqual
  <2> QED
    BY <2>6 DEF x
<1> QED
  BY <1>2 DEF HeaderAt

\* Bytes i + 1 to j of the payload of a packet that begins after byte b.
PayloadAt(line, p, b, i, j) ==
  SubSeq(line, b + HeaderSize + i + 1, b + HeaderSize + j) = SubSeq(Payload(p), i + 1, j)

\* A slice of line that is a slice of the payload.
LEMMA AtSlice ==
  ASSUME TypeInv, NEW d \in Ends, NEW line \in Seq(Byte), NEW p, NEW b \in Nat,
         At(d, line, p, b),
         NEW i \in 0 .. sent[p].size, NEW j \in 0 .. sent[p].size, i <= j
  PROVE  PayloadAt(line, p, b, i, j)
<1>1. /\ p \in Packets /\ sent[p].size \in Nat \ {0} /\ HeaderSize \in Nat \ {0}
      /\ Total(p) \in Nat /\ Total(p) = HeaderSize + sent[p].size
      /\ b + Total(p) <= Len(line) /\ Len(line) \in Nat
  BY AtSizes
<1>2. SubSeq(line, b + HeaderSize + i + 1, b + HeaderSize + j)
        = SubSeq(Payload(p), i + 1, j)
  <2> DEFINE from == b + HeaderSize + i
             stop == b + HeaderSize + j
             x == SubSeq(line, from + 1, stop)
             y == SubSeq(Payload(p), i + 1, j)
  <2>1. /\ from \in Nat /\ stop \in Nat /\ from <= stop /\ stop <= Len(line)
        /\ stop - from = j - i /\ i \in Nat /\ j \in Nat
    BY <1>1, SMTT(60)
  <2> HIDE DEF from, stop
  <2>2. /\ x \in Seq(Byte) /\ Len(x) = stop - from
        /\ \A k \in 1 .. stop - from : x[k] = line[from + k]
    BY <2>1, Slice
  <2>3. /\ Payload(p) \in Seq(Byte) /\ Len(Payload(p)) = sent[p].size
        /\ \A k \in 1 .. sent[p].size : Payload(p)[k] = <<p, HeaderSize + k>>
    BY <1>1, PayloadBytes
  <2>4. /\ y \in Seq(Byte) /\ Len(y) = j - i
        /\ \A k \in 1 .. j - i : y[k] = Payload(p)[i + k]
    BY <2>1, <2>3, Slice
  <2> HIDE DEF x, y
  <2>5. ASSUME NEW k \in 1 .. j - i PROVE x[k] = y[k]
    <3> DEFINE h == from + k
    <3>1. /\ h \in Nat /\ h >= b + 1 /\ h <= b + Total(p)
          /\ h - b = HeaderSize + (i + k) /\ i + k \in 1 .. sent[p].size
      BY <1>1, <2>1, SMTT(60) DEF from
    <3> HIDE DEF h
    <3>2. line[h] = <<p, h - b>>
      BY <3>1, AtPlace
    <3>3. x[k] = line[h] /\ y[k] = Payload(p)[i + k]
      BY <2>1, <2>2, <2>4 DEF h
    <3> QED
      BY <2>3, <3>1, <3>2, <3>3
  <2>6. x = y
    BY <2>1, <2>2, <2>4, <2>5, SeqEqual
  <2> QED
    BY <2>6 DEF x, y, from, stop
<1> QED
  BY <1>2 DEF PayloadAt

\* The first j bytes of the payload.
FrontAt(line, p, b, j) ==
  SubSeq(line, b + HeaderSize + 1, b + HeaderSize + j) = SubSeq(Payload(p), 1, j)

\* The same for a slice that begins with the payload.
LEMMA AtFront ==
  ASSUME TypeInv, NEW d \in Ends, NEW line \in Seq(Byte), NEW p, NEW b \in Nat,
         At(d, line, p, b), NEW j \in 0 .. sent[p].size
  PROVE  FrontAt(line, p, b, j)
<1>1. PICK i \in Nat : i = 0
  OBVIOUS
<1>2. i \in 0 .. sent[p].size /\ i <= j
  BY <1>1, AtSizes
<1>3. PayloadAt(line, p, b, i, j)
  BY <1>2, AtSlice
<1>4. i + 1 = 1 /\ b + HeaderSize + i + 1 = b + HeaderSize + 1
  BY <1>1, HeaderSizeAssumption
<1> QED
  BY <1>3, <1>4 DEF PayloadAt, FrontAt

\* SendPayload keeps the flow of an untorn stream.
LEMMA SendPayloadFlow ==
  ASSUME TypeInv, NEW t \in Threads, SendPayload(t),
         NEW d \in Ends, d = EndOf(t), d \notin torn',
         NEW line \in Seq(Byte), NEW r \in Nat, NEW s \in Nat,
         Flow(d, line, r, s)
  PROVE  \E z \in Nat : Flow(d, line, r, z)'
<1> DEFINE p == next[t]
<1>1. /\ left[t] = << >> /\ p # None /\ next' = [next EXCEPT ![t] = None]
      /\ LookedUp(t) /\ Send(t, Handle(t), Payload(p))
      /\ UNCHANGED <<nonblocking, sent, receivers, table>>
  BY DEF SendPayload
<1>2. Handle(t) \in Ends
  BY EndOfIs
<1>3. next \in [Threads -> 0 .. Len(sent)] /\ p \in Packets
  BY <1>1 DEF TypeInv, TypeOK, Packets, None
<1>4. WholePackets(d, line) /\ s <= Len(line) /\ ToWrite(d, line, s)
  BY DEF Flow
<1>5. sent[p].size \in Nat \ {0} /\ Payload(p) \in Seq(Byte) /\ Len(Payload(p)) = sent[p].size
  BY <1>3, PayloadBytes
<1>6. Handle(t) = d /\ d[2] \notin closed /\ Goes(t, d)
  <2>1. Payload(p) # << >>
    BY <1>5
  <2>2. Handle(t) = d /\ d[2] \notin closed
    BY <1>1, <1>2, <1>5, <2>1, SendsOn
  <2> QED
    BY <1>1, <2>2, GoesThere
<1>7. PICK m \in s .. Len(line) : Len(left[t]) = m - s /\ Behind(t, line, m)
  <2>1. Writes(t, d)
    BY <1>1 DEF Writes, Idle
  <2> QED
    BY <1>4, <1>6, <2>1 DEF ToWrite
<1>8. Len(line) \in Nat /\ Len(left[t]) = 0
  BY <1>1
<1>9. m = s
  BY <1>7, <1>8
<1>10. s >= 1 /\ line[s] = <<p, HeaderSize>> /\ Len(line) = s + sent[p].size
  BY <1>1, <1>7, <1>9 DEF Behind
<1>11. s \in 1 .. Len(line)
  BY <1>4, <1>8, <1>10
<1>12. PICK q \in Packets, b \in Nat :
         At(d, line, q, b) /\ s >= b + 1 /\ s <= b + Total(q)
  BY <1>2, <1>4, <1>11, Extent
<1>13. line[s] = <<q, s - b>>
  BY <1>2, <1>4, <1>12, AtPlace
<1>14. q = p /\ s = b + HeaderSize /\ HeaderSize \in Nat
  <2>1. <<p, HeaderSize>> = <<q, s - b>>
    BY <1>10, <1>13
  <2>2. q = p /\ HeaderSize = s - b
    BY <2>1
  <2> QED
    BY <2>2, HeaderSizeAssumption
<1>15. SubSeq(line, s + 1, Len(line)) = Payload(p)
  <2>1. SubSeq(line, b + HeaderSize + 1, b + HeaderSize + sent[p].size)
          = SubSeq(Payload(p), 1, sent[p].size)
    <3> HIDE DEF p
    <3>1. sent[p].size \in 0 .. sent[p].size
      BY <1>5
    <3>2. At(d, line, p, b)
      BY <1>12, <1>14
    <3>3. FrontAt(line, p, b, sent[p].size)
      BY <1>2, <3>1, <3>2, AtFront
    <3> QED
      BY <3>3 DEF FrontAt
  <2>2. SubSeq(Payload(p), 1, sent[p].size) = Payload(p)
    BY <1>5, SubSeqFull
  <2>3. b + HeaderSize + 1 = s + 1 /\ b + HeaderSize + sent[p].size = Len(line)
    BY <1>10, <1>14, <1>5
  <2> HIDE DEF p
  <2> QED
    BY <2>1, <2>2, <2>3
<1>16. Behind(t, line, Len(line))'
  BY <1>1, <1>3 DEF Behind, None
<1>17. \A u \in Threads \ {t} : next'[u] = next[u]
  BY <1>1, <1>3
<1> HIDE DEF p
<1>18. PICK k \in Nat : k = Len(line)
  BY <1>8
<1>19. Behind(t, line, k)'
  BY <1>16, <1>18 DEF Behind
<1>20. Payload(p) = SubSeq(line, s + 1, k) /\ s <= k /\ k <= Len(line)
  BY <1>4, <1>15, <1>18
<1> QED
  BY <1>1, <1>5, <1>17, <1>19, <1>20, <1>6, WriteOn

\* So does a Send that goes on.
LEMMA ResumeFlow ==
  ASSUME TypeInv, NEW t \in Threads, Resume(t),
         NEW d \in Ends, d = EndOf(t), d \notin torn',
         NEW line \in Seq(Byte), NEW r \in Nat, NEW s \in Nat,
         Flow(d, line, r, s)
  PROVE  \E z \in Nat : Flow(d, line, r, z)'
<1>1. /\ left[t] # << >> /\ Send(t, d, left[t])
      /\ UNCHANGED <<nonblocking, sent, next, on, receivers, table>>
  BY DEF Resume
<1>2. Goes(t, d)
  BY <1>1, StaysThere
<1>3. left[t] \in Seq(Byte)
  BY DEF TypeInv, TypeOK
<1>4. d[2] \notin closed
  BY <1>1, <1>3, SendsOn
<1>5. PICK m \in s .. Len(line) : left[t] = SubSeq(line, s + 1, m) /\ Behind(t, line, m)
  <2>1. Writes(t, d) /\ ToWrite(d, line, s)
    BY <1>1 DEF Writes, Idle, Flow
  <2> QED
    BY <1>4, <2>1 DEF ToWrite
<1>6. m \in Nat /\ s <= m /\ m <= Len(line)
  OBVIOUS
<1>7. Behind(t, line, m)'
  BY <1>1, <1>5 DEF Behind
<1>8. \A u \in Threads \ {t} : next'[u] = next[u]
  BY <1>1
<1> QED
  BY <1>1, <1>5, <1>3, <1>6, <1>7, <1>8, <1>2, WriteOn

\* Longer is line with the new packet p of end d behind it.
Extended(d, line, p, longer) ==
  /\ Len(longer) = Len(line) + HeaderSize + sent'[p].size
  /\ \A i \in 1 .. Len(line) : longer[i] = line[i]
  /\ \A j \in 1 .. HeaderSize + sent'[p].size : longer[Len(line) + j] = <<p, j>>
  /\ \A a, b \in Nat : a <= b /\ b <= Len(line) =>
       SubSeq(longer, a + 1, b) = SubSeq(line, a + 1, b)
  /\ WholePackets(d, longer)' /\ InOrder(longer)

\* A new packet joins the line behind the others.
LEMMA LineGrows ==
  ASSUME TypeInv, Grows, NEW d \in Ends,
         NEW line \in Seq(Byte), WholePackets(d, line), InOrder(line),
         NEW p \in Nat, \A q \in Packets : q < p, p \in Packets', p \in 1 .. MaxPackets,
         sent'[p].size \in Nat \ {0}, sent'[p].end = d
  PROVE  \E longer \in Seq(Byte) : Extended(d, line, p, longer)
<1> DEFINE total == HeaderSize + sent'[p].size
           tail == [j \in 1 .. total |-> <<p, j>>]
           longer == line \o tail
<1>1. total \in Nat /\ HeaderSize \in Nat /\ Len(line) \in Nat /\ total >= 1
  BY HeaderSizeAssumption
<1>2. total = Total(p)'
  BY DEF Total
<1> HIDE DEF total
<1>3. tail \in Seq(Byte) /\ Len(tail) = total /\ \A j \in 1 .. total : tail[j] = <<p, j>>
  <2>1. \A j \in 1 .. total : <<p, j>> \in Byte
    BY <1>1 DEF Byte
  <2> QED
    BY <1>1, <2>1
<1> HIDE DEF tail
<1>4. /\ longer \in Seq(Byte) /\ Len(longer) = Len(line) + total
      /\ \A i \in 1 .. Len(line) + total :
           longer[i] = IF i <= Len(line) THEN line[i] ELSE tail[i - Len(line)]
  BY <1>3, ConcatProperties
<1>5. \A i \in 1 .. Len(line) : longer[i] = line[i]
  BY <1>1, <1>4
<1>6. ASSUME NEW j \in 1 .. total PROVE longer[Len(line) + j] = <<p, j>>
  <2> DEFINE i == Len(line) + j
  <2>1. i \in 1 .. Len(line) + total /\ ~ (i <= Len(line)) /\ i - Len(line) = j
    BY <1>1
  <2> HIDE DEF i
  <2>2. longer[i] = tail[j]
    BY <1>4, <2>1
  <2> QED
    BY <1>3, <2>2 DEF i
<1>7. ASSUME NEW a \in Nat, NEW b \in Nat, a <= b, b <= Len(line)
      PROVE  SubSeq(longer, a + 1, b) = SubSeq(line, a + 1, b)
  BY <1>3, <1>7, SliceOfConcat
<1> HIDE DEF longer
<1>8. PICK q : q = longer
  OBVIOUS
<1>9. WholePackets(d, q)'
  <2>1. WholePackets(d, line)'
    BY WholeKept
  <2>2. SUFFICES ASSUME NEW i \in 1 .. Len(q)
        PROVE LET x == q[i][1]
                  k == q[i][2]
              IN  /\ x \in Packets' /\ sent'[x].end = d
                  /\ k \in 1 .. Total(x)' /\ k <= i /\ i - k + Total(x)' <= Len(q)
                  /\ \A j \in 1 .. Total(x)' : q[i - k + j] = <<x, j>>
    BY DEF WholePackets
  <2>3. CASE i <= Len(line)
    <3> DEFINE x == line[i][1]
               k == line[i][2]
    <3>1. i \in 1 .. Len(line)
      BY <1>1, <1>4, <1>8, <2>3
    <3>2. q[i] = line[i]
      BY <1>5, <1>8, <3>1
    <3>3. /\ x \in Packets' /\ sent'[x].end = d
          /\ k \in 1 .. Total(x)' /\ k <= i /\ i - k + Total(x)' <= Len(line)
          /\ \A j \in 1 .. Total(x)' : line[i - k + j] = <<x, j>>
      BY <2>1, <3>1 DEF WholePackets
    <3> HIDE DEF x, k
    <3>4. Total(x)' \in Nat
      <4>1. x \in Packets
        <5>1. line[i][1] \in Packets
          BY <3>1 DEF WholePackets
        <5> QED
          BY <5>1 DEF x
      <4> QED
        BY <1>1, <4>1, PayloadBytes, PayloadKept, SMTT(60) DEF Total
    <3>5. ASSUME NEW j \in 1 .. Total(x)' PROVE q[i - k + j] = <<x, j>>
      <4>1. i - k + j \in 1 .. Len(line)
        BY <1>1, <3>1, <3>3, <3>4
      <4> QED
        BY <1>5, <1>8, <3>3, <4>1
    <3>6. i - k + Total(x)' <= Len(q)
      BY <1>1, <1>4, <1>8, <3>1, <3>3, <3>4
    <3> QED
      BY <3>2, <3>3, <3>5, <3>6 DEF x, k
  <2>4. CASE ~ (i <= Len(line))
    <3> DEFINE j == i - Len(line)
    <3>0. i \in Nat /\ i <= Len(line) + total /\ Len(q) = Len(line) + total
      <4>1. Len(q) = Len(line) + total
        BY <1>4, <1>8
      <4> QED
        BY <1>1, <4>1
    <3>1. j \in 1 .. total /\ i = Len(line) + j /\ i - j = Len(line)
      BY <1>1, <2>4, <3>0
    <3> HIDE DEF j
    <3>2. q[i] = <<p, j>>
      BY <1>6, <1>8, <3>1
    <3>3. q[i][1] = p /\ q[i][2] = j
      BY <3>2
    <3>4. /\ j <= i /\ i - j + total <= Len(q)
          /\ \A n \in 1 .. total : q[i - j + n] = <<p, n>>
      <4>1. j <= i /\ i - j + total <= Len(q)
        BY <1>1, <3>0, <3>1
      <4>2. \A n \in 1 .. total : q[Len(line) + n] = <<p, n>>
        BY <1>6, <1>8
      <4> QED
        BY <3>1, <4>1, <4>2
    <3> QED
      BY <1>2, <3>1, <3>3, <3>4
  <2> QED
    BY <2>3, <2>4
<1>10. InOrder(longer)
  <2>1. SUFFICES ASSUME NEW i \in 1 .. Len(longer), NEW j \in 1 .. Len(longer), i < j
        PROVE  \/ longer[i][1] < longer[j][1]
               \/ longer[i][1] = longer[j][1] /\ j - i = longer[j][2] - longer[i][2]
    BY DEF InOrder
  <2>0. i \in Nat /\ j \in Nat /\ i >= 1 /\ j <= Len(line) + total
    <3>1. Len(longer) = Len(line) + total
      BY <1>4
    <3> QED
      BY <1>1, <3>1
  <2>2. CASE j <= Len(line)
    <3>1. i \in 1 .. Len(line) /\ j \in 1 .. Len(line)
      BY <1>1, <1>4, <2>1, <2>2
    <3>2. longer[i] = line[i] /\ longer[j] = line[j]
      BY <1>5, <3>1
    <3> QED
      BY <2>1, <3>1, <3>2 DEF InOrder
  <2>3. CASE ~ (j <= Len(line)) /\ i <= Len(line)
    <3> DEFINE k == j - Len(line)
    <3>1. i \in 1 .. Len(line) /\ k \in 1 .. total /\ j = Len(line) + k
      BY <1>1, <2>0, <2>3
    <3> HIDE DEF k
    <3>2. longer[i] = line[i] /\ longer[j] = <<p, k>>
      BY <1>5, <1>6, <3>1
    <3>3. line[i][1] \in Packets
      BY <3>1 DEF WholePackets
    <3> QED
      BY <3>2, <3>3
  <2>4. CASE ~ (i <= Len(line))
    <3> DEFINE k == j - Len(line)
               h == i - Len(line)
    <3>1. /\ h \in 1 .. total /\ i = Len(line) + h
          /\ k \in 1 .. total /\ j = Len(line) + k /\ j - i = k - h
      BY <1>1, <2>0, <2>1, <2>4
    <3> HIDE DEF k, h
    <3>2. longer[i] = <<p, h>> /\ longer[j] = <<p, k>>
      BY <1>6, <3>1
    <3> QED
      BY <3>1, <3>2
  <2> QED
    BY <2>2, <2>3, <2>4
<1>11. Len(longer) = Len(line) + HeaderSize + sent'[p].size
  BY <1>1, <1>4 DEF total
<1>12. Extended(d, line, p, q)
  BY <1>5, <1>6, <1>7, <1>8, <1>9, <1>10, <1>11 DEF total, Extended
<1> QED
  BY <1>4, <1>8, <1>12

\* TakenBy and StillToCome when the line grows.
LEMMA LongerLine ==
  ASSUME NEW e \in Ends, NEW line \in Seq(Byte), NEW longer \in Seq(Byte),
         NEW r \in Nat, r <= Len(line), NEW p,
         sent'[p].size \in Nat \ {0},
         Extended(Peer(e), line, p, longer),
         buffer'[e] # Fresh => Len(buffer'[e].data) \in Nat,
         TakenBy(e, line, r)',
         \A i \in DOMAIN delivered'[e] : (Got(e)[i])' < p,
         \A i \in DOMAIN delivered'[e], j \in r + 1 .. Len(line) : (Got(e)[i])' < line[j][1],
         \A q \in Packets' \ {p} :
           sent'[q].end = Peer(e) =>
             \/ \E i \in DOMAIN delivered'[e] : (Got(e)[i])' = q
             \/ \E j \in r + 1 .. Len(line) : line[j][1] = q
  PROVE  TakenBy(e, longer, r)' /\ StillToCome(e, longer, r)'
<1> DEFINE total == HeaderSize + sent'[p].size
<1>1. /\ total \in Nat /\ total >= 1 /\ Len(line) \in Nat
      /\ Len(longer) = Len(line) + total
  BY HeaderSizeAssumption DEF Extended
<1>2. /\ \A j \in 1 .. total : longer[Len(line) + j] = <<p, j>>
      /\ \A i \in 1 .. Len(line) : longer[i] = line[i]
  BY DEF Extended
<1> HIDE DEF total
<1>3. TakenBy(e, longer, r)'
  <2>1. CASE buffer'[e] = Fresh
    <3>1. ASSUME r < Len(line) PROVE longer[r + 1][2] = 1
      <4>1. r + 1 \in 1 .. Len(line)
        BY <1>1, <3>1
      <4>2. longer[r + 1] = line[r + 1]
        BY <1>2, <4>1
      <4> QED
        BY <2>1, <3>1, <4>2 DEF TakenBy
    <3>2. ASSUME r = Len(line) PROVE longer[r + 1][2] = 1
      <4>1. longer[r + 1] = <<p, 1>>
        BY <1>1, <1>2, <3>2
      <4> QED
        BY <4>1
    <3> QED
      BY <1>1, <2>1, <3>1, <3>2 DEF TakenBy
  <2>2. CASE buffer'[e] # Fresh
    <3>1. r >= HeaderSize + Len(buffer'[e].data)
      BY <2>2 DEF TakenBy
    <3>2. r \in 1 .. Len(line)
      BY <1>1, <2>2, <3>1, HeaderSizeAssumption
    <3>3. longer[r] = line[r]
      BY <1>2, <3>2
    <3> QED
      BY <2>2, <3>3 DEF TakenBy
  <2> QED
    BY <2>1, <2>2
<1>4. ASSUME NEW i \in DOMAIN delivered'[e], NEW j \in r + 1 .. Len(longer)
      PROVE  (Got(e)[i])' < longer[j][1]
  <2>0. j \in Nat /\ j >= r + 1 /\ j <= Len(line) + total
    BY <1>1
  <2>1. CASE j <= Len(line)
    <3>1. j \in r + 1 .. Len(line) /\ j \in 1 .. Len(line)
      BY <1>1, <2>0, <2>1
    <3>2. longer[j] = line[j]
      BY <1>2, <3>1
    <3> QED
      BY <3>1, <3>2
  <2>2. CASE ~ (j <= Len(line))
    <3> DEFINE k == j - Len(line)
    <3>1. k \in 1 .. total /\ j = Len(line) + k
      BY <1>1, <2>0, <2>2
    <3> HIDE DEF k
    <3>2. longer[j] = <<p, k>>
      BY <1>2, <3>1
    <3> QED
      BY <3>2
  <2> QED
    BY <2>1, <2>2
<1>5. ASSUME NEW q \in Packets', sent'[q].end = Peer(e)
      PROVE  \/ \E i \in DOMAIN delivered'[e] : (Got(e)[i])' = q
             \/ \E j \in r + 1 .. Len(longer) : longer[j][1] = q
  <2>1. ASSUME NEW j \in r + 1 .. Len(line)
        PROVE  j \in r + 1 .. Len(longer) /\ longer[j] = line[j]
    <3>1. j \in r + 1 .. Len(longer) /\ j \in 1 .. Len(line)
      BY <1>1
    <3> QED
      BY <1>2, <3>1
  <2>2. CASE q # p
    BY <1>5, <2>1, <2>2
  <2>3. CASE q = p
    <3>1. Len(line) + 1 \in r + 1 .. Len(longer) /\ longer[Len(line) + 1] = <<p, 1>>
      BY <1>1, <1>2
    <3>2. longer[Len(line) + 1][1] = q
      BY <2>3, <3>1
    <3> QED
      BY <3>1, <3>2
  <2> QED
    BY <2>2, <2>3
<1> QED
  BY <1>3, <1>4, <1>5 DEF StillToCome

\* SendSize begins a new packet.
LEMMA SendSizeFlow ==
  ASSUME TypeInv, NEW t \in Threads, NEW size \in Sizes, SendSize(t, size),
         NEW d \in Ends, d = Handle(t), d \notin torn', HandedOver(Peer(d)),
         NEW line \in Seq(Byte), NEW r \in Nat, NEW s \in Nat,
         Flow(d, line, r, s)
  PROVE  \E longer \in Seq(Byte), z \in Nat : Flow(d, longer, r, z)'
<1> DEFINE e == Peer(d)
           record == [size |-> size, end |-> d]
<1>1. PICK p : p = Len(sent')
  OBVIOUS
<1>2. /\ Idle(t) /\ Len(sent) < MaxPackets
      /\ sent' = Append(sent, record)
      /\ next' = [next EXCEPT ![t] = p]
      /\ LookedUp(t) /\ Send(t, d, Header(p))
      /\ UNCHANGED <<nonblocking, receivers, table>>
  BY <1>1 DEF SendSize
<1>3. e \in Ends /\ Peer(e) = d
  BY PeerIs
<1>4. /\ Grows /\ Packets' = Packets \cup {p} /\ p = Len(sent) + 1
      /\ sent'[p] = record
  BY <1>1, <1>2, GrowsIfAppended
<1>5. /\ p \in Nat \ {0} /\ p \in 1 .. MaxPackets /\ \A q \in Packets : q < p
      /\ p \in Packets'
  <2>1. Len(sent) \in Nat /\ MaxPackets \in Nat
    BY BoundsAssumption DEF TypeInv, TypeOK
  <2> QED
    BY <1>2, <1>4, <2>1 DEF Packets
<1>6. /\ sent'[p].size = size /\ sent'[p].end = d
      /\ size \in Nat \ {0}
  BY <1>4, SizesAssumption
<1>7. /\ WholePackets(d, line) /\ InOrder(line)
      /\ r <= s /\ s <= Len(line)
      /\ stream[d] = SubSeq(line, r + 1, s)
      /\ TakenBy(e, line, r)
      /\ StillToCome(e, line, r)
      /\ ToWrite(d, line, s)
  BY DEF Flow
<1>8. /\ Header(p) \in Seq(Byte) /\ Len(Header(p)) = HeaderSize
      /\ \A i \in 1 .. HeaderSize : Header(p)[i] = <<p, i>>
      /\ HeaderSize \in Nat \ {0}
  BY <1>5, PacketBytes, HeaderSizeAssumption
<1>9. ~Overlaps(t, d) /\ d[2] \notin closed /\ Goes(t, d)
  <2>1. Header(p) # << >>
    BY <1>8
  <2>2. ~Overlaps(t, d) /\ d[2] \notin closed
    BY <1>2, <1>3, <1>8, <2>1, SendStep
  <2> QED
    BY <1>2, <2>2, GoesThere
<1>10. s = Len(line)
  <2>1. \A u \in Threads : ~Writes(u, d)
    BY <1>2, <1>9 DEF Overlaps, Writes
  <2> QED
    BY <1>7, <1>9, <2>1 DEF ToWrite
<1>11. PICK longer \in Seq(Byte) : Extended(d, line, p, longer)
  BY <1>2, <1>3, <1>4, <1>5, <1>6, <1>7, LineGrows
<1>12. TakenBy(e, longer, r)' /\ StillToCome(e, longer, r)'
  <2>1. /\ delivered'[e] = delivered[e] /\ buffer'[e] = buffer[e]
        /\ r <= Len(line)
    BY <1>2, <1>7 DEF receivers
  <2>2. TakenBy(e, line, r)'
    BY <1>3, <1>4, <1>7, <2>1, TakenKept
  <2>3. Got(e)' = Got(e)
    BY <2>1 DEF Got
  <2>4. \A i \in DOMAIN delivered'[e] : (Got(e)[i])' < p
    BY <1>5, <2>1, <2>3 DEF HandedOver
  <2>5. \A i \in DOMAIN delivered'[e], j \in r + 1 .. Len(line) : (Got(e)[i])' < line[j][1]
    BY <1>7, <2>1, <2>3 DEF StillToCome
  <2>6. ASSUME NEW q \in Packets' \ {p}, sent'[q].end = Peer(e)
        PROVE  \/ \E i \in DOMAIN delivered'[e] : (Got(e)[i])' = q
               \/ \E j \in r + 1 .. Len(line) : line[j][1] = q
    <3>1. q \in Packets /\ sent'[q] = sent[q]
      BY <1>4 DEF Grows
    <3> QED
      BY <1>7, <2>1, <2>3, <2>6, <3>1 DEF StillToCome
  <2>7. buffer'[e] # Fresh => Len(buffer'[e].data) \in Nat
    BY <1>3, <2>1, SMTT(60) DEF TypeInv, TypeOK
  <2> HIDE DEF e
  <2> QED
    BY <1>3, <1>6, <1>11, <2>1, <2>2, <2>4, <2>5, <2>6, <2>7, LongerLine, SMTT(60)
<1>13. PICK m \in Nat : m = s + HeaderSize
  BY <1>8
<1>14. /\ s <= m /\ m <= Len(longer) /\ Len(longer) \in Nat
       /\ Len(longer) = m + sent'[p].size
  BY <1>6, <1>8, <1>10, <1>11, <1>13 DEF Extended
<1>15. longer[m] = <<p, HeaderSize>>
  <2>1. HeaderSize \in 1 .. HeaderSize + sent'[p].size
    BY <1>6, <1>8
  <2>2. longer[Len(line) + HeaderSize] = <<p, HeaderSize>>
    BY <1>11, <2>1 DEF Extended
  <2> QED
    BY <1>10, <1>13, <2>2
<1>16. Behind(t, longer, m)'
  <2>1. next'[t] = p /\ p # None
    BY <1>2, <1>5 DEF TypeInv, TypeOK, None
  <2>2. m >= 1
    BY <1>8, <1>13
  <2> QED
    BY <1>14, <1>15, <2>1, <2>2 DEF Behind
<1>17. Header(p) = SubSeq(longer, s + 1, m)
  <2> DEFINE x == SubSeq(longer, s + 1, m)
  <2>1. /\ x \in Seq(Byte) /\ Len(x) = m - s
        /\ \A i \in 1 .. m - s : x[i] = longer[s + i]
    BY <1>14, Slice
  <2>2. m - s = HeaderSize
    BY <1>8, <1>13
  <2> HIDE DEF x
  <2>3. ASSUME NEW i \in 1 .. HeaderSize PROVE Header(p)[i] = x[i]
    <3>1. i \in 1 .. HeaderSize + sent'[p].size
      BY <1>6, <1>8
    <3>2. longer[s + i] = <<p, i>>
      BY <1>10, <1>11, <3>1 DEF Extended
    <3> QED
      BY <1>8, <2>1, <2>2, <3>2
  <2>4. Header(p) = x
    BY <1>8, <2>1, <2>2, <2>3, SeqEqual
  <2> QED
    BY <2>4 DEF x
<1>18. stream[d] = SubSeq(longer, r + 1, s)
  BY <1>7, <1>11 DEF Extended
<1>19. /\ ~Overlaps(t, d)
       /\ \E z \in s .. m : Wrote(t, d, longer, r, z, m)
  BY <1>2, <1>3, <1>7, <1>8, <1>14, <1>17, <1>18, WriteStep
<1>20. PICK z \in s .. m : /\ stream'[d] = SubSeq(longer, r + 1, z)
                           /\ left'[t] = SubSeq(longer, z + 1, m)
                           /\ Len(left'[t]) = m - z
  BY <1>19 DEF Wrote
<1>21. ToWrite(d, longer, z)'
  <2>1. \A u \in Threads \ {t} : next'[u] = next[u]
    BY <1>2 DEF TypeInv, TypeOK
  <2> QED
    BY <1>2, <1>3, <1>8, <1>9, <1>14, <1>16, <1>19, <1>20, <2>1, WriterStep
<1>22. z \in Nat /\ r <= z /\ z <= Len(longer)
  BY <1>7, <1>14
<1>23. Flow(d, longer, r, z)'
  BY <1>11, <1>12, <1>20, <1>21, <1>22 DEF Flow, InOrder, Extended
<1> QED
  BY <1>22, <1>23
-----------------------------------------------------------------------------
(* Taking. *)

\* Where a receiver is in the packet it collects: it has n bytes of the payload
\* of packet p, which begins at byte b + 1 of line.
LEMMA Collecting ==
  ASSUME TypeInv, NEW e \in Ends, NEW line \in Seq(Byte), NEW r \in Nat,
         r <= Len(line), WholePackets(Peer(e), line), TakenBy(e, line, r),
         buffer[e] # Fresh
  PROVE  \E p \in Packets, b \in Nat :
           /\ At(Peer(e), line, p, b)
           /\ r = b + HeaderSize + Len(buffer[e].data)
           /\ buffer[e].size = sent[p].size
           /\ buffer[e].data = SubSeq(Payload(p), 1, Len(buffer[e].data))
           /\ Len(buffer[e].data) < sent[p].size
<1> DEFINE n == Len(buffer[e].data)
           p == line[r][1]
<1>1. /\ r >= HeaderSize + n /\ line[r][2] = HeaderSize + n
      /\ buffer[e].size = sent[p].size
      /\ buffer[e].data = SubSeq(Payload(p), 1, n)
  BY DEF TakenBy
<1>2. n \in Nat /\ HeaderSize \in Nat \ {0} /\ Peer(e) \in Ends /\ n < buffer[e].size
  BY HeaderSizeAssumption, PeerIs DEF TypeInv, TypeOK
<1>3. r \in 1 .. Len(line)
  BY <1>1, <1>2
<1>4. PICK q \in Packets, b \in Nat :
        At(Peer(e), line, q, b) /\ r >= b + 1 /\ r <= b + Total(q)
  BY <1>2, <1>3, Extent
<1>5. line[r][1] = q /\ line[r][2] = r - b
  <2> HIDE DEF n, p
  <2> QED
    BY <1>2, <1>4, AtPlace
<1>6. r = b + HeaderSize + n
  <2>1. HeaderSize + n = r - b
    BY <1>1, <1>5
  <2> HIDE DEF n
  <2> QED
    BY <1>2, <2>1
<1>7. /\ buffer[e].size = sent[q].size
      /\ buffer[e].data = SubSeq(Payload(q), 1, n)
  BY <1>1, <1>5
<1> QED
  BY <1>2, <1>4, <1>6, <1>7

\* What the bytes of a size field read as.
LEMMA ReadHeader ==
  ASSUME TypeInv, NEW p \in Packets
  PROVE  ReadSize(Header(p)) = {sent[p].size}
<1>1. ASSUME NEW q \in Packets, Header(p) = Header(q) PROVE q = p
  <2>1. 1 \in 1 .. HeaderSize
    BY HeaderSizeAssumption
  <2>2. Header(p)[1] = <<p, 1>> /\ Header(q)[1] = <<q, 1>>
    BY <2>1, PayloadBytes, PacketBytes
  <2> QED
    BY <1>1, <2>2
<1>2. {q \in Packets : Header(p) = Header(q)} = {p}
  BY <1>1
<1> QED
  BY <1>2 DEF ReadSize

\* A turn takes nothing and has an empty packet, or it goes on with, or begins,
\* the next packet on line, and does not go beyond it.
GoesOn(e, line, r, header, size, count) ==
  LET data == buffer[e].data \o
                SubSeq(stream[Peer(e)], header + 1, header + count)
  IN  \/ /\ header + count = 0 /\ size = 0 /\ buffer[e] = Fresh /\ data = << >>
      \/ \E p \in Packets, b \in Nat :
           /\ At(Peer(e), line, p, b) /\ size = sent[p].size
           /\ b <= r /\ Len(data) <= size
           /\ Len(data) = size => r < b + Total(p)
           /\ r + header + count = b + HeaderSize + Len(data)
           /\ data = SubSeq(Payload(p), 1, Len(data))

\* What a turn of check_packets does on an untorn stream.
LEMMA TakeOn ==
  ASSUME TypeInv, NEW e \in Ends, NEW header \in Nat, NEW size \in Nat, NEW count \in Nat,
         Takes(e, header, size, count),
         NEW line \in Seq(Byte), NEW r \in Nat, NEW s \in Nat,
         Flow(Peer(e), line, r, s)
  PROVE  GoesOn(e, line, r, header, size, count)
<1> DEFINE d == Peer(e)
           incoming == stream[d]
           old == buffer[e].data
           more == SubSeq(incoming, header + 1, header + count)
           data == old \o more
<1>1. /\ WholePackets(d, line) /\ r <= s /\ s <= Len(line)
      /\ incoming = SubSeq(line, r + 1, s) /\ TakenBy(e, line, r)
  BY PeerIs DEF Flow
<1>2. /\ d \in Ends /\ incoming \in Seq(Byte) /\ old \in Seq(Byte) /\ Len(old) \in Nat
      /\ buffer[e] = Fresh => Len(old) = 0 /\ old = << >> /\ buffer[e].size = 0
      /\ HeaderSize \in Nat \ {0} /\ Len(line) \in Nat
  <2>1. /\ stream \in [Ends -> Seq(Byte)] /\ buffer \in [Ends -> [size : Nat, data : Seq(Byte)]]
    BY DEF TypeInv, TypeOK
  <2>2. d \in Ends
    BY PeerIs
  <2>3. incoming \in Seq(Byte) /\ old \in Seq(Byte)
    BY <2>1, <2>2
  <2>4. buffer[e] = Fresh => old = << >> /\ buffer[e].size = 0
    BY DEF Fresh
  <2> HIDE DEF old
  <2>5. Len(old) \in Nat /\ Len(line) \in Nat /\ (old = << >> => Len(old) = 0)
    BY <2>3
  <2> QED
    BY <2>2, <2>3, <2>4, <2>5, HeaderSizeAssumption
<1>3. /\ IF header = 0 THEN size = buffer[e].size
         ELSE /\ header = HeaderSize /\ buffer[e] = Fresh
              /\ size \in ReadSize(SubSeq(incoming, 1, HeaderSize))
      /\ header + count <= Len(incoming)
      /\ data \in Seq(Byte) /\ Len(data) = Len(old) + count
      /\ Len(data) <= size
  BY DEF Takes
<1>4. Len(incoming) = s - r /\ r + header + count <= s
  <2>1. Len(incoming) = s - r
    BY <1>1, <1>2, Slice
  <2> QED
    BY <1>2, <1>3, <2>1
<1>5. more = SubSeq(line, r + header + 1, r + header + count)
  <2> DEFINE stop == header + count
  <2>1. stop \in Nat /\ header <= stop /\ stop <= s - r
    BY <1>4
  <2> HIDE DEF stop
  <2>2. r <= s /\ s <= Len(line)
    BY <1>1
  <2>3. SubSeq(SubSeq(line, r + 1, s), header + 1, stop)
          = SubSeq(line, r + header + 1, r + stop)
    BY <2>1, <2>2, SliceOfSlice
  <2>4. r + stop = r + header + count
    BY DEF stop
  <2> QED
    BY <1>1, <2>3, <2>4 DEF stop
<1> HIDE DEF incoming
<1>6. CASE header = 0 /\ buffer[e] = Fresh
  <2>1. size = 0 /\ count = 0 /\ Len(data) = 0
    <3>1. Len(old) = 0 /\ size = 0
      BY <1>2, <1>3, <1>6
    <3>2. Len(data) = Len(old) + count /\ Len(data) <= size
      BY <1>3
    <3> HIDE DEF data, old
    <3> QED
      BY <3>1, <3>2
  <2>2. data = << >>
    BY <1>3, <2>1, EmptySeq
  <2> QED
    BY <1>6, <2>1, <2>2 DEF incoming, GoesOn
<1>7. CASE header = 0 /\ buffer[e] # Fresh
  <2> DEFINE n == Len(old)
  <2>1. PICK p \in Packets, b \in Nat :
          /\ At(d, line, p, b)
          /\ r = b + HeaderSize + n
          /\ buffer[e].size = sent[p].size
          /\ old = SubSeq(Payload(p), 1, n)
          /\ n < sent[p].size
    <3>1. r <= Len(line)
      BY <1>1, <1>2
    <3> QED
      BY <1>1, <1>7, <3>1, Collecting
  <2>2. size = sent[p].size /\ n + count <= size
    BY <1>3, <1>7, <2>1
  <2>3. /\ Payload(p) \in Seq(Byte) /\ Len(Payload(p)) = sent[p].size
        /\ Total(p) = HeaderSize + sent[p].size
    BY <2>1, PayloadBytes DEF Total
  <2>4. more = SubSeq(Payload(p), n + 1, n + count)
    <3> DEFINE stop == n + count
    <3>0. n \in Nat /\ r = b + HeaderSize + n /\ n <= sent[p].size /\ n + count <= sent[p].size
      BY <1>2, <2>1, <2>2, PayloadBytes, SMTT(60)
    <3> HIDE DEF more, n
    <3>1. n \in 0 .. sent[p].size /\ stop \in 0 .. sent[p].size /\ n <= stop
      BY <2>1, <3>0, PayloadBytes
    <3>2. r + header + 1 = b + HeaderSize + n + 1 /\ r + header + count = b + HeaderSize + stop
      <4>1. header = 0 /\ HeaderSize \in Nat
        BY <1>2, <1>7
      <4> QED
        BY <3>0, <4>1
    <3> HIDE DEF stop
    <3>3. PayloadAt(line, p, b, n, stop)
      BY <1>2, <2>1, <3>1, AtSlice
    <3>4. more = SubSeq(Payload(p), n + 1, stop)
      BY <1>5, <3>2, <3>3 DEF PayloadAt
    <3> QED
      BY <3>4 DEF stop
  <2>5. data = SubSeq(Payload(p), 1, n + count)
    <3> DEFINE stop == n + count
    <3>1. stop \in Nat /\ n <= stop /\ stop <= Len(Payload(p)) /\ n \in Nat
      <4>1. n \in Nat /\ n + count <= Len(Payload(p))
        BY <1>2, <2>2, <2>3
      <4> HIDE DEF n
      <4> QED
        BY <4>1
    <3>2. old = SubSeq(Payload(p), 1, n) /\ more = SubSeq(Payload(p), n + 1, stop)
      BY <2>1, <2>4
    <3> HIDE DEF stop, more, n, old
    <3>3. SubSeq(Payload(p), 1, n) \o SubSeq(Payload(p), n + 1, stop)
            = SubSeq(Payload(p), 1, stop)
      BY <2>3, <3>1, FrontConcat
    <3>4. data = SubSeq(Payload(p), 1, stop)
      BY <3>2, <3>3
    <3> QED
      BY <3>4 DEF stop
  <2>7. Len(data) = n + count /\ n \in Nat
    BY <1>2, <1>3
  <2> HIDE DEF n, data, old
  <2>6. /\ b <= r /\ r < b + Total(p)
        /\ r + header + count = b + HeaderSize + Len(data)
    BY <1>2, <1>7, <2>1, <2>3, <2>7
  <2>8. data = SubSeq(Payload(p), 1, Len(data))
    BY <2>5, <2>7
  <2>9. /\ At(d, line, p, b) /\ size = sent[p].size
        /\ b <= r /\ Len(data) <= size
        /\ Len(data) = size => r < b + Total(p)
        /\ r + header + count = b + HeaderSize + Len(data)
        /\ data = SubSeq(Payload(p), 1, Len(data))
    BY <1>3, <2>1, <2>2, <2>6, <2>8
  <2> QED
    BY <2>1, <2>9 DEF data, old, incoming, GoesOn
<1>8. CASE header # 0
  <2>1. header = HeaderSize /\ buffer[e] = Fresh /\ old = << >> /\ Len(old) = 0
    BY <1>2, <1>3, <1>8
  <2>2. r + 1 <= Len(line) /\ r + 1 \in 1 .. Len(line)
    BY <1>1, <1>2, <1>4, <2>1
  <2>3. line[r + 1][2] = 1
    BY <1>1, <1>2, <2>1, <2>2 DEF TakenBy
  <2>4. PICK p \in Packets, b \in Nat :
          At(d, line, p, b) /\ r + 1 >= b + 1 /\ r + 1 <= b + Total(p)
    BY <1>1, <1>2, <2>2, Extent
  <2>5. line[r + 1][2] = r + 1 - b
    <3>1. r + 1 \in Nat
      BY <2>2
    <3> QED
      BY <1>2, <2>4, <3>1, AtPlace
  <2>6. b = r
    BY <2>3, <2>5
  <2>7. SubSeq(incoming, 1, HeaderSize) = Header(p)
    <3> HIDE DEF old, more, data
    <3>1. HeaderSize \in Nat /\ HeaderSize <= s - r
      BY <1>2, <1>4, <2>1
    <3>2. SubSeq(SubSeq(line, r + 1, s), 1, HeaderSize) = SubSeq(line, r + 1, r + HeaderSize)
      BY <1>1, <1>2, <3>1, FrontOfSlice
    <3>3. HeaderAt(line, p, b)
      BY <1>2, <2>4, AtHeader
    <3>4. SubSeq(line, r + 1, r + HeaderSize) = Header(p)
      BY <2>6, <3>3 DEF HeaderAt
    <3> QED
      BY <1>1, <3>2, <3>4 DEF incoming
  <2>8. size = sent[p].size
    BY <1>3, <1>8, <2>7, ReadHeader
  <2>9. /\ Payload(p) \in Seq(Byte) /\ Len(Payload(p)) = sent[p].size
        /\ Total(p) = HeaderSize + sent[p].size
    BY <2>4, PayloadBytes DEF Total
  <2>10. more = SubSeq(Payload(p), 1, count)
    <3>1. count \in 0 .. sent[p].size
      <4>1. Len(data) = Len(old) + count /\ Len(data) <= size
        BY <1>3
      <4> HIDE DEF data, old
      <4> QED
        BY <2>1, <2>4, <2>8, <4>1, PayloadBytes
    <3>2. FrontAt(line, p, b, count)
      BY <1>2, <2>4, <3>1, AtFront
    <3>3. b + HeaderSize + 1 = r + header + 1 /\ b + HeaderSize + count = r + header + count
      BY <1>2, <2>1, <2>6
    <3> HIDE DEF more
    <3> QED
      BY <1>5, <3>2, <3>3 DEF FrontAt
  <2>11. data = more
    <3>1. more \in Seq(Byte)
      <4>1. 0 \in Nat /\ count \in Nat /\ 0 <= count /\ count <= Len(Payload(p))
        BY <1>3, <2>1, <2>8, <2>9
      <4>2. SubSeq(Payload(p), 0 + 1, count) \in Seq(Byte)
        BY <2>9, <4>1, Slice
      <4> HIDE DEF more
      <4> QED
        BY <2>10, <4>2
    <3> HIDE DEF more, old
    <3> QED
      BY <2>1, <3>1, ConcatEmptySeq
  <2> HIDE DEF more, old
  <2>12. Len(data) = count /\ Len(data) <= size
    BY <1>3, <2>1
  <2> HIDE DEF data
  <2>13. /\ b <= r /\ r < b + Total(p)
         /\ r + header + count = b + HeaderSize + Len(data)
    BY <1>2, <2>1, <2>4, <2>6, <2>9, <2>12
  <2>14. /\ At(d, line, p, b) /\ size = sent[p].size
         /\ b <= r /\ Len(data) <= size
         /\ Len(data) = size => r < b + Total(p)
         /\ r + header + count = b + HeaderSize + Len(data)
         /\ data = SubSeq(Payload(p), 1, Len(data))
    BY <2>4, <2>8, <2>10, <2>11, <2>12, <2>13
  <2> QED
    BY <2>4, <2>14 DEF data, more, old, incoming, GoesOn
<1> QED
  BY <1>6, <1>7, <1>8

\* Behind a packet on line comes the beginning of a later one, or nothing.
LEMMA BehindPacket ==
  ASSUME TypeInv, NEW d \in Ends, NEW line \in Seq(Byte), WholePackets(d, line), InOrder(line),
         NEW p, NEW b \in Nat, At(d, line, p, b)
  PROVE  /\ \A j \in b + Total(p) + 1 .. Len(line) : p < line[j][1]
         /\ b + Total(p) < Len(line) => line[b + Total(p) + 1][2] = 1
<1>1. /\ p \in Packets /\ sent[p].size \in Nat \ {0} /\ HeaderSize \in Nat \ {0}
      /\ Total(p) \in Nat /\ Total(p) = HeaderSize + sent[p].size
      /\ b + Total(p) <= Len(line) /\ Len(line) \in Nat
  BY AtSizes
<1>2. PICK z \in Nat : z = b + Total(p)
  BY <1>1
<1>3. z \in 1 .. Len(line) /\ line[z] = <<p, Total(p)>> /\ p \in Nat
  <2>1. z >= b + 1 /\ z <= b + Total(p) /\ z - b = Total(p) /\ z \in 1 .. Len(line)
    BY <1>1, <1>2
  <2>2. line[z] = <<p, z - b>>
    BY <2>1, AtPlace
  <2> QED
    BY <1>1, <2>1, <2>2 DEF Packets
<1>4. ASSUME NEW j \in z + 1 .. Len(line)
      PROVE  /\ p < line[j][1] /\ j \in 1 .. Len(line)
             /\ line[j][2] \in Nat /\ line[j][2] >= 1 /\ line[j][2] <= j
             /\ \A k \in 1 .. line[j][2] : line[j - line[j][2] + k] = <<line[j][1], k>>
  <2>1. j \in 1 .. Len(line) /\ z < j /\ j \in Nat
    BY <1>1
  <2>2. PICK q, k : q = line[j][1] /\ k = line[j][2]
    OBVIOUS
  <2>3. /\ q \in Packets /\ k \in 1 .. Total(q) /\ k <= j
        /\ \A i \in 1 .. Total(q) : line[j - k + i] = <<q, i>>
    BY <2>1, <2>2 DEF WholePackets
  <2>4. Total(q) \in Nat
    BY <2>3, PayloadBytes, HeaderSizeAssumption, SMTT(60) DEF Total
  <2>5. p < q \/ (p = q /\ j - z = k - Total(p))
    <3>1. \/ line[z][1] < line[j][1]
          \/ line[z][1] = line[j][1] /\ j - z = line[j][2] - line[z][2]
      BY <1>3, <2>1 DEF InOrder
    <3>2. line[z][1] = p /\ line[z][2] = Total(p)
      BY <1>3
    <3> QED
      BY <2>2, <3>1, <3>2
  <2>6. p < q
    <3>1. ASSUME p = q, j - z = k - Total(p) PROVE FALSE
      BY <1>1, <2>1, <2>3, <3>1, SMTT(60)
    <3> QED
      BY <2>5, <3>1
  <2>7. \A i \in 1 .. k : i \in 1 .. Total(q)
    BY <2>3, <2>4
  <2> QED
    BY <2>1, <2>2, <2>3, <2>4, <2>6, <2>7
<1>5. ASSUME z < Len(line) PROVE line[z + 1][2] = 1
  <2>1. PICK j \in z + 1 .. Len(line) : j = z + 1
    BY <1>1, <1>5
  <2>2. PICK q, k : q = line[j][1] /\ k = line[j][2]
    OBVIOUS
  <2>3. /\ p < q /\ k \in Nat /\ k >= 1
        /\ \A i \in 1 .. k : line[j - k + i] = <<q, i>>
    BY <1>4, <2>2
  <2>4. ASSUME k # 1 PROVE FALSE
    <3>1. PICK i \in Nat : i = k - 1
      BY <2>3
    <3>2. i \in 1 .. k /\ j - k + i = z
      BY <2>1, <2>3, <2>4, <3>1
    <3>3. line[z] = <<q, i>>
      BY <2>3, <3>2
    <3>4. p = q
      BY <1>3, <3>3
    <3> QED
      BY <1>3, <2>3, <3>4
  <2> QED
    BY <2>1, <2>2, <2>4
<1> QED
  BY <1>2, <1>4, <1>5

\* End e is handed packet p as the n-th one.
Handed(e, data, p, n) ==
  /\ n = Len(delivered[e]) + 1
  /\ DOMAIN delivered'[e] = DOMAIN delivered[e] \cup {n} /\ DOMAIN delivered[e] \subseteq Nat
  /\ \A i \in DOMAIN delivered[e] :
       i < n /\ delivered'[e][i] = delivered[e][i] /\ (Got(e)[i])' = Got(e)[i]
  /\ delivered'[e][n] = data /\ (Got(e)[n])' = p

\* Got when end e is handed one more packet.
LEMMA GotMore ==
  ASSUME TypeInv, NEW e \in Ends, NEW data, delivered'[e] = Append(delivered[e], data),
         NEW p, data[1][1] = p
  PROVE  \E n \in Nat : Handed(e, data, p, n)
<1> DEFINE Packet == Seq(Byte)
<1>1. delivered[e] \in Seq(Packet)
  BY DEF TypeInv, TypeOK
<1> HIDE DEF Packet
<1>2. PICK n \in Nat : n = Len(delivered[e]) + 1
  BY <1>1
<1>3. /\ DOMAIN delivered'[e] = 1 .. n /\ DOMAIN delivered[e] = 1 .. n - 1
      /\ \A i \in 1 .. n - 1 : delivered'[e][i] = delivered[e][i]
      /\ delivered'[e][n] = data
  BY <1>1, <1>2
<1>4. 1 .. n = 1 .. n - 1 \cup {n} /\ 1 .. n - 1 \subseteq Nat /\ \A i \in 1 .. n - 1 : i < n
  BY <1>1, <1>2
<1>5. DOMAIN delivered'[e] = DOMAIN delivered[e] \cup {n}
  BY <1>3, <1>4
<1>6. \A i \in DOMAIN delivered'[e] : (Got(e)[i])' = delivered'[e][i][1][1]
  BY DEF Got
<1>7. \A i \in DOMAIN delivered[e] : Got(e)[i] = delivered[e][i][1][1]
  BY DEF Got
<1>8. ASSUME NEW i \in DOMAIN delivered[e]
      PROVE  i < n /\ delivered'[e][i] = delivered[e][i] /\ (Got(e)[i])' = Got(e)[i]
  <2>1. i \in DOMAIN delivered'[e] /\ i < n /\ delivered'[e][i] = delivered[e][i]
    BY <1>3, <1>4, <1>5
  <2> QED
    BY <1>6, <1>7, <2>1
<1>9. (Got(e)[n])' = p
  BY <1>3, <1>5, <1>6
<1> QED
  BY <1>2, <1>3, <1>4, <1>5, <1>8, <1>9 DEF Handed

\* What is on the stream of end d is line between the cuts r and s.
OnStream(d, line, r, s) == stream[d] = SubSeq(line, r + 1, s)

\* A turn of check_packets takes what it takes off the front of the stream, and
\* leaves the other stream and what is still to be written alone.
LEMMA TakenOff ==
  ASSUME TypeInv, NEW e \in Ends, NEW header \in Nat, NEW size \in Nat, NEW count \in Nat,
         Takes(e, header, size, count), UNCHANGED <<nonblocking, senders, table, torn>>,
         NEW line \in Seq(Byte), NEW r \in Nat, NEW s \in Nat,
         Flow(Peer(e), line, r, s),
         NEW k \in Nat, k = r + header + count
  PROVE  /\ k <= s /\ s <= Len(line) /\ OnStream(Peer(e), line, k, s)'
         /\ Grows /\ Packets' = Packets
         /\ WholePackets(Peer(e), line)' /\ InOrder(line)'
         /\ ToWrite(Peer(e), line, s)'
<1> DEFINE d == Peer(e)
           incoming == stream[d]
<1>1. /\ WholePackets(d, line) /\ InOrder(line) /\ r <= s /\ s <= Len(line)
      /\ incoming = SubSeq(line, r + 1, s) /\ ToWrite(d, line, s)
  BY DEF Flow
<1>2. d \in Ends /\ incoming \in Seq(Byte) /\ Len(line) \in Nat
  BY PeerIs DEF TypeInv, TypeOK
<1>3. /\ header + count <= Len(incoming)
      /\ stream'[d] = SubSeq(incoming, header + count + 1, Len(incoming))
  <2>1. stream \in [Ends -> Seq(Byte)]
    BY DEF TypeInv, TypeOK
  <2> QED
    BY <1>2, <2>1 DEF Takes
<1> HIDE DEF incoming
<1>4. Len(incoming) = s - r
  BY <1>1, <1>2, Slice
<1>5. PICK a \in Nat : a = header + count
  OBVIOUS
<1>6. a <= s - r /\ k = r + a /\ r + (s - r) = s /\ k <= s
  BY <1>1, <1>3, <1>4, <1>5
<1>7. stream'[d] = SubSeq(line, k + 1, s)
  <2>1. SubSeq(SubSeq(line, r + 1, s), a + 1, s - r) = SubSeq(line, r + a + 1, r + (s - r))
    <3>1. s - r \in Nat
      BY <1>1
    <3> QED
      BY <1>1, <1>6, <3>1, SliceOfSlice
  <2> QED
    BY <1>1, <1>3, <1>4, <1>5, <1>6, <2>1
<1>8. /\ closed' = closed /\ WritersKept(d)
      /\ Packets' = Packets /\ Grows
  BY <1>2, SendersKept DEF senders, table, Packets, Grows
<1>9. WholePackets(d, line)'
  BY <1>1, <1>2, <1>8, WholeKept
<1>10. ToWrite(d, line, s)'
  BY <1>1, <1>2, <1>8, WriteKept
<1>11. InOrder(line)'
  BY <1>1 DEF InOrder
<1> QED
  BY <1>1, <1>6, <1>7, <1>8, <1>9, <1>10, <1>11 DEF OnStream

\* Part of a packet was taken: the receiver goes on with it.
LEMMA TakenPart ==
  ASSUME TypeInv, Grows, Packets' = Packets,
         NEW e \in Ends, NEW line \in Seq(Byte), NEW r \in Nat, NEW k \in Nat, r <= k,
         WholePackets(Peer(e), line), StillToCome(e, line, r),
         NEW p, NEW b \in Nat, At(Peer(e), line, p, b), b <= r,
         NEW data \in Seq(Byte), NEW n \in Nat, Len(data) = n,
         k = b + HeaderSize + n, n < sent[p].size,
         data = SubSeq(Payload(p), 1, n),
         buffer'[e] = [size |-> sent[p].size, data |-> data], delivered'[e] = delivered[e]
  PROVE  TakenBy(e, line, k)' /\ StillToCome(e, line, k)'
<1>0. Peer(e) \in Ends
  BY PeerIs
<1>1. /\ p \in Packets /\ sent[p].size \in Nat \ {0} /\ HeaderSize \in Nat \ {0}
      /\ Total(p) \in Nat /\ Total(p) = HeaderSize + sent[p].size
      /\ b + Total(p) <= Len(line) /\ Len(line) \in Nat
  BY <1>0, AtSizes
<1>3. /\ k >= HeaderSize + n /\ k >= b + 1 /\ k < b + Total(p) /\ k - b = HeaderSize + n
      /\ line[k] = <<p, HeaderSize + n>>
  <2>1. k >= HeaderSize + n /\ k >= b + 1 /\ k < b + Total(p) /\ k - b = HeaderSize + n
    BY <1>1
  <2>2. line[k] = <<p, k - b>>
    <3>1. k <= b + Total(p)
      BY <1>1, <2>1, SMTT(60)
    <3> QED
      BY <1>0, <2>1, <3>1, AtPlace
  <2> QED
    BY <2>1, <2>2
<1>4. TakenBy(e, line, k)'
  <2>1. /\ buffer'[e] # Fresh /\ buffer'[e].size = sent[p].size /\ buffer'[e].data = data
    <3>1. buffer'[e].size # Fresh.size
      BY <1>1 DEF Fresh
    <3> QED
      BY <3>1
  <2>2. sent'[p] = sent[p] /\ Payload(p)' = Payload(p)
    BY <1>1, PayloadKept
  <2>3. line[k][1] = p /\ line[k][2] = HeaderSize + n
    BY <1>3
  <2>4. sent'[line[k][1]].size = sent[p].size /\ Payload(p)' = Payload(p)
    BY <2>2, <2>3
  <2>5. [i \in 1 .. sent'[line[k][1]].size |-> <<line[k][1], HeaderSize + i>>] = Payload(p)
    BY <2>3, <2>4 DEF Payload
  <2> QED
    BY <1>3, <2>1, <2>3, <2>4, <2>5 DEF TakenBy, Payload
<1>5. Got(e)' = Got(e)
  BY DEF Got
<1>6. ASSUME NEW i \in DOMAIN delivered'[e], NEW j \in k + 1 .. Len(line)
      PROVE  (Got(e)[i])' < line[j][1]
  <2>1. j \in r + 1 .. Len(line)
    BY <1>1
  <2> QED
    BY <1>5, <2>1 DEF StillToCome
<1>7. ASSUME NEW q \in Packets', sent'[q].end = Peer(e)
      PROVE  \/ \E i \in DOMAIN delivered'[e] : (Got(e)[i])' = q
             \/ \E j \in k + 1 .. Len(line) : line[j][1] = q
  <2>1. q \in Packets /\ sent'[q] = sent[q]
    BY DEF Grows
  <2>2. CASE \E i \in DOMAIN delivered[e] : Got(e)[i] = q
    BY <1>5, <2>2
  <2>3. ASSUME NEW j \in r + 1 .. Len(line), line[j][1] = q
        PROVE  \E h \in k + 1 .. Len(line) : line[h][1] = q
    <3>1. CASE j >= k + 1
      <4>1. j \in k + 1 .. Len(line)
        BY <1>1, <3>1
      <4> QED
        BY <2>3, <4>1
    <3>2. CASE ~ (j >= k + 1)
      <4>0. /\ Total(p) \in Nat /\ Len(line) \in Nat /\ b + Total(p) <= Len(line)
            /\ k < b + Total(p)
        BY <1>1, <1>3
      <4>1. j \in Nat /\ j >= b + 1 /\ j <= b + Total(p)
        BY <3>2, <4>0
      <4>2. line[j] = <<p, j - b>>
        BY <1>0, <4>1, AtPlace
      <4>3. PICK h \in Nat : h = b + Total(p)
        BY <4>0
      <4>4. h >= b + 1 /\ h <= b + Total(p) /\ h \in k + 1 .. Len(line)
        BY <4>0, <4>1, <4>3
      <4>5. line[h] = <<p, h - b>>
        BY <1>0, <4>4, AtPlace
      <4> QED
        BY <2>3, <4>2, <4>4, <4>5
    <3> QED
      BY <3>1, <3>2
  <2> QED
    BY <1>7, <2>1, <2>2, <2>3 DEF StillToCome
<1> QED
  BY <1>4, <1>6, <1>7 DEF StillToCome

\* The rest of a packet was taken: the receiver was handed it, and is ready for
\* the next one.
LEMMA TakenWhole ==
  ASSUME TypeInv, Grows, Packets' = Packets,
         NEW e \in Ends, NEW line \in Seq(Byte), NEW r \in Nat, NEW k \in Nat, r <= k,
         WholePackets(Peer(e), line), InOrder(line), HandedOver(e), StillToCome(e, line, r),
         NEW p, NEW b \in Nat, At(Peer(e), line, p, b), b <= r, r < b + Total(p),
         k = b + Total(p),
         buffer'[e] = Fresh, delivered'[e] = Append(delivered[e], Payload(p))
  PROVE  TakenBy(e, line, k)' /\ StillToCome(e, line, k)' /\ HandedOver(e)'
<1>0. Peer(e) \in Ends
  BY PeerIs
<1>1. /\ p \in Packets /\ sent[p].size \in Nat \ {0} /\ HeaderSize \in Nat \ {0}
      /\ Total(p) \in Nat /\ Total(p) = HeaderSize + sent[p].size
      /\ b + Total(p) <= Len(line) /\ Len(line) \in Nat
  BY <1>0, AtSizes
<1>2. /\ \A j \in k + 1 .. Len(line) : p < line[j][1]
      /\ k < Len(line) => line[k + 1][2] = 1
  <2>1. /\ \A j \in b + Total(p) + 1 .. Len(line) : p < line[j][1]
        /\ b + Total(p) < Len(line) => line[b + Total(p) + 1][2] = 1
    BY <1>0, BehindPacket
  <2> QED
    BY <2>1
<1>3. TakenBy(e, line, k)'
  BY <1>2 DEF TakenBy
<1>4. PICK n \in Nat :
        /\ DOMAIN delivered'[e] = DOMAIN delivered[e] \cup {n} /\ DOMAIN delivered[e] \subseteq Nat
        /\ \A i \in DOMAIN delivered[e] :
             i < n /\ delivered'[e][i] = delivered[e][i] /\ (Got(e)[i])' = Got(e)[i]
        /\ delivered'[e][n] = Payload(p) /\ (Got(e)[n])' = p
  <2>1. Payload(p)[1][1] = p
    <3>1. Payload(p)[1] = <<p, HeaderSize + 1>>
      BY <1>1, PayloadBytes, SMTT(60)
    <3> QED
      BY <3>1
  <2>2. \E n \in Nat : Handed(e, Payload(p), p, n)
    BY <2>1, GotMore
  <2> QED
    BY <2>2 DEF Handed
<1>5. \A i \in DOMAIN delivered[e] : Got(e)[i] < p
  <2>1. PICK j \in Nat : j = r + 1
    OBVIOUS
  <2>2. j \in r + 1 .. Len(line) /\ j >= b + 1 /\ j <= b + Total(p)
    BY <1>1, <2>1, SMTT(60)
  <2>3. line[j] = <<p, j - b>>
    BY <1>0, <2>2, AtPlace
  <2>4. line[j][1] = p
    BY <2>3
  <2> QED
    BY <2>2, <2>4 DEF StillToCome
<1>6. ASSUME NEW i \in DOMAIN delivered'[e], NEW j \in k + 1 .. Len(line)
      PROVE  (Got(e)[i])' < line[j][1]
  <2>1. j \in r + 1 .. Len(line)
    BY <1>1, SMTT(60)
  <2> QED
    BY <1>2, <1>4, <2>1 DEF StillToCome
<1>7. ASSUME NEW q \in Packets', sent'[q].end = Peer(e)
      PROVE  \/ \E i \in DOMAIN delivered'[e] : (Got(e)[i])' = q
             \/ \E j \in k + 1 .. Len(line) : line[j][1] = q
  <2>1. q \in Packets /\ sent'[q] = sent[q]
    BY DEF Grows
  <2>2. CASE \E i \in DOMAIN delivered[e] : Got(e)[i] = q
    BY <1>4, <2>2
  <2>3. ASSUME NEW j \in r + 1 .. Len(line), line[j][1] = q
        PROVE  j \in k + 1 .. Len(line) \/ p = q
    <3>1. ASSUME ~ (j >= k + 1) PROVE p = q
      <4>1. j \in Nat /\ j >= b + 1 /\ j <= b + Total(p)
        BY <1>1, <3>1, SMTT(60)
      <4>2. line[j] = <<p, j - b>>
        BY <1>0, <4>1, AtPlace
      <4> QED
        BY <2>3, <4>2
    <3> QED
      BY <1>1, <3>1
  <2> QED
    BY <1>4, <1>7, <2>1, <2>2, <2>3 DEF StillToCome
<1>8. ASSUME NEW i \in DOMAIN delivered'[e]
      PROVE  /\ (Got(e)[i])' \in Packets'
             /\ delivered'[e][i] = Payload(Got(e)[i])'
             /\ sent'[(Got(e)[i])'].end = Peer(e)
  <2>1. PICK q : q = (Got(e)[i])'
    OBVIOUS
  <2>2. q \in Packets /\ delivered'[e][i] = Payload(q) /\ sent[q].end = Peer(e)
    <3>1. sent[p].end = Peer(e)
      BY DEF At
    <3>2. CASE i \in DOMAIN delivered[e]
      <4>1. Got(e)[i] = q /\ delivered'[e][i] = delivered[e][i]
        BY <1>4, <2>1, <3>2
      <4> QED
        BY <3>2, <4>1 DEF HandedOver
    <3>3. CASE i = n
      BY <1>1, <1>4, <2>1, <3>1, <3>3
    <3> QED
      BY <1>4, <3>2, <3>3
  <2>3. q \in Packets' /\ sent'[q] = sent[q] /\ Payload(q)' = Payload(q)
    BY <2>2, PayloadKept
  <2>4. q \in Packets' /\ delivered'[e][i] = Payload(q)' /\ sent'[q].end = Peer(e)
    BY <2>2, <2>3
  <2> QED
    BY <2>1, <2>4 DEF Payload
<1>9. ASSUME NEW i \in DOMAIN delivered'[e], NEW j \in DOMAIN delivered'[e], i < j
      PROVE  (Got(e)[i])' < (Got(e)[j])'
  <2>1. i \in DOMAIN delivered[e]
    BY <1>4, <1>9
  <2>2. CASE j \in DOMAIN delivered[e]
    BY <1>4, <1>9, <2>1, <2>2 DEF HandedOver
  <2>3. CASE j = n
    BY <1>4, <1>5, <2>1, <2>3
  <2> QED
    BY <1>4, <2>2, <2>3
<1> QED
  BY <1>3, <1>6, <1>7, <1>8, <1>9 DEF StillToCome, HandedOver

\* A turn of check_packets keeps the flow of the stream it reads, and what it
\* hands over is whole and in order.
LEMMA TakeFlow ==
  ASSUME TypeInv, NEW e \in Ends, Poll(e), HandedOver(e),
         NEW line \in Seq(Byte), NEW r \in Nat, NEW s \in Nat,
         Flow(Peer(e), line, r, s)
  PROVE  HandedOver(e)' /\ \E k \in Nat : Flow(Peer(e), line, k, s)'
<1>1. PICK header, size, count \in Nat : Takes(e, header, size, count)
  BY TakeStep
<1>2. UNCHANGED <<nonblocking, senders, table, torn>>
  BY TakeStep
<1> DEFINE more == SubSeq(stream[Peer(e)], header + 1, header + count)
           data == buffer[e].data \o more
<1>3. PICK k \in Nat : k = r + header + count
  OBVIOUS
<1>4. /\ k <= s /\ s <= Len(line) /\ OnStream(Peer(e), line, k, s)'
      /\ Grows /\ Packets' = Packets
      /\ WholePackets(Peer(e), line)' /\ InOrder(line)'
      /\ ToWrite(Peer(e), line, s)'
  BY <1>1, <1>2, <1>3, TakenOff
<1>5. SUFFICES TakenBy(e, line, k)' /\ StillToCome(e, line, k)' /\ HandedOver(e)'
  <2>1. Peer(Peer(e)) = e
    BY PeerIs
  <2> QED
    BY <1>4, <2>1 DEF Flow, OnStream
<1>6. /\ WholePackets(Peer(e), line) /\ InOrder(line) /\ r <= s
      /\ TakenBy(e, line, r) /\ StillToCome(e, line, r)
  BY PeerIs DEF Flow
<1>7. /\ data \in Seq(Byte)
      /\ IF Len(data) # size
         THEN /\ buffer'[e] = [size |-> size, data |-> data]
              /\ delivered' = delivered
         ELSE /\ buffer'[e] = Fresh
              /\ IF data # << >> THEN delivered'[e] = Append(delivered[e], data)
                 ELSE delivered' = delivered
  <2>1. e \in DOMAIN buffer /\ e \in DOMAIN delivered
    BY DEF TypeInv, TypeOK
  <2>2. /\ data \in Seq(Byte)
        /\ IF Len(data) # size
           THEN /\ buffer' = [buffer EXCEPT ![e] = [size |-> size, data |-> data]]
                /\ UNCHANGED <<delivered, spurious>>
           ELSE /\ buffer' = [buffer EXCEPT ![e] = Fresh]
                /\ IF data # << >>
                   THEN /\ delivered' = [delivered EXCEPT ![e] = Append(@, data)]
                        /\ UNCHANGED spurious
                   ELSE spurious' = spurious \cup {e} /\ UNCHANGED delivered
    BY <1>1 DEF Takes
  <2> HIDE DEF data
  <2> QED
    BY <2>1, <2>2
<1>8. GoesOn(e, line, r, header, size, count)
  BY <1>1, TakeOn
<1>9. \/ header + count = 0 /\ size = 0 /\ buffer[e] = Fresh /\ data = << >>
      \/ \E p \in Packets, b \in Nat :
           /\ At(Peer(e), line, p, b) /\ size = sent[p].size
           /\ b <= r /\ Len(data) <= size
           /\ Len(data) = size => r < b + Total(p)
           /\ k = b + HeaderSize + Len(data)
           /\ data = SubSeq(Payload(p), 1, Len(data))
  BY <1>3, <1>8 DEF GoesOn
<1> HIDE DEF data
<1>10. ASSUME header + count = 0, size = 0, buffer[e] = Fresh, data = << >>
       PROVE  TakenBy(e, line, k)' /\ StillToCome(e, line, k)' /\ HandedOver(e)'
  <2>1. k = r
    BY <1>3, <1>10
  <2>2. Len(data) = 0
    BY <1>10
  <2>3. buffer'[e] = buffer[e] /\ delivered'[e] = delivered[e]
    BY <1>2, <1>7, <1>10, <2>2
  <2>4. r <= Len(line)
    BY <1>4, <1>6
  <2>5. TakenBy(e, line, r)'
    BY <1>4, <1>6, <2>3, <2>4, TakenKept
  <2>6. StillToCome(e, line, r)'
    BY <1>4, <1>6, <2>3, ComeKept
  <2>7. HandedOver(e)'
    BY <1>4, <2>3, HandedKept
  <2> QED
    BY <2>1, <2>5, <2>6, <2>7
<1>11. ASSUME NEW p \in Packets, NEW b \in Nat, At(Peer(e), line, p, b),
              size = sent[p].size, b <= r, Len(data) <= size,
              Len(data) = size => r < b + Total(p),
              k = b + HeaderSize + Len(data), data = SubSeq(Payload(p), 1, Len(data))
       PROVE  TakenBy(e, line, k)' /\ StillToCome(e, line, k)' /\ HandedOver(e)'
  <2>1. PICK n \in Nat : n = Len(data)
    BY <1>7
  <2>2. r <= k
    BY <1>3
  <2>3. /\ Payload(p) \in Seq(Byte) /\ Len(Payload(p)) = sent[p].size
        /\ sent[p].size \in Nat \ {0}
    BY PayloadBytes
  <2>4. k = b + HeaderSize + n /\ data = SubSeq(Payload(p), 1, n) /\ n <= sent[p].size
    BY <1>11, <2>1
  <2>5. CASE n # size
    <3>1. n < sent[p].size
      BY <1>11, <2>3, <2>4, <2>5
    <3>2. /\ buffer'[e] = [size |-> sent[p].size, data |-> data]
          /\ delivered'[e] = delivered[e]
      BY <1>7, <1>11, <2>1, <2>5
    <3>3. TakenBy(e, line, k)' /\ StillToCome(e, line, k)'
      BY <1>4, <1>6, <1>7, <1>11, <2>1, <2>2, <2>4, <3>1, <3>2, TakenPart
    <3>4. HandedOver(e)'
      BY <1>4, <3>2, HandedKept
    <3> QED
      BY <3>3, <3>4
  <2>6. CASE n = size
    <3>1. data = Payload(p)
      BY <1>11, <2>3, <2>4, <2>6, SubSeqFull
    <3>2. data # << >>
      <4>1. Len(data) # 0
        BY <1>11, <2>1, <2>3, <2>6
      <4> QED
        BY <4>1
    <3>3. buffer'[e] = Fresh /\ delivered'[e] = Append(delivered[e], Payload(p))
      BY <1>7, <2>1, <2>6, <3>1, <3>2
    <3>4. k = b + Total(p) /\ r < b + Total(p)
      BY <1>11, <2>1, <2>3, <2>4, <2>6, HeaderSizeAssumption, SMTT(60) DEF Total
    <3> QED
      BY <1>4, <1>6, <1>11, <2>2, <3>3, <3>4, TakenWhole
  <2> QED
    BY <2>5, <2>6
<1> QED
  BY <1>9, <1>10, <1>11
-----------------------------------------------------------------------------
(* The inductive invariant. *)

\* A cut with nothing in it.
LEMMA NoBytes == << >> \in Seq(Byte) /\ Len(<< >>) = 0 /\ SubSeq(<< >>, 0 + 1, 0) = << >>
<1> DEFINE x == SubSeq(<< >>, 0 + 1, 0)
<1>1. << >> \in Seq(Byte) /\ Len(<< >>) = 0 /\ 0 \in Nat
  OBVIOUS
<1>2. x \in Seq(Byte) /\ Len(x) = 0 - 0
  BY <1>1, Slice
<1> HIDE DEF x
<1>3. x = << >>
  BY <1>2, EmptySeq
<1> QED
  BY <1>1, <1>3 DEF x

\* Initially nothing is on its way.
LEMMA InitFlowInv == Init => FlowInv
<1> SUFFICES ASSUME Init, NEW d \in Ends
    PROVE  /\ HandedOver(Peer(d))
           /\ \E line \in Seq(Byte), r, s \in Nat : Flow(d, line, r, s)
  BY DEF FlowInv
<1>1. Peer(d) \in Ends
  BY PeerIs
<1>2. DOMAIN delivered[Peer(d)] = {} /\ Packets = {}
  BY <1>1 DEF Init, Packets
<1>3. HandedOver(Peer(d))
  BY <1>2 DEF HandedOver
<1>4. WholePackets(d, << >>) /\ InOrder(<< >>)
  BY NoBytes DEF WholePackets, InOrder
<1>5. stream[d] = SubSeq(<< >>, 0 + 1, 0)
  BY NoBytes DEF Init
<1>6. TakenBy(Peer(d), << >>, 0)
  BY <1>1, NoBytes DEF TakenBy, Init
<1>7. StillToCome(Peer(d), << >>, 0)
  BY <1>2 DEF StillToCome
<1>8. ToWrite(d, << >>, 0)
  <2>1. \A t \in Threads : ~Writes(t, d)
    BY DEF Init, Idle, Writes
  <2> QED
    BY <2>1, NoBytes DEF ToWrite
<1>9. Flow(d, << >>, 0, 0)
  BY <1>4, <1>5, <1>6, <1>7, <1>8, NoBytes DEF Flow
<1> QED
  BY <1>3, <1>9, NoBytes

\* What a client that ends has written arrives up to some byte, and nobody writes
\* to it any more.
LEMMA CloseFlow ==
  ASSUME TypeInv, NEW c \in Connections, Close(c), NEW d \in Ends,
         NEW line \in Seq(Byte), NEW r \in Nat, NEW s \in Nat, Flow(d, line, r, s)
  PROVE  \E z \in Nat : Flow(d, line, r, z)'
<1> DEFINE e == <<"client", c>>
<1>1. PICK n \in 0 .. Len(stream[e]) : stream' = [stream EXCEPT ![e] = SubSeq(@, 1, n)]
  BY DEF Close
<1>2. /\ closed' = closed \cup {c}
      /\ left' = [t \in Threads |-> IF EndOf(t)[2] = c THEN << >> ELSE left[t]]
      /\ next' = [next EXCEPT ![e] = None]
      /\ UNCHANGED <<nonblocking, sent, on, receivers, connections, torn>>
  BY DEF Close
<1>3. /\ stream \in [Ends -> Seq(Byte)] /\ next \in [Threads -> 0 .. Len(sent)]
      /\ e \in Ends
  BY DEF TypeInv, TypeOK, Ends
<1>4. /\ Grows /\ Packets' = Packets /\ closed \subseteq closed'
      /\ buffer'[Peer(d)] = buffer[Peer(d)] /\ delivered'[Peer(d)] = delivered[Peer(d)]
  BY <1>2 DEF Grows, Packets, receivers
<1>5. CASE d[2] # c
  <2>1. stream'[d] = stream[d]
    BY <1>1, <1>3, <1>5
  <2>2. ASSUME NEW t \in Threads
        PROVE  /\ Writes(t, d)' <=> Writes(t, d)
               /\ Writes(t, d) => left'[t] = left[t] /\ next'[t] = next[t]
    <3>1. EndOf(t)' = EndOf(t)
      BY <1>2 DEF EndOf
    <3>2. ASSUME EndOf(t) = d PROVE left'[t] = left[t] /\ next'[t] = next[t]
      <4>1. t # e
        BY <1>5, <3>2 DEF EndOf, Clients
      <4> QED
        BY <1>2, <1>3, <1>5, <3>2, <4>1
    <3> QED
      BY <3>1, <3>2 DEF Writes, Idle
  <2>3. WritersKept(d)
    BY <2>2 DEF WritersKept
  <2>4. Flow(d, line, r, s)'
    BY <1>4, <2>1, <2>3, FlowKept
  <2> QED
    BY <2>4
<1>6. CASE d[2] = c
  <2>1. /\ WholePackets(d, line) /\ InOrder(line)
        /\ r <= s /\ s <= Len(line)
        /\ stream[d] = SubSeq(line, r + 1, s)
        /\ TakenBy(Peer(d), line, r)
        /\ StillToCome(Peer(d), line, r)
    BY DEF Flow
  <2>2. PICK z \in Nat : /\ r <= z /\ z <= Len(line)
                         /\ stream'[d] = SubSeq(line, r + 1, z)
    <3>1. CASE d # e
      <4>1. stream'[d] = stream[d]
        BY <1>1, <1>3, <3>1
      <4> QED
        BY <2>1, <4>1
    <3>2. CASE d = e
      <4>1. stream'[d] = SubSeq(stream[d], 1, n)
        BY <1>1, <1>3, <3>2
      <4>2. Len(stream[d]) = s - r
        BY <2>1, Slice
      <4>3. n \in Nat /\ n <= s - r /\ Len(line) \in Nat
        BY <2>1, <3>2, <4>2
      <4>4. stream'[d] = SubSeq(line, r + 1, r + n)
        BY <2>1, <4>1, <4>3, FrontOfSlice
      <4>5. r + n \in Nat /\ r <= r + n /\ r + n <= Len(line)
        BY <2>1, <4>3
      <4> QED
        BY <4>4, <4>5
    <3> QED
      BY <3>1, <3>2
  <2>3. Peer(d) \in Ends /\ Peer(Peer(d)) = d
    BY PeerIs
  <2>4. WholePackets(d, line)'
    BY <1>4, <2>1, WholeKept
  <2>5. TakenBy(Peer(d), line, r)'
    <3>1. r <= Len(line)
      BY <2>1
    <3> QED
      BY <1>4, <2>1, <2>3, <3>1, TakenKept
  <2>6. StillToCome(Peer(d), line, r)'
    BY <1>4, <2>1, <2>3, ComeKept
  <2>7. ToWrite(d, line, z)'
    BY <1>2, <1>6 DEF ToWrite
  <2>8. InOrder(line)'
    BY <2>1 DEF InOrder
  <2>9. Flow(d, line, r, z)'
    BY <2>2, <2>4, <2>5, <2>6, <2>7, <2>8 DEF Flow
  <2> QED
    BY <2>9
<1> QED
  BY <1>5, <1>6

\* A Send at one end leaves alone what the threads at another end send.
LEMMA OtherSends ==
  ASSUME TypeInv, Grows, NEW t \in Threads, NEW e \in Ends, NEW bytes \in Seq(Byte),
         Send(t, e, bytes), Goes(t, e), UNCHANGED <<receivers, table>>,
         \A u \in Threads \ {t} : next'[u] = next[u],
         NEW d \in Ends, d # e, ~Writes(t, d),
         \A p \in Packets' \ Packets : sent'[p].end = e,
         NEW line \in Seq(Byte), NEW r \in Nat, NEW s \in Nat, Flow(d, line, r, s)
  PROVE  Flow(d, line, r, s)'
<1>1. /\ stream'[d] = stream[d]
      /\ \A u \in Threads \ {t} : left'[u] = left[u]
  BY SendStep
<1>2. WritersKept(d)
  BY <1>1 DEF WritersKept, Writes, Goes, Idle
<1>3. /\ buffer'[Peer(d)] = buffer[Peer(d)] /\ delivered'[Peer(d)] = delivered[Peer(d)]
      /\ closed \subseteq closed'
  BY DEF receivers, table
<1>4. \A p \in Packets' \ Packets : sent'[p].end # d
  OBVIOUS
<1> QED
  BY <1>1, <1>2, <1>3, <1>4, FlowKept

\* Every step keeps the flow of every stream that it does not tear.
LEMMA NextFlowInv == TypeInv /\ FlowInv /\ [Next]_vars => FlowInv'
<1> SUFFICES ASSUME TypeInv, FlowInv, [Next]_vars, NEW d \in Ends, d \notin torn'
    PROVE  /\ HandedOver(Peer(d))'
           /\ \E line \in Seq(Byte), r, s \in Nat : Flow(d, line, r, s)'
  BY DEF FlowInv
<1> DEFINE Goal == /\ HandedOver(Peer(d))'
                   /\ \E line \in Seq(Byte), r, s \in Nat : Flow(d, line, r, s)'
<1>0. Peer(d) \in Ends /\ Peer(Peer(d)) = d /\ Peer(d) # d
  BY PeerIs
<1>1. ASSUME d \notin torn
      PROVE  /\ HandedOver(Peer(d))
             /\ \E line \in Seq(Byte), r, s \in Nat : Flow(d, line, r, s)
  BY <1>1 DEF FlowInv
<1>2. ASSUME NEW t \in Threads, NEW size \in Sizes, SendSize(t, size) PROVE Goal
  <2>1. PICK p : p = Len(sent')
    OBVIOUS
  <2>0. PICK e : e = Handle(t)
    OBVIOUS
  <2>2. /\ Idle(t) /\ LookedUp(t) /\ Send(t, e, Header(p))
        /\ next' = [next EXCEPT ![t] = p] /\ Len(sent) < MaxPackets
        /\ sent' = Append(sent, [size |-> size, end |-> e])
        /\ UNCHANGED <<receivers, table>>
    BY <1>2, <2>0, <2>1 DEF SendSize
  <2>3. /\ Grows /\ Packets' = Packets \cup {p} /\ p = Len(sent) + 1 /\ p \in Nat \ {0}
        /\ sent'[p].end = e
    BY <2>1, <2>2, GrowsIfAppended
  <2>4. p \in 1 .. MaxPackets
    <3>1. Len(sent) \in Nat /\ MaxPackets \in Nat
      BY BoundsAssumption DEF TypeInv, TypeOK
    <3> QED
      BY <2>2, <2>3, <3>1
  <2>5. Header(p) \in Seq(Byte) /\ e \in Ends
    BY <2>0, <2>4, PacketBytes, EndOfIs
  <2>6. torn \subseteq torn'
    BY <2>2, <2>5, SendStep
  <2>7. HandedOver(Peer(d))
    BY <1>1, <2>6
  <2>8. PICK line \in Seq(Byte), r \in Nat, s \in Nat : Flow(d, line, r, s)
    BY <1>1, <2>6
  <2>9. HandedOver(Peer(d))'
    BY <1>0, <2>2, <2>3, <2>7, HandedKept DEF receivers
  <2>10. CASE e = d
    BY <1>2, <2>0, <2>7, <2>8, <2>9, <2>10, SendSizeFlow
  <2>11. CASE e # d
    <3>1. \A u \in Threads \ {t} : next'[u] = next[u]
      BY <2>2 DEF TypeInv, TypeOK
    <3>2. \A q \in Packets' \ Packets : sent'[q].end = e
      BY <2>3
    <3>3. Goes(t, e) /\ ~Writes(t, d)
      BY <2>0, <2>2, GoesThere DEF Writes
    <3>4. Flow(d, line, r, s)'
      BY <2>2, <2>3, <2>5, <2>8, <2>11, <3>1, <3>2, <3>3, OtherSends
    <3> QED
      BY <2>9, <3>4
  <2> QED
    BY <2>10, <2>11
<1>3. ASSUME NEW t \in Threads, NEW e \in Ends, NEW bytes \in Seq(Byte), Send(t, e, bytes),
             SendPayload(t) \/ Resume(t), Goes(t, e),
             next[t] # None \/ e = EndOf(t),
             UNCHANGED <<sent, receivers, table>>,
             \A u \in Threads \ {t} : next'[u] = next[u]
      PROVE  Goal
  <2>1. torn \subseteq torn'
    BY <1>3, SendStep
  <2>2. HandedOver(Peer(d))
    BY <1>1, <2>1
  <2>3. PICK line \in Seq(Byte), r \in Nat, s \in Nat : Flow(d, line, r, s)
    BY <1>1, <2>1
  <2>4. Grows /\ Packets' = Packets
    BY <1>3 DEF Grows, Packets
  <2>5. HandedOver(Peer(d))'
    BY <1>0, <1>3, <2>2, <2>4, HandedKept DEF receivers
  <2>6. CASE EndOf(t) = d
    <3>1. \E z \in Nat : Flow(d, line, r, z)'
      BY <1>3, <2>3, <2>6, SendPayloadFlow, ResumeFlow
    <3> QED
      BY <2>5, <3>1
  <2>7. CASE EndOf(t) # d
    <3>1. \A q \in Packets' \ Packets : sent'[q].end = e
      BY <2>4
    <3>2. ~Writes(t, d)
      BY <2>7 DEF Writes
    <3>3. CASE d # e
      <4>1. Flow(d, line, r, s)'
        BY <1>3, <2>3, <2>4, <3>1, <3>2, <3>3, OtherSends
      <4> QED
        BY <2>5, <4>1
    <3>4. CASE d = e
      BY <1>3, <2>7, <3>4, SendStep
    <3> QED
      BY <3>3, <3>4
  <2> QED
    BY <2>6, <2>7
<1>4. ASSUME NEW t \in Threads, SendPayload(t) PROVE Goal
  <2>1. /\ next[t] # None /\ next' = [next EXCEPT ![t] = None]
        /\ LookedUp(t) /\ Send(t, Handle(t), Payload(next[t]))
        /\ UNCHANGED <<sent, receivers, table>>
    BY <1>4 DEF SendPayload
  <2>2. next \in [Threads -> 0 .. Len(sent)] /\ next[t] \in Packets
    BY <2>1 DEF TypeInv, TypeOK, Packets, None
  <2>3. Payload(next[t]) \in Seq(Byte) /\ Handle(t) \in Ends /\ Goes(t, Handle(t))
    BY <2>1, <2>2, PayloadBytes, EndOfIs, GoesThere
  <2>4. \A u \in Threads \ {t} : next'[u] = next[u]
    BY <2>1, <2>2
  <2> HIDE DEF Goal
  <2> QED
    BY <1>3, <1>4, <2>1, <2>3, <2>4
<1>5. ASSUME NEW t \in Threads, Resume(t) PROVE Goal
  <2>1. /\ Send(t, EndOf(t), left[t]) /\ UNCHANGED <<sent, on, receivers, table>>
        /\ \A u \in Threads \ {t} : next'[u] = next[u]
    BY <1>5 DEF Resume
  <2>2. left[t] \in Seq(Byte) /\ EndOf(t) \in Ends /\ Goes(t, EndOf(t))
    BY <2>1, EndOfIs, StaysThere DEF TypeInv, TypeOK
  <2> HIDE DEF Goal
  <2> QED
    BY <1>3, <1>5, <2>1, <2>2
<1>6. ASSUME NEW e \in Ends, Poll(e) PROVE Goal
  <2>1. UNCHANGED <<nonblocking, senders, table, torn>>
    BY <1>6, TakeStep
  <2>2. PICK line \in Seq(Byte), r \in Nat, s \in Nat : Flow(d, line, r, s)
    BY <1>1, <2>1
  <2>3. HandedOver(Peer(d))
    BY <1>1, <2>1
  <2>4. CASE e = Peer(d)
    <3>1. Flow(Peer(e), line, r, s) /\ HandedOver(e)
      BY <1>0, <2>2, <2>3, <2>4
    <3>2. HandedOver(e)' /\ \E k \in Nat : Flow(Peer(e), line, k, s)'
      BY <1>6, <3>1, TakeFlow
    <3> QED
      BY <1>0, <2>4, <3>2
  <2>5. CASE e # Peer(d)
    <3>1. e \in Ends /\ Peer(e) \in Ends /\ Peer(e) # d
      BY <2>5, PeerIs
    <3>2. PICK header, size, count \in Nat : Takes(e, header, size, count)
      BY <1>6, TakeStep
    <3>3. /\ stream' = [stream EXCEPT ![Peer(e)] = stream'[Peer(e)]]
          /\ buffer' = [buffer EXCEPT ![e] = buffer'[e]]
          /\ delivered' = [delivered EXCEPT ![e] = delivered'[e]]
      BY <3>1, <3>2 DEF Takes, TypeInv, TypeOK
    <3>4. /\ stream'[d] = stream[d] /\ buffer'[Peer(d)] = buffer[Peer(d)]
          /\ delivered'[Peer(d)] = delivered[Peer(d)]
      BY <1>0, <2>5, <3>1, <3>3 DEF TypeInv, TypeOK
    <3>5. Grows /\ Packets' = Packets /\ closed' = closed /\ WritersKept(d)
      BY <2>1, SendersKept DEF Grows, Packets, senders, table
    <3>6. Flow(d, line, r, s)'
      BY <2>2, <3>4, <3>5, FlowKept
    <3>7. HandedOver(Peer(d))'
      BY <1>0, <2>3, <3>4, <3>5, HandedKept
    <3> QED
      BY <3>6, <3>7
  <2> QED
    BY <2>4, <2>5
<1>7. ASSUME Reconnect \/ UNCHANGED vars PROVE Goal
  <2>1. /\ torn' = torn /\ senders' = senders /\ sent' = sent /\ stream' = stream
        /\ buffer' = buffer /\ delivered' = delivered /\ closed' = closed
        /\ Grows /\ Packets' = Packets
    BY <1>7 DEF Reconnect, vars, senders, receivers, table, Grows, Packets
  <2>2. PICK line \in Seq(Byte), r \in Nat, s \in Nat : Flow(d, line, r, s)
    BY <1>1, <2>1
  <2>3. Flow(d, line, r, s)'
    BY <2>1, <2>2, SendersKept, FlowKept
  <2>4. HandedOver(Peer(d))'
    BY <1>0, <1>1, <2>1, HandedKept
  <2> QED
    BY <2>3, <2>4
<1>8. ASSUME NEW c \in Connections, Close(c) PROVE Goal
  <2>1. torn' = torn /\ delivered' = delivered /\ sent' = sent
    BY <1>8 DEF Close, receivers
  <2>2. HandedOver(Peer(d)) /\ Grows
    BY <1>1, <2>1 DEF Grows, Packets
  <2>3. HandedOver(Peer(d))'
    BY <1>0, <2>1, <2>2, HandedKept
  <2>4. \E line \in Seq(Byte), r, s \in Nat : Flow(d, line, r, s)'
    BY <1>1, <1>8, <2>1, CloseFlow
  <2> QED
    BY <2>3, <2>4
<1> HIDE DEF Goal
<1>9. Goal
  BY <1>2, <1>4, <1>5, <1>6, <1>7, <1>8 DEF Next
<1> QED
  BY <1>9 DEF Goal

\* The inductive invariant holds throughout.
THEOREM FlowCorrect == Spec => [](TypeInv /\ FlowInv)
  BY InitTypeInv, NextTypeInv, InitFlowInv, NextFlowInv, PTL DEF Spec
-----------------------------------------------------------------------------
(* What it shows. *)

\* Packets come out of check_packets whole, in the order they went in and at the
\* other end, however TCP cuts the stream up and however often a Send waits.
THEOREM PacketsIntact == Spec => []DeliveredIntact
<1>1. ASSUME TypeInv, FlowInv PROVE DeliveredIntact
  <2>1. ASSUME NEW e \in Ends \ {Peer(d) : d \in torn}
        PROVE  HandedOver(e) /\ DOMAIN Got(e) = DOMAIN delivered[e]
    <3>1. Peer(e) \in Ends \ torn /\ Peer(Peer(e)) = e
      BY PeerIs
    <3> QED
      BY <1>1, <3>1 DEF FlowInv, Got
  <2> QED
    BY <2>1 DEF DeliveredIntact, HandedOver
<1> QED
  BY <1>1, FlowCorrect, PTL

\* A receiver whose stream is not torn collects the beginning of one packet, and
\* knows that packet's size.
THEOREM ReceiversInStep == Spec => []ReceiverInStep
<1>1. ASSUME TypeInv, FlowInv PROVE ReceiverInStep
  <2> SUFFICES ASSUME NEW e \in Ends, Peer(e) \notin torn, buffer[e] # Fresh
      PROVE  \E p \in Packets :
               /\ buffer[e].size = sent[p].size
               /\ buffer[e].data = SubSeq(Payload(p), 1, Len(buffer[e].data))
    <3>1. \A e \in Ends \ {Peer(d) : d \in torn} : Peer(e) \notin torn
      BY PeerIs
    <3> QED
      BY <3>1 DEF ReceiverInStep
  <2>1. Peer(e) \in Ends /\ Peer(Peer(e)) = e
    BY PeerIs
  <2>2. PICK line \in Seq(Byte), r \in Nat, s \in Nat : Flow(Peer(e), line, r, s)
    BY <1>1, <2>1 DEF FlowInv
  <2>3. /\ WholePackets(Peer(e), line) /\ TakenBy(e, line, r)
        /\ r <= s /\ s <= Len(line) /\ Len(line) \in Nat
    BY <2>1, <2>2 DEF Flow
  <2>4. r <= Len(line)
    BY <2>3
  <2>5. \E p \in Packets, b \in Nat :
           /\ At(Peer(e), line, p, b)
           /\ r = b + HeaderSize + Len(buffer[e].data)
           /\ buffer[e].size = sent[p].size
           /\ buffer[e].data = SubSeq(Payload(p), 1, Len(buffer[e].data))
           /\ Len(buffer[e].data) < sent[p].size
    BY <1>1, <2>3, <2>4, Collecting
  <2> QED
    BY <2>5
<1> QED
  BY <1>1, FlowCorrect, PTL

\* A turn of check_packets that makes an empty packet of a stream that is not
\* torn takes nothing off it.
LEMMA EmptyTurn ==
  ASSUME TypeInv, FlowInv, NEW d \in Ends, Poll(d),
         NEW e \in spurious' \ spurious, Peer(e) \notin torn
  PROVE  buffer[e] = Fresh /\ stream' = stream
<1>1. PICK header, size, count \in Nat : Takes(d, header, size, count)
  BY TakeStep
<1> DEFINE incoming == stream[Peer(d)]
           data == buffer[d].data \o SubSeq(incoming, header + 1, header + count)
<1>2. d = e /\ data = << >> /\ size = 0
  <2>1. d = e /\ data = << >> /\ Len(data) = size
    BY <1>1 DEF Takes
  <2> HIDE DEF data
  <2>2. Len(data) = 0
    BY <2>1
  <2> QED
    BY <2>1, <2>2
<1>3. Peer(d) \in Ends \ torn
  BY <1>2, PeerIs
<1>4. PICK line \in Seq(Byte), r \in Nat, s \in Nat : Flow(Peer(d), line, r, s)
  BY <1>3 DEF FlowInv
<1>5. GoesOn(d, line, r, header, size, count)
  BY <1>1, <1>4, TakeOn
<1>6. header + count = 0 /\ buffer[d] = Fresh
  <2>1. \A p \in Packets : sent[p].size # 0
    BY PayloadBytes
  <2> QED
    BY <1>2, <1>5, <2>1 DEF GoesOn
<1>7. stream' = [stream EXCEPT ![Peer(d)] = incoming]
  <2>1. stream' = [stream EXCEPT ![Peer(d)] =
                     SubSeq(incoming, header + count + 1, Len(incoming))]
    BY <1>1 DEF Takes
  <2>2. incoming \in Seq(Byte)
    BY <1>3 DEF TypeInv, TypeOK
  <2>3. SubSeq(incoming, 1, Len(incoming)) = incoming
    BY <2>2, SubSeqFull
  <2>4. header + count + 1 = 1
    BY <1>6
  <2> QED
    BY <2>1, <2>3, <2>4
<1>8. stream' = stream
  BY <1>3, <1>7 DEF TypeInv, TypeOK
<1> QED
  BY <1>2, <1>6, <1>8

\* An empty packet takes nothing off the stream.
THEOREM EmptyPacketTakesNothing == Spec => EmptyTakesNothing
<1> DEFINE Nothing == \A e \in spurious' \ spurious :
                        Peer(e) \in torn \/ (buffer[e] = Fresh /\ stream' = stream)
<1>1. ASSUME TypeInv, FlowInv, [Next]_vars PROVE Nothing
  <2>1. CASE \E d \in Ends : Poll(d)
    BY <1>1, <2>1, EmptyTurn
  <2>2. CASE ~ \E d \in Ends : Poll(d)
    <3>1. spurious' = spurious
      BY <1>1, <2>2 DEF Next, SendSize, SendPayload, Resume, Reconnect, Close, receivers, vars
    <3> QED
      BY <3>1
  <2> QED
    BY <2>1, <2>2
<1>2. TypeInv /\ FlowInv /\ [Next]_vars => [Nothing]_vars
  BY <1>1
<1> QED
  BY <1>2, FlowCorrect, PTL DEF Spec, EmptyTakesNothing
-----------------------------------------------------------------------------
(* Each direction implements PacketChannel. *)

\* Packets end e was handed are numbers in increasing order.
LEMMA GotNumbers ==
  ASSUME TypeInv, NEW e \in Ends, HandedOver(e)
  PROVE  /\ DOMAIN Got(e) = DOMAIN delivered[e]
         /\ Got(e) \in Seq(1 .. MaxPackets)
         /\ \A i \in DOMAIN Got(e) : Got(e)[i] \in Packets
<1> DEFINE Packet == Seq(Byte)
<1>1. delivered[e] \in Seq(Packet)
  BY DEF TypeInv, TypeOK
<1> HIDE DEF Packet
<1>2. PICK n \in Nat : DOMAIN delivered[e] = 1 .. n
  BY <1>1
<1>3. DOMAIN Got(e) = 1 .. n
  BY <1>2 DEF Got
<1>4. \A i \in 1 .. n : Got(e)[i] \in Packets /\ Got(e)[i] \in 1 .. MaxPackets
  BY <1>2, PayloadBytes DEF HandedOver
<1>5. Got(e) \in [1 .. n -> 1 .. MaxPackets]
  BY <1>3, <1>4 DEF Got
<1>6. Got(e) \in Seq(1 .. MaxPackets)
  BY <1>5, SeqDef
<1> QED
  BY <1>2, <1>3, <1>4, <1>6

\* A turn of check_packets hands end e nothing, or the oldest packet on its way.
LEMMA NextHanded ==
  ASSUME TypeInv, FlowInv, NEW e \in Ends, Poll(e), Peer(e) \notin torn
  PROVE  \/ delivered'[e] = delivered[e]
         \/ \E p \in OnTheWay(e), n \in Nat :
              Handed(e, Payload(p), p, n) /\ \A q \in OnTheWay(e) : p <= q
<1>1. PICK header, size, count \in Nat : Takes(e, header, size, count)
  BY TakeStep
<1> DEFINE data == buffer[e].data \o
                     SubSeq(stream[Peer(e)], header + 1, header + count)
<1>2. Peer(e) \in Ends \ torn /\ Peer(Peer(e)) = e
  BY PeerIs
<1>3. PICK line \in Seq(Byte), r \in Nat, s \in Nat : Flow(Peer(e), line, r, s)
  BY <1>2 DEF FlowInv
<1>4. GoesOn(e, line, r, header, size, count)
  BY <1>1, <1>3, TakeOn
<1>5. \/ delivered' = delivered
      \/ /\ Len(data) = size /\ data # << >>
         /\ delivered'[e] = Append(delivered[e], data)
  <2>1. \/ delivered' = delivered
        \/ /\ Len(data) = size /\ data # << >>
           /\ delivered' = [delivered EXCEPT ![e] = Append(@, data)]
    BY <1>1 DEF Takes
  <2> HIDE DEF data
  <2> QED
    BY <2>1 DEF TypeInv, TypeOK
<1>6. \/ data = << >>
      \/ \E p \in Packets, b \in Nat :
           /\ At(Peer(e), line, p, b) /\ size = sent[p].size
           /\ b <= r
           /\ Len(data) = size => r < b + Total(p)
           /\ data = SubSeq(Payload(p), 1, Len(data))
  BY <1>4 DEF GoesOn
<1> HIDE DEF data
<1>7. ASSUME NEW p \in Packets, NEW b \in Nat, At(Peer(e), line, p, b), b <= r,
             r < b + Total(p), size = sent[p].size, Len(data) = size,
             data = SubSeq(Payload(p), 1, Len(data)),
             delivered'[e] = Append(delivered[e], data)
      PROVE  \E q \in OnTheWay(e), n \in Nat :
               Handed(e, Payload(q), q, n) /\ \A h \in OnTheWay(e) : q <= h
  <2>1. /\ Payload(p) \in Seq(Byte) /\ Len(Payload(p)) = sent[p].size
        /\ sent[p].size \in Nat \ {0} /\ Payload(p)[1] = <<p, HeaderSize + 1>>
    BY PayloadBytes
  <2>2. data = Payload(p)
    BY <1>7, <2>1, SubSeqFull
  <2>3. \E n \in Nat : Handed(e, Payload(p), p, n)
    <3>1. Payload(p)[1][1] = p
      BY <2>1
    <3>2. delivered'[e] = Append(delivered[e], Payload(p))
      BY <1>7, <2>2
    <3> QED
      BY <3>1, <3>2, GotMore
  <2>4. PICK j \in Nat : j = r + 1
    OBVIOUS
  <2>5. /\ j >= b + 1 /\ j <= b + Total(p) /\ j \in r + 1 .. Len(line)
        /\ j \in 1 .. Len(line) /\ p \in Nat /\ Len(line) \in Nat
    <3>1. Total(p) \in Nat /\ b + Total(p) <= Len(line) /\ Len(line) \in Nat
      BY <1>2, <1>7, AtSizes
    <3> QED
      BY <1>7, <2>4, <3>1 DEF Packets
  <2>6. line[j] = <<p, j - b>>
    BY <1>2, <1>7, <2>5, AtPlace, SMTT(60)
  <2>7. StillToCome(e, line, r) /\ InOrder(line) /\ HandedOver(e)
    BY <1>2, <1>3 DEF Flow, FlowInv
  <2>8. p \in OnTheWay(e)
    <3>1. sent[p].end = Peer(e)
      BY <1>7 DEF At
    <3>2. \A i \in DOMAIN delivered[e] : Got(e)[i] < p
      BY <2>5, <2>6, <2>7 DEF StillToCome
    <3>3. ASSUME NEW i \in DOMAIN Got(e) PROVE Got(e)[i] # p
      <4>1. Got(e)[i] \in Packets /\ i \in DOMAIN delivered[e]
        BY <2>7, GotNumbers
      <4>2. Got(e)[i] < p
        BY <3>2, <4>1
      <4> QED
        BY <2>5, <4>1, <4>2 DEF Packets
    <3> QED
      BY <3>1, <3>3 DEF OnTheWay
  <2>9. ASSUME NEW q \in OnTheWay(e) PROVE p <= q
    <3>1. PICK h \in r + 1 .. Len(line) : line[h][1] = q
      <4>1. DOMAIN Got(e) = DOMAIN delivered[e]
        BY DEF Got
      <4> QED
        BY <2>7, <4>1 DEF OnTheWay, StillToCome
    <3>2. h \in 1 .. Len(line) /\ (h = j \/ j < h) /\ q \in Nat
      BY <2>4, <2>5 DEF OnTheWay, Packets
    <3>3. CASE h = j
      BY <2>5, <2>6, <3>1, <3>3
    <3>4. CASE j < h
      <4>1. line[j][1] < line[h][1] \/ line[j][1] = line[h][1]
        BY <2>5, <2>7, <3>2, <3>4 DEF InOrder
      <4>2. line[j][1] = p
        BY <2>6
      <4> QED
        BY <2>5, <3>1, <3>2, <4>1, <4>2
    <3> QED
      BY <3>2, <3>3, <3>4
  <2> QED
    BY <2>3, <2>8, <2>9
<1> QED
  BY <1>5, <1>6, <1>7

\* What is on its way stays on its way when nothing of it is sent or handed over.
LEMMA OnTheWayKept ==
  ASSUME Grows, NEW e \in Ends, delivered'[e] = delivered[e],
         \A p \in Packets' \ Packets : sent'[p].end # Peer(e)
  PROVE  UNCHANGED <<OnTheWay(e), Got(e)>>
<1>1. Got(e)' = Got(e)
  BY DEF Got
<1>2. OnTheWay(e)' = OnTheWay(e)
  BY <1>1 DEF OnTheWay, Grows
<1> QED
  BY <1>1, <1>2

\* SendSize is a Send of the channel.
LEMMA ChannelSend ==
  ASSUME TypeInv, NEW e \in Ends, HandedOver(e), delivered'[e] = delivered[e],
         Grows,
         NEW p \in 1 .. MaxPackets, Packets' = Packets \cup {p}, \A q \in Packets : q < p,
         sent'[p].end = Peer(e)
  PROVE  Channel(e)!Send(p)
<1>1. Got(e)' = Got(e)
  BY DEF Got
<1>2. \A i \in DOMAIN Got(e) : Got(e)[i] < p
  BY GotNumbers
<1>3. OnTheWay(e)' = OnTheWay(e) \cup {p}
  <2>1. p \in OnTheWay(e)'
    <3>1. \A i \in DOMAIN Got(e) : Got(e)[i] # p
      BY <1>2, GotNumbers DEF Packets
    <3> QED
      BY <1>1, <3>1 DEF OnTheWay
  <2>2. ASSUME NEW q \in Packets PROVE q \in OnTheWay(e)' <=> q \in OnTheWay(e)
    <3>1. sent'[q] = sent[q] /\ q \in Packets'
      BY DEF Grows
    <3> QED
      BY <1>1, <3>1 DEF OnTheWay
  <2>3. OnTheWay(e) \subseteq Packets /\ OnTheWay(e)' \subseteq Packets \cup {p}
    BY DEF OnTheWay
  <2> QED
    BY <2>1, <2>2, <2>3
<1>4. \A q \in OnTheWay(e) : q < p
  BY DEF OnTheWay
<1> QED
  BY <1>1, <1>2, <1>3, <1>4 DEF Channel!Send

\* To be handed the oldest packet on its way is a Deliver of the channel.
LEMMA ChannelDeliver ==
  ASSUME TypeInv, NEW e \in Ends, HandedOver(e), sent' = sent,
         NEW p \in OnTheWay(e), NEW n \in Nat, Handed(e, Payload(p), p, n),
         \A q \in OnTheWay(e) : p <= q
  PROVE  Channel(e)!Deliver(p) /\ p \in 1 .. MaxPackets
<1>1. p \in Packets /\ p \in 1 .. MaxPackets
  BY PayloadBytes DEF OnTheWay
<1>2. /\ DOMAIN delivered'[e] = DOMAIN delivered[e] \cup {n} /\ DOMAIN delivered[e] \subseteq Nat
      /\ \A i \in DOMAIN delivered[e] : i < n /\ (Got(e)[i])' = Got(e)[i]
      /\ (Got(e)[n])' = p
  BY DEF Handed
<1>3. DOMAIN Got(e) = DOMAIN delivered[e] /\ Got(e) \in Seq(1 .. MaxPackets)
  BY GotNumbers
<1>4. DOMAIN Got(e)' = DOMAIN delivered'[e]
  BY DEF Got
<1>5. PICK g : g = Got(e)'
  OBVIOUS
<1>6. \A i \in DOMAIN Got(e) \cup {n} : g[i] = (Got(e)[i])'
  BY <1>5
<1>7. OnTheWay(e)' = OnTheWay(e) \ {p}
  <2>2. Packets' = Packets
    BY DEF Packets
  <2>3. ASSUME NEW q \in Packets
        PROVE  (\A i \in DOMAIN Got(e)' : (Got(e)[i])' # q)
                 <=> (q # p /\ \A j \in DOMAIN Got(e) : Got(e)[j] # q)
    BY <1>2, <1>3, <1>4
  <2> QED
    BY <2>2, <2>3 DEF OnTheWay
<1>8. g = Append(Got(e), p)
  <2> DEFINE old == Got(e)
             S == 1 .. MaxPackets
  <2>1. old \in Seq(S) /\ p \in S /\ DOMAIN old = DOMAIN delivered[e]
    BY <1>1, <1>3
  <2>2. DOMAIN g = DOMAIN old \cup {n} /\ g[n] = p /\ \A i \in DOMAIN old : g[i] = old[i]
    BY <1>2, <1>3, <1>4, <1>5, <1>6
  <2>3. n = Len(old) + 1
    <3> DEFINE Packet == Seq(Byte)
    <3>1. n = Len(delivered[e]) + 1
      BY DEF Handed
    <3>2. delivered[e] \in Seq(Packet)
      BY DEF TypeInv, TypeOK
    <3> HIDE DEF old, Packet, S
    <3> QED
      BY <2>1, <3>1, <3>2
  <2>4. g = [i \in DOMAIN g |-> g[i]]
    BY <1>5 DEF Got
  <2> HIDE DEF old, S
  <2>5. DOMAIN g = 1 .. n /\ n \in Nat
    BY <2>1, <2>2, <2>3
  <2>6. g \in Seq(S) /\ Len(g) = n
    <3>1. \A i \in 1 .. n : g[i] \in S
      BY <2>1, <2>2, <2>5
    <3>2. g \in [1 .. n -> S]
      BY <2>4, <2>5, <3>1
    <3> QED
      BY <2>5, <3>2, SeqDef
  <2>7. /\ Append(old, p) \in Seq(S) /\ Len(Append(old, p)) = n
        /\ Append(old, p)[n] = p /\ \A i \in DOMAIN old : Append(old, p)[i] = old[i]
    BY <2>1, <2>3
  <2>8. \A i \in 1 .. n : i = n \/ i \in DOMAIN old
    BY <2>2, <2>5
  <2>9. g = Append(old, p)
    BY <2>2, <2>6, <2>7, <2>8, SeqEqual
  <2> QED
    BY <2>9 DEF old
<1> QED
  BY <1>1, <1>5, <1>7, <1>8 DEF Channel!Deliver

\* Initially both channels are empty.
LEMMA InitChannels == ASSUME Init, NEW e \in Ends PROVE Channel(e)!Init
<1>1. delivered[e] = << >> /\ Packets = {}
  BY DEF Init, Packets
<1>2. Got(e) = << >>
  BY <1>1 DEF Got
<1>3. OnTheWay(e) = {}
  BY <1>1 DEF OnTheWay
<1> QED
  BY <1>2, <1>3 DEF Channel!Init

\* A step is a step of every channel that it does not tear, or leaves it alone.
LEMMA ChannelStep ==
  ASSUME TypeInv, FlowInv, [Next]_vars, NEW e \in Ends, Peer(e) \notin torn'
  PROVE  Channel(e)!Next \/ UNCHANGED <<OnTheWay(e), Got(e)>>
<1> DEFINE Goal == Channel(e)!Next \/ UNCHANGED <<OnTheWay(e), Got(e)>>
<1>0. Peer(e) \in Ends /\ Peer(Peer(e)) = e
  BY PeerIs
<1>1. ASSUME NEW t \in Threads, NEW size \in Sizes, SendSize(t, size) PROVE Goal
  <2>1. PICK p : p = Len(sent')
    OBVIOUS
  <2>2. /\ Send(t, Handle(t), Header(p)) /\ Len(sent) < MaxPackets
        /\ sent' = Append(sent, [size |-> size, end |-> Handle(t)])
        /\ UNCHANGED receivers
    BY <1>1, <2>1 DEF SendSize
  <2>3. /\ Grows /\ Packets' = Packets \cup {p} /\ p = Len(sent) + 1 /\ p \in Nat \ {0}
        /\ sent'[p].end = Handle(t)
    BY <2>1, <2>2, GrowsIfAppended
  <2>4. p \in 1 .. MaxPackets /\ \A q \in Packets : q < p
    <3>1. Len(sent) \in Nat /\ MaxPackets \in Nat
      BY BoundsAssumption DEF TypeInv, TypeOK
    <3> QED
      BY <2>2, <2>3, <3>1 DEF Packets
  <2>5. torn \subseteq torn'
    <3>1. Header(p) \in Seq(Byte) /\ Handle(t) \in Ends
      BY <2>4, PacketBytes, EndOfIs
    <3> QED
      BY <2>2, <3>1, SendStep
  <2>6. HandedOver(e)
    BY <1>0, <2>5 DEF FlowInv
  <2>7. delivered'[e] = delivered[e]
    BY <2>2 DEF receivers
  <2>8. CASE Handle(t) = Peer(e)
    <3>1. Channel(e)!Send(p)
      BY <2>3, <2>4, <2>6, <2>7, <2>8, ChannelSend
    <3> QED
      BY <2>4, <3>1 DEF Channel!Next
  <2>9. CASE Handle(t) # Peer(e)
    <3>1. \A q \in Packets' \ Packets : sent'[q].end # Peer(e)
      BY <2>3, <2>9
    <3> QED
      BY <2>3, <2>7, <3>1, OnTheWayKept
  <2> QED
    BY <2>8, <2>9
<1>2. ASSUME sent' = sent, delivered'[e] = delivered[e] PROVE Goal
  <2>1. Grows /\ Packets' = Packets
    BY <1>2 DEF Grows, Packets
  <2> QED
    BY <1>2, <2>1, OnTheWayKept
<1>3. ASSUME NEW d \in Ends, Poll(d) PROVE Goal
  <2>1. UNCHANGED <<sent, torn>>
    BY <1>3, TakeStep DEF senders
  <2>2. CASE d = e
    <3>1. HandedOver(e) /\ Peer(e) \notin torn
      BY <1>0, <2>1 DEF FlowInv
    <3>2. ASSUME NEW p \in OnTheWay(e), NEW n \in Nat, Handed(e, Payload(p), p, n),
                 \A q \in OnTheWay(e) : p <= q
          PROVE  Goal
      <4>1. Channel(e)!Deliver(p) /\ p \in 1 .. MaxPackets
        BY <2>1, <3>1, <3>2, ChannelDeliver
      <4> QED
        BY <4>1 DEF Channel!Next
    <3>3. \/ delivered'[e] = delivered[e]
          \/ \E p \in OnTheWay(e), n \in Nat :
               Handed(e, Payload(p), p, n) /\ \A q \in OnTheWay(e) : p <= q
      BY <1>3, <2>2, <3>1, NextHanded
    <3> HIDE DEF Goal
    <3> QED
      BY <1>2, <2>1, <3>2, <3>3
  <2>3. CASE d # e
    <3>1. PICK header, size, count \in Nat : Takes(d, header, size, count)
      BY <1>3, TakeStep
    <3>2. delivered'[e] = delivered[e]
      BY <2>3, <3>1 DEF Takes, TypeInv, TypeOK
    <3> HIDE DEF Goal
    <3> QED
      BY <1>2, <2>1, <3>2
  <2> QED
    BY <2>2, <2>3
<1> HIDE DEF Goal
<1>4. ASSUME Reconnect \/ \E c \in Connections : Close(c) PROVE Goal
  BY <1>2, <1>4 DEF Reconnect, Close, senders, receivers
<1>5. ASSUME NEW t \in Threads, SendPayload(t) PROVE Goal
  BY <1>2, <1>5 DEF SendPayload, receivers
<1>6. ASSUME NEW t \in Threads, Resume(t) PROVE Goal
  BY <1>2, <1>6 DEF Resume, receivers
<1>7. ASSUME UNCHANGED vars PROVE Goal
  BY <1>2, <1>7 DEF vars, senders, receivers
<1>8. Goal
  BY <1>1, <1>3, <1>4, <1>5, <1>6, <1>7 DEF Next
<1> QED
  BY <1>8 DEF Goal

\* Each direction implements PacketChannel for as long as it is not torn.
THEOREM StreamIsChannel == Spec => ImplementsChannel
<1>1. Init => ChannelsEmpty
  BY InitChannels DEF ChannelsEmpty
<1>2. TypeInv /\ FlowInv /\ [Next]_vars => [ChannelsStep]_vars
  BY ChannelStep DEF ChannelsStep
<1> QED
  BY <1>1, <1>2, FlowCorrect, PTL DEF Spec, ImplementsChannel
=============================================================================
