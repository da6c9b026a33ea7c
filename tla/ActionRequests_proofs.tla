----------------------- MODULE ActionRequests_proofs -----------------------
(* Proofs about ActionRequests, for every value of its constants. *)
EXTENDS ActionRequests, TLAPS

InCall == {"register", "send", "poll", "erase", "report", "reject"}

\* A thread in a call works on a request that was issued.
CurIssued == \A t \in Processes : pc[t] \in InCall => cur[t] \in Issued

TypeInv == TypeOK /\ CurIssued

\* The request counter stays a ubyte when it is incremented.
LEMMA NextIdType == ASSUME NEW c \in Ids PROVE NextId(c) \in Ids
  BY IdSpaceAssumption, SMT DEF NextId, Ids

\* The initial state is well-typed and nobody is in a call.
LEMMA InitTypeInv == Init => TypeInv
  BY IdSpaceAssumption, MaxRequestsAssumption, SMT
  DEF Init, TypeInv, TypeOK, CurIssued, Ids, Slot, Absent, Ticket0, None,
      Tickets, Status0, Result, NoResult, NoPacket, Request, InCall, Ops,
      Modes, Processes

\* Updating one field of one request keeps the history well-typed.
LEMMA RequestUpdates ==
  ASSUME req \in [Tickets -> Request], NEW n \in Tickets
  PROVE  /\ [req EXCEPT ![n].done = TRUE] \in [Tickets -> Request]
         /\ [req EXCEPT ![n].handled = TRUE] \in [Tickets -> Request]
         /\ [req EXCEPT ![n].reports = @ + 1] \in [Tickets -> Request]
<1> DEFINE r == req[n]
<1>1. r \in Request
  OBVIOUS
<1>2. [r EXCEPT !.done = TRUE] \in Request
  BY <1>1 DEF Request
<1>3. [r EXCEPT !.handled = TRUE] \in Request
  BY <1>1 DEF Request
<1>4. [r EXCEPT !.reports = @ + 1] \in Request
  BY <1>1 DEF Request
<1> QED
  BY <1>2, <1>3, <1>4

\* So does returning from a call.
LEMMA FinishType ==
  ASSUME req \in [Tickets -> Request], NEW n \in Tickets,
         NEW from \in Ticket0, Finish(n, from)
  PROVE  req' \in [Tickets -> Request]
<1> DEFINE r == req[n]
<1>1. r \in Request
  OBVIOUS
<1> DEFINE k   == r.reports + IF Callback = "unset" THEN 0 ELSE 1
           new == [r EXCEPT !.done = TRUE, !.from = from, !.reports = k]
<1>2. k \in Nat
  BY <1>1 DEF Request
<1>3. req' = [req EXCEPT ![n] = new]
  BY DEF Finish
<1> HIDE DEF k
<1>4. new \in Request
  BY <1>1, <1>2 DEF Request
<1> HIDE DEF new
<1> QED
  BY <1>3, <1>4

\* Every action keeps the types, and a call on the ticket it was issued.
LEMMA NextTypeInv == TypeInv /\ [Next]_vars => TypeInv'
<1> SUFFICES ASSUME TypeInv, [Next]_vars PROVE TypeInv'
  OBVIOUS
<1> USE IdSpaceAssumption, MaxRequestsAssumption, CopiesAssumption
        DEF TypeInv, TypeOK, CurIssued, Issued, InCall, Processes, Ticket0,
            None, Tickets, manager, locals, wire, Goto
<1>1. ASSUME NEW t \in Processes, NEW c \in Calls, Issue(t, c[1], c[2])
      PROVE  TypeInv'
  <2>1. c[1] \in Ops /\ c[2] \in Modes
    BY CallsAssumption
  <2>2. counter' \in Ids
    BY <1>1, NextIdType DEF Issue
  <2>3. req' \in [Tickets -> Request]
    BY <1>1, <2>1 DEF Issue, Request
  <2> QED
    BY <1>1, <2>1, <2>2, <2>3 DEF Issue, FirstStep
<1>2. ASSUME NEW t \in Processes, Register(t) PROVE TypeInv'
  BY <1>2 DEF Register, Emplaced, Fresh, Slot, Status0
<1>3. ASSUME NEW t \in Processes, Send(t) PROVE TypeInv'
  <2>1. cur[t] \in Tickets
    BY <1>3 DEF Send
  <2>2. req' \in [Tickets -> Request]
    BY <1>3, <2>1, RequestUpdates DEF Send
  <2>3. result' \in [Processes -> Result]
    <3>1. NoResult \in Result
      BY DEF NoResult, Result, Status0
    <3>2. result \in [Processes -> Result]
      OBVIOUS
    <3>3. result' = [result EXCEPT ![t] = NoResult] \/ result' = result
      BY <1>3 DEF Send
    <3> QED
      BY ONLY <3>1, <3>2, <3>3
  <2> QED
    BY <1>3, <2>1, <2>2, <2>3 DEF Send
<1>4. ASSUME NEW t \in Processes, Copy(t) PROVE TypeInv'
  <2>1. table[Key(t)] \in Slot
    BY <1>4 DEF Copy, Key, Id, Request
  <2>2. result' \in [Processes -> Result]
    BY <1>4, <2>1 DEF Copy, Result, Slot
  <2>3. it' \in [Processes -> Ticket0]
    BY <1>4, <2>1 DEF Copy, Slot
  <2> QED
    BY <1>4, <2>2, <2>3 DEF Copy
<1>5. ASSUME NEW t \in Processes, Erase(t) PROVE TypeInv'
  <2>1. Absent \in Slot
    BY DEF Slot, Absent, Status0
  <2>2. table' \in [Ids -> Slot]
    BY <1>5, <2>1 DEF Erase
  <2> QED
    BY <1>5, <2>2 DEF Erase
<1>6. ASSUME NEW t \in Processes, Expire(t) PROVE TypeInv'
  BY <1>6 DEF Expire
<1>7. ASSUME NEW t \in Processes, Return(t) PROVE TypeInv'
  <2>1. cur[t] \in Tickets /\ result[t].from \in Ticket0
    BY <1>7 DEF Return, Result
  <2>2. req' \in [Tickets -> Request]
    BY <1>7, <2>1, FinishType DEF Return
  <2> QED
    BY <1>7, <2>2 DEF Return
<1>8. ASSUME NEW t \in Processes, Reject(t) PROVE TypeInv'
  <2>1. cur[t] \in Tickets
    BY <1>8 DEF Reject
  <2>2. req' \in [Tickets -> Request]
    BY <1>8, <2>1, FinishType DEF Reject
  <2> QED
    BY <1>8, <2>2 DEF Reject
<1>9. ASSUME NEW t \in Processes, FetchUnnamed(t) PROVE TypeInv'
  BY <1>9 DEF FetchUnnamed
<1>10. ASSUME NEW a \in answers, Deliver(a) PROVE TypeInv'
  <2>1. a \in Answer /\ table[Id(a.ticket)] \in Slot
    BY DEF Id, Request, Answer
  <2>2. answers' \subseteq Answer
    BY <1>10, <2>1 DEF Deliver, Answer
  <2>3. /\ it' \in [Processes -> Ticket0]
        /\ packet' \in Answer \cup {NoPacket}
    BY <1>10, <2>1 DEF Deliver, Slot
  <2>4. /\ pc' \in [Processes -> {"idle", "callback", "register", "send",
                        "poll", "erase", "report", "reject", "store",
                        "notify"}]
        /\ \A t \in Processes : pc'[t] \in InCall => pc[t] \in InCall
        /\ fate' \in {"ok", "assertion_failed", "stale_node",
                      "stale_reference", "null_response"}
    BY <1>10 DEF Deliver
  <2> QED
    BY <1>10, <2>2, <2>3, <2>4 DEF Deliver
<1>11. ASSUME Store PROVE TypeInv'
  <2>1. packet.ticket \in Ticket0 /\ packet.status \in Status0
    BY DEF Answer, NoPacket, Status0
  <2> DEFINE entry == [node |-> it[Net], waiting |-> FALSE,
                       from |-> packet.ticket, status |-> packet.status]
  <2>2. entry \in Slot
    BY <2>1 DEF Slot
  <2>3. table' = table \/ table' = [table EXCEPT ![Id(packet.ticket)] = entry]
    BY <1>11 DEF Store
  <2> HIDE DEF entry
  <2>4. table' \in [Ids -> Slot]
    BY <2>2, <2>3
  <2> QED
    BY <1>11, <2>4 DEF Store
<1>12. ASSUME Notify PROVE TypeInv'
  <2>1. [req EXCEPT ![it[Net]].reports = @ + 1] \in [Tickets -> Request]
    <3>1. CASE it[Net] \in Tickets
      BY <3>1, RequestUpdates
    <3>2. CASE it[Net] \notin Tickets
      BY <3>2
    <3> QED
      BY <3>1, <3>2
  <2>2. req' \in [Tickets -> Request]
    BY <1>12, <2>1 DEF Notify
  <2>3. packet' \in Answer \cup {NoPacket}
    BY <1>12 DEF Notify
  <2> QED
    BY <1>12, <2>2, <2>3 DEF Notify
<1>13. ASSUME NewDevice PROVE TypeInv'
  BY <1>13 DEF NewDevice
<1>14. ASSUME EndCallback PROVE TypeInv'
  BY <1>14 DEF EndCallback
<1>15. ASSUME Network PROVE TypeInv'
  <2>1. ASSUME NEW n \in requests, LoseRequest(n) PROVE TypeInv'
    BY <2>1 DEF LoseRequest
  <2>2. ASSUME NEW n \in requests, NEW s \in Statuses, Handle(n, s)
        PROVE  TypeInv'
    <3>1. req' \in [Tickets -> Request]
      BY <2>2, RequestUpdates DEF Handle
    <3>2. answers' \subseteq Answer
      BY <2>2 DEF Handle, Answer
    <3> QED
      BY <2>2, <3>1, <3>2 DEF Handle
  <2>3. ASSUME NEW a \in answers, LoseAnswer(a) PROVE TypeInv'
    BY <2>3 DEF LoseAnswer
  <2> QED
    BY <1>15, <2>1, <2>2, <2>3 DEF Network
<1>16. CASE UNCHANGED vars
  BY <1>16 DEF vars
<1> QED
  BY <1>1, <1>2, <1>3, <1>4, <1>5, <1>6, <1>7, <1>8, <1>9, <1>10, <1>11,
     <1>12, <1>13, <1>14, <1>15, <1>16 DEF Next, CallStep, MeshStep

\* Type correctness of the request tables, for any number of threads, ids,
\* requests and statuses.
THEOREM TypeCorrect == Spec => []TypeOK
<1>1. Spec => []TypeInv
  BY InitTypeInv, NextTypeInv, PTL DEF Spec
<1> QED
  BY <1>1, PTL DEF TypeInv
-----------------------------------------------------------------------------
(* Answers and requests are matched by id alone.  Hence every ticket an      *)
(* entry, an iterator or a result mentions was issued under the same id.     *)

\* Ticket x was issued under this id.
Under(id, x) == x \in Issued /\ Id(x) = id

WireIssued ==
  /\ requests \subseteq Issued
  /\ \A a \in answers : a.ticket \in Issued

TableUnder ==
  \A i \in Ids :
    /\ table[i].node # None => Under(i, table[i].node)
    /\ table[i].from # None => Under(i, table[i].from)

ResultUnder ==
  \A t \in Processes :
    /\ pc[t] \in {"poll", "erase", "report"}
    /\ result[t].from # None
    => Under(Key(t), result[t].from)

PacketUnder ==
  pc[Net] \in {"store", "notify"} =>
    packet.ticket \in Issued /\ Under(Id(packet.ticket), it[Net])

HistoryUnder ==
  \A n \in Issued : req[n].from # None => Under(Id(n), req[n].from)

SameId ==
  /\ TypeInv
  /\ WireIssued
  /\ TableUnder
  /\ ResultUnder
  /\ PacketUnder
  /\ HistoryUnder

\* Initially no entry, result or packet refers to any request.
LEMMA InitSameId == Init => SameId
  BY InitTypeInv, SMT
  DEF Init, SameId, WireIssued, TableUnder, ResultUnder, PacketUnder,
      HistoryUnder, Issued, Absent, NoResult, None, Processes

\* A ticket keeps its id.
LEMMA IdsKept ==
  TypeInv /\ [Next]_vars =>
    \A x \in Issued : x \in Issued' /\ Id(x)' = Id(x)
<1> SUFFICES ASSUME TypeInv, [Next]_vars, NEW x \in Issued
             PROVE  x \in Issued' /\ req'[x].id = req[x].id
  BY DEF Id
<1> USE DEF TypeInv, TypeOK, Issued, Tickets
<1>1. x \in Tickets /\ req[x] \in Request
  BY MaxRequestsAssumption
<1>2. ASSUME NEW t \in Processes, NEW c \in Calls, Issue(t, c[1], c[2])
      PROVE  x \in Issued' /\ req'[x].id = req[x].id
  BY <1>1, <1>2 DEF Issue
<1>3. ASSUME NEW n, NEW from, Finish(n, from)
      PROVE  req'[x].id = req[x].id
  BY <1>1, <1>3 DEF Finish, Request
<1>4. ASSUME NEW n
      PROVE  /\ [req EXCEPT ![n].done = TRUE][x].id = req[x].id
             /\ [req EXCEPT ![n].handled = TRUE][x].id = req[x].id
             /\ [req EXCEPT ![n].reports = @ + 1][x].id = req[x].id
  BY <1>1 DEF Request
<1>5. ASSUME NEW t \in Processes, CallStep(t)
      PROVE  x \in Issued' /\ req'[x].id = req[x].id
  <2>1. ASSUME Send(t) PROVE x \in Issued' /\ req'[x].id = req[x].id
    BY <1>4, <2>1 DEF Send
  <2>2. ASSUME Return(t) \/ Reject(t)
        PROVE  x \in Issued' /\ req'[x].id = req[x].id
    BY <1>1, <1>3, <2>2 DEF Return, Reject
  <2> QED
    BY <1>5, <2>1, <2>2 DEF CallStep, Register, Copy, Erase, Expire
<1>6. ASSUME MeshStep PROVE x \in Issued' /\ req'[x].id = req[x].id
  BY <1>4, <1>6 DEF MeshStep, Store, Notify, EndCallback
<1>7. ASSUME Network PROVE x \in Issued' /\ req'[x].id = req[x].id
  BY <1>4, <1>7 DEF Network, LoseRequest, LoseAnswer, Handle
<1>8. ASSUME NEW a \in answers, Deliver(a)
      PROVE  x \in Issued' /\ req'[x].id = req[x].id
  BY <1>8 DEF Deliver
<1>9. CASE UNCHANGED vars
  BY <1>9 DEF vars
<1> QED
  BY <1>2, <1>5, <1>6, <1>7, <1>8, <1>9 DEF Next, FetchUnnamed, NewDevice

\* Only Register, Erase and Store write to action_responses.
LEMMA NextTableUnder == SameId /\ [Next]_vars => TableUnder'
<1> SUFFICES ASSUME SameId, [Next]_vars PROVE TableUnder'
  OBVIOUS
<1> USE DEF SameId
<1> DEFINE Good(s, i) == /\ s.node # None => Under(i, s.node)
                         /\ s.from # None => Under(i, s.from)
<1>1. ASSUME NEW t \in Processes, Register(t)
      PROVE  \A i \in Ids : Good(table'[i], i)
  <2>1. Under(Key(t), cur[t])
    BY <1>1 DEF Register, TypeInv, CurIssued, InCall, Under, Key
  <2> QED
    BY <1>1, <2>1 DEF Register, Emplaced, Fresh, TableUnder, TypeInv, TypeOK
<1>2. ASSUME NEW t \in Processes, Erase(t)
      PROVE  \A i \in Ids : Good(table'[i], i)
  BY <1>2 DEF Erase, TableUnder, TypeInv, TypeOK, Absent
<1>3. ASSUME Store PROVE \A i \in Ids : Good(table'[i], i)
  <2>1. Under(Id(packet.ticket), packet.ticket)
    BY <1>3 DEF Store, PacketUnder, Under
  <2> QED
    BY <1>3, <2>1 DEF Store, PacketUnder, TableUnder, TypeInv, TypeOK
<1>4. ASSUME UNCHANGED table PROVE \A i \in Ids : Good(table'[i], i)
  BY <1>4 DEF TableUnder
<1>5. \/ UNCHANGED table \/ Store
      \/ \E t \in Processes : Register(t) \/ Erase(t)
  BY DEF Next, CallStep, MeshStep, Network, Issue, Send, Copy, Expire, Return,
         Reject, FetchUnnamed, Deliver, Notify, NewDevice, EndCallback,
         Handle, LoseRequest, LoseAnswer, vars, manager
<1>6. \A i \in Ids : Good(table'[i], i)
  BY <1>1, <1>2, <1>3, <1>4, <1>5 DEF TableUnder
<1>7. ASSUME NEW i, NEW x, Under(i, x)
      PROVE  x \in Issued' /\ Id(x)' = i
  BY <1>7, IdsKept DEF Under
<1> QED
  BY <1>6, <1>7 DEF TableUnder, Under

\* A result is copied from the entry under the call's own id, and kept.
LEMMA NextResultUnder == SameId /\ [Next]_vars => ResultUnder'
<1> SUFFICES ASSUME SameId, [Next]_vars, NEW p \in Processes,
                    pc'[p] \in {"poll", "erase", "report"},
                    result'[p].from # None
             PROVE  Under(Key(p), result[p].from)'
  BY DEF ResultUnder
<1> USE DEF SameId
<1> DEFINE Kept == /\ pc[p] \in {"poll", "erase", "report"}
                   /\ result'[p] = result[p]
                   /\ cur'[p] = cur[p]
<1>1. Kept \/ Copy(p)
  <2> USE DEF TypeInv, TypeOK, Goto, locals
  <2>1. ASSUME NEW t \in Processes, NEW c \in Calls, Issue(t, c[1], c[2])
        PROVE  Kept
    BY <2>1 DEF Issue, FirstStep
  <2>2. ASSUME NEW t \in Processes, CallStep(t) PROVE Kept \/ Copy(p)
    BY <2>2 DEF CallStep, Register, Send, NoResult, Copy, Erase, Expire,
                Return, Reject
  <2>3. ASSUME MeshStep PROVE Kept
    BY <2>3 DEF MeshStep, Store, Notify, EndCallback, Processes
  <2>4. ASSUME NEW a \in answers, Deliver(a) PROVE Kept
    BY <2>4 DEF Deliver, Processes
  <2>5. ASSUME NewDevice \/ Network PROVE Kept
    BY <2>5 DEF NewDevice, Network, Handle, LoseRequest, LoseAnswer, Processes
  <2>6. ASSUME NEW t \in Processes, FetchUnnamed(t) PROVE Kept
    BY <2>6 DEF FetchUnnamed
  <2>7. CASE UNCHANGED vars
    BY <2>7 DEF vars
  <2> QED
    BY <2>1, <2>2, <2>3, <2>4, <2>5, <2>6, <2>7 DEF Next
<1>2. cur'[p] = cur[p] /\ cur[p] \in Issued
  BY <1>1 DEF Copy, TypeInv, CurIssued, InCall
<1>3. Under(Key(p), result'[p].from)
  <2>1. CASE Kept
    BY <2>1 DEF ResultUnder
  <2>2. CASE Copy(p)
    <3>1. Key(p) \in Ids
      BY <1>2, MaxRequestsAssumption
      DEF Key, Id, TypeInv, TypeOK, Issued, Tickets, Request
    <3> QED
      BY <2>2, <3>1 DEF Copy, TableUnder, TypeInv, TypeOK
  <2> QED
    BY <1>1, <2>1, <2>2
<1> QED
  BY <1>2, <1>3, IdsKept DEF Under, Key

\* handle_packet keeps its packet and its iterator from Deliver to Notify.
LEMMA NextPacketUnder == SameId /\ [Next]_vars => PacketUnder'
<1> SUFFICES ASSUME SameId, [Next]_vars, pc'[Net] \in {"store", "notify"}
             PROVE  /\ packet'.ticket \in Issued'
                    /\ Under(Id(packet.ticket), it[Net])'
  BY DEF PacketUnder
<1> USE DEF SameId
<1> DEFINE Kept == /\ pc[Net] \in {"store", "notify"}
                   /\ packet' = packet
                   /\ it'[Net] = it[Net]
<1>1. Kept \/ \E a \in answers : Deliver(a)
  <2> USE DEF TypeInv, TypeOK, Goto, locals, Processes
  <2>1. ASSUME NEW t \in Processes, NEW c \in Calls, Issue(t, c[1], c[2])
        PROVE  Kept
    BY <2>1 DEF Issue, FirstStep
  <2>2. ASSUME NEW t \in Processes, CallStep(t) PROVE Kept
    BY <2>2 DEF CallStep, Register, Send, Copy, Erase, Expire, Return, Reject
  <2>3. ASSUME MeshStep PROVE Kept
    BY <2>3 DEF MeshStep, Store, Notify, EndCallback
  <2>4. ASSUME NewDevice \/ Network PROVE Kept
    BY <2>4 DEF NewDevice, Network, Handle, LoseRequest, LoseAnswer
  <2>5. ASSUME NEW t \in Processes, FetchUnnamed(t) PROVE Kept
    BY <2>5 DEF FetchUnnamed
  <2>6. CASE UNCHANGED vars
    BY <2>6 DEF vars
  <2> QED
    BY <2>1, <2>2, <2>3, <2>4, <2>5, <2>6 DEF Next
<1>2. CASE Kept
  BY <1>2, IdsKept DEF PacketUnder, Under
<1>3. ASSUME NEW a \in answers, Deliver(a)
      PROVE  /\ packet'.ticket \in Issued'
             /\ Under(Id(packet.ticket), it[Net])'
  <2>1. a.ticket \in Issued /\ Id(a.ticket) \in Ids
    BY MaxRequestsAssumption
    DEF WireIssued, Id, TypeInv, TypeOK, Issued, Tickets, Request
  <2>2. pc[Net] = "idle" /\ pc'[Net] \in {"store", "notify"}
    BY <1>3 DEF Deliver
  <2>3. /\ packet' = a
        /\ table[Id(a.ticket)].node # None
        /\ it'[Net] = table[Id(a.ticket)].node
    BY <1>3, <2>2 DEF Deliver, TypeInv, TypeOK, Processes
  <2>4. Under(Id(a.ticket), it'[Net])
    BY <2>1, <2>3 DEF TableUnder
  <2> QED
    BY <2>1, <2>3, <2>4, IdsKept DEF Under
<1> QED
  BY <1>1, <1>2, <1>3

\* A call returns with its result, or with nothing.
LEMMA NextHistoryUnder == SameId /\ [Next]_vars => HistoryUnder'
<1> SUFFICES ASSUME SameId, [Next]_vars, NEW n \in Issued',
                    req'[n].from # None
             PROVE  Under(Id(n), req[n].from)'
  BY DEF HistoryUnder
<1> USE DEF SameId
<1> DEFINE Kept == n \in Issued /\ req'[n].from = req[n].from
           Told == \E t \in Processes :
                     Return(t) /\ n = cur[t] /\ req'[n].from = result[t].from
<1>1. Kept \/ Told
  <2> USE DEF TypeInv, TypeOK, Issued, Tickets
  <2>1. ASSUME NEW t \in Processes, NEW c \in Calls, Issue(t, c[1], c[2])
        PROVE  Kept
    BY <2>1, MaxRequestsAssumption DEF Issue
  <2>2. ASSUME n \in Issued, NEW m
        PROVE  /\ [req EXCEPT ![m].done = TRUE][n].from = req[n].from
               /\ [req EXCEPT ![m].handled = TRUE][n].from = req[n].from
               /\ [req EXCEPT ![m].reports = @ + 1][n].from = req[n].from
    BY <2>2, MaxRequestsAssumption DEF Request
  <2>3. ASSUME n \in Issued, NEW m, NEW x, Finish(m, x)
        PROVE  req'[n].from = IF n = m THEN x ELSE req[n].from
    BY <2>3, MaxRequestsAssumption DEF Finish, Request
  <2>4. ASSUME NEW t \in Processes, CallStep(t) PROVE Kept \/ Told
    <3>1. n \in Issued
      BY <2>4 DEF CallStep, Register, Send, Copy, Erase, Expire, Return, Reject
    <3>2. CASE Send(t)
      BY <2>2, <3>1, <3>2 DEF Send
    <3>3. CASE Return(t)
      <4>1. UNCHANGED req \/ Finish(cur[t], result[t].from)
        BY <3>3 DEF Return
      <4>2. CASE UNCHANGED req
        BY <3>1, <4>2
      <4>3. CASE Finish(cur[t], result[t].from)
        <5>1. req'[n].from = IF n = cur[t] THEN result[t].from
                                           ELSE req[n].from
          BY <2>3, <3>1, <4>3
        <5> QED
          BY <3>1, <3>3, <5>1
      <4> QED
        BY <4>1, <4>2, <4>3
    <3>4. CASE Reject(t)
      BY <2>3, <3>1, <3>4 DEF Reject
    <3> QED
      BY <2>4, <3>1, <3>2, <3>3, <3>4
      DEF CallStep, Register, Copy, Erase, Expire
  <2>5. ASSUME MeshStep PROVE Kept
    BY <2>2, <2>5 DEF MeshStep, Store, Notify, EndCallback
  <2>6. ASSUME Network PROVE Kept
    BY <2>2, <2>6 DEF Network, Handle, LoseRequest, LoseAnswer
  <2>7. ASSUME NEW a \in answers, Deliver(a) PROVE Kept
    BY <2>7 DEF Deliver
  <2>8. CASE UNCHANGED vars
    BY <2>8 DEF vars
  <2> QED
    BY <2>1, <2>4, <2>5, <2>6, <2>7, <2>8 DEF Next, FetchUnnamed, NewDevice
<1>2. n \in Issued /\ Under(Id(n), req'[n].from)
  <2>1. CASE Kept
    BY <2>1 DEF HistoryUnder
  <2>2. CASE Told
    BY <2>2 DEF Return, TypeInv, CurIssued, InCall, ResultUnder, Key
  <2> QED
    BY <1>1, <2>1, <2>2
<1> QED
  BY <1>2, IdsKept DEF Under

\* Packets are only sent for requests that were issued.
LEMMA NextWireIssued == SameId /\ [Next]_vars => WireIssued'
<1> SUFFICES ASSUME SameId, [Next]_vars PROVE WireIssued'
  OBVIOUS
<1> USE DEF SameId, WireIssued
<1>1. ASSUME NEW t \in Processes, Send(t) PROVE WireIssued'
  BY <1>1 DEF Send, TypeInv, CurIssued, InCall, Issued
<1>2. ASSUME NEW a \in answers, Deliver(a) PROVE WireIssued'
  <2>1. \A b \in answers' : b.ticket \in Issued
    BY <1>2 DEF Deliver, TypeInv, TypeOK, Answer
  <2> QED
    BY <1>2, <2>1 DEF Deliver, Issued
<1>3. ASSUME NEW n \in requests, NEW s \in Statuses, Handle(n, s)
      PROVE  WireIssued'
  BY <1>3 DEF Handle, Issued
<1>4. ASSUME NEW n \in requests, LoseRequest(n) PROVE WireIssued'
  BY <1>4 DEF LoseRequest, Issued
<1>5. ASSUME NEW a \in answers, LoseAnswer(a) PROVE WireIssued'
  BY <1>5 DEF LoseAnswer, Issued
<1>6. CASE UNCHANGED wire
  BY <1>6, IdsKept DEF wire
<1> QED
  BY <1>1, <1>2, <1>3, <1>4, <1>5, <1>6
  DEF Next, CallStep, MeshStep, Network, Issue, Register, Copy, Erase, Expire,
      Return, Reject, FetchUnnamed, Store, Notify, NewDevice, EndCallback, vars

\* Every step keeps all that is filed under an id within that id.
LEMMA NextSameId == SameId /\ [Next]_vars => SameId'
  BY NextTypeInv, NextWireIssued, NextTableUnder, NextResultUnder,
     NextPacketUnder, NextHistoryUnder DEF SameId

\* Hence it always is.
LEMMA SameIdAlways == Spec => []SameId
  BY InitSameId, NextSameId, PTL DEF Spec

\* Whatever is lost, delayed or copied, and however the callers and the mesh
\* thread interleave, a synchronous call can only be handed the answer of
\* another request if the two were issued under one id.
THEOREM AnswersAreOwn == Spec => []AnswerIsOwn
<1>1. SameId => AnswerIsOwn
  BY DEF SameId, HistoryUnder, AnswerIsOwn, IdReused, Under
<1> QED
  BY <1>1, SameIdAlways, PTL

\* The same for the entry handle_packet passes to action_callback.
THEOREM CallbacksGetOwnAnswers == Spec => []CallbackGetsOwnAnswer
<1>1. SameId => CallbackGetsOwnAnswer
  BY DEF SameId, PacketUnder, CallbackGetsOwnAnswer, IdReused, Under
<1> QED
  BY <1>1, SameIdAlways, PTL
=============================================================================
