------------------------ MODULE RequestEntries_proofs ------------------------
(* More proofs about ActionRequests: what becomes of the entries of           *)
(* action_responses.                                                          *)
EXTENDS ActionRequests_proofs

\* A ticket stays the call of the thread that was given it.
LEMMA CallersKept ==
  TypeInv /\ [Next]_vars => \A x \in Issued : req'[x].by = req[x].by
<1> SUFFICES ASSUME TypeInv, [Next]_vars, NEW x \in Issued
             PROVE  req'[x].by = req[x].by
  OBVIOUS
<1> USE DEF TypeInv, TypeOK, Issued, Tickets
<1>1. x \in Tickets /\ req[x] \in Request
  BY MaxRequestsAssumption
<1>2. ASSUME NEW t \in Processes, NEW c \in Calls, Issue(t, c[1], c[2])
      PROVE  req'[x].by = req[x].by
  BY <1>1, <1>2 DEF Issue
<1>3. ASSUME NEW n, NEW from, Finish(n, from)
      PROVE  req'[x].by = req[x].by
  BY <1>1, <1>3 DEF Finish, Request
<1>4. ASSUME NEW n
      PROVE  /\ [req EXCEPT ![n].done = TRUE][x].by = req[x].by
             /\ [req EXCEPT ![n].handled = TRUE][x].by = req[x].by
             /\ [req EXCEPT ![n].reports = @ + 1][x].by = req[x].by
  BY <1>1 DEF Request
<1>5. ASSUME NEW t \in Processes, CallStep(t) PROVE req'[x].by = req[x].by
  BY <1>3, <1>4, <1>5
  DEF CallStep, Register, Send, Copy, Erase, Expire, Return, Reject
<1>6. CASE MeshStep \/ Network
  BY <1>4, <1>6 DEF MeshStep, Store, Notify, EndCallback, Network, LoseRequest,
                    LoseAnswer, Handle
<1>7. CASE UNCHANGED req
  BY <1>7
<1> QED
  BY <1>2, <1>5, <1>6, <1>7 DEF Next, FetchUnnamed, NewDevice, Deliver, vars

\* A thread that is in a call was in it before, or has just been given it.
LEMMA InCallStep ==
  ASSUME TypeInv, [Next]_vars, NEW p \in Processes, pc'[p] \in InCall
  PROVE  \/ /\ pc[p] \in InCall /\ cur'[p] = cur[p]
            /\ pc'[p] = "register" => pc[p] = "register"
            /\ pc'[p] = "send" => pc[p] \in {"register", "send"}
         \/ \E c \in Calls : Issue(p, c[1], c[2])
<1> DEFINE Kept == /\ pc[p] \in InCall /\ cur'[p] = cur[p]
                   /\ pc'[p] = "register" => pc[p] = "register"
                   /\ pc'[p] = "send" => pc[p] \in {"register", "send"}
<1> USE DEF TypeInv, TypeOK, Goto, locals, Processes, InCall
<1>1. ASSUME NEW t \in Processes, NEW c \in Calls, Issue(t, c[1], c[2])
      PROVE  Kept \/ \E d \in Calls : Issue(p, d[1], d[2])
  BY <1>1 DEF Issue
<1>2. ASSUME NEW t \in Processes, CallStep(t) PROVE Kept
  BY <1>2 DEF CallStep, Register, Send, Copy, Erase, Expire, Return, Reject
<1>3. ASSUME MeshStep PROVE Kept
  BY <1>3 DEF MeshStep, Store, Notify, EndCallback
<1>4. ASSUME NewDevice \/ Network PROVE Kept
  BY <1>4 DEF NewDevice, Network, Handle, LoseRequest, LoseAnswer
<1>5. ASSUME NEW t \in Processes, FetchUnnamed(t) PROVE Kept
  BY <1>5 DEF FetchUnnamed
<1>6. ASSUME NEW a \in answers, Deliver(a) PROVE Kept
  BY <1>6 DEF Deliver
<1>7. ASSUME UNCHANGED vars PROVE Kept
  BY <1>7 DEF vars
<1> HIDE DEF Kept, TypeInv, TypeOK, Goto, locals, Processes, InCall
<1>8. Kept \/ \E c \in Calls : Issue(p, c[1], c[2])
  BY <1>1, <1>2, <1>3, <1>4, <1>5, <1>6, <1>7 DEF Next
<1>9. Kept => /\ pc[p] \in InCall /\ cur'[p] = cur[p]
              /\ pc'[p] = "register" => pc[p] = "register"
              /\ pc'[p] = "send" => pc[p] \in {"register", "send"}
  BY DEF Kept
<1> QED
  BY <1>8, <1>9

\* No two threads are in one call.
OwnTickets == \A t \in Processes : pc[t] \in InCall => req[cur[t]].by = t

\* A new ticket is the caller's, and the others keep theirs.
LEMMA NextOwnTickets == TypeInv /\ OwnTickets /\ [Next]_vars => OwnTickets'
<1> SUFFICES ASSUME TypeInv, OwnTickets, [Next]_vars,
                    NEW p \in Processes, pc'[p] \in InCall
             PROVE  req'[cur'[p]].by = p
  BY DEF OwnTickets
<1>1. CASE pc[p] \in InCall /\ cur'[p] = cur[p]
  BY <1>1, CallersKept DEF OwnTickets, TypeInv, CurIssued
<1>2. ASSUME NEW c \in Calls, Issue(p, c[1], c[2]) PROVE req'[cur'[p]].by = p
  BY <1>2, MaxRequestsAssumption DEF Issue, TypeInv, TypeOK, Tickets
<1> QED
  BY <1>1, <1>2, InCallStep

\* Entries and iterators are of requests that were issued, and not of one whose
\* call has still to make its entry.
NotYet ==
  /\ \A t \in Processes : it[t] # None => it[t] \in Issued
  /\ \A u \in Processes : pc[u] = "register" =>
       /\ \A i \in Ids : table[i].node # cur[u]
       /\ \A t \in Processes : it[t] # cur[u]

\* These are the steps that change action_responses.
LEMMA TableSteps ==
  [Next]_vars => \/ UNCHANGED table \/ Store
                 \/ \E t \in Processes : Register(t) \/ Erase(t)
  BY DEF Next, CallStep, MeshStep, Network, Issue, Send, Copy, Expire, Return,
         Reject, FetchUnnamed, Deliver, Notify, NewDevice, EndCallback,
         Handle, LoseRequest, LoseAnswer, vars, manager

\* Only Register makes a node.
LEMMA NodeStep ==
  ASSUME TypeInv, [Next]_vars, NEW i \in Ids
  PROVE  \/ table'[i].node \in {table[i].node, None}
         \/ \E u \in Processes : Register(u) /\ table'[i].node = cur[u]
<1> USE DEF TypeInv, TypeOK
<1>1. ASSUME NEW u \in Processes, Register(u)
      PROVE  table'[i].node = table[i].node \/ table'[i].node = cur[u]
  BY <1>1 DEF Register, Emplaced, Fresh
<1>2. ASSUME NEW u \in Processes, Erase(u)
      PROVE  table'[i].node \in {table[i].node, None}
  BY <1>2 DEF Erase, Absent
<1>3. CASE Store
  BY <1>3 DEF Store
<1> QED
  BY <1>1, <1>2, <1>3, TableSteps

\* An iterator comes from find, in Copy or Deliver.
LEMMA IteratorStep ==
  ASSUME SameId, [Next]_vars, NEW p \in Processes
  PROVE  \/ it'[p] = it[p]
         \/ \E i \in Ids : it'[p] = table[i].node /\ table[i].node # None
<1> USE DEF SameId, TypeInv, TypeOK
<1>1. ASSUME NEW t \in Processes, Copy(t)
      PROVE  \/ it'[p] = it[p]
             \/ \E i \in Ids : it'[p] = table[i].node /\ table[i].node # None
  <2>1. Key(t) \in Ids
    <3>1. cur[t] \in Tickets
      BY <1>1, MaxRequestsAssumption DEF Copy, CurIssued, InCall, Issued, Tickets
    <3> QED
      BY <3>1 DEF Key, Id, Request
  <2> QED
    BY <1>1, <2>1 DEF Copy
<1>2. ASSUME NEW a \in answers, Deliver(a)
      PROVE  \/ it'[p] = it[p]
             \/ \E i \in Ids : it'[p] = table[i].node /\ table[i].node # None
  <2>1. Id(a.ticket) \in Ids
    BY DEF WireIssued, Id, Request, Answer
  <2> QED
    BY <1>2, <2>1 DEF Deliver
<1>3. \/ UNCHANGED it
      \/ \E t \in Processes : Copy(t)
      \/ \E a \in answers : Deliver(a)
  BY DEF Next, CallStep, MeshStep, Network, Issue, Register, Erase, Store, Send,
         Expire, Return, Reject, FetchUnnamed, Notify, NewDevice, EndCallback,
         Handle, LoseRequest, LoseAnswer, vars, locals
<1> QED
  BY <1>1, <1>2, <1>3

\* A ticket is new to the map when its call begins, and its call alone enters it.
LEMMA NextNotYet == SameId /\ OwnTickets /\ NotYet /\ [Next]_vars => NotYet'
<1> SUFFICES ASSUME SameId, OwnTickets, NotYet, [Next]_vars PROVE NotYet'
  OBVIOUS
<1>1. \A i \in Ids : table[i].node # None => table[i].node \in Issued
  BY DEF SameId, TableUnder, Under
<1>2. \A x \in Issued : x \in Issued'
  BY IdsKept DEF SameId
<1>3. \A t \in Processes : it'[t] # None => it'[t] \in Issued
  BY <1>1, IteratorStep DEF NotYet
<1>4. ASSUME NEW u \in Processes, pc'[u] = "register"
      PROVE  /\ \A i \in Ids : table'[i].node # cur'[u]
             /\ \A t \in Processes : it'[t] # cur'[u]
  <2>1. CASE pc[u] = "register" /\ cur'[u] = cur[u]
    <3>1. cur[u] # None
      BY <2>1 DEF SameId, TypeInv, CurIssued, InCall, Issued, TypeOK, None
    <3>2. ASSUME NEW i \in Ids PROVE table'[i].node # cur[u]
      <4>1. ASSUME NEW v \in Processes, Register(v) PROVE cur[v] # cur[u]
        <5>1. v # u
          BY <1>4, <4>1 DEF Register, Goto, SameId, TypeInv, TypeOK
        <5> QED
          BY <2>1, <4>1, <5>1 DEF Register, OwnTickets, InCall
      <4> QED
        BY <2>1, <3>1, <4>1, NodeStep DEF NotYet, SameId
    <3>3. ASSUME NEW t \in Processes PROVE it'[t] # cur[u]
      BY <2>1, IteratorStep DEF NotYet
    <3> QED
      BY <2>1, <3>2, <3>3
  <2>2. ASSUME NEW c \in Calls, Issue(u, c[1], c[2])
        PROVE  /\ \A i \in Ids : table'[i].node # cur'[u]
               /\ \A t \in Processes : it'[t] # cur'[u]
    <3>1. /\ cur'[u] = issued /\ UNCHANGED <<table, it>>
      BY <2>2 DEF Issue, SameId, TypeInv, TypeOK
    <3>2. issued \notin Issued /\ issued # None
      BY DEF SameId, TypeInv, TypeOK, Issued, None
    <3> QED
      BY <1>1, <3>1, <3>2 DEF NotYet
  <2> QED
    BY <1>4, <2>1, <2>2, InCallStep DEF InCall, SameId
<1> QED
  BY <1>2, <1>3, <1>4 DEF NotYet

\* What a caller is about to erase has been answered, if it is there still.
AnsweredErased ==
  \A t \in Processes : pc[t] = "erase" =>
    /\ it[t] # None
    /\ table[Key(t)].node = it[t] => ~table[Key(t)].waiting

\* A slot that changes is answered or erased, unless Register fills it.
LEMMA SlotStep ==
  ASSUME TypeInv, [Next]_vars, NEW i \in Ids
  PROVE  \/ table'[i] = table[i]
         \/ ~table'[i].waiting
         \/ \E u \in Processes : pc[u] = "register" /\ table'[i].node = cur[u]
<1> USE DEF TypeInv, TypeOK
<1>1. ASSUME NEW u \in Processes, Register(u)
      PROVE  \/ table'[i] = table[i]
             \/ pc[u] = "register" /\ table'[i].node = cur[u]
  BY <1>1 DEF Register, Emplaced, Fresh
<1>2. ASSUME NEW u \in Processes, Erase(u)
      PROVE  table'[i] = table[i] \/ ~table'[i].waiting
  BY <1>2 DEF Erase, Absent
<1>3. ASSUME Store PROVE table'[i] = table[i] \/ ~table'[i].waiting
  BY <1>3 DEF Store
<1> QED
  BY <1>1, <1>2, <1>3, TableSteps

\* A thread comes to erase from Copy.
LEMMA EraseStep ==
  ASSUME TypeInv, [Next]_vars, NEW p \in Processes, pc'[p] = "erase"
  PROVE  Copy(p) \/ (pc[p] = "erase" /\ UNCHANGED <<it[p], cur[p]>>)
<1> USE DEF TypeInv, TypeOK, Goto, locals, Processes
<1>1. ASSUME NEW t \in Processes, NEW c \in Calls, Issue(t, c[1], c[2])
      PROVE  pc[p] = "erase" /\ UNCHANGED <<it[p], cur[p]>>
  BY <1>1, CallsAssumption DEF Issue, FirstStep, Ready
<1>2. ASSUME NEW t \in Processes, CallStep(t)
      PROVE  Copy(p) \/ (pc[p] = "erase" /\ UNCHANGED <<it[p], cur[p]>>)
  BY <1>2 DEF CallStep, Register, Send, Copy, Erase, Expire, Return, Reject
<1>3. CASE MeshStep
  BY <1>3 DEF MeshStep, Store, Notify, EndCallback
<1>4. CASE NewDevice \/ Network
  BY <1>4 DEF NewDevice, Network, Handle, LoseRequest, LoseAnswer
<1>5. ASSUME NEW t \in Processes, FetchUnnamed(t)
      PROVE  pc[p] = "erase" /\ UNCHANGED <<it[p], cur[p]>>
  BY <1>5 DEF FetchUnnamed
<1>6. ASSUME NEW a \in answers, Deliver(a)
      PROVE  pc[p] = "erase" /\ UNCHANGED <<it[p], cur[p]>>
  BY <1>6 DEF Deliver
<1>7. CASE UNCHANGED vars
  BY <1>7 DEF vars
<1> QED
  BY <1>1, <1>2, <1>3, <1>4, <1>5, <1>6, <1>7 DEF Next

\* What Copy saw answered stays so until it is erased.
LEMMA NextAnsweredErased ==
  SameId /\ NotYet /\ AnsweredErased /\ [Next]_vars => AnsweredErased'
<1> SUFFICES ASSUME SameId, NotYet, AnsweredErased, [Next]_vars,
                    NEW p \in Processes, pc'[p] = "erase"
             PROVE  /\ it'[p] # None
                    /\ table'[Key(p)'].node = it'[p] => ~table'[Key(p)'].waiting
  BY DEF AnsweredErased
<1> USE DEF SameId
<1>1. CASE Copy(p)
  <2>1. /\ it'[p] = table[Key(p)].node /\ it'[p] # None
        /\ ~table[Key(p)].waiting /\ UNCHANGED <<table, cur, req>>
    BY <1>1 DEF Copy, TypeInv, TypeOK, manager
  <2> QED
    BY <2>1 DEF Key, Id
<1>2. CASE pc[p] = "erase" /\ UNCHANGED <<it[p], cur[p]>>
  <2>1. cur[p] \in Issued /\ Key(p) \in Ids
    <3>1. cur[p] \in Issued
      BY <1>2 DEF TypeInv, CurIssued, InCall
    <3> QED
      BY <3>1, MaxRequestsAssumption
      DEF TypeInv, TypeOK, Issued, Tickets, Key, Id, Request
  <2>2. Key(p)' = Key(p)
    BY <1>2, <2>1, IdsKept DEF Key
  <2>3. \/ table'[Key(p)] = table[Key(p)]
        \/ ~table'[Key(p)].waiting
        \/ \E u \in Processes : pc[u] = "register" /\ table'[Key(p)].node = cur[u]
    BY <2>1, SlotStep
  <2> QED
    BY <1>2, <2>1, <2>2, <2>3 DEF AnsweredErased, NotYet
<1> QED
  BY <1>1, <1>2, EraseStep

EntryInv == SameId /\ OwnTickets /\ NotYet /\ AnsweredErased

\* Initially there are no entries and no calls.
LEMMA InitEntryInv == Init => EntryInv
<1>1. Init => OwnTickets /\ NotYet /\ AnsweredErased
  BY DEF Init, OwnTickets, NotYet, AnsweredErased, InCall, None
<1> QED
  BY <1>1, InitSameId DEF EntryInv

\* So it is in every behaviour.
LEMMA EntryInvariant == Spec => []EntryInv
<1>1. EntryInv /\ [Next]_vars => EntryInv'
  BY NextSameId, NextOwnTickets, NextNotYet, NextAnsweredErased
  DEF EntryInv, SameId
<1> QED
  BY <1>1, InitEntryInv, PTL DEF Spec

\* An entry that still waits for its answer keeps its place in
\* action_responses: emplace does not displace it, and what a caller erases is
\* the entry it saw answered, never one a later request made under the same id.
THEOREM PendingEntriesKept == Spec => PendingEntryKept
<1>1. EntryInv /\ [Next]_vars =>
        \A i \in Ids : table[i].node # None /\ table[i].waiting
                         => table'[i].node = table[i].node
  <2> SUFFICES ASSUME EntryInv, [Next]_vars, NEW i \in Ids,
                      table[i].node # None, table[i].waiting
               PROVE  table'[i].node = table[i].node
    OBVIOUS
  <2> USE DEF EntryInv, SameId, TypeInv, TypeOK
  <2>1. ASSUME NEW u \in Processes, Register(u)
        PROVE  table'[i].node = table[i].node
    BY <2>1 DEF Register, Emplaced
  <2>2. ASSUME NEW u \in Processes, Erase(u)
        PROVE  table'[i].node = table[i].node
    BY <2>2 DEF Erase, AnsweredErased
  <2>3. CASE Store
    BY <2>3 DEF Store
  <2>4. \/ UNCHANGED table \/ Store
        \/ \E t \in Processes : Register(t) \/ Erase(t)
    BY TableSteps
  <2> QED
    BY <2>1, <2>2, <2>3, <2>4
<1>2. EntryInv /\ [Next]_vars =>
        [\A i \in Ids : table[i].node # None /\ table[i].waiting
                          => table'[i].node = table[i].node]_vars
  BY <1>1
<1> QED
  BY <1>2, EntryInvariant, PTL DEF Spec, PendingEntryKept

-----------------------------------------------------------------------------
(* The record of a call: it is open, and without an answer, until the thread *)
(* that made the call returns from it.                                       *)

\* Thread t returns from its call.
Ends(t) ==
  /\ pc[t] \in {"send", "report", "reject"}
  /\ pc'[t] = "idle"
  /\ req'[cur[t]].done
  /\ req'[cur[t]].from = CASE pc[t] = "report" -> result[t].from
                           [] pc[t] = "reject" -> None
                           [] OTHER            -> req[cur[t]].from

\* Only the thread in a call writes what the call hands out.
LEMMA RecordStep ==
  ASSUME TypeInv, [Next]_vars, NEW n \in Issued
  PROVE  \/ req'[n].done = req[n].done /\ req'[n].from = req[n].from
         \/ \E t \in Processes : n = cur[t] /\ Ends(t)
<1> DEFINE Kept == req'[n].done = req[n].done /\ req'[n].from = req[n].from
<1> USE DEF TypeInv, TypeOK
<1>1. n \in Tickets /\ req[n] \in Request
  BY MaxRequestsAssumption DEF Issued, Tickets
<1>2. ASSUME NEW t \in Processes, NEW c \in Calls, Issue(t, c[1], c[2])
      PROVE  Kept
  <2>1. n # issued
    BY <1>2 DEF Issue, Issued
  <2>2. req'[n] = req[n]
    BY <1>1, <1>2, <2>1 DEF Issue
  <2> QED
    BY <2>2
<1>3. ASSUME NEW m
      PROVE  /\ n # m => [req EXCEPT ![m].done = TRUE][n] = req[n]
             /\ n = m => [req EXCEPT ![m].done = TRUE][n].done
             /\ [req EXCEPT ![m].done = TRUE][n].from = req[n].from
  <2>1. CASE n = m
    BY <1>1, <2>1 DEF Request
  <2>2. CASE n # m
    BY <1>1, <2>2
  <2> QED
    BY <2>1, <2>2
<1>4. ASSUME NEW m
      PROVE  /\ n # m => /\ [req EXCEPT ![m].handled = TRUE][n] = req[n]
                         /\ [req EXCEPT ![m].reports = @ + 1][n] = req[n]
             /\ [req EXCEPT ![m].handled = TRUE][n].done = req[n].done
             /\ [req EXCEPT ![m].handled = TRUE][n].from = req[n].from
             /\ [req EXCEPT ![m].reports = @ + 1][n].done = req[n].done
             /\ [req EXCEPT ![m].reports = @ + 1][n].from = req[n].from
  BY <1>1 DEF Request
<1>5. ASSUME NEW m, NEW x, Finish(m, x)
      PROVE  /\ n # m => req'[n] = req[n]
             /\ n = m => req'[n].done /\ req'[n].from = x
  <2>1. CASE n = m
    BY <1>1, <1>5, <2>1 DEF Finish, Request
  <2>2. CASE n # m
    BY <1>1, <1>5, <2>2 DEF Finish
  <2> QED
    BY <2>1, <2>2
<1>6. ASSUME NEW t \in Processes, Send(t)
      PROVE  Kept \/ (n = cur[t] /\ Ends(t))
  <2>1. CASE UNCHANGED req
    BY <2>1
  <2>2. CASE req' = [req EXCEPT ![cur[t]].done = TRUE] /\ pc'[t] = "idle"
    BY <1>3, <1>6, <2>2 DEF Send, Ends
  <2> QED
    BY <1>6, <2>1, <2>2 DEF Send, Goto
<1>7. ASSUME NEW t \in Processes, Return(t) \/ Reject(t)
      PROVE  Kept \/ (n = cur[t] /\ Ends(t))
  <2>1. CASE Return(t)
    <3>1. pc[t] = "report" /\ pc'[t] = "idle"
      BY <2>1 DEF Return, Goto
    <3>2. UNCHANGED req \/ Finish(cur[t], result[t].from)
      BY <2>1 DEF Return
    <3> QED
      BY <1>5, <3>1, <3>2 DEF Ends
  <2>2. CASE Reject(t)
    <3>1. pc[t] = "reject" /\ pc'[t] = "idle" /\ Finish(cur[t], None)
      BY <2>2 DEF Reject, Goto
    <3> QED
      BY <1>5, <3>1 DEF Ends
  <2> QED
    BY <1>7, <2>1, <2>2
<1>8. ASSUME MeshStep \/ Network PROVE Kept
  <2>1. CASE Store \/ EndCallback
    <3> HIDE DEF Kept, TypeInv, TypeOK
    <3>1. req' = req
      BY <2>1 DEF Store, EndCallback
    <3> QED
      BY <3>1 DEF Kept
  <2>2. CASE Notify
    <3>1. req' = req \/ req' = [req EXCEPT ![it[Net]].reports = @ + 1]
      <4> HIDE DEF Kept, TypeInv, TypeOK
      <4> QED
        BY <2>2 DEF Notify
    <3> QED
      BY <1>4, <3>1
  <2>3. ASSUME NEW m, NEW x, Handle(m, x) PROVE Kept
    BY <1>4, <2>3 DEF Handle
  <2>4. ASSUME NEW m, LoseRequest(m) PROVE Kept
    BY <2>4 DEF LoseRequest
  <2>5. ASSUME NEW a, LoseAnswer(a) PROVE Kept
    BY <2>5 DEF LoseAnswer
  <2> QED
    BY <1>8, <2>1, <2>2, <2>3, <2>4, <2>5, Zenon DEF MeshStep, Network
<1>9. ASSUME UNCHANGED req PROVE Kept
  BY <1>9
<1> HIDE DEF Kept, TypeInv, TypeOK
<1>10. Kept \/ \E t \in Processes : n = cur[t] /\ Ends(t)
  BY <1>2, <1>6, <1>7, <1>8, <1>9
  DEF Next, CallStep, Register, Copy, Erase, Expire, FetchUnnamed, NewDevice,
      Deliver, vars
<1>11. Kept => req'[n].done = req[n].done /\ req'[n].from = req[n].from
  BY DEF Kept
<1> QED
  BY <1>10, <1>11

\* A ticket that is new starts an open call.
LEMMA NewTicket ==
  ASSUME TypeInv, [Next]_vars, NEW n \in Issued', n \notin Issued
  PROVE  n = issued /\ req'[n].from = None /\ ~req'[n].done /\ UNCHANGED table
<1> USE DEF TypeInv, TypeOK
<1>1. ASSUME NEW t \in Processes, NEW c \in Calls, Issue(t, c[1], c[2])
      PROVE  n = issued /\ req'[n].from = None /\ ~req'[n].done
             /\ UNCHANGED table
  BY <1>1, MaxRequestsAssumption DEF Issue, Issued, Tickets
<1>2. \/ UNCHANGED issued
      \/ \E t \in Processes, c \in Calls : Issue(t, c[1], c[2])
  BY DEF Next, CallStep, MeshStep, Network, Register, Send, Copy, Erase, Expire,
         Return, Reject, FetchUnnamed, Deliver, Store, Notify, NewDevice,
         EndCallback, Handle, LoseRequest, LoseAnswer, vars
<1> QED
  BY <1>1, <1>2 DEF Issued

OpenCalls ==
  \A t \in Processes : pc[t] \in InCall =>
    ~req[cur[t]].done /\ req[cur[t]].from = None

\* A call that goes on stays open, and a new one is.
LEMMA NextOpenCalls ==
  TypeInv /\ OwnTickets /\ OpenCalls /\ [Next]_vars => OpenCalls'
<1> SUFFICES ASSUME TypeInv, OwnTickets, OpenCalls, [Next]_vars,
                    NEW p \in Processes, pc'[p] \in InCall
             PROVE  ~req'[cur'[p]].done /\ req'[cur'[p]].from = None
  BY DEF OpenCalls
<1>1. CASE pc[p] \in InCall /\ cur'[p] = cur[p]
  <2>1. cur[p] \in Issued
    BY <1>1 DEF TypeInv, CurIssued
  <2>2. ASSUME NEW t \in Processes, cur[p] = cur[t], Ends(t) PROVE FALSE
    <3>1. t = p
      BY <1>1, <2>2 DEF OwnTickets, Ends, InCall
    <3> QED
      BY <2>2, <3>1 DEF Ends, InCall
  <2> QED
    BY <1>1, <2>1, <2>2, RecordStep DEF OpenCalls
<1>2. ASSUME NEW c \in Calls, Issue(p, c[1], c[2])
      PROVE  ~req'[cur'[p]].done /\ req'[cur'[p]].from = None
  BY <1>2, MaxRequestsAssumption DEF Issue, TypeInv, TypeOK, Tickets
<1> QED
  BY <1>1, <1>2, InCallStep

-----------------------------------------------------------------------------
(* A call that has an answer has erased the entry it found it in.            *)

\* Only Send and Copy write the result of a call.
LEMMA ResultStep ==
  ASSUME TypeInv, [Next]_vars, NEW p \in Processes
  PROVE  Send(p) \/ Copy(p) \/ UNCHANGED result[p]
<1>1. ASSUME NEW t \in Processes, Send(t) \/ Copy(t), t # p
      PROVE  UNCHANGED result[p]
  BY <1>1 DEF Send, Copy, TypeInv, TypeOK
<1>2. UNCHANGED result \/ \E t \in Processes : Send(t) \/ Copy(t)
  BY DEF Next, CallStep, MeshStep, Network, Issue, Register, Erase, Store,
         Expire, Return, Reject, FetchUnnamed, Deliver, Notify, NewDevice,
         EndCallback, Handle, LoseRequest, LoseAnswer, vars, locals
<1> QED
  BY <1>1, <1>2

\* A thread that polls or reports comes from Send, Erase or a turn without an
\* answer.
LEMMA PollStep ==
  ASSUME TypeInv, [Next]_vars, NEW p \in Processes,
         pc'[p] \in {"poll", "report"}
  PROVE  \/ Send(p) /\ result'[p] = NoResult
         \/ Erase(p) /\ UNCHANGED <<result[p], cur[p]>>
         \/ pc[p] \in {"poll", "report"} /\ UNCHANGED <<result[p], cur[p]>>
<1> DEFINE From == \/ Send(p) /\ result'[p] = NoResult
                   \/ Erase(p) /\ UNCHANGED <<result[p], cur[p]>>
                   \/ /\ pc[p] \in {"poll", "report"}
                      /\ UNCHANGED <<result[p], cur[p]>>
<1> USE DEF TypeInv, TypeOK, Goto, locals, Processes
<1>1. ASSUME NEW t \in Processes, NEW c \in Calls, Issue(t, c[1], c[2])
      PROVE  From
  BY <1>1, CallsAssumption DEF Issue, FirstStep, Ready
<1>2. ASSUME NEW t \in Processes, Send(t) PROVE From
  BY <1>2 DEF Send
<1>3. ASSUME NEW t \in Processes, Erase(t) PROVE From
  BY <1>3 DEF Erase
<1>4. ASSUME NEW t \in Processes, CallStep(t) PROVE From
  BY <1>2, <1>3, <1>4 DEF CallStep, Register, Copy, Expire, Return, Reject
<1>5. ASSUME MeshStep PROVE From
  BY <1>5 DEF MeshStep, Store, Notify, EndCallback
<1>6. ASSUME NewDevice \/ Network PROVE From
  BY <1>6 DEF NewDevice, Network, Handle, LoseRequest, LoseAnswer
<1>7. ASSUME NEW t \in Processes, FetchUnnamed(t) PROVE From
  BY <1>7 DEF FetchUnnamed
<1>8. ASSUME NEW a \in answers, Deliver(a) PROVE From
  BY <1>8 DEF Deliver
<1>9. ASSUME UNCHANGED vars PROVE From
  BY <1>9 DEF vars
<1> HIDE DEF From, TypeInv, TypeOK, Goto, locals, Processes
<1>10. From
  BY <1>1, <1>4, <1>5, <1>6, <1>7, <1>8, <1>9 DEF Next
<1> QED
  BY <1>10 DEF From

\* Whoever has an answer has left no entry of its own behind, even if the
\* answer was found in the entry of an earlier request with the same id.
Erased ==
  /\ \A t \in Processes :
       /\ pc[t] = "erase" /\ it[t] # cur[t] => table[Key(t)].node # cur[t]
       /\ pc[t] \in {"poll", "report"} /\ result[t].from # None
            => table[Key(t)].node # cur[t]
  /\ \A n \in Issued : req[n].from # None => table[Id(n)].node # n

\* A request whose call has made its entry gets no other.
LEMMA NodeNotMade ==
  ASSUME TypeInv, OwnTickets, [Next]_vars, NEW i \in Ids, NEW t \in Processes,
         pc[t] \in InCall, pc[t] # "register", table[i].node # cur[t]
  PROVE  table'[i].node # cur[t]
<1>1. cur[t] # None
  BY DEF TypeInv, CurIssued, TypeOK, Issued, None
<1>2. ASSUME NEW u \in Processes, Register(u) PROVE cur[u] # cur[t]
  <2>1. pc[u] = "register"
    BY <1>2 DEF Register
  <2> QED
    BY <2>1 DEF OwnTickets, InCall
<1> QED
  BY <1>1, <1>2, NodeStep

\* Erase leaves no entry of the call, and none is made again.
LEMMA NextErased ==
  TypeInv /\ OwnTickets /\ OpenCalls /\ Erased /\ [Next]_vars => Erased'
<1> SUFFICES ASSUME TypeInv, OwnTickets, OpenCalls, Erased, [Next]_vars
             PROVE  Erased'
  OBVIOUS
<1>1. ASSUME NEW p \in Processes, pc[p] \in InCall, cur'[p] = cur[p]
      PROVE  Key(p)' = Key(p) /\ Key(p) \in Ids
  <2>1. cur[p] \in Issued
    BY <1>1 DEF TypeInv, CurIssued
  <2>2. cur[p] \in Tickets
    BY <2>1, MaxRequestsAssumption DEF TypeInv, TypeOK, Issued, Tickets
  <2> QED
    BY <1>1, <2>1, <2>2, IdsKept DEF Key, Id, TypeInv, TypeOK, Request
<1>2. ASSUME NEW p \in Processes, pc'[p] = "erase", it'[p] # cur'[p]
      PROVE  table'[Key(p)'].node # cur'[p]
  <2>1. pc[p] \in {"poll", "erase"} /\ cur'[p] = cur[p]
    BY <1>2, EraseStep DEF Copy
  <2>2. table[Key(p)].node # cur[p]
    <3>1. CASE Copy(p)
      BY <1>2, <2>1, <3>1 DEF Copy, TypeInv, TypeOK
    <3>2. CASE pc[p] = "erase" /\ UNCHANGED <<it[p], cur[p]>>
      BY <1>2, <3>2 DEF Erased
    <3> QED
      BY <1>2, <3>1, <3>2, EraseStep
  <2> QED
    BY <1>1, <2>1, <2>2, NodeNotMade DEF InCall
<1>3. ASSUME NEW p \in Processes, pc'[p] \in {"poll", "report"},
             result'[p].from # None
      PROVE  table'[Key(p)'].node # cur'[p]
  <2>1. CASE Send(p) /\ result'[p] = NoResult
    BY <1>3, <2>1 DEF NoResult
  <2>2. CASE Erase(p) /\ UNCHANGED <<result[p], cur[p]>>
    <3>1. /\ pc[p] = "erase" /\ pc[p] \in InCall
          /\ Key(p)' = Key(p) /\ Key(p) \in Ids
      BY <1>1, <2>2 DEF Erase, InCall
    <3>2. CASE table' = [table EXCEPT ![Key(p)] = Absent]
      BY <2>2, <3>1, <3>2
      DEF Absent, TypeInv, TypeOK, CurIssued, Issued, None
    <3>3. CASE table[Key(p)].node # it[p] /\ UNCHANGED table
      BY <2>2, <3>1, <3>3 DEF Erased
    <3> QED
      BY <2>2, <3>2, <3>3 DEF Erase
  <2>3. CASE /\ pc[p] \in {"poll", "report"}
             /\ UNCHANGED <<result[p], cur[p]>>
    BY <1>1, <1>3, <2>3, NodeNotMade DEF Erased, InCall
  <2> QED
    BY <1>3, <2>1, <2>2, <2>3, PollStep
<1>4. ASSUME NEW n \in Issued', req'[n].from # None
      PROVE  table'[Id(n)'].node # n
  <2>1. n \in Issued
    BY <1>4, NewTicket
  <2>2. Id(n)' = Id(n) /\ Id(n) \in Ids
    BY <2>1, IdsKept, MaxRequestsAssumption
    DEF Id, Issued, TypeInv, TypeOK, Tickets, Request
  <2>3. CASE req'[n].from = req[n].from
    <3>1. table[Id(n)].node # n /\ n # None
      BY <1>4, <2>1, <2>3 DEF Erased, TypeInv, TypeOK, Issued, None
    <3>2. ASSUME NEW u \in Processes, Register(u) PROVE cur[u] # n
      BY <1>4, <2>3, <3>2 DEF OpenCalls, Register, InCall
    <3> QED
      BY <2>2, <3>1, <3>2, NodeStep
  <2>4. ASSUME NEW t \in Processes, n = cur[t], Ends(t)
        PROVE  table'[Id(n)'].node # n
    <3>1. pc[t] = "report" /\ result[t].from # None
      BY <1>4, <2>4 DEF Ends, OpenCalls, InCall
    <3>2. table[Key(t)].node # cur[t]
      BY <3>1 DEF Erased
    <3> QED
      BY <2>2, <2>4, <3>1, <3>2, NodeNotMade DEF Key, InCall
  <2> QED
    BY <2>1, <2>3, <2>4, RecordStep
<1> QED
  BY <1>2, <1>3, <1>4 DEF Erased

CallInv == TypeInv /\ OwnTickets /\ OpenCalls /\ Erased

\* So it is in every behaviour.
LEMMA CallInvariant == Spec => []CallInv
<1>1. Init => CallInv
  BY InitTypeInv
  DEF Init, CallInv, OwnTickets, OpenCalls, Erased, InCall, Issued
<1>2. CallInv /\ [Next]_vars => CallInv'
  BY NextTypeInv, NextOwnTickets, NextOpenCalls, NextErased DEF CallInv
<1> QED
  BY <1>1, <1>2, PTL DEF Spec

\* A synchronous call that returns an answer has erased the entry it made: the
\* entry is not left to meet the next request with that id.
THEOREM AnsweredEntriesErased == Spec => []AnsweredEntryErased
<1>1. CallInv => AnsweredEntryErased
  BY DEF CallInv, Erased, AnsweredEntryErased, TypeInv, TypeOK, Issued, None
<1> QED
  BY <1>1, CallInvariant, PTL

-----------------------------------------------------------------------------
(* The mesh thread stores answers only between its own calls.                *)

\* The call the mesh thread is in has no answer anywhere, and so ended each of
\* its calls.
NetUnanswered ==
  /\ pc[Net] \in InCall => \A i \in Ids : table[i].from # cur[Net]
  /\ pc[Net] \in {"poll", "erase", "report"} => result[Net].from # cur[Net]
  /\ \A n \in Issued : req[n].by = Net => req[n].from # n

\* While the mesh thread is in a call it stores nothing.
LEMMA NextNetUnanswered ==
  SameId /\ OwnTickets /\ NetUnanswered /\ [Next]_vars => NetUnanswered'
<1> SUFFICES ASSUME SameId, OwnTickets, NetUnanswered, [Next]_vars
             PROVE  NetUnanswered'
  OBVIOUS
<1>1. Net \in Processes /\ TypeInv
  BY DEF Processes, SameId
<1>2. ASSUME pc'[Net] \in InCall, NEW i \in Ids
      PROVE  table'[i].from # cur'[Net]
  <2>1. CASE pc[Net] \in InCall /\ cur'[Net] = cur[Net]
    <3>1. cur[Net] # None /\ ~Store
      BY <1>1, <2>1 DEF TypeInv, TypeOK, CurIssued, Issued, None, InCall, Store
    <3>2. ASSUME NEW u \in Processes, Register(u) \/ Erase(u)
          PROVE  table'[i].from \in {table[i].from, None}
      BY <1>1, <3>2 DEF Register, Emplaced, Fresh, Erase, Absent, TypeInv, TypeOK
    <3> QED
      BY <2>1, <3>1, <3>2, TableSteps DEF NetUnanswered
  <2>2. ASSUME NEW c \in Calls, Issue(Net, c[1], c[2])
        PROVE  table'[i].from # cur'[Net]
    <3>1. cur'[Net] = issued /\ UNCHANGED table
      BY <1>1, <2>2 DEF Issue, TypeInv, TypeOK
    <3>2. issued \notin Issued /\ issued # None
      BY <1>1 DEF TypeInv, TypeOK, Issued, None
    <3> QED
      BY <3>1, <3>2 DEF SameId, TableUnder, Under
  <2> QED
    BY <1>1, <1>2, <2>1, <2>2, InCallStep
<1>3. ASSUME pc'[Net] \in {"poll", "erase", "report"}
      PROVE  result'[Net].from # cur'[Net]
  <2>1. CASE Send(Net) /\ result'[Net] = NoResult
    <3>1. cur'[Net] # None
      BY <1>1, <2>1 DEF Send, TypeInv, TypeOK, CurIssued, InCall, Issued, None
    <3> QED
      BY <2>1, <3>1 DEF NoResult
  <2>2. CASE Copy(Net)
    <3>1. cur[Net] \in Tickets
      BY <1>1, <2>2, MaxRequestsAssumption
      DEF Copy, TypeInv, TypeOK, CurIssued, InCall, Issued, Tickets
    <3>2. Key(Net) \in Ids
      BY <1>1, <3>1 DEF Key, Id, TypeInv, TypeOK, Request
    <3> QED
      BY <1>1, <2>2, <3>2
      DEF Copy, NetUnanswered, InCall, TypeInv, TypeOK
  <2>3. CASE /\ pc[Net] \in {"poll", "erase", "report"}
             /\ UNCHANGED <<result[Net], cur[Net]>>
    BY <2>3 DEF NetUnanswered
  <2>4. pc'[Net] = "erase" => Copy(Net) \/ UNCHANGED result[Net]
    BY <1>1, ResultStep DEF Send, Goto, TypeInv, TypeOK
  <2> QED
    BY <1>1, <1>3, <2>1, <2>2, <2>3, <2>4, PollStep, EraseStep DEF Erase
<1>4. ASSUME NEW n \in Issued', req'[n].by = Net
      PROVE  req'[n].from # n
  <2>1. CASE n \notin Issued
    BY <1>1, <2>1, NewTicket DEF TypeInv, TypeOK, None
  <2>2. CASE n \in Issued
    <3>1. req[n].by = Net /\ n # None
      BY <1>1, <1>4, <2>2, CallersKept DEF TypeInv, TypeOK, Issued, None
    <3>2. CASE req'[n].from = req[n].from
      BY <2>2, <3>1, <3>2 DEF NetUnanswered
    <3>3. ASSUME NEW t \in Processes, n = cur[t], Ends(t)
          PROVE  req'[n].from # n
      <4>1. t = Net
        BY <3>1, <3>3 DEF OwnTickets, Ends, InCall
      <4> QED
        BY <2>2, <3>1, <3>3, <4>1 DEF Ends, NetUnanswered
    <3> QED
      BY <1>1, <2>2, <3>2, <3>3, RecordStep
  <2> QED
    BY <2>1, <2>2
<1> QED
  BY <1>2, <1>3, <1>4 DEF NetUnanswered

\* A synchronous call made from inside a callback ends without its answer: the
\* mesh thread, which alone could store it, is the one that waits for it.  What
\* it may find is the answer to another request with the same id.
THEOREM CallsInCallbacksTimeOut == Spec => []CallInCallbackTimesOut
<1> DEFINE Inv == SameId /\ OwnTickets /\ NetUnanswered
<1>1. Init => Inv
  BY InitSameId
  DEF Init, OwnTickets, NetUnanswered, InCall, Issued, Processes
<1>2. Inv /\ [Next]_vars => Inv'
  BY NextSameId, NextOwnTickets, NextNetUnanswered DEF SameId
<1>3. Inv => CallInCallbackTimesOut
  BY DEF SameId, HistoryUnder, Under, NetUnanswered, CallInCallbackTimesOut,
         IdReused
<1> HIDE DEF Inv
<1> QED
  BY <1>1, <1>2, <1>3, PTL DEF Spec

-----------------------------------------------------------------------------
(* Without copies made by the network a request has one answer at most, and  *)
(* is in one place at a time: not yet sent, on its way, or answered.         *)

\* The mesh thread comes to store from Deliver.
LEMMA StoreStep ==
  ASSUME TypeInv, [Next]_vars, pc'[Net] = "store"
  PROVE  \/ pc[Net] = "store" /\ packet' = packet
         \/ \E a \in answers : Deliver(a) /\ packet' = a
<1> DEFINE From == \/ pc[Net] = "store" /\ packet' = packet
                   \/ \E a \in answers : Deliver(a) /\ packet' = a
<1> USE DEF TypeInv, TypeOK, Goto, locals, Processes
<1>1. ASSUME NEW t \in Processes, NEW c \in Calls, Issue(t, c[1], c[2])
      PROVE  From
  BY <1>1 DEF Issue, FirstStep
<1>2. ASSUME NEW t \in Processes, CallStep(t) PROVE From
  BY <1>2 DEF CallStep, Register, Send, Copy, Erase, Expire, Return, Reject
<1>3. ASSUME MeshStep \/ NewDevice PROVE From
  BY <1>3 DEF MeshStep, Store, Notify, EndCallback, NewDevice
<1>4. ASSUME Network PROVE From
  BY <1>4 DEF Network, Handle, LoseRequest, LoseAnswer
<1>5. ASSUME NEW t \in Processes, FetchUnnamed(t) PROVE From
  BY <1>5 DEF FetchUnnamed
<1>6. ASSUME NEW a \in answers, Deliver(a) PROVE From
  BY <1>6 DEF Deliver
<1>7. ASSUME UNCHANGED vars PROVE From
  BY <1>7 DEF vars
<1> HIDE DEF From, TypeInv, TypeOK, Goto, locals, Processes
<1>8. From
  BY <1>1, <1>2, <1>3, <1>4, <1>5, <1>6, <1>7 DEF Next
<1> QED
  BY <1>8 DEF From

\* handle_packet has taken an answer to x.
Taken(x) ==
  \/ pc[Net] = "store" /\ packet.ticket = x
  \/ \E i \in Ids : table[i].from = x

Answered(x) == Taken(x) \/ \E a \in answers : a.ticket = x

Sent(x) == x \in requests \/ Answered(x)

OneAnswer ==
  /\ \A t \in Processes : pc[t] \in {"register", "send"} => ~Sent(cur[t])
  /\ \A x \in requests : ~Answered(x)
  /\ \A a \in answers : ~Taken(a.ticket)
  /\ \A a, b \in answers : a.ticket = b.ticket => a = b

\* An answer is taken by Deliver.
LEMMA TakenStep ==
  ASSUME TypeInv, [Next]_vars, NEW x \in Tickets, Taken(x)'
  PROVE  Taken(x) \/ \E a \in answers : Deliver(a) /\ a.ticket = x
<1>1. CASE pc'[Net] = "store" /\ packet'.ticket = x
  BY <1>1, StoreStep DEF Taken
<1>2. ASSUME NEW i \in Ids, table'[i].from = x PROVE Taken(x)
  <2>1. x # None
    BY MaxRequestsAssumption DEF Tickets, None
  <2>2. ASSUME NEW u \in Processes, Register(u) \/ Erase(u)
        PROVE  table'[i].from \in {table[i].from, None}
    BY <2>2 DEF Register, Emplaced, Fresh, Erase, Absent, TypeInv, TypeOK
  <2>3. CASE Store
    BY <1>2, <2>3 DEF Store, Taken, TypeInv, TypeOK
  <2> QED
    BY <1>2, <2>1, <2>2, <2>3, TableSteps DEF Taken
<1> QED
  BY <1>1, <1>2 DEF Taken

\* Answers are made by Handle, and Deliver takes the only copy.
LEMMA AnswersStep ==
  ASSUME Copies = 0, TypeInv, [Next]_vars
  PROVE  /\ \A a \in answers : Deliver(a) => answers' = answers \ {a}
         /\ \/ answers' \subseteq answers
            \/ \E n \in requests, s \in Statuses : Handle(n, s)
<1>1. ASSUME NEW a \in answers, Deliver(a) PROVE answers' = answers \ {a}
  <2>1. {a.copies - 1} \cap Nat = {}
    BY DEF TypeInv, TypeOK, Answer
  <2>2. answers' = (answers \ {a}) \cup
                     {[a EXCEPT !.copies = k] : k \in {a.copies - 1} \cap Nat}
    BY <1>1, Zenon DEF Deliver
  <2> QED
    BY <2>1, <2>2, Zenon
<1>2. \/ answers' \subseteq answers \/ \E a \in answers : Deliver(a)
      \/ \E n \in requests, s \in Statuses : Handle(n, s)
  BY DEF Next, CallStep, MeshStep, Network, Issue, Register, Copy, Erase,
         Expire, Return, Reject, Send, FetchUnnamed, Store, Notify, NewDevice,
         EndCallback, LoseRequest, LoseAnswer, vars, wire
<1> QED
  BY <1>1, <1>2

\* Requests are sent by Send.
LEMMA RequestsStep ==
  ASSUME [Next]_vars, NEW x \in requests', x \notin requests
  PROVE  \E t \in Processes : Send(t) /\ x = cur[t]
  BY DEF Next, CallStep, MeshStep, Network, Issue, Register, Copy, Erase, Send,
         Expire, Return, Reject, FetchUnnamed, Deliver, Store, Notify, NewDevice,
         EndCallback, Handle, LoseRequest, LoseAnswer, vars, wire

\* Only an unsent request is sent, and only a sent one is answered.
LEMMA SentStep ==
  ASSUME Copies = 0, TypeInv, [Next]_vars, NEW x \in Tickets
  PROVE  /\ Answered(x)' => Answered(x)
              \/ (x \in requests /\ x \notin requests')
         /\ Sent(x)' => Sent(x) \/ \E t \in Processes : Send(t) /\ x = cur[t]
<1>1. ASSUME NEW n \in requests, NEW s \in Statuses, Handle(n, s)
      PROVE  /\ n \notin requests'
             /\ \A a \in answers' : a \in answers \/ a.ticket = n
  BY <1>1 DEF Handle
<1>2. Answered(x)' => Answered(x) \/ (x \in requests /\ x \notin requests')
  BY <1>1, AnswersStep, TakenStep DEF Answered
<1> QED
  BY <1>2, RequestsStep DEF Sent

\* Each step moves a request on from one place to the next.
LEMMA NextOneAnswer ==
  ASSUME Copies = 0
  PROVE  SameId /\ OwnTickets /\ OneAnswer /\ [Next]_vars => OneAnswer'
<1> SUFFICES ASSUME SameId, OwnTickets, OneAnswer, [Next]_vars
             PROVE  OneAnswer'
  OBVIOUS
<1>1. /\ TypeInv /\ requests' \subseteq Tickets
      /\ \A x \in Issued : x \in Tickets
      /\ \A a \in answers \cup answers' : a.ticket \in Tickets
  BY NextTypeInv, MaxRequestsAssumption
  DEF SameId, TypeInv, TypeOK, Answer, Issued, Tickets
<1>2. ASSUME NEW p \in Processes, pc'[p] \in {"register", "send"}
      PROVE  ~Sent(cur[p])'
  <2> PICK x : x = cur'[p]
    OBVIOUS
  <2>1. x \in Tickets
    BY <1>1, <1>2, NextTypeInv, MaxRequestsAssumption
    DEF TypeInv, TypeOK, CurIssued, InCall, Issued, Tickets
  <2>2. CASE pc[p] \in {"register", "send"} /\ cur'[p] = cur[p]
    <3>1. ASSUME NEW t \in Processes, Send(t) PROVE x # cur[t]
      <4>1. pc[t] = "send" /\ pc'[t] \in {"poll", "idle"}
        BY <1>1, <3>1 DEF Send, Goto, TypeInv, TypeOK
      <4> QED
        BY <1>2, <2>2, <4>1 DEF OwnTickets, InCall
    <3>2. ~Sent(x)
      BY <2>2 DEF OneAnswer
    <3>3. ~Sent(x)'
      BY <1>1, <2>1, <3>1, <3>2, SentStep
    <3> QED
      BY <3>3 DEF Sent, Answered, Taken
  <2>3. ASSUME NEW c \in Calls, Issue(p, c[1], c[2]) PROVE ~Sent(cur[p])'
    <3>1. x = issued /\ x \notin Issued /\ x # None
      BY <1>1, <2>3 DEF Issue, TypeInv, TypeOK, Issued, None
    <3>2. UNCHANGED <<requests, answers, table, packet>>
          /\ (pc'[Net] = "store" => pc[Net] = "store")
      BY <1>1, <1>2, <2>3 DEF Issue, wire, Goto, TypeInv, TypeOK, Processes
    <3>3. ~Sent(x)
      BY <3>1 DEF Sent, Answered, Taken, SameId, WireIssued, PacketUnder,
                  TableUnder, Under
    <3> QED
      BY <3>2, <3>3 DEF Sent, Answered, Taken
  <2> QED
    BY <1>1, <1>2, <2>2, <2>3, InCallStep DEF InCall
<1>3. ASSUME NEW x \in requests' PROVE ~Answered(x)'
  <2>1. CASE x \in requests
    BY <1>1, <2>1, SentStep DEF OneAnswer
  <2>2. ASSUME NEW t \in Processes, Send(t), x = cur[t] PROVE ~Answered(x)
    BY <2>2 DEF Send, OneAnswer, Sent
  <2> QED
    BY <1>1, <2>1, <2>2, SentStep, RequestsStep
<1>4. ASSUME NEW n \in requests, NEW s \in Statuses, Handle(n, s)
      PROVE  /\ \A a \in answers' : ~Taken(a.ticket)'
             /\ \A a, b \in answers' : a.ticket = b.ticket => a = b
  <2> DEFINE new == [ticket |-> n, status |-> s, copies |-> Copies]
  <2>1. answers' = answers \cup {new} /\ UNCHANGED <<pc, packet, table>>
    BY <1>4 DEF Handle, manager, locals
  <2>2. new.ticket = n /\ ~Taken(n) /\ \A a \in answers : a.ticket # n
    BY DEF OneAnswer, Answered
  <2>3. ASSUME NEW x PROVE Taken(x)' <=> Taken(x)
    BY <2>1 DEF Taken
  <2> HIDE DEF new
  <2>4. ASSUME NEW a \in answers' PROVE ~Taken(a.ticket)'
    <3> PICK x : x = a.ticket
      OBVIOUS
    <3>1. ~Taken(x)
      BY <2>1, <2>2, <2>4 DEF OneAnswer
    <3> QED
      BY <2>3, <3>1
  <2> QED
    BY <2>1, <2>2, <2>4 DEF OneAnswer
<1>5. ASSUME answers' \subseteq answers
      PROVE  /\ \A a \in answers' : ~Taken(a.ticket)'
             /\ \A a, b \in answers' : a.ticket = b.ticket => a = b
  <2>1. ASSUME NEW a \in answers' PROVE ~Taken(a.ticket)'
    <3> PICK x : x = a.ticket
      OBVIOUS
    <3>1. ASSUME NEW b \in answers, Deliver(b) PROVE b.ticket # x
      BY <1>1, <1>5, <2>1, <3>1, AnswersStep DEF OneAnswer
    <3> QED
      BY <1>1, <1>5, <2>1, <3>1, TakenStep DEF OneAnswer
  <2> QED
    BY <1>5, <2>1 DEF OneAnswer
<1> QED
  BY <1>1, <1>2, <1>3, <1>4, <1>5, AnswersStep DEF OneAnswer

\* An entry that waits no more holds an answer.
AnsweredHolds ==
  \A i \in Ids : table[i].node # None /\ ~table[i].waiting
                  => table[i].from # None

\* Store, which ends the waiting, leaves an answer.
LEMMA NextAnsweredHolds == SameId /\ AnsweredHolds /\ [Next]_vars => AnsweredHolds'
<1> SUFFICES ASSUME SameId, AnsweredHolds, [Next]_vars, NEW i \in Ids,
                    table'[i].node # None, ~table'[i].waiting
             PROVE  table'[i].from # None
  BY DEF AnsweredHolds
<1> USE DEF SameId, TypeInv, TypeOK
<1>1. ASSUME NEW u \in Processes, Register(u) \/ Erase(u)
      PROVE  table'[i] = table[i]
  BY <1>1 DEF Register, Emplaced, Fresh, Erase, Absent
<1>2. CASE Store
  <2>1. packet.ticket # None
    BY <1>2 DEF Store, PacketUnder, Issued, None
  <2> QED
    BY <1>2, <2>1 DEF Store, AnsweredHolds
<1> QED
  BY <1>1, <1>2, TableSteps DEF AnsweredHolds

\* assert(data->second.is_waiting) has failed only after an id came round.
AssertedAfterReuse ==
  fate = "assertion_failed" => \E n \in Issued : IdReused(n)

\* Two answers meet in one entry only under one id.
LEMMA NextAssertedAfterReuse ==
  ASSUME Copies = 0
  PROVE  /\ SameId /\ OneAnswer /\ AnsweredHolds /\ AssertedAfterReuse
         /\ [Next]_vars
         => AssertedAfterReuse'
<1> SUFFICES ASSUME SameId, OneAnswer, AnsweredHolds, AssertedAfterReuse,
                    [Next]_vars, fate' = "assertion_failed"
             PROVE  \E n \in Issued : IdReused(n)
  BY IdsKept DEF AssertedAfterReuse, IdReused, SameId
<1>1. ASSUME NEW a \in answers, Deliver(a), fate # "assertion_failed"
      PROVE  IdReused(a.ticket) /\ a.ticket \in Issued
  <2>1. a.ticket \in Issued /\ Id(a.ticket) \in Ids
    BY MaxRequestsAssumption
    DEF SameId, WireIssued, Id, TypeInv, TypeOK, Issued, Tickets, Request
  <2> PICK slot : slot = table[Id(a.ticket)]
    OBVIOUS
  <2>2. slot.node # None /\ ~slot.waiting
    BY <1>1 DEF Deliver
  <2>3. Under(Id(a.ticket), slot.from)
    BY <2>1, <2>2 DEF AnsweredHolds, SameId, TableUnder
  <2>4. slot.from # a.ticket
    BY <2>1 DEF OneAnswer, Taken
  <2> QED
    BY <2>1, <2>3, <2>4 DEF IdReused, Under
<1>2. fate = "assertion_failed" \/ \E a \in answers : Deliver(a)
  BY DEF Next, CallStep, MeshStep, Network, Issue, Register, Copy, Erase, Send,
         Expire, Return, Reject, FetchUnnamed, Store, Notify, NewDevice,
         EndCallback, Handle, LoseRequest, LoseAnswer, vars
<1> QED
  BY <1>1, <1>2 DEF AssertedAfterReuse

\* assert(data->second.is_waiting) fails only if the network copied an answer
\* or an id came round: entries are made before their request is sent, so an
\* answer that meets an entry already answered is not the first of its id.
THEOREM AssertionsNeedReuseOrCopy == Spec => []AssertionNeedsReuseOrCopy
<1> DEFINE Inv == SameId /\ OwnTickets /\ OneAnswer /\ AnsweredHolds
                  /\ AssertedAfterReuse
<1>1. CASE Copies = 0
  <2>1. Init => Inv
    BY InitSameId
    DEF Init, OwnTickets, OneAnswer, Taken, AnsweredHolds, AssertedAfterReuse,
        InCall, Absent, Processes
  <2>2. Inv /\ [Next]_vars => Inv'
    BY <1>1, NextSameId, NextOwnTickets, NextOneAnswer, NextAnsweredHolds,
       NextAssertedAfterReuse DEF SameId
  <2>3. Inv => AssertionNeedsReuseOrCopy
    BY DEF AssertedAfterReuse, AssertionNeedsReuseOrCopy
  <2> HIDE DEF Inv
  <2> QED
    BY <2>1, <2>2, <2>3, PTL DEF Spec
<1>2. CASE Copies # 0
  <2>1. AssertionNeedsReuseOrCopy
    BY <1>2, CopiesAssumption DEF AssertionNeedsReuseOrCopy
  <2> QED
    BY <2>1, PTL
<1> QED
  BY <1>1, <1>2

-----------------------------------------------------------------------------
(* action_callback runs once for an entry.  A request is reported by its own *)
(* caller or by the mesh thread, and the mesh thread reports an entry only   *)
(* after finding it waiting, which it does once.                             *)

\* A request keeps its mode.
LEMMA ModesKept ==
  TypeInv /\ [Next]_vars => \A x \in Issued : req'[x].mode = req[x].mode
<1> SUFFICES ASSUME TypeInv, [Next]_vars, NEW x \in Issued
             PROVE  req'[x].mode = req[x].mode
  OBVIOUS
<1> USE DEF TypeInv, TypeOK, Issued, Tickets
<1>1. x \in Tickets /\ req[x] \in Request
  BY MaxRequestsAssumption
<1>2. ASSUME NEW t \in Processes, NEW c \in Calls, Issue(t, c[1], c[2])
      PROVE  req'[x].mode = req[x].mode
  BY <1>1, <1>2 DEF Issue
<1>3. ASSUME NEW n, NEW from, Finish(n, from)
      PROVE  req'[x].mode = req[x].mode
  BY <1>1, <1>3 DEF Finish, Request
<1>4. ASSUME NEW n
      PROVE  /\ [req EXCEPT ![n].done = TRUE][x].mode = req[x].mode
             /\ [req EXCEPT ![n].handled = TRUE][x].mode = req[x].mode
             /\ [req EXCEPT ![n].reports = @ + 1][x].mode = req[x].mode
  BY <1>1 DEF Request
<1>5. ASSUME NEW t \in Processes, CallStep(t) PROVE req'[x].mode = req[x].mode
  BY <1>3, <1>4, <1>5
  DEF CallStep, Register, Send, Copy, Erase, Expire, Return, Reject
<1>6. CASE MeshStep \/ Network
  BY <1>4, <1>6 DEF MeshStep, Store, Notify, EndCallback, Network, LoseRequest,
                    LoseAnswer, Handle
<1>7. CASE UNCHANGED req
  BY <1>7
<1> QED
  BY <1>2, <1>5, <1>6, <1>7 DEF Next, FetchUnnamed, NewDevice, Deliver, vars

\* The way of each kind of call through the API.
CallModes ==
  \A t \in Processes :
    /\ pc[t] = "register" => req[cur[t]].mode \in {"async", "sync"}
    /\ pc[t] = "send" => req[cur[t]].mode # "unnamed"
    /\ pc[t] \in {"poll", "erase", "report"} => req[cur[t]].mode = "sync"
    /\ pc[t] = "reject" => req[cur[t]].mode = "unnamed"

\* Where a thread that goes on with its call may come from.
WayOn(p) ==
  /\ pc[p] \in InCall /\ cur'[p] = cur[p]
  /\ pc'[p] = "register" => pc[p] = "register"
  /\ pc'[p] = "send" => pc[p] \in {"register", "send"}
  /\ pc'[p] \in {"poll", "erase", "report"} =>
       \/ pc[p] \in {"poll", "erase", "report"}
       \/ pc[p] = "send" /\ req[cur[p]].mode = "sync"
  /\ pc'[p] = "reject" => pc[p] = "reject"

\* Every thread in a call follows it, or has just begun.
LEMMA WayOnStep ==
  ASSUME TypeInv, [Next]_vars, NEW p \in Processes, pc'[p] \in InCall
  PROVE  WayOn(p) \/ \E c \in Calls : Issue(p, c[1], c[2])
<1> USE DEF TypeInv, TypeOK, Goto, locals, Processes, InCall
<1>1. ASSUME NEW t \in Processes, NEW c \in Calls, Issue(t, c[1], c[2])
      PROVE  WayOn(p) \/ \E d \in Calls : Issue(p, d[1], d[2])
  BY <1>1 DEF Issue, WayOn
<1>2. ASSUME NEW t \in Processes, CallStep(t) PROVE WayOn(p)
  BY <1>2 DEF CallStep, Register, Send, Copy, Erase, Expire, Return, Reject, WayOn
<1>3. ASSUME MeshStep PROVE WayOn(p)
  BY <1>3 DEF MeshStep, Store, Notify, EndCallback, WayOn
<1>4. ASSUME NewDevice \/ Network PROVE WayOn(p)
  BY <1>4 DEF NewDevice, Network, Handle, LoseRequest, LoseAnswer, WayOn
<1>5. ASSUME NEW t \in Processes, FetchUnnamed(t) PROVE WayOn(p)
  BY <1>5 DEF FetchUnnamed, WayOn
<1>6. ASSUME NEW a \in answers, Deliver(a) PROVE WayOn(p)
  BY <1>6 DEF Deliver, WayOn
<1>7. ASSUME UNCHANGED vars PROVE WayOn(p)
  BY <1>7 DEF vars, WayOn
<1> HIDE DEF TypeInv, TypeOK, Goto, locals, Processes, InCall
<1> QED
  BY <1>1, <1>2, <1>3, <1>4, <1>5, <1>6, <1>7 DEF Next

\* FirstStep and Send choose the way by the mode, which stays.
LEMMA NextCallModes == TypeInv /\ CallModes /\ [Next]_vars => CallModes'
<1> SUFFICES ASSUME TypeInv, CallModes, [Next]_vars, NEW p \in Processes
             PROVE  /\ pc'[p] = "register" => req'[cur'[p]].mode \in {"async", "sync"}
                    /\ pc'[p] = "send" => req'[cur'[p]].mode # "unnamed"
                    /\ pc'[p] \in {"poll", "erase", "report"}
                         => req'[cur'[p]].mode = "sync"
                    /\ pc'[p] = "reject" => req'[cur'[p]].mode = "unnamed"
  BY DEF CallModes
<1>1. CASE WayOn(p)
  <2>1. cur'[p] = cur[p] /\ req'[cur[p]].mode = req[cur[p]].mode
    BY <1>1, ModesKept DEF WayOn, TypeInv, CurIssued
  <2> QED
    BY <1>1, <2>1 DEF WayOn, CallModes
<1>2. ASSUME NEW c \in Calls, Issue(p, c[1], c[2])
      PROVE  /\ req'[cur'[p]].mode = c[2] /\ c[2] \in Modes
             /\ pc'[p] = FirstStep(c[2])
  <2>1. c[2] \in Modes
    BY CallsAssumption
  <2>2. cur'[p] = issued /\ issued \in Tickets
    BY <1>2, MaxRequestsAssumption DEF Issue, TypeInv, TypeOK, Tickets
  <2>3. req'[issued].mode = c[2]
    BY <1>2, <2>2 DEF Issue, TypeInv, TypeOK
  <2> QED
    BY <1>2, <2>1, <2>2, <2>3 DEF Issue, Goto, TypeInv, TypeOK
<1>3. CASE \E c \in Calls : Issue(p, c[1], c[2])
  BY <1>2, <1>3 DEF FirstStep, Modes
<1>4. CASE pc'[p] \notin InCall
  BY <1>4 DEF InCall
<1> QED
  BY <1>1, <1>3, <1>4, WayOnStep

\* Entries, and iterators, are of requests that make one.
EntryModes ==
  /\ \A i \in Ids : table[i].node # None => req[table[i].node].mode \in {"async", "sync"}
  /\ \A t \in Processes : it[t] # None => req[it[t]].mode \in {"async", "sync"}

\* Only Register makes them.
LEMMA NextEntryModes ==
  SameId /\ NotYet /\ CallModes /\ EntryModes /\ [Next]_vars => EntryModes'
<1> SUFFICES ASSUME SameId, NotYet, CallModes, EntryModes, [Next]_vars PROVE EntryModes'
  OBVIOUS
<1>1. \A i \in Ids : table[i].node # None => table[i].node \in Issued
  BY DEF SameId, TableUnder, Under
<1>2. \A x \in Issued : req'[x].mode = req[x].mode
  BY ModesKept DEF SameId
<1>3. ASSUME NEW i \in Ids, table'[i].node # None
      PROVE  req'[table'[i].node].mode \in {"async", "sync"}
  <2>1. CASE table'[i].node = table[i].node
    BY <1>1, <1>2, <1>3, <2>1 DEF EntryModes
  <2>2. ASSUME NEW u \in Processes, Register(u), table'[i].node = cur[u]
        PROVE  req'[cur[u]].mode \in {"async", "sync"}
    <3>1. cur[u] \in Issued /\ req[cur[u]].mode \in {"async", "sync"}
      BY <2>2 DEF Register, CallModes, SameId, TypeInv, CurIssued, InCall
    <3> QED
      BY <1>2, <3>1
  <2> QED
    BY <1>3, <2>1, <2>2, NodeStep DEF SameId
<1>4. ASSUME NEW t \in Processes, it'[t] # None
      PROVE  req'[it'[t]].mode \in {"async", "sync"}
  <2>1. CASE it'[t] = it[t]
    BY <1>2, <1>4, <2>1 DEF EntryModes, NotYet
  <2>2. CASE \E i \in Ids : it'[t] = table[i].node /\ table[i].node # None
    BY <1>1, <1>2, <2>2 DEF EntryModes
  <2> QED
    BY <2>1, <2>2, IteratorStep
<1> QED
  BY <1>3, <1>4 DEF EntryModes

\* How often the caller of a request has reported it, and how often the mesh
\* thread has.
CallerReports(r) ==
  IF Callback # "unset" /\ r.done /\ r.mode \in {"sync", "unnamed"} THEN 1 ELSE 0

MeshReports(n) == req[n].reports - CallerReports(req[n])

\* handle_packet runs action_callback on the entry of n.
Notified(n) ==
  /\ pc[Net] = "notify" /\ n = it[Net]
  /\ pc'[Net] = "callback" /\ UNCHANGED <<table, cur>>
  /\ \A t \in Processes : t # Net => pc'[t] = pc[t]

\* Nothing else adds to the reports of the mesh thread.
LEMMA ReportStep ==
  ASSUME TypeInv, CallModes, OpenCalls, [Next]_vars, NEW n \in Issued
  PROVE  \/ MeshReports(n)' = MeshReports(n)
         \/ Notified(n) /\ MeshReports(n)' = MeshReports(n) + 1
<1> USE DEF TypeInv, TypeOK
<1>1. n \in Tickets /\ req[n] \in Request
  BY MaxRequestsAssumption DEF Issued, Tickets
<1>2. /\ req[n].reports \in Nat /\ req[n].done \in BOOLEAN
      /\ CallerReports(req[n]) \in Nat
  BY <1>1 DEF Request, CallerReports
<1>3. ASSUME req'[n] = req[n] PROVE MeshReports(n)' = MeshReports(n)
  BY <1>3 DEF MeshReports
<1>4. ASSUME req'[n].reports = req[n].reports,
             CallerReports(req'[n]) = CallerReports(req[n])
      PROVE  MeshReports(n)' = MeshReports(n)
  BY <1>4 DEF MeshReports
<1>5. ASSUME NEW t \in Processes, NEW c \in Calls, Issue(t, c[1], c[2])
      PROVE  req'[n] = req[n]
  <2>1. n # issued
    BY <1>5 DEF Issue, Issued
  <2> QED
    BY <1>1, <1>5, <2>1 DEF Issue
<1>6. ASSUME NEW t \in Processes, Send(t) PROVE MeshReports(n)' = MeshReports(n)
  <2>1. CASE req'[n] = req[n]
    BY <1>3, <2>1
  <2>2. CASE n = cur[t] /\ req[n].mode # "sync"
    <3>1. req'[n] = [req[n] EXCEPT !.done = TRUE]
      BY <1>1, <1>6, <2>2 DEF Send
    <3>2. req[n].mode \notin {"sync", "unnamed"}
      BY <1>6, <2>2 DEF Send, CallModes
    <3>3. req'[n].reports = req[n].reports /\ req'[n].mode = req[n].mode
      BY <1>1, <3>1 DEF Request
    <3> QED
      BY <1>4, <3>2, <3>3 DEF CallerReports
  <2> QED
    BY <1>1, <1>6, <2>1, <2>2 DEF Send
<1>7. ASSUME NEW t \in Processes, NEW from, Finish(cur[t], from),
             pc[t] \in {"report", "reject"}
      PROVE  MeshReports(n)' = MeshReports(n)
  <2>1. CASE n # cur[t]
    BY <1>1, <1>3, <1>7, <2>1 DEF Finish
  <2>2. CASE n = cur[t]
    <3> DEFINE k == IF Callback = "unset" THEN 0 ELSE 1
    <3>1. req'[n] = [req[n] EXCEPT !.done = TRUE, !.from = from, !.reports = @ + k]
      BY <1>1, <1>7, <2>2 DEF Finish
    <3>2. /\ req'[n].reports = req[n].reports + k /\ req'[n].done
          /\ req'[n].mode = req[n].mode
      BY <1>1, <3>1 DEF Request
    <3>3. ~req[n].done /\ req[n].mode \in {"sync", "unnamed"}
      BY <1>7, <2>2 DEF OpenCalls, CallModes, InCall
    <3>4. CallerReports(req[n]) = 0 /\ CallerReports(req'[n]) = k
      BY <3>2, <3>3 DEF CallerReports
    <3>5. k \in Nat
      OBVIOUS
    <3> HIDE DEF k
    <3> QED
      BY <1>2, <3>2, <3>4, <3>5 DEF MeshReports
  <2> QED
    BY <2>1, <2>2
<1>8. ASSUME NEW t \in Processes, Return(t) PROVE MeshReports(n)' = MeshReports(n)
  <2>1. UNCHANGED req \/ Finish(cur[t], result[t].from)
    BY <1>8 DEF Return
  <2> QED
    BY <1>3, <1>7, <1>8, <2>1 DEF Return
<1>9. ASSUME NEW t \in Processes, Reject(t) PROVE MeshReports(n)' = MeshReports(n)
  BY <1>7, <1>9 DEF Reject
<1>10. ASSUME Notify
       PROVE  \/ MeshReports(n)' = MeshReports(n)
              \/ Notified(n) /\ MeshReports(n)' = MeshReports(n) + 1
  <2>1. CASE req'[n] = req[n]
    BY <1>3, <2>1
  <2>2. CASE req'[n] # req[n]
    <3>1. req' = [req EXCEPT ![it[Net]].reports = @ + 1] /\ pc' = [pc EXCEPT ![Net] = "callback"]
      BY <1>10, <2>2 DEF Notify, Goto
    <3>2. n = it[Net]
      BY <1>1, <2>2, <3>1
    <3>3. req'[n] = [req[n] EXCEPT !.reports = @ + 1]
      BY <1>1, <3>1, <3>2
    <3>4. /\ req'[n].reports = req[n].reports + 1
          /\ req'[n].done = req[n].done /\ req'[n].mode = req[n].mode
      BY <1>1, <3>3 DEF Request
    <3>5. CallerReports(req'[n]) = CallerReports(req[n])
      BY <3>4 DEF CallerReports
    <3>6. Notified(n)
      BY <1>10, <3>1, <3>2 DEF Notified, Notify, manager, Processes
    <3> QED
      BY <1>2, <3>4, <3>5, <3>6 DEF MeshReports
  <2> QED
    BY <2>1, <2>2
<1>11. ASSUME NEW m, NEW s, Handle(m, s) PROVE MeshReports(n)' = MeshReports(n)
  <2>1. req'[n] = req[n] \/ req'[n] = [req[n] EXCEPT !.handled = TRUE]
    BY <1>1, <1>11 DEF Handle
  <2>2. /\ req'[n].reports = req[n].reports
        /\ req'[n].done = req[n].done /\ req'[n].mode = req[n].mode
    BY <1>1, <2>1 DEF Request
  <2> QED
    BY <1>4, <2>2 DEF CallerReports
<1>12. ASSUME UNCHANGED req PROVE MeshReports(n)' = MeshReports(n)
  BY <1>3, <1>12
<1> HIDE DEF TypeInv, TypeOK
<1>13. \/ UNCHANGED req \/ Notify
       \/ \E t \in Processes : Send(t) \/ Return(t) \/ Reject(t)
       \/ \E t \in Processes, c \in Calls : Issue(t, c[1], c[2])
       \/ \E m \in requests, s \in Statuses : Handle(m, s)
  BY DEF Next, CallStep, MeshStep, Network, Register, Copy, Erase, Expire,
         FetchUnnamed, Deliver, Store, NewDevice, EndCallback, LoseRequest,
         LoseAnswer, vars
<1>14. (\E t \in Processes, c \in Calls : Issue(t, c[1], c[2]))
         => MeshReports(n)' = MeshReports(n)
  BY <1>3, <1>5
<1> QED
  BY <1>6, <1>8, <1>9, <1>10, <1>11, <1>12, <1>13, <1>14

\* n has still to make its entry, or the entry waits for its answer.
Awaited(n) ==
  \/ \E t \in Processes : pc[t] = "register" /\ cur[t] = n
  \/ \E i \in Ids : table[i].node = n /\ table[i].waiting

\* Once it is not, it never is again.
LEMMA AwaitedStep ==
  ASSUME TypeInv, [Next]_vars, NEW n \in Issued, Awaited(n)'
  PROVE  Awaited(n)
<1>1. ASSUME NEW t \in Processes, pc'[t] = "register", cur'[t] = n PROVE Awaited(n)
  <2>1. CASE WayOn(t)
    BY <1>1, <2>1 DEF WayOn, Awaited
  <2>2. ASSUME NEW c \in Calls, Issue(t, c[1], c[2]) PROVE FALSE
    BY <1>1, <2>2 DEF Issue, TypeInv, TypeOK, Issued
  <2> QED
    BY <1>1, <2>1, <2>2, WayOnStep DEF InCall
<1>2. ASSUME NEW i \in Ids, table'[i].node = n, table'[i].waiting PROVE Awaited(n)
  BY <1>2, SlotStep DEF Awaited
<1> QED
  BY <1>1, <1>2 DEF Awaited

\* The mesh thread has an answer in hand, and comes to it by Deliver.
AtHand == pc[Net] \in {"store", "notify"}

LEMMA HandStep ==
  ASSUME TypeInv, [Next]_vars, AtHand'
  PROVE  \/ /\ AtHand /\ it'[Net] = it[Net] /\ packet' = packet
            /\ pc'[Net] = "store" => pc[Net] = "store"
            /\ pc'[Net] = "notify" => Store \/ pc[Net] = "notify"
         \/ \E a \in answers :
              /\ Deliver(a) /\ packet' = a /\ pc'[Net] = "store"
              /\ it'[Net] = table[Id(a.ticket)].node /\ it'[Net] # None
              /\ Asserts => table[Id(a.ticket)].waiting
<1> DEFINE Kept == /\ AtHand /\ it'[Net] = it[Net] /\ packet' = packet
                   /\ pc'[Net] = "store" => pc[Net] = "store"
                   /\ pc'[Net] = "notify" => Store \/ pc[Net] = "notify"
           Found == \E a \in answers :
              /\ Deliver(a) /\ packet' = a /\ pc'[Net] = "store"
              /\ it'[Net] = table[Id(a.ticket)].node /\ it'[Net] # None
              /\ Asserts => table[Id(a.ticket)].waiting
<1> USE DEF TypeInv, TypeOK, Goto, locals, Processes, AtHand
<1>1. ASSUME NEW t \in Processes, NEW c \in Calls, Issue(t, c[1], c[2])
      PROVE  Kept
  BY <1>1 DEF Issue, FirstStep, Ready, Store
<1>2. ASSUME NEW t \in Processes, CallStep(t) PROVE Kept
  BY <1>2 DEF CallStep, Register, Send, Copy, Erase, Expire, Return, Reject, Store
<1>3. ASSUME MeshStep \/ NewDevice PROVE Kept
  BY <1>3 DEF MeshStep, Store, Notify, EndCallback, NewDevice
<1>4. ASSUME Network PROVE Kept
  BY <1>4 DEF Network, Handle, LoseRequest, LoseAnswer, Store
<1>5. ASSUME NEW t \in Processes, FetchUnnamed(t) PROVE Kept
  BY <1>5 DEF FetchUnnamed, Store
<1>6. ASSUME NEW a \in answers, Deliver(a) PROVE Found
  <2>1. pc[Net] = "idle" /\ pc'[Net] # "idle"
    BY <1>6 DEF Deliver
  <2>2. /\ packet' = a /\ pc' = [pc EXCEPT ![Net] = "store"]
        /\ it' = [it EXCEPT ![Net] = table[Id(a.ticket)].node]
        /\ table[Id(a.ticket)].node # None
        /\ Asserts => table[Id(a.ticket)].waiting
    BY <1>6, <2>1 DEF Deliver
  <2> QED
    BY <1>6, <2>2
<1>7. ASSUME UNCHANGED vars PROVE Kept
  BY <1>7 DEF vars, Store
<1> HIDE DEF Kept, Found, TypeInv, TypeOK, Goto, locals, Processes, AtHand
<1>8. Kept \/ Found
  BY <1>1, <1>2, <1>3, <1>4, <1>5, <1>6, <1>7 DEF Next
<1> QED
  BY <1>8 DEF Kept, Found

\* Without copies, or with assert(), an answer for the entry of a request whose id
\* was not used again finds the entry waiting.
LEMMA DeliverWaits ==
  ASSUME SameId, Copies = 0 => OneAnswer, AnsweredHolds, Copies = 0 \/ Asserts,
         NEW a \in answers, NEW n, n # None, n = table[Id(a.ticket)].node,
         Asserts => table[Id(a.ticket)].waiting, ~IdReused(n)
  PROVE  /\ table[Id(a.ticket)].waiting
         /\ Id(a.ticket) \in Ids /\ a.ticket \in Issued /\ n \in Issued
<1>1. a.ticket \in Issued /\ Id(a.ticket) \in Ids
  BY MaxRequestsAssumption
  DEF SameId, WireIssued, Id, TypeInv, TypeOK, Issued, Tickets, Request
<1>2. Under(Id(a.ticket), n)
  BY <1>1 DEF SameId, TableUnder
<1>3. a.ticket = n
  BY <1>1, <1>2 DEF IdReused, Under
<1>4. ASSUME Copies = 0, ~table[Id(a.ticket)].waiting PROVE FALSE
  <2>1. table[Id(a.ticket)].from # None
    BY <1>1, <1>4 DEF AnsweredHolds
  <2>2. Under(Id(a.ticket), table[Id(a.ticket)].from)
    BY <1>1, <2>1 DEF SameId, TableUnder
  <2>3. table[Id(a.ticket)].from = a.ticket
    BY <1>2, <1>3, <2>2 DEF IdReused, Under
  <2> QED
    BY <1>1, <1>4, <2>3 DEF OneAnswer, Taken
<1> QED
  BY <1>1, <1>2, <1>4 DEF Under

\* When handle_packet comes to the callback, the entry waits no more.
NotifyHolds ==
  pc[Net] = "notify" => \A i \in Ids : table[i].node = it[Net] => ~table[i].waiting

\* The mesh thread has just stored the answer; no later call makes that node.
LEMMA NextNotifyHolds == SameId /\ NotYet /\ NotifyHolds /\ [Next]_vars => NotifyHolds'
<1> SUFFICES ASSUME SameId, NotYet, NotifyHolds, [Next]_vars, pc'[Net] = "notify",
                    NEW i \in Ids, table'[i].node = it'[Net], table'[i].waiting
             PROVE  FALSE
  BY DEF NotifyHolds
<1> USE DEF SameId
<1>1. /\ AtHand /\ it'[Net] = it[Net]
      /\ Store \/ pc[Net] = "notify"
  BY HandStep DEF AtHand
<1>2. CASE Store
  <2>1. /\ packet.ticket \in Issued /\ Under(Id(packet.ticket), it[Net])
        /\ Id(packet.ticket) \in Ids
    BY <1>2, MaxRequestsAssumption
    DEF Store, PacketUnder, TypeInv, TypeOK, Issued, Tickets, Id, Request
  <2>2. it[Net] # None
    BY <2>1 DEF Under, Issued, None
  <2>3. CASE i = Id(packet.ticket)
    BY <1>1, <1>2, <2>1, <2>3 DEF Store, TypeInv, TypeOK
  <2>4. CASE i # Id(packet.ticket)
    <3>1. table'[i] = table[i]
      BY <1>2, <2>4 DEF Store, TypeInv, TypeOK
    <3>2. Under(i, it[Net])
      BY <1>1, <2>2, <3>1 DEF TableUnder
    <3> QED
      BY <2>1, <2>4, <3>2 DEF Under
  <2> QED
    BY <2>3, <2>4
<1>3. CASE pc[Net] = "notify"
  <2>1. CASE table'[i] = table[i]
    BY <1>1, <1>3, <2>1 DEF NotifyHolds
  <2>2. ASSUME NEW u \in Processes, pc[u] = "register", table'[i].node = cur[u]
        PROVE  FALSE
    BY <1>1, <2>2 DEF NotYet, Processes
  <2> QED
    BY <2>1, <2>2, SlotStep
<1> QED
  BY <1>1, <1>2, <1>3

\* The mesh thread reports a request once at most, and not before it has found
\* its entry waiting; only entries are reported.
OneReport ==
  \A n \in Issued :
    /\ MeshReports(n) \in Nat
    /\ MeshReports(n) > 0 => req[n].mode \in {"async", "sync"}
    /\ ~IdReused(n) /\ (Copies = 0 \/ Asserts) =>
         /\ MeshReports(n) <= 1
         /\ Awaited(n) \/ (AtHand /\ it[Net] = n) => MeshReports(n) = 0

\* Its report comes when the entry is not awaited any more.
LEMMA NextOneReport ==
  /\ EntryInv /\ CallModes /\ EntryModes /\ OpenCalls
  /\ (Copies = 0 => OneAnswer) /\ AnsweredHolds /\ NotifyHolds
  /\ OneReport /\ [Next]_vars
  => OneReport'
<1> SUFFICES ASSUME EntryInv, CallModes, EntryModes, OpenCalls, Copies = 0 => OneAnswer,
                    AnsweredHolds, NotifyHolds, OneReport, [Next]_vars, NEW n \in Issued'
             PROVE  /\ MeshReports(n)' \in Nat
                    /\ MeshReports(n)' > 0 => req'[n].mode \in {"async", "sync"}
                    /\ ~IdReused(n)' /\ (Copies = 0 \/ Asserts) =>
                         /\ MeshReports(n)' <= 1
                         /\ Awaited(n)' \/ (AtHand' /\ it'[Net] = n)
                              => MeshReports(n)' = 0
  BY DEF OneReport
<1> USE DEF EntryInv, SameId
<1>1. CASE n \notin Issued
  <2>1. PICK t \in Processes, c \in Calls : Issue(t, c[1], c[2])
    BY <1>1 DEF Next, CallStep, MeshStep, Network, Register, Send, Copy, Erase, Expire,
         Return, Reject, FetchUnnamed, Deliver, Store, Notify, NewDevice,
         EndCallback, Handle, LoseRequest, LoseAnswer, vars, Issued
  <2>2. n = issued /\ n \in Tickets
    BY <1>1, <2>1, MaxRequestsAssumption DEF Issue, Issued, TypeInv, TypeOK, Tickets
  <2>3. req'[n].reports = 0 /\ ~req'[n].done
    BY <2>1, <2>2 DEF Issue, TypeInv, TypeOK
  <2>4. CallerReports(req'[n]) = 0
    BY <2>3 DEF CallerReports
  <2>5. MeshReports(n)' = 0
    BY <2>3, <2>4 DEF MeshReports
  <2> QED
    BY <2>5
<1>2. CASE n \in Issued
  <2>1. /\ MeshReports(n) \in Nat
        /\ MeshReports(n) > 0 => req[n].mode \in {"async", "sync"}
        /\ req'[n].mode = req[n].mode
    BY <1>2, ModesKept DEF OneReport
  <2>2. ~IdReused(n)' => ~IdReused(n)
    BY <1>2, IdsKept DEF IdReused
  <2>3. ASSUME ~IdReused(n)', Copies = 0 \/ Asserts, Awaited(n)' \/ (AtHand' /\ it'[Net] = n)
        PROVE  Awaited(n) \/ (AtHand /\ it[Net] = n)
    <3>1. CASE Awaited(n)'
      BY <1>2, <3>1, AwaitedStep
    <3>2. CASE AtHand' /\ it'[Net] = n
      <4>1. ASSUME NEW a \in answers, it'[Net] = table[Id(a.ticket)].node, it'[Net] # None,
                   Asserts => table[Id(a.ticket)].waiting
            PROVE  Awaited(n)
        BY <2>2, <2>3, <3>2, <4>1, DeliverWaits DEF Awaited
      <4> QED
        BY <3>2, <4>1, HandStep
    <3> QED
      BY <2>3, <3>1, <3>2
  <2>4. CASE MeshReports(n)' = MeshReports(n)
    BY <1>2, <2>1, <2>2, <2>3, <2>4 DEF OneReport
  <2>5. CASE Notified(n) /\ MeshReports(n)' = MeshReports(n) + 1
    <3>1. AtHand /\ it[Net] = n /\ ~AtHand'
      BY <2>5 DEF Notified, AtHand
    <3>2. ~Awaited(n)'
      <4>1. \A t \in Processes : pc'[t] = "register" => pc[t] = "register" /\ cur'[t] = cur[t]
        BY <2>5 DEF Notified
      <4>2. \A t \in Processes : pc[t] = "register" => cur[t] # n
        BY <2>5 DEF Notified, NotYet, Processes
      <4>3. \A i \in Ids : table'[i].node = n => ~table'[i].waiting
        BY <2>5 DEF Notified, NotifyHolds
      <4> QED
        BY <4>1, <4>2, <4>3 DEF Awaited
    <3>3. req[n].mode \in {"async", "sync"}
      BY <1>2, <3>1 DEF EntryModes, Processes, Issued, None
    <3>4. ~IdReused(n) /\ (Copies = 0 \/ Asserts) => MeshReports(n) = 0
      BY <1>2, <3>1 DEF OneReport
    <3> QED
      BY <2>1, <2>2, <2>5, <3>1, <3>2, <3>3, <3>4
  <2> QED
    BY <1>2, <2>4, <2>5, ReportStep
<1> QED
  BY <1>1, <1>2

ReportInv ==
  /\ EntryInv /\ CallModes /\ EntryModes /\ OpenCalls
  /\ (Copies = 0 => OneAnswer) /\ AnsweredHolds /\ NotifyHolds
  /\ OneReport

\* So it is in every behaviour.
LEMMA ReportInvariant == Spec => []ReportInv
<1>1. Init => ReportInv
  <2>1. Init => CallModes /\ EntryModes /\ OpenCalls /\ AnsweredHolds
    BY DEF Init, CallModes, EntryModes, OpenCalls, AnsweredHolds, InCall, Absent, None
  <2>2. Init => NotifyHolds /\ OneReport
    BY DEF Init, NotifyHolds, OneReport, Issued, Processes
  <2>3. Init => OneAnswer
    BY DEF Init, OneAnswer, Taken, Absent, Processes
  <2> QED
    BY <2>1, <2>2, <2>3, InitEntryInv DEF ReportInv
<1>2. ReportInv /\ [Next]_vars => ReportInv'
  <2> SUFFICES ASSUME ReportInv, [Next]_vars PROVE ReportInv'
    OBVIOUS
  <2> USE DEF ReportInv
  <2>1. EntryInv'
    BY NextSameId, NextOwnTickets, NextNotYet, NextAnsweredErased DEF EntryInv, SameId
  <2>2. CallModes' /\ EntryModes' /\ OpenCalls'
    BY NextCallModes, NextEntryModes, NextOpenCalls DEF EntryInv, SameId
  <2>3. Copies = 0 => OneAnswer'
    BY NextOneAnswer DEF EntryInv
  <2>4. AnsweredHolds' /\ NotifyHolds'
    BY NextAnsweredHolds, NextNotifyHolds DEF EntryInv
  <2>5. OneReport'
    BY NextOneReport
  <2> QED
    BY <2>1, <2>2, <2>3, <2>4, <2>5
<1> QED
  BY <1>1, <1>2, PTL DEF Spec

\* action_callback runs for a request once at most if the call is asynchronous and
\* twice if it waits, once from each thread, and never for one that wants no
\* status: unless an id came round, or a copied answer got past the assertion.
THEOREM ReportsAreBounded == Spec => []ReportsBounded
<1>1. ReportInv => ReportsBounded
  <2> SUFFICES ASSUME ReportInv, NEW n \in Issued, ~IdReused(n), Copies = 0 \/ Asserts
               PROVE  req[n].reports <= CASE req[n].mode = "sync"   -> 2
                                          [] req[n].mode = "oneway" -> 0
                                          [] OTHER                  -> 1
    BY DEF ReportsBounded
  <2>1. req[n].reports \in Nat /\ req[n].mode \in Modes
    BY MaxRequestsAssumption
    DEF ReportInv, EntryInv, SameId, TypeInv, TypeOK, Issued, Tickets, Request
  <2>2. /\ MeshReports(n) \in Nat /\ MeshReports(n) <= 1
        /\ MeshReports(n) > 0 => req[n].mode \in {"async", "sync"}
    BY DEF ReportInv, OneReport
  <2>3. /\ CallerReports(req[n]) \in {0, 1}
        /\ req[n].mode \notin {"sync", "unnamed"} => CallerReports(req[n]) = 0
    BY DEF CallerReports
  <2>4. req[n].reports = MeshReports(n) + CallerReports(req[n])
    BY <2>1, <2>3 DEF MeshReports
  <2> HIDE DEF MeshReports, CallerReports
  <2> QED
    BY <2>1, <2>2, <2>3, <2>4 DEF Modes
<1> QED
  BY <1>1, ReportInvariant, PTL

-----------------------------------------------------------------------------
(* Who may use a node of the map that was erased.                            *)

NoReuse == \A n \in Issued : ~IdReused(n)

NobodyWaits == \A n \in Issued : req[n].mode # "sync"

\* Both end for good.
LEMMA EndForGood ==
  TypeInv /\ [Next]_vars => (NoReuse' => NoReuse) /\ (NobodyWaits' => NobodyWaits)
<1> SUFFICES ASSUME TypeInv, [Next]_vars
             PROVE  (NoReuse' => NoReuse) /\ (NobodyWaits' => NobodyWaits)
  OBVIOUS
<1>1. \A x \in Issued : /\ x \in Issued' /\ Id(x)' = Id(x)
                        /\ req'[x].mode = req[x].mode
  BY IdsKept, ModesKept
<1> QED
  BY <1>1 DEF NoReuse, NobodyWaits, IdReused

\* The caller finds the node its iterator points to when it comes to erase it.
EraseFinds ==
  NoReuse => \A t \in Processes : pc[t] = "erase" => table[Key(t)].node = it[t]

\* The mesh thread finds its node when it comes to store the answer there; and, if
\* no caller waits for answers, when it passes the entry to the callback.
StoreFinds ==
  NoReuse /\ (Copies = 0 \/ Asserts) /\ pc[Net] = "store" =>
    table[Id(packet.ticket)].node = it[Net] /\ table[Id(packet.ticket)].waiting

NotifyFinds ==
  NobodyWaits /\ AtHand => table[Id(packet.ticket)].node = it[Net]

\* A node that goes from its place is erased there by the thread whose request has
\* that id.
LEMMA NodeGoes ==
  ASSUME SameId, [Next]_vars, NEW i \in Ids, table[i].node # None,
         table'[i].node # table[i].node
  PROVE  \E u \in Processes : pc[u] = "erase" /\ Key(u) = i /\ Erase(u)
                              /\ table[i].node = it[u]
<1> USE DEF SameId, TypeInv, TypeOK
<1>1. ASSUME NEW u \in Processes, Register(u) PROVE FALSE
  BY <1>1 DEF Register, Emplaced
<1>2. ASSUME Store PROVE FALSE
  BY <1>2 DEF Store
<1>3. ASSUME NEW u \in Processes, Erase(u)
      PROVE  pc[u] = "erase" /\ Key(u) = i /\ Erase(u) /\ table[i].node = it[u]
  BY <1>3 DEF Erase
<1> QED
  BY <1>1, <1>2, <1>3, TableSteps

\* Only its own call erases it.
LEMMA NextEraseFinds ==
  EntryInv /\ EraseFinds /\ [Next]_vars => EraseFinds'
<1> SUFFICES ASSUME EntryInv, EraseFinds, [Next]_vars, NoReuse', NEW p \in Processes,
                    pc'[p] = "erase"
             PROVE  table'[Key(p)'].node = it'[p]
  BY DEF EraseFinds
<1> USE DEF EntryInv, SameId
<1>1. NoReuse
  BY EndForGood
<1>2. CASE Copy(p)
  <2>1. /\ it'[p] = table[Key(p)].node /\ UNCHANGED <<table, cur, req>>
    BY <1>2 DEF Copy, TypeInv, TypeOK, manager
  <2> QED
    BY <2>1 DEF Key, Id
<1>3. CASE ~Copy(p)
  <2>1. pc[p] = "erase" /\ it'[p] = it[p] /\ cur'[p] = cur[p]
    BY <1>3, EraseStep
  <2>2. cur[p] \in Issued /\ Key(p) \in Ids
    <3>1. cur[p] \in Issued
      BY <2>1 DEF TypeInv, CurIssued, InCall
    <3> QED
      BY <3>1, MaxRequestsAssumption
      DEF TypeInv, TypeOK, Issued, Tickets, Key, Id, Request
  <2>3. Key(p)' = Key(p)
    BY <2>1, <2>2, IdsKept DEF Key
  <2>4. table[Key(p)].node = it[p] /\ it[p] # None
    BY <1>1, <2>1 DEF EraseFinds, AnsweredErased
  <2>5. ASSUME table'[Key(p)].node # table[Key(p)].node PROVE FALSE
    <3>1. PICK u \in Processes : pc[u] = "erase" /\ Key(u) = Key(p) /\ Erase(u)
      BY <2>2, <2>4, <2>5, NodeGoes
    <3>2. cur[u] \in Issued
      BY <3>1 DEF TypeInv, CurIssued, InCall
    <3>3. cur[u] = cur[p]
      BY <1>1, <2>2, <3>1, <3>2 DEF NoReuse, IdReused, Key
    <3>4. u = p
      BY <2>1, <3>1, <3>3 DEF OwnTickets, InCall
    <3>5. pc'[p] # "erase"
      BY <3>1, <3>4 DEF Erase, Goto, TypeInv, TypeOK
    <3> QED
      BY <3>5
  <2> QED
    BY <2>1, <2>3, <2>4, <2>5
<1> QED
  BY <1>2, <1>3

\* A caller erases what it saw answered; this one waits.
LEMMA NextStoreFinds ==
  /\ EntryInv /\ EraseFinds
  /\ (Copies = 0 => OneAnswer) /\ AnsweredHolds /\ StoreFinds
  /\ [Next]_vars
  => StoreFinds'
<1> SUFFICES ASSUME EntryInv, EraseFinds, Copies = 0 => OneAnswer, AnsweredHolds, StoreFinds,
                    [Next]_vars, NoReuse', Copies = 0 \/ Asserts, pc'[Net] = "store"
             PROVE  /\ table'[Id(packet.ticket)'].node = it'[Net]
                    /\ table'[Id(packet.ticket)'].waiting
  BY DEF StoreFinds
<1> USE DEF EntryInv, SameId
<1>1. NoReuse
  BY EndForGood
<1>2. CASE pc[Net] = "store" /\ it'[Net] = it[Net] /\ packet' = packet
  <2>1. /\ packet.ticket \in Issued /\ Id(packet.ticket) \in Ids
        /\ it[Net] # None
    BY <1>2, MaxRequestsAssumption
    DEF PacketUnder, Under, TypeInv, TypeOK, Issued, Tickets, Id, Request, None
  <2>2. Id(packet.ticket)' = Id(packet.ticket)
    <3> PICK x \in Issued : x = packet.ticket
      BY <2>1
    <3>1. Id(x)' = Id(x)
      BY IdsKept
    <3> QED
      BY <1>2, <3>1 DEF Id
  <2> PICK i \in Ids : i = Id(packet.ticket)
    BY <2>1
  <2>3. table[i].node = it[Net] /\ table[i].waiting
    BY <1>1, <1>2 DEF StoreFinds
  <2>4. ~Store
    BY <1>2 DEF Store, Goto, Processes, TypeInv, TypeOK
  <2>5. ASSUME NEW u \in Processes, Register(u) PROVE table'[i] = table[i]
    BY <2>1, <2>3, <2>5 DEF Register, Emplaced, TypeInv, TypeOK
  <2>6. ASSUME NEW u \in Processes, Erase(u) PROVE table'[i] = table[i]
    <3>1. pc[u] = "erase"
      BY <2>6 DEF Erase
    <3>2. CASE i = Key(u)
      BY <1>1, <2>3, <3>1, <3>2 DEF EraseFinds, AnsweredErased
    <3>3. CASE i # Key(u)
      BY <2>6, <3>3 DEF Erase, TypeInv, TypeOK
    <3> QED
      BY <3>2, <3>3
  <2>7. table'[i] = table[i]
    BY <2>4, <2>5, <2>6, TableSteps
  <2> QED
    BY <1>2, <2>2, <2>3, <2>7
<1>3. ASSUME NEW a \in answers, Deliver(a), packet' = a,
             it'[Net] = table[Id(a.ticket)].node, it'[Net] # None,
             Asserts => table[Id(a.ticket)].waiting
      PROVE  /\ table'[Id(packet.ticket)'].node = it'[Net]
             /\ table'[Id(packet.ticket)'].waiting
  <2>1. UNCHANGED <<table, req>>
    BY <1>3 DEF Deliver, manager
  <2>2. it'[Net] \in Issued
    <3>1. Id(a.ticket) \in Ids
      BY DEF WireIssued, TypeInv, TypeOK, Id, Request, Answer
    <3> QED
      BY <1>3, <3>1 DEF TableUnder, Under
  <2>3. table[Id(a.ticket)].waiting
    BY <1>1, <1>3, <2>2, DeliverWaits DEF NoReuse
  <2> QED
    BY <1>3, <2>1, <2>3 DEF Id
<1> QED
  BY <1>2, <1>3, HandStep DEF AtHand

\* Without a caller that waits nothing is erased.
LEMMA NextNotifyFinds ==
  SameId /\ CallModes /\ NotifyFinds /\ [Next]_vars => NotifyFinds'
<1> SUFFICES ASSUME SameId, CallModes, NotifyFinds, [Next]_vars, NobodyWaits', AtHand'
             PROVE  table'[Id(packet.ticket)'].node = it'[Net]
  BY DEF NotifyFinds
<1> USE DEF SameId
<1>1. NobodyWaits
  BY EndForGood
<1>2. ASSUME NEW u \in Processes, pc[u] = "erase" PROVE FALSE
  BY <1>1, <1>2 DEF NobodyWaits, CallModes, TypeInv, CurIssued, InCall
<1>3. ASSUME NEW i \in Ids, table[i].node # None PROVE table'[i].node = table[i].node
  BY <1>2, <1>3, NodeGoes
<1>4. CASE AtHand /\ it'[Net] = it[Net] /\ packet' = packet
  <2>1. /\ packet.ticket \in Issued /\ Id(packet.ticket) \in Ids
        /\ it[Net] # None
    BY <1>4, MaxRequestsAssumption
    DEF AtHand, PacketUnder, Under, TypeInv, TypeOK, Issued, Tickets, Id, Request, None
  <2>2. Id(packet.ticket)' = Id(packet.ticket)
    <3> PICK x \in Issued : x = packet.ticket
      BY <2>1
    <3>1. Id(x)' = Id(x)
      BY IdsKept
    <3> QED
      BY <1>4, <3>1 DEF Id
  <2> QED
    BY <1>1, <1>3, <1>4, <2>1, <2>2 DEF NotifyFinds
<1>5. ASSUME NEW a \in answers, Deliver(a), packet' = a,
             it'[Net] = table[Id(a.ticket)].node
      PROVE  table'[Id(packet.ticket)'].node = it'[Net]
  BY <1>5 DEF Deliver, manager, Id
<1> QED
  BY <1>4, <1>5, HandStep

\* What has to be for an iterator, or the reference passed to a callback, to be
\* used after its node was erased.
StaleNodeCause      == ~NoReuse \/ (Copies > 0 /\ ~Asserts)
StaleReferenceCause == ~NobodyWaits

StaleInv ==
  /\ EntryInv /\ CallModes
  /\ (Copies = 0 => OneAnswer) /\ AnsweredHolds
  /\ EraseFinds /\ StoreFinds /\ NotifyFinds
  /\ fate = "stale_node" => StaleNodeCause
  /\ fate = "stale_reference" => StaleReferenceCause

\* Each thread that uses an iterator or reference finds its node, or has such a
\* cause not to.
LEMMA NextStaleFate ==
  StaleInv /\ [Next]_vars =>
    /\ fate' = "stale_node" => StaleNodeCause'
    /\ fate' = "stale_reference" => StaleReferenceCause'
<1> SUFFICES ASSUME StaleInv, [Next]_vars
             PROVE  /\ fate' = "stale_node" => StaleNodeCause'
                    /\ fate' = "stale_reference" => StaleReferenceCause'
  OBVIOUS
<1> USE DEF StaleInv, EntryInv, SameId
<1>1. (StaleNodeCause => StaleNodeCause') /\ (StaleReferenceCause => StaleReferenceCause')
  BY EndForGood DEF StaleNodeCause, StaleReferenceCause
<1>2. ASSUME NEW t \in Processes, Erase(t), table[Key(t)].node # it[t]
      PROVE  StaleNodeCause
  BY <1>2 DEF Erase, EraseFinds, StaleNodeCause
<1>3. ASSUME Store /\ table[Id(packet.ticket)].node # it[Net]
      PROVE  StaleNodeCause
  BY <1>3, CopiesAssumption DEF Store, StoreFinds, StaleNodeCause
<1>4. ASSUME Notify /\ Callback # "unset" /\ table[Id(packet.ticket)].node # it[Net]
      PROVE  StaleReferenceCause
  BY <1>4 DEF Notify, NotifyFinds, AtHand, StaleReferenceCause
<1>5. \/ UNCHANGED fate
      \/ fate' \in {"null_response", "assertion_failed"}
      \/ \E t \in Processes : Erase(t)
      \/ Store \/ Notify
  BY DEF Next, CallStep, MeshStep, Network, Issue, Register, Copy, Send,
         Expire, Return, Reject, FetchUnnamed, Deliver, NewDevice,
         EndCallback, Handle, LoseRequest, LoseAnswer, vars
<1>6. ASSUME NEW t \in Processes, Erase(t)
      PROVE  \/ UNCHANGED fate
             \/ fate' = "stale_node" /\ table[Key(t)].node # it[t]
  BY <1>6 DEF Erase
<1>7. Store => \/ UNCHANGED fate
               \/ fate' = "stale_node" /\ table[Id(packet.ticket)].node # it[Net]
  BY DEF Store
<1>8. Notify => \/ UNCHANGED fate
                \/ /\ fate' = "stale_reference" /\ Callback # "unset"
                   /\ table[Id(packet.ticket)].node # it[Net]
  BY DEF Notify
<1> QED
  BY <1>1, <1>2, <1>3, <1>4, <1>5, <1>6, <1>7, <1>8

\* An iterator into action_responses is used after its node was erased only if an id
\* came round or a copied answer got past a compiled-out assertion, and the reference
\* a callback gets only if a synchronous caller was there to erase the node.
THEOREM StaleNodesNeedCallbackOrReuse == Spec => []StaleNodeNeedsCallbackOrReuse
<1>1. Init => StaleInv
  <2>1. Init => CallModes /\ AnsweredHolds /\ EraseFinds /\ StoreFinds /\ NotifyFinds
    BY DEF Init, CallModes, AnsweredHolds, EraseFinds, StoreFinds, NotifyFinds, AtHand,
           Absent, None, Processes
  <2>2. Init => OneAnswer
    BY DEF Init, OneAnswer, Taken, Absent, Processes
  <2>3. Init => fate = "ok"
    BY DEF Init
  <2> QED
    BY <2>1, <2>2, <2>3, InitEntryInv DEF StaleInv
<1>2. StaleInv /\ [Next]_vars => StaleInv'
  <2> SUFFICES ASSUME StaleInv, [Next]_vars PROVE StaleInv'
    OBVIOUS
  <2> USE DEF StaleInv
  <2>1. EntryInv'
    BY NextSameId, NextOwnTickets, NextNotYet, NextAnsweredErased DEF EntryInv, SameId
  <2>2. CallModes' /\ AnsweredHolds'
    BY NextCallModes, NextAnsweredHolds DEF EntryInv, SameId
  <2>3. Copies = 0 => OneAnswer'
    BY NextOneAnswer DEF EntryInv
  <2>4. EraseFinds' /\ StoreFinds' /\ NotifyFinds'
    BY NextEraseFinds, NextStoreFinds, NextNotifyFinds DEF EntryInv
  <2>5. /\ fate' = "stale_node" => StaleNodeCause'
        /\ fate' = "stale_reference" => StaleReferenceCause'
    BY NextStaleFate
  <2> QED
    BY <2>1, <2>2, <2>3, <2>4, <2>5
<1>3. StaleInv => StaleNodeNeedsCallbackOrReuse
  BY DEF StaleInv, StaleNodeCause, StaleReferenceCause, StaleNodeNeedsCallbackOrReuse,
         NobodyWaits, NoReuse
<1> QED
  BY <1>1, <1>2, <1>3, PTL DEF Spec
=============================================================================
