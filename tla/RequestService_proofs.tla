------------------------ MODULE RequestService_proofs ------------------------
(* ActionRequests implements RequestService as long as no id is given to two  *)
(* requests.                                                                  *)
EXTENDS RequestEntries_proofs

\* An id is the number of the request while the counter has not come round.
FreshIds ==
  /\ issued < IdSpace => counter = issued
  /\ \A n \in Issued : Id(n) = n

\* The counter goes with the number of requests and does not come round.
LEMMA NextFreshIds ==
  ASSUME MaxRequests <= IdSpace
  PROVE  TypeInv /\ FreshIds /\ [Next]_vars => FreshIds'
<1> SUFFICES ASSUME TypeInv, FreshIds, [Next]_vars PROVE FreshIds'
  OBVIOUS
<1> USE DEF TypeInv, TypeOK
<1>1. ASSUME NEW t \in Processes, NEW c \in Calls, Issue(t, c[1], c[2])
      PROVE  FreshIds'
  <2>1. /\ issued' = issued + 1 /\ issued < IdSpace /\ issued \in Nat
        /\ counter' = NextId(counter) /\ counter = issued
    BY <1>1, MaxRequestsAssumption, IdSpaceAssumption DEF Issue, FreshIds
  <2>2. issued' < IdSpace => counter' = issued'
    BY <2>1, IdSpaceAssumption, SMT DEF NextId
  <2>3. \A n \in Issued' : n \in Issued \/ n = issued
    BY <2>1 DEF Issued
  <2>4. issued \in Tickets
    BY <1>1, MaxRequestsAssumption DEF Issue, Tickets
  <2>5. req'[issued].id = counter
    BY <1>1, <2>4 DEF Issue
  <2>6. \A n \in Issued : req'[n].id = n
    BY IdsKept DEF FreshIds, Id
  <2> QED
    BY <2>1, <2>2, <2>3, <2>5, <2>6 DEF FreshIds, Id
<1>2. CASE UNCHANGED <<issued, counter>>
  BY <1>2, IdsKept DEF FreshIds, Issued
<1> QED
  BY <1>1, <1>2
  DEF Next, CallStep, MeshStep, Network, Register, Send, Copy, Erase, Expire,
      Return, Reject, FetchUnnamed, Deliver, Store, Notify, NewDevice,
      EndCallback, Handle, LoseRequest, LoseAnswer, vars, manager

-----------------------------------------------------------------------------
(* Whatever a call can find, a device has given.                             *)

\* These are the steps that write the history of requests.
LEMMA ReqSteps ==
  [Next]_vars =>
    \/ UNCHANGED <<req, issued>>
    \/ \E t \in Processes, c \in Calls : Issue(t, c[1], c[2])
    \/ \E n \in requests, s \in Statuses : Handle(n, s)
    \/ \E t \in Processes : Send(t) \/ Return(t) \/ Reject(t)
    \/ Notify
  BY DEF Next, CallStep, MeshStep, Network, Register, Copy, Erase, Expire,
         FetchUnnamed, Deliver, Store, NewDevice, EndCallback, LoseRequest,
         LoseAnswer, vars, manager

\* Only a device handles a request.
LEMMA HandledStep ==
  ASSUME TypeInv, [Next]_vars, NEW n \in Issued
  PROVE  req[n].handled => req'[n].handled
<1> USE DEF TypeInv, TypeOK
<1>1. n \in Tickets /\ req[n] \in Request
  BY MaxRequestsAssumption DEF Issued, Tickets
<1>2. ASSUME NEW t \in Processes, NEW c \in Calls, Issue(t, c[1], c[2])
      PROVE  req'[n] = req[n]
  <2>1. n # issued
    BY DEF Issued
  <2> QED
    BY <1>1, <1>2, <2>1 DEF Issue
<1>3. ASSUME NEW m, NEW s, Handle(m, s), req[n].handled PROVE req'[n].handled
  BY <1>1, <1>3 DEF Handle, Request
<1>4. ASSUME NEW t \in Processes, Send(t), req[n].handled PROVE req'[n].handled
  BY <1>1, <1>4 DEF Send, Request
<1>5. ASSUME NEW m, NEW x, Finish(m, x), req[n].handled PROVE req'[n].handled
  BY <1>1, <1>5 DEF Finish, Request
<1>6. ASSUME Notify, req[n].handled PROVE req'[n].handled
  BY <1>1, <1>6, ZenonT(40) DEF Notify, Request
<1> QED
  BY <1>2, <1>3, <1>4, <1>5, <1>6, ReqSteps DEF Return, Reject

AllHandled ==
  /\ \A n \in Tickets \ Issued : ~req[n].handled
  /\ \A a \in answers : req[a.ticket].handled
  /\ pc[Net] = "store" => req[packet.ticket].handled
  /\ \A i \in Ids : table[i].from # None => req[table[i].from].handled
  /\ \A t \in Processes : result[t].from # None =>
       result[t].from \in Issued /\ req[result[t].from].handled

\* An answer is passed on from where a device put it.
LEMMA NextAllHandled == SameId /\ AllHandled /\ [Next]_vars => AllHandled'
<1> SUFFICES ASSUME SameId, AllHandled, [Next]_vars PROVE AllHandled'
  OBVIOUS
<1> DEFINE Given(x) == x \in Issued /\ req[x].handled
<1>1. TypeInv
  BY DEF SameId
<1>2. ASSUME NEW x, Given(x) PROVE x \in Issued' /\ req'[x].handled
  BY <1>1, <1>2, HandledStep, IdsKept
<1>3. /\ \A a \in answers : Given(a.ticket)
      /\ pc[Net] = "store" => Given(packet.ticket)
      /\ \A i \in Ids : table[i].from # None => Given(table[i].from)
      /\ \A t \in Processes : result[t].from # None => Given(result[t].from)
  BY DEF AllHandled, SameId, WireIssued, PacketUnder, TableUnder, Under
<1> HIDE DEF Given
<1>4. ASSUME NEW n \in Tickets, n \notin Issued' PROVE ~req'[n].handled
  <2> USE DEF TypeInv, TypeOK
  <2>1. n \notin Issued
    BY <1>1, <1>4, IdsKept
  <2>2. ASSUME NEW t \in Processes, NEW c \in Calls, Issue(t, c[1], c[2])
        PROVE  req'[n] = req[n]
    <3>1. n # issued
      BY <1>1, <1>4, <2>2 DEF Issue, Issued
    <3> QED
      BY <1>1, <2>2, <3>1 DEF Issue
  <2>3. ASSUME NEW m \in requests, NEW s, Handle(m, s) PROVE req'[n] = req[n]
    BY <1>1, <2>1, <2>3 DEF Handle, SameId, WireIssued
  <2>4. ASSUME NEW t \in Processes, Send(t) \/ Return(t) \/ Reject(t)
        PROVE  req'[n] = req[n]
    <3>1. n # cur[t]
      BY <1>1, <2>1, <2>4 DEF CurIssued, InCall, Send, Return, Reject
    <3> QED
      BY <1>1, <2>4, <3>1 DEF Send, Return, Reject, Finish
  <2>5. CASE Notify
    <3>1. n # it[Net]
      BY <2>1, <2>5 DEF Notify, SameId, PacketUnder, Under
    <3> QED
      BY <1>1, <2>1, <2>5, <3>1 DEF Notify, AllHandled
  <2>6. ~req[n].handled
    BY <2>1 DEF AllHandled
  <2> QED
    BY <2>2, <2>3, <2>4, <2>5, <2>6, ReqSteps
<1>5. ASSUME NEW a \in answers' PROVE req'[a.ticket].handled
  <2>1. ASSUME NEW b \in answers, a.ticket = b.ticket
        PROVE  req'[a.ticket].handled
    BY <1>2, <1>3, <2>1
  <2>2. ASSUME NEW n \in requests, NEW s \in Statuses, Handle(n, s),
               a \notin answers
        PROVE  req'[a.ticket].handled
    <3>1. a.ticket = n /\ n \in Tickets
      BY <1>1, <2>2 DEF Handle, TypeInv, TypeOK
    <3> QED
      BY <1>1, <2>2, <3>1 DEF Handle, TypeInv, TypeOK, Request
  <2>3. ASSUME NEW b \in answers, Deliver(b), a \notin answers
        PROVE  a.ticket = b.ticket
    BY <1>1, <2>3 DEF Deliver, TypeInv, TypeOK, Answer
  <2>4. \/ a \in answers
        \/ \E n \in requests, s \in Statuses : Handle(n, s)
        \/ \E b \in answers : Deliver(b)
    BY DEF Next, CallStep, MeshStep, Network, Issue, Register, Copy, Erase,
           Expire, Return, Reject, Send, FetchUnnamed, Store, Notify, NewDevice,
           EndCallback, LoseRequest, LoseAnswer, vars, wire
  <2> QED
    BY <2>1, <2>2, <2>3, <2>4
<1>6. ASSUME pc'[Net] = "store" PROVE req'[packet'.ticket].handled
  <2>1. CASE pc[Net] = "store" /\ packet' = packet
    BY <1>2, <1>3, <2>1
  <2>2. ASSUME NEW a \in answers, packet' = a PROVE req'[packet'.ticket].handled
    BY <1>2, <1>3, <2>2
  <2>3. \/ pc[Net] = "store" /\ packet' = packet
        \/ \E a \in answers : packet' = a
    BY <1>1, <1>6, StoreStep
  <2> QED
    BY <2>1, <2>2, <2>3
<1>7. ASSUME NEW i \in Ids, table'[i].from # None
      PROVE  req'[table'[i].from].handled
  <2>1. CASE table'[i].from = table[i].from
    BY <1>2, <1>3, <1>7, <2>1
  <2>2. CASE Store
    BY <1>1, <1>2, <1>3, <1>7, <2>1, <2>2 DEF Store, TypeInv, TypeOK
  <2>3. ASSUME NEW u \in Processes, Register(u) \/ Erase(u)
        PROVE  table'[i].from \in {table[i].from, None}
    BY <1>1, <2>3 DEF Register, Emplaced, Fresh, Erase, Absent, TypeInv, TypeOK
  <2> QED
    BY <1>7, <2>1, <2>2, <2>3, TableSteps
<1>8. ASSUME NEW p \in Processes, result'[p].from # None
      PROVE  result'[p].from \in Issued' /\ req'[result'[p].from].handled
  <2>1. CASE UNCHANGED result[p]
    BY <1>2, <1>3, <1>8, <2>1
  <2>2. CASE Send(p)
    BY <1>1, <1>2, <1>3, <1>8, <2>1, <2>2 DEF Send, NoResult, TypeInv, TypeOK
  <2>3. CASE Copy(p)
    <3>1. cur[p] \in Tickets
      BY <1>1, <2>3, MaxRequestsAssumption
      DEF Copy, TypeInv, TypeOK, CurIssued, InCall, Issued, Tickets
    <3>2. Key(p) \in Ids
      BY <1>1, <3>1 DEF Key, Id, TypeInv, TypeOK, Request
    <3>3. result'[p].from = table[Key(p)].from
      BY <1>1, <2>3 DEF Copy, TypeInv, TypeOK
    <3> QED
      BY <1>2, <1>3, <1>8, <3>2, <3>3
  <2> QED
    BY <1>1, <2>1, <2>2, <2>3, ResultStep
<1> QED
  BY <1>4, <1>5, <1>6, <1>7, <1>8 DEF AllHandled

-----------------------------------------------------------------------------
(* The refinement.                                                           *)

ServiceInv ==
  SameId /\ OwnTickets /\ OpenCalls /\ FreshIds /\ AllHandled

\* What the refinement needs, in every behaviour.
LEMMA ServiceInvariant ==
  ASSUME MaxRequests <= IdSpace PROVE Spec => []ServiceInv
<1>1. Init => ServiceInv
  BY InitSameId
  DEF Init, ServiceInv, OwnTickets, OpenCalls, FreshIds, AllHandled, InCall,
      Issued, Absent, NoResult, None, Processes
<1>2. ServiceInv /\ [Next]_vars => ServiceInv'
  BY NextSameId, NextOwnTickets, NextOpenCalls, NextFreshIds, NextAllHandled
  DEF ServiceInv, SameId
<1> QED
  BY <1>1, <1>2, PTL DEF Spec

\* The variables of RequestService.
ServiceStage   == [n \in Tickets |-> Stage(n)]
ServiceHandled == {n \in Tickets : req[n].handled}

\* One request goes on to another stage.
LEMMA StageAdvances ==
  ASSUME NEW m \in Tickets, NEW from, NEW to,
         Stage(m) = from, Stage(m)' = to,
         \A n \in Tickets : n # m => Stage(n)' = Stage(n),
         UNCHANGED ServiceHandled
  PROVE  Service!Advance(m, from, to)
<1>1. ServiceStage' = [n \in Tickets |-> Stage(n)']
  BY DEF ServiceStage
<1>2. ServiceStage' = [ServiceStage EXCEPT ![m] = to]
  BY <1>1 DEF ServiceStage
<1>3. ServiceStage[m] = from
  BY DEF ServiceStage
<1> QED
  BY <1>2, <1>3, Zenon DEF Service!Advance, ServiceStage, ServiceHandled

\* A new request goes from unissued to open.
LEMMA IssueRefined ==
  ASSUME TypeInv, AllHandled, NEW m, m = issued,
         NEW t \in Processes, NEW c \in Calls, Issue(t, c[1], c[2])
  PROVE  m \in Tickets /\ Service!Issue(m)
<1>1. /\ m \in Tickets /\ issued' = m + 1
      /\ ~req'[m].handled /\ ~req'[m].done
      /\ \A n \in Tickets : n # m => req'[n] = req[n]
  BY MaxRequestsAssumption DEF Issue, Tickets, TypeInv, TypeOK
<1>2. Stage(m) = "unissued" /\ Stage(m)' = "open"
  BY <1>1, MaxRequestsAssumption DEF Stage, Issued, Tickets
<1>3. ASSUME NEW n \in Tickets, n # m PROVE Stage(n)' = Stage(n)
  <2>1. n \in Issued' <=> n \in Issued
    BY <1>1, <1>3, MaxRequestsAssumption DEF Tickets, Issued
  <2>2. req'[n] = req[n]
    BY <1>1, <1>3
  <2> QED
    BY <2>1, <2>2 DEF Stage
<1>4. UNCHANGED ServiceHandled
  <2>1. ~req[m].handled
    BY <1>1 DEF AllHandled, Issued
  <2>2. \A n \in Tickets : req'[n].handled <=> req[n].handled
    BY <1>1, <2>1
  <2> QED
    BY <2>2 DEF ServiceHandled
<1>5. Service!Advance(m, "unissued", "open")
  BY <1>1, <1>2, <1>3, <1>4, StageAdvances
<1> QED
  BY <1>1, <1>5 DEF Service!Issue

\* A step that leaves what the requests report leaves the service alone.
LEMMA ServiceStutters ==
  ASSUME UNCHANGED issued,
         \A n \in Tickets : /\ UNCHANGED <<req[n].done, req[n].from>>
                            /\ req'[n].handled <=> req[n].handled
  PROVE  UNCHANGED Service!vars
<1>1. ServiceHandled' = ServiceHandled
  BY DEF ServiceHandled
<1>2. \A n \in Tickets : Stage(n)' = Stage(n)
  BY DEF Stage, Issued
<1>3. ServiceStage' = [n \in Tickets |-> Stage(n)']
  BY DEF ServiceStage
<1>4. ServiceStage' = ServiceStage
  BY <1>2, <1>3 DEF ServiceStage
<1> QED
  BY <1>1, <1>4 DEF Service!vars, ServiceStage, ServiceHandled

\* The device handles a request, or one it handled before.
LEMMA HandleRefined ==
  ASSUME ServiceInv, NEW m \in requests, NEW s \in Statuses, Handle(m, s)
  PROVE  Service!Handle(m) \/ UNCHANGED Service!vars
<1>1. /\ m \in Issued /\ m \in Tickets /\ req[m] \in Request
      /\ req' = [req EXCEPT ![m].handled = TRUE] /\ UNCHANGED issued
  BY MaxRequestsAssumption
  DEF Handle, ServiceInv, SameId, WireIssued, TypeInv, TypeOK
<1>2. /\ \A n \in Tickets : n # m => req'[n] = req[n]
      /\ req'[m].handled /\ UNCHANGED <<req[m].done, req[m].from>>
  BY <1>1 DEF ServiceInv, SameId, TypeInv, TypeOK, Request
<1>3. CASE req[m].handled
  BY <1>1, <1>2, <1>3, ServiceStutters
<1>4. CASE ~req[m].handled
  <2>1. ServiceHandled' = ServiceHandled \cup {m} /\ m \notin ServiceHandled
    BY <1>1, <1>2, <1>4 DEF ServiceHandled
  <2>2. \A n \in Tickets : Stage(n)' = Stage(n)
    BY <1>1, <1>2 DEF Stage, Issued
  <2>3. ServiceStage' = [n \in Tickets |-> Stage(n)']
    BY DEF ServiceStage
  <2>4. ServiceStage' = ServiceStage
    BY <2>2, <2>3 DEF ServiceStage
  <2>5. ServiceStage[m] # "unissued"
    BY <1>1 DEF ServiceStage, Stage
  <2> QED
    BY <2>1, <2>4, <2>5 DEF Service!Handle, ServiceStage, ServiceHandled
<1> QED
  BY <1>3, <1>4

\* A call that returns succeeds or gives up.
LEMMA EndRefined ==
  ASSUME UNCHANGED issued, NEW m \in Tickets, Stage(m) = "open",
         \A n \in Tickets : n # m => req'[n] = req[n],
         req'[m].done,
         req'[m].handled <=> req[m].handled,
         req'[m].from = None \/ (req'[m].from = m /\ req[m].handled)
  PROVE  Service!Succeed(m) \/ Service!GiveUp(m)
<1>1. m \in Issued /\ m \in Issued' /\ m # None
  BY MaxRequestsAssumption DEF Stage, Issued, Tickets, None
<1>2. \A n \in Tickets : n # m => Stage(n)' = Stage(n)
  BY DEF Stage, Issued
<1>3. UNCHANGED ServiceHandled
  BY DEF ServiceHandled
<1>4. CASE req'[m].from = None
  <2>1. Stage(m)' = "unanswered"
    BY <1>1, <1>4 DEF Stage
  <2>2. Service!Advance(m, "open", "unanswered")
    BY <1>2, <1>3, <2>1, StageAdvances
  <2> QED
    BY <2>2 DEF Service!GiveUp
<1>5. CASE req'[m].from = m /\ req[m].handled
  <2>1. Stage(m)' = "answered"
    BY <1>1, <1>5 DEF Stage
  <2>2. Service!Advance(m, "open", "answered")
    BY <1>2, <1>3, <2>1, StageAdvances
  <2>3. m \in ServiceHandled
    BY <1>5 DEF ServiceHandled
  <2> QED
    BY <2>2, <2>3 DEF Service!Succeed, ServiceHandled
<1> QED
  BY <1>4, <1>5

\* A thread that returns ends its call with what it has.
LEMMA ReturnRefined ==
  ASSUME ServiceInv, NEW t \in Processes, Send(t) \/ Return(t) \/ Reject(t)
  PROVE  Service!Next \/ UNCHANGED Service!vars
<1> PICK m : m = cur[t]
  OBVIOUS
<1> USE DEF ServiceInv, SameId, TypeInv, TypeOK
<1>1. /\ m \in Issued /\ m \in Tickets /\ req[m] \in Request
      /\ UNCHANGED issued /\ pc[t] \in InCall
  BY MaxRequestsAssumption
  DEF Send, Return, Reject, CurIssued, InCall, Issued, Tickets
<1>2. Stage(m) = "open" /\ req[m].from = None
  BY <1>1 DEF Stage, OpenCalls
<1>3. CASE UNCHANGED req
  BY <1>1, <1>3, ServiceStutters
<1>4. CASE req' = [req EXCEPT ![m].done = TRUE]
  <2>1. /\ \A n \in Tickets : n # m => req'[n] = req[n]
        /\ req'[m].done /\ UNCHANGED req[m].from
        /\ req'[m].handled <=> req[m].handled
    BY <1>1, <1>4 DEF Request
  <2> QED
    BY <1>1, <1>2, <2>1, EndRefined DEF Service!Next
<1>5. ASSUME NEW x, Finish(m, x), x = None \/ (x = m /\ req[m].handled)
      PROVE  Service!Next
  <2>1. /\ \A n \in Tickets : n # m => req'[n] = req[n]
        /\ req'[m].done /\ req'[m].from = x
        /\ req'[m].handled <=> req[m].handled
    BY <1>1, <1>5 DEF Finish, Request
  <2> QED
    BY <1>1, <1>2, <1>5, <2>1, EndRefined DEF Service!Next
<1>6. CASE Send(t)
  BY <1>3, <1>4, <1>6 DEF Send
<1>7. CASE Reject(t)
  BY <1>5, <1>7 DEF Reject
<1>8. CASE Return(t)
  <2> PICK x : x = result[t].from
    OBVIOUS
  <2>1. UNCHANGED req \/ Finish(m, x)
    BY <1>8 DEF Return
  <2>2. ASSUME x # None PROVE x = m /\ req[m].handled
    <3>1. Under(Key(t), x) /\ req[x].handled
      BY <1>8, <2>2 DEF Return, ResultUnder, AllHandled
    <3>2. x = m
      BY <1>1, <3>1 DEF Under, Key, FreshIds
    <3> QED
      BY <3>1, <3>2
  <2> QED
    BY <1>3, <1>5, <2>1, <2>2
<1> QED
  BY <1>6, <1>7, <1>8

\* A callback in handle_packet ends no call.
LEMMA NotifyRefined ==
  ASSUME ServiceInv, Notify PROVE UNCHANGED Service!vars
<1> PICK m : m = it[Net]
  OBVIOUS
<1>1. UNCHANGED issued /\ (UNCHANGED req \/ req' = [req EXCEPT ![m].reports = @ + 1])
  BY DEF Notify
<1>2. CASE UNCHANGED req
  BY <1>1, <1>2, ServiceStutters
<1>3. CASE req' = [req EXCEPT ![m].reports = @ + 1]
  <2>1. ASSUME NEW n \in Tickets
        PROVE  /\ UNCHANGED <<req[n].done, req[n].from>>
               /\ req'[n].handled <=> req[n].handled
    <3>1. CASE n = m
      BY <1>3, <3>1 DEF ServiceInv, SameId, TypeInv, TypeOK, Request
    <3>2. CASE n # m
      BY <1>3, <3>2 DEF ServiceInv, SameId, TypeInv, TypeOK
    <3> QED
      BY <3>1, <3>2
  <2> QED
    BY <1>1, <2>1, ServiceStutters
<1> QED
  BY <1>1, <1>2, <1>3

\* Every step is a step of the service or leaves it alone.
LEMMA ServiceStep ==
  ServiceInv /\ [Next]_vars => [Service!Next]_(Service!vars)
<1> SUFFICES ASSUME ServiceInv, [Next]_vars
             PROVE  Service!Next \/ UNCHANGED Service!vars
  OBVIOUS
<1>1. CASE UNCHANGED <<req, issued>>
  BY <1>1, ServiceStutters
<1>2. ASSUME NEW t \in Processes, NEW c \in Calls, Issue(t, c[1], c[2])
      PROVE  Service!Next
  <2> PICK m : m = issued
    OBVIOUS
  <2> QED
    BY <1>2, IssueRefined DEF Service!Next, ServiceInv, SameId
<1>3. ASSUME NEW n \in requests, NEW s \in Statuses, Handle(n, s)
      PROVE  Service!Next \/ UNCHANGED Service!vars
  BY <1>3, HandleRefined DEF Service!Next, ServiceInv, SameId, TypeInv, TypeOK
<1> QED
  BY <1>1, <1>2, <1>3, ReturnRefined, NotifyRefined, ReqSteps

\* As long as no id comes round, every interleaving of callers, mesh thread and
\* network is a behaviour of the service: a device handles a request at most
\* once, and a call returns its own answer, which a device gave, or none.
THEOREM RequestsImplementService ==
  ASSUME MaxRequests <= IdSpace PROVE Spec => ImplementsService
<1>1. Init => Service!Init
  BY MaxRequestsAssumption DEF Init, Service!Init, Stage, Issued, Tickets
<1> QED
  BY <1>1, ServiceStep, ServiceInvariant, PTL
  DEF Spec, ImplementsService, Service!Spec
=============================================================================
