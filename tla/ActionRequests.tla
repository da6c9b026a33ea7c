--------------------------- MODULE ActionRequests ---------------------------
(***************************************************************************)
(* The request side of PhyDeviceManager (src/phy_device_manager.cpp).      *)
(*                                                                         *)
(* Application threads issue EXECUTE and FETCH requests.  A request takes  *)
(* an 8-bit id, registers an entry in action_responses and sends an        *)
(* UNRELIABLE packet.  A synchronous caller then polls the entry until it  *)
(* is answered or five seconds have passed.  The mesh thread runs          *)
(* handle_packet on every incoming answer, fills the entry in and calls    *)
(* action_callback.  None of this is locked: each access to the map is a   *)
(* step of its own, and an iterator or reference into the map is kept as   *)
(* the identity of the node it points to, to see whether the node is still *)
(* there when it is used.                                                  *)
(*                                                                         *)
(* A ticket is a ghost: the serial number of a request.  The program knows *)
(* only req[n].id, which it reuses after IdSpace requests.                 *)
(***************************************************************************)
EXTENDS Integers

CONSTANTS
  Threads,      \* application threads that call the API
  Net,          \* the mesh thread, which runs handle_packet and callbacks
  IdSpace,      \* number of request ids (256: the counter is a ubyte)
  MaxRequests,  \* bound: requests issued in a behaviour
  Calls,        \* <<op, mode>> pairs: the API functions the application uses
  Statuses,     \* statuses a device may answer with
  Copies,       \* bound: extra copies the network makes of one answer
  Callback,     \* action_callback: "unset", "nullsafe" or "capi"
  Asserts       \* assert() is compiled in

Ops == {"EXECUTE", "FETCH"}

\* "async": *_async with a status; "oneway": require_status = false;
\* "sync": execute_action, fetch_action; "unnamed": execute_action_async on
\* an action name lookup_action does not find.
Modes == {"async", "oneway", "sync", "unnamed"}

ASSUME IdSpaceAssumption == IdSpace \in Nat \ {0}
ASSUME MaxRequestsAssumption == MaxRequests \in Nat
ASSUME CopiesAssumption == Copies \in Nat
ASSUME NetAssumption == Net \notin Threads
ASSUME CallsAssumption == Calls \subseteq Ops \X Modes
ASSUME CallbackAssumption == Callback \in {"unset", "nullsafe", "capi"}
ASSUME AssertsAssumption == Asserts \in BOOLEAN

VARIABLES
  counter,   \* action_responses_counter
  table,     \* action_responses
  pc,        \* where each thread is
  cur,       \* the ticket of the call each thread is in
  it,        \* the map node each thread holds an iterator to
  result,    \* the ActionResponse copy a synchronous caller made
  packet,    \* the answer handle_packet is working on
  requests,  \* request packets in flight, by ticket
  answers,   \* answer packets in flight
  issued,    \* number of requests issued so far
  req,       \* history of each request
  fate       \* "ok", or how the process was stopped

manager == <<counter, table>>
locals  == <<cur, it, result, packet>>
wire    == <<requests, answers>>
vars    == <<manager, pc, locals, wire, issued, req, fate>>

Tickets == 0 .. MaxRequests - 1
Ids     == 0 .. IdSpace - 1
None    == -1
Ticket0 == Tickets \cup {None}

\* "unset" is the status of an ActionResponse nobody has answered.
Status0 == Statuses \cup {"unset"}

Processes == Threads \cup {Net}

\* A slot of the map; node = None: the key is absent.  from is the ticket
\* whose answer was written into the entry.
Slot   == [node : Ticket0, waiting : BOOLEAN, from : Ticket0, status : Status0]
Absent == [node |-> None, waiting |-> FALSE, from |-> None, status |-> "unset"]

\* result = NoResult is the null pointer.
Result   == [from : Ticket0, status : Status0]
NoResult == [from |-> None, status |-> "unset"]

\* copies: how often the network may deliver the answer once more.
Answer   == [ticket : Tickets, status : Statuses, copies : 0 .. Copies]
NoPacket == [ticket |-> None, status |-> "unset", copies |-> 0]

Request == [id : Ids, op : Ops, mode : Modes, by : Processes,
            handled : BOOLEAN, reports : Nat, done : BOOLEAN, from : Ticket0]
-----------------------------------------------------------------------------
Init ==
  /\ counter = 0
  /\ table = [i \in Ids |-> Absent]
  /\ pc = [t \in Processes |-> "idle"]
  /\ cur = [t \in Processes |-> None]
  /\ it = [t \in Processes |-> None]
  /\ result = [t \in Processes |-> NoResult]
  /\ packet = NoPacket
  /\ requests = {}
  /\ answers = {}
  /\ issued = 0
  /\ req = [n \in Tickets |->
              [id |-> 0, op |-> "FETCH", mode |-> "async", by |-> Net,
               handled |-> FALSE, reports |-> 0, done |-> FALSE,
               from |-> None]]
  /\ fate = "ok"

Goto(t, label) == pc' = [pc EXCEPT ![t] = label]

Id(n) == req[n].id

\* Mutant: the shared counter is read again instead of the call's own req_id.
KeyFromCounter(t) == (counter + IdSpace - 1) % IdSpace

\* The key of the call thread t is in: its own copy of req_id.
Key(t) == Id(cur[t])

\* An application thread calls the API when it is in no call; the mesh
\* thread calls it from inside a callback.
Ready(t) == pc[t] = IF t = Net THEN "callback" ELSE "idle"

\* Call n reports what it has and returns.
Finish(n, from) ==
  req' = [req EXCEPT ![n] = [req[n] EXCEPT
            !.done    = TRUE,
            !.from    = from,
            !.reports = @ + IF Callback = "unset" THEN 0 ELSE 1]]

\* Mutant: the counter is wider than the ids.
NoWrap(c) == c + 1

NextId(c) == (c + 1) % IdSpace
-----------------------------------------------------------------------------
(* The API, on the thread that calls it. *)

\* Mutant: require_status is not looked at.
RegisterOneWay(mode) == IF mode = "unnamed" THEN "reject" ELSE "register"

\* Only a call that wants an answer makes an entry.
FirstStep(mode) ==
  CASE mode = "oneway"  -> "send"
    [] mode = "unnamed" -> "reject"
    [] OTHER            -> "register"

\* req_id = action_responses_counter++.
Issue(t, op, mode) ==
  /\ Ready(t)
  /\ issued < MaxRequests
  /\ counter' = NextId(counter)
  /\ issued' = issued + 1
  /\ cur' = [cur EXCEPT ![t] = issued]
  /\ req' = [req EXCEPT ![issued] =
               [id |-> counter, op |-> op, mode |-> mode, by |-> t,
                handled |-> FALSE, reports |-> 0, done |-> FALSE,
                from |-> None]]
  /\ Goto(t, FirstStep(mode))
  /\ UNCHANGED <<table, it, result, packet, wire, fate>>

\* Mutant: is_waiting starts out false.
NotWaiting(n) ==
  [node |-> n, waiting |-> FALSE, from |-> None, status |-> "unset"]

\* ActionResponse(...).
Fresh(n) == [node |-> n, waiting |-> TRUE, from |-> None, status |-> "unset"]

\* emplace: an existing key keeps its entry.
Emplaced(slot, n) == IF slot.node # None THEN slot ELSE Fresh(n)

\* action_responses.emplace(req_id, ...).
Register(t) ==
  /\ pc[t] = "register"
  /\ table' = [table EXCEPT ![Key(t)] = Emplaced(@, cur[t])]
  /\ Goto(t, "send")
  /\ UNCHANGED <<counter, locals, wire, issued, req, fate>>

\* finish_ptr; everything but a synchronous call returns here.
Send(t) ==
  /\ pc[t] = "send"
  /\ requests' = requests \cup {cur[t]}
  /\ IF req[cur[t]].mode = "sync"
     THEN /\ Goto(t, "poll")
          /\ result' = [result EXCEPT ![t] = NoResult]
          /\ UNCHANGED req
     ELSE /\ Goto(t, "idle")
          /\ req' = [req EXCEPT ![cur[t]].done = TRUE]
          /\ UNCHANGED result
  /\ UNCHANGED <<manager, cur, it, packet, answers, issued, fate>>

\* Mutant: is_waiting is not looked at.
CopyUnanswered(t) ==
  /\ pc[t] = "poll"
  /\ table[Key(t)].node # None
  /\ result' = [result EXCEPT ![t] = [from   |-> table[Key(t)].from,
                                      status |-> table[Key(t)].status]]
  /\ it' = [it EXCEPT ![t] = table[Key(t)].node]
  /\ Goto(t, "erase")
  /\ UNCHANGED <<manager, cur, packet, wire, issued, req, fate>>

\* One turn of the polling loop that finds the entry answered and copies it.
Copy(t) ==
  /\ pc[t] = "poll"
  /\ table[Key(t)].node # None
  /\ ~table[Key(t)].waiting
  /\ result' = [result EXCEPT ![t] = [from   |-> table[Key(t)].from,
                                      status |-> table[Key(t)].status]]
  /\ it' = [it EXCEPT ![t] = table[Key(t)].node]
  /\ Goto(t, "erase")
  /\ UNCHANGED <<manager, cur, packet, wire, issued, req, fate>>

\* Mutant: the entry is not erased.
EraseForgotten(t) ==
  /\ pc[t] = "erase"
  /\ Goto(t, "report")
  /\ UNCHANGED <<manager, locals, wire, issued, req, fate>>

\* action_responses.erase(it) with the iterator of Copy.  execute_action
\* loops on if the device's own status is TIMEOUT.
Erase(t) ==
  /\ pc[t] = "erase"
  /\ \/ /\ table[Key(t)].node = it[t]
        /\ table' = [table EXCEPT ![Key(t)] = Absent]
        /\ UNCHANGED fate
     \/ /\ table[Key(t)].node # it[t]
        /\ fate' = "stale_node"
        /\ UNCHANGED table
  /\ Goto(t, IF req[cur[t]].op = "EXECUTE" /\ result[t].status = "TIMEOUT"
             THEN "poll" ELSE "report")
  /\ UNCHANGED <<counter, locals, wire, issued, req>>

\* Mutant: a call that times out takes its entry with it.
EraseOnExpire(t) ==
  /\ pc[t] = "poll"
  /\ table' = [table EXCEPT ![Key(t)] = Absent]
  /\ Goto(t, "report")
  /\ UNCHANGED <<counter, locals, wire, issued, req, fate>>

\* Mutant: the clock is only looked at after an answer.
ExpireAnswered(t) ==
  /\ pc[t] = "poll"
  /\ result[t] # NoResult
  /\ Goto(t, "report")
  /\ UNCHANGED <<manager, locals, wire, issued, req, fate>>

\* DEV_MAN_RESPONSE_TIMEOUT has passed; the entry stays in the map.
Expire(t) ==
  /\ pc[t] = "poll"
  /\ Goto(t, "report")
  /\ UNCHANGED <<manager, locals, wire, issued, req, fate>>

\* if (action_callback) action_callback(result), and the call returns.  The
\* lambda init_ctx installs reads its argument without a null check.
Return(t) ==
  /\ pc[t] = "report"
  /\ \/ /\ Callback = "capi" /\ result[t] = NoResult
        /\ fate' = "null_response"
        /\ UNCHANGED req
     \/ /\ ~(Callback = "capi" /\ result[t] = NoResult)
        /\ Finish(cur[t], result[t].from)
        /\ UNCHANGED fate
  /\ Goto(t, "idle")
  /\ UNCHANGED <<manager, locals, wire, issued>>

\* execute_action_async, name not found: a thread it starts and joins calls
\* the callback with status UNKNOWN before the id is returned.
Reject(t) ==
  /\ pc[t] = "reject"
  /\ Finish(cur[t], None)
  /\ Goto(t, "idle")
  /\ UNCHANGED <<manager, locals, wire, issued, fate>>

\* The C function fetch_action, name not found: PhyDeviceManager returns
\* nullptr and the wrapper reads resp->payload.
FetchUnnamed(t) ==
  /\ Ready(t)
  /\ Callback = "capi"
  /\ <<"FETCH", "sync">> \in Calls
  /\ fate' = "null_response"
  /\ UNCHANGED <<manager, locals, wire, pc, issued, req>>
-----------------------------------------------------------------------------
(* handle_packet, on the mesh thread. *)

\* find(request_id) and assert(is_waiting).  An answer without an entry is
\* "Unexpected" and dropped.
Deliver(a) ==
  /\ pc[Net] = "idle"
  /\ answers' = (answers \ {a}) \cup
                  {[a EXCEPT !.copies = k] : k \in {a.copies - 1} \cap Nat}
  /\ LET slot == table[Id(a.ticket)]
     IN  \/ /\ slot.node = None
            /\ UNCHANGED <<it, packet, pc, fate>>
         \/ /\ slot.node # None
            /\ Asserts /\ ~slot.waiting
            /\ fate' = "assertion_failed"
            /\ UNCHANGED <<it, packet, pc>>
         \/ /\ slot.node # None
            /\ Asserts => slot.waiting
            /\ packet' = a
            /\ it' = [it EXCEPT ![Net] = slot.node]
            /\ Goto(Net, "store")
            /\ UNCHANGED fate
  /\ UNCHANGED <<manager, cur, result, requests, issued, req>>

\* status = ..., payload = ..., is_waiting = false through the iterator.
Store ==
  /\ pc[Net] = "store"
  /\ LET key == Id(packet.ticket)
     IN  \/ /\ table[key].node = it[Net]
            /\ table' = [table EXCEPT ![key] =
                           [node |-> it[Net], waiting |-> FALSE,
                            from |-> packet.ticket, status |-> packet.status]]
            /\ UNCHANGED fate
         \/ /\ table[key].node # it[Net]
            /\ fate' = "stale_node"
            /\ UNCHANGED table
  /\ Goto(Net, "notify")
  /\ UNCHANGED <<counter, locals, wire, issued, req>>

\* if (action_callback) action_callback(&data->second): the reference is
\* used after is_waiting = false has released the polling caller.
Notify ==
  /\ pc[Net] = "notify"
  /\ \/ /\ Callback = "unset"
        /\ Goto(Net, "idle")
        /\ UNCHANGED <<req, fate>>
     \/ /\ Callback # "unset"
        /\ table[Id(packet.ticket)].node = it[Net]
        /\ req' = [req EXCEPT ![it[Net]].reports = @ + 1]
        /\ Goto(Net, "callback")
        /\ UNCHANGED fate
     \/ /\ Callback # "unset"
        /\ table[Id(packet.ticket)].node # it[Net]
        /\ fate' = "stale_reference"
        /\ Goto(Net, "idle")
        /\ UNCHANGED req
  /\ packet' = NoPacket
  /\ UNCHANGED <<manager, cur, it, result, wire, issued>>

\* new_device_callback: a HELLO_WORLD brings the mesh thread into user code.
NewDevice ==
  /\ pc[Net] = "idle"
  /\ Goto(Net, "callback")
  /\ UNCHANGED <<manager, locals, wire, issued, req, fate>>

\* User code returns from a callback without another call.
EndCallback ==
  /\ pc[Net] = "callback"
  /\ Goto(Net, "idle")
  /\ UNCHANGED <<manager, locals, wire, issued, req, fate>>
-----------------------------------------------------------------------------
(* The network and the devices behind it. *)

\* A device handles request n and answers.  The flags of a oneway request are
\* never written, so the device may see REQUIRE_STATUS_RESPONSE in them.
Handle(n, s) ==
  /\ n \in requests
  /\ requests' = requests \ {n}
  /\ answers' = answers \cup {[ticket |-> n, status |-> s, copies |-> Copies]}
  /\ req' = [req EXCEPT ![n].handled = TRUE]
  /\ UNCHANGED <<manager, locals, pc, issued, fate>>

LoseRequest(n) ==
  /\ requests' = requests \ {n}
  /\ UNCHANGED <<manager, locals, answers, pc, issued, req, fate>>

LoseAnswer(a) ==
  /\ answers' = answers \ {a}
  /\ UNCHANGED <<manager, locals, requests, pc, issued, req, fate>>
-----------------------------------------------------------------------------
Running == fate = "ok"

\* The steps of a call on thread t, once issued.
CallStep(t) ==
  Running /\ (\/ Register(t) \/ Send(t)   \/ Copy(t) \/ Erase(t)
              \/ Expire(t)   \/ Return(t) \/ Reject(t))

MeshStep == Store \/ Notify \/ EndCallback

Network ==
  \/ \E n \in requests : LoseRequest(n) \/ \E s \in Statuses : Handle(n, s)
  \/ \E a \in answers : LoseAnswer(a)

Next ==
  \/ \E t \in Processes : CallStep(t)
  \/ /\ Running
     /\ \/ \E t \in Processes :
              FetchUnnamed(t) \/ \E c \in Calls : Issue(t, c[1], c[2])
        \/ (\E a \in answers : Deliver(a)) \/ MeshStep \/ NewDevice
        \/ Network

Spec == Init /\ [][Next]_vars

\* Threads keep running and the clock keeps advancing; user code returns
\* from its callbacks.  Nothing is assumed of the network.
Fairness ==
  /\ \A t \in Processes : WF_vars(CallStep(t))
  /\ WF_vars(Running /\ MeshStep)

FairSpec == Spec /\ Fairness
-----------------------------------------------------------------------------
(* Properties. *)

Issued == 0 .. issued - 1

\* Another request was given the same id.
IdReused(n) == \E m \in Issued : m # n /\ Id(m) = Id(n)

TypeOK ==
  /\ counter \in Ids
  /\ table \in [Ids -> Slot]
  /\ pc \in [Processes -> {"idle", "callback", "register", "send", "poll",
                          "erase", "report", "reject", "store", "notify"}]
  /\ cur \in [Processes -> Ticket0]
  /\ it \in [Processes -> Ticket0]
  /\ result \in [Processes -> Result]
  /\ packet \in Answer \cup {NoPacket}
  /\ requests \subseteq Tickets
  /\ answers \subseteq Answer
  /\ issued \in 0 .. MaxRequests
  /\ req \in [Tickets -> Request]
  /\ fate \in {"ok", "assertion_failed", "stale_node", "stale_reference",
              "null_response"}

\* A synchronous call that returns an answer returns the answer to its own
\* request, whatever was lost, delayed or copied, unless the 8-bit id has come
\* round: execute_action and fetch_action match on the id alone.
AnswerIsOwn ==
  \A n \in Issued : req[n].from # None => req[n].from = n \/ IdReused(n)

\* When handle_packet calls action_callback, the entry it passes holds the
\* answer to the request the entry was made for, unless the id was reused.
CallbackGetsOwnAnswer ==
  pc[Net] = "notify" => packet.ticket = it[Net] \/ IdReused(it[Net])

\* assert(data->second.is_waiting) can fail only after an id was reused or
\* the network copied an answer: entries are made before the request is sent.
AssertionNeedsReuseOrCopy ==
  fate = "assertion_failed" => Copies > 0 \/ \E n \in Issued : IdReused(n)

\* An iterator into action_responses, the polling caller's or handle_packet's,
\* is used after its node was erased only if an id was reused or a copied answer
\* got past a compiled-out assertion, callback or not.  The reference that
\* handle_packet passes to action_callback is used too late only where a
\* synchronous caller is there to erase the node.
StaleNodeNeedsCallbackOrReuse ==
  /\ fate = "stale_node" =>
       (\E n \in Issued : IdReused(n)) \/ (Copies > 0 /\ ~Asserts)
  /\ fate = "stale_reference" => \E n \in Issued : req[n].mode = "sync"

\* A synchronous call that returns its answer leaves no entry of its own in
\* action_responses (one that times out does).
AnsweredEntryErased ==
  \A n \in Issued : req[n].from = n => table[Id(n)].node # n

\* The callback runs at most once for an asynchronous request and never for one
\* that registered no entry.  For a synchronous one it runs up to twice, in
\* handle_packet and by the caller.  This is what the code does and not what
\* c_api.h:33 and :36 say of the callbacks that it leads to, on result of an
\* action requested by action_execute_async or action_fetch_async.
ReportsBounded ==
  \A n \in Issued :
    ~IdReused(n) /\ (Copies = 0 \/ Asserts) =>
      req[n].reports <= CASE req[n].mode = "sync"   -> 2
                          [] req[n].mode = "oneway" -> 0
                          [] OTHER                  -> 1

\* A synchronous call made inside a callback runs on the only thread that
\* could handle its answer: it times out unless it finds a stale entry.
CallInCallbackTimesOut ==
  \A n \in Issued : req[n].by = Net => req[n].from = None \/ IdReused(n)

\* An entry that still waits for its answer is neither displaced by a later
\* request with the same id nor erased by the call that polls under that id,
\* which erases what it found answered some steps before.
PendingEntryKept ==
  [][\A i \in Ids : table[i].node # None /\ table[i].waiting
                      => table'[i].node = table[i].node]_vars

\* Every call returns and the mesh thread always comes back from a packet,
\* even if nothing is ever answered, unless the process was stopped.
CallsReturn ==
  \A t \in Processes : pc[t] # "idle" ~> (pc[t] = "idle" \/ fate # "ok")

\* What has become of the call that made request n.
Stage(n) ==
  IF n \notin Issued             THEN "unissued"
  ELSE IF ~req[n].done           THEN "open"
  ELSE IF req[n].from = None     THEN "unanswered"
  ELSE IF req[n].from = n        THEN "answered"
                                 ELSE "misanswered"

Service == INSTANCE RequestService WITH
             stage   <- [n \in Tickets |-> Stage(n)],
             handled <- {n \in Tickets : req[n].handled}

\* As long as no id is reused (MaxRequests <= IdSpace) the requests implement
\* RequestService: no interleaving of callers, mesh thread and network hands
\* a call an answer that is not its own or that no device gave.
ImplementsService == Service!Spec

\* phy_device_manager.cpp:53 and :68 assert(data->second.is_waiting).
AssertionHolds == fate # "assertion_failed"

\* c_api.h:77 says of fetch_action: return ActionResponse.
FetchReturnsResponse == fate # "null_response"
=============================================================================
