---------------------------- MODULE Subscriptions ----------------------------
(***************************************************************************)
(* Subscriptions of PhyDeviceManager (src/phy_device_manager.cpp).         *)
(*                                                                         *)
(* subscribe_action takes the next id, stores the subscription under it    *)
(* and asks the device to publish for a while.  The mesh thread passes     *)
(* every published value to the callback stored under its id and, when the *)
(* device says it is done, asks again if the subscription is to be         *)
(* renewed.  subscription_counter is a plain uint: two threads that        *)
(* subscribe at once may read the same value.                              *)
(*                                                                         *)
(* The network may lose a packet of a subscription, deliver it late, or    *)
(* deliver it twice.  What a device does with a second SUBSCRIPTION_START  *)
(* of an id is not in this repository: here it publishes one round more.   *)
(*                                                                         *)
(* A subscription's serial number is a ghost: packets carry only the id.   *)
(***************************************************************************)
EXTENDS Integers, Functions

CONSTANTS
  Threads,           \* application threads that subscribe
  Net,               \* the mesh thread, which may subscribe in a callback
  MaxSubscriptions,  \* bound: calls of subscribe_action
  Copies             \* bound: START and DONE packets that the network
                     \* delivers once more

ASSUME NetAssumption == Net \notin Threads
ASSUME MaxSubscriptionsAssumption == MaxSubscriptions \in Nat
ASSUME CopiesAssumption == Copies \in Nat

VARIABLES
  subscription_counter,
  subscriptions,  \* the serial number of the subscription under each id
  pc,             \* where each thread is in subscribe_action
  cur,            \* the subscription each thread is making
  sub,            \* history: id and is_renew of each subscription
  count,          \* number of subscriptions made
  raced,          \* history: two threads were in the increment at once
  starts,         \* number of SUBSCRIPTION_START packets in flight
  active,         \* number of rounds devices are publishing
  values,         \* subscriptions with a SUBSCRIPTION_CALLBACK in flight
  dones,          \* number of SUBSCRIPTION_DONE packets in flight
  lost,           \* history: subscriptions a packet of which was lost
  copied,         \* history: packets delivered once more
  received        \* history: <<m, n>>: callback of m got a value for n

manager == <<subscription_counter, subscriptions>>
caller  == <<pc, cur, sub, count, raced>>
network == <<starts, active, values, dones, lost, copied>>
vars    == <<manager, caller, network, received>>

Serials   == 0 .. MaxSubscriptions - 1
Ids       == 0 .. MaxSubscriptions
None      == -1
Processes == Threads \cup {Net}
Made      == 0 .. count - 1

Id(n) == sub[n].id

\* How many of something each subscription has.
Counts        == [Serials -> Nat]
NoPackets     == [n \in Serials |-> 0]
OneMore(f, n) == [f EXCEPT ![n] = @ + 1]
OneLess(f, n) == [f EXCEPT ![n] = @ - 1]

Init ==
  /\ subscription_counter = 0
  /\ subscriptions = [i \in Ids |-> None]
  /\ pc = [t \in Processes |-> "idle"]
  /\ cur = [t \in Processes |-> None]
  /\ sub = [n \in Serials |-> [id |-> 0, is_renew |-> FALSE]]
  /\ count = 0
  /\ raced = FALSE
  /\ starts = NoPackets /\ active = NoPackets /\ dones = NoPackets /\ copied = NoPackets
  /\ values = {} /\ lost = {}
  /\ received = {}

Goto(t, label) == pc' = [pc EXCEPT ![t] = label]
-----------------------------------------------------------------------------
(* subscribe_action. *)

\* Mutant: the counter stays as it is.
SameId(c) == c

\* Mutant: it counts down.
PreviousId(c) == c - 1

NextId(c) == c + 1

\* subscription_counter++, the read.
ReadCounter(t, renew) ==
  /\ pc[t] = "idle"
  /\ count < MaxSubscriptions
  /\ count' = count + 1
  /\ cur' = [cur EXCEPT ![t] = count]
  /\ sub' = [sub EXCEPT ![count] =
               [id |-> subscription_counter, is_renew |-> renew]]
  /\ raced' = (raced \/ \E u \in Processes : pc[u] = "increment")
  /\ Goto(t, "increment")
  /\ UNCHANGED <<manager, network, received>>

\* The write.
WriteCounter(t) ==
  /\ pc[t] = "increment"
  /\ subscription_counter' = NextId(Id(cur[t]))
  /\ Goto(t, "store")
  /\ UNCHANGED <<subscriptions, cur, sub, count, raced, network, received>>

\* lookup_log did not find the device: the id is used up.
NoDevice(t) ==
  /\ pc[t] = "store"
  /\ Goto(t, "idle")
  /\ UNCHANGED <<manager, cur, sub, count, raced, network, received>>

\* subscriptions.emplace(data.id, data): an id that is taken keeps its entry.
StoreEntry(t) ==
  /\ pc[t] = "store"
  /\ subscriptions' = [subscriptions EXCEPT ![Id(cur[t])] =
                         IF @ = None THEN cur[t] ELSE @]
  /\ Goto(t, "start")
  /\ UNCHANGED <<subscription_counter, cur, sub, count, raced, network,
                 received>>

SendStart(t) ==
  /\ pc[t] = "start"
  /\ starts' = OneMore(starts, cur[t])
  /\ Goto(t, "idle")
  /\ UNCHANGED <<manager, cur, sub, count, raced, active, values, dones,
                 lost, copied, received>>
-----------------------------------------------------------------------------
(* handle_packet, on the mesh thread. *)

\* data->second.callback(&data->second, ...), perhaps not for the last time.
HandleValue(n) ==
  /\ pc[Net] = "idle"
  /\ values' \in {values, values \ {n}}
  /\ received' = IF subscriptions[Id(n)] = None THEN received
                 ELSE received \cup {<<subscriptions[Id(n)], n>>}
  /\ UNCHANGED <<manager, caller, starts, active, dones, lost, copied>>

\* Mutant: one SUBSCRIPTION_DONE renews everything.
RestartAll(m) == {n \in Made : sub[n].is_renew}

\* Mutant: nothing is renewed.
RestartNone(m) == {}

\* if (data->second.is_renew) subscribe_action(data->second).
Restarted(m) == IF m # None /\ sub[m].is_renew THEN {m} ELSE {}

\* done_callback is never set.  A renewed subscription is started again with
\* the entry found, whose emplace changes nothing.
HandleDone(n) ==
  /\ pc[Net] = "idle"
  /\ dones' = OneLess(dones, n)
  /\ starts' = LET again == Restarted(subscriptions[Id(n)])
               IN  [m \in Serials |-> starts[m] + IF m \in again THEN 1 ELSE 0]
  /\ UNCHANGED <<manager, caller, active, values, lost, copied, received>>
-----------------------------------------------------------------------------
(* The devices and the network. *)

DeviceStart(n) ==
  /\ starts' = OneLess(starts, n)
  /\ active' = OneMore(active, n)
  /\ UNCHANGED <<manager, caller, values, dones, lost, copied, received>>

Publish(n) ==
  /\ active[n] > 0
  /\ values' = values \cup {n}
  /\ UNCHANGED <<manager, caller, starts, active, dones, lost, copied, received>>

\* The duration of the subscription is over.
DeviceDone(n) ==
  /\ active' = OneLess(active, n)
  /\ dones' = OneMore(dones, n)
  /\ UNCHANGED <<manager, caller, starts, values, lost, copied, received>>

Lose(n) ==
  /\ lost' = lost \cup {n}
  /\ \/ starts[n] > 0 /\ starts' = OneLess(starts, n) /\ UNCHANGED <<values, dones>>
     \/ n \in values  /\ values' = values \ {n}       /\ UNCHANGED <<starts, dones>>
     \/ dones[n] > 0  /\ dones' = OneLess(dones, n)   /\ UNCHANGED <<starts, values>>
  /\ UNCHANGED <<manager, caller, active, copied, received>>

NumCopied == SumFunction(copied)

Duplicate(n) ==
  /\ NumCopied < Copies
  /\ copied' = OneMore(copied, n)
  /\ \/ starts[n] > 0 /\ starts' = OneMore(starts, n) /\ UNCHANGED dones
     \/ dones[n] > 0  /\ dones' = OneMore(dones, n)   /\ UNCHANGED starts
  /\ UNCHANGED <<manager, caller, active, values, lost, received>>
-----------------------------------------------------------------------------
CallStep(t) == WriteCounter(t) \/ NoDevice(t) \/ StoreEntry(t) \/ SendStart(t)

\* One round of a subscription that was asked for.
Round(n) ==
  \/ starts[n] > 0 /\ DeviceStart(n)
  \/ active[n] > 0 /\ DeviceDone(n)
  \/ dones[n] > 0  /\ HandleDone(n)

Next ==
  \/ \E t \in Processes :
        CallStep(t) \/ \E renew \in BOOLEAN : ReadCounter(t, renew)
  \/ \E n \in Serials : Round(n) \/ Publish(n) \/ Lose(n) \/ Duplicate(n)
  \/ \E n \in values : HandleValue(n)

Spec == Init /\ [][Next]_vars

\* Threads keep running and devices keep to their durations.
FairSpec ==
  /\ Spec
  /\ \A t \in Processes : WF_vars(CallStep(t))
  /\ \A n \in Serials : WF_vars(Round(n))
-----------------------------------------------------------------------------
TypeOK ==
  /\ subscription_counter \in Ids
  /\ subscriptions \in [Ids -> Serials \cup {None}]
  /\ pc \in [Processes -> {"idle", "increment", "store", "start"}]
  /\ cur \in [Processes -> Serials \cup {None}]
  /\ sub \in [Serials -> [id : Ids, is_renew : BOOLEAN]]
  /\ count \in 0 .. MaxSubscriptions
  /\ raced \in BOOLEAN
  /\ starts \in Counts /\ active \in Counts /\ dones \in Counts /\ copied \in Counts
  /\ values \subseteq Serials /\ lost \subseteq Serials
  /\ received \subseteq Serials \X Serials

\* Two subscriptions have one id only if two threads were in the increment of
\* subscription_counter at once.
IdsDistinct ==
  raced \/ \A m, n \in Made : m # n => Id(m) # Id(n)

\* A callback gets values of its own subscription only, unless ids were raced
\* for: the packets and the map know a subscription by its id.
ValuesAreOwn ==
  raced \/ \A mn \in received : mn[1] = mn[2]

\* The rounds of a subscription that are asked for, published or done.
Rounds(n) == starts[n] + active[n] + dones[n]

\* handle_packet never makes two rounds of one: however often a subscription is
\* renewed, its requests, what devices publish for it and its SUBSCRIPTION_DONEs
\* are together one round, and one more for each of these packets the network
\* delivered twice (a second SUBSCRIPTION_DONE does renew it a second time).
\* None is under way before its own SUBSCRIPTION_START.
OneRoundAtATime ==
  raced \/ /\ \A n \in Serials : Rounds(n) <= 1 + copied[n]
           /\ \A t \in Processes :
                pc[t] \in {"store", "start"} => Rounds(cur[t]) = 0

\* A renewed subscription that was asked for is published again and again,
\* unless one of its packets is lost or ids were raced for.
RenewedKeepsRunning ==
  \A n \in Serials :
    starts[n] > 0 /\ sub[n].is_renew
      ~> []<>(active[n] > 0) \/ <>(raced \/ n \in lost)
=============================================================================
