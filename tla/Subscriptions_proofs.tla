------------------------ MODULE Subscriptions_proofs ------------------------
(* Proofs about Subscriptions, for every value of its constants. *)
EXTENDS Subscriptions, TLAPS

\* Only subscriptions that were made are stored, on their way or worked on, and
\* none has an id the counter has not had.
OnlyMade ==
  /\ subscription_counter \in 0 .. count
  /\ \A n \in Made : Id(n) \in 0 .. count - 1
  /\ \A t \in Processes : pc[t] # "idle" => cur[t] \in Made
  /\ \A i \in Ids : subscriptions[i] \in Made \cup {None}
  /\ values \subseteq Made
  /\ \A n \in Serials \ Made : Rounds(n) = 0

TypeInv == TypeOK /\ OnlyMade

\* One more or one less changes one count.
LEMMA CountMore ==
  ASSUME NEW f \in Counts, NEW n \in Serials
  PROVE  /\ OneMore(f, n) \in Counts /\ OneMore(f, n)[n] = f[n] + 1
         /\ \A m \in Serials : m # n => OneMore(f, n)[m] = f[m]
  BY DEF Counts, OneMore

LEMMA CountLess ==
  ASSUME NEW f \in Counts, NEW n \in Serials, f[n] > 0
  PROVE  /\ OneLess(f, n) \in Counts /\ OneLess(f, n)[n] = f[n] - 1
         /\ \A m \in Serials : m # n => OneLess(f, n)[m] = f[m]
  BY DEF Counts, OneLess

LEMMA CountNat ==
  ASSUME NEW f \in Counts, NEW n \in Serials
  PROVE  f[n] \in Nat
  BY DEF Counts

CountsOK ==
  starts \in Counts /\ active \in Counts /\ dones \in Counts /\ copied \in Counts

\* A packet of subscription n has moved: it makes no round, unless it was
\* copied, and the other subscriptions keep theirs.
Moved(n) ==
  /\ Rounds(n) > 0
  /\ Rounds(n)' \in Nat /\ copied'[n] \in Nat
  /\ Rounds(n)' + copied[n] <= Rounds(n) + copied'[n]
  /\ \A m \in Serials : m # n => Rounds(m)' = Rounds(m) /\ copied'[m] = copied[m]

\* Devices and the network only move packets.
LEMMA NetworkMoves ==
  ASSUME CountsOK, NEW n \in Serials,
         \/ starts[n] > 0 /\ DeviceStart(n)
         \/ active[n] > 0 /\ DeviceDone(n)
         \/ Lose(n) /\ values' = values
         \/ Duplicate(n)
  PROVE  CountsOK' /\ Moved(n)
<1>n. \A m \in Serials : /\ starts[m] \in Nat /\ active[m] \in Nat
                         /\ dones[m] \in Nat /\ copied[m] \in Nat
  BY CountNat DEF CountsOK
<1>1. CASE starts[n] > 0 /\ DeviceStart(n)
  <2>1. /\ starts' = OneLess(starts, n) /\ active' = OneMore(active, n)
        /\ dones' = dones /\ copied' = copied
    BY <1>1 DEF DeviceStart
  <2>2. /\ starts' \in Counts /\ starts'[n] = starts[n] - 1
        /\ \A m \in Serials : m # n => starts'[m] = starts[m]
    BY <1>1, <2>1, CountLess DEF CountsOK
  <2>3. /\ active' \in Counts /\ active'[n] = active[n] + 1
        /\ \A m \in Serials : m # n => active'[m] = active[m]
    BY <2>1, CountMore DEF CountsOK
  <2> QED
    BY <1>n, <1>1, <2>1, <2>2, <2>3 DEF CountsOK, Moved, Rounds
<1>2. CASE active[n] > 0 /\ DeviceDone(n)
  <2>1. /\ active' = OneLess(active, n) /\ dones' = OneMore(dones, n)
        /\ starts' = starts /\ copied' = copied
    BY <1>2 DEF DeviceDone
  <2>2. /\ active' \in Counts /\ active'[n] = active[n] - 1
        /\ \A m \in Serials : m # n => active'[m] = active[m]
    BY <1>2, <2>1, CountLess DEF CountsOK
  <2>3. /\ dones' \in Counts /\ dones'[n] = dones[n] + 1
        /\ \A m \in Serials : m # n => dones'[m] = dones[m]
    BY <2>1, CountMore DEF CountsOK
  <2> QED
    BY <1>n, <1>2, <2>1, <2>2, <2>3 DEF CountsOK, Moved, Rounds
\* One packet gone.
<1>3. CASE Lose(n) /\ values' = values
  <2>1. active' = active /\ copied' = copied
    BY <1>3 DEF Lose
  <2>2. CASE starts[n] > 0 /\ starts' = OneLess(starts, n) /\ dones' = dones
    <3>1. /\ starts' \in Counts /\ starts'[n] = starts[n] - 1
          /\ \A m \in Serials : m # n => starts'[m] = starts[m]
      BY <2>2, CountLess DEF CountsOK
    <3> QED
      BY <1>n, <2>1, <2>2, <3>1 DEF CountsOK, Moved, Rounds
  <2>3. CASE dones[n] > 0 /\ dones' = OneLess(dones, n) /\ starts' = starts
    <3>1. /\ dones' \in Counts /\ dones'[n] = dones[n] - 1
          /\ \A m \in Serials : m # n => dones'[m] = dones[m]
      BY <2>3, CountLess DEF CountsOK
    <3> QED
      BY <1>n, <2>1, <2>3, <3>1 DEF CountsOK, Moved, Rounds
  <2> QED
    BY <1>3, <2>2, <2>3 DEF Lose
\* One packet more, and one copy counted.
<1>4. CASE Duplicate(n)
  <2>1. copied' = OneMore(copied, n) /\ active' = active
    BY <1>4 DEF Duplicate
  <2>2. /\ copied' \in Counts /\ copied'[n] = copied[n] + 1
        /\ \A m \in Serials : m # n => copied'[m] = copied[m]
    BY <2>1, CountMore DEF CountsOK
  <2>3. CASE starts[n] > 0 /\ starts' = OneMore(starts, n) /\ dones' = dones
    <3>1. /\ starts' \in Counts /\ starts'[n] = starts[n] + 1
          /\ \A m \in Serials : m # n => starts'[m] = starts[m]
      BY <2>3, CountMore DEF CountsOK
    <3> QED
      BY <1>n, <2>1, <2>2, <2>3, <3>1 DEF CountsOK, Moved, Rounds
  <2>4. CASE dones[n] > 0 /\ dones' = OneMore(dones, n) /\ starts' = starts
    <3>1. /\ dones' \in Counts /\ dones'[n] = dones[n] + 1
          /\ \A m \in Serials : m # n => dones'[m] = dones[m]
      BY <2>4, CountMore DEF CountsOK
    <3> QED
      BY <1>n, <2>1, <2>2, <2>4, <3>1 DEF CountsOK, Moved, Rounds
  <2> QED
    BY <1>4, <2>3, <2>4 DEF Duplicate
<1> QED
  BY <1>1, <1>2, <1>3, <1>4

\* A SUBSCRIPTION_DONE becomes at most one SUBSCRIPTION_START, of the
\* subscription stored under its id.
LEMMA DoneRestarts ==
  ASSUME CountsOK, NEW n \in Serials, dones[n] > 0, HandleDone(n)
  PROVE  /\ CountsOK'
         /\ \A m \in Serials :
              m # subscriptions[Id(n)] => Rounds(m)' = Rounds(m) \/ m = n
         /\ \A m \in Serials : Rounds(m)' \in Nat
         /\ subscriptions[Id(n)] \in {None, n} => Moved(n)
<1> DEFINE found == subscriptions[Id(n)]
           again == Restarted(found)
<1>n. \A m \in Serials : /\ starts[m] \in Nat /\ active[m] \in Nat
                         /\ dones[m] \in Nat /\ copied[m] \in Nat
  BY CountNat DEF CountsOK
<1>1. /\ dones' = OneLess(dones, n)
      /\ starts' = [m \in Serials |-> starts[m] + IF m \in again THEN 1 ELSE 0]
      /\ active' = active /\ copied' = copied
  BY DEF HandleDone
<1>2. \A m \in again : m = found
  BY DEF Restarted
<1>3. /\ dones' \in Counts /\ dones'[n] = dones[n] - 1
      /\ \A m \in Serials : m # n => dones'[m] = dones[m]
  BY <1>1, CountLess DEF CountsOK
<1>e. found \in {None, n} => again \subseteq {n}
  BY DEF Restarted
<1> HIDE DEF again
<1>4. ASSUME NEW m \in Serials
      PROVE  /\ starts'[m] \in {starts[m], starts[m] + 1}
             /\ m \notin again => starts'[m] = starts[m]
  <2>1. starts'[m] = starts[m] + IF m \in again THEN 1 ELSE 0
    BY <1>1
  <2> QED
    BY <1>n, <2>1
<1>5. starts' \in Counts
  <2>1. starts' = [m \in Serials |-> starts'[m]]
    BY <1>1
  <2>2. \A m \in Serials : starts'[m] \in Nat
    BY <1>n, <1>4
  <2> QED
    BY <2>1, <2>2 DEF Counts
<1>6. ASSUME NEW m \in Serials PROVE Rounds(m)' \in Nat
  BY <1>n, <1>1, <1>3, <1>5, CountNat DEF Rounds
<1>7. ASSUME NEW m \in Serials, m # found, m # n PROVE Rounds(m)' = Rounds(m)
  BY <1>1, <1>2, <1>3, <1>4, <1>7 DEF Rounds
<1>8. ASSUME found \in {None, n} PROVE Moved(n)
  <2>1. \A m \in Serials : m # n => m \notin again
    BY <1>8, <1>e
  <2>2. Rounds(n)' <= Rounds(n) /\ Rounds(n) > 0
    BY <1>n, <1>1, <1>3, <1>4 DEF Rounds
  <2>3. \A m \in Serials : m # n => Rounds(m)' = Rounds(m)
    BY <1>1, <1>3, <1>4, <2>1 DEF Rounds
  <2>4. Rounds(n) \in Nat /\ Rounds(n)' \in Nat /\ copied[n] \in Nat
    BY <1>n, <1>6 DEF Rounds
  <2> QED
    BY <1>1, <2>2, <2>3, <2>4 DEF Moved
<1> QED
  BY <1>1, <1>3, <1>5, <1>6, <1>7, <1>8 DEF CountsOK

\* SendStart begins the first round of its subscription.
LEMMA StartBegins ==
  ASSUME CountsOK, NEW t \in Processes, cur[t] \in Serials, SendStart(t)
  PROVE  /\ CountsOK' /\ copied' = copied
         /\ Rounds(cur[t])' = Rounds(cur[t]) + 1
         /\ \A m \in Serials : m # cur[t] => Rounds(m)' = Rounds(m)
<1>n. \A m \in Serials : starts[m] \in Nat /\ active[m] \in Nat /\ dones[m] \in Nat
  BY CountNat DEF CountsOK
<1> DEFINE n == cur[t]
<1>0. UNCHANGED <<cur, active, dones, copied>> /\ starts' = OneMore(starts, n)
  BY DEF SendStart
<1>1. /\ starts' \in Counts /\ starts'[n] = starts[n] + 1
      /\ \A m \in Serials : m # n => starts'[m] = starts[m]
  BY <1>0, CountMore DEF CountsOK
<1> QED
  BY <1>n, <1>0, <1>1 DEF CountsOK, Rounds

\* Initially there are no subscriptions.
LEMMA InitTypeInv == Init => TypeInv
<1> SUFFICES ASSUME Init PROVE TypeInv
  OBVIOUS
<1> USE MaxSubscriptionsAssumption DEF Init
<1>0. NoPackets \in Counts
  BY DEF NoPackets, Counts
<1>1. TypeOK
  <2>1. subscription_counter \in Ids /\ count \in 0 .. MaxSubscriptions
    BY DEF Ids
  <2>2. subscriptions \in [Ids -> Serials \cup {None}]
    BY DEF Ids
  <2>3. sub \in [Serials -> [id : Ids, is_renew : BOOLEAN]]
    BY <2>1
  <2> QED
    BY <1>0, <2>1, <2>2, <2>3 DEF TypeOK
<1>2. Made = {}
  BY DEF Made
<1>3. \A n \in Serials : Rounds(n) = 0
  BY DEF NoPackets, Rounds
<1> QED
  BY <1>1, <1>2, <1>3 DEF TypeInv, OnlyMade

\* Every step keeps the counts, and those of subscriptions not made at zero.
LEMMA NextCounts ==
  ASSUME TypeInv, [Next]_vars
  PROVE  CountsOK' /\ \A n \in Serials \ Made : Rounds(n)' = 0
<1>0. CountsOK /\ \A n \in Serials \ Made : Rounds(n) = 0
  BY DEF TypeInv, TypeOK, OnlyMade, CountsOK
<1>1. ASSUME NEW t \in Processes, SendStart(t)
      PROVE  CountsOK' /\ \A n \in Serials \ Made : Rounds(n)' = 0
  <2>1. cur[t] \in Made /\ cur[t] \in Serials
    <3>1. cur[t] \in Made
      BY <1>1 DEF TypeInv, OnlyMade, SendStart
    <3> QED
      BY <3>1, MaxSubscriptionsAssumption DEF TypeInv, TypeOK, Made, Serials
  <2> QED
    BY <1>0, <1>1, <2>1, StartBegins
<1>2. ASSUME NEW n \in Serials, dones[n] > 0, HandleDone(n)
      PROVE  CountsOK' /\ \A m \in Serials \ Made : Rounds(m)' = 0
  <2>0. dones[n] \in Nat /\ starts[n] \in Nat /\ active[n] \in Nat
    BY <1>0, CountNat DEF CountsOK
  <2>1. n \in Made
    BY <1>0, <1>2, <2>0 DEF Rounds
  <2>2. subscriptions[Id(n)] \in Made \cup {None}
    <3>1. Id(n) \in Ids
      BY DEF TypeInv, TypeOK, Id
    <3> QED
      BY <3>1 DEF TypeInv, OnlyMade
  <2>3. ASSUME NEW m \in Serials \ Made PROVE m # subscriptions[Id(n)] /\ m # n
    BY <2>1, <2>2 DEF None, Serials
  <2> QED
    BY <1>0, <1>2, <2>3, DoneRestarts
<1>3. ASSUME NEW n \in Serials,
             \/ starts[n] > 0 /\ DeviceStart(n)
             \/ active[n] > 0 /\ DeviceDone(n)
             \/ Lose(n) /\ values' = values
             \/ Duplicate(n)
      PROVE  CountsOK' /\ \A m \in Serials \ Made : Rounds(m)' = 0
  <2>1. CountsOK' /\ Moved(n)
    BY <1>0, <1>3, NetworkMoves
  <2>2. n \in Made
    BY <1>0, <2>1 DEF Moved
  <2> QED
    BY <1>0, <2>1, <2>2 DEF Moved
<1>4. CASE UNCHANGED <<starts, active, dones, copied>>
  BY <1>0, <1>4 DEF CountsOK, Rounds
<1>5. \/ \E t \in Processes : SendStart(t)
      \/ \E n \in Serials : dones[n] > 0 /\ HandleDone(n)
      \/ \E n \in Serials : \/ starts[n] > 0 /\ DeviceStart(n)
                            \/ active[n] > 0 /\ DeviceDone(n)
                            \/ Lose(n) /\ values' = values
                            \/ Duplicate(n)
      \/ UNCHANGED <<starts, active, dones, copied>>
  BY DEF Next, CallStep, Round, vars, network, ReadCounter, WriteCounter, NoDevice,
         StoreEntry, HandleValue, Publish, Lose
<1> QED
  BY <1>1, <1>2, <1>3, <1>4, <1>5

\* Every action keeps the types.
LEMMA NextTypeInv == TypeInv /\ [Next]_vars => TypeInv'
<1> SUFFICES ASSUME TypeInv, [Next]_vars PROVE TypeInv'
  OBVIOUS
<1> USE MaxSubscriptionsAssumption
        DEF TypeInv, TypeOK, OnlyMade, Made, Serials, Ids, Id, None, Goto,
            manager, caller, network
<1>c. CountsOK' /\ \A n \in Serials \ Made : Rounds(n)' = 0
  BY NextCounts
<1> USE <1>c DEF CountsOK
<1>1. ASSUME NEW t \in Processes, NEW renew \in BOOLEAN, ReadCounter(t, renew)
      PROVE  TypeInv'
  <2>1. count \in Serials /\ count' = count + 1 /\ count' \in 0 .. MaxSubscriptions
    BY <1>1 DEF ReadCounter
  <2>2. sub' \in [Serials -> [id : Ids, is_renew : BOOLEAN]]
    BY <1>1 DEF ReadCounter
  <2>3. TypeOK'
    BY <1>1, <2>1, <2>2 DEF ReadCounter
  <2>4. \A n \in Made' : sub'[n].id \in 0 .. count' - 1
    BY <1>1, <2>1 DEF ReadCounter
  <2>5. Made \subseteq Made' /\ count \in Made'
    BY <2>1
  <2>6. \A u \in Processes : pc'[u] # "idle" => cur'[u] \in Made'
    BY <1>1, <2>1, <2>5 DEF ReadCounter
  <2>7. UNCHANGED <<manager, network>>
    BY <1>1 DEF ReadCounter
  <2> QED
    BY <2>1, <2>3, <2>4, <2>5, <2>6, <2>7
<1>2. ASSUME NEW t \in Processes, WriteCounter(t) PROVE TypeInv'
  <2>1. cur[t] \in Made /\ subscription_counter' = sub[cur[t]].id + 1
    BY <1>2 DEF WriteCounter, NextId
  <2>2. subscription_counter' \in 0 .. count /\ subscription_counter' \in Ids
    BY <2>1
  <2> QED
    BY <1>2, <2>1, <2>2 DEF WriteCounter
<1>3. ASSUME NEW t \in Processes, NoDevice(t) PROVE TypeInv'
  BY <1>3 DEF NoDevice
<1>4. ASSUME NEW t \in Processes, StoreEntry(t) PROVE TypeInv'
  BY <1>4 DEF StoreEntry
<1>5. ASSUME NEW t \in Processes, SendStart(t) PROVE TypeInv'
  <2>1. cur[t] \in Made /\ cur[t] \in Serials
    BY <1>5 DEF SendStart
  <2> QED
    BY <1>5, <2>1 DEF SendStart
<1>6. ASSUME NEW n \in values, HandleValue(n) PROVE TypeInv'
  <2>1. n \in Serials /\ sub[n].id \in Ids
    BY DEF TypeInv
  <2>2. subscriptions[Id(n)] = None \/ subscriptions[Id(n)] \in Serials
    BY <2>1
  <2>3. received' \subseteq Serials \X Serials
    BY <1>6, <2>1, <2>2 DEF HandleValue
  <2> QED
    BY <1>6, <2>3 DEF HandleValue
<1>7. ASSUME NEW n \in Serials, HandleDone(n) PROVE TypeInv'
  BY <1>7 DEF HandleDone
<1>8. ASSUME NEW n \in Serials, DeviceStart(n) PROVE TypeInv'
  BY <1>8 DEF DeviceStart
<1>9. ASSUME NEW n \in Serials, Publish(n) PROVE TypeInv'
  <2>1. n \in Made
    <3>1. starts[n] \in Nat /\ active[n] \in Nat /\ dones[n] \in Nat
      BY CountNat
    <3>2. active[n] > 0
      BY <1>9 DEF Publish
    <3>3. Rounds(n) # 0
      BY ONLY <3>1, <3>2 DEF Rounds
    <3> QED
      BY <3>3
  <2> QED
    BY <1>9, <2>1 DEF Publish
<1>10. ASSUME NEW n \in Serials, DeviceDone(n) PROVE TypeInv'
  BY <1>10 DEF DeviceDone
<1>11. ASSUME NEW n \in Serials, Lose(n) PROVE TypeInv'
  BY <1>11 DEF Lose
<1>13. ASSUME NEW n \in Serials, Duplicate(n) PROVE TypeInv'
  BY <1>13 DEF Duplicate
<1>12. CASE UNCHANGED vars
  BY <1>12 DEF vars
<1> QED
  BY <1>1, <1>2, <1>3, <1>4, <1>5, <1>6, <1>7, <1>8, <1>9, <1>10, <1>11, <1>12, <1>13
  DEF Next, CallStep, Round

\* The variables have their types.
THEOREM TypeCorrect == Spec => []TypeOK
<1>1. Spec => []TypeInv
  BY InitTypeInv, NextTypeInv, PTL DEF Spec
<1> QED
  BY <1>1, PTL DEF TypeInv

\* Until two threads race for the counter, ids are handed out in order: the
\* counter is one behind while a thread is inside the increment, and what is
\* stored under an id is the subscription of that number.
InOrder ==
  /\ \A n \in Made : Id(n) = n
  /\ \A t \in Processes : pc[t] = "increment" => cur[t] = count - 1
  /\ (\A t \in Processes : pc[t] # "increment") => subscription_counter = count
  /\ \A i \in Ids : subscriptions[i] \in {None, i}

\* No two threads make the same subscription.
OwnSubscription ==
  \A t, u \in Processes :
    t # u /\ pc[t] # "idle" /\ pc[u] # "idle" => cur[t] # cur[u]

\* A subscription has one round and those of its copied packets, and none while
\* a thread still makes it.
OneRound ==
  /\ \A n \in Serials : Rounds(n) <= 1 + copied[n]
  /\ \A t \in Processes : pc[t] # "idle" => Rounds(cur[t]) = 0

OrderInv ==
  /\ OwnSubscription
  /\ raced \/ (InOrder /\ OneRound /\ \A mn \in received : mn[1] = mn[2])

\* Initially nothing is under way.
LEMMA InitOrderInv == Init => OrderInv
  BY DEF Init, OrderInv, OwnSubscription, InOrder, OneRound, Rounds, NoPackets, Made, None

\* A thread inside subscribe_action keeps its subscription.
LEMMA NextOwnSubscription ==
  TypeInv /\ OwnSubscription /\ [Next]_vars => OwnSubscription'
<1> SUFFICES ASSUME TypeInv, OwnSubscription, [Next]_vars PROVE OwnSubscription'
  OBVIOUS
<1> USE DEF TypeInv, TypeOK, OnlyMade, Made, OwnSubscription, Goto
<1>1. ASSUME NEW t \in Processes, NEW renew \in BOOLEAN, ReadCounter(t, renew)
      PROVE  OwnSubscription'
  BY <1>1 DEF ReadCounter
<1>2. ASSUME NEW t \in Processes, CallStep(t) PROVE OwnSubscription'
  BY <1>2 DEF CallStep, WriteCounter, NoDevice, StoreEntry, SendStart
<1>3. CASE UNCHANGED <<pc, cur>>
  BY <1>3
<1>4. \/ \E t \in Processes : CallStep(t) \/ \E renew \in BOOLEAN : ReadCounter(t, renew)
      \/ UNCHANGED <<pc, cur>>
  BY DEF Next, Round, vars, caller, HandleValue, HandleDone, DeviceStart, Publish,
         DeviceDone, Lose, Duplicate
<1> QED
  BY <1>1, <1>2, <1>3, <1>4

\* As long as each id names one subscription, no step makes a second round.
LEMMA NextOneRound ==
  ASSUME TypeInv, OwnSubscription, InOrder, OneRound, [Next]_vars
  PROVE  OneRound'
<1>0. CountsOK /\ \A n \in Serials \ Made : Rounds(n) = 0
  BY DEF TypeInv, TypeOK, OnlyMade, CountsOK
<1>n. \A n \in Serials : Rounds(n) \in Nat /\ copied[n] \in Nat
  BY <1>0, CountNat DEF CountsOK, Rounds
<1>m. /\ Made \subseteq Serials
      /\ \A t \in Processes : pc[t] # "idle" => cur[t] \in Made
      /\ pc \in [Processes -> {"idle", "increment", "store", "start"}]
      /\ DOMAIN cur = Processes
  BY MaxSubscriptionsAssumption DEF TypeInv, TypeOK, OnlyMade, Made, Serials
\* A new subscription has no packets yet.
<1>1. ASSUME NEW t \in Processes, NEW renew \in BOOLEAN, ReadCounter(t, renew)
      PROVE  OneRound'
  <2>1. count \in Serials \ Made
    BY <1>1, MaxSubscriptionsAssumption
    DEF ReadCounter, TypeInv, TypeOK, Made, Serials
  <2>2. UNCHANGED <<starts, active, dones, copied>>
    BY <1>1 DEF ReadCounter, network
  <2>3. ASSUME NEW u \in Processes, pc'[u] # "idle" PROVE Rounds(cur[u])' = 0
    <3>1. CASE u = t
      <4>1. cur'[u] = count /\ Rounds(count) = 0
        BY <1>0, <1>1, <1>m, <2>1, <3>1 DEF ReadCounter
      <4> QED
        BY <2>2, <4>1 DEF Rounds
    <3>2. CASE u # t
      <4>1. cur'[u] = cur[u] /\ pc[u] # "idle"
        BY <1>1, <1>m, <2>3, <3>2 DEF ReadCounter, Goto
      <4>2. Rounds(cur[u]) = 0
        BY <4>1 DEF OneRound
      <4> QED
        BY <2>2, <4>1, <4>2 DEF Rounds
    <3> QED
      BY <3>1, <3>2
  <2> QED
    BY <2>2, <2>3 DEF OneRound, Rounds
<1>2. ASSUME NEW t \in Processes, SendStart(t) PROVE OneRound'
  <2>1. cur[t] \in Serials /\ Rounds(cur[t]) = 0 /\ cur' = cur
    BY <1>2, <1>m DEF SendStart, OneRound
  <2>2. /\ copied' = copied /\ Rounds(cur[t])' = 1
        /\ \A m \in Serials : m # cur[t] => Rounds(m)' = Rounds(m)
    BY <1>0, <1>2, <2>1, StartBegins
  <2>3. ASSUME NEW u \in Processes, pc'[u] # "idle"
        PROVE  u # t /\ pc[u] # "idle" /\ cur[u] # cur[t]
    BY <1>2, <1>m, <2>3 DEF SendStart, Goto, OwnSubscription
  <2>4. ASSUME NEW u \in Processes, pc'[u] # "idle" PROVE Rounds(cur[u])' = 0
    <3>1. cur[u] \in Serials /\ Rounds(cur[u]) = 0 /\ cur[u] # cur[t] /\ cur'[u] = cur[u]
      BY <1>m, <2>1, <2>3, <2>4 DEF OneRound
    <3>2. \A m \in Serials : m # cur[t] /\ Rounds(m) = 0 => Rounds(m)' = 0
      BY <2>2
    <3> QED
      BY <2>1, <3>1, <3>2 DEF Rounds
  <2>5. ASSUME NEW m \in Serials PROVE Rounds(m)' <= 1 + copied'[m]
    <3>1. Rounds(m) <= 1 + copied[m]
      BY DEF OneRound
    <3> QED
      BY <1>n, <2>1, <2>2, <3>1
  <2> QED
    BY <2>1, <2>4, <2>5 DEF OneRound, Rounds
\* Other threads' subscriptions have no packets that could move.
<1>3. ASSUME NEW n \in Serials, Moved(n), UNCHANGED <<pc, cur>> PROVE OneRound'
  <2>1. ASSUME NEW u \in Processes, pc'[u] # "idle" PROVE Rounds(cur[u])' = 0
    <3>1. cur[u] \in Serials /\ Rounds(cur[u]) = 0
      BY <1>3, <1>m, <2>1 DEF OneRound
    <3> QED
      BY <1>3, <3>1 DEF Moved
  <2>2. ASSUME NEW m \in Serials PROVE Rounds(m)' <= 1 + copied'[m]
    <3>1. Rounds(m) <= 1 + copied[m]
      BY DEF OneRound
    <3>2. CASE m = n
      <4> DEFINE now == Rounds(n)  then == Rounds(n)'
      <4>1. /\ then + copied[n] <= now + copied'[n] /\ now <= 1 + copied[n]
            /\ now \in Nat /\ then \in Nat /\ copied[n] \in Nat /\ copied'[n] \in Nat
        BY <1>3, <1>n, <3>1, <3>2 DEF Moved
      <4> HIDE DEF now, then
      <4>2. then <= 1 + copied'[n]
        BY <4>1
      <4> QED
        BY <3>2, <4>2 DEF then
    <3> QED
      BY <1>3, <3>1, <3>2 DEF Moved
  <2> QED
    BY <1>3, <2>1, <2>2 DEF OneRound, Rounds
<1>4. ASSUME NEW n \in Serials, dones[n] > 0, HandleDone(n) PROVE OneRound'
  <2>1. subscriptions[Id(n)] \in {None, n}
    <3>1. dones[n] \in Nat /\ starts[n] \in Nat /\ active[n] \in Nat
      BY <1>0, CountNat DEF CountsOK
    <3>2. n \in Made /\ n \in Ids
      BY <1>0, <1>4, <3>1, MaxSubscriptionsAssumption DEF Rounds, Serials, Ids
    <3> QED
      BY <3>2 DEF InOrder
  <2>2. Moved(n)
    BY <1>0, <1>4, <2>1, DoneRestarts
  <2> QED
    BY <1>3, <1>4, <2>2 DEF HandleDone, caller
<1>5. ASSUME NEW n \in Serials,
             \/ starts[n] > 0 /\ DeviceStart(n)
             \/ active[n] > 0 /\ DeviceDone(n)
             \/ Lose(n) /\ values' = values
             \/ Duplicate(n)
      PROVE  OneRound'
  <2>1. UNCHANGED <<pc, cur>>
    BY <1>5 DEF DeviceStart, DeviceDone, Lose, Duplicate, caller
  <2> QED
    BY <1>0, <1>3, <1>5, <2>1, NetworkMoves
<1>6. ASSUME UNCHANGED <<cur, starts, active, dones, copied>>,
             \A u \in Processes : pc'[u] # "idle" => pc[u] # "idle"
      PROVE  OneRound'
  BY <1>6 DEF OneRound, Rounds
<1>7. ASSUME NEW t \in Processes, WriteCounter(t) \/ NoDevice(t) \/ StoreEntry(t)
      PROVE  OneRound'
  <2>1. /\ UNCHANGED <<cur, starts, active, dones, copied>>
        /\ \A u \in Processes : pc'[u] # "idle" => pc[u] # "idle"
    BY <1>7, <1>m DEF WriteCounter, NoDevice, StoreEntry, Goto, network
  <2> QED
    BY <1>6, <2>1
<1>8. \/ \E t \in Processes : SendStart(t)
      \/ \E t \in Processes : \E renew \in BOOLEAN : ReadCounter(t, renew)
      \/ \E t \in Processes : WriteCounter(t) \/ NoDevice(t) \/ StoreEntry(t)
      \/ \E n \in Serials : dones[n] > 0 /\ HandleDone(n)
      \/ \E n \in Serials : \/ starts[n] > 0 /\ DeviceStart(n)
                            \/ active[n] > 0 /\ DeviceDone(n)
                            \/ Lose(n) /\ values' = values
                            \/ Duplicate(n)
      \/ UNCHANGED <<pc, cur, starts, active, dones, copied>>
  BY DEF Next, CallStep, Round, vars, caller, network, HandleValue, Publish, Lose
<1>9. CASE UNCHANGED <<pc, cur, starts, active, dones, copied>>
  BY <1>6, <1>9
<1> QED
  BY <1>1, <1>2, <1>4, <1>5, <1>7, <1>8, <1>9

\* Every step keeps the order, unless the counter is raced.
LEMMA NextOrderInv == TypeInv /\ OrderInv /\ [Next]_vars => OrderInv'
<1> SUFFICES ASSUME TypeInv, OrderInv, [Next]_vars, ~raced' PROVE OrderInv'
  BY NextOwnSubscription DEF OrderInv
<1>own. OwnSubscription'
  BY NextOwnSubscription DEF OrderInv
<1>0. /\ ~raced
      /\ InOrder /\ OneRound /\ \A mn \in received : mn[1] = mn[2]
      /\ OwnSubscription
  <2>1. raced => raced'
    BY DEF Next, CallStep, Round, vars, caller, ReadCounter, WriteCounter, NoDevice,
           StoreEntry, SendStart, HandleValue, HandleDone, DeviceStart, Publish,
           DeviceDone, Lose, Duplicate
  <2> QED
    BY <2>1 DEF OrderInv
<1> USE <1>0, MaxSubscriptionsAssumption
        DEF TypeInv, TypeOK, OnlyMade, Made, Serials, Ids, Id, None, Goto,
            manager, caller, network, InOrder
<1>one. OneRound'
  BY NextOneRound
<1>1. ASSUME NEW t \in Processes, NEW renew \in BOOLEAN, ReadCounter(t, renew)
      PROVE  OrderInv'
  <2>1. \A u \in Processes : pc[u] # "increment"
    BY <1>1 DEF ReadCounter
  <2>2. subscription_counter = count /\ count \in Serials /\ count' = count + 1
    BY <1>1, <2>1 DEF ReadCounter
  <2>3. \A n \in Made' : sub'[n].id = n
    BY <1>1, <2>2 DEF ReadCounter
  <2>4. InOrder'
    BY <1>1, <2>1, <2>2, <2>3 DEF ReadCounter
  <2> QED
    BY <1>1, <1>own, <1>one, <2>4 DEF ReadCounter, OrderInv
<1>2. ASSUME NEW t \in Processes, WriteCounter(t) PROVE OrderInv'
  <2>1. /\ subscription_counter' = count
        /\ \A u \in Processes : u # t => pc[u] # "increment"
    BY <1>2 DEF WriteCounter, NextId, OwnSubscription
  <2> QED
    BY <1>2, <1>own, <1>one, <2>1 DEF WriteCounter, OrderInv
<1>3. ASSUME NEW t \in Processes, NoDevice(t) PROVE OrderInv'
  BY <1>3, <1>own, <1>one DEF NoDevice, OrderInv
<1>4. ASSUME NEW t \in Processes, StoreEntry(t) PROVE OrderInv'
  BY <1>4, <1>own, <1>one DEF StoreEntry, OrderInv
<1>5. ASSUME NEW t \in Processes, SendStart(t) PROVE OrderInv'
  <2>1. InOrder'
    BY <1>5 DEF SendStart
  <2> QED
    BY <1>5, <1>own, <1>one, <2>1 DEF SendStart, OrderInv
<1>6. ASSUME NEW n \in values, HandleValue(n) PROVE OrderInv'
  BY <1>6, <1>own, <1>one DEF HandleValue, OrderInv
<1>7. ASSUME NEW n \in Serials, HandleDone(n) PROVE OrderInv'
  BY <1>7, <1>own, <1>one DEF HandleDone, OrderInv
<1>8. ASSUME NEW n \in Serials, DeviceStart(n) PROVE OrderInv'
  BY <1>8, <1>own, <1>one DEF DeviceStart, OrderInv
<1>9. ASSUME NEW n \in Serials, Publish(n) PROVE OrderInv'
  BY <1>9, <1>own, <1>one DEF Publish, OrderInv
<1>10. ASSUME NEW n \in Serials, DeviceDone(n) PROVE OrderInv'
  BY <1>10, <1>own, <1>one DEF DeviceDone, OrderInv
<1>11. ASSUME NEW n \in Serials, Lose(n) PROVE OrderInv'
  BY <1>11, <1>own, <1>one DEF Lose, OrderInv
<1>13. ASSUME NEW n \in Serials, Duplicate(n) PROVE OrderInv'
  BY <1>13, <1>own, <1>one DEF Duplicate, OrderInv
<1>12. CASE UNCHANGED vars
  BY <1>12, <1>own, <1>one DEF vars, OrderInv
<1> QED
  BY <1>1, <1>2, <1>3, <1>4, <1>5, <1>6, <1>7, <1>8, <1>9, <1>10, <1>11, <1>12, <1>13
  DEF Next, CallStep, Round

\* So it is in every behaviour: unless the counter was raced, ids count the
\* subscriptions, and each is in one round.
THEOREM OrderInvariant == Spec => []OrderInv
<1>1. Init /\ [][Next]_vars => []TypeInv
  BY InitTypeInv, NextTypeInv, PTL
<1> QED
  BY <1>1, InitOrderInv, NextOrderInv, PTL DEF Spec

\* Two subscriptions have one id only if two threads were in the increment of
\* subscription_counter at once.
THEOREM IdsAreDistinct == Spec => []IdsDistinct
<1>1. OrderInv => IdsDistinct
  BY DEF OrderInv, InOrder, IdsDistinct
<1> QED
  BY <1>1, OrderInvariant, PTL

\* Values come to the callback of their own subscription, unless ids were raced
\* for.
THEOREM ValuesComeToTheirOwn == Spec => []ValuesAreOwn
<1>1. OrderInv => ValuesAreOwn
  BY DEF OrderInv, ValuesAreOwn
<1> QED
  BY <1>1, OrderInvariant, PTL

\* However often a subscription is renewed, it has one round and one more for
\* each START or DONE the network delivered twice, unless ids were raced for.
THEOREM RoundsDoNotOverlap == Spec => []OneRoundAtATime
<1>1. OrderInv => OneRoundAtATime
  BY DEF OrderInv, OneRound, OneRoundAtATime
<1> QED
  BY <1>1, OrderInvariant, PTL
=============================================================================
