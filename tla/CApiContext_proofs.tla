------------------------- MODULE CApiContext_proofs -------------------------
(* Proofs about CApiContext and the DeviceDirectory it is built on, for every
   value of their constants: first the directory's, then that they hold of the
   process too. *)
EXTENDS CApiContext, FiniteSetTheorems, TLAPS

(* DeviceDirectory *)

\* What the proofs need of the types of the histories.
HistoryType ==
  /\ made \in [Devices -> Seq(Layouts)]
  /\ present \subseteq {d \in Devices : Gen(d) > 0}
  /\ announced \in [Devices -> Nat]

\* d was made with this list in generation gen.
WasMade(d, gen, actions) ==
  /\ d \in Devices
  /\ gen \in 1 .. Gen(d)
  /\ actions = made[d][gen]

\* A HELLO says what its device was made with.
HellosTrue == \A h \in hellos : WasMade(h.device, h.gen, h.actions)

\* The controller's entry is what one of the HELLOs made of it.
KnownTrue ==
  /\ known = [d \in Devices |-> known[d]]
  /\ \A d \in Devices :
       \/ known[d] = Unknown
       \/ /\ known[d].gen \in 1 .. Gen(d)
          /\ known[d].actions = ActionsMap(made[d][known[d].gen])

\* The position in a request is that of the name, in the list the controller
\* had it from.
RequestsTrue ==
  \A r \in requests :
    /\ r.device \in Devices
    /\ r.gen \in 1 .. Gen(r.device)
    /\ r.action \in DOMAIN made[r.device][r.gen]
    /\ r.name = made[r.device][r.gen][r.action]

\* Outcomes are of devices that were made, or were not there yet.
OutcomesMade ==
  \A o \in outcomes : o.call.device \in Devices /\ o.gen \in 0 .. Gen(o.call.device)

DirectoryInv ==
  HistoryType /\ HellosTrue /\ KnownTrue /\ RequestsTrue /\ OutcomesMade

\* Making a device anew does not change what it was made with before.
LEMMA MadeGrows ==
  ASSUME HistoryType, NEW d \in Devices, NEW layout \in Layouts,
         CreateDevice(d, layout)
  PROVE  /\ made' \in [Devices -> Seq(Layouts)]
         /\ \A e \in Devices :
              /\ Gen(e)' >= Gen(e)
              /\ \A gen \in 1 .. Gen(e) : made'[e][gen] = made[e][gen]
<1>1. made[d] \in Seq(Layouts)
  BY DEF HistoryType
<1>2. made' = [made EXCEPT ![d] = Append(made[d], layout)]
  BY DEF CreateDevice
<1>3. /\ Append(made[d], layout) \in Seq(Layouts)
      /\ Len(Append(made[d], layout)) = Len(made[d]) + 1
      /\ \A gen \in 1 .. Len(made[d]) : Append(made[d], layout)[gen] = made[d][gen]
  BY <1>1
<1> QED
  BY <1>2, <1>3 DEF HistoryType, Gen

\* Only CreateDevice changes what devices were made with; it adds to it.
LEMMA NextMade ==
  ASSUME HistoryType, [Next]_vars
  PROVE  /\ made' \in [Devices -> Seq(Layouts)]
         /\ \A d \in Devices :
              /\ Gen(d)' >= Gen(d)
              /\ \A gen \in 1 .. Gen(d) : made'[d][gen] = made[d][gen]
<1>1. ASSUME NEW d \in Devices, NEW layout \in Layouts, CreateDevice(d, layout)
      PROVE  /\ made' \in [Devices -> Seq(Layouts)]
             /\ \A e \in Devices :
                  /\ Gen(e)' >= Gen(e)
                  /\ \A gen \in 1 .. Gen(e) : made'[e][gen] = made[e][gen]
  BY <1>1, MadeGrows
<1>2. ASSUME UNCHANGED made
      PROVE  /\ made' \in [Devices -> Seq(Layouts)]
             /\ \A e \in Devices :
                  /\ Gen(e)' >= Gen(e)
                  /\ \A gen \in 1 .. Gen(e) : made'[e][gen] = made[e][gen]
  BY <1>2 DEF HistoryType, Gen
<1>3. (\E d \in Devices, layout \in Layouts : CreateDevice(d, layout)) \/ UNCHANGED made
  BY DEF Next, vars, device, RemoveDevice, Hello, Announce, CallByName,
         HandleHello, Register, OnAction, Lose
<1> QED
  BY <1>1, <1>2, <1>3

\* Initially there are no packets, entries or calls.
LEMMA InitDirectoryInv == Init => DirectoryInv
  BY DEF Init, DirectoryInv, HistoryType, HellosTrue, KnownTrue, RequestsTrue,
         OutcomesMade, WasMade, Gen

\* The histories keep their types.
LEMMA NextHistoryType == DirectoryInv /\ [Next]_vars => HistoryType'
<1> SUFFICES ASSUME DirectoryInv, [Next]_vars PROVE HistoryType'
  OBVIOUS
<1> USE DEF DirectoryInv, HistoryType
<1>1. /\ made' \in [Devices -> Seq(Layouts)]
      /\ \A d \in Devices : Gen(d)' >= Gen(d)
  BY NextMade
<1>2. present' \subseteq {d \in Devices : Gen(d)' > 0}
  <2>1. ASSUME NEW d \in Devices, NEW layout \in Layouts, CreateDevice(d, layout)
        PROVE  Gen(d)' > 0
    BY <2>1 DEF CreateDevice, Gen
  <2>2. \A d \in Devices : Gen(d) \in Nat /\ Gen(d)' \in Nat
    BY <1>1 DEF Gen
  <2>3. \/ present' \subseteq present
        \/ \E d \in Devices, layout \in Layouts :
             CreateDevice(d, layout) /\ present' = present \cup {d}
    BY DEF Next, vars, device, CreateDevice, RemoveDevice, Hello, Announce, CallByName,
           HandleHello, Register, OnAction, Lose
  <2> QED
    BY <1>1, <2>1, <2>2, <2>3
<1>3. announced' \in [Devices -> Nat]
  <2>1. \/ UNCHANGED announced
        \/ \E d \in Devices : announced' = [announced EXCEPT ![d] = @ + 1]
    BY DEF Next, vars, observed, CreateDevice, RemoveDevice, Hello, Announce, CallByName,
           HandleHello, Register, OnAction, Lose
  <2>2. ASSUME NEW d \in Devices, announced' = [announced EXCEPT ![d] = @ + 1]
        PROVE  announced' \in [Devices -> Nat]
    BY <2>2
  <2> QED
    BY <2>1, <2>2
<1> QED
  BY <1>1, <1>2, <1>3

\* A HELLO is built from what the device has at that time.
LEMMA NextHellosTrue == DirectoryInv /\ [Next]_vars => HellosTrue'
<1> SUFFICES ASSUME DirectoryInv, [Next]_vars PROVE HellosTrue'
  OBVIOUS
<1> USE DEF DirectoryInv
<1>1. \A d \in Devices : /\ Gen(d) \in Nat /\ Gen(d)' \in Nat /\ Gen(d)' >= Gen(d)
                         /\ \A gen \in 1 .. Gen(d) : made'[d][gen] = made[d][gen]
  BY NextMade DEF HistoryType, Gen
<1>2. \A h \in hellos : WasMade(h.device, h.gen, h.actions)'
  BY <1>1 DEF HellosTrue, WasMade
<1>3. ASSUME NEW d \in Devices, Hello(d), NEW h \in hellos' \ hellos
      PROVE  WasMade(h.device, h.gen, h.actions)'
  <2>1. h = [device |-> d, gen |-> Gen(d), actions |-> made[d][Gen(d)]]
    BY <1>3 DEF Hello, api_actions
  <2>2. Gen(d) > 0 /\ made' = made
    BY <1>3 DEF Hello, HistoryType, device
  <2> QED
    BY <1>1, <2>1, <2>2 DEF WasMade, Gen
<1>4. hellos' \subseteq hellos \/ \E d \in Devices : Hello(d)
  BY DEF Next, vars, CreateDevice, RemoveDevice, Announce, CallByName,
         HandleHello, Register, OnAction, Lose, LosePacket
<1> QED
  BY <1>2, <1>3, <1>4 DEF HellosTrue

\* An entry is what the loop of LogDeviceInfo makes of a HELLO.
LEMMA NextKnownTrue == DirectoryInv /\ [Next]_vars => KnownTrue'
<1> SUFFICES ASSUME DirectoryInv, [Next]_vars PROVE KnownTrue'
  OBVIOUS
<1> USE DEF DirectoryInv
<1>1. \A d \in Devices : /\ Gen(d) \in Nat /\ Gen(d)' \in Nat /\ Gen(d)' >= Gen(d)
                         /\ \A gen \in 1 .. Gen(d) : made'[d][gen] = made[d][gen]
  BY NextMade DEF HistoryType, Gen
<1>2. CASE UNCHANGED known
  <2>1. ASSUME NEW d \in Devices, known[d] # Unknown
        PROVE  /\ known[d].gen \in 1 .. Gen(d)'
               /\ known[d].actions = ActionsMap(made'[d][known[d].gen])
    <3>1. known[d].gen \in 1 .. Gen(d) /\ known[d].actions = ActionsMap(made[d][known[d].gen])
      BY <2>1 DEF KnownTrue
    <3> QED
      BY <1>1, <3>1
  <2> QED
    BY <1>2, <2>1 DEF KnownTrue
<1>3. ASSUME NEW h \in hellos, HandleHello(h) PROVE KnownTrue'
  <2> DEFINE info == [gen |-> h.gen, actions |-> ActionsMap(h.actions)]
  <2>1. h.device \in Devices /\ h.gen \in 1 .. Gen(h.device)
        /\ info.actions = ActionsMap(made[h.device][h.gen]) /\ info.gen = h.gen
    BY DEF HellosTrue, WasMade
  <2>2. known' = [known EXCEPT ![h.device] = Emplaced(@, info)]
    BY <1>3 DEF HandleHello
  <2>3. UNCHANGED made
    BY <1>3 DEF HandleHello, device
  <2> HIDE DEF info
  <2>4. known' = [d \in Devices |-> known'[d]]
    BY <2>2 DEF KnownTrue
  <2>5. ASSUME NEW d \in Devices
        PROVE  known'[d] = known[d] \/ (d = h.device /\ known'[d] = info)
    BY <2>2 DEF KnownTrue, Emplaced
  <2> QED
    BY <2>1, <2>3, <2>4, <2>5 DEF KnownTrue, Gen
<1>4. UNCHANGED known \/ \E h \in hellos : HandleHello(h)
  BY DEF Next, vars, CreateDevice, RemoveDevice, Hello, Announce, CallByName,
         Register, OnAction, Lose
<1> QED
  BY <1>2, <1>3, <1>4

\* Devices are made with lists of names.
LEMMA MadeOfNames ==
  ASSUME HistoryType, NEW d \in Devices, NEW gen \in 1 .. Gen(d)
  PROVE  made[d][gen] \in Seq(Names \cup {EmptyName})
<1>1. made[d] \in Seq(Layouts) /\ gen \in 1 .. Len(made[d])
  BY DEF HistoryType, Gen
<1>2. made[d][gen] \in Layouts
  BY <1>1
<1> QED
  BY <1>2, LayoutsAssumption

\* What LogDeviceInfo's loop keeps is as it was; what it leaves out is not in
\* front of the first action without a name.
LEMMA ActionsRead ==
  ASSUME NEW actions
  PROVE  /\ \A i \in DOMAIN ActionsMap(actions) :
              i \in DOMAIN actions /\ ActionsMap(actions)[i] = actions[i]
         /\ \A i \in DOMAIN actions \ DOMAIN ActionsMap(actions) :
              \E j \in 1 .. i : actions[j] = EmptyName
  BY DEF ActionsMap

\* A name is found at a position that has it on the device, too, as long as the
\* device is the one the controller knows.
LEMMA LookupTrue ==
  ASSUME KnownTrue, NEW d \in Devices, NEW name, NEW i \in LookupAction(d, name)
  PROVE  /\ known[d].gen \in 1 .. Gen(d)
         /\ i \in DOMAIN made[d][known[d].gen]
         /\ name = made[d][known[d].gen][i]
<1>1. i \in DOMAIN known[d].actions /\ known[d].actions[i] = name
  BY DEF LookupAction
<1>2. known[d] # Unknown
  BY <1>1 DEF Unknown
<1>3. known[d].gen \in 1 .. Gen(d) /\ known[d].actions = ActionsMap(made[d][known[d].gen])
  BY <1>2 DEF KnownTrue
<1> QED
  BY <1>1, <1>3, ActionsRead

\* A request is made from an entry.
LEMMA NextRequestsTrue == DirectoryInv /\ [Next]_vars => RequestsTrue'
<1> SUFFICES ASSUME DirectoryInv, [Next]_vars PROVE RequestsTrue'
  OBVIOUS
<1> USE DEF DirectoryInv
<1>1. \A d \in Devices : /\ Gen(d) \in Nat /\ Gen(d)' \in Nat /\ Gen(d)' >= Gen(d)
                         /\ \A gen \in 1 .. Gen(d) : made'[d][gen] = made[d][gen]
  BY NextMade DEF HistoryType, Gen
<1>2. CASE requests' \subseteq requests
  BY <1>1, <1>2 DEF RequestsTrue
<1>3. ASSUME NEW d \in Devices, NEW name \in Names, CallByName(d, name),
             ~(requests' \subseteq requests)
      PROVE  RequestsTrue'
  <2>1. PICK i \in LookupAction(d, name) :
          requests' = requests \cup {[call |-> calls, device |-> d, name |-> name,
                                      action |-> i, gen |-> known[d].gen]}
    BY <1>3 DEF CallByName
  <2>2. /\ known[d].gen \in 1 .. Gen(d)
        /\ i \in DOMAIN made[d][known[d].gen]
        /\ name = made[d][known[d].gen][i]
    BY LookupTrue
  <2>3. made' = made
    BY <1>3 DEF CallByName, device
  <2> QED
    BY <2>1, <2>2, <2>3 DEF RequestsTrue, Gen
<1>4. requests' \subseteq requests \/ \E d \in Devices, name \in Names : CallByName(d, name)
  BY DEF Next, vars, CreateDevice, RemoveDevice, Hello, Announce, HandleHello,
         Register, OnAction, Lose, LosePacket
<1> QED
  BY <1>2, <1>3, <1>4

\* Every step that adds an outcome adds one of these.
LEMMA NextOutcomes ==
  ASSUME [Next]_vars, NEW o \in outcomes' \ outcomes
  PROVE  /\ UNCHANGED made
         /\ \/ \E r \in requests :
                 /\ o.call = r /\ o.gen = Gen(r.device)
                 /\ \/ /\ r.action \in DOMAIN api_actions(r.device)
                       /\ o.name = api_actions(r.device)[r.action]
                    \/ /\ r.action \notin DOMAIN api_actions(r.device)
                       /\ o.name = "undefined"
            \/ \E d \in Devices, name \in Names :
                 /\ LookupAction(d, name) = {}
                 /\ o.call.device = d /\ o.call.name = name
                 /\ o.call.action = None /\ o.call.gen = known[d].gen
                 /\ o.gen = Gen(d) /\ o.name = "not_found"
<1>1. \/ \E r \in requests : OnAction(r)
      \/ \E d \in Devices, name \in Names : CallByName(d, name)
  BY DEF Next, vars, CreateDevice, RemoveDevice, Hello, Announce, HandleHello,
         Register, Lose
<1>2. CASE \E r \in requests : OnAction(r)
  BY <1>2 DEF OnAction, device
<1>3. CASE \E d \in Devices, name \in Names : CallByName(d, name)
  BY <1>3 DEF CallByName, device
<1> QED
  BY <1>1, <1>2, <1>3

\* An outcome is that of a request, with a device as it is then.
LEMMA NextOutcomesMade == DirectoryInv /\ [Next]_vars => OutcomesMade'
<1> SUFFICES ASSUME DirectoryInv, [Next]_vars, NEW o \in outcomes'
             PROVE  o.call.device \in Devices /\ o.gen \in 0 .. Gen(o.call.device)'
  BY DEF OutcomesMade
<1> USE DEF DirectoryInv
<1>1. \A d \in Devices : Gen(d) \in Nat /\ Gen(d)' \in Nat /\ Gen(d)' >= Gen(d)
  BY NextMade DEF HistoryType, Gen
<1>2. CASE o \in outcomes
  BY <1>1, <1>2 DEF OutcomesMade
<1>3. CASE o \notin outcomes
  <2>1. UNCHANGED made /\ \E d \in Devices : o.call.device = d /\ o.gen = Gen(d)
    BY <1>3, NextOutcomes DEF RequestsTrue
  <2> QED
    BY <1>1, <2>1
<1> QED
  BY <1>2, <1>3

\* Every step keeps all of it.
LEMMA NextDirectoryInv == DirectoryInv /\ [Next]_vars => DirectoryInv'
  BY NextHistoryType, NextHellosTrue, NextKnownTrue, NextRequestsTrue,
     NextOutcomesMade DEF DirectoryInv

\* What packets, entries and requests say of a device was true of it when its
\* HELLO was built.
THEOREM DirectoryInvariant == Spec => []DirectoryInv
  BY InitDirectoryInv, NextDirectoryInv, PTL DEF Spec

\* A position is of the list its name was found in.
LEMMA NextRightAction == DirectoryInv /\ RightAction /\ [Next]_vars => RightAction'
<1> SUFFICES ASSUME DirectoryInv, RightAction, [Next]_vars, NEW o \in outcomes',
                    o.call.action # None, o.gen = o.call.gen
             PROVE  o.name = o.call.name
  BY DEF RightAction
<1>1. CASE o \in outcomes
  BY <1>1 DEF RightAction
<1>2. CASE o \notin outcomes
  <2>1. PICK r \in requests :
          /\ o.call = r /\ o.gen = Gen(r.device)
          /\ \/ /\ r.action \in DOMAIN api_actions(r.device)
                /\ o.name = api_actions(r.device)[r.action]
             \/ /\ r.action \notin DOMAIN api_actions(r.device)
                /\ o.name = "undefined"
    BY <1>2, NextOutcomes
  <2>2. r.gen = Gen(r.device) /\ r.action \in DOMAIN api_actions(r.device)
        /\ r.name = api_actions(r.device)[r.action]
    BY <2>1 DEF DirectoryInv, RequestsTrue, api_actions
  <2> QED
    BY <2>1, <2>2
<1> QED
  BY <1>1, <1>2

\* A call by name runs the action of that name, unless the device was removed
\* and made again after the HELLO the controller knows it by.
THEOREM NamesRunTheirActions == Spec => []RightAction
<1>1. Init => RightAction
  BY DEF Init, RightAction
<1> QED
  BY <1>1, NextRightAction, DirectoryInvariant, PTL DEF Spec

\* A lookup fails on the list of the HELLO, as far as the loop kept it.
LEMMA NextNotFound ==
  DirectoryInv /\ NotFoundIsNotThere /\ [Next]_vars => NotFoundIsNotThere'
<1> SUFFICES ASSUME DirectoryInv, NotFoundIsNotThere, [Next]_vars,
                    NEW o \in outcomes',
                    o.call.action = None, o.gen = o.call.gen, o.gen > 0,
                    NEW i \in DOMAIN made'[o.call.device][o.gen],
                    made'[o.call.device][o.gen][i] = o.call.name
             PROVE  \E j \in 1 .. i - 1 : made'[o.call.device][o.gen][j] = EmptyName
  BY DEF NotFoundIsNotThere
<1> USE DEF DirectoryInv
<1>1. CASE o \in outcomes
  <2>1. o.call.device \in Devices /\ o.gen \in 1 .. Gen(o.call.device)
    BY <1>1 DEF OutcomesMade
  <2>2. made'[o.call.device][o.gen] = made[o.call.device][o.gen]
    BY <2>1, NextMade
  <2> QED
    BY <1>1, <2>2 DEF NotFoundIsNotThere
<1>2. CASE o \notin outcomes
  <2>1. ~\E r \in requests : o.call = r
    <3>1. ASSUME NEW r \in requests PROVE r.action \in Nat
      <4>1. /\ made[r.device][r.gen] \in Seq(Names \cup {EmptyName})
            /\ r.action \in DOMAIN made[r.device][r.gen]
        BY MadeOfNames DEF RequestsTrue
      <4> QED
        BY <4>1
    <3> QED
      BY <3>1 DEF None
  <2>2. PICK d \in Devices, name \in Names :
          /\ LookupAction(d, name) = {}
          /\ o.call.device = d /\ o.call.name = name
          /\ o.call.gen = known[d].gen
          /\ o.gen = Gen(d)
    BY <1>2, <2>1, NextOutcomes
  <2> DEFINE actions == made[d][o.gen]
  <2>3. made' = made
    BY <1>2, NextOutcomes
  <2>4. known[d] # Unknown
    BY <2>2 DEF Unknown
  <2>5. known[d].actions = ActionsMap(actions)
    BY <2>2, <2>4 DEF KnownTrue
  <2>6. i \in DOMAIN actions /\ actions[i] = name
    BY <2>2, <2>3
  <2>7. i \notin DOMAIN ActionsMap(actions)
    BY <2>2, <2>5, <2>6, ActionsRead DEF LookupAction
  <2>8. PICK j \in 1 .. i : actions[j] = EmptyName
    BY <2>6, <2>7, ActionsRead
  <2>9. i \in Nat /\ j # i
    <3>1. actions \in Seq(Names \cup {EmptyName})
      BY <2>2, MadeOfNames DEF HistoryType, Gen
    <3> QED
      BY <3>1, <2>6, <2>8, NamesAssumption
  <2> QED
    BY <2>2, <2>3, <2>8, <2>9
<1> QED
  BY <1>1, <1>2

\* Of a device that is still the one the controller knows, a name is not found
\* only if the device has no such action, or has one without a name before it.
THEOREM NotFoundMeansNotThere == Spec => []NotFoundIsNotThere
<1>1. Init => NotFoundIsNotThere
  BY DEF Init, NotFoundIsNotThere
<1> QED
  BY <1>1, NextNotFound, DirectoryInvariant, PTL DEF Spec

\* Whether d is in a set, as a number.
LEMMA CountIn ==
  ASSUME NEW S, NEW d
  PROVE  Cardinality(S \cap {d}) = IF d \in S THEN 1 ELSE 0
<1>1. CASE d \in S
  <2>1. S \cap {d} = {d}
    BY <1>1
  <2> QED
    BY <1>1, <2>1, FS_Singleton
<1>2. CASE d \notin S
  <2>1. S \cap {d} = {}
    BY <1>2
  <2> QED
    BY <1>2, <2>1, FS_EmptySet
<1> QED
  BY <1>1, <1>2

\* What has become of the news of a device.
News(d) ==
  announced[d] + (IF d \in announcing THEN 1 ELSE 0) + (IF d \in missed THEN 1 ELSE 0)

Once == \A d \in Devices : News(d) = IF known[d] = Unknown THEN 0 ELSE 1

\* The two ways to say that a known device is announced once.
LEMMA OnceIsAnnouncedOnce == Once <=> AnnouncedOnceKnown
<1>1. ASSUME NEW d \in Devices
      PROVE  News(d) = announced[d] + Cardinality(announcing \cap {d})
                         + Cardinality(missed \cap {d})
  BY CountIn DEF News
<1> QED
  BY <1>1 DEF Once, AnnouncedOnceKnown

\* A device is news only while it is unknown.
LEMMA NextOnce == DirectoryInv /\ Once /\ [Next]_vars => Once'
<1> SUFFICES ASSUME DirectoryInv, Once, [Next]_vars, NEW d \in Devices
             PROVE  News(d)' = IF known'[d] = Unknown THEN 0 ELSE 1
  BY DEF Once
<1>1. /\ announced \in [Devices -> Nat]
      /\ News(d) = IF known[d] = Unknown THEN 0 ELSE 1
  BY DEF Once, DirectoryInv, HistoryType
<1>2. ASSUME NEW h \in hellos, HandleHello(h)
      PROVE  News(d)' = IF known'[d] = Unknown THEN 0 ELSE 1
  <2> DEFINE info == [gen |-> h.gen, actions |-> ActionsMap(h.actions)]
  <2>1. /\ UNCHANGED <<announced, missed>> /\ announcing = {}
        /\ announcing' = IF known[h.device] = Unknown THEN {h.device} ELSE {}
        /\ known' = [known EXCEPT ![h.device] = Emplaced(@, info)]
    BY <1>2 DEF HandleHello, IsNewDevice
  <2>2. h.device \in Devices /\ info # Unknown
    <3>1. h.device \in Devices /\ h.gen >= 1 /\ h.gen \in Nat
      BY DEF DirectoryInv, HistoryType, HellosTrue, WasMade, Gen
    <3>2. info.gen # Unknown.gen
      BY <3>1 DEF Unknown
    <3> QED
      BY <3>1, <3>2
  <2>3. known = [e \in Devices |-> known[e]]
    BY DEF DirectoryInv, KnownTrue
  <2> HIDE DEF info
  <2>4. CASE d = h.device
    BY <1>1, <2>1, <2>2, <2>3, <2>4 DEF News, Emplaced
  <2>5. CASE d # h.device
    BY <1>1, <2>1, <2>2, <2>3, <2>5 DEF News
  <2> QED
    BY <2>4, <2>5
<1>3. ASSUME NEW e \in Devices, Announce(e)
      PROVE  News(d)' = IF known'[d] = Unknown THEN 0 ELSE 1
  BY <1>1, <1>3 DEF Announce, News
<1>4. CASE UNCHANGED <<announced, announcing, missed, known>>
  BY <1>1, <1>4 DEF News
<1>5. \/ UNCHANGED <<announced, announcing, missed, known>>
      \/ \E h \in hellos : HandleHello(h)
      \/ \E e \in Devices : Announce(e)
  BY DEF Next, vars, observed, CreateDevice, RemoveDevice, Hello, CallByName,
         Register, OnAction, Lose
<1> QED
  BY <1>2, <1>3, <1>4, <1>5

\* The application is told of a device once at most, and lookups find it then.
THEOREM ToldOnce == Spec => []AnnouncedOnceKnown
<1>1. Init => Once
  BY DEF Init, Once, News
<1>2. Spec => []Once
  BY <1>1, NextOnce, DirectoryInvariant, PTL DEF Spec
<1> QED
  BY <1>2, OnceIsAnnouncedOnce, PTL

\* A finite set of numbers that has, with each, all smaller ones is 1 .. its size.
LEMMA FirstFew ==
  ASSUME NEW n \in Nat, NEW S \in SUBSET (1 .. n),
         \A i \in S : 1 .. i \subseteq S
  PROVE  S = 1 .. Cardinality(S)
<1>1. IsFiniteSet(S) /\ Cardinality(S) \in Nat
  <2>1. IsFiniteSet(1 .. n)
    BY FS_Interval
  <2>2. IsFiniteSet(S)
    BY <2>1, FS_Subset
  <2> QED
    BY <2>2, FS_CardinalityType
<1>2. ASSUME NEW i \in S PROVE i \in 1 .. Cardinality(S)
  <2>1. i \in Nat \ {0} /\ Cardinality(1 .. i) = i
    BY FS_Interval
  <2>2. Cardinality(1 .. i) <= Cardinality(S)
    BY <1>1, FS_Subset
  <2> QED
    BY <1>1, <2>1, <2>2
<1>3. /\ IsFiniteSet(1 .. Cardinality(S))
      /\ Cardinality(1 .. Cardinality(S)) = Cardinality(S)
  BY <1>1, FS_Interval
<1> QED
  BY <1>2, <1>3, FS_Subset

\* The loop of LogDeviceInfo keeps the first few actions of a list, all of them
\* with names.
LEMMA ActionsFirst ==
  ASSUME NEW actions \in Seq(Names \cup {EmptyName})
  PROVE  /\ DOMAIN ActionsMap(actions) = 1 .. Cardinality(DOMAIN ActionsMap(actions))
         /\ \A i \in DOMAIN ActionsMap(actions) : ActionsMap(actions)[i] \in Names
<1> DEFINE S == DOMAIN ActionsMap(actions)
<1>1. S = {i \in 1 .. Len(actions) : \A j \in 1 .. i : actions[j] # EmptyName}
  BY DEF ActionsMap
<1>2. \A i \in S : 1 .. i \subseteq S
  BY <1>1
<1>3. S \in SUBSET (1 .. Len(actions)) /\ Len(actions) \in Nat
  BY <1>1
<1> HIDE DEF S
<1>4. S = 1 .. Cardinality(S)
  BY <1>2, <1>3, FirstFew
<1>5. ASSUME NEW i \in S PROVE ActionsMap(actions)[i] \in Names
  <2>1. ActionsMap(actions)[i] = actions[i] /\ i \in 1 .. Len(actions)
    BY <1>3, ActionsRead DEF S
  <2>2. i \in 1 .. i
    BY <2>1
  <2> QED
    BY <1>1, <2>1, <2>2
<1> QED
  BY <1>4, <1>5 DEF S

\* What the rest of the types says that DirectoryInv does not.
GensBounded == \A d \in Devices : Gen(d) <= MaxGen

NewsTyped ==
  /\ registered \in BOOLEAN /\ (registered \/ \A d \in Devices : announced[d] = 0)
  /\ announcing \subseteq Devices /\ missed \subseteq Devices

CallsTyped ==
  /\ requests \subseteq Call
  /\ calls \in 0 .. MaxRequests
  /\ \A o \in outcomes : o.call \in Call

DirectoryBounds == GensBounded /\ NewsTyped /\ CallsTyped

\* With DirectoryInv that makes the type invariant.
LEMMA BoundsAreTypes == DirectoryInv /\ DirectoryBounds => TypeOK
<1> SUFFICES ASSUME DirectoryInv, DirectoryBounds PROVE TypeOK
  OBVIOUS
<1> USE DEF DirectoryInv, DirectoryBounds, GensBounded, NewsTyped, CallsTyped
<1>1. \A d \in Devices : /\ made[d] \in Seq(Layouts)
                         /\ Gen(d) \in Nat /\ Gen(d) \in 0 .. MaxGen
  BY BoundsAssumption DEF HistoryType, Gen
<1>2. present \subseteq {d \in Devices : Gen(d) \in 1 .. MaxGen}
  BY <1>1 DEF HistoryType
<1>3. ASSUME NEW h \in hellos
      PROVE  h.device \in Devices /\ h.gen \in 1 .. MaxGen /\ h.actions \in Layouts
  <2>1. h.device \in Devices /\ h.gen \in 1 .. Gen(h.device)
        /\ h.actions = made[h.device][h.gen]
    BY DEF HellosTrue, WasMade
  <2>2. h.gen \in 1 .. Len(made[h.device])
    BY <2>1 DEF Gen
  <2> QED
    BY <1>1, <2>1, <2>2, BoundsAssumption
<1>4. ASSUME NEW d \in Devices
      PROVE  /\ known[d].gen \in 0 .. MaxGen
             /\ DOMAIN known[d].actions = 1 .. Cardinality(DOMAIN known[d].actions)
             /\ \A i \in DOMAIN known[d].actions : known[d].actions[i] \in Names
  <2>1. CASE known[d] = Unknown
    <3>1. DOMAIN known[d].actions = {} /\ known[d].gen = 0
      BY <2>1 DEF Unknown
    <3> QED
      BY <3>1, FS_EmptySet, BoundsAssumption
  <2>2. CASE known[d] # Unknown
    <3>1. known[d].gen \in 1 .. Gen(d)
          /\ known[d].actions = ActionsMap(made[d][known[d].gen])
      BY <2>2 DEF KnownTrue
    <3>2. made[d][known[d].gen] \in Seq(Names \cup {EmptyName})
      BY <3>1, MadeOfNames
    <3> QED
      BY <1>1, <3>1, <3>2, ActionsFirst, BoundsAssumption
  <2> QED
    BY <2>1, <2>2
<1>5. ASSUME NEW o \in outcomes PROVE o.call \in Call /\ o.gen \in 0 .. MaxGen
  <2>1. o.call.device \in Devices /\ o.gen \in 0 .. Gen(o.call.device)
    BY DEF OutcomesMade
  <2> QED
    BY <1>1, <2>1, BoundsAssumption
<1> QED
  BY <1>2, <1>3, <1>4, <1>5 DEF TypeOK, HistoryType

\* CreateDevice stops at MaxGen, CallByName at MaxRequests, and nobody is told of
\* a device before register_callback_new_device.
LEMMA NextDirectoryBounds ==
  DirectoryInv /\ DirectoryBounds /\ [Next]_vars => DirectoryBounds'
<1> SUFFICES ASSUME DirectoryInv, DirectoryBounds, [Next]_vars PROVE DirectoryBounds'
  OBVIOUS
<1> USE DEF DirectoryInv, DirectoryBounds
<1>1. \A d \in Devices : made[d] \in Seq(Layouts) /\ Gen(d) \in Nat /\ Gen(d) <= MaxGen
  BY DEF HistoryType, Gen, GensBounded
<1>2. ASSUME NEW d \in Devices PROVE Gen(d)' <= MaxGen
  <2>1. ASSUME NEW e \in Devices, NEW layout \in Layouts, CreateDevice(e, layout)
        PROVE  Gen(d)' <= MaxGen
    <3>1. made' = [made EXCEPT ![e] = Append(made[e], layout)] /\ Gen(e) < MaxGen
      BY <2>1 DEF CreateDevice
    <3>2. Len(Append(made[e], layout)) = Gen(e) + 1
      BY <1>1 DEF Gen
    <3>3. CASE d = e
      <4>1. made'[d] = Append(made[e], layout)
        BY <3>1, <3>3 DEF HistoryType
      <4> QED
        BY <1>1, <3>1, <3>2, <4>1, BoundsAssumption DEF Gen
    <3>4. CASE d # e
      BY <1>1, <3>1, <3>4 DEF HistoryType, Gen
    <3> QED
      BY <3>3, <3>4
  <2>2. UNCHANGED made \/ \E e \in Devices, layout \in Layouts : CreateDevice(e, layout)
    BY DEF Next, vars, device, RemoveDevice, Hello, Announce, CallByName,
           HandleHello, Register, OnAction, Lose
  <2> QED
    BY <1>1, <2>1, <2>2 DEF Gen
<1>3. NewsTyped'
  <2>1. ASSUME NEW h \in hellos, HandleHello(h) PROVE NewsTyped'
    BY <2>1 DEF HandleHello, HellosTrue, WasMade, NewsTyped
  <2>2. ASSUME NEW d \in Devices, Announce(d) PROVE NewsTyped'
    BY <2>2 DEF Announce, NewsTyped, HistoryType
  <2>3. CASE Register
    BY <2>3 DEF Register, NewsTyped
  <2>4. CASE UNCHANGED observed
    BY <2>4 DEF observed, NewsTyped
  <2>5. \/ UNCHANGED observed \/ Register
        \/ \E h \in hellos : HandleHello(h)
        \/ \E d \in Devices : Announce(d)
    BY DEF Next, vars, CreateDevice, RemoveDevice, Hello, CallByName, OnAction, Lose
  <2> QED
    BY <2>1, <2>2, <2>3, <2>4, <2>5
<1>4. CallsTyped'
  <2>1. ASSUME NEW d \in Devices, NEW name \in Names, CallByName(d, name) PROVE CallsTyped'
    <3>1. calls \in 0 .. MaxRequests - 1 /\ calls' = calls + 1 /\ calls' \in 0 .. MaxRequests
      BY <2>1, BoundsAssumption DEF CallByName, CallsTyped
    <3>2. known[d].gen \in 0 .. MaxGen
      BY BoundsAreTypes DEF TypeOK
    <3>3. ASSUME NEW i \in Nat \cup {None}
          PROVE  [call |-> calls, device |-> d, name |-> name, action |-> i,
                  gen |-> known[d].gen] \in Call
      BY <3>1, <3>2 DEF Call
    <3>4. \A i \in LookupAction(d, name) : i \in Nat
      <4>1. ASSUME NEW i \in LookupAction(d, name) PROVE i \in Nat
        <5>1. known[d].gen \in 1 .. Gen(d) /\ i \in DOMAIN made[d][known[d].gen]
          BY LookupTrue
        <5>2. made[d][known[d].gen] \in Seq(Names \cup {EmptyName})
          BY <5>1, MadeOfNames
        <5> QED
          BY <5>1, <5>2
      <4> QED
        BY <4>1
    <3>5. ASSUME NEW i \in LookupAction(d, name),
                 requests' = requests \cup
                   {[call |-> calls, device |-> d, name |-> name, action |-> i,
                     gen |-> known[d].gen]},
                 UNCHANGED outcomes
          PROVE  CallsTyped'
      BY <3>1, <3>3, <3>4, <3>5 DEF CallsTyped
    <3>6. ASSUME outcomes' = outcomes \cup
                   {[call |-> [call |-> calls, device |-> d, name |-> name,
                               action |-> None, gen |-> known[d].gen],
                     gen |-> Gen(d), name |-> "not_found"]},
                 UNCHANGED requests
          PROVE  CallsTyped'
      <4> DEFINE call == [call |-> calls, device |-> d, name |-> name,
                          action |-> None, gen |-> known[d].gen]
      <4>1. call \in Call
        BY <3>3
      <4>2. \A o \in outcomes' : o \in outcomes \/ o.call = call
        BY <3>6
      <4> QED
        BY <3>1, <3>6, <4>1, <4>2 DEF CallsTyped
    <3> QED
      BY <2>1, <3>5, <3>6, Zenon DEF CallByName
  <2>2. ASSUME NEW r \in requests, OnAction(r) PROVE CallsTyped'
    <3>1. requests' \subseteq requests /\ UNCHANGED calls
      BY <2>2 DEF OnAction
    <3>2. \A o \in outcomes' : o \in outcomes \/ o.call = r
      BY <2>2 DEF OnAction
    <3> QED
      BY <3>1, <3>2 DEF CallsTyped
  <2>3. CASE requests' \subseteq requests /\ UNCHANGED <<calls, outcomes>>
    BY <2>3 DEF CallsTyped
  <2>4. \/ requests' \subseteq requests /\ UNCHANGED <<calls, outcomes>>
        \/ \E r \in requests : OnAction(r)
        \/ \E d \in Devices, name \in Names : CallByName(d, name)
    BY DEF Next, vars, CreateDevice, RemoveDevice, Hello, Announce, HandleHello,
           Register, Lose, LosePacket
  <2> QED
    BY <2>1, <2>2, <2>3, <2>4
<1> QED
  BY <1>2, <1>3, <1>4 DEF GensBounded

\* The type invariant of the directory.
THEOREM DirectoryTypes == Spec => []TypeOK
<1>1. Init => DirectoryBounds
  <2>1. 0 <= MaxGen /\ 0 \in 0 .. MaxRequests
    BY BoundsAssumption
  <2>2. Init => GensBounded
    BY <2>1 DEF Init, GensBounded, Gen
  <2>3. Init => NewsTyped /\ CallsTyped
    BY <2>1 DEF Init, NewsTyped, CallsTyped
  <2> QED
    BY <2>2, <2>3 DEF DirectoryBounds
<1> QED
  BY <1>1, NextDirectoryBounds, BoundsAreTypes, DirectoryInvariant, PTL DEF Spec
------------------------------------------------------------------------------
(* CApiContext *)

\* Every step of the process is one of the directory, or leaves it alone.
LEMMA StepOfDirectory == [CtxNext]_ctxVars => [Next]_vars
<1> SUFFICES ASSUME [CtxNext]_ctxVars PROVE [Next]_vars
  OBVIOUS
<1>1. CASE UNCHANGED ctxVars
  BY <1>1 DEF ctxVars
<1>2. CASE Build \/ Deinit
  BY <1>2 DEF Build, Deinit
<1>3. CASE Application
  BY <1>3 DEF Application, Next
<1>4. CASE MeshThread
  <2>1. ASSUME NEW h \in hellos, ReceiveHello(h) PROVE [Next]_vars
    BY <2>1 DEF ReceiveHello, Use, Next
  <2>2. ASSUME NEW d \in Devices, Report(d) PROVE [Next]_vars
    BY <2>2 DEF Report, Use, Next
  <2>3. CASE Dispatch \/ NewPeer \/ SendHello
    BY <2>3 DEF Dispatch, NewPeer, SendHello, Use
  <2> QED
    BY <1>4, <2>1, <2>2, <2>3 DEF MeshThread
<1>5. ASSUME NEW d \in Devices, Answer(d) PROVE [Next]_vars
  BY <1>5 DEF Answer, Next
<1>6. ASSUME NEW d \in Devices, LoseHello(d) PROVE [Next]_vars
  <2>1. UNCHANGED vars \/ Lose
    BY <1>6 DEF LoseHello, Lose, LosePacket
  <2> QED
    BY <2>1 DEF Next
<1>7. CASE Elsewhere
  BY <1>7 DEF Elsewhere, Next
<1> QED
  BY <1>1, <1>2, <1>3, <1>4, <1>5, <1>6, <1>7 DEF CtxNext

\* Whatever the process does to its objects, its directory is DeviceDirectory's:
\* packets that come in while the context is built or taken down included.
THEOREM ContextIsDirectory == CtxSpec => Spec
<1>1. CtxInit => Init
  BY DEF CtxInit
<1> QED
  BY <1>1, StepOfDirectory, PTL DEF CtxSpec, Spec

\* So what is proved of the directory holds in the process.
THEOREM ContextSafe ==
  CtxSpec => []RightAction /\ []NotFoundIsNotThere /\ []AnnouncedOnceKnown
  BY ContextIsDirectory, NamesRunTheirActions, NotFoundMeansNotThere, ToldOnce, PTL

\* The mesh thread does nothing before the interface is there, and only the C
\* API's sends HELLOs.
ThreadInv ==
  /\ program \in {"c_api", "app"}
  /\ built \in 0 .. Len(Order(program))
  /\ thread # "idle" => Listening
  /\ thread \in {"idle", "handle", "sleep"}

\* When the interface is there, so are the managers made before it.
LEMMA ManagersBeforeInterface ==
  ASSUME ThreadInv, Listening
  PROVE  {"manager", "device_manager"} \subseteq Built
<1>1. PICK i \in 1 .. built : Order(program)[i] = "interface"
  BY DEF Listening, Built
<1>2. CASE program = "c_api"
  <2>1. i = 3
    BY <1>1, <1>2 DEF ThreadInv, Order
  <2>2. {1, 2} \subseteq 1 .. built
    BY <2>1, <1>2 DEF ThreadInv, Order
  <2> QED
    BY <2>2, <1>2 DEF Built, Order
<1>3. CASE program = "app"
  <2>1. i = 4
    BY <1>1, <1>3 DEF ThreadInv, Order
  <2>2. {1, 3} \subseteq 1 .. built
    BY <2>1, <1>3 DEF ThreadInv, Order
  <2> QED
    BY <2>2, <1>3 DEF Built, Order
<1> QED
  BY <1>2, <1>3 DEF ThreadInv

\* The mesh thread does something only when the interface is there, and it stays.
LEMMA NextThreadInv == ThreadInv /\ [CtxNext]_ctxVars => ThreadInv'
<1> SUFFICES ASSUME ThreadInv, [CtxNext]_ctxVars PROVE ThreadInv'
  OBVIOUS
<1>1. CASE Build
  <2>1. /\ built < Len(Order(program)) /\ built' = built + 1
        /\ UNCHANGED <<program, thread>>
    BY <1>1 DEF Build, Ready, ThreadInv, Order
  <2>2. Len(Order(program)) \in Nat
    BY DEF Order, ThreadInv
  <2>3. Listening => Listening'
    BY <2>1, <2>2 DEF Listening, Built, ThreadInv, Order
  <2> QED
    BY <2>1, <2>2, <2>3 DEF ThreadInv, Order
<1>2. ASSUME UNCHANGED <<program, built>>, thread' \in {thread, "idle"} PROVE ThreadInv'
  BY <1>2 DEF ThreadInv, Listening, Built, Order
<1>3. ASSUME UNCHANGED <<program, built>>, Listening, thread' \in {"handle", "sleep", thread}
      PROVE  ThreadInv'
  BY <1>3 DEF ThreadInv, Listening, Built, Order
<1>4. CASE Application \/ Deinit \/ UNCHANGED ctxVars
  BY <1>2, <1>4 DEF Application, Deinit, ctxVars, process
<1>5. CASE MeshThread
  <2>1. ASSUME NEW h \in hellos, ReceiveHello(h) PROVE ThreadInv'
    BY <1>3, <2>1 DEF ReceiveHello, Use, process
  <2>2. ASSUME NEW d \in Devices, Report(d) PROVE ThreadInv'
    BY <1>2, <2>2 DEF Report, Use, process
  <2>3. CASE Dispatch \/ SendHello
    BY <1>2, <2>3 DEF Dispatch, SendHello, Use, process
  <2>4. CASE NewPeer
    BY <1>3, <2>4 DEF NewPeer, process
  <2> QED
    BY <1>5, <2>1, <2>2, <2>3, <2>4 DEF MeshThread
<1>6. CASE (\E d \in Devices : Answer(d) \/ LoseHello(d)) \/ Elsewhere
  BY <1>2, <1>6 DEF Answer, LoseHello, Elsewhere, process
<1> QED
  BY <1>1, <1>4, <1>5, <1>6 DEF CtxNext

\* Hence no step finds a manager missing before deinit_ctx.
LEMMA NextUsedIsThere ==
  ThreadInv /\ UsedIsThere /\ [CtxNext]_ctxVars => UsedIsThere'
<1> SUFFICES ASSUME ThreadInv, UsedIsThere, [CtxNext]_ctxVars, deleted' = {}
             PROVE  faults' \subseteq {"allocator"}
  BY DEF UsedIsThere
<1>1. ASSUME UNCHANGED <<deleted, faults>> PROVE faults' \subseteq {"allocator"}
  BY <1>1 DEF UsedIsThere
<1>2. CASE Build \/ Application \/ UNCHANGED ctxVars
  BY <1>1, <1>2 DEF Build, Application, process, ctxVars
<1>3. CASE Deinit
  BY <1>3 DEF Deinit
<1>4. CASE MeshThread
  <2>1. UNCHANGED deleted
    BY <1>4 DEF MeshThread, ReceiveHello, Report, Dispatch, NewPeer, SendHello, process
  <2>2. deleted = {}
    BY <2>1
  <2>3. CASE NewPeer
    BY <1>1, <2>3, <2>1 DEF NewPeer
  <2>4. CASE ~NewPeer
    <3>1. Listening
      BY <1>4, <2>4 DEF MeshThread, ReceiveHello, Report, Dispatch, SendHello, ThreadInv
    <3>2. {"manager", "device_manager"} \subseteq Built
      BY <3>1, ManagersBeforeInterface
    <3>3. faults' = faults \/ \E objects \in SUBSET {"manager", "device_manager", "allocator"} :
                                faults' = objects \ Built
      BY <1>4, <2>2, <2>4
      DEF MeshThread, ReceiveHello, Report, Dispatch, SendHello, Use, Missing
    <3> QED
      BY <1>1, <2>1, <3>2, <3>3
  <2> QED
    BY <2>3, <2>4
<1>5. CASE (\E d \in Devices : Answer(d) \/ LoseHello(d)) \/ Elsewhere
  BY <1>1, <1>5 DEF Answer, LoseHello, Elsewhere, process
<1> QED
  BY <1>2, <1>3, <1>4, <1>5 DEF CtxNext

\* Until deinit_ctx is called the mesh thread finds both managers, in either
\* program and whenever packets come in.
THEOREM ManagersFound == CtxSpec => []UsedIsThere
<1>1. CtxInit => ThreadInv /\ UsedIsThere
  BY ProgramsAssumption DEF CtxInit, ThreadInv, UsedIsThere, Order
<1> QED
  BY <1>1, NextThreadInv, NextUsedIsThere, PTL DEF CtxSpec

\* What the types of the process say that ThreadInv and those of the directory do
\* not; the mesh thread tells of a device only in the handle_packet that found it.
ObjectsTyped ==
  /\ program \in Programs
  /\ deleted \in {{}, {"device_manager"}, {"device_manager", "manager"}}
  /\ faults \subseteq {"device_manager", "manager", "allocator"}

HellosTyped ==
  /\ announcing # {} => thread = "handle"
  /\ peers \in 0 .. MaxPeers
  /\ asked \subseteq Devices /\ lost \subseteq Devices

\* deinit_ctx deletes the two managers in order; what is found missing was used.
LEMMA NextObjectsTyped == ObjectsTyped /\ [CtxNext]_ctxVars => ObjectsTyped'
<1> SUFFICES ASSUME ObjectsTyped, [CtxNext]_ctxVars PROVE ObjectsTyped'
  OBVIOUS
<1>1. ASSUME UNCHANGED <<program, deleted>>,
             faults' \subseteq faults \cup {"device_manager", "manager", "allocator"}
      PROVE  ObjectsTyped'
  BY <1>1 DEF ObjectsTyped
<1>2. CASE Build \/ Application \/ UNCHANGED ctxVars
  BY <1>1, <1>2 DEF Build, Application, ctxVars, process
<1>3. CASE Deinit
  BY <1>3 DEF Deinit, ObjectsTyped
<1>4. CASE MeshThread
  <2>1. UNCHANGED <<program, deleted>>
    BY <1>4 DEF MeshThread, ReceiveHello, Report, Dispatch, NewPeer, SendHello, process
  <2>2. faults' = faults \/ \E objects \in SUBSET {"manager", "device_manager", "allocator"} :
                              faults' = Missing(objects)
    BY <1>4 DEF MeshThread, ReceiveHello, Report, Dispatch, NewPeer, SendHello, Use
  <2>3. faults' \subseteq faults \cup {"device_manager", "manager", "allocator"}
    BY <2>2 DEF Missing
  <2> QED
    BY <1>1, <2>1, <2>3
<1>5. CASE (\E d \in Devices : Answer(d) \/ LoseHello(d)) \/ Elsewhere
  BY <1>1, <1>5 DEF Answer, LoseHello, Elsewhere, process
<1> QED
  BY <1>2, <1>3, <1>4, <1>5 DEF CtxNext

\* The mesh thread leaves handle_packet only when it has told of every device.
LEMMA NextHellosTyped ==
  TypeOK /\ HellosTyped /\ [CtxNext]_ctxVars => HellosTyped'
<1> SUFFICES ASSUME TypeOK, HellosTyped, [CtxNext]_ctxVars PROVE HellosTyped'
  OBVIOUS
<1>1. ASSUME UNCHANGED <<announcing, thread, peers>>, asked' \subseteq Devices,
             lost' \subseteq Devices
      PROVE  HellosTyped'
  BY <1>1 DEF HellosTyped
<1>2. CASE Build \/ Deinit \/ UNCHANGED ctxVars
  BY <1>1, <1>2 DEF Build, Deinit, ctxVars, vars, observed, HellosTyped
<1>3. CASE Application
  <2>1. UNCHANGED announcing
    BY <1>3 DEF Application, Register, CallByName, observed
  <2> QED
    BY <1>1, <1>3, <2>1 DEF Application, HellosTyped
<1>4. CASE Elsewhere
  <2>1. UNCHANGED announcing
    BY <1>4 DEF Elsewhere, CreateDevice, RemoveDevice, Hello, OnAction, observed
  <2> QED
    BY <1>1, <1>4, <2>1 DEF Elsewhere, HellosTyped
<1>5. ASSUME NEW d \in Devices, Answer(d) \/ LoseHello(d) PROVE HellosTyped'
  <2>1. UNCHANGED announcing
    BY <1>5 DEF Answer, LoseHello, Hello, vars, observed
  <2>2. /\ UNCHANGED <<thread, peers>> /\ asked' \subseteq asked
        /\ lost' \subseteq lost \cup {d}
    BY <1>5 DEF Answer, LoseHello
  <2> QED
    BY <1>1, <2>1, <2>2 DEF HellosTyped
<1>6. CASE MeshThread
  <2>1. ASSUME NEW h \in hellos, ReceiveHello(h) PROVE HellosTyped'
    <3>1. /\ UNCHANGED <<peers, asked, lost>>
          /\ thread' = "handle" \/ UNCHANGED <<vars, thread>>
      BY <2>1 DEF ReceiveHello, Use
    <3> QED
      BY <3>1 DEF HellosTyped, vars, observed
  <2>2. ASSUME NEW d \in Devices, Report(d) PROVE HellosTyped'
    <3>1. UNCHANGED <<peers, asked, lost, thread>> /\ announcing' \subseteq announcing
      BY <2>2 DEF Report, Use, Announce, vars, observed
    <3> QED
      BY <3>1 DEF HellosTyped
  <2>3. CASE Dispatch
    <3>1. UNCHANGED <<peers, asked, lost>> /\ announcing' = {}
      BY <2>3 DEF Dispatch, Use, vars, observed
    <3> QED
      BY <3>1 DEF HellosTyped
  <2>4. CASE NewPeer
    <3>1. UNCHANGED <<asked, lost, announcing>> /\ announcing = {}
      BY <2>4 DEF NewPeer, HellosTyped, vars, observed
    <3>2. peers' \in 0 .. MaxPeers
      BY <2>4, MaxPeersAssumption DEF NewPeer, HellosTyped
    <3> QED
      BY <3>1, <3>2 DEF HellosTyped
  <2>5. CASE SendHello
    <3>1. UNCHANGED <<peers, lost, announcing>> /\ announcing = {}
      BY <2>5 DEF SendHello, Use, HellosTyped, vars, observed
    <3>2. asked' \subseteq asked \cup Devices
      BY <2>5 DEF SendHello, Use, Everyone
    <3> QED
      BY <3>1, <3>2 DEF HellosTyped
  <2> QED
    BY <1>6, <2>1, <2>2, <2>3, <2>4, <2>5 DEF MeshThread
<1> QED
  BY <1>2, <1>3, <1>4, <1>5, <1>6 DEF CtxNext

\* The type invariant of the process.
THEOREM ContextTypes == CtxSpec => []CtxTypeOK
<1>1. CtxInit => ThreadInv /\ ObjectsTyped /\ HellosTyped
  <2>1. CtxInit => ThreadInv
    BY ProgramsAssumption DEF CtxInit, ThreadInv, Order
  <2>2. CtxInit => ObjectsTyped
    BY DEF CtxInit, ObjectsTyped
  <2>3. CtxInit => HellosTyped
    BY MaxPeersAssumption DEF CtxInit, Init, HellosTyped
  <2> QED
    BY <2>1, <2>2, <2>3
<1>2. CtxSpec => []TypeOK
  BY ContextIsDirectory, DirectoryTypes, PTL
<1>3. TypeOK /\ ThreadInv /\ ObjectsTyped /\ HellosTyped => CtxTypeOK
  BY DEF ThreadInv, ObjectsTyped, HellosTyped, CtxTypeOK
<1> QED
  BY <1>1, <1>2, <1>3, NextThreadInv, NextObjectsTyped, NextHellosTyped, PTL
  DEF CtxSpec
=============================================================================
