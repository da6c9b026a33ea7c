--------------------------- MODULE DeviceDirectory ---------------------------
(***************************************************************************)
(* How a controller learns the actions of remote devices and calls them by *)
(* name: PhyDeviceManager::known_devices on one side, the devices made by  *)
(* create_device (LogicalCallbackDevice) on the other.                     *)
(*                                                                         *)
(* A device announces its actions in a HELLO packet.  The controller keeps *)
(* the first HELLO it sees of a device, turns an action name into the      *)
(* action's position in that list, and sends the position.  The device     *)
(* turns the position back into a name and calls the handler registered    *)
(* under the name.  Devices are removed and made again while packets are   *)
(* on their way.  A device's generation, how often it was made, is a       *)
(* ghost.  Positions count from 1 here and from 0 in the code.             *)
(***************************************************************************)
EXTENDS Integers, Sequences, FiniteSets

CONSTANTS
  Devices,      \* <<phy, log>> addresses
  Names,        \* action names
  Layouts,      \* lists of action names a device may be made with
  MaxGen,       \* bound: how often a device is made
  MaxRequests   \* bound: calls by name

EmptyName == ""
None == -1

ASSUME NamesAssumption == EmptyName \notin Names
ASSUME LayoutsAssumption == Layouts \subseteq Seq(Names \cup {EmptyName})
ASSUME BoundsAssumption == MaxGen \in Nat /\ MaxRequests \in Nat

VARIABLES
  made,         \* history: the action lists each device was made with
  present,      \* devices add_device has added and remove_device not removed
  hellos,       \* HELLO packets in flight
  known,        \* known_devices: what the controller has of each device
  registered,   \* register_callback_new_device has been called
  announcing,   \* devices new_device_callback is about to be called for
  announced,    \* history: how often it told the application
  missed,       \* history: devices it had nobody to tell of
  requests,     \* ACTION_EXECUTE packets in flight
  calls,        \* number of calls made
  outcomes      \* history: what became of the calls

device   == <<made, present>>
observed == <<registered, announcing, announced, missed>>
vars     == <<device, hellos, known, observed, requests, calls, outcomes>>

Unknown == [gen |-> 0, actions |-> << >>]

Init ==
  /\ made = [d \in Devices |-> << >>]
  /\ present = {}
  /\ hellos = {}
  /\ known = [d \in Devices |-> Unknown]
  /\ registered = FALSE
  /\ announcing = {}
  /\ announced = [d \in Devices |-> 0]
  /\ missed = {}
  /\ requests = {}
  /\ calls = 0
  /\ outcomes = {}
-----------------------------------------------------------------------------
(* The device side. *)

Gen(d) == Len(made[d])

api_actions(d) == made[d][Gen(d)]

\* create_device: every add_action comes before add_device.
CreateDevice(d, layout) ==
  /\ d \notin present
  /\ Gen(d) < MaxGen
  /\ made' = [made EXCEPT ![d] = Append(@, layout)]
  /\ present' = present \cup {d}
  /\ UNCHANGED <<hellos, known, observed, requests, calls, outcomes>>

RemoveDevice(d) ==
  /\ d \in present
  /\ present' = present \ {d}
  /\ UNCHANGED <<made, hellos, known, observed, requests, calls, outcomes>>

\* HELLO_WORLD or HELLO_WORLD_RESPONSE with the list get_api_actions returns.
Hello(d) ==
  /\ d \in present
  /\ hellos' = hellos \cup {[device |-> d, gen |-> Gen(d),
                             actions |-> api_actions(d)]}
  /\ UNCHANGED <<device, known, observed, requests, calls, outcomes>>

\* on_action_set and on_action_get: the position names the action, and the
\* name, which add_action registered with it, the handler that runs.  A
\* position past the end of api_actions is undefined.
OnAction(r) ==
  /\ requests' = requests \ {r}
  /\ \/ /\ r.device \notin present
        /\ UNCHANGED outcomes
     \/ /\ r.device \in present
        /\ LET actions == api_actions(r.device)
               Ran(name) == outcomes' = outcomes \cup
                 {[call |-> r, gen |-> Gen(r.device), name |-> name]}
           IN  \/ r.action \in DOMAIN actions /\ Ran(actions[r.action])
               \/ r.action \notin DOMAIN actions /\ Ran("undefined")
  /\ UNCHANGED <<device, hellos, known, observed, calls>>
-----------------------------------------------------------------------------
(* The controller side. *)

\* Mutant: actions without a name are left out and not counted.
Renumbered(actions) == SelectSeq(actions, LAMBDA name : name # EmptyName)

\* Mutant: one action short.
OneShort(actions) == SubSeq(actions, 1, Len(actions) - 1)

\* Mutant: actions without a name are stepped over.
SteppedOver(actions) ==
  [i \in {j \in DOMAIN actions : actions[j] # EmptyName} |-> actions[i]]

\* LogDeviceInfo(...): the loop does not step over an action without a name,
\* so it finds that one again instead of those behind it.
ActionsMap(actions) ==
  LET Read(i) == \A j \in 1 .. i : actions[j] # EmptyName
  IN  [i \in {i \in DOMAIN actions : Read(i)} |-> actions[i]]

\* Mutant: the test comes after the emplace.
NewIfKnown(d) == known[d] # Unknown

IsNewDevice(d) == known[d] = Unknown

\* emplace keeps an entry that is there.
Emplaced(entry, info) == IF entry = Unknown THEN info ELSE entry

\* handle_packet up to the callback.
HandleHello(h) ==
  /\ announcing = {}
  /\ hellos' = hellos \ {h}
  /\ known' = [known EXCEPT ![h.device] =
                 Emplaced(@, [gen |-> h.gen, actions |-> ActionsMap(h.actions)])]
  /\ announcing' = IF IsNewDevice(h.device) THEN {h.device} ELSE {}
  /\ UNCHANGED <<device, registered, announced, missed, requests, calls, outcomes>>

\* if (is_new_device && new_device_callback) new_device_callback(device_info),
\* which goes on to the application's callback if there is one.
Announce(d) ==
  /\ d \in announcing
  /\ announcing' = announcing \ {d}
  /\ \/ registered /\ announced' = [announced EXCEPT ![d] = @ + 1] /\ UNCHANGED missed
     \/ ~registered /\ missed' = missed \cup {d} /\ UNCHANGED announced
  /\ UNCHANGED <<device, hellos, known, registered, requests, calls, outcomes>>

Register ==
  /\ registered' = TRUE
  /\ UNCHANGED <<device, hellos, known, announcing, announced, missed, requests,
                 calls, outcomes>>

\* lookup_action: the first match in an unordered_map is any match.
LookupAction(d, name) ==
  {i \in DOMAIN known[d].actions : known[d].actions[i] = name}

\* execute_action and fetch_action by name.
CallByName(d, name) ==
  /\ calls < MaxRequests
  /\ calls' = calls + 1
  /\ \/ \E i \in LookupAction(d, name) :
          /\ requests' = requests \cup
               {[call |-> calls, device |-> d, name |-> name, action |-> i,
                 gen |-> known[d].gen]}
          /\ UNCHANGED outcomes
     \/ /\ LookupAction(d, name) = {}
        /\ outcomes' = outcomes \cup
             {[call |-> [call |-> calls, device |-> d, name |-> name,
                         action |-> None, gen |-> known[d].gen],
               gen |-> Gen(d), name |-> "not_found"]}
        /\ UNCHANGED requests
  /\ UNCHANGED <<device, hellos, known, observed>>

LosePacket ==
  \/ \E h \in hellos : hellos' = hellos \ {h} /\ UNCHANGED requests
  \/ \E r \in requests : requests' = requests \ {r} /\ UNCHANGED hellos

Lose == LosePacket /\ UNCHANGED <<device, known, observed, calls, outcomes>>
-----------------------------------------------------------------------------
Next ==
  \/ \E d \in Devices :
        \/ \E layout \in Layouts : CreateDevice(d, layout)
        \/ RemoveDevice(d) \/ Hello(d) \/ Announce(d)
        \/ \E name \in Names : CallByName(d, name)
  \/ \E h \in hellos : HandleHello(h)
  \/ Register
  \/ \E r \in requests : OnAction(r)
  \/ Lose

Spec == Init /\ [][Next]_vars
-----------------------------------------------------------------------------
Call == [call : 0 .. MaxRequests - 1, device : Devices, name : Names,
         action : Nat \cup {None}, gen : 0 .. MaxGen]

\* The positions the controller has of a device are the first few, all named.
TypeOK ==
  /\ made \in [Devices -> Seq(Layouts)]
  /\ present \subseteq {d \in Devices : Gen(d) \in 1 .. MaxGen}
  /\ \A h \in hellos : /\ h.device \in Devices
                       /\ h.gen \in 1 .. MaxGen
                       /\ h.actions \in Layouts
  /\ \A d \in Devices :
       LET actions == known[d].actions
       IN  /\ known[d].gen \in 0 .. MaxGen
           /\ DOMAIN actions = 1 .. Cardinality(DOMAIN actions)
           /\ \A i \in DOMAIN actions : actions[i] \in Names
  /\ registered \in BOOLEAN /\ (registered \/ \A d \in Devices : announced[d] = 0)
  /\ announcing \subseteq Devices /\ missed \subseteq Devices
  /\ announced \in [Devices -> Nat]
  /\ requests \subseteq Call
  /\ calls \in 0 .. MaxRequests
  /\ \A o \in outcomes : o.call \in Call /\ o.gen \in 0 .. MaxGen

\* A call by name runs the action of that name, unless the device was removed
\* and made again after the HELLO the controller knows it by: emplace keeps that
\* entry, so the old positions index the new api_actions for good.
RightAction ==
  \A o \in outcomes :
    o.call.action # None => o.name = o.call.name \/ o.gen # o.call.gen

\* Of a device that is still the one the controller knows, a name is not found
\* only if the device has no such action, or has one without a name before it.
NotFoundIsNotThere ==
  \A o \in outcomes :
    o.call.action = None /\ o.gen = o.call.gen /\ o.gen > 0 =>
      LET actions == made[o.call.device][o.gen]
      IN  \A i \in DOMAIN actions :
            actions[i] = o.call.name =>
              \E j \in 1 .. i - 1 : actions[j] = EmptyName

\* The application is told of a device once at most, and then lookups find the
\* device.  One whose first HELLO came before register_callback_new_device is
\* missed for good, though it is known: its later HELLOs are no news.
AnnouncedOnceKnown ==
  \A d \in Devices :
    announced[d] + Cardinality(announcing \cap {d}) + Cardinality(missed \cap {d})
      = IF known[d] = Unknown THEN 0 ELSE 1
=============================================================================
