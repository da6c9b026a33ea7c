--------------------------- MODULE RequestService ---------------------------
(***************************************************************************)
(* What PhyDeviceManager's requests promise their callers: a device        *)
(* handles a request at most once, and a call hands out an answer only to  *)
(* the request that was handled.  A call may also come back without one.   *)
(***************************************************************************)
CONSTANT Tickets   \* requests, told apart for good

VARIABLES
  stage,    \* what has become of the call that made each request
  handled   \* requests a device has handled

vars == <<stage, handled>>

Stages == {"unissued", "open", "answered", "unanswered"}

TypeOK ==
  /\ stage \in [Tickets -> Stages]
  /\ handled \subseteq Tickets

Init ==
  /\ stage = [n \in Tickets |-> "unissued"]
  /\ handled = {}

Advance(n, from, to) ==
  /\ stage[n] = from
  /\ stage' = [stage EXCEPT ![n] = to]
  /\ UNCHANGED handled

Issue(n) == Advance(n, "unissued", "open")

\* The answer may still be on its way when the call gives up, and a device may
\* handle a request whose caller has long gone.
Handle(n) ==
  /\ stage[n] # "unissued"
  /\ n \notin handled
  /\ handled' = handled \cup {n}
  /\ UNCHANGED stage

Succeed(n) == n \in handled /\ Advance(n, "open", "answered")

GiveUp(n) == Advance(n, "open", "unanswered")

Next == \E n \in Tickets : Issue(n) \/ Handle(n) \/ Succeed(n) \/ GiveUp(n)

Spec == Init /\ [][Next]_vars
=============================================================================
