---------------------------- MODULE PacketChannel ----------------------------
(***************************************************************************)
(* What one direction of a connection between two MeshSocketInterfaces     *)
(* promises the mesh: packets come out whole, once each and in the order   *)
(* they went in.  Whether they do is the network's matter.                 *)
(***************************************************************************)
EXTENDS Naturals, Sequences

CONSTANT Packets   \* packets, numbered in the order they are sent

VARIABLES
  queue,     \* packets sent and not yet delivered
  delivered  \* packets delivered, oldest first

vars == <<queue, delivered>>

TypeOK ==
  /\ queue \subseteq Packets
  /\ delivered \in Seq(Packets)

Init == queue = {} /\ delivered = << >>

\* A packet joins the queue behind every earlier one.
Send(p) ==
  /\ p \in Packets
  /\ \A q \in queue : q < p
  /\ \A i \in DOMAIN delivered : delivered[i] < p
  /\ queue' = queue \cup {p}
  /\ UNCHANGED delivered

\* The oldest packet in the queue comes out.
Deliver(p) ==
  /\ p \in queue
  /\ \A q \in queue : p <= q
  /\ delivered' = Append(delivered, p)
  /\ queue' = queue \ {p}

Next == \E p \in Packets : Send(p) \/ Deliver(p)

Spec == Init /\ [][Next]_vars
=============================================================================
