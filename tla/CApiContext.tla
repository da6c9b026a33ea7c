----------------------------- MODULE CApiContext -----------------------------
(***************************************************************************)
(* The process a controller lives in: when the objects that the mesh       *)
(* thread uses come and go.                                                *)
(*                                                                         *)
(* The process is one of two programs.  One uses the C API: init_ctx       *)
(* builds a context piece by piece, and packets come in from the moment    *)
(* it adds the interface; deinit_ctx deletes the two managers and leaves   *)
(* the mesh controller, its callbacks and the interface as they are.  The  *)
(* other is hwctrl (KhawasuApp), which builds everything before its first  *)
(* interface, asks for nothing and tells nobody.                           *)
(*                                                                         *)
(* What a HELLO does is DeviceDirectory's.  Here it is a step of the mesh  *)
(* thread, which may find an object missing (not built yet, or deleted);   *)
(* that is undefined behaviour, and the process is not followed further.   *)
(***************************************************************************)
EXTENDS DeviceDirectory

CONSTANTS
  Programs,   \* programs the process may run
  MaxPeers    \* bound: how often the mesh reports a new peer

ASSUME ProgramsAssumption == Programs \subseteq {"c_api", "app"}
ASSUME MaxPeersAssumption == MaxPeers \in Nat

VARIABLES
  program,  \* the program the process runs
  built,    \* how many objects it has built
  deleted,  \* objects deinit_ctx has deleted
  thread,   \* what the mesh thread does: idle, handle or sleep
  peers,    \* how often new_peer_callback has been called
  asked,    \* devices a HELLO_WORLD is on its way to
  lost,     \* history: devices a HELLO of which, or to which, was lost
  faults    \* objects the mesh thread has used that were missing

process == <<program, built, deleted>>
ctxVars == <<vars, process, thread, peers, asked, lost, faults>>

\* Mutant: the interface is added before there is a manager.
InterfaceFirst(p) ==
  <<"device_manager", "interface", "manager", "allocator", "started">>

\* init_ctx; the constructor of KhawasuApp, and main after it.
Order(p) ==
  IF p = "c_api"
  THEN <<"device_manager", "manager", "interface", "allocator", "started">>
  ELSE <<"device_manager", "allocator", "manager", "interface">>

Built == {Order(program)[i] : i \in 1 .. built}

Missing(objects) == objects \ (Built \ deleted)

Ready == built = Len(Order(program))

CtxInit ==
  /\ Init
  /\ program \in Programs
  /\ built = 0
  /\ deleted = {}
  /\ thread = "idle"
  /\ peers = 0
  /\ asked = {}
  /\ lost = {}
  /\ faults = {}
-----------------------------------------------------------------------------
(* The thread that runs the program. *)

\* The next statement of init_ctx, or of the constructor and main.
Build ==
  /\ ~Ready
  /\ built' = built + 1
  /\ UNCHANGED <<vars, program, deleted, thread, peers, asked, lost, faults>>

\* The application has the context: init_ctx has returned it.
InUse == program = "c_api" /\ Ready /\ deleted = {}

Application ==
  /\ InUse
  /\ Register \/ \E d \in Devices, name \in Names : CallByName(d, name)
  /\ UNCHANGED <<process, thread, peers, asked, lost, faults>>

\* deinit_ctx: first the LogicalDeviceManager, then the PhyDeviceManager.
Deinit ==
  /\ program = "c_api" /\ Ready
  /\ \/ deleted = {} /\ deleted' = {"device_manager"}
     \/ deleted = {"device_manager"} /\ deleted' = {"device_manager", "manager"}
  /\ UNCHANGED <<vars, program, built, thread, peers, asked, lost, faults>>
-----------------------------------------------------------------------------
(* The mesh thread. *)

Listening == "interface" \in Built

\* The thread uses objects.  If one is missing anything may happen.
Use(objects, Step) ==
  \/ Missing(objects) = {} /\ Step /\ UNCHANGED faults
  \/ Missing(objects) # {} /\ faults' = Missing(objects) /\ UNCHANGED <<vars, thread, asked>>

\* on_data_packet: mesh_packet_handler of either program calls handle_packet.
\* KhawasuApp's tests its pointer to the manager first.
ReceiveHello(h) ==
  /\ thread = "idle" /\ Listening
  /\ Use({"manager"}, HandleHello(h) /\ thread' = "handle" /\ UNCHANGED asked)
  /\ UNCHANGED <<process, peers, lost>>

Report(d) ==
  /\ thread = "handle" /\ d \in announcing
  /\ Use({"manager"}, Announce(d) /\ UNCHANGED <<thread, asked>>)
  /\ UNCHANGED <<process, peers, lost>>

\* dispatch_packet hands the packet to the process's own devices.  KhawasuApp
\* calls it before handle_packet, but has no devices.
Dispatch ==
  /\ thread = "handle" /\ announcing = {}
  /\ Use({"manager", "device_manager"}, thread' = "idle" /\ UNCHANGED <<vars, asked>>)
  /\ UNCHANGED <<process, peers, lost>>

\* new_peer_callback calls send_hello, which sleeps first.
NewPeer ==
  /\ program = "c_api"
  /\ thread = "idle" /\ Listening
  /\ peers < MaxPeers
  /\ peers' = peers + 1
  /\ thread' = "sleep"
  /\ UNCHANGED <<vars, process, asked, lost, faults>>

\* Mutant: the HELLO_WORLD goes to the devices that are known.
AskKnown == {d \in Devices : known[d] # Unknown}

\* BROADCAST_FAR_ADDR, BROADCAST_PORT
Everyone == Devices

\* The rest of send_hello, two seconds later: a packet is allocated and sent.
SendHello ==
  /\ thread = "sleep"
  /\ Use({"manager", "device_manager", "allocator"},
         asked' = asked \cup Everyone /\ thread' = "idle" /\ UNCHANGED vars)
  /\ UNCHANGED <<process, peers, lost>>

MeshThread ==
  \/ \E h \in hellos : ReceiveHello(h)
  \/ \E d \in Devices : Report(d)
  \/ Dispatch \/ NewPeer \/ SendHello
-----------------------------------------------------------------------------
(* The network and the devices of other processes. *)

\* A device answers a HELLO_WORLD with a HELLO_WORLD_RESPONSE.
Answer(d) ==
  /\ d \in asked
  /\ asked' = asked \ {d}
  /\ Hello(d) \/ (d \notin present /\ UNCHANGED vars)
  /\ UNCHANGED <<process, thread, peers, lost, faults>>

LoseHello(d) ==
  /\ \/ d \in asked /\ asked' = asked \ {d} /\ UNCHANGED vars
     \/ /\ \E h \in hellos : h.device = d /\ hellos' = hellos \ {h}
        /\ UNCHANGED <<device, known, observed, requests, calls, outcomes, asked>>
  /\ lost' = lost \cup {d}
  /\ UNCHANGED <<process, thread, peers, faults>>

\* What the devices do unasked.
Elsewhere ==
  /\ \/ \E d \in Devices :
          \/ \E layout \in Layouts : CreateDevice(d, layout)
          \/ RemoveDevice(d) \/ Hello(d)
     \/ \E r \in requests : OnAction(r)
  /\ UNCHANGED <<process, thread, peers, asked, lost, faults>>
-----------------------------------------------------------------------------
CtxNext ==
  /\ faults = {}
  /\ \/ Build \/ Application \/ Deinit
     \/ MeshThread
     \/ (\E d \in Devices : Answer(d) \/ LoseHello(d)) \/ Elsewhere

CtxSpec == CtxInit /\ [][CtxNext]_ctxVars

Running(step) == faults = {} /\ step

\* The mesh thread does what it has begun, and comes to every packet in the end
\* though it sleeps in between; devices answer.
CtxFairSpec ==
  /\ CtxSpec
  /\ WF_ctxVars(Running(Build)) /\ WF_ctxVars(Running(Dispatch))
  /\ WF_ctxVars(Running(SendHello))
  /\ \A d \in Devices :
       /\ WF_ctxVars(Running(Report(d))) /\ WF_ctxVars(Running(Answer(d)))
       /\ SF_ctxVars(Running(\E h \in hellos : h.device = d /\ ReceiveHello(h)))
-----------------------------------------------------------------------------
CtxTypeOK ==
  /\ TypeOK
  /\ program \in Programs
  /\ built \in 0 .. Len(Order(program))
  /\ deleted \in {{}, {"device_manager"}, {"device_manager", "manager"}}
  /\ thread \in {"idle", "handle", "sleep"}
  /\ announcing # {} => thread = "handle"
  /\ peers \in 0 .. MaxPeers
  /\ asked \subseteq Devices /\ lost \subseteq Devices
  /\ faults \subseteq {"device_manager", "manager", "allocator"}

\* Until deinit_ctx is called the mesh thread finds what it uses, though packets
\* come in while init_ctx is still building.  Only the pool of packets may be
\* missing, for a send_hello that wakes before init_ctx is done.
UsedIsThere == deleted = {} => faults \subseteq {"allocator"}

\* A device the controller comes to know is reported to the application, or
\* counted as missed; deinit_ctx in the middle of handle_packet may prevent it.
KnownIsReported ==
  \A d \in Devices :
    known[d] # Unknown ~> announced[d] = 1 \/ d \in missed \/ faults # {}

\* When the mesh reports a peer, the devices there are get known: they are asked
\* and their answers handled, unless something is lost on the way, the device is
\* removed or the context is taken down.
PeerIsDiscovered ==
  \A d \in Devices :
    thread = "sleep" /\ d \in present ~>
      \/ known[d] # Unknown
      \/ d \in lost \/ d \notin present
      \/ deleted # {} \/ faults # {}
=============================================================================
