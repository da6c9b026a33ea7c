# Verification of khawasu_pc

TLA+ models of khawasu_pc, the PC client of a Khawasu mesh network of logical
devices, with the TLC configurations that check them and TLAPS proofs about
them. File names and line numbers are those of `src/`.

    tlc -workers 2 -config requests.cfg MCActionRequests.tla
    tlc -workers 2 -config context.cfg MCCApiContext.tla
    tlapm RequestService_proofs.tla

## 1. The system

A process of khawasu_pc is a node of a mesh. Application code talks to it
through the C API (`c_api.cpp`) or through `KhawasuApp`; both sit on
`PhyDeviceManager`, which finds remote devices, calls their actions and
subscribes to them. Packets come from and go to the mesh controller of the
fresh-mesh library, over interfaces of which `MeshSocketInterface` is the one
written here. The fresh-mesh and khawasu libraries are submodules whose sources
are not in the repository; what the code here uses of them is modelled as
external actions.

| Component | State | Operations |
|---|---|---|
| Requests (`phy_device_manager.cpp` 51-81, 150-312) | `action_responses` (id to `ActionResponse`), `action_responses_counter` (8 bits, atomic) | `execute_action[_async]`, `fetch_action[_async]`, by id and by name; `handle_packet` for `ACTION_EXECUTE_RESULT`, `ACTION_RESPONSE` |
| Directory (28-49, 114-148, `device_info.cpp`) | `known_devices` | `handle_packet` for `HELLO_WORLD[_RESPONSE]`, `lookup*` |
| Subscriptions (83-111, 314-371) | `subscriptions`, `subscription_counter` (32 bits, not atomic) | `subscribe_action`, `handle_packet` for `SUBSCRIPTION_CALLBACK`, `SUBSCRIPTION_DONE` |
| Callback devices (`logical_callback_device.cpp`, `c_api.cpp` 280-323, 365-368) | `api_actions`, `api_callbacks`; the library's table of devices | `create_device`, `remove_device`, `on_action_get`, `on_action_set` |
| Socket interface (`mesh_socket_interface.cpp`) | `clients` (key to receive buffer and handle) | `check_packets` (accept, receive), `send_packet`, `send_hello` |
| Socket wrappers (`socket/`) | one handle | `Create`, `Connect`, `Accept`, `Send`, `Recv`, `GetStatus`, ... |
| C API context (`c_api.cpp` 167-261, 325-391) | `CONTEXT`: the objects it owns, callbacks registered by the user | `init_ctx`, `register_callback_*`, `deinit_ctx`, wrappers of the requests |
| Application (`khawasu_app.*`, `main.cpp`) | interfaces, controller, manager | construction, `register_fresh_*`, `mesh_packet_handler`, `run` |
| Configuration (`arg_parser.h`, `config.h`) | `Config`, the words read so far | `process`, `perform_config_toml` |
| Name tables (`c_api.cpp` 11-160) | none | enumerators to names and back |

How they interact. Application threads call `PhyDeviceManager` directly. The
mesh thread of the library polls `check_packets` and calls
`mesh_packet_handler`, hence `handle_packet`, for every packet; user callbacks
(`action_callback`, `new_device_callback`, subscription callbacks) run inside
`handle_packet` on that thread, and `action_callback` also on the thread of a
synchronous caller. The two sides share `action_responses`, `known_devices`,
`subscriptions` and `clients` without any lock. A synchronous request is a
polling loop on the shared map. Requests and answers are UNRELIABLE packets.

What is hard here, and what makes each part correct:

* requests: ids of eight bits come round; answers come late, twice, never;
  entries of asynchronous and timed-out calls stay for good; the poller erases
  what the mesh thread still refers to; callbacks call the API again. Correct
  means: an answer is given only to the call it belongs to, callbacks run as
  often as they should, every call comes back;
* directory: a device's first HELLO is kept; devices come back with other
  actions under the old address; positions must mean the same on both sides.
  Correct means: a name runs the action of that name, a device is announced
  once, after lookups can find it;
* subscriptions: a racy counter; renewal depends on packets that may be lost or
  delivered twice. Correct means: values go to the callback of their subscription,
  and a subscription is renewed exactly when it should be;
* framing: TCP cuts packets anywhere; `send_packet` is two unlocked sends, a
  full stream makes them wait or cuts them short, and the thread that waits is
  the one that should receive. Correct means: packets come out whole, once and
  in order, and a sender comes back;
* clients: keys made of an address that is partly uninitialised, connections
  that close, replace each other or use up the handles of the process. Correct
  means: answers go back where the packet came from, and what is sent is
  received;
* context: the mesh thread runs before `init_ctx` has returned and after
  `deinit_ctx`, and sleeps in a callback. Correct means: it finds the objects it
  uses, the application hears of every device, devices are discovered;
* start: options, action and file in any order, with values evaluated in an
  order the compiler chooses. Correct means: the program runs with the settings
  and interfaces that were written.

The hazards, each at its line with the properties for it, are listed in
`PROJECT.json`.

## 2. Modules

| Module | Models |
|---|---|
| `RequestService` | abstract: a request is handled at most once, a call returns its own answer or none |
| `ActionRequests` | the request side of `PhyDeviceManager`, its callers, the mesh thread and the network |
| `ActionRequests_proofs` | theorems about it: types, whose answer is whose |
| `RequestEntries_proofs` | extends those: what becomes of the entries of `action_responses`, how often they are reported, who uses an erased one |
| `RequestService_proofs` | extends those: the refinement of `RequestService` |
| `DeviceDirectory` | `known_devices` on one side, callback devices on the other, HELLOs and calls by name between them |
| `CApiContext` | extends `DeviceDirectory`: the process of the controller, from `init_ctx` to `deinit_ctx`, with its mesh thread |
| `CApiContext_proofs` | theorems about `DeviceDirectory`, that this process implements it, and what follows |
| `Subscriptions` | `subscribe_action`, renewal, and the devices that publish |
| `Subscriptions_proofs` | theorems about them |
| `PacketChannel` | abstract: a set of numbered packets on their way, which come out in their order |
| `SocketStream` | framing of two `MeshSocketInterface`s at the ends of a byte stream |
| `SocketStream_proofs` | theorems about it, and that it implements `PacketChannel` |
| `SocketClients` | the table of clients of a `MeshSocketInterface` server, and the peers that connect to it |
| `SocketClients_proofs` | theorems about it |
| `CommandLine` | `hwctrl` from its arguments to its interfaces |
| `CommandLine_proofs` | theorems about it |
| `MC*` | constants for TLC |

Operators marked `Mutant:` are small faulty variants of the definition that
follows them. They belong to no specification; putting one in the place of its
original shows that the properties notice.

### ActionRequests

| Code | Model |
|---|---|
| `action_responses` | `table`; a slot holds the node's identity (`node`, the request that emplaced it), `is_waiting`, the status and, as a ghost, whose answer was stored |
| `action_responses_counter++` | `Issue` (the counter is atomic: one step) |
| `emplace` | `Register`; an existing key keeps its node |
| `finish_ptr` | `Send`; anything but a synchronous call returns here |
| polling loop | `Copy`, `Erase`, `Expire`, then `Return` with `action_callback` |
| `execute_action_async` of an unknown name | `Issue` and `Reject` (the id is used up; the thread it starts is joined at once) |
| `fetch_action` of an unknown name in C | `FetchUnnamed` |
| the two answer branches of `handle_packet` | `Deliver` (find and assert), `Store` (fill in through the iterator), `Notify` (callback with the reference) |
| user code in a callback | `pc[Net] = "callback"`: it makes at most one call and returns (`EndCallback`) |
| network and devices | `Handle`, `LoseRequest`, `LoseAnswer`; `Copies` extra deliveries of an answer, in any order |

Each access to the shared map is a step. A node of an `unordered_map` keeps its
place until it is erased, so an iterator or reference is modelled as the node's
identity. Using an iterator whose node is gone stops the run with
`fate = "stale_node"`, the reference passed to `action_callback` with
`fate = "stale_reference"`: two hazards with different causes, which
`StaleNodeNeedsCallbackOrReuse` tells apart. A failed assertion and a null response
stop it too. The two branches of
`handle_packet` differ in the payload only, and `execute_action` and
`fetch_action` in one condition of the loop: a device that answers TIMEOUT keeps
`execute_action` polling (its entry is gone by then).

Time is not counted: `Expire` may happen at any turn of the loop. The flags of
a one-way request are never written (line 167), so the device may answer it.

### DeviceDirectory

`CreateDevice` and `RemoveDevice` are `create_device` and `remove_device`;
`Hello` is the packet the library builds from `api_actions`; `HandleHello` and
`Announce` are the HELLO branch before and at the callback, with no other packet
handled in between; `Register` is `register_callback_new_device`, before which
`Announce` finds nobody to tell (`missed`); `CallByName` is `lookup_action` with
the request that follows, and `OnAction` the device's
`on_action_get`/`on_action_set`. `ActionsMap` is the loop of `LogDeviceInfo`,
whose `continue` on an action without a name does not advance the pointer: the
actions before it are kept, those behind it are missing. A position beyond
`api_actions` is undefined behaviour in the code and the outcome `"undefined"`
here.

### CApiContext

| Code | Model |
|---|---|
| statements of `init_ctx`; constructor of `KhawasuApp` and `main` | `Build`, one object after the other in the `Order` of the program; the interface is the point from which packets come in |
| `mesh_packet_handler` of `init_ctx`: `handle_packet`, then `dispatch_packet` | `ReceiveHello` (`HandleHello` of `DeviceDirectory`), `Report` (`Announce`), `Dispatch` |
| `new_peer_callback`, `send_hello` | `NewPeer`; the mesh thread sleeps; `SendHello` |
| `deinit_ctx` | `Deinit`, twice: the two managers, and nothing else |
| user code with the context | `Application`: `Register`, `CallByName` |
| other processes | `Answer`, `LoseHello`, `Elsewhere` |

The module extends `DeviceDirectory` and composes its actions with the state of
the process: `vars` change by actions of `DeviceDirectory` or not at all. A
step that needs an object that is not there yet, or no more, sets `faults`
instead; what happens then is undefined and not followed. `KhawasuApp` tests its
pointer to the manager, asks nobody, tells nobody and has no devices, so of the
mesh thread's steps only the handling of HELLOs is left to it. The two seconds
of `send_hello` are a state, not a time: anything else may happen before it
wakes up. Destroying an object and using it at the same moment is not told from
using it after.

### Subscriptions

`ReadCounter` and `WriteCounter` are the two halves of the plain
`subscription_counter++`; `StoreEntry` and `SendStart` are the overload that
takes an `ActionSubscriptionData`, which a renewal calls again from `HandleDone`
(its `emplace` then changes nothing). A serial number per subscription is a
ghost; `raced` records that two threads were inside the increment at once,
`lost` the subscriptions that lost a packet.

START and DONE are UNRELIABLE packets (line 321), as requests and answers are: they
are counted, and `Duplicate` delivers one once more, up to `Copies` times in all
(`copied`); a published value may be handled any number of times. `HandleDone`
renews for every SUBSCRIPTION_DONE it gets, so a second one makes a second round
(lines 90-91), and `OneRoundAtATime` allows just as many rounds more as packets were
duplicated. What a device does with a second SUBSCRIPTION_START of one id is the
library's and not to be seen here; the model lets it publish one round more.

### SocketStream

| Code | Model |
|---|---|
| `send_packet` | `SendSize`, `SendPayload`: two calls of `Send`, each with its own lookup of the handle |
| `Socket::Send` | writes what there is room for; the rest stays in `left` until `Resume` on a blocking socket and is dropped on one that does not block |
| `check_packets` on one client | `CheckPackets`, with `GetAvailableBytes` any part of what was written (`Poll`) |
| an accept under the same key | `Reconnect`: the table has another buffer and handle; the old connection stays as it is |
| a client process ends | `Close` |

Every connection the server accepts under the key has its own two ends, and every
client is a process with a mesh thread of its own. The server looks up and polls the
last connection only (`Handle`, `Polls`). Line 41 neither closes the handle it
overwrites nor wakes anybody: on Unix, where two clients of one host may have one
key, the client of the old connection may still be connected and inside `Send`, and
so may a thread of the server that was given the old handle (`on` is what it last
looked up). Both go on, or wait, on that connection. On Windows the key
has host and port, so only a closed connection's place is taken. `Close` ends a
client: what it wrote arrives up to some byte, and a `Send` to it ends, having
written nothing. (On Unix it may also raise SIGPIPE, which ends the server; that is
in `SocketClients`.)

Both ends send and receive: the mesh thread of a process cannot poll while it is
inside `Send`. `Apps` are further threads of the server that send. The sockets a
Windows server accepts inherit FIONBIO from the listening one; all others block,
hence `nonblocking` is `{}` or `{"server"}`. A byte is a pair of packet and
position, so a size field that is torn reads as any of `GarbageSizes`. `torn`
records the ends whose stream is no longer one packet after another: two sends,
or a send and an accept, overlapped, or a `Send` was cut short. It appears in
the properties as what they except.

### SocketClients

`BeginPoll` is the start of `check_packets`, which accepts one connection at
most, `Visit` one turn of its loop over clients with whole packets; what
arrives with a key is answered to the key (`SendPacket`), at once or later and
by any thread. The server runs on either platform, chosen in `Init`:
`AddressU64` takes host and port on Windows, and on Unix the host and two bytes
of an integer that is not initialised, modelled as any of `Tails`. A connection
filed under a key that is taken replaces the one there; nothing else removes a
client, and nothing closes a handle: once as many connections were accepted as
the system allows (`limit`), `Socket::Accept` exits on Unix and gives no client
on Windows. `Send` to a closed peer may raise SIGPIPE on Unix, which ends the
process (`stopped`). `ConnectUnix` is the constructor of a client on Unix, where
`Socket::Connect` fails and says it did not.

### CommandLine

`ProcessNamedArgument` and `ProcessRelativeArgument` are the two branches of
`ArgParser::process`, `PerformConfigToml` is `perform_config_toml`, and the
`Register*` actions with `Run` are `main` and the methods of `KhawasuApp` it
calls. `RegisterFreshSocketClient` may fail on either platform: `Connect` returns
null on Unix when `socket()` fails (unixsocket.cpp:46-49), on Windows when `connect`
does too, the constructor throws, and `register_fresh_socket_client` catches it. A
word is a string; what the code asks of one is whether it begins with
`-` (`Dashed`) and what `std::stoi` makes of it (`Number`, undefined where it
throws). The values of `--socket` and `--com` are calls of `peek()` in one
argument list; C++ leaves their order to the compiler (`order`). Ports go
through a `short` into a `uint16_t` (`Short`, `UShort`). The properties compare
the outcome with the line as a list of items, which the parser never sees.
`WellFormed` says what the items are: an option with the values it takes (the last
one may lack some), or words of the action, none of which is an option the parser
knows. Every `argv` can be read as such items, so this leaves no line out. A port
is compared with what sixteen bits keep of the number typed; one out of range is
no port, and the code does not look.

## 3. Runs

Ids are reused when `MaxRequests > IdSpace`; the code's 256 becomes 2, which
keeps the wrap-around and makes it happen. Three requests are enough for a
request, one with the same id and one between them. All runs set
CHECK_DEADLOCK FALSE: behaviours end when the bounded numbers of requests,
packets or subscriptions are used up, and after a failed assertion or a read of
freed or null memory the process is gone.

| Run | Question | Bounds |
|---|---|---|
| `requests` | Whose answer does a polling call return and `action_callback` get, how often does that run, what becomes of the entries, who uses an erased one, when may the assertion fail, does a call in a callback ever get its answer? | 2 threads, 3 requests, synchronous, asynchronous, one-way and unnamed, 2 ids, a callback; devices may answer TIMEOUT; no duplicates |
| `requests_service` | Without reuse of ids, do the requests implement `RequestService`, and does every call return? | 2 threads, 2 requests, 2 ids, one duplicate per answer, callback of `init_ctx`, no assertions |
| `requests_assert` | Does `assert(data->second.is_waiting)` hold? It does not. | 1 thread, 3 requests, 2 ids |
| `requests_c_fetch` | Does the C `fetch_action` return a response? Not after a timeout or for an unknown name. | 1 thread, 2 requests |
| `stream` | Do packets stay whole and in order with several senders, full streams, replaced connections and clients that end, what does an empty packet take with it, do senders come back, does every packet arrive, does each direction implement `PacketChannel`? | 2 connections with a client each, 1 other thread of the server, 2 packets of 1 or 3 bytes, a size field of 2, streams of 2, the server's sockets blocking or not |
| `context` | Does a name run its action, is a device announced once and known then - while the context is built, used and deleted under the mesh thread? Is every known device reported, every device discovered? | both programs, 1 address, 2 generations, 1 call, 3 lists of actions, 1 peer |
| `subscriptions` | Are ids, values and renewals kept apart, and does a renewed subscription go on for ever unless a packet is lost? | 2 threads and the mesh thread, 2 subscriptions, 1 START or DONE delivered twice |
| `clients` | Where do answers go when connections come, close and replace each other; who is replaced; is everything received that was sent? | both platforms, 3 hosts (one with a Unix client), 2 ports, 2 connections, 1 or 2 handles, 2 contents of the uninitialised bytes |
| `clients_connect` | Is a client interface connected once it is constructed? Not on Unix. | 1 connection |
| `command_line` | Is what is parsed what was typed, does a program that runs have the interfaces that were written, does it get that far? | lines of up to 3 of 15 items and lines with a truncated option, 3 files and a missing one, both orders |
| `command_line_doc` | Is the README's example line read? Not with the order gcc chooses. | that line |
| `command_line_boud` | Does a program that runs with the README's config file use the rate it gives? Not if it is under `boud`. | that file |

A size field of two bytes has the same cuts as one of four: before, inside and
after it. Streams of 2 bytes just hold a size field and no packet as a whole: a
`Send` waits, or is cut, inside the size field, behind it, inside a payload of 3 bytes,
or not at all, and both mesh threads can wait for each other. Two connections are one and the one that takes its place; two packets are two
senders that overlap, or one that waits in the payload while the connection is
replaced and the other sends on the new one. Two
generations of a device show a stale directory; a third would show it again. One
address is enough because entries of different addresses share nothing. The
lists of actions hold the cases that differ: two names, the second alone, a name
that is empty between two. Two connections show a replacement under one key, two
keys for one host, and hosts side by side; with one handle the second connection
is refused. The items of a command line are every option, in a spelling each,
with values that look like options, numbers that are none, a port above 32767
and an action with a negative value; three items put an option before, after and
between words of the action, and two files after each other.

What the passing runs say about the code, in short: everything the request side
gets wrong needs one of four things - an id that came round, a duplicated
answer, a callback together with a synchronous call, or a null response - and
the properties say which. The framing goes wrong only by overlapping sends or
accepts, or by a `Send` that was cut short. A sender waits for ever only if a client
is in `Send` on a full stream that the server does not poll: because it polls the
connection that came after it, or has not yet accepted this one, or because its own
mesh thread waits on a full stream as well. In the first case the server goes on as
usual, and what waits is the old client and any server thread that sends to it. The
directory goes wrong only by remaking a device or by an empty action name; before
`deinit_ctx` the mesh thread misses at most the packet pool of a context that is
still being built; a device is unknown to the application only if its first HELLO
came before the callback was registered. Subscriptions go wrong only by a race on
the counter, a lost packet, or a START or DONE that comes twice, which makes one
round more each. An answer leaves its connection only for another of the same host
that replaced it. A command line is read as typed whenever the compiler evaluates
from the left, or no option has two values.

### What the violated runs show

* `AssertionHolds` (phy_device_manager.cpp:53, :68): an answered asynchronous
  request is never erased, so once its id comes round `emplace` keeps the
  answered entry and the next answer meets `is_waiting == false`.
* `FetchReturnsResponse` (c_api.h:77): the callback of `init_ctx`
  (c_api.cpp:241) and the wrapper (c_api.cpp:360) read through null.
* `ConstructedIsConnected` (README.md:8-10, mesh_socket_interface.cpp:16):
  `Socket::Connect` on Unix passes `sizeof(server_addr)`, the size of a pointer
  (unixsocket.cpp:59), and returns the address whether `connect` succeeded or
  not (:66), so the exception for a failed connection is not thrown.
* `DocumentedLineRead` (README.md:5): `--socket client 127.0.0.1 49152` is read
  by three `peek()` in one argument list (arg_parser.h:67). gcc evaluates
  them from the right, hands `"client"` to `std::stoi`, and the program ends with
  an exception nobody catches.
* `DocumentedRateUsed` (README.md:102): the config file gives `boud=115200`,
  config.h:69 reads `baud`, and the port is registered with rate 0.

## 4. Fairness

`ActionRequests`: weak fairness of every thread's steps inside a call and of
the mesh thread's steps inside `handle_packet`. The threads of the operating
system keep running and nothing in these paths waits except the polling loop,
which the clock ends: `Expire` is always possible there, so a fair thread cannot
poll for ever. Nothing is assumed of the network or of devices, and
nobody has to call the API. `SocketStream`: a thread inside `send_packet` goes
on when there is room, TCP delivers on a connection that stays up, a mesh thread
that is not inside `Send` keeps polling - the server's what it has in its table, a
client's its one connection. Nobody has to start a packet, to end or to connect.
`CApiContext`: the thread that builds the context gets on, the mesh thread
finishes what it has begun and wakes up from its sleep, devices answer a HELLO
they get (weak fairness); the mesh thread comes to each device's HELLO in the end,
though it is busy with others in between, because packets wait in the streams
(strong fairness, per device). The application has to do nothing, and packets
may be lost, which the properties except.
`Subscriptions`: threads finish `subscribe_action`; a device that was asked
publishes and says when it is done; packets may be lost or come twice, and the
property excepts subscriptions that lost one, for no timer in the code restarts them.
`SocketClients`: the mesh thread keeps calling `check_packets`, which visits
every client in a call. `CommandLine`: the one thread keeps running.

## 5. Proofs

Eight modules hold theorems. They hold for every value of the constants that the
named assumptions of the modules allow: any set of threads, any number of ids,
requests, copies, devices, hosts, ports or connections, packets of any sizes and
streams of any capacity that holds a size field. Each `tlapm` run checks a
module by itself; the modules they extend are checked by their own runs. No
module has a RECURSIVE operator.

### Requests

| Theorem | States | From the invariant |
|---|---|---|
| `TypeCorrect` | `[]TypeOK` | `TypeInv` |
| `AnswersAreOwn`, `CallbacksGetOwnAnswers` | `[]AnswerIsOwn`, `[]CallbackGetsOwnAnswer` | `SameId` |
| `PendingEntriesKept` | `PendingEntryKept` | `EntryInv` |
| `AnsweredEntriesErased` | `[]AnsweredEntryErased` | `CallInv` |
| `CallsInCallbacksTimeOut` | `[]CallInCallbackTimesOut` | `SameId`, `OwnTickets`, `NetUnanswered` |
| `AssertionsNeedReuseOrCopy` | `[]AssertionNeedsReuseOrCopy` | `SameId`, `OwnTickets`, `OneAnswer`, `AnsweredHolds` |
| `ReportsAreBounded` | `[]ReportsBounded` | `ReportInv` |
| `StaleNodesNeedCallbackOrReuse` | `[]StaleNodeNeedsCallbackOrReuse` | `StaleInv` |
| `RequestsImplementService` | `ImplementsService`, assuming `MaxRequests <= IdSpace` | `ServiceInv` |

`TypeInv` adds to `TypeOK` what the steps need of `pc` and `cur`: a thread inside
a call works on a request that was issued. None of the other properties is
inductive, for each looks at the end of a story:

* `SameId` follows an answer on its way: a node, the answer stored in it, the
  result a caller copied, the packet and the iterator in the mesh thread's hands
  all belong to requests with the id they are filed under. Every step leaves
  that alone or moves an answer along equal ids; two requests with one id and
  different tickets is `IdReused`. It is proved in four parts
  (`NextTableUnder`, `NextResultUnder`, `NextPacketUnder`, `NextHistoryUnder`,
  with `NextWireIssued` for the network); `IdsKept` says that no step changes
  the id of an issued request.
* `EntryInv`: no two threads are in one call (`OwnTickets`), so the node of a call
  that has still to register is nowhere (`NotYet`), so the node a caller is about to
  erase is the one it saw answered, or gone (`AnsweredErased`).
* `CallInv`: a call is open and without an answer until it returns
  (`OpenCalls`), and where it has an answer, the entry under its id is not its
  own any more (`Erased`).
* `NetUnanswered`: while the mesh thread is in a call it stores nothing, so no
  entry holds the answer to that call.
* `OneAnswer`, for `Copies = 0`: a request not yet sent is not on its way, a
  request on its way is not answered, an answer on its way was not taken, and
  there is one answer to a request at most. So an answer that meets an answered
  entry (`AnsweredHolds`) is of another request with the same id.
* `ReportInv` counts the runs of `action_callback` for one request. A thread is in
  the kind of call its request is of (`CallModes`) and only requests that are
  answered to have entries (`EntryModes`), so what a caller adds is known and the
  rest are the reports of the mesh thread (`MeshReports`), each made by `Notified`
  (`ReportStep`). An entry is `Awaited` until its answer is stored, and never again
  afterwards (`AwaitedStep`): while an entry is awaited, or its answer is in the
  mesh thread's hands, nothing was reported (`OneReport`), provided an answer finds
  only entries that wait (`DeliverWaits`) - which is the assertion's doing, or that
  no answer comes twice.
* `StaleInv` follows the two iterators and the reference that are used after others
  had their turn: without reuse of ids the caller finds the node it erases
  (`EraseFinds`) and the mesh thread the one it stores the answer in (`StoreFinds`), for
  only an answered node is erased (`NodeGoes`); at its callback it finds it as long as
  nobody polls (`NotifyFinds`). Ids that were reused stay so, and so does a call that
  polled (`EndForGood`), so the cause (`StaleNodeCause` of an iterator,
  `StaleReferenceCause` of the reference) is still there when the run has stopped.
* `ServiceInv`: ids are the numbers of the requests while the counter has not
  come round (`FreshIds`), and an answer in any hands was given by a device
  (`AllHandled`). The refinement maps the history of a request to a stage
  (`Stage`) and then needs a step for each action that writes it: `Issue` is
  the service's `Issue`, `Handle` its `Handle` or a stutter, a return `Succeed` or
  `GiveUp`; the rest stutters (`ServiceStep`).

### Directory and context

`DirectoryInv` says that every HELLO tells what its device had when it was built,
every entry is what `ActionsMap` made of such a HELLO, and every position in a
request is that of the name in that list. From it: `NamesRunTheirActions`
(`[]RightAction`), `NotFoundMeansNotThere` (`[]NotFoundIsNotThere`) and, with a count of the news of each device (`Once`), `ToldOnce`
(`[]AnnouncedOnceKnown`). They assume that the empty name is none of `Names`.
`DirectoryTypes` (`[]TypeOK`) bounds what is kept on top of that: generations,
news and calls (`DirectoryBounds`), and the entries, of which `ActionsFirst` says that they are the
first few actions of their HELLO (`FirstFew` does the counting).

`ContextIsDirectory` shows `CtxSpec => Spec`: whatever the process builds and
deletes, each of its steps is one of the directory or leaves it alone. Hence
`ContextSafe`: the three properties hold in the process. `ManagersFound`
(`[]UsedIsThere`) rests on `ThreadInv`: the mesh thread does nothing before the
interface is there, and the managers come before it in both orders.
`ContextTypes` (`[]CtxTypeOK`) is what the process adds to the types of the
directory: its objects and the HELLOs on the way.

### Subscriptions

`TypeCorrect` (`[]TypeOK`); `IdsAreDistinct` (`[]IdsDistinct`), `ValuesComeToTheirOwn`
(`[]ValuesAreOwn`) and `RoundsDoNotOverlap` (`[]OneRoundAtATime`) from `OrderInv`: until
two threads race for the counter, ids count the subscriptions (`InOrder`), each
subscription is in one round at most and in one more for each packet of it that came
twice, and in none while a thread still makes it (`OneRound`). Every step of
`handle_packet` that ends a round begins at most one of the same subscription
(`DoneRestarts`); only `Duplicate` adds to the rounds, and then to `copied`.

### Framing

`TypeCorrect` (`[]TypeOK`), then four results from one invariant, `FlowInv`
(`FlowCorrect`). What the two ends hold shows only pieces of a packet, so the
invariant says what they are pieces of: for each direction of each connection that
is not torn there is a line of whole packets (`WholePackets`), in the order they were
sent (`InOrder`), of which the sender has written the first s bytes and the receiver
taken the first r; the stream is the part between. The receiver's buffer is the
beginning of the packet r lies in (`TakenBy`), what it was handed are the packets
before it, and those that follow in the line are all the others sent on it
(`StillToCome`); unless the client has ended, the one thread inside `send_packet`
there has just the rest of the line to write (`ToWrite`). `SendSize` puts a packet at
the end of the line; `SendPayload` and `Resume` move s; `Poll` moves r past the size
field, to the end of a packet or to somewhere in it; `Reconnect` leaves all lines
alone, for the packets of the old connection stay on it; `Close` moves the client's s
back to what still arrives (`CloseFlow`).

| Theorem | States |
|---|---|
| `PacketsIntact` | `[]DeliveredIntact` |
| `ReceiversInStep` | `[]ReceiverInStep` |
| `EmptyPacketTakesNothing` | `EmptyTakesNothing` |
| `StreamIsChannel` | `ImplementsChannel`: each direction of each connection is a `PacketChannel` until it is torn |

The lemmas under them are about slices of sequences (`SliceOfSlice`, `SliceConcat`,
`SliceOfConcat`, ...), about where packets of a line begin and end, and about how
many bytes a turn of `check_packets` takes (`CountStep`). What is
assumed: threads of the application are not the ends, size fields are not empty
and fit in a stream, no packet is empty. `StreamIsChannel` holds for `Spec`, hence
for the fair specification that `stream` runs.

### Clients

`TypeCorrect` (`[]TypeOK`), with `InLine`: the backlog is the connections after those
accepted. `AnswersStay` (`[]AnswersStayWithHost`) and `ConnectedClientsKept`
(`[]ConnectedClientKept`) from `ClientsInv`: a client is filed under a key of its
host, and on Windows of its port (`Keyed`), and an open connection is the last of
its host and port (`OpenIsLast`).

### Command line

| Theorem | States | From the invariant |
|---|---|---|
| `TypeCorrect` | `[]TypeOK` | `TypeInv` |
| `LineReadAsTyped` | `[]ParsedAsTyped` | `ParseInv` |
| `InterfacesMade` | `[]InterfacesAsWritten` | `ParseInv`, `RegisterInv` |

They hold for lines of any length, any files that `perform_config_toml` can parse
and both orders of evaluation. What is assumed of the constants is
what the types of the code say: `std::stoi` makes an `int` and makes nothing of an
empty word (`NumberAssumption`), a value read from a file has the type of its
default (`FilesAssumption`), the empty path names no file.

* `TypeInv` is `TypeOK` with the interfaces made so far; every value that gets into
  a `SocketInterface` goes through `Short`, of which `ShortType` says that it fits.
* `ParseInv`, where argument lists are read from the left or no option has two
  values: while words are left, there are k and j such that the first k items of
  the line are read and j words of the next one (`ReadTo`), which is of the action
  unless j = 0. Then the words left are those that follow (`WordsFrom`), the
  configuration is what the first k items say of the network and its interfaces
  (`NamedBy`) and what the words of the action among them say of the action
  (`ActionIs`), `relative_index` counts these words, and every number among them
  was a number (`NumbersGood`). An option moves k by one, whatever its
  values look like, because its values are where the parser peeks (`Values`, `Read`);
  a word of the action moves j or ends its item; an option the program does not know
  among them moves j and says nothing. When no word is left, k is the length of
  the line, and the configuration is that of the whole of it; the file then comes
  on top (`Settled`). A run that has thrown has a number that is none
  at k + 1 or among the words of the action (`Malformed`), and one that goes on has
  none.
* `RegisterInv`: `registered` is what `main` has tried but for what failed, in order
  (`ElementsAt`), and only socket clients fail. With `Settled`
  it is what was written: `UShort` undoes `Short` up to sixteen bits (`PortKept`).

The properties speak of all items that name an option, and of all words of the
action; the lemmas under them say how these grow by an item or a word: the elements
of a sequence at some places (`ElementsAt`, by the cardinality of what is before
them) and sequences joined one after the other (`FirstJoined`). `Induction` is
the induction over the natural numbers they need, stated for a set of numbers: the
library's has an operator for a parameter, but a least number outside a set can be
had from its theorems about well-founded relations. `Joined` exists by
that induction (`JoiningExists`).

### Model-checked only

All liveness (calls return, senders come back, packets arrive, devices are discovered
and reported, subscriptions go on, what was sent is received, programs start), which
is beyond the prover, as is ENABLED. Every invariant and every other action property
of the passing runs is stated by a theorem.

## 6. Limits

* Operations of `unordered_map` are atomic here. In the code two threads can be
  inside one at the same time, which is undefined; results hold for executions
  in which that does not happen. Memory order is sequentially consistent.
* A callback makes at most one call of the API before it returns, and the
  callback of a synchronous caller's own thread makes none.
* Payloads, names and attributes of devices and the contents of answers are left
  out; `on_action_get` never sets the status of its answer, so a fetched status
  is any status.
* `done_callback` of a subscription is a parameter the code never stores.
* `fetch_action_async` returns `ERROR = 0` for an unknown name, which is also
  the first request's id; what a caller makes of it is outside the models.
* `c_api.h` (33, 36) announces the result callbacks for `action_execute_async` and
  `action_fetch_async` only. The code also runs `action_callback` for a synchronous
  call, in `handle_packet` and again in the caller. `ReportsBounded` states what the
  code does, two runs at most, and not what the header says: the two disagree.
* An interface that cannot be made (see `RegisterFreshSocketClient`) throws through
  `init_ctx`, which is `extern "C"` (c_api.cpp:251): the caller gets no context.
  Nothing is modelled after it.
* The controller's port is drawn at random from 1 to 6
  (phy_device_manager.cpp:14) and may be that of a device the application makes;
  what the library does with a port twice is not visible here.
* `CommandLine` takes a value of another TOML type as none, as `value_or` does
  (the integer `psk = 1234` of the README's file is read as `""`; the file of the runs
  leaves it out, which comes to the same). Addresses are integers: the width of
  `far_addr_t` is the library's, and an `int` made by `std::stoi` is taken to fit.
  The action on the line is parsed and never performed by `hwctrl`. A Unix server ignores the address it is given, and
  SO_REUSEPORT lets a second one bind: the outcome of `bind` is free here.
* The example clients, the name tables (pure lookups), the libraries and the COM
  interface's implementation (in fresh-mesh) are not modelled.

## 7. Plan

The plan is carried out: `RequestService`, `ActionRequests`, `SocketStream` with
`PacketChannel` and full streams, `DeviceDirectory`, `CApiContext`, `Subscriptions`,
`SocketClients` with handles, `CommandLine`, and the theorems of section 5.

What could follow: the liveness results, once the prover has ENABLED; a
callback that makes more than one call; operations of
`unordered_map` that are not atomic, as far as their behaviour can be said at all.
