----------------------------- MODULE CommandLine -----------------------------
(***************************************************************************)
(* How hwctrl starts: ArgParser reads the command line into a Config, the  *)
(* TOML file it may name is read on top of that, and main registers the    *)
(* interfaces one by one (src/arg_parser.h, src/config.h, src/main.cpp,    *)
(* src/khawasu_app.cpp).                                                   *)
(*                                                                         *)
(* A line is a sequence of items: an option with its values, or (opt "")   *)
(* the words of an action.  The parser sees only the words.  An option     *)
(* with two values or more takes them by calls of peek() that are the      *)
(* arguments of one call of emplace_back, and C++ leaves the order of      *)
(* those calls to the compiler: clang makes them from the left, gcc from   *)
(* the right.                                                              *)
(***************************************************************************)
EXTENDS Integers, Sequences, FiniteSets, SequencesExt

CONSTANTS
  Lines,      \* command lines: sequences of items [opt, values]
  Dashed,     \* the words that begin with '-'
  Number,     \* what std::stoi makes of a word, if it does not throw
  Files,      \* config files that can be parsed, by path: [fresh, sockets, coms]
  Orders      \* orders the compiler may choose: left, right

ASSUME OrdersAssumption == Orders \subseteq {"left", "right"}

\* std::stoi makes nothing of an empty word.
ASSUME NumberAssumption ==
  /\ \A word \in DOMAIN Number : Number[word] \in Int
  /\ "" \notin DOMAIN Number

\* A fact of TLA+ that the provers are not told.
ASSUME EmptyWordAssumption == "" \in STRING

VARIABLES
  line,            \* what the user has typed
  order,           \* how hwctrl was built
  args,            \* words not read yet
  relative_index,  \* words of the action read so far
  config,          \* Config
  phase,           \* args, file, register, running, or how the program ended:
                   \* thrown (an exception nobody catches), exit, crash
  tried,           \* configured interfaces main has come to
  registered,      \* interfaces the mesh controller has, in order
  failed           \* history: which of the configured ones it could not make

build      == <<line, order>>
parser     == <<args, relative_index>>
interfaces == <<tried, registered, failed>>
vars       == <<build, parser, config, phase, interfaces>>

Words(item) == IF item.opt = "" THEN item.values ELSE <<item.opt>> \o item.values

SocketType == [is_server : BOOLEAN, hostname : STRING, port : -(2^15) .. 2^15 - 1]

ComType == [path : STRING, boudrate : Int]

ConfigType ==
  [network_name : STRING, network_addr : Int, network_psk : STRING,
   com_devices : Seq(ComType), socket_interfaces : Seq(SocketType),
   config_path : STRING, action_type : STRING, device_addr : Int,
   device_port : Int, action_name : STRING, action_values : Seq(STRING),
   debug : BOOLEAN]

Config ==
  [network_name |-> "", network_addr |-> 0, network_psk |-> "",
   com_devices |-> << >>, socket_interfaces |-> << >>, config_path |-> "",
   action_type |-> "", device_addr |-> 0, device_port |-> 0, action_name |-> "",
   action_values |-> << >>, debug |-> FALSE]

Init ==
  /\ line \in Lines
  /\ order \in Orders
  /\ args = FlattenSeq([i \in DOMAIN line |-> Words(line[i])])
  /\ relative_index = 0
  /\ config = Config
  /\ phase = "args"
  /\ tried = 0
  /\ registered = << >>
  /\ failed = {}

Throws(word) == word \notin DOMAIN Number

\* Mutant: the port is kept in an int.
Wide(n) == n

\* int to short, and short to uint16_t.
Short(n)  == ((n + 2^15) % 2^16) - 2^15
UShort(n) == n % 2^16
-----------------------------------------------------------------------------
(* ArgParser::process *)

\* Mutant: a word that begins with '-' is no value.
PeekUndashed(i) ==
  IF i <= Len(args) /\ args[i] \notin Dashed THEN args[i] ELSE ""

\* peek(): the next word, or an empty one.
Peek(i) == IF i <= Len(args) THEN args[i] ELSE ""

\* How many values the named arguments take.
Values(name) ==
  CASE name = "--socket" -> 3
    [] name = "--com" -> 2
    [] name \in {"--net", "-n", "--addr", "-a", "--psk", "--config", "-c"} -> 1
    [] OTHER -> 0

\* Any words can be read as items in this way: those of the action begin with
\* none of the options, and only the last option may lack values.
WellFormed(l) ==
  /\ l \in Seq([opt : STRING, values : Seq(STRING)])
  /\ \A i \in DOMAIN l :
       LET words == l[i].values
       IN  IF l[i].opt = ""
           THEN /\ words # << >>
                /\ \A j \in DOMAIN words : words[j] \in Dashed =>
                     Values(words[j]) = 0 /\ words[j] # "--debug"
           ELSE /\ l[i].opt \in Dashed
                /\ Len(words) <= Values(l[i].opt)
                /\ Len(words) = Values(l[i].opt) \/ i = Len(l)

ASSUME LinesAssumption == \A l \in Lines : WellFormed(l)

\* Mutant: the option itself is not counted among the words read.
ReadValues(name) == Values(name)

\* current_index moves past the option and its values.
Read(name) == 1 + Values(name)

\* The values in the order of the parameters they are for.
Peeked(name) ==
  LET n == Values(name)
  IN  [i \in 1 .. n |-> Peek(1 + IF order = "left" THEN i ELSE n + 1 - i)]

\* The words std::stoi is called with.
Numbers(name, v) ==
  CASE name = "--socket" -> {v[3]}
    [] name = "--com" -> {v[2]}
    [] name \in {"--addr", "-a"} -> {v[1]}
    [] OTHER -> {}

SocketInterface(server, host, port) ==
  [is_server |-> server, hostname |-> host, port |-> Short(port)]

WithNamed(name, v) ==
  CASE name \in {"--net", "-n"}    -> [config EXCEPT !.network_name = v[1]]
    [] name \in {"--addr", "-a"}   -> [config EXCEPT !.network_addr = Number[v[1]]]
    [] name = "--psk"              -> [config EXCEPT !.network_psk = v[1]]
    [] name = "--com"              -> [config EXCEPT !.com_devices =
                    Append(@, [path |-> v[1], boudrate |-> Number[v[2]]])]
    [] name = "--socket"           -> [config EXCEPT !.socket_interfaces =
                    Append(@, SocketInterface(v[1] = "server", v[2], Number[v[3]]))]
    [] name \in {"--config", "-c"} -> [config EXCEPT !.config_path = v[1]]
    [] name = "--debug"            -> [config EXCEPT !.debug = TRUE]
    [] OTHER                       -> config

ProcessNamedArgument ==
  /\ phase = "args" /\ args # << >> /\ Head(args) \in Dashed
  /\ LET name == Head(args)
         v    == Peeked(name)
     IN  \/ /\ \E word \in Numbers(name, v) : Throws(word)
            /\ phase' = "thrown"
            /\ UNCHANGED <<args, config>>
         \/ /\ ~\E word \in Numbers(name, v) : Throws(word)
            /\ args' = SubSeq(args, Read(name) + 1, Len(args))
            /\ config' = WithNamed(name, v)
            /\ UNCHANGED phase
  /\ UNCHANGED <<build, relative_index, interfaces>>

WithRelative(word) ==
  CASE relative_index = 0 -> [config EXCEPT !.action_type = word]
    [] relative_index = 1 -> [config EXCEPT !.device_addr = Number[word]]
    [] relative_index = 2 -> [config EXCEPT !.device_port = Number[word]]
    [] relative_index = 3 -> [config EXCEPT !.action_name = word]
    [] OTHER              -> [config EXCEPT !.action_values = Append(@, word)]

ProcessRelativeArgument ==
  /\ phase = "args" /\ args # << >> /\ Head(args) \notin Dashed
  /\ \/ /\ relative_index \in {1, 2} /\ Throws(Head(args))
        /\ phase' = "thrown"
        /\ UNCHANGED <<args, relative_index, config>>
     \/ /\ ~(relative_index \in {1, 2} /\ Throws(Head(args)))
        /\ args' = Tail(args)
        /\ config' = WithRelative(Head(args))
        /\ relative_index' = relative_index + 1
        /\ UNCHANGED phase
  /\ UNCHANGED <<build, interfaces>>

\* main: if (!config_path.empty()) perform_config_toml.
ArgsRead ==
  /\ phase = "args" /\ args = << >>
  /\ phase' = IF config.config_path = "" THEN "register" ELSE "file"
  /\ UNCHANGED <<build, parser, config, interfaces>>
-----------------------------------------------------------------------------
(* perform_config_toml *)

\* table[key].value_or(default); a value of another type counts as none.
ValueOr(table, key, default) ==
  IF key \in DOMAIN table THEN table[key] ELSE default

\* What [fresh.interfaces] has of each kind.
FileSockets(file) ==
  [i \in DOMAIN file.sockets |->
     SocketInterface(ValueOr(file.sockets[i], "type", "") = "server",
                     ValueOr(file.sockets[i], "host", ""),
                     ValueOr(file.sockets[i], "port", 0))]

FileComs(file) ==
  [i \in DOMAIN file.coms |->
     [path |-> ValueOr(file.coms[i], "path", ""),
      boudrate |-> ValueOr(file.coms[i], "baud", 0)]]

IsList(rows) == Len(rows) \in Nat /\ DOMAIN rows = 1 .. Len(rows)

\* A file that was parsed gives value_or(default) a value of the default's type.
ASSUME FilesAssumption ==
  /\ "" \notin DOMAIN Files
  /\ \A path \in DOMAIN Files :
       LET file == Files[path]
       IN  /\ ValueOr(file.fresh, "net", "") \in STRING
           /\ ValueOr(file.fresh, "psk", "") \in STRING
           /\ ValueOr(file.fresh, "addr", 0) \in Int
           /\ "sockets" \in DOMAIN file =>
                /\ "coms" \in DOMAIN file
                /\ IsList(file.sockets) /\ IsList(file.coms)
                /\ \A i \in DOMAIN file.sockets :
                     /\ ValueOr(file.sockets[i], "host", "") \in STRING
                     /\ ValueOr(file.sockets[i], "port", 0) \in Int
                /\ \A i \in DOMAIN file.coms :
                     /\ ValueOr(file.coms[i], "path", "") \in STRING
                     /\ ValueOr(file.coms[i], "baud", 0) \in Int

\* The settings are overwritten, with nothing if the file has none; the
\* interfaces come on top.
WithFile(file) ==
  [config EXCEPT
     !.network_addr = ValueOr(file.fresh, "addr", 0),
     !.network_name = ValueOr(file.fresh, "net", ""),
     !.network_psk  = ValueOr(file.fresh, "psk", ""),
     !.socket_interfaces = @ \o FileSockets(file),
     !.com_devices = @ \o FileComs(file)]

\* A file that cannot be parsed ends main; one without [fresh.interfaces] makes
\* the loop run over a null pointer.
PerformConfigToml ==
  /\ phase = "file"
  /\ \/ /\ config.config_path \notin DOMAIN Files
        /\ phase' = "exit" /\ UNCHANGED config
     \/ /\ config.config_path \in DOMAIN Files
        /\ LET file == Files[config.config_path]
           IN  \/ /\ "sockets" \notin DOMAIN file
                  /\ phase' = "crash" /\ UNCHANGED config
               \/ /\ "sockets" \in DOMAIN file
                  /\ phase' = "register" /\ config' = WithFile(file)
  /\ UNCHANGED <<build, parser, interfaces>>
-----------------------------------------------------------------------------
(* main: one interface after the other. *)

Interfaces == config.socket_interfaces \o config.com_devices

Current == Interfaces[tried + 1]

IsSocket == tried < Len(config.socket_interfaces)

Registering == phase = "register" /\ tried < Len(Interfaces) /\ tried' = tried + 1

AddInterface(interface) ==
  /\ registered' = Append(registered, interface)
  /\ UNCHANGED <<build, parser, config, phase, failed>>

\* Mutant: the port stays the short it is kept in.
AsKept(socket) == socket

\* The uint16_t a socket interface is given.
AsGiven(socket) == [socket EXCEPT !.port = UShort(@)]

\* A server that cannot bind or listen calls exit.
RegisterFreshSocketServer ==
  /\ Registering /\ IsSocket /\ Current.is_server
  /\ \/ AddInterface(AsGiven(Current))
     \/ phase' = "exit" /\ UNCHANGED <<build, parser, config, registered, failed>>

\* A client whose Connect returns nullptr throws, and the exception is caught: on
\* Unix when no socket can be made, on Windows when connect fails too.  On Unix a
\* client that cannot connect is added all the same.
RegisterFreshSocketClient ==
  /\ Registering /\ IsSocket /\ ~Current.is_server
  /\ \/ AddInterface(AsGiven(Current))
     \/ /\ failed' = failed \cup {tried'}
        /\ UNCHANGED <<build, parser, config, phase, registered>>

RegisterFreshComDevice == Registering /\ ~IsSocket /\ AddInterface(Current)

\* while (app.run()): the action on the line is never looked at.
Run ==
  /\ phase = "register" /\ tried = Len(Interfaces)
  /\ phase' = "running"
  /\ UNCHANGED <<build, parser, config, interfaces>>
-----------------------------------------------------------------------------
Next ==
  \/ ProcessNamedArgument \/ ProcessRelativeArgument \/ ArgsRead
  \/ PerformConfigToml
  \/ RegisterFreshSocketServer \/ RegisterFreshSocketClient
  \/ RegisterFreshComDevice \/ Run

Spec == Init /\ [][Next]_vars

FairSpec == Spec /\ WF_vars(Next)
-----------------------------------------------------------------------------
(* What the README says of a line and a file, without the parser. *)

Is(item, names) == item.opt \in names

Value(item, i) == IF i <= Len(item.values) THEN item.values[i] ELSE ""

\* The elements of a sequence at some places, in order.
ElementsAt(seq, S) ==
  LET Place(n) == CHOOSE i \in S : Cardinality({j \in S : j <= i}) = n
  IN  [n \in 1 .. Cardinality(S) |-> seq[Place(n)]]

\* Items that name one of these options, in the order they were typed.
Typed(names) == ElementsAt(line, {i \in DOMAIN line : Is(line[i], names)})

LastTyped(names) == IF Typed(names) = << >> THEN "" ELSE Value(Last(Typed(names)), 1)

\* Words that begin with '-' are taken for options the program does not have.
Undashed(words) == ElementsAt(words, {i \in DOMAIN words : words[i] \notin Dashed})

\* The words of the action.
Action ==
  FlattenSeq([i \in DOMAIN line |->
                IF Is(line[i], {""}) THEN Undashed(line[i].values) ELSE << >>])

\* A number on the line is none.
BadItem(item) ==
  \/ Is(item, {"--addr", "-a"}) /\ Throws(Value(item, 1))
  \/ Is(item, {"--com"}) /\ Throws(Value(item, 2))
  \/ Is(item, {"--socket"}) /\ Throws(Value(item, 3))

Malformed ==
  \/ \E i \in DOMAIN line : BadItem(line[i])
  \/ \E i \in {2, 3} \cap DOMAIN Action : Throws(Action[i])

Path == LastTyped({"--config", "-c"})

File == IF Path = "" THEN [fresh |-> << >>] ELSE Files[Path]

\* Network, key, address: those of the file if there is one.
Settings ==
  LET addr == LastTyped({"--addr", "-a"})
  IN  IF Path = ""
      THEN <<LastTyped({"--net", "-n"}), LastTyped({"--psk"}),
             IF addr = "" THEN 0 ELSE Number[addr]>>
      ELSE <<ValueOr(File.fresh, "net", ""), ValueOr(File.fresh, "psk", ""),
             ValueOr(File.fresh, "addr", 0)>>

\* Interfaces of each kind, those of the line before those of the file, with
\* ports as written (of a number that is no port, what sixteen bits keep).
WrittenSockets ==
  LET socket  == Typed({"--socket"})
      sockets == ValueOr(File, "sockets", << >>)
  IN  [i \in DOMAIN socket |-> [is_server |-> Value(socket[i], 1) = "server",
                                hostname |-> Value(socket[i], 2),
                                port |-> UShort(Number[Value(socket[i], 3)])]]
      \o [i \in DOMAIN sockets |->
            [is_server |-> ValueOr(sockets[i], "type", "") = "server",
             hostname |-> ValueOr(sockets[i], "host", ""),
             port |-> UShort(ValueOr(sockets[i], "port", 0))]]

WrittenComs ==
  LET com  == Typed({"--com"})
      coms == ValueOr(File, "coms", << >>)
  IN  [i \in DOMAIN com |-> [path |-> Value(com[i], 1),
                             boudrate |-> Number[Value(com[i], 2)]]]
      \o [i \in DOMAIN coms |-> [path |-> ValueOr(coms[i], "path", ""),
                                 boudrate |-> ValueOr(coms[i], "baud", 0)]]

Written == WrittenSockets \o WrittenComs

\* No option of two values or more, or a compiler that goes from the left.
InOrder == order = "left" \/ Typed({"--socket", "--com"}) = << >>
-----------------------------------------------------------------------------
TypeOK ==
  /\ line \in Lines /\ order \in Orders
  /\ relative_index \in Nat
  /\ args \in Seq(STRING)
  /\ config \in ConfigType
  /\ phase \in {"args", "file", "register", "running", "thrown", "exit", "crash"}
  /\ tried \in 0 .. Len(Interfaces)
  /\ failed \subseteq 1 .. tried
  /\ Len(registered) + Cardinality(failed) =
       IF phase = "exit" /\ tried > 0 THEN tried - 1 ELSE tried

\* What is parsed is what was typed, in whatever order the options come and
\* whatever their values look like, and a line is refused only for a number that
\* is none.
ParsedAsTyped ==
  InOrder /\ phase # "args" =>
    /\ phase = "thrown" <=> Malformed
    /\ phase \in {"register", "running"} =>
         /\ <<config.network_name, config.network_psk, config.network_addr>> = Settings
         /\ config.debug <=> Typed({"--debug"}) # << >>
         /\ Len(Action) >= 1 => config.action_type = Action[1]
         /\ Len(Action) >= 2 => config.device_addr = Number[Action[2]]
         /\ Len(Action) >= 3 => config.device_port = Number[Action[3]]
         /\ Len(Action) >= 4 => config.action_name = Action[4]
         /\ config.action_values = SubSeq(Action, 5, Len(Action))

\* A program that runs has every interface that was written, the sockets first,
\* each with the port it was written with though the port is kept in a short;
\* only clients that could make no connection are left out.  (The rate in a file
\* is what it has under baud, see DocumentedRateUsed.)
InterfacesAsWritten ==
  InOrder /\ phase = "running" =>
    /\ registered = ElementsAt(Written, DOMAIN Written \ failed)
    /\ \A i \in failed : i \in DOMAIN WrittenSockets /\ ~Written[i].is_server

\* Reading the line comes to an end, and so does registering.
Starts == <>(phase \in {"running", "thrown", "exit", "crash"})

\* The README's example (hwctrl ... --socket client 127.0.0.1 49152 execute ...)
\* connects to the network: a line is not refused if its numbers are numbers.
DocumentedLineRead == phase = "thrown" => Malformed

\* The README's file gives the rate of a serial port under boud: a program that
\* runs with a file uses that rate.
DocumentedRateUsed ==
  InOrder /\ phase = "running" =>
    LET coms == ValueOr(File, "coms", << >>)
    IN  \A i \in DOMAIN coms : "boud" \in DOMAIN coms[i] =>
          \E j \in DOMAIN registered :
            registered[j] = [path |-> coms[i].path, boudrate |-> coms[i].boud]
=============================================================================
