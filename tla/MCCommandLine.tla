--------------------------- MODULE MCCommandLine ---------------------------
(* Values for model checking CommandLine. *)
EXTENDS CommandLine

CONSTANT MaxItems   \* bound: items on a line

Item(opt, values) == [opt |-> opt, values |-> values]

\* Options in both spellings; values that look like options; numbers that are
\* none; an action with a negative value.
Items ==
  {Item("--net", <<"n1">>), Item("-n", <<"--psk">>), Item("--psk", <<"-1">>),
   Item("-a", <<"1">>), Item("--addr", <<"x">>),
   Item("--com", <<"/dev/tty", "9600">>),
   Item("--socket", <<"client", "127.0.0.1", "49152">>),
   Item("--socket", <<"server", "127.0.0.1", "80">>),
   Item("-c", <<"full">>), Item("-c", <<"bare">>), Item("--config", <<"none">>),
   Item("-c", <<"table">>), Item("--debug", << >>),
   Item("", <<"execute", "1", "1", "power_state", "-1", "1">>),
   Item("", <<"devices">>)}

\* Options that come last and have too few values.
Truncated == {Item("--net", << >>), Item("-a", << >>), Item("--socket", <<"server">>)}

MCLines ==
  LET Complete == UNION {[1 .. n -> Items] : n \in 0 .. MaxItems}
  IN  Complete \cup {Append(l, s) : l \in UNION {[1 .. n -> Items] : n \in 0 .. 1},
                                    s \in Truncated}

MCDashed == {"--net", "-n", "--psk", "-1", "-a", "--addr", "--com", "--socket", "-c",
             "--config", "--debug"}

\* stoi reads the digits a word begins with.
MCNumber ==
  [w \in {"1", "-1", "80", "9600", "49152", "127.0.0.1"} |->
     CASE w = "1" -> 1 [] w = "-1" -> -1 [] w = "80" -> 80 [] w = "9600" -> 9600
       [] w = "49152" -> 49152 [] w = "127.0.0.1" -> 127]

\* The README's file (its psk is an integer where the code wants a string, which
\* counts as none); one with nothing in [fresh]; one without interfaces.
MCFiles ==
  [f \in {"full", "bare", "table"} |->
     CASE f = "full" ->
            [fresh |-> [net |-> "n2", addr |-> 2],
             sockets |-> <<[type |-> "client", host |-> "h1", port |-> 49152],
                           [type |-> "server", host |-> "h2", port |-> 80]>>,
             coms |-> <<[path |-> "com1", boud |-> 115200]>>]
       [] f = "bare" -> [fresh |-> [addr |-> 1], sockets |-> << >>,
                         coms |-> <<[path |-> "com1", baud |-> 9600]>>]
       [] f = "table" -> [fresh |-> [net |-> "n2"]]]

\* README.md:5
DocumentedLines ==
  {<<Item("--net", <<"dev network">>), Item("--psk", <<"123">>), Item("-a", <<"1">>),
     Item("--socket", <<"client", "127.0.0.1", "49152">>),
     Item("", <<"execute", "1", "1", "power_state", "1">>)>>}

\* README.md:57, with the file of README.md:65-102
DocumentedFileLines == {<<Item("-c", <<"full">>)>>}
=============================================================================
