---------------------------- MODULE MCCommandLine ----------------------------
(* Every line of up to three symbols that matter to the tokenizer or to        *)
(* expansion, and longer ones that quote, escape, assign, refer and overflow.  *)
EXTENDS CommandLine

Symbols == {"A", " ", "\"", "\\", "$", "{", "1"}
Short ==
  UNION {[1 .. n -> Symbols] : n \in 1 .. 3} \cup [1 .. 4 -> {"A", " ", "\"", "\\"}]
Session == {
  <<"s", " ", "A", "=", "1">>, <<"s", " ", "A", " ", "\"", "$", "A", " ", "\"">>,
  <<"s", " ", "$", "A", " ", "1", " ">>, <<"s", " ", "A", " ", "$", "A", "$", "A">>,
  <<"s", " ", "s", " ", "$", "?">>, <<"s", " ", "u", "=", "u">>, <<"s", " ", "A", "A", "=", "1">>,
  <<"u", " ", "A", " ", "s">>, <<"u">>, <<"r", " ", "2", " ", "s", " ", "A", "=", "1">>,
  <<"r", " ", "2", " ", "s">>, <<"r", " ", "2", " ", "u", " ", "$", "1">>}
Quoting == {
  <<"\"", "\\", "\"", " ", "A", "\"">>, <<"\"", "\\", "\\", "\"", "A", " ", "1">>,
  <<"A", " ", "\"", "\\", "\"", "\"", " ", "1">>, <<"A", " ", "\"", "\"", " ", "\"", "A", "\"">>,
  <<" ", " ", "A", "\"", " ", "\"", "A", " ", " ", "1">>, <<"\"", "\\", "A", "\"", " ", "A">>}
Tight == {
  <<"A", " ", "1", " ", "A", " ", "1", " ", "A">>, <<"A", " ", "A", " ", "A", " ", "1", " ">>,
  <<"$", "{", "A", "}", "$", "{", "1", "}">>, <<"$", "A", "A", "A">>, <<"$", "A", "1", " ", "A">>,
  <<"A", "A", "A", "A", "A", "A", "$", "A">>, <<"A", "A", "A", "A", "A", "A", "A", "A">>,
  <<"$", "0", "$", "1", "$", "2", "$", "#">>,
  <<"$", "1", "$", "1", "$", "1">>, <<"A", "$", "1", "$", "1", "$", "1">>, <<"$", "1", "A", "$", "1", " ", "$", "1">>}
Ended == {<<"A", "CR", "LF">>, <<"LF", "A", "BS", "BS", "A", "CR", "A">>, <<"CTRL", "A">>, <<"CR">>}
MCKeys ==
  Symbols \cup {"s", "u", "r", "=", "}", "0", "2", "#", "?", "CR", "LF", "BS", "CTRL"}
MCPackets ==
  Ended \cup {Append(l, "LF") : l \in Short \cup Session \cup Quoting \cup Tight}
MCArgs == <<<<"A">>, <<"1", " ", "s">>>>
=============================================================================
