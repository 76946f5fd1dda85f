----------------------------- MODULE CommandLine -----------------------------
(***************************************************************************)
(* From the bytes a transport delivers to the command that runs: line      *)
(* editing (cli_feed), the in-place tokenizer (cli_parse), expansion into  *)
(* the one g_expand_buf (expand_argv), dispatch, and the shell variables   *)
(* behind it (vars.c, set, unset).  One shell, no handler that waits: what *)
(* several shells do to each other is the subject of module Shell.         *)
(*                                                                         *)
(* The tokenizer rewrites the line while it reads it, through two cursors; *)
(* expansion copies words and values into a buffer of fixed size; both     *)
(* hand pointers on.  Buffers are sequences of symbols, pointers positions *)
(* in them, and a word is what stands between a pointer and the next Nul.  *)
(* The command words set, unset and repeat are spelled "s", "u" and "r".   *)
(***************************************************************************)
EXTENDS Naturals, Sequences, FiniteSets

CONSTANTS
  Keys,        \* the bytes a transport may deliver
  Packets,     \* what it may deliver at once: sequences of keys
  MaxPackets,  \* how many of them arrive (bound)
  Letters,     \* the symbols a name may start with
  Args,        \* the positional arguments in force: $0, $1, ...; <<>> outside a script
  LineMax,     \* CLI_LINE_MAX - 1
  MaxArgs,     \* CLI_MAX_ARGS
  ExpandSize,  \* CLI_EXPAND_BUF_SIZE
  SlotCount, NameMax, ValueMax   \* VAR_MAX_COUNT, VAR_NAME_MAX, VAR_VALUE_MAX

Nul == "NUL"
Space == " "
Quote == "\""
Escape == "\\"
Dollar == "$"
CR == "CR"
LF == "LF"
Erase == "BS"
Control == "CTRL"
PacketEnd == "END"   \* not a byte: where cli_feed_line has fed its packet
Digits == <<"0", "1", "2", "3", "4", "5", "6", "7", "8", "9">>
DigitSet == {Digits[d] : d \in 1 .. 10}

ASSUME CommandLineAssumption ==
  /\ MaxPackets \in Nat /\ LineMax \in Nat \ {0} /\ MaxArgs \in Nat \ {0} /\ ExpandSize \in Nat \ {0}
  /\ Nul \notin Keys /\ Letters \subseteq Keys /\ Letters \cap (DigitSet \cup {"#", "?", Dollar}) = {}
  /\ \A p \in Packets : p \in Seq(Keys)
  /\ SlotCount \in Nat /\ NameMax \in Nat /\ ValueMax \in Nat
  /\ Args \in Seq(Seq(Keys)) /\ Len(Args) <= 10   \* SHELL_MAX_ARGS

Numeral(n) == <<Digits[n + 1]>>

OK == 0
USAGE == 1
ARG == 2

VARIABLES
  transport,   \* "ble" delivers packets (cli_feed_line), "usb" single bytes (cli_feed)
  packet,      \* keys delivered and not yet fed
  arrived,     \* how many packets have arrived
  line, wasCr, \* ctx->line, ctx->last_was_cr
  phase,       \* what cli_dispatch_line is doing
  buf,         \* the line as cli_parse rewrites it
  src, dst, quoted, argv,   \* cli_parse: cursors, in_quote, the words found
  out,         \* g_expand_buf as far as it is written
  at, words,   \* expand_argv: read cursor; pointers into out that replace argv
  loops,       \* the handlers entered: whose words run, and how often still
  slots,       \* g_slots of vars.c
  status       \* $?

feedVars == <<transport, packet, arrived, line, wasCr>>
parseVars == <<buf, src, dst, quoted, argv>>
expandVars == <<out, at, words>>
shellVars == <<slots, status>>
vars == <<feedVars, phase, parseVars, expandVars, loops, shellVars>>

-----------------------------------------------------------------------------
(* Words, names and variables *)

Symbol(s, k) == IF k <= Len(s) THEN s[k] ELSE Nul
NulFrom(s, p) == CHOOSE k \in p .. Len(s) + 1 :
                   Symbol(s, k) = Nul /\ \A j \in p .. k - 1 : s[j] # Nul
Word(s, p) == SubSeq(s, p, NulFrom(s, p) - 1)
WordsOf(s, ps) == [i \in 1 .. Len(ps) |-> Word(s, ps[i])]

\* vars_name_char_first, vars_name_char_rest, valid_name
NameRest(c) == c \in Letters \cup DigitSet
ValidName(n) ==
  n # <<>> /\ n[1] \in Letters /\ Len(n) <= NameMax /\ \A k \in 1 .. Len(n) : NameRest(n[k])

NoSlot == 0
SlotIds == 1 .. SlotCount
FirstOf(S) == IF S = {} THEN NoSlot ELSE CHOOSE i \in S : \A j \in S : i <= j

FindSlot(n) == FirstOf({i \in SlotIds : slots[i].used /\ slots[i].name = n})
FreeSlot == FirstOf({i \in SlotIds : ~slots[i].used})

\* slip: a free slot is taken before the name is looked up
SlotTakenFirst(n, v) ==
  IF ~ValidName(n) \/ Len(v) > ValueMax THEN NoSlot
  ELSE IF FreeSlot # NoSlot THEN FreeSlot ELSE FindSlot(n)

\* vars_set: the slot it writes, or NoSlot
SlotFor(n, v) ==
  IF ~ValidName(n) \/ Len(v) > ValueMax THEN NoSlot
  ELSE IF FindSlot(n) # NoSlot THEN FindSlot(n) ELSE FreeSlot

\* vars_get; what is not set expands to nothing.
ValueOf(n) == IF FindSlot(n) = NoSlot THEN <<>> ELSE slots[FindSlot(n)].value

IsSpecial(c) == c \in DigitSet \cup {"#", "?"}

\* shell_expand
SpecialValue(c) ==
  IF c = "?" THEN Numeral(status)
  ELSE IF c = "#" THEN Numeral(IF Args = <<>> THEN 0 ELSE Len(Args) - 1)
  ELSE LET idx == CHOOSE d \in 1 .. 10 : Digits[d] = c IN
       IF idx > Len(Args) THEN <<>> ELSE Args[idx]

\* The `$` at position i of s: what it stands for and where reading goes on.  A `$` that
\* introduces nothing is itself.
NameEnd(s, k) == CHOOSE e \in k .. Len(s) + 1 :
                   ~NameRest(Symbol(s, e)) /\ \A j \in k .. e - 1 : NameRest(s[j])
Reference(s, i) ==
  LET braced == Symbol(s, i + 1) = "{"
      first == IF braced THEN i + 2 ELSE i + 1
      c == Symbol(s, first)
      end == IF IsSpecial(c) THEN first + 1 ELSE NameEnd(s, first)
      next == IF braced /\ Symbol(s, end) = "}" THEN end + 1 ELSE end
  IN  CASE IsSpecial(c) -> [kind |-> "value", text |-> SpecialValue(c), next |-> next]
        [] c \in Letters /\ end - first <= NameMax ->
             [kind |-> "value", text |-> ValueOf(SubSeq(s, first, end - 1)), next |-> next]
        [] c \in Letters /\ end - first > NameMax ->
             [kind |-> "toolong", text |-> <<>>, next |-> next]
        [] OTHER -> [kind |-> "literal", text |-> <<Dollar>>, next |-> i + 1]

-----------------------------------------------------------------------------
(* cli_feed *)

\* A packet, or a run of bytes from the terminal, arrives while the shell is idle.
Arrive(p) ==
  /\ phase = "feed" /\ packet = <<>> /\ arrived < MaxPackets
  /\ arrived' = arrived + 1
  /\ packet' = IF transport = "ble" THEN Append(p, PacketEnd) ELSE p
  /\ UNCHANGED <<transport, line, wasCr, phase, parseVars, expandVars, loops, shellVars>>

NextKey == Head(packet)
Feeding == phase = "feed" /\ packet # <<>> /\ packet' = Tail(packet) /\ UNCHANGED <<transport, arrived>>

\* A byte that edits the line: BS and DEL, printable bytes while there is room, other
\* control bytes, which are dropped.
FeedByte ==
  /\ Feeding /\ NextKey \notin {CR, LF, PacketEnd}
  /\ wasCr' = FALSE
  /\ line' = CASE NextKey = Erase /\ line # <<>> -> SubSeq(line, 1, Len(line) - 1)
               [] NextKey \notin {Erase, Control} /\ Len(line) < LineMax -> Append(line, NextKey)
               [] OTHER -> line
  /\ UNCHANGED <<phase, parseVars, expandVars, loops, shellVars>>

\* A byte, or the end of a packet, that ends no line: LF after CR, a bare line end, a
\* packet whose line is already dispatched.
FeedNothing ==
  /\ Feeding
  /\ \/ NextKey = LF /\ wasCr /\ wasCr' = FALSE
     \/ NextKey \in {CR, LF} /\ line = <<>> /\ ~(NextKey = LF /\ wasCr) /\ wasCr' = (NextKey = CR)
     \/ NextKey = PacketEnd /\ line = <<>> /\ UNCHANGED wasCr
  /\ UNCHANGED <<line, phase, parseVars, expandVars, loops, shellVars>>

\* end_of_line with a line to dispatch, up to the call of cli_parse
EndOfLine ==
  /\ Feeding /\ line # <<>>
  /\ NextKey = CR \/ (NextKey = LF /\ ~wasCr) \/ NextKey = PacketEnd
  /\ wasCr' = (IF NextKey = PacketEnd THEN wasCr ELSE NextKey = CR)
  /\ phase' = "between" /\ buf' = Append(line, Nul) /\ src' = 1 /\ dst' = 1
  /\ UNCHANGED <<line, quoted, argv, expandVars, loops, shellVars>>

\* The client goes away and another one comes: on_ble_disconnect, on_ble_connect.
Reconnect ==
  /\ transport = "ble" /\ phase = "feed" /\ packet = <<>>
  /\ line' = <<>> /\ wasCr' = FALSE
  /\ UNCHANGED <<transport, packet, arrived, phase, parseVars, expandVars, loops, shellVars>>

\* end_of_line resets line_len.  What the buffers still hold is never read again.
Finish ==
  /\ phase' = "feed" /\ line' = <<>>
  /\ buf' = <<>> /\ src' = 1 /\ dst' = 1 /\ quoted' = FALSE /\ argv' = <<>>
  /\ out' = <<>> /\ at' = 1 /\ words' = <<>> /\ loops' = <<>>
  /\ UNCHANGED <<transport, packet, arrived, wasCr>>

\* cli_dispatch_line reports what is wrong with the line and returns.
Refused ==
  /\ phase \in {"unclosed", "toomany", "overflow"}
  /\ Finish /\ UNCHANGED shellVars

-----------------------------------------------------------------------------
(* cli_parse *)

Current == buf[src]
InWord == phase = "word"
KeepsRest == UNCHANGED <<feedVars, expandVars, loops, shellVars>>

SkipSpace ==
  /\ phase = "between" /\ Current = Space
  /\ src' = src + 1
  /\ UNCHANGED <<phase, buf, dst, quoted, argv>> /\ KeepsRest

StartWord ==
  /\ phase = "between" /\ Current \notin {Space, Nul}
  /\ IF Len(argv) >= MaxArgs
     THEN phase' = "toomany" /\ UNCHANGED <<quoted, argv>>
     ELSE phase' = "word" /\ argv' = Append(argv, dst) /\ quoted' = FALSE
  /\ UNCHANGED <<buf, src, dst>> /\ KeepsRest

\* One symbol of the word, from where it is read to where it is kept
Keep(from) ==
  /\ buf' = [buf EXCEPT ![dst] = buf[from]] /\ dst' = dst + 1 /\ src' = from + 1
  /\ UNCHANGED <<phase, quoted, argv>> /\ KeepsRest

Escaped == quoted /\ Current = Escape /\ buf[src + 1] \in {Quote, Escape}

\* slip: a backslash escapes whatever follows
EscapesAny == InWord /\ quoted /\ Current = Escape /\ buf[src + 1] # Nul /\ Keep(src + 1)

TakeEscaped == InWord /\ Escaped /\ Keep(src + 1)

TakeSymbol ==
  /\ InWord /\ ~Escaped /\ Current \notin {Nul, Quote} /\ (Current = Space => quoted)
  /\ Keep(src)

TakeQuote ==
  /\ InWord /\ Current = Quote
  /\ quoted' = ~quoted /\ src' = src + 1
  /\ UNCHANGED <<phase, buf, dst, argv>> /\ KeepsRest

\* slip: the terminator is written before the cursor has left the blank it lands on
TerminatesFirst ==
  /\ InWord /\ ~quoted /\ Current \in {Space, Nul}
  /\ buf' = [buf EXCEPT ![dst] = Nul] /\ dst' = dst + 1
  /\ src' = IF buf'[src] # Nul THEN src + 1 ELSE src
  /\ phase' = "between"
  /\ UNCHANGED <<quoted, argv>> /\ KeepsRest

\* The blank that ends the word is stepped over, then the terminator is written.
EndWord ==
  /\ InWord /\ ~quoted /\ Current \in {Space, Nul}
  /\ src' = IF Current # Nul THEN src + 1 ELSE src
  /\ buf' = [buf EXCEPT ![dst] = Nul] /\ dst' = dst + 1
  /\ phase' = "between"
  /\ UNCHANGED <<quoted, argv>> /\ KeepsRest

Unclosed ==
  /\ InWord /\ quoted /\ Current = Nul
  /\ phase' = "unclosed" /\ UNCHANGED parseVars /\ KeepsRest

\* cli_parse returns; a line of blanks is nothing to run.
ParseDone ==
  /\ phase = "between" /\ Current = Nul
  /\ IF argv = <<>> THEN Finish /\ UNCHANGED shellVars
     ELSE /\ phase' = "expand" /\ at' = argv[1] /\ words' = <<1>>
          /\ UNCHANGED <<feedVars, parseVars, out, loops, shellVars>>

-----------------------------------------------------------------------------
(* expand_argv *)

Expanding == phase = "expand"
Pending == Symbol(buf, at)
Here == IF Pending = Dollar THEN Reference(buf, at)
        ELSE [kind |-> "literal", text |-> <<Pending>>, next |-> at + 1]

\* slip: a value is copied whatever its length
FitsLiteral(r) == r.kind = "literal" => Len(out) < ExpandSize - 1

\* slip: the terminator is reckoned with twice
FitsWithSpare(r) == Len(out) + Len(r.text) < ExpandSize - 1

Fits(r) == IF r.kind = "literal" THEN Len(out) < ExpandSize - 1
           ELSE Len(out) + Len(r.text) < ExpandSize

ExpandNext ==
  /\ Expanding /\ Pending # Nul
  /\ IF Here.kind # "toolong" /\ Fits(Here)
     THEN out' = out \o Here.text /\ at' = Here.next /\ UNCHANGED phase
     ELSE phase' = "overflow" /\ UNCHANGED <<out, at>>
  /\ UNCHANGED <<feedVars, parseVars, words, loops, shellVars>>

\* The word is terminated; then the next one, or the command itself.
ExpandWordDone ==
  /\ Expanding /\ Pending = Nul
  /\ IF Len(out) >= ExpandSize THEN phase' = "overflow" /\ UNCHANGED <<out, at, words, loops>>
     ELSE /\ out' = Append(out, Nul)
          /\ IF Len(words) < Len(argv)
             THEN /\ words' = Append(words, Len(out) + 2) /\ at' = argv[Len(words) + 1]
                  /\ UNCHANGED <<phase, loops>>
             ELSE /\ phase' = "run" /\ loops' = <<[first |-> 1, left |-> 1]>>
                  /\ UNCHANGED <<words, at>>
  /\ UNCHANGED <<feedVars, parseVars, shellVars>>

-----------------------------------------------------------------------------
(* cli_dispatch_argv and the handlers *)

\* The words of the handler that is to be called next
Top == loops[Len(loops)]
ArgWords == WordsOf(out, SubSeq(words, Top.first, Len(words)))
Calling(name) == phase = "run" /\ Top.left > 0 /\ ArgWords[1] = <<name>>
Called == [loops EXCEPT ![Len(loops)].left = @ - 1]
Returns(rc) ==
  /\ status' = rc /\ loops' = Called
  /\ UNCHANGED <<feedVars, phase, parseVars, at, words>>

Variable(n, v) == [used |-> TRUE, name |-> n, value |-> v]

\* vars_set, and what set makes of its answer
Assign(n, v) ==
  LET i == SlotFor(n, v) IN
  IF i = NoSlot THEN UNCHANGED slots /\ Returns(ARG)
  ELSE slots' = [slots EXCEPT ![i] = Variable(n, v)] /\ Returns(OK)

RunSetWords ==
  /\ Calling("s") /\ Len(ArgWords) # 2
  /\ IF Len(ArgWords) = 1 THEN UNCHANGED slots /\ Returns(OK)
     ELSE Assign(ArgWords[2], ArgWords[3])
  /\ UNCHANGED out

\* set NAME=VALUE cuts its own word in two, in g_expand_buf.
RunSetPair ==
  LET word == ArgWords[2]
      eq == FirstOf({k \in 1 .. Len(word) : word[k] = "="})
  IN
  /\ Calling("s") /\ Len(ArgWords) = 2
  /\ IF eq = NoSlot THEN UNCHANGED <<out, slots>> /\ Returns(USAGE)
     ELSE /\ out' = [out EXCEPT ![words[Top.first + 1] + eq - 1] = Nul]
          /\ Assign(SubSeq(word, 1, eq - 1), SubSeq(word, eq + 1, Len(word)))

UnsetAll(names) ==
  [i \in SlotIds |-> IF \E k \in 1 .. Len(names) : FindSlot(names[k]) = i
                     THEN [slots[i] EXCEPT !.used = FALSE] ELSE slots[i]]

RunUnset ==
  /\ Calling("u")
  /\ IF Len(ArgWords) < 2 THEN UNCHANGED slots /\ Returns(USAGE)
     ELSE slots' = UnsetAll(Tail(ArgWords)) /\ Returns(OK)
  /\ UNCHANGED out

\* repeat: strtol, here of one digit, and the range check
Counts == {<<Digits[d]>> : d \in 2 .. 10}
CountOf(w) == (CHOOSE d \in 2 .. 10 : w = <<Digits[d]>>) - 1
RunRepeat ==
  /\ Calling("r")
  /\ IF Len(ArgWords) < 3 \/ ArgWords[2] \notin Counts
     THEN Returns(IF Len(ArgWords) < 3 THEN USAGE ELSE ARG)
     ELSE /\ loops' = Append(Called, [first |-> Top.first + 2, left |-> CountOf(ArgWords[2])])
          /\ UNCHANGED <<feedVars, phase, parseVars, at, words, status>>
  /\ UNCHANGED <<out, slots>>

RunUnknown ==
  /\ phase = "run" /\ Top.left > 0 /\ ArgWords[1] \notin {<<"s">>, <<"u">>, <<"r">>}
  /\ Returns(ARG) /\ UNCHANGED <<out, slots>>

\* The last iteration of repeat is over: it returns CLI_OK to its own dispatcher.
RepeatDone ==
  /\ phase = "run" /\ Top.left = 0 /\ Len(loops) > 1
  /\ loops' = SubSeq(loops, 1, Len(loops) - 1) /\ status' = OK
  /\ UNCHANGED <<feedVars, phase, parseVars, expandVars, slots>>

LineDone ==
  /\ phase = "run" /\ Top.left = 0 /\ Len(loops) = 1
  /\ Finish /\ UNCHANGED shellVars

-----------------------------------------------------------------------------

Init ==
  /\ transport \in {"ble", "usb"} /\ packet = <<>> /\ arrived = 0 /\ line = <<>> /\ wasCr = FALSE
  /\ phase = "feed" /\ buf = <<>> /\ src = 1 /\ dst = 1 /\ quoted = FALSE /\ argv = <<>>
  /\ out = <<>> /\ at = 1 /\ words = <<>> /\ loops = <<>>
  /\ slots = [i \in SlotIds |-> [used |-> FALSE, name |-> <<>>, value |-> <<>>]]
  /\ status = OK

Feed == (\E p \in Packets : Arrive(p)) \/ FeedByte \/ FeedNothing \/ EndOfLine \/ Reconnect
Parse == SkipSpace \/ StartWord \/ TakeEscaped \/ TakeSymbol \/ TakeQuote \/ EndWord
           \/ Unclosed \/ ParseDone
Expand == ExpandNext \/ ExpandWordDone
Run == RunSetWords \/ RunSetPair \/ RunUnset \/ RunRepeat \/ RunUnknown \/ RepeatDone \/ LineDone

Next == Feed \/ Parse \/ Refused \/ Expand \/ Run

Spec == Init /\ [][Next]_vars

-----------------------------------------------------------------------------
(* Properties *)

Phases == {"feed", "between", "word", "unclosed", "toomany", "expand", "overflow", "run"}

\* Types; the cursors stay in the line, g_expand_buf is not overrun, no more than
\* CLI_MAX_ARGS words are handed on, and a CR is remembered only until the next byte.
TypeOK ==
  /\ phase \in Phases /\ status \in {OK, USAGE, ARG} /\ Len(line) <= LineMax
  /\ phase # "feed" => src \in 1 .. Len(buf) /\ dst \in 1 .. Len(buf) + 1
  /\ Len(argv) <= MaxArgs /\ Len(words) <= Len(argv) /\ Len(out) <= ExpandSize
  /\ wasCr => line = <<>> \/ phase # "feed"
  /\ \A i \in SlotIds : slots[i].used => ValidName(slots[i].name) /\ Len(slots[i].value) <= ValueMax

\* The write cursor of cli_parse may overwrite src ("may overwrite src as we consume
\* escapes", parser.c:15), but never a byte that is still to be read: from src on, the
\* line stands as it was entered.
UnreadIsIntact ==
  phase \in {"between", "word"} =>
    \A k \in src .. Len(buf) : buf[k] = Append(line, Nul)[k]

\* What parser.h says of a line, one symbol at a time and with no buffer to share
Lex(s, c) ==
  CASE s.mode = "toomany" \/ (s.mode = "between" /\ c = Space) -> s
    [] s.mode = "between" /\ c # Space /\ Len(s.done) = MaxArgs -> [s EXCEPT !.mode = "toomany"]
    [] s.mode = "between" /\ c # Space /\ Len(s.done) < MaxArgs ->
         IF c = Quote THEN [s EXCEPT !.mode = "quoted"]
         ELSE [s EXCEPT !.mode = "plain", !.word = <<c>>]
    [] s.mode = "plain" /\ c = Space ->
         [done |-> Append(s.done, s.word), word |-> <<>>, mode |-> "between"]
    [] s.mode \in {"plain", "quoted"} /\ c = Quote ->
         [s EXCEPT !.mode = IF @ = "plain" THEN "quoted" ELSE "plain"]
    [] s.mode = "plain" /\ c \notin {Space, Quote} -> [s EXCEPT !.word = Append(@, c)]
    [] s.mode = "quoted" /\ c = Escape -> [s EXCEPT !.mode = "escaped"]
    [] s.mode = "quoted" /\ c \notin {Quote, Escape} -> [s EXCEPT !.word = Append(@, c)]
    [] s.mode = "escaped" ->
         [s EXCEPT !.mode = "quoted",
                   !.word = IF c \in {Quote, Escape} THEN Append(@, c) ELSE @ \o <<Escape, c>>]

Unread == [done |-> <<>>, word |-> <<>>, mode |-> "between"]
Lexed(s) ==
  LET After[k \in 0 .. Len(s)] == IF k = 0 THEN Unread ELSE Lex(After[k - 1], s[k])
  IN  After

Meant ==
  LET end == Lexed(line)[Len(line)]
  IN  CASE end.mode = "between" -> [verdict |-> "expand", words |-> end.done]
        [] end.mode = "plain" -> [verdict |-> "expand", words |-> Append(end.done, end.word)]
        [] end.mode \in {"quoted", "escaped"} -> [verdict |-> "unclosed", words |-> <<>>]
        [] end.mode = "toomany" -> [verdict |-> "toomany", words |-> <<>>]

\* In place or not, cli_parse finds the words, or the error, that parser.h describes.
ParsesAsMeant ==
  /\ phase \in {"unclosed", "toomany", "expand"} => Meant.verdict = phase
  /\ phase = "expand" => WordsOf(buf, argv) = Meant.words

Ahead(w) ==
  LET From[i \in 1 .. Len(w) + 1] ==
        IF i > Len(w) THEN <<>>
        ELSE IF w[i] = Dollar THEN Reference(w, i).text \o From[Reference(w, i).next]
        ELSE <<w[i]>> \o From[i + 1]
  IN  From
Expanded(w) == Ahead(w)[1]

Sizes(ws) ==
  LET Sum[i \in 0 .. Len(ws)] == IF i = 0 THEN 0 ELSE Sum[i - 1] + Len(Expanded(ws[i])) + 1
  IN  Sum
Room(ws) == Sizes(ws)[Len(ws)]

CanExpand(ws) ==
  /\ \A i \in 1 .. Len(ws) : \A k \in 1 .. Len(ws[i]) :
       ws[i][k] = Dollar => Reference(ws[i], k).kind # "toolong"
  /\ Room(ws) <= ExpandSize

\* Each word reaches the handler with every reference replaced and nothing else changed,
\* still one word whatever the value holds; a line is refused only when the words with
\* their terminators exceed g_expand_buf or name a variable that cannot exist.
Unrun == phase = "run" /\ loops = <<[first |-> 1, left |-> 1]>>
ExpandsAsMeant ==
  LET meant == WordsOf(buf, argv) IN
  /\ Unrun => /\ CanExpand(meant)
              /\ WordsOf(out, words) = [i \in 1 .. Len(meant) |-> Expanded(meant[i])]
  /\ phase = "overflow" => ~CanExpand(meant)

\* What was entered is what runs: the tokenizer's in-place cuts and the copies into
\* g_expand_buf both leave exactly the words that parser.h and cli.c describe.
ReadsAsMeant == ParsesAsMeant /\ ExpandsAsMeant

\* The table of vars.c, with its slots given up and taken again, is a map from names to
\* values: an assignment is refused only for the reasons vars.h gives, changes its own
\* name only, and what is forgotten is not found again.
UsedNames == {slots[i].name : i \in {j \in SlotIds : slots[j].used}}
Asked ==
  IF Calling("s") /\ Len(ArgWords) > 2
  THEN [does |-> "assign", name |-> ArgWords[2], value |-> ArgWords[3]]
  ELSE IF Calling("s") /\ Len(ArgWords) = 2 /\ \E k \in 1 .. Len(ArgWords[2]) : ArgWords[2][k] = "="
  THEN LET eq == CHOOSE k \in 1 .. Len(ArgWords[2]) :
                   ArgWords[2][k] = "=" /\ \A j \in 1 .. k - 1 : ArgWords[2][j] # "=" IN
       [does |-> "assign", name |-> SubSeq(ArgWords[2], 1, eq - 1),
        value |-> SubSeq(ArgWords[2], eq + 1, Len(ArgWords[2]))]
  ELSE IF Calling("u") THEN [does |-> "forget", names |-> {ArgWords[k] : k \in 2 .. Len(ArgWords)}]
  ELSE [does |-> "nothing"]

IsValue(v) == Len(v) <= ValueMax
Promise == INSTANCE VarPromise WITH
  Count <- SlotCount, IsName <- ValidName, IsValue <- IsValue,
  held <- [n \in UsedNames |-> ValueOf(n)], asked <- Asked
TableKeepsPromise == Promise!Spec

\* "Run a command N times" (cmd_repeat.c:35): a handler leaves the words of its command
\* as they are while somebody will dispatch them again.
RepeatedAlike ==
  [][(phase = "run" /\ phase' = "run" /\ \E k \in 1 .. Len(loops') : loops'[k].left > 0)
       => WordsOf(out', words') = WordsOf(out, words)]_vars
=============================================================================
