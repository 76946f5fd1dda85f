-------------------------------- MODULE Shell --------------------------------
(***************************************************************************)
(* The shells: line dispatch (src/cli/cli.c), the commands that run other  *)
(* commands (run, repeat, if, while), and the two users of the capture     *)
(* buffer (script save and script fetch, cmd_script.c).                    *)
(*                                                                         *)
(* There is one thread.  A command that waits (sleep, a transfer) pumps    *)
(* the run loop, which may dispatch a line of another shell, or of the     *)
(* same BLE shell, INSIDE it: frames of C functions pile up on one stack   *)
(* while g_expand_buf, g_cap_buf, g_running, the open script and the       *)
(* argument frames are single.                                             *)
(*                                                                         *)
(* Data: a command is its operation, its script name and its sub-commands; *)
(* every other command is "plain", with any return code.                   *)
(***************************************************************************)
EXTENDS ScriptSlots

CONSTANTS
  Commands,    \* what a line may spell, sub-commands included
  Typed,       \* commands that are typed, or bound to an edge
  Words,       \* lines of scripts
  Strays,      \* what a clobbered argv may spell, the command itself aside
  Stored,      \* what the flash may hold at start-up
  StackDepth,  \* STACK_DEPTH, frames of positional arguments
  WhileMax,    \* WHILE_MAX_ITER
  MaxLines     \* how many lines are entered (bound)

ShellIds == {"BLE", "USB", "BG"}
Loops == {"repeat", "if", "while"}
Waits == {"sleep", "fetch"}
Codes == {"OK", "ARG", "HARDWARE"}
Ops == Loops \cup Waits \cup {"plain", "run", "save", "rm"}

\* A command that names a script names one; a loop has its sub-commands.  What the flash
\* holds at start-up is what Storage leaves there (NamesUnique).
ASSUME ShellAssumption ==
  /\ StackDepth \in Nat /\ WhileMax \in Nat /\ MaxLines \in Nat
  /\ Typed \cup Words \cup Strays \subseteq Commands
  /\ \A c \in Commands :
       /\ c \in [op : Ops, name : Names \cup {Absent}, times : Nat, subs : Seq(Commands)]
       /\ c.op \in {"run", "save", "fetch", "rm"} => c.name \in Names
       /\ c.op = "repeat" => Len(c.subs) = 1
       /\ c.op = "if" => Len(c.subs) \in {2, 3}
       /\ c.op = "while" => Len(c.subs) = 2
  /\ Bodies = UNION {[1 .. n -> Words] : n \in 0 .. BodyMax}
  /\ \A t \in Stored :
       /\ t \in [Slots -> {Erased} \cup [name : Names \cup {Absent}, body : Bodies, sound : BOOLEAN]]
       /\ \A n \in Names, i, j \in Slots :
            Valid(t, i) /\ t[i].name = n /\ Valid(t, j) /\ t[j].name = n => i = j

VARIABLES
  stack,       \* the handlers that have not returned, innermost last
  running,     \* g_running of cmd_run.c
  open,        \* g_open of scripts.c
  args,        \* the frames of shell_state.c, by $0
  capturing,   \* capture_cb of each shell is set
  cap,         \* g_cap_owner_taken, g_cap_name, g_cap_len
  buf,         \* g_cap_buf
  slots,       \* the script store
  lines,       \* history: how many lines were entered
  held,        \* the BLE line buffer holds a line whose command has not returned
  typed,       \* history: the lines of the capture under way
  wanted,      \* history: the last text each script was to be given
  mixed        \* history: two users of g_cap_buf overlapped, or a line was garbled

runVars == <<running, open, args>>
capVars == <<capturing, cap, buf, typed>>
flashVars == <<slots, wanted>>
vars == <<stack, held, runVars, capVars, flashVars, lines, mixed>>

-----------------------------------------------------------------------------
(* Frames *)

Top == stack[Len(stack)]
Below == SubSeq(stack, 1, Len(stack) - 1)
Polling == IF stack = <<>> THEN TRUE ELSE Top.op \in Waits

\* Where on the stack a run, or a transfer, is
Runs == {k \in 1 .. Len(stack) : stack[k].op = "run"}
Fetches == {k \in 1 .. Len(stack) : stack[k].op = "fetch"}

\* A handler entered for command c: intact says that its argv, which points into
\* g_expand_buf, still spells c.
Frame(s, c) ==
  [shell |-> s, op |-> c.op, name |-> c.name, times |-> c.times, subs |-> c.subs,
   i |-> 0, rc |-> "OK", intact |-> TRUE, slot |-> NoSlot, text |-> <<>>]

\* expand_argv writes the one buffer every argv on the stack points into.
Clobbered(stk) == [k \in 1 .. Len(stk) |-> [stk[k] EXCEPT !.intact = FALSE]]

\* The handler on top of stk, if there is one, sees its callee return rc.
Finish(stk, rc) ==
  stack' = IF stk = <<>> THEN stk ELSE [stk EXCEPT ![Len(stk)].rc = rc]

-----------------------------------------------------------------------------
(* scripts_save, which pumps nothing: written, or refused for want of a slot or *)
(* by the flash, before or after the erase.                                     *)

Written(n, text, meant) ==
  LET i == TargetSlot(slots, n) IN
  /\ i # NoSlot
  /\ slots' = [slots EXCEPT ![i] = Header(n, text, TRUE)]
  /\ wanted' = [wanted EXCEPT ![n] = meant]

NotWritten(n) ==
  LET i == TargetSlot(slots, n) IN
  /\ slots' \in IF i = NoSlot THEN {slots} ELSE {slots, [slots EXCEPT ![i] = Erased]}
  /\ UNCHANGED wanted

-----------------------------------------------------------------------------
(* Handlers: entered for command c of shell s, on top of stk *)

Plain(stk) ==
  /\ \E rc \in Codes : Finish(stk, rc)
  /\ UNCHANGED <<runVars, capVars, flashVars>>

Refuse(stk, rc) ==
  /\ Finish(stk, rc)
  /\ UNCHANGED <<runVars, capVars, flashVars>>

\* A handler that waits, or that runs other commands, has begun.
Push(s, c, stk) ==
  /\ stack' = Append(stk, Frame(s, c))
  /\ UNCHANGED <<runVars, capVars, flashVars>>

\* sleep: refused if its duration is none, or is over a minute
Sleep(s, c, stk) == Refuse(stk, "ARG") \/ Push(s, c, stk)

\* scripts_open: one script at a time, present and sound
Opens(n) == ~open /\ Loaded(slots, n) # Absent

\* shell_push_args and shell_pop_args
RoomForArgs == Len(args) < StackDepth
PushArgs(n) == args' = Append(args, n)
PopArgs == args' = IF args = <<>> THEN args ELSE SubSeq(args, 1, Len(args) - 1)

\* run: not inside another run, the script must open, and its arguments must fit.
Run(s, c, stk) ==
  IF running \/ ~Opens(c.name) THEN Refuse(stk, "ARG")
  ELSE IF ~RoomForArgs THEN Refuse(stk, "HARDWARE")
  ELSE /\ running' = TRUE /\ open' = TRUE /\ PushArgs(c.name)
       /\ stack' = Append(stk, [Frame(s, c) EXCEPT !.slot = FindByName(slots, c.name),
                                                   !.text = Loaded(slots, c.name)])
       /\ UNCHANGED <<capVars, flashVars>>

\* slip: a second shell may start a capture
SaveUnguarded(s, c, stk) ==
  /\ cap' = [taken |-> TRUE, name |-> c.name, len |-> 0]
  /\ capturing' = [capturing EXCEPT ![s] = TRUE]
  /\ typed' = <<>>
  /\ Finish(stk, "OK")
  /\ UNCHANGED <<runVars, buf, flashVars>>

\* script save
Save(s, c, stk) ==
  IF cap.taken THEN Refuse(stk, "ARG")
  ELSE /\ cap' = [taken |-> TRUE, name |-> c.name, len |-> 0]
       /\ capturing' = [capturing EXCEPT ![s] = TRUE]
       /\ typed' = <<>>
       /\ Finish(stk, "OK")
       /\ UNCHANGED <<runVars, buf, flashVars>>

\* script fetch, up to its http_get
Fetch(s, c, stk) ==
  IF cap.taken THEN Refuse(stk, "ARG") ELSE Push(s, c, stk)

\* script rm; a refused erase is reported as no such script
Remove(c, stk) ==
  LET i == FindByName(slots, c.name) IN
  \/ Refuse(stk, "ARG")
  \/ /\ i # NoSlot
     /\ slots' = [slots EXCEPT ![i] = Erased]
     /\ Finish(stk, "OK")
     /\ UNCHANGED <<runVars, capVars, wanted>>

\* script; list and show only print
Script(s, c, stk) ==
  \/ c.op = "save" /\ Save(s, c, stk)
  \/ c.op = "fetch" /\ Fetch(s, c, stk)
  \/ c.op = "rm" /\ Remove(c, stk)

\* cli_dispatch_argv
Dispatch(s, c, stk) ==
  \/ c.op = "plain" /\ Plain(stk)
  \/ c.op \in Loops /\ Push(s, c, stk)
  \/ c.op = "sleep" /\ Sleep(s, c, stk)
  \/ c.op = "run" /\ Run(s, c, stk)
  \/ Script(s, c, stk)

\* cli_dispatch_line: expansion, then dispatch
DispatchLine(s, c, stk) == Dispatch(s, c, Clobbered(stk))

-----------------------------------------------------------------------------
(* Input: only while the run loop is pumped.  The timers that poll USB and the    *)
(* bindings are armed again when their handler returns, so those two shells never *)
(* nest in themselves; BLE packets do.                                            *)

Enters(s) ==
  /\ Polling /\ lines < MaxLines
  /\ s = "BLE" \/ \A k \in 1 .. Len(stack) : stack[k].shell # s
  /\ lines' = lines + 1

Appended(s) == s = "BLE" /\ held

\* A command line; the bindings bypass the capture test of end_of_line, and have no
\* line buffer.  A BLE line that arrives inside a BLE command is appended to the line
\* of that command, and what is dispatched again is its first word alone: a refusal,
\* since no command that waits goes without an argument.
Line(s, c) ==
  /\ Enters(s)
  /\ s = "BG" \/ ~capturing[s]
  /\ IF Appended(s) THEN Refuse(Clobbered(stack), "ARG") ELSE DispatchLine(s, c, stack)
  /\ held' = IF s = "BLE" THEN ~held /\ Len(stack') > Len(stack) ELSE held

EndCapture(s) ==
  /\ capturing' = [capturing EXCEPT ![s] = FALSE]
  /\ cap' = [cap EXCEPT !.taken = FALSE, !.len = 0]

\* capture_line_cb's size test
RoomForLine == cap.len < BodyMax

\* A line of a capture: stored, or too much, which ends it.
CaptureLine(s, w) ==
  /\ Enters(s) /\ s # "BG" /\ capturing[s] /\ ~Appended(s)
  /\ IF RoomForLine
     THEN /\ buf' = [buf EXCEPT ![cap.len + 1] = w]
          /\ cap' = [cap EXCEPT !.len = @ + 1]
          /\ typed' = Append(typed, w)
          /\ UNCHANGED capturing
     ELSE EndCapture(s) /\ UNCHANGED <<buf, typed>>
  /\ UNCHANGED <<stack, held, runVars, flashVars>>

\* A line of a capture (".end" may be one) that is garbled as above; its text is that
\* of no line that was typed.
CaptureGarbled(s, w) ==
  /\ Enters(s) /\ s # "BG" /\ capturing[s] /\ Appended(s)
  /\ held' = FALSE /\ mixed' = TRUE
  /\ IF RoomForLine
     THEN /\ buf' = [buf EXCEPT ![cap.len + 1] = w]
          /\ cap' = [cap EXCEPT !.len = @ + 1]
          /\ UNCHANGED capturing
     ELSE EndCapture(s) /\ UNCHANGED buf
  /\ UNCHANGED <<stack, runVars, flashVars, typed>>

\* slip: the capture is closed before its text is saved
SavesAfterClose == <<>>

Captured == [k \in 1 .. cap.len |-> buf[k]]

\* ".end" or ".abort"
CaptureEnds(s) ==
  /\ Enters(s) /\ s # "BG" /\ capturing[s] /\ ~Appended(s)
  /\ \/ Written(cap.name, Captured, typed)
     \/ NotWritten(cap.name)
     \/ UNCHANGED flashVars
  /\ EndCapture(s)
  /\ UNCHANGED <<stack, held, runVars, buf, typed>>

\* on_ble_disconnect, and the greeting of on_ble_connect: cli_reset drops the capture
\* of the BLE shell, not its claim on the buffer, and empties the line buffer.
BleReset ==
  /\ Polling /\ (held \/ capturing["BLE"])
  /\ capturing' = [capturing EXCEPT !["BLE"] = FALSE]
  /\ held' = FALSE
  /\ UNCHANGED <<stack, runVars, cap, buf, typed, flashVars, lines>>

-----------------------------------------------------------------------------
(* The innermost handler goes on *)

SleepEnds ==
  /\ Top.op = "sleep"
  /\ Finish(Below, "OK")
  /\ UNCHANGED <<runVars, capVars, flashVars>>

\* slip: one line more than g_cap_buf holds
RoomForOneMore(f) == Len(f.text) <= BodyMax

\* fetch_chunk's size test
RoomForChunk(f) == Len(f.text) < BodyMax

\* fetch_chunk: text is what the callback has stored; too much aborts the transfer.
FetchChunk(w) ==
  /\ Top.op = "fetch" /\ RoomForChunk(Top)
  /\ buf' = [buf EXCEPT ![Len(Top.text) + 1] = w]
  /\ stack' = [stack EXCEPT ![Len(stack)].text = Append(@, w)]
  /\ UNCHANGED <<runVars, capturing, cap, typed, flashVars>>

\* http_get returns: failed, or the text is saved, under what argv spells by then.
FetchEnds ==
  /\ Top.op = "fetch"
  /\ LET n == Len(Top.text) IN
     \/ Finish(Below, "HARDWARE") /\ UNCHANGED flashVars
     \/ \E m \in IF Top.intact THEN {Top.name} ELSE Names :
          \/ Finish(Below, "HARDWARE") /\ NotWritten(m)
          \/ Finish(Below, "OK") /\ Written(m, [k \in 1 .. n |-> buf[k]], Top.text)
  /\ UNCHANGED <<runVars, capVars>>

Do(k) == [sub |-> k, rc |-> "OK"]
Return(rc) == [sub |-> 0, rc |-> rc]

Bails(f) == f.i > 0 /\ f.rc = "HARDWARE"

RepeatNext(f) == IF Bails(f) THEN Return("HARDWARE")
                 ELSE IF f.i = f.times THEN Return("OK") ELSE Do(1)

IfNext(f) ==
  CASE f.i = 0 -> Do(1)
    [] f.i = 1 /\ f.rc = "OK" -> Do(2)
    [] f.i = 1 /\ f.rc # "OK" -> IF Len(f.subs) = 3 THEN Do(3) ELSE Return("OK")
    [] f.i = 2 -> Return(f.rc)

WhileNext(f) ==
  CASE f.i % 2 = 1 -> IF f.rc = "OK" THEN Do(2) ELSE Return("OK")
    [] f.i % 2 = 0 -> IF Bails(f) \/ f.i = 2 * WhileMax THEN Return("HARDWARE") ELSE Do(1)

\* What a loop does next: one of its sub-commands, or return (sub = 0).
NextSub(f) ==
  CASE f.op = "repeat" -> RepeatNext(f)
    [] f.op = "if" -> IfNext(f)
    [] f.op = "while" -> WhileNext(f)

\* slip: the loop does not count its iterations
Uncounted(stk) == stk

Counted(stk) == [stk EXCEPT ![Len(stk)].i = @ + 1]

\* repeat, if, while: the sub-command its argv spells by now.
LoopStep ==
  /\ Top.op \in Loops
  /\ LET n == NextSub(Top) IN
     IF n.sub = 0 THEN Finish(Below, n.rc) /\ UNCHANGED <<runVars, capVars, flashVars>>
     ELSE \E c \in {Top.subs[n.sub]} \cup (IF Top.intact THEN {} ELSE Strays) :
            Dispatch(Top.shell, c, Counted(stack))

\* run: the next line, read through the pointer scripts_open gave.  A script that was
\* saved over or removed since reads as whatever the sector holds.
RunLine ==
  /\ Top.op = "run" /\ Top.i < Len(Top.text)
  /\ LET same == slots[Top.slot] = Header(Top.name, Top.text, TRUE) IN
     \E c \in IF same THEN {Top.text[Top.i + 1]} ELSE Strays :
       DispatchLine(Top.shell, c, Counted(stack))

\* slip: the script stays open
RunLeavesOpen ==
  /\ Top.op = "run" /\ Top.i = Len(Top.text)
  /\ running' = FALSE /\ PopArgs
  /\ Finish(Below, "OK")
  /\ UNCHANGED <<open, capVars, flashVars>>

RunEnds ==
  /\ Top.op = "run" /\ Top.i = Len(Top.text)
  /\ running' = FALSE /\ open' = FALSE /\ PopArgs
  /\ Finish(Below, "OK")
  /\ UNCHANGED <<capVars, flashVars>>

\* end_of_line empties the line buffer when the BLE line it dispatched returns: the
\* frames of a line stand on nothing, or on a handler that waits.
LineBuffer ==
  held' = (held /\ ~ /\ Len(stack') < Len(stack) /\ Top.shell = "BLE"
                      /\ IF Below = <<>> THEN TRUE ELSE Below[Len(Below)].op \in Waits)

GoesOn == /\ stack # <<>>
          /\ SleepEnds \/ FetchEnds \/ LoopStep \/ RunLine \/ RunEnds
          /\ LineBuffer /\ UNCHANGED lines

-----------------------------------------------------------------------------
\* Who uses g_cap_buf: each transfer, and a capture
BufUsers == Fetches \cup (IF cap.taken THEN {0} ELSE {})
Overlap == \E u, v \in BufUsers : u # v

Init ==
  /\ stack = <<>> /\ held = FALSE /\ running = FALSE /\ open = FALSE /\ args = <<>>
  /\ capturing = [s \in ShellIds |-> FALSE]
  /\ cap = [taken |-> FALSE, name |-> Absent, len |-> 0]
  /\ buf = [k \in 1 .. BodyMax |-> Absent]
  /\ slots \in Stored
  /\ lines = 0 /\ typed = <<>> /\ mixed = FALSE
  /\ wanted = [n \in Names |-> Loaded(slots, n)]

Input == \E s \in ShellIds :
  \/ \E c \in Typed : Line(s, c)
  \/ \E w \in Words : CaptureLine(s, w)
  \/ CaptureEnds(s)

Receives == /\ stack # <<>> /\ \E w \in Words : FetchChunk(w)
            /\ UNCHANGED <<held, lines>>

Overlaps == mixed' = (mixed \/ Overlap')

Next == \/ (Input \/ BleReset \/ GoesOn \/ Receives) /\ Overlaps
        \/ \E s \in ShellIds, w \in Words : CaptureGarbled(s, w)

Spec == Init /\ [][Next]_vars

\* A handler that is on top of the stack runs: sleeps end, http_get returns
\* (HttpGet), and nothing else holds the thread.
FairSpec == Spec /\ WF_vars(GoesOn /\ Overlaps)

-----------------------------------------------------------------------------
(* Properties *)

\* Types and limits: captured text never passes the end of g_cap_buf, nor the argument
\* frames the end of g_stack.
TypeOK ==
  /\ running \in BOOLEAN /\ open \in BOOLEAN
  /\ args \in Seq(Names) /\ Len(args) <= StackDepth
  /\ capturing \in [ShellIds -> BOOLEAN]
  /\ cap.taken \in BOOLEAN /\ cap.len \in 0 .. BodyMax
  /\ \A k \in 1 .. BodyMax : buf[k] \in Words \cup {Absent}
  /\ \A k \in Fetches : Len(stack[k].text) <= BodyMax
  /\ lines \in 0 .. MaxLines /\ mixed \in BOOLEAN /\ held \in BOOLEAN

\* On every path through cmd_run.c, its refusals and its nesting included, the single
\* resources are held exactly while a run is on the stack: g_running, the open script
\* and one argument frame whose $0 is that run's script.
RunIsBalanced ==
  /\ running = (Runs # {}) /\ open = running
  /\ IF running THEN \E k \in Runs : Runs = {k} /\ args = <<stack[k].name>> ELSE args = <<>>

\* One heredoc at a time across all shells (cmd_script.c:26-30): a shell that captures
\* owns the buffer, and no two do.
OneCapture ==
  /\ \A s \in ShellIds : capturing[s] => cap.taken
  /\ \A s, t \in ShellIds : capturing[s] /\ capturing[t] => s = t

\* What holds between any two steps of the shells: types and limits, run's resources on
\* every path, one capture at a time.
ShellInv == TypeOK /\ RunIsBalanced /\ OneCapture

\* As long as a transfer and a capture (or two transfers) never overlapped and no line
\* was garbled, a stored script is the text its user typed or its server sent, whole
\* and in order.
StoredAsMeant ==
  ~mixed => \A n \in Names : Loaded(slots, n) \in {Absent, wanted[n]}

\* Every command line comes to its end: loops are capped, scripts are finite, and no
\* handler waits for something only an outer handler could do.
LinesFinish == (stack # <<>>) ~> (stack = <<>>)

(* What the documentation says, and the code does not do *)

\* README.md:109, cmd_repeat.c:3: a loop that has sub-commands to go still has the
\* command it was given.
LoopKeepsItsCommand ==
  \A k \in 1 .. Len(stack) :
    stack[k].op \in Loops /\ NextSub(stack[k]).sub # 0 => stack[k].intact

\* cmd_script.c:79: a save is refused because one is in progress on another shell.
TakenMeansCapturing == cap.taken => \E s \in ShellIds : capturing[s]

\* cmd_script.c:182-183: no other command touches g_cap_buf while a fetch runs.
FetchOwnsTheBuffer == Fetches # {} => ~Overlap
=============================================================================
