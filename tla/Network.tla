------------------------------- MODULE Network -------------------------------
(***************************************************************************)
(* Joining Wi-Fi and the network probes: src/network/wifi.c, the commands  *)
(* wifi and net (cmd_wifi.c, cmd_net.c) and the auto-connect timer of      *)
(* main.c, over a radio, a TCP stack and a name server that answer when    *)
(* they like.                                                              *)
(*                                                                         *)
(* All three wait in loops that pump the network and with it the other     *)
(* shells and the timers, so a wait may begin inside another one and ends  *)
(* before it: the waits form a stack.  wifi connect passes pointers into   *)
(* g_expand_buf, which every line dispatched meanwhile rewrites; net test  *)
(* gives lwIP a pointer to a local variable, its probe_t.                  *)
(***************************************************************************)
EXTENDS Naturals, Sequences, FiniteSets

CONSTANTS
  Shells,     \* the transports a line may come from
  Ble,        \* the one whose lines may come while its own command waits
  Creds,      \* the pairs of SSID and passphrase typed
  Stray,      \* what clobbered pointers spell instead
  Nothing,    \* no credentials, no network
  MaxProbes,  \* how many connections net test makes (bound)
  MaxLines,   \* how many lines are dispatched (bound)
  MaxBoots    \* how often the board is restarted (bound)

Timer == "timer"
Probes == 1 .. MaxProbes
NoProbe == 0

ASSUME NetworkAssumption ==
  /\ Stray \notin Creds /\ Nothing \notin Creds \cup {Stray} /\ Timer \notin Shells
  /\ Ble \in Shells /\ MaxProbes \in Nat /\ MaxLines \in Nat /\ MaxBoots \in Nat

VARIABLES
  stack,      \* the waits, the innermost last
  held,       \* the BLE line buffer holds the line of a command that waits
  radio,      \* the credentials the radio is joining with
  link,       \* the network whose link is up
  timer,      \* the auto-connect timer is still to fire
  saved,      \* what config_load_wifi finds
  pcbs,       \* lwIP's side of every connection of net test
  memory,     \* the probe_t of every connection
  probes, lines, boots,   \* how many there were
  fate,       \* history: what became of every connection while it was being made
  said,       \* history: what net test reported of it
  struck      \* history: the probes another connection's callback wrote to

radioVars == <<radio, link>>
lwipVars == <<pcbs, memory, fate, struck>>
vars == <<stack, held, radioVars, timer, saved, lwipVars, probes, lines, boots, said>>

\* A wait: who waits, for what; the credentials it was given, and whether their pointers
\* still spell them; the probe; and (history) whether no link was up and nobody
\* else's line came in between.
Frame(who, does, creds, id, alone) ==
  [who |-> who, does |-> does, creds |-> creds, intact |-> TRUE, id |-> id, alone |-> alone]
Top == stack[Len(stack)]
Waiting == stack # <<>>
Busy(who) == \E k \in 1 .. Len(stack) : stack[k].who = who
Onstack(i) == \E k \in 1 .. Len(stack) : stack[k].id = i

\* expand_argv writes the buffer the words of the waiting commands are in; the timer's
\* credentials are a local copy.
Clobbered ==
  [k \in 1 .. Len(stack) |->
     [stack[k] EXCEPT !.intact = (stack[k].who = Timer), !.alone = FALSE]]
Spelled(f) == IF f.intact THEN f.creds ELSE Stray

\* slip: the line is not emptied
LineKept == stack' = SubSeq(stack, 1, Len(stack) - 1) /\ UNCHANGED held

\* The innermost wait is over: its handler returns, and end_of_line empties the line.
Returns ==
  /\ stack' = SubSeq(stack, 1, Len(stack) - 1)
  /\ held' = (held /\ Top.who # Ble)

-----------------------------------------------------------------------------
(* Joining *)

\* cyw43_arch_wifi_connect_timeout_ms begins: the radio works on this join from now on.
\* If a link was up, it may look up until the access point is left.
Join(who, c, others) ==
  /\ stack' = Append(others, Frame(who, "join", c, NoProbe, link = Nothing))
  /\ radio' = c
  /\ link' \in {link, Nothing}

\* The radio: the join succeeds, fails for good, or finds no network, and then the waiting
\* call asks again, for what its pointers spell.
RadioJoins ==
  /\ radio \in Creds
  /\ link' = radio /\ radio' = Nothing
  /\ UNCHANGED <<stack, held, timer, saved, lwipVars, probes, lines, boots, said>>

RadioFails ==
  /\ radio # Nothing /\ radio' = Nothing
  /\ UNCHANGED <<stack, held, link, timer, saved, lwipVars, probes, lines, boots, said>>

NoNetwork ==
  /\ Waiting /\ Top.does = "join" /\ radio # Nothing
  /\ radio' = Spelled(Top)
  /\ UNCHANGED <<stack, held, link, timer, saved, lwipVars, probes, lines, boots, said>>

LinkLost ==
  /\ link' = Nothing /\ link # Nothing
  /\ UNCHANGED <<stack, held, radio, timer, saved, lwipVars, probes, lines, boots, said>>

\* slip: what was typed is saved before it is known to work
SavesAnyway ==
  /\ Waiting /\ Top.does = "join"
  /\ Returns
  /\ saved' \in IF Top.who = Timer THEN {saved} ELSE {Spelled(Top), saved, Nothing}
  /\ UNCHANGED <<radioVars, timer, lwipVars, probes, lines, boots, said>>

\* wifi_connect returns 0: the link is up.  do_connect saves what its pointers spell, if
\* the flash lets it; the timer saves nothing.
JoinSucceeds ==
  /\ Waiting /\ Top.does = "join" /\ link # Nothing
  /\ Returns
  /\ saved' \in IF Top.who = Timer THEN {saved} ELSE {Spelled(Top), saved, Nothing}
  /\ UNCHANGED <<radioVars, timer, lwipVars, probes, lines, boots, said>>

\* wifi_connect returns an error: the join failed, or 15 s are over.
JoinFails ==
  /\ Waiting /\ Top.does = "join"
  /\ Returns
  /\ UNCHANGED <<radioVars, timer, saved, lwipVars, probes, lines, boots, said>>

\* wifi_autoconnect_expired: nothing saved, nothing to do; else a wait like any other,
\* inside whatever wait pumped the timer.
AutoConnect ==
  /\ timer /\ timer' = FALSE
  /\ IF saved = Nothing THEN UNCHANGED <<stack, radioVars>>
     ELSE Join(Timer, saved, [k \in 1 .. Len(stack) |-> [stack[k] EXCEPT !.alone = FALSE]])
  /\ UNCHANGED <<held, saved, lwipVars, probes, lines, boots, said>>

-----------------------------------------------------------------------------
(* net test: lwIP's callbacks *)

Fresh == [complete |-> FALSE, connected |-> FALSE]

\* A callback of connection i writes its probe_t.  If net test has returned, that memory
\* may since belong to the probe_t of a call that is waiting now, or to nobody.  `written`
\* is every probe_t as the callback would leave it.
Writes(i, written) ==
  IF Onstack(i) THEN memory' = [memory EXCEPT ![i] = written[i]] /\ UNCHANGED struck
  ELSE \/ UNCHANGED <<memory, struck>>
       \/ \E j \in Probes : /\ Onstack(j)
                            /\ memory' = [memory EXCEPT ![j] = written[j]]
                            /\ struck' = struck \cup {j}

\* slip: the error is noted, completion is not
ErrNotComplete(m) == m

\* probe_err_cb, probe_connected_cb
ErrNoted(m) == [m EXCEPT !.complete = TRUE]
Connected(m) == [complete |-> TRUE, connected |-> TRUE]
AllErrNoted == [j \in Probes |-> ErrNoted(memory[j])]
AllConnected == [j \in Probes |-> Connected(memory[j])]

\* The handshake is done: probe_connected_cb, which closes at once; lwIP keeps the pcb
\* until the close is through.
LwipConnects(i) ==
  /\ pcbs[i] = "syn"
  /\ Writes(i, AllConnected)
  /\ pcbs' = [pcbs EXCEPT ![i] = "closing"] /\ fate' = [fate EXCEPT ![i] = "connected"]
  /\ UNCHANGED <<stack, held, radioVars, timer, saved, probes, lines, boots, said>>

\* Refused, reset or given up while connecting: lwIP frees the pcb and calls probe_err_cb.
LwipGivesUp(i) ==
  /\ pcbs[i] = "syn"
  /\ Writes(i, AllErrNoted)
  /\ pcbs' = [pcbs EXCEPT ![i] = "freed"] /\ fate' = [fate EXCEPT ![i] = "failed"]
  /\ UNCHANGED <<stack, held, radioVars, timer, saved, probes, lines, boots, said>>

\* A close ends in order, or by a reset or a timeout, of which lwIP tells probe_err_cb.
LwipCloses(i) ==
  /\ pcbs[i] = "closing"
  /\ (UNCHANGED <<memory, struck>>) \/ Writes(i, AllErrNoted)
  /\ pcbs' = [pcbs EXCEPT ![i] = "freed"]
  /\ UNCHANGED <<stack, held, radioVars, timer, saved, fate, probes, lines, boots, said>>

-----------------------------------------------------------------------------
(* net test: the wait *)

Reports(v) ==
  /\ Returns /\ said' = [said EXCEPT ![Top.id] = v]
  /\ UNCHANGED <<radioVars, timer, saved, probes, lines, boots>>
Testing == Waiting /\ Top.does = "test"

TestComplete ==
  /\ Testing /\ memory[Top.id].complete
  /\ Reports(IF memory[Top.id].connected THEN "ok" ELSE "failed")
  /\ UNCHANGED lwipVars

\* slip: the connection is left to lwIP
LeavesItOpen ==
  /\ Testing /\ ~memory[Top.id].complete
  /\ Reports("timeout") /\ UNCHANGED lwipVars

\* The 6 s are over: tcp_abort frees the pcb and runs probe_err_cb.
TestTimesOut ==
  /\ Testing /\ ~memory[Top.id].complete
  /\ pcbs' = [pcbs EXCEPT ![Top.id] = "freed"]
  /\ memory' = [memory EXCEPT ![Top.id] = ErrNoted(@)]
  /\ fate' = [fate EXCEPT ![Top.id] = "aborted"]
  /\ Reports("timeout") /\ UNCHANGED struck

\* net arp waits its 3 s out, whatever is answered, and reads the ARP table.
ArpEnds ==
  /\ Waiting /\ Top.does = "arp" /\ Returns
  /\ UNCHANGED <<radioVars, timer, saved, lwipVars, probes, lines, boots, said>>

-----------------------------------------------------------------------------
(* Lines: each rewrites g_expand_buf before its handler runs. *)

\* A BLE line that comes while the buffer holds one is appended to it, and what is
\* dispatched is the first word of the held line alone: usage, which empties the buffer.
\* No line of another shell comes while its own command waits.
Line(s) ==
  /\ lines < MaxLines /\ lines' = lines + 1
  /\ IF s = Ble THEN ~held ELSE ~Busy(s)
Waits(s) == held' = (held \/ s = Ble)

GarbledLine ==
  /\ held /\ held' = FALSE /\ lines < MaxLines /\ lines' = lines + 1
  /\ stack' = Clobbered
  /\ UNCHANGED <<radioVars, timer, saved, lwipVars, probes, boots, said>>

WifiConnect(s, c) ==
  /\ Line(s) /\ Waits(s) /\ Join(s, c, Clobbered)
  /\ UNCHANGED <<timer, saved, lwipVars, probes, boots, said>>

\* wifi forget; the flash may refuse.
WifiForget(s) ==
  /\ Line(s) /\ stack' = Clobbered /\ saved' \in {saved, Nothing}
  /\ UNCHANGED <<held, radioVars, timer, lwipVars, probes, boots, said>>

\* net test up to its wait.  tcp_connect may refuse at once: the pcb is never freed.
NetTest(s) ==
  LET i == probes + 1 IN
  /\ Line(s) /\ link # Nothing /\ i \in Probes /\ probes' = i
  /\ memory' = [memory EXCEPT ![i] = Fresh]
  /\ \/ /\ pcbs' = [pcbs EXCEPT ![i] = "syn"]
        /\ stack' = Append(Clobbered, Frame(s, "test", Nothing, i, TRUE)) /\ Waits(s)
        /\ UNCHANGED <<said, fate>>
     \/ /\ pcbs' = [pcbs EXCEPT ![i] = "leaked"] /\ fate' = [fate EXCEPT ![i] = "failed"]
        /\ stack' = Clobbered /\ said' = [said EXCEPT ![i] = "failed"]
        /\ UNCHANGED held
  /\ UNCHANGED <<radioVars, timer, saved, struck, boots>>

NetArp(s) ==
  /\ Line(s) /\ Waits(s)
  /\ stack' = Append(Clobbered, Frame(s, "arp", Nothing, NoProbe, TRUE))
  /\ UNCHANGED <<radioVars, timer, saved, lwipVars, probes, boots, said>>

\* Any other line; also one of those above that is refused before it waits.
OtherLine(s) ==
  /\ Line(s) /\ stack' = Clobbered
  /\ UNCHANGED <<held, radioVars, timer, saved, lwipVars, probes, boots, said>>

\* A central connects or disconnects: cli_reset empties the line buffer.
BleReset ==
  /\ held /\ held' = FALSE
  /\ UNCHANGED <<stack, radioVars, timer, saved, lwipVars, probes, lines, boots, said>>

\* Power, watchdog or reset: RAM is lost, the credentials are not.
Restart ==
  /\ boots < MaxBoots /\ boots' = boots + 1
  /\ stack' = <<>> /\ held' = FALSE /\ radio' = Nothing /\ link' = Nothing /\ timer' = TRUE
  /\ pcbs' = [i \in Probes |-> IF pcbs[i] = "none" THEN "none" ELSE "freed"]
  /\ memory' = [i \in Probes |-> Fresh]
  /\ UNCHANGED <<saved, fate, struck, lines, probes, said>>

-----------------------------------------------------------------------------

Init ==
  /\ stack = <<>> /\ held = FALSE /\ radio = Nothing /\ link = Nothing /\ timer = TRUE /\ saved = Nothing
  /\ pcbs = [i \in Probes |-> "none"] /\ memory = [i \in Probes |-> Fresh]
  /\ probes = 0 /\ lines = 0 /\ boots = 0
  /\ fate = [i \in Probes |-> "none"] /\ said = [i \in Probes |-> "none"] /\ struck = {}

Radio == RadioJoins \/ RadioFails \/ NoNetwork \/ LinkLost
Lwip == \E i \in Probes : LwipConnects(i) \/ LwipGivesUp(i) \/ LwipCloses(i)
WaitOver == JoinSucceeds \/ JoinFails \/ TestComplete \/ TestTimesOut \/ ArpEnds
Wifi(s) == (\E c \in Creds : WifiConnect(s, c)) \/ WifiForget(s)
Net(s) == NetTest(s) \/ NetArp(s)
Lines ==
  \/ \E s \in Shells : Wifi(s) \/ Net(s) \/ OtherLine(s)
  \/ GarbledLine \/ BleReset

Next == Radio \/ Lwip \/ WaitOver \/ AutoConnect \/ Lines \/ Restart

Spec == Init /\ [][Next]_vars

-----------------------------------------------------------------------------
(* Properties *)

Verdicts == {"none", "ok", "failed", "timeout"}
\* Types; the buffer is held only by a BLE command that waits.
TypeOK ==
  /\ radio \in Creds \cup {Stray, Nothing} /\ link \in Creds \cup {Nothing}
  /\ saved \in Creds \cup {Stray, Nothing} /\ timer \in BOOLEAN
  /\ held => Busy(Ble)
  /\ pcbs \in [Probes -> {"none", "syn", "closing", "leaked", "freed"}]
  /\ said \in [Probes -> Verdicts] /\ fate \in [Probes -> {"none", "connected", "failed", "aborted"}]
  /\ \A k \in 1 .. Len(stack) : stack[k].id \in Probes \cup {NoProbe}

\* tcp_abort (cmd_net.c:99) is given a pcb lwIP has not freed: while a probe that nobody
\* else has written to is not complete, its connection is still being made.
AbortsLivePcb ==
  \A k \in 1 .. Len(stack) :
    stack[k].does = "test" /\ ~memory[stack[k].id].complete => pcbs[stack[k].id] = "syn"

\* At every step of every wait: the line buffer belongs to a command that waits, and no
\* freed pcb is aborted.
NetworkInv == TypeOK /\ AbortsLivePcb

\* Unlike the static context of the HTTP client, a probe_t of its own keeps nested tests
\* apart: what net test reports is what its own connection did, unless a callback of a
\* connection whose net test had returned has written to it.
VerdictIsOwn ==
  \A i \in Probes \ struck :
    /\ said[i] = "ok" => fate[i] = "connected"
    /\ said[i] = "failed" => fate[i] = "failed"
    /\ said[i] = "timeout" => fate[i] = "aborted"

\* wifi connect with no link up, undisturbed: what is saved for the next boot is what was
\* typed and what the link came up with.
SavedWasJoined ==
  [][\A c \in Creds \cup {Stray} :
       (saved' = c /\ saved # c /\ Top.alone) => Top.creds = c /\ link = c]_vars

\* cmd_wifi.c:2 "join and persist credentials to flash": what a wifi connect saves is what
\* was typed.  Lines of other shells make it false: the handler's words are in the buffer
\* they rewrite.
SavedIsTyped ==
  [][\A c \in Creds \cup {Stray} : (saved' = c /\ saved # c) => Top.creds = c]_vars

\* cmd_net.c:1 "one-shot TCP connect probe": a failure that is reported is one of the
\* probe's own connection.  False: a reset of the connection of an earlier probe, which is
\* still closing, writes to memory that is now the probe_t of a later one.
FailureIsOwn == \A i \in Probes : said[i] = "failed" => fate[i] = "failed"
=============================================================================
