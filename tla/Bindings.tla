------------------------------- MODULE Bindings -------------------------------
(***************************************************************************)
(* GPIO bindings: src/system/bindings.c, with the timer of src/main.c that *)
(* dispatches them and the commands bind, unbind and bindings.             *)
(*                                                                         *)
(* The GPIO interrupt can come between any two stores of the main thread;  *)
(* the handler itself is not interrupted.  Calls of the main thread run to *)
(* their end, but a target that is being run may make such calls too, and  *)
(* so may the other shells while it waits.  Power may fail at any step.    *)
(*                                                                         *)
(* Data: targets are left out (a binding is its pin and its edge), and     *)
(* milliseconds are counted modulo TimeMod.                                *)
(***************************************************************************)
EXTENDS Naturals, Sequences, FiniteSets

CONSTANTS
  Pins, Edges,           \* the pins and edges that are bound
  SlotCount,             \* BIND_SLOT_COUNT
  Debounce, TimeMod,     \* debounce_ms, and 2^32
  Stored,                \* what the flash sector may hold at first
  MaxCalls,              \* how many calls the shells make (bound)
  Blank, Torn, Nothing   \* what the flash sector may hold besides a table

Slots == 1 .. SlotCount
NoSlot == 0

Tables == UNION {[1 .. n -> [pin : Pins, edge : Edges]] : n \in 0 .. SlotCount}

\* bindings_save is what wrote the sector: one binding per pin.
ASSUME BindingsAssumption ==
  /\ Edges \subseteq {"high", "low", "change"} /\ Edges # {} /\ Pins # {}
  /\ SlotCount \in Nat \ {0} /\ MaxCalls \in Nat
  /\ Stored \subseteq Tables \cup {Blank, Torn}
  /\ \A table \in Stored \cap Tables : \A k, l \in DOMAIN table :
       table[k].pin = table[l].pin => k = l
  /\ {Blank, Torn, Nothing} \cap Tables = {}
  /\ Debounce \in Nat \ {0} /\ TimeMod \in Nat /\ TimeMod > Debounce

VARIABLES
  slots,       \* g_slots
  armed,       \* the events each pin may interrupt on
  now,         \* milliseconds since boot
  todo, at,    \* the writes the call under way still has to do, and its next one
  cur,         \* the slot it works on
  scan, phase, \* where bindings_dispatch_pending is; 0 when it is not running
  sector, op,  \* the flash sector, and what is done to it
  calls,       \* how many calls were made
  seen,        \* history: edges on each pin since it was bound or dispatched
  since,       \* history: milliseconds since each slot accepted an edge, up to Debounce
  restored     \* history: the table loaded last, Nothing once it was changed

threadVars == <<todo, at, cur>>
dispatchVars == <<scan, phase>>
flashVars == <<sector, op>>
vars == <<slots, armed, now, threadVars, dispatchVars, flashVars, calls, seen, since,
          restored>>

Record == INSTANCE FlashRecord WITH Values <- Tables

Task(do, pin, edge, slot) == [do |-> do, pin |-> pin, edge |-> edge, slot |-> slot]
SomePin == CHOOSE p \in Pins : TRUE
SomeEdge == CHOOSE e \in Edges : TRUE

\* memset of g_slots
Unused == [used |-> FALSE, pin |-> SomePin, edge |-> SomeEdge, last |-> 0, pending |-> FALSE]

Events(edge) ==
  (IF edge # "low" THEN {"rise"} ELSE {}) \cup (IF edge # "high" THEN {"fall"} ELSE {})

-----------------------------------------------------------------------------
(* Interrupt *)

\* slip: the end of the window is computed, and wraps
WindowEnds(s) == now < (s.last + Debounce) % TimeMod

\* The test of gpio_irq_cb; the subtraction is unsigned.
TooSoon(s) == (now + TimeMod - s.last) % TimeMod < Debounce

\* gpio_irq_cb
Interrupt(pin, events) ==
  LET hit == {i \in Slots : /\ slots[i].used /\ slots[i].pin = pin
                            /\ Events(slots[i].edge) \cap events # {}
                            /\ ~TooSoon(slots[i])}
  IN /\ events # {} /\ events \subseteq armed[pin]
     /\ slots' = [i \in Slots |-> IF i \in hit THEN [slots[i] EXCEPT !.last = now, !.pending = TRUE]
                                  ELSE slots[i]]
     /\ seen' = [seen EXCEPT ![pin] = @ \cup events]
     /\ since' = [i \in Slots |-> IF i \in hit THEN 0 ELSE since[i]]
     /\ UNCHANGED <<armed, now, threadVars, dispatchVars, flashVars, calls, restored>>

Tick ==
  /\ now' = (now + 1) % TimeMod
  /\ since' = [i \in Slots |-> IF since[i] < Debounce THEN since[i] + 1 ELSE Debounce]
  /\ UNCHANGED <<slots, armed, threadVars, dispatchVars, flashVars, calls, seen, restored>>

-----------------------------------------------------------------------------
(* The main thread: table updates, one store at a time *)

\* find_slot
FindSlot(pin) ==
  LET has == {i \in Slots : slots[i].used /\ slots[i].pin = pin}
  IN IF has = {} THEN NoSlot ELSE CHOOSE i \in has : \A j \in has : i <= j

\* find_free
FindFree ==
  LET free == {i \in Slots : ~slots[i].used}
  IN IF free = {} THEN NoSlot ELSE CHOOSE i \in free : \A j \in free : i <= j

\* slip: a pin that interrupts already is left as it is
ArmedOnce(pin) ==
  IF armed[pin] # {} THEN armed[pin]
  ELSE UNION {Events(slots[i].edge) :
                i \in {j \in Slots : slots[j].used /\ slots[j].pin = pin}}

\* refresh_pin_irq: gpio_set_irq_enabled adds to what is enabled, or disables both.
Refreshed(pin) ==
  LET mask == UNION {Events(slots[i].edge) :
                       i \in {j \in Slots : slots[j].used /\ slots[j].pin = pin}}
  IN IF mask = {} THEN {} ELSE armed[pin] \cup mask

Write(field, value, next) ==
  /\ slots' = [slots EXCEPT ![cur] = [@ EXCEPT ![field] = value]]
  /\ at' = next /\ UNCHANGED <<todo, cur, armed>>

Done == todo' = Tail(todo) /\ at' = "find"

\* bindings_add finds the slot of the pin or a free one and takes it.
AddFinds ==
  LET t == Head(todo)
      i == IF FindSlot(t.pin) # NoSlot THEN FindSlot(t.pin) ELSE FindFree
  IN /\ t.do = "add" /\ at = "find"
     /\ IF i = NoSlot
        THEN Done /\ UNCHANGED <<slots, cur, seen>>
        ELSE /\ slots' = [slots EXCEPT ![i].used = TRUE]
             /\ cur' = i /\ at' = "pin" /\ UNCHANGED todo
             /\ seen' = [seen EXCEPT ![t.pin] = {}]
     /\ UNCHANGED <<armed, since>>

\* slip: what was pending in the slot stays pending
AddForgetsPending ==
  LET t == Head(todo) IN
  /\ t.do = "add"
  /\ \/ at = "pin" /\ Write("pin", t.pin, "edge") /\ UNCHANGED since
     \/ at = "edge" /\ Write("edge", t.edge, "last") /\ UNCHANGED since
     \/ /\ at = "last" /\ Write("last", 0, "arm")
        /\ since' = [since EXCEPT ![cur] = Debounce]
  /\ UNCHANGED seen

\* ... and fills it in.
AddWrites ==
  LET t == Head(todo) IN
  /\ t.do = "add"
  /\ \/ at = "pin" /\ Write("pin", t.pin, "edge") /\ UNCHANGED since
     \/ at = "edge" /\ Write("edge", t.edge, "last") /\ UNCHANGED since
     \/ /\ at = "last" /\ Write("last", 0, "pending")
        /\ since' = [since EXCEPT ![cur] = Debounce]
     \/ at = "pending" /\ Write("pending", FALSE, "arm") /\ UNCHANGED since
  /\ UNCHANGED seen

\* bindings_remove, and each turn of bindings_clear_all
Removes ==
  LET t == Head(todo)
      i == IF t.do = "remove" THEN FindSlot(t.pin)
           ELSE IF slots[t.slot].used THEN t.slot ELSE NoSlot
  IN /\ t.do \in {"remove", "clear"} /\ at = "find"
     /\ IF i = NoSlot THEN Done /\ UNCHANGED <<slots, cur>>
        ELSE /\ slots' = [slots EXCEPT ![i].used = FALSE]
             /\ cur' = i /\ at' = "arm" /\ UNCHANGED todo
     /\ UNCHANGED <<armed, since, seen>>

\* slip: a load adds to the table it finds
WipesNothing ==
  /\ Head(todo).do = "wipe" /\ Done
  /\ UNCHANGED <<slots, cur, armed, since, seen>>

\* The wipe of bindings_load, which leaves the interrupts as they are.
Wipes ==
  /\ Head(todo).do = "wipe" /\ Done
  /\ slots' = [slots EXCEPT ![Head(todo).slot].used = FALSE]
  /\ UNCHANGED <<cur, armed, since, seen>>

Arms ==
  /\ at = "arm" /\ Done
  /\ armed' = [armed EXCEPT ![slots[cur].pin] = Refreshed(slots[cur].pin)]
  /\ UNCHANGED <<slots, cur, since, seen>>

TableStep ==
  /\ todo # <<>>
  /\ AddFinds \/ AddWrites \/ Removes \/ Wipes \/ Arms
  /\ UNCHANGED <<now, dispatchVars, flashVars, calls, restored>>

-----------------------------------------------------------------------------
(* The main thread: calls *)

Quiet == todo = <<>> /\ op = Record!Idle

Table == [k \in 1 .. Cardinality({i \in Slots : slots[i].used}) |->
            LET i == CHOOSE i \in Slots :
                       slots[i].used /\ Cardinality({j \in 1 .. i : slots[j].used}) = k
            IN [pin |-> slots[i].pin, edge |-> slots[i].edge]]

PerSlot(do) == [i \in Slots |-> Task(do, SomePin, SomeEdge, i)]
AddAll(table) == [k \in 1 .. Len(table) |-> Task("add", table[k].pin, table[k].edge, NoSlot)]

\* bindings_load: nothing when the record is bad, or else a wipe and one add for each.
LoadTasks == IF Record!Load = Nothing THEN <<>> ELSE PerSlot("wipe") \o AddAll(Record!Load)

Calls(tasks, loaded) ==
  /\ todo' = tasks /\ restored' = loaded
  /\ UNCHANGED <<slots, armed, flashVars, at, cur>>

Bind == \E p \in Pins, e \in Edges : Calls(<<Task("add", p, e, NoSlot)>>, Nothing)

Unbind ==
  \/ \E p \in Pins : Calls(<<Task("remove", p, SomeEdge, NoSlot)>>, Nothing)
  \/ Calls(PerSlot("clear"), Nothing)

LoadOrSave ==
  \/ Calls(LoadTasks, IF Record!Load = Nothing THEN restored ELSE Record!Load)
  \/ Record!Save(Table) /\ UNCHANGED <<slots, armed, threadVars, restored>>

\* bind, unbind and bindings: typed, or from a target.
Command ==
  /\ Quiet
  /\ scan = 0 \/ phase = "run"
  /\ calls < MaxCalls /\ calls' = calls + 1
  /\ Bind \/ Unbind \/ LoadOrSave
  /\ UNCHANGED <<now, dispatchVars, seen, since>>

FlashStep ==
  /\ Record!RecordStep
  /\ UNCHANGED <<slots, armed, now, threadVars, dispatchVars, calls, seen, since, restored>>

\* Power fails and comes back: RAM is cleared, main loads what the flash holds.
PowerCut ==
  /\ calls < MaxCalls /\ calls' = calls + 1
  /\ Record!RecordCut
  /\ slots' = [i \in Slots |-> Unused] /\ armed' = [p \in Pins |-> {}] /\ now' = 0
  /\ todo' = LoadTasks'
  /\ at' = "find" /\ cur' = 1 /\ scan' = 0 /\ phase' = "test"
  /\ seen' = [p \in Pins |-> {}] /\ since' = [i \in Slots |-> Debounce]
  /\ restored' = IF Record!Load' = Nothing THEN <<>> ELSE Record!Load'

-----------------------------------------------------------------------------
(* The main thread: bindings_dispatch_pending *)

\* bindings_timer_expired, armed again only when the scan is over
TimerFires ==
  /\ Quiet /\ scan = 0
  /\ scan' = 1 /\ phase' = "test"
  /\ UNCHANGED <<slots, armed, now, threadVars, flashVars, calls, seen, since, restored>>

\* slip: the scan does not end
RunsOff(i) == i + 1

\* slip: the last slot is never looked at
StopsShort(i) == IF i + 1 >= SlotCount THEN 0 ELSE i + 1

After(i) == IF i = SlotCount THEN 0 ELSE i + 1

Tests ==
  /\ phase = "test"
  /\ IF slots[scan].used /\ slots[scan].pending
     THEN phase' = "take" /\ UNCHANGED scan
     ELSE scan' = After(scan) /\ UNCHANGED phase
  /\ UNCHANGED <<slots, seen>>

\* The flag is cleared before the target runs.
Takes ==
  /\ phase = "take" /\ phase' = "run"
  /\ slots' = [slots EXCEPT ![scan].pending = FALSE]
  /\ seen' = [seen EXCEPT ![slots[scan].pin] = {}]
  /\ UNCHANGED scan

TargetReturns ==
  /\ phase = "run" /\ phase' = "test"
  /\ scan' = After(scan)
  /\ UNCHANGED <<slots, seen>>

DispatchStep ==
  /\ Quiet /\ scan # 0
  /\ Tests \/ Takes \/ TargetReturns
  /\ UNCHANGED <<armed, now, threadVars, flashVars, calls, since, restored>>

-----------------------------------------------------------------------------
Init ==
  /\ slots = [i \in Slots |-> Unused] /\ armed = [p \in Pins |-> {}] /\ now = 0
  /\ sector \in Stored /\ op = Record!Idle
  /\ todo = LoadTasks /\ at = "find" /\ cur = 1 /\ scan = 0 /\ phase = "test"
  /\ calls = 0 /\ restored = IF Record!Load = Nothing THEN <<>> ELSE Record!Load
  /\ seen = [p \in Pins |-> {}] /\ since = [i \in Slots |-> Debounce]

Next ==
  \/ \E p \in Pins, events \in SUBSET {"rise", "fall"} : Interrupt(p, events)
  \/ Tick
  \/ TableStep \/ Command \/ FlashStep \/ PowerCut
  \/ TimerFires \/ DispatchStep

Spec == Init /\ [][Next]_vars

\* The thread runs on: calls and targets return, and the 20 ms timer expires.
FairSpec == /\ Spec /\ WF_vars(TableStep) /\ WF_vars(FlashStep)
            /\ WF_vars(DispatchStep) /\ WF_vars(TimerFires)

-----------------------------------------------------------------------------
(* Properties *)

\* Types.
TypeOK ==
  /\ slots \in [Slots -> [used : BOOLEAN, pin : Pins, edge : Edges,
                          last : 0 .. TimeMod - 1, pending : BOOLEAN]]
  /\ armed \in [Pins -> SUBSET {"rise", "fall"}] /\ seen \in [Pins -> SUBSET {"rise", "fall"}]
  /\ now \in 0 .. TimeMod - 1 /\ since \in [Slots -> 0 .. Debounce]
  /\ at \in {"find", "pin", "edge", "last", "pending", "arm"} /\ cur \in Slots
  /\ scan \in 0 .. SlotCount /\ phase \in {"test", "take", "run"}
  /\ sector \in Tables \cup {Blank, Torn} /\ op \in Record!Ops
  /\ calls \in 0 .. MaxCalls /\ restored \in Tables \cup {Nothing}

\* Whenever no call is half-way, a pin has one binding at most, and every edge it is
\* bound to can interrupt, whatever was bound, removed and loaded before.
BoundIsArmed ==
  todo = <<>> =>
    \A i \in Slots : slots[i].used =>
      /\ FindSlot(slots[i].pin) = i
      /\ \A j \in Slots : slots[j].used /\ slots[j].pin = slots[i].pin => i = j
      /\ Events(slots[i].edge) \subseteq armed[slots[i].pin]

\* No target runs for an edge of a binding that was there before it: a slot is pending
\* only for an edge its own pin has seen since it was bound, and was not dispatched for.
\* The interrupt may hit a slot between any two stores of bindings_add.
PendingIsOwn ==
  todo = <<>> =>
    \A i \in Slots : slots[i].used /\ slots[i].pending =>
      seen[slots[i].pin] \cap Events(slots[i].edge) # {}

\* One binding never accepts two edges within the debounce time, across the wrap of
\* the clock too.
AcceptedApart ==
  [][\A i \in Slots : since[i] \in 1 .. Debounce - 1 => since'[i] # 0]_vars

\* After a load that found a good record, at boot or by command, the table is the one
\* that was saved, until somebody changes it.
LoadRestores == Quiet /\ restored # Nothing => Table = restored

\* The table and the interrupts it stands for, between any two calls: what is bound is
\* armed, and what was saved is loaded.
TableInv == TypeOK /\ BoundIsArmed /\ LoadRestores

\* An accepted edge is not forgotten: its slot is dispatched, or bound anew, or removed.
PendingIsTaken ==
  \A i \in Slots : (slots[i].used /\ slots[i].pending) ~> ~(slots[i].used /\ slots[i].pending)
=============================================================================
