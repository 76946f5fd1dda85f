------------------------------ MODULE GpioProofs ------------------------------
(***************************************************************************)
(* Proofs about Bindings and Pins: what Bindings.cfg and Pins.cfg check on *)
(* a few pins, for any pins, slots, debounce time, stored table, buses,    *)
(* frequencies and duties.                                                 *)
(***************************************************************************)
EXTENDS Bindings, Pins, SequenceTheorems, FiniteSetTheorems, WellFoundedInduction, TLAPS

Slot == [used : BOOLEAN, pin : Pins, edge : Edges,
         last : 0 .. TimeMod - 1, pending : BOOLEAN]
Entry == [pin : Pins, edge : Edges]
Tasks == [do : {"add", "remove", "clear", "wipe"}, pin : Pins, edge : Edges,
          slot : Slots \cup {NoSlot}]

-----------------------------------------------------------------------------
(* Scanning the slots *)

LEMMA LeastExists ==
  ASSUME NEW S \in SUBSET Nat, S # {}
  PROVE  \E m \in S : \A k \in S : m <= k
<1>1. PICK m \in S : \A k \in S : ~(<<k, m>> \in OpToRel(<, Nat))
  BY NatLessThanWellFounded, WFMin
<1>2. \A k \in S : m <= k
  <2> TAKE k \in S
  <2>1. ~(k < m)
    BY <1>1 DEF OpToRel
  <2> QED BY <2>1
<1> QED BY <1>2

LEMMA SlotsAreNat == Slots \subseteq Nat /\ NoSlot \notin Slots /\ SlotCount \in Nat \ {0}
BY BindingsAssumption DEF Slots, NoSlot

LEMMA FindSlotFinds ==
  ASSUME NEW pin
  PROVE  \/ /\ FindSlot(pin) = NoSlot
            /\ \A i \in Slots : slots[i].used => slots[i].pin # pin
         \/ /\ FindSlot(pin) \in Slots
            /\ slots[FindSlot(pin)].used /\ slots[FindSlot(pin)].pin = pin
<1> DEFINE has == {i \in Slots : slots[i].used /\ slots[i].pin = pin}
<1>1. CASE has = {}
  BY <1>1 DEF FindSlot
<1>2. CASE has # {}
  <2>1. \E i \in has : \A j \in has : i <= j
    BY <1>2, SlotsAreNat, LeastExists
  <2>2. FindSlot(pin) \in has
    BY <1>2, <2>1 DEF FindSlot
  <2> QED BY <2>2
<1> QED BY <1>1, <1>2

LEMMA FindFreeFinds ==
  FindFree # NoSlot => FindFree \in Slots /\ ~slots[FindFree].used
<1> DEFINE free == {i \in Slots : ~slots[i].used}
<1>1. CASE free = {}
  BY <1>1 DEF FindFree
<1>2. CASE free # {}
  <2>1. \E i \in free : \A j \in free : i <= j
    BY <1>2, SlotsAreNat, LeastExists
  <2>2. FindFree \in free
    BY <1>2, <2>1 DEF FindFree
  <2> QED BY <2>2
<1> QED BY <1>1, <1>2

(* The first free slot is the one behind k slots in use. *)
LEMMA FindFreeIsNext ==
  ASSUME NEW k \in Nat, k < SlotCount,
         \A i \in Slots : slots[i].used <=> i <= k
  PROVE  FindFree = k + 1
<1> DEFINE free == {i \in Slots : ~slots[i].used}
<1>1. k + 1 \in free /\ \A i \in free : k + 1 <= i
  BY SlotsAreNat DEF Slots
<1>2. \A i \in free : (\A j \in free : i <= j) => i = k + 1
  BY <1>1, SlotsAreNat
<1> HIDE DEF free
<1>3. FindFree = CHOOSE i \in free : \A j \in free : i <= j
  BY <1>1 DEF FindFree, free
<1> QED BY <1>1, <1>2, <1>3

-----------------------------------------------------------------------------
(* The table that is saved: the slots in use, in order *)

Used(i) == {j \in 1 .. i : slots[j].used}

LEMMA UsedFinite ==
  ASSUME NEW i \in 0 .. SlotCount
  PROVE  IsFiniteSet(Used(i)) /\ Cardinality(Used(i)) \in 0 .. i
<1>1. i \in Int /\ i \in Nat
  BY SlotsAreNat
<1>2. IsFiniteSet(1 .. i) /\ Cardinality(1 .. i) = i
  BY <1>1, FS_Interval
<1>3. Used(i) \in SUBSET (1 .. i)
  BY DEF Used
<1> QED BY <1>1, <1>2, <1>3, FS_Subset, FS_CardinalityType

LEMMA UsedGrows ==
  ASSUME NEW i \in Slots
  PROVE  Cardinality(Used(i)) = IF slots[i].used THEN Cardinality(Used(i - 1)) + 1
                                ELSE Cardinality(Used(i - 1))
<1>1. i - 1 \in 0 .. SlotCount /\ i \in Nat
  BY SlotsAreNat DEF Slots
<1>2. IsFiniteSet(Used(i - 1))
  BY <1>1, UsedFinite
<1>3. CASE slots[i].used
  <2>1. Used(i) = Used(i - 1) \cup {i} /\ i \notin Used(i - 1)
    BY <1>1, <1>3 DEF Used, Slots
  <2> QED BY <1>2, <1>3, <2>1, FS_AddElement
<1>4. CASE ~slots[i].used
  <2>1. Used(i) = Used(i - 1)
    BY <1>1, <1>4 DEF Used, Slots
  <2> QED BY <1>4, <2>1
<1> QED BY <1>3, <1>4

(* Among the slots in use each number up to their count has its slot. *)
LEMMA EveryNumberHasASlot ==
  ASSUME NEW k \in 1 .. Cardinality(Used(SlotCount))
  PROVE  \E i \in Slots : slots[i].used /\ Cardinality(Used(i)) = k
<1> DEFINE reached == {i \in Slots : Cardinality(Used(i)) >= k}
<1>1. SlotCount \in reached /\ reached \in SUBSET Nat
  BY SlotsAreNat, UsedFinite DEF Slots
<1>2. PICK i \in reached : \A j \in reached : i <= j
  BY <1>1, LeastExists
<1>3. i \in Slots /\ i \in Nat /\ i - 1 \in 0 .. SlotCount
  BY <1>2, SlotsAreNat DEF Slots
<1>4. Cardinality(Used(i - 1)) \in Nat /\ Cardinality(Used(i)) \in Nat /\ k \in Nat
  <2>1. i \in 0 .. SlotCount
    BY <1>3 DEF Slots
  <2> QED BY <1>3, <2>1, UsedFinite
<1>5. Cardinality(Used(i - 1)) < k
  <2>1. CASE i = 1
    <3>1. Used(0) = {}
      BY DEF Used
    <3> QED BY <2>1, <3>1, FS_EmptySet
  <2>2. CASE i # 1
    <3>1. i - 1 \in Slots
      BY <1>3, <2>2 DEF Slots
    <3>2. i - 1 \notin reached
      BY <1>2, <1>3
    <3> QED BY <1>4, <3>1, <3>2
  <2> QED BY <2>1, <2>2
<1>6. slots[i].used /\ Cardinality(Used(i)) = k
  BY <1>2, <1>3, <1>4, <1>5, UsedGrows
<1> QED BY <1>3, <1>6

SlotOf(k) == CHOOSE i \in Slots : slots[i].used /\ Cardinality(Used(i)) = k

LEMMA TableIs ==
  /\ Table = [k \in 1 .. Cardinality(Used(SlotCount)) |->
                [pin |-> slots[SlotOf(k)].pin, edge |-> slots[SlotOf(k)].edge]]
  /\ Cardinality(Used(SlotCount)) \in 0 .. SlotCount
  /\ \A k \in 1 .. Cardinality(Used(SlotCount)) :
       SlotOf(k) \in Slots /\ slots[SlotOf(k)].used /\ Cardinality(Used(SlotOf(k))) = k
<1>1. \A k \in 1 .. Cardinality(Used(SlotCount)) :
        SlotOf(k) \in Slots /\ slots[SlotOf(k)].used /\ Cardinality(Used(SlotOf(k))) = k
  BY EveryNumberHasASlot DEF SlotOf
<1>2. Cardinality(Used(SlotCount)) \in 0 .. SlotCount
  BY SlotsAreNat, UsedFinite
<1>3. Table = [k \in 1 .. Cardinality(Used(SlotCount)) |->
                 [pin |-> slots[SlotOf(k)].pin, edge |-> slots[SlotOf(k)].edge]]
  BY DEF Table, Used, SlotOf, Slots
<1> QED BY <1>1, <1>2, <1>3

LEMMA TableType ==
  ASSUME slots \in [Slots -> Slot]
  PROVE  Table \in Tables
<1> DEFINE n == Cardinality(Used(SlotCount))
<1>1. n \in 0 .. SlotCount
  BY TableIs
<1>2. \A k \in 1 .. n : slots[SlotOf(k)].pin \in Pins /\ slots[SlotOf(k)].edge \in Edges
  BY TableIs DEF Slot
<1>3. Table \in [1 .. n -> [pin : Pins, edge : Edges]]
  BY TableIs, <1>2
<1> QED BY <1>1, <1>3 DEF Tables

Distinct(table) ==
  \A k, l \in 1 .. Len(table) : table[k].pin = table[l].pin => k = l

LEMMA TableLength ==
  ASSUME NEW t \in Tables
  PROVE  t \in Seq(Entry) /\ Len(t) \in 0 .. SlotCount /\ DOMAIN t = 1 .. Len(t)
<1>1. PICK n \in 0 .. SlotCount : t \in [1 .. n -> [pin : Pins, edge : Edges]]
  BY DEF Tables
<1>2. n \in Nat
  BY SlotsAreNat
<1>3. t \in Seq(Entry)
  <2>1. t \in [1 .. n -> Entry]
    BY <1>1 DEF Entry
  <2> QED BY <1>2, <2>1, IsASeq
<1> QED BY <1>1, <1>2, <1>3, LenProperties

LEMMA TableDistinct ==
  ASSUME slots \in [Slots -> Slot],
         \A i, j \in Slots :
           slots[i].used /\ slots[j].used /\ slots[i].pin = slots[j].pin => i = j
  PROVE  Distinct(Table)
<1> DEFINE n == Cardinality(Used(SlotCount))
<1>1. Len(Table) = n
  BY TableIs, TableType, TableLength
<1>2. SUFFICES ASSUME NEW k \in 1 .. n, NEW l \in 1 .. n, Table[k].pin = Table[l].pin
               PROVE  k = l
  BY <1>1 DEF Distinct
<1>3. slots[SlotOf(k)].pin = slots[SlotOf(l)].pin
  BY <1>2, TableIs
<1>4. SlotOf(k) = SlotOf(l)
  BY <1>3, TableIs
<1> QED BY <1>4, TableIs

(* When the slots in use are the first ones, the table is what they hold. *)
LEMMA TableOfPrefix ==
  ASSUME NEW t \in Tables, slots \in [Slots -> Slot],
         \A i \in Slots : slots[i].used <=> i <= Len(t),
         \A i \in 1 .. Len(t) : slots[i].pin = t[i].pin /\ slots[i].edge = t[i].edge
  PROVE  Table = t
<1> DEFINE n == Len(t)
<1>1. n \in 0 .. SlotCount /\ t \in Seq(Entry)
  BY TableLength
<1>2. \A i \in 0 .. SlotCount : i <= n => Cardinality(Used(i)) = i
  <2> TAKE i \in 0 .. SlotCount
  <2> HAVE i <= n
  <2>1. Used(i) = 1 .. i
    BY <1>1, SlotsAreNat DEF Used, Slots
  <2> QED BY <2>1, SlotsAreNat, FS_Interval
<1>3. Cardinality(Used(SlotCount)) = n
  <2>1. Used(SlotCount) = Used(n)
    BY <1>1, SlotsAreNat DEF Used, Slots
  <2> QED BY <1>1, <1>2, <2>1
<1>4. \A k \in 1 .. n : SlotOf(k) = k
  <2> TAKE k \in 1 .. n
  <2>1. SlotOf(k) \in Slots /\ slots[SlotOf(k)].used /\ Cardinality(Used(SlotOf(k))) = k
    BY <1>3, TableIs
  <2>2. SlotOf(k) \in 0 .. SlotCount /\ SlotOf(k) <= n
    BY <1>1, <2>1, SlotsAreNat DEF Slots
  <2> QED BY <1>2, <2>1, <2>2
<1>5. \A k \in 1 .. n : t[k] = [pin |-> t[k].pin, edge |-> t[k].edge]
  <2> TAKE k \in 1 .. n
  <2>1. t[k] \in Entry
    BY <1>1, ElementOfSeq
  <2> QED BY <2>1 DEF Entry
<1>6. t = [k \in 1 .. n |-> t[k]]
  BY <1>1, LenProperties
<1>7. Table = [k \in 1 .. n |-> [pin |-> slots[k].pin, edge |-> slots[k].edge]]
  BY <1>3, <1>4, TableIs
<1>8. \A k \in 1 .. n : [pin |-> slots[k].pin, edge |-> slots[k].edge] = t[k]
  BY <1>5
<1> QED BY <1>6, <1>7, <1>8
-----------------------------------------------------------------------------
(* The inductive invariant.  A slot that bindings_add or bindings_remove is *)
(* working on is left out of what is said of the others, which are Fixed.   *)

Adding == at # "find" /\ Head(todo).do = "add"

TasksOK ==
  /\ todo \in Seq(Tasks)
  /\ \A k \in 1 .. Len(todo) : todo[k].do \in {"clear", "wipe"} => todo[k].slot \in Slots

\* Where the call under way is, and what it has written of its slot
WriteOK ==
  at # "find" =>
    /\ todo # <<>>
    /\ at \in {"pin", "edge", "last", "pending"} => Head(todo).do = "add"
    /\ Head(todo).do # "wipe"
    /\ slots[cur].used = (Head(todo).do = "add")
    /\ (Head(todo).do = "add" /\ at # "pin") => slots[cur].pin = Head(todo).pin

\* Nothing changes the table between the test and the store of the dispatcher.
TakeOK == phase = "take" => scan # 0 /\ todo = <<>> /\ slots[scan].used

Fixed == {i \in Slots : slots[i].used /\ ~(at # "find" /\ cur = i)}

OnePerPin ==
  /\ \A i, j \in Fixed : slots[i].pin = slots[j].pin => i = j
  /\ Adding => \A i \in Fixed : slots[i].pin # Head(todo).pin

FixedArmed == \A i \in Fixed : Events(slots[i].edge) \subseteq armed[slots[i].pin]

SeenIfPending(i) ==
  slots[i].pending => seen[slots[i].pin] \cap Events(slots[i].edge) # {}

FixedSeen ==
  /\ \A i \in Fixed : SeenIfPending(i)
  /\ (Adding /\ at = "arm") => SeenIfPending(cur)

\* Within its debounce time a slot's last edge is as long ago as the clock says.
SinceIsClock ==
  \A i \in Slots : since[i] < Debounce =>
    \/ now = slots[i].last + since[i]
    \/ now + TimeMod = slots[i].last + since[i]

FlashDistinct ==
  /\ sector \in Tables => Distinct(sector)
  /\ (op # Record!Idle /\ op.does = "save") => Distinct(op.value)

Shape == TypeOK /\ TasksOK /\ WriteOK /\ TakeOK
Bound == OnePerPin /\ FixedArmed /\ FixedSeen
Inv == Shape /\ Bound /\ SinceIsClock /\ FlashDistinct

LEMMA Types ==
  ASSUME TypeOK
  PROVE  /\ slots \in [Slots -> Slot]
         /\ armed \in [Pins -> SUBSET {"rise", "fall"}]
         /\ seen \in [Pins -> SUBSET {"rise", "fall"}]
         /\ now \in 0 .. TimeMod - 1 /\ since \in [Slots -> 0 .. Debounce] /\ cur \in Slots
BY DEF TypeOK, Slot

LEMMA EventsOf ==
  ASSUME NEW e \in Edges
  PROVE  Events(e) \in SUBSET {"rise", "fall"} /\ Events(e) # {}
BY BindingsAssumption DEF Events

-----------------------------------------------------------------------------
(* Steps that leave every entry of the table, and the call under way, alone *)

LEMMA EntriesKept ==
  ASSUME Inv, UNCHANGED <<todo, at, cur, armed>>,
         \A i \in Slots : /\ slots'[i].used = slots[i].used
                          /\ slots'[i].pin = slots[i].pin
                          /\ slots'[i].edge = slots[i].edge
  PROVE  TasksOK' /\ WriteOK' /\ OnePerPin' /\ FixedArmed' /\ Fixed' = Fixed
<1>1. cur \in Slots
  BY Types DEF Inv, Shape
<1>2. Fixed' = Fixed
  BY DEF Fixed
<1>3. TasksOK'
  BY DEF Inv, Shape, TasksOK
<1>4. WriteOK'
  BY <1>1 DEF Inv, Shape, WriteOK
<1>5. OnePerPin'
  BY <1>2 DEF Inv, Bound, OnePerPin, Adding, Fixed
<1>6. FixedArmed'
  BY <1>2 DEF Inv, Bound, FixedArmed, Fixed
<1> QED BY <1>2, <1>3, <1>4, <1>5, <1>6

LEMMA InterruptEffect ==
  ASSUME Inv, NEW pin \in Pins, NEW events \in SUBSET {"rise", "fall"},
         Interrupt(pin, events), NEW i \in Slots
  PROVE  /\ slots'[i].used = slots[i].used /\ slots'[i].pin = slots[i].pin
         /\ slots'[i].edge = slots[i].edge /\ slots'[i] \in Slot
         /\ \/ slots'[i] = slots[i] /\ since'[i] = since[i]
            \/ /\ slots[i].pin = pin /\ Events(slots[i].edge) \cap events # {}
               /\ ~TooSoon(slots[i])
               /\ slots'[i].last = now /\ since'[i] = 0
<1> DEFINE hit == {j \in Slots : /\ slots[j].used /\ slots[j].pin = pin
                                 /\ Events(slots[j].edge) \cap events # {}
                                 /\ ~TooSoon(slots[j])}
<1>1. /\ slots'[i] = IF i \in hit THEN [slots[i] EXCEPT !.last = now, !.pending = TRUE]
                     ELSE slots[i]
      /\ since'[i] = IF i \in hit THEN 0 ELSE since[i]
  BY DEF Interrupt
<1>2. slots[i] \in Slot /\ now \in 0 .. TimeMod - 1
  BY Types DEF Inv, Shape
<1>3. CASE i \in hit
  <2>1. /\ slots[i].pin = pin /\ Events(slots[i].edge) \cap events # {}
        /\ ~TooSoon(slots[i])
    BY <1>3
  <2> HIDE DEF hit
  <2> QED BY <1>1, <1>2, <1>3, <2>1 DEF Slot
<1>4. CASE i \notin hit
  BY <1>1, <1>2, <1>4
<1> QED BY <1>3, <1>4

LEMMA InterruptKeeps ==
  ASSUME Inv, NEW pin \in Pins, NEW events \in SUBSET {"rise", "fall"},
         Interrupt(pin, events)
  PROVE  Inv'
<1>0. /\ UNCHANGED <<armed, now, threadVars, dispatchVars, flashVars, calls, restored>>
      /\ seen' = [seen EXCEPT ![pin] = @ \cup events]
      /\ slots' = [i \in Slots |-> slots'[i]]
      /\ since' = [i \in Slots |-> since'[i]]
  BY DEF Interrupt
<1>1. /\ slots \in [Slots -> Slot] /\ seen \in [Pins -> SUBSET {"rise", "fall"}]
      /\ now \in 0 .. TimeMod - 1 /\ since \in [Slots -> 0 .. Debounce] /\ cur \in Slots
  BY Types DEF Inv, Shape
<1>2. slots' \in [Slots -> Slot]
  BY <1>0, InterruptEffect
<1>3. since' \in [Slots -> 0 .. Debounce]
  <2>1. \A i \in Slots : since'[i] \in 0 .. Debounce
    BY <1>1, InterruptEffect, BindingsAssumption
  <2> QED BY <1>0, <2>1
<1>4. seen' \in [Pins -> SUBSET {"rise", "fall"}]
  BY <1>0, <1>1
<1>5. TypeOK'
  BY <1>0, <1>2, <1>3, <1>4 DEF Inv, Shape, TypeOK, Slot, threadVars, dispatchVars, flashVars
<1>6. TasksOK' /\ WriteOK' /\ OnePerPin' /\ FixedArmed' /\ Fixed' = Fixed
  BY <1>0, InterruptEffect, EntriesKept DEF threadVars
<1>7. TakeOK'
  <2>1. ASSUME phase = "take" PROVE scan \in Slots
    BY <2>1, SlotsAreNat DEF Inv, Shape, TakeOK, TypeOK, Slots
  <2> QED BY <1>0, <2>1, InterruptEffect
          DEF Inv, Shape, TakeOK, threadVars, dispatchVars
<1>8. ASSUME NEW i \in Slots, SeenIfPending(i) PROVE SeenIfPending(i)'
  <2>1. slots[i].pin \in Pins /\ seen[slots[i].pin] \subseteq seen'[slots[i].pin]
    BY <1>0, <1>1 DEF Slot
  <2>2. CASE slots'[i] = slots[i]
    BY <1>8, <2>1, <2>2 DEF SeenIfPending
  <2>3. CASE slots[i].pin = pin /\ Events(slots[i].edge) \cap events # {}
    <3>1. events \subseteq seen'[slots[i].pin]
      BY <1>0, <1>1, <2>1, <2>3
    <3>2. slots'[i].pin = slots[i].pin /\ slots'[i].edge = slots[i].edge
      BY InterruptEffect
    <3> QED BY <2>3, <3>1, <3>2 DEF SeenIfPending
  <2> QED BY <2>2, <2>3, InterruptEffect
<1>9. FixedSeen'
  <2>1. Fixed \subseteq Slots
    BY DEF Fixed
  <2> QED BY <1>0, <1>1, <1>6, <1>8, <2>1 DEF Inv, Bound, FixedSeen, Adding, threadVars
<1>10. SinceIsClock'
  <2> SUFFICES ASSUME NEW i \in Slots, since'[i] < Debounce
               PROVE  \/ now = slots'[i].last + since'[i]
                      \/ now + TimeMod = slots'[i].last + since'[i]
    BY <1>0 DEF SinceIsClock
  <2>1. CASE slots'[i] = slots[i] /\ since'[i] = since[i]
    BY <2>1 DEF Inv, SinceIsClock
  <2>2. CASE slots'[i].last = now /\ since'[i] = 0
    BY <1>1, <2>2, BindingsAssumption
  <2> QED BY <2>1, <2>2, InterruptEffect
<1>11. FlashDistinct'
  BY <1>0 DEF Inv, FlashDistinct, flashVars, Distinct, Record!Idle
<1> QED BY <1>5, <1>6, <1>7, <1>9, <1>10, <1>11 DEF Inv, Shape, Bound

LEMMA TickKeeps ==
  ASSUME Inv, Tick
  PROVE  Inv'
<1>0. UNCHANGED <<slots, armed, threadVars, dispatchVars, flashVars, calls, seen, restored>>
  BY DEF Tick
<1>1. /\ slots \in [Slots -> Slot] /\ cur \in Slots
      /\ now \in 0 .. TimeMod - 1 /\ since \in [Slots -> 0 .. Debounce]
      /\ Debounce \in Nat \ {0} /\ TimeMod \in Nat /\ TimeMod > Debounce
  BY Types, BindingsAssumption DEF Inv, Shape
<1>2. now' = IF now + 1 = TimeMod THEN 0 ELSE now + 1
  <2>1. CASE now + 1 = TimeMod
    BY <1>1, <2>1 DEF Tick
  <2>2. CASE now + 1 # TimeMod
    <3>1. now + 1 \in 0 .. TimeMod - 1
      BY <1>1, <2>2
    <3> QED BY <1>1, <2>2, <3>1 DEF Tick
  <2> QED BY <2>1, <2>2
<1>3. now' \in 0 .. TimeMod - 1
  BY <1>1, <1>2
<1>4. \A i \in Slots :
        since'[i] = IF since[i] < Debounce THEN since[i] + 1 ELSE Debounce
  BY DEF Tick
<1>5. since' \in [Slots -> 0 .. Debounce]
  <2>1. since' = [i \in Slots |-> since'[i]]
    BY DEF Tick
  <2>2. \A i \in Slots : since'[i] \in 0 .. Debounce
    BY <1>1, <1>4
  <2> QED BY <2>1, <2>2
<1>6. TypeOK'
  BY <1>0, <1>3, <1>5 DEF Inv, Shape, TypeOK, threadVars, dispatchVars, flashVars
<1>7. TasksOK' /\ WriteOK' /\ OnePerPin' /\ FixedArmed' /\ Fixed' = Fixed
  BY <1>0, EntriesKept DEF threadVars
<1>8. TakeOK' /\ FixedSeen' /\ FlashDistinct'
  BY <1>0, <1>7 DEF Inv, Shape, Bound, TakeOK, FixedSeen, SeenIfPending, Adding,
     FlashDistinct, threadVars, dispatchVars, flashVars, Distinct, Record!Idle
<1>9. SinceIsClock'
  <2> SUFFICES ASSUME NEW i \in Slots, since'[i] < Debounce
               PROVE  \/ now' = slots[i].last + since'[i]
                      \/ now' + TimeMod = slots[i].last + since'[i]
    BY <1>0 DEF SinceIsClock
  <2>1. since[i] \in 0 .. Debounce /\ slots[i].last \in 0 .. TimeMod - 1
    BY <1>1 DEF Slot
  <2>2. since[i] < Debounce /\ since'[i] = since[i] + 1
    BY <1>1, <1>4, <2>1
  <2>3. \/ now = slots[i].last + since[i]
        \/ now + TimeMod = slots[i].last + since[i]
    BY <2>2 DEF Inv, SinceIsClock
  <2> QED BY <1>1, <1>2, <2>1, <2>2, <2>3
<1> QED BY <1>6, <1>7, <1>8, <1>9 DEF Inv, Shape, Bound
-----------------------------------------------------------------------------
(* The stores of bindings_add, bindings_remove, bindings_clear_all and the   *)
(* wipe of bindings_load                                                     *)

LEMMA HeadTask ==
  ASSUME Inv, todo # <<>>
  PROVE  /\ Head(todo) \in Tasks /\ Head(todo) = todo[1] /\ Len(todo) \in Nat \ {0}
         /\ Head(todo).do \in {"clear", "wipe"} => Head(todo).slot \in Slots
         /\ Tail(todo) \in Seq(Tasks) /\ Len(Tail(todo)) = Len(todo) - 1
         /\ \A k \in 1 .. Len(todo) - 1 : Tail(todo)[k] = todo[k + 1]
<1>1. todo \in Seq(Tasks)
  BY DEF Inv, Shape, TasksOK
<1>2. /\ Head(todo) \in Tasks /\ Head(todo) = todo[1] /\ Len(todo) \in Nat \ {0}
      /\ Tail(todo) \in Seq(Tasks) /\ Len(Tail(todo)) = Len(todo) - 1
      /\ \A k \in 1 .. Len(Tail(todo)) : Tail(todo)[k] = todo[k + 1]
  BY <1>1, HeadTailProperties, EmptySeq
<1>3. Head(todo).do \in {"clear", "wipe"} => Head(todo).slot \in Slots
  BY <1>2 DEF Inv, Shape, TasksOK
<1> QED BY <1>2, <1>3

LEMMA DoneTasks ==
  ASSUME Inv, todo # <<>>, Done
  PROVE  TasksOK' /\ at' = "find" /\ WriteOK' /\ ~Adding'
<1>1. todo' = Tail(todo) /\ at' = "find"
  BY DEF Done
<1>2. TasksOK'
  <2>1. \A k \in 1 .. Len(todo') : todo'[k] = todo[k + 1] /\ k + 1 \in 1 .. Len(todo)
    BY <1>1, HeadTask
  <2>2. todo' \in Seq(Tasks)
    BY <1>1, HeadTask
  <2> QED BY <2>1, <2>2 DEF Inv, Shape, TasksOK
<1> QED BY <1>1, <1>2 DEF WriteOK, Adding

LEMMA TableFrame ==
  ASSUME Inv, todo # <<>>,
         UNCHANGED <<now, dispatchVars, flashVars, calls, restored>>,
         slots' \in [Slots -> Slot], armed' \in [Pins -> SUBSET {"rise", "fall"}],
         seen' \in [Pins -> SUBSET {"rise", "fall"}],
         since' \in [Slots -> 0 .. Debounce], cur' \in Slots,
         at' \in {"find", "pin", "edge", "last", "pending", "arm"}
  PROVE  TypeOK' /\ TakeOK' /\ FlashDistinct'
<1>1. TypeOK'
  BY DEF Inv, Shape, TypeOK, Slot, dispatchVars, flashVars
<1>2. TakeOK'
  BY DEF Inv, Shape, TakeOK, dispatchVars
<1>3. FlashDistinct'
  BY DEF Inv, FlashDistinct, flashVars, Distinct, Record!Idle
<1> QED BY <1>1, <1>2, <1>3

(* A call that finds nothing to do is over. *)
LEMMA DoneKeeps ==
  ASSUME Inv, todo # <<>>, at = "find", Done,
         UNCHANGED <<slots, cur, seen, armed, since>>,
         UNCHANGED <<now, dispatchVars, flashVars, calls, restored>>
  PROVE  Inv'
<1>1. TasksOK' /\ at' = "find" /\ WriteOK' /\ ~Adding'
  BY DoneTasks
<1>2. TypeOK' /\ TakeOK' /\ FlashDistinct'
  BY <1>1, Types, TableFrame DEF Inv, Shape
<1>3. Fixed' = Fixed
  BY <1>1 DEF Fixed
<1>4. OnePerPin' /\ FixedArmed'
  BY <1>1, <1>3 DEF Inv, Bound, OnePerPin, FixedArmed
<1>5. FixedSeen' /\ SinceIsClock'
  BY <1>1, <1>3 DEF Inv, Bound, FixedSeen, SeenIfPending, SinceIsClock
<1> QED BY <1>1, <1>2, <1>4, <1>5 DEF Inv, Shape, Bound

LEMMA AddFindsKeeps ==
  ASSUME Inv, todo # <<>>, AddFinds,
         UNCHANGED <<now, dispatchVars, flashVars, calls, restored>>
  PROVE  Inv'
<1> DEFINE t == Head(todo)
           i == IF FindSlot(t.pin) # NoSlot THEN FindSlot(t.pin) ELSE FindFree
<1>1. t.do = "add" /\ at = "find" /\ UNCHANGED <<armed, since>>
  BY DEF AddFinds
<1>2. CASE i = NoSlot
  <2>1. Done /\ UNCHANGED <<slots, cur, seen>>
    BY <1>2 DEF AddFinds
  <2> QED BY <1>1, <2>1, DoneKeeps
<1>3. CASE i # NoSlot
  <2>1. /\ slots' = [slots EXCEPT ![i].used = TRUE]
        /\ cur' = i /\ at' = "pin" /\ UNCHANGED todo
        /\ seen' = [seen EXCEPT ![t.pin] = {}]
    BY <1>3 DEF AddFinds
  <2>2. /\ i \in Slots
        /\ \/ slots[i].used /\ slots[i].pin = t.pin
           \/ \A j \in Slots : slots[j].used => slots[j].pin # t.pin
    <3>1. CASE FindSlot(t.pin) = NoSlot
      <4>1. i = FindFree /\ FindFree # NoSlot
        BY <1>3, <3>1
      <4>2. \A j \in Slots : slots[j].used => slots[j].pin # t.pin
        BY <3>1, SlotsAreNat, FindSlotFinds
      <4> QED BY <4>1, <4>2, FindFreeFinds
    <3>2. CASE FindSlot(t.pin) # NoSlot
      BY <3>2, FindSlotFinds
    <3> QED BY <3>1, <3>2
  <2> HIDE DEF i
  <2>3. /\ slots \in [Slots -> Slot] /\ seen \in [Pins -> SUBSET {"rise", "fall"}]
        /\ t \in Tasks
    BY HeadTask, Types DEF Inv, Shape
  <2>4. /\ slots' \in [Slots -> Slot]
        /\ \A j \in Slots \ {i} : slots'[j] = slots[j]
        /\ slots'[i] = [slots[i] EXCEPT !.used = TRUE]
    BY <2>1, <2>2, <2>3 DEF Slot
  <2>5. seen' \in [Pins -> SUBSET {"rise", "fall"}]
    BY <2>1, <2>3
  <2>6. TypeOK' /\ TakeOK' /\ FlashDistinct'
    BY <1>1, <2>1, <2>2, <2>4, <2>5, Types, TableFrame DEF Inv, Shape
  <2>7. TasksOK'
    BY <2>1 DEF Inv, Shape, TasksOK
  <2>8. WriteOK'
    BY <1>1, <2>1, <2>2, <2>3, <2>4 DEF WriteOK, Slot
  <2>9. Fixed' \subseteq Fixed /\ i \notin Fixed'
    BY <1>1, <2>1, <2>4 DEF Fixed
  <2>10. \A j \in Fixed' : slots[j].pin # t.pin /\ slots'[j] = slots[j] /\ j \in Slots
    BY <1>1, <2>2, <2>4, <2>9 DEF Inv, Bound, OnePerPin, Fixed
  <2>11. OnePerPin'
    BY <2>1, <2>9, <2>10 DEF Inv, Bound, OnePerPin, Adding
  <2>12. FixedArmed'
    BY <1>1, <2>9, <2>10 DEF Inv, Bound, FixedArmed
  <2>13. FixedSeen'
    <3>1. \A j \in Fixed' : SeenIfPending(j)'
      <4> TAKE j \in Fixed'
      <4>1. slots[j].pin \in Pins /\ seen'[slots[j].pin] = seen[slots[j].pin]
        BY <2>1, <2>3, <2>10 DEF Slot
      <4> QED BY <2>9, <2>10, <4>1 DEF Inv, Bound, FixedSeen, SeenIfPending
    <3> QED BY <2>1, <3>1 DEF FixedSeen, Adding
  <2>14. SinceIsClock'
    <3>1. \A j \in Slots : slots'[j].last = slots[j].last
      BY <2>2, <2>3, <2>4 DEF Slot
    <3> QED BY <1>1, <3>1 DEF Inv, SinceIsClock
  <2> QED BY <2>6, <2>7, <2>8, <2>11, <2>12, <2>13, <2>14 DEF Inv, Shape, Bound
<1> QED BY <1>2, <1>3

(* One field of the slot that is being filled in *)
LEMMA WriteEffect ==
  ASSUME Inv, todo # <<>>, AddWrites
  PROVE  /\ at \in {"pin", "edge", "last", "pending"} /\ Head(todo).do = "add"
         /\ at' \in {"edge", "last", "pending", "arm"}
         /\ at # "pin" => at' # "edge"
         /\ (at' \in {"last", "pending", "arm"}) => at # "pin"
         /\ UNCHANGED <<todo, cur, armed, seen>>
         /\ at # "last" => UNCHANGED since
         /\ at = "last" => since' = [since EXCEPT ![cur] = Debounce]
         /\ at # "pending" => at' # "arm"
         /\ slots' \in [Slots -> Slot] /\ \A j \in Slots \ {cur} : slots'[j] = slots[j]
         /\ slots'[cur].used = slots[cur].used
         /\ slots'[cur].pin = IF at = "pin" THEN Head(todo).pin ELSE slots[cur].pin
         /\ slots'[cur].edge = IF at = "edge" THEN Head(todo).edge ELSE slots[cur].edge
         /\ at \in {"pin", "edge"} => slots'[cur].last = slots[cur].last
         /\ at = "pending" => ~slots'[cur].pending /\ slots'[cur].last = slots[cur].last
<1> DEFINE t == Head(todo)
<1>1. /\ slots \in [Slots -> Slot] /\ cur \in Slots /\ t \in Tasks /\ t.do = "add"
      /\ since \in [Slots -> 0 .. Debounce] /\ Debounce \in Nat \ {0}
      /\ TimeMod \in Nat \ {0}
  BY HeadTask, Types, BindingsAssumption DEF Inv, Shape, AddWrites
<1>2. /\ at \in {"pin", "edge", "last", "pending"}
      /\ at' \in {"edge", "last", "pending", "arm"}
      /\ at # "pin" => at' # "edge"
      /\ (at' \in {"last", "pending", "arm"}) => at # "pin"
      /\ UNCHANGED <<todo, cur, armed, seen>>
  BY DEF AddWrites, Write
<1>3. /\ \/ at = "pin" /\ slots' = [slots EXCEPT ![cur] = [slots[cur] EXCEPT !.pin = t.pin]]
         \/ at = "edge" /\ slots' = [slots EXCEPT ![cur] = [slots[cur] EXCEPT !.edge = t.edge]]
         \/ at = "last" /\ slots' = [slots EXCEPT ![cur] = [slots[cur] EXCEPT !.last = 0]]
         \/ /\ at = "pending"
            /\ slots' = [slots EXCEPT ![cur] = [slots[cur] EXCEPT !.pending = FALSE]]
      /\ at # "last" => UNCHANGED since
      /\ at = "last" => since' = [since EXCEPT ![cur] = Debounce]
      /\ at # "pending" => at' # "arm"
  BY <1>1 DEF AddWrites, Write, Slot
<1>4. slots[cur] \in Slot /\ t.pin \in Pins /\ t.edge \in Edges
  BY <1>1 DEF Tasks
<1>5. /\ slots'[cur] \in Slot /\ slots'[cur].used = slots[cur].used
      /\ slots'[cur].pin = IF at = "pin" THEN t.pin ELSE slots[cur].pin
      /\ slots'[cur].edge = IF at = "edge" THEN t.edge ELSE slots[cur].edge
      /\ at \in {"pin", "edge"} => slots'[cur].last = slots[cur].last
      /\ at = "pending" => ~slots'[cur].pending /\ slots'[cur].last = slots[cur].last
  <2>1. CASE at = "pin"
    <3>1. slots'[cur] = [slots[cur] EXCEPT !.pin = t.pin]
      BY <1>1, <1>3, <2>1
    <3> QED BY <1>4, <2>1, <3>1 DEF Slot
  <2>2. CASE at = "edge"
    <3>1. slots'[cur] = [slots[cur] EXCEPT !.edge = t.edge]
      BY <1>1, <1>3, <2>2
    <3> QED BY <1>4, <2>2, <3>1 DEF Slot
  <2>3. CASE at = "last"
    <3>1. slots'[cur] = [slots[cur] EXCEPT !.last = 0] /\ 0 \in 0 .. TimeMod - 1
      BY <1>1, <1>3, <2>3
    <3> QED BY <1>4, <2>3, <3>1 DEF Slot
  <2>4. CASE at = "pending"
    <3>1. slots'[cur] = [slots[cur] EXCEPT !.pending = FALSE]
      BY <1>1, <1>3, <2>4
    <3> QED BY <1>4, <2>4, <3>1 DEF Slot
  <2> QED BY <1>2, <2>1, <2>2, <2>3, <2>4
<1>6. slots' \in [Slots -> Slot] /\ \A j \in Slots \ {cur} : slots'[j] = slots[j]
  BY <1>1, <1>3, <1>5
<1> QED BY <1>1, <1>2, <1>3, <1>5, <1>6

LEMMA AddWritesKeeps ==
  ASSUME Inv, todo # <<>>, AddWrites,
         UNCHANGED <<now, dispatchVars, flashVars, calls, restored>>
  PROVE  Inv'
<1> DEFINE t == Head(todo)
<1>1. /\ slots \in [Slots -> Slot] /\ cur \in Slots /\ t.do = "add"
      /\ since \in [Slots -> 0 .. Debounce] /\ Debounce \in Nat \ {0}
  BY Types, WriteEffect, BindingsAssumption DEF Inv, Shape
<1>2. /\ at \in {"pin", "edge", "last", "pending"}
      /\ at' \in {"edge", "last", "pending", "arm"}
      /\ at # "pin" => at' # "edge"
      /\ UNCHANGED <<todo, cur, armed, seen>>
  BY WriteEffect
<1>3. /\ at # "last" => UNCHANGED since
      /\ at = "last" => since' = [since EXCEPT ![cur] = Debounce]
      /\ at # "pending" => at' # "arm"
  BY WriteEffect
<1>5. /\ slots'[cur].used = slots[cur].used
      /\ slots'[cur].pin = IF at = "pin" THEN t.pin ELSE slots[cur].pin
      /\ at \in {"pin", "edge"} => slots'[cur].last = slots[cur].last
      /\ at = "pending" => ~slots'[cur].pending /\ slots'[cur].last = slots[cur].last
  BY WriteEffect
<1>6. slots' \in [Slots -> Slot] /\ \A j \in Slots \ {cur} : slots'[j] = slots[j]
  BY WriteEffect
<1>7. since' \in [Slots -> 0 .. Debounce]
      /\ \A j \in Slots : since'[j] = since[j] \/ (j = cur /\ since'[j] = Debounce)
  BY <1>1, <1>3
<1>8. TypeOK' /\ TakeOK' /\ FlashDistinct'
  BY <1>2, <1>6, <1>7, Types, TableFrame DEF Inv, Shape
<1>9. TasksOK'
  BY <1>2 DEF Inv, Shape, TasksOK
<1>10. slots[cur].used /\ (at # "pin" => slots[cur].pin = t.pin) /\ Adding
  BY <1>1, <1>2 DEF Inv, Shape, WriteOK, Adding
<1>11. WriteOK'
  BY <1>1, <1>2, <1>5, <1>10 DEF WriteOK
<1>12. Fixed' = Fixed /\ \A j \in Fixed : slots'[j] = slots[j]
  BY <1>2, <1>6 DEF Fixed
<1>13. OnePerPin' /\ FixedArmed'
  BY <1>2, <1>10, <1>12 DEF Inv, Bound, OnePerPin, FixedArmed, Adding
<1>14. FixedSeen'
  <2>1. at' = "arm" => ~slots'[cur].pending
    BY <1>2, <1>3, <1>5
  <2> QED BY <1>2, <1>12, <2>1 DEF Inv, Bound, FixedSeen, SeenIfPending
<1>15. SinceIsClock'
  <2> SUFFICES ASSUME NEW j \in Slots, since'[j] < Debounce
               PROVE  slots'[j].last = slots[j].last /\ since'[j] = since[j]
    BY DEF Inv, SinceIsClock
  <2>1. CASE j # cur
    BY <1>1, <1>6, <1>7, <2>1
  <2>2. CASE j = cur /\ at # "last"
    BY <1>2, <1>3, <1>5, <2>2
  <2>3. CASE j = cur /\ at = "last"
    BY <1>1, <1>3, <2>3
  <2> QED BY <2>1, <2>2, <2>3
<1> QED BY <1>8, <1>9, <1>11, <1>13, <1>14, <1>15 DEF Inv, Shape, Bound

(* A slot is given up. *)
LEMMA UnusedKeeps ==
  ASSUME Inv, todo # <<>>, at = "find", NEW i \in Slots,
         slots' = [slots EXCEPT ![i].used = FALSE],
         UNCHANGED <<armed, since, seen>>, cur' \in Slots,
         TasksOK', WriteOK', ~Adding', at' \in {"find", "arm"},
         UNCHANGED <<now, dispatchVars, flashVars, calls, restored>>
  PROVE  Inv'
<1>1. /\ slots' \in [Slots -> Slot] /\ ~slots'[i].used
      /\ \A j \in Slots : slots'[j].last = slots[j].last
      /\ \A j \in Slots \ {i} : slots'[j] = slots[j]
  BY Types DEF Slot, Inv, Shape
<1>2. TypeOK' /\ TakeOK' /\ FlashDistinct'
  BY <1>1, Types, TableFrame DEF Inv, Shape
<1>3. Fixed' \subseteq Fixed /\ \A j \in Fixed' : slots'[j] = slots[j]
  BY <1>1 DEF Fixed
<1>4. OnePerPin' /\ FixedArmed'
  BY <1>3 DEF Inv, Bound, OnePerPin, FixedArmed
<1>5. FixedSeen' /\ SinceIsClock'
  BY <1>1, <1>3 DEF Inv, Bound, FixedSeen, SeenIfPending, SinceIsClock
<1> QED BY <1>2, <1>4, <1>5 DEF Inv, Shape, Bound

LEMMA RemovesKeeps ==
  ASSUME Inv, todo # <<>>, Removes,
         UNCHANGED <<now, dispatchVars, flashVars, calls, restored>>
  PROVE  Inv'
<1> DEFINE t == Head(todo)
           i == IF t.do = "remove" THEN FindSlot(t.pin)
                ELSE IF slots[t.slot].used THEN t.slot ELSE NoSlot
<1>1. t.do \in {"remove", "clear"} /\ at = "find" /\ UNCHANGED <<armed, since, seen>>
  BY DEF Removes
<1>2. CASE i = NoSlot
  <2>1. Done /\ UNCHANGED <<slots, cur>>
    BY <1>2 DEF Removes
  <2> QED BY <1>1, <2>1, DoneKeeps
<1>3. CASE i # NoSlot
  <2>1. /\ slots' = [slots EXCEPT ![i].used = FALSE]
        /\ cur' = i /\ at' = "arm" /\ UNCHANGED todo
    BY <1>3 DEF Removes
  <2>2. i \in Slots
    BY <1>1, <1>3, HeadTask, FindSlotFinds
  <2> HIDE DEF i
  <2>4. TasksOK'
    BY <2>1 DEF Inv, Shape, TasksOK
  <2>5. WriteOK' /\ ~Adding'
    <3>1. /\ at' = "arm" /\ todo' # <<>> /\ Head(todo').do \in {"remove", "clear"}
          /\ slots'[cur'].used = FALSE
      <4>1. slots'[i].used = FALSE
        BY <2>1, <2>2, Types DEF Inv, Shape, Slot
      <4> QED BY <1>1, <2>1, <4>1
    <3> QED BY <3>1 DEF WriteOK, Adding
  <2> QED BY <1>1, <2>1, <2>2, <2>4, <2>5, UnusedKeeps
<1> QED BY <1>2, <1>3

LEMMA WipesKeeps ==
  ASSUME Inv, todo # <<>>, Wipes,
         UNCHANGED <<now, dispatchVars, flashVars, calls, restored>>
  PROVE  Inv'
<1>1. /\ Head(todo).do = "wipe" /\ Done
      /\ slots' = [slots EXCEPT ![Head(todo).slot].used = FALSE]
      /\ UNCHANGED <<cur, armed, since, seen>>
  BY DEF Wipes
<1>2. at = "find" /\ cur \in Slots /\ Head(todo).slot \in Slots
  BY <1>1, HeadTask, Types DEF Inv, Shape, WriteOK
<1>3. TasksOK' /\ at' = "find" /\ WriteOK' /\ ~Adding'
  BY <1>1, DoneTasks
<1> QED BY <1>1, <1>2, <1>3, UnusedKeeps

(* refresh_pin_irq covers every binding of its pin, and disables none. *)
LEMMA RefreshedCovers ==
  ASSUME Inv, NEW j \in Slots, slots[j].used
  PROVE  /\ Events(slots[j].edge) \subseteq Refreshed(slots[j].pin)
         /\ armed[slots[j].pin] \subseteq Refreshed(slots[j].pin)
<1> DEFINE pin == slots[j].pin
           mask == UNION {Events(slots[i].edge) :
                            i \in {k \in Slots : slots[k].used /\ slots[k].pin = pin}}
<1>1. Events(slots[j].edge) \subseteq mask
  OBVIOUS
<1>2. Events(slots[j].edge) # {}
  BY EventsOf, Types DEF Inv, Shape, Slot
<1>3. Refreshed(pin) = IF mask = {} THEN {} ELSE armed[pin] \cup mask
  BY DEF Refreshed
<1> HIDE DEF mask
<1> QED BY <1>1, <1>2, <1>3

LEMMA RefreshedType ==
  ASSUME Inv, NEW pin \in Pins
  PROVE  Refreshed(pin) \in SUBSET {"rise", "fall"}
<1> DEFINE mask == UNION {Events(slots[i].edge) :
                            i \in {k \in Slots : slots[k].used /\ slots[k].pin = pin}}
<1>1. \A i \in Slots : Events(slots[i].edge) \in SUBSET {"rise", "fall"}
  BY EventsOf, Types DEF Inv, Shape, Slot
<1>2. mask \in SUBSET {"rise", "fall"}
  BY <1>1
<1>3. Refreshed(pin) = IF mask = {} THEN {} ELSE armed[pin] \cup mask
  BY DEF Refreshed
<1> HIDE DEF mask
<1> QED BY <1>2, <1>3, Types DEF Inv, Shape

LEMMA ArmsKeeps ==
  ASSUME Inv, todo # <<>>, Arms,
         UNCHANGED <<now, dispatchVars, flashVars, calls, restored>>
  PROVE  Inv'
<1> DEFINE pin == slots[cur].pin
<1>1. /\ at = "arm" /\ Done /\ armed' = [armed EXCEPT ![pin] = Refreshed(pin)]
      /\ UNCHANGED <<slots, cur, since, seen>>
  BY DEF Arms
<1>2. /\ slots \in [Slots -> Slot] /\ cur \in Slots /\ pin \in Pins
      /\ armed \in [Pins -> SUBSET {"rise", "fall"}]
  BY Types DEF Inv, Shape, Slot
<1>3. armed' \in [Pins -> SUBSET {"rise", "fall"}]
  BY <1>1, <1>2, RefreshedType
<1>4. TasksOK' /\ at' = "find" /\ WriteOK' /\ ~Adding'
  BY <1>1, DoneTasks
<1>5. TypeOK' /\ TakeOK' /\ FlashDistinct'
  BY <1>1, <1>3, <1>4, Types, TableFrame DEF Inv, Shape
<1>6. /\ slots[cur].used => Adding /\ pin = Head(todo).pin
      /\ Fixed' = IF slots[cur].used THEN Fixed \cup {cur} ELSE Fixed
  <2>1. slots[cur].used => Adding /\ pin = Head(todo).pin
    BY <1>1 DEF Inv, Shape, WriteOK, Adding
  <2> QED BY <1>1, <1>2, <1>4, <2>1 DEF Fixed
<1>7. OnePerPin'
  BY <1>1, <1>4, <1>6 DEF Inv, Bound, OnePerPin, Adding
<1>8. FixedArmed'
  <2> SUFFICES ASSUME NEW i \in Fixed'
               PROVE  Events(slots[i].edge) \subseteq armed'[slots[i].pin]
    BY <1>1 DEF FixedArmed
  <2>1. i \in Slots /\ slots[i].used /\ slots[i].pin \in Pins
    BY <1>1, <1>2 DEF Fixed, Slot
  <2>2. CASE slots[i].pin = pin
    BY <1>1, <1>2, <2>1, <2>2, RefreshedCovers
  <2>3. CASE slots[i].pin # pin
    <3>1. i \in Fixed
      BY <1>6, <2>3
    <3> QED BY <1>1, <1>2, <2>1, <2>3, <3>1 DEF Inv, Bound, FixedArmed
  <2> QED BY <2>2, <2>3
<1>9. FixedSeen'
  BY <1>1, <1>4, <1>6 DEF Inv, Bound, FixedSeen, SeenIfPending
<1>10. SinceIsClock'
  BY <1>1 DEF Inv, SinceIsClock
<1> QED BY <1>4, <1>5, <1>7, <1>8, <1>9, <1>10 DEF Inv, Shape, Bound

LEMMA TableStepKeeps ==
  ASSUME Inv, TableStep
  PROVE  Inv'
BY AddFindsKeeps, AddWritesKeeps, RemovesKeeps, WipesKeeps, ArmsKeeps DEF TableStep
-----------------------------------------------------------------------------
(* Calls, the flash, and power *)

Full(t) == PerSlot("wipe") \o AddAll(t)

LEMMA FullIs ==
  ASSUME NEW t \in Tables
  PROVE  /\ Full(t) \in Seq(Tasks) /\ Len(Full(t)) = SlotCount + Len(t)
         /\ Len(t) \in Nat
         /\ \A k \in 1 .. SlotCount : Full(t)[k] = Task("wipe", SomePin, SomeEdge, k)
         /\ \A k \in 1 .. Len(t) :
              Full(t)[SlotCount + k] = Task("add", t[k].pin, t[k].edge, NoSlot)
<1>1. t \in Seq(Entry) /\ Len(t) \in Nat /\ SlotCount \in Nat
  BY TableLength, SlotsAreNat
<1>2. SomePin \in Pins /\ SomeEdge \in Edges
  BY BindingsAssumption DEF SomePin, SomeEdge
<1>3. PerSlot("wipe") \in Seq(Tasks) /\ Len(PerSlot("wipe")) = SlotCount
      /\ \A k \in 1 .. SlotCount : PerSlot("wipe")[k] = Task("wipe", SomePin, SomeEdge, k)
  <2>1. \A i \in 1 .. SlotCount : Task("wipe", SomePin, SomeEdge, i) \in Tasks
    BY <1>2 DEF Task, Tasks, Slots
  <2>2. PerSlot("wipe") = [i \in 1 .. SlotCount |-> Task("wipe", SomePin, SomeEdge, i)]
    BY DEF PerSlot, Slots
  <2>3. PerSlot("wipe") \in [1 .. SlotCount -> Tasks]
    BY <2>1, <2>2
  <2> QED BY <1>1, <2>2, <2>3
<1>4. AddAll(t) \in Seq(Tasks) /\ Len(AddAll(t)) = Len(t)
      /\ \A k \in 1 .. Len(t) : AddAll(t)[k] = Task("add", t[k].pin, t[k].edge, NoSlot)
  <2>1. \A k \in 1 .. Len(t) : Task("add", t[k].pin, t[k].edge, NoSlot) \in Tasks
    <3> TAKE k \in 1 .. Len(t)
    <3>1. t[k] \in Entry
      BY <1>1, ElementOfSeq
    <3> QED BY <3>1 DEF Entry, Task, Tasks
  <2>2. AddAll(t) = [k \in 1 .. Len(t) |-> Task("add", t[k].pin, t[k].edge, NoSlot)]
    BY DEF AddAll
  <2>3. AddAll(t) \in [1 .. Len(t) -> Tasks]
    BY <2>1, <2>2
  <2> QED BY <1>1, <2>2, <2>3
<1>5. /\ Full(t) \in Seq(Tasks) /\ Len(Full(t)) = SlotCount + Len(t)
      /\ \A k \in 1 .. Len(Full(t)) :
           Full(t)[k] = IF k <= SlotCount THEN PerSlot("wipe")[k] ELSE AddAll(t)[k - SlotCount]
  <2> DEFINE wipes == PerSlot("wipe")
             adds == AddAll(t)
  <2>1. wipes \in Seq(Tasks) /\ adds \in Seq(Tasks)
        /\ Len(wipes) = SlotCount /\ Len(adds) = Len(t)
    BY <1>3, <1>4
  <2>2. Full(t) = wipes \o adds
    BY DEF Full
  <2> HIDE DEF wipes, adds
  <2>3. /\ wipes \o adds \in Seq(Tasks) /\ Len(wipes \o adds) = Len(wipes) + Len(adds)
        /\ \A k \in 1 .. Len(wipes) + Len(adds) :
             (wipes \o adds)[k] = IF k <= Len(wipes) THEN wipes[k] ELSE adds[k - Len(wipes)]
    BY <2>1, ConcatProperties
  <2>4. Full(t) \in Seq(Tasks) /\ Len(Full(t)) = SlotCount + Len(t)
    BY <2>1, <2>2, <2>3
  <2>5. \A k \in 1 .. Len(Full(t)) :
          Full(t)[k] = IF k <= SlotCount THEN wipes[k] ELSE adds[k - SlotCount]
    BY <2>1, <2>2, <2>3, <2>4
  <2> QED BY <2>4, <2>5 DEF wipes, adds
<1>6. ASSUME NEW k \in 1 .. SlotCount
      PROVE  Full(t)[k] = Task("wipe", SomePin, SomeEdge, k)
  <2>1. k \in 1 .. Len(Full(t)) /\ k <= SlotCount
    BY <1>1, <1>5
  <2> QED BY <1>3, <1>5, <2>1
<1>7. ASSUME NEW k \in 1 .. Len(t)
      PROVE  Full(t)[SlotCount + k] = Task("add", t[k].pin, t[k].edge, NoSlot)
  <2>1. /\ SlotCount + k \in 1 .. Len(Full(t)) /\ ~(SlotCount + k <= SlotCount)
        /\ (SlotCount + k) - SlotCount = k
    BY <1>1, <1>5
  <2>2. Full(t)[SlotCount + k] = AddAll(t)[k]
    BY <1>5, <2>1
  <2> QED BY <1>4, <2>2
<1> QED BY <1>5, <1>6, <1>7

LEMMA FullTasks ==
  ASSUME NEW t \in Tables, NEW k \in 1 .. Len(Full(t)), Full(t)[k].do \in {"clear", "wipe"}
  PROVE  Full(t)[k].slot \in Slots
<1>1. SlotCount \in Nat
  BY SlotsAreNat
<1>2. CASE k \in 1 .. SlotCount
  <2>1. Full(t)[k] = Task("wipe", SomePin, SomeEdge, k)
    BY <1>2, FullIs
  <2> QED BY <1>2, <2>1 DEF Task, Slots
<1>3. CASE k \notin 1 .. SlotCount
  <2>1. k - SlotCount \in 1 .. Len(t) /\ k = SlotCount + (k - SlotCount)
    BY <1>1, <1>3, FullIs
  <2>2. Full(t)[k] = Task("add", t[k - SlotCount].pin, t[k - SlotCount].edge, NoSlot)
    BY <2>1, FullIs
  <2>3. Full(t)[k].do = "add"
    BY <2>2 DEF Task
  <2> QED BY <2>3
<1> QED BY <1>2, <1>3

(* What a load does, by what the sector holds *)
LEMMA LoadIs ==
  /\ sector \in Tables => /\ Record!Load = sector /\ Record!Load # Nothing
                          /\ LoadTasks = Full(sector)
  /\ sector \notin Tables => Record!Load = Nothing /\ LoadTasks = <<>>
BY BindingsAssumption DEF Record!Load, LoadTasks, Full

LEMMA LoadTasksOK ==
  /\ LoadTasks \in Seq(Tasks)
  /\ \A k \in 1 .. Len(LoadTasks) :
       LoadTasks[k].do \in {"clear", "wipe"} => LoadTasks[k].slot \in Slots
<1>1. CASE sector \in Tables
  BY <1>1, LoadIs, FullIs, FullTasks
<1>2. CASE sector \notin Tables
  BY <1>2, LoadIs
<1> QED BY <1>1, <1>2

(* The table, the clock and the interrupts stay as they are. *)
LEMMA TableKept ==
  ASSUME Inv, UNCHANGED <<slots, armed, now, at, cur, seen, since>>,
         at = "find" \/ UNCHANGED todo
  PROVE  WriteOK' /\ Bound' /\ SinceIsClock'
<1>1. WriteOK'
  BY DEF Inv, Shape, WriteOK
<1>2. Fixed' = Fixed
  BY DEF Fixed
<1>3. OnePerPin' /\ FixedArmed' /\ FixedSeen'
  BY <1>2 DEF Inv, Bound, OnePerPin, FixedArmed, FixedSeen, SeenIfPending, Adding
<1> QED BY <1>1, <1>3 DEF Inv, Bound, SinceIsClock

LEMMA CallKeeps ==
  ASSUME Inv, todo = <<>>, phase # "take", NEW tasks, NEW loaded,
         Calls(tasks, loaded), tasks \in Seq(Tasks), loaded \in Tables \cup {Nothing},
         \A k \in 1 .. Len(tasks) : tasks[k].do \in {"clear", "wipe"} => tasks[k].slot \in Slots,
         calls' \in 0 .. MaxCalls,
         UNCHANGED <<now, dispatchVars, seen, since>>
  PROVE  Inv'
<1>1. /\ todo' = tasks /\ restored' = loaded
      /\ UNCHANGED <<slots, armed, sector, op, at, cur>>
  BY DEF Calls, flashVars
<1>2. at = "find"
  BY DEF Inv, Shape, WriteOK
<1>3. TypeOK'
  BY <1>1 DEF Inv, Shape, TypeOK, dispatchVars
<1>4. TasksOK'
  BY <1>1 DEF TasksOK
<1>5. TakeOK'
  BY DEF TakeOK, dispatchVars
<1>6. WriteOK' /\ Bound' /\ SinceIsClock'
  BY <1>1, <1>2, TableKept
<1>7. FlashDistinct'
  BY <1>1 DEF Inv, FlashDistinct, Distinct, Record!Idle
<1> QED BY <1>3, <1>4, <1>5, <1>6, <1>7 DEF Inv, Shape

LEMMA OneTask ==
  ASSUME NEW do \in {"add", "remove"}, NEW p \in Pins, NEW e \in Edges
  PROVE  /\ <<Task(do, p, e, NoSlot)>> \in Seq(Tasks)
         /\ \A k \in 1 .. Len(<<Task(do, p, e, NoSlot)>>) :
              <<Task(do, p, e, NoSlot)>>[k].do \notin {"clear", "wipe"}
<1>1. Task(do, p, e, NoSlot) \in Tasks /\ Task(do, p, e, NoSlot).do = do
  BY DEF Task, Tasks
<1> QED BY <1>1

LEMMA ClearTasks ==
  /\ PerSlot("clear") \in Seq(Tasks)
  /\ \A k \in 1 .. Len(PerSlot("clear")) : PerSlot("clear")[k].slot \in Slots
<1>1. SomePin \in Pins /\ SomeEdge \in Edges /\ SlotCount \in Nat
  BY BindingsAssumption DEF SomePin, SomeEdge
<1>2. \A i \in 1 .. SlotCount : Task("clear", SomePin, SomeEdge, i) \in Tasks
  BY <1>1 DEF Task, Tasks, Slots
<1>3. PerSlot("clear") = [i \in 1 .. SlotCount |-> Task("clear", SomePin, SomeEdge, i)]
  BY DEF PerSlot, Slots
<1>4. PerSlot("clear") \in [1 .. SlotCount -> Tasks]
  BY <1>2, <1>3
<1>5. PerSlot("clear") \in Seq(Tasks) /\ Len(PerSlot("clear")) = SlotCount
  BY <1>1, <1>4
<1> QED BY <1>3, <1>5 DEF Task, Slots

(* Between two calls the table has one binding for a pin. *)
LEMMA QuietDistinct ==
  ASSUME Inv, todo = <<>>
  PROVE  /\ at = "find" /\ Fixed = {i \in Slots : slots[i].used}
         /\ Table \in Tables /\ Distinct(Table)
<1>1. at = "find"
  BY DEF Inv, Shape, WriteOK
<1>2. Fixed = {i \in Slots : slots[i].used}
  BY <1>1 DEF Fixed
<1>3. \A i, j \in Slots :
        slots[i].used /\ slots[j].used /\ slots[i].pin = slots[j].pin => i = j
  BY <1>2 DEF Inv, Bound, OnePerPin
<1> QED BY <1>1, <1>2, <1>3, TableDistinct, TableType, Types DEF Inv, Shape

LEMMA CommandKeeps ==
  ASSUME Inv, Command
  PROVE  Inv'
<1>1. /\ todo = <<>> /\ op = Record!Idle /\ phase # "take"
      /\ calls' \in 0 .. MaxCalls
      /\ UNCHANGED <<now, dispatchVars, seen, since>>
  <2>1. todo = <<>> /\ op = Record!Idle /\ (scan = 0 \/ phase = "run")
    BY DEF Command, Quiet
  <2>2. phase # "take"
    BY <2>1 DEF Inv, Shape, TakeOK
  <2>3. calls \in 0 .. MaxCalls /\ MaxCalls \in Nat /\ calls < MaxCalls /\ calls' = calls + 1
    BY BindingsAssumption DEF Inv, Shape, TypeOK, Command
  <2> QED BY <2>1, <2>2, <2>3 DEF Command
<1>2. Nothing \in Tables \cup {Nothing} /\ restored \in Tables \cup {Nothing}
      /\ sector \in Tables \cup {Blank, Torn}
  BY DEF Inv, Shape, TypeOK
<1>3. ASSUME NEW p \in Pins, NEW e \in Edges, Calls(<<Task("add", p, e, NoSlot)>>, Nothing)
      PROVE  Inv'
  BY <1>1, <1>2, <1>3, OneTask, CallKeeps
<1>4. ASSUME NEW p \in Pins, Calls(<<Task("remove", p, SomeEdge, NoSlot)>>, Nothing)
      PROVE  Inv'
  <2>1. SomeEdge \in Edges
    BY BindingsAssumption DEF SomeEdge
  <2> QED BY <1>1, <1>2, <1>4, <2>1, OneTask, CallKeeps
<1>5. ASSUME Calls(PerSlot("clear"), Nothing) PROVE Inv'
  BY <1>1, <1>2, <1>5, ClearTasks, CallKeeps
<1>6. ASSUME Calls(LoadTasks, IF Record!Load = Nothing THEN restored ELSE Record!Load)
      PROVE  Inv'
  <2>1. (IF Record!Load = Nothing THEN restored ELSE Record!Load) \in Tables \cup {Nothing}
    BY <1>2, LoadIs
  <2> QED BY <1>1, <1>6, <2>1, LoadTasksOK, CallKeeps
<1>7. ASSUME Record!Save(Table), UNCHANGED <<slots, armed, threadVars, restored>> PROVE Inv'
  <2>1. op' = Record!Saving(Table, "erase") /\ UNCHANGED sector
    BY <1>7 DEF Record!Save
  <2>2. Table \in Tables /\ Distinct(Table)
    BY <1>1, QuietDistinct
  <2>3. op' \in Record!Ops
    BY <2>1, <2>2 DEF Record!Ops
  <2>4. op'.value = Table
    BY <2>1 DEF Record!Saving
  <2> HIDE DEF Table
  <2>5. FlashDistinct'
    BY <2>1, <2>2, <2>4 DEF Inv, FlashDistinct, Distinct
  <2>6. TypeOK'
    BY <1>1, <1>7, <2>1, <2>3 DEF Inv, Shape, TypeOK, threadVars, dispatchVars
  <2>7. TasksOK' /\ TakeOK'
    BY <1>1, <1>7 DEF Inv, Shape, TasksOK, TakeOK, threadVars, dispatchVars
  <2>8. WriteOK' /\ Bound' /\ SinceIsClock'
    BY <1>1, <1>7, TableKept DEF threadVars
  <2> QED BY <2>5, <2>6, <2>7, <2>8 DEF Inv, Shape
<1> QED BY <1>3, <1>4, <1>5, <1>6, <1>7 DEF Command, Bind, Unbind, LoadOrSave

(* Steps on the sector keep a good record in it distinct: it is what was there, *)
(* what is being saved, or none.                                                *)
LEMMA RecordKept ==
  ASSUME Inv, sector' \in {sector, Blank, Torn} \/ (op # Record!Idle /\ op.does = "save" /\ sector' = op.value),
         op' = Record!Idle \/ (op # Record!Idle /\ op.does = "save" /\ op' = Record!Saving(op.value, "program"))
  PROVE  /\ sector' \in Tables \cup {Blank, Torn} /\ op' \in Record!Ops
         /\ FlashDistinct'
<1>1. sector \in Tables \cup {Blank, Torn} /\ op \in Record!Ops
  BY DEF Inv, Shape, TypeOK
<1>2. ASSUME op # Record!Idle, op.does = "save" PROVE op.value \in Tables /\ Distinct(op.value)
  <2>1. op # Record!Clearing
    BY <1>2 DEF Record!Clearing
  <2>2. PICK v \in Tables, a \in {"erase", "program"} : op = Record!Saving(v, a)
    BY <1>1, <1>2, <2>1 DEF Record!Ops
  <2> QED BY <1>2, <2>2 DEF Record!Saving, Inv, FlashDistinct
<1>3. sector' \in Tables \cup {Blank, Torn} /\ (sector' \in Tables => Distinct(sector'))
  <2>1. CASE sector' \in {Blank, Torn}
    BY <2>1, BindingsAssumption
  <2>2. CASE sector' = sector
    BY <1>1, <2>2 DEF Inv, FlashDistinct
  <2>3. CASE op # Record!Idle /\ op.does = "save" /\ sector' = op.value
    BY <1>2, <2>3
  <2> QED BY <2>1, <2>2, <2>3
<1>4. op' \in Record!Ops /\ ((op' # Record!Idle /\ op'.does = "save") => Distinct(op'.value))
  <2>1. CASE op' = Record!Idle
    BY <2>1 DEF Record!Ops
  <2>2. CASE op # Record!Idle /\ op.does = "save" /\ op' = Record!Saving(op.value, "program")
    <3>1. op'.value = op.value
      BY <2>2 DEF Record!Saving
    <3>2. op' \in Record!Ops
      BY <1>2, <2>2 DEF Record!Ops
    <3> QED BY <1>2, <2>2, <3>1, <3>2
  <2> QED BY <2>1, <2>2
<1> QED BY <1>3, <1>4 DEF FlashDistinct, Distinct, Record!Idle

LEMMA FlashStepKeeps ==
  ASSUME Inv, FlashStep
  PROVE  Inv'
<1>1. UNCHANGED <<slots, armed, now, threadVars, dispatchVars, calls, seen, since, restored>>
  BY DEF FlashStep
<1>2. /\ sector' \in {sector, Blank, Torn} \/ (op # Record!Idle /\ op.does = "save" /\ sector' = op.value)
      /\ \/ op' = Record!Idle
         \/ op # Record!Idle /\ op.does = "save" /\ op' = Record!Saving(op.value, "program")
  BY DEF FlashStep, Record!RecordStep, Record!EraseSector, Record!ProgramRecord,
         Record!FlashRefuses, Record!Idle
<1>3. TypeOK' /\ FlashDistinct'
  BY <1>1, <1>2, RecordKept DEF Inv, Shape, TypeOK, threadVars, dispatchVars
<1>4. TasksOK' /\ TakeOK'
  BY <1>1 DEF Inv, Shape, TasksOK, TakeOK, threadVars, dispatchVars
<1>5. WriteOK' /\ Bound' /\ SinceIsClock'
  BY <1>1, TableKept DEF threadVars
<1> QED BY <1>3, <1>4, <1>5 DEF Inv, Shape

(* The state after a start: nothing is bound, the load is to come. *)
Start ==
  /\ slots = [i \in Slots |-> Unused] /\ armed = [p \in Pins |-> {}] /\ now = 0
  /\ todo = LoadTasks /\ at = "find" /\ cur = 1 /\ scan = 0 /\ phase = "test"
  /\ seen = [p \in Pins |-> {}] /\ since = [i \in Slots |-> Debounce]
  /\ restored = IF Record!Load = Nothing THEN <<>> ELSE Record!Load
  /\ sector \in Tables \cup {Blank, Torn} /\ op \in Record!Ops
  /\ calls \in 0 .. MaxCalls /\ FlashDistinct

LEMMA StartIs == Start => Inv
<1> SUFFICES ASSUME Start PROVE Inv
  OBVIOUS
<1> USE DEF Start
<1>1. Unused \in Slot /\ ~Unused.used
  BY BindingsAssumption DEF Unused, Slot, SomePin, SomeEdge
<1>2. \A i \in Slots : slots[i] = Unused
  OBVIOUS
<1>3. slots \in [Slots -> Slot]
  BY <1>1
<1>4. <<>> \in Tables
  <2>1. 0 \in 0 .. SlotCount /\ <<>> \in [1 .. 0 -> [pin : Pins, edge : Edges]]
    BY SlotsAreNat
  <2> QED BY <2>1 DEF Tables
<1>5. restored \in Tables
  BY <1>4, LoadIs
<1>6. TypeOK
  <2>1. now \in 0 .. TimeMod - 1 /\ since \in [Slots -> 0 .. Debounce] /\ cur \in Slots
        /\ scan \in 0 .. SlotCount
    BY BindingsAssumption DEF Slots
  <2> QED BY <1>3, <1>5, <2>1 DEF TypeOK, Slot
<1>7. TasksOK
  BY LoadTasksOK DEF TasksOK
<1>8. Fixed = {}
  BY <1>1, <1>2 DEF Fixed
<1>9. Bound
  BY <1>8 DEF Bound, OnePerPin, FixedArmed, FixedSeen, Adding
<1>10. SinceIsClock
  BY BindingsAssumption DEF SinceIsClock
<1> QED BY <1>6, <1>7, <1>9, <1>10 DEF Inv, Shape, WriteOK, TakeOK

LEMMA InitInv == Init => Inv
<1> SUFFICES ASSUME Init PROVE Inv
  OBVIOUS
<1>1. sector \in Tables \cup {Blank, Torn} /\ op = Record!Idle
  BY BindingsAssumption DEF Init
<1>2. FlashDistinct
  <2>1. ASSUME sector \in Tables PROVE Distinct(sector)
    <3>1. sector \in Stored \cap Tables
      BY <2>1 DEF Init
    <3> QED BY <3>1, TableLength, BindingsAssumption DEF Distinct
  <2> QED BY <1>1, <2>1 DEF FlashDistinct
<1>3. op \in Record!Ops /\ calls \in 0 .. MaxCalls
  BY <1>1, BindingsAssumption DEF Record!Ops, Init
<1>4. Start
  BY <1>1, <1>2, <1>3 DEF Init, Start
<1> QED BY <1>4, StartIs

LEMMA PowerCutKeeps ==
  ASSUME Inv, PowerCut
  PROVE  Inv'
<1>1. /\ sector' \in {sector, Blank, Torn} \/ (op # Record!Idle /\ op.does = "save" /\ sector' = op.value)
      /\ op' = Record!Idle
  <2>1. op' = Record!Idle
    BY DEF PowerCut, Record!RecordCut
  <2>2. CASE op = Record!Idle
    BY <2>2 DEF PowerCut, Record!RecordCut
  <2>3. CASE op # Record!Idle /\ op.at = "erase"
    BY <2>3 DEF PowerCut, Record!RecordCut
  <2>4. CASE op # Record!Idle /\ op.at # "erase"
    <3>1. sector' \in {Blank, Torn, op.value}
      BY <2>4 DEF PowerCut, Record!RecordCut
    <3>2. op # Record!Clearing /\ op \in Record!Ops
      BY <2>4 DEF Record!Clearing, Inv, Shape, TypeOK
    <3>3. op.does = "save"
      BY <2>4, <3>2 DEF Record!Ops, Record!Saving
    <3> QED BY <2>1, <2>4, <3>1, <3>3
  <2> QED BY <2>1, <2>2, <2>3, <2>4
<1>2. sector' \in Tables \cup {Blank, Torn} /\ op' \in Record!Ops /\ FlashDistinct'
  BY <1>1, RecordKept
<1>3. calls' \in 0 .. MaxCalls
  BY BindingsAssumption DEF Inv, Shape, TypeOK, PowerCut
<1>4. /\ slots' = [i \in Slots |-> Unused] /\ armed' = [p \in Pins |-> {}] /\ now' = 0
      /\ todo' = LoadTasks' /\ at' = "find" /\ cur' = 1 /\ scan' = 0 /\ phase' = "test"
      /\ seen' = [p \in Pins |-> {}] /\ since' = [i \in Slots |-> Debounce]
      /\ restored' = IF Record!Load' = Nothing THEN <<>> ELSE Record!Load'
  BY DEF PowerCut
<1>5. Start'
  BY <1>2, <1>3, <1>4 DEF Start
<1>6. (Start => Inv)'
  BY StartIs, PTL
<1> QED BY <1>5, <1>6
-----------------------------------------------------------------------------
(* bindings_dispatch_pending: nothing is half-way while it looks at a slot. *)

LEMMA DispatchStepKeeps ==
  ASSUME Inv, DispatchStep
  PROVE  Inv'
<1>1. /\ todo = <<>> /\ scan # 0 /\ at = "find"
      /\ UNCHANGED <<armed, now, todo, at, cur, sector, op, calls, since, restored>>
  BY DEF DispatchStep, Quiet, threadVars, flashVars, Inv, Shape, WriteOK
<1>2. /\ slots \in [Slots -> Slot] /\ seen \in [Pins -> SUBSET {"rise", "fall"}]
      /\ scan \in Slots
  BY <1>1, Types, SlotsAreNat DEF Inv, Shape, TypeOK, Slots
<1>3. After(scan) \in 0 .. SlotCount
  BY <1>2, SlotsAreNat DEF After, Slots
<1>4. TasksOK' /\ FlashDistinct'
  BY <1>1 DEF Inv, Shape, TasksOK, FlashDistinct, Distinct, Record!Idle
<1>5. CASE UNCHANGED <<slots, seen>> /\ phase' \in {"test", "take", "run"}
           /\ scan' \in 0 .. SlotCount
           /\ (phase' = "take" => scan' = scan /\ slots[scan].used)
  <2>1. TypeOK' /\ TakeOK'
    BY <1>1, <1>5 DEF Inv, Shape, TypeOK, TakeOK
  <2>2. WriteOK' /\ Bound' /\ SinceIsClock'
    BY <1>1, <1>5, TableKept
  <2> QED BY <1>4, <2>1, <2>2 DEF Inv, Shape
<1>6. CASE Takes
  <2>1. /\ phase' = "run" /\ UNCHANGED scan
        /\ slots' = [slots EXCEPT ![scan] = [slots[scan] EXCEPT !.pending = FALSE]]
        /\ seen' = [seen EXCEPT ![slots[scan].pin] = {}]
        /\ phase = "take" /\ slots[scan].used
    BY <1>6 DEF Takes, Inv, Shape, TakeOK
  <2>2. [slots[scan] EXCEPT !.pending = FALSE] \in Slot
    BY <1>2 DEF Slot
  <2>3. /\ slots' \in [Slots -> Slot]
        /\ \A i \in Slots \ {scan} : slots'[i] = slots[i]
        /\ slots'[scan] = [slots[scan] EXCEPT !.pending = FALSE]
    BY <1>2, <2>1, <2>2
  <2>4. \A i \in Slots : /\ slots'[i].used = slots[i].used
                         /\ slots'[i].pin = slots[i].pin
                         /\ slots'[i].edge = slots[i].edge
                         /\ slots'[i].last = slots[i].last
    BY <1>2, <2>3 DEF Slot
  <2>5. seen' \in [Pins -> SUBSET {"rise", "fall"}]
        /\ \A p \in Pins : p # slots[scan].pin => seen'[p] = seen[p]
    BY <1>2, <2>1
  <2>6. TypeOK' /\ TakeOK'
    BY <1>1, <2>1, <2>3, <2>5 DEF Inv, Shape, TypeOK, TakeOK, Slot
  <2>7. WriteOK' /\ OnePerPin' /\ FixedArmed' /\ Fixed' = Fixed
    BY <1>1, <2>4, EntriesKept
  <2>8. scan \in Fixed /\ Fixed \subseteq Slots
    BY <1>1, <1>2, <2>1 DEF Fixed
  <2>9. ASSUME NEW i \in Fixed PROVE SeenIfPending(i)'
    <3>1. CASE i = scan
      BY <1>2, <2>3, <3>1 DEF SeenIfPending, Slot
    <3>2. CASE i # scan
      <4>1. slots'[i] = slots[i] /\ slots[i].pin \in Pins /\ slots[i].pin # slots[scan].pin
        BY <1>2, <2>3, <2>8, <3>2 DEF Slot, Inv, Bound, OnePerPin
      <4>2. seen'[slots[i].pin] = seen[slots[i].pin]
        BY <2>5, <4>1
      <4> QED BY <4>1, <4>2 DEF SeenIfPending, Inv, Bound, FixedSeen
    <3> QED BY <3>1, <3>2
  <2>10. FixedSeen'
    BY <1>1, <2>7, <2>9 DEF FixedSeen, Adding
  <2>11. SinceIsClock'
    BY <1>1, <2>4 DEF Inv, SinceIsClock
  <2> QED BY <1>4, <2>6, <2>7, <2>10, <2>11 DEF Inv, Shape, Bound
<1>7. CASE Tests
  BY <1>2, <1>3, <1>5, <1>7, SlotsAreNat DEF Tests, Slots
<1>8. CASE TargetReturns
  BY <1>3, <1>5, <1>8 DEF TargetReturns
<1> QED BY <1>6, <1>7, <1>8 DEF DispatchStep

LEMMA TimerKeeps ==
  ASSUME Inv, TimerFires
  PROVE  Inv'
<1>1. /\ UNCHANGED <<slots, armed, now, todo, at, cur, sector, op, calls, seen, since, restored>>
      /\ scan' = 1 /\ phase' = "test"
  BY DEF TimerFires, threadVars, flashVars
<1>2. TypeOK' /\ TasksOK' /\ TakeOK' /\ FlashDistinct'
  BY <1>1, SlotsAreNat
     DEF Inv, Shape, TypeOK, TasksOK, TakeOK, FlashDistinct, Distinct, Record!Idle
<1>3. WriteOK' /\ Bound' /\ SinceIsClock'
  BY <1>1, TableKept
<1> QED BY <1>2, <1>3 DEF Inv, Shape

LEMMA StutterKeeps ==
  ASSUME Inv, UNCHANGED vars
  PROVE  Inv'
<1>1. UNCHANGED <<slots, armed, now, todo, at, cur, scan, phase, sector, op, calls, seen,
                  since, restored>>
  BY DEF vars, threadVars, dispatchVars, flashVars
<1>2. TypeOK' /\ TasksOK' /\ TakeOK' /\ FlashDistinct'
  BY <1>1 DEF Inv, Shape, TypeOK, TasksOK, TakeOK, FlashDistinct, Distinct, Record!Idle
<1>3. WriteOK' /\ Bound' /\ SinceIsClock'
  BY <1>1, TableKept
<1> QED BY <1>2, <1>3 DEF Inv, Shape

LEMMA StepInv == Inv /\ [Next]_vars => Inv'
<1> SUFFICES ASSUME Inv, [Next]_vars PROVE Inv'
  OBVIOUS
<1>1. ASSUME NEW p \in Pins, NEW events \in SUBSET {"rise", "fall"}, Interrupt(p, events)
      PROVE  Inv'
  BY <1>1, InterruptKeeps
<1>2. CASE Tick
  BY <1>2, TickKeeps
<1>3. CASE TableStep
  BY <1>3, TableStepKeeps
<1>4. CASE Command
  BY <1>4, CommandKeeps
<1>5. CASE FlashStep
  BY <1>5, FlashStepKeeps
<1>6. CASE PowerCut
  BY <1>6, PowerCutKeeps
<1>7. CASE TimerFires
  BY <1>7, TimerKeeps
<1>8. CASE DispatchStep
  BY <1>8, DispatchStepKeeps
<1>9. CASE UNCHANGED vars
  BY <1>9, StutterKeeps
<1> QED BY <1>1, <1>2, <1>3, <1>4, <1>5, <1>6, <1>7, <1>8, <1>9 DEF Next

THEOREM InvHolds == Spec => []Inv
BY InitInv, StepInv, PTL DEF Spec

(* The interrupt may hit a slot between any two stores of bindings_add: once the *)
(* call is over the slot is pending only for an edge its own pin has seen since. *)
THEOREM NoStaleEdge == Spec => []PendingIsOwn
<1>1. Inv => PendingIsOwn
  <2> SUFFICES ASSUME Inv, todo = <<>>, NEW i \in Slots, slots[i].used, slots[i].pending
               PROVE  seen[slots[i].pin] \cap Events(slots[i].edge) # {}
    BY DEF PendingIsOwn
  <2>1. at = "find"
    BY DEF Inv, Shape, WriteOK
  <2>2. i \in Fixed
    BY <2>1 DEF Fixed
  <2> QED BY <2>2 DEF Inv, Bound, FixedSeen, SeenIfPending
<1> QED BY <1>1, InvHolds, PTL

(* No slot accepts an edge while the debounce time of its last one runs, though the *)
(* clock may have wrapped in between: the interrupt's unsigned difference is the    *)
(* time that really passed.                                                         *)
LEMMA TooSoonInTime ==
  ASSUME Inv, NEW i \in Slots, since[i] < Debounce
  PROVE  TooSoon(slots[i])
<1> DEFINE last == slots[i].last
           passed == since[i]
<1>1. /\ last \in 0 .. TimeMod - 1 /\ passed \in 0 .. Debounce /\ now \in 0 .. TimeMod - 1
      /\ Debounce \in Nat \ {0} /\ TimeMod \in Nat /\ TimeMod > Debounce
  BY Types, BindingsAssumption DEF Inv, Shape, Slot
<1>2. now = last + passed \/ now + TimeMod = last + passed
  BY DEF Inv, SinceIsClock
<1> HIDE DEF last, passed
<1>3. (now + TimeMod - last) % TimeMod = passed
  <2>1. CASE now = last + passed
    <3>1. now + TimeMod - last = passed + TimeMod /\ passed < TimeMod
      BY <1>1, <2>1
    <3>2. (passed + TimeMod) % TimeMod = passed
      BY <1>1, <3>1
    <3> QED BY <3>1, <3>2
  <2>2. CASE now + TimeMod = last + passed
    <3>1. now + TimeMod - last = passed /\ passed < TimeMod
      BY <1>1, <2>2
    <3>2. passed % TimeMod = passed
      BY <1>1, <3>1
    <3> QED BY <3>1, <3>2
  <2> QED BY <1>2, <2>1, <2>2
<1> QED BY <1>3 DEF TooSoon, last, passed

THEOREM EdgesAreApart == Spec => AcceptedApart
<1>1. ASSUME Inv, [Next]_vars
      PROVE  [\A i \in Slots : since[i] \in 1 .. Debounce - 1 => since'[i] # 0]_vars
  <2> SUFFICES ASSUME Next, NEW i \in Slots, since[i] \in 1 .. Debounce - 1
               PROVE  since'[i] # 0
    BY <1>1
  <2>1. since[i] < Debounce /\ since[i] # 0 /\ Debounce \in Nat \ {0} /\ TooSoon(slots[i])
    BY <1>1, TooSoonInTime, BindingsAssumption
  <2>2. since \in [Slots -> 0 .. Debounce]
    BY <1>1, Types DEF Inv, Shape
  <2>3. ASSUME NEW p \in Pins, NEW events \in SUBSET {"rise", "fall"}, Interrupt(p, events)
        PROVE  since'[i] # 0
    BY <1>1, <2>1, <2>3, InterruptEffect
  <2>4. CASE Tick
    BY <2>1, <2>4 DEF Tick
  <2>5. CASE TableStep
    BY <2>1, <2>2, <2>5 DEF TableStep, AddFinds, AddWrites, Removes, Wipes, Arms
  <2>6. CASE PowerCut
    BY <2>1, <2>6 DEF PowerCut
  <2>7. CASE Command \/ FlashStep \/ TimerFires \/ DispatchStep
    BY <2>1, <2>7 DEF Command, FlashStep, TimerFires, DispatchStep
  <2> QED BY <2>3, <2>4, <2>5, <2>6, <2>7 DEF Next
<1> QED BY <1>1, InvHolds, PTL DEF Spec, AcceptedApart
-----------------------------------------------------------------------------
(* bindings_load: the table it reads is the table it leaves. *)

Finished == SlotCount + Len(restored) - Len(todo)
Added == Finished - SlotCount

\* What is left of the call is the end of what a load of this table does.
Remaining ==
  /\ Len(todo) <= SlotCount + Len(restored)
  /\ \A k \in 1 .. Len(todo) : todo[k] = Full(restored)[Finished + k]

Emptied ==
  Finished < SlotCount => at = "find" /\ \A i \in Slots : i <= Finished => ~slots[i].used

Filled ==
  Finished >= SlotCount =>
    /\ \A i \in Slots : i <= Added =>
         slots[i].used /\ slots[i].pin = restored[i].pin /\ slots[i].edge = restored[i].edge
    /\ \A i \in Slots : i > Added /\ slots[i].used => at # "find" /\ i = cur
    /\ at # "find" => cur = Added + 1
    /\ at \in {"last", "pending", "arm"} => slots[cur].edge = Head(todo).edge

Restoring == restored # Nothing => Distinct(restored) /\ Remaining /\ Emptied /\ Filled

LEMMA RestoringKept ==
  ASSUME Inv, Restoring, UNCHANGED <<todo, at, cur, restored>>,
         \A i \in Slots : /\ slots'[i].used = slots[i].used
                          /\ slots'[i].pin = slots[i].pin
                          /\ slots'[i].edge = slots[i].edge
  PROVE  Restoring'
<1>1. cur \in Slots
  BY Types DEF Inv, Shape
<1>2. Finished' = Finished /\ Added' = Added
  BY DEF Finished, Added
<1>3. Remaining => Remaining'
  BY <1>2 DEF Remaining, Full, AddAll, PerSlot
<1>4. Emptied => Emptied'
  BY <1>2 DEF Emptied
<1>5. Filled => Filled'
  BY <1>1, <1>2 DEF Filled
<1> QED BY <1>3, <1>4, <1>5 DEF Restoring, Distinct

\* The load of a table is about to begin, and of none.
Fresh ==
  \/ /\ restored \in Tables /\ Distinct(restored) /\ todo = Full(restored) /\ at = "find"
  \/ restored = <<>> /\ todo = <<>> /\ at = "find" /\ \A i \in Slots : ~slots[i].used

LEMMA FreshRestores == Fresh => Restoring
<1>1. CASE /\ restored \in Tables /\ Distinct(restored) /\ todo = Full(restored) /\ at = "find"
  <2>1. Len(todo) = SlotCount + Len(restored) /\ Len(todo) \in Nat /\ SlotCount \in Nat \ {0}
    BY <1>1, FullIs, SlotsAreNat
  <2>2. Len(restored) \in Nat /\ Finished = 0
    BY <1>1, <2>1, TableLength DEF Finished
  <2>3. Remaining
    BY <1>1, <2>1, <2>2 DEF Remaining
  <2>4. Emptied /\ Filled
    BY <1>1, <2>1, <2>2, SlotsAreNat DEF Emptied, Filled, Slots
  <2> QED BY <1>1, <2>3, <2>4 DEF Restoring
<1>2. CASE restored = <<>> /\ todo = <<>> /\ at = "find" /\ \A i \in Slots : ~slots[i].used
  <2>1. Len(todo) = 0 /\ Len(restored) = 0 /\ Finished = SlotCount /\ Added = 0
        /\ SlotCount \in Nat \ {0}
    BY <1>2, SlotsAreNat DEF Finished, Added
  <2>2. Remaining /\ Distinct(restored)
    BY <2>1 DEF Remaining, Distinct
  <2>3. Emptied /\ Filled
    BY <1>2, <2>1, SlotsAreNat DEF Emptied, Filled, Slots
  <2> QED BY <2>2, <2>3 DEF Restoring
<1> QED BY <1>1, <1>2 DEF Fresh

LEMMA StartRestores == Start => Restoring
<1> SUFFICES ASSUME Start PROVE Fresh
  BY FreshRestores
<1>1. CASE sector \in Tables
  BY <1>1, LoadIs DEF Start, Fresh, FlashDistinct
<1>2. CASE sector \notin Tables
  BY <1>2, LoadIs DEF Start, Fresh, Unused
<1> QED BY <1>1, <1>2

(* One write of the load is done. *)
LEMMA RemainingDone ==
  ASSUME Inv, restored # Nothing, Remaining, todo # <<>>, todo' = Tail(todo), UNCHANGED restored
  PROVE  /\ Remaining' /\ Finished' = Finished + 1 /\ Added' = Added + 1
         /\ Finished \in Nat /\ SlotCount \in Nat \ {0}
<1>1. Len(restored) \in 0 .. SlotCount /\ SlotCount \in Nat \ {0}
  BY TableLength, SlotsAreNat DEF Inv, Shape, TypeOK
<1>2. Len(todo) \in Nat \ {0} /\ Len(todo') = Len(todo) - 1
      /\ \A k \in 1 .. Len(todo) - 1 : todo'[k] = todo[k + 1]
  BY HeadTask
<1>3. Finished \in Nat
      /\ Finished' = Finished + 1 /\ Added' = Added + 1
  BY <1>1, <1>2 DEF Remaining, Finished, Added
<1>4. \A k \in 1 .. Len(todo') : todo'[k] = Full(restored')[Finished' + k]
  <2> TAKE k \in 1 .. Len(todo')
  <2>1. k \in 1 .. Len(todo) - 1 /\ k + 1 \in 1 .. Len(todo)
        /\ Finished + (k + 1) = (Finished + 1) + k
    BY <1>1, <1>2, <1>3
  <2>2. todo'[k] = Full(restored)[Finished + (k + 1)]
    BY <1>2, <2>1 DEF Remaining
  <2> QED BY <1>3, <2>1, <2>2 DEF Full, AddAll
<1>5. Len(todo') <= SlotCount + Len(restored')
  BY <1>1, <1>2 DEF Remaining
<1> QED BY <1>1, <1>3, <1>4, <1>5 DEF Remaining

(* The write that a load is at: it wipes a slot, or adds the next entry. *)
LEMMA LoadIsAt ==
  ASSUME Inv, restored # Nothing, Remaining, todo # <<>>
  PROVE  /\ Finished \in 0 .. SlotCount + Len(restored) - 1 /\ Len(restored) \in 0 .. SlotCount
         /\ SlotCount \in Nat \ {0}
         /\ Finished < SlotCount =>
              Head(todo) = Task("wipe", SomePin, SomeEdge, Finished + 1)
         /\ Finished >= SlotCount =>
              /\ Added \in 0 .. Len(restored) - 1 /\ Added + 1 \in Slots
              /\ Head(todo) = Task("add", restored[Added + 1].pin,
                                   restored[Added + 1].edge, NoSlot)
<1>1. restored \in Tables
  BY DEF Inv, Shape, TypeOK
<1>2. Len(restored) \in 0 .. SlotCount /\ SlotCount \in Nat \ {0}
  BY <1>1, TableLength, SlotsAreNat
<1>3. Len(todo) \in Nat \ {0} /\ Head(todo) = todo[1]
  BY HeadTask
<1>4. Finished \in 0 .. SlotCount + Len(restored) - 1
      /\ Head(todo) = Full(restored)[Finished + 1]
  BY <1>2, <1>3 DEF Remaining, Finished
<1>5. ASSUME Finished < SlotCount
      PROVE  Head(todo) = Task("wipe", SomePin, SomeEdge, Finished + 1)
  <2>1. Finished + 1 \in 1 .. SlotCount
    BY <1>2, <1>4, <1>5
  <2> QED BY <1>1, <1>4, <2>1, FullIs
<1>6. ASSUME Finished >= SlotCount
      PROVE  /\ Added \in 0 .. Len(restored) - 1 /\ Added + 1 \in Slots
             /\ Head(todo) = Task("add", restored[Added + 1].pin,
                                  restored[Added + 1].edge, NoSlot)
  <2>1. Added \in 0 .. Len(restored) - 1 /\ Added + 1 \in 1 .. Len(restored)
        /\ Finished + 1 = SlotCount + (Added + 1)
    BY <1>2, <1>4, <1>6 DEF Added
  <2>2. Added + 1 \in Slots
    BY <1>2, <2>1 DEF Slots
  <2> QED BY <1>1, <1>4, <2>1, <2>2, FullIs
<1> QED BY <1>2, <1>4, <1>5, <1>6

LEMMA WipeRestores ==
  ASSUME Inv, Restoring, restored # Nothing, todo # <<>>, Wipes, UNCHANGED restored
  PROVE  Restoring'
<1>1. /\ Head(todo).do = "wipe" /\ todo' = Tail(todo) /\ at' = "find"
      /\ slots' = [slots EXCEPT ![Head(todo).slot].used = FALSE]
  BY DEF Wipes, Done
<1>2. Distinct(restored) /\ Remaining /\ Emptied /\ Filled
  BY DEF Restoring
<1>3. Remaining' /\ Finished' = Finished + 1 /\ Added' = Added + 1
      /\ Finished \in Nat /\ SlotCount \in Nat \ {0}
  BY <1>1, <1>2, RemainingDone
<1>4. Finished < SlotCount /\ Head(todo).slot = Finished + 1
  BY <1>1, <1>2, LoadIsAt DEF Task
<1>5. slots \in [Slots -> Slot] /\ Finished + 1 \in Slots
  BY <1>3, <1>4, Types DEF Inv, Shape, Slots
<1>6. \A i \in Slots : i <= Finished + 1 => ~slots'[i].used
  <2> SUFFICES ASSUME NEW i \in Slots, i <= Finished + 1 PROVE ~slots'[i].used
    OBVIOUS
  <2>1. CASE i = Finished + 1
    BY <1>1, <1>4, <1>5, <2>1 DEF Slot
  <2>2. CASE i # Finished + 1
    <3>1. i <= Finished
      BY <1>3, <2>2, SlotsAreNat
    <3>2. slots'[i] = slots[i]
      BY <1>1, <1>4, <1>5, <2>2
    <3> QED BY <1>2, <1>4, <3>1, <3>2 DEF Emptied
  <2> QED BY <2>1, <2>2
<1>7. Emptied'
  BY <1>1, <1>3, <1>6 DEF Emptied
<1>8. Filled'
  <2> SUFFICES ASSUME Finished' >= SlotCount PROVE Filled'
    BY DEF Filled
  <2>1. Added' = 0 /\ Finished + 1 = SlotCount
    BY <1>3, <1>4 DEF Added
  <2>2. \A i \in Slots : ~slots'[i].used
    BY <1>6, <2>1 DEF Slots
  <2> QED BY <1>1, <2>1, <2>2, SlotsAreNat DEF Filled, Slots
<1> QED BY <1>2, <1>3, <1>7, <1>8 DEF Restoring, Distinct

(* What the two lemmas below know of a load that is filling the table *)
LEMMA FillingIsAt ==
  ASSUME Inv, Restoring, restored # Nothing, todo # <<>>, Head(todo).do = "add"
  PROVE  /\ Finished >= SlotCount /\ Added \in 0 .. Len(restored) - 1
         /\ Added + 1 \in Slots /\ Len(restored) \in 0 .. SlotCount /\ Finished \in Nat
         /\ SlotCount \in Nat \ {0}
         /\ Head(todo).pin = restored[Added + 1].pin
         /\ Head(todo).edge = restored[Added + 1].edge
<1>1. Remaining
  BY DEF Restoring
<1>2. ~(Finished < SlotCount) /\ Finished \in Nat /\ SlotCount \in Nat \ {0}
  BY <1>1, LoadIsAt DEF Task
<1> QED BY <1>1, <1>2, LoadIsAt DEF Task

LEMMA AddFindsRestores ==
  ASSUME Inv, Restoring, restored # Nothing, todo # <<>>, AddFinds, UNCHANGED restored
  PROVE  Restoring'
<1> DEFINE t == Head(todo)
           n == Added + 1
<1>1. t.do = "add" /\ at = "find"
  BY DEF AddFinds
<1>2. Distinct(restored) /\ Remaining /\ Filled
  BY DEF Restoring
<1>3. /\ Finished >= SlotCount /\ Added \in 0 .. Len(restored) - 1 /\ Added \in Nat
      /\ n \in Slots /\ Len(restored) \in 0 .. SlotCount /\ Finished \in Nat
      /\ SlotCount \in Nat \ {0} /\ t.pin = restored[n].pin
  BY <1>1, FillingIsAt
<1>4. \A i \in Slots : slots[i].used <=> i <= Added
  BY <1>1, <1>2, <1>3, SlotsAreNat DEF Filled
<1>5. FindSlot(t.pin) = NoSlot
  <2>1. ASSUME NEW i \in Slots, slots[i].used, slots[i].pin = t.pin PROVE FALSE
    <3>1. i <= Added /\ i \in 1 .. Len(restored) /\ n \in 1 .. Len(restored) /\ i # n
      BY <1>3, <1>4, <2>1 DEF Slots
    <3>2. restored[i].pin = restored[n].pin
      BY <1>2, <1>3, <2>1, <3>1 DEF Filled
    <3> QED BY <1>2, <3>1, <3>2 DEF Distinct
  <2> QED BY <2>1, FindSlotFinds
<1>6. FindFree = n /\ n # NoSlot
  <2>1. Added < SlotCount
    BY <1>3
  <2>2. FindFree = n
    BY <1>3, <1>4, <2>1, FindFreeIsNext
  <2> QED BY <1>3, <2>2, SlotsAreNat
<1>7. /\ slots' = [slots EXCEPT ![n].used = TRUE]
      /\ cur' = n /\ at' = "pin" /\ UNCHANGED todo
  BY <1>5, <1>6 DEF AddFinds
<1>8. Finished' = Finished /\ Added' = Added
  BY <1>7 DEF Finished, Added
<1>9. slots \in [Slots -> Slot]
  BY Types DEF Inv, Shape
<1>10. slots'[n].used /\ \A i \in Slots \ {n} : slots'[i] = slots[i]
  BY <1>3, <1>7, <1>9 DEF Slot
<1>11. Remaining' /\ Emptied'
  <2>1. Emptied'
    BY <1>3, <1>8 DEF Emptied
  <2>2. Remaining'
    BY <1>2, <1>7, <1>8 DEF Remaining, Full, AddAll, PerSlot
  <2> QED BY <2>1, <2>2
<1>12. \A i \in Slots : i <= Added => i # n
  BY <1>3, SlotsAreNat
<1> HIDE DEF n
<1>13. \A i \in Slots : i <= Added =>
         slots'[i].used /\ slots'[i].pin = restored[i].pin /\ slots'[i].edge = restored[i].edge
  BY <1>2, <1>3, <1>10, <1>12 DEF Filled
<1>14. \A i \in Slots : i > Added /\ slots'[i].used => i = n
  BY <1>3, <1>4, <1>10, SlotsAreNat
<1>15. Filled'
  BY <1>7, <1>8, <1>13, <1>14 DEF Filled, n
<1> QED BY <1>2, <1>11, <1>15 DEF Restoring, Distinct

LEMMA AddWritesRestores ==
  ASSUME Inv, Restoring, restored # Nothing, todo # <<>>, AddWrites, UNCHANGED restored
  PROVE  Restoring'
<1>1. /\ at \in {"pin", "edge", "last", "pending"} /\ Head(todo).do = "add"
      /\ at' \in {"edge", "last", "pending", "arm"}
      /\ at' \in {"last", "pending", "arm"} => at # "pin"
      /\ UNCHANGED <<todo, cur>>
      /\ \A i \in Slots \ {cur} : slots'[i] = slots[i]
      /\ slots'[cur].used = slots[cur].used
      /\ slots'[cur].edge = IF at = "edge" THEN Head(todo).edge ELSE slots[cur].edge
  BY WriteEffect
<1>2. Distinct(restored) /\ Remaining /\ Filled
  BY DEF Restoring
<1>3. /\ Finished >= SlotCount /\ Added \in Nat /\ Finished \in Nat /\ SlotCount \in Nat \ {0}
  BY <1>1, FillingIsAt
<1>4. Finished' = Finished /\ Added' = Added
  BY <1>1 DEF Finished, Added
<1>5. Remaining' /\ Emptied'
  <2>1. Emptied'
    BY <1>3, <1>4 DEF Emptied
  <2>2. Remaining'
    BY <1>1, <1>2, <1>4 DEF Remaining, Full, AddAll, PerSlot
  <2> QED BY <2>1, <2>2
<1>6. cur = Added + 1
  BY <1>1, <1>2, <1>3 DEF Filled
<1>7. \A i \in Slots : i <= Added => i # cur
  BY <1>3, <1>6, SlotsAreNat
<1>8. \A i \in Slots : i <= Added =>
         slots'[i].used /\ slots'[i].pin = restored[i].pin /\ slots'[i].edge = restored[i].edge
  BY <1>1, <1>2, <1>3, <1>7 DEF Filled
<1>9. \A i \in Slots : i > Added /\ slots'[i].used => i = cur
  BY <1>1, <1>2, <1>3 DEF Filled
<1>10. at' \in {"last", "pending", "arm"} => slots'[cur].edge = Head(todo).edge
  BY <1>1, <1>2, <1>3 DEF Filled
<1>11. Filled'
  BY <1>1, <1>4, <1>6, <1>8, <1>9, <1>10 DEF Filled
<1> QED BY <1>2, <1>5, <1>11 DEF Restoring, Distinct

LEMMA ArmsRestores ==
  ASSUME Inv, Restoring, restored # Nothing, todo # <<>>, Arms, UNCHANGED restored
  PROVE  Restoring'
<1>1. at = "arm" /\ todo' = Tail(todo) /\ at' = "find" /\ UNCHANGED slots
  BY DEF Arms, Done
<1>2. Distinct(restored) /\ Remaining /\ Emptied /\ Filled
  BY DEF Restoring
<1>3. Remaining' /\ Finished' = Finished + 1 /\ Added' = Added + 1
      /\ Finished \in Nat /\ SlotCount \in Nat \ {0}
  BY <1>1, <1>2, RemainingDone
<1>4. Finished >= SlotCount
  BY <1>1, <1>2, <1>3 DEF Emptied
<1>5. /\ Added \in Nat /\ Added + 1 \in Slots /\ cur = Added + 1
      /\ Head(todo).do = "add"
      /\ Head(todo).pin = restored[Added + 1].pin /\ Head(todo).edge = restored[Added + 1].edge
  <2>1. Head(todo).do = "add"
    BY <1>2, <1>4, LoadIsAt DEF Task
  <2> QED BY <1>1, <1>2, <1>4, <2>1, FillingIsAt DEF Filled
<1>6. slots[cur].used /\ slots[cur].pin = Head(todo).pin /\ slots[cur].edge = Head(todo).edge
  BY <1>1, <1>2, <1>4, <1>5 DEF Filled, Inv, Shape, WriteOK
<1>7. \A i \in Slots : i <= Added + 1 =>
         slots[i].used /\ slots[i].pin = restored[i].pin /\ slots[i].edge = restored[i].edge
  <2> TAKE i \in Slots
  <2>1. i <= Added + 1 => i <= Added \/ i = cur
    BY <1>5, SlotsAreNat
  <2> QED BY <1>2, <1>4, <1>5, <1>6, <2>1 DEF Filled
<1>8. \A i \in Slots : slots[i].used => ~(i > Added + 1)
  <2> TAKE i \in Slots
  <2>1. i > Added + 1 => i > Added /\ i # cur
    BY <1>5, SlotsAreNat
  <2> QED BY <1>2, <1>4, <2>1 DEF Filled
<1>9. Filled' /\ Emptied'
  BY <1>1, <1>3, <1>4, <1>7, <1>8 DEF Filled, Emptied
<1> QED BY <1>2, <1>3, <1>9 DEF Restoring, Distinct

LEMMA TableStepRestores ==
  ASSUME Inv, Restoring, restored # Nothing, TableStep
  PROVE  Restoring'
<1>1. todo # <<>> /\ UNCHANGED restored
  BY DEF TableStep
<1>2. CASE AddFinds
  BY <1>1, <1>2, AddFindsRestores
<1>3. CASE AddWrites
  BY <1>1, <1>3, AddWritesRestores
<1>4. CASE Removes
  <2>1. Head(todo).do \in {"remove", "clear"}
    BY <1>4 DEF Removes
  <2>2. Head(todo).do \in {"wipe", "add"}
    BY <1>1, LoadIsAt DEF Restoring, Task
  <2> QED BY <2>1, <2>2
<1>5. CASE Wipes
  BY <1>1, <1>5, WipeRestores
<1>6. CASE Arms
  BY <1>1, <1>6, ArmsRestores
<1> QED BY <1>2, <1>3, <1>4, <1>5, <1>6 DEF TableStep

LEMMA CommandRestores ==
  ASSUME Inv, Restoring, Command
  PROVE  Restoring'
<1>1. todo = <<>> /\ at = "find" /\ FlashDistinct
  BY DEF Command, Quiet, Inv, Shape, WriteOK
<1>2. CASE Bind \/ Unbind
  BY <1>2 DEF Bind, Unbind, Calls, Restoring
<1>3. CASE Calls(LoadTasks, IF Record!Load = Nothing THEN restored ELSE Record!Load)
  <2>1. UNCHANGED <<slots, at, cur>> /\ todo' = LoadTasks
        /\ restored' = IF Record!Load = Nothing THEN restored ELSE Record!Load
    BY <1>3 DEF Calls
  <2>2. CASE sector \in Tables
    <3>1. /\ restored' = sector /\ todo' = Full(sector) /\ at' = "find"
          /\ sector \in Tables /\ Distinct(sector)
      <4>1. Record!Load = sector /\ Record!Load # Nothing /\ LoadTasks = Full(sector)
        BY <2>2, LoadIs
      <4> QED BY <1>1, <2>1, <2>2, <4>1 DEF FlashDistinct
    <3>2. Fresh'
      BY <3>1 DEF Fresh, Distinct, Full, AddAll, PerSlot
    <3>3. (Fresh => Restoring)'
      BY FreshRestores, PTL
    <3> QED BY <3>2, <3>3
  <2>3. CASE sector \notin Tables
    <3>1. UNCHANGED <<todo, restored>>
      BY <1>1, <2>1, <2>3, LoadIs
    <3> QED BY <2>1, <3>1, RestoringKept
  <2> QED BY <2>2, <2>3
<1>4. CASE Record!Save(Table) /\ UNCHANGED <<slots, armed, threadVars, restored>>
  BY <1>4, RestoringKept DEF threadVars
<1> QED BY <1>2, <1>3, <1>4 DEF Command, LoadOrSave

LEMMA PowerCutRestores ==
  ASSUME Inv, PowerCut
  PROVE  Restoring'
<1>1. Inv'
  BY PowerCutKeeps
<1>2. Start'
  BY <1>1 DEF Inv, Shape, TypeOK, PowerCut, Start
<1>3. (Start => Restoring)'
  BY StartRestores, PTL
<1> QED BY <1>2, <1>3

LEMMA StepRestores == Inv /\ Restoring /\ [Next]_vars => Restoring'
<1> SUFFICES ASSUME Inv, Restoring, [Next]_vars PROVE Restoring'
  OBVIOUS
<1>1. ASSUME NEW p \in Pins, NEW events \in SUBSET {"rise", "fall"}, Interrupt(p, events)
      PROVE  Restoring'
  <2>1. UNCHANGED <<todo, at, cur, restored>>
    BY <1>1 DEF Interrupt, threadVars
  <2> QED BY <1>1, <2>1, InterruptEffect, RestoringKept
<1>2. CASE Tick \/ FlashStep \/ TimerFires \/ UNCHANGED vars
  <2>1. UNCHANGED <<slots, todo, at, cur, restored>>
    BY <1>2 DEF Tick, FlashStep, TimerFires, vars, threadVars
  <2> QED BY <2>1, RestoringKept
<1>3. CASE TableStep
  <2>1. CASE restored = Nothing
    BY <1>3, <2>1 DEF TableStep, Restoring
  <2> QED BY <1>3, <2>1, TableStepRestores
<1>4. CASE Command
  BY <1>4, CommandRestores
<1>5. CASE PowerCut
  BY <1>5, PowerCutRestores
<1>6. CASE DispatchStep
  <2>1. UNCHANGED <<todo, at, cur, restored>>
    BY <1>6 DEF DispatchStep, threadVars
  <2>2. slots \in [Slots -> Slot] /\ \A i \in Slots : /\ slots'[i].used = slots[i].used
                         /\ slots'[i].pin = slots[i].pin
                         /\ slots'[i].edge = slots[i].edge
    BY <1>6, Types DEF DispatchStep, Tests, Takes, TargetReturns, Slot, Inv, Shape
  <2> QED BY <2>1, <2>2, RestoringKept
<1> QED BY <1>1, <1>2, <1>3, <1>4, <1>5, <1>6 DEF Next

(* Between any two calls, what is bound is armed and bound once, and what a load read *)
(* is what it left, though interrupts come between its stores and power may fail.     *)
THEOREM TableIsRight == Spec => []TableInv
<1>1. Init => Restoring
  <2>1. Init => Start
    BY InitInv DEF Init, Start, Inv, Shape, TypeOK
  <2> QED BY <2>1, StartRestores
<1>2. Inv => BoundIsArmed
  <2> SUFFICES ASSUME Inv, todo = <<>>, NEW i \in Slots, slots[i].used
               PROVE  /\ FindSlot(slots[i].pin) = i
                      /\ \A j \in Slots : slots[j].used /\ slots[j].pin = slots[i].pin => i = j
                      /\ Events(slots[i].edge) \subseteq armed[slots[i].pin]
    BY DEF BoundIsArmed
  <2>1. at = "find"
    BY DEF Inv, Shape, WriteOK
  <2>2. \A j \in Slots : slots[j].used => j \in Fixed
    BY <2>1 DEF Fixed
  <2>3. \A j \in Slots : slots[j].used /\ slots[j].pin = slots[i].pin => i = j
    BY <2>2 DEF Inv, Bound, OnePerPin
  <2>4. FindSlot(slots[i].pin) = i
    BY <2>3, FindSlotFinds
  <2> QED BY <2>2, <2>3, <2>4 DEF Inv, Bound, FixedArmed
<1>3. Inv /\ Restoring => LoadRestores
  <2> SUFFICES ASSUME Inv, Restoring, Quiet, restored # Nothing PROVE Table = restored
    BY DEF LoadRestores
  <2>1. todo = <<>> /\ at = "find" /\ restored \in Tables /\ slots \in [Slots -> Slot]
    BY Types DEF Quiet, Inv, Shape, WriteOK, TypeOK
  <2>2. Len(restored) \in 0 .. SlotCount /\ SlotCount \in Nat \ {0}
    BY <2>1, TableLength, SlotsAreNat
  <2>3. Added = Len(restored) /\ Finished >= SlotCount
    BY <2>1, <2>2 DEF Finished, Added
  <2>4. \A i \in Slots : slots[i].used <=> i <= Len(restored)
    BY <2>1, <2>2, <2>3, SlotsAreNat DEF Restoring, Filled
  <2>5. \A i \in 1 .. Len(restored) :
          slots[i].pin = restored[i].pin /\ slots[i].edge = restored[i].edge
    BY <2>1, <2>2, <2>3 DEF Restoring, Filled, Slots
  <2> QED BY <2>1, <2>4, <2>5, TableOfPrefix
<1>4. Inv => TypeOK
  BY DEF Inv, Shape
<1> QED BY <1>1, <1>2, <1>3, <1>4, InitInv, StepInv, StepRestores, PTL DEF Spec, TableInv

-----------------------------------------------------------------------------
(* The drivers: who has a pin *)

PadT == [fn : {"null", "sio", "pwm", "i2c"}, oe : BOOLEAN, out : BOOLEAN]
SliceT == [on : BOOLEAN, div : Dividers, cc : [0 .. 1 -> Levels]]
Drivers == {"nobody", "gpio", "pwm", "i2c", "adc"}
Requests == {Unasked, Input, OnBus, Analog} \cup {Level(high) : high \in BOOLEAN}
              \cup {Duty(freq, pct) : freq \in Freqs, pct \in Duties}

HardwareOK == pad \in [Gpios -> PadT] /\ slice \in [Slices -> SliceT]
FlagsOK == gpioInit \subseteq Gpios /\ busReady \subseteq Buses /\ adcPins \subseteq AdcPins
WaitsOK == waits \in Seq(Gpios) /\ Len(waits) <= MaxDepth /\ \A k \in 1 .. Len(waits) : waits[k] \in gpioInit
AskedOK == asked \in [Gpios -> Requests] /\ lost \in [Gpios -> SUBSET Drivers]

\* A driver that believes it has set a pin up has the pin, or has lost it since.
HasOrLost == [p \in Gpios |-> lost[p] \cup {asked[p].by}]
Known ==
  \A p \in Gpios :
    /\ p \in gpioInit => "gpio" \in HasOrLost[p]
    /\ \A b \in busReady : p \in BusPins(b) => "i2c" \in HasOrLost[p]
    /\ p \in adcPins => "adc" \in HasOrLost[p]

Claim(p) ==
  \/ ActsAs(p, asked[p])
  \/ asked[p].by \in {"gpio", "i2c", "adc"} \cap lost[p]
  \/ asked[p].by = "pwm" /\ p \in disturbed
  \/ asked[p].by = "pwm" /\ FallsShort(p, asked[p])

PinsAre == HardwareOK /\ FlagsOK /\ WaitsOK /\ AskedOK /\ Known /\ ClaimHolds

LEMMA ByIs ==
  /\ Unasked.by = "nobody" /\ Input.by = "gpio" /\ OnBus.by = "i2c" /\ Analog.by = "adc"
  /\ \A high : Level(high).by = "gpio"
  /\ \A freq, pct : Duty(freq, pct).by = "pwm"
BY DEF Unasked, Input, OnBus, Analog, Level, Duty

LEMMA RequestIs ==
  ASSUME NEW r \in Requests
  PROVE  \/ r = Unasked
         \/ r.by = "gpio" /\ (r = Input \/ \E high \in BOOLEAN : r = Level(high))
         \/ r.by = "i2c" /\ r = OnBus
         \/ r.by = "adc" /\ r = Analog
         \/ r.by = "pwm" /\ \E freq \in Freqs, pct \in Duties : r = Duty(freq, pct)
BY ByIs DEF Requests

\* A slice and its channel are what was asked, or the nearest the registers hold.
Nearest(s, level, freq, pct) ==
  /\ RunsAt(s, freq) \/ (TooFast(freq) /\ s.div = 16) \/ (TooSlow(freq) /\ s.div = 4095)
  /\ HighFor(level, pct) \/ (pct = 100 /\ level = 0)

\* What each request makes of its pin
ActsTable ==
  \A p \in Gpios :
    /\ ActsAs(p, Unasked)
    /\ ActsAs(p, Input) <=> pad[p].fn = "sio" /\ ~pad[p].oe
    /\ \A high \in BOOLEAN : ActsAs(p, Level(high)) <=> pad[p].fn = "sio" /\ pad[p].oe /\ pad[p].out = high
    /\ ActsAs(p, OnBus) <=> pad[p].fn = "i2c"
    /\ ActsAs(p, Analog) <=> pad[p].fn = "null"
    /\ \A freq \in Freqs, pct \in Duties :
         ActsAs(p, Duty(freq, pct)) <=>
           /\ pad[p].fn = "pwm" /\ slice[SliceOf(p)].on
           /\ RunsAt(slice[SliceOf(p)], freq) /\ HighFor(slice[SliceOf(p)].cc[Channel(p)], pct)
    /\ \A freq \in Freqs, pct \in Duties :
         FallsShort(p, Duty(freq, pct)) <=>
           /\ pad[p].fn = "pwm" /\ slice[SliceOf(p)].on
           /\ Nearest(slice[SliceOf(p)], slice[SliceOf(p)].cc[Channel(p)], freq, pct)

LEMMA ActsTableHolds == ActsTable
<1> SUFFICES ASSUME NEW p \in Gpios
             PROVE
    /\ ActsAs(p, Unasked)
    /\ ActsAs(p, Input) <=> pad[p].fn = "sio" /\ ~pad[p].oe
    /\ \A high \in BOOLEAN : ActsAs(p, Level(high)) <=> pad[p].fn = "sio" /\ pad[p].oe /\ pad[p].out = high
    /\ ActsAs(p, OnBus) <=> pad[p].fn = "i2c"
    /\ ActsAs(p, Analog) <=> pad[p].fn = "null"
    /\ \A freq \in Freqs, pct \in Duties :
         ActsAs(p, Duty(freq, pct)) <=>
           /\ pad[p].fn = "pwm" /\ slice[SliceOf(p)].on
           /\ RunsAt(slice[SliceOf(p)], freq) /\ HighFor(slice[SliceOf(p)].cc[Channel(p)], pct)
    /\ \A freq \in Freqs, pct \in Duties :
         FallsShort(p, Duty(freq, pct)) <=>
           /\ pad[p].fn = "pwm" /\ slice[SliceOf(p)].on
           /\ Nearest(slice[SliceOf(p)], slice[SliceOf(p)].cc[Channel(p)], freq, pct)
  BY DEF ActsTable
<1>1. \A high \in BOOLEAN : Input # Level(high)
  BY DEF Input, Level
<1>2. ActsAs(p, Unasked)
  BY ByIs DEF ActsAs
<1>3. ActsAs(p, Input) <=> pad[p].fn = "sio" /\ ~pad[p].oe
  BY <1>1, ByIs DEF ActsAs
<1>4. ASSUME NEW high \in BOOLEAN
      PROVE  ActsAs(p, Level(high)) <=> pad[p].fn = "sio" /\ pad[p].oe /\ pad[p].out = high
  <2>1. Level(high) \in {Level(TRUE), Level(FALSE)} /\ Level(high).high = high
    BY DEF Level
  <2>2. Level(high) # Unasked /\ Level(high) # Input
    BY <1>1, ByIs
  <2> QED BY <2>1, <2>2, ByIs DEF ActsAs
<1>5. ActsAs(p, OnBus) <=> pad[p].fn = "i2c"
  BY ByIs DEF ActsAs
<1>6. ActsAs(p, Analog) <=> pad[p].fn = "null"
  BY ByIs DEF ActsAs
<1>7. ASSUME NEW freq \in Freqs, NEW pct \in Duties
      PROVE  ActsAs(p, Duty(freq, pct)) <=>
               /\ pad[p].fn = "pwm" /\ slice[SliceOf(p)].on
               /\ RunsAt(slice[SliceOf(p)], freq) /\ HighFor(slice[SliceOf(p)].cc[Channel(p)], pct)
  <2>1. Duty(freq, pct).freq = freq /\ Duty(freq, pct).pct = pct
    BY DEF Duty
  <2> QED BY <2>1, ByIs DEF ActsAs
<1>8. ASSUME NEW freq \in Freqs, NEW pct \in Duties
      PROVE  FallsShort(p, Duty(freq, pct)) <=>
               /\ pad[p].fn = "pwm" /\ slice[SliceOf(p)].on
               /\ Nearest(slice[SliceOf(p)], slice[SliceOf(p)].cc[Channel(p)], freq, pct)
  <2>1. Duty(freq, pct).freq = freq /\ Duty(freq, pct).pct = pct
    BY DEF Duty
  <2> QED BY <2>1 DEF FallsShort, Nearest
<1> QED BY <1>2, <1>3, <1>4, <1>5, <1>6, <1>7, <1>8

\* The pins of a request are its driver's; who had them has lost them; the others keep
\* what they had.
LEMMA RequestKeeps ==
  ASSUME AskedOK, NEW ps \in SUBSET Gpios, NEW r \in Requests, NEW anew \in BOOLEAN, Request(ps, r, anew)
  PROVE  /\ AskedOK'
         /\ \A p \in ps : asked'[p] = r
         /\ \A p \in Gpios \ ps : asked'[p] = asked[p] /\ lost'[p] = lost[p]
         /\ \A p \in Gpios : HasOrLost[p] \subseteq HasOrLost'[p]
         /\ \A p \in ps : ~anew => lost[p] \subseteq lost'[p]
<1>1. \A q \in Requests : q.by \in Drivers
  BY RequestIs, ByIs DEF Drivers
<1>2. /\ \A p \in ps : asked'[p] = r
      /\ \A p \in Gpios \ ps : asked'[p] = asked[p] /\ lost'[p] = lost[p]
      /\ \A p \in ps : lost'[p] = (lost[p] \cup ({asked[p].by} \ {r.by})) \ (IF anew THEN {r.by} ELSE {})
      /\ asked' \in [Gpios -> Requests]
      /\ lost' = [p \in Gpios |-> lost'[p]]
  BY DEF Request, AskedOK
<1>3. \A p \in Gpios : lost'[p] \in SUBSET Drivers
  <2> TAKE p \in Gpios
  <2>1. lost[p] \subseteq Drivers /\ asked[p].by \in Drivers
    BY <1>1 DEF AskedOK
  <2> QED BY <1>2, <2>1
<1>4. AskedOK'
  BY <1>2, <1>3 DEF AskedOK
<1>5. \A p \in Gpios : HasOrLost[p] \subseteq HasOrLost'[p]
  <2> TAKE p \in Gpios
  <2>1. HasOrLost[p] = lost[p] \cup {asked[p].by} /\ HasOrLost'[p] = lost'[p] \cup {asked'[p].by}
    BY DEF HasOrLost
  <2>2. CASE p \in ps
    BY <1>2, <2>1, <2>2
  <2>3. CASE p \notin ps
    BY <1>2, <2>1, <2>3
  <2> QED BY <2>2, <2>3
<1>6. \A p \in ps : ~anew => lost[p] \subseteq lost'[p]
  BY <1>2
<1> QED BY <1>2, <1>4, <1>5, <1>6

\* A pin that a command does not name still does what was asked of it, but for its slice.
LEMMA ClaimStays ==
  ASSUME HardwareOK, AskedOK, NEW p \in Gpios, Claim(p),
         pad'[p] = pad[p], asked'[p] = asked[p], lost'[p] = lost[p],
         \/ p \in disturbed'
         \/ slice'[SliceOf(p)] = slice[SliceOf(p)] /\ (p \in disturbed => p \in disturbed')
  PROVE  Claim(p)'
<1>1. ActsTable /\ ActsTable'
  BY ActsTableHolds, PTL
<1>2. asked[p] \in Requests
  BY DEF AskedOK
<1>3. CASE asked[p] = Unasked
  BY <1>1, <1>3 DEF ActsTable, Claim
<1>4. CASE asked[p] = Input
  BY <1>1, <1>4, ByIs DEF ActsTable, Claim
<1>5. ASSUME NEW high \in BOOLEAN, asked[p] = Level(high) PROVE Claim(p)'
  BY <1>1, <1>5, ByIs DEF ActsTable, Claim
<1>6. CASE asked[p] = OnBus
  BY <1>1, <1>6, ByIs DEF ActsTable, Claim
<1>7. CASE asked[p] = Analog
  BY <1>1, <1>7, ByIs DEF ActsTable, Claim
<1>8. ASSUME NEW freq \in Freqs, NEW pct \in Duties, asked[p] = Duty(freq, pct) PROVE Claim(p)'
  <2>1. CASE p \in disturbed'
    BY <1>8, <2>1, ByIs DEF Claim
  <2>2. CASE p \notin disturbed'
    <3>1. slice'[SliceOf(p)] = slice[SliceOf(p)] /\ p \notin disturbed
      BY <2>2
    <3>2. ActsAs(p, asked[p]) \/ FallsShort(p, asked[p])
      BY <1>8, <3>1, ByIs DEF Claim
    <3>3. CASE ActsAs(p, asked[p])
      <4>1. ActsAs(p, asked[p])'
        BY <1>1, <1>8, <3>1, <3>3 DEF ActsTable
      <4> QED BY <4>1 DEF Claim
    <3>4. CASE FallsShort(p, asked[p])
      <4>1. FallsShort(p, asked[p])'
        BY <1>1, <1>8, <3>1, <3>4 DEF ActsTable
      <4> QED BY <1>8, <4>1, ByIs DEF Claim
    <3> QED BY <3>2, <3>3, <3>4
  <2> QED BY <2>1, <2>2
<1> QED BY <1>2, <1>3, <1>4, <1>5, <1>6, <1>7, <1>8, RequestIs

\* A command of one driver, on pins it names, of which each does now what it was asked
LEMMA DriverKeeps ==
  ASSUME PinsAre, HardwareOK', FlagsOK', WaitsOK',
         NEW ps \in SUBSET Gpios, NEW r \in Requests, Request(ps, r, TRUE) \/ Request(ps, r, FALSE),
         \A p \in Gpios : p \in gpioInit' => p \in gpioInit \/ (p \in ps /\ r.by = "gpio"),
         \A p \in Gpios : \A b \in busReady' : p \in BusPins(b) => b \in busReady \/ (p \in ps /\ r.by = "i2c"),
         \A p \in Gpios : p \in adcPins' => p \in adcPins \/ (p \in ps /\ r.by = "adc"),
         \A p \in ps : Claim(p)',
         \A p \in Gpios \ ps :
           /\ pad'[p] = pad[p]
           /\ \/ p \in disturbed'
              \/ slice'[SliceOf(p)] = slice[SliceOf(p)] /\ (p \in disturbed => p \in disturbed')
  PROVE  PinsAre'
<1>1. HardwareOK /\ AskedOK /\ Known /\ \A p \in Gpios : Claim(p)
  BY DEF PinsAre, ClaimHolds, Claim
<1>2. /\ AskedOK'
      /\ \A p \in ps : asked'[p] = r
      /\ \A p \in Gpios \ ps : asked'[p] = asked[p] /\ lost'[p] = lost[p]
      /\ \A p \in Gpios : HasOrLost[p] \subseteq HasOrLost'[p]
  <2>1. CASE Request(ps, r, TRUE)
    BY <1>1, <2>1, RequestKeeps
  <2>2. CASE Request(ps, r, FALSE)
    BY <1>1, <2>2, RequestKeeps
  <2> QED BY <2>1, <2>2
<1>3. \A p \in ps : r.by \in HasOrLost'[p]
  BY <1>2 DEF HasOrLost
<1>4. Known'
  <2> SUFFICES ASSUME NEW p \in Gpios
               PROVE  /\ p \in gpioInit' => "gpio" \in HasOrLost'[p]
                      /\ \A b \in busReady' : p \in BusPins(b) => "i2c" \in HasOrLost'[p]
                      /\ p \in adcPins' => "adc" \in HasOrLost'[p]
    BY DEF Known
  <2>1. p \in gpioInit' => "gpio" \in HasOrLost'[p]
    BY <1>1, <1>2, <1>3 DEF Known
  <2>2. \A b \in busReady' : p \in BusPins(b) => "i2c" \in HasOrLost'[p]
    BY <1>1, <1>2, <1>3 DEF Known
  <2>3. p \in adcPins' => "adc" \in HasOrLost'[p]
    BY <1>1, <1>2, <1>3 DEF Known
  <2> QED BY <2>1, <2>2, <2>3
<1>5. \A p \in Gpios \ ps : Claim(p)'
  <2> TAKE p \in Gpios \ ps
  <2> QED BY <1>1, <1>2, ClaimStays
<1>6. ClaimHolds'
  BY <1>5 DEF ClaimHolds, Claim
<1> QED BY <1>2, <1>4, <1>6 DEF PinsAre

\* gpio_ctrl.c sets the pin up, has it, or has lost it.
LEMMA EnsuredIs ==
  ASSUME PinsAre, NEW p \in Gpios
  PROVE  Ensured(p) \in PadT /\ (Ensured(p).fn = "sio" \/ "gpio" \in lost[p])
<1>1. pad[p] \in PadT /\ FreshPad \in PadT /\ FreshPad.fn = "sio"
  BY DEF PinsAre, HardwareOK, FreshPad, PadT
<1>2. CASE p \notin gpioInit
  BY <1>1, <1>2 DEF Ensured
<1>3. CASE p \in gpioInit
  <2>1. "gpio" \in HasOrLost[p]
    BY <1>3 DEF PinsAre, Known
  <2>2. CASE "gpio" \in lost[p]
    BY <1>1, <1>3, <2>2 DEF Ensured
  <2>3. CASE "gpio" \notin lost[p]
    <3>1. asked[p].by = "gpio" /\ asked[p] \in Requests
      BY <2>1, <2>3 DEF HasOrLost, PinsAre, AskedOK
    <3>2. ActsAs(p, asked[p])
      BY <2>3, <3>1 DEF PinsAre, ClaimHolds
    <3>3. asked[p] = Input \/ \E high \in BOOLEAN : asked[p] = Level(high)
      BY <3>1, RequestIs, ByIs
    <3>4. pad[p].fn = "sio"
      BY <3>2, <3>3, ActsTableHolds DEF ActsTable
    <3> QED BY <1>1, <1>3, <3>4 DEF Ensured
  <2> QED BY <2>2, <2>3
<1> QED BY <1>2, <1>3

\* A call of gpio_ctrl.c, from gpio or from the end of a latch
LEMMA GpioKeeps ==
  ASSUME PinsAre, NEW p \in Gpios, NEW value \in PadT, value.fn = Ensured(p).fn, GpioSets(p, value),
         NEW r \in Requests, Request({p}, r, FALSE), UNCHANGED disturbed,
         \/ r = Input /\ ~value.oe
         \/ \E high \in BOOLEAN : r = Level(high) /\ value.oe /\ value.out = high,
         waits' \in Seq(Gpios), Len(waits') <= MaxDepth,
         \A k \in 1 .. Len(waits') : waits'[k] \in gpioInit'
  PROVE  PinsAre'
<1>1. /\ pad' = [pad EXCEPT ![p] = value] /\ gpioInit' = gpioInit \cup {p}
      /\ UNCHANGED <<slice, busReady, adcPins>>
  BY DEF GpioSets
<1>2. HardwareOK' /\ FlagsOK' /\ pad'[p] = value /\ \A q \in Gpios \ {p} : pad'[q] = pad[q]
  BY <1>1 DEF PinsAre, HardwareOK, FlagsOK
<1>3. WaitsOK'
  BY DEF WaitsOK
<1>4. r.by = "gpio"
  BY ByIs
<1>5. Claim(p)'
  <2>1. asked'[p] = r /\ lost[p] \subseteq lost'[p]
    <3> DEFINE ps == {p}
    <3>1. AskedOK /\ ps \in SUBSET Gpios /\ p \in ps /\ Request(ps, r, FALSE) /\ FALSE \in BOOLEAN
      BY DEF PinsAre
    <3> HIDE DEF ps
    <3>2. /\ \A q \in ps : asked'[q] = r
          /\ \A q \in ps : ~FALSE => lost[q] \subseteq lost'[q]
      BY <3>1, RequestKeeps
    <3> QED BY <3>1, <3>2
  <2>2. CASE "gpio" \in lost[p]
    BY <1>4, <2>1, <2>2 DEF Claim
  <2>3. CASE value.fn = "sio"
    <3>1. ActsTable'
      BY ActsTableHolds, PTL
    <3>2. ActsAs(p, r)'
      BY <1>2, <2>3, <3>1 DEF ActsTable
    <3> QED BY <2>1, <3>2 DEF Claim
  <2> QED BY <2>2, <2>3, EnsuredIs
<1> DEFINE ps == {p}
<1>6. /\ ps \in SUBSET Gpios /\ Request(ps, r, FALSE)
      /\ \A q \in Gpios : q \in gpioInit' => q \in gpioInit \/ (q \in ps /\ r.by = "gpio")
      /\ \A q \in ps : Claim(q)'
      /\ \A q \in Gpios \ ps : pad'[q] = pad[q]
  BY <1>1, <1>2, <1>4, <1>5
<1> HIDE DEF ps
<1> QED BY <1>1, <1>2, <1>3, <1>6, DriverKeeps

LEMMA GpioCallKeeps ==
  ASSUME PinsAre, NEW p \in Gpios, GpioRead(p) \/ GpioToggle(p) \/ \E high \in BOOLEAN : GpioWrite(p, high),
         waits' \in Seq(Gpios), Len(waits') <= MaxDepth,
         \A k \in 1 .. Len(waits') : waits'[k] \in gpioInit'
  PROVE  PinsAre'
<1> DEFINE e == Ensured(p)
<1>1. e \in PadT
  BY EnsuredIs
<1> HIDE DEF e
<1>2. CASE GpioRead(p)
  <2> DEFINE value == [e EXCEPT !.oe = FALSE]
  <2>1. value \in PadT /\ value.fn = e.fn /\ ~value.oe
    BY <1>1 DEF PadT
  <2>2. GpioSets(p, value) /\ Request({p}, Input, FALSE) /\ UNCHANGED disturbed
    BY <1>2 DEF GpioRead, e
  <2>3. Input \in Requests
    BY DEF Requests
  <2> HIDE DEF value
  <2> QED BY <2>1, <2>2, <2>3, GpioKeeps DEF e
<1>3. ASSUME NEW high \in BOOLEAN, GpioWrite(p, high) PROVE PinsAre'
  <2> DEFINE value == [e EXCEPT !.oe = TRUE, !.out = high]
  <2>1. value \in PadT /\ value.fn = e.fn /\ value.oe /\ value.out = high
    BY <1>1 DEF PadT
  <2>2. GpioSets(p, value) /\ Request({p}, Level(high), FALSE) /\ UNCHANGED disturbed
    BY <1>3 DEF GpioWrite, e
  <2>3. Level(high) \in Requests
    BY DEF Requests
  <2> HIDE DEF value
  <2> QED BY <2>1, <2>2, <2>3, GpioKeeps DEF e
<1>4. CASE GpioToggle(p)
  <2> DEFINE high == ~e.out
             value == [e EXCEPT !.oe = TRUE, !.out = ~@]
  <2>1. high \in BOOLEAN
    BY <1>1 DEF PadT
  <2>2. value = [e EXCEPT !.oe = TRUE, !.out = high]
    BY <1>1 DEF PadT
  <2>3. GpioSets(p, value) /\ Request({p}, Level(high), FALSE) /\ UNCHANGED disturbed
    BY <1>4 DEF GpioToggle, e
  <2> HIDE DEF high
  <2>4. value \in PadT /\ value.fn = e.fn /\ value.oe /\ value.out = high
    BY <1>1, <2>1, <2>2 DEF PadT
  <2>5. Level(high) \in Requests
    BY <2>1 DEF Requests
  <2> HIDE DEF value
  <2> QED BY <2>1, <2>3, <2>4, <2>5, GpioKeeps DEF e
<1> QED BY <1>2, <1>3, <1>4

LEMMA LatchBeginsKeeps ==
  ASSUME PinsAre, NEW p \in Gpios, LatchBegins(p)
  PROVE  PinsAre'
<1>1. GpioWrite(p, TRUE) /\ gpioInit' = gpioInit \cup {p} /\ waits' = Append(waits, p) /\ Len(waits) < MaxDepth
  BY DEF LatchBegins, GpioWrite, GpioSets
<1>2. waits \in Seq(Gpios) /\ (\A k \in 1 .. Len(waits) : waits[k] \in gpioInit) /\ MaxDepth \in Nat
  BY PinsAssumption DEF PinsAre, WaitsOK
<1>3. /\ waits' \in Seq(Gpios) /\ Len(waits') = Len(waits) + 1 /\ Len(waits) \in Nat
      /\ \A k \in 1 .. Len(waits) : waits'[k] = waits[k]
      /\ waits'[Len(waits) + 1] = p
  BY <1>1, <1>2, AppendProperties, LenProperties
<1>4. \A k \in 1 .. Len(waits') : waits'[k] \in gpioInit'
  BY <1>1, <1>2, <1>3
<1>5. Len(waits') <= MaxDepth
  BY <1>1, <1>2, <1>3
<1>6. \E high \in BOOLEAN : GpioWrite(p, high)
  BY <1>1
<1> QED BY <1>3, <1>4, <1>5, <1>6, GpioCallKeeps

LEMMA LatchEndsKeeps ==
  ASSUME PinsAre, LatchEnds
  PROVE  PinsAre'
<1> DEFINE n == Len(waits)
           p == waits[n]
<1>1. waits # <<>> /\ GpioWrite(p, FALSE) /\ waits' = SubSeq(waits, 1, n - 1)
  BY DEF LatchEnds
<1>2. waits \in Seq(Gpios) /\ (\A k \in 1 .. n : waits[k] \in gpioInit) /\ n <= MaxDepth /\ MaxDepth \in Nat
  BY PinsAssumption DEF PinsAre, WaitsOK
<1>3. n \in Nat \ {0} /\ p \in Gpios
  BY <1>1, <1>2, EmptySeq, ElementOfSeq
<1>4. \A k \in 1 .. n - 1 : waits[k] \in Gpios
  BY <1>2, <1>3, ElementOfSeq
<1>5. waits' \in Seq(Gpios) /\ Len(waits') = n - 1 /\ \A k \in 1 .. n - 1 : waits'[k] = waits[k]
  <2> DEFINE m == n - 1
  <2>1. m \in Int /\ 1 \in Int /\ m >= 0 /\ \A k \in 1 .. m : waits[k] \in Gpios
    BY <1>3, <1>4
  <2> HIDE DEF m
  <2>2. SubSeq(waits, 1, m) \in Seq(Gpios) /\ Len(SubSeq(waits, 1, m)) = m /\ \A k \in 1 .. m : SubSeq(waits, 1, m)[k] = waits[k]
    BY <2>1, SubSeqProperties
  <2> QED BY <1>1, <2>2 DEF m
<1>6. gpioInit \subseteq gpioInit'
  BY <1>1 DEF GpioWrite, GpioSets
<1>7. \A k \in 1 .. Len(waits') : waits'[k] \in gpioInit'
  BY <1>2, <1>3, <1>5, <1>6
<1>8. Len(waits') <= MaxDepth
  BY <1>2, <1>3, <1>5
<1> HIDE DEF p, n
<1>9. \E high \in BOOLEAN : GpioWrite(p, high)
  BY <1>1
<1> QED BY <1>3, <1>5, <1>7, <1>8, <1>9, GpioCallKeeps

LEMMA GpioHolds ==
  ASSUME PinsAre, NEW p \in Gpios, Gpio(p)
  PROVE  PinsAre'
<1>1. CASE LatchBegins(p)
  BY <1>1, LatchBeginsKeeps
<1>2. CASE (GpioRead(p) \/ GpioToggle(p) \/ \E high \in BOOLEAN : GpioWrite(p, high)) /\ UNCHANGED waits
  <2>1. gpioInit \subseteq gpioInit'
    BY <1>2 DEF GpioRead, GpioToggle, GpioWrite, GpioSets
  <2>2. waits' \in Seq(Gpios) /\ Len(waits') <= MaxDepth /\ \A k \in 1 .. Len(waits') : waits'[k] \in gpioInit'
    BY <1>2, <2>1 DEF PinsAre, WaitsOK
  <2> QED BY <1>2, <2>2, GpioCallKeeps
<1> QED BY <1>1, <1>2 DEF Gpio

-----------------------------------------------------------------------------
(* The slices *)

LEMMA SliceIs ==
  ASSUME NEW p \in Gpios
  PROVE  SliceOf(p) \in Slices /\ Channel(p) \in 0 .. 1
<1>1. p \in Nat
  BY PinsAssumption
<1> QED BY <1>1 DEF Slices, Channel

\* A quotient is the greatest whose product does not exceed.
LEMMA QuotientIs ==
  ASSUME NEW n \in Nat, NEW k \in Nat \ {0}
  PROVE  /\ n \div k \in Nat
         /\ (n \div k) * k <= n /\ n < (n \div k + 1) * k
<1> DEFINE d == n \div k   m == n % k
<1>1. d \in Nat /\ m \in 0 .. k - 1 /\ n = k * d + m
  OBVIOUS
<1> HIDE DEF d, m
<1>2. k * d = d * k /\ (d + 1) * k = d * k + k
  BY <1>1
<1>3. d * k <= n /\ n < (d + 1) * k
  BY <1>1, <1>2
<1> QED BY <1>1, <1>3 DEF d

\* The divider is the nearest there is: exact, or clamped where the register ends.
LEMMA DividerIs ==
  ASSUME NEW freq \in Freqs, NEW s, s.div = Divider(freq)
  PROVE  RunsAt(s, freq) \/ (TooFast(freq) /\ s.div = 16) \/ (TooSlow(freq) /\ s.div = 4095)
<1> DEFINE d == ClockSteps \div freq
<1>1. freq \in Nat \ {0} /\ ClockSteps \in Nat
  BY PinsAssumption
<1>2. d \in Nat /\ d * freq <= ClockSteps /\ ClockSteps < (d + 1) * freq
  BY <1>1, QuotientIs
<1>3. s.div = IF d < 16 THEN 16 ELSE IF d >= 4096 THEN 4095 ELSE d
  BY DEF Divider
<1> HIDE DEF d
<1>4. CASE d < 16
  <2>1. (d + 1) * freq <= 16 * freq
    <3>1. 16 * freq = (d + 1) * freq + (15 - d) * freq /\ (15 - d) * freq >= 0
      BY <1>1, <1>2, <1>4
    <3> QED BY <1>1, <1>2, <3>1
  <2> QED BY <1>1, <1>2, <1>3, <1>4, <2>1 DEF TooFast
<1>5. CASE d >= 4096
  <2>1. 4096 * freq <= d * freq
    <3>1. d * freq = 4096 * freq + (d - 4096) * freq /\ (d - 4096) * freq >= 0
      BY <1>1, <1>2, <1>5
    <3> QED BY <1>1, <1>2, <3>1
  <2> QED BY <1>1, <1>2, <1>3, <1>5, <2>1 DEF TooSlow
<1>6. CASE d \in 16 .. 4095
  BY <1>2, <1>3, <1>6 DEF RunsAt
<1> QED BY <1>2, <1>4, <1>5, <1>6

\* The level is the nearest there is: exact, or 0 for 100 %.
LEMMA LevelIs ==
  ASSUME NEW pct \in 0 .. 100
  PROVE  HighFor(LevelOf(pct), pct) \/ (pct = 100 /\ LevelOf(pct) = 0)
<1> DEFINE d == (65536 * pct) \div 100
<1>1. d \in Nat /\ 100 * d <= 65536 * pct /\ 65536 * pct < 100 * (d + 1)
  OBVIOUS
<1>2. LevelOf(pct) = d % 65536
  BY DEF LevelOf
<1> HIDE DEF d
<1>3. CASE pct = 100
  <2>1. d = 65536
    BY <1>1, <1>3
  <2> QED BY <1>2, <1>3, <2>1
<1>4. CASE pct < 100
  <2>1. d < 65536
    BY <1>1, <1>4
  <2>2. LevelOf(pct) = d
    BY <1>1, <1>2, <2>1
  <2> QED BY <1>1, <2>2 DEF HighFor
<1> QED BY <1>3, <1>4

\* The divider is clamped, the level cut to sixteen bits.
LEMMA ReprogrammedIs ==
  ASSUME NEW p \in Gpios, NEW freq \in Freqs, NEW pct \in Duties
  PROVE  /\ Reprogrammed(p, freq, pct) \in SliceT
         /\ Reprogrammed(p, freq, pct).on /\ Reprogrammed(p, freq, pct).div = Divider(freq)
         /\ Reprogrammed(p, freq, pct).cc[Channel(p)] = LevelOf(pct)
<1>1. freq \in Nat \ {0} /\ ClockSteps \in Nat /\ pct \in 0 .. 100
  BY PinsAssumption
<1>2. Divider(freq) \in Dividers
  <2> DEFINE d == ClockSteps \div freq
  <2>1. d \in Int
    BY <1>1
  <2>2. Divider(freq) = IF d < 16 THEN 16 ELSE IF d >= 4096 THEN 4095 ELSE d
    BY DEF Divider
  <2> HIDE DEF d
  <2> QED BY <2>1, <2>2 DEF Dividers
<1>3. LevelOf(pct) \in Levels /\ 0 \in Levels
  <2> DEFINE d == (65536 * pct) \div 100
  <2>1. d \in Int
    BY <1>1
  <2>2. LevelOf(pct) = d % 65536
    BY DEF LevelOf
  <2> HIDE DEF d
  <2> QED BY <2>1, <2>2 DEF Levels
<1> DEFINE level == LevelOf(pct)
           ch == Channel(p)
           cc == [c \in 0 .. 1 |-> IF c = ch THEN level ELSE 0]
           div == Divider(freq)
<1>4. ch \in 0 .. 1
  BY SliceIs
<1>5. Reprogrammed(p, freq, pct) = [on |-> TRUE, div |-> div, cc |-> cc]
  BY DEF Reprogrammed
<1> HIDE DEF level, ch, div
<1>6. cc \in [0 .. 1 -> Levels]
  BY <1>3 DEF level
<1>7. cc[ch] = level
  BY <1>4
<1> HIDE DEF cc
<1> QED BY <1>2, <1>5, <1>6, <1>7 DEF SliceT, level, ch, div

\* A slice that is reprogrammed, or stopped, disturbs its other pin and no pin of another.
LEMMA SliceKeeps ==
  ASSUME PinsAre, NEW p \in Gpios, NEW v \in PadT, NEW s \in SliceT,
         pad' = [pad EXCEPT ![p] = v], slice' = [slice EXCEPT ![SliceOf(p)] = s], Disturbs(p),
         NEW r \in Requests, Request({p}, r, TRUE), r.by \in {"gpio", "pwm"}, Claim(p)',
         UNCHANGED <<gpioInit, busReady, adcPins, waits>>
  PROVE  PinsAre'
<1> DEFINE ps == {p}
<1>1. HardwareOK' /\ FlagsOK' /\ WaitsOK'
  BY SliceIs DEF PinsAre, HardwareOK, FlagsOK, WaitsOK
<1>2. \A q \in Gpios \ ps : pad'[q] = pad[q]
  BY DEF PinsAre, HardwareOK
<1>3. \A q \in Gpios \ ps :
        \/ q \in disturbed'
        \/ slice'[SliceOf(q)] = slice[SliceOf(q)] /\ (q \in disturbed => q \in disturbed')
  BY SliceIs DEF Disturbs, PinsAre, HardwareOK
<1>4. /\ ps \in SUBSET Gpios /\ Request(ps, r, TRUE)
      /\ \A q \in ps : Claim(q)'
  OBVIOUS
<1> HIDE DEF ps
<1> QED BY <1>1, <1>2, <1>3, <1>4, DriverKeeps

LEMMA PwmSetKeeps ==
  ASSUME PinsAre, NEW p \in Gpios, NEW freq \in Freqs, NEW pct \in Duties, PwmSet(p, freq, pct)
  PROVE  PinsAre'
<1> DEFINE v == [pad[p] EXCEPT !.fn = "pwm"]
           s == Reprogrammed(p, freq, pct)
           r == Duty(freq, pct)
<1>1. pad[p] \in PadT
  BY DEF PinsAre, HardwareOK
<1>2. v \in PadT /\ v.fn = "pwm"
  BY <1>1 DEF PadT
<1>3. /\ pad' = [pad EXCEPT ![p] = v] /\ slice' = [slice EXCEPT ![SliceOf(p)] = s]
      /\ Disturbs(p) /\ Request({p}, r, TRUE) /\ UNCHANGED <<gpioInit, busReady, adcPins, waits>>
  BY DEF PwmSet, WithFunction, flags
<1>4. s \in SliceT /\ s.on /\ s.div = Divider(freq) /\ s.cc[Channel(p)] = LevelOf(pct)
  BY ReprogrammedIs
<1>5. r \in Requests /\ r.by = "pwm"
  BY ByIs DEF Requests
<1> HIDE DEF v, s
<1>6. Claim(p)'
  <2>1. pad'[p] = v /\ slice'[SliceOf(p)] = s
    BY <1>3, SliceIs DEF PinsAre, HardwareOK
  <2>2. ActsTable'
    BY ActsTableHolds, PTL
  <2>3. Nearest(s, s.cc[Channel(p)], freq, pct)
    BY <1>4, DividerIs, LevelIs, PinsAssumption DEF Nearest
  <2>4. FallsShort(p, Duty(freq, pct))'
    BY <1>2, <1>4, <2>1, <2>2, <2>3 DEF ActsTable
  <2>5. asked'[p] = r
    BY <1>3 DEF Request
  <2> QED BY <1>5, <2>4, <2>5 DEF Claim
<1> HIDE DEF r
<1> QED BY <1>2, <1>3, <1>4, <1>5, <1>6, SliceKeeps

\* The pin of the request is an input.
LEMMA InputIs ==
  ASSUME NEW p \in Gpios, asked'[p] = Input, pad'[p].fn = "sio", ~pad'[p].oe
  PROVE  Claim(p)'
<1>1. ActsTable'
  BY ActsTableHolds, PTL
<1>2. ActsAs(p, Input)'
  BY <1>1 DEF ActsTable
<1> QED BY <1>2 DEF Claim

LEMMA PwmOffKeeps ==
  ASSUME PinsAre, NEW p \in Gpios, PwmOff(p)
  PROVE  PinsAre'
<1> DEFINE v == [pad[p] EXCEPT !.fn = "sio", !.oe = FALSE]
           i == SliceOf(p)
           s == [slice[i] EXCEPT !.on = FALSE]
<1>1. pad[p] \in PadT /\ slice[i] \in SliceT
  BY SliceIs DEF PinsAre, HardwareOK
<1>2. v \in PadT /\ v.fn = "sio" /\ ~v.oe
  BY <1>1 DEF PadT
<1>3. s \in SliceT
  BY <1>1 DEF SliceT
<1>4. pad' = [pad EXCEPT ![p] = v]
  <2>1. pad' = [pad EXCEPT ![p].fn = "sio", ![p].oe = FALSE]
    BY DEF PwmOff
  <2> QED BY <2>1 DEF PinsAre, HardwareOK
<1>5. /\ slice' = [slice EXCEPT ![i] = s]
      /\ Disturbs(p) /\ Request({p}, Input, TRUE) /\ UNCHANGED <<gpioInit, busReady, adcPins, waits>>
  BY DEF PwmOff, flags
<1>6. Input \in Requests /\ Input.by = "gpio"
  BY ByIs DEF Requests
<1> HIDE DEF v, s
<1>7. Claim(p)'
  <2>1. pad'[p] = v
    BY <1>4 DEF PinsAre, HardwareOK
  <2>2. asked'[p] = Input
    BY <1>5 DEF Request
  <2> QED BY <1>2, <2>1, <2>2, InputIs
<1> QED BY <1>2, <1>3, <1>4, <1>5, <1>6, <1>7, SliceKeeps

LEMMA MakeInputKeeps ==
  ASSUME PinsAre, NEW p \in Gpios, MakeInput(p)
  PROVE  PinsAre'
<1> DEFINE ps == {p}
<1>1. /\ pad' = [pad EXCEPT ![p] = FreshPad] /\ Request({p}, Input, TRUE)
      /\ UNCHANGED <<slice, disturbed, gpioInit, busReady, adcPins, waits>>
  BY DEF MakeInput, flags
<1>2. FreshPad \in PadT /\ FreshPad.fn = "sio" /\ ~FreshPad.oe
  BY DEF FreshPad, PadT
<1>3. HardwareOK' /\ FlagsOK' /\ WaitsOK' /\ pad'[p] = FreshPad /\ \A q \in Gpios \ ps : pad'[q] = pad[q]
  BY <1>1, <1>2 DEF PinsAre, HardwareOK, FlagsOK, WaitsOK
<1>4. Claim(p)'
  <2>1. asked'[p] = Input
    BY <1>1 DEF Request
  <2> QED BY <1>2, <1>3, <2>1, InputIs
<1>5. /\ ps \in SUBSET Gpios /\ Request(ps, Input, TRUE) /\ \A q \in ps : Claim(q)'
  BY <1>1, <1>4
<1>6. Input \in Requests
  BY DEF Requests
<1> HIDE DEF ps
<1> QED BY <1>1, <1>3, <1>5, <1>6, DriverKeeps

-----------------------------------------------------------------------------
(* The buses and the converter *)

\* A driver that has its pin has it as it left it.
LEMMA StillHas ==
  ASSUME PinsAre, NEW p \in Gpios, NEW r \in Requests, r.by \in {"i2c", "adc"},
         r.by \in HasOrLost[p], r.by \notin lost[p]
  PROVE  asked[p] = r /\ ActsAs(p, r)
<1>1. asked[p].by = r.by /\ asked[p] \in Requests
  BY DEF HasOrLost, PinsAre, AskedOK
<1>2. asked[p] = r
  BY <1>1, RequestIs, ByIs
<1>3. ActsAs(p, asked[p])
  BY <1>1 DEF PinsAre, ClaimHolds
<1> QED BY <1>2, <1>3

LEMMA I2cKeeps ==
  ASSUME PinsAre, NEW b \in Buses, I2cAccess(b)
  PROVE  PinsAre'
<1> DEFINE ps == BusPins(b) \cap Gpios
<1>1. /\ pad' = [p \in Gpios |-> IF p \in ps /\ b \notin busReady THEN [pad[p] EXCEPT !.fn = "i2c"] ELSE pad[p]]
      /\ busReady' = busReady \cup {b} /\ Request(ps, OnBus, FALSE)
      /\ UNCHANGED <<disturbed, slice, gpioInit, adcPins, waits>>
  BY DEF I2cAccess
<1>2. ps \in SUBSET Gpios /\ OnBus \in Requests /\ OnBus.by = "i2c" /\ (\A p \in Gpios : p \in BusPins(b) => p \in ps)
  BY ByIs DEF Requests
<1> HIDE DEF ps
<1>3. \A p \in Gpios : [pad[p] EXCEPT !.fn = "i2c"] \in PadT /\ [pad[p] EXCEPT !.fn = "i2c"].fn = "i2c"
  BY DEF PinsAre, HardwareOK, PadT
<1>4. HardwareOK'
  BY <1>1, <1>3 DEF PinsAre, HardwareOK
<1>5. FlagsOK' /\ WaitsOK'
  BY <1>1 DEF PinsAre, FlagsOK, WaitsOK
<1>6. ASSUME NEW p \in ps PROVE Claim(p)'
  <2>1. asked'[p] = OnBus /\ lost[p] \subseteq lost'[p]
    <3>1. AskedOK
      BY DEF PinsAre
    <3>2. (\A q \in ps : asked'[q] = OnBus) /\ (\A q \in ps : ~FALSE => lost[q] \subseteq lost'[q])
      BY <1>1, <1>2, <3>1, RequestKeeps
    <3> QED BY <3>2
  <2>2. CASE "i2c" \in lost[p]
    BY <1>2, <2>1, <2>2 DEF Claim
  <2>3. CASE "i2c" \notin lost[p]
    <3>1. pad'[p].fn = "i2c"
      <4>1. CASE b \notin busReady
        BY <1>1, <1>2, <1>3, <4>1
      <4>2. CASE b \in busReady
        <5>1. p \in BusPins(b) /\ p \in Gpios
          BY DEF ps
        <5>2. "i2c" \in HasOrLost[p]
          BY <4>2, <5>1 DEF PinsAre, Known
        <5>3. ActsAs(p, OnBus)
          BY <1>2, <2>3, <5>1, <5>2, StillHas
        <5>4. pad[p].fn = "i2c"
          BY <5>1, <5>3, ActsTableHolds DEF ActsTable
        <5> QED BY <1>1, <4>2, <5>1, <5>4
      <4> QED BY <4>1, <4>2
    <3>2. ActsTable'
      BY ActsTableHolds, PTL
    <3>3. ActsAs(p, OnBus)'
      BY <1>2, <3>1, <3>2 DEF ActsTable
    <3> QED BY <2>1, <3>3 DEF Claim
  <2> QED BY <2>2, <2>3
<1>7. \A p \in Gpios \ ps : pad'[p] = pad[p]
  BY <1>1
<1>8. \A p \in Gpios : \A c \in busReady' : p \in BusPins(c) => c \in busReady \/ (p \in ps /\ OnBus.by = "i2c")
  BY <1>1, <1>2
<1> QED BY <1>1, <1>2, <1>4, <1>5, <1>6, <1>7, <1>8, DriverKeeps

LEMMA AdcKeeps ==
  ASSUME PinsAre, NEW p \in Gpios, Adc(p)
  PROVE  PinsAre'
<1> DEFINE ps == {p}
           v == IF p \in adcPins THEN pad[p] ELSE [pad[p] EXCEPT !.fn = "null"]
<1>1. /\ p \in AdcPins /\ pad' = (IF p \in adcPins THEN pad ELSE [pad EXCEPT ![p].fn = "null"])
      /\ adcPins' = adcPins \cup {p} /\ Request({p}, Analog, FALSE)
      /\ UNCHANGED <<disturbed, slice, gpioInit, busReady, waits>>
  BY DEF Adc, AdcRead, WithFunction
<1>2. v \in PadT /\ (p \notin adcPins => v.fn = "null")
  BY DEF PinsAre, HardwareOK, PadT
<1>3. pad' = [pad EXCEPT ![p] = v]
  BY <1>1 DEF PinsAre, HardwareOK
<1>4. p \in adcPins => v = pad[p]
  OBVIOUS
<1> HIDE DEF v
<1>5. HardwareOK' /\ pad'[p] = v /\ \A q \in Gpios \ ps : pad'[q] = pad[q]
  BY <1>1, <1>2, <1>3 DEF PinsAre, HardwareOK
<1>6. FlagsOK' /\ WaitsOK'
  BY <1>1 DEF PinsAre, FlagsOK, WaitsOK
<1>7. Analog \in Requests /\ Analog.by = "adc"
  BY ByIs DEF Requests
<1>8. ps \in SUBSET Gpios /\ p \in ps /\ Request(ps, Analog, FALSE)
  BY <1>1
<1> HIDE DEF ps
<1>9. Claim(p)'
  <2>1. asked'[p] = Analog /\ lost[p] \subseteq lost'[p]
    <3>1. AskedOK
      BY DEF PinsAre
    <3>2. (\A q \in ps : asked'[q] = Analog) /\ (\A q \in ps : ~FALSE => lost[q] \subseteq lost'[q])
      BY <1>7, <1>8, <3>1, RequestKeeps
    <3> QED BY <1>8, <3>2
  <2>2. CASE "adc" \in lost[p]
    BY <1>7, <2>1, <2>2 DEF Claim
  <2>3. CASE "adc" \notin lost[p]
    <3>1. v.fn = "null"
      <4>1. CASE p \in adcPins
        <5>1. "adc" \in HasOrLost[p]
          BY <4>1 DEF PinsAre, Known
        <5>2. ActsAs(p, Analog)
          BY <1>7, <2>3, <5>1, StillHas
        <5>3. pad[p].fn = "null"
          BY <5>2, ActsTableHolds DEF ActsTable
        <5> QED BY <1>4, <4>1, <5>3
      <4>2. CASE p \notin adcPins
        BY <1>2, <4>2
      <4> QED BY <4>1, <4>2
    <3>2. ActsTable'
      BY ActsTableHolds, PTL
    <3>3. ActsAs(p, Analog)'
      BY <1>5, <3>1, <3>2 DEF ActsTable
    <3> QED BY <2>1, <3>3 DEF Claim
  <2> QED BY <2>2, <2>3
<1>10. \A q \in ps : q = p
  BY DEF ps
<1>11. \A q \in Gpios : q \in adcPins' => q \in adcPins \/ (q \in ps /\ Analog.by = "adc")
  BY <1>1, <1>7, <1>8
<1>12. \A q \in ps : Claim(q)'
  BY <1>9, <1>10
<1> QED BY <1>1, <1>5, <1>6, <1>7, <1>8, <1>11, <1>12, DriverKeeps

\* Nothing that the invariant speaks of changes.
LEMMA PinsStay ==
  ASSUME PinsAre, UNCHANGED <<pad, slice, gpioInit, busReady, adcPins, waits, asked, lost, disturbed>>
  PROVE  PinsAre'
<1>1. HardwareOK' /\ FlagsOK' /\ WaitsOK' /\ AskedOK'
  BY DEF PinsAre, HardwareOK, FlagsOK, WaitsOK, AskedOK
<1>2. Known'
  BY DEF PinsAre, Known, HasOrLost
<1>3. \A p \in Gpios : Claim(p)'
  <2> TAKE p \in Gpios
  <2>1. Claim(p)
    BY DEF PinsAre, ClaimHolds, Claim
  <2> QED BY <2>1, ClaimStays DEF PinsAre
<1>4. ClaimHolds'
  BY <1>3 DEF ClaimHolds, Claim
<1> QED BY <1>1, <1>2, <1>4 DEF PinsAre

-----------------------------------------------------------------------------
(* The drivers: theorem *)

LEMMA PinsStart ==
  ASSUME PinsInit
  PROVE  PinsAre
<1>1. /\ pad = [p \in Gpios |-> [fn |-> "null", oe |-> FALSE, out |-> FALSE]]
      /\ slice = [s \in Slices |-> [on |-> FALSE, div |-> 16, cc |-> [c \in 0 .. 1 |-> 0]]]
      /\ gpioInit = {} /\ busReady = {} /\ adcPins = {} /\ waits = <<>>
      /\ asked = [p \in Gpios |-> Unasked] /\ lost = [p \in Gpios |-> {}] /\ disturbed = {}
  BY DEF PinsInit
<1>2. HardwareOK
  <2>1. 16 \in Dividers /\ 0 \in Levels
    BY DEF Dividers, Levels
  <2>2. [on |-> FALSE, div |-> 16, cc |-> [c \in 0 .. 1 |-> 0]] \in SliceT
    BY <2>1 DEF SliceT
  <2>3. [fn |-> "null", oe |-> FALSE, out |-> FALSE] \in PadT
    BY DEF PadT
  <2> QED BY <1>1, <2>2, <2>3 DEF HardwareOK
<1>3. WaitsOK
  <2>1. <<>> \in Seq(Gpios) /\ Len(<< >>) = 0
    BY EmptySeq
  <2> QED BY <1>1, <2>1, PinsAssumption DEF WaitsOK
<1>4. FlagsOK /\ AskedOK /\ Known
  BY <1>1 DEF FlagsOK, AskedOK, Requests, Known
<1>5. ClaimHolds
  BY <1>1, ActsTableHolds DEF ClaimHolds, ActsTable
<1> QED BY <1>2, <1>3, <1>4, <1>5 DEF PinsAre

\* However the commands of five drivers and the waits of nested latches are mixed, every
\* pin does what the last command that named it asked for, within four limits: its driver
\* has lost it to another since it set it up; the other pin of its pwm slice was set since;
\* no divider has the frequency asked for, and it is clamped to the nearest
\* (pwm_ctrl.c:18-19); or the duty is 100 %, of which the level is 0 (:39).  Dividers and
\* compare levels stay in their registers' range.
THEOREM PinsDoAsAsked == PinsSpec => []PinsInv
<1>1. PinsInit => PinsAre
  BY PinsStart
<1>2. PinsAre /\ [PinsNext]_pinVars => PinsAre'
  <2> SUFFICES ASSUME PinsAre, [PinsNext]_pinVars PROVE PinsAre'
    OBVIOUS
  <2>1. CASE LatchEnds
    BY <2>1, LatchEndsKeeps
  <2>2. ASSUME NEW p \in Gpios, Gpio(p) PROVE PinsAre'
    BY <2>2, GpioHolds
  <2>3. ASSUME NEW p \in Gpios, Pwm(p) PROVE PinsAre'
    BY <2>3, PwmOffKeeps, PwmSetKeeps DEF Pwm
  <2>4. ASSUME NEW p \in Gpios, Adc(p) PROVE PinsAre'
    BY <2>4, AdcKeeps
  <2>5. ASSUME NEW p \in Gpios, MakeInput(p) PROVE PinsAre'
    BY <2>5, MakeInputKeeps
  <2>6. CASE I2c
    BY <2>6, I2cKeeps DEF I2c
  <2>7. CASE TempRead
    BY <2>7, PinsStay DEF TempRead, history
  <2>8. CASE UNCHANGED pinVars
    BY <2>8, PinsStay DEF pinVars, hardware, flags, history
  <2> QED BY <2>1, <2>2, <2>3, <2>4, <2>5, <2>6, <2>7, <2>8 DEF PinsNext, PinCommand
<1>3. PinsAre => PinsInv
  <2> SUFFICES ASSUME PinsAre PROVE PinsTypeOK
    BY DEF PinsInv, PinsAre
  <2>1. \A p \in Gpios : pad[p].fn \in {"null", "sio", "pwm", "i2c"}
    BY DEF PinsAre, HardwareOK, PadT
  <2>2. \A s \in Slices : slice[s].div \in Dividers /\ \A c \in 0 .. 1 : slice[s].cc[c] \in Levels
    BY DEF PinsAre, HardwareOK, SliceT
  <2> QED BY <2>1, <2>2 DEF PinsTypeOK, PinsAre, FlagsOK, WaitsOK
<1> QED BY <1>1, <1>2, <1>3, PTL DEF PinsSpec
=============================================================================
