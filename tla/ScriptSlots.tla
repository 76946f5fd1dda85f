----------------------------- MODULE ScriptSlots -----------------------------
(***************************************************************************)
(* The slot table of src/storage/scripts.c: one flash sector per script,   *)
(* found by scanning the headers.                                          *)
(*                                                                         *)
(* A sector is Erased (no magic), or has a header that names a script and  *)
(* a body; sound says whether its CRC-32 matches (a sector that power left *)
(* half written has the magic, any body, and no matching CRC).             *)
(***************************************************************************)
EXTENDS Integers, Sequences, FiniteSets

CONSTANTS
  Names,       \* script names
  Bodies,      \* script bodies, as sequences of lines
  SlotCount,   \* SCRIPT_SLOT_COUNT
  BodyMax,     \* SCRIPT_BODY_MAX, in lines
  Erased,      \* an erased sector
  Absent       \* no such script

ASSUME SlotAssumption ==
  /\ SlotCount \in Nat \ {0} /\ BodyMax \in Nat
  /\ Absent \notin Names   \* also the name a damaged header has
  /\ Erased \notin [name : Names \cup {Absent}, body : Bodies, sound : BOOLEAN]

Slots == 1 .. SlotCount
NoSlot == 0
Header(n, b, ok) == [name |-> n, body |-> b, sound |-> ok]

First(S) == IF S = {} THEN NoSlot ELSE CHOOSE i \in S : \A j \in S : i <= j

\* slot_valid: magic and version
Valid(slots, i) == slots[i] # Erased

FindByName(slots, n) == First({i \in Slots : Valid(slots, i) /\ slots[i].name = n})

FindFree(slots) == First({i \in Slots : ~Valid(slots, i)})

\* slip: a save looks for a free slot before it looks for the name
FreeFirst(slots, n) ==
  IF FindFree(slots) # NoSlot THEN FindFree(slots) ELSE FindByName(slots, n)

\* The slot scripts_save writes: the one that has the name, else a free one.
TargetSlot(slots, n) ==
  IF FindByName(slots, n) # NoSlot THEN FindByName(slots, n) ELSE FindFree(slots)

\* slip: the body is handed out without comparing its CRC
LoadsUnchecked(slots, n) ==
  LET i == FindByName(slots, n) IN IF i = NoSlot THEN Absent ELSE slots[i].body

\* scripts_load and scripts_open: the body, if its CRC matches.
Loaded(slots, n) ==
  LET i == FindByName(slots, n) IN
  IF i # NoSlot /\ slots[i].sound THEN slots[i].body ELSE Absent
=============================================================================
