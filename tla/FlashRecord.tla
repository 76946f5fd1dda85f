----------------------------- MODULE FlashRecord -----------------------------
(***************************************************************************)
(* One checked record in a flash sector of its own, the way                *)
(* src/storage/config.c keeps the Wi-Fi credentials and                    *)
(* src/system/bindings.c its table: a save erases the sector and programs  *)
(* the record with its CRC-32, a load believes nothing but a matching CRC. *)
(* Each flash operation is a step; power may fail during either.           *)
(***************************************************************************)
CONSTANTS
  Values,   \* the records that are saved
  Blank,    \* a sector without the magic
  Torn,     \* a sector whose CRC does not match
  Nothing   \* what a load finds in either

VARIABLES
  sector,   \* Blank, Torn or the record programmed
  op        \* the save or clear that is under way

Idle == [does |-> "nothing"]
Saving(v, at) == [does |-> "save", value |-> v, at |-> at]
Clearing == [does |-> "clear", at |-> "erase"]
Ops == {Idle, Clearing} \cup {Saving(v, at) : v \in Values, at \in {"erase", "program"}}

\* slip: the record is believed on its magic alone
MagicOnly == IF sector = Blank THEN Nothing ELSE IF sector = Torn THEN Torn ELSE sector

\* config_load_wifi, the checks of bindings_load
Load == IF sector \in Values THEN sector ELSE Nothing

Save(v) == op = Idle /\ op' = Saving(v, "erase") /\ UNCHANGED sector

Clear == op = Idle /\ op' = Clearing /\ UNCHANGED sector

EraseSector ==
  /\ op # Idle /\ op.at = "erase"
  /\ sector' = Blank
  /\ op' = IF op.does = "save" THEN Saving(op.value, "program") ELSE Idle

ProgramRecord ==
  /\ op.does = "save" /\ op.at = "program"
  /\ sector' = op.value
  /\ op' = Idle

\* flash_safe_execute refuses (the other core could not be parked): the call
\* returns false with the flash as the steps before left it.
FlashRefuses == op # Idle /\ op' = Idle /\ UNCHANGED sector

\* Power fails: what was being written may be old, torn, blank or new.
RecordCut ==
  /\ op' = Idle
  /\ sector' \in IF op = Idle THEN {sector}
                 ELSE IF op.at = "erase" THEN {sector, Torn, Blank}
                 ELSE {Blank, Torn, op.value}

RecordInit == sector = Blank /\ op = Idle
RecordStep == EraseSector \/ ProgramRecord \/ FlashRefuses
=============================================================================
