--------------------------- MODULE OtaBootloader ---------------------------
(***************************************************************************)
(* picow-ota/bootloader/main.c, and what it shares with the application:   *)
(* the metadata sector and the way both rewrite it, an erase followed by a *)
(* program with nothing but a loss of power in between.                    *)
(*                                                                         *)
(* A record holds the three fields the bootloader reads.  An image is one  *)
(* of Files; it runs if it is whole, in the slot it was linked for, and    *)
(* Healthy.  Any other content hangs when it is jumped to.                 *)
(***************************************************************************)
EXTENDS OtaFlash

CONSTANTS
  MaxAttempts,  \* OTA_MAX_BOOT_ATTEMPTS
  Files,        \* the images that can be served
  Link,         \* Link[f]: the slot f was linked for
  Length,       \* Length[f]: its size in bytes
  Healthy,      \* the images that live long enough to be confirmed
  NoMeta,       \* metadata sector that is erased or fails its CRC
  NoSlot        \* no application is executing

(* What the bootloader reads of ota_metadata_t. *)
Record == [active : Slots, pending : BOOLEAN, attempts : 0 .. MaxAttempts]

ASSUME BootAssumption ==
  /\ MaxAttempts \in Nat \ {0}
  /\ Link \in [Files -> Slots]
  /\ Length \in [Files -> PageSize + 1 .. SlotSize]
  /\ Healthy \subseteq Files
  /\ NoMeta \notin Record
  /\ NoSlot \notin Slots

VARIABLES
  meta,   \* the metadata sector
  m,      \* ota_metadata_t in RAM: what was read, or is to be written
  pc,     \* where the processor is
  after,  \* where it goes when m has been written
  exec,   \* the slot whose code is executing, or NoSlot
  trial   \* history: boots of each slot's content since it was replaced,
          \* or Confirmed

bootVars == <<meta, m, pc, after, exec, trial>>

Confirmed == -1
Unset == [active |-> 0, pending |-> FALSE, attempts |-> 0]

Fresh(slot)  == [active |-> slot, pending |-> FALSE, attempts |-> 0]
NotFlipped(rec) == Fresh(rec.active)  \* slip: the same slot again
Flipped(rec) == Fresh(Other(rec.active))

-----------------------------------------------------------------------------
(* The bytes of an image: its i-th byte tells it from every other. *)
Image(f) == [i \in 1 .. Length[f] |-> <<f, i>>]

(* slot_looks_valid, and the same checks in jump_to_slot: they read the     *)
(* vectors in the second page, which every image fills with plausible ones. *)
LooksValid(s) == flash[s][PageSize] # FF

Runs(s) == \E f \in Healthy : Holds(flash[s], Image(f)) /\ Link[f] = s

(* The entry point in the vectors of slot s is an address in the other one. *)
Mislinked(s) ==
  \E f \in Files : flash[s][PageSize] = <<f, PageSize + 1>> /\ Link[f] # s

-----------------------------------------------------------------------------
(* write_metadata. *)

StartWrite(rec, then) ==
  /\ m' = rec
  /\ pc' = "erase"
  /\ after' = then

MetaErase ==
  /\ pc = "erase"
  /\ meta' = NoMeta
  /\ pc' = "program"
  /\ UNCHANGED <<flash, m, after, exec, trial>>

(* A confirmation takes effect here, for the code that asked for it. *)
MetaProgram ==
  /\ pc = "program"
  /\ meta' = m
  /\ pc' = after
  /\ trial' = IF after \in {"confirmed", "told"}
                THEN [trial EXCEPT ![exec] = Confirmed] ELSE trial
  /\ UNCHANGED <<flash, m, after, exec>>

-----------------------------------------------------------------------------
(* main: what the record says. *)

BootFresh ==
  /\ pc = "reset"
  /\ meta = NoMeta
  /\ LooksValid(0)
  /\ StartWrite(Fresh(0), "jump")
  /\ UNCHANGED <<flash, meta, exec, trial>>

BootNothing ==
  /\ pc = "reset"
  /\ meta = NoMeta
  /\ ~LooksValid(0)
  /\ pc' = "bootsel"
  /\ UNCHANGED <<flash, meta, m, after, exec, trial>>

(* slip: one attempt too many *)
ExhaustedLate == meta.pending /\ meta.attempts > MaxAttempts

Exhausted == meta.pending /\ meta.attempts >= MaxAttempts

Rollback ==
  /\ pc = "reset"
  /\ meta # NoMeta
  /\ Exhausted
  /\ StartWrite(Flipped(meta), "reboot")
  /\ UNCHANGED <<flash, meta, exec, trial>>

(* slip: the attempt is not counted *)
AttemptForgotten ==
  /\ pc = "reset"
  /\ meta # NoMeta
  /\ meta.pending /\ ~Exhausted
  /\ StartWrite(meta, "select")
  /\ UNCHANGED <<flash, meta, exec, trial>>

CountAttempt ==
  /\ pc = "reset"
  /\ meta # NoMeta
  /\ meta.pending /\ ~Exhausted
  /\ StartWrite([meta EXCEPT !.attempts = @ + 1], "select")
  /\ UNCHANGED <<flash, meta, exec, trial>>

BootSettled ==
  /\ pc = "reset"
  /\ meta # NoMeta
  /\ ~meta.pending
  /\ m' = meta
  /\ pc' = "select"
  /\ UNCHANGED <<flash, meta, after, exec, trial>>

-----------------------------------------------------------------------------
(* main: whether the slot can be jumped to. *)

(* jump_to_slot.  An image linked for the other slot has its entry point    *)
(* there: whatever that slot holds is executed from then on.                *)
Jump(s) ==
  /\ LooksValid(s)
  /\ \/ /\ Runs(s)
        /\ pc' = "start"
        /\ exec' = s
     \/ /\ Mislinked(s) /\ Runs(Other(s))
        /\ pc' = "start"
        /\ exec' = Other(s)
     \/ /\ ~Runs(s)
        /\ pc' = "hung"
        /\ UNCHANGED exec
  /\ trial' = [trial EXCEPT ![s] =
                 IF @ \in {Confirmed, MaxAttempts + 1} THEN @ ELSE @ + 1]
  /\ UNCHANGED <<flash, meta, m, after>>

JumpActive == pc = "select" /\ Jump(m.active)

FallBack ==
  /\ pc = "select"
  /\ ~LooksValid(m.active)
  /\ LooksValid(Other(m.active))
  /\ StartWrite(Flipped(m), "jump")
  /\ UNCHANGED <<flash, meta, exec, trial>>

(* slip: the other slot is not tried *)
SelectActiveOnly ==
  /\ pc = "select"
  /\ ~LooksValid(m.active)
  /\ pc' = "bootsel"
  /\ UNCHANGED <<flash, meta, m, after, exec, trial>>

SelectNothing ==
  /\ pc = "select"
  /\ \A s \in Slots : ~LooksValid(s)
  /\ pc' = "bootsel"
  /\ UNCHANGED <<flash, meta, m, after, exec, trial>>

JumpWritten == pc = "jump" /\ Jump(m.active)

Bootloader ==
  \/ BootFresh \/ BootNothing \/ Rollback \/ CountAttempt \/ BootSettled
  \/ JumpActive \/ FallBack \/ SelectNothing \/ JumpWritten
=============================================================================
