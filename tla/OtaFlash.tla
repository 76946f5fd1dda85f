------------------------------ MODULE OtaFlash ------------------------------
(***************************************************************************)
(* The two application slots of the flash (pico_ota/metadata.h) and the    *)
(* two primitives ota.c has for changing them: erasing a sector and        *)
(* programming a page.  A byte is a member of the set Byte; an erased      *)
(* cell reads FF, and FF may also be a byte of an image.  Programming can  *)
(* only clear bits, so writing a different byte over a cell that was not   *)
(* erased leaves neither of the two: Smear stands for that value.          *)
(***************************************************************************)
EXTENDS Integers, Sequences

CONSTANTS
  PageSize,     \* bytes in a flash page (256)
  SectorPages,  \* pages in a sector (16)
  SlotSectors,  \* sectors in a slot (192)
  Byte,         \* what a byte of an image can be
  FF,           \* what an erased cell reads
  Smear         \* a cell programmed twice with different bytes

ASSUME LayoutAssumption ==
  /\ PageSize \in Nat \ {0}
  /\ SectorPages \in Nat \ {0}
  /\ SlotSectors \in Nat \ {0}
  /\ Smear \notin Byte \cup {FF}

VARIABLE flash  \* flash[s][i]: the cell at offset i of slot s

Slots      == {0, 1}                     \* A and B
Other(s)   == 1 - s
SectorSize == SectorPages * PageSize
SlotSize   == SlotSectors * SectorSize
Offsets    == 0 .. SlotSize - 1
Cell       == Byte \cup {FF, Smear}

(* One cell after `new` is programmed over `old`. *)
Burn(old, new) ==
  IF old = FF THEN new ELSE IF new \in {FF, old} THEN old ELSE Smear

(* slip: the loop over the sectors stops one short *)
EraseOneShort(slot, k) ==
  [i \in Offsets |-> IF i < (k - 1) * SectorSize THEN FF ELSE slot[i]]

(* A slot whose first k sectors have been erased. *)
EraseSectors(slot, k) ==
  [i \in Offsets |-> IF i < k * SectorSize THEN FF ELSE slot[i]]

(* A slot after the bytes of `data` were programmed from offset `off` on.   *)
(* The 0xFF that pads the last page changes no cell, so it is not part of   *)
(* data.                                                                    *)
Program(slot, off, data) ==
  [i \in Offsets |-> IF i \in off .. off + Len(data) - 1
                       THEN Burn(slot[i], data[i - off + 1])
                       ELSE slot[i]]

(* The slot holds `stream` from its first byte on, and nothing after it. *)
Holds(slot, stream) ==
  /\ Len(stream) <= SlotSize
  /\ \A i \in Offsets :
       slot[i] = IF i < Len(stream) THEN stream[i + 1] ELSE FF
=============================================================================
