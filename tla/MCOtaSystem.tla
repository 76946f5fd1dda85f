---------------------------- MODULE MCOtaSystem ----------------------------
(* One-byte pages, one page a sector, two or three sectors a slot, which the images fill. *)
EXTENDS OtaSystem, TLC

CONSTANTS good0, good1, bad1

MCFiles  == {good0, good1, bad1}
MCLink   == good0 :> 0 @@ good1 :> 1 @@ bad1 :> 1
MCLength == [f \in MCFiles |-> SlotSize]
MCByte   == MCFiles \X (1 .. SlotSize)
=============================================================================
