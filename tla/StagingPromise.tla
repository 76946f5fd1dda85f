--------------------------- MODULE StagingPromise ---------------------------
(***************************************************************************)
(* What ota.h promises about the staging slot: bytes are accepted in       *)
(* order, and an image that is announced is exactly what was accepted.     *)
(***************************************************************************)
EXTENDS Naturals, Sequences

CONSTANTS Byte, Capacity

VARIABLES phase, accepted, image

vars == <<phase, accepted, image>>

Init == phase = "empty" /\ accepted = <<>> /\ image = <<>>

Start ==
  /\ phase # "receiving"
  /\ phase' = "receiving"
  /\ accepted' = <<>>
  /\ image' = <<>>

Accept ==
  /\ phase = "receiving"
  /\ accepted' \in Seq(Byte)
  /\ Len(accepted') \in Len(accepted) + 1 .. Capacity
  /\ SubSeq(accepted', 1, Len(accepted)) = accepted
  /\ UNCHANGED <<phase, image>>

Announce ==
  /\ phase = "receiving"
  /\ phase' = "ready"
  /\ image' = accepted
  /\ accepted' = <<>>

Drop ==
  /\ phase' = "empty"
  /\ accepted' = <<>>
  /\ image' = <<>>

Next == Start \/ Accept \/ Announce \/ Drop

Spec == Init /\ [][Next]_vars
=============================================================================
