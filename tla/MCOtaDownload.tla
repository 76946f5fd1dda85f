--------------------------- MODULE MCOtaDownload ---------------------------
(* Two-byte pages, one page a sector, two or three sectors a slot. *)
EXTENDS OtaDownload

CONSTANTS b, c

Bytes     == {b, c, FF}
AllChunks == UNION {[1 .. n -> Bytes] : n \in 1 .. 3}
Erased    == [i \in Offsets |-> FF]
OldImage  == [i \in Offsets |-> b]
MCOld     == {Erased, OldImage}
=============================================================================
