------------------------------ MODULE MCNetwork ------------------------------
(* Two shells and the timer, two sets of credentials, a restart. *)
EXTENDS Network
=============================================================================
