------------------------------ MODULE MCBleNus ------------------------------
(* A buffer of three bytes, notifications of one or two, three peers. *)
EXTENDS BleNus
MCPayloads == {1, 2}
MCWrites == {1, 2, 4}
=============================================================================
