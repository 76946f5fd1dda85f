------------------------------- MODULE MCPins -------------------------------
(* Two pins that share a slice and an I2C bus, and one the converter can read. *)
EXTENDS Pins
=============================================================================
