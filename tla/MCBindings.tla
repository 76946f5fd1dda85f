----------------------------- MODULE MCBindings -----------------------------
(* Two pins compete for two slots. *)
EXTENDS Bindings
MCPins == {2, 3}
MCEdges == {"high", "change"}
MCStored == {Blank, <<[pin |-> 3, edge |-> "high"]>>}
=============================================================================
