------------------------------ MODULE MCStorage ------------------------------
(* Three names compete for two slots; bodies of zero to two lines, one of them *)
(* a line too long.                                                            *)
EXTENDS Storage
MCBodies == {<<>>, <<1>>, <<2, 1>>}
=============================================================================
