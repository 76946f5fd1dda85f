------------------------------ MODULE VarPromise ------------------------------
(***************************************************************************)
(* What the shell variables promise (src/system/vars.h): a map from names  *)
(* to values, of at most Count names.  An assignment gives one name one    *)
(* value and "returns false only when we're out of slots OR name/value is  *)
(* out of range"; a removal forgets the names it is given.                 *)
(***************************************************************************)
EXTENDS FiniteSets, Naturals

CONSTANTS Count, IsName(_), IsValue(_)

VARIABLES
  held,    \* a function: the value of every name that is set
  asked    \* what the handler under way asks for; the shell decides, not the map

Accepts(n, v) ==
  IsName(n) /\ IsValue(v) /\ (n \in DOMAIN held \/ Cardinality(DOMAIN held) < Count)

Answer ==
  CASE asked.does = "assign" /\ Accepts(asked.name, asked.value) ->
         [x \in DOMAIN held \cup {asked.name} |-> IF x = asked.name THEN asked.value ELSE held[x]]
    [] asked.does = "forget" -> [x \in DOMAIN held \ asked.names |-> held[x]]
    [] OTHER -> held

Init == DOMAIN held = {}
Next == held' = Answer
Spec == Init /\ [][Next]_<<held, asked>>
=============================================================================
