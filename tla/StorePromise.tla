---------------------------- MODULE StorePromise ----------------------------
(***************************************************************************)
(* What the script store promises its callers (src/storage/scripts.h): a   *)
(* map from names to bodies.  A save or a removal touches its own name     *)
(* only; it takes effect, or, when the flash or the power fails it, the    *)
(* script of that name may be lost.  No body is ever returned that was not *)
(* saved under that name.                                                  *)
(***************************************************************************)
CONSTANTS Names, Bodies, Absent

VARIABLES
  held,     \* the body each name has, or Absent
  asked     \* the name and the body (Absent to remove) of the call under way

NoCall == <<>>
Calls == {NoCall} \cup (Names \X (Bodies \cup {Absent}))

Init == held = [n \in Names |-> Absent] /\ asked = NoCall

Ask == asked = NoCall /\ asked' \in Calls \ {NoCall} /\ UNCHANGED held

\* The script as it was is gone, the new one is not there yet.
Lose == asked # NoCall /\ held' = [held EXCEPT ![asked[1]] = Absent] /\ asked' = asked

Answer ==
  /\ asked # NoCall /\ asked' = NoCall
  /\ \E v \in {held[asked[1]], Absent, asked[2]} : held' = [held EXCEPT ![asked[1]] = v]

Next == Ask \/ Lose \/ Answer

Spec == Init /\ [][Next]_<<held, asked>>
=============================================================================
