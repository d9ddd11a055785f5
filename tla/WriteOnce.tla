------------------------------ MODULE WriteOnce ------------------------------
(***************************************************************************)
(* What a published bundle path promises: it takes one value, and never    *)
(* another.  Until some caller has been told that it created the value a   *)
(* power loss may take it back; afterwards nothing may.                    *)
(***************************************************************************)
CONSTANTS Values, None

VARIABLES value, acknowledged

vars == <<value, acknowledged>>

Init ==
  /\ value \in Values \cup {None}
  /\ acknowledged = FALSE

Publish ==
  /\ value = None
  /\ value' \in Values
  /\ UNCHANGED acknowledged

Acknowledge ==
  /\ value # None
  /\ acknowledged' = TRUE
  /\ UNCHANGED value

Lose ==
  /\ ~acknowledged
  /\ value' = None
  /\ UNCHANGED acknowledged

Next == Publish \/ Acknowledge \/ Lose

Spec == Init /\ [][Next]_vars
=============================================================================
