--------------------------- MODULE MCOrchestrator ---------------------------
(***************************************************************************)
(* Orchestrator for TLC: the callers of the ticks are model values.  One   *)
(* tick of the clock is half an hour, so with ZombieAge = 2 and            *)
(* CallTimeout = 1 two provider calls in a row reach the zombie age and    *)
(* one does not, as in the code (5 h and 2 h 30 min against 3 h for the    *)
(* default expected duration).                                             *)
(***************************************************************************)
EXTENDS Orchestrator

CONSTANTS w1, l1, p1, p2
=============================================================================
