---------------------------- MODULE TaskLifecycle ----------------------------
(***************************************************************************)
(* What the orchestrator promises of one task, whoever runs it: it is      *)
(* submitted, taken out of the queue, worked on, and settles on one        *)
(* outcome.  It never returns to the queue, and an outcome that nobody is  *)
(* about to overwrite is final.  Tasks are independent: one step may move  *)
(* several of them (a crash lets go of every row its process held).        *)
(***************************************************************************)
CONSTANTS Tasks, Outcomes

VARIABLES phase, outcome

vars == <<phase, outcome>>

NoOutcome == "none"

Init ==
  /\ phase = [t \in Tasks |-> "new"]
  /\ outcome = [t \in Tasks |-> NoOutcome]

\* the legal moves of one task, as pairs of its phase and outcome
Submit(t) == phase[t] = "new" /\ phase'[t] = "queued" /\ outcome'[t] = NoOutcome
Start(t)  == phase[t] = "queued" /\ phase'[t] = "live" /\ outcome'[t] = NoOutcome
Settle(t) == phase[t] = "live" /\ phase'[t] = "settled" /\ outcome'[t] \in Outcomes
Rest(t)   == phase'[t] = phase[t] /\ outcome'[t] = outcome[t]

Next ==
  /\ phase' \in [Tasks -> {"new", "queued", "live", "settled"}]
  /\ outcome' \in [Tasks -> Outcomes \cup {NoOutcome}]
  /\ \A t \in Tasks : Submit(t) \/ Start(t) \/ Settle(t) \/ Rest(t)

Spec == Init /\ [][Next]_vars
=============================================================================
