---------------------------- MODULE ClosingMonitor ----------------------------
(***************************************************************************)
(* The closing odds monitor and the evidence counted from what it writes.  *)
(* A prediction waits in the 6U file of its date for closing odds; a run   *)
(* of the monitor appends a COMPUTED copy of every prediction whose odds   *)
(* it finds to the upgraded file of that date and leaves the 6U file as it *)
(* is.  The accumulation policy counts the COMPUTED lines of the newest    *)
(* file and compares the count with the threshold of the patch gate.       *)
(***************************************************************************)
EXTENDS Naturals, FiniteSets, Functions

CONSTANTS
  Predictions, \* the PENDING_CLOSING rows of the newest date's 6U file
  Monitors,    \* scheduler loop, manual trigger, closing_monitor task
  Approaching, \* EVIDENCE_THRESHOLD_APPROACHING, 30
  Sufficient,  \* EVIDENCE_THRESHOLD_SUFFICIENT, 50
  MaxRuns      \* bound: how often the monitor runs

VARIABLES
  odds,      \* the newest odds row of each prediction's game in the timeline
  written,   \* how many COMPUTED lines each prediction has in the upgraded file
  found,     \* the upgrades each monitor has found and not yet appended
  mpc,       \* the step each monitor is at
  runs

vars == <<odds, written, found, mpc, runs>>

\* the row has no closing odds, some captured too early, or usable ones
Odds == {"none", "too early", "closing"}

TypeOK ==
  /\ odds \in [Predictions -> Odds]
  /\ written \in [Predictions -> 0..MaxRuns]
  /\ found \in [Monitors -> SUBSET Predictions]
  /\ mpc \in [Monitors -> {"idle", "append"}]
  /\ runs \in 0..MaxRuns

Init ==
  /\ odds = [r \in Predictions |-> "none"]
  /\ written = [r \in Predictions |-> 0]
  /\ found = [m \in Monitors |-> {}]
  /\ mpc = [m \in Monitors |-> "idle"]
  /\ runs = 0

\* a later row of a game takes the place of the earlier ones, better or not; a
\* row without closing odds is not indexed
OddsArrive ==
  /\ \E r \in Predictions, o \in Odds \ {"none"} : odds' = [odds EXCEPT ![r] = o]
  /\ UNCHANGED <<written, found, mpc, runs>>

\* _find_closing_odds_for_pending, _validate_closing_odds
Upgradeable == {r \in Predictions : odds[r] = "closing"}

Scan(m) ==
  /\ mpc[m] = "idle" /\ runs < MaxRuns
  /\ runs' = runs + 1
  /\ found' = [found EXCEPT ![m] = Upgradeable]
  /\ mpc' = [mpc EXCEPT ![m] = IF Upgradeable = {} THEN "idle" ELSE "append"]
  /\ UNCHANGED <<odds, written>>

Append(m) ==
  /\ mpc[m] = "append"
  /\ written' = [r \in Predictions |-> written[r] + IF r \in found[m] THEN 1 ELSE 0]
  /\ found' = [found EXCEPT ![m] = {}]
  /\ mpc' = [mpc EXCEPT ![m] = "idle"]
  /\ UNCHANGED <<odds, runs>>

Next == OddsArrive \/ \E m \in Monitors : Scan(m) \/ Append(m)

Spec == Init /\ [][Next]_vars

\* get_clv_accumulation_summary counts lines
ComputedCount == FoldFunction(LAMBDA a, b : a + b, 0, written)

\* _determine_evidence_state
EvidenceState == IF ComputedCount >= Sufficient THEN "SUFFICIENT"
                 ELSE IF ComputedCount >= Approaching THEN "APPROACHING"
                 ELSE "INSUFFICIENT"

\* A sample of fewer predictions than the threshold is never sufficient.
SmallSampleInsufficient ==
  EvidenceState = "SUFFICIENT" =>
    Cardinality({r \in Predictions : written[r] > 0}) >= Sufficient
=============================================================================
