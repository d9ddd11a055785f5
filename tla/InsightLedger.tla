----------------------------- MODULE InsightLedger -----------------------------
(***************************************************************************)
(* What the insight store promises of each insight, whatever is written    *)
(* when: it is extracted once, while no other insight of its signal is     *)
(* active; it goes from PENDING to PATCH_QUEUED to one verdict, and never  *)
(* back; and it is lost only by a mishap.                                  *)
(***************************************************************************)
EXTENDS Naturals

CONSTANTS Signals, Rounds

VARIABLES
  status,   \* how far each insight has come
  mishaps   \* how often a process has died or an operation has raised

vars == <<status, mishaps>>

Insights == Signals \X (1..Rounds)
Busy == {"PENDING", "PATCH_QUEUED"}
Verdicts == {"VALIDATED", "PARTIAL", "FAILED"}

Init ==
  /\ status = [i \in Insights |-> "absent"]
  /\ mishaps = 0

Extract(new) ==
  /\ \A i \in new : /\ status[i] = "absent"
                    /\ \A j \in Insights : j[1] = i[1] =>
                         status[j] \notin Busy /\ (j \in new => j = i)
  /\ status' = [i \in Insights |-> IF i \in new THEN "PENDING" ELSE status[i]]
  /\ UNCHANGED mishaps

Queue(i) ==
  /\ status[i] = "PENDING"
  /\ status' = [status EXCEPT ![i] = "PATCH_QUEUED"]
  /\ UNCHANGED mishaps

Judge(i) ==
  /\ status[i] = "PATCH_QUEUED"
  /\ \E verdict \in Verdicts : status' = [status EXCEPT ![i] = verdict]
  /\ UNCHANGED mishaps

Mishap(lost) ==
  /\ mishaps' = mishaps + 1
  /\ status' = [i \in Insights |-> IF i \in lost THEN "lost" ELSE status[i]]

Next == \/ \E new \in SUBSET Insights : Extract(new)
        \/ \E i \in Insights : Queue(i) \/ Judge(i)
        \/ \E lost \in SUBSET Insights : Mishap(lost)

Spec == Init /\ [][Next]_vars
=============================================================================
