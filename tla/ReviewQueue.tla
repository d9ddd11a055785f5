------------------------------ MODULE ReviewQueue ------------------------------
(***************************************************************************)
(* The human review queue and the evaluations that feed it.  A sandbox     *)
(* evaluation is gated once, by the planner; an uncertain one is queued    *)
(* for an operator.  The queue is one JSON file that the planner and the   *)
(* operator's command line each load, change and write back as a whole,    *)
(* without a lock.  Within the bounds it never reaches the 200 entries at  *)
(* which the oldest are dropped.                                           *)
(***************************************************************************)
EXTENDS Naturals

CONSTANT MaxEvals   \* bound: how many sandbox evaluations are recorded

ASSUME ReviewAssumption == MaxEvals \in Nat

VARIABLES
  queue,      \* the file: the status of the review of each evaluation
  evaluated,  \* the latest patch evaluation in the training memory, or 0
  gated,      \* the evaluation of the latest Phase 23 decision, or 0
  opCopy,     \* the queue the operator's command has loaded
  opReview    \* the review it is about to decide, or 0

reviewVars == <<queue, evaluated, gated, opCopy, opReview>>

Evals == 1..MaxEvals
\* APPROVED, REJECTED and MORE_DATA_REQUESTED are one: none has an effect
ReviewStatus == {"absent", "PENDING", "DECIDED"}

ReviewTypeOK ==
  /\ queue \in [Evals -> ReviewStatus] /\ opCopy \in [Evals -> ReviewStatus]
  /\ evaluated \in 0..MaxEvals /\ gated \in 0..MaxEvals /\ opReview \in 0..MaxEvals

NoEntries == [e \in Evals |-> "absent"]

ReviewInit ==
  /\ queue = NoEntries /\ opCopy = NoEntries
  /\ evaluated = 0 /\ gated = 0 /\ opReview = 0

PendingReviews == {e \in Evals : queue[e] = "PENDING"}

\* record_patch_evaluation, by the sandbox evaluation outside the loop
RecordEvaluation ==
  /\ evaluated < MaxEvals
  /\ evaluated' = evaluated + 1
  /\ UNCHANGED <<queue, gated, opCopy, opReview>>

\* scripts/review_queue.py approve, reject, more-data: the state the entry is
\* in does not matter
OperatorLoads ==
  /\ opReview = 0
  /\ \E e \in Evals : queue[e] # "absent" /\ opReview' = e
  /\ opCopy' = queue
  /\ UNCHANGED <<queue, evaluated, gated>>
OperatorSaves ==
  /\ opReview # 0
  /\ queue' = [opCopy EXCEPT ![opReview] = "DECIDED"]
  /\ opReview' = 0 /\ opCopy' = NoEntries
  /\ UNCHANGED <<evaluated, gated>>

Operator == OperatorLoads \/ OperatorSaves
=============================================================================
