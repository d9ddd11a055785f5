----------------------------- MODULE InsightStore -----------------------------
(***************************************************************************)
(* insights.json, the memory of the self-training loop: what completed     *)
(* audits taught, and how far each insight has come.  The file is read and *)
(* rewritten as a whole; these are its operations, each one read with the  *)
(* write that follows it.  Within the bounds the file never reaches the 50 *)
(* insights at which the oldest are dropped.                               *)
(***************************************************************************)
EXTENDS Naturals

CONSTANTS
  Signals,   \* signal_state_type of the audits that are mined for insights
  Rounds,    \* bound: how many insights one signal may ever give
  MaxTasks   \* bound: how many tasks are ever created

ASSUME InsightAssumption == Rounds \in Nat /\ MaxTasks \in Nat /\ Rounds > 0

VARIABLES
  insights,  \* the file: the record of every insight, or Unknown
  made       \* how many insights each signal has given

TaskIds == 1..MaxTasks
NoTask == 0
InsightIds == Signals \X (1..Rounds)   \* uuid4: the n-th insight of a signal

Active == {"PENDING", "PATCH_QUEUED"}
Settled == {"VALIDATED", "PARTIAL", "FAILED"}

\* source_task_id, patch_task_id and whether validated_at or partial_at is set
Insight == [status : Active \cup Settled \cup {"unknown"},
            source : TaskIds \cup {NoTask}, patch : TaskIds \cup {NoTask},
            stamped : BOOLEAN]
Unknown == [status |-> "unknown", source |-> NoTask, patch |-> NoTask, stamped |-> FALSE]
EmptyFile == [i \in InsightIds |-> Unknown]

InsightTypeOK ==
  /\ insights \in [InsightIds -> Insight]
  /\ made \in [Signals -> 0..Rounds]

InsightInit ==
  /\ insights = EmptyFile
  /\ made = [s \in Signals |-> 0]

WithStatus(st) == {i \in InsightIds : insights[i].status = st}

\* Mutant: a signal is busy only while its insight waits for a patch task.
BusyWhilePending == {s \in Signals : \E n \in 1..Rounds :
                                       insights[<<s, n>>].status = "PENDING"}
\* the signals extract_insights_from_completed_tasks passes over
ActiveSignals == {s \in Signals : \E n \in 1..Rounds :
                                    insights[<<s, n>>].status \in Active}

\* Mutant: the file is left with the new insights only.
MinedAlone(mined, source) ==
  [i \in InsightIds |->
     IF i[1] \in mined /\ i[2] = made[i[1]] + 1
     THEN [Unknown EXCEPT !.status = "PENDING", !.source = source[i[1]]]
     ELSE Unknown]
\* The file with a new insight for each mined signal; source[s] is its audit.
Mined(mined, source) ==
  [i \in InsightIds |->
     IF i[1] \in mined /\ i[2] = made[i[1]] + 1
     THEN [Unknown EXCEPT !.status = "PENDING", !.source = source[i[1]]]
     ELSE insights[i]]

\* mark_insight_patch_queued: whatever the insight's status is by then
MarkPatchQueued(i, t) ==
  insights' = [insights EXCEPT ![i] =
    IF @ = Unknown THEN @ ELSE [@ EXCEPT !.status = "PATCH_QUEUED", !.patch = t]]

\* _update_insight_state of the patch validator
\* Mutant: the decision is stored as the status.
DecisionAsStatus(i, verdict) ==
  insights' = [insights EXCEPT ![i] = [@ EXCEPT !.status = "KEEP_PATCH"]]
UpdateInsightState(i, verdict) ==
  insights' = [insights EXCEPT ![i] =
    IF @ = Unknown THEN @
    ELSE [@ EXCEPT !.status = verdict, !.stamped = insights[i].stamped \/ verdict # "FAILED"]]
=============================================================================
