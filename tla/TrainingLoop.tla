----------------------------- MODULE TrainingLoop -----------------------------
(***************************************************************************)
(* The self-training loop: a completed audit gives an insight, the planner *)
(* makes a patch task of it, the worker runs it, the planner validates the *)
(* result, and the strategy tick (Track D) moves the betting weights by    *)
(* what was learnt.  A pending human review keeps the planner from         *)
(* creating tasks.  One planner tick is followed step by step; ticks of    *)
(* the strategy track may overlap (a loop of a stopped scheduler still     *)
(* running beside the new one, or a manual trigger).                       *)
(*                                                                         *)
(* Files are rewritten in one step for those who read them; a process that *)
(* dies in a write leaves an unreadable file, which counts as empty.       *)
(***************************************************************************)
EXTENDS InsightStore, ReviewQueue

CONSTANTS
  Planners,    \* planner processes; the scheduler runs one at a time
  Strategists, \* strategy ticks that may overlap
  Window,      \* list_tasks(limit=30): how many of the newest tasks are mined
  MaxFaults    \* bound: how often a process dies or an operation raises

ASSUME LoopAssumption == Window \in Nat /\ MaxFaults \in Nat

VARIABLES
  task,      \* agent_tasks: what each task is about and where it stands
  last,      \* the newest task
  pc,        \* the step each planner tick is at
  draft,     \* the file a planner is about to write
  cand,      \* PENDING insights a planner has read
  judging,   \* queued insights a planner has read and not yet looked at,
             \* with their patch task
  review,    \* the evaluation a planner is to queue, with the queue it loaded
  mark,      \* the insight and the patch task a planner has yet to mark
  strategy,  \* strategy_state.json: the insights processed, and how often each
             \* one's adjustment is in the weights
  spc,       \* the step each strategy tick is at
  sread,     \* the state it loaded
  snew,      \* the new insights it found
  faults

insightVars == <<insights, made>>
plannerVars == <<pc, draft, cand, judging, review, mark>>
strategyVars == <<strategy, spc, sread, snew>>
taskVars == <<task, last>>
vars == <<insightVars, reviewVars, plannerVars, strategyVars, taskVars, faults>>

NoneYet == [kind |-> "none", topic |-> "none", status |-> "none"]
Task == [kind : {"none", "audit", "patch"}, topic : Signals \cup InsightIds \cup {"none"},
         status : {"none", "QUEUED", "COMPLETED", "FAILED"}]
NoReview == [eval |-> 0, file |-> NoEntries]
Weights == [processed : SUBSET InsightIds, applied : [InsightIds -> Nat]]
DefaultState == [processed |-> {}, applied |-> [i \in InsightIds |-> 0]]
PlannerSteps == {"idle", "save", "candidates", "validate", "gate", "enqueue", "reviews",
                 "create", "mark"}

TypeOK ==
  /\ InsightTypeOK /\ ReviewTypeOK
  /\ task \in [TaskIds -> Task] /\ last \in 0..MaxTasks
  /\ pc \in [Planners -> PlannerSteps]
  /\ draft \in [Planners -> [InsightIds -> Insight]]
  /\ cand \in [Planners -> SUBSET InsightIds]
  /\ judging \in [Planners -> SUBSET (InsightIds \X TaskIds)]
  /\ review \in [Planners -> [eval : 0..MaxEvals, file : [Evals -> ReviewStatus]]]
  /\ mark \in [Planners -> InsightIds \X TaskIds \cup {<<>>}]
  /\ strategy \in Weights
  /\ spc \in [Strategists -> {"idle", "insights", "save"}]
  /\ sread \in [Strategists -> Weights]
  /\ snew \in [Strategists -> SUBSET InsightIds]
  /\ faults \in 0..MaxFaults

Init ==
  /\ InsightInit /\ ReviewInit
  /\ task = [t \in TaskIds |-> NoneYet] /\ last = 0
  /\ pc = [p \in Planners |-> "idle"]
  /\ draft = [p \in Planners |-> EmptyFile]
  /\ cand = [p \in Planners |-> {}]
  /\ judging = [p \in Planners |-> {}]
  /\ review = [p \in Planners |-> NoReview]
  /\ mark = [p \in Planners |-> <<>>]
  /\ strategy = DefaultState
  /\ spc = [k \in Strategists |-> "idle"]
  /\ sread = [k \in Strategists |-> DefaultState]
  /\ snew = [k \in Strategists |-> {}]
  /\ faults = 0

At(p, here, there) == pc[p] = here /\ pc' = [pc EXCEPT ![p] = there]

-----------------------------------------------------------------------------
(* The planner tick *)

\* the completed audits of a signal among the newest tasks
Audits(s) == {t \in TaskIds : /\ t + Window > last
                              /\ task[t] = [kind |-> "audit", topic |-> s, status |-> "COMPLETED"]}
Newest(ts) == CHOOSE t \in ts : \A u \in ts : u <= t

\* STEP 0.5, extract_insights_from_completed_tasks: reads the file and the tasks
Extract(p) ==
  LET mined == {s \in Signals \ ActiveSignals : Audits(s) # {} /\ made[s] < Rounds}
  IN  /\ At(p, "idle", IF mined = {} THEN "candidates" ELSE "save")
      /\ draft' = [draft EXCEPT ![p] = Mined(mined, [s \in mined |-> Newest(Audits(s))])]
      /\ made' = [s \in Signals |-> IF s \in mined THEN made[s] + 1 ELSE made[s]]
      /\ UNCHANGED <<insights, reviewVars, strategyVars, taskVars, faults,
                     cand, judging, review, mark>>

SaveExtracted(p) ==
  /\ At(p, "save", "candidates")
  /\ insights' = draft[p]
  /\ draft' = [draft EXCEPT ![p] = EmptyFile]
  /\ UNCHANGED <<made, reviewVars, strategyVars, taskVars, faults,
                 cand, judging, review, mark>>

\* Mutant: every insight with a patch task is validated.
WithPatchTask == {i \in InsightIds : insights[i].patch # NoTask}
\* Mutant: nothing is validated while a review is pending.
QueuedUnlessHeld == IF PendingReviews = {} THEN WithStatus("PATCH_QUEUED") ELSE {}
Queued == WithStatus("PATCH_QUEUED")

\* generate_patch_tasks, then STEP 0.6: the PENDING insights, and the queued ones
\* that carry no stamp of an earlier validation
ReadInsights(p) ==
  /\ At(p, "candidates", "validate")
  /\ cand' = [cand EXCEPT ![p] = WithStatus("PENDING")]
  /\ judging' = [judging EXCEPT ![p] =
       {<<i, insights[i].patch>> : i \in {j \in Queued : ~insights[j].stamped}}]
  /\ UNCHANGED <<insightVars, reviewVars, strategyVars, taskVars, faults,
                 draft, review, mark>>

\* Mutant: a patch task that has ended is validated whatever its outcome.
Ended(t) == task[t].status \in {"COMPLETED", "FAILED"}
CanValidate(t) == task[t].status = "COMPLETED"

\* run_patch_validation of one insight, or nothing if its patch has not completed
ValidateOne(p) ==
  /\ pc[p] = "validate"
  /\ \E j \in judging[p] :
       /\ judging' = [judging EXCEPT ![p] = @ \ {j}]
       /\ IF CanValidate(j[2])
          THEN \E verdict \in Settled : UpdateInsightState(j[1], verdict)
          ELSE UNCHANGED insights
  /\ UNCHANGED <<made, reviewVars, strategyVars, taskVars, faults,
                 pc, draft, cand, review, mark>>

ValidateDone(p) ==
  /\ judging[p] = {}
  /\ At(p, "validate", "gate")
  /\ UNCHANGED <<insightVars, reviewVars, strategyVars, taskVars, faults,
                 draft, cand, judging, review, mark>>

\* STEP 0.8: the decision on the latest evaluation is recorded before the review
\* it may need is queued; queue_review_item gives no second entry to an evaluation
\* that has one, whatever its status
Gate(p) ==
  /\ \/ At(p, "gate", "reviews") /\ UNCHANGED review
     \/ /\ At(p, "gate", "enqueue")
        /\ evaluated # gated /\ queue[evaluated] = "absent"
        /\ review' = [review EXCEPT ![p] = [eval |-> evaluated, file |-> queue]]
  /\ gated' = evaluated
  /\ UNCHANGED <<queue, evaluated, opCopy, opReview, insightVars, strategyVars,
                 taskVars, faults, draft, cand, judging, mark>>
Enqueue(p) ==
  /\ At(p, "enqueue", "reviews")
  /\ queue' = [review[p].file EXCEPT ![review[p].eval] = "PENDING"]
  /\ review' = [review EXCEPT ![p] = NoReview]
  /\ UNCHANGED <<evaluated, gated, opCopy, opReview, insightVars, strategyVars,
                 taskVars, faults, draft, cand, judging, mark>>

\* Mutant: the pending reviews are listed before the one of this tick is queued.
ListedBeforeGate == PendingReviews \ {gated}
HoldingReviews == PendingReviews

\* the latest task is waiting or running
Blocked == last # 0 /\ task[last].status = "QUEUED"

\* STEP 0.9, where the follow-up candidates of decided reviews never pass the
\* quality gate, and STEP 1, _resolve_previous_task_blocker
CheckReviews(p) ==
  /\ At(p, "reviews", IF HoldingReviews = {} /\ ~Blocked THEN "create" ELSE "idle")
  /\ UNCHANGED <<insightVars, reviewVars, strategyVars, taskVars, faults,
                 draft, cand, judging, review, mark>>

NewTask(kind, topic) ==
  /\ last < MaxTasks
  /\ last' = last + 1
  /\ task' = [task EXCEPT ![last'] = [kind |-> kind, topic |-> topic, status |-> "QUEUED"]]

\* STEP 2: the candidates in turn until one is accepted; governance, cooldown,
\* quality and budget may turn down any of them, or all
CreatePatch(p) ==
  /\ At(p, "create", "mark")
  /\ \E i \in cand[p] : NewTask("patch", i) /\ mark' = [mark EXCEPT ![p] = <<i, last'>>]
  /\ cand' = [cand EXCEPT ![p] = {}]
  /\ UNCHANGED <<insightVars, reviewVars, strategyVars, faults, draft, judging, review>>
CreateAudit(p) ==
  /\ At(p, "create", "idle")
  /\ \E s \in Signals : NewTask("audit", s)
  /\ cand' = [cand EXCEPT ![p] = {}]
  /\ UNCHANGED <<insightVars, reviewVars, strategyVars, faults, draft, judging, review, mark>>
CreateNothing(p) ==
  /\ At(p, "create", "idle")
  /\ cand' = [cand EXCEPT ![p] = {}]
  /\ UNCHANGED <<insightVars, reviewVars, strategyVars, taskVars, faults,
                 draft, judging, review, mark>>

Mark(p) ==
  /\ At(p, "mark", "idle")
  /\ MarkPatchQueued(mark[p][1], mark[p][2])
  /\ mark' = [mark EXCEPT ![p] = <<>>]
  /\ UNCHANGED <<made, reviewVars, strategyVars, taskVars, faults,
                 draft, cand, judging, review>>

PlannerTick(p) ==
  \/ Extract(p) \/ SaveExtracted(p) \/ ReadInsights(p) \/ ValidateOne(p) \/ ValidateDone(p)
  \/ Gate(p) \/ Enqueue(p) \/ CheckReviews(p)
  \/ CreatePatch(p) \/ CreateAudit(p) \/ CreateNothing(p) \/ Mark(p)

-----------------------------------------------------------------------------
(* The worker, the evaluations and the operator *)

Work ==
  /\ \E t \in TaskIds, st \in {"COMPLETED", "FAILED"} :
       task[t].status = "QUEUED" /\ task' = [task EXCEPT ![t].status = st]
  /\ UNCHANGED <<last, insightVars, reviewVars, plannerVars, strategyVars, faults>>

Review ==
  /\ RecordEvaluation \/ Operator
  /\ UNCHANGED <<insightVars, plannerVars, strategyVars, taskVars, faults>>

-----------------------------------------------------------------------------
(* The strategy tick *)

LoadState(k) ==
  /\ spc[k] = "idle" /\ spc' = [spc EXCEPT ![k] = "insights"]
  /\ sread' = [sread EXCEPT ![k] = strategy]
  /\ UNCHANGED <<strategy, snew, insightVars, reviewVars, plannerVars, taskVars, faults>>

\* Mutant: the insights whose patch was kept in part are not terminal.
KeptOrRejected == {"VALIDATED", "FAILED"}
Terminal == Settled

\* _load_new_insights
LoadInsights(k) ==
  LET new == {i \in InsightIds : insights[i].status \in Terminal} \ sread[k].processed
  IN  /\ spc[k] = "insights"
      /\ spc' = [spc EXCEPT ![k] = IF new = {} THEN "idle" ELSE "save"]
      /\ snew' = [snew EXCEPT ![k] = new]
      /\ sread' = [sread EXCEPT ![k] = IF new = {} THEN DefaultState ELSE @]
      /\ UNCHANGED <<strategy, insightVars, reviewVars, plannerVars, taskVars, faults>>

\* Mutant: the adjustments are added to the weights the file holds by now.
AddedToFile(k) ==
  [i \in InsightIds |-> strategy.applied[i] + IF i \in snew[k] THEN 1 ELSE 0]
Adjusted(k) ==
  [i \in InsightIds |-> sread[k].applied[i] + IF i \in snew[k] THEN 1 ELSE 0]

SaveState(k) ==
  /\ spc[k] = "save" /\ spc' = [spc EXCEPT ![k] = "idle"]
  /\ strategy' = [processed |-> sread[k].processed \cup snew[k], applied |-> Adjusted(k)]
  /\ sread' = [sread EXCEPT ![k] = DefaultState]
  /\ snew' = [snew EXCEPT ![k] = {}]
  /\ UNCHANGED <<insightVars, reviewVars, plannerVars, taskVars, faults>>

StrategyTick(k) == LoadState(k) \/ LoadInsights(k) \/ SaveState(k)

-----------------------------------------------------------------------------
(* Faults: a process dies, in a write or between two steps, or a step raises *)

Fault == faults < MaxFaults /\ faults' = faults + 1

WritesInsights(p) == \/ pc[p] \in {"save", "mark"}
                     \/ pc[p] = "validate" /\ judging[p] # {}

PlannerDies(p) ==
  /\ Fault
  /\ pc[p] # "idle" /\ pc' = [pc EXCEPT ![p] = "idle"]
  /\ \/ insights' = insights
     \/ WritesInsights(p) /\ insights' = EmptyFile
  /\ \/ queue' = queue
     \/ pc[p] = "enqueue" /\ queue' = NoEntries
  /\ draft' = [draft EXCEPT ![p] = EmptyFile]
  /\ cand' = [cand EXCEPT ![p] = {}]
  /\ judging' = [judging EXCEPT ![p] = {}]
  /\ review' = [review EXCEPT ![p] = NoReview]
  /\ mark' = [mark EXCEPT ![p] = <<>>]
  /\ UNCHANGED <<made, evaluated, gated, opCopy, opReview, strategyVars, taskVars>>

\* an exception is logged and the tick goes on with its next step: the insights
\* are not saved, the other queued insights not looked at, the decision not
\* recorded, the review not queued, the insight not marked
StepRaises(p) ==
  /\ Fault
  /\ \/ At(p, "save", "candidates")
     \/ At(p, "validate", "gate") /\ judging[p] # {}
     \/ At(p, "gate", "enqueue") /\ evaluated # gated /\ queue[evaluated] = "absent"
     \/ At(p, "enqueue", "reviews")
     \/ At(p, "mark", "idle")
  /\ draft' = [draft EXCEPT ![p] = EmptyFile]
  /\ judging' = [judging EXCEPT ![p] = {}]
  /\ review' = [review EXCEPT ![p] =
       IF pc[p] = "gate" THEN [eval |-> evaluated, file |-> queue] ELSE NoReview]
  /\ mark' = [mark EXCEPT ![p] = <<>>]
  /\ UNCHANGED <<cand, insightVars, reviewVars, strategyVars, taskVars>>

StrategistDies(k) ==
  /\ Fault
  /\ spc[k] # "idle" /\ spc' = [spc EXCEPT ![k] = "idle"]
  /\ \/ strategy' = strategy
     \/ spc[k] = "save" /\ strategy' = DefaultState
  /\ sread' = [sread EXCEPT ![k] = DefaultState]
  /\ snew' = [snew EXCEPT ![k] = {}]
  /\ UNCHANGED <<insightVars, reviewVars, plannerVars, taskVars>>

OperatorDies ==
  /\ Fault
  /\ opReview # 0 /\ opReview' = 0 /\ opCopy' = NoEntries
  /\ \/ queue' = queue
     \/ queue' = NoEntries
  /\ UNCHANGED <<evaluated, gated, insightVars, plannerVars, strategyVars, taskVars>>

Faults == \/ \E p \in Planners : PlannerDies(p) \/ StepRaises(p)
          \/ \E k \in Strategists : StrategistDies(k)
          \/ OperatorDies

Next == \/ \E p \in Planners : PlannerTick(p)
        \/ Work \/ Review
        \/ \E k \in Strategists : StrategyTick(k)
        \/ Faults

Spec == Init /\ [][Next]_vars

\* The planner, some strategy tick and the worker go on, as the scheduler's loops
\* do; evaluations and the operator's decisions may never come.
LiveSpec ==
  /\ Spec
  /\ \A p \in Planners : WF_vars(PlannerTick(p))
  /\ WF_vars(\E k \in Strategists : StrategyTick(k))
  /\ WF_vars(Work)

-----------------------------------------------------------------------------
(* Properties *)

StatusOf(i) == insights[i].status

\* Whatever dies or fails, a signal has at most one insight that waits for a
\* patch or for the result of one.
OneActivePerSignal ==
  \A i, j \in InsightIds :
    /\ i[1] = j[1]
    /\ StatusOf(i) \in Active
    /\ StatusOf(j) \in Active
    => i = j

\* A verdict rests on evidence: the insight's own patch task, completed.
SettledOnEvidence ==
  \A i \in InsightIds :
    StatusOf(i) \in Settled =>
      insights[i].patch # NoTask /\ task[insights[i].patch] =
        [kind |-> "patch", topic |-> i, status |-> "COMPLETED"]

\* However strategy ticks overlap or die, the weights hold each processed
\* insight's adjustment once and no other's, and only verdicts are processed.
LearnedOnce ==
  \A i \in InsightIds :
    /\ strategy.applied[i] = IF i \in strategy.processed THEN 1 ELSE 0
    /\ i \in strategy.processed => StatusOf(i) \in Settled \cup {"unknown"}

\* A verdict is final: it is never overwritten by a stale copy of the file, by a
\* second validation or by a late mark.  (The file may be lost.)
SettledStays ==
  [][\A i \in InsightIds :
       StatusOf(i) \in Settled => insights'[i] \in {insights[i], Unknown}]_vars

\* An insight that is not in the file yet: no extraction has given it, or the
\* one that did has not saved it.
Fresh(i) ==
  \/ i[2] > made[i[1]]
  \/ \E p \in Planners : pc[p] = "save" /\ draft[p][i] # insights[i]

Stage(i) == IF Fresh(i) THEN "absent"
            ELSE IF insights[i] = Unknown THEN "lost" ELSE insights[i].status

Ledger == INSTANCE InsightLedger WITH
  status <- [i \in InsightIds |-> Stage(i)], mishaps <- faults

\* Through all the reading and rewriting of the file each insight takes the course
\* of its life cycle: extracted once, PENDING, PATCH_QUEUED, one verdict, never back
\* and never two active of a signal; and none is lost unless a process dies or raises.
FollowsLedger == Ledger!Spec

\* The planner looks at the reviews some steps before it creates a task: as long
\* as nobody dies, no review is pending by then.
HeldByReview == [][last' # last /\ faults = 0 => PendingReviews = {}]_vars

\* A completed patch is judged, though a review holds the planner for ever.
PatchIsJudged ==
  \A i \in InsightIds :
    StatusOf(i) = "PATCH_QUEUED" /\ task[insights[i].patch].status = "COMPLETED"
      ~> StatusOf(i) # "PATCH_QUEUED"

\* Every verdict reaches the weights, though stale ticks overwrite the state.
SettledIsLearned ==
  \A i \in InsightIds :
    StatusOf(i) \in Settled ~> (i \in strategy.processed \/ StatusOf(i) = "unknown")
=============================================================================
