---------------------------- MODULE TrainingProofs ----------------------------
(***************************************************************************)
(* Proofs about the self-training loop, for any number of signals,         *)
(* insights, tasks, evaluations, strategy ticks and faults.  What a record *)
(* is about, and what is learnt from it, holds however many planner ticks  *)
(* overlap; that verdicts stay and that a signal has one active insight    *)
(* needs that one runs at a time.                                          *)
(***************************************************************************)
EXTENDS TrainingLoop, WellFoundedInduction, TLAPS

HasPatch(i, t) == t \in TaskIds /\ task[t].kind = "patch" /\ task[t].topic = i

TasksInv == \A t \in TaskIds : t > last => task[t] = NoneYet

LEMMA NewestExists ==
  ASSUME NEW S \in SUBSET TaskIds, S # {}
  PROVE  Newest(S) \in S
<1> DEFINE R == OpToRel(<, Nat)
           T == {n \in Nat : MaxTasks - n \in S}
<1>1. \A t \in S : t \in 1..MaxTasks /\ MaxTasks - t \in T
  BY InsightAssumption DEF TaskIds
<1>2. PICK x \in T : \A y \in T : ~(<<y, x>> \in R)
  <2>1. IsWellFoundedOn(R, Nat) /\ T # {}
    BY <1>1, NatLessThanWellFounded
  <2> HIDE DEF R
  <2> QED
    BY <2>1, WFMin
<1>3. \A y \in T : x <= y
  <2> SUFFICES ASSUME NEW y \in T, ~(x <= y) PROVE FALSE
    OBVIOUS
  <2>1. y \in Nat /\ x \in Nat /\ y < x
    OBVIOUS
  <2>2. <<y, x>> \in R
    <3> HIDE DEF T
    <3> QED
      BY <2>1 DEF OpToRel
  <2> QED
    BY <1>2, <2>2
<1>4. MaxTasks - x \in S /\ x \in Nat /\ \A u \in S : x <= MaxTasks - u
  BY <1>1, <1>3
<1> HIDE DEF T
<1>5. \A u \in S : u <= MaxTasks - x
  BY <1>1, <1>4, InsightAssumption
<1> QED
  BY <1>4, <1>5 DEF Newest

LEMMA InsightRecords ==
  /\ Unknown \in Insight /\ EmptyFile \in [InsightIds -> Insight]
  /\ \A t \in TaskIds : [Unknown EXCEPT !.status = "PENDING", !.source = t] \in Insight
  /\ \A r \in Insight, t \in TaskIds :
       /\ [r EXCEPT !.status = "PATCH_QUEUED", !.patch = t] \in Insight
       /\ \A v \in Settled, b \in BOOLEAN : [r EXCEPT !.status = v, !.stamped = b] \in Insight
BY DEF Unknown, Insight, EmptyFile, Active, Settled

LEMMA InsightPair ==
  ASSUME NEW i \in InsightIds
  PROVE  i[1] \in Signals /\ i[2] \in 1..Rounds /\ i = <<i[1], i[2]>>
BY DEF InsightIds

LEMMA GateTypes ==
  ASSUME TypeOK, NEW p \in Planners, Gate(p) \/ Enqueue(p)
  PROVE  /\ ReviewTypeOK'
         /\ review' \in [Planners -> [eval : 0..MaxEvals, file : [Evals -> ReviewStatus]]]
<1> DEFINE Reviews == [eval : 0..MaxEvals, file : [Evals -> ReviewStatus]]
<1>1. ReviewTypeOK /\ review \in [Planners -> Reviews]
  BY DEF TypeOK
<1>2. CASE Gate(p)
  <2>1. [eval |-> evaluated, file |-> queue] \in Reviews
    BY <1>1 DEF ReviewTypeOK
  <2> HIDE DEF Reviews
  <2>2. review' \in [Planners -> Reviews]
    BY <1>1, <1>2, <2>1 DEF Gate
  <2>3. ReviewTypeOK'
    BY <1>1, <1>2 DEF Gate, ReviewTypeOK
  <2> QED
    BY <2>2, <2>3 DEF Reviews
<1>3. CASE Enqueue(p)
  <2>1. NoReview \in Reviews
    BY ReviewAssumption DEF NoReview, NoEntries, ReviewStatus
  <2>2. review[p].file \in [Evals -> ReviewStatus]
    BY <1>1
  <2>3. queue' \in [Evals -> ReviewStatus]
    BY <1>3, <2>2 DEF Enqueue, ReviewStatus
  <2> HIDE DEF Reviews
  <2>4. review' \in [Planners -> Reviews]
    BY <1>1, <1>3, <2>1 DEF Enqueue
  <2>5. ReviewTypeOK'
    BY <1>1, <1>3, <2>3 DEF Enqueue, ReviewTypeOK
  <2> QED
    BY <2>4, <2>5 DEF Reviews
<1> QED
  BY <1>2, <1>3


-----------------------------------------------------------------------------
(* What holds however many planner ticks overlap. *)

\* Some patch task of the insight has completed.
PatchDone(i) == \E t \in TaskIds : HasPatch(i, t) /\ task[t].status = "COMPLETED"

\* A record of an insight, in the file or in a stale copy of it: it names a patch
\* task of the insight or none, and a verdict was given on a completed one.
OwnRecord(i, r) ==
  /\ r.patch # NoTask => HasPatch(i, r.patch)
  /\ r.status = "PATCH_QUEUED" => r.patch # NoTask
  /\ r.status \in Settled => PatchDone(i)

\* What a planner holds is about the insights' own patch tasks, stale or not.
OwnWork(p) ==
  /\ \A i \in InsightIds : OwnRecord(i, draft[p][i])
  /\ \A j \in judging[p] : HasPatch(j[1], j[2])
  /\ pc[p] = "mark" => mark[p] \in InsightIds \X TaskIds /\ HasPatch(mark[p][1], mark[p][2])

Shape == /\ TypeOK /\ TasksInv
         /\ \A i \in InsightIds : OwnRecord(i, insights[i])
         /\ \A p \in Planners : OwnWork(p)

LEMMA InitShape == Init => Shape
<1> SUFFICES ASSUME Init PROVE Shape
  OBVIOUS
<1> USE DEF Init, InsightInit, ReviewInit, EmptyFile, Unknown, NoEntries, DefaultState
<1>1. TypeOK
  BY InsightAssumption, LoopAssumption, ReviewAssumption
  DEF TypeOK, InsightTypeOK, ReviewTypeOK, Insight, Task, NoneYet, PlannerSteps, NoReview,
      Weights, ReviewStatus, Evals, TaskIds
<1> QED
  BY <1>1 DEF Shape, TasksInv, OwnRecord, OwnWork, Settled

\* A task keeps what it is about and, once it has completed, its outcome; so what
\* a record says stays true.
TasksKept ==
  \A t \in TaskIds :
    /\ task[t].kind = "patch" => task'[t].kind = "patch" /\ task'[t].topic = task[t].topic
    /\ task[t].status = "COMPLETED" => task'[t].status = "COMPLETED"

\* The work of a planner that does not move.
LEMMA WorkKept ==
  ASSUME TypeOK, TasksKept, NEW p \in Planners, OwnWork(p), pc'[p] = pc[p],
         draft'[p] = draft[p], judging'[p] = judging[p], mark'[p] = mark[p]
  PROVE  OwnWork(p)'
<1>1. \A j \in judging[p] : j[1] \in InsightIds /\ j[2] \in TaskIds
  BY DEF TypeOK
<1>2. \A i \in InsightIds : OwnRecord(i, draft[p][i])'
  BY DEF OwnWork, TasksKept, OwnRecord, HasPatch, PatchDone
<1>3. \A j \in judging'[p] : HasPatch(j[1], j[2])'
  BY <1>1 DEF OwnWork, TasksKept, HasPatch
<1>4. pc'[p] = "mark" => mark'[p] \in InsightIds \X TaskIds /\ HasPatch(mark[p][1], mark[p][2])'
  BY DEF OwnWork, TasksKept, HasPatch
<1> QED
  BY <1>2, <1>3, <1>4 DEF OwnWork

LEMMA RecordsStay ==
  ASSUME TasksKept, UNCHANGED insights, \A i \in InsightIds : OwnRecord(i, insights[i])
  PROVE  \A i \in InsightIds : OwnRecord(i, insights[i])'
BY DEF TasksKept, OwnRecord, HasPatch, PatchDone

\* A new task takes a number of its own, that of no patch task an insight names.
LEMMA NewTaskTypes ==
  ASSUME TypeOK, TasksInv, NEW kind \in {"audit", "patch"}, NEW topic \in Signals \cup InsightIds,
         NewTask(kind, topic)
  PROVE  /\ TasksInv' /\ TasksKept
         /\ task' \in [TaskIds -> Task] /\ last' \in TaskIds /\ last' \in 0..MaxTasks
         /\ task[last'] = NoneYet /\ \A t \in TaskIds : t # last' => task'[t] = task[t]
         /\ task'[last'] = [kind |-> kind, topic |-> topic, status |-> "QUEUED"]
<1> DEFINE r == [kind |-> kind, topic |-> topic, status |-> "QUEUED"]
<1>1. last \in Nat /\ last < MaxTasks /\ last' = last + 1 /\ last' \in TaskIds /\ last' \in 0..MaxTasks
  BY InsightAssumption DEF TypeOK, NewTask, TaskIds
<1>2. task' = [task EXCEPT ![last'] = r] /\ r \in Task
  BY DEF NewTask, Task
<1>3. task'[last'] = r /\ task' \in [TaskIds -> Task]
      /\ \A t \in TaskIds : t # last' => task'[t] = task[t]
  BY <1>1, <1>2 DEF TypeOK
<1>4. task[last'] = NoneYet
  BY <1>1 DEF TasksInv
<1>5. TasksInv'
  BY <1>1, <1>3 DEF TasksInv, TaskIds
<1>6. TasksKept
  BY <1>3, <1>4 DEF TasksKept, NoneYet
<1> QED
  BY <1>1, <1>3, <1>4, <1>5, <1>6

\* The other processes, which write neither insights nor what a planner holds.
LEMMA OthersShape ==
  ASSUME Shape, UNCHANGED <<insightVars, plannerVars>>, TypeOK', TasksInv', TasksKept
  PROVE  Shape'
<1>1. \A i \in InsightIds : OwnRecord(i, insights[i])'
  BY RecordsStay DEF Shape, insightVars
<1>2. ASSUME NEW p \in Planners PROVE OwnWork(p)'
  BY WorkKept DEF Shape, plannerVars
<1> QED
  BY <1>1, <1>2 DEF Shape

LEMMA WorkShape == ASSUME Shape, Work PROVE Shape'
<1>1. PICK t \in TaskIds, st \in {"COMPLETED", "FAILED"} :
        task[t].status = "QUEUED" /\ task' = [task EXCEPT ![t].status = st]
  BY DEF Work
<1>2. UNCHANGED <<last, insightVars, reviewVars, plannerVars, strategyVars, faults>>
  BY DEF Work
<1>3. TypeOK /\ TasksInv /\ task[t] \in Task
  BY DEF Shape, TypeOK
<1>4. task' \in [TaskIds -> Task]
  BY <1>1, <1>3 DEF TypeOK, Task
<1>5. \A u \in TaskIds : u # t => task'[u] = task[u]
  BY <1>1, <1>3 DEF TypeOK
<1>6. task'[t].kind = task[t].kind /\ task'[t].topic = task[t].topic
  BY <1>1, <1>3 DEF TypeOK, Task
<1>7. TasksInv' /\ TasksKept
  BY <1>1, <1>2, <1>3, <1>5, <1>6 DEF TasksInv, TasksKept, NoneYet
<1>8. TypeOK'
  BY <1>2, <1>3, <1>4 DEF TypeOK, InsightTypeOK, ReviewTypeOK, insightVars, reviewVars,
     plannerVars, strategyVars
<1> QED
  BY <1>2, <1>7, <1>8, OthersShape

\* Evaluations and the operator, and his death.
LEMMA ReviewShape == ASSUME Shape, Review \/ OperatorDies PROVE Shape'
<1>1. UNCHANGED <<insightVars, plannerVars, strategyVars, taskVars>>
  BY DEF Review, OperatorDies
<1>2. ReviewTypeOK' /\ faults' \in 0..MaxFaults
  BY LoopAssumption, ReviewAssumption
  DEF Shape, TypeOK, Review, OperatorDies, Fault, RecordEvaluation, Operator, OperatorLoads,
      OperatorSaves, ReviewTypeOK, ReviewStatus, NoEntries, Evals
<1>3. TypeOK'
  BY <1>1, <1>2 DEF Shape, TypeOK, insightVars, InsightTypeOK, plannerVars, strategyVars, taskVars
<1>4. TasksInv' /\ TasksKept
  BY <1>1 DEF Shape, TasksInv, TasksKept, taskVars
<1> QED
  BY <1>1, <1>3, <1>4, OthersShape

LEMMA StrategyShape ==
  ASSUME Shape, NEW k \in Strategists, StrategyTick(k) \/ StrategistDies(k) PROVE Shape'
<1> USE DEF Shape, TypeOK
<1>1. UNCHANGED <<insightVars, reviewVars, plannerVars, taskVars>> /\ faults' \in 0..MaxFaults
  BY LoopAssumption DEF StrategyTick, LoadState, LoadInsights, SaveState, StrategistDies, Fault
<1>2. spc' \in [Strategists -> {"idle", "insights", "save"}]
  BY DEF StrategyTick, LoadState, LoadInsights, SaveState, StrategistDies
<1>3. snew' \in [Strategists -> SUBSET InsightIds]
  BY DEF StrategyTick, LoadState, LoadInsights, SaveState, StrategistDies
<1>4. DefaultState \in Weights
  BY DEF DefaultState, Weights
<1>5. strategy' \in Weights /\ sread' \in [Strategists -> Weights]
  <2>1. CASE LoadState(k) \/ LoadInsights(k) \/ StrategistDies(k)
    BY <1>4, <2>1 DEF LoadState, LoadInsights, StrategistDies
  <2>2. CASE SaveState(k)
    <3>1. sread[k] \in Weights /\ snew[k] \in SUBSET InsightIds
      OBVIOUS
    <3>2. [processed |-> sread[k].processed \cup snew[k], applied |-> Adjusted(k)] \in Weights
      BY <3>1 DEF Weights, Adjusted
    <3> QED
      BY <1>4, <2>2, <3>2 DEF SaveState
  <2> QED
    BY <2>1, <2>2 DEF StrategyTick
<1>6. TypeOK'
  BY <1>1, <1>2, <1>3, <1>5 DEF InsightTypeOK, ReviewTypeOK, insightVars, reviewVars,
     plannerVars, taskVars
<1>7. TasksInv' /\ TasksKept
  BY <1>1 DEF TasksInv, TasksKept, taskVars
<1> QED
  BY <1>1, <1>6, <1>7, OthersShape


\* A planner's step leaves alone what another one holds.
LEMMA PlannerAlone ==
  ASSUME TypeOK, NEW p \in Planners, PlannerTick(p) \/ PlannerDies(p) \/ StepRaises(p),
         NEW q \in Planners, q # p
  PROVE  pc'[q] = pc[q] /\ draft'[q] = draft[q] /\ judging'[q] = judging[q] /\ mark'[q] = mark[q]
<1> USE DEF TypeOK, At
<1>1. CASE Extract(p) \/ SaveExtracted(p) \/ ReadInsights(p) \/ ValidateOne(p) \/ ValidateDone(p)
  BY <1>1 DEF Extract, SaveExtracted, ReadInsights, ValidateOne, ValidateDone
<1>2. CASE Gate(p) \/ Enqueue(p) \/ CheckReviews(p)
  BY <1>2 DEF Gate, Enqueue, CheckReviews
<1>3. CASE CreatePatch(p) \/ CreateAudit(p) \/ CreateNothing(p) \/ Mark(p)
  BY <1>3 DEF CreatePatch, CreateAudit, CreateNothing, Mark
<1>4. CASE PlannerDies(p) \/ StepRaises(p)
  BY <1>4 DEF PlannerDies, StepRaises
<1> QED
  BY <1>1, <1>2, <1>3, <1>4 DEF PlannerTick

LEMMA PlannerShape ==
  ASSUME Shape, NEW p \in Planners, PlannerTick(p) \/ PlannerDies(p) \/ StepRaises(p),
         TypeOK', TasksInv', TasksKept, \A i \in InsightIds : OwnRecord(i, insights[i])',
         OwnWork(p)'
  PROVE  Shape'
<1>1. ASSUME NEW q \in Planners, q # p PROVE OwnWork(q)'
  BY <1>1, PlannerAlone, WorkKept DEF Shape
<1> QED
  BY <1>1 DEF Shape

LEMMA ExtractShape ==
  ASSUME Shape, NEW p \in Planners, Extract(p) PROVE Shape'
<1> DEFINE mined == {s \in Signals \ ActiveSignals : Audits(s) # {} /\ made[s] < Rounds}
           source == [s \in mined |-> Newest(Audits(s))]
<1>1. /\ pc[p] = "idle" /\ pc' = [pc EXCEPT ![p] = IF mined = {} THEN "candidates" ELSE "save"]
      /\ draft' = [draft EXCEPT ![p] = Mined(mined, source)]
      /\ made' = [s \in Signals |-> IF s \in mined THEN made[s] + 1 ELSE made[s]]
      /\ UNCHANGED <<insights, reviewVars, strategyVars, taskVars, faults,
                     cand, judging, review, mark>>
  BY DEF Extract, At
<1>2. \A s \in mined : source[s] \in TaskIds /\ made[s] < Rounds
  BY NewestExists DEF Audits
<1>3. TypeOK /\ TasksInv /\ OwnWork(p)
  BY DEF Shape
<1> HIDE DEF mined, source
<1>4. PICK M : M = Mined(mined, source)
  OBVIOUS
<1>5. ASSUME NEW i \in InsightIds PROVE M[i] \in Insight /\ OwnRecord(i, M[i])
  <2>1. CASE i[1] \in mined /\ i[2] = made[i[1]] + 1
    <3>1. M[i] = [Unknown EXCEPT !.status = "PENDING", !.source = source[i[1]]]
      BY <1>4, <2>1 DEF Mined
    <3>2. M[i].patch = NoTask /\ M[i].status = "PENDING"
      BY <3>1 DEF Unknown
    <3> QED
      BY <1>2, <2>1, <3>1, <3>2, InsightRecords DEF OwnRecord, Settled
  <2>2. CASE ~(i[1] \in mined /\ i[2] = made[i[1]] + 1)
    BY <1>3, <1>4, <2>2 DEF Mined, TypeOK, InsightTypeOK, Shape
  <2> QED
    BY <2>1, <2>2
<1>6. /\ M \in [InsightIds -> Insight]
      /\ pc'[p] \in {"candidates", "save"} /\ draft'[p] = M
  BY <1>1, <1>3, <1>4, <1>5 DEF Mined, TypeOK
<1>7. TypeOK'
  <2>1. made' \in [Signals -> 0..Rounds]
    BY <1>1, <1>2, <1>3, InsightAssumption DEF TypeOK, InsightTypeOK
  <2>2. draft' \in [Planners -> [InsightIds -> Insight]]
    BY <1>1, <1>3, <1>4, <1>6 DEF TypeOK
  <2>3. pc' \in [Planners -> PlannerSteps]
    BY <1>1, <1>3 DEF TypeOK, PlannerSteps
  <2> QED
    BY <1>1, <1>3, <2>1, <2>2, <2>3 DEF TypeOK, InsightTypeOK, ReviewTypeOK,
       reviewVars, strategyVars, taskVars
<1>8. TasksInv' /\ TasksKept
  BY <1>1, <1>3 DEF TasksInv, TasksKept, taskVars
<1>9. OwnWork(p)'
  <2>1. \A i \in InsightIds : OwnRecord(i, draft[p][i])'
    BY <1>1, <1>5, <1>6 DEF OwnRecord, HasPatch, PatchDone, taskVars
  <2>2. \A j \in judging'[p] : HasPatch(j[1], j[2])'
    BY <1>1, <1>3 DEF OwnWork, HasPatch, taskVars
  <2> QED
    BY <1>6, <2>1, <2>2 DEF OwnWork
<1> QED
  BY <1>1, <1>7, <1>8, <1>9, PlannerShape, RecordsStay DEF PlannerTick, Shape


LEMMA SaveShape ==
  ASSUME Shape, NEW p \in Planners, SaveExtracted(p) PROVE Shape'
<1>1. /\ pc[p] = "save" /\ pc' = [pc EXCEPT ![p] = "candidates"]
      /\ insights' = draft[p] /\ draft' = [draft EXCEPT ![p] = EmptyFile]
      /\ UNCHANGED <<made, reviewVars, strategyVars, taskVars, faults, cand, judging, review, mark>>
  BY DEF SaveExtracted, At
<1>2. TypeOK /\ TasksInv /\ OwnWork(p)
  BY DEF Shape
<1>3. pc'[p] = "candidates" /\ draft'[p] = EmptyFile
  BY <1>1, <1>2 DEF TypeOK
<1>4. TypeOK'
  <2>1. insights' \in [InsightIds -> Insight] /\ draft' \in [Planners -> [InsightIds -> Insight]]
    BY <1>1, <1>2, InsightRecords DEF TypeOK
  <2>2. pc' \in [Planners -> PlannerSteps]
    BY <1>1, <1>2 DEF TypeOK, PlannerSteps
  <2> QED
    BY <1>1, <1>2, <2>1, <2>2 DEF TypeOK, InsightTypeOK, ReviewTypeOK,
       reviewVars, strategyVars, taskVars
<1>5. TasksInv' /\ TasksKept
  BY <1>1, <1>2 DEF TasksInv, TasksKept, taskVars
<1>6. \A i \in InsightIds : OwnRecord(i, insights[i])'
  BY <1>1, <1>2 DEF OwnWork, OwnRecord, HasPatch, PatchDone, taskVars
<1>7. OwnWork(p)'
  <2>1. \A i \in InsightIds : OwnRecord(i, draft[p][i])'
    BY <1>3 DEF OwnRecord, EmptyFile, Unknown, Settled
  <2>2. \A j \in judging'[p] : HasPatch(j[1], j[2])'
    BY <1>1, <1>2 DEF OwnWork, HasPatch, taskVars
  <2> QED
    BY <1>3, <2>1, <2>2 DEF OwnWork
<1> QED
  BY <1>4, <1>5, <1>6, <1>7, PlannerShape DEF PlannerTick

LEMMA ReadShape ==
  ASSUME Shape, NEW p \in Planners, ReadInsights(p) PROVE Shape'
<1>1. /\ pc[p] = "candidates" /\ pc' = [pc EXCEPT ![p] = "validate"]
      /\ cand' = [cand EXCEPT ![p] = WithStatus("PENDING")]
      /\ judging' = [judging EXCEPT ![p] =
           {<<i, insights[i].patch>> : i \in {j \in Queued : ~insights[j].stamped}}]
      /\ UNCHANGED <<insightVars, reviewVars, strategyVars, taskVars, faults, draft, review, mark>>
  BY DEF ReadInsights, At
<1>2. TypeOK /\ TasksInv /\ OwnWork(p)
  BY DEF Shape
<1>3. \A i \in Queued : /\ HasPatch(i, insights[i].patch)
                        /\ <<i, insights[i].patch>> \in InsightIds \X TaskIds
  BY DEF Shape, OwnRecord, Queued, WithStatus, HasPatch
<1>4. TypeOK'
  <2>1. judging' \in [Planners -> SUBSET (InsightIds \X TaskIds)]
    BY <1>1, <1>2, <1>3 DEF TypeOK
  <2>2. cand' \in [Planners -> SUBSET InsightIds]
    BY <1>1, <1>2 DEF TypeOK, WithStatus
  <2>3. pc' \in [Planners -> PlannerSteps]
    BY <1>1, <1>2 DEF TypeOK, PlannerSteps
  <2> QED
    BY <1>1, <1>2, <2>1, <2>2, <2>3 DEF TypeOK, insightVars, InsightTypeOK, ReviewTypeOK,
       reviewVars, strategyVars, taskVars
<1>5. TasksInv' /\ TasksKept
  BY <1>1, <1>2 DEF TasksInv, TasksKept, taskVars
<1>6. OwnWork(p)'
  <2>1. pc'[p] = "validate"
        /\ judging'[p] = {<<i, insights[i].patch>> : i \in {j \in Queued : ~insights[j].stamped}}
    BY <1>1, <1>2 DEF TypeOK
  <2>2. \A j \in judging'[p] : HasPatch(j[1], j[2])'
    BY <1>1, <1>3, <2>1 DEF HasPatch, taskVars
  <2>3. \A i \in InsightIds : OwnRecord(i, draft[p][i])'
    BY <1>1, <1>2 DEF OwnWork, OwnRecord, HasPatch, PatchDone, taskVars
  <2> QED
    BY <2>1, <2>2, <2>3 DEF OwnWork
<1> QED
  BY <1>1, <1>4, <1>5, <1>6, PlannerShape, RecordsStay DEF PlannerTick, Shape, insightVars

\* The steps of a planner that touch neither the insights nor the tasks.
LEMMA QuietShape ==
  ASSUME Shape, NEW p \in Planners,
         ValidateDone(p) \/ Gate(p) \/ Enqueue(p) \/ CheckReviews(p) \/ CreateNothing(p)
  PROVE  Shape'
<1> USE DEF ValidateDone, Gate, Enqueue, CheckReviews, CreateNothing, At
<1>1. UNCHANGED <<insightVars, taskVars, strategyVars, draft, judging, mark, faults>>
  BY DEF reviewVars
<1>2. TypeOK /\ TasksInv /\ OwnWork(p)
  BY DEF Shape
<1>3. TypeOK'
  <2>1. ReviewTypeOK' /\ review' \in [Planners -> [eval : 0..MaxEvals, file : [Evals -> ReviewStatus]]]
    <3>1. CASE Gate(p) \/ Enqueue(p)
      BY <1>2, <3>1, GateTypes
    <3>2. CASE ValidateDone(p) \/ CheckReviews(p) \/ CreateNothing(p)
      BY <1>2, <3>2 DEF TypeOK, ReviewTypeOK, reviewVars
    <3> QED
      BY <3>1, <3>2
  <2>2. pc' \in [Planners -> PlannerSteps] /\ cand' \in [Planners -> SUBSET InsightIds]
    BY <1>2 DEF TypeOK, PlannerSteps
  <2> QED
    BY <1>1, <1>2, <2>1, <2>2 DEF TypeOK, insightVars, InsightTypeOK, strategyVars, taskVars
<1>4. TasksInv' /\ TasksKept
  BY <1>1, <1>2 DEF TasksInv, TasksKept, taskVars
<1>5. pc'[p] # "mark"
  BY <1>2 DEF TypeOK
<1>6. OwnWork(p)'
  <2>1. \A i \in InsightIds : OwnRecord(i, draft[p][i])'
    BY <1>1, <1>2 DEF OwnWork, OwnRecord, HasPatch, PatchDone, taskVars
  <2>2. \A j \in judging'[p] : HasPatch(j[1], j[2])'
    BY <1>1, <1>2 DEF OwnWork, HasPatch, taskVars
  <2> QED
    BY <1>5, <2>1, <2>2 DEF OwnWork
<1> QED
  BY <1>1, <1>3, <1>4, <1>6, PlannerShape, RecordsStay DEF PlannerTick, Shape, insightVars

LEMMA ValidateShape ==
  ASSUME Shape, NEW p \in Planners, ValidateOne(p) PROVE Shape'
<1>1. pc[p] = "validate" /\ UNCHANGED <<made, reviewVars, strategyVars, taskVars, faults,
                                         pc, draft, cand, review, mark>>
  BY DEF ValidateOne
<1>2. PICK j \in judging[p] :
        /\ judging' = [judging EXCEPT ![p] = @ \ {j}]
        /\ IF CanValidate(j[2])
           THEN \E verdict \in Settled : UpdateInsightState(j[1], verdict)
           ELSE UNCHANGED insights
  BY DEF ValidateOne
<1>3. TypeOK /\ TasksInv /\ OwnWork(p)
  BY DEF Shape
<1>4. j[1] \in InsightIds /\ j[2] \in TaskIds /\ HasPatch(j[1], j[2])
      /\ insights[j[1]] \in Insight /\ OwnRecord(j[1], insights[j[1]])
  BY <1>3 DEF OwnWork, TypeOK, InsightTypeOK, Shape
<1>5. judging'[p] = judging[p] \ {j} /\ judging' \in [Planners -> SUBSET (InsightIds \X TaskIds)]
  BY <1>2, <1>3 DEF TypeOK
<1>6. PICK r : insights' = [insights EXCEPT ![j[1]] = r] /\ r \in Insight /\ OwnRecord(j[1], r)
  <2>1. CASE ~CanValidate(j[2]) \/ insights[j[1]] = Unknown
    <3>1. insights' = [insights EXCEPT ![j[1]] = insights[j[1]]]
      BY <1>2, <1>3, <2>1 DEF UpdateInsightState, TypeOK, InsightTypeOK
    <3> QED
      BY <1>4, <3>1
  <2>2. CASE CanValidate(j[2]) /\ insights[j[1]] # Unknown
    <3>1. PICK verdict \in Settled : UpdateInsightState(j[1], verdict)
      BY <1>2, <2>2
    <3> DEFINE w == [insights[j[1]] EXCEPT !.status = verdict,
                                           !.stamped = insights[j[1]].stamped \/ verdict # "FAILED"]
    <3>2. insights' = [insights EXCEPT ![j[1]] = w]
      <4>1. insights' = [insights EXCEPT ![j[1]] =
                           IF insights[j[1]] = Unknown THEN insights[j[1]] ELSE w]
        BY <3>1, Zenon DEF UpdateInsightState
      <4> HIDE DEF w
      <4> QED
        BY <2>2, <4>1
    <3>3. w \in Insight /\ w.status = verdict /\ w.patch = insights[j[1]].patch
      BY <1>4 DEF Insight, Settled
    <3>4. PatchDone(j[1])
      BY <1>4, <2>2 DEF PatchDone, CanValidate
    <3>5. OwnRecord(j[1], w)
      BY <1>4, <3>3, <3>4 DEF OwnRecord, Settled
    <3> QED
      BY <3>2, <3>3, <3>5
  <2> QED
    BY <2>1, <2>2
<1>7. \A i \in InsightIds : insights'[i] \in Insight /\ OwnRecord(i, insights'[i])
  BY <1>3, <1>6 DEF TypeOK, InsightTypeOK, Shape
<1>8. TypeOK'
  <2>1. insights' \in [InsightIds -> Insight]
    BY <1>3, <1>6 DEF TypeOK, InsightTypeOK
  <2> QED
    BY <1>1, <1>3, <1>5, <2>1 DEF TypeOK, InsightTypeOK, ReviewTypeOK,
       reviewVars, strategyVars, taskVars
<1>9. TasksInv' /\ TasksKept
  BY <1>1, <1>3 DEF TasksInv, TasksKept, taskVars
<1>10. \A i \in InsightIds : OwnRecord(i, insights[i])'
  BY <1>1, <1>7 DEF OwnRecord, HasPatch, PatchDone, taskVars
<1>11. OwnWork(p)'
  <2>1. \A i \in InsightIds : OwnRecord(i, draft[p][i])'
    BY <1>1, <1>3 DEF OwnWork, OwnRecord, HasPatch, PatchDone, taskVars
  <2>2. \A k \in judging'[p] : HasPatch(k[1], k[2])'
    BY <1>1, <1>3, <1>5 DEF OwnWork, HasPatch, taskVars
  <2> QED
    BY <1>1, <2>1, <2>2 DEF OwnWork
<1> QED
  BY <1>8, <1>9, <1>10, <1>11, PlannerShape DEF PlannerTick

LEMMA CreateShape ==
  ASSUME Shape, NEW p \in Planners, CreatePatch(p) \/ CreateAudit(p) PROVE Shape'
<1>1. /\ cand' = [cand EXCEPT ![p] = {}]
      /\ UNCHANGED <<insightVars, reviewVars, strategyVars, faults, draft, judging, review>>
  BY DEF CreatePatch, CreateAudit
<1>2. TypeOK /\ TasksInv /\ OwnWork(p)
  BY DEF Shape
<1>3. cand' \in [Planners -> SUBSET InsightIds]
  BY <1>1, <1>2 DEF TypeOK
<1>4. /\ TasksInv' /\ TasksKept
      /\ task' \in [TaskIds -> Task] /\ last' \in 0..MaxTasks
      /\ pc' \in [Planners -> PlannerSteps]
      /\ mark' \in [Planners -> InsightIds \X TaskIds \cup {<<>>}]
      /\ pc'[p] = "mark" => /\ mark'[p] \in InsightIds \X TaskIds
                            /\ HasPatch(mark[p][1], mark[p][2])'
  <2>1. CASE CreatePatch(p)
    <3>1. PICK i \in cand[p] : NewTask("patch", i) /\ mark' = [mark EXCEPT ![p] = <<i, last'>>]
      BY <2>1 DEF CreatePatch
    <3>2. i \in InsightIds
      BY <1>2 DEF TypeOK
    <3>3. /\ TasksInv' /\ TasksKept
          /\ task' \in [TaskIds -> Task] /\ last' \in TaskIds /\ last' \in 0..MaxTasks
          /\ task'[last'] = [kind |-> "patch", topic |-> i, status |-> "QUEUED"]
      BY <1>2, <3>1, <3>2, NewTaskTypes
    <3>4. mark'[p] = <<i, last'>> /\ mark' \in [Planners -> InsightIds \X TaskIds \cup {<<>>}]
      BY <1>2, <3>1, <3>2, <3>3 DEF TypeOK
    <3>5. pc' \in [Planners -> PlannerSteps]
      BY <1>2, <2>1 DEF CreatePatch, At, TypeOK, PlannerSteps
    <3>6. HasPatch(mark[p][1], mark[p][2])'
      BY <3>3, <3>4 DEF HasPatch
    <3> QED
      BY <3>2, <3>3, <3>4, <3>5, <3>6
  <2>2. CASE CreateAudit(p)
    <3>1. PICK s \in Signals : NewTask("audit", s)
      BY <2>2 DEF CreateAudit
    <3>2. /\ TasksInv' /\ TasksKept
          /\ task' \in [TaskIds -> Task] /\ last' \in 0..MaxTasks
      BY <1>2, <3>1, NewTaskTypes
    <3>3. UNCHANGED mark /\ pc'[p] = "idle" /\ pc' \in [Planners -> PlannerSteps]
      BY <1>2, <2>2 DEF CreateAudit, At, TypeOK, PlannerSteps
    <3> QED
      BY <1>2, <3>2, <3>3 DEF TypeOK
  <2> QED
    BY <2>1, <2>2
<1>5. TypeOK'
  BY <1>1, <1>2, <1>3, <1>4 DEF TypeOK, InsightTypeOK, ReviewTypeOK,
     insightVars, reviewVars, strategyVars
<1>6. OwnWork(p)'
  <2>1. \A i \in InsightIds : OwnRecord(i, draft[p][i])'
    BY <1>1, <1>2, <1>4 DEF OwnWork, TasksKept, OwnRecord, HasPatch, PatchDone
  <2>2. \A j \in judging'[p] : HasPatch(j[1], j[2])'
    BY <1>1, <1>2, <1>4 DEF OwnWork, TasksKept, HasPatch, TypeOK
  <2> QED
    BY <1>4, <2>1, <2>2 DEF OwnWork
<1> QED
  BY <1>1, <1>4, <1>5, <1>6, PlannerShape, RecordsStay DEF PlannerTick, Shape, insightVars

LEMMA MarkShape ==
  ASSUME Shape, NEW p \in Planners, Mark(p) PROVE Shape'
<1>1. /\ pc[p] = "mark" /\ pc' = [pc EXCEPT ![p] = "idle"]
      /\ MarkPatchQueued(mark[p][1], mark[p][2]) /\ mark' = [mark EXCEPT ![p] = <<>>]
      /\ UNCHANGED <<made, reviewVars, strategyVars, taskVars, faults, draft, cand, judging, review>>
  BY DEF Mark, At
<1>2. TypeOK /\ TasksInv /\ OwnWork(p)
  BY DEF Shape
<1>3. PICK i \in InsightIds, t \in TaskIds :
        i = mark[p][1] /\ t = mark[p][2] /\ HasPatch(i, t)
  BY <1>1, <1>2 DEF OwnWork
<1>4. insights[i] \in Insight /\ OwnRecord(i, insights[i])
  BY <1>2 DEF TypeOK, InsightTypeOK, Shape
<1>5. PICK r : insights' = [insights EXCEPT ![i] = r] /\ r \in Insight /\ OwnRecord(i, r)
  <2>1. CASE insights[i] = Unknown
    BY <1>1, <1>3, <1>4, <2>1 DEF MarkPatchQueued
  <2>2. CASE insights[i] # Unknown
    <3> DEFINE w == [insights[i] EXCEPT !.status = "PATCH_QUEUED", !.patch = t]
    <3>1. w \in Insight /\ w.status = "PATCH_QUEUED" /\ w.patch = t
      BY <1>4, InsightRecords DEF Insight
    <3>2. insights' = [insights EXCEPT ![i] = w]
      BY <1>1, <1>2, <1>3, <2>2 DEF MarkPatchQueued, TypeOK, InsightTypeOK
    <3>3. t # NoTask
      BY DEF TaskIds, NoTask
    <3>4. OwnRecord(i, w)
      BY <1>3, <3>1, <3>3 DEF OwnRecord, Settled
    <3> QED
      BY <3>1, <3>2, <3>4
  <2> QED
    BY <2>1, <2>2
<1>6. \A k \in InsightIds : OwnRecord(k, insights'[k])
  BY <1>2, <1>5 DEF TypeOK, InsightTypeOK, Shape
<1>7. TypeOK'
  <2>1. insights' \in [InsightIds -> Insight]
    BY <1>2, <1>5 DEF TypeOK, InsightTypeOK
  <2>2. pc' \in [Planners -> PlannerSteps] /\ mark' \in [Planners -> InsightIds \X TaskIds \cup {<<>>}]
    BY <1>1, <1>2 DEF TypeOK, PlannerSteps
  <2> QED
    BY <1>1, <1>2, <2>1, <2>2 DEF TypeOK, InsightTypeOK, ReviewTypeOK,
       reviewVars, strategyVars, taskVars
<1>8. TasksInv' /\ TasksKept
  BY <1>1, <1>2 DEF TasksInv, TasksKept, taskVars
<1>9. \A k \in InsightIds : OwnRecord(k, insights[k])'
  BY <1>1, <1>6 DEF OwnRecord, HasPatch, PatchDone, taskVars
<1>10. OwnWork(p)'
  <2>1. pc'[p] = "idle"
    BY <1>1, <1>2 DEF TypeOK
  <2>2. \A k \in InsightIds : OwnRecord(k, draft[p][k])'
    BY <1>1, <1>2 DEF OwnWork, OwnRecord, HasPatch, PatchDone, taskVars
  <2>3. \A j \in judging'[p] : HasPatch(j[1], j[2])'
    BY <1>1, <1>2 DEF OwnWork, HasPatch, taskVars
  <2> QED
    BY <2>1, <2>2, <2>3 DEF OwnWork
<1> QED
  BY <1>7, <1>8, <1>9, <1>10, PlannerShape DEF PlannerTick
LEMMA RaiseShape ==
  ASSUME Shape, NEW p \in Planners, StepRaises(p) PROVE Shape'
<1>1. /\ \/ /\ pc[p] = "save" /\ pc' = [pc EXCEPT ![p] = "candidates"]
         \/ /\ pc[p] = "validate" /\ pc' = [pc EXCEPT ![p] = "gate"]
         \/ /\ pc[p] = "gate" /\ pc' = [pc EXCEPT ![p] = "enqueue"]
         \/ /\ pc[p] = "enqueue" /\ pc' = [pc EXCEPT ![p] = "reviews"]
         \/ /\ pc[p] = "mark" /\ pc' = [pc EXCEPT ![p] = "idle"]
      /\ draft' = [draft EXCEPT ![p] = EmptyFile]
      /\ judging' = [judging EXCEPT ![p] = {}]
      /\ review' = [review EXCEPT ![p] =
           IF pc[p] = "gate" THEN [eval |-> evaluated, file |-> queue] ELSE NoReview]
      /\ mark' = [mark EXCEPT ![p] = <<>>]
      /\ UNCHANGED <<cand, insightVars, reviewVars, strategyVars, taskVars>>
      /\ faults < MaxFaults /\ faults' = faults + 1
  BY DEF StepRaises, Fault, At
<1>2. TypeOK /\ TasksInv
  BY DEF Shape
<1>3. pc'[p] # "mark" /\ pc' \in [Planners -> PlannerSteps] /\ draft'[p] = EmptyFile /\ judging'[p] = {}
  BY <1>1, <1>2 DEF TypeOK, PlannerSteps
<1>4. TypeOK'
  <2> DEFINE Reviews == [eval : 0..MaxEvals, file : [Evals -> ReviewStatus]]
  <2>1. NoReview \in Reviews /\ [eval |-> evaluated, file |-> queue] \in Reviews
    BY <1>2, ReviewAssumption DEF NoReview, NoEntries, ReviewStatus, TypeOK, ReviewTypeOK
  <2>2. review' \in [Planners -> Reviews]
    <3> HIDE DEF Reviews
    <3>1. review \in [Planners -> Reviews]
      BY <1>2 DEF TypeOK, Reviews
    <3> QED
      BY <1>1, <2>1, <3>1
  <2>3. draft' \in [Planners -> [InsightIds -> Insight]]
    <3>1. draft \in [Planners -> [InsightIds -> Insight]]
      BY <1>2 DEF TypeOK
    <3> QED
      BY <1>1, <3>1, InsightRecords
  <2>4. judging' \in [Planners -> SUBSET (InsightIds \X TaskIds)]
    BY <1>1, <1>2 DEF TypeOK
  <2>5. mark' \in [Planners -> InsightIds \X TaskIds \cup {<<>>}]
    BY <1>1, <1>2 DEF TypeOK
  <2>6. faults' \in 0..MaxFaults
    BY <1>1, <1>2, LoopAssumption DEF TypeOK
  <2> QED
    BY <1>1, <1>2, <1>3, <2>2, <2>3, <2>4, <2>5, <2>6 DEF TypeOK, InsightTypeOK, ReviewTypeOK,
       insightVars, reviewVars, strategyVars, taskVars
<1>5. TasksInv' /\ TasksKept
  BY <1>1, <1>2 DEF TasksInv, TasksKept, taskVars
<1>6. OwnWork(p)'
  BY <1>3 DEF OwnWork, OwnRecord, EmptyFile, Unknown, Settled
<1> QED
  BY <1>1, <1>4, <1>5, <1>6, PlannerShape, RecordsStay DEF Shape, insightVars

LEMMA DieShape ==
  ASSUME Shape, NEW p \in Planners, PlannerDies(p) PROVE Shape'
<1>1. /\ pc' = [pc EXCEPT ![p] = "idle"]
      /\ insights' = insights \/ insights' = EmptyFile
      /\ queue' = queue \/ queue' = NoEntries
      /\ draft' = [draft EXCEPT ![p] = EmptyFile]
      /\ cand' = [cand EXCEPT ![p] = {}]
      /\ judging' = [judging EXCEPT ![p] = {}]
      /\ review' = [review EXCEPT ![p] = NoReview]
      /\ mark' = [mark EXCEPT ![p] = <<>>]
      /\ UNCHANGED <<made, evaluated, gated, opCopy, opReview, strategyVars, taskVars>>
      /\ faults < MaxFaults /\ faults' = faults + 1
  BY DEF PlannerDies, Fault
<1>2. TypeOK /\ TasksInv
  BY DEF Shape
<1>3. pc'[p] = "idle" /\ pc' \in [Planners -> PlannerSteps] /\ draft'[p] = EmptyFile /\ judging'[p] = {}
  BY <1>1, <1>2 DEF TypeOK, PlannerSteps
<1>4. TypeOK'
  <2>1. NoReview \in [eval : 0..MaxEvals, file : [Evals -> ReviewStatus]]
        /\ NoEntries \in [Evals -> ReviewStatus]
    BY ReviewAssumption DEF NoReview, NoEntries, ReviewStatus
  <2>2. ReviewTypeOK' /\ InsightTypeOK'
    BY <1>1, <1>2, <2>1, InsightRecords DEF TypeOK, ReviewTypeOK, InsightTypeOK
  <2>3. draft' \in [Planners -> [InsightIds -> Insight]]
    <3>1. draft \in [Planners -> [InsightIds -> Insight]]
      BY <1>2 DEF TypeOK
    <3> QED
      BY <1>1, <3>1, InsightRecords
  <2>4. review' \in [Planners -> [eval : 0..MaxEvals, file : [Evals -> ReviewStatus]]]
    BY <1>1, <1>2, <2>1 DEF TypeOK
  <2>5. judging' \in [Planners -> SUBSET (InsightIds \X TaskIds)]
    BY <1>1, <1>2 DEF TypeOK
  <2>6. mark' \in [Planners -> InsightIds \X TaskIds \cup {<<>>}]
    BY <1>1, <1>2 DEF TypeOK
  <2>7. faults' \in 0..MaxFaults
    BY <1>1, <1>2, LoopAssumption DEF TypeOK
  <2>8. cand' \in [Planners -> SUBSET InsightIds]
    BY <1>1, <1>2 DEF TypeOK
  <2> QED
    BY <1>1, <1>2, <1>3, <2>2, <2>3, <2>4, <2>5, <2>6, <2>7, <2>8 DEF TypeOK, strategyVars, taskVars
<1>5. TasksInv' /\ TasksKept
  BY <1>1, <1>2 DEF TasksInv, TasksKept, taskVars
<1>6. \A i \in InsightIds : OwnRecord(i, insights[i])'
  <2>1. CASE UNCHANGED insights
    BY <1>5, <2>1, RecordsStay DEF Shape
  <2>2. CASE insights' = EmptyFile
    BY <2>2 DEF OwnRecord, EmptyFile, Unknown, Settled
  <2> QED
    BY <1>1, <2>1, <2>2
<1>7. OwnWork(p)'
  BY <1>3 DEF OwnWork, OwnRecord, EmptyFile, Unknown, Settled
<1> QED
  BY <1>4, <1>5, <1>6, <1>7, PlannerShape

LEMMA ShapeStep == Shape /\ [Next]_vars => Shape'
<1> SUFFICES ASSUME Shape, [Next]_vars PROVE Shape'
  OBVIOUS
<1>1. CASE UNCHANGED vars
  <2>1. TypeOK' /\ TasksInv' /\ TasksKept
    BY <1>1 DEF vars, Shape, TypeOK, InsightTypeOK, ReviewTypeOK, insightVars, reviewVars,
       plannerVars, strategyVars, taskVars, TasksInv, TasksKept
  <2> QED
    BY <1>1, <2>1, OthersShape DEF vars
<1>2. ASSUME NEW p \in Planners, PlannerTick(p) \/ PlannerDies(p) \/ StepRaises(p) PROVE Shape'
  BY <1>2, ExtractShape, SaveShape, ReadShape, ValidateShape, QuietShape, CreateShape, MarkShape,
     RaiseShape, DieShape DEF PlannerTick
<1>3. CASE Work \/ Review \/ OperatorDies
  BY <1>3, WorkShape, ReviewShape
<1>4. ASSUME NEW k \in Strategists, StrategyTick(k) \/ StrategistDies(k) PROVE Shape'
  BY <1>4, StrategyShape
<1> QED
  BY <1>1, <1>2, <1>3, <1>4 DEF Next, Faults

LEMMA ShapeAlways == Spec => []Shape
<1>1. Init => Shape
  BY InitShape
<1>2. Shape /\ [Next]_vars => Shape'
  BY ShapeStep
<1> QED
  BY <1>1, <1>2, PTL DEF Spec
-----------------------------------------------------------------------------
(* What is learnt however many planner ticks overlap. *)

\* Weights that hold what is processed, once, and no more than patches gave.
Earned(w) == \A i \in InsightIds :
  /\ w.applied[i] = IF i \in w.processed THEN 1 ELSE 0
  /\ i \in w.processed => PatchDone(i)

EarnedInv ==
  /\ Earned(strategy)
  /\ \A k \in Strategists :
       /\ Earned(sread[k])
       /\ spc[k] = "save" => \A i \in snew[k] : i \notin sread[k].processed /\ PatchDone(i)

\* A process other than the strategy tick moves.
LEMMA OthersKeepEarned ==
  ASSUME Shape, [Next]_vars, ~\E k \in Strategists : StrategyTick(k) \/ StrategistDies(k)
  PROVE  TasksKept /\ UNCHANGED strategyVars
<1>1. CASE UNCHANGED vars
  BY <1>1 DEF vars, taskVars, TasksKept
<1>2. ASSUME NEW p \in Planners, CreatePatch(p) \/ CreateAudit(p)
      PROVE  TasksKept /\ UNCHANGED strategyVars
  <2>1. CASE CreatePatch(p)
    <3>1. PICK i \in cand[p] : NewTask("patch", i)
      BY <2>1 DEF CreatePatch
    <3>2. i \in InsightIds
      BY DEF Shape, TypeOK
    <3> QED
      BY <2>1, <3>1, <3>2, NewTaskTypes DEF Shape, CreatePatch
  <2>2. CASE CreateAudit(p)
    <3>1. PICK s \in Signals : NewTask("audit", s)
      BY <2>2 DEF CreateAudit
    <3> QED
      BY <2>2, <3>1, NewTaskTypes DEF Shape, CreateAudit
  <2> QED
    BY <1>2, <2>1, <2>2
<1>3. ASSUME NEW p \in Planners,
             PlannerTick(p) \/ PlannerDies(p) \/ StepRaises(p), ~CreatePatch(p), ~CreateAudit(p)
      PROVE  UNCHANGED <<task, strategyVars>>
  BY <1>3 DEF PlannerTick, Extract, SaveExtracted, ReadInsights, ValidateOne, ValidateDone, Gate,
     Enqueue, CheckReviews, CreateNothing, Mark, PlannerDies, StepRaises, taskVars
<1>4. CASE Work
  <2>1. UNCHANGED strategyVars
    BY <1>4 DEF Work
  <2>2. PICK t \in TaskIds, st \in {"COMPLETED", "FAILED"} :
          task[t].status = "QUEUED" /\ task' = [task EXCEPT ![t].status = st]
    BY <1>4 DEF Work
  <2>3. TasksKept
    BY <2>2 DEF Shape, TypeOK, Task, TasksKept
  <2> QED
    BY <2>1, <2>3
<1>5. CASE Review \/ OperatorDies
  BY <1>5 DEF Review, OperatorDies, taskVars, TasksKept
<1>6. ASSUME NEW p \in Planners, PlannerTick(p) \/ PlannerDies(p) \/ StepRaises(p)
      PROVE  TasksKept /\ UNCHANGED strategyVars
  BY <1>2, <1>3, <1>6 DEF TasksKept
<1> QED
  BY <1>1, <1>4, <1>5, <1>6 DEF Next, Faults

LEMMA EarnedStep ==
  ASSUME Shape, EarnedInv, [Next]_vars PROVE EarnedInv'
<1>1. CASE ~\E k \in Strategists : StrategyTick(k) \/ StrategistDies(k)
  <2>1. TasksKept /\ UNCHANGED strategyVars
    BY <1>1, OthersKeepEarned
  <2>2. \A i \in InsightIds : PatchDone(i) => PatchDone(i)'
    BY <2>1 DEF TasksKept, PatchDone, HasPatch
  <2>3. \A k \in Strategists : snew[k] \in SUBSET InsightIds
    BY DEF Shape, TypeOK
  <2>4. Earned(strategy)'
    BY <2>1, <2>2 DEF EarnedInv, Earned, strategyVars
  <2>5. ASSUME NEW k \in Strategists PROVE Earned(sread[k])'
    BY <2>1, <2>2 DEF EarnedInv, Earned, strategyVars
  <2>6. ASSUME NEW k \in Strategists, spc'[k] = "save", NEW i \in snew'[k]
        PROVE  i \notin sread'[k].processed /\ PatchDone(i)'
    BY <2>1, <2>2, <2>3, <2>6 DEF EarnedInv, strategyVars
  <2> QED
    BY <2>4, <2>5, <2>6 DEF EarnedInv
<1>2. ASSUME NEW k \in Strategists, StrategyTick(k) \/ StrategistDies(k) PROVE EarnedInv'
  <2>1. TypeOK /\ UNCHANGED taskVars
    BY <1>2 DEF Shape, StrategyTick, LoadState, LoadInsights, SaveState, StrategistDies
  <2>2. \A i : PatchDone(i)' <=> PatchDone(i)
    BY <2>1 DEF taskVars, PatchDone, HasPatch
  <2>3. \A q \in Strategists : q # k =>
          spc'[q] = spc[q] /\ sread'[q] = sread[q] /\ snew'[q] = snew[q]
    BY <1>2, <2>1 DEF StrategyTick, LoadState, LoadInsights, SaveState, StrategistDies, TypeOK
  <2>4. \A i \in InsightIds : DefaultState.applied[i] = 0 /\ i \notin DefaultState.processed
    BY DEF DefaultState
  <2>5. /\ Earned(strategy) /\ Earned(sread[k])
        /\ spc[k] = "save" => \A i \in snew[k] : i \notin sread[k].processed /\ PatchDone(i)
    BY DEF EarnedInv
  <2>6. /\ \A i \in InsightIds :
             /\ strategy'.applied[i] = IF i \in strategy'.processed THEN 1 ELSE 0
             /\ i \in strategy'.processed => PatchDone(i)
             /\ sread'[k].applied[i] = IF i \in sread'[k].processed THEN 1 ELSE 0
             /\ i \in sread'[k].processed => PatchDone(i)
        /\ spc'[k] = "save" => \A i \in snew'[k] : i \notin sread'[k].processed /\ PatchDone(i)
    <3>1. CASE LoadState(k)
      <4>1. strategy' = strategy /\ sread'[k] = strategy /\ spc'[k] = "insights"
        BY <2>1, <3>1 DEF LoadState, TypeOK
      <4> QED
        BY <2>5, <4>1 DEF Earned
    <3>2. CASE LoadInsights(k)
      <4> DEFINE new == {i \in InsightIds : insights[i].status \in Terminal} \ sread[k].processed
      <4>1. /\ strategy' = strategy /\ snew'[k] = new
            /\ sread'[k] \in {DefaultState, sread[k]}
            /\ spc'[k] = "save" => sread'[k] = sread[k]
        BY <2>1, <3>2 DEF LoadInsights, TypeOK
      <4>2. \A i \in new : i \notin sread[k].processed /\ PatchDone(i)
        BY DEF Shape, OwnRecord, Terminal
      <4> QED
        BY <2>4, <2>5, <4>1, <4>2 DEF Earned
    <3>3. CASE SaveState(k)
      <4>1. /\ spc[k] = "save" /\ spc'[k] = "idle" /\ sread'[k] = DefaultState
            /\ strategy' = [processed |-> sread[k].processed \cup snew[k], applied |-> Adjusted(k)]
            /\ snew[k] \in SUBSET InsightIds /\ sread[k] \in Weights
        BY <2>1, <3>3 DEF SaveState, TypeOK
      <4> QED
        BY <2>4, <2>5, <4>1 DEF Earned, Adjusted
    <3>4. CASE StrategistDies(k)
      <4>1. spc'[k] = "idle" /\ sread'[k] = DefaultState /\ strategy' \in {strategy, DefaultState}
        BY <2>1, <3>4 DEF StrategistDies, TypeOK
      <4> QED
        BY <2>4, <2>5, <4>1 DEF Earned
    <3> QED
      BY <1>2, <3>1, <3>2, <3>3, <3>4 DEF StrategyTick
  <2>7. Earned(strategy)'
    BY <2>2, <2>6 DEF Earned
  <2>8. ASSUME NEW q \in Strategists
        PROVE  /\ Earned(sread[q])'
               /\ spc'[q] = "save" => \A i \in snew'[q] : i \notin sread'[q].processed /\ PatchDone(i)'
    <3>1. CASE q = k
      BY <2>2, <2>6, <3>1 DEF Earned
    <3>2. CASE q # k
      <4>1. /\ Earned(sread[q])
            /\ spc[q] = "save" => \A i \in snew[q] : i \notin sread[q].processed /\ PatchDone(i)
        BY DEF EarnedInv
      <4> QED
        BY <2>2, <2>3, <3>2, <4>1 DEF Earned
    <3> QED
      BY <3>1, <3>2
  <2> QED
    BY <2>7, <2>8 DEF EarnedInv
<1> QED
  BY <1>1, <1>2

LEMMA EarnedAlways == Spec => []EarnedInv
<1>1. Init => EarnedInv
  BY DEF Init, EarnedInv, Earned, DefaultState
<1>2. Shape /\ EarnedInv /\ [Next]_vars => EarnedInv'
  BY EarnedStep
<1> QED
  BY <1>1, <1>2, ShapeAlways, PTL DEF Spec

-----------------------------------------------------------------------------
(* What one planner at a time adds. *)

\* What the scheduler sees to: no planner tick begins while another one runs.
OnePlanner == \A p, q \in Planners : p = q

\* An insight that the strategy tick may have taken.
Known(i) == ~Fresh(i) /\ insights[i].status \in Settled \cup {"unknown"}

FileInv ==
  /\ \A i \in InsightIds :
       /\ Fresh(i) => insights[i] = Unknown
       /\ insights[i].status \in {"PATCH_QUEUED"} \cup Settled => HasPatch(i, insights[i].patch)
       /\ insights[i].status \in Settled => task[insights[i].patch].status = "COMPLETED"
  /\ OneActivePerSignal

\* What a planner has read still holds when it writes, as nobody else writes.
PlannerInv(p) ==
  /\ pc[p] = "save" => \A i \in InsightIds :
       \/ draft[p][i] = insights[i]
       \/ /\ draft[p][i].status = "PENDING"
          /\ i[2] = made[i[1]]
          /\ \A j \in InsightIds : j[1] = i[1] => insights[j].status \notin Active
  /\ pc[p] \in {"validate", "gate", "enqueue", "reviews", "create"} =>
       \A i \in cand[p] : insights[i].status = "PENDING"
  /\ pc[p] = "validate" => \A j \in judging[p] :
       insights[j[1]].status = "PATCH_QUEUED" /\ insights[j[1]].patch = j[2]
  /\ pc[p] = "mark" => /\ mark[p] \in InsightIds \X TaskIds
                       /\ insights[mark[p][1]].status = "PENDING"
                       /\ HasPatch(mark[p][1], mark[p][2])

\* Weights that hold what is processed, once.
Exact(w) == \A i \in InsightIds :
  /\ w.applied[i] = IF i \in w.processed THEN 1 ELSE 0
  /\ i \in w.processed => Known(i)

LearnInv ==
  /\ Exact(strategy)
  /\ \A k \in Strategists :
       /\ Exact(sread[k])
       /\ spc[k] = "save" => \A i \in snew[k] : i \notin sread[k].processed /\ Known(i)

SoloInv == /\ FileInv /\ LearnInv
           /\ \A p \in Planners : PlannerInv(p)

Inv == Shape /\ SoloInv


LEMMA InitInv == Init => Inv
<1> SUFFICES ASSUME Init PROVE SoloInv
  BY InitShape DEF Inv
<1> USE DEF Init, InsightInit, EmptyFile, Unknown, DefaultState
<1>1. FileInv
  BY DEF FileInv, OneActivePerSignal, StatusOf, Active, Settled, InsightIds
<1>2. LearnInv
  BY DEF LearnInv, Exact
<1>3. \A p \in Planners : PlannerInv(p)
  BY DEF PlannerInv
<1> QED
  BY <1>1, <1>2, <1>3 DEF SoloInv

-----------------------------------------------------------------------------
(* Steps that leave the insights, the tasks and the weights alone. *)

\* What these steps have in common; no planner comes to hold an unsaved insight.
LEMMA QuietFiles ==
  ASSUME Inv, UNCHANGED <<insightVars, taskVars, strategyVars>>,
         \A p \in Planners : pc'[p] = "save" => pc[p] = "save" /\ draft'[p] = draft[p]
  PROVE  FileInv' /\ LearnInv'
<1> USE DEF insightVars, taskVars, strategyVars
<1>1. \A i \in InsightIds : Fresh(i)' => Fresh(i)
  BY DEF Fresh
<1>2. \A i \in InsightIds : Known(i) => Known(i)'
  BY <1>1 DEF Known
<1>4. FileInv'
  BY <1>1 DEF Inv, Shape, SoloInv, FileInv, HasPatch, OneActivePerSignal, StatusOf
<1>5. LearnInv'
  <2>1. Exact(strategy)'
    BY <1>2 DEF Inv, Shape, SoloInv, LearnInv, Exact
  <2>2. ASSUME NEW k \in Strategists PROVE Exact(sread[k])'
    BY <1>2 DEF Inv, Shape, SoloInv, LearnInv, Exact
  <2>3. ASSUME NEW k \in Strategists, spc'[k] = "save", NEW i \in snew'[k]
        PROVE  i \notin sread'[k].processed /\ Known(i)'
    BY <1>2, <2>3 DEF Inv, Shape, SoloInv, LearnInv, TypeOK
  <2> QED
    BY <2>1, <2>2, <2>3 DEF LearnInv
<1> QED
  BY <1>4, <1>5

LEMMA QuietPlanner ==
  ASSUME Inv, NEW p \in Planners,
         ReadInsights(p) \/ ValidateDone(p) \/ Gate(p) \/ Enqueue(p)
         \/ CheckReviews(p) \/ CreateNothing(p)
  PROVE  SoloInv'
<1> USE DEF At
<1>0. TypeOK /\ FileInv /\ \A q \in Planners : PlannerInv(q)
  BY DEF Inv, Shape, SoloInv
<1>1. CASE ReadInsights(p)
  <2> USE <1>1 DEF ReadInsights
  <2>1. \A i \in Queued : <<i, insights[i].patch>> \in InsightIds \X TaskIds
    BY <1>0 DEF Queued, WithStatus, FileInv, HasPatch
  <2>3. \A q \in Planners : PlannerInv(q)'
    <3> SUFFICES ASSUME NEW q \in Planners PROVE PlannerInv(q)'
      OBVIOUS
    <3>1. UNCHANGED <<insights, made, task, draft, mark>>
      BY DEF insightVars, taskVars
    <3>2. CASE q = p
      <4>1. pc'[q] = "validate" /\ cand'[q] = WithStatus("PENDING")
            /\ judging'[q] = {<<i, insights[i].patch>> : i \in {j \in Queued : ~insights[j].stamped}}
        BY <1>0, <3>2 DEF TypeOK
      <4> QED
        BY <3>1, <4>1 DEF PlannerInv, WithStatus, Queued
    <3>3. CASE q # p
      <4>1. pc'[q] = pc[q] /\ cand'[q] = cand[q] /\ judging'[q] = judging[q]
        BY <1>0, <3>3 DEF TypeOK
      <4>2. PlannerInv(q)
        BY <1>0
      <4> QED
        BY <3>1, <4>1, <4>2 DEF PlannerInv, HasPatch
    <3> QED
      BY <3>2, <3>3
  <2>4. FileInv' /\ LearnInv'
    BY <1>0, QuietFiles DEF TypeOK
  <2> QED
    BY <2>3, <2>4 DEF SoloInv
<1>2. CASE ValidateDone(p) \/ Gate(p) \/ Enqueue(p) \/ CheckReviews(p) \/ CreateNothing(p)
  <2> USE <1>2 DEF ValidateDone, Gate, Enqueue, CheckReviews, CreateNothing
  <2>1. UNCHANGED <<insightVars, taskVars, strategyVars, draft, judging, mark, faults>>
    BY DEF reviewVars
  <2>3. \A q \in Planners : PlannerInv(q)'
    <3> SUFFICES ASSUME NEW q \in Planners PROVE PlannerInv(q)'
      OBVIOUS
    <3>1. /\ cand'[q] = cand[q] \/ cand'[q] = {}
          /\ \/ pc'[q] = pc[q]
             \/ pc'[q] = "idle"
             \/ /\ pc'[q] \in {"gate", "enqueue", "reviews", "create"}
                /\ pc[q] \in {"validate", "gate", "enqueue", "reviews"}
      BY <1>0 DEF TypeOK
    <3>2. PlannerInv(q)
      BY <1>0
    <3> QED
      BY <2>1, <3>1, <3>2 DEF PlannerInv, HasPatch, insightVars, taskVars
  <2>4. \A q \in Planners : pc'[q] = "save" => pc[q] = "save" /\ draft'[q] = draft[q]
    BY <1>0, <2>1 DEF TypeOK
  <2>5. FileInv' /\ LearnInv'
    BY <2>1, <2>4, QuietFiles
  <2> QED
    BY <2>3, <2>5 DEF SoloInv
<1> QED
  BY <1>1, <1>2

\* Evaluations and the operator, and his death.
LEMMA QuietReview ==
  ASSUME Inv, Review \/ OperatorDies
  PROVE  SoloInv'
<1>1. UNCHANGED <<insightVars, plannerVars, strategyVars, taskVars>>
  BY DEF Review, OperatorDies
<1>2. ReviewTypeOK' /\ faults' \in 0..MaxFaults
  BY LoopAssumption, ReviewAssumption
  DEF Inv, Shape, SoloInv, TypeOK, Review, OperatorDies, Fault, RecordEvaluation, Operator, OperatorLoads,
      OperatorSaves, ReviewTypeOK, ReviewStatus, NoEntries, Evals
<1>4. \A q \in Planners : PlannerInv(q)'
  BY <1>1 DEF Inv, Shape, SoloInv, PlannerInv, HasPatch, insightVars, plannerVars, taskVars
<1>5. FileInv' /\ LearnInv'
  BY <1>1, QuietFiles DEF plannerVars
<1> QED
  BY <1>4, <1>5 DEF SoloInv

-----------------------------------------------------------------------------
(* Steps of the planner on the insights and the tasks. *)

\* The strategy tick keeps what it knows when another process moves.
LEMMA LearnKept ==
  ASSUME Inv, UNCHANGED strategyVars, \A i \in InsightIds : Known(i) => Known(i)'
  PROVE  LearnInv'
<1> USE DEF strategyVars
<1>1. Exact(strategy)'
  BY DEF Inv, Shape, SoloInv, LearnInv, Exact
<1>2. ASSUME NEW k \in Strategists PROVE Exact(sread[k])'
  BY DEF Inv, Shape, SoloInv, LearnInv, Exact
<1>3. ASSUME NEW k \in Strategists, spc'[k] = "save", NEW i \in snew'[k]
      PROVE  i \notin sread'[k].processed /\ Known(i)'
  BY <1>3 DEF Inv, Shape, SoloInv, LearnInv, TypeOK
<1> QED
  BY <1>1, <1>2, <1>3 DEF LearnInv

LEMMA ExtractStep ==
  ASSUME Inv, OnePlanner, NEW p \in Planners, Extract(p)
  PROVE  SoloInv'
<1> DEFINE mined == {s \in Signals \ ActiveSignals : Audits(s) # {} /\ made[s] < Rounds}
           source == [s \in mined |-> Newest(Audits(s))]
<1>1. /\ pc[p] = "idle" /\ pc' = [pc EXCEPT ![p] = IF mined = {} THEN "candidates" ELSE "save"]
      /\ draft' = [draft EXCEPT ![p] = Mined(mined, source)]
      /\ made' = [s \in Signals |-> IF s \in mined THEN made[s] + 1 ELSE made[s]]
      /\ UNCHANGED <<insights, reviewVars, strategyVars, taskVars, faults,
                     cand, judging, review, mark>>
  BY DEF Extract, At
<1>2. \A s \in mined : source[s] \in TaskIds
  BY NewestExists DEF Audits
<1>3. TypeOK /\ FileInv /\ TasksInv
  BY DEF Inv, Shape, SoloInv
<1>4. \A s \in mined : s \notin ActiveSignals /\ made[s] < Rounds /\ s \in Signals
  OBVIOUS
<1> HIDE DEF mined, source
<1>5. \A i \in InsightIds : Mined(mined, source)[i] =
        IF i[1] \in mined /\ i[2] = made[i[1]] + 1
        THEN [Unknown EXCEPT !.status = "PENDING", !.source = source[i[1]]]
        ELSE insights[i]
  BY DEF Mined
<1>6. Mined(mined, source) \in [InsightIds -> Insight]
  <2>1. \A i \in InsightIds : Mined(mined, source)[i] \in Insight
    <3> SUFFICES ASSUME NEW i \in InsightIds PROVE Mined(mined, source)[i] \in Insight
      OBVIOUS
    <3>1. CASE i[1] \in mined /\ i[2] = made[i[1]] + 1
      BY <1>2, <1>5, <3>1, InsightRecords
    <3>2. CASE ~(i[1] \in mined /\ i[2] = made[i[1]] + 1)
      BY <1>3, <1>5, <3>2 DEF TypeOK, InsightTypeOK
    <3> QED
      BY <3>1, <3>2
  <2> QED
    BY <2>1 DEF Mined
<1>7. draft'[p] = Mined(mined, source) /\ \A q \in Planners : q = p
  BY <1>1, <1>3 DEF TypeOK, OnePlanner
<1>9. \A i \in InsightIds : i[1] \in mined => made'[i[1]] = made[i[1]] + 1
  BY <1>1, <1>4
<1>10. \A i \in InsightIds : Fresh(i)' => Fresh(i)
  <2> SUFFICES ASSUME NEW i \in InsightIds, Fresh(i)' PROVE Fresh(i)
    OBVIOUS
  <2>1. made[i[1]] \in Nat /\ i[2] \in Nat
        /\ made'[i[1]] = IF i[1] \in mined THEN made[i[1]] + 1 ELSE made[i[1]]
    BY <1>1, <1>3, InsightPair DEF TypeOK, InsightTypeOK
  <2>2. CASE i[2] > made'[i[1]]
    BY <2>1, <2>2 DEF Fresh
  <2>3. CASE \E q \in Planners : pc'[q] = "save" /\ draft'[q][i] # insights'[i]
    <3>1. i[2] = made[i[1]] + 1
      BY <1>1, <1>5, <1>7, <2>3
    <3> QED
      BY <2>1, <3>1 DEF Fresh
  <2> QED
    BY <2>2, <2>3 DEF Fresh
<1>11. FileInv'
  BY <1>1, <1>3, <1>10 DEF TasksInv, FileInv, HasPatch, OneActivePerSignal, StatusOf, taskVars
<1>12. LearnInv'
  <2>1. \A i \in InsightIds : Known(i) => Known(i)'
    BY <1>1, <1>10 DEF Known
  <2> QED
    BY <1>1, <2>1, LearnKept
<1>13. PlannerInv(p)'
  <2>1. pc'[p] \in {"candidates", "save"}
    BY <1>1, <1>3 DEF TypeOK
  <2>2. ASSUME NEW i \in InsightIds, draft'[p][i] # insights'[i]
        PROVE  /\ draft'[p][i].status = "PENDING"
               /\ i[2] = made'[i[1]]
               /\ \A j \in InsightIds : j[1] = i[1] => insights'[j].status \notin Active
    <3>1. i[1] \in mined /\ i[2] = made[i[1]] + 1
          /\ draft'[p][i] = [Unknown EXCEPT !.status = "PENDING", !.source = source[i[1]]]
      BY <1>1, <1>5, <1>7, <2>2
    <3>2. \A j \in InsightIds : j[1] = i[1] => insights[j].status \notin Active
      BY <1>4, <3>1, InsightPair DEF ActiveSignals
    <3> QED
      BY <1>1, <1>9, <3>1, <3>2 DEF Unknown
  <2> QED
    BY <2>1, <2>2 DEF PlannerInv
<1> QED
  BY <1>7, <1>11, <1>12, <1>13 DEF SoloInv

\* What the extraction saves is new, and of signals that have nothing active.
LEMMA SavedFresh ==
  ASSUME Inv, OnePlanner, NEW p \in Planners, SaveExtracted(p), NEW i \in InsightIds
  PROVE  /\ made[i[1]] \in Nat /\ i[2] \in Nat
         /\ Fresh(i)' <=> i[2] > made[i[1]]
         /\ insights'[i] # insights[i] =>
              /\ Fresh(i) /\ ~Fresh(i)' /\ insights[i] = Unknown
              /\ insights'[i].status = "PENDING" /\ i[2] = made[i[1]]
              /\ \A j \in InsightIds : j[1] = i[1] => insights[j].status \notin Active
<1>1. /\ pc[p] = "save" /\ pc' = [pc EXCEPT ![p] = "candidates"]
      /\ insights' = draft[p] /\ UNCHANGED made
  BY DEF SaveExtracted, At
<1>2. TypeOK /\ FileInv /\ PlannerInv(p)
  BY DEF Inv, Shape, SoloInv
<1>3. pc'[p] = "candidates" /\ \A q \in Planners : q = p
  BY <1>1, <1>2 DEF TypeOK, OnePlanner
<1>4. made[i[1]] \in Nat /\ i[2] \in Nat
  BY <1>2, InsightPair DEF TypeOK, InsightTypeOK
<1>5. Fresh(i)' <=> i[2] > made[i[1]]
  BY <1>1, <1>3 DEF Fresh
<1>6. ASSUME insights'[i] # insights[i]
      PROVE  /\ Fresh(i) /\ insights[i] = Unknown
             /\ insights'[i].status = "PENDING" /\ i[2] = made[i[1]]
             /\ \A j \in InsightIds : j[1] = i[1] => insights[j].status \notin Active
  BY <1>1, <1>2, <1>6 DEF Fresh, FileInv, PlannerInv
<1> QED
  BY <1>4, <1>5, <1>6

LEMMA SaveStep ==
  ASSUME Inv, OnePlanner, NEW p \in Planners, SaveExtracted(p)
  PROVE  SoloInv' /\ \A i \in InsightIds : StatusOf(i) \in Settled => insights'[i] = insights[i]
<1>1. /\ pc[p] = "save" /\ pc' = [pc EXCEPT ![p] = "candidates"]
      /\ insights' = draft[p] /\ draft' = [draft EXCEPT ![p] = EmptyFile]
      /\ UNCHANGED <<made, reviewVars, strategyVars, taskVars, faults, cand, judging, review, mark>>
  BY DEF SaveExtracted, At
<1>2. TypeOK /\ FileInv /\ TasksInv /\ PlannerInv(p)
  BY DEF Inv, Shape, SoloInv
<1>3. pc'[p] = "candidates" /\ \A q \in Planners : q = p
  BY <1>1, <1>2 DEF TypeOK, OnePlanner
<1>5. ASSUME NEW i \in InsightIds
      PROVE  /\ made[i[1]] \in Nat /\ i[2] \in Nat
             /\ Fresh(i)' <=> i[2] > made[i[1]]
             /\ insights'[i] # insights[i] =>
                  /\ Fresh(i) /\ ~Fresh(i)' /\ insights[i] = Unknown
                  /\ insights'[i].status = "PENDING" /\ i[2] = made[i[1]]
                  /\ \A j \in InsightIds : j[1] = i[1] => insights[j].status \notin Active
  BY SavedFresh
<1>6. FileInv'
  <2>1. ASSUME NEW i \in InsightIds
        PROVE  /\ Fresh(i)' => insights'[i] = Unknown
               /\ insights'[i].status \in {"PATCH_QUEUED"} \cup Settled =>
                    HasPatch(i, insights[i].patch)' /\ insights'[i].patch = insights[i].patch
               /\ insights'[i].status \in Settled => task'[insights'[i].patch].status = "COMPLETED"
    <3>1. CASE insights'[i] = insights[i]
      BY <1>1, <1>2, <1>5, <3>1 DEF FileInv, HasPatch, taskVars, Fresh
    <3>2. CASE insights'[i] # insights[i]
      BY <1>5, <3>2 DEF Settled
    <3> QED
      BY <3>1, <3>2
  <2>2. ASSUME NEW i \in InsightIds, NEW j \in InsightIds, i[1] = j[1],
               insights'[i].status \in Active, insights'[j].status \in Active
        PROVE  i = j
    <3>1. CASE insights'[i] = insights[i] /\ insights'[j] = insights[j]
      BY <1>2, <2>2, <3>1 DEF FileInv, OneActivePerSignal, StatusOf
    <3>2. CASE insights'[i] # insights[i] /\ insights'[j] # insights[j]
      BY <1>5, <2>2, <3>2, InsightPair
    <3>3. CASE insights'[i] # insights[i] /\ insights'[j] = insights[j]
      BY <1>5, <2>2, <3>3
    <3>4. CASE insights'[i] = insights[i] /\ insights'[j] # insights[j]
      BY <1>5, <2>2, <3>4
    <3> QED
      BY <3>1, <3>2, <3>3, <3>4
  <2>3. OneActivePerSignal'
    BY <2>2 DEF OneActivePerSignal, StatusOf
  <2>4. ASSUME NEW i \in InsightIds, insights'[i].status \in {"PATCH_QUEUED"} \cup Settled
        PROVE  HasPatch(i, insights[i].patch)'
    BY <2>1, <2>4
  <2> QED
    BY <2>1, <2>3, <2>4 DEF FileInv, HasPatch
<1>7. LearnInv'
  <2>1. \A i \in InsightIds : Known(i) => Known(i)'
    BY <1>5 DEF Known, Fresh
  <2> QED
    BY <1>1, <2>1, LearnKept
<1>8. PlannerInv(p)'
  BY <1>1, <1>2, <1>3 DEF TasksInv, PlannerInv, taskVars
<1>9. \A i \in InsightIds : StatusOf(i) \in Settled => insights'[i] = insights[i]
  BY <1>5 DEF StatusOf, Unknown, Settled
<1> QED
  BY <1>3, <1>6, <1>7, <1>8, <1>9 DEF SoloInv

\* The verdicts that a step leaves alone, as SettledStays asks.
VerdictsKept == \A i \in InsightIds : StatusOf(i) \in Settled => insights'[i] \in {insights[i], Unknown}

\* A step that changes one insight which has no verdict, not into an unknown
\* one, and which is PENDING or in the hands of the planner.
LEMMA OneInsight ==
  ASSUME Inv, OnePlanner, NEW p \in Planners, pc[p] # "save", pc'[p] # "save",
         NEW i \in InsightIds, insights[i].status \in Active,
         NEW r, insights' = [insights EXCEPT ![i] = r],
         r.status \in Active \cup Settled,
         r.status = "PATCH_QUEUED" \/ r.status \in Settled => HasPatch(i, r.patch),
         r.status \in Settled => task[r.patch].status = "COMPLETED",
         UNCHANGED <<made, taskVars, strategyVars>>
  PROVE  FileInv' /\ LearnInv' /\ VerdictsKept
<1> USE DEF taskVars
<1>1. TypeOK /\ FileInv /\ TasksInv
  BY DEF Inv, Shape, SoloInv
<1>2. insights'[i] = r /\ \A j \in InsightIds : j # i => insights'[j] = insights[j]
  BY <1>1 DEF TypeOK, InsightTypeOK
<1>3. ~Fresh(i) /\ i[2] <= made[i[1]] /\ made[i[1]] \in Nat /\ i[2] \in Nat
  <2>1. ~Fresh(i)
    BY <1>1 DEF FileInv, Unknown, Active
  <2>2. made[i[1]] \in Nat /\ i[2] \in Nat
    BY <1>1, InsightPair DEF TypeOK, InsightTypeOK
  <2> QED
    BY <2>1, <2>2 DEF Fresh
<1>4. \A j \in InsightIds : Fresh(j)' <=> Fresh(j)
  BY DEF Fresh, OnePlanner
<1>5. ASSUME NEW j \in InsightIds
      PROVE  /\ Fresh(j)' => insights'[j] = Unknown
             /\ insights'[j].status \in {"PATCH_QUEUED"} \cup Settled => HasPatch(j, insights'[j].patch)
             /\ insights'[j].status \in Settled => task'[insights'[j].patch].status = "COMPLETED"
             /\ insights'[j].status \in Active => insights[j].status \in Active
  <2>1. CASE j = i
    BY <1>2, <1>3, <1>4, <2>1
  <2>2. CASE j # i
    BY <1>1, <1>2, <1>4, <2>2 DEF FileInv
  <2> QED
    BY <2>1, <2>2
<1>6. FileInv'
  <2>1. OneActivePerSignal'
    BY <1>1, <1>5 DEF FileInv, OneActivePerSignal, StatusOf
  <2> QED
    BY <1>5, <2>1 DEF FileInv, HasPatch
<1>7. LearnInv'
  <2>1. \A j \in InsightIds : Known(j) => Known(j)'
    BY <1>2, <1>4 DEF Known, Active, Settled
  <2> QED
    BY <2>1, LearnKept
<1>8. VerdictsKept
  BY <1>2 DEF VerdictsKept, StatusOf, Active, Settled
<1> QED
  BY <1>1, <1>6, <1>7, <1>8 DEF TasksInv

LEMMA ValidateStep ==
  ASSUME Inv, OnePlanner, NEW p \in Planners, ValidateOne(p)
  PROVE  SoloInv' /\ VerdictsKept
<1>1. pc[p] = "validate" /\ UNCHANGED <<made, reviewVars, strategyVars, taskVars, faults,
                                         pc, draft, cand, review, mark>>
  BY DEF ValidateOne
<1>2. PICK j \in judging[p] :
        /\ judging' = [judging EXCEPT ![p] = @ \ {j}]
        /\ IF CanValidate(j[2])
           THEN \E verdict \in Settled : UpdateInsightState(j[1], verdict)
           ELSE UNCHANGED insights
  BY DEF ValidateOne
<1>3. TypeOK /\ FileInv /\ TasksInv /\ PlannerInv(p) /\ \A q \in Planners : q = p
  BY DEF Inv, Shape, SoloInv, OnePlanner
<1>4. /\ j \in InsightIds \X TaskIds /\ insights[j[1]].status = "PATCH_QUEUED"
      /\ insights[j[1]].patch = j[2] /\ j[1] \in InsightIds /\ insights[j[1]] \in Insight
  BY <1>1, <1>3 DEF TypeOK, PlannerInv, InsightTypeOK
<1>5. judging'[p] = judging[p] \ {j} /\ judging' \in [Planners -> SUBSET (InsightIds \X TaskIds)]
  BY <1>2, <1>3 DEF TypeOK
<1>6. CASE CanValidate(j[2])
  <2>1. PICK verdict \in Settled : UpdateInsightState(j[1], verdict)
    BY <1>2, <1>6
  <2> DEFINE r == [insights[j[1]] EXCEPT !.status = verdict, !.stamped = insights[j[1]].stamped \/ verdict # "FAILED"]
  <2>2. insights[j[1]] # Unknown
    BY <1>4 DEF Unknown
  <2>3. insights' = [insights EXCEPT ![j[1]] = r]
    <3>1. insights' = [insights EXCEPT ![j[1]] =
                         IF insights[j[1]] = Unknown THEN insights[j[1]] ELSE r]
      BY <2>1, Zenon DEF UpdateInsightState
    <3> HIDE DEF r
    <3> QED
      BY <2>2, <3>1
  <2>4. r.status = verdict /\ r.patch = j[2] /\ r \in Insight
    BY <1>4 DEF Insight, Settled
  <2>5. HasPatch(j[1], j[2]) /\ task[j[2]].status = "COMPLETED"
    BY <1>3, <1>4, <1>6 DEF FileInv, CanValidate
  <2>6. insights[j[1]].status \in Active /\ verdict \in Active \cup Settled
    BY <1>4 DEF Active
  <2> HIDE DEF r
  <2>7. FileInv' /\ LearnInv' /\ VerdictsKept
    BY <1>1, <1>4, <2>3, <2>4, <2>5, <2>6, OneInsight
  <2>9. PlannerInv(p)'
    <3>1. \A i \in InsightIds : i # j[1] => insights'[i] = insights[i]
      BY <1>3, <2>3 DEF TypeOK, InsightTypeOK
    <3>2. \A i \in cand[p] : i \in InsightIds /\ i # j[1]
      BY <1>1, <1>3, <1>4 DEF PlannerInv, TypeOK
    <3>3. \A k \in judging'[p] : k[1] \in InsightIds /\ k[1] # j[1] /\ k \in judging[p]
      <4> SUFFICES ASSUME NEW k \in judging[p], k # j, k[1] = j[1] PROVE FALSE
        BY <1>3, <1>5 DEF TypeOK
      <4>1. k \in InsightIds \X TaskIds /\ k[2] = j[2]
        BY <1>1, <1>3, <1>4 DEF PlannerInv, TypeOK
      <4> QED
        BY <1>4, <4>1
    <3> QED
      BY <1>1, <1>3, <3>1, <3>2, <3>3 DEF PlannerInv
  <2> QED
    BY <1>3, <2>7, <2>9 DEF SoloInv
<1>7. CASE ~CanValidate(j[2])
  <2>1. UNCHANGED insights
    BY <1>2, <1>7
  <2>3. PlannerInv(p)'
    BY <1>1, <1>3, <1>5, <2>1 DEF PlannerInv
  <2>4. FileInv' /\ LearnInv'
    BY <1>1, <2>1, QuietFiles DEF insightVars
  <2> QED
    BY <1>3, <2>1, <2>3, <2>4 DEF SoloInv, VerdictsKept
<1> QED
  BY <1>6, <1>7

LEMMA MarkStep ==
  ASSUME Inv, OnePlanner, NEW p \in Planners, Mark(p)
  PROVE  SoloInv' /\ VerdictsKept
<1>1. /\ pc[p] = "mark" /\ pc' = [pc EXCEPT ![p] = "idle"]
      /\ MarkPatchQueued(mark[p][1], mark[p][2]) /\ mark' = [mark EXCEPT ![p] = <<>>]
      /\ UNCHANGED <<made, reviewVars, strategyVars, taskVars, faults, draft, cand, judging, review>>
  BY DEF Mark, At
<1>2. TypeOK /\ FileInv /\ TasksInv /\ PlannerInv(p) /\ \A q \in Planners : q = p
  BY DEF Inv, Shape, SoloInv, OnePlanner
<1> DEFINE i == mark[p][1]
           t == mark[p][2]
           r == [insights[i] EXCEPT !.status = "PATCH_QUEUED", !.patch = t]
<1>3. /\ i \in InsightIds /\ t \in TaskIds /\ insights[i].status = "PENDING"
      /\ HasPatch(i, t) /\ insights[i] \in Insight
  BY <1>1, <1>2 DEF PlannerInv, TypeOK, InsightTypeOK
<1>4. pc'[p] = "idle"
  BY <1>1, <1>2 DEF TypeOK
<1>5. insights[i] # Unknown /\ insights[i].status \in Active
  BY <1>3 DEF Unknown, Active
<1>6. r.status = "PATCH_QUEUED" /\ r.patch = t /\ r \in Insight
  BY <1>3, InsightRecords DEF Insight
<1>7. insights' = [insights EXCEPT ![i] = r]
  BY <1>1, <1>2, <1>3, <1>5 DEF MarkPatchQueued, TypeOK, InsightTypeOK
<1>8. FileInv' /\ LearnInv' /\ VerdictsKept
  <2> HIDE DEF i, t, r
  <2>1. "PATCH_QUEUED" \in Active /\ "PATCH_QUEUED" \notin Settled
    BY DEF Active, Settled
  <2> QED
    BY <1>1, <1>3, <1>4, <1>5, <1>6, <1>7, <2>1, OneInsight
<1>10. PlannerInv(p)'
  BY <1>4 DEF PlannerInv
<1> QED
  BY <1>2, <1>8, <1>10 DEF SoloInv

\* A new task takes a number of its own, so no insight refers to it yet.
LEMMA NewTaskFiles ==
  ASSUME Inv, NEW kind \in {"audit", "patch"}, NEW topic \in Signals \cup InsightIds,
         NewTask(kind, topic), UNCHANGED <<insightVars, strategyVars>>,
         \A p \in Planners : pc'[p] = "save" => pc[p] = "save" /\ draft'[p] = draft[p]
  PROVE  /\ FileInv' /\ LearnInv'
         /\ task' \in [TaskIds -> Task] /\ last' \in TaskIds
         /\ task'[last'].kind = kind /\ task'[last'].topic = topic
         /\ \A i \in InsightIds, t \in TaskIds : HasPatch(i, t) => HasPatch(i, t)' /\ task'[t] = task[t]
<1> USE DEF insightVars, strategyVars
<1> DEFINE r == [kind |-> kind, topic |-> topic, status |-> "QUEUED"]
<1>1. TypeOK /\ FileInv /\ TasksInv
  BY DEF Inv, Shape, SoloInv
<1>2. last \in Nat /\ last < MaxTasks /\ last' = last + 1 /\ last' \in TaskIds
  BY <1>1, InsightAssumption DEF TypeOK, NewTask, TaskIds
<1>3. task' = [task EXCEPT ![last'] = r] /\ r \in Task
  BY DEF NewTask, Task
<1>4. task'[last'] = r /\ task' \in [TaskIds -> Task]
      /\ \A t \in TaskIds : t # last' => task'[t] = task[t]
  BY <1>1, <1>2, <1>3 DEF TypeOK
<1>5. task[last'] = NoneYet
  BY <1>1, <1>2 DEF TasksInv
<1>6. \A i \in InsightIds, t \in TaskIds : HasPatch(i, t) => HasPatch(i, t)' /\ task'[t] = task[t]
  BY <1>4, <1>5 DEF HasPatch, NoneYet
<1>8. \A i \in InsightIds : Fresh(i)' => Fresh(i)
  BY DEF Fresh
<1>9. FileInv'
  <2>1. OneActivePerSignal'
    BY <1>1 DEF FileInv, OneActivePerSignal, StatusOf
  <2>2. ASSUME NEW i \in InsightIds, insights[i].status \in {"PATCH_QUEUED"} \cup Settled
        PROVE  /\ HasPatch(i, insights[i].patch)'
               /\ insights[i].status \in Settled => task'[insights[i].patch].status = "COMPLETED"
    <3>1. HasPatch(i, insights[i].patch) /\ insights[i].patch \in TaskIds
      BY <1>1, <2>2 DEF FileInv, HasPatch
    <3>2. HasPatch(i, insights[i].patch)' /\ task'[insights[i].patch] = task[insights[i].patch]
      BY <1>6, <3>1 DEF HasPatch
    <3> QED
      BY <1>1, <3>2 DEF FileInv
  <2> QED
    BY <1>1, <1>8, <2>1, <2>2 DEF FileInv
<1>10. LearnInv'
  <2>1. \A i \in InsightIds : Known(i) => Known(i)'
    BY <1>8 DEF Known
  <2> QED
    BY <2>1, LearnKept
<1> QED
  BY <1>2, <1>4, <1>6, <1>9, <1>10

LEMMA CreateStep ==
  ASSUME Inv, OnePlanner, NEW p \in Planners, CreatePatch(p) \/ CreateAudit(p)
  PROVE  SoloInv'
<1>1. /\ pc[p] = "create" /\ pc' \in {[pc EXCEPT ![p] = "mark"], [pc EXCEPT ![p] = "idle"]}
      /\ cand' = [cand EXCEPT ![p] = {}]
      /\ UNCHANGED <<insightVars, reviewVars, strategyVars, faults, draft, judging, review>>
  BY DEF CreatePatch, CreateAudit, At
<1>2. TypeOK /\ FileInv /\ TasksInv /\ PlannerInv(p) /\ \A q \in Planners : q = p
  BY DEF Inv, Shape, SoloInv, OnePlanner
<1>3. pc'[p] \in {"mark", "idle"} /\ pc' \in [Planners -> PlannerSteps]
  BY <1>1, <1>2 DEF TypeOK, PlannerSteps
<1>4. cand' \in [Planners -> SUBSET InsightIds]
  BY <1>1, <1>2 DEF TypeOK
<1>5. CASE CreatePatch(p)
  <2>1. PICK i \in cand[p] : NewTask("patch", i) /\ mark' = [mark EXCEPT ![p] = <<i, last'>>]
    BY <1>5 DEF CreatePatch
  <2>2. i \in InsightIds /\ insights[i].status = "PENDING"
    BY <1>1, <1>2 DEF TypeOK, PlannerInv
  <2>3. /\ FileInv' /\ LearnInv'
        /\ task' \in [TaskIds -> Task] /\ last' \in TaskIds
        /\ task'[last'].kind = "patch" /\ task'[last'].topic = i
    BY <1>1, <1>2, <1>3, <2>1, <2>2, NewTaskFiles
  <2>4. mark'[p] = <<i, last'>> /\ mark' \in [Planners -> InsightIds \X TaskIds \cup {<<>>}]
    BY <1>2, <2>1, <2>2, <2>3 DEF TypeOK
  <2>5. last' \in 0..MaxTasks
    BY <2>3, InsightAssumption DEF TaskIds
  <2>7. PlannerInv(p)'
    BY <1>1, <1>3, <2>2, <2>3, <2>4 DEF PlannerInv, HasPatch, insightVars
  <2> QED
    BY <1>2, <2>3, <2>7 DEF SoloInv
<1>6. CASE CreateAudit(p)
  <2>1. PICK s \in Signals : NewTask("audit", s)
    BY <1>6 DEF CreateAudit
  <2>2. pc'[p] = "idle" /\ UNCHANGED mark
    BY <1>2, <1>6 DEF CreateAudit, At, TypeOK
  <2>3. /\ FileInv' /\ LearnInv'
        /\ task' \in [TaskIds -> Task] /\ last' \in TaskIds
    BY <1>1, <1>2, <1>3, <2>1, NewTaskFiles
  <2>4. last' \in 0..MaxTasks
    BY <2>3, InsightAssumption DEF TaskIds
  <2>6. PlannerInv(p)'
    BY <2>2 DEF PlannerInv
  <2> QED
    BY <1>2, <2>3, <2>6 DEF SoloInv
<1> QED
  BY <1>5, <1>6

LEMMA WorkStep ==
  ASSUME Inv, Work
  PROVE  SoloInv'
<1>1. PICK t \in TaskIds, st \in {"COMPLETED", "FAILED"} :
        task[t].status = "QUEUED" /\ task' = [task EXCEPT ![t].status = st]
  BY DEF Work
<1>2. UNCHANGED <<last, insightVars, reviewVars, plannerVars, strategyVars, faults>>
  BY DEF Work
<1> USE <1>2 DEF insightVars, plannerVars, strategyVars
<1>3. TypeOK /\ FileInv /\ TasksInv
  BY DEF Inv, Shape, SoloInv
<1>4. /\ task' \in [TaskIds -> Task]
      /\ \A u \in TaskIds : task'[u].kind = task[u].kind /\ task'[u].topic = task[u].topic
      /\ \A u \in TaskIds : u # t => task'[u] = task[u]
  BY <1>1, <1>3 DEF TypeOK, Task
<1>6. \A i \in InsightIds, u \in TaskIds : HasPatch(i, u) => HasPatch(i, u)'
  BY <1>4 DEF HasPatch
<1>7. \A i \in InsightIds : Fresh(i)' <=> Fresh(i)
  BY DEF Fresh
<1>8. FileInv'
  <2>1. OneActivePerSignal'
    BY <1>3 DEF FileInv, OneActivePerSignal, StatusOf
  <2>2. ASSUME NEW i \in InsightIds, insights[i].status \in {"PATCH_QUEUED"} \cup Settled
        PROVE  /\ HasPatch(i, insights[i].patch)'
               /\ insights[i].status \in Settled => task'[insights[i].patch].status = "COMPLETED"
    <3>1. HasPatch(i, insights[i].patch) /\ insights[i].patch \in TaskIds
      BY <1>3, <2>2 DEF FileInv, HasPatch
    <3>2. HasPatch(i, insights[i].patch)'
      BY <1>6, <3>1 DEF HasPatch
    <3> QED
      BY <1>1, <1>3, <1>4, <3>1, <3>2 DEF FileInv
  <2> QED
    BY <1>3, <1>7, <2>1, <2>2 DEF FileInv
<1>9. LearnInv'
  BY <1>7, LearnKept DEF Known
<1>11. ASSUME NEW q \in Planners PROVE PlannerInv(q)'
  <2>1. PlannerInv(q)
    BY DEF Inv, Shape, SoloInv
  <2> QED
    BY <1>4, <2>1 DEF PlannerInv, HasPatch
<1> QED
  BY <1>8, <1>9, <1>11 DEF SoloInv

-----------------------------------------------------------------------------
(* Faults of the planner. *)

LEMMA RaiseStep ==
  ASSUME Inv, OnePlanner, NEW p \in Planners, StepRaises(p)
  PROVE  SoloInv'
<1>1. /\ \/ /\ pc[p] = "save" /\ pc' = [pc EXCEPT ![p] = "candidates"]
         \/ /\ pc[p] = "validate" /\ pc' = [pc EXCEPT ![p] = "gate"]
         \/ /\ pc[p] = "gate" /\ pc' = [pc EXCEPT ![p] = "enqueue"]
         \/ /\ pc[p] = "enqueue" /\ pc' = [pc EXCEPT ![p] = "reviews"]
         \/ /\ pc[p] = "mark" /\ pc' = [pc EXCEPT ![p] = "idle"]
      /\ draft' = [draft EXCEPT ![p] = EmptyFile]
      /\ judging' = [judging EXCEPT ![p] = {}]
      /\ review' = [review EXCEPT ![p] =
           IF pc[p] = "gate" THEN [eval |-> evaluated, file |-> queue] ELSE NoReview]
      /\ mark' = [mark EXCEPT ![p] = <<>>]
      /\ UNCHANGED <<cand, insightVars, reviewVars, strategyVars, taskVars>>
      /\ faults < MaxFaults /\ faults' = faults + 1
  BY DEF StepRaises, Fault, At
<1>2. TypeOK /\ PlannerInv(p) /\ \A q \in Planners : q = p
  BY DEF Inv, Shape, SoloInv, OnePlanner
<1>3. /\ pc'[p] \in {"candidates", "gate", "enqueue", "reviews", "idle"}
      /\ pc'[p] \in {"gate", "enqueue", "reviews"} => pc[p] \in {"validate", "gate", "enqueue"}
      /\ pc' \in [Planners -> PlannerSteps]
  BY <1>1, <1>2 DEF TypeOK, PlannerSteps
<1>5. PlannerInv(p)'
  BY <1>1, <1>2, <1>3 DEF PlannerInv, insightVars
<1>6. FileInv' /\ LearnInv'
  BY <1>1, <1>2, <1>3, QuietFiles
<1> QED
  BY <1>2, <1>5, <1>6 DEF SoloInv

LEMMA DeathStep ==
  ASSUME Inv, OnePlanner, NEW p \in Planners, PlannerDies(p)
  PROVE  SoloInv' /\ VerdictsKept
<1>1. /\ pc' = [pc EXCEPT ![p] = "idle"]
      /\ insights' = insights \/ insights' = EmptyFile
      /\ queue' = queue \/ queue' = NoEntries
      /\ draft' = [draft EXCEPT ![p] = EmptyFile]
      /\ cand' = [cand EXCEPT ![p] = {}]
      /\ judging' = [judging EXCEPT ![p] = {}]
      /\ review' = [review EXCEPT ![p] = NoReview]
      /\ mark' = [mark EXCEPT ![p] = <<>>]
      /\ UNCHANGED <<made, evaluated, gated, opCopy, opReview, strategyVars, taskVars>>
      /\ faults < MaxFaults /\ faults' = faults + 1
  BY DEF PlannerDies, Fault
<1>2. TypeOK /\ FileInv /\ TasksInv /\ \A q \in Planners : q = p
  BY DEF Inv, Shape, SoloInv, OnePlanner
<1>3. pc'[p] = "idle" /\ pc' \in [Planners -> PlannerSteps]
  BY <1>1, <1>2 DEF TypeOK, PlannerSteps
<1>5. \A i \in InsightIds : insights'[i] \in {insights[i], Unknown}
  BY <1>1 DEF EmptyFile
<1>6. \A i \in InsightIds : Fresh(i)' => Fresh(i)
  BY <1>1, <1>2, <1>3 DEF Fresh
<1>7. FileInv'
  <2>1. \A i \in InsightIds : insights'[i].status \in {"PATCH_QUEUED", "PENDING"} \cup Settled
                                => insights'[i] = insights[i]
    BY <1>5 DEF Unknown, Settled
  <2>2. OneActivePerSignal'
    BY <1>2, <2>1 DEF FileInv, OneActivePerSignal, StatusOf, Active
  <2>3. \A i \in InsightIds : Fresh(i)' => insights'[i] = Unknown
    BY <1>2, <1>5, <1>6 DEF FileInv
  <2> QED
    BY <1>1, <1>2, <2>1, <2>2, <2>3 DEF FileInv, HasPatch, taskVars
<1>8. LearnInv'
  <2>1. \A i \in InsightIds : Known(i) => Known(i)'
    BY <1>5, <1>6 DEF Known, Unknown
  <2> QED
    BY <1>1, <2>1, LearnKept
<1>9. PlannerInv(p)'
  BY <1>1, <1>2, <1>3 DEF TasksInv, PlannerInv, taskVars
<1> QED
  BY <1>2, <1>5, <1>7, <1>8, <1>9 DEF SoloInv, VerdictsKept

-----------------------------------------------------------------------------
(* The strategy tick. *)

LEMMA DefaultExact == DefaultState \in Weights /\ Exact(DefaultState)
BY DEF DefaultState, Weights, Exact

\* A strategy tick moves: what it does to the weights and to what it has read.
LEMMA StrategyFrame ==
  ASSUME Inv, UNCHANGED <<insightVars, reviewVars, plannerVars, taskVars>>,
         faults' \in 0..MaxFaults,
         strategy' \in Weights,
         spc' \in [Strategists -> {"idle", "insights", "save"}],
         sread' \in [Strategists -> Weights], snew' \in [Strategists -> SUBSET InsightIds],
         \A i \in InsightIds : /\ strategy'.applied[i] = IF i \in strategy'.processed THEN 1 ELSE 0
                               /\ i \in strategy'.processed => Known(i),
         \A k \in Strategists :
           /\ \A i \in InsightIds :
                /\ sread'[k].applied[i] = IF i \in sread'[k].processed THEN 1 ELSE 0
                /\ i \in sread'[k].processed => Known(i)
           /\ spc'[k] = "save" => \A i \in snew'[k] : i \notin sread'[k].processed /\ Known(i)
  PROVE  SoloInv'
<1>1. \A i \in InsightIds : Fresh(i)' <=> Fresh(i)
  BY DEF Fresh, insightVars, plannerVars
<1>2. \A i \in InsightIds : Known(i)' <=> Known(i)
  BY <1>1 DEF Known, insightVars
<1>4. FileInv'
  BY <1>1 DEF Inv, Shape, SoloInv, TasksInv, FileInv, HasPatch, OneActivePerSignal, StatusOf, insightVars, taskVars
<1>5. LearnInv'
  BY <1>2 DEF LearnInv, Exact
<1>6. ASSUME NEW q \in Planners PROVE PlannerInv(q)'
  BY DEF Inv, Shape, SoloInv, PlannerInv, HasPatch, insightVars, plannerVars, taskVars
<1> QED
  BY <1>4, <1>5, <1>6 DEF SoloInv

LEMMA StrategyStep ==
  ASSUME Inv, NEW k \in Strategists, StrategyTick(k) \/ StrategistDies(k)
  PROVE  SoloInv' /\ UNCHANGED insights
<1>1. TypeOK /\ FileInv /\ LearnInv
  BY DEF Inv, Shape, SoloInv
<1>2. UNCHANGED <<insightVars, reviewVars, plannerVars, taskVars>> /\ faults' \in 0..MaxFaults
  BY <1>1, LoopAssumption DEF StrategyTick, LoadState, LoadInsights, SaveState, StrategistDies,
     Fault, TypeOK
<1>3. spc' \in [Strategists -> {"idle", "insights", "save"}]
  BY <1>1 DEF StrategyTick, LoadState, LoadInsights, SaveState, StrategistDies, TypeOK
<1>4. DefaultState \in Weights
      /\ \A i \in InsightIds : DefaultState.applied[i] = 0 /\ i \notin DefaultState.processed
  BY DefaultExact DEF DefaultState
<1>5. \A q \in Strategists : q # k =>
        spc'[q] = spc[q] /\ sread'[q] = sread[q] /\ snew'[q] = snew[q]
  BY <1>1 DEF StrategyTick, LoadState, LoadInsights, SaveState, StrategistDies, TypeOK
<1>6. \A q \in Strategists : /\ Exact(sread[q])
                             /\ spc[q] = "save" => \A i \in snew[q] : i \notin sread[q].processed /\ Known(i)
  BY <1>1 DEF LearnInv
<1>7. CASE LoadState(k)
  <2>1. /\ strategy' = strategy /\ snew' = snew
        /\ sread' = [sread EXCEPT ![k] = strategy] /\ spc'[k] = "insights"
    BY <1>1, <1>7 DEF LoadState, TypeOK
  <2>2. sread' \in [Strategists -> Weights] /\ sread'[k] = strategy
    BY <1>1, <2>1 DEF TypeOK
  <2> QED
    BY <1>1, <1>2, <1>3, <1>5, <1>6, <2>1, <2>2, StrategyFrame
    DEF TypeOK, LearnInv, Exact, insightVars
<1>8. CASE LoadInsights(k)
  <2> DEFINE new == {i \in InsightIds : insights[i].status \in Terminal} \ sread[k].processed
  <2>1. /\ strategy' = strategy
        /\ spc' = [spc EXCEPT ![k] = IF new = {} THEN "idle" ELSE "save"]
        /\ snew' = [snew EXCEPT ![k] = new]
        /\ sread' = [sread EXCEPT ![k] = IF new = {} THEN DefaultState ELSE sread[k]]
    BY <1>1, <1>8 DEF LoadInsights, TypeOK
  <2>2. ASSUME NEW i \in new
        PROVE  i \in InsightIds /\ i \notin sread[k].processed /\ Known(i)
    <3>1. i \in InsightIds /\ i \notin sread[k].processed /\ insights[i].status \in Settled
      BY <2>2 DEF Terminal
    <3>2. insights[i] # Unknown
      BY <3>1 DEF Unknown, Settled
    <3> QED
      BY <1>1, <3>1, <3>2 DEF Known, FileInv
  <2> HIDE DEF new
  <2>3. snew'[k] = new /\ snew' \in [Strategists -> SUBSET InsightIds]
    BY <1>1, <2>1, <2>2 DEF TypeOK
  <2>4. sread'[k] \in {DefaultState, sread[k]} /\ (spc'[k] = "save" => sread'[k] = sread[k])
    BY <1>1, <2>1 DEF TypeOK
  <2>5. sread' \in [Strategists -> Weights]
    BY <1>1, <1>4, <2>1 DEF TypeOK
  <2> QED
    BY <1>1, <1>2, <1>3, <1>4, <1>5, <1>6, <2>1, <2>2, <2>3, <2>4, <2>5, StrategyFrame
    DEF TypeOK, LearnInv, Exact, insightVars
<1>9. CASE SaveState(k)
  <2>1. /\ spc[k] = "save" /\ spc'[k] = "idle"
        /\ strategy' = [processed |-> sread[k].processed \cup snew[k], applied |-> Adjusted(k)]
        /\ sread' = [sread EXCEPT ![k] = DefaultState]
        /\ snew' = [snew EXCEPT ![k] = {}]
    BY <1>1, <1>9 DEF SaveState, TypeOK
  <2>2. sread[k] \in Weights /\ snew[k] \in SUBSET InsightIds
    BY <1>1 DEF TypeOK
  <2>3. strategy' \in Weights
    BY <2>1, <2>2 DEF Weights, Adjusted
  <2>4. ASSUME NEW i \in InsightIds
        PROVE  /\ strategy'.applied[i] = IF i \in strategy'.processed THEN 1 ELSE 0
               /\ i \in strategy'.processed => Known(i)
    BY <1>6, <2>1, <2>2 DEF Adjusted, Exact
  <2>5. /\ sread' \in [Strategists -> Weights] /\ sread'[k] = DefaultState
        /\ snew' \in [Strategists -> SUBSET InsightIds]
    BY <1>1, <1>4, <2>1 DEF TypeOK
  <2> QED
    BY <1>2, <1>3, <1>4, <1>5, <1>6, <2>1, <2>3, <2>4, <2>5, StrategyFrame
    DEF Exact, insightVars
<1>10. CASE StrategistDies(k)
  <2>1. /\ spc'[k] = "idle" /\ strategy' \in {strategy, DefaultState}
        /\ sread' = [sread EXCEPT ![k] = DefaultState]
        /\ snew' = [snew EXCEPT ![k] = {}]
    BY <1>1, <1>10 DEF StrategistDies, TypeOK
  <2>2. /\ sread' \in [Strategists -> Weights] /\ sread'[k] = DefaultState
        /\ snew' \in [Strategists -> SUBSET InsightIds]
    BY <1>1, <1>4, <2>1 DEF TypeOK
  <2> QED
    BY <1>1, <1>2, <1>3, <1>4, <1>5, <1>6, <2>1, <2>2, StrategyFrame
    DEF TypeOK, LearnInv, Exact, insightVars
<1> QED
  BY <1>7, <1>8, <1>9, <1>10 DEF StrategyTick

-----------------------------------------------------------------------------
(* Every step, and the theorems. *)

LEMMA NextInv ==
  ASSUME Inv, OnePlanner, [Next]_vars
  PROVE  SoloInv' /\ VerdictsKept
<1>1. CASE UNCHANGED vars
  <2>1. UNCHANGED <<insightVars, taskVars, strategyVars, pc, draft>>
    BY <1>1 DEF vars, plannerVars
  <2>2. FileInv' /\ LearnInv'
    BY <2>1, QuietFiles
  <2>4. \A q \in Planners : PlannerInv(q)'
    BY <1>1 DEF vars, Inv, Shape, SoloInv, PlannerInv, HasPatch, insightVars, plannerVars, taskVars
  <2> QED
    BY <2>1, <2>2, <2>4 DEF SoloInv, VerdictsKept, insightVars
<1>2. ASSUME NEW p \in Planners, PlannerTick(p) PROVE SoloInv' /\ VerdictsKept
  <2>1. CASE Extract(p)
    BY <2>1, ExtractStep DEF Extract, VerdictsKept
  <2>2. CASE SaveExtracted(p)
    BY <2>2, SaveStep DEF VerdictsKept
  <2>3. CASE ReadInsights(p) \/ ValidateDone(p) \/ Gate(p) \/ Enqueue(p)
             \/ CheckReviews(p) \/ CreateNothing(p)
    <3>1. UNCHANGED insights
      BY <2>3 DEF ReadInsights, ValidateDone, Gate, Enqueue, CheckReviews, CreateNothing, insightVars
    <3> QED
      BY <2>3, <3>1, QuietPlanner DEF VerdictsKept
  <2>4. CASE ValidateOne(p)
    BY <2>4, ValidateStep
  <2>5. CASE CreatePatch(p) \/ CreateAudit(p)
    <3>1. UNCHANGED insights
      BY <2>5 DEF CreatePatch, CreateAudit, insightVars
    <3> QED
      BY <2>5, <3>1, CreateStep DEF VerdictsKept
  <2>6. CASE Mark(p)
    BY <2>6, MarkStep
  <2> QED
    BY <1>2, <2>1, <2>2, <2>3, <2>4, <2>5, <2>6 DEF PlannerTick
<1>3. CASE Work
  BY <1>3, WorkStep DEF Work, insightVars, VerdictsKept
<1>4. CASE Review \/ OperatorDies
  BY <1>4, QuietReview DEF Review, OperatorDies, insightVars, VerdictsKept
<1>5. ASSUME NEW k \in Strategists, StrategyTick(k) \/ StrategistDies(k)
      PROVE  SoloInv' /\ VerdictsKept
  BY <1>5, StrategyStep DEF VerdictsKept
<1>6. ASSUME NEW p \in Planners, PlannerDies(p) PROVE SoloInv' /\ VerdictsKept
  BY <1>6, DeathStep
<1>7. ASSUME NEW p \in Planners, StepRaises(p) PROVE SoloInv' /\ VerdictsKept
  BY <1>7, RaiseStep DEF StepRaises, insightVars, VerdictsKept
<1> QED
  BY <1>1, <1>2, <1>3, <1>4, <1>5, <1>6, <1>7 DEF Next, Faults

LEMMA InvAlways == OnePlanner => (Spec => []Inv /\ [][VerdictsKept]_vars)
<1>1. Init => Inv
  BY InitInv
<1>2. OnePlanner /\ Inv /\ [Next]_vars => Inv' /\ VerdictsKept
  BY NextInv, ShapeStep DEF Inv
<1>3. OnePlanner => OnePlanner'
  BY DEF OnePlanner
<1> QED
  BY <1>1, <1>2, <1>3, PTL DEF Spec

-----------------------------------------------------------------------------
(* A pending review holds the planner. *)

\* The reviews that are pending, in the file or in the copies that are yet to be
\* written back, are known to a planner that writes the queue, and there are none
\* when it is about to create a task.
HeldInv ==
  faults = 0 =>
    /\ opReview # 0 => \A e \in Evals : opCopy[e] = "PENDING" => queue[e] = "PENDING"
    /\ \A p \in Planners :
         /\ pc[p] = "create" => \A e \in Evals : queue[e] # "PENDING"
         /\ pc[p] = "enqueue" => \A e \in Evals :
              queue[e] = "PENDING" \/ (opReview # 0 /\ opCopy[e] = "PENDING")
                => review[p].file[e] = "PENDING"

LEMMA HeldStep ==
  ASSUME TypeOK, OnePlanner, HeldInv, [Next]_vars
  PROVE  HeldInv'
<1> SUFFICES ASSUME faults' = 0
             PROVE  /\ opReview' # 0 => \A e \in Evals : opCopy'[e] = "PENDING" => queue'[e] = "PENDING"
                    /\ \A p \in Planners :
                         /\ pc'[p] = "create" => \A e \in Evals : queue'[e] # "PENDING"
                         /\ pc'[p] = "enqueue" => \A e \in Evals :
                              queue'[e] = "PENDING" \/ (opReview' # 0 /\ opCopy'[e] = "PENDING")
                                => review'[p].file[e] = "PENDING"
  BY DEF HeldInv
<1> USE DEF At
<1>1. faults = 0 /\ ~Faults
  <2>1. faults \in Nat
    BY LoopAssumption DEF TypeOK
  <2>2. ~Fault
    BY <2>1 DEF Fault
  <2>3. ~Faults
    BY <2>2 DEF Faults, PlannerDies, StepRaises, StrategistDies, OperatorDies
  <2>4. faults' = faults \/ Faults
    BY DEF Next, vars, PlannerTick, Extract, SaveExtracted, ReadInsights, ValidateOne, ValidateDone,
       Gate, Enqueue, CheckReviews, CreatePatch, CreateAudit, CreateNothing, Mark,
       Work, Review, StrategyTick, LoadState, LoadInsights, SaveState
  <2> QED
    BY <2>3, <2>4
<1>2. /\ opReview # 0 => \A e \in Evals : opCopy[e] = "PENDING" => queue[e] = "PENDING"
      /\ \A p \in Planners :
           /\ pc[p] = "create" => \A e \in Evals : queue[e] # "PENDING"
           /\ pc[p] = "enqueue" => \A e \in Evals :
                queue[e] = "PENDING" \/ (opReview # 0 /\ opCopy[e] = "PENDING")
                  => review[p].file[e] = "PENDING"
  BY <1>1 DEF HeldInv
<1>3. ASSUME NEW p \in Planners, Gate(p)
      PROVE  /\ UNCHANGED <<queue, opCopy, opReview>> /\ pc'[p] \in {"reviews", "enqueue"}
             /\ pc'[p] = "enqueue" => review'[p].file = queue
  BY <1>3 DEF Gate, TypeOK
<1>4. ASSUME NEW p \in Planners, Enqueue(p)
      PROVE  /\ UNCHANGED <<opCopy, opReview>> /\ pc[p] = "enqueue" /\ pc'[p] = "reviews"
             /\ \A e \in Evals : review[p].file[e] = "PENDING" => queue'[e] = "PENDING"
  BY <1>4 DEF Enqueue, TypeOK
<1>5. ASSUME NEW p \in Planners, CheckReviews(p)
      PROVE  /\ UNCHANGED reviewVars /\ pc'[p] \in {"create", "idle"}
             /\ pc'[p] = "create" => \A e \in Evals : queue[e] # "PENDING"
  BY <1>5 DEF CheckReviews, HoldingReviews, PendingReviews, TypeOK
<1>6. ASSUME NEW p \in Planners, PlannerTick(p), ~Gate(p), ~Enqueue(p), ~CheckReviews(p)
      PROVE  /\ UNCHANGED reviewVars /\ pc'[p] \notin {"create", "enqueue"}
  BY <1>6 DEF PlannerTick, Extract, SaveExtracted, ReadInsights, ValidateOne, ValidateDone,
     CreatePatch, CreateAudit, CreateNothing, Mark, TypeOK
<1> HIDE DEF At
<1> USE DEF reviewVars
<1>7. CASE \E p \in Planners : PlannerTick(p)
  <2>1. PICK p \in Planners : PlannerTick(p) /\ \A q \in Planners : q = p
    BY <1>7 DEF OnePlanner
  <2>2. CASE Gate(p)
    BY <1>2, <1>3, <2>1, <2>2
  <2>3. CASE Enqueue(p)
    BY <1>2, <1>4, <2>1, <2>3
  <2>4. CASE CheckReviews(p)
    BY <1>2, <1>5, <2>1, <2>4
  <2>5. CASE ~Gate(p) /\ ~Enqueue(p) /\ ~CheckReviews(p)
    BY <1>2, <1>6, <2>1, <2>5
  <2> QED
    BY <2>2, <2>3, <2>4, <2>5
<1>8. CASE Review
  <2>1. UNCHANGED <<pc, review>>
    BY <1>8 DEF Review, plannerVars
  <2>2. CASE RecordEvaluation
    BY <1>2, <2>1, <2>2 DEF RecordEvaluation
  <2>3. CASE OperatorLoads
    BY <1>2, <2>1, <2>3 DEF OperatorLoads
  <2>4. CASE OperatorSaves
    <3>1. opReview # 0 /\ opReview' = 0
          /\ \A e \in Evals : queue'[e] = "PENDING" => opCopy[e] = "PENDING"
      BY <2>4 DEF OperatorSaves, TypeOK, ReviewTypeOK
    <3> QED
      BY <1>2, <2>1, <3>1
  <2> QED
    BY <1>8, <2>2, <2>3, <2>4 DEF Review, Operator
<1>9. CASE UNCHANGED vars \/ Work \/ \E k \in Strategists : StrategyTick(k)
  <2>1. UNCHANGED <<pc, review, queue, opCopy, opReview>>
    BY <1>9 DEF vars, Work, StrategyTick, LoadState, LoadInsights, SaveState, plannerVars
  <2> QED
    BY <1>2, <2>1
<1> QED
  BY <1>1, <1>7, <1>8, <1>9 DEF Next

-----------------------------------------------------------------------------
(* The theorems. *)

\* Types: every file, copy and half-done tick keeps the shape the code gives it,
\* whichever ticks overlap and whoever dies or raises.
THEOREM TypesHold == Spec => []TypeOK
<1>1. Shape => TypeOK
  BY DEF Shape
<1> QED
  BY <1>1, ShapeAlways, PTL

\* A record never names another insight's task: mark_insight_patch_queued and the
\* stale copies of insights.json that overlapping ticks write back put no patch task
\* but the insight's own into it, and run_patch_validation gives no verdict to an
\* insight none of whose patch tasks has completed.
EvidenceIsOwn ==
  \A i \in InsightIds :
    /\ insights[i].patch # NoTask =>
         task[insights[i].patch].kind = "patch" /\ task[insights[i].patch].topic = i
    /\ StatusOf(i) \in Settled =>
         \E t \in TaskIds : task[t] = [kind |-> "patch", topic |-> i, status |-> "COMPLETED"]

THEOREM EvidenceStaysOwn == Spec => []EvidenceIsOwn
<1>1. Shape => EvidenceIsOwn
  <2> SUFFICES ASSUME Shape, NEW i \in InsightIds
               PROVE  /\ insights[i].patch # NoTask =>
                           HasPatch(i, insights[i].patch)
                      /\ StatusOf(i) \in Settled => \E t \in TaskIds :
                           task[t] = [kind |-> "patch", topic |-> i, status |-> "COMPLETED"]
    BY DEF EvidenceIsOwn, HasPatch
  <2>1. OwnRecord(i, insights[i]) /\ task \in [TaskIds -> Task]
    BY DEF Shape, TypeOK
  <2>2. ASSUME NEW t \in TaskIds, HasPatch(i, t), task[t].status = "COMPLETED"
        PROVE  task[t] = [kind |-> "patch", topic |-> i, status |-> "COMPLETED"]
    BY <2>1, <2>2 DEF HasPatch, Task
  <2> QED
    BY <2>1, <2>2 DEF OwnRecord, PatchDone, StatusOf
<1> QED
  BY <1>1, ShapeAlways, PTL

\* run_simulation_tick with any number of strategy ticks and planner ticks that
\* overlap, die or overwrite each other: the weights hold the adjustment of each
\* processed insight exactly once, and only of insights whose patch task completed.
LearntFromPatches ==
  \A i \in InsightIds :
    /\ strategy.applied[i] = IF i \in strategy.processed THEN 1 ELSE 0
    /\ i \in strategy.processed =>
         \E t \in TaskIds : task[t] = [kind |-> "patch", topic |-> i, status |-> "COMPLETED"]

THEOREM LearnsFromPatches == Spec => []LearntFromPatches
<1>1. Shape /\ EarnedInv => LearntFromPatches
  <2> SUFFICES ASSUME Shape, EarnedInv, NEW i \in InsightIds
               PROVE  /\ strategy.applied[i] = IF i \in strategy.processed THEN 1 ELSE 0
                      /\ i \in strategy.processed => \E t \in TaskIds :
                           task[t] = [kind |-> "patch", topic |-> i, status |-> "COMPLETED"]
    BY DEF LearntFromPatches
  <2>1. Earned(strategy) /\ task \in [TaskIds -> Task]
    BY DEF Shape, TypeOK, EarnedInv
  <2>2. ASSUME NEW t \in TaskIds, HasPatch(i, t), task[t].status = "COMPLETED"
        PROVE  task[t] = [kind |-> "patch", topic |-> i, status |-> "COMPLETED"]
    BY <2>1, <2>2 DEF HasPatch, Task
  <2> QED
    BY <2>1, <2>2 DEF Earned, PatchDone
<1> QED
  BY <1>1, ShapeAlways, EarnedAlways, PTL

\* extract_insights_from_completed_tasks and the writes after it never leave a
\* signal with two insights that wait for a patch or its result.
THEOREM OneActive == OnePlanner => (Spec => []OneActivePerSignal)
<1>1. Inv => OneActivePerSignal
  BY DEF Inv, SoloInv, FileInv
<1> QED
  BY <1>1, InvAlways, PTL

\* run_patch_validation: a verdict is always backed by the insight's own patch
\* task, completed.
THEOREM VerdictsHaveEvidence == OnePlanner => (Spec => []SettledOnEvidence)
<1>1. Inv => SettledOnEvidence
  <2> SUFFICES ASSUME Inv, NEW i \in InsightIds, StatusOf(i) \in Settled
               PROVE  insights[i].patch # NoTask /\ task[insights[i].patch] =
                        [kind |-> "patch", topic |-> i, status |-> "COMPLETED"]
    BY DEF SettledOnEvidence
  <2>1. /\ insights[i].patch \in TaskIds /\ task[insights[i].patch] \in Task
        /\ task[insights[i].patch].kind = "patch" /\ task[insights[i].patch].topic = i
        /\ task[insights[i].patch].status = "COMPLETED"
    BY DEF Inv, Shape, SoloInv, FileInv, HasPatch, StatusOf, TypeOK
  <2>2. insights[i].patch # NoTask
    BY <2>1 DEF TaskIds, NoTask
  <2> QED
    BY <2>1, <2>2 DEF Task
<1> QED
  BY <1>1, InvAlways, PTL

\* run_simulation_tick: however many strategy ticks overlap, die or overwrite each
\* other, the weights hold each processed insight's adjustment exactly once.
THEOREM LearnsOnce == OnePlanner => (Spec => []LearnedOnce)
<1>1. Inv => LearnedOnce
  BY DEF Inv, SoloInv, LearnInv, Exact, Known, LearnedOnce, StatusOf
<1> QED
  BY <1>1, InvAlways, PTL

\* A verdict in the file is never overwritten; it can only be lost with the file.
THEOREM VerdictsStay == OnePlanner => (Spec => SettledStays)
<1>1. VerdictsKept <=> \A i \in InsightIds :
                         StatusOf(i) \in Settled => insights'[i] \in {insights[i], Unknown}
  BY DEF VerdictsKept
<1> QED
  BY <1>1, InvAlways, PTL DEF SettledStays

\* has_pending_reviews is asked some steps before a task is created: with one planner
\* at a time, and as long as nobody dies, no review is pending by then.
THEOREM ReviewsHold == OnePlanner => (Spec => HeldByReview)
<1>1. Init => HeldInv
  BY DEF Init, ReviewInit, HeldInv
<1>2. OnePlanner /\ TypeOK /\ HeldInv /\ [Next]_vars => HeldInv'
  BY HeldStep
<1>3. TypeOK /\ HeldInv /\ [Next]_vars => (last' # last /\ faults = 0 => PendingReviews = {})
  <2> SUFFICES ASSUME TypeOK, HeldInv, [Next]_vars, last' # last, faults = 0
               PROVE  PendingReviews = {}
    OBVIOUS
  <2>1. PICK p \in Planners : CreatePatch(p) \/ CreateAudit(p)
    BY DEF Next, vars, PlannerTick, Extract, SaveExtracted, ReadInsights, ValidateOne, ValidateDone,
       Gate, Enqueue, CheckReviews, CreateNothing, Mark, Work, Review, StrategyTick, LoadState,
       LoadInsights, SaveState, Faults, PlannerDies, StepRaises, StrategistDies, OperatorDies, taskVars
  <2>2. pc[p] = "create"
    BY <2>1 DEF CreatePatch, CreateAudit, At
  <2> QED
    BY <2>2 DEF HeldInv, PendingReviews
<1>4. OnePlanner => OnePlanner'
  BY DEF OnePlanner
<1> QED
  BY <1>1, <1>2, <1>3, <1>4, TypesHold, PTL DEF Spec, HeldByReview
=============================================================================
