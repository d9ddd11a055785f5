---------------------------- MODULE LedgerProofs ----------------------------
(***************************************************************************)
(* The self-training loop follows the life cycle of its insights: each of  *)
(* its steps, seen through the stage of every insight, is a step of the    *)
(* ledger or leaves the ledger alone.                                      *)
(***************************************************************************)
EXTENDS TrainingProofs

\* Every insight stays at its stage.
Still == \A i \in InsightIds : Stage(i)' = Stage(i)

LEMMA StillStutters ==
  ASSUME Still, UNCHANGED faults
  PROVE  UNCHANGED Ledger!vars
BY DEF Still, Ledger!vars

\* Nothing is in the making and nothing is written.
LEMMA SameFile ==
  ASSUME UNCHANGED insightVars, \A i \in InsightIds : Fresh(i)' <=> Fresh(i)
  PROVE  Still
BY DEF Still, Stage, insightVars

\* A signal is mined before it is saved: what it gave does not count as in the file.
LEMMA ExtractStill ==
  ASSUME Inv, OnePlanner, NEW p \in Planners, Extract(p)
  PROVE  Still /\ UNCHANGED faults
<1> DEFINE mined == {s \in Signals \ ActiveSignals : Audits(s) # {} /\ made[s] < Rounds}
           source == [s \in mined |-> Newest(Audits(s))]
<1>1. /\ pc[p] = "idle" /\ pc' = [pc EXCEPT ![p] = IF mined = {} THEN "candidates" ELSE "save"]
      /\ draft' = [draft EXCEPT ![p] = Mined(mined, source)]
      /\ made' = [s \in Signals |-> IF s \in mined THEN made[s] + 1 ELSE made[s]]
      /\ UNCHANGED <<insights, faults>>
  BY DEF Extract, At
<1>2. TypeOK /\ FileInv /\ \A q \in Planners : q = p
  BY DEF Inv, Shape, SoloInv, OnePlanner
<1> HIDE DEF mined, source
<1>3. draft'[p] = Mined(mined, source) /\ (pc'[p] = "save" <=> mined # {})
  BY <1>1, <1>2 DEF TypeOK
<1>4. ASSUME NEW i \in InsightIds PROVE Fresh(i)' <=> Fresh(i)
  <2>1. /\ made[i[1]] \in Nat /\ i[2] \in Nat
        /\ made'[i[1]] = IF i[1] \in mined THEN made[i[1]] + 1 ELSE made[i[1]]
    BY <1>1, <1>2, InsightPair DEF TypeOK, InsightTypeOK
  <2>2. draft'[p][i] = IF i[1] \in mined /\ i[2] = made[i[1]] + 1
                       THEN [Unknown EXCEPT !.status = "PENDING", !.source = source[i[1]]]
                       ELSE insights[i]
    BY <1>3 DEF Mined
  <2>3. Fresh(i) <=> i[2] > made[i[1]]
    BY <1>1, <1>2 DEF Fresh
  <2>4. CASE i[1] \in mined /\ i[2] = made[i[1]] + 1
    <3>1. insights[i] = Unknown
      BY <1>2, <2>1, <2>3, <2>4 DEF FileInv
    <3>2. draft'[p][i] = [Unknown EXCEPT !.status = "PENDING", !.source = source[i[1]]]
      BY <2>2, <2>4
    <3>3. draft'[p][i].status = "PENDING"
      BY <3>2 DEF Unknown
    <3>4. insights'[i].status = "unknown"
      BY <1>1, <3>1 DEF Unknown
    <3> QED
      BY <1>3, <2>1, <2>3, <2>4, <3>3, <3>4 DEF Fresh
  <2>5. CASE ~(i[1] \in mined /\ i[2] = made[i[1]] + 1)
    <3>1. Fresh(i)' <=> i[2] > made'[i[1]]
      BY <1>1, <1>2, <2>2, <2>5 DEF Fresh
    <3> QED
      BY <2>1, <2>3, <2>5, <3>1
  <2> QED
    BY <2>4, <2>5
<1> QED
  BY <1>1, <1>4 DEF Still, Stage

\* What is saved enters the ledger at once.
LEMMA SaveExtracts ==
  ASSUME Inv, OnePlanner, NEW p \in Planners, SaveExtracted(p)
  PROVE  Ledger!Next
<1> DEFINE new == {i \in InsightIds : insights'[i] # insights[i]}
<1>1. UNCHANGED <<made, faults>> /\ TypeOK /\ FileInv /\ pc[p] = "save" /\ insights' = draft[p]
  BY DEF SaveExtracted, At, Inv, Shape, SoloInv
<1>2. ASSUME NEW i \in new
      PROVE  /\ Stage(i) = "absent" /\ Stage(i)' = "PENDING" /\ i[2] = made[i[1]]
             /\ \A j \in InsightIds : j[1] = i[1] => insights[j].status \notin Active
  <2>1. /\ Fresh(i) /\ ~Fresh(i)' /\ insights'[i].status = "PENDING"
        /\ i[2] = made[i[1]]
        /\ \A j \in InsightIds : j[1] = i[1] => insights[j].status \notin Active
    BY SavedFresh
  <2> QED
    BY <2>1 DEF Stage, Unknown
<1>3. ASSUME NEW i \in InsightIds, i \notin new PROVE Stage(i)' = Stage(i)
  <2>1. insights'[i] = insights[i]
    BY <1>3
  <2>2. \A q \in Planners : q = p
    BY DEF OnePlanner
  <2>3. Fresh(i)' <=> Fresh(i)
    BY <1>1, <2>1, <2>2, SavedFresh DEF Fresh
  <2> QED
    BY <2>1, <2>3 DEF Stage
<1>4. ASSUME NEW i \in new, NEW j \in InsightIds, j[1] = i[1]
      PROVE  Stage(j) \notin Active /\ (j \in new => j = i)
  <2>1. Stage(j) \notin Active
    BY <1>2, <1>4 DEF Stage, Active
  <2>2. ASSUME j \in new PROVE j = i
    BY <1>2, <1>4, <2>2, InsightPair
  <2> QED
    BY <2>1, <2>2
<1>5. new \in SUBSET InsightIds
  OBVIOUS
<1>6. Ledger!Extract(new)
  <2> HIDE DEF new
  <2>1. Ledger!Insights = InsightIds /\ Ledger!Busy = Active
    BY DEF Ledger!Insights, InsightIds, Ledger!Busy, Active
  <2> QED
    BY <1>1, <1>2, <1>3, <1>4, <1>5, <2>1 DEF Ledger!Extract
<1> QED
  BY <1>5, <1>6 DEF Ledger!Next, Ledger!Insights, InsightIds

\* One active insight goes on to the next stage.
LEMMA OneGoesOn ==
  ASSUME Inv, OnePlanner, NEW p \in Planners, pc[p] # "save", pc'[p] # "save",
         NEW i \in InsightIds, insights[i].status \in Active,
         NEW r, insights' = [insights EXCEPT ![i] = r], r # Unknown,
         UNCHANGED <<made, faults>>
  PROVE  /\ UNCHANGED faults
         /\ Stage(i) = insights[i].status
         /\ [k \in InsightIds |-> Stage(k)]' =
              [[k \in InsightIds |-> Stage(k)] EXCEPT ![i] = r.status]
<1>1. TypeOK /\ FileInv /\ \A q \in Planners : q = p
  BY DEF Inv, Shape, SoloInv, OnePlanner
<1>2. insights'[i] = r /\ \A j \in InsightIds : j # i => insights'[j] = insights[j]
  BY <1>1 DEF TypeOK, InsightTypeOK
<1>3. \A j \in InsightIds : Fresh(j)' <=> Fresh(j)
  BY <1>1 DEF Fresh
<1>4. ~Fresh(i) /\ insights[i] # Unknown
  BY <1>1 DEF FileInv, Unknown, Active
<1>5. Stage(i)' = r.status /\ Stage(i) = insights[i].status
  BY <1>2, <1>3, <1>4 DEF Stage
<1>6. \A j \in InsightIds : j # i => Stage(j)' = Stage(j)
  BY <1>2, <1>3 DEF Stage
<1> QED
  BY <1>5, <1>6

LEMMA ValidateJudges ==
  ASSUME Inv, OnePlanner, NEW p \in Planners, ValidateOne(p)
  PROVE  [Ledger!Next]_(Ledger!vars)
<1>1. pc[p] = "validate" /\ UNCHANGED <<made, faults, pc, draft>>
  BY DEF ValidateOne
<1>2. PICK j \in judging[p] :
        IF CanValidate(j[2])
        THEN \E verdict \in Settled : UpdateInsightState(j[1], verdict)
        ELSE UNCHANGED insights
  BY DEF ValidateOne
<1>3. /\ TypeOK /\ j[1] \in InsightIds /\ insights[j[1]].status = "PATCH_QUEUED"
      /\ insights[j[1]] \in Insight
  BY <1>1 DEF Inv, Shape, SoloInv, TypeOK, InsightTypeOK, PlannerInv
<1>4. CASE CanValidate(j[2])
  <2>1. PICK verdict \in Settled : UpdateInsightState(j[1], verdict)
    BY <1>2, <1>4
  <2> DEFINE r == [insights[j[1]] EXCEPT !.status = verdict,
                                         !.stamped = insights[j[1]].stamped \/ verdict # "FAILED"]
  <2>2. insights[j[1]] # Unknown
    BY <1>3 DEF Unknown
  <2>3. insights' = [insights EXCEPT ![j[1]] = r]
    <3>1. insights' = [insights EXCEPT ![j[1]] =
                         IF insights[j[1]] = Unknown THEN insights[j[1]] ELSE r]
      BY <2>1, Zenon DEF UpdateInsightState
    <3> HIDE DEF r
    <3> QED
      BY <2>2, <3>1
  <2>4. r.status = verdict /\ r # Unknown
    BY <1>3 DEF Insight, Settled, Unknown
  <2> HIDE DEF r
  <2>5. /\ Stage(j[1]) = "PATCH_QUEUED"
        /\ [k \in InsightIds |-> Stage(k)]' =
             [[k \in InsightIds |-> Stage(k)] EXCEPT ![j[1]] = verdict]
    BY <1>1, <1>3, <2>3, <2>4, OneGoesOn DEF Active
  <2>6. Ledger!Judge(j[1])
    BY <1>1, <1>3, <2>5 DEF Ledger!Judge, Ledger!Verdicts, Settled
  <2> QED
    BY <1>3, <2>6 DEF Ledger!Next, Ledger!Insights, InsightIds
<1>5. CASE ~CanValidate(j[2])
  <2>1. UNCHANGED insights
    BY <1>2, <1>5
  <2> QED
    BY <1>1, <2>1, SameFile, StillStutters DEF insightVars, Fresh
<1> QED
  BY <1>4, <1>5

LEMMA MarkQueues ==
  ASSUME Inv, OnePlanner, NEW p \in Planners, Mark(p)
  PROVE  Ledger!Next
<1>1. /\ pc[p] = "mark" /\ pc' = [pc EXCEPT ![p] = "idle"]
      /\ MarkPatchQueued(mark[p][1], mark[p][2]) /\ UNCHANGED <<made, faults>>
  BY DEF Mark, At
<1>2. PICK i \in InsightIds, t \in TaskIds :
        i = mark[p][1] /\ t = mark[p][2] /\ insights[i].status = "PENDING"
  BY <1>1 DEF Inv, SoloInv, PlannerInv
<1>3. TypeOK /\ insights[i] \in Insight /\ insights[i] # Unknown
  BY <1>2 DEF Inv, Shape, TypeOK, InsightTypeOK, Unknown
<1> DEFINE r == [insights[i] EXCEPT !.status = "PATCH_QUEUED", !.patch = t]
<1>4. r.status = "PATCH_QUEUED" /\ r # Unknown
  BY <1>3 DEF Insight, Unknown
<1>5. insights' = [insights EXCEPT ![i] = r]
  BY <1>1, <1>2, <1>3 DEF MarkPatchQueued, TypeOK, InsightTypeOK
<1>6. pc'[p] = "idle"
  BY <1>1, <1>3 DEF TypeOK
<1> HIDE DEF r
<1>7. /\ Stage(i) = "PENDING"
      /\ [k \in InsightIds |-> Stage(k)]' =
           [[k \in InsightIds |-> Stage(k)] EXCEPT ![i] = "PATCH_QUEUED"]
  <2>1. insights[i].status \in Active /\ pc[p] # "save" /\ pc'[p] # "save"
    BY <1>1, <1>2, <1>6 DEF Active
  <2>2. /\ Stage(i) = insights[i].status
        /\ [k \in InsightIds |-> Stage(k)]' =
             [[k \in InsightIds |-> Stage(k)] EXCEPT ![i] = r.status]
    BY <1>1, <1>2, <1>4, <1>5, <2>1, OneGoesOn
  <2> QED
    BY <1>2, <1>4, <2>2
<1>8. Ledger!Queue(i)
  BY <1>1, <1>2, <1>7 DEF Ledger!Queue
<1> QED
  BY <1>2, <1>8 DEF Ledger!Next, Ledger!Insights, InsightIds

\* A process dies or raises: what was not saved is lost, or the whole file.
LEMMA FaultLoses ==
  ASSUME Inv, OnePlanner, Faults
  PROVE  Ledger!Next
<1> DEFINE lost == {i \in InsightIds : Stage(i)' # Stage(i)}
<1>1. faults' = faults + 1 /\ UNCHANGED made
  BY DEF Faults, PlannerDies, StepRaises, StrategistDies, OperatorDies, Fault, insightVars
<1>2. \/ UNCHANGED <<insights, pc, draft>>
      \/ /\ insights' = insights \/ insights' = EmptyFile
         /\ \E p \in Planners : pc'[p] # "save"
  BY DEF Inv, Shape, TypeOK, At, Faults, PlannerDies, StepRaises, StrategistDies, OperatorDies,
     insightVars, plannerVars
<1>3. ASSUME NEW i \in InsightIds, Stage(i)' # Stage(i) PROVE Stage(i)' = "lost"
  <2>1. Fresh(i)' => Fresh(i)
    BY <1>1, <1>2 DEF Fresh, OnePlanner
  <2>2. ~Fresh(i)'
    BY <1>3, <2>1 DEF Stage
  <2>3. Fresh(i) => insights[i] = Unknown
    BY DEF Inv, SoloInv, FileInv
  <2>4. insights'[i] = Unknown
    BY <1>2, <1>3, <2>2, <2>3 DEF Stage, EmptyFile
  <2> QED
    BY <2>2, <2>4 DEF Stage
<1>4. lost \in SUBSET InsightIds /\ \A i \in InsightIds :
        Stage(i)' = IF i \in lost THEN "lost" ELSE Stage(i)
  BY <1>3
<1> HIDE DEF lost
<1>5. Ledger!Mishap(lost)
  <2>1. Ledger!Insights = InsightIds
    BY DEF Ledger!Insights, InsightIds
  <2> QED
    BY <1>1, <1>4, <2>1 DEF Ledger!Mishap
<1> QED
  BY <1>4, <1>5 DEF Ledger!Next, Ledger!Insights, InsightIds

LEMMA LedgerStep ==
  ASSUME Inv, OnePlanner, [Next]_vars
  PROVE  [Ledger!Next]_(Ledger!vars)
<1>1. ASSUME NEW p \in Planners, PlannerTick(p) PROVE [Ledger!Next]_(Ledger!vars)
  <2>1. CASE Extract(p)
    BY <2>1, ExtractStill, StillStutters
  <2>2. CASE SaveExtracted(p)
    BY <2>2, SaveExtracts
  <2>3. CASE ValidateOne(p)
    BY <2>3, ValidateJudges
  <2>4. CASE Mark(p)
    BY <2>4, MarkQueues
  <2>5. CASE ReadInsights(p) \/ ValidateDone(p) \/ Gate(p) \/ Enqueue(p) \/ CheckReviews(p)
             \/ CreatePatch(p) \/ CreateAudit(p) \/ CreateNothing(p)
    <3>1. UNCHANGED <<insightVars, faults>> /\ pc[p] # "save" /\ pc'[p] # "save"
      BY <2>5 DEF At, ReadInsights, ValidateDone, Gate, Enqueue, CheckReviews, CreatePatch,
         CreateAudit, CreateNothing, Inv, Shape, TypeOK
    <3>2. \A i \in InsightIds : Fresh(i)' <=> Fresh(i)
      BY <3>1 DEF Fresh, OnePlanner, insightVars
    <3> QED
      BY <3>1, <3>2, SameFile, StillStutters
  <2> QED
    BY <1>1, <2>1, <2>2, <2>3, <2>4, <2>5 DEF PlannerTick
<1>2. CASE UNCHANGED vars \/ Work \/ Review \/ \E k \in Strategists : StrategyTick(k)
  <2>1. UNCHANGED <<insightVars, pc, draft, faults>>
    BY <1>2 DEF vars, Work, Review, StrategyTick, LoadState, LoadInsights, SaveState, plannerVars
  <2> QED
    BY <2>1, SameFile, StillStutters DEF Fresh, insightVars
<1>3. CASE Faults
  BY <1>3, FaultLoses
<1> QED
  BY <1>1, <1>2, <1>3 DEF Next

\* Every behaviour of the self-training loop with one planner at a time, with any
\* number of overlapping strategy ticks, deaths and raised steps, is one of the
\* insights' life cycle: insights.json is never set back by a stale copy, and an
\* insight is only lost when a process dies or raises.
THEOREM LoopFollowsLedger == OnePlanner => (Spec => FollowsLedger)
<1>1. Init => Ledger!Init
  <2> SUFFICES ASSUME Init PROVE Ledger!Init
    OBVIOUS
  <2>1. ASSUME NEW i \in InsightIds PROVE Stage(i) = "absent"
    <3>1. i[1] \in Signals /\ i[2] \in Nat /\ i[2] > 0
      BY InsightPair
    <3> QED
      BY <3>1 DEF Init, InsightInit, Stage, Fresh
  <2> QED
    BY <2>1 DEF Init, Ledger!Init, Ledger!Insights, InsightIds
<1>2. OnePlanner /\ Inv /\ [Next]_vars => [Ledger!Next]_(Ledger!vars)
  BY LedgerStep
<1>3. OnePlanner => OnePlanner'
  BY DEF OnePlanner
<1> QED
  BY <1>1, <1>2, <1>3, InvAlways, PTL DEF Spec, FollowsLedger, Ledger!Spec
=============================================================================
