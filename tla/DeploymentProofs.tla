--------------------------- MODULE DeploymentProofs ---------------------------
(***************************************************************************)
(* What holds in some deployments of the orchestrator only.  Where a row   *)
(* has one possible claimant at a time, it has one executor, one planner   *)
(* does not stack tasks, and the outcome of a task that did not outlive    *)
(* the zombie age is final.  Where no database call raises, the daemon's   *)
(* lock can be trusted.  For any number of tasks and faults.               *)
(***************************************************************************)
EXTENDS CallProofs, FiniteSetTheorems

\* One worker alone, the daemon alone, or light workers alone.
SoleClaimant ==
  \/ (\A v, w \in Workers : v = w) /\ ~RunsDaemon /\ Lights = {}
  \/ Workers = {} /\ Lights = {}
  \/ Workers = {} /\ ~RunsDaemon

OnePlanner == \A p, q \in Planners : p = q

\* A daemon that is not deployed does nothing.
DaemonDeployed == dpc # "down" => RunsDaemon

LEMMA DeployedAlways == Spec => []DaemonDeployed
<1>1. Init => DaemonDeployed
  BY DEF Init, DaemonInit, DaemonDeployed
<1>2. DaemonDeployed /\ [Next]_vars => DaemonDeployed'
  <2> SUFFICES ASSUME DaemonDeployed, [Next]_vars PROVE DaemonDeployed'
    OBVIOUS
  <2>1. RunsDaemon \/ dpc' = dpc
    BY DEF Next, Worker, Daemon, Light, Planner, Operator, Tick, vars, daemonVars
  <2> QED
    BY <2>1 DEF DaemonDeployed
<1> QED
  BY <1>1, <1>2, PTL DEF Spec

-----------------------------------------------------------------------------
(* One executor.                                                           *)

\* No row is run by two light workers.
LightsApart ==
  \A l, m \in Lights : lpc[l] = "run" /\ lpc[m] = "run" /\ ltask[l] = ltask[m] => l = m

\* claim_task_atomic takes a queued row, and nobody runs a queued row.
LEMMA LightApart ==
  ASSUME TypeOK, QueuedUntouched, LightsApart, NEW l \in Lights, LightStep(l)
  PROVE  LightsApart'
<1> USE DEF TypeOK, LightTypeOK
<1>1. CASE LightClaim(l)
  <2>1. PICK u \in With("QUEUED") : ltask' = [ltask EXCEPT ![l] = u]
    BY <1>1 DEF LightClaim
  <2>2. \A m \in Lights : ~(lpc[m] = "run" /\ ltask[m] = u)
    BY DEF With, QueuedUntouched, OutcomePending
  <2>3. lpc' = [lpc EXCEPT ![l] = "run"]
    BY <1>1 DEF LightClaim
  <2> QED
    BY <2>1, <2>2, <2>3 DEF LightsApart
<1>2. CASE LightDone(l)
  BY <1>2 DEF LightDone, LightsApart
<1> QED
  BY <1>1, <1>2 DEF LightStep, LightFinish, LightDie

\* db.py:481 in every deployment: claim_task_atomic gives a row to one light
\* worker, however many of them compete and whoever else uses the table.
THEOREM LightClaimsAreAtomic == Spec => []LightsApart
<1>1. Init => LightsApart
  BY DEF Init, LightInit, LightsApart
<1>2. TypeOK /\ QueuedUntouched /\ LightsApart /\ [Next]_vars => LightsApart'
  <2> SUFFICES ASSUME TypeOK, QueuedUntouched, LightsApart, [Next]_vars PROVE LightsApart'
    OBVIOUS
  <2>1. CASE \E l \in Lights : Light(l)
    BY <2>1, LightApart DEF Light
  <2>2. CASE ~\E l \in Lights : Light(l)
    <3>1. UNCHANGED lightVars
      BY <2>2 DEF Next, Worker, Daemon, Planner, Operator, Tick, vars
    <3> QED
      BY <3>1 DEF LightsApart, lightVars
  <2> QED
    BY <2>1, <2>2
<1> QED
  BY <1>1, <1>2, TypeCorrect, QueuedStaysUntouched, PTL DEF Spec

\* The size of a set without two members.
LEMMA AtMostOne ==
  ASSUME NEW S, \A x, y \in S : x = y
  PROVE  Cardinality(S) \in {0, 1}
<1>1. CASE S = {}
  BY <1>1, FS_EmptySet
<1>2. CASE S # {}
  <2>1. PICK x \in S : TRUE
    BY <1>2
  <2>2. S = {x}
    BY <2>1
  <2>3. Cardinality({x}) = 1
    BY FS_Singleton
  <2> QED
    BY <2>2, <2>3
<1> QED
  BY <1>1, <1>2

\* One task has one executor where only one process can come to claim it; the
\* run double_claim shows that the atomic claim of the light workers does not
\* keep worker_tick.py:635, which claims unconditionally, away from their rows.
THEOREM SoleClaimantExecutesAlone == SoleClaimant => (Spec => []SingleExecutor)
<1>1. SoleClaimant /\ DaemonDeployed /\ LightsApart => SingleExecutor
  <2> SUFFICES ASSUME SoleClaimant, DaemonDeployed, LightsApart, NEW t \in TaskId
               PROVE  Cardinality(Executors(t))
                        + (IF DaemonExecutes /\ dtask = t THEN 1 ELSE 0) <= 1
    BY DEF SingleExecutor
  <2>1. \A x, y \in Executors(t) : x = y
    BY DEF SoleClaimant, LightsApart, Executors
  <2>2. Cardinality(Executors(t)) \in {0, 1}
    BY <2>1, AtMostOne
  <2>3. CASE ~DaemonExecutes
    BY <2>2, <2>3
  <2>4. CASE DaemonExecutes
    <3>1. RunsDaemon
      BY <2>4 DEF DaemonExecutes, DaemonDeployed
    <3>2. Executors(t) = {}
      BY <3>1 DEF SoleClaimant, Executors
    <3>3. Cardinality({}) = 0
      BY FS_EmptySet
    <3> QED
      BY <3>2, <3>3
  <2> QED
    BY <2>3, <2>4
<1>2. SoleClaimant => SoleClaimant'
  BY DEF SoleClaimant
<1> QED
  BY <1>1, <1>2, DeployedAlways, LightClaimsAreAtomic, PTL

-----------------------------------------------------------------------------
(* What a step does to the rows, if nobody claims a row it has lost.       *)

\* A row that is about to be claimed still waits.
Claimed == \A t \in TaskId : ClaimPending(t) => status[t] = "QUEUED"

Begins(t) == status[t] = "QUEUED" /\ status' = [status EXCEPT ![t] = "RUNNING"]

Ends(t) ==
  /\ OutcomePending(t)
  /\ \E s \in Terminal \cup {"BLOCKED_ENV"} : status' = [status EXCEPT ![t] = s]

\* Nothing, the start of a task that waits, or an outcome that was pending.
RowMove == UNCHANGED status \/ \E t \in TaskId : Begins(t) \/ Ends(t)

LEMMA UpdateMoves ==
  ASSUME StoreTypeOK, NEW t, NEW s, UpdateTask(t, s)
  PROVE  /\ s = "RUNNING" /\ (t \in TaskId => status[t] = "QUEUED") => RowMove
         /\ s \in Terminal \cup {"BLOCKED_ENV"} /\ OutcomePending(t)
              => UNCHANGED status \/ \E u \in TaskId : Ends(u)
         /\ s \in Terminal \cup {"BLOCKED_ENV"} /\ OutcomePending(t) => RowMove
<1>1. status' = [status EXCEPT ![t] = s]
  BY DEF UpdateTask
<1>2. CASE t \in TaskId
  BY <1>1, <1>2 DEF RowMove, Begins, Ends
<1>3. CASE t \notin TaskId
  BY <1>1, <1>3 DEF RowMove, StoreTypeOK
<1> QED
  BY <1>2, <1>3

LEMMA WorkerMoves ==
  ASSUME StoreTypeOK, Claimed, NEW w \in Workers, WorkerStep(w)
  PROVE  RowMove
<1>1. CASE WorkerReap(w)
  <2>1. PICK z \in wsweep[w] : UpdateTask(z, "FAILED")
    BY <1>1 DEF WorkerReap
  <2> QED
    BY <2>1, UpdateMoves DEF OutcomePending, Terminal
<1>2. CASE WorkerClaim(w)
  <2>1. UpdateTask(wtask[w], "RUNNING") /\ ClaimPending(wtask[w])
    BY <1>2 DEF WorkerClaim, ClaimPending
  <2> QED
    BY <2>1, UpdateMoves DEF Claimed
<1>3. ASSUME NEW s, WorkerFinish(w, s) \/ WorkerFinishThenRaise(w, s) PROVE RowMove
  <2>1. UpdateTask(wtask[w], s) /\ s \in Terminal \cup {"BLOCKED_ENV"}
        /\ OutcomePending(wtask[w])
    BY <1>3 DEF WorkerFinish, WorkerFinishThenRaise, OutcomePending
  <2> QED
    BY <2>1, UpdateMoves
<1>4. CASE WorkerFail(w)
  <2>1. UpdateTask(wtask[w], "FAILED") /\ OutcomePending(wtask[w])
    BY <1>4 DEF WorkerFail, OutcomePending
  <2> QED
    BY <2>1, UpdateMoves DEF Terminal
<1>5. CASE \/ WorkerBegin(w) \/ WorkerIdle(w) \/ WorkerPick(w) \/ WorkerFallBack(w)
           \/ WorkerRaise(w) \/ WorkerExceptRead(w)
  BY <1>5 DEF WorkerBegin, WorkerIdle, WorkerPick, WorkerFallBack, WorkerRaise,
     WorkerExceptRead, storeVars, RowMove
<1>6. CASE \/ WorkerSweepError(w) \/ WorkerClaimError(w) \/ WorkerHandlerError(w)
           \/ WorkerCrash(w)
  BY <1>6 DEF WorkerSweepError, WorkerClaimError, WorkerHandlerError, WorkerCrash,
     Abandon, rowVars, RowMove
<1> QED
  BY <1>1, <1>2, <1>3, <1>4, <1>5, <1>6 DEF WorkerStep

LEMMA DaemonMoves ==
  ASSUME StoreTypeOK, Claimed, DaemonStep
  PROVE  RowMove
<1>1. CASE DaemonClaim
  <2>1. UpdateTask(dtask, "RUNNING") /\ ClaimPending(dtask)
    BY <1>1 DEF DaemonClaim, ClaimPending
  <2> QED
    BY <2>1, UpdateMoves DEF Claimed
<1>2. CASE DaemonComplete \/ DaemonReap \/ \E s \in Status : DaemonFail(s)
  <2>1. OutcomePending(dtask) /\ \E s \in Terminal : UpdateTask(dtask, s)
    BY <1>2 DEF DaemonComplete, DaemonReap, DaemonFail, OutcomePending, DaemonExecutes,
       Terminal
  <2> QED
    BY <2>1, UpdateMoves
<1>3. CASE \/ DaemonTake \/ DaemonWriteLock \/ DaemonMark \/ DaemonFallback
           \/ DaemonRaise \/ DaemonClear \/ DaemonFinalize \/ DaemonFinalizeRead
           \/ DaemonUnlock \/ DaemonStart
  BY <1>3 DEF DaemonTake, DaemonWriteLock, DaemonMark, DaemonFallback, DaemonRaise,
     DaemonClear, DaemonFinalize, DaemonFinalizeRead, DaemonUnlock, DaemonStart,
     storeVars, RowMove
<1>4. CASE \/ DaemonCallError \/ DaemonMarkError \/ DaemonFailError \/ DaemonClearError
           \/ DaemonCrash
  BY <1>4 DEF DaemonCallError, DaemonMarkError, DaemonFailError, DaemonClearError,
     DaemonCrash, Abandon, rowVars, RowMove
<1> QED
  BY <1>1, <1>2, <1>3, <1>4 DEF DaemonStep, DaemonProgress

LEMMA LightMoves ==
  ASSUME StoreTypeOK, NEW l \in Lights, LightStep(l)
  PROVE  RowMove
<1>1. CASE LightClaim(l)
  <2>1. PICK t \in With("QUEUED") : UpdateTask(t, "RUNNING")
    BY <1>1 DEF LightClaim
  <2> QED
    BY <2>1, UpdateMoves DEF With
<1>2. ASSUME NEW s, LightFinish(l, s) PROVE RowMove
  <2>1. UpdateTask(ltask[l], s) /\ s \in Terminal /\ OutcomePending(ltask[l])
    BY <1>2 DEF LightFinish, OutcomePending, Terminal
  <2> QED
    BY <2>1, UpdateMoves
<1>3. CASE LightDie(l)
  BY <1>3 DEF LightDie, Abandon, RowMove
<1> QED
  BY <1>1, <1>2, <1>3 DEF LightStep

Creates(t) == IsNext(t) /\ status' = [status EXCEPT ![t] = "QUEUED"]

\* A planner ends a stale row, or creates one.
LEMMA PlannerMoves ==
  ASSUME StoreTypeOK, NEW p \in Planners, PlannerStep(p)
  PROVE  UNCHANGED status \/ \E t \in TaskId : Ends(t) \/ Creates(t)
<1>1. CASE PlannerResolve(p)
  <2>1. UpdateTask(pseen[p], "FAILED") /\ OutcomePending(pseen[p])
    BY <1>1 DEF PlannerResolve, OutcomePending
  <2> QED
    BY <2>1, UpdateMoves DEF Terminal
<1>2. CASE PlannerRoute(p) \/ \E k \in Kinds : PlannerCreate(p, k)
  BY <1>2 DEF PlannerRoute, PlannerCreate, CreateTask, Creates
<1>3. CASE PlannerPass(p) \/ PlannerSeeStale(p) \/ PlannerEnd(p) \/ PlannerDie(p)
  BY <1>3 DEF PlannerPass, PlannerSeeStale, PlannerEnd, PlannerDie, storeVars, rowVars
<1> QED
  BY <1>1, <1>2, <1>3 DEF PlannerStep

\* A process comes to claim a row by listing it.
LEMMA ComesToClaim ==
  ASSUME TypeOK
  PROVE  /\ \A w \in Workers : WorkerStep(w) /\ wpc'[w] = "claim" => WorkerPick(w)
         /\ DaemonStep /\ dpc' = "claim" => DaemonTake
<1>1. ASSUME NEW w \in Workers, WorkerStep(w), wpc'[w] = "claim" PROVE WorkerPick(w)
  <2> USE DEF TypeOK, WorkerTypeOK, WorkerDone, GoTo
  <2>1. ~(WorkerBegin(w) \/ WorkerReap(w) \/ WorkerIdle(w) \/ WorkerClaim(w))
    BY <1>1 DEF WorkerBegin, WorkerReap, WorkerIdle, WorkerClaim
  <2>2. \A s : ~(WorkerFinish(w, s) \/ WorkerFinishThenRaise(w, s))
    BY <1>1 DEF WorkerFinish, WorkerFinishThenRaise
  <2>3. ~(WorkerFallBack(w) \/ WorkerRaise(w) \/ WorkerExceptRead(w) \/ WorkerFail(w))
    BY <1>1 DEF WorkerFallBack, WorkerRaise, WorkerExceptRead, WorkerFail
  <2>4. ~(WorkerSweepError(w) \/ WorkerClaimError(w) \/ WorkerHandlerError(w) \/ WorkerCrash(w))
    BY <1>1 DEF WorkerSweepError, WorkerClaimError, WorkerHandlerError, WorkerCrash
  <2> QED
    BY <1>1, <2>1, <2>2, <2>3, <2>4 DEF WorkerStep
<1>2. ASSUME DaemonStep, dpc' = "claim" PROVE DaemonTake
  <2> USE DEF DaemonGoTo, DaemonIdle
  <2>1. ~(DaemonClaim \/ DaemonWriteLock \/ DaemonMark \/ DaemonFallback \/ DaemonComplete
          \/ DaemonRaise \/ DaemonClear)
    BY <1>2 DEF DaemonClaim, DaemonWriteLock, DaemonMark, DaemonFallback, DaemonComplete,
       DaemonRaise, DaemonClear
  <2>2. ~(DaemonFinalize \/ DaemonFinalizeRead \/ DaemonReap \/ DaemonUnlock \/ DaemonStart)
        /\ \A s : ~DaemonFail(s)
    BY <1>2 DEF DaemonFinalize, DaemonFinalizeRead, DaemonReap, DaemonUnlock, DaemonStart,
       DaemonFail
  <2>3. ~(DaemonCallError \/ DaemonMarkError \/ DaemonFailError \/ DaemonClearError
          \/ DaemonCrash)
    BY <1>2 DEF DaemonCallError, DaemonMarkError, DaemonFailError, DaemonClearError,
       DaemonCrash
  <2> QED
    BY <1>2, <2>1, <2>2, <2>3 DEF DaemonStep, DaemonProgress
<1> QED
  BY <1>1, <1>2

\* With one claimant, what it listed nobody has taken when it claims it.
LEMMA NextClaimed ==
  ASSUME TypeOK, QueuedUntouched, SoleClaimant, DaemonDeployed, Claimed, [Next]_vars
  PROVE  Claimed'
<1>1. ASSUME NEW w \in Workers, Worker(w) PROVE Claimed'
  <2>1. /\ WorkerStep(w) /\ \A v \in Workers : v = w
        /\ dpc' # "claim"
    BY <1>1 DEF Worker, SoleClaimant, DaemonDeployed, daemonVars
  <2>2. CASE wpc'[w] # "claim"
    BY <2>1, <2>2 DEF Claimed, ClaimPending
  <2>3. CASE WorkerPick(w)
    <3>1. PICK t \in TaskId : IsOldestQueued(t) /\ wtask' = [wtask EXCEPT ![w] = t]
      BY <2>3 DEF WorkerPick
    <3>2. wtask'[w] = t /\ status'[t] = "QUEUED"
      BY <2>3, <3>1 DEF WorkerPick, storeVars, IsOldestQueued, TypeOK, WorkerTypeOK
    <3> QED
      BY <2>1, <3>2 DEF Claimed, ClaimPending
  <2> QED
    BY <2>1, <2>2, <2>3, ComesToClaim
<1>2. CASE Daemon
  <2>1. DaemonStep /\ Workers = {}
    BY <1>2 DEF Daemon, SoleClaimant
  <2>2. CASE dpc' # "claim"
    BY <2>1, <2>2 DEF Claimed, ClaimPending
  <2>3. CASE DaemonTake
    BY <2>1, <2>3 DEF DaemonTake, IsOldestQueued, storeVars, Claimed, ClaimPending
  <2> QED
    BY <2>1, <2>2, <2>3, ComesToClaim
<1>3. ASSUME NEW l \in Lights, Light(l) PROVE Claimed'
  <2>1. Workers = {} /\ dpc' # "claim"
    BY <1>3 DEF Light, SoleClaimant, DaemonDeployed, daemonVars
  <2> QED
    BY <2>1 DEF Claimed, ClaimPending
<1>4. ASSUME NEW p \in Planners, Planner(p) PROVE Claimed'
  <2>1. ASSUME NEW t \in TaskId, ClaimPending(t)' PROVE status'[t] = "QUEUED"
    <3>1. ClaimPending(t) /\ status[t] = "QUEUED" /\ ~OutcomePending(t)
      BY <1>4, <2>1 DEF Planner, workerVars, daemonVars, ClaimPending, Claimed,
         QueuedUntouched
    <3>2. UNCHANGED status \/ \E u \in TaskId : Ends(u) \/ Creates(u)
      BY <1>4, PlannerMoves DEF Planner, TypeOK
    <3> QED
      BY <3>1, <3>2 DEF Ends, Creates, TypeOK, StoreTypeOK
  <2> QED
    BY <2>1 DEF Claimed
<1>5. CASE UNCHANGED <<status, wpc, wtask, dpc, dtask>>
  BY <1>5 DEF Claimed, ClaimPending
<1>6. Operator \/ Tick \/ UNCHANGED vars => UNCHANGED <<status, wpc, wtask, dpc, dtask>>
  BY DEF Operator, SetPolicy, SetProvider, Tick, AgeRows, vars, storeVars, workerVars,
     daemonVars
<1> QED
  BY <1>1, <1>2, <1>3, <1>4, <1>5, <1>6 DEF Next

LEMMA ClaimedAlways == SoleClaimant => (Spec => []Claimed)
<1>1. Init => Claimed
  BY DEF Init, WorkerInit, DaemonInit, Claimed, ClaimPending
<1>2. TypeOK /\ QueuedUntouched /\ SoleClaimant /\ DaemonDeployed /\ Claimed /\ [Next]_vars
        => Claimed'
  BY NextClaimed
<1>3. SoleClaimant => SoleClaimant'
  BY DEF SoleClaimant
<1> QED
  BY <1>1, <1>2, <1>3, TypeCorrect, QueuedStaysUntouched, DeployedAlways, PTL DEF Spec

-----------------------------------------------------------------------------
(* One planner does not stack tasks.                                       *)

Open(t) == status[t] \in {"QUEUED", "RUNNING"}
NewestRow(t) == \A u \in TaskId : u > t => status[u] = "ABSENT"

\* The rows are 1..n, and only the newest of them may be open.
RowsInv ==
  /\ \A t, u \in TaskId : t < u /\ status[u] # "ABSENT" => status[t] # "ABSENT"
  /\ \A t \in TaskId : Open(t) => NewestRow(t)

\* What the planner holds: the newest row, or a table without an open row.
PlannerHolds(p) ==
  /\ ppc[p] # "route"
  /\ ppc[p] = "resolve" => pseen[p] \in TaskId /\ NewestRow(pseen[p])
  /\ ppc[p] = "create" => \A t \in TaskId : ~Open(t)

StackInv == RowsInv /\ \A p \in Planners : PlannerHolds(p)

\* No move but a creation opens a row or adds one.
LEMMA MoveStacks ==
  ASSUME StoreTypeOK, QueuedUntouched, RowsInv, RowMove
  PROVE  /\ RowsInv'
         /\ \A t \in TaskId : (NewestRow(t) => NewestRow(t)') /\ (Open(t)' => Open(t))
<1>1. \A t \in TaskId : (status'[t] = "ABSENT" <=> status[t] = "ABSENT")
                        /\ (Open(t)' => Open(t))
  <2>1. CASE UNCHANGED status
    BY <2>1 DEF Open
  <2>2. ASSUME NEW u \in TaskId, Begins(u)
        PROVE  \A t \in TaskId : (status'[t] = "ABSENT" <=> status[t] = "ABSENT")
                                 /\ (Open(t)' => Open(t))
    BY <2>2 DEF Begins, Open, StoreTypeOK
  <2>3. ASSUME NEW u \in TaskId, Ends(u)
        PROVE  \A t \in TaskId : (status'[t] = "ABSENT" <=> status[t] = "ABSENT")
                                 /\ (Open(t)' => Open(t))
    <3>1. status[u] # "ABSENT"
      BY <2>3 DEF Ends, QueuedUntouched
    <3> QED
      BY <2>3, <3>1 DEF Ends, Open, StoreTypeOK, Terminal
  <2> QED
    BY <2>1, <2>2, <2>3 DEF RowMove
<1>2. \A t \in TaskId : NewestRow(t) => NewestRow(t)'
  BY <1>1 DEF NewestRow
<1>3. RowsInv'
  BY <1>1, <1>2 DEF RowsInv
<1> QED
  BY <1>1, <1>2, <1>3

\* A step that leaves the planners alone.
LEMMA OthersStack ==
  ASSUME TypeOK, QueuedUntouched, StackInv, RowMove, UNCHANGED plannerVars
  PROVE  StackInv'
<1>1. RowsInv' /\ \A t \in TaskId : (NewestRow(t) => NewestRow(t)') /\ (Open(t)' => Open(t))
  BY MoveStacks DEF StackInv, TypeOK
<1> QED
  BY <1>1 DEF StackInv, PlannerHolds, plannerVars

\* The planner: it passes its guard over a table without an open row, or closes
\* the only row that may be open.
LEMMA PlannerStacks ==
  ASSUME TypeOK, QueuedUntouched, OnePlanner, RouteBatch = 0, StackInv,
         NEW p \in Planners, PlannerStep(p)
  PROVE  StackInv'
<1> USE DEF TypeOK, PlannerTypeOK, PlannerDone
<1>0. StoreTypeOK /\ RowsInv /\ PlannerHolds(p) /\ \A q \in Planners : q = p
  BY DEF StackInv, OnePlanner
<1>1. ASSUME RowsInv', PlannerHolds(p)' PROVE StackInv'
  BY <1>0, <1>1 DEF StackInv
<1>s. UNCHANGED status => RowsInv'
  BY <1>0 DEF RowsInv, NewestRow, Open
<1>d. PlannerDone(p) => PlannerHolds(p)'
  BY DEF PlannerHolds
<1>2. CASE PlannerPass(p)
  <2>1. /\ UNCHANGED status /\ ppc'[p] = "create"
        /\ \A t \in TaskId : IsLatest(t) => status[t] \in Terminal
    BY <1>2 DEF PlannerPass, storeVars
  <2>2. ASSUME NEW t \in TaskId, Open(t) PROVE FALSE
    <3>1. NewestRow(t) /\ status[t] \in {"QUEUED", "RUNNING"}
      BY <1>0, <2>2 DEF RowsInv, Open
    <3>2. IsLatest(t)
      BY <3>1 DEF IsLatest, Rows, NewestRow, TaskId
    <3> QED
      BY <2>1, <3>1, <3>2 DEF Terminal
  <2>3. PlannerHolds(p)'
    BY <2>1, <2>2 DEF PlannerHolds, Open
  <2> QED
    BY <1>1, <1>s, <2>1, <2>3
<1>3. CASE PlannerSeeStale(p)
  <2>1. PICK t \in TaskId : IsLatest(t) /\ pseen' = [pseen EXCEPT ![p] = t]
    BY <1>3 DEF PlannerSeeStale
  <2>2. UNCHANGED status /\ ppc'[p] = "resolve" /\ pseen'[p] = t
    BY <1>3, <2>1 DEF PlannerSeeStale, storeVars
  <2>3. NewestRow(t)
    BY <2>1 DEF IsLatest, Rows, NewestRow, TaskId
  <2>4. PlannerHolds(p)'
    BY <2>2, <2>3 DEF PlannerHolds, NewestRow
  <2> QED
    BY <1>1, <1>s, <2>2, <2>4
<1>4. CASE PlannerResolve(p)
  <2> DEFINE t == pseen[p]
  <2>1. /\ UpdateTask(t, "FAILED") /\ ppc[p] = "resolve" /\ ppc'[p] = "create"
        /\ OutcomePending(t)
    BY <1>4 DEF PlannerResolve, OutcomePending
  <2>2. t \in TaskId /\ NewestRow(t) /\ status[t] # "ABSENT"
    BY <1>0, <2>1 DEF PlannerHolds, QueuedUntouched
  <2>3. RowMove /\ status'[t] = "FAILED"
    BY <1>0, <2>1, <2>2, UpdateMoves DEF Terminal, UpdateTask, StoreTypeOK
  <2>4. RowsInv' /\ \A u \in TaskId : Open(u)' => Open(u)
    BY <1>0, <2>3, MoveStacks
  <2> HIDE DEF t
  <2>5. ASSUME NEW u \in TaskId, Open(u)' PROVE FALSE
    <3>1. Open(u) /\ NewestRow(u) /\ u # t
      BY <1>0, <2>3, <2>4, <2>5 DEF RowsInv, Open
    <3>2. ~(t > u) /\ ~(u > t)
      BY <2>2, <3>1 DEF NewestRow, Open
    <3> QED
      BY <2>2, <3>1, <3>2, TaskStoreAssumption DEF TaskId
  <2> QED
    BY <1>1, <2>1, <2>4, <2>5 DEF PlannerHolds
<1>5. ASSUME NEW k \in Kinds, PlannerCreate(p, k) PROVE StackInv'
  <2>1. PICK t \in TaskId : CreateTask(t, k)
    BY <1>5 DEF PlannerCreate
  <2>2. /\ status[t] = "ABSENT" /\ status'[t] = "QUEUED"
        /\ \A u \in TaskId : u # t => status'[u] = status[u]
        /\ \A u \in TaskId : u < t => status[u] # "ABSENT"
    BY <1>0, <2>1 DEF CreateTask, IsNext, StoreTypeOK
  <2>3. \A u \in TaskId : ~Open(u)
    BY <1>0, <1>5 DEF PlannerCreate, PlannerHolds
  <2>4. NewestRow(t)'
    BY <1>0, <2>2 DEF RowsInv, NewestRow, TaskId
  <2>5. RowsInv'
    <3>1. ASSUME NEW u \in TaskId, NEW v \in TaskId, u < v, status'[v] # "ABSENT"
          PROVE  status'[u] # "ABSENT"
      BY <1>0, <2>2, <3>1 DEF RowsInv
    <3>2. ASSUME NEW u \in TaskId, Open(u)' PROVE NewestRow(u)'
      BY <2>2, <2>3, <2>4, <3>2 DEF Open
    <3> QED
      BY <3>1, <3>2 DEF RowsInv
  <2> QED
    BY <1>1, <1>5, <1>d, <2>5 DEF PlannerCreate
<1>6. CASE PlannerRoute(p)
  BY <1>6 DEF PlannerRoute
<1>7. CASE PlannerEnd(p) \/ PlannerDie(p)
  BY <1>1, <1>7, <1>d, <1>s DEF PlannerEnd, PlannerDie, storeVars, rowVars
<1> QED
  BY <1>2, <1>3, <1>4, <1>5, <1>6, <1>7 DEF PlannerStep

LEMMA NextStacks ==
  ASSUME TypeOK, QueuedUntouched, Claimed, OnePlanner, RouteBatch = 0, StackInv,
         [Next]_vars
  PROVE  StackInv'
<1>1. CASE \E p \in Planners : Planner(p)
  BY <1>1, PlannerStacks DEF Planner
<1>2. CASE ~\E p \in Planners : Planner(p)
  <2>1. UNCHANGED plannerVars
    BY <1>2 DEF Next, Worker, Daemon, Light, Operator, Tick, vars
  <2>2. Operator \/ Tick \/ UNCHANGED vars => RowMove
    BY DEF Operator, SetPolicy, SetProvider, Tick, AgeRows, vars, storeVars, RowMove
  <2>3. RowMove
    BY <1>2, <2>2, WorkerMoves, DaemonMoves, LightMoves
       DEF Next, Worker, Daemon, Light, TypeOK
  <2> QED
    BY <2>1, <2>3, OthersStack
<1> QED
  BY <1>1, <1>2

\* _resolve_previous_task_blocker (planner_tick.py:1978) does its job where planner
\* ticks do not overlap and a row has one claimant: although it looks at the latest
\* row only, and the row is created much later, there is never a second queued or
\* running one, however long executions last.  RouteBatch is 0: the routing of
\* completed explorations creates its validation tasks past the guard.
THEOREM TasksAreNotStacked ==
  SoleClaimant /\ OnePlanner /\ RouteBatch = 0 => (Spec => []NoStacking)
<1>1. Init => StackInv
  BY DEF Init, StoreInit, PlannerInit, StackInv, RowsInv, PlannerHolds, Open
<1>2. TypeOK /\ QueuedUntouched /\ Claimed /\ OnePlanner /\ RouteBatch = 0 /\ StackInv
        /\ [Next]_vars => StackInv'
  BY NextStacks
<1>3. StackInv => NoStacking
  <2> SUFFICES ASSUME StackInv PROVE NoStacking
    OBVIOUS
  <2>1. \A t, u \in {v \in TaskId : status[v] \in {"QUEUED", "RUNNING"}} : t = u
    BY DEF StackInv, RowsInv, Open, NewestRow, TaskId
  <2> QED
    BY <2>1, AtMostOne DEF NoStacking
<1>4. OnePlanner /\ RouteBatch = 0 => (OnePlanner /\ RouteBatch = 0)'
  BY DEF OnePlanner
<1> QED
  BY <1>1, <1>2, <1>3, <1>4, TypeCorrect, QueuedStaysUntouched, ClaimedAlways, PTL DEF Spec

-----------------------------------------------------------------------------
(* Outcomes stand.                                                         *)

\* Who executes a row that has reached the zombie age let it overrun.
OverranKnown ==
  \A t \in TaskId : status[t] = "RUNNING" /\ age[t] = ZombieAge /\ Executed(t) => t \in overran

\* A row that gets an executor is fresh, or says something else than RUNNING.
LEMMA NewExecutor ==
  ASSUME TypeOK, Aged, [Next]_vars, ~Tick, NEW t \in TaskId, Executed(t)', ~Executed(t)
  PROVE  status'[t] = "RUNNING" => age'[t] = 0
<1>0. StoreTypeOK /\ WorkerTypeOK /\ LightTypeOK
  BY DEF TypeOK
<1>1. ASSUME NEW w \in Workers, Worker(w) PROVE status'[t] = "RUNNING" => age'[t] = 0
  <2>1. /\ WorkerStep(w) /\ UNCHANGED <<daemonVars, lightVars>> /\ WorkerAged(w)
        /\ \A v \in Workers : v # w => wpc'[v] = wpc[v] /\ wtask'[v] = wtask[v]
    BY <1>1, WorkerAlone DEF Worker, Aged, TypeOK
  <2>2. WorkerExecutes(w)' /\ wtask'[w] = t /\ ~(WorkerExecutes(w) /\ wtask[w] = t)
    BY <2>1 DEF Executed, Executors, WorkerExecutes, DaemonExecutes, daemonVars, lightVars
  <2>3. CASE WorkerClaim(w)
    BY <1>0, <2>2, <2>3 DEF WorkerClaim, UpdateTask, StoreTypeOK
  <2>4. CASE WorkerClaimError(w)
    <3>1. wpc[w] = "claim" /\ wtask[w] = t /\ UNCHANGED <<status, age>>
      BY <2>2, <2>4 DEF WorkerClaimError, rowVars
    <3> QED
      BY <1>0, <2>1, <3>1, TaskStoreAssumption DEF WorkerAged, Within, StoreTypeOK
  <2>5. ASSUME ~WorkerClaim(w), ~WorkerClaimError(w) PROVE FALSE
    <3> USE <1>0, <2>2 DEF WorkerExecutes, WorkerTypeOK, WorkerDone, GoTo
    <3>1. ~(WorkerBegin(w) \/ WorkerReap(w) \/ WorkerIdle(w) \/ WorkerPick(w))
      BY DEF WorkerBegin, WorkerReap, WorkerIdle, WorkerPick
    <3>2. ~(\E s \in Status : WorkerFinish(w, s) \/ WorkerFinishThenRaise(w, s))
      BY DEF WorkerFinish, WorkerFinishThenRaise
    <3>3. ~(WorkerFallBack(w) \/ WorkerRaise(w) \/ WorkerExceptRead(w) \/ WorkerFail(w))
      BY DEF WorkerFallBack, WorkerRaise, WorkerExceptRead, WorkerFail
    <3>4. ~(WorkerSweepError(w) \/ WorkerHandlerError(w) \/ WorkerCrash(w))
      BY DEF WorkerSweepError, WorkerHandlerError, WorkerCrash
    <3> QED
      BY <2>1, <2>5, <3>1, <3>2, <3>3, <3>4 DEF WorkerStep
  <2> QED
    BY <2>3, <2>4, <2>5
<1>2. CASE Daemon
  <2>1. DaemonStep /\ UNCHANGED <<workerVars, lightVars>>
    BY <1>2 DEF Daemon
  <2>2. DaemonExecutes' /\ dtask' = t /\ ~(DaemonExecutes /\ dtask = t)
    BY <2>1 DEF Executed, Executors, WorkerExecutes, workerVars, lightVars
  <2>3. CASE DaemonClaim
    BY <1>0, <2>2, <2>3 DEF DaemonClaim, DaemonGoTo, UpdateTask, StoreTypeOK
  <2>4. ASSUME ~DaemonClaim PROVE FALSE
    <3> USE <2>2 DEF DaemonExecutes, DaemonGoTo, DaemonIdle
    <3>1. ~(DaemonTake \/ DaemonWriteLock \/ DaemonMark \/ DaemonFallback \/ DaemonComplete
            \/ DaemonRaise \/ DaemonClear)
      BY DEF DaemonTake, DaemonWriteLock, DaemonMark, DaemonFallback, DaemonComplete,
         DaemonRaise, DaemonClear
    <3>2. ~(DaemonFinalize \/ DaemonFinalizeRead \/ DaemonReap \/ DaemonUnlock \/ DaemonStart)
          /\ \A s : ~DaemonFail(s)
      BY DEF DaemonFinalize, DaemonFinalizeRead, DaemonReap, DaemonUnlock, DaemonStart,
         DaemonFail
    <3>3. ~(DaemonCallError \/ DaemonMarkError \/ DaemonFailError \/ DaemonClearError
            \/ DaemonCrash)
      BY DEF DaemonCallError, DaemonMarkError, DaemonFailError, DaemonClearError, DaemonCrash
    <3> QED
      BY <2>1, <2>4, <3>1, <3>2, <3>3 DEF DaemonStep, DaemonProgress
  <2> QED
    BY <2>3, <2>4
<1>3. ASSUME NEW l \in Lights, Light(l) PROVE status'[t] = "RUNNING" => age'[t] = 0
  <2>1. LightStep(l) /\ UNCHANGED <<workerVars, daemonVars>>
    BY <1>3 DEF Light
  <2>2. PICK m \in Lights : lpc'[m] = "run" /\ ltask'[m] = t /\ ~(lpc[m] = "run" /\ ltask[m] = t)
    BY <2>1 DEF Executed, Executors, WorkerExecutes, DaemonExecutes, workerVars, daemonVars
  <2>3. PICK u \in TaskId : UpdateTask(u, "RUNNING") /\ ltask' = [ltask EXCEPT ![l] = u]
    BY <1>0, <2>1, <2>2 DEF LightStep, LightClaim, LightFinish, LightDie, LightDone,
       LightTypeOK, With
  <2>4. m = l /\ u = t
    BY <1>0, <2>1, <2>2, <2>3 DEF LightStep, LightClaim, LightFinish, LightDie, LightDone,
       LightTypeOK
  <2> QED
    BY <1>0, <2>3, <2>4 DEF UpdateTask, StoreTypeOK
<1>4. ~(\E p \in Planners : Planner(p)) /\ ~Operator /\ ~(UNCHANGED vars)
  BY DEF Planner, Operator, vars, Executed, Executors, WorkerExecutes, DaemonExecutes,
     workerVars, daemonVars, lightVars
<1> QED
  BY <1>1, <1>2, <1>3, <1>4 DEF Next

LEMMA NextOverran ==
  ASSUME TypeOK, Aged, OverranKnown, [Next]_vars
  PROVE  OverranKnown'
<1> SUFFICES ASSUME NEW t \in TaskId, status'[t] = "RUNNING", age'[t] = ZombieAge, Executed(t)'
             PROVE  t \in overran'
  BY DEF OverranKnown
<1>0. ZombieAge # 0 /\ StoreTypeOK
  BY TaskStoreAssumption DEF TypeOK
<1>1. CASE Tick
  <2>1. Executed(t) /\ status[t] = "RUNNING"
    BY <1>1 DEF Tick, AgeRows, Executed, Executors, WorkerExecutes, DaemonExecutes, lightVars
  <2> QED
    BY <1>1, <2>1 DEF Tick
<1>2. CASE ~Tick
  <2>1. overran' = overran
    BY <1>2 DEF Next, Worker, Daemon, Light, Planner, Operator, vars
  <2>2. Executed(t)
    BY <1>0, <1>2, NewExecutor
  <2>3. Gentle
    BY <1>0, <1>2, WorkerGentle, DaemonGentle, LightGentle, PlannerGentle, RowsGentle
       DEF Next, Worker, Daemon, Light, Planner, Operator, SetPolicy, SetProvider, vars,
           storeVars, rowVars
  <2>4. status[t] = "RUNNING" /\ age[t] = ZombieAge
    BY <1>0, <2>3 DEF Gentle
  <2> QED
    BY <2>1, <2>2, <2>4 DEF OverranKnown
<1> QED
  BY <1>1, <1>2

LEMMA OverranAlways == Spec => []OverranKnown
<1>1. Init => OverranKnown
  BY DEF Init, StoreInit, OverranKnown
<1>2. TypeOK /\ Aged /\ OverranKnown /\ [Next]_vars => OverranKnown'
  BY NextOverran
<1> QED
  BY <1>1, <1>2, TypeCorrect, AgedAlways, PTL DEF Spec

\* The terminal status of a task that has not overrun is not overwritten.
FinalStep == \A t \in TaskId \ overran : status[t] \in Terminal => status'[t] = status[t]

\* Some process will fail t without having executed it.
Doomed(t) ==
  \/ \E w \in Workers : t \in wsweep[w]
  \/ dpc = "reap" /\ dtask = t
  \/ \E p \in Planners : pseen[p] = t

\* The row of an executor that will write an outcome says RUNNING, unless it
\* overran.
Unsettled(t) == t \in TaskId /\ (status[t] = "RUNNING" \/ t \in overran)

\* What an executor holds is unsettled, and what somebody will fail has no live
\* executor, unless it overran.
FinalInv ==
  /\ \A w \in Workers : wpc[w] \in {"run", "fail"} => Unsettled(wtask[w])
  /\ DaemonExecutes => Unsettled(dtask)
  /\ \A l \in Lights : lpc[l] = "run" => Unsettled(ltask[l])
  /\ \A t \in TaskId \ overran : Doomed(t) =>
       /\ status[t] \in {"RUNNING", "FAILED", "BLOCKED_ENV"}
       /\ Executed(t) => status[t] # "RUNNING"

\* What the proofs below know of a state.
FinalContext ==
  /\ TypeOK /\ QueuedUntouched /\ Claimed /\ CallsClocked /\ Aged /\ DaemonDeployed
  /\ OverranKnown /\ LightsApart /\ SoleClaimant

\* The only worker.
LEMMA WorkerFinal ==
  ASSUME FinalContext, FinalInv, NEW w \in Workers, Worker(w)
  PROVE  FinalInv' /\ FinalStep
<1> USE DEF WorkerDone, GoTo
<1> DEFINE Seen(t) == \E p \in Planners : pseen[p] = t
           Runs(t) == WorkerExecutes(w) /\ wtask[w] = t
<1>0. /\ TypeOK /\ StoreTypeOK /\ WorkerTypeOK /\ QueuedUntouched /\ Claimed
      /\ Clocked(w) /\ WorkerAged(w) /\ WorkerStep(w)
      /\ \A v \in Workers : v = w
      /\ ~DaemonExecutes /\ ~DaemonExecutes' /\ dpc = "down" /\ dpc' = "down"
      /\ pseen' = pseen /\ overran' = overran /\ Lights = {}
  BY DEF FinalContext, TypeOK, CallsClocked, Aged, DaemonAged, SoleClaimant,
     DaemonDeployed, DaemonExecutes, Worker, daemonVars, plannerVars
<1>1. \A t : /\ Doomed(t) <=> t \in wsweep[w] \/ Seen(t)
             /\ Doomed(t)' <=> t \in wsweep'[w] \/ Seen(t)
             /\ Executed(t) <=> Runs(t)
             /\ Executed(t)' <=> Runs(t)'
  BY <1>0 DEF Doomed, Executed, Executors
<1>2. \A t \in TaskId \ overran : Doomed(t) =>
        /\ status[t] \in {"RUNNING", "FAILED", "BLOCKED_ENV"}
        /\ Runs(t) => status[t] # "RUNNING"
  BY <1>1 DEF FinalInv
<1>3. ASSUME wpc'[w] \in {"run", "fail"} => Unsettled(wtask[w])',
             \A t \in TaskId \ overran : t \in wsweep'[w] \/ Seen(t) =>
                 /\ status'[t] \in {"RUNNING", "FAILED", "BLOCKED_ENV"}
                 /\ Runs(t)' => status'[t] # "RUNNING"
      PROVE  FinalInv'
  BY <1>0, <1>1, <1>3 DEF FinalInv
<1> HIDE DEF Seen
<1>4. CASE WorkerBegin(w)
  <2>1. wpc'[w] = "sweep" /\ wsweep'[w] = Zombies /\ status' = status
    BY <1>0, <1>4 DEF WorkerBegin, WorkerTypeOK, storeVars
  <2> QED
    BY <1>1, <1>2, <1>3, <2>1, ZombiesRun DEF FinalStep, WorkerExecutes
<1>5. CASE WorkerReap(w)
  <2>1. PICK u \in wsweep[w] : UpdateTask(u, "FAILED") /\ wsweep' = [wsweep EXCEPT ![w] = @ \ {u}]
    BY <1>5 DEF WorkerReap
  <2>2. /\ wpc'[w] = "sweep" /\ u \in TaskId /\ Doomed(u)
        /\ \A t \in wsweep'[w] : t \in wsweep[w]
    BY <1>0, <1>1, <1>5, <2>1 DEF WorkerReap, WorkerTypeOK
  <2>3. status'[u] = "FAILED" /\ \A t \in TaskId : t # u => status'[t] = status[t]
    BY <1>0, <2>1, <2>2 DEF UpdateTask, StoreTypeOK
  <2>4. FinalStep
    BY <1>2, <2>2, <2>3 DEF FinalStep, Terminal
  <2> QED
    BY <1>1, <1>2, <1>3, <2>2, <2>3, <2>4 DEF WorkerExecutes
<1>6. CASE WorkerClaim(w)
  <2> DEFINE u == wtask[w]
  <2>1. /\ u \in TaskId /\ status[u] = "QUEUED" /\ ~Doomed(u)
        /\ UpdateTask(u, "RUNNING") /\ wtask' = wtask /\ wpc'[w] = "run" /\ wsweep' = wsweep
    BY <1>0, <1>6 DEF WorkerClaim, Clocked, WorkerTypeOK, Claimed, ClaimPending, Doomed,
       QueuedUntouched, OutcomePending
  <2>2. status'[u] = "RUNNING" /\ \A t \in TaskId : t # u => status'[t] = status[t]
    BY <1>0, <2>1 DEF UpdateTask, StoreTypeOK
  <2>3. FinalStep
    BY <2>1, <2>2 DEF FinalStep, Terminal
  <2> QED
    BY <1>0, <1>1, <1>2, <1>3, <2>1, <2>2, <2>3 DEF Unsettled
<1>7. ASSUME NEW s \in Terminal \cup {"BLOCKED_ENV"}, wpc[w] \in {"run", "fail"},
             UpdateTask(wtask[w], s), wpc'[w] \in {"idle", "except"},
             wtask'[w] \in {wtask[w], NoTask}, wsweep'[w] \subseteq wsweep[w]
      PROVE  FinalInv' /\ FinalStep
  <2> DEFINE u == wtask[w]
  <2>1. u \in TaskId /\ (u \in overran \/ (status[u] = "RUNNING" /\ ~Doomed(u)))
    BY <1>2, <1>7 DEF FinalInv, Unsettled, WorkerExecutes
  <2>2. status'[u] = s /\ \A t \in TaskId : t # u => status'[t] = status[t]
    BY <1>0, <1>7, <2>1 DEF UpdateTask, StoreTypeOK
  <2>3. FinalStep
    BY <2>1, <2>2 DEF FinalStep, Terminal
  <2>4. \A t \in TaskId : Runs(t)' => t = u
    BY <1>7, <2>1 DEF TaskId, NoTask
  <2> QED
    BY <1>1, <1>2, <1>3, <1>7, <2>1, <2>2, <2>3, <2>4
<1>8. CASE WorkerFail(w) \/ \E s \in Status : WorkerFinish(w, s) \/ WorkerFinishThenRaise(w, s)
  <2>1. \E s \in Terminal \cup {"BLOCKED_ENV"} : UpdateTask(wtask[w], s)
    BY <1>8 DEF WorkerFail, WorkerFinish, WorkerFinishThenRaise, Terminal
  <2>2. /\ wpc[w] \in {"run", "fail"} /\ wpc'[w] \in {"idle", "except"}
        /\ wtask'[w] \in {wtask[w], NoTask} /\ wsweep'[w] \subseteq wsweep[w]
    BY <1>0, <1>8 DEF WorkerFail, WorkerFinish, WorkerFinishThenRaise, WorkerTypeOK
  <2> QED
    BY <1>7, <2>1, <2>2
<1>9. ASSUME UNCHANGED status, wsweep'[w] \subseteq wsweep[w],
             \/ wpc'[w] \in {"idle", "claim"}
             \/ /\ wtask'[w] = wtask[w]
                /\ \/ wpc[w] = "run" /\ wpc'[w] \in {"run", "except"}
                   \/ wpc[w] = "claim" /\ wpc'[w] = "except"
                   \/ wpc[w] = "except" /\ wpc'[w] = "fail" /\ status[wtask[w]] = "RUNNING"
      PROVE  FinalInv' /\ FinalStep
  <2>1. FinalStep
    BY <1>9 DEF FinalStep
  <2>2. wpc'[w] \in {"run", "fail"} => Unsettled(wtask[w])'
    BY <1>0, <1>9 DEF FinalInv, WorkerAged, Within, Unsettled
  <2>3. ASSUME NEW t \in TaskId \ overran, t \in wsweep'[w] \/ Seen(t)
        PROVE  /\ status'[t] \in {"RUNNING", "FAILED", "BLOCKED_ENV"}
               /\ Runs(t)' => status'[t] # "RUNNING"
    <3>1. Doomed(t)
      BY <1>1, <1>9, <2>3
    <3>2. CASE wpc[w] = "claim" /\ wpc'[w] = "except"
      <4>1. wtask[w] = t => status[t] = "QUEUED"
        BY <1>0, <3>2 DEF Claimed, ClaimPending
      <4> QED
        BY <1>2, <1>9, <3>1, <3>2, <4>1
    <3>3. CASE ~(wpc[w] = "claim" /\ wpc'[w] = "except")
      BY <1>2, <1>9, <3>1, <3>3 DEF WorkerExecutes
    <3> QED
      BY <3>2, <3>3
  <2> QED
    BY <1>3, <2>1, <2>2, <2>3
<1>10. CASE \/ WorkerIdle(w) \/ WorkerPick(w) \/ WorkerFallBack(w) \/ WorkerRaise(w)
            \/ WorkerExceptRead(w)
  BY <1>0, <1>9, <1>10 DEF WorkerIdle, WorkerPick, WorkerFallBack, WorkerRaise,
     WorkerExceptRead, storeVars, WorkerTypeOK
<1>11. CASE \/ WorkerSweepError(w) \/ WorkerClaimError(w) \/ WorkerHandlerError(w)
            \/ WorkerCrash(w)
  BY <1>0, <1>9, <1>11 DEF WorkerSweepError, WorkerClaimError, WorkerHandlerError,
     WorkerCrash, Abandon, rowVars, WorkerTypeOK
<1> QED
  BY <1>0, <1>4, <1>5, <1>6, <1>8, <1>10, <1>11 DEF WorkerStep

\* The daemon, where it is the only executor.
LEMMA DaemonFinal ==
  ASSUME FinalContext, FinalInv, Daemon
  PROVE  FinalInv' /\ FinalStep
<1> USE DEF DaemonGoTo, DaemonIdle
<1> DEFINE Seen(t) == \E p \in Planners : pseen[p] = t
           Runs(t) == DaemonExecutes /\ dtask = t
           Reaps(t) == dpc = "reap" /\ dtask = t
<1>0. /\ TypeOK /\ StoreTypeOK /\ QueuedUntouched /\ Claimed /\ DaemonAged /\ DaemonStep
      /\ Workers = {} /\ Lights = {} /\ pseen' = pseen /\ overran' = overran
  BY DEF FinalContext, TypeOK, Aged, SoleClaimant, Daemon, plannerVars
<1>1. \A t : /\ Doomed(t) <=> Reaps(t) \/ Seen(t)
             /\ Doomed(t)' <=> Reaps(t)' \/ Seen(t)
             /\ Executed(t) <=> Runs(t)
             /\ Executed(t)' <=> Runs(t)'
  BY <1>0 DEF Doomed, Executed, Executors
<1>2. \A t \in TaskId \ overran : Doomed(t) =>
        /\ status[t] \in {"RUNNING", "FAILED", "BLOCKED_ENV"}
        /\ Runs(t) => status[t] # "RUNNING"
  BY <1>1 DEF FinalInv
<1>3. ASSUME DaemonExecutes' => Unsettled(dtask)',
             \A t \in TaskId \ overran : Reaps(t)' \/ Seen(t) =>
                 /\ status'[t] \in {"RUNNING", "FAILED", "BLOCKED_ENV"}
                 /\ Runs(t)' => status'[t] # "RUNNING"
      PROVE  FinalInv'
  BY <1>0, <1>1, <1>3 DEF FinalInv
<1> HIDE DEF Seen
<1>4. CASE DaemonClaim
  <2>1. /\ dtask \in TaskId /\ status[dtask] = "QUEUED" /\ ~Doomed(dtask)
        /\ UpdateTask(dtask, "RUNNING") /\ dtask' = dtask /\ dpc' = "lock"
    BY <1>0, <1>4 DEF DaemonClaim, DaemonAged, Claimed, ClaimPending, Doomed,
       QueuedUntouched, OutcomePending
  <2>2. status'[dtask] = "RUNNING" /\ \A t \in TaskId : t # dtask => status'[t] = status[t]
    BY <1>0, <2>1 DEF UpdateTask, StoreTypeOK
  <2>3. FinalStep
    BY <2>1, <2>2 DEF FinalStep, Terminal
  <2> QED
    BY <1>1, <1>2, <1>3, <2>1, <2>2, <2>3 DEF Unsettled
<1>5. CASE DaemonComplete \/ \E s \in Status : DaemonFail(s)
  <2>1. PICK s \in Terminal : UpdateTask(dtask, s)
    BY <1>5 DEF DaemonComplete, DaemonFail, Terminal
  <2>2. dpc \in {"run", "fail"} /\ dpc' = "clear" /\ dtask' = dtask
    BY <1>5 DEF DaemonComplete, DaemonFail
  <2>3. dtask \in TaskId /\ (dtask \in overran \/ (status[dtask] = "RUNNING" /\ ~Doomed(dtask)))
    BY <1>2, <2>2 DEF FinalInv, Unsettled, DaemonExecutes
  <2>4. \A t \in TaskId : t # dtask => status'[t] = status[t]
    BY <1>0, <2>1, <2>3 DEF UpdateTask, StoreTypeOK
  <2>5. FinalStep
    BY <2>3, <2>4 DEF FinalStep, Terminal
  <2> QED
    BY <1>1, <1>2, <1>3, <2>2, <2>3, <2>4, <2>5 DEF DaemonExecutes
<1>6. CASE DaemonReap
  <2>1. /\ UpdateTask(dtask, "FAILED") /\ dpc = "reap" /\ dpc' = "unlock" /\ dtask' = dtask
        /\ Doomed(dtask)
    BY <1>6 DEF DaemonReap, Doomed
  <2>2. \A t \in TaskId : status'[t] = IF t = dtask THEN "FAILED" ELSE status[t]
    BY <1>0, <2>1 DEF UpdateTask, StoreTypeOK
  <2>3. FinalStep
    BY <1>2, <2>1, <2>2 DEF FinalStep, Terminal
  <2> QED
    BY <1>1, <1>2, <1>3, <2>1, <2>2, <2>3 DEF DaemonExecutes
<1>7. CASE DaemonFinalizeRead
  <2>1. /\ status' = status /\ dtask' = dtask /\ dpc = "finalize"
        /\ dpc' = IF status[dtask] = "RUNNING" THEN "reap" ELSE "unlock"
    BY <1>7 DEF DaemonFinalizeRead, storeVars
  <2> QED
    BY <1>1, <1>2, <1>3, <2>1 DEF DaemonExecutes, FinalStep
<1>8. ASSUME UNCHANGED status,
             \/ dpc' \notin {"lock", "mark", "run", "fail", "reap"}
             \/ DaemonExecutes /\ DaemonExecutes' /\ dtask' = dtask
      PROVE  FinalInv' /\ FinalStep
  <2>1. DaemonExecutes' => Unsettled(dtask)'
    BY <1>0, <1>8 DEF FinalInv, Unsettled, DaemonExecutes
  <2>2. \A t \in TaskId : Reaps(t)' \/ Seen(t) => Doomed(t) /\ (Runs(t)' => Runs(t))
    BY <1>1, <1>8 DEF DaemonExecutes
  <2> QED
    BY <1>2, <1>3, <1>8, <2>1, <2>2 DEF FinalStep
<1>9. CASE \/ DaemonTake \/ DaemonWriteLock \/ DaemonMark \/ DaemonFallback \/ DaemonRaise
           \/ DaemonClear \/ DaemonFinalize \/ DaemonUnlock \/ DaemonStart
  <2>1. UNCHANGED status
    BY <1>9 DEF DaemonTake, DaemonWriteLock, DaemonMark, DaemonFallback, DaemonRaise,
       DaemonClear, DaemonFinalize, DaemonUnlock, DaemonStart, storeVars
  <2>2. \/ dpc' \in {"claim", "idle", "finalize"}
        \/ DaemonExecutes /\ DaemonExecutes' /\ dtask' = dtask
    BY <1>9 DEF DaemonTake, DaemonWriteLock, DaemonMark, DaemonFallback, DaemonRaise,
       DaemonClear, DaemonFinalize, DaemonUnlock, DaemonStart, DaemonExecutes
  <2> QED
    BY <1>8, <2>1, <2>2
<1>10. CASE \/ DaemonCallError \/ DaemonMarkError \/ DaemonFailError \/ DaemonClearError
            \/ DaemonCrash
  <2>1. UNCHANGED status /\ dpc' \in {"idle", "clear", "down"}
    BY <1>10 DEF DaemonCallError, DaemonMarkError, DaemonFailError, DaemonClearError,
       DaemonCrash, Abandon, rowVars
  <2> QED
    BY <1>8, <2>1
<1> QED
  BY <1>0, <1>4, <1>5, <1>6, <1>7, <1>9, <1>10 DEF DaemonStep, DaemonProgress

\* The light workers: the claim is atomic, so each has its row for itself.
LEMMA LightFinal ==
  ASSUME FinalContext, FinalInv, NEW l \in Lights, Light(l)
  PROVE  FinalInv' /\ FinalStep
<1> USE DEF LightDone
<1>0. /\ StoreTypeOK /\ LightTypeOK /\ QueuedUntouched /\ LightsApart /\ LightStep(l)
      /\ Workers = {} /\ ~DaemonExecutes /\ ~DaemonExecutes' /\ dpc' = dpc
      /\ UNCHANGED <<dtask, wsweep, pseen, overran>>
      /\ \A t \in TaskId : Doomed(t)' <=> Doomed(t)
  BY DEF FinalContext, TypeOK, SoleClaimant, Aged, DaemonAged, DaemonExecutes, Light,
     workerVars, daemonVars, plannerVars, Doomed
<1>1. \A t : /\ Executed(t) <=> \E m \in Lights : lpc[m] = "run" /\ ltask[m] = t
             /\ Executed(t)' <=> \E m \in Lights : lpc'[m] = "run" /\ ltask'[m] = t
  BY <1>0 DEF Executed, Executors
<1>2. CASE LightClaim(l)
  <2>1. PICK u \in With("QUEUED") : UpdateTask(u, "RUNNING") /\ ltask' = [ltask EXCEPT ![l] = u]
    BY <1>2 DEF LightClaim
  <2>2. /\ u \in TaskId /\ status[u] = "QUEUED" /\ ~Doomed(u)
        /\ lpc' = [lpc EXCEPT ![l] = "run"]
    BY <1>0, <1>2, <2>1 DEF LightClaim, With, QueuedUntouched, OutcomePending, Doomed
  <2>3. status'[u] = "RUNNING" /\ \A t \in TaskId : t # u => status'[t] = status[t]
    BY <1>0, <2>1, <2>2 DEF UpdateTask, StoreTypeOK
  <2>4. FinalStep
    BY <2>2, <2>3 DEF FinalStep, Terminal
  <2>5. \A m \in Lights : lpc'[m] = "run" => Unsettled(ltask[m])'
    BY <1>0, <2>1, <2>2, <2>3 DEF FinalInv, Unsettled, LightTypeOK
  <2>6. \A t \in TaskId : t # u => (Executed(t)' => Executed(t))
    BY <1>0, <1>1, <2>1, <2>2 DEF LightTypeOK
  <2>7. ASSUME NEW t \in TaskId, t \notin overran, Doomed(t)'
        PROVE  /\ status'[t] \in {"RUNNING", "FAILED", "BLOCKED_ENV"}
               /\ Executed(t)' => status'[t] # "RUNNING"
    BY <1>0, <2>2, <2>3, <2>6, <2>7 DEF FinalInv
  <2> QED
    BY <1>0, <2>4, <2>5, <2>7 DEF FinalInv
<1>3. ASSUME NEW s \in Status, LightFinish(l, s) PROVE FinalInv' /\ FinalStep
  <2> DEFINE u == ltask[l]
  <2>1. /\ UpdateTask(u, s) /\ lpc[l] = "run"
        /\ lpc' = [lpc EXCEPT ![l] = "idle"] /\ ltask' = [ltask EXCEPT ![l] = NoTask]
    BY <1>3 DEF LightFinish
  <2>2. u \in TaskId /\ (u \in overran \/ (status[u] = "RUNNING" /\ ~Doomed(u)))
    BY <1>1, <2>1 DEF FinalInv, Unsettled
  <2>3. \A t \in TaskId : t # u => status'[t] = status[t]
    BY <1>0, <2>1, <2>2 DEF UpdateTask, StoreTypeOK
  <2>4. FinalStep
    BY <2>2, <2>3 DEF FinalStep, Terminal
  <2>5. \A m \in Lights : lpc'[m] = "run" => lpc[m] = "run" /\ ltask'[m] = ltask[m] /\ ltask[m] # u
    BY <1>0, <2>1 DEF LightTypeOK, LightsApart
  <2>6. \A m \in Lights : lpc'[m] = "run" => Unsettled(ltask[m])'
    BY <1>0, <2>3, <2>5 DEF FinalInv, Unsettled
  <2>7. \A t \in TaskId : Executed(t)' => Executed(t) /\ t # u
    BY <1>1, <2>5
  <2> QED
    BY <1>0, <2>2, <2>3, <2>4, <2>6, <2>7 DEF FinalInv
<1>4. CASE LightDie(l)
  <2>1. status' = status
    BY <1>4 DEF LightDie, Abandon
  <2>2. \A m \in Lights : lpc'[m] = "run" => lpc[m] = "run" /\ ltask'[m] = ltask[m]
    BY <1>0, <1>4 DEF LightDie, LightTypeOK
  <2>3. \A t \in TaskId : Executed(t)' => Executed(t)
    BY <1>1, <2>2
  <2> QED
    BY <1>0, <2>1, <2>2, <2>3 DEF FinalInv, Unsettled, FinalStep
<1> QED
  BY <1>0, <1>2, <1>3, <1>4 DEF LightStep

\* Who will write an outcome executes the row.
LEMMA ExecutorsExecute ==
  /\ \A w \in Workers : wpc[w] \in {"run", "fail"} => Executed(wtask[w])
  /\ \A l \in Lights : lpc[l] = "run" => Executed(ltask[l])
  /\ DaemonExecutes => Executed(dtask)
BY DEF Executed, Executors, WorkerExecutes

\* A planner, with any number of others: all of them can only fail the row they
\* saw, and none of them sees a young RUNNING row as stale.
LEMMA PlannerFinal ==
  ASSUME FinalContext, FinalInv, NEW p \in Planners, Planner(p)
  PROVE  FinalInv' /\ FinalStep
<1> USE DEF PlannerTypeOK, PlannerDone
<1>0. /\ StoreTypeOK /\ PlannerTypeOK /\ QueuedUntouched /\ OverranKnown /\ PlannerStep(p)
      /\ UNCHANGED <<wpc, wtask, wsweep, dpc, dtask, lpc, ltask, overran>>
      /\ \A t : Executed(t)' <=> Executed(t)
  BY DEF FinalContext, TypeOK, Planner, workerVars, daemonVars, lightVars, Executed,
     Executors, WorkerExecutes, DaemonExecutes
<1>1. ASSUME UNCHANGED status, \A q \in Planners : pseen'[q] # NoTask => pseen'[q] = pseen[q]
      PROVE  FinalInv' /\ FinalStep
  <2>1. \A t \in TaskId : Doomed(t)' => Doomed(t)
    BY <1>0, <1>1 DEF Doomed, TaskId, NoTask
  <2> QED
    BY <1>0, <1>1, <2>1 DEF FinalInv, Unsettled, FinalStep, DaemonExecutes
<1>2. CASE PlannerSeeStale(p)
  <2>1. PICK t \in TaskId : Stale(t) /\ pseen' = [pseen EXCEPT ![p] = t]
    BY <1>2 DEF PlannerSeeStale
  <2>2. /\ status[t] \in {"RUNNING", "BLOCKED_ENV"}
        /\ Executed(t) /\ t \notin overran => status[t] # "RUNNING"
    BY <1>0, <2>1 DEF Stale, OverranKnown
  <2>3. UNCHANGED status /\ \A u \in TaskId : Doomed(u)' => Doomed(u) \/ u = t
    BY <1>0, <1>2, <2>1 DEF PlannerSeeStale, storeVars, Doomed
  <2> QED
    BY <1>0, <2>2, <2>3 DEF FinalInv, Unsettled, FinalStep, DaemonExecutes
<1>3. CASE PlannerResolve(p)
  <2> DEFINE u == pseen[p]
  <2>1. UpdateTask(u, "FAILED") /\ Doomed(u) /\ pseen' = [pseen EXCEPT ![p] = NoTask]
    BY <1>3 DEF PlannerResolve, Doomed
  <2> HIDE DEF u
  <2>2. \A t \in TaskId : status'[t] = IF t = u THEN "FAILED" ELSE status[t]
    BY <1>0, <2>1 DEF UpdateTask, StoreTypeOK
  <2>3. \A t \in TaskId : Doomed(t)' => Doomed(t)
    BY <1>0, <2>1 DEF Doomed, TaskId, NoTask
  <2>4. FinalStep
    BY <2>1, <2>2 DEF FinalInv, FinalStep, Terminal
  <2>5. ASSUME NEW t \in TaskId, Unsettled(t), Executed(t) PROVE Unsettled(t)'
    BY <1>0, <2>1, <2>2, <2>5 DEF FinalInv, Unsettled
  <2>6. FinalInv'
    BY <1>0, <2>1, <2>2, <2>3, <2>5, ExecutorsExecute DEF FinalInv, Unsettled, DaemonExecutes
  <2> QED
    BY <2>4, <2>6
<1>4. ASSUME NEW u \in TaskId, NEW k, CreateTask(u, k),
             \A q \in Planners : pseen'[q] # NoTask => pseen'[q] = pseen[q]
      PROVE  FinalInv' /\ FinalStep
  <2>1. /\ status[u] = "ABSENT" /\ ~OutcomePending(u)
        /\ \A t \in TaskId : t # u => status'[t] = status[t]
    BY <1>0, <1>4 DEF CreateTask, IsNext, StoreTypeOK, QueuedUntouched
  <2>2. \A t \in TaskId : Doomed(t)' => Doomed(t) /\ t # u
    BY <1>0, <1>4, <2>1 DEF Doomed, OutcomePending, TaskId, NoTask
  <2>3. FinalStep
    BY <2>1 DEF FinalStep, Terminal
  <2> QED
    BY <1>0, <2>1, <2>2, <2>3, ExecutorsExecute
       DEF FinalInv, Unsettled, OutcomePending, DaemonExecutes
<1>5. CASE PlannerRoute(p) \/ \E k \in Kinds : PlannerCreate(p, k)
  BY <1>0, <1>4, <1>5 DEF PlannerRoute, PlannerCreate
<1>6. CASE PlannerPass(p) \/ PlannerEnd(p) \/ PlannerDie(p)
  BY <1>0, <1>1, <1>6 DEF PlannerPass, PlannerEnd, PlannerDie, storeVars, rowVars
<1> QED
  BY <1>0, <1>2, <1>3, <1>5, <1>6 DEF PlannerStep

LEMMA NextFinal ==
  ASSUME FinalContext, FinalInv, [Next]_vars
  PROVE  FinalInv' /\ FinalStep
<1>1. ASSUME UNCHANGED <<status, wpc, wtask, wsweep, dpc, dtask, lpc, ltask, pseen>>,
             overran \subseteq overran'
      PROVE  FinalInv' /\ FinalStep
  <2>1. \A t \in TaskId : (Unsettled(t) => Unsettled(t)') /\ (Doomed(t)' <=> Doomed(t))
                          /\ (Executed(t)' <=> Executed(t))
    BY <1>1 DEF Unsettled, Doomed, Executed, Executors, WorkerExecutes, DaemonExecutes
  <2> QED
    BY <1>1, <2>1 DEF FinalInv, FinalStep, Unsettled, DaemonExecutes
<1>2. Operator \/ Tick \/ UNCHANGED vars =>
        /\ UNCHANGED <<status, wpc, wtask, wsweep, dpc, dtask, lpc, ltask, pseen>>
        /\ overran \subseteq overran'
  BY DEF Operator, SetPolicy, SetProvider, Tick, AgeRows, vars, storeVars, workerVars,
     daemonVars, lightVars, plannerVars
<1> QED
  BY <1>1, <1>2, WorkerFinal, DaemonFinal, LightFinal, PlannerFinal DEF Next

\* update_task (db.py:461) asks nothing of the old row, yet where a row has one
\* claimant at a time, only the outcome of a task that outlived the zombie age is
\* overwritten by another one: crashes, database errors, a worker's fallbacks,
\* routing and overlapping planner ticks included.
THEOREM OutcomesStand == SoleClaimant => (Spec => OutcomeStands)
<1> DEFINE Known == /\ TypeOK /\ QueuedUntouched /\ Claimed /\ CallsClocked /\ Aged
                    /\ DaemonDeployed /\ OverranKnown /\ LightsApart
<1>1. Init => FinalInv
  BY DEF Init, StoreInit, WorkerInit, DaemonInit, LightInit, PlannerInit, FinalInv, Doomed,
     DaemonExecutes, TaskId, NoTask
<1>2. SoleClaimant /\ Known /\ FinalInv /\ [Next]_vars => FinalInv' /\ FinalStep
  BY NextFinal DEF FinalContext
<1>3. FinalStep <=> \A t \in TaskId \ overran : status[t] \in Terminal => status'[t] = status[t]
  BY DEF FinalStep
<1>4. SoleClaimant => (Spec => []Known)
  BY TypeCorrect, QueuedStaysUntouched, ClaimedAlways, ClockedAlways, AgedAlways,
     DeployedAlways, OverranAlways, LightClaimsAreAtomic, PTL
<1>5. SoleClaimant => SoleClaimant'
  BY DEF SoleClaimant
<1> HIDE DEF Known
<1> QED
  BY <1>1, <1>2, <1>3, <1>4, <1>5, PTL DEF Spec, OutcomeStands

\* So outcomes are final where besides no execution can outlive the zombie age
\* (worker_tick.py:595-596), which the deployed timeouts do not give to the
\* Copilot providers.
THEOREM OutcomesAreFinal == SoleClaimant /\ AllTimed => (Spec => TerminalIsFinal)
<1>1. Init => overran = {}
  BY DEF Init
<1>2. ASSUME ZombieMeansDead', overran = {}, [Next]_vars PROVE (overran = {})'
  <2>1. CASE Tick
    <3>1. \A t \in TaskId : Executed(t)' <=> Executed(t)
      BY <2>1 DEF Tick, Executed, Executors, WorkerExecutes, DaemonExecutes, lightVars
    <3> QED
      BY <1>2, <2>1, <3>1 DEF Tick, AgeRows, ZombieMeansDead
  <2>2. CASE ~Tick
    BY <1>2, <2>2 DEF Next, Worker, Daemon, Light, Planner, Operator, vars
  <2> QED
    BY <2>1, <2>2
<1>3. AllTimed => (Spec => [](overran = {}))
  BY <1>1, <1>2, ZombiesAreDead, PTL DEF Spec
<1>4. ASSUME overran = {},
             [\A t \in TaskId \ overran : status[t] \in Terminal => status'[t] = status[t]]_vars
      PROVE  [\A t \in TaskId : status[t] \in Terminal => status'[t] = status[t]]_vars
  BY <1>4
<1> QED
  BY <1>3, <1>4, OutcomesStand, PTL DEF OutcomeStands, TerminalIsFinal

-----------------------------------------------------------------------------
(* The daemon's lock.                                                      *)

\* copilot_daemon.py:8: a lock file with a live pid means that the daemon executes
\* that task, if no database call raises between the lock and its removal.
THEOREM LockIsTrusted == ~DbMayFail => (Spec => []LockMeansBusy)
<1>1. Init => LockMeansBusy
  BY DEF Init, DaemonInit, LockMeansBusy
<1>2. ASSUME TypeOK, ~DbMayFail, LockMeansBusy, [Next]_vars PROVE LockMeansBusy'
  <2>1. CASE Daemon
    <3> USE DEF DaemonGoTo, DaemonIdle, lockVars
    <3>1. CASE DaemonTake \/ DaemonClaim \/ DaemonFinalize \/ DaemonFinalizeRead \/ DaemonReap
               \/ DaemonStart
      BY <1>2, <3>1 DEF DaemonTake, DaemonClaim, DaemonFinalize, DaemonFinalizeRead,
         DaemonReap, DaemonStart, LockMeansBusy
    <3>2. CASE DaemonWriteLock
      BY <3>2 DEF DaemonWriteLock, LockMeansBusy
    <3>3. CASE \/ DaemonMark \/ DaemonFallback \/ DaemonComplete \/ DaemonRaise
               \/ \E s \in Status : DaemonFail(s)
      BY <1>2, <3>3 DEF DaemonMark, DaemonFallback, DaemonComplete, DaemonRaise, DaemonFail,
         LockMeansBusy
    <3>4. CASE DaemonClear \/ DaemonUnlock \/ DaemonCrash
      BY <3>4 DEF DaemonClear, DaemonUnlock, DaemonCrash, LockMeansBusy
    <3>5. ~(DaemonCallError \/ DaemonMarkError \/ DaemonFailError \/ DaemonClearError)
      BY <1>2 DEF DaemonCallError, DaemonMarkError, DaemonFailError, DaemonClearError, DbFault
    <3> QED
      BY <2>1, <3>1, <3>2, <3>3, <3>4, <3>5 DEF Daemon, DaemonStep, DaemonProgress
  <2>2. CASE UNCHANGED <<lock, lockAlive, dpc, dtask>>
    BY <1>2, <2>2 DEF LockMeansBusy
  <2>3. \/ Daemon
        \/ UNCHANGED <<lock, lockAlive, dpc, dtask>>
    BY <1>2 DEF Next, Worker, Light, Planner, Operator, Tick, vars, daemonVars, lockVars
  <2> QED
    BY <2>1, <2>2, <2>3
<1>3. ~DbMayFail => (~DbMayFail)'
  OBVIOUS
<1> QED
  BY <1>1, <1>2, <1>3, TypeCorrect, PTL DEF Spec
=============================================================================
