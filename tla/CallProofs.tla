----------------------------- MODULE CallProofs -----------------------------
(***************************************************************************)
(* How long a row may say RUNNING while somebody executes it.  In its      *)
(* first provider call no executor is taken for a zombie, for every        *)
(* timeout below the zombie age and any number of actors; and where every  *)
(* execution is timed calls that end before the zombie age together, no    *)
(* zombie row has a live executor at all.                                  *)
(***************************************************************************)
EXTENDS OrchestratorProofs

\* What the calls before this one took at most.
Before(c) == CASE c = "codex" -> CallTimeout [] c = "last" -> 2 * CallTimeout [] OTHER -> 0

\* The clocks of a worker: none runs before the claim, a timed call is within
\* its timeout, and its row is no older than it and the calls before it; and
\* only a task for the Copilot CLI has more calls than one.
Clocked(w) ==
  /\ wpc[w] \in {"idle", "sweep", "claim"} => wclock[w] = 0
  /\ wpc[w] \in {"claim", "run"} => wtask[w] \in TaskId
  /\ wpc[w] = "run" /\ Timed(wtask[w]) =>
       /\ wclock[w] <= CallTimeout
       /\ status[wtask[w]] = "RUNNING" => age[wtask[w]] <= Before(wcall[w]) + wclock[w]
  /\ wcall[w] # "only" => ~(ProviderChoices \subseteq {"codex"})

CallsClocked == \A w \in Workers : Clocked(w)

\* What a step may do to the rows: the kind of a row is settled when it is
\* created, to one the planner knows, and a row that says RUNNING was RUNNING
\* before or has just begun.
Gentle ==
  \A t \in TaskId :
    /\ status[t] # "ABSENT" => kind'[t] = kind[t]
    /\ kind'[t] \in Kinds \cup {"llm", kind[t]}
    /\ status'[t] = "RUNNING" =>
         age'[t] = 0 \/ (status[t] = "RUNNING" /\ age'[t] = age[t])

-----------------------------------------------------------------------------
(* Every step but the clock's is gentle.                                   *)

\* The four things a call does to the rows.
LEMMA RowsGentle ==
  ASSUME StoreTypeOK
  PROVE  /\ \A t, s : UpdateTask(t, s) => Gentle
         /\ \A t \in TaskId : \A k \in Kinds \cup {"llm"} : CreateTask(t, k) => Gentle
         /\ \A t : Abandon(t) => Gentle
         /\ UNCHANGED rowVars => Gentle
<1>1. ASSUME NEW t, NEW s, UpdateTask(t, s) PROVE Gentle
  BY <1>1 DEF StoreTypeOK, UpdateTask, Gentle
<1>2. ASSUME NEW t \in TaskId, NEW k \in Kinds \cup {"llm"}, CreateTask(t, k) PROVE Gentle
  BY <1>2 DEF StoreTypeOK, CreateTask, IsNext, Gentle
<1>3. ASSUME NEW t, Abandon(t) PROVE Gentle
  BY <1>3 DEF Abandon, Gentle
<1>4. ASSUME UNCHANGED rowVars PROVE Gentle
  BY <1>4 DEF rowVars, Gentle
<1> QED
  BY <1>1, <1>2, <1>3, <1>4

\* A worker's step is gentle.
LEMMA WorkerGentle ==
  ASSUME StoreTypeOK, NEW w \in Workers, WorkerStep(w) PROVE Gentle
<1>1. \/ \E t, s : UpdateTask(t, s)
      \/ \E t : Abandon(t)
      \/ UNCHANGED rowVars
  <2>1. CASE \/ WorkerReap(w) \/ WorkerClaim(w) \/ WorkerFail(w)
             \/ \E s \in Status : WorkerFinish(w, s) \/ WorkerFinishThenRaise(w, s)
    BY <2>1 DEF WorkerReap, WorkerClaim, WorkerFail, WorkerFinish, WorkerFinishThenRaise
  <2>2. CASE WorkerHandlerError(w) \/ WorkerCrash(w)
    BY <2>2 DEF WorkerHandlerError, WorkerCrash
  <2>3. CASE \/ WorkerBegin(w) \/ WorkerIdle(w) \/ WorkerPick(w) \/ WorkerRaise(w)
             \/ WorkerExceptRead(w) \/ WorkerSweepError(w) \/ WorkerClaimError(w)
             \/ WorkerFallBack(w)
    BY <2>3 DEF WorkerBegin, WorkerIdle, WorkerPick, WorkerRaise, WorkerExceptRead,
       WorkerSweepError, WorkerClaimError, WorkerFallBack, storeVars, rowVars
  <2> QED
    BY <2>1, <2>2, <2>3 DEF WorkerStep
<1> QED
  BY <1>1, RowsGentle

\* A step of the daemon is gentle.
LEMMA DaemonGentle ==
  ASSUME StoreTypeOK, DaemonStep PROVE Gentle
<1>1. \/ \E t, s : UpdateTask(t, s)
      \/ \E t : Abandon(t)
      \/ UNCHANGED rowVars
  <2>1. CASE \/ DaemonClaim \/ DaemonComplete \/ DaemonReap
             \/ \E s \in Status : DaemonFail(s)
    BY <2>1 DEF DaemonClaim, DaemonComplete, DaemonReap, DaemonFail
  <2>2. CASE DaemonMarkError \/ DaemonFailError \/ DaemonCrash
    BY <2>2 DEF DaemonMarkError, DaemonFailError, DaemonCrash
  <2>3. CASE \/ DaemonTake \/ DaemonWriteLock \/ DaemonMark \/ DaemonFallback
             \/ DaemonRaise \/ DaemonClear \/ DaemonFinalize \/ DaemonFinalizeRead
             \/ DaemonUnlock \/ DaemonStart \/ DaemonCallError \/ DaemonClearError
    BY <2>3 DEF DaemonTake, DaemonWriteLock, DaemonMark, DaemonFallback, DaemonRaise,
       DaemonClear, DaemonFinalize, DaemonFinalizeRead, DaemonUnlock, DaemonStart,
       DaemonCallError, DaemonClearError, storeVars, rowVars
  <2> QED
    BY <2>1, <2>2, <2>3 DEF DaemonStep, DaemonProgress
<1> QED
  BY <1>1, RowsGentle

\* A step of a light worker is gentle.
LEMMA LightGentle ==
  ASSUME StoreTypeOK, NEW l \in Lights, LightStep(l) PROVE Gentle
<1>1. (\E t, s : UpdateTask(t, s)) \/ (\E t : Abandon(t))
  BY DEF LightStep, LightClaim, LightFinish, LightDie
<1> QED
  BY <1>1, RowsGentle

\* A step of a planner is gentle.
LEMMA PlannerGentle ==
  ASSUME StoreTypeOK, NEW p \in Planners, PlannerStep(p) PROVE Gentle
<1>1. \/ \E t, s : UpdateTask(t, s)
      \/ \E t \in TaskId : \E k \in Kinds \cup {"llm"} : CreateTask(t, k)
      \/ UNCHANGED rowVars
  <2>1. CASE PlannerResolve(p)
    BY <2>1 DEF PlannerResolve
  <2>2. CASE PlannerRoute(p) \/ \E k \in Kinds : PlannerCreate(p, k)
    BY <2>2 DEF PlannerRoute, PlannerCreate
  <2>3. CASE PlannerPass(p) \/ PlannerSeeStale(p) \/ PlannerEnd(p) \/ PlannerDie(p)
    BY <2>3 DEF PlannerPass, PlannerSeeStale, PlannerEnd, PlannerDie, storeVars, rowVars
  <2> QED
    BY <2>1, <2>2, <2>3 DEF PlannerStep
<1> QED
  BY <1>1, RowsGentle

-----------------------------------------------------------------------------
(* The clocks stay right.                                                  *)

LEMMA BeforeType ==
  ASSUME NEW c PROVE /\ Before(c) \in 0..(2 * CallTimeout) /\ CallTimeout \in Nat
                     /\ Before(c) + CallTimeout <= 3 * CallTimeout
BY WorkerAssumption DEF Before

\* A gentle step leaves the clocks of a worker right that does not move: its
\* row was created long ago, so its kind is settled.
LEMMA GentleClocked ==
  ASSUME TypeOK, QueuedUntouched, Gentle, NEW w \in Workers, Clocked(w),
         wpc'[w] = wpc[w], wtask'[w] = wtask[w], wcall'[w] = wcall[w], wclock'[w] = wclock[w]
  PROVE  Clocked(w)'
<1>1. CASE wpc[w] = "run"
  <2>1. wtask[w] \in TaskId /\ wclock[w] \in Nat
    BY <1>1 DEF Clocked, TypeOK, WorkerTypeOK
  <2>2. status[wtask[w]] # "ABSENT"
    BY <1>1, <2>1 DEF QueuedUntouched, OutcomePending
  <2>3. kind'[wtask[w]] = kind[wtask[w]]
    BY <2>1, <2>2 DEF Gentle
  <2>4. status'[wtask[w]] = "RUNNING" =>
          \/ age'[wtask[w]] = 0
          \/ status[wtask[w]] = "RUNNING" /\ age'[wtask[w]] = age[wtask[w]]
    BY <2>1 DEF Gentle
  <2> QED
    BY <1>1, <2>1, <2>3, <2>4, BeforeType DEF Clocked, Timed
<1>2. CASE wpc[w] # "run"
  BY <1>2 DEF Clocked
<1> QED
  BY <1>1, <1>2

\* A worker's own step: the claim starts the first call and the age of its row
\* at once, a fallback starts the next call when the one before has had its time.
LEMMA WorkerClocked ==
  ASSUME TypeOK, NEW w \in Workers, Clocked(w), WorkerStep(w)
  PROVE  Clocked(w)' \/ (UNCHANGED <<wpc, wtask, callVars>>)
<1> USE DEF TypeOK, WorkerTypeOK, callVars
<1>d. ASSUME WorkerDone(w) PROVE Clocked(w)'
  BY <1>d DEF WorkerDone, Clocked
<1>e. ASSUME wpc'[w] \in {"except", "fail"}, UNCHANGED wcall PROVE Clocked(w)'
  BY <1>e DEF Clocked
<1>1. CASE WorkerBegin(w)
  BY <1>1 DEF WorkerBegin, GoTo, Clocked
<1>2. CASE WorkerReap(w)
  BY <1>2 DEF WorkerReap
<1>3. CASE WorkerPick(w)
  BY <1>3 DEF WorkerPick, GoTo, Clocked
<1>4. CASE WorkerClaim(w)
  <2>1. /\ wtask[w] \in TaskId /\ wclock[w] = 0 /\ UpdateTask(wtask[w], "RUNNING")
        /\ wcall'[w] \in {"only", "copilot"}
        /\ wcall'[w] = "copilot" => provider # "codex"
    BY <1>4 DEF WorkerClaim, Clocked
  <2>2. age'[wtask[w]] = 0
    BY <2>1 DEF UpdateTask, StoreTypeOK
  <2>3. wpc'[w] = "run" /\ wtask' = wtask /\ wclock' = wclock
    BY <1>4 DEF WorkerClaim, GoTo
  <2>4. provider # "codex" => ~(ProviderChoices \subseteq {"codex"})
    BY DEF StoreTypeOK
  <2> QED
    BY <2>1, <2>2, <2>3, <2>4, WorkerAssumption DEF Clocked, Before
<1>5. CASE \/ WorkerIdle(w) \/ WorkerFail(w) \/ WorkerSweepError(w)
           \/ WorkerHandlerError(w) \/ WorkerCrash(w)
           \/ \E s \in Status : WorkerFinish(w, s)
  BY <1>5, <1>d DEF WorkerIdle, WorkerFail, WorkerSweepError, WorkerHandlerError,
     WorkerCrash, WorkerFinish
<1>6. CASE \/ WorkerRaise(w) \/ WorkerClaimError(w)
           \/ \E s \in Status : WorkerFinishThenRaise(w, s)
  BY <1>6, <1>e DEF WorkerRaise, WorkerClaimError, WorkerFinishThenRaise, GoTo
<1>7. CASE WorkerExceptRead(w)
  BY <1>7, <1>d, <1>e DEF WorkerExceptRead, GoTo
<1>8. CASE WorkerFallBack(w)
  <2>1. /\ wpc[w] = "run" /\ wclock'[w] = 0 /\ UNCHANGED <<wpc, wtask, status, kind, age>>
        /\ \/ wcall[w] = "copilot" /\ wcall'[w] = "codex"
           \/ wcall[w] = "codex" /\ wcall'[w] = "last"
    BY <1>8 DEF WorkerFallBack, storeVars
  <2>2. wtask[w] \in TaskId /\ age[wtask[w]] \in Nat /\ wclock[w] \in Nat
    BY <2>1 DEF Clocked, StoreTypeOK
  <2> QED
    BY <2>1, <2>2, WorkerAssumption DEF Clocked, Timed, Before
<1> QED
  BY <1>1, <1>2, <1>3, <1>4, <1>5, <1>6, <1>7, <1>8 DEF WorkerStep

\* A worker's step leaves the locals of the other workers alone.
LEMMA WorkerAlone ==
  ASSUME WorkerTypeOK, NEW w \in Workers, WorkerStep(w), NEW v \in Workers, v # w
  PROVE  /\ wpc'[v] = wpc[v] /\ wtask'[v] = wtask[v]
         /\ wcall'[v] = wcall[v] /\ wclock'[v] = wclock[v]
<1> USE DEF WorkerTypeOK, WorkerDone, GoTo, callVars
<1>1. CASE WorkerBegin(w) \/ WorkerReap(w) \/ WorkerIdle(w) \/ WorkerPick(w) \/ WorkerClaim(w)
  BY <1>1 DEF WorkerBegin, WorkerReap, WorkerIdle, WorkerPick, WorkerClaim
<1>2. CASE \E s \in Status : WorkerFinish(w, s) \/ WorkerFinishThenRaise(w, s)
  BY <1>2 DEF WorkerFinish, WorkerFinishThenRaise
<1>3. CASE WorkerFallBack(w) \/ WorkerRaise(w) \/ WorkerExceptRead(w) \/ WorkerFail(w)
  BY <1>3 DEF WorkerFallBack, WorkerRaise, WorkerExceptRead, WorkerFail
<1>4. CASE WorkerSweepError(w) \/ WorkerClaimError(w) \/ WorkerHandlerError(w) \/ WorkerCrash(w)
  BY <1>4 DEF WorkerSweepError, WorkerClaimError, WorkerHandlerError, WorkerCrash
<1> QED
  BY <1>1, <1>2, <1>3, <1>4 DEF WorkerStep

\* The clock: a call and its row age together, and a call that has used up
\* its timeout holds the clock.
LEMMA TickClocked ==
  ASSUME TypeOK, CallsClocked, Tick PROVE CallsClocked'
<1> SUFFICES ASSUME NEW w \in Workers PROVE Clocked(w)'
  BY DEF CallsClocked
<1>1. Clocked(w) /\ WorkerMayWait(w)
  BY DEF CallsClocked, Tick
<1>2. wpc' = wpc /\ wtask' = wtask /\ wcall' = wcall /\ status' = status /\ kind' = kind
  BY DEF Tick, AgeRows
<1>3. CASE wpc[w] = "idle"
  BY <1>1, <1>2, <1>3 DEF Tick, WorkerClocks, Clocked
<1>4. CASE wpc[w] = "run"
  <2>1. wtask[w] \in TaskId /\ wclock[w] \in 0..ZombieAge /\ age[wtask[w]] \in 0..ZombieAge
    BY <1>1, <1>4 DEF Clocked, TypeOK, WorkerTypeOK, StoreTypeOK
  <2>2. CASE ~Timed(wtask[w])
    BY <1>1, <1>2, <1>4, <2>1, <2>2 DEF Clocked, Timed
  <2>3. CASE Timed(wtask[w])
    <3>1. wclock[w] < CallTimeout /\ wclock'[w] = wclock[w] + 1
      BY <1>1, <1>4, <2>1, <2>3, WorkerAssumption, TaskStoreAssumption
         DEF WorkerMayWait, Tick, WorkerClocks
    <3>2. age'[wtask[w]] \in {age[wtask[w]], age[wtask[w]] + 1}
      BY <2>1 DEF Tick, AgeRows
    <3>3. /\ Before(wcall[w]) \in Nat /\ CallTimeout \in Nat /\ Before(wcall'[w]) = Before(wcall[w])
          /\ wclock[w] \in Nat /\ age[wtask[w]] \in Nat
      BY <1>2, <2>1, BeforeType, TaskStoreAssumption
    <3>4. /\ wclock'[w] <= CallTimeout
          /\ status[wtask[w]] = "RUNNING" =>
               age'[wtask[w]] <= Before(wcall[w]) + wclock'[w]
      <4> DEFINE b == Before(wcall[w])
      <4>1. status[wtask[w]] = "RUNNING" => age[wtask[w]] <= b + wclock[w]
        BY <1>1, <1>4, <2>3 DEF Clocked
      <4>2. b \in Nat
        BY <3>3
      <4> HIDE DEF b
      <4>3. status[wtask[w]] = "RUNNING" => age'[wtask[w]] <= b + wclock'[w]
        BY <3>1, <3>2, <3>3, <4>1, <4>2
      <4> QED
        BY <3>1, <3>3, <4>3 DEF b
    <3>5. wcall[w] # "only" => ~(ProviderChoices \subseteq {"codex"})
      BY <1>1 DEF Clocked
    <3> HIDE DEF Before
    <3> QED
      BY <1>2, <1>4, <2>1, <3>3, <3>4, <3>5 DEF Clocked, Timed
  <2> QED
    BY <2>2, <2>3
<1> QED
  BY <1>1, <1>3, <1>4 DEF WorkerMayWait

\* Every step keeps the clocks of all workers right.
LEMMA NextClocked ==
  ASSUME TypeOK, QueuedUntouched, CallsClocked, [Next]_vars PROVE CallsClocked'
<1>1. ASSUME Gentle, UNCHANGED <<wpc, wtask, callVars>> PROVE CallsClocked'
  BY <1>1, GentleClocked DEF CallsClocked, callVars
<1>2. ASSUME NEW w \in Workers, Worker(w) PROVE CallsClocked'
  <2>1. Gentle
    BY <1>2, WorkerGentle DEF Worker, TypeOK
  <2>2. ASSUME NEW v \in Workers, v # w PROVE Clocked(v)'
    BY <1>2, <2>1, <2>2, WorkerAlone, GentleClocked DEF Worker, TypeOK, CallsClocked
  <2>3. Clocked(w)' \/ UNCHANGED <<wpc, wtask, callVars>>
    BY <1>2, WorkerClocked DEF Worker, CallsClocked
  <2> QED
    BY <1>1, <2>1, <2>2, <2>3 DEF CallsClocked
<1>3. CASE Daemon
  BY <1>1, <1>3, DaemonGentle DEF Daemon, TypeOK, workerVars
<1>4. ASSUME NEW l \in Lights, Light(l) PROVE CallsClocked'
  BY <1>1, <1>4, LightGentle DEF Light, TypeOK, workerVars
<1>5. ASSUME NEW p \in Planners, Planner(p) PROVE CallsClocked'
  BY <1>1, <1>5, PlannerGentle DEF Planner, TypeOK, workerVars
<1>6. CASE Operator
  BY <1>1, <1>6, RowsGentle DEF Operator, SetPolicy, SetProvider, TypeOK, rowVars, workerVars
<1>7. CASE Tick
  BY <1>7, TickClocked
<1>8. CASE UNCHANGED vars
  BY <1>1, <1>8, RowsGentle DEF vars, TypeOK, storeVars, rowVars, workerVars
<1> QED
  BY <1>2, <1>3, <1>4, <1>5, <1>6, <1>7, <1>8 DEF Next

LEMMA ClockedAlways == Spec => []CallsClocked
<1>1. Init => CallsClocked
  BY DEF Init, WorkerInit, CallsClocked, Clocked
<1>2. TypeOK /\ QueuedUntouched /\ CallsClocked /\ [Next]_vars => CallsClocked'
  BY NextClocked
<1> QED
  BY <1>1, <1>2, TypeCorrect, QueuedStaysUntouched, PTL DEF Spec

-----------------------------------------------------------------------------
(* The ages of the rows, whoever executes them.                            *)

\* Row t has been RUNNING for at most n ticks, if it is.
Within(t, n) == t \in TaskId /\ (status[t] = "RUNNING" => age[t] <= n)

\* A row somebody is about to claim, and may have lost to another, is fresh;
\* one a handler holds has been RUNNING no longer than the calls made for it.
WorkerAged(w) ==
  /\ wpc[w] = "claim" => Within(wtask[w], 0)
  /\ wpc[w] \in {"except", "fail"} =>
       /\ wtask[w] \in TaskId
       /\ Timed(wtask[w]) => Within(wtask[w], Before(wcall[w]) + CallTimeout)

\* What the daemon's calls for one task take at most, this one included.
DaemonBound == IF dcall = 2 THEN 2 * CallTimeout ELSE CallTimeout

DaemonAged ==
  /\ DaemonExecutes => RunsDaemon
  /\ dpc = "claim" => dtask \in TaskId
  /\ dpc \in {"lock", "mark"} => Within(dtask, 0)
  /\ dpc = "run" /\ dcall = 1 => Within(dtask, dclock)
  /\ dpc = "run" /\ dcall = 2 => Within(dtask, CallTimeout + dclock)
  /\ dpc = "fail" => Within(dtask, DaemonBound)

Aged ==
  /\ \A w \in Workers : WorkerAged(w)
  /\ DaemonAged

\* A gentle step makes no row older.
LEMMA GentleAged ==
  ASSUME Gentle
  PROVE  \A t, n : 0 <= n /\ Within(t, n) => Within(t, n)'
<1>1. ASSUME NEW t, NEW n, 0 <= n, t \in TaskId, status[t] = "RUNNING" => age[t] <= n
      PROVE  status'[t] = "RUNNING" => age'[t] <= n
  BY <1>1 DEF Gentle
<1> QED
  BY <1>1 DEF Within

\* A step of somebody else leaves what a worker holds as it is: a row that is
\* not fresh was RUNNING before, so its kind was settled.
LEMMA GentleWorkerAged ==
  ASSUME Gentle, NEW w \in Workers, WorkerAged(w),
         wpc'[w] = wpc[w], wtask'[w] = wtask[w], wcall'[w] = wcall[w]
  PROVE  WorkerAged(w)'
<1>1. 0 <= 0 /\ 0 <= Before(wcall[w]) + CallTimeout
  BY BeforeType
<1>2. wpc[w] = "claim" => Within(wtask[w], 0)'
  BY <1>1, GentleAged DEF WorkerAged
<1>3. ASSUME wpc[w] \in {"except", "fail"}, Timed(wtask[w])'
      PROVE  Within(wtask[w], Before(wcall[w]) + CallTimeout)'
  <2>1. wtask[w] \in TaskId
    BY <1>3 DEF WorkerAged
  <2>2. CASE Timed(wtask[w])
    <3>1. Within(wtask[w], Before(wcall[w]) + CallTimeout)
      BY <1>3, <2>2 DEF WorkerAged
    <3>2. status'[wtask[w]] = "RUNNING" => age'[wtask[w]] <= Before(wcall[w]) + CallTimeout
      BY <1>1, <2>1, <3>1 DEF Gentle, Within
    <3> QED
      BY <2>1, <3>2 DEF Within
  <2>3. CASE ~Timed(wtask[w])
    <3>1. kind'[wtask[w]] # kind[wtask[w]]
      BY <1>3, <2>3 DEF Timed
    <3>2. status'[wtask[w]] = "RUNNING" => age'[wtask[w]] = 0
      BY <2>1, <3>1 DEF Gentle
    <3> QED
      BY <1>1, <2>1, <3>2 DEF Within
  <2> QED
    BY <2>2, <2>3
<1> QED
  BY <1>2, <1>3 DEF WorkerAged

\* A worker's own step: it picks a row that waits, and what its handler takes
\* over is its call's row, or one it never came to run.
LEMMA WorkerAgedStep ==
  ASSUME TypeOK, NEW w \in Workers, Clocked(w), WorkerAged(w), WorkerStep(w)
  PROVE  WorkerAged(w)' \/ UNCHANGED <<wpc, wtask, wcall>>
<1> USE DEF TypeOK, WorkerTypeOK, WorkerAged, GoTo, callVars
<1>0. CallTimeout \in Nat /\ wclock[w] \in Nat /\ Before(wcall[w]) \in Nat
  BY WorkerAssumption, BeforeType
<1>d. ASSUME WorkerDone(w) PROVE WorkerAged(w)'
  BY <1>d DEF WorkerDone
<1>1. CASE WorkerBegin(w) \/ WorkerReap(w) \/ WorkerClaim(w) \/ WorkerFallBack(w)
  BY <1>1 DEF WorkerBegin, WorkerReap, WorkerClaim, WorkerFallBack
<1>2. CASE WorkerPick(w)
  <2>1. PICK t \in TaskId : IsOldestQueued(t) /\ wtask' = [wtask EXCEPT ![w] = t]
    BY <1>2 DEF WorkerPick
  <2> QED
    BY <1>2, <2>1 DEF WorkerPick, storeVars, IsOldestQueued, Within
<1>3. CASE WorkerRaise(w)
  <2>1. wpc[w] = "run" /\ wpc'[w] = "except" /\ UNCHANGED <<wtask, wcall, status, kind, age>>
    BY <1>3 DEF WorkerRaise, storeVars
  <2>2. wtask[w] \in TaskId /\ age[wtask[w]] \in Nat
    BY <2>1 DEF Clocked, StoreTypeOK
  <2> QED
    BY <1>0, <2>1, <2>2 DEF Clocked, Within, Timed
<1>4. ASSUME NEW s \in Status, WorkerFinishThenRaise(w, s) PROVE WorkerAged(w)'
  <2>1. /\ wpc[w] = "run" /\ wpc'[w] = "except" /\ wtask' = wtask
        /\ UpdateTask(wtask[w], s) /\ s # "RUNNING"
    BY <1>4 DEF WorkerFinishThenRaise, Terminal
  <2>2. wtask[w] \in TaskId /\ status'[wtask[w]] # "RUNNING"
    BY <2>1 DEF Clocked, UpdateTask, StoreTypeOK
  <2> QED
    BY <2>1, <2>2 DEF Within
<1>5. CASE WorkerExceptRead(w)
  BY <1>5, <1>d DEF WorkerExceptRead, storeVars, Within, Timed
<1>6. CASE WorkerClaimError(w)
  <2>1. /\ wpc[w] = "claim" /\ wpc'[w] = "except" /\ UNCHANGED <<wtask, wcall, status, age>>
    BY <1>6 DEF WorkerClaimError, rowVars
  <2>2. wtask[w] \in TaskId /\ age[wtask[w]] \in Nat
    BY <2>1 DEF Within, StoreTypeOK
  <2> QED
    BY <1>0, <2>1, <2>2 DEF Within
<1>7. CASE \/ WorkerIdle(w) \/ WorkerFail(w) \/ WorkerSweepError(w)
           \/ WorkerHandlerError(w) \/ WorkerCrash(w)
           \/ \E s \in Status : WorkerFinish(w, s)
  BY <1>7, <1>d DEF WorkerIdle, WorkerFail, WorkerSweepError, WorkerHandlerError,
     WorkerCrash, WorkerFinish
<1> QED
  BY <1>1, <1>2, <1>3, <1>4, <1>5, <1>6, <1>7 DEF WorkerStep

\* The daemon's own step.  The clock starts anew with the fallback, the row's
\* age does not.
LEMMA DaemonAgedStep ==
  ASSUME TypeOK, DaemonAged, Daemon
  PROVE  DaemonAged'
<1> USE DEF DaemonIdle, DaemonGoTo, DaemonExecutes, DaemonBound
<1>0. /\ StoreTypeOK /\ dclock \in Nat /\ dclock <= CallTimeout /\ dcall \in {1, 2}
      /\ CallTimeout \in Nat /\ RunsDaemon /\ DaemonStep
      /\ \A t \in TaskId : age[t] \in Nat
  BY WorkerAssumption DEF TypeOK, StoreTypeOK, DaemonTypeOK, Daemon
<1>d. ASSUME dpc' \in {"idle", "down", "clear", "finalize", "reap", "unlock"}
      PROVE  DaemonAged'
  BY <1>d DEF DaemonAged
<1>1. CASE DaemonTake
  BY <1>0, <1>1 DEF DaemonTake, DaemonAged
<1>2. CASE DaemonClaim
  <2>1. dtask \in TaskId /\ UpdateTask(dtask, "RUNNING") /\ dpc' = "lock" /\ dtask' = dtask
    BY <1>2 DEF DaemonClaim, DaemonAged
  <2>2. age'[dtask] = 0
    BY <1>0, <2>1 DEF UpdateTask, StoreTypeOK
  <2> QED
    BY <1>0, <2>1, <2>2 DEF DaemonAged, Within
<1>3. CASE DaemonWriteLock
  BY <1>0, <1>3 DEF DaemonWriteLock, DaemonAged, Within, storeVars
<1>4. CASE DaemonMark
  <2>1. /\ dpc = "mark" /\ dpc' = "run"
        /\ UNCHANGED <<dtask, dcall, dclock, status, age>>
    BY <1>4 DEF DaemonMark, storeVars
  <2> QED
    BY <1>0, <2>1 DEF DaemonAged, Within
<1>5. CASE DaemonFallback
  <2>1. /\ dpc = "run" /\ dpc' = "run" /\ dcall = 1 /\ dcall' = 2 /\ dclock' = 0
        /\ UNCHANGED <<dtask, status, age>>
    BY <1>5 DEF DaemonFallback, storeVars
  <2> QED
    BY <1>0, <2>1 DEF DaemonAged, Within
<1>6. CASE DaemonRaise
  <2>1. /\ dpc = "run" /\ dpc' = "fail" /\ UNCHANGED <<dtask, dcall, status, age>>
    BY <1>6 DEF DaemonRaise, storeVars
  <2> QED
    BY <1>0, <2>1 DEF DaemonAged, Within
<1>7. CASE \/ DaemonComplete \/ DaemonClear \/ DaemonFinalize \/ DaemonFinalizeRead
           \/ DaemonReap \/ DaemonUnlock \/ DaemonStart \/ \E s \in Status : DaemonFail(s)
  BY <1>7, <1>d DEF DaemonComplete, DaemonClear, DaemonFinalize, DaemonFinalizeRead,
     DaemonReap, DaemonUnlock, DaemonStart, DaemonFail
<1>8. CASE \/ DaemonCallError \/ DaemonMarkError \/ DaemonFailError \/ DaemonClearError
           \/ DaemonCrash
  BY <1>8, <1>d DEF DaemonCallError, DaemonMarkError, DaemonFailError, DaemonClearError,
     DaemonCrash
<1> QED
  BY <1>0, <1>1, <1>2, <1>3, <1>4, <1>5, <1>6, <1>7, <1>8 DEF DaemonStep, DaemonProgress

\* The clock waits for every actor but one inside a timed call.
LEMMA TickAged ==
  ASSUME TypeOK, Aged, Tick
  PROVE  Aged'
<1>0. /\ UNCHANGED <<status, kind, wpc, wtask, wcall, dpc, dtask, dcall>>
      /\ \A t \in TaskId : age[t] \in Nat /\ age'[t] \in {age[t], age[t] + 1}
      /\ \A w \in Workers : wpc[w] \in {"idle", "run"}
      /\ DaemonMayWait /\ DaemonClock /\ dclock \in Nat /\ CallTimeout \in Nat
  BY WorkerAssumption
     DEF Tick, AgeRows, TypeOK, StoreTypeOK, DaemonTypeOK, WorkerMayWait
<1>1. \A w \in Workers : WorkerAged(w)'
  BY <1>0 DEF Aged, WorkerAged
<1>2. DaemonAged'
  BY <1>0 DEF Aged, DaemonAged, DaemonMayWait, DaemonClock, DaemonExecutes, Within
<1> QED
  BY <1>1, <1>2 DEF Aged

LEMMA NextAged ==
  ASSUME TypeOK, CallsClocked, Aged, [Next]_vars
  PROVE  Aged'
<1>1. ASSUME Gentle, UNCHANGED <<wpc, wtask, wcall>> PROVE \A w \in Workers : WorkerAged(w)'
  BY <1>1, GentleWorkerAged DEF Aged
<1>2. ASSUME Gentle, UNCHANGED daemonVars PROVE DaemonAged'
  <2>1. dclock \in Nat /\ CallTimeout \in Nat /\ dcall \in {1, 2}
    BY WorkerAssumption DEF TypeOK, DaemonTypeOK
  <2>2. /\ 0 <= 0 /\ 0 <= dclock /\ 0 <= CallTimeout + dclock
        /\ 0 <= DaemonBound
    BY <2>1 DEF DaemonBound
  <2> QED
    BY <1>2, <2>2, GentleAged
       DEF Aged, DaemonAged, DaemonBound, DaemonExecutes, Within, daemonVars
<1>3. ASSUME NEW w \in Workers, Worker(w) PROVE Aged'
  <2>1. Gentle /\ UNCHANGED daemonVars /\ WorkerStep(w)
    BY <1>3, WorkerGentle DEF Worker, TypeOK
  <2>2. ASSUME NEW v \in Workers, v # w PROVE WorkerAged(v)'
    BY <2>1, <2>2, WorkerAlone, GentleWorkerAged DEF Aged, TypeOK
  <2>3. WorkerAged(w)' \/ UNCHANGED <<wpc, wtask, wcall>>
    BY <2>1, WorkerAgedStep DEF Aged, CallsClocked
  <2> QED
    BY <1>1, <1>2, <2>1, <2>2, <2>3 DEF Aged
<1>4. CASE Daemon
  BY <1>1, <1>4, DaemonGentle, DaemonAgedStep DEF Aged, Daemon, TypeOK, workerVars, callVars
<1>5. ASSUME NEW l \in Lights, Light(l) PROVE Aged'
  BY <1>1, <1>2, <1>5, LightGentle DEF Aged, Light, TypeOK, workerVars, callVars
<1>6. ASSUME NEW p \in Planners, Planner(p) PROVE Aged'
  BY <1>1, <1>2, <1>6, PlannerGentle DEF Aged, Planner, TypeOK, workerVars, callVars
<1>7. CASE Operator \/ UNCHANGED vars
  <2>1. Gentle /\ UNCHANGED <<wpc, wtask, wcall, daemonVars>>
    BY <1>7, RowsGentle DEF Operator, SetPolicy, SetProvider, TypeOK, rowVars, workerVars,
       callVars, vars, storeVars
  <2> QED
    BY <1>1, <1>2, <2>1 DEF Aged
<1> QED
  BY <1>3, <1>4, <1>5, <1>6, <1>7, TickAged DEF Next

LEMMA AgedAlways == Spec => []Aged
<1>1. Init => Aged
  BY DEF Init, WorkerInit, DaemonInit, Aged, WorkerAged, DaemonAged, DaemonExecutes
<1>2. TypeOK /\ CallsClocked /\ Aged /\ [Next]_vars => Aged'
  BY NextAged
<1> QED
  BY <1>1, <1>2, TypeCorrect, ClockedAlways, PTL DEF Spec

\* How old a row may be for those that execute it.
LEMMA ExecutedAges ==
  ASSUME TypeOK, CallsClocked, Aged, NEW t \in TaskId, status[t] = "RUNNING"
  PROVE  /\ \A w \in Workers : WorkerExecutes(w) /\ wtask[w] = t /\ Timed(t) =>
              age[t] <= Before(wcall[w]) + CallTimeout
         /\ DaemonExecutes /\ dtask = t => RunsDaemon /\ age[t] <= DaemonBound
<1>0. /\ CallTimeout \in Nat /\ dclock \in Nat /\ dclock <= CallTimeout /\ dcall \in {1, 2}
      /\ age[t] \in Nat
  BY WorkerAssumption DEF TypeOK, DaemonTypeOK, StoreTypeOK
<1>1. ASSUME NEW w \in Workers, WorkerExecutes(w), wtask[w] = t, Timed(t)
      PROVE  age[t] <= Before(wcall[w]) + CallTimeout
  <2>1. WorkerAged(w) /\ Clocked(w) /\ wclock[w] \in Nat /\ Before(wcall[w]) \in Nat
    BY BeforeType DEF Aged, CallsClocked, TypeOK, WorkerTypeOK
  <2> QED
    BY <1>0, <1>1, <2>1 DEF WorkerAged, Clocked, Within, WorkerExecutes
<1>2. ASSUME DaemonExecutes, dtask = t PROVE RunsDaemon /\ age[t] <= DaemonBound
  BY <1>0, <1>2 DEF Aged, DaemonAged, DaemonBound, Within, DaemonExecutes
<1> QED
  BY <1>1, <1>2

-----------------------------------------------------------------------------
(* Theorems *)

\* worker_tick.py:621, copilot_daemon.py:513-535: no sweep and no planner fails a
\* row whose executor, a worker or the daemon, is still in its first provider
\* call, because the timeout of one call is below the zombie age; what outlives
\* that age has fallen back to another provider.
THEOREM OnlyFallbacksOutlive == Spec => []ZombiesFellBack
<1>1. TypeOK /\ CallsClocked /\ Aged => ZombiesFellBack
  <2> SUFFICES ASSUME TypeOK, CallsClocked, Aged, NEW t \in TaskId,
                      status[t] = "RUNNING", age[t] = ZombieAge
               PROVE  /\ \A w \in Workers :
                           WorkerExecutes(w) /\ wtask[w] = t /\ Timed(t) => wcall[w] \in Fallbacks
                      /\ DaemonExecutes /\ dtask = t => dcall = 2
    BY DEF ZombiesFellBack
  <2>1. /\ CallTimeout \in Nat /\ ZombieAge \in Nat /\ CallTimeout < ZombieAge
        /\ dcall \in {1, 2}
    BY WorkerAssumption, TaskStoreAssumption DEF TypeOK, DaemonTypeOK
  <2> QED
    BY <2>1, ExecutedAges DEF Before, DaemonBound, Fallbacks
<1> QED
  BY <1>1, TypeCorrect, ClockedAlways, AgedAlways, PTL

\* No executor without a timeout, and the calls made for one task, three by a
\* worker where Copilot is a provider and two by the daemon, end before the
\* zombie age together.
AllTimed ==
  /\ Lights = {} /\ "local" \notin Kinds
  /\ ProviderChoices \subseteq {"codex"} \/ 3 * CallTimeout < ZombieAge
  /\ RunsDaemon => 2 * CallTimeout < ZombieAge

LEMMA TimedAlways == AllTimed => (Spec => [](\A t \in TaskId : Timed(t)))
<1>1. Init => \A t \in TaskId : Timed(t)
  BY DEF Init, StoreInit, Timed
<1>2. ASSUME AllTimed, TypeOK, \A t \in TaskId : Timed(t), [Next]_vars
      PROVE  (\A t \in TaskId : Timed(t))'
  <2>1. CASE Gentle
    BY <1>2, <2>1 DEF Gentle, AllTimed, Timed
  <2>2. CASE Tick
    BY <1>2, <2>2 DEF Tick, AgeRows, Timed
  <2>3. CASE Operator \/ UNCHANGED vars
    BY <1>2, <2>3 DEF Operator, SetPolicy, SetProvider, vars, storeVars, Timed
  <2> QED
    BY <1>2, <2>1, <2>2, <2>3, WorkerGentle, DaemonGentle, LightGentle, PlannerGentle
       DEF Next, Worker, Daemon, Light, Planner, TypeOK
<1>3. AllTimed => AllTimed'
  BY DEF AllTimed
<1> QED
  BY <1>1, <1>2, <1>3, TypeCorrect, PTL DEF Spec

\* worker_tick.py:595-596 is right only under AllTimed: then a row the sweep may
\* fail has no live executor, whoever claimed it and however often.  A deployment
\* whose only provider is codex or claude, without the daemon, the deterministic
\* and the light executors, is one; with Copilot the timeouts together would have
\* to end before the zombie age, which the deployed ones do not (live_zombie).
THEOREM ZombiesAreDead == AllTimed => (Spec => []ZombieMeansDead)
<1>1. TypeOK /\ CallsClocked /\ AllTimed /\ Aged /\ (\A t \in TaskId : Timed(t)) => ZombieMeansDead
  <2> SUFFICES ASSUME TypeOK, CallsClocked, AllTimed, Aged, NEW t \in TaskId, Timed(t),
                      status[t] = "RUNNING", age[t] = ZombieAge, Executed(t)
               PROVE  FALSE
    BY DEF ZombieMeansDead
  <2>0. CallTimeout \in Nat /\ ZombieAge \in Nat /\ CallTimeout < ZombieAge /\ dcall \in {1, 2}
    BY WorkerAssumption, TaskStoreAssumption DEF TypeOK, DaemonTypeOK
  <2>1. ASSUME NEW w \in Workers, WorkerExecutes(w), wtask[w] = t PROVE FALSE
    <3>1. age[t] <= Before(wcall[w]) + CallTimeout
      BY <2>1, ExecutedAges
    <3>2. CASE ProviderChoices \subseteq {"codex"}
      BY <2>0, <3>1, <3>2 DEF CallsClocked, Clocked, Before
    <3>3. CASE 3 * CallTimeout < ZombieAge
      BY <2>0, <3>1, <3>3, BeforeType
    <3> QED
      BY <3>2, <3>3 DEF AllTimed
  <2>2. ASSUME DaemonExecutes, dtask = t PROVE FALSE
    BY <2>0, <2>2, ExecutedAges DEF DaemonBound, AllTimed
  <2> QED
    BY <2>1, <2>2 DEF Executed, Executors, AllTimed
<1>2. AllTimed => AllTimed'
  BY DEF AllTimed
<1> QED
  BY <1>1, <1>2, TypeCorrect, ClockedAlways, AgedAlways, TimedAlways, PTL
=============================================================================
