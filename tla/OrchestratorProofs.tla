------------------------- MODULE OrchestratorProofs -------------------------
(***************************************************************************)
(* Proofs about Orchestrator for any number of workers, light workers,     *)
(* planners, tasks and faults, with or without the daemon; last, that the  *)
(* actors together implement TaskLifecycle: every step moves each task by  *)
(* a legal move of the abstract life cycle, or not at all.                 *)
(***************************************************************************)
EXTENDS Orchestrator, TLAPS

-----------------------------------------------------------------------------
(* The store's operations.                                                 *)

\* The rows a sweep collects are RUNNING rows of the table.
LEMMA ZombiesRun == \A t \in Zombies : t \in TaskId /\ status[t] = "RUNNING"
  BY DEF Zombies, NewestRunning, With

\* An unconditional update keeps the row types, whatever task it names.
LEMMA UpdateTaskType ==
  ASSUME StoreTypeOK, NEW t, NEW s \in Status, UpdateTask(t, s)
  PROVE  /\ status' \in [TaskId -> Status]
         /\ kind' \in [TaskId -> {"llm", "local", "light"}]
         /\ age' \in [TaskId -> 0..ZombieAge]
         /\ lost' \in SUBSET TaskId
<1>1. 0 \in 0..ZombieAge
  BY TaskStoreAssumption
<1>2. status' \in [TaskId -> Status]
  BY DEF StoreTypeOK, UpdateTask
<1>3. age' \in [TaskId -> 0..ZombieAge]
  BY <1>1 DEF StoreTypeOK, UpdateTask
<1> QED
  BY <1>2, <1>3 DEF StoreTypeOK, UpdateTask

\* Leaving a row behind keeps the row types.
LEMMA AbandonType ==
  ASSUME StoreTypeOK, NEW t \in TaskId \cup {NoTask}, Abandon(t)
  PROVE  /\ status' \in [TaskId -> Status]
         /\ kind' \in [TaskId -> {"llm", "local", "light"}]
         /\ age' \in [TaskId -> 0..ZombieAge]
         /\ lost' \in SUBSET TaskId
  BY DEF StoreTypeOK, Abandon, NoTask

\* A fault keeps the bound on faults.
LEMMA FaultType ==
  ASSUME StoreTypeOK, Fault PROVE faults' \in 0..MaxFaults
  BY TaskStoreAssumption DEF StoreTypeOK, Fault

-----------------------------------------------------------------------------
(* Type correctness, actor by actor.                                       *)

\* A step of a worker keeps the types of the store and of the workers.
LEMMA WorkerType ==
  ASSUME StoreTypeOK, WorkerTypeOK, NEW w \in Workers, WorkerStep(w)
  PROVE  StoreTypeOK' /\ WorkerTypeOK'
<1> USE DEF WorkerTypeOK, WorkerPc, WorkerDone, GoTo, settingVars, storeVars, rowVars, callVars, Calls
<1>z. 0 \in 0..ZombieAge
  BY TaskStoreAssumption
<1>s. Terminal \cup {"BLOCKED_ENV", "RUNNING"} \subseteq Status
  BY DEF Terminal, Status
<1>d. ASSUME WorkerDone(w) PROVE WorkerTypeOK'
  BY <1>d, <1>z DEF NoTask
<1>1. CASE WorkerBegin(w)
  BY <1>1, ZombiesRun DEF WorkerBegin, StoreTypeOK
<1>2. CASE WorkerReap(w)
  <2>1. PICK t \in wsweep[w] : UpdateTask(t, "FAILED")
                               /\ wsweep' = [wsweep EXCEPT ![w] = @ \ {t}]
    BY <1>2 DEF WorkerReap
  <2> QED
    BY <1>2, <2>1, <1>s, UpdateTaskType DEF WorkerReap, StoreTypeOK, Terminal
<1>3. CASE WorkerIdle(w)
  BY <1>3, <1>d DEF WorkerIdle, StoreTypeOK
<1>4. CASE WorkerPick(w)
  BY <1>4 DEF WorkerPick, StoreTypeOK
<1>5. CASE WorkerClaim(w)
  <2>1. UpdateTask(wtask[w], "RUNNING")
    BY <1>5 DEF WorkerClaim
  <2> QED
    BY <1>5, <2>1, <1>s, UpdateTaskType DEF WorkerClaim, StoreTypeOK
<1>6. ASSUME NEW s \in Status, WorkerFinish(w, s) PROVE StoreTypeOK' /\ WorkerTypeOK'
  <2>1. UpdateTask(wtask[w], s) /\ WorkerDone(w)
    BY <1>6 DEF WorkerFinish
  <2> QED
    BY <1>6, <2>1, <1>d, UpdateTaskType DEF WorkerFinish, StoreTypeOK
<1>7. ASSUME NEW s \in Status, WorkerFinishThenRaise(w, s) PROVE StoreTypeOK' /\ WorkerTypeOK'
  <2>1. UpdateTask(wtask[w], s) /\ Fault
    BY <1>7 DEF WorkerFinishThenRaise, DbFault
  <2> QED
    BY <1>7, <2>1, FaultType, UpdateTaskType DEF WorkerFinishThenRaise, StoreTypeOK
<1>8. CASE WorkerRaise(w)
  BY <1>8 DEF WorkerRaise, StoreTypeOK
<1>9. CASE WorkerExceptRead(w)
  BY <1>9, <1>d DEF WorkerExceptRead, StoreTypeOK
<1>10. CASE WorkerFail(w)
  <2>1. UpdateTask(wtask[w], "FAILED") /\ WorkerDone(w)
    BY <1>10 DEF WorkerFail
  <2> QED
    BY <1>10, <2>1, <1>s, <1>d, UpdateTaskType DEF WorkerFail, StoreTypeOK, Terminal
<1>11. CASE WorkerSweepError(w)
  BY <1>11, <1>d, FaultType DEF WorkerSweepError, StoreTypeOK, DbFault
<1>12. CASE WorkerClaimError(w)
  BY <1>12, FaultType DEF WorkerClaimError, StoreTypeOK, DbFault
<1>13. CASE WorkerHandlerError(w)
  BY <1>13, <1>d, FaultType, AbandonType DEF WorkerHandlerError, StoreTypeOK, DbFault
<1>14. CASE WorkerCrash(w)
  BY <1>14, <1>d, FaultType, AbandonType DEF WorkerCrash, StoreTypeOK
<1>15. CASE WorkerFallBack(w)
  BY <1>15, <1>z DEF WorkerFallBack, StoreTypeOK
<1> QED
  BY <1>1, <1>2, <1>3, <1>4, <1>5, <1>6, <1>7, <1>8, <1>9, <1>10, <1>11, <1>12,
     <1>13, <1>14, <1>15 DEF WorkerStep

\* A step of the daemon keeps the types of the store and of the daemon.
LEMMA DaemonType ==
  ASSUME StoreTypeOK, DaemonTypeOK, DaemonStep
  PROVE  StoreTypeOK' /\ DaemonTypeOK'
<1> USE DEF DaemonTypeOK, DaemonPc, DaemonIdle, DaemonGoTo, settingVars, storeVars,
            rowVars, lockVars
<1>z. 0 \in 0..CallTimeout
  BY WorkerAssumption
<1>s. Terminal \cup {"RUNNING"} \subseteq Status
  BY DEF Terminal, Status
<1>1. CASE DaemonTake
  BY <1>1 DEF DaemonTake, StoreTypeOK
<1>2. CASE DaemonClaim
  <2>1. UpdateTask(dtask, "RUNNING")
    BY <1>2 DEF DaemonClaim
  <2> QED
    BY <1>2, <2>1, <1>s, UpdateTaskType DEF DaemonClaim, StoreTypeOK
<1>3. CASE DaemonWriteLock
  BY <1>3 DEF DaemonWriteLock, StoreTypeOK
<1>4. CASE DaemonMark
  BY <1>4 DEF DaemonMark, StoreTypeOK
<1>5. CASE DaemonFallback
  BY <1>5, <1>z DEF DaemonFallback, StoreTypeOK
<1>6. CASE DaemonComplete
  <2>1. UpdateTask(dtask, "COMPLETED")
    BY <1>6 DEF DaemonComplete
  <2> QED
    BY <1>6, <2>1, <1>s, UpdateTaskType DEF DaemonComplete, StoreTypeOK, Terminal
<1>7. CASE DaemonRaise
  BY <1>7 DEF DaemonRaise, StoreTypeOK
<1>8. ASSUME NEW s \in Status, DaemonFail(s) PROVE StoreTypeOK' /\ DaemonTypeOK'
  <2>1. UpdateTask(dtask, s)
    BY <1>8 DEF DaemonFail
  <2> QED
    BY <1>8, <2>1, UpdateTaskType DEF DaemonFail, StoreTypeOK
<1>9. CASE DaemonClear
  <2>1. lockAlive' \in BOOLEAN
    BY <1>9, Zenon DEF DaemonClear
  <2> QED
    BY <1>9, <2>1, <1>z DEF DaemonClear, StoreTypeOK
<1>10. CASE DaemonFinalize
  BY <1>10 DEF DaemonFinalize, StoreTypeOK
<1>11. CASE DaemonFinalizeRead
  BY <1>11 DEF DaemonFinalizeRead, StoreTypeOK
<1>12. CASE DaemonReap
  <2>1. UpdateTask(dtask, "FAILED")
    BY <1>12 DEF DaemonReap
  <2> QED
    BY <1>12, <2>1, <1>s, UpdateTaskType DEF DaemonReap, StoreTypeOK, Terminal
<1>13. CASE DaemonUnlock
  <2>1. lockAlive' \in BOOLEAN
    BY <1>13, Zenon DEF DaemonUnlock
  <2> QED
    BY <1>13, <2>1, <1>z DEF DaemonUnlock, StoreTypeOK
<1>14. CASE DaemonCallError
  BY <1>14, <1>z, FaultType DEF DaemonCallError, StoreTypeOK, DbFault
<1>15. CASE DaemonMarkError
  BY <1>15, <1>z, FaultType, AbandonType DEF DaemonMarkError, StoreTypeOK, DbFault
<1>16. CASE DaemonFailError
  BY <1>16, FaultType, AbandonType DEF DaemonFailError, StoreTypeOK, DbFault
<1>17. CASE DaemonClearError
  BY <1>17, <1>z, FaultType DEF DaemonClearError, StoreTypeOK, DbFault
<1>18. CASE DaemonCrash
  <2>1. lockAlive' \in BOOLEAN
    BY <1>18, Zenon DEF DaemonCrash
  <2> QED
    BY <1>18, <2>1, <1>z, FaultType, AbandonType DEF DaemonCrash, StoreTypeOK
<1>19. CASE DaemonStart
  BY <1>19, <1>z DEF DaemonStart, StoreTypeOK
<1> QED
  BY <1>1, <1>2, <1>3, <1>4, <1>5, <1>6, <1>7, <1>8, <1>9, <1>10, <1>11, <1>12,
     <1>13, <1>14, <1>15, <1>16, <1>17, <1>18, <1>19 DEF DaemonStep, DaemonProgress

\* A step of a light worker keeps the types of the store and of its locals.
LEMMA LightType ==
  ASSUME StoreTypeOK, LightTypeOK, NEW l \in Lights, LightStep(l)
  PROVE  StoreTypeOK' /\ LightTypeOK'
<1> USE DEF LightTypeOK, LightDone, settingVars
<1>s. {"RUNNING", "COMPLETED", "FAILED"} \subseteq Status
  BY DEF Terminal, Status
<1>1. CASE LightClaim(l)
  <2>1. PICK t \in TaskId : UpdateTask(t, "RUNNING") /\ ltask' = [ltask EXCEPT ![l] = t]
    BY <1>1 DEF LightClaim, With
  <2> QED
    BY <1>1, <2>1, <1>s, UpdateTaskType DEF LightClaim, StoreTypeOK
<1>2. ASSUME NEW s \in Status, LightFinish(l, s) PROVE StoreTypeOK' /\ LightTypeOK'
  <2>1. UpdateTask(ltask[l], s)
    BY <1>2 DEF LightFinish
  <2> QED
    BY <1>2, <2>1, UpdateTaskType DEF LightFinish, StoreTypeOK
<1>3. CASE LightDie(l)
  BY <1>3, FaultType, AbandonType DEF LightDie, StoreTypeOK
<1> QED
  BY <1>1, <1>2, <1>3 DEF LightStep

\* A step of a planner keeps the types of the store and of its locals.
LEMMA PlannerType ==
  ASSUME StoreTypeOK, PlannerTypeOK, NEW p \in Planners, PlannerStep(p)
  PROVE  StoreTypeOK' /\ PlannerTypeOK'
<1> USE DEF PlannerTypeOK, settingVars, storeVars, rowVars
<1>z. 0 \in 0..RouteBatch
  BY PlannerAssumption
<1>d. ASSUME PlannerDone(p) PROVE PlannerTypeOK'
  BY <1>d, <1>z DEF PlannerDone
<1>c. ASSUME NEW t \in TaskId, NEW k \in {"llm", "local", "light"}, CreateTask(t, k),
             UNCHANGED <<settingVars, faults>>
      PROVE  StoreTypeOK'
  <2>1. "QUEUED" \in Status
    BY DEF Status
  <2> QED
    BY <1>c, <2>1 DEF CreateTask, StoreTypeOK
<1>1. CASE PlannerPass(p)
  BY <1>1 DEF PlannerPass, StoreTypeOK
<1>2. CASE PlannerSeeStale(p)
  BY <1>2 DEF PlannerSeeStale, StoreTypeOK
<1>3. CASE PlannerResolve(p)
  <2>1. UpdateTask(pseen[p], "FAILED") /\ "FAILED" \in Status
    BY <1>3 DEF PlannerResolve, Status, Terminal
  <2> QED
    BY <1>3, <2>1, UpdateTaskType DEF PlannerResolve, StoreTypeOK
<1>4. ASSUME NEW k \in Kinds, PlannerCreate(p, k) PROVE StoreTypeOK' /\ PlannerTypeOK'
  <2>1. PICK t \in TaskId : CreateTask(t, k)
    BY <1>4 DEF PlannerCreate
  <2>2. k \in {"llm", "local", "light"}
    BY TaskStoreAssumption
  <2> QED
    BY <1>4, <2>1, <2>2, <1>c, <1>d DEF PlannerCreate
<1>5. CASE PlannerRoute(p)
  <2>1. PICK t \in TaskId : CreateTask(t, "llm")
    BY <1>5 DEF PlannerRoute
  <2>2. StoreTypeOK'
    BY <1>5, <2>1, <1>c DEF PlannerRoute
  <2>3. prouted[p] + 1 \in 0..RouteBatch
    BY <1>5, PlannerAssumption DEF PlannerRoute
  <2> QED
    BY <1>5, <2>2, <2>3 DEF PlannerRoute
<1>6. CASE PlannerEnd(p)
  BY <1>6, <1>d DEF PlannerEnd, StoreTypeOK
<1>7. CASE PlannerDie(p)
  BY <1>7, <1>d, FaultType DEF PlannerDie, StoreTypeOK
<1> QED
  BY <1>1, <1>2, <1>3, <1>4, <1>5, <1>6, <1>7 DEF PlannerStep

\* The clock keeps all ages and clocks within their bounds.
LEMMA TickType ==
  ASSUME TypeOK, Tick PROVE TypeOK'
<1>1. \A t \in TaskId : age'[t] \in 0..ZombieAge
  BY TaskStoreAssumption DEF TypeOK, StoreTypeOK, Tick, AgeRows
<1>2. \A w \in Workers : wclock'[w] \in 0..ZombieAge
  BY TaskStoreAssumption DEF TypeOK, WorkerTypeOK, Tick, WorkerClocks
<1>3. StoreTypeOK'
  BY <1>1 DEF TypeOK, StoreTypeOK, Tick, AgeRows, settingVars
<1>4. WorkerTypeOK'
  BY <1>2 DEF TypeOK, WorkerTypeOK, Tick, WorkerClocks
<1>5. DaemonTypeOK'
  BY WorkerAssumption
     DEF TypeOK, DaemonTypeOK, Tick, DaemonMayWait, DaemonClock, lockVars, DaemonPc
<1>6. overran' \in SUBSET TaskId
  BY DEF TypeOK, Tick
<1> QED
  BY <1>3, <1>4, <1>5, <1>6
     DEF TypeOK, Tick, LightTypeOK, PlannerTypeOK, lightVars, plannerVars

\* The initial states are well typed.
LEMMA InitType == Init => TypeOK
<1>1. StoreInit => StoreTypeOK
  BY TaskStoreAssumption DEF StoreInit, StoreTypeOK, Status
<1>2. WorkerInit => WorkerTypeOK
  BY TaskStoreAssumption DEF WorkerInit, WorkerTypeOK, WorkerPc, Calls
<1>3. DaemonInit => DaemonTypeOK
  <2>1. DaemonInit => lockAlive \in BOOLEAN
    BY Zenon DEF DaemonInit
  <2> QED
    BY <2>1, WorkerAssumption DEF DaemonInit, DaemonTypeOK, DaemonPc
<1>4. LightInit /\ PlannerInit => LightTypeOK /\ PlannerTypeOK
  BY PlannerAssumption DEF LightInit, LightTypeOK, PlannerInit, PlannerTypeOK
<1> QED
  BY <1>1, <1>2, <1>3, <1>4 DEF Init, TypeOK

\* Every step keeps every type.
LEMMA NextType ==
  ASSUME TypeOK, [Next]_vars PROVE TypeOK'
<1> USE DEF TypeOK
<1>1. ASSUME NEW w \in Workers, Worker(w) PROVE TypeOK'
  BY <1>1, WorkerType DEF Worker, DaemonTypeOK, LightTypeOK, PlannerTypeOK,
     daemonVars, lightVars, plannerVars
<1>2. CASE Daemon
  BY <1>2, DaemonType DEF Daemon, WorkerTypeOK, LightTypeOK, PlannerTypeOK,
     workerVars, callVars, lightVars, plannerVars
<1>3. ASSUME NEW l \in Lights, Light(l) PROVE TypeOK'
  BY <1>3, LightType DEF Light, WorkerTypeOK, DaemonTypeOK, PlannerTypeOK,
     workerVars, callVars, daemonVars, plannerVars
<1>4. ASSUME NEW p \in Planners, Planner(p) PROVE TypeOK'
  BY <1>4, PlannerType DEF Planner, WorkerTypeOK, DaemonTypeOK, LightTypeOK,
     workerVars, callVars, daemonVars, lightVars
<1>5. CASE Operator
  BY <1>5 DEF Operator, SetPolicy, SetProvider, StoreTypeOK, WorkerTypeOK,
     DaemonTypeOK, LightTypeOK, PlannerTypeOK, workerVars, callVars, daemonVars, lightVars,
     plannerVars
<1>6. CASE Tick
  BY <1>6, TickType
<1>7. CASE UNCHANGED vars
  BY <1>7 DEF vars, storeVars, workerVars, callVars, daemonVars, lightVars, plannerVars,
     StoreTypeOK, WorkerTypeOK, DaemonTypeOK, LightTypeOK, PlannerTypeOK
<1> QED
  BY <1>1, <1>2, <1>3, <1>4, <1>5, <1>6, <1>7 DEF Next

\* Every reachable state is well typed.
THEOREM TypeCorrect == Spec => []TypeOK
<1>1. TypeOK /\ [Next]_vars => TypeOK'
  BY NextType
<1> QED
  BY InitType, <1>1, PTL DEF Spec

-----------------------------------------------------------------------------
(* A queued row is untouched.                                              *)

\* What an unconditional update leaves in each row.
LEMMA UpdateTaskRow ==
  ASSUME StoreTypeOK, NEW t, NEW s, UpdateTask(t, s), NEW u \in TaskId
  PROVE  status'[u] = IF u = t THEN s ELSE status[u]
  BY DEF StoreTypeOK, UpdateTask

\* A worker takes only RUNNING rows into its sweep and runs only rows it claimed.
LEMMA WorkerUntouched ==
  ASSUME TypeOK, QueuedUntouched, NEW w \in Workers, Worker(w)
  PROVE  QueuedUntouched'
<1> USE DEF TypeOK, WorkerTypeOK
<1> SUFFICES ASSUME NEW t \in TaskId, status'[t] \in {"QUEUED", "ABSENT"}
             PROVE  /\ ~OutcomePending(t)'
                    /\ lock' # t
                    /\ status'[t] = "ABSENT" => ~ClaimPending(t)'
  BY DEF QueuedUntouched
<1> DEFINE Sound ==
      /\ status'[t] = status[t]
      /\ \A v \in Workers : t \in wsweep'[v] => t \in wsweep[v]
      /\ \A v \in Workers : wtask'[v] = t /\ wpc'[v] \in {"run", "fail"}
                            => wtask[v] = t /\ wpc[v] \in {"run", "fail"}
      /\ \A v \in Workers : wtask'[v] = t /\ wpc'[v] = "claim" /\ status[t] = "ABSENT"
                            => wtask[v] = t /\ wpc[v] = "claim"
<1>s. ASSUME Sound
      PROVE  /\ ~OutcomePending(t)'
             /\ lock' # t
             /\ status'[t] = "ABSENT" => ~ClaimPending(t)'
  <2>1. UNCHANGED <<daemonVars, lightVars, plannerVars>>
    BY DEF Worker
  <2>2. /\ ~OutcomePending(t)
        /\ lock # t
        /\ status[t] = "ABSENT" => ~ClaimPending(t)
    BY <1>s DEF QueuedUntouched
  <2> QED
    BY <1>s, <2>1, <2>2 DEF OutcomePending, ClaimPending, DaemonExecutes,
       daemonVars, lightVars, plannerVars
<1>1. CASE WorkerBegin(w)
  <2>1. t \notin Zombies
    BY <1>1, ZombiesRun DEF WorkerBegin, storeVars
  <2> QED
    BY <1>1, <2>1, <1>s DEF WorkerBegin, GoTo, storeVars
<1>2. CASE WorkerReap(w)
  <2>1. PICK z \in wsweep[w] : UpdateTask(z, "FAILED")
                               /\ wsweep' = [wsweep EXCEPT ![w] = @ \ {z}]
    BY <1>2 DEF WorkerReap
  <2>2. status'[t] = status[t]
    BY <2>1, UpdateTaskRow
  <2> QED
    BY <1>2, <2>1, <2>2, <1>s DEF WorkerReap
<1>3. CASE WorkerIdle(w)
  BY <1>3, <1>s DEF WorkerIdle, WorkerDone, storeVars
<1>4. CASE WorkerPick(w)
  BY <1>4, <1>s DEF WorkerPick, GoTo, storeVars, IsOldestQueued
<1>5. CASE WorkerClaim(w)
  <2>1. wtask[w] # t /\ status'[t] = status[t]
    BY <1>5, UpdateTaskRow DEF WorkerClaim
  <2> QED
    BY <1>5, <2>1, <1>s DEF WorkerClaim, GoTo
<1>6. ASSUME NEW s \in Status, WorkerFinish(w, s) PROVE Sound
  <2>1. status'[t] = status[t]
    BY <1>6, UpdateTaskRow DEF WorkerFinish, Terminal
  <2> QED
    BY <1>6, <2>1 DEF WorkerFinish, WorkerDone
<1>7. ASSUME NEW s \in Status, WorkerFinishThenRaise(w, s) PROVE Sound
  <2>1. status'[t] = status[t]
    BY <1>7, UpdateTaskRow DEF WorkerFinishThenRaise, Terminal
  <2> QED
    BY <1>7, <2>1 DEF WorkerFinishThenRaise, GoTo
<1>8. CASE WorkerRaise(w)
  BY <1>8, <1>s DEF WorkerRaise, GoTo, storeVars
<1>9. CASE WorkerExceptRead(w)
  BY <1>9, <1>s DEF WorkerExceptRead, WorkerDone, GoTo, storeVars
<1>10. CASE WorkerFail(w)
  <2>1. status'[t] = status[t]
    BY <1>10, UpdateTaskRow DEF WorkerFail
  <2> QED
    BY <1>10, <2>1, <1>s DEF WorkerFail, WorkerDone
<1>11. CASE WorkerSweepError(w)
  BY <1>11, <1>s DEF WorkerSweepError, WorkerDone, rowVars
<1>12. CASE WorkerClaimError(w)
  BY <1>12, <1>s DEF WorkerClaimError, GoTo, rowVars
<1>13. CASE WorkerHandlerError(w)
  BY <1>13, <1>s DEF WorkerHandlerError, WorkerDone, Abandon
<1>14. CASE WorkerCrash(w)
  <2>1. UNCHANGED status
    BY <1>14 DEF WorkerCrash, Abandon, rowVars
  <2> QED
    BY <1>14, <2>1, <1>s DEF WorkerCrash, WorkerDone
<1>15. CASE WorkerFallBack(w)
  BY <1>15, <1>s DEF WorkerFallBack, storeVars
<1> QED
  BY <1>1, <1>2, <1>3, <1>4, <1>5, <1>6, <1>7, <1>8, <1>9, <1>10, <1>11, <1>12,
     <1>13, <1>14, <1>15, <1>s DEF Worker, WorkerStep

\* The daemon locks and settles only a row it claimed.
LEMMA DaemonUntouched ==
  ASSUME TypeOK, QueuedUntouched, Daemon
  PROVE  QueuedUntouched'
<1> USE DEF TypeOK
<1> SUFFICES ASSUME NEW t \in TaskId, status'[t] \in {"QUEUED", "ABSENT"}
             PROVE  /\ ~OutcomePending(t)'
                    /\ lock' # t
                    /\ status'[t] = "ABSENT" => ~ClaimPending(t)'
  BY DEF QueuedUntouched
<1> DEFINE Writes == dtask = t /\ (DaemonExecutes \/ dpc = "reap")
           Sound ==
             /\ status'[t] = status[t]
             /\ Writes' => Writes
             /\ lock' = t => lock = t \/ Writes
             /\ (dpc' = "claim" /\ dtask' = t /\ status[t] = "ABSENT")
                  => dpc = "claim" /\ dtask = t
<1>s. ASSUME Sound
      PROVE  /\ ~OutcomePending(t)'
             /\ lock' # t
             /\ status'[t] = "ABSENT" => ~ClaimPending(t)'
  <2>1. UNCHANGED <<workerVars, lightVars, plannerVars>>
    BY DEF Daemon
  <2>2. /\ ~OutcomePending(t)
        /\ lock # t
        /\ status[t] = "ABSENT" => ~ClaimPending(t)
    BY <1>s DEF QueuedUntouched
  <2> QED
    BY <1>s, <2>1, <2>2 DEF OutcomePending, ClaimPending, workerVars, lightVars, plannerVars
<1> USE DEF DaemonExecutes, DaemonIdle, DaemonGoTo, lockVars
<1>1. CASE DaemonTake
  BY <1>1, <1>s DEF DaemonTake, IsOldestQueued, storeVars
<1>2. CASE DaemonClaim
  <2>1. dtask # t /\ status'[t] = status[t]
    BY <1>2, UpdateTaskRow DEF DaemonClaim
  <2> QED
    BY <1>2, <2>1, <1>s DEF DaemonClaim
<1>3. CASE DaemonWriteLock
  BY <1>3, <1>s DEF DaemonWriteLock, storeVars
<1>4. CASE DaemonMark
  BY <1>4, <1>s DEF DaemonMark, storeVars
<1>5. CASE DaemonFallback
  BY <1>5, <1>s DEF DaemonFallback, storeVars
<1>6. CASE DaemonComplete
  <2>1. status'[t] = status[t]
    BY <1>6, UpdateTaskRow DEF DaemonComplete
  <2> QED
    BY <1>6, <2>1, <1>s DEF DaemonComplete
<1>7. CASE DaemonRaise
  BY <1>7, <1>s DEF DaemonRaise, storeVars
<1>8. ASSUME NEW s \in Status, DaemonFail(s) PROVE Sound
  <2>1. status'[t] = status[t]
    BY <1>8, UpdateTaskRow DEF DaemonFail
  <2> QED
    BY <1>8, <2>1 DEF DaemonFail
<1>9. CASE DaemonClear
  BY <1>9, <1>s DEF DaemonClear, storeVars, NoTask, TaskId
<1>10. CASE DaemonFinalize
  BY <1>10, <1>s DEF DaemonFinalize, storeVars
<1>11. CASE DaemonFinalizeRead
  BY <1>11, <1>s DEF DaemonFinalizeRead, storeVars
<1>12. CASE DaemonReap
  <2>1. status'[t] = status[t]
    BY <1>12, UpdateTaskRow DEF DaemonReap
  <2> QED
    BY <1>12, <2>1, <1>s DEF DaemonReap
<1>13. CASE DaemonUnlock
  BY <1>13, <1>s DEF DaemonUnlock, storeVars, NoTask, TaskId
<1>14. CASE DaemonCallError
  BY <1>14, <1>s DEF DaemonCallError, rowVars
<1>15. CASE DaemonMarkError
  BY <1>15, <1>s DEF DaemonMarkError, Abandon
<1>16. CASE DaemonFailError
  BY <1>16, <1>s DEF DaemonFailError, Abandon
<1>17. CASE DaemonClearError
  BY <1>17, <1>s DEF DaemonClearError, rowVars
<1>18. CASE DaemonCrash
  <2>1. UNCHANGED status
    BY <1>18 DEF DaemonCrash, Abandon, rowVars
  <2> QED
    BY <1>18, <2>1, <1>s DEF DaemonCrash
<1>19. CASE DaemonStart
  BY <1>19, <1>s DEF DaemonStart, storeVars
<1> QED
  BY <1>1, <1>2, <1>3, <1>4, <1>5, <1>6, <1>7, <1>8, <1>9, <1>10, <1>11, <1>12,
     <1>13, <1>14, <1>15, <1>16, <1>17, <1>18, <1>19, <1>s
     DEF Daemon, DaemonStep, DaemonProgress

\* A light worker settles only the row it claimed.
LEMMA LightUntouched ==
  ASSUME TypeOK, QueuedUntouched, NEW l \in Lights, Light(l)
  PROVE  QueuedUntouched'
<1> USE DEF TypeOK, LightTypeOK
<1> SUFFICES ASSUME NEW t \in TaskId, status'[t] \in {"QUEUED", "ABSENT"}
             PROVE  /\ ~OutcomePending(t)'
                    /\ lock' # t
                    /\ status'[t] = "ABSENT" => ~ClaimPending(t)'
  BY DEF QueuedUntouched
<1>1. UNCHANGED <<workerVars, daemonVars, plannerVars>>
  BY DEF Light
<1>2. /\ status'[t] = status[t]
      /\ \A m \in Lights : lpc'[m] = "run" /\ ltask'[m] = t => lpc[m] = "run" /\ ltask[m] = t
  <2>1. CASE LightClaim(l)
    <3>1. PICK u \in TaskId : UpdateTask(u, "RUNNING") /\ ltask' = [ltask EXCEPT ![l] = u]
      BY <2>1 DEF LightClaim, With
    <3>2. u # t /\ status'[t] = status[t]
      BY <3>1, UpdateTaskRow
    <3> QED
      BY <2>1, <3>1, <3>2 DEF LightClaim
  <2>2. ASSUME NEW s \in Status, LightFinish(l, s) PROVE <1>2
    <3>1. status'[t] = status[t]
      BY <2>2, UpdateTaskRow DEF LightFinish
    <3> QED
      BY <2>2, <3>1 DEF LightFinish, LightDone
  <2>3. CASE LightDie(l)
    BY <2>3 DEF LightDie, LightDone, Abandon
  <2> QED
    BY <2>1, <2>2, <2>3 DEF Light, LightStep
<1>3. /\ ~OutcomePending(t)
      /\ lock # t
      /\ status[t] = "ABSENT" => ~ClaimPending(t)
  BY <1>2 DEF QueuedUntouched
<1> QED
  BY <1>1, <1>2, <1>3 DEF OutcomePending, ClaimPending, DaemonExecutes,
     workerVars, daemonVars, plannerVars

\* A planner resolves only stale rows, and creates rows nobody holds.
LEMMA PlannerUntouched ==
  ASSUME TypeOK, QueuedUntouched, NEW p \in Planners, Planner(p)
  PROVE  QueuedUntouched'
<1> USE DEF TypeOK, PlannerTypeOK
<1> SUFFICES ASSUME NEW t \in TaskId, status'[t] \in {"QUEUED", "ABSENT"}
             PROVE  /\ ~OutcomePending(t)'
                    /\ lock' # t
                    /\ status'[t] = "ABSENT" => ~ClaimPending(t)'
  BY DEF QueuedUntouched
<1>1. UNCHANGED <<workerVars, daemonVars, lightVars>>
  BY DEF Planner
<1>c. ASSUME NEW u \in TaskId, NEW k, CreateTask(u, k)
      PROVE  status[t] \in {"QUEUED", "ABSENT"}
             /\ (status'[t] = "ABSENT" => status[t] = "ABSENT")
  BY <1>c DEF CreateTask, IsNext, StoreTypeOK
<1>2. /\ status[t] \in {"QUEUED", "ABSENT"}
      /\ status'[t] = "ABSENT" => status[t] = "ABSENT"
      /\ \A q \in Planners : pseen'[q] = t => pseen[q] = t
  <2>1. CASE PlannerPass(p)
    BY <2>1 DEF PlannerPass, storeVars
  <2>2. CASE PlannerSeeStale(p)
    <3>1. PICK u \in TaskId : Stale(u) /\ pseen' = [pseen EXCEPT ![p] = u]
      BY <2>2 DEF PlannerSeeStale
    <3>2. u # t
      BY <2>2, <3>1 DEF PlannerSeeStale, Stale, storeVars
    <3> QED
      BY <2>2, <3>1, <3>2 DEF PlannerSeeStale, storeVars
  <2>3. CASE PlannerResolve(p)
    <3>1. status'[t] = status[t]
      BY <2>3, UpdateTaskRow DEF PlannerResolve
    <3> QED
      BY <2>3, <3>1 DEF PlannerResolve, NoTask, TaskId
  <2>4. ASSUME NEW k \in Kinds, PlannerCreate(p, k) PROVE <1>2
    BY <2>4, <1>c DEF PlannerCreate, PlannerDone, NoTask, TaskId
  <2>5. CASE PlannerRoute(p)
    BY <2>5, <1>c DEF PlannerRoute
  <2>6. CASE PlannerEnd(p)
    BY <2>6 DEF PlannerEnd, PlannerDone, storeVars, NoTask, TaskId
  <2>7. CASE PlannerDie(p)
    BY <2>7 DEF PlannerDie, PlannerDone, rowVars, NoTask, TaskId
  <2> QED
    BY <2>1, <2>2, <2>3, <2>4, <2>5, <2>6, <2>7 DEF Planner, PlannerStep
<1>3. /\ ~OutcomePending(t)
      /\ lock # t
      /\ status[t] = "ABSENT" => ~ClaimPending(t)
  BY <1>2 DEF QueuedUntouched
<1> QED
  BY <1>1, <1>2, <1>3 DEF OutcomePending, ClaimPending, DaemonExecutes,
     workerVars, daemonVars, lightVars

\* No step makes a pending outcome point at a queued row.
LEMMA NextUntouched ==
  ASSUME TypeOK, QueuedUntouched, [Next]_vars PROVE QueuedUntouched'
<1>1. ASSUME UNCHANGED <<status, wtask, wsweep, wpc, dtask, dpc, lock, lightVars, pseen>>
      PROVE  QueuedUntouched'
  BY <1>1 DEF QueuedUntouched, OutcomePending, ClaimPending, DaemonExecutes, lightVars
<1>2. CASE Operator
  BY <1>2, <1>1 DEF Operator, SetPolicy, SetProvider, workerVars, daemonVars, lightVars,
     plannerVars
<1>3. CASE Tick
  BY <1>3, <1>1 DEF Tick, AgeRows, lightVars, plannerVars, lockVars
<1>4. CASE UNCHANGED vars
  BY <1>4, <1>1 DEF vars, storeVars, workerVars, daemonVars, lightVars, plannerVars
<1> QED
  BY <1>2, <1>3, <1>4, WorkerUntouched, DaemonUntouched, LightUntouched,
     PlannerUntouched DEF Next

\* A task waits in the queue untouched until somebody claims it: in no
\* reachable state is an outcome about to be written into a queued row.
THEOREM QueuedStaysUntouched == Spec => []QueuedUntouched
<1>1. Init => QueuedUntouched
  BY DEF Init, StoreInit, WorkerInit, DaemonInit, LightInit, PlannerInit, QueuedUntouched,
     OutcomePending, ClaimPending, DaemonExecutes, NoTask, TaskId
<1>2. TypeOK /\ QueuedUntouched /\ [Next]_vars => QueuedUntouched'
  BY NextUntouched
<1> QED
  BY <1>1, <1>2, TypeCorrect, PTL DEF Spec

-----------------------------------------------------------------------------
(* A RUNNING row has an executor, or lost one.                             *)

\* Executed without its sets.
LEMMA ExecutedBy ==
  ASSUME NEW t
  PROVE  Executed(t) <=> \/ \E w \in Workers : WorkerExecutes(w) /\ wtask[w] = t
                         \/ \E l \in Lights : lpc[l] = "run" /\ ltask[l] = t
                         \/ DaemonExecutes /\ dtask = t
  BY DEF Executed, Executors

\* What an unconditional update does to the history of lost rows.
LEMMA UpdateTaskLost ==
  ASSUME NEW t, NEW s, UpdateTask(t, s), NEW u \in TaskId, u # t
  PROVE  u \in lost => u \in lost'
  BY DEF UpdateTask

\* A worker that stops executing leaves no RUNNING row unless it is lost.
LEMMA WorkerOwned ==
  ASSUME TypeOK, RunningIsOwned, NEW w \in Workers, Worker(w)
  PROVE  RunningIsOwned'
<1> USE DEF TypeOK, WorkerTypeOK
<1> DEFINE WE(v, t) == WorkerExecutes(v) /\ wtask[v] = t
           Kept(t) == /\ status[t] = "RUNNING"
                      /\ t \in lost => t \in lost'
                      /\ \A v \in Workers : WE(v, t) => WE(v, t)' \/ t \in lost'
<1> SUFFICES ASSUME NEW t \in TaskId, status'[t] = "RUNNING"
             PROVE  Kept(t) \/ WE(w, t)'
  <2>1. UNCHANGED <<daemonVars, lightVars>>
    BY DEF Worker
  <2>2. ASSUME NEW t \in TaskId, Kept(t) \/ WE(w, t)' PROVE Executed(t)' \/ t \in lost'
    BY <2>1, <2>2, ExecutedBy DEF RunningIsOwned, DaemonExecutes, Executed, Executors,
       daemonVars, lightVars
  <2> QED
    BY <2>2 DEF RunningIsOwned
<1> USE DEF WorkerExecutes
<1>1. CASE WorkerBegin(w)
  BY <1>1 DEF WorkerBegin, GoTo, storeVars
<1>2. CASE WorkerReap(w)
  <2>1. PICK z \in wsweep[w] : UpdateTask(z, "FAILED")
    BY <1>2 DEF WorkerReap
  <2>2. z # t /\ status[t] = "RUNNING"
    BY <2>1, UpdateTaskRow
  <2> QED
    BY <1>2, <2>1, <2>2, UpdateTaskLost DEF WorkerReap
<1>3. CASE WorkerIdle(w)
  BY <1>3 DEF WorkerIdle, WorkerDone, storeVars
<1>4. CASE WorkerPick(w)
  BY <1>4 DEF WorkerPick, GoTo, storeVars
<1>5. CASE WorkerClaim(w)
  <2>1. CASE wtask[w] = t
    BY <1>5, <2>1 DEF WorkerClaim, GoTo
  <2>2. CASE wtask[w] # t
    BY <1>5, <2>2, UpdateTaskRow, UpdateTaskLost DEF WorkerClaim, GoTo
  <2> QED
    BY <2>1, <2>2
<1>6. ASSUME NEW s \in Status, WorkerFinish(w, s) PROVE Kept(t)
  <2>1. wtask[w] # t /\ status[t] = "RUNNING"
    BY <1>6, UpdateTaskRow DEF WorkerFinish, Terminal
  <2> QED
    BY <1>6, <2>1, UpdateTaskLost DEF WorkerFinish, WorkerDone
<1>7. ASSUME NEW s \in Status, WorkerFinishThenRaise(w, s) PROVE Kept(t)
  <2>1. wtask[w] # t /\ status[t] = "RUNNING"
    BY <1>7, UpdateTaskRow DEF WorkerFinishThenRaise, Terminal
  <2> QED
    BY <1>7, <2>1, UpdateTaskLost DEF WorkerFinishThenRaise, GoTo
<1>8. CASE WorkerRaise(w)
  BY <1>8 DEF WorkerRaise, GoTo, storeVars
<1>9. CASE WorkerExceptRead(w)
  BY <1>9 DEF WorkerExceptRead, WorkerDone, GoTo, storeVars
<1>10. CASE WorkerFail(w)
  <2>1. wtask[w] # t /\ status[t] = "RUNNING"
    BY <1>10, UpdateTaskRow DEF WorkerFail
  <2> QED
    BY <1>10, <2>1, UpdateTaskLost DEF WorkerFail, WorkerDone
<1>11. CASE WorkerSweepError(w)
  BY <1>11 DEF WorkerSweepError, WorkerDone, rowVars
<1>12. CASE WorkerClaimError(w)
  BY <1>12 DEF WorkerClaimError, GoTo, rowVars
<1>13. CASE WorkerHandlerError(w)
  BY <1>13 DEF WorkerHandlerError, WorkerDone, Abandon, NoTask, TaskId
<1>14. CASE WorkerCrash(w)
  BY <1>14 DEF WorkerCrash, WorkerDone, Abandon, rowVars, NoTask, TaskId
<1>15. CASE WorkerFallBack(w)
  BY <1>15 DEF WorkerFallBack, storeVars
<1> QED
  BY <1>1, <1>2, <1>3, <1>4, <1>5, <1>6, <1>7, <1>8, <1>9, <1>10, <1>11, <1>12,
     <1>13, <1>14, <1>15 DEF Worker, WorkerStep

\* The daemon that stops executing leaves no RUNNING row unless it is lost.
LEMMA DaemonOwned ==
  ASSUME TypeOK, RunningIsOwned, Daemon
  PROVE  RunningIsOwned'
<1> USE DEF TypeOK, DaemonExecutes
<1> DEFINE DE(t) == DaemonExecutes /\ dtask = t
           Kept(t) == /\ status[t] = "RUNNING"
                      /\ t \in lost => t \in lost'
                      /\ DE(t) => DE(t)' \/ t \in lost'
<1> SUFFICES ASSUME NEW t \in TaskId, status'[t] = "RUNNING"
             PROVE  Kept(t) \/ DE(t)'
  <2>1. UNCHANGED <<workerVars, lightVars>>
    BY DEF Daemon
  <2>2. ASSUME NEW t \in TaskId, Kept(t) \/ DE(t)' PROVE Executed(t)' \/ t \in lost'
    BY <2>1, <2>2, ExecutedBy DEF RunningIsOwned, WorkerExecutes, Executed, Executors,
       workerVars, lightVars
  <2> QED
    BY <2>2 DEF RunningIsOwned
<1> USE DEF DaemonIdle, DaemonGoTo
<1>1. CASE DaemonTake
  BY <1>1 DEF DaemonTake, storeVars
<1>2. CASE DaemonClaim
  <2>1. CASE dtask = t
    BY <1>2, <2>1 DEF DaemonClaim
  <2>2. CASE dtask # t
    BY <1>2, <2>2, UpdateTaskRow, UpdateTaskLost DEF DaemonClaim
  <2> QED
    BY <2>1, <2>2
<1>3. CASE DaemonWriteLock
  BY <1>3 DEF DaemonWriteLock, storeVars
<1>4. CASE DaemonMark
  BY <1>4 DEF DaemonMark, storeVars
<1>5. CASE DaemonFallback
  BY <1>5 DEF DaemonFallback, storeVars
<1>6. CASE DaemonComplete
  <2>1. dtask # t /\ status[t] = "RUNNING"
    BY <1>6, UpdateTaskRow DEF DaemonComplete
  <2> QED
    BY <1>6, <2>1, UpdateTaskLost DEF DaemonComplete
<1>7. CASE DaemonRaise
  BY <1>7 DEF DaemonRaise, storeVars
<1>8. ASSUME NEW s \in Status, DaemonFail(s) PROVE Kept(t)
  <2>1. dtask # t /\ status[t] = "RUNNING"
    BY <1>8, UpdateTaskRow DEF DaemonFail
  <2> QED
    BY <1>8, <2>1, UpdateTaskLost DEF DaemonFail
<1>9. CASE DaemonClear
  BY <1>9 DEF DaemonClear, storeVars
<1>10. CASE DaemonFinalize
  BY <1>10 DEF DaemonFinalize, storeVars
<1>11. CASE DaemonFinalizeRead
  BY <1>11 DEF DaemonFinalizeRead, storeVars
<1>12. CASE DaemonReap
  <2>1. dtask # t /\ status[t] = "RUNNING"
    BY <1>12, UpdateTaskRow DEF DaemonReap
  <2> QED
    BY <1>12, <2>1, UpdateTaskLost DEF DaemonReap
<1>13. CASE DaemonUnlock
  BY <1>13 DEF DaemonUnlock, storeVars
<1>14. CASE DaemonCallError
  BY <1>14 DEF DaemonCallError, rowVars
<1>15. CASE DaemonMarkError
  BY <1>15 DEF DaemonMarkError, Abandon, NoTask, TaskId
<1>16. CASE DaemonFailError
  BY <1>16 DEF DaemonFailError, Abandon, NoTask, TaskId
<1>17. CASE DaemonClearError
  BY <1>17 DEF DaemonClearError, rowVars
<1>18. CASE DaemonCrash
  BY <1>18 DEF DaemonCrash, Abandon, rowVars, NoTask, TaskId
<1>19. CASE DaemonStart
  BY <1>19 DEF DaemonStart, storeVars
<1> QED
  BY <1>1, <1>2, <1>3, <1>4, <1>5, <1>6, <1>7, <1>8, <1>9, <1>10, <1>11, <1>12,
     <1>13, <1>14, <1>15, <1>16, <1>17, <1>18, <1>19 DEF Daemon, DaemonStep, DaemonProgress

\* A light worker that stops leaves no RUNNING row unless it is lost.
LEMMA LightOwned ==
  ASSUME TypeOK, RunningIsOwned, NEW l \in Lights, Light(l)
  PROVE  RunningIsOwned'
<1> USE DEF TypeOK, LightTypeOK
<1> DEFINE LE(m, t) == lpc[m] = "run" /\ ltask[m] = t
           Kept(t) == /\ status[t] = "RUNNING"
                      /\ t \in lost => t \in lost'
                      /\ \A m \in Lights : LE(m, t) => LE(m, t)' \/ t \in lost'
<1> SUFFICES ASSUME NEW t \in TaskId, status'[t] = "RUNNING"
             PROVE  Kept(t) \/ LE(l, t)'
  <2>1. UNCHANGED <<workerVars, daemonVars>>
    BY DEF Light
  <2>2. ASSUME NEW t \in TaskId, Kept(t) \/ LE(l, t)' PROVE Executed(t)' \/ t \in lost'
    BY <2>1, <2>2, ExecutedBy DEF RunningIsOwned, WorkerExecutes, DaemonExecutes, Executed,
       Executors, workerVars, daemonVars
  <2> QED
    BY <2>2 DEF RunningIsOwned
<1>1. CASE LightClaim(l)
  <2>1. PICK u \in TaskId : UpdateTask(u, "RUNNING") /\ ltask' = [ltask EXCEPT ![l] = u]
    BY <1>1 DEF LightClaim, With
  <2>2. lpc[l] = "idle" /\ lpc' = [lpc EXCEPT ![l] = "run"]
    BY <1>1 DEF LightClaim
  <2>3. CASE u = t
    BY <2>1, <2>2, <2>3
  <2>4. CASE u # t
    BY <2>1, <2>2, <2>4, UpdateTaskRow, UpdateTaskLost
  <2> QED
    BY <2>3, <2>4
<1>2. ASSUME NEW s \in Status, LightFinish(l, s) PROVE Kept(t)
  <2>1. ltask[l] # t /\ status[t] = "RUNNING"
    BY <1>2, UpdateTaskRow DEF LightFinish
  <2> QED
    BY <1>2, <2>1, UpdateTaskLost DEF LightFinish, LightDone
<1>3. CASE LightDie(l)
  BY <1>3 DEF LightDie, LightDone, Abandon, NoTask, TaskId
<1> QED
  BY <1>1, <1>2, <1>3 DEF Light, LightStep

\* A planner takes no row away from its executor.
LEMMA PlannerOwned ==
  ASSUME TypeOK, RunningIsOwned, NEW p \in Planners, Planner(p)
  PROVE  RunningIsOwned'
<1> USE DEF TypeOK
<1> SUFFICES ASSUME NEW t \in TaskId, status'[t] = "RUNNING"
             PROVE  status[t] = "RUNNING" /\ (t \in lost => t \in lost')
  BY DEF Planner, RunningIsOwned, Executed, Executors, WorkerExecutes, DaemonExecutes,
     workerVars, daemonVars, lightVars
<1>1. CASE PlannerResolve(p)
  <2>1. pseen[p] # t /\ status[t] = "RUNNING"
    BY <1>1, UpdateTaskRow DEF PlannerResolve
  <2> QED
    BY <1>1, <2>1, UpdateTaskLost DEF PlannerResolve
<1>2. ASSUME NEW k \in Kinds, PlannerCreate(p, k)
      PROVE  status[t] = "RUNNING" /\ (t \in lost => t \in lost')
  BY <1>2 DEF PlannerCreate, CreateTask, StoreTypeOK
<1>3. CASE PlannerRoute(p)
  BY <1>3 DEF PlannerRoute, CreateTask, StoreTypeOK
<1>4. CASE PlannerPass(p) \/ PlannerSeeStale(p) \/ PlannerEnd(p) \/ PlannerDie(p)
  BY <1>4 DEF PlannerPass, PlannerSeeStale, PlannerEnd, PlannerDie, storeVars, rowVars
<1> QED
  BY <1>1, <1>2, <1>3, <1>4 DEF Planner, PlannerStep

\* No step leaves a RUNNING row behind.
LEMMA NextOwned ==
  ASSUME TypeOK, RunningIsOwned, [Next]_vars PROVE RunningIsOwned'
<1>1. ASSUME UNCHANGED <<status, lost, wtask, wpc, dtask, dpc, lightVars>>
      PROVE  RunningIsOwned'
  BY <1>1 DEF RunningIsOwned, Executed, Executors, WorkerExecutes, DaemonExecutes, lightVars
<1>2. CASE Operator
  BY <1>2, <1>1 DEF Operator, SetPolicy, SetProvider, workerVars, daemonVars, lightVars
<1>3. CASE Tick
  BY <1>3, <1>1 DEF Tick, AgeRows, lightVars
<1>4. CASE UNCHANGED vars
  BY <1>4, <1>1 DEF vars, storeVars, workerVars, daemonVars, lightVars
<1> QED
  BY <1>2, <1>3, <1>4, WorkerOwned, DaemonOwned, LightOwned, PlannerOwned DEF Next

\* No handler, finally clause or early return of the ticks leaves a row
\* RUNNING behind: a row without an executor lost it to a crash or to a
\* failing database.
THEOREM RunningStaysOwned == Spec => []RunningIsOwned
<1>1. Init => RunningIsOwned
  BY DEF Init, StoreInit, RunningIsOwned
<1>2. TypeOK /\ RunningIsOwned /\ [Next]_vars => RunningIsOwned'
  BY NextOwned
<1> QED
  BY <1>1, <1>2, TypeCorrect, PTL DEF Spec

-----------------------------------------------------------------------------
(* The life cycle: what a step may do to one task.                         *)

\* some process will write into t without reading it again
Held(t) == OutcomePending(t) \/ ClaimPending(t)

Started == Status \ {"ABSENT", "QUEUED"}

\* What a step may do to the row of one task and to those who hold it.
Legal(t) ==
  /\ status[t] = "ABSENT" => status'[t] \in {"ABSENT", "QUEUED"}
  /\ status[t] = "QUEUED" => status'[t] \in {"QUEUED", "RUNNING"}
  /\ status[t] \in Started => status'[t] \in Started
  /\ Settled(t) => status'[t] = status[t] /\ ~Held(t)'

\* A row that is written was held, and a queued one only by claimers.
LEMMA HeldStarted ==
  ASSUME QueuedUntouched, NEW t \in TaskId
  PROVE  /\ OutcomePending(t) => status[t] \notin {"ABSENT", "QUEUED"}
         /\ ClaimPending(t) => status[t] # "ABSENT"
         /\ Settled(t) => ~Held(t)
  BY DEF QueuedUntouched, Settled, Held

\* A write of RUNNING into a row somebody was to claim, or of an outcome into
\* a row an outcome was pending for, is legal for every row.
LEMMA WriteLegal ==
  ASSUME TypeOK, QueuedUntouched, NEW u, NEW s \in Started, UpdateTask(u, s),
         NEW t \in TaskId,
         \/ OutcomePending(u)
         \/ ClaimPending(u) /\ s = "RUNNING",
         Settled(t) => ~Held(t)'
  PROVE  Legal(t)
<1>1. status'[t] = IF t = u THEN s ELSE status[t]
  BY UpdateTaskRow DEF TypeOK
<1>2. status[t] \in Status
  BY DEF TypeOK, StoreTypeOK
<1>3. CASE t = u
  BY <1>1, <1>3, HeldStarted DEF Legal, Started, Status, Held
<1>4. CASE t # u
  BY <1>1, <1>2, <1>4 DEF Legal, Started, Status
<1> QED
  BY <1>3, <1>4

\* A step that leaves the rows alone is legal if it takes hold of no settled one.
LEMMA ReadLegal ==
  ASSUME TypeOK, UNCHANGED status, NEW t \in TaskId, Settled(t) => ~Held(t)'
  PROVE  Legal(t)
  BY DEF Legal, TypeOK, StoreTypeOK, Started

\* A step of a worker moves every task legally.
LEMMA WorkerLegal ==
  ASSUME TypeOK, QueuedUntouched, NEW w \in Workers, Worker(w), NEW t \in TaskId
  PROVE  Legal(t)
<1> USE DEF TypeOK, WorkerTypeOK
<1> DEFINE WHeld(v) == \/ t \in wsweep[v]
                       \/ wtask[v] = t /\ wpc[v] \in {"claim", "run", "fail"}
           Kept == Settled(t) => \A v \in Workers : WHeld(v)' => WHeld(v)
<1>s. Kept => (Settled(t) => ~Held(t)')
  BY HeldStarted DEF Worker, Held, OutcomePending, ClaimPending, DaemonExecutes,
     daemonVars, lightVars, plannerVars
<1>n. Terminal \cup {"BLOCKED_ENV", "RUNNING"} \subseteq Started
  BY DEF Started, Status, Terminal
<1>1. CASE WorkerBegin(w)
  <2>1. Settled(t) => t \notin Zombies
    BY ZombiesRun DEF Settled, Terminal
  <2> QED
    BY <1>1, <2>1, <1>s, ReadLegal DEF WorkerBegin, GoTo, storeVars
<1>2. CASE WorkerReap(w)
  <2>1. PICK z \in wsweep[w] : UpdateTask(z, "FAILED")
                               /\ wsweep' = [wsweep EXCEPT ![w] = @ \ {z}]
    BY <1>2 DEF WorkerReap
  <2>2. OutcomePending(z) /\ Kept
    BY <1>2, <2>1 DEF OutcomePending, WorkerReap
  <2> QED
    BY <2>1, <2>2, <1>s, <1>n, WriteLegal DEF Terminal
<1>3. CASE WorkerIdle(w)
  BY <1>3, <1>s, ReadLegal DEF WorkerIdle, WorkerDone, storeVars
<1>4. CASE WorkerPick(w)
  BY <1>4, <1>s, ReadLegal DEF WorkerPick, GoTo, storeVars, IsOldestQueued, Settled, Terminal
<1>5. CASE WorkerClaim(w)
  <2>1. UpdateTask(wtask[w], "RUNNING") /\ ClaimPending(wtask[w])
    BY <1>5 DEF WorkerClaim, ClaimPending
  <2>2. Kept
    BY <1>5 DEF WorkerClaim, GoTo
  <2> QED
    BY <2>1, <2>2, <1>s, <1>n, WriteLegal
<1>6. ASSUME NEW s \in Status, WorkerFinish(w, s) PROVE Legal(t)
  <2>1. UpdateTask(wtask[w], s) /\ s \in Started /\ OutcomePending(wtask[w])
    BY <1>6, <1>n DEF WorkerFinish, OutcomePending
  <2>2. Kept
    BY <1>6 DEF WorkerFinish, WorkerDone
  <2> QED
    BY <2>1, <2>2, <1>s, WriteLegal
<1>7. ASSUME NEW s \in Status, WorkerFinishThenRaise(w, s) PROVE Legal(t)
  <2>1. UpdateTask(wtask[w], s) /\ s \in Started /\ OutcomePending(wtask[w])
    BY <1>7, <1>n DEF WorkerFinishThenRaise, OutcomePending
  <2>2. Kept
    BY <1>7 DEF WorkerFinishThenRaise, GoTo
  <2> QED
    BY <2>1, <2>2, <1>s, WriteLegal
<1>8. CASE WorkerRaise(w)
  BY <1>8, <1>s, ReadLegal DEF WorkerRaise, GoTo, storeVars
<1>9. CASE WorkerExceptRead(w)
  BY <1>9, <1>s, ReadLegal DEF WorkerExceptRead, WorkerDone, GoTo, storeVars, Settled, Terminal
<1>10. CASE WorkerFail(w)
  <2>1. UpdateTask(wtask[w], "FAILED") /\ OutcomePending(wtask[w])
    BY <1>10 DEF WorkerFail, OutcomePending
  <2>2. Kept
    BY <1>10 DEF WorkerFail, WorkerDone
  <2> QED
    BY <2>1, <2>2, <1>s, <1>n, WriteLegal DEF Terminal
<1>11. CASE WorkerSweepError(w)
  BY <1>11, <1>s, ReadLegal DEF WorkerSweepError, WorkerDone, rowVars
<1>12. CASE WorkerClaimError(w)
  BY <1>12, <1>s, ReadLegal DEF WorkerClaimError, GoTo, rowVars
<1>13. CASE WorkerHandlerError(w)
  BY <1>13, <1>s, ReadLegal DEF WorkerHandlerError, WorkerDone, Abandon
<1>14. CASE WorkerCrash(w)
  <2>1. UNCHANGED status /\ Kept
    BY <1>14 DEF WorkerCrash, WorkerDone, Abandon, rowVars
  <2> QED
    BY <2>1, <1>s, ReadLegal
<1>15. CASE WorkerFallBack(w)
  BY <1>15, <1>s, ReadLegal DEF WorkerFallBack, storeVars
<1> QED
  BY <1>1, <1>2, <1>3, <1>4, <1>5, <1>6, <1>7, <1>8, <1>9, <1>10, <1>11, <1>12,
     <1>13, <1>14, <1>15 DEF Worker, WorkerStep

\* A step of the daemon moves every task legally.
LEMMA DaemonLegal ==
  ASSUME TypeOK, QueuedUntouched, Daemon, NEW t \in TaskId
  PROVE  Legal(t)
<1> USE DEF TypeOK, DaemonIdle, DaemonGoTo, DaemonExecutes
<1> DEFINE DHeld == dtask = t /\ (DaemonExecutes \/ dpc \in {"claim", "reap"})
           Kept == Settled(t) => (DHeld' => DHeld)
<1>s. Kept => (Settled(t) => ~Held(t)')
  BY HeldStarted DEF Daemon, Held, OutcomePending, ClaimPending,
     workerVars, lightVars, plannerVars
<1>n. Terminal \cup {"RUNNING"} \subseteq Started
  BY DEF Started, Status, Terminal
<1>o. DaemonExecutes \/ dpc = "reap" => OutcomePending(dtask)
  BY DEF OutcomePending
<1>1. CASE DaemonTake
  BY <1>1, <1>s, ReadLegal DEF DaemonTake, storeVars, IsOldestQueued, Settled, Terminal
<1>2. CASE DaemonClaim
  <2>1. UpdateTask(dtask, "RUNNING") /\ ClaimPending(dtask) /\ Kept
    BY <1>2 DEF DaemonClaim, ClaimPending
  <2> QED
    BY <2>1, <1>s, <1>n, WriteLegal
<1>3. CASE DaemonWriteLock
  BY <1>3, <1>s, ReadLegal DEF DaemonWriteLock, storeVars
<1>4. CASE DaemonMark
  BY <1>4, <1>s, ReadLegal DEF DaemonMark, storeVars
<1>5. CASE DaemonFallback
  BY <1>5, <1>s, ReadLegal DEF DaemonFallback, storeVars
<1>6. CASE DaemonComplete
  <2>1. UpdateTask(dtask, "COMPLETED") /\ OutcomePending(dtask) /\ Kept
    BY <1>6, <1>o DEF DaemonComplete
  <2> QED
    BY <2>1, <1>s, <1>n, WriteLegal DEF Terminal
<1>7. CASE DaemonRaise
  BY <1>7, <1>s, ReadLegal DEF DaemonRaise, storeVars
<1>8. ASSUME NEW s \in Status, DaemonFail(s) PROVE Legal(t)
  <2>1. UpdateTask(dtask, s) /\ s \in Started /\ OutcomePending(dtask) /\ Kept
    BY <1>8, <1>o, <1>n DEF DaemonFail, Terminal
  <2> QED
    BY <2>1, <1>s, WriteLegal
<1>9. CASE DaemonClear
  BY <1>9, <1>s, ReadLegal DEF DaemonClear, storeVars
<1>10. CASE DaemonFinalize
  BY <1>10, <1>s, ReadLegal DEF DaemonFinalize, storeVars
<1>11. CASE DaemonFinalizeRead
  BY <1>11, <1>s, ReadLegal DEF DaemonFinalizeRead, storeVars, Settled, Terminal
<1>12. CASE DaemonReap
  <2>1. UpdateTask(dtask, "FAILED") /\ OutcomePending(dtask) /\ Kept
    BY <1>12, <1>o DEF DaemonReap
  <2> QED
    BY <2>1, <1>s, <1>n, WriteLegal DEF Terminal
<1>13. CASE DaemonUnlock
  BY <1>13, <1>s, ReadLegal DEF DaemonUnlock, storeVars
<1>14. CASE DaemonCallError
  BY <1>14, <1>s, ReadLegal DEF DaemonCallError, rowVars
<1>15. CASE DaemonMarkError
  BY <1>15, <1>s, ReadLegal DEF DaemonMarkError, Abandon
<1>16. CASE DaemonFailError
  BY <1>16, <1>s, ReadLegal DEF DaemonFailError, Abandon
<1>17. CASE DaemonClearError
  BY <1>17, <1>s, ReadLegal DEF DaemonClearError, rowVars
<1>18. CASE DaemonCrash
  <2>1. UNCHANGED status /\ Kept
    BY <1>18 DEF DaemonCrash, Abandon, rowVars
  <2> QED
    BY <2>1, <1>s, ReadLegal
<1>19. CASE DaemonStart
  BY <1>19, <1>s, ReadLegal DEF DaemonStart, storeVars
<1> QED
  BY <1>1, <1>2, <1>3, <1>4, <1>5, <1>6, <1>7, <1>8, <1>9, <1>10, <1>11, <1>12,
     <1>13, <1>14, <1>15, <1>16, <1>17, <1>18, <1>19 DEF Daemon, DaemonStep, DaemonProgress

\* A step of a light worker moves every task legally.
LEMMA LightLegal ==
  ASSUME TypeOK, QueuedUntouched, NEW l \in Lights, Light(l), NEW t \in TaskId
  PROVE  Legal(t)
<1> USE DEF TypeOK, LightTypeOK
<1> DEFINE LHeld(m) == lpc[m] = "run" /\ ltask[m] = t
           Kept == Settled(t) => \A m \in Lights : LHeld(m)' => LHeld(m)
<1>s. Kept => (Settled(t) => ~Held(t)')
  BY HeldStarted DEF Light, Held, OutcomePending, ClaimPending, DaemonExecutes,
     workerVars, daemonVars, plannerVars
<1>1. CASE LightClaim(l)
  <2>1. PICK u \in With("QUEUED") : UpdateTask(u, "RUNNING")
                                    /\ ltask' = [ltask EXCEPT ![l] = u]
    BY <1>1 DEF LightClaim
  <2>2. u \in TaskId /\ status[u] = "QUEUED"
    BY DEF With
  <2>3. \A v \in TaskId : status'[v] = IF v = u THEN "RUNNING" ELSE status[v]
    BY <2>1, UpdateTaskRow
  <2>4. Settled(t) => u # t
    BY <2>2 DEF Settled, Terminal
  <2>5. Kept
    BY <1>1, <2>1, <2>4 DEF LightClaim
  <2> QED
    BY <2>2, <2>3, <2>4, <2>5, <1>s DEF Legal, Started, Status, StoreTypeOK
<1>2. ASSUME NEW s \in Status, LightFinish(l, s) PROVE Legal(t)
  <2>1. UpdateTask(ltask[l], s) /\ s \in Started /\ OutcomePending(ltask[l])
    BY <1>2 DEF LightFinish, OutcomePending, Started
  <2>2. Kept
    BY <1>2 DEF LightFinish, LightDone
  <2> QED
    BY <2>1, <2>2, <1>s, WriteLegal
<1>3. CASE LightDie(l)
  BY <1>3, <1>s, ReadLegal DEF LightDie, LightDone, Abandon
<1> QED
  BY <1>1, <1>2, <1>3 DEF Light, LightStep

\* A step of a planner moves every task legally.
LEMMA PlannerLegal ==
  ASSUME TypeOK, QueuedUntouched, NEW p \in Planners, Planner(p), NEW t \in TaskId
  PROVE  Legal(t)
<1> USE DEF TypeOK, PlannerTypeOK
<1> DEFINE Kept == Settled(t) => \A q \in Planners : pseen'[q] = t => pseen[q] = t
<1>s. Kept => (Settled(t) => ~Held(t)')
  BY HeldStarted DEF Planner, Held, OutcomePending, ClaimPending, DaemonExecutes,
     workerVars, daemonVars, lightVars
<1>c. ASSUME NEW u \in TaskId, NEW k, CreateTask(u, k), Kept
      PROVE  Legal(t)
  <2>1. status[u] = "ABSENT" /\ status' = [status EXCEPT ![u] = "QUEUED"]
    BY <1>c DEF CreateTask, IsNext
  <2>2. Settled(t) => u # t
    BY <2>1 DEF Settled, Terminal
  <2> QED
    BY <1>c, <1>s, <2>1, <2>2 DEF Legal, Started, Status, StoreTypeOK
<1>1. CASE PlannerPass(p)
  BY <1>1, <1>s, ReadLegal DEF PlannerPass, storeVars
<1>2. CASE PlannerSeeStale(p)
  <2>1. Kept
    BY <1>2 DEF PlannerSeeStale, Stale, Settled, Terminal
  <2> QED
    BY <1>2, <2>1, <1>s, ReadLegal DEF PlannerSeeStale, storeVars
<1>3. CASE PlannerResolve(p)
  <2>1. UpdateTask(pseen[p], "FAILED") /\ OutcomePending(pseen[p]) /\ "FAILED" \in Started
    BY <1>3 DEF PlannerResolve, OutcomePending, Started, Status, Terminal
  <2>2. Kept
    BY <1>3 DEF PlannerResolve, NoTask, TaskId
  <2> QED
    BY <2>1, <2>2, <1>s, WriteLegal
<1>4. ASSUME NEW k \in Kinds, PlannerCreate(p, k) PROVE Legal(t)
  <2>1. Kept
    BY <1>4 DEF PlannerCreate, PlannerDone, NoTask, TaskId
  <2> QED
    BY <1>4, <2>1, <1>c DEF PlannerCreate
<1>5. CASE PlannerRoute(p)
  <2>1. Kept
    BY <1>5 DEF PlannerRoute
  <2> QED
    BY <1>5, <2>1, <1>c DEF PlannerRoute
<1>6. CASE PlannerEnd(p) \/ PlannerDie(p)
  <2>1. Kept
    BY <1>6 DEF PlannerEnd, PlannerDie, PlannerDone, NoTask, TaskId
  <2> QED
    BY <1>6, <2>1, <1>s, ReadLegal DEF PlannerEnd, PlannerDie, storeVars, rowVars
<1> QED
  BY <1>1, <1>2, <1>3, <1>4, <1>5, <1>6 DEF Planner, PlannerStep

\* Every step moves every task legally.
LEMMA NextLegal ==
  ASSUME TypeOK, QueuedUntouched, [Next]_vars, NEW t \in TaskId
  PROVE  Legal(t)
<1>1. ASSUME UNCHANGED <<status, wtask, wsweep, wpc, dtask, dpc, lightVars, pseen>>
      PROVE  Legal(t)
  <2>1. Held(t)' = Held(t)
    BY <1>1 DEF Held, OutcomePending, ClaimPending, DaemonExecutes, lightVars
  <2> QED
    BY <1>1, <2>1, HeldStarted, ReadLegal
<1>2. CASE Operator
  BY <1>2, <1>1 DEF Operator, SetPolicy, SetProvider, workerVars, daemonVars, lightVars,
     plannerVars
<1>3. CASE Tick
  BY <1>3, <1>1 DEF Tick, AgeRows, lightVars, plannerVars
<1>4. CASE UNCHANGED vars
  BY <1>4, <1>1 DEF vars, storeVars, workerVars, daemonVars, lightVars, plannerVars
<1> QED
  BY <1>2, <1>3, <1>4, WorkerLegal, DaemonLegal, LightLegal, PlannerLegal DEF Next

-----------------------------------------------------------------------------
(* The refinement.                                                         *)

\* A legal step of a row is a legal move of its task.
LEMMA LegalMoves ==
  ASSUME TypeOK, TypeOK', \A t \in TaskId : Legal(t)
  PROVE  Lifecycle!Next
<1> USE DEF TypeOK, StoreTypeOK
<1> DEFINE Phase(t) == CASE status[t] = "ABSENT" -> "new"
                        [] status[t] = "QUEUED" -> "queued"
                        [] Settled(t)           -> "settled"
                        [] OTHER                -> "live"
           Outcome(t) == IF Settled(t) THEN status[t] ELSE "none"
<1>1. /\ \A t \in TaskId : Phase(t)' \in {"new", "queued", "live", "settled"}
      /\ \A t \in TaskId : Outcome(t)' \in Terminal \cup {"none"}
  BY DEF Settled
<1>2. ASSUME NEW t \in TaskId
      PROVE  \/ Phase(t) = "new" /\ Phase(t)' = "queued" /\ Outcome(t)' = "none"
             \/ Phase(t) = "queued" /\ Phase(t)' = "live" /\ Outcome(t)' = "none"
             \/ Phase(t) = "live" /\ Phase(t)' = "settled" /\ Outcome(t)' \in Terminal
             \/ Phase(t)' = Phase(t) /\ Outcome(t)' = Outcome(t)
  <2> USE DEF Settled, Terminal
  <2>1. Legal(t) /\ status[t] \in Status /\ status'[t] \in Status
    OBVIOUS
  <2>2. CASE status[t] = "ABSENT"
    BY <2>1, <2>2 DEF Legal
  <2>3. CASE status[t] = "QUEUED"
    BY <2>1, <2>3 DEF Legal
  <2>4. CASE Settled(t)
    <3>1. status'[t] = status[t] /\ Settled(t)'
      BY <2>1, <2>4 DEF Legal, Held
    <3> QED
      BY <2>4, <3>1
  <2>5. CASE status[t] \in Started /\ ~Settled(t)
    <3>1. status'[t] \in Started
      BY <2>1, <2>5 DEF Legal
    <3> QED
      BY <2>5, <3>1 DEF Started
  <2> QED
    BY <2>1, <2>2, <2>3, <2>4, <2>5 DEF Started
<1> QED
  BY <1>1, <1>2 DEF Lifecycle!Next, Lifecycle!Submit, Lifecycle!Start, Lifecycle!Settle,
     Lifecycle!Rest, Lifecycle!NoOutcome

\* The actors together implement the life cycle promised to the submitter of
\* a task: out of the queue once, never re-queued, and final once settled.
THEOREM ImplementsLifecycle == Spec => RefinesLifecycle
<1>1. Init => Lifecycle!Init
  BY DEF Init, StoreInit, Lifecycle!Init, Lifecycle!NoOutcome, Settled, Terminal
<1>2. TypeOK /\ TypeOK' /\ QueuedUntouched /\ [Next]_vars => Lifecycle!Next
  BY NextLegal, LegalMoves
<1> QED
  BY <1>1, <1>2, TypeCorrect, QueuedStaysUntouched, PTL
     DEF Spec, RefinesLifecycle, Lifecycle!Spec
=============================================================================
