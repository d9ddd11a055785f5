---------------------------- MODULE Orchestrator ----------------------------
(***************************************************************************)
(* The actors of the orchestrator over the one task table: worker ticks,   *)
(* the Copilot daemon, light workers, planner ticks, the operator's        *)
(* settings and a coarse clock.  An actor's step is one db call with the   *)
(* local code up to the next one, so the interleavings are those of        *)
(* processes that share nothing but the database.  The reads of settings   *)
(* that open a tick belong to the step of the listing they lead to.        *)
(***************************************************************************)
EXTENDS PlannerGuard

CONSTANT RunsDaemon  \* whether the Copilot daemon is deployed

ASSUME DaemonAssumption == RunsDaemon \in BOOLEAN

VARIABLE overran  \* history: rows that reached the zombie age while executed

vars == <<storeVars, workerVars, daemonVars, lightVars, plannerVars, overran>>

Init == StoreInit /\ WorkerInit /\ DaemonInit /\ LightInit /\ PlannerInit /\ overran = {}

-----------------------------------------------------------------------------
(* Who holds a row.                                                        *)

\* a process is between its write of RUNNING into t and its last write of t
Executors(t) ==
  {w \in Workers : WorkerExecutes(w) /\ wtask[w] = t}
    \cup {l \in Lights : lpc[l] = "run" /\ ltask[l] = t}

Executed(t) == Executors(t) # {} \/ (DaemonExecutes /\ dtask = t)

\* some process will write an outcome into t without reading it again
OutcomePending(t) ==
  \/ \E w \in Workers : wtask[w] = t /\ wpc[w] \in {"run", "fail"}
  \/ \E w \in Workers : t \in wsweep[w]
  \/ dtask = t /\ (DaemonExecutes \/ dpc = "reap")
  \/ \E l \in Lights : lpc[l] = "run" /\ ltask[l] = t
  \/ \E p \in Planners : pseen[p] = t

\* some process read t as QUEUED and will write RUNNING into it
ClaimPending(t) ==
  \/ \E w \in Workers : wpc[w] = "claim" /\ wtask[w] = t
  \/ dpc = "claim" /\ dtask = t

-----------------------------------------------------------------------------

Worker(w)  == WorkerStep(w) /\ UNCHANGED <<daemonVars, lightVars, plannerVars, overran>>
Daemon     == RunsDaemon /\ DaemonStep /\ UNCHANGED <<workerVars, lightVars, plannerVars, overran>>
Light(l)   == LightStep(l) /\ UNCHANGED <<workerVars, daemonVars, plannerVars, overran>>
Planner(p) == PlannerStep(p) /\ UNCHANGED <<workerVars, daemonVars, lightVars, overran>>

Operator ==
  /\ \/ \E p \in PolicyChoices : SetPolicy(p)
     \/ \E p \in ProviderChoices : SetProvider(p)
  /\ UNCHANGED <<workerVars, daemonVars, lightVars, plannerVars, overran>>

\* Half an hour passes.  The short steps of a worker and of the daemon take
\* none of it: only an idle actor and a running executor lets time go by.
Tick ==
  /\ \A w \in Workers : WorkerMayWait(w)
  /\ DaemonMayWait
  /\ AgeRows
  /\ WorkerClocks
  /\ DaemonClock
  /\ overran' = overran \cup
       {t \in TaskId : status[t] = "RUNNING" /\ age'[t] = ZombieAge /\ Executed(t)}
  /\ UNCHANGED <<settingVars, faults, wpc, wtask, wsweep, wcall, dpc, dtask, dcall,
                 lockVars, lightVars, plannerVars>>

Next ==
  \/ \E w \in Workers : Worker(w)
  \/ Daemon
  \/ \E l \in Lights : Light(l)
  \/ \E p \in Planners : Planner(p)
  \/ Operator
  \/ Tick

Spec == Init /\ [][Next]_vars

\* launchd and the scheduler loops start ticks again and again, processes
\* that do not crash keep running and executors end.  Time passes however
\* busy the actors are (strong fairness: the clock waits for idle moments).
\* Nothing is assumed of the operator, the light workers, the planners or
\* of faults.
Fairness ==
  /\ \A w \in Workers :
       WF_vars(WorkerProgress(w) /\ UNCHANGED <<daemonVars, lightVars, plannerVars, overran>>)
  /\ WF_vars(RunsDaemon /\ DaemonProgress /\ UNCHANGED <<workerVars, lightVars, plannerVars, overran>>)
  /\ SF_vars(Tick)

FairSpec == Spec /\ Fairness

-----------------------------------------------------------------------------
(* Properties.                                                             *)

\* The types of all variables.
TypeOK ==
  /\ StoreTypeOK /\ WorkerTypeOK /\ DaemonTypeOK /\ LightTypeOK /\ PlannerTypeOK
  /\ overran \in SUBSET TaskId

\* A queued row is untouched: nobody is about to write an outcome into it,
\* and no lock file names it; so the first thing that happens to it is a
\* claim.  A row not created yet is not even listed by anyone.  This is what
\* keeps the unconditional update_task calls of all five modules from
\* settling a task that was never run.
QueuedUntouched ==
  \A t \in TaskId : status[t] \in {"QUEUED", "ABSENT"} =>
    /\ ~OutcomePending(t)
    /\ lock # t
    /\ status[t] = "ABSENT" => ~ClaimPending(t)

\* A RUNNING row has an executor, or its executor died or lost its database:
\* no path through the ticks, their handlers and the daemon's finally leaves
\* a row RUNNING by itself (worker_tick.py:863, copilot_daemon.py:702).
RunningIsOwned ==
  \A t \in TaskId : status[t] = "RUNNING" => Executed(t) \/ t \in lost

\* Only fallbacks let a provider's execution outlive the zombie age
\* (worker_tick.py:621, copilot_daemon.py:513-535): a row that may be failed as
\* a zombie is no longer in the first call of any worker or of the daemon,
\* whoever else claimed it.
ZombiesFellBack ==
  \A t \in TaskId : status[t] = "RUNNING" /\ age[t] = ZombieAge =>
    /\ \A w \in Workers :
         WorkerExecutes(w) /\ wtask[w] = t /\ Timed(t) => wcall[w] \in Fallbacks
    /\ DaemonExecutes /\ dtask = t => dcall = 2

\* A lock file with a live pid means the daemon is executing that task, so
\* that answering "busy" is right (copilot_daemon.py:8).
LockMeansBusy ==
  (lock # NoTask /\ lockAlive)
    => dtask = lock /\ dpc \in {"mark", "run", "fail", "clear"}

\* One task has one executor (db.py:481).
SingleExecutor ==
  \A t \in TaskId :
    Cardinality(Executors(t)) + (IF DaemonExecutes /\ dtask = t THEN 1 ELSE 0) <= 1

\* A row old enough to be failed as a zombie has no live executor
\* (worker_tick.py:595-596).
ZombieMeansDead ==
  \A t \in TaskId : status[t] = "RUNNING" /\ age[t] = ZombieAge => ~Executed(t)

\* The planner does not stack tasks: at most one is queued or running
\* (planner_tick.py:1978).
NoStacking ==
  Cardinality({t \in TaskId : status[t] \in {"QUEUED", "RUNNING"}}) <= 1

\* A terminal status is never overwritten by another one.
TerminalIsFinal ==
  [][\A t \in TaskId : status[t] \in Terminal => status'[t] = status[t]]_vars

\* A terminal status is overwritten by another one only if the task overran:
\* then the guard or the sweep may fail the row of a live executor, before or
\* after the outcome that executor writes (planner_tick.py:2017, db.py:461).
\* No stale read, handler or restart does it to any other task.
OutcomeStands ==
  [][\A t \in TaskId \ overran : status[t] \in Terminal => status'[t] = status[t]]_vars

-----------------------------------------------------------------------------
(* The promise to the submitter, and how the rows keep it.  A terminal row *)
(* counts as settled once no write into it is pending.                     *)

Settled(t) == status[t] \in Terminal /\ ~OutcomePending(t) /\ ~ClaimPending(t)

Lifecycle == INSTANCE TaskLifecycle WITH
  Tasks    <- TaskId,
  Outcomes <- Terminal,
  phase    <- [t \in TaskId |->
                CASE status[t] = "ABSENT" -> "new"
                  [] status[t] = "QUEUED" -> "queued"
                  [] Settled(t)           -> "settled"
                  [] OTHER                -> "live"],
  outcome  <- [t \in TaskId |-> IF Settled(t) THEN status[t] ELSE "none"]

\* Every behaviour of the actors is one of the abstract life cycle: no task
\* is re-queued, settled unrun, or changed after it settled.
RefinesLifecycle == Lifecycle!Spec

-----------------------------------------------------------------------------
(* Liveness, if the operator lets the background runners work for good.    *)

\* A row whose executor vanished does not stay RUNNING: the sweep of a worker
\* or the daemon's finalize fails it.
OrphanReaped ==
  <>[](policy = "open") =>
    \A t \in TaskId :
      (status[t] = "RUNNING" /\ ~Executed(t)) ~> (status[t] # "RUNNING")

\* A queued task is taken.
QueuedTaken ==
  <>[](policy = "open") =>
    \A t \in TaskId : (status[t] = "QUEUED") ~> (status[t] # "QUEUED")

\* The daemon gives its lock back, in this life or the next.
LockReleased == (lock # NoTask) ~> (lock = NoTask)
=============================================================================
