---------------------------- MODULE PlannerGuard ----------------------------
(***************************************************************************)
(* orchestrator/planner_tick.py, as far as it decides whether a tick may   *)
(* create a task: STEP 1 of run_planner_tick reads the latest row and      *)
(* _resolve_previous_task_blocker skips, resolves a stale row or lets the  *)
(* tick go on; much later in the tick a row is created, without another    *)
(* look at the table.  Which candidate becomes the row is abstracted to    *)
(* its executor class.                                                     *)
(***************************************************************************)
EXTENDS LightWorker

CONSTANTS
  Planners,       \* the callers of run_planner_tick
  ManualPlanners, \* those that run with a manual override
  RouteBatch      \* bound on the validation tasks one routing pass creates

ASSUME PlannerAssumption ==
  /\ ManualPlanners \subseteq Planners
  /\ RouteBatch \in Nat

VARIABLES
  ppc,      \* ppc[p]: where planner p is
  pseen,    \* pseen[p]: the stale row it decided to resolve
  prouted   \* prouted[p]: validation tasks created by this tick

plannerVars == <<ppc, pseen, prouted>>

PlannerTypeOK ==
  /\ ppc \in [Planners -> {"idle", "resolve", "create", "route"}]
  /\ pseen \in [Planners -> TaskId \cup {NoTask}]
  /\ prouted \in [Planners -> 0..RouteBatch]

PlannerInit ==
  /\ ppc = [p \in Planners |-> "idle"]
  /\ pseen = [p \in Planners |-> NoTask]
  /\ prouted = [p \in Planners |-> 0]

PlannerDone(p) ==
  /\ ppc' = [ppc EXCEPT ![p] = "idle"]
  /\ pseen' = [pseen EXCEPT ![p] = NoTask]
  /\ prouted' = [prouted EXCEPT ![p] = 0]

\* RUNNING past the zombie age, or BLOCKED_ENV for 600 s (one tick)
Stale(t) ==
  \/ status[t] = "RUNNING" /\ age[t] = ZombieAge
  \/ status[t] = "BLOCKED_ENV" /\ age[t] > 0

-----------------------------------------------------------------------------
\* Mutant: only a RUNNING row blocks.
PlannerPassQueued(p) ==
  /\ ppc[p] = "idle"
  /\ Allowed(p \in ManualPlanners)
  /\ \A t \in TaskId : IsLatest(t) => status[t] \notin {"RUNNING", "BLOCKED_ENV"}
  /\ ppc' = [ppc EXCEPT ![p] = "create"]
  /\ UNCHANGED <<storeVars, pseen, prouted>>

\* no row, or the latest one is terminal
PlannerPass(p) ==
  /\ ppc[p] = "idle"
  /\ Allowed(p \in ManualPlanners)
  /\ \A t \in TaskId : IsLatest(t) => status[t] \in Terminal
  /\ ppc' = [ppc EXCEPT ![p] = "create"]
  /\ UNCHANGED <<storeVars, pseen, prouted>>

\* the latest row is stale; QUEUED, or not stale yet, is PLANNER_SKIP_PREV_RUNNING
PlannerSeeStale(p) ==
  /\ ppc[p] = "idle"
  /\ Allowed(p \in ManualPlanners)
  /\ \E t \in TaskId :
       /\ IsLatest(t)
       /\ Stale(t)
       /\ pseen' = [pseen EXCEPT ![p] = t]
  /\ ppc' = [ppc EXCEPT ![p] = "resolve"]
  /\ UNCHANGED <<storeVars, prouted>>

\* update_task(FAILED) of the row as it was read, then on to the candidates.
\* The planner's rate limit markers are among the worker's, which tests them
\* first: the error of a BLOCKED_ENV row holds none of them.
PlannerResolve(p) ==
  /\ ppc[p] = "resolve"
  /\ UpdateTask(pseen[p], "FAILED")
  /\ ppc' = [ppc EXCEPT ![p] = "create"]
  /\ pseen' = [pseen EXCEPT ![p] = NoTask]
  /\ UNCHANGED <<settingVars, faults, prouted>>

\* an accepted candidate, a data-waiting, exploration or maintenance task
PlannerCreate(p, k) ==
  /\ ppc[p] = "create"
  /\ \E t \in TaskId : CreateTask(t, k)
  /\ PlannerDone(p)
  /\ UNCHANGED <<settingVars, faults>>

\* everything capped: process_completed_exploration_tasks creates one
\* validation task (worker_type research) per finding that wants one
PlannerRoute(p) ==
  /\ ppc[p] \in {"create", "route"}
  /\ prouted[p] < RouteBatch
  /\ \E t \in TaskId : CreateTask(t, "llm")
  /\ prouted' = [prouted EXCEPT ![p] = @ + 1]
  /\ ppc' = [ppc EXCEPT ![p] = "route"]
  /\ UNCHANGED <<settingVars, faults, pseen>>

\* rejected, nothing eligible, or the end of the routing pass
PlannerEnd(p) ==
  /\ ppc[p] \in {"create", "route"}
  /\ PlannerDone(p)
  /\ UNCHANGED storeVars

\* a crash, or a db call raising: the outer handler only records the run
PlannerDie(p) ==
  /\ ppc[p] # "idle"
  /\ Fault
  /\ PlannerDone(p)
  /\ UNCHANGED <<rowVars, settingVars>>

PlannerStep(p) ==
  \/ PlannerPass(p) \/ PlannerSeeStale(p) \/ PlannerResolve(p)
  \/ \E k \in Kinds : PlannerCreate(p, k)
  \/ PlannerRoute(p) \/ PlannerEnd(p) \/ PlannerDie(p)
=============================================================================
