# Betting-pool orchestrator: TLA+ specification

The repository is a sports-betting research system. Most of it is offline
numerical work (`wbc_backend/`, `models/`, `strategy/`, the `phase*` and
`scripts/_p*` studies): floating point over data files, run by one process at a
time. What has *control* is `orchestrator/`: several processes and threads that
create, claim, run and settle tasks through one SQLite table, the files and logs
those tasks feed, and one script that publishes evidence for others to read.
That is the system specified here, in six parts, each with runs of its own:

1. the task table and its executors (`Orchestrator`),
2. the self-training loop over `insights.json`, the review queue and the strategy
   weights (`TrainingLoop`),
3. the guards around an external LLM call (`ProviderCall`),
4. the closing odds monitor and the evidence counted from it (`ClosingMonitor`),
5. the atomic publication of result bundles (`BundlePublisher`),
6. the planner's fallbacks, their daily caps and the routing of findings
   (`FallbackTasks`).

## Inventory

| part | source (`src/orchestrator/`) | state | operations | interacts through |
|---|---|---|---|---|
| task store | `db.py` | table `agent_tasks`, `settings` | create, update (unconditional), list, latest, atomic claim, settings | everyone calls it, one transaction per call |
| worker tick | `worker_tick.py` | one tick's locals | sweep zombies, list, claim, execute, settle, outer handler | task table, provider subprocess |
| Copilot daemon | `copilot_daemon.py` | lock file, one poll's locals | take, claim, lock, execute (Copilot, then codex), settle, unlock, finalize after a crash | task table, lock file |
| light worker | `light_worker_tick.py` | one tick's locals | atomic claim of a light task, execute, settle | task table |
| planner tick | `planner_tick.py` | one tick's locals | guard on the latest task, resolve a stale one, create, route exploration results | task table |
| planner fallbacks | `planner_tick.py` STEP 3, `db.py`, `data_waiting_cadence.py` | dedupe keys in `agent_tasks`, table `exploration_routing_state` | refresh, exploration lanes, maintenance, routing to validations | task table, routing table, clock |
| scheduler, CLI daemon | `scheduler.py`, `scripts/agent_orchestrator.py` | threads, last run times | run ticks again and again | calls worker and planner ticks |
| policy, settings API | `execution_policy.py`, `api.py` | settings | hard-off, pause, provider, run-now | settings |
| human review queue | `human_review_queue.py`, `scripts/review_queue.py` | JSON file, rewritten as a whole | queue, decide | planner queues and is held by it, operator decides |
| insight lifecycle | `insight_extractor.py`, `patch_task_generator.py`, `patch_validator.py` | `insights.json` | extract from audits, mark queued, settle by verdict | planner writes, strategy tick reads |
| strategy tick | `strategy_tick.py` | `strategy_state.json` | load, take new verdicts, adjust, save | reads insights |
| closing monitor, evidence policy | `closing_odds_monitor.py`, `clv_accumulation_policy.py` | JSONL files per date | append upgraded records, count them | gate of the patches |
| threshold tracker | `clv_threshold_tracker.py` | events file | emit crossings | none: its update has no caller |
| audit guard | `provider_audit_guard.py`, `llm_audit.py` | audit log | ATTEMPT, RESULT, refusal | wraps provider calls |
| budget guard | `usage_budget_guard.py`, `llm_usage_logger.py` | usage log | count, cap | asked before provider calls |
| result recorder (P272) | `scripts/_p272_prospective_pit_result_availability_recorder.py` | a directory per game | stage, fsync, no-replace rename, verify | processes meet in the file system |
| CTO review, gates, governance | `cto_review_tick.py`, `patch_evaluation_gate.py`, ... | reports, training memory | classify, propose | feed the planner's candidates |

Ticks are run by the API server's scheduler threads, its run-now and trigger
endpoints, launchd jobs and the `agent_orchestrator` CLI daemon, possibly all at
once: the code has no lock around a tick. Only the worker tick, the daemon, the
light worker and the planner write `agent_tasks.status`.

What is hard, and what makes each part correct:

* **Two calls, no transaction.** A worker or the daemon lists a row and claims it
  in two calls; a sweep fails rows of an older listing; the planner's guard and
  its creation of a task are far apart. No such gap may settle a task that was
  never run, or lose one.
* **Crashes and database errors** between any two calls: a row must not stay
  RUNNING unless its executor vanished, and then it must be reaped; the daemon's
  lock must be given back.
* **Two clocks.** Each provider call has a timeout, a RUNNING row has a zombie
  age, and one execution may be up to three calls: the age then passes under a
  live executor, whose row is failed as a zombie and whose outcome comes later.
* **Order of listings.** QUEUED is listed oldest first, all else newest first
  with a limit: neither end may starve.
* **Files rewritten as a whole.** Insights, reviews and weights are each loaded,
  changed and written back without a lock, and a death in the write loses the
  file. A verdict must rest on a completed patch, stay, and reach the weights once.
* **Check, then call.** The policy, the budget, the audit log and the subprocess are
  separate steps; the operator, other callers, a full disk and a timeout fall in
  between. What was forbidden must cease, what was attempted must be answered.
* **Look up, then create.** A dedupe key is looked up and its task created in two
  calls, a validation created and its finding marked as routed in two more, and the
  key changes at midnight UTC. Caps must hold and every finding be routed, once.
* **Power loss.** What was reported as published must be there afterwards, whole.

The `hazards` of `PROJECT.json` list these at their lines, with the properties
that watch over them.

## Modules

`TaskLifecycle` is the abstract promise for one task; each of the others extends
the one before it and adds one component:

    TaskStore <- WorkerTick <- CopilotDaemon <- LightWorker <- PlannerGuard <- Orchestrator
                                       Orchestrator --implements--> TaskLifecycle
    MCOrchestrator (TLC)
    OrchestratorProofs <- CallProofs <- DeploymentProofs (TLAPS)

    InsightStore, ReviewQueue <- TrainingLoop <- MCTrainingLoop (TLC)
                                 TrainingLoop --implements--> InsightLedger
                                 TrainingLoop <- TrainingProofs <- LedgerProofs (TLAPS)
    ProviderCall <- MCProviderCall (TLC), ProviderCallProofs (TLAPS)
    BundlePublisher <- MCBundlePublisher (TLC), BundleProofs (TLAPS)
    BundlePublisher --implements--> WriteOnce
    FallbackTasks (TLC) <- FallbackProofs (TLAPS)
    ClosingMonitor (TLC)

* **TaskStore** (`db.py`, `execution_policy.py`, the settings of `api.py`). A row is
  `status[t]`, `kind[t]` (the class of executor) and `age[t]` (how long it has
  been RUNNING or BLOCKED_ENV, in half hours, saturating at `ZombieAge`).
  `UpdateTask` is `update_task`: no condition on the old row, and `updated_at` is
  always written. `NewestRunning` and `IsOldestQueued` are `list_tasks` with its
  two orders. `policy` folds `scheduler_enabled` and `llm_execution_mode` into
  open / paused / hard_off, `Allowed` is `evaluate_execution` for a background or
  a manual run. `lost` is a history variable: the rows left RUNNING by an
  executor that crashed or lost its database; only fault actions add to it.
* **WorkerTick** (`worker_tick.py`). `wpc` goes idle -> sweep (policy checked, zombies
  listed; `WorkerReap` fails them one call at a time) -> claim (oldest QUEUED
  row listed) -> run (RUNNING written) -> idle, or through except and fail, the
  two calls of the outer handler. `wcall` and `wclock` are the provider call in
  progress and its time: `only` for claude and codex, and for the Copilot providers
  up to three in one RUNNING row, each with the full timeout: `copilot` and `codex` in
  the daemon's `_execute_task`, which `execute_task_with_copilot` enters
  (`worker_tick.py:564-588`, `copilot_daemon.py:513-535`), and `last`, codex once more
  when that raises. Only the last of them raises out of the executor.
  `WorkerFinish` is any classified outcome;
  `WorkerFinishThenRaise` is `record_run` raising after the outcome was written.
  The worker tick does not look at `worker_type`: it takes light tasks too.
* **CopilotDaemon** (`copilot_daemon.py`). `dpc` follows `run_once`; `lock` and
  `lockAlive` are the lock file's task and whether its pid is alive; `dcall` and
  `dclock` are the CLI call in progress and its time. A database error takes the
  path of the code: caught by `serve_forever` outside the `try`, through `finally`
  inside it. `DaemonCrash` and `DaemonStart` are a crash and launchd's restart.
* **LightWorker** (`light_worker_tick.py`, `claim_task_atomic`). One atomic claim; no
  outer handler, no policy.
* **PlannerGuard** (`planner_tick.py`). `PlannerPass` / `PlannerSeeStale` are STEP 1 on
  the latest row, `PlannerResolve` its update, `PlannerCreate` every site that
  creates one task, `PlannerRoute` the routing pass that may create several.
* **Orchestrator** composes them, adds the operator and the clock, and states the
  properties. `overran` is a history variable: the rows that reached the zombie age
  while somebody executed them. An actor's step is one database call with the local code up to the
  next one; the settings read at the start of a tick belong to the listing they
  lead to.

* **InsightStore** and **ReviewQueue** are the operations on the two files, each a
  read with its write (or, for the queue, two steps: the copy is in `opCopy` or in
  `review[p]`). **TrainingLoop** composes them with the planner's STEPs 0.5 to 2
  (`pc`: idle -> save -> candidates -> validate -> gate -> enqueue -> reviews ->
  create -> mark), the worker as an outcome, the strategy tick (`spc`: idle ->
  insights -> save, its loaded state in `sread`) and faults: a process dies, in a
  write or between two steps, or a step raises and the tick goes on. `strategy.applied`
  counts how often an insight's adjustment is in the weights; the arithmetic of
  the weights is left out. **InsightLedger** is what `insights.json` promises
  (`insight_extractor.py:120`, the lifecycle states): an insight is extracted while its
  signal has no active one, queued, judged once, and lost only by a mishap. `Ledger`
  maps each insight to its stage; one that an extraction made but has not saved
  (`Fresh`) counts as absent, one the file no longer holds as lost.
* **ProviderCall** follows one caller through policy -> budget -> audit -> launch ->
  start -> call -> close -> post. `in[c]` is the function it is in: `front` and `direct`
  are the worker's, `execute` the daemon's `_execute_task`, which the worker enters
  too; `spare[c]` says that an exception leads to the codex fallback. `lines` is the
  usage log as the budget guard counts it. `open` and `excused` are the audit log as
  far as ATTEMPTs without RESULT go. `forbidden` and `late` are history: calls
  started since the policy last allowed any, and since the cap was reached.
* **BundlePublisher** follows `write_bundle` file by file and fsync by fsync. `final` is
  the entry at the published path, with the files whose directory entries are on
  disk (`safe`); `PowerLoss` keeps what was fsynced and any of the rest. **WriteOnce**
  is its abstract promise: absent until one value is written, for good once acknowledged.
* **ClosingMonitor**: `written[r]` is how many COMPUTED lines a prediction has;
  `Scan` and `Append` are the reading and the writing half of a run.
* **FallbackTasks**: `tasks` is the table with dedupe keys; a row also carries its row
  of the routing table (`route`). `pc` follows a tick through refresh -> lanes ->
  maintenance -> sources -> route -> validation -> create -> record: one lookup,
  creation or recording a step. `want` is the key a tick holds, with the day it was
  computed on; `todo` are the explorations it has yet to route, oldest first. `now`
  is the cadence slot, `dedupe_day_utc` its day. A FAILED row is not final:
  `update_task` (`db.py:461`) has no condition, so a row that the planner's guard or a
  sweep failed while its executor was alive (`Reap`, `zombie = "reaped"`) may still be
  completed (`CompleteLate`), after its key was given away perhaps, and a guard or sweep
  that read the row before may write FAILED over COMPLETED (`ReapLate`). `overlaps`
  counts the ticks that began while another was at work. A row has one executor there.

The clock of the task table: `Tick` is half an hour. Short steps take no time (a worker or the
daemon that is neither idle nor executing must move first) and a provider
subprocess returns by its timeout; an executor of kind "local" has none. A fallback
starts the clock of the call anew, the age of the row goes on. With
`CallTimeout = 1` and `ZombieAge = 2` the model keeps the relation of
`expected*3600 + 1800` and `max(expected*3600 + 3600, 7200)`: one call in time is
younger than a zombie, two in a row are not.

## Runs

| run | configuration | question |
|---|---|---|
| `core_safety` | 1 worker with its fallbacks, daemon, light worker, planner, 2 tasks, 2 faults; 2.0 million states | safety and refinement of everything around the table |
| `single_worker` | 1 worker with its fallbacks, 1 planner (manual), 3 tasks, 2 faults, all policies, provider changed at any time; 215 thousand states | what holds when ticks do not overlap: are tasks stacked, whose outcome is overwritten |
| `core_liveness` | 1 worker, daemon, planner, 2 tasks, 1 crash, operator | does everything end that must end |
| `training_loop` | 1 planner, 2 strategy ticks, 1 signal with 2 insights, 3 tasks, 1 evaluation, 1 fault; 565 thousand states | is every audit's lesson judged on evidence and learnt once, and the file a ledger that only mishaps set back |
| `provider_calls` | 1 manual worker, 1 daemon, cap of 2; 515 thousand states | are calls allowed, counted, audited, and do they end |
| `publication` | 3 processes, 2 contents; 126 thousand states | is the path a write-once register through power losses |
| `fallback_tasks` | 2 planners, 2 lanes, 2 days, 1 fault: an overlap, a death or a failed row; 1.4 million states | do the caps hold and is every finding routed once |
| `double_claim` (violation) | 1 worker, 1 light worker, 1 task | one executor per task, `db.py:481` |
| `live_zombie` (violation) | 1 worker, the daemon, no faults | a zombie is dead, `worker_tick.py:595` |
| `daemon_wedge` (violation) | the daemon alone, 1 database error | a live lock means a running task, `copilot_daemon.py:8` |
| `stacked_tasks` (violation) | 2 planners | tasks are not stacked, `planner_tick.py:1978` |
| `evidence_inflated` (violation) | 2 predictions, threshold 3 | a small sample is not sufficient, `clv_accumulation_policy.py:18` |

What they show:

* `QueuedUntouched`, `RunningIsOwned` and the refinement of `TaskLifecycle` hold under
  every interleaving: although claims are not atomic and updates unconditional, no
  task is settled without having been claimed, none is re-queued, and none is left
  RUNNING except by a fault.
* A zombie row may well have a live executor: a worker's fallbacks, like the daemon's,
  outlive the zombie age (`live_zombie`; TLC's trace is the worker, Copilot and then
  codex). What holds is `ZombiesFellBack`: nobody is taken for a zombie in the *first*
  call it makes for a task, only in the fallback's or the one after it.
* `SingleExecutor` and `TerminalIsFinal` do **not** hold: a task may be claimed twice
  where ticks overlap, and even with one worker and one planner the guard may fail
  the row of a live worker, which then writes COMPLETED over FAILED. This is why the
  abstract life cycle counts a row as *settled* only once no write into it is pending.
  What holds with one worker is `OutcomeStands`: only the outcome of a task in `overran`
  is ever overwritten, so no stale listing, handler or restart does it to a task that
  kept its time; and `NoStacking`, however long executions last.
* Liveness holds if the operator leaves the background runners open for good.
* In the training loop verdicts rest on the insight's own completed patch task and
  stay, and each reaches the weights exactly once although strategy ticks
  overwrite each other: the list of processed insights and the weights are in
  one file, so a stale write undoes both and the insight is taken again. This is
  claimed for **one planner at a time**: with two overlapping planners (a manual
  trigger beside the scheduler) the safety properties of `insights.json` fail, as
  `NoStacking` does. What survives that overlap is proved (below): an insight's
  patch task is its own, and nothing is learnt without a completed patch.
* `FollowsLedger`: no stale copy of `insights.json` sets an insight back or revives one;
  between mishaps the file is an append-and-advance ledger.
* A review holds the planner only while nobody dies: a death in a write of the
  queue loses it. `HeldByReview` is therefore stated for `faults = 0`.
* Around provider calls the order check - count - attempt - call leaves one gap
  each: one more call after a prohibition, and the two calls of one execution
  past the cap. Every ATTEMPT is answered unless its process died or the log
  could not be written, and nothing waits for ever.
* `NeverPartial` and the refinement of `WriteOnce` hold through power losses because
  both directories are fsynced before the rename and the parent after it.
* While ticks do not overlap a dedupe key has one task that did not fail, whatever
  dies and whenever midnight comes, and one more for each tick that overlapped. A task
  that was failed as a zombie and completed by its executor after all is beyond this
  count: its key may have been given away meanwhile, and then two tasks of the key are
  there, with a single planner too. A finding has one validation, one more for each tick
  that overlapped and for each that died between creating and recording it. What the
  routing table says fits its finding, late outcomes included.
* The five violations are disagreements of code and documentation; the findings
  in `PROJECT.json` quote the lines.

Further behaviours met while modelling, without a run of their own:

* An audit that gave an insight is mined again once that insight has settled, as long
  as it is among the 30 newest tasks: nothing marks an audit as used, although
  `insight_extractor.py:146` speaks of newly completed ones. It gives a second
  patch task and a second adjustment of the weights.
* Two findings of one lane routed on the same day share one validation task, whose
  prompt names the first only; a finding whose validation FAILED is never validated
  again.
* Exploration lanes are tried in order from the first in every tick: the lanes after
  one that keeps failing get no task.
* Findings are routed only by a tick that finds all lanes and the maintenance task of
  one UTC day done. `FindingsRouted` rests on a day long enough for that (the last
  day of the model does not end); on days that are all too short findings wait.
* A refresh action that is escalated (`closing_refresh_memory.py`) makes every tick in
  DATA_WAITING choose `manual_review_summary`, which records no outcome: the refresh
  actions never run again, and the escalation never ends. Read from the code, not
  checked.
* A patch task that FAILED leaves its insight PATCH_QUEUED for ever, and so its
  signal gives no further insight (`insight_extractor.py:153`).
* An approved review has no follow-up: its candidate loses its source in
  `_build_task_from_candidate` and does not pass the quality gate, though
  `cmd_approve` prints that one will be created. Only the latest evaluation is
  ever gated; older ones are skipped.
* A worker's call writes three usage lines (role check, `record_llm_call`, result) and
  the daemon's up to four, so a cap of 60 calls is reached after some 20.
  A budget check that raises lets the call through; a log of 50 MB is rotated away
  and the count starts anew; one provider at its cap stops all of them.
* The daemon's codex fallback runs under the ATTEMPT of the Copilot call: two
  external calls, one ATTEMPT.
* The worker's policy check does not pass its provider, so the role and provider
  switches bind the daemon only.
* The loser of a race between identical bundles keeps its staging and reports a
  failure, although the published bundle is its own.
* A `VERIFIED_IDENTICAL` may rest on a rename that is not on disk yet.

Each passing property is broken by a mutant, a plausible slip in the code that is
defined beside the original (`WorkerExceptAlways`, `DaemonFinalizeBlind`, ...).

### Bounds

`MaxTasks` 2 or 3: the guard, the sweep and the queue order need a second row;
every pairwise race is on one row. `core_safety` has one worker, the daemon and a light
worker, three executors that race for one row, and the worker's calls can outlive the
zombie age there; a second worker with all its calls exceeds what TLC can do in a few
minutes, and the theorems are about any number of workers. `MaxFaults` 1 or 2
lets a fault hit any step; `core_safety` includes database errors.
`SweepLimit` 1 (20 in the code) makes the sweep's limit bite with two rows; it is 2
in `core_liveness`, where the mutant that skips the newest row starves an orphan.
In `training_loop` one signal with two insights is the least that lets an active
insight meet a settled one, and three tasks give an audit, its patch and one
more; two strategy ticks are the first pair that overlaps; one fault hits any
step. In `provider_calls` a cap of 2 is reached within one execution
and missed by another; one caller is manual and one is not, and one has the
fallback and one has not. In `publication` the second process may carry the same
bytes or others, and a stranger's directory, whole or partial, may be there first.
In `fallback_tasks` two lanes are the first that can be told apart, one midnight is
all that a key can meet between its computation and its use, the first slot is
DATA_WAITING and the second is not, and two planners are the first that overlap. One
fault is one overlap, one death, one failed row or one zombie in the whole behaviour;
two of them exceed TLC on any instance in which a finding is routed, and so for their
combinations, and for more planners, there are the proofs. In `publication` the
smallest race is of two processes; the third loses to the winner or to the loser. `evidence_inflated` scales the threshold of 50 to 3 with 2 predictions.
`RouteBatch` is 1 in `core_safety`; it is 0 where
`NoStacking` is checked, because the routing pass creates several validation tasks
in one tick by design. No configuration uses kind
"local": its executors have no timeout in the code, so `ZombiesFellBack` says
nothing about them and no liveness could be promised.

### Fairness

`FairSpec` assumes weak fairness of a worker's and the daemon's progress: launchd
and the loops of `scheduler.py` and `serve_forever` start ticks again and again and
a process that does not crash runs on. `Tick` is strongly fair: time passes
however busy the actors are, and provider calls then end by their timeouts.
Nothing is assumed of planners, light workers, the operator or faults. The
liveness properties about the queue are conditional on `<>[](policy = "open")`.

In `TrainingLoop` the planner, the worker and *some* strategy tick go on (their loops
in `scheduler.py`); evaluations and the operator may never come, so `PatchIsJudged`
holds with a review pending for ever. In `ProviderCall` every caller goes on with its
own step, a timeout included, because `subprocess.run` has one and nothing else in
the path waits; that a CLI answers (`CallEnds`) is not assumed. In `FallbackTasks`
ticks go on and executors end what is open; deaths, failures and overlaps are bounded,
and nothing is assumed of the executor of a row that was failed under it.

## Proofs

All theorems are checked by TLAPS for every value of the constants, from the named
assumptions on them (`TaskStoreAssumption`, `WorkerAssumption`, `LightAssumption`,
`PlannerAssumption`, `DaemonAssumption`, `LoopAssumption`, ...) alone. Each rests on an
inductive invariant: the property as checked by TLC says too little about what an
actor holds between two of its calls.

The task table, for every number of workers, planners, tasks and faults
(`OrchestratorProofs`, `CallProofs`):

* `TypeCorrect`: `Spec => []TypeOK`. `TypeOK` is inductive, proved actor by actor.
  It holds although `UpdateTask` is applied to whatever id an actor holds, and the
  daemon's clock keeps its bound only because a call returns by its timeout.
* `QueuedStaysUntouched`: `Spec => []QueuedUntouched`. Inductive together with the
  types: a row only becomes QUEUED by `CreateTask`, from ABSENT, and the conjunct
  on ABSENT rows says nobody holds anything for those; every listing takes rows
  that are RUNNING or BLOCKED_ENV, and every claim moves the row out of QUEUED.
* `RunningStaysOwned`: `Spec => []RunningIsOwned`. Whoever writes RUNNING executes
  afterwards; whoever stops executing has written another status, has read one,
  or abandons the row to `lost`.
* `ImplementsLifecycle`: `Spec => RefinesLifecycle`. Every step maps to a step of
  `TaskLifecycle` or a stutter: a settled row has no pending write, and a row
  without one is not written.
* `OnlyFallbacksOutlive`: `Spec => []ZombiesFellBack`. Strengthened to `CallsClocked` and
  `Aged`: a call is within its timeout, and its row is no older than the call and the
  calls `Before` it, none for the first; a row about to be claimed has age 0, one in
  a handler is no older than the calls made for it. Other actors only ever make the
  row younger (`Gentle`); that the row's kind does not change under the call follows
  from `QueuedUntouched`. `CallTimeout < ZombieAge` is the assumption it rests on:
  it is about one call, of which an execution may have three.
* `LightClaimsAreAtomic` (in `DeploymentProofs`): no row is run by two light workers, in
  every deployment. `claim_task_atomic` takes a queued row, and nobody runs one.

What holds for some deployments only (`CallProofs`, `DeploymentProofs`). Each hypothesis is
one the runs that violate the property show to be needed:

* `ZombiesAreDead`: `AllTimed => (Spec => []ZombieMeansDead)`. `AllTimed` asks that there
  is no light worker and no kind "local", and that the calls for one task end before the
  zombie age *together*: the provider is codex or claude (one call), or
  `3 * CallTimeout < ZombieAge` (a worker's three), and with the daemon
  `2 * CallTimeout < ZombieAge`. Deployments with a Copilot provider do not meet it:
  that is `live_zombie`. It says what the comment in the sweep takes for granted.
* `SoleClaimantExecutesAlone`, `TasksAreNotStacked` and `OutcomesStand` assume
  `SoleClaimant`: one worker alone, the daemon alone, or any number of light workers
  alone. Then a row that is about to be claimed still waits (`Claimed`), so a claim
  never takes a row from another executor or back from a terminal status. Without it,
  `double_claim`.
  * `TasksAreNotStacked` adds one planner (without it, `stacked_tasks`) and no routing
    pass. `RowsInv`: only the newest row may be open. `PlannerHolds`: a planner past its
    guard has no open row before it. It does not depend on how long an execution lasts.
  * `OutcomesStand` (`Spec => OutcomeStands`) needs neither timeouts nor one planner.
    `OverranKnown`: a row of the zombie age that has an executor is in `overran`, as a row
    gets its executor fresh (`NewExecutor`) and only the clock ages it. `FinalInv`, about
    the rows outside `overran`: that of an executor about to write says RUNNING, and
    whoever is about to fail a row without running it (a sweep, a planner, the daemon's
    finalize: `Doomed`) has one that is RUNNING without an executor, BLOCKED_ENV or
    already FAILED.
  * `OutcomesAreFinal`: under `AllTimed` nothing overruns, so that all outcomes are final.
* `LockIsTrusted` assumes `~DbMayFail`: without database errors `LockMeansBusy` is
  inductive, as every way out of the `try` passes through the unlock.

The other parts:

* `BundleProofs`, for any processes and contents: `PathInv` says that what a publisher
  renamed to the path is whole and synced, and what was acknowledged is on disk;
  `CallInv` what one call has staged and synced at each step, and what it may report.
  From both follow `NeverPartial`, `SuccessIsTrue`
  and the refinement of `WriteOnce`.
* `ProviderCallProofs`, for any callers and cap: `CallerInv` ties the step a caller is at
  to its open ATTEMPT and to the permission it has not used yet (`Cleared`), and counts
  the calls it may still start without another budget check (`CallsLeft`).
* `TrainingProofs`, for any signals, tasks, evaluations, strategy ticks and faults.
  * For **any number of overlapping planners**: `TypesHold`, with `Shape`, which also says
    whose record each copy of the file holds; `EvidenceStaysOwn`, that a recorded patch
    task was created for its insight and a verdict has a completed one; and
    `LearnsFromPatches`, that the weights hold each processed insight once and none
    without a completed patch task (`EarnedInv`, over the file and every copy of the state).
  * With **one planner** (`OnePlanner`): a verdict in the file names the insight's own,
    completed patch task (`FileInv`); what the planner has read still holds when it
    writes, as nobody else writes the file (`PlannerInv`); the strategy file and every
    copy of it hold each processed insight's adjustment exactly once, and only verdicts
    are processed (`LearnInv`). From these `OneActive`, `VerdictsHaveEvidence`,
    `LearnsOnce` and `VerdictsStay`.
  * `ReviewsHold`, with one planner: `HeldInv` speaks of the behaviours no fault has
    touched yet. The operator's older copy brings back as pending only reviews that are
    still pending in the file; while the planner is about to save its queue, every review
    pending in the file or in the operator's copy is pending in the planner's copy as well;
    and no review is pending when the planner reaches the creation.
* `LedgerProofs`, with one planner: `LoopFollowsLedger`, the refinement of `InsightLedger`.
  Every step maps to one of its steps or a stutter; `Extract` of the code stutters, and the
  ledger's extraction is the later save, which is why the mapping needs `Fresh` and the
  proof that the copy to be saved differs from the file in the new insights only.
* `FallbackProofs`, for any number of overlapping ticks, lanes, days, deaths, failed tasks
  and zombies. `CapInv`: the live tasks of a key that nobody failed under their executor
  and the ticks about to create one more are together at most as many as ticks; a tick
  joins when nothing is alive, and leaves for one task. `BoundInv`: until a finding is
  routed each validation of it is held by a tick or cost a death; from then on only
  ticks that already passed the lookup (`Trying`) may add one, and they are others than
  those that hold one. `BusyInv` counts the ticks at work by the overlaps, and `ZombieInv`
  says what a row that was failed under its executor looks like. `PlannerInv` carries
  lane, worth and id from the lookups to the recording, for `RouteFits`.

Only model-checked: all liveness (the prover handles neither fairness nor ENABLED) and
the violations. Every invariant and every action property of a passing run is stated by
a theorem. No theorem is about a recursive definition; the models have none.

## Abstractions and assumptions

* A database call is one atomic step, and a raised call has changed nothing.
* Pids are not reused while the daemon is down; reading and writing the lock file
  itself does not fail.
* Executors are an outcome chosen freely: success, any classified failure, an
  exception. Their output, files and durations below a tick are left out.
* A crash of a light worker or planner and a database error that ends its tick are
  one action (`LightDie`, `PlannerDie`): both leave the row as it is.
* Planner candidates, slot keys (unique to the microsecond) and wiki mining are left
  out: a tick that passes the guard may create a task of any kind, or none. Only
  `FallbackTasks` has dedupe keys, and there no candidate is eligible and one refresh
  action is due: each action has keys of its own.
* A JSON file is read as it was before or after a write, never half written, by a
  live reader, and is always written as a whole; only a death tears it. The verdict of
  a patch and the decision of a report are free choices.
* In the training loop one planner runs at a time, and an evaluation replaces the
  one before it. `Work` of that module ends a task once: that the status of a patch task
  is final holds where `OutcomeStands` says so, and not for a task that overran.
* In `FallbackTasks` a row has one executor (`SoleClaimantExecutesAlone` says where), so
  that one outcome of it can be late, and executors that raise leave FAILED or less.
* A write of a log may fail or its line be lost; lines are otherwise only counted.
* Nobody but publishers changes the entries of a published path.
* The planner only looks at the latest row, so a BLOCKED_ENV row that is not the
  latest is never resolved; nothing documents that it should be, and it blocks
  nobody.

## Not modelled

The plan is done as far as the code has control to model; what is left, and why:

* **Threads of the scheduler**: `stop` forgets a thread after five seconds and `start`
  may run beside it. What that causes, overlapping ticks, is modelled; the threads
  are not.
* **Caps of 200 reviews and 50 insights**: beyond TLC's bounds, and no document promises
  what the eviction of a pending entry means.
* **Threshold tracker**: `update_threshold_state` is called by tests only.
* **Choice among candidates**, wiki mining, task quality gate, optimization governance and the
  patch gates: pure classifications of texts and metrics that decide *which* task is
  created; the models leave that choice open.
* **CTO review**: a daily report over git and the task table; its one write is `CreateTask`.
* **Betting engine, simulations, MLB phases, deterministic executors**: floating point over
  data files by one process at a time. Their stateful parts are not run by any process:
  the pipeline service's `record_outcome` is called from tests, the `reset_daily` of its
  risk engines by nobody.
* The web UI, read-only endpoints, the Telegram bot, prompt texts and reports.

The models cover a small share of the repository's lines: its bulk is one-off research
and report scripts, each run once, with no state shared between two actors.
