----------------------------- MODULE WorkerTick -----------------------------
(***************************************************************************)
(* orchestrator/worker_tick.py: run_worker_tick, as any number of          *)
(* processes and threads run it against the one task table: the scheduler  *)
(* loop of the API server, its run-now endpoint, the launchd worker tick   *)
(* and the agent_orchestrator daemon.                                      *)
(*                                                                         *)
(* A tick sweeps the zombie rows, lists the oldest QUEUED row, writes      *)
(* RUNNING into it, executes it and writes the outcome.  An exception      *)
(* after the listing lands in the outer handler, which re-reads the row    *)
(* and fails it if it is still RUNNING.                                    *)
(***************************************************************************)
EXTENDS TaskStore

CONSTANTS
  Workers,        \* the callers of run_worker_tick
  ManualWorkers,  \* those that run with ORCHESTRATOR_MANUAL_RUN or FORCE_RUN
  CallTimeout     \* ticks after which a provider subprocess is killed

ASSUME WorkerAssumption ==
  /\ ManualWorkers \subseteq Workers
  /\ CallTimeout \in Nat \ {0}
  \* one call: expected * 3600 + 1800 seconds against max(expected * 3600 + 3600, 7200)
  /\ CallTimeout < ZombieAge

VARIABLES
  wpc,      \* wpc[w]: where worker w is in run_worker_tick
  wtask,    \* wtask[w]: its task_id, NoTask while None
  wsweep,   \* wsweep[w]: zombies it listed and has not failed yet
  wcall,    \* wcall[w]: which provider call its execution is in
  wclock    \* wclock[w]: ticks that call has lasted

callVars   == <<wcall, wclock>>
workerVars == <<wpc, wtask, wsweep, callVars>>

\* claude and codex are one call.  execute_task_with_copilot makes up to three:
\* the Copilot CLI and codex in copilot_daemon._execute_task, and when that
\* raises, codex once more.  Each has the full timeout.
Calls     == {"only", "copilot", "codex", "last"}
Fallbacks == {"codex", "last"}

WorkerPc == {"idle", "sweep", "claim", "run", "except", "fail"}

WorkerTypeOK ==
  /\ wpc \in [Workers -> WorkerPc]
  /\ wtask \in [Workers -> TaskId \cup {NoTask}]
  /\ wsweep \in [Workers -> SUBSET TaskId]
  /\ wcall \in [Workers -> Calls]
  /\ wclock \in [Workers -> 0..ZombieAge]

WorkerInit ==
  /\ wpc = [w \in Workers |-> "idle"]
  /\ wtask = [w \in Workers |-> NoTask]
  /\ wsweep = [w \in Workers |-> {}]
  /\ wcall = [w \in Workers |-> "only"]
  /\ wclock = [w \in Workers |-> 0]

\* provider subprocesses have a timeout, the deterministic and the model
\* patch executors run in the tick's own process and have none
Timed(t) == kind[t] # "local"

\* the worker has written RUNNING and has not yet written an outcome or left
WorkerExecutes(w) == wpc[w] \in {"run", "except", "fail"}

GoTo(w, pc) == wpc' = [wpc EXCEPT ![w] = pc]

\* the tick returns
WorkerDone(w) ==
  /\ wpc' = [wpc EXCEPT ![w] = "idle"]
  /\ wtask' = [wtask EXCEPT ![w] = NoTask]
  /\ wsweep' = [wsweep EXCEPT ![w] = {}]
  /\ wcall' = [wcall EXCEPT ![w] = "only"]
  /\ wclock' = [wclock EXCEPT ![w] = 0]

-----------------------------------------------------------------------------
WorkerBegin(w) ==
  /\ wpc[w] = "idle"
  /\ Allowed(w \in ManualWorkers)
  /\ wsweep' = [wsweep EXCEPT ![w] = Zombies]
  /\ GoTo(w, "sweep")
  /\ UNCHANGED <<storeVars, wtask, callVars>>

\* newest first, and without looking at the row again
WorkerReap(w) ==
  /\ wpc[w] = "sweep"
  /\ \E t \in wsweep[w] :
       /\ \A u \in wsweep[w] : u <= t
       /\ UpdateTask(t, "FAILED")
       /\ wsweep' = [wsweep EXCEPT ![w] = @ \ {t}]
  /\ UNCHANGED <<settingVars, faults, wpc, wtask, callVars>>

WorkerIdle(w) ==
  /\ wpc[w] = "sweep"
  /\ wsweep[w] = {}
  /\ With("QUEUED") = {}
  /\ WorkerDone(w)
  /\ UNCHANGED storeVars

WorkerPick(w) ==
  /\ wpc[w] = "sweep"
  /\ wsweep[w] = {}
  /\ \E t \in TaskId :
       /\ IsOldestQueued(t)
       /\ wtask' = [wtask EXCEPT ![w] = t]
  /\ GoTo(w, "claim")
  /\ UNCHANGED <<storeVars, wsweep, callVars>>

\* update_task(RUNNING), not conditional on the row being QUEUED still, and
\* the read of worker_provider, which nothing before the calls depends on
WorkerClaim(w) ==
  /\ wpc[w] = "claim"
  /\ UpdateTask(wtask[w], "RUNNING")
  /\ wcall' = [wcall EXCEPT ![w] =
                 IF Timed(wtask[w]) /\ provider # "codex" THEN "copilot" ELSE "only"]
  /\ GoTo(w, "run")
  /\ UNCHANGED <<settingVars, faults, wtask, wsweep, wclock>>

\* The call failed, or is skipped: no gh or no CLI, a refusal of policy or
\* budget, a Copilot timeout, after which _execute_task does not try codex.
WorkerFallBack(w) ==
  /\ wpc[w] = "run"
  /\ wcall[w] \in {"copilot", "codex"}
  /\ wcall' = [wcall EXCEPT ![w] = IF @ = "copilot" THEN "codex" ELSE "last"]
  /\ wclock' = [wclock EXCEPT ![w] = 0]
  /\ UNCHANGED <<storeVars, wpc, wtask, wsweep>>

\* the executor returned: success, or failure classified by its output
WorkerFinish(w, s) ==
  /\ wpc[w] = "run"
  /\ s \in Terminal \cup {"BLOCKED_ENV"}
  /\ UpdateTask(wtask[w], s)
  /\ WorkerDone(w)
  /\ UNCHANGED <<settingVars, faults>>

\* the outcome is written, record_run raises: the outer handler runs
WorkerFinishThenRaise(w, s) ==
  /\ wpc[w] = "run"
  /\ s \in Terminal \cup {"BLOCKED_ENV"}
  /\ DbFault
  /\ UpdateTask(wtask[w], s)
  /\ GoTo(w, "except")
  /\ UNCHANGED <<settingVars, wtask, wsweep, callVars>>

\* Mutant: without the outer handler an exception just ends the tick.
WorkerRaiseUnhandled(w) ==
  /\ wpc[w] = "run"
  /\ WorkerDone(w)
  /\ UNCHANGED storeVars

\* the executor raised (timeout of the subprocess, policy block, bug), which
\* out of a call with a fallback it does not
WorkerRaise(w) ==
  /\ wpc[w] = "run"
  /\ wcall[w] \in {"only", "last"}
  /\ GoTo(w, "except")
  /\ UNCHANGED <<storeVars, wtask, wsweep, callVars>>

\* Mutant: the handler fails the row without asking for its status.
WorkerExceptAlways(w) ==
  /\ wpc[w] = "except"
  /\ GoTo(w, "fail")
  /\ UNCHANGED <<storeVars, wtask, wsweep, callVars>>

\* outer handler: get_task, and only then update_task if it said RUNNING
WorkerExceptRead(w) ==
  /\ wpc[w] = "except"
  /\ IF status[wtask[w]] = "RUNNING"
     THEN GoTo(w, "fail") /\ UNCHANGED <<wtask, wsweep, callVars>>
     ELSE WorkerDone(w)
  /\ UNCHANGED storeVars

\* Mutant: the handler writes a status nobody else knows.
WorkerFailAsError(w) ==
  /\ wpc[w] = "fail"
  /\ UpdateTask(wtask[w], "ERROR")
  /\ WorkerDone(w)
  /\ UNCHANGED <<settingVars, faults>>

WorkerFail(w) ==
  /\ wpc[w] = "fail"
  /\ UpdateTask(wtask[w], "FAILED")
  /\ WorkerDone(w)
  /\ UNCHANGED <<settingVars, faults>>

-----------------------------------------------------------------------------
(* Faults.  Before the listing task_id is None and an exception ends the   *)
(* tick; while claiming it leads to the outer handler; inside the handler  *)
(* it is logged and the row stays as it is.                                *)

WorkerSweepError(w) ==
  /\ wpc[w] = "sweep"
  /\ DbFault
  /\ WorkerDone(w)
  /\ UNCHANGED <<rowVars, settingVars>>

WorkerClaimError(w) ==
  /\ wpc[w] = "claim"
  /\ DbFault
  /\ GoTo(w, "except")
  /\ UNCHANGED <<rowVars, settingVars, wtask, wsweep, callVars>>

WorkerHandlerError(w) ==
  /\ wpc[w] \in {"except", "fail"}
  /\ DbFault
  /\ Abandon(wtask[w])
  /\ WorkerDone(w)
  /\ UNCHANGED settingVars

\* the process dies; its next tick starts from nothing
WorkerCrash(w) ==
  /\ wpc[w] # "idle"
  /\ Fault
  /\ IF WorkerExecutes(w) THEN Abandon(wtask[w]) ELSE UNCHANGED rowVars
  /\ WorkerDone(w)
  /\ UNCHANGED settingVars

-----------------------------------------------------------------------------
WorkerStep(w) ==
  \/ WorkerBegin(w) \/ WorkerReap(w) \/ WorkerIdle(w) \/ WorkerPick(w)
  \/ WorkerClaim(w) \/ WorkerFallBack(w)
  \/ \E s \in Status : WorkerFinish(w, s)
  \/ \E s \in Status : WorkerFinishThenRaise(w, s)
  \/ WorkerRaise(w) \/ WorkerExceptRead(w) \/ WorkerFail(w)
  \/ WorkerSweepError(w) \/ WorkerClaimError(w) \/ WorkerHandlerError(w)
  \/ WorkerCrash(w)

\* what a live process keeps doing: everything but the faults
WorkerProgress(w) ==
  \/ WorkerBegin(w) \/ WorkerReap(w) \/ WorkerIdle(w) \/ WorkerPick(w)
  \/ WorkerClaim(w) \/ WorkerFallBack(w) \/ WorkerRaise(w) \/ WorkerExceptRead(w) \/ WorkerFail(w)
  \/ \E s \in Status : WorkerFinish(w, s)

\* Mutant: the timeout of a provider call has the one hour of slack that the
\* zombie age has.
WorkerMayWaitLonger(w) ==
  \/ wpc[w] = "idle"
  \/ wpc[w] = "run" /\ (Timed(wtask[w]) => wclock[w] <= CallTimeout)

\* a provider call that has used up its timeout must return before time goes on
WorkerMayWait(w) ==
  \/ wpc[w] = "idle"
  \/ wpc[w] = "run" /\ (Timed(wtask[w]) => wclock[w] < CallTimeout)

WorkerClocks ==
  wclock' = [w \in Workers |->
               IF wpc[w] = "run" /\ wclock[w] < ZombieAge
               THEN wclock[w] + 1 ELSE wclock[w]]
=============================================================================
