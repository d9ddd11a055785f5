----------------------------- MODULE LightWorker -----------------------------
(***************************************************************************)
(* orchestrator/light_worker_tick.py: run_light_worker_tick claims the     *)
(* oldest QUEUED row of worker_type "light" with db.claim_task_atomic (one *)
(* BEGIN IMMEDIATE transaction), runs a Python health check and writes the *)
(* outcome.  It consults no execution policy and has no outer handler.     *)
(***************************************************************************)
EXTENDS CopilotDaemon

CONSTANT Lights  \* the processes that run light_worker_tick

ASSUME LightAssumption == Lights \cap Workers = {}

VARIABLES
  lpc,    \* "idle" or "run"
  ltask   \* the row it claimed

lightVars == <<lpc, ltask>>

LightTypeOK ==
  /\ lpc \in [Lights -> {"idle", "run"}]
  /\ ltask \in [Lights -> TaskId \cup {NoTask}]

LightInit ==
  /\ lpc = [l \in Lights |-> "idle"]
  /\ ltask = [l \in Lights |-> NoTask]

LightDone(l) ==
  /\ lpc' = [lpc EXCEPT ![l] = "idle"]
  /\ ltask' = [ltask EXCEPT ![l] = NoTask]

\* claim_task_atomic(worker_type="light"): the SELECT and the UPDATE are one
\* write transaction
LightClaim(l) ==
  /\ lpc[l] = "idle"
  /\ \E t \in With("QUEUED") :
       /\ kind[t] = "light"
       /\ \A u \in With("QUEUED") : kind[u] = "light" => t <= u
       /\ UpdateTask(t, "RUNNING")
       /\ ltask' = [ltask EXCEPT ![l] = t]
  /\ lpc' = [lpc EXCEPT ![l] = "run"]
  /\ UNCHANGED <<settingVars, faults>>

\* FAILED without an executor for the task_type, or when it raised
LightFinish(l, s) ==
  /\ lpc[l] = "run"
  /\ s \in {"COMPLETED", "FAILED"}
  /\ UpdateTask(ltask[l], s)
  /\ LightDone(l)
  /\ UNCHANGED <<settingVars, faults>>

\* a crash, or any db call after the claim raising out of the tick
LightDie(l) ==
  /\ lpc[l] = "run"
  /\ Fault
  /\ Abandon(ltask[l])
  /\ LightDone(l)
  /\ UNCHANGED settingVars

LightStep(l) ==
  \/ LightClaim(l)
  \/ \E s \in Status : LightFinish(l, s)
  \/ LightDie(l)
=============================================================================
