----------------------------- MODULE TaskStore -----------------------------
(***************************************************************************)
(* The shared task table of the orchestrator: agent_tasks and the two      *)
(* settings its users consult, as orchestrator/db.py exposes them.         *)
(*                                                                         *)
(* Every db function opens a connection, runs one statement and commits,   *)
(* so a call is one atomic step and NOTHING spans two calls: a caller that *)
(* reads a row and then writes it takes two steps.  update_task has no     *)
(* condition on the old row (UPDATE ... WHERE id = ?).                     *)
(*                                                                         *)
(* Abstractions.  A row keeps its status, the class of executor it needs   *)
(* and how long it has had its status, in ticks of a coarse clock that     *)
(* saturates at ZombieAge.  Texts, file paths, timestamps and slot keys    *)
(* are left out.                                                           *)
(***************************************************************************)
EXTENDS Naturals, FiniteSets

CONSTANTS
  MaxTasks,    \* bound on the number of rows ever created
  Kinds,       \* the executor classes of the rows the planner creates
  ZombieAge,   \* ticks after which a RUNNING row counts as a zombie
  SweepLimit,  \* rows one sweep looks at (20 in the code)
  PolicyChoices,    \* the values of policy an operator sets
  ProviderChoices,  \* the values of worker_provider an operator sets
  MaxFaults,   \* bound on crashes and database errors in a behaviour
  DbMayFail    \* whether a db call may raise (database is locked, disk full)

ASSUME TaskStoreAssumption ==
  /\ MaxTasks \in Nat \ {0}
  /\ Kinds \subseteq {"llm", "local", "light"}
  /\ ZombieAge \in Nat \ {0}
  /\ SweepLimit \in Nat \ {0}
  /\ PolicyChoices \subseteq {"open", "paused", "hard_off"}
  /\ ProviderChoices \subseteq {"codex", "copilot", "copilot-daemon"}
  /\ MaxFaults \in Nat
  /\ DbMayFail \in BOOLEAN

VARIABLES
  status,    \* status[t]: the status column of row t, or "ABSENT"
  kind,      \* kind[t]: "local" (deterministic Python), "light", or "llm"
  age,       \* age[t]: ticks since row t got its RUNNING or BLOCKED_ENV
  lost,      \* history: rows left RUNNING by an executor that vanished
  policy,    \* scheduler_enabled and llm_execution_mode
  provider,  \* worker_provider: "codex" stands for claude as well
  faults     \* crashes and database errors so far

rowVars      == <<status, kind, age, lost>>
settingVars  == <<policy, provider>>
storeVars    == <<status, kind, age, lost, policy, provider, faults>>

TaskId   == 1..MaxTasks
NoTask   == 0
Terminal == {"COMPLETED", "FAILED", "FAILED_RATE_LIMIT"}
Status   == {"ABSENT", "QUEUED", "RUNNING", "BLOCKED_ENV"} \cup Terminal

StoreTypeOK ==
  /\ status \in [TaskId -> Status]
  /\ kind \in [TaskId -> {"llm", "local", "light"}]
  /\ age \in [TaskId -> 0..ZombieAge]
  /\ lost \in SUBSET TaskId
  /\ policy \in PolicyChoices
  /\ provider \in ProviderChoices
  /\ faults \in 0..MaxFaults

StoreInit ==
  /\ status = [t \in TaskId |-> "ABSENT"]
  /\ kind = [t \in TaskId |-> "llm"]
  /\ age = [t \in TaskId |-> 0]
  /\ lost = {}
  /\ policy \in PolicyChoices
  /\ provider \in ProviderChoices
  /\ faults = 0

-----------------------------------------------------------------------------
(* Reads.                                                                  *)

With(s)      == {t \in TaskId : status[t] = s}
Rows         == {t \in TaskId : status[t] # "ABSENT"}

\* ids are AUTOINCREMENT: the rows are always 1..n
IsNext(t)    == status[t] = "ABSENT" /\ \A u \in TaskId : u < t => status[u] # "ABSENT"

\* Mutant: LIMIT 1 applied before the status filter.
OldestRowQueued(t) == status[t] = "QUEUED" /\ \A u \in Rows : t <= u

\* list_tasks(status="QUEUED", limit=1): QUEUED is listed by ascending id
IsOldestQueued(t) == status[t] = "QUEUED" /\ \A u \in With("QUEUED") : t <= u

\* get_latest_task: the row with the highest id
IsLatest(t)  == t \in Rows /\ \A u \in Rows : u <= t

\* Mutant: the listing starts at OFFSET 1.
AllButNewestRunning ==
  {t \in With("RUNNING") : Cardinality({u \in With("RUNNING") : u > t}) \in 1..SweepLimit}

\* list_tasks(status="RUNNING", limit): any other status is listed newest first
NewestRunning ==
  {t \in With("RUNNING") : Cardinality({u \in With("RUNNING") : u > t}) < SweepLimit}

\* the rows of that list that exceed max(expected * 3600 + 3600, 7200) seconds
Zombies == {t \in NewestRunning : age[t] = ZombieAge}

-----------------------------------------------------------------------------
(* Writes.                                                                 *)

CreateTask(t, k) ==
  /\ IsNext(t)
  /\ status' = [status EXCEPT ![t] = "QUEUED"]
  /\ kind' = [kind EXCEPT ![t] = k]
  /\ UNCHANGED <<age, lost>>

\* Unconditional: whatever the row holds now, it holds s afterwards.  The
\* callers that write RUNNING write started_at as well, and every update
\* writes updated_at, the timestamp the planner ages BLOCKED_ENV rows by.
UpdateTask(t, s) ==
  /\ status' = [status EXCEPT ![t] = s]
  /\ age' = [age EXCEPT ![t] = 0]
  /\ lost' = lost \ {t}
  /\ UNCHANGED kind

\* The caller stops without another write: if its row still says RUNNING,
\* from here on nobody may be working on it.
Abandon(t) ==
  /\ lost' = IF t # NoTask /\ status[t] = "RUNNING" THEN lost \cup {t} ELSE lost
  /\ UNCHANGED <<status, kind, age>>

-----------------------------------------------------------------------------
(* Environment.                                                            *)

Fault   == faults < MaxFaults /\ faults' = faults + 1
DbFault == DbMayFail /\ Fault

\* evaluate_execution: hard-off blocks everyone, a disabled scheduler only
\* the background runners (a manual request overrides it)
Allowed(manual) == policy = "open" \/ (policy = "paused" /\ manual)

\* the settings endpoints of the API
SetPolicy(p) ==
  /\ p \in PolicyChoices \ {policy}
  /\ policy' = p
  /\ UNCHANGED <<status, kind, age, lost, provider, faults>>

SetProvider(p) ==
  /\ p \in ProviderChoices \ {provider}
  /\ provider' = p
  /\ UNCHANGED <<status, kind, age, lost, policy, faults>>

\* one tick of the coarse clock, for the rows that are aged by it
AgeRows ==
  /\ age' = [t \in TaskId |->
               IF status[t] \in {"RUNNING", "BLOCKED_ENV"} /\ age[t] < ZombieAge
               THEN age[t] + 1 ELSE age[t]]
  /\ UNCHANGED <<status, kind, lost>>
=============================================================================
