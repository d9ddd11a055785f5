---------------------------- MODULE FallbackTasks ----------------------------
(***************************************************************************)
(* What the planner does when no candidate is eligible (STEP 3 of          *)
(* run_planner_tick): a refresh task while it waits for data, one          *)
(* exploration a day and lane, one maintenance task a day, and only then   *)
(* the routing of completed explorations to validation tasks.  A task is   *)
(* kept from being created twice by a lookup of its dedupe key, a database *)
(* call of its own.  Ticks may overlap, a tick may die or raise between    *)
(* two calls, and midnight may come at any time.                           *)
(*                                                                         *)
(* Ticks that create a task of an eligible candidate are left out: they    *)
(* end before this step (PlannerGuard).  So are prompt files and titles,   *)
(* and which of the refresh actions is due: each has keys of its own.      *)
(***************************************************************************)
EXTENDS Integers, Sequences, FiniteSets

CONSTANTS
  Planners,     \* planner ticks that may overlap
  Lanes,        \* length of _FORCED_EXPLORATION_LANES
  SlotsPerDay,  \* cadence slots of a UTC day
  WaitingSlots, \* the slots in which the governance state is DATA_WAITING
  MaxSlot,      \* bound: the last slot
  MaxFaults     \* bound: how often a tick overlaps another, dies or raises, or a task fails

ASSUME FallbackAssumption ==
  /\ IsFiniteSet(Planners)
  /\ Lanes \in Nat \ {0} /\ SlotsPerDay \in Nat \ {0}
  /\ MaxSlot \in Nat /\ MaxFaults \in Nat

VARIABLES
  now,     \* the cadence slot it is
  tasks,   \* agent_tasks by id, each with its row of exploration_routing_state
  pc,      \* the step each tick is at
  want,    \* the dedupe key a tick looks up or creates a task for
  todo,    \* the completed explorations a tick has yet to look at
  valid,   \* the validation task a tick has yet to record
  deaths, failures,
  overlaps \* ticks that began while another was at work

plannerVars == <<pc, want, todo, valid>>
counters == <<deaths, failures, overlaps>>
vars == <<now, tasks, plannerVars, counters>>

\* A dedupe key: "forced_exploration:lane:day", "validation:lane:day",
\* "maintenance_health_check:day" or "action:slot:index".
Key(kind, lane, period) == [kind |-> kind, lane |-> lane, period |-> period]
NoKey == Key("none", 0, 0)
Keys == [kind : {"refresh", "exploration", "maintenance", "validation", "none"},
         lane : 0..Lanes, period : 0..MaxSlot]

NoTask == 0
Unrouted == -1

\* worth: whether the report of a completed exploration says WORTH_VALIDATION.
\* source: the previous_task_id of a validation.  route: validation_task_id in the
\* routing row of an exploration, NoTask when its decision asks for none.
\* zombie: whether the row was failed while its executor was alive, which may still
\* complete it ("reaped") or has done so ("late").
Task == [key : Keys, status : {"open", "COMPLETED", "FAILED"}, worth : BOOLEAN,
         source : Nat, route : Nat \cup {Unrouted},
         zombie : {"no", "reaped", "late"}]

Steps == {"idle", "refresh", "lanes", "maintenance", "sources", "route", "validation",
          "create", "record"}

TypeOK ==
  /\ now \in 0..MaxSlot
  /\ tasks \in Seq(Task)
  /\ pc \in [Planners -> Steps]
  /\ want \in [Planners -> Keys]
  /\ todo \in [Planners -> SUBSET DOMAIN tasks]
  /\ valid \in [Planners -> 0..Len(tasks)]
  /\ deaths \in 0..MaxFaults /\ failures \in 0..MaxFaults /\ overlaps \in 0..MaxFaults

Init ==
  /\ now = 0 /\ tasks = <<>>
  /\ pc = [p \in Planners |-> "idle"]
  /\ want = [p \in Planners |-> NoKey]
  /\ todo = [p \in Planners |-> {}]
  /\ valid = [p \in Planners |-> NoTask]
  /\ deaths = 0 /\ failures = 0 /\ overlaps = 0

MayFault == deaths + failures + overlaps < MaxFaults

\* ticks at work
Busy == {p \in Planners : pc[p] # "idle"}

dedupe_day_utc == now \div SlotsPerDay

-----------------------------------------------------------------------------
(* Lookups by dedupe key *)

\* Mutant: a completed task no longer keeps its key.
OpenOnly == {"open"}
Blocking == {"open", "COMPLETED"}

\* get_nonfailed_task_by_dedupe_key
NonFailed(k) == {t \in DOMAIN tasks : tasks[t].key = k /\ tasks[t].status \in Blocking}
Newest(ts) == CHOOSE t \in ts : \A u \in ts : u <= t
Oldest(ts) == CHOOSE t \in ts : \A u \in ts : t <= u

GoTo(p, step, k) ==
  /\ pc' = [pc EXCEPT ![p] = step]
  /\ want' = [want EXCEPT ![p] = k]

Rest(p) ==
  /\ GoTo(p, "idle", NoKey)
  /\ todo' = [todo EXCEPT ![p] = {}]
  /\ valid' = [valid EXCEPT ![p] = NoTask]

\* No task keeps the key: the tick goes on to create one.
Missing(p) ==
  /\ pc[p] \in {"refresh", "lanes", "maintenance", "validation"}
  /\ NonFailed(want[p]) = {}
  /\ GoTo(p, "create", want[p])
  /\ UNCHANGED <<now, tasks, todo, valid, counters>>

Skip(p, here, there, k) ==
  /\ pc[p] = here /\ NonFailed(want[p]) # {}
  /\ GoTo(p, there, k)
  /\ UNCHANGED <<now, tasks, todo, valid, counters>>

-----------------------------------------------------------------------------
(* The fallbacks *)

FirstLane == Key("exploration", 1, dedupe_day_utc)

\* STEP 1's guard on the latest task, and the governance state
Begin(p) ==
  /\ pc[p] = "idle"
  /\ tasks # <<>> => tasks[Len(tasks)].status # "open"
  /\ IF Busy = {} THEN UNCHANGED overlaps ELSE MayFault /\ overlaps' = overlaps + 1
  /\ IF now \in WaitingSlots
     THEN GoTo(p, "refresh", Key("refresh", 0, now))
     ELSE GoTo(p, "lanes", FirstLane)
  /\ UNCHANGED <<now, tasks, todo, valid, deaths, failures>>

\* _attempt_closing_source_refresh_task, SKIP_CADENCE
SkipRefresh(p) == Skip(p, "refresh", "lanes", FirstLane)

\* Mutant: the loop runs one lane too far.
TriedPastEnd(k) == k.lane > Lanes
TriedAll(k) == k.lane = Lanes

\* _attempt_forced_exploration: the first lane that has no task today is taken.
SkipLane(p) ==
  IF TriedAll(want[p])
  THEN Skip(p, "lanes", "maintenance", Key("maintenance", 0, dedupe_day_utc))
  ELSE Skip(p, "lanes", "lanes", [want[p] EXCEPT !.lane = @ + 1])

\* Mutant: SKIP_DAILY_CAP ends the tick.
EndAtCap(p) == Skip(p, "maintenance", "idle", NoKey)

\* _attempt_maintenance_task, SKIP_DAILY_CAP: the routing pass begins.
SkipMaintenance(p) ==
  Skip(p, "maintenance", "sources", Key("validation", 0, dedupe_day_utc))

\* create_task: a fallback's task ends the tick, a validation is still to be recorded.
Create(p) ==
  LET isValidation == want[p].kind = "validation"
      new == [key |-> want[p], status |-> "open", worth |-> FALSE,
              source |-> IF isValidation THEN Oldest(todo[p]) ELSE NoTask,
              route |-> Unrouted, zombie |-> "no"]
  IN  /\ pc[p] = "create"
      /\ tasks' = Append(tasks, new)
      /\ IF isValidation
         THEN /\ GoTo(p, "record", want[p])
              /\ valid' = [valid EXCEPT ![p] = Len(tasks) + 1]
              /\ UNCHANGED todo
         ELSE Rest(p)
      /\ UNCHANGED <<now, counters>>

-----------------------------------------------------------------------------
(* process_completed_exploration_tasks *)

\* Whether an exploration's finding is there to be read.
Finished(t) == tasks[t].key.kind = "exploration" /\ tasks[t].status = "COMPLETED"

\* Mutant: the id of the last validation is kept for the next source.
GoOnWithId(p, rest) ==
  IF rest = {}
  THEN Rest(p)
  ELSE /\ GoTo(p, "route", want[p])
       /\ todo' = [todo EXCEPT ![p] = rest]
       /\ UNCHANGED valid

\* The loop goes on with the sources that are left.
GoOn(p, rest) ==
  IF rest = {}
  THEN Rest(p)
  ELSE /\ GoTo(p, "route", want[p])
       /\ todo' = [todo EXCEPT ![p] = rest]
       /\ valid' = [valid EXCEPT ![p] = NoTask]

NextSource(p) == GoOn(p, todo[p] \ {Oldest(todo[p])})

ReadSources(p) ==
  /\ pc[p] = "sources"
  /\ GoOn(p, {t \in DOMAIN tasks : Finished(t)})
  /\ UNCHANGED <<now, tasks, counters>>

\* Mutant: a finding whose validation failed is routed once more.
RoutedToSuccess(s) ==
  /\ tasks[s].route # Unrouted
  /\ tasks[s].route # NoTask => tasks[tasks[s].route].status # "FAILED"
IsRouted(s) == tasks[s].route # Unrouted

\* get_exploration_routing_state_by_source_task_id, then the report's decision
LookupRoute(p) ==
  LET s == Oldest(todo[p])
      k == Key("validation", tasks[s].key.lane, want[p].period)
  IN  /\ pc[p] = "route"
      /\ IF IsRouted(s)
         THEN NextSource(p)
         ELSE /\ GoTo(p, IF tasks[s].worth THEN "validation" ELSE "record", k)
              /\ UNCHANGED <<todo, valid>>
      /\ UNCHANGED <<now, tasks, counters>>

\* A validation of this lane that was created today is taken for this finding too.
ReuseValidation(p) ==
  /\ pc[p] = "validation" /\ NonFailed(want[p]) # {}
  /\ GoTo(p, "record", want[p])
  /\ valid' = [valid EXCEPT ![p] = Newest(NonFailed(want[p]))]
  /\ UNCHANGED <<now, tasks, todo, counters>>

\* create_exploration_routing_state: a second row for a source violates the unique
\* index, and the exception ends the tick.
Record(p) ==
  LET s == Oldest(todo[p])
  IN  /\ pc[p] = "record"
      /\ IF tasks[s].route # Unrouted
         THEN Rest(p) /\ UNCHANGED tasks
         ELSE NextSource(p) /\ tasks' = [tasks EXCEPT ![s].route = valid[p]]
      /\ UNCHANGED <<now, counters>>

PlannerStep(p) ==
  \/ Begin(p) \/ Missing(p) \/ SkipRefresh(p) \/ SkipLane(p) \/ SkipMaintenance(p) \/ Create(p)
  \/ ReadSources(p) \/ LookupRoute(p) \/ ReuseValidation(p) \/ Record(p)

-----------------------------------------------------------------------------
(* Executors, the clock and faults.  update_task is unconditional: an      *)
(* executor whose row the planner's guard or a worker's sweep has failed   *)
(* as a zombie still writes its outcome, if it was alive, and a guard or   *)
(* sweep that listed the row before writes FAILED over that outcome.  A    *)
(* row has one executor (SoleClaimantExecutesAlone of DeploymentProofs     *)
(* says where).                                                            *)

\* an exploration ends with its report
Completes(t, zombie) ==
  /\ \E w \in BOOLEAN :
       /\ w => tasks[t].key.kind = "exploration"
       /\ tasks' = [tasks EXCEPT ![t].status = "COMPLETED", ![t].worth = w, ![t].zombie = zombie]
  /\ UNCHANGED <<now, plannerVars, counters>>

Complete(t) == tasks[t].status = "open" /\ Completes(t, "no")

\* the executor of a reaped row succeeds after all; one that fails, or dies,
\* leaves the row as it is
CompleteLate(t) == tasks[t].zombie = "reaped" /\ Completes(t, "late")

\* every status that gives the key back
Fails(t, zombie) ==
  /\ MayFault
  /\ tasks' = [tasks EXCEPT ![t].status = "FAILED", ![t].zombie = zombie]
  /\ failures' = failures + 1
  /\ UNCHANGED <<now, plannerVars, deaths, overlaps>>

\* written by the executor or after its death; while it lives; after its success
Fail(t)     == tasks[t].status = "open" /\ Fails(t, "no")
Reap(t)     == tasks[t].status = "open" /\ Fails(t, "reaped")
ReapLate(t) == tasks[t].status = "COMPLETED" /\ Fails(t, tasks[t].zombie)

Tick ==
  /\ now < MaxSlot
  /\ now' = now + 1
  /\ UNCHANGED <<tasks, plannerVars, counters>>

\* A tick dies, or a call raises and the outer handler ends it.
Die(p) ==
  /\ pc[p] # "idle" /\ MayFault
  /\ Rest(p)
  /\ deaths' = deaths + 1
  /\ UNCHANGED <<now, tasks, failures, overlaps>>

Executor == \E t \in DOMAIN tasks : Complete(t) \/ Fail(t)
Zombie   == \E t \in DOMAIN tasks : Reap(t) \/ CompleteLate(t) \/ ReapLate(t)

Next ==
  \/ \E p \in Planners : PlannerStep(p) \/ Die(p)
  \/ Executor
  \/ Zombie
  \/ Tick

Spec == Init /\ [][Next]_vars

\* The scheduler starts ticks again and again, and the executors end what is open;
\* nobody need fail a live executor's row, and that executor need not come back.
FairSpec == Spec /\ WF_vars(Executor) /\ \A p \in Planners : WF_vars(PlannerStep(p))

-----------------------------------------------------------------------------
(* Properties *)

\* As many ticks as may have been at work at the same time.
AtOnce(n) == n <= Cardinality(Planners) /\ n <= 1 + overlaps

\* planner_tick.py:809, 1060, 543: a key has one task that has not failed, and one
\* more for each tick that overlapped at the most, whatever day it became meanwhile.
\* Beyond these it has only tasks that were failed while their executor was alive
\* and that this executor completed, when the key had been given away perhaps
\* (db.py:461, 538-549).
CapHolds ==
  \A k \in Keys :
    LET live == {t \in DOMAIN tasks : tasks[t].key = k /\ tasks[t].status # "FAILED"}
    IN  AtOnce(Cardinality({t \in live : tasks[t].zombie = "no"}))

Validations(s) == {t \in DOMAIN tasks : tasks[t].source = s}

\* planner_tick.py:1432-1495: a finding gets one validation task of its own at the
\* most, and one more for each tick that overlapped and for each that ended between
\* creating such a task and recording it.
ValidationsBounded ==
  \A s \in DOMAIN tasks : AtOnce(Cardinality(Validations(s)) - deaths)

\* An exploration that was completed, whatever was written over it.
Reported(t) == /\ tasks[t].key.kind = "exploration" /\ tasks[t].status # "open"
               /\ tasks[t].zombie # "reaped"

\* planner_tick.py:1400-1547: what a routing row says fits its source, a completed
\* exploration unless that was overwritten by a late sweep: a validation of the same
\* lane if and only if the finding is worth one.
RouteFits ==
  \A s \in DOMAIN tasks : tasks[s].route # Unrouted =>
    /\ Reported(s)
    /\ tasks[s].worth <=> tasks[s].route # NoTask
    /\ tasks[s].worth => /\ tasks[s].route \in DOMAIN tasks
                         /\ tasks[tasks[s].route].key.kind = "validation"
                         /\ tasks[tasks[s].route].key.lane = tasks[s].key.lane

\* planner_tick.py:2993: no finding waits for ever, although they are looked at
\* only by a tick that sees today's lanes and maintenance done.
FindingsRouted ==
  []<>(\A s \in DOMAIN tasks : Finished(s) => tasks[s].route # Unrouted)
=============================================================================
