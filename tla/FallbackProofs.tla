---------------------------- MODULE FallbackProofs ----------------------------
(***************************************************************************)
(* Proofs about the planner's fallbacks, for any number of overlapping     *)
(* ticks, lanes, slots, deaths and failed tasks: the caps on tasks of one  *)
(* key and on validations of one finding, and the routing rows.            *)
(***************************************************************************)
EXTENDS FallbackTasks, FiniteSetTheorems, SequenceTheorems, TLAPS

\* A tick begins alone, or overlaps.
BusyInv == Cardinality(Busy) <= 1 + overlaps

\* Only a failed task has an executor that may still complete it.
ZombieInv == \A t \in DOMAIN tasks :
  /\ tasks[t].status = "open" => tasks[t].zombie = "no"
  /\ tasks[t].zombie = "reaped" => tasks[t].status = "FAILED"

\* Ticks that will create a task of a key, and the tasks that keep it for good.
Pending(k) == {p \in Planners : pc[p] = "create" /\ want[p] = k}
Alive(k) == {t \in DOMAIN tasks : /\ tasks[t].key = k /\ tasks[t].status # "FAILED"
                                  /\ tasks[t].zombie = "no"}

\* A tick joins Pending when nothing is alive, and leaves it for one task.
CapInv == \A k \in Keys : AtOnce(Cardinality(Alive(k)) + Cardinality(Pending(k)))

\* A tick that creates, or looks for, a validation.
Validates(p) == pc[p] = "validation" \/ (pc[p] = "create" /\ want[p].kind = "validation")
Routing(p) == pc[p] \in {"route", "record"} \/ Validates(p)

\* Ticks that may still create a validation of a finding, and those that hold the
\* task they are about to record for it.
Trying(s) == {p \in Planners : Validates(p) /\ Oldest(todo[p]) = s}
Holding(s) == {p \in Planners : pc[p] = "record" /\ Oldest(todo[p]) = s}

\* Until a finding is routed, each validation of it is held by a tick or cost a
\* death; from then on nobody new tries.
BoundInv ==
  \A s \in DOMAIN tasks :
    IF tasks[s].route = Unrouted
    THEN Cardinality(Validations(s)) <= deaths + Cardinality(Holding(s))
    ELSE AtOnce(Cardinality(Validations(s)) + Cardinality(Trying(s)) - deaths)

\* A task comes after its source.
SourcesInv == \A t \in DOMAIN tasks : tasks[t].source < t

\* A validation task of the lane of a finding.
Fits(v, s) == /\ v \in DOMAIN tasks
              /\ tasks[v].key.kind = "validation"
              /\ tasks[v].key.lane = tasks[s].key.lane

KindAt == [refresh |-> "refresh", lanes |-> "exploration", maintenance |-> "maintenance",
           sources |-> "validation", route |-> "validation", validation |-> "validation",
           record |-> "validation"]

\* What a tick holds: sources that were completed, and a key and an id that fit the
\* oldest of them.
PlannerInv(p) ==
  LET s == Oldest(todo[p])
  IN  /\ pc[p] \in DOMAIN KindAt => want[p].kind = KindAt[pc[p]]
      /\ pc[p] = "lanes" => want[p].lane \in 1..Lanes
      /\ \A t \in todo[p] : Reported(t)
      /\ Routing(p) => todo[p] # {}
      /\ pc[p] = "route" => valid[p] = NoTask
      /\ pc[p] = "validation" => valid[p] = NoTask
      /\ Validates(p) => tasks[s].worth /\ want[p].lane = tasks[s].key.lane
      /\ pc[p] = "record" => /\ tasks[s].worth <=> valid[p] # NoTask
                             /\ tasks[s].worth => Fits(valid[p], s)

Inv == /\ TypeOK /\ BusyInv /\ ZombieInv /\ SourcesInv /\ RouteFits /\ CapInv /\ BoundInv
       /\ \A p \in Planners : PlannerInv(p)

-----------------------------------------------------------------------------
(* Rows, sets of rows and of ticks *)

LEMMA DayBound ==
  ASSUME now \in 0..MaxSlot
  PROVE  dedupe_day_utc \in 0..MaxSlot
BY FallbackAssumption DEF dedupe_day_utc

LEMMA OldestIn ==
  ASSUME NEW S \in SUBSET Nat, S # {}
  PROVE  Oldest(S) \in S
<1>1. PICK x \in S : \A y \in S : ~(<<y, x>> \in OpToRel(<, Nat))
  BY NatLessThanWellFounded, WFMin
<1>2. ASSUME NEW y \in S, ~(x <= y) PROVE FALSE
  <2>1. y \in Nat /\ x \in Nat /\ y < x
    BY <1>2
  <2>2. <<y, x>> \in OpToRel(<, Nat)
    BY <2>1 DEF OpToRel
  <2> QED
    BY <1>1, <2>2
<1> QED
  BY <1>2 DEF Oldest

LEMMA NewestIn ==
  ASSUME NEW n \in Nat, NEW S \in SUBSET (1..n), S # {}
  PROVE  Newest(S) \in S
<1> DEFINE T == {m \in Nat : n - m \in S}
<1>1. \A t \in S : n - t \in T
  OBVIOUS
<1>2. T \in SUBSET Nat /\ T # {}
  BY <1>1
<1>3. PICK x \in T : \A y \in T : x <= y
  <2> HIDE DEF T
  <2>1. PICK x \in T : \A y \in T : ~(<<y, x>> \in OpToRel(<, Nat))
    BY <1>2, NatLessThanWellFounded, WFMin
  <2>2. ASSUME NEW y \in T, ~(x <= y) PROVE FALSE
    <3>1. y \in Nat /\ x \in Nat /\ y < x
      BY <1>2, <2>2
    <3>2. <<y, x>> \in OpToRel(<, Nat)
      BY <3>1 DEF OpToRel
    <3> QED
      BY <2>1, <3>2
  <2> QED
    BY <2>2
<1>4. n - x \in S /\ \A u \in S : u <= n - x
  BY <1>1, <1>3
<1> QED
  BY <1>4 DEF Newest

LEMMA Rows ==
  ASSUME tasks \in Seq(Task)
  PROVE  /\ Len(tasks) \in Nat /\ DOMAIN tasks = 1..Len(tasks)
         /\ \A t \in DOMAIN tasks : tasks[t] \in Task
         /\ \A S \in SUBSET DOMAIN tasks : IsFiniteSet(S) /\ Cardinality(S) \in Nat
<1>1. /\ Len(tasks) \in Nat /\ DOMAIN tasks = 1..Len(tasks)
      /\ \A t \in DOMAIN tasks : tasks[t] \in Task
  BY LenProperties
<1>2. IsFiniteSet(DOMAIN tasks)
  BY <1>1, FS_Interval
<1> QED
  BY <1>1, <1>2, FS_Subset, FS_CardinalityType

LEMMA Ticks ==
  ASSUME NEW S \in SUBSET Planners
  PROVE  /\ IsFiniteSet(S) /\ Cardinality(S) \in Nat
         /\ Cardinality(Planners) \in Nat /\ Cardinality(S) <= Cardinality(Planners)
BY FallbackAssumption, FS_Subset, FS_CardinalityType

LEMMA AtWork ==
  ASSUME BusyInv, TypeOK, NEW S \in SUBSET Busy
  PROVE  AtOnce(Cardinality(S))
<1>1. Busy \in SUBSET Planners /\ overlaps \in Nat
  BY FallbackAssumption DEF Busy, TypeOK
<1>2. Cardinality(S) <= Cardinality(Busy)
  BY <1>1, Ticks, FS_Subset
<1> QED
  BY <1>1, <1>2, Ticks DEF BusyInv, AtOnce

\* A tick that is at work goes on or ends.
LEMMA BusyKept ==
  ASSUME BusyInv, TypeOK, NEW p \in Planners, pc[p] # "idle",
         \A q \in Planners \ {p} : pc'[q] = pc[q], UNCHANGED overlaps
  PROVE  BusyInv'
<1>1. Busy' \subseteq Busy /\ Busy \in SUBSET Planners /\ overlaps \in Nat
  BY FallbackAssumption DEF Busy, TypeOK
<1>2. Cardinality(Busy') <= Cardinality(Busy)
  BY <1>1, Ticks, FS_Subset
<1> QED
  BY <1>1, <1>2, Ticks DEF BusyInv

LEMMA Appended ==
  ASSUME tasks \in Seq(Task), NEW new \in Task, tasks' = Append(tasks, new)
  PROVE  LET n == Len(tasks) + 1
         IN  /\ tasks' \in Seq(Task) /\ Len(tasks') = n
             /\ n \notin DOMAIN tasks /\ DOMAIN tasks' = DOMAIN tasks \cup {n}
             /\ tasks'[n] = new /\ \A t \in DOMAIN tasks : tasks'[t] = tasks[t]
<1>1. /\ tasks' \in Seq(Task) /\ Len(tasks') = Len(tasks) + 1
      /\ tasks'[Len(tasks) + 1] = new
      /\ \A t \in 1..Len(tasks) : tasks'[t] = tasks[t]
  BY AppendProperties
<1>2. Len(tasks) \in Nat /\ DOMAIN tasks = 1..Len(tasks) /\ DOMAIN tasks' = 1..Len(tasks')
  BY <1>1, LenProperties
<1> QED
  BY <1>1, <1>2

LEMMA Changed ==
  ASSUME tasks \in Seq(Task), NEW i \in DOMAIN tasks, NEW row \in Task,
         tasks' = [tasks EXCEPT ![i] = row]
  PROVE  /\ tasks' \in Seq(Task) /\ Len(tasks') = Len(tasks) /\ DOMAIN tasks' = DOMAIN tasks
         /\ \A t \in DOMAIN tasks : tasks'[t] = IF t = i THEN row ELSE tasks[t]
<1>1. DOMAIN tasks = 1..Len(tasks)
  BY LenProperties
<1> QED
  BY <1>1, ExceptSeq

LEMMA InitInv == Init => Inv
<1> SUFFICES ASSUME Init PROVE Inv
  OBVIOUS
<1> USE DEF Init
<1>1. tasks \in Seq(Task) /\ DOMAIN tasks = {} /\ Len(tasks) = 0
  BY EmptySeq
<1>2. TypeOK
  BY <1>1, FallbackAssumption DEF TypeOK, Steps, NoKey, Key, Keys, NoTask
<1>3. BusyInv /\ ZombieInv /\ SourcesInv /\ RouteFits /\ BoundInv
  <2>1. Busy = {}
    BY DEF Busy
  <2> QED
    BY <1>1, <2>1, FS_EmptySet DEF BusyInv, ZombieInv, SourcesInv, RouteFits, BoundInv
<1>4. CapInv
  <2>1. \A k : Alive(k) = {} /\ Pending(k) = {}
    BY <1>1 DEF Alive, Pending
  <2> QED
    BY <2>1, FS_EmptySet, Ticks DEF CapInv, AtOnce
<1>5. \A p \in Planners : PlannerInv(p)
  BY DEF PlannerInv, Routing, Validates, KindAt
<1> QED
  BY <1>2, <1>3, <1>4, <1>5 DEF Inv

-----------------------------------------------------------------------------
(* What a step leaves alone.                                               *)

\* Ticks other than p.
Alone(p) == \A q \in Planners \ {p} :
  pc'[q] = pc[q] /\ want'[q] = want[q] /\ todo'[q] = todo[q] /\ valid'[q] = valid[q]

\* Rows keep their key, source and route, and an exploration its finding.
Kept ==
  /\ DOMAIN tasks \subseteq DOMAIN tasks'
  /\ \A t \in DOMAIN tasks :
       /\ tasks'[t].key = tasks[t].key /\ tasks'[t].source = tasks[t].source
       /\ Reported(t) => Reported(t)' /\ tasks'[t].worth = tasks[t].worth

LEMMA OthersKeep ==
  ASSUME TypeOK, Kept, NEW q \in Planners, PlannerInv(q),
         pc'[q] = pc[q], want'[q] = want[q], todo'[q] = todo[q], valid'[q] = valid[q]
  PROVE  PlannerInv(q)'
<1>1. DOMAIN tasks \subseteq Nat /\ todo[q] \in SUBSET DOMAIN tasks
  BY Rows DEF TypeOK
<1>2. Routing(q) => Oldest(todo[q]) \in todo[q]
  BY <1>1, OldestIn DEF PlannerInv
<1>3. \A t \in todo[q] : Reported(t)' /\ tasks'[t].worth = tasks[t].worth
                         /\ tasks'[t].key = tasks[t].key
  BY <1>1 DEF PlannerInv, Kept
<1>4. Oldest(todo[q])' = Oldest(todo[q])
  BY DEF Oldest
<1>5. pc[q] = "record" /\ tasks[Oldest(todo[q])].worth =>
        Fits(valid[q], Oldest(todo[q])) /\ Fits(valid[q], Oldest(todo[q]))'
  BY <1>2, <1>3, <1>4 DEF PlannerInv, Kept, Fits, Routing
<1> QED
  BY <1>2, <1>3, <1>4, <1>5 DEF PlannerInv, Routing, Validates, KindAt

\* A tick that only reads: it may create a task if no task keeps the key, drops a
\* validation it holds only with a death, and does not try again for a routed finding.
LEMMA ReadStep ==
  ASSUME Inv, NEW p \in Planners, Alone(p), UNCHANGED tasks, TypeOK', PlannerInv(p)',
         BusyInv', overlaps <= overlaps',
         deaths' = deaths \/ deaths' = deaths + 1,
         \A k \in Keys : p \in Pending(k)' => p \in Pending(k) \/ Alive(k) = {},
         \A s \in DOMAIN tasks :
           IF tasks[s].route = Unrouted
           THEN p \in Holding(s) => p \in Holding(s)' \/ deaths' = deaths + 1
           ELSE p \in Trying(s)' => p \in Trying(s)
  PROVE  Inv'
<1> USE DEF Inv
<1>0. deaths \in Nat /\ overlaps \in Nat /\ overlaps' \in Nat /\ tasks \in Seq(Task)
  BY FallbackAssumption DEF TypeOK
<1>1. ZombieInv' /\ SourcesInv' /\ RouteFits'
  BY DEF ZombieInv, SourcesInv, RouteFits, Reported
<1>2. \A q \in Planners : PlannerInv(q)'
  <2>1. Kept
    BY DEF Kept, Reported
  <2> QED
    BY <2>1, OthersKeep DEF Alone
<1>3. CapInv'
  <2> SUFFICES ASSUME NEW k \in Keys
               PROVE  AtOnce(Cardinality(Alive(k)) + Cardinality(Pending(k)))'
    BY DEF CapInv
  <2>1. Alive(k)' = Alive(k) /\ Cardinality(Alive(k)) \in Nat
    BY <1>0, Rows DEF Alive
  <2>2. /\ Pending(k) \in SUBSET Planners /\ Pending(k)' \in SUBSET Planners
        /\ Pending(k)' \subseteq Pending(k) \cup {p}
    BY DEF Pending, Alone
  <2>3. CASE p \in Pending(k)' => p \in Pending(k)
    <3>1. Cardinality(Pending(k)') <= Cardinality(Pending(k)) /\ Cardinality(Pending(k)') \in Nat
      BY <2>2, <2>3, Ticks, FS_Subset
    <3> QED
      BY <1>0, <2>1, <2>2, <3>1, Ticks DEF CapInv, AtOnce
  <2>4. CASE Alive(k) = {}
    <3>1. Pending(k)' \subseteq Busy' /\ Busy' \in SUBSET Planners
      BY DEF Pending, Busy
    <3>2. Cardinality(Pending(k)') <= Cardinality(Busy')
      BY <3>1, Ticks, FS_Subset
    <3> QED
      BY <1>0, <2>1, <2>2, <2>4, <3>1, <3>2, Ticks, FS_EmptySet DEF BusyInv, AtOnce
  <2> QED
    BY <2>3, <2>4
<1>4. BoundInv'
  <2> SUFFICES ASSUME NEW s \in DOMAIN tasks
               PROVE  (IF tasks[s].route = Unrouted
                       THEN Cardinality(Validations(s)) <= deaths + Cardinality(Holding(s))
                       ELSE AtOnce(Cardinality(Validations(s)) + Cardinality(Trying(s)) - deaths))'
    BY DEF BoundInv
  <2>1. Validations(s)' = Validations(s) /\ Cardinality(Validations(s)) \in Nat
    BY <1>0, Rows DEF Validations
  <2>2. CASE tasks[s].route = Unrouted
    <3>1. /\ Holding(s) \in SUBSET Planners /\ Holding(s)' \in SUBSET Planners
          /\ Holding(s) \ {p} \subseteq Holding(s)'
      BY DEF Holding, Alone, Oldest
    <3>2. CASE p \in Holding(s) => p \in Holding(s)'
      <4>1. Cardinality(Holding(s)) <= Cardinality(Holding(s)')
        BY <3>1, <3>2, Ticks, FS_Subset
      <4> QED
        BY <1>0, <2>1, <2>2, <3>1, <4>1, Ticks DEF BoundInv
    <3>3. CASE deaths' = deaths + 1
      <4>1. /\ Cardinality(Holding(s) \ {p}) <= Cardinality(Holding(s)')
            /\ Cardinality(Holding(s)) <= Cardinality(Holding(s) \ {p}) + 1
        BY <3>1, Ticks, FS_Subset, FS_RemoveElement
      <4> QED
        BY <1>0, <2>1, <2>2, <3>1, <3>3, <4>1, Ticks DEF BoundInv
    <3> QED
      BY <2>2, <3>2, <3>3
  <2>3. CASE tasks[s].route # Unrouted
    <3>1. /\ Trying(s) \in SUBSET Planners /\ Trying(s)' \in SUBSET Planners
          /\ Trying(s)' \subseteq Trying(s)
      BY <2>3 DEF Trying, Validates, Alone, Oldest
    <3>2. Cardinality(Trying(s)') <= Cardinality(Trying(s))
      BY <3>1, Ticks, FS_Subset
    <3> QED
      BY <1>0, <2>1, <2>3, <3>1, <3>2, Ticks DEF BoundInv, AtOnce
  <2> QED
    BY <2>2, <2>3
<1> QED
  BY <1>1, <1>2, <1>3, <1>4

-----------------------------------------------------------------------------
(* The steps of a tick that only read, and its death.                      *)

\* A lookup: the tick moves on with another key and keeps its sources.
LEMMA Moves ==
  ASSUME Inv, NEW p \in Planners, NEW step \in Steps, NEW k \in Keys, GoTo(p, step, k),
         UNCHANGED <<now, tasks, todo, valid, deaths, failures>>,
         overlaps' \in 0..MaxFaults, overlaps <= overlaps',
         pc[p] = "idle" => BusyInv', pc[p] # "idle" => UNCHANGED overlaps,
         pc[p] # "record",
         step \in DOMAIN KindAt => k.kind = KindAt[step],
         step = "lanes" => k.lane \in 1..Lanes,
         step \in {"route", "validation", "record"} =>
           /\ pc[p] = "route"
           /\ tasks[Oldest(todo[p])].worth <=> step = "validation"
           /\ tasks[Oldest(todo[p])].route = Unrouted
           /\ k.lane = tasks[Oldest(todo[p])].key.lane,
         step = "create" => /\ k = want[p] /\ NonFailed(k) = {}
                            /\ k.kind = "validation" => pc[p] = "validation"
  PROVE  Inv'
<1> USE DEF Inv, GoTo
<1>1. TypeOK' /\ Alone(p) /\ pc'[p] = step /\ want'[p] = k /\ BusyInv'
  BY BusyKept DEF TypeOK, Alone
<1>2. PlannerInv(p)'
  BY <1>1 DEF PlannerInv, Routing, Validates, KindAt, Reported, Fits, Oldest
<1>3. ASSUME NEW l \in Keys, p \in Pending(l)' PROVE Alive(l) = {}
  BY <1>1, <1>3, Rows DEF Pending, Alive, NonFailed, Blocking, TypeOK, Task
<1>4. ASSUME NEW s \in DOMAIN tasks, tasks[s].route # Unrouted, p \in Trying(s)'
      PROVE  p \in Trying(s)
  <2>1. Oldest(todo[p])' = Oldest(todo[p])
    BY DEF Oldest
  <2>2. s = Oldest(todo[p]) /\ Validates(p)'
    BY <1>4, <2>1 DEF Trying
  <2>3. step = "create" /\ k.kind = "validation"
    BY <1>1, <1>4, <2>2 DEF Validates
  <2> QED
    BY <2>2, <2>3 DEF Trying, Validates
<1>5. \A s \in DOMAIN tasks : p \notin Holding(s)
  BY DEF Holding
<1> QED
  BY <1>1, <1>2, <1>3, <1>4, <1>5, ReadStep

LEMMA Begins ==
  ASSUME BusyInv, TypeOK, NEW p \in Planners, Begin(p)
  PROVE  BusyInv' /\ overlaps' \in 0..MaxFaults /\ overlaps <= overlaps'
<1>1. /\ deaths \in Nat /\ failures \in Nat /\ overlaps \in Nat /\ overlaps \in 0..MaxFaults
      /\ MaxFaults \in Nat
  BY FallbackAssumption DEF TypeOK
<1>2. Busy' \subseteq Busy \cup {p} /\ Busy \in SUBSET Planners /\ Busy' \in SUBSET Planners
  BY DEF Begin, GoTo, TypeOK, Busy
<1>3. Cardinality(Busy') <= Cardinality(Busy) + 1
  <2>1. Cardinality(Busy \cup {p}) <= Cardinality(Busy) + 1 /\ IsFiniteSet(Busy \cup {p})
    BY <1>2, Ticks, FS_AddElement
  <2>2. Cardinality(Busy') <= Cardinality(Busy \cup {p})
    BY <1>2, <2>1, FS_Subset
  <2> QED
    BY <1>2, <2>1, <2>2, Ticks
<1>4. CASE Busy = {}
  <2>1. overlaps' = overlaps
    BY <1>4 DEF Begin
  <2> QED
    BY <1>1, <1>2, <1>3, <1>4, <2>1, Ticks, FS_EmptySet DEF BusyInv
<1>5. CASE Busy # {}
  <2>1. MayFault /\ overlaps' = overlaps + 1
    BY <1>5 DEF Begin
  <2> QED
    BY <1>1, <1>2, <1>3, <2>1, Ticks DEF BusyInv, MayFault
<1> QED
  BY <1>4, <1>5

LEMMA LookupSteps ==
  ASSUME Inv, NEW p \in Planners,
         Begin(p) \/ Missing(p) \/ SkipRefresh(p) \/ SkipLane(p) \/ SkipMaintenance(p)
  PROVE  Inv'
<1> USE DEF Inv, Key, Keys, KindAt, Steps
<1>1. /\ dedupe_day_utc \in 0..MaxSlot /\ now \in 0..MaxSlot /\ Lanes \in Nat \ {0}
      /\ want[p] \in Keys /\ PlannerInv(p) /\ FirstLane \in Keys
      /\ overlaps \in 0..MaxFaults
  BY DayBound, FallbackAssumption DEF TypeOK, FirstLane
<1>2. CASE Begin(p)
  <2>0. /\ pc[p] = "idle" /\ BusyInv' /\ overlaps' \in 0..MaxFaults /\ overlaps <= overlaps'
    BY <1>2, Begins DEF Begin
  <2>1. CASE now \in WaitingSlots
    BY <1>1, <1>2, <2>0, <2>1, Moves DEF Begin
  <2>2. CASE now \notin WaitingSlots
    BY <1>1, <1>2, <2>0, <2>2, Moves DEF Begin, FirstLane
  <2> QED
    BY <2>1, <2>2
<1>3. CASE Missing(p)
  BY <1>1, <1>3, Moves DEF Missing, PlannerInv, counters
<1>4. CASE SkipRefresh(p)
  BY <1>1, <1>4, Moves DEF SkipRefresh, Skip, FirstLane, counters
<1>5. CASE SkipLane(p)
  <2>1. CASE TriedAll(want[p])
    BY <1>1, <1>5, <2>1, Moves DEF SkipLane, Skip, counters
  <2>2. CASE ~TriedAll(want[p])
    <3> DEFINE k == [want[p] EXCEPT !.lane = @ + 1]
    <3>1. Skip(p, "lanes", "lanes", k) /\ want[p].kind = "exploration" /\ want[p].lane \in 1..Lanes
      BY <1>1, <1>5, <2>2 DEF SkipLane, Skip, PlannerInv
    <3>2. k \in Keys /\ k.kind = "exploration" /\ k.lane \in 1..Lanes
      BY <1>1, <2>2, <3>1 DEF TriedAll
    <3> HIDE DEF k
    <3> QED
      BY <1>1, <3>1, <3>2, Moves DEF Skip, counters
  <2> QED
    BY <2>1, <2>2
<1>6. CASE SkipMaintenance(p)
  BY <1>1, <1>6, Moves DEF SkipMaintenance, Skip, counters
<1> QED
  BY <1>2, <1>3, <1>4, <1>5, <1>6

\* A tick that rests holds nothing.
LEMMA Rests ==
  ASSUME TypeOK, NEW p \in Planners, Rest(p)
  PROVE  /\ Alone(p) /\ PlannerInv(p)' /\ pc'[p] = "idle"
         /\ pc' \in [Planners -> Steps] /\ want' \in [Planners -> Keys]
         /\ todo' \in [Planners -> SUBSET DOMAIN tasks]
         /\ valid' \in [Planners -> 0..Len(tasks)]
<1>1. /\ pc' = [pc EXCEPT ![p] = "idle"] /\ want' = [want EXCEPT ![p] = NoKey]
      /\ todo' = [todo EXCEPT ![p] = {}] /\ valid' = [valid EXCEPT ![p] = NoTask]
  BY DEF Rest, GoTo
<1>2. NoKey \in Keys /\ Len(tasks) \in Nat
  BY FallbackAssumption, Rows DEF TypeOK, Keys, NoKey, Key
<1>3. pc'[p] = "idle" /\ todo'[p] = {}
  BY <1>1 DEF TypeOK
<1>4. PlannerInv(p)'
  BY <1>3 DEF PlannerInv, Routing, Validates, KindAt
<1> QED
  BY <1>1, <1>2, <1>3, <1>4 DEF TypeOK, Steps, Alone, NoTask

\* The loop over the sources: the tick rests, or takes the next one.
LEMMA Loops ==
  ASSUME Inv, NEW p \in Planners, NEW rest \in SUBSET DOMAIN tasks,
         \A t \in rest : Reported(t)', Kept, Len(tasks') = Len(tasks),
         pc[p] \in {"sources", "route", "record"}, GoOn(p, rest)
  PROVE  /\ Alone(p) /\ PlannerInv(p)' /\ pc'[p] \in {"idle", "route"}
         /\ pc' \in [Planners -> Steps] /\ want' \in [Planners -> Keys]
         /\ todo' \in [Planners -> SUBSET DOMAIN tasks']
         /\ valid' \in [Planners -> 0..Len(tasks')]
<1> USE DEF Inv, TypeOK, Steps, NoTask
<1>0. NoKey \in Keys /\ tasks \in Seq(Task) /\ Len(tasks) \in Nat /\ DOMAIN tasks \subseteq DOMAIN tasks'
  BY FallbackAssumption, Rows DEF Keys, NoKey, Key, Kept
<1>1. CASE rest = {}
  <2>1. Rest(p)
    BY <1>1 DEF GoOn
  <2> QED
    BY <1>0, <2>1, Rests, LenProperties DEF Kept
<1>2. CASE rest # {}
  <2>1. /\ pc' = [pc EXCEPT ![p] = "route"] /\ want' = [want EXCEPT ![p] = want[p]]
        /\ todo' = [todo EXCEPT ![p] = rest] /\ valid' = [valid EXCEPT ![p] = NoTask]
    BY <1>2 DEF GoOn, GoTo
  <2>2. want[p].kind = "validation"
    BY DEF PlannerInv, KindAt
  <2>3. /\ pc'[p] = "route" /\ todo'[p] = rest /\ valid'[p] = NoTask /\ want'[p] = want[p]
    BY <2>1
  <2>4. PlannerInv(p)'
    BY <1>2, <2>2, <2>3 DEF PlannerInv, Routing, Validates, KindAt
  <2> QED
    BY <1>0, <2>1, <2>3, <2>4 DEF Alone
<1> QED
  BY <1>1, <1>2

LEMMA RoutingReads ==
  ASSUME Inv, NEW p \in Planners,
         ReadSources(p) \/ LookupRoute(p) \/ ReuseValidation(p) \/ Die(p)
           \/ (Record(p) /\ tasks[Oldest(todo[p])].route # Unrouted)
  PROVE  Inv'
<1> USE DEF Inv
<1> DEFINE s == Oldest(todo[p])
<1>0. /\ DOMAIN tasks \subseteq Nat /\ todo[p] \in SUBSET DOMAIN tasks /\ tasks \in Seq(Task)
      /\ Len(tasks) \in Nat
  BY Rows DEF TypeOK
<1>1. Routing(p) => s \in todo[p] /\ s \in DOMAIN tasks /\ tasks[s] \in Task /\ Reported(s)
  BY <1>0, OldestIn, Rows DEF PlannerInv
<1>2. UNCHANGED tasks => Kept /\ \A t \in DOMAIN tasks : Reported(t)' <=> Reported(t)
  BY DEF Kept, Reported
<1>3. ASSUME NEW rest \in SUBSET DOMAIN tasks, \A t \in rest : Reported(t),
             pc[p] \in {"sources", "route"} \/ (pc[p] = "record" /\ tasks[s].route # Unrouted),
             GoOn(p, rest), UNCHANGED <<now, tasks, counters>>
      PROVE  Inv'
  <2>1. /\ Alone(p) /\ PlannerInv(p)' /\ pc'[p] \in {"idle", "route"} /\ TypeOK'
    BY <1>2, <1>3, Loops DEF TypeOK, counters
  <2>2. \A k \in Keys : p \notin Pending(k)'
    BY <2>1 DEF Pending
  <2>3. \A t \in DOMAIN tasks :
          /\ p \notin Trying(t)'
          /\ p \in Holding(t) => tasks[t].route # Unrouted
    BY <1>3, <2>1 DEF Trying, Validates, Holding
  <2>4. UNCHANGED tasks /\ deaths' = deaths /\ UNCHANGED overlaps /\ pc[p] # "idle"
    BY <1>3 DEF counters
  <2>5. BusyInv' /\ overlaps <= overlaps'
    BY <2>1, <2>4, BusyKept, FallbackAssumption DEF Alone, TypeOK
  <2> QED
    BY <2>1, <2>2, <2>3, <2>4, <2>5, ReadStep
<1>4. CASE ReadSources(p)
  <2>1. \A t \in DOMAIN tasks : Finished(t) => Reported(t)
    BY DEF Finished, Reported, ZombieInv
  <2> QED
    BY <1>3, <1>4, <2>1 DEF ReadSources
<1>5. CASE LookupRoute(p)
  <2>1. CASE IsRouted(s)
    <3>1. GoOn(p, todo[p] \ {s}) /\ pc[p] = "route" /\ UNCHANGED <<now, tasks, counters>>
      BY <1>5, <2>1 DEF LookupRoute, NextSource
    <3> QED
      BY <1>0, <1>3, <3>1 DEF PlannerInv
  <2>2. CASE ~IsRouted(s)
    <3> DEFINE k == Key("validation", tasks[s].key.lane, want[p].period)
               step == IF tasks[s].worth THEN "validation" ELSE "record"
    <3>1. /\ pc[p] = "route" /\ GoTo(p, step, k) /\ tasks[s].route = Unrouted
          /\ UNCHANGED <<now, tasks, todo, valid, deaths, failures, overlaps>>
          /\ overlaps \in 0..MaxFaults /\ overlaps <= overlaps
      BY <1>5, <2>2, FallbackAssumption DEF LookupRoute, IsRouted, counters, TypeOK
    <3>2. k \in Keys /\ k.kind = "validation" /\ k.lane = tasks[s].key.lane
      BY <1>1, <3>1 DEF Routing, Key, Keys, TypeOK, Task
    <3>3. tasks[s].worth \in BOOLEAN
      BY <1>1, <3>1 DEF Routing, Task
    <3> HIDE DEF k
    <3> QED
      BY <3>1, <3>2, <3>3, Moves DEF Steps, KindAt
  <2> QED
    BY <2>1, <2>2
<1>6. CASE ReuseValidation(p)
  <2> DEFINE v == Newest(NonFailed(want[p]))
  <2>1. /\ pc[p] = "validation" /\ GoTo(p, "record", want[p])
        /\ valid' = [valid EXCEPT ![p] = v]
        /\ UNCHANGED <<now, tasks, todo, counters>>
    BY <1>6 DEF ReuseValidation
  <2>2. v \in DOMAIN tasks /\ tasks[v].key = want[p]
    <3>1. NonFailed(want[p]) # {} /\ NonFailed(want[p]) \in SUBSET DOMAIN tasks
      BY <1>6 DEF ReuseValidation, NonFailed
    <3>2. v \in NonFailed(want[p])
      BY <3>1, Rows, NewestIn DEF TypeOK
    <3> QED
      BY <3>2 DEF NonFailed
  <2> HIDE DEF v
  <2>3. /\ Alone(p) /\ TypeOK' /\ pc'[p] = "record" /\ valid'[p] = v /\ want'[p] = want[p]
        /\ todo'[p] = todo[p]
    BY <1>0, <2>1, <2>2, Rows DEF TypeOK, GoTo, Alone, Steps, counters
  <2>4. /\ tasks[s].worth /\ v # NoTask /\ Fits(v, s) /\ want[p].kind = "validation"
        /\ todo[p] # {} /\ Oldest(todo[p])' = s
    <3>1. Oldest(todo[p])' = s
      BY <2>1 DEF Oldest
    <3>2. /\ tasks[s].worth /\ want[p].kind = "validation" /\ want[p].lane = tasks[s].key.lane
          /\ todo[p] # {}
      BY <2>1 DEF PlannerInv, Routing, Validates, KindAt
    <3>3. v # NoTask
      BY <2>2, Rows DEF TypeOK, NoTask
    <3> QED
      BY <2>2, <3>1, <3>2, <3>3 DEF Fits
  <2>5. PlannerInv(p)'
    BY <2>1, <2>3, <2>4 DEF PlannerInv, Routing, Validates, KindAt, Fits, Reported
  <2>6. /\ \A k \in Keys : p \notin Pending(k)'
        /\ \A t \in DOMAIN tasks : p \notin Trying(t)' /\ p \notin Holding(t)
    BY <2>1, <2>3 DEF Pending, Trying, Holding, Validates
  <2>7. UNCHANGED <<tasks, deaths, overlaps>> /\ BusyInv' /\ overlaps <= overlaps'
    BY <2>1, <2>3, BusyKept, FallbackAssumption DEF Alone, TypeOK, counters
  <2> QED
    BY <2>3, <2>5, <2>6, <2>7, ReadStep
<1>7. CASE Die(p)
  <2>1. Rest(p) /\ deaths' = deaths + 1 /\ MayFault /\ pc[p] # "idle"
        /\ UNCHANGED <<now, tasks, failures, overlaps>>
    BY <1>7 DEF Die
  <2>2. Alone(p) /\ PlannerInv(p)' /\ pc'[p] = "idle" /\ TypeOK'
    <3>1. deaths' \in 0..MaxFaults
      BY <2>1, FallbackAssumption DEF TypeOK, MayFault
    <3> QED
      BY <1>0, <2>1, <3>1, Rests DEF TypeOK
  <2>4. BusyInv' /\ overlaps <= overlaps'
    BY <2>1, <2>2, BusyKept, FallbackAssumption DEF Alone, TypeOK
  <2>3. /\ \A k \in Keys : p \notin Pending(k)'
        /\ \A t \in DOMAIN tasks : p \notin Trying(t)'
    BY <2>2 DEF Pending, Trying, Validates
  <2> QED
    BY <2>1, <2>2, <2>3, <2>4, ReadStep
<1>8. CASE Record(p) /\ tasks[s].route # Unrouted
  <2>1. GoOn(p, {}) /\ pc[p] = "record" /\ UNCHANGED <<now, tasks, counters>>
    BY <1>8 DEF Record, GoOn
  <2> QED
    BY <1>3, <1>8, <2>1
<1> QED
  BY <1>4, <1>5, <1>6, <1>7, <1>8

-----------------------------------------------------------------------------
(* The steps that write the task table.                                    *)

\* A new row: one task more for its key and its source, one tick less that waits to
\* create it.
LEMMA CreateStep ==
  ASSUME Inv, NEW p \in Planners, Create(p)
  PROVE  Inv'
<1> USE DEF Inv
<1> DEFINE s == Oldest(todo[p])
           n == Len(tasks) + 1
           isValidation == want[p].kind = "validation"
           new == [key |-> want[p], status |-> "open", worth |-> FALSE,
                   source |-> IF isValidation THEN s ELSE NoTask, route |-> Unrouted,
                   zombie |-> "no"]
<1>0. /\ DOMAIN tasks = 1..Len(tasks) /\ todo[p] \in SUBSET DOMAIN tasks /\ tasks \in Seq(Task)
      /\ Len(tasks) \in Nat /\ want[p] \in Keys /\ deaths \in Nat /\ overlaps \in Nat
      /\ \A t \in DOMAIN tasks : tasks[t] \in Task
  BY Rows, FallbackAssumption DEF TypeOK
<1>1. pc[p] = "create" /\ tasks' = Append(tasks, new) /\ UNCHANGED <<now, deaths, failures, overlaps>>
  BY DEF Create, counters
<1>2. isValidation => /\ s \in DOMAIN tasks /\ Reported(s) /\ tasks[s].worth
                      /\ want[p].lane = tasks[s].key.lane /\ todo[p] # {} /\ Validates(p)
  <2>1. isValidation => Validates(p) /\ Routing(p)
    BY <1>1 DEF Validates, Routing
  <2>2. isValidation => s \in todo[p]
    BY <1>0, <2>1, OldestIn DEF PlannerInv
  <2> QED
    BY <1>0, <2>1, <2>2 DEF PlannerInv
<1>3. new \in Task
  BY <1>0, <1>2 DEF Task, NoTask, Unrouted
<1>4. /\ tasks' \in Seq(Task) /\ Len(tasks') = n /\ n \notin DOMAIN tasks
      /\ DOMAIN tasks' = DOMAIN tasks \cup {n}
      /\ tasks'[n] = new /\ \A t \in DOMAIN tasks : tasks'[t] = tasks[t]
  BY <1>0, <1>1, <1>3, Appended
<1> HIDE DEF s, new, n
<1>5. /\ new.key = want[p] /\ new.status = "open" /\ new.route = Unrouted /\ new.zombie = "no"
      /\ new.source = IF isValidation THEN s ELSE NoTask
  BY DEF new
<1>6. /\ Kept /\ Alone(p) /\ TypeOK' /\ PlannerInv(p)'
      /\ pc'[p] = IF isValidation THEN "record" ELSE "idle"
      /\ isValidation => todo'[p] = todo[p]
  <2>1. Kept
    BY <1>4 DEF Kept, Reported
  <2>2. CASE isValidation
    <3>1. /\ pc' = [pc EXCEPT ![p] = "record"] /\ want' = [want EXCEPT ![p] = want[p]]
          /\ valid' = [valid EXCEPT ![p] = n] /\ todo' = todo
      BY <2>2 DEF Create, GoTo, n
    <3>2. /\ pc'[p] = "record" /\ want'[p] = want[p] /\ valid'[p] = n /\ todo'[p] = todo[p]
          /\ Oldest(todo[p])' = s /\ n # NoTask
      BY <1>0, <3>1 DEF TypeOK, Oldest, s, n, NoTask
    <3>3. /\ n \in DOMAIN tasks' /\ tasks'[n].key.kind = "validation"
          /\ tasks'[n].key.lane = tasks'[s].key.lane
      BY <1>2, <1>4, <1>5, <2>2
    <3>4. (\A t \in todo[p] : Reported(t))' /\ tasks'[s].worth
      BY <1>0, <1>2, <1>4, <2>2, <3>2 DEF PlannerInv, Reported
    <3>5. PlannerInv(p)'
      BY <1>2, <2>2, <3>2, <3>3, <3>4 DEF PlannerInv, Routing, Validates, KindAt, Fits
    <3>6. TypeOK'
      BY <1>0, <1>1, <1>4, <3>1 DEF TypeOK, Steps, n
    <3> QED
      BY <2>1, <2>2, <3>1, <3>2, <3>5, <3>6 DEF Alone
  <2>3. CASE ~isValidation
    <3>1. Rest(p)
      BY <2>3 DEF Create
    <3>2. /\ Alone(p) /\ pc'[p] = "idle" /\ pc' \in [Planners -> Steps]
          /\ want' \in [Planners -> Keys] /\ todo' \in [Planners -> SUBSET DOMAIN tasks]
          /\ valid' \in [Planners -> 0..Len(tasks)]
      BY <3>1, Rests
    <3>3. PlannerInv(p)'
      BY <3>1, Rests
    <3>4. TypeOK'
      BY <1>0, <1>1, <1>4, <3>2 DEF TypeOK, n
    <3> QED
      BY <2>1, <2>3, <3>2, <3>3, <3>4
  <2> QED
    BY <2>2, <2>3
<1>7. \A q \in Planners : PlannerInv(q)'
  BY <1>6, OthersKeep DEF Alone
<1>8. SourcesInv'
  <2>1. \A t \in DOMAIN tasks' : tasks'[t].source < t
    BY <1>0, <1>2, <1>4, <1>5 DEF SourcesInv, NoTask, n
  <2> QED
    BY <2>1 DEF SourcesInv
<1>9. RouteFits' /\ ZombieInv' /\ BusyInv'
  <2>1. RouteFits' /\ ZombieInv'
    BY <1>4, <1>5 DEF RouteFits, Reported, ZombieInv
  <2> QED
    BY <1>1, <1>6, <2>1, BusyKept DEF Alone
<1>10. CapInv'
  <2> SUFFICES ASSUME NEW k \in Keys
               PROVE  AtOnce(Cardinality(Alive(k)) + Cardinality(Pending(k)))'
    BY DEF CapInv
  <2>1. /\ IsFiniteSet(Alive(k)) /\ Cardinality(Alive(k)) \in Nat
        /\ Pending(k) \in SUBSET Planners /\ n \notin Alive(k)
    BY <1>0, <1>4, Rows DEF Alive, Pending
  <2>2. CASE k = want[p]
    <3>1. Alive(k)' = Alive(k) \cup {n}
      BY <1>4, <1>5, <2>2 DEF Alive
    <3>2. Pending(k)' = Pending(k) \ {p} /\ p \in Pending(k)
      BY <1>1, <1>6, <2>2 DEF Pending, Alone
    <3>3. /\ Cardinality(Alive(k)') = Cardinality(Alive(k)) + 1
          /\ Cardinality(Pending(k)') = Cardinality(Pending(k)) - 1
      BY <2>1, <3>1, <3>2, Ticks, FS_AddElement, FS_RemoveElement
    <3> QED
      BY <1>0, <1>1, <2>1, <3>3, Ticks DEF CapInv, AtOnce
  <2>3. CASE k # want[p]
    <3>1. Alive(k)' = Alive(k) /\ Pending(k)' = Pending(k)
      BY <1>1, <1>4, <1>5, <1>6, <2>3 DEF Alive, Pending, Alone
    <3> QED
      BY <1>1, <3>1 DEF CapInv, AtOnce
  <2> QED
    BY <2>2, <2>3
<1>11. BoundInv'
  <2> SUFFICES ASSUME NEW t \in DOMAIN tasks'
               PROVE  (IF tasks[t].route = Unrouted
                       THEN Cardinality(Validations(t)) <= deaths + Cardinality(Holding(t))
                       ELSE AtOnce(Cardinality(Validations(t)) + Cardinality(Trying(t)) - deaths))'
    BY DEF BoundInv
  <2>1. CASE t = n
    <3>1. Validations(t)' = {}
      BY <1>0, <1>2, <1>4, <1>5, <2>1 DEF Validations, SourcesInv, NoTask, n
    <3>2. Cardinality(Validations(t)') = 0 /\ Holding(t)' \in SUBSET Planners
      BY <3>1, FS_EmptySet DEF Holding
    <3> QED
      BY <1>0, <1>1, <1>4, <1>5, <2>1, <3>2, Ticks
  <2>2. CASE t \in DOMAIN tasks /\ ~(isValidation /\ t = s)
    <3>1. Validations(t)' = Validations(t)
      BY <1>0, <1>4, <1>5, <2>2 DEF Validations, NoTask
    <3>2. Holding(t)' = Holding(t) /\ Trying(t)' = Trying(t)
      BY <1>1, <1>6, <2>2 DEF Holding, Trying, Validates, Alone, Oldest, s
    <3> QED
      BY <1>1, <1>4, <2>2, <3>1, <3>2 DEF BoundInv, AtOnce
  <2>3. CASE isValidation /\ t = s
    <3>1. /\ Validations(t)' = Validations(t) \cup {n} /\ n \notin Validations(t)
          /\ IsFiniteSet(Validations(t)) /\ Cardinality(Validations(t)) \in Nat
      BY <1>0, <1>2, <1>4, <1>5, <2>3, Rows DEF Validations
    <3>2. Cardinality(Validations(t)') = Cardinality(Validations(t)) + 1
      BY <3>1, FS_AddElement
    <3>3. /\ Holding(t)' = Holding(t) \cup {p} /\ p \notin Holding(t)
          /\ Trying(t)' = Trying(t) \ {p} /\ p \in Trying(t)
          /\ Holding(t) \in SUBSET Planners /\ Trying(t) \in SUBSET Planners
      BY <1>1, <1>2, <1>6, <2>3 DEF Holding, Trying, Validates, Alone, Oldest, s
    <3>4. /\ Cardinality(Holding(t)') = Cardinality(Holding(t)) + 1
          /\ Cardinality(Trying(t)') = Cardinality(Trying(t)) - 1
      BY <3>3, Ticks, FS_AddElement, FS_RemoveElement
    <3>5. t \in DOMAIN tasks /\ tasks'[t] = tasks[t]
      BY <1>2, <1>4, <2>3
    <3> QED
      BY <1>0, <1>1, <3>1, <3>2, <3>3, <3>4, <3>5, Ticks DEF BoundInv, AtOnce
  <2> QED
    BY <1>4, <2>1, <2>2, <2>3
<1> QED
  BY <1>6, <1>7, <1>8, <1>9, <1>10, <1>11

\* A finding becomes routed: the ticks that hold a validation of it and those that
\* still try are different ones.
LEMMA RecordStep ==
  ASSUME Inv, NEW p \in Planners, Record(p), tasks[Oldest(todo[p])].route = Unrouted
  PROVE  Inv'
<1> USE DEF Inv
<1> DEFINE s == Oldest(todo[p])
           row == [tasks[s] EXCEPT !.route = valid[p]]
<1>0. /\ DOMAIN tasks = 1..Len(tasks) /\ todo[p] \in SUBSET DOMAIN tasks /\ tasks \in Seq(Task)
      /\ Len(tasks) \in Nat /\ valid[p] \in Nat /\ deaths \in Nat /\ overlaps \in Nat
      /\ \A t \in DOMAIN tasks : tasks[t] \in Task
  BY Rows, FallbackAssumption DEF TypeOK
<1>1. /\ pc[p] = "record" /\ NextSource(p) /\ tasks' = [tasks EXCEPT ![s].route = valid[p]]
      /\ UNCHANGED <<now, deaths, failures, overlaps>>
  BY DEF Record, counters
<1>2. /\ s \in DOMAIN tasks /\ s \in todo[p] /\ Reported(s)
      /\ tasks[s].worth <=> valid[p] # NoTask
      /\ tasks[s].worth => Fits(valid[p], s)
  <2>1. Routing(p)
    BY <1>1 DEF Routing
  <2>2. s \in todo[p]
    BY <1>0, <2>1, OldestIn DEF PlannerInv
  <2> QED
    BY <1>0, <1>1, <2>2 DEF PlannerInv
<1>3. row \in Task
  BY <1>0, <1>2 DEF Task
<1>4. /\ tasks' \in Seq(Task) /\ Len(tasks') = Len(tasks) /\ DOMAIN tasks' = DOMAIN tasks
      /\ \A t \in DOMAIN tasks : tasks'[t] = IF t = s THEN row ELSE tasks[t]
  <2>1. tasks' = [tasks EXCEPT ![s] = row]
    BY <1>0, <1>1, <1>2
  <2> HIDE DEF row
  <2> QED
    BY <1>0, <1>2, <1>3, <2>1, Changed
<1>5. /\ row.key = tasks[s].key /\ row.source = tasks[s].source /\ row.status = tasks[s].status
      /\ row.worth = tasks[s].worth /\ row.zombie = tasks[s].zombie /\ row.route = valid[p]
  BY <1>0, <1>2 DEF Task
<1> HIDE DEF s, row
<1>6. /\ \A t \in DOMAIN tasks : /\ tasks'[t].key = tasks[t].key
                                 /\ tasks'[t].source = tasks[t].source
                                 /\ tasks'[t].status = tasks[t].status
                                 /\ tasks'[t].worth = tasks[t].worth
                                 /\ tasks'[t].zombie = tasks[t].zombie
                                 /\ t # s => tasks'[t].route = tasks[t].route
      /\ tasks'[s].route = valid[p]
  BY <1>2, <1>4, <1>5
<1>7. Kept /\ \A t \in DOMAIN tasks : Reported(t)' <=> Reported(t)
  BY <1>4, <1>6 DEF Kept, Reported
<1>8. /\ Alone(p) /\ PlannerInv(p)' /\ pc'[p] \in {"idle", "route"} /\ TypeOK'
  <2>1. GoOn(p, todo[p] \ {s})
    BY <1>1 DEF NextSource, s
  <2>2. /\ todo[p] \ {s} \in SUBSET DOMAIN tasks
        /\ \A t \in todo[p] \ {s} : Reported(t)'
    BY <1>0, <1>7 DEF PlannerInv
  <2>3. /\ Alone(p) /\ PlannerInv(p)' /\ pc'[p] \in {"idle", "route"}
        /\ pc' \in [Planners -> Steps] /\ want' \in [Planners -> Keys]
        /\ todo' \in [Planners -> SUBSET DOMAIN tasks']
        /\ valid' \in [Planners -> 0..Len(tasks')]
    BY <1>1, <1>4, <1>7, <2>1, <2>2, Loops
  <2> QED
    BY <1>1, <1>4, <2>3 DEF TypeOK
<1>9. \A q \in Planners : PlannerInv(q)'
  BY <1>7, <1>8, OthersKeep DEF Alone
<1>10. SourcesInv' /\ ZombieInv' /\ BusyInv'
  <2>1. SourcesInv' /\ ZombieInv'
    BY <1>4, <1>6 DEF SourcesInv, ZombieInv
  <2> QED
    BY <1>1, <1>8, <2>1, BusyKept DEF Alone
<1>11. RouteFits'
  <2> SUFFICES ASSUME NEW t \in DOMAIN tasks, tasks'[t].route # Unrouted
               PROVE  /\ Reported(t)'
                      /\ tasks'[t].worth <=> tasks'[t].route # NoTask
                      /\ tasks'[t].worth =>
                           /\ tasks'[t].route \in DOMAIN tasks'
                           /\ tasks'[tasks'[t].route].key.kind = "validation"
                           /\ tasks'[tasks'[t].route].key.lane = tasks'[t].key.lane
    BY <1>4 DEF RouteFits
  <2>1. CASE t = s
    BY <1>2, <1>4, <1>6, <1>7, <2>1 DEF Fits
  <2>2. CASE t # s
    BY <1>4, <1>6, <1>7, <2>2 DEF RouteFits
  <2> QED
    BY <2>1, <2>2
<1>12. CapInv'
  <2>1. ASSUME NEW k \in Keys
        PROVE  Alive(k)' = Alive(k) /\ Pending(k)' = Pending(k)
    BY <1>1, <1>4, <1>6, <1>8 DEF Alive, Pending, Alone
  <2> QED
    BY <1>1, <2>1 DEF CapInv, AtOnce
<1>13. BoundInv'
  <2> SUFFICES ASSUME NEW t \in DOMAIN tasks
               PROVE  (IF tasks[t].route = Unrouted
                       THEN Cardinality(Validations(t)) <= deaths + Cardinality(Holding(t))
                       ELSE AtOnce(Cardinality(Validations(t)) + Cardinality(Trying(t)) - deaths))'
    BY <1>4 DEF BoundInv
  <2>1. Validations(t)' = Validations(t) /\ Cardinality(Validations(t)) \in Nat
    BY <1>0, <1>4, <1>6, Rows DEF Validations
  <2>2. Trying(t)' = Trying(t) /\ Trying(t) \in SUBSET Planners /\ Holding(t) \in SUBSET Planners
    BY <1>1, <1>8 DEF Trying, Holding, Validates, Alone, Oldest
  <2>3. CASE t = s
    <3>1. Trying(t) \cap Holding(t) = {}
      BY DEF Trying, Holding, Validates
    <3>2. AtOnce(Cardinality(Trying(t)) + Cardinality(Holding(t)))
      <4>1. /\ IsFiniteSet(Trying(t)) /\ IsFiniteSet(Holding(t))
            /\ Trying(t) \cup Holding(t) \in SUBSET Busy
        BY <2>2, Ticks DEF Trying, Holding, Validates, Busy
      <4>2. Cardinality(Trying(t) \cup Holding(t))
              = Cardinality(Trying(t)) + Cardinality(Holding(t)) - Cardinality(Trying(t) \cap Holding(t))
        BY <4>1, FS_Union
      <4> QED
        BY <2>2, <3>1, <4>1, <4>2, Ticks, AtWork, FS_EmptySet
    <3>3. Cardinality(Validations(t)) <= deaths + Cardinality(Holding(t))
      BY <2>3 DEF BoundInv, s
    <3>4. tasks'[t].route # Unrouted
      BY <1>0, <1>6, <2>3 DEF Unrouted
    <3> QED
      BY <1>0, <1>1, <2>1, <2>2, <3>2, <3>3, <3>4, Ticks DEF AtOnce
  <2>4. CASE t # s
    <3>1. Holding(t)' = Holding(t)
      BY <1>1, <1>8, <2>4 DEF Holding, Alone, Oldest, s
    <3> QED
      BY <1>1, <1>6, <2>1, <2>2, <2>4, <3>1 DEF BoundInv, AtOnce
  <2> QED
    BY <2>3, <2>4
<1> QED
  BY <1>8, <1>9, <1>10, <1>11, <1>12, <1>13

\* A task ends, or its end is overwritten: its key may become free, and no finding
\* that was read is lost.
LEMMA ExecutorStep ==
  ASSUME Inv, Executor \/ Zombie
  PROVE  Inv'
<1> USE DEF Inv
<1>0. /\ DOMAIN tasks = 1..Len(tasks) /\ tasks \in Seq(Task)
      /\ \A t \in DOMAIN tasks : tasks[t] \in Task
  BY Rows DEF TypeOK
<1>1. PICK t \in DOMAIN tasks : Complete(t) \/ Fail(t) \/ Reap(t) \/ CompleteLate(t) \/ ReapLate(t)
  BY DEF Executor, Zombie
<1>2. PICK row \in Task :
        /\ tasks' = [tasks EXCEPT ![t] = row]
        /\ row.key = tasks[t].key /\ row.source = tasks[t].source /\ row.route = tasks[t].route
        /\ row.status # "open"
        /\ row.zombie = "reaped" => row.status = "FAILED"
        /\ Reported(t) => row.worth = tasks[t].worth /\ row.zombie = tasks[t].zombie
        /\ tasks[t].status = "FAILED" => row.zombie # "no"
        /\ tasks[t].zombie # "no" => row.zombie # "no"
        /\ UNCHANGED <<now, pc, want, todo, valid, deaths, overlaps>>
        /\ failures' \in 0..MaxFaults
  <2>0. /\ failures \in 0..MaxFaults /\ deaths \in Nat /\ overlaps \in Nat /\ MaxFaults \in Nat
        /\ tasks[t] \in Task
    BY <1>0, FallbackAssumption DEF TypeOK
  <2>1. CASE Complete(t) \/ CompleteLate(t)
    <3>1. PICK w \in BOOLEAN, z \in {"no", "late"} :
            /\ tasks' = [tasks EXCEPT ![t].status = "COMPLETED", ![t].worth = w, ![t].zombie = z]
            /\ UNCHANGED <<now, plannerVars, counters>>
            /\ (z = "no" /\ tasks[t].status = "open") \/ (z = "late" /\ tasks[t].zombie = "reaped")
      BY <2>1 DEF Complete, CompleteLate, Completes
    <3> DEFINE row == [tasks[t] EXCEPT !.status = "COMPLETED", !.worth = w, !.zombie = z]
    <3>2. tasks' = [tasks EXCEPT ![t] = row] /\ row \in Task
      BY <1>0, <3>1 DEF Task
    <3>3. /\ row.key = tasks[t].key /\ row.source = tasks[t].source /\ row.route = tasks[t].route
          /\ row.status = "COMPLETED" /\ row.zombie = z
      BY <2>0 DEF Task
    <3>4. ~Reported(t) /\ (tasks[t].zombie # "no" \/ tasks[t].status = "FAILED" => z = "late")
      BY <3>1 DEF Reported, ZombieInv
    <3>5. UNCHANGED <<now, pc, want, todo, valid, deaths, overlaps, failures>>
      BY <3>1 DEF plannerVars, counters
    <3> HIDE DEF row
    <3> QED
      BY <2>0, <3>1, <3>2, <3>3, <3>4, <3>5
  <2>2. CASE Fail(t) \/ Reap(t) \/ ReapLate(t)
    <3>1. PICK z \in {"no", "reaped", "late"} :
            /\ Fails(t, z)
            /\ tasks[t].status = "open" \/ (tasks[t].status = "COMPLETED" /\ z = tasks[t].zombie)
      BY <2>0, <2>2 DEF Fail, Reap, ReapLate, Task
    <3> DEFINE row == [tasks[t] EXCEPT !.status = "FAILED", !.zombie = z]
    <3>2. tasks' = [tasks EXCEPT ![t] = row] /\ row \in Task
      BY <1>0, <3>1 DEF Task, Fails
    <3>3. /\ row.key = tasks[t].key /\ row.source = tasks[t].source /\ row.route = tasks[t].route
          /\ row.status = "FAILED" /\ row.zombie = z /\ row.worth = tasks[t].worth
      BY <2>0 DEF Task
    <3>4. /\ Reported(t) => z = tasks[t].zombie
          /\ tasks[t].zombie # "no" => z # "no"
          /\ tasks[t].status # "FAILED"
      BY <3>1 DEF Reported, ZombieInv
    <3>5. /\ UNCHANGED <<now, pc, want, todo, valid, deaths, overlaps>>
          /\ failures' \in 0..MaxFaults
      BY <2>0, <3>1 DEF plannerVars, Fails, MayFault
    <3> HIDE DEF row
    <3> QED
      BY <3>2, <3>3, <3>4, <3>5
  <2> QED
    BY <1>1, <2>1, <2>2
<1>3. overlaps \in Nat
  BY FallbackAssumption DEF TypeOK
<1>4. /\ tasks' \in Seq(Task) /\ Len(tasks') = Len(tasks) /\ DOMAIN tasks' = DOMAIN tasks
      /\ \A u \in DOMAIN tasks : tasks'[u] = IF u = t THEN row ELSE tasks[u]
  BY <1>0, <1>2, Changed
<1>5. \A u \in DOMAIN tasks : /\ tasks'[u].key = tasks[u].key
                              /\ tasks'[u].source = tasks[u].source
                              /\ tasks'[u].route = tasks[u].route
  BY <1>2, <1>4
<1>6. TypeOK' /\ BusyInv' /\ ZombieInv'
  <2>1. TypeOK'
    BY <1>2, <1>4 DEF TypeOK
  <2>2. Busy' = Busy
    BY <1>2 DEF Busy
  <2>3. ZombieInv'
    BY <1>2, <1>4 DEF ZombieInv
  <2> QED
    BY <1>2, <2>1, <2>2, <2>3 DEF BusyInv
<1>7. Kept
  <2>1. ASSUME NEW u \in DOMAIN tasks, Reported(u)
        PROVE  Reported(u)' /\ tasks'[u].worth = tasks[u].worth
    BY <1>2, <1>4, <1>5, <2>1 DEF Reported
  <2> QED
    BY <1>4, <1>5, <2>1 DEF Kept
<1>8. \A q \in Planners : PlannerInv(q)'
  BY <1>2, <1>7, OthersKeep
<1>9. SourcesInv'
  BY <1>4, <1>5 DEF SourcesInv
<1>10. RouteFits'
  BY <1>4, <1>5, <1>7 DEF RouteFits, Kept
<1>11. CapInv'
  <2>1. ASSUME NEW k \in Keys
        PROVE  /\ Alive(k) \in SUBSET DOMAIN tasks /\ Alive(k)' \in SUBSET Alive(k)
               /\ Pending(k)' = Pending(k) /\ Pending(k) \in SUBSET Planners
    BY <1>2, <1>4, <1>5 DEF Alive, Pending
  <2>2. ASSUME NEW k \in Keys
        PROVE  /\ Cardinality(Alive(k)') <= Cardinality(Alive(k))
               /\ Cardinality(Alive(k)') \in Nat /\ Cardinality(Alive(k)) \in Nat
    <3>1. IsFiniteSet(Alive(k)) /\ Cardinality(Alive(k)) \in Nat
      BY <1>0, <2>1, Rows
    <3>2. IsFiniteSet(Alive(k)') /\ Cardinality(Alive(k)') <= Cardinality(Alive(k))
      BY <2>1, <3>1, FS_Subset
    <3> QED
      BY <3>1, <3>2, FS_CardinalityType
  <2>3. \A k \in Keys : /\ Cardinality(Pending(k)) \in Nat /\ Cardinality(Planners) \in Nat
                        /\ Cardinality(Pending(k)') = Cardinality(Pending(k))
    BY <2>1, Ticks
  <2> QED
    BY <1>2, <1>3, <2>2, <2>3 DEF CapInv, AtOnce
<1>12. BoundInv'
  <2>1. \A u \in DOMAIN tasks : /\ Validations(u)' = Validations(u)
                                /\ Trying(u)' = Trying(u) /\ Holding(u)' = Holding(u)
    BY <1>2, <1>4, <1>5 DEF Validations, Trying, Holding, Validates, Oldest
  <2> QED
    BY <1>2, <1>4, <1>5, <2>1 DEF BoundInv, AtOnce
<1> QED
  BY <1>6, <1>8, <1>9, <1>10, <1>11, <1>12

\* The clock, and a step that changes nothing, leave every part of the invariant alone.
LEMMA ClockStep ==
  ASSUME Inv, now' \in 0..MaxSlot, UNCHANGED <<tasks, pc, want, todo, valid, deaths, failures, overlaps>>
  PROVE  Inv'
<1> USE DEF Inv
<1>1. TypeOK'
  BY DEF TypeOK
<1>2. BusyInv' /\ ZombieInv' /\ SourcesInv' /\ RouteFits'
  <2>1. Busy' = Busy
    BY DEF Busy
  <2> QED
    BY <2>1 DEF BusyInv, ZombieInv, SourcesInv, RouteFits, Reported
<1>3. CapInv'
  <2>1. \A k \in Keys : Alive(k)' = Alive(k) /\ Pending(k)' = Pending(k)
    BY DEF Alive, Pending
  <2> QED
    BY <2>1 DEF CapInv, AtOnce
<1>4. BoundInv'
  <2>1. \A s \in DOMAIN tasks : /\ Validations(s)' = Validations(s)
                                /\ Trying(s)' = Trying(s) /\ Holding(s)' = Holding(s)
    BY DEF Validations, Trying, Holding, Validates, Oldest
  <2> QED
    BY <2>1 DEF BoundInv, AtOnce
<1>5. \A q \in Planners : PlannerInv(q)'
  <2>1. Kept
    BY DEF Kept, Reported
  <2> QED
    BY <2>1, OthersKeep
<1> QED
  BY <1>1, <1>2, <1>3, <1>4, <1>5

LEMMA StepInv == Inv /\ [Next]_vars => Inv'
<1> SUFFICES ASSUME Inv, [Next]_vars PROVE Inv'
  OBVIOUS
<1>1. ASSUME NEW p \in Planners, PlannerStep(p) PROVE Inv'
  <2>1. CASE Begin(p) \/ Missing(p) \/ SkipRefresh(p) \/ SkipLane(p) \/ SkipMaintenance(p)
    BY <2>1, LookupSteps
  <2>2. CASE Create(p)
    BY <2>2, CreateStep
  <2>3. CASE ReadSources(p) \/ LookupRoute(p) \/ ReuseValidation(p)
    BY <2>3, RoutingReads
  <2>4. CASE Record(p)
    BY <2>4, RoutingReads, RecordStep
  <2> QED
    BY <1>1, <2>1, <2>2, <2>3, <2>4 DEF PlannerStep
<1>2. ASSUME NEW p \in Planners, Die(p) PROVE Inv'
  BY <1>2, RoutingReads
<1>3. CASE Executor \/ Zombie
  BY <1>3, ExecutorStep
<1>4. CASE Tick
  BY <1>4, ClockStep, FallbackAssumption DEF Tick, plannerVars, counters, Inv, TypeOK
<1>5. CASE UNCHANGED vars
  BY <1>5, ClockStep DEF vars, plannerVars, counters, Inv, TypeOK
<1> QED
  BY <1>1, <1>2, <1>3, <1>4, <1>5 DEF Next

-----------------------------------------------------------------------------
(* Theorems *)

\* The caps and the routing rows follow from the invariant.
LEMMA Consequences ==
  ASSUME Inv
  PROVE  TypeOK /\ CapHolds /\ ValidationsBounded /\ RouteFits
<1> USE DEF Inv
<1>0. /\ tasks \in Seq(Task) /\ deaths \in Nat /\ overlaps \in Nat
  BY FallbackAssumption DEF TypeOK
<1>1. CapHolds
  <2>0. ASSUME NEW k \in Keys
        PROVE  Alive(k) = {t \in {u \in DOMAIN tasks : tasks[u].key = k /\ tasks[u].status # "FAILED"} :
                             tasks[t].zombie = "no"}
    BY DEF Alive
  <2> SUFFICES ASSUME NEW k \in Keys
               PROVE  AtOnce(Cardinality(Alive(k)))
    BY <2>0 DEF CapHolds
  <2>1. /\ Cardinality(Alive(k)) \in Nat /\ Pending(k) \in SUBSET Planners
    BY <1>0, Rows DEF Alive, Pending
  <2> QED
    BY <1>0, <2>1, Ticks DEF CapInv, AtOnce
<1>2. ValidationsBounded
  <2> SUFFICES ASSUME NEW s \in DOMAIN tasks
               PROVE  AtOnce(Cardinality(Validations(s)) - deaths)
    BY DEF ValidationsBounded
  <2>1. /\ Cardinality(Validations(s)) \in Nat
        /\ Trying(s) \in SUBSET Planners /\ Holding(s) \in SUBSET Planners
        /\ Holding(s) \in SUBSET Busy
    BY <1>0, Rows DEF Validations, Trying, Holding, Busy
  <2>2. AtOnce(Cardinality(Holding(s)))
    BY <2>1, AtWork
  <2> QED
    BY <1>0, <2>1, <2>2, Ticks DEF BoundInv, AtOnce
<1> QED
  BY <1>1, <1>2

\* planner_tick.py:2931-2995: whatever ticks overlap, die or cross midnight, the rows
\* of the task table and what a tick holds have their types.
THEOREM TypesHold == Spec => []TypeOK
<1>1. Inv => TypeOK
  BY Consequences
<1> QED
  BY InitInv, StepInv, <1>1, PTL DEF Spec

\* planner_tick.py:809, 1060, 531: a dedupe key never has more tasks that do not fail
\* than ticks ran at the same time, because each looked the key up before.  The rows
\* that their own executor completed after they were failed are not counted: of
\* those the lookup, which saw FAILED, knows nothing.
THEOREM CapIsKept == Spec => []CapHolds
<1>1. Inv => CapHolds
  BY Consequences
<1> QED
  BY InitInv, StepInv, <1>1, PTL DEF Spec

\* planner_tick.py:1432-1495: a finding costs at most one validation task, one more
\* for each tick that overlapped and for each that ended before it recorded what it
\* created.
THEOREM ValidationsAreBounded == Spec => []ValidationsBounded
<1>1. Inv => ValidationsBounded
  BY Consequences
<1> QED
  BY InitInv, StepInv, <1>1, PTL DEF Spec

\* planner_tick.py:1400-1547: a routing row is of an exploration that was completed,
\* and names a validation of its lane if and only if the finding is worth one.
THEOREM RoutesFit == Spec => []RouteFits
<1>1. Inv => RouteFits
  BY Consequences
<1> QED
  BY InitInv, StepInv, <1>1, PTL DEF Spec
=============================================================================
