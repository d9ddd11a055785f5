-------------------------- MODULE ProviderCallProofs --------------------------
(***************************************************************************)
(* Proofs about the provider call, for any callers and any cap: every call *)
(* is audited, every ATTEMPT accounted for, and the number of calls that a *)
(* caller still starts once it is forbidden or the cap is reached bounded. *)
(***************************************************************************)
EXTENDS ProviderCall, TLAPS

\* Who holds a permission of the policy that it has not used yet, and how many
\* metered calls a caller can still start without another budget check.
Cleared(c) == pc[c] = "start" \/ (in[c] = "direct" /\ pc[c] \in {"budget", "audit"})

CallsLeft(c) ==
  IF pc[c] \in {"audit", "launch", "start"}
  THEN IF in[c] = "direct" \/ (pc[c] # "audit" /\ tool[c] = "codex") THEN 1 ELSE 2
  ELSE IF pc[c] = "call" /\ in[c] = "execute" /\ tool[c] = "copilot" THEN 1 ELSE 0

\* One caller: what it owes the audit log, and what it may still start.
CallerInv(c) ==
  /\ Guarded(c) => open[c]
  /\ open[c] => Guarded(c) \/ excused[c]
  /\ Guarded(c) \/ pc[c] \in {"audit", "post"} => in[c] # "front"
  /\ pc[c] = "launch" => in[c] = "execute"
  /\ Permitted(c) => forbidden[c] = 0
  /\ Cleared(c) => forbidden[c] = 0
  /\ forbidden[c] <= 1
  /\ lines < Cap => late[c] = 0
  /\ late[c] <= 2
  /\ metered[c] => late[c] + CallsLeft(c) <= 2

Inv == TypeOK /\ \A c \in Callers : CallerInv(c)

LEMMA InitInv == Init => Inv
BY CallerAssumption DEF Init, Inv, TypeOK, CallerInv, Guarded, Permitted, Cleared, CallsLeft

\* What a step of caller c leaves alone: the settings, the lines already in the
\* log, and everything about the other callers.
Others(c) ==
  /\ lines' \in 0..Cap /\ lines <= lines'
  /\ UNCHANGED settingVars
  /\ \A d \in Callers \ {c} :
       /\ pc'[d] = pc[d] /\ in'[d] = in[d] /\ spare'[d] = spare[d]
       /\ tool'[d] = tool[d] /\ outcome'[d] = outcome[d] /\ metered'[d] = metered[d]
       /\ open'[d] = open[d] /\ excused'[d] = excused[d]
       /\ forbidden'[d] = forbidden[d] /\ late'[d] = late[d]

LEMMA LogGrows ==
  ASSUME lines \in 0..Cap, NEW n \in Nat, Log(n)
  PROVE  lines' \in 0..Cap /\ lines <= lines'
BY CallerAssumption DEF Log

\* A caller that rests or starts a function over owes nothing.
LEMMA RaiseStep ==
  ASSUME Inv, NEW c \in Callers, Raise(c) \/ Rest(c), UNCHANGED <<settingVars, startVars>>,
         lines' \in 0..Cap, lines <= lines',
         open' \in [Callers -> BOOLEAN], excused' \in [Callers -> BOOLEAN],
         \A d \in Callers \ {c} : open'[d] = open[d] /\ excused'[d] = excused[d],
         open'[c] => excused'[c]
  PROVE  TypeOK' /\ CallerInv(c)' /\ Others(c)
<1>1. TypeOK'
  BY DEF Inv, TypeOK, Raise, Rest, Restart, Goto, settingVars, startVars
<1>2. Others(c)
  BY DEF Inv, TypeOK, Raise, Rest, Restart, Goto, settingVars, startVars, Others
<1>3. /\ pc'[c] = "idle" \/ pc'[c] = "policy"
      /\ UNCHANGED <<hardOff, scheduler, forbidden, late>>
  BY DEF Inv, TypeOK, Raise, Rest, Restart, Goto, settingVars, startVars
<1>4. CallerInv(c)'
  <2> USE <1>3 DEF Inv, TypeOK, CallerInv
  <2>1. ~Guarded(c)' /\ ~Cleared(c)' /\ CallsLeft(c)' = 0
    BY DEF Guarded, Cleared, CallsLeft
  <2>2. Permitted(c)' = Permitted(c)
    BY DEF Permitted
  <2>3. lines' < Cap => lines < Cap
    BY CallerAssumption
  <2>4. late[c] \in Nat /\ late[c] <= 2
    OBVIOUS
  <2> QED
    BY <2>1, <2>2, <2>3, <2>4
<1> QED
  BY <1>1, <1>2, <1>4

LEMMA CallerStep ==
  ASSUME Inv, NEW c \in Callers, Begin(c) \/ Proceed(c) \/ CallEnds(c) \/ Die(c)
  PROVE  TypeOK' /\ CallerInv(c)' /\ Others(c)
<1> USE DEF Goto, settingVars, startVars, auditVars
<1> DEFINE Goal == TypeOK' /\ CallerInv(c)' /\ Others(c)
<1>1. CASE Begin(c)
  BY <1>1, CallerAssumption DEF Begin, Inv, TypeOK, CallerInv, Others, Guarded, Permitted, Cleared, CallsLeft
<1>2. CASE CheckPolicy(c)
  <2> DEFINE n == (IF in[c] = "execute" THEN 0 ELSE 1) + (IF Allowed(c) THEN 1 ELSE 0)
  <2>3. n \in Nat /\ Log(n)
    BY <1>2 DEF CheckPolicy
  <2> HIDE DEF n
  <2>4. lines' \in 0..Cap /\ lines <= lines'
    BY <2>3, LogGrows DEF Inv, TypeOK
  <2>1. CASE Allowed(c)
    BY <1>2, <2>1, <2>4, CallerAssumption
       DEF CheckPolicy, Allowed, Inv, TypeOK, CallerInv, Others, Guarded, Permitted, Cleared, CallsLeft
  <2>2. CASE ~Allowed(c)
    BY <1>2, <2>2, <2>4, RaiseStep DEF CheckPolicy, Inv, TypeOK, CallerInv, Guarded
  <2> QED
    BY <2>1, <2>2
<1>3. CASE WithinBudget(c)
  BY <1>3, CallerAssumption
     DEF WithinBudget, Admitted, Inv, TypeOK, CallerInv, Others, Guarded, Permitted, Cleared, CallsLeft
<1>4. CASE BudgetCheckFails(c)
  BY <1>4, CallerAssumption
     DEF BudgetCheckFails, Admitted, Inv, TypeOK, CallerInv, Others, Guarded, Permitted, Cleared, CallsLeft
<1>5. CASE OverBudget(c)
  BY <1>5, RaiseStep DEF OverBudget, Inv, TypeOK, CallerInv, Guarded
<1>6. CASE WriteAttempt(c)
  BY <1>6, CallerAssumption
     DEF WriteAttempt, Inv, TypeOK, CallerInv, Others, Guarded, Permitted, Cleared, CallsLeft
<1>7. CASE AttemptFails(c)
  BY <1>7, LogGrows, RaiseStep DEF AttemptFails, Inv, TypeOK, CallerInv, Guarded
<1>8. CASE Launch(c)
  BY <1>8, LogGrows, CallerAssumption
     DEF Launch, Allowed, Inv, TypeOK, CallerInv, Others, Guarded, Permitted, Cleared, CallsLeft
<1>9. CASE LaunchFails(c)
  BY <1>9, LogGrows, CallerAssumption
     DEF LaunchFails, Inv, TypeOK, CallerInv, Others, Guarded, Permitted, Cleared, CallsLeft
<1>10. CASE StartCall(c)
  BY <1>10, CallerAssumption
     DEF StartCall, Inv, TypeOK, CallerInv, Others, Guarded, Permitted, Cleared, CallsLeft
<1>11. CASE TimeOut(c)
  BY <1>11, CallerAssumption
     DEF TimeOut, Inv, TypeOK, CallerInv, Others, Guarded, Permitted, Cleared, CallsLeft
<1>12. CASE Close(c)
  BY <1>12, RaiseStep, CallerAssumption
     DEF Close, Inv, TypeOK, CallerInv, Others, Guarded, Permitted, Cleared, CallsLeft
<1>13. CASE LogUsage(c)
  BY <1>13, LogGrows, RaiseStep DEF LogUsage, Inv, TypeOK, CallerInv, Guarded
<1>14. CASE CallEnds(c)
  BY <1>14, CallerAssumption
     DEF CallEnds, Inv, TypeOK, CallerInv, Others, Guarded, Permitted, Cleared, CallsLeft
<1>15. CASE Die(c)
  BY <1>15, RaiseStep DEF Die, Inv, TypeOK, CallerInv, Guarded
<1> QED
  BY <1>1, <1>2, <1>3, <1>4, <1>5, <1>6, <1>7, <1>8, <1>9, <1>10, <1>11, <1>12,
     <1>13, <1>14, <1>15 DEF Proceed

\* The other callers lose nothing when the log grows and the settings stay.
LEMMA OthersKeep ==
  ASSUME Inv, NEW c \in Callers, Others(c), NEW d \in Callers \ {c}
  PROVE  CallerInv(d)'
BY CallerAssumption
   DEF Inv, TypeOK, Others, settingVars, CallerInv, Guarded, Permitted, Cleared, CallsLeft

\* The switches: whoever is allowed again has its count forgiven.
LEMMA OperatorStep == Inv /\ Operator => Inv'
BY DEF Inv, TypeOK, CallerInv, Operator, controlVars, auditVars,
       Guarded, Permitted, Cleared, CallsLeft

LEMMA ForgetStep == Inv /\ Forget => Inv'
BY CallerAssumption
   DEF Inv, TypeOK, CallerInv, Forget, settingVars, controlVars, auditVars,
       Guarded, Permitted, Cleared, CallsLeft

LEMMA StutterStep == Inv /\ UNCHANGED vars => Inv'
BY DEF Inv, TypeOK, CallerInv, vars, settingVars, controlVars, auditVars, startVars,
       Guarded, Permitted, Cleared, CallsLeft

LEMMA NextInv == Inv /\ [Next]_vars => Inv'
<1> SUFFICES ASSUME Inv, [Next]_vars PROVE Inv'
  OBVIOUS
<1>1. CASE \E c \in Callers : Begin(c) \/ Proceed(c) \/ CallEnds(c) \/ Die(c)
  BY <1>1, CallerStep, OthersKeep DEF Inv
<1> QED
  BY <1>1, OperatorStep, ForgetStep, StutterStep DEF Next

\* Inv holds in every reachable state.
THEOREM CallsInv == Spec => []Inv
BY InitInv, NextInv, PTL DEF Spec

\* Type correctness.
THEOREM CallTypes == Spec => []TypeOK
BY CallsInv, PTL DEF Inv

\* No subprocess without an open ATTEMPT, for any number of callers.
THEOREM CallsAudited == Spec => []CallsAreAudited
<1>1. Inv => CallsAreAudited
  BY DEF Inv, CallerInv, CallsAreAudited
<1> QED
  BY <1>1, CallsInv, PTL

\* No exception path forgets the RESULT.
THEOREM AttemptsAccounted == Spec => []AttemptsAnswered
<1>1. Inv => AttemptsAnswered
  BY DEF Inv, CallerInv, AttemptsAnswered
<1> QED
  BY <1>1, CallsInv, PTL

\* A forbidden caller starts one call at most.
THEOREM ForbiddenBound == Spec => []OneCallAfterForbidden
<1>1. Inv => OneCallAfterForbidden
  BY DEF Inv, CallerInv, OneCallAfterForbidden
<1> QED
  BY <1>1, CallsInv, PTL

\* A caller starts two calls at most past the cap, whatever the cap.
THEOREM CapBound == Spec => []TwoCallsPastCap
<1>1. Inv => TwoCallsPastCap
  BY DEF Inv, CallerInv, TwoCallsPastCap
<1> QED
  BY <1>1, CallsInv, PTL
=============================================================================
