----------------------------- MODULE ProviderCall -----------------------------
(***************************************************************************)
(* What the worker tick and the Copilot daemon do around an external LLM   *)
(* call, the step their own modules take as one: the execution policy, the *)
(* usage log, the budget guard that counts its lines, the audit guard and  *)
(* the subprocess.  There are two functions with a call in them.  "direct" *)
(* is execute_task_with_claude/codex: one check, one call.  "execute" is   *)
(* the daemon's _execute_task: a check at its start and one more before    *)
(* each of its two calls, Copilot first and Codex if that failed.          *)
(* execute_task_with_copilot is a check ("front"), then "execute", then    *)
(* "direct" if that raised.                                                *)
(*                                                                         *)
(* The usage log is the number of lines of the last 24 hours that count as *)
(* worker calls, up to the cap.  A provider's own cap, the token cap and a *)
(* planner's recorded call refuse in the same way: any refusal is allowed. *)
(***************************************************************************)
EXTENDS Naturals

CONSTANTS
  Workers,   \* callers of execute_task_with_provider
  Daemons,   \* copilot_daemon processes
  Manual,    \* callers with ORCHESTRATOR_MANUAL_RUN or FORCE_RUN
  Cap        \* hard_cap_calls of the worker role

Callers == Workers \cup Daemons

ASSUME CallerAssumption == Manual \subseteq Callers /\ Cap \in Nat \ {0}

VARIABLES
  hardOff,    \* llm_execution_mode is "hard-off"
  scheduler,  \* scheduler_enabled
  daemonRole, \* the role and provider switches for the runner copilot_daemon
  lines,      \* usage lines in the window, Cap for "Cap or more"
  pc,         \* the step each caller is at
  in,         \* the function it is in
  spare,      \* whether execute_task_with_copilot still has its fallback
  tool,       \* the CLI that "execute" is to run or runs
  outcome,    \* what the guarded block ended with
  open,       \* whether the caller's last ATTEMPT has no RESULT in the audit log
  excused,    \* its process died, or the RESULT could not be written
  metered,    \* whether the last budget check could be carried out
  forbidden,  \* calls started since the policy last allowed this caller any
  late        \* metered calls started since the log last reached the cap

settingVars == <<hardOff, scheduler, daemonRole>>
controlVars == <<pc, in, spare, tool, outcome, metered>>
auditVars == <<open, excused>>
startVars == <<forbidden, late>>
vars == <<settingVars, lines, controlVars, auditVars, startVars>>

TypeOK ==
  /\ hardOff \in BOOLEAN /\ scheduler \in BOOLEAN /\ daemonRole \in BOOLEAN
  /\ lines \in 0..Cap
  /\ pc \in [Callers -> {"idle", "policy", "budget", "audit", "launch", "start",
                         "call", "close", "post"}]
  /\ in \in [Callers -> {"front", "direct", "execute"}]
  /\ spare \in [Callers -> BOOLEAN]
  /\ tool \in [Callers -> {"copilot", "codex"}]
  /\ outcome \in [Callers -> {"ok", "failed", "raised"}]
  /\ open \in [Callers -> BOOLEAN] /\ excused \in [Callers -> BOOLEAN]
  /\ metered \in [Callers -> BOOLEAN]
  /\ forbidden \in [Callers -> Nat] /\ late \in [Callers -> Nat]

Init ==
  /\ hardOff \in BOOLEAN /\ scheduler \in BOOLEAN /\ daemonRole \in BOOLEAN
  /\ lines = 0
  /\ pc = [c \in Callers |-> "idle"]
  /\ in = [c \in Callers |-> "front"]
  /\ spare = [c \in Callers |-> FALSE]
  /\ tool = [c \in Callers |-> "copilot"]
  /\ outcome = [c \in Callers |-> "ok"]
  /\ open = [c \in Callers |-> FALSE]
  /\ excused = [c \in Callers |-> FALSE]
  /\ metered = [c \in Callers |-> TRUE]
  /\ forbidden = [c \in Callers |-> 0]
  /\ late = [c \in Callers |-> 0]

Goto(c, step) == pc' = [pc EXCEPT ![c] = step]

-----------------------------------------------------------------------------
\* Mutant: a manual run is exempt from hard-off as well.
ManualExempt(c) == c \in Manual \/ (~hardOff /\ scheduler)

\* evaluate_execution for a background runner, without the provider
Permitted(c) == ~hardOff /\ (c \in Manual \/ scheduler)

\* _execute_task passes its provider, so the role's switches count there
Allowed(c) == Permitted(c) /\ (in[c] = "execute" => daemonRole)

\* log_usage appends n lines, each of which may be lost: a failed write is ignored
Log(n) == \E k \in 0..n : lines' = IF lines + k > Cap THEN Cap ELSE lines + k

\* the caller goes to a step of a function with nothing run yet
Restart(c, step, function) ==
  /\ Goto(c, step)
  /\ in' = [in EXCEPT ![c] = function]
  /\ spare' = [spare EXCEPT ![c] = FALSE]
  /\ tool' = [tool EXCEPT ![c] = "copilot"]
  /\ outcome' = [outcome EXCEPT ![c] = "ok"]
  /\ metered' = [metered EXCEPT ![c] = TRUE]

Rest(c) == Restart(c, "idle", "front")

\* Mutant: the fallback goes on where the exception came from.
FallBackAdmitted(c) ==
  \/ ~spare[c] /\ Rest(c)
  \/ /\ spare[c] /\ Goto(c, "audit")
     /\ spare' = [spare EXCEPT ![c] = FALSE]
     /\ in' = [in EXCEPT ![c] = "direct"]
     /\ UNCHANGED <<tool, outcome, metered>>

\* An exception leaves the function: execute_task_with_copilot goes on with
\* Codex if it came out of _execute_task, otherwise it ends the execution.
Raise(c) == IF spare[c] THEN Restart(c, "policy", "direct") ELSE Rest(c)

-----------------------------------------------------------------------------
Begin(c) ==
  /\ pc[c] = "idle"
  /\ Goto(c, "policy")
  /\ \E f \in IF c \in Daemons THEN {"execute"} ELSE {"front", "direct"} :
       in' = [in EXCEPT ![c] = f]
  /\ UNCHANGED <<settingVars, lines, spare, tool, outcome, metered, auditVars, startVars>>

\* The check at the start of a function.  ProviderFactory logs a worker's before
\* it is made, record_llm_call logs one that passed.  Neither reads anything, so
\* that they go with the reading of the settings hides nothing.
CheckPolicy(c) ==
  /\ pc[c] = "policy"
  /\ \/ Allowed(c) /\ Goto(c, "budget") /\ UNCHANGED <<in, spare, tool, outcome, metered>>
     \/ ~Allowed(c) /\ Raise(c)
  /\ Log((IF in[c] = "execute" THEN 0 ELSE 1) + (IF Allowed(c) THEN 1 ELSE 0))
  /\ UNCHANGED <<settingVars, auditVars, startVars>>

\* The way on from the budget check: "front" enters _execute_task, or, without
\* gh, execute_task_with_codex, which checks again.
Admitted(c) ==
  \/ in[c] # "front" /\ Goto(c, "audit") /\ UNCHANGED <<in, spare>>
  \/ /\ in[c] = "front" /\ Goto(c, "policy")
     /\ \E gh \in BOOLEAN :
          /\ in' = [in EXCEPT ![c] = IF gh THEN "execute" ELSE "direct"]
          /\ spare' = [spare EXCEPT ![c] = gh]

WithinBudget(c) ==
  /\ pc[c] = "budget"
  /\ lines < Cap
  /\ Admitted(c)
  /\ metered' = [metered EXCEPT ![c] = TRUE]
  /\ UNCHANGED <<settingVars, lines, tool, outcome, auditVars, startVars>>

\* an exception in the check is logged and the call goes ahead
BudgetCheckFails(c) ==
  /\ pc[c] = "budget"
  /\ Admitted(c)
  /\ metered' = [metered EXCEPT ![c] = FALSE]
  /\ UNCHANGED <<settingVars, lines, tool, outcome, auditVars, startVars>>

OverBudget(c) ==
  /\ pc[c] = "budget"
  /\ Raise(c)
  /\ UNCHANGED <<settingVars, lines, auditVars, startVars>>

\* Mutant: a failing audit log does not keep the call from being made.
AttemptOptional(c) ==
  /\ pc[c] = "audit"
  /\ Goto(c, IF in[c] = "direct" THEN "start" ELSE "launch")
  /\ UNCHANGED <<settingVars, lines, in, spare, tool, outcome, metered, auditVars, startVars>>

\* AuditGuard.__init__ has appended the ATTEMPT
WriteAttempt(c) ==
  /\ pc[c] = "audit"
  /\ open' = [open EXCEPT ![c] = TRUE]
  /\ excused' = [excused EXCEPT ![c] = FALSE]
  /\ \/ in[c] = "direct" /\ Goto(c, "start") /\ UNCHANGED tool
     \/ /\ in[c] = "execute" /\ Goto(c, "launch")
        /\ \E cli \in {"copilot", "codex"} : tool' = [tool EXCEPT ![c] = cli]
  /\ UNCHANGED <<settingVars, lines, in, spare, outcome, metered, startVars>>

\* It could not (fail closed), or the prompt or the binary is missing.  The
\* daemon logs the refused ATTEMPT as a call.
AttemptFails(c) ==
  /\ pc[c] = "audit"
  /\ Raise(c)
  /\ Log(IF in[c] = "execute" THEN 1 ELSE 0)
  /\ UNCHANGED <<settingVars, auditVars, startVars>>

\* Mutant: the fallback within _execute_task relies on the check before Copilot.
LaunchUnchecked(c) ==
  /\ pc[c] = "launch"
  /\ Allowed(c) \/ tool[c] = "codex"
  /\ Goto(c, "start")
  /\ Log(1)
  /\ UNCHANGED <<settingVars, in, spare, tool, outcome, metered, auditVars, startVars>>

\* The check before either call of _execute_task.  An exception out of the
\* Copilot call is a reason to try Codex, whatever it was.
Launch(c) ==
  /\ pc[c] = "launch"
  /\ Allowed(c)
  /\ Goto(c, "start")
  /\ Log(1)
  /\ UNCHANGED <<settingVars, in, spare, tool, outcome, metered, auditVars, startVars>>

\* the policy refuses, or the binary is not there
LaunchFails(c) ==
  /\ pc[c] = "launch"
  /\ \/ tool[c] = "copilot" /\ tool' = [tool EXCEPT ![c] = "codex"]
        /\ UNCHANGED <<pc, outcome>>
     \/ tool[c] = "codex" /\ Goto(c, "close")
        /\ outcome' = [outcome EXCEPT ![c] = "raised"] /\ UNCHANGED tool
  /\ Log(IF Allowed(c) THEN 1 ELSE 0)
  /\ UNCHANGED <<settingVars, in, spare, metered, auditVars, startVars>>

\* subprocess.run
StartCall(c) ==
  /\ pc[c] = "start"
  /\ Goto(c, "call")
  /\ forbidden' = [forbidden EXCEPT ![c] = IF Permitted(c) THEN 0 ELSE @ + 1]
  /\ late' = [late EXCEPT ![c] = IF lines = Cap /\ metered[c] THEN @ + 1 ELSE @]
  /\ UNCHANGED <<settingVars, lines, in, spare, tool, outcome, metered, auditVars>>

\* the CLI ends, with exit status 0 or another
CallEnds(c) ==
  /\ pc[c] = "call"
  /\ \/ /\ in[c] = "execute" /\ tool[c] = "copilot"
        /\ Goto(c, "launch") /\ tool' = [tool EXCEPT ![c] = "codex"]
        /\ UNCHANGED outcome
     \/ /\ Goto(c, "close") /\ UNCHANGED tool
        /\ outcome' = [outcome EXCEPT ![c] = "ok"]
     \/ /\ in[c] = "direct" \/ tool[c] = "codex"
        /\ Goto(c, "close") /\ UNCHANGED tool
        /\ outcome' = [outcome EXCEPT ![c] = "failed"]
  /\ UNCHANGED <<settingVars, lines, in, spare, metered, auditVars, startVars>>

\* Mutant: only Codex is run with a timeout.
TimeOutCodexOnly(c) ==
  /\ in[c] = "direct" \/ tool[c] = "codex"
  /\ pc[c] = "call"
  /\ Goto(c, "close")
  /\ outcome' = [outcome EXCEPT ![c] = "raised"]
  /\ UNCHANGED <<settingVars, lines, in, spare, tool, metered, auditVars, startVars>>

\* Mutant: a timeout is an outcome of its own, which nobody reads.
TimeOutAsOutcome(c) ==
  /\ pc[c] = "call"
  /\ Goto(c, "close")
  /\ outcome' = [outcome EXCEPT ![c] = "timeout"]
  /\ UNCHANGED <<settingVars, lines, in, spare, tool, metered, auditVars, startVars>>

\* TimeoutExpired leaves the guarded block, of Copilot too
TimeOut(c) ==
  /\ pc[c] = "call"
  /\ Goto(c, "close")
  /\ outcome' = [outcome EXCEPT ![c] = "raised"]
  /\ UNCHANGED <<settingVars, lines, in, spare, tool, metered, auditVars, startVars>>

\* Mutant: only a result that was set is written, an exception sets none.
CloseIfSet(c) ==
  /\ pc[c] = "close"
  /\ \E written \in BOOLEAN :
       /\ open' = [open EXCEPT ![c] = outcome[c] = "raised" \/ ~written]
       /\ excused' = [excused EXCEPT ![c] = ~written]
  /\ \/ outcome[c] = "raised" /\ Raise(c)
     \/ outcome[c] # "raised" /\ Goto(c, "post") /\ UNCHANGED <<in, spare, tool, outcome, metered>>
  /\ UNCHANGED <<settingVars, lines, startVars>>

\* AuditGuard.__exit__: one RESULT however the block ended; write_result does
\* not tell that it could not write.
Close(c) ==
  /\ pc[c] = "close"
  /\ \E written \in BOOLEAN : /\ open' = [open EXCEPT ![c] = ~written]
                              /\ excused' = [excused EXCEPT ![c] = ~written]
  /\ \/ outcome[c] = "raised" /\ Raise(c)
     \/ outcome[c] # "raised" /\ Goto(c, "post") /\ UNCHANGED <<in, spare, tool, outcome, metered>>
  /\ UNCHANGED <<settingVars, lines, startVars>>

\* the usage of the call, then the result or the RuntimeError of a failed one
LogUsage(c) ==
  /\ pc[c] = "post"
  /\ Log(1)
  /\ \/ outcome[c] = "failed" /\ Raise(c)
     \/ outcome[c] = "ok" /\ Rest(c)
  /\ UNCHANGED <<settingVars, auditVars, startVars>>

-----------------------------------------------------------------------------
\* The caller's process is killed.  Whether its CLI outlives it is not followed.
Die(c) ==
  /\ pc[c] # "idle"
  /\ Rest(c)
  /\ excused' = [excused EXCEPT ![c] = open[c] \/ @]
  /\ UNCHANGED <<settingVars, lines, open, startVars>>

\* the operator sets one or several of the switches
Operator ==
  /\ \E off, run, role \in BOOLEAN :
       hardOff' = off /\ scheduler' = run /\ daemonRole' = role
  /\ forbidden' = [c \in Callers |->
                     IF ~hardOff' /\ (c \in Manual \/ scheduler') THEN 0 ELSE forbidden[c]]
  /\ UNCHANGED <<lines, controlVars, auditVars, late>>

\* lines leave the 24 hours, or the log is rotated away at 50 MB
Forget ==
  /\ \E n \in 0..Cap : n < lines /\ lines' = n
  /\ late' = [c \in Callers |-> 0]
  /\ UNCHANGED <<settingVars, controlVars, auditVars, forbidden>>

Proceed(c) ==
  \/ CheckPolicy(c) \/ WithinBudget(c) \/ BudgetCheckFails(c) \/ OverBudget(c)
  \/ WriteAttempt(c) \/ AttemptFails(c) \/ Launch(c) \/ LaunchFails(c)
  \/ StartCall(c) \/ TimeOut(c) \/ Close(c) \/ LogUsage(c)

Next ==
  \/ Operator \/ Forget
  \/ \E c \in Callers : Begin(c) \/ Proceed(c) \/ CallEnds(c) \/ Die(c)

Spec == Init /\ [][Next]_vars

\* Nothing in these steps waits for another caller, and each subprocess has a
\* timeout; a CLI need not answer before it.
LiveSpec == Spec /\ \A c \in Callers : WF_vars(Proceed(c))

-----------------------------------------------------------------------------
Guarded(c) == pc[c] \in {"launch", "start", "call", "close"}

\* No subprocess runs that the audit log does not show as attempted and not yet
\* answered, with the log failing at any write (rule of provider_audit_guard.py).
CallsAreAudited == \A c \in Callers : Guarded(c) => open[c]

\* An ATTEMPT without a RESULT is a call under way, unless its process died or
\* the RESULT could not be written: no exception path forgets it.
AttemptsAnswered == \A c \in Callers : open[c] => Guarded(c) \/ excused[c]

\* From the moment the operator forbids it, whether by hard-off or by stopping
\* the scheduler, a caller starts one more call at most: the one it had been
\* allowed.  The fallbacks ask again.
OneCallAfterForbidden == \A c \in Callers : forbidden[c] <= 1

\* From the moment the usage log holds the cap, a caller starts the two calls of
\* one _execute_task at most, though nobody looks at the cap between them and
\* several callers look at the log at once.
TwoCallsPastCap == \A c \in Callers : late[c] <= 2

\* An execution inside the guard leaves it: no CLI holds its caller for ever.
GuardEnds == \A c \in Callers : Guarded(c) ~> ~Guarded(c)

\* Once hard-off stays on, external calls cease, those under way included.
HardOffQuiesces == <>[]hardOff => <>[](\A c \in Callers : pc[c] # "call")
=============================================================================
