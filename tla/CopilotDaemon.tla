---------------------------- MODULE CopilotDaemon ----------------------------
(***************************************************************************)
(* orchestrator/copilot_daemon.py: one long-lived process that polls       *)
(* run_once.  A lock file holds the task being executed and the daemon's   *)
(* own pid, so that a daemon restarted after a crash can fail the task its *)
(* predecessor left RUNNING.                                               *)
(*                                                                         *)
(* The file's pid is abstracted to whether that process is alive: a crash  *)
(* makes it dead for good (the pid is assumed not to be reused by another  *)
(* process while the daemon is down).                                      *)
(***************************************************************************)
EXTENDS WorkerTick

VARIABLES
  dpc,       \* where the daemon is in run_once; "down" when not running
  dtask,     \* the task it picked, or that its lock file names
  dcall,     \* 1: the Copilot CLI runs, 2: the codex fallback
  dclock,    \* ticks that subprocess has run
  lock,      \* the task in the lock file, NoTask when there is no file
  lockAlive  \* _is_process_alive of the pid in the lock file

daemonVars == <<dpc, dtask, dcall, dclock, lock, lockAlive>>

DaemonPc == {"idle", "claim", "lock", "mark", "run", "fail", "clear",
             "finalize", "reap", "unlock", "down"}

DaemonTypeOK ==
  /\ dpc \in DaemonPc
  /\ dtask \in TaskId \cup {NoTask}
  /\ dcall \in 1..2
  /\ dclock \in 0..CallTimeout
  /\ lock \in TaskId \cup {NoTask}
  /\ lockAlive \in BOOLEAN

\* no lock file, or the file of an earlier daemon: both are modelled from
\* the first start on
DaemonInit ==
  /\ dpc = "down"
  /\ dtask = NoTask
  /\ dcall = 1
  /\ dclock = 0
  /\ lock = NoTask
  /\ lockAlive = FALSE

\* the daemon has written RUNNING and not yet an outcome
DaemonExecutes == dpc \in {"lock", "mark", "run", "fail"}

\* run_once is left: its locals are gone, the lock file is not
DaemonIdle == dpc' = "idle" /\ dtask' = NoTask /\ dcall' = 1 /\ dclock' = 0

DaemonGoTo(pc) == dpc' = pc /\ UNCHANGED <<dtask, dcall, dclock>>

lockVars == <<lock, lockAlive>>

-----------------------------------------------------------------------------
(* With no lock file.                                                      *)

DaemonTake ==
  /\ dpc = "idle"
  /\ lock = NoTask
  /\ provider = "copilot-daemon"
  /\ Allowed(FALSE)
  /\ \E t \in TaskId : IsOldestQueued(t) /\ dtask' = t
  /\ dpc' = "claim"
  /\ UNCHANGED <<storeVars, dcall, dclock, lockVars>>

DaemonClaim ==
  /\ dpc = "claim"
  /\ UpdateTask(dtask, "RUNNING")
  /\ DaemonGoTo("lock")
  /\ UNCHANGED <<settingVars, faults, lockVars>>

DaemonWriteLock ==
  /\ dpc = "lock"
  /\ lock' = dtask
  /\ lockAlive' = TRUE
  /\ DaemonGoTo("mark")
  /\ UNCHANGED storeVars

\* set_active_background_runner(True), a db write outside the try
DaemonMark ==
  /\ dpc = "mark"
  /\ DaemonGoTo("run")
  /\ UNCHANGED <<storeVars, lockVars>>

\* the Copilot CLI failed or is not installed: codex, with a timeout anew
DaemonFallback ==
  /\ dpc = "run"
  /\ dcall = 1
  /\ dcall' = 2
  /\ dclock' = 0
  /\ UNCHANGED <<storeVars, dpc, dtask, lockVars>>

\* Mutant: the lock is only cleared when the task failed.
DaemonCompleteKeepsLock ==
  /\ dpc = "run"
  /\ UpdateTask(dtask, "COMPLETED")
  /\ DaemonIdle
  /\ UNCHANGED <<settingVars, faults, lockVars>>

DaemonComplete ==
  /\ dpc = "run"
  /\ UpdateTask(dtask, "COMPLETED")
  /\ DaemonGoTo("clear")
  /\ UNCHANGED <<settingVars, faults, lockVars>>

\* timeout, policy block, both CLIs failed, or the write of COMPLETED did
DaemonRaise ==
  /\ dpc = "run"
  /\ DaemonGoTo("fail")
  /\ UNCHANGED <<storeVars, lockVars>>

DaemonFail(s) ==
  /\ dpc = "fail"
  /\ s \in {"FAILED", "FAILED_RATE_LIMIT"}
  /\ UpdateTask(dtask, s)
  /\ DaemonGoTo("clear")
  /\ UNCHANGED <<settingVars, faults, lockVars>>

\* finally: set_active_background_runner(False), then _clear_lock
DaemonClear ==
  /\ dpc = "clear"
  /\ lock' = NoTask
  /\ lockAlive' = FALSE
  /\ DaemonIdle
  /\ UNCHANGED storeVars

-----------------------------------------------------------------------------
(* With the lock file of a dead process: _finalize.  A live pid is "busy"  *)
(* and changes nothing.                                                    *)

DaemonFinalize ==
  /\ dpc = "idle"
  /\ lock # NoTask
  /\ ~lockAlive
  /\ dtask' = lock
  /\ dpc' = "finalize"
  /\ UNCHANGED <<storeVars, dcall, dclock, lockVars>>

\* Mutant: the task is failed whatever became of it.
DaemonFinalizeBlind ==
  /\ dpc = "finalize"
  /\ DaemonGoTo("reap")
  /\ UNCHANGED <<storeVars, lockVars>>

DaemonFinalizeRead ==
  /\ dpc = "finalize"
  /\ DaemonGoTo(IF status[dtask] = "RUNNING" THEN "reap" ELSE "unlock")
  /\ UNCHANGED <<storeVars, lockVars>>

DaemonReap ==
  /\ dpc = "reap"
  /\ UpdateTask(dtask, "FAILED")
  /\ DaemonGoTo("unlock")
  /\ UNCHANGED <<settingVars, faults, lockVars>>

\* Mutant: _finalize without its _clear_lock.
DaemonUnlockForgotten ==
  /\ dpc = "unlock"
  /\ DaemonIdle
  /\ UNCHANGED <<storeVars, lockVars>>

DaemonUnlock ==
  /\ dpc = "unlock"
  /\ lock' = NoTask
  /\ lockAlive' = FALSE
  /\ DaemonIdle
  /\ UNCHANGED storeVars

-----------------------------------------------------------------------------
(* Faults.  serve_forever catches whatever run_once raises and polls       *)
(* again; only the writes inside the try are followed by _clear_lock.      *)

\* the claim, or a db call of _finalize, raised: no lock was written, or the
\* lock stays and _finalize is retried
DaemonCallError ==
  /\ dpc \in {"claim", "finalize", "reap"}
  /\ DbFault
  /\ DaemonIdle
  /\ UNCHANGED <<rowVars, settingVars, lockVars>>

\* set_active_background_runner(True) raised: the lock holds a live pid
DaemonMarkError ==
  /\ dpc = "mark"
  /\ DbFault
  /\ Abandon(dtask)
  /\ DaemonIdle
  /\ UNCHANGED <<settingVars, lockVars>>

\* the write of the failure raised: finally still runs
DaemonFailError ==
  /\ dpc = "fail"
  /\ DbFault
  /\ Abandon(dtask)
  /\ DaemonGoTo("clear")
  /\ UNCHANGED <<settingVars, lockVars>>

\* set_active_background_runner(False) raised: _clear_lock is not reached
DaemonClearError ==
  /\ dpc = "clear"
  /\ DbFault
  /\ DaemonIdle
  /\ UNCHANGED <<rowVars, settingVars, lockVars>>

DaemonCrash ==
  /\ dpc # "down"
  /\ Fault
  /\ IF DaemonExecutes THEN Abandon(dtask) ELSE UNCHANGED rowVars
  /\ lockAlive' = FALSE
  /\ dpc' = "down" /\ dtask' = NoTask /\ dcall' = 1 /\ dclock' = 0
  /\ UNCHANGED <<settingVars, lock>>

\* launchd starts it (again)
DaemonStart ==
  /\ dpc = "down"
  /\ DaemonIdle
  /\ UNCHANGED <<storeVars, lockVars>>

-----------------------------------------------------------------------------
DaemonProgress ==
  \/ DaemonTake \/ DaemonClaim \/ DaemonWriteLock \/ DaemonMark
  \/ DaemonFallback \/ DaemonComplete \/ DaemonRaise
  \/ \E s \in Status : DaemonFail(s)
  \/ DaemonClear
  \/ DaemonFinalize \/ DaemonFinalizeRead \/ DaemonReap \/ DaemonUnlock
  \/ DaemonStart

DaemonStep ==
  \/ DaemonProgress
  \/ DaemonCallError \/ DaemonMarkError \/ DaemonFailError \/ DaemonClearError
  \/ DaemonCrash

DaemonMayWait ==
  \/ dpc \in {"idle", "down"}
  \/ dpc = "run" /\ dclock < CallTimeout

DaemonClock == dclock' = IF dpc = "run" THEN dclock + 1 ELSE dclock
=============================================================================
