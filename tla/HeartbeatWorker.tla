-------------------------- MODULE HeartbeatWorker ---------------------------
(***************************************************************************)
(* The heartbeat background worker: shb_heartbeat_main of                  *)
(* src/src/heartbeat.c, shb_log_heartbeat of src/src/logger.c, and the     *)
(* postmaster that starts, signals and restarts it under the terms of      *)
(* shb_register_bgworker.  A signal handler may run between any two steps. *)
(***************************************************************************)
EXTENDS Naturals

CONSTANTS
  Intervals,    \* heartbeat_interval_seconds to start from; 0 is off
  MaxSignals,   \* bound: SIGHUPs and SIGTERMs
  MaxFailures   \* bound: errors that end the worker

ASSUME IntervalsAssumption == Intervals \subseteq Nat
ASSUME BoundsAssumption == MaxSignals \in Nat /\ MaxFailures \in Nat

VARIABLES
  interval,   \* PGC_POSTMASTER: settled when the server starts
  pm,         \* the postmaster: up, stopping, dead
  pc,         \* the worker; exited is exit code 0, failed is exit code 1
  latch,      \* MyLatch
  shutdown,   \* ShutdownRequestPending
  reload,     \* ConfigReloadPending
  signals, failures,
  \* History
  unread      \* a SIGHUP came since the worker last read the configuration

flags == <<latch, shutdown, reload>>
vars == <<interval, pm, pc, flags, signals, failures, unread>>

Running == pc \notin {"exited", "failed"}

Init ==
  /\ interval \in Intervals
  /\ pm = "up" /\ pc = "test"
  /\ latch = FALSE /\ shutdown = FALSE /\ reload = FALSE
  /\ signals = 0 /\ failures = 0
  /\ unread = FALSE

-----------------------------------------------------------------------------
(* The loop of shb_heartbeat_main. *)

\* The loop ends on a reload request as well.
TestShutdown_AnyRequest ==
  /\ pc = "test"
  /\ pc' = IF shutdown \/ reload THEN "exited" ELSE "beat"
  /\ UNCHANGED <<interval, pm, flags, signals, failures, unread>>

\* while (!ShutdownRequestPending); past it, proc_exit(0).
TestShutdown ==
  /\ pc = "test"
  /\ pc' = IF shutdown THEN "exited" ELSE "beat"
  /\ UNCHANGED <<interval, pm, flags, signals, failures, unread>>

\* The latch is reset before the wait and not behind it.
Beat_ResetLatch ==
  /\ pc = "beat"
  /\ pc' = "wait" /\ latch' = FALSE
  /\ UNCHANGED <<interval, pm, shutdown, reload, signals, failures, unread>>

\* shb_log_heartbeat, if there is an interval.
Beat ==
  /\ pc = "beat"
  /\ pc' = "wait"
  /\ UNCHANGED <<interval, pm, flags, signals, failures, unread>>

\* An error outside the logger's PG_TRY (its memory context cannot be made)
\* ends the worker with exit code 1.
BeatFails ==
  /\ pc = "beat" /\ interval > 0
  /\ failures < MaxFailures
  /\ failures' = failures + 1
  /\ pc' = "failed"
  /\ UNCHANGED <<interval, pm, flags, signals, unread>>

\* WaitLatch returns for one of its reasons; the death of the postmaster is
\* not reported while the latch is set.
WakeUp ==
  /\ pc = "wait" /\ latch
  /\ pc' = "reset"
  /\ UNCHANGED <<interval, pm, flags, signals, failures, unread>>

\* WL_TIMEOUT is not among the reasons to wake up.
TimeOut_Never == FALSE /\ UNCHANGED vars

TimeOut ==
  /\ pc = "wait" /\ ~latch /\ pm # "dead" /\ interval > 0
  /\ pc' = "reset"
  /\ UNCHANGED <<interval, pm, flags, signals, failures, unread>>

\* WL_POSTMASTER_DEATH: proc_exit(1).
PostmasterGone ==
  /\ pc = "wait" /\ ~latch /\ pm = "dead"
  /\ pc' = "failed"
  /\ UNCHANGED <<interval, pm, flags, signals, failures, unread>>

ResetLatch ==
  /\ pc = "reset"
  /\ pc' = "reload" /\ latch' = FALSE
  /\ UNCHANGED <<interval, pm, shutdown, reload, signals, failures, unread>>

\* ConfigReloadPending is cleared before ProcessConfigFile.
TestReload ==
  /\ pc = "reload"
  /\ IF reload THEN pc' = "read" /\ reload' = FALSE
     ELSE pc' = "test" /\ UNCHANGED reload
  /\ UNCHANGED <<interval, pm, latch, shutdown, signals, failures, unread>>

\* ProcessConfigFile reads the files, and then applies what it has read.
ReadConfig ==
  /\ pc = "read"
  /\ pc' = "apply" /\ unread' = FALSE
  /\ UNCHANGED <<interval, pm, flags, signals, failures>>

\* ConfigReloadPending is cleared behind ProcessConfigFile.
ApplyConfig_ClearLate ==
  /\ pc = "apply"
  /\ pc' = "test" /\ reload' = FALSE
  /\ UNCHANGED <<interval, pm, latch, shutdown, signals, failures, unread>>

ApplyConfig ==
  /\ pc = "apply"
  /\ pc' = "test"
  /\ UNCHANGED <<interval, pm, flags, signals, failures, unread>>

Worker ==
  \/ TestShutdown \/ Beat \/ WakeUp \/ TimeOut \/ PostmasterGone
  \/ ResetLatch \/ TestReload \/ ReadConfig \/ ApplyConfig

-----------------------------------------------------------------------------
(* Signals and the postmaster (PostgreSQL). *)

\* SignalHandlerForConfigReload.
Sighup ==
  /\ Running /\ signals < MaxSignals
  /\ signals' = signals + 1
  /\ reload' = TRUE /\ latch' = TRUE /\ unread' = TRUE
  /\ UNCHANGED <<interval, pm, pc, shutdown, failures>>

\* SignalHandlerForShutdownRequest, not at the postmaster's request.
Sigterm ==
  /\ Running /\ signals < MaxSignals
  /\ signals' = signals + 1
  /\ shutdown' = TRUE /\ latch' = TRUE
  /\ UNCHANGED <<interval, pm, pc, reload, failures, unread>>

\* The server is shut down.
Stop ==
  /\ pm = "up"
  /\ pm' = "stopping"
  /\ IF Running THEN shutdown' = TRUE /\ latch' = TRUE
     ELSE UNCHANGED <<shutdown, latch>>
  /\ UNCHANGED <<interval, pc, reload, signals, failures, unread>>

Die ==
  /\ pm # "dead" /\ pm' = "dead"
  /\ UNCHANGED <<interval, pc, flags, signals, failures, unread>>

\* bgw_restart_time after an exit code other than 0; a worker that exits with
\* 0 is not started again.
Restart ==
  /\ pm = "up" /\ pc = "failed"
  /\ pc' = "test"
  /\ latch' = FALSE /\ shutdown' = FALSE /\ reload' = FALSE
  /\ unread' = FALSE
  /\ UNCHANGED <<interval, pm, signals, failures>>

Over == ~Running /\ UNCHANGED vars

Next ==
  \/ Worker \/ BeatFails
  \/ Sighup \/ Sigterm \/ Stop \/ Die \/ Restart \/ Over

Spec == Init /\ [][Next]_vars

\* The worker runs on, and the postmaster restarts what it has to.
FairSpec == Spec /\ WF_vars(Worker) /\ WF_vars(Restart)

-----------------------------------------------------------------------------
(* Properties. *)

TypeOK ==
  /\ interval \in Intervals
  /\ pm \in {"up", "stopping", "dead"}
  /\ pc \in {"test", "beat", "wait", "reset", "reload", "read", "apply",
             "exited", "failed"}
  /\ pc = "exited" => shutdown
  /\ latch \in BOOLEAN /\ shutdown \in BOOLEAN /\ reload \in BOOLEAN
  /\ signals \in 0..MaxSignals /\ failures \in 0..MaxFailures
  /\ unread \in BOOLEAN

\* No signal is slept through: while the worker waits, a request it has not
\* acted on keeps the latch set, so that a worker without a timeout wakes up
\* (heartbeat.c:39-71).
NoLostWakeup == pc = "wait" /\ (shutdown \/ reload) => latch

\* After every SIGHUP the configuration is read once more, also when the
\* signal comes while it is being read (heartbeat.c:66-70).
ReloadIsProcessed == unread ~> (~unread \/ ~Running)

\* As long as the server runs and nobody ends the worker, heartbeats go on,
\* through failures and configuration reloads (heartbeat.c:44-53, 98).
HeartbeatsGoOn ==
  <>[](pm = "up" /\ ~shutdown /\ interval > 0) => []<>(pc = "beat")
=============================================================================
