---------------------------- MODULE TrapBackend -----------------------------
(***************************************************************************)
(* A backend that reads honey values: honey_bun_out and honey_bun_send of  *)
(* src/src/honey_bun.c, and shb_log_event, do_log_event and                *)
(* shb_terminate_self_if_configured of src/src/logger.c, between the       *)
(* executor that calls them and the signals that reach the backend.  The   *)
(* file write is one step here; AlertLog takes it apart.                   *)
(***************************************************************************)
EXTENDS Naturals

CONSTANTS
  Configurations, \* server and session settings to start from
  Rows, Columns,  \* bound: rows of the statement, honey values in each
  MaxRequests     \* bound: cancel and terminate requests from elsewhere

\* MyBackendType, as far as shb_terminate_self_if_configured tells it apart;
\* the PGC_POSTMASTER settings; and whether the plan runs in parallel mode on
\* a server that refuses subtransactions there (PostgreSQL 14 to 16).
Configuration ==
  [kind : {"client", "walsender"}, enabled : BOOLEAN, stream : BOOLEAN,
   terminate : BOOLEAN, parallel : BOOLEAN]

ASSUME ConfigurationsAssumption == Configurations \subseteq Configuration
ASSUME BoundsAssumption ==
  Rows \in Nat \ {0} /\ Columns \in Nat \ {0} /\ MaxRequests \in Nat

VARIABLES
  conf,
  pc,         \* where the backend is
  row, col,   \* the value it is at
  level,      \* open subtransactions above the caller's
  owner,      \* CurrentResourceOwner: caller or sub
  context,    \* CurrentMemoryContext: caller, sub, or transaction
  saved,      \* oldcontext and oldowner
  die,        \* ProcDiePending
  cancel,     \* QueryCancelPending
  requests,
  outcome,    \* how the statement ended
  \* What came of the values
  stream,     \* in the server's log
  file,       \* in the alert file
  dropped,    \* write_line_locked gave up, or there is no file
  caught,     \* logging it ended in PG_CATCH
  sent,       \* rows that went to the client
  selfKill    \* the backend sent itself SIGTERM

restored == <<level, owner, context, saved>>
values == <<stream, file, dropped, caught, sent>>
signals == <<die, cancel, requests, selfKill>>
vars == <<conf, pc, row, col, restored, outcome, values, signals>>

Value == (1..Rows) \X (1..Columns)
value == <<row, col>>

Init ==
  /\ conf \in Configurations
  /\ pc = "fetch" /\ row = 0 /\ col = 1
  /\ level = 0 /\ owner = "caller" /\ context = "caller"
  /\ saved = [context |-> "caller", owner |-> "caller"]
  /\ die = FALSE /\ cancel = FALSE /\ requests = 0
  /\ outcome = "running"
  /\ stream = {} /\ file = {} /\ dropped = {} /\ caught = {} /\ sent = {}
  /\ selfKill = FALSE

-----------------------------------------------------------------------------
(* The executor and the main loop (PostgreSQL). *)

\* Before every row there is a CHECK_FOR_INTERRUPTS.
Fetch ==
  /\ pc = "fetch"
  /\ IF die THEN pc' = "dead" /\ UNCHANGED <<row, col, cancel, outcome>>
     ELSE IF cancel
     THEN pc' = "idle" /\ outcome' = "cancelled" /\ cancel' = FALSE
          /\ UNCHANGED <<row, col>>
     ELSE IF row < Rows
     THEN pc' = "enter" /\ row' = row + 1 /\ col' = 1
          /\ UNCHANGED <<cancel, outcome>>
     ELSE pc' = "idle" /\ outcome' = "completed" /\ UNCHANGED <<row, col, cancel>>
  /\ UNCHANGED <<conf, restored, values, die, requests, selfKill>>

\* Waiting for the next statement, the backend notices a SIGTERM.
IdleDies ==
  /\ pc = "idle" /\ die
  /\ pc' = "dead"
  /\ UNCHANGED <<conf, row, col, restored, outcome, values, signals>>

\* pg_cancel_backend, statement_timeout, pg_terminate_backend.
Request ==
  /\ pc \notin {"idle", "dead"} /\ requests < MaxRequests
  /\ requests' = requests + 1
  /\ \/ cancel' = TRUE /\ UNCHANGED die
     \/ die' = TRUE /\ UNCHANGED cancel
  /\ UNCHANGED <<conf, pc, row, col, restored, outcome, values, selfKill>>

-----------------------------------------------------------------------------
(* The output functions. *)

\* One event for a row is held to be enough.
Logs_FirstColumn == conf.enabled /\ col = 1

Logs == conf.enabled

\* The line is built in the caller's transaction.
Begin_NoSubtransaction == pc' = "build" /\ UNCHANGED <<level, owner, context, outcome>>

\* BeginInternalSubTransaction.  It stands before PG_TRY: what it raises, at
\* the latest for want of memory, and always in parallel mode, ends the
\* statement.
Begin ==
  \/ /\ ~conf.parallel
     /\ pc' = "build"
     /\ level' = level + 1 /\ owner' = "sub" /\ context' = "sub"
     /\ UNCHANGED outcome
  \/ /\ pc' = "idle" /\ outcome' = "error"
     /\ context' = "caller"
     /\ UNCHANGED <<level, owner>>

\* shb_log_event as far as PG_TRY.
LogEvent ==
  /\ pc = "enter"
  /\ IF Logs
     THEN saved' = [context |-> context, owner |-> owner] /\ Begin
     ELSE pc' = "terminate" /\ UNCHANGED <<restored, outcome>>
  /\ UNCHANGED <<conf, row, col, values, signals>>

\* Names are looked up, memory is allocated and the query is escaped; any of
\* it may raise.
BuildLine ==
  /\ pc = "build"
  /\ pc' \in {"report", "catch"}
  /\ UNCHANGED <<conf, row, col, restored, outcome, values, signals>>

\* ereport at alert_log_level.  When it has sent the message it checks for
\* interrupts: SIGTERM ends the backend, a cancel raises.
Report ==
  /\ pc = "report"
  /\ stream' = IF conf.stream THEN stream \cup {value} ELSE stream
  /\ IF conf.stream /\ die THEN pc' = "dead" /\ UNCHANGED cancel
     ELSE IF conf.stream /\ cancel THEN pc' = "catch" /\ cancel' = FALSE
     ELSE pc' = "file" /\ UNCHANGED cancel
  /\ UNCHANGED <<conf, row, col, restored, outcome,
                 file, dropped, caught, sent, die, requests, selfKill>>

\* write_line_locked neither raises nor looks at interrupts.
WriteLine ==
  /\ pc = "file"
  /\ pc' = "release"
  /\ \/ file' = file \cup {value} /\ UNCHANGED dropped
     \/ dropped' = dropped \cup {value} /\ UNCHANGED file
  /\ UNCHANGED <<conf, row, col, restored, outcome,
                 stream, caught, sent, signals>>

\* The end of the subtransaction, which leaves its parent's memory context
\* current; then oldowner is put back, and ctx is what the code makes current.
Restore(ctx) ==
  /\ level' = level - 1
  /\ owner' = saved.owner
  /\ context' = ctx

\* oldcontext is not put back after the release.
Release_KeepContext ==
  /\ pc = "release"
  /\ pc' = "terminate" /\ Restore("transaction")
  /\ UNCHANGED <<conf, row, col, saved, outcome, values, signals>>

\* The end of the PG_TRY block: release, and switch to oldcontext.
Release ==
  /\ pc = "release"
  /\ pc' = "terminate" /\ Restore(saved.context)
  /\ UNCHANGED <<conf, row, col, saved, outcome, values, signals>>

CatchAnd(next) ==
  /\ pc = "catch"
  /\ pc' = next /\ Restore("transaction")
  /\ caught' = caught \cup {value}
  /\ UNCHANGED <<conf, row, col, saved, outcome, stream, file, dropped, signals>>

\* The value is delivered, but the session is not terminated.
Catch_SkipTerminate == CatchAnd("fetch") /\ sent' = sent \cup {row}

\* PG_CATCH: switch to oldcontext, flush the error, and roll back.  The
\* rollback comes last: the parent's CurTransactionContext stays current.
Catch == CatchAnd("terminate") /\ UNCHANGED sent

\* After a value comes the next one of its row, and after the last one the
\* row goes to the client and the executor (printtup) puts back the memory
\* context it had.
NextValue ==
  IF col < Columns
  THEN pc' = "enter" /\ col' = col + 1 /\ UNCHANGED <<sent, context>>
  ELSE pc' = "fetch" /\ sent' = sent \cup {row} /\ context' = "caller"
       /\ UNCHANGED col

Kills == conf.enabled /\ conf.terminate /\ conf.kind = "client"

\* Only a session that has been read to the end is terminated.
KillsItself_LastRow == Kills /\ row = Rows

KillsItself == Kills

\* shb_terminate_self_if_configured; the output function returns the value.
Terminate ==
  /\ pc = "terminate"
  /\ die' = (die \/ KillsItself) /\ selfKill' = (selfKill \/ KillsItself)
  /\ NextValue
  /\ UNCHANGED <<conf, row, level, owner, saved, outcome, stream, file, dropped,
                 caught, cancel, requests>>

Over == (pc = "dead" \/ (pc = "idle" /\ ~die)) /\ UNCHANGED vars

Step ==
  \/ Fetch \/ IdleDies \/ LogEvent \/ BuildLine \/ Report \/ WriteLine
  \/ Release \/ Catch \/ Terminate

Next == Step \/ Request \/ Over

Spec == Init /\ [][Next]_vars

\* A backend keeps running.
FairSpec == Spec /\ WF_vars(Step)

-----------------------------------------------------------------------------
(* Properties. *)

TypeOK ==
  /\ conf \in Configuration
  /\ pc \in {"fetch", "enter", "build", "report", "file", "release", "catch",
             "terminate", "idle", "dead"}
  /\ row \in 0..Rows /\ col \in 1..Columns
  /\ level \in Nat /\ owner \in {"caller", "sub"}
  /\ context \in {"caller", "sub", "transaction"}
  /\ saved \in [context : {"caller", "transaction"}, owner : {"caller"}]
  /\ die \in BOOLEAN /\ cancel \in BOOLEAN
  /\ requests \in 0..MaxRequests
  /\ outcome \in {"running", "completed", "cancelled", "error"}
  /\ stream \cup file \cup dropped \cup caught \subseteq Value
  /\ sent \subseteq 1..Rows
  /\ selfKill \in BOOLEAN

Recorded(v) == v \in stream \cup file \cup dropped \cup caught

\* The caller's memory context is what it was, unless an error was swallowed
\* earlier in this row: the handler leaves the transaction's context current
\* until the row is over.
ContextKept ==
  \/ context = "caller"
  \/ /\ context = "transaction" /\ pc \in {"enter", "terminate"}
     /\ \E c \in 1..col : <<row, c>> \in caught

\* Whatever happened in the logger, the caller gets its transaction back as it
\* left it: no subtransaction is open, its own resource owner is current, and
\* its own memory context but for swallowed errors; and a statement that ends
\* in an error ends before anything of the value is logged, in front of PG_TRY
\* (logger.c:405-432).
CallerUndisturbed ==
  /\ pc \in {"fetch", "enter", "terminate", "idle"} =>
       level = 0 /\ owner = "caller" /\ ContextKept
  /\ outcome = "error" => ~Recorded(value)

\* "All errors inside the logger are caught and swallowed so a broken log path
\* cannot propagate as a SELECT error" (README.md:93-95).
NoErrorSurfaces == outcome # "error"

\* No row reaches the client with a honey value that left no trace: each is in
\* the stream or the file, or its logging failed; and the session is terminated
\* "after the alert is logged" (logger.c:144-147).
DeliveredIsRecorded ==
  conf.enabled =>
    /\ \A r \in sent : \A c \in 1..Columns : Recorded(<<r, c>>)
    /\ selfKill => Recorded(<<1, 1>>)

\* "the in-flight query is halted at the next CHECK_FOR_INTERRUPTS, limiting
\* bulk exfiltration" (logger.c:146-147): one row gets out, whatever fails and
\* whichever requests come.
AtMostOneRow == Kills => sent \subseteq {1}

\* A client session that reads a honey value does end, also when its event
\* could not be logged.
ReaderIsTerminated == (pc = "build" /\ Kills) ~> pc = "dead"
=============================================================================
