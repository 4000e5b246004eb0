# StickyHoneyBun in TLA+

StickyHoneyBun is a PostgreSQL extension with a type, `honey_bun`, whose output
functions raise an alarm when a value of the type is read. Around it are a
heartbeat worker, an alert monitor, a variant for RDS without C code, and a
harness that tests the RDS variant against real AWS. This directory holds TLA+
models of the parts that have state over time, TLC runs over small instances,
and proofs of the safety properties of every part that is modelled.

Line numbers refer to the files of the repository (`src/` is its root here, so
`src/src/logger.c` is its `src/logger.c`).

## 1. The system

| Component | State it keeps | Operations | What is hard about it |
|---|---|---|---|
| Alert-file write path, `src/logger.c` | the file, its flock, a descriptor and a position per writer | open, flock, a loop of writes, close | many processes append to one file; short writes, failures, deaths, rotation underneath |
| logrotate, `tools/sticky_honey_bun.logrotate` | which inode the path names, which files are compressed | rename, create, compress one rotation later | writers and the monitor have the old inode open |
| Trap path in a backend, `src/honey_bun.c`, `src/logger.c` | subtransaction level, resource owner, memory context, pending interrupts | an output function per value: begin, build, report, file, end, terminate | errors must not reach the statement; cancels and SIGTERM come at any step |
| Heartbeat worker, `src/heartbeat.c` | latch, two request flags, exit code | one round: test, beat, wait, reset, reload | signal handlers between any two steps; restart policy of the postmaster |
| Alert monitor: tail, `tools/alert_monitor.py:96-121` | an open file and a position | exists, open and seek, readline, stat | reads without the lock, over rotations and restarts |
| Alert monitor: deadman, `:206-292` | last heartbeat, alarm raised | heartbeat lines, idle ticks | several sources, responses that take time, lines passed over around a rotation, restarts |
| Alert monitor: response, `:41-88, 133-203, 265-289` | none of its own (roles and sessions of the server) | suppress, webhook, NOLOGIN, terminate | two statements that are committed one by one, against sessions that log in and read meanwhile; no timeouts |
| Heartbeat poker, `tools/heartbeat_poker.sh` | none | reads a honey value on each target, sleeps | a target that hangs |
| RDS output function, `rds/sticky_honey_bun_rds.sql` | config table (owner), snapshot (statement) | RAISE, `aws_lambda.invoke` | settings that change under statements; two sinks that fail |
| Lambda handler, `lambda/handler.py` | none | log, publish | at-least-once invocation, retries |
| Online harness, `rds/online/*.py`, `run.pl` | AWS resources and what is in them, state file, role passwords | preflight, setup, reinstallation, prove, END, teardown, list_orphans | interruptions between an AWS call and the record of it; eventual consistency; deletions in order that take minutes; a session that expires |
| `rds/online/poll_alert.py` | a window, a deadline, a page token | wait for a needle, count a needle | alerts that are delivered and ingested late and in no order, again, or never; pages and limits |
| Type I/O checks, settings, path resolution | none, or fixed at server start | ACL check, conversions | sequential |
| SQL of the extension, alias types, registry | catalog | DDL, run once by the owner | none |
| Build, containers, tests, docs | none | no part of the running system | none |

How they interact. Backends and the worker share only the file system: the
alert file, through the kernel's append and flock. logrotate moves that file.
The monitor reads the same file without taking the lock, learns of a rotation
by comparing inodes, and takes heartbeats and alerts from one stream of lines.
The postmaster starts, signals and restarts the worker; anybody may cancel or
terminate a backend, and a backend may send SIGTERM to itself. The poker reads
honey values like any client, so its heartbeats take the trap path. The RDS
function shares its config table with the owner and hands events to AWS, which
runs the handler one or more times; the handler's log is what `poll_alert.py`
searches. The monitor's response works on the primary through connections of
its own, whose sessions are subject to it like any others. In the harness, one program at a time works
on AWS and on the state file, but any of them may stop at any point.

What makes each part correct:

- *Write path*: lines are never interleaved; a gap is explained by a failure;
  nothing is written twice; the server log has what the file has; nobody gets
  stuck; each event is decided once (`AtomicLog`).
- *Rotation*: a compressed file is complete.
- *Tail*: each event handled at most once and in order; nothing passed over in
  silence; after a rotation the current file is followed.
- *Deadman*: an alarm is true but for heartbeats that the tail passes over, comes
  once per silence, and does come, put off by responses only as long as they take.
- *Response*: a role that was answered is out and stays out; a session that read
  a trap does not stay; nobody loses a login undeservedly.
- *Trap path*: the caller's transaction is undisturbed, delivered values are
  recorded, an offender gets one row at most and is terminated.
- *Worker*: no signal is slept through; heartbeats go on.
- *RDS*: one event, one configuration; SNS has nothing that the log has not;
  what AWS accepted is logged, or was tried as often as AWS tries.
- *Harness*: resources do not outlive their state file; one run at a time; tests
  start on a complete installation; everything is removed in the end.
- *poll_alert*: a sentinel is found if it can be searched in time; a count is
  exact, but for alerts that got lost or were logged again, once everything has
  arrived.

## 2. Modules

| Module | Models | Composed with |
|---|---|---|
| `AlertLog` | write path, server log copy, logrotate | |
| `AtomicLog` | what the write path promises: an event is committed whole, or dropped, in one step | refined by `AlertLog` (`ImplementsAtomicLog`) |
| `AlertMonitor` | `tail_lines` and the parsing in `main`, over an environment `path`, `content` | |
| `LogPipeline` | the alert file from both ends | extends `AlertLog`, instantiates `AlertMonitor` |
| `AlertFileProofs` | theorems about `AlertLog` and `LogPipeline` | extends `LogPipeline` |
| `Deadman` | `check_deadman` and the loop of `main` against time; the worker and the poker as sources | |
| `DeadmanProofs` | theorems about `Deadman` | extends it |
| `Response` | `is_heartbeat`, the suppression rules, `respond`, `revoke_and_terminate`, against sessions of the primary | takes lines in the order in which `AlertMonitor` yields them |
| `ResponseProofs` | theorems about `Response` | extends it |
| `TrapBackend` | a statement that reads honey values | the file write is one step; `AlertLog` takes it apart |
| `TrapBackendProofs` | theorems about `TrapBackend` | extends it |
| `HeartbeatWorker` | the worker's loop, its signals, the postmaster | its heartbeats are a source of `Deadman` |
| `HeartbeatWorkerProofs` | theorems about `HeartbeatWorker` | extends it |
| `RdsTrap` | `honey_bun_out_rds`, its config table, AWS, `lambda_handler` | |
| `RdsTrapProofs` | theorems about `RdsTrap` | extends it |
| `PollAlert` | both modes of `poll_alert.py`, from the trap to CloudWatch and the count | its alerts are the accepted events of `RdsTrap` |
| `PollAlertProofs` | theorems about `PollAlert` | extends it |
| `OnlineHarness` | `run.pl`, `preflight.py`, `setup.py`, `teardown.py`, discovery, `list_orphans.py` | |
| `OnlineHarnessProofs` | theorems about `OnlineHarness` | extends it |
| `MCAlertLog`, `MCDeadman`, `MCResponse`, `MCRdsTrap`, `MCTrapBackend` | sets that the configurations of these modules use | |

Conventions. A definition `X_Something` is `X` with a plausible bug in it. No
specification uses it; replacing `X` by it breaks the property that
`PROJECT.json` names, which shows that the property has teeth. Names follow the
code where TLA+ allows it. `None` is the absence of an inode, a process or a
time.

### AlertLog

A line is a sequence of `Parts` parts, the last being the newline. `content[i]`
is what inode `i` holds, `path` the inode that the alert path names, `lock[i]`
the holder of the flock on it. A writer goes through `pc` = report (the
`ereport` at 379), open (304), lock (309), write (316-325), close (327).
`Write` is one call of `write`: it appends all remaining parts, or fewer.
`rename` and `create` of logrotate are steps of their own, so a writer may open
before, between or behind them; `RotateStart` also compresses the file that was
rotated before (`delaycompress`). It is enabled when no writer has the
previous rotated file open (`Settled`): rotations are a day apart, and a writer
keeps a descriptor for milliseconds. `Faults` names what may go wrong: an error
while the line is built (`raise`), a cancel at `ereport` (`interrupt`), and
failing `open`, `flock` and `write`, a `short` write, a `crash`.

The history variable `broken` has the events whose line was begun and cut short
by a failure. `AtomicLog` is told which lines are intact by `IntactLines(i)`: for
each position of inode `i` at which an undamaged line ends, the event of that line.
So a line that moved, changed or went away would not be a step of `AtomicLog`.

### LogPipeline, AlertMonitor

`mon` is the position in `tail_lines`: check (99), open (103), read (110), stat
(115). `exists()` and `open()` are two steps, as are the last `readline` and
`stat`; logrotate may come between. `readline` returns what there is up to the
next newline or the end of the file, so it may return half a line; `IsEvent` is
`json.loads` succeeding on exactly one event. `Multibyte` lets half a line end
inside a character. A restart keeps nothing. `due` has the events begun while
the monitor had a file open.

### Deadman

Time advances in polls. In each unit the sources that are due write a heartbeat,
or fail to, and keep their rhythm. A line goes to the file at the path, which
logrotate renames (`Rename`) and creates again (`Create`). `mon` is where the
monitor is between two lines: read (`ReadHeartbeat`, `ReadAlert`, `OpenFile`, and
`IdleTick` with the check), respond (`respond` with its webhook and its
statements), post (the webhook of the alarm), stat and sleep. A response or a
webhook takes any number of units, or never ends: the webhook's timeout is five
polls and more (alert_monitor.py:147), and connection and statements have none
(174-187). `delay` counts the units they took since the last idle tick.

`fh` says whether the file that is open is the one at the path or one that was
renamed. `Stat` leaves a renamed file with what was written to it since the last
`readline`, and `OpenFile` starts behind what the new one has: `queue` has only
what the running monitor will read, and `skipped` the sources whose newest
heartbeat is not among it, nor was. Parts of lines and the gap between `exists()`
and `open()` are left to `AlertMonitor`.

### Response

Sessions log in (`Authenticate` checks `rolcanlogin`, `Appear` makes the session
visible in `pg_stat_activity`), read traps and heartbeat rows, and leave. Each
read puts a line into `queue`; `Pass` and `Respond` take them out, and `pc`
follows `revoke_and_terminate`: connect (174), nologin (177), terminate
(180-186), each committed by itself, since the connection is in autocommit. A
killed session ends some time later. `Faults` has a statement or a connection
that fails before or after it took effect, one that never returns (neither
psycopg2 call has a timeout), and a monitor that is killed and starts over at
the end of the file. `MonitorRole` is whom `primary_dsn` connects as: a response
to that role ends the monitor's own session and locks it out.

`Benign` has the sessions that the operator wrote a rule for; it is used only to
say which reads deserve an answer (`offence`, `owed`).

### PollAlert

A test trips up to `MaxTrips` traps and then its sentinel. An invocation may fail,
which the SQL function swallows (`Invoke`, sticky_honey_bun_rds.sql:255-260); the
handler runs some time after it (`Handle`), again if it fails behind its log line,
and AWS may give an alert up (`GiveUp`). `lost` and `repeats` count the traps this
happens to, `MaxFaults` bounds it. The log line can be searched some time later
(`Ingest`), in no order. `Search` and `Page` are the loop of `wait_mode`
around `filter_events`; `Count`, `CountSearch` and `Page` are `count_mode`. A page is
any part of what is left, also an empty one that is not the last. On any page
CloudWatch may say that there is no log group, which throws away what was found
(`NoLogGroup`; `denied` remembers that there was one), or fail (`Fails`), which ends
the program with the exit code of a miss. An event that
is ingested while a search runs may or may not be seen by it. `visible` is when the
sentinel could first be found, `settled` whether everything had arrived when the
count began.

### TrapBackend

A statement of `Rows` rows with `Columns` honey values each. Values go through
enter, build, report, file, release or catch, terminate. `die` and `cancel` are
`ProcDiePending` and `QueryCancelPending`; they take effect where PostgreSQL
checks for interrupts: before each row, and when `ereport` has sent its message
(only if the log level is not off). `conf.parallel` is a plan that runs in
parallel mode on a server that refuses subtransactions there; elsewhere, too,
`BeginInternalSubTransaction` may raise, in front of `PG_TRY` (`Begin`).

`level`, `owner` and `context` are the caller's state that `shb_log_event` saves
and puts back. The end of a subtransaction, by release or by rollback, makes the
memory context of the transaction current. The release is followed by a switch to
`oldcontext` (logger.c:421-422); `PG_CATCH` switches before the rollback
(427-429), so the transaction's context stays current until the executor is done
with the row (`NextValue`).

### HeartbeatWorker

The loop of `shb_heartbeat_main`, one call per step, with signals between any
two. Exit code 0 and exit code 1 are told apart, since the postmaster restarts
only the second. `interval` 0 is a worker without a timeout.

### RdsTrap

A statement's `snapshot` is taken when it starts: the function is IMMUTABLE, so
its queries do not take newer ones. An accepted invocation becomes a handler run in
`queue`; a run that fails to start or times out is tried again until
`MaxAttempts`. `settings` remembers what each event's statement saw. `env` is how the
Lambda function is set up: with a topic or without, and whether the payload has
all the fields that `SHB_REQUIRE_FIELDS` asks for.

### OnlineHarness

`aws` is the set of tagged resources, `file` what each state file records,
`role` the password of the roles in a run's database, `ready` which databases
have the extension with its configuration and which instances have the
Lambda-invoke role. `steps` is what setup.py has left to do: `main` and
`do_install_only` are sequences of steps (create, save, attach, install, roles,
record), so that a run may end between any two of them. `todo` has the kinds that
teardown.py still has to delete, each with its place in the order. An API call that fails
may have had its effect; `session` is the operator's AWS session, without which
every call fails. `Listing` is what a tag query shows; the ones that swallow a
`ClientError` may hide a resource (`blind` remembers it). `seen` is what
list_orphans.py printed last. An instance goes in three steps: it is told to
(`DeleteInstance`, which AWS refuses for one that has been told before), it
vanishes some time later (`Vanish`), and the waiter of teardown.py notices
(`Wait`), unless it runs into its cap or a poll fails. `doomed` has the instances in
between, and `leftover` remembers that the current teardown, or the current run of
run.pl, found one there when it began. On such an instance `Attach`, `Create` and
`Install` of a reused run may fail without a fault. Ctrl-C ends run.pl at once while it reads from a
pipe (preflight, setup), and is ignored by it inside `system()` (teardown).

## 3. Runs

| Run | Question | Bounds |
|---|---|---|
| `AlertLog_faults` | Do lines stay whole, unique and reported, and does everybody get out of the write path, under all faults and rotations? | 2 writers with an event each, lines of 3 parts, 3 inodes |
| `LogPipeline_rotate` | Does the monitor take each line at most once, in order, and follow the file? Is every event decided at one step? | 2 writers, lines of 3 parts, 2 inodes (one rotation), 1 restart of the monitor, short writes, cuts inside a character |
| `Deadman_alarms` | Does every silence give one true alarm, in time? | 2 sources, interval 1, maximum age 1, 5 units of time, 1 alert, 1 rotation, 1 restart |
| `Response_sessions` | Who is locked out, who stays out, does a reader get cut off? | 3 roles (one is the monitor's), 4 sessions of which one is covered by a rule, 2 reads, 1 fault, 1 reinstatement, every setting |
| `TrapBackend_sessions` | What is recorded and delivered, what does the caller get back, and who dies, whatever is requested of the backend and fails in it? | every configuration, 2 rows of 2 values, 2 requests |
| `HeartbeatWorker_signals` | Are signals acted on wherever they come? Do heartbeats go on? | with and without an interval, 3 signals, 2 failures |
| `RdsTrap_sinks` | Does an event go where its statement's settings say, whatever fails? | 2 reads, every initial configuration, 4 environments, 1 update, 2 attempts, all faults |
| `OnlineHarness_faults` | Is everything removed in the end, does the state file last as long as it is needed, and is the installation complete? | 2 run_ids, 3 invocations, 2 faults |
| `PollAlert_counts` | Is the sentinel found in time, and is the count right? | 2 traps and the sentinel, 1 fault, 5 units of time, window 2, timeout 2, count window 2, limits 1 and 2, pages of 2 |
| `LogPipeline_rotation_loss` | violation of `NewLinesAreHandled` | 1 rotation |
| `TrapBackend_parallel` | violation of `NoErrorSurfaces` | parallel mode |
| `OnlineHarness_reinstall` | violation of `ReinstallCompletes` | 1 run_id, 2 invocations, 1 fault |

Why the bounds are enough.

- *AlertLog.* Interleaving needs two writers on one inode, a resumed write
  needs a middle part, and an incomplete archive needs two rotations and hence
  three inodes. More writers, events and parts are covered by the proofs for
  all properties but `EventFinishes`, which speaks of one event.
- *LogPipeline.* A line of three parts (a head, the end of the JSON body, the
  newline) can be read half in two ways: cut in the body, which is malformed and so
  is the rest, or in front of the newline, which passes for the event. One
  rotation has all positions of the monitor against all of
  logrotate and of two writers. A second one starts from the same situation,
  one file on. Types, `HandledOnceInOrder` and the refinement are proved for all
  bounds.
- *Deadman.* Five units hold a silence that is longer than the maximum age and
  one poll, a recovery, and a second silence. One alert puts a check off by any
  number of units; one rotation has all positions of the monitor. The two sources
  are interchangeable (symmetry). All its properties are proved for all bounds.
- *Response.* Two sessions of one role, of which a rule covers one, have the
  response that hits both; the monitor's role and a third make it indifferent to
  other roles. Two reads are a first answer and a second one after the fault or
  the reinstatement. The three safety properties are proved for all bounds.
- *PollAlert.* Two lines fill the limit of the count and a page at once, and a
  repetition exceeds them; one fault makes the count short or long; five units of time are a wait that ends at its deadline and
  a sentinel that is logged before the window of the count. Limits and windows are
  scaled down. Waiting and counting look back equally far, as they do by default
  (300 seconds), so that a sentinel may also be too old for the wait. Both
  properties are proved for all bounds.
- *TrapBackend.* Two rows and two columns distinguish first from later values,
  both within a row and between rows. Two requests allow a cancel and a
  termination. The safety properties are proved for all bounds.
- *HeartbeatWorker.* Three signals allow one to arrive while another is handled
  and a third behind it.
- *RdsTrap.* Two reads put two events in AWS's hands at once, and the update can
  fall into either. Sessions share nothing but the config table, which no session
  writes, and the queue, whose runs do not look at one another; so one session
  suffices. The proof of `EachSinkAsConfigured` is for any number of sessions.
- *OnlineHarness.* Two run_ids are needed for leftovers of another run, three
  invocations for a fresh, a reused and a refused one, two faults for an
  interrupted teardown of an interrupted setup, or a failure of a setup and an
  expired session; one fault in the waiter leaves an instance in mid-deletion to a
  second teardown or a reused run. The invariants are proved for all bounds.

`CHECK_DEADLOCK` is on in the runs of modules that say in a disjunct of `Next`
(`Done`, `Over`) where a system may rest, and of `OnlineHarness`, where an operator may always run
teardown again. It is off in `Response_sessions` (all sessions may have read what they
read and be locked out), in `PollAlert_counts` (the test is over) and in
`Deadman_alarms` (the clock has reached its bound).

Fairness.

- *Writers* (`AlertLog!FairSpec`, `FairPipelineSpec`): a process that has begun an event keeps running (weak
  fairness), and flock is granted in turn to those who wait (strong fairness of
  `Lock`), as the kernel's queue of waiters does. No event, crash or
  rotation has to begin; a rotation that has begun is completed.
- *Monitor*: its loop runs (weak fairness of `Step`); it never waits for a
  writer.
- *Response*: the monitor's loop runs (weak fairness of `Monitor`), up to a call
  that hangs. Nothing is assumed of the sessions.
- *Deadman, PollAlert*: none; time is part of the state, and what has to
  happen is stated with a deadline.
- *TrapBackend, HeartbeatWorker, RdsTrap*: a process that can go on does. The
  postmaster restarts a failed worker after `bgw_restart_time`; AWS runs what
  it has accepted.
- *OnlineHarness*: programs run to their end or to a fault (weak fairness of
  `Harness` and `Teardown`), and AWS finishes a deletion (`Vanishing`). For `EverythingIsRemoved` the operator logs in
  again when the session is over, looks for orphans over and over, and runs
  teardown for each run_id that was shown; strong fairness, since other programs
  may be running in between. This is what rds/online/README.md and preflight's
  refusal (preflight.py:225-228) tell the operator to do. Faults are bounded, so
  that in the end a teardown is undisturbed.

Properties and what they rest on. `NothingPassedOver` excuses an event when the
monitor has died, was restarted, or a rotation has begun; what is lost around a
rotation is the subject of `NewLinesAreHandled`. `FollowsPath` excuses a dead
monitor. `SilenceIsNoticed` allows for the time that webhook and database have
taken since the last idle tick: that time has no bound, and no alarm is promised
while a response hangs. `AlarmIsTrue` excepts sources whose newest heartbeat the
running monitor never reads, because it was written around a rotation or before it
opened the file: about such a source an alarm may be false (section 5). Both are
about times at which lines are in the file: a heartbeat reaches it in the unit it is due,
or not at all.
`ReadersAreCutOff` excuses reads of the monitor's own role, a monitor that is not
armed or hangs, and a reader who was in before a fault; a reader who reads
again after it is not excused. `AnsweredRolesAreOut` is about responses that
were not disturbed, and names the sessions it does not reach: those that had
passed their login check and were not listed yet. `CountIsExact` counts lines, not trips: it is off by
the alerts that got lost and those that were logged again, which a caller cannot
see. It assumes that nothing is under way when the count begins, which the wait for a sentinel does
not ensure (section 5), that no alert lies before the window, that the
lines do not exceed the limit, and that CloudWatch has not denied a log group that
is there; `FoundInTime` assumes the last as well, says nothing of a search that
fails, and leaves the last poll before the
deadline out, and a sentinel that was logged longer before the wait began than
the wait looks back. `FileOutlivesResources` and `OneRunAtATime` hold for runs in which
listings show what there is (`blind`); `EverythingIsRemoved` holds for the
others too. `ErrorsOnlyFromFaults` excepts a teardown that starts with an instance in
mid-deletion, and `InstalledWhenProved` a run that is reused with one (`leftover`).
`InstalledWhenProved` also says nothing of the primary's Lambda-invoke
role, and of passwords: these are the subject of `ReinstallCompletes`.
`CallerUndisturbed` allows an error in front of `PG_TRY`, before anything is
logged; that there are such errors is the subject of `NoErrorSurfaces`. It allows the
memory context of the transaction between a swallowed error and the end of the row
(section 5). `DeliveredIsRecorded` counts a value whose logging failed as recorded: it
went through the logger, although nobody can see it. `AcceptedIsLogged` leaves out payloads that lack a required
field: the handler answers these with a status that AWS does not take for a
failure. It counts heartbeat reads like others: the handler would not log them as
alerts, but does not recognise them (section 5).

## 4. Proofs

For every value of the constants that satisfies the modules' assumptions:

| Module | Theorem | Property |
|---|---|---|
| `AlertFileProofs` | `TypeCorrect` | `TypeOK` of `AlertLog` |
| | `LinesNeverInterleave` | `NoInterleaving` |
| | `FragmentsOnlyFromFailures` | `FragmentsExplained` |
| | `CompressedCopiesComplete` | `ArchiveComplete` |
| | `NoPartTwice` | `AtMostOnce` |
| | `ServerLogFirst` | `StreamFirst` |
| | `WritePathIsAtomic` | `ImplementsAtomicLog`, of `AlertLog!Spec` |
| | `PipelineIsAtomic` | `ImplementsAtomicLog`, of `PipelineSpec` |
| | `PipelineTypeCorrect` | `PipelineTypeOK` |
| | `ActsOnceInOrder` | `HandledOnceInOrder` |
| `DeadmanProofs` | `TypeCorrect` | `TypeOK` |
| | `AlarmsAreTrue` | `AlarmIsTrue` |
| | `SilencesAreTold` | `OneAlarmPerSilence` |
| | `SilencesAreNoticed` | `SilenceIsNoticed` |
| `ResponseProofs` | `TypeCorrect` | `TypeOK` |
| | `RolesStayOut` | `AnsweredRolesAreOut` |
| | `LoginsAreOwed` | `LoginsTakenAreOwed` |
| `TrapBackendProofs` | `TypeCorrect` | `TypeOK` |
| | `CallerIsRestored` | `CallerUndisturbed` |
| | `NothingIsReadUnseen` | `DeliveredIsRecorded` |
| | `OneRowGetsOut` | `AtMostOneRow` |
| `HeartbeatWorkerProofs` | `ExitsOnRequest` | `TypeOK` |
| | `NoSignalIsSleptThrough` | `NoLostWakeup` |
| `RdsTrapProofs` | `TypeCorrect` | `TypeOK` |
| | `EventsGoWhereConfigured` | `EachSinkAsConfigured` |
| `OnlineHarnessProofs` | `TypeCorrect` | `TypeOK` |
| | `FilesOutliveResources` | `FileOutlivesResources` |
| | `OneTeardownIsEnough` | `ErrorsOnlyFromFaults` |
| | `RunsAreAlone` | `OneRunAtATime` |
| | `TestsRunOnInstallation` | `InstalledWhenProved` |
| `PollAlertProofs` | `SentinelIsFound` | `FoundInTime` |
| | `CountOfTrips` | `CountIsExact` |

Assumptions. `AlertLog`: two parts or more (`PartsAssumption`), a number of
events, `None` is no process and no inode, the faults are known ones. The model's own
premise for `CompressedCopiesComplete` is `Settled`, a guard of `RotateStart`.
`Response`: each session has a role (`SessionsAssumption`), `None` is no line
(`NoneAssumption`), and a benign session is covered by a rule that names its
role or its address or both (`BenignAssumption`, used by `LoginsAreOwed` alone). `TrapBackend`
and `HeartbeatWorker`: the bounds are numbers (`BoundsAssumption`). `LogPipeline`:
so is the bound on restarts. `Deadman`: an interval of at least one unit, a maximum age
and bounds that are numbers, and `None` is not a time. `RdsTrap`, `OnlineHarness`: the
kinds, levels, environments and faults are known ones, the bounds are numbers, and
AWS tries at least once. `PollAlert`: times and windows are numbers; limits, page size and
timeout are positive, as the callers pass them (SHB_RDS.pm passes a timeout of seconds;
with none, `wait_mode` never looks).

### The write path

*Types.* `TypeOK` alone is not inductive: whether a slice of a line is made of
parts depends on the event number and on how far the write has got. `TypeInv`
adds `PcInv`, which ties them to `pc`.

*Lines.* `NoInterleaving` speaks of finished and unfinished lines alike, and
says nothing of who may write next. The invariant `LineInv` adds three facts
that make flock work: a writer in `write` holds the lock of the inode its
descriptor names, so that two of them are never on one inode (`LockInv`, lemma
`Exclusive`); a writer that has put some
parts there finds the last of them at the end of its file (`TailInv`); and any
file that is not empty ends in a newline, in a broken event, or in the
unfinished line of a writer that is still at it (`EndInv`). All steps but `Write` leave the contents alone
and fall under one lemma (`QuietStep`); `WriteStep` treats the positions in the
old contents, the seam and the new slice in turn. A line that starts behind a gap thus starts behind a broken
event, which is `FragmentsExplained`.

*Archives.* `ArchiveInv` adds that an archived inode is neither the path nor
the rotated file nor open in any writer, and has been used, so that nobody can
come to write to it.

*Once.* Of two equal parts one would have been written after the other.
`WrittenInv` says that what is in the files was written before: it is of an
earlier event of its writer, or of the current one and among the `total` parts
that are done. `ReportedInv` has the current event in the server log from the
report until the descriptor is closed, which `StreamFirst` needs when a first part
appears.

*Atomicity.* The refinement mapping takes `IntactLines` for the log and the
events between `report` and the end of the write for the pending ones. A write that
ends a line maps to the step that commits the event, any failure to the one that
drops it, and everything else to a stutter. Two invariants say that a line that
is complete is intact, or has a fragment in front of it: `BoundaryInv`, where the
line under way begins, and `BrokenInv`, that what spoilt it was a failure that
`Faults` allows. `PipelineIsAtomic` follows, since a step of `LogPipeline` is a step
of `AlertLog` or leaves its variables alone.

### The monitor

`HandledOnceInOrder` says that the same event is not handled twice, that handled
lines of one inode are in the order of the file, and that an inode once left is not
handled again. `HandledInv` ties each entry of `handled` to the line it was read
from (`HandledLine`): the first part of that line lies in the same file, no later than
the position recorded, which is at or before `pos` if the file is open; if another
one is, the path has left it. `LeftBehind` says that a file which the monitor has left
for another is neither open nor named by the path. It needs `AtMostOnce` (the first part of an event is in one
place) and what rotation guarantees of inodes (`ArchiveInv`). Writers and logrotate
can only lengthen a file and move the path on (`Moves`); a restart and a reopening
move the monitor to the end of the file that the path names, which is at or behind
everything handled in it. `LineEnd` is a minimum over positions; that it exists, and
lies behind `pos`, is shown by a least counterexample (`LeastElement`, from the
library's well-founded order on the numbers).

### The deadman

`OrderInv` says that heartbeats wait in the order of their times, `FreshInv` that
the newest heartbeat of a source is still in the queue, or is in `last`, or its source
is in `skipped`. So
when `CheckDeadman` finds the queue empty and `last` too old, so is the newest
heartbeat of every source that is not skipped (`AlarmIsTrue`, with
`OnlyTheCheckAlarms`). `SilenceInv`
says that after an alarm whatever waits is newer than what the alarm was about, and so
is `last` once the alarm is reset: without it two alarms could be about
one silence. It is about the last alarm, whichever monitor raised it: a monitor that
starts again reads nothing older. For `SilenceIsNoticed`, `DelayInv` says that since the last
idle tick (`checked`) no more time has passed than one poll and `delay`, and that
at that tick `last` was young enough or the alarm raised. The lemmas say what
`Append` and `Tail` do to the positions of heartbeats in the queue.

### The response

*Roles.* `AnsweredRolesAreOut` is inductive with the types and with what the
lines are (`LineInv`: what is answered is a read, which names a role). The steps that could break it are `Appear`, for a session that was
between its login check and `pg_stat_activity`, which is in `spared`;
`Authenticate`, which a role without a login cannot do; and `Reinstate`, which
takes the role out of `answered`.

*Logins.* That `owed[r]` does not become negative is a matter of counting:
`RevokeLogin` takes one, and a trap read adds one that is taken some time later,
if at all. `OwedInv` says that the lines of `queue` that will be answered for
role `r`, plus the one being answered, are at most `owed[r]`. The lemmas count
positions of a sequence: what `Append` and `Tail` do to the number of charged
lines (`ChargesAppend`, `ChargesTail`), and that a line of a benign session is never
charged (`UncoveredReads`), which is where the rules come in.

### The trap path and the worker

`LevelInv` ties subtransaction level, resource owner and memory context to `pc`,
and says that what `saved` holds is the caller's, or the transaction's context behind a
value of the row that ended in `PG_CATCH`; `FutureInv` keeps such values, and recorded
ones, at or before the current column; `RecordInv` says
which values of the current row are recorded already when the backend is at some
column; `KillInv` that a backend which kills itself is at its first row, and
before it fetches a second one the termination is pending. In the worker, `LatchInv`
says that a request is in the latch from the test of the shutdown flag to the
wait, and a reload also while the loop is in front of that test, or reads the
configuration. A request that the reset of the latch swallows is one that the
loop still gets to.

### The RDS trap

Each statement under way has an event of its own, which no earlier and no other
statement shares. `StatementInv` says that its settings are those of its
snapshot, that it is in no sink it has not come to, and, by `pc`, in those it has
passed. On return this becomes `AsConfigured`, which nothing changes later:
`EventInv` keeps numbers of new events above those of old ones. `LambdaInv` says that
a run which is about to publish has logged, whichever attempt it is.

### The harness

One program runs at a time (`TeardownInv`), so that setup only adds to what there
is and teardown only takes away. `SetupInv` says that what is not there, not
in the state file, or not installed yet is among the `steps` that are left; this
carries `InstalledWhenProved` over `reuse` and `install-only`, where the list is
shorter because something is there already. `DeleteInv` says that what teardown has
not deleted is among its `todo`, unless it knows of an error or a listing was
incomplete, and that `todo` has the places of `DeleteOrder` and no instance but the
one it waits for is in mid-deletion, unless something
disturbed it or it found an instance there; `StayInv` says the latter of run.pl.
`FileOutlivesResources` and `ErrorsOnlyFromFaults` are its consequences
when the program ends. The elements of a sequence of steps are followed through
concatenation and `Tail` (`Elements`).

### poll_alert.py

`WayInv` is a balance: the lines of traps that there are, the alerts that got lost and
those that are on their way to their first line are together as many as the trips and the
repetitions. A handler run adds a line that was not there before (`RunInv` numbers
them), and takes an alert off its way or counts a repetition. `WaitInv`: a search
that ends without an event began no later than the
sentinel became visible, unless the log group was denied; a wait that slept behind it
did so for one poll. `CountInv`: with nothing under way, what the search has found and
not returned yet is what lies in the window. At the end of a count nothing is on its
way, and the balance is the theorem.

### What is only model-checked

The properties under fairness, since fairness and ENABLED are out of the
prover's reach: `EventFinishes`, `NothingPassedOver`, `FollowsPath`,
`ReadersAreCutOff`, `ReaderIsTerminated`, `ReloadIsProcessed`, `HeartbeatsGoOn`,
`AcceptedIsLogged`, `EverythingIsRemoved`. The violations of section 5 are traces of
TLC.

## 5. Disagreements

With a run (see `findings` in `PROJECT.json`):

- Lines around a rotation are never handled by the monitor: it leaves the old
  file without a last read and starts at the end of the new one
  (alert_monitor.py:104, 116), against "No data loss window"
  (sticky_honey_bun.logrotate:16) and "Yield new lines as they appear"
  (alert_monitor.py:97).
- In parallel mode, on PostgreSQL before 17, `BeginInternalSubTransaction`
  raises in front of the handler that is to swallow the errors of the logging
  path (logger.c:416), against README.md:93-95.
- A reinstallation does not complete a setup that died: the primary never gets
  its Lambda-invoke role if setup died behind the creation of the instance, and
  if it died between CREATE ROLE and `save_state`, new passwords are recorded but
  not applied (setup.py:572-613), against setup.py:553-556.

Seen in the models, without a run of their own:

- A rotation between `exists()` and `open()` ends the monitor with
  FileNotFoundError (alert_monitor.py:99, 103), against "or None on each idle tick"
  (alert_monitor.py:97).
- The RDS function sends heartbeat reads as `read_text`, so the Lambda handler
  never recognises a heartbeat, logs them as alerts and publishes them
  (sticky_honey_bun_rds.sql:190, handler.py:18-19, 57-59).
- An event of the role that the monitor itself connects as locks the monitor out
  and ends its session: from then on every response fails at the connection
  (alert_monitor.py:174-187). Nothing keeps that role from reading a trap, and
  no rule excludes it by itself.
- Around a rotation the deadman may raise an alarm about a source that has a young
  heartbeat in the file: the monitor has read an old one, passes over the young one
  as in the first item above, and its next idle tick finds `last_heartbeat` too old
  (alert_monitor.py:104, 116, 241). It takes a maximum age that the interval and
  one response use up; the next heartbeat ends it.
- `PG_CATCH` makes `oldcontext` current and then rolls the subtransaction back
  (logger.c:427-429), which makes the transaction's context current instead;
  the release in `PG_TRY` is followed by the switch (421-422). What the output function
  and those of later columns allocate until the end of the row goes to the
  transaction's context, and stays there until its end.
- A response waits without a limit: neither `psycopg2.connect` nor `execute` has
  a timeout, while the webhook has one (alert_monitor.py:147, 174). A primary that
  does not answer stops the tail and the deadman, too.
- A response that fails between its statements is not tried again: the role has
  lost its login, and the session that read goes on until it reads again
  (alert_monitor.py:177-196), against "revokes login and terminates" (README.md:461).
  Both work on the whole role: a session that a suppression rule covers is terminated
  with the others.
- A teardown that starts while an instance is still being deleted, because an
  earlier one was killed or gave up in the waiter, reports errors although nothing fails:
  `delete_db_instance` is refused (InvalidDBInstanceState), teardown.py raises it
  again (150-158) and does not come to its waiter, and groups that the instance
  uses are tried too early. The comment expects "a no-op error" and that "the
  wait inside delete_rds_instance handles it" (teardown.py:331-334). A reused run takes
  a replica in that state for good (setup.py:358-362).
- A count is not the number of traps that were tripped when an invocation fails, which
  the function swallows (sticky_honey_bun_rds.sql:255-260), or the handler runs again
  behind its log line; "exactly N events" (SHB_RDS.pm:139) holds for lines only.
  `poll_alert.py` ends with status 1 for a miss and for any exception of the API
  (lines 74, 100), which `poll_alert` of SHB_RDS.pm does not tell apart (133).
- The count that follows a sentinel may be short: "once the sentinel arrives
  (which proves any earlier invocations would already be ingested too)"
  (SHB_RDS.pm:142-144), but invocations are asynchronous and arrive in no
  order. `CountIsExact` needs the premise `settled`. A wait of up to 240 seconds
  before a count over 120 (010_alias_type.pl:57) may push alerts out of the
  window.
- The line that creates the alert file is never handled: the monitor waits for
  the file and then seeks to its end.
- A line written in two calls can be read in two halves, both rejected as
  malformed, though the write is called atomic (logger.c:280); if the cut is
  inside a character, the decoding error ends the monitor.
- A failed write behind a short one leaves a fragment without a newline; the
  next event, which did not fail, is appended to it and lost with it
  ("Every failure path drops the event silently", logger.c:292).
- A monitor started after the last heartbeat never raises the alarm, since
  `last_heartbeat` starts as None ("Absence of heartbeats is the alert
  processor's signal that something went wrong", README.md:99).
- All sources share one `last_heartbeat`; one that falls silent is hidden by the
  others (heartbeat_poker.sh:6-8). Alerts that take long keep the deadman from
  being checked (alert_monitor.example.yaml:21).
- A cancel pending at `ereport` keeps the line from the file; the value is
  delivered and the cancel is swallowed. The levels are described as "severities that never
  abort the typeoutput dispatch" (logger.c:42-43); the dispatch is not aborted, the
  file write is.
- A worker that gets SIGTERM exits with 0 and is not started again; the comment
  expects a restart every `bgw_restart_time` (logger.c:509-510).
- A swallowed error in discovery lets teardown report a clean end and remove
  the state file over a leaked resource, against "confirmed gone"
  (teardown.py:54-56).
- Ctrl-C during preflight or setup ends run.pl without its END block, against
  rds/online/README.md:59-60. The status run.pl exits with after the tests is
  replaced by the END block's `system()` (run.pl:120, 176-178).
- The documentation calls the logrotate configuration size-based with a weekly
  fallback (README.md:689-691); the file says `daily`.

## 6. Not modelled

- The type's input, receive and ACL checks, settings, and the resolution of the
  log path: sequential code without state, better served by tests.
- The text of a line, its JSON escaping and its fields.
- The SQL of the extension and of the RDS variant other than
  `honey_bun_out_rds`: DDL run once.
- The Lambda handler's answer to an event that is no object, and its optional log of
  heartbeats: the RDS function sends neither.
- A missing psycopg2 and an event without a `session_user`: these end
  a response like a missing `primary_dsn`.
- Preflight's checks of the environment and the tag verification before each
  deletion: here they are failures like others.
- The EXCEPTION blocks of `honey_bun_out_rds` in parallel mode, where they would need
  subtransactions.
- AWS refusing to delete an instance that is still being created: a call that fails.
- PostgreSQL, AWS, the kernel and logrotate are modelled only as far as the
  code uses them; the definitions that stand for them are marked external in
  `PROJECT.json`.

## 7. Plan

Done: all modules of section 2, and the proofs of section 4.

1. Extend. Sources of `Deadman` with clocks of their own, and targets of the
   poker that hang. `TrapBackend` over `AlertLog` for its file write. A
   configuration with `log_path` empty and the server log as the only sink.
2. Prove. The safety half of properties that are stated under fairness: what
   `NothingPassedOver` says of an event in a file that the monitor has left, what
   `ReaderIsTerminated` says of the rows before the termination, and a
   measure that decreases while teardown runs, for `EverythingIsRemoved`.
