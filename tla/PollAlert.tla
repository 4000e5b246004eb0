----------------------------- MODULE PollAlert ------------------------------
(***************************************************************************)
(* How a test of the RDS variant looks for alerts: it trips traps, trips a *)
(* sentinel, waits for the sentinel with poll_alert.py and then counts the *)
(* alerts that should be there (rds/online/poll_alert.py, called from      *)
(* t/lib/SHB_RDS.pm).  The way of an alert is external: the invocation may *)
(* fail, which the function swallows, or be given up; otherwise the        *)
(* handler runs some time after the trip, in no order, and again if it     *)
(* fails behind its log line; what it logs can be searched some time after *)
(* that.                                                                   *)
(***************************************************************************)
EXTENDS Naturals, FiniteSets

CONSTANTS
  MaxTrips,   \* bound: traps tripped before the sentinel
  MaxFaults,  \* bound: invocations that fail or are given up, and failures
              \* of the handler behind its log line
  MaxTime,    \* bound: the clock, in units of a poll
  Lookback,   \* of wait_mode: 300 seconds
  Timeout,    \* --timeout
  Since,      \* --since
  WaitLimit, CountLimit,  \* hard_limit of the two modes
  PageLimit   \* events in one page of filter_log_events

ASSUME PollAssumption ==
  /\ {MaxTrips, MaxFaults, MaxTime, Lookback, Since} \subseteq Nat
  /\ {Timeout, WaitLimit, CountLimit, PageLimit} \subseteq Nat \ {0}

VARIABLES
  now,
  trips,      \* traps tripped so far
  due,        \* alerts on their way to the handler, or back to it
  runs,       \* per alert: how often the handler has logged it
  written,    \* what the handler has logged: the alert, which run, and when
  log,        \* of that, what can be searched
  \* The test and poll_alert.py
  pc, deadline, start,
  unread,     \* matching events that filter_events has not been given yet
  found,      \* events
  \* History
  faults,     \* how many there were
  lost,       \* how many alerts of traps have got lost before any log line
  repeats,    \* how many times one has been logged again
  denied,     \* a search was told that there is no log group, and there was
  settled,    \* nothing was under way when the count began
  visible     \* since when the sentinel can be searched

awsVars == <<due, runs, written, log, faults, lost, repeats, visible>>
searchVars == <<unread, found, denied>>
vars == <<now, trips, awsVars, pc, deadline, start, searchVars, settled>>

Sentinel == 0
Alerts == 0..MaxTrips

Init ==
  /\ now = 0 /\ trips = 0
  /\ due = {} /\ runs = [a \in Alerts |-> 0] /\ written = {} /\ log = {}
  /\ pc = "trip" /\ deadline = 0 /\ start = 0
  /\ unread = {} /\ found = {} /\ settled = FALSE /\ visible = MaxTime
  /\ faults = 0 /\ lost = 0 /\ repeats = 0 /\ denied = FALSE

-----------------------------------------------------------------------------
(* From the trap to CloudWatch (external). *)

IsTrap(alert) == IF alert = Sentinel THEN 0 ELSE 1

Fault == faults < MaxFaults /\ faults' = faults + 1

\* aws_lambda.invoke; its errors are swallowed.
Invoke(alert) ==
  /\ \/ due' = due \cup {alert} /\ UNCHANGED <<lost, faults>>
     \/ Fault /\ lost' = lost + IsTrap(alert) /\ UNCHANGED due
  /\ UNCHANGED <<runs, written, log, repeats, visible>>

\* The handler logs an alert, and is done or fails behind that.
Handle(alert) ==
  /\ runs' = [runs EXCEPT ![alert] = @ + 1]
  /\ written' = written \cup {[alert |-> alert, run |-> runs[alert] + 1, at |-> now]}
  /\ repeats' = IF runs[alert] = 0 THEN repeats ELSE repeats + IsTrap(alert)
  /\ \/ due' = due \ {alert} /\ UNCHANGED faults
     \/ Fault /\ UNCHANGED due
  /\ UNCHANGED <<now, trips, log, lost, visible, pc, deadline, start, searchVars, settled>>

\* AWS gives an alert up.
GiveUp(alert) ==
  /\ Fault
  /\ due' = due \ {alert}
  /\ lost' = IF runs[alert] = 0 THEN lost + IsTrap(alert) ELSE lost
  /\ UNCHANGED <<now, trips, runs, written, log, repeats, visible, pc, deadline, start,
                 searchVars, settled>>

\* The needle of a search: the sentinel's tag, or what the others share.
Matching(events) ==
  {e \in events : (e.alert = Sentinel) = (pc \in {"wait", "search"}) /\ e.at >= start}

\* A search that is under way may show the event, or be past it.
Ingest(event) ==
  /\ written' = written \ {event} /\ log' = log \cup {event}
  /\ visible' = IF event.alert = Sentinel /\ now < visible THEN now ELSE visible
  /\ \/ UNCHANGED unread
     \/ pc \in {"search", "count"} /\ unread' = unread \cup Matching({event})
  /\ UNCHANGED <<now, trips, due, runs, faults, lost, repeats, pc, deadline, start,
                 found, denied, settled>>

-----------------------------------------------------------------------------
(* The test. *)

Trip ==
  /\ pc = "trip" /\ trips < MaxTrips
  /\ trips' = trips + 1
  /\ Invoke(trips + 1)
  /\ UNCHANGED <<now, pc, deadline, start, searchVars, settled>>

TripSentinel ==
  /\ pc = "trip" /\ pc' = "tripped"
  /\ Invoke(Sentinel)
  /\ UNCHANGED <<now, trips, deadline, start, searchVars, settled>>

-----------------------------------------------------------------------------
(* poll_alert.py. *)

\* Only what is logged from now on.
WindowStart_Now(back) == now

\* start_ms.
WindowStart(back) == IF back > now THEN 0 ELSE now - back

\* wait_mode begins: the window stays where it is.
StartWait ==
  /\ pc = "tripped" /\ pc' = "wait"
  /\ start' = WindowStart(Lookback) /\ deadline' = now + Timeout
  /\ UNCHANGED <<now, trips, awsVars, searchVars, settled>>

\* The head of its loop.
Search ==
  /\ pc = "wait"
  /\ IF now < deadline
     THEN pc' = "search" /\ unread' = Matching(log) /\ found' = {}
     ELSE pc' = "missed" /\ UNCHANGED <<unread, found>>
  /\ UNCHANGED <<now, trips, awsVars, deadline, start, denied, settled>>

Limit == IF pc = "search" THEN WaitLimit ELSE CountLimit

\* A page without events is taken for the last one.
IsLast_Empty(page) == page = {} \/ page = unread

\* No nextToken.
IsLast(page) == page = unread

\* filter_events returns.
Returned(events) ==
  pc' = CASE pc = "count" -> "counted"
          [] pc = "search" /\ events = {} -> "sleep"
          [] OTHER -> "found"

\* One round of filter_events.  A page may be empty without being the last.
Page ==
  /\ pc \in {"search", "count"}
  /\ \E page \in SUBSET unread :
       /\ Cardinality(page) <= PageLimit /\ Cardinality(found \cup page) <= Limit
       /\ found' = found \cup page /\ unread' = unread \ page
       /\ IF IsLast(page) \/ Cardinality(found') >= Limit
          THEN Returned(found')
          ELSE UNCHANGED pc
  /\ UNCHANGED <<now, trips, awsVars, deadline, start, denied, settled>>

\* ResourceNotFoundException, on whichever page: there are no events, also none
\* of the pages before.
NoLogGroup ==
  /\ pc \in {"search", "count"}
  /\ found' = {} /\ unread' = {} /\ Returned({})
  /\ denied' = (denied \/ log # {})
  /\ UNCHANGED <<now, trips, awsVars, deadline, start, settled>>

\* Any other ClientError ends the program, with the exit code of a miss.
Fails ==
  /\ pc \in {"search", "count"} /\ pc' = "failed"
  /\ UNCHANGED <<now, trips, awsVars, deadline, start, searchVars, settled>>

\* count_mode.
Count ==
  /\ pc = "found" /\ pc' = "start"
  /\ start' = WindowStart(Since)
  /\ settled' = (due = {} /\ written = {})
  /\ UNCHANGED <<now, trips, awsVars, deadline, searchVars>>

CountSearch ==
  /\ pc = "start" /\ pc' = "count"
  /\ unread' = Matching(log) /\ found' = {}
  /\ UNCHANGED <<now, trips, awsVars, deadline, start, denied, settled>>

\* A search takes no time worth speaking of.
AdvanceTime ==
  /\ now < MaxTime /\ pc \in {"trip", "tripped", "sleep", "found"}
  /\ now' = now + 1
  /\ pc' = IF pc = "sleep" THEN "wait" ELSE pc
  /\ UNCHANGED <<trips, awsVars, deadline, start, searchVars, settled>>

-----------------------------------------------------------------------------

Next ==
  \/ \E alert \in due : Handle(alert) \/ GiveUp(alert)
  \/ \E event \in written : Ingest(event)
  \/ Trip \/ TripSentinel
  \/ StartWait \/ Search \/ Page \/ NoLogGroup \/ Fails \/ Count \/ CountSearch
  \/ AdvanceTime

Spec == Init /\ [][Next]_vars

-----------------------------------------------------------------------------
(* Properties. *)

\* The sentinel was logged no longer before the wait than wait_mode looks back.
InLookback ==
  \A e \in log : e.alert = Sentinel => e.at + Lookback + Timeout >= deadline

\* The wait misses a sentinel ("did not find", poll_alert.py:95-100) only if
\* it could not be found one poll before the deadline, also if it was logged
\* before the wait began, for which the window looks back (poll_alert.py:86-94),
\* and unless CloudWatch has denied the log group.  A wait whose search fails
\* (poll_alert.py:74) is no miss, although its exit code is the same.
FoundInTime ==
  pc = "missed" /\ InLookback /\ ~denied => visible + 1 >= deadline

\* What the negative tests rely on: with nothing under way any more, no alert
\* logged before the window, and no more lines than a search returns, the count
\* is the number of traps that were tripped before the sentinel, less one for
\* each alert that got lost on the way, more by one for each time one was logged
\* again, however the search was cut into pages (poll_alert.py:54-82, 103-106;
\* SHB_RDS.pm:138-144).
CountIsExact ==
  (/\ pc = "counted" /\ settled /\ ~denied /\ trips + repeats <= CountLimit + lost
   /\ \A e \in log : e.at >= start) => Cardinality(found) + lost = trips + repeats
=============================================================================
