-------------------------- MODULE PollAlertProofs ---------------------------
(***************************************************************************)
(* Proofs about poll_alert.py and its callers, for any number of traps and *)
(* of faults on the way, any times, windows and limits, and any cut of the *)
(* results into pages.                                                     *)
(***************************************************************************)
EXTENDS PollAlert, FiniteSetTheorems, TLAPS

-----------------------------------------------------------------------------
(* The inductive invariant. *)

LogEvents == [alert : Alerts, run : Nat, at : Nat]

TypeInv ==
  /\ now \in 0..MaxTime /\ trips \in 0..MaxTrips
  /\ due \subseteq Alerts /\ runs \in [Alerts -> Nat]
  /\ written \cup log \subseteq LogEvents
  /\ pc \in {"trip", "tripped", "wait", "search", "sleep", "missed", "found",
             "start", "count", "counted", "failed"}
  /\ deadline \in Nat /\ start \in Nat
  /\ unread \subseteq log /\ found \subseteq log
  /\ settled \in BOOLEAN /\ visible \in 0..MaxTime
  /\ faults \in Nat /\ lost \in Nat /\ repeats \in Nat /\ denied \in BOOLEAN

\* The lines of traps, and the traps that have none yet and are on their way.
Lines == {e \in written \cup log : e.alert # Sentinel}
Fresh == {a \in due : a # Sentinel /\ runs[a] = 0}

\* A trap that was not tripped is nowhere.
UntrippedInv == \A a \in Alerts : a > trips => a \notin due /\ runs[a] = 0

\* The run that comes next has no line yet.
RunInv == \A e \in written \cup log : e.run <= runs[e.alert]

\* Every trip has one line, or is lost or on its way to its first line; the
\* other lines are repetitions.
WayInv ==
  /\ UntrippedInv /\ RunInv
  /\ IsFiniteSet(Lines) /\ IsFiniteSet(Fresh)
  /\ Cardinality(Lines) + lost + Cardinality(Fresh) = trips + repeats

\* A search that is about to end without an event began before the sentinel
\* could be found; so did the wait that has slept once after it.
WaitInv ==
  /\ pc \in {"wait", "search", "sleep", "missed"} =>
       start = 0 \/ start + Lookback + Timeout = deadline
  /\ visible < MaxTime => \E e \in log : e.alert = Sentinel
  /\ InLookback /\ ~denied =>
       /\ pc = "wait" => now < deadline \/ visible + 1 >= now
       /\ pc = "search" => visible >= now \/ found \cup unread # {}
       /\ pc = "sleep" => visible >= now
  /\ pc = "missed" => now >= deadline /\ FoundInTime

\* What a count is to return.
Window == {e \in log : e.alert # Sentinel /\ e.at >= start}

\* With everything in the log nothing is added to it, and what the search has
\* not returned yet is what is missing, unless it is told of no log group.
CountInv ==
  /\ settled => /\ pc \in {"start", "count", "counted", "failed"}
                /\ due = {} /\ written = {}
  /\ settled /\ ~denied /\ pc = "count" => found \cup unread = Window
  /\ settled /\ ~denied /\ pc = "counted" =>
       /\ found \subseteq Window
       /\ found = Window \/ Cardinality(found) >= CountLimit
-----------------------------------------------------------------------------
(* Types, and the way of the alerts. *)

\* An event of the log that a search can return is in the log.
LEMMA MatchingIn == ASSUME NEW events PROVE Matching(events) \subseteq events
  BY DEF Matching

LEMMA ReturnedPc ==
  ASSUME NEW events, Returned(events), pc \in {"search", "count"}
  PROVE  /\ pc' \in {"counted", "sleep", "found"}
         /\ pc = "count" <=> pc' = "counted"
         /\ pc' = "sleep" => events = {}
  <1>1. CASE pc = "count"
    BY <1>1 DEF Returned
  <1>2. CASE pc = "search" /\ events = {}
    BY <1>2 DEF Returned
  <1>3. CASE pc = "search" /\ events # {}
    BY <1>3 DEF Returned
  <1>4. QED
    BY <1>1, <1>2, <1>3

\* What one round of filter_events does.
LEMMA PageStep ==
  ASSUME Page
  PROVE  \E page \in SUBSET unread :
           /\ pc \in {"search", "count"}
           /\ found' = found \cup page /\ unread' = unread \ page
           /\ IF IsLast(page) \/ Cardinality(found') >= Limit
              THEN Returned(found') ELSE UNCHANGED pc
           /\ UNCHANGED <<now, trips, awsVars, deadline, start, denied, settled>>
  BY Zenon DEF Page

LEMMA TypeInit == Init => TypeInv
  <1> SUFFICES ASSUME Init PROVE TypeInv
    OBVIOUS
  <1>1. 0 \in 0..MaxTime /\ 0 \in 0..MaxTrips /\ MaxTime \in 0..MaxTime /\ 0 \in Nat
    BY PollAssumption
  <1>2. runs \in [Alerts -> Nat]
    BY DEF Init
  <1>3. QED
    BY <1>1, <1>2, Zenon DEF Init, TypeInv

\* The events of the external way keep their types.
LEMMA TypeWay ==
  ASSUME TypeInv, NEW alert \in Alerts, Handle(alert) \/ GiveUp(alert) \/ Invoke(alert)
  PROVE  /\ due' \subseteq Alerts /\ runs' \in [Alerts -> Nat]
         /\ written' \cup log' \subseteq LogEvents
         /\ faults' \in Nat /\ lost' \in Nat /\ repeats' \in Nat
  <1> USE DEF TypeInv, IsTrap
  <1>1. CASE Handle(alert)
    <2>1. runs[alert] + 1 \in Nat /\ now \in Nat
      BY PollAssumption
    <2>2. [alert |-> alert, run |-> runs[alert] + 1, at |-> now] \in LogEvents
      BY <2>1 DEF LogEvents
    <2>3. runs' \in [Alerts -> Nat]
      BY <1>1, <2>1 DEF Handle
    <2>4. written' \cup log' \subseteq LogEvents
      BY <1>1, <2>2 DEF Handle
    <2>5. due' \subseteq Alerts /\ faults' \in Nat /\ lost' \in Nat /\ repeats' \in Nat
      BY <1>1 DEF Handle, Fault
    <2>6. QED
      BY <2>3, <2>4, <2>5
  <1>2. CASE GiveUp(alert)
    BY <1>2 DEF GiveUp, Fault
  <1>3. CASE Invoke(alert)
    BY <1>3 DEF Invoke, Fault
  <1>4. QED
    BY <1>1, <1>2, <1>3

LEMMA TypeStep == TypeInv /\ [Next]_vars => TypeInv'
  <1> SUFFICES ASSUME TypeInv, [Next]_vars PROVE TypeInv'
    OBVIOUS
  <1> USE PollAssumption DEF TypeInv, awsVars, searchVars
  <1>1. ASSUME NEW alert \in due, Handle(alert) \/ GiveUp(alert) PROVE TypeInv'
    <2>1. /\ due' \subseteq Alerts /\ runs' \in [Alerts -> Nat]
          /\ written' \cup log' \subseteq LogEvents
          /\ faults' \in Nat /\ lost' \in Nat /\ repeats' \in Nat
      BY <1>1, TypeWay
    <2>2. UNCHANGED <<now, trips, log, visible, pc, deadline, start, unread, found,
                      denied, settled>>
      BY <1>1 DEF Handle, GiveUp
    <2>3. QED
      BY <2>1, <2>2
  <1>2. ASSUME NEW event \in written, Ingest(event) PROVE TypeInv'
    <2>1. log' = log \cup {event} /\ written' = written \ {event} /\ found' = found
      BY <1>2 DEF Ingest
    <2>2. unread' \subseteq log'
      BY <1>2, <2>1, MatchingIn DEF Ingest
    <2>3. visible' \in 0..MaxTime
      BY <1>2 DEF Ingest
    <2>4. UNCHANGED <<now, trips, due, runs, faults, lost, repeats, pc, deadline, start,
                      found, denied, settled>>
      BY <1>2 DEF Ingest
    <2>5. QED
      BY <2>1, <2>2, <2>3, <2>4
  <1>3. CASE Trip
    <2>1. trips' \in 0..MaxTrips /\ trips + 1 \in Alerts
      BY <1>3 DEF Trip, Alerts
    <2>2. /\ due' \subseteq Alerts /\ runs' \in [Alerts -> Nat]
          /\ written' \cup log' \subseteq LogEvents
          /\ faults' \in Nat /\ lost' \in Nat /\ repeats' \in Nat
      BY <1>3, <2>1, TypeWay DEF Trip
    <2>3. UNCHANGED <<now, log, visible, pc, deadline, start, unread, found, denied, settled>>
      BY <1>3 DEF Trip, Invoke
    <2>4. QED
      BY <2>1, <2>2, <2>3
  <1>4. CASE TripSentinel
    <2>1. Sentinel \in Alerts
      BY DEF Sentinel, Alerts
    <2>2. /\ due' \subseteq Alerts /\ runs' \in [Alerts -> Nat]
          /\ written' \cup log' \subseteq LogEvents
          /\ faults' \in Nat /\ lost' \in Nat /\ repeats' \in Nat
      BY <1>4, <2>1, TypeWay DEF TripSentinel
    <2>3. /\ UNCHANGED <<now, trips, log, visible, deadline, start, unread, found, denied,
                         settled>>
          /\ pc' = "tripped"
      BY <1>4 DEF TripSentinel, Invoke
    <2>4. QED
      BY <2>2, <2>3
  <1>5. CASE StartWait
    BY <1>5 DEF StartWait, WindowStart
  <1>6. CASE Search
    BY <1>6, MatchingIn DEF Search
  <1>7. CASE Page
    <2>1. found' \subseteq log /\ unread' \subseteq log
      BY <1>7, PageStep
    <2>2. pc' \in {"count", "search", "counted", "sleep", "found"}
      BY <1>7, PageStep, ReturnedPc
    <2>3. QED
      BY <1>7, <2>1, <2>2 DEF Page
  <1>8. CASE NoLogGroup
    <2>1. pc' \in {"counted", "sleep", "found"}
      BY <1>8, ReturnedPc DEF NoLogGroup
    <2>2. denied' \in BOOLEAN
      BY <1>8 DEF NoLogGroup
    <2>3. QED
      BY <1>8, <2>1, <2>2 DEF NoLogGroup
  <1>9. CASE Fails
    BY <1>9 DEF Fails
  <1>10. CASE Count
    <2>1. start' \in Nat
      BY <1>10 DEF Count, WindowStart
    <2>2. settled' \in BOOLEAN
      BY <1>10, Zenon DEF Count
    <2>3. QED
      BY <1>10, <2>1, <2>2 DEF Count
  <1>11. CASE CountSearch
    BY <1>11, MatchingIn DEF CountSearch
  <1>12. CASE AdvanceTime
    BY <1>12 DEF AdvanceTime
  <1>13. CASE UNCHANGED vars
    BY <1>13 DEF vars
  <1>14. QED
    BY <1>1, <1>2, <1>3, <1>4, <1>5, <1>6, <1>7, <1>8, <1>9, <1>10, <1>11, <1>12, <1>13
    DEF Next

-----------------------------------------------------------------------------
(* The way of the alerts. *)

LEMMA WayInit == Init => WayInv
  <1> SUFFICES ASSUME Init PROVE WayInv
    OBVIOUS
  <1>1. Lines = {} /\ Fresh = {} /\ UntrippedInv /\ RunInv
    BY DEF Init, Lines, Fresh, UntrippedInv, RunInv
  <1>2. lost = 0 /\ trips = 0 /\ repeats = 0
    BY DEF Init
  <1>3. QED
    BY <1>1, <1>2, FS_EmptySet DEF WayInv

\* A line more, of a trap that was on its way, or again.
LEMMA HandleWay ==
  ASSUME TypeInv, WayInv, NEW alert \in due, Handle(alert)
  PROVE  WayInv'
  <1>0. alert \in Alerts /\ runs[alert] \in Nat /\ Sentinel = 0
    BY DEF TypeInv, Sentinel
  <1> DEFINE event == [alert |-> alert, run |-> runs[alert] + 1, at |-> now]
  <1>1. /\ written' = written \cup {event} /\ log' = log
        /\ runs' = [runs EXCEPT ![alert] = runs[alert] + 1]
        /\ UNCHANGED <<trips, lost>>
        /\ due' \subseteq due /\ due \subseteq due' \cup {alert}
        /\ repeats' = IF runs[alert] = 0 THEN repeats ELSE repeats + IsTrap(alert)
    BY DEF Handle
  <1>2. event.alert = alert /\ event.run = runs[alert] + 1
    OBVIOUS
  <1> HIDE DEF event
  <1>3. /\ runs'[alert] = runs[alert] + 1
        /\ \A a \in Alerts : a # alert => runs'[a] = runs[a]
    BY <1>0, <1>1 DEF TypeInv
  <1>4. RunInv'
    <2> SUFFICES ASSUME NEW e \in written' \cup log' PROVE e.run <= runs'[e.alert]
      BY DEF RunInv
    <2>1. CASE e = event
      BY <2>1, <1>0, <1>2, <1>3
    <2>2. CASE e # event
      <3>1. e \in written \cup log /\ e.alert \in Alerts /\ e.run \in Nat
        BY <2>2, <1>1 DEF TypeInv, LogEvents
      <3>2. e.run <= runs[e.alert] /\ runs[e.alert] \in Nat
        BY <3>1 DEF WayInv, RunInv, TypeInv
      <3>3. QED
        BY <3>1, <3>2, <1>3, <1>0
    <2>3. QED
      BY <2>1, <2>2
  <1>5. UntrippedInv'
    BY <1>0, <1>1, <1>3 DEF WayInv, UntrippedInv
  <1>6. CASE alert = Sentinel
    <2>1. Lines' = Lines
      BY <1>1, <1>2, <1>6 DEF Lines
    <2>2. Fresh' = Fresh
      BY <1>0, <1>1, <1>3, <1>6 DEF Fresh, TypeInv
    <2>3. repeats' = repeats
      BY <1>1, <1>6 DEF IsTrap, TypeInv
    <2>4. QED
      BY <1>1, <1>4, <1>5, <2>1, <2>2, <2>3 DEF WayInv
  <1>7. CASE alert # Sentinel
    <2>1. event \notin Lines
      <3>1. \A e \in written \cup log : e.alert = alert => e.run <= runs[alert]
        BY DEF WayInv, RunInv
      <3>2. QED
        BY <3>1, <1>0, <1>2 DEF Lines
    <2>2. Lines' = Lines \cup {event}
      BY <1>1, <1>2, <1>7 DEF Lines
    <2>3. /\ IsFiniteSet(Lines) /\ IsFiniteSet(Fresh)
          /\ Cardinality(Lines) \in Nat /\ Cardinality(Fresh) \in Nat
      BY FS_CardinalityType DEF WayInv
    <2>4. IsFiniteSet(Lines') /\ Cardinality(Lines') = Cardinality(Lines) + 1
      BY <2>1, <2>2, <2>3, FS_AddElement
    <2>5. CASE runs[alert] = 0
      <3>1. Fresh' = Fresh \ {alert} /\ alert \in Fresh
        BY <1>0, <1>1, <1>3, <1>7, <2>5 DEF Fresh, TypeInv
      <3>2. IsFiniteSet(Fresh') /\ Cardinality(Fresh') = Cardinality(Fresh) - 1
        BY <2>3, <3>1, FS_RemoveElement
      <3>3. repeats' = repeats
        BY <1>1, <2>5
      <3>4. QED
        BY <1>1, <1>4, <1>5, <2>3, <2>4, <3>2, <3>3 DEF WayInv, TypeInv
    <2>6. CASE runs[alert] # 0
      <3>1. Fresh' = Fresh
        BY <1>0, <1>1, <1>3, <2>6 DEF Fresh, TypeInv
      <3>2. repeats' = repeats + 1
        BY <1>1, <1>7, <2>6 DEF IsTrap
      <3>3. QED
        BY <1>1, <1>4, <1>5, <2>3, <2>4, <3>1, <3>2 DEF WayInv, TypeInv
    <2>7. QED
      BY <2>5, <2>6
  <1>8. QED
    BY <1>6, <1>7

\* An alert that is given up is lost if it has no line.
LEMMA GiveUpWay ==
  ASSUME TypeInv, WayInv, NEW alert \in due, GiveUp(alert)
  PROVE  WayInv'
  <1>1. /\ due' = due \ {alert} /\ UNCHANGED <<trips, runs, written, log, repeats>>
        /\ lost' = IF runs[alert] = 0 THEN lost + IsTrap(alert) ELSE lost
    BY DEF GiveUp
  <1>2. RunInv' /\ UntrippedInv' /\ Lines' = Lines
    BY <1>1 DEF WayInv, RunInv, UntrippedInv, Lines
  <1>3. CASE alert # Sentinel /\ runs[alert] = 0
    <2>1. Fresh' = Fresh \ {alert} /\ alert \in Fresh
      BY <1>1, <1>3 DEF Fresh
    <2>2. /\ IsFiniteSet(Lines) /\ IsFiniteSet(Fresh)
          /\ Cardinality(Lines) \in Nat /\ Cardinality(Fresh) \in Nat
      BY FS_CardinalityType DEF WayInv
    <2>3. IsFiniteSet(Fresh') /\ Cardinality(Fresh') = Cardinality(Fresh) - 1
      BY <2>1, <2>2, FS_RemoveElement
    <2>4. lost' = lost + 1
      BY <1>1, <1>3 DEF IsTrap
    <2>5. QED
      BY <1>1, <1>2, <2>2, <2>3, <2>4 DEF WayInv, TypeInv
  <1>4. CASE ~(alert # Sentinel /\ runs[alert] = 0)
    <2>1. Fresh' = Fresh
      BY <1>1, <1>4 DEF Fresh
    <2>2. lost' = lost
      BY <1>1, <1>4 DEF IsTrap, TypeInv
    <2>3. QED
      BY <1>1, <1>2, <2>1, <2>2 DEF WayInv
  <1>5. QED
    BY <1>3, <1>4

\* A trap that is tripped is on its way, or lost.
LEMMA TripWay ==
  ASSUME TypeInv, WayInv, Trip
  PROVE  WayInv'
  <1> DEFINE a == trips + 1
  <1>1. /\ trips' = trips + 1 /\ UNCHANGED <<runs, written, log, repeats>>
        /\ \/ due' = due \cup {a} /\ lost' = lost
           \/ due' = due /\ lost' = lost + IsTrap(a)
    BY DEF Trip, Invoke
  <1>2. /\ trips \in Nat /\ a \in Alerts /\ a > trips /\ a # Sentinel
        /\ lost \in Nat /\ repeats \in Nat
    BY PollAssumption DEF Trip, TypeInv, Alerts, Sentinel
  <1>3. a \notin due /\ runs[a] = 0
    BY <1>2 DEF WayInv, UntrippedInv
  <1>4. \A b \in Alerts : b > trips' => b > trips /\ b # a
    BY <1>1, <1>2, PollAssumption DEF Alerts
  <1> HIDE DEF a
  <1>5. RunInv' /\ UntrippedInv' /\ Lines' = Lines
    BY <1>1, <1>4 DEF WayInv, RunInv, UntrippedInv, Lines
  <1>6. /\ IsFiniteSet(Lines) /\ IsFiniteSet(Fresh)
        /\ Cardinality(Lines) \in Nat /\ Cardinality(Fresh) \in Nat
    BY FS_CardinalityType DEF WayInv
  <1>7. CASE due' = due \cup {a} /\ lost' = lost
    <2>1. Fresh' = Fresh \cup {a} /\ a \notin Fresh
      BY <1>1, <1>2, <1>3, <1>7 DEF Fresh
    <2>2. IsFiniteSet(Fresh') /\ Cardinality(Fresh') = Cardinality(Fresh) + 1
      BY <1>6, <2>1, FS_AddElement
    <2>3. QED
      BY <1>1, <1>2, <1>5, <1>6, <1>7, <2>2 DEF WayInv
  <1>8. CASE due' = due /\ lost' = lost + IsTrap(a)
    <2>1. Fresh' = Fresh /\ lost' = lost + 1
      BY <1>1, <1>2, <1>8 DEF Fresh, IsTrap
    <2>2. QED
      BY <1>1, <1>2, <1>5, <1>6, <2>1 DEF WayInv
  <1>9. QED
    BY <1>1, <1>7, <1>8

LEMMA WayStep == TypeInv /\ WayInv /\ [Next]_vars => WayInv'
  <1> SUFFICES ASSUME TypeInv, WayInv, [Next]_vars PROVE WayInv'
    OBVIOUS
  <1> USE DEF awsVars, searchVars
  <1>1. ASSUME NEW alert \in due, Handle(alert) \/ GiveUp(alert) PROVE WayInv'
    BY <1>1, HandleWay, GiveUpWay
  \* No line is added or lost, and no trap set out.
  <1>2. ASSUME written' \cup log' = written \cup log, Fresh' = Fresh, UntrippedInv',
               UNCHANGED <<runs, trips, lost, repeats>>
        PROVE  WayInv'
    BY <1>2 DEF WayInv, RunInv, Lines
  <1>3. ASSUME NEW event \in written, Ingest(event) PROVE WayInv'
    <2>1. UNCHANGED <<due, runs, trips, lost, repeats>>
      BY <1>3 DEF Ingest
    <2>2. written' \cup log' = written \cup log
      BY <1>3 DEF Ingest
    <2>3. QED
      BY <1>2, <2>1, <2>2 DEF Fresh, UntrippedInv, WayInv
  <1>4. CASE Trip
    BY <1>4, TripWay
  <1>5. CASE TripSentinel
    <2>1. /\ UNCHANGED <<runs, trips, written, log, repeats>>
          /\ due' = due \cup {Sentinel} \/ due' = due
          /\ lost' = lost \/ lost' = lost + IsTrap(Sentinel)
      BY <1>5 DEF TripSentinel, Invoke
    <2>2. lost' = lost /\ trips \in Nat
      BY <2>1, PollAssumption DEF IsTrap, TypeInv
    <2>3. Fresh' = Fresh /\ UntrippedInv'
      BY <2>1, <2>2 DEF Fresh, UntrippedInv, WayInv, Sentinel
    <2>4. QED
      BY <1>2, <2>1, <2>2, <2>3
  <1>6. ASSUME UNCHANGED <<due, runs, written, log, trips, lost, repeats>>
        PROVE  WayInv'
    BY <1>2, <1>6 DEF Fresh, UntrippedInv, WayInv
  <1>7. CASE Search \/ StartWait \/ NoLogGroup \/ Fails \/ Count \/ CountSearch \/ AdvanceTime
    BY <1>6, <1>7 DEF Search, StartWait, NoLogGroup, Fails, Count, CountSearch, AdvanceTime
  <1>8. CASE Page
    BY <1>6, <1>8 DEF Page
  <1>9. CASE UNCHANGED vars
    BY <1>6, <1>9 DEF vars
  <1>10. QED
    BY <1>1, <1>3, <1>4, <1>5, <1>7, <1>8, <1>9 DEF Next

-----------------------------------------------------------------------------
(* The wait. *)

\* What InLookback says of the window.
LEMMA SentinelInWindow ==
  ASSUME TypeInv, InLookback, start = 0 \/ start + Lookback + Timeout = deadline,
         NEW e \in log, e.alert = Sentinel
  PROVE  e.at >= start
  <1>1. e.at \in Nat /\ start \in Nat /\ e.at + Lookback + Timeout >= deadline
    BY DEF TypeInv, LogEvents, InLookback
  <1>2. QED
    BY <1>1, PollAssumption

LEMMA WaitInit == Init => WaitInv
  <1> SUFFICES ASSUME Init PROVE WaitInv
    OBVIOUS
  <1>1. pc = "trip" /\ ~(visible < MaxTime)
    BY PollAssumption DEF Init
  <1>2. QED
    BY <1>1 DEF WaitInv

\* A page that ends a search without an event: there was none to be found.
LEMMA PageWait ==
  ASSUME TypeInv, WaitInv, Page
  PROVE  WaitInv'
  <1>1. PICK page \in SUBSET unread :
          /\ pc \in {"search", "count"}
          /\ found' = found \cup page /\ unread' = unread \ page
          /\ IF IsLast(page) \/ Cardinality(found') >= Limit
             THEN Returned(found') ELSE UNCHANGED pc
          /\ UNCHANGED <<now, trips, awsVars, deadline, start, denied, settled>>
    BY PageStep, Zenon
  <1>2. /\ UNCHANGED <<now, log, deadline, start, visible, denied>>
        /\ found' \cup unread' = found \cup unread
    BY <1>1 DEF awsVars
  <1>3. /\ pc' \in {pc, "counted", "sleep", "found"}
        /\ pc' = "sleep" =>
             /\ pc = "search" /\ found' = {}
             /\ IsLast(page) \/ Cardinality(found') >= Limit
    BY <1>1, ReturnedPc
  <1>4. InLookback' <=> InLookback
    BY <1>2 DEF InLookback
  <1>5. ASSUME pc' = "sleep" PROVE found' \cup unread' = {}
    <2>1. Cardinality(found') = 0 /\ Limit > 0 /\ Limit \in Nat
      BY <1>3, <1>5, FS_EmptySet, PollAssumption DEF Limit
    <2>2. IsLast(page)
      BY <1>3, <1>5, <2>1
    <2>3. QED
      BY <1>1, <1>3, <1>5, <2>2 DEF IsLast
  <1>6. CASE pc' = "sleep"
    BY <1>2, <1>3, <1>4, <1>5, <1>6 DEF WaitInv
  <1>7. CASE pc' # "sleep"
    BY <1>1, <1>2, <1>3, <1>4, <1>7 DEF WaitInv
  <1>8. QED
    BY <1>6, <1>7

\* Without a log group there is no sentinel, or the group was denied.
LEMMA NoLogGroupWait ==
  ASSUME TypeInv, WaitInv, NoLogGroup
  PROVE  WaitInv'
  <1>1. /\ UNCHANGED <<now, log, deadline, start, visible>>
        /\ pc \in {"search", "count"} /\ Returned({})
        /\ ~denied' => log = {}
    BY DEF NoLogGroup, awsVars
  <1>2. pc' \in {"counted", "sleep", "found"} /\ (pc' = "sleep" => pc = "search")
    BY <1>1, ReturnedPc
  <1>3. log = {} => visible >= now
    BY PollAssumption DEF WaitInv, TypeInv
  <1>4. QED
    BY <1>1, <1>2, <1>3 DEF WaitInv

LEMMA WaitStep == TypeInv /\ WaitInv /\ [Next]_vars => WaitInv'
  <1> SUFFICES ASSUME TypeInv, WaitInv, [Next]_vars PROVE WaitInv'
    OBVIOUS
  <1> USE PollAssumption DEF awsVars, searchVars
  <1>0. now \in Nat /\ visible \in Nat /\ deadline \in Nat /\ now <= MaxTime
    BY DEF TypeInv
  <1>1. ASSUME NEW event \in written, Ingest(event) PROVE WaitInv'
    <2>1. /\ log' = log \cup {event} /\ UNCHANGED <<now, pc, deadline, start, found>>
          /\ visible' = IF event.alert = Sentinel /\ now < visible THEN now ELSE visible
          /\ unread \subseteq unread' /\ denied' = denied
      BY <1>1 DEF Ingest
    <2>2. InLookback' => InLookback
      BY <2>1 DEF InLookback
    <2>3. visible' < MaxTime => \E e \in log' : e.alert = Sentinel
      BY <2>1 DEF WaitInv
    <2>4. CASE event.alert = Sentinel /\ now < visible
      <3>1. visible' = now
        BY <2>1, <2>4
      <3>2. QED
        BY <2>1, <2>3, <3>1, <1>0 DEF WaitInv, FoundInTime
    <2>5. CASE ~(event.alert = Sentinel /\ now < visible)
      <3>1. visible' = visible
        BY <2>1, <2>5
      <3>2. QED
        BY <2>1, <2>2, <2>3, <3>1 DEF WaitInv, FoundInTime
    <2>6. QED
      BY <2>4, <2>5
  <1>2. CASE StartWait
    <2>1. /\ pc' = "wait" /\ deadline' = now + Timeout
          /\ start' = WindowStart(Lookback) /\ UNCHANGED <<now, log, visible, denied>>
      BY <1>2 DEF StartWait
    <2>2. start' = 0 \/ start' + Lookback + Timeout = deadline'
      BY <2>1, <1>0 DEF WindowStart
    <2>3. now < deadline'
      BY <2>1, <1>0
    <2>4. QED
      BY <2>1, <2>2, <2>3 DEF WaitInv
  <1>3. CASE Search
    <2>1. /\ pc = "wait" /\ UNCHANGED <<now, log, visible, deadline, start, denied>>
          /\ InLookback' <=> InLookback
      BY <1>3 DEF Search, InLookback
    <2>2. CASE now < deadline
      <3>1. pc' = "search" /\ unread' = Matching(log)
        BY <1>3, <2>2 DEF Search
      <3>2. ASSUME InLookback, visible < now PROVE unread' # {}
        <4>1. PICK e \in log : e.alert = Sentinel
          BY <3>2, <1>0 DEF WaitInv
        <4>2. e.at >= start
          BY <4>1, <3>2, <2>1, SentinelInWindow DEF WaitInv
        <4>3. QED
          BY <4>1, <4>2, <3>1, <2>1 DEF Matching
      <3>3. QED
        BY <2>1, <3>1, <3>2, <1>0 DEF WaitInv
    <2>3. CASE ~(now < deadline)
      <3>1. pc' = "missed"
        BY <1>3, <2>3 DEF Search
      <3>2. now >= deadline /\ (InLookback /\ ~denied => visible + 1 >= deadline)
        BY <2>1, <2>3, <1>0 DEF WaitInv
      <3>3. QED
        BY <2>1, <3>1, <3>2 DEF WaitInv, FoundInTime
    <2>4. QED
      BY <2>2, <2>3
  <1>4. CASE Page
    BY <1>4, PageWait
  <1>5. CASE AdvanceTime
    <2>1. /\ UNCHANGED <<log, visible, deadline, start, denied>> /\ now' = now + 1
          /\ pc \in {"trip", "tripped", "sleep", "found"}
          /\ pc' = IF pc = "sleep" THEN "wait" ELSE pc
          /\ InLookback' <=> InLookback
      BY <1>5 DEF AdvanceTime, InLookback
    <2>2. visible >= now => visible + 1 >= now'
      BY <2>1, <1>0
    <2>3. QED
      BY <2>1, <2>2 DEF WaitInv
  \* The rest is before the wait, behind it, or does not concern the log.
  <1>6. ASSUME UNCHANGED <<now, log, visible, deadline, start, pc, unread, found, denied>>
        PROVE  WaitInv'
    BY <1>6 DEF WaitInv, FoundInTime, InLookback
  <1>7. ASSUME UNCHANGED <<log, visible>>,
               pc' \notin {"wait", "search", "sleep", "missed"}
        PROVE  WaitInv'
    BY <1>7 DEF WaitInv
  <1>8. ASSUME NEW alert \in due, Handle(alert) \/ GiveUp(alert) PROVE WaitInv'
    BY <1>6, <1>8 DEF Handle, GiveUp
  <1>9. CASE Trip \/ TripSentinel
    BY <1>7, <1>9 DEF Trip, TripSentinel, Invoke
  <1>10. CASE Count \/ CountSearch \/ Fails
    BY <1>7, <1>10 DEF Count, CountSearch, Fails
  <1>11. CASE NoLogGroup
    BY <1>11, NoLogGroupWait
  <1>12. CASE UNCHANGED vars
    BY <1>6, <1>12 DEF vars
  <1>13. QED
    BY <1>1, <1>2, <1>3, <1>4, <1>5, <1>8, <1>9, <1>10, <1>11, <1>12 DEF Next

LEMMA WayHolds == Spec => [](TypeInv /\ WayInv)
  BY TypeInit, WayInit, TypeStep, WayStep, PTL DEF Spec

LEMMA WaitHolds == Spec => []WaitInv
  BY WayHolds, WaitInit, WaitStep, PTL DEF Spec

\* However slow the sentinel travels, and however the search is cut into pages,
\* the wait gives it up only if it could not be found one poll before the
\* deadline, or CloudWatch has denied the log group (poll_alert.py:54-100).
THEOREM SentinelIsFound == Spec => []FoundInTime
  <1>1. WaitInv => FoundInTime
    BY DEF WaitInv, FoundInTime
  <1>2. QED
    BY <1>1, WaitHolds, PTL

-----------------------------------------------------------------------------
(* The count. *)

LEMMA PageCount ==
  ASSUME TypeInv, CountInv, Page
  PROVE  CountInv'
  <1>1. PICK page \in SUBSET unread :
          /\ pc \in {"search", "count"}
          /\ found' = found \cup page /\ unread' = unread \ page
          /\ IF IsLast(page) \/ Cardinality(found') >= Limit
             THEN Returned(found') ELSE UNCHANGED pc
          /\ UNCHANGED <<now, trips, awsVars, deadline, start, denied, settled>>
    BY PageStep, Zenon
  <1>2. UNCHANGED <<due, written, log, start, settled, denied>> /\ Window' = Window
    BY <1>1 DEF awsVars, Window
  <1>3. CASE ~settled
    BY <1>2, <1>3 DEF CountInv
  <1>4. CASE settled
    <2>1. pc = "count" /\ due = {} /\ written = {}
      BY <1>1, <1>4 DEF CountInv
    <2>2. pc' \in {"count", "counted"}
      BY <1>1, <2>1, ReturnedPc
    <2>3. CASE denied
      BY <1>2, <2>1, <2>2, <2>3 DEF CountInv
    <2>4. CASE ~denied
      <3>1. found \cup unread = Window
        BY <1>4, <2>1, <2>4 DEF CountInv
      <3>2. found' \cup unread' = Window /\ found' \subseteq Window
        BY <1>1, <3>1
      <3>3. CASE IsLast(page) \/ Cardinality(found') >= Limit
        <4>1. pc' = "counted"
          BY <1>1, <2>1, <3>3, ReturnedPc
        <4>2. found' = Window \/ Cardinality(found') >= CountLimit
          BY <1>1, <2>1, <3>2, <3>3 DEF IsLast, Limit
        <4>3. QED
          BY <4>1, <4>2, <1>2, <2>1, <3>2 DEF CountInv
      <3>4. CASE ~(IsLast(page) \/ Cardinality(found') >= Limit)
        <4>1. pc' = "count"
          BY <1>1, <2>1, <3>4
        <4>2. QED
          BY <4>1, <1>2, <2>1, <3>2 DEF CountInv
      <3>5. QED
        BY <3>3, <3>4
    <2>5. QED
      BY <2>3, <2>4
  <1>5. QED
    BY <1>3, <1>4

\* With everything in the log and no event in it, none is what there is to count.
LEMMA NoLogGroupCount ==
  ASSUME TypeInv, CountInv, NoLogGroup
  PROVE  CountInv'
  <1>1. /\ UNCHANGED <<due, written, log, start, settled>> /\ found' = {}
        /\ pc \in {"search", "count"} /\ Returned({})
        /\ ~denied' => log = {}
    BY DEF NoLogGroup, awsVars
  <1>2. CASE ~settled
    BY <1>1, <1>2 DEF CountInv
  <1>3. CASE settled
    <2>1. pc = "count" /\ due = {} /\ written = {}
      BY <1>1, <1>3 DEF CountInv
    <2>2. pc' = "counted"
      BY <1>1, <2>1, ReturnedPc
    <2>3. ~denied' => Window' = {}
      BY <1>1 DEF Window
    <2>4. QED
      BY <1>1, <2>1, <2>2, <2>3 DEF CountInv
  <1>4. QED
    BY <1>2, <1>3

LEMMA CountStep == TypeInv /\ CountInv /\ [Next]_vars => CountInv'
  <1> SUFFICES ASSUME TypeInv, CountInv, [Next]_vars PROVE CountInv'
    OBVIOUS
  <1> USE DEF awsVars, searchVars
  <1>1. ASSUME ~settled, settled' = settled PROVE CountInv'
    BY <1>1 DEF CountInv
  \* Nothing is under way any more, or the count has not begun.
  <1>2. ASSUME \/ \E alert \in due : Handle(alert) \/ GiveUp(alert)
               \/ \E event \in written : Ingest(event)
               \/ Trip \/ TripSentinel \/ StartWait \/ Search \/ AdvanceTime
        PROVE  CountInv'
    <2>1. ~settled
      BY <1>2 DEF CountInv, Trip, TripSentinel, StartWait, Search, AdvanceTime
    <2>2. settled' = settled
      BY <1>2 DEF Handle, GiveUp, Ingest, Trip, TripSentinel, StartWait, Search, AdvanceTime
    <2>3. QED
      BY <2>1, <2>2, <1>1
  <1>3. CASE Page
    BY <1>3, PageCount
  <1>4. CASE NoLogGroup
    BY <1>4, NoLogGroupCount
  <1>5. CASE Fails
    BY <1>5 DEF Fails, CountInv
  <1>6. CASE Count
    <2>1. pc' = "start" /\ (settled' => due' = {} /\ written' = {})
      BY <1>6 DEF Count
    <2>2. QED
      BY <2>1 DEF CountInv
  <1>7. CASE CountSearch
    <2>1. /\ pc = "start" /\ pc' = "count" /\ found' = {} /\ unread' = Matching(log)
          /\ UNCHANGED <<due, written, log, start, settled, denied>>
      BY <1>7 DEF CountSearch
    <2>2. Matching(log) = Window
      BY <2>1 DEF Matching, Window
    <2>3. Window' = Window
      BY <2>1 DEF Window
    <2>4. QED
      BY <2>1, <2>2, <2>3 DEF CountInv
  <1>8. CASE UNCHANGED vars
    BY <1>8 DEF vars, CountInv, Window
  <1>9. QED
    BY <1>2, <1>3, <1>4, <1>5, <1>6, <1>7, <1>8 DEF Next

\* With nothing under way, a count that looks back far enough and does not hit
\* its limit is the number of the traps that were tripped, less the alerts that
\* got lost and more the times one was logged again, in whatever order they
\* arrived (poll_alert.py:54-82, 103-106; SHB_RDS.pm:138-144).
THEOREM CountOfTrips == Spec => []CountIsExact
  <1>1. Init => CountInv
    BY DEF Init, CountInv
  <1>2. TypeInv /\ WayInv /\ CountInv => CountIsExact
    <2> SUFFICES ASSUME TypeInv, WayInv, CountInv, pc = "counted", settled, ~denied,
                        trips + repeats <= CountLimit + lost, \A e \in log : e.at >= start
                 PROVE  Cardinality(found) + lost = trips + repeats
      BY DEF CountIsExact
    <2>1. /\ due = {} /\ written = {} /\ found \subseteq Window
          /\ found = Window \/ Cardinality(found) >= CountLimit
      BY DEF CountInv
    <2>2. Window = Lines /\ Fresh = {}
      BY <2>1 DEF Window, Lines, Fresh
    <2>3. /\ IsFiniteSet(Window) /\ Cardinality(Window) \in Nat
          /\ Cardinality(Window) + lost = trips + repeats
      BY <2>2, FS_EmptySet, FS_CardinalityType DEF WayInv, TypeInv
    <2>4. Cardinality(found) \in Nat /\ Cardinality(found) <= Cardinality(Window)
      BY <2>1, <2>3, FS_Subset, FS_CardinalityType
    <2>5. QED
      BY <2>1, <2>3, <2>4, PollAssumption DEF TypeInv
  <1>3. QED
    BY <1>1, <1>2, CountStep, WayHolds, PTL DEF Spec
=============================================================================
