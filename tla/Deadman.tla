------------------------------ MODULE Deadman -------------------------------
(***************************************************************************)
(* The deadman of src/tools/alert_monitor.py: main's loop over the items   *)
(* of tail_lines, with check_deadman on idle ticks, over rotations of the  *)
(* file.  Heartbeats come from several sources: the background worker      *)
(* (src/src/heartbeat.c), and the rounds of tools/heartbeat_poker.sh.      *)
(* Time advances in units of a poll; a line waits in the file until main   *)
(* has read it.  Lines are whole here (see AlertMonitor for their parts),  *)
(* and each is written to the file that the path names at that time.       *)
(***************************************************************************)
EXTENDS Naturals, Sequences

CONSTANTS
  Sources,       \* who writes heartbeats
  Interval,      \* heartbeat_interval_seconds, SHB_POKER_INTERVAL
  MaxAge,        \* heartbeat_max_age_seconds
  MaxTime,       \* bound: the clock
  MaxAlerts,     \* bound: trap events
  MaxStarts,     \* bound: times the monitor is started
  MaxRotations,  \* bound: times logrotate renames the file
  None

ASSUME TimesAssumption == Interval \in Nat \ {0} /\ MaxAge \in Nat
ASSUME BoundsAssumption ==
  /\ MaxTime \in Nat /\ MaxAlerts \in Nat
  /\ MaxStarts \in Nat \ {0} /\ MaxRotations \in Nat
ASSUME NoneAssumption == None \notin Nat

VARIABLES
  now,
  next,       \* when each source writes its next heartbeat
  alerts,     \* trap events so far
  exists,     \* the path names a file
  rotations,
  \* The monitor
  mon,        \* where it is: read, respond, post, stat, sleep
  fh,         \* its file: the one the path names, an old one, or closed
  queue,      \* lines of that file that it has not read yet
  last,       \* last_heartbeat, or None
  alerted,    \* deadman_alerted
  starts,
  \* History
  alarms,     \* the last_heartbeat of each deadman alarm
  beats,      \* of each source: time of its newest heartbeat, or None
  skipped,    \* sources whose newest heartbeat the running monitor never reads
  checked,    \* time of the last idle tick, or of the start
  delay       \* units of time since then that webhook and database took

sourceVars == <<next, alerts>>
fileVars == <<exists, rotations>>
deadmanVars == <<last, alerted, alarms>>
checkVars == <<checked, delay>>
vars == <<now, sourceVars, fileVars, mon, fh, queue, deadmanVars, starts,
          beats, skipped, checkVars>>

Heartbeat == [kind : {"heartbeat"}, from : Sources, ts : 0..MaxTime]
Alert == [kind |-> "alert"]

Init ==
  /\ now = 0
  /\ next = [s \in Sources |-> 0]
  /\ alerts = 0
  /\ exists \in BOOLEAN /\ rotations = 0
  /\ mon = "read" /\ fh = "closed" /\ queue = <<>>
  /\ last = None /\ alerted = FALSE /\ starts = 1
  /\ alarms = <<>> /\ beats = [s \in Sources |-> None] /\ skipped = {}
  /\ checked = 0 /\ delay = 0

-----------------------------------------------------------------------------
(* The sources, the trap and logrotate. *)

\* A line in the file the path names, created if need be: the monitor reads
\* it if that is the file it has open, for it opens a file at its end.
Logged(line) ==
  /\ exists' = TRUE
  /\ queue' = IF fh = "current" THEN Append(queue, line) ELSE queue
  /\ UNCHANGED rotations

\* The heartbeat gets to the file, or not: the source is down (a crash, an
\* unreachable replica), or its write fails.  It keeps its rhythm.
BeatEvery(s, pause) ==
  /\ now = next[s]
  /\ next' = [next EXCEPT ![s] = now + pause]
  /\ \/ /\ Logged([kind |-> "heartbeat", from |-> s, ts |-> now])
        /\ beats' = [beats EXCEPT ![s] = now]
        /\ skipped' = IF fh = "current" THEN skipped \ {s} ELSE skipped \cup {s}
     \/ UNCHANGED <<fileVars, queue, beats, skipped>>
  /\ UNCHANGED <<now, alerts, mon, fh, deadmanVars, starts, checkVars>>

\* The sleep is one unit too long.
Beat_Late(s) == BeatEvery(s, Interval + 1)

\* shb_heartbeat_main, or one round of the poker, logs and sleeps.
Beat(s) == BeatEvery(s, Interval)

Trap ==
  /\ alerts < MaxAlerts
  /\ alerts' = alerts + 1
  /\ Logged(Alert)
  /\ UNCHANGED <<now, next, mon, fh, deadmanVars, starts, beats, skipped,
                 checkVars>>

\* logrotate renames the file: a monitor that has it open keeps it.
Rename ==
  /\ exists /\ rotations < MaxRotations
  /\ exists' = FALSE
  /\ rotations' = rotations + 1
  /\ fh' = IF fh = "current" THEN "old" ELSE fh
  /\ UNCHANGED <<now, sourceVars, mon, queue, deadmanVars, starts, beats,
                 skipped, checkVars>>

\* logrotate creates the new file, unless a writer did.
Create ==
  /\ ~exists
  /\ exists' = TRUE
  /\ UNCHANGED <<now, sourceVars, rotations, mon, fh, queue, deadmanVars,
                 starts, beats, skipped, checkVars>>

-----------------------------------------------------------------------------
(* The monitor. *)

\* The path exists: open it and seek to its end.
OpenFile ==
  /\ mon = "read" /\ fh = "closed" /\ exists
  /\ fh' = "current"
  /\ UNCHANGED <<now, sourceVars, fileVars, mon, queue, deadmanVars, starts,
                 beats, skipped, checkVars>>

\* deadman_alerted stays set when the heartbeats come back.
Resumed_NoReset == UNCHANGED alerted

Resumed == alerted' = FALSE

\* A heartbeat line with a timestamp that parses.
ReadHeartbeat ==
  /\ mon = "read"
  /\ queue # <<>> /\ Head(queue).kind = "heartbeat"
  /\ queue' = Tail(queue)
  /\ last' = Head(queue).ts /\ Resumed
  /\ UNCHANGED <<now, sourceVars, fileVars, mon, fh, starts, alarms, beats,
                 skipped, checkVars>>

\* Any other event: suppressed, or answered by respond, whose webhook and
\* database session keep main from everything else.
ReadAlert ==
  /\ mon = "read"
  /\ queue # <<>> /\ Head(queue).kind = "alert"
  /\ queue' = Tail(queue)
  /\ mon' \in {"read", "respond"}
  /\ UNCHANGED <<now, sourceVars, fileVars, fh, deadmanVars, starts, beats,
                 skipped, checkVars>>

\* respond returns: at once, after any time (the webhook waits 5 s and more,
\* connect and execute have no limit), or never.
EndResponse ==
  /\ mon = "respond"
  /\ mon' = "read"
  /\ UNCHANGED <<now, sourceVars, fileVars, fh, queue, deadmanVars, starts,
                 beats, skipped, checkVars>>

TooOld == last # None /\ now - last > MaxAge

RaiseAlarm ==
  /\ alarms' = Append(alarms, last)
  /\ mon' = "post"

\* The alarm is raised again on every idle tick of the same silence.
CheckDeadman_Repeats ==
  /\ IF TooOld THEN RaiseAlarm ELSE alarms' = alarms /\ mon' = "stat"
  /\ UNCHANGED alerted

\* check_deadman: the alarm goes to the webhook.
CheckDeadman ==
  IF TooOld /\ ~alerted
  THEN RaiseAlarm /\ alerted' = TRUE
  ELSE mon' = "stat" /\ UNCHANGED <<alerted, alarms>>

\* The deadman is checked whatever is still unread.
NothingUnread_Early == TRUE

\* readline returns nothing at the end of the file that is open.
NothingUnread == queue = <<>>

\* tail_lines yields None: no file at the path, or at the end of the file.
IdleTick ==
  /\ mon = "read"
  /\ IF fh = "closed" THEN ~exists ELSE NothingUnread
  /\ CheckDeadman
  /\ checked' = now /\ delay' = 0
  /\ UNCHANGED <<now, sourceVars, fileVars, fh, queue, last, starts, beats,
                 skipped>>

\* post_webhook returns: after any time, as in respond.
EndPost ==
  /\ mon = "post"
  /\ mon' = "stat"
  /\ UNCHANGED <<now, sourceVars, fileVars, fh, queue, deadmanVars, starts,
                 beats, skipped, checkVars>>

\* path.stat(): the path names another file, or none.  The one that is open
\* is left with what was written to it since the idle tick.
Stat ==
  /\ mon = "stat"
  /\ mon' = "sleep"
  /\ IF fh = "old"
     THEN /\ fh' = "closed" /\ queue' = <<>>
          /\ skipped' = skipped \cup
               {s \in Sources : \E j \in 1..Len(queue) :
                  queue[j].kind = "heartbeat" /\ queue[j].from = s}
     ELSE UNCHANGED <<fh, queue, skipped>>
  /\ UNCHANGED <<now, sourceVars, fileVars, deadmanVars, starts, beats, checkVars>>

\* The monitor is started again: it forgets the last heartbeat, and seeks to
\* the end of the file.
Restart ==
  /\ starts < MaxStarts
  /\ starts' = starts + 1
  /\ last' = None /\ alerted' = FALSE
  /\ mon' = "read" /\ fh' = "closed" /\ queue' = <<>>
  /\ skipped' = {} /\ checked' = now /\ delay' = 0
  /\ UNCHANGED <<now, sourceVars, fileVars, alarms, beats>>

-----------------------------------------------------------------------------

\* Due heartbeats are written, and the monitor sleeps for one unit or is held
\* by a response; what it does besides takes no time.
AdvanceTime ==
  /\ now < MaxTime
  /\ \A s \in Sources : next[s] > now
  /\ now' = now + 1
  /\ \/ mon = "sleep" /\ mon' = "read" /\ delay' = delay
     \/ mon \in {"respond", "post"} /\ mon' = mon /\ delay' = delay + 1
  /\ UNCHANGED <<sourceVars, fileVars, fh, queue, deadmanVars, starts, beats,
                 skipped, checked>>

Next ==
  \/ \E s \in Sources : Beat(s)
  \/ Trap \/ Rename \/ Create
  \/ OpenFile \/ ReadHeartbeat \/ ReadAlert \/ EndResponse
  \/ IdleTick \/ EndPost \/ Stat \/ Restart
  \/ AdvanceTime

Spec == Init /\ [][Next]_vars

-----------------------------------------------------------------------------
(* Properties. *)

\* Types; each source is due within an interval (heartbeat.c:53-61,
\* heartbeat_poker.sh:80).
TypeOK ==
  /\ now \in 0..MaxTime
  /\ next \in [Sources -> 0..(MaxTime + Interval)]
  /\ \A s \in Sources : next[s] \in now..(now + Interval)
  /\ alerts \in 0..MaxAlerts
  /\ exists \in BOOLEAN /\ rotations \in 0..MaxRotations
  /\ mon \in {"read", "respond", "post", "stat", "sleep"}
  /\ fh \in {"current", "old", "closed"}
  /\ queue \in Seq(Heartbeat \cup {Alert})
  /\ last \in 0..MaxTime \cup {None}
  /\ alerted \in BOOLEAN
  /\ starts \in 1..MaxStarts
  /\ beats \in [Sources -> 0..MaxTime \cup {None}]
  /\ skipped \subseteq Sources
  /\ checked \in 0..MaxTime /\ delay \in 0..MaxTime

\* An alarm tells the truth, however long responses have held the monitor up
\* (the check is made on idle ticks only, alert_monitor.py:254-257): when it
\* is raised, no source has a heartbeat of the last MaxAge units, read or
\* unread.  Excepted are the sources whose newest heartbeat tail_lines never
\* reads: it leaves the old file behind its last idle tick, and opens the new
\* one at its end (alert_monitor.py:104, 113-119).
AlarmIsTrue ==
  [][alarms' # alarms =>
       \A s \in Sources :
         \/ beats[s] = None
         \/ now - beats[s] > MaxAge
         \/ s \in skipped]_vars

\* One silence, one alarm: between two alarms, of one monitor or of one and
\* its successor, a newer heartbeat was read (deadman_alerted, and a start
\* that forgets the last heartbeat, alert_monitor.py:233-246, 271).
OneAlarmPerSilence ==
  [][alarms' # alarms /\ alarms # <<>> => last > alarms[Len(alarms)]]_vars

\* The alarm for the silence that the monitor sees now has been raised.
Alarmed == alarms # <<>> /\ alarms[Len(alarms)] = last

\* A running monitor raises an alarm one poll after the last heartbeat it has
\* read has become too old, for every silence: for the second one as for the
\* first, over rotations, and whatever it read late.  Only the time that
\* webhook and database have taken since the last idle tick comes on top, and
\* that has no bound (alert_monitor.py:147, 174-187, 239-257, 271).
SilenceIsNoticed ==
  (last # None /\ now - last > MaxAge + 1 + delay) => Alarmed
=============================================================================
