---------------------------- MODULE DeadmanProofs ----------------------------
(***************************************************************************)
(* Proofs about the deadman of the alert monitor, for any number of        *)
(* sources, any interval and any maximum age, and any number of restarts,  *)
(* rotations and events, each answered in any time.                        *)
(***************************************************************************)
EXTENDS Deadman, TLAPS

Lines == Heartbeat \cup {Alert}

\* The positions of the heartbeats among some lines.
Beats(q) == {j \in 1..Len(q) : q[j].kind = "heartbeat"}

-----------------------------------------------------------------------------
(* Lines are read from the front and added at the end. *)

LEMMA LineKinds ==
  /\ \A l \in Lines : l.kind \in {"heartbeat", "alert"}
  /\ \A l \in Lines : l.kind = "heartbeat" => l.ts \in 0..MaxTime
  BY DEF Lines, Heartbeat, Alert

LEMMA FirstLine ==
  ASSUME NEW q \in Seq(Lines), q # <<>>
  PROVE  /\ Len(q) \in Nat \ {0} /\ Head(q) = q[1] /\ Head(q) \in Lines
         /\ Tail(q) \in Seq(Lines) /\ Len(Tail(q)) = Len(q) - 1
         /\ \A j \in 1..Len(Tail(q)) : j + 1 \in 2..Len(q) /\ Tail(q)[j] = q[j + 1]
         /\ \A j \in 2..Len(q) :
              j - 1 \in 1..Len(Tail(q)) /\ Tail(q)[j - 1] = q[j]
  OBVIOUS

LEMMA LineAdded ==
  ASSUME NEW q \in Seq(Lines), NEW l \in Lines
  PROVE  /\ Append(q, l) \in Seq(Lines) /\ Len(q) \in Nat
         /\ Len(Append(q, l)) = Len(q) + 1
         /\ \A j \in 1..Len(q) : Append(q, l)[j] = q[j]
         /\ Append(q, l)[Len(q) + 1] = l
  OBVIOUS

\* Reading a heartbeat takes the first of them.
LEMMA BeatsOfTail ==
  ASSUME NEW q \in Seq(Lines), q # <<>>
  PROVE  /\ \A j \in Beats(Tail(q)) :
              /\ j + 1 \in Beats(q) /\ j + 1 > 1 /\ Tail(q)[j] = q[j + 1]
         /\ \A j \in Beats(q) :
              j > 1 => j - 1 \in Beats(Tail(q)) /\ Tail(q)[j - 1] = q[j]
         /\ 1 \in Beats(q) <=> Head(q).kind = "heartbeat"
  <1>1. \A j \in Beats(q) : j \in Nat /\ (j > 1 => j \in 2..Len(q))
    BY FirstLine DEF Beats
  <1>2. QED
    BY <1>1, FirstLine DEF Beats

LEMMA BeatsOfAppend ==
  ASSUME NEW q \in Seq(Lines), NEW l \in Lines
  PROVE  /\ \A j \in Beats(q) : j \in Beats(Append(q, l)) /\ Append(q, l)[j] = q[j]
         /\ \A j \in Beats(Append(q, l)) :
              \/ j \in Beats(q) /\ Append(q, l)[j] = q[j]
              \/ j = Len(q) + 1 /\ l.kind = "heartbeat" /\ Append(q, l)[j] = l
         /\ l.kind = "heartbeat" => Len(q) + 1 \in Beats(Append(q, l))
  BY LineAdded DEF Beats

-----------------------------------------------------------------------------
(* Type correctness. *)

TypeInv ==
  /\ TypeOK
  /\ alarms \in Seq(0..MaxTime)
  /\ delay <= now /\ checked <= now

LEMMA TypeInit == Init => TypeInv
  <1> SUFFICES ASSUME Init PROVE TypeInv
    OBVIOUS
  <1>1. /\ 0 \in 0..MaxTime /\ 0 \in 0..(MaxTime + Interval) /\ 1 \in 1..MaxStarts
        /\ 0 \in 0..MaxAlerts /\ 0 \in 0..MaxRotations /\ 0 <= 0
    BY BoundsAssumption, TimesAssumption
  <1>2. queue \in Seq(Heartbeat \cup {Alert}) /\ alarms \in Seq(0..MaxTime)
    BY DEF Init
  <1>3. next \in [Sources -> 0..(MaxTime + Interval)]
    BY <1>1 DEF Init
  <1>4. beats \in [Sources -> 0..MaxTime \cup {None}]
    BY DEF Init
  <1>5. alerted \in BOOLEAN /\ exists \in BOOLEAN
    BY DEF Init
  <1>6. \A s \in Sources : next[s] \in now..(now + Interval)
    <2>1. 0 \in 0..(0 + Interval)
      BY TimesAssumption
    <2>2. QED
      BY <2>1 DEF Init
  <1>7. QED
    BY <1>1, <1>2, <1>3, <1>4, <1>5, <1>6, Zenon DEF Init, TypeInv, TypeOK

\* A line that is written keeps the types of what it changes.
LEMMA LoggedType ==
  ASSUME TypeInv, NEW l \in Lines, Logged(l)
  PROVE  exists' \in BOOLEAN /\ rotations' = rotations
         /\ queue' \in Seq(Heartbeat \cup {Alert})
  <1>1. Append(queue, l) \in Seq(Lines)
    BY LineAdded DEF TypeInv, TypeOK, Lines
  <1>2. queue' \in Seq(Lines)
    BY <1>1 DEF Logged, TypeInv, TypeOK, Lines
  <1>3. QED
    BY <1>2 DEF Logged, Lines

LEMMA TypeStep == TypeInv /\ [Next]_vars => TypeInv'
  <1> SUFFICES ASSUME TypeInv, [Next]_vars PROVE TypeInv'
    OBVIOUS
  <1> USE DEF TypeInv, TypeOK, sourceVars, fileVars, deadmanVars, checkVars
  <1>0. /\ queue \in Seq(Lines) /\ Alert \in Lines
        /\ <<>> \in Seq(Heartbeat \cup {Alert})
    BY DEF Lines
  <1>1. ASSUME NEW s \in Sources, Beat(s) PROVE TypeInv'
    <2>1. PICK l : l = [kind |-> "heartbeat", from |-> s, ts |-> now]
      OBVIOUS
    <2>2. l \in Lines
      BY <2>1 DEF Heartbeat, Lines
    <2>3. /\ exists' \in BOOLEAN /\ rotations' = rotations
          /\ queue' \in Seq(Heartbeat \cup {Alert})
      <3>1. CASE Logged(l)
        BY <2>2, <3>1, LoggedType
      <3>2. CASE UNCHANGED <<fileVars, queue>>
        BY <3>2
      <3>3. QED
        BY <1>1, <2>1, <3>1, <3>2 DEF Beat, BeatEvery
    <2>4. beats' \in [Sources -> 0..MaxTime \cup {None}] /\ skipped' \subseteq Sources
      BY <1>1 DEF Beat, BeatEvery
    <2>5. next' \in [Sources -> 0..(MaxTime + Interval)]
      <3>1. now + Interval \in 0..(MaxTime + Interval)
        BY BoundsAssumption, TimesAssumption
      <3>2. QED
        BY <1>1, <3>1 DEF Beat, BeatEvery
    <2>6. \A r \in Sources : next'[r] \in now..(now + Interval)
      BY <1>1, TimesAssumption DEF Beat, BeatEvery
    <2>7. QED
      BY <1>1, <2>3, <2>4, <2>5, <2>6 DEF Beat, BeatEvery
  <1>2. CASE Trap
    <2>1. /\ exists' \in BOOLEAN /\ rotations' = rotations
          /\ queue' \in Seq(Heartbeat \cup {Alert})
      BY <1>0, <1>2, LoggedType DEF Trap
    <2>2. alerts' \in 0..MaxAlerts
      BY <1>2, BoundsAssumption DEF Trap
    <2>3. QED
      BY <1>2, <2>1, <2>2 DEF Trap
  <1>3. CASE Rename
    <2>1. rotations' \in 0..MaxRotations
      BY <1>3, BoundsAssumption DEF Rename
    <2>2. fh' \in {"current", "old", "closed"} /\ exists' \in BOOLEAN
      BY <1>3 DEF Rename
    <2>3. QED
      BY <1>3, <2>1, <2>2 DEF Rename
  <1>4. CASE Create
    BY <1>4 DEF Create
  <1>5. CASE OpenFile
    BY <1>5 DEF OpenFile
  <1>6. CASE ReadHeartbeat
    <2>1. queue' \in Seq(Lines) /\ last' \in 0..MaxTime
      BY <1>0, <1>6, FirstLine, LineKinds DEF ReadHeartbeat
    <2>2. QED
      BY <1>6, <2>1 DEF ReadHeartbeat, Resumed, Lines
  <1>7. CASE ReadAlert
    <2>1. queue' \in Seq(Lines)
      BY <1>0, <1>7, FirstLine DEF ReadAlert
    <2>2. mon' \in {"read", "respond", "post", "stat", "sleep"}
      BY <1>7 DEF ReadAlert
    <2>3. QED
      BY <1>7, <2>1, <2>2 DEF ReadAlert, Lines
  <1>8. CASE EndResponse
    BY <1>8 DEF EndResponse
  <1>9. CASE IdleTick
    <2>1. TooOld => Append(alarms, last) \in Seq(0..MaxTime)
      BY DEF TooOld
    <2>2. /\ alarms' \in Seq(0..MaxTime) /\ alerted' \in BOOLEAN
          /\ mon' \in {"read", "respond", "post", "stat", "sleep"}
      BY <1>9, <2>1 DEF IdleTick, CheckDeadman, RaiseAlarm
    <2>3. delay' \in 0..MaxTime /\ delay' <= now /\ checked' = now
      BY <1>9, BoundsAssumption DEF IdleTick
    <2>4. QED
      BY <1>9, <2>2, <2>3 DEF IdleTick
  <1>10. CASE EndPost
    BY <1>10 DEF EndPost
  <1>11. CASE Stat
    <2>1. /\ fh' = "closed" \/ fh' = fh
          /\ queue' = <<>> \/ queue' = queue
      BY <1>11 DEF Stat
    <2>2. queue' \in Seq(Heartbeat \cup {Alert}) /\ fh' \in {"current", "old", "closed"}
      BY <1>0, <2>1
    <2>3. skipped' \subseteq Sources
      BY <1>11 DEF Stat
    <2>4. QED
      BY <1>11, <2>2, <2>3 DEF Stat
  <1>12. CASE Restart
    <2>1. starts' \in 1..MaxStarts /\ delay' \in 0..MaxTime /\ delay' <= now
      <3>1. starts' = starts + 1 /\ starts < MaxStarts /\ delay' = 0
        BY <1>12 DEF Restart
      <3>2. QED
        BY <3>1, BoundsAssumption
    <2>2. queue' \in Seq(Heartbeat \cup {Alert}) /\ alerted' \in BOOLEAN
      BY <1>0, <1>12 DEF Restart
    <2>3. QED
      BY <1>12, <2>1, <2>2 DEF Restart
  <1>13. CASE AdvanceTime
    <2>1. /\ now' \in 0..MaxTime /\ delay' \in 0..MaxTime /\ delay' <= now'
          /\ checked <= now'
      BY <1>13, BoundsAssumption DEF AdvanceTime
    <2>2. mon' \in {"read", "respond", "post", "stat", "sleep"}
      BY <1>13 DEF AdvanceTime
    <2>3. \A s \in Sources : next[s] \in (now + 1)..(now + 1 + Interval)
      <3> TAKE s \in Sources
      <3>1. next[s] \in Nat /\ next[s] > now /\ next[s] <= now + Interval
        BY <1>13, TimesAssumption DEF AdvanceTime
      <3>2. QED
        BY <3>1, TimesAssumption
    <2>4. QED
      BY <1>13, <2>1, <2>2, <2>3 DEF AdvanceTime
  <1>14. CASE UNCHANGED vars
    BY <1>14 DEF vars
  <1>15. QED
    BY <1>1, <1>2, <1>3, <1>4, <1>5, <1>6, <1>7, <1>8, <1>9, <1>10, <1>11,
       <1>12, <1>13, <1>14 DEF Next

LEMMA TypesHold == Spec => []TypeInv
  BY TypeInit, TypeStep, PTL DEF Spec

\* The variables keep their types: the clock, the file and the heartbeats that
\* wait in it, the deadman's memory and its alarms (alert_monitor.py:97-119,
\* 233-271).
THEOREM TypeCorrect == Spec => []TypeOK
  <1>1. TypeInv => TypeOK
    BY DEF TypeInv
  <1>2. QED
    BY <1>1, TypesHold, PTL

-----------------------------------------------------------------------------
(* Why the deadman is right.                                               *)
(*                                                                         *)
(* The heartbeats that wait are in the order of their times, no older than *)
(* the last idle tick and than what the monitor has read (OrderInv); a     *)
(* monitor without a file has nothing to read.  The newest heartbeat of    *)
(* each source waits, or the monitor has seen one as new, unless it was    *)
(* skipped or the monitor was started since (FreshInv): so on an idle tick *)
(* what the monitor knows is all there is.  Between two alarms a newer     *)
(* heartbeat is read (AlertedInv, SilenceInv): whatever waits was written  *)
(* after the alarm.  And no more than one poll passes without an idle tick *)
(* but for the time that responses take (DelayInv), while each idle tick   *)
(* finds the last heartbeat young enough or raises the alarm.              *)

OrderInv ==
  /\ \A j \in Beats(queue) : checked <= queue[j].ts /\ queue[j].ts <= now
  /\ \A j, k \in Beats(queue) : j <= k => queue[j].ts <= queue[k].ts
  /\ fh = "closed" => queue = <<>>

\* What is known of the newest heartbeat of s, at time b.
Seen(s, b) ==
  \/ \E j \in Beats(queue) : queue[j].from = s /\ queue[j].ts >= b
  \/ /\ last # None => last >= b
     /\ \A j \in Beats(queue) : queue[j].ts >= b

FreshInv ==
  \A s \in Sources : beats[s] # None =>
    beats[s] <= now /\ (s \in skipped \/ Seen(s, beats[s]))

AlertedInv == alerted => Alarmed

SilenceInv ==
  alarms # <<>> =>
    LET newest == alarms[Len(alarms)] IN
      /\ now > newest
      /\ \A j \in Beats(queue) : queue[j].ts > newest
      /\ alerted \/ last = None \/ last > newest

\* The monitor is past its sleep and has not made the next check.
Awake == mon \in {"read", "respond"}

DelayInv ==
  /\ now - checked <= delay + (IF Awake THEN 1 ELSE 0)
  /\ last # None => \/ last >= checked
                    \/ checked - last <= MaxAge
                    \/ Alarmed

DeadmanInv ==
  TypeInv /\ OrderInv /\ FreshInv /\ AlertedInv /\ SilenceInv /\ DelayInv

LEMMA DeadmanInit == Init => DeadmanInv
  <1> SUFFICES ASSUME Init PROVE DeadmanInv
    OBVIOUS
  <1>1. TypeInv
    BY TypeInit
  <1>2. queue = <<>> /\ Beats(queue) = {}
    BY DEF Init, Beats
  <1>3. OrderInv /\ FreshInv /\ AlertedInv /\ SilenceInv /\ DelayInv
    BY <1>2 DEF Init, OrderInv, FreshInv, AlertedInv, SilenceInv, DelayInv, Awake
  <1>4. QED
    BY <1>1, <1>3 DEF DeadmanInv

\* What the types say of the clock and of the heartbeats.
LEMMA Times ==
  ASSUME TypeInv
  PROVE  /\ now \in Nat /\ checked \in Nat /\ delay \in Nat /\ queue \in Seq(Lines)
         /\ last # None => last \in Nat
         /\ \A s \in Sources : beats[s] # None => beats[s] \in Nat
         /\ \A j \in Beats(queue) : j \in Nat /\ queue[j].ts \in Nat
         /\ alarms # <<>> => alarms[Len(alarms)] \in Nat
  <1> USE DEF TypeInv, TypeOK
  <1>1. queue \in Seq(Lines)
    BY DEF Lines
  <1>2. now \in Nat /\ checked \in Nat /\ delay \in Nat /\ (last # None => last \in Nat)
    OBVIOUS
  <1>3. \A j \in Beats(queue) : j \in Nat /\ queue[j].ts \in Nat
    BY <1>1, LineKinds DEF Beats
  <1>4. alarms # <<>> => alarms[Len(alarms)] \in Nat
    <2> DEFINE Time == 0..MaxTime
    <2>1. \A j \in 1..Len(alarms) : alarms[j] \in Nat
      <3>1. alarms \in Seq(Time) /\ \A t \in Time : t \in Nat
        OBVIOUS
      <3> HIDE DEF Time
      <3>2. \A j \in 1..Len(alarms) : alarms[j] \in Time
        BY <3>1
      <3>3. QED
        BY <3>1, <3>2
    <2>2. alarms # <<>> => Len(alarms) \in 1..Len(alarms)
      OBVIOUS
    <2>3. QED
      BY <2>1, <2>2
  <1>5. \A s \in Sources : beats[s] # None => beats[s] \in Nat
    OBVIOUS
  <1>6. QED
    BY <1>1, <1>2, <1>3, <1>4, <1>5

-----------------------------------------------------------------------------
(* Steps of the sources and of logrotate. *)

\* A heartbeat is written with the present time, which no line is ahead of.
LEMMA BeatLogged ==
  ASSUME DeadmanInv, TypeInv', NEW s \in Sources, BeatEvery(s, Interval),
         beats' = [beats EXCEPT ![s] = now], fh = "current",
         Logged([kind |-> "heartbeat", from |-> s, ts |-> now]),
         skipped' = skipped \ {s}
  PROVE  DeadmanInv'
  <1>1. PICK l \in Lines : l = [kind |-> "heartbeat", from |-> s, ts |-> now]
    BY DEF DeadmanInv, TypeInv, TypeOK, Lines, Heartbeat
  <1>2. /\ queue' = Append(queue, l)
        /\ UNCHANGED <<now, mon, fh, last, alerted, alarms, checked, delay>>
        /\ l.kind = "heartbeat" /\ l.ts = now /\ l.from = s
    BY <1>1 DEF BeatEvery, Logged, deadmanVars, checkVars
  <1>3. TypeInv /\ fh' = "current"
    BY <1>2 DEF DeadmanInv
  <1>4. /\ now \in Nat /\ queue \in Seq(Lines) /\ checked \in Nat
        /\ \A x \in Sources : beats[x] # None => beats[x] \in Nat
        /\ \A j \in Beats(queue) : j \in Nat /\ queue[j].ts \in Nat /\ j < Len(queue) + 1
        /\ alarms # <<>> => alarms[Len(alarms)] \in Nat
        /\ checked <= now
    <2>1. \A j \in Beats(queue) : j < Len(queue) + 1
      BY <1>3, Times DEF Beats
    <2>2. checked <= now
      BY <1>3 DEF TypeInv
    <2>3. QED
      BY <1>3, <2>1, <2>2, Times
  <1>5. /\ \A j \in Beats(queue) : j \in Beats(queue') /\ queue'[j] = queue[j]
        /\ \A j \in Beats(queue') :
             \/ j \in Beats(queue) /\ queue'[j] = queue[j]
             \/ j = Len(queue) + 1 /\ queue'[j].ts = now
        /\ Len(queue) + 1 \in Beats(queue')
        /\ queue'[Len(queue) + 1].ts = now /\ queue'[Len(queue) + 1].from = s
    <2>1. queue'[Len(queue) + 1] = l
      BY <1>2, <1>4, LineAdded
    <2>2. /\ \A j \in Beats(queue) :
               j \in Beats(Append(queue, l)) /\ Append(queue, l)[j] = queue[j]
          /\ \A j \in Beats(Append(queue, l)) :
               \/ j \in Beats(queue) /\ Append(queue, l)[j] = queue[j]
               \/ /\ j = Len(queue) + 1 /\ l.kind = "heartbeat"
                  /\ Append(queue, l)[j] = l
          /\ l.kind = "heartbeat" => Len(queue) + 1 \in Beats(Append(queue, l))
      BY <1>4, BeatsOfAppend
    <2>3. QED
      BY <2>1, <2>2, <1>2, Zenon
  <1>6. OrderInv'
    <2>1. \A j \in Beats(queue') : checked <= queue'[j].ts /\ queue'[j].ts <= now
      BY <1>4, <1>5 DEF DeadmanInv, OrderInv
    <2>2. \A j, k \in Beats(queue') : j <= k => queue'[j].ts <= queue'[k].ts
      BY <1>4, <1>5, <2>1 DEF DeadmanInv, OrderInv
    <2>3. QED
      BY <1>2, <1>3, <2>1, <2>2 DEF OrderInv
  <1>7. FreshInv'
    <2> SUFFICES ASSUME NEW x \in Sources, beats'[x] # None
                 PROVE  beats'[x] <= now /\ (x \in skipped' \/ Seen(x, beats[x])')
      BY <1>2 DEF FreshInv
    <2>1. CASE x = s
      <3>1. beats'[x] = now
        BY <2>1, <1>3 DEF TypeInv, TypeOK
      <3>2. \E j \in Beats(queue') : queue'[j].from = x /\ queue'[j].ts >= now
        BY <1>4, <1>5, <2>1
      <3>3. QED
        BY <1>4, <3>1, <3>2 DEF Seen
    <2>2. CASE x # s
      <3>1. beats'[x] = beats[x] /\ (x \in skipped => x \in skipped')
        BY <2>2, <1>3 DEF TypeInv, TypeOK
      <3>2. beats[x] <= now /\ (x \in skipped \/ Seen(x, beats[x]))
        BY <3>1 DEF DeadmanInv, FreshInv
      <3>3. Seen(x, beats[x]) => Seen(x, beats[x])'
        <4>1. CASE \E j \in Beats(queue) : queue[j].from = x /\ queue[j].ts >= beats[x]
          BY <1>5, <3>1, <4>1 DEF Seen
        <4>2. CASE /\ last # None => last >= beats[x]
                   /\ \A j \in Beats(queue) : queue[j].ts >= beats[x]
          <5>1. now >= beats[x]
            BY <1>4, <3>1, <3>2
          <5>2. \A j \in Beats(queue') : queue'[j].ts >= beats[x]
            BY <1>5, <4>2, <5>1
          <5>3. QED
            BY <1>2, <3>1, <4>2, <5>2 DEF Seen
        <4>3. QED
          BY <4>1, <4>2 DEF Seen
      <3>4. QED
        BY <3>1, <3>2, <3>3
    <2>3. QED
      BY <2>1, <2>2
  <1>8. AlertedInv' /\ DelayInv'
    BY <1>2 DEF DeadmanInv, AlertedInv, DelayInv, Alarmed, Awake
  <1>9. SilenceInv'
    BY <1>2, <1>4, <1>5 DEF DeadmanInv, SilenceInv
  <1>10. QED
    BY <1>6, <1>7, <1>8, <1>9 DEF DeadmanInv

\* A heartbeat written to a file that the monitor does not have open is
\* skipped.
LEMMA BeatSkipped ==
  ASSUME DeadmanInv, TypeInv', NEW s \in Sources, BeatEvery(s, Interval),
         beats' = [beats EXCEPT ![s] = now], UNCHANGED queue,
         skipped' = skipped \cup {s}
  PROVE  DeadmanInv'
  <1>1. UNCHANGED <<now, mon, fh, queue, last, alerted, alarms, checked, delay>>
    BY DEF BeatEvery, deadmanVars, checkVars
  <1>2. OrderInv' /\ AlertedInv' /\ SilenceInv' /\ DelayInv'
    BY <1>1 DEF DeadmanInv, OrderInv, AlertedInv, SilenceInv, DelayInv, Alarmed, Awake
  <1>3. FreshInv'
    <2> SUFFICES ASSUME NEW x \in Sources, beats'[x] # None
                 PROVE  beats'[x] <= now /\ (x \in skipped' \/ Seen(x, beats[x])')
      BY <1>1 DEF FreshInv
    <2>1. CASE x = s
      BY <2>1, Times DEF DeadmanInv, TypeInv, TypeOK
    <2>2. CASE x # s
      BY <1>1, <2>2 DEF DeadmanInv, TypeInv, TypeOK, FreshInv, Seen
    <2>3. QED
      BY <2>1, <2>2
  <1>4. QED
    BY <1>2, <1>3 DEF DeadmanInv

\* An event adds a line that is no heartbeat, or none that is read.
LEMMA TrapStep ==
  ASSUME DeadmanInv, TypeInv', Trap
  PROVE  DeadmanInv'
  <1>1. /\ UNCHANGED <<now, mon, fh, beats, skipped, last, alerted, alarms, checked, delay>>
        /\ \/ queue' = Append(queue, Alert) /\ fh = "current"
           \/ queue' = queue
    BY DEF Trap, Logged, deadmanVars, checkVars
  <1>2. TypeInv /\ Alert \in Lines /\ Alert.kind = "alert"
    BY DEF DeadmanInv, Lines, Alert
  <1>3. queue \in Seq(Lines) /\ \A j \in Beats(queue) : j \in 1..Len(queue)
    BY <1>2, Times DEF Beats
  <1>4. /\ Beats(queue') = Beats(queue)
        /\ \A j \in Beats(queue) : queue'[j] = queue[j]
    <2>1. CASE queue' = Append(queue, Alert)
      <3>1. \A j \in 1..Len(queue) : queue'[j] = queue[j]
        BY <1>2, <1>3, <2>1, LineAdded
      <3>2. Len(queue') = Len(queue) + 1 /\ queue'[Len(queue) + 1] = Alert
        BY <1>2, <1>3, <2>1, LineAdded
      <3>3. \A j \in 1..Len(queue') : j \in 1..Len(queue) \/ j = Len(queue) + 1
        BY <3>2, <1>3
      <3>4. QED
        BY <1>2, <1>3, <3>1, <3>2, <3>3 DEF Beats
    <2>2. QED
      BY <1>1, <2>1
  <1>5. OrderInv'
    BY <1>1, <1>4 DEF DeadmanInv, OrderInv
  <1>6. FreshInv' /\ AlertedInv' /\ SilenceInv' /\ DelayInv'
    BY <1>1, <1>4
       DEF DeadmanInv, FreshInv, Seen, AlertedInv, SilenceInv, DelayInv, Alarmed, Awake
  <1>7. QED
    BY <1>5, <1>6 DEF DeadmanInv

-----------------------------------------------------------------------------
(* Steps of the monitor. *)

\* The heartbeat that is read is the oldest one that waits.
LEMMA ReadHeartbeatStep ==
  ASSUME DeadmanInv, TypeInv', ReadHeartbeat
  PROVE  DeadmanInv'
  <1>1. /\ queue # <<>> /\ Head(queue).kind = "heartbeat" /\ ~alerted'
        /\ queue' = Tail(queue) /\ last' = Head(queue).ts
        /\ UNCHANGED <<now, mon, fh, beats, skipped, alarms, checked, delay>>
    BY DEF ReadHeartbeat, Resumed, checkVars
  <1>2. TypeInv
    BY DEF DeadmanInv
  <1>3. /\ now \in Nat /\ queue \in Seq(Lines) /\ checked \in Nat
        /\ \A x \in Sources : beats[x] # None => beats[x] \in Nat
        /\ \A j \in Beats(queue) : j \in Nat /\ queue[j].ts \in Nat
        /\ alarms # <<>> => alarms[Len(alarms)] \in Nat
    BY <1>2, Times
  <1>4. 1 \in Beats(queue) /\ Head(queue) = queue[1]
    BY <1>1, <1>3, BeatsOfTail, FirstLine
  <1>5. /\ \A j \in Beats(queue') :
             /\ j + 1 \in Beats(queue) /\ j \in Nat /\ j + 1 > 1
             /\ queue'[j] = queue[j + 1]
        /\ \A j \in Beats(queue) : \/ j = 1
                                   \/ /\ j - 1 \in Beats(queue')
                                      /\ queue'[j - 1] = queue[j]
    <2>1. Tail(queue) \in Seq(Lines) /\ \A j \in Beats(queue) : j = 1 \/ j > 1
      BY <1>1, <1>3, FirstLine DEF Beats
    <2>2. \A j \in Beats(queue') : j \in Nat
      BY <2>1, <1>1 DEF Beats
    <2>3. QED
      BY <2>1, <2>2, <1>1, <1>3, BeatsOfTail
  <1>6. PICK t \in Nat : t = last' /\ t = queue[1].ts
    BY <1>1, <1>3, <1>4
  <1>7. /\ last' # None /\ checked <= t
        /\ \A j \in Beats(queue') : queue'[j].ts >= t
    <2>1. \A j \in Beats(queue) : queue[1].ts <= queue[j].ts
      BY <1>3, <1>4 DEF DeadmanInv, OrderInv, Beats
    <2>2. last' # None /\ checked <= t
      BY <1>4, <1>6, NoneAssumption DEF DeadmanInv, OrderInv
    <2>3. QED
      BY <1>3, <1>5, <1>6, <2>1, <2>2
  <1>8. OrderInv'
    <2>1. \A j \in Beats(queue') : checked <= queue'[j].ts /\ queue'[j].ts <= now
      BY <1>5 DEF DeadmanInv, OrderInv
    <2>2. \A j, k \in Beats(queue') : j <= k => queue'[j].ts <= queue'[k].ts
      BY <1>5 DEF DeadmanInv, OrderInv
    <2>3. fh # "closed"
      BY <1>1 DEF DeadmanInv, OrderInv
    <2>4. QED
      BY <1>1, <2>1, <2>2, <2>3 DEF OrderInv
  \* A source whose newest heartbeat was this one, or an older one that is
  \* gone, has last to show for it.
  <1>9. FreshInv'
    <2> SUFFICES ASSUME NEW x \in Sources, beats[x] # None, x \notin skipped,
                        Seen(x, beats[x])
                 PROVE  Seen(x, beats[x])'
      BY <1>1 DEF DeadmanInv, FreshInv, Seen
    <2>1. PICK b \in Nat : b = beats[x]
      BY <1>3
    <2>2. CASE t >= b
      <3>1. \A j \in Beats(queue') : queue'[j].ts >= b
        BY <1>3, <1>5, <1>7, <2>2
      <3>2. QED
        BY <1>1, <1>6, <2>1, <2>2, <3>1 DEF Seen
    <2>3. CASE ~(t >= b)
      <3>1. PICK j \in Beats(queue) : queue[j].from = x /\ queue[j].ts >= b
        BY <1>4, <1>6, <2>1, <2>3 DEF Seen
      <3>2. j # 1
        BY <1>6, <2>3, <3>1
      <3>3. QED
        BY <1>1, <1>5, <2>1, <3>1, <3>2 DEF Seen
    <2>4. QED
      BY <2>2, <2>3
  <1>10. AlertedInv'
    BY <1>1 DEF AlertedInv
  <1>11. SilenceInv'
    <2>1. alarms # <<>> => t > alarms[Len(alarms)]
      BY <1>4, <1>6 DEF DeadmanInv, SilenceInv
    <2>2. \A j \in Beats(queue') : alarms # <<>> => queue'[j].ts > alarms[Len(alarms)]
      BY <1>5 DEF DeadmanInv, SilenceInv
    <2>3. QED
      BY <1>1, <1>6, <2>1, <2>2 DEF DeadmanInv, SilenceInv
  <1>12. DelayInv'
    <2>1. last' >= checked
      BY <1>3, <1>6, <1>7
    <2>2. QED
      BY <1>1, <2>1 DEF DeadmanInv, DelayInv, Awake
  <1>13. QED
    BY <1>8, <1>9, <1>10, <1>11, <1>12 DEF DeadmanInv

\* An event that is taken from the queue is no heartbeat.
LEMMA ReadAlertStep ==
  ASSUME DeadmanInv, TypeInv', ReadAlert
  PROVE  DeadmanInv'
  <1>1. /\ queue # <<>> /\ Head(queue).kind = "alert" /\ queue' = Tail(queue)
        /\ Awake /\ Awake'
        /\ UNCHANGED <<now, fh, beats, skipped, last, alerted, alarms, checked, delay>>
    BY DEF ReadAlert, deadmanVars, checkVars, Awake
  <1>2. TypeInv
    BY DEF DeadmanInv
  <1>3. /\ now \in Nat /\ queue \in Seq(Lines)
        /\ \A j \in Beats(queue) : j \in Nat /\ queue[j].ts \in Nat
    BY <1>2, Times
  <1>4. /\ \A j \in Beats(queue') :
             /\ j \in Nat /\ j + 1 \in Beats(queue)
             /\ queue'[j] = queue[j + 1]
        /\ \A j \in Beats(queue) :
             /\ j > 1 /\ j - 1 \in Beats(queue')
             /\ queue'[j - 1] = queue[j]
    <2>1. 1 \notin Beats(queue)
      BY <1>1, <1>3, BeatsOfTail
    <2>2. \A j \in Beats(queue) : j > 1
      BY <2>1 DEF Beats
    <2>3. \A j \in Beats(queue') : j \in Nat
      BY DEF Beats
    <2>4. QED
      BY <2>2, <2>3, <1>1, <1>3, BeatsOfTail
  <1>5. OrderInv'
    <2>1. \A j \in Beats(queue') : checked <= queue'[j].ts /\ queue'[j].ts <= now
      BY <1>4 DEF DeadmanInv, OrderInv
    <2>2. \A j, k \in Beats(queue') : j <= k => queue'[j].ts <= queue'[k].ts
      BY <1>4 DEF DeadmanInv, OrderInv
    <2>3. fh # "closed"
      BY <1>1 DEF DeadmanInv, OrderInv
    <2>4. QED
      BY <1>1, <2>1, <2>2, <2>3 DEF OrderInv
  <1>6. FreshInv'
    <2>1. ASSUME NEW x \in Sources, Seen(x, beats[x]) PROVE Seen(x, beats[x])'
      <3>1. CASE \E j \in Beats(queue) : queue[j].from = x /\ queue[j].ts >= beats[x]
        <4>1. PICK j \in Beats(queue) : queue[j].from = x /\ queue[j].ts >= beats[x]
          BY <3>1
        <4>2. j - 1 \in Beats(queue') /\ queue'[j - 1] = queue[j]
          BY <1>4
        <4>3. QED
          BY <1>1, <4>1, <4>2 DEF Seen
      <3>2. CASE /\ last # None => last >= beats[x]
                 /\ \A j \in Beats(queue) : queue[j].ts >= beats[x]
        <4>1. \A j \in Beats(queue') : queue'[j].ts >= beats[x]
          BY <1>4, <3>2
        <4>2. QED
          BY <1>1, <3>2, <4>1 DEF Seen
      <3>3. QED
        BY <2>1, <3>1, <3>2 DEF Seen
    <2>2. QED
      BY <1>1, <2>1 DEF DeadmanInv, FreshInv
  <1>7. AlertedInv' /\ DelayInv'
    BY <1>1 DEF DeadmanInv, AlertedInv, DelayInv, Alarmed
  <1>8. SilenceInv'
    BY <1>1, <1>4 DEF DeadmanInv, SilenceInv
  <1>9. QED
    BY <1>5, <1>6, <1>7, <1>8 DEF DeadmanInv

\* When an idle tick is made, no source has a heartbeat newer than last, but
\* for those that were skipped.
LEMMA NothingNewer ==
  ASSUME DeadmanInv, IdleTick, last # None,
         NEW s \in Sources, beats[s] # None, s \notin skipped
  PROVE  last >= beats[s]
  <1>1. queue = <<>>
    BY DEF IdleTick, NothingUnread, DeadmanInv, OrderInv
  <1>2. Beats(queue) = {}
    BY <1>1 DEF Beats
  <1>3. QED
    BY <1>2 DEF DeadmanInv, FreshInv, Seen

\* The check: an alarm is raised if the silence is too long, and known from
\* then on; else the monitor has another unit before it can be.
LEMMA IdleTickStep ==
  ASSUME DeadmanInv, TypeInv', IdleTick
  PROVE  DeadmanInv'
  <1>1. /\ queue = <<>> /\ CheckDeadman /\ checked' = now /\ delay' = 0
        /\ UNCHANGED <<now, fh, queue, beats, skipped, last>>
    BY DEF IdleTick, NothingUnread, DeadmanInv, OrderInv
  <1>2. TypeInv /\ Beats(queue) = {}
    BY <1>1 DEF DeadmanInv, Beats
  <1>3. /\ now \in Nat /\ alarms \in Seq(0..MaxTime)
        /\ last # None => last \in Nat
    BY <1>2, Times DEF TypeInv
  <1>4. OrderInv' /\ FreshInv'
    BY <1>1, <1>2 DEF DeadmanInv, OrderInv, FreshInv, Seen
  \* Alarmed, if the silence is too long; nothing else has changed.
  <1>5. \/ /\ TooOld /\ ~alerted /\ alerted' /\ Alarmed'
           /\ alarms' = Append(alarms, last) /\ mon' = "post"
        \/ /\ ~TooOld \/ alerted
           /\ alerted' = alerted /\ alarms' = alarms /\ Alarmed' = Alarmed
           /\ mon' = "stat"
    <2>1. CASE TooOld /\ ~alerted
      <3>1. alarms' = Append(alarms, last) /\ alerted' /\ mon' = "post"
        BY <1>1, <2>1 DEF CheckDeadman, RaiseAlarm
      <3>2. alarms' # <<>> /\ alarms'[Len(alarms')] = last
        BY <3>1, <1>3, <2>1 DEF TooOld
      <3>3. QED
        BY <1>1, <2>1, <3>1, <3>2 DEF Alarmed
    <2>2. CASE ~TooOld \/ alerted
      BY <1>1, <2>2 DEF CheckDeadman, Alarmed
    <2>3. QED
      BY <2>1, <2>2
  <1>6. AlertedInv'
    BY <1>5 DEF DeadmanInv, AlertedInv
  <1>7. SilenceInv'
    <2>1. CASE alarms' = alarms /\ alerted' = alerted
      BY <1>1, <2>1 DEF DeadmanInv, SilenceInv
    <2>2. CASE TooOld /\ alerted' /\ alarms' = Append(alarms, last)
      <3>1. last # None /\ now > last
        BY <2>2, <1>3, TimesAssumption DEF TooOld
      <3>2. alarms'[Len(alarms')] = last
        BY <2>2, <1>3, <3>1
      <3>3. QED
        BY <1>1, <1>2, <2>2, <3>1, <3>2 DEF SilenceInv
    <2>3. QED
      BY <1>5, <2>1, <2>2
  <1>8. DelayInv'
    <2>1. ~Awake' /\ now - now <= 0 + 0
      BY <1>3, <1>5 DEF Awake
    <2>2. last # None /\ ~Alarmed' => ~TooOld
      BY <1>5 DEF DeadmanInv, AlertedInv
    <2>3. last # None /\ ~TooOld => now - last <= MaxAge
      BY <1>3, TimesAssumption DEF TooOld
    <2>4. QED
      BY <1>1, <2>1, <2>2, <2>3 DEF DelayInv
  <1>9. QED
    BY <1>4, <1>6, <1>7, <1>8 DEF DeadmanInv

\* The old file is left, and what was written to it since the idle tick.
LEMMA StatStep ==
  ASSUME DeadmanInv, TypeInv', Stat
  PROVE  DeadmanInv'
  <1>1. /\ ~Awake /\ ~Awake'
        /\ UNCHANGED <<now, beats, last, alerted, alarms, checked, delay>>
    BY DEF Stat, deadmanVars, checkVars, Awake
  <1>2. AlertedInv' /\ DelayInv'
    BY <1>1 DEF DeadmanInv, AlertedInv, DelayInv, Alarmed
  <1>3. CASE fh # "old"
    <2>1. UNCHANGED <<fh, queue, skipped>>
      BY <1>3 DEF Stat
    <2>2. OrderInv' /\ FreshInv' /\ SilenceInv'
      BY <1>1, <2>1 DEF DeadmanInv, OrderInv, FreshInv, Seen, SilenceInv
    <2>3. QED
      BY <1>2, <2>2 DEF DeadmanInv
  <1>4. CASE fh = "old"
    <2>1. /\ queue' = <<>> /\ Beats(queue') = {}
          /\ skipped' = skipped \cup
               {s \in Sources : \E j \in 1..Len(queue) :
                  queue[j].kind = "heartbeat" /\ queue[j].from = s}
      BY <1>4 DEF Stat, Beats
    <2>2. OrderInv' /\ SilenceInv'
      BY <1>1, <2>1 DEF DeadmanInv, OrderInv, SilenceInv
    <2>3. FreshInv'
      <3> SUFFICES ASSUME NEW x \in Sources, beats[x] # None, x \notin skipped'
                   PROVE  Seen(x, beats[x])'
        BY <1>1 DEF DeadmanInv, FreshInv, Seen
      <3>1. x \notin skipped /\ ~\E j \in Beats(queue) : queue[j].from = x
        BY <2>1 DEF Beats
      <3>2. last # None => last >= beats[x]
        BY <3>1 DEF DeadmanInv, FreshInv, Seen
      <3>3. QED
        BY <1>1, <2>1, <3>2 DEF Seen
    <2>4. QED
      BY <1>2, <2>2, <2>3 DEF DeadmanInv
  <1>5. QED
    BY <1>3, <1>4

\* A monitor that is started again knows nothing and has nothing to read.
LEMMA RestartStep ==
  ASSUME DeadmanInv, TypeInv', Restart
  PROVE  DeadmanInv'
  <1>1. /\ queue' = <<>> /\ last' = None /\ ~alerted' /\ Awake'
        /\ checked' = now /\ delay' = 0
        /\ UNCHANGED <<now, beats, alarms>>
    BY DEF Restart, Awake
  <1>2. Beats(queue') = {} /\ now \in Nat
    BY <1>1, Times DEF Beats, DeadmanInv
  <1>3. OrderInv' /\ FreshInv' /\ AlertedInv' /\ SilenceInv'
    BY <1>1, <1>2
       DEF DeadmanInv, OrderInv, FreshInv, Seen, AlertedInv, SilenceInv
  <1>4. DelayInv'
    BY <1>1, <1>2 DEF DelayInv
  <1>5. QED
    BY <1>3, <1>4 DEF DeadmanInv

\* A unit of time passes in a sleep, after which the monitor is awake, or in a
\* response, which is counted.
LEMMA AdvanceStep ==
  ASSUME DeadmanInv, TypeInv', AdvanceTime
  PROVE  DeadmanInv'
  <1>1. /\ now' = now + 1
        /\ \/ ~Awake /\ Awake' /\ delay' = delay
           \/ Awake' = Awake /\ delay' = delay + 1
        /\ UNCHANGED <<fh, queue, beats, skipped, last, alerted, alarms, checked>>
    BY DEF AdvanceTime, deadmanVars, Awake
  <1>2. TypeInv
    BY DEF DeadmanInv
  <1>3. /\ now \in Nat /\ checked \in Nat /\ delay \in Nat
        /\ \A s \in Sources : beats[s] # None => beats[s] \in Nat
        /\ \A j \in Beats(queue) : queue[j].ts \in Nat
        /\ alarms # <<>> => alarms[Len(alarms)] \in Nat
    BY <1>2, Times
  <1>4. PICK t \in Nat : t = now' /\ t = now + 1
    BY <1>1, <1>3
  <1>5. OrderInv'
    <2>1. \A j \in Beats(queue) : checked <= queue[j].ts /\ queue[j].ts <= t
      BY <1>3, <1>4 DEF DeadmanInv, OrderInv
    <2>2. QED
      BY <1>1, <1>4, <2>1 DEF DeadmanInv, OrderInv
  <1>6. FreshInv' /\ AlertedInv'
    <2>1. \A s \in Sources : beats[s] # None => beats[s] <= t
      BY <1>3, <1>4 DEF DeadmanInv, FreshInv
    <2>2. QED
      BY <1>1, <1>4, <2>1 DEF DeadmanInv, FreshInv, Seen, AlertedInv, Alarmed
  <1>7. SilenceInv'
    <2>1. alarms # <<>> /\ now > alarms[Len(alarms)] => t > alarms[Len(alarms)]
      BY <1>3, <1>4
    <2>2. QED
      BY <1>1, <1>4, <2>1 DEF DeadmanInv, SilenceInv
  <1>8. DelayInv'
    <2>1. now' - checked' <= delay' + (IF Awake' THEN 1 ELSE 0)
      <3>1. now - checked <= delay + (IF Awake THEN 1 ELSE 0)
        BY DEF DeadmanInv, DelayInv
      <3>2. CASE ~Awake /\ Awake' /\ delay' = delay
        BY <1>1, <1>3, <3>1, <3>2
      <3>3. CASE Awake' = Awake /\ delay' = delay + 1
        <4>1. CASE Awake
          BY <1>1, <1>3, <3>1, <3>3, <4>1
        <4>2. CASE ~Awake
          BY <1>1, <1>3, <3>1, <3>3, <4>2
        <4>3. QED
          BY <4>1, <4>2
      <3>4. QED
        BY <1>1, <3>2, <3>3
    <2>2. QED
      BY <1>1, <2>1 DEF DeadmanInv, DelayInv, Alarmed
  <1>9. QED
    BY <1>5, <1>6, <1>7, <1>8 DEF DeadmanInv

LEMMA DeadmanStep == DeadmanInv /\ [Next]_vars => DeadmanInv'
  <1> SUFFICES ASSUME DeadmanInv, [Next]_vars PROVE DeadmanInv'
    OBVIOUS
  <1>0. TypeInv'
    BY TypeStep DEF DeadmanInv
  \* Steps that change neither clock, nor what waits, nor what is known.
  <1>1. ASSUME UNCHANGED <<now, queue, beats, skipped, last, alerted, alarms,
                           checked, delay>>,
               fh' = fh \/ fh' # "closed",
               Awake' = Awake
        PROVE  DeadmanInv'
    <2>1. OrderInv' /\ FreshInv'
      BY <1>1 DEF DeadmanInv, OrderInv, FreshInv, Seen
    <2>2. AlertedInv' /\ SilenceInv' /\ DelayInv'
      BY <1>1 DEF DeadmanInv, AlertedInv, SilenceInv, DelayInv, Alarmed
    <2>3. QED
      BY <1>0, <2>1, <2>2 DEF DeadmanInv
  <1>2. ASSUME NEW s \in Sources, Beat(s) PROVE DeadmanInv'
    <2>1. BeatEvery(s, Interval)
      BY <1>2 DEF Beat
    <2>2. CASE /\ Logged([kind |-> "heartbeat", from |-> s, ts |-> now])
               /\ beats' = [beats EXCEPT ![s] = now]
               /\ skipped' = IF fh = "current" THEN skipped \ {s}
                                               ELSE skipped \cup {s}
      <3>1. CASE fh = "current"
        BY <1>0, <2>1, <2>2, <3>1, BeatLogged
      <3>2. CASE fh # "current"
        <4>1. UNCHANGED queue
          BY <2>2, <3>2 DEF Logged
        <4>2. QED
          BY <1>0, <2>1, <2>2, <3>2, <4>1, BeatSkipped
      <3>3. QED
        BY <3>1, <3>2
    <2>3. CASE UNCHANGED <<fileVars, queue, beats, skipped>>
      BY <1>1, <2>1, <2>3 DEF BeatEvery, deadmanVars, checkVars, Awake
    <2>4. QED
      BY <2>1, <2>2, <2>3 DEF BeatEvery
  <1>3. CASE Rename
    BY <1>1, <1>3 DEF Rename, deadmanVars, checkVars, Awake
  <1>4. CASE Create
    BY <1>1, <1>4 DEF Create, deadmanVars, checkVars, Awake
  <1>5. CASE OpenFile
    BY <1>1, <1>5 DEF OpenFile, deadmanVars, checkVars, Awake
  <1>6. CASE EndResponse
    BY <1>1, <1>6 DEF EndResponse, deadmanVars, checkVars, Awake
  <1>7. CASE EndPost
    BY <1>1, <1>7 DEF EndPost, deadmanVars, checkVars, Awake
  <1>8. CASE UNCHANGED vars
    BY <1>1, <1>8 DEF vars, deadmanVars, checkVars, Awake
  <1>9. QED
    BY <1>0, <1>2, <1>3, <1>4, <1>5, <1>6, <1>7, <1>8, TrapStep,
       ReadHeartbeatStep, ReadAlertStep, IdleTickStep, StatStep, RestartStep,
       AdvanceStep DEF Next

LEMMA DeadmanHolds == Spec => []DeadmanInv
  BY DeadmanInit, DeadmanStep, PTL DEF Spec

\* Only an idle tick raises an alarm.
LEMMA OnlyTheCheckAlarms ==
  ASSUME [Next]_vars, alarms' # alarms
  PROVE  IdleTick /\ TooOld /\ ~alerted
  BY DEF Next, vars, deadmanVars, Beat, BeatEvery, Trap, Rename, Create,
         OpenFile, ReadHeartbeat, ReadAlert, EndResponse, IdleTick,
         CheckDeadman, EndPost, Stat, Restart, AdvanceTime

\* When an alarm is raised, every heartbeat ever written is older than MaxAge,
\* however far the monitor was behind, but for the newest of a source that
\* tail_lines skips around a rotation (alert_monitor.py:104, 113-119, 254-257).
THEOREM AlarmsAreTrue == Spec => AlarmIsTrue
  <1>1. ASSUME DeadmanInv, [Next]_vars, alarms' # alarms, NEW s \in Sources
        PROVE  beats[s] = None \/ now - beats[s] > MaxAge \/ s \in skipped
    <2>1. IdleTick /\ last # None /\ now - last > MaxAge
      BY <1>1, OnlyTheCheckAlarms DEF TooOld
    <2>2. CASE beats[s] # None /\ s \notin skipped
      <3>1. last >= beats[s] /\ TypeInv
        BY <1>1, <2>1, <2>2, NothingNewer DEF DeadmanInv
      <3>2. now \in Nat /\ last \in Nat /\ beats[s] \in Nat
        BY <2>1, <2>2, <3>1, Times
      <3>3. QED
        BY <2>1, <3>1, <3>2, TimesAssumption
    <2>3. QED
      BY <2>2
  <1>2. DeadmanInv /\ [Next]_vars =>
          [alarms' # alarms =>
             \A s \in Sources :
               \/ beats[s] = None
               \/ now - beats[s] > MaxAge
               \/ s \in skipped]_vars
    BY <1>1
  <1>3. QED
    BY <1>2, DeadmanHolds, PTL DEF Spec, AlarmIsTrue

\* Two alarms have a heartbeat between them that is newer than the one the
\* first alarm was about, over restarts too (alert_monitor.py:233-246, 271).
THEOREM SilencesAreTold == Spec => OneAlarmPerSilence
  <1>1. ASSUME DeadmanInv, [Next]_vars, alarms' # alarms, alarms # <<>>
        PROVE  last > alarms[Len(alarms)]
    <2>1. TooOld /\ ~alerted
      BY <1>1, OnlyTheCheckAlarms
    <2>2. QED
      BY <1>1, <2>1 DEF DeadmanInv, SilenceInv, TooOld
  <1>2. DeadmanInv /\ [Next]_vars =>
          [alarms' # alarms /\ alarms # <<>> => last > alarms[Len(alarms)]]_vars
    BY <1>1
  <1>3. QED
    BY <1>2, DeadmanHolds, PTL DEF Spec, OneAlarmPerSilence

\* No silence goes unnoticed for longer than MaxAge, one poll, and the time
\* that responses have taken since the last idle tick (alert_monitor.py:147,
\* 174-187, 239-257, 271).
THEOREM SilencesAreNoticed == Spec => []SilenceIsNoticed
  <1>1. ASSUME DeadmanInv, last # None, now - last > MaxAge + 1 + delay
        PROVE  Alarmed
    <2>1. /\ now \in Nat /\ last \in Nat /\ checked \in Nat /\ delay \in Nat
      BY <1>1, Times DEF DeadmanInv
    <2>2. now - checked <= delay + 1
      <3>1. now - checked <= delay + (IF Awake THEN 1 ELSE 0)
        BY <1>1 DEF DeadmanInv, DelayInv
      <3>2. QED
        BY <2>1, <3>1
    <2>3. ~(last >= checked) /\ ~(checked - last <= MaxAge)
      BY <1>1, <2>1, <2>2, TimesAssumption
    <2>4. QED
      BY <1>1, <2>3 DEF DeadmanInv, DelayInv
  <1>2. DeadmanInv => SilenceIsNoticed
    BY <1>1 DEF SilenceIsNoticed
  <1>3. QED
    BY <1>2, DeadmanHolds, PTL
=============================================================================
