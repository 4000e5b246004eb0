---------------------------- MODULE LogPipeline -----------------------------
(***************************************************************************)
(* The alert file from both ends: the writers and logrotate of AlertLog,   *)
(* and the monitor of AlertMonitor that tails what they write.             *)
(***************************************************************************)
EXTENDS AlertLog

CONSTANTS
  MaxRestarts,   \* bound: times the monitor is stopped and started again
  Multibyte      \* see AlertMonitor

ASSUME MaxRestartsAssumption == MaxRestarts \in Nat

VARIABLES
  mon, mfd, pos, restarts, handled, rejected,  \* see AlertMonitor
  due            \* history: events begun while the monitor had a file open

M == INSTANCE AlertMonitor

monVars == <<mon, mfd, pos, restarts, handled, rejected>>
pipelineVars == <<vars, monVars, due>>

PipelineInit ==
  /\ Init /\ M!Init
  /\ due = {}

LogStep ==
  /\ Next
  /\ due' = IF mfd # None
            THEN due \cup {Current(w)' : w \in {v \in Writers : seq'[v] # seq[v]}}
            ELSE due
  /\ UNCHANGED monVars

\* What comes while the monitor is down is not due from the next one.
MonitorStep ==
  /\ M!Next
  /\ due' = IF restarts' # restarts THEN {} ELSE due
  /\ UNCHANGED vars

PipelineNext == LogStep \/ MonitorStep

PipelineSpec == PipelineInit /\ [][PipelineNext]_pipelineVars

Aside == due' = due /\ UNCHANGED monVars

\* Both sides keep running; the monitor's loop never waits for the writers.
FairPipelineSpec ==
  /\ PipelineSpec
  /\ \A w \in Writers :
       WF_pipelineVars(Progress(w) /\ Aside) /\ SF_pipelineVars(Lock(w) /\ Aside)
  /\ WF_pipelineVars((RotateRename \/ RotateCreate) /\ Aside)
  /\ WF_pipelineVars(M!Step /\ UNCHANGED <<vars, due>>)

-----------------------------------------------------------------------------

PipelineTypeOK ==
  /\ TypeOK
  /\ mon \in {"check", "open", "read", "stat", "dead"}
  /\ mfd \in Inodes \cup {None}
  /\ mon \in {"read", "stat"} => mfd # None /\ pos <= Len(content[mfd])
  /\ restarts \in 0..MaxRestarts
  /\ rejected \cup due \subseteq Event

HandledOnceInOrder == M!HandledOnceInOrder

HandledEvents == {handled[j].event : j \in 1..Len(handled)}

\* The line of event e got its newline, in some file.
Logged(e) ==
  \E i \in Inodes : \E j \in 1..Len(content[i]) :
    content[i][j].part = Parts /\ EventOf(content[i][j]) = e

\* A rotation has begun at some time.
Rotated == rot # "idle" \/ rotated # None

\* While the file stays where it is and the monitor keeps running, no line is
\* passed over in silence: an event logged while the monitor has the file
\* open ends up handled, or in a line reported as malformed
\* (alert_monitor.py:254-263).
NothingPassedOver ==
  \A e \in Event :
    (e \in due /\ Logged(e)) ~>
       \/ e \in HandledEvents \cup rejected
       \/ mon = "dead" \/ e \notin due
       \/ Rotated

\* After a rotation the monitor gets to the file the path names now
\* (alert_monitor.py:115-119), if it has not died on the way.
FollowsPath == []<>(mon = "dead" \/ path = None \/ mfd = path)

\* "Yield new lines as they appear" (alert_monitor.py:97): an event logged
\* while the monitor has a file open is handled, if the monitor lives.
NewLinesAreHandled ==
  \A e \in Event :
    (e \in due /\ Logged(e)) ~> (e \in HandledEvents \/ mon = "dead")
=============================================================================
