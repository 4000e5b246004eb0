---------------------------- MODULE AlertMonitor ----------------------------
(***************************************************************************)
(* The tail of the alert file: tail_lines of src/tools/alert_monitor.py    *)
(* and the part of main that parses what it yields.  The monitor reads the *)
(* file without taking the lock the writers use; path and content belong   *)
(* to its environment.                                                     *)
(***************************************************************************)
EXTENDS Naturals, Sequences, FiniteSetsExt

CONSTANTS
  Parts,          \* parts of a line, the newline being the last
  MaxRestarts,    \* bound: times the monitor is stopped and started again
  Multibyte,      \* the parts of a line may split a character
  None

VARIABLES
  path, content,  \* the environment: see AlertLog
  mon,            \* position in tail_lines: check, open, read, stat, dead
  mfd,            \* inode that fh refers to, or None
  pos,            \* parts of it consumed
  restarts,
  \* History
  handled,        \* the events main took from a line, with file and position
  rejected        \* events of which a part was in a "malformed line"

monitorVars == <<mon, mfd, pos, restarts, handled, rejected>>

Init ==
  /\ mon = "check" /\ mfd = None /\ pos = 0 /\ restarts = 0
  /\ handled = <<>> /\ rejected = {}

\* path.exists(): an idle tick when there is no file.
CheckMissing ==
  /\ mon = "check" /\ path = None
  /\ UNCHANGED <<mon, mfd, pos, restarts, handled, rejected>>

CheckFound ==
  /\ mon = "check" /\ path # None
  /\ mon' = "open"
  /\ UNCHANGED <<mfd, pos, restarts, handled, rejected>>

\* The seek to the end is left out.
SeekTo_Start == 0

SeekTo == Len(content[path])

\* path.open(), then seek to the end of the file that was opened.
Open ==
  /\ mon = "open" /\ path # None
  /\ mfd' = path /\ pos' = SeekTo
  /\ mon' = "read"
  /\ UNCHANGED <<restarts, handled, rejected>>

\* The path has gone since exists(): nothing catches the FileNotFoundError.
OpenRaises ==
  /\ mon = "open" /\ path = None
  /\ mon' = "dead"
  /\ UNCHANGED <<mfd, pos, restarts, handled, rejected>>

EventOf(c) == [writer |-> c.writer, seq |-> c.seq]

\* Where readline stops: behind the next newline, or at the end of the file.
LineEnd ==
  LET s == content[mfd]
      newlines == {j \in pos + 1 .. Len(s) : s[j].part = Parts}
  IN  IF newlines = {} THEN Len(s) ELSE Min(newlines)

\* json.loads accepts exactly the body of one event, newline or not.
IsEvent(item) ==
  /\ Len(item) >= Parts - 1
  /\ \A j \in 1..Len(item) :
       item[j].part = j /\ EventOf(item[j]) = EventOf(item[1])

\* One line is taken, and then the rest of the file is skipped.
Consumed_All == Len(content[mfd])

\* A newline is skipped that is not there.
Consumed_PastNewline == LineEnd + 1

Consumed == LineEnd

\* readline and json.loads: the line is an event for main, or malformed.
ReadLine ==
  /\ mon = "read" /\ pos < Len(content[mfd])
  /\ LET item == SubSeq(content[mfd], pos + 1, LineEnd) IN
       IF IsEvent(item)
       THEN /\ handled' = Append(handled, [event |-> EventOf(item[1]),
                                           inode |-> mfd, at |-> LineEnd])
            /\ rejected' = rejected
       ELSE /\ rejected' = rejected \cup {EventOf(item[j]) : j \in 1..Len(item)}
            /\ handled' = handled
  /\ pos' = Consumed
  /\ UNCHANGED <<mon, mfd, restarts>>

\* Text mode: half a character at the end of the file is a decoding error,
\* and nothing catches it.
DecodeRaises ==
  /\ Multibyte
  /\ mon = "read" /\ pos < Len(content[mfd])
  /\ content[mfd][LineEnd].part # Parts
  /\ mon' = "dead"
  /\ UNCHANGED <<mfd, pos, restarts, handled, rejected>>

\* readline returns nothing: an idle tick, then a look at the path's inode.
ReadEof ==
  /\ mon = "read" /\ pos = Len(content[mfd])
  /\ mon' = "stat"
  /\ UNCHANGED <<mfd, pos, restarts, handled, rejected>>

\* Only a missing file makes the monitor leave the one it has open.
Moved_OnlyMissing == path = None

\* path.stat() shows another inode, or raises FileNotFoundError.
Moved == path # mfd

StatSame ==
  /\ mon = "stat" /\ ~Moved
  /\ mon' = "read"
  /\ UNCHANGED <<mfd, pos, restarts, handled, rejected>>

StatMoved ==
  /\ mon = "stat" /\ Moved
  /\ mon' = "check" /\ mfd' = None
  /\ UNCHANGED <<pos, restarts, handled, rejected>>

\* The process ends (a signal sets the stop flag, or it died) and is started
\* again: nothing of where it was is kept.
Restart ==
  /\ restarts < MaxRestarts
  /\ restarts' = restarts + 1
  /\ mon' = "check" /\ mfd' = None /\ pos' = 0
  /\ UNCHANGED <<handled, rejected>>

Step ==
  \/ CheckMissing \/ CheckFound \/ Open \/ OpenRaises
  \/ ReadLine \/ DecodeRaises \/ ReadEof \/ StatSame \/ StatMoved

Next == (Step \/ Restart) /\ UNCHANGED <<path, content>>

-----------------------------------------------------------------------------

\* The monitor acts on an event once, in the order of the file, and does not
\* go back to a file it has left: not after a rotation, not after a restart
\* (the seek of alert_monitor.py:104 and the inode test of line 116).
HandledOnceInOrder ==
  \A j, k \in 1..Len(handled) : j < k =>
    /\ handled[j].event # handled[k].event
    /\ handled[j].inode = handled[k].inode =>
         /\ handled[j].at < handled[k].at
         /\ \A l \in j..k : handled[l].inode = handled[j].inode
=============================================================================
