------------------------------ MODULE AlertLog ------------------------------
(***************************************************************************)
(* The write path of the alert file (src/src/logger.c).                    *)
(*                                                                         *)
(* Every trap read in a backend, and every heartbeat of the background     *)
(* worker, builds one JSON line, reports it to the server log, and then    *)
(* runs write_line_locked: open, flock, a loop of write calls, close.      *)
(* The writers share nothing but the file system, so what keeps the lines  *)
(* apart is the flock alone.  logrotate (tools/sticky_honey_bun.logrotate) *)
(* renames the file away underneath them.                                  *)
(*                                                                         *)
(* A line is a sequence of Parts parts; the last one is the newline.  One  *)
(* call of write appends the parts that remain, or some of them.           *)
(***************************************************************************)
EXTENDS Naturals, Sequences

CONSTANTS
  Writers,        \* processes that log: client backends and the bgworker
  Inodes,         \* inodes the alert path may come to name
  MaxEvents,      \* bound: events a writer slot logs
  Parts,          \* parts of a line, the newline being the last
  StreamOn,       \* alert_log_level / heartbeat_log_level is not "off"
  Faults,         \* what may go wrong, a subset of FaultKinds
  None

FaultKinds ==
  {"raise", "interrupt", "open", "flock", "short", "write", "crash"}

ASSUME PartsAssumption == Parts \in Nat \ {0, 1}
ASSUME MaxEventsAssumption == MaxEvents \in Nat
ASSUME NoneAssumption == None \notin Writers /\ None \notin Inodes
ASSUME ConfigAssumption == StreamOn \in BOOLEAN /\ Faults \subseteq FaultKinds

VARIABLES
  \* Per writer
  pc,        \* where the writer is in shb_log_event
  seq,       \* number of events it has begun
  fd,        \* inode its descriptor refers to, or None
  total,     \* parts of the current line already written
  \* The file system
  path,      \* inode the alert path names, or None
  used,      \* inodes ever created
  content,   \* what each inode holds, a sequence of parts
  lock,      \* holder of the flock on each inode, or None
  \* logrotate
  rot,       \* its position: idle, rename, create
  rotated,   \* inode of the newest rotated, not yet compressed file
  archived,  \* inodes compressed, with their length when they were
  \* The server log
  stream,
  \* History: events whose line was begun and cut short by a failure
  broken

writerVars == <<pc, seq, fd, total>>
rotVars == <<rot, rotated, archived>>
vars == <<pc, seq, fd, total, path, used, content, lock, rot, rotated,
          archived, stream, broken>>

Event == [writer : Writers, seq : 1..MaxEvents]
Part == [writer : Writers, seq : 1..MaxEvents, part : 1..Parts]

EventOf(c) == [writer |-> c.writer, seq |-> c.seq]
Current(w) == [writer |-> w, seq |-> seq[w]]

\* The k parts that follow the first t parts of the current line of w.
Slice(w, t, k) ==
  [j \in 1..k |-> [writer |-> w, seq |-> seq[w], part |-> t + j]]

Init ==
  /\ pc = [w \in Writers |-> "idle"]
  /\ seq = [w \in Writers |-> 0]
  /\ fd = [w \in Writers |-> None]
  /\ total = [w \in Writers |-> 0]
  /\ path \in Inodes \cup {None}
  /\ used = {path} \ {None}
  /\ content = [i \in Inodes |-> <<>>]
  /\ lock = [i \in Inodes |-> None]
  /\ rot = "idle"
  /\ rotated = None
  /\ archived = [i \in {} |-> 0]
  /\ stream = <<>>
  /\ broken = {}

-----------------------------------------------------------------------------
(* The writers.  A definition named X_Something is X with a bug that is    *)
(* easy to make here; it takes no part in the specification and serves to  *)
(* see that the properties would notice.                                   *)

\* shb_log_event or shb_log_heartbeat is entered and the line is built.
\* An error while building it is caught, and the event is gone.
LogEvent(w) ==
  /\ pc[w] = "idle"
  /\ seq[w] < MaxEvents
  /\ seq' = [seq EXCEPT ![w] = @ + 1]
  /\ total' = [total EXCEPT ![w] = 0]
  /\ \/ pc' = [pc EXCEPT ![w] = "report"]
     \/ "raise" \in Faults /\ pc' = pc
  /\ UNCHANGED <<fd, path, used, content, lock, rotVars, stream, broken>>

\* An interrupted report is mistaken for one that was made.
Report_FileAnyway(w) ==
  /\ pc[w] = "report"
  /\ \/ stream' = IF StreamOn THEN Append(stream, Current(w)) ELSE stream
     \/ StreamOn /\ "interrupt" \in Faults /\ stream' = stream
  /\ pc' = [pc EXCEPT ![w] = "open"]
  /\ UNCHANGED <<seq, fd, total, path, used, content, lock, rotVars, broken>>

\* ereport comes before the file.  It checks for interrupts on its way out:
\* a pending cancel then raises after the line has reached the server log,
\* the handler swallows it, and write_line_locked is never called.
Report(w) ==
  /\ pc[w] = "report"
  /\ stream' = IF StreamOn THEN Append(stream, Current(w)) ELSE stream
  /\ \/ pc' = [pc EXCEPT ![w] = "open"]
     \/ /\ StreamOn /\ "interrupt" \in Faults
        /\ pc' = [pc EXCEPT ![w] = "idle"]
  /\ UNCHANGED <<seq, fd, total, path, used, content, lock, rotVars, broken>>

\* open(O_WRONLY | O_APPEND | O_CREAT): when it fails, and also when log_path
\* is set to '' so that there is no file to open, the function returns.
NotOpened(w) ==
  /\ pc[w] = "open"
  /\ "open" \in Faults
  /\ pc' = [pc EXCEPT ![w] = "idle"]
  /\ UNCHANGED <<seq, fd, total, path, used, content, lock, rotVars, stream,
                 broken>>

OpenExisting(w) ==
  /\ pc[w] = "open"
  /\ path # None
  /\ fd' = [fd EXCEPT ![w] = path]
  /\ pc' = [pc EXCEPT ![w] = "lock"]
  /\ UNCHANGED <<seq, total, path, used, content, lock, rotVars, stream,
                 broken>>

OpenCreate(w) ==
  /\ pc[w] = "open"
  /\ path = None
  /\ \E i \in Inodes \ used :
        /\ path' = i
        /\ used' = used \cup {i}
        /\ fd' = [fd EXCEPT ![w] = i]
  /\ pc' = [pc EXCEPT ![w] = "lock"]
  /\ UNCHANGED <<seq, total, content, lock, rotVars, stream, broken>>

\* LOCK_SH instead of LOCK_EX.
Lock_Shared(w) ==
  /\ pc[w] = "lock"
  /\ lock' = [lock EXCEPT ![fd[w]] = w]
  /\ pc' = [pc EXCEPT ![w] = "write"]
  /\ UNCHANGED <<seq, fd, total, path, used, content, rotVars, stream, broken>>

\* flock(LOCK_EX) returns once nobody else holds the lock of the inode that
\* was opened, whatever the path names by then.
Lock(w) ==
  /\ pc[w] = "lock"
  /\ lock[fd[w]] = None
  /\ lock' = [lock EXCEPT ![fd[w]] = w]
  /\ pc' = [pc EXCEPT ![w] = "write"]
  /\ UNCHANGED <<seq, fd, total, path, used, content, rotVars, stream, broken>>

LockFails(w) ==
  /\ pc[w] = "lock"
  /\ "flock" \in Faults
  /\ pc' = [pc EXCEPT ![w] = "close"]
  /\ UNCHANGED <<seq, fd, total, path, used, content, lock, rotVars, stream,
                 broken>>

\* Parts one call of write may take: all that remain, or fewer.
Lengths(w) ==
  {k \in 1..(Parts - total[w]) : k = Parts - total[w] \/ "short" \in Faults}

\* A short write is taken for the whole line.
Write_NoLoop(w) ==
  /\ pc[w] = "write"
  /\ \E k \in Lengths(w) :
        /\ content' = [content EXCEPT ![fd[w]] = @ \o Slice(w, total[w], k)]
        /\ total' = [total EXCEPT ![w] = @ + k]
  /\ pc' = [pc EXCEPT ![w] = "close"]
  /\ UNCHANGED <<seq, fd, path, used, lock, rotVars, stream, broken>>

\* After a short write the line is sent again from its beginning.
Write_Restart(w) ==
  /\ pc[w] = "write"
  /\ \E k \in 1..Parts :
        /\ content' = [content EXCEPT ![fd[w]] = @ \o Slice(w, 0, k)]
        /\ pc' = [pc EXCEPT ![w] = IF k = Parts THEN "close" ELSE "write"]
  /\ UNCHANGED <<seq, fd, total, path, used, lock, rotVars, stream, broken>>

\* The length passed to write is that of the whole line every time.
Write_Overrun(w) ==
  /\ pc[w] = "write"
  /\ \E k \in 1..Parts :
        /\ content' = [content EXCEPT ![fd[w]] = @ \o Slice(w, total[w], k)]
        /\ total' = [total EXCEPT ![w] = @ + k]
        /\ pc' = [pc EXCEPT ![w] =
                    IF total[w] + k >= Parts THEN "close" ELSE "write"]
  /\ UNCHANGED <<seq, fd, path, used, lock, rotVars, stream, broken>>

\* One call of write: O_APPEND puts k of the remaining parts at the end.
\* The loop goes on until the whole line is out; EINTR only repeats the call.
Write(w) ==
  /\ pc[w] = "write"
  /\ \E k \in Lengths(w) :
        /\ content' = [content EXCEPT ![fd[w]] = @ \o Slice(w, total[w], k)]
        /\ total' = [total EXCEPT ![w] = @ + k]
        /\ pc' = [pc EXCEPT ![w] =
                    IF total[w] + k = Parts THEN "close" ELSE "write"]
  /\ UNCHANGED <<seq, fd, path, used, lock, rotVars, stream, broken>>

\* The current line of w, if begun and not finished.
CutShort(w) == IF total[w] \in 1..(Parts - 1) THEN {Current(w)} ELSE {}

\* The error path returns without close.
WriteFails_LeakFd(w) ==
  /\ pc[w] = "write"
  /\ "write" \in Faults
  /\ broken' = broken \cup CutShort(w)
  /\ pc' = [pc EXCEPT ![w] = "idle"]
  /\ UNCHANGED <<seq, fd, total, path, used, content, lock, rotVars, stream>>

\* write fails (ENOSPC, EIO): the loop is left, what was written stays.
WriteFails(w) ==
  /\ pc[w] = "write"
  /\ "write" \in Faults
  /\ broken' = broken \cup CutShort(w)
  /\ pc' = [pc EXCEPT ![w] = "close"]
  /\ UNCHANGED <<seq, fd, total, path, used, content, lock, rotVars, stream>>

\* Closing the descriptor releases the lock, if w has it.
Released(w) == [i \in Inodes |-> IF lock[i] = w THEN None ELSE lock[i]]

Close(w) ==
  /\ pc[w] = "close"
  /\ lock' = Released(w)
  /\ fd' = [fd EXCEPT ![w] = None]
  /\ pc' = [pc EXCEPT ![w] = "idle"]
  /\ UNCHANGED <<seq, total, path, used, content, rotVars, stream, broken>>

\* The process dies (SIGKILL, or the server's crash restart); the kernel
\* closes its descriptor, and a later process takes the slot.
Crash(w) ==
  /\ "crash" \in Faults
  /\ pc[w] # "idle"
  /\ broken' = broken \cup CutShort(w)
  /\ lock' = Released(w)
  /\ fd' = [fd EXCEPT ![w] = None]
  /\ pc' = [pc EXCEPT ![w] = "idle"]
  /\ UNCHANGED <<seq, total, path, used, content, rotVars, stream>>

Writer(w) ==
  \/ LogEvent(w) \/ Report(w)
  \/ NotOpened(w) \/ OpenExisting(w) \/ OpenCreate(w)
  \/ Lock(w) \/ LockFails(w)
  \/ Write(w) \/ WriteFails(w) \/ Close(w)
  \/ Crash(w)

-----------------------------------------------------------------------------
(* logrotate with create, compress, delaycompress, missingok, notifempty.  *)
(* It runs daily: no writer holds a descriptor across two rotations, so a  *)
(* new rotation finds the previous rotated file without writers.           *)

Settled == \A w \in Writers : rotated = None \/ fd[w] # rotated

\* delaycompress: the file rotated last time is compressed now.
RotateStart ==
  /\ rot = "idle"
  /\ path # None /\ content[path] # <<>>
  /\ Inodes \ used # {}
  /\ Settled
  /\ rot' = "rename"
  /\ archived' = IF rotated = None THEN archived
                 ELSE [i \in DOMAIN archived \cup {rotated} |->
                         IF i = rotated THEN Len(content[i]) ELSE archived[i]]
  /\ rotated' = None
  /\ UNCHANGED <<writerVars, path, used, content, lock, stream, broken>>

\* compress without delaycompress.
RotateRename_CompressNow ==
  /\ rot = "rename"
  /\ archived' = [i \in DOMAIN archived \cup {path} |->
                    IF i = path THEN Len(content[i]) ELSE archived[i]]
  /\ path' = None
  /\ rot' = "create"
  /\ UNCHANGED <<writerVars, used, content, lock, rotated, stream, broken>>

RotateRename ==
  /\ rot = "rename"
  /\ rotated' = path
  /\ path' = None
  /\ rot' = "create"
  /\ UNCHANGED <<writerVars, used, content, lock, archived, stream, broken>>

\* A writer may have created the file first: then it is left as it is.
RotateCreate ==
  /\ rot = "create"
  /\ \/ path # None /\ UNCHANGED <<path, used>>
     \/ /\ path = None
        /\ \E i \in Inodes \ used : path' = i /\ used' = used \cup {i}
  /\ rot' = "idle"
  /\ UNCHANGED <<writerVars, content, lock, rotated, archived, stream, broken>>

Rotate == RotateStart \/ RotateRename \/ RotateCreate

-----------------------------------------------------------------------------

Done ==
  /\ \A w \in Writers : pc[w] = "idle" /\ seq[w] = MaxEvents
  /\ rot = "idle"
  /\ UNCHANGED vars

Next == (\E w \in Writers : Writer(w)) \/ Rotate \/ Done

Spec == Init /\ [][Next]_vars

\* A process that has begun an event keeps running; the kernel grants flock
\* to waiters in turn.  Nobody is obliged to begin an event or a rotation.
Progress(w) ==
  \/ Report(w) \/ NotOpened(w) \/ OpenExisting(w) \/ OpenCreate(w)
  \/ Write(w) \/ WriteFails(w) \/ Close(w)

FairSpec ==
  /\ Spec
  /\ \A w \in Writers : WF_vars(Progress(w)) /\ SF_vars(Lock(w))
  /\ WF_vars(RotateRename \/ RotateCreate)

-----------------------------------------------------------------------------
(* Properties. *)

TypeOK ==
  /\ pc \in [Writers -> {"idle", "report", "open", "lock", "write", "close"}]
  /\ seq \in [Writers -> 0..MaxEvents]
  /\ fd \in [Writers -> Inodes \cup {None}]
  /\ total \in [Writers -> 0..Parts]
  /\ path \in Inodes \cup {None}
  /\ used \subseteq Inodes
  /\ content \in [Inodes -> Seq(Part)]
  /\ lock \in [Inodes -> Writers \cup {None}]
  /\ rot \in {"idle", "rename", "create"}
  /\ rotated \in Inodes \cup {None}
  /\ DOMAIN archived \subseteq Inodes
  /\ stream \in Seq(Event)
  /\ broken \subseteq Event

\* Part d may come right after part c of a file: it is the next part of the
\* same line, or it opens a line.
Follows(c, d) == d.part = 1 \/ (EventOf(d) = EventOf(c) /\ d.part = c.part + 1)

\* Two lines are never interleaved: in every inode, the parts of a line stand
\* together and in order, however the writes of several processes, the
\* failures and the rotations fall (logger.c:286-291, the reason for flock).
NoInterleaving ==
  \A i \in Inodes :
    \A j \in 1..Len(content[i]) :
      IF j = 1 THEN content[i][1].part = 1
      ELSE Follows(content[i][j - 1], content[i][j])

\* A line that stops before its newline, with another line behind it, is one
\* whose writer failed or died half way: the loop over short writes leaves
\* no other gap (logger.c:316-325).
FragmentsExplained ==
  \A i \in Inodes :
    \A j \in 2..Len(content[i]) :
      content[i][j].part = 1 =>
        \/ content[i][j - 1].part = Parts
        \/ EventOf(content[i][j - 1]) \in broken

\* No part of a line is written twice, into one file or into two
\* (logger.c:316-325 resumes a short write at data + total).
AtMostOnce ==
  \A i1, i2 \in Inodes :
    \A j1 \in 1..Len(content[i1]), j2 \in 1..Len(content[i2]) :
      content[i1][j1] = content[i2][j2] => i1 = i2 /\ j1 = j2

\* What was compressed away is all its file ever held: no line lands in a
\* file after its compressed copy was taken (the delaycompress of
\* sticky_honey_bun.logrotate:26).
ArchiveComplete ==
  \A i \in DOMAIN archived : archived[i] = Len(content[i])

\* With the stream on, a line that has begun to reach the file has already
\* been reported to the server log (logger.c:373-384), failures included.
StreamFirst ==
  StreamOn =>
    \A i \in Inodes : \A j \in 1..Len(content[i]) :
      \E k \in 1..Len(stream) : stream[k] = EventOf(content[i][j])

\* No event stays in the logging path for ever: the reading session gets on
\* whoever else writes and however the file is rotated.
EventFinishes == \A w \in Writers : pc[w] # "idle" ~> pc[w] = "idle"

\* The line that ends at position j of file i stands alone between newlines.
IntactAt(i, j) ==
  /\ content[i][j].part = Parts
  /\ j >= Parts
  /\ j = Parts \/ content[i][j - Parts].part = Parts

\* The intact lines of file i: the event each reports, by the position of its
\* newline.
IntactLines(i) ==
  [j \in {k \in 1..Len(content[i]) : IntactAt(i, k)} |-> EventOf(content[i][j])]

\* Each line is decided at one step, the last write or the failure: the
\* write path implements the atomic log.  A line spoilt by the fragment in
\* front of it counts as dropped.
Abstract == INSTANCE AtomicLog WITH
  Files <- Inodes,
  log <- [i \in Inodes |-> IntactLines(i)],
  begun <- seq,
  pending <- {w \in Writers : pc[w] \notin {"idle", "close"}},
  sealed <- DOMAIN archived,
  MayDrop <- Faults \ {"short"} # {}

ImplementsAtomicLog == Abstract!Spec
=============================================================================
