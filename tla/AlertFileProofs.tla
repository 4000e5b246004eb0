--------------------------- MODULE AlertFileProofs --------------------------
(***************************************************************************)
(* Proofs about the alert file: about the write path of AlertLog, for any  *)
(* number of writers, inodes, events and parts, and any set of faults; and *)
(* then about LogPipeline, the same file with its monitor.                 *)
(***************************************************************************)
EXTENDS LogPipeline, WellFoundedInduction, TLAPS

\* What concatenation does, index by index.
LEMMA ConcatParts ==
  ASSUME NEW s \in Seq(Part), NEW t \in Seq(Part)
  PROVE  /\ s \o t \in Seq(Part)
         /\ Len(s \o t) = Len(s) + Len(t)
         /\ \A j \in 1..Len(s) : (s \o t)[j] = s[j]
         /\ \A j \in 1..Len(t) : (s \o t)[Len(s) + j] = t[j]
  OBVIOUS

\* A step of a writer's program counter determines which fields matter.
PcInv ==
  \A w \in Writers :
    /\ pc[w] # "idle" => seq[w] \in 1..MaxEvents
    /\ pc[w] \in {"lock", "write"} => fd[w] \in Inodes
    /\ pc[w] \in {"report", "open", "lock"} => total[w] = 0
    /\ pc[w] = "write" => total[w] < Parts

\* A slice of the current line is a sequence of parts.
LEMMA SliceType ==
  ASSUME TypeOK, NEW w \in Writers, seq[w] \in 1..MaxEvents,
         NEW t \in 0..Parts, NEW k \in 1..(Parts - t)
  PROVE  /\ Slice(w, t, k) \in Seq(Part)
         /\ Len(Slice(w, t, k)) = k
         /\ \A j \in 1..k : Slice(w, t, k)[j] =
               [writer |-> w, seq |-> seq[w], part |-> t + j]
  <1> USE PartsAssumption
  <1>1. k \in Nat /\ \A j \in 1..k : t + j \in 1..Parts
    OBVIOUS
  <1>2. Slice(w, t, k) \in [1..k -> Part]
    BY <1>1 DEF Slice, Part
  <1>3. QED
    BY <1>1, <1>2 DEF Slice

-----------------------------------------------------------------------------
(* Type correctness. *)

TypeInv == TypeOK /\ PcInv

\* What a write adds to total stays within the line, and short of it unless the
\* line is complete.
LEMMA Increment ==
  ASSUME NEW a \in 0..Parts, NEW k \in 1..(Parts - a)
  PROVE  a + k \in 0..Parts /\ (a + k # Parts => a + k < Parts)
  BY PartsAssumption

LEMMA TypeInit == Init => TypeInv
  BY PartsAssumption, MaxEventsAssumption DEF Init, TypeInv, TypeOK, PcInv

LEMMA TypeStep == TypeInv /\ [Next]_vars => TypeInv'
  <1> SUFFICES ASSUME TypeInv, [Next]_vars PROVE TypeInv'
    OBVIOUS
  <1> USE PartsAssumption, MaxEventsAssumption, NoneAssumption
      DEF TypeInv, TypeOK, PcInv, rotVars, writerVars
  <1>1. ASSUME NEW w \in Writers, LogEvent(w) PROVE TypeInv'
    BY <1>1 DEF LogEvent
  <1>2. ASSUME NEW w \in Writers, Report(w) PROVE TypeInv'
    <2>1. Current(w) \in Event
      BY <1>2 DEF Report, Current, Event
    <2>2. stream' \in Seq(Event)
      BY <1>2, <2>1 DEF Report
    <2>3. QED
      BY <1>2, <2>2 DEF Report
  <1>3. ASSUME NEW w \in Writers, NotOpened(w) PROVE TypeInv'
    BY <1>3 DEF NotOpened
  <1>4. ASSUME NEW w \in Writers, OpenExisting(w) PROVE TypeInv'
    BY <1>4 DEF OpenExisting
  <1>5. ASSUME NEW w \in Writers, OpenCreate(w) PROVE TypeInv'
    BY <1>5 DEF OpenCreate
  <1>6. ASSUME NEW w \in Writers, Lock(w) PROVE TypeInv'
    BY <1>6 DEF Lock
  <1>7. ASSUME NEW w \in Writers, LockFails(w) PROVE TypeInv'
    BY <1>7 DEF LockFails
  <1>8. ASSUME NEW w \in Writers, Write(w) PROVE TypeInv'
    <2>1. PICK k \in 1..(Parts - total[w]) :
            /\ content' = [content EXCEPT ![fd[w]] = @ \o Slice(w, total[w], k)]
            /\ total' = [total EXCEPT ![w] = @ + k]
            /\ pc' = [pc EXCEPT ![w] =
                        IF total[w] + k = Parts THEN "close" ELSE "write"]
      BY <1>8 DEF Write, Lengths
    <2>2. Slice(w, total[w], k) \in Seq(Part)
      BY <1>8, SliceType DEF Write
    <2>3. content' \in [Inodes -> Seq(Part)]
      BY <1>8, <2>1, <2>2, ConcatParts DEF Write
    <2>4. total' \in [Writers -> 0..Parts] /\ total'[w] = total[w] + k
      <3>1. total[w] + k \in 0..Parts
        <4>1. total[w] \in 0..Parts /\ k \in 1..(Parts - total[w])
          OBVIOUS
        <4>2. QED
          BY <4>1, Increment, Zenon
      <3>2. total \in [Writers -> 0..Parts] /\ total' = [total EXCEPT ![w] = total[w] + k]
        BY <2>1
      <3>3. QED
        BY <3>1, <3>2, Zenon
    <2>5. total[w] \in 0..Parts /\ k \in 1..(Parts - total[w])
      OBVIOUS
    <2>6. total[w] + k # Parts => total[w] + k < Parts
      BY <2>5, Increment, Zenon
    <2>7. TypeOK'
      <3>1. pc' \in [Writers -> {"idle", "report", "open", "lock", "write", "close"}]
        BY <2>1
      <3>2. UNCHANGED <<seq, fd, path, used, lock, rot, rotated, archived, stream,
                        broken>>
        BY <1>8 DEF Write
      <3>3. QED
        BY <2>3, <2>4, <3>1, <3>2
    <2>8. PcInv'
      BY <1>8, <2>1, <2>4, <2>6 DEF Write
    <2>9. QED
      BY <2>7, <2>8
  <1>9. ASSUME NEW w \in Writers, pc[w] # "idle" PROVE CutShort(w) \subseteq Event
    BY <1>9 DEF CutShort, Current, Event
  <1>10. ASSUME NEW w \in Writers, WriteFails(w) PROVE TypeInv'
    BY <1>9, <1>10 DEF WriteFails
  <1>11. ASSUME NEW w \in Writers, Close(w) PROVE TypeInv'
    BY <1>11 DEF Close, Released
  <1>12. ASSUME NEW w \in Writers, Crash(w) PROVE TypeInv'
    BY <1>9, <1>12 DEF Crash, Released
  <1>13. CASE RotateStart
    BY <1>13 DEF RotateStart
  <1>14. CASE RotateRename
    BY <1>14 DEF RotateRename
  <1>15. CASE RotateCreate
    BY <1>15 DEF RotateCreate
  <1>16. CASE UNCHANGED vars
    BY <1>16 DEF vars
  <1>17. QED
    BY <1>1, <1>2, <1>3, <1>4, <1>5, <1>6, <1>7, <1>8, <1>10, <1>11, <1>12,
       <1>13, <1>14, <1>15, <1>16 DEF Next, Writer, Rotate, Done

\* Every variable keeps its type, and a writer in the logging path has a
\* current event and, once past open, a descriptor (logger.c:295-433).
LEMMA TypesHold == Spec => []TypeInv
  BY TypeInit, TypeStep, PTL DEF Spec

\* The variables keep their types, whatever fails and however many writers,
\* events and files there are (logger.c:295-385).
THEOREM TypeCorrect == Spec => []TypeOK
  <1>1. TypeInv => TypeOK
    BY DEF TypeInv
  <1>2. QED
    BY <1>1, TypesHold, PTL

\* Writer w adds k parts of its own line at the end of inode i, which it has
\* open, and changes nothing else in any file.
Appends(w, i, k) ==
  /\ i = fd[w] /\ pc[w] = "write"
  /\ total[w] \in 0..Parts /\ total[w] < Parts /\ seq[w] \in 1..MaxEvents
  /\ total' = [total EXCEPT ![w] = @ + k] /\ total'[w] = total[w] + k
  /\ pc' = [pc EXCEPT ![w] = IF total[w] + k = Parts THEN "close" ELSE "write"]
  /\ \A x \in Inodes \ {i} : content'[x] = content[x]
  /\ content[i] \in Seq(Part) /\ content'[i] \in Seq(Part)
  /\ Len(content'[i]) = Len(content[i]) + k
  /\ \A j \in 1..Len(content[i]) : content'[i][j] = content[i][j]
  /\ \A j \in 1..k : content'[i][Len(content[i]) + j] =
                         [writer |-> w, seq |-> seq[w], part |-> total[w] + j]

\* That is what one call of write does.
LEMMA WriteEffect ==
  ASSUME TypeInv, NEW w \in Writers, Write(w)
  PROVE  \E i \in Inodes, k \in 1..(Parts - total[w]) : Appends(w, i, k)
  <1>1. PICK i \in Inodes : i = fd[w]
    BY DEF Write, TypeInv, TypeOK, PcInv
  <1>2. PICK k \in 1..(Parts - total[w]) :
          /\ content' = [content EXCEPT ![i] = @ \o Slice(w, total[w], k)]
          /\ total' = [total EXCEPT ![w] = @ + k]
          /\ pc' = [pc EXCEPT ![w] =
                      IF total[w] + k = Parts THEN "close" ELSE "write"]
    BY <1>1 DEF Write, Lengths
  <1>3. /\ pc[w] = "write" /\ seq[w] \in 1..MaxEvents
        /\ total[w] \in 0..Parts /\ total[w] < Parts
    BY DEF Write, TypeInv, TypeOK, PcInv
  <1>4. PICK s \in Seq(Part) : s = content[i]
    BY DEF TypeInv, TypeOK
  <1>5. PICK t \in Seq(Part) : t = Slice(w, total[w], k)
    BY <1>3, SliceType DEF TypeInv
  <1>6. /\ Len(t) = k
        /\ \A j \in 1..k :
             t[j] = [writer |-> w, seq |-> seq[w], part |-> total[w] + j]
    BY <1>3, <1>5, SliceType DEF TypeInv
  <1>7. content'[i] = s \o t /\ \A x \in Inodes \ {i} : content'[x] = content[x]
    BY <1>2, <1>4, <1>5 DEF TypeInv, TypeOK
  <1>8. /\ s \o t \in Seq(Part) /\ Len(s \o t) = Len(s) + k
        /\ \A j \in 1..Len(s) : (s \o t)[j] = s[j]
        /\ \A j \in 1..k : (s \o t)[Len(s) + j] = t[j]
    BY <1>6, ConcatParts
  <1>9. total'[w] = total[w] + k
    BY <1>2 DEF TypeInv, TypeOK
  <1>10. /\ content[i] \in Seq(Part) /\ content'[i] \in Seq(Part)
         /\ Len(content'[i]) = Len(content[i]) + k
         /\ \A j \in 1..Len(content[i]) : content'[i][j] = content[i][j]
         /\ \A j \in 1..k : content'[i][Len(content[i]) + j] =
                                [writer |-> w, seq |-> seq[w], part |-> total[w] + j]
    BY <1>4, <1>6, <1>7, <1>8
  <1>11. QED
    BY <1>1, <1>2, <1>3, <1>7, <1>9, <1>10 DEF Appends

-----------------------------------------------------------------------------
(* The lines of a file stand apart.                                        *)
(*                                                                         *)
(* NoInterleaving and FragmentsExplained are not inductive: they need the  *)
(* lock to be held by whoever writes (LockInv), the file to end in what    *)
(* the writing process has written so far (TailInv), and an unfinished     *)
(* line at the end of a file to belong to the writer or to a failed event  *)
(* (EndInv).                                                               *)

LockInv == \A w \in Writers : pc[w] = "write" => lock[fd[w]] = w

LastOf(i) == content[i][Len(content[i])]

TailInv ==
  \A w \in Writers :
    pc[w] = "write" /\ total[w] > 0 =>
      /\ content[fd[w]] # <<>>
      /\ LastOf(fd[w]) = [writer |-> w, seq |-> seq[w], part |-> total[w]]

EndInv ==
  \A i \in Inodes :
    content[i] # <<>> =>
      \/ LastOf(i).part = Parts
      \/ EventOf(LastOf(i)) \in broken
      \/ \E w \in Writers :
           /\ pc[w] = "write" /\ fd[w] = i
           /\ LastOf(i) = [writer |-> w, seq |-> seq[w], part |-> total[w]]

LineInv ==
  TypeInv /\ LockInv /\ TailInv /\ EndInv /\ NoInterleaving /\ FragmentsExplained

\* No two processes write to one inode.
LEMMA Exclusive ==
  ASSUME LockInv, NEW v \in Writers, NEW w \in Writers,
         pc[v] = "write", pc[w] = "write", fd[v] = fd[w]
  PROVE  v = w
  BY DEF LockInv

LEMMA LineInit == Init => LineInv
  <1> SUFFICES ASSUME Init PROVE LineInv
    OBVIOUS
  <1>1. TypeInv
    BY TypeInit
  <1>2. LockInv /\ TailInv
    BY DEF Init, LockInv, TailInv
  <1>3. EndInv /\ NoInterleaving /\ FragmentsExplained
    BY DEF Init, EndInv, NoInterleaving, FragmentsExplained
  <1>4. QED
    BY <1>1, <1>2, <1>3 DEF LineInv

\* A step that leaves the files alone, takes nobody into the loop of writes
\* except with the lock, and forgets no failed event, keeps LineInv.
LEMMA QuietStep ==
  ASSUME LineInv, TypeInv', content' = content, broken \subseteq broken',
         \A w \in Writers : pc'[w] = "write" =>
            /\ lock'[fd'[w]] = w
            /\ fd'[w] = fd[w] /\ seq'[w] = seq[w] /\ total'[w] = total[w]
            /\ pc[w] = "write" \/ total[w] = 0,
         \A w \in Writers : pc[w] = "write" =>
            \/ /\ pc'[w] = "write"
               /\ fd'[w] = fd[w] /\ seq'[w] = seq[w] /\ total'[w] = total[w]
            \/ CutShort(w) \subseteq broken'
  PROVE  LineInv'
  <1>1. LockInv' /\ TailInv'
    BY DEF LineInv, LockInv, TailInv, LastOf, TypeInv, TypeOK
  <1>2. NoInterleaving' /\ FragmentsExplained'
    BY DEF LineInv, NoInterleaving, FragmentsExplained
  <1>3. EndInv'
    <2> SUFFICES ASSUME NEW i \in Inodes, content'[i] # <<>>,
                        LastOf(i)'.part # Parts, EventOf(LastOf(i)') \notin broken'
                 PROVE  \E w \in Writers :
                          /\ pc'[w] = "write" /\ fd'[w] = i
                          /\ LastOf(i)' = [writer |-> w, seq |-> seq'[w],
                                           part |-> total'[w]]
      BY DEF EndInv, EventOf
    <2>0. LastOf(i)' = LastOf(i)
      BY DEF LastOf
    <2>5. PICK w \in Writers :
            /\ pc[w] = "write" /\ fd[w] = i
            /\ LastOf(i) = [writer |-> w, seq |-> seq[w], part |-> total[w]]
      BY <2>0 DEF LineInv, EndInv
    <2>1. LastOf(i) \in Part
      BY <2>0 DEF LineInv, TypeInv, TypeOK, LastOf
    <2>2. total[w] \in 1..(Parts - 1)
      BY <2>0, <2>1, <2>5, PartsAssumption DEF Part
    <2>3. CutShort(w) = {EventOf(LastOf(i))}
      BY <2>2, <2>5 DEF CutShort, Current, EventOf
    <2>4. QED
      BY <2>0, <2>3, <2>5
  <1>4. QED
    BY <1>1, <1>2, <1>3 DEF LineInv

\* A write appends the next parts of the writer's own line.
LEMMA WriteStep ==
  ASSUME LineInv, TypeInv', NEW w \in Writers, Write(w)
  PROVE  LineInv'
  <1>1. /\ pc[w] = "write" /\ seq' = seq /\ fd' = fd /\ lock' = lock
        /\ broken' = broken
    BY DEF Write
  <1>2. PICK i \in Inodes, k \in 1..(Parts - total[w]) : Appends(w, i, k)
    <2>1. TypeInv
      BY DEF LineInv
    <2>2. QED
      BY <2>1, WriteEffect
  <1> USE DEF Appends
  <1>3. PICK s \in Seq(Part) :
          /\ s = content[i]
          /\ Len(content'[i]) = Len(s) + k
          /\ \A j \in 1..Len(s) : content'[i][j] = s[j]
          /\ \A j \in 1..k : content'[i][Len(s) + j] =
               [writer |-> w, seq |-> seq[w], part |-> total[w] + j]
    BY <1>2
  <1>0. /\ k \in Nat \ {0} /\ Len(s) \in Nat /\ Parts \in Nat \ {0, 1}
        /\ total[w] \in Nat /\ total[w] < Parts
    BY <1>2, <1>3, PartsAssumption
  <1>4. /\ content'[i] # <<>>
        /\ LastOf(i)' = [writer |-> w, seq |-> seq[w], part |-> total'[w]]
    <2>1. content'[i][Len(s) + k] =
             [writer |-> w, seq |-> seq[w], part |-> total[w] + k]
      BY <1>0, <1>2, <1>3
    <2>2. QED
      BY <2>1, <1>0, <1>2, <1>3 DEF LastOf
  \* Nobody else writes to this inode, before or after the step.
  <1>5. \A v \in Writers \ {w} :
          pc'[v] = "write" => pc[v] = "write" /\ fd[v] # i /\ total'[v] = total[v]
    BY <1>2, <1>3, <1>1, Exclusive DEF LineInv, TypeInv, TypeOK
  <1>6. LockInv'
    BY <1>2, <1>3, <1>1, <1>5 DEF LineInv, LockInv, TypeInv, TypeOK
  <1>7. TailInv'
    <2> SUFFICES ASSUME NEW v \in Writers, pc'[v] = "write", total'[v] > 0
                 PROVE  /\ content'[fd[v]] # <<>>
                        /\ LastOf(fd[v])' = [writer |-> v, seq |-> seq[v],
                                             part |-> total'[v]]
      BY <1>1, <1>2, <1>3 DEF TailInv, LastOf
    <2>1. CASE v = w
      BY <2>1, <1>1, <1>2, <1>3, <1>4 DEF LastOf
    <2>2. CASE v # w
      <3>1. pc[v] = "write" /\ fd[v] # i /\ total'[v] = total[v] /\ fd[v] \in Inodes
        BY <2>2, <1>5 DEF LineInv, TypeInv, PcInv
      <3>2. content'[fd[v]] = content[fd[v]]
        BY <3>1, <1>2, <1>3
      <3>3. QED
        BY <3>1, <3>2, <1>1, <1>2, <1>3 DEF LineInv, TailInv, LastOf
    <2>3. QED
      BY <2>1, <2>2
  <1>8. EndInv'
    <2> SUFFICES ASSUME NEW x \in Inodes, content'[x] # <<>>,
                        LastOf(x)'.part # Parts, EventOf(LastOf(x)') \notin broken
                 PROVE  \E v \in Writers :
                          /\ pc'[v] = "write" /\ fd[v] = x
                          /\ LastOf(x)' = [writer |-> v, seq |-> seq[v],
                                           part |-> total'[v]]
      BY <1>1, <1>2, <1>3 DEF EndInv, EventOf
    <2>1. CASE x = i
      <3>1. total[w] + k # Parts
        BY <2>1, <1>2, <1>3, <1>4
      <3>2. pc'[w] = "write"
        BY <3>1, <1>2, <1>3 DEF LineInv, TypeInv, TypeOK
      <3>3. QED
        BY <3>2, <2>1, <1>2, <1>3, <1>4
    <2>2. CASE x # i
      <3>1. LastOf(x)' = LastOf(x) /\ content[x] # <<>>
        BY <2>2, <1>2, <1>3 DEF LastOf
      <3>2. PICK v \in Writers :
              /\ pc[v] = "write" /\ fd[v] = x
              /\ LastOf(x) = [writer |-> v, seq |-> seq[v], part |-> total[v]]
        BY <3>1 DEF LineInv, EndInv
      <3>3. v # w
        BY <2>2, <3>2, <1>2, <1>3
      <3>4. pc'[v] = "write" /\ total'[v] = total[v]
        BY <3>2, <3>3, <1>2, <1>3 DEF LineInv, TypeInv, TypeOK
      <3>5. QED
        BY <3>1, <3>2, <3>4
    <2>3. QED
      BY <2>1, <2>2
  \* The seam between what the file held and the first new part.
  <1>9. /\ s = <<>> => total[w] = 0
        /\ s # <<>> /\ total[w] = 0 =>
             s[Len(s)].part = Parts \/ EventOf(s[Len(s)]) \in broken
        /\ s # <<>> /\ total[w] # 0 =>
             s[Len(s)] = [writer |-> w, seq |-> seq[w], part |-> total[w]]
    <2>1. ASSUME total[w] # 0
          PROVE  /\ s # <<>>
                 /\ s[Len(s)] = [writer |-> w, seq |-> seq[w], part |-> total[w]]
      <3>1. content[fd[w]] = s /\ total[w] > 0
        BY <1>2, <1>3, <2>1
      <3>2. QED
        BY <3>1, <1>1 DEF LineInv, TailInv, LastOf
    <2>2. ASSUME s # <<>>, total[w] = 0
          PROVE  s[Len(s)].part = Parts \/ EventOf(s[Len(s)]) \in broken
      <3> SUFFICES ASSUME NEW v \in Writers, pc[v] = "write", fd[v] = i,
                          s[Len(s)] = [writer |-> v, seq |-> seq[v],
                                       part |-> total[v]]
                   PROVE  FALSE
        BY <1>3, <2>2 DEF LineInv, EndInv, LastOf
      <3>1. v = w
        BY <1>1, <1>2, <1>3, Exclusive DEF LineInv
      <3>2. s[Len(s)] \in Part
        BY <2>2
      <3>3. QED
        BY <3>1, <3>2, <2>2 DEF Part
    <2>3. QED
      BY <2>1, <2>2
  <1>10. /\ s = <<>> => content'[i][Len(s) + 1].part = 1
         /\ s # <<>> => Follows(s[Len(s)], content'[i][Len(s) + 1])
         /\ s # <<>> /\ content'[i][Len(s) + 1].part = 1 =>
              s[Len(s)].part = Parts \/ EventOf(s[Len(s)]) \in broken
    <2>1. content'[i][Len(s) + 1] =
             [writer |-> w, seq |-> seq[w], part |-> total[w] + 1]
      BY <1>0, <1>2, <1>3
    <2>2. QED
      BY <2>1, <1>0, <1>9 DEF Follows, EventOf
  <1>11. NoInterleaving'
    <2> SUFFICES ASSUME NEW x \in Inodes, NEW j \in 1..Len(content'[x])
                 PROVE  IF j = 1 THEN content'[x][1].part = 1
                        ELSE Follows(content'[x][j - 1], content'[x][j])
      BY DEF NoInterleaving, Follows, EventOf
    <2>1. CASE x # i
      <3>1. content'[x] = content[x]
        BY <2>1, <1>2
      <3>2. QED
        BY <3>1 DEF LineInv, NoInterleaving
    <2>2. CASE x = i /\ j <= Len(s)
      <3>1. j \in 1..Len(s) /\ content'[x][j] = s[j]
        BY <2>2, <1>0, <1>2, <1>3
      <3>2. j # 1 => content'[x][j - 1] = s[j - 1]
        BY <2>2, <1>0, <1>2, <1>3
      <3>3. QED
        BY <3>1, <3>2, <2>2, <1>3 DEF LineInv, NoInterleaving
    <2>3. CASE x = i /\ j = Len(s) + 1
      <3>1. ASSUME s # <<>> PROVE j # 1 /\ content'[x][j - 1] = s[Len(s)]
        <4>1. Len(s) \in 1..Len(s) /\ j - 1 = Len(s) /\ j # 1
          BY <3>1, <2>3, <1>0
        <4>2. QED
          BY <4>1, <2>3, <1>3
      <3>2. QED
        BY <3>1, <2>3, <1>10
    <2>4. CASE x = i /\ j > Len(s) + 1
      <3>0. j - Len(s) \in 2..k /\ j = Len(s) + (j - Len(s))
        <4>1. j \in Nat /\ j <= Len(s) + k /\ j > Len(s) + 1
          BY <2>4, <1>0, <1>3
        <4>2. QED
          BY <4>1, <1>0
      <3>1. PICK m \in 2..k : j = Len(s) + m
        BY <3>0
      <3>2. /\ content'[x][j] = [writer |-> w, seq |-> seq[w], part |-> total[w] + m]
            /\ content'[x][j - 1] =
                 [writer |-> w, seq |-> seq[w], part |-> total[w] + (m - 1)]
        <4>1. m \in 1..k /\ m - 1 \in 1..k /\ j - 1 = Len(s) + (m - 1)
          BY <3>1, <1>0
        <4>2. QED
          BY <4>1, <3>1, <2>4, <1>2, <1>3
      <3>3. total[w] + m = (total[w] + (m - 1)) + 1
        BY <1>0, <3>1
      <3>4. Follows(content'[x][j - 1], content'[x][j])
        BY <3>2, <3>3 DEF Follows, EventOf
      <3>5. QED
        BY <3>4, <2>4, <1>0
    <2>5. QED
      BY <2>1, <2>2, <2>3, <2>4, <1>0
  <1>12. FragmentsExplained'
    <2> SUFFICES ASSUME NEW x \in Inodes, NEW j \in 2..Len(content'[x]),
                        content'[x][j].part = 1
                 PROVE  \/ content'[x][j - 1].part = Parts
                        \/ EventOf(content'[x][j - 1]) \in broken
      BY <1>1 DEF FragmentsExplained, EventOf
    <2>1. CASE x # i
      <3>1. content'[x] = content[x]
        BY <2>1, <1>2
      <3>2. QED
        BY <3>1 DEF LineInv, FragmentsExplained
    <2>2. CASE x = i /\ j <= Len(s)
      <3>1. j \in 2..Len(s) /\ j \in 1..Len(s) /\ j - 1 \in 1..Len(s)
        BY <2>2, <1>0
      <3>2. content'[x][j] = s[j] /\ content'[x][j - 1] = s[j - 1]
        BY <3>1, <2>2, <1>3
      <3>3. QED
        BY <3>1, <3>2, <2>2, <1>3 DEF LineInv, FragmentsExplained
    <2>3. CASE x = i /\ j = Len(s) + 1
      <3>1. Len(s) \in 1..Len(s) /\ j - 1 = Len(s) /\ s # <<>>
        BY <2>3, <1>0
      <3>2. content'[x][j - 1] = content'[i][Len(s)]
        BY <3>1, <2>3
      <3>3. content'[i][Len(s)] = s[Len(s)]
        BY <3>1, <1>3
      <3>4. content'[i][Len(s) + 1].part = 1
        BY <2>3
      <3>5. s[Len(s)].part = Parts \/ EventOf(s[Len(s)]) \in broken
        BY <3>1, <3>4, <1>10
      <3>6. QED
        BY <3>2, <3>3, <3>5
    <2>4. CASE x = i /\ j > Len(s) + 1
      <3>0. j - Len(s) \in 2..k /\ j = Len(s) + (j - Len(s))
        <4>1. j \in Nat /\ j <= Len(s) + k /\ j > Len(s) + 1
          BY <2>4, <1>0, <1>3
        <4>2. QED
          BY <4>1, <1>0
      <3>1. PICK m \in 2..k : j = Len(s) + m
        BY <3>0
      <3>2. content'[x][j] = [writer |-> w, seq |-> seq[w], part |-> total[w] + m]
        BY <3>1, <2>4, <1>0, <1>2, <1>3
      <3>3. QED
        BY <3>1, <3>2, <2>4, <1>0, <1>2, <1>3
    <2>5. QED
      BY <2>1, <2>2, <2>3, <2>4, <1>0
  <1>13. QED
    BY <1>6, <1>7, <1>8, <1>11, <1>12 DEF LineInv

LEMMA LineStep == LineInv /\ [Next]_vars => LineInv'
  <1> SUFFICES ASSUME LineInv, [Next]_vars PROVE LineInv'
    OBVIOUS
  <1>0. TypeInv'
    BY TypeStep DEF LineInv
  <1> USE <1>0, NoneAssumption DEF TypeInv, TypeOK, PcInv, rotVars, writerVars
  <1>1. ASSUME NEW w \in Writers, LogEvent(w) PROVE LineInv'
    BY <1>1, QuietStep DEF LogEvent, LineInv, LockInv
  <1>2. ASSUME NEW w \in Writers, Report(w) PROVE LineInv'
    BY <1>2, QuietStep DEF Report, LineInv, LockInv
  <1>3. ASSUME NEW w \in Writers, NotOpened(w) PROVE LineInv'
    BY <1>3, QuietStep DEF NotOpened, LineInv, LockInv
  <1>4. ASSUME NEW w \in Writers, OpenExisting(w) PROVE LineInv'
    BY <1>4, QuietStep DEF OpenExisting, LineInv, LockInv
  <1>5. ASSUME NEW w \in Writers, OpenCreate(w) PROVE LineInv'
    BY <1>5, QuietStep DEF OpenCreate, LineInv, LockInv
  <1>6. ASSUME NEW w \in Writers, Lock(w) PROVE LineInv'
    BY <1>6, QuietStep DEF Lock, LineInv, LockInv
  <1>7. ASSUME NEW w \in Writers, LockFails(w) PROVE LineInv'
    BY <1>7, QuietStep DEF LockFails, LineInv, LockInv
  <1>8. ASSUME NEW w \in Writers, Write(w) PROVE LineInv'
    BY <1>8, WriteStep
  <1>9. ASSUME NEW w \in Writers, WriteFails(w) PROVE LineInv'
    BY <1>9, QuietStep DEF WriteFails, LineInv, LockInv
  <1>10. ASSUME NEW w \in Writers, Close(w) PROVE LineInv'
    BY <1>10, QuietStep DEF Close, Released, LineInv, LockInv
  <1>11. ASSUME NEW w \in Writers, Crash(w) PROVE LineInv'
    BY <1>11, QuietStep DEF Crash, Released, LineInv, LockInv
  <1>12. CASE Rotate
    BY <1>12, QuietStep
       DEF Rotate, RotateStart, RotateRename, RotateCreate, LineInv, LockInv
  <1>13. CASE UNCHANGED vars
    BY <1>13, QuietStep DEF vars, LineInv, LockInv
  <1>14. QED
    BY <1>1, <1>2, <1>3, <1>4, <1>5, <1>6, <1>7, <1>8, <1>9, <1>10, <1>11, <1>12,
       <1>13 DEF Next, Writer, Done

LEMMA LinesApart == Spec => []LineInv
  BY LineInit, LineStep, PTL DEF Spec

\* For any number of writers, failures, crashes and rotations, the parts of a
\* line stand together and in order in its file (logger.c:286-327).
THEOREM LinesNeverInterleave == Spec => []NoInterleaving
  <1>1. LineInv => NoInterleaving
    BY DEF LineInv
  <1>2. QED
    BY <1>1, LinesApart, PTL

\* Only an event whose write failed, or whose process died in the middle of
\* the loop, leaves a line without its newline in front of another line.
THEOREM FragmentsOnlyFromFailures == Spec => []FragmentsExplained
  <1>1. LineInv => FragmentsExplained
    BY DEF LineInv
  <1>2. QED
    BY <1>1, LinesApart, PTL

-----------------------------------------------------------------------------
(* Compressed files.                                                       *)
(*                                                                         *)
(* Nobody can reach a compressed file any more: no descriptor refers to    *)
(* it, the path does not name it, and inodes are not created twice.        *)

ArchiveInv ==
  /\ TypeInv
  /\ ArchiveComplete
  /\ DOMAIN archived \subseteq used
  /\ {path, rotated} \subseteq used \cup {None}
  /\ rotated # None => rotated # path
  /\ {path, rotated} \cap DOMAIN archived = {}
  /\ \A w \in Writers : fd[w] \notin DOMAIN archived

LEMMA ArchiveInit == Init => ArchiveInv
  BY TypeInit, NoneAssumption DEF Init, ArchiveInv, ArchiveComplete

LEMMA ArchiveStep == ArchiveInv /\ [Next]_vars => ArchiveInv'
  <1> SUFFICES ASSUME ArchiveInv, [Next]_vars PROVE ArchiveInv'
    OBVIOUS
  <1>0. TypeInv'
    BY TypeStep DEF ArchiveInv
  <1> USE <1>0, NoneAssumption DEF ArchiveInv, TypeInv, TypeOK, ArchiveComplete
  <1>1. ASSUME NEW w \in Writers, OpenExisting(w) PROVE ArchiveInv'
    BY <1>1 DEF OpenExisting, rotVars
  <1>2. ASSUME NEW w \in Writers, OpenCreate(w) PROVE ArchiveInv'
    BY <1>2 DEF OpenCreate, rotVars
  <1>3. ASSUME NEW w \in Writers, Write(w) PROVE ArchiveInv'
    <2>1. \A i \in DOMAIN archived : content'[i] = content[i]
      BY <1>3 DEF Write
    <2>2. QED
      BY <1>3, <2>1 DEF Write, rotVars
  <1>4. ASSUME NEW w \in Writers, Close(w) \/ Crash(w) PROVE ArchiveInv'
    <2>1. /\ fd' = [fd EXCEPT ![w] = None]
          /\ UNCHANGED <<content, path, used, rotated, archived>>
      BY <1>4 DEF Close, Crash, rotVars
    <2>2. \A v \in Writers : fd'[v] \notin DOMAIN archived'
      BY <2>1
    <2>3. QED
      BY <2>1, <2>2
  <1>5. ASSUME NEW w \in Writers,
               \/ LogEvent(w) \/ Report(w) \/ NotOpened(w) \/ Lock(w)
               \/ LockFails(w) \/ WriteFails(w)
        PROVE  ArchiveInv'
    BY <1>5 DEF LogEvent, Report, NotOpened, Lock, LockFails, WriteFails, rotVars
  <1>6. CASE RotateStart
    <2>1. CASE rotated = None
      BY <1>6, <2>1 DEF RotateStart, writerVars
    <2>2. CASE rotated # None
      <3>1. /\ DOMAIN archived' = DOMAIN archived \cup {rotated}
            /\ \A i \in DOMAIN archived' :
                 archived'[i] = IF i = rotated THEN Len(content[i]) ELSE archived[i]
        BY <1>6, <2>2 DEF RotateStart
      <3>2. \A w \in Writers : fd[w] # rotated
        BY <1>6, <2>2 DEF RotateStart, Settled
      <3>3. QED
        BY <1>6, <2>2, <3>1, <3>2 DEF RotateStart, writerVars
    <2>3. QED
      BY <2>1, <2>2
  <1>7. CASE RotateRename
    BY <1>7 DEF RotateRename, writerVars
  <1>8. CASE RotateCreate
    BY <1>8 DEF RotateCreate, writerVars
  <1>9. CASE UNCHANGED vars
    BY <1>9 DEF vars
  <1>10. QED
    BY <1>1, <1>2, <1>3, <1>4, <1>5, <1>6, <1>7, <1>8, <1>9
       DEF Next, Writer, Rotate, Done

\* Given delaycompress, and no writer that holds a descriptor across two
\* rotations, a compressed copy is complete (sticky_honey_bun.logrotate:22-30).
THEOREM CompressedCopiesComplete == Spec => []ArchiveComplete
  <1>1. ArchiveInv => ArchiveComplete
    BY DEF ArchiveInv
  <1>2. QED
    BY <1>1, ArchiveInit, ArchiveStep, PTL DEF Spec

-----------------------------------------------------------------------------
(* No part twice, and the server log first.                                *)
(*                                                                         *)
(* AtMostOnce needs to know that what is in the files came before: a part  *)
(* of an event that has begun, and of the current event of a writer only   *)
(* the parts counted in total.  StreamFirst needs the current event to be  *)
(* in the server log from the report to the end of the writes.             *)

WrittenInv ==
  \A i \in Inodes : \A j \in 1..Len(content[i]) :
    LET c == content[i][j] IN
      \/ c.seq < seq[c.writer]
      \/ c.seq = seq[c.writer] /\ c.part <= total[c.writer]

InStream(e) == \E k \in 1..Len(stream) : stream[k] = e

ReportedInv ==
  StreamOn => \A w \in Writers : pc[w] \in {"open", "lock", "write"} =>
                InStream(Current(w))

OnceInv == TypeInv /\ WrittenInv /\ AtMostOnce /\ ReportedInv /\ StreamFirst

LEMMA OnceInit == Init => OnceInv
  <1> SUFFICES ASSUME Init PROVE OnceInv
    OBVIOUS
  <1>1. TypeInv
    BY TypeInit
  <1>2. \A i \in Inodes : Len(content[i]) = 0
    BY DEF Init
  <1>3. WrittenInv /\ AtMostOnce /\ StreamFirst
    BY <1>2 DEF WrittenInv, AtMostOnce, StreamFirst
  <1>4. ReportedInv
    BY DEF Init, ReportedInv
  <1>5. QED
    BY <1>1, <1>3, <1>4 DEF OnceInv

\* A step that leaves the files alone keeps OnceInv, if it takes no event back,
\* forgets nothing that was reported, and lets nobody get to open unreported.
LEMMA QuietOnce ==
  ASSUME OnceInv, TypeInv', content' = content,
         \A e : InStream(e) => InStream(e)',
         \A w \in Writers :
            \/ seq'[w] = seq[w] /\ total'[w] = total[w]
            \/ seq'[w] = seq[w] + 1,
         \A w \in Writers : pc'[w] \in {"open", "lock", "write"} =>
            /\ seq'[w] = seq[w]
            /\ \/ pc[w] \in {"open", "lock", "write"}
               \/ StreamOn => InStream(Current(w))'
  PROVE  OnceInv'
  <1>1. WrittenInv'
    <2> SUFFICES ASSUME NEW i \in Inodes, NEW j \in 1..Len(content[i])
                 PROVE  LET c == content[i][j] IN
                          \/ c.seq < seq'[c.writer]
                          \/ c.seq = seq'[c.writer] /\ c.part <= total'[c.writer]
      BY DEF WrittenInv
    <2> PICK c \in Part : c = content[i][j]
      BY DEF OnceInv, TypeInv, TypeOK
    <2>0. c.writer \in Writers /\ c.seq \in Nat
      BY DEF Part
    <2>1. seq[c.writer] \in Nat /\ seq'[c.writer] \in Nat
      BY <2>0 DEF OnceInv, TypeInv, TypeOK
    <2>2. \/ c.seq < seq[c.writer]
          \/ c.seq = seq[c.writer] /\ c.part <= total[c.writer]
      BY DEF OnceInv, WrittenInv
    <2>3. QED
      BY <2>0, <2>1, <2>2
  <1>2. AtMostOnce'
    BY DEF OnceInv, AtMostOnce
  <1>3. ReportedInv'
    BY DEF OnceInv, ReportedInv, Current
  <1>4. StreamFirst'
    BY DEF OnceInv, StreamFirst, InStream
  <1>5. QED
    BY <1>1, <1>2, <1>3, <1>4 DEF OnceInv

\* The parts a write adds are new ones, of an event that was reported.
LEMMA WriteOnce ==
  ASSUME OnceInv, TypeInv', NEW w \in Writers, Write(w)
  PROVE  OnceInv'
  <1>0. TypeInv
    BY DEF OnceInv
  <1>1. PICK i \in Inodes, k \in 1..(Parts - total[w]) : Appends(w, i, k)
    BY <1>0, WriteEffect
  <1> USE DEF Appends
  <1>2. seq' = seq /\ stream' = stream
    BY DEF Write
  <1>3. PICK n \in Nat : n = Len(content[i])
    BY <1>1
  <1>4. k \in Nat \ {0} /\ total[w] \in Nat
    BY <1>1, PartsAssumption
  \* A part of a file after the step was there before, or is one of the k.
  <1>5. ASSUME NEW x \in Inodes, NEW j \in 1..Len(content'[x])
        PROVE  \/ /\ j \in 1..Len(content[x]) /\ content'[x][j] = content[x][j]
               \/ /\ x = i /\ j - n \in 1..k
                  /\ content'[x][j] =
                       [writer |-> w, seq |-> seq[w], part |-> total[w] + (j - n)]
    <2>1. CASE x # i
      BY <2>1, <1>1
    <2>2. CASE x = i /\ j <= n
      BY <2>2, <1>1, <1>3
    <2>3. CASE x = i /\ j > n
      <3>1. j - n \in 1..k /\ j = n + (j - n)
        BY <2>3, <1>1, <1>3, <1>4
      <3>2. QED
        BY <3>1, <2>3, <1>1, <1>3
    <2>4. QED
      BY <2>1, <2>2, <2>3, <1>3
  <1>6. ASSUME NEW x \in Inodes, NEW j \in 1..Len(content[x]),
               content[x][j].writer = w, content[x][j].seq = seq[w]
        PROVE  content[x][j].part <= total[w]
    <2>1. seq[w] \in Nat
      BY <1>0 DEF TypeInv, TypeOK
    <2>2. QED
      BY <2>1, <1>6 DEF OnceInv, WrittenInv
  <1>7. WrittenInv'
    <2> SUFFICES ASSUME NEW x \in Inodes, NEW j \in 1..Len(content'[x])
                 PROVE  LET c == content'[x][j] IN
                          \/ c.seq < seq[c.writer]
                          \/ c.seq = seq[c.writer] /\ c.part <= total'[c.writer]
      BY <1>2 DEF WrittenInv
    <2>1. CASE j \in 1..Len(content[x]) /\ content'[x][j] = content[x][j]
      <3> PICK c \in Part : c = content[x][j]
        BY <1>0, <2>1 DEF TypeInv, TypeOK
      <3>1. \/ c.seq < seq[c.writer]
            \/ c.seq = seq[c.writer] /\ c.part <= total[c.writer]
        BY <2>1 DEF OnceInv, WrittenInv
      <3>2. c.part \in Nat /\ c.writer \in Writers
        BY PartsAssumption DEF Part
      <3>3. c.writer # w => total'[c.writer] = total[c.writer]
        BY <1>0, <1>1, <3>2 DEF TypeInv, TypeOK
      <3>4. c.part <= total[c.writer] => c.part <= total'[c.writer]
        BY <1>1, <1>4, <3>2, <3>3
      <3>5. QED
        BY <2>1, <3>1, <3>4
    <2>2. CASE /\ x = i /\ j - n \in 1..k
               /\ content'[x][j] =
                    [writer |-> w, seq |-> seq[w], part |-> total[w] + (j - n)]
      <3>1. total[w] + (j - n) <= total'[w]
        BY <2>2, <1>1, <1>3, <1>4
      <3>2. QED
        BY <2>2, <3>1
    <2>3. QED
      BY <2>1, <2>2, <1>5
  <1>8. AtMostOnce'
    <2> SUFFICES ASSUME NEW x \in Inodes, NEW y \in Inodes,
                        NEW j \in 1..Len(content'[x]), NEW m \in 1..Len(content'[y]),
                        content'[x][j] = content'[y][m]
                 PROVE  x = y /\ j = m
      BY DEF AtMostOnce
    <2> DEFINE Old(z, p) == /\ p \in 1..Len(content[z])
                            /\ content'[z][p] = content[z][p]
               New(z, p) == /\ z = i /\ p - n \in 1..k
                            /\ content'[z][p] =
                                 [writer |-> w, seq |-> seq[w],
                                  part |-> total[w] + (p - n)]
    <2>1. (Old(x, j) \/ New(x, j)) /\ (Old(y, m) \/ New(y, m))
      BY <1>5
    <2>2. CASE Old(x, j) /\ Old(y, m)
      <3>1. content[x][j] = content[y][m]
        BY <2>2
      <3>2. AtMostOnce
        BY DEF OnceInv
      <3>3. QED
        BY <2>2, <3>1, <3>2 DEF AtMostOnce
    <2>3. ASSUME NEW z \in Inodes, NEW p \in 1..Len(content'[z]),
                 NEW q \in 1..Len(content'[i]),
                 Old(z, p), New(i, q), content'[z][p] = content'[i][q]
          PROVE  FALSE
      <3>1. /\ p \in 1..Len(content[z])
            /\ content[z][p] = [writer |-> w, seq |-> seq[w],
                                part |-> total[w] + (q - n)]
        BY <2>3
      <3>2. /\ content[z][p].writer = w /\ content[z][p].seq = seq[w]
            /\ content[z][p].part = total[w] + (q - n)
        BY <3>1
      <3>3. content[z][p].part <= total[w]
        BY <3>1, <3>2, <1>6
      <3>4. q - n \in 1..k
        BY <2>3
      <3>5. QED
        BY <3>2, <3>3, <3>4, <1>4
    <2>4. CASE New(x, j) /\ New(y, m)
      <3>1. x = y /\ total[w] + (j - n) = total[w] + (m - n)
        BY <2>4
      <3>2. QED
        BY <3>1, <1>3, <1>4
    <2>5. QED
      BY <2>1, <2>2, <2>3, <2>4
  <1>9. ReportedInv'
    <2>1. \A v \in Writers : pc'[v] \in {"open", "lock", "write"} =>
             pc[v] \in {"open", "lock", "write"}
      BY <1>0, <1>1 DEF TypeInv, TypeOK
    <2>2. QED
      BY <2>1, <1>2 DEF OnceInv, ReportedInv, InStream, Current
  <1>10. StreamFirst'
    <2> SUFFICES ASSUME StreamOn, NEW x \in Inodes, NEW j \in 1..Len(content'[x])
                 PROVE  \E m \in 1..Len(stream) : stream[m] = EventOf(content'[x][j])
      BY <1>2 DEF StreamFirst, EventOf
    <2>1. CASE j \in 1..Len(content[x]) /\ content'[x][j] = content[x][j]
      BY <2>1 DEF OnceInv, StreamFirst
    <2>2. CASE content'[x][j] =
                 [writer |-> w, seq |-> seq[w], part |-> total[w] + (j - n)]
      <3>1. EventOf(content'[x][j]) = Current(w)
        BY <2>2 DEF EventOf, Current
      <3>2. InStream(Current(w))
        BY <1>1 DEF OnceInv, ReportedInv
      <3>3. QED
        BY <3>1, <3>2 DEF InStream
    <2>3. QED
      BY <2>1, <2>2, <1>5
  <1>11. QED
    BY <1>7, <1>8, <1>9, <1>10 DEF OnceInv

LEMMA OnceStep == OnceInv /\ [Next]_vars => OnceInv'
  <1> SUFFICES ASSUME OnceInv, [Next]_vars PROVE OnceInv'
    OBVIOUS
  <1>0. TypeInv /\ TypeInv'
    BY TypeStep DEF OnceInv
  <1>1. ASSUME NEW w \in Writers, LogEvent(w) PROVE OnceInv'
    <2>1. /\ seq' = [seq EXCEPT ![w] = @ + 1]
          /\ total' = [total EXCEPT ![w] = 0]
          /\ pc' \in {pc, [pc EXCEPT ![w] = "report"]} /\ pc[w] = "idle"
          /\ content' = content /\ stream' = stream
      BY <1>1 DEF LogEvent
    <2>2. \A v \in Writers : \/ seq'[v] = seq[v] /\ total'[v] = total[v]
                             \/ seq'[v] = seq[v] + 1
      BY <2>1, <1>0 DEF TypeInv, TypeOK
    <2>3. \A v \in Writers : pc'[v] \in {"open", "lock", "write"} =>
             seq'[v] = seq[v] /\ pc[v] \in {"open", "lock", "write"}
      BY <2>1, <1>0 DEF TypeInv, TypeOK
    <2>4. \A e : InStream(e) => InStream(e)'
      BY <2>1 DEF InStream
    <2>5. QED
      BY <2>1, <2>2, <2>3, <2>4, <1>0, QuietOnce
  <1>2. ASSUME NEW w \in Writers, Report(w) PROVE OnceInv'
    <2>1. /\ seq' = seq /\ total' = total /\ content' = content
          /\ stream' = IF StreamOn THEN Append(stream, Current(w)) ELSE stream
      BY <1>2 DEF Report
    <2>2. stream \in Seq(Event) /\ Current(w)' = Current(w)
      BY <2>1, <1>0 DEF TypeInv, TypeOK, Current
    <2>3. \A e : InStream(e) => InStream(e)'
      BY <2>1, <2>2 DEF InStream
    <2>4. StreamOn => InStream(Current(w))'
      BY <2>1, <2>2 DEF InStream
    <2>5. \A v \in Writers \ {w} : pc'[v] = pc[v]
      BY <1>2, <1>0 DEF Report, TypeInv, TypeOK
    <2>6. QED
      BY <2>1, <2>3, <2>4, <2>5, <1>0, QuietOnce
  <1>3. ASSUME NEW w \in Writers, Write(w) PROVE OnceInv'
    BY <1>3, <1>0, WriteOnce
  <1>4. ASSUME NEW w \in Writers,
               \/ NotOpened(w) \/ OpenExisting(w) \/ OpenCreate(w) \/ Lock(w)
               \/ LockFails(w) \/ WriteFails(w) \/ Close(w) \/ Crash(w)
        PROVE  OnceInv'
    <2>1. /\ seq' = seq /\ total' = total /\ content' = content /\ stream' = stream
          /\ \A v \in Writers : pc'[v] \in {"open", "lock", "write"} =>
               pc[v] \in {"open", "lock", "write"}
      BY <1>4, <1>0
         DEF NotOpened, OpenExisting, OpenCreate, Lock, LockFails, WriteFails,
             Close, Crash, TypeInv, TypeOK
    <2>2. \A e : InStream(e) => InStream(e)'
      BY <2>1 DEF InStream
    <2>3. QED
      BY <2>1, <2>2, <1>0, QuietOnce
  <1>5. CASE Rotate \/ UNCHANGED vars
    <2>1. UNCHANGED <<pc, seq, total, content, stream>>
      BY <1>5 DEF Rotate, RotateStart, RotateRename, RotateCreate, writerVars, vars
    <2>2. \A e : InStream(e) => InStream(e)'
      BY <2>1 DEF InStream
    <2>3. QED
      BY <2>1, <2>2, <1>0, QuietOnce
  <1>6. QED
    BY <1>1, <1>2, <1>3, <1>4, <1>5 DEF Next, Writer, Done

LEMMA OnceHolds == Spec => []OnceInv
  BY OnceInit, OnceStep, PTL DEF Spec

\* However many short writes a line takes, and whatever fails in between, no
\* part of it gets into a file twice (logger.c:316-325).
THEOREM NoPartTwice == Spec => []AtMostOnce
  <1>1. OnceInv => AtMostOnce
    BY DEF OnceInv
  <1>2. QED
    BY <1>1, OnceHolds, PTL

\* With the stream on, no line gets into a file before it is in the server log
\* (logger.c:373-384).
THEOREM ServerLogFirst == Spec => []StreamFirst
  <1>1. OnceInv => StreamFirst
    BY DEF OnceInv
  <1>2. QED
    BY <1>1, OnceHolds, PTL

-----------------------------------------------------------------------------
(* The write path implements the atomic log.                               *)
(*                                                                         *)
(* The step that decides an event is its last write, or its failure.  A    *)
(* line that is written to its end is either intact, or spoilt by the      *)
(* fragment of a failed event in front of it; BoundaryInv says so while    *)
(* it is being written, and BrokenInv that the failure was one of Faults.  *)

\* Where the line being written by w begins: a newline, a fragment or nothing
\* stands in front of it.
BoundaryInv ==
  \A w \in Writers : pc[w] = "write" =>
    LET n == Len(content[fd[w]]) - total[w] IN
      /\ n \in Nat
      /\ n # 0 => \/ content[fd[w]][n].part = Parts
                  \/ EventOf(content[fd[w]][n]) \in broken

BrokenInv == broken # {} => Faults \ {"short"} # {}

AtomicInv == LineInv /\ ArchiveInv /\ BoundaryInv /\ BrokenInv

\* A writer that gets the lock finds the line of nobody else unfinished.
LEMMA LockBoundary ==
  ASSUME LineInv, BoundaryInv, NEW w \in Writers, Lock(w)
  PROVE  BoundaryInv'
  <1>1. PICK i \in Inodes : i = fd[w] /\ lock[i] = None
    BY DEF Lock, LineInv, TypeInv, PcInv
  <1>2. /\ pc' = [pc EXCEPT ![w] = "write"] /\ pc[w] = "lock"
        /\ UNCHANGED <<seq, fd, total, content, broken>>
    BY DEF Lock
  <1>3. total[w] = 0 /\ content[i] \in Seq(Part)
    BY <1>1, <1>2 DEF LineInv, TypeInv, PcInv, TypeOK
  <1>4. content[i] # <<>> => \/ LastOf(i).part = Parts
                             \/ EventOf(LastOf(i)) \in broken
    BY <1>1, NoneAssumption DEF LineInv, EndInv, LockInv
  <1>5. Len(content[i]) # 0 => content[i] # <<>>
    OBVIOUS
  <1> SUFFICES ASSUME NEW v \in Writers, pc'[v] = "write"
               PROVE  LET n == Len(content[fd[v]]) - total[v] IN
                        /\ n \in Nat
                        /\ n # 0 => \/ content[fd[v]][n].part = Parts
                                    \/ EventOf(content[fd[v]][n]) \in broken
    BY <1>2 DEF BoundaryInv, EventOf
  <1>6. CASE v = w
    BY <1>6, <1>1, <1>3, <1>4, <1>5 DEF LastOf
  <1>7. CASE v # w
    BY <1>7, <1>2 DEF BoundaryInv, LineInv, TypeInv, TypeOK
  <1>8. QED
    BY <1>6, <1>7

\* A write leaves the front of its line, and those of all other lines, alone.
LEMMA WriteBoundary ==
  ASSUME LineInv, BoundaryInv, NEW w \in Writers, Write(w)
  PROVE  BoundaryInv'
  <1>0. TypeInv
    BY DEF LineInv
  <1>1. PICK i \in Inodes, k \in 1..(Parts - total[w]) : Appends(w, i, k)
    BY <1>0, WriteEffect
  <1>2. fd' = fd /\ broken' = broken
    BY DEF Write
  <1> SUFFICES ASSUME NEW v \in Writers, pc'[v] = "write"
               PROVE  LET n == Len(content'[fd[v]]) - total'[v] IN
                        /\ n \in Nat
                        /\ n # 0 => \/ content'[fd[v]][n].part = Parts
                                    \/ EventOf(content'[fd[v]][n]) \in broken
    BY <1>2 DEF BoundaryInv, EventOf
  <1>3. CASE v = w
    <2>1. PICK n \in Nat :
            /\ n = Len(content[i]) - total[w]
            /\ n # 0 => \/ content[i][n].part = Parts
                        \/ EventOf(content[i][n]) \in broken
      BY <1>1 DEF Appends, BoundaryInv
    <2>2. Len(content'[i]) - total'[w] = n /\ n <= Len(content[i])
      <3>1. /\ Len(content[i]) \in Nat /\ total[w] \in Nat /\ k \in Nat
            /\ Len(content'[i]) = Len(content[i]) + k /\ total'[w] = total[w] + k
        BY <1>1, PartsAssumption DEF Appends
      <3>2. QED
        BY <2>1, <3>1
    <2>3. n # 0 => content'[i][n] = content[i][n]
      <3>1. Len(content[i]) \in Nat
        BY <1>1 DEF Appends
      <3>2. n # 0 => n \in 1..Len(content[i])
        BY <2>1, <2>2, <3>1
      <3>3. QED
        BY <3>2, <1>1 DEF Appends
    <2>4. QED
      BY <2>1, <2>2, <2>3, <1>1, <1>3 DEF Appends
  <1>4. CASE v # w
    <2>1. pc[v] = "write" /\ total'[v] = total[v]
      BY <1>0, <1>1, <1>4 DEF Appends, TypeInv, TypeOK
    <2>2. fd[v] # i
      BY <1>1, <1>4, <2>1, Exclusive DEF Appends, LineInv
    <2>3. content'[fd[v]] = content[fd[v]]
      BY <1>0, <1>1, <2>1, <2>2 DEF Appends, TypeInv, PcInv
    <2>4. QED
      BY <2>1, <2>3 DEF BoundaryInv
  <1>5. QED
    BY <1>3, <1>4

LEMMA AtomicInit == Init => AtomicInv
  <1>1. Init => LineInv
    BY LineInit
  <1>2. Init => ArchiveInv
    BY ArchiveInit
  <1>3. Init => BoundaryInv /\ BrokenInv
    BY DEF Init, BoundaryInv, BrokenInv
  <1>4. QED
    BY <1>1, <1>2, <1>3 DEF AtomicInv

LEMMA AtomicStep == AtomicInv /\ [Next]_vars => AtomicInv'
  <1> SUFFICES ASSUME AtomicInv, [Next]_vars PROVE AtomicInv'
    OBVIOUS
  <1>1. LineInv' /\ ArchiveInv'
    BY LineStep, ArchiveStep DEF AtomicInv
  <1>2. LineInv /\ TypeInv /\ BoundaryInv
    BY DEF AtomicInv, LineInv
  <1>3. BrokenInv'
    <2>1. broken' = broken \/ {"write", "crash"} \cap Faults # {}
      BY DEF Next, Writer, Rotate, Done, vars, LogEvent, Report, NotOpened,
             OpenExisting, OpenCreate, Lock, LockFails, Write, WriteFails, Close,
             Crash, RotateStart, RotateRename, RotateCreate
    <2>2. QED
      BY <2>1 DEF AtomicInv, BrokenInv
  \* Steps that leave the files alone and take nobody into the loop of writes.
  <1>4. ASSUME content' = content, broken \subseteq broken',
               \A w \in Writers : pc'[w] = "write" =>
                  pc[w] = "write" /\ fd'[w] = fd[w] /\ total'[w] = total[w]
        PROVE  BoundaryInv'
    BY <1>2, <1>4 DEF BoundaryInv
  <1>5. ASSUME NEW w \in Writers, Lock(w) PROVE BoundaryInv'
    BY <1>2, <1>5, LockBoundary
  <1>6. ASSUME NEW w \in Writers, Write(w) PROVE BoundaryInv'
    BY <1>2, <1>6, WriteBoundary
  <1>7. ASSUME NEW w \in Writers,
               \/ LogEvent(w) \/ Report(w) \/ NotOpened(w) \/ OpenExisting(w)
               \/ OpenCreate(w)
        PROVE  BoundaryInv'
    BY <1>2, <1>4, <1>7
       DEF LogEvent, Report, NotOpened, OpenExisting, OpenCreate, TypeInv, TypeOK
  <1>8. ASSUME NEW w \in Writers,
               \/ LockFails(w) \/ WriteFails(w) \/ Close(w) \/ Crash(w)
        PROVE  BoundaryInv'
    BY <1>2, <1>4, <1>8 DEF LockFails, WriteFails, Close, Crash, TypeInv, TypeOK
  <1>9. ASSUME Rotate \/ UNCHANGED vars PROVE BoundaryInv'
    <2>1. UNCHANGED <<pc, fd, total, content, broken>>
      BY <1>9 DEF Rotate, RotateStart, RotateRename, RotateCreate, writerVars, vars
    <2>2. QED
      BY <2>1, <1>2 DEF BoundaryInv
  <1>10. BoundaryInv'
    <2>1. CASE \E w \in Writers : Writer(w)
      BY <2>1, <1>5, <1>6, <1>7, <1>8 DEF Writer
    <2>2. CASE Rotate \/ Done \/ UNCHANGED vars
      BY <2>2, <1>9 DEF Done
    <2>3. QED
      BY <2>1, <2>2 DEF Next
  <1>11. QED
    BY <1>1, <1>3, <1>10 DEF AtomicInv

-----------------------------------------------------------------------------

\* The lines of a file that a write has left alone.
LEMMA OldLines ==
  ASSUME NEW w \in Writers, NEW i \in Inodes, NEW k \in 1..(Parts - total[w]),
         Appends(w, i, k), NEW j \in 1..Len(content[i])
  PROVE  /\ j \in 1..Len(content'[i])
         /\ IntactAt(i, j)' <=> IntactAt(i, j)
         /\ EventOf(content'[i][j]) = EventOf(content[i][j])
  <1>1. content'[i][j] = content[i][j] /\ j \in 1..Len(content'[i])
    BY PartsAssumption DEF Appends
  <1>2. j >= Parts /\ j # Parts => j - Parts \in 1..Len(content[i])
    BY PartsAssumption
  <1>3. j >= Parts /\ j # Parts => content'[i][j - Parts] = content[i][j - Parts]
    BY <1>2 DEF Appends
  <1>4. QED
    BY <1>1, <1>3 DEF IntactAt, EventOf

\* Of the parts a write has added, only the newline can end a line: the last
\* part, if the write finishes the line.
LEMMA NewLine ==
  ASSUME NEW w \in Writers, NEW i \in Inodes, NEW k \in 1..(Parts - total[w]),
         Appends(w, i, k), BoundaryInv,
         NEW j \in 1..Len(content'[i]), j \notin 1..Len(content[i])
  PROVE  /\ IntactAt(i, j)' => j = Len(content'[i]) /\ total[w] + k = Parts
         /\ j = Len(content'[i]) /\ total[w] + k = Parts =>
              /\ EventOf(content'[i][j]) = Current(w)
              /\ IntactAt(i, j)' \/ broken # {}
  <1>1. PICK n \in Nat : n = Len(content[i])
    BY DEF Appends
  <1>2. j - n \in 1..k /\ j = n + (j - n) /\ k \in Nat /\ total[w] \in Nat
    BY <1>1, PartsAssumption DEF Appends
  <1>3. content'[i][j] = [writer |-> w, seq |-> seq[w], part |-> total[w] + (j - n)]
    BY <1>1, <1>2 DEF Appends
  <1>4. ASSUME IntactAt(i, j)'
        PROVE  j = Len(content'[i]) /\ total[w] + k = Parts
    <2>1. total[w] + (j - n) = Parts
      BY <1>3, <1>4 DEF IntactAt
    <2>2. k <= Parts - total[w] /\ Parts \in Nat
      BY PartsAssumption
    <2>3. j - n = k /\ total[w] + k = Parts
      BY <2>1, <2>2, <1>2
    <2>4. Len(content'[i]) = n + k
      BY <1>1 DEF Appends
    <2>5. QED
      BY <2>3, <2>4, <1>2
  <1>5. ASSUME j = Len(content'[i]), total[w] + k = Parts
        PROVE  /\ EventOf(content'[i][j]) = Current(w)
               /\ IntactAt(i, j)' \/ broken # {}
    <2>1. j - n = k /\ content'[i][j].part = Parts
      BY <1>1, <1>2, <1>3, <1>5 DEF Appends
    <2>2. PICK b \in Nat :
            /\ b = n - total[w]
            /\ b # 0 => content[i][b].part = Parts \/ broken # {}
      BY <1>1 DEF BoundaryInv, Appends
    <2>3. /\ j - Parts = b /\ b <= n /\ j >= Parts
          /\ j = Parts <=> b = 0
      <3>1. j = n + k /\ Parts = total[w] + k /\ b = n - total[w]
        BY <2>1, <2>2, <1>2, <1>5
      <3>2. QED
        BY <3>1, <1>2
    <2>4. b # 0 => content'[i][j - Parts] = content[i][b]
      BY <2>3, <1>1 DEF Appends
    <2>5. IntactAt(i, j)' \/ broken # {}
      BY <2>1, <2>2, <2>3, <2>4 DEF IntactAt
    <2>6. QED
      BY <2>5, <1>3 DEF EventOf, Current
  <1>6. QED
    BY <1>4, <1>5

\* Whoever writes can reach the file: it is not compressed.
LEMMA RefineWrite ==
  ASSUME AtomicInv, NEW w \in Writers, Write(w)
  PROVE  [Abstract!Next]_(Abstract!vars)
  <1>0. TypeInv /\ BoundaryInv
    BY DEF AtomicInv, LineInv
  <1>1. PICK i \in Inodes, k \in 1..(Parts - total[w]) : Appends(w, i, k)
    BY <1>0, WriteEffect
  <1>2. seq' = seq /\ archived' = archived /\ i \notin DOMAIN archived
    BY <1>1 DEF Write, rotVars, Appends, AtomicInv, ArchiveInv
  <1> DEFINE Log == [x \in Inodes |-> IntactLines(x)]
             Pending == {v \in Writers : pc[v] \notin {"idle", "close"}}
  <1>3. \A x \in Inodes \ {i} : IntactLines(x)' = IntactLines(x)
    <2> SUFFICES ASSUME NEW x \in Inodes \ {i}
                 PROVE  IntactLines(x)' = IntactLines(x)
      OBVIOUS
    <2>1. content'[x] = content[x]
      BY <1>1 DEF Appends
    <2>2. QED
      BY <2>1 DEF IntactLines, IntactAt, EventOf
  <1>4. PICK p \in Nat :
          /\ p = Len(content'[i])
          /\ p \in 1..p /\ p \notin 1..Len(content[i])
          /\ \A j \in 1..Len(content[i]) : j \in 1..p /\ j < p
    <2>1. Len(content[i]) \in Nat /\ k \in Nat \ {0}
      BY <1>1, PartsAssumption DEF Appends
    <2>2. Len(content'[i]) = Len(content[i]) + k
      BY <1>1 DEF Appends
    <2>3. QED
      BY <2>1, <2>2
  \* Of the ends of lines only the last position can be new.
  <1>5. ASSUME NEW j \in 1..p, j # p \/ total[w] + k # Parts \/ ~IntactAt(i, p)'
        PROVE  IntactAt(i, j)' <=> j \in 1..Len(content[i]) /\ IntactAt(i, j)
    <2>1. CASE j \in 1..Len(content[i])
      BY <1>1, <2>1, OldLines
    <2>2. CASE j \notin 1..Len(content[i])
      BY <1>0, <1>1, <1>4, <1>5, <2>2, NewLine
    <2>3. QED
      BY <2>1, <2>2
  <1>6. CASE total[w] + k # Parts \/ ~IntactAt(i, p)'
    <2>1. IntactLines(i)' = IntactLines(i)
      <3>1. {j \in 1..p : IntactAt(i, j)'} = {j \in 1..Len(content[i]) : IntactAt(i, j)}
        BY <1>4, <1>5, <1>6
      <3>2. \A j \in 1..Len(content[i]) :
               EventOf(content'[i][j]) = EventOf(content[i][j])
        BY <1>1, OldLines
      <3>3. QED
        BY <1>4, <3>1, <3>2 DEF IntactLines, EventOf
    <2>2. Log' = Log
      BY <1>3, <2>1
    <2>3. CASE total[w] + k # Parts
      <3>1. Pending' = Pending
        BY <1>0, <1>1, <2>3 DEF Appends, TypeInv, TypeOK
      <3>2. QED
        BY <1>2, <2>2, <3>1 DEF Abstract!vars
    <2>4. CASE total[w] + k = Parts
      <3>1. Faults \ {"short"} # {}
        BY <1>0, <1>1, <1>4, <1>6, <2>4, NewLine DEF AtomicInv, BrokenInv
      <3>2. w \in Pending /\ Pending' = Pending \ {w}
        BY <1>0, <1>1, <2>4 DEF Appends, TypeInv, TypeOK
      <3>3. Abstract!Drop(w)
        BY <1>2, <2>2, <3>1, <3>2 DEF Abstract!Drop
      <3>4. QED
        BY <3>3 DEF Abstract!Next, Abstract!Decide
    <2>5. QED
      BY <2>3, <2>4
  <1>7. CASE total[w] + k = Parts /\ IntactAt(i, p)'
    <2>1. IntactLines(i)' =
            Abstract!WithLine(IntactLines(i), p, [writer |-> w, seq |-> seq[w]])
      <3>1. {j \in 1..p : IntactAt(i, j)'}
              = {j \in 1..Len(content[i]) : IntactAt(i, j)} \cup {p}
        BY <1>4, <1>5, <1>7
      <3>2. \A j \in 1..Len(content[i]) :
               EventOf(content'[i][j]) = EventOf(content[i][j])
        BY <1>1, OldLines
      <3>3. EventOf(content'[i][p]) = Current(w)
        BY <1>0, <1>1, <1>4, <1>7, NewLine
      <3>4. QED
        BY <1>4, <3>1, <3>2, <3>3
           DEF IntactLines, EventOf, Current, Abstract!WithLine
    <2>2. Log' = [Log EXCEPT ![i] =
                   Abstract!WithLine(@, p, [writer |-> w, seq |-> seq[w]])]
      BY <1>3, <2>1
    <2>3. p \in DOMAIN Log'[i] /\ \A q \in DOMAIN Log[i] : q < p
      BY <1>4, <1>7 DEF IntactLines
    <2>4. w \in Pending /\ Pending' = Pending \ {w}
      BY <1>0, <1>1, <1>7 DEF Appends, TypeInv, TypeOK
    <2>5. Abstract!Commit(w, i)
      BY <1>2, <2>2, <2>3, <2>4 DEF Abstract!Commit
    <2>6. QED
      BY <2>5 DEF Abstract!Next, Abstract!Decide
  <1>8. QED
    BY <1>6, <1>7

\* Every other step begins or drops an event, seals a file, or is not seen.
LEMMA RefineStep ==
  ASSUME AtomicInv, [Next]_vars
  PROVE  [Abstract!Next]_(Abstract!vars)
  <1>0. TypeInv
    BY DEF AtomicInv, LineInv
  <1> DEFINE Log == [x \in Inodes |-> IntactLines(x)]
             Pending == {v \in Writers : pc[v] \notin {"idle", "close"}}
             MayDrop == Faults \ {"short"} # {}
  <1>1. content' = content => Log' = Log
    BY DEF IntactLines, IntactAt, EventOf
  \* A writer leaves the path before its line is in a file.
  <1>2. ASSUME NEW w \in Writers, MayDrop,
               content' = content, seq' = seq, archived' = archived,
               pc[w] \notin {"idle", "close"},
               pc' \in {[pc EXCEPT ![w] = "idle"], [pc EXCEPT ![w] = "close"]}
        PROVE  Abstract!Drop(w)
    <2>1. w \in Pending /\ Pending' = Pending \ {w}
      BY <1>0, <1>2 DEF TypeInv, TypeOK
    <2>2. QED
      BY <1>1, <1>2, <2>1 DEF Abstract!Drop
  <1>3. ASSUME content' = content, seq' = seq, archived' = archived,
               \A w \in Writers : pc'[w] \in {"idle", "close"} <=>
                                  pc[w] \in {"idle", "close"}
        PROVE  UNCHANGED Abstract!vars
    <2>1. Pending' = Pending
      BY <1>3
    <2>2. QED
      BY <1>1, <1>3, <2>1 DEF Abstract!vars
  <1>4. ASSUME NEW w \in Writers, Abstract!Drop(w)
        PROVE  [Abstract!Next]_(Abstract!vars)
    BY <1>4 DEF Abstract!Next, Abstract!Decide
  <1>5. ASSUME NEW w \in Writers, LogEvent(w)
        PROVE  [Abstract!Next]_(Abstract!vars)
    <2>1. /\ w \notin Pending
          /\ \/ Pending' = Pending \cup {w}
             \/ MayDrop /\ Pending' = Pending
      BY <1>0, <1>5 DEF LogEvent, TypeInv, TypeOK
    <2>2. Abstract!Begin(w)
      BY <1>1, <1>5, <2>1 DEF LogEvent, rotVars, Abstract!Begin
    <2>3. QED
      BY <2>2 DEF Abstract!Next
  <1>6. ASSUME NEW w \in Writers, Report(w)
        PROVE  [Abstract!Next]_(Abstract!vars)
    <2>1. CASE pc' = [pc EXCEPT ![w] = "open"]
      BY <1>0, <1>3, <1>6, <2>1 DEF Report, rotVars, TypeInv, TypeOK
    <2>2. CASE "interrupt" \in Faults /\ pc' = [pc EXCEPT ![w] = "idle"]
      <3>1. /\ MayDrop /\ pc[w] = "report"
            /\ content' = content /\ seq' = seq /\ archived' = archived
        BY <1>6, <2>2 DEF Report, rotVars
      <3>2. QED
        BY <3>1, <2>2, <1>2, <1>4
    <2>3. QED
      BY <1>6, <2>1, <2>2 DEF Report
  <1>7. ASSUME NEW w \in Writers, NotOpened(w) \/ LockFails(w) \/ WriteFails(w)
        PROVE  [Abstract!Next]_(Abstract!vars)
    BY <1>2, <1>4, <1>7 DEF NotOpened, LockFails, WriteFails, rotVars
  <1>8. ASSUME NEW w \in Writers, OpenExisting(w) \/ OpenCreate(w) \/ Lock(w)
        PROVE  [Abstract!Next]_(Abstract!vars)
    BY <1>0, <1>3, <1>8
       DEF OpenExisting, OpenCreate, Lock, rotVars, TypeInv, TypeOK
  <1>9. ASSUME NEW w \in Writers, Write(w)
        PROVE  [Abstract!Next]_(Abstract!vars)
    BY <1>9, RefineWrite
  <1>10. ASSUME NEW w \in Writers, Close(w)
         PROVE  [Abstract!Next]_(Abstract!vars)
    BY <1>0, <1>3, <1>10 DEF Close, rotVars, TypeInv, TypeOK
  <1>11. ASSUME NEW w \in Writers, Crash(w)
         PROVE  [Abstract!Next]_(Abstract!vars)
    <2>1. CASE pc[w] = "close"
      BY <1>0, <1>3, <1>11, <2>1 DEF Crash, rotVars, TypeInv, TypeOK
    <2>2. CASE pc[w] # "close"
      <3>1. /\ MayDrop /\ pc[w] \notin {"idle", "close"}
            /\ pc' = [pc EXCEPT ![w] = "idle"]
            /\ content' = content /\ seq' = seq /\ archived' = archived
        BY <1>11, <2>2 DEF Crash, rotVars
      <3>2. QED
        BY <3>1, <1>2, <1>4
    <2>3. QED
      BY <2>1, <2>2
  <1>12. CASE RotateStart
    <2>1. CASE rotated = None
      BY <1>3, <1>12, <2>1 DEF RotateStart, writerVars
    <2>2. CASE rotated # None
      <3>1. rotated \in Inodes /\ (DOMAIN archived)' = DOMAIN archived \cup {rotated}
        BY <1>0, <1>12, <2>2 DEF RotateStart, TypeInv, TypeOK
      <3>2. Pending' = Pending
        BY <1>12 DEF RotateStart, writerVars
      <3>3. Abstract!Seal(rotated)
        BY <1>1, <1>12, <3>1, <3>2 DEF RotateStart, writerVars, Abstract!Seal
      <3>4. QED
        BY <3>1, <3>3 DEF Abstract!Next
    <2>3. QED
      BY <2>1, <2>2
  <1>13. CASE RotateRename \/ RotateCreate \/ UNCHANGED vars
    BY <1>3, <1>13 DEF RotateRename, RotateCreate, writerVars, vars
  <1>14. QED
    BY <1>5, <1>6, <1>7, <1>8, <1>9, <1>10, <1>11, <1>12, <1>13
       DEF Next, Writer, Rotate, Done

\* Every event is decided once: its line goes, whole, behind the lines of one
\* file that is not compressed yet, or it is dropped by a failure; and no line
\* is moved or altered by what comes after it (logger.c:286-327).
THEOREM WritePathIsAtomic == Spec => ImplementsAtomicLog
  <1>1. Init => Abstract!Init
    <2> SUFFICES ASSUME Init PROVE Abstract!Init
      OBVIOUS
    <2>1. \A x \in Inodes : IntactLines(x) = [p \in {} |-> 0]
      BY DEF Init, IntactLines
    <2>2. QED
      BY <2>1 DEF Init, Abstract!Init
  <1>2. AtomicInv /\ [Next]_vars => [Abstract!Next]_(Abstract!vars)
    BY RefineStep
  <1>3. QED
    BY <1>1, <1>2, AtomicInit, AtomicStep, PTL
       DEF Spec, ImplementsAtomicLog, Abstract!Spec

-----------------------------------------------------------------------------
(* The monitor.                                                            *)
(*                                                                         *)
(* It only looks, so that what is proved of the write path holds with it;  *)
(* and it acts on no event twice, in no other order than that of the file, *)
(* although it takes no lock, and starts again at any time.  The argument: *)
(* what it has handled lies before its position, or in a file that neither *)
(* it nor the path can come back to.                                       *)

-----------------------------------------------------------------------------
(* The inductive invariant. *)

Handled == [event : Event, inode : Inodes, at : Nat]

MonitorInv ==
  /\ mon \in {"check", "open", "read", "stat", "dead"}
  /\ mfd \in used \cup {None} /\ pos \in Nat
  /\ mon \in {"read", "stat"} => mfd # None
  /\ mon \in {"check", "open"} => mfd = None
  /\ mfd # None => pos <= Len(content[mfd])
  /\ restarts \in 0..MaxRestarts
  /\ handled \in Seq(Handled)
  /\ rejected \cup due \subseteq Event

\* The first part of the line of an event.
First(e) == [writer |-> e.writer, seq |-> e.seq, part |-> 1]

\* A line that was handled: it is in its file, as far as the monitor has read
\* that; and when the monitor has another file open, the path has left this one.
HandledLine(h) ==
  /\ h.inode \in used /\ h.at <= Len(content[h.inode])
  /\ \E p \in 1..h.at : content[h.inode][p] = First(h.event)
  /\ h.inode = mfd => h.at <= pos
  /\ mfd # None /\ h.inode # mfd => h.inode # path

\* The monitor went from one file to another: it cannot come back.
LeftBehind(g, h) == g.inode # h.inode => g.inode \notin {mfd, path}

HandledInv ==
  /\ \A j \in 1..Len(handled) : HandledLine(handled[j])
  /\ \A j, k \in 1..Len(handled) : j < k => LeftBehind(handled[j], handled[k])
  /\ HandledOnceInOrder

PipelineInv == MonitorInv /\ HandledInv
-----------------------------------------------------------------------------
(* The writers go on as without a monitor.                                 *)

LEMMA PipelineRefinesInit == PipelineInit => Init
  BY DEF PipelineInit

LEMMA PipelineRefinesNext == [PipelineNext]_pipelineVars => [Next]_vars
  BY DEF PipelineNext, LogStep, MonitorStep, pipelineVars

LEMMA WritersAsBefore == PipelineSpec => Spec
  BY PipelineRefinesInit, PipelineRefinesNext, PTL DEF PipelineSpec, Spec

\* What readers see of the file is the atomic log, with a monitor that comes
\* and goes, too (logger.c:286-327, alert_monitor.py:96-121).
THEOREM PipelineIsAtomic == PipelineSpec => ImplementsAtomicLog
  BY WritersAsBefore, WritePathIsAtomic, PTL

\* The invariants of the writers that the monitor relies on.
LogInv == OnceInv /\ ArchiveInv

LEMMA LogInvHolds == PipelineSpec => []LogInv
  <1>1. Init => LogInv
    BY OnceInit, ArchiveInit DEF LogInv
  <1>2. LogInv /\ [Next]_vars => LogInv'
    BY OnceStep, ArchiveStep DEF LogInv
  <1>3. Spec => []LogInv
    BY <1>1, <1>2, PTL DEF Spec
  <1>4. QED
    BY <1>3, WritersAsBefore, PTL

-----------------------------------------------------------------------------
(* What a step of the writers or of logrotate may do to what the monitor   *)
(* looks at.                                                               *)

Grows(i) ==
  /\ Len(content'[i]) \in Nat /\ Len(content[i]) <= Len(content'[i])
  /\ \A j \in 1..Len(content[i]) : content'[i][j] = content[i][j]

LEMMA FilesGrow == TypeInv /\ [Next]_vars => \A i \in Inodes : Grows(i)
  <1> SUFFICES ASSUME TypeInv, [Next]_vars, NEW i \in Inodes PROVE Grows(i)
    OBVIOUS
  <1>1. Len(content[i]) \in Nat
    BY DEF TypeInv, TypeOK
  <1>2. CASE content' = content
    BY <1>1, <1>2 DEF Grows
  <1>3. ASSUME NEW w \in Writers, Write(w) PROVE Grows(i)
    <2>1. PICK x \in Inodes, k \in 1..(Parts - total[w]) : Appends(w, x, k)
      BY <1>3, WriteEffect
    <2>2. CASE i = x
      BY <2>1, <2>2, <1>1 DEF Appends, Grows
    <2>3. CASE i # x
      BY <2>1, <2>3, <1>1 DEF Appends, Grows
    <2>4. QED
      BY <2>2, <2>3
  <1>4. content' = content \/ \E w \in Writers : Write(w)
    BY DEF Next, Writer, Rotate, Done, vars, LogEvent, Report, NotOpened,
           OpenExisting, OpenCreate, Lock, LockFails, WriteFails, Close, Crash,
           RotateStart, RotateRename, RotateCreate
  <1>5. QED
    BY <1>2, <1>3, <1>4

\* The path never comes back to an inode that it has left.
LEMMA PathMoves ==
  [Next]_vars => used \subseteq used' /\ path' \in {path, None} \cup (Inodes \ used)
  BY DEF Next, Writer, Rotate, Done, vars, LogEvent, Report, NotOpened,
         OpenExisting, OpenCreate, Lock, LockFails, Write, WriteFails, Close,
         Crash, RotateStart, RotateRename, RotateCreate

LEMMA EventsBegin ==
  TypeInv /\ [Next]_vars =>
    \A w \in Writers : seq'[w] = seq[w] \/ Current(w)' \in Event
  <1> SUFFICES ASSUME TypeInv, [Next]_vars, NEW w \in Writers, seq'[w] # seq[w]
               PROVE  Current(w)' \in Event
    OBVIOUS
  <1>1. \E v \in Writers : LogEvent(v)
    BY DEF Next, Writer, Rotate, Done, vars, Report, NotOpened, OpenExisting,
           OpenCreate, Lock, LockFails, Write, WriteFails, Close, Crash,
           RotateStart, RotateRename, RotateCreate, writerVars
  <1>2. seq'[w] = seq[w] + 1 /\ seq[w] < MaxEvents
    BY <1>1 DEF LogEvent, TypeInv, TypeOK
  <1>3. seq'[w] \in 1..MaxEvents
    BY <1>2, MaxEventsAssumption DEF TypeInv, TypeOK
  <1>4. QED
    BY <1>3 DEF Current, Event
-----------------------------------------------------------------------------
(* Where a line ends.                                                      *)

\* A set of naturals that is not empty has a least element.
LEMMA LeastElement ==
  ASSUME NEW S \in SUBSET Nat, S # {}
  PROVE  M!Min(S) \in S /\ \A x \in S : M!Min(S) <= x
  <1> DEFINE R == {p \in Nat \X Nat : p[1] < p[2]}
  <1>1. IsWellFoundedOn(R, Nat)
    BY NatLessThanWellFounded, Zenon DEF OpToRel
  <1>2. \A x, y \in Nat : x < y => <<x, y>> \in R
    OBVIOUS
  <1> HIDE DEF R
  <1>3. PICK m \in S : \A y \in S : ~ (<<y, m>> \in R)
    BY <1>1, WFMin
  <1>4. \A y \in S : m <= y
    <2> SUFFICES ASSUME NEW y \in S PROVE m <= y
      OBVIOUS
    <2>1. m \in Nat /\ y \in Nat /\ ~ (y < m)
      BY <1>2, <1>3
    <2>2. QED
      BY <2>1
  <1>5. \E x \in S : \A y \in S : x <= y
    BY <1>4
  <1>6. QED
    BY <1>5 DEF M!Min

\* readline takes something, and nothing behind the end of the file.
LEMMA LineEndBounds ==
  ASSUME NEW s \in Seq(Part), s = content[mfd], pos \in Nat, pos < Len(s)
  PROVE  M!LineEnd \in (pos + 1)..Len(s)
  <1> DEFINE Newlines == {j \in pos + 1 .. Len(s) : s[j].part = Parts}
  <1>1. CASE Newlines = {}
    BY <1>1 DEF M!LineEnd
  <1>2. CASE Newlines # {}
    <2>1. Newlines \in SUBSET Nat
      OBVIOUS
    <2>2. M!LineEnd = M!Min(Newlines)
      BY <1>2 DEF M!LineEnd
    <2> HIDE DEF Newlines
    <2>3. M!Min(Newlines) \in Newlines
      BY <1>2, <2>1, LeastElement
    <2>4. QED
      BY <2>2, <2>3 DEF Newlines
  <1>3. QED
    BY <1>1, <1>2

\* The line that readline takes, and where its first part is.
LEMMA LineRead ==
  ASSUME NEW s \in Seq(Part), s = content[mfd], pos \in Nat, pos < Len(s),
         NEW item, item = SubSeq(s, pos + 1, M!LineEnd)
  PROVE  /\ item \in Seq(Part) /\ Len(item) = M!LineEnd - pos
         /\ item[1] = s[pos + 1] /\ pos + 1 \in 1..Len(s)
  <1>1. PICK e \in (pos + 1)..Len(s) : e = M!LineEnd
    BY LineEndBounds
  <1>2. /\ item = SubSeq(s, pos + 1, e) /\ pos + 1 \in 1..Len(s)
        /\ e \in 1..Len(s) /\ e - pos \in Nat \ {0}
    BY <1>1
  <1>3. /\ item \in Seq(Part) /\ Len(item) = e - pos
        /\ item[1] = s[pos + 1]
    <2>1. PICK b \in 1..Len(s) : b = pos + 1 /\ b <= e
      BY <1>1, <1>2
    <2>2. SubSeq(s, b, e) \in Seq(Part) /\ Len(SubSeq(s, b, e)) = e - b + 1
      BY <1>2, <2>1
    <2>3. SubSeq(s, b, e)[1] = s[b]
      BY <1>2, <2>1
    <2>4. item = SubSeq(s, b, e) /\ e - b + 1 = e - pos
      BY <1>1, <1>2, <2>1
    <2>5. QED
      BY <2>1, <2>2, <2>3, <2>4
  <1>4. QED
    BY <1>1, <1>2, <1>3
-----------------------------------------------------------------------------
(* What was handled stays where it is, behind the monitor.                 *)

\* A step of the pipeline as the handled lines see it: files grow, the path
\* moves on, and the monitor reads on, closes its file, or opens the file of
\* the path at its end.
Moves ==
  /\ \A i \in Inodes : Grows(i)
  /\ used \subseteq used' /\ path' \in {path, None} \cup (Inodes \ used)
  /\ \/ mfd' = None
     \/ mfd' = mfd /\ pos' \in Nat /\ pos <= pos'
     \/ /\ mfd' = path /\ path' = path /\ content' = content
        /\ pos' = Len(content[path])

LEMMA LineKept ==
  ASSUME LogInv, MonitorInv, Moves, NEW h \in Handled, HandledLine(h)
  PROVE  HandledLine(h)'
  <1>1. /\ h.inode \in Inodes /\ h.inode # None /\ h.at \in Nat /\ h.inode \in used
        /\ pos \in Nat
    BY NoneAssumption DEF Handled, HandledLine, MonitorInv
  <1>2. Len(content[h.inode]) \in Nat /\ Grows(h.inode)
    BY <1>1 DEF Moves, LogInv, OnceInv, TypeInv, TypeOK
  <1>3. h.inode \in used' /\ (h.inode # path => h.inode # path')
    BY <1>1 DEF Moves
  <1>4. h.at <= Len(content'[h.inode])
    BY <1>1, <1>2 DEF HandledLine, Grows
  <1>5. \E p \in 1..h.at : content'[h.inode][p] = First(h.event)
    <2>1. PICK p \in 1..h.at : content[h.inode][p] = First(h.event)
      BY DEF HandledLine
    <2>2. p \in 1..Len(content[h.inode])
      BY <1>1, <1>2, <2>1 DEF HandledLine
    <2>3. QED
      BY <2>1, <2>2, <1>2 DEF Grows
  <1>6. h.inode = mfd' => h.at <= pos'
    BY <1>1, <1>2 DEF HandledLine, Moves
  <1>7. mfd' # None /\ h.inode # mfd' => h.inode # path'
    <2>1. CASE mfd' = mfd
      BY <2>1, <1>3 DEF HandledLine
    <2>2. CASE mfd' = path /\ path' = path
      BY <2>2
    <2>3. QED
      BY <2>1, <2>2 DEF Moves
  <1>8. QED
    BY <1>3, <1>4, <1>5, <1>6, <1>7 DEF HandledLine

LEMMA LeftKept ==
  ASSUME LogInv, MonitorInv, Moves, NEW g \in Handled, NEW h \in Handled,
         HandledLine(g), LeftBehind(g, h)
  PROVE  LeftBehind(g, h)'
  <1>1. g.inode \in Inodes /\ g.inode # None /\ g.inode \in used
    BY NoneAssumption DEF Handled, HandledLine
  <1>2. QED
    BY <1>1 DEF LeftBehind, Moves

LEMMA HandledKept ==
  ASSUME LogInv, PipelineInv, Moves, handled' = handled
  PROVE  HandledInv'
  <1>0. MonitorInv /\ HandledInv /\ handled \in Seq(Handled)
    BY DEF PipelineInv, MonitorInv
  <1>1. ASSUME NEW j \in 1..Len(handled) PROVE HandledLine(handled[j])'
    <2>1. PICK h \in Handled : h = handled[j]
      BY <1>0
    <2>2. HandledLine(h)
      BY <1>0, <2>1 DEF HandledInv
    <2>3. HandledLine(h)'
      BY <1>0, <2>2, LineKept
    <2>4. handled'[j] = h
      BY <2>1
    <2>5. QED
      BY <2>3, <2>4 DEF HandledLine
  <1>2. ASSUME NEW j \in 1..Len(handled), NEW k \in 1..Len(handled), j < k
        PROVE  LeftBehind(handled[j], handled[k])'
    <2>1. PICK g \in Handled, h \in Handled : g = handled[j] /\ h = handled[k]
      BY <1>0
    <2>2. HandledLine(g) /\ LeftBehind(g, h)
      BY <1>0, <1>2, <2>1 DEF HandledInv
    <2>3. LeftBehind(g, h)'
      BY <1>0, <2>2, LeftKept
    <2>4. handled'[j] = g /\ handled'[k] = h
      BY <2>1
    <2>5. QED
      BY <2>3, <2>4 DEF LeftBehind
  <1>3. HandledOnceInOrder'
    BY <1>0 DEF HandledInv, HandledOnceInOrder, M!HandledOnceInOrder
  <1>4. QED
    BY <1>1, <1>2, <1>3 DEF HandledInv
-----------------------------------------------------------------------------
(* The steps.                                                              *)

LEMMA PipelineStarts == PipelineInit => PipelineInv
  <1> SUFFICES ASSUME PipelineInit PROVE PipelineInv
    OBVIOUS
  <1>1. /\ mon = "check" /\ mfd = None /\ pos = 0 /\ restarts = 0
        /\ handled = <<>> /\ rejected = {} /\ due = {}
    BY DEF PipelineInit, M!Init
  <1>2. 0 \in 0..MaxRestarts
    BY MaxRestartsAssumption
  <1>3. handled \in Seq(Handled) /\ Len(handled) = 0
    BY <1>1
  <1>4. MonitorInv
    BY <1>1, <1>2, <1>3 DEF MonitorInv
  <1>5. HandledInv
    BY <1>3 DEF HandledInv, HandledOnceInOrder, M!HandledOnceInOrder
  <1>6. QED
    BY <1>4, <1>5 DEF PipelineInv

\* The writers and logrotate add to files and move the path.
LEMMA WritersKeep ==
  ASSUME LogInv, PipelineInv, LogStep
  PROVE  PipelineInv'
  <1>0. TypeInv /\ Next
    BY DEF LogInv, OnceInv, LogStep
  <1>1. /\ mon' = mon /\ mfd' = mfd /\ pos' = pos /\ restarts' = restarts
        /\ handled' = handled /\ rejected' = rejected
    BY DEF LogStep, monVars
  <1>2. \A i \in Inodes : Grows(i)
    BY <1>0, FilesGrow
  <1>3. used \subseteq used' /\ path' \in {path, None} \cup (Inodes \ used)
    BY <1>0, PathMoves
  <1>4. MonitorInv /\ pos \in Nat
    BY DEF PipelineInv, MonitorInv
  <1>5. Moves
    BY <1>1, <1>2, <1>3, <1>4 DEF Moves
  <1>6. due' \subseteq Event
    <2>1. \A w \in Writers : seq'[w] # seq[w] => Current(w)' \in Event
      BY <1>0, EventsBegin
    <2>2. QED
      BY <2>1, <1>4 DEF LogStep, MonitorInv
  <1>7. mfd # None => pos <= Len(content'[mfd])
    <2> SUFFICES ASSUME mfd # None PROVE pos <= Len(content'[mfd])
      OBVIOUS
    <2>1. mfd \in Inodes /\ pos <= Len(content[mfd])
      BY <1>0, <1>4 DEF MonitorInv, TypeInv, TypeOK
    <2>2. Len(content[mfd]) \in Nat /\ Grows(mfd)
      BY <1>0, <1>2, <2>1 DEF TypeInv, TypeOK
    <2>3. QED
      BY <2>1, <2>2, <1>4 DEF Grows
  <1>8. MonitorInv'
    BY <1>1, <1>3, <1>4, <1>6, <1>7 DEF MonitorInv
  <1>9. HandledInv'
    BY <1>1, <1>5, HandledKept
  <1>10. QED
    BY <1>8, <1>9 DEF PipelineInv

\* A line that main takes for an event is one that was not handled before: its
\* first part stands behind all that was.
LEMMA ReadKeeps ==
  ASSUME LogInv, PipelineInv, M!ReadLine, UNCHANGED vars, due' = due
  PROVE  PipelineInv'
  <1>0. /\ TypeInv /\ AtMostOnce /\ MonitorInv /\ HandledInv
        /\ handled \in Seq(Handled) /\ pos \in Nat
    BY DEF LogInv, OnceInv, PipelineInv, MonitorInv
  <1>1. /\ UNCHANGED <<path, used, content>>
        /\ mon' = mon /\ mfd' = mfd /\ restarts' = restarts
        /\ mon = "read" /\ pos < Len(content[mfd])
    BY DEF vars, M!ReadLine
  <1>2. mfd # None /\ mfd \in Inodes
    BY <1>0, <1>1 DEF MonitorInv, TypeInv, TypeOK
  <1>3. PICK s \in Seq(Part) : s = content[mfd]
    BY <1>0, <1>2 DEF TypeInv, TypeOK
  <1>4. PICK e \in (pos + 1)..Len(s) : e = M!LineEnd
    BY <1>0, <1>1, <1>3, LineEndBounds
  <1>5. pos' = e /\ e \in Nat /\ pos < e /\ e <= Len(content[mfd])
    BY <1>0, <1>3, <1>4 DEF M!ReadLine, M!Consumed
  <1>6. PICK item : item = SubSeq(s, pos + 1, M!LineEnd)
    OBVIOUS
  <1>7. /\ item \in Seq(Part) /\ Len(item) = e - pos
        /\ item[1] = s[pos + 1] /\ pos + 1 \in 1..Len(s)
    BY <1>0, <1>1, <1>3, <1>4, <1>6, LineRead
  <1>8. \/ /\ M!IsEvent(item)
           /\ handled' = Append(handled, [event |-> M!EventOf(item[1]),
                                          inode |-> mfd, at |-> e])
           /\ rejected' = rejected
        \/ /\ handled' = handled
           /\ rejected' = rejected \cup {M!EventOf(item[j]) : j \in 1..Len(item)}
    BY <1>3, <1>4, <1>6 DEF M!ReadLine
  <1>9. \A c \in Part : M!EventOf(c) \in Event
    BY DEF Part, Event, M!EventOf
  <1>10. rejected' \cup due' \subseteq Event
    <2>1. \A j \in 1..Len(item) : item[j] \in Part
      BY <1>7
    <2>2. QED
      BY <2>1, <1>0, <1>8, <1>9 DEF MonitorInv
  <1>11. Moves
    <2>1. \A i \in Inodes : Len(content[i]) \in Nat
      BY <1>0 DEF TypeInv, TypeOK
    <2>2. QED
      BY <2>1, <1>0, <1>1, <1>5 DEF Moves, Grows
  <1>12. ASSUME handled' \in Seq(Handled) PROVE MonitorInv'
    BY <1>0, <1>1, <1>5, <1>10, <1>12 DEF MonitorInv
  <1>13. CASE handled' = handled
    <2>1. HandledInv'
      BY <1>11, <1>13, HandledKept
    <2>2. QED
      BY <2>1, <1>0, <1>12, <1>13 DEF PipelineInv
  <1>14. CASE M!IsEvent(item) /\ handled' = Append(handled,
                [event |-> M!EventOf(item[1]), inode |-> mfd, at |-> e])
    <2>1. item[1] \in Part /\ item[1].part = 1
      <3>1. Len(item) \in Nat /\ Len(item) >= 1
        BY <1>0, <1>5, <1>7
      <3>2. 1 \in 1..Len(item)
        BY <3>1
      <3>3. item[1] \in Part
        BY <3>2, <1>7
      <3>4. \A j \in 1..Len(item) : item[j].part = j
        BY <1>14 DEF M!IsEvent
      <3>5. QED
        BY <3>2, <3>3, <3>4
    <2>2. PICK h \in Handled :
            /\ h = [event |-> M!EventOf(item[1]), inode |-> mfd, at |-> e]
            /\ h.event = M!EventOf(item[1]) /\ h.inode = mfd /\ h.at = e
      <3> PICK ev \in Event : ev = M!EventOf(item[1])
        BY <1>9, <2>1
      <3> PICK i \in Inodes : i = mfd
        BY <1>2
      <3>1. [event |-> ev, inode |-> i, at |-> e] \in Handled
        BY <1>5 DEF Handled
      <3>2. QED
        BY <3>1
    <2>3. s[pos + 1] = First(h.event)
      BY <1>7, <2>1, <2>2 DEF First, Part, M!EventOf
    <2>4. PICK n \in Nat : n = Len(handled)
      BY <1>0
    <2>5. /\ handled' \in Seq(Handled) /\ Len(handled') = n + 1
          /\ handled'[n + 1] = h
          /\ \A j \in 1..n : handled'[j] = handled[j] /\ handled[j] \in Handled
      BY <1>0, <1>14, <2>2, <2>4
    \* The lines handled before.
    <2>6. \A j \in 1..n : HandledLine(handled[j])
      BY <1>0, <2>4 DEF HandledInv
    <2>7. \A g \in Handled : HandledLine(g) => HandledLine(g)'
      BY <1>0, <1>11, LineKept
    <2>8. HandledLine(h)'
      <3>1. pos + 1 \in 1..e /\ mfd \in used
        BY <1>0, <1>2, <1>5 DEF MonitorInv
      <3>2. content'[mfd][pos + 1] = First(h.event)
        BY <1>1, <1>3, <2>3
      <3>3. QED
        BY <3>1, <3>2, <1>1, <1>5, <2>2 DEF HandledLine
    <2>9. \A j \in 1..Len(handled') : HandledLine(handled[j])'
      <3> SUFFICES ASSUME NEW j \in 1..(n + 1) PROVE HandledLine(handled[j])'
        BY <2>5
      <3>1. CASE j \in 1..n
        <4>1. PICK g \in Handled : g = handled[j] /\ g = handled'[j]
          BY <2>5, <3>1
        <4>2. HandledLine(g)'
          BY <4>1, <3>1, <2>6, <2>7
        <4>3. QED
          BY <4>1, <4>2 DEF HandledLine
      <3>2. CASE j = n + 1
        BY <3>2, <2>5, <2>8 DEF HandledLine
      <3>3. QED
        BY <3>1, <3>2
    <2>10. \A j \in 1..n : handled[j].inode # mfd => handled[j].inode # path
      BY <1>2, <2>6 DEF HandledLine
    <2>11. \A j, k \in 1..Len(handled') : j < k => LeftBehind(handled[j], handled[k])'
      <3> SUFFICES ASSUME NEW j \in 1..(n + 1), NEW k \in 1..(n + 1), j < k
                   PROVE  LeftBehind(handled[j], handled[k])'
        BY <2>5
      <3>1. j \in 1..n /\ handled'[j] = handled[j]
        BY <2>5
      <3>2. CASE k \in 1..n
        <4>1. handled'[k] = handled[k] /\ LeftBehind(handled[j], handled[k])
          BY <1>0, <2>4, <2>5, <3>1, <3>2 DEF HandledInv
        <4>2. QED
          BY <4>1, <3>1, <1>1 DEF LeftBehind
      <3>3. CASE k = n + 1
        BY <3>1, <3>3, <1>1, <2>2, <2>5, <2>10 DEF LeftBehind
      <3>4. QED
        BY <3>2, <3>3
    \* The new line against one of the old ones.
    <2>12. ASSUME NEW j \in 1..n
           PROVE  /\ handled[j].event # h.event
                  /\ handled[j].inode = h.inode =>
                       /\ handled[j].at < h.at
                       /\ \A l \in j..n : handled[l].inode = h.inode
      <3>1. PICK g \in Handled : g = handled[j] /\ HandledLine(g)
        BY <2>5, <2>6
      <3>2. g.at \in Nat /\ g.inode \in Inodes
        BY DEF Handled
      <3>3. g.inode = mfd => g.at <= pos
        BY <3>1 DEF HandledLine
      <3>4. g.event # h.event
        <4> SUFFICES ASSUME g.event = h.event PROVE FALSE
          OBVIOUS
        <4>1. PICK p \in 1..g.at : content[g.inode][p] = First(h.event)
          BY <3>1 DEF HandledLine
        <4>2. p \in 1..Len(content[g.inode]) /\ pos + 1 \in 1..Len(content[mfd])
          <5>1. g.at <= Len(content[g.inode])
            BY <3>1 DEF HandledLine
          <5>2. Len(content[g.inode]) \in Nat
            BY <1>0, <3>2 DEF TypeInv, TypeOK
          <5>3. QED
            BY <5>1, <5>2, <3>2, <1>3, <1>7
        <4>3. content[g.inode][p] = content[mfd][pos + 1]
          BY <4>1, <1>3, <2>3
        <4>4. g.inode = mfd /\ p = pos + 1
          BY <4>2, <4>3, <1>0, <1>2, <3>2 DEF AtMostOnce
        <4>5. QED
          BY <4>4, <3>2, <3>3, <1>0
      <3>5. ASSUME g.inode = mfd PROVE g.at < e
        BY <3>2, <3>3, <3>5, <1>0, <1>5
      <3>6. ASSUME g.inode = mfd, NEW l \in j..n PROVE handled[l].inode = mfd
        <4>1. l \in 1..n /\ (l = j \/ j < l)
          OBVIOUS
        <4>2. j < l => LeftBehind(g, handled[l])
          BY <4>1, <1>0, <2>4, <3>1 DEF HandledInv
        <4>3. QED
          BY <4>1, <4>2, <3>1, <3>6 DEF LeftBehind
      <3>7. QED
        BY <3>1, <3>4, <3>5, <3>6, <2>2
    <2>13. HandledOnceInOrder'
      <3> SUFFICES ASSUME NEW j \in 1..(n + 1), NEW k \in 1..(n + 1), j < k
                   PROVE  /\ handled'[j].event # handled'[k].event
                          /\ handled'[j].inode = handled'[k].inode =>
                               /\ handled'[j].at < handled'[k].at
                               /\ \A l \in j..k : handled'[l].inode = handled'[j].inode
        BY <2>5 DEF HandledOnceInOrder, M!HandledOnceInOrder
      <3>1. j \in 1..n /\ handled'[j] = handled[j]
        BY <2>5
      <3>2. CASE k \in 1..n
        <4>1. handled'[k] = handled[k] /\ j..k \subseteq 1..n
          BY <2>5, <3>2
        <4>2. /\ handled[j].event # handled[k].event
              /\ handled[j].inode = handled[k].inode =>
                   /\ handled[j].at < handled[k].at
                   /\ \A l \in j..k : handled[l].inode = handled[j].inode
          BY <3>1, <3>2, <1>0, <2>4
             DEF HandledInv, HandledOnceInOrder, M!HandledOnceInOrder
        <4>3. \A l \in j..k : handled'[l] = handled[l]
          BY <4>1, <2>5
        <4>4. QED
          BY <4>1, <4>2, <4>3, <3>1
      <3>3. CASE k = n + 1
        <4>1. handled'[k] = h
          BY <3>3, <2>5
        <4>2. ASSUME NEW l \in j..k
              PROVE  l = n + 1 \/ (l \in j..n /\ handled'[l] = handled[l])
          <5>1. l = n + 1 \/ (l \in j..n /\ l \in 1..n)
            BY <3>3
          <5>2. QED
            BY <5>1, <2>5
        <4>3. QED
          BY <4>1, <4>2, <3>1, <2>5, <2>12
      <3>4. QED
        BY <3>2, <3>3
    <2>14. QED
      BY <2>5, <2>9, <2>11, <2>13, <1>12 DEF PipelineInv, HandledInv
  <1>15. QED
    BY <1>8, <1>13, <1>14
\* The other steps of the monitor handle nothing: it looks, opens the file at
\* its end, closes it, dies or starts again.
LEMMA MonitorKeeps ==
  ASSUME LogInv, PipelineInv, MonitorStep, ~M!ReadLine
  PROVE  PipelineInv'
  <1>0. /\ TypeInv /\ MonitorInv /\ pos \in Nat
        /\ \A i \in Inodes : Len(content[i]) \in Nat
    BY DEF LogInv, OnceInv, PipelineInv, MonitorInv, TypeInv, TypeOK
  <1>1. /\ UNCHANGED <<path, used, content>> /\ due' \subseteq Event
    BY <1>0 DEF MonitorStep, vars, MonitorInv
  <1>2. handled' = handled /\ rejected' = rejected
    BY DEF MonitorStep, M!Next, M!Step, M!Restart, M!CheckMissing, M!CheckFound,
           M!Open, M!OpenRaises, M!DecodeRaises, M!ReadEof, M!StatSame, M!StatMoved
  <1>3. path \in used \cup {None}
    BY DEF LogInv, ArchiveInv
  \* What is left to show of a step.
  <1>4. ASSUME Moves, restarts' \in 0..MaxRestarts,
               mon' \in {"check", "open", "read", "stat", "dead"},
               mfd' \in used \cup {None}, pos' \in Nat,
               mon' \in {"read", "stat"} => mfd' # None,
               mon' \in {"check", "open"} => mfd' = None,
               mfd' # None => pos' <= Len(content[mfd'])
        PROVE  PipelineInv'
    <2>1. HandledInv'
      BY <1>2, <1>4, HandledKept
    <2>2. rejected' \cup due' \subseteq Event
      BY <1>0, <1>1, <1>2 DEF MonitorInv
    <2>3. handled' \in Seq(Handled)
      BY <1>0, <1>2 DEF MonitorInv
    <2>4. MonitorInv'
      BY <1>1, <1>4, <2>2, <2>3 DEF MonitorInv
    <2>5. QED
      BY <2>1, <2>4 DEF PipelineInv
  <1>5. ASSUME \/ mfd' = None
               \/ mfd' = mfd /\ pos' = pos
               \/ mfd' = path /\ pos' = Len(content[path])
        PROVE  Moves
    BY <1>0, <1>1, <1>5 DEF Moves, Grows
  <1>6. ASSUME mfd' = mfd, pos' = pos, restarts' = restarts,
               mon' \in {"check", "open", "read", "stat", "dead"},
               mon' \in {"read", "stat"} => mon \in {"read", "stat"},
               mon' \in {"check", "open"} => mon \in {"check", "open"}
        PROVE  PipelineInv'
    BY <1>0, <1>4, <1>5, <1>6 DEF MonitorInv
  <1>7. ASSUME M!CheckMissing \/ M!CheckFound \/ M!OpenRaises \/ M!DecodeRaises
                 \/ M!ReadEof \/ M!StatSame
        PROVE  PipelineInv'
    BY <1>6, <1>7 DEF M!CheckMissing, M!CheckFound, M!OpenRaises, M!DecodeRaises,
                      M!ReadEof, M!StatSame
  <1>8. ASSUME M!Open PROVE PipelineInv'
    <2>1. /\ path # None /\ mfd' = path /\ pos' = Len(content[path])
          /\ mon' = "read" /\ restarts' = restarts
      BY <1>8 DEF M!Open, M!SeekTo
    <2>2. path \in Inodes /\ path \in used
      BY <1>0, <1>3, <2>1 DEF TypeInv, TypeOK
    <2>3. pos' \in Nat /\ pos' <= Len(content[mfd'])
      BY <1>0, <2>1, <2>2
    <2>4. restarts' \in 0..MaxRestarts
      BY <1>0, <2>1 DEF MonitorInv
    <2>5. QED
      BY <1>4, <1>5, <2>1, <2>2, <2>3, <2>4
  <1>9. ASSUME M!StatMoved \/ M!Restart PROVE PipelineInv'
    <2>1. mfd' = None /\ mon' = "check" /\ pos' \in Nat
      BY <1>0, <1>9 DEF M!StatMoved, M!Restart
    <2>2. restarts' \in 0..MaxRestarts
      BY <1>0, <1>9, MaxRestartsAssumption DEF M!StatMoved, M!Restart, MonitorInv
    <2>3. QED
      BY <1>4, <1>5, <2>1, <2>2
  <1>10. QED
    BY <1>7, <1>8, <1>9 DEF MonitorStep, M!Next, M!Step

LEMMA PipelineKeeps == LogInv /\ PipelineInv /\ [PipelineNext]_pipelineVars => PipelineInv'
  <1> SUFFICES ASSUME LogInv, PipelineInv, [PipelineNext]_pipelineVars
               PROVE  PipelineInv'
    OBVIOUS
  <1>1. CASE LogStep
    BY <1>1, WritersKeep
  <1>2. CASE MonitorStep
    <2>1. CASE M!ReadLine
      <3>1. UNCHANGED vars /\ due' = due
        BY <1>2, <2>1 DEF MonitorStep, M!ReadLine
      <3>2. QED
        BY <2>1, <3>1, ReadKeeps
    <2>2. CASE ~M!ReadLine
      BY <1>2, <2>2, MonitorKeeps
    <2>3. QED
      BY <2>1, <2>2
  <1>3. CASE UNCHANGED pipelineVars
    BY <1>3
       DEF pipelineVars, vars, monVars, PipelineInv, MonitorInv, HandledInv,
           HandledLine, LeftBehind, HandledOnceInOrder, M!HandledOnceInOrder
  <1>4. QED
    BY <1>1, <1>2, <1>3 DEF PipelineNext

LEMMA PipelineHolds == PipelineSpec => [](LogInv /\ PipelineInv)
  BY PipelineStarts, PipelineKeeps, LogInvHolds, PTL DEF PipelineSpec

\* The monitor's variables keep their types: it reads a file only while it has
\* one open, and never stands behind its end (alert_monitor.py:96-121).
THEOREM PipelineTypeCorrect == PipelineSpec => []PipelineTypeOK
  <1>1. LogInv /\ PipelineInv => PipelineTypeOK
    BY DEF LogInv, OnceInv, TypeInv, TypeOK, PipelineInv, MonitorInv, PipelineTypeOK
  <1>2. QED
    BY <1>1, PipelineHolds, PTL

\* However writers, rotations and restarts of the monitor fall, it acts on no
\* event twice, follows the order of the file, and does not come back to a file
\* that it has left (alert_monitor.py:104, 115-119).
THEOREM ActsOnceInOrder == PipelineSpec => []HandledOnceInOrder
  <1>1. PipelineInv => HandledOnceInOrder
    BY DEF PipelineInv, HandledInv
  <1>2. QED
    BY <1>1, PipelineHolds, PTL
=============================================================================
