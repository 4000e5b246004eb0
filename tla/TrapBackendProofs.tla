-------------------------- MODULE TrapBackendProofs -------------------------
(***************************************************************************)
(* Proofs about a backend that reads honey values, for any number of rows, *)
(* columns and requests, and all settings.                                 *)
(***************************************************************************)
EXTENDS TrapBackend, TLAPS

InLogger == pc \in {"build", "report", "file", "release", "catch"}
AtValue == InLogger \/ pc \in {"enter", "terminate"}

\* An error was swallowed at a value of this row before column c.
SwallowedBefore(c) == \E d \in 1..(c - 1) : <<row, d>> \in caught

\* The subtransaction is open exactly while the logger runs; what it saves is
\* the caller's, but for the memory context behind a swallowed error.
LevelInv ==
  /\ InLogger =>
       /\ level = 1 /\ owner = "sub" /\ saved.owner = "caller"
       /\ \/ saved.context = "caller"
          \/ saved.context = "transaction" /\ SwallowedBefore(col)
  /\ pc \in {"fetch", "enter", "terminate", "idle"} => level = 0 /\ owner = "caller"
  /\ pc \in {"fetch", "idle"} => context = "caller"
  /\ pc = "enter" => \/ context = "caller"
                     \/ context = "transaction" /\ SwallowedBefore(col)
  /\ pc = "terminate" => \/ context = "caller"
                         \/ /\ context = "transaction"
                            /\ SwallowedBefore(col) \/ value \in caught

\* Nothing is recorded of values that are still to come.
FutureInv ==
  /\ \A r \in 1..Rows : \A c \in 1..Columns : Recorded(<<r, c>>) =>
       /\ r <= row
       /\ r = row => c <= col
       /\ r = row /\ pc = "enter" => c < col
  /\ outcome = "error" => pc \in {"idle", "dead"} /\ ~Recorded(value)

\* Rows are sent in order; of a row that has begun, the values before the
\* current one are recorded, and the current one is when its logging is over.
RecordInv ==
  /\ AtValue => row \in 1..Rows /\ sent = 1..(row - 1)
  /\ pc = "fetch" => sent = 1..row
  /\ sent \subseteq 1..row
  /\ conf.enabled =>
       /\ \A r \in sent : \A c \in 1..Columns : Recorded(<<r, c>>)
       /\ AtValue => \A c \in 1..(col - 1) : Recorded(<<row, c>>)
       /\ pc \in {"release", "terminate"} => Recorded(value)
       /\ selfKill => Recorded(<<1, 1>>)

\* Before a second row is fetched, the SIGTERM is pending.
KillInv ==
  Kills => row <= 1 /\ (pc = "fetch" /\ row = 1 => die)

IInv == TypeOK /\ LevelInv /\ FutureInv /\ RecordInv /\ KillInv

LEMMA InvInit == Init => IInv
  <1> SUFFICES ASSUME Init PROVE IInv
    OBVIOUS
  <1>1. /\ 0 \in 0..Rows /\ 1 \in 1..Columns /\ 0 \in Nat /\ 0 \in 0..MaxRequests
        /\ 0 <= 1 /\ 0 # 1 /\ 1..0 = {}
        /\ [context |-> "caller", owner |-> "caller"] \in
             [context : {"caller", "transaction"}, owner : {"caller"}]
    BY BoundsAssumption
  <1>2. TypeOK
    BY <1>1, ConfigurationsAssumption, Zenon DEF Init, TypeOK
  <1>3. LevelInv /\ KillInv /\ RecordInv
    BY <1>1, Zenon DEF Init, LevelInv, KillInv, RecordInv, InLogger, AtValue
  <1>4. FutureInv
    BY <1>1 DEF Init, FutureInv, Recorded
  <1>5. QED
    BY <1>2, <1>3, <1>4 DEF IInv

LEMMA TypeStep == IInv /\ [Next]_vars => TypeOK'
  <1> SUFFICES ASSUME IInv, [Next]_vars PROVE TypeOK'
    OBVIOUS
  <1> USE BoundsAssumption DEF IInv, TypeOK, values, signals, restored
  <1>v. AtValue => value \in Value
    BY DEF RecordInv, value, Value
  <1>1. CASE Fetch
    <2>1. row' \in 0..Rows /\ col' \in 1..Columns
      BY <1>1 DEF Fetch
    <2>2. QED
      BY <1>1, <2>1, Zenon DEF Fetch
  <1>2. CASE IdleDies
    BY <1>2, Zenon DEF IdleDies
  <1>3. CASE Request
    <2>1. requests' \in 0..MaxRequests
      BY <1>3 DEF Request
    <2>2. UNCHANGED <<conf, row, col, restored, outcome, values>>
      BY <1>3 DEF Request
    <2>3. QED
      BY <1>3, <2>1, <2>2 DEF Request
  <1>4. CASE LogEvent
    <2>1. saved' \in [context : {"caller", "transaction"}, owner : {"caller"}]
      BY <1>4 DEF LogEvent, LevelInv
    <2>2. level' \in Nat /\ owner' \in {"caller", "sub"}
      BY <1>4 DEF LogEvent, Begin
    <2>3. /\ context' \in {"caller", "sub", "transaction"}
          /\ outcome' \in {"running", "completed", "cancelled", "error"}
          /\ pc' \in {"fetch", "enter", "build", "report", "file", "release",
                      "catch", "terminate", "idle", "dead"}
      BY <1>4, Zenon DEF LogEvent, Begin
    <2>4. QED
      BY <1>4, <2>1, <2>2, <2>3, Zenon DEF LogEvent
  <1>5. CASE BuildLine
    BY <1>5, Zenon DEF BuildLine
  <1>6. CASE Report
    BY <1>6, <1>v DEF Report, AtValue, InLogger
  <1>7. CASE WriteLine
    BY <1>7, <1>v DEF WriteLine, AtValue, InLogger
  <1>8. CASE Release \/ Catch
    <2>1. level' \in Nat
      BY <1>8 DEF Release, Catch, CatchAnd, Restore, LevelInv, InLogger
    <2>2. owner' = "caller"
      BY <1>8 DEF Release, Catch, CatchAnd, Restore, LevelInv, InLogger
    <2>3. context' \in {"caller", "sub", "transaction"}
      BY <1>8 DEF Release, Catch, CatchAnd, Restore
    <2>4. caught' \subseteq Value /\ stream' \cup file' \cup dropped' \subseteq Value
      BY <1>8, <1>v DEF Release, Catch, CatchAnd, AtValue, InLogger
    <2>5. stream' \cup file' \cup dropped' \cup caught' \subseteq Value
      BY <2>4
    <2>6. QED
      BY <1>8, <2>1, <2>2, <2>3, <2>5, Zenon DEF Release, Catch, CatchAnd
  <1>9. CASE Terminate
    <2>1. col' \in 1..Columns
      BY <1>9 DEF Terminate, NextValue, RecordInv, AtValue
    <2>2. sent' \subseteq 1..Rows
      BY <1>9 DEF Terminate, NextValue, RecordInv, AtValue
    <2>3. die' \in BOOLEAN /\ selfKill' \in BOOLEAN
      BY <1>9, Zenon DEF Terminate
    <2>4. pc' \in {"fetch", "enter", "build", "report", "file", "release", "catch",
                  "terminate", "idle", "dead"}
      BY <1>9, Zenon DEF Terminate, NextValue
    <2>5. UNCHANGED <<conf, row, level, owner, saved, outcome, stream, file,
                      dropped, caught, cancel, requests>>
      BY <1>9, Zenon DEF Terminate
    <2>10. context' \in {"caller", "sub", "transaction"}
      BY <1>9, Zenon DEF Terminate, NextValue
    <2>6. stream' \cup file' \cup dropped' \cup caught' \subseteq Value
      BY <2>5
    <2>7. /\ conf' \in Configuration /\ row' \in 0..Rows /\ level' \in Nat
          /\ owner' \in {"caller", "sub"} /\ requests' \in 0..MaxRequests
      BY <2>5
    <2>8. /\ outcome' \in {"running", "completed", "cancelled", "error"}
          /\ cancel' \in BOOLEAN
          /\ saved' \in [context : {"caller", "transaction"}, owner : {"caller"}]
      BY <2>5, Zenon
    <2>9. QED
      BY <2>1, <2>2, <2>3, <2>4, <2>6, <2>7, <2>8, <2>10, Zenon
  <1>10. CASE Over \/ UNCHANGED vars
    <2>1. /\ conf' = conf /\ pc' = pc /\ row' = row /\ col' = col /\ level' = level
          /\ owner' = owner /\ outcome' = outcome /\ stream' = stream /\ file' = file
          /\ dropped' = dropped /\ caught' = caught /\ sent' = sent
          /\ requests' = requests /\ context' = context /\ saved' = saved
      BY <1>10 DEF Over, vars
    <2>2. die' = die /\ cancel' = cancel /\ selfKill' = selfKill
      BY <1>10, Zenon DEF Over, vars
    <2>3. die' \in BOOLEAN /\ cancel' \in BOOLEAN /\ selfKill' \in BOOLEAN
      BY <2>2, Zenon
    <2>4. QED
      BY <2>1, <2>3
  <1>11. QED
    BY <1>1, <1>2, <1>3, <1>4, <1>5, <1>6, <1>7, <1>8, <1>9, <1>10
       DEF Next, Step

LEMMA LevelStep == IInv /\ [Next]_vars => LevelInv'
  <1> SUFFICES ASSUME IInv, [Next]_vars PROVE LevelInv'
    OBVIOUS
  <1> USE DEF IInv, LevelInv, InLogger, SwallowedBefore, value
  <1>1. CASE LogEvent
    <2>1. UNCHANGED <<row, col, caught>> /\ pc = "enter"
      BY <1>1 DEF LogEvent, values
    <2>2. QED
      BY <1>1, <2>1 DEF LogEvent, Begin, restored
  <1>2. CASE Release
    BY <1>2 DEF Release, Restore, values
  <1>3. CASE Catch
    <2>1. /\ pc' = "terminate" /\ level' = 0 /\ owner' = "caller"
          /\ context' = "transaction" /\ <<row, col>> \in caught'
          /\ UNCHANGED <<row, col>>
      BY <1>3 DEF Catch, CatchAnd, Restore
    <2>2. QED
      BY <2>1
  <1>4. CASE Fetch
    <2>1. /\ pc = "fetch" /\ UNCHANGED <<level, owner, context>>
          /\ pc' \in {"fetch", "enter", "idle", "dead"}
      BY <1>4, Zenon DEF Fetch, restored
    <2>2. QED
      BY <2>1
  <1>5. CASE IdleDies
    BY <1>5, Zenon DEF IdleDies, restored
  <1>6. CASE Request
    BY <1>6, Zenon DEF Request, restored, values
  <1>7. CASE BuildLine \/ Report \/ WriteLine
    <2>1. /\ InLogger /\ pc' \in {"report", "file", "release", "catch", "dead"}
          /\ UNCHANGED <<row, col, level, owner, context, saved, caught>>
      BY <1>7 DEF BuildLine, Report, WriteLine, restored, values
    <2>2. QED
      BY <2>1
  <1>8. CASE Terminate
    <2>1. /\ pc = "terminate" /\ UNCHANGED <<row, level, owner, saved, caught>>
          /\ level = 0 /\ owner = "caller"
      BY <1>8, Zenon DEF Terminate
    <2>2. CASE col < Columns
      <3>1. pc' = "enter" /\ col' = col + 1 /\ context' = context
        BY <1>8, <2>2 DEF Terminate, NextValue
      <3>2. context = "transaction" => SwallowedBefore(col + 1)
        <4>1. col \in 1..((col + 1) - 1) /\ \A d \in 1..(col - 1) : d \in 1..((col + 1) - 1)
          BY DEF TypeOK
        <4>2. QED
          BY <2>1, <4>1
      <3>3. QED
        BY <2>1, <3>1, <3>2
    <2>3. CASE ~(col < Columns)
      BY <1>8, <2>1, <2>3 DEF Terminate, NextValue
    <2>4. QED
      BY <2>2, <2>3
  <1>9. CASE Over \/ UNCHANGED vars
    <2>1. UNCHANGED <<pc, row, col, level, owner, context, saved, caught>>
      BY <1>9 DEF Over, vars, restored, values
    <2>2. QED
      BY <2>1
  <1>10. QED
    BY <1>1, <1>2, <1>3, <1>4, <1>5, <1>6, <1>7, <1>8, <1>9 DEF Next, Step

LEMMA FutureStep == IInv /\ [Next]_vars => FutureInv'
  <1> SUFFICES ASSUME IInv, [Next]_vars PROVE FutureInv'
    OBVIOUS
  <1>0. row \in 0..Rows /\ col \in 1..Columns /\ FutureInv
    BY DEF IInv, TypeOK
  <1>1. CASE LogEvent
    <2>1. pc = "enter" /\ UNCHANGED <<row, col, stream, file, dropped, caught>>
      BY <1>1 DEF LogEvent, values
    <2>2. ~Recorded(value)
      <3>1. AtValue /\ row \in 1..Rows
        BY <2>1 DEF IInv, RecordInv, AtValue, InLogger
      <3>2. QED
        BY <1>0, <2>1, <3>1 DEF FutureInv, value
    <2>3. outcome' = "error" => pc' = "idle"
      BY <1>0, <1>1, <2>1 DEF LogEvent, Begin, FutureInv
    <2>4. pc' # "enter"
      BY <1>1 DEF LogEvent, Begin
    <2>5. QED
      BY <1>0, <2>1, <2>2, <2>3, <2>4 DEF FutureInv, Recorded, value
  <1>2. CASE BuildLine \/ Report \/ WriteLine \/ Release \/ Catch
    <2>1. /\ pc \in {"build", "report", "file", "release", "catch"} /\ pc' # "enter"
          /\ UNCHANGED <<row, col, outcome>>
      BY <1>2 DEF BuildLine, Report, WriteLine, Release, Catch, CatchAnd
    <2>2. /\ stream' \subseteq stream \cup {value} /\ file' \subseteq file \cup {value}
          /\ dropped' \subseteq dropped \cup {value} /\ caught' \subseteq caught \cup {value}
      BY <1>2 DEF BuildLine, Report, WriteLine, Release, Catch, CatchAnd, values
    <2>3. \A r \in 1..Rows : \A c \in 1..Columns :
            Recorded(<<r, c>>)' => Recorded(<<r, c>>) \/ (r = row /\ c = col)
      BY <2>2 DEF Recorded, value
    <2>4. outcome # "error"
      BY <1>0, <2>1 DEF FutureInv
    <2>5. QED
      BY <1>0, <2>1, <2>3, <2>4 DEF FutureInv
  <1>3. CASE Fetch
    <2>1. /\ pc = "fetch" /\ UNCHANGED <<stream, file, dropped, caught>>
          /\ outcome' \in {outcome, "cancelled", "completed"}
      BY <1>3, Zenon DEF Fetch, values
    <2>2. \/ row' = row + 1 /\ col' = 1
          \/ UNCHANGED <<row, col>> /\ pc' # "enter"
      BY <1>3, Zenon DEF Fetch
    <2>3. outcome' # "error"
      BY <1>0, <2>1 DEF FutureInv
    <2>4. QED
      BY <1>0, <2>1, <2>2, <2>3 DEF FutureInv, Recorded
  <1>4. CASE Terminate
    <2>1. /\ pc = "terminate" /\ UNCHANGED <<row, outcome, stream, file, dropped, caught>>
          /\ \/ pc' = "enter" /\ col' = col + 1
             \/ pc' = "fetch" /\ col' = col
      BY <1>4, Zenon DEF Terminate, NextValue
    <2>2. outcome # "error"
      BY <1>0, <2>1 DEF FutureInv
    <2>3. QED
      BY <1>0, <2>1, <2>2 DEF FutureInv, Recorded
  <1>5. CASE IdleDies \/ Request \/ Over \/ UNCHANGED vars
    <2>1. /\ UNCHANGED <<row, col, outcome, stream, file, dropped, caught>>
          /\ pc' = pc \/ (pc = "idle" /\ pc' = "dead")
      BY <1>5 DEF IdleDies, Request, Over, vars, values
    <2>2. QED
      BY <1>0, <2>1 DEF FutureInv, Recorded, value
  <1>6. QED
    BY <1>1, <1>2, <1>3, <1>4, <1>5 DEF Next, Step

LEMMA KillStep == IInv /\ [Next]_vars => KillInv'
  <1> SUFFICES ASSUME IInv, [Next]_vars PROVE KillInv'
    OBVIOUS
  <1> USE DEF IInv
  <1>1. CASE Fetch
    <2>1. row \in Nat /\ 1 # 0
      BY DEF TypeOK
    <2>2. ASSUME Kills PROVE row' <= 1 /\ (pc' = "fetch" /\ row' = 1 => die')
      <3>1. CASE pc' = "enter"
        <4>1. row' = row + 1 /\ ~die /\ pc = "fetch"
          BY <1>1, <3>1 DEF Fetch
        <4>2. row # 1 /\ row <= 1
          BY <2>2, <4>1 DEF KillInv
        <4>3. QED
          BY <2>1, <3>1, <4>1, <4>2
      <3>2. CASE pc' # "enter"
        BY <1>1, <2>2, <3>2, Zenon DEF Fetch, KillInv
      <3>3. QED
        BY <3>1, <3>2
    <2>3. Kills' = Kills
      BY <1>1 DEF Fetch, Kills
    <2>4. QED
      BY <2>2, <2>3 DEF KillInv
  <1>2. CASE Terminate
    <2>1. UNCHANGED <<conf, row>> /\ (Kills => die')
      BY <1>2, Zenon DEF Terminate, KillsItself
    <2>2. QED
      BY <2>1, Zenon DEF KillInv, Kills
  <1>3. CASE IdleDies \/ Request \/ LogEvent \/ BuildLine \/ Report \/ WriteLine
             \/ Release \/ Catch \/ Over \/ UNCHANGED vars
    <2>1. die => die'
      BY <1>3, Zenon DEF IdleDies, Request, LogEvent, BuildLine, Report,
         WriteLine, Release, Catch, CatchAnd, Over, vars, signals
    <2>2. UNCHANGED <<conf, row>>
      BY <1>3 DEF IdleDies, Request, LogEvent, BuildLine, Report,
         WriteLine, Release, Catch, CatchAnd, Over, vars
    <2>3. pc' = "fetch" => pc = "fetch"
      BY <1>3 DEF IdleDies, Request, LogEvent, Begin, BuildLine, Report,
         WriteLine, Release, Catch, CatchAnd, Over, vars
    <2>4. QED
      BY <2>1, <2>2, <2>3, Zenon DEF KillInv, Kills
  <1>4. QED
    BY <1>1, <1>2, <1>3 DEF Next, Step

LEMMA RecordStep == IInv /\ [Next]_vars => RecordInv'
  <1> SUFFICES ASSUME IInv, [Next]_vars PROVE RecordInv'
    OBVIOUS
  <1> USE BoundsAssumption
      DEF IInv, TypeOK, RecordInv, InLogger, AtValue, Recorded, value, values, signals
  <1>1. CASE Fetch
    BY <1>1 DEF Fetch
  <1>2. CASE IdleDies
    BY <1>2 DEF IdleDies
  <1>3. CASE Request
    BY <1>3 DEF Request
  <1>4. CASE LogEvent
    BY <1>4 DEF LogEvent, Begin, Logs
  <1>5. CASE BuildLine
    BY <1>5 DEF BuildLine
  <1>6. CASE Report
    BY <1>6 DEF Report
  <1>7. CASE WriteLine
    BY <1>7 DEF WriteLine
  <1>8. CASE Release \/ Catch
    BY <1>8 DEF Release, Catch, CatchAnd
  <1>9. CASE Terminate
    <2>1. CASE col < Columns
      BY <1>9, <2>1 DEF Terminate, NextValue, KillsItself, Kills
    <2>2. CASE ~(col < Columns)
      <3>1. /\ pc = "terminate" /\ pc' = "fetch" /\ sent' = sent \cup {row}
            /\ UNCHANGED <<conf, row, col, stream, file, dropped, caught>>
        BY <1>9, <2>2 DEF Terminate, NextValue
      <3>2. row \in Nat /\ row >= 1 /\ sent = 1..(row - 1)
        BY <3>1
      <3>3. sent' = 1..row'
        BY <3>1, <3>2
      <3>4. conf.enabled => \A c \in 1..Columns : Recorded(<<row, c>>)
        BY <2>2, <3>1
      <3>5. conf.enabled => \A r \in sent' : \A c \in 1..Columns : Recorded(<<r, c>>)
        BY <3>1, <3>4
      <3>6. conf.enabled => Recorded(<<1, 1>>)
        <4>1. 1 \in sent' /\ 1 \in 1..Columns
          BY <3>1, <3>2, <3>3
        <4>2. QED
          BY <3>5, <4>1
      <3>7. QED
        BY <3>1, <3>3, <3>5, <3>6
    <2>3. QED
      BY <2>1, <2>2
  <1>10. CASE Over \/ UNCHANGED vars
    <2>1. UNCHANGED <<conf, pc, row, col, stream, file, dropped, caught, sent, selfKill>>
      BY <1>10 DEF Over, vars
    <2>2. QED
      BY <2>1
  <1>11. QED
    BY <1>1, <1>2, <1>3, <1>4, <1>5, <1>6, <1>7, <1>8, <1>9, <1>10
       DEF Next, Step

LEMMA InvHolds == Spec => []IInv
  <1>1. IInv /\ [Next]_vars => IInv'
    BY TypeStep, LevelStep, FutureStep, KillStep, RecordStep DEF IInv
  <1>2. QED
    BY InvInit, <1>1, PTL DEF Spec

-----------------------------------------------------------------------------

\* The variables keep their types (honey_bun.c:81-135, logger.c:387-523).
THEOREM TypeCorrect == Spec => []TypeOK
  <1>1. IInv => TypeOK
    BY DEF IInv
  <1>2. QED
    BY <1>1, InvHolds, PTL

\* The caller gets back its transaction and its memory context, but for the
\* values behind a swallowed error in the same row; an error that reaches it
\* was raised before anything of the value was logged (logger.c:405-432).
THEOREM CallerIsRestored == Spec => []CallerUndisturbed
  <1>1. ASSUME IInv PROVE CallerUndisturbed
    <2>1. \A d \in 1..(col - 1) : d \in 1..col
      BY <1>1 DEF IInv, TypeOK
    <2>2. col \in 1..col
      BY <1>1 DEF IInv, TypeOK
    <2>3. pc \in {"fetch", "enter", "terminate", "idle"} =>
            level = 0 /\ owner = "caller" /\ ContextKept
      BY <1>1, <2>1, <2>2 DEF IInv, LevelInv, SwallowedBefore, ContextKept, value
    <2>4. QED
      BY <1>1, <2>3 DEF IInv, FutureInv, CallerUndisturbed
  <1>2. QED
    BY <1>1, InvHolds, PTL

\* Every delivered honey value is recorded or its logging failed, and nobody
\* is terminated before the first alert (logger.c:144-147, 387-432).
THEOREM NothingIsReadUnseen == Spec => []DeliveredIsRecorded
  <1>1. IInv => DeliveredIsRecorded
    BY DEF IInv, RecordInv, DeliveredIsRecorded
  <1>2. QED
    BY <1>1, InvHolds, PTL

\* A session that is terminated on reading gets one row, for any number of
\* rows and whatever is requested of it (logger.c:506-523).
THEOREM OneRowGetsOut == Spec => []AtMostOneRow
  <1>1. IInv => AtMostOneRow
    BY DEF IInv, TypeOK, RecordInv, KillInv, AtMostOneRow
  <1>2. QED
    BY <1>1, InvHolds, PTL
=============================================================================
