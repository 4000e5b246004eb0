--------------------------- MODULE ResponseProofs ---------------------------
(***************************************************************************)
(* Proofs about the monitor's response, for any number of roles, sessions  *)
(* and events, any suppression rules and any set of faults.                *)
(***************************************************************************)
EXTENDS Response, FiniteSetTheorems, TLAPS

\* The other lines of the alert file, the worker's heartbeats.
BeatLine == [event : {"heartbeat"}, tag : {None}]

\* What is answered is always a read: no response is about a heartbeat.
LineInv ==
  /\ queue \in Seq(ReadLine \cup BeatLine)
  /\ IF pc = "idle" THEN event = None ELSE event \in ReadLine

TypeInv ==
  /\ login \in [Roles -> BOOLEAN]
  /\ phase \in [Sessions -> {"none", "auth", "live", "killed"}]
  /\ cfg \in Settings
  /\ pc \in {"idle", "connect", "nologin", "terminate", "hung"}
  /\ pc # "idle" => ~cfg.dry_run /\ cfg.primary_dsn
  /\ offence \in [Sessions -> {"none", "due", "excused"}]
  /\ answered \subseteq Roles /\ spared \subseteq Sessions

IInv == TypeInv /\ LineInv /\ AnsweredRolesAreOut

-----------------------------------------------------------------------------

LEMMA InvInit == Init => IInv
  BY SessionsAssumption DEF Init, IInv, TypeInv, LineInv, AnsweredRolesAreOut

\* A line that is not passed over is a read.
LEMMA AnsweredLines ==
  ASSUME NEW e \in ReadLine \cup BeatLine, ~Passed(e)
  PROVE  e \in ReadLine
  BY DEF Passed, IsHeartbeat, BeatLine

\* The head and the tail of a queue that is not empty.
LEMMA HeadTail ==
  ASSUME queue \in Seq(ReadLine \cup BeatLine), queue # <<>>
  PROVE  /\ Head(queue) \in ReadLine \cup BeatLine
         /\ Tail(queue) \in Seq(ReadLine \cup BeatLine)
  OBVIOUS

\* The steps of the sessions and of the operator.
LEMMA SessionStep ==
  ASSUME IInv,
         \/ \E s \in Sessions :
              \/ Authenticate(s) \/ Appear(s) \/ Leave(s) \/ Die(s)
              \/ \E tag \in {"trap", "heartbeat"} : Read(s, tag)
         \/ WorkerBeat
         \/ \E r \in Roles : Reinstate(r)
  PROVE  IInv'
  <1> USE SessionsAssumption
      DEF IInv, TypeInv, LineInv, AnsweredRolesAreOut,
          dbVars, monitorVars, boundVars, historyVars
  <1>1. ASSUME NEW s \in Sessions, Authenticate(s) PROVE IInv'
    BY <1>1 DEF Authenticate
  <1>2. ASSUME NEW s \in Sessions, Appear(s) PROVE IInv'
    BY <1>2 DEF Appear
  <1>3. ASSUME NEW s \in Sessions, Gone(s) PROVE IInv'
    BY <1>3 DEF Gone
  <1>4. ASSUME NEW s \in Sessions, NEW tag \in {"trap", "heartbeat"}, Read(s, tag)
        PROVE  IInv'
    <2> DEFINE line == [event |-> "read", session_user |-> RoleOf[s],
                        client_addr |-> AddrOf[s], tag |-> tag, pid |-> s]
    <2>1. line \in ReadLine
      BY DEF ReadLine
    <2>2. queue' = Append(queue, line)
      BY <1>4 DEF Read
    <2>3. queue' \in Seq(ReadLine \cup BeatLine)
      BY <2>1, <2>2
    <2>4. offence' \in [Sessions -> {"none", "due", "excused"}]
      BY <1>4 DEF Read
    <2>5. QED
      BY <1>4, <2>3, <2>4 DEF Read
  <1>5. ASSUME WorkerBeat PROVE IInv'
    <2>1. [event |-> "heartbeat", tag |-> None] \in BeatLine
      BY DEF BeatLine
    <2>2. queue' \in Seq(ReadLine \cup BeatLine)
      BY <1>5, <2>1 DEF WorkerBeat
    <2>3. QED
      BY <1>5, <2>2 DEF WorkerBeat
  <1>6. ASSUME NEW r \in Roles, Reinstate(r) PROVE IInv'
    BY <1>6 DEF Reinstate
  <1>7. QED
    BY <1>1, <1>2, <1>3, <1>4, <1>5, <1>6 DEF Leave, Die

\* The steps of the monitor.
LEMMA MonitorStep ==
  ASSUME IInv, Monitor
  PROVE  IInv'
  <1> USE SessionsAssumption
      DEF IInv, TypeInv, LineInv, AnsweredRolesAreOut,
          dbVars, monitorVars, boundVars, historyVars, EndResponse
  <1>1. CASE Pass
    BY <1>1, HeadTail DEF Pass
  <1>2. CASE Respond
    <2>1. Head(queue) \in ReadLine
      BY <1>2, HeadTail, AnsweredLines DEF Respond
    <2>2. queue' \in Seq(ReadLine \cup BeatLine)
      BY <1>2, HeadTail DEF Respond
    <2>3. QED
      BY <1>2, <2>1, <2>2 DEF Respond, Armed
  <1>3. CASE Connect
    BY <1>3 DEF Connect, Excused
  <1>4. CASE NoLogin
    BY <1>4 DEF NoLogin, RevokeLogin
  <1>5. CASE Terminate
    <2>1. event.session_user \in Roles
      BY <1>5 DEF Terminate, ReadLine
    <2>2. PICK victims \in SUBSET Sessions :
            /\ Kill(victims)
            /\ event.session_user # MonitorRole => victims = SessionsIn("live")
      BY <1>5 DEF Terminate, SessionsIn
    <2>3. TypeInv'
      BY <1>5, <2>1, <2>2 DEF Terminate, Kill, Completed, SessionsIn
    <2>4. AnsweredRolesAreOut'
      <3> SUFFICES ASSUME NEW s \in Sessions, RoleOf[s] \in answered'
                   PROVE  /\ ~login'[RoleOf[s]]
                          /\ phase'[s] \in {"auth", "live"} => s \in spared'
        OBVIOUS
      <3>1. login' = login /\ spared \subseteq spared'
        BY <1>5 DEF Terminate, Completed
      <3>2. phase'[s] \in {"auth", "live"} => phase'[s] = phase[s] /\ s \notin victims
        BY <2>2 DEF Kill
      <3>3. CASE RoleOf[s] \in answered
        BY <3>1, <3>2, <3>3
      <3>4. CASE RoleOf[s] \notin answered
        <4>1. /\ event.session_user # MonitorRole
              /\ RoleOf[s] = event.session_user /\ ~login[RoleOf[s]]
              /\ spared' = spared \cup SessionsIn("auth")
          BY <1>5, <3>4 DEF Terminate, Completed
        <4>2. QED
          BY <2>2, <3>1, <3>2, <4>1 DEF SessionsIn
      <3>5. QED
        BY <3>3, <3>4
    <2>5. LineInv'
      BY <1>5 DEF Terminate
    <2>6. QED
      BY <2>3, <2>4, <2>5
  <1>6. QED
    BY <1>1, <1>2, <1>3, <1>4, <1>5 DEF Monitor

\* The faults of the response.
LEMMA FaultStep ==
  ASSUME IInv, ResponseFails \/ ResponseHangs \/ Crash
  PROVE  IInv'
  <1> USE SessionsAssumption
      DEF IInv, TypeInv, LineInv, AnsweredRolesAreOut,
          dbVars, monitorVars, boundVars, historyVars, EndResponse, Fault, Excused
  <1>1. CASE ResponseFails
    <2>1. CASE UNCHANGED <<login, phase>>
      BY <1>1, <2>1 DEF ResponseFails
    <2>2. CASE RevokeLogin /\ UNCHANGED phase
      BY <1>1, <2>2 DEF ResponseFails, RevokeLogin
    <2>3. ASSUME UNCHANGED login, NEW some \in SUBSET SessionsIn("live"),
                 phase' = [s \in Sessions |-> IF s \in some THEN "killed" ELSE phase[s]]
          PROVE  IInv'
      BY <1>1, <2>3 DEF ResponseFails
    <2>4. QED
      BY <1>1, <2>1, <2>2, <2>3 DEF ResponseFails
  <1>2. CASE ResponseHangs
    BY <1>2 DEF ResponseHangs, InResponse
  <1>3. CASE Crash
    <2>1. <<>> \in Seq(ReadLine \cup BeatLine)
      OBVIOUS
    <2>2. QED
      BY <1>3, <2>1 DEF Crash
  <1>4. QED
    BY <1>1, <1>2, <1>3

LEMMA InvStep == IInv /\ [Next]_vars => IInv'
  <1> SUFFICES ASSUME IInv, [Next]_vars PROVE IInv'
    OBVIOUS
  <1>1. CASE UNCHANGED vars
    BY <1>1 DEF IInv, TypeInv, LineInv, AnsweredRolesAreOut, vars,
                dbVars, monitorVars, boundVars, historyVars
  <1>2. QED
    BY <1>1, SessionStep, MonitorStep, FaultStep DEF Next

LEMMA InvHolds == Spec => []IInv
  BY InvInit, InvStep, PTL DEF Spec

-----------------------------------------------------------------------------

\* The variables keep their types, and a monitor in a dry run or without a
\* primary_dsn never gets as far as a connection (alert_monitor.py:152-166).
THEOREM TypeCorrect == Spec => []TypeOK
  <1>1. IInv => TypeOK
    BY NoneAssumption DEF IInv, TypeInv, LineInv, TypeOK
  <1>2. QED
    BY <1>1, InvHolds, PTL

\* After a response that was not disturbed the role is out, for any number of
\* roles and sessions, whatever the rules, and whichever faults came before
\* and come later: only the operator lets it in again
\* (alert_monitor.py:177-187).
THEOREM RolesStayOut == Spec => []AnsweredRolesAreOut
  <1>1. IInv => AnsweredRolesAreOut
    BY DEF IInv
  <1>2. QED
    BY <1>1, InvHolds, PTL

-----------------------------------------------------------------------------
(* Every login that is taken was owed.                                     *)
(*                                                                         *)
(* The invariant counts: for each role, its offences that were not         *)
(* answered yet are at least the lines that will be answered, and the one  *)
(* that is being answered before NOLOGIN takes effect.                     *)

\* The lines of q for which r is going to lose its login.
Charges(q, r) == {i \in 1..Len(q) : ~Passed(q[i]) /\ q[i].session_user = r}

InAnswer(r) ==
  IF pc \in {"connect", "nologin"} /\ event.session_user = r THEN 1 ELSE 0

OwedInv ==
  /\ owed \in [Roles -> Int]
  /\ \A r \in Roles : Cardinality(Charges(queue, r)) + InAnswer(r) <= owed[r]
  /\ \A r \in Roles : ~login[r] => ~cfg.dry_run

Lines == ReadLine \cup BeatLine

LEMMA ChargesFinite ==
  ASSUME NEW q \in Seq(Lines), NEW r
  PROVE  /\ IsFiniteSet(Charges(q, r))
         /\ Cardinality(Charges(q, r)) \in Nat
  <1>1. IsFiniteSet(1..Len(q)) /\ Charges(q, r) \in SUBSET (1..Len(q))
    BY FS_Interval DEF Charges
  <1>2. IsFiniteSet(Charges(q, r))
    BY <1>1, FS_Subset
  <1>3. QED
    BY <1>2, FS_CardinalityType

LEMMA ChargesAppend ==
  ASSUME NEW q \in Seq(Lines), NEW e \in Lines, NEW r
  PROVE  Cardinality(Charges(Append(q, e), r)) =
           Cardinality(Charges(q, r)) +
             (IF ~Passed(e) /\ e.session_user = r THEN 1 ELSE 0)
  <1> DEFINE n == Len(q) + 1
             new == Append(q, e)
  <1>1. /\ n \in Nat /\ Len(new) = n /\ new[n] = e
        /\ \A i \in 1..Len(q) : new[i] = q[i]
        /\ 1..n = (1..Len(q)) \cup {n} /\ n \notin 1..Len(q)
    OBVIOUS
  <1>2. Charges(new, r) = IF ~Passed(e) /\ e.session_user = r
                          THEN Charges(q, r) \cup {n} ELSE Charges(q, r)
    <2> HIDE DEF n, new
    <2>1. QED
      BY <1>1 DEF Charges
  <1>3. n \notin Charges(q, r)
    BY <1>1 DEF Charges
  <1> HIDE DEF n, new
  <1>4. Cardinality(Charges(q, r) \cup {n}) = Cardinality(Charges(q, r)) + 1
    BY <1>3, ChargesFinite, FS_AddElement
  <1>5. QED
    BY <1>2, <1>4, ChargesFinite DEF new

LEMMA ChargesTail ==
  ASSUME NEW q \in Seq(Lines), q # <<>>, NEW r
  PROVE  Cardinality(Charges(Tail(q), r)) +
           (IF ~Passed(Head(q)) /\ Head(q).session_user = r THEN 1 ELSE 0)
         <= Cardinality(Charges(q, r))
  <1> DEFINE rest == Charges(q, r) \ {1}
             f == [i \in Charges(Tail(q), r) |-> i + 1]
  <1>1. /\ Len(Tail(q)) = Len(q) - 1 /\ Len(q) \in Nat \ {0} /\ Head(q) = q[1]
        /\ \A i \in 1..Len(Tail(q)) : Tail(q)[i] = q[i + 1]
        /\ Tail(q) \in Seq(Lines)
    OBVIOUS
  <1>2. f \in Injection(Charges(Tail(q), r), rest)
    <2>1. Charges(Tail(q), r) \subseteq Nat
      BY <1>1 DEF Charges
    <2>2. \A i \in Charges(Tail(q), r) : i + 1 \in rest
      BY <1>1 DEF Charges
    <2>3. QED
      BY <2>1, <2>2 DEF Injection, IsInjective
  <1>3. IsFiniteSet(rest)
        /\ Cardinality(rest) = IF 1 \in Charges(q, r)
                               THEN Cardinality(Charges(q, r)) - 1
                               ELSE Cardinality(Charges(q, r))
    BY ChargesFinite, FS_RemoveElement
  <1>4. Cardinality(Charges(Tail(q), r)) <= Cardinality(rest)
    BY <1>2, <1>3, FS_Injection
  <1>5. 1 \in Charges(q, r) <=> ~Passed(Head(q)) /\ Head(q).session_user = r
    BY <1>1 DEF Charges
  <1>6. /\ Cardinality(Charges(Tail(q), r)) \in Nat
        /\ Cardinality(Charges(q, r)) \in Nat
    BY <1>1, ChargesFinite
  <1>7. QED
    BY <1>3, <1>4, <1>5, <1>6

\* A read that no rule covers is an offence.
LEMMA UncoveredReads ==
  ASSUME NEW s \in Sessions, NEW e \in ReadLine, ~Passed(e),
         e.session_user = RoleOf[s], e.client_addr = AddrOf[s]
  PROVE  e.tag = "trap" /\ s \notin Benign
  <1>1. e.tag # "heartbeat" /\ \A rule \in Rules : ~Matches(rule, e)
    BY DEF Passed, IsHeartbeat
  <1>2. DOMAIN e = {"event", "session_user", "client_addr", "tag", "pid"}
    BY DEF ReadLine
  <1>3. e.session_user = e["session_user"] /\ e.client_addr = e["client_addr"]
    OBVIOUS
  <1>4. ASSUME s \in Benign PROVE FALSE
    <2>1. PICK rule \in Rules :
            /\ DOMAIN rule # {} /\ DOMAIN rule \subseteq {"session_user", "client_addr"}
            /\ "session_user" \in DOMAIN rule => rule["session_user"] = RoleOf[s]
            /\ "client_addr" \in DOMAIN rule => rule["client_addr"] = AddrOf[s]
      BY <1>4, BenignAssumption
    <2>2. \A k \in DOMAIN rule : k \in DOMAIN e /\ e[k] = rule[k]
      BY <1>2, <1>3, <2>1
    <2>3. QED
      BY <1>1, <2>1, <2>2 DEF Matches
  <1>5. QED
    BY <1>1, <1>4 DEF ReadLine
-----------------------------------------------------------------------------

\* Steps that take nothing from the queue and start no answer, and leave what
\* is owed alone, but for more offences.
LEMMA OwedMore ==
  ASSUME IInv, IInv', OwedInv, UNCHANGED <<login, cfg>>,
         owed' \in [Roles -> Int],
         \A r \in Roles :
           /\ InAnswer(r)' <= InAnswer(r)
           /\ Cardinality(Charges(queue', r)) - Cardinality(Charges(queue, r))
                <= owed'[r] - owed[r]
  PROVE  OwedInv'
  <1>1. ASSUME NEW r \in Roles
        PROVE  Cardinality(Charges(queue', r)) + InAnswer(r)' <= owed'[r]
    <2>1. /\ Cardinality(Charges(queue, r)) \in Nat
          /\ Cardinality(Charges(queue', r)) \in Nat
      BY ChargesFinite DEF IInv, LineInv, Lines
    <2>2. InAnswer(r) \in {0, 1} /\ InAnswer(r)' \in {0, 1}
      BY DEF InAnswer
    <2>3. owed[r] \in Int /\ owed'[r] \in Int
      BY DEF OwedInv
    <2>4. Cardinality(Charges(queue, r)) + InAnswer(r) <= owed[r]
      BY DEF OwedInv
    <2>5. QED
      BY <2>1, <2>2, <2>3, <2>4
  <1>2. QED
    BY <1>1 DEF OwedInv

LEMMA OwedInit == Init => OwedInv
  <1> SUFFICES ASSUME Init PROVE OwedInv
    OBVIOUS
  <1>1. ASSUME NEW r \in Roles PROVE Cardinality(Charges(queue, r)) = 0
    <2>1. Charges(queue, r) = {}
      BY DEF Init, Charges
    <2>2. QED
      BY <2>1, FS_EmptySet
  <1>2. QED
    BY <1>1 DEF Init, OwedInv, InAnswer

LEMMA OwedReads ==
  ASSUME IInv, IInv', OwedInv,
         (\E s \in Sessions, tag \in {"trap", "heartbeat"} : Read(s, tag)) \/ WorkerBeat
  PROVE  OwedInv'
  <1>1. ASSUME NEW s \in Sessions, NEW tag \in {"trap", "heartbeat"}, Read(s, tag)
        PROVE  OwedInv'
    <2> DEFINE line == [event |-> "read", session_user |-> RoleOf[s],
                        client_addr |-> AddrOf[s], tag |-> tag, pid |-> s]
    <2>1. line \in ReadLine /\ line \in Lines /\ queue \in Seq(Lines)
      BY SessionsAssumption DEF ReadLine, Lines, IInv, LineInv
    <2>2. queue' = Append(queue, line)
      BY <1>1 DEF Read
    <2>3. ~Passed(line) => tag = "trap" /\ s \notin Benign
      BY <2>1, UncoveredReads
    <2>4. /\ owed' \in [Roles -> Int]
          /\ \A r \in Roles :
               owed'[r] - owed[r] = IF tag = "trap" /\ s \notin Benign /\ RoleOf[s] = r
                                    THEN 1 ELSE 0
      BY <1>1 DEF Read, OwedInv
    <2>5. ASSUME NEW r \in Roles
          PROVE  Cardinality(Charges(queue', r)) - Cardinality(Charges(queue, r))
                   = IF ~Passed(line) /\ RoleOf[s] = r THEN 1 ELSE 0
      <3>1. Cardinality(Charges(queue, r)) \in Nat
        BY <2>1, ChargesFinite
      <3>2. Cardinality(Charges(queue', r)) = Cardinality(Charges(queue, r))
              + IF ~Passed(line) /\ line.session_user = r THEN 1 ELSE 0
        BY <2>1, <2>2, ChargesAppend
      <3>3. line.session_user = RoleOf[s]
        OBVIOUS
      <3> HIDE DEF line
      <3>4. QED
        BY <3>1, <3>2, <3>3
    <2>6. UNCHANGED <<login, cfg>> /\ \A r \in Roles : InAnswer(r)' <= InAnswer(r)
      BY <1>1 DEF Read, InAnswer, dbVars
    <2> HIDE DEF line
    <2>7. \A r \in Roles :
            Cardinality(Charges(queue', r)) - Cardinality(Charges(queue, r))
              <= owed'[r] - owed[r]
      BY <2>3, <2>4, <2>5
    <2>8. QED
      BY <2>4, <2>6, <2>7, OwedMore
  <1>2. ASSUME WorkerBeat PROVE OwedInv'
    <2> DEFINE line == [event |-> "heartbeat", tag |-> None]
    <2>1. line \in Lines /\ queue \in Seq(Lines) /\ Passed(line)
      BY DEF BeatLine, Lines, IInv, LineInv, Passed, IsHeartbeat
    <2>2. queue' = Append(queue, line)
      BY <1>2 DEF WorkerBeat
    <2> HIDE DEF line
    <2>3. \A r \in Roles : /\ Cardinality(Charges(queue, r)) \in Nat
                           /\ Cardinality(Charges(queue', r)) = Cardinality(Charges(queue, r))
      BY <2>1, <2>2, ChargesAppend, ChargesFinite
    <2>4. /\ UNCHANGED <<login, cfg, owed>>
          /\ \A r \in Roles : InAnswer(r)' <= InAnswer(r)
      BY <1>2 DEF WorkerBeat, InAnswer, dbVars, historyVars
    <2>5. \A r \in Roles :
            Cardinality(Charges(queue', r)) - Cardinality(Charges(queue, r))
              <= owed'[r] - owed[r]
      BY <2>3, <2>4 DEF OwedInv
    <2>6. QED
      BY <2>4, <2>5, OwedMore DEF OwedInv
  <1>3. QED
    BY <1>1, <1>2

LEMMA OwedStep == IInv /\ IInv' /\ OwedInv /\ [Next]_vars => OwedInv'
  <1> SUFFICES ASSUME IInv, IInv', OwedInv, [Next]_vars PROVE OwedInv'
    OBVIOUS
  <1> USE DEF dbVars, monitorVars, boundVars, historyVars
  <1>t. /\ queue \in Seq(Lines)
        /\ pc # "idle" => event.session_user \in Roles
        /\ login \in [Roles -> BOOLEAN]
    BY DEF IInv, TypeInv, LineInv, Lines, ReadLine
  <1>q. ASSUME UNCHANGED <<login, cfg, queue, owed>>,
               \A r \in Roles : InAnswer(r)' <= InAnswer(r)
        PROVE  OwedInv'
    <2>1. \A r \in Roles : /\ Cardinality(Charges(queue, r)) \in Nat
                           /\ owed[r] \in Int
      BY <1>t, <1>q, ChargesFinite DEF OwedInv
    <2>2. \A r \in Roles :
            Cardinality(Charges(queue', r)) - Cardinality(Charges(queue, r))
              <= owed'[r] - owed[r]
      BY <1>q, <2>1
    <2>3. owed' \in [Roles -> Int]
      BY <1>q DEF OwedInv
    <2>4. QED
      BY <1>q, <2>2, <2>3, OwedMore
  <1>r. ASSUME RevokeLogin, pc = "nologin", UNCHANGED <<cfg, queue>>,
               pc' \notin {"connect", "nologin"}
        PROVE  OwedInv'
    <2>1. /\ owed' \in [Roles -> Int]
          /\ \A r \in Roles : owed'[r] = owed[r] - InAnswer(r) /\ InAnswer(r)' = 0
      BY <1>r, <1>t DEF RevokeLogin, OwedInv, InAnswer
    <2>2. \A r \in Roles : /\ Cardinality(Charges(queue, r)) \in Nat
                           /\ owed[r] \in Int /\ InAnswer(r) \in {0, 1}
      BY <1>t, ChargesFinite DEF OwedInv, InAnswer
    <2>3. \A r \in Roles : Cardinality(Charges(queue', r)) + InAnswer(r)' <= owed'[r]
      BY <1>r, <2>1, <2>2 DEF OwedInv
    <2>4. \A r \in Roles : ~login'[r] => ~cfg'.dry_run
      BY <1>r DEF IInv, TypeInv
    <2>5. QED
      BY <2>1, <2>3, <2>4 DEF OwedInv
  <1>1. CASE UNCHANGED vars
    BY <1>1, <1>q DEF vars, InAnswer
  <1>2. ASSUME NEW s \in Sessions,
               Authenticate(s) \/ Appear(s) \/ Leave(s) \/ Die(s)
        PROVE  OwedInv'
    BY <1>2, <1>q DEF Authenticate, Appear, Leave, Die, Gone, InAnswer
  <1>3. CASE (\E s \in Sessions, tag \in {"trap", "heartbeat"} : Read(s, tag)) \/ WorkerBeat
    BY <1>3, OwedReads
  <1>4. ASSUME NEW r \in Roles, Reinstate(r) PROVE OwedInv'
    BY <1>4 DEF Reinstate, OwedInv, InAnswer, IInv, TypeInv
  <1>5. CASE Pass \/ Respond
    <2>1. ASSUME NEW r \in Roles
          PROVE  /\ Cardinality(Charges(queue, r)) \in Nat
                 /\ Cardinality(Charges(queue', r)) \in Nat
                 /\ Cardinality(Charges(queue', r))
                      + (IF ~Passed(Head(queue)) /\ Head(queue).session_user = r
                         THEN 1 ELSE 0)
                    <= Cardinality(Charges(queue, r))
      <3>1. queue # <<>> /\ queue' = Tail(queue) /\ queue' \in Seq(Lines)
        BY <1>5, <1>t DEF Pass, Respond
      <3>2. QED
        BY <1>t, <3>1, ChargesTail, ChargesFinite
    <2>2. ASSUME NEW r \in Roles
          PROVE  /\ InAnswer(r) = 0
                 /\ InAnswer(r)' <= IF ~Passed(Head(queue)) /\ Head(queue).session_user = r
                                    THEN 1 ELSE 0
                 /\ InAnswer(r)' \in {0, 1}
      BY <1>5 DEF Pass, Respond, InAnswer
    <2>3. /\ UNCHANGED <<login, cfg, owed>> /\ owed \in [Roles -> Int]
          /\ \A r \in Roles : Cardinality(Charges(queue, r)) + InAnswer(r) <= owed[r]
      BY <1>5 DEF Pass, Respond, OwedInv
    <2>4. \A r \in Roles : Cardinality(Charges(queue', r)) + InAnswer(r)' <= owed'[r]
      BY <2>1, <2>2, <2>3
    <2>5. QED
      BY <2>3, <2>4 DEF OwedInv
  <1>6. CASE Connect
    BY <1>6, <1>q DEF Connect, EndResponse, InAnswer
  <1>7. CASE NoLogin
    BY <1>7, <1>r DEF NoLogin
  <1>8. CASE Terminate
    BY <1>8, <1>q DEF Terminate, EndResponse, InAnswer, Completed
  <1>9. CASE ResponseFails
    BY <1>9, <1>q, <1>r DEF ResponseFails, EndResponse, InAnswer, Fault
  <1>10. CASE ResponseHangs
    BY <1>10, <1>q DEF ResponseHangs, InAnswer, Fault
  <1>11. CASE Crash
    <2>1. ASSUME NEW r \in Roles
          PROVE  /\ Cardinality(Charges(queue, r)) \in Nat
                 /\ Cardinality(Charges(queue', r)) = 0
      <3>1. Charges(queue', r) = {}
        BY <1>11 DEF Crash, Charges
      <3>2. QED
        BY <1>t, <3>1, ChargesFinite, FS_EmptySet
    <2>2. UNCHANGED <<login, cfg, owed>> /\ \A r \in Roles : InAnswer(r)' <= InAnswer(r)
      BY <1>11 DEF Crash, EndResponse, InAnswer, Fault
    <2>3. \A r \in Roles :
            Cardinality(Charges(queue', r)) - Cardinality(Charges(queue, r))
              <= owed'[r] - owed[r]
      BY <2>1, <2>2 DEF OwedInv
    <2>4. QED
      BY <2>2, <2>3, OwedMore DEF OwedInv
  <1>12. QED
    BY <1>1, <1>2, <1>3, <1>4, <1>5, <1>6, <1>7, <1>8, <1>9, <1>10, <1>11
       DEF Next, Monitor

\* No role loses its login more often than it has read a trap outside the
\* rules, and none in a dry run, for any queue of events, any rules, restarts
\* and failed responses (alert_monitor.py:153-158, 265-289).
THEOREM LoginsAreOwed == Spec => []LoginsTakenAreOwed
  <1>1. Init => IInv /\ OwedInv
    BY InvInit, OwedInit
  <1>2. IInv /\ OwedInv /\ [Next]_vars => (IInv /\ OwedInv)'
    BY InvStep, OwedStep
  <1>3. IInv /\ OwedInv => LoginsTakenAreOwed
    <2> SUFFICES ASSUME IInv, OwedInv, NEW r \in Roles
                 PROVE  owed[r] \in Nat /\ (~login[r] => ~cfg.dry_run)
      BY DEF LoginsTakenAreOwed
    <2>1. Cardinality(Charges(queue, r)) \in Nat
      BY ChargesFinite DEF IInv, LineInv, Lines
    <2>2. InAnswer(r) \in {0, 1} /\ owed[r] \in Int
          /\ Cardinality(Charges(queue, r)) + InAnswer(r) <= owed[r]
      BY DEF OwedInv, InAnswer
    <2>3. QED
      BY <2>1, <2>2 DEF OwedInv
  <1>4. QED
    BY <1>1, <1>2, <1>3, PTL DEF Spec
=============================================================================
