------------------------------ MODULE Response ------------------------------
(***************************************************************************)
(* What src/tools/alert_monitor.py does about an event: the suppression    *)
(* rules of main, respond, post_webhook and revoke_and_terminate, one      *)
(* event after another, against the sessions that meanwhile log in, read   *)
(* honey values and leave.  The primary is external: a login checks        *)
(* rolcanlogin first and shows in pg_stat_activity later; SIGTERM takes    *)
(* effect later than pg_terminate_backend.  The tail is AlertMonitor's.    *)
(***************************************************************************)
EXTENDS Naturals, Sequences

CONSTANTS
  Roles, Sessions,
  RoleOf, AddrOf,  \* of each session
  Rules,           \* cfg.suppressions: the fields a rule lists, with their values
  Benign,          \* sessions that a rule is written for
  MonitorRole,     \* whom primary_dsn connects as
  Settings,        \* of the monitor to start from
  Faults,          \* a subset of FaultKinds
  MaxReads, MaxFaults, MaxReinstates,  \* bounds
  None

\* A statement or the connection fails; it never returns (no timeout is set);
\* the monitor is killed and started again.
FaultKinds == {"error", "hang", "crash"}

ASSUME ResponseFaultsAssumption == Faults \subseteq FaultKinds
ASSUME SessionsAssumption ==
  RoleOf \in [Sessions -> Roles] /\ Benign \subseteq Sessions /\ MonitorRole \in Roles

\* A rule names the role, the address or both.
ASSUME BenignAssumption ==
  \A s \in Benign : \E rule \in Rules :
    /\ DOMAIN rule # {} /\ DOMAIN rule \subseteq {"session_user", "client_addr"}
    /\ "session_user" \in DOMAIN rule => rule["session_user"] = RoleOf[s]
    /\ "client_addr" \in DOMAIN rule => rule["client_addr"] = AddrOf[s]

\* What the trap logs of a read, as far as it matters here.
ReadLine == [event : {"read"}, session_user : Roles,
             client_addr : {AddrOf[s] : s \in Sessions},
             tag : {"trap", "heartbeat"}, pid : Sessions]

ASSUME NoneAssumption == None \notin ReadLine

VARIABLES
  \* The primary
  login,       \* rolcanlogin
  phase,       \* of a session: none, auth, live (in pg_stat_activity), killed
  \* The monitor
  cfg,         \* dry_run, primary_dsn
  queue,       \* lines that main has not read yet
  pc, event,   \* where it is, and the event it answers
  reads, faults, reinstates,
  \* History
  offence,     \* of a session: none, due (it read a trap), excused (a fault since)
  owed,        \* of a role: its offences, less the times it lost its login
  answered,    \* roles whose last response is complete
  spared       \* sessions that were logging in when the response came to them

historyVars == <<offence, owed, answered, spared>>
dbVars == <<login, phase>>
monitorVars == <<queue, pc, event>>
boundVars == <<reads, faults, reinstates>>
vars == <<dbVars, cfg, monitorVars, boundVars, historyVars>>

Init ==
  /\ login = [r \in Roles |-> TRUE] /\ phase = [s \in Sessions |-> "none"]
  /\ cfg \in Settings
  /\ queue = <<>> /\ pc = "idle" /\ event = None
  /\ reads = 0 /\ faults = 0 /\ reinstates = 0
  /\ offence = [s \in Sessions |-> "none"] /\ owed = [r \in Roles |-> 0]
  /\ answered = {} /\ spared = {}

-----------------------------------------------------------------------------
(* Sessions, and the operator (external). *)

\* The login is checked before the session can be seen.
Authenticate(s) ==
  /\ phase[s] = "none" /\ login[RoleOf[s]]
  /\ phase' = [phase EXCEPT ![s] = "auth"]
  /\ UNCHANGED <<login, cfg, monitorVars, boundVars, historyVars>>

Appear(s) ==
  /\ phase[s] = "auth"
  /\ phase' = [phase EXCEPT ![s] = "live"]
  /\ UNCHANGED <<login, cfg, monitorVars, boundVars, historyVars>>

\* A session reads a trap, or a heartbeat row as the poker does.
Read(s, tag) ==
  /\ phase[s] = "live" /\ reads < MaxReads
  /\ reads' = reads + 1
  /\ queue' = Append(queue, [event |-> "read", session_user |-> RoleOf[s],
                             client_addr |-> AddrOf[s], tag |-> tag, pid |-> s])
  /\ IF tag = "trap" /\ s \notin Benign
     THEN /\ offence' = [offence EXCEPT ![s] = "due"]
          /\ owed' = [owed EXCEPT ![RoleOf[s]] = @ + 1]
     ELSE UNCHANGED <<offence, owed>>
  /\ UNCHANGED <<dbVars, cfg, pc, event, faults, reinstates, answered, spared>>

\* The background worker logs a heartbeat, which names nobody.
WorkerBeat ==
  /\ reads < MaxReads /\ reads' = reads + 1
  /\ queue' = Append(queue, [event |-> "heartbeat", tag |-> None])
  /\ UNCHANGED <<dbVars, cfg, pc, event, faults, reinstates, historyVars>>

Gone(s) ==
  /\ phase' = [phase EXCEPT ![s] = "none"]
  /\ offence' = [offence EXCEPT ![s] = "none"]
  /\ spared' = spared \ {s}
  /\ UNCHANGED <<login, cfg, monitorVars, boundVars, owed, answered>>

Leave(s) == phase[s] = "live" /\ Gone(s)
Die(s) == phase[s] = "killed" /\ Gone(s)

\* The operator gives a role its login back.
Reinstate(r) ==
  /\ ~login[r] /\ reinstates < MaxReinstates /\ reinstates' = reinstates + 1
  /\ login' = [login EXCEPT ![r] = TRUE]
  /\ answered' = answered \ {r}
  /\ UNCHANGED <<phase, cfg, monitorVars, reads, faults, offence, owed, spared>>

-----------------------------------------------------------------------------
(* main: what it answers. *)

\* A rule holds when any of its fields does.
Matches_AnyField(rule, e) ==
  \E k \in DOMAIN rule : k \in DOMAIN e /\ e[k] = rule[k]

\* Suppression.matches: all fields that are set, and one at least.
Matches(rule, e) ==
  /\ DOMAIN rule # {}
  /\ \A k \in DOMAIN rule : k \in DOMAIN e /\ e[k] = rule[k]

\* The tag prefix of external pokers is not looked at.
IsHeartbeat_EventOnly(e) == e.event = "heartbeat"

\* is_heartbeat.
IsHeartbeat(e) == e.event = "heartbeat" \/ e.tag = "heartbeat"

Passed(e) == IsHeartbeat(e) \/ \E rule \in Rules : Matches(rule, e)

Pass ==
  /\ pc = "idle" /\ queue # <<>> /\ Passed(Head(queue))
  /\ queue' = Tail(queue)
  /\ UNCHANGED <<dbVars, cfg, pc, event, boundVars, historyVars>>

\* A missing primary_dsn is not noticed.
Armed_NoDsn == ~cfg.dry_run

Armed == ~cfg.dry_run /\ cfg.primary_dsn

\* respond: the webhook is posted, fails or times out, which makes no
\* difference; revoke_and_terminate may return at once.
Respond ==
  /\ pc = "idle" /\ queue # <<>> /\ ~Passed(Head(queue))
  /\ queue' = Tail(queue)
  /\ IF Armed THEN pc' = "connect" /\ event' = Head(queue)
     ELSE UNCHANGED <<pc, event>>
  /\ UNCHANGED <<dbVars, cfg, boundVars, historyVars>>

-----------------------------------------------------------------------------
(* revoke_and_terminate. *)

Excused(due) == [s \in Sessions |-> IF due[s] = "due" THEN "excused" ELSE due[s]]

EndResponse == pc' = "idle" /\ event' = None

\* A monitor without a login is like one whose connection fails.
Connect ==
  /\ pc = "connect"
  /\ IF login[MonitorRole] THEN pc' = "nologin" /\ UNCHANGED <<event, offence>>
     ELSE EndResponse /\ offence' = Excused(offence)
  /\ UNCHANGED <<dbVars, cfg, queue, boundVars, owed, answered, spared>>

RevokeLogin ==
  /\ login' = [login EXCEPT ![event.session_user] = FALSE]
  /\ owed' = [owed EXCEPT ![event.session_user] = @ - 1]

\* ALTER ROLE ... NOLOGIN, committed by itself.
NoLogin ==
  /\ pc = "nologin"
  /\ RevokeLogin /\ pc' = "terminate"
  /\ UNCHANGED <<phase, cfg, queue, event, boundVars, offence, answered, spared>>

\* Sessions that are terminated have had their answer.
Kill(victims) ==
  /\ phase' = [s \in Sessions |-> IF s \in victims THEN "killed" ELSE phase[s]]
  /\ offence' = [s \in Sessions |-> IF s \in victims THEN "none" ELSE offence[s]]

\* The role's sessions in some phase.
SessionsIn(p) == {s \in Sessions : phase[s] = p /\ RoleOf[s] = event.session_user}

\* Not if the operator reinstated the role meanwhile.
Completed ==
  IF login[event.session_user] THEN UNCHANGED <<answered, spared>>
  ELSE /\ answered' = answered \cup {event.session_user}
       /\ spared' = spared \cup SessionsIn("auth")

\* Only the session that read the value is terminated.
Terminate_OnlyReader ==
  /\ pc = "terminate"
  /\ Kill({event.pid} \cap SessionsIn("live")) /\ Completed
  /\ EndResponse
  /\ UNCHANGED <<login, cfg, queue, boundVars, owed>>

\* pg_terminate_backend for every row of pg_stat_activity with the role's
\* name.  If that is the monitor's own role, its session is among them, and
\* the query may end there.
Terminate ==
  /\ pc = "terminate"
  /\ IF event.session_user # MonitorRole
     THEN Kill(SessionsIn("live")) /\ Completed
     ELSE (\E some \in SUBSET SessionsIn("live") : Kill(some)) /\ UNCHANGED <<answered, spared>>
  /\ EndResponse
  /\ UNCHANGED <<login, cfg, queue, boundVars, owed>>

-----------------------------------------------------------------------------
(* Faults. *)

Fault(kind) ==
  /\ kind \in Faults /\ faults < MaxFaults /\ faults' = faults + 1
  /\ UNCHANGED <<cfg, reads, reinstates, answered, spared>>

InResponse == pc \in {"connect", "nologin", "terminate"}

\* The connection or a statement raises, before or after it took effect; the
\* error is logged and the event is done with.
ResponseFails ==
  /\ InResponse /\ Fault("error")
  /\ \/ UNCHANGED <<login, phase, owed>>
     \/ pc = "nologin" /\ RevokeLogin /\ UNCHANGED phase
     \/ /\ pc = "terminate" /\ UNCHANGED <<login, owed>>
        /\ \E some \in SUBSET SessionsIn("live") :
             phase' = [s \in Sessions |-> IF s \in some THEN "killed" ELSE phase[s]]
  /\ offence' = Excused(offence)
  /\ EndResponse /\ UNCHANGED queue

\* psycopg2 waits without a limit.
ResponseHangs ==
  /\ InResponse /\ Fault("hang")
  /\ pc' = "hung" /\ offence' = Excused(offence)
  /\ UNCHANGED <<dbVars, owed, queue, event>>

\* The monitor starts over at the end of the file.
Crash ==
  /\ Fault("crash")
  /\ EndResponse /\ queue' = <<>> /\ offence' = Excused(offence)
  /\ UNCHANGED <<dbVars, owed>>

-----------------------------------------------------------------------------

Monitor == Pass \/ Respond \/ Connect \/ NoLogin \/ Terminate

Next ==
  \/ \E s \in Sessions :
       \/ Authenticate(s) \/ Appear(s) \/ Leave(s) \/ Die(s)
       \/ \E tag \in {"trap", "heartbeat"} : Read(s, tag)
  \/ WorkerBeat
  \/ \E r \in Roles : Reinstate(r)
  \/ Monitor
  \/ ResponseFails \/ ResponseHangs \/ Crash

Spec == Init /\ [][Next]_vars

\* The monitor's loop runs on; nothing is assumed of the sessions.
FairSpec == Spec /\ WF_vars(Monitor)

-----------------------------------------------------------------------------
(* Properties. *)

\* A monitor that is not to act, or has nothing to connect to, does not get as
\* far as a connection (alert_monitor.py:153-166).
TypeOK ==
  /\ login \in [Roles -> BOOLEAN]
  /\ phase \in [Sessions -> {"none", "auth", "live", "killed"}]
  /\ cfg \in Settings
  /\ pc \in {"idle", "connect", "nologin", "terminate", "hung"}
  /\ (event = None) = (pc = "idle")
  /\ pc # "idle" => ~cfg.dry_run /\ cfg.primary_dsn
  /\ offence \in [Sessions -> {"none", "due", "excused"}]
  /\ answered \subseteq Roles /\ spared \subseteq Sessions

\* A response that was not disturbed "revokes login and terminates the
\* offending role's sessions" (README.md:461-462): afterwards the role has no
\* session, on any address, but those that were between their login check and
\* pg_stat_activity at that moment, and it gets no new ones: NOLOGIN is
\* committed before the sessions are listed (alert_monitor.py:177-187).
AnsweredRolesAreOut ==
  \A s \in Sessions :
    RoleOf[s] \in answered =>
      /\ ~login[RoleOf[s]]
      /\ phase[s] \in {"auth", "live"} => s \in spared

\* A session that reads a trap is terminated or leaves: if it slipped through
\* an earlier response, if its role was answered before and reinstated, if a
\* rule covers its role but not its address, and if the response to an earlier
\* read failed half way, for the next read is answered afresh
\* (alert_monitor.py:49-60, 152-196, 274-289).  Not so after a fault that comes
\* later than the read (a monitor that took the login from its own role is one)
\* and not while the monitor hangs or is not to act.
ReadersAreCutOff ==
  \A s \in Sessions :
    offence[s] = "due" /\ RoleOf[s] # MonitorRole ~>
      offence[s] # "due" \/ ~Armed \/ pc = "hung"

\* A role loses its login for a trap that it read outside the suppression
\* rules, once for each at most, also after it was reinstated; never for a
\* heartbeat, a suppressed read, or in a dry run (alert_monitor.py:153-158,
\* 265-289).
LoginsTakenAreOwed ==
  \A r \in Roles : owed[r] \in Nat /\ (~login[r] => ~cfg.dry_run)
=============================================================================
