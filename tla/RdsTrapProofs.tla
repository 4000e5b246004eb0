--------------------------- MODULE RdsTrapProofs ---------------------------
(***************************************************************************)
(* Proofs about RdsTrap: type correctness, and that every event went to    *)
(* the sinks that the settings of its statement name.  The argument: a     *)
(* statement under way has an event of its own, that no other statement    *)
(* and no earlier one shares; the place where the statement stands says    *)
(* which sinks already have that event; and the settings recorded for it   *)
(* are those of its snapshot, which nothing changes until it returns.      *)
(***************************************************************************)
EXTENDS RdsTrap, TLAPS

-----------------------------------------------------------------------------
(* The inductive invariant. *)

\* TypeOK, without what relates the sets of events.
OwnerInv ==
  /\ env \in Environments /\ config \in Config /\ changes \in 0..MaxChanges

SessionInv ==
  /\ pc \in [Sessions -> {"idle", "enter", "raise", "invoke"}]
  /\ reads \in [Sessions -> 0..MaxReads]
  /\ snapshot \in [Sessions -> Config]
  /\ kind \in [Sessions -> Kinds]

\* Every event is of a read that was done, and has its settings.
EventInv ==
  /\ DOMAIN settings \subseteq Event
  /\ \A e \in DOMAIN settings : e.number <= reads[e.session]
  /\ pglog \cup accepted \cup failed \cup returned \subseteq DOMAIN settings

Run == [event : accepted, attempt : 1..MaxAttempts, step : {"due", "publish"}]

\* A run that is about to publish has logged its event.
LambdaInv ==
  /\ queue \subseteq Run
  /\ logged \cup published \cup discarded \subseteq accepted
  /\ \A run \in queue : run.step = "publish" => run.event \in logged
  /\ published \subseteq IF env.topic THEN logged ELSE {}

\* A statement under way: its event is one of those with settings, namely the
\* settings of its snapshot; it has not returned, and nothing was invoked.
Open(s) ==
  /\ Current(s) \in DOMAIN settings
  /\ settings[Current(s)] = snapshot[s]
  /\ Current(s) \notin returned \cup accepted \cup failed

\* Where the statement stands says what the server log has.
Stands(s) ==
  /\ pc[s] \in {"enter", "raise"} => Current(s) \notin pglog
  /\ pc[s] = "raise" => snapshot[s].enabled /\ Level(s) # "off"
  /\ pc[s] = "invoke" =>
       /\ snapshot[s].enabled /\ snapshot[s].arn
       /\ Current(s) \in pglog <=> Level(s) = "log"

StatementInv == \A s \in Sessions : pc[s] # "idle" => Open(s) /\ Stands(s)

\* The first half of EachSinkAsConfigured, for one event.
AsConfigured(e) ==
  /\ e \in pglog <=> settings[e].enabled /\ settings[e].level[e.kind] = "log"
  /\ e \in accepted \cup failed <=> settings[e].enabled /\ settings[e].arn

ReturnedInv == \A e \in returned : AsConfigured(e)

RdsInv ==
  /\ OwnerInv /\ SessionInv /\ EventInv /\ LambdaInv /\ StatementInv /\ ReturnedInv

-----------------------------------------------------------------------------
(* The initial states. *)

LEMMA RdsInit == Init => RdsInv
<1> SUFFICES ASSUME Init PROVE RdsInv
  OBVIOUS
<1> USE DEF Init
<1>1. OwnerInv
  BY RdsBoundsAssumption DEF OwnerInv
<1>2. SessionInv
  BY RdsBoundsAssumption DEF SessionInv
<1>3. EventInv
  BY DEF EventInv
<1>4. LambdaInv
  BY DEF LambdaInv
<1>5. StatementInv
  BY DEF StatementInv
<1>6. ReturnedInv
  BY DEF ReturnedInv
<1>7. QED
  BY <1>1, <1>2, <1>3, <1>4, <1>5, <1>6 DEF RdsInv

-----------------------------------------------------------------------------
(* A session's step leaves the statements of the other sessions alone. *)

\* A step of session s: it moves that session only, adds no event but that of
\* the session to the sinks, and settings of events are never changed.
OnlyBy(s) ==
  /\ \A t \in Sessions \ {s} :
       pc'[t] = pc[t] /\ reads'[t] = reads[t] /\ snapshot'[t] = snapshot[t]
  /\ kind' = kind
  /\ \A e \in DOMAIN settings : e \in DOMAIN settings' /\ settings'[e] = settings[e]
  /\ pglog' \in {pglog, pglog \cup {Current(s)}}
  /\ accepted' \in {accepted, accepted \cup {Current(s)}}
  /\ failed' \in {failed, failed \cup {Current(s)}}
  /\ returned' \in {returned, returned \cup {Current(s)}}

\* What holds of another session's statement holds after the step.
LEMMA Elsewhere ==
  ASSUME NEW s \in Sessions, NEW t \in Sessions \ {s}, OnlyBy(s),
         pc[t] # "idle" => Open(t) /\ Stands(t)
  PROVE  pc'[t] # "idle" => Open(t)' /\ Stands(t)'
<1> SUFFICES ASSUME pc'[t] # "idle" PROVE Open(t)' /\ Stands(t)'
  OBVIOUS
<1>1. pc[t] # "idle" /\ Open(t) /\ Stands(t)
  BY DEF OnlyBy
<1>2. Current(t)' = Current(t)
  BY DEF OnlyBy, Current
<1>3. Current(t) # Current(s)
  BY DEF Current
<1>4. Level(t)' = Level(t)
  BY DEF OnlyBy, Level
<1>5. Open(t)'
  BY <1>1, <1>2, <1>3 DEF OnlyBy, Open
<1>6. Current(t) \in pglog' <=> Current(t) \in pglog
  BY <1>3 DEF OnlyBy
<1>7. Stands(t)'
  BY <1>1, <1>2, <1>4, <1>6 DEF OnlyBy, Stands
<1>8. QED
  BY <1>5, <1>7

\* An event that has returned keeps its sinks.
LEMMA ReturnedKept ==
  ASSUME NEW s \in Sessions, OnlyBy(s), EventInv, ReturnedInv,
         Current(s) \notin returned
  PROVE  \A e \in returned : AsConfigured(e)'
<1> TAKE e \in returned
<1>1. AsConfigured(e) /\ e # Current(s) /\ e \in DOMAIN settings
  BY DEF ReturnedInv, EventInv
<1>2. settings'[e] = settings[e]
  BY <1>1 DEF OnlyBy
<1>3. /\ e \in pglog' <=> e \in pglog
      /\ e \in accepted' <=> e \in accepted
      /\ e \in failed' <=> e \in failed
  BY <1>1 DEF OnlyBy
<1>4. QED
  BY <1>1, <1>2, <1>3 DEF AsConfigured

-----------------------------------------------------------------------------
(* The owner. *)

LEMMA ConfigureStep == RdsInv /\ Configure => RdsInv'
<1> SUFFICES ASSUME RdsInv, Configure PROVE RdsInv'
  OBVIOUS
<1>1. /\ UNCHANGED <<env, pc, reads, snapshot, kind, pglog, accepted>>
      /\ UNCHANGED <<queue, logged, published, discarded, settings, returned, failed>>
  BY DEF Configure, sessionVars, lambdaVars, historyVars
<1>2. OwnerInv'
  <2>1. config' \in Config
    <3>1. config \in Config /\ config.level \in [Kinds -> Levels]
      BY DEF RdsInv, OwnerInv, Config
    <3>2. CASE config' = [config EXCEPT !.enabled = ~@]
      BY <3>1, <3>2 DEF Config
    <3>3. CASE config' = [config EXCEPT !.arn = ~@]
      BY <3>1, <3>3 DEF Config
    <3>4. ASSUME NEW k \in Kinds, NEW l \in Levels,
                 config' = [config EXCEPT !.level = [config.level EXCEPT ![k] = l]]
          PROVE  config' \in Config
      <4>1. [config.level EXCEPT ![k] = l] \in [Kinds -> Levels]
        BY <3>1
      <4>2. QED
        BY <3>1, <3>4, <4>1 DEF Config
    <3>5. QED
      BY <3>2, <3>3, <3>4 DEF Configure
  <2>2. changes' \in 0..MaxChanges
    BY RdsBoundsAssumption DEF RdsInv, OwnerInv, Configure
  <2>3. QED
    BY <1>1, <2>1, <2>2 DEF RdsInv, OwnerInv
<1>3. SessionInv' /\ EventInv'
  BY <1>1 DEF RdsInv, SessionInv, EventInv
<1>4. LambdaInv'
  BY <1>1 DEF RdsInv, LambdaInv, Run
<1>5. StatementInv' /\ ReturnedInv'
  BY <1>1 DEF RdsInv, StatementInv, ReturnedInv, Open, Stands, AsConfigured, Current,
              Level
<1>6. QED
  BY <1>2, <1>3, <1>4, <1>5 DEF RdsInv

-----------------------------------------------------------------------------
(* The steps of a session. *)

\* A statement begins: its event is new, so no sink has it.
LEMMA SelectStep == ASSUME RdsInv, NEW s \in Sessions, Select(s) PROVE RdsInv'
<1> DEFINE c == Current(s)'
<1>1. /\ UNCHANGED <<env, config, changes, kind, pglog, accepted, returned, failed>>
      /\ UNCHANGED <<queue, logged, published, discarded>>
  BY DEF Select, lambdaVars
<1>2. OwnerInv'
  BY <1>1 DEF RdsInv, OwnerInv
<1>3. SessionInv'
  BY <1>1, RdsBoundsAssumption DEF RdsInv, OwnerInv, SessionInv, Select
<1>4. LambdaInv'
  BY <1>1 DEF RdsInv, LambdaInv, Run
<1>5. PICK n \in 0..MaxReads : n = reads[s]
  BY DEF RdsInv, SessionInv
<1>6. n \in Nat /\ n + 1 \in 1..MaxReads /\ reads'[s] = n + 1
  BY <1>5, RdsBoundsAssumption DEF RdsInv, SessionInv, Select
<1>7. c = [session |-> s, number |-> n + 1, kind |-> kind[s]]
  BY <1>1, <1>6 DEF Current
<1>8. c \in Event
  BY <1>6, <1>7 DEF RdsInv, SessionInv, Event
<1>9. c \notin DOMAIN settings
  <2> SUFFICES ASSUME c \in DOMAIN settings PROVE FALSE
    OBVIOUS
  <2>1. c.number <= reads[c.session]
    BY DEF RdsInv, EventInv
  <2>2. n + 1 <= n
    BY <1>5, <1>7, <2>1
  <2>3. QED
    BY <1>6, <2>2
<1>10. /\ DOMAIN settings' = DOMAIN settings \cup {c}
       /\ \A e \in DOMAIN settings : settings'[e] = settings[e]
       /\ settings'[c] = config
  BY <1>9 DEF Select
<1>11. EventInv'
  <2>1. DOMAIN settings' \subseteq Event
    BY <1>8, <1>10 DEF RdsInv, EventInv
  <2>2. ASSUME NEW e \in DOMAIN settings' PROVE e.number <= reads'[e.session]
    <3>1. CASE e = c
      BY <1>6, <1>7, <3>1
    <3>2. CASE e \in DOMAIN settings
      <4>1. e \in Event /\ e.number <= reads[e.session]
        BY <3>2 DEF RdsInv, EventInv
      <4>2. CASE e.session = s
        BY <1>5, <1>6, <4>1, <4>2, RdsBoundsAssumption DEF Event
      <4>3. CASE e.session # s
        BY <4>1, <4>3 DEF RdsInv, SessionInv, Select, Event
      <4>4. QED
        BY <4>2, <4>3
    <3>3. QED
      BY <1>10, <3>1, <3>2
  <2>3. QED
    BY <1>1, <1>10, <2>1, <2>2 DEF RdsInv, EventInv
<1>12. OnlyBy(s)
  <2>1. \A t \in Sessions \ {s} :
          pc'[t] = pc[t] /\ reads'[t] = reads[t] /\ snapshot'[t] = snapshot[t]
    BY DEF RdsInv, SessionInv, Select
  <2>2. QED
    BY <1>1, <1>10, <2>1 DEF OnlyBy
<1>13. StatementInv'
  <2> SUFFICES ASSUME NEW t \in Sessions, pc'[t] # "idle" PROVE Open(t)' /\ Stands(t)'
    BY DEF StatementInv
  <2>1. CASE t = s
    <3>1. pc'[s] = "enter" /\ snapshot'[s] = config
      BY DEF RdsInv, SessionInv, Select
    <3>2. c \notin pglog' \cup accepted' \cup failed' \cup returned'
      BY <1>1, <1>9 DEF RdsInv, EventInv
    <3>3. Open(s)'
      BY <1>10, <3>1, <3>2 DEF Open
    <3>4. Stands(s)'
      BY <3>1, <3>2 DEF Stands
    <3>5. QED
      BY <2>1, <3>3, <3>4
  <2>2. CASE t # s
    BY <1>12, <2>2, Elsewhere DEF RdsInv, StatementInv
  <2>3. QED
    BY <2>1, <2>2
<1>14. ReturnedInv'
  <2> SUFFICES ASSUME NEW e \in returned PROVE AsConfigured(e)'
    BY <1>1 DEF ReturnedInv
  <2>1. AsConfigured(e) /\ settings'[e] = settings[e]
    BY <1>10 DEF RdsInv, ReturnedInv, EventInv
  <2>2. QED
    BY <1>1, <2>1 DEF AsConfigured
<1>15. QED
  BY <1>2, <1>3, <1>4, <1>11, <1>13, <1>14 DEF RdsInv

\* A step of session s that is under way, as far as the invariant reads it: it
\* starts nothing, and the sets of events grow by the session's own event.
Onward(s) ==
  /\ UNCHANGED <<env, config, changes, reads, snapshot, kind, settings>>
  /\ pc' \in [Sessions -> {"idle", "enter", "raise", "invoke"}]
  /\ \A t \in Sessions \ {s} : pc'[t] = pc[t]
  /\ pglog' \in {pglog, pglog \cup {Current(s)}}
  /\ accepted' \in {accepted, accepted \cup {Current(s)}}
  /\ failed' \in {failed, failed \cup {Current(s)}}
  /\ returned' \in {returned, returned \cup {Current(s)}}

LambdaQuiet == UNCHANGED <<accepted, queue, logged, published, discarded>>

\* Given that, three things are left to show of a step of a statement: the
\* handler's runs, what the session itself is up to, and, if the statement
\* returns, that its event has the right sinks.
LEMMA OnwardStep ==
  ASSUME RdsInv, NEW s \in Sessions, pc[s] # "idle", Onward(s), LambdaInv',
         pc'[s] # "idle" => Open(s)' /\ Stands(s)',
         returned' # returned => AsConfigured(Current(s))'
  PROVE  RdsInv'
<1>1. Open(s)
  BY DEF RdsInv, StatementInv
<1>2. OwnerInv' /\ SessionInv'
  BY DEF RdsInv, OwnerInv, SessionInv, Onward
<1>3. EventInv'
  BY <1>1 DEF RdsInv, EventInv, Onward, Open
<1>4. OnlyBy(s)
  BY DEF OnlyBy, Onward
<1>5. StatementInv'
  <2> SUFFICES ASSUME NEW t \in Sessions, pc'[t] # "idle" PROVE Open(t)' /\ Stands(t)'
    BY DEF StatementInv
  <2>1. CASE t = s
    BY <2>1
  <2>2. CASE t # s
    BY <1>4, <2>2, Elsewhere DEF RdsInv, StatementInv
  <2>3. QED
    BY <2>1, <2>2
<1>6. ReturnedInv'
  <2>1. \A e \in returned : AsConfigured(e)'
    BY <1>1, <1>4, ReturnedKept DEF RdsInv, Open
  <2>2. Current(s)' = Current(s)
    BY DEF Onward, Current
  <2>3. returned' # returned => AsConfigured(Current(s))'
    OBVIOUS
  <2>4. ASSUME NEW e \in returned' PROVE AsConfigured(e)'
    <3>1. CASE e \in returned
      BY <2>1, <3>1
    <3>2. CASE e \notin returned
      <4>1. e = Current(s)'
        BY <2>2, <3>2, <2>4 DEF Onward
      <4>2. AsConfigured(Current(s))'
        BY <2>3, <2>4, <3>2
      <4>3. QED
        BY <2>2, <4>1, <4>2 DEF AsConfigured, Onward
    <3>3. QED
      BY <3>1, <3>2
  <2>5. QED
    BY <2>4 DEF ReturnedInv
<1>7. QED
  BY <1>2, <1>3, <1>5, <1>6 DEF RdsInv

\* The handler's side of a step that invokes nothing.
LEMMA LambdaKept ==
  ASSUME LambdaInv, LambdaQuiet, env' = env PROVE LambdaInv'
BY DEF LambdaInv, LambdaQuiet, Run

\* The handler's side of an invocation.
LEMMA AcceptKept ==
  ASSUME LambdaInv, NEW e, Accept(e), UNCHANGED <<env, logged, published, discarded>>
  PROVE  LambdaInv'
<1> DEFINE first == [event |-> e, attempt |-> 1, step |-> "due"]
<1>1. accepted' = accepted \cup {e} /\ queue' = queue \cup {first}
  BY DEF Accept
<1>2. 1 \in 1..MaxAttempts
  BY RdsBoundsAssumption
<1>3. first \in Run'
  BY <1>1, <1>2 DEF Run
<1>4. queue \subseteq Run'
  BY <1>1 DEF LambdaInv, Run
<1>5. \A run \in queue' : run.step = "publish" => run.event \in logged
  BY <1>1 DEF LambdaInv
<1>6. QED
  BY <1>1, <1>3, <1>4, <1>5 DEF LambdaInv

\* What the invariant says of a statement that is under way.
LEMMA UnderWay ==
  ASSUME RdsInv, NEW s \in Sessions, pc[s] # "idle"
  PROVE  /\ Open(s) /\ Stands(s) /\ LambdaInv
         /\ Current(s).kind = kind[s]
         /\ Current(s) \in pglog => Current(s) \in DOMAIN settings
BY DEF RdsInv, StatementInv, EventInv, Current

LEMMA EnterStep == ASSUME RdsInv, NEW s \in Sessions, Enter(s) PROVE RdsInv'
<1>1. /\ UNCHANGED <<env, config, changes, reads, snapshot, kind, pglog, settings>>
      /\ UNCHANGED failed /\ LambdaQuiet
  BY DEF Enter, lambdaVars, LambdaQuiet
<1>2. pc[s] = "enter" /\ Open(s) /\ Stands(s) /\ LambdaInv /\ Current(s).kind = kind[s]
  BY UnderWay DEF Enter
<1>3. pc' \in [Sessions -> {"idle", "enter", "raise", "invoke"}]
      /\ \A t \in Sessions \ {s} : pc'[t] = pc[t]
  BY DEF RdsInv, SessionInv, Enter, Return
<1>4. Current(s)' = Current(s) /\ Level(s)' = Level(s)
  BY <1>1 DEF Current, Level
<1>5. LambdaInv'
  BY <1>1, <1>2, LambdaKept
<1>6. CASE ~snapshot[s].enabled \/ (Level(s) = "off" /\ ~snapshot[s].arn)
  <2>1. pc'[s] = "idle" /\ returned' = returned \cup {Current(s)}
    BY <1>6 DEF Enter, Return, RdsInv, SessionInv
  <2>2. AsConfigured(Current(s))'
    BY <1>1, <1>2, <1>4, <1>6, <2>1 DEF AsConfigured, Open, Stands, Level, LambdaQuiet
  <2>3. Onward(s)
    BY <1>1, <1>3, <2>1 DEF Onward, LambdaQuiet
  <2>4. QED
    BY <1>2, <1>5, <2>1, <2>2, <2>3, OnwardStep
<1>7. CASE ~(~snapshot[s].enabled \/ (Level(s) = "off" /\ ~snapshot[s].arn))
  <2>1. /\ pc'[s] = IF Level(s) = "off" THEN "invoke" ELSE "raise"
        /\ returned' = returned
    BY <1>7 DEF Enter, RdsInv, SessionInv
  <2>2. Open(s)'
    BY <1>1, <1>2, <1>4, <2>1 DEF Open, LambdaQuiet
  <2>3. Stands(s)'
    BY <1>1, <1>2, <1>4, <1>7, <2>1 DEF Stands
  <2>4. Onward(s)
    BY <1>1, <1>3, <2>1 DEF Onward, LambdaQuiet
  <2>5. QED
    BY <1>2, <1>5, <2>1, <2>2, <2>3, <2>4, OnwardStep
<1>8. QED
  BY <1>6, <1>7

LEMMA RaiseStep == ASSUME RdsInv, NEW s \in Sessions, Raise(s) PROVE RdsInv'
<1>1. /\ UNCHANGED <<env, config, changes, reads, snapshot, kind, settings, failed>>
      /\ LambdaQuiet
  BY DEF Raise, lambdaVars, LambdaQuiet
<1>2. pc[s] = "raise" /\ Open(s) /\ Stands(s) /\ LambdaInv /\ Current(s).kind = kind[s]
  BY UnderWay DEF Raise
<1>3. pc' \in [Sessions -> {"idle", "enter", "raise", "invoke"}]
      /\ \A t \in Sessions \ {s} : pc'[t] = pc[t]
  BY DEF RdsInv, SessionInv, Raise, Return
<1>4. Current(s)' = Current(s) /\ Level(s)' = Level(s)
  BY <1>1 DEF Current, Level
<1>5. LambdaInv'
  BY <1>1, <1>2, LambdaKept
<1>6. Level(s) \in {"log", "junk"}
  <2>1. Level(s) \in Levels
    BY DEF RdsInv, SessionInv, Level, Config
  <2>2. QED
    BY <1>2, <2>1, LevelsAssumption DEF Stands
<1>7. /\ pglog' \in {pglog, pglog \cup {Current(s)}}
      /\ Current(s) \in pglog' <=> Level(s) = "log"
  BY <1>2, <1>6 DEF Raise, Stands
<1>8. CASE snapshot[s].arn
  <2>1. pc'[s] = "invoke" /\ returned' = returned
    BY <1>8 DEF Raise, RdsInv, SessionInv
  <2>2. Open(s)'
    BY <1>1, <1>2, <1>4, <2>1 DEF Open, LambdaQuiet
  <2>3. Stands(s)'
    BY <1>1, <1>2, <1>4, <1>7, <1>8, <2>1 DEF Stands
  <2>4. Onward(s)
    BY <1>1, <1>3, <1>7, <2>1 DEF Onward, LambdaQuiet
  <2>5. QED
    BY <1>2, <1>5, <2>1, <2>2, <2>3, <2>4, OnwardStep
<1>9. CASE ~snapshot[s].arn
  <2>1. pc'[s] = "idle" /\ returned' = returned \cup {Current(s)}
    BY <1>9 DEF Raise, Return, RdsInv, SessionInv
  <2>2. AsConfigured(Current(s))'
    BY <1>1, <1>2, <1>4, <1>7, <1>9 DEF AsConfigured, Open, Stands, Level, LambdaQuiet
  <2>3. Onward(s)
    BY <1>1, <1>3, <1>7, <2>1 DEF Onward, LambdaQuiet
  <2>4. QED
    BY <1>2, <1>5, <2>1, <2>2, <2>3, OnwardStep
<1>10. QED
  BY <1>8, <1>9

LEMMA InvokeStep == ASSUME RdsInv, NEW s \in Sessions, Invoke(s) PROVE RdsInv'
<1>1. /\ UNCHANGED <<env, config, changes, reads, snapshot, kind, pglog, settings>>
      /\ UNCHANGED <<logged, published, discarded>>
  BY DEF Invoke
<1>2. pc[s] = "invoke" /\ Open(s) /\ Stands(s) /\ LambdaInv /\ Current(s).kind = kind[s]
  BY UnderWay DEF Invoke
<1>3. pc' \in [Sessions -> {"idle", "enter", "raise", "invoke"}]
      /\ \A t \in Sessions \ {s} : pc'[t] = pc[t]
  BY DEF RdsInv, SessionInv, Invoke, Return
<1>4. Current(s)' = Current(s)
  BY <1>1 DEF Current
<1>5. pc'[s] = "idle" /\ returned' = returned \cup {Current(s)}
  BY DEF Invoke, Return, RdsInv, SessionInv
<1>6. \/ Accept(Current(s)) /\ failed' = failed
      \/ /\ failed' = failed \cup {Current(s)}
         /\ UNCHANGED <<accepted, queue>>
  BY DEF Invoke
<1>7. LambdaInv'
  <2>1. CASE Accept(Current(s))
    BY <1>1, <1>2, <2>1, AcceptKept
  <2>2. CASE UNCHANGED <<accepted, queue>>
    BY <1>1, <1>2, <2>2, LambdaKept DEF LambdaQuiet
  <2>3. QED
    BY <1>6, <2>1, <2>2
<1>8. /\ accepted' \in {accepted, accepted \cup {Current(s)}}
      /\ failed' \in {failed, failed \cup {Current(s)}}
      /\ Current(s) \in accepted' \cup failed'
  BY <1>6 DEF Accept
<1>9. Onward(s)
  BY <1>1, <1>3, <1>5, <1>8 DEF Onward
<1>10. AsConfigured(Current(s))'
  BY <1>1, <1>2, <1>4, <1>8 DEF AsConfigured, Open, Stands, Level
<1>11. QED
  BY <1>2, <1>5, <1>7, <1>9, <1>10, OnwardStep

\* A cancel leaves an event that never returns, whatever its sinks.
LEMMA CancelledStep == ASSUME RdsInv, NEW s \in Sessions, Cancelled(s) PROVE RdsInv'
<1>1. /\ UNCHANGED <<env, config, changes, reads, snapshot, kind, pglog, settings>>
      /\ UNCHANGED <<logged, published, discarded, returned, failed>>
  BY DEF Cancelled
<1>2. pc[s] # "idle" /\ LambdaInv
  BY DEF Cancelled, RdsInv
<1>3. pc' \in [Sessions -> {"idle", "enter", "raise", "invoke"}]
      /\ \A t \in Sessions \ {s} : pc'[t] = pc[t]
  BY DEF RdsInv, SessionInv, Cancelled
<1>4. pc'[s] = "idle"
  BY DEF Cancelled, RdsInv, SessionInv
<1>5. UNCHANGED <<accepted, queue>> \/ Accept(Current(s))
  BY DEF Cancelled
<1>6. LambdaInv'
  <2>1. CASE Accept(Current(s))
    BY <1>1, <1>2, <2>1, AcceptKept
  <2>2. CASE UNCHANGED <<accepted, queue>>
    BY <1>1, <1>2, <2>2, LambdaKept DEF LambdaQuiet
  <2>3. QED
    BY <1>5, <2>1, <2>2
<1>7. Onward(s)
  BY <1>1, <1>3, <1>5 DEF Onward, Accept
<1>8. QED
  BY <1>1, <1>2, <1>4, <1>6, <1>7, OnwardStep

-----------------------------------------------------------------------------
(* The steps of the handler's runs. *)

\* A run that is replaced by one of the same event, or dropped.
LEMMA RunGoesOn ==
  ASSUME LambdaInv, NEW run \in queue, NEW next, accepted' = accepted, env' = env,
         queue' = (queue \ {run}) \cup next, next \subseteq Run,
         logged' \in {logged, logged \cup {run.event}},
         \A r \in next : r.step = "publish" => r.event \in logged',
         published' \subseteq accepted, discarded' \in {discarded, discarded \cup {run.event}},
         published' \subseteq IF env.topic THEN logged' ELSE {}
  PROVE  LambdaInv'
<1>1. run \in Run /\ run.event \in accepted
  BY DEF LambdaInv, Run
<1>2. queue' \subseteq Run'
  BY DEF LambdaInv, Run
<1>3. logged' \cup published' \cup discarded' \subseteq accepted'
  BY <1>1 DEF LambdaInv
<1>4. \A r \in queue' : r.step = "publish" => r.event \in logged'
  BY DEF LambdaInv
<1>5. QED
  BY <1>2, <1>3, <1>4 DEF LambdaInv

\* The handler's run, or what AWS does after it, until the next one.
LEMMA TryAgainRun ==
  ASSUME LambdaInv, NEW run \in queue, TryAgain(run)
  PROVE  \E next : /\ queue' = (queue \ {run}) \cup next /\ next \subseteq Run
                   /\ \A r \in next : r.step = "due"
                   /\ discarded' \in {discarded, discarded \cup {run.event}}
<1>1. run \in Run
  BY DEF LambdaInv
<1>2. CASE run.attempt < MaxAttempts
  <2> DEFINE again == [run EXCEPT !.attempt = @ + 1, !.step = "due"]
  <2>1. PICK n \in 1..MaxAttempts : n = run.attempt
    BY <1>1 DEF Run
  <2>2. n + 1 \in 1..MaxAttempts
    BY <1>2, <2>1, RdsBoundsAssumption
  <2>3. run.attempt + 1 = n + 1
    BY <2>1
  <2>4. again \in Run /\ again.step = "due"
    BY <1>1, <2>2, <2>3 DEF Run
  <2>5. PICK next : next = {again}
    OBVIOUS
  <2>6. queue' = (queue \ {run}) \cup next /\ discarded' = discarded
    BY <1>2, <2>5 DEF TryAgain
  <2>7. next \subseteq Run /\ \A r \in next : r.step = "due"
    BY <2>4, <2>5
  <2>8. QED
    BY <2>6, <2>7
<1>3. CASE ~(run.attempt < MaxAttempts)
  <2>1. PICK next : next = {}
    OBVIOUS
  <2>2. queue' = (queue \ {run}) \cup next /\ discarded' = discarded \cup {run.event}
    BY <1>3, <2>1 DEF TryAgain
  <2>3. QED
    BY <2>1, <2>2
<1>4. QED
  BY <1>2, <1>3

LEMMA LambdaRuns == ASSUME RdsInv, NEW run \in queue, LambdaStep(run) PROVE LambdaInv'
<1>1. LambdaInv /\ run \in Run
  BY DEF RdsInv, LambdaInv
<1>2. /\ env' = env /\ accepted' = accepted
      /\ logged \subseteq accepted /\ published \subseteq accepted
      /\ published \subseteq IF env.topic THEN logged ELSE {}
      /\ run.event \in accepted
  BY <1>1 DEF LambdaStep, LambdaInv, Run
<1>3. CASE Handle(run) /\ UNCHANGED discarded
  <2>1. CASE ~env.complete \/ IsHeartbeat(run.event)
    <3>1. PICK none : none = {}
      OBVIOUS
    <3>2. queue' = (queue \ {run}) \cup none /\ UNCHANGED <<logged, published>>
      BY <1>3, <2>1, <3>1 DEF Handle
    <3>3. QED
      BY <1>1, <1>2, <1>3, <3>1, <3>2, RunGoesOn
  <2>2. CASE ~(~env.complete \/ IsHeartbeat(run.event))
    <3> DEFINE onward == [run EXCEPT !.step = "publish"]
    <3>0. PICK next : next = {onward}
      OBVIOUS
    <3>1. /\ queue' = (queue \ {run}) \cup next /\ logged' = logged \cup {run.event}
          /\ published' = published
      BY <1>3, <2>2, <3>0 DEF Handle
    <3>2. next \subseteq Run /\ \A r \in next : r.event = run.event
      BY <1>1, <3>0 DEF Run
    <3>3. published' \subseteq IF env.topic THEN logged' ELSE {}
      BY <1>2, <3>1
    <3>4. QED
      BY <1>1, <1>2, <1>3, <3>1, <3>2, <3>3, RunGoesOn
  <2>3. QED
    BY <2>1, <2>2
<1>4. CASE Publish(run) /\ UNCHANGED discarded
  <2>0. PICK none : none = {}
    OBVIOUS
  <2>1. queue' = (queue \ {run}) \cup none /\ logged' = logged
    BY <1>4, <2>0 DEF Publish, NotPublished
  <2>2. run.event \in logged
    BY <1>1, <1>4 DEF Publish, LambdaInv
  <2>3. published' = published \/ (env.topic /\ published' = published \cup {run.event})
    BY <1>4 DEF Publish
  <2>4. published' \subseteq IF env.topic THEN logged' ELSE {}
    BY <1>2, <2>1, <2>2, <2>3
  <2>5. published' \subseteq accepted
    BY <1>2, <2>3
  <2>6. QED
    BY <1>1, <1>2, <1>4, <2>0, <2>1, <2>4, <2>5, RunGoesOn
<1>5. CASE StartFails(run)
  <2>1. UNCHANGED <<logged, published>> /\ TryAgain(run)
    BY <1>5 DEF StartFails
  <2>2. PICK next : /\ queue' = (queue \ {run}) \cup next /\ next \subseteq Run
                    /\ \A r \in next : r.step = "due"
                    /\ discarded' \in {discarded, discarded \cup {run.event}}
    BY <1>1, <2>1, TryAgainRun
  <2>3. QED
    BY <1>1, <1>2, <2>1, <2>2, RunGoesOn
<1>6. CASE TimesOut(run)
  <2>1. /\ logged' = logged /\ TryAgain(run) /\ env.topic
        /\ published' \in {published, published \cup {run.event}}
        /\ run.event \in logged
    BY <1>1, <1>6 DEF TimesOut, LambdaInv
  <2>2. PICK next : /\ queue' = (queue \ {run}) \cup next /\ next \subseteq Run
                    /\ \A r \in next : r.step = "due"
                    /\ discarded' \in {discarded, discarded \cup {run.event}}
    BY <1>1, <2>1, TryAgainRun
  <2>3. published' \subseteq accepted /\ published' \subseteq logged'
    BY <1>2, <2>1
  <2>4. QED
    BY <1>1, <1>2, <2>1, <2>2, <2>3, RunGoesOn
<1>7. QED
  BY <1>3, <1>4, <1>5, <1>6 DEF LambdaStep

LEMMA LambdaStepKeeps == RdsInv /\ Lambda => RdsInv'
<1> SUFFICES ASSUME RdsInv, NEW run \in queue, LambdaStep(run) PROVE RdsInv'
  BY DEF Lambda
<1>1. /\ UNCHANGED <<env, config, changes, pc, reads, snapshot, kind>>
      /\ UNCHANGED <<pglog, accepted, settings, returned, failed>>
  BY DEF LambdaStep, sessionVars, historyVars
<1>2. OwnerInv' /\ SessionInv' /\ EventInv'
  BY <1>1 DEF RdsInv, OwnerInv, SessionInv, EventInv
<1>3. StatementInv' /\ ReturnedInv'
  BY <1>1 DEF RdsInv, StatementInv, ReturnedInv, Open, Stands, AsConfigured, Current,
              Level
<1>4. QED
  BY <1>2, <1>3, LambdaRuns DEF RdsInv

-----------------------------------------------------------------------------
(* The theorems. *)

LEMMA RdsStep == RdsInv /\ [Next]_vars => RdsInv'
<1> SUFFICES ASSUME RdsInv, [Next]_vars PROVE RdsInv'
  OBVIOUS
<1>1. CASE Configure
  BY <1>1, ConfigureStep
<1>2. ASSUME NEW s \in Sessions, Select(s) \/ SessionStep(s) \/ Cancelled(s) PROVE RdsInv'
  BY <1>2, SelectStep, EnterStep, RaiseStep, InvokeStep, CancelledStep DEF SessionStep
<1>3. CASE Lambda
  BY <1>3, LambdaStepKeeps
<1>4. CASE UNCHANGED vars
  <2>1. /\ UNCHANGED <<env, config, changes, pc, reads, snapshot, kind>>
        /\ UNCHANGED <<pglog, accepted, settings, returned, failed>>
        /\ UNCHANGED <<queue, logged, published, discarded>>
    BY <1>4 DEF vars, sessionVars, lambdaVars, historyVars
  <2>2. OwnerInv' /\ SessionInv' /\ EventInv'
    BY <2>1 DEF RdsInv, OwnerInv, SessionInv, EventInv
  <2>3. LambdaInv'
    BY <2>1 DEF RdsInv, LambdaInv, Run
  <2>4. StatementInv' /\ ReturnedInv'
    BY <2>1 DEF RdsInv, StatementInv, ReturnedInv, Open, Stands, AsConfigured, Current,
                Level
  <2>5. QED
    BY <2>2, <2>3, <2>4 DEF RdsInv
<1>5. QED
  BY <1>1, <1>2, <1>3, <1>4 DEF Next, Done

LEMMA RdsHolds == Spec => []RdsInv
BY RdsInit, RdsStep, PTL DEF Spec

\* The state of the function, the invocations and the handler is well formed:
\* only events of reads that were done are in a sink, and a run of the handler
\* is of an event that AWS took (sticky_honey_bun_rds.sql:135-190,
\* handler.py:69-134).
THEOREM TypeCorrect == Spec => []TypeOK
<1>1. RdsInv => TypeOK
  BY DEF RdsInv, OwnerInv, SessionInv, EventInv, LambdaInv, Run, TypeOK
<1>2. QED
  BY <1>1, RdsHolds, PTL

\* However many sessions read while the owner changes the settings, and
\* whatever fails: a value that was returned is in the sinks that the settings
\* of its statement name, and in no other; what SNS has, CloudWatch has
\* (sticky_honey_bun_rds.sql:149-185, handler.py:88-90, 132-134).
THEOREM EventsGoWhereConfigured == Spec => []EachSinkAsConfigured
<1>1. RdsInv => EachSinkAsConfigured
  BY DEF RdsInv, ReturnedInv, AsConfigured, LambdaInv, EachSinkAsConfigured
<1>2. QED
  BY <1>1, RdsHolds, PTL
=============================================================================
