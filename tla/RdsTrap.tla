------------------------------ MODULE RdsTrap -------------------------------
(***************************************************************************)
(* The RDS variant: honey_bun_out_rds of rds/sticky_honey_bun_rds.sql,     *)
(* which copies an event to the server log and to a Lambda function under  *)
(* the settings of the config table; the asynchronous invocation (AWS);    *)
(* and lambda_handler of lambda/handler.py with its two sinks.             *)
(* The function is IMMUTABLE: all of its queries use the snapshot of the   *)
(* statement that called it.                                               *)
(***************************************************************************)
EXTENDS Naturals

CONSTANTS
  Sessions,
  Kinds,        \* of tags read: "alert", "heartbeat" (the poker's prefix)
  Levels,       \* values of the level settings: "off", "log", "junk"
  MaxReads,     \* bound: honey values each session reads
  MaxChanges,   \* bound: updates of the config table
  MaxAttempts,  \* runs of the handler for one event (AWS: 3)
  Environments, \* of the Lambda function, see env
  Faults        \* a subset of FaultKinds

FaultKinds == {"invoke", "cancel", "start", "publish", "timeout"}

ASSUME KindsAssumption == Kinds \subseteq {"alert", "heartbeat"}
ASSUME EnvironmentsAssumption == Environments \subseteq [{"complete", "topic"} -> BOOLEAN]
ASSUME LevelsAssumption == Levels \subseteq {"off", "log", "junk"}
ASSUME RdsFaultsAssumption == Faults \subseteq FaultKinds
ASSUME RdsBoundsAssumption ==
  {MaxReads, MaxChanges} \subseteq Nat /\ MaxAttempts \in Nat \ {0}

VARIABLES
  env,         \* complete: the payload has the fields of SHB_REQUIRE_FIELDS, as
               \* it has the default ones; topic: SHB_SNS_TOPIC_ARN is set
  config,      \* sticky_honey_bun.config
  changes,
  \* Per session
  pc, reads, snapshot, kind,
  \* Sinks
  pglog,       \* events in the server log
  accepted,    \* events whose invocation AWS took
  queue,       \* of these, the handler runs that are due or under way
  logged,      \* events that lambda_handler logged as alerts
  published,   \* events in SNS
  discarded,   \* events given up after MaxAttempts
  \* History
  settings,    \* of each event: the settings its statement saw
  returned,    \* events whose read gave the client its value
  failed       \* events whose invocation failed

sessionVars == <<pc, reads, snapshot, kind>>
lambdaVars == <<queue, logged, published, discarded>>
historyVars == <<settings, returned, failed>>
vars == <<env, config, changes, sessionVars, pglog, accepted, lambdaVars, historyVars>>

Config == [enabled : BOOLEAN, level : [Kinds -> Levels], arn : BOOLEAN]

\* An event is a read of a tag of some kind; its payload is made from it.
Event == [session : Sessions, number : 1..MaxReads, kind : Kinds]
Current(s) == [session |-> s, number |-> reads[s], kind |-> kind[s]]

\* The "event" field of the payload.
PayloadEvent(e) == "read_text"

Init ==
  /\ env \in Environments
  /\ config \in Config /\ changes = 0
  /\ pc = [s \in Sessions |-> "idle"] /\ reads = [s \in Sessions |-> 0]
  /\ snapshot = [s \in Sessions |-> config]
  /\ kind \in [Sessions -> Kinds]
  /\ pglog = {} /\ accepted = {} /\ queue = {}
  /\ logged = {} /\ published = {} /\ discarded = {}
  /\ settings = [e \in {} |-> config]
  /\ returned = {} /\ failed = {}

-----------------------------------------------------------------------------
(* The owner and the sessions. *)

\* The owner updates one key of the config table.
Configure ==
  /\ changes < MaxChanges /\ changes' = changes + 1
  /\ \/ config' = [config EXCEPT !.enabled = ~@]
     \/ config' = [config EXCEPT !.arn = ~@]
     \/ \E k \in Kinds : \E l \in Levels \ {config.level[k]} :
          config' = [config EXCEPT !.level[k] = l]
  /\ UNCHANGED <<env, sessionVars, pglog, accepted, lambdaVars, historyVars>>

\* A statement takes its snapshot and reads a honey value.
Select(s) ==
  /\ pc[s] = "idle" /\ reads[s] < MaxReads
  /\ pc' = [pc EXCEPT ![s] = "enter"]
  /\ reads' = [reads EXCEPT ![s] = @ + 1] /\ UNCHANGED kind
  /\ snapshot' = [snapshot EXCEPT ![s] = config]
  /\ settings' = [e \in DOMAIN settings \cup {Current(s)'} |->
                    IF e \in DOMAIN settings THEN settings[e] ELSE config]
  /\ UNCHANGED <<env, config, changes, pglog, accepted, lambdaVars, returned,
                 failed>>

\* Each query sees what is committed, as in a VOLATILE function.
Level_Fresh(s) == config.level[kind[s]]

\* log_level of the function, NULL being "off".
Level(s) == snapshot[s].level[kind[s]]

Return(s) ==
  /\ pc' = [pc EXCEPT ![s] = "idle"]
  /\ returned' = returned \cup {Current(s)}

\* The four SELECTs on the config table.
Enter(s) ==
  /\ pc[s] = "enter"
  /\ IF ~snapshot[s].enabled \/ (Level(s) = "off" /\ ~snapshot[s].arn)
     THEN Return(s)
     ELSE /\ pc' = [pc EXCEPT ![s] = IF Level(s) = "off" THEN "invoke" ELSE "raise"]
          /\ UNCHANGED returned
  /\ UNCHANGED <<env, config, changes, reads, snapshot, kind, pglog, accepted, lambdaVars,
                 settings, failed>>

\* RAISE at the configured level; an unknown one is dropped.
Raise(s) ==
  /\ pc[s] = "raise"
  /\ pglog' = IF Level(s) = "junk" THEN pglog ELSE pglog \cup {Current(s)}
  /\ IF snapshot[s].arn
     THEN pc' = [pc EXCEPT ![s] = "invoke"] /\ UNCHANGED returned
     ELSE Return(s)
  /\ UNCHANGED <<env, config, changes, reads, snapshot, kind, accepted, lambdaVars,
                 settings, failed>>

Accept(e) ==
  /\ accepted' = accepted \cup {e}
  /\ queue' = queue \cup {[event |-> e, attempt |-> 1, step |-> "due"]}

\* aws_lambda.invoke, of type Event: AWS takes it, or the error is swallowed.
Invoke(s) ==
  /\ pc[s] = "invoke"
  /\ \/ Accept(Current(s)) /\ UNCHANGED failed
     \/ /\ "invoke" \in Faults
        /\ failed' = failed \cup {Current(s)}
        /\ UNCHANGED <<accepted, queue>>
  /\ Return(s)
  /\ UNCHANGED <<env, config, changes, reads, snapshot, kind, pglog,
                 logged, published, discarded, settings>>

\* WHEN OTHERS does not catch a query cancel: the statement ends, whether or
\* not the invocation was taken.
Cancelled(s) ==
  /\ "cancel" \in Faults
  /\ pc[s] # "idle"
  /\ pc' = [pc EXCEPT ![s] = "idle"]
  /\ \/ UNCHANGED <<accepted, queue>>
     \/ pc[s] = "invoke" /\ Accept(Current(s))
  /\ UNCHANGED <<env, config, changes, reads, snapshot, kind, pglog, logged, published,
                 discarded, settings, returned, failed>>

-----------------------------------------------------------------------------
(* AWS runs the handler, again if it fails, and gives up in the end. *)

TryAgain(run) ==
  IF run.attempt < MaxAttempts
  THEN /\ queue' = (queue \ {run})
            \cup {[run EXCEPT !.attempt = @ + 1, !.step = "due"]}
       /\ UNCHANGED discarded
  ELSE /\ queue' = queue \ {run}
       /\ discarded' = discarded \cup {run.event}

\* The test for a heartbeat is the wrong way round.
IsHeartbeat_Not(e) == PayloadEvent(e) # "heartbeat"

IsHeartbeat(e) == PayloadEvent(e) = "heartbeat"

\* lambda_handler as far as the log: an event that lacks a field is an error
\* that AWS does not see, a heartbeat is dropped.
Handle(run) ==
  /\ run.step = "due"
  /\ IF ~env.complete \/ IsHeartbeat(run.event)
     THEN queue' = queue \ {run} /\ UNCHANGED logged
     ELSE /\ queue' = (queue \ {run}) \cup {[run EXCEPT !.step = "publish"]}
          /\ logged' = logged \cup {run.event}
  /\ UNCHANGED published

\* The runtime does not come up.
StartFails(run) ==
  /\ "start" \in Faults /\ run.step = "due"
  /\ TryAgain(run)
  /\ UNCHANGED <<logged, published>>

\* The handler starts over when it could not publish, as often as it takes.
NotPublished_StartOver(run) ==
  queue' = (queue \ {run}) \cup {[run EXCEPT !.attempt = @ + 1, !.step = "due"]}

NotPublished(run) == queue' = queue \ {run}

\* _publish_sns, which swallows its errors.
Publish(run) ==
  /\ run.step = "publish"
  /\ \/ env.topic /\ published' = published \cup {run.event} /\ queue' = queue \ {run}
     \/ ~env.topic /\ queue' = queue \ {run} /\ UNCHANGED published
     \/ env.topic /\ "publish" \in Faults /\ NotPublished(run) /\ UNCHANGED published
  /\ UNCHANGED logged

\* The function is stopped while it waits for SNS, which may have the message.
TimesOut(run) ==
  /\ "timeout" \in Faults /\ run.step = "publish" /\ env.topic
  /\ published' \in {published, published \cup {run.event}}
  /\ TryAgain(run)
  /\ UNCHANGED logged

LambdaStep(run) ==
  /\ \/ (Handle(run) \/ Publish(run)) /\ UNCHANGED discarded
     \/ StartFails(run) \/ TimesOut(run)
  /\ UNCHANGED <<env, config, changes, sessionVars, pglog, accepted, historyVars>>

Lambda == \E run \in queue : LambdaStep(run)

-----------------------------------------------------------------------------

SessionStep(s) == Enter(s) \/ Raise(s) \/ Invoke(s)

Done ==
  /\ \A s \in Sessions : pc[s] = "idle" /\ reads[s] = MaxReads
  /\ queue = {} /\ UNCHANGED vars

Next ==
  \/ Configure
  \/ \E s \in Sessions : Select(s) \/ SessionStep(s) \/ Cancelled(s)
  \/ Lambda
  \/ Done

Spec == Init /\ [][Next]_vars

\* Statements run to their end, and AWS runs what it has taken.
FairSpec ==
  /\ Spec
  /\ \A s \in Sessions : WF_vars(SessionStep(s))
  /\ WF_vars(Lambda)

-----------------------------------------------------------------------------
(* Properties. *)

TypeOK ==
  /\ env \in Environments
  /\ config \in Config /\ changes \in 0..MaxChanges
  /\ pc \in [Sessions -> {"idle", "enter", "raise", "invoke"}]
  /\ reads \in [Sessions -> 0..MaxReads]
  /\ snapshot \in [Sessions -> Config] /\ kind \in [Sessions -> Kinds]
  /\ queue \subseteq [event : accepted, attempt : 1..MaxAttempts,
                      step : {"due", "publish"}]
  /\ pglog \cup accepted \cup failed \cup returned \subseteq DOMAIN settings
  /\ logged \cup published \cup discarded \subseteq accepted
  /\ DOMAIN settings \subseteq Event

\* A value that was returned went to each sink the settings of its statement
\* name, and to no other, whatever the owner changed in the meantime: one
\* event never mixes two configurations (sticky_honey_bun_rds.sql:149-185).
\* SNS is told what CloudWatch has, if there is a topic (handler.py:88-90,
\* 132-134).
EachSinkAsConfigured ==
  /\ \A e \in returned :
       LET c == settings[e] IN
         /\ e \in pglog <=> c.enabled /\ c.level[e.kind] = "log"
         /\ e \in accepted \cup failed <=> c.enabled /\ c.arn
  /\ published \subseteq IF env.topic THEN logged ELSE {}

\* What AWS has taken is logged, or was tried MaxAttempts times; unless the
\* handler asks for a field that no payload has (handler.py:84-85, 111-115).
\* Heartbeat reads are no exception: the handler is not to log them as alerts
\* (handler.py:18-19, 57-59), but they come as read_text and are logged.
AcceptedIsLogged ==
  \A e \in Event : e \in accepted ~> e \in logged \cup discarded \/ ~env.complete
=============================================================================
