--------------------------- MODULE OnlineHarness ---------------------------
(***************************************************************************)
(* The harness of the RDS tests, rds/online: run.pl runs preflight.py,     *)
(* setup.py and the tests, and teardown.py in its END block; the operator  *)
(* finds what they leave with list_orphans.py and removes it with          *)
(* teardown.py.  One person runs all of this, one program at a time.       *)
(*                                                                         *)
(* AWS is external: a set of tagged resources, some of which cannot be     *)
(* deleted before others, and instances that go some time after they were  *)
(* told to. It is taken to delete an instance that is still being created. *)
(* A fault is a call or a psql that fails, or is refused for a reason that *)
(* is not in the model ("error"), a Ctrl-C ("kill"), a tag listing that    *)
(* fails and is swallowed or does not show a resource yet ("hidden"), a    *)
(* failed look at a replica's source ("classify"), the end of the AWS      *)
(* session ("expire").                                                     *)
(***************************************************************************)
EXTENDS Naturals, Sequences, Functions

CONSTANTS
  Runs,        \* run_ids
  MaxStarts,   \* bound: invocations of run.pl
  MaxFaults,   \* bound: faults
  Faults       \* a subset of FaultKinds

FaultKinds == {"error", "kill", "hidden", "classify", "expire"}

ASSUME HarnessFaultsAssumption == Faults \subseteq FaultKinds
ASSUME HarnessBoundsAssumption == MaxStarts \in Nat /\ MaxFaults \in Nat

\* What setup.py creates, in this order, the replica in the end.
Kinds == {"exec_role", "lambda", "invoke_role", "sg", "subgrp", "pg", "db", "replica"}

\* What AWS wants deleted first: RDS instances use the groups.
Needs(kind) ==
  CASE kind = "db" -> {"replica"}
    [] kind \in {"subgrp", "pg", "sg"} -> {"db", "replica"}
    [] OTHER -> {}

\* A failed tag listing is swallowed for these, and raised for the others.
Hideable == {"exec_role", "lambda", "invoke_role", "sg"}

Instances == {"db", "replica"}
Databases == {"postgres", "db_a", "db_b"}

VARIABLES
  aws,        \* the resources there are: pairs of a run_id and a kind
  doomed,     \* those in mid-deletion, instances all of them
  session,    \* the operator's AWS session is valid
  ready,      \* per run: its databases with the extension and its config, and
              \* its instances with the Lambda-invoke role
  role,       \* per run: the password of the roles in its database, 0 without
  file,       \* per run: what its state file records
  \* run.pl and setup.py
  used,       \* run_ids given out
  pc, run,
  steps,      \* what setup.py has left to do
  password,   \* the one it has in hand
  starts,
  \* teardown.py
  tpc, target,
  todo,       \* kinds left to delete, each with its place in the order
  errors,
  \* The operator
  seen,       \* run_ids that list_orphans.py has shown
  \* History
  faults,     \* how many there were
  disturbed,  \* one of them hit the current teardown
  leftover,   \* the program found an instance of its run in mid-deletion
  blind       \* a listing did not show a resource

contentVars == <<ready, role>>
runVars == <<used, run, starts>>
setupVars == <<steps, password>>
teardownVars == <<tpc, target, todo, errors, disturbed, leftover>>
vars == <<aws, doomed, session, contentVars, file, runVars, pc, setupVars, teardownVars,
          seen, faults, blind>>

NoFile == [exists |-> FALSE, saved |-> {}, password |-> 0]
File == [exists : BOOLEAN, saved : SUBSET Kinds, password : 0..MaxStarts]

NoTodo == [k \in {} |-> 0]

Of(r) == {k \in Kinds : <<r, k>> \in aws}

\* The instances of a run that are in mid-deletion.
Going(r) == {k \in Instances : <<r, k>> \in doomed}

Init ==
  /\ aws = {} /\ doomed = {} /\ session = TRUE
  /\ ready = [r \in Runs |-> {}] /\ role = [r \in Runs |-> 0]
  /\ file = [r \in Runs |-> NoFile]
  /\ used = {} /\ pc = "idle" /\ run \in Runs
  /\ steps = <<>> /\ password = 0 /\ starts = 0
  /\ tpc = "idle" /\ target = run /\ todo = NoTodo /\ errors = FALSE
  /\ seen = {} /\ faults = 0 /\ disturbed = FALSE /\ leftover = FALSE
  /\ blind = FALSE

Fault(kind) == kind \in Faults /\ faults < MaxFaults /\ faults' = faults + 1

\* A call of the AWS API fails, for once or for want of a session.
CallFails == IF session THEN Fault("error") ELSE UNCHANGED faults

\* What find_all returns of the resources in all: some may not show.
Listing(all, shown) ==
  /\ session
  /\ \/ shown = all /\ UNCHANGED <<faults, blind>>
     \/ /\ Fault("hidden") /\ blind' = TRUE
        /\ \E r \in Runs, k \in Hideable : <<r, k>> \in all /\ shown = all \ {<<r, k>>}

\* AWS is done with the deletion of an instance.  With it goes what is in it.
Vanish(r, k) ==
  /\ k \in Going(r)
  /\ aws' = aws \ {<<r, k>>} /\ doomed' = doomed \ {<<r, k>>}
  /\ ready' = [ready EXCEPT ![r] = @ \ (IF k = "db" THEN Databases \cup {"db"} ELSE {k})]
  /\ role' = [role EXCEPT ![r] = IF k = "db" THEN 0 ELSE @]
  /\ UNCHANGED <<session, file, runVars, pc, setupVars, teardownVars, seen, faults, blind>>

Vanishing == \E r \in Runs, k \in Instances : Vanish(r, k)

-----------------------------------------------------------------------------
(* setup.py. *)

\* A create_* function and the save_state that follows it.
Creation(kind) == <<<<"create", kind>>, <<"save", kind>>>>

Extensions == <<<<"install", "postgres">>, <<"install", "db_a">>, <<"install", "db_b">>>>
Passwords == <<<<"roles", "both">>, <<"record", "both">>>>

\* An existing replica is taken for a complete one.
EnsureReplica_Trusting ==
  IF <<run, "replica">> \in aws THEN <<>>
  ELSE Creation("replica") \o <<<<"attach", "replica">>>>

\* ensure_read_replica: the role is attached in any case.
EnsureReplica == Creation("replica") \o <<<<"attach", "replica">>>>

MainSteps ==
  Creation("exec_role") \o Creation("lambda") \o Creation("invoke_role")
    \o Creation("sg") \o Creation("subgrp") \o Creation("pg") \o Creation("db")
    \o <<<<"attach", "db">>>> \o Extensions \o Passwords \o EnsureReplica

\* do_install_only.
ReinstallSteps == Extensions \o Passwords \o EnsureReplica

\* What do_install_only needs of the state file, and psql of AWS.
Reusable == {"lambda", "db"} \subseteq file[run].saved /\ <<run, "db">> \in aws

Op == Head(steps)[1]
Arg == Head(steps)[2]

\* The next step is over, or setup.py is.
Advance ==
  /\ steps' = Tail(steps)
  /\ pc' = IF Tail(steps) = <<>> THEN "prove" ELSE pc

\* A step fails: run.pl dies, which leads to its END block.
Dies == pc' = "end" /\ steps' = <<>>

\* An instance of the run that setup.py uses is there to stay.
Stays(k) == <<run, k>> \in aws \ doomed

\* What works on an instance that does not stay may fail without a fault.
Fails(fault, k) == fault \/ (~Stays(k) /\ UNCHANGED faults)

\* A replica needs its source.
CanCreate == Arg = "replica" => Stays("db")

\* A create_* function, ended by a waiter; a replica may be there already, in
\* whichever state: one that is not available yet has no endpoint, and setup.py
\* dies of that.  A call that fails may have created the resource.
Create ==
  /\ pc = "setup" /\ Op = "create"
  /\ LET new == <<run, Arg>>
     IN  \/ /\ session /\ (new \in aws \/ CanCreate)
            /\ aws' = aws \cup {new} /\ Advance /\ UNCHANGED faults
         \/ /\ CallFails /\ Dies
            /\ aws' \in {aws, IF session /\ CanCreate THEN aws \cup {new} ELSE aws}
         \/ (~CanCreate \/ new \in aws) /\ Dies /\ UNCHANGED <<aws, faults>>
  /\ UNCHANGED <<doomed, session, contentVars, file, runVars, password, teardownVars, seen, blind>>

SaveState(record) ==
  /\ file' = [file EXCEPT ![run] = record]
  /\ Advance
  /\ UNCHANGED <<aws, doomed, session, contentVars, runVars, password, teardownVars,
                 seen, faults, blind>>

Save ==
  /\ pc = "setup" /\ Op = "save"
  /\ SaveState([file[run] EXCEPT !.saved = @ \cup {Arg}])

\* save_state, with the passwords.
Record ==
  /\ pc = "setup" /\ Op = "record"
  /\ SaveState([file[run] EXCEPT !.password = password])

\* install_extension_stack drops the extension with its tables, and creates
\* it; populate_config.  A failure comes at any point of this.
Install ==
  /\ pc = "setup" /\ Op = "install"
  /\ \/ /\ <<run, "db">> \in aws
        /\ ready' = [ready EXCEPT ![run] = @ \cup {Arg}] /\ Advance /\ UNCHANGED faults
     \/ /\ Fails(Fault("error"), "db") /\ Dies
        /\ \E left \in {ready[run], ready[run] \ {Arg}, ready[run] \cup {Arg}} :
             /\ left \subseteq ready[run] \/ <<run, "db">> \in aws
             /\ ready' = [ready EXCEPT ![run] = left]
  /\ UNCHANGED <<aws, doomed, session, role, file, runVars, password, teardownVars,
                 seen, blind>>

\* add_role_to_db_instance for an instance that does not have the role yet: AWS
\* refuses it in mid-deletion.
Attach ==
  /\ pc = "setup" /\ Op = "attach"
  /\ LET more == [ready EXCEPT ![run] = @ \cup {Arg}]
     IN  \/ /\ session /\ (Stays(Arg) \/ (<<run, Arg>> \in aws /\ more = ready))
            /\ ready' = more /\ Advance /\ UNCHANGED faults
         \/ /\ Fails(CallFails, Arg) /\ Dies
            /\ ready' \in {ready, IF session /\ Stays(Arg) THEN more ELSE ready}
  /\ UNCHANGED <<aws, doomed, session, role, file, runVars, password, teardownVars,
                 seen, blind>>

\* The passwords are those of the file, or new ones; roles are created if they
\* are missing, as they are in a fresh database.
Roles ==
  /\ pc = "setup" /\ Op = "roles"
  /\ \/ /\ <<run, "db">> \in aws
        /\ password' = IF file[run].password = 0 THEN starts ELSE file[run].password
        /\ role' = [role EXCEPT ![run] = IF @ = 0 THEN password' ELSE @]
        /\ \/ Advance /\ UNCHANGED faults
           \/ Fails(Fault("error"), "db") /\ Dies
     \/ Fails(Fault("error"), "db") /\ Dies /\ UNCHANGED <<role, password>>
  /\ UNCHANGED <<aws, doomed, session, ready, file, runVars, teardownVars, seen, blind>>

Setup == Create \/ Save \/ Record \/ Install \/ Attach \/ Roles

-----------------------------------------------------------------------------
(* run.pl and preflight.py. *)

\* A fresh run_id, or SHB_REUSE_RUN_ID.
Start(r) ==
  /\ pc = "idle" /\ tpc = "idle" /\ starts < MaxStarts
  /\ starts' = starts + 1 /\ run' = r
  /\ used' = used \cup {r} /\ seen' = {}
  /\ pc' = IF r \in used THEN "reuse" ELSE "preflight"
  /\ leftover' = (Going(r) # {})
  /\ UNCHANGED <<aws, doomed, session, contentVars, file, setupVars, tpc, target, todo,
                 errors, disturbed, faults, blind>>

\* setup.py --install-only, which ends at once without the file or the database.
Reuse ==
  /\ pc = "reuse"
  /\ IF Reusable THEN pc' = "setup" /\ steps' = ReinstallSteps ELSE Dies
  /\ UNCHANGED <<aws, doomed, session, contentVars, file, runVars, password, teardownVars,
                 seen, faults, blind>>

\* Only resources of the run itself count as stale.
Stale_OwnRun(shown) == \E k \in Kinds : <<run, k>> \in shown

\* list_stale_resources: those of any run.
Stale(shown) == shown # {}

\* It refuses for a setting, a reserved tag, a session that is about to expire,
\* or for want of the operator's address.
Refuse == Dies /\ UNCHANGED <<file, faults, blind>>

\* preflight.py, and the first save_state of setup.py if it passes.
Preflight ==
  /\ pc = "preflight"
  /\ \/ \E shown \in SUBSET aws :
          /\ Listing(aws, shown)
          /\ IF Stale(shown)
             THEN Dies /\ UNCHANGED file
             ELSE /\ file' = [file EXCEPT ![run] = [NoFile EXCEPT !.exists = TRUE]]
                  /\ pc' = "setup" /\ steps' = MainSteps
     \/ Refuse
  /\ UNCHANGED <<aws, doomed, session, contentVars, runVars, password, teardownVars, seen>>

\* The tests pass or fail.
Prove ==
  /\ pc = "prove" /\ Dies
  /\ UNCHANGED <<aws, doomed, session, contentVars, file, runVars, password, teardownVars,
                 seen, faults, blind>>

StartTeardown(r) ==
  /\ tpc' = "discover" /\ target' = r
  /\ UNCHANGED <<todo, errors, disturbed, leftover>>

\* The END block.  With SHB_KEEP it leaves the resources in place.
End ==
  /\ pc = "end"
  /\ \/ pc' = "idle" /\ UNCHANGED teardownVars
     \/ StartTeardown(run) /\ pc' = "wait"
  /\ UNCHANGED <<aws, doomed, session, contentVars, file, runVars, setupVars, seen, faults, blind>>

-----------------------------------------------------------------------------
(* The operator. *)

Idle == pc = "idle" /\ tpc = "idle"

\* list_orphans.py: the run_ids of what is tagged, or an error.
ListOrphans ==
  /\ Idle
  /\ \E shown \in SUBSET aws :
       Listing(aws, shown) /\ seen' = {r \in Runs : \E k \in Kinds : <<r, k>> \in shown}
  /\ UNCHANGED <<aws, doomed, session, contentVars, file, runVars, pc, setupVars, teardownVars>>

Operate(r) ==
  /\ Idle /\ r \in used
  /\ StartTeardown(r) /\ seen' = {}
  /\ UNCHANGED <<aws, doomed, session, contentVars, file, runVars, pc, setupVars, faults, blind>>

Login ==
  /\ ~session /\ Idle /\ session' = TRUE
  /\ UNCHANGED <<aws, doomed, contentVars, file, runVars, pc, setupVars, teardownVars,
                 seen, faults, blind>>

Expire ==
  /\ session /\ Fault("expire") /\ session' = FALSE
  /\ UNCHANGED <<aws, doomed, contentVars, file, runVars, pc, setupVars, teardownVars,
                 seen, blind>>

-----------------------------------------------------------------------------
(* teardown.py, called by the END block or by the operator. *)

\* When teardown.py is gone, the END block goes on and run.pl exits.
TeardownEnds ==
  /\ tpc' = "idle" /\ pc' = "idle"
  /\ todo' = NoTodo /\ errors' = FALSE /\ disturbed' = FALSE /\ leftover' = FALSE

Unlink == file' = [file EXCEPT ![target] = NoFile]

\* Discovery from the state file.
Found_FromFile(shown) == file[target].saved \cap {k \in Kinds : <<target, k>> \in shown}

\* discover_resources: by tag.
Found(shown) == {k \in Kinds : <<target, k>> \in shown}

\* The instances in the order given, then the rest.
Places(first, second) ==
  [k \in Kinds |-> CASE k = first -> 1 [] k = second -> 2
                     [] k = "subgrp" -> 3 [] k = "pg" -> 4 [] k = "lambda" -> 5
                     [] k = "exec_role" -> 6 [] k = "invoke_role" -> 7 [] k = "sg" -> 8]

\* The primary before its replica.
DeleteOrder_PrimaryFirst(misled) == Places("db", "replica")

\* Replicas first, unless describe_db_instances has failed for them.
DeleteOrder(misled) == IF misled THEN Places("db", "replica") ELSE Places("replica", "db")

ToDelete(list) ==
  /\ tpc' = "delete" /\ todo' = list
  /\ leftover' = (Going(target) # {})
  /\ UNCHANGED <<file, pc, errors>>

\* find_all, then nothing to do, an exception, or the list of what to delete.
\* An instance in mid-deletion is listed like any other.
Discover ==
  /\ tpc = "discover"
  /\ \/ \E shown \in SUBSET aws :
          /\ Listing(aws, shown)
          /\ IF Found(shown) = {}
             THEN Unlink /\ TeardownEnds
             ELSE /\ ToDelete(Restrict(DeleteOrder(FALSE), Found(shown)))
                  /\ disturbed' = (faults' # faults)
     \/ /\ session /\ "replica" \in Found(aws) /\ Fault("classify")
        /\ ToDelete(Restrict(DeleteOrder(TRUE), Found(aws)))
        /\ disturbed' = TRUE /\ UNCHANGED blind
     \/ CallFails /\ TeardownEnds /\ UNCHANGED <<file, blind>>
  /\ UNCHANGED <<aws, doomed, session, contentVars, runVars, setupVars, target, seen>>

Blocked(kind) == Needs(kind) \cap Of(target) # {}

\* It is the turn of this kind.
First(kind) == \A other \in DOMAIN todo : todo[kind] <= todo[other]

Done(kind) == todo' = Restrict(todo, DOMAIN todo \ {kind})

\* The delete_* function of one resource, but for instances.  One that fails
\* may have deleted it.
Delete(kind) ==
  /\ tpc = "delete" /\ kind \notin Instances /\ First(kind)
  /\ LET less == aws \ {<<target, kind>>}
     IN  \/ /\ session /\ ~Blocked(kind) /\ aws' = less
            /\ UNCHANGED <<errors, disturbed, faults>>
         \/ /\ session /\ Blocked(kind) /\ errors' = TRUE
            /\ UNCHANGED <<aws, disturbed, faults>>
         \/ /\ CallFails /\ errors' = TRUE /\ disturbed' = TRUE
            /\ aws' \in {aws, IF session /\ ~Blocked(kind) THEN less ELSE aws}
  /\ Done(kind)
  /\ UNCHANGED <<doomed, session, contentVars, file, runVars, pc, setupVars, tpc,
                 target, leftover, seen, blind>>

\* delete_rds_instance as far as its waiter.  An instance that is gone is none
\* of its concern; one that is blocked or in mid-deletion is refused
\* (InvalidDBInstanceState).  A call that fails may have had its effect.
DeleteInstance(kind) ==
  /\ tpc = "delete" /\ kind \in Instances /\ First(kind)
  /\ LET there == <<target, kind>> \in aws
         told == doomed \cup {<<target, kind>>}
         refused == Blocked(kind) \/ kind \in Going(target)
     IN  \/ /\ session /\ ~there /\ Done(kind)
            /\ UNCHANGED <<doomed, tpc, errors, disturbed, faults>>
         \/ /\ session /\ there /\ refused
            /\ errors' = TRUE /\ Done(kind)
            /\ UNCHANGED <<doomed, tpc, disturbed, faults>>
         \/ /\ session /\ there /\ ~refused
            /\ doomed' = told /\ tpc' = "waiter"
            /\ UNCHANGED <<todo, errors, disturbed, faults>>
         \/ /\ CallFails /\ errors' = TRUE /\ disturbed' = TRUE /\ Done(kind)
            /\ doomed' \in {doomed, IF session /\ there /\ ~refused THEN told ELSE doomed}
            /\ UNCHANGED tpc
  /\ UNCHANGED <<aws, session, contentVars, file, runVars, pc, setupVars, target,
                 leftover, seen, blind>>

\* The waiter db_instance_deleted: the instance is gone, or a poll fails, or the
\* waiter runs into its cap.
Wait(kind) ==
  /\ tpc = "waiter" /\ First(kind)
  /\ \/ /\ session /\ <<target, kind>> \notin aws
        /\ UNCHANGED <<errors, disturbed, faults>>
     \/ CallFails /\ errors' = TRUE /\ disturbed' = TRUE
  /\ tpc' = "delete" /\ Done(kind)
  /\ UNCHANGED <<aws, doomed, session, contentVars, file, runVars, pc, setupVars,
                 target, leftover, seen, blind>>

\* The state file goes whatever happened.
UnlinkIfClean_Always == Unlink

\* With errors the state file is kept.
UnlinkIfClean == IF errors THEN UNCHANGED file ELSE Unlink

Finish ==
  /\ tpc = "delete" /\ DOMAIN todo = {}
  /\ UnlinkIfClean
  /\ TeardownEnds
  /\ UNCHANGED <<aws, doomed, session, contentVars, runVars, setupVars, target, seen,
                 faults, blind>>

Teardown ==
  \/ Discover \/ Finish
  \/ \E kind \in DOMAIN todo : Delete(kind) \/ DeleteInstance(kind) \/ Wait(kind)

-----------------------------------------------------------------------------
(* Ctrl-C. *)

\* run.pl does not notice that teardown.py is gone.
TeardownKilled_Unnoticed ==
  tpc' = "idle" /\ UNCHANGED <<pc, todo, errors, disturbed, leftover>>

\* system() returns.
TeardownKilled == TeardownEnds

\* Ctrl-C goes to run.pl and to the program it has started.  A perl that reads
\* from open3's pipe ends at once, without its END block; one in system()
\* ignores the signal and goes on when the program has died of it.  An
\* operator who does not confirm a teardown ends it as well.
Interrupt ==
  /\ Fault("kill")
  /\ \/ /\ pc \in {"preflight", "reuse", "setup"}
        /\ pc' = "idle" /\ steps' = <<>> /\ UNCHANGED teardownVars
     \/ pc = "prove" /\ Dies /\ UNCHANGED teardownVars
     \/ tpc # "idle" /\ TeardownKilled /\ UNCHANGED <<steps, target>>
  /\ UNCHANGED <<aws, doomed, session, contentVars, file, runVars, password, seen, blind>>

-----------------------------------------------------------------------------

Harness == Preflight \/ Reuse \/ Setup \/ Prove \/ End

Next ==
  \/ \E r \in Runs : Start(r) \/ Operate(r)
  \/ Harness \/ Teardown
  \/ ListOrphans \/ Login \/ Expire \/ Interrupt
  \/ Vanishing

Spec == Init /\ [][Next]_vars

\* Programs that were started run, and AWS finishes what it has begun to delete;
\* the operator logs in again, goes on looking for orphans, and tears down the
\* runs that were shown.
FairSpec ==
  /\ Spec
  /\ WF_vars(Harness) /\ WF_vars(Teardown) /\ WF_vars(Vanishing)
  /\ SF_vars(Login) /\ SF_vars(ListOrphans)
  /\ \A r \in Runs : SF_vars(r \in seen /\ Operate(r))

-----------------------------------------------------------------------------
(* Properties. *)

TypeOK ==
  /\ aws \subseteq used \X Kinds /\ doomed \subseteq aws \cap (used \X Instances)
  /\ ready \in [Runs -> SUBSET (Databases \cup Instances)]
  /\ role \in [Runs -> 0..MaxStarts] /\ file \in [Runs -> File]
  /\ used \subseteq Runs /\ run \in Runs /\ target \in Runs /\ seen \subseteq used
  /\ pc \in {"idle", "preflight", "reuse", "setup", "prove", "end", "wait"}
  /\ tpc \in {"idle", "discover", "delete", "waiter"} /\ DOMAIN todo \subseteq Kinds
  /\ {errors, disturbed, leftover, blind, session} \subseteq BOOLEAN
  /\ password \in 0..MaxStarts /\ starts \in 0..MaxStarts /\ faults \in 0..MaxFaults
  /\ pc = "setup" <=> steps # <<>>
  /\ pc = "wait" => tpc # "idle" /\ target = run
  /\ tpc # "idle" => pc \in {"idle", "wait"}

\* Whatever is still there has its state file, "so the operator can re-run
\* teardown" (teardown.py:373-374): it is written before the first resource
\* and removed only when the resources are "confirmed gone" (teardown.py:54-56).
\* Confirmed by a listing, that is: one that does not show all there is can
\* have the file removed.
FileOutlivesResources ==
  blind \/ \A r \in Runs : Of(r) # {} => file[r].exists

\* Left alone by AWS and by the operator, one teardown is enough, whatever
\* earlier failures have left: no deletion comes before what it depends on
\* (teardown.py:308-317).  The exception is an instance that an earlier teardown,
\* interrupted or failed in the waiter, has left in mid-deletion: to tell it to
\* go again is an error, and what depends on it may come too early
\* (teardown.py:149-163).
ErrorsOnlyFromFaults == errors => disturbed \/ leftover

\* Resources of two runs are never there together: with an earlier run's
\* leftovers in place, kept or leaked, preflight.py refuses a new run
\* (preflight.py:214-228), if it is shown them.
OneRunAtATime == blind \/ \A q, r \in Runs : Of(q) # {} /\ Of(r) # {} => q = r

\* When the tests start, every database has the extension and the replica has
\* the Lambda-invoke role, also when they run on what a setup, a reinstallation
\* or a creation of the replica that failed half way has left
\* (setup.py:343-395, 546-590).  That is, if it has not started on instances
\* in mid-deletion: SHB_REUSE_RUN_ID takes those for good.
InstalledWhenProved ==
  pc = "prove" /\ ~leftover =>
    /\ Databases \cup {"replica"} \subseteq ready[run]
    /\ Instances \subseteq Of(run) \cap file[run].saved

\* Every resource is removed in the end, also those of a setup.py that "crashed
\* mid-creation" (teardown.py:8-11), a teardown that was interrupted, failed, or
\* had no session (preflight.py:206-212): list_orphans.py shows it.
EverythingIsRemoved == <>[](aws = {})

\* A reinstallation completes a setup that died (setup.py:553-556): when the
\* tests start, the primary has the Lambda-invoke role and the passwords of the
\* state file are those of the roles.
ReinstallCompletes ==
  pc = "prove" => "db" \in ready[run] /\ file[run].password = role[run]
=============================================================================
