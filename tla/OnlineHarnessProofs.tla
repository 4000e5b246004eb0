------------------------ MODULE OnlineHarnessProofs ------------------------
(***************************************************************************)
(* Proofs about OnlineHarness: type correctness, and its safety            *)
(* invariants.  The argument: one program runs at a time, so a teardown    *)
(* sees the resources only shrink, and a setup sees them only grow unless  *)
(* it has found an instance in mid-deletion; what a setup has not done yet *)
(* is among the steps it has left, and what a teardown has not deleted yet *)
(* is among the kinds it has left, unless it knows of an error or a        *)
(* listing has misled it.  What a teardown itself has told to go is gone   *)
(* before it comes to the next kind, unless something disturbs it.         *)
(***************************************************************************)
EXTENDS OnlineHarness, TLAPS

-----------------------------------------------------------------------------
(* The inductive invariant. *)

Codes == {"idle", "preflight", "reuse", "setup", "prove", "end", "wait"}

\* TypeOK, one conjunct per group of variables.
AwsInv ==
  /\ aws \subseteq used \X Kinds /\ used \subseteq Runs /\ seen \subseteq used
  /\ session \in BOOLEAN /\ doomed \subseteq aws \cap (used \X Instances)

ContentInv ==
  /\ ready \in [Runs -> SUBSET (Databases \cup Instances)]
  /\ role \in [Runs -> 0..MaxStarts]

FileInv ==
  /\ file \in [Runs -> File]
  /\ \A r \in Runs : file[r].saved # {} => file[r].exists

RunInv ==
  /\ run \in Runs /\ pc \in Codes
  /\ starts \in 0..MaxStarts /\ password \in 0..MaxStarts
  /\ pc # "idle" => run \in used

\* What setup.py can have left to do.
Step == {"create", "save"} \X Kinds \cup {"install"} \X Databases
          \cup {"attach"} \X Instances \cup {"roles", "record"} \X {"both"}

StepInv == steps \in Seq(Step) /\ (pc = "setup" <=> steps # <<>>)

FaultInv == faults \in 0..MaxFaults /\ blind \in BOOLEAN

TeardownInv ==
  /\ tpc \in {"idle", "discover", "delete", "waiter"} /\ target \in Runs
  /\ errors \in BOOLEAN /\ disturbed \in BOOLEAN /\ leftover \in BOOLEAN
  /\ DOMAIN todo \subseteq Kinds /\ todo \in [DOMAIN todo -> 1..8]
  /\ pc = "wait" => tpc # "idle" /\ target = run
  /\ tpc # "idle" => pc \in {"idle", "wait"}
  /\ tpc \in {"idle", "discover"} => ~errors

HarnessTypes ==
  /\ AwsInv /\ ContentInv /\ FileInv /\ RunInv /\ StepInv /\ FaultInv /\ TeardownInv

\* The elements of a sequence.
Elements(s) == {s[i] : i \in 1..Len(s)}

\* When run.pl has started on no instance in mid-deletion, there is none.
StayInv ==
  pc \in {"reuse", "preflight", "setup", "prove"} => leftover \/ Going(run) = {}

\* While setup.py runs, the state file is there, nothing of another run is, and
\* what is not there yet, is not saved or not installed yet, is left to do.
SetupInv ==
  pc = "setup" =>
    /\ file[run].exists
    /\ blind \/ \A q \in Runs : Of(q) # {} => q = run
    /\ leftover \/
         /\ \A d \in Databases : d \in ready[run] \/ <<"install", d>> \in Elements(steps)
         /\ "replica" \in ready[run] \/ <<"attach", "replica">> \in Elements(steps)
         /\ \A k \in Instances : k \in Of(run) \/ <<"create", k>> \in Elements(steps)
    /\ \A k \in Instances : k \in file[run].saved \/ <<"save", k>> \in Elements(steps)

Deleting == tpc \in {"delete", "waiter"}

\* While teardown.py deletes: what is still there is left to delete; unless
\* something has gone wrong, the order is the right one, and no instance is in
\* mid-deletion but the one it waits for.
DeleteInv ==
  Deleting =>
    /\ Of(target) \subseteq DOMAIN todo \/ errors \/ blind
    /\ \/ disturbed \/ leftover
       \/ /\ Of(target) \subseteq DOMAIN todo
          /\ \A k \in DOMAIN todo : todo[k] = DeleteOrder(FALSE)[k]
          /\ \A k \in Going(target) : tpc = "waiter" /\ First(k)

SafetyInv ==
  /\ StayInv /\ SetupInv /\ DeleteInv /\ FileOutlivesResources /\ OneRunAtATime
  /\ ErrorsOnlyFromFaults /\ InstalledWhenProved

HarnessInv == HarnessTypes /\ SafetyInv

-----------------------------------------------------------------------------
(* The elements of sequences, and the steps of setup.py. *)

LEMMA ElementsConcat ==
  ASSUME NEW S, NEW s \in Seq(S), NEW t \in Seq(S)
  PROVE  s \o t \in Seq(S) /\ Elements(s \o t) = Elements(s) \cup Elements(t)
<1>1. s \o t \in Seq(S) /\ Len(s \o t) = Len(s) + Len(t)
  OBVIOUS
<1>2. \A i \in 1..Len(s) : (s \o t)[i] = s[i] /\ i \in 1..Len(s \o t)
  BY <1>1
<1>3. \A i \in 1..Len(t) :
        (s \o t)[Len(s) + i] = t[i] /\ Len(s) + i \in 1..Len(s \o t)
  BY <1>1
<1>4. ASSUME NEW i \in 1..Len(s \o t)
      PROVE  (s \o t)[i] \in Elements(s) \cup Elements(t)
  <2>1. CASE i <= Len(s)
    <3>1. i \in 1..Len(s) /\ (s \o t)[i] = s[i]
      BY <1>1, <2>1
    <3>2. QED
      BY <3>1 DEF Elements
  <2>2. CASE ~(i <= Len(s))
    <3>1. i - Len(s) \in 1..Len(t) /\ (s \o t)[i] = t[i - Len(s)]
      BY <1>1, <2>2
    <3>2. QED
      BY <3>1 DEF Elements
  <2>3. QED
    BY <2>1, <2>2
<1>5. Elements(s \o t) \subseteq Elements(s) \cup Elements(t)
  BY <1>4 DEF Elements
<1>6. Elements(s) \subseteq Elements(s \o t)
  BY <1>2 DEF Elements
<1>7. Elements(t) \subseteq Elements(s \o t)
  BY <1>3 DEF Elements
<1>8. QED
  BY <1>1, <1>5, <1>6, <1>7

LEMMA ElementsTail ==
  ASSUME NEW S, NEW s \in Seq(S), s # <<>>
  PROVE  /\ Head(s) \in S /\ Tail(s) \in Seq(S)
         /\ Elements(s) \subseteq {Head(s)} \cup Elements(Tail(s))
<1>1. Len(s) \in Nat \ {0} /\ Head(s) = s[1] /\ Head(s) \in S
  OBVIOUS
<1>2. Tail(s) \in Seq(S) /\ Len(Tail(s)) = Len(s) - 1
  BY <1>1
<1>3. ASSUME NEW i \in 1..Len(s), i # 1
      PROVE  s[i] \in Elements(Tail(s))
  <2>1. i - 1 \in 1..Len(Tail(s)) /\ Tail(s)[i - 1] = s[i]
    BY <1>1, <1>2, <1>3
  <2>2. QED
    BY <2>1 DEF Elements
<1>4. QED
  BY <1>1, <1>2, <1>3 DEF Elements

LEMMA ElementsFew ==
  ASSUME NEW S, NEW a \in S, NEW b \in S, NEW c \in S
  PROVE  /\ <<>> \in Seq(S)
         /\ <<a>> \in Seq(S) /\ a \in Elements(<<a>>)
         /\ <<a, b>> \in Seq(S) /\ {a, b} \subseteq Elements(<<a, b>>)
         /\ <<a, b, c>> \in Seq(S) /\ {a, b, c} \subseteq Elements(<<a, b, c>>)
<1>1. <<a>> \in Seq(S) /\ Len(<<a>>) = 1 /\ <<a>>[1] = a
  OBVIOUS
<1>2. <<a, b>> \in Seq(S) /\ Len(<<a, b>>) = 2 /\ <<a, b>>[1] = a /\ <<a, b>>[2] = b
  OBVIOUS
<1>3. /\ <<a, b, c>> \in Seq(S) /\ Len(<<a, b, c>>) = 3
      /\ <<a, b, c>>[1] = a /\ <<a, b, c>>[2] = b /\ <<a, b, c>>[3] = c
  OBVIOUS
<1>4. <<>> \in Seq(S)
  OBVIOUS
<1>5. 1 \in 1..1 /\ {1, 2} \subseteq 1..2 /\ {1, 2, 3} \subseteq 1..3
  OBVIOUS
<1>6. a \in Elements(<<a>>)
  BY <1>1, <1>5 DEF Elements
<1>7. a \in Elements(<<a, b>>) /\ b \in Elements(<<a, b>>)
  BY <1>2, <1>5 DEF Elements
<1>8. /\ a \in Elements(<<a, b, c>>) /\ b \in Elements(<<a, b, c>>)
      /\ c \in Elements(<<a, b, c>>)
  BY <1>3, <1>5 DEF Elements
<1>9. QED
  BY <1>1, <1>2, <1>3, <1>4, <1>6, <1>7, <1>8

LEMMA CreationSteps ==
  ASSUME NEW k \in Kinds
  PROVE  /\ Creation(k) \in Seq(Step)
         /\ {<<"create", k>>, <<"save", k>>} \subseteq Elements(Creation(k))
<1>1. <<"create", k>> \in Step /\ <<"save", k>> \in Step
  BY DEF Step
<1>2. QED
  BY <1>1, ElementsFew DEF Creation

\* What both kinds of setup end with.
LEMMA LastSteps ==
  /\ Extensions \in Seq(Step) /\ Passwords \in Seq(Step) /\ EnsureReplica \in Seq(Step)
  /\ \A d \in Databases : <<"install", d>> \in Elements(Extensions)
  /\ {<<"attach", "replica">>, <<"create", "replica">>, <<"save", "replica">>}
        \subseteq Elements(EnsureReplica)
<1>1. \A d \in Databases : <<"install", d>> \in Step
  BY DEF Step
<1>2. Extensions \in Seq(Step) /\ \A d \in Databases : <<"install", d>> \in Elements(Extensions)
  BY <1>1, ElementsFew DEF Extensions, Databases
<1>3. Passwords \in Seq(Step)
  <2>1. <<"roles", "both">> \in Step /\ <<"record", "both">> \in Step
    BY DEF Step
  <2>2. QED
    BY <2>1, ElementsFew DEF Passwords
<1>4. /\ Creation("replica") \in Seq(Step)
      /\ {<<"create", "replica">>, <<"save", "replica">>}
            \subseteq Elements(Creation("replica"))
  BY CreationSteps DEF Kinds
<1>5. <<"attach", "replica">> \in Step
  BY DEF Step, Instances
<1>6. PICK last \in Seq(Step) :
        last = <<<<"attach", "replica">>>> /\ <<"attach", "replica">> \in Elements(last)
  BY <1>5, ElementsFew
<1>7. EnsureReplica = Creation("replica") \o last
  BY <1>6 DEF EnsureReplica
<1>8. /\ EnsureReplica \in Seq(Step)
      /\ Elements(EnsureReplica) = Elements(Creation("replica")) \cup Elements(last)
  BY <1>4, <1>7, ElementsConcat
<1>9. QED
  BY <1>2, <1>3, <1>4, <1>6, <1>8

\* A list with these steps makes up for what is not there.
Reinstalls(list) ==
  /\ \A d \in Databases : <<"install", d>> \in Elements(list)
  /\ {<<"attach", "replica">>, <<"create", "replica">>, <<"save", "replica">>}
       \subseteq Elements(list)

LEMMA NotEmpty == ASSUME NEW s \in Seq(Step), Elements(s) # {} PROVE s # <<>>
BY DEF Elements

LEMMA Joined ==
  ASSUME NEW s \in Seq(Step), NEW t \in Seq(Step)
  PROVE  \E u \in Seq(Step) : /\ u = s \o t
                              /\ Elements(s) \subseteq Elements(u)
                              /\ Elements(t) \subseteq Elements(u)
<1>1. s \o t \in Seq(Step) /\ Elements(s \o t) = Elements(s) \cup Elements(t)
  BY ElementsConcat
<1>2. QED
  BY <1>1

LEMMA ReinstallStepsHave ==
  ReinstallSteps \in Seq(Step) /\ ReinstallSteps # <<>> /\ Reinstalls(ReinstallSteps)
<1>1. PICK front \in Seq(Step) :
        front = Extensions \o Passwords /\ Elements(Extensions) \subseteq Elements(front)
  BY LastSteps, Joined
<1>2. ReinstallSteps \in Seq(Step)
      /\ Elements(ReinstallSteps) = Elements(front) \cup Elements(EnsureReplica)
  <2>1. ReinstallSteps = front \o EnsureReplica
    BY <1>1 DEF ReinstallSteps
  <2>2. QED
    BY <2>1, LastSteps, ElementsConcat
<1>3. Reinstalls(ReinstallSteps)
  BY <1>1, <1>2, LastSteps DEF Reinstalls
<1>4. QED
  BY <1>2, <1>3, NotEmpty DEF Reinstalls

\* The list of a fresh run also creates and saves the primary.
LEMMA MainStepsHave ==
  /\ MainSteps \in Seq(Step) /\ MainSteps # <<>> /\ Reinstalls(MainSteps)
  /\ <<"create", "db">> \in Elements(MainSteps) /\ <<"save", "db">> \in Elements(MainSteps)
<1>1. \A k \in Kinds : Creation(k) \in Seq(Step)
  BY CreationSteps
<1>2. PICK a \in Seq(Step) : a = Creation("exec_role") \o Creation("lambda")
  BY <1>1, Joined DEF Kinds
<1>3. PICK b \in Seq(Step) : b = a \o Creation("invoke_role")
  BY <1>1, Joined DEF Kinds
<1>4. PICK c \in Seq(Step) : c = b \o Creation("sg")
  BY <1>1, Joined DEF Kinds
<1>5. PICK d \in Seq(Step) : d = c \o Creation("subgrp")
  BY <1>1, Joined DEF Kinds
<1>6. PICK e \in Seq(Step) : e = d \o Creation("pg")
  BY <1>1, Joined DEF Kinds
<1>7. PICK f \in Seq(Step) :
        f = e \o Creation("db") /\ Elements(Creation("db")) \subseteq Elements(f)
  BY <1>1, Joined DEF Kinds
<1>8. PICK attach \in Seq(Step) : attach = <<<<"attach", "db">>>>
  <2>1. <<"attach", "db">> \in Step
    BY DEF Step, Instances
  <2>2. QED
    BY <2>1, ElementsFew
<1>9. PICK g \in Seq(Step) : g = f \o attach /\ Elements(f) \subseteq Elements(g)
  BY Joined
<1>10. PICK h \in Seq(Step) :
         /\ h = g \o Extensions /\ Elements(g) \subseteq Elements(h)
         /\ Elements(Extensions) \subseteq Elements(h)
  BY LastSteps, Joined
<1>11. PICK i \in Seq(Step) : i = h \o Passwords /\ Elements(h) \subseteq Elements(i)
  BY LastSteps, Joined
<1>12. PICK m \in Seq(Step) :
         /\ m = i \o EnsureReplica /\ Elements(i) \subseteq Elements(m)
         /\ Elements(EnsureReplica) \subseteq Elements(m)
  BY LastSteps, Joined
<1>13. MainSteps = m
  BY <1>2, <1>3, <1>4, <1>5, <1>6, <1>7, <1>8, <1>9, <1>10, <1>11, <1>12 DEF MainSteps
<1>14. {<<"create", "db">>, <<"save", "db">>} \subseteq Elements(m)
  <2>1. {<<"create", "db">>, <<"save", "db">>} \subseteq Elements(Creation("db"))
    BY CreationSteps DEF Kinds
  <2>2. QED
    BY <2>1, <1>7, <1>9, <1>10, <1>11, <1>12
<1>15. Reinstalls(m)
  BY <1>10, <1>11, <1>12, LastSteps DEF Reinstalls
<1>16. QED
  BY <1>13, <1>14, <1>15, NotEmpty DEF Reinstalls

-----------------------------------------------------------------------------
(* The initial states, and steps that leave the resources alone. *)

LEMMA HarnessInit == Init => HarnessInv
<1> SUFFICES ASSUME Init PROVE HarnessInv
  OBVIOUS
<1> USE DEF Init
<1>1. AwsInv
  BY DEF AwsInv
<1>2. ContentInv
  BY HarnessBoundsAssumption DEF ContentInv
<1>3. FileInv
  <2>1. NoFile \in File /\ NoFile.saved = {}
    BY HarnessBoundsAssumption DEF NoFile, File
  <2>2. QED
    BY <2>1 DEF FileInv
<1>4. RunInv
  <2>1. starts \in 0..MaxStarts /\ password \in 0..MaxStarts
    BY HarnessBoundsAssumption
  <2>2. QED
    BY <2>1 DEF RunInv, Codes
<1>5. StepInv
  <2>1. steps \in Seq(Step)
    OBVIOUS
  <2>2. QED
    BY <2>1 DEF StepInv
<1>6. FaultInv
  <2>1. faults \in 0..MaxFaults
    BY HarnessBoundsAssumption
  <2>2. QED
    BY <2>1 DEF FaultInv
<1>7. TeardownInv
  <2>1. DOMAIN todo = {} /\ todo \in [DOMAIN todo -> 1..8]
    BY DEF NoTodo
  <2>2. QED
    BY <2>1 DEF TeardownInv
<1>8. /\ StayInv /\ SetupInv /\ DeleteInv /\ ErrorsOnlyFromFaults
      /\ InstalledWhenProved
  BY DEF StayInv, SetupInv, DeleteInv, Deleting, ErrorsOnlyFromFaults, InstalledWhenProved
<1>9. FileOutlivesResources /\ OneRunAtATime
  BY DEF FileOutlivesResources, OneRunAtATime, Of
<1>10. QED
  BY <1>1, <1>2, <1>3, <1>4, <1>5, <1>6, <1>7, <1>8, <1>9
     DEF HarnessInv, HarnessTypes, SafetyInv

\* The safety invariants hold after a step that changes no resource and no
\* file, forgets no misleading listing and begins neither setup, nor tests, nor
\* a deletion.
LEMMA Quiet ==
  ASSUME SafetyInv, UNCHANGED <<aws, doomed, ready, file>>, blind => blind',
         pc' \in {"setup", "prove"} => pc' = pc /\ UNCHANGED <<run, steps, leftover>>,
         StayInv',
         Deleting' => UNCHANGED <<tpc, target, todo, errors, disturbed, leftover>>,
         errors' => disturbed' \/ leftover'
  PROVE  SafetyInv'
<1>1. \A r \in Runs : Of(r)' = Of(r)
  BY DEF Of
<1>3. SetupInv'
  <2> SUFFICES ASSUME pc' = "setup" PROVE SetupInv'
    BY DEF SetupInv
  <2>1. pc = "setup" /\ UNCHANGED <<run, steps, leftover>>
    OBVIOUS
  <2>2. Of(run)' = Of(run) /\ Elements(steps)' = Elements(steps)
    BY <2>1 DEF Of, Elements
  <2>3. QED
    BY <1>1, <2>1, <2>2 DEF SafetyInv, SetupInv
<1>4. DeleteInv'
  <2> SUFFICES ASSUME Deleting' PROVE DeleteInv'
    BY DEF DeleteInv
  <2>1. UNCHANGED <<tpc, target, todo, errors, disturbed, leftover>>
    OBVIOUS
  <2>2. Of(target)' = Of(target) /\ Going(target)' = Going(target) /\ Deleting
    BY <2>1 DEF Of, Going, Deleting
  <2>3. \A k : First(k)' = First(k)
    BY <2>1 DEF First
  <2>4. QED
    BY <2>1, <2>2, <2>3 DEF SafetyInv, DeleteInv
<1>5. FileOutlivesResources' /\ OneRunAtATime'
  BY <1>1 DEF SafetyInv, FileOutlivesResources, OneRunAtATime
<1>6. ErrorsOnlyFromFaults'
  BY DEF ErrorsOnlyFromFaults
<1>7. InstalledWhenProved'
  <2> SUFFICES ASSUME pc' = "prove" PROVE InstalledWhenProved'
    BY DEF InstalledWhenProved
  <2>1. pc = "prove" /\ run' = run /\ leftover' = leftover
    OBVIOUS
  <2>2. Of(run)' = Of(run)
    BY <2>1 DEF Of
  <2>3. QED
    BY <2>1, <2>2 DEF SafetyInv, InstalledWhenProved
<1>8. QED
  BY <1>3, <1>4, <1>5, <1>6, <1>7 DEF SafetyInv

\* StayInv holds where no program starts on a run.
LEMMA Staying ==
  ASSUME SafetyInv,
         pc' \in {"reuse", "preflight", "setup", "prove"} =>
           /\ pc \in {"reuse", "preflight", "setup", "prove"}
           /\ UNCHANGED <<run, doomed, leftover>>
  PROVE  StayInv'
<1> SUFFICES ASSUME pc' \in {"reuse", "preflight", "setup", "prove"}
             PROVE  leftover' \/ Going(run)' = {}
  BY DEF StayInv
<1>1. UNCHANGED <<run, doomed, leftover>> /\ (leftover \/ Going(run) = {})
  BY DEF SafetyInv, StayInv
<1>2. Going(run)' = Going(run)
  BY <1>1 DEF Going
<1>3. QED
  BY <1>1, <1>2

\* A fault is counted.
LEMMA Counted ==
  ASSUME FaultInv, NEW k, Fault(k)
  PROVE  faults' \in 0..MaxFaults /\ faults' # faults
<1>1. PICK n \in 0..MaxFaults : n = faults
  BY DEF FaultInv
<1>2. faults' = n + 1 /\ n < MaxFaults
  BY <1>1 DEF Fault
<1>3. QED
  BY <1>1, <1>2, HarnessBoundsAssumption

LEMMA CallCounted == ASSUME FaultInv, CallFails PROVE faults' \in 0..MaxFaults
BY Counted DEF CallFails, FaultInv

\* A listing shows all there is, or is a fault and misleads.
LEMMA Listed ==
  ASSUME FaultInv, NEW all, NEW shown, Listing(all, shown)
  PROVE  /\ shown \subseteq all /\ FaultInv' /\ (blind => blind')
         /\ \/ shown = all /\ faults' = faults /\ blind' = blind
            \/ blind' /\ faults' # faults
<1>1. CASE shown = all /\ UNCHANGED <<faults, blind>>
  BY <1>1 DEF FaultInv
<1>2. CASE /\ Fault("hidden") /\ blind' = TRUE
           /\ \E r \in Runs, k \in Hideable : <<r, k>> \in all /\ shown = all \ {<<r, k>>}
  <2>1. faults' \in 0..MaxFaults /\ faults' # faults
    BY <1>2, Counted
  <2>2. shown \subseteq all
    BY <1>2
  <2>3. QED
    BY <1>2, <2>1, <2>2 DEF FaultInv
<1>3. QED
  BY <1>1, <1>2 DEF Listing

\* The invariant, taken apart.
LEMMA TypesHold ==
  HarnessInv => /\ AwsInv /\ ContentInv /\ FileInv /\ RunInv /\ StepInv /\ FaultInv
                /\ TeardownInv /\ SafetyInv
BY DEF HarnessInv, HarnessTypes

\* And for an END block or an operator that starts a teardown.
LEMMA TeardownStarts ==
  ASSUME TeardownInv, NEW r \in Runs, StartTeardown(r), pc' \in {"idle", "wait"},
         pc' = "wait" => r = run', tpc = "idle"
  PROVE  TeardownInv'
BY DEF StartTeardown, TeardownInv

\* One that is over has forgotten what it did.
LEMMA EndsClean ==
  ASSUME TeardownInv, TeardownEnds, target' = target
  PROVE  TeardownInv'
<1>1. DOMAIN NoTodo = {} /\ NoTodo \in [DOMAIN NoTodo -> 1..8]
  BY DEF NoTodo
<1>2. todo' = NoTodo /\ tpc' = "idle" /\ pc' = "idle"
      /\ errors' = FALSE /\ disturbed' = FALSE /\ leftover' = FALSE
  BY DEF TeardownEnds
<1>3. QED
  BY <1>1, <1>2 DEF TeardownInv

-----------------------------------------------------------------------------
(* run.pl, preflight.py and the operator. *)

LEMMA StartStep == ASSUME HarnessInv, NEW r \in Runs, Start(r) PROVE HarnessInv'
<1> USE TypesHold
<1>1. /\ UNCHANGED <<aws, doomed, session, ready, role, file, steps, password>>
      /\ UNCHANGED <<tpc, target, todo, errors, disturbed, faults, blind>>
  BY DEF Start, contentVars, setupVars
<1>2. /\ pc = "idle" /\ tpc = "idle" /\ pc' \in {"reuse", "preflight"} /\ run' = r
      /\ used' = used \cup {r} /\ seen' = {} /\ leftover' = (Going(r) # {})
  BY DEF Start
<1>3. AwsInv'
  BY <1>1, <1>2 DEF AwsInv
<1>4. ContentInv' /\ FileInv' /\ FaultInv'
  BY <1>1 DEF ContentInv, FileInv, FaultInv
<1>5. RunInv'
  <2>1. PICK n \in 0..MaxStarts : n = starts
    BY DEF RunInv
  <2>2. starts' = n + 1 /\ n < MaxStarts
    BY <2>1 DEF Start
  <2>3. starts' \in 0..MaxStarts
    BY <2>1, <2>2, HarnessBoundsAssumption
  <2>4. QED
    BY <1>1, <1>2, <2>3 DEF RunInv, Codes
<1>6. StepInv' /\ TeardownInv'
  BY <1>1, <1>2 DEF StepInv, TeardownInv
<1>7. SafetyInv'
  <2>1. Going(run)' = Going(r)
    BY <1>1, <1>2 DEF Going
  <2>2. StayInv'
    BY <1>2, <2>1 DEF StayInv
  <2>3. ~errors /\ ~Deleting'
    BY <1>1, <1>2 DEF TeardownInv, Deleting
  <2>4. QED
    BY <1>1, <1>2, <2>2, <2>3, Quiet
<1>8. QED
  BY <1>3, <1>4, <1>5, <1>6, <1>7 DEF HarnessInv, HarnessTypes

LEMMA OperateStep == ASSUME HarnessInv, NEW r \in Runs, Operate(r) PROVE HarnessInv'
<1> USE TypesHold
<1>1. /\ UNCHANGED <<aws, doomed, session, ready, role, file, used, run, starts, pc>>
      /\ UNCHANGED <<steps, password, faults, blind>>
  BY DEF Operate, contentVars, runVars, setupVars
<1>2. pc = "idle" /\ tpc = "idle" /\ StartTeardown(r) /\ seen' = {}
  BY DEF Operate, Idle
<1>3. AwsInv' /\ ContentInv' /\ FileInv' /\ RunInv' /\ StepInv' /\ FaultInv'
  BY <1>1, <1>2 DEF AwsInv, ContentInv, FileInv, RunInv, StepInv, FaultInv
<1>4. TeardownInv'
  BY <1>1, <1>2, TeardownStarts
<1>5. SafetyInv'
  <2>1. StayInv'
    BY <1>1, <1>2, Staying
  <2>2. ~errors' /\ ~Deleting'
    BY <1>2 DEF StartTeardown, TeardownInv, Deleting
  <2>3. QED
    BY <1>1, <1>2, <2>1, <2>2, Quiet
<1>6. QED
  BY <1>3, <1>4, <1>5 DEF HarnessInv, HarnessTypes

LEMMA EndStep == ASSUME HarnessInv, End PROVE HarnessInv'
<1> USE TypesHold
<1>1. /\ UNCHANGED <<aws, doomed, session, ready, role, file, used, run, starts>>
      /\ UNCHANGED <<steps, password, seen, faults, blind>>
  BY DEF End, contentVars, runVars, setupVars
<1>2. /\ pc = "end" /\ tpc = "idle" /\ ~errors
      /\ \/ pc' = "idle" /\ UNCHANGED <<tpc, target, todo, errors, disturbed, leftover>>
         \/ pc' = "wait" /\ StartTeardown(run)
  BY DEF End, teardownVars, TeardownInv
<1>3. AwsInv' /\ ContentInv' /\ FileInv' /\ StepInv' /\ FaultInv'
  BY <1>1, <1>2 DEF AwsInv, ContentInv, FileInv, StepInv, FaultInv
<1>4. RunInv'
  BY <1>1, <1>2 DEF RunInv, Codes
<1>5. TeardownInv' /\ SafetyInv'
  <2> StayInv'
    BY <1>2, Staying
  <2>1. CASE pc' = "idle" /\ UNCHANGED <<tpc, target, todo, errors, disturbed, leftover>>
    <3>1. TeardownInv'
      BY <2>1 DEF TeardownInv
    <3>2. SafetyInv'
      BY <1>1, <1>2, <2>1, Quiet DEF Deleting
    <3>3. QED
      BY <3>1, <3>2
  <2>2. CASE pc' = "wait" /\ StartTeardown(run)
    <3>1. TeardownInv'
      BY <1>1, <1>2, <2>2, TeardownStarts DEF RunInv
    <3>2. SafetyInv'
      BY <1>1, <1>2, <2>2, Quiet DEF StartTeardown, Deleting
    <3>3. QED
      BY <3>1, <3>2
  <2>3. QED
    BY <1>2, <2>1, <2>2
<1>6. QED
  BY <1>3, <1>4, <1>5 DEF HarnessInv, HarnessTypes

\* run.pl goes to its END block, or a signal ends it: no teardown is running.
DiesInto(next) ==
  /\ UNCHANGED <<aws, doomed, session, ready, role, file, used, run, starts, password>>
  /\ UNCHANGED <<tpc, target, todo, errors, disturbed, leftover, seen, blind>>
  /\ pc' = next /\ steps' = <<>> /\ tpc = "idle"
  /\ faults' \in 0..MaxFaults

LEMMA GivesUp ==
  ASSUME HarnessInv, NEW next \in {"idle", "end"}, DiesInto(next), pc # "idle"
  PROVE  HarnessInv'
<1> USE TypesHold DEF DiesInto
<1>1. AwsInv' /\ ContentInv' /\ FileInv' /\ FaultInv'
  BY DEF AwsInv, ContentInv, FileInv, FaultInv
<1>2. RunInv'
  BY DEF RunInv, Codes
<1>3. StepInv'
  <2>1. steps' \in Seq(Step)
    OBVIOUS
  <2>2. QED
    BY <2>1 DEF StepInv
<1>4. TeardownInv'
  BY DEF TeardownInv
<1>5. SafetyInv'
  <2>1. StayInv'
    BY Staying
  <2>2. QED
    BY <2>1, Quiet DEF SafetyInv, ErrorsOnlyFromFaults
<1>6. QED
  BY <1>1, <1>2, <1>3, <1>4, <1>5 DEF HarnessInv, HarnessTypes

\* No teardown is under way while setup.py, preflight.py or the tests are.
LEMMA NoTeardown ==
  ASSUME HarnessInv, pc \notin {"idle", "wait"} PROVE tpc = "idle"
BY TypesHold DEF TeardownInv

LEMMA ProveStep == ASSUME HarnessInv, Prove PROVE HarnessInv'
<1>1. DiesInto("end") /\ pc # "idle"
  BY TypesHold, NoTeardown DEF Prove, Dies, DiesInto, contentVars, runVars, teardownVars,
                               FaultInv
<1>2. QED
  BY <1>1, GivesUp

LEMMA ListOrphansStep == ASSUME HarnessInv, ListOrphans PROVE HarnessInv'
<1> USE TypesHold
<1>1. /\ UNCHANGED <<aws, doomed, session, ready, role, file, used, run, starts, pc>>
      /\ UNCHANGED <<steps, password, tpc, target, todo, errors, disturbed, leftover>>
  BY DEF ListOrphans, contentVars, runVars, setupVars, teardownVars
<1>2. PICK shown \in SUBSET aws :
        /\ Listing(aws, shown)
        /\ seen' = {r \in Runs : \E k \in Kinds : <<r, k>> \in shown}
  BY DEF ListOrphans
<1>3. FaultInv' /\ (blind => blind')
  BY <1>2, Listed
<1>4. seen' \subseteq used
  BY <1>2 DEF AwsInv
<1>5. AwsInv' /\ ContentInv' /\ FileInv' /\ RunInv' /\ StepInv' /\ TeardownInv'
  BY <1>1, <1>4 DEF AwsInv, ContentInv, FileInv, RunInv, StepInv, TeardownInv
<1>6. SafetyInv'
  <2>1. StayInv'
    BY <1>1, Staying
  <2>2. QED
    BY <1>1, <1>3, <2>1, Quiet DEF SafetyInv, ErrorsOnlyFromFaults
<1>7. QED
  BY <1>3, <1>5, <1>6 DEF HarnessInv, HarnessTypes

\* A login, or the end of the session.
LEMMA SessionStep == ASSUME HarnessInv, Login \/ Expire PROVE HarnessInv'
<1> USE TypesHold
<1>1. /\ UNCHANGED <<aws, doomed, ready, role, file, used, run, starts, pc, steps>>
      /\ UNCHANGED <<password, tpc, target, todo, errors, disturbed, leftover, seen, blind>>
  BY DEF Login, Expire, contentVars, runVars, setupVars, teardownVars
<1>2. session' \in BOOLEAN
  BY DEF Login, Expire
<1>3. faults' \in 0..MaxFaults
  BY Counted DEF Login, Expire, FaultInv
<1>4. AwsInv' /\ FaultInv'
  BY <1>1, <1>2, <1>3 DEF AwsInv, FaultInv
<1>5. ContentInv' /\ FileInv' /\ RunInv' /\ StepInv' /\ TeardownInv'
  BY <1>1 DEF ContentInv, FileInv, RunInv, StepInv, TeardownInv
<1>6. SafetyInv'
  <2>1. StayInv'
    BY <1>1, Staying
  <2>2. QED
    BY <1>1, <2>1, Quiet DEF SafetyInv, ErrorsOnlyFromFaults
<1>7. QED
  BY <1>4, <1>5, <1>6 DEF HarnessInv, HarnessTypes

\* Ctrl-C: a program is gone, or the tests give way to the END block.
LEMMA InterruptStep == ASSUME HarnessInv, Interrupt PROVE HarnessInv'
<1> USE TypesHold
<1>1. /\ UNCHANGED <<aws, doomed, session, ready, role, file, used, run, starts, password>>
      /\ UNCHANGED <<seen, blind>>
  BY DEF Interrupt, contentVars, runVars
<1>2. faults' \in 0..MaxFaults
  BY Counted DEF Interrupt
<1>3. CASE /\ pc \in {"preflight", "reuse", "setup"}
           /\ pc' = "idle" /\ steps' = <<>> /\ UNCHANGED teardownVars
  <2>1. DiesInto("idle") /\ pc # "idle"
    BY <1>1, <1>2, <1>3, NoTeardown DEF DiesInto, teardownVars
  <2>2. QED
    BY <2>1, GivesUp
<1>4. CASE pc = "prove" /\ Dies /\ UNCHANGED teardownVars
  <2>1. DiesInto("end") /\ pc # "idle"
    BY <1>1, <1>2, <1>4, NoTeardown DEF DiesInto, Dies, teardownVars
  <2>2. QED
    BY <2>1, GivesUp
<1>5. CASE tpc # "idle" /\ TeardownKilled /\ UNCHANGED <<steps, target>>
  <2>1. /\ pc' = "idle" /\ tpc' = "idle" /\ steps' = steps /\ pc \in {"idle", "wait"}
        /\ target' = target /\ TeardownEnds
    BY <1>5 DEF TeardownKilled, TeardownEnds, TeardownInv
  <2>2. AwsInv' /\ ContentInv' /\ FileInv' /\ FaultInv'
    BY <1>1, <1>2 DEF AwsInv, ContentInv, FileInv, FaultInv
  <2>3. RunInv' /\ StepInv'
    BY <1>1, <2>1 DEF RunInv, Codes, StepInv
  <2>4. TeardownInv'
    BY <2>1, EndsClean
  <2>5. SafetyInv'
    <3>1. StayInv' /\ ~errors' /\ ~Deleting'
      BY <2>1, Staying DEF TeardownEnds, Deleting
    <3>2. QED
      BY <1>1, <2>1, <3>1, Quiet
  <2>6. QED
    BY <2>2, <2>3, <2>4, <2>5 DEF HarnessInv, HarnessTypes
<1>6. QED
  BY <1>3, <1>4, <1>5 DEF Interrupt

\* A reinstallation starts on the database of its run, so that no other run can
\* have anything, and on a file that records the instances.
LEMMA ReuseStep == ASSUME HarnessInv, Reuse PROVE HarnessInv'
<1> USE TypesHold
<1>1. /\ UNCHANGED <<aws, doomed, session, ready, role, file, used, run, starts>>
      /\ UNCHANGED <<password, tpc, target, todo, errors, disturbed, leftover, seen, faults, blind>>
      /\ pc = "reuse"
  BY DEF Reuse, contentVars, runVars, teardownVars
<1>2. tpc = "idle"
  BY <1>1, NoTeardown
<1>3. CASE ~Reusable
  <2>1. DiesInto("end") /\ pc # "idle"
    BY <1>1, <1>2, <1>3 DEF Reuse, Dies, DiesInto, FaultInv
  <2>2. QED
    BY <2>1, GivesUp
<1>4. CASE Reusable
  <2>1. pc' = "setup" /\ steps' = ReinstallSteps
    BY <1>4 DEF Reuse
  <2>2. AwsInv' /\ ContentInv' /\ FileInv' /\ FaultInv'
    BY <1>1 DEF AwsInv, ContentInv, FileInv, FaultInv
  <2>3. RunInv' /\ TeardownInv'
    BY <1>1, <1>2, <2>1 DEF RunInv, Codes, TeardownInv
  <2>4. StepInv'
    BY <2>1, ReinstallStepsHave DEF StepInv
  <2>5. /\ run \in Runs /\ "db" \in file[run].saved /\ file[run].exists
        /\ "db" \in Of(run)
    BY <1>4 DEF Reusable, Of, Kinds, FileInv, RunInv
  <2>6. \A q \in Runs : Of(q)' = Of(q)
    BY <1>1 DEF Of
  <2>7. blind \/ \A q \in Runs : Of(q) # {} => q = run
    BY <2>5 DEF SafetyInv, OneRunAtATime
  <2>8. SetupInv' /\ StayInv'
    <3>1. StayInv'
      BY <1>1, <2>1, Staying
    <3>2. \A d \in Databases : <<"install", d>> \in Elements(steps')
      BY <2>1, ReinstallStepsHave DEF Reinstalls
    <3>3. {<<"attach", "replica">>, <<"create", "replica">>, <<"save", "replica">>}
             \subseteq Elements(steps')
      BY <2>1, ReinstallStepsHave DEF Reinstalls
    <3>4. Elements(steps)' = Elements(steps')
      BY DEF Elements
    <3>5. /\ file'[run'].exists /\ "db" \in file'[run'].saved /\ "db" \in Of(run)'
          /\ blind' \/ \A q \in Runs : Of(q)' # {} => q = run'
      BY <1>1, <2>5, <2>6, <2>7
    <3>6. /\ \A k \in Instances : k \in Of(run)' \/ <<"create", k>> \in Elements(steps')
          /\ \A k \in Instances : k \in file'[run'].saved \/ <<"save", k>> \in Elements(steps')
      BY <3>3, <3>5 DEF Instances
    <3>7. QED
      BY <3>1, <3>2, <3>3, <3>4, <3>5, <3>6 DEF SetupInv
  <2>9. FileOutlivesResources' /\ OneRunAtATime'
    BY <1>1, <2>6 DEF SafetyInv, FileOutlivesResources, OneRunAtATime
  <2>10. DeleteInv' /\ ErrorsOnlyFromFaults' /\ InstalledWhenProved'
    BY <1>1, <1>2, <2>1
       DEF SafetyInv, DeleteInv, Deleting, ErrorsOnlyFromFaults, InstalledWhenProved
  <2>11. QED
    BY <2>2, <2>3, <2>4, <2>8, <2>9, <2>10 DEF HarnessInv, HarnessTypes, SafetyInv
<1>5. QED
  BY <1>3, <1>4

\* A fresh setup starts when a listing shows nothing at all, with the file.
LEMMA PreflightStep == ASSUME HarnessInv, Preflight PROVE HarnessInv'
<1> USE TypesHold
<1>1. /\ UNCHANGED <<aws, doomed, session, ready, role, used, run, starts>>
      /\ UNCHANGED <<password, tpc, target, todo, errors, disturbed, leftover, seen>>
      /\ pc = "preflight"
  BY DEF Preflight, contentVars, runVars, teardownVars
<1>2. tpc = "idle" /\ run \in Runs
  BY <1>1, NoTeardown DEF RunInv
<1>3. CASE Refuse
  <2>1. DiesInto("end") /\ pc # "idle"
    BY <1>1, <1>2, <1>3 DEF Refuse, Dies, DiesInto, FaultInv
  <2>2. QED
    BY <2>1, GivesUp
<1>4. ASSUME NEW shown \in SUBSET aws, Listing(aws, shown),
             IF Stale(shown)
             THEN Dies /\ UNCHANGED file
             ELSE /\ file' = [file EXCEPT ![run] = [NoFile EXCEPT !.exists = TRUE]]
                  /\ pc' = "setup" /\ steps' = MainSteps
      PROVE  HarnessInv'
  <2>1. /\ FaultInv' /\ (blind => blind')
        /\ \/ shown = aws /\ faults' = faults /\ blind' = blind
           \/ blind' /\ faults' # faults
    BY <1>4, Listed
  <2>2. AwsInv' /\ ContentInv'
    BY <1>1 DEF AwsInv, ContentInv
  <2>3. CASE Stale(shown)
    <3>1. pc' = "end" /\ steps' = <<>> /\ file' = file
      BY <1>4, <2>3 DEF Dies
    <3>2. FileInv' /\ RunInv' /\ TeardownInv'
      BY <1>1, <1>2, <3>1 DEF FileInv, RunInv, Codes, TeardownInv
    <3>3. steps' \in Seq(Step)
      BY <3>1
    <3>4. StepInv'
      BY <3>1, <3>3 DEF StepInv
    <3>5. SafetyInv'
      <4>1. StayInv'
        BY <3>1, Staying
      <4>2. QED
        BY <1>1, <1>2, <2>1, <3>1, <4>1, Quiet DEF SafetyInv, ErrorsOnlyFromFaults, Deleting
    <3>6. QED
      BY <2>1, <2>2, <3>2, <3>4, <3>5 DEF HarnessInv, HarnessTypes
  <2>4. CASE ~Stale(shown)
    <3>1. /\ file' = [file EXCEPT ![run] = [NoFile EXCEPT !.exists = TRUE]]
          /\ pc' = "setup" /\ steps' = MainSteps /\ shown = {}
      BY <1>4, <2>4 DEF Stale
    <3>2. PICK new \in File : new = [NoFile EXCEPT !.exists = TRUE] /\ new.exists
      <4>1. NoFile \in File
        BY HarnessBoundsAssumption DEF NoFile, File
      <4>2. \A f \in File : /\ [f EXCEPT !.exists = TRUE] \in File
                            /\ [f EXCEPT !.exists = TRUE].exists
        BY DEF File
      <4>3. QED
        BY <4>1, <4>2
    <3>3. /\ file' \in [Runs -> File] /\ file'[run] = new
          /\ \A r \in Runs \ {run} : file'[r] = file[r]
      BY <1>2, <3>1, <3>2 DEF FileInv
    <3>4. FileInv'
      BY <3>2, <3>3 DEF FileInv
    <3>5. RunInv' /\ TeardownInv'
      BY <1>1, <1>2, <3>1 DEF RunInv, Codes, TeardownInv
    <3>6. StepInv'
      BY <3>1, MainStepsHave DEF StepInv
    <3>7. blind' \/ \A q \in Runs : Of(q)' = {}
      BY <1>1, <2>1, <3>1 DEF Of
    <3>8. SetupInv' /\ StayInv'
      <4> StayInv'
        BY <1>1, <3>1, Staying
      <4>1. <<"create", "db">> \in Elements(steps)' /\ <<"save", "db">> \in Elements(steps)'
        BY <3>1, MainStepsHave DEF Elements
      <4>2. /\ \A d \in Databases : <<"install", d>> \in Elements(steps)'
            /\ {<<"attach", "replica">>, <<"create", "replica">>, <<"save", "replica">>}
                  \subseteq Elements(steps)'
        BY <3>1, MainStepsHave DEF Elements, Reinstalls
      <4>3. blind' \/ \A q \in Runs : Of(q)' # {} => q = run'
        BY <3>7
      <4>4. file'[run'].exists
        BY <1>1, <3>2, <3>3
      <4>5. QED
        BY <4>1, <4>2, <4>3, <4>4 DEF SetupInv, Instances
    <3>9. FileOutlivesResources' /\ OneRunAtATime'
      BY <3>7 DEF FileOutlivesResources, OneRunAtATime
    <3>10. DeleteInv' /\ ErrorsOnlyFromFaults' /\ InstalledWhenProved'
      BY <1>1, <1>2, <3>1
         DEF SafetyInv, DeleteInv, Deleting, ErrorsOnlyFromFaults, InstalledWhenProved
    <3>11. QED
      BY <2>1, <2>2, <3>4, <3>5, <3>6, <3>8, <3>9, <3>10
         DEF HarnessInv, HarnessTypes, SafetyInv
  <2>5. QED
    BY <2>3, <2>4
<1>5. QED
  BY <1>3, <1>4 DEF Preflight

-----------------------------------------------------------------------------
(* The steps of setup.py. *)

\* What a step of setup.py leaves alone, and what it can only add to.
SetupFrame ==
  /\ UNCHANGED <<doomed, session, used, run, starts, seen, blind>>
  /\ UNCHANGED <<tpc, target, todo, errors, disturbed, leftover>>
  /\ pc = "setup" /\ aws \subseteq aws'
  /\ \A q \in Runs \ {run} : Of(q)' = Of(q) /\ file'[q] = file[q]
  /\ file'[run].exists

SetupSafe == AwsInv' /\ RunInv' /\ StepInv' /\ TeardownInv' /\ SafetyInv'

\* With or without the step done, the invariants about the files hold.
LEMMA SetupFiles ==
  ASSUME HarnessInv, SetupFrame
  PROVE  /\ tpc = "idle" /\ run \in Runs
         /\ blind' \/ \A q \in Runs : Of(q)' # {} => q = run
         /\ FileOutlivesResources' /\ OneRunAtATime' /\ ErrorsOnlyFromFaults'
         /\ TeardownInv' \/ pc' = "wait"
         /\ StayInv' \/ pc' \in {"reuse", "preflight"}
<1> USE TypesHold
<1>1. tpc = "idle" /\ run \in Runs
  BY NoTeardown DEF SetupFrame, RunInv
<1>2. blind' \/ \A q \in Runs : Of(q)' # {} => q = run
  <2>1. blind \/ \A q \in Runs : Of(q) # {} => q = run
    BY DEF SetupFrame, SafetyInv, SetupInv
  <2>2. QED
    BY <2>1 DEF SetupFrame
<1>3. FileOutlivesResources'
  BY <1>2 DEF SetupFrame, FileOutlivesResources
<1>4. OneRunAtATime'
  BY <1>2 DEF OneRunAtATime
<1>5. ErrorsOnlyFromFaults'
  BY DEF SetupFrame, SafetyInv, ErrorsOnlyFromFaults
<1>6. TeardownInv' \/ pc' = "wait"
  BY <1>1 DEF SetupFrame, TeardownInv
<1>7. StayInv' \/ pc' \in {"reuse", "preflight"}
  BY Staying DEF SetupFrame
<1>8. QED
  BY <1>1, <1>2, <1>3, <1>4, <1>5, <1>6, <1>7

\* A step fails.
LEMMA SetupDies ==
  ASSUME HarnessInv, SetupFrame, Dies, aws' \subseteq used \X Kinds,
         password' \in 0..MaxStarts
  PROVE  SetupSafe
<1> USE TypesHold
<1>1. AwsInv'
  BY DEF AwsInv, SetupFrame
<1>2. RunInv'
  BY DEF RunInv, SetupFrame, Dies, Codes
<1>3. StepInv'
  <2>1. steps' \in Seq(Step)
    BY DEF Dies
  <2>2. QED
    BY <2>1 DEF StepInv, Dies
<1>4. SafetyInv'
  BY SetupFiles
     DEF SafetyInv, SetupInv, DeleteInv, Deleting, InstalledWhenProved, SetupFrame, Dies
<1>5. QED
  BY <1>1, <1>2, <1>3, <1>4, SetupFiles DEF SetupSafe, Dies

\* What the step at the head of the list is for.
HeadDone ==
  /\ ready[run] \subseteq ready'[run] /\ file[run].saved \subseteq file'[run].saved
  /\ \A d \in Databases : Head(steps) = <<"install", d>> => d \in ready'[run]
  /\ Head(steps) = <<"attach", "replica">> => "replica" \in ready'[run]
  /\ \A k \in Instances :
       /\ Head(steps) = <<"create", k>> => <<run, k>> \in aws'
       /\ Head(steps) = <<"save", k>> => k \in file'[run].saved

\* A step is done: what remains to be done is in the rest of the list; when
\* that is empty, there is nothing.
LEMMA SetupAdvances ==
  ASSUME HarnessInv, SetupFrame, Advance, HeadDone, aws' \subseteq used \X Kinds,
         password' \in 0..MaxStarts
  PROVE  SetupSafe
<1> USE TypesHold
<1>1. AwsInv'
  BY DEF AwsInv, SetupFrame
<1>2. pc' \in {"setup", "prove"} /\ (pc' = "setup" <=> steps' # <<>>)
  BY DEF Advance, SetupFrame
<1>3. RunInv'
  BY <1>2 DEF RunInv, SetupFrame, Codes
<1>4. /\ steps' \in Seq(Step)
      /\ Elements(steps) \subseteq {Head(steps)} \cup Elements(steps')
  <2>1. steps \in Seq(Step) /\ steps # <<>> /\ steps' = Tail(steps)
    BY DEF StepInv, SetupFrame, Advance
  <2>2. QED
    BY <2>1, ElementsTail
<1>5. StepInv'
  BY <1>2, <1>4 DEF StepInv
<1>6. Of(run)' = {k \in Kinds : <<run, k>> \in aws'} /\ Of(run) \subseteq Of(run)'
  BY DEF Of, SetupFrame
<1>7. /\ leftover \/
           /\ \A d \in Databases : d \in ready'[run] \/ <<"install", d>> \in Elements(steps')
           /\ "replica" \in ready'[run] \/ <<"attach", "replica">> \in Elements(steps')
           /\ \A k \in Instances : k \in Of(run)' \/ <<"create", k>> \in Elements(steps')
      /\ \A k \in Instances :
           k \in file'[run].saved \/ <<"save", k>> \in Elements(steps')
  <2>1. SetupInv /\ pc = "setup"
    BY DEF SafetyInv, SetupFrame
  <2>2. leftover \/ \A d \in Databases :
                       d \in ready'[run] \/ <<"install", d>> \in Elements(steps')
    BY <1>4, <2>1 DEF SetupInv, HeadDone
  <2>3. leftover \/ "replica" \in ready'[run]
                 \/ <<"attach", "replica">> \in Elements(steps')
    BY <1>4, <2>1 DEF SetupInv, HeadDone
  <2>4. ASSUME NEW k \in Instances
        PROVE  leftover \/ k \in Of(run)' \/ <<"create", k>> \in Elements(steps')
    BY <1>4, <1>6, <2>1 DEF SetupInv, HeadDone, Instances, Kinds
  <2>5. ASSUME NEW k \in Instances
        PROVE  k \in file'[run].saved \/ <<"save", k>> \in Elements(steps')
    BY <1>4, <2>1 DEF SetupInv, HeadDone
  <2>6. QED
    BY <2>2, <2>3, <2>4, <2>5
<1>8. run' = run /\ leftover' = leftover /\ file'[run].exists
  BY DEF SetupFrame
<1>10. SetupInv'
  BY <1>7, <1>8, SetupFiles DEF SetupInv, Elements
<1>11. InstalledWhenProved'
  <2> SUFFICES ASSUME pc' = "prove" PROVE InstalledWhenProved'
    BY DEF InstalledWhenProved
  <2>1. Elements(steps') = {}
    BY <1>2 DEF Elements
  <2>2. QED
    BY <1>7, <1>8, <2>1 DEF InstalledWhenProved
<1>12. DeleteInv'
  BY SetupFiles DEF DeleteInv, Deleting, SetupFrame
<1>13. QED
  BY <1>1, <1>2, <1>3, <1>5, <1>10, <1>11, <1>12, SetupFiles DEF SetupSafe, SafetyInv

LEMMA CreateStep == ASSUME HarnessInv, Create PROVE HarnessInv'
<1> USE TypesHold
<1> DEFINE more == aws \cup {<<run, Arg>>}
<1>1. /\ UNCHANGED <<session, ready, role, file, used, run, starts, password>>
      /\ UNCHANGED <<tpc, target, todo, errors, disturbed, leftover, seen, blind>>
      /\ pc = "setup" /\ Op = "create" /\ doomed' = doomed
  BY DEF Create, contentVars, runVars, teardownVars
<1>2. Head(steps) \in Step
  BY <1>1, ElementsTail DEF StepInv
<1>3. Arg \in Kinds /\ Head(steps) = <<"create", Arg>>
  BY <1>1, <1>2 DEF Op, Arg, Step
<1>4. run \in used /\ run \in Runs
  BY <1>1 DEF RunInv
<1>5. more \subseteq used \X Kinds
  BY <1>3, <1>4 DEF AwsInv
<1>6. ContentInv' /\ FileInv'
  BY <1>1 DEF ContentInv, FileInv
<1>7. aws' \in {aws, more} => SetupFrame
  <2> SUFFICES ASSUME aws' \in {aws, more} PROVE SetupFrame
    OBVIOUS
  <2>1. \A q \in Runs \ {run} : Of(q)' = Of(q)
    BY DEF Of
  <2>2. file'[run].exists
    BY <1>1 DEF SafetyInv, SetupInv
  <2>3. QED
    BY <1>1, <2>1, <2>2 DEF SetupFrame
<1>8. CASE aws' = more /\ Advance /\ UNCHANGED faults
  <2>1. HeadDone
    BY <1>1, <1>3, <1>8 DEF HeadDone
  <2>2. SetupSafe
    BY <1>1, <1>5, <1>7, <1>8, <2>1, SetupAdvances DEF RunInv
  <2>3. FaultInv'
    BY <1>1, <1>8 DEF FaultInv
  <2>4. QED
    BY <1>6, <2>2, <2>3 DEF SetupSafe, HarnessInv, HarnessTypes
<1>9. CASE aws' \in {aws, more} /\ Dies /\ (CallFails \/ UNCHANGED faults)
  <2>1. aws' \in {aws, more} /\ aws' \subseteq used \X Kinds
    BY <1>5, <1>9 DEF AwsInv
  <2>2. SetupSafe
    BY <1>1, <1>7, <1>9, <2>1, SetupDies DEF RunInv
  <2>3. faults' \in 0..MaxFaults
    BY <1>9, CallCounted DEF FaultInv
  <2>4. FaultInv'
    BY <1>1, <2>3 DEF FaultInv
  <2>5. QED
    BY <1>6, <2>2, <2>4 DEF SetupSafe, HarnessInv, HarnessTypes
<1>10. QED
  BY <1>8, <1>9 DEF Create

\* save_state, with what it writes being a proper record.
LEMMA SaveStateStep ==
  ASSUME HarnessInv, pc = "setup", NEW record \in File, SaveState(record), record.exists,
         file[run].saved \subseteq record.saved,
         \A k \in Instances : Head(steps) = <<"save", k>> => k \in record.saved,
         Op \in {"save", "record"}
  PROVE  HarnessInv'
<1> USE TypesHold
<1>1. /\ UNCHANGED <<aws, doomed, session, ready, role, used, run, starts, password>>
      /\ UNCHANGED <<tpc, target, todo, errors, disturbed, leftover, seen, faults, blind>>
      /\ Advance /\ file' = [file EXCEPT ![run] = record]
  BY DEF SaveState, contentVars, runVars, teardownVars
<1>2. /\ file' \in [Runs -> File] /\ file'[run] = record
      /\ \A q \in Runs \ {run} : file'[q] = file[q]
  BY <1>1 DEF FileInv, RunInv
<1>3. FileInv'
  BY <1>2 DEF FileInv
<1>4. ContentInv' /\ FaultInv'
  BY <1>1 DEF ContentInv, FaultInv
<1>5. SetupFrame
  BY <1>1, <1>2 DEF SetupFrame, Of
<1>6. Head(steps)[1] \notin {"install", "attach", "create"}
  BY DEF Op
<1>7. HeadDone
  BY <1>1, <1>2, <1>6 DEF HeadDone
<1>8. SetupSafe
  BY <1>1, <1>5, <1>7, SetupAdvances DEF AwsInv, RunInv
<1>9. QED
  BY <1>3, <1>4, <1>8 DEF SetupSafe, HarnessInv, HarnessTypes

LEMMA SaveStep == ASSUME HarnessInv, Save \/ Record PROVE HarnessInv'
<1> USE TypesHold
<1>1. pc = "setup" /\ steps # <<>> /\ steps \in Seq(Step) /\ run \in Runs
  BY DEF Save, Record, StepInv, RunInv
<1>2. file[run] \in File /\ file[run].exists
  BY <1>1 DEF FileInv, SafetyInv, SetupInv
<1>3. Head(steps) \in Step
  BY <1>1, ElementsTail
<1>4. CASE Save
  <2>1. Op = "save" /\ SaveState([file[run] EXCEPT !.saved = @ \cup {Arg}])
    BY <1>4 DEF Save
  <2>2. Arg \in Kinds /\ Head(steps) = <<"save", Arg>>
    BY <1>3, <2>1 DEF Op, Arg, Step
  <2> DEFINE record == [file[run] EXCEPT !.saved = @ \cup {Arg}]
  <2>3. record \in File /\ record.exists /\ record.saved = file[run].saved \cup {Arg}
    BY <1>2, <2>2 DEF File
  <2>4. \A k \in Instances : Head(steps) = <<"save", k>> => k \in record.saved
    BY <2>2, <2>3
  <2>5. QED
    BY <1>1, <2>1, <2>3, <2>4, SaveStateStep
<1>5. CASE Record
  <2>1. Op = "record" /\ SaveState([file[run] EXCEPT !.password = password])
    BY <1>5 DEF Record
  <2>2. password \in 0..MaxStarts
    BY DEF RunInv
  <2> DEFINE record == [file[run] EXCEPT !.password = password]
  <2>3. record \in File /\ record.exists /\ record.saved = file[run].saved
    BY <1>2, <2>2 DEF File
  <2>4. \A k \in Instances : Head(steps) # <<"save", k>>
    BY <2>1 DEF Op
  <2>5. QED
    BY <1>1, <2>1, <2>3, <2>4, SaveStateStep
<1>6. QED
  BY <1>4, <1>5

\* An extension is installed, or a role attached, or the step fails and leaves
\* one more or one less, or neither.
LEMMA InstallStep == ASSUME HarnessInv, Install \/ Attach PROVE HarnessInv'
<1> USE TypesHold
<1> DEFINE more == ready[run] \cup {Arg}
           less == ready[run] \ {Arg}
<1>1. /\ UNCHANGED <<aws, doomed, session, role, file, used, run, starts, password>>
      /\ UNCHANGED <<tpc, target, todo, errors, disturbed, leftover, seen, blind>>
      /\ pc = "setup" /\ Op \in {"install", "attach"}
  BY DEF Install, Attach, runVars, teardownVars
<1>2. Head(steps) \in Step /\ run \in Runs
  BY <1>1, ElementsTail DEF StepInv, RunInv
<1>3. Arg \in Databases \cup Instances /\ Head(steps) = <<Op, Arg>>
  BY <1>1, <1>2 DEF Op, Arg, Step
<1>4. /\ more \subseteq Databases \cup Instances /\ less \subseteq Databases \cup Instances
      /\ ready[run] \subseteq Databases \cup Instances
      /\ ready = [ready EXCEPT ![run] = ready[run]]
  BY <1>2, <1>3 DEF ContentInv
<1>5. FileInv'
  BY <1>1 DEF FileInv
<1>6. SetupFrame
  BY <1>1 DEF SetupFrame, Of, SafetyInv, SetupInv
<1>7. ASSUME NEW left \in SUBSET (Databases \cup Instances),
             ready' = [ready EXCEPT ![run] = left]
      PROVE  ContentInv' /\ ready'[run] = left
  BY <1>1, <1>2, <1>7 DEF ContentInv
<1>8. CASE /\ ready' = [ready EXCEPT ![run] = more] /\ Advance /\ UNCHANGED faults
  <2>1. ContentInv' /\ ready'[run] = more
    BY <1>4, <1>7, <1>8
  <2>2. HeadDone
    BY <1>1, <1>3, <2>1 DEF HeadDone
  <2>3. SetupSafe
    BY <1>1, <1>6, <1>8, <2>2, SetupAdvances DEF AwsInv, RunInv
  <2>4. FaultInv'
    BY <1>1, <1>8 DEF FaultInv
  <2>5. QED
    BY <1>5, <2>1, <2>3, <2>4 DEF SetupSafe, HarnessInv, HarnessTypes
<1>9. CASE /\ CallFails \/ Fault("error") \/ UNCHANGED faults
           /\ \E left \in {less, more, ready[run]} :
                ready' = [ready EXCEPT ![run] = left]
           /\ Dies
  <2>1. PICK left \in {less, more, ready[run]} :
          ready' = [ready EXCEPT ![run] = left]
    BY <1>9
  <2>2. left \in SUBSET (Databases \cup Instances)
    BY <1>4
  <2>3. ContentInv'
    BY <1>7, <2>1, <2>2
  <2>4. faults' \in 0..MaxFaults
    BY <1>9, Counted, CallCounted DEF FaultInv
  <2>5. FaultInv'
    BY <1>1, <2>4 DEF FaultInv
  <2>6. SetupSafe
    BY <1>1, <1>6, <1>9, SetupDies DEF AwsInv, RunInv
  <2>7. QED
    BY <1>5, <2>3, <2>5, <2>6 DEF SetupSafe, HarnessInv, HarnessTypes
<1>10. CASE Install
  <2>1. CASE Advance /\ ready' = [ready EXCEPT ![run] = @ \cup {Arg}] /\ UNCHANGED faults
    BY <1>8, <2>1
  <2>2. CASE /\ Fails(Fault("error"), "db") /\ Dies
             /\ \E left \in {ready[run], ready[run] \ {Arg}, ready[run] \cup {Arg}} :
                  /\ left \subseteq ready[run] \/ <<run, "db">> \in aws
                  /\ ready' = [ready EXCEPT ![run] = left]
    BY <1>9, <2>2 DEF Fails
  <2>3. QED
    BY <1>10, <2>1, <2>2 DEF Install
<1>11. CASE Attach
  <2> DEFINE attached == [ready EXCEPT ![run] = @ \cup {Arg}]
  <2>1. CASE Advance /\ ready' = attached /\ UNCHANGED faults
    BY <1>8, <2>1
  <2>2. CASE /\ Fails(CallFails, Arg) /\ Dies /\ ready' \in {ready, attached}
    <3>1. \/ ready' = [ready EXCEPT ![run] = ready[run]]
          \/ ready' = [ready EXCEPT ![run] = more]
      BY <1>4, <2>2
    <3>2. QED
      BY <1>9, <2>2, <3>1 DEF Fails
  <2>3. QED
    BY <1>11, <2>1, <2>2 DEF Attach
<1>12. QED
  BY <1>10, <1>11

LEMMA RolesStep == ASSUME HarnessInv, Roles PROVE HarnessInv'
<1> USE TypesHold
<1>1. /\ UNCHANGED <<aws, doomed, session, ready, file, used, run, starts>>
      /\ UNCHANGED <<tpc, target, todo, errors, disturbed, leftover, seen, blind>>
      /\ pc = "setup" /\ Op = "roles"
  BY DEF Roles, runVars, teardownVars
<1>2. FileInv' /\ SetupFrame /\ run \in Runs
  BY <1>1 DEF FileInv, RunInv, SetupFrame, Of, SafetyInv, SetupInv
<1>3. faults' \in 0..MaxFaults
  BY Counted DEF Roles, Fails, FaultInv
<1>4. FaultInv'
  BY <1>1, <1>3 DEF FaultInv
<1>5. password' \in 0..MaxStarts /\ ContentInv'
  <2>1. CASE UNCHANGED <<role, password>>
    BY <1>1, <2>1 DEF ContentInv, RunInv
  <2>2. CASE /\ password' = IF file[run].password = 0 THEN starts ELSE file[run].password
             /\ role' = [role EXCEPT ![run] = IF @ = 0 THEN password' ELSE @]
    <3>1. starts \in 0..MaxStarts /\ file[run].password \in 0..MaxStarts
      BY <1>2 DEF RunInv, FileInv, File
    <3>2. PICK new \in 0..MaxStarts : new = password'
      BY <2>2, <3>1
    <3>3. role' \in [Runs -> 0..MaxStarts]
      BY <1>2, <2>2, <3>2 DEF ContentInv
    <3>4. QED
      BY <1>1, <3>2, <3>3 DEF ContentInv
  <2>3. QED
    BY <2>1, <2>2 DEF Roles
<1>6. aws' \subseteq used \X Kinds
  BY <1>1 DEF AwsInv
<1>7. CASE Advance
  <2>1. Head(steps)[1] \notin {"install", "attach", "create", "save"}
    BY <1>1 DEF Op
  <2>2. HeadDone
    BY <1>1, <2>1 DEF HeadDone
  <2>3. SetupSafe
    BY <1>2, <1>5, <1>6, <1>7, <2>2, SetupAdvances
  <2>4. QED
    BY <1>2, <1>4, <1>5, <2>3 DEF SetupSafe, HarnessInv, HarnessTypes
<1>8. CASE Dies
  <2>1. SetupSafe
    BY <1>2, <1>5, <1>6, <1>8, SetupDies
  <2>2. QED
    BY <1>2, <1>4, <1>5, <2>1 DEF SetupSafe, HarnessInv, HarnessTypes
<1>9. QED
  BY <1>7, <1>8 DEF Roles

-----------------------------------------------------------------------------
(* teardown.py. *)

\* What every step of teardown.py leaves alone.
TeardownFrame ==
  /\ UNCHANGED <<session, used, run, starts, steps, password, target, seen>>
  /\ tpc # "idle"

\* It ends: nothing is there, the file is kept, or a listing has misled it.
LEMMA TeardownOver ==
  ASSUME HarnessInv, TeardownFrame, TeardownEnds, UNCHANGED <<aws, doomed, ready, role>>,
         FaultInv', blind => blind',
         file' = file \/ (Unlink /\ (blind' \/ Of(target) = {}))
  PROVE  HarnessInv'
<1> USE TypesHold DEF TeardownFrame, TeardownEnds
<1>1. pc \in {"idle", "wait"} /\ target \in Runs
  BY DEF TeardownInv
<1>2. AwsInv' /\ ContentInv'
  BY DEF AwsInv, ContentInv
<1>3. FileInv'
  <2>1. CASE file' = file
    BY <2>1 DEF FileInv
  <2>2. CASE Unlink
    <3>1. NoFile \in File /\ NoFile.saved = {}
      BY HarnessBoundsAssumption DEF NoFile, File
    <3>2. QED
      BY <2>2, <3>1 DEF FileInv, Unlink
  <2>3. QED
    BY <2>1, <2>2
<1>4. RunInv' /\ StepInv' /\ TeardownInv'
  BY <1>1, EndsClean DEF RunInv, Codes, StepInv
<1>5. \A r \in Runs : Of(r)' = Of(r)
  BY DEF Of
<1>6. FileOutlivesResources'
  <2>1. \A r \in Runs : file'[r] = file[r] \/ (r = target /\ (blind' \/ Of(r) = {}))
    BY <1>1 DEF Unlink, FileInv
  <2>2. QED
    BY <1>5, <2>1 DEF SafetyInv, FileOutlivesResources
<1>7. OneRunAtATime' /\ ErrorsOnlyFromFaults'
  BY <1>5 DEF SafetyInv, OneRunAtATime, ErrorsOnlyFromFaults
<1>8. StayInv' /\ SetupInv' /\ DeleteInv' /\ InstalledWhenProved'
  BY DEF StayInv, SetupInv, DeleteInv, Deleting, InstalledWhenProved
<1>9. QED
  BY <1>2, <1>3, <1>4, <1>6, <1>7, <1>8 DEF HarnessInv, HarnessTypes, SafetyInv

LEMMA FinishStep == ASSUME HarnessInv, Finish PROVE HarnessInv'
<1> USE TypesHold
<1>1. TeardownFrame /\ TeardownEnds
      /\ UNCHANGED <<aws, doomed, ready, role, blind, faults>>
  BY DEF Finish, TeardownFrame, contentVars, runVars, setupVars
<1>2. tpc = "delete" /\ DOMAIN todo = {} /\ UnlinkIfClean
  BY DEF Finish
<1>3. Of(target) = {} \/ errors \/ blind
  BY <1>2 DEF SafetyInv, DeleteInv, Deleting
<1>4. file' = file \/ (Unlink /\ (blind' \/ Of(target) = {}))
  BY <1>1, <1>2, <1>3 DEF UnlinkIfClean
<1>5. FaultInv'
  BY <1>1 DEF FaultInv
<1>6. QED
  BY <1>1, <1>4, <1>5, TeardownOver

\* The order of deletion: what another resource needs deleted first comes first.
LEMMA Orders == ASSUME NEW misled \in BOOLEAN PROVE DeleteOrder(misled) \in [Kinds -> 1..8]
<1>1. ASSUME NEW f \in Instances, NEW g \in Instances, f # g
      PROVE  Places(f, g) \in [Kinds -> 1..8]
  <2>1. \A k \in Kinds : Places(f, g)[k] \in 1..8
    <3>1. Places(f, g)[f] = 1 /\ Places(f, g)[g] = 2
      BY <1>1 DEF Places, Kinds, Instances
    <3>2. /\ Places(f, g)["subgrp"] = 3 /\ Places(f, g)["pg"] = 4
          /\ Places(f, g)["lambda"] = 5 /\ Places(f, g)["exec_role"] = 6
          /\ Places(f, g)["invoke_role"] = 7 /\ Places(f, g)["sg"] = 8
      BY <1>1 DEF Places, Kinds, Instances
    <3>3. QED
      BY <1>1, <3>1, <3>2 DEF Kinds, Instances
  <2>2. QED
    BY <2>1 DEF Places
<1>2. QED
  BY <1>1 DEF DeleteOrder, Instances

LEMMA DependentsFirst ==
  ASSUME NEW k \in Kinds, NEW n \in Needs(k)
  PROVE  n \in Kinds /\ DeleteOrder(FALSE)[n] < DeleteOrder(FALSE)[k]
<1>1. \/ k = "db" /\ n = "replica"
      \/ k \in {"subgrp", "pg", "sg"} /\ n \in {"db", "replica"}
  BY DEF Kinds, Needs
<1>2. \A j \in Kinds : DeleteOrder(FALSE)[j] = Places("replica", "db")[j]
  BY DEF DeleteOrder
<1>3. /\ Places("replica", "db")["replica"] = 1 /\ Places("replica", "db")["db"] = 2
      /\ Places("replica", "db")["subgrp"] = 3 /\ Places("replica", "db")["pg"] = 4
      /\ Places("replica", "db")["sg"] = 8
  BY DEF Places, Kinds
<1>4. n \in Kinds
  BY <1>1 DEF Kinds
<1>5. QED
  BY <1>1, <1>2, <1>3, <1>4, 1 < 2, 2 < 3, 1 < 3, 1 < 4, 2 < 4, 1 < 8, 2 < 8

\* The deletion begins, with a list of kinds in some order.
LEMMA DeletionStarts ==
  ASSUME HarnessInv, TeardownFrame, UNCHANGED <<aws, doomed, ready, role>>,
         tpc = "discover", FaultInv', blind => blind', disturbed' \in BOOLEAN,
         NEW misled \in BOOLEAN, NEW found \in SUBSET Kinds,
         ToDelete(Restrict(DeleteOrder(misled), found)),
         found = Of(target) \/ (blind' /\ disturbed'),
         disturbed' \/ ~misled
  PROVE  HarnessInv'
<1> USE TypesHold DEF TeardownFrame, ToDelete
<1>1. pc \in {"idle", "wait"} /\ target \in Runs /\ ~errors
  BY DEF TeardownInv
<1>2. /\ DOMAIN todo' = found /\ todo' \in [DOMAIN todo' -> 1..8]
      /\ \A k \in found : todo'[k] = DeleteOrder(misled)[k]
  BY Orders DEF Restrict
<1>3. AwsInv' /\ ContentInv' /\ FileInv' /\ RunInv' /\ StepInv'
  BY DEF AwsInv, ContentInv, FileInv, RunInv, StepInv
<1>4. TeardownInv'
  BY <1>1, <1>2 DEF TeardownInv
<1>5. \A r \in Runs : Of(r)' = Of(r)
  BY DEF Of
<1>6. Of(target)' = Of(target) /\ Going(target)' = Going(target)
  BY DEF Of, Going
<1>7. DeleteInv'
  <2>1. Of(target)' \subseteq DOMAIN todo' \/ (blind' /\ disturbed')
    BY <1>2, <1>6
  <2>2. disturbed' \/ \A k \in DOMAIN todo' : todo'[k] = DeleteOrder(FALSE)[k]
    BY <1>2
  <2>3. leftover' \/ Going(target)' = {}
    BY <1>6
  <2>4. QED
    BY <2>1, <2>2, <2>3 DEF DeleteInv
<1>8. FileOutlivesResources' /\ OneRunAtATime' /\ ErrorsOnlyFromFaults'
  BY <1>1, <1>5 DEF SafetyInv, FileOutlivesResources, OneRunAtATime, ErrorsOnlyFromFaults
<1>9. StayInv' /\ SetupInv' /\ InstalledWhenProved'
  BY <1>1 DEF StayInv, SetupInv, InstalledWhenProved
<1>10. QED
  BY <1>3, <1>4, <1>7, <1>8, <1>9 DEF HarnessInv, HarnessTypes, SafetyInv

LEMMA DiscoverStep == ASSUME HarnessInv, Discover PROVE HarnessInv'
<1> USE TypesHold
<1>1. TeardownFrame /\ UNCHANGED <<aws, doomed, ready, role>> /\ tpc = "discover"
  BY DEF Discover, TeardownFrame, contentVars, runVars, setupVars
<1>2. Found(aws) = Of(target)
  BY DEF Found, Of
<1>3. ASSUME NEW shown \in SUBSET aws, Listing(aws, shown),
             IF Found(shown) = {}
             THEN Unlink /\ TeardownEnds
             ELSE /\ ToDelete(Restrict(DeleteOrder(FALSE), Found(shown)))
                  /\ disturbed' = (faults' # faults)
      PROVE  HarnessInv'
  <2>1. /\ FaultInv' /\ (blind => blind')
        /\ (shown = aws /\ faults' = faults) \/ (blind' /\ faults' # faults)
    BY <1>3, Listed
  <2>2. CASE Found(shown) = {}
    <3>1. Unlink /\ TeardownEnds
      BY <1>3, <2>2
    <3>2. blind' \/ Of(target) = {}
      BY <1>2, <2>1, <2>2
    <3>3. QED
      BY <1>1, <2>1, <3>1, <3>2, TeardownOver
  <2>3. CASE Found(shown) # {}
    <3>1. /\ ToDelete(Restrict(DeleteOrder(FALSE), Found(shown)))
          /\ disturbed' = (faults' # faults)
      BY <1>3, <2>3
    <3>2. PICK found \in SUBSET Kinds : found = Found(shown)
      BY DEF Found
    <3>3. disturbed' \in BOOLEAN
      BY <3>1
    <3>4. found = Of(target) \/ (blind' /\ disturbed')
      BY <1>2, <2>1, <3>1, <3>2
    <3>5. PICK misled \in BOOLEAN : misled = FALSE
      OBVIOUS
    <3>6. ToDelete(Restrict(DeleteOrder(misled), found)) /\ (disturbed' \/ ~misled)
      BY <3>1, <3>2, <3>5
    <3>7. QED
      BY <1>1, <2>1, <3>3, <3>4, <3>6, DeletionStarts
  <2>4. QED
    BY <2>2, <2>3
<1>4. CASE /\ session /\ "replica" \in Found(aws) /\ Fault("classify")
           /\ ToDelete(Restrict(DeleteOrder(TRUE), Found(aws)))
           /\ disturbed' = TRUE /\ UNCHANGED blind
  <2>1. faults' \in 0..MaxFaults
    BY <1>4, Counted
  <2>2. FaultInv'
    BY <1>4, <2>1 DEF FaultInv
  <2>3. PICK found \in SUBSET Kinds : found = Of(target) /\ found = Found(aws)
    BY <1>2 DEF Found
  <2>4. PICK misled \in BOOLEAN : misled = TRUE
    OBVIOUS
  <2>5. ToDelete(Restrict(DeleteOrder(misled), found))
    BY <1>4, <2>3, <2>4
  <2>6. disturbed' \in BOOLEAN /\ (disturbed' \/ ~misled)
    BY <1>4
  <2>7. QED
    BY <1>1, <1>4, <2>2, <2>3, <2>5, <2>6, DeletionStarts
<1>5. CASE CallFails /\ TeardownEnds /\ UNCHANGED <<file, blind>>
  <2>1. faults' \in 0..MaxFaults
    BY <1>5, CallCounted
  <2>2. FaultInv'
    BY <1>5, <2>1 DEF FaultInv
  <2>3. QED
    BY <1>1, <1>5, <2>2, TeardownOver
<1>6. QED
  BY <1>3, <1>4, <1>5 DEF Discover

\* Nothing of what this teardown could do about it is wrong.
Clean == ~disturbed /\ ~leftover

\* In the right order nothing comes before what it depends on.
LEMMA NotBlocked ==
  ASSUME HarnessInv, Deleting, Clean, NEW kind \in DOMAIN todo, First(kind)
  PROVE  ~Blocked(kind)
<1> USE TypesHold
<1> SUFFICES ASSUME Blocked(kind) PROVE FALSE
  OBVIOUS
<1>1. PICK n \in Needs(kind) : n \in Of(target)
  BY DEF Blocked
<1>2. /\ n \in DOMAIN todo /\ todo[n] = DeleteOrder(FALSE)[n]
      /\ todo[kind] = DeleteOrder(FALSE)[kind] /\ kind \in Kinds
  BY <1>1 DEF SafetyInv, DeleteInv, Clean, TeardownInv
<1>3. todo[kind] <= todo[n]
  BY <1>2 DEF First
<1>4. PICK x \in 1..8, y \in 1..8 : x = todo[n] /\ y = todo[kind]
  BY <1>2 DEF TeardownInv
<1>5. x < y
  BY <1>2, <1>4, DependentsFirst
<1>6. y <= x
  BY <1>3, <1>4
<1>7. QED
  BY <1>4, <1>5, <1>6

\* It waits for one instance at a time.
LEMMA OneAwaited ==
  ASSUME HarnessInv, Deleting, Clean, NEW kind \in DOMAIN todo, First(kind),
         NEW k \in Going(target)
  PROVE  tpc = "waiter" /\ k = kind
<1> USE TypesHold
<1>1. /\ tpc = "waiter" /\ First(k) /\ k \in Instances /\ k \in Of(target)
  BY DEF SafetyInv, DeleteInv, Clean, Going, AwsInv, Of, Instances, Kinds
<1>2. /\ k \in DOMAIN todo /\ todo[k] = DeleteOrder(FALSE)[k]
      /\ todo[kind] = DeleteOrder(FALSE)[kind] /\ kind \in Kinds
  BY <1>1 DEF SafetyInv, DeleteInv, Clean, TeardownInv
<1>3. /\ DeleteOrder(FALSE)["replica"] = 1 /\ DeleteOrder(FALSE)["db"] = 2
      /\ \A j \in Kinds \ Instances : DeleteOrder(FALSE)[j] \in 3..8
  <2>1. \A j \in Kinds : DeleteOrder(FALSE)[j] = Places("replica", "db")[j]
    BY DEF DeleteOrder
  <2>2. /\ Places("replica", "db")["replica"] = 1 /\ Places("replica", "db")["db"] = 2
        /\ Places("replica", "db")["subgrp"] = 3 /\ Places("replica", "db")["pg"] = 4
        /\ Places("replica", "db")["lambda"] = 5 /\ Places("replica", "db")["exec_role"] = 6
        /\ Places("replica", "db")["invoke_role"] = 7 /\ Places("replica", "db")["sg"] = 8
    BY DEF Places, Kinds
  <2>3. \A j \in Kinds \ Instances : Places("replica", "db")[j] \in 3..8
    BY <2>2 DEF Kinds, Instances
  <2>4. QED
    BY <2>1, <2>2, <2>3 DEF Kinds
<1>4. PICK x \in 1..8, y \in 1..8 : x = todo[k] /\ y = todo[kind]
  BY <1>2 DEF TeardownInv
<1>5. x = y
  <2>1. x <= y /\ y <= x
    BY <1>1, <1>2, <1>4 DEF First
  <2>2. QED
    BY <2>1
<1>6. k = kind
  <2>1. /\ kind \in Kinds /\ DeleteOrder(FALSE)[kind] = x /\ DeleteOrder(FALSE)[k] = x
    BY <1>2, <1>4, <1>5
  <2>2. x \in 1..2
    <3>1. k = "replica" \/ k = "db"
      BY <1>1 DEF Instances
    <3>2. (k = "replica" => x = 1) /\ (k = "db" => x = 2)
      BY <1>3, <2>1, Zenon
    <3>3. QED
      BY <3>1, <3>2
  <2>3. kind \in Instances
    <3>1. CASE kind \in Kinds \ Instances
      <4>1. x \in 3..8
        BY <1>3, <2>1, <3>1
      <4>2. QED
        BY <2>2, <4>1
    <3>2. QED
      BY <2>1, <3>1
  <2>4. /\ kind = "db" /\ k = "replica" => x = 2 /\ x = 1
        /\ kind = "replica" /\ k = "db" => x = 1 /\ x = 2
    BY <1>3, <2>1, Zenon
  <2>5. ~(x = 1 /\ x = 2)
    OBVIOUS
  <2>6. QED
    BY <1>1, <2>3, <2>4, <2>5 DEF Instances
<1>7. QED
  BY <1>1, <1>6

\* What a step of the deletion leaves alone.
DeletionFrame ==
  /\ UNCHANGED <<session, ready, role, file, used, run, starts, pc, steps, password>>
  /\ UNCHANGED <<target, leftover, seen, blind>>
  /\ Deleting /\ Deleting'
  /\ aws' \subseteq aws /\ doomed' \subseteq aws' \cap (used \X Instances)
  /\ faults' \in 0..MaxFaults
  /\ {errors', disturbed'} \subseteq BOOLEAN
  /\ (errors => errors') /\ (disturbed => disturbed')

\* One kind is done with, and is gone, or the teardown knows of an error.
LEMMA DeletionGoesOn ==
  ASSUME HarnessInv, DeletionFrame, tpc' = "delete",
         NEW kind \in DOMAIN todo, Done(kind), First(kind),
         errors' \/ kind \notin Of(target)',
         Clean => errors' = errors \/ disturbed',
         Clean => disturbed' \/ (kind \notin Of(target)' /\ Going(target)' = {})
  PROVE  HarnessInv'
<1> USE TypesHold DEF DeletionFrame
<1>1. AwsInv' /\ ContentInv' /\ FileInv' /\ RunInv' /\ StepInv' /\ FaultInv'
  BY DEF AwsInv, ContentInv, FileInv, RunInv, StepInv, FaultInv
<1>2. /\ DOMAIN todo' = DOMAIN todo \ {kind} /\ todo' \in [DOMAIN todo' -> 1..8]
      /\ \A k \in DOMAIN todo' : todo'[k] = todo[k]
  BY DEF Done, Restrict, TeardownInv
<1>3. pc \in {"idle", "wait"} /\ target \in Runs
  BY DEF TeardownInv, Deleting
<1>4. TeardownInv'
  BY <1>2, <1>3 DEF TeardownInv
<1>5. (\A r \in Runs : Of(r)' \subseteq Of(r)) /\ Of(target)' \subseteq Of(target)
  BY DEF Of
<1>6. ErrorsOnlyFromFaults'
  BY DEF SafetyInv, ErrorsOnlyFromFaults, Clean
<1>7. DeleteInv'
  <2>1. Of(target)' \subseteq DOMAIN todo' \/ errors' \/ blind'
    BY <1>2, <1>5 DEF SafetyInv, DeleteInv
  <2>2. CASE disturbed' \/ leftover'
    BY <2>1, <2>2 DEF DeleteInv
  <2>3. CASE ~(disturbed' \/ leftover')
    <3>1. Clean
      BY <2>3 DEF Clean, TeardownInv
    <3>2. /\ Of(target) \subseteq DOMAIN todo
          /\ \A k \in DOMAIN todo : todo[k] = DeleteOrder(FALSE)[k]
      BY <3>1 DEF SafetyInv, DeleteInv, Clean
    <3>3. kind \notin Of(target)' /\ Going(target)' = {}
      BY <2>3, <3>1
    <3>4. /\ Of(target)' \subseteq DOMAIN todo'
          /\ \A k \in DOMAIN todo' : todo'[k] = DeleteOrder(FALSE)[k]
      BY <1>2, <1>5, <3>2, <3>3
    <3>5. QED
      BY <2>1, <3>3, <3>4 DEF DeleteInv
  <2>4. QED
    BY <2>2, <2>3
<1>8. FileOutlivesResources' /\ OneRunAtATime'
  BY <1>5 DEF SafetyInv, FileOutlivesResources, OneRunAtATime
<1>9. StayInv' /\ SetupInv' /\ InstalledWhenProved'
  BY <1>3 DEF StayInv, SetupInv, InstalledWhenProved
<1>10. QED
  BY <1>1, <1>4, <1>6, <1>7, <1>8, <1>9 DEF HarnessInv, HarnessTypes, SafetyInv

\* A deletion succeeds, or the teardown knows of an error; and it is not
\* refused unless something has gone wrong before.
LEMMA DeleteStep == ASSUME HarnessInv, NEW kind \in DOMAIN todo, Delete(kind)
                    PROVE  HarnessInv'
<1> USE TypesHold
<1> DEFINE less == aws \ {<<target, kind>>}
<1>1. /\ UNCHANGED <<doomed, session, ready, role, file, used, run, starts, pc, steps>>
      /\ UNCHANGED <<password, tpc, target, leftover, seen, blind>>
      /\ tpc = "delete" /\ Done(kind) /\ First(kind) /\ kind \notin Instances
  BY DEF Delete, contentVars, runVars, setupVars
<1>2. Deleting
  BY <1>1 DEF Deleting
<1>3. \/ session /\ aws' = less /\ UNCHANGED <<errors, disturbed, faults>>
      \/ /\ session /\ Blocked(kind) /\ errors' = TRUE
         /\ UNCHANGED <<aws, disturbed, faults>>
      \/ /\ CallFails /\ errors' = TRUE /\ disturbed' = TRUE
         /\ aws' \in {aws, less}
  BY DEF Delete
<1>4. aws' \in {aws, less}
  BY <1>3
<1>5. faults' \in 0..MaxFaults
  BY <1>3, CallCounted DEF FaultInv
<1>6. /\ errors' \in BOOLEAN /\ disturbed' \in BOOLEAN
      /\ (errors => errors') /\ (disturbed => disturbed')
  BY <1>3 DEF TeardownInv
<1>7. doomed' \subseteq aws' \cap (used \X Instances)
  BY <1>1, <1>4 DEF AwsInv
<1>8. DeletionFrame
  BY <1>1, <1>2, <1>4, <1>5, <1>6, <1>7 DEF DeletionFrame, Deleting
<1>9. /\ Of(target)' = {k \in Kinds : <<target, k>> \in aws'}
      /\ Going(target)' = Going(target)
  BY <1>1 DEF Of, Going
<1>10. Clean => ~Blocked(kind) /\ Going(target) = {}
  BY <1>1, <1>2, NotBlocked DEF SafetyInv, DeleteInv, Clean
<1>11. errors' \/ kind \notin Of(target)'
  BY <1>3, <1>9
<1>12. Clean => errors' = errors \/ disturbed'
  BY <1>3, <1>10
<1>13. Clean => disturbed' \/ (kind \notin Of(target)' /\ Going(target)' = {})
  BY <1>3, <1>9, <1>10
<1>14. QED
  BY <1>1, <1>8, <1>11, <1>12, <1>13, DeletionGoesOn

\* An instance is told to go, or is gone; it is refused only if an earlier
\* teardown has told it.
LEMMA DeleteInstanceStep ==
  ASSUME HarnessInv, NEW kind \in DOMAIN todo, DeleteInstance(kind)
  PROVE  HarnessInv'
<1> USE TypesHold
<1> DEFINE told == doomed \cup {<<target, kind>>}
           there == <<target, kind>> \in aws
           refused == Blocked(kind) \/ kind \in Going(target)
<1>1. /\ UNCHANGED <<aws, session, ready, role, file, used, run, starts, pc, steps>>
      /\ UNCHANGED <<password, target, leftover, seen, blind>>
      /\ tpc = "delete" /\ First(kind) /\ kind \in Instances
  BY DEF DeleteInstance, contentVars, runVars, setupVars
<1>2. Deleting
  BY <1>1 DEF Deleting
<1>3. \/ ~there /\ Done(kind) /\ UNCHANGED <<doomed, tpc, errors, disturbed, faults>>
      \/ /\ refused /\ errors' = TRUE /\ Done(kind)
         /\ UNCHANGED <<doomed, tpc, disturbed, faults>>
      \/ /\ there /\ doomed' = told /\ tpc' = "waiter"
         /\ UNCHANGED <<todo, errors, disturbed, faults>>
      \/ /\ CallFails /\ errors' = TRUE /\ disturbed' = TRUE /\ Done(kind)
         /\ doomed' \in {doomed, IF there THEN told ELSE doomed}
         /\ UNCHANGED tpc
  BY DEF DeleteInstance
<1>4. doomed' \in {doomed, told} /\ (doomed' = doomed \/ there)
  BY <1>3
<1>5. faults' \in 0..MaxFaults
  BY <1>3, CallCounted DEF FaultInv
<1>6. /\ errors' \in BOOLEAN /\ disturbed' \in BOOLEAN
      /\ (errors => errors') /\ (disturbed => disturbed')
  BY <1>3 DEF TeardownInv
<1>7. doomed' \subseteq aws' \cap (used \X Instances)
  <2>1. there => <<target, kind>> \in used \X Instances
    BY <1>1 DEF AwsInv
  <2>2. QED
    BY <1>1, <1>4, <2>1 DEF AwsInv
<1>8. tpc' \in {"delete", "waiter"}
  BY <1>1, <1>3
<1>9. DeletionFrame
  BY <1>1, <1>2, <1>5, <1>6, <1>7, <1>8 DEF DeletionFrame, Deleting
<1>10. Clean => ~Blocked(kind) /\ Going(target) = {}
  BY <1>1, <1>2, NotBlocked DEF SafetyInv, DeleteInv, Clean
<1>11. Clean => ~refused
  BY <1>10
<1>12. Of(target)' = Of(target) /\ (kind \in Of(target) => there)
  BY <1>1 DEF Of
<1>13. doomed' = doomed => Going(target)' = Going(target)
  BY <1>1 DEF Going
<1>14. CASE Done(kind) /\ tpc' = tpc /\ (disturbed' \/ doomed' = doomed)
            /\ (errors' \/ ~there) /\ (refused \/ disturbed' \/ (~there /\ errors' = errors))
  <2>1. errors' \/ kind \notin Of(target)'
    BY <1>12, <1>14
  <2>2. Clean => errors' = errors \/ disturbed'
    BY <1>11, <1>14
  <2>3. Clean => disturbed' \/ (kind \notin Of(target)' /\ Going(target)' = {})
    BY <1>10, <1>11, <1>12, <1>13, <1>14
  <2>4. QED
    BY <1>1, <1>9, <1>14, <2>1, <2>2, <2>3, DeletionGoesOn
<1>15. CASE /\ there /\ doomed' = told /\ tpc' = "waiter"
            /\ UNCHANGED <<todo, errors, disturbed, faults>>
  <2>1. AwsInv' /\ ContentInv' /\ FileInv' /\ RunInv' /\ StepInv' /\ FaultInv'
    BY <1>1, <1>5, <1>7 DEF AwsInv, ContentInv, FileInv, RunInv, StepInv, FaultInv
  <2>2. pc \in {"idle", "wait"} /\ TeardownInv'
    BY <1>1, <1>15 DEF TeardownInv
  <2>3. Going(target)' \subseteq Going(target) \cup {kind}
    BY <1>1, <1>15 DEF Going
  <2>4. \A k : First(k)' = First(k)
    BY <1>15 DEF First
  <2>5. DeleteInv'
    <3>1. Of(target)' \subseteq DOMAIN todo' \/ errors' \/ blind'
      BY <1>1, <1>2, <1>12, <1>15 DEF SafetyInv, DeleteInv
    <3>2. CASE disturbed' \/ leftover'
      BY <3>1, <3>2 DEF DeleteInv
    <3>3. CASE ~(disturbed' \/ leftover')
      <4>1. Clean
        BY <1>1, <1>15, <3>3 DEF Clean
      <4>2. /\ Of(target) \subseteq DOMAIN todo
            /\ \A k \in DOMAIN todo : todo[k] = DeleteOrder(FALSE)[k]
        BY <1>2, <4>1 DEF SafetyInv, DeleteInv, Clean
      <4>3. \A k \in Going(target)' : First(k)'
        BY <1>1, <1>10, <2>3, <2>4, <4>1
      <4>4. QED
        BY <1>12, <1>15, <3>1, <4>2, <4>3 DEF DeleteInv
    <3>4. QED
      BY <3>2, <3>3
  <2>6. \A r \in Runs : Of(r)' = Of(r)
    BY <1>1 DEF Of
  <2>7. FileOutlivesResources' /\ OneRunAtATime' /\ ErrorsOnlyFromFaults'
    BY <1>1, <1>15, <2>6
       DEF SafetyInv, FileOutlivesResources, OneRunAtATime, ErrorsOnlyFromFaults
  <2>8. StayInv' /\ SetupInv' /\ InstalledWhenProved'
    BY <1>1, <2>2 DEF StayInv, SetupInv, InstalledWhenProved
  <2>9. QED
    BY <2>1, <2>2, <2>5, <2>7, <2>8 DEF HarnessInv, HarnessTypes, SafetyInv
<1>16. QED
  BY <1>3, <1>14, <1>15

\* The wait is over when the instance is gone, or the teardown knows of an error.
LEMMA WaitStep == ASSUME HarnessInv, NEW kind \in DOMAIN todo, Wait(kind)
                  PROVE  HarnessInv'
<1> USE TypesHold
<1>1. /\ UNCHANGED <<aws, doomed, session, ready, role, file, used, run, starts, pc>>
      /\ UNCHANGED <<steps, password, target, leftover, seen, blind>>
      /\ tpc = "waiter" /\ tpc' = "delete" /\ First(kind) /\ Done(kind)
  BY DEF Wait, contentVars, runVars, setupVars
<1>2. Deleting /\ Deleting'
  BY <1>1 DEF Deleting
<1>3. \/ /\ <<target, kind>> \notin aws
         /\ UNCHANGED <<errors, disturbed, faults>>
      \/ CallFails /\ errors' = TRUE /\ disturbed' = TRUE
  BY DEF Wait
<1>4. faults' \in 0..MaxFaults
  BY <1>3, CallCounted DEF FaultInv
<1>5. /\ errors' \in BOOLEAN /\ disturbed' \in BOOLEAN
      /\ (errors => errors') /\ (disturbed => disturbed')
  BY <1>3 DEF TeardownInv
<1>6. DeletionFrame
  BY <1>1, <1>2, <1>4, <1>5 DEF DeletionFrame, AwsInv
<1>7. Of(target)' = {k \in Kinds : <<target, k>> \in aws} /\ Going(target)' = Going(target)
  BY <1>1 DEF Of, Going
<1>8. ASSUME Clean, ~disturbed', NEW k \in Going(target) PROVE FALSE
  <2>1. <<target, kind>> \notin aws /\ <<target, k>> \in aws /\ k \in Instances
    BY <1>3, <1>8 DEF Going, AwsInv
  <2>2. k = kind
    BY <1>1, <1>2, <1>8, <2>1, OneAwaited
  <2>3. QED
    BY <2>1, <2>2
<1>9. QED
  BY <1>1, <1>3, <1>6, <1>7, <1>8, DeletionGoesOn

-----------------------------------------------------------------------------
(* AWS. *)

\* An instance goes: this runs against what a program relies on only where it
\* was in mid-deletion when the program found it.
LEMMA VanishStep ==
  ASSUME HarnessInv, NEW r \in Runs, NEW k \in Instances, Vanish(r, k)
  PROVE  HarnessInv'
<1> USE TypesHold
<1>1. /\ UNCHANGED <<session, file, used, run, starts, pc, steps, password>>
      /\ UNCHANGED <<tpc, target, todo, errors, disturbed, leftover, seen, faults, blind>>
      /\ aws' = aws \ {<<r, k>>} /\ doomed' = doomed \ {<<r, k>>} /\ k \in Going(r)
  BY DEF Vanish, runVars, setupVars, teardownVars
<1>2. /\ AwsInv' /\ FileInv' /\ RunInv' /\ StepInv' /\ FaultInv' /\ TeardownInv'
  BY <1>1 DEF AwsInv, FileInv, RunInv, StepInv, FaultInv, TeardownInv
<1> DEFINE left == ready[r] \ (IF k = "db" THEN Databases \cup {"db"} ELSE {k})
<1>3. ready' = [ready EXCEPT ![r] = left]
      /\ role' = [role EXCEPT ![r] = IF k = "db" THEN 0 ELSE @]
  BY DEF Vanish
<1>4. left \subseteq Databases \cup Instances
  BY DEF ContentInv
<1>5. /\ ready' \in [Runs -> SUBSET (Databases \cup Instances)]
      /\ \A q \in Runs \ {r} : ready'[q] = ready[q]
  BY <1>3, <1>4 DEF ContentInv
<1>6. role' \in [Runs -> 0..MaxStarts]
  BY <1>3, HarnessBoundsAssumption DEF ContentInv
<1>7. ContentInv'
  BY <1>5, <1>6 DEF ContentInv
<1>8. /\ \A q \in Runs : Of(q)' \subseteq Of(q) /\ Going(q)' \subseteq Going(q)
      /\ \A q \in Runs \ {r} : Of(q)' = Of(q)
  BY <1>1 DEF Of, Going
<1>9. Of(run)' = {j \in Kinds : <<run, j>> \in aws'} /\ Going(run)' \subseteq Going(run)
  BY <1>1 DEF Of, Going
<1>10. Of(target)' \subseteq Of(target) /\ Going(target)' \subseteq Going(target)
  BY <1>1 DEF Of, Going
<1>11. StayInv'
  BY <1>1, <1>9 DEF SafetyInv, StayInv
<1>12. pc \in {"setup", "prove"} =>
         leftover \/ (ready'[run] = ready[run] /\ Of(run)' = Of(run))
  <2> SUFFICES ASSUME pc \in {"setup", "prove"}, ~leftover
               PROVE  ready'[run] = ready[run] /\ Of(run)' = Of(run)
    OBVIOUS
  <2>1. run # r /\ run \in Runs
    BY <1>1 DEF SafetyInv, StayInv, RunInv
  <2>2. aws' \subseteq aws /\ \A j : <<run, j>> \in aws => <<run, j>> \in aws'
    BY <1>1, <2>1
  <2>3. QED
    BY <1>5, <1>9, <2>1, <2>2 DEF Of
<1>13. SetupInv'
  <2> SUFFICES ASSUME pc = "setup" PROVE SetupInv'
    BY <1>1 DEF SetupInv
  <2>1. Elements(steps)' = Elements(steps)
    BY <1>1 DEF Elements
  <2>2. QED
    BY <1>1, <1>8, <1>12, <2>1 DEF SafetyInv, SetupInv
<1>14. InstalledWhenProved'
  BY <1>1, <1>12 DEF SafetyInv, InstalledWhenProved
<1>15. DeleteInv'
  <2>1. (\A j : First(j)' = First(j)) /\ Deleting' = Deleting
    BY <1>1 DEF First, Deleting
  <2>2. QED
    BY <1>1, <1>10, <2>1 DEF SafetyInv, DeleteInv
<1>16. FileOutlivesResources' /\ OneRunAtATime' /\ ErrorsOnlyFromFaults'
  BY <1>1, <1>8 DEF SafetyInv, FileOutlivesResources, OneRunAtATime, ErrorsOnlyFromFaults
<1>17. QED
  BY <1>2, <1>7, <1>11, <1>13, <1>14, <1>15, <1>16 DEF HarnessInv, HarnessTypes, SafetyInv

-----------------------------------------------------------------------------
(* The theorems. *)

LEMMA HarnessStep == HarnessInv /\ [Next]_vars => HarnessInv'
<1> SUFFICES ASSUME HarnessInv, [Next]_vars PROVE HarnessInv'
  OBVIOUS
<1>1. ASSUME NEW r \in Runs, Start(r) \/ Operate(r) PROVE HarnessInv'
  BY <1>1, StartStep, OperateStep
<1>2. CASE Harness
  BY <1>2, PreflightStep, ReuseStep, CreateStep, SaveStep, InstallStep, RolesStep,
     ProveStep, EndStep DEF Harness, Setup
<1>3. CASE Teardown
  BY <1>3, DiscoverStep, DeleteStep, DeleteInstanceStep, WaitStep, FinishStep DEF Teardown
<1>4. CASE ListOrphans \/ Login \/ Expire \/ Interrupt
  BY <1>4, ListOrphansStep, SessionStep, InterruptStep
<1>5. CASE Vanishing
  BY <1>5, VanishStep DEF Vanishing
<1>6. CASE UNCHANGED vars
  <2>1. /\ UNCHANGED <<aws, doomed, session, ready, role, file, used, run, starts, pc>>
        /\ UNCHANGED <<steps, password, tpc, target, todo, errors, disturbed, leftover>>
        /\ UNCHANGED <<seen, faults, blind>>
    BY <1>6 DEF vars, contentVars, runVars, setupVars, teardownVars
  <2>2. AwsInv' /\ ContentInv' /\ FileInv' /\ RunInv' /\ StepInv' /\ FaultInv'
    BY <2>1, TypesHold DEF AwsInv, ContentInv, FileInv, RunInv, StepInv, FaultInv
  <2>3. TeardownInv'
    BY <2>1, TypesHold DEF TeardownInv
  <2>4. SafetyInv'
    <3>1. StayInv'
      BY <2>1, TypesHold, Staying
    <3>2. QED
      BY <2>1, <3>1, TypesHold, Quiet DEF SafetyInv, ErrorsOnlyFromFaults
  <2>5. QED
    BY <2>2, <2>3, <2>4 DEF HarnessInv, HarnessTypes
<1>7. QED
  BY <1>1, <1>2, <1>3, <1>4, <1>5, <1>6 DEF Next

LEMMA HarnessHolds == Spec => []HarnessInv
BY HarnessInit, HarnessStep, PTL DEF Spec

\* The programs of the harness run one at a time, steps are left exactly while
\* setup.py runs, and only run_ids given out have resources
\* (run.pl:104-125, setup.py:631-790, teardown.py:241-386).
THEOREM TypeCorrect == Spec => []TypeOK
<1>1. HarnessInv => TypeOK
  <2> SUFFICES ASSUME HarnessInv PROVE TypeOK
    OBVIOUS
  <2>1. {errors, disturbed, leftover, blind, session} \subseteq BOOLEAN
    BY TypesHold DEF RunInv, TeardownInv, FaultInv, AwsInv
  <2>2. QED
    BY <2>1, TypesHold DEF AwsInv, ContentInv, FileInv, RunInv, Codes, StepInv, FaultInv,
                           TeardownInv, TypeOK
<1>2. QED
  BY <1>1, HarnessHolds, PTL

\* Unless a listing did not show all there is, whatever is still there has its
\* state file, whoever is interrupted and whatever fails (teardown.py:54-56,
\* 245-265, 373-378).
THEOREM FilesOutliveResources == Spec => []FileOutlivesResources
<1>1. HarnessInv => FileOutlivesResources
  BY DEF HarnessInv, SafetyInv
<1>2. QED
  BY <1>1, HarnessHolds, PTL

\* A teardown that nothing disturbs, and that finds no instance in mid-deletion,
\* ends without errors: its order of deletion never runs into what AWS wants
\* deleted first, and what it has told to go is gone before the next one
\* (teardown.py:125-164, 308-371).
THEOREM OneTeardownIsEnough == Spec => []ErrorsOnlyFromFaults
<1>1. HarnessInv => ErrorsOnlyFromFaults
  BY DEF HarnessInv, SafetyInv
<1>2. QED
  BY <1>1, HarnessHolds, PTL

\* Unless a listing did not show all there is, no two runs have resources at a
\* time, over kept, reused and abandoned runs (preflight.py:214-228,
\* setup.py:546-560).
THEOREM RunsAreAlone == Spec => []OneRunAtATime
<1>1. HarnessInv => OneRunAtATime
  BY DEF HarnessInv, SafetyInv
<1>2. QED
  BY <1>1, HarnessHolds, PTL

\* The tests only run on a complete installation, whatever an earlier setup of
\* the run has left, unless that is an instance in mid-deletion
\* (setup.py:343-395, 546-590).
THEOREM TestsRunOnInstallation == Spec => []InstalledWhenProved
<1>1. HarnessInv => InstalledWhenProved
  BY DEF HarnessInv, SafetyInv
<1>2. QED
  BY <1>1, HarnessHolds, PTL
=============================================================================
