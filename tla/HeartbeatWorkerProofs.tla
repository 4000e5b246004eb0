------------------------ MODULE HeartbeatWorkerProofs -----------------------
(***************************************************************************)
(* Proofs about the worker's loop, for any number of signals and failures. *)
(***************************************************************************)
EXTENDS HeartbeatWorker, TLAPS

\* Where the loop stands decides which requests may be pending without the
\* latch: none from the test of the flag to the wait.  A request that the
\* reset of the latch swallowed is one that the loop still gets to: reload
\* right behind the reset, shutdown at the head of the loop.
LatchInv ==
  /\ pc \in {"beat", "wait"} /\ (shutdown \/ reload) => latch
  /\ pc \in {"test", "read", "apply"} /\ reload => latch

IInv == TypeOK /\ LatchInv

LEMMA InvInit == Init => IInv
  <1>1. Init => TypeOK
    <2>1. 0 \in 0..MaxSignals /\ 0 \in 0..MaxFailures
      BY BoundsAssumption
    <2>2. QED
      BY <2>1, Zenon DEF Init, TypeOK
  <1>2. Init => LatchInv
    BY Zenon DEF Init, LatchInv
  <1>3. QED
    BY <1>1, <1>2 DEF IInv

LEMMA WorkerStep == IInv /\ Worker => IInv'
  <1> SUFFICES ASSUME IInv, Worker PROVE IInv'
    OBVIOUS
  <1> USE DEF IInv, TypeOK, LatchInv, flags
  <1>1. CASE TestShutdown
    BY <1>1 DEF TestShutdown
  <1>2. CASE Beat
    BY <1>2 DEF Beat
  <1>3. CASE WakeUp \/ TimeOut \/ PostmasterGone
    BY <1>3 DEF WakeUp, TimeOut, PostmasterGone
  <1>4. CASE ResetLatch
    BY <1>4 DEF ResetLatch
  <1>5. CASE TestReload
    BY <1>5 DEF TestReload
  <1>6. CASE ReadConfig
    BY <1>6 DEF ReadConfig
  <1>7. CASE ApplyConfig
    BY <1>7 DEF ApplyConfig
  <1>8. QED
    BY <1>1, <1>2, <1>3, <1>4, <1>5, <1>6, <1>7 DEF Worker

LEMMA InvStep == IInv /\ [Next]_vars => IInv'
  <1> SUFFICES ASSUME IInv, [Next]_vars PROVE IInv'
    OBVIOUS
  <1> USE BoundsAssumption DEF IInv, TypeOK, LatchInv, flags
  <1>1. CASE Worker
    BY <1>1, WorkerStep
  <1>2. CASE BeatFails
    BY <1>2 DEF BeatFails
  <1>3. CASE Sighup
    BY <1>3 DEF Sighup, Running
  <1>4. CASE Sigterm
    BY <1>4 DEF Sigterm, Running
  <1>5. CASE Stop
    BY <1>5 DEF Stop, Running
  <1>6. CASE Die
    BY <1>6 DEF Die
  <1>7. CASE Restart
    BY <1>7 DEF Restart
  <1>8. CASE Over \/ UNCHANGED vars
    BY <1>8 DEF Over, vars
  <1>9. QED
    BY <1>1, <1>2, <1>3, <1>4, <1>5, <1>6, <1>7, <1>8 DEF Next

LEMMA InvHolds == Spec => []IInv
  BY InvInit, InvStep, PTL DEF Spec

\* The variables keep their types, and the worker only ever exits with code 0
\* (which ends heartbeats for good) at somebody's request
\* (heartbeat.c:39-73).
THEOREM ExitsOnRequest == Spec => []TypeOK
  <1>1. IInv => TypeOK
    BY DEF IInv
  <1>2. QED
    BY <1>1, InvHolds, PTL

\* A worker that waits has no pending request without a set latch, for any
\* number of signals at any step of the loop (heartbeat.c:39-71).
THEOREM NoSignalIsSleptThrough == Spec => []NoLostWakeup
  <1>1. IInv => NoLostWakeup
    BY DEF IInv, LatchInv, NoLostWakeup
  <1>2. QED
    BY <1>1, InvHolds, PTL
=============================================================================
