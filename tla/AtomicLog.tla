----------------------------- MODULE AtomicLog ------------------------------
(***************************************************************************)
(* What the write path of the alert file promises to those who log: an     *)
(* event is decided once.  Either its line is added, whole, behind all     *)
(* lines of one file that is not sealed, or it is dropped.  Lines that are *)
(* in a file stay what and where they are.  AlertLog is shown to implement *)
(* this.                                                                   *)
(***************************************************************************)
EXTENDS Naturals

CONSTANTS
  Writers, Files, MaxEvents,
  MayDrop   \* failures may happen; otherwise every event gets into a file

VARIABLES
  log,      \* the events of the intact lines of each file, by position
  begun,    \* events each writer has begun
  pending,  \* writers whose event is not decided yet
  sealed    \* files that take no more lines

vars == <<log, begun, pending, sealed>>

Init ==
  /\ log = [f \in Files |-> [p \in {} |-> 0]]
  /\ begun = [w \in Writers |-> 0]
  /\ pending = {}
  /\ sealed = {}

\* An event may be dropped in the step that begins it.
Begin(w) ==
  /\ w \notin pending
  /\ begun[w] < MaxEvents
  /\ begun' = [begun EXCEPT ![w] = @ + 1]
  /\ \/ pending' = pending \cup {w}
     \/ MayDrop /\ pending' = pending
  /\ UNCHANGED <<log, sealed>>

WithLine(lines, p, e) ==
  [q \in DOMAIN lines \cup {p} |-> IF q = p THEN e ELSE lines[q]]

\* The line goes to some position behind those of the file.
Commit(w, f) ==
  /\ w \in pending
  /\ f \notin sealed
  /\ \E p \in DOMAIN log'[f] :
        /\ \A q \in DOMAIN log[f] : q < p
        /\ log' = [log EXCEPT ![f] =
                     WithLine(@, p, [writer |-> w, seq |-> begun[w]])]
  /\ pending' = pending \ {w}
  /\ UNCHANGED <<begun, sealed>>

Drop(w) ==
  /\ MayDrop
  /\ w \in pending
  /\ pending' = pending \ {w}
  /\ UNCHANGED <<log, begun, sealed>>

Seal(f) ==
  /\ sealed' = sealed \cup {f}
  /\ UNCHANGED <<log, begun, pending>>

Decide(w) == Drop(w) \/ \E f \in Files : Commit(w, f)

Next ==
  \/ \E w \in Writers : Begin(w) \/ Decide(w)
  \/ \E f \in Files : Seal(f)

Spec == Init /\ [][Next]_vars
=============================================================================
