----------------------------- MODULE MCResponse ------------------------------
(* Sessions, rules and settings of Response for TLC. *)
EXTENDS Response

\* One session of an application, one of the monitor's role, and two of the
\* backup's, of which the rules name one by its address.
MCRoleOf == [s \in Sessions |->
  CASE s = "a" -> "app" [] s = "m" -> "monitor" [] OTHER -> "backup"]
MCAddrOf == [s \in Sessions |-> IF s = "b1" THEN "orchestrator" ELSE "elsewhere"]

\* A rule with all of its fields empty is among them.
MCRules == {[session_user |-> "backup", client_addr |-> "orchestrator"], <<>>}

MCSettings == {[dry_run |-> d, primary_dsn |-> p] : d, p \in BOOLEAN}
=============================================================================
