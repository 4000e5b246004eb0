----------------------------- MODULE MCRdsTrap ------------------------------
(* Environments of RdsTrap for TLC. *)
EXTENDS RdsTrap

AllEnvironments == [{"complete", "topic"} -> BOOLEAN]
=============================================================================
