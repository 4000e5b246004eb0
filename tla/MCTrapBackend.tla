--------------------------- MODULE MCTrapBackend ----------------------------
(* Configurations of TrapBackend for TLC. *)
EXTENDS TrapBackend

SerialConfigurations == {c \in Configuration : ~c.parallel}
ParallelConfigurations == {c \in Configuration : c.parallel /\ c.kind = "client"}
AllConfigurations == SerialConfigurations \cup ParallelConfigurations
=============================================================================
