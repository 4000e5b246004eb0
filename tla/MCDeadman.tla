----------------------------- MODULE MCDeadman ------------------------------
(* Sources for TLC: the heartbeat worker and the poker, interchangeable.   *)
EXTENDS Deadman, TLC

CONSTANTS bgworker, poker

MCSources == {bgworker, poker}

Symmetry == Permutations(MCSources)
=============================================================================
