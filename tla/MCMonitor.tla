----------------------------- MODULE MCMonitor ------------------------------
(***************************************************************************)
(* A small instance of Monitor for TLC.                                    *)
(***************************************************************************)
EXTENDS Monitor

LOCAL INSTANCE TLC

CONSTANTS g1, g2

TwoGroups == {g1, g2}

Symmetry == Permutations(Groups)
=============================================================================
