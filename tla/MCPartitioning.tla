--------------------------- MODULE MCPartitioning ---------------------------
(***************************************************************************)
(* Small instances of Partitioning for TLC.                                *)
(***************************************************************************)
EXTENDS Partitioning

\* L3 cache IDs need not be consecutive.
TwoCaches == <<0, 2>>
=============================================================================
