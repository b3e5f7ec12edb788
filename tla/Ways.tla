-------------------------------- MODULE Ways --------------------------------
(***************************************************************************)
(* The cache ways of an L3 domain and the masks cut from them.             *)
(*                                                                         *)
(* A capacity bitmask (CBM) is the set of the numbers of its bits, so the  *)
(* code's  a & b == 0  is  a \cap b = {},  a |= b  is  a \cup b  and       *)
(* a &^= b  is  a \ b.  Every domain of a node has the same number of ways *)
(* (cmd/driver/main.go:225-228 gives each cache ID info.NumWays()).        *)
(***************************************************************************)
EXTENDS Integers, FiniteSets

CONSTANT NumWays    \* number of ways of an L3 domain: Info.NumWays()

ASSUME NumWaysAssumption == NumWays \in Nat \ {0}

Ways == 0 .. NumWays - 1

CBM == SUBSET Ways

\* The mask of `count' consecutive ways, the lowest being `start'.
buildWayMask(start, count) == start .. start + count - 1

\* The test the first-fit search makes at `start'.
Fits(used, ways, start) ==
    /\ start \in Nat
    /\ start + ways <= NumWays
    /\ used \cap buildWayMask(start, ways) = {}

HasRoom(used, ways) == \E start \in Ways : Fits(used, ways, start)

\* `start' is the lowest position at which `ways' consecutive ways are free.
IsFirstFit(used, ways, start) ==
    /\ Fits(used, ways, start)
    /\ \A lower \in 0 .. start - 1 : ~ Fits(used, ways, lower)

Contiguous(cbm) ==
    \E low, high \in Ways : low <= high /\ cbm = low .. high
=============================================================================
