-------------------------- MODULE CachePartitions ---------------------------
(***************************************************************************)
(* What the driver promises, whatever its mode: partitions of the caches   *)
(* of a node.  A partition has a name and belongs to one domain; while it  *)
(* holds ways, they are consecutive and no other partition of the domain   *)
(* has any of them.  Nothing is said of when a partition is granted, how   *)
(* it is recorded, or what happens in between.                             *)
(***************************************************************************)
EXTENDS Ways

CONSTANTS
    Names,      \* names of partitions
    DomainOf    \* name -> cache domain

VARIABLE held   \* name -> the ways it holds, {} for none

Init == held = [n \in Names |-> {}]

Others(n) == {m \in Names \ {n} : DomainOf[m] = DomainOf[n]}

\* A partition takes a run of ways nobody holds, in exchange for what it has.
Grant(n, cbm) ==
    /\ Contiguous(cbm)
    /\ \A m \in Others(n) : held[m] \cap cbm = {}
    /\ held' = [held EXCEPT ![n] = cbm]

Drop(n) == held' = [held EXCEPT ![n] = {}]

Next == \E n \in Names : Drop(n) \/ \E cbm \in CBM : Grant(n, cbm)

Spec == Init /\ [][Next]_held
=============================================================================
