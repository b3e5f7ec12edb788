------------------------- MODULE MCStructuredDriver -------------------------
(***************************************************************************)
(* Small instances of StructuredDriver for TLC.                            *)
(***************************************************************************)
EXTENDS StructuredDriver, TLC

CONSTANTS c1, c2, c3, h1, h2

Two == {c1, c2}
Three == {c1, c2, c3}
TwoHandlers == {h1, h2}

OneDomain == {0}
TwoDomains == {0, 1}

GroupsOfTwo == OneDomain \X Two
GroupsOfTwoInTwo == TwoDomains \X Two
GroupsOfThree == OneDomain \X Three

Ask(d, n) == [cacheID |-> d, ways |-> n]

\* One cache-way device per claim, as the runbook has it.
SmallRequests == {<<Ask(0, 1)>>, <<Ask(0, 2)>>}
\* The same with a result that is not this driver's before it.
MixedRequests == {<<Ask(0, 1)>>, <<OtherDevice, Ask(0, 2)>>}
\* Claims with two devices, of one domain or of two.
PairRequests == {<<Ask(0, 1), Ask(0, 1)>>, <<Ask(0, 1)>>}
CrossRequests == {<<Ask(0, 1), Ask(1, 1)>>, <<Ask(1, 1)>>}

\* Every claim has a CDI file of its own.
OwnFile == [c \in Claims |-> c]

\* Two UIDs that begin with the same eight characters.
SharedFile == [c \in Claims |-> "prefix"]

AllWays == Ways
NoWays == {}

NoFaults == {}
CreateFaults == {"get", "mkdir", "schemata", "cdi", "unlink"}
SteadyFaults == {"get", "mkdir", "schemata", "cdi"}
UndoFaults == {"schemata", "cdi"}
DeleteFaults == {"delete"}

ClaimSymmetry == Permutations(Claims)
Symmetry == Permutations(Claims) \cup Permutations(Handlers)
=============================================================================
