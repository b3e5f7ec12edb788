--------------------------- MODULE MCBasicDriver ----------------------------
(***************************************************************************)
(* Small instances of BasicDriver for TLC.                                 *)
(***************************************************************************)
EXTENDS BasicDriver, Layouts

LOCAL INSTANCE TLC

CONSTANTS c1, c2, h1, h2

One == {c1}
Two == {c1, c2}
OneHandler == {h1}
TwoHandlers == {h1, h2}

\* Partitions 0, 1 and 2 of one domain, and partitions 0 and 1 of two.
OneDomain == <<0>>
TwoDomains == <<0, 1>>
GroupsOfOne == {0} \X (0 .. 2)
GroupsOfTwo == {0, 1} \X (0 .. 1)
DevicesOfOne == {"cache", "mba"} \X GroupsOfOne
DevicesOfTwo == {"cache", "mba"} \X GroupsOfTwo
Domain == [g \in Groups |-> g[1]]

\* --partition-count
ByCount(cacheIDs, counts) ==
    {AllPartitions(cacheIDs, SpecsFromCount(count, NumWays)) : count \in counts}

Halves == ByCount(OneDomain, {2})
HalvesOfTwo == ByCount(TwoDomains, {2})
Thirds == ByCount(OneDomain, {3})
HalvesOrThirds == ByCount(OneDomain, {2, 3})

StartFaults == {"get", "mkdir", "schemata", "cdi", "list", "publish"}
StopFaults == {"unpublish", "unlink"}

Symmetry == Permutations(Claims) \cup Permutations(Handlers)
=============================================================================
