------------------------------ MODULE Layouts -------------------------------
(***************************************************************************)
(* pkg/cache/partition.go without its loops: which requests for partitions *)
(* are accepted, and what they are divided into.  A spec is a number of    *)
(* partitions of a number of ways.  Module Partitioning runs the loops.    *)
(***************************************************************************)
EXTENDS Ways, Sequences

PartitionSpec(ways, count) == [ways |-> ways, count |-> count]

\* Variant: the remainder is left to the default group.
SpecsFromCountTruncated(count, totalWays) ==
    IF count <= 0 THEN <<>> ELSE <<PartitionSpec(totalWays \div count, count)>>

\* --partition-count: the remainder goes to the first partitions.
SpecsFromCount(count, totalWays) ==
    LET base == totalWays \div count
        remainder == totalWays % count
        larger == IF remainder > 0 THEN <<PartitionSpec(base + 1, remainder)>> ELSE <<>>
    IN  IF count <= 0 THEN <<>>
        ELSE larger \o <<PartitionSpec(base, count - remainder)>>

\* The partitions asked for of a domain: <<i, j>> is the j-th of the i-th spec.
Slots(specs) == UNION {{i} \X (1 .. specs[i].count) : i \in DOMAIN specs}

\* Specs are applied in order.
Earlier(specs, s) ==
    {t \in Slots(specs) : t[1] < s[1] \/ (t[1] = s[1] /\ t[2] < s[2])}

\* The ways of some of them, one by one.
WaysOf(specs, slots) == UNION {{s} \X (1 .. specs[s[1]].ways) : s \in slots}

TotalWays(specs) == Cardinality(WaysOf(specs, Slots(specs)))

TotalCount(specs) == Cardinality(Slots(specs))

\* PartitionCache answers no error.  The count is that of one domain.
Accepted(specs, minBits, closids) ==
    /\ specs # <<>>
    /\ \A i \in DOMAIN specs : specs[i].ways \in minBits .. NumWays
    /\ TotalWays(specs) <= NumWays
    /\ TotalCount(specs) <= closids - 1

IndexOf(specs, s) == Cardinality(Earlier(specs, s))

\* The masks lie one after the other, from way 0.
MaskOf(specs, s) ==
    buildWayMask(Cardinality(WaysOf(specs, Earlier(specs, s))), specs[s[1]].ways)

\* The index and the mask of each partition of a domain.
Layout(specs) == {<<IndexOf(specs, s), MaskOf(specs, s)>> : s \in Slots(specs)}

\* The partitions of all domains, as the loops of main go through them: named
\* by the domain and the index, each with its mask.
AllPartitions(cacheIDs, specs) ==
    LET count == TotalCount(specs)
        Mask(index) == CHOOSE cbm \in CBM : <<index, cbm>> \in Layout(specs)
    IN  [p \in 1 .. count * Len(cacheIDs) |->
            LET index == (p - 1) % count IN
            [group |-> <<cacheIDs[(p - 1) \div count + 1], index>>, cbm |-> Mask(index)]]
=============================================================================
