---------------------------- MODULE Partitioning ----------------------------
(***************************************************************************)
(* PartitionCache (pkg/cache/partition.go:65-154), which divides each L3   *)
(* domain into the partitions of basic mode: the validation, one spec per  *)
(* step, then one partition per step, for everything --partition-count     *)
(* and --partition-sizes can ask for.                                      *)
(***************************************************************************)
EXTENDS Layouts

CONSTANTS
    CacheIDs,       \* info.CacheIDs, in order
    NumCLOSIDs,     \* info.NumCLOSIDs
    MinCBMBits,     \* info.MinCBMBits
    MaxCount,       \* bound: partitions asked for
    MaxWays         \* bound: ways of a partition asked for

ASSUME PartitioningAssumption ==
    /\ CacheIDs \in Seq(Nat) \ {<<>>}
    /\ \A c, d \in DOMAIN CacheIDs : CacheIDs[c] = CacheIDs[d] => c = d
    /\ NumCLOSIDs \in Nat \ {0}
    /\ MinCBMBits \in Nat \ {0}
    /\ MaxCount \in Nat \ {0}
    /\ MaxWays \in Nat \ {0}

\* What ParsePartitionSizes lets through, up to two sizes.
ParsedSpec == [ways : 1 .. MaxWays, count : 1 .. MaxCount]

Parsed == {<<s>> : s \in ParsedSpec} \cup {<<s, t>> : s, t \in ParsedSpec}

Counted == {SpecsFromCount(count, NumWays) : count \in -1 .. MaxCount}

VARIABLES
    pc,             \* "validate", "divide", then "done" or "error"
    specs,
    next,           \* the spec the loop is at
    totalRequested, totalCount,
    cache,          \* the domain the loop is at, a position in CacheIDs
    startWay, globalIdx,
    left,           \* partitions of the current spec still to be made
    partitions      \* what has been appended, for all domains

validation == <<totalRequested, totalCount>>
vars == <<pc, specs, next, validation, cache, startWay, globalIdx, left, partitions>>

Init ==
    /\ specs \in Counted \cup Parsed
    /\ pc = IF specs = <<>> THEN "error" ELSE "validate"
    /\ next = 1
    /\ totalRequested = 0
    /\ totalCount = 0
    /\ cache = 1
    /\ startWay = 0
    /\ globalIdx = 0
    /\ left = 0
    /\ partitions = <<>>

\* Variant: the hardware's minimum is not looked at.
ValidateUpperOnly ==
    /\ pc = "validate"
    /\ next <= Len(specs)
    /\ IF specs[next].ways > NumWays
       THEN pc' = "error" /\ UNCHANGED <<next, validation>>
       ELSE /\ totalRequested' = totalRequested + specs[next].ways * specs[next].count
            /\ totalCount' = totalCount + specs[next].count
            /\ next' = next + 1
            /\ UNCHANGED pc
    /\ UNCHANGED <<specs, cache, startWay, globalIdx, left, partitions>>

\* Variant: the count of a spec is left out of the total of ways.
ValidateOneEach ==
    /\ pc = "validate"
    /\ next <= Len(specs)
    /\ IF specs[next].ways \notin MinCBMBits .. NumWays
       THEN pc' = "error" /\ UNCHANGED <<next, validation>>
       ELSE /\ totalRequested' = totalRequested + specs[next].ways
            /\ totalCount' = totalCount + specs[next].count
            /\ next' = next + 1
            /\ UNCHANGED pc
    /\ UNCHANGED <<specs, cache, startWay, globalIdx, left, partitions>>

ValidateSpec ==
    /\ pc = "validate"
    /\ next <= Len(specs)
    /\ IF specs[next].ways \notin MinCBMBits .. NumWays
       THEN pc' = "error" /\ UNCHANGED <<next, validation>>
       ELSE /\ totalRequested' = totalRequested + specs[next].ways * specs[next].count
            /\ totalCount' = totalCount + specs[next].count
            /\ next' = next + 1
            /\ UNCHANGED pc
    /\ UNCHANGED <<specs, cache, startWay, globalIdx, left, partitions>>

ValidateTotals ==
    /\ pc = "validate"
    /\ next > Len(specs)
    /\ IF totalRequested > NumWays \/ totalCount > NumCLOSIDs - 1
       THEN pc' = "error" /\ UNCHANGED <<next, left>>
       ELSE /\ pc' = "divide"
            /\ next' = 1
            /\ left' = specs[1].count
    /\ UNCHANGED <<specs, validation, cache, startWay, globalIdx, partitions>>

buildCBM(start, numWays) == start .. start + numWays - 1

Partition(id, index, spec, start) ==
    [CacheID |-> id, Index |-> index, Ways |-> spec.ways, CBM |-> buildCBM(start, spec.ways)]

\* Variant: every partition begins where its spec does.
MakePartitionInPlace ==
    /\ pc = "divide"
    /\ left > 0
    /\ partitions' =
         Append(partitions, Partition(CacheIDs[cache], globalIdx, specs[next], startWay))
    /\ startWay' = IF left = 1 THEN startWay + specs[next].ways ELSE startWay
    /\ globalIdx' = globalIdx + 1
    /\ left' = left - 1
    /\ UNCHANGED <<pc, specs, next, validation, cache>>

MakePartition ==
    /\ pc = "divide"
    /\ left > 0
    /\ partitions' =
         Append(partitions, Partition(CacheIDs[cache], globalIdx, specs[next], startWay))
    /\ startWay' = startWay + specs[next].ways
    /\ globalIdx' = globalIdx + 1
    /\ left' = left - 1
    /\ UNCHANGED <<pc, specs, next, validation, cache>>

NextSpec ==
    /\ pc = "divide"
    /\ left = 0
    /\ next < Len(specs)
    /\ next' = next + 1
    /\ left' = specs[next + 1].count
    /\ UNCHANGED <<pc, specs, validation, cache, startWay, globalIdx, partitions>>

\* Variant: the indices go on from the domain before.
NextCacheContinued ==
    /\ pc = "divide"
    /\ left = 0
    /\ next = Len(specs)
    /\ IF cache < Len(CacheIDs)
       THEN /\ cache' = cache + 1
            /\ next' = 1
            /\ left' = specs[1].count
            /\ startWay' = 0
            /\ UNCHANGED pc
       ELSE pc' = "done" /\ UNCHANGED <<cache, next, left, startWay>>
    /\ UNCHANGED <<specs, validation, globalIdx, partitions>>

NextCache ==
    /\ pc = "divide"
    /\ left = 0
    /\ next = Len(specs)
    /\ IF cache < Len(CacheIDs)
       THEN /\ cache' = cache + 1
            /\ next' = 1
            /\ left' = specs[1].count
            /\ startWay' = 0
            /\ globalIdx' = 0
            /\ UNCHANGED pc
       ELSE pc' = "done" /\ UNCHANGED <<cache, next, left, startWay, globalIdx>>
    /\ UNCHANGED <<specs, validation, partitions>>

Next == ValidateSpec \/ ValidateTotals \/ MakePartition \/ NextSpec \/ NextCache

Spec == Init /\ [][Next]_vars

-----------------------------------------------------------------------------

\* The partitions made so far of the domain at position c of CacheIDs.
Own(c) == {p \in DOMAIN partitions : partitions[p].CacheID = CacheIDs[c]}

TypeOK ==
    /\ pc \in {"validate", "divide", "done", "error"}
    /\ next \in 1 .. Len(specs) + 1
    /\ cache \in 1 .. Len(CacheIDs)
    /\ startWay \in 0 .. NumWays
    /\ globalIdx \in Nat
    /\ left \in Nat
    /\ \A i \in DOMAIN partitions : partitions[i].CBM \in CBM

\* No way is given to two partitions of a domain, and what is still to be given
\* begins at startWay: partition.go:123-125.
Disjoint ==
    /\ \A p, q \in DOMAIN partitions :
          (p # q /\ partitions[p].CacheID = partitions[q].CacheID)
              => partitions[p].CBM \cap partitions[q].CBM = {}
    /\ pc = "divide" =>
          \A p \in DOMAIN partitions :
              partitions[p].CacheID = CacheIDs[cache] =>
                  \A way \in partitions[p].CBM : way < startWay

\* Every mask is one that the hardware accepts: a run of at least min_cbm_bits
\* ways of the cache.
AcceptedByHardware ==
    \A p \in DOMAIN partitions :
        /\ Contiguous(partitions[p].CBM)
        /\ Cardinality(partitions[p].CBM) >= MinCBMBits

\* In the end each domain has the layout that the specs ask for, in the order of
\* the indices; an error is answered exactly for the specs that are not accepted.
AsSpecified ==
    /\ pc = "done" =>
          /\ Accepted(specs, MinCBMBits, NumCLOSIDs)
          /\ \A c \in DOMAIN CacheIDs :
                /\ {<<partitions[p].Index, partitions[p].CBM>> : p \in Own(c)} = Layout(specs)
                /\ \A p, q \in Own(c) : p < q => partitions[p].Index < partitions[q].Index
    /\ pc = "error" => ~ Accepted(specs, MinCBMBits, NumCLOSIDs)

\* runbook.md:262, "No wasted ways": --partition-count gives every way of a domain
\* to a partition, and no partition is more than one way larger than another.
NothingWasted ==
    (pc = "done" /\ specs \in Counted) =>
        \A c \in DOMAIN CacheIDs :
            /\ UNION {partitions[p].CBM : p \in Own(c)} = Ways
            /\ \A p, q \in Own(c) : partitions[p].Ways - partitions[q].Ways \in -1 .. 1

\* runbook.md:76, "partition_count <= num_closids - 1 (one CLOSID reserved for the
\* default group)", which partition.go:88 checks: the groups of what was accepted,
\* one per partition, can all be made.
GroupsFitCLOSIDs == pc = "done" => Len(partitions) <= NumCLOSIDs - 1
=============================================================================
