------------------------- MODULE PartitioningProofs -------------------------
(***************************************************************************)
(* The partitions of a domain are those of the layout that the specs ask   *)
(* for: disjoint, each with a mask that the hardware accepts, and nothing  *)
(* wasted, for every number of ways, every list of domains and every list  *)
(* of specs; on a node with one domain their groups can all be made.       *)
(***************************************************************************)
EXTENDS Partitioning, FiniteSetTheorems, SequenceTheorems, TLAPS

SpecRecord == [ways : Nat, count : Nat]

SpecSeq == Seq(SpecRecord)

Made == [CacheID : Nat, Index : Nat, Ways : Nat, CBM : SUBSET Int]

\* What the loops keep: nothing has been made of the domains still to come.
LoopType ==
    /\ specs \in SpecSeq
    /\ next \in Nat \ {0}
    /\ cache \in DOMAIN CacheIDs
    /\ startWay \in Nat
    /\ globalIdx \in Nat
    /\ left \in Nat
    /\ partitions \in Seq(Made)
    /\ pc = "divide" => next <= Len(specs)
    /\ pc \in {"validate", "divide"} => Len(specs) >= 1
    /\ pc = "validate" => partitions = <<>>

FromCaches ==
    \A p \in DOMAIN partitions :
        \E c \in 1 .. cache : partitions[p].CacheID = CacheIDs[c]

Inv == LoopType /\ FromCaches /\ Disjoint

\* What a list of specs holds: natural numbers of ways and of partitions.
LEMMA SpecAt ==
    ASSUME NEW list \in SpecSeq, NEW i \in 1 .. Len(list)
    PROVE  list[i].ways \in Nat /\ list[i].count \in Nat
<1>1. list[i] \in SpecRecord
  BY DEF SpecSeq
<1> QED
  BY <1>1 DEF SpecRecord

\* A list of one or two specs is a list of specs.
LEMMA SpecLists ==
    ASSUME NEW a \in SpecRecord, NEW b \in SpecRecord
    PROVE  <<a>> \in SpecSeq /\ <<a, b>> \in SpecSeq /\ <<a>> \o <<b>> \in SpecSeq
BY DEF SpecSeq

\* What --partition-count becomes is a list of specs.
LEMMA CountedType == Counted \subseteq SpecSeq
<1>1. ASSUME NEW count \in -1 .. MaxCount
      PROVE  SpecsFromCount(count, NumWays) \in SpecSeq
  <2> DEFINE base == NumWays \div count
             remainder == NumWays % count
  <2>1. CASE count <= 0
    BY <2>1 DEF SpecsFromCount, SpecSeq
  <2>2. CASE count > 0
    <3>1. count \in Nat \ {0} /\ NumWays \in Nat
      BY <2>2, PartitioningAssumption, NumWaysAssumption
    <3>2. base \in Nat /\ remainder \in Nat /\ remainder < count
      BY <3>1
    <3> HIDE DEF base, remainder
    <3>3. PartitionSpec(base + 1, remainder) \in SpecRecord
      BY <3>2 DEF PartitionSpec, SpecRecord
    <3>4. PartitionSpec(base, count - remainder) \in SpecRecord
      BY <3>1, <3>2 DEF PartitionSpec, SpecRecord
    <3>5. /\ <<PartitionSpec(base, count - remainder)>> \in SpecSeq
          /\ <<PartitionSpec(base + 1, remainder)>> \o <<PartitionSpec(base, count - remainder)>>
                \in SpecSeq
          /\ <<>> \o <<PartitionSpec(base, count - remainder)>> \in SpecSeq
      BY <3>3, <3>4, SpecLists DEF SpecSeq
    <3>6. SpecsFromCount(count, NumWays) =
              (IF remainder > 0 THEN <<PartitionSpec(base + 1, remainder)>> ELSE <<>>)
                  \o <<PartitionSpec(base, count - remainder)>>
      BY <2>2, <3>1 DEF SpecsFromCount, base, remainder
    <3> QED
      BY <3>5, <3>6
  <2> QED
    BY <2>1, <2>2, PartitioningAssumption
<1> QED
  BY <1>1 DEF Counted

\* What --partition-sizes becomes is a list of specs.
LEMMA ParsedType == Parsed \subseteq SpecSeq
<1>1. ParsedSpec \subseteq SpecRecord
  BY PartitioningAssumption DEF ParsedSpec, SpecRecord
<1>2. ASSUME NEW a \in ParsedSpec PROVE <<a>> \in SpecSeq
  BY <1>1 DEF SpecSeq
<1>3. ASSUME NEW a \in ParsedSpec, NEW b \in ParsedSpec PROVE <<a, b>> \in SpecSeq
  <2>1. a \in SpecRecord /\ b \in SpecRecord
    BY <1>1
  <2> QED
    BY <2>1, SpecLists
<1>4. {<<s>> : s \in ParsedSpec} \subseteq SpecSeq
  BY <1>2
<1>5. {<<s, t>> : s, t \in ParsedSpec} \subseteq SpecSeq
  BY <1>3
<1> QED
  BY <1>4, <1>5 DEF Parsed

\* Nothing has been made at first.
LEMMA InitInv == Init => Inv
<1> SUFFICES ASSUME Init
             PROVE  Inv
  OBVIOUS
<1>1. specs \in SpecSeq
  BY CountedType, ParsedType DEF Init
<1>2. specs # <<>> => Len(specs) >= 1
  BY <1>1 DEF SpecSeq
<1>3. partitions = <<>> /\ partitions \in Seq(Made) /\ DOMAIN partitions = {}
  BY DEF Init
<1>4. 1 \in DOMAIN CacheIDs
  BY PartitioningAssumption
<1>5. LoopType
  BY <1>1, <1>2, <1>3, <1>4 DEF Init, LoopType
<1> QED
  BY <1>3, <1>5 DEF Init, Inv, FromCaches, Disjoint

\* Each step keeps the partitions disjoint and below startWay.
LEMMA NextInv ==
    ASSUME Inv, [Next]_vars
    PROVE  Inv'
<1> USE PartitioningAssumption DEF Inv
<1>1. CASE ValidateSpec
  BY <1>1 DEF ValidateSpec, LoopType, FromCaches, Disjoint
<1>2. CASE ValidateTotals
  <2>1. specs[1].count \in Nat /\ Len(specs) >= 1
    <3>1. specs \in SpecSeq /\ Len(specs) >= 1
      BY <1>2 DEF ValidateTotals, LoopType
    <3>2. Len(specs) \in Nat
      BY <3>1 DEF SpecSeq
    <3>3. 1 \in 1 .. Len(specs)
      BY <3>1, <3>2
    <3>4. specs[1].count \in Nat
      BY <3>1, <3>3, SpecAt, Zenon
    <3> QED
      BY <3>1, <3>4
  <2> QED
    BY <1>2, <2>1 DEF ValidateTotals, LoopType, FromCaches, Disjoint
<1>3. CASE MakePartition
  <2> DEFINE new == Partition(CacheIDs[cache], globalIdx, specs[next], startWay)
  <2>1. specs[next].ways \in Nat /\ specs[next].count \in Nat
    <3>1. specs \in SpecSeq /\ next \in Nat \ {0} /\ next <= Len(specs)
      BY <1>3 DEF MakePartition, LoopType
    <3>2. Len(specs) \in Nat
      BY <3>1 DEF SpecSeq
    <3>3. next \in 1 .. Len(specs)
      BY <3>1, <3>2
    <3> QED
      BY <3>1, <3>3, SpecAt, Zenon
  <2>2. CacheIDs[cache] \in Nat
    BY DEF LoopType
  <2>3. /\ new \in Made
        /\ new.CacheID = CacheIDs[cache]
        /\ new.CBM = startWay .. startWay + specs[next].ways - 1
    BY <2>1, <2>2 DEF Partition, buildCBM, Made, LoopType
  <2> HIDE DEF new
  <2>4. /\ partitions' = Append(partitions, new)
        /\ startWay' = startWay + specs[next].ways
        /\ left' \in Nat
        /\ pc = "divide" /\ globalIdx' = globalIdx + 1
        /\ UNCHANGED <<pc, specs, next, cache>>
    BY <1>3 DEF MakePartition, LoopType, new
  <2>5. partitions \in Seq(Made)
    BY DEF LoopType
  <2>6. /\ partitions' \in Seq(Made)
        /\ DOMAIN partitions' = DOMAIN partitions \cup {Len(partitions) + 1}
        /\ Len(partitions) + 1 \notin DOMAIN partitions
        /\ \A p \in DOMAIN partitions : partitions'[p] = partitions[p]
        /\ partitions'[Len(partitions) + 1] = new
    BY <2>3, <2>4, <2>5
  <2>7. LoopType'
    BY <2>1, <2>4, <2>6 DEF LoopType
  <2>8. FromCaches'
    <3> SUFFICES ASSUME NEW p \in DOMAIN partitions'
                 PROVE  \E c \in 1 .. cache : partitions'[p].CacheID = CacheIDs[c]
      BY <2>4 DEF FromCaches
    <3>1. CASE p \in DOMAIN partitions
      BY <2>6, <3>1 DEF FromCaches
    <3>2. CASE p = Len(partitions) + 1
      <4>1. cache \in 1 .. cache
        BY DEF LoopType
      <4> QED
        BY <2>3, <2>6, <3>2, <4>1
    <3> QED
      BY <2>6, <3>1, <3>2
  <2>9. \A p \in DOMAIN partitions :
            partitions[p].CacheID = CacheIDs[cache] =>
                \A way \in partitions[p].CBM : way < startWay
    BY <2>4 DEF Disjoint
  <2>10. \A p \in DOMAIN partitions :
             partitions[p].CacheID = new.CacheID => partitions[p].CBM \cap new.CBM = {}
    <3> SUFFICES ASSUME NEW p \in DOMAIN partitions,
                        partitions[p].CacheID = new.CacheID,
                        NEW way \in partitions[p].CBM, way \in new.CBM
                 PROVE  FALSE
      OBVIOUS
    <3>1. way < startWay
      BY <2>3, <2>9
    <3> QED
      BY <2>1, <2>3, <3>1 DEF LoopType
  <2>11. \A p, q \in DOMAIN partitions' :
             (p # q /\ partitions'[p].CacheID = partitions'[q].CacheID)
                 => partitions'[p].CBM \cap partitions'[q].CBM = {}
    BY <2>6, <2>10 DEF Disjoint
  <2>12. \A p \in DOMAIN partitions' :
             partitions'[p].CacheID = CacheIDs[cache] =>
                 \A way \in partitions'[p].CBM : way < startWay'
    <3> SUFFICES ASSUME NEW p \in DOMAIN partitions',
                        partitions'[p].CacheID = CacheIDs[cache],
                        NEW way \in partitions'[p].CBM
                 PROVE  way < startWay'
      OBVIOUS
    <3>0. startWay \in Nat /\ specs[next].ways \in Nat
      BY <2>1 DEF LoopType
    <3>1. CASE p \in DOMAIN partitions
      <4>1. partitions[p] \in Made /\ partitions'[p] = partitions[p]
        BY <2>5, <2>6, <3>1
      <4>2. partitions[p].CBM \in SUBSET Int /\ partitions'[p] = partitions[p]
        BY <4>1 DEF Made
      <4>3. way \in Int /\ way < startWay
        BY <2>9, <3>1, <4>2
      <4> QED
        BY <2>4, <3>0, <4>3
    <3>2. CASE p = Len(partitions) + 1
      <4>1. way \in startWay .. startWay + specs[next].ways - 1
        BY <2>3, <2>6, <3>2
      <4>2. startWay' = startWay + specs[next].ways
        BY <2>4
      <4>3. \A b, n \in Nat : \A a \in b .. b + n - 1 : a < b + n
        OBVIOUS
      <4> QED
        BY <3>0, <4>1, <4>2, <4>3, Zenon
    <3> QED
      BY <2>6, <3>1, <3>2
  <2> QED
    BY <2>4, <2>7, <2>8, <2>11, <2>12 DEF Disjoint
<1>4. CASE NextSpec
  <2>0. next + 1 \in 1 .. Len(specs)
    BY <1>4 DEF NextSpec, LoopType, SpecSeq
  <2>1. specs[next + 1].count \in Nat /\ next + 1 <= Len(specs)
    <3>1. specs \in SpecSeq
      BY DEF LoopType
    <3>2. Len(specs) \in Nat
      BY <3>1 DEF SpecSeq
    <3> QED
      BY <2>0, <3>1, <3>2, SpecAt, SMTT(30)
  <2> QED
    BY <1>4, <2>1 DEF NextSpec, LoopType, FromCaches, Disjoint
<1>5. CASE NextCache
  <2>1. CASE cache < Len(CacheIDs)
    <3>1. specs \in SpecSeq /\ Len(specs) >= 1
      BY <1>5 DEF NextCache, LoopType
    <3>2. Len(specs) \in Nat
      BY <3>1 DEF SpecSeq
    <3>3. 1 \in 1 .. Len(specs) /\ specs[1].count \in Nat
      BY <3>1, <3>2, SpecAt, SMTT(30)
    <3>4. DOMAIN CacheIDs = 1 .. Len(CacheIDs) /\ Len(CacheIDs) \in Nat
      OBVIOUS
    <3>5. cache \in 1 .. Len(CacheIDs)
      BY <3>4 DEF LoopType
    <3>6. cache \in Nat /\ cache' = cache + 1 /\ cache' \in DOMAIN CacheIDs
      BY <1>5, <2>1, <3>4, <3>5 DEF NextCache
    <3>7. LoopType'
      BY <1>5, <2>1, <3>1, <3>3, <3>6 DEF NextCache, LoopType
    <3>8. FromCaches'
      BY <1>5, <3>6 DEF NextCache, FromCaches
    <3>9. \A p \in DOMAIN partitions : partitions[p].CacheID # CacheIDs[cache']
      BY <3>6 DEF FromCaches
    <3> QED
      BY <1>5, <2>1, <3>7, <3>8, <3>9 DEF NextCache, Disjoint
  <2>2. CASE ~ (cache < Len(CacheIDs))
    BY <1>5, <2>2 DEF NextCache, LoopType, FromCaches, Disjoint
  <2> QED
    BY <2>1, <2>2
<1>6. CASE UNCHANGED vars
  BY <1>6 DEF vars, LoopType, FromCaches, Disjoint
<1> QED
  BY <1>1, <1>2, <1>3, <1>4, <1>5, <1>6 DEF Next

\* PartitionCache never gives a way of a domain to two partitions.
THEOREM PartitionsDisjoint == Spec => []Disjoint
<1>1. Inv /\ [Next]_vars => Inv'
  BY NextInv
<1>2. Inv => Disjoint
  BY DEF Inv
<1> QED
  BY InitInv, <1>1, <1>2, PTL DEF Spec

-----------------------------------------------------------------------------
\* Room: the totals that the validation adds up bound what the loops give out.

\* What the first loop adds up: the ways of each spec, and the partitions.
WaysAsked == [i \in 1 .. Len(specs) |-> specs[i].ways * specs[i].count]
CountAsked == [i \in 1 .. Len(specs) |-> specs[i].count]

\* sum[i] is the sum of the first i values of f, for i up to k.  A loop that adds
\* the values up extends it by one in each step; the sums are a value of the
\* invariant, so that no induction over the specs is needed.
Sums(f, sum, k) ==
    /\ sum \in [0 .. k -> Nat]
    /\ sum[0] = 0
    /\ \A i \in 1 .. k : sum[i] = sum[i - 1] + f[i]
    /\ \A i \in 0 .. k : sum[i] <= sum[k]

\* The specs that the validation has passed, and their totals.
ValidateInv ==
    pc = "validate" =>
        /\ next <= Len(specs) + 1
        /\ startWay = 0 /\ globalIdx = 0
        /\ \A i \in 1 .. next - 1 : specs[i].ways \in MinCBMBits .. NumWays
        /\ \E sum : Sums(WaysAsked, sum, next - 1) /\ sum[next - 1] = totalRequested
        /\ \E sum : Sums(CountAsked, sum, next - 1) /\ sum[next - 1] = totalCount

\* The loops are where the sums say, and the sums fit in the domain.
DivideInv ==
    pc = "divide" =>
        /\ \A i \in 1 .. Len(specs) : specs[i].ways \in MinCBMBits .. NumWays
        /\ totalRequested <= NumWays
        /\ \E sum : /\ Sums(WaysAsked, sum, Len(specs)) /\ sum[Len(specs)] = totalRequested
                    /\ startWay + specs[next].ways * left = sum[next]
        /\ \E sum : /\ Sums(CountAsked, sum, Len(specs)) /\ sum[Len(specs)] <= NumCLOSIDs - 1
                    /\ globalIdx + left = sum[next]
        /\ cache = 1 => Len(partitions) = globalIdx

\* What is left of it once the loops have ended.
EndInv ==
    /\ pc \in {"validate", "divide", "done", "error"}
    /\ next <= Len(specs) + 1
    /\ startWay <= NumWays
    /\ (pc = "done" /\ Len(CacheIDs) = 1) => Len(partitions) <= NumCLOSIDs - 1

MaskOK(cbm) == cbm \in CBM /\ Contiguous(cbm) /\ Cardinality(cbm) >= MinCBMBits

MasksInv == \A p \in DOMAIN partitions : MaskOK(partitions[p].CBM)

RoomInv == ValidateInv /\ DivideInv /\ EndInv /\ MasksInv

\* One more turn of a loop that adds up.
LEMMA SumsExtend ==
    ASSUME NEW f, NEW sum, NEW k \in Nat, Sums(f, sum, k), f[k + 1] \in Nat
    PROVE  \E longer : /\ Sums(f, longer, k + 1)
                       /\ longer[k + 1] = sum[k] + f[k + 1]
<1> DEFINE longer == [i \in 0 .. k + 1 |-> IF i = k + 1 THEN sum[k] + f[k + 1] ELSE sum[i]]
<1>1. sum[k] \in Nat /\ \A i \in 0 .. k : sum[i] \in Nat
  BY DEF Sums
<1>2. /\ longer \in [0 .. k + 1 -> Nat]
      /\ longer[k + 1] = sum[k] + f[k + 1]
      /\ \A i \in 0 .. k : longer[i] = sum[i]
  BY <1>1
<1> HIDE DEF longer
<1>3. longer[0] = 0
  BY <1>2 DEF Sums
<1>4. \A i \in 1 .. k + 1 : longer[i] = longer[i - 1] + f[i]
  <2> SUFFICES ASSUME NEW i \in 1 .. k + 1
               PROVE  longer[i] = longer[i - 1] + f[i]
    OBVIOUS
  <2>1. CASE i = k + 1
    BY <1>2, <2>1
  <2>2. CASE i # k + 1
    <3>1. i \in 1 .. k /\ i \in 0 .. k /\ i - 1 \in 0 .. k
      BY <2>2
    <3> QED
      BY <1>2, <3>1 DEF Sums
  <2> QED
    BY <2>1, <2>2
<1>5. \A i \in 0 .. k + 1 : longer[i] <= longer[k + 1]
  <2> SUFFICES ASSUME NEW i \in 0 .. k + 1
               PROVE  longer[i] <= longer[k + 1]
    OBVIOUS
  <2>1. CASE i = k + 1
    BY <1>1, <1>2, <2>1
  <2>2. CASE i # k + 1
    <3>1. i \in 0 .. k
      BY <2>2
    <3>2. sum[i] <= sum[k] /\ sum[i] \in Nat
      BY <1>1, <3>1 DEF Sums
    <3> QED
      BY <1>1, <1>2, <3>1, <3>2
  <2> QED
    BY <2>1, <2>2
<1>6. Sums(f, longer, k + 1)
  BY <1>2, <1>3, <1>4, <1>5 DEF Sums
<1> QED
  BY <1>2, <1>6

\* The values that are added up are natural numbers.
LEMMA AskedType ==
    ASSUME LoopType, NEW i \in 1 .. Len(specs)
    PROVE  /\ WaysAsked[i] = specs[i].ways * specs[i].count /\ WaysAsked[i] \in Nat
           /\ CountAsked[i] = specs[i].count /\ CountAsked[i] \in Nat
           /\ specs[i].ways \in Nat /\ specs[i].count \in Nat
<1>1. specs[i].ways \in Nat /\ specs[i].count \in Nat
  BY SpecAt DEF LoopType
<1>2. \A a, b \in Nat : a * b \in Nat
  OBVIOUS
<1> QED
  BY <1>1, <1>2 DEF WaysAsked, CountAsked

\* A run of ways that ends within the cache is a mask that the hardware accepts.
LEMMA MaskFits ==
    ASSUME NEW start \in Nat, NEW ways \in Nat, ways >= MinCBMBits, start + ways <= NumWays
    PROVE  MaskOK(buildCBM(start, ways))
<1>1. ways >= 1 /\ NumWays \in Nat
  BY PartitioningAssumption, NumWaysAssumption
<1>2. buildCBM(start, ways) = start .. start + ways - 1
  BY DEF buildCBM
<1>3. Cardinality(start .. start + ways - 1) = ways
  <2>1. start \in Int /\ start + ways - 1 \in Int /\ ~ (start > start + ways - 1)
    BY <1>1
  <2>2. Cardinality(start .. start + ways - 1) = start + ways - 1 - start + 1
    BY <2>1, FS_Interval
  <2> QED
    BY <2>2
<1>4. start \in Ways /\ start + ways - 1 \in Ways /\ start <= start + ways - 1
  BY <1>1 DEF Ways
<1>5. start .. start + ways - 1 \in CBM
  BY <1>1 DEF CBM, Ways
<1>6. Contiguous(start .. start + ways - 1)
  BY <1>4 DEF Contiguous
<1> QED
  BY <1>2, <1>3, <1>5, <1>6 DEF MaskOK

\* Nothing has been added up at first.
LEMMA InitRoom == Init => RoomInv
<1> SUFFICES ASSUME Init PROVE RoomInv
  OBVIOUS
<1>1. LoopType
  BY InitInv DEF Inv
<1>2. Len(specs) \in Nat
  BY <1>1 DEF LoopType, SpecSeq
<1>3. \A f : Sums(f, [i \in 0 .. 0 |-> 0], 0)
  BY DEF Sums
<1>4. [i \in 0 .. 0 |-> 0][0] = 0
  OBVIOUS
<1>5. ValidateInv
  <2>1. next - 1 = 0 /\ next = 1 /\ totalRequested = 0 /\ totalCount = 0
    BY DEF Init
  <2>2. /\ \E sum : Sums(WaysAsked, sum, 0) /\ sum[0] = 0
        /\ \E sum : Sums(CountAsked, sum, 0) /\ sum[0] = 0
    BY <1>3, <1>4
  <2> QED
    BY <1>2, <2>1, <2>2 DEF Init, ValidateInv
<1>6. DivideInv /\ EndInv /\ MasksInv
  BY <1>2, NumWaysAssumption DEF Init, DivideInv, EndInv, MasksInv
<1> QED
  BY <1>5, <1>6 DEF RoomInv

\* A spec passes, and its ways and count are added to the totals.
LEMMA RoomValidateSpec ==
    ASSUME Inv, RoomInv, ValidateSpec
    PROVE  RoomInv'
<1>0. /\ LoopType /\ pc = "validate" /\ Len(specs) \in Nat /\ next \in 1 .. Len(specs)
      /\ UNCHANGED <<specs, cache, startWay, globalIdx, left, partitions>>
  BY DEF ValidateSpec, Inv, LoopType, SpecSeq
<1>1. CASE pc' = "error" /\ UNCHANGED <<next, validation>>
  BY <1>0, <1>1 DEF RoomInv, ValidateInv, DivideInv, EndInv, MasksInv
<1>2. CASE /\ specs[next].ways \in MinCBMBits .. NumWays
           /\ totalRequested' = totalRequested + specs[next].ways * specs[next].count
           /\ totalCount' = totalCount + specs[next].count
           /\ next' = next + 1
           /\ UNCHANGED pc
  <2>1. next - 1 \in Nat /\ next - 1 + 1 = next /\ next' - 1 = next /\ next' <= Len(specs) + 1
    BY <1>0, <1>2
  <2>2. /\ WaysAsked[next] = specs[next].ways * specs[next].count /\ WaysAsked[next] \in Nat
        /\ CountAsked[next] = specs[next].count /\ CountAsked[next] \in Nat
    BY <1>0, AskedType
  <2>3. WaysAsked' = WaysAsked /\ CountAsked' = CountAsked
    BY <1>0 DEF WaysAsked, CountAsked
  <2>4. \E sum : Sums(WaysAsked, sum, next) /\ sum[next] = totalRequested'
    <3>1. PICK sum : Sums(WaysAsked, sum, next - 1) /\ sum[next - 1] = totalRequested
      BY <1>0 DEF RoomInv, ValidateInv
    <3>2. PICK longer : /\ Sums(WaysAsked, longer, next - 1 + 1)
                        /\ longer[next - 1 + 1] = sum[next - 1] + WaysAsked[next - 1 + 1]
      BY <2>1, <2>2, <3>1, SumsExtend
    <3>3. Sums(WaysAsked, longer, next) /\ longer[next] = totalRequested'
      BY <1>2, <2>1, <2>2, <3>1, <3>2
    <3> QED
      BY <3>3
  <2>5. \E sum : Sums(CountAsked, sum, next) /\ sum[next] = totalCount'
    <3>1. PICK sum : Sums(CountAsked, sum, next - 1) /\ sum[next - 1] = totalCount
      BY <1>0 DEF RoomInv, ValidateInv
    <3>2. PICK longer : /\ Sums(CountAsked, longer, next - 1 + 1)
                        /\ longer[next - 1 + 1] = sum[next - 1] + CountAsked[next - 1 + 1]
      BY <2>1, <2>2, <3>1, SumsExtend
    <3>3. Sums(CountAsked, longer, next) /\ longer[next] = totalCount'
      BY <1>2, <2>1, <2>2, <3>1, <3>2
    <3> QED
      BY <3>3
  <2>6. \A i \in 1 .. next : specs[i].ways \in MinCBMBits .. NumWays
    <3>1. \A i \in 1 .. next - 1 : specs[i].ways \in MinCBMBits .. NumWays
      BY <1>0 DEF RoomInv, ValidateInv
    <3>2. \A i \in 1 .. next : i \in 1 .. next - 1 \/ i = next
      BY <1>0
    <3> QED
      BY <1>2, <3>1, <3>2
  <2>7. ValidateInv'
    <3>1. startWay = 0 /\ globalIdx = 0
      BY <1>0 DEF RoomInv, ValidateInv
    <3>2. (\E sum : Sums(WaysAsked, sum, next - 1) /\ sum[next - 1] = totalRequested)'
      BY <2>1, <2>3, <2>4 DEF Sums
    <3>3. (\E sum : Sums(CountAsked, sum, next - 1) /\ sum[next - 1] = totalCount)'
      BY <2>1, <2>3, <2>5 DEF Sums
    <3> QED
      BY <1>0, <2>1, <2>6, <3>1, <3>2, <3>3 DEF ValidateInv
  <2>8. DivideInv' /\ EndInv' /\ MasksInv'
    BY <1>0, <1>2, <2>1 DEF RoomInv, DivideInv, EndInv, MasksInv
  <2> QED
    BY <2>7, <2>8 DEF RoomInv
<1> QED
  BY <1>1, <1>2 DEF ValidateSpec

\* The totals are those of all specs, and they fit: the loops begin.
LEMMA RoomValidateTotals ==
    ASSUME Inv, RoomInv, ValidateTotals
    PROVE  RoomInv'
<1>0. /\ LoopType /\ pc = "validate" /\ Len(specs) \in Nat \ {0} /\ next - 1 = Len(specs)
      /\ startWay = 0 /\ globalIdx = 0 /\ partitions = <<>>
      /\ UNCHANGED <<specs, validation, cache, startWay, globalIdx, partitions>>
  BY DEF ValidateTotals, Inv, RoomInv, ValidateInv, LoopType, SpecSeq
<1>1. CASE pc' = "error" /\ UNCHANGED <<next, left>>
  BY <1>0, <1>1 DEF RoomInv, ValidateInv, DivideInv, EndInv, MasksInv
<1>2. CASE /\ ~ (totalRequested > NumWays \/ totalCount > NumCLOSIDs - 1)
           /\ pc' = "divide" /\ next' = 1 /\ left' = specs[1].count
  <2>1. /\ WaysAsked[1] = specs[1].ways * specs[1].count /\ WaysAsked[1] \in Nat
        /\ CountAsked[1] = specs[1].count /\ CountAsked[1] \in Nat
        /\ specs[1].ways \in Nat /\ specs[1].count \in Nat
    BY <1>0, AskedType
  <2>2. WaysAsked' = WaysAsked /\ CountAsked' = CountAsked
    BY <1>0 DEF WaysAsked, CountAsked
  <2>3. PICK ways : Sums(WaysAsked, ways, Len(specs)) /\ ways[Len(specs)] = totalRequested
    BY <1>0 DEF RoomInv, ValidateInv
  <2>4. PICK count : Sums(CountAsked, count, Len(specs)) /\ count[Len(specs)] = totalCount
    BY <1>0 DEF RoomInv, ValidateInv
  <2>5. 1 \in 1 .. Len(specs) /\ Len(specs) \in 0 .. Len(specs) /\ 1 - 1 = 0
    BY <1>0
  <2>6. /\ ways[1] = WaysAsked[1] /\ ways[Len(specs)] \in Nat
        /\ count[1] = CountAsked[1] /\ count[Len(specs)] \in Nat
    <3>1. ways[1] = ways[0] + WaysAsked[1] /\ ways[0] = 0 /\ ways[Len(specs)] \in Nat
      BY <2>3, <2>5 DEF Sums
    <3>2. count[1] = count[0] + CountAsked[1] /\ count[0] = 0 /\ count[Len(specs)] \in Nat
      BY <2>4, <2>5 DEF Sums
    <3> QED
      BY <2>1, <3>1, <3>2
  <2>7. totalRequested <= NumWays /\ count[Len(specs)] <= NumCLOSIDs - 1
    BY <1>2, <2>3, <2>4, <2>6, NumWaysAssumption, PartitioningAssumption
  <2>8. startWay' + specs[1].ways * left' = ways[1] /\ globalIdx' + left' = count[1]
    <3>1. specs[1].ways * specs[1].count \in Nat
      BY <2>1
    <3> QED
      BY <1>0, <1>2, <2>1, <2>6, <3>1
  <2>9. \A i \in 1 .. Len(specs) : specs[i].ways \in MinCBMBits .. NumWays
    BY <1>0 DEF RoomInv, ValidateInv
  <2>10. DivideInv'
    <3>1. (\E sum : /\ Sums(WaysAsked, sum, Len(specs)) /\ sum[Len(specs)] = totalRequested
                    /\ startWay + specs[next].ways * left = sum[next])'
      BY <1>0, <1>2, <2>2, <2>3, <2>8 DEF Sums, validation
    <3>2. (\E sum : /\ Sums(CountAsked, sum, Len(specs)) /\ sum[Len(specs)] <= NumCLOSIDs - 1
                    /\ globalIdx + left = sum[next])'
      BY <1>0, <1>2, <2>2, <2>4, <2>7, <2>8 DEF Sums
    <3> QED
      BY <1>0, <2>7, <2>9, <3>1, <3>2 DEF DivideInv, validation
  <2>11. ValidateInv' /\ EndInv' /\ MasksInv'
    BY <1>0, <1>2, NumWaysAssumption DEF ValidateInv, RoomInv, EndInv, MasksInv
  <2> QED
    BY <2>10, <2>11 DEF RoomInv
<1> QED
  BY <1>1, <1>2 DEF ValidateTotals

\* Where the loops are: what is still to be made of a spec fits in the domain.
LEMMA RoomLeft ==
    ASSUME Inv, RoomInv, pc = "divide"
    PROVE  /\ LoopType /\ Len(specs) \in Nat \ {0} /\ next \in 1 .. Len(specs)
           /\ specs[next].ways \in Nat /\ specs[next].count \in Nat
           /\ specs[next].ways >= MinCBMBits
           /\ specs[next].ways * left \in Nat
           /\ startWay + specs[next].ways * left <= NumWays
           /\ globalIdx + left <= NumCLOSIDs - 1
<1>1. LoopType /\ Len(specs) \in Nat \ {0} /\ next \in 1 .. Len(specs)
  BY DEF Inv, LoopType, SpecSeq
<1>2. specs[next].ways \in Nat /\ specs[next].count \in Nat
  BY <1>1, AskedType
<1>3. specs[next].ways >= MinCBMBits
  BY <1>1, PartitioningAssumption, NumWaysAssumption DEF RoomInv, DivideInv
<1>4. specs[next].ways * left \in Nat
  <2>1. \A a, b \in Nat : a * b \in Nat
    OBVIOUS
  <2> QED
    BY <1>1, <1>2, <2>1 DEF LoopType
<1>5. next \in 0 .. Len(specs) /\ Len(specs) \in 0 .. Len(specs)
  BY <1>1
<1>6. startWay + specs[next].ways * left <= NumWays
  <2>0. totalRequested <= NumWays
    BY DEF RoomInv, DivideInv
  <2>1. PICK sum : /\ Sums(WaysAsked, sum, Len(specs)) /\ sum[Len(specs)] = totalRequested
                   /\ startWay + specs[next].ways * left = sum[next]
    BY DEF RoomInv, DivideInv
  <2>2. sum[next] <= sum[Len(specs)] /\ sum[next] \in Nat /\ sum[Len(specs)] \in Nat
    BY <1>5, <2>1 DEF Sums
  <2> QED
    BY <2>0, <2>1, <2>2, NumWaysAssumption
<1>7. globalIdx + left <= NumCLOSIDs - 1
  <2>1. PICK sum : /\ Sums(CountAsked, sum, Len(specs)) /\ sum[Len(specs)] <= NumCLOSIDs - 1
                   /\ globalIdx + left = sum[next]
    BY DEF RoomInv, DivideInv
  <2>2. sum[next] <= sum[Len(specs)] /\ sum[next] \in Nat /\ sum[Len(specs)] \in Nat
    BY <1>5, <2>1 DEF Sums
  <2> QED
    BY <2>1, <2>2, PartitioningAssumption
<1> QED
  BY <1>1, <1>2, <1>3, <1>4, <1>6, <1>7

\* One less to make of a spec.
LEMMA OneLess ==
    ASSUME NEW ways \in Nat, NEW n \in Nat, n > 0
    PROVE  /\ ways * n = ways + ways * (n - 1)
           /\ ways * n \in Nat /\ ways * (n - 1) \in Nat
<1>1. PICK m \in Nat : n = m + 1
  <2>1. n - 1 \in Nat /\ n = n - 1 + 1
    OBVIOUS
  <2> QED
    BY <2>1
<1>2. ways * (m + 1) = ways + ways * m /\ ways * m \in Nat
  OBVIOUS
<1> QED
  BY <1>1, <1>2

\* A partition is cut where the last one ended.
LEMMA RoomMakePartition ==
    ASSUME Inv, RoomInv, MakePartition
    PROVE  RoomInv'
<1> DEFINE ways == specs[next].ways
           new == Partition(CacheIDs[cache], globalIdx, specs[next], startWay)
<1>0. /\ pc = "divide" /\ left > 0
      /\ partitions' = Append(partitions, new)
      /\ startWay' = startWay + ways
      /\ globalIdx' = globalIdx + 1
      /\ left' = left - 1
      /\ UNCHANGED <<pc, specs, next, validation, cache>>
  BY DEF MakePartition
<1>1. /\ startWay \in Nat /\ globalIdx \in Nat /\ left \in Nat /\ partitions \in Seq(Made)
      /\ next \in 1 .. Len(specs) /\ Len(specs) \in Nat
      /\ ways \in Nat /\ ways >= MinCBMBits
      /\ startWay + ways * left <= NumWays
      /\ globalIdx + left <= NumCLOSIDs - 1
  BY <1>0, RoomLeft DEF LoopType
<1>2. new.CBM = buildCBM(startWay, ways)
  BY DEF Partition
<1> HIDE DEF ways, new
<1>3. /\ ways * left = ways + ways * left'
      /\ ways * left \in Nat /\ ways * left' \in Nat /\ left' \in Nat
  BY <1>0, <1>1, OneLess
<1>4. startWay + ways <= NumWays
  <2>1. PICK rest \in Nat : rest = ways * left'
    BY <1>3
  <2>2. startWay + (ways + rest) <= NumWays
    BY <1>1, <1>3, <2>1
  <2> QED
    BY <1>1, <2>1, <2>2, NumWaysAssumption
<1>5. startWay' + ways * left' = startWay + ways * left /\ globalIdx' + left' = globalIdx + left
  BY <1>0, <1>1, <1>3
<1>6. MasksInv'
  <2>1. MaskOK(new.CBM)
    BY <1>1, <1>2, <1>4, MaskFits
  <2> SUFFICES ASSUME NEW p \in DOMAIN partitions'
               PROVE  MaskOK(partitions'[p].CBM)
    BY DEF MasksInv, MaskOK
  <2>2. CASE p \in DOMAIN partitions
    <3>1. partitions'[p] = partitions[p]
      BY <1>0, <1>1, <2>2
    <3> QED
      BY <2>2, <3>1 DEF RoomInv, MasksInv
  <2>3. CASE p = Len(partitions) + 1
    <3>1. partitions'[p] = new
      BY <1>0, <1>1, <2>3
    <3> QED
      BY <2>1, <3>1
  <2> QED
    BY <1>0, <1>1, <2>2, <2>3
<1>7. DivideInv'
  <2>1. WaysAsked' = WaysAsked /\ CountAsked' = CountAsked
    BY <1>0 DEF WaysAsked, CountAsked
  <2>2. (\E sum : /\ Sums(WaysAsked, sum, Len(specs)) /\ sum[Len(specs)] = totalRequested
                  /\ startWay + specs[next].ways * left = sum[next])'
    BY <1>0, <1>5, <2>1 DEF RoomInv, DivideInv, Sums, ways, validation
  <2>3. (\E sum : /\ Sums(CountAsked, sum, Len(specs)) /\ sum[Len(specs)] <= NumCLOSIDs - 1
                  /\ globalIdx + left = sum[next])'
    BY <1>0, <1>5, <2>1 DEF RoomInv, DivideInv, Sums
  <2>4. (cache = 1 => Len(partitions) = globalIdx)'
    BY <1>0, <1>1 DEF RoomInv, DivideInv
  <2>5. \A i \in 1 .. Len(specs) : specs[i].ways \in MinCBMBits .. NumWays
    BY <1>0 DEF RoomInv, DivideInv
  <2> QED
    BY <1>0, <2>2, <2>3, <2>4, <2>5 DEF RoomInv, DivideInv, validation
<1>8. ValidateInv' /\ EndInv'
  BY <1>0, <1>1, <1>4 DEF ValidateInv, EndInv
<1> QED
  BY <1>6, <1>7, <1>8 DEF RoomInv

\* The loops go on to a spec whose partitions have not been made.
LEMMA RoomNextSpec ==
    ASSUME Inv, RoomInv, NextSpec \/ NextCache
    PROVE  RoomInv'
<1>0. pc = "divide" /\ left = 0 /\ UNCHANGED <<specs, validation, partitions>>
  BY DEF NextSpec, NextCache
<1>1. /\ startWay \in Nat /\ globalIdx \in Nat /\ cache \in DOMAIN CacheIDs
      /\ next \in 1 .. Len(specs) /\ Len(specs) \in Nat \ {0}
      /\ specs[next].ways \in Nat
      /\ startWay <= NumWays /\ globalIdx <= NumCLOSIDs - 1
  BY <1>0, RoomLeft DEF LoopType, RoomInv, EndInv
<1>2. specs[next].ways * 0 = 0
  BY <1>1
<1>3. PICK ways : /\ Sums(WaysAsked, ways, Len(specs)) /\ ways[Len(specs)] = totalRequested
                  /\ startWay + specs[next].ways * left = ways[next]
  BY <1>0 DEF RoomInv, DivideInv
<1>4. PICK count : /\ Sums(CountAsked, count, Len(specs)) /\ count[Len(specs)] <= NumCLOSIDs - 1
                   /\ globalIdx + left = count[next]
  BY <1>0 DEF RoomInv, DivideInv
<1>5. startWay = ways[next] /\ globalIdx = count[next]
  BY <1>0, <1>1, <1>2, <1>3, <1>4
<1>6. WaysAsked' = WaysAsked /\ CountAsked' = CountAsked
  BY <1>0 DEF WaysAsked, CountAsked
<1>7. MasksInv'
  BY <1>0 DEF RoomInv, MasksInv
<1>8. ASSUME NEW n \in 1 .. Len(specs), next' = n, left' = specs[n].count, pc' = "divide",
             startWay' = ways[n - 1], globalIdx' = count[n - 1], startWay' <= NumWays,
             cache' = 1 => globalIdx' = globalIdx /\ cache = 1
      PROVE  RoomInv'
  <2>1. /\ WaysAsked[n] = specs[n].ways * specs[n].count
        /\ CountAsked[n] = specs[n].count
    BY <1>0, AskedType, RoomLeft
  <2>2. ways[n] = ways[n - 1] + WaysAsked[n] /\ count[n] = count[n - 1] + CountAsked[n]
    BY <1>3, <1>4 DEF Sums
  <2>3. startWay' + specs[n].ways * left' = ways[n] /\ globalIdx' + left' = count[n]
    BY <1>8, <2>1, <2>2
  <2>4. (\E sum : /\ Sums(WaysAsked, sum, Len(specs)) /\ sum[Len(specs)] = totalRequested
                  /\ startWay + specs[next].ways * left = sum[next])'
    BY <1>0, <1>3, <1>6, <1>8, <2>3 DEF Sums, validation
  <2>5. (\E sum : /\ Sums(CountAsked, sum, Len(specs)) /\ sum[Len(specs)] <= NumCLOSIDs - 1
                  /\ globalIdx + left = sum[next])'
    BY <1>0, <1>4, <1>6, <1>8, <2>3 DEF Sums
  <2>6. \A i \in 1 .. Len(specs) : specs[i].ways \in MinCBMBits .. NumWays
    BY <1>0 DEF RoomInv, DivideInv
  <2>7. (cache = 1 => Len(partitions) = globalIdx)'
    BY <1>0, <1>8 DEF RoomInv, DivideInv
  <2>8. DivideInv'
    BY <1>0, <2>4, <2>5, <2>6, <2>7 DEF RoomInv, DivideInv, validation
  <2>9. ValidateInv' /\ EndInv'
    BY <1>0, <1>1, <1>8 DEF ValidateInv, EndInv
  <2> QED
    BY <1>7, <2>8, <2>9 DEF RoomInv
<1>9. CASE NextSpec
  <2>1. /\ next' = next + 1 /\ left' = specs[next + 1].count /\ pc' = "divide"
        /\ next + 1 \in 1 .. Len(specs) /\ next + 1 - 1 = next
        /\ UNCHANGED <<cache, startWay, globalIdx>>
    BY <1>0, <1>1, <1>9 DEF NextSpec
  <2> QED
    BY <1>1, <1>5, <1>8, <2>1
<1>10. CASE NextCache /\ cache < Len(CacheIDs)
  <2>1. /\ next' = 1 /\ left' = specs[1].count /\ pc' = "divide" /\ cache' = cache + 1
        /\ startWay' = 0 /\ globalIdx' = 0
    BY <1>0, <1>10 DEF NextCache
  <2>2. cache' # 1
    <3>1. cache \in 1 .. Len(CacheIDs)
      BY <1>1, PartitioningAssumption
    <3> QED
      BY <2>1, <3>1
  <2>3. ways[1 - 1] = 0 /\ count[1 - 1] = 0 /\ 1 \in 1 .. Len(specs) /\ 0 <= NumWays
    BY <1>1, <1>3, <1>4, NumWaysAssumption DEF Sums
  <2> QED
    BY <1>8, <2>1, <2>2, <2>3
<1>11. CASE NextCache /\ ~ (cache < Len(CacheIDs))
  <2>1. pc' = "done" /\ UNCHANGED <<cache, next, left, startWay, globalIdx>>
    BY <1>11 DEF NextCache
  <2>2. Len(CacheIDs) = 1 => cache = 1
    <3>1. cache \in 1 .. Len(CacheIDs)
      BY <1>1, PartitioningAssumption
    <3> QED
      BY <3>1
  <2>3. Len(CacheIDs) = 1 => Len(partitions) <= NumCLOSIDs - 1
    BY <1>0, <1>1, <2>2 DEF RoomInv, DivideInv
  <2> QED
    BY <1>0, <1>1, <1>7, <2>1, <2>3 DEF RoomInv, ValidateInv, DivideInv, EndInv
<1> QED
  BY <1>9, <1>10, <1>11

\* Each step leaves room for what is still to be made.
LEMMA RoomStep ==
    ASSUME Inv, RoomInv, [Next]_vars
    PROVE  RoomInv'
<1>1. CASE UNCHANGED vars
  <2>1. WaysAsked' = WaysAsked /\ CountAsked' = CountAsked
    BY <1>1 DEF vars, WaysAsked, CountAsked
  <2>2. ValidateInv'
    BY <1>1, <2>1 DEF vars, validation, RoomInv, ValidateInv, Sums
  <2>3. DivideInv'
    BY <1>1, <2>1 DEF vars, validation, RoomInv, DivideInv, Sums
  <2>4. EndInv' /\ MasksInv'
    BY <1>1 DEF vars, RoomInv, EndInv, MasksInv
  <2> QED
    BY <2>2, <2>3, <2>4 DEF RoomInv
<1> QED
  BY <1>1, RoomValidateSpec, RoomValidateTotals, RoomMakePartition, RoomNextSpec DEF Next

\* In every state there is room for what is still to be made.
LEMMA RoomInvariant == Spec => [](Inv /\ RoomInv)
<1>1. Init => Inv /\ RoomInv
  BY InitInv, InitRoom
<1>2. Inv /\ RoomInv /\ [Next]_vars => (Inv /\ RoomInv)'
  BY NextInv, RoomStep
<1> QED
  BY <1>1, <1>2, PTL DEF Spec

\* The loops stay within the specs, the domains and the ways of a domain.
THEOREM TypeCorrect == Spec => []TypeOK
<1>1. Inv /\ RoomInv => TypeOK
  <2> SUFFICES ASSUME Inv, RoomInv PROVE TypeOK
    OBVIOUS
  <2>1. Len(specs) \in Nat /\ DOMAIN CacheIDs = 1 .. Len(CacheIDs)
    BY PartitioningAssumption DEF Inv, LoopType, SpecSeq
  <2>2. next \in 1 .. Len(specs) + 1 /\ startWay \in 0 .. NumWays
    BY <2>1, NumWaysAssumption DEF Inv, LoopType, RoomInv, EndInv
  <2> QED
    BY <2>1, <2>2 DEF Inv, LoopType, RoomInv, EndInv, MasksInv, MaskOK, TypeOK
<1> QED
  BY <1>1, RoomInvariant, PTL

\* Every mask that PartitionCache makes is a run of at least min_cbm_bits ways of
\* the cache: what the validation adds up (partition.go:74-90) leaves room for
\* what the loops give out.
THEOREM AcceptedByHardwareHolds == Spec => []AcceptedByHardware
<1>1. RoomInv => AcceptedByHardware
  BY DEF RoomInv, MasksInv, MaskOK, AcceptedByHardware
<1> QED
  BY <1>1, RoomInvariant, PTL

\* On a node with one L3 domain the groups of an accepted layout can all be made:
\* the check against num_closids (partition.go:88) is one of the node when it has
\* one domain.
THEOREM GroupsFitOneDomain == Len(CacheIDs) = 1 => (Spec => []GroupsFitCLOSIDs)
<1> SUFFICES ASSUME Len(CacheIDs) = 1 PROVE Spec => []GroupsFitCLOSIDs
  OBVIOUS
<1>1. RoomInv => GroupsFitCLOSIDs
  BY DEF RoomInv, EndInv, GroupsFitCLOSIDs
<1> QED
  BY <1>1, RoomInvariant, PTL

-----------------------------------------------------------------------------
\* --partition-count wastes no way: the partitions of a domain cover what was
\* asked for, and what a count asks for is every way.

Covered(c) == UNION {partitions[p].CBM : p \in Own(c)}

\* A domain that the loops have left is covered, the one they are at up to startWay.
CoverInv ==
    /\ pc = "validate" => cache = 1
    /\ pc = "divide" => /\ \A c \in 1 .. cache - 1 : Covered(c) = 0 .. totalRequested - 1
                        /\ Covered(cache) = 0 .. startWay - 1
    /\ pc = "done" => \A c \in DOMAIN CacheIDs : Covered(c) = 0 .. totalRequested - 1
    /\ (pc \in {"divide", "done"} /\ specs \in Counted) => totalRequested = NumWays
    /\ \A p \in DOMAIN partitions : \E i \in 1 .. Len(specs) : partitions[p].Ways = specs[i].ways

\* What --partition-count becomes, by cases: the larger partitions first.
LEMMA CountedSpecs ==
    ASSUME NEW list \in Counted, list # <<>>
    PROVE  \E count \in Nat \ {0}, base \in Nat, larger \in Nat :
              /\ larger < count
              /\ NumWays = base * count + larger
              /\ \/ list = <<PartitionSpec(base + 1, larger), PartitionSpec(base, count - larger)>>
                 \/ larger = 0 /\ list = <<PartitionSpec(base, count - larger)>>
<1>1. PICK count \in -1 .. MaxCount : list = SpecsFromCount(count, NumWays)
  BY DEF Counted
<1>2. count \in Nat \ {0} /\ NumWays \in Nat
  BY <1>1, PartitioningAssumption, NumWaysAssumption DEF SpecsFromCount
<1>3. PICK base : base = NumWays \div count
  OBVIOUS
<1>4. PICK larger : larger = NumWays % count
  OBVIOUS
<1>5. base \in Nat /\ larger \in Nat /\ larger < count /\ NumWays = base * count + larger
  BY <1>2, <1>3, <1>4
<1>6. list = (IF larger > 0 THEN <<PartitionSpec(base + 1, larger)>> ELSE <<>>)
                  \o <<PartitionSpec(base, count - larger)>>
  BY <1>1, <1>2, <1>3, <1>4 DEF SpecsFromCount
<1>7. ASSUME NEW a \in SpecRecord, NEW b \in SpecRecord
      PROVE  <<a>> \o <<b>> = <<a, b>> /\ <<>> \o <<b>> = <<b>>
  <2>1. /\ <<a>> \in Seq(SpecRecord) /\ <<b>> \in Seq(SpecRecord)
        /\ <<a, b>> \in Seq(SpecRecord) /\ <<>> \in Seq(SpecRecord)
    OBVIOUS
  <2>2. <<>> \o <<b>> = <<b>>
    BY <2>1
  <2>3. <<a>> \o <<b>> = <<a, b>>
    <3>1. <<a>> \o <<b>> \in Seq(SpecRecord) /\ Len(<<a>> \o <<b>>) = 2 /\ Len(<<a, b>>) = 2
      BY <2>1
    <3>2. /\ (<<a>> \o <<b>>)[1] = a /\ (<<a>> \o <<b>>)[2] = b
          /\ <<a, b>>[1] = a /\ <<a, b>>[2] = b
      BY <2>1
    <3>3. \A i \in 1 .. Len(<<a>> \o <<b>>) : (<<a>> \o <<b>>)[i] = <<a, b>>[i]
      BY <3>1, <3>2
    <3> QED
      BY <2>1, <3>1, <3>3, SeqEqual
  <2> QED
    BY <2>2, <2>3
<1>8. PartitionSpec(base + 1, larger) \in SpecRecord
  BY <1>5 DEF PartitionSpec, SpecRecord
<1>9. PartitionSpec(base, count - larger) \in SpecRecord
  <2>1. count - larger \in Nat
    BY <1>2, <1>5
  <2> QED
    BY <1>5, <2>1 DEF PartitionSpec, SpecRecord
<1>10. CASE larger > 0
  BY <1>2, <1>5, <1>6, <1>7, <1>8, <1>9, <1>10
<1>11. CASE larger = 0
  BY <1>2, <1>5, <1>6, <1>7, <1>9, <1>11
<1> QED
  BY <1>5, <1>10, <1>11

\* The ways of all the partitions that a count asks for are those of the domain.
LEMMA CountedSum ==
    ASSUME LoopType, specs \in Counted, specs # <<>>,
           NEW sum, Sums(WaysAsked, sum, Len(specs))
    PROVE  sum[Len(specs)] = NumWays
<1>1. PICK count \in Nat \ {0}, base \in Nat, larger \in Nat :
              /\ larger < count
              /\ NumWays = base * count + larger
              /\ \/ specs = <<PartitionSpec(base + 1, larger), PartitionSpec(base, count - larger)>>
                 \/ larger = 0 /\ specs = <<PartitionSpec(base, count - larger)>>
  BY CountedSpecs
<1>2. count - larger \in Nat
  BY <1>1
<1>3. CASE specs = <<PartitionSpec(base + 1, larger), PartitionSpec(base, count - larger)>>
  <2>1. Len(specs) = 2 /\ 1 \in 1 .. Len(specs) /\ 2 \in 1 .. Len(specs)
    BY <1>3
  <2>2. /\ WaysAsked[1] = (base + 1) * larger
        /\ WaysAsked[2] = base * (count - larger)
    BY <1>3, <2>1 DEF WaysAsked, PartitionSpec
  <2>3. sum[0] = 0 /\ sum[1] = sum[0] + WaysAsked[1] /\ sum[2] = sum[1] + WaysAsked[2]
    BY <2>1 DEF Sums
  <2>4. (base + 1) * larger \in Nat /\ base * (count - larger) \in Nat
    BY <1>2
  <2>5. (base + 1) * larger + base * (count - larger) = base * count + larger
    <3>1. PICK rest \in Nat : count = larger + rest
      BY <1>2
    <3>2. (base + 1) * larger + base * rest = base * (larger + rest) + larger
      OBVIOUS
    <3> QED
      BY <3>1, <3>2
  <2> QED
    BY <1>1, <2>1, <2>2, <2>3, <2>4, <2>5
<1>4. CASE larger = 0 /\ specs = <<PartitionSpec(base, count - larger)>>
  <2>1. Len(specs) = 1 /\ 1 \in 1 .. Len(specs)
    BY <1>4
  <2>2. WaysAsked[1] = base * count
    BY <1>4, <2>1 DEF WaysAsked, PartitionSpec
  <2>3. sum[0] = 0 /\ sum[1] = sum[0] + WaysAsked[1]
    BY <2>1 DEF Sums
  <2>4. base * count \in Nat
    OBVIOUS
  <2> QED
    BY <1>1, <1>4, <2>1, <2>2, <2>3, <2>4
<1> QED
  BY <1>1, <1>3, <1>4

\* The partitions of a count differ by one way at most.
LEMMA CountedWidths ==
    ASSUME LoopType, specs \in Counted, NEW i \in 1 .. Len(specs), NEW j \in 1 .. Len(specs)
    PROVE  specs[i].ways - specs[j].ways \in -1 .. 1
<1>1. specs # <<>>
  OBVIOUS
<1>2. PICK count \in Nat \ {0}, base \in Nat, larger \in Nat :
              /\ larger < count
              /\ NumWays = base * count + larger
              /\ \/ specs = <<PartitionSpec(base + 1, larger), PartitionSpec(base, count - larger)>>
                 \/ larger = 0 /\ specs = <<PartitionSpec(base, count - larger)>>
  BY <1>1, CountedSpecs
<1>3. \A k \in 1 .. Len(specs) : specs[k].ways \in {base, base + 1}
  BY <1>2 DEF PartitionSpec
<1>4. specs[i].ways \in {base, base + 1} /\ specs[j].ways \in {base, base + 1}
  BY <1>3
<1>5. \A a, b \in {base, base + 1} : a - b \in -1 .. 1
  OBVIOUS
<1> QED
  BY <1>4, <1>5

\* A partition covers its ways, in its domain.
LEMMA CoverMakePartition ==
    ASSUME Inv, RoomInv, CoverInv, MakePartition
    PROVE  CoverInv'
<1> DEFINE ways == specs[next].ways
           new == Partition(CacheIDs[cache], globalIdx, specs[next], startWay)
<1>0. /\ pc = "divide" /\ partitions' = Append(partitions, new)
      /\ startWay' = startWay + ways
      /\ UNCHANGED <<pc, specs, next, validation, cache>>
  BY DEF MakePartition
<1>1. /\ startWay \in Nat /\ partitions \in Seq(Made) /\ cache \in DOMAIN CacheIDs
      /\ next \in 1 .. Len(specs) /\ ways \in Nat
  BY <1>0, RoomLeft DEF LoopType
<1>2. /\ new.CacheID = CacheIDs[cache] /\ new.Ways = ways
      /\ new.CBM = startWay .. startWay + ways - 1
  BY DEF Partition, buildCBM
<1> HIDE DEF ways, new
<1>3. /\ DOMAIN partitions' = DOMAIN partitions \cup {Len(partitions) + 1}
      /\ Len(partitions) + 1 \notin DOMAIN partitions
      /\ \A p \in DOMAIN partitions : partitions'[p] = partitions[p]
      /\ partitions'[Len(partitions) + 1] = new
  BY <1>0, <1>1
<1>4. ASSUME NEW c \in DOMAIN CacheIDs
      PROVE  Covered(c)' = IF c = cache THEN Covered(c) \cup new.CBM ELSE Covered(c)
  <2>1. c # cache => CacheIDs[c] # CacheIDs[cache]
    BY <1>1, PartitioningAssumption
  <2>2. Own(c)' = IF c = cache THEN Own(c) \cup {Len(partitions) + 1} ELSE Own(c)
    BY <1>2, <1>3, <2>1 DEF Own
  <2>3. \A p \in Own(c) : partitions'[p].CBM = partitions[p].CBM
    BY <1>3 DEF Own
  <2> QED
    BY <1>3, <2>2, <2>3 DEF Covered
<1>5. /\ cache \in 1 .. Len(CacheIDs)
      /\ \A c \in 1 .. cache - 1 : c \in DOMAIN CacheIDs /\ c # cache
  BY <1>1, PartitioningAssumption
<1>6. Covered(cache) = 0 .. startWay - 1
  BY <1>0 DEF CoverInv
<1>7. 0 .. startWay' - 1 = (0 .. startWay - 1) \cup (startWay .. startWay + ways - 1)
  BY <1>0, <1>1
<1>8. Covered(cache)' = 0 .. startWay' - 1
  <2>1. Covered(cache)' = Covered(cache) \cup new.CBM
    <3>1. PICK c \in DOMAIN CacheIDs : c = cache
      BY <1>1
    <3> QED
      BY <1>0, <1>4, <3>1 DEF Covered, Own
  <2> QED
    BY <1>2, <1>6, <1>7, <2>1
<1>9. \A c \in 1 .. cache - 1 : Covered(c)' = Covered(c)
  BY <1>4, <1>5
<1>10. \A p \in DOMAIN partitions' : \E i \in 1 .. Len(specs) : partitions'[p].Ways = specs[i].ways
  <2> SUFFICES ASSUME NEW p \in DOMAIN partitions'
               PROVE  \E i \in 1 .. Len(specs) : partitions'[p].Ways = specs[i].ways
    OBVIOUS
  <2>1. CASE p \in DOMAIN partitions
    BY <1>3, <2>1 DEF CoverInv
  <2>2. CASE p = Len(partitions) + 1
    BY <1>1, <1>2, <1>3, <2>2 DEF ways
  <2> QED
    BY <1>3, <2>1, <2>2
<1>11. \A c \in 1 .. cache - 1 : Covered(c)' = 0 .. totalRequested - 1
  BY <1>0, <1>9 DEF CoverInv
<1>12. specs \in Counted => totalRequested = NumWays
  BY <1>0 DEF CoverInv
<1> QED
  BY <1>0, <1>8, <1>10, <1>11, <1>12 DEF CoverInv, validation

\* The loops leave a domain when they have made everything that was asked for, and
\* nothing has been made of the next one.
LEMMA CoverNextCache ==
    ASSUME Inv, RoomInv, CoverInv, NextCache
    PROVE  CoverInv'
<1>0. /\ pc = "divide" /\ left = 0 /\ next = Len(specs)
      /\ UNCHANGED <<specs, validation, partitions>>
  BY DEF NextCache
<1>1. /\ startWay \in Nat /\ cache \in 1 .. Len(CacheIDs) /\ DOMAIN CacheIDs = 1 .. Len(CacheIDs)
      /\ Len(CacheIDs) \in Nat /\ specs[next].ways \in Nat
  BY <1>0, RoomLeft, PartitioningAssumption DEF LoopType
<1>2. startWay = totalRequested
  <2>1. PICK sum : /\ Sums(WaysAsked, sum, Len(specs)) /\ sum[Len(specs)] = totalRequested
                   /\ startWay + specs[next].ways * left = sum[next]
    BY <1>0 DEF RoomInv, DivideInv
  <2>2. specs[next].ways * left = 0
    BY <1>0, <1>1
  <2> QED
    BY <1>0, <1>1, <2>1, <2>2
<1>3. \A c \in 1 .. cache : Covered(c) = 0 .. totalRequested - 1
  BY <1>0, <1>1, <1>2 DEF CoverInv
<1>4. \A c : Covered(c)' = Covered(c)
  BY <1>0 DEF Covered, Own
<1>5. /\ specs \in Counted => totalRequested = NumWays
      /\ \A p \in DOMAIN partitions : \E i \in 1 .. Len(specs) : partitions[p].Ways = specs[i].ways
  BY <1>0 DEF CoverInv
<1>6. CASE cache < Len(CacheIDs)
  <2>1. pc' = "divide" /\ cache' = cache + 1 /\ startWay' = 0
    BY <1>0, <1>6 DEF NextCache
  <2>2. Covered(cache + 1) = {}
    <3>1. /\ cache + 1 \in DOMAIN CacheIDs
          /\ \A c \in 1 .. cache : c \in DOMAIN CacheIDs /\ c # cache + 1
      BY <1>1, <1>6
    <3>2. \A c \in 1 .. cache : CacheIDs[c] # CacheIDs[cache + 1]
      BY <3>1, PartitioningAssumption
    <3>3. \A p \in DOMAIN partitions : partitions[p].CacheID # CacheIDs[cache + 1]
      BY <3>2 DEF Inv, FromCaches
    <3> QED
      BY <3>3 DEF Covered, Own
  <2>3. 0 .. 0 - 1 = {} /\ cache' - 1 = cache
    BY <1>1, <2>1
  <2>4. Covered(cache)' = 0 .. startWay' - 1
    BY <1>0, <2>1, <2>2, <2>3 DEF Covered, Own
  <2>5. \A c \in 1 .. cache' - 1 : Covered(c)' = 0 .. totalRequested - 1
    BY <1>3, <1>4, <2>3
  <2> QED
    BY <1>0, <1>5, <2>1, <2>4, <2>5 DEF CoverInv, validation
<1>7. CASE ~ (cache < Len(CacheIDs))
  <2>1. pc' = "done" /\ cache = Len(CacheIDs)
    <3>1. pc' = "done"
      BY <1>7, Zenon DEF NextCache
    <3>2. cache = Len(CacheIDs)
      <4>1. \A n \in Nat : \A k \in 1 .. n : ~ (k < n) => k = n
        OBVIOUS
      <4> QED
        BY <1>1, <1>7, <4>1, Zenon
    <3> QED
      BY <3>1, <3>2
  <2>2. \A c \in DOMAIN CacheIDs : Covered(c)' = 0 .. totalRequested - 1
    BY <1>1, <1>3, <1>4, <2>1
  <2> QED
    BY <1>0, <1>5, <2>1, <2>2 DEF CoverInv, validation
<1> QED
  BY <1>6, <1>7

\* Each step covers what startWay passes.
LEMMA CoverStep ==
    ASSUME Inv, RoomInv, CoverInv, [Next]_vars
    PROVE  CoverInv'
<1> USE DEF validation
<1>1. CASE ValidateSpec
  <2>1. /\ pc = "validate" /\ pc' \in {"validate", "error"} /\ partitions = <<>>
        /\ UNCHANGED <<cache, partitions>>
    BY <1>1 DEF ValidateSpec, Inv, LoopType
  <2> QED
    BY <2>1 DEF CoverInv
<1>2. CASE ValidateTotals
  <2>1. /\ pc = "validate" /\ partitions = <<>> /\ cache = 1 /\ startWay = 0
        /\ pc' \in {"divide", "error"} /\ next - 1 = Len(specs) /\ specs # <<>>
        /\ UNCHANGED <<specs, validation, cache, startWay, partitions>>
    BY <1>2 DEF ValidateTotals, Inv, RoomInv, ValidateInv, LoopType, SpecSeq, CoverInv
  <2>2. specs \in Counted => totalRequested = NumWays
    BY <2>1, CountedSum DEF Inv, RoomInv, ValidateInv
  <2>3. Covered(cache)' = 0 .. startWay' - 1
    BY <2>1 DEF Covered, Own
  <2> QED
    BY <2>1, <2>2, <2>3 DEF CoverInv
<1>3. CASE NextSpec \/ UNCHANGED vars
  <2>1. UNCHANGED <<pc, specs, validation, cache, startWay, partitions>>
    BY <1>3 DEF NextSpec, vars
  <2>2. (\A c : Covered(c)' = Covered(c)) /\ Covered(cache)' = Covered(cache)
    BY <2>1 DEF Covered, Own
  <2> QED
    BY <2>1, <2>2 DEF CoverInv
<1> QED
  BY <1>1, <1>2, <1>3, CoverMakePartition, CoverNextCache DEF Next

\* With --partition-count every way of each domain is in a partition, and the
\* partitions differ by one way at most: runbook.md:262, "No wasted ways".
THEOREM NothingWastedHolds == Spec => []NothingWasted
<1>1. Init => CoverInv
  BY DEF Init, CoverInv
<1>2. Inv /\ RoomInv /\ CoverInv /\ [Next]_vars => CoverInv'
  BY CoverStep
<1>3. Inv /\ RoomInv /\ CoverInv => NothingWasted
  <2> SUFFICES ASSUME Inv, RoomInv, CoverInv, pc = "done", specs \in Counted,
                      NEW c \in DOMAIN CacheIDs
               PROVE  /\ Covered(c) = Ways
                      /\ \A p, q \in Own(c) : partitions[p].Ways - partitions[q].Ways \in -1 .. 1
    BY DEF NothingWasted, Covered, Own
  <2>1. Covered(c) = Ways
    BY DEF CoverInv, Ways
  <2>2. ASSUME NEW p \in Own(c), NEW q \in Own(c)
        PROVE  partitions[p].Ways - partitions[q].Ways \in -1 .. 1
    <3>1. PICK i, j \in 1 .. Len(specs) :
              partitions[p].Ways = specs[i].ways /\ partitions[q].Ways = specs[j].ways
      BY DEF CoverInv, Own
    <3> QED
      BY <3>1, CountedWidths DEF Inv
  <2> QED
    BY <2>1, <2>2
<1> QED
  BY <1>1, <1>2, <1>3, RoomInvariant, PTL DEF Spec

-----------------------------------------------------------------------------
\* The layout: what the loops add up, number and cut are the slots of the specs,
\* in order.

\* The slots before the spec i, and the first n of it.
Passed(list, i, n) == {t \in Slots(list) : t[1] < i \/ (t[1] = i /\ t[2] <= n)}

LayoutOf(list, slots) == {<<IndexOf(list, s), MaskOf(list, s)>> : s \in slots}

\* What has been made for the domain at position c of CacheIDs.
MadeOf(c) == {<<partitions[p].Index, partitions[p].CBM>> : p \in Own(c)}

\* The totals count the slots of the specs that the validation has passed.
TotalsInv ==
    pc = "validate" =>
        /\ totalCount = Cardinality(Passed(specs, next, 0))
        /\ totalRequested = Cardinality(WaysOf(specs, Passed(specs, next, 0)))
        /\ cache = 1

\* The loops have made the slots that they have passed, each as it was to be.
LaidOut ==
    pc = "divide" =>
        /\ left \in 0 .. specs[next].count
        /\ LET passed == Passed(specs, next, specs[next].count - left) IN
           /\ globalIdx = Cardinality(passed)
           /\ startWay = Cardinality(WaysOf(specs, passed))
           /\ MadeOf(cache) = LayoutOf(specs, passed)
        /\ \A c \in 1 .. cache - 1 : MadeOf(c) = Layout(specs)
        /\ \A p \in Own(cache) : partitions[p].Index < globalIdx

InOrder ==
    \A c \in DOMAIN CacheIDs : \A p, q \in Own(c) :
        p < q => partitions[p].Index < partitions[q].Index

Answered ==
    /\ pc \in {"divide", "done"} => Accepted(specs, MinCBMBits, NumCLOSIDs)
    /\ pc = "error" => ~ Accepted(specs, MinCBMBits, NumCLOSIDs)
    /\ pc = "done" => \A c \in DOMAIN CacheIDs : MadeOf(c) = Layout(specs)

SpecifiedInv == TotalsInv /\ LaidOut /\ InOrder /\ Answered

\* A slot is the number of a spec and a number within its count.
LEMMA SlotsAre ==
    ASSUME NEW list \in SpecSeq
    PROVE  /\ \A t \in Slots(list) :
                 /\ t[1] \in 1 .. Len(list) /\ t[2] \in 1 .. list[t[1]].count
                 /\ t = <<t[1], t[2]>> /\ t[1] \in Nat /\ t[2] \in Nat
           /\ \A i \in 1 .. Len(list) : list[i].count \in Nat /\ list[i].ways \in Nat
           /\ \A i \in 1 .. Len(list) : \A j \in 1 .. list[i].count : <<i, j>> \in Slots(list)
<1>1. DOMAIN list = 1 .. Len(list) /\ Len(list) \in Nat
  BY DEF SpecSeq
<1>2. \A i \in 1 .. Len(list) : list[i].count \in Nat /\ list[i].ways \in Nat
  BY SpecAt
<1>3. ASSUME NEW t \in Slots(list)
      PROVE  /\ t[1] \in 1 .. Len(list) /\ t[2] \in 1 .. list[t[1]].count
             /\ t = <<t[1], t[2]>> /\ t[1] \in Nat /\ t[2] \in Nat
  <2>1. PICK i \in 1 .. Len(list) : t \in {i} \X (1 .. list[i].count)
    BY <1>1 DEF Slots
  <2>2. PICK j \in 1 .. list[i].count : t = <<i, j>>
    BY <2>1
  <2> QED
    BY <1>1, <1>2, <2>1, <2>2
<1>4. ASSUME NEW i \in 1 .. Len(list), NEW j \in 1 .. list[i].count
      PROVE  <<i, j>> \in Slots(list)
  <2>1. <<i, j>> \in {i} \X (1 .. list[i].count)
    OBVIOUS
  <2> QED
    BY <1>1, <2>1 DEF Slots
<1> QED
  BY <1>2, <1>3, <1>4

\* There are finitely many.
LEMMA SlotsFinite ==
    ASSUME NEW list \in SpecSeq
    PROVE  IsFiniteSet(Slots(list))
<1> DEFINE S == 1 .. Len(list)
           T == {{i} \X (1 .. list[i].count) : i \in DOMAIN list}
           f == [i \in S |-> {i} \X (1 .. list[i].count)]
<1>1. DOMAIN list = S /\ Len(list) \in Nat
  BY DEF SpecSeq
<1>2. \A n \in Nat : IsFiniteSet(1 .. n)
  BY FS_Interval
<1>3. ASSUME NEW i \in S
      PROVE  IsFiniteSet({i} \X (1 .. list[i].count))
  <2>1. IsFiniteSet({i}) /\ IsFiniteSet(1 .. list[i].count)
    BY <1>2, SpecAt, FS_Singleton
  <2> QED
    BY <2>1, FS_Product
<1>4. f \in Surjection(S, T)
  BY <1>1 DEF Surjection
<1>5. IsFiniteSet(S)
  BY <1>1, <1>2
<1>6. \A X \in T : IsFiniteSet(X)
  BY <1>1, <1>3
<1> HIDE DEF S, T, f
<1>7. IsFiniteSet(T)
  BY <1>4, <1>5, FS_Surjection
<1>8. IsFiniteSet(UNION T)
  BY <1>6, <1>7, FS_UNION
<1> QED
  BY <1>8 DEF T, Slots

\* What the loops have passed is finite.
LEMMA PassedFinite ==
    ASSUME NEW list \in SpecSeq, NEW i, NEW n
    PROVE  IsFiniteSet(Passed(list, i, n)) /\ Passed(list, i, n) \subseteq Slots(list)
<1>1. Passed(list, i, n) \in SUBSET Slots(list)
  BY DEF Passed
<1> QED
  BY <1>1, SlotsFinite, FS_Subset

\* One more slot of a spec: it comes after those passed, and these are the earlier.
LEMMA PassedNext ==
    ASSUME NEW list \in SpecSeq, NEW i \in 1 .. Len(list), NEW n \in Nat, n < list[i].count
    PROVE  /\ Passed(list, i, n + 1) = Passed(list, i, n) \cup {<<i, n + 1>>}
           /\ <<i, n + 1>> \notin Passed(list, i, n)
           /\ Earlier(list, <<i, n + 1>>) = Passed(list, i, n)
<1>1. n + 1 \in 1 .. list[i].count /\ i \in Nat
  BY SlotsAre DEF SpecSeq
<1>2. <<i, n + 1>> \in Slots(list)
  BY <1>1, SlotsAre
<1>3. ASSUME NEW t \in Slots(list)
      PROVE  /\ t \in Passed(list, i, n + 1) <=> t \in Passed(list, i, n) \/ t = <<i, n + 1>>
             /\ t \in Earlier(list, <<i, n + 1>>) <=> t \in Passed(list, i, n)
  <2>1. t[1] \in Nat /\ t[2] \in Nat /\ t = <<t[1], t[2]>>
    BY SlotsAre
  <2>2. t = <<i, n + 1>> <=> t[1] = i /\ t[2] = n + 1
    BY <2>1
  <2>3. t \in Earlier(list, <<i, n + 1>>) <=> t[1] < i \/ (t[1] = i /\ t[2] < n + 1)
    BY DEF Earlier
  <2> QED
    BY <1>1, <2>1, <2>2, <2>3 DEF Passed
<1>4. <<i, n + 1>> \notin Passed(list, i, n)
  BY <1>1 DEF Passed
<1>5. /\ Passed(list, i, n + 1) \subseteq Slots(list) /\ Passed(list, i, n) \subseteq Slots(list)
      /\ Earlier(list, <<i, n + 1>>) \subseteq Slots(list)
  BY DEF Passed, Earlier
<1> QED
  BY <1>2, <1>3, <1>4, <1>5

\* All slots of a spec, at once, and the spec after it.
LEMMA PassedSpec ==
    ASSUME NEW list \in SpecSeq, NEW i \in 1 .. Len(list)
    PROVE  /\ Passed(list, i + 1, 0) = Passed(list, i, 0) \cup ({i} \X (1 .. list[i].count))
           /\ Passed(list, i, 0) \cap ({i} \X (1 .. list[i].count)) = {}
           /\ Passed(list, i + 1, 0) = Passed(list, i, list[i].count)
<1>1. i \in Nat /\ list[i].count \in Nat
  BY SlotsAre DEF SpecSeq
<1>2. {i} \X (1 .. list[i].count) \subseteq Slots(list)
  BY SlotsAre
<1>3. ASSUME NEW t \in Slots(list)
      PROVE  /\ t \in Passed(list, i, 0) <=> t[1] < i
             /\ t \in Passed(list, i + 1, 0) <=> t[1] < i \/ t[1] = i
             /\ t \in Passed(list, i, list[i].count) <=> t[1] < i \/ t[1] = i
             /\ t \in {i} \X (1 .. list[i].count) <=> t[1] = i
  <2>1. /\ t[1] \in Nat /\ t[2] \in Nat /\ t = <<t[1], t[2]>>
        /\ t[2] \in 1 .. list[t[1]].count
    BY SlotsAre
  <2> QED
    BY <1>1, <2>1 DEF Passed
<1>4. /\ Passed(list, i, 0) \subseteq Slots(list) /\ Passed(list, i + 1, 0) \subseteq Slots(list)
      /\ Passed(list, i, list[i].count) \subseteq Slots(list)
  BY DEF Passed
<1>5. \A t \in {i} \X (1 .. list[i].count) : ~ (t[1] < i)
  BY <1>1
<1> QED
  BY <1>2, <1>3, <1>4, <1>5

\* None at first, all in the end.
LEMMA PassedEnds ==
    ASSUME NEW list \in SpecSeq
    PROVE  Passed(list, 1, 0) = {} /\ Passed(list, Len(list) + 1, 0) = Slots(list)
<1>1. Len(list) \in Nat
  BY DEF SpecSeq
<1>2. \A t \in Slots(list) : t[1] \in 1 .. Len(list) /\ t[2] \in Nat /\ t[2] >= 1
  BY SlotsAre
<1> QED
  BY <1>1, <1>2 DEF Passed

\* The ways of finitely many slots are finitely many, and add up.
LEMMA WaysFinite ==
    ASSUME NEW list \in SpecSeq, NEW slots \in SUBSET Slots(list)
    PROVE  IsFiniteSet(WaysOf(list, slots))
<1> DEFINE T == {{s} \X (1 .. list[s[1]].ways) : s \in slots}
           f == [s \in slots |-> {s} \X (1 .. list[s[1]].ways)]
<1>1. IsFiniteSet(slots)
  BY SlotsFinite, FS_Subset
<1>2. \A n \in Nat : IsFiniteSet(1 .. n)
  BY FS_Interval
<1>3. ASSUME NEW s \in slots
      PROVE  IsFiniteSet({s} \X (1 .. list[s[1]].ways))
  <2>1. list[s[1]].ways \in Nat
    BY SlotsAre
  <2>2. IsFiniteSet({s}) /\ IsFiniteSet(1 .. list[s[1]].ways)
    BY <1>2, <2>1, FS_Singleton
  <2> QED
    BY <2>2, FS_Product
<1>4. f \in Surjection(slots, T)
  BY DEF Surjection
<1>5. \A X \in T : IsFiniteSet(X)
  BY <1>3
<1> HIDE DEF T, f
<1>6. IsFiniteSet(T)
  BY <1>1, <1>4, FS_Surjection
<1>7. IsFiniteSet(UNION T)
  BY <1>5, <1>6, FS_UNION
<1> QED
  BY <1>7 DEF T, WaysOf

LEMMA DisjointUnion ==
    ASSUME NEW S, NEW T, IsFiniteSet(S), IsFiniteSet(T), S \cap T = {}
    PROVE  Cardinality(S \cup T) = Cardinality(S) + Cardinality(T)
<1>1. Cardinality(S) \in Nat /\ Cardinality(T) \in Nat /\ Cardinality(S \cap T) = 0
  BY FS_CardinalityType, FS_EmptySet
<1>2. Cardinality(S \cup T) = Cardinality(S) + Cardinality(T) - Cardinality(S \cap T)
  BY FS_Union
<1> QED
  BY <1>1, <1>2

LEMMA WaysAdd ==
    ASSUME NEW list \in SpecSeq, NEW S \in SUBSET Slots(list), NEW T \in SUBSET Slots(list),
           S \cap T = {}
    PROVE  Cardinality(WaysOf(list, S \cup T)) =
              Cardinality(WaysOf(list, S)) + Cardinality(WaysOf(list, T))
<1>1. WaysOf(list, S \cup T) = WaysOf(list, S) \cup WaysOf(list, T)
  BY DEF WaysOf
<1>2. WaysOf(list, S) \cap WaysOf(list, T) = {}
  <2>1. \A X \in SUBSET Slots(list) : \A u \in WaysOf(list, X) : u[1] \in X
    BY DEF WaysOf
  <2> QED
    BY <2>1
<1>3. IsFiniteSet(WaysOf(list, S)) /\ IsFiniteSet(WaysOf(list, T))
  BY WaysFinite
<1> QED
  BY <1>1, <1>2, <1>3, DisjointUnion

\* A slot has the ways of its spec; the slots of a spec, all of them.
LEMMA WaysOfSlot ==
    ASSUME NEW list \in SpecSeq, NEW s \in Slots(list)
    PROVE  Cardinality(WaysOf(list, {s})) = list[s[1]].ways
<1>1. WaysOf(list, {s}) = {s} \X (1 .. list[s[1]].ways)
  BY DEF WaysOf
<1>2. list[s[1]].ways \in Nat
  BY SlotsAre
<1>3. \A n \in Nat : IsFiniteSet(1 .. n) /\ Cardinality(1 .. n) = n
  BY FS_Interval
<1>4. IsFiniteSet({s}) /\ Cardinality({s}) = 1
  BY FS_Singleton
<1>5. Cardinality({s} \X (1 .. list[s[1]].ways)) = 1 * list[s[1]].ways
  <2> DEFINE ways == 1 .. list[s[1]].ways
  <2>1. IsFiniteSet(ways) /\ Cardinality(ways) = list[s[1]].ways
    BY <1>2, <1>3
  <2> HIDE DEF ways
  <2>2. Cardinality({s} \X ways) = Cardinality({s}) * Cardinality(ways)
    BY <1>4, <2>1, FS_Product
  <2> QED
    BY <1>4, <2>1, <2>2 DEF ways
<1>6. \A n \in Nat : 1 * n = n
  OBVIOUS
<1> QED
  BY <1>1, <1>2, <1>5, <1>6

LEMMA WaysOfSpec ==
    ASSUME NEW list \in SpecSeq, NEW i \in 1 .. Len(list)
    PROVE  /\ Cardinality({i} \X (1 .. list[i].count)) = list[i].count
           /\ Cardinality(WaysOf(list, {i} \X (1 .. list[i].count))) = list[i].ways * list[i].count
<1> DEFINE slots == {i} \X (1 .. list[i].count)
<1>1. list[i].ways \in Nat /\ list[i].count \in Nat
  BY SlotsAre
<1>2. \A n \in Nat : IsFiniteSet(1 .. n) /\ Cardinality(1 .. n) = n
  BY FS_Interval
<1>3. IsFiniteSet({i}) /\ Cardinality({i}) = 1
  BY FS_Singleton
<1>4. /\ IsFiniteSet(1 .. list[i].count) /\ Cardinality(1 .. list[i].count) = list[i].count
      /\ IsFiniteSet(1 .. list[i].ways) /\ Cardinality(1 .. list[i].ways) = list[i].ways
  BY <1>1, <1>2
<1>5. IsFiniteSet(slots) /\ Cardinality(slots) = 1 * list[i].count
  <2> DEFINE numbers == 1 .. list[i].count
  <2>1. IsFiniteSet(numbers) /\ Cardinality(numbers) = list[i].count
    BY <1>4
  <2> HIDE DEF numbers
  <2>2. /\ IsFiniteSet({i} \X numbers)
        /\ Cardinality({i} \X numbers) = Cardinality({i}) * Cardinality(numbers)
    BY <1>3, <2>1, FS_Product
  <2> QED
    BY <1>3, <2>1, <2>2 DEF numbers
<1>6. WaysOf(list, slots) = slots \X (1 .. list[i].ways)
  BY DEF WaysOf
<1>7. Cardinality(WaysOf(list, slots)) = Cardinality(slots) * list[i].ways
  <2> HIDE DEF slots
  <2> QED
    BY <1>4, <1>5, <1>6, FS_Product
<1>8. \A a, b \in Nat : 1 * a = a /\ a * b = b * a
  OBVIOUS
<1> QED
  BY <1>1, <1>5, <1>7, <1>8

\* No slot has been passed at first, and no specs are accepted that are not there.
LEMMA SpecifiedInit == Init => SpecifiedInv
<1> SUFFICES ASSUME Init PROVE SpecifiedInv
  OBVIOUS
<1>1. specs \in SpecSeq /\ partitions = <<>> /\ pc \in {"validate", "error"} /\ next = 1
  BY InitInv DEF Init, Inv, LoopType
<1>2. Cardinality(Passed(specs, 1, 0)) = 0 /\ Cardinality(WaysOf(specs, Passed(specs, 1, 0))) = 0
  <2>1. WaysOf(specs, {}) = {}
    BY DEF WaysOf
  <2> QED
    BY <1>1, <2>1, PassedEnds, FS_EmptySet
<1>3. TotalsInv
  BY <1>1, <1>2 DEF Init, TotalsInv
<1>4. LaidOut /\ InOrder
  BY <1>1 DEF LaidOut, InOrder, Own
<1>5. Answered
  BY <1>1 DEF Init, Answered, Accepted
<1> QED
  BY <1>3, <1>4, <1>5 DEF SpecifiedInv

\* A spec whose slots are counted is passed; one out of bounds is not accepted.
LEMMA SpecifiedValidateSpec ==
    ASSUME Inv, SpecifiedInv, ValidateSpec
    PROVE  SpecifiedInv'
<1>1. /\ pc = "validate" /\ specs \in SpecSeq /\ next \in 1 .. Len(specs)
      /\ UNCHANGED <<specs, cache, partitions>> /\ pc' \in {"validate", "error"}
  BY DEF ValidateSpec, Inv, LoopType, SpecSeq
<1>2. InOrder'
  BY <1>1 DEF SpecifiedInv, InOrder, Own
<1>3. LaidOut'
  BY <1>1 DEF LaidOut
<1>4. CASE specs[next].ways \notin MinCBMBits .. NumWays
  <2>1. pc' = "error"
    BY <1>4 DEF ValidateSpec
  <2>2. next \in DOMAIN specs
    BY <1>1 DEF SpecSeq
  <2>3. ~ Accepted(specs, MinCBMBits, NumCLOSIDs)
    BY <1>4, <2>2 DEF Accepted
  <2> QED
    BY <1>1, <1>2, <1>3, <2>1, <2>3 DEF SpecifiedInv, TotalsInv, Answered
<1>5. CASE specs[next].ways \in MinCBMBits .. NumWays
  <2> DEFINE old == Passed(specs, next, 0)
             spec == {next} \X (1 .. specs[next].count)
  <2>1. /\ totalRequested' = totalRequested + specs[next].ways * specs[next].count
        /\ totalCount' = totalCount + specs[next].count
        /\ next' = next + 1 /\ pc' = "validate"
    BY <1>1, <1>5 DEF ValidateSpec
  <2>2. /\ Passed(specs, next + 1, 0) = old \cup spec /\ old \cap spec = {}
        /\ old \subseteq Slots(specs) /\ IsFiniteSet(old)
    BY <1>1, PassedSpec, PassedFinite
  <2>3. spec \subseteq Slots(specs)
    BY <1>1, SlotsAre
  <2>4. /\ Cardinality(spec) = specs[next].count
        /\ Cardinality(WaysOf(specs, spec)) = specs[next].ways * specs[next].count
    BY <1>1, WaysOfSpec
  <2>5. totalCount = Cardinality(old) /\ totalRequested = Cardinality(WaysOf(specs, old))
    BY <1>1 DEF SpecifiedInv, TotalsInv
  <2> HIDE DEF old, spec
  <2>6. Cardinality(old \cup spec) = Cardinality(old) + Cardinality(spec)
    <3>1. IsFiniteSet(spec)
      BY <1>1, <2>3, SlotsFinite, FS_Subset
    <3> QED
      BY <2>2, <3>1, DisjointUnion
  <2>7. Cardinality(WaysOf(specs, old \cup spec)) =
            Cardinality(WaysOf(specs, old)) + Cardinality(WaysOf(specs, spec))
    BY <1>1, <2>2, <2>3, WaysAdd
  <2>8. TotalsInv'
    BY <1>1, <2>1, <2>2, <2>4, <2>5, <2>6, <2>7 DEF SpecifiedInv, TotalsInv
  <2> QED
    BY <1>2, <1>3, <2>1, <2>8 DEF SpecifiedInv, Answered
<1> QED
  BY <1>4, <1>5

\* All slots have been counted: the totals decide, and the division begins with
\* none of them passed.
LEMMA SpecifiedValidateTotals ==
    ASSUME Inv, RoomInv, SpecifiedInv, ValidateTotals
    PROVE  SpecifiedInv'
<1>1. /\ pc = "validate" /\ specs \in SpecSeq /\ Len(specs) \in Nat \ {0}
      /\ next - 1 = Len(specs) /\ next = Len(specs) + 1 /\ cache = 1 /\ partitions = <<>>
      /\ startWay = 0 /\ globalIdx = 0
      /\ UNCHANGED <<specs, cache, startWay, globalIdx, partitions>>
  BY DEF ValidateTotals, Inv, RoomInv, ValidateInv, LoopType, SpecSeq, SpecifiedInv, TotalsInv
<1>2. totalCount = TotalCount(specs) /\ totalRequested = TotalWays(specs)
  BY <1>1, PassedEnds DEF SpecifiedInv, TotalsInv, TotalCount, TotalWays
<1>3. TotalCount(specs) \in Nat /\ TotalWays(specs) \in Nat
  <2>1. IsFiniteSet(Slots(specs)) /\ IsFiniteSet(WaysOf(specs, Slots(specs)))
    BY <1>1, SlotsFinite, WaysFinite
  <2> QED
    BY <2>1, FS_CardinalityType DEF TotalCount, TotalWays
<1>4. \A c : Own(c)' = {} /\ Own(c) = {}
  BY <1>1 DEF Own
<1>5. InOrder'
  BY <1>4 DEF InOrder
<1>6. TotalsInv' /\ pc' \in {"divide", "error"}
  BY DEF ValidateTotals, TotalsInv
<1>7. CASE totalRequested > NumWays \/ totalCount > NumCLOSIDs - 1
  <2>1. pc' = "error"
    BY <1>7, Zenon DEF ValidateTotals
  <2>2. ~ Accepted(specs, MinCBMBits, NumCLOSIDs)
    BY <1>2, <1>3, <1>7, NumWaysAssumption, PartitioningAssumption DEF Accepted
  <2> QED
    BY <1>1, <1>5, <1>6, <2>1, <2>2 DEF SpecifiedInv, LaidOut, Answered
<1>8. CASE ~ (totalRequested > NumWays \/ totalCount > NumCLOSIDs - 1)
  <2>1. pc' = "divide" /\ next' = 1 /\ left' = specs[1].count
    BY <1>8, Zenon DEF ValidateTotals
  <2>2. Accepted(specs, MinCBMBits, NumCLOSIDs)
    <3>1. \A i \in DOMAIN specs : specs[i].ways \in MinCBMBits .. NumWays
      BY <1>1 DEF RoomInv, ValidateInv, SpecSeq
    <3>2. TotalWays(specs) <= NumWays /\ TotalCount(specs) <= NumCLOSIDs - 1
      BY <1>2, <1>3, <1>8, NumWaysAssumption, PartitioningAssumption
    <3>3. specs # <<>>
      BY <1>1
    <3> QED
      BY <3>1, <3>2, <3>3 DEF Accepted
  <2>3. specs[1].count \in Nat
    BY <1>1, SlotsAre
  <2>4. Passed(specs, 1, specs[1].count - specs[1].count) = {}
    BY <1>1, <2>3, PassedEnds
  <2>5. Cardinality({}) = 0 /\ WaysOf(specs, {}) = {} /\ LayoutOf(specs, {}) = {}
    BY FS_EmptySet DEF WaysOf, LayoutOf
  <2>6. MadeOf(cache)' = {}
    BY <1>1 DEF MadeOf, Own
  <2>7. Passed(specs, next, specs[next].count - left)' = {} /\ (left \in 0 .. specs[next].count)'
    BY <1>1, <2>1, <2>3, <2>4 DEF Passed, Slots
  <2>8. LaidOut'
    <3>1. (Own(cache) = {})' /\ (\A c \in 1 .. cache - 1 : FALSE)'
      BY <1>1, <1>4
    <3>2. (globalIdx = 0 /\ startWay = 0 /\ WaysOf(specs, {}) = {} /\ LayoutOf(specs, {}) = {})'
      BY <1>1 DEF WaysOf, LayoutOf
    <3> QED
      BY <2>5, <2>6, <2>7, <3>1, <3>2 DEF LaidOut
  <2> QED
    BY <1>1, <1>5, <1>6, <2>1, <2>2, <2>8 DEF SpecifiedInv, Answered
<1> QED
  BY <1>7, <1>8

\* The next slot: the partition made is the one it is to be.
LEMMA SpecifiedMakePartition ==
    ASSUME Inv, RoomInv, SpecifiedInv, MakePartition
    PROVE  SpecifiedInv'
<1> DEFINE n == specs[next].count - left
           s == <<next, n + 1>>
           passed == Passed(specs, next, n)
           new == Partition(CacheIDs[cache], globalIdx, specs[next], startWay)
           last == Len(partitions) + 1
<1>1. /\ pc = "divide" /\ pc' = "divide" /\ left > 0 /\ partitions' = Append(partitions, new)
      /\ startWay' = startWay + specs[next].ways /\ globalIdx' = globalIdx + 1
      /\ left' = left - 1 /\ UNCHANGED <<specs, next, cache>>
  BY DEF MakePartition
<1>2. /\ specs \in SpecSeq /\ partitions \in Seq(Made) /\ cache \in DOMAIN CacheIDs
      /\ next \in 1 .. Len(specs) /\ specs[next].ways \in Nat /\ specs[next].count \in Nat
      /\ left \in 0 .. specs[next].count /\ globalIdx \in Nat /\ startWay \in Nat
  BY <1>1, RoomLeft DEF LoopType, SpecifiedInv, LaidOut
<1>3. n \in Nat /\ n < specs[next].count /\ n + 1 = (specs[next].count - left)'
  <2>1. left \in Nat /\ specs[next].count \in Nat /\ left > 0 /\ left <= specs[next].count
    BY <1>1, <1>2
  <2>2. n \in Nat /\ n < specs[next].count /\ n + 1 = specs[next].count - (left - 1)
    BY <2>1
  <2> HIDE DEF n
  <2> QED
    BY <1>1, <2>2
<1>4. /\ globalIdx = Cardinality(passed) /\ startWay = Cardinality(WaysOf(specs, passed))
      /\ MadeOf(cache) = LayoutOf(specs, passed)
      /\ \A p \in Own(cache) : partitions[p].Index < globalIdx
      /\ \A c \in 1 .. cache - 1 : MadeOf(c) = Layout(specs)
  BY <1>1 DEF SpecifiedInv, LaidOut
<1>5. new.CacheID = CacheIDs[cache] /\ new.Index = globalIdx
      /\ new.CBM = buildCBM(startWay, specs[next].ways)
  BY DEF Partition
<1> HIDE DEF n, new
<1>6. /\ Passed(specs, next, n + 1) = passed \cup {s} /\ s \notin passed
      /\ Earlier(specs, s) = passed /\ IsFiniteSet(passed) /\ passed \subseteq Slots(specs)
      /\ s \in Slots(specs) /\ s[1] = next
  <2>1. n + 1 \in 1 .. specs[next].count
    BY <1>2, <1>3
  <2>2. /\ Passed(specs, next, n + 1) = passed \cup {s} /\ s \notin passed
        /\ Earlier(specs, s) = passed
    BY <1>2, <1>3, PassedNext
  <2>3. IsFiniteSet(passed) /\ passed \subseteq Slots(specs)
    BY <1>2, PassedFinite
  <2>4. s \in Slots(specs)
    BY <1>2, <2>1, SlotsAre
  <2> QED
    BY <2>2, <2>3, <2>4
<1>7. Passed(specs, next, specs[next].count - left)' = passed \cup {s}
  BY <1>1, <1>3, <1>6 DEF Passed, Slots
<1> HIDE DEF passed, s
<1>8. IndexOf(specs, s) = new.Index /\ MaskOf(specs, s) = new.CBM
  BY <1>4, <1>5, <1>6 DEF IndexOf, MaskOf, buildCBM, buildWayMask
<1>9. Cardinality(passed \cup {s}) = globalIdx + 1
  BY <1>4, <1>6, FS_AddElement
<1>10. Cardinality(WaysOf(specs, passed \cup {s})) = startWay + specs[next].ways
  <2>1. {s} \subseteq Slots(specs) /\ passed \cap {s} = {}
    BY <1>6
  <2>2. Cardinality(WaysOf(specs, {s})) = specs[next].ways
    BY <1>2, <1>6, WaysOfSlot
  <2>3. Cardinality(WaysOf(specs, passed \cup {s})) =
            Cardinality(WaysOf(specs, passed)) + Cardinality(WaysOf(specs, {s}))
    BY <1>2, <1>6, <2>1, WaysAdd
  <2> QED
    BY <1>4, <2>2, <2>3
<1>11. /\ DOMAIN partitions' = DOMAIN partitions \cup {last} /\ last \notin DOMAIN partitions
       /\ \A p \in DOMAIN partitions : p < last /\ partitions'[p] = partitions[p]
       /\ DOMAIN partitions \subseteq Nat /\ last \in Nat
       /\ partitions'[last] = new
  BY <1>1, <1>2
<1>12. ASSUME NEW c \in DOMAIN CacheIDs
       PROVE  Own(c)' = IF c = cache THEN Own(c) \cup {last} ELSE Own(c)
  <2>1. c # cache => CacheIDs[c] # CacheIDs[cache]
    BY <1>2, PartitioningAssumption
  <2> QED
    BY <1>5, <1>11, <2>1 DEF Own
<1>13. ASSUME NEW c \in DOMAIN CacheIDs
       PROVE  /\ \A p \in Own(c) : partitions'[p] = partitions[p] /\ p < last /\ p \in Nat
              /\ \A p \in Own(c) : partitions[p].Index \in Nat
  <2>1. \A p \in DOMAIN partitions : partitions[p] \in Made
    BY <1>2
  <2> QED
    BY <1>11, <2>1 DEF Own, Made
<1> HIDE DEF last
<1>14. Own(cache)' = Own(cache) \cup {last}
  BY <1>1, <1>2, <1>12 DEF Own
<1>15. MadeOf(cache)' = LayoutOf(specs, passed \cup {s})
  <2>1. MadeOf(cache)' = MadeOf(cache) \cup {<<new.Index, new.CBM>>}
    BY <1>2, <1>11, <1>13, <1>14 DEF MadeOf
  <2>2. LayoutOf(specs, passed \cup {s}) =
            LayoutOf(specs, passed) \cup {<<IndexOf(specs, s), MaskOf(specs, s)>>}
    BY DEF LayoutOf
  <2> QED
    BY <1>4, <1>8, <2>1, <2>2
<1>16. \A c \in 1 .. cache - 1 : MadeOf(c)' = Layout(specs)
  <2> SUFFICES ASSUME NEW c \in 1 .. cache - 1
               PROVE  MadeOf(c)' = Layout(specs)
    OBVIOUS
  <2>1. c \in DOMAIN CacheIDs /\ c # cache
    <3>1. cache \in 1 .. Len(CacheIDs) /\ Len(CacheIDs) \in Nat /\ DOMAIN CacheIDs = 1 .. Len(CacheIDs)
      BY <1>2, PartitioningAssumption
    <3> QED
      BY <3>1
  <2>2. Own(c)' = Own(c)
    BY <1>12, <2>1
  <2>3. MadeOf(c)' = MadeOf(c)
    BY <1>13, <2>1, <2>2 DEF MadeOf
  <2> QED
    BY <1>4, <2>3
<1>17. \A p \in Own(cache)' : partitions'[p].Index < globalIdx'
  <2>1. \A p \in Own(cache) : partitions[p].Index < globalIdx + 1 /\ partitions'[p] = partitions[p]
    BY <1>2, <1>4, <1>13
  <2>2. partitions'[last].Index < globalIdx + 1
    BY <1>2, <1>5, <1>11
  <2> QED
    BY <1>1, <1>14, <2>1, <2>2
<1>18. LaidOut'
  <2>1. left' \in 0 .. specs[next].count
    BY <1>1, <1>2
  <2> QED
    BY <1>1, <1>7, <1>9, <1>10, <1>15, <1>16, <1>17, <2>1 DEF LaidOut
<1>19. InOrder'
  <2> SUFFICES ASSUME NEW c \in DOMAIN CacheIDs, NEW p \in Own(c)', NEW q \in Own(c)', p < q
               PROVE  partitions'[p].Index < partitions'[q].Index
    BY DEF InOrder
  <2>1. CASE p \in Own(c) /\ q \in Own(c)
    BY <1>13, <2>1 DEF SpecifiedInv, InOrder
  <2>2. CASE p \in Own(c) /\ q = last /\ c = cache
    BY <1>4, <1>5, <1>11, <1>13, <2>2
  <2>3. p # last
    BY <1>11, <1>12, <1>13
  <2> QED
    BY <1>12, <2>1, <2>2, <2>3
<1>20. TotalsInv' /\ Answered'
  BY <1>1 DEF TotalsInv, SpecifiedInv, Answered
<1> QED
  BY <1>18, <1>19, <1>20 DEF SpecifiedInv

\* The end of a spec is where the next one begins.
LEMMA SpecifiedNextSpec ==
    ASSUME Inv, RoomInv, SpecifiedInv, NextSpec
    PROVE  SpecifiedInv'
<1>1. /\ pc = "divide" /\ left = 0 /\ next < Len(specs) /\ next' = next + 1
      /\ left' = specs[next + 1].count
      /\ UNCHANGED <<pc, specs, cache, startWay, globalIdx, partitions>>
  BY DEF NextSpec
<1>2. /\ specs \in SpecSeq /\ next \in 1 .. Len(specs) /\ next + 1 \in 1 .. Len(specs)
      /\ specs[next].count \in Nat /\ specs[next + 1].count \in Nat
  <2>1. specs \in SpecSeq /\ next \in 1 .. Len(specs) /\ Len(specs) \in Nat
    BY <1>1, RoomLeft DEF LoopType
  <2>2. next + 1 \in 1 .. Len(specs)
    BY <1>1, <2>1
  <2> QED
    BY <2>1, <2>2, SlotsAre
<1>3. /\ specs[next].count - left = specs[next].count
      /\ specs[next + 1].count - specs[next + 1].count = 0
  BY <1>1, <1>2
<1>4. Passed(specs, next + 1, 0) = Passed(specs, next, specs[next].count - left)
  BY <1>2, <1>3, PassedSpec
<1>5. Passed(specs, next, specs[next].count - left)' =
          Passed(specs, next, specs[next].count - left)
  BY <1>1, <1>3, <1>4 DEF Passed, Slots
<1>6. LaidOut'
  <2> DEFINE passed == Passed(specs, next, specs[next].count - left)
  <2>1. /\ globalIdx = Cardinality(passed) /\ startWay = Cardinality(WaysOf(specs, passed))
        /\ MadeOf(cache) = LayoutOf(specs, passed)
        /\ \A p \in Own(cache) : partitions[p].Index < globalIdx
        /\ \A c \in 1 .. cache - 1 : MadeOf(c) = Layout(specs)
    BY <1>1 DEF SpecifiedInv, LaidOut
  <2>2. (left \in 0 .. specs[next].count)'
    BY <1>1, <1>2
  <2>3. /\ Own(cache)' = Own(cache) /\ MadeOf(cache)' = MadeOf(cache)
        /\ \A c : MadeOf(c)' = MadeOf(c)
    BY <1>1 DEF Own, MadeOf
  <2>4. passed' = passed
    BY <1>5
  <2> HIDE DEF passed
  <2>5. LET now == passed' IN
        /\ globalIdx' = Cardinality(now) /\ startWay' = Cardinality(WaysOf(specs', now))
        /\ MadeOf(cache)' = LayoutOf(specs', now)
    BY <1>1, <2>1, <2>3, <2>4
  <2>6. /\ \A p \in Own(cache)' : partitions'[p].Index < globalIdx'
        /\ \A c \in 1 .. cache' - 1 : MadeOf(c)' = Layout(specs')
    BY <1>1, <2>1, <2>3
  <2> QED
    BY <2>2, <2>5, <2>6 DEF LaidOut, passed
<1>7. TotalsInv' /\ Answered' /\ InOrder'
  BY <1>1 DEF TotalsInv, SpecifiedInv, Answered, InOrder, Own
<1> QED
  BY <1>6, <1>7 DEF SpecifiedInv

\* The loops leave a domain when all its slots have been made, and nothing has been
\* made of the next one.
LEMMA SpecifiedNextCache ==
    ASSUME Inv, RoomInv, SpecifiedInv, NextCache
    PROVE  SpecifiedInv'
<1>1. /\ pc = "divide" /\ left = 0 /\ next = Len(specs)
      /\ UNCHANGED <<specs, partitions>>
  BY DEF NextCache
<1>2. /\ specs \in SpecSeq /\ Len(specs) \in Nat \ {0} /\ next \in 1 .. Len(specs)
      /\ specs[next].count \in Nat /\ specs[1].count \in Nat
      /\ cache \in 1 .. Len(CacheIDs) /\ DOMAIN CacheIDs = 1 .. Len(CacheIDs)
      /\ Len(CacheIDs) \in Nat
  <2>1. /\ specs \in SpecSeq /\ Len(specs) \in Nat \ {0} /\ next \in 1 .. Len(specs)
        /\ specs[next].count \in Nat /\ cache \in DOMAIN CacheIDs
    BY <1>1, RoomLeft DEF LoopType
  <2>2. 1 \in 1 .. Len(specs)
    BY <2>1
  <2>3. specs[1].count \in Nat
    BY <2>1, <2>2, SlotsAre
  <2>4. DOMAIN CacheIDs = 1 .. Len(CacheIDs) /\ Len(CacheIDs) \in Nat
    BY PartitioningAssumption
  <2> QED
    BY <2>1, <2>3, <2>4
<1>3. Passed(specs, next, specs[next].count - left) = Slots(specs)
  <2>1. specs[next].count - left = specs[next].count
    BY <1>1, <1>2
  <2> QED
    BY <1>1, <1>2, <2>1, PassedSpec, PassedEnds
<1>4. MadeOf(cache) = Layout(specs)
  BY <1>1, <1>3 DEF SpecifiedInv, LaidOut, LayoutOf, Layout
<1>5. \A c \in 1 .. cache : MadeOf(c) = Layout(specs)
  BY <1>1, <1>2, <1>4 DEF SpecifiedInv, LaidOut
<1>6. \A c : MadeOf(c)' = MadeOf(c) /\ Own(c)' = Own(c)
  BY <1>1 DEF MadeOf, Own
<1>7. Accepted(specs, MinCBMBits, NumCLOSIDs)
  BY <1>1 DEF SpecifiedInv, Answered
<1>8. InOrder'
  BY <1>1, <1>6 DEF SpecifiedInv, InOrder
<1>9. CASE cache < Len(CacheIDs)
  <2>1. /\ pc' = "divide" /\ cache' = cache + 1 /\ next' = 1 /\ left' = specs[1].count
        /\ startWay' = 0 /\ globalIdx' = 0
    BY <1>1, <1>9 DEF NextCache
  <2>2. Own(cache + 1) = {}
    <3>1. /\ cache + 1 \in DOMAIN CacheIDs
          /\ \A c \in 1 .. cache : c \in DOMAIN CacheIDs /\ c # cache + 1
      BY <1>2, <1>9
    <3>2. \A c \in 1 .. cache : CacheIDs[c] # CacheIDs[cache + 1]
      BY <3>1, PartitioningAssumption
    <3>3. \A p \in DOMAIN partitions : partitions[p].CacheID # CacheIDs[cache + 1]
      BY <3>2 DEF Inv, FromCaches
    <3> QED
      BY <3>3 DEF Own
  <2>3. Own(cache)' = {} /\ MadeOf(cache)' = {}
    BY <1>1, <2>1, <2>2 DEF Own, MadeOf
  <2>4. Passed(specs, 1, specs[1].count - specs[1].count) = {}
    BY <1>2, PassedEnds
  <2>5. (Passed(specs, next, specs[next].count - left) = {} /\ left \in 0 .. specs[next].count)'
    BY <1>1, <1>2, <2>1, <2>4 DEF Passed, Slots
  <2>6. (Cardinality({}) = 0 /\ WaysOf(specs, {}) = {} /\ LayoutOf(specs, {}) = {})'
    BY FS_EmptySet DEF WaysOf, LayoutOf
  <2>7. \A c \in 1 .. cache' - 1 : MadeOf(c)' = Layout(specs')
    BY <1>1, <1>2, <1>5, <1>6, <2>1
  <2>8. LaidOut'
    BY <2>1, <2>3, <2>5, <2>6, <2>7 DEF LaidOut
  <2> QED
    BY <1>1, <1>7, <1>8, <2>1, <2>8 DEF SpecifiedInv, TotalsInv, Answered
<1>10. CASE ~ (cache < Len(CacheIDs))
  <2>1. pc' = "done"
    BY <1>10, Zenon DEF NextCache
  <2>2. cache = Len(CacheIDs)
    <3>1. \A n \in Nat : \A k \in 1 .. n : ~ (k < n) => k = n
      OBVIOUS
    <3> QED
      BY <1>2, <1>10, <3>1, Zenon
  <2>3. \A c \in DOMAIN CacheIDs : MadeOf(c)' = Layout(specs')
    BY <1>1, <1>2, <1>5, <1>6, <2>2
  <2> QED
    BY <1>1, <1>7, <1>8, <2>1, <2>3 DEF SpecifiedInv, TotalsInv, LaidOut, Answered
<1> QED
  BY <1>9, <1>10

\* In the end each domain has the layout of what was asked for, in the order of the
\* indices, and an error is answered exactly for what is not accepted: partition.go:66-151.
THEOREM AsSpecifiedHolds == Spec => []AsSpecified
<1>1. Inv /\ RoomInv /\ SpecifiedInv /\ [Next]_vars => SpecifiedInv'
  <2> SUFFICES ASSUME Inv, RoomInv, SpecifiedInv, [Next]_vars
               PROVE  SpecifiedInv'
    OBVIOUS
  <2>1. CASE UNCHANGED vars
    BY <2>1 DEF vars, validation, SpecifiedInv, TotalsInv, LaidOut, InOrder, Answered, MadeOf, Own,
                Passed, Slots
  <2> QED
    BY <2>1, SpecifiedValidateSpec, SpecifiedValidateTotals, SpecifiedMakePartition,
       SpecifiedNextSpec, SpecifiedNextCache DEF Next
<1>2. SpecifiedInv => AsSpecified
  BY DEF SpecifiedInv, Answered, InOrder, AsSpecified, MadeOf
<1> QED
  BY <1>1, <1>2, SpecifiedInit, RoomInvariant, PTL DEF Spec
=============================================================================
