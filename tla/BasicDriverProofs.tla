------------------------- MODULE BasicDriverProofs --------------------------
(***************************************************************************)
(* Proofs about BasicDriver, for every node, number of claims, of handlers *)
(* and of restarts: types; the kernel and the CDI file against the layout; *)
(* running containers; the refinement of CachePartitions; and who has      *)
(* which partition.                                                        *)
(***************************************************************************)
EXTENDS BasicDriver, FiniteSetTheorems, TLAPS

-----------------------------------------------------------------------------
\* Types.  TypeOK by the variables that a step changes together, with the
\* types of the variables that it does not speak of.

Results == Seq(Devices \cup {OtherDevice})

MainType ==
    /\ pc \in {"down", "stopped", "up"} \cup StartPCs \cup StopPCs
    /\ perCache \in Configs
    /\ at \in DOMAIN perCache

\* The partitions that AllocationState has an entry for.
KnownPartitions ==
    {d \in Devices : partitions[d] # Unknown} =
        IF pc \in {"down", "stopped", "mkdir", "schemata", "cdi"} THEN {} ELSE PartitionDevices

MemoryType == AllocationStateType /\ gauge \in Nat /\ KnownPartitions

\* A call has a claim, and a prepare that succeeds has allocated something.
CallOK(r) ==
    /\ r.pc # "idle" => r.claim \in Claims
    /\ r.pc = "take" => r.reply = "unprepared"
    /\ \/ r.pc = "prepared"
       \/ r.pc \in {"count", "set"} /\ r.reply = "prepared"
       => r.devices # <<>>

CallsType ==
    /\ call \in [Handlers -> Call]
    /\ \A h \in Handlers : CallOK(call[h])

SliceType ==
    /\ cdi = NoSpec \/ cdi \subseteq Devices
    /\ slice = NoSlice \/ slice \subseteq Devices

ClaimsType ==
    /\ api \in [Claims -> {NoRequest} \cup Results]
    /\ listed \in [Claims -> {NoRequest} \cup Results]
    /\ phase \in [Claims -> {"none", "bound", "wanted", "prepared", "ending"}]
    /\ answer \in [Claims -> Seq(Devices)]
    /\ \A c \in Claims : phase[c] = "prepared" => answer[c] # <<>>

TypeInv ==
    MainType /\ ResctrlType /\ MemoryType /\ CallsType /\ SliceType /\ ClaimsType

\* The slice is a finite list.
LEMMA FiniteDevices ==
    ASSUME NEW S \in SUBSET Devices
    PROVE  IsFiniteSet(S) /\ Cardinality(S) \in Nat
<1>1. IsFiniteSet({"cache", "mba"})
  <2>1. IsFiniteSet({"cache"})
    BY FS_Singleton
  <2>2. IsFiniteSet({"cache"} \cup {"mba"})
    BY <2>1, FS_AddElement
  <2>3. {"cache"} \cup {"mba"} = {"cache", "mba"}
    OBVIOUS
  <2> QED
    BY <2>2, <2>3
<1>2. IsFiniteSet(Devices)
  BY <1>1, FS_Product, BasicAssumption
<1> QED
  BY <1>2, FS_Subset, FS_CardinalityType

\* The results of a claim's own devices are a sequence, in whatever order.
LEMMA SetToSeqType ==
    ASSUME NEW S \in SUBSET Devices
    PROVE  SetToSeq(S) \in Seq(S) /\ Range(SetToSeq(S)) \subseteq S
<1>1. Cardinality(S) \in Nat /\ ExistsBijection(1 .. Cardinality(S), S)
  BY FiniteDevices, FS_CardinalityType
<1>2. PICK f \in Bijection(1 .. Cardinality(S), S) : TRUE
  BY <1>1 DEF ExistsBijection
<1>3. f \in [1 .. Cardinality(S) -> S] /\ IsInjective(f)
  BY <1>2 DEF Bijection, Injection, IsInjective, Surjection
<1>4. SetToSeq(S) \in [1 .. Cardinality(S) -> S]
  BY <1>3 DEF SetToSeq
<1> QED
  BY <1>1, <1>4 DEF Range

\* The devices of the layout are device names, and each partition of it is one.
LEMMA LayoutType ==
    ASSUME MainType
    PROVE  /\ perCache \in Seq(Partition) /\ Len(perCache) \in Nat \ {0}
           /\ DOMAIN perCache = 1 .. Len(perCache)
           /\ perCache[at] \in Partition
           /\ PartitionDevices \subseteq Devices
           /\ AllDevices \subseteq Devices
<1>1. perCache \in Seq(Partition) /\ perCache # <<>>
  <2>1. Configs \subseteq Seq(Partition) \ {<<>>}
    BY BasicAssumption, Zenon
  <2> QED
    BY <2>1 DEF MainType
<1>2. Len(perCache) \in Nat /\ DOMAIN perCache = 1 .. Len(perCache)
  BY <1>1
<1>3. Len(perCache) # 0
  BY <1>1
<1>4. \A i \in DOMAIN perCache : perCache[i] \in Partition /\ perCache[i].group \in Groups
  <2>1. \A i \in DOMAIN perCache : perCache[i] \in Partition
    BY <1>1
  <2> QED
    BY <2>1 DEF Partition
<1>5. \A i \in DOMAIN perCache :
        /\ Device("cache", perCache[i].group) \in Devices
        /\ Device("mba", perCache[i].group) \in Devices
  BY <1>4, BasicAssumption DEF Device
<1> QED
  BY <1>1, <1>2, <1>3, <1>4, <1>5 DEF MainType, PartitionDevices, AllDevices

\* The parts of TypeInv that a step leaves alone.
LEMMA Untouched ==
    ASSUME TypeInv
    PROVE  /\ UNCHANGED <<pc, perCache, at>> => MainType'
           /\ UNCHANGED resctrl => ResctrlType'
           /\ UNCHANGED <<pc, perCache, memory>> => MemoryType'
           /\ UNCHANGED call => CallsType'
           /\ UNCHANGED <<cdi, slice>> => SliceType'
           /\ UNCHANGED <<listed, kubelet>> => ClaimsType'
<1>1. UNCHANGED <<pc, perCache, at>> => MainType'
  BY DEF TypeInv, MainType
<1>2. UNCHANGED resctrl => ResctrlType'
  BY DEF TypeInv, ResctrlType, resctrl
<1>3. UNCHANGED <<pc, perCache, memory>> => MemoryType'
  BY DEF TypeInv, MemoryType, AllocationStateType, KnownPartitions, PartitionDevices, memory
<1>4. UNCHANGED call => CallsType'
  BY DEF TypeInv, CallsType
<1>5. UNCHANGED <<cdi, slice>> => SliceType'
  BY DEF TypeInv, SliceType
<1>6. UNCHANGED <<listed, kubelet>> => ClaimsType'
  BY DEF TypeInv, ClaimsType, kubelet
<1> QED
  BY <1>1, <1>2, <1>3, <1>4, <1>5, <1>6

\* A call starts with nothing read and nothing allocated.
LEMMA NewCallType ==
    /\ IdleCall \in Call /\ IdleCall.pc = "idle"
    /\ \A p \in CallPCs, c \in Claims, reply \in {"prepared", "unprepared"} :
          NewCall(p, c, reply) \in Call
<1>1. \A p \in CallPCs, c \in Claims \cup {NoClaim}, reply \in {"prepared", "unprepared"} :
          NewCall(p, c, reply) \in Call
  <2>1. <<>> \in Seq(Devices \cup {OtherDevice}) /\ <<>> \in Seq(Devices)
    OBVIOUS
  <2> QED
    BY <2>1 DEF NewCall, Call
<1>2. NewCall("idle", NoClaim, "prepared") \in Call
  BY <1>1 DEF CallPCs
<1>3. IdleCall \in Call
  BY <1>2 DEF IdleCall, Call
<1>4. IdleCall.pc = "idle"
  BY DEF IdleCall, NewCall
<1> QED
  BY <1>1, <1>3, <1>4

\* A process that ends: its memory is gone, what the kubelet knows is not.
LEMMA LostType ==
    ASSUME TypeInv, LoseMemory, UNCHANGED kubelet, pc' \in {"down", "stopped"}
    PROVE  MemoryType' /\ CallsType' /\ ClaimsType'
<1>1. MemoryType'
  BY AllocationStateAssumption
     DEF LoseMemory, NewAllocationState, MemoryType, AllocationStateType, KnownPartitions
<1>2. IdleCall \in Call /\ IdleCall.pc = "idle"
  BY NewCallType
<1>3. CallsType'
  BY <1>2 DEF LoseMemory, CallsType, CallOK
<1>4. ClaimsType'
  BY DEF LoseMemory, NothingListed, ClaimsType, kubelet, TypeInv
<1> QED
  BY <1>1, <1>3, <1>4

\* A fatal error, wherever main is.
LEMMA FatalType ==
    ASSUME TypeInv, Fatal, UNCHANGED kubelet
    PROVE  MainType' /\ MemoryType' /\ CallsType' /\ ClaimsType'
<1>1. MainType'
  BY DEF Fatal, MainType, TypeInv
<1> QED
  BY <1>1, LostType DEF Fatal

\* A step of main from one place to the next, on either side of WriteCDISpecs,
\* where the AllocationState is made.
Before == {"down", "stopped", "mkdir", "schemata", "cdi"}
After == {"list", "recover", "publish", "up"} \cup StopPCs

\* A step of main that changes nothing but where it is.
LEMMA MovedType ==
    ASSUME TypeInv, UNCHANGED <<perCache, listed, memory, call, kubelet>>,
           \/ pc \in Before /\ pc' \in Before
           \/ pc \in After /\ pc' \in After,
           at' \in DOMAIN perCache
    PROVE  MainType' /\ MemoryType' /\ CallsType' /\ ClaimsType'
<1>1. MainType'
  BY DEF TypeInv, MainType, Before, After, StartPCs, StopPCs
<1>2. MemoryType'
  BY DEF TypeInv, MemoryType, AllocationStateType, KnownPartitions, PartitionDevices,
         memory, Before, After, StopPCs
<1> QED
  BY <1>1, <1>2, Untouched

\* A loop of main over the partitions.
LEMMA NextPartitionType ==
    ASSUME MainType, NEW p, NEW after, NextPartition(p, after)
    PROVE  at' \in DOMAIN perCache /\ pc' \in {p, after}
BY LayoutType DEF MainType, NextPartition

\* main, from its start to its end.
LEMMA MainStepType ==
    ASSUME TypeInv, MainStep
    PROVE  TypeInv'
<1> USE DEF resctrl, kubelet, bounds
<1>1. CASE Start
  <2>1. MainType'
    <3>1. perCache' \in Configs /\ at' = 1 /\ pc' = "mkdir"
      BY <1>1 DEF Start, TypeInv, MainType
    <3>2. perCache' \in Seq(Partition) /\ perCache' # <<>>
      <4>1. Configs \subseteq Seq(Partition) \ {<<>>}
        BY BasicAssumption, Zenon
      <4> QED
        BY <3>1, <4>1
    <3>3. 1 \in DOMAIN perCache'
      BY <3>2
    <3> QED
      BY <3>1, <3>3 DEF MainType, StartPCs
  <2>2. MemoryType'
    BY <1>1 DEF Start, TypeInv, MemoryType, AllocationStateType, KnownPartitions, memory
  <2> QED
    BY <1>1, <2>1, <2>2, Untouched DEF Start, TypeInv
<1>2. CASE CreateGroupDir
  <2> DEFINE g == perCache[at].group
  <2>1. g \in Groups /\ at \in DOMAIN perCache
    BY LayoutType DEF TypeInv, MainType, Partition
  <2>2. ResctrlType'
    BY <1>2, <2>1 DEF CreateGroupDir, Mkdir, TypeInv, ResctrlType, CBM
  <2>3. MainType' /\ MemoryType' /\ CallsType' /\ ClaimsType'
    <3>1. CASE Fatal
      BY <1>2, <3>1, FatalType DEF CreateGroupDir
    <3>2. CASE Proceed("schemata")
      BY <1>2, <2>1, <3>2, MovedType DEF CreateGroupDir, Proceed, Before
    <3> QED
      BY <1>2, <3>1, <3>2 DEF CreateGroupDir
  <2> QED
    BY <1>2, <2>2, <2>3, Untouched DEF CreateGroupDir, TypeInv
<1>3. CASE WriteGroupSchemata
  <2> DEFINE p == perCache[at]
  <2>1. p.group \in Groups /\ p.cbm \in CBM
    BY LayoutType DEF TypeInv, Partition
  <2>2. ResctrlType'
    BY <1>3, <2>1 DEF WriteGroupSchemata, WriteSchemata, RemoveIfEmpty, TypeInv, ResctrlType
  <2>3. MainType' /\ MemoryType' /\ CallsType' /\ ClaimsType'
    <3>1. CASE Fatal
      BY <1>3, <3>1, FatalType DEF WriteGroupSchemata
    <3>2. CASE NextPartition("mkdir", "cdi")
      <4>1. at' \in DOMAIN perCache /\ pc' \in {"mkdir", "cdi"}
        BY <3>2, NextPartitionType DEF TypeInv
      <4> QED
        BY <1>3, <3>2, <4>1, MovedType DEF WriteGroupSchemata, NextPartition, Before
    <3> QED
      BY <1>3, <3>1, <3>2 DEF WriteGroupSchemata
  <2> QED
    BY <1>3, <2>2, <2>3, Untouched DEF WriteGroupSchemata, TypeInv
<1>4. CASE WriteCDISpecs
  <2>1. CASE Fatal /\ cdi' \in {cdi, NoSpec}
    <3>1. SliceType'
      BY <1>4, <2>1 DEF WriteCDISpecs, SliceType, TypeInv
    <3> QED
      BY <1>4, <2>1, <3>1, FatalType, Untouched DEF WriteCDISpecs, TypeInv
  <2>2. CASE /\ cdi' = AllDevices
             /\ pc' = "list"
             /\ partitions' = NewAllocationState(PartitionDevices)
             /\ UNCHANGED <<perCache, at, listed, gauge, call, bounds>>
    <3>1. SliceType'
      BY <1>4, <2>2, LayoutType DEF WriteCDISpecs, SliceType, TypeInv
    <3>2. MainType'
      BY <2>2 DEF MainType, TypeInv, StartPCs
    <3>3. MemoryType'
      BY <2>2, LayoutType, AllocationStateAssumption
         DEF NewAllocationState, MemoryType, AllocationStateType, KnownPartitions,
             PartitionDevices, TypeInv
    <3> QED
      BY <1>4, <2>2, <3>1, <3>2, <3>3, Untouched DEF WriteCDISpecs, TypeInv
  <2> QED
    BY <1>4, <2>1, <2>2 DEF WriteCDISpecs
<1>5. CASE ListClaims
  <2>1. MainType' /\ MemoryType'
    BY <1>5 DEF ListClaims, TypeInv, MainType, MemoryType, AllocationStateType,
                KnownPartitions, PartitionDevices, memory, StartPCs
  <2>2. ClaimsType'
    BY <1>5 DEF ListClaims, TypeInv, ClaimsType
  <2> QED
    BY <1>5, <2>1, <2>2, Untouched DEF ListClaims, TypeInv
<1>6. CASE EndRecovery
  <2>1. MainType' /\ MemoryType'
    BY <1>6 DEF EndRecovery, TypeInv, MainType, MemoryType, AllocationStateType,
                KnownPartitions, PartitionDevices, memory, StartPCs
  <2>2. ClaimsType'
    BY <1>6 DEF EndRecovery, NothingListed, TypeInv, ClaimsType
  <2> QED
    BY <1>6, <2>1, <2>2, Untouched DEF EndRecovery, TypeInv
<1>7. CASE Publish
  <2>1. SliceType'
    BY <1>7, LayoutType DEF Publish, SliceType, TypeInv
  <2>2. MainType' /\ MemoryType' /\ CallsType' /\ ClaimsType'
    <3>1. CASE Fatal
      BY <1>7, <3>1, FatalType DEF Publish
    <3>2. CASE Proceed("up")
      <4>1. at \in DOMAIN perCache
        BY DEF TypeInv, MainType
      <4> QED
        BY <1>7, <3>2, <4>1, MovedType DEF Publish, Proceed, After
    <3> QED
      BY <1>7, <3>1, <3>2 DEF Publish
  <2> QED
    BY <1>7, <2>1, <2>2, Untouched DEF Publish, TypeInv
<1>8. CASE DeleteSlice \/ CleanupCDISpecs
  <2>1. SliceType'
    BY <1>8 DEF DeleteSlice, CleanupCDISpecs, SliceType, TypeInv
  <2>2. MainType' /\ MemoryType' /\ CallsType' /\ ClaimsType'
    <3>1. at \in DOMAIN perCache
      BY DEF TypeInv, MainType
    <3> QED
      BY <1>8, <3>1, MovedType DEF DeleteSlice, CleanupCDISpecs, Proceed, After, StopPCs
  <2> QED
    BY <1>8, <2>1, <2>2, Untouched DEF DeleteSlice, CleanupCDISpecs, TypeInv
<1>9. CASE DeleteNextGroup
  <2>1. perCache[at].group \in Groups
    BY LayoutType DEF TypeInv, Partition
  <2>2. ResctrlType'
    BY <1>9, <2>1 DEF DeleteNextGroup, DeleteGroup, Drained, TypeInv, ResctrlType
  <2>3. MainType' /\ MemoryType' /\ CallsType' /\ ClaimsType'
    <3>1. CASE Exit
      <4>1. MainType'
        BY <3>1, LayoutType DEF Exit, MainType, TypeInv
      <4> QED
        BY <1>9, <3>1, <4>1, LostType DEF Exit, DeleteNextGroup
    <3>2. CASE at < Len(perCache) /\ NextPartition("delete", "stopped")
      <4>1. at' \in DOMAIN perCache /\ pc' = "delete"
        BY <3>2, NextPartitionType DEF TypeInv, NextPartition
      <4> QED
        BY <1>9, <3>2, <4>1, MovedType DEF DeleteNextGroup, NextPartition, After, StopPCs
    <3> QED
      BY <1>9, <3>1, <3>2 DEF DeleteNextGroup
  <2> QED
    BY <1>9, <2>2, <2>3, Untouched DEF DeleteNextGroup, TypeInv
<1>10. ASSUME NEW c \in Claims, RecoverClaim(c)
       PROVE  TypeInv'
  <2> DEFINE found == Recoverable(c, listed[c])
  <2>1. listed[c] \in Results
    BY <1>10 DEF RecoverClaim, TypeInv, ClaimsType
  <2>2. found \subseteq Devices /\ \A d \in found : partitions[d] # Unknown
    <3>1. Range(listed[c]) \subseteq Devices \cup {OtherDevice}
      BY <2>1 DEF Results, Range
    <3>2. \A d \in found : CanAllocate(d, c) /\ d \in Range(listed[c]) /\ d # OtherDevice
      BY DEF Recoverable
    <3> QED
      BY <3>1, <3>2, AllocationStateAssumption DEF CanAllocate
  <2>3. Cardinality(found) \in Nat
    BY <2>2, FiniteDevices
  <2>4. /\ partitions' = [d \in Devices |-> IF d \in found THEN c ELSE partitions[d]]
        /\ gauge' = gauge + Cardinality(found)
    BY <1>10 DEF RecoverClaim
  <2> HIDE DEF found
  <2>5. AllocationStateType' /\ gauge' \in Nat
    BY <2>3, <2>4 DEF TypeInv, MemoryType, AllocationStateType
  <2>6. {d \in Devices : partitions'[d] # Unknown} = {d \in Devices : partitions[d] # Unknown}
    BY <2>2, <2>4, AllocationStateAssumption
  <2>7. pc' = pc /\ perCache' = perCache
    BY <1>10 DEF RecoverClaim
  <2>8. MemoryType'
    BY <2>5, <2>6, <2>7 DEF TypeInv, MemoryType, KnownPartitions, PartitionDevices
  <2>9. ClaimsType'
    BY <1>10 DEF RecoverClaim, TypeInv, ClaimsType
  <2> QED
    BY <1>10, <2>8, <2>9, Untouched DEF RecoverClaim, TypeInv
<1> QED
  BY <1>1, <1>2, <1>3, <1>4, <1>5, <1>6, <1>7, <1>8, <1>9, <1>10 DEF MainStep

\* A handler that goes on to another place.
LEMMA GotoType ==
    ASSUME TypeInv, NEW h \in Handlers, NEW p \in CallPCs, call[h].pc # "idle", Goto(h, p),
           p = "take" => call[h].reply = "unprepared",
           p = "prepared" => call[h].devices # <<>>,
           p \in {"count", "set"} /\ call[h].reply = "prepared" => call[h].devices # <<>>
    PROVE  CallsType'
<1>1. call[h] \in Call /\ call[h].claim \in Claims
  BY DEF TypeInv, CallsType, CallOK
<1> DEFINE r == [call[h] EXCEPT !.pc = p]
<1>2. r \in Call /\ CallOK(r)
  BY <1>1 DEF Call, CallOK
<1>3. call' = [call EXCEPT ![h] = r]
  BY DEF Goto
<1> HIDE DEF r
<1> QED
  BY <1>2, <1>3 DEF TypeInv, CallsType

\* A call whose record is replaced by another of a claim.
LEMMA CallType ==
    ASSUME TypeInv, NEW h \in Handlers, NEW r \in Call, call' = [call EXCEPT ![h] = r],
           CallOK(r)
    PROVE  CallsType'
BY DEF TypeInv, CallsType

\* What Allocate and ReleaseByClaimUID do to the record: no entry comes or goes.
LEMMA RecordType ==
    ASSUME TypeInv, NEW c \in Claims, UNCHANGED <<pc, perCache, gauge>>,
           \/ ReleaseByClaimUID(c)
           \/ \E d \in Devices : CanAllocate(d, c) /\ Allocate(d, c)
    PROVE  MemoryType'
<1>1. AllocationStateType'
  BY DEF TypeInv, MemoryType, AllocationStateType, ReleaseByClaimUID, Allocate
<1>2. {d \in Devices : partitions'[d] # Unknown} = {d \in Devices : partitions[d] # Unknown}
  BY AllocationStateAssumption
     DEF TypeInv, MemoryType, AllocationStateType, ReleaseByClaimUID, Allocate, CanAllocate
<1> QED
  BY <1>1, <1>2 DEF TypeInv, MemoryType, KnownPartitions, PartitionDevices

\* prepareClaim and unprepareClaim.
LEMMA HandlerStepType ==
    ASSUME TypeInv, NEW h \in Handlers, HandlerStep(h)
    PROVE  TypeInv'
<1> DEFINE c == call[h].claim
<1> USE DEF main, memory, resctrl, kubelet, bounds
<1>0. call[h] \in Call /\ CallOK(call[h]) /\ (call[h].pc # "idle" => c \in Claims)
  BY DEF TypeInv, CallsType, CallOK
<1>1. CASE GetClaim(h)
  <2>1. CASE Goto(h, "error")
    <3>1. CallsType'
      BY <1>1, <2>1, GotoType DEF GetClaim, CallPCs
    <3> QED
      BY <1>1, <3>1, Untouched DEF GetClaim, TypeInv
  <2>2. CASE api[c] # NoRequest /\ call' = [call EXCEPT ![h].pc = "loop", ![h].todo = api[c]]
    <3>1. api[c] \in Results /\ c \in Claims
      BY <1>0, <1>1, <2>2 DEF GetClaim, TypeInv, ClaimsType
    <3> DEFINE read == [call[h] EXCEPT !.pc = "loop", !.todo = api[c]]
    <3>2. read \in Call /\ CallOK(read) /\ call' = [call EXCEPT ![h] = read]
      BY <1>0, <2>2, <3>1 DEF Call, CallPCs, CallOK, Results
    <3> HIDE DEF read
    <3>3. CallsType'
      BY <3>2, CallType
    <3> QED
      BY <1>1, <3>3, Untouched DEF GetClaim, TypeInv
  <2> QED
    BY <1>1, <2>1, <2>2 DEF GetClaim
<1>2. CASE AllocateResult(h)
  <2> DEFINE d == Head(call[h].todo)
             passed == [call[h] EXCEPT !.todo = Tail(@)]
             taken == [passed EXCEPT !.devices = Append(@, d)]
  <2>1. /\ c \in Claims
        /\ call[h].todo \in Seq(Devices \cup {OtherDevice})
        /\ call[h].devices \in Seq(Devices)
        /\ call[h].todo # <<>>
    BY <1>0, <1>2 DEF AllocateResult, Call
  <2>2. d \in Devices \cup {OtherDevice} /\ Tail(call[h].todo) \in Seq(Devices \cup {OtherDevice})
    BY <2>1
  <2>3. passed \in Call /\ CallOK(passed)
    BY <1>0, <1>2, <2>2 DEF Call, CallOK, AllocateResult
  <2>4. ASSUME d \in Devices
        PROVE  taken \in Call /\ CallOK(taken)
    <3>1. Append(call[h].devices, d) \in Seq(Devices)
      BY <2>1, <2>4
    <3> QED
      BY <1>0, <1>2, <2>2, <3>1 DEF Call, CallOK, AllocateResult
  <2>5. CallsType'
    <3>1. CASE d # OtherDevice /\ CanAllocate(d, c)
      <4>1. call' = [call EXCEPT ![h] = taken]
        BY <1>2, <3>1 DEF AllocateResult
      <4>2. taken \in Call /\ CallOK(taken)
        BY <2>1, <2>2, <2>4, <3>1
      <4> HIDE DEF taken
      <4> QED
        BY <4>1, <4>2, CallType
    <3>2. CASE ~ (d # OtherDevice /\ CanAllocate(d, c))
      <4>1. call' = [call EXCEPT ![h] = passed]
        BY <1>2, <3>2 DEF AllocateResult
      <4> HIDE DEF passed
      <4> QED
        BY <2>3, <4>1, CallType
    <3> QED
      BY <3>1, <3>2
  <2>6. MemoryType'
    <3>1. CASE UNCHANGED partitions
      BY <1>2, <3>1, Untouched DEF AllocateResult
    <3>2. CASE d \in Devices /\ CanAllocate(d, c) /\ Allocate(d, c)
      BY <1>2, <2>1, <3>2, RecordType DEF AllocateResult
    <3> QED
      BY <1>2, <2>2, <3>1, <3>2 DEF AllocateResult
  <2> QED
    BY <1>2, <2>5, <2>6, Untouched DEF AllocateResult, TypeInv
<1>3. CASE EndLoop(h)
  <2>1. CallsType'
    BY <1>3, GotoType DEF EndLoop, CallPCs
  <2> QED
    BY <1>3, <2>1, Untouched DEF EndLoop, TypeInv
<1>4. CASE ReleaseClaim(h)
  <2>1. CallsType'
    BY <1>0, <1>4, GotoType DEF ReleaseClaim, CallPCs, CallOK
  <2>2. MemoryType'
    BY <1>0, <1>4, RecordType DEF ReleaseClaim
  <2> QED
    BY <1>4, <2>1, <2>2, Untouched DEF ReleaseClaim, TypeInv
<1>5. CASE CountAllocated(h)
  <2>1. AllocatedCount \in Nat
    BY FiniteDevices DEF AllocatedCount
  <2> DEFINE counted == [call[h] EXCEPT !.pc = "set", !.counted = AllocatedCount]
  <2>2. counted \in Call /\ CallOK(counted) /\ call' = [call EXCEPT ![h] = counted]
    BY <1>0, <1>5, <2>1 DEF CountAllocated, Call, CallPCs, CallOK
  <2> HIDE DEF counted
  <2>3. CallsType'
    BY <2>2, CallType
  <2> QED
    BY <1>5, <2>3, Untouched DEF CountAllocated, TypeInv
<1>6. CASE SetGauge(h)
  <2>1. call[h].counted \in Nat /\ call[h].reply \in CallPCs
    BY <1>0 DEF Call, CallPCs
  <2>2. CallsType'
    BY <1>0, <1>6, <2>1, GotoType DEF SetGauge, CallOK, Call
  <2>3. MemoryType'
    BY <1>6, <2>1 DEF SetGauge, TypeInv, MemoryType, AllocationStateType, KnownPartitions,
                      PartitionDevices
  <2> QED
    BY <1>6, <2>2, <2>3, Untouched DEF SetGauge, TypeInv
<1>7. CASE Reply(h)
  <2>1. c \in Claims /\ call[h].devices \in Seq(Devices)
    BY <1>0, <1>7 DEF Reply, Call
  <2>2. CallsType'
    BY <1>7, CallType, NewCallType DEF Reply, CallOK
  <2>3. ClaimsType'
    <3>1. /\ UNCHANGED <<api, listed>>
          /\ \/ /\ phase' = [phase EXCEPT ![c] = "prepared"]
                /\ answer' = [answer EXCEPT ![c] = call[h].devices]
                /\ call[h].pc = "prepared"
             \/ phase' = [phase EXCEPT ![c] = "none"] /\ answer' = [answer EXCEPT ![c] = <<>>]
             \/ UNCHANGED <<phase, answer>>
      BY <1>7 DEF Reply
    <3>2. <<>> \in Seq(Devices)
      OBVIOUS
    <3> QED
      BY <1>0, <2>1, <3>1, <3>2 DEF TypeInv, ClaimsType, CallOK
  <2> QED
    BY <1>7, <2>2, <2>3, Untouched DEF Reply, TypeInv
<1> QED
  BY <1>1, <1>2, <1>3, <1>4, <1>5, <1>6, <1>7 DEF HandlerStep

\* The scheduler, the kubelet and the container runtime.
LEMMA ClaimStepType ==
    ASSUME TypeInv, NEW c \in Claims,
           \/ Schedule(c) \/ Abandon(c) \/ Deallocate(c)
           \/ PodGone(c) \/ StartContainer(c) \/ ExitContainer(c)
    PROVE  TypeInv'
<1> USE DEF main, memory, resctrl, kubelet, bounds
<1>1. CASE Schedule(c)
  <2>1. PICK devices \in SUBSET Unallocated, others \in {<<>>, <<OtherDevice>>} :
            api' = [api EXCEPT ![c] = others \o SetToSeq(devices)]
    BY <1>1 DEF Schedule
  <2>2. devices \subseteq Devices
    BY <1>1 DEF Schedule, Unallocated, TypeInv, SliceType
  <2>3. SetToSeq(devices) \in Seq(Devices \cup {OtherDevice})
    <3>1. SetToSeq(devices) \in Seq(devices)
      BY <2>2, SetToSeqType
    <3> QED
      BY <2>2, <3>1
  <2>4. others \in Seq(Devices \cup {OtherDevice})
    <3>1. <<>> \in Seq(Devices \cup {OtherDevice}) /\ <<OtherDevice>> \in Seq(Devices \cup {OtherDevice})
      OBVIOUS
    <3> QED
      BY <3>1
  <2>5. others \o SetToSeq(devices) \in Results
    BY <2>3, <2>4 DEF Results
  <2>6. ClaimsType'
    BY <1>1, <2>1, <2>5 DEF Schedule, TypeInv, ClaimsType
  <2> QED
    BY <1>1, <2>6, Untouched DEF Schedule, TypeInv
<1>2. CASE Abandon(c) \/ Deallocate(c) \/ PodGone(c)
  <2>1. ClaimsType'
    BY <1>2 DEF Abandon, Deallocate, PodGone, TypeInv, ClaimsType
  <2> QED
    BY <1>2, <2>1, Untouched DEF Abandon, Deallocate, PodGone, TypeInv
<1>3. CASE StartContainer(c)
  <2>1. answer[c] \in Seq(Devices) /\ answer[c] # <<>>
    BY <1>3 DEF StartContainer, TypeInv, ClaimsType
  <2>2. Last(answer[c]) \in Devices
    BY <2>1 DEF Last
  <2>3. GroupOfDevice(Last(answer[c])) \in Groups
    <3>1. Devices = {"cache", "mba"} \X Groups
      BY BasicAssumption
    <3> QED
      BY <2>2, <3>1 DEF GroupOfDevice
  <2>4. ResctrlType'
    BY <1>3, <2>3, BasicAssumption DEF StartContainer, AssignPID, TypeInv, ResctrlType
  <2> QED
    BY <1>3, <2>4, Untouched DEF StartContainer, TypeInv
<1>4. CASE ExitContainer(c)
  <2>1. ResctrlType'
    BY <1>4, BasicAssumption DEF ExitContainer, TypeInv, ResctrlType
  <2> QED
    BY <1>4, <2>1, Untouched DEF ExitContainer, TypeInv
<1> QED
  BY <1>1, <1>2, <1>3, <1>4

\* Each step of the driver, of its environment or of a crash keeps the types.
LEMMA TypeStep ==
    ASSUME TypeInv, [Next]_vars
    PROVE  TypeInv'
<1> USE DEF main, memory, resctrl, kubelet, bounds
<1>1. CASE Stop
  <2>1. MainType' /\ MemoryType'
    BY <1>1 DEF Stop, TypeInv, MainType, MemoryType, AllocationStateType, KnownPartitions,
                PartitionDevices, StopPCs
  <2> QED
    BY <1>1, <2>1, Untouched DEF Stop, TypeInv
<1>2. CASE Crash
  <2>1. MainType'
    BY <1>2 DEF Crash, TypeInv, MainType
  <2> QED
    BY <1>2, <2>1, LostType, Untouched DEF Crash, TypeInv
<1>3. ASSUME NEW h \in Handlers, Timeout(h)
      PROVE  TypeInv'
  <2>1. call[h] \in Call /\ CallOK(call[h])
    BY DEF TypeInv, CallsType
  <2> DEFINE r == [call[h] EXCEPT !.live = FALSE]
  <2>2. r \in Call /\ CallOK(r) /\ call' = [call EXCEPT ![h] = r]
    BY <1>3, <2>1 DEF Timeout, Call, CallOK
  <2> HIDE DEF r
  <2>3. CallsType'
    BY <2>2, CallType
  <2> QED
    BY <1>3, <2>3, Untouched DEF Timeout, TypeInv
<1>4. ASSUME NEW h \in Handlers, NEW c \in Claims, CallPrepare(h, c)
      PROVE  TypeInv'
  <2>1. NewCall("get", c, "prepared") \in Call /\ CallOK(NewCall("get", c, "prepared"))
    BY NewCallType DEF CallPCs, CallOK, NewCall
  <2>2. CallsType'
    BY <1>4, <2>1, CallType DEF CallPrepare
  <2>3. ClaimsType'
    BY <1>4 DEF CallPrepare, TypeInv, ClaimsType
  <2> QED
    BY <1>4, <2>2, <2>3, Untouched DEF CallPrepare, TypeInv
<1>5. ASSUME NEW h \in Handlers, NEW c \in Claims, CallUnprepare(h, c)
      PROVE  TypeInv'
  <2>1. NewCall("take", c, "unprepared") \in Call /\ CallOK(NewCall("take", c, "unprepared"))
    BY NewCallType DEF CallPCs, CallOK, NewCall
  <2>2. CallsType'
    BY <1>5, <2>1, CallType DEF CallUnprepare
  <2> QED
    BY <1>5, <2>2, Untouched DEF CallUnprepare, TypeInv
<1>6. CASE UNCHANGED vars
  BY <1>6, Untouched DEF vars, TypeInv
<1> QED
  BY <1>1, <1>2, <1>3, <1>4, <1>5, <1>6, MainStepType, HandlerStepType, ClaimStepType DEF Next

\* A node on which no driver has run.
LEMMA InitType == Init => TypeInv
<1> SUFFICES ASSUME Init PROVE TypeInv
  OBVIOUS
<1>1. MainType
  <2>1. Configs \subseteq Seq(Partition) \ {<<>>}
    BY BasicAssumption, Zenon
  <2>2. perCache \in Seq(Partition) /\ perCache # <<>>
    BY <2>1 DEF Init
  <2>3. 1 \in DOMAIN perCache
    BY <2>2
  <2> QED
    BY <2>3 DEF Init, MainType
<1>2. ResctrlType
  BY DEF Init, ResctrlType
<1>3. MemoryType
  BY AllocationStateAssumption
     DEF Init, NewAllocationState, MemoryType, AllocationStateType, KnownPartitions
<1>4. CallsType
  BY NewCallType DEF Init, CallsType, CallOK
<1>5. SliceType
  BY DEF Init, SliceType
<1>6. ClaimsType
  <2>1. <<>> \in Seq(Devices)
    OBVIOUS
  <2> QED
    BY <2>1 DEF Init, NothingListed, ClaimsType
<1> QED
  BY <1>1, <1>2, <1>3, <1>4, <1>5, <1>6 DEF TypeInv

\* TypeInv is inductive as it stands.
LEMMA TypeInvariant == Spec => []TypeInv
BY InitType, TypeStep, PTL DEF Spec

\* Every variable has its type, and AllocationState an entry for exactly the
\* partitions of this run once it is made, whatever fails, times out or crashes.
THEOREM TypeCorrect == Spec => []TypeOK
<1>1. TypeInv => TypeOK
  BY DEF TypeInv, TypeOK, MainType, MemoryType, CallsType, SliceType, ClaimsType, KnownPartitions
<1> QED
  BY <1>1, TypeInvariant, PTL

-----------------------------------------------------------------------------
\* The layout in the kernel and in the CDI file.

\* What is not a step of the process leaves it where it is, and the groups, the
\* file and the slice with it.
LEMMA OthersLeaveNode ==
    ASSUME [Next]_vars
    PROVE  \/ MainStep \/ Stop \/ Crash
           \/ UNCHANGED <<main, groups, cdi, slice, stops>>
<1> USE DEF main, memory, resctrl, kubelet, bounds
<1>1. ASSUME NEW h \in Handlers, HandlerStep(h) \/ Timeout(h)
      PROVE  UNCHANGED <<main, groups, cdi, slice, stops>>
  BY <1>1 DEF HandlerStep, Timeout, GetClaim, AllocateResult, EndLoop, ReleaseClaim,
              CountAllocated, SetGauge, Reply
<1>2. ASSUME NEW h \in Handlers, NEW c \in Claims, CallPrepare(h, c) \/ CallUnprepare(h, c)
      PROVE  UNCHANGED <<main, groups, cdi, slice, stops>>
  BY <1>2 DEF CallPrepare, CallUnprepare
<1>3. ASSUME NEW c \in Claims,
             \/ Schedule(c) \/ Abandon(c) \/ Deallocate(c)
             \/ PodGone(c) \/ StartContainer(c) \/ ExitContainer(c)
      PROVE  UNCHANGED <<main, groups, cdi, slice, stops>>
  BY <1>3 DEF Schedule, Abandon, Deallocate, PodGone, StartContainer, ExitContainer
<1>4. CASE UNCHANGED vars
  BY <1>4 DEF vars
<1> QED
  BY <1>1, <1>2, <1>3, <1>4 DEF Next

\* No two partitions of a layout have the same group.
LEMMA OneGroupEach ==
    ASSUME MainType, NEW i \in DOMAIN perCache, NEW j \in DOMAIN perCache, i # j
    PROVE  perCache[i].group # perCache[j].group
BY BasicAssumption, Zenon DEF MainType

\* CreateGroup has written the partition's mask.
Made(i) == groups[perCache[i].group] = perCache[i].cbm

\* main goes on only when CreateGroup and WriteCDISpecs have succeeded.
KernelInv ==
    /\ pc \in {"mkdir", "schemata"} => \A i \in DOMAIN perCache : i < at => Made(i)
    /\ pc \in {"cdi", "list", "recover", "publish", "up"} => \A i \in DOMAIN perCache : Made(i)
    /\ pc \in {"list", "recover", "publish", "up"} => cdi = AllDevices

\* Each step of main finds what the steps before it have written.
LEMMA KernelStep ==
    ASSUME TypeInv, KernelInv, [Next]_vars
    PROVE  KernelInv'
<1> USE DEF main, memory, resctrl, kubelet, bounds
<1>0. MainType /\ ResctrlType /\ perCache \in Seq(Partition) /\ Len(perCache) \in Nat
      /\ DOMAIN perCache = 1 .. Len(perCache) /\ at \in DOMAIN perCache
  BY LayoutType DEF TypeInv, MainType
<1>1. CASE Start
  <2>1. \A i \in DOMAIN perCache' : i \in Nat \ {0}
    <3>1. perCache' \in Configs
      BY <1>0, <1>1 DEF Start, MainType
    <3>2. perCache' \in Seq(Partition)
      <4>1. Configs \subseteq Seq(Partition) \ {<<>>}
        BY BasicAssumption, Zenon
      <4> QED
        BY <3>1, <4>1
    <3> QED
      BY <3>2
  <2>2. \A i \in DOMAIN perCache' : ~ (i < 1)
    BY <2>1
  <2> QED
    BY <1>1, <2>2 DEF Start, KernelInv
<1>2. CASE CreateGroupDir
  <2>1. CASE Fatal
    BY <2>1 DEF Fatal, KernelInv
  <2>2. CASE Mkdir(perCache[at].group) /\ Proceed("schemata")
    <3>1. \A i \in DOMAIN perCache : i < at => Made(i)
      BY <1>2 DEF CreateGroupDir, KernelInv
    <3>2. \A i \in DOMAIN perCache : i < at => perCache[i].group # perCache[at].group
      BY <1>0, OneGroupEach
    <3>3. \A i \in DOMAIN perCache : i < at => groups'[perCache[i].group] = groups[perCache[i].group]
      BY <2>2, <3>2, <1>0 DEF Mkdir, ResctrlType
    <3> QED
      BY <2>2, <3>1, <3>3 DEF Proceed, KernelInv, Made
  <2> QED
    BY <1>2, <2>1, <2>2 DEF CreateGroupDir
<1>3. CASE WriteGroupSchemata
  <2>1. CASE Fatal
    BY <2>1 DEF Fatal, KernelInv
  <2>2. CASE WriteSchemata(perCache[at].group, perCache[at].cbm) /\ NextPartition("mkdir", "cdi")
    <3>1. \A i \in DOMAIN perCache : i < at => Made(i)
      BY <1>3 DEF WriteGroupSchemata, KernelInv
    <3>2. \A i \in DOMAIN perCache : i # at => perCache[i].group # perCache[at].group
      BY <1>0, OneGroupEach
    <3>3. perCache[at].group \in Groups
      BY LayoutType DEF TypeInv, Partition
    <3>4. \A i \in DOMAIN perCache : i <= at => Made(i)'
      <4>1. groups' = [groups EXCEPT ![perCache[at].group] = perCache[at].cbm]
        BY <2>2 DEF WriteSchemata
      <4>2. UNCHANGED perCache
        BY <2>2 DEF NextPartition
      <4>3. ASSUME NEW i \in DOMAIN perCache, i = at
            PROVE  Made(i)'
        BY <1>0, <3>3, <4>1, <4>2, <4>3 DEF Made, ResctrlType
      <4>4. ASSUME NEW i \in DOMAIN perCache, i < at
            PROVE  Made(i)'
        BY <1>0, <3>1, <3>2, <4>1, <4>2, <4>4 DEF Made, ResctrlType
      <4> QED
        BY <1>0, <4>3, <4>4
    <3>5. CASE at < Len(perCache)
      <4>1. pc' = "mkdir" /\ at' = at + 1 /\ UNCHANGED perCache
        BY <2>2, <3>5 DEF NextPartition
      <4> QED
        BY <1>0, <3>4, <4>1 DEF KernelInv
    <3>6. CASE ~ (at < Len(perCache))
      <4>1. pc' = "cdi" /\ UNCHANGED perCache
        BY <2>2, <3>6 DEF NextPartition
      <4> QED
        BY <1>0, <3>4, <3>6, <4>1 DEF KernelInv
    <3> QED
      BY <3>5, <3>6
  <2> QED
    BY <1>3, <2>1, <2>2 DEF WriteGroupSchemata
<1>4. CASE WriteCDISpecs
  BY <1>4 DEF WriteCDISpecs, Fatal, KernelInv, Made, AllDevices, PartitionDevices
<1>5. CASE ListClaims \/ EndRecovery \/ Publish
  BY <1>5 DEF ListClaims, EndRecovery, Publish, Fatal, Proceed, KernelInv, Made, AllDevices,
              PartitionDevices
<1>6. CASE DeleteSlice \/ CleanupCDISpecs \/ Stop \/ Crash
  BY <1>6 DEF DeleteSlice, CleanupCDISpecs, Stop, Crash, Proceed, KernelInv
<1>7. CASE DeleteNextGroup
  BY <1>7 DEF DeleteNextGroup, NextPartition, Exit, KernelInv
<1>8. ASSUME NEW c \in Claims, RecoverClaim(c)
      PROVE  KernelInv'
  BY <1>8 DEF RecoverClaim, KernelInv, Made, AllDevices, PartitionDevices
<1>9. CASE UNCHANGED <<main, groups, cdi, slice, stops>>
  BY <1>9 DEF KernelInv, Made, AllDevices, PartitionDevices
<1> QED
  BY <1>1, <1>2, <1>3, <1>4, <1>5, <1>6, <1>7, <1>8, <1>9, OthersLeaveNode DEF MainStep

\* What main has passed is done, however often it was started.
LEMMA KernelInvariant == Spec => []KernelInv
<1>1. Init => KernelInv
  BY DEF Init, KernelInv
<1>2. TypeInv /\ KernelInv /\ [Next]_vars => KernelInv'
  BY KernelStep
<1> QED
  BY <1>1, <1>2, TypeInvariant, PTL DEF Spec

-----------------------------------------------------------------------------
\* What was answered is of the layout, as long as the flags are the same.

SameLayout == \A f1, f2 \in Configs : f1 = f2

AnswersInv ==
    /\ \A h \in Handlers : Range(call[h].devices) \subseteq PartitionDevices
    /\ \A c \in Claims : phase[c] = "prepared" => Range(answer[c]) \subseteq PartitionDevices

\* A device that Allocate accepts is of the layout, and the layout stays.
LEMMA AnswersStep ==
    ASSUME SameLayout, TypeInv, TypeInv', AnswersInv, [Next]_vars
    PROVE  AnswersInv'
<1> USE DEF main, memory, resctrl, kubelet, bounds
<1>0. PartitionDevices' = PartitionDevices
  BY DEF TypeInv, MainType, SameLayout, PartitionDevices
<1>1. CASE LoseMemory /\ UNCHANGED kubelet
  <2>1. Range(IdleCall.devices) = {}
    BY DEF IdleCall, NewCall, Range
  <2> QED
    BY <1>0, <1>1, <2>1 DEF LoseMemory, AnswersInv
<1>2. CASE UNCHANGED <<call, kubelet>>
  BY <1>0, <1>2 DEF AnswersInv
<1>3. ASSUME NEW h \in Handlers, HandlerStep(h)
      PROVE  AnswersInv'
  <2> DEFINE c == call[h].claim
  <2>0. call[h] \in Call /\ CallOK(call[h]) /\ call \in [Handlers -> Call]
    BY DEF TypeInv, CallsType
  <2>1. CASE AllocateResult(h)
    <3> DEFINE d == Head(call[h].todo)
    <3>1. CASE d # OtherDevice /\ CanAllocate(d, c)
      <4>1. c \in Claims /\ d \in Devices
        <5>1. call[h].todo \in Seq(Devices \cup {OtherDevice}) /\ call[h].todo # <<>>
          BY <2>0, <2>1 DEF AllocateResult, Call
        <5> QED
          BY <2>0, <2>1, <3>1, <5>1 DEF AllocateResult, CallOK
      <4>2. d \in PartitionDevices
        BY <3>1, <4>1, AllocationStateAssumption
           DEF CanAllocate, TypeInv, MemoryType, KnownPartitions
      <4>3. call' = [call EXCEPT ![h] = [[call[h] EXCEPT !.todo = Tail(@)]
                                            EXCEPT !.devices = Append(@, d)]]
        BY <2>1, <3>1 DEF AllocateResult
      <4>4. call'[h].devices = Append(call[h].devices, d)
        BY <2>0, <4>3 DEF Call
      <4>5. Range(Append(call[h].devices, d)) \subseteq Range(call[h].devices) \cup {d}
        BY <2>0 DEF Call, Range
      <4>6. \A k \in Handlers : Range(call'[k].devices) \subseteq PartitionDevices
        BY <2>0, <4>2, <4>3, <4>4, <4>5 DEF AnswersInv
      <4> QED
        BY <1>0, <2>1, <4>6 DEF AllocateResult, AnswersInv
    <3>2. CASE ~ (d # OtherDevice /\ CanAllocate(d, c))
      <4>1. call' = [call EXCEPT ![h] = [call[h] EXCEPT !.todo = Tail(@)]]
        BY <2>1, <3>2 DEF AllocateResult
      <4>2. [call[h] EXCEPT !.todo = Tail(@)].devices = call[h].devices
        BY <2>0 DEF Call
      <4>3. \A k \in Handlers : call'[k].devices = call[k].devices
        BY <2>0, <4>1, <4>2
      <4> QED
        BY <1>0, <2>1, <4>3 DEF AllocateResult, AnswersInv
    <3> QED
      BY <3>1, <3>2
  <2>2. CASE Reply(h)
    <3>1. Range(IdleCall.devices) = {}
      BY DEF IdleCall, NewCall, Range
    <3>2. \A k \in Handlers : Range(call'[k].devices) \subseteq PartitionDevices
      BY <2>0, <2>2, <3>1 DEF Reply, AnswersInv
    <3>3. \A x \in Claims : phase'[x] = "prepared" => Range(answer'[x]) \subseteq PartitionDevices
      <4>1. \/ /\ phase' = [phase EXCEPT ![c] = "prepared"]
               /\ answer' = [answer EXCEPT ![c] = call[h].devices]
            \/ /\ phase' = [phase EXCEPT ![c] = "none"]
               /\ answer' = [answer EXCEPT ![c] = <<>>]
            \/ UNCHANGED <<phase, answer>>
        BY <2>2 DEF Reply
      <4> QED
        BY <4>1 DEF AnswersInv, TypeInv, ClaimsType
    <3> QED
      BY <1>0, <3>2, <3>3 DEF AnswersInv
  <2>3. CASE GetClaim(h) \/ EndLoop(h) \/ ReleaseClaim(h) \/ CountAllocated(h) \/ SetGauge(h)
    <3>1. /\ call'[h].devices = call[h].devices
          /\ \A k \in Handlers \ {h} : call'[k] = call[k]
      <4>1. CASE GetClaim(h)
        BY <2>0, <4>1 DEF GetClaim, Goto, Call
      <4>2. CASE EndLoop(h) \/ ReleaseClaim(h) \/ SetGauge(h)
        BY <2>0, <4>2 DEF EndLoop, ReleaseClaim, SetGauge, Goto, Call
      <4>3. CASE CountAllocated(h)
        BY <2>0, <4>3 DEF CountAllocated, Call
      <4> QED
        BY <2>3, <4>1, <4>2, <4>3
    <3>2. UNCHANGED <<phase, answer>>
      BY <2>3 DEF GetClaim, EndLoop, ReleaseClaim, CountAllocated, SetGauge
    <3> QED
      BY <1>0, <3>1, <3>2 DEF AnswersInv
  <2> QED
    BY <1>3, <2>1, <2>2, <2>3 DEF HandlerStep
<1>4. ASSUME NEW h \in Handlers, Timeout(h)
      PROVE  AnswersInv'
  <2>1. \A k \in Handlers : call'[k].devices = call[k].devices
    BY <1>4 DEF Timeout, TypeInv, CallsType, Call
  <2> QED
    BY <1>0, <1>4, <2>1 DEF Timeout, AnswersInv
<1>5. ASSUME NEW h \in Handlers, NEW c \in Claims, CallPrepare(h, c) \/ CallUnprepare(h, c)
      PROVE  AnswersInv'
  <2>1. \A p \in CallPCs, reply \in {"prepared", "unprepared"} :
            Range(NewCall(p, c, reply).devices) = {}
    BY DEF NewCall, Range
  <2>2. \A k \in Handlers : Range(call'[k].devices) \subseteq PartitionDevices
    BY <1>5, <2>1 DEF CallPrepare, CallUnprepare, AnswersInv, TypeInv, CallsType, CallPCs
  <2> QED
    BY <1>0, <1>5, <2>2 DEF CallPrepare, CallUnprepare, AnswersInv, TypeInv, ClaimsType
<1>6. ASSUME NEW c \in Claims,
             \/ Schedule(c) \/ Abandon(c) \/ Deallocate(c)
             \/ PodGone(c) \/ StartContainer(c) \/ ExitContainer(c)
      PROVE  AnswersInv'
  BY <1>0, <1>6 DEF Schedule, Abandon, Deallocate, PodGone, StartContainer, ExitContainer,
                    AnswersInv, TypeInv, ClaimsType
<1>7. CASE MainStep
  <2>1. (LoseMemory /\ UNCHANGED kubelet) \/ UNCHANGED <<call, kubelet>>
    BY <1>7 DEF MainStep, Start, CreateGroupDir, WriteGroupSchemata, WriteCDISpecs, ListClaims,
                EndRecovery, Publish, DeleteSlice, CleanupCDISpecs, DeleteNextGroup, RecoverClaim,
                Fatal, Exit, Proceed, NextPartition
  <2> QED
    BY <1>1, <1>2, <2>1
<1>8. CASE Stop \/ Crash
  BY <1>1, <1>2, <1>8 DEF Stop, Crash
<1> QED
  BY <1>2, <1>3, <1>4, <1>5, <1>6, <1>7, <1>8 DEF Next, vars

\* What calls have allocated and claims were answered is of the layout.
LEMMA AnswersInvariant == SameLayout => (Spec => []AnswersInv)
<1> SUFFICES ASSUME SameLayout PROVE Spec => []AnswersInv
  OBVIOUS
<1>1. Init => AnswersInv
  <2>1. Range(IdleCall.devices) = {}
    BY DEF IdleCall, NewCall, Range
  <2> QED
    BY <2>1 DEF Init, AnswersInv
<1>2. TypeInv /\ TypeInv' /\ AnswersInv /\ [Next]_vars => AnswersInv'
  BY AnswersStep
<1> QED
  BY <1>1, <1>2, TypeInvariant, PTL DEF Spec

\* A prepared claim has what it was promised whenever the driver serves: each
\* device answered is in the CDI file, and its group is in the kernel with the
\* mask it was published with, however startups failed, for any number of
\* crashes and stops, if the flags stay the same.
THEOREM PreparedEnforcedHolds == SameLayout => (Spec => []PreparedEnforced)
<1> SUFFICES ASSUME SameLayout PROVE Spec => []PreparedEnforced
  OBVIOUS
<1>1. TypeInv /\ KernelInv /\ AnswersInv => PreparedEnforced
  <2> SUFFICES ASSUME TypeInv, KernelInv, AnswersInv, pc = "up",
                      NEW c \in Claims, phase[c] = "prepared", NEW i \in DOMAIN answer[c]
               PROVE  /\ cdi # NoSpec /\ answer[c][i] \in cdi
                      /\ \E p \in Range(perCache) :
                            /\ p.group = GroupOfDevice(answer[c][i])
                            /\ groups[p.group] = p.cbm
    BY DEF PreparedEnforced
  <2>1. answer[c][i] \in PartitionDevices
    BY DEF AnswersInv, Range
  <2>2. PICK j \in DOMAIN perCache : answer[c][i] = Device("cache", perCache[j].group)
    BY <2>1 DEF PartitionDevices
  <2>3. perCache[j] \in Range(perCache) /\ perCache[j].group = GroupOfDevice(answer[c][i])
    BY <2>2 DEF Range, Device, GroupOfDevice
  <2>4. groups[perCache[j].group] = perCache[j].cbm
    BY DEF KernelInv, Made
  <2>5. answer[c][i] \in cdi
    BY <2>1 DEF KernelInv, AllDevices
  <2>6. cdi # NoSpec
    <3>1. cdi = AllDevices
      BY DEF KernelInv
    <3>2. AllDevices \in SUBSET Devices
      BY LayoutType DEF TypeInv
    <3>3. \A devices \in SUBSET Devices : devices # NoSpec
      BY BasicAssumption
    <3> QED
      BY <3>1, <3>2, <3>3
  <2> QED
    BY <2>3, <2>4, <2>5, <2>6
<1> QED
  BY <1>1, TypeInvariant, KernelInvariant, AnswersInvariant, PTL

-----------------------------------------------------------------------------
\* No groups but those of the layout, as long as groups can be removed and a
\* run that has crashed is followed by one with the same flags.

LayoutKept == "delete" \notin MayFail /\ ~ CrashedReconfigure

\* The partition of the layout that a group was made for.
Of(g, i) ==
    /\ perCache[i].group = g
    /\ groups[g] \in {{}, perCache[i].cbm}

LayoutInv ==
    /\ \A g \in Groups : Exists(g) => \E i \in DOMAIN perCache : Of(g, i)
    /\ pc = "stopped" => \A g \in Groups : ~ Exists(g)
    /\ pc \in {"stopping", "uncdi", "up", "publish", "recover", "list", "cdi"} => at = 1
    /\ pc = "delete" => \A i \in DOMAIN perCache : i < at => ~ Exists(perCache[i].group)

\* Groups are made of the layout only, and removed before it may change.
LEMMA LayoutStep ==
    ASSUME LayoutKept, TypeInv, LayoutInv, [Next]_vars
    PROVE  LayoutInv'
<1> USE DEF main, memory, resctrl, kubelet, bounds
<1>0. MainType /\ ResctrlType /\ perCache \in Seq(Partition) /\ Len(perCache) \in Nat
      /\ DOMAIN perCache = 1 .. Len(perCache) /\ at \in DOMAIN perCache
      /\ perCache[at].group \in Groups /\ perCache[at].cbm \in CBM
  BY LayoutType DEF TypeInv, MainType, Partition
<1>1. CASE Start
  <2>1. CASE pc = "stopped"
    BY <1>1, <2>1 DEF Start, LayoutInv, Exists
  <2>2. CASE pc # "stopped"
    <3>1. UNCHANGED <<perCache, groups>> /\ pc' = "mkdir"
      BY <1>1, <2>2 DEF Start, LayoutKept
    <3> QED
      BY <3>1 DEF LayoutInv, Exists, Of
  <2> QED
    BY <2>1, <2>2
<1>2. ASSUME UNCHANGED <<perCache, groups>>, pc' \notin {"stopped", "delete"},
             pc' \in {"stopping", "uncdi", "up", "publish", "recover", "list", "cdi"} => at' = 1
      PROVE  LayoutInv'
  BY <1>2 DEF LayoutInv, Exists, Of
<1>3. CASE CreateGroupDir
  <2>1. CASE Fatal /\ UNCHANGED groups
    BY <1>2, <2>1 DEF Fatal
  <2>2. CASE Mkdir(perCache[at].group) /\ Proceed("schemata")
    <3>1. ASSUME NEW g \in Groups, Exists(g)'
          PROVE  \E i \in DOMAIN perCache : Of(g, i)'
      <4>1. CASE Exists(g)
        <5>1. groups'[g] = groups[g]
          BY <1>0, <2>2, <4>1 DEF Mkdir, ResctrlType, Exists
        <5> QED
          BY <2>2, <4>1, <5>1 DEF LayoutInv, Of, Proceed
      <4>2. CASE ~ Exists(g)
        <5>1. g = perCache[at].group /\ groups'[g] = {}
          BY <1>0, <2>2, <3>1, <4>2 DEF Mkdir, ResctrlType, Exists
        <5> QED
          BY <1>0, <2>2, <5>1 DEF Of, Proceed
      <4> QED
        BY <4>1, <4>2
    <3> QED
      BY <2>2, <3>1 DEF Proceed, LayoutInv
  <2> QED
    BY <1>3, <2>1, <2>2 DEF CreateGroupDir
<1>4. CASE WriteGroupSchemata
  <2>1. CASE Fatal /\ RemoveIfEmpty(perCache[at].group)
    <3>1. \A g \in Groups : groups'[g] \in {NoGroup, groups[g]}
      BY <1>0, <2>1 DEF RemoveIfEmpty, ResctrlType
    <3> QED
      BY <2>1, <3>1 DEF Fatal, LayoutInv, Exists, Of
  <2>2. CASE WriteSchemata(perCache[at].group, perCache[at].cbm) /\ NextPartition("mkdir", "cdi")
    <3>0. UNCHANGED perCache /\ pc' \in {"mkdir", "cdi"} /\ (pc' = "cdi" => at' = 1)
      BY <2>2 DEF NextPartition
    <3>1. ASSUME NEW g \in Groups, Exists(g)'
          PROVE  \E i \in DOMAIN perCache : Of(g, i)'
      <4>1. CASE g = perCache[at].group
        <5>1. groups'[g] = perCache[at].cbm
          BY <1>0, <2>2, <4>1 DEF WriteSchemata, ResctrlType
        <5> QED
          BY <1>0, <3>0, <4>1, <5>1 DEF Of
      <4>2. CASE g # perCache[at].group
        <5>1. groups'[g] = groups[g]
          BY <1>0, <2>2, <4>2 DEF WriteSchemata, ResctrlType
        <5> QED
          BY <3>0, <3>1, <5>1 DEF LayoutInv, Of, Exists
      <4> QED
        BY <4>1, <4>2
    <3> QED
      BY <3>0, <3>1 DEF LayoutInv
  <2> QED
    BY <1>4, <2>1, <2>2 DEF WriteGroupSchemata
<1>5. CASE WriteCDISpecs
  BY <1>2, <1>5 DEF WriteCDISpecs, Fatal, LayoutInv
<1>6. CASE ListClaims \/ EndRecovery \/ Publish \/ Stop \/ Crash
  BY <1>2, <1>6 DEF ListClaims, EndRecovery, Publish, Stop, Crash, Fatal, Proceed, LayoutInv
<1>7. CASE DeleteSlice
  BY <1>2, <1>7 DEF DeleteSlice, Proceed, LayoutInv
<1>8. CASE CleanupCDISpecs
  <2>1. UNCHANGED <<perCache, groups, at>> /\ pc' = "delete" /\ at = 1
    BY <1>8 DEF CleanupCDISpecs, Proceed, LayoutInv
  <2>2. \A i \in DOMAIN perCache : ~ (i < at)
    BY <1>0, <2>1
  <2> QED
    BY <2>1, <2>2 DEF LayoutInv, Exists, Of
<1>9. CASE DeleteNextGroup
  <2>1. groups' = [groups EXCEPT ![perCache[at].group] = NoGroup]
    BY <1>9 DEF DeleteNextGroup, DeleteGroup, LayoutKept
  <2>2. UNCHANGED perCache
    BY <1>9 DEF DeleteNextGroup, NextPartition, Exit
  <2>3. \A g \in Groups : Exists(g)' => Exists(g) /\ groups'[g] = groups[g]
    BY <1>0, <2>1 DEF Exists, ResctrlType
  <2>4. \A i \in DOMAIN perCache : perCache[i].group \in Groups
    <3>1. \A i \in DOMAIN perCache : perCache[i] \in Partition
      BY <1>0
    <3> QED
      BY <3>1 DEF Partition
  <2>5. \A i \in DOMAIN perCache : i <= at => groups'[perCache[i].group] = NoGroup
    <3>1. groups'[perCache[at].group] = NoGroup
      BY <1>0, <2>1 DEF ResctrlType
    <3>2. ASSUME NEW i \in DOMAIN perCache, i < at
          PROVE  groups'[perCache[i].group] = NoGroup
      <4>1. groups[perCache[i].group] = NoGroup
        BY <1>9, <3>2 DEF DeleteNextGroup, LayoutInv, Exists
      <4> QED
        BY <1>0, <2>1, <2>4, <4>1 DEF ResctrlType
    <3> QED
      BY <1>0, <3>1, <3>2
  <2>6. CASE at < Len(perCache)
    <3>1. pc' = "delete" /\ at' = at + 1
      BY <1>9, <2>6 DEF DeleteNextGroup, NextPartition
    <3> QED
      BY <1>0, <2>2, <2>3, <2>5, <3>1 DEF LayoutInv, Of, Exists
  <2>7. CASE ~ (at < Len(perCache))
    <3>1. pc' = "stopped" /\ at' = 1
      BY <1>9, <2>7 DEF DeleteNextGroup, Exit
    <3>2. \A g \in Groups : ~ Exists(g)'
      BY <1>0, <2>2, <2>3, <2>5, <2>7 DEF LayoutInv, Of, Exists
    <3> QED
      BY <3>1, <3>2 DEF LayoutInv
  <2> QED
    BY <2>6, <2>7
<1>10. ASSUME NEW c \in Claims, RecoverClaim(c)
       PROVE  LayoutInv'
  BY <1>2, <1>10 DEF RecoverClaim, LayoutInv
<1>11. CASE UNCHANGED <<main, groups, cdi, slice, stops>>
  BY <1>11 DEF LayoutInv, Exists, Of
<1> QED
  BY <1>1, <1>3, <1>4, <1>5, <1>6, <1>7, <1>8, <1>9, <1>10, <1>11, OthersLeaveNode DEF MainStep

\* The groups of the kernel are those of the layout that was read last.
LEMMA LayoutInvariant == LayoutKept => (Spec => []LayoutInv)
<1> SUFFICES ASSUME LayoutKept PROVE Spec => []LayoutInv
  OBVIOUS
<1>1. Init => LayoutInv
  BY DEF Init, LayoutInv, Exists
<1>2. TypeInv /\ LayoutInv /\ [Next]_vars => LayoutInv'
  BY LayoutStep
<1> QED
  BY <1>1, <1>2, TypeInvariant, PTL DEF Spec

\* The groups in the kernel are those of the layout, each with its mask, and no
\* others, whenever the driver serves: a run that ends well removes all of its
\* own, and one that crashes leaves only those that the next one makes.
THEOREM LayoutInForceHolds == LayoutKept => (Spec => []LayoutInForce)
<1> SUFFICES ASSUME LayoutKept PROVE Spec => []LayoutInForce
  OBVIOUS
<1>1. TypeInv /\ KernelInv /\ LayoutInv => LayoutInForce
  <2> SUFFICES ASSUME TypeInv, KernelInv, LayoutInv, pc = "up", NEW g \in Groups
               PROVE  IF \E p \in Range(perCache) : p.group = g
                      THEN [group |-> g, cbm |-> groups[g]] \in Range(perCache)
                      ELSE ~ Exists(g)
    BY DEF LayoutInForce
  <2>1. ASSUME NEW i \in DOMAIN perCache, perCache[i].group = g
        PROVE  [group |-> g, cbm |-> groups[g]] \in Range(perCache)
    <3>1. perCache[i] \in Partition /\ groups[g] = perCache[i].cbm
      BY <2>1, LayoutType DEF TypeInv, KernelInv, Made
    <3>2. perCache[i] = [group |-> g, cbm |-> groups[g]]
      BY <2>1, <3>1 DEF Partition
    <3> QED
      BY <3>2 DEF Range
  <2>2. CASE \E p \in Range(perCache) : p.group = g
    BY <2>1, <2>2 DEF Range
  <2>3. CASE ~ \E p \in Range(perCache) : p.group = g
    BY <2>3 DEF LayoutInv, Of, Range
  <2> QED
    BY <2>2, <2>3
<1> QED
  BY <1>1, TypeInvariant, KernelInvariant, LayoutInvariant, PTL

-----------------------------------------------------------------------------
\* Running containers, as long as the driver is not stopped in order.

NoStop ==
    /\ stops \in Nat
    /\ pc \notin StopPCs

\* Without a stop the loop that removes the groups never runs.
LEMMA NoStopInvariant == MaxStops = 0 => (Spec => []NoStop)
<1> SUFFICES ASSUME MaxStops = 0 PROVE Spec => []NoStop
  OBVIOUS
<1> USE DEF main, memory, resctrl, kubelet, bounds
<1>1. Init => NoStop
  BY DEF Init, NoStop, StopPCs
<1>2. NoStop /\ [Next]_vars => NoStop'
  <2> SUFFICES ASSUME NoStop, [Next]_vars PROVE NoStop'
    OBVIOUS
  <2>1. CASE Stop
    BY <2>1 DEF Stop, NoStop
  <2>2. CASE MainStep \/ Crash
    BY <2>2 DEF MainStep, Start, CreateGroupDir, WriteGroupSchemata, WriteCDISpecs, ListClaims,
                EndRecovery, Publish, DeleteSlice, CleanupCDISpecs, DeleteNextGroup, RecoverClaim,
                Fatal, Exit, Proceed, NextPartition, Crash, NoStop, StopPCs
  <2>3. CASE UNCHANGED <<main, groups, cdi, slice, stops>>
    BY <2>3 DEF NoStop
  <2> QED
    BY <2>1, <2>2, <2>3, OthersLeaveNode
<1> QED
  BY <1>1, <1>2, PTL DEF Spec

Undisturbed(c) ==
    (task[c] \in Groups /\ Written(task[c]) /\ task'[c] # NoTask) =>
        /\ task'[c] = task[c]
        /\ groups'[task[c]] = groups[task[c]]

\* A step that writes a group that is there writes the mask it has.
LEMMA UndisturbedStep ==
    ASSUME TypeInv, LayoutInv, NoStop, [Next]_vars, NEW c \in Claims
    PROVE  Undisturbed(c)
<1> USE DEF main, memory, resctrl, kubelet, bounds
<1>0. MainType /\ ResctrlType /\ at \in DOMAIN perCache /\ perCache[at].group \in Groups
  BY LayoutType DEF TypeInv, MainType, Partition
<1>1. CASE UNCHANGED <<groups, task>>
  BY <1>1 DEF Undisturbed
<1>2. CASE CreateGroupDir
  <2>1. groups' = groups \/ Mkdir(perCache[at].group)
    BY <1>2 DEF CreateGroupDir
  <2>2. \A g \in Groups : Exists(g) => groups'[g] = groups[g]
    BY <1>0, <2>1 DEF Mkdir, Exists, ResctrlType
  <2> QED
    BY <1>2, <2>2 DEF CreateGroupDir, Undisturbed, Written
<1>3. CASE WriteGroupSchemata
  <2> DEFINE p == perCache[at]
  <2>1. task' = task
    BY <1>3 DEF WriteGroupSchemata
  <2>2. CASE WriteSchemata(p.group, p.cbm)
    <3>1. CASE Written(p.group)
      <4>1. PICK i \in DOMAIN perCache : Of(p.group, i)
        BY <1>0, <3>1 DEF LayoutInv, Written
      <4>2. i = at
        BY <1>0, <4>1, OneGroupEach DEF Of
      <4>3. groups[p.group] = p.cbm
        BY <3>1, <4>1, <4>2 DEF Of, Written
      <4>4. groups' = groups
        BY <1>0, <2>2, <4>3 DEF WriteSchemata, ResctrlType
      <4> QED
        BY <1>1, <2>1, <4>4
    <3>2. CASE ~ Written(p.group)
      BY <1>0, <2>1, <2>2, <3>2 DEF WriteSchemata, Undisturbed, ResctrlType
    <3> QED
      BY <3>1, <3>2
  <2>3. CASE RemoveIfEmpty(p.group)
    <3>1. CASE TasksIn(p.group) = {}
      <4>1. task[c] # p.group
        BY <3>1, BasicAssumption DEF TasksIn
      <4> QED
        BY <1>0, <2>1, <2>3, <4>1 DEF RemoveIfEmpty, Undisturbed, ResctrlType
    <3>2. CASE TasksIn(p.group) # {}
      BY <1>1, <2>1, <2>3, <3>2 DEF RemoveIfEmpty
    <3> QED
      BY <3>1, <3>2
  <2> QED
    BY <1>3, <2>2, <2>3 DEF WriteGroupSchemata
<1>4. CASE DeleteNextGroup
  BY <1>4 DEF DeleteNextGroup, NoStop, StopPCs
<1>5. CASE \/ Start \/ WriteCDISpecs \/ ListClaims \/ EndRecovery \/ Publish
           \/ DeleteSlice \/ CleanupCDISpecs \/ Stop \/ Crash
           \/ \E x \in Claims : RecoverClaim(x)
  BY <1>1, <1>5 DEF Start, WriteCDISpecs, ListClaims, EndRecovery, Publish, DeleteSlice,
                    CleanupCDISpecs, Stop, Crash, RecoverClaim
<1>6. ASSUME NEW h \in Handlers, HandlerStep(h) \/ Timeout(h)
      PROVE  Undisturbed(c)
  BY <1>1, <1>6 DEF HandlerStep, Timeout, GetClaim, AllocateResult, EndLoop, ReleaseClaim,
                    CountAllocated, SetGauge, Reply
<1>7. ASSUME NEW h \in Handlers, NEW x \in Claims, CallPrepare(h, x) \/ CallUnprepare(h, x)
      PROVE  Undisturbed(c)
  BY <1>1, <1>7 DEF CallPrepare, CallUnprepare
<1>8. ASSUME NEW x \in Claims, Schedule(x) \/ Abandon(x) \/ Deallocate(x) \/ PodGone(x)
      PROVE  Undisturbed(c)
  BY <1>1, <1>8 DEF Schedule, Abandon, Deallocate, PodGone
<1>9. ASSUME NEW x \in Claims, StartContainer(x) \/ ExitContainer(x)
      PROVE  Undisturbed(c)
  <2>1. groups' = groups /\ (x = c \/ task'[c] = task[c])
    BY <1>9, BasicAssumption DEF StartContainer, ExitContainer, AssignPID, TypeInv, ResctrlType
  <2>2. x = c => task[c] = NoTask \/ task'[c] = NoTask
    BY <1>9, BasicAssumption DEF StartContainer, ExitContainer, TypeInv, ResctrlType
  <2> QED
    BY <2>1, <2>2, ResctrlAssumption DEF Undisturbed
<1>10. CASE UNCHANGED vars
  BY <1>1, <1>10 DEF vars
<1> QED
  BY <1>2, <1>3, <1>4, <1>5, <1>6, <1>7, <1>8, <1>9, <1>10 DEF Next, MainStep

\* No container that has the ways of its partition is taken out of its group,
\* and the group keeps its mask, over any number of crashes, fatal errors and
\* startups that fail halfway, as long as the driver is not stopped in order.
THEOREM RunningUndisturbedHolds ==
    LayoutKept /\ MaxStops = 0 => (Spec => RunningUndisturbed)
<1> SUFFICES ASSUME LayoutKept, MaxStops = 0 PROVE Spec => RunningUndisturbed
  OBVIOUS
<1>1. TypeInv /\ LayoutInv /\ NoStop /\ [Next]_vars => \A c \in Claims : Undisturbed(c)
  BY UndisturbedStep
<1>2. (\A c \in Claims : Undisturbed(c)) =>
          [\A c \in Claims :
              (task[c] \in Groups /\ Written(task[c]) /\ task'[c] # NoTask) =>
                  /\ task'[c] = task[c]
                  /\ groups'[task[c]] = groups[task[c]]]_vars
  BY DEF Undisturbed
<1> QED
  BY <1>1, <1>2, TypeInvariant, LayoutInvariant, NoStopInvariant, PTL DEF Spec, RunningUndisturbed

-----------------------------------------------------------------------------
\* Refinement

Held == [g \in Groups |-> IF Exists(g) THEN groups[g] ELSE {}]

\* No group exists at first: no partition holds a way.
LEMMA RefinedInit == Init => Partitions!Init
BY DEF Init, Exists, Partitions!Init

\* A schemata write is a Grant, a removal a Drop, and nothing else is seen.
LEMMA RefinedStep ==
    ASSUME TypeInv, LayoutInv, [Next]_vars
    PROVE  Partitions!Next \/ Held' = Held
<1> USE DEF main, memory, resctrl, kubelet, bounds
<1> DEFINE p == perCache[at]
<1>0. /\ MainType /\ ResctrlType /\ at \in DOMAIN perCache
      /\ p.group \in Groups /\ p.cbm \in CBM
  BY LayoutType DEF TypeInv, MainType, Partition
<1>1. CASE groups' = groups
  BY <1>1 DEF Held, Exists
<1>2. ASSUME groups' = [groups EXCEPT ![p.group] = NoGroup]
      PROVE  Partitions!Next
  <2>1. Held' = [Held EXCEPT ![p.group] = {}]
    BY <1>0, <1>2 DEF Held, Exists, ResctrlType
  <2> QED
    BY <1>0, <2>1 DEF Held, Partitions!Next, Partitions!Drop
<1>3. CASE CreateGroupDir
  BY <1>0, <1>3, ResctrlAssumption DEF CreateGroupDir, Mkdir, Held, Exists, CBM, ResctrlType
<1>4. CASE WriteGroupSchemata
  <2>1. CASE WriteSchemata(p.group, p.cbm)
    <3>1. Held' = [Held EXCEPT ![p.group] = p.cbm]
      BY <1>0, <2>1, ResctrlAssumption DEF WriteSchemata, Held, Exists, ResctrlType
    <3>2. Contiguous(p.cbm)
      BY <1>0, BasicAssumption, Zenon DEF MainType
    <3>3. \A i \in DOMAIN perCache :
            (i # at /\ DomainOf[perCache[i].group] = DomainOf[p.group]) => perCache[i].cbm \cap p.cbm = {}
      BY <1>0, BasicAssumption, Zenon DEF MainType
    <3>4. ASSUME NEW g \in Groups \ {p.group}, DomainOf[g] = DomainOf[p.group]
          PROVE  Held[g] \cap p.cbm = {}
      <4>1. CASE Exists(g)
        <5>1. PICK i \in DOMAIN perCache : Of(g, i)
          BY <4>1 DEF LayoutInv
        <5> QED
          BY <3>3, <3>4, <4>1, <5>1 DEF Of, Held
      <4>2. CASE ~ Exists(g)
        BY <4>2 DEF Held
      <4> QED
        BY <4>1, <4>2
    <3> HIDE DEF p
    <3> QED
      BY <1>0, <3>1, <3>2, <3>4
      DEF Held, Partitions!Next, Partitions!Grant, Partitions!Others, Partitions!Contiguous,
          Partitions!CBM, Partitions!Ways, Contiguous, CBM, Ways
  <2>2. CASE RemoveIfEmpty(p.group)
    BY <1>1, <1>2, <2>2 DEF RemoveIfEmpty
  <2> QED
    BY <1>4, <2>1, <2>2 DEF WriteGroupSchemata
<1>5. CASE DeleteNextGroup
  BY <1>1, <1>2, <1>5 DEF DeleteNextGroup, DeleteGroup
<1>6. CASE \/ Start \/ WriteCDISpecs \/ ListClaims \/ EndRecovery \/ Publish
           \/ DeleteSlice \/ CleanupCDISpecs \/ Stop \/ Crash
           \/ \E c \in Claims : RecoverClaim(c)
  BY <1>1, <1>6 DEF Start, WriteCDISpecs, ListClaims, EndRecovery, Publish, DeleteSlice,
                    CleanupCDISpecs, Stop, Crash, RecoverClaim
<1>7. CASE UNCHANGED <<main, groups, cdi, slice, stops>>
  BY <1>1, <1>7
<1> QED
  BY <1>3, <1>4, <1>5, <1>6, <1>7, OthersLeaveNode DEF MainStep

\* Basic mode implements CachePartitions: each mask that CreateGroup writes is a
\* run of ways that no other group of the domain has, in a startup over whatever
\* an earlier run has left.
THEOREM BasicRefinement == LayoutKept => (Spec => ImplementsPartitions)
<1> SUFFICES ASSUME LayoutKept PROVE Spec => ImplementsPartitions
  OBVIOUS
<1>1. TypeInv /\ LayoutInv /\ [Next]_vars => [Partitions!Next]_Held
  BY RefinedStep
<1> QED
  BY <1>1, RefinedInit, TypeInvariant, LayoutInvariant, PTL
     DEF Spec, ImplementsPartitions, Partitions!Spec, Held

-----------------------------------------------------------------------------
\* Who has a partition, as long as the kubelet waits for every answer: one call
\* at a time works for a claim, with results that are still the claim's.

Working(h) == call[h].pc # "idle"

\* A claim has one call, of the kind that its phase is for.
SerialInv ==
    /\ \A h \in Handlers : Working(h) =>
          /\ call[h].live
          /\ pc \in {"up", "stopping"}
          /\ phase[call[h].claim] = IF call[h].reply = "prepared" THEN "wanted" ELSE "ending"
          /\ call[h].pc \in {"get", "loop", "error", "prepared"} => call[h].reply = "prepared"
          /\ call[h].pc \in {"take", "unprepared"} => call[h].reply = "unprepared"
    /\ \A h1, h2 \in Handlers :
          (Working(h1) /\ Working(h2) /\ h1 # h2) => call[h1].claim # call[h2].claim

\* The scheduler gives a device to one claim, and as long as the claim is in use.
ScheduleInv ==
    /\ \A c \in Claims : phase[c] # "none" => api[c] # NoRequest
    /\ \A c1, c2 \in Claims :
          (c1 # c2 /\ api[c1] # NoRequest /\ api[c2] # NoRequest)
              => Range(api[c1]) \cap Range(api[c2]) \subseteq {OtherDevice}

\* A prepare in progress works on its claim's results, and what it has is its own.
ProgressInv ==
    \A h \in Handlers : (Working(h) /\ call[h].reply = "prepared") =>
        /\ Range(call[h].todo) \subseteq Range(api[call[h].claim])
        /\ Range(call[h].devices) \subseteq Range(api[call[h].claim])
        /\ \A d \in Range(call[h].devices) : partitions[d] = call[h].claim

\* No other claim has, or will be recovered with, a device of a prepared claim.
KeptInv ==
    \A c \in Claims : phase[c] = "prepared" =>
        /\ Range(answer[c]) \subseteq Range(api[c])
        /\ \A d \in Range(answer[c]), x \in Claims \ {c} :
              /\ partitions[d] # x
              /\ listed[x] # NoRequest => d \notin Range(listed[x])

ListedInv == pc # "recover" => listed = NothingListed

ClaimsInv == SerialInv /\ ScheduleInv /\ ProgressInv /\ KeptInv /\ ListedInv

\* No call is in progress when the process starts or is being stopped.
Idle == \A h \in Handlers : ~ Working(h)

\* A process that has no calls keeps everything but its own memory.
LEMMA LostClaims ==
    ASSUME TypeInv, ClaimsInv, LoseMemory, UNCHANGED kubelet
    PROVE  ClaimsInv'
<1>1. Idle'
  BY NewCallType DEF LoseMemory, Idle, Working
<1>2. listed' = NothingListed
  BY DEF LoseMemory
<1>3. \A d \in Devices, c \in Claims : partitions'[d] # c
  BY AllocationStateAssumption DEF LoseMemory, NewAllocationState
<1>4. SerialInv' /\ ProgressInv'
  BY <1>1 DEF SerialInv, ProgressInv, Idle
<1>5. ScheduleInv'
  BY DEF ClaimsInv, ScheduleInv, kubelet
<1>6. KeptInv'
  <2> SUFFICES ASSUME NEW c \in Claims, phase[c] = "prepared", NEW d \in Range(answer[c]),
                      NEW x \in Claims \ {c}
               PROVE  /\ Range(answer[c]) \subseteq Range(api[c])
                      /\ partitions'[d] # x
                      /\ listed'[x] # NoRequest => d \notin Range(listed'[x])
    BY DEF KeptInv, kubelet, ClaimsInv
  <2>1. answer[c] \in Seq(Devices)
    BY DEF TypeInv, ClaimsType
  <2>2. d \in Devices
    BY <2>1 DEF Range
  <2> QED
    BY <1>2, <1>3, <2>2 DEF ClaimsInv, KeptInv, NothingListed
<1> QED
  BY <1>2, <1>4, <1>5, <1>6 DEF ClaimsInv, ListedInv

\* A process that has no calls and goes on with less to recover.
LEMMA IdleClaims ==
    ASSUME ClaimsInv, Idle, UNCHANGED <<partitions, call, kubelet>>, ListedInv',
           listed' \in {listed, NothingListed}
    PROVE  ClaimsInv'
<1>1. SerialInv' /\ ProgressInv'
  BY DEF SerialInv, ProgressInv, Idle, Working
<1>2. ScheduleInv'
  BY DEF ClaimsInv, ScheduleInv, kubelet
<1>3. KeptInv'
  BY DEF ClaimsInv, KeptInv, NothingListed, kubelet
<1> QED
  BY <1>1, <1>2, <1>3 DEF ClaimsInv

\* main starts again with calls gone, and recovers a claim with its own results.
LEMMA ClaimsMainStep ==
    ASSUME TypeInv, ClaimsInv, MainStep
    PROVE  ClaimsInv'
<1> USE DEF main, memory, resctrl, kubelet, bounds
<1>0. Idle
  <2>1. pc \notin {"up", "stopping"} \/ DeleteSlice
    BY DEF MainStep, Start, CreateGroupDir, WriteGroupSchemata, WriteCDISpecs, ListClaims,
           EndRecovery, Publish, CleanupCDISpecs, DeleteNextGroup, RecoverClaim
  <2> QED
    BY <2>1 DEF DeleteSlice, Idle, Working, ClaimsInv, SerialInv
<1>1. CASE \/ Start \/ CreateGroupDir \/ WriteGroupSchemata \/ EndRecovery \/ Publish
           \/ DeleteSlice \/ CleanupCDISpecs \/ DeleteNextGroup
  <2>1. \/ LoseMemory /\ UNCHANGED kubelet
        \/ /\ UNCHANGED <<partitions, call, kubelet>>
           /\ listed' \in {listed, NothingListed}
           /\ pc # "recover" \/ listed' = NothingListed
    BY <1>1 DEF Start, CreateGroupDir, WriteGroupSchemata, EndRecovery, Publish, DeleteSlice,
                CleanupCDISpecs, DeleteNextGroup, Fatal, Exit, Proceed, NextPartition
  <2>2. CASE /\ UNCHANGED <<partitions, call, kubelet>>
             /\ listed' \in {listed, NothingListed}
             /\ pc # "recover" \/ listed' = NothingListed
    BY <1>0, <2>2, IdleClaims DEF ClaimsInv, ListedInv, NothingListed
  <2> QED
    BY <2>1, <2>2, LostClaims
<1>2. CASE WriteCDISpecs
  <2>1. CASE LoseMemory
    BY <1>2, <2>1, LostClaims DEF WriteCDISpecs
  <2>2. CASE /\ partitions' = NewAllocationState(PartitionDevices)
             /\ UNCHANGED <<listed, call>>
             /\ pc = "cdi"
    <3>1. \A d \in Devices, c \in Claims : partitions'[d] # c
      BY <2>2, AllocationStateAssumption DEF NewAllocationState
    <3>2. SerialInv' /\ ProgressInv'
      BY <1>0, <2>2 DEF SerialInv, ProgressInv, Idle, Working
    <3>3. ScheduleInv'
      BY <1>2 DEF WriteCDISpecs, ClaimsInv, ScheduleInv
    <3>4. listed' = NothingListed
      BY <2>2 DEF ClaimsInv, ListedInv
    <3>5. \A c \in Claims : Range(answer[c]) \subseteq Devices
      <4>1. \A c \in Claims : answer[c] \in Seq(Devices)
        BY DEF TypeInv, ClaimsType
      <4> QED
        BY <4>1 DEF Range
    <3>6. KeptInv'
      BY <1>2, <3>1, <3>4, <3>5 DEF WriteCDISpecs, ClaimsInv, KeptInv, NothingListed
    <3> QED
      BY <3>2, <3>3, <3>4, <3>6 DEF ClaimsInv, ListedInv, NothingListed
  <2> QED
    BY <1>2, <2>1, <2>2 DEF WriteCDISpecs, Fatal
<1>3. CASE ListClaims
  <2>1. CASE UNCHANGED listed
    <3>1. listed = NothingListed
      BY <1>3 DEF ListClaims, ClaimsInv, ListedInv
    <3> QED
      BY <1>0, <1>3, <2>1, <3>1, IdleClaims DEF ListClaims, ListedInv, NothingListed
  <2>2. CASE listed' = api /\ pc' = "recover"
    <3>1. SerialInv' /\ ProgressInv'
      BY <1>0, <1>3 DEF ListClaims, SerialInv, ProgressInv, Idle, Working
    <3>2. ScheduleInv'
      BY <1>3 DEF ListClaims, ClaimsInv, ScheduleInv
    <3>3. ASSUME NEW c \in Claims, phase[c] = "prepared", NEW d \in Range(answer[c]),
                 NEW x \in Claims \ {c}, api[x] # NoRequest
          PROVE  d \notin Range(api[x])
      <4>1. api[c] # NoRequest /\ d \in Range(api[c])
        BY <3>3 DEF ClaimsInv, ScheduleInv, KeptInv
      <4>2. d # OtherDevice
        <5>1. answer[c] \in Seq(Devices)
          BY DEF TypeInv, ClaimsType
        <5>2. d \in Devices
          BY <3>3, <5>1 DEF Range
        <5>3. OtherDevice \notin Devices
          BY BasicAssumption
        <5> QED
          BY <5>2, <5>3
      <4> QED
        BY <3>3, <4>1, <4>2 DEF ClaimsInv, ScheduleInv
    <3>4. KeptInv'
      BY <1>3, <2>2, <3>3 DEF ListClaims, ClaimsInv, KeptInv
    <3> QED
      BY <2>2, <3>1, <3>2, <3>4 DEF ClaimsInv, ListedInv
  <2> QED
    BY <1>3, <2>1, <2>2 DEF ListClaims
<1>4. ASSUME NEW c \in Claims, RecoverClaim(c)
      PROVE  ClaimsInv'
  <2>1. SerialInv' /\ ProgressInv'
    BY <1>0, <1>4 DEF RecoverClaim, SerialInv, ProgressInv, Idle, Working
  <2>2. ScheduleInv'
    BY <1>4 DEF RecoverClaim, ClaimsInv, ScheduleInv
  <2>3. KeptInv'
    <3> SUFFICES ASSUME NEW o \in Claims, phase[o] = "prepared", NEW d \in Range(answer[o]),
                        NEW x \in Claims \ {o}
                 PROVE  /\ Range(answer[o]) \subseteq Range(api[o])
                        /\ partitions'[d] # x
                        /\ listed'[x] # NoRequest => d \notin Range(listed'[x])
      BY <1>4 DEF RecoverClaim, KeptInv, ClaimsInv
    <3>1. d \in Devices
      <4>1. answer[o] \in Seq(Devices)
        BY DEF TypeInv, ClaimsType
      <4> QED
        BY <4>1 DEF Range
    <3>2. partitions'[d] \in {partitions[d], c}
      BY <1>4, <3>1 DEF RecoverClaim
    <3>3. c = x => partitions'[d] = partitions[d]
      <4>1. c = x => d \notin Recoverable(c, listed[c])
        BY <1>4 DEF RecoverClaim, ClaimsInv, KeptInv, Recoverable
      <4> QED
        BY <1>4, <3>1, <4>1 DEF RecoverClaim
    <3>4. listed'[x] # NoRequest => listed'[x] = listed[x]
      BY <1>4 DEF RecoverClaim, TypeInv, ClaimsType
    <3> QED
      BY <3>2, <3>3, <3>4 DEF ClaimsInv, KeptInv
  <2> QED
    BY <1>4, <2>1, <2>2, <2>3 DEF RecoverClaim, ClaimsInv, ListedInv
<1> QED
  BY <1>1, <1>2, <1>3, <1>4 DEF MainStep

\* A handler that goes on: what the other calls have is not its business.
LEMMA ClaimsHandlerStep ==
    ASSUME TypeInv, ClaimsInv, NEW h \in Handlers, HandlerStep(h)
    PROVE  ClaimsInv'
<1> USE DEF main, memory, resctrl, kubelet, bounds
<1> DEFINE c == call[h].claim
<1>0. /\ call \in [Handlers -> Call] /\ call[h] \in Call
      /\ Working(h) /\ c \in Claims /\ call[h].live
  BY DEF HandlerStep, GetClaim, AllocateResult, EndLoop, ReleaseClaim, CountAllocated, SetGauge,
         Reply, Working, TypeInv, CallsType, CallOK, ClaimsInv, SerialInv
<1>1. ASSUME UNCHANGED <<pc, listed, partitions, kubelet>>,
             \A k \in Handlers \ {h} : call'[k] = call[k],
             call'[h].claim = c, call'[h].live, call'[h].reply = call[h].reply,
             call'[h].devices = call[h].devices,
             Range(call'[h].todo) \subseteq Range(call[h].todo)
                \/ (call[h].reply = "prepared" /\ Range(call'[h].todo) \subseteq Range(api[c])),
             call'[h].pc \in {"get", "loop", "error", "prepared"} => call[h].reply = "prepared",
             call'[h].pc \in {"take", "unprepared"} => call[h].reply = "unprepared"
      PROVE  ClaimsInv'
  <2>1. \A k \in Handlers : call'[k].claim = call[k].claim /\ (Working(k)' => Working(k))
    BY <1>0, <1>1 DEF Working
  <2>2. SerialInv'
    BY <1>0, <1>1, <2>1 DEF ClaimsInv, SerialInv
  <2>3. ProgressInv'
    BY <1>0, <1>1, <2>1 DEF ClaimsInv, ProgressInv
  <2>4. ScheduleInv' /\ KeptInv' /\ ListedInv'
    BY <1>1 DEF ClaimsInv, ScheduleInv, KeptInv, ListedInv, NothingListed
  <2> QED
    BY <2>2, <2>3, <2>4 DEF ClaimsInv
<1>2. CASE GetClaim(h)
  <2>1. call[h].reply = "prepared" /\ api[c] # NoRequest
    BY <1>0, <1>2 DEF GetClaim, ClaimsInv, SerialInv, ScheduleInv
  <2>2. CASE Goto(h, "error")
    BY <1>0, <1>1, <1>2, <2>1, <2>2 DEF GetClaim, Goto, Call
  <2>3. CASE call' = [call EXCEPT ![h].pc = "loop", ![h].todo = api[c]]
    BY <1>0, <1>1, <1>2, <2>1, <2>3 DEF GetClaim, Call
  <2> QED
    BY <1>2, <2>2, <2>3 DEF GetClaim
<1>3. CASE EndLoop(h)
  <2>1. call[h].reply = "prepared"
    BY <1>0, <1>3 DEF EndLoop, ClaimsInv, SerialInv
  <2> QED
    BY <1>0, <1>1, <1>3, <2>1 DEF EndLoop, Goto, Call
<1>4. CASE CountAllocated(h)
  BY <1>0, <1>1, <1>4 DEF CountAllocated, Call
<1>5. CASE SetGauge(h)
  BY <1>0, <1>1, <1>5 DEF SetGauge, Goto, Call
<1>6. CASE ReleaseClaim(h)
  <2>1. call[h].reply = "unprepared" /\ phase[c] = "ending"
    BY <1>0, <1>6 DEF ReleaseClaim, ClaimsInv, SerialInv
  <2>2. /\ \A k \in Handlers \ {h} : call'[k] = call[k]
        /\ call'[h] = [call[h] EXCEPT !.pc = "count"]
        /\ UNCHANGED <<pc, listed, kubelet>>
        /\ \A d \in Devices : partitions'[d] = IF partitions[d] = c THEN Free ELSE partitions[d]
    BY <1>0, <1>6 DEF ReleaseClaim, Goto, ReleaseByClaimUID
  <2>3. SerialInv'
    <3>1. /\ call'[h].pc = "count" /\ call'[h].claim = c /\ call'[h].live
          /\ call'[h].reply = "unprepared"
      BY <1>0, <2>1, <2>2 DEF Call
    <3>2. \A k \in Handlers : call'[k].claim = call[k].claim /\ (Working(k)' => Working(k))
      BY <1>0, <2>2, <3>1 DEF Working
    <3>3. pc \in {"up", "stopping"}
      BY <1>0 DEF ClaimsInv, SerialInv
    <3>4. \A k \in Handlers : Working(k)' =>
            /\ call'[k].live
            /\ pc' \in {"up", "stopping"}
            /\ phase'[call'[k].claim] = IF call'[k].reply = "prepared" THEN "wanted" ELSE "ending"
            /\ call'[k].pc \in {"get", "loop", "error", "prepared"} => call'[k].reply = "prepared"
            /\ call'[k].pc \in {"take", "unprepared"} => call'[k].reply = "unprepared"
      <4> SUFFICES ASSUME NEW k \in Handlers, Working(k)'
                   PROVE  /\ call'[k].live
                          /\ phase[call'[k].claim] =
                                IF call'[k].reply = "prepared" THEN "wanted" ELSE "ending"
                          /\ call'[k].pc \in {"get", "loop", "error", "prepared"}
                                => call'[k].reply = "prepared"
                          /\ call'[k].pc \in {"take", "unprepared"}
                                => call'[k].reply = "unprepared"
        BY <2>2, <3>3
      <4>1. CASE k = h
        BY <2>1, <3>1, <4>1
      <4>2. CASE k # h
        BY <2>2, <3>2, <4>2 DEF ClaimsInv, SerialInv
      <4> QED
        BY <4>1, <4>2
    <3>5. \A h1, h2 \in Handlers :
            (Working(h1)' /\ Working(h2)' /\ h1 # h2) => call'[h1].claim # call'[h2].claim
      BY <3>2 DEF ClaimsInv, SerialInv
    <3> QED
      BY <3>4, <3>5 DEF SerialInv
  <2>4. ProgressInv'
    <3> SUFFICES ASSUME NEW k \in Handlers, Working(k)', call'[k].reply = "prepared"
                 PROVE  /\ Range(call'[k].todo) \subseteq Range(api'[call'[k].claim])
                        /\ Range(call'[k].devices) \subseteq Range(api'[call'[k].claim])
                        /\ \A d \in Range(call'[k].devices) : partitions'[d] = call'[k].claim
      BY DEF ProgressInv
    <3>0. call'[h].reply = "unprepared"
      BY <1>0, <2>1, <2>2 DEF Call
    <3>1. k # h
      BY <3>0
    <3>2. call'[k] = call[k] /\ Working(k) /\ call[k].claim # c
      BY <1>0, <2>2, <3>1 DEF Working, ClaimsInv, SerialInv
    <3>3. Range(call[k].devices) \subseteq Devices
      <4>1. call[k].devices \in Seq(Devices)
        BY <1>0 DEF Call
      <4> QED
        BY <4>1 DEF Range
    <3> QED
      BY <2>2, <3>2, <3>3 DEF ClaimsInv, ProgressInv
  <2>5. KeptInv'
    <3>1. \A o \in Claims : Range(answer[o]) \subseteq Devices
      <4>1. \A o \in Claims : answer[o] \in Seq(Devices)
        BY DEF TypeInv, ClaimsType
      <4> QED
        BY <4>1 DEF Range
    <3> QED
      BY <2>2, <3>1, AllocationStateAssumption DEF ClaimsInv, KeptInv
  <2>6. ScheduleInv' /\ ListedInv'
    BY <2>2 DEF ClaimsInv, ScheduleInv, ListedInv, NothingListed
  <2> QED
    BY <2>3, <2>4, <2>5, <2>6 DEF ClaimsInv
<1>7. CASE AllocateResult(h)
  <2> DEFINE d == Head(call[h].todo)
             passed == [call[h] EXCEPT !.todo = Tail(@)]
             taken == [passed EXCEPT !.devices = Append(@, d)]
  <2>1. /\ call[h].reply = "prepared"
        /\ call[h].todo \in Seq(Devices \cup {OtherDevice}) /\ call[h].todo # <<>>
        /\ call[h].devices \in Seq(Devices)
    BY <1>0, <1>7 DEF AllocateResult, Call, ClaimsInv, SerialInv
  <2>2. Range(Tail(call[h].todo)) \subseteq Range(call[h].todo) /\ d \in Range(call[h].todo)
    BY <2>1 DEF Range
  <2>3. CASE d # OtherDevice /\ CanAllocate(d, c)
    <3>1. /\ partitions' = [partitions EXCEPT ![d] = c]
          /\ call' = [call EXCEPT ![h] = taken]
      BY <1>7, <2>3 DEF AllocateResult, Allocate
    <3>2. d \in Devices
      <4>1. d \in Devices \cup {OtherDevice}
        BY <2>1
      <4> QED
        BY <2>3, <4>1
    <3>3. /\ partitions'[d] = c
          /\ \A e \in Devices : e # d => partitions'[e] = partitions[e]
      BY <3>1, <3>2 DEF TypeInv, MemoryType, AllocationStateType
    <3>4. /\ taken.pc = "loop" /\ taken.claim = c /\ taken.live /\ taken.reply = "prepared"
          /\ taken.todo = Tail(call[h].todo) /\ taken.devices = Append(call[h].devices, d)
      BY <1>0, <1>7, <2>1 DEF AllocateResult, Call
    <3> HIDE DEF taken
    <3>5. call'[h] = taken /\ \A k \in Handlers \ {h} : call'[k] = call[k]
      BY <1>0, <3>1
    <3>6. UNCHANGED <<pc, listed, kubelet>>
      BY <1>7 DEF AllocateResult
    <3>7. d \in Range(api[c])
      BY <1>0, <2>1, <2>2 DEF ClaimsInv, ProgressInv
    <3>8. SerialInv'
      <4>1. \A k \in Handlers : call'[k].claim = call[k].claim /\ (Working(k)' => Working(k))
        BY <1>0, <3>4, <3>5 DEF Working
      <4>2. UNCHANGED <<pc, phase>> /\ pc \in {"up", "stopping"} /\ phase[c] = "wanted"
        BY <1>0, <2>1, <3>6 DEF ClaimsInv, SerialInv
      <4>3. \A k \in Handlers : Working(k)' =>
              /\ call'[k].live
              /\ pc' \in {"up", "stopping"}
              /\ phase'[call'[k].claim] =
                    IF call'[k].reply = "prepared" THEN "wanted" ELSE "ending"
              /\ call'[k].pc \in {"get", "loop", "error", "prepared"}
                    => call'[k].reply = "prepared"
              /\ call'[k].pc \in {"take", "unprepared"} => call'[k].reply = "unprepared"
        <5> SUFFICES ASSUME NEW k \in Handlers, Working(k)'
                     PROVE  /\ call'[k].live
                            /\ phase[call'[k].claim] =
                                  IF call'[k].reply = "prepared" THEN "wanted" ELSE "ending"
                            /\ call'[k].pc \in {"get", "loop", "error", "prepared"}
                                  => call'[k].reply = "prepared"
                            /\ call'[k].pc \in {"take", "unprepared"}
                                  => call'[k].reply = "unprepared"
          BY <4>2
        <5>1. CASE k = h
          BY <3>4, <3>5, <4>2, <5>1
        <5>2. CASE k # h
          BY <3>5, <4>1, <5>2 DEF ClaimsInv, SerialInv
        <5> QED
          BY <5>1, <5>2
      <4>4. \A h1, h2 \in Handlers :
              (Working(h1)' /\ Working(h2)' /\ h1 # h2) => call'[h1].claim # call'[h2].claim
        BY <4>1 DEF ClaimsInv, SerialInv
      <4> QED
        BY <4>3, <4>4 DEF SerialInv
    <3>9. ProgressInv'
      <4> SUFFICES ASSUME NEW k \in Handlers, Working(k)', call'[k].reply = "prepared"
                   PROVE  /\ Range(call'[k].todo) \subseteq Range(api'[call'[k].claim])
                          /\ Range(call'[k].devices) \subseteq Range(api'[call'[k].claim])
                          /\ \A e \in Range(call'[k].devices) : partitions'[e] = call'[k].claim
        BY DEF ProgressInv
      <4>0. Range(call[k].devices) \subseteq Devices
        <5>1. call[k].devices \in Seq(Devices)
          BY <1>0 DEF Call
        <5> QED
          BY <5>1 DEF Range
      <4>1. CASE k = h
        <5>1. Range(Append(call[h].devices, d)) \subseteq Range(call[h].devices) \cup {d}
          BY <2>1 DEF Range
        <5>2. /\ Range(call[h].todo) \subseteq Range(api[c])
              /\ Range(call[h].devices) \subseteq Range(api[c])
              /\ \A e \in Range(call[h].devices) : partitions[e] = c
          BY <1>0, <2>1 DEF ClaimsInv, ProgressInv
        <5>3. /\ call'[k].claim = c /\ call'[k].todo = Tail(call[h].todo)
              /\ call'[k].devices = Append(call[h].devices, d) /\ api' = api
          BY <3>4, <3>5, <3>6, <4>1
        <5>4. /\ Range(Tail(call[h].todo)) \subseteq Range(api[c])
              /\ Range(Append(call[h].devices, d)) \subseteq Range(api[c])
          BY <2>2, <3>7, <5>1, <5>2
        <5>5. \A e \in Range(Append(call[h].devices, d)) : partitions'[e] = c
          BY <3>3, <4>0, <4>1, <5>1, <5>2
        <5> HIDE DEF c, d
        <5> QED
          BY <5>3, <5>4, <5>5
      <4>2. CASE k # h
        <5>1. call'[k] = call[k] /\ Working(k) /\ call[k].claim # c
          BY <1>0, <3>5, <4>2 DEF Working, ClaimsInv, SerialInv
        <5>2. call[k].claim \in Claims
          BY <5>1 DEF Working, TypeInv, CallsType, CallOK
        <5>3. /\ Range(call[k].todo) \subseteq Range(api[call[k].claim])
              /\ Range(call[k].devices) \subseteq Range(api[call[k].claim])
              /\ \A e \in Range(call[k].devices) : partitions[e] = call[k].claim
          BY <5>1 DEF ClaimsInv, ProgressInv
        <5>4. d \notin Range(call[k].devices)
          BY <2>3, <5>1, <5>2, <5>3, AllocationStateAssumption DEF CanAllocate
        <5> QED
          BY <3>3, <3>6, <4>0, <5>1, <5>3, <5>4
      <4> QED
        BY <4>1, <4>2
    <3>10. KeptInv'
      <4>0. phase' = phase /\ answer' = answer /\ api' = api /\ listed' = listed
        BY <3>6
      <4> SUFFICES ASSUME NEW o \in Claims, phase[o] = "prepared", NEW e \in Range(answer[o]),
                          NEW x \in Claims \ {o}
                   PROVE  partitions'[e] # x
        BY <4>0 DEF ClaimsInv, KeptInv
      <4>1. e \in Devices
        <5>1. answer[o] \in Seq(Devices)
          BY DEF TypeInv, ClaimsType
        <5> QED
          BY <5>1 DEF Range
      <4>2. Range(answer[o]) \subseteq Range(api[o]) /\ partitions[e] # x
        BY DEF ClaimsInv, KeptInv
      <4>3. phase[c] = "wanted" /\ o # c
        BY <1>0, <2>1 DEF ClaimsInv, SerialInv
      <4>4. e # d
        <5>1. api[o] # NoRequest /\ api[c] # NoRequest
          BY <1>0, <4>3 DEF ClaimsInv, ScheduleInv
        <5>2. Range(api[o]) \cap Range(api[c]) \subseteq {OtherDevice}
          BY <1>0, <4>3, <5>1 DEF ClaimsInv, ScheduleInv
        <5> QED
          BY <2>3, <3>7, <4>2, <5>2
      <4> QED
        BY <3>3, <4>1, <4>2, <4>4
    <3>11. ScheduleInv' /\ ListedInv'
      BY <3>6 DEF ClaimsInv, ScheduleInv, ListedInv, NothingListed
    <3> QED
      BY <3>8, <3>9, <3>10, <3>11 DEF ClaimsInv
  <2>4. CASE ~ (d # OtherDevice /\ CanAllocate(d, c))
    <3>1. call' = [call EXCEPT ![h] = passed] /\ UNCHANGED <<pc, listed, partitions, kubelet>>
      BY <1>7, <2>4 DEF AllocateResult
    <3>2. /\ passed.pc = "loop" /\ passed.claim = c /\ passed.live /\ passed.reply = "prepared"
          /\ passed.todo = Tail(call[h].todo) /\ passed.devices = call[h].devices
      BY <1>0, <1>7, <2>1 DEF AllocateResult, Call
    <3> HIDE DEF passed
    <3>3. call'[h] = passed /\ \A k \in Handlers \ {h} : call'[k] = call[k]
      BY <1>0, <3>1
    <3> QED
      BY <1>1, <2>1, <2>2, <3>1, <3>2, <3>3
  <2> QED
    BY <2>3, <2>4
<1>8. CASE Reply(h)
  <2>1. /\ UNCHANGED <<pc, listed, partitions, api>>
        /\ \A k \in Handlers \ {h} : call'[k] = call[k]
        /\ ~ Working(h)'
    BY <1>0, <1>8, NewCallType DEF Reply, Working
  <2>2. \/ /\ call[h].pc = "prepared"
           /\ phase' = [phase EXCEPT ![c] = "prepared"]
           /\ answer' = [answer EXCEPT ![c] = call[h].devices]
        \/ /\ phase' = [phase EXCEPT ![c] = "none"]
           /\ answer' = [answer EXCEPT ![c] = <<>>]
        \/ UNCHANGED <<phase, answer>>
    BY <1>8 DEF Reply
  <2>3. \A o \in Claims \ {c} : phase'[o] = phase[o] /\ answer'[o] = answer[o]
    BY <2>2 DEF TypeInv, ClaimsType
  <2>4. SerialInv'
    <3>1. \A k \in Handlers : Working(k)' =>
              /\ k # h /\ call'[k] = call[k] /\ Working(k)
              /\ call[k].claim \in Claims \ {c}
      BY <1>0, <2>1 DEF Working, ClaimsInv, SerialInv, TypeInv, CallsType, CallOK
    <3> QED
      BY <2>1, <2>3, <3>1 DEF ClaimsInv, SerialInv
  <2>5. ProgressInv'
    BY <2>1 DEF ClaimsInv, ProgressInv, Working
  <2>6. ScheduleInv'
    <3>1. phase[c] # "none"
      BY <1>0 DEF ClaimsInv, SerialInv
    <3> QED
      BY <1>0, <2>1, <2>3, <3>1 DEF ClaimsInv, ScheduleInv
  <2>7. KeptInv'
    <3> SUFFICES ASSUME NEW o \in Claims, phase'[o] = "prepared"
                 PROVE  /\ Range(answer'[o]) \subseteq Range(api[o])
                        /\ \A d \in Range(answer'[o]), x \in Claims \ {o} :
                              /\ partitions[d] # x
                              /\ listed[x] # NoRequest => d \notin Range(listed[x])
      BY <2>1 DEF KeptInv
    <3>1. CASE phase'[o] = phase[o] /\ answer'[o] = answer[o]
      BY <3>1 DEF ClaimsInv, KeptInv
    <3>2. CASE o = c /\ call[h].pc = "prepared" /\ answer'[c] = call[h].devices
      <4>1. call[h].reply = "prepared" /\ pc \in {"up", "stopping"}
        BY <1>0, <3>2 DEF ClaimsInv, SerialInv
      <4>2. /\ Range(call[h].devices) \subseteq Range(api[c])
            /\ \A d \in Range(call[h].devices) : partitions[d] = c
        BY <1>0, <4>1 DEF ClaimsInv, ProgressInv
      <4>3. listed = NothingListed
        BY <4>1 DEF ClaimsInv, ListedInv
      <4> QED
        BY <3>2, <4>2, <4>3 DEF NothingListed
    <3>3. CASE o = c /\ phase'[c] = "none"
      BY <3>3
    <3> QED
      BY <1>0, <2>2, <2>3, <3>1, <3>2, <3>3 DEF TypeInv, ClaimsType
  <2>8. ListedInv'
    BY <2>1 DEF ClaimsInv, ListedInv, NothingListed
  <2> QED
    BY <2>4, <2>5, <2>6, <2>7, <2>8 DEF ClaimsInv
<1> QED
  BY <1>2, <1>3, <1>4, <1>5, <1>6, <1>7, <1>8 DEF HandlerStep

\* Calls that begin, when no call for the claim is in progress.
LEMMA ClaimsCallStep ==
    ASSUME TypeInv, ClaimsInv, NEW h \in Handlers, NEW c \in Claims,
           CallPrepare(h, c) \/ CallUnprepare(h, c)
    PROVE  ClaimsInv'
<1> USE DEF main, memory, resctrl, kubelet, bounds
<1>1. /\ pc = "up" /\ ~ Working(h) /\ phase[c] # "none" /\ phase[c] # "prepared"
      /\ UNCHANGED <<pc, listed, partitions, api, answer>>
      /\ \A k \in Handlers \ {h} : call'[k] = call[k]
  BY DEF CallPrepare, CallUnprepare, Working, TypeInv, CallsType
<1>2. \A k \in Handlers : Working(k) => call[k].claim \in Claims \ {c}
  BY DEF CallPrepare, CallUnprepare, Waiting, Working, ClaimsInv, SerialInv, TypeInv, CallsType,
         CallOK
<1>3. /\ call'[h].claim = c /\ call'[h].live /\ call'[h].todo = <<>> /\ call'[h].devices = <<>>
      /\ \/ call'[h].pc = "get" /\ call'[h].reply = "prepared"
         \/ call'[h].pc = "take" /\ call'[h].reply = "unprepared"
      /\ phase'[c] = IF call'[h].reply = "prepared" THEN "wanted" ELSE "ending"
      /\ \A o \in Claims \ {c} : phase'[o] = phase[o]
  BY DEF CallPrepare, CallUnprepare, NewCall, TypeInv, CallsType, ClaimsType
<1>4. SerialInv'
  <2>1. \A k \in Handlers \ {h} : Working(k)' => Working(k) /\ call'[k] = call[k]
    BY <1>1 DEF Working
  <2> QED
    BY <1>1, <1>2, <1>3, <2>1 DEF ClaimsInv, SerialInv
<1>5. ProgressInv'
  <2>1. \A k \in Handlers \ {h} : Working(k)' => Working(k) /\ call'[k] = call[k]
    BY <1>1 DEF Working
  <2>2. Range(<<>>) = {}
    BY DEF Range
  <2> QED
    BY <1>1, <1>3, <2>1, <2>2 DEF ClaimsInv, ProgressInv
<1>6. ScheduleInv'
  BY <1>1, <1>3 DEF ClaimsInv, ScheduleInv
<1>7. KeptInv'
  <2>1. phase'[c] # "prepared"
    BY <1>3
  <2> QED
    BY <1>1, <1>3, <2>1 DEF ClaimsInv, KeptInv
<1>8. ListedInv'
  BY <1>1 DEF ClaimsInv, ListedInv, NothingListed
<1> QED
  BY <1>4, <1>5, <1>6, <1>7, <1>8 DEF ClaimsInv

\* The scheduler, the pods and the containers.
LEMMA ClaimsClaimStep ==
    ASSUME TypeInv, ClaimsInv, NEW c \in Claims,
           \/ Schedule(c) \/ Abandon(c) \/ Deallocate(c)
           \/ PodGone(c) \/ StartContainer(c) \/ ExitContainer(c)
    PROVE  ClaimsInv'
<1> USE DEF main, memory, resctrl, kubelet, bounds
<1>1. ASSUME UNCHANGED <<pc, listed, partitions, call, answer>>,
             phase[c] \notin {"wanted", "ending"} \/ ~ Waiting(c) \/ UNCHANGED kubelet,
             phase'[c] # "prepared" \/ UNCHANGED kubelet,
             \A o \in Claims \ {c} : phase'[o] = phase[o] /\ api'[o] = api[o],
             api[c] # NoRequest => api'[c] = api[c] \/ phase[c] = "none",
             ScheduleInv'
      PROVE  ClaimsInv'
  <2>1. \/ UNCHANGED kubelet
        \/ \A h \in Handlers : Working(h) => call[h].claim \in Claims \ {c}
    BY <1>1 DEF Waiting, Working, ClaimsInv, SerialInv, TypeInv, CallsType, CallOK
  <2>2. SerialInv'
    BY <1>1, <2>1 DEF ClaimsInv, SerialInv, Working
  <2>3. ProgressInv'
    BY <1>1, <2>1 DEF ClaimsInv, ProgressInv, Working
  <2>4. KeptInv'
    BY <1>1 DEF ClaimsInv, KeptInv
  <2>5. ListedInv'
    BY <1>1 DEF ClaimsInv, ListedInv, NothingListed
  <2> QED
    BY <1>1, <2>2, <2>3, <2>4, <2>5 DEF ClaimsInv
<1>2. CASE Schedule(c)
  <2>1. PICK devices \in SUBSET Unallocated, others \in {<<>>, <<OtherDevice>>} :
            api' = [api EXCEPT ![c] = others \o SetToSeq(devices)]
    BY <1>2 DEF Schedule
  <2>2. devices \subseteq Devices
    BY <1>2 DEF Schedule, Unallocated, TypeInv, SliceType
  <2>3. Range(others \o SetToSeq(devices)) \subseteq devices \cup {OtherDevice}
    <3>1. SetToSeq(devices) \in Seq(devices) /\ Range(SetToSeq(devices)) \subseteq devices
      BY <2>2, SetToSeqType
    <3>2. SetToSeq(devices) \in Seq(devices \cup {OtherDevice})
      BY <3>1
    <3>3. others \in Seq(devices \cup {OtherDevice})
      <4>1. /\ <<>> \in Seq(devices \cup {OtherDevice})
            /\ <<OtherDevice>> \in Seq(devices \cup {OtherDevice})
        OBVIOUS
      <4> QED
        BY <4>1
    <3>4. others \o SetToSeq(devices) \in Seq(devices \cup {OtherDevice})
      BY <3>2, <3>3
    <3> QED
      BY <3>4 DEF Range
  <2>4. /\ api[c] = NoRequest /\ phase[c] = "none" /\ phase'[c] = "bound"
        /\ api'[c] = others \o SetToSeq(devices)
        /\ \A o \in Claims \ {c} : phase'[o] = phase[o] /\ api'[o] = api[o]
        /\ UNCHANGED <<pc, listed, partitions, call, answer>>
    BY <1>2, <2>1 DEF Schedule, TypeInv, ClaimsType, ClaimsInv, ScheduleInv
  <2>5. \A o \in Claims : api[o] # NoRequest => Range(api[o]) \cap devices = {}
    BY DEF Unallocated
  <2>6. api'[c] # NoRequest
    <3>1. SetToSeq(devices) \in Seq(Devices \cup {OtherDevice})
      <4>1. SetToSeq(devices) \in Seq(devices)
        BY <2>2, SetToSeqType
      <4> QED
        BY <2>2, <4>1
    <3>2. others \in Seq(Devices \cup {OtherDevice})
      <4>1. /\ <<>> \in Seq(Devices \cup {OtherDevice})
            /\ <<OtherDevice>> \in Seq(Devices \cup {OtherDevice})
        OBVIOUS
      <4> QED
        BY <4>1
    <3>3. others \o SetToSeq(devices) \in Seq(Devices \cup {OtherDevice})
      BY <3>1, <3>2
    <3> QED
      BY <2>4, <3>3, BasicAssumption, Zenon
  <2>7. ScheduleInv'
    BY <2>3, <2>4, <2>5, <2>6 DEF ClaimsInv, ScheduleInv
  <2> QED
    BY <1>1, <2>4, <2>7
<1>3. CASE Abandon(c) \/ Deallocate(c)
  <2>1. ScheduleInv'
    BY <1>3 DEF Abandon, Deallocate, ClaimsInv, ScheduleInv, TypeInv, ClaimsType
  <2> QED
    BY <1>1, <1>3, <2>1 DEF Abandon, Deallocate, TypeInv, ClaimsType
<1>4. CASE PodGone(c)
  <2>1. ScheduleInv'
    BY <1>4 DEF PodGone, ClaimsInv, ScheduleInv, TypeInv, ClaimsType
  <2> QED
    BY <1>1, <1>4, <2>1 DEF PodGone, TypeInv, ClaimsType
<1>5. CASE StartContainer(c) \/ ExitContainer(c)
  <2>1. ScheduleInv'
    BY <1>5 DEF StartContainer, ExitContainer, ClaimsInv, ScheduleInv
  <2> QED
    BY <1>1, <1>5, <2>1 DEF StartContainer, ExitContainer
<1> QED
  BY <1>2, <1>3, <1>4, <1>5

\* No claim is in use at first.
LEMMA ClaimsInit == Init => ClaimsInv
<1> SUFFICES ASSUME Init PROVE ClaimsInv
  OBVIOUS
<1>1. \A h \in Handlers : ~ Working(h)
  BY NewCallType DEF Init, Working
<1> QED
  BY <1>1 DEF Init, ClaimsInv, SerialInv, ScheduleInv, ProgressInv, KeptInv, ListedInv

\* While the kubelet waits for each answer, the calls and the claims agree.
LEMMA ClaimsStep ==
    ASSUME ~ Timeouts, TypeInv, ClaimsInv, [Next]_vars
    PROVE  ClaimsInv'
<1> USE DEF main, memory, resctrl, kubelet, bounds
<1>1. CASE Stop
  <2>1. /\ UNCHANGED <<listed, partitions, call, api, phase, answer>>
        /\ pc = "up" /\ pc' = "stopping"
    BY <1>1 DEF Stop
  <2>2. SerialInv'
    BY <2>1 DEF ClaimsInv, SerialInv, Working
  <2>3. ScheduleInv' /\ KeptInv' /\ ListedInv'
    BY <2>1 DEF ClaimsInv, ScheduleInv, KeptInv, ListedInv, NothingListed
  <2>4. ProgressInv'
    BY <2>1 DEF ClaimsInv, ProgressInv, Working
  <2> QED
    BY <2>2, <2>3, <2>4 DEF ClaimsInv
<1>2. CASE Crash
  BY <1>2, LostClaims DEF Crash
<1>3. ASSUME NEW h \in Handlers, Timeout(h)
      PROVE  FALSE
  BY <1>3 DEF Timeout
<1>4. CASE UNCHANGED vars
  <2>1. UNCHANGED <<pc, listed, partitions, call, api, phase, answer>>
    BY <1>4 DEF vars
  <2>2. SerialInv'
    BY <2>1 DEF ClaimsInv, SerialInv, Working
  <2>3. ScheduleInv' /\ KeptInv' /\ ListedInv'
    BY <2>1 DEF ClaimsInv, ScheduleInv, KeptInv, ListedInv, NothingListed
  <2>4. ProgressInv'
    BY <2>1 DEF ClaimsInv, ProgressInv, Working
  <2> QED
    BY <2>2, <2>3, <2>4 DEF ClaimsInv
<1> QED
  BY <1>1, <1>2, <1>3, <1>4, ClaimsMainStep, ClaimsHandlerStep, ClaimsCallStep, ClaimsClaimStep
     DEF Next

\* The calls, the record and the claims agree while the kubelet is patient.
LEMMA ClaimsInvariant == ~ Timeouts => (Spec => []ClaimsInv)
<1> SUFFICES ASSUME ~ Timeouts PROVE Spec => []ClaimsInv
  OBVIOUS
<1>1. TypeInv /\ ClaimsInv /\ [Next]_vars => ClaimsInv'
  BY ClaimsStep
<1>2. Spec => []TypeInv
  BY TypeInvariant
<1> QED
  BY <1>1, <1>2, ClaimsInit, PTL DEF Spec

\* When the kubelet waits for each answer, no partition of a prepared claim is
\* ever allocated to another, however many calls run at once and whatever the
\* list of claims that a restarted driver works with leaves out.
THEOREM NotStolenHolds == ~ Timeouts => (Spec => []NotStolen)
<1>1. TypeInv /\ ClaimsInv => NotStolen
  <2> SUFFICES ASSUME TypeInv, ClaimsInv, pc = "up",
                      NEW c \in Claims, phase[c] = "prepared",
                      NEW d \in Range(answer[c]) \cap PartitionDevices
               PROVE  partitions[d] \in {c, Free}
    BY DEF NotStolen
  <2>1. d \in Devices
    BY LayoutType DEF TypeInv
  <2>2. partitions[d] # Unknown
    BY <2>1 DEF TypeInv, MemoryType, KnownPartitions
  <2>3. partitions[d] \in Claims \cup {Free, Unknown}
    BY <2>1 DEF TypeInv, MemoryType, AllocationStateType
  <2>4. \A x \in Claims \ {c} : partitions[d] # x
    BY DEF ClaimsInv, KeptInv
  <2> QED
    BY <2>2, <2>3, <2>4
<1> QED
  BY <1>1, TypeInvariant, ClaimsInvariant, PTL

-----------------------------------------------------------------------------
\* The record that a restarted driver rebuilds, as long as claims can be listed.

Serving == {"publish", "up"} \cup StopPCs

\* A partition of a prepared claim is recorded, or will be by the recovery.
Recorded(c, d) ==
    /\ pc \in Serving => partitions[d] = c
    /\ pc = "recover" => partitions[d] = c \/ (listed[c] # NoRequest /\ d \in Range(listed[c]))

RecordInv ==
    \A c \in Claims : phase[c] = "prepared" =>
        \A d \in Range(answer[c]) \cap PartitionDevices : Recorded(c, d)

\* The recovery finds the partition of a prepared claim free, or the claim's already.
LEMMA RecordMainStep ==
    ASSUME "list" \notin MayFail, TypeInv, ClaimsInv, RecordInv, MainStep \/ Stop \/ Crash
    PROVE  RecordInv'
<1> USE DEF main, memory, resctrl, kubelet, bounds
<1>1. CASE \/ pc' \in {"mkdir", "schemata", "cdi", "list", "down", "stopped"}
           \/ /\ pc \in Serving /\ pc' \in Serving
              /\ UNCHANGED <<partitions, perCache, kubelet>>
  BY <1>1 DEF RecordInv, Recorded, Serving, StopPCs, PartitionDevices
<1>2. CASE ListClaims
  <2>1. pc' = "recover" /\ listed' = api /\ UNCHANGED <<perCache, kubelet>>
    BY <1>2 DEF ListClaims
  <2>2. \A c \in Claims : phase[c] = "prepared" =>
            api[c] # NoRequest /\ Range(answer[c]) \subseteq Range(api[c])
    BY DEF ClaimsInv, ScheduleInv, KeptInv
  <2> QED
    BY <2>1, <2>2 DEF RecordInv, Recorded, Serving, StopPCs, PartitionDevices
<1>3. CASE EndRecovery
  <2>1. /\ pc = "recover" /\ pc' \in Serving /\ listed = NothingListed
        /\ UNCHANGED <<perCache, partitions, kubelet>>
    BY <1>3 DEF EndRecovery, Serving
  <2> QED
    BY <2>1 DEF RecordInv, Recorded, Serving, StopPCs, PartitionDevices, NothingListed
<1>4. ASSUME NEW x \in Claims, RecoverClaim(x)
      PROVE  RecordInv'
  <2>1. /\ pc = "recover" /\ pc' = "recover" /\ UNCHANGED <<perCache, kubelet>>
        /\ \A d \in Devices : partitions'[d] =
              IF d \in Recoverable(x, listed[x]) THEN x ELSE partitions[d]
        /\ \A c \in Claims \ {x} : listed'[c] = listed[c]
    BY <1>4 DEF RecoverClaim, TypeInv, ClaimsType
  <2> SUFFICES ASSUME NEW c \in Claims, phase[c] = "prepared",
                      NEW d \in Range(answer[c]) \cap PartitionDevices
               PROVE  \/ partitions'[d] = c
                      \/ listed'[c] # NoRequest /\ d \in Range(listed'[c])
    BY <2>1 DEF RecordInv, Recorded, PartitionDevices, Serving, StopPCs
  <2>2. d \in Devices /\ d # OtherDevice
    BY LayoutType, BasicAssumption DEF TypeInv
  <2>3. partitions[d] = c \/ (listed[c] # NoRequest /\ d \in Range(listed[c]))
    BY <2>1 DEF RecordInv, Recorded
  <2>4. CASE x = c
    <3>1. partitions[d] \in {c, Free}
      <4>1. partitions[d] # Unknown
        BY <2>1, <2>2 DEF TypeInv, MemoryType, KnownPartitions
      <4>2. partitions[d] \in Claims \cup {Free, Unknown}
        BY <2>2 DEF TypeInv, MemoryType, AllocationStateType
      <4>3. \A y \in Claims \ {c} : partitions[d] # y
        BY DEF ClaimsInv, KeptInv
      <4> QED
        BY <4>1, <4>2, <4>3
    <3> QED
      BY <2>1, <2>2, <2>3, <2>4, <3>1 DEF Recoverable, CanAllocate
  <2>5. CASE x # c
    <3>1. listed[x] # NoRequest /\ d \notin Range(listed[x])
      BY <1>4, <2>5 DEF RecoverClaim, ClaimsInv, KeptInv
    <3> QED
      BY <2>1, <2>2, <2>3, <2>5, <3>1 DEF Recoverable
  <2> QED
    BY <2>4, <2>5
<1>5. CASE \/ Start \/ CreateGroupDir \/ WriteGroupSchemata \/ WriteCDISpecs \/ Publish
           \/ DeleteSlice \/ CleanupCDISpecs \/ DeleteNextGroup \/ Stop \/ Crash
  BY <1>1, <1>5
     DEF Start, CreateGroupDir, WriteGroupSchemata, WriteCDISpecs, Publish, DeleteSlice,
         CleanupCDISpecs, DeleteNextGroup, Stop, Crash, Fatal, Exit, Proceed, NextPartition,
         Serving, StopPCs
<1> QED
  BY <1>2, <1>3, <1>4, <1>5 DEF MainStep

\* A call takes what is free and gives back what is its claim's.
LEMMA RecordHandlerStep ==
    ASSUME TypeInv, ClaimsInv, RecordInv, NEW h \in Handlers, HandlerStep(h)
    PROVE  RecordInv'
<1> USE DEF main, memory, resctrl, kubelet, bounds
<1> DEFINE x == call[h].claim
<1>0. /\ call[h] \in Call /\ call[h].pc # "idle" /\ x \in Claims /\ UNCHANGED <<pc, perCache, listed>>
      /\ pc \in Serving
  BY DEF HandlerStep, GetClaim, AllocateResult, EndLoop, ReleaseClaim, CountAllocated, SetGauge,
         Reply, Working, TypeInv, CallsType, CallOK, ClaimsInv, SerialInv, Serving, StopPCs
<1>1. CASE UNCHANGED <<partitions, kubelet>>
  BY <1>0, <1>1 DEF RecordInv, Recorded, PartitionDevices
<1>2. CASE AllocateResult(h) \/ ReleaseClaim(h)
  <2> SUFFICES ASSUME NEW c \in Claims, phase[c] = "prepared",
                      NEW d \in Range(answer[c]) \cap PartitionDevices
               PROVE  partitions'[d] = c
    BY <1>0, <1>2
       DEF AllocateResult, ReleaseClaim, RecordInv, Recorded, PartitionDevices, Serving, StopPCs
  <2>1. partitions[d] = c
    BY <1>0 DEF RecordInv, Recorded
  <2>2. d \in Devices /\ x # c
    <3>1. phase[x] # "prepared"
      BY <1>0 DEF ClaimsInv, SerialInv, Working
    <3> QED
      BY <3>1, LayoutType DEF TypeInv
  <2> QED
    BY <1>0, <1>2, <2>1, <2>2, AllocationStateAssumption
       DEF AllocateResult, Allocate, CanAllocate, ReleaseClaim, ReleaseByClaimUID, TypeInv,
           MemoryType, AllocationStateType
<1>3. CASE Reply(h)
  <2> SUFFICES ASSUME NEW c \in Claims, phase'[c] = "prepared",
                      NEW d \in Range(answer'[c]) \cap PartitionDevices
               PROVE  partitions[d] = c
    BY <1>0, <1>3 DEF Reply, RecordInv, Recorded, PartitionDevices, Serving, StopPCs
  <2>1. CASE phase'[c] = phase[c] /\ answer'[c] = answer[c]
    BY <1>0, <2>1 DEF RecordInv, Recorded
  <2>2. CASE c = x /\ call[h].pc = "prepared" /\ answer'[c] = call[h].devices
    BY <1>0, <2>2 DEF ClaimsInv, SerialInv, ProgressInv, Working
  <2> QED
    BY <1>0, <1>3, <2>1, <2>2 DEF Reply, TypeInv, ClaimsType
<1> QED
  BY <1>1, <1>2, <1>3
     DEF HandlerStep, GetClaim, EndLoop, CountAllocated, SetGauge

\* A partition of a prepared claim stays recorded.
LEMMA RecordStep ==
    ASSUME "list" \notin MayFail, TypeInv, ClaimsInv, RecordInv, [Next]_vars
    PROVE  RecordInv'
<1> USE DEF main, memory, resctrl, kubelet, bounds
<1>1. ASSUME UNCHANGED <<main, partitions, answer>>,
             \A c \in Claims : phase'[c] = "prepared" => phase[c] = "prepared"
      PROVE  RecordInv'
  BY <1>1 DEF RecordInv, Recorded, PartitionDevices
<1>2. ASSUME NEW h \in Handlers, NEW c \in Claims,
             CallPrepare(h, c) \/ CallUnprepare(h, c)
      PROVE  RecordInv'
  BY <1>1, <1>2 DEF CallPrepare, CallUnprepare, TypeInv, ClaimsType
<1>3. ASSUME NEW c \in Claims,
             \/ Schedule(c) \/ Abandon(c) \/ Deallocate(c)
             \/ PodGone(c) \/ StartContainer(c) \/ ExitContainer(c)
      PROVE  RecordInv'
  BY <1>1, <1>3
     DEF Schedule, Abandon, Deallocate, PodGone, StartContainer, ExitContainer, TypeInv, ClaimsType
<1>4. ASSUME NEW h \in Handlers, Timeout(h)
      PROVE  RecordInv'
  BY <1>1, <1>4 DEF Timeout
<1>5. CASE UNCHANGED vars
  BY <1>1, <1>5 DEF vars
<1> QED
  BY <1>2, <1>3, <1>4, <1>5, RecordMainStep, RecordHandlerStep DEF Next

\* The record survives: when claims can be listed, and the kubelet waits for each
\* answer, a driver that serves has each partition of a prepared claim recorded
\* for it, for any number of crashes, stops and changes of the layout.
THEOREM PreparedHoldsHolds ==
    (~ Timeouts /\ "list" \notin MayFail) => (Spec => []PreparedHolds)
<1> SUFFICES ASSUME ~ Timeouts, "list" \notin MayFail PROVE Spec => []PreparedHolds
  OBVIOUS
<1>1. Init => RecordInv
  BY DEF Init, RecordInv
<1>2. TypeInv /\ ClaimsInv /\ RecordInv /\ [Next]_vars => RecordInv'
  BY RecordStep
<1>3. RecordInv => PreparedHolds
  BY DEF RecordInv, Recorded, PreparedHolds, Serving
<1>4. Spec => []ClaimsInv
  BY ClaimsInvariant
<1> QED
  BY <1>1, <1>2, <1>3, <1>4, TypeInvariant, PTL DEF Spec
=============================================================================
