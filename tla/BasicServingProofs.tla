------------------------- MODULE BasicServingProofs -------------------------
(***************************************************************************)
(* What a basic driver promises while it serves: PartitionsAllocated is    *)
(* the number of partitions allocated, for any number of crashes, stops    *)
(* and calls that the kubelet has given up; and a partition that the       *)
(* scheduler has allocated to a claim can be prepared for it, in the first *)
(* life of a driver.  The hypotheses of each theorem name the faults that  *)
(* defeat it.                                                              *)
(***************************************************************************)
EXTENDS BasicDriverProofs

-----------------------------------------------------------------------------
\* The gauge, when one call runs at a time.

OneCall == \A h, k \in Handlers : h = k

\* A call that has changed the record and has not yet set the gauge.
Counting(h) ==
    \/ call[h].pc \in {"count", "set"}
    \/ call[h].pc = "loop" /\ call[h].devices # <<>>

\* Where main is when the AllocationState is that of a driver that serves, or will.
HasRecord == {"list", "recover", "publish", "up"}

\* The recovery counts each claim once: one that is still to be looked at holds
\* nothing.  A count that a call has taken is still right when it is set.
GaugeInv ==
    /\ pc \notin {"up", "stopping"} => Idle
    /\ pc \in Before => gauge = 0
    /\ pc = "list" => \A c \in Claims : HeldBy(c) = {}
    /\ pc = "recover" => \A c \in Claims : listed[c] # NoRequest => HeldBy(c) = {}
    /\ pc \in HasRecord => gauge = AllocatedCount \/ \E h \in Handlers : Counting(h)
    /\ pc = "up" => \A h \in Handlers : call[h].pc = "set" => call[h].counted = AllocatedCount

\* A process that ends forgets what it counted with what it counted.
LEMMA GaugeLost ==
    ASSUME LoseMemory, pc' \in {"down", "stopped"}
    PROVE  GaugeInv'
<1>1. Idle'
  BY NewCallType DEF LoseMemory, Idle, Working
<1>2. pc' \in Before /\ pc' \notin HasRecord
  BY DEF Before, HasRecord
<1> QED
  BY <1>1, <1>2 DEF LoseMemory, GaugeInv, HasRecord

\* The driver goes from one place to the next with the record it has.
LEMMA GaugeMoved ==
    ASSUME GaugeInv, UNCHANGED <<listed, memory, call>>,
           \/ pc' = pc
           \/ pc' = "stopping"
           \/ /\ pc \notin {"up", "stopping"} \/ Idle
              /\ \/ pc \in Before /\ pc' \in {"mkdir", "schemata", "cdi"}
                 \/ pc' \in {"uncdi", "delete"}
                 \/ pc = "publish" /\ pc' = "up"
    PROVE  GaugeInv'
<1>1. /\ \A c \in Claims : HeldBy(c)' = HeldBy(c)
      /\ AllocatedCount' = AllocatedCount
      /\ gauge' = gauge /\ listed' = listed /\ call' = call
      /\ Idle' <=> Idle
      /\ \A h \in Handlers : Counting(h)' <=> Counting(h)
  BY DEF memory, HeldBy, AllocatedCount, Idle, Working, Counting
<1>2. CASE pc' = pc
  BY <1>1, <1>2 DEF GaugeInv
<1>3. CASE pc' = "stopping"
  BY <1>1, <1>3 DEF GaugeInv, Before, HasRecord
<1>4. CASE pc \notin {"up", "stopping"} \/ Idle
  <2>1. Idle /\ \A h \in Handlers : call[h].pc = "idle"
    BY <1>4 DEF GaugeInv, Idle, Working
  <2> QED
    BY <1>1, <1>2, <1>3, <1>4, <2>1 DEF GaugeInv, Before, HasRecord
<1> QED
  BY <1>2, <1>3, <1>4

\* The recovery of a claim adds to the gauge what it adds to the record.
LEMMA GaugeRecovered ==
    ASSUME TypeInv, GaugeInv, NEW c \in Claims, RecoverClaim(c)
    PROVE  GaugeInv'
<1> DEFINE found == Recoverable(c, listed[c])
           allocated == {d \in Devices : partitions[d] \in Claims}
<1>1. /\ pc = "recover" /\ pc' = "recover" /\ listed[c] # NoRequest
      /\ partitions' = [d \in Devices |-> IF d \in found THEN c ELSE partitions[d]]
      /\ gauge' = gauge + Cardinality(found)
      /\ listed' = [listed EXCEPT ![c] = NoRequest]
      /\ UNCHANGED call
  BY DEF RecoverClaim
<1>2. Idle /\ gauge = AllocatedCount
  BY <1>1 DEF GaugeInv, HasRecord, Idle, Working, Counting
<1>3. found \subseteq Devices /\ \A d \in found : partitions[d] = Free
  <2>1. listed[c] \in Results
    BY <1>1 DEF TypeInv, ClaimsType
  <2>2. Range(listed[c]) \subseteq Devices \cup {OtherDevice}
    BY <2>1 DEF Results, Range
  <2>3. \A d \in Devices : partitions[d] # c
    BY <1>1 DEF GaugeInv, HeldBy
  <2> QED
    BY <2>2, <2>3 DEF Recoverable, CanAllocate
<1> HIDE DEF found
<1>4. {d \in Devices : partitions'[d] \in Claims} = allocated \cup found
  BY <1>1, <1>3
<1>5. allocated \cap found = {}
  BY <1>3, AllocationStateAssumption
<1>6. AllocatedCount' = AllocatedCount + Cardinality(found)
  <2>1. /\ IsFiniteSet(allocated) /\ IsFiniteSet(found)
        /\ Cardinality(allocated) \in Nat /\ Cardinality(found) \in Nat
    BY <1>3, FiniteDevices
  <2>2. Cardinality(allocated \cup found) =
            Cardinality(allocated) + Cardinality(found) - Cardinality(allocated \cap found)
    BY <2>1, FS_Union
  <2>3. Cardinality(allocated \cap found) = 0
    BY <1>5, FS_EmptySet
  <2>4. /\ AllocatedCount = Cardinality(allocated)
        /\ AllocatedCount' = Cardinality(allocated \cup found)
    BY <1>4 DEF AllocatedCount
  <2> HIDE DEF allocated
  <2> QED
    BY <2>1, <2>2, <2>3, <2>4
<1>7. \A x \in Claims : listed'[x] # NoRequest => HeldBy(x)' = {}
  <2> SUFFICES ASSUME NEW x \in Claims, listed'[x] # NoRequest, NEW d \in Devices
               PROVE  partitions'[d] # x
    BY DEF HeldBy
  <2>1. x # c /\ listed[x] # NoRequest
    BY <1>1 DEF TypeInv, ClaimsType
  <2>2. partitions[d] # x
    BY <1>1, <2>1 DEF GaugeInv, HeldBy
  <2> QED
    BY <1>1, <2>1, <2>2
<1>8. Idle'
  BY <1>1, <1>2 DEF Idle, Working
<1> QED
  BY <1>1, <1>2, <1>6, <1>7, <1>8 DEF GaugeInv, Before

\* main, from its start to its end.
LEMMA GaugeMainStep ==
    ASSUME TypeInv, GaugeInv, MainStep \/ Stop \/ Crash
    PROVE  GaugeInv'
<1> USE DEF bounds, kubelet
<1>1. CASE \/ Start \/ CreateGroupDir \/ WriteGroupSchemata \/ Publish \/ DeleteSlice
           \/ CleanupCDISpecs \/ DeleteNextGroup \/ Stop \/ Crash
  <2>1. \/ LoseMemory /\ pc' \in {"down", "stopped"}
        \/ /\ UNCHANGED <<listed, memory, call>>
           /\ \/ pc' = "stopping"
              \/ /\ pc \notin {"up", "stopping"} \/ Idle
                 /\ \/ pc \in Before /\ pc' \in {"mkdir", "schemata", "cdi"}
                    \/ pc' \in {"uncdi", "delete"}
                    \/ pc = "publish" /\ pc' = "up"
    BY <1>1 DEF Start, CreateGroupDir, WriteGroupSchemata, Publish, DeleteSlice, CleanupCDISpecs,
                DeleteNextGroup, Stop, Crash, Fatal, Exit, Proceed, NextPartition, Before, Idle,
                Working
  <2> QED
    BY <2>1, GaugeLost, GaugeMoved
<1>2. CASE WriteCDISpecs
  <2>1. CASE Fatal
    BY <2>1, GaugeLost DEF Fatal
  <2>2. CASE /\ pc' = "list"
             /\ partitions' = NewAllocationState(PartitionDevices)
             /\ UNCHANGED <<listed, gauge, call>>
    <3>1. gauge' = 0 /\ Idle /\ Idle'
      BY <1>2, <2>2 DEF WriteCDISpecs, GaugeInv, Before, Idle, Working
    <3>2. \A d \in Devices : partitions'[d] \notin Claims
      BY <2>2, AllocationStateAssumption DEF NewAllocationState
    <3>3. \A c \in Claims : HeldBy(c)' = {}
      BY <3>2 DEF HeldBy
    <3>4. AllocatedCount' = 0
      <4>1. {d \in Devices : partitions'[d] \in Claims} = {}
        BY <3>2
      <4> QED
        BY <4>1, FS_EmptySet DEF AllocatedCount
    <3> QED
      BY <2>2, <3>1, <3>3, <3>4 DEF GaugeInv, Before
  <2> QED
    BY <1>2, <2>1, <2>2 DEF WriteCDISpecs
<1>3. CASE ListClaims \/ EndRecovery
  <2>1. /\ pc \in {"list", "recover"} /\ pc' \in {"recover", "publish"}
        /\ pc' = "recover" => pc = "list"
        /\ UNCHANGED <<memory, call>>
    BY <1>3 DEF ListClaims, EndRecovery
  <2>2. Idle /\ gauge = AllocatedCount
    BY <2>1 DEF GaugeInv, HasRecord, Idle, Working, Counting
  <2>3. /\ \A c \in Claims : HeldBy(c)' = HeldBy(c)
        /\ AllocatedCount' = AllocatedCount /\ gauge' = gauge /\ Idle'
    BY <2>1, <2>2 DEF memory, HeldBy, AllocatedCount, Idle, Working
  <2> QED
    BY <2>1, <2>2, <2>3 DEF GaugeInv, Before
<1> QED
  BY <1>1, <1>2, <1>3, GaugeRecovered DEF MainStep

\* The only call there is: between its change of the record and its setting of
\* the gauge nobody else changes either.
LEMMA GaugeHandlerStep ==
    ASSUME OneCall, TypeInv, GaugeInv, NEW h \in Handlers,
           HandlerStep(h) \/ \E c \in Claims : CallPrepare(h, c) \/ CallUnprepare(h, c)
    PROVE  GaugeInv'
<1> USE DEF main, memory, bounds
<1>1. /\ UNCHANGED <<pc, listed>> /\ call \in [Handlers -> Call] /\ \A k \in Handlers : k = h
      /\ pc \in {"up", "stopping"}
  <2>1. UNCHANGED <<pc, listed>> /\ (pc = "up" \/ call[h].pc # "idle")
    BY DEF HandlerStep, GetClaim, AllocateResult, EndLoop, ReleaseClaim, CountAllocated, SetGauge,
           Reply, CallPrepare, CallUnprepare
  <2> QED
    BY <2>1 DEF OneCall, GaugeInv, Idle, Working, TypeInv, CallsType
<1>2. CASE pc = "stopping"
  BY <1>1, <1>2 DEF GaugeInv, Before, HasRecord
<1>3. CASE pc = "up"
  <2>1. /\ gauge = AllocatedCount \/ Counting(h)
        /\ call[h].pc = "set" => call[h].counted = AllocatedCount
    BY <1>1, <1>3 DEF GaugeInv, HasRecord
  <2> SUFFICES /\ gauge' = AllocatedCount' \/ Counting(h)'
               /\ call'[h].pc = "set" => call'[h].counted = AllocatedCount'
    BY <1>1, <1>3 DEF GaugeInv, HasRecord, Before
  <2>2. CASE AllocateResult(h)
    <3>1. \/ UNCHANGED <<partitions, gauge>> /\ call'[h] = [call[h] EXCEPT !.todo = Tail(@)]
          \/ call'[h] = [call[h] EXCEPT !.todo = Tail(@),
                                        !.devices = Append(@, Head(call[h].todo))]
      BY <1>1, <2>2 DEF AllocateResult
    <3>2. call'[h].pc = "loop"
      <4>1. call[h] \in Call /\ call[h].pc = "loop"
        BY <1>1, <2>2 DEF AllocateResult
      <4> QED
        BY <3>1, <4>1 DEF Call
    <3>3. CASE UNCHANGED <<partitions, gauge>> /\ call'[h] = [call[h] EXCEPT !.todo = Tail(@)]
      <4>1. call'[h].devices = call[h].devices
        BY <1>1, <3>3 DEF Call
      <4> QED
        BY <2>1, <2>2, <3>2, <3>3, <4>1 DEF AllocateResult, Counting, AllocatedCount
    <3>4. CASE call'[h] = [call[h] EXCEPT !.todo = Tail(@),
                                          !.devices = Append(@, Head(call[h].todo))]
      <4>1. call[h].devices \in Seq(Devices)
        BY <1>1 DEF Call
      <4>2. call'[h].devices = Append(call[h].devices, Head(call[h].todo))
        BY <1>1, <3>4 DEF Call
      <4>3. call'[h].devices # <<>>
        BY <4>1, <4>2
      <4> QED
        BY <3>2, <4>3 DEF Counting
    <3> QED
      BY <3>1, <3>3, <3>4
  <2>3. CASE EndLoop(h)
    <3>1. CASE call[h].devices = <<>>
      BY <1>1, <2>1, <2>3, <3>1 DEF EndLoop, Goto, Counting, AllocatedCount, Call
    <3>2. CASE call[h].devices # <<>>
      BY <1>1, <2>3, <3>2 DEF EndLoop, Goto, Counting, Call
    <3> QED
      BY <3>1, <3>2
  <2>4. CASE ReleaseClaim(h)
    BY <1>1, <2>4 DEF ReleaseClaim, Goto, Counting, Call
  <2>5. CASE CountAllocated(h)
    BY <1>1, <2>5 DEF CountAllocated, AllocatedCount, Counting, Call
  <2>6. CASE SetGauge(h)
    <3>1. call'[h].pc \in {"prepared", "unprepared"}
      BY <1>1, <2>6 DEF SetGauge, Goto, Call
    <3>2. gauge' = AllocatedCount /\ AllocatedCount' = AllocatedCount
      BY <2>1, <2>6 DEF SetGauge, AllocatedCount
    <3> QED
      BY <3>1, <3>2
  <2>7. CASE GetClaim(h) \/ Reply(h) \/ \E c \in Claims : CallPrepare(h, c) \/ CallUnprepare(h, c)
    <3>1. UNCHANGED <<partitions, gauge>> /\ ~ Counting(h)
      BY <2>7 DEF GetClaim, Reply, CallPrepare, CallUnprepare, Counting
    <3>2. call'[h].pc # "set"
      BY <1>1, <2>7, NewCallType
         DEF GetClaim, Goto, Reply, CallPrepare, CallUnprepare, NewCall, Call
    <3> QED
      BY <2>1, <3>1, <3>2 DEF AllocatedCount
  <2> QED
    BY <2>2, <2>3, <2>4, <2>5, <2>6, <2>7 DEF HandlerStep
<1> QED
  BY <1>1, <1>2, <1>3

\* The gauge follows the record in every step.
LEMMA GaugeStep ==
    ASSUME OneCall, TypeInv, GaugeInv, [Next]_vars
    PROVE  GaugeInv'
<1> USE DEF main, bounds
<1>1. ASSUME NEW c \in Claims,
             \/ Schedule(c) \/ Abandon(c) \/ Deallocate(c)
             \/ PodGone(c) \/ StartContainer(c) \/ ExitContainer(c)
      PROVE  GaugeInv'
  BY <1>1, GaugeMoved DEF Schedule, Abandon, Deallocate, PodGone, StartContainer, ExitContainer
<1>2. ASSUME NEW h \in Handlers, Timeout(h)
      PROVE  GaugeInv'
  <2>1. /\ UNCHANGED <<pc, listed, memory>>
        /\ \A k \in Handlers : /\ call'[k].pc = call[k].pc /\ call'[k].devices = call[k].devices
                                /\ call'[k].counted = call[k].counted
    BY <1>2 DEF Timeout, TypeInv, CallsType, Call
  <2>2. /\ \A c \in Claims : HeldBy(c)' = HeldBy(c)
        /\ AllocatedCount' = AllocatedCount /\ gauge' = gauge /\ (Idle' <=> Idle)
        /\ \A k \in Handlers : Counting(k)' <=> Counting(k)
    BY <2>1 DEF memory, HeldBy, AllocatedCount, Idle, Working, Counting
  <2> QED
    BY <2>1, <2>2 DEF GaugeInv
<1>3. CASE UNCHANGED vars
  BY <1>3, GaugeMoved DEF vars
<1> QED
  BY <1>1, <1>2, <1>3, GaugeMainStep, GaugeHandlerStep DEF Next

\* PartitionsAllocated is the number of allocated partitions whenever no call is
\* between its change of the record and its Set, after a recovery too, and with
\* calls that the kubelet no longer waits for: metrics.go:17.  With two calls at
\* once the one that counted first may set last (driver.go:132).
THEOREM GaugeCountsHolds == OneCall => (Spec => []GaugeCounts)
<1> SUFFICES ASSUME OneCall PROVE Spec => []GaugeCounts
  OBVIOUS
<1>1. Init => GaugeInv
  <2> SUFFICES ASSUME Init PROVE GaugeInv
    OBVIOUS
  <2>1. Idle
    BY NewCallType DEF Init, Idle, Working
  <2> QED
    BY <2>1 DEF Init, GaugeInv, HasRecord
<1>2. TypeInv /\ GaugeInv /\ [Next]_vars => GaugeInv'
  BY GaugeStep
<1>3. GaugeInv => GaugeCounts
  BY DEF GaugeInv, GaugeCounts, Counting, HasRecord
<1> QED
  BY <1>1, <1>2, <1>3, TypeInvariant, PTL DEF Spec

-----------------------------------------------------------------------------
\* What the scheduler has allocated can be prepared, in the first life of a driver:
\* until it serves there is no slice, hence no claim, and nothing to recover.

FirstLife ==
    /\ ~ Timeouts
    /\ ~ MBA
    /\ MaxCrashes = 0
    /\ MaxStops = 0
    /\ "publish" \notin MayFail

NothingYet ==
    /\ slice = NoSlice
    /\ \A c \in Claims : api[c] = NoRequest
    /\ \A c \in Claims : HeldBy(c) = {}

\* A driver that has come up stays up, with the slice it has published.
LifeInv ==
    /\ crashes \in Nat
    /\ pc # "up" => NothingYet
    /\ listed = NothingListed
    /\ slice \in {NoSlice, PartitionDevices}

\* A claim has its own results' partitions only, and has them only while the
\* kubelet wants it prepared or still has to unprepare it.
HeldInv ==
    \A c \in Claims : HeldBy(c) # {} =>
        /\ api[c] # NoRequest /\ HeldBy(c) \subseteq Range(api[c])
        /\ phase[c] \in {"wanted", "prepared", "ending"}

\* An unprepare that has gone through the partitions has left none with the claim.
ReleasedInv ==
    \A h \in Handlers :
        (Working(h) /\ call[h].reply = "unprepared" /\ call[h].pc # "take")
            => HeldBy(call[h].claim) = {}

AvailableInv == LifeInv /\ HeldInv /\ ReleasedInv

\* Steps that leave the record and the calls as they are.
LEMMA AvailableKept ==
    ASSUME AvailableInv, LifeInv', UNCHANGED <<partitions, call>>,
           \A c \in Claims : (HeldBy(c) # {} /\ phase[c] \in {"wanted", "prepared", "ending"}) =>
              api'[c] = api[c] /\ phase'[c] \in {"wanted", "prepared", "ending"}
    PROVE  AvailableInv'
<1>1. \A c \in Claims : HeldBy(c)' = HeldBy(c)
  BY DEF HeldBy
<1>2. HeldInv'
  BY <1>1 DEF AvailableInv, HeldInv
<1>3. ReleasedInv'
  BY DEF AvailableInv, ReleasedInv, Working, HeldBy
<1> QED
  BY <1>2, <1>3 DEF AvailableInv

\* main: a startup that fails leaves neither slice nor claim.
LEMMA AvailableMainStep ==
    ASSUME FirstLife, TypeInv, ClaimsInv, NoStop, AvailableInv, MainStep \/ Stop \/ Crash
    PROVE  AvailableInv'
<1> USE DEF main, memory, resctrl, kubelet, bounds
<1>0. ~ Stop /\ ~ Crash
  BY DEF Stop, Crash, FirstLife, NoStop, AvailableInv, LifeInv
<1>1. /\ pc \notin {"up"} \cup StopPCs /\ NothingYet /\ Idle
      /\ listed = NothingListed /\ crashes \in Nat
  <2>1. pc \notin {"up"} \cup StopPCs
    BY <1>0 DEF MainStep, Start, CreateGroupDir, WriteGroupSchemata, WriteCDISpecs, ListClaims,
                EndRecovery, Publish, DeleteSlice, CleanupCDISpecs, DeleteNextGroup, RecoverClaim,
                NoStop, StopPCs
  <2> QED
    BY <2>1 DEF AvailableInv, LifeInv, Idle, Working, ClaimsInv, SerialInv, StopPCs
<1>2. ASSUME NEW c \in Claims, RecoverClaim(c)
      PROVE  FALSE
  BY <1>1, <1>2 DEF RecoverClaim, NothingListed
<1>3. /\ UNCHANGED <<api, phase, answer, crashes>>
      /\ listed' = NothingListed
      /\ Idle'
      /\ \A c \in Claims : HeldBy(c)' = {}
  <2>1. /\ UNCHANGED <<api, phase, answer, crashes>>
        /\ \/ LoseMemory
           \/ UNCHANGED call /\ listed' \in {listed, api} \cup {NothingListed}
              /\ partitions' \in {partitions, NewAllocationState(PartitionDevices)}
    BY <1>0, <1>1, <1>2
       DEF MainStep, Start, CreateGroupDir, WriteGroupSchemata, WriteCDISpecs, ListClaims,
           EndRecovery, Publish, DeleteSlice, CleanupCDISpecs, DeleteNextGroup, Fatal, Proceed,
           NextPartition, StopPCs
  <2>2. api = NothingListed
    BY <1>1 DEF NothingYet, NothingListed, TypeInv, ClaimsType
  <2>3. \A c \in Claims, S \in SUBSET Devices : {d \in Devices : NewAllocationState(S)[d] = c} = {}
    BY AllocationStateAssumption DEF NewAllocationState
  <2>4. CASE LoseMemory
    BY <2>1, <2>3, <2>4, NewCallType DEF LoseMemory, HeldBy, Idle, Working
  <2>5. CASE UNCHANGED call /\ listed' \in {listed, api} \cup {NothingListed}
             /\ partitions' \in {partitions, NewAllocationState(PartitionDevices)}
    <3>1. PartitionDevices \in SUBSET Devices
      BY LayoutType DEF TypeInv
    <3>2. \A c \in Claims : HeldBy(c)' = {}
      BY <1>1, <2>3, <2>5, <3>1 DEF HeldBy, NothingYet
    <3> QED
      BY <1>1, <2>1, <2>2, <2>5, <3>2 DEF Idle, Working
  <2> QED
    BY <2>1, <2>4, <2>5
<1>4. \/ UNCHANGED slice
      \/ pc' = "up" /\ slice' = PartitionDevices'
  <2>1. CASE Publish
    BY <2>1 DEF Publish, Proceed, FirstLife, AllDevices, PartitionDevices
  <2>2. CASE ~ Publish
    BY <1>0, <1>1, <1>2, <2>2
       DEF MainStep, Start, CreateGroupDir, WriteGroupSchemata, WriteCDISpecs, ListClaims,
           EndRecovery, DeleteSlice, CleanupCDISpecs, DeleteNextGroup, StopPCs
  <2> QED
    BY <2>1, <2>2
<1>5. LifeInv'
  BY <1>1, <1>3, <1>4, Zenon DEF LifeInv, NothingYet
<1>6. HeldInv' /\ ReleasedInv'
  BY <1>3 DEF HeldInv, ReleasedInv, Idle
<1> QED
  BY <1>5, <1>6 DEF AvailableInv

\* A call: it takes partitions of its claim's results, and an unprepare gives all
\* of the claim's back before it answers.
LEMMA AvailableHandlerStep ==
    ASSUME FirstLife, TypeInv, ClaimsInv, NoStop, AvailableInv, NEW h \in Handlers, HandlerStep(h)
    PROVE  AvailableInv'
<1> USE DEF main, memory, resctrl, kubelet, bounds
<1>0. /\ call \in [Handlers -> Call] /\ call[h] \in Call /\ Working(h) /\ call[h].claim \in Claims
      /\ pc = "up" /\ UNCHANGED <<pc, perCache, listed, slice, api, crashes>>
  BY DEF HandlerStep, GetClaim, AllocateResult, EndLoop, ReleaseClaim, CountAllocated, SetGauge,
         Reply, Working, TypeInv, CallsType, CallOK, ClaimsInv, SerialInv, NoStop, StopPCs
<1> PICK c \in Claims : call[h].claim = c
  BY <1>0
<1>1. LifeInv'
  BY <1>0 DEF AvailableInv, LifeInv, PartitionDevices
<1>2. \A k \in Handlers \ {h} : call'[k] = call[k] /\ (Working(k) => call[k].claim # c)
  BY <1>0 DEF HandlerStep, GetClaim, AllocateResult, EndLoop, ReleaseClaim, CountAllocated,
              SetGauge, Reply, Goto, Working, ClaimsInv, SerialInv
<1>3. CASE AllocateResult(h)
  <2> PICK d : d = Head(call[h].todo)
    OBVIOUS
  <2>1. /\ call[h].reply = "prepared" /\ phase[c] = "wanted" /\ api[c] # NoRequest
        /\ call[h].todo \in Results /\ call[h].todo # <<>>
    BY <1>0, <1>3 DEF AllocateResult, Call, Results, ClaimsInv, SerialInv, ScheduleInv
  <2>2. d \in Range(api[c])
    <3>1. d \in Range(call[h].todo)
      BY <2>1 DEF Results, Range
    <3> QED
      BY <1>0, <2>1, <3>1 DEF ClaimsInv, ProgressInv
  <2>3. /\ \A x \in Claims \ {c} : HeldBy(x)' \subseteq HeldBy(x)
        /\ HeldBy(c)' \subseteq HeldBy(c) \cup {d}
        /\ UNCHANGED phase
    BY <1>3 DEF AllocateResult, Allocate, HeldBy, TypeInv, MemoryType, AllocationStateType
  <2>4. call'[h].reply = "prepared"
    BY <1>0, <1>3, <2>1 DEF AllocateResult, Call
  <2>5. HeldInv'
    <3> SUFFICES ASSUME NEW x \in Claims, HeldBy(x)' # {}
                 PROVE  /\ api[x] # NoRequest /\ HeldBy(x)' \subseteq Range(api[x])
                        /\ phase[x] \in {"wanted", "prepared", "ending"}
      BY <1>0, <2>3 DEF HeldInv
    <3>1. CASE x = c
      <4>1. HeldBy(c) \subseteq Range(api[c])
        BY <1>0 DEF AvailableInv, HeldInv
      <4> QED
        BY <2>1, <2>2, <2>3, <3>1, <4>1
    <3>2. CASE x # c
      BY <2>3, <3>2 DEF AvailableInv, HeldInv
    <3> QED
      BY <3>1, <3>2
  <2>6. ReleasedInv'
    <3> SUFFICES ASSUME NEW k \in Handlers, Working(k)', call'[k].reply = "unprepared",
                        call'[k].pc # "take"
                 PROVE  {e \in Devices : partitions'[e] = call'[k].claim} = {}
      BY DEF ReleasedInv, HeldBy, Working
    <3>1. k # h /\ call'[k] = call[k] /\ Working(k) /\ call[k].claim \in Claims \ {c}
      BY <1>0, <1>2, <2>4 DEF Working, TypeInv, CallsType, CallOK
    <3>2. PICK x \in Claims \ {c} : x = call[k].claim
      BY <3>1
    <3>3. HeldBy(x) = {}
      BY <3>1, <3>2 DEF AvailableInv, ReleasedInv
    <3>4. HeldBy(x)' = {}
      BY <2>3, <3>3
    <3> QED
      BY <3>1, <3>2, <3>4 DEF HeldBy
  <2> QED
    BY <1>1, <2>5, <2>6 DEF AvailableInv
<1>4. CASE ReleaseClaim(h)
  <2>1. /\ \A x \in Claims \ {c} : HeldBy(x)' = HeldBy(x)
        /\ HeldBy(c)' = {}
        /\ UNCHANGED phase
    BY <1>4, AllocationStateAssumption DEF ReleaseClaim, ReleaseByClaimUID, HeldBy
  <2>2. call'[h].claim = c
    BY <1>0, <1>4 DEF ReleaseClaim, Goto, Call
  <2>3. HeldInv'
    BY <1>0, <2>1 DEF AvailableInv, HeldInv
  <2>4. ReleasedInv'
    <3> SUFFICES ASSUME NEW k \in Handlers, Working(k)', call'[k].reply = "unprepared",
                        call'[k].pc # "take"
                 PROVE  \A e \in Devices : partitions'[e] # call'[k].claim
      BY DEF ReleasedInv, HeldBy
    <3>1. CASE k = h
      BY <2>1, <2>2, <3>1 DEF HeldBy
    <3>2. CASE k # h
      <4>1. call'[k] = call[k] /\ Working(k) /\ call[k].claim \in Claims \ {c}
        BY <1>0, <1>2, <3>2 DEF Working, TypeInv, CallsType, CallOK
      <4> QED
        BY <2>1, <4>1 DEF AvailableInv, ReleasedInv, HeldBy
    <3> QED
      BY <3>1, <3>2
  <2> QED
    BY <1>1, <2>3, <2>4 DEF AvailableInv
<1>5. CASE GetClaim(h) \/ EndLoop(h) \/ CountAllocated(h) \/ SetGauge(h)
  <2>1. /\ UNCHANGED <<partitions, phase>>
        /\ call'[h].claim = c /\ call'[h].reply = call[h].reply
    BY <1>0, <1>5 DEF GetClaim, EndLoop, CountAllocated, SetGauge, Goto, Call
  <2>2. call[h].reply = "unprepared" => call[h].pc # "take"
    BY <1>0, <1>5 DEF GetClaim, EndLoop, CountAllocated, SetGauge
  <2>3. HeldInv'
    BY <1>0, <2>1 DEF AvailableInv, HeldInv, HeldBy
  <2>4. ReleasedInv'
    <3> SUFFICES ASSUME NEW k \in Handlers, Working(k)', call'[k].reply = "unprepared",
                        call'[k].pc # "take"
                 PROVE  \A e \in Devices : partitions[e] # call'[k].claim
      BY <2>1 DEF ReleasedInv, HeldBy
    <3>1. /\ call'[k].claim = call[k].claim /\ call[k].reply = "unprepared" /\ Working(k)
          /\ call[k].pc # "take"
      BY <1>0, <1>2, <2>1, <2>2 DEF Working
    <3> QED
      BY <3>1 DEF AvailableInv, ReleasedInv, HeldBy
  <2> QED
    BY <1>1, <2>3, <2>4 DEF AvailableInv
<1>6. CASE Reply(h)
  <2>1. /\ UNCHANGED partitions /\ ~ Working(h)'
        /\ \A x \in Claims \ {c} : phase'[x] = phase[x]
        /\ \/ phase'[c] = "prepared"
           \/ call[h].pc = "unprepared"
           \/ phase'[c] = phase[c]
    BY <1>0, <1>6, NewCallType DEF Reply, Working, TypeInv, ClaimsType
  <2>2. call[h].pc = "unprepared" => HeldBy(c) = {}
    BY <1>0 DEF AvailableInv, ReleasedInv, ClaimsInv, SerialInv
  <2>3. HeldInv'
    <3>1. \A x \in Claims : HeldBy(x)' = HeldBy(x)
      BY <2>1 DEF HeldBy
    <3> QED
      BY <1>0, <2>1, <2>2, <3>1 DEF AvailableInv, HeldInv
  <2>4. ReleasedInv'
    BY <1>2, <2>1 DEF AvailableInv, ReleasedInv, Working, HeldBy
  <2> QED
    BY <1>1, <2>3, <2>4 DEF AvailableInv
<1> QED
  BY <1>3, <1>4, <1>5, <1>6 DEF HandlerStep

\* The kubelet, the scheduler and the runtime.
LEMMA AvailableStep ==
    ASSUME FirstLife, TypeInv, ClaimsInv, NoStop, AvailableInv, [Next]_vars
    PROVE  AvailableInv'
<1> USE DEF main, memory, resctrl, kubelet, bounds
<1>1. ASSUME NEW h \in Handlers, NEW c \in Claims, CallPrepare(h, c) \/ CallUnprepare(h, c)
      PROVE  AvailableInv'
  <2>1. /\ pc = "up" /\ UNCHANGED <<pc, perCache, listed, slice, api, crashes, partitions>>
        /\ \A k \in Handlers \ {h} : call'[k] = call[k]
        /\ call'[h].pc = "take" \/ call'[h].reply = "prepared"
        /\ \A x \in Claims : phase'[x] = phase[x] \/ phase'[x] = "wanted"
    BY <1>1 DEF CallPrepare, CallUnprepare, NewCall, TypeInv, CallsType, ClaimsType
  <2>2. LifeInv'
    BY <2>1 DEF AvailableInv, LifeInv, PartitionDevices
  <2>3. HeldInv'
    <3>1. \A x \in Claims : HeldBy(x)' = HeldBy(x)
      BY <2>1 DEF HeldBy
    <3> QED
      BY <2>1, <3>1 DEF AvailableInv, HeldInv
  <2>4. ReleasedInv'
    BY <2>1 DEF AvailableInv, ReleasedInv, Working, HeldBy
  <2> QED
    BY <2>2, <2>3, <2>4 DEF AvailableInv
<1>2. ASSUME NEW c \in Claims,
             \/ Schedule(c) \/ Abandon(c) \/ Deallocate(c)
             \/ PodGone(c) \/ StartContainer(c) \/ ExitContainer(c)
      PROVE  AvailableInv'
  <2>1. UNCHANGED <<pc, perCache, listed, slice, crashes, partitions, call>>
    BY <1>2 DEF Schedule, Abandon, Deallocate, PodGone, StartContainer, ExitContainer
  <2>2. LifeInv'
    <3>1. pc # "up" => api' = api
      <4>1. ASSUME pc # "up"
            PROVE  ~ Schedule(c) /\ ~ Deallocate(c)
        BY <4>1 DEF AvailableInv, LifeInv, NothingYet, Schedule, Deallocate
      <4> QED
        BY <1>2, <4>1 DEF Abandon, PodGone, StartContainer, ExitContainer
    <3>2. \A x \in Claims : HeldBy(x)' = HeldBy(x)
      BY <2>1 DEF HeldBy
    <3> QED
      BY <2>1, <3>1, <3>2 DEF AvailableInv, LifeInv, NothingYet, PartitionDevices
  <2>3. \A x \in Claims : (HeldBy(x) # {} /\ phase[x] \in {"wanted", "prepared", "ending"}) =>
              api'[x] = api[x] /\ phase'[x] \in {"wanted", "prepared", "ending"}
    <3> SUFFICES ASSUME NEW x \in Claims, phase[x] \in {"wanted", "prepared", "ending"}
                 PROVE  api'[x] = api[x] /\ phase'[x] \in {"wanted", "prepared", "ending"}
      OBVIOUS
    <3>1. api[x] # NoRequest
      BY DEF ClaimsInv, ScheduleInv
    <3> QED
      BY <1>2, <3>1 DEF Schedule, Abandon, Deallocate, PodGone, StartContainer, ExitContainer,
                        TypeInv, ClaimsType
  <2> QED
    BY <2>1, <2>2, <2>3, AvailableKept
<1>3. ASSUME NEW h \in Handlers, Timeout(h)
      PROVE  FALSE
  BY <1>3 DEF Timeout, FirstLife
<1>4. CASE UNCHANGED vars
  <2>1. UNCHANGED <<pc, perCache, listed, slice, crashes, partitions, call, api, phase>>
    BY <1>4 DEF vars
  <2>2. LifeInv'
    BY <2>1 DEF AvailableInv, LifeInv, NothingYet, HeldBy, PartitionDevices
  <2> QED
    BY <2>1, <2>2, AvailableKept
<1> QED
  BY <1>1, <1>2, <1>3, <1>4, AvailableMainStep, AvailableHandlerStep DEF Next

\* In the first life of a driver without bandwidth devices, a device that the
\* scheduler has allocated to a claim can be prepared for it, however many calls
\* run at once: README.md:40.  A bandwidth device is no partition (runbook.md:268),
\* and a restarted driver recovers claims that nobody will release.
THEOREM AllocatedPreparableHolds == FirstLife => (Spec => []AllocatedPreparable)
<1> SUFFICES ASSUME FirstLife PROVE Spec => []AllocatedPreparable
  OBVIOUS
<1>1. Init => AvailableInv
  <2> SUFFICES ASSUME Init PROVE AvailableInv
    OBVIOUS
  <2>1. \A c \in Claims : HeldBy(c) = {}
    BY AllocationStateAssumption DEF Init, NewAllocationState, HeldBy
  <2>2. \A h \in Handlers : ~ Working(h)
    BY NewCallType DEF Init, Working
  <2> QED
    BY <2>1, <2>2 DEF Init, AvailableInv, LifeInv, NothingYet, HeldInv, ReleasedInv
<1>2. TypeInv /\ ClaimsInv /\ NoStop /\ AvailableInv /\ [Next]_vars => AvailableInv'
  BY AvailableStep
<1>3. TypeInv /\ ClaimsInv /\ NoStop /\ AvailableInv => AllocatedPreparable
  <2> SUFFICES ASSUME TypeInv, ClaimsInv, NoStop, AvailableInv, NEW h \in Handlers,
                      NEW d, d = Head(call[h].todo), NEW c, c = call[h].claim,
                      call[h].pc = "loop", slice # NoSlice, d \in slice,
                      api[c] # NoRequest, d \in Range(api[c])
               PROVE  CanAllocate(d, c)
    BY DEF AllocatedPreparable
  <2>1. c \in Claims /\ pc = "up"
    BY DEF Working, TypeInv, CallsType, CallOK, ClaimsInv, SerialInv, NoStop, StopPCs
  <2>2. d \in PartitionDevices /\ d \in Devices /\ d # OtherDevice
    BY LayoutType, BasicAssumption DEF AvailableInv, LifeInv, TypeInv
  <2>3. partitions[d] \in Claims \cup {Free}
    <3>1. d \in {e \in Devices : partitions[e] # Unknown}
      BY <2>1, <2>2 DEF TypeInv, MemoryType, KnownPartitions
    <3> QED
      BY <2>2, <3>1 DEF TypeInv, MemoryType, AllocationStateType
  <2>4. ASSUME NEW x \in Claims, partitions[d] = x
        PROVE  x = c
    <3>1. d \in HeldBy(x)
      BY <2>2, <2>4 DEF HeldBy
    <3>2. api[x] # NoRequest /\ d \in Range(api[x])
      BY <3>1 DEF AvailableInv, HeldInv
    <3> QED
      BY <2>1, <2>2, <3>2 DEF ClaimsInv, ScheduleInv
  <2> QED
    BY <2>3, <2>4 DEF CanAllocate
<1>4. (Spec => []ClaimsInv) /\ (Spec => []NoStop)
  BY ClaimsInvariant, NoStopInvariant DEF FirstLife
<1> QED
  BY <1>1, <1>2, <1>3, <1>4, TypeInvariant, PTL DEF Spec
=============================================================================
