----------------------- MODULE StructuredDriverProofs -----------------------
(***************************************************************************)
(* Proofs about StructuredDriver.                                          *)
(***************************************************************************)
EXTENDS StructuredDriver, FiniteSetTheorems, TLAPS

\* The number of ways of a mask is a natural number: the count in a device ID.
LEMMA CBMCardinality ==
    ASSUME NEW cbm \in CBM
    PROVE  Cardinality(cbm) \in Nat
<1>1. IsFiniteSet(Ways)
    BY FS_Interval, NumWaysAssumption DEF Ways
<1>2. IsFiniteSet(cbm)
    BY <1>1, FS_Subset DEF CBM
<1> QED
    BY <1>2, FS_CardinalityType

\* The driver starts in a well-typed state.
LEMMA InitType == Init => TypeOK
BY StructuredAssumption, NumWaysAssumption
   DEF Init, TypeOK, WayAllocatorType, ResctrlType, NewWayAllocator, CBM,
       IdleCall, Call

\* A call that holds a reservation names a group, and a device of its CDI file.
LEMMA GroupOfType ==
    ASSUME TypeOK, CallsConsistent, NEW h \in Handlers, call[h].pc \in HoldPCs
    PROVE  /\ call[h].claim \in Claims
           /\ call[h].alloc \in Alloc
           /\ GroupOf(h) \in Groups
           /\ DeviceIDOf(h) \in DeviceID
<1>1. call[h].claim \in Claims /\ call[h].alloc \in Alloc
    BY DEF TypeOK, CallsConsistent, CallConsistent, HoldPCs, Call
<1>2. Cardinality(call[h].alloc.cbm) \in Nat
    BY <1>1, CBMCardinality DEF Alloc
<1> QED
    BY <1>1, <1>2, StructuredAssumption DEF GroupOf, DeviceIDOf, DeviceID, Files, Alloc

\* What every step that only moves a handler on has to show.
LEMMA GotoType ==
    ASSUME TypeOK, NEW h \in Handlers, NEW pc, Goto(h, pc),
           pc \in {"idle"} \cup PreparePCs \cup UnpreparePCs \cup ReplyPCs
    PROVE  call' \in [Handlers -> Call]
<1> DEFINE r == [call[h] EXCEPT !.pc = pc]
<1>1. r \in Call
    BY DEF TypeOK, Call
<1>2. call' = [call EXCEPT ![h] = r]
    BY DEF Goto
<1> HIDE DEF r
<1> QED
    BY <1>1, <1>2 DEF TypeOK

\* DeleteGroup, whatever fails in it, leaves the filesystem well typed.
LEMMA DeleteGroupType ==
    ASSUME ResctrlType, NEW g \in Groups, DeleteGroup(g)
    PROVE  ResctrlType'
BY DEF ResctrlType, DeleteGroup, Drained

\* Each step of the driver, the kubelet, the runtime or a crash keeps the types.
LEMMA TypeStep ==
    ASSUME TypeOK, CallsConsistent, [Next]_vars
    PROVE  TypeOK'
<1> USE DEF WayAllocatorType, ResctrlType, driver, resctrl, kubelet
<1> DEFINE CallType == call' \in [Handlers -> Call]
<1>1. ASSUME NEW h \in Handlers, GetClaim(h)
      PROVE  TypeOK'
  <2>1. CASE Goto(h, "error")
    <3>1. CallType
      BY <2>1, GotoType DEF ReplyPCs
    <3> QED
      BY <1>1, <3>1 DEF GetClaim, TypeOK
  <2>2. CASE ~ Goto(h, "error")
    <3>1. call[h] \in Call /\ call[h].claim \in Claims
      BY <1>1 DEF GetClaim, TypeOK, CallsConsistent, CallConsistent
    <3>2. api[call[h].claim] \in Seq({OtherDevice} \cup Device)
      BY <1>1, <2>2, <3>1, StructuredAssumption DEF GetClaim, TypeOK
    <3>3. [call[h] EXCEPT !.pc = "loop", !.todo = api[call[h].claim]] \in Call
      BY <3>1, <3>2 DEF Call, PreparePCs
    <3>4. CallType
      BY <1>1, <2>2, <3>3 DEF GetClaim, TypeOK
    <3> QED
      BY <1>1, <3>4 DEF GetClaim, TypeOK
  <2> QED
    BY <2>1, <2>2
<1>2. ASSUME NEW h \in Handlers, SkipResult(h)
      PROVE  TypeOK'
  <2>1. CallType
    <3>1. call[h] \in Call
      BY DEF TypeOK
    <3>2. call[h].todo \in Seq({OtherDevice} \cup Device) /\ call[h].todo # <<>>
      BY <1>2, <3>1 DEF SkipResult, Call
    <3>3. Tail(call[h].todo) \in Seq({OtherDevice} \cup Device)
      BY <3>2
    <3>4. [call[h] EXCEPT !.todo = Tail(call[h].todo)] \in Call
      BY <3>1, <3>3 DEF Call
    <3> QED
      BY <1>2, <3>4 DEF SkipResult, TypeOK
  <2> QED
    BY <1>2, <2>1 DEF SkipResult, TypeOK
<1>3. ASSUME NEW h \in Handlers, AllocateWays(h)
      PROVE  TypeOK'
  <2> DEFINE device == Head(call[h].todo)
  <2>1. call[h] \in Call /\ device \in Device
    BY <1>3 DEF AllocateWays, Call, TypeOK
  <2>2. CASE Goto(h, "error") /\ UNCHANGED allocated
    <3>1. CallType
      BY <2>2, GotoType DEF ReplyPCs
    <3> QED
      BY <1>3, <2>2, <3>1 DEF AllocateWays, TypeOK
  <2>3. ASSUME NEW cbm \in CBM,
               Allocate(device.cacheID, device.ways, cbm),
               GotoHolding(h, "mkdir", [cacheID |-> device.cacheID, cbm |-> cbm])
        PROVE  TypeOK'
    <3>1. [call[h] EXCEPT !.pc = "mkdir",
                          !.alloc = [cacheID |-> device.cacheID, cbm |-> cbm]] \in Call
      BY <2>1 DEF Call, PreparePCs, Alloc, Device
    <3>2. CallType
      BY <2>3, <3>1 DEF GotoHolding, TypeOK
    <3>3. allocated' \in [Domains -> CBM]
      BY <2>1, <2>3 DEF Allocate, CBM, Device, TypeOK
    <3> QED
      BY <1>3, <3>2, <3>3 DEF AllocateWays, TypeOK
  <2> QED
    BY <1>3, <2>2, <2>3 DEF AllocateWays
<1>4. ASSUME NEW h \in Handlers, EndLoop(h)
      PROVE  TypeOK'
  <2>1. CallType
    BY <1>4, GotoType DEF EndLoop, ReplyPCs
  <2> QED
    BY <1>4, <2>1 DEF EndLoop, TypeOK
<1>5. ASSUME NEW h \in Handlers, CreateGroupDir(h)
      PROVE  TypeOK'
  <2>1. GroupOf(h) \in Groups
    BY <1>5, GroupOfType DEF CreateGroupDir, HoldPCs
  <2>2. groups' \in [Groups -> {NoGroup} \cup CBM]
    BY <1>5, <2>1 DEF CreateGroupDir, Mkdir, CBM, TypeOK
  <2>3. CallType
    BY <1>5, GotoType DEF CreateGroupDir, PreparePCs
  <2> QED
    BY <1>5, <2>2, <2>3 DEF CreateGroupDir, TypeOK
<1>6. ASSUME NEW h \in Handlers, WriteGroupSchemata(h)
      PROVE  TypeOK'
  <2>1. GroupOf(h) \in Groups /\ call[h].alloc.cbm \in CBM
    BY <1>6, GroupOfType DEF WriteGroupSchemata, Alloc, HoldPCs
  <2>2. groups' \in [Groups -> {NoGroup} \cup CBM]
    BY <1>6, <2>1 DEF WriteGroupSchemata, WriteSchemata, RemoveIfEmpty, TypeOK
  <2>3. CallType
    BY <1>6, GotoType DEF WriteGroupSchemata, PreparePCs
  <2> QED
    BY <1>6, <2>2, <2>3 DEF WriteGroupSchemata, TypeOK
<1>7. ASSUME NEW h \in Handlers, WriteClaimCDISpec(h)
      PROVE  TypeOK'
  <2>1. GroupOf(h) \in Groups /\ DeviceIDOf(h) \in DeviceID
    BY <1>7, GroupOfType DEF WriteClaimCDISpec, HoldPCs
  <2>2. cdi' \in [Files -> {NoSpec} \cup CDISpec]
    BY <1>7, <2>1 DEF WriteClaimCDISpec, CDISpec, TypeOK
  <2>3. CallType
    BY <1>7, GotoType DEF WriteClaimCDISpec, PreparePCs
  <2> QED
    BY <1>7, <2>2, <2>3 DEF WriteClaimCDISpec, TypeOK
<1>8. ASSUME NEW h \in Handlers, UndoGroup(h) \/ RemoveGroup(h)
      PROVE  TypeOK'
  <2>1. GroupOf(h) \in Groups /\ DeleteGroup(GroupOf(h))
    BY <1>8, GroupOfType DEF UndoGroup, RemoveGroup, HoldPCs
  <2>2. ResctrlType'
    BY <2>1, DeleteGroupType DEF TypeOK
  <2>3. CallType
    BY <1>8, GotoType DEF UndoGroup, RemoveGroup, PreparePCs, UnpreparePCs
  <2> QED
    BY <1>8, <2>2, <2>3 DEF UndoGroup, RemoveGroup, TypeOK
<1>9. ASSUME NEW h \in Handlers, FreeWaysOnError(h) \/ ReleaseWays(h)
      PROVE  TypeOK'
  <2>1. call[h] \in Call /\ call[h].alloc \in Alloc
    BY <1>9, GroupOfType DEF FreeWaysOnError, ReleaseWays, HoldPCs, TypeOK
  <2>2. allocated' \in [Domains -> CBM]
    <3>1. Release(call[h].alloc.cacheID, call[h].alloc.cbm)
      BY <1>9 DEF FreeWaysOnError, ReleaseWays
    <3> QED
      BY <2>1, <3>1 DEF Release, CBM, TypeOK
  <2>3. /\ [call[h] EXCEPT !.pc = "error", !.alloc = NoAlloc] \in Call
        /\ [call[h] EXCEPT !.pc = "unlink", !.alloc = NoAlloc] \in Call
    BY <2>1 DEF Call, ReplyPCs, UnpreparePCs
  <2>4. CallType
    BY <1>9, <2>3 DEF FreeWaysOnError, ReleaseWays, GotoHolding, TypeOK
  <2> QED
    BY <1>9, <2>2, <2>4 DEF FreeWaysOnError, ReleaseWays, TypeOK
<1>10. ASSUME NEW h \in Handlers, StoreAlloc(h)
      PROVE  TypeOK'
  <2> DEFINE id == DeviceIDOf(h)
  <2>1. call[h].claim \in Claims /\ call[h].alloc \in Alloc /\ id \in DeviceID
    BY <1>10, GroupOfType DEF StoreAlloc, HoldPCs
  <2>2. call[h] \in Call /\ call[h].todo # <<>>
    BY <1>10 DEF StoreAlloc, CallsConsistent, CallConsistent, TypeOK
  <2> HIDE DEF id
  <2>3. [call[h] EXCEPT !.pc = "loop", !.todo = Tail(@),
                        !.ids = Append(@, id), !.alloc = NoAlloc] \in Call
    <3>1. Tail(call[h].todo) \in Seq({OtherDevice} \cup Device)
      BY <2>2 DEF Call
    <3>2. Append(call[h].ids, id) \in Seq(DeviceID)
      BY <2>1, <2>2 DEF Call
    <3> QED
      BY <2>2, <3>1, <3>2 DEF Call, PreparePCs
  <2>4. CallType
    BY <1>10, <2>3 DEF StoreAlloc, TypeOK, id
  <2> QED
    BY <1>10, <2>1, <2>4 DEF StoreAlloc, TypeOK
<1>11. ASSUME NEW h \in Handlers, TakeAlloc(h)
      PROVE  TypeOK'
  <2> DEFINE c == call[h].claim
             pc == IF structuredAllocs[c] = NoAlloc THEN "unprepared" ELSE "delete"
  <2>1. c \in Claims /\ call[h] \in Call
    BY <1>11 DEF TakeAlloc, CallsConsistent, CallConsistent, TypeOK
  <2>2. pc \in UnpreparePCs \cup ReplyPCs /\ structuredAllocs[c] \in {NoAlloc} \cup Alloc
    BY <2>1 DEF TypeOK, UnpreparePCs, ReplyPCs
  <2>3. GotoHolding(h, pc, structuredAllocs[c])
    BY <1>11 DEF TakeAlloc
  <2> HIDE DEF pc
  <2>4. [call[h] EXCEPT !.pc = pc, !.alloc = structuredAllocs[c]] \in Call
    BY <2>1, <2>2 DEF Call
  <2>5. CallType
    BY <2>3, <2>4 DEF GotoHolding, TypeOK
  <2> QED
    BY <1>11, <2>1, <2>5 DEF TakeAlloc, TypeOK
<1>12. ASSUME NEW h \in Handlers, RemoveClaimCDISpec(h)
      PROVE  TypeOK'
  <2>1. CallType
    BY <1>12, GotoType DEF RemoveClaimCDISpec, ReplyPCs
  <2> QED
    BY <1>12, <2>1 DEF RemoveClaimCDISpec, TypeOK
<1>13. ASSUME NEW h \in Handlers, Reply(h)
      PROVE  TypeOK'
  <2>1. CallType
    BY <1>13 DEF Reply, IdleCall, Call, TypeOK
  <2>2. call[h].claim \in Claims /\ call[h].ids \in Seq(DeviceID)
    BY <1>13 DEF Reply, ReplyPCs, CallsConsistent, CallConsistent, Call, TypeOK
  <2>3. phase' \in [Claims -> {"none", "wanted", "prepared", "ending"}]
    BY <1>13, <2>2 DEF Reply, TypeOK
  <2>4. answer' \in [Claims -> Seq(DeviceID)]
    <3>1. <<>> \in Seq(DeviceID)
      OBVIOUS
    <3>2. answer \in [Claims -> Seq(DeviceID)]
      BY DEF TypeOK
    <3>3. \/ answer' = [answer EXCEPT ![call[h].claim] = call[h].ids]
          \/ answer' = [answer EXCEPT ![call[h].claim] = <<>>]
          \/ answer' = answer
      BY <1>13 DEF Reply
    <3> QED
      BY <2>2, <3>1, <3>2, <3>3
  <2> QED
    BY <1>13, <2>1, <2>3, <2>4 DEF Reply, TypeOK
<1>14. ASSUME NEW h \in Handlers, Timeout(h)
      PROVE  TypeOK'
  <2>1. call[h] \in Call
    BY DEF TypeOK
  <2>2. [call[h] EXCEPT !.live = FALSE] \in Call
    BY <2>1 DEF Call
  <2>3. CallType
    BY <1>14, <2>2 DEF Timeout, TypeOK
  <2> QED
    BY <1>14, <2>3 DEF Timeout, TypeOK
<1>15. ASSUME NEW h \in Handlers, NEW c \in Claims, CallPrepare(h, c) \/ CallUnprepare(h, c)
      PROVE  TypeOK'
  <2>1. NewCall("get", c) \in Call /\ NewCall("take", c) \in Call
    BY DEF NewCall, IdleCall, Call, PreparePCs, UnpreparePCs
  <2>2. CallType
    BY <1>15, <2>1 DEF CallPrepare, CallUnprepare, TypeOK
  <2> QED
    BY <1>15, <2>2 DEF CallPrepare, CallUnprepare, TypeOK
<1>16. ASSUME NEW c \in Claims,
              Schedule(c) \/ Deallocate(c) \/ PodGone(c) \/ KubeletRestart(c) \/ ExitContainer(c)
      PROVE  TypeOK'
  <2>1. CASE Schedule(c)
    BY <2>1 DEF Schedule, TypeOK
  <2>2. CASE Deallocate(c)
    BY <2>2 DEF Deallocate, TypeOK
  <2>3. CASE PodGone(c)
    BY <2>3 DEF PodGone, TypeOK
  <2>4. CASE KubeletRestart(c)
    BY <2>4 DEF KubeletRestart, TypeOK
  <2>5. CASE ExitContainer(c)
    BY <2>5, StructuredAssumption DEF ExitContainer, TypeOK
  <2> QED
    BY <1>16, <2>1, <2>2, <2>3, <2>4, <2>5
<1>17. ASSUME NEW c \in Claims, StartContainer(c)
      PROVE  TypeOK'
  <2> DEFINE last == answer[c][Len(answer[c])]
  <2>1. answer[c] \in Seq(DeviceID) /\ answer[c] # <<>>
    BY <1>17 DEF StartContainer, CallsConsistent, TypeOK
  <2>2. last \in DeviceID /\ Len(answer[c]) \in DOMAIN answer[c]
    BY <2>1
  <2>3. cdi[last[3]] \in CDISpec
    BY <1>17, <2>2 DEF StartContainer, Resolves, DeviceID, TypeOK
  <2> QED
    BY <1>17, <2>3, StructuredAssumption DEF StartContainer, AssignPID, CDISpec, TypeOK
<1>18. CASE Crash
  <2>1. CallType
    BY <1>18 DEF Crash, IdleCall, Call
  <2>2. allocated' \in [Domains -> CBM]
    BY <1>18 DEF Crash, NewWayAllocator, CBM
  <2>3. structuredAllocs' \in [Claims -> {NoAlloc} \cup Alloc]
    BY <1>18 DEF Crash
  <2>4. crashes' \in Nat
    <3>1. crashes \in Nat /\ crashes' = crashes + 1
      BY <1>18 DEF Crash, TypeOK
    <3> QED
      BY <3>1
  <2>5. up' \in BOOLEAN
    BY <1>18 DEF Crash
  <2> QED
    BY <1>18, <2>1, <2>2, <2>3, <2>4, <2>5 DEF Crash, TypeOK
<1>19. CASE Restart
  <2>1. \A g \in Groups : Exists(g) => Schemata(g) \in [Domains -> CBM]
    BY StructuredAssumption DEF Exists, Schemata, TypeOK
  <2>2. allocated' \in [Domains -> CBM]
    BY <1>19, <2>1 DEF Restart, RebuildFromResctrl, CBM
  <2> QED
    BY <1>19, <2>2 DEF Restart, TypeOK
<1>20. CASE UNCHANGED vars
  BY <1>20 DEF vars, TypeOK
<1> QED
  BY <1>1, <1>2, <1>3, <1>4, <1>5, <1>6, <1>7, <1>8, <1>9, <1>10, <1>11, <1>12, <1>13,
     <1>14, <1>15, <1>16, <1>17, <1>18, <1>19, <1>20
  DEF Next, HandlerStep

\* The fields of the call that a step changes.
LEMMA Moved ==
    ASSUME TypeOK, NEW h \in Handlers, NEW pc, Goto(h, pc)
    PROVE  /\ call'[h].pc = pc
           /\ call'[h].claim = call[h].claim
           /\ call'[h].todo = call[h].todo
           /\ call'[h].alloc = call[h].alloc
           /\ call'[h].ids = call[h].ids
           /\ \A k \in Handlers \ {h} : call'[k] = call[k]
           /\ \E x : call' = [call EXCEPT ![h] = x]
<1>1. call[h] \in Call
  BY DEF TypeOK
<1> QED
  BY <1>1 DEF Goto, Call, TypeOK

\* The same for a step that also takes or gives up a reservation.
LEMMA MovedAlloc ==
    ASSUME TypeOK, NEW h \in Handlers, NEW pc, NEW alloc,
           GotoHolding(h, pc, alloc)
    PROVE  /\ call'[h].pc = pc
           /\ call'[h].claim = call[h].claim
           /\ call'[h].todo = call[h].todo
           /\ call'[h].alloc = alloc
           /\ call'[h].ids = call[h].ids
           /\ \A k \in Handlers \ {h} : call'[k] = call[k]
           /\ \E x : call' = [call EXCEPT ![h] = x]
<1>1. call[h] \in Call
  BY DEF TypeOK
<1> QED
  BY <1>1 DEF GotoHolding, Call, TypeOK

\* Each step keeps what a handler holds in line with where it is in the code.
LEMMA CallsStep ==
    ASSUME TypeOK, CallsConsistent, [Next]_vars
    PROVE  CallsConsistent'
<1> USE DEF driver, resctrl, kubelet, HoldPCs
<1> DEFINE EntriesConsistent ==
              \A c \in Claims :
                  /\ structuredAllocs[c] # NoAlloc => up
                  /\ phase[c] = "prepared" => answer[c] # <<>>
\* A step of one handler leaves the calls of the others alone.
<1>0. ASSUME NEW h \in Handlers, NEW x, call' = [call EXCEPT ![h] = x], up' = up,
             CallConsistent(h)', EntriesConsistent'
      PROVE  CallsConsistent'
  <2>1. ASSUME NEW k \in Handlers, k # h
        PROVE  CallConsistent(k)'
    BY <1>0, <2>1 DEF CallsConsistent, CallConsistent, TypeOK
  <2> QED
    BY <1>0, <2>1 DEF CallsConsistent
<1>1. ASSUME NEW h \in Handlers, GetClaim(h) \/ SkipResult(h) \/ EndLoop(h)
      PROVE  CallsConsistent'
  <2>0. call[h] \in Call /\ CallConsistent(h)
    BY DEF TypeOK, CallsConsistent
  <2>1. /\ call[h].pc \in {"get", "loop"}
        /\ call'[h].pc \in {"loop", "error", "prepared"}
        /\ call'[h].pc = "prepared" => call[h].ids # <<>>
        /\ call'[h].claim = call[h].claim
        /\ call'[h].alloc = call[h].alloc
        /\ call'[h].ids = call[h].ids
        /\ up' = up
    <3>1. CASE GetClaim(h) /\ ~ Goto(h, "error")
      <4>1. call' = [call EXCEPT ![h].pc = "loop", ![h].todo = api[call[h].claim]]
        BY <3>1 DEF GetClaim
      <4> QED
        BY <2>0, <3>1, <4>1 DEF GetClaim, Call, TypeOK
    <3>2. CASE GetClaim(h) /\ Goto(h, "error")
      BY <3>2, Moved DEF GetClaim
    <3>3. CASE SkipResult(h)
      BY <2>0, <3>3 DEF SkipResult, Call, TypeOK
    <3>4. CASE EndLoop(h)
      BY <3>4, Moved DEF EndLoop
    <3> QED
      BY <1>1, <3>1, <3>2, <3>3, <3>4
  <2>2. CallConsistent(h)'
    BY <2>0, <2>1 DEF CallConsistent
  <2>3. PICK x : call' = [call EXCEPT ![h] = x]
    BY <1>1 DEF GetClaim, SkipResult, EndLoop, Goto
  <2>4. EntriesConsistent' /\ up' = up
    BY <1>1 DEF GetClaim, SkipResult, EndLoop, CallsConsistent
  <2> QED
    BY <1>0, <2>2, <2>3, <2>4
<1>2. ASSUME NEW h \in Handlers, AllocateWays(h)
      PROVE  CallsConsistent'
  <2>0. Head(call[h].todo) \in Device /\ call[h] \in Call
    BY <1>2 DEF AllocateWays, Call, TypeOK
  <2>1. CallConsistent(h)'
    <3>1. ASSUME NEW cbm \in CBM
          PROVE  [cacheID |-> Head(call[h].todo).cacheID, cbm |-> cbm] # NoAlloc
      BY <2>0, StructuredAssumption DEF Alloc, Device
    <3>2. CASE Goto(h, "error") /\ up' = up
      BY <1>2, <3>2, Moved DEF AllocateWays, CallsConsistent, CallConsistent
    <3>3. ASSUME NEW cbm \in CBM,
                 GotoHolding(h, "mkdir", [cacheID |-> Head(call[h].todo).cacheID, cbm |-> cbm])
          PROVE  CallConsistent(h)'
      <4>1. /\ call'[h].pc = "mkdir"
            /\ call'[h].claim = call[h].claim
            /\ call'[h].todo = call[h].todo
            /\ call'[h].alloc = [cacheID |-> Head(call[h].todo).cacheID, cbm |-> cbm]
        BY <3>3, MovedAlloc
      <4> QED
        BY <1>2, <3>1, <4>1 DEF AllocateWays, CallsConsistent, CallConsistent
    <3> QED
      BY <1>2, <3>2, <3>3 DEF AllocateWays
  <2>2. PICK x : call' = [call EXCEPT ![h] = x]
    BY <1>2 DEF AllocateWays, Goto, GotoHolding
  <2>3. EntriesConsistent' /\ up' = up
    BY <1>2 DEF AllocateWays, CallsConsistent
  <2> QED
    BY <1>0, <2>1, <2>2, <2>3
<1>3. ASSUME NEW h \in Handlers,
             CreateGroupDir(h) \/ WriteGroupSchemata(h) \/ WriteClaimCDISpec(h)
                \/ UndoGroup(h) \/ RemoveGroup(h) \/ RemoveClaimCDISpec(h)
      PROVE  CallsConsistent'
  <2>1. CallConsistent(h)'
    <3>1. PICK pc : /\ Goto(h, pc)
                    /\ pc \in HoldPCs <=> call[h].pc \in HoldPCs
                    /\ pc \in {"schemata", "cdi", "store"} =>
                            call[h].pc \in {"mkdir", "schemata", "cdi"}
                    /\ pc \notin {"mkdir", "prepared"}
                    /\ call[h].pc # "idle"
                    /\ up' = up
      BY <1>3 DEF CreateGroupDir, WriteGroupSchemata, WriteClaimCDISpec, UndoGroup,
                  RemoveGroup, RemoveClaimCDISpec
    <3> HIDE DEF HoldPCs
    <3> QED
      BY <3>1, Moved DEF CallsConsistent, CallConsistent
  <2>2. PICK x : call' = [call EXCEPT ![h] = x]
    BY <1>3 DEF CreateGroupDir, WriteGroupSchemata, WriteClaimCDISpec, UndoGroup, RemoveGroup,
                RemoveClaimCDISpec, Goto
  <2>3. EntriesConsistent' /\ up' = up
    BY <1>3 DEF CreateGroupDir, WriteGroupSchemata, WriteClaimCDISpec, UndoGroup, RemoveGroup,
                RemoveClaimCDISpec, CallsConsistent
  <2> QED
    BY <1>0, <2>1, <2>2, <2>3
<1>4. ASSUME NEW h \in Handlers,
             FreeWaysOnError(h) \/ ReleaseWays(h) \/ StoreAlloc(h) \/ TakeAlloc(h)
      PROVE  CallsConsistent'
  <2>1. CallConsistent(h)'
    <3>1. CASE FreeWaysOnError(h) \/ ReleaseWays(h)
      <4>1. PICK pc \in {"error", "unlink"} : GotoHolding(h, pc, NoAlloc)
        BY <3>1 DEF FreeWaysOnError, ReleaseWays
      <4>2. call[h].pc # "idle" /\ up' = up
        BY <3>1 DEF FreeWaysOnError, ReleaseWays
      <4> QED
        BY <4>1, <4>2, MovedAlloc DEF CallsConsistent, CallConsistent
    <3>2. CASE StoreAlloc(h)
      <4>1. call[h] \in Call
        BY DEF TypeOK
      <4>2. call'[h].pc = "loop" /\ call'[h].alloc = NoAlloc /\ call'[h].claim = call[h].claim
        BY <3>2, <4>1 DEF StoreAlloc, Call, TypeOK
      <4> QED
        BY <3>2, <4>2 DEF StoreAlloc, CallsConsistent, CallConsistent
    <3>3. CASE TakeAlloc(h)
      <4> DEFINE alloc == structuredAllocs[call[h].claim]
                 pc == IF alloc = NoAlloc THEN "unprepared" ELSE "delete"
      <4>1. GotoHolding(h, pc, alloc)
        BY <3>3 DEF TakeAlloc
      <4>2. call'[h].pc = pc /\ call'[h].alloc = alloc /\ call'[h].claim = call[h].claim
        BY <4>1, MovedAlloc
      <4> QED
        BY <3>3, <4>2 DEF TakeAlloc, CallsConsistent, CallConsistent
    <3> QED
      BY <1>4, <3>1, <3>2, <3>3
  <2>2. PICK x : call' = [call EXCEPT ![h] = x]
    BY <1>4 DEF FreeWaysOnError, ReleaseWays, StoreAlloc, TakeAlloc, GotoHolding
  <2>3. up' = up /\ up
    BY <1>4 DEF FreeWaysOnError, ReleaseWays, StoreAlloc, TakeAlloc, CallsConsistent, CallConsistent
  <2>4. EntriesConsistent'
    BY <1>4, <2>3 DEF FreeWaysOnError, ReleaseWays, StoreAlloc, TakeAlloc, CallsConsistent
  <2> QED
    BY <1>0, <2>1, <2>2, <2>3, <2>4
<1>5. ASSUME NEW h \in Handlers, Reply(h)
      PROVE  CallsConsistent'
  <2>1. CallConsistent(h)'
    BY <1>5 DEF Reply, IdleCall, CallConsistent, TypeOK
  <2>2. call' = [call EXCEPT ![h] = IdleCall]
    BY <1>5 DEF Reply
  <2>3. EntriesConsistent' /\ up' = up
    BY <1>5 DEF Reply, CallsConsistent, CallConsistent, TypeOK
  <2> QED
    BY <1>0, <2>1, <2>2, <2>3
<1>6. ASSUME NEW h \in Handlers, Timeout(h)
      PROVE  CallsConsistent'
  <2>1. CallConsistent(h)'
    BY <1>6 DEF Timeout, CallsConsistent, CallConsistent, TypeOK
  <2>2. PICK x : call' = [call EXCEPT ![h] = x]
    BY <1>6 DEF Timeout
  <2>3. EntriesConsistent' /\ up' = up
    BY <1>6 DEF Timeout, CallsConsistent
  <2> QED
    BY <1>0, <2>1, <2>2, <2>3
<1>7. ASSUME NEW h \in Handlers, NEW c \in Claims, CallPrepare(h, c) \/ CallUnprepare(h, c)
      PROVE  CallsConsistent'
  <2>1. CallConsistent(h)'
    BY <1>7 DEF CallPrepare, CallUnprepare, NewCall, CallConsistent, TypeOK
  <2>2. PICK x : call' = [call EXCEPT ![h] = x]
    BY <1>7 DEF CallPrepare, CallUnprepare
  <2>3. EntriesConsistent' /\ up' = up
    BY <1>7 DEF CallPrepare, CallUnprepare, CallsConsistent
  <2> QED
    BY <1>0, <2>1, <2>2, <2>3
<1>8. ASSUME NEW c \in Claims,
             Schedule(c) \/ Deallocate(c) \/ PodGone(c) \/ KubeletRestart(c)
                \/ StartContainer(c) \/ ExitContainer(c)
      PROVE  CallsConsistent'
  <2>1. call' = call /\ up' = up
    BY <1>8 DEF Schedule, Deallocate, PodGone, KubeletRestart, StartContainer, ExitContainer
  <2>2. EntriesConsistent'
    BY <1>8 DEF Schedule, Deallocate, PodGone, KubeletRestart, StartContainer, ExitContainer,
                CallsConsistent, TypeOK
  <2> QED
    BY <2>1, <2>2 DEF CallsConsistent, CallConsistent
<1>9. CASE Crash
  BY <1>9 DEF Crash, IdleCall, CallsConsistent, CallConsistent
<1>10. CASE Restart
  <2>1. \A h \in Handlers : CallConsistent(h)'
    BY <1>10 DEF Restart, CallsConsistent, CallConsistent
  <2>2. EntriesConsistent'
    BY <1>10 DEF Restart, CallsConsistent
  <2> QED
    BY <2>1, <2>2 DEF CallsConsistent
<1>11. CASE UNCHANGED vars
  BY <1>11 DEF vars, CallsConsistent, CallConsistent
<1> QED
  BY <1>1, <1>2, <1>3, <1>4, <1>5, <1>6, <1>7, <1>8, <1>9, <1>10, <1>11
  DEF Next, HandlerStep

\* No call has begun.
LEMMA InitCalls == Init => CallsConsistent
BY DEF Init, IdleCall, CallsConsistent, CallConsistent, HoldPCs

\* Every variable keeps its type, whatever fails and however calls overlap.
THEOREM TypeCorrect == Spec => []TypeOK
<1>1. Init => TypeOK /\ CallsConsistent
  BY InitType, InitCalls
<1>2. TypeOK /\ CallsConsistent /\ [Next]_vars => (TypeOK /\ CallsConsistent)'
  BY TypeStep, CallsStep
<1> QED
  BY <1>1, <1>2, PTL DEF Spec

-----------------------------------------------------------------------------
\* Isolation.  It needs two things of the environment: that DeleteGroup does not
\* fail on a group that is there, and that RebuildFromResctrl can read all.

NoLostGroup == "delete" \notin MayFail /\ "rebuild" \notin MayFail

OwnershipCore ==
    OwnersInUse /\ OwnersDisjoint /\ GroupsOwned /\ GroupsIsolated /\ GroupsReserved

\* What an owner is to release is an allocation, of a domain of the node.
LEMMA OwnerType ==
    ASSUME TypeOK, NEW o \in Owners
    PROVE  /\ AllocOf(o) \in Alloc
           /\ AllocOf(o).cacheID \in Domains
           /\ AllocOf(o).cbm \in CBM
<1>1. AllocOf(o) \in {NoAlloc} \cup Alloc
  <2>1. CASE o \in Handlers
    BY <2>1 DEF AllocOf, TypeOK, Call
  <2>2. CASE o \notin Handlers
    BY <2>2 DEF AllocOf, Owners, TypeOK
  <2> QED
    BY <2>1, <2>2
<1> QED
  BY <1>1 DEF Owners, Alloc

\* A step that reserves and releases nothing, writes no group, and takes no
\* handler past its DeleteGroup while its group is still written.
LEMMA NothingGranted ==
    ASSUME TypeOK, OwnershipInv,
           up' = up, allocated' = allocated, structuredAllocs' = structuredAllocs,
           \A g \in Groups : Written(g)' => Written(g) /\ groups'[g] = groups[g],
           \A h \in Handlers :
               /\ call'[h].alloc = call[h].alloc
               /\ call[h].alloc # NoAlloc =>
                     /\ call'[h].claim = call[h].claim
                     /\ call[h].pc \in WrittenPCs =>
                           call'[h].pc \in WrittenPCs \/ ~ Written(GroupOf(h))'
    PROVE  OwnershipCore'
<1>1. /\ Owners' = Owners
      /\ \A o \in Owners : AllocOf(o)' = AllocOf(o)
      /\ \A o \in Owners : ClaimOf(o)' = ClaimOf(o)
  BY DEF Owners, AllocOf, ClaimOf
<1>2. OwnersInUse'
  BY <1>1 DEF OwnershipInv, OwnersInUse
<1>3. OwnersDisjoint'
  BY <1>1 DEF OwnershipInv, OwnersDisjoint
<1>4. GroupsIsolated'
  BY DEF OwnershipInv, GroupsIsolated
<1>5. GroupsReserved'
  BY DEF OwnershipInv, GroupsReserved
<1>6. GroupsOwned'
  <2> SUFFICES ASSUME NEW o \in Owners, NEW g \in Groups,
                      Written(g)', g[1] = AllocOf(o).cacheID,
                      groups[g] \cap AllocOf(o).cbm # {}
               PROVE  /\ g[2] = ClaimOf(o)
                      /\ groups[g] = AllocOf(o).cbm
                      /\ o \in Handlers => call'[o].pc \in WrittenPCs
    BY <1>1 DEF GroupsOwned
  <2>1. /\ g[2] = ClaimOf(o)
        /\ groups[g] = AllocOf(o).cbm
        /\ o \in Handlers => call[o].pc \in WrittenPCs
    BY DEF OwnershipInv, GroupsOwned
  <2>2. ASSUME o \in Handlers
        PROVE  call'[o].pc \in WrittenPCs
    <3>1. g = <<g[1], g[2]>>
      BY StructuredAssumption
    <3>2. GroupOf(o)' = g
      BY <2>1, <2>2, <3>1 DEF GroupOf, ClaimOf, AllocOf, Owners
    <3> QED
      BY <2>1, <2>2, <3>2 DEF Owners, AllocOf
  <2> QED
    BY <2>1, <2>2
<1> QED
  BY <1>2, <1>3, <1>4, <1>5, <1>6 DEF OwnershipCore

\* Allocate answers a run of ways none of which is in use.
LEMMA AllocateFreeRun ==
    ASSUME NEW d, NEW ways, NEW cbm, Allocate(d, ways, cbm)
    PROVE  Contiguous(cbm) /\ cbm \cap allocated[d] = {}
<1>1. PICK start \in Ways : IsFirstFit(allocated[d], ways, start) /\ cbm = buildWayMask(start, ways)
  BY DEF Allocate
<1>2. ways \in 1 .. NumWays
  BY DEF Allocate, CanAllocate
<1>3. start + ways - 1 \in Ways
  BY <1>1, <1>2, NumWaysAssumption DEF IsFirstFit, Fits, Ways
<1>4. Contiguous(cbm)
  BY <1>1, <1>2, <1>3, NumWaysAssumption DEF Contiguous, buildWayMask, Ways
<1> QED
  BY <1>1, <1>4 DEF IsFirstFit, Fits

\* AllocateWays: the new owner's ways were in use by nobody and in no group.
LEMMA Reserved ==
    ASSUME TypeOK, OwnershipInv, NEW h \in Handlers, NEW cbm \in CBM, NEW d \in Domains,
           NEW ways, Allocate(d, ways, cbm),
           call[h].alloc = NoAlloc, up,
           GotoHolding(h, "mkdir", [cacheID |-> d, cbm |-> cbm]),
           UNCHANGED <<up, structuredAllocs, groups>>
    PROVE  OwnershipCore'
<1> DEFINE new == [cacheID |-> d, cbm |-> cbm]
<1>1. /\ call'[h].alloc = new /\ call'[h].claim = call[h].claim /\ call'[h].pc = "mkdir"
      /\ \A k \in Handlers \ {h} : call'[k] = call[k]
  BY MovedAlloc
<1>2. new \in Alloc /\ new # NoAlloc /\ new.cacheID = d /\ new.cbm = cbm
  BY StructuredAssumption DEF Alloc
<1> HIDE DEF new
<1>3. /\ h \notin Owners /\ Owners' = Owners \cup {h}
      /\ AllocOf(h)' = new
      /\ \A o \in Owners : AllocOf(o)' = AllocOf(o) /\ ClaimOf(o)' = ClaimOf(o)
  BY <1>1, <1>2, StructuredAssumption DEF Owners, AllocOf, ClaimOf
<1>4. /\ cbm \cap allocated[d] = {}
      /\ Contiguous(cbm)
      /\ allocated' = [allocated EXCEPT ![d] = @ \cup cbm]
  BY AllocateFreeRun DEF Allocate
<1>5. \A e \in Domains : allocated[e] \subseteq allocated'[e]
  BY <1>4 DEF TypeOK, WayAllocatorType
<1>6. cbm \subseteq allocated'[d]
  BY <1>4 DEF TypeOK, WayAllocatorType
<1>7. OwnersInUse'
  BY <1>2, <1>3, <1>4, <1>5, <1>6, OwnerType DEF OwnershipInv, OwnersInUse
<1>8. \A o \in Owners : AllocOf(o).cacheID = d => AllocOf(o).cbm \cap cbm = {}
  BY <1>4 DEF OwnershipInv, OwnersInUse
<1>9. OwnersDisjoint'
  BY <1>2, <1>3, <1>8 DEF OwnershipInv, OwnersDisjoint
<1>10. \A g \in Groups : (Written(g) /\ g[1] = d) => groups[g] \cap cbm = {}
  BY <1>4 DEF OwnershipInv, GroupsReserved
<1>11. \A g \in Groups : Written(g)' <=> Written(g)
  BY DEF Written, Exists
<1>12. GroupsOwned'
  <2> SUFFICES ASSUME NEW o \in Owners', NEW g \in Groups,
                      Written(g), g[1] = AllocOf(o)'.cacheID,
                      groups[g] \cap AllocOf(o)'.cbm # {}
               PROVE  /\ g[2] = ClaimOf(o)'
                      /\ groups[g] = AllocOf(o)'.cbm
                      /\ o \in Handlers => call'[o].pc \in WrittenPCs
    BY <1>11 DEF GroupsOwned
  <2>1. o # h
    BY <1>2, <1>3, <1>10
  <2> QED
    BY <1>1, <1>3, <2>1 DEF OwnershipInv, GroupsOwned
<1>13. GroupsIsolated'
  BY <1>11 DEF OwnershipInv, GroupsIsolated
<1>14. GroupsReserved'
  <2>1. \A g \in Groups : g[1] \in Domains
    BY StructuredAssumption
  <2> QED
    BY <1>5, <1>11, <2>1 DEF OwnershipInv, GroupsReserved
<1> QED
  BY <1>7, <1>9, <1>12, <1>13, <1>14 DEF OwnershipCore

\* The schemata write: nobody else has any of the ways, owner or group.
LEMMA GroupWritten ==
    ASSUME TypeOK, OwnershipInv, NEW h \in Handlers, call[h].pc = "schemata",
           WriteSchemata(GroupOf(h), call[h].alloc.cbm), Goto(h, "cdi"),
           UNCHANGED <<up, allocated, structuredAllocs>>
    PROVE  OwnershipCore'
<1> DEFINE mine == GroupOf(h)
           cbm == call[h].alloc.cbm
<1>1. /\ h \in Owners /\ AllocOf(h) = call[h].alloc /\ ClaimOf(h) = call[h].claim
      /\ mine \in Groups /\ mine[1] = AllocOf(h).cacheID /\ mine[2] = ClaimOf(h)
  BY GroupOfType DEF HoldPCs, OwnershipInv, CallsConsistent, CallConsistent, Owners, AllocOf, ClaimOf, GroupOf
<1>2. /\ groups' = [groups EXCEPT ![mine] = cbm] /\ groups'[mine] = cbm
      /\ \A g \in Groups \ {mine} : groups'[g] = groups[g]
  BY <1>1 DEF WriteSchemata, TypeOK, ResctrlType
<1>3. /\ call'[h].pc = "cdi" /\ call'[h].alloc = call[h].alloc /\ call'[h].claim = call[h].claim
      /\ \A k \in Handlers \ {h} : call'[k] = call[k]
  BY Moved
<1>4. /\ Owners' = Owners
      /\ \A o \in Owners : AllocOf(o)' = AllocOf(o) /\ ClaimOf(o)' = ClaimOf(o)
  BY <1>3 DEF Owners, AllocOf, ClaimOf
<1>5. \A g \in Groups \ {mine} : Written(g)' <=> Written(g)
  BY <1>2 DEF Written, Exists
<1>6. \A g \in Groups : (Written(g) /\ g[1] = mine[1]) => groups[g] \cap cbm = {}
  BY <1>1 DEF OwnershipInv, GroupsOwned, WrittenPCs
<1>7. GroupsIsolated'
  BY <1>2, <1>5, <1>6 DEF OwnershipInv, GroupsIsolated
<1>8. GroupsReserved'
  BY <1>1, <1>2, <1>5 DEF OwnershipInv, GroupsReserved, OwnersInUse
<1>9. GroupsOwned'
  <2> SUFFICES ASSUME NEW o \in Owners, NEW g \in Groups,
                      Written(g)', g[1] = AllocOf(o).cacheID,
                      groups'[g] \cap AllocOf(o).cbm # {}
               PROVE  /\ g[2] = ClaimOf(o)
                      /\ groups'[g] = AllocOf(o).cbm
                      /\ o \in Handlers => call'[o].pc \in WrittenPCs
    BY <1>4 DEF GroupsOwned
  <2>1. CASE g = mine
    <3>1. o = h
      BY <1>1, <1>2, <2>1 DEF OwnershipInv, OwnersDisjoint
    <3> QED
      BY <1>1, <1>2, <1>3, <2>1, <3>1 DEF WrittenPCs
  <2>2. CASE g # mine
    <3>1. /\ g[2] = ClaimOf(o) /\ groups[g] = AllocOf(o).cbm
          /\ o \in Handlers => call[o].pc \in WrittenPCs
      BY <1>2, <1>5, <2>2 DEF OwnershipInv, GroupsOwned
    <3>2. o # h
      BY <3>1 DEF WrittenPCs
    <3> QED
      BY <1>2, <1>3, <2>2, <3>1, <3>2
  <2> QED
    BY <2>1, <2>2
<1>10. OwnersInUse' /\ OwnersDisjoint'
  BY <1>4 DEF OwnershipInv, OwnersInUse, OwnersDisjoint
<1> QED
  BY <1>7, <1>8, <1>9, <1>10 DEF OwnershipCore

\* Release: no group has the ways any more, nor has another owner.
LEMMA Released ==
    ASSUME TypeOK, OwnershipInv, NEW h \in Handlers, call[h].pc \in {"free", "release"},
           Release(call[h].alloc.cacheID, call[h].alloc.cbm),
           NEW pc, GotoHolding(h, pc, NoAlloc),
           UNCHANGED <<up, structuredAllocs, groups>>
    PROVE  OwnershipCore'
<1> DEFINE d == call[h].alloc.cacheID
           cbm == call[h].alloc.cbm
<1>1. /\ h \in Owners /\ AllocOf(h) = call[h].alloc
      /\ d \in Domains /\ cbm \in CBM
  BY GroupOfType DEF HoldPCs, OwnershipInv, CallsConsistent, CallConsistent, Owners, AllocOf, Alloc
<1>2. /\ call'[h].alloc = NoAlloc
      /\ \A k \in Handlers \ {h} : call'[k] = call[k]
  BY MovedAlloc
<1>3. /\ Owners' = Owners \ {h}
      /\ \A o \in Owners' : AllocOf(o)' = AllocOf(o) /\ ClaimOf(o)' = ClaimOf(o)
  BY <1>2, StructuredAssumption DEF Owners, AllocOf, ClaimOf
<1>4. /\ allocated'[d] = allocated[d] \ cbm
      /\ \A e \in Domains \ {d} : allocated'[e] = allocated[e]
  BY <1>1 DEF Release, TypeOK, WayAllocatorType
<1>5. \A g \in Groups : Written(g)' <=> Written(g)
  BY DEF Written, Exists
<1>6. OwnersInUse'
  <2> SUFFICES ASSUME NEW o \in Owners \ {h}
               PROVE  /\ Contiguous(AllocOf(o).cbm)
                      /\ AllocOf(o).cbm \subseteq allocated'[AllocOf(o).cacheID]
    BY <1>3 DEF OwnersInUse
  <2>1. /\ Contiguous(AllocOf(o).cbm)
        /\ AllocOf(o).cbm \subseteq allocated[AllocOf(o).cacheID]
        /\ AllocOf(o).cacheID \in Domains
    BY OwnerType DEF OwnershipInv, OwnersInUse
  <2>2. AllocOf(o).cacheID = d => AllocOf(o).cbm \cap cbm = {}
    BY <1>1 DEF OwnershipInv, OwnersDisjoint
  <2> QED
    BY <1>4, <2>1, <2>2
<1>7. OwnersDisjoint'
  BY <1>3 DEF OwnershipInv, OwnersDisjoint
<1>8. GroupsOwned'
  BY <1>2, <1>3, <1>5 DEF OwnershipInv, GroupsOwned
<1>9. GroupsIsolated'
  BY <1>5 DEF OwnershipInv, GroupsIsolated
<1>10. GroupsReserved'
  <2> SUFFICES ASSUME up, NEW g \in Groups, Written(g)
               PROVE  groups[g] \subseteq allocated'[g[1]]
    BY <1>5 DEF GroupsReserved
  <2>1. groups[g] \subseteq allocated[g[1]] /\ g[1] \in Domains
    BY StructuredAssumption DEF OwnershipInv, GroupsReserved
  <2>2. g[1] = d => groups[g] \cap cbm = {}
    BY <1>1 DEF OwnershipInv, GroupsOwned, WrittenPCs
  <2> QED
    BY <1>4, <2>1, <2>2
<1> QED
  BY <1>6, <1>7, <1>8, <1>9, <1>10 DEF OwnershipCore

\* A reservation goes from the call to the map or back, with its claim.
LEMMA Stored ==
    ASSUME TypeOK, OwnershipInv, NEW h \in Handlers, StoreAlloc(h)
    PROVE  OwnershipCore'
<1> PICK c \in Claims : c = call[h].claim
  BY DEF StoreAlloc, OwnershipInv, CallsConsistent, CallConsistent
<1>0. h \in Owners /\ call[h] \in Call /\ c \notin Handlers /\ c # h
  BY StructuredAssumption
  DEF StoreAlloc, HoldPCs, OwnershipInv, CallsConsistent, CallConsistent, Owners, AllocOf, TypeOK
<1>1. /\ call'[h].alloc = NoAlloc
      /\ \A k \in Handlers \ {h} : call'[k] = call[k]
  BY <1>0 DEF StoreAlloc, Call, TypeOK
<1>2. /\ structuredAllocs'[c] = call[h].alloc
      /\ \A x \in Claims \ {c} : structuredAllocs'[x] = structuredAllocs[x]
      /\ up' = up /\ allocated' = allocated /\ groups' = groups
  BY <1>0 DEF StoreAlloc, TypeOK, resctrl
<1>3. /\ h \notin Owners'
      /\ AllocOf(c)' = AllocOf(h) /\ ClaimOf(c)' = ClaimOf(h)
      /\ \A o \in Owners' \ {c} : o \in Owners \ {h} /\ AllocOf(o)' = AllocOf(o) /\ ClaimOf(o)' = ClaimOf(o)
  <2>1. h \notin Owners'
    BY <1>0, <1>1 DEF Owners, AllocOf
  <2>2. AllocOf(c)' = AllocOf(h) /\ ClaimOf(c)' = ClaimOf(h)
    BY <1>0, <1>2 DEF AllocOf, ClaimOf
  <2>3. ASSUME NEW o \in Owners', o # c
        PROVE  o \in Owners \ {h} /\ AllocOf(o)' = AllocOf(o) /\ ClaimOf(o)' = ClaimOf(o)
    BY <1>1, <1>2, <2>1, <2>3 DEF Owners, AllocOf, ClaimOf
  <2> QED
    BY <2>1, <2>2, <2>3
<1>4. \A g \in Groups : Written(g)' <=> Written(g)
  BY <1>2 DEF Written, Exists
<1>5. OwnersInUse'
  BY <1>0, <1>2, <1>3 DEF OwnershipInv, OwnersInUse
<1>6. OwnersDisjoint'
  BY <1>0, <1>3 DEF OwnershipInv, OwnersDisjoint
<1>7. GroupsOwned'
  BY <1>0, <1>1, <1>2, <1>3, <1>4 DEF OwnershipInv, GroupsOwned
<1>8. GroupsIsolated' /\ GroupsReserved'
  BY <1>2, <1>4 DEF OwnershipInv, GroupsIsolated, GroupsReserved
<1> QED
  BY <1>5, <1>6, <1>7, <1>8 DEF OwnershipCore

\* The entry of the map becomes the reservation of the call that took it.
LEMMA Taken ==
    ASSUME TypeOK, OwnershipInv, NEW h \in Handlers, TakeAlloc(h)
    PROVE  OwnershipCore'
<1> DEFINE c == call[h].claim
           pc == IF structuredAllocs[c] = NoAlloc THEN "unprepared" ELSE "delete"
<1>0. h \notin Owners /\ c \in Claims /\ c \notin Handlers /\ c # h
  BY StructuredAssumption
  DEF TakeAlloc, HoldPCs, OwnershipInv, CallsConsistent, CallConsistent, Owners, AllocOf
<1>1. GotoHolding(h, pc, structuredAllocs[c])
  BY DEF TakeAlloc
<1>2. /\ call'[h].alloc = structuredAllocs[c] /\ call'[h].claim = c /\ call'[h].pc = pc
      /\ \A k \in Handlers \ {h} : call'[k] = call[k]
  BY <1>1, MovedAlloc
<1>3. /\ structuredAllocs'[c] = NoAlloc
      /\ \A x \in Claims \ {c} : structuredAllocs'[x] = structuredAllocs[x]
      /\ up' = up /\ allocated' = allocated /\ groups' = groups
  BY <1>0 DEF TakeAlloc, TypeOK, resctrl
<1>4. /\ c \notin Owners'
      /\ \A o \in Owners' \ {h} : o \in Owners \ {c} /\ AllocOf(o)' = AllocOf(o) /\ ClaimOf(o)' = ClaimOf(o)
      /\ h \in Owners' => /\ c \in Owners
                          /\ AllocOf(h)' = AllocOf(c) /\ ClaimOf(h)' = ClaimOf(c)
                          /\ call'[h].pc \in WrittenPCs
  BY <1>0, <1>2, <1>3, StructuredAssumption DEF Owners, AllocOf, ClaimOf, WrittenPCs
<1>5. \A g \in Groups : Written(g)' <=> Written(g)
  BY <1>3 DEF Written, Exists
<1>6. OwnersInUse'
  BY <1>3, <1>4 DEF OwnershipInv, OwnersInUse
<1>7. OwnersDisjoint'
  BY <1>0, <1>4 DEF OwnershipInv, OwnersDisjoint
<1>8. GroupsOwned'
  BY <1>2, <1>3, <1>4, <1>5 DEF OwnershipInv, GroupsOwned
<1>9. GroupsIsolated' /\ GroupsReserved'
  BY <1>3, <1>5 DEF OwnershipInv, GroupsIsolated, GroupsReserved
<1> QED
  BY <1>6, <1>7, <1>8, <1>9 DEF OwnershipCore

\* Each step keeps the ownership of the ways, one case per kind of step.
LEMMA OwnershipStep ==
    ASSUME NoLostGroup, TypeOK, OwnershipInv, [Next]_vars
    PROVE  OwnershipCore'
<1> USE DEF driver, resctrl, kubelet
<1>0. \A g \in Groups : groups'[g] = groups[g] => (Written(g)' <=> Written(g))
  BY DEF Written, Exists
\* The steps that only move a handler on, between two points of the same kind.
<1>1. ASSUME NEW h \in Handlers, NEW pc, Goto(h, pc), call[h].pc \in WrittenPCs => pc \in WrittenPCs,
             UNCHANGED <<up, allocated, structuredAllocs, groups>>
      PROVE  OwnershipCore'
  <2>1. \A k \in Handlers :
            /\ call'[k].alloc = call[k].alloc /\ call'[k].claim = call[k].claim
            /\ call[k].pc \in WrittenPCs => call'[k].pc \in WrittenPCs
    BY <1>1, Moved
  <2> QED
    BY <1>0, <1>1, <2>1, NothingGranted
<1>2. ASSUME NEW h \in Handlers, GetClaim(h) \/ SkipResult(h) \/ Timeout(h)
      PROVE  OwnershipCore'
  <2>1. call[h] \in Call
    BY DEF TypeOK
  <2>2. CASE GetClaim(h) /\ Goto(h, "error")
    BY <1>1, <2>2 DEF GetClaim, WrittenPCs
  <2>3. CASE ~ (GetClaim(h) /\ Goto(h, "error"))
    <3>1. /\ call'[h].alloc = call[h].alloc /\ call'[h].claim = call[h].claim
          /\ call[h].pc \in WrittenPCs => call'[h].pc \in WrittenPCs
          /\ \A k \in Handlers \ {h} : call'[k] = call[k]
      <4>1. CASE GetClaim(h)
        <5>1. call' = [call EXCEPT ![h].pc = "loop", ![h].todo = api[call[h].claim]]
          BY <2>3, <4>1 DEF GetClaim
        <5> QED
          BY <2>1, <4>1, <5>1 DEF GetClaim, WrittenPCs, Call, TypeOK
      <4>2. CASE SkipResult(h)
        BY <2>1, <4>2 DEF SkipResult, Call, TypeOK
      <4>3. CASE Timeout(h)
        BY <2>1, <4>3 DEF Timeout, Call, TypeOK
      <4> QED
        BY <1>2, <4>1, <4>2, <4>3
    <3> QED
      BY <1>0, <1>2, <3>1, NothingGranted DEF GetClaim, SkipResult, Timeout
  <2> QED
    BY <2>2, <2>3
<1>3. ASSUME NEW h \in Handlers, AllocateWays(h)
      PROVE  OwnershipCore'
  <2> DEFINE device == Head(call[h].todo)
  <2>1. device \in Device
    BY <1>3 DEF AllocateWays, Call, TypeOK
  <2>2. call[h].alloc = NoAlloc /\ up
    BY <1>3 DEF AllocateWays, OwnershipInv, CallsConsistent, CallConsistent, HoldPCs
  <2>3. CASE Goto(h, "error") /\ UNCHANGED allocated
    BY <1>1, <1>3, <2>3 DEF AllocateWays, WrittenPCs
  <2>4. ASSUME NEW cbm \in CBM,
               Allocate(device.cacheID, device.ways, cbm),
               GotoHolding(h, "mkdir", [cacheID |-> device.cacheID, cbm |-> cbm])
        PROVE  OwnershipCore'
    BY <1>3, <2>1, <2>2, <2>4, Reserved DEF AllocateWays, Device
  <2> QED
    BY <1>3, <2>3, <2>4 DEF AllocateWays
<1>4. ASSUME NEW h \in Handlers, EndLoop(h)
      PROVE  OwnershipCore'
  BY <1>1, <1>4 DEF EndLoop, WrittenPCs
<1>5. ASSUME NEW h \in Handlers, NEW pc, Goto(h, pc),
             call[h].pc \in WrittenPCs => ~ Written(GroupOf(h))',
             \A g \in Groups : Written(g)' => Written(g) /\ groups'[g] = groups[g],
             UNCHANGED <<up, allocated, structuredAllocs>>
      PROVE  OwnershipCore'
  <2>1. \A k \in Handlers :
            /\ call'[k].alloc = call[k].alloc /\ call'[k].claim = call[k].claim
            /\ k # h => call'[k] = call[k]
    BY <1>5, Moved
  <2> QED
    BY <1>5, <2>1, NothingGranted
<1>6. ASSUME NEW h \in Handlers, CreateGroupDir(h)
      PROVE  OwnershipCore'
  <2>1. PICK pc : Goto(h, pc)
    BY <1>6 DEF CreateGroupDir
  <2>2. GroupOf(h) \in Groups
    BY <1>6, GroupOfType DEF CreateGroupDir, HoldPCs, OwnershipInv
  <2>3. \A g \in Groups : Written(g)' => Written(g) /\ groups'[g] = groups[g]
    BY <1>6, <2>2 DEF CreateGroupDir, Mkdir, Written, Exists, TypeOK, ResctrlType
  <2> QED
    BY <1>5, <1>6, <2>1, <2>3 DEF CreateGroupDir, WrittenPCs
<1>7. ASSUME NEW h \in Handlers, WriteGroupSchemata(h)
      PROVE  OwnershipCore'
  <2>1. CASE WriteSchemata(GroupOf(h), call[h].alloc.cbm) /\ Goto(h, "cdi")
    BY <1>7, <2>1, GroupWritten DEF WriteGroupSchemata
  <2>2. CASE RemoveIfEmpty(GroupOf(h)) /\ Goto(h, "free")
    <3>1. GroupOf(h) \in Groups
      BY <1>7, GroupOfType DEF WriteGroupSchemata, HoldPCs, OwnershipInv
    <3>2. \A g \in Groups : Written(g)' => Written(g) /\ groups'[g] = groups[g]
      BY <2>2, <3>1 DEF RemoveIfEmpty, Written, Exists, TypeOK, ResctrlType
    <3> QED
      BY <1>5, <1>7, <2>2, <3>2 DEF WriteGroupSchemata, WrittenPCs
  <2> QED
    BY <1>7, <2>1, <2>2 DEF WriteGroupSchemata
<1>8. ASSUME NEW h \in Handlers, WriteClaimCDISpec(h)
      PROVE  OwnershipCore'
  BY <1>1, <1>8 DEF WriteClaimCDISpec, WrittenPCs
\* DeleteGroup removes the group, and nobody else's.
<1>9. ASSUME NEW h \in Handlers, UndoGroup(h) \/ RemoveGroup(h)
      PROVE  OwnershipCore'
  <2>1. PICK pc : Goto(h, pc)
    BY <1>9 DEF UndoGroup, RemoveGroup
  <2>2. /\ GroupOf(h) \in Groups
        /\ groups' = [groups EXCEPT ![GroupOf(h)] = NoGroup]
    BY <1>9, GroupOfType DEF UndoGroup, RemoveGroup, DeleteGroup, NoLostGroup, HoldPCs, OwnershipInv
  <2>3. \A g \in Groups : Written(g)' => Written(g) /\ groups'[g] = groups[g]
    BY <2>2 DEF Written, Exists, TypeOK, ResctrlType
  <2>4. GroupOf(h)' = GroupOf(h)
    BY <2>1, Moved DEF GroupOf
  <2>5. ~ Written(GroupOf(h))'
    BY <2>2, <2>4 DEF Written, Exists, TypeOK, ResctrlType
  <2> QED
    BY <1>5, <1>9, <2>1, <2>3, <2>5 DEF UndoGroup, RemoveGroup
<1>10. ASSUME NEW h \in Handlers, FreeWaysOnError(h) \/ ReleaseWays(h)
       PROVE  OwnershipCore'
  <2>1. /\ call[h].pc \in {"free", "release"}
        /\ Release(call[h].alloc.cacheID, call[h].alloc.cbm)
        /\ \E pc : GotoHolding(h, pc, NoAlloc)
        /\ UNCHANGED <<up, structuredAllocs, groups>>
    BY <1>10 DEF FreeWaysOnError, ReleaseWays
  <2> QED
    BY <2>1, Released
<1>11. ASSUME NEW h \in Handlers, StoreAlloc(h) \/ TakeAlloc(h)
       PROVE  OwnershipCore'
  BY <1>11, Stored, Taken
<1>12. ASSUME NEW h \in Handlers, RemoveClaimCDISpec(h)
       PROVE  OwnershipCore'
  BY <1>1, <1>12 DEF RemoveClaimCDISpec, WrittenPCs
<1>13. ASSUME NEW h \in Handlers,
              Reply(h) \/ \E c \in Claims : CallPrepare(h, c) \/ CallUnprepare(h, c)
       PROVE  OwnershipCore'
  <2>1. call[h].alloc = NoAlloc
    BY <1>13 DEF Reply, CallPrepare, CallUnprepare, ReplyPCs, HoldPCs,
                 OwnershipInv, CallsConsistent, CallConsistent
  <2>2. call'[h].alloc = NoAlloc /\ \A k \in Handlers \ {h} : call'[k] = call[k]
    BY <1>13 DEF Reply, CallPrepare, CallUnprepare, IdleCall, NewCall, TypeOK
  <2> QED
    BY <1>0, <1>13, <2>1, <2>2, NothingGranted DEF Reply, CallPrepare, CallUnprepare
<1>14. ASSUME NEW c \in Claims,
              Schedule(c) \/ Deallocate(c) \/ PodGone(c) \/ KubeletRestart(c)
                \/ StartContainer(c) \/ ExitContainer(c)
       PROVE  OwnershipCore'
  <2>1. UNCHANGED <<up, allocated, structuredAllocs, call, groups>>
    BY <1>14 DEF Schedule, Deallocate, PodGone, KubeletRestart, StartContainer, ExitContainer
  <2> QED
    BY <1>0, <2>1, NothingGranted
\* A crash leaves no owner; the groups stay as they are.
<1>15. CASE Crash
  <2>1. Owners' = {}
    BY <1>15 DEF Crash, IdleCall, Owners, AllocOf
  <2>2. GroupsIsolated'
    BY <1>0, <1>15 DEF Crash, OwnershipInv, GroupsIsolated
  <2> QED
    BY <1>15, <2>1, <2>2 DEF Crash, OwnershipCore, OwnersInUse, OwnersDisjoint, GroupsOwned, GroupsReserved
\* The rebuilt map covers every group that is written.
<1>16. CASE Restart
  <2>1. \A o \in Handlers \cup Claims : AllocOf(o)' = NoAlloc
    BY <1>16 DEF Restart, AllocOf, OwnershipInv, CallsConsistent, CallConsistent, HoldPCs
  <2>2. Owners' = {}
    BY <2>1 DEF Owners
  <2>3. GroupsIsolated'
    BY <1>0, <1>16 DEF Restart, OwnershipInv, GroupsIsolated
  <2>4. ASSUME NEW g \in Groups, Written(g)
        PROVE  groups[g] \subseteq allocated'[g[1]]
    <3>1. g[1] \in Domains
      BY StructuredAssumption
    <3>2. Schemata(g)[g[1]] = groups[g]
      BY <2>4, <3>1 DEF Schemata, Written
    <3>3. RebuildFromResctrl({Schemata(x) : x \in {y \in Groups : Exists(y)}})
      BY <1>16 DEF Restart, NoLostGroup
    <3> QED
      BY <2>4, <3>1, <3>2, <3>3 DEF RebuildFromResctrl, Written
  <2>5. GroupsReserved'
    BY <1>0, <1>16, <2>4 DEF Restart, GroupsReserved
  <2> QED
    BY <2>2, <2>3, <2>5 DEF OwnershipCore, OwnersInUse, OwnersDisjoint, GroupsOwned
<1>17. CASE UNCHANGED vars
  BY <1>0, <1>17, NothingGranted DEF vars
<1> QED
  BY <1>2, <1>3, <1>4, <1>6, <1>7, <1>8, <1>9, <1>10, <1>11, <1>12, <1>13,
     <1>14, <1>15, <1>16, <1>17
  DEF Next, HandlerStep

\* Nothing is owned, in use or written at first.
LEMMA InitOwnership == Init => OwnershipInv
<1> SUFFICES ASSUME Init PROVE OwnershipInv
  OBVIOUS
<1>1. Owners = {}
  BY DEF Init, IdleCall, Owners, AllocOf
<1>2. \A g \in Groups : ~ Written(g)
  BY DEF Init, Written, Exists
<1> QED
  BY <1>1, <1>2, InitCalls
  DEF OwnershipInv, OwnersInUse, OwnersDisjoint, GroupsOwned, GroupsIsolated, GroupsReserved

\* The ownership invariant, of which the two theorems below are conjuncts, for
\* any number of domains, ways, claims and handlers, any requests, any faults of
\* the other calls, overlapping calls and crashes at any point.
THEOREM OwnershipInvariant == NoLostGroup => (Spec => []OwnershipInv)
<1> SUFFICES ASSUME NoLostGroup PROVE Spec => []OwnershipInv
  OBVIOUS
<1>1. Init => TypeOK /\ OwnershipInv
  BY InitType, InitOwnership
<1>2. TypeOK /\ OwnershipInv /\ [Next]_vars => (TypeOK /\ OwnershipInv)'
  <2> SUFFICES ASSUME TypeOK, OwnershipInv, [Next]_vars
               PROVE  (TypeOK /\ OwnershipInv)'
    OBVIOUS
  <2>1. CallsConsistent
    BY DEF OwnershipInv
  <2>2. TypeOK' /\ CallsConsistent'
    BY <2>1, TypeStep, CallsStep
  <2>3. OwnershipCore'
    BY OwnershipStep
  <2> QED
    BY <2>2, <2>3 DEF OwnershipCore, OwnershipInv
<1> QED
  BY <1>1, <1>2, PTL DEF Spec

\* No two groups of a domain ever share a way.
THEOREM Isolation == NoLostGroup => (Spec => []GroupsIsolated)
<1>1. OwnershipInv => GroupsIsolated
  BY DEF OwnershipInv
<1> QED
  BY <1>1, OwnershipInvariant, PTL

\* While the driver runs, every way of a written group is in use.
THEOREM InUseCoversGroups == NoLostGroup => (Spec => []GroupsReserved)
<1>1. OwnershipInv => GroupsReserved
  BY DEF OwnershipInv
<1> QED
  BY <1>1, OwnershipInvariant, PTL

-----------------------------------------------------------------------------
\* Refinement

Held == [g \in Groups |-> IF Exists(g) THEN groups[g] ELSE {}]

\* No group exists at first: no partition holds a way.
LEMMA RefinedInit == Init => Partitions!Init
BY DEF Init, Exists, Partitions!Init

\* A schemata write is a Grant, a removal a Drop, and nothing else is seen.
LEMMA RefinedStep ==
    ASSUME TypeOK, OwnershipInv, [Next]_vars
    PROVE  Partitions!Next \/ Held' = Held
<1> USE DEF driver, resctrl, kubelet
<1>1. CASE groups' = groups
  BY <1>1 DEF Held, Exists
<1>2. ASSUME NEW g \in Groups, groups' = [groups EXCEPT ![g] = NoGroup]
      PROVE  Partitions!Next
  <2>1. Held' = [Held EXCEPT ![g] = {}]
    BY <1>2 DEF Held, Exists, TypeOK, ResctrlType
  <2> QED
    BY <2>1 DEF Held, Partitions!Next, Partitions!Drop
<1>3. ASSUME NEW h \in Handlers, CreateGroupDir(h)
      PROVE  Held' = Held
  <2>1. GroupOf(h) \in Groups
    BY <1>3, GroupOfType DEF CreateGroupDir, HoldPCs, OwnershipInv
  <2> QED
    BY <1>3, <2>1, ResctrlAssumption DEF CreateGroupDir, Mkdir, Held, Exists, CBM, TypeOK, ResctrlType
<1>4. ASSUME NEW h \in Handlers, WriteGroupSchemata(h)
      PROVE  Partitions!Next \/ Held' = Held
  <2> DEFINE mine == GroupOf(h)
             cbm == call[h].alloc.cbm
  <2>1. /\ h \in Owners /\ AllocOf(h) = call[h].alloc /\ mine[1] = AllocOf(h).cacheID
        /\ mine \in Groups /\ cbm \in CBM
    BY <1>4, GroupOfType
    DEF WriteGroupSchemata, HoldPCs, OwnershipInv, CallsConsistent, CallConsistent,
        Owners, AllocOf, GroupOf, Alloc
  <2>2. CASE WriteSchemata(mine, cbm)
    <3>1. Held' = [Held EXCEPT ![mine] = cbm]
      BY <2>1, <2>2, ResctrlAssumption DEF WriteSchemata, Held, Exists, TypeOK, ResctrlType
    <3>2. Contiguous(cbm)
      BY <2>1 DEF OwnershipInv, OwnersInUse
    <3>3. \A g \in Groups : (Written(g) /\ g[1] = mine[1]) => groups[g] \cap cbm = {}
      BY <1>4, <2>1 DEF WriteGroupSchemata, OwnershipInv, GroupsOwned, WrittenPCs
    <3>4. \A g \in Groups : g[1] = mine[1] => Held[g] \cap cbm = {}
      BY <3>3 DEF Held, Written
    <3> QED
      BY <2>1, <3>1, <3>2, <3>4
      DEF Held, Partitions!Next, Partitions!Grant, Partitions!Others, Partitions!Contiguous,
          Partitions!CBM, Partitions!Ways, Contiguous, CBM, Ways
  <2>3. CASE RemoveIfEmpty(mine)
    BY <1>1, <1>2, <2>1, <2>3 DEF RemoveIfEmpty
  <2> QED
    BY <1>4, <2>2, <2>3 DEF WriteGroupSchemata
<1>5. ASSUME NEW h \in Handlers, UndoGroup(h) \/ RemoveGroup(h)
      PROVE  Partitions!Next \/ Held' = Held
  <2>1. GroupOf(h) \in Groups /\ DeleteGroup(GroupOf(h))
    BY <1>5, GroupOfType DEF UndoGroup, RemoveGroup, HoldPCs, OwnershipInv
  <2> QED
    BY <1>1, <1>2, <2>1 DEF DeleteGroup
<1> QED
  BY <1>1, <1>3, <1>4, <1>5
  DEF Next, HandlerStep, vars, GetClaim, SkipResult, AllocateWays, EndLoop, WriteClaimCDISpec,
      FreeWaysOnError, StoreAlloc, TakeAlloc, ReleaseWays, RemoveClaimCDISpec, Reply, Timeout,
      CallPrepare, CallUnprepare, Schedule, Deallocate, PodGone, KubeletRestart,
      StartContainer, ExitContainer, Crash, Restart

\* The driver implements CachePartitions: whatever it does, the written groups
\* of the kernel are runs of ways, granted when nobody holds any of them.
THEOREM Refinement == NoLostGroup => (Spec => ImplementsPartitions)
<1> SUFFICES ASSUME NoLostGroup PROVE Spec => ImplementsPartitions
  OBVIOUS
<1>1. TypeOK /\ OwnershipInv /\ [Next]_vars => [Partitions!Next]_Held
  BY RefinedStep
<1>2. Spec => []OwnershipInv
  BY OwnershipInvariant
<1> QED
  BY <1>1, <1>2, RefinedInit, TypeCorrect, PTL DEF Spec, ImplementsPartitions, Partitions!Spec, Held
=============================================================================
