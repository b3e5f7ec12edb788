-------------------------- MODULE StructuredDriver --------------------------
(***************************************************************************)
(* The driver in structured mode (DRAPartitionableDevices): ways are       *)
(* reserved, and a resctrl group is created, when a claim is prepared.     *)
(*                                                                         *)
(* Every gRPC call runs in a goroutine, here a handler, that goes through  *)
(* prepareClaimStructured or unprepareClaimStructured one system call or   *)
(* critical section per step.  Nothing locks a claim: two calls for one    *)
(* claim interleave freely.  The driver's memory (allocated,               *)
(* structuredAllocs, call) is lost in a crash; resctrl groups, tasks and   *)
(* CDI spec files are not.                                                 *)
(*                                                                         *)
(* The scheduler, the kubelet and the container runtime are the            *)
(* environment.  A request with several claims is the loop                 *)
(* NodePrepareResources makes of it: one call per claim.                   *)
(***************************************************************************)
EXTENDS WayAllocator, Resctrl, Sequences

CONSTANTS
    Claims,         \* UIDs of ResourceClaims
    Handlers,       \* gRPC calls the driver can have in progress
    Requests,       \* the allocations the scheduler may choose for a claim
    OtherDevice,    \* a result of another driver or pool, or not a cache-way device
    Prefix,         \* claim -> the 8 characters of its UID that name its CDI file
    UnwrittenCBM,   \* what the kernel shows for a domain nobody wrote
    MaxCrashes,     \* bound: crashes of the driver
    Timeouts,       \* whether the kubelet gives up on a call and calls again
    KubeletRestarts,\* whether a restarted kubelet prepares running claims again
    NoClaim, NoAlloc, NoSpec, NoRequest

Device == [cacheID : Domains, ways : Nat]

Alloc == [cacheID : Domains, cbm : CBM]

Files == {Prefix[c] : c \in Claims}

DeviceID == Domains \X Nat \X Files

CDISpec == [device : DeviceID, group : Groups]

ASSUME StructuredAssumption ==
    /\ Groups = Domains \X Claims
    /\ Tasks = Claims
    /\ Handlers \cap Claims = {}
    /\ NoClaim \notin Claims
    /\ Requests \subseteq Seq({OtherDevice} \cup Device)
    /\ OtherDevice \notin Device
    /\ NoRequest \notin Requests
    /\ NoAlloc \notin Alloc
    /\ NoSpec \notin CDISpec
    /\ UnwrittenCBM \in CBM
    /\ MaxCrashes \in Nat
    /\ Timeouts \in BOOLEAN
    /\ KubeletRestarts \in BOOLEAN

VARIABLES
    up,                 \* the driver accepts gRPC calls
    structuredAllocs,   \* Driver.structuredAllocs
    call,               \* handler -> the call it runs and its local variables
    cdi,                \* file -> the per-claim CDI spec in it; NoSpec: none that parses
    api,                \* claim -> Status.Allocation's results, or NoRequest
    phase,              \* claim -> what the kubelet wants of the driver
    answer,             \* claim -> the CDI device IDs of the last successful prepare
    crashes

driver == <<allocated, structuredAllocs>>
resctrl == <<groups, task>>
kubelet == <<api, phase, answer>>
vars == <<up, driver, call, resctrl, cdi, kubelet, crashes>>

PreparePCs == {"get", "loop", "mkdir", "schemata", "cdi", "store", "undo", "free"}
UnpreparePCs == {"take", "delete", "release", "unlink"}
ReplyPCs == {"prepared", "unprepared", "error"}

Call == [pc : {"idle"} \cup PreparePCs \cup UnpreparePCs \cup ReplyPCs,
         claim : {NoClaim} \cup Claims,
         live : BOOLEAN,        \* the kubelet still waits for the answer
         todo : Seq({OtherDevice} \cup Device),
         alloc : {NoAlloc} \cup Alloc,
         ids : Seq(DeviceID)]

IdleCall == [pc |-> "idle", claim |-> NoClaim, live |-> FALSE,
             todo |-> <<>>, alloc |-> NoAlloc, ids |-> <<>>]

NewCall(pc, c) == [pc |-> pc, claim |-> c, live |-> TRUE,
                   todo |-> <<>>, alloc |-> NoAlloc, ids |-> <<>>]

\* groupName: dra-c<cacheID>-<uid>
GroupOf(h) == <<call[h].alloc.cacheID, call[h].claim>>

\* deviceName and specPath of writeClaimCDISpec
DeviceIDOf(h) ==
    <<call[h].alloc.cacheID, Cardinality(call[h].alloc.cbm), Prefix[call[h].claim]>>

Goto(h, pc) == call' = [call EXCEPT ![h].pc = pc]

\* Go on holding the reservation `alloc', or none.
GotoHolding(h, pc, alloc) == call' = [call EXCEPT ![h].pc = pc, ![h].alloc = alloc]

\* What a read of a group's schemata shows: the mask written for its own domain
\* (buildStructuredSchemata names no other), the kernel's choice elsewhere.
Schemata(g) ==
    [d \in Domains |-> IF d = g[1] /\ groups[g] # {} THEN groups[g] ELSE UnwrittenCBM]

Init ==
    /\ up = TRUE
    /\ allocated = NewWayAllocator
    /\ structuredAllocs = [c \in Claims |-> NoAlloc]
    /\ call = [h \in Handlers |-> IdleCall]
    /\ groups = [g \in Groups |-> NoGroup]
    /\ task = [t \in Tasks |-> NoTask]
    /\ cdi = [f \in Files |-> NoSpec]
    /\ api = [c \in Claims |-> NoRequest]
    /\ phase = [c \in Claims |-> "none"]
    /\ answer = [c \in Claims |-> <<>>]
    /\ crashes = 0

-----------------------------------------------------------------------------
\* prepareClaimStructured

\* The claim is read from the API server: an error (a cancelled context
\* included), a missing claim or one without an allocation is answered at once.
GetClaim(h) ==
    LET c == call[h].claim IN
    /\ call[h].pc = "get"
    /\ \/ /\ api[c] # NoRequest
          /\ call' = [call EXCEPT ![h].pc = "loop", ![h].todo = api[c]]
       \/ /\ api[c] = NoRequest \/ "get" \in MayFail \/ ~ call[h].live
          /\ Goto(h, "error")
    /\ UNCHANGED <<up, driver, resctrl, cdi, kubelet, crashes>>

\* The next result is not this driver's, or its name does not parse.
SkipResult(h) ==
    /\ call[h].pc = "loop"
    /\ call[h].todo # <<>>
    /\ Head(call[h].todo) = OtherDevice
    /\ call' = [call EXCEPT ![h].todo = Tail(@)]
    /\ UNCHANGED <<up, driver, resctrl, cdi, kubelet, crashes>>

\* wayAlloc.Allocate.  When it refuses, the error return leaves what the
\* earlier results of the claim have reserved.
AllocateWays(h) ==
    LET device == Head(call[h].todo) IN
    /\ call[h].pc = "loop"
    /\ call[h].todo # <<>>
    /\ device # OtherDevice
    /\ \/ \E cbm \in CBM :
            /\ Allocate(device.cacheID, device.ways, cbm)
            /\ GotoHolding(h, "mkdir", [cacheID |-> device.cacheID, cbm |-> cbm])
       \/ /\ ~ CanAllocate(device.cacheID, device.ways)
          /\ Goto(h, "error")
          /\ UNCHANGED allocated
    /\ UNCHANGED <<up, structuredAllocs, resctrl, cdi, kubelet, crashes>>

\* The loop is over: no device at all is an error.
EndLoop(h) ==
    /\ call[h].pc = "loop"
    /\ call[h].todo = <<>>
    /\ Goto(h, IF call[h].ids = <<>> THEN "error" ELSE "prepared")
    /\ UNCHANGED <<up, driver, resctrl, cdi, kubelet, crashes>>

CreateGroupDir(h) ==
    /\ call[h].pc = "mkdir"
    /\ \/ /\ CanMkdir(GroupOf(h))
          /\ Mkdir(GroupOf(h))
          /\ Goto(h, "schemata")
       \/ /\ ~ CanMkdir(GroupOf(h)) \/ "mkdir" \in MayFail
          /\ Goto(h, "free")
          /\ UNCHANGED groups
    /\ UNCHANGED <<up, driver, task, cdi, kubelet, crashes>>

\* Variant: a failed write is not noticed.
WriteGroupSchemataUnchecked(h) ==
    /\ call[h].pc = "schemata"
    /\ \/ /\ CanWriteSchemata(GroupOf(h), call[h].alloc.cbm)
          /\ WriteSchemata(GroupOf(h), call[h].alloc.cbm)
       \/ "schemata" \in MayFail /\ UNCHANGED groups
    /\ Goto(h, "cdi")
    /\ UNCHANGED <<up, driver, task, cdi, kubelet, crashes>>

\* The write fails when another call for the claim has removed the group.
WriteGroupSchemata(h) ==
    LET cbm == call[h].alloc.cbm IN
    /\ call[h].pc = "schemata"
    /\ \/ /\ CanWriteSchemata(GroupOf(h), cbm)
          /\ WriteSchemata(GroupOf(h), cbm)
          /\ Goto(h, "cdi")
       \/ /\ ~ CanWriteSchemata(GroupOf(h), cbm) \/ "schemata" \in MayFail
          /\ RemoveIfEmpty(GroupOf(h))
          /\ Goto(h, "free")
    /\ UNCHANGED <<up, driver, task, cdi, kubelet, crashes>>

\* A failed write may have truncated the file that was there.
WriteClaimCDISpec(h) ==
    LET file == Prefix[call[h].claim] IN
    /\ call[h].pc = "cdi"
    /\ \/ /\ cdi' = [cdi EXCEPT ![file] =
                         [device |-> DeviceIDOf(h), group |-> GroupOf(h)]]
          /\ Goto(h, "store")
       \/ /\ "cdi" \in MayFail
          /\ cdi' \in {cdi, [cdi EXCEPT ![file] = NoSpec]}
          /\ Goto(h, "undo")
    /\ UNCHANGED <<up, driver, resctrl, kubelet, crashes>>

\* Variant: the group is left behind when the CDI spec cannot be written.
UndoNothing(h) ==
    /\ call[h].pc = "undo"
    /\ Goto(h, "free")
    /\ UNCHANGED <<up, driver, resctrl, cdi, kubelet, crashes>>

UndoGroup(h) ==
    /\ call[h].pc = "undo"
    /\ DeleteGroup(GroupOf(h))
    /\ Goto(h, "free")
    /\ UNCHANGED <<up, driver, cdi, kubelet, crashes>>

\* Variant: the error paths forget the Release.
ReturnWithoutFreeing(h) ==
    /\ call[h].pc = "free"
    /\ GotoHolding(h, "error", NoAlloc)
    /\ UNCHANGED <<up, driver, resctrl, cdi, kubelet, crashes>>

\* Variant: a group that cannot be made is tried again for ever.
RetryGroup(h) ==
    /\ call[h].pc = "free"
    /\ Goto(h, "mkdir")
    /\ UNCHANGED <<up, driver, resctrl, cdi, kubelet, crashes>>

\* The Release of the error paths, and their return.
FreeWaysOnError(h) ==
    /\ call[h].pc = "free"
    /\ Release(call[h].alloc.cacheID, call[h].alloc.cbm)
    /\ GotoHolding(h, "error", NoAlloc)
    /\ UNCHANGED <<up, structuredAllocs, resctrl, cdi, kubelet, crashes>>

\* The critical section of structuredMu: an entry that is there is overwritten.
StoreAlloc(h) ==
    /\ call[h].pc = "store"
    /\ structuredAllocs' = [structuredAllocs EXCEPT ![call[h].claim] = call[h].alloc]
    /\ call' = [call EXCEPT ![h].pc = "loop",
                            ![h].todo = Tail(@),
                            ![h].ids = Append(@, DeviceIDOf(h)),
                            ![h].alloc = NoAlloc]
    /\ UNCHANGED <<up, allocated, resctrl, cdi, kubelet, crashes>>

-----------------------------------------------------------------------------
\* unprepareClaimStructured

\* Variant: the entry is read and not deleted.
ReadAlloc(h) ==
    LET c == call[h].claim IN
    /\ call[h].pc = "take"
    /\ GotoHolding(h, IF structuredAllocs[c] = NoAlloc THEN "unprepared" ELSE "delete",
                   structuredAllocs[c])
    /\ UNCHANGED <<up, driver, resctrl, cdi, kubelet, crashes>>

\* The critical section of structuredMu: an unknown claim is a success.
TakeAlloc(h) ==
    LET c == call[h].claim IN
    /\ call[h].pc = "take"
    /\ GotoHolding(h, IF structuredAllocs[c] = NoAlloc THEN "unprepared" ELSE "delete",
                   structuredAllocs[c])
    /\ structuredAllocs' = [structuredAllocs EXCEPT ![c] = NoAlloc]
    /\ UNCHANGED <<up, allocated, resctrl, cdi, kubelet, crashes>>

\* Variant: the group is not removed.
KeepGroup(h) ==
    /\ call[h].pc = "delete"
    /\ Goto(h, "release")
    /\ UNCHANGED <<up, driver, resctrl, cdi, kubelet, crashes>>

\* A failed DeleteGroup is logged and the call goes on.
RemoveGroup(h) ==
    /\ call[h].pc = "delete"
    /\ DeleteGroup(GroupOf(h))
    /\ Goto(h, "release")
    /\ UNCHANGED <<up, driver, cdi, kubelet, crashes>>

\* Variant: unprepare forgets the Release.
KeepWays(h) ==
    /\ call[h].pc = "release"
    /\ GotoHolding(h, "unlink", NoAlloc)
    /\ UNCHANGED <<up, driver, resctrl, cdi, kubelet, crashes>>

ReleaseWays(h) ==
    /\ call[h].pc = "release"
    /\ Release(call[h].alloc.cacheID, call[h].alloc.cbm)
    /\ GotoHolding(h, "unlink", NoAlloc)
    /\ UNCHANGED <<up, structuredAllocs, resctrl, cdi, kubelet, crashes>>

\* Variant: the CDI spec file is left behind.
KeepClaimCDISpec(h) ==
    /\ call[h].pc = "unlink"
    /\ Goto(h, "unprepared")
    /\ UNCHANGED <<up, driver, resctrl, cdi, kubelet, crashes>>

\* A failed removal is logged.
RemoveClaimCDISpec(h) ==
    /\ call[h].pc = "unlink"
    /\ \/ cdi' = [cdi EXCEPT ![Prefix[call[h].claim]] = NoSpec]
       \/ "unlink" \in MayFail /\ UNCHANGED cdi
    /\ Goto(h, "unprepared")
    /\ UNCHANGED <<up, driver, resctrl, kubelet, crashes>>

-----------------------------------------------------------------------------
\* The scheduler

\* The units of the shared counter `way-pool' of domain d that the results r
\* consume: for each device of the domain as many as it has ways.
Units(r, d) ==
    UNION {{i} \X (1 .. r[i].ways) :
           i \in {j \in DOMAIN r : r[j] # OtherDevice /\ r[j].cacheID = d}}

Consumes(r, d) == Cardinality(Units(r, d))

Scheduled == {c \in Claims : api[c] # NoRequest}

Consumed(d) == Cardinality(UNION {{c} \X Units(api[c], d) : c \in Scheduled})

\* One device per domain and number of ways, from one way on.
Published == [cacheID : Domains, ways : 1 .. NumWays]

\* AllowMultipleAllocations: any published device, as often as the counters
\* allow.  The pod then wants the claim prepared.
Schedule(c) ==
    /\ api[c] = NoRequest
    /\ \E r \in Requests :
          /\ \A i \in DOMAIN r : r[i] = OtherDevice \/ r[i] \in Published
          /\ \A d \in Domains : Consumed(d) + Consumes(r, d) <= NumWays
          /\ api' = [api EXCEPT ![c] = r]
    /\ phase' = [phase EXCEPT ![c] = "wanted"]
    /\ UNCHANGED <<up, driver, call, resctrl, cdi, answer, crashes>>

\* The claim is deallocated, or deleted, once it is unprepared.
Deallocate(c) ==
    /\ api[c] # NoRequest
    /\ phase[c] = "none"
    /\ api' = [api EXCEPT ![c] = NoRequest]
    /\ UNCHANGED <<up, driver, call, resctrl, cdi, phase, answer, crashes>>

-----------------------------------------------------------------------------
\* The kubelet and the container runtime

Waiting(c) == \E h \in Handlers : call[h].live /\ call[h].claim = c

CallPrepare(h, c) ==
    /\ up
    /\ phase[c] = "wanted"
    /\ ~ Waiting(c)
    /\ call[h].pc = "idle"
    /\ call' = [call EXCEPT ![h] = NewCall("get", c)]
    /\ UNCHANGED <<up, driver, resctrl, cdi, kubelet, crashes>>

CallUnprepare(h, c) ==
    /\ up
    /\ phase[c] = "ending"
    /\ ~ Waiting(c)
    /\ call[h].pc = "idle"
    /\ call' = [call EXCEPT ![h] = NewCall("take", c)]
    /\ UNCHANGED <<up, driver, resctrl, cdi, kubelet, crashes>>

\* An error, or an answer nobody waits for, changes nothing: the kubelet calls
\* again.
Reply(h) ==
    LET c == call[h].claim IN
    /\ call[h].pc \in ReplyPCs
    /\ call' = [call EXCEPT ![h] = IdleCall]
    /\ \/ /\ call[h].live /\ call[h].pc = "prepared"
          /\ phase' = [phase EXCEPT ![c] = "prepared"]
          /\ answer' = [answer EXCEPT ![c] = call[h].ids]
       \/ /\ call[h].live /\ call[h].pc = "unprepared"
          /\ phase' = [phase EXCEPT ![c] = "none"]
          /\ answer' = [answer EXCEPT ![c] = <<>>]
       \/ /\ ~ call[h].live \/ call[h].pc = "error"
          /\ UNCHANGED <<phase, answer>>
    /\ UNCHANGED <<up, driver, resctrl, cdi, api, crashes>>

\* The handler runs on: no step of it looks at the context after GetClaim.
Timeout(h) ==
    /\ Timeouts
    /\ call[h].live
    /\ call' = [call EXCEPT ![h].live = FALSE]
    /\ UNCHANGED <<up, driver, resctrl, cdi, kubelet, crashes>>

\* The pod is deleted; its containers have stopped.
PodGone(c) ==
    /\ phase[c] \in {"wanted", "prepared"}
    /\ task[c] = NoTask
    /\ ~ Waiting(c)
    /\ phase' = [phase EXCEPT ![c] = "ending"]
    /\ UNCHANGED <<up, driver, call, resctrl, cdi, api, answer, crashes>>

\* A restarted kubelet prepares the claims of running pods again.
KubeletRestart(c) ==
    /\ KubeletRestarts
    /\ phase[c] = "prepared"
    /\ phase' = [phase EXCEPT ![c] = "wanted"]
    /\ answer' = [answer EXCEPT ![c] = <<>>]
    /\ UNCHANGED <<up, driver, call, resctrl, cdi, api, crashes>>

Resolves(id) == cdi[id[3]] # NoSpec /\ cdi[id[3]].device = id

\* The runtime resolves every CDI device and runs the createRuntime hook of
\* each (runCDIHook): a device it cannot resolve or a hook that fails stops the
\* container, and the last hook decides the task's group.
StartContainer(c) ==
    LET ids == answer[c] IN
    /\ phase[c] = "prepared"
    /\ task[c] = NoTask
    /\ \A i \in DOMAIN ids : Resolves(ids[i]) /\ Exists(cdi[ids[i][3]].group)
    /\ AssignPID(cdi[ids[Len(ids)][3]].group, c)
    /\ UNCHANGED <<up, driver, call, groups, cdi, kubelet, crashes>>

ExitContainer(c) ==
    /\ task[c] # NoTask
    /\ task' = [task EXCEPT ![c] = NoTask]
    /\ UNCHANGED <<up, driver, call, groups, cdi, kubelet, crashes>>

-----------------------------------------------------------------------------
\* Crash and restart of the driver

Crash ==
    /\ up
    /\ crashes < MaxCrashes
    /\ crashes' = crashes + 1
    /\ up' = FALSE
    /\ allocated' = NewWayAllocator
    /\ structuredAllocs' = [c \in Claims |-> NoAlloc]
    /\ call' = [h \in Handlers |-> IdleCall]
    /\ UNCHANGED <<resctrl, cdi, kubelet>>

\* Variant: the groups of the previous run are removed at startup.
RestartClean ==
    /\ ~ up
    /\ up' = TRUE
    /\ groups' = [g \in Groups |-> NoGroup]
    /\ task' = [t \in Tasks |-> IF task[t] = NoTask THEN NoTask ELSE RootGroup]
    /\ UNCHANGED <<driver, call, cdi, kubelet, crashes>>

\* RecoverStructuredAllocs, before the gRPC server listens.  An unreadable
\* root or group is logged and skipped; structuredAllocs stays empty.
Restart ==
    /\ ~ up
    /\ up' = TRUE
    /\ \E read \in SUBSET {g \in Groups : Exists(g)} :
          /\ "rebuild" \in MayFail \/ read = {g \in Groups : Exists(g)}
          /\ RebuildFromResctrl({Schemata(g) : g \in read})
    /\ UNCHANGED <<structuredAllocs, call, resctrl, cdi, kubelet, crashes>>

-----------------------------------------------------------------------------

HandlerStep(h) ==
    \/ GetClaim(h) \/ SkipResult(h) \/ AllocateWays(h) \/ EndLoop(h)
    \/ CreateGroupDir(h) \/ WriteGroupSchemata(h) \/ WriteClaimCDISpec(h)
    \/ UndoGroup(h) \/ FreeWaysOnError(h) \/ StoreAlloc(h)
    \/ TakeAlloc(h) \/ RemoveGroup(h) \/ ReleaseWays(h) \/ RemoveClaimCDISpec(h)
    \/ Reply(h)

Next ==
    \/ \E h \in Handlers : HandlerStep(h) \/ Timeout(h)
    \/ \E h \in Handlers, c \in Claims : CallPrepare(h, c) \/ CallUnprepare(h, c)
    \/ \E c \in Claims :
          \/ Schedule(c) \/ Deallocate(c)
          \/ PodGone(c) \/ KubeletRestart(c)
          \/ StartContainer(c) \/ ExitContainer(c)
    \/ Crash
    \/ Restart

Spec == Init /\ [][Next]_vars

\* A goroutine with work runs; a driver that is down is restarted by its
\* DaemonSet; the kubelet retries an unprepare until it succeeds.
Fairness ==
    /\ \A h \in Handlers : WF_vars(HandlerStep(h))
    /\ \A c \in Claims : WF_vars(\E h \in Handlers : CallUnprepare(h, c))
    /\ WF_vars(Restart)

FairSpec == Spec /\ Fairness

-----------------------------------------------------------------------------
\* Properties

TypeOK ==
    /\ up \in BOOLEAN
    /\ WayAllocatorType
    /\ ResctrlType
    /\ structuredAllocs \in [Claims -> {NoAlloc} \cup Alloc]
    /\ call \in [Handlers -> Call]
    /\ cdi \in [Files -> {NoSpec} \cup CDISpec]
    /\ api \in [Claims -> {NoRequest} \cup Requests]
    /\ phase \in [Claims -> {"none", "wanted", "prepared", "ending"}]
    /\ answer \in [Claims -> Seq(DeviceID)]
    /\ crashes \in Nat

\* No way of a domain is in the written masks of two groups: what a claim is
\* given is its own.  It rests on Allocate's reservation being made before the
\* schemata write and given up after the group is gone, on every path of
\* prepareClaimStructured and unprepareClaimStructured and for calls of one
\* claim that overlap.
GroupsIsolated ==
    \A g1, g2 \in Groups :
        (g1 # g2 /\ g1[1] = g2[1] /\ Written(g1) /\ Written(g2))
            => groups[g1] \cap groups[g2] = {}

\* While the driver runs, every way that a group of its own is written with is
\* in use in the WayAllocator, before and after a crash.
GroupsReserved ==
    up => \A g \in Groups : Written(g) => groups[g] \subseteq allocated[g[1]]

\* Whoever is to Release a mask: a handler between Allocate or the map and its
\* Release or the map, or an entry of structuredAllocs.
AllocOf(o) == IF o \in Handlers THEN call[o].alloc ELSE structuredAllocs[o]

Owners == {o \in Handlers \cup Claims : AllocOf(o) # NoAlloc}

\* Every way in use will be released by someone.  It fails when an error path
\* forgets its Release or an overwritten map entry is lost.
NoLeak ==
    \A d \in Domains :
        allocated[d] = UNION {AllocOf(o).cbm : o \in {x \in Owners : AllocOf(x).cacheID = d}}

\* The allocator never has more ways of a domain in use than the scheduler has
\* counted against way-pool: a claim the counters admit is short of room only
\* because the free ways are scattered.
CountersCoverReserved ==
    \A d \in Domains : Cardinality(allocated[d]) <= Consumed(d)

\* A prepared claim has what it asked for: each device answered to the kubelet
\* resolves to the claim's own group, whose mask is a run of as many ways as the
\* device's name says.  It spans the CDI file, the kernel and what the kubelet
\* was told, across crashes between any two of the steps that set them.
PreparedEnforced ==
    \A c \in Claims : phase[c] = "prepared" =>
        \A i \in DOMAIN answer[c] :
            LET id == answer[c][i]
                g == cdi[id[3]].group
            IN  /\ Resolves(id)
                /\ g = <<id[1], c>>
                /\ Written(g)
                /\ Contiguous(groups[g])
                /\ Cardinality(groups[g]) = id[2]

\* What structuredAllocs records of a claim that no call is working on is what
\* the kernel has: unprepare will remove that group and release that mask.
RecordMatchesKernel ==
    \A c \in Claims :
        (structuredAllocs[c] # NoAlloc /\ \A h \in Handlers : call[h].claim # c) =>
            groups[<<structuredAllocs[c].cacheID, c>>] = structuredAllocs[c].cbm

\* The driver knows the claims it has prepared: driver.go:297, "rebuilds
\* structuredAllocs from existing resctrl groups at driver startup after a crash".
\* The unprepare of a claim it does not know removes and releases nothing.
PreparedRecorded ==
    up => \A c \in Claims : phase[c] = "prepared" => structuredAllocs[c] # NoAlloc

\* A claim the scheduler has admitted finds room: README.md:226, "The scheduler
\* tracks way consumption".
AdmittedHasRoom ==
    \A h \in Handlers :
        (call[h].pc = "loop" /\ call[h].todo # <<>> /\ Head(call[h].todo) # OtherDevice)
            => CanAllocate(Head(call[h].todo).cacheID, Head(call[h].todo).ways)

\* No call comes to write a mask that the hardware refuses: runbook.md:261, "A
\* request below this floor will find no matching devices".
AboveFloor ==
    \A h \in Handlers :
        call[h].pc = "schemata" => Cardinality(call[h].alloc.cbm) >= MinCBMBits

\* Once its unprepare has been answered and no call for it is left, a claim has
\* no group and no entry: README.md:40, "frees the allocation for reuse".
UnpreparedHasNothing ==
    \A c \in Claims :
        (phase[c] = "none" /\ \A h \in Handlers : call[h].claim # c) =>
            /\ structuredAllocs[c] = NoAlloc
            /\ \A d \in Domains : groups[<<d, c>>] = NoGroup

\* runbook.md:383, "The driver allocates exactly one cache partition per claim".
OnePartitionPerClaim ==
    \A c \in Claims : \A d1, d2 \in Domains :
        (Written(<<d1, c>>) /\ Written(<<d2, c>>)) => d1 = d2

\* Nothing the driver does, a crash included, takes a running container out of
\* its group or changes the group's mask.
RunningUndisturbed ==
    [][\A c \in Claims :
          (task[c] \in Groups /\ task'[c] # NoTask) =>
              /\ task'[c] = task[c]
              /\ groups'[task[c]] = groups[task[c]]]_vars

\* Nothing of a claim outlives its unprepare for good: README.md:40, "frees the
\* allocation for reuse", and the removal of the file that cdi.go:239 does.
UnprepareCleans ==
    \A c \in Claims :
        phase[c] = "ending" ~>
            /\ structuredAllocs[c] = NoAlloc
            /\ \A d \in Domains : groups[<<d, c>>] = NoGroup
            /\ cdi[Prefix[c]] = NoSpec

\* Every call is answered.
CallsEnd == \A h \in Handlers : call[h].pc # "idle" ~> call[h].pc = "idle"

-----------------------------------------------------------------------------
\* Why groups are isolated: the ways of an owner are its own until it releases
\* them, and by then the group they were written to is gone.

HoldPCs == {"mkdir", "schemata", "cdi", "store", "undo", "free", "delete", "release"}

\* Between the schemata write and the end of DeleteGroup.
WrittenPCs == {"cdi", "store", "undo", "delete"}

ClaimOf(o) == IF o \in Handlers THEN call[o].claim ELSE o

CallConsistent(h) ==
    /\ call[h].pc \in HoldPCs <=> call[h].alloc # NoAlloc
    /\ call[h].pc # "idle" => up /\ call[h].claim \in Claims
    /\ call[h].pc \in {"mkdir", "schemata", "cdi", "store"} => call[h].todo # <<>>
    /\ call[h].pc = "prepared" => call[h].ids # <<>>

CallsConsistent ==
    /\ \A h \in Handlers : CallConsistent(h)
    /\ \A c \in Claims :
          /\ structuredAllocs[c] # NoAlloc => up
          /\ phase[c] = "prepared" => answer[c] # <<>>

OwnersInUse ==
    \A o \in Owners :
        /\ Contiguous(AllocOf(o).cbm)
        /\ AllocOf(o).cbm \subseteq allocated[AllocOf(o).cacheID]

OwnersDisjoint ==
    \A o1, o2 \in Owners :
        (o1 # o2 /\ AllocOf(o1).cacheID = AllocOf(o2).cacheID)
            => AllocOf(o1).cbm \cap AllocOf(o2).cbm = {}

\* A written group that has ways of an owner is the owner's own group, has
\* exactly its ways, and the owner is not yet to release them.
GroupsOwned ==
    \A o \in Owners, g \in Groups :
        (/\ Written(g)
         /\ g[1] = AllocOf(o).cacheID
         /\ groups[g] \cap AllocOf(o).cbm # {}) =>
            /\ g[2] = ClaimOf(o)
            /\ groups[g] = AllocOf(o).cbm
            /\ o \in Handlers => call[o].pc \in WrittenPCs

\* The inductive invariant.
OwnershipInv ==
    /\ CallsConsistent
    /\ OwnersInUse
    /\ OwnersDisjoint
    /\ GroupsOwned
    /\ GroupsIsolated
    /\ GroupsReserved

-----------------------------------------------------------------------------
\* Refinement: the kernel's groups are partitions of the caches.  A group that
\* is missing or not yet written holds nothing.

Partitions == INSTANCE CachePartitions WITH
    Names <- Groups,
    DomainOf <- [g \in Groups |-> g[1]],
    held <- [g \in Groups |-> IF Exists(g) THEN groups[g] ELSE {}]

\* Every step of the driver, of a crash or of its environment grants, drops or
\* leaves alone a partition: the schemata writes are Grants of free runs.
ImplementsPartitions == Partitions!Spec

\* Refinement: what the kubelet has been answered is what the claims are served.
Sizes(r) == {<<r[i].cacheID, r[i].ways>> : i \in {j \in DOMAIN r : r[j] # OtherDevice}}

\* Each of the devices stands for the group of its domain and claim.
PartsOf(c, ids) == {<<ids[i][1], groups[<<ids[i][1], c>>]>> : i \in DOMAIN ids}

AskedOf == [c \in Claims |-> IF api[c] = NoRequest THEN {} ELSE Sizes(api[c])]

GivenTo == [c \in Claims |-> IF phase[c] = "prepared" THEN PartsOf(c, answer[c]) ELSE {}]

\* A container is confined to the mask of the group it is in, whosever it is.
ConfinedTo ==
    [c \in Claims |-> IF task[c] \in Groups THEN <<task[c][1], groups[task[c]]>> ELSE task[c]]

Service == INSTANCE ClaimService WITH
    Users <- Claims,
    Nowhere <- NoTask,
    asked <- AskedOf,
    given <- GivenTo,
    confined <- ConfinedTo

\* A prepare that is answered gives all that the claim asked for, to it alone; and
\* nothing takes it away or moves the container before the container has exited and
\* the pod is gone: not the other calls and their error paths, not a crash and the
\* recovery after it.  docs/runbook.md:383 has one partition per claim.
ServesClaims == Service!Spec
=============================================================================
