---------------------------- MODULE BasicDriver -----------------------------
(***************************************************************************)
(* The driver in basic mode: the partitions of the node, one resctrl group *)
(* for each and one CDI file for all, are made when the driver starts; a   *)
(* claim is allocated whole partitions, which prepareClaim records in the  *)
(* AllocationState.                                                        *)
(*                                                                         *)
(* The process goes through main one system call or API request per step,  *)
(* then serves gRPC calls, each in a goroutine (a handler), until it is    *)
(* told to stop.  A fatal error, or a crash, runs no deferred clean-up:    *)
(* groups, tasks, the CDI file and the ResourceSlice stay, and the         *)
(* driver's memory is lost.                                                *)
(*                                                                         *)
(* The scheduler, the kubelet and the container runtime are the            *)
(* environment.                                                            *)
(***************************************************************************)
EXTENDS AllocationState, Resctrl, SequencesExt

CONSTANTS
    Handlers,       \* gRPC calls the driver can have in progress
    Configs,        \* what the flags can make of PartitionCache, flattened
    MBA,            \* whether memory bandwidth devices are published
    DomainOf,       \* group -> its cache domain
    OtherDevice,    \* a result of another driver or pool
    MaxResults,     \* bound: results of a claim
    MaxCrashes,     \* bound: crashes
    MaxStops,       \* bound: graceful stops
    Timeouts,       \* whether the kubelet gives up on a call and calls again
    CrashedReconfigure, \* whether the flags may change after a crash
    NoClaim, NoSpec, NoSlice, NoRequest

\* p.ID and p.ResctrlGroup name the same partition, and so does MBADeviceID.
Device(kind, g) == <<kind, g>>

GroupOfDevice(id) == id[2]

Partition == [group : Groups, cbm : CBM]

ASSUME BasicAssumption ==
    /\ IsFiniteSet(Groups)
    /\ Devices = {"cache", "mba"} \X Groups
    /\ Tasks = Claims
    /\ NoClaim \notin Claims
    /\ OtherDevice \notin Devices
    /\ \A devices \in SUBSET Devices : devices # NoSpec
    /\ NoRequest \notin Seq(Devices \cup {OtherDevice})
    /\ DomainOf \in [Groups -> Nat]
    /\ Configs \subseteq Seq(Partition) \ {<<>>}
    /\ \A f \in Configs : \A i, j \in DOMAIN f :
          /\ Contiguous(f[i].cbm)
          /\ i # j => f[i].group # f[j].group
          /\ (i # j /\ DomainOf[f[i].group] = DomainOf[f[j].group])
                => f[i].cbm \cap f[j].cbm = {}
    /\ MaxResults \in Nat
    /\ MaxCrashes \in Nat
    /\ MaxStops \in Nat
    /\ MBA \in BOOLEAN
    /\ Timeouts \in BOOLEAN
    /\ CrashedReconfigure \in BOOLEAN

VARIABLES
    pc,             \* where main is
    perCache,       \* the partitions of this run, in the order of the loops
    at,             \* the partition a loop of main is at
    listed,         \* claims read by RecoverAllocations and not yet looked at
    gauge,          \* PartitionsAllocated
    call,           \* handler -> the call it runs and its local variables
    cdi,            \* the devices in the CDI file, or NoSpec
    slice,          \* the devices in the ResourceSlice, or NoSlice
    api,            \* claim -> Status.Allocation's results, or NoRequest
    phase,          \* claim -> what the kubelet wants of the driver
    answer,         \* claim -> the CDI device IDs of the last successful prepare
    crashes, stops

main == <<pc, perCache, at, listed>>
memory == <<partitions, gauge>>
resctrl == <<groups, task>>
kubelet == <<api, phase, answer>>
bounds == <<crashes, stops>>
vars == <<main, memory, call, resctrl, cdi, slice, kubelet, bounds>>

StartPCs == {"mkdir", "schemata", "cdi", "list", "recover", "publish"}
StopPCs == {"stopping", "uncdi", "delete"}

CallPCs == {"idle", "get", "loop", "take", "count", "set", "prepared", "unprepared", "error"}

Call == [pc : CallPCs,
         claim : Claims \cup {NoClaim},
         live : BOOLEAN,        \* the kubelet still waits for the answer
         todo : Seq(Devices \cup {OtherDevice}),
         devices : Seq(Devices),
         counted : Nat,
         reply : {"prepared", "unprepared"}]

NewCall(p, c, reply) ==
    [pc |-> p, claim |-> c, live |-> TRUE, todo |-> <<>>, devices |-> <<>>,
     counted |-> 0, reply |-> reply]

IdleCall == [NewCall("idle", NoClaim, "prepared") EXCEPT !.live = FALSE]

Goto(h, p) == call' = [call EXCEPT ![h].pc = p]

PartitionDevices == {Device("cache", perCache[i].group) : i \in DOMAIN perCache}

\* What WriteCDISpecs writes and buildDevices publishes.
AllDevices ==
    PartitionDevices \cup
        IF MBA THEN {Device("mba", perCache[i].group) : i \in DOMAIN perCache} ELSE {}

NothingListed == [c \in Claims |-> NoRequest]

Init ==
    /\ pc = "stopped"
    /\ perCache \in Configs
    /\ at = 1
    /\ listed = NothingListed
    /\ partitions = NewAllocationState({})
    /\ gauge = 0
    /\ call = [h \in Handlers |-> IdleCall]
    /\ groups = [g \in Groups |-> NoGroup]
    /\ task = [t \in Tasks |-> NoTask]
    /\ cdi = NoSpec
    /\ slice = NoSlice
    /\ api = [c \in Claims |-> NoRequest]
    /\ phase = [c \in Claims |-> "none"]
    /\ answer = [c \in Claims |-> <<>>]
    /\ crashes = 0
    /\ stops = 0

-----------------------------------------------------------------------------
\* main, from its start to the gRPC server

\* The process is gone, and its memory with it.
LoseMemory ==
    /\ partitions' = NewAllocationState({})
    /\ gauge' = 0
    /\ listed' = NothingListed
    /\ call' = [h \in Handlers |-> IdleCall]

\* klog.Fatalf: deferred functions do not run.
Fatal ==
    /\ pc' = "down"
    /\ LoseMemory
    /\ UNCHANGED <<perCache, at, bounds>>

Proceed(p) ==
    /\ pc' = p
    /\ UNCHANGED <<perCache, at, listed, memory, call, bounds>>

\* The next partition of a loop of main over perCache, or what follows it.
NextPartition(p, after) ==
    /\ IF at < Len(perCache)
       THEN pc' = p /\ at' = at + 1
       ELSE pc' = after /\ at' = 1
    /\ UNCHANGED <<perCache, listed, memory, call, bounds>>

\* The flags are read, and PartitionCache divides the caches.
Start ==
    /\ pc \in {"down", "stopped"}
    /\ pc' = "mkdir"
    /\ at' = 1
    /\ IF pc = "stopped" \/ CrashedReconfigure THEN perCache' \in Configs ELSE UNCHANGED perCache
    /\ UNCHANGED <<listed, memory, call, resctrl, cdi, slice, kubelet, bounds>>

\* Variant: os.Mkdir, to which a directory that is there is an error.
CreateGroupDirNew ==
    LET g == perCache[at].group IN
    /\ pc = "mkdir"
    /\ \/ /\ ~ Exists(g) /\ CanMkdir(g)
          /\ Mkdir(g)
          /\ Proceed("schemata")
       \/ /\ Exists(g)
          /\ Fatal
          /\ UNCHANGED groups
    /\ UNCHANGED <<task, cdi, slice, kubelet>>

\* Variant: the group of an earlier run is removed first.
CreateGroupDirAfresh ==
    LET g == perCache[at].group IN
    /\ pc = "mkdir"
    /\ groups' = [groups EXCEPT ![g] = {}]
    /\ task' = Drained(g)
    /\ Proceed("schemata")
    /\ UNCHANGED <<cdi, slice, kubelet>>

CreateGroupDir ==
    LET g == perCache[at].group IN
    /\ pc = "mkdir"
    /\ \/ /\ CanMkdir(g)
          /\ Mkdir(g)
          /\ Proceed("schemata")
       \/ /\ ~ CanMkdir(g) \/ "mkdir" \in MayFail
          /\ Fatal
          /\ UNCHANGED groups
    /\ UNCHANGED <<task, cdi, slice, kubelet>>

\* Variant: an error of CreateGroup is logged only.
WriteGroupSchemataUnchecked ==
    LET p == perCache[at] IN
    /\ pc = "schemata"
    /\ \/ /\ CanWriteSchemata(p.group, p.cbm)
          /\ WriteSchemata(p.group, p.cbm)
       \/ /\ "schemata" \in MayFail
          /\ RemoveIfEmpty(p.group)
    /\ NextPartition("mkdir", "cdi")
    /\ UNCHANGED <<task, cdi, slice, kubelet>>

WriteGroupSchemata ==
    LET p == perCache[at] IN
    /\ pc = "schemata"
    /\ \/ /\ CanWriteSchemata(p.group, p.cbm)
          /\ WriteSchemata(p.group, p.cbm)
          /\ NextPartition("mkdir", "cdi")
       \/ /\ ~ CanWriteSchemata(p.group, p.cbm) \/ "schemata" \in MayFail
          /\ RemoveIfEmpty(p.group)
          /\ Fatal
    /\ UNCHANGED <<task, cdi, slice, kubelet>>

\* NewAllocationState, then WriteCDISpecs, which truncates the file first.
WriteCDISpecs ==
    /\ pc = "cdi"
    /\ \/ /\ cdi' = AllDevices
          /\ pc' = "list"
          /\ partitions' = NewAllocationState(PartitionDevices)
          /\ UNCHANGED <<perCache, at, listed, gauge, call, bounds>>
       \/ /\ "cdi" \in MayFail
          /\ cdi' \in {cdi, NoSpec}
          /\ Fatal
    /\ UNCHANGED <<resctrl, slice, kubelet>>

\* The pages of one List are of one moment.  When a page cannot be read, the
\* driver goes on with what it has.
ListClaims ==
    /\ pc = "list"
    /\ \/ listed' = api /\ pc' = "recover"
       \/ "list" \in MayFail /\ pc' = "publish" /\ UNCHANGED listed
    /\ UNCHANGED <<perCache, at, memory, call, resctrl, cdi, slice, kubelet, bounds>>

\* The partitions that the results r would be given to claim c.
Recoverable(c, r) == {d \in Range(r) \ {OtherDevice} : CanAllocate(d, c)}

\* Variant: a claim is counted, not its partitions.
RecoverClaimAsOne(c) ==
    LET found == Recoverable(c, listed[c]) IN
    /\ pc = "recover"
    /\ listed[c] # NoRequest
    /\ partitions' = [d \in Devices |-> IF d \in found THEN c ELSE partitions[d]]
    /\ gauge' = gauge + 1
    /\ listed' = [listed EXCEPT ![c] = NoRequest]
    /\ UNCHANGED <<pc, perCache, at, call, resctrl, cdi, slice, kubelet, bounds>>

\* Variant: only the first result of a claim is looked at.
RecoverFirstResult(c) ==
    LET found == Recoverable(c, <<Head(listed[c])>>) IN
    /\ pc = "recover"
    /\ listed[c] # NoRequest
    /\ partitions' = [d \in Devices |-> IF d \in found THEN c ELSE partitions[d]]
    /\ gauge' = gauge + Cardinality(found)
    /\ listed' = [listed EXCEPT ![c] = NoRequest]
    /\ UNCHANGED <<pc, perCache, at, call, resctrl, cdi, slice, kubelet, bounds>>

\* recoverClaim, whose Allocate calls nobody interrupts: no handler runs yet.
\* The gauge is set to the number recovered at the end, before anybody reads it.
RecoverClaim(c) ==
    LET found == Recoverable(c, listed[c]) IN
    /\ pc = "recover"
    /\ listed[c] # NoRequest
    /\ partitions' = [d \in Devices |-> IF d \in found THEN c ELSE partitions[d]]
    /\ gauge' = gauge + Cardinality(found)
    /\ listed' = [listed EXCEPT ![c] = NoRequest]
    /\ UNCHANGED <<pc, perCache, at, call, resctrl, cdi, slice, kubelet, bounds>>

EndRecovery ==
    /\ pc = "recover"
    /\ listed = NothingListed \/ "list" \in MayFail
    /\ listed' = NothingListed
    /\ pc' = "publish"
    /\ UNCHANGED <<perCache, at, memory, call, resctrl, cdi, slice, kubelet, bounds>>

\* PublishSlices.  An error may come after the API server has taken the slice.
Publish ==
    /\ pc = "publish"
    /\ \/ /\ slice' = AllDevices
          /\ Proceed("up")
       \/ /\ "publish" \in MayFail
          /\ slice' \in {slice, AllDevices}
          /\ Fatal
    /\ UNCHANGED <<resctrl, cdi, kubelet>>

-----------------------------------------------------------------------------
\* main, after a signal

\* GracefulStop refuses new calls and waits for those in progress.
Stop ==
    /\ pc = "up"
    /\ stops < MaxStops
    /\ stops' = stops + 1
    /\ pc' = "stopping"
    /\ UNCHANGED <<perCache, at, listed, memory, call, resctrl, cdi, slice, kubelet, crashes>>

\* A failed DeleteSlice is logged.
DeleteSlice ==
    /\ pc = "stopping"
    /\ \A h \in Handlers : call[h].pc = "idle"
    /\ slice' = NoSlice \/ ("unpublish" \in MayFail /\ UNCHANGED slice)
    /\ Proceed("uncdi")
    /\ UNCHANGED <<resctrl, cdi, kubelet>>

\* A failed removal is logged.
CleanupCDISpecs ==
    /\ pc = "uncdi"
    /\ cdi' = NoSpec \/ ("unlink" \in MayFail /\ UNCHANGED cdi)
    /\ Proceed("delete")
    /\ UNCHANGED <<resctrl, slice, kubelet>>

Exit ==
    /\ pc' = "stopped"
    /\ at' = 1
    /\ LoseMemory
    /\ UNCHANGED <<perCache, bounds>>

\* Variant: the groups are left to the next run.
LeaveGroups ==
    /\ pc = "delete"
    /\ Exit
    /\ UNCHANGED <<resctrl, cdi, slice, kubelet>>

\* Variant: the loop ends before the last partition.
DeleteAllButLast ==
    /\ pc = "delete"
    /\ IF at < Len(perCache)
       THEN /\ DeleteGroup(perCache[at].group)
            /\ NextPartition("delete", "stopped")
       ELSE Exit /\ UNCHANGED resctrl
    /\ UNCHANGED <<cdi, slice, kubelet>>

\* The deferred loop over the groups: a failed DeleteGroup is logged.
DeleteNextGroup ==
    /\ pc = "delete"
    /\ DeleteGroup(perCache[at].group)
    /\ IF at < Len(perCache) THEN NextPartition("delete", "stopped") ELSE Exit
    /\ UNCHANGED <<cdi, slice, kubelet>>

Crash ==
    /\ pc \notin {"down", "stopped"}
    /\ crashes < MaxCrashes
    /\ crashes' = crashes + 1
    /\ pc' = "down"
    /\ LoseMemory
    /\ UNCHANGED <<perCache, at, resctrl, cdi, slice, kubelet, stops>>

-----------------------------------------------------------------------------
\* prepareClaim and unprepareClaim

GetClaim(h) ==
    LET c == call[h].claim IN
    /\ call[h].pc = "get"
    /\ \/ /\ api[c] # NoRequest
          /\ call' = [call EXCEPT ![h].pc = "loop", ![h].todo = api[c]]
       \/ /\ api[c] = NoRequest \/ "get" \in MayFail \/ ~ call[h].live
          /\ Goto(h, "error")
    /\ UNCHANGED <<main, memory, resctrl, cdi, slice, kubelet, bounds>>

\* A result that is not this driver's is passed over, and so is one that
\* Allocate refuses.
AllocateResult(h) ==
    LET d == Head(call[h].todo)
        c == call[h].claim
        passed == [call[h] EXCEPT !.todo = Tail(@)]
    IN
    /\ call[h].pc = "loop"
    /\ call[h].todo # <<>>
    /\ IF d # OtherDevice /\ CanAllocate(d, c)
       THEN /\ Allocate(d, c)
            /\ call' = [call EXCEPT ![h] = [passed EXCEPT !.devices = Append(@, d)]]
       ELSE /\ call' = [call EXCEPT ![h] = passed]
            /\ UNCHANGED partitions
    /\ UNCHANGED <<main, gauge, resctrl, cdi, slice, kubelet, bounds>>

EndLoop(h) ==
    /\ call[h].pc = "loop"
    /\ call[h].todo = <<>>
    /\ Goto(h, IF call[h].devices = <<>> THEN "error" ELSE "count")
    /\ UNCHANGED <<main, memory, resctrl, cdi, slice, kubelet, bounds>>

ReleaseClaim(h) ==
    /\ call[h].pc = "take"
    /\ ReleaseByClaimUID(call[h].claim)
    /\ Goto(h, "count")
    /\ UNCHANGED <<main, gauge, resctrl, cdi, slice, kubelet, bounds>>

\* PartitionsAllocated.Set(float64(state.AllocatedCount())) reads in one
\* critical section and sets in none.
CountAllocated(h) ==
    /\ call[h].pc = "count"
    /\ call' = [call EXCEPT ![h].pc = "set", ![h].counted = AllocatedCount]
    /\ UNCHANGED <<main, memory, resctrl, cdi, slice, kubelet, bounds>>

SetGauge(h) ==
    /\ call[h].pc = "set"
    /\ gauge' = call[h].counted
    /\ Goto(h, call[h].reply)
    /\ UNCHANGED <<main, partitions, resctrl, cdi, slice, kubelet, bounds>>

-----------------------------------------------------------------------------
\* The scheduler

\* A device of the slice is allocated to one claim at a time.
Unallocated == slice \ UNION {Range(api[c]) : c \in {x \in Claims : api[x] # NoRequest}}

Schedule(c) ==
    /\ api[c] = NoRequest
    /\ slice # NoSlice
    /\ \E devices \in SUBSET Unallocated, others \in {<<>>, <<OtherDevice>>} :
          /\ devices # {}
          /\ Len(others) + Cardinality(devices) <= MaxResults
          /\ api' = [api EXCEPT ![c] = others \o SetToSeq(devices)]
    /\ phase' = [phase EXCEPT ![c] = "bound"]
    /\ UNCHANGED <<main, memory, call, resctrl, cdi, slice, answer, bounds>>

\* The pod is gone before the kubelet has asked for anything.
Abandon(c) ==
    /\ phase[c] = "bound"
    /\ phase' = [phase EXCEPT ![c] = "none"]
    /\ UNCHANGED <<main, memory, call, resctrl, cdi, slice, api, answer, bounds>>

Deallocate(c) ==
    /\ api[c] # NoRequest
    /\ phase[c] = "none"
    /\ api' = [api EXCEPT ![c] = NoRequest]
    /\ UNCHANGED <<main, memory, call, resctrl, cdi, slice, phase, answer, bounds>>

-----------------------------------------------------------------------------
\* The kubelet and the container runtime

Waiting(c) == \E h \in Handlers : call[h].live /\ call[h].claim = c

CallPrepare(h, c) ==
    /\ pc = "up"
    /\ phase[c] \in {"bound", "wanted"}
    /\ ~ Waiting(c)
    /\ call[h].pc = "idle"
    /\ call' = [call EXCEPT ![h] = NewCall("get", c, "prepared")]
    /\ phase' = [phase EXCEPT ![c] = "wanted"]
    /\ UNCHANGED <<main, memory, resctrl, cdi, slice, api, answer, bounds>>

CallUnprepare(h, c) ==
    /\ pc = "up"
    /\ phase[c] = "ending"
    /\ ~ Waiting(c)
    /\ call[h].pc = "idle"
    /\ call' = [call EXCEPT ![h] = NewCall("take", c, "unprepared")]
    /\ UNCHANGED <<main, memory, resctrl, cdi, slice, kubelet, bounds>>

Reply(h) ==
    LET c == call[h].claim IN
    /\ call[h].pc \in {"prepared", "unprepared", "error"}
    /\ call' = [call EXCEPT ![h] = IdleCall]
    /\ \/ /\ call[h].live /\ call[h].pc = "prepared"
          /\ phase' = [phase EXCEPT ![c] = "prepared"]
          /\ answer' = [answer EXCEPT ![c] = call[h].devices]
       \/ /\ call[h].live /\ call[h].pc = "unprepared"
          /\ phase' = [phase EXCEPT ![c] = "none"]
          /\ answer' = [answer EXCEPT ![c] = <<>>]
       \/ /\ ~ call[h].live \/ call[h].pc = "error"
          /\ UNCHANGED <<phase, answer>>
    /\ UNCHANGED <<main, memory, resctrl, cdi, slice, api, bounds>>

Timeout(h) ==
    /\ Timeouts
    /\ call[h].live
    /\ call' = [call EXCEPT ![h].live = FALSE]
    /\ UNCHANGED <<main, memory, resctrl, cdi, slice, kubelet, bounds>>

PodGone(c) ==
    /\ phase[c] \in {"wanted", "prepared"}
    /\ task[c] = NoTask
    /\ ~ Waiting(c)
    /\ phase' = [phase EXCEPT ![c] = "ending"]
    /\ UNCHANGED <<main, memory, call, resctrl, cdi, slice, api, answer, bounds>>

\* The runtime finds every device in the CDI file and runs its hook; the last
\* hook decides the task's group.
StartContainer(c) ==
    /\ phase[c] = "prepared"
    /\ task[c] = NoTask
    /\ cdi # NoSpec
    /\ \A i \in DOMAIN answer[c] :
          answer[c][i] \in cdi /\ Exists(GroupOfDevice(answer[c][i]))
    /\ AssignPID(GroupOfDevice(Last(answer[c])), c)
    /\ UNCHANGED <<main, memory, call, groups, cdi, slice, kubelet, bounds>>

ExitContainer(c) ==
    /\ task[c] # NoTask
    /\ task' = [task EXCEPT ![c] = NoTask]
    /\ UNCHANGED <<main, memory, call, groups, cdi, slice, kubelet, bounds>>

-----------------------------------------------------------------------------

MainStep ==
    \/ Start \/ CreateGroupDir \/ WriteGroupSchemata \/ WriteCDISpecs
    \/ ListClaims \/ EndRecovery \/ Publish
    \/ DeleteSlice \/ CleanupCDISpecs \/ DeleteNextGroup
    \/ \E c \in Claims : RecoverClaim(c)

HandlerStep(h) ==
    \/ GetClaim(h) \/ AllocateResult(h) \/ EndLoop(h) \/ ReleaseClaim(h)
    \/ CountAllocated(h) \/ SetGauge(h) \/ Reply(h)

Next ==
    \/ MainStep
    \/ Stop
    \/ Crash
    \/ \E h \in Handlers : HandlerStep(h) \/ Timeout(h)
    \/ \E h \in Handlers, c \in Claims : CallPrepare(h, c) \/ CallUnprepare(h, c)
    \/ \E c \in Claims :
          \/ Schedule(c) \/ Abandon(c) \/ Deallocate(c)
          \/ PodGone(c) \/ StartContainer(c) \/ ExitContainer(c)

Spec == Init /\ [][Next]_vars

\* The process and its goroutines run, a DaemonSet starts it again, and the
\* kubelet calls until it has an answer.
Fairness ==
    /\ WF_vars(MainStep)
    /\ \A h \in Handlers : WF_vars(HandlerStep(h))
    /\ \A c \in Claims :
          /\ WF_vars(\E h \in Handlers : CallPrepare(h, c))
          /\ WF_vars(\E h \in Handlers : CallUnprepare(h, c))

FairSpec == Spec /\ Fairness

-----------------------------------------------------------------------------
\* Properties

\* The AllocationState has an entry for exactly the partitions of this run.
TypeOK ==
    /\ pc \in {"down", "stopped", "up"} \cup StartPCs \cup StopPCs
    /\ perCache \in Configs
    /\ at \in DOMAIN perCache
    /\ AllocationStateType
    /\ ResctrlType
    /\ gauge \in Nat
    /\ call \in [Handlers -> Call]
    /\ cdi = NoSpec \/ cdi \subseteq Devices
    /\ slice = NoSlice \/ slice \subseteq Devices
    /\ phase \in [Claims -> {"none", "bound", "wanted", "prepared", "ending"}]
    /\ answer \in [Claims -> Seq(Devices)]
    /\ {d \in Devices : partitions[d] # Unknown} =
          IF pc \in {"down", "stopped", "mkdir", "schemata", "cdi"} THEN {} ELSE PartitionDevices

\* A prepared claim has what it was promised: each device answered to the kubelet
\* is in the CDI file, and its group has the mask that the device was published
\* with.  It spans what the kubelet was told, the file and the kernel, across
\* failed and repeated startups.
PreparedEnforced ==
    pc = "up" =>
        \A c \in Claims : phase[c] = "prepared" =>
            \A i \in DOMAIN answer[c] :
                /\ cdi # NoSpec /\ answer[c][i] \in cdi
                /\ \E p \in Range(perCache) :
                      /\ p.group = GroupOfDevice(answer[c][i])
                      /\ groups[p.group] = p.cbm

\* A partition of a prepared claim is never allocated to another, although the
\* driver may not know that it is in use (a list of claims that failed in the
\* recovery, which is only logged) and a call that the kubelet has given up still
\* runs with results read long ago.  With two such calls beside a third it can be.
NotStolen ==
    pc = "up" =>
        \A c \in Claims : phase[c] = "prepared" =>
            \A d \in Range(answer[c]) \cap PartitionDevices : partitions[d] \in {c, Free}

\* No restart after a crash takes a running container that has the ways of its
\* partition out of the group or changes the group's mask: resctrl.go:82 keeps a
\* directory that is there, and the write that follows is of the same mask.
RunningUndisturbed ==
    [][\A c \in Claims :
          (task[c] \in Groups /\ Written(task[c]) /\ task'[c] # NoTask) =>
              /\ task'[c] = task[c]
              /\ groups'[task[c]] = groups[task[c]]]_vars

\* The record survives: while the driver serves, each partition answered for a
\* prepared claim, and still in the layout, is allocated to that claim:
\* runbook.md:70, "reconcile state with existing ResourceClaims".
PreparedHolds ==
    pc = "up" =>
        \A c \in Claims : phase[c] = "prepared" =>
            \A d \in Range(answer[c]) \cap PartitionDevices : partitions[d] = c

\* While the driver serves, the kernel has the groups of this run's layout and no
\* others: runbook.md:105, "The driver will delete and recreate all resctrl groups
\* on restart".
LayoutInForce ==
    pc = "up" =>
        \A g \in Groups :
            IF \E p \in Range(perCache) : p.group = g
            THEN [group |-> g, cbm |-> groups[g]] \in Range(perCache)
            ELSE ~ Exists(g)

\* metrics.go:17, "Number of currently allocated cache partitions."
GaugeCounts ==
    (pc = "up" /\ \A h \in Handlers : call[h].pc \in {"idle", "get", "error"})
        => gauge = AllocatedCount

\* A published device that the scheduler has allocated to a claim, and to no other,
\* can be prepared for it: README.md:40, "frees the allocation for reuse", and
\* runbook.md:268, "Both device types share the same resctrl group".
AllocatedPreparable ==
    \A h \in Handlers :
        LET d == Head(call[h].todo)
            c == call[h].claim
        IN  (/\ call[h].pc = "loop" /\ call[h].todo # <<>>
             /\ slice # NoSlice /\ d \in slice
             /\ api[c] # NoRequest /\ d \in Range(api[c]))
                => CanAllocate(d, c)

\* A claim whose pod has been scheduled is prepared, unless the pod goes away.
ScheduledPrepared ==
    \A c \in Claims : phase[c] = "bound" ~> phase[c] \in {"prepared", "ending", "none"}

\* A driver that is down comes up again, whatever an earlier run has left behind.
ComesUp == pc = "down" ~> pc = "up"

-----------------------------------------------------------------------------
\* Refinement: the kernel's groups are partitions of the caches.

Partitions == INSTANCE CachePartitions WITH
    Names <- Groups,
    DomainOf <- DomainOf,
    held <- [g \in Groups |-> IF Exists(g) THEN groups[g] ELSE {}]

ImplementsPartitions == Partitions!Spec
=============================================================================
