----------------------------- MODULE Lifecycle ------------------------------
(***************************************************************************)
(* The driver's process on a node, one run after another: main from its    *)
(* start to its exit, the servers it starts in goroutines, and what a run  *)
(* leaves to the next one: the hook binary, the control groups, the CDI    *)
(* file and the ResourceSlice.  The feature gate of the cluster chooses    *)
(* between basic and structured mode when the driver starts.               *)
(*                                                                         *)
(* A signal can arrive at any time.  Before signal.NotifyContext it kills  *)
(* the process; afterwards it cancels the context that the requests, the   *)
(* probe and the servers use.  What the driver does for claims is in       *)
(* BasicDriver and StructuredDriver: here the groups of all partitions are *)
(* one, and so are those of all claims.                                    *)
(***************************************************************************)
EXTENDS SlicePublisher, Naturals

CONSTANTS
    Gates,          \* what the feature gate can be: the modes it stands for
    MayFail,        \* the calls that can fail
    MaxFaults       \* bound: failures, signals, crashes and acts of others

Calls == {"hook", "client", "probe", "groups", "cdi", "owner", "create", "get", "update",
          "listen", "serve", "register", "health", "delete", "unlink", "rmdir"}

ASSUME LifecycleAssumption ==
    /\ NoSlice \notin Slice
    /\ Gates \subseteq Modes
    /\ MayFail \subseteq Calls
    /\ MaxFaults \in Nat

VARIABLES
    gate,           \* the mode that DRAPartitionableDevices selects
    pc,             \* where main is: "down" after a fatal error or a crash
    mode,           \* caps.PartitionableDevices, once probed
    cancelled,      \* whether ctx is done
    failed,         \* grpcErr # nil
    held,           \* what the WayAllocator counts as groups of claims
    ready,          \* HealthServer.ready
    health,         \* the goroutine of the health server
    registrar,      \* the goroutine of the registration server
    hook,           \* the binary that containers' hooks execute
    groups,         \* the control groups there are: of partitions, of claims
    cdi,            \* the CDI file of the partitions
    faults,
    errors          \* the calls that have failed since the driver started, and
                    \* "erased" when its slice was deleted by somebody else

process == <<mode, cancelled, failed, held, ready>>
servers == <<health, registrar>>
node == <<hook, groups, cdi>>
history == <<faults, errors>>
vars == <<gate, pc, process, servers, node, publisher, history>>

Stopped == {"down", "stopped"}

\* main.go before and after signal.NotifyContext, and up to PublishSlices' return
Deaf == {"hook", "copy", "client"}
Publishing == {"owner", "create", "get", "update"}
Starting == Deaf \cup {"probe", "groups", "cdi", "write"} \cup Publishing
Published == {"adopt", "launch", "listen", "serve", "serving"}
Stopping == {"delete", "exit", "unlink", "rmdir"}

Kinds == {"partitions", "claims"}
File == {"absent", "partial", "whole"}
Server == {"off", "starting", "serving"}

\* The servers, and the readiness they report, are those of a process that has
\* published its slice.
TypeOK ==
    /\ gate \in Modes
    /\ pc \in Stopped \cup Starting \cup Published \cup Stopping
    /\ mode \in Modes
    /\ cancelled \in BOOLEAN /\ failed \in BOOLEAN /\ ready \in BOOLEAN
    /\ held \subseteq Kinds /\ groups \subseteq Kinds
    /\ health \in Server /\ registrar \in Server
    /\ ready <=> pc \in (Published \ {"adopt", "launch"}) \cup Stopping
    /\ health # "off" \/ registrar # "off" => ready
    /\ hook \in File /\ cdi \in File
    /\ SlicePublisherType
    /\ faults \in 0 .. MaxFaults
    /\ errors \subseteq Calls \cup {"erased"}

\* What earlier runs, in either mode, may have left on the node and in the
\* API server.
Init ==
    /\ gate \in Gates
    /\ pc = "down"
    /\ mode = "basic"
    /\ cancelled = FALSE
    /\ failed = FALSE
    /\ held = {}
    /\ ready = FALSE
    /\ health = "off"
    /\ registrar = "off"
    /\ hook \in File
    /\ groups \in SUBSET Kinds
    /\ cdi \in File
    /\ slice \in Slice \cup {NoSlice}
    /\ ownerRef = FALSE
    /\ seen = FALSE
    /\ faults = 0
    /\ errors = {}

Fault ==
    /\ faults < MaxFaults
    /\ faults' = faults + 1

Fails(c) ==
    /\ c \in MayFail
    /\ Fault
    /\ errors' = errors \cup {c}

\* A call that uses ctx fails once ctx is done, and may fail before.
RequestFails(c) == IF cancelled THEN UNCHANGED history ELSE Fails(c)

\* The process ends, and its goroutines and memory with it.
End(p) ==
    /\ pc' = p
    /\ cancelled' = FALSE
    /\ failed' = FALSE
    /\ held' = {}
    /\ ready' = FALSE
    /\ health' = "off"
    /\ registrar' = "off"
    /\ UNCHANGED <<gate, mode>>

\* klog.Fatalf, wherever it is called from: no deferred function runs.
Fatal == End("down")

Goto(p) == pc' = p /\ UNCHANGED <<gate, process, servers>>

-----------------------------------------------------------------------------
\* main, up to the probe

Start ==
    /\ pc \in Stopped
    /\ Goto("hook")
    /\ errors' = {}
    /\ UNCHANGED <<node, publisher, faults>>

\* Variant: a hook binary that is there is not installed again.
InstallHookOnce ==
    /\ pc = "hook"
    /\ IF hook = "absent"
       THEN hook' = "partial" /\ Goto("copy")
       ELSE UNCHANGED hook /\ Goto("client")
    /\ UNCHANGED <<groups, cdi, publisher, history>>

\* The file is opened with O_TRUNC: the binary of the last run is lost.
InstallHook ==
    /\ pc = "hook"
    /\ \/ hook' = "partial" /\ Goto("copy") /\ UNCHANGED history
       \/ Fails("hook") /\ Fatal /\ UNCHANGED hook
    /\ UNCHANGED <<groups, cdi, publisher>>

CopyHook ==
    /\ pc = "copy"
    /\ \/ hook' = "whole" /\ Goto("client") /\ UNCHANGED history
       \/ Fails("hook") /\ Fatal /\ UNCHANGED hook
    /\ UNCHANGED <<groups, cdi, publisher>>

\* The tenth failed attempt is fatal.
BuildKubeClient ==
    /\ pc = "client"
    /\ \/ Goto("probe") /\ UNCHANGED history
       \/ Fails("client") /\ Fatal
    /\ UNCHANGED <<node, publisher>>

\* An error, whatever its cause, is taken for a gate that is off.
ProbeFeatureGates ==
    /\ pc = "probe"
    /\ \/ ~ cancelled /\ mode' = gate /\ UNCHANGED history
       \/ RequestFails("probe") /\ mode' = "basic"
    /\ pc' = IF mode' = "basic" THEN "groups" ELSE "owner"
    /\ UNCHANGED <<gate, cancelled, failed, held, ready, servers, node, publisher>>

-----------------------------------------------------------------------------
\* main in basic mode: BasicDriver has these steps in detail

CreateGroups ==
    /\ pc = "groups"
    /\ \/ /\ groups' = groups \cup {"partitions"}
          /\ Goto("cdi")
          /\ UNCHANGED history
       \/ /\ Fails("groups")
          /\ groups' \in {groups, groups \cup {"partitions"}}
          /\ Fatal
    /\ UNCHANGED <<hook, cdi, publisher>>

\* Variant: the file is written where the health check does not look for it.
CDIElsewhere ==
    /\ pc = "cdi"
    /\ Goto("owner")
    /\ UNCHANGED <<node, publisher, history>>

\* WriteCDISpecs: os.WriteFile truncates, then writes.
TruncateCDI ==
    /\ pc = "cdi"
    /\ \/ cdi' = "partial" /\ Goto("write") /\ UNCHANGED history
       \/ Fails("cdi") /\ Fatal /\ UNCHANGED cdi
    /\ UNCHANGED <<hook, groups, publisher>>

\* RecoverAllocations follows; its errors are logged.
WriteCDI ==
    /\ pc = "write"
    /\ \/ cdi' = "whole" /\ Goto("owner") /\ UNCHANGED history
       \/ Fails("cdi") /\ Fatal /\ UNCHANGED cdi
    /\ UNCHANGED <<hook, groups, publisher>>

-----------------------------------------------------------------------------
\* PublishSlices

\* A slice without an owner reference is published when the Node cannot be read.
NodeOwnerReference ==
    /\ pc = "owner"
    /\ \/ ~ cancelled /\ ownerRef' = TRUE /\ UNCHANGED history
       \/ RequestFails("owner") /\ ownerRef' = FALSE
    /\ Goto("create")
    /\ UNCHANGED <<slice, seen, node>>

AfterPublish == IF mode = "structured" THEN "adopt" ELSE "launch"

\* A request that fails for the caller may have been carried out, unless ctx
\* was done before it was sent.
PublishFails(call, Request) ==
    /\ RequestFails(call)
    /\ \/ ~ cancelled /\ Request
       \/ UNCHANGED publisher
    /\ Fatal

\* Variant: any error of Create is fatal.
CreateOnly ==
    /\ pc = "create"
    /\ \/ ~ cancelled /\ CreateSlice(mode) /\ Goto(AfterPublish) /\ UNCHANGED history
       \/ ~ CanCreate /\ Fatal /\ UNCHANGED <<publisher, history>>
       \/ PublishFails("create", CreateSlice(mode))
    /\ UNCHANGED node

Create ==
    /\ pc = "create"
    /\ \/ ~ cancelled /\ CreateSlice(mode) /\ Goto(AfterPublish) /\ UNCHANGED history
       \/ ~ cancelled /\ ~ CanCreate /\ Goto("get") /\ UNCHANGED <<publisher, history>>
       \/ PublishFails("create", CreateSlice(mode))
    /\ UNCHANGED node

Get ==
    /\ pc = "get"
    /\ \/ ~ cancelled /\ GetSlice /\ Goto("update") /\ UNCHANGED history
       \/ ~ CanGet /\ Fatal /\ UNCHANGED <<publisher, history>>
       \/ PublishFails("get", GetSlice)
    /\ UNCHANGED node

\* Variant: the slice of an earlier run is left as it is.
KeepSlice ==
    /\ pc = "update"
    /\ Goto(AfterPublish)
    /\ UNCHANGED <<node, publisher, history>>

Update ==
    /\ pc = "update"
    /\ \/ ~ cancelled /\ UpdateSlice(mode) /\ Goto(AfterPublish) /\ UNCHANGED history
       \/ ~ CanUpdate /\ Fatal /\ UNCHANGED <<publisher, history>>
       \/ PublishFails("update", UpdateSlice(mode))
    /\ UNCHANGED node

-----------------------------------------------------------------------------
\* main, up to the gRPC server

\* Variant: only the groups of partitions are looked at.
RecoverNoClaims ==
    /\ pc = "adopt"
    /\ pc' = "launch"
    /\ held' = groups \ {"claims"}
    /\ UNCHANGED <<gate, mode, cancelled, failed, ready, servers, node, publisher, history>>

\* The groups that begin with dra-c: dra-claim-* and also dra-cache*.
RecoverStructuredAllocs ==
    /\ pc = "adopt"
    /\ pc' = "launch"
    /\ held' = groups
    /\ UNCHANGED <<gate, mode, cancelled, failed, ready, servers, node, publisher, history>>

\* Variant: the registration server alone is started.
LaunchRegistrar ==
    /\ pc = "launch"
    /\ pc' = "listen"
    /\ registrar' = "starting"
    /\ UNCHANGED <<gate, mode, cancelled, failed, held, ready, health, node, publisher, history>>

\* go healthServer.Serve, MarkReady, go registrar.Serve.
Launch ==
    /\ pc = "launch"
    /\ pc' = "listen"
    /\ ready' = TRUE
    /\ health' = "starting"
    /\ registrar' = "starting"
    /\ UNCHANGED <<gate, mode, cancelled, failed, held, node, publisher, history>>

ServerError ==
    /\ pc' = "delete"
    /\ failed' = TRUE
    /\ UNCHANGED <<gate, mode, cancelled, held, ready, servers>>

Listen ==
    /\ pc = "listen"
    /\ \/ Goto("serve") /\ UNCHANGED history
       \/ Fails("listen") /\ ServerError
    /\ UNCHANGED <<node, publisher>>

\* GracefulStop runs in a goroutine: when it comes before Serve, Serve fails.
Serve ==
    /\ pc = "serve"
    /\ \/ Goto("serving") /\ UNCHANGED history
       \/ RequestFails("serve") /\ ServerError
    /\ UNCHANGED <<node, publisher>>

\* NodePrepareResources in structured mode.
PrepareClaim ==
    /\ pc = "serving"
    /\ mode = "structured"
    /\ "claims" \notin groups \cup held
    /\ groups' = groups \cup {"claims"}
    /\ held' = held \cup {"claims"}
    /\ UNCHANGED <<gate, pc, mode, cancelled, failed, ready, servers, hook, cdi, publisher, history>>

-----------------------------------------------------------------------------
\* The goroutines

\* ListenAndServe fails when it cannot listen, but not when it was shut down.
HealthServe ==
    /\ health = "starting"
    /\ \/ health' = "serving" /\ UNCHANGED <<gate, pc, process, registrar, history>>
       \/ Fails("health") /\ Fatal
    /\ UNCHANGED <<node, publisher>>

HealthShutdown ==
    /\ health # "off"
    /\ cancelled
    /\ health' = "off"
    /\ UNCHANGED <<gate, pc, process, registrar, node, publisher, history>>

\* As in Serve, a GracefulStop that comes first makes it fail, which is fatal.
RegistrarServe ==
    /\ registrar = "starting"
    /\ \/ registrar' = "serving" /\ UNCHANGED <<gate, pc, process, health, history>>
       \/ RequestFails("register") /\ Fatal
    /\ UNCHANGED <<node, publisher>>

RegistrarStop ==
    /\ registrar = "serving"
    /\ cancelled
    /\ registrar' = "off"
    /\ UNCHANGED <<gate, pc, process, health, node, publisher, history>>

-----------------------------------------------------------------------------
\* main, after the gRPC server

\* GracefulStop has waited for the calls in progress.
GracefulStop ==
    /\ pc = "serving"
    /\ cancelled
    /\ Goto("delete")
    /\ UNCHANGED <<node, publisher, history>>

\* Variant: the context that the signal has cancelled is used.
DeleteWithCtx ==
    /\ pc = "delete"
    /\ IF cancelled THEN UNCHANGED publisher ELSE DeleteSlice
    /\ Goto("exit")
    /\ UNCHANGED <<node, history>>

\* With a context of its own.  An error is logged.
Delete ==
    /\ pc = "delete"
    /\ \/ DeleteSlice /\ UNCHANGED history
       \/ Fails("delete") /\ UNCHANGED publisher
    /\ Goto("exit")
    /\ UNCHANGED node

\* A fatal error runs no deferred function.
Exit ==
    /\ pc = "exit"
    /\ CASE failed -> Fatal
         [] ~ failed /\ mode = "basic" -> Goto("unlink")
         [] OTHER -> End("stopped")
    /\ UNCHANGED <<node, publisher, history>>

\* The deferred functions, the last one first; their errors are logged.
CleanupCDISpecs ==
    /\ pc = "unlink"
    /\ \/ cdi' = "absent" /\ UNCHANGED history
       \/ Fails("unlink") /\ UNCHANGED cdi
    /\ Goto("rmdir")
    /\ UNCHANGED <<hook, groups, publisher>>

DeleteGroups ==
    /\ pc = "rmdir"
    /\ \/ groups' = groups \ {"partitions"} /\ UNCHANGED history
       \/ Fails("rmdir") /\ UNCHANGED groups
    /\ End("stopped")
    /\ UNCHANGED <<hook, cdi, publisher>>

-----------------------------------------------------------------------------
\* The node and the cluster

\* SIGTERM, of the kubelet or of anybody.
Signal ==
    /\ pc \notin Stopped
    /\ ~ cancelled
    /\ Fault
    /\ UNCHANGED errors
    /\ IF pc \in Deaf
       THEN Fatal
       ELSE cancelled' = TRUE /\ UNCHANGED <<gate, pc, mode, failed, held, ready, servers>>
    /\ UNCHANGED <<node, publisher>>

Crash ==
    /\ pc \notin Stopped
    /\ Fault
    /\ Fatal
    /\ UNCHANGED <<node, publisher, errors>>

\* What /healthz looks for: a file that is not empty.  One that was cut short may
\* be either.
MaybeUnhealthy == cdi # "whole"

\* The kubelet restarts a container whose liveness probe fails three times in a
\* row, ten seconds apart: by then a driver that gets that far is serving.
LivenessProbe ==
    /\ health = "serving"
    /\ pc = "serving"
    /\ MaybeUnhealthy
    /\ ~ cancelled
    /\ cancelled' = TRUE
    /\ UNCHANGED <<gate, pc, mode, failed, held, ready, servers, node, publisher, history>>

OthersErase ==
    /\ Fault
    /\ EraseSlice
    /\ errors' = IF pc \in Published THEN errors \cup {"erased"} ELSE errors
    /\ UNCHANGED <<gate, pc, process, servers, node>>

OthersAdopt ==
    /\ Fault
    /\ AdoptSlice
    /\ UNCHANGED <<gate, pc, process, servers, node, errors>>

-----------------------------------------------------------------------------
Main ==
    \/ Start \/ InstallHook \/ CopyHook \/ BuildKubeClient \/ ProbeFeatureGates
    \/ CreateGroups \/ TruncateCDI \/ WriteCDI
    \/ NodeOwnerReference \/ Create \/ Get \/ Update
    \/ RecoverStructuredAllocs \/ Launch \/ Listen \/ Serve \/ GracefulStop
    \/ Delete \/ Exit \/ CleanupCDISpecs \/ DeleteGroups

HealthServer == HealthServe \/ HealthShutdown
Registrar == RegistrarServe \/ RegistrarStop
Others == PrepareClaim \/ Signal \/ Crash \/ OthersErase \/ OthersAdopt

Next == Main \/ HealthServer \/ Registrar \/ LivenessProbe \/ Others

Spec == Init /\ [][Next]_vars

\* The kubelet restarts the container, the Go scheduler runs every goroutine,
\* and the kubelet goes on probing: without the file the answer is certain.
\* Nobody has to call or to interfere.
FairSpec ==
    /\ Spec
    /\ WF_vars(Main)
    /\ WF_vars(HealthServer)
    /\ WF_vars(Registrar)
    /\ WF_vars(cdi = "absent" /\ LivenessProbe)

-----------------------------------------------------------------------------
\* Properties

\* While the gRPC server can be called, all that its handlers and the hooks of
\* containers use is there, whatever run has made it, and claims of earlier
\* runs are accounted for: nothing is set up after the server starts or taken
\* down before it has stopped.
ServedIsUsable ==
    pc = "serving" =>
        /\ hook = "whole"
        /\ mode = "basic" => cdi = "whole" /\ "partitions" \in groups
        /\ mode = "structured" => groups \subseteq held

\* A driver that has published runs in the mode of the cluster, and its slice
\* says so, whatever slice it has found: only a probe that failed, and not one
\* that the signal has cut short, has it publish in the wrong mode, and only
\* somebody who deletes the slice afterwards leaves the driver without one.
SliceTrue ==
    pc \in Published =>
        /\ mode = gate \/ "probe" \in errors
        /\ IF slice = NoSlice THEN "erased" \in errors ELSE slice.devices = mode

\* An owner reference is not lost as long as the slice exists, whether it was
\* the driver or somebody else who set it, and whenever they did.
OwnerKept ==
    [][slice # NoSlice /\ slice' # NoSlice /\ slice.owned => slice'.owned]_slice

\* A driver that exits normally leaves nothing that would have pods scheduled
\* to it or containers given its partitions, but what it could not remove.
CleanExit ==
    pc = "stopped" =>
        /\ slice = NoSlice \/ "delete" \in errors
        /\ mode = "basic" => cdi = "absent" \/ "unlink" \in errors
        /\ mode = "basic" => "partitions" \notin groups \/ "rmdir" \in errors

\* Whatever an earlier run has left, and in whichever mode, the driver comes to
\* serve again.
ServesAgain == []<>(pc = "serving")

\* A driver that nobody disturbs any more goes on serving.
StaysUp == <>[](pc = "serving")

\* In basic mode the driver's own health check does not stop it, whatever an
\* earlier run has left: health.go:61 looks for the file that main.go:269 writes.
BasicStaysUp == gate = "basic" => StaysUp

\* Not so (see the README): the groups of partitions are taken for claims, and
\* their ways for used, after a run that a signal has made a basic one.
OnlyClaimsHeld == held \subseteq {"claims"}
=============================================================================
