--------------------------- MODULE LifecycleProofs --------------------------
(***************************************************************************)
(* What a run of the driver has set up when it serves, and what it leaves  *)
(* when it exits, proved for every bound on the faults and every set of    *)
(* calls that fail.                                                        *)
(***************************************************************************)
EXTENDS Lifecycle, TLAPS

\* Each step of a run, up to the exit, keeps what the steps before it have set
\* up: earlier runs and other actors do not.
HookInv == pc \in {"down", "stopped", "hook", "copy"} \/ hook = "whole"

\* What main has made in basic mode, and accounted for in structured mode.
NodeInv ==
    /\ pc \in {"groups", "cdi", "write"} => mode = "basic"
    /\ pc = "adopt" => mode = "structured"
    /\ (pc \in {"cdi", "write"} \cup Publishing \cup Published /\ mode = "basic")
          => "partitions" \in groups
    /\ (pc \in Publishing \cup Published /\ mode = "basic") => cdi = "whole"
    /\ (pc \in {"launch", "listen", "serve", "serving"} /\ mode = "structured")
          => groups \subseteq held

\* The mode may be wrong after a cancelled probe, but no request succeeds then.
ModeInv ==
    pc \in {"groups", "cdi", "write"} \cup Publishing \cup Published =>
        mode = gate \/ "probe" \in errors \/ (cancelled /\ pc \notin Published)

SliceInv ==
    pc \in Published =>
        IF slice = NoSlice THEN "erased" \in errors ELSE slice.devices = mode

\* The clean-ups so far.
ExitInv ==
    /\ pc \in {"exit", "unlink", "rmdir", "stopped"} => slice = NoSlice \/ "delete" \in errors
    /\ pc \in {"unlink", "rmdir"} => mode = "basic"
    /\ (pc \in {"rmdir", "stopped"} /\ mode = "basic") => cdi = "absent" \/ "unlink" \in errors
    /\ (pc = "stopped" /\ mode = "basic") => "partitions" \notin groups \/ "rmdir" \in errors

\* The values that the steps below compare.
ValuesOK ==
    /\ gate \in Modes
    /\ mode \in Modes
    /\ slice \in Slice \cup {NoSlice}
    /\ ownerRef \in BOOLEAN

\* An update that will be accepted was built from the owner that the slice has.
OwnerInv ==
    pc = "update" /\ seen => slice # NoSlice /\ (slice.owned => ownerRef)

\* The rest of TypeOK, by what the provers need for it.
PlacesOK ==
    /\ pc \in Stopped \cup Starting \cup Published \cup Stopping
    /\ held \subseteq Kinds /\ groups \subseteq Kinds
    /\ health \in Server /\ registrar \in Server
    /\ hook \in File /\ cdi \in File

FlagsOK ==
    /\ cancelled \in BOOLEAN /\ failed \in BOOLEAN /\ ready \in BOOLEAN /\ seen \in BOOLEAN

ReadyOK == ready <=> pc \in (Published \ {"adopt", "launch"}) \cup Stopping

ServersOK == health # "off" \/ registrar # "off" => ready

HistoryOK ==
    /\ faults \in 0 .. MaxFaults
    /\ errors \subseteq Calls \cup {"erased"}

LifecycleInv ==
    /\ PlacesOK /\ FlagsOK /\ ReadyOK /\ ServersOK /\ HistoryOK
    /\ ValuesOK /\ HookInv /\ NodeInv /\ ModeInv /\ SliceInv /\ ExitInv /\ OwnerInv

\* A run begins with nothing done, whatever earlier runs have left.
LEMMA InitInv == Init => LifecycleInv
<1> SUFFICES ASSUME Init PROVE LifecycleInv
    OBVIOUS
<1> USE DEF Init, Stopped, Starting, Deaf, Publishing, Published, Stopping
<1>1. PlacesOK /\ HistoryOK
    BY LifecycleAssumption DEF PlacesOK, HistoryOK, Kinds, File, Server
<1>2. FlagsOK /\ ReadyOK /\ ServersOK
    BY Zenon DEF FlagsOK, ReadyOK, ServersOK
<1>3. ValuesOK
    BY LifecycleAssumption DEF ValuesOK, Modes
<1>4. HookInv /\ NodeInv /\ ModeInv /\ SliceInv /\ ExitInv /\ OwnerInv
    BY DEF HookInv, NodeInv, ModeInv, SliceInv, ExitInv, OwnerInv
<1> QED
    BY <1>1, <1>2, <1>3, <1>4 DEF LifecycleInv

\* Each step leads to one of the program's places, and to one of a file's states.
LEMMA PlacesOKStep ==
    ASSUME PlacesOK, [Next]_vars
    PROVE  PlacesOK'
<1> USE LifecycleAssumption
    DEF PlacesOK, Kinds, File, Server, Stopped, Starting, Deaf, Publishing, Published, Stopping,
        publisher, process, servers, node, history, Goto, End, Fatal, Fault, Fails,
        RequestFails
<1>1. CASE Start \/ InstallHook \/ CopyHook \/ BuildKubeClient \/ ProbeFeatureGates
    BY <1>1 DEF Start, InstallHook, CopyHook, BuildKubeClient, ProbeFeatureGates
<1>2. CASE CreateGroups \/ TruncateCDI \/ WriteCDI \/ NodeOwnerReference
    BY <1>2 DEF CreateGroups, TruncateCDI, WriteCDI, NodeOwnerReference
<1>3. CASE Create
    BY <1>3 DEF Create, PublishFails, CreateSlice, CanCreate, Built, AfterPublish
<1>4. CASE Get
    BY <1>4 DEF Get, PublishFails, GetSlice, CanGet
<1>5. CASE Update
    BY <1>5 DEF Update, PublishFails, UpdateSlice, CanUpdate, Built, AfterPublish
<1>6. CASE RecoverStructuredAllocs \/ Launch \/ Listen \/ Serve
    BY <1>6 DEF RecoverStructuredAllocs, Launch, Listen, Serve, ServerError
<1>7. CASE GracefulStop \/ Delete \/ Exit
    BY <1>7 DEF GracefulStop, Delete, DeleteSlice, Exit
<1>8. CASE CleanupCDISpecs \/ DeleteGroups
    BY <1>8 DEF CleanupCDISpecs, DeleteGroups
<1>9. ASSUME UNCHANGED node,
             \/ Fatal
             \/ UNCHANGED <<pc, held>> /\ health' \in Server /\ registrar' \in Server
      PROVE  PlacesOK'
    BY <1>9
<1>10. CASE HealthServer \/ Registrar \/ LivenessProbe
    <2> USE DEF HealthServer, HealthServe, HealthShutdown, Registrar, RegistrarServe,
            RegistrarStop, LivenessProbe
    <2> HIDE DEF Fatal, End
    <2>1. UNCHANGED node /\ (Fatal \/ UNCHANGED <<pc, held>>)
        BY <1>10
    <2>2. CASE HealthServer
        BY <1>9, <2>1, <2>2
    <2>3. CASE Registrar
        BY <1>9, <2>1, <2>3
    <2>4. CASE LivenessProbe
        BY <1>9, <2>1, <2>4
    <2> QED
        BY <1>10, <2>2, <2>3, <2>4
<1>11. CASE PrepareClaim \/ Signal \/ Crash
    <2>1. CASE PrepareClaim
        BY <2>1 DEF PrepareClaim
    <2>2. CASE Signal \/ Crash
        <3> HIDE DEF Fatal, End
        <3>1. UNCHANGED node /\ (Fatal \/ UNCHANGED <<pc, held, health, registrar>>)
            BY <2>2 DEF Signal, Crash
        <3> QED
            BY <1>9, <3>1
    <2> QED
        BY <1>11, <2>1, <2>2
<1>12. CASE OthersErase \/ OthersAdopt
    BY <1>12 DEF OthersErase, EraseSlice, OthersAdopt, AdoptSlice
<1>13. CASE UNCHANGED vars
    BY <1>13 DEF vars
<1> QED
    BY <1>1, <1>2, <1>3, <1>4, <1>5, <1>6, <1>7, <1>8, <1>9, <1>10, <1>11, <1>12, <1>13
       DEF Next, Main, Others

\* The flags are set and reset, to nothing else.
LEMMA FlagsOKStep ==
    ASSUME FlagsOK, [Next]_vars
    PROVE  FlagsOK'
<1> USE LifecycleAssumption
    DEF FlagsOK, publisher, process, servers, node, history, Goto, End, Fatal
<1>1. CASE Start \/ InstallHook \/ CopyHook \/ BuildKubeClient \/ ProbeFeatureGates
    BY <1>1, Zenon DEF Start, InstallHook, CopyHook, BuildKubeClient, ProbeFeatureGates
<1>2. CASE CreateGroups \/ TruncateCDI \/ WriteCDI \/ NodeOwnerReference
    BY <1>2, Zenon DEF CreateGroups, TruncateCDI, WriteCDI, NodeOwnerReference
<1>3. CASE Create
    BY <1>3, Zenon DEF Create, PublishFails, CreateSlice, CanCreate, Built, AfterPublish
<1>4. CASE Get
    BY <1>4, Zenon DEF Get, PublishFails, GetSlice, CanGet
<1>5. CASE Update
    BY <1>5, Zenon DEF Update, PublishFails, UpdateSlice, CanUpdate, Built, AfterPublish
<1>6. CASE RecoverStructuredAllocs \/ Launch \/ Listen \/ Serve
    BY <1>6, Zenon DEF RecoverStructuredAllocs, Launch, Listen, Serve, ServerError
<1>7. CASE GracefulStop \/ Delete \/ Exit
    BY <1>7, Zenon DEF GracefulStop, Delete, DeleteSlice, Exit
<1>8. CASE CleanupCDISpecs \/ DeleteGroups
    BY <1>8, Zenon DEF CleanupCDISpecs, DeleteGroups
<1>9. CASE HealthServer
    BY <1>9, Zenon DEF HealthServer, HealthServe, HealthShutdown
<1>10. CASE Registrar \/ LivenessProbe
    BY <1>10, Zenon DEF Registrar, RegistrarServe, RegistrarStop, LivenessProbe
<1>11. CASE PrepareClaim \/ Signal \/ Crash
    BY <1>11, Zenon DEF PrepareClaim, Signal, Crash
<1>12. CASE OthersErase \/ OthersAdopt
    BY <1>12, Zenon DEF OthersErase, EraseSlice, OthersAdopt, AdoptSlice
<1>13. CASE UNCHANGED vars
    BY <1>13, Zenon DEF vars
<1> QED
    BY <1>1, <1>2, <1>3, <1>4, <1>5, <1>6, <1>7, <1>8, <1>9, <1>10, <1>11, <1>12, <1>13
       DEF Next, Main, Others

\* Readiness is reported from the start of the servers to the end of the process.
LEMMA ReadyOKStep ==
    ASSUME ReadyOK, [Next]_vars
    PROVE  ReadyOK'
<1> USE LifecycleAssumption
    DEF ReadyOK, Stopped, Starting, Deaf, Publishing, Published, Stopping,
        publisher, process, servers, node, history, Goto, End, Fatal
<1>1. CASE Start \/ InstallHook \/ CopyHook \/ BuildKubeClient \/ ProbeFeatureGates
    <2>1. CASE Start
        BY <2>1, Zenon DEF Start
    <2>2. CASE InstallHook
        BY <2>2, Zenon DEF InstallHook
    <2>3. CASE CopyHook
        BY <2>3, Zenon DEF CopyHook
    <2>4. CASE BuildKubeClient
        BY <2>4, Zenon DEF BuildKubeClient
    <2>5. CASE ProbeFeatureGates
        BY <2>5, Zenon DEF ProbeFeatureGates
    <2> QED
        BY <1>1, <2>1, <2>2, <2>3, <2>4, <2>5
<1>2. CASE CreateGroups \/ TruncateCDI \/ WriteCDI \/ NodeOwnerReference
    <2>1. CASE CreateGroups
        BY <2>1, Zenon DEF CreateGroups
    <2>2. CASE TruncateCDI
        BY <2>2, Zenon DEF TruncateCDI
    <2>3. CASE WriteCDI
        BY <2>3, Zenon DEF WriteCDI
    <2>4. CASE NodeOwnerReference
        BY <2>4, Zenon DEF NodeOwnerReference
    <2> QED
        BY <1>2, <2>1, <2>2, <2>3, <2>4
<1>3. CASE Create
    BY <1>3, Zenon DEF Create, PublishFails, CreateSlice, CanCreate, Built, AfterPublish
<1>4. CASE Get
    BY <1>4, Zenon DEF Get, PublishFails, GetSlice, CanGet
<1>5. CASE Update
    BY <1>5, Zenon DEF Update, PublishFails, UpdateSlice, CanUpdate, Built, AfterPublish
<1>6. CASE RecoverStructuredAllocs \/ Launch \/ Listen \/ Serve
    <2>1. CASE RecoverStructuredAllocs
        BY <2>1, Zenon DEF RecoverStructuredAllocs
    <2>2. CASE Launch
        BY <2>2, Zenon DEF Launch
    <2>3. CASE Listen \/ Serve
        BY <2>3, Zenon DEF Listen, Serve, ServerError
    <2> QED
        BY <1>6, <2>1, <2>2, <2>3
<1>7. CASE GracefulStop \/ Delete \/ Exit
    BY <1>7, Zenon DEF GracefulStop, Delete, DeleteSlice, Exit
<1>8. CASE CleanupCDISpecs \/ DeleteGroups
    BY <1>8, Zenon DEF CleanupCDISpecs, DeleteGroups
<1>9. CASE HealthServer
    BY <1>9, Zenon DEF HealthServer, HealthServe, HealthShutdown
<1>10. CASE Registrar \/ LivenessProbe
    BY <1>10, Zenon DEF Registrar, RegistrarServe, RegistrarStop, LivenessProbe
<1>11. CASE PrepareClaim \/ Signal \/ Crash
    BY <1>11, Zenon DEF PrepareClaim, Signal, Crash
<1>12. CASE OthersErase \/ OthersAdopt
    BY <1>12, Zenon DEF OthersErase, EraseSlice, OthersAdopt, AdoptSlice
<1>13. CASE UNCHANGED vars
    BY <1>13, Zenon DEF vars
<1> QED
    BY <1>1, <1>2, <1>3, <1>4, <1>5, <1>6, <1>7, <1>8, <1>9, <1>10, <1>11, <1>12, <1>13
       DEF Next, Main, Others

\* The servers start when readiness is reported, and end with the process.
LEMMA ServersOKStep ==
    ASSUME ReadyOK, ServersOK, [Next]_vars
    PROVE  ServersOK'
<1> USE LifecycleAssumption
    DEF ServersOK, ReadyOK, Stopped, Starting, Deaf, Publishing, Published, Stopping,
        publisher, process, servers, node, history, Goto, End, Fatal
<1>1. CASE Start \/ InstallHook \/ CopyHook \/ BuildKubeClient \/ ProbeFeatureGates
    BY <1>1, Zenon DEF Start, InstallHook, CopyHook, BuildKubeClient, ProbeFeatureGates
<1>2. CASE CreateGroups \/ TruncateCDI \/ WriteCDI \/ NodeOwnerReference
    BY <1>2, Zenon DEF CreateGroups, TruncateCDI, WriteCDI, NodeOwnerReference
<1>3. CASE Create
    BY <1>3, Zenon DEF Create, PublishFails, CreateSlice, CanCreate, Built, AfterPublish
<1>4. CASE Get
    BY <1>4, Zenon DEF Get, PublishFails, GetSlice, CanGet
<1>5. CASE Update
    BY <1>5, Zenon DEF Update, PublishFails, UpdateSlice, CanUpdate, Built, AfterPublish
<1>6. CASE RecoverStructuredAllocs \/ Launch \/ Listen \/ Serve
    BY <1>6, Zenon DEF RecoverStructuredAllocs, Launch, Listen, Serve, ServerError
<1>7. CASE GracefulStop \/ Delete \/ Exit
    BY <1>7, Zenon DEF GracefulStop, Delete, DeleteSlice, Exit
<1>8. CASE CleanupCDISpecs \/ DeleteGroups
    BY <1>8, Zenon DEF CleanupCDISpecs, DeleteGroups
<1>9. CASE HealthServer
    BY <1>9, Zenon DEF HealthServer, HealthServe, HealthShutdown
<1>10. CASE Registrar \/ LivenessProbe
    BY <1>10, Zenon DEF Registrar, RegistrarServe, RegistrarStop, LivenessProbe
<1>11. CASE PrepareClaim \/ Signal \/ Crash
    BY <1>11, Zenon DEF PrepareClaim, Signal, Crash
<1>12. CASE OthersErase \/ OthersAdopt
    BY <1>12, Zenon DEF OthersErase, EraseSlice, OthersAdopt, AdoptSlice
<1>13. CASE UNCHANGED vars
    BY <1>13, Zenon DEF vars
<1> QED
    BY <1>1, <1>2, <1>3, <1>4, <1>5, <1>6, <1>7, <1>8, <1>9, <1>10, <1>11, <1>12, <1>13
       DEF Next, Main, Others

\* No more faults happen than there are allowed to be.
LEMMA HistoryOKStep ==
    ASSUME HistoryOK, [Next]_vars
    PROVE  HistoryOK'
<1> USE LifecycleAssumption
    DEF HistoryOK, Stopped, Starting, Deaf, Publishing, Published, Stopping,
        publisher, process, servers, node, history, Goto, End, Fatal, Fault, Fails,
        RequestFails
<1>1. CASE Start \/ InstallHook \/ CopyHook \/ BuildKubeClient \/ ProbeFeatureGates
    BY <1>1 DEF Start, InstallHook, CopyHook, BuildKubeClient, ProbeFeatureGates
<1>2. CASE CreateGroups \/ TruncateCDI \/ WriteCDI \/ NodeOwnerReference
    BY <1>2 DEF CreateGroups, TruncateCDI, WriteCDI, NodeOwnerReference
<1>3. CASE Create
    BY <1>3 DEF Create, PublishFails, CreateSlice, CanCreate, Built, AfterPublish
<1>4. CASE Get
    BY <1>4 DEF Get, PublishFails, GetSlice, CanGet
<1>5. CASE Update
    BY <1>5 DEF Update, PublishFails, UpdateSlice, CanUpdate, Built, AfterPublish
<1>6. CASE RecoverStructuredAllocs \/ Launch \/ Listen \/ Serve
    BY <1>6 DEF RecoverStructuredAllocs, Launch, Listen, Serve, ServerError
<1>7. CASE GracefulStop \/ Delete \/ Exit
    BY <1>7 DEF GracefulStop, Delete, DeleteSlice, Exit
<1>8. CASE CleanupCDISpecs \/ DeleteGroups
    BY <1>8 DEF CleanupCDISpecs, DeleteGroups
<1>9. CASE HealthServer
    BY <1>9 DEF HealthServer, HealthServe, HealthShutdown
<1>10. CASE Registrar \/ LivenessProbe
    BY <1>10 DEF Registrar, RegistrarServe, RegistrarStop, LivenessProbe
<1>11. CASE PrepareClaim \/ Signal \/ Crash
    BY <1>11 DEF PrepareClaim, Signal, Crash
<1>12. CASE OthersErase \/ OthersAdopt
    BY <1>12 DEF OthersErase, EraseSlice, OthersAdopt, AdoptSlice
<1>13. CASE UNCHANGED vars
    BY <1>13 DEF vars
<1> QED
    BY <1>1, <1>2, <1>3, <1>4, <1>5, <1>6, <1>7, <1>8, <1>9, <1>10, <1>11, <1>12, <1>13
       DEF Next, Main, Others

\* The modes are those there are, and the slice is one that the driver builds.
LEMMA ValuesOKStep ==
    ASSUME ValuesOK, [Next]_vars
    PROVE  ValuesOK'
<1> USE LifecycleAssumption
    DEF ValuesOK, Slice, Modes, Stopped, Starting, Deaf, Publishing, Published, Stopping,
        publisher, process, servers, node, history, Goto, End, Fatal, Fault, Fails,
        RequestFails
<1>1. CASE Start \/ InstallHook \/ CopyHook \/ BuildKubeClient \/ ProbeFeatureGates
    BY <1>1 DEF Start, InstallHook, CopyHook, BuildKubeClient, ProbeFeatureGates
<1>2. CASE CreateGroups \/ TruncateCDI \/ WriteCDI \/ NodeOwnerReference
    BY <1>2 DEF CreateGroups, TruncateCDI, WriteCDI, NodeOwnerReference
<1>3. CASE Create
    BY <1>3 DEF Create, PublishFails, CreateSlice, CanCreate, Built, AfterPublish
<1>4. CASE Get
    BY <1>4 DEF Get, PublishFails, GetSlice, CanGet
<1>5. CASE Update
    BY <1>5 DEF Update, PublishFails, UpdateSlice, CanUpdate, Built, AfterPublish
<1>6. CASE RecoverStructuredAllocs \/ Launch \/ Listen \/ Serve
    BY <1>6 DEF RecoverStructuredAllocs, Launch, Listen, Serve, ServerError
<1>7. CASE GracefulStop \/ Delete \/ Exit
    BY <1>7 DEF GracefulStop, Delete, DeleteSlice, Exit
<1>8. CASE CleanupCDISpecs \/ DeleteGroups
    BY <1>8 DEF CleanupCDISpecs, DeleteGroups
<1>9. CASE HealthServer
    BY <1>9 DEF HealthServer, HealthServe, HealthShutdown
<1>10. CASE Registrar \/ LivenessProbe
    BY <1>10 DEF Registrar, RegistrarServe, RegistrarStop, LivenessProbe
<1>11. CASE PrepareClaim \/ Signal \/ Crash
    BY <1>11 DEF PrepareClaim, Signal, Crash
<1>12. CASE OthersErase \/ OthersAdopt
    BY <1>12 DEF OthersErase, EraseSlice, OthersAdopt, AdoptSlice
<1>13. CASE UNCHANGED vars
    BY <1>13 DEF vars
<1> QED
    BY <1>1, <1>2, <1>3, <1>4, <1>5, <1>6, <1>7, <1>8, <1>9, <1>10, <1>11, <1>12, <1>13
       DEF Next, Main, Others

\* The hook binary is whole once it is copied, until the process has ended.
LEMMA HookInvStep ==
    ASSUME HookInv, [Next]_vars
    PROVE  HookInv'
<1> USE LifecycleAssumption
    DEF HookInv, Stopped, Starting, Deaf, Publishing, Published, Stopping,
        publisher, process, servers, node, history, Goto, End, Fatal, Fault, Fails,
        RequestFails
<1>1. CASE Start \/ InstallHook \/ CopyHook \/ BuildKubeClient \/ ProbeFeatureGates
    BY <1>1 DEF Start, InstallHook, CopyHook, BuildKubeClient, ProbeFeatureGates
<1>2. CASE CreateGroups \/ TruncateCDI \/ WriteCDI \/ NodeOwnerReference
    BY <1>2 DEF CreateGroups, TruncateCDI, WriteCDI, NodeOwnerReference
<1>3. CASE Create
    BY <1>3 DEF Create, PublishFails, CreateSlice, CanCreate, Built, AfterPublish
<1>4. CASE Get
    BY <1>4 DEF Get, PublishFails, GetSlice, CanGet
<1>5. CASE Update
    BY <1>5 DEF Update, PublishFails, UpdateSlice, CanUpdate, Built, AfterPublish
<1>6. CASE RecoverStructuredAllocs \/ Launch \/ Listen \/ Serve
    BY <1>6 DEF RecoverStructuredAllocs, Launch, Listen, Serve, ServerError
<1>7. CASE GracefulStop \/ Delete \/ Exit
    BY <1>7 DEF GracefulStop, Delete, DeleteSlice, Exit
<1>8. CASE CleanupCDISpecs \/ DeleteGroups
    BY <1>8 DEF CleanupCDISpecs, DeleteGroups
<1>9. CASE HealthServer
    BY <1>9 DEF HealthServer, HealthServe, HealthShutdown
<1>10. CASE Registrar \/ LivenessProbe
    BY <1>10 DEF Registrar, RegistrarServe, RegistrarStop, LivenessProbe
<1>11. CASE PrepareClaim \/ Signal \/ Crash
    BY <1>11 DEF PrepareClaim, Signal, Crash
<1>12. CASE OthersErase \/ OthersAdopt
    BY <1>12 DEF OthersErase, EraseSlice, OthersAdopt, AdoptSlice
<1>13. CASE UNCHANGED vars
    BY <1>13 DEF vars
<1> QED
    BY <1>1, <1>2, <1>3, <1>4, <1>5, <1>6, <1>7, <1>8, <1>9, <1>10, <1>11, <1>12, <1>13
       DEF Next, Main, Others

\* What main has set up stays until it stops serving: nobody else takes it down.
LEMMA NodeInvStep ==
    ASSUME ValuesOK, NodeInv, [Next]_vars
    PROVE  NodeInv'
<1> USE LifecycleAssumption
    DEF NodeInv, ValuesOK, Modes, Stopped, Starting, Deaf, Publishing, Published, Stopping,
        publisher, process, servers, node, history, Goto, End, Fatal, Fault, Fails,
        RequestFails
<1>1. CASE Start \/ InstallHook \/ CopyHook \/ BuildKubeClient \/ ProbeFeatureGates
    BY <1>1 DEF Start, InstallHook, CopyHook, BuildKubeClient, ProbeFeatureGates
<1>2. CASE CreateGroups \/ TruncateCDI \/ WriteCDI \/ NodeOwnerReference
    BY <1>2 DEF CreateGroups, TruncateCDI, WriteCDI, NodeOwnerReference
<1>3. CASE Create
    BY <1>3 DEF Create, PublishFails, CreateSlice, CanCreate, Built, AfterPublish
<1>4. CASE Get
    BY <1>4 DEF Get, PublishFails, GetSlice, CanGet
<1>5. CASE Update
    BY <1>5 DEF Update, PublishFails, UpdateSlice, CanUpdate, Built, AfterPublish
<1>6. CASE RecoverStructuredAllocs \/ Launch \/ Listen \/ Serve
    BY <1>6 DEF RecoverStructuredAllocs, Launch, Listen, Serve, ServerError
<1>7. CASE GracefulStop \/ Delete \/ Exit
    BY <1>7 DEF GracefulStop, Delete, DeleteSlice, Exit
<1>8. CASE CleanupCDISpecs \/ DeleteGroups
    BY <1>8 DEF CleanupCDISpecs, DeleteGroups
<1>9. CASE HealthServer
    BY <1>9 DEF HealthServer, HealthServe, HealthShutdown
<1>10. CASE Registrar \/ LivenessProbe
    BY <1>10 DEF Registrar, RegistrarServe, RegistrarStop, LivenessProbe
<1>11. CASE PrepareClaim \/ Signal \/ Crash
    BY <1>11 DEF PrepareClaim, Signal, Crash
<1>12. CASE OthersErase \/ OthersAdopt
    BY <1>12 DEF OthersErase, EraseSlice, OthersAdopt, AdoptSlice
<1>13. CASE UNCHANGED vars
    BY <1>13 DEF vars
<1> QED
    BY <1>1, <1>2, <1>3, <1>4, <1>5, <1>6, <1>7, <1>8, <1>9, <1>10, <1>11, <1>12, <1>13
       DEF Next, Main, Others

\* The mode is the cluster's, unless the probe failed.
LEMMA ModeInvStep ==
    ASSUME ValuesOK, ModeInv, [Next]_vars
    PROVE  ModeInv'
<1> USE LifecycleAssumption
    DEF ModeInv, ValuesOK, Modes, Stopped, Starting, Deaf, Publishing, Published, Stopping,
        publisher, process, servers, node, history, Goto, End, Fatal, Fault, Fails,
        RequestFails
<1>1. CASE Start \/ InstallHook \/ CopyHook \/ BuildKubeClient \/ ProbeFeatureGates
    BY <1>1 DEF Start, InstallHook, CopyHook, BuildKubeClient, ProbeFeatureGates
<1>2. CASE CreateGroups \/ TruncateCDI \/ WriteCDI \/ NodeOwnerReference
    BY <1>2 DEF CreateGroups, TruncateCDI, WriteCDI, NodeOwnerReference
<1>3. CASE Create
    BY <1>3 DEF Create, PublishFails, CreateSlice, CanCreate, Built, AfterPublish
<1>4. CASE Get
    BY <1>4 DEF Get, PublishFails, GetSlice, CanGet
<1>5. CASE Update
    BY <1>5 DEF Update, PublishFails, UpdateSlice, CanUpdate, Built, AfterPublish
<1>6. CASE RecoverStructuredAllocs \/ Launch \/ Listen \/ Serve
    BY <1>6 DEF RecoverStructuredAllocs, Launch, Listen, Serve, ServerError
<1>7. CASE GracefulStop \/ Delete \/ Exit
    BY <1>7 DEF GracefulStop, Delete, DeleteSlice, Exit
<1>8. CASE CleanupCDISpecs \/ DeleteGroups
    BY <1>8 DEF CleanupCDISpecs, DeleteGroups
<1>9. CASE HealthServer
    BY <1>9 DEF HealthServer, HealthServe, HealthShutdown
<1>10. CASE Registrar \/ LivenessProbe
    BY <1>10 DEF Registrar, RegistrarServe, RegistrarStop, LivenessProbe
<1>11. CASE PrepareClaim \/ Signal \/ Crash
    BY <1>11 DEF PrepareClaim, Signal, Crash
<1>12. CASE OthersErase \/ OthersAdopt
    BY <1>12 DEF OthersErase, EraseSlice, OthersAdopt, AdoptSlice
<1>13. CASE UNCHANGED vars
    BY <1>13 DEF vars
<1> QED
    BY <1>1, <1>2, <1>3, <1>4, <1>5, <1>6, <1>7, <1>8, <1>9, <1>10, <1>11, <1>12, <1>13
       DEF Next, Main, Others

\* The slice published stays the driver's own, unless it is deleted.
LEMMA SliceInvStep ==
    ASSUME ValuesOK, SliceInv, [Next]_vars
    PROVE  SliceInv'
<1> USE LifecycleAssumption
    DEF SliceInv, ValuesOK, Slice, Modes, Stopped, Starting, Deaf, Publishing, Published, Stopping,
        publisher, process, servers, node, history, Goto, End, Fatal, Fault, Fails,
        RequestFails
<1>1. CASE Start \/ InstallHook \/ CopyHook \/ BuildKubeClient \/ ProbeFeatureGates
    BY <1>1 DEF Start, InstallHook, CopyHook, BuildKubeClient, ProbeFeatureGates
<1>2. CASE CreateGroups \/ TruncateCDI \/ WriteCDI \/ NodeOwnerReference
    BY <1>2 DEF CreateGroups, TruncateCDI, WriteCDI, NodeOwnerReference
<1>3. CASE Create
    BY <1>3 DEF Create, PublishFails, CreateSlice, CanCreate, Built, AfterPublish
<1>4. CASE Get
    BY <1>4 DEF Get, PublishFails, GetSlice, CanGet
<1>5. CASE Update
    BY <1>5 DEF Update, PublishFails, UpdateSlice, CanUpdate, Built, AfterPublish
<1>6. CASE RecoverStructuredAllocs \/ Launch \/ Listen \/ Serve
    BY <1>6 DEF RecoverStructuredAllocs, Launch, Listen, Serve, ServerError
<1>7. CASE GracefulStop \/ Delete \/ Exit
    BY <1>7 DEF GracefulStop, Delete, DeleteSlice, Exit
<1>8. CASE CleanupCDISpecs \/ DeleteGroups
    BY <1>8 DEF CleanupCDISpecs, DeleteGroups
<1>9. CASE HealthServer
    BY <1>9 DEF HealthServer, HealthServe, HealthShutdown
<1>10. CASE Registrar \/ LivenessProbe
    BY <1>10 DEF Registrar, RegistrarServe, RegistrarStop, LivenessProbe
<1>11. CASE PrepareClaim \/ Signal \/ Crash
    BY <1>11 DEF PrepareClaim, Signal, Crash
<1>12. CASE OthersErase \/ OthersAdopt
    BY <1>12 DEF OthersErase, EraseSlice, OthersAdopt, AdoptSlice
<1>13. CASE UNCHANGED vars
    BY <1>13 DEF vars
<1> QED
    BY <1>1, <1>2, <1>3, <1>4, <1>5, <1>6, <1>7, <1>8, <1>9, <1>10, <1>11, <1>12, <1>13
       DEF Next, Main, Others

\* What is cleaned up is not made again before the process has ended.
LEMMA ExitInvStep ==
    ASSUME ValuesOK, ExitInv, [Next]_vars
    PROVE  ExitInv'
<1> USE LifecycleAssumption
    DEF ExitInv, ValuesOK, Modes, Stopped, Starting, Deaf, Publishing, Published, Stopping,
        publisher, process, servers, node, history, Goto, End, Fatal, Fault, Fails,
        RequestFails
<1>1. CASE Start \/ InstallHook \/ CopyHook \/ BuildKubeClient \/ ProbeFeatureGates
    BY <1>1 DEF Start, InstallHook, CopyHook, BuildKubeClient, ProbeFeatureGates
<1>2. CASE CreateGroups \/ TruncateCDI \/ WriteCDI \/ NodeOwnerReference
    BY <1>2 DEF CreateGroups, TruncateCDI, WriteCDI, NodeOwnerReference
<1>3. CASE Create
    BY <1>3 DEF Create, PublishFails, CreateSlice, CanCreate, Built, AfterPublish
<1>4. CASE Get
    BY <1>4 DEF Get, PublishFails, GetSlice, CanGet
<1>5. CASE Update
    BY <1>5 DEF Update, PublishFails, UpdateSlice, CanUpdate, Built, AfterPublish
<1>6. CASE RecoverStructuredAllocs \/ Launch \/ Listen \/ Serve
    BY <1>6 DEF RecoverStructuredAllocs, Launch, Listen, Serve, ServerError
<1>7. CASE GracefulStop \/ Delete \/ Exit
    BY <1>7 DEF GracefulStop, Delete, DeleteSlice, Exit
<1>8. CASE CleanupCDISpecs \/ DeleteGroups
    BY <1>8 DEF CleanupCDISpecs, DeleteGroups
<1>9. CASE HealthServer
    BY <1>9 DEF HealthServer, HealthServe, HealthShutdown
<1>10. CASE Registrar \/ LivenessProbe
    BY <1>10 DEF Registrar, RegistrarServe, RegistrarStop, LivenessProbe
<1>11. CASE PrepareClaim \/ Signal \/ Crash
    BY <1>11 DEF PrepareClaim, Signal, Crash
<1>12. CASE OthersErase \/ OthersAdopt
    BY <1>12 DEF OthersErase, EraseSlice, OthersAdopt, AdoptSlice
<1>13. CASE UNCHANGED vars
    BY <1>13 DEF vars
<1> QED
    BY <1>1, <1>2, <1>3, <1>4, <1>5, <1>6, <1>7, <1>8, <1>9, <1>10, <1>11, <1>12, <1>13
       DEF Next, Main, Others

\* Whoever changes the slice after the Get changes its resourceVersion.
LEMMA OwnerInvStep ==
    ASSUME ValuesOK, OwnerInv, [Next]_vars
    PROVE  OwnerInv'
<1> USE LifecycleAssumption
    DEF OwnerInv, ValuesOK, Slice, Stopped, Starting, Deaf, Publishing, Published, Stopping,
        publisher, process, servers, node, history, Goto, End, Fatal, Fault, Fails,
        RequestFails
<1>1. CASE Start \/ InstallHook \/ CopyHook \/ BuildKubeClient \/ ProbeFeatureGates
    BY <1>1 DEF Start, InstallHook, CopyHook, BuildKubeClient, ProbeFeatureGates
<1>2. CASE CreateGroups \/ TruncateCDI \/ WriteCDI \/ NodeOwnerReference
    BY <1>2 DEF CreateGroups, TruncateCDI, WriteCDI, NodeOwnerReference
<1>3. CASE Create
    BY <1>3 DEF Create, PublishFails, CreateSlice, CanCreate, Built, AfterPublish
<1>4. CASE Get
    BY <1>4 DEF Get, PublishFails, GetSlice, CanGet
<1>5. CASE Update
    BY <1>5 DEF Update, PublishFails, UpdateSlice, CanUpdate, Built, AfterPublish
<1>6. CASE RecoverStructuredAllocs \/ Launch \/ Listen \/ Serve
    BY <1>6 DEF RecoverStructuredAllocs, Launch, Listen, Serve, ServerError
<1>7. CASE GracefulStop \/ Delete \/ Exit
    BY <1>7 DEF GracefulStop, Delete, DeleteSlice, Exit
<1>8. CASE CleanupCDISpecs \/ DeleteGroups
    BY <1>8 DEF CleanupCDISpecs, DeleteGroups
<1>9. CASE HealthServer
    BY <1>9 DEF HealthServer, HealthServe, HealthShutdown
<1>10. CASE Registrar \/ LivenessProbe
    BY <1>10 DEF Registrar, RegistrarServe, RegistrarStop, LivenessProbe
<1>11. CASE PrepareClaim \/ Signal \/ Crash
    BY <1>11 DEF PrepareClaim, Signal, Crash
<1>12. CASE OthersErase \/ OthersAdopt
    BY <1>12 DEF OthersErase, EraseSlice, OthersAdopt, AdoptSlice
<1>13. CASE UNCHANGED vars
    BY <1>13 DEF vars
<1> QED
    BY <1>1, <1>2, <1>3, <1>4, <1>5, <1>6, <1>7, <1>8, <1>9, <1>10, <1>11, <1>12, <1>13
       DEF Next, Main, Others

\* All of them together: LifecycleInv is inductive.
LEMMA LifecycleInvStep ==
    ASSUME LifecycleInv, [Next]_vars
    PROVE  LifecycleInv'
BY PlacesOKStep, FlagsOKStep, ReadyOKStep, ServersOKStep, HistoryOKStep,
   ValuesOKStep, HookInvStep, NodeInvStep, ModeInvStep, SliceInvStep, ExitInvStep, OwnerInvStep
   DEF LifecycleInv

\* What every state of every run satisfies.
LEMMA LifecycleInvariant == Spec => []LifecycleInv
<1>1. Init => LifecycleInv
    BY InitInv
<1>2. LifecycleInv /\ [Next]_vars => LifecycleInv'
    BY LifecycleInvStep
<1> QED
    BY <1>1, <1>2, PTL DEF Spec

\* Type correctness, and what the readiness of the health server (main.go:300-348)
\* tells of the process.
THEOREM TypeCorrect == Spec => []TypeOK
<1>1. LifecycleInv => TypeOK
    BY DEF LifecycleInv, PlacesOK, FlagsOK, ReadyOK, ServersOK, HistoryOK, ValuesOK, TypeOK,
           SlicePublisherType
<1> QED
    BY <1>1, LifecycleInvariant, PTL

\* The gRPC server answers only while all its handlers use is in place
\* (main.go:191-407), for any number of faults, of whatever calls.
THEOREM ServedIsUsableHolds == Spec => []ServedIsUsable
<1>1. LifecycleInv => ServedIsUsable
    BY DEF LifecycleInv, ValuesOK, Modes, HookInv, NodeInv, ServedIsUsable, Published
<1> QED
    BY <1>1, LifecycleInvariant, PTL

\* What PublishSlices leaves in the API server (discovery.go:61-120) is what the
\* driver then serves, and the mode is the cluster's.
THEOREM SliceTrueHolds == Spec => []SliceTrue
<1>1. LifecycleInv => SliceTrue
    BY DEF LifecycleInv, ModeInv, SliceInv, SliceTrue, Deaf, Starting, Publishing, Published
<1> QED
    BY <1>1, LifecycleInvariant, PTL

\* A normal exit of main removes what it has made (main.go:407-436).
THEOREM CleanExitHolds == Spec => []CleanExit
<1>1. LifecycleInv => CleanExit
    BY DEF LifecycleInv, ExitInv, CleanExit
<1> QED
    BY <1>1, LifecycleInvariant, PTL

\* The Get and the Update of PublishSlices (discovery.go:105-119) keep an owner
\* reference that is set at any time, even between the two.
THEOREM OwnerKeptHolds == Spec => OwnerKept
<1>1. ASSUME LifecycleInv, [Next]_vars
      PROVE  [slice # NoSlice /\ slice' # NoSlice /\ slice.owned => slice'.owned]_slice
    <2> USE LifecycleAssumption
        DEF LifecycleInv, ValuesOK, OwnerInv, Slice,
            publisher, process, servers, node, history, Goto, End, Fatal, Fault, Fails,
            RequestFails
    <2>1. CASE Start \/ InstallHook \/ CopyHook \/ BuildKubeClient \/ ProbeFeatureGates
        BY <1>1, <2>1 DEF Start, InstallHook, CopyHook, BuildKubeClient, ProbeFeatureGates
    <2>2. CASE CreateGroups \/ TruncateCDI \/ WriteCDI \/ NodeOwnerReference
        BY <1>1, <2>2 DEF CreateGroups, TruncateCDI, WriteCDI, NodeOwnerReference
    <2>3. CASE Create
        BY <1>1, <2>3 DEF Create, PublishFails, CreateSlice, CanCreate, Built, AfterPublish
    <2>4. CASE Get
        BY <1>1, <2>4 DEF Get, PublishFails, GetSlice, CanGet
    <2>5. CASE Update
        BY <1>1, <2>5 DEF Update, PublishFails, UpdateSlice, CanUpdate, Built, AfterPublish
    <2>6. CASE RecoverStructuredAllocs \/ Launch \/ Listen \/ Serve
        BY <1>1, <2>6 DEF RecoverStructuredAllocs, Launch, Listen, Serve, ServerError
    <2>7. CASE GracefulStop \/ Delete \/ Exit
        BY <1>1, <2>7 DEF GracefulStop, Delete, DeleteSlice, Exit
    <2>8. CASE CleanupCDISpecs \/ DeleteGroups
        BY <1>1, <2>8 DEF CleanupCDISpecs, DeleteGroups
    <2>9. CASE HealthServer
        BY <1>1, <2>9 DEF HealthServer, HealthServe, HealthShutdown
    <2>10. CASE Registrar \/ LivenessProbe
        BY <1>1, <2>10 DEF Registrar, RegistrarServe, RegistrarStop, LivenessProbe
    <2>11. CASE PrepareClaim \/ Signal \/ Crash
        BY <1>1, <2>11 DEF PrepareClaim, Signal, Crash
    <2>12. CASE OthersErase \/ OthersAdopt
        BY <1>1, <2>12 DEF OthersErase, EraseSlice, OthersAdopt, AdoptSlice
    <2>13. CASE UNCHANGED vars
        BY <1>1, <2>13 DEF vars
    <2> QED
        BY <1>1, <2>1, <2>2, <2>3, <2>4, <2>5, <2>6, <2>7, <2>8, <2>9, <2>10, <2>11, <2>12, <2>13
           DEF Next, Main, Others
<1> QED
    BY <1>1, LifecycleInvariant, PTL DEF Spec, OwnerKept
=============================================================================
