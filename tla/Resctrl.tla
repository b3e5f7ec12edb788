------------------------------ MODULE Resctrl -------------------------------
(***************************************************************************)
(* The resctrl filesystem as pkg/resctrl/resctrl.go uses it: control       *)
(* groups, each with the mask written to its schemata file, and the group  *)
(* each container's task is in.  The functions of the package are cut into *)
(* their system calls, because other calls run between them.               *)
(*                                                                         *)
(* The kernel itself is not part of the repository.  What is assumed of it *)
(* is what the code relies on: mkdir of a new group takes a CLOSID and     *)
(* fails when none is left (one belongs to the root group); a mask of      *)
(* fewer than min_cbm_bits bits is refused; a group with tasks in it       *)
(* cannot be removed (comment at resctrl.go:96-97); tasks of a removed     *)
(* group are in the root group.                                            *)
(***************************************************************************)
EXTENDS Ways

CONSTANTS
    Groups,         \* the names a control group can have
    Tasks,          \* the containers whose PIDs are placed in groups
    NumCLOSIDs,     \* info/L3/num_closids
    MinCBMBits,     \* info/L3/min_cbm_bits
    NoGroup,        \* no directory of that name
    RootGroup,      \* the default group
    NoTask,         \* the container is not running
    MayFail         \* the fallible calls that may fail at any time

ASSUME ResctrlAssumption ==
    /\ NumCLOSIDs \in Nat \ {0}
    /\ MinCBMBits \in Nat
    /\ \A cbm \in CBM : cbm # NoGroup
    /\ RootGroup \notin Groups
    /\ NoTask \notin Groups \cup {RootGroup}

VARIABLES
    groups,         \* group -> NoGroup, {} (created, schemata not written) or its CBM
    task            \* container -> the group its task is in, or NoTask

ResctrlType ==
    /\ groups \in [Groups -> {NoGroup} \cup CBM]
    /\ task \in [Tasks -> Groups \cup {RootGroup, NoTask}]

Exists(g) == groups[g] # NoGroup

Written(g) == Exists(g) /\ groups[g] # {}

ClosidFree == Cardinality({g \in Groups : Exists(g)}) < NumCLOSIDs - 1

TasksIn(g) == {t \in Tasks : task[t] = g}

Drained(g) == [t \in Tasks |-> IF task[t] = g THEN RootGroup ELSE task[t]]

\* CreateGroup, its MkdirAll: a directory that is there already is kept.
CanMkdir(g) == Exists(g) \/ ClosidFree

Mkdir(g) ==
    groups' = IF Exists(g) THEN groups ELSE [groups EXCEPT ![g] = {}]

\* CreateGroup, its WriteFile to schemata.
CanWriteSchemata(g, cbm) == Exists(g) /\ Cardinality(cbm) >= MinCBMBits

WriteSchemata(g, cbm) == groups' = [groups EXCEPT ![g] = cbm]

\* CreateGroup, the os.Remove after a failed write: no task is drained, so the
\* kernel refuses when there are any, and the error is dropped.
RemoveIfEmpty(g) ==
    groups' = IF TasksIn(g) = {} THEN [groups EXCEPT ![g] = NoGroup] ELSE groups

\* DeleteGroup: drain the tasks to the root group, remove the directory.
\* Removing a missing directory is an error that changes nothing.  The drain's
\* error is dropped, so a removal that fails leaves the tasks on either side.
DeleteGroup(g) ==
    \/ /\ groups' = [groups EXCEPT ![g] = NoGroup]
       /\ task' = Drained(g)
    \/ /\ "delete" \in MayFail
       /\ task' \in {task, Drained(g)}
       /\ UNCHANGED groups

\* AssignPID, from the createRuntime hook.
AssignPID(g, t) ==
    /\ Exists(g)
    /\ task' = [task EXCEPT ![t] = g]
=============================================================================
