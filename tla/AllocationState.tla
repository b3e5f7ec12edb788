-------------------------- MODULE AllocationState ---------------------------
(***************************************************************************)
(* pkg/driver/state.go: the in-memory record of which claim has which      *)
(* partition, in basic mode.  Each operator below is one critical section  *)
(* of AllocationState.mu.  A partition is keyed by its device name.        *)
(***************************************************************************)
EXTENDS Integers, FiniteSets

CONSTANTS
    Devices,        \* device names a claim can be allocated
    Claims,         \* UIDs of ResourceClaims
    Free,           \* the partition is available
    Unknown         \* the map has no partition of that name

ASSUME AllocationStateAssumption ==
    /\ Free \notin Claims
    /\ Unknown \notin Claims \cup {Free}

VARIABLE partitions \* device name -> the claim it is allocated to, Free or Unknown

AllocationStateType == partitions \in [Devices -> Claims \cup {Free, Unknown}]

NewAllocationState(ids) == [d \in Devices |-> IF d \in ids THEN Free ELSE Unknown]

\* Variant: a partition that the claim has already is refused too.
CanAllocateOnce(id, claim) == partitions[id] = Free

\* Variant: who has the partition is not looked at.
CanAllocateKnown(id, claim) == partitions[id] # Unknown

\* Allocate answers no error: the partition is available, or the claim's already.
CanAllocate(id, claim) == partitions[id] \in {Free, claim}

Allocate(id, claim) == partitions' = [partitions EXCEPT ![id] = claim]

HeldBy(claim) == {d \in Devices : partitions[d] = claim}

\* Variant: the loop stops at the first partition it finds.
ReleaseOne(claim) ==
    IF HeldBy(claim) = {} THEN UNCHANGED partitions
    ELSE partitions' = [partitions EXCEPT ![CHOOSE d \in HeldBy(claim) : TRUE] = Free]

\* Variant: the entries are deleted.
ReleaseEntries(claim) ==
    partitions' = [d \in Devices |-> IF partitions[d] = claim THEN Unknown ELSE partitions[d]]

ReleaseByClaimUID(claim) ==
    partitions' = [d \in Devices |-> IF partitions[d] = claim THEN Free ELSE partitions[d]]

AllocatedCount == Cardinality({d \in Devices : partitions[d] \in Claims})
=============================================================================
