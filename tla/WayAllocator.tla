---------------------------- MODULE WayAllocator ----------------------------
(***************************************************************************)
(* pkg/driver/wayallocator.go: the in-memory map of the ways in use, one   *)
(* mask per cache domain.  Each operator below is one critical section of  *)
(* WayAllocator.mu; the loop that Allocate runs inside its critical section *)
(* is module WaySearch.                                                    *)
(***************************************************************************)
EXTENDS Ways

CONSTANT Domains    \* the L3 cache IDs of the node: Info.CacheIDs

VARIABLE allocated  \* cacheID -> ways currently in use

NewWayAllocator == [d \in Domains |-> {}]

WayAllocatorType == allocated \in [Domains -> CBM]

\* Allocate answers a mask exactly when the domain is known, the count is
\* within it, and that many consecutive ways are free.
CanAllocate(cacheID, ways) ==
    /\ cacheID \in Domains
    /\ ways \in 1 .. NumWays
    /\ HasRoom(allocated[cacheID], ways)

\* Variant: the mask is answered and not recorded.
AllocateUnrecorded(cacheID, ways, cbm) ==
    /\ CanAllocate(cacheID, ways)
    /\ \E start \in Ways :
          /\ IsFirstFit(allocated[cacheID], ways, start)
          /\ cbm = buildWayMask(start, ways)
    /\ UNCHANGED allocated

\* The answer, with the state change that comes with it.
Allocate(cacheID, ways, cbm) ==
    /\ CanAllocate(cacheID, ways)
    /\ \E start \in Ways :
          /\ IsFirstFit(allocated[cacheID], ways, start)
          /\ cbm = buildWayMask(start, ways)
    /\ allocated' = [allocated EXCEPT ![cacheID] = @ \cup cbm]

Release(cacheID, cbm) ==
    allocated' = [allocated EXCEPT ![cacheID] = @ \ cbm]

\* Variant: only the domains some group was found for are in the new map.
RebuildSeenDomains(read) ==
    allocated' = [d \in {x \in Domains : read # {}} |-> UNION {schemata[d] : schemata \in read}]

\* Variant: the groups of the previous run are not looked at.
RebuildNothing(read) == allocated' = NewWayAllocator

\* RebuildFromResctrl on a fresh allocator: `read' is the set of schemata
\* (cacheID -> mask) of the group directories whose prefix matches and whose
\* schemata file could be read.
RebuildFromResctrl(read) ==
    allocated' = [d \in Domains |-> UNION {schemata[d] : schemata \in read}]
=============================================================================
