----------------------------- MODULE WaySearch ------------------------------
(***************************************************************************)
(* The critical section of WayAllocator.Allocate for one cache domain      *)
(* (pkg/driver/wayallocator.go:46-59): one loop iteration per step, from   *)
(* any mask of used ways and any request, the out-of-range ones included.  *)
(***************************************************************************)
EXTENDS Ways

CONSTANT MaxRequest     \* bound: requests of -1 .. MaxRequest ways are tried

ASSUME MaxRequestAssumption == MaxRequest \in Nat

VARIABLES
    pc,         \* "search" while the loop runs, then "found" or "error"
    before,     \* the domain's mask when Allocate is called
    used,       \* a.allocated[cacheID]
    ways,       \* the number of ways requested
    start,      \* the loop variable
    result      \* the CBM returned

vars == <<pc, before, used, ways, start, result>>

InRange(count) == count > 0 /\ count <= NumWays

Init ==
    /\ before \in CBM
    /\ used = before
    /\ ways \in -1 .. MaxRequest
    /\ start = 0
    /\ result = {}
    /\ pc = IF InRange(ways) THEN "search" ELSE "error"

Candidate == buildWayMask(start, ways)

\* Variant: the bound of the loop is left out.
TakeUnbounded ==
    /\ pc = "search"
    /\ used \cap Candidate = {}
    /\ used' = used \cup Candidate
    /\ result' = Candidate
    /\ pc' = "found"
    /\ UNCHANGED <<before, ways, start>>

Take ==
    /\ pc = "search"
    /\ start + ways <= NumWays
    /\ used \cap Candidate = {}
    /\ used' = used \cup Candidate
    /\ result' = Candidate
    /\ pc' = "found"
    /\ UNCHANGED <<before, ways, start>>

\* Variant: a taken candidate is jumped over as a whole.
AdvanceByWays ==
    /\ pc = "search"
    /\ start + ways <= NumWays
    /\ used \cap Candidate # {}
    /\ start' = start + ways
    /\ UNCHANGED <<pc, before, used, ways, result>>

\* Variant: the loop variable is not incremented.
AdvanceNot ==
    /\ pc = "search"
    /\ start + ways <= NumWays
    /\ used \cap Candidate # {}
    /\ UNCHANGED vars

Advance ==
    /\ pc = "search"
    /\ start + ways <= NumWays
    /\ used \cap Candidate # {}
    /\ start' = start + 1
    /\ UNCHANGED <<pc, before, used, ways, result>>

GiveUp ==
    /\ pc = "search"
    /\ start + ways > NumWays
    /\ pc' = "error"
    /\ UNCHANGED <<before, used, ways, start, result>>

Next == Take \/ Advance \/ GiveUp

Spec == Init /\ [][Next]_vars /\ WF_vars(Next)

-----------------------------------------------------------------------------

TypeOK ==
    /\ pc \in {"search", "found", "error"}
    /\ before \in CBM
    /\ used \in CBM
    /\ ways \in -1 .. MaxRequest
    /\ start \in 0 .. NumWays
    /\ result \in CBM

\* While the loop runs nothing is reserved and every position below the loop
\* variable has been found taken: the loop invariant of lines 52-58.
LoopInvariant ==
    pc = "search" =>
        /\ InRange(ways)
        /\ used = before
        /\ \A lower \in 0 .. start - 1 : ~ Fits(before, ways, lower)

\* Allocate answers the lowest free run of exactly `ways' ways and reserves it
\* and nothing else; it refuses only when no run of that length is free, and
\* then it reserves nothing.
AnswersFirstFit ==
    /\ pc = "found" =>
          /\ IsFirstFit(before, ways, start)
          /\ result = buildWayMask(start, ways)
          /\ before \cap result = {}
          /\ used = before \cup result
    /\ pc = "error" =>
          /\ ~ (InRange(ways) /\ HasRoom(before, ways))
          /\ used = before

\* The search ends for every mask and every request.
Terminates == <>(pc # "search")
=============================================================================
