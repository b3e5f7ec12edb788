-------------------------- MODULE WaySearchProofs ---------------------------
(***************************************************************************)
(* The first-fit search is right for every number of ways, every mask and  *)
(* every request.                                                          *)
(***************************************************************************)
EXTENDS WaySearch, TLAPS

Inv == TypeOK /\ LoopInvariant /\ AnswersFirstFit

\* The loop starts with nothing tried and nothing reserved.
LEMMA InitInv == Init => Inv
BY NumWaysAssumption, MaxRequestAssumption
   DEF Init, Inv, TypeOK, LoopInvariant, AnswersFirstFit, InRange, HasRoom, CBM, Ways

\* An iteration, an answer or a refusal keeps the loop invariant and the answer.
LEMMA NextInv ==
    ASSUME Inv, [Next]_vars
    PROVE  Inv'
<1> USE NumWaysAssumption, MaxRequestAssumption DEF Inv
<1>1. CASE Take
  <2>1. /\ InRange(ways) /\ used = before /\ start \in 0 .. NumWays
        /\ \A lower \in 0 .. start - 1 : ~ Fits(before, ways, lower)
    BY <1>1 DEF Take, TypeOK, LoopInvariant
  <2>2. Candidate \in CBM
    BY <1>1, <2>1 DEF Take, Candidate, buildWayMask, CBM, Ways, InRange, TypeOK
  <2>3. TypeOK'
    BY <1>1, <2>2 DEF Take, TypeOK, CBM
  <2>4. IsFirstFit(before, ways, start)
    BY <1>1, <2>1 DEF Take, Candidate, IsFirstFit, Fits
  <2>5. AnswersFirstFit'
    BY <1>1, <2>1, <2>4 DEF Take, Candidate, AnswersFirstFit
  <2> QED
    BY <1>1, <2>3, <2>5 DEF Take, LoopInvariant
<1>2. CASE Advance
  <2>1. InRange(ways) /\ used = before /\ start \in Nat /\ start' = start + 1
    BY <1>2 DEF Advance, TypeOK, LoopInvariant
  <2>2. ~ Fits(before, ways, start)
    BY <1>2, <2>1 DEF Advance, Candidate, Fits
  <2>3. \A lower \in 0 .. start : ~ Fits(before, ways, lower)
    <3>1. \A lower \in 0 .. start - 1 : ~ Fits(before, ways, lower)
      BY <1>2 DEF Advance, LoopInvariant
    <3> QED
      BY <2>1, <2>2, <3>1
  <2>4. TypeOK'
    BY <1>2, <2>1 DEF Advance, TypeOK, InRange
  <2>5. LoopInvariant'
    BY <1>2, <2>1, <2>3 DEF Advance, LoopInvariant, InRange, Fits, buildWayMask
  <2> QED
    BY <1>2, <2>4, <2>5 DEF Advance, AnswersFirstFit
<1>3. CASE GiveUp
  <2>1. /\ used = before /\ start \in Nat /\ ways \in Int
        /\ \A lower \in 0 .. start - 1 : ~ Fits(before, ways, lower)
    BY <1>3 DEF GiveUp, LoopInvariant, TypeOK
  <2>2. ~ HasRoom(before, ways)
    <3> SUFFICES ASSUME NEW s \in Ways, Fits(before, ways, s) PROVE FALSE
      BY DEF HasRoom
    <3>1. s \in 0 .. start - 1
      BY <1>3, <2>1 DEF GiveUp, Fits, Ways
    <3> QED
      BY <2>1, <3>1
  <2>3. AnswersFirstFit'
    BY <1>3, <2>1, <2>2 DEF GiveUp, AnswersFirstFit
  <2> QED
    BY <1>3, <2>3 DEF GiveUp, TypeOK, LoopInvariant
<1>4. CASE UNCHANGED vars
  BY <1>4 DEF vars, TypeOK, LoopInvariant, AnswersFirstFit, IsFirstFit
<1> QED
  BY <1>1, <1>2, <1>3, <1>4 DEF Next

\* The invariant of the loop holds whatever is in use and whatever is asked for.
LEMMA SearchInv == Spec => []Inv
BY InitInv, NextInv, PTL DEF Spec

\* No mask that Allocate returns or stores reaches beyond the domain's ways
\* (wayallocator.go:46-56), whatever is asked for.
THEOREM SearchTypeCorrect == Spec => []TypeOK
<1>1. Inv => TypeOK
  BY DEF Inv
<1> QED
  BY SearchInv, <1>1, PTL

\* The loop invariant of wayallocator.go:52-58: what was passed over is taken.
THEOREM SearchLoopInvariant == Spec => []LoopInvariant
<1>1. Inv => LoopInvariant
  BY DEF Inv
<1> QED
  BY SearchInv, <1>1, PTL

\* The loop of WayAllocator.Allocate answers the lowest free run of the length
\* asked for, reserves exactly that, and refuses only when there is none.
THEOREM SearchIsFirstFit == Spec => []AnswersFirstFit
<1>1. Inv => AnswersFirstFit
  BY DEF Inv
<1> QED
  BY SearchInv, <1>1, PTL
=============================================================================
