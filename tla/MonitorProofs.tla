--------------------------- MODULE MonitorProofs ----------------------------
(***************************************************************************)
(* The bandwidth gauges of the monitor, for any number of groups, any      *)
(* width of the counters, and any duration of scrapes: whatever the        *)
(* handlers make and remove between two readings, a gauge is set to what   *)
(* the group has moved or, if it was made again, to no more than that.     *)
(***************************************************************************)
EXTENDS Monitor, TLAPS

\* A counter whose file cannot be read counts as zero, and the next rate is
\* then a jump: the gauges are right while the files can be read.
FilesReadable == MayFail = {}

\* While a scrape goes on, its beginning is at most MaxScrape ago.
ClockInv ==
    /\ scraping => now <= clock /\ clock <= now + MaxScrape
    /\ todo # {} => scraping

\* A group moves at most MaxFlow in each unit of time since it was read.
FlowInv ==
    \A g \in Groups :
        /\ truth[g].read <= clock
        /\ truth[g].moved <= MaxFlow * (clock - truth[g].read)

\* The sample was read within the scrape whose time it bears.
SampledAt(g) ==
    /\ prevMBM[g].at <= truth[g].read
    /\ truth[g].read <= prevMBM[g].at + MaxScrape

\* The group of the sample is there: it has counted on, and wrapped at most
\* once.
CountsOn(g) ==
    /\ g \in dirs
    /\ \/ counter[g] = prevMBM[g].bytes + truth[g].moved
       \/ counter[g] = prevMBM[g].bytes + truth[g].moved - Width

\* The group of the sample is gone: one of its name began at zero later.
CountsAnew(g) == g \in dirs => counter[g] <= truth[g].moved

CounterInv ==
    \A g \in Groups :
        prevMBM[g] # None =>
            /\ SampledAt(g)
            /\ IF truth[g].alive THEN CountsOn(g) ELSE CountsAnew(g)

FlowsInv == TypeOK /\ ClockInv /\ FlowInv /\ CounterInv

-----------------------------------------------------------------------------
\* Lemmas on numbers

\* A sum modulo Width wraps once at most.
LEMMA WrapsOnce ==
    ASSUME NEW a \in Value, NEW b \in Value
    PROVE  (a + b) % Width = IF a + b < Width THEN a + b ELSE a + b - Width
<1>1. Width \in Nat \ {0}
  BY MonitorAssumption DEF Value
<1> QED
  BY <1>1 DEF Value

\* What moves in one more unit of time.
LEMMA OneMoreUnit ==
    ASSUME NEW m \in Nat, NEW t \in Nat
    PROVE  m * (t + 1) = m * t + m /\ m * t \in Nat
OBVIOUS

LEMMA ProductGrows ==
    ASSUME NEW m \in Nat, NEW a \in Nat, NEW b \in Nat, a <= b
    PROVE  m * a <= m * b
OBVIOUS

\* A flow that keeps to MaxFlow does not reach the width of a counter.
LEMMA FlowBelowWidth ==
    ASSUME NEW t \in Nat, t <= MaxTime, NEW moved \in Nat, moved <= MaxFlow * t
    PROVE  moved < Width
<1>1. MaxFlow \in Nat /\ MaxTime \in Nat /\ Width \in Nat
  BY MonitorAssumption
<1>2. MaxFlow * t <= MaxFlow * MaxTime
  BY <1>1, ProductGrows
<1>3. MaxFlow * t \in Nat /\ MaxFlow * MaxTime \in Nat
  BY <1>1, OneMoreUnit
<1>4. MaxFlow * MaxTime < Width
  BY MonitorAssumption
<1> QED
  BY <1>1, <1>2, <1>3, <1>4

-----------------------------------------------------------------------------
\* Types

\* Monitor.tla: the types hold whatever fails.
LEMMA TypeInit == Init => TypeOK
<1> SUFFICES ASSUME Init PROVE TypeOK
  OBVIOUS
<1> USE DEF Init
<1>1. {Width, MaxFlow, MaxScrape, MaxTime} \subseteq Nat
  BY MonitorAssumption
<1>2. 0 \in 0 .. MaxTime
  BY <1>1
<1>3. MaxFlow * MaxTime \in Nat
  BY <1>1, OneMoreUnit
<1>4. Width \in Nat \ {0}
  BY <1>1, <1>3, MonitorAssumption
<1>5. 0 \in Value /\ Width - 1 \in Value
  BY <1>4 DEF Value
<1>6. counter \in [Groups -> Value]
  BY <1>5
<1>7. truth \in [Groups -> [moved : Nat, read : 0 .. MaxTime, alive : BOOLEAN]]
  BY <1>2
<1>8. recorded \subseteq dirs /\ dirs \subseteq Groups
  OBVIOUS
<1>9. prevMBM \in [Groups -> Sample \cup {None}] /\ rate \in [Groups -> Rate \cup {None}]
  OBVIOUS
<1> QED
  BY <1>2, <1>6, <1>7, <1>8, <1>9 DEF TypeOK

\* What a reading gives is a sample, and no missing one.
LEMMA SampleType ==
    ASSUME TypeOK, NEW g \in Groups, NEW bytes \in Readings(g)
    PROVE  /\ bytes \in Value
           /\ [bytes |-> bytes, at |-> now] \in Sample
           /\ [bytes |-> bytes, at |-> now] # None
<1>1. Width \in Nat /\ MaxTime \in Nat /\ None \notin [bytes : Nat, at : Nat]
  BY MonitorAssumption
<1>2. counter[g] \in Value /\ now \in 0 .. MaxTime
  BY DEF TypeOK
<1>3. bytes = counter[g] \/ bytes = 0
  BY DEF Readings
<1>4. bytes \in Value
  BY <1>1, <1>2, <1>3 DEF Value
<1>5. [bytes |-> bytes, at |-> now] \in [bytes : Nat, at : Nat]
  BY <1>1, <1>2, <1>4 DEF Value
<1> QED
  BY <1>1, <1>2, <1>4, <1>5 DEF Sample

\* NewRate is a rate or nothing.
LEMMA RateType ==
    ASSUME NEW prev \in Sample \cup {None}, NEW sample \in Sample
    PROVE  /\ NewRate(prev, sample) \in Rate \cup {None}
           /\ NewRate(prev, sample) # None => prev # None
<1>1. Width \in Nat /\ MaxTime \in Nat
  BY MonitorAssumption
<1>2. CASE prev # None /\ sample.at > prev.at /\ sample.bytes >= prev.bytes
  <2>1. prev.bytes \in Value /\ sample.bytes \in Value
    BY <1>2 DEF Sample
  <2>2. prev.at \in 0 .. MaxTime /\ sample.at \in 0 .. MaxTime
    BY <1>2 DEF Sample
  <2>3. sample.bytes - prev.bytes \in Value
    BY <1>1, <1>2, <2>1 DEF Value
  <2>4. sample.at - prev.at \in 0 .. MaxTime
    BY <1>1, <1>2, <2>2
  <2> QED
    BY <1>2, <2>3, <2>4 DEF NewRate, Rate
<1>3. CASE ~ (prev # None /\ sample.at > prev.at /\ sample.bytes >= prev.bytes)
  BY <1>3 DEF NewRate
<1> QED
  BY <1>2, <1>3

\* A step of the node other than the passing of time.
LEMMA GroupsType ==
    ASSUME TypeOK, NEW g \in Groups,
           MakeGroup(g) \/ Record(g) \/ Forget(g) \/ RemoveGroup(g)
    PROVE  TypeOK'
<1>1. CASE MakeGroup(g)
  <2> USE <1>1 DEF MakeGroup
  <2>1. 0 \in Value
    <3>1. counter[g] \in Value /\ Width \in Nat
      BY MonitorAssumption DEF TypeOK
    <3> QED
      BY <3>1 DEF Value
  <2>2. counter' \in [Groups -> Value]
    BY <2>1 DEF TypeOK
  <2>3. recorded' \subseteq dirs' /\ dirs' \subseteq Groups
    BY DEF TypeOK
  <2> QED
    BY <2>2, <2>3 DEF TypeOK, scrape, metrics
<1>2. CASE Record(g)
  BY <1>2 DEF Record, TypeOK, groups, scrape, metrics
<1>3. CASE Forget(g)
  BY <1>3 DEF Forget, TypeOK, groups, scrape, metrics
<1>4. CASE RemoveGroup(g)
  <2> USE <1>4 DEF RemoveGroup
  <2>1. truth' \in [Groups -> [moved : Nat, read : 0 .. MaxTime, alive : BOOLEAN]]
    BY DEF TypeOK
  <2>2. recorded' \subseteq dirs' /\ dirs' \subseteq Groups
    BY DEF TypeOK
  <2> QED
    BY <2>1, <2>2 DEF TypeOK, scrape, metrics
<1> QED
  BY <1>1, <1>2, <1>3, <1>4

\* The passing of time.
LEMMA TickType ==
    ASSUME TypeOK, Tick
    PROVE  TypeOK'
<1> USE DEF Tick
<1>1. PICK flow \in [Groups -> 0 .. MaxFlow] :
          /\ \A g \in Groups \ dirs : flow[g] = 0
          /\ counter' = [g \in Groups |-> (counter[g] + flow[g]) % Width]
          /\ truth' = [g \in Groups |-> [truth[g] EXCEPT !.moved = @ + flow[g]]]
  OBVIOUS
<1>2. Width \in Nat /\ MaxTime \in Nat /\ MaxFlow \in Nat
  BY MonitorAssumption
<1>3. clock' \in 0 .. MaxTime
  BY <1>2 DEF TypeOK
<1>4. counter' \in [Groups -> Value]
  <2>1. SUFFICES ASSUME NEW g \in Groups
        PROVE  (counter[g] + flow[g]) % Width \in Value
    BY <1>1
  <2>2. counter[g] \in Value /\ flow[g] \in Nat
    BY <1>1, <1>2 DEF TypeOK
  <2> QED
    BY <1>2, <2>2 DEF Value
<1>5. truth' \in [Groups -> [moved : Nat, read : 0 .. MaxTime, alive : BOOLEAN]]
  <2>1. SUFFICES ASSUME NEW g \in Groups
        PROVE  [truth[g] EXCEPT !.moved = @ + flow[g]]
                 \in [moved : Nat, read : 0 .. MaxTime, alive : BOOLEAN]
    BY <1>1
  <2>2. truth[g] \in [moved : Nat, read : 0 .. MaxTime, alive : BOOLEAN]
    BY DEF TypeOK
  <2>3. truth[g].moved + flow[g] \in Nat
    BY <1>1, <1>2, <2>2
  <2> QED
    BY <2>2, <2>3
<1> QED
  BY <1>3, <1>4, <1>5 DEF TypeOK, scrape, metrics

\* A step of the scrape.
LEMMA ReadType ==
    ASSUME TypeOK, NEW g \in Groups, ReadTarget(g)
    PROVE  TypeOK'
<1>1. PICK bytes \in Readings(g) :
        LET sample == [bytes |-> bytes, at |-> now]
            new == NewRate(prevMBM[g], sample)
        IN
        /\ g \in todo \cap dirs
        /\ todo' = todo \ {g}
        /\ prevMBM' = [prevMBM EXCEPT ![g] = sample]
        /\ rate' = IF new = None THEN rate ELSE [rate EXCEPT ![g] = new]
        /\ truth' = [truth EXCEPT ![g] = [moved |-> 0, read |-> clock, alive |-> TRUE]]
        /\ UNCHANGED <<clock, groups, recorded, scraping, now>>
  BY DEF ReadTarget
<1> DEFINE sample == [bytes |-> bytes, at |-> now]
           new == NewRate(prevMBM[g], sample)
<1>2. sample \in Sample /\ sample # None
  BY SampleType
<1>3. prevMBM[g] \in Sample \cup {None}
  BY DEF TypeOK
<1>4. new \in Rate \cup {None} /\ (new # None => prevMBM[g] # None)
  BY <1>2, <1>3, RateType
<1> HIDE DEF sample, new
<1>5. /\ todo' = todo \ {g}
      /\ prevMBM' = [prevMBM EXCEPT ![g] = sample]
      /\ rate' = IF new = None THEN rate ELSE [rate EXCEPT ![g] = new]
      /\ truth' = [truth EXCEPT ![g] = [moved |-> 0, read |-> clock, alive |-> TRUE]]
      /\ UNCHANGED <<clock, groups, recorded, scraping, now>>
  BY <1>1 DEF sample, new
<1>6. prevMBM' \in [Groups -> Sample \cup {None}] /\ rate' \in [Groups -> Rate \cup {None}]
  BY <1>2, <1>4, <1>5 DEF TypeOK
<1>7. \A h \in Groups : rate'[h] # None => prevMBM'[h] # None
  <2> TAKE h \in Groups
  <2>1. CASE h = g
    BY <1>2, <1>5, <2>1 DEF TypeOK
  <2>2. CASE h # g
    <3>1. prevMBM'[h] = prevMBM[h]
      BY <1>5, <2>2 DEF TypeOK
    <3>2. rate'[h] = rate[h]
      BY <1>5, <2>2 DEF TypeOK
    <3> QED
      BY <3>1, <3>2 DEF TypeOK
  <2> QED
    BY <2>1, <2>2
<1>8. truth' \in [Groups -> [moved : Nat, read : 0 .. MaxTime, alive : BOOLEAN]]
  BY <1>5 DEF TypeOK
<1> QED
  BY <1>5, <1>6, <1>7, <1>8 DEF TypeOK, groups

\* Steps that only take or drop targets.
LEMMA TargetsType ==
    ASSUME TypeOK,
           BeginScrape \/ EndScrape \/ (\E g \in Groups : SkipTarget(g))
    PROVE  TypeOK'
<1>1. CASE BeginScrape
  BY <1>1 DEF BeginScrape, Targets, TypeOK, groups, metrics
<1>2. CASE EndScrape
  BY <1>2 DEF EndScrape, TypeOK, groups, metrics
<1>3. CASE \E g \in Groups : SkipTarget(g)
  BY <1>3 DEF SkipTarget, TypeOK, groups, metrics
<1> QED
  BY <1>1, <1>2, <1>3

LEMMA TypeStep == TypeOK /\ [Next]_vars => TypeOK'
<1> SUFFICES ASSUME TypeOK, [Next]_vars PROVE TypeOK'
  OBVIOUS
<1>1. CASE Tick
  BY <1>1, TickType
<1>2. CASE \E g \in Groups : MakeGroup(g) \/ Record(g) \/ Forget(g) \/ RemoveGroup(g)
  BY <1>2, GroupsType
<1>3. CASE \E g \in Groups : ReadTarget(g)
  BY <1>3, ReadType
<1>4. CASE BeginScrape \/ EndScrape \/ (\E g \in Groups : SkipTarget(g))
  BY <1>4, TargetsType
<1>5. CASE UNCHANGED vars
  BY <1>5 DEF vars, groups, scrape, metrics, TypeOK
<1> QED
  BY <1>1, <1>2, <1>3, <1>4, <1>5 DEF Next

\* Monitor.tla: each variable keeps its type, and a gauge that is set has a
\* sample that the next one is computed from, whatever files cannot be read.
THEOREM TypeCorrect == Spec => []TypeOK
BY TypeInit, TypeStep, PTL DEF Spec

-----------------------------------------------------------------------------
\* The invariant

\* What the types say of one group.
LEMMA GroupTypes ==
    ASSUME TypeOK, NEW g \in Groups
    PROVE  /\ counter[g] \in Nat /\ counter[g] < Width
           /\ truth[g] \in [moved : Nat, read : 0 .. MaxTime, alive : BOOLEAN]
           /\ truth[g].moved \in Nat /\ truth[g].read \in Nat /\ truth[g].alive \in BOOLEAN
           /\ prevMBM[g] # None =>
                prevMBM[g].bytes \in Nat /\ prevMBM[g].bytes < Width /\ prevMBM[g].at \in Nat
<1>1. Width \in Nat /\ MaxTime \in Nat
  BY MonitorAssumption
<1>2. counter[g] \in Value
  BY DEF TypeOK
<1>3. truth[g] \in [moved : Nat, read : 0 .. MaxTime, alive : BOOLEAN]
  BY DEF TypeOK
<1>4. prevMBM[g] # None => prevMBM[g] \in Sample
  BY DEF TypeOK
<1>5. prevMBM[g] # None => prevMBM[g].bytes \in Value /\ prevMBM[g].at \in 0 .. MaxTime
  BY <1>4 DEF Sample
<1> QED
  BY <1>1, <1>2, <1>3, <1>5 DEF Value

LEMMA TimesTypes ==
    ASSUME TypeOK
    PROVE  /\ clock \in Nat /\ now \in Nat /\ clock <= MaxTime /\ now <= MaxTime
           /\ Width \in Nat /\ MaxTime \in Nat /\ MaxFlow \in Nat /\ MaxScrape \in Nat
<1>1. {Width, MaxFlow, MaxScrape, MaxTime} \subseteq Nat
  BY MonitorAssumption
<1> QED
  BY <1>1 DEF TypeOK

\* Since its last reading a group has moved less than the width of a counter.
LEMMA MovedBelowWidth ==
    ASSUME TypeOK, FlowInv, NEW g \in Groups
    PROVE  truth[g].moved < Width
<1>1. truth[g].moved \in Nat /\ truth[g].read \in Nat
  BY GroupTypes
<1>2. clock \in Nat /\ clock <= MaxTime
  BY TimesTypes
<1>3. truth[g].read <= clock /\ truth[g].moved <= MaxFlow * (clock - truth[g].read)
  BY DEF FlowInv
<1>4. clock - truth[g].read \in Nat /\ clock - truth[g].read <= MaxTime
  BY <1>1, <1>2, <1>3, TimesTypes
<1> QED
  BY <1>1, <1>3, <1>4, FlowBelowWidth

LEMMA FlowsInit == Init => FlowsInv
<1> SUFFICES ASSUME Init PROVE FlowsInv
  OBVIOUS
<1>1. TypeOK
  BY TypeInit
<1>2. ClockInv
  BY DEF Init, ClockInv
<1>3. FlowInv
  <2>1. MaxFlow * 0 \in Nat
    BY <1>1, TimesTypes, OneMoreUnit
  <2>2. SUFFICES ASSUME NEW g \in Groups
        PROVE  truth[g].read <= clock /\ truth[g].moved <= MaxFlow * (clock - truth[g].read)
    BY DEF FlowInv
  <2>3. truth[g].read = 0 /\ truth[g].moved = 0 /\ clock = 0
    BY DEF Init
  <2>4. clock - truth[g].read = 0
    BY <2>3
  <2>5. MaxFlow * (clock - truth[g].read) = MaxFlow * 0
    BY <2>4
  <2> QED
    BY <2>1, <2>3, <2>5
<1>4. CounterInv
  BY DEF Init, CounterInv
<1> QED
  BY <1>1, <1>2, <1>3, <1>4 DEF FlowsInv

\* In a unit of time the groups move, and the counters of those that are
\* there with them.
LEMMA FlowsTick ==
    ASSUME FlowsInv, Tick
    PROVE  FlowsInv'
<1>1. PICK flow \in [Groups -> 0 .. MaxFlow] :
          /\ \A g \in Groups \ dirs : flow[g] = 0
          /\ counter' = [g \in Groups |-> (counter[g] + flow[g]) % Width]
          /\ truth' = [g \in Groups |-> [truth[g] EXCEPT !.moved = @ + flow[g]]]
  BY DEF Tick
<1>2. TypeOK /\ ClockInv /\ FlowInv /\ CounterInv
  BY DEF FlowsInv
<1>3. TypeOK'
  BY <1>2, TickType
<1>4. clock \in Nat /\ MaxFlow \in Nat /\ now \in Nat /\ MaxScrape \in Nat /\ Width \in Nat
  BY <1>2, TimesTypes
<1>5. /\ UNCHANGED <<dirs, prevMBM, scraping, now, todo>>
      /\ clock' = clock + 1
      /\ scraping => clock - now < MaxScrape
  BY DEF Tick, scrape, metrics
<1>6. ASSUME NEW g \in Groups
      PROVE  /\ flow[g] \in Nat /\ flow[g] <= MaxFlow
             /\ truth'[g].moved = truth[g].moved + flow[g]
             /\ truth'[g].read = truth[g].read /\ truth'[g].alive = truth[g].alive
  <2>1. flow[g] \in Nat /\ flow[g] <= MaxFlow
    BY <1>1, <1>4
  <2>2. truth[g] \in [moved : Nat, read : 0 .. MaxTime, alive : BOOLEAN]
    BY <1>2, GroupTypes
  <2>3. truth'[g] = [truth[g] EXCEPT !.moved = @ + flow[g]]
    BY <1>1
  <2> QED
    BY <2>1, <2>2, <2>3
<1>7. ClockInv'
  BY <1>2, <1>4, <1>5 DEF ClockInv
<1>8. FlowInv'
  <2>1. SUFFICES ASSUME NEW g \in Groups
        PROVE  /\ truth'[g].read <= clock'
               /\ truth'[g].moved <= MaxFlow * (clock' - truth'[g].read)
    BY DEF FlowInv
  <2> DEFINE between == clock - truth[g].read
  <2>2. truth[g].moved \in Nat /\ truth[g].read \in Nat
    BY <1>2, GroupTypes
  <2>3. truth[g].read <= clock /\ truth[g].moved <= MaxFlow * between
    BY <1>2 DEF FlowInv
  <2>4. between \in Nat /\ clock' - truth'[g].read = between + 1
    <3>1. truth'[g].read = truth[g].read /\ clock' = clock + 1
      BY <1>5, <1>6
    <3>2. truth[g].read <= clock
      BY <2>3
    <3> QED
      BY <1>4, <2>2, <3>1, <3>2
  <2>5. MaxFlow * (between + 1) = MaxFlow * between + MaxFlow /\ MaxFlow * between \in Nat
    BY <1>4, <2>4, OneMoreUnit
  <2>6. truth'[g].read <= clock'
    BY <1>4, <1>5, <1>6, <2>2, <2>3
  <2>7. truth'[g].moved <= MaxFlow * between + MaxFlow
    <3> HIDE DEF between
    <3> QED
      BY <1>4, <1>6, <2>2, <2>3, <2>5
  <2>8. MaxFlow * (clock' - truth'[g].read) = MaxFlow * (between + 1)
    BY <2>4
  <2> QED
    BY <2>5, <2>6, <2>7, <2>8
<1>9. CounterInv'
  <2>1. SUFFICES ASSUME NEW g \in Groups, prevMBM'[g] # None
        PROVE  /\ SampledAt(g)'
               /\ IF truth'[g].alive THEN CountsOn(g)' ELSE CountsAnew(g)'
    BY DEF CounterInv
  <2>2. prevMBM'[g] = prevMBM[g] /\ prevMBM[g] # None
    BY <1>5, <2>1
  <2>3. /\ SampledAt(g)
        /\ IF truth[g].alive THEN CountsOn(g) ELSE CountsAnew(g)
    BY <1>2, <2>2 DEF CounterInv
  <2>4. SampledAt(g)'
    BY <1>6, <2>2, <2>3 DEF SampledAt
  <2>5. /\ counter[g] \in Nat /\ counter[g] < Width
        /\ truth[g].moved \in Nat /\ truth[g].alive \in BOOLEAN
        /\ prevMBM[g].bytes \in Nat /\ prevMBM[g].bytes < Width
    BY <1>2, <2>2, GroupTypes
  <2>6. truth'[g].moved < Width
    <3> DEFINE between == clock' - truth'[g].read
    <3>1. /\ truth'[g].moved \in Nat /\ truth'[g].read \in Nat
          /\ clock' \in Nat /\ clock' <= MaxTime /\ MaxTime \in Nat
      BY <1>3, <1>4, MonitorAssumption DEF TypeOK
    <3>2. truth'[g].read <= clock' /\ truth'[g].moved <= MaxFlow * between
      BY <1>8 DEF FlowInv
    <3>3. between \in Nat /\ between <= MaxTime
      BY <3>1, <3>2
    <3> HIDE DEF between
    <3> QED
      BY <3>1, <3>2, <3>3, FlowBelowWidth
  <2>7. counter[g] \in Value /\ flow[g] \in Value
    BY <1>4, <1>6, <2>5, <2>6 DEF Value
  <2>8. counter'[g] = IF counter[g] + flow[g] < Width
                      THEN counter[g] + flow[g] ELSE counter[g] + flow[g] - Width
    BY <1>1, <2>7, WrapsOnce
  <2>9. truth'[g].moved = truth[g].moved + flow[g] /\ flow[g] \in Nat
    BY <1>6
  <2>10. CASE truth[g].alive
    <3>1. CountsOn(g) /\ truth'[g].alive
      BY <1>6, <2>3, <2>10
    <3>2. g \in dirs'
      BY <1>5, <3>1 DEF CountsOn
    <3>3. \/ counter[g] = prevMBM[g].bytes + truth[g].moved
          \/ counter[g] = prevMBM[g].bytes + truth[g].moved - Width
      BY <3>1 DEF CountsOn
    <3>4. \/ counter'[g] = prevMBM[g].bytes + truth'[g].moved
          \/ counter'[g] = prevMBM[g].bytes + truth'[g].moved - Width
      BY <1>4, <2>5, <2>6, <2>8, <2>9, <3>3
    <3> QED
      BY <2>2, <2>4, <3>1, <3>2, <3>4 DEF CountsOn
  <2>11. CASE ~ truth[g].alive
    <3>1. CountsAnew(g) /\ ~ truth'[g].alive
      BY <1>6, <2>3, <2>11
    <3>2. ASSUME g \in dirs' PROVE counter'[g] <= truth'[g].moved
      <4>1. counter[g] <= truth[g].moved
        BY <1>5, <3>1, <3>2 DEF CountsAnew
      <4> QED
        BY <1>4, <2>5, <2>6, <2>8, <2>9, <4>1
    <3> QED
      BY <2>4, <3>1, <3>2 DEF CountsAnew
  <2> QED
    BY <2>10, <2>11
<1> QED
  BY <1>3, <1>7, <1>8, <1>9 DEF FlowsInv

\* The handlers' steps: a group that has been sampled and is made again was
\* removed before, and its counter begins at zero.
LEMMA FlowsGroups ==
    ASSUME FlowsInv, NEW g \in Groups,
           MakeGroup(g) \/ Record(g) \/ Forget(g) \/ RemoveGroup(g)
    PROVE  FlowsInv'
<1>1. TypeOK /\ ClockInv /\ FlowInv /\ CounterInv
  BY DEF FlowsInv
<1>2. TypeOK'
  BY <1>1, GroupsType
<1>3. UNCHANGED <<clock, scraping, now, todo, prevMBM>>
  BY DEF MakeGroup, Record, Forget, RemoveGroup, scrape, metrics
<1>4. ClockInv'
  BY <1>1, <1>3 DEF ClockInv
<1>5. ASSUME NEW h \in Groups
      PROVE  /\ truth'[h].moved = truth[h].moved /\ truth'[h].read = truth[h].read
             /\ truth'[h].alive => truth[h].alive
  <2>1. truth[h] \in [moved : Nat, read : 0 .. MaxTime, alive : BOOLEAN]
    BY <1>1, GroupTypes
  <2>2. CASE UNCHANGED truth
    BY <2>2
  <2>3. CASE truth' = [truth EXCEPT ![g].alive = FALSE]
    BY <1>1, <2>1, <2>3 DEF TypeOK
  <2> QED
    BY <2>2, <2>3 DEF MakeGroup, Record, Forget, RemoveGroup
<1>6. FlowInv'
  BY <1>1, <1>3, <1>5 DEF FlowInv
<1>7. ASSUME NEW h \in Groups, prevMBM'[h] # None
      PROVE  SampledAt(h)' /\ IF truth'[h].alive THEN CountsOn(h)' ELSE CountsAnew(h)'
  <2>1. prevMBM'[h] = prevMBM[h] /\ prevMBM[h] # None
    BY <1>3, <1>7
  <2>2. SampledAt(h) /\ IF truth[h].alive THEN CountsOn(h) ELSE CountsAnew(h)
    BY <1>1, <2>1 DEF CounterInv
  <2>3. SampledAt(h)'
    BY <1>5, <2>1, <2>2 DEF SampledAt
  <2>4. truth[h].moved \in Nat /\ truth[h].alive \in BOOLEAN
    BY <1>1, GroupTypes
  <2>5. CASE MakeGroup(g)
    <3>1. UNCHANGED truth /\ g \notin dirs /\ dirs' = dirs \cup {g}
      BY <2>5 DEF MakeGroup
    <3>2. CASE h = g
      <4>1. ~ truth[h].alive
        BY <2>2, <3>1, <3>2 DEF CountsOn
      <4>2. counter'[h] = 0
        BY <1>1, <2>5, <3>2 DEF MakeGroup, TypeOK
      <4>3. CountsAnew(h)'
        BY <2>4, <3>1, <4>2 DEF CountsAnew
      <4> QED
        BY <2>3, <3>1, <4>1, <4>3
    <3>3. CASE h # g
      <4>1. counter'[h] = counter[h] /\ (h \in dirs' <=> h \in dirs)
        BY <1>1, <2>5, <3>3 DEF MakeGroup, TypeOK
      <4> QED
        BY <2>1, <2>2, <2>3, <3>1, <4>1 DEF CountsOn, CountsAnew
    <3> QED
      BY <3>2, <3>3
  <2>6. CASE Record(g) \/ Forget(g)
    <3>1. UNCHANGED <<dirs, counter, truth>>
      BY <2>6 DEF Record, Forget, groups
    <3> QED
      BY <2>1, <2>2, <2>3, <3>1 DEF CountsOn, CountsAnew
  <2>7. CASE RemoveGroup(g)
    <3>1. UNCHANGED counter /\ dirs' = dirs \ {g}
          /\ truth' = [truth EXCEPT ![g].alive = FALSE]
      BY <2>7 DEF RemoveGroup
    <3>2. CASE h = g
      <4>1. h \notin dirs'
        BY <3>1, <3>2
      <4>2. truth'[h].alive = FALSE
        BY <1>1, <3>1, <3>2, GroupTypes DEF TypeOK
      <4>3. CountsAnew(h)'
        BY <4>1 DEF CountsAnew
      <4> QED
        BY <2>3, <4>2, <4>3
    <3>3. CASE h # g
      <4>1. truth'[h] = truth[h] /\ (h \in dirs' <=> h \in dirs)
        BY <1>1, <3>1, <3>3 DEF TypeOK
      <4> QED
        BY <2>1, <2>2, <2>3, <3>1, <4>1 DEF CountsOn, CountsAnew
    <3> QED
      BY <3>2, <3>3
  <2> QED
    BY <2>5, <2>6, <2>7
<1>8. CounterInv'
  BY <1>7 DEF CounterInv
<1> QED
  BY <1>2, <1>4, <1>6, <1>8 DEF FlowsInv

\* What a reading leaves, when the files can be read: the counter as the next
\* rate's base, nothing moved since, and the gauge of no other group changed.
Sampled(g) ==
    LET sample == [bytes |-> counter[g], at |-> now]
        new == NewRate(prevMBM[g], sample)
    IN
    /\ g \in todo /\ g \in dirs
    /\ todo' = todo \ {g}
    /\ prevMBM' = [prevMBM EXCEPT ![g] = sample]
    /\ rate' = IF new = None THEN rate ELSE [rate EXCEPT ![g] = new]
    /\ truth' = [truth EXCEPT ![g] = [moved |-> 0, read |-> clock, alive |-> TRUE]]
    /\ UNCHANGED <<clock, dirs, counter, recorded, scraping, now>>

LEMMA ReadIsSampled ==
    ASSUME FilesReadable, NEW g \in Groups, ReadTarget(g)
    PROVE  Sampled(g)
<1>1. Readings(g) = {counter[g]}
  BY DEF Readings, FilesReadable
<1> QED
  BY <1>1 DEF ReadTarget, Sampled, groups

LEMMA FlowsRead ==
    ASSUME FilesReadable, FlowsInv, NEW g \in Groups, ReadTarget(g)
    PROVE  FlowsInv'
<1>1. TypeOK /\ ClockInv /\ FlowInv /\ CounterInv
  BY DEF FlowsInv
<1>2. TypeOK'
  BY <1>1, ReadType
<1>3. /\ g \in todo /\ g \in dirs /\ todo' = todo \ {g}
      /\ prevMBM' = [prevMBM EXCEPT ![g] = [bytes |-> counter[g], at |-> now]]
      /\ truth' = [truth EXCEPT ![g] = [moved |-> 0, read |-> clock, alive |-> TRUE]]
      /\ UNCHANGED <<clock, dirs, counter, scraping, now>>
  BY ReadIsSampled DEF Sampled
<1>4. clock \in Nat /\ now \in Nat /\ MaxScrape \in Nat /\ MaxFlow \in Nat
  BY <1>1, TimesTypes
<1>5. scraping /\ now <= clock /\ clock <= now + MaxScrape
  BY <1>1, <1>3 DEF ClockInv
<1>6. ClockInv'
  BY <1>3, <1>5 DEF ClockInv
<1>7. /\ truth'[g].moved = 0 /\ truth'[g].read = clock /\ truth'[g].alive
      /\ prevMBM'[g].bytes = counter[g] /\ prevMBM'[g].at = now
  BY <1>1, <1>3 DEF TypeOK
<1>8. ASSUME NEW h \in Groups, h # g
      PROVE  truth'[h] = truth[h] /\ prevMBM'[h] = prevMBM[h]
  BY <1>1, <1>3, <1>8 DEF TypeOK
<1>9. FlowInv'
  <2>1. SUFFICES ASSUME NEW h \in Groups
        PROVE  /\ truth'[h].read <= clock'
               /\ truth'[h].moved <= MaxFlow * (clock' - truth'[h].read)
    BY DEF FlowInv
  <2>2. CASE h = g
    <3>1. clock' - truth'[h].read = 0
      BY <1>3, <1>4, <1>7, <2>2
    <3>2. MaxFlow * (clock' - truth'[h].read) = MaxFlow * 0
      BY <3>1
    <3>3. MaxFlow * 0 = 0
      BY <1>4
    <3> QED
      BY <1>3, <1>4, <1>7, <2>2, <3>2, <3>3
  <2>3. CASE h # g
    BY <1>1, <1>3, <1>8, <2>3 DEF FlowInv
  <2> QED
    BY <2>2, <2>3
<1>10. CounterInv'
  <2>1. SUFFICES ASSUME NEW h \in Groups, prevMBM'[h] # None
        PROVE  SampledAt(h)' /\ IF truth'[h].alive THEN CountsOn(h)' ELSE CountsAnew(h)'
    BY DEF CounterInv
  <2>2. CASE h = g
    <3>1. SampledAt(h)'
      BY <1>5, <1>7, <2>2 DEF SampledAt
    <3>2. counter[g] \in Nat
      BY <1>1, GroupTypes
    <3>3. counter'[h] = prevMBM'[h].bytes + truth'[h].moved
      BY <1>3, <1>7, <2>2, <3>2
    <3>4. CountsOn(h)'
      BY <1>3, <2>2, <3>3 DEF CountsOn
    <3> QED
      BY <1>7, <2>2, <3>1, <3>4
  <2>3. CASE h # g
    <3>1. truth'[h] = truth[h] /\ prevMBM'[h] = prevMBM[h]
      BY <1>8, <2>3
    <3>2. SampledAt(h) /\ IF truth[h].alive THEN CountsOn(h) ELSE CountsAnew(h)
      BY <1>1, <2>1, <3>1 DEF CounterInv
    <3> QED
      BY <1>3, <3>1, <3>2 DEF SampledAt, CountsOn, CountsAnew
  <2> QED
    BY <2>2, <2>3
<1> QED
  BY <1>2, <1>6, <1>9, <1>10 DEF FlowsInv

LEMMA FlowsTargets ==
    ASSUME FlowsInv,
           BeginScrape \/ EndScrape \/ (\E g \in Groups : SkipTarget(g))
    PROVE  FlowsInv'
<1>1. TypeOK /\ ClockInv /\ FlowInv /\ CounterInv
  BY DEF FlowsInv
<1>2. TypeOK'
  BY <1>1, TargetsType
<1>3. UNCHANGED <<clock, dirs, counter, prevMBM, truth>>
  BY DEF BeginScrape, EndScrape, SkipTarget, groups, metrics
<1>4. clock \in Nat /\ MaxScrape \in Nat
  BY <1>1, TimesTypes
<1>5. ClockInv'
  <2>1. CASE BeginScrape
    BY <1>4, <2>1 DEF BeginScrape, ClockInv
  <2>2. CASE EndScrape
    BY <2>2 DEF EndScrape, ClockInv
  <2>3. CASE \E g \in Groups : SkipTarget(g)
    BY <1>1, <2>3 DEF SkipTarget, ClockInv
  <2> QED
    BY <2>1, <2>2, <2>3
<1>6. FlowInv' /\ CounterInv'
  BY <1>1, <1>3 DEF FlowInv, CounterInv, SampledAt, CountsOn, CountsAnew
<1> QED
  BY <1>2, <1>5, <1>6 DEF FlowsInv

LEMMA FlowsStep == FilesReadable => (FlowsInv /\ [Next]_vars => FlowsInv')
<1> SUFFICES ASSUME FilesReadable, FlowsInv, [Next]_vars PROVE FlowsInv'
  OBVIOUS
<1>1. CASE Tick
  BY <1>1, FlowsTick
<1>2. CASE \E g \in Groups : MakeGroup(g) \/ Record(g) \/ Forget(g) \/ RemoveGroup(g)
  BY <1>2, FlowsGroups
<1>3. CASE \E g \in Groups : ReadTarget(g)
  BY <1>3, FlowsRead
<1>4. CASE BeginScrape \/ EndScrape \/ (\E g \in Groups : SkipTarget(g))
  BY <1>4, FlowsTargets
<1>5. CASE UNCHANGED vars
  <2>1. TypeOK'
    BY <1>5, TypeStep DEF FlowsInv
  <2>2. ClockInv' /\ FlowInv' /\ CounterInv'
    BY <1>5 DEF FlowsInv, vars, groups, scrape, metrics, ClockInv, FlowInv, CounterInv,
                SampledAt, CountsOn, CountsAnew
  <2> QED
    BY <2>1, <2>2 DEF FlowsInv
<1> QED
  BY <1>1, <1>2, <1>3, <1>4, <1>5 DEF Next

\* Monitor.tla: what has been moved since a reading is what the counter has
\* gained, in one wrap at most, or no less than that once the group is gone.
THEOREM FlowsInvariant == FilesReadable => (Spec => []FlowsInv)
<1> SUFFICES ASSUME FilesReadable PROVE Spec => []FlowsInv
  OBVIOUS
<1>1. FlowsInv /\ [Next]_vars => FlowsInv'
  BY FlowsStep
<1> QED
  BY <1>1, FlowsInit, PTL DEF Spec

-----------------------------------------------------------------------------
\* The gauges

\* A reading that sets the gauge.
LEMMA ReadSetsFlow ==
    ASSUME FilesReadable, FlowsInv, NEW g \in Groups, ReadTarget(g), rate'[g] # rate[g]
    PROVE  RateOfFlow(g)
<1>1. TypeOK /\ ClockInv /\ FlowInv /\ CounterInv
  BY DEF FlowsInv
<1> DEFINE prev == prevMBM[g]
           gained == counter[g] - prev.bytes
           over == now - prev.at
<1>2. /\ prev # None /\ now > prev.at /\ counter[g] >= prev.bytes
      /\ rate'[g] = [bytes |-> gained, over |-> over]
      /\ g \in todo /\ g \in dirs
  <2>1. Sampled(g)
    BY ReadIsSampled
  <2>2. NewRate(prevMBM[g], [bytes |-> counter[g], at |-> now]) # None
    BY <2>1 DEF Sampled
  <2>3. rate'[g] = NewRate(prevMBM[g], [bytes |-> counter[g], at |-> now])
    BY <1>1, <2>1, <2>2 DEF Sampled, TypeOK
  <2> QED
    BY <2>1, <2>2, <2>3 DEF Sampled, NewRate
<1>3. rate'[g].bytes = gained /\ rate'[g].over = over
  BY <1>2
<1>4. SampledAt(g) /\ IF truth[g].alive THEN CountsOn(g) ELSE CountsAnew(g)
  BY <1>1, <1>2 DEF CounterInv
<1>5. /\ counter[g] \in Nat /\ truth[g].moved \in Nat /\ truth[g].read \in Nat
      /\ prev.bytes \in Nat /\ prev.at \in Nat /\ truth[g].alive \in BOOLEAN
  BY <1>1, <1>2, GroupTypes
<1>6. clock \in Nat /\ now \in Nat /\ MaxScrape \in Nat /\ Width \in Nat
  BY <1>1, TimesTypes
<1>7. truth[g].moved < Width
  BY <1>1, MovedBelowWidth
<1>8. /\ gained <= truth[g].moved
      /\ truth[g].alive => gained = truth[g].moved
  <2>1. CASE truth[g].alive
    <3>1. \/ counter[g] = prev.bytes + truth[g].moved
          \/ counter[g] = prev.bytes + truth[g].moved - Width
      BY <1>4, <2>1 DEF CountsOn
    <3> QED
      BY <1>2, <1>5, <1>6, <1>7, <3>1
  <2>2. CASE ~ truth[g].alive
    <3>1. counter[g] <= truth[g].moved
      BY <1>2, <1>4, <2>2 DEF CountsAnew
    <3> QED
      BY <1>5, <2>2, <3>1
  <2> QED
    BY <1>5, <2>1, <2>2
<1>9. over > 0 /\ over - (clock - truth[g].read) \in - MaxScrape .. MaxScrape
  <2>1. now <= clock /\ clock <= now + MaxScrape
    BY <1>1, <1>2 DEF ClockInv
  <2>2. prev.at <= truth[g].read /\ truth[g].read <= prev.at + MaxScrape
    BY <1>4 DEF SampledAt
  <2>3. now > prev.at
    BY <1>2
  <2> QED
    BY <1>5, <1>6, <2>1, <2>2, <2>3
<1> HIDE DEF gained, over
<1> QED
  BY <1>3, <1>8, <1>9 DEF RateOfFlow

\* No other step sets a gauge, and a reading sets that of its group.
LEMMA OnlyReadingsSet ==
    ASSUME TypeOK, FilesReadable, [Next]_vars, NEW g \in Groups, rate'[g] # rate[g]
    PROVE  ReadTarget(g)
<1>1. ~ UNCHANGED rate
  OBVIOUS
<1>2. PICK h \in Groups : ReadTarget(h)
  BY <1>1 DEF Next, Tick, MakeGroup, Record, Forget, RemoveGroup, BeginScrape, SkipTarget,
              EndScrape, metrics, vars
<1>3. Sampled(h)
  BY <1>2, ReadIsSampled
<1>4. g = h
  BY <1>3 DEF Sampled, TypeOK
<1> QED
  BY <1>2, <1>4

\* RateIsFlow (monitor.go, scrape): a gauge is set to what the group has moved
\* since it was read last, whatever wrapped, was missed or was made again.
THEOREM RateIsFlowHolds == FilesReadable => (Spec => RateIsFlow)
<1> SUFFICES ASSUME FilesReadable PROVE Spec => RateIsFlow
  OBVIOUS
<1>1. FlowsInv /\ [Next]_vars => \A g \in Groups : rate'[g] # rate[g] => RateOfFlow(g)
  BY ReadSetsFlow, OnlyReadingsSet DEF FlowsInv
<1>2. Spec => []FlowsInv
  BY FlowsInvariant
<1> QED
  BY <1>1, <1>2, PTL DEF Spec, RateIsFlow
=============================================================================
