------------------------------ MODULE Monitor -------------------------------
(***************************************************************************)
(* The monitoring goroutine: at every tick of its ticker it takes the      *)
(* groups to monitor, reads the counters of each in turn, and sets the     *)
(* group's bandwidth gauge to what its counter has gained since the        *)
(* previous reading, over the time between the two scrapes.                *)
(*                                                                         *)
(* Meanwhile time passes, tasks move memory, and the handlers make and     *)
(* remove groups: a claim that is prepared again has a group of the same   *)
(* name, whose counters begin at zero.  The local and the total counter    *)
(* are handled alike, and one stands for both.                             *)
(***************************************************************************)
EXTENDS Integers

CONSTANTS
    Groups,         \* names of control groups
    Width,          \* the counters are modulo Width
    MaxFlow,        \* bytes a group moves in a unit of time
    MaxScrape,      \* bound: how long a scrape takes
    MaxTime,        \* bound: the time
    MayFail,        \* whether "read", reading the file of a counter, can fail
    None            \* no sample, no gauge

ASSUME MonitorAssumption ==
    /\ {Width, MaxFlow, MaxScrape, MaxTime} \subseteq Nat
    /\ MaxFlow * MaxTime < Width
    /\ MayFail \subseteq {"read"}
    /\ None \notin [bytes : Nat, at : Nat]

VARIABLES
    clock,
    dirs,           \* the groups that have a mon_data directory
    counter,        \* group -> its counter
    recorded,       \* the groups that targets() returns
    scraping,       \* whether a scrape is going on
    now,            \* when it began
    todo,           \* its targets not yet read
    prevMBM,        \* group -> the previous sample
    rate,           \* group -> its gauge: bytes gained, over a time
    truth           \* group -> the bytes it has moved since it was last read,
                    \* when that was, and whether it has lived on since

groups == <<dirs, counter>>
scrape == <<scraping, now, todo>>
metrics == <<prevMBM, rate>>
vars == <<clock, groups, recorded, scrape, metrics, truth>>

Value == 0 .. Width - 1
Sample == [bytes : Value, at : 0 .. MaxTime]
Rate == [bytes : Value, over : 0 .. MaxTime]

\* A gauge, once set, keeps the sample that the next one is computed from.
TypeOK ==
    /\ {clock, now} \subseteq 0 .. MaxTime
    /\ recorded \subseteq dirs /\ dirs \subseteq Groups
    /\ counter \in [Groups -> Value]
    /\ scraping \in BOOLEAN
    /\ todo \subseteq Groups
    /\ prevMBM \in [Groups -> Sample \cup {None}]
    /\ rate \in [Groups -> Rate \cup {None}]
    /\ \A g \in Groups : rate[g] # None => prevMBM[g] # None
    /\ truth \in [Groups -> [moved : Nat, read : 0 .. MaxTime, alive : BOOLEAN]]

\* The driver starts beside groups that have been counted for long, which it
\* monitors in basic mode and does not know of in structured mode.
Init ==
    /\ clock = 0
    /\ dirs \in SUBSET Groups
    /\ recorded \in {{}, dirs}
    /\ counter \in [Groups -> {0, Width - 1}]
    /\ scraping = FALSE
    /\ now = 0
    /\ todo = {}
    /\ prevMBM = [g \in Groups |-> None]
    /\ rate = [g \in Groups |-> None]
    /\ truth = [g \in Groups |-> [moved |-> 0, read |-> 0, alive |-> TRUE]]

-----------------------------------------------------------------------------
\* The node

Tick ==
    /\ clock < MaxTime
    /\ scraping => clock - now < MaxScrape
    /\ clock' = clock + 1
    /\ \E flow \in [Groups -> 0 .. MaxFlow] :
          /\ \A g \in Groups \ dirs : flow[g] = 0
          /\ counter' = [g \in Groups |-> (counter[g] + flow[g]) % Width]
          /\ truth' = [g \in Groups |-> [truth[g] EXCEPT !.moved = @ + flow[g]]]
    /\ UNCHANGED <<dirs, recorded, scrape, metrics>>

\* NodePrepareResources makes the group, then records it.
MakeGroup(g) ==
    /\ g \notin dirs
    /\ dirs' = dirs \cup {g}
    /\ counter' = [counter EXCEPT ![g] = 0]
    /\ UNCHANGED <<clock, recorded, scrape, metrics, truth>>

Record(g) ==
    /\ g \in dirs
    /\ recorded' = recorded \cup {g}
    /\ UNCHANGED <<clock, groups, scrape, metrics, truth>>

\* NodeUnprepareResources forgets the group, then removes it.
Forget(g) ==
    /\ recorded' = recorded \ {g}
    /\ UNCHANGED <<clock, groups, scrape, metrics, truth>>

RemoveGroup(g) ==
    /\ g \in dirs \ recorded
    /\ dirs' = dirs \ {g}
    /\ truth' = [truth EXCEPT ![g].alive = FALSE]
    /\ UNCHANGED <<clock, counter, recorded, scrape, metrics>>

-----------------------------------------------------------------------------
\* scrape

\* What targets() returns: a copy of the moment.
Targets == recorded

BeginScrape ==
    /\ ~ scraping
    /\ scraping' = TRUE
    /\ now' = clock
    /\ todo' = Targets
    /\ UNCHANGED <<clock, groups, recorded, metrics, truth>>

\* ReadMonData: a directory that is there, and a file that can be read or
\* counts as zero.
Readings(g) == {counter[g]} \cup {0 : f \in MayFail}

\* Variant: no guard against a counter that is lower than it was.
RateUnguarded(prev, sample) ==
    IF prev # None /\ sample.at > prev.at
    THEN [bytes |-> (sample.bytes - prev.bytes) % Width, over |-> sample.at - prev.at]
    ELSE None

\* Variant: scrapes are taken to be one unit of time apart.
RateOverInterval(prev, sample) ==
    IF prev # None /\ sample.at > prev.at /\ sample.bytes >= prev.bytes
    THEN [bytes |-> sample.bytes - prev.bytes, over |-> 1]
    ELSE None

\* What the gauge is set to, or None when it is not.
NewRate(prev, sample) ==
    IF prev # None /\ sample.at > prev.at /\ sample.bytes >= prev.bytes
    THEN [bytes |-> sample.bytes - prev.bytes, over |-> sample.at - prev.at]
    ELSE None

\* Variant: a lower counter is not stored as the next sample's predecessor.
ReadTargetUnlessLower(g) ==
    \E bytes \in Readings(g) :
        LET sample == [bytes |-> bytes, at |-> now]
            new == NewRate(prevMBM[g], sample)
        IN
        /\ g \in todo \cap dirs
        /\ todo' = todo \ {g}
        /\ prevMBM' = IF prevMBM[g] = None \/ bytes >= prevMBM[g].bytes
                      THEN [prevMBM EXCEPT ![g] = sample] ELSE prevMBM
        /\ rate' = IF new = None THEN rate ELSE [rate EXCEPT ![g] = new]
        /\ truth' = [truth EXCEPT ![g] = [moved |-> 0, read |-> clock, alive |-> TRUE]]
        /\ UNCHANGED <<clock, groups, recorded, scraping, now>>

ReadTarget(g) ==
    \E bytes \in Readings(g) :
        LET sample == [bytes |-> bytes, at |-> now]
            new == NewRate(prevMBM[g], sample)
        IN
        /\ g \in todo \cap dirs
        /\ todo' = todo \ {g}
        /\ prevMBM' = [prevMBM EXCEPT ![g] = sample]
        /\ rate' = IF new = None THEN rate ELSE [rate EXCEPT ![g] = new]
        /\ truth' = [truth EXCEPT ![g] = [moved |-> 0, read |-> clock, alive |-> TRUE]]
        /\ UNCHANGED <<clock, groups, recorded, scraping, now>>

\* The group was removed after targets() returned it.
SkipTarget(g) ==
    /\ g \in todo \ dirs
    /\ todo' = todo \ {g}
    /\ UNCHANGED <<clock, groups, recorded, scraping, now, metrics, truth>>

EndScrape ==
    /\ scraping
    /\ todo = {}
    /\ scraping' = FALSE
    /\ UNCHANGED <<clock, groups, recorded, now, todo, metrics, truth>>

-----------------------------------------------------------------------------
Next ==
    \/ Tick
    \/ \E g \in Groups : MakeGroup(g) \/ Record(g) \/ Forget(g) \/ RemoveGroup(g)
    \/ BeginScrape
    \/ \E g \in Groups : ReadTarget(g) \/ SkipTarget(g)
    \/ EndScrape

Spec == Init /\ [][Next]_vars

-----------------------------------------------------------------------------
\* Properties

\* The gauge of g is set to the bytes g has moved since it was last read or,
\* if it is not the same group any more, to no more than that; and over the
\* time between the two readings, but for what a scrape takes.
RateOfFlow(g) ==
    LET r == rate'[g]
        between == clock - truth[g].read
    IN
    /\ r.bytes <= truth[g].moved
    /\ truth[g].alive => r.bytes = truth[g].moved
    /\ r.over > 0
    /\ r.over - between \in - MaxScrape .. MaxScrape

\* A gauge is only ever set to the flow of its group, although its counter may
\* have wrapped and scrapes may have missed it.
RateIsFlow == [][\A g \in Groups : rate'[g] # rate[g] => RateOfFlow(g)]_vars
=============================================================================
