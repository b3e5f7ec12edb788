----------------------- MODULE StructuredSerialProofs -----------------------
(***************************************************************************)
(* Proofs about StructuredDriver when claims are used as the runbook has   *)
(* it: one call for a claim at a time, one cache partition per claim.      *)
(***************************************************************************)
EXTENDS StructuredDriverProofs

\* How claims are used: the kubelet waits for each answer and prepares a claim
\* once, a claim has one of this driver's devices, and a CDI file of its own.

OneDevice ==
    \A r \in Requests : \A i, j \in DOMAIN r :
        (r[i] # OtherDevice /\ r[j] # OtherDevice) => i = j

OwnFiles == \A x, y \in Claims : Prefix[x] = Prefix[y] => x = y

SerialUse == ~ Timeouts /\ ~ KubeletRestarts /\ OneDevice /\ OwnFiles

Working(h) == call[h].pc # "idle"

Preparing(h) == call[h].pc \in PreparePCs \cup {"prepared", "error"}

\* A claim has one call, of the kind that its phase is for.
SerialInv ==
    /\ \A h \in Handlers : Working(h) =>
          call[h].live /\ phase[call[h].claim] = IF Preparing(h) THEN "wanted" ELSE "ending"
    /\ \A k, l \in Handlers :
          (Working(k) /\ Working(l) /\ k # l) => call[k].claim # call[l].claim

\* No device, or at most one, is among the results still to do.
NoneLeft(todo) == \A i \in DOMAIN todo : todo[i] = OtherDevice

AtMostOne(todo) ==
    \A i, j \in DOMAIN todo : (todo[i] # OtherDevice /\ todo[j] # OtherDevice) => i = j

\* The device ID stands for a group of claim c with the ways that the ID names.
Enforced(c, id) ==
    LET g == <<id[1], c>> IN
    /\ id[3] = Prefix[c]
    /\ Resolves(id)
    /\ cdi[id[3]].group = g
    /\ Written(g)
    /\ Contiguous(groups[g])
    /\ Cardinality(groups[g]) = id[2]

MakePCs == {"mkdir", "schemata", "cdi", "store"}

\* What a call has done so far.
CallDone(h) ==
    /\ call[h].pc \in {"loop", "mkdir", "schemata", "cdi", "store"} =>
          IF call[h].ids = <<>> THEN AtMostOne(call[h].todo) ELSE NoneLeft(call[h].todo)
    /\ Preparing(h) /\ call[h].pc \notin {"loop", "prepared"} => call[h].ids = <<>>
    /\ call[h].pc \in MakePCs =>
          Head(call[h].todo) # OtherDevice /\ Contiguous(call[h].alloc.cbm)
    /\ call[h].pc \in {"cdi", "store"} => groups[GroupOf(h)] = call[h].alloc.cbm
    /\ call[h].pc = "store" =>
          cdi[Prefix[call[h].claim]] = [device |-> DeviceIDOf(h), group |-> GroupOf(h)]
    /\ Preparing(h) => \A i \in DOMAIN call[h].ids : Enforced(call[h].claim, call[h].ids[i])
    /\ call[h].pc \in {"delete", "release", "unlink", "unprepared"} =>
          structuredAllocs[call[h].claim] = NoAlloc

CallsInv == \A h \in Handlers : CallDone(h)

\* The entry of a claim is its group's, and was made by the claim's own call.
RecordOf(c) ==
    structuredAllocs[c] # NoAlloc =>
        /\ groups[<<structuredAllocs[c].cacheID, c>>] = structuredAllocs[c].cbm
        /\ \/ phase[c] \in {"prepared", "ending"}
           \/ \E h \in Handlers : Preparing(h) /\ call[h].claim = c /\ call[h].ids # <<>>

\* A container runs while its claim is prepared, in the claim's group if in any.
ClaimKept(c) ==
    /\ RecordOf(c)
    /\ phase[c] # "none" => api[c] # NoRequest
    /\ phase[c] = "prepared" => \A i \in DOMAIN answer[c] : Enforced(c, answer[c][i])
    /\ task[c] # NoTask => phase[c] = "prepared"
    /\ task[c] \in Groups => task[c][2] = c

ClaimsInv == \A c \in Claims : ClaimKept(c)

ServedInv == SerialInv /\ CallsInv /\ ClaimsInv

-----------------------------------------------------------------------------
\* A step of a handler, other than its answer, for the claim of its call.
Serves(h) ==
    /\ Working(h)
    /\ call[h].claim \in Claims
    /\ \A k \in Handlers \ {h} : call'[k] = call[k]
    /\ call'[h].claim = call[h].claim
    /\ call'[h].live = call[h].live
    /\ Working(h)' /\ (Preparing(h)' <=> Preparing(h))
    /\ \A x \in Claims \ {call[h].claim} :
          /\ structuredAllocs'[x] = structuredAllocs[x]
          /\ cdi'[Prefix[x]] = cdi[Prefix[x]]
          /\ \A d \in Domains : groups'[<<d, x>>] = groups[<<d, x>>]
    /\ UNCHANGED <<task, kubelet>>

\* A step for one claim leaves the other claims and their calls alone.
LEMMA OthersKept ==
    ASSUME SerialUse, TypeOK, CallsConsistent, ServedInv, NEW h \in Handlers, Serves(h)
    PROVE  /\ SerialInv'
           /\ \A k \in Handlers \ {h} : CallDone(k)'
           /\ \A x \in Claims \ {call[h].claim} : ClaimKept(x)'
<1> DEFINE c == call[h].claim
<1>1. SerialInv'
  BY DEF Serves, ServedInv, SerialInv, Working, Preparing, kubelet
<1>2. ASSUME NEW k \in Handlers \ {h}
      PROVE  CallDone(k)'
  <2> DEFINE x == call[k].claim
  <2>0. call'[k] = call[k] /\ CallDone(k) /\ CallConsistent(k)
    BY <1>2 DEF Serves, ServedInv, CallsInv, CallsConsistent
  <2>1. CASE ~ Working(k)
    BY <2>0, <2>1 DEF CallDone, Preparing, Working, PreparePCs, MakePCs
  <2>2. CASE Working(k)
    <3>1. x \in Claims \ {c}
      BY <1>2, <2>0, <2>2 DEF Serves, ServedInv, SerialInv, CallConsistent, Working
    <3>2. /\ structuredAllocs'[x] = structuredAllocs[x]
          /\ cdi'[Prefix[x]] = cdi[Prefix[x]]
          /\ \A d \in Domains : groups'[<<d, x>>] = groups[<<d, x>>]
      BY <3>1 DEF Serves
    <3>3. call[k].pc \in {"cdi", "store"} => groups'[GroupOf(k)] = groups[GroupOf(k)]
      <4>1. call[k].pc \in {"cdi", "store"} => call[k].alloc.cacheID \in Domains
        BY GroupOfType DEF HoldPCs, Alloc
      <4> QED
        BY <3>2, <4>1 DEF GroupOf
    <3>4. \A i \in DOMAIN call[k].ids : call[k].ids[i] \in DeviceID
      BY DEF TypeOK, Call
    <3>5. \A i \in DOMAIN call[k].ids :
             Enforced(x, call[k].ids[i]) => Enforced(call[k].claim, call[k].ids[i])'
      BY <2>0, <3>2, <3>4 DEF Enforced, Resolves, Written, Exists, DeviceID
    <3> QED
      BY <2>0, <3>2, <3>3, <3>5 DEF CallDone, Preparing, GroupOf, DeviceIDOf
  <2> QED
    BY <2>1, <2>2
<1>3. ASSUME NEW x \in Claims \ {c}
      PROVE  ClaimKept(x)'
  <2>1. /\ structuredAllocs'[x] = structuredAllocs[x]
        /\ cdi'[Prefix[x]] = cdi[Prefix[x]]
        /\ \A d \in Domains : groups'[<<d, x>>] = groups[<<d, x>>]
        /\ UNCHANGED <<task, phase, answer, api>>
    BY DEF Serves, kubelet
  <2>2. ClaimKept(x)
    BY DEF ServedInv, ClaimsInv
  <2>3. RecordOf(x)'
    <3>1. structuredAllocs[x] # NoAlloc => structuredAllocs[x].cacheID \in Domains
      BY DEF TypeOK, Alloc
    <3>2. \A k \in Handlers : call[k].claim = x => call'[k] = call[k]
      BY DEF Serves
    <3> QED
      BY <2>1, <2>2, <3>1, <3>2 DEF ClaimKept, RecordOf, Preparing
  <2>4. \A i \in DOMAIN answer[x] : answer[x][i] \in DeviceID
    BY DEF TypeOK
  <2>5. \A i \in DOMAIN answer[x] :
           Enforced(x, answer[x][i]) => Enforced(x, answer[x][i])'
    BY <2>1, <2>4 DEF Enforced, Resolves, Written, Exists, DeviceID
  <2> QED
    BY <2>1, <2>2, <2>3, <2>5 DEF ClaimKept
<1> QED
  BY <1>1, <1>2, <1>3

\* The fields of its call that a handler's step changes, and who waits for it.
LEMMA StillAwaited ==
    ASSUME TypeOK, NEW h \in Handlers,
           (\E pc : Goto(h, pc)) \/ (\E pc, alloc : GotoHolding(h, pc, alloc))
    PROVE  call'[h].live = call[h].live
<1>1. call[h] \in Call
  BY DEF TypeOK
<1> QED
  BY <1>1 DEF Goto, GotoHolding, Call, TypeOK

\* Before a result is prepared and after unprepare has taken it, there is no entry.
LEMMA NoEntry ==
    ASSUME TypeOK, CallsConsistent, ServedInv, NEW h \in Handlers,
           Working(h), call[h].pc # "take",
           Preparing(h) => call[h].ids = <<>>
    PROVE  structuredAllocs[call[h].claim] = NoAlloc
<1> DEFINE c == call[h].claim
<1>1. c \in Claims /\ CallDone(h) /\ RecordOf(c)
  BY DEF Working, CallsConsistent, CallConsistent, ServedInv, CallsInv, ClaimsInv, ClaimKept
<1>2. CASE Preparing(h)
  <2>1. \A k \in Handlers : Preparing(k) /\ call[k].claim = c => k = h
    BY DEF ServedInv, SerialInv, Preparing, Working, PreparePCs
  <2>2. phase[c] = "wanted"
    BY <1>2 DEF ServedInv, SerialInv
  <2> QED
    BY <1>1, <1>2, <2>1, <2>2 DEF RecordOf
<1>3. CASE ~ Preparing(h)
  <2>1. call[h].pc \in {"delete", "release", "unlink", "unprepared"}
    BY <1>3 DEF Working, Preparing, PreparePCs, UnpreparePCs, ReplyPCs, TypeOK, Call
  <2> QED
    BY <1>1, <2>1 DEF CallDone
<1> QED
  BY <1>2, <1>3

\* The group a call holds ways for has no container in it.
LEMMA NoTasksYet ==
    ASSUME TypeOK, CallsConsistent, ServedInv, NEW h \in Handlers, call[h].pc \in HoldPCs
    PROVE  TasksIn(GroupOf(h)) = {}
<1> DEFINE c == call[h].claim
<1>1. c \in Claims /\ GroupOf(h) \in Groups /\ Working(h)
  BY GroupOfType DEF HoldPCs, Working
<1>2. phase[c] # "prepared" /\ ClaimKept(c)
  BY <1>1 DEF ServedInv, SerialInv, ClaimsInv
<1>3. ASSUME NEW t \in Tasks, task[t] = GroupOf(h)
      PROVE  FALSE
  <2>1. t \in Claims /\ ClaimKept(t)
    BY <1>3, StructuredAssumption DEF ServedInv, ClaimsInv
  <2>2. c = t
    BY <1>1, <1>3, <2>1 DEF ClaimKept, GroupOf
  <2>3. task[c] # NoTask
    BY <1>1, <1>3, <2>2, ResctrlAssumption
  <2> QED
    BY <1>2, <2>3 DEF ClaimKept
<1> QED
  BY <1>3 DEF TasksIn

\* While the groups and the files stay, a device stands for what it stood for.
LEMMA EnforcedStays ==
    ASSUME UNCHANGED <<groups, cdi>>
    PROVE  \A x, id : Enforced(x, id) => Enforced(x, id)'
BY DEF Enforced, Resolves, Written, Exists

\* And a call that no step touches has done what it had done.
LEMMA CallStays ==
    ASSUME NEW h \in Handlers, CallDone(h), call'[h] = call[h],
           UNCHANGED <<structuredAllocs, groups, cdi>>
    PROVE  CallDone(h)'
<1>1. \A x, id : Enforced(x, id) => Enforced(x, id)'
  BY EnforcedStays
<1>2. GroupOf(h)' = GroupOf(h) /\ DeviceIDOf(h)' = DeviceIDOf(h)
  BY DEF GroupOf, DeviceIDOf
<1> QED
  BY <1>1, <1>2 DEF CallDone, Preparing

\* The entry of a claim that no step touches.
LEMMA RecordStays ==
    ASSUME NEW c \in Claims, RecordOf(c), UNCHANGED <<structuredAllocs, groups>>,
           structuredAllocs[c] # NoAlloc => phase'[c] = phase[c] \/ phase'[c] = "ending",
           \A h \in Handlers : call[h].claim = c => call'[h] = call[h]
    PROVE  RecordOf(c)'
BY DEF RecordOf, Preparing

\* And the claim itself.
LEMMA ClaimStays ==
    ASSUME NEW c \in Claims, ClaimKept(c), RecordOf(c)', UNCHANGED <<groups, cdi>>,
           api'[c] = api[c], phase'[c] = phase[c], answer'[c] = answer[c], task'[c] = task[c]
    PROVE  ClaimKept(c)'
<1>1. \A x, id : Enforced(x, id) => Enforced(x, id)'
  BY EnforcedStays
<1> QED
  BY <1>1 DEF ClaimKept

\* A step of a handler keeps the invariant if it is kept for the handler's claim.
LEMMA OwnKept ==
    ASSUME SerialUse, TypeOK, CallsConsistent, ServedInv, NEW h \in Handlers,
           NEW c \in Claims, call[h].claim = c, Serves(h), CallDone(h)', RecordOf(c)'
    PROVE  ServedInv'
<1>1. ClaimKept(c)'
  <2>1. phase[c] \in {"wanted", "ending"} /\ ClaimKept(c)
    BY DEF Serves, ServedInv, SerialInv, ClaimsInv
  <2> QED
    BY <2>1 DEF ClaimKept, Serves, kubelet
<1> QED
  BY <1>1, OthersKept DEF ServedInv, CallsInv, ClaimsInv

\* A step that changes no entry and no file: at most the group of the call.
LEMMA GroupStep ==
    ASSUME SerialUse, TypeOK, CallsConsistent, ServedInv, NEW h \in Handlers, Working(h),
           call'[h].claim = call[h].claim, call'[h].live = call[h].live,
           call'[h].ids = call[h].ids,
           \A k \in Handlers \ {h} : call'[k] = call[k],
           Working(h)', Preparing(h)' <=> Preparing(h),
           UNCHANGED <<structuredAllocs, task, kubelet>>,
           \A x \in Claims \ {call[h].claim} : cdi'[Prefix[x]] = cdi[Prefix[x]],
           \A g \in Groups : g[2] # call[h].claim => groups'[g] = groups[g],
           structuredAllocs[call[h].claim] # NoAlloc => groups' = groups,
           CallDone(h)'
    PROVE  ServedInv'
<1>1. PICK c \in Claims : call[h].claim = c
  BY DEF Working, CallsConsistent, CallConsistent
<1>2. \A x \in Claims \ {c} : \A d \in Domains : groups'[<<d, x>>] = groups[<<d, x>>]
  BY <1>1, StructuredAssumption
<1>3. Serves(h)
  BY <1>1, <1>2 DEF Serves
<1>4. RecordOf(c)'
  <2>1. RecordOf(c)
    BY <1>1 DEF ServedInv, ClaimsInv, ClaimKept
  <2>2. \A k \in Handlers :
           Preparing(k) /\ call[k].claim = c /\ call[k].ids # <<>>
              => Preparing(k)' /\ call'[k].claim = c /\ call'[k].ids # <<>>
    BY <1>1 DEF Preparing
  <2> QED
    BY <1>1, <2>1, <2>2 DEF RecordOf, kubelet
<1> QED
  BY <1>1, <1>3, <1>4, OwnKept

\* GetClaim: the allocation has at most one of this driver's devices.
LEMMA ServedGet ==
    ASSUME SerialUse, TypeOK, CallsConsistent, ServedInv, NEW h \in Handlers, GetClaim(h)
    PROVE  ServedInv'
<1> USE DEF driver, resctrl
<1>1. Working(h) /\ Preparing(h) /\ call[h].ids = <<>> /\ call[h].claim \in Claims
  BY DEF GetClaim, Working, Preparing, PreparePCs, ServedInv, CallsInv, CallDone,
         CallsConsistent, CallConsistent
<1>2. CASE Goto(h, "error")
  <2>1. call'[h].pc = "error" /\ call'[h].ids = <<>>
    BY <1>1, <1>2, Moved
  <2>2. CallDone(h)'
    BY <2>1 DEF CallDone, MakePCs
  <2> QED
    BY <1>1, <1>2, <2>1, <2>2, Moved, StillAwaited, GroupStep DEF GetClaim, Working, Preparing
<1>3. CASE api[call[h].claim] # NoRequest
           /\ call' = [call EXCEPT ![h].pc = "loop", ![h].todo = api[call[h].claim]]
  <2>1. /\ call'[h].pc = "loop" /\ call'[h].todo = api[call[h].claim]
        /\ call'[h].claim = call[h].claim /\ call'[h].live = call[h].live
        /\ call'[h].ids = call[h].ids
        /\ \A k \in Handlers \ {h} : call'[k] = call[k]
    BY <1>3 DEF TypeOK, Call
  <2>2. AtMostOne(api[call[h].claim])
    BY <1>1, <1>3 DEF SerialUse, OneDevice, AtMostOne, TypeOK
  <2>3. AtMostOne(call[h].todo)'
    BY <2>1, <2>2 DEF AtMostOne
  <2>4. CallDone(h)'
    BY <1>1, <2>1, <2>3 DEF CallDone, MakePCs
  <2> QED
    BY <1>1, <2>1, <2>4, GroupStep DEF GetClaim, Working, Preparing, PreparePCs
<1> QED
  BY <1>2, <1>3 DEF GetClaim

\* A step that only moves a call on, and may touch the group of its claim.
LEMMA MovedKept ==
    ASSUME SerialUse, TypeOK, CallsConsistent, ServedInv, NEW h \in Handlers, NEW pc,
           Goto(h, pc) \/ \E alloc : GotoHolding(h, pc, alloc),
           Working(h), pc # "idle",
           pc \in PreparePCs \cup {"prepared", "error"} <=> Preparing(h),
           UNCHANGED <<structuredAllocs, task, kubelet>>,
           \A x \in Claims \ {call[h].claim} : cdi'[Prefix[x]] = cdi[Prefix[x]],
           groups' = groups \/ \E v : groups' = [groups EXCEPT ![GroupOf(h)] = v],
           groups' = groups \/ structuredAllocs[call[h].claim] = NoAlloc,
           CallDone(h)'
    PROVE  ServedInv'
<1>1. /\ call'[h].pc = pc
      /\ call'[h].claim = call[h].claim /\ call'[h].ids = call[h].ids
      /\ \A k \in Handlers \ {h} : call'[k] = call[k]
  BY Moved, MovedAlloc
<1>2. call'[h].live = call[h].live
  BY StillAwaited
<1>3. Working(h)' /\ (Preparing(h)' <=> Preparing(h))
  BY <1>1 DEF Working, Preparing
<1>4. \A g \in Groups : g[2] # call[h].claim => groups'[g] = groups[g]
  BY DEF GroupOf, TypeOK, ResctrlType
<1> QED
  BY <1>1, <1>2, <1>3, <1>4, GroupStep

\* What is left of the results when the first of them is done.
LEMMA OthersLeft ==
    ASSUME NEW todo \in Seq({OtherDevice} \cup Device), todo # <<>>
    PROVE  /\ Tail(todo) \in Seq({OtherDevice} \cup Device)
           /\ AtMostOne(todo) => AtMostOne(Tail(todo))
           /\ NoneLeft(todo) => NoneLeft(Tail(todo)) /\ Head(todo) = OtherDevice
           /\ AtMostOne(todo) /\ Head(todo) # OtherDevice => NoneLeft(Tail(todo))
<1>1. /\ Tail(todo) \in Seq({OtherDevice} \cup Device)
      /\ Len(todo) \in Nat \ {0} /\ Len(Tail(todo)) = Len(todo) - 1
      /\ DOMAIN todo = 1 .. Len(todo) /\ DOMAIN Tail(todo) = 1 .. Len(todo) - 1
  OBVIOUS
<1>2. /\ 1 \in DOMAIN todo /\ Head(todo) = todo[1]
      /\ \A i \in DOMAIN Tail(todo) :
            i + 1 \in DOMAIN todo /\ i + 1 # 1 /\ Tail(todo)[i] = todo[i + 1]
  BY <1>1
<1>3. \A i, j \in DOMAIN Tail(todo) : i + 1 = j + 1 => i = j
  <2>1. \A i, j \in Nat : i + 1 = j + 1 => i = j
    OBVIOUS
  <2>2. DOMAIN Tail(todo) \subseteq Nat
    BY <1>1
  <2> QED
    BY <2>1, <2>2
<1> QED
  BY <1>1, <1>2, <1>3 DEF AtMostOne, NoneLeft

\* The loop over the results: it goes on, or ends.
LEMMA ServedLoop ==
    ASSUME SerialUse, TypeOK, CallsConsistent, ServedInv, NEW h \in Handlers,
           SkipResult(h) \/ EndLoop(h)
    PROVE  ServedInv'
<1> USE DEF driver, resctrl
<1>1. /\ Working(h) /\ Preparing(h) /\ CallDone(h) /\ call[h] \in Call
      /\ call[h].pc = "loop" /\ call[h].claim \in Claims
  BY DEF SkipResult, EndLoop, Working, Preparing, PreparePCs, ServedInv, CallsInv,
         CallsConsistent, CallConsistent, TypeOK
<1>2. ASSUME call'[h].claim = call[h].claim, call'[h].ids = call[h].ids,
             UNCHANGED <<groups, cdi>>
      PROVE  (\A i \in DOMAIN call[h].ids : Enforced(call[h].claim, call[h].ids[i]))'
  <2>1. \A x, id : Enforced(x, id) => Enforced(x, id)'
    BY <1>2, EnforcedStays
  <2> QED
    BY <1>1, <1>2, <2>1 DEF CallDone
<1>3. CASE SkipResult(h)
  <2>1. /\ call'[h].pc = "loop" /\ call'[h].todo = Tail(call[h].todo)
        /\ call'[h].claim = call[h].claim /\ call'[h].live = call[h].live
        /\ call'[h].ids = call[h].ids
        /\ \A k \in Handlers \ {h} : call'[k] = call[k]
    BY <1>1, <1>3 DEF SkipResult, TypeOK, Call
  <2>2. /\ AtMostOne(call[h].todo) => AtMostOne(Tail(call[h].todo))
        /\ NoneLeft(call[h].todo) => NoneLeft(Tail(call[h].todo))
    BY <1>1, <1>3, OthersLeft DEF SkipResult, Call
  <2>3. /\ AtMostOne(call[h].todo)' <=> AtMostOne(Tail(call[h].todo))
        /\ NoneLeft(call[h].todo)' <=> NoneLeft(Tail(call[h].todo))
    BY <2>1 DEF AtMostOne, NoneLeft
  <2>4. CallDone(h)'
    BY <1>1, <1>2, <1>3, <2>1, <2>2, <2>3 DEF SkipResult, CallDone, MakePCs
  <2> QED
    BY <1>1, <1>3, <2>1, <2>4, GroupStep DEF SkipResult, Working, Preparing, PreparePCs
<1>4. CASE EndLoop(h)
  <2> DEFINE pc == IF call[h].ids = <<>> THEN "error" ELSE "prepared"
  <2>1. Goto(h, pc) /\ UNCHANGED <<structuredAllocs, groups, task, cdi, kubelet>>
    BY <1>4 DEF EndLoop
  <2>2. /\ call'[h].pc = pc /\ call'[h].claim = call[h].claim
        /\ call'[h].ids = call[h].ids
    BY <2>1, Moved
  <2>3. CallDone(h)'
    BY <1>2, <2>1, <2>2 DEF CallDone, MakePCs
  <2> QED
    BY <1>1, <2>1, <2>3, MovedKept DEF PreparePCs
<1> QED
  BY <1>3, <1>4

\* AllocateWays: the first device of the claim, and the only one.
LEMMA ServedAllocate ==
    ASSUME SerialUse, TypeOK, CallsConsistent, ServedInv, NEW h \in Handlers, AllocateWays(h)
    PROVE  ServedInv'
<1> USE DEF driver, resctrl
<1> DEFINE device == Head(call[h].todo)
<1>1. /\ Working(h) /\ Preparing(h) /\ CallDone(h) /\ call[h] \in Call
      /\ call[h].pc = "loop"
  BY DEF AllocateWays, Working, Preparing, PreparePCs, ServedInv, CallsInv, TypeOK
<1>2. call[h].ids = <<>>
  BY <1>1, OthersLeft DEF AllocateWays, CallDone, Call
<1>3. UNCHANGED <<structuredAllocs, groups, task, cdi, kubelet>>
  BY DEF AllocateWays
<1>4. CASE Goto(h, "error")
  <2>1. call'[h].pc = "error" /\ call'[h].ids = <<>>
    BY <1>2, <1>4, Moved
  <2>2. CallDone(h)'
    BY <2>1 DEF CallDone, MakePCs
  <2> QED
    BY <1>1, <1>3, <1>4, <2>2, MovedKept
<1>5. ASSUME NEW cbm \in CBM, Allocate(device.cacheID, device.ways, cbm),
             GotoHolding(h, "mkdir", [cacheID |-> device.cacheID, cbm |-> cbm])
      PROVE  ServedInv'
  <2>1. /\ call'[h].pc = "mkdir" /\ call'[h].ids = <<>> /\ call'[h].todo = call[h].todo
        /\ call'[h].alloc.cbm = cbm
    BY <1>2, <1>5, MovedAlloc
  <2>2. Contiguous(cbm)
    BY <1>5, AllocateFreeRun
  <2>3. AtMostOne(call[h].todo) /\ device # OtherDevice
    BY <1>1, <1>2 DEF AllocateWays, CallDone
  <2>4. AtMostOne(call[h].todo)' /\ Contiguous(call[h].alloc.cbm)'
    BY <2>1, <2>2, <2>3 DEF AtMostOne, Contiguous
  <2>5. CallDone(h)'
    BY <2>1, <2>3, <2>4 DEF CallDone, MakePCs
  <2> QED
    BY <1>1, <1>3, <1>5, <2>5, MovedKept DEF PreparePCs
<1> QED
  BY <1>4, <1>5 DEF AllocateWays

\* CreateGroupDir and WriteGroupSchemata: the group of the call, which is written
\* with the mask that the call has reserved.
LEMMA ServedGroup ==
    ASSUME SerialUse, TypeOK, CallsConsistent, ServedInv, NEW h \in Handlers,
           CreateGroupDir(h) \/ WriteGroupSchemata(h)
    PROVE  ServedInv'
<1> USE DEF driver, resctrl
<1>1. /\ Working(h) /\ Preparing(h) /\ CallDone(h) /\ call[h] \in Call
      /\ call[h].ids = <<>> /\ call[h].pc \in {"mkdir", "schemata"}
  BY DEF CreateGroupDir, WriteGroupSchemata, Working, Preparing, PreparePCs, ServedInv,
         CallsInv, CallDone, TypeOK
<1>2. structuredAllocs[call[h].claim] = NoAlloc
  BY <1>1, NoEntry
<1>3. PICK pc \in {"schemata", "cdi", "free"} :
         Goto(h, pc) /\ (pc = "cdi" => WriteSchemata(GroupOf(h), call[h].alloc.cbm))
  BY DEF CreateGroupDir, WriteGroupSchemata
<1>4. /\ call'[h].pc = pc /\ call'[h].ids = <<>> /\ call'[h].todo = call[h].todo
      /\ call'[h].alloc = call[h].alloc /\ call'[h].claim = call[h].claim
  BY <1>1, <1>3, Moved
<1>5. pc = "cdi" => groups'[GroupOf(h)] = call[h].alloc.cbm
  <2>1. GroupOf(h) \in Groups
    BY <1>1, GroupOfType DEF HoldPCs
  <2> QED
    BY <1>3, <2>1 DEF WriteSchemata, TypeOK, ResctrlType
<1>6. CallDone(h)'
  <2>1. GroupOf(h)' = GroupOf(h)
    BY <1>4 DEF GroupOf
  <2>2. AtMostOne(call[h].todo)' <=> AtMostOne(call[h].todo)
    BY <1>4 DEF AtMostOne
  <2> QED
    BY <1>1, <1>4, <1>5, <2>1, <2>2 DEF CallDone, MakePCs, Contiguous
<1>7. /\ groups' = groups \/ \E v : groups' = [groups EXCEPT ![GroupOf(h)] = v]
      /\ UNCHANGED <<structuredAllocs, task, cdi, kubelet>>
  BY DEF CreateGroupDir, Mkdir, WriteGroupSchemata, WriteSchemata, RemoveIfEmpty
<1> QED
  BY <1>1, <1>2, <1>3, <1>6, <1>7, MovedKept DEF PreparePCs

\* WriteClaimCDISpec: the claim's own file.
LEMMA ServedCDI ==
    ASSUME SerialUse, TypeOK, CallsConsistent, ServedInv, NEW h \in Handlers,
           WriteClaimCDISpec(h)
    PROVE  ServedInv'
<1> USE DEF driver, resctrl
<1>1. /\ Working(h) /\ Preparing(h) /\ CallDone(h) /\ call[h] \in Call
      /\ call[h].ids = <<>> /\ call[h].pc = "cdi" /\ call[h].claim \in Claims
  BY DEF WriteClaimCDISpec, Working, Preparing, PreparePCs, ServedInv, CallsInv, CallDone,
         CallsConsistent, CallConsistent, TypeOK
<1>2. PICK pc \in {"store", "undo"} :
         /\ Goto(h, pc)
         /\ pc = "store" => cdi' = [cdi EXCEPT ![Prefix[call[h].claim]] =
                                       [device |-> DeviceIDOf(h), group |-> GroupOf(h)]]
  BY DEF WriteClaimCDISpec
<1>3. /\ call'[h].pc = pc /\ call'[h].ids = <<>> /\ call'[h].todo = call[h].todo
      /\ call'[h].alloc = call[h].alloc /\ call'[h].claim = call[h].claim
  BY <1>1, <1>2, Moved
<1>4. GroupOf(h)' = GroupOf(h) /\ DeviceIDOf(h)' = DeviceIDOf(h)
  BY <1>3 DEF GroupOf, DeviceIDOf
<1>5. \A x \in Claims \ {call[h].claim} : cdi'[Prefix[x]] = cdi[Prefix[x]]
  <2>1. \A x \in Claims \ {call[h].claim} :
           Prefix[x] \in Files /\ Prefix[x] # Prefix[call[h].claim]
    BY <1>1 DEF SerialUse, OwnFiles, Files
  <2> QED
    BY <2>1 DEF WriteClaimCDISpec, TypeOK
<1>6. pc = "store" =>
         cdi'[Prefix[call[h].claim]] = [device |-> DeviceIDOf(h), group |-> GroupOf(h)]
  BY <1>1, <1>2 DEF Files, TypeOK
<1>7. CallDone(h)'
  <2>1. AtMostOne(call[h].todo)' <=> AtMostOne(call[h].todo)
    BY <1>3 DEF AtMostOne
  <2>2. groups' = groups
    BY DEF WriteClaimCDISpec
  <2> QED
    BY <1>1, <1>3, <1>4, <1>6, <2>1, <2>2 DEF CallDone, MakePCs, Contiguous
<1>8. UNCHANGED <<structuredAllocs, groups, task, kubelet>>
  BY DEF WriteClaimCDISpec
<1> QED
  BY <1>1, <1>2, <1>5, <1>7, <1>8, MovedKept DEF PreparePCs

\* The error paths of prepare: the group is removed, the ways are given up.
LEMMA ServedUndo ==
    ASSUME SerialUse, TypeOK, CallsConsistent, ServedInv, NEW h \in Handlers,
           UndoGroup(h) \/ FreeWaysOnError(h)
    PROVE  ServedInv'
<1> USE DEF driver, resctrl
<1>1. /\ Working(h) /\ Preparing(h) /\ call[h].ids = <<>>
      /\ call[h].pc \in {"undo", "free"}
  BY DEF UndoGroup, FreeWaysOnError, Working, Preparing, PreparePCs, ServedInv, CallsInv,
         CallDone
<1>2. structuredAllocs[call[h].claim] = NoAlloc
  BY <1>1, NoEntry
<1>3. PICK pc \in {"free", "error"} : Goto(h, pc) \/ \E alloc : GotoHolding(h, pc, alloc)
  BY DEF UndoGroup, FreeWaysOnError
<1>4. call'[h].pc = pc /\ call'[h].ids = <<>>
  BY <1>1, <1>3, Moved, MovedAlloc
<1>5. CallDone(h)'
  BY <1>4 DEF CallDone, MakePCs
<1>6. /\ groups' = groups \/ \E v : groups' = [groups EXCEPT ![GroupOf(h)] = v]
      /\ UNCHANGED <<structuredAllocs, task, cdi, kubelet>>
  <2>1. Drained(GroupOf(h)) = task
    BY <1>1, NoTasksYet DEF HoldPCs, TasksIn, Drained, TypeOK, ResctrlType
  <2> QED
    BY <2>1 DEF UndoGroup, DeleteGroup, FreeWaysOnError
<1> QED
  BY <1>1, <1>2, <1>3, <1>5, <1>6, MovedKept DEF PreparePCs

\* StoreAlloc: the claim is recorded, and its device answered, as the kernel has them.
LEMMA ServedStore ==
    ASSUME SerialUse, TypeOK, CallsConsistent, ServedInv, NEW h \in Handlers, StoreAlloc(h)
    PROVE  ServedInv'
<1> DEFINE id == DeviceIDOf(h)
<1>1. /\ Working(h) /\ Preparing(h) /\ CallDone(h) /\ call[h] \in Call
      /\ call[h].pc = "store" /\ call[h].ids = <<>>
      /\ call[h].todo \in Seq({OtherDevice} \cup Device) /\ call[h].todo # <<>>
  BY DEF StoreAlloc, Working, Preparing, PreparePCs, ServedInv, CallsInv, CallDone,
         CallsConsistent, CallConsistent, TypeOK, Call
<1>2. PICK c \in Claims : call[h].claim = c
  BY <1>1 DEF Working, CallsConsistent, CallConsistent
<1>3. /\ call'[h].pc = "loop" /\ call'[h].claim = c /\ call'[h].live = call[h].live
      /\ call'[h].todo = Tail(call[h].todo) /\ call'[h].ids = <<id>>
      /\ \A k \in Handlers \ {h} : call'[k] = call[k]
  <2> HIDE DEF id
  <2>1. call' = [call EXCEPT ![h] =
                    [@ EXCEPT !.pc = "loop", !.todo = Tail(call[h].todo),
                              !.ids = Append(<<>>, id), !.alloc = NoAlloc]]
    BY <1>1 DEF StoreAlloc, id
  <2>2. Append(<<>>, id) = <<id>>
    OBVIOUS
  <2> QED
    BY <1>1, <1>2, <2>1, <2>2 DEF TypeOK, Call
<1>4. /\ structuredAllocs' = [structuredAllocs EXCEPT ![c] = call[h].alloc]
      /\ UNCHANGED <<groups, task, cdi, kubelet>>
  BY <1>2 DEF StoreAlloc, resctrl
<1>5. Serves(h)
  BY <1>1, <1>2, <1>3, <1>4 DEF Serves, Working, Preparing, PreparePCs, TypeOK
<1>6. RecordOf(c)'
  <2>1. structuredAllocs'[c] = call[h].alloc
    BY <1>4 DEF TypeOK
  <2>2. groups'[<<structuredAllocs'[c].cacheID, c>>] = structuredAllocs'[c].cbm
    BY <1>1, <1>2, <1>4, <2>1 DEF CallDone, GroupOf
  <2>3. Preparing(h)' /\ call'[h].claim = c /\ call'[h].ids # <<>>
    BY <1>3 DEF Preparing, PreparePCs
  <2> QED
    BY <2>2, <2>3 DEF RecordOf
<1>7. Enforced(c, id)
  <2>1. /\ GroupOf(h) \in Groups /\ id \in DeviceID /\ call[h].alloc.cbm \in CBM
        /\ GroupOf(h) = <<call[h].alloc.cacheID, c>>
    BY <1>1, <1>2, GroupOfType DEF HoldPCs, Alloc, GroupOf
  <2>2. /\ groups[GroupOf(h)] = call[h].alloc.cbm /\ Contiguous(call[h].alloc.cbm)
        /\ cdi[Prefix[c]] = [device |-> id, group |-> GroupOf(h)]
    BY <1>1, <1>2 DEF CallDone, MakePCs
  <2>3. Written(GroupOf(h))
    BY <2>1, <2>2, ResctrlAssumption, NumWaysAssumption
    DEF Written, Exists, Contiguous, CBM, Ways
  <2>4. cdi[Prefix[c]] # NoSpec
    BY <2>1, <2>2, StructuredAssumption DEF CDISpec
  <2>5. id[1] = call[h].alloc.cacheID /\ id[2] = Cardinality(call[h].alloc.cbm)
          /\ id[3] = Prefix[c]
    BY <1>2 DEF DeviceIDOf
  <2> QED
    BY <2>1, <2>2, <2>3, <2>4, <2>5 DEF Enforced, Resolves
<1>8. CallDone(h)'
  <2>1. NoneLeft(Tail(call[h].todo))
    BY <1>1, OthersLeft DEF CallDone, MakePCs
  <2>2. NoneLeft(call[h].todo)'
    BY <1>3, <2>1 DEF NoneLeft
  <2>3. \A i \in DOMAIN call'[h].ids : call'[h].ids[i] = id
    BY <1>3
  <2>4. (\A i \in DOMAIN call[h].ids : Enforced(call[h].claim, call[h].ids[i]))'
    BY <1>3, <1>4, <1>7, <2>3 DEF Enforced, Resolves, Written, Exists
  <2>5. call'[h].ids # <<>>
    BY <1>3
  <2> QED
    BY <1>3, <2>2, <2>4, <2>5 DEF CallDone, MakePCs
<1> QED
  BY <1>2, <1>5, <1>6, <1>8, OwnKept

\* TakeAlloc: the entry goes.
LEMMA ServedTake ==
    ASSUME SerialUse, TypeOK, CallsConsistent, ServedInv, NEW h \in Handlers, TakeAlloc(h)
    PROVE  ServedInv'
<1>1. Working(h) /\ ~ Preparing(h) /\ call[h].pc = "take"
  BY DEF TakeAlloc, Working, Preparing, PreparePCs
<1>2. PICK c \in Claims : call[h].claim = c
  BY <1>1 DEF Working, CallsConsistent, CallConsistent
<1>3. PICK pc \in {"delete", "unprepared"} : GotoHolding(h, pc, structuredAllocs[c])
  BY <1>2 DEF TakeAlloc
<1>4. /\ call'[h].pc = pc /\ call'[h].claim = c /\ call'[h].live = call[h].live
      /\ \A k \in Handlers \ {h} : call'[k] = call[k]
  BY <1>2, <1>3, MovedAlloc, StillAwaited
<1>5. /\ structuredAllocs' = [structuredAllocs EXCEPT ![c] = NoAlloc]
      /\ UNCHANGED <<groups, task, cdi, kubelet>>
  BY <1>2 DEF TakeAlloc, resctrl
<1>6. structuredAllocs'[c] = NoAlloc
  BY <1>5 DEF TypeOK
<1>7. Serves(h)
  BY <1>1, <1>2, <1>4, <1>5 DEF Serves, Working, Preparing, PreparePCs, TypeOK
<1>8. RecordOf(c)'
  BY <1>6 DEF RecordOf
<1>9. CallDone(h)'
  BY <1>4, <1>6 DEF CallDone, MakePCs, Preparing, PreparePCs
<1> QED
  BY <1>2, <1>7, <1>8, <1>9, OwnKept

\* The rest of unprepare: the group, the ways and the file of the claim go.
LEMMA ServedUnprepare ==
    ASSUME SerialUse, TypeOK, CallsConsistent, ServedInv, NEW h \in Handlers,
           RemoveGroup(h) \/ ReleaseWays(h) \/ RemoveClaimCDISpec(h)
    PROVE  ServedInv'
<1> USE DEF driver, resctrl
<1>1. /\ Working(h) /\ ~ Preparing(h) /\ call[h].claim \in Claims
      /\ call[h].pc \in {"delete", "release", "unlink"}
  BY DEF RemoveGroup, ReleaseWays, RemoveClaimCDISpec, Working, Preparing, PreparePCs,
         CallsConsistent, CallConsistent
<1>2. structuredAllocs[call[h].claim] = NoAlloc
  BY <1>1, NoEntry
<1>3. PICK pc \in {"release", "unlink", "unprepared"} :
         Goto(h, pc) \/ \E alloc : GotoHolding(h, pc, alloc)
  BY DEF RemoveGroup, ReleaseWays, RemoveClaimCDISpec
<1>4. call'[h].pc = pc /\ call'[h].claim = call[h].claim
  BY <1>3, Moved, MovedAlloc
<1>5. /\ groups' = groups \/ \E v : groups' = [groups EXCEPT ![GroupOf(h)] = v]
      /\ UNCHANGED <<structuredAllocs, task, kubelet>>
  <2>1. call[h].pc = "delete" => Drained(GroupOf(h)) = task
    BY NoTasksYet DEF HoldPCs, TasksIn, Drained, TypeOK, ResctrlType
  <2> QED
    BY <2>1 DEF RemoveGroup, DeleteGroup, ReleaseWays, RemoveClaimCDISpec
<1>6. \A x \in Claims \ {call[h].claim} : cdi'[Prefix[x]] = cdi[Prefix[x]]
  <2>1. \A x \in Claims \ {call[h].claim} :
           Prefix[x] \in Files /\ Prefix[x] # Prefix[call[h].claim]
    BY <1>1 DEF SerialUse, OwnFiles, Files
  <2> QED
    BY <2>1 DEF RemoveGroup, ReleaseWays, RemoveClaimCDISpec, TypeOK
<1>7. CallDone(h)'
  BY <1>2, <1>4, <1>5 DEF CallDone, MakePCs, Preparing, PreparePCs
<1> QED
  BY <1>1, <1>2, <1>3, <1>5, <1>6, <1>7, MovedKept DEF PreparePCs

\* A call begins for a claim that has none.
LEMMA ServedCall ==
    ASSUME SerialUse, TypeOK, CallsConsistent, ServedInv, NEW h \in Handlers, NEW c \in Claims,
           CallPrepare(h, c) \/ CallUnprepare(h, c)
    PROVE  ServedInv'
<1> USE DEF driver, resctrl
<1>1. /\ call[h].pc = "idle" /\ UNCHANGED <<structuredAllocs, groups, task, cdi, kubelet>>
      /\ \A k \in Handlers \ {h} : call'[k] = call[k]
  BY DEF CallPrepare, CallUnprepare, TypeOK
<1>2. \A k \in Handlers : Working(k) => call[k].claim # c
  BY DEF CallPrepare, CallUnprepare, Waiting, ServedInv, SerialInv
<1>3. PICK pc \in {"get", "take"} :
         /\ call'[h] = NewCall(pc, c)
         /\ phase[c] = IF pc = "get" THEN "wanted" ELSE "ending"
  BY DEF CallPrepare, CallUnprepare, TypeOK
<1>4. /\ call'[h].pc = pc /\ call'[h].claim = c /\ call'[h].live
      /\ call'[h].ids = <<>>
  BY <1>3 DEF NewCall
<1>5. SerialInv'
  BY <1>1, <1>2, <1>3, <1>4
  DEF ServedInv, SerialInv, Working, Preparing, PreparePCs, kubelet
<1>6. ASSUME NEW k \in Handlers
      PROVE  CallDone(k)'
  <2>1. CASE k = h
    BY <1>4, <2>1 DEF CallDone, MakePCs, PreparePCs, Preparing
  <2>2. CASE k # h
    BY <1>1, <2>2, CallStays DEF ServedInv, CallsInv
  <2> QED
    BY <2>1, <2>2
<1>7. ASSUME NEW x \in Claims
      PROVE  ClaimKept(x)'
  <2>1. ClaimKept(x) /\ RecordOf(x)
    BY DEF ServedInv, ClaimsInv, ClaimKept
  <2>2. \A k \in Handlers : Preparing(k) => call'[k] = call[k]
    BY <1>1 DEF Preparing, PreparePCs
  <2>3. RecordOf(x)'
    BY <1>1, <2>1, <2>2 DEF RecordOf, Preparing, kubelet
  <2> QED
    BY <1>1, <2>1, <2>3, ClaimStays DEF kubelet
<1> QED
  BY <1>5, <1>6, <1>7 DEF ServedInv, CallsInv, ClaimsInv

\* The answer to the kubelet: what was prepared is enforced, what was unprepared
\* has no entry.
LEMMA ServedReply ==
    ASSUME SerialUse, TypeOK, CallsConsistent, ServedInv, NEW h \in Handlers, Reply(h)
    PROVE  ServedInv'
<1> USE DEF driver, resctrl
<1>1. PICK c \in Claims : call[h].claim = c
  BY DEF Reply, ReplyPCs, CallsConsistent, CallConsistent
<1>2. /\ Working(h) /\ CallDone(h) /\ ClaimKept(c)
      /\ call[h].pc \in ReplyPCs /\ call[h].live
      /\ phase[c] = IF Preparing(h) THEN "wanted" ELSE "ending"
  BY <1>1 DEF Reply, ReplyPCs, Working, ServedInv, SerialInv, CallsInv, ClaimsInv
<1>3. /\ call'[h] = IdleCall /\ \A k \in Handlers \ {h} : call'[k] = call[k]
      /\ UNCHANGED <<structuredAllocs, groups, task, cdi, api>>
      /\ \A x \in Claims \ {c} : phase'[x] = phase[x] /\ answer'[x] = answer[x]
  BY <1>1 DEF Reply, TypeOK
<1>4. /\ call'[h].pc = "idle"
      /\ \A k \in Handlers \ {h} : Working(k) => call[k].claim \in Claims \ {c}
  BY <1>1, <1>2, <1>3
  DEF IdleCall, ServedInv, SerialInv, CallsConsistent, CallConsistent, Working
<1>5. SerialInv'
  BY <1>3, <1>4 DEF ServedInv, SerialInv, Working, Preparing
<1>6. ASSUME NEW k \in Handlers
      PROVE  CallDone(k)'
  <2>1. CASE k = h
    BY <1>4, <2>1 DEF CallDone, MakePCs, PreparePCs, Preparing
  <2>2. CASE k # h
    BY <1>3, <2>2, CallStays DEF ServedInv, CallsInv
  <2> QED
    BY <2>1, <2>2
<1>7. ASSUME NEW x \in Claims \ {c}
      PROVE  ClaimKept(x)'
  <2>1. ClaimKept(x) /\ RecordOf(x)
    BY DEF ServedInv, ClaimsInv, ClaimKept
  <2>2. RecordOf(x)'
    BY <1>1, <1>3, <2>1, RecordStays
  <2> QED
    BY <1>3, <2>1, <2>2, ClaimStays
<1>8. ClaimKept(c)'
  <2>1. task[c] = NoTask
    BY <1>2 DEF ClaimKept
  <2>2. CASE call[h].pc = "prepared"
    <3>1. phase'[c] = "prepared" /\ answer'[c] = call[h].ids
      BY <1>1, <1>2, <2>2 DEF Reply, TypeOK
    <3>2. (\A i \in DOMAIN answer[c] : Enforced(c, answer[c][i]))'
      <4>1. \A i \in DOMAIN call[h].ids : Enforced(c, call[h].ids[i])
        BY <1>1, <1>2, <2>2 DEF CallDone, Preparing
      <4>2. \A x, id : Enforced(x, id) => Enforced(x, id)'
        BY <1>3, EnforcedStays
      <4> QED
        BY <3>1, <4>1, <4>2
    <3> QED
      BY <1>2, <1>3, <2>1, <3>1, <3>2 DEF ClaimKept, RecordOf
  <2>3. CASE call[h].pc # "prepared"
    <3>1. structuredAllocs[c] = NoAlloc
      BY <1>1, <1>2, <2>3, NoEntry DEF CallDone, ReplyPCs, Preparing, PreparePCs
    <3>2. phase'[c] \in {phase[c], "none"}
      BY <1>1, <1>2, <2>3 DEF Reply, TypeOK
    <3> QED
      BY <1>2, <1>3, <2>1, <3>1, <3>2, ResctrlAssumption DEF ClaimKept, RecordOf
  <2> QED
    BY <2>2, <2>3
<1> QED
  BY <1>5, <1>6, <1>7, <1>8 DEF ServedInv, CallsInv, ClaimsInv

\* The scheduler, the kubelet and the runtime, between the calls.
LEMMA ServedOutside ==
    ASSUME SerialUse, TypeOK, CallsConsistent, ServedInv, NEW c \in Claims,
           \/ Schedule(c) \/ Deallocate(c) \/ PodGone(c) \/ KubeletRestart(c)
           \/ StartContainer(c) \/ ExitContainer(c)
    PROVE  ServedInv'
<1> USE DEF driver, resctrl, kubelet
<1>1. /\ UNCHANGED <<structuredAllocs, call, groups, cdi>>
      /\ \A x \in Claims \ {c} :
            /\ api'[x] = api[x] /\ phase'[x] = phase[x]
            /\ answer'[x] = answer[x] /\ task'[x] = task[x]
  BY StructuredAssumption
  DEF Schedule, Deallocate, PodGone, KubeletRestart, StartContainer, ExitContainer,
      AssignPID, TypeOK, ResctrlType
<1>2. ClaimKept(c) /\ ~ KubeletRestart(c)
  BY DEF ServedInv, ClaimsInv, SerialUse, KubeletRestart
\* The phase changes only when no call for the claim is in progress.
<1>3. phase'[c] # phase[c] => \A k \in Handlers : Working(k) => call[k].claim # c
  <2>1. (\E k \in Handlers : Working(k) /\ call[k].claim = c) =>
           phase[c] \in {"wanted", "ending"} /\ Waiting(c)
    BY DEF ServedInv, SerialInv, Waiting
  <2>2. CASE Schedule(c)
    BY <1>2, <2>1, <2>2 DEF Schedule, ClaimKept
  <2>3. CASE PodGone(c)
    BY <2>1, <2>3 DEF PodGone
  <2>4. CASE ~ Schedule(c) /\ ~ PodGone(c)
    BY <1>2, <2>4 DEF Deallocate, StartContainer, ExitContainer
  <2> QED
    BY <2>2, <2>3, <2>4
<1>4. SerialInv'
  BY <1>1, <1>3 DEF ServedInv, SerialInv, Working, Preparing, CallsConsistent, CallConsistent
<1>5. ASSUME NEW k \in Handlers
      PROVE  CallDone(k)'
  BY <1>1, CallStays DEF ServedInv, CallsInv
<1>6. ASSUME NEW x \in Claims \ {c}
      PROVE  ClaimKept(x)'
  <2>1. ClaimKept(x) /\ RecordOf(x)
    BY DEF ServedInv, ClaimsInv, ClaimKept
  <2> QED
    BY <1>1, <2>1, RecordStays, ClaimStays
<1>7. RecordOf(c)'
  <2>1. structuredAllocs[c] # NoAlloc => phase'[c] = phase[c] \/ phase'[c] = "ending"
    <3>1. CASE Schedule(c)
      <4>1. phase[c] = "none" /\ \A k \in Handlers : Preparing(k) => call[k].claim # c
        BY <1>2, <3>1 DEF Schedule, ClaimKept, ServedInv, SerialInv, Working, Preparing, PreparePCs
      <4> QED
        BY <1>2, <4>1 DEF ClaimKept, RecordOf
    <3>2. CASE ~ Schedule(c)
      BY <1>2, <3>2 DEF Deallocate, PodGone, StartContainer, ExitContainer, TypeOK
    <3> QED
      BY <3>1, <3>2
  <2> QED
    BY <1>1, <1>2, <2>1, RecordStays DEF ClaimKept
<1>8. ClaimKept(c)'
  <2>1. CASE Schedule(c) \/ Deallocate(c)
    BY <1>2, <1>7, <2>1, StructuredAssumption DEF Schedule, Deallocate, ClaimKept, TypeOK
  <2>2. CASE PodGone(c)
    BY <1>2, <1>7, <2>2, ResctrlAssumption DEF PodGone, ClaimKept, TypeOK
  <2>0. \A x, id : Enforced(x, id) => Enforced(x, id)'
    BY <1>1, EnforcedStays
  <2>3. CASE ExitContainer(c)
    BY <1>2, <1>7, <2>0, <2>3, ResctrlAssumption, StructuredAssumption
    DEF ExitContainer, ClaimKept, TypeOK, ResctrlType
  <2>4. CASE StartContainer(c)
    <3> DEFINE n == Len(answer[c])
    <3>1. answer[c] # <<>> /\ answer[c] \in Seq(DeviceID) /\ phase[c] = "prepared"
      BY <2>4 DEF StartContainer, CallsConsistent, TypeOK
    <3>2. n \in DOMAIN answer[c]
      BY <3>1
    <3>3. cdi[answer[c][n][3]].group[2] = c
      <4>1. Enforced(c, answer[c][n])
        BY <1>2, <3>1, <3>2 DEF ClaimKept
      <4> QED
        BY <4>1 DEF Enforced
    <3>4. task'[c] = cdi[answer[c][n][3]].group
      BY <2>4, StructuredAssumption DEF StartContainer, AssignPID, TypeOK, ResctrlType
    <3> QED
      BY <1>2, <1>7, <2>0, <2>4, <3>1, <3>3, <3>4 DEF StartContainer, ClaimKept
  <2> QED
    BY <1>2, <2>1, <2>2, <2>3, <2>4
<1> QED
  BY <1>4, <1>5, <1>6, <1>8 DEF ServedInv, CallsInv, ClaimsInv

\* A crash ends every call and forgets every entry; the restart changes neither.
LEMMA ServedCrash ==
    ASSUME SerialUse, TypeOK, CallsConsistent, ServedInv, Crash \/ Restart
    PROVE  ServedInv'
<1> USE DEF driver, resctrl, kubelet
<1>1. \A h \in Handlers : call'[h].pc = "idle"
  BY DEF Crash, Restart, IdleCall, CallsConsistent, CallConsistent
<1>2. /\ UNCHANGED <<groups, task, cdi, kubelet>>
      /\ structuredAllocs' = [c \in Claims |-> NoAlloc]
  BY DEF Crash, Restart, TypeOK, CallsConsistent
<1>3. SerialInv' /\ CallsInv'
  BY <1>1 DEF SerialInv, CallsInv, CallDone, Working, Preparing, PreparePCs, MakePCs
<1>4. ASSUME NEW c \in Claims
      PROVE  ClaimKept(c)'
  <2>1. ClaimKept(c)
    BY DEF ServedInv, ClaimsInv
  <2>2. RecordOf(c)'
    BY <1>2 DEF RecordOf
  <2> QED
    BY <1>2, <2>1, <2>2, ClaimStays
<1> QED
  BY <1>3, <1>4 DEF ServedInv, ClaimsInv

\* Each step of the driver, the kubelet, the runtime or a crash keeps the invariant.
LEMMA ServedStep ==
    ASSUME SerialUse, TypeOK, CallsConsistent, ServedInv, [Next]_vars
    PROVE  ServedInv'
<1>1. ASSUME NEW h \in Handlers, HandlerStep(h)
      PROVE  ServedInv'
  BY <1>1, ServedGet, ServedLoop, ServedAllocate, ServedGroup, ServedCDI, ServedUndo,
     ServedStore, ServedTake, ServedUnprepare, ServedReply DEF HandlerStep
<1>2. ASSUME NEW h \in Handlers, Timeout(h)
      PROVE  ServedInv'
  BY <1>2 DEF Timeout, SerialUse
<1>3. CASE UNCHANGED vars
  <2>1. SerialInv'
    BY <1>3 DEF vars, kubelet, ServedInv, SerialInv, Working, Preparing
  <2>2. ASSUME NEW h \in Handlers
        PROVE  CallDone(h)'
    BY <1>3, CallStays DEF vars, driver, resctrl, ServedInv, CallsInv
  <2>3. ASSUME NEW c \in Claims
        PROVE  ClaimKept(c)'
    <3>1. ClaimKept(c) /\ RecordOf(c)
      BY DEF ServedInv, ClaimsInv, ClaimKept
    <3>2. UNCHANGED <<structuredAllocs, call, groups, cdi, task, api, phase, answer>>
      BY <1>3 DEF vars, driver, resctrl, kubelet
    <3> QED
      BY <3>1, <3>2, RecordStays, ClaimStays
  <2> QED
    BY <2>1, <2>2, <2>3 DEF ServedInv, CallsInv, ClaimsInv
<1> QED
  BY <1>1, <1>2, <1>3, ServedCall, ServedOutside, ServedCrash DEF Next

\* At first there is no call, no entry and no container.
LEMMA InitServed == Init => ServedInv
<1> SUFFICES ASSUME Init PROVE ServedInv
  OBVIOUS
<1>1. SerialInv /\ CallsInv
  BY DEF Init, IdleCall, SerialInv, CallsInv, CallDone, Working, Preparing, PreparePCs, MakePCs
<1>2. \A c \in Claims : task[c] = NoTask
  BY StructuredAssumption DEF Init
<1> QED
  BY <1>1, <1>2, ResctrlAssumption DEF Init, ServedInv, ClaimsInv, ClaimKept, RecordOf

\* The invariant, for any faults of the system calls and crashes at any point.
THEOREM ServedInvariant == SerialUse => (Spec => [](CallsConsistent /\ ServedInv))
<1> SUFFICES ASSUME SerialUse PROVE Spec => [](CallsConsistent /\ ServedInv)
  OBVIOUS
<1>1. Init => TypeOK /\ CallsConsistent /\ ServedInv
  BY InitType, InitCalls, InitServed
<1>2. TypeOK /\ CallsConsistent /\ ServedInv /\ [Next]_vars
         => (TypeOK /\ CallsConsistent /\ ServedInv)'
  BY TypeStep, CallsStep, ServedStep
<1> QED
  BY <1>1, <1>2, PTL DEF Spec

\* A prepared claim has what it asked for, crashes and failed calls included: its
\* device resolves to its own group, written with as many ways as the device says.
THEOREM PreparedEnforcedHolds == SerialUse => (Spec => []PreparedEnforced)
<1> SUFFICES ASSUME SerialUse PROVE Spec => []PreparedEnforced
  OBVIOUS
<1>1. ServedInv => PreparedEnforced
  <2>1. \A c \in Claims : \A id :
           Enforced(c, id) =>
              LET g == cdi[id[3]].group IN
              /\ Resolves(id)
              /\ g = <<id[1], c>>
              /\ Written(g)
              /\ Contiguous(groups[g])
              /\ Cardinality(groups[g]) = id[2]
    BY DEF Enforced
  <2> QED
    BY <2>1 DEF ServedInv, ClaimsInv, ClaimKept, PreparedEnforced
<1> QED
  BY <1>1, ServedInvariant, PTL

\* What unprepare will remove and release is what the kernel has.
THEOREM RecordMatchesKernelHolds == SerialUse => (Spec => []RecordMatchesKernel)
<1> SUFFICES ASSUME SerialUse PROVE Spec => []RecordMatchesKernel
  OBVIOUS
<1>1. ServedInv => RecordMatchesKernel
  BY DEF ServedInv, ClaimsInv, ClaimKept, RecordOf, RecordMatchesKernel
<1> QED
  BY <1>1, ServedInvariant, PTL

\* No step moves a running container or rewrites the mask of its group.
LEMMA UndisturbedStep ==
    ASSUME TypeOK, CallsConsistent, ServedInv, [Next]_vars,
           NEW c \in Claims, task[c] \in Groups, task'[c] # NoTask
    PROVE  task'[c] = task[c] /\ groups'[task[c]] = groups[task[c]]
<1> USE DEF driver, resctrl
<1>1. ASSUME NEW h \in Handlers,
             CreateGroupDir(h) \/ WriteGroupSchemata(h) \/ UndoGroup(h) \/ RemoveGroup(h)
      PROVE  task'[c] = task[c] /\ groups'[task[c]] = groups[task[c]]
  <2>1. TasksIn(GroupOf(h)) = {}
    BY <1>1, NoTasksYet
    DEF CreateGroupDir, WriteGroupSchemata, UndoGroup, RemoveGroup, HoldPCs
  <2>2. task[c] # GroupOf(h)
    BY <2>1, StructuredAssumption DEF TasksIn
  <2>3. groups' = groups \/ \E v : groups' = [groups EXCEPT ![GroupOf(h)] = v]
    BY <1>1
    DEF CreateGroupDir, Mkdir, WriteGroupSchemata, WriteSchemata, RemoveIfEmpty,
        UndoGroup, RemoveGroup, DeleteGroup
  <2>4. task' = task \/ task' = Drained(GroupOf(h))
    BY <1>1 DEF CreateGroupDir, WriteGroupSchemata, UndoGroup, RemoveGroup, DeleteGroup
  <2> QED
    BY <2>2, <2>3, <2>4, StructuredAssumption DEF Drained, TypeOK, ResctrlType
<1>2. ASSUME NEW x \in Claims, StartContainer(x) \/ ExitContainer(x)
      PROVE  task'[c] = task[c] /\ groups' = groups
  <2>1. CASE c = x
    BY <1>2, <2>1, ResctrlAssumption, StructuredAssumption
    DEF StartContainer, ExitContainer, TypeOK, ResctrlType
  <2>2. CASE c # x
    BY <1>2, <2>2, StructuredAssumption
    DEF StartContainer, AssignPID, ExitContainer, TypeOK, ResctrlType
  <2> QED
    BY <1>2, <2>1, <2>2 DEF StartContainer, ExitContainer
<1> QED
  BY <1>1, <1>2
  DEF Next, HandlerStep, vars, GetClaim, SkipResult, AllocateWays, EndLoop, WriteClaimCDISpec,
      FreeWaysOnError, StoreAlloc, TakeAlloc, ReleaseWays, RemoveClaimCDISpec, Reply, Timeout,
      CallPrepare, CallUnprepare, Schedule, Deallocate, PodGone, KubeletRestart, Crash, Restart

\* Nothing the driver does, a crash included, disturbs a running container.
THEOREM RunningUndisturbedHolds == SerialUse => (Spec => RunningUndisturbed)
<1> SUFFICES ASSUME SerialUse PROVE Spec => RunningUndisturbed
  OBVIOUS
<1> DEFINE Undisturbed ==
              \A c \in Claims :
                 (task[c] \in Groups /\ task'[c] # NoTask) =>
                     /\ task'[c] = task[c]
                     /\ groups'[task[c]] = groups[task[c]]
<1>1. TypeOK /\ CallsConsistent /\ ServedInv /\ [Next]_vars => [Undisturbed]_vars
  BY UndisturbedStep
<1>2. RunningUndisturbed <=> [][Undisturbed]_vars
  BY DEF RunningUndisturbed
<1> QED
  BY <1>1, <1>2, ServedInvariant, TypeCorrect, PTL DEF Spec

-----------------------------------------------------------------------------
\* Without a crash: every way in use, and every group, is somebody's.

Owns(o, d, w) ==
    AllocOf(o) # NoAlloc /\ AllocOf(o).cacheID = d /\ w \in AllocOf(o).cbm

\* The ways in use are those of the owners, and no way has two owners.
WaysOwned ==
    /\ \A d \in Domains, w \in Ways :
          w \in allocated[d] <=> \E o \in Handlers \cup Claims : Owns(o, d, w)
    /\ \A d \in Domains, w \in Ways, o, p \in Handlers \cup Claims :
          (Owns(o, d, w) /\ Owns(p, d, w)) => o = p

\* Between the mkdir and the end of DeleteGroup.
MadePCs == {"schemata", "cdi", "store", "undo", "delete"}

\* A group has a call that is making or removing it, or an entry.
GroupsOwed ==
    \A c \in Claims, d \in Domains : Exists(<<d, c>>) =>
        \/ structuredAllocs[c] # NoAlloc /\ structuredAllocs[c].cacheID = d
        \/ \E h \in Handlers :
              /\ call[h].claim = c
              /\ call[h].pc \in MadePCs
              /\ call[h].alloc.cacheID = d

\* Nothing is owned or given up: the calls and the entries keep what they have.
LEMMA OwnedStays ==
    ASSUME WaysOwned, UNCHANGED allocated,
           \A o \in Handlers \cup Claims : AllocOf(o)' = AllocOf(o)
    PROVE  WaysOwned'
BY DEF WaysOwned, Owns

\* AllocateWays: the ways of the new owner were nobody's.
LEMMA OwnedReserved ==
    ASSUME TypeOK, WaysOwned, NEW h \in Handlers, NEW d \in Domains, NEW cbm \in CBM,
           cbm \cap allocated[d] = {},
           allocated' = [allocated EXCEPT ![d] = @ \cup cbm],
           AllocOf(h) = NoAlloc, AllocOf(h)' = [cacheID |-> d, cbm |-> cbm],
           \A o \in (Handlers \cup Claims) \ {h} : AllocOf(o)' = AllocOf(o)
    PROVE  WaysOwned'
<1>1. [cacheID |-> d, cbm |-> cbm] # NoAlloc
  BY StructuredAssumption DEF Alloc
<1>2. \A e \in Domains : \A w : Owns(h, e, w)' <=> e = d /\ w \in cbm
  BY <1>1 DEF Owns
<1>3. \A e, w : ~ Owns(h, e, w)
  BY DEF Owns
<1>4. \A o \in (Handlers \cup Claims) \ {h} : \A e, w : Owns(o, e, w)' <=> Owns(o, e, w)
  BY DEF Owns
<1>5. \A e \in Domains : \A w : w \in allocated'[e] <=> w \in allocated[e] \/ (e = d /\ w \in cbm)
  BY DEF TypeOK, WayAllocatorType
<1>6. \A w : w \in cbm => w \notin allocated[d]
  OBVIOUS
<1>7. \A e \in Domains, w \in Ways :
         w \in allocated'[e] <=> \E o \in Handlers \cup Claims : Owns(o, e, w)'
  BY <1>2, <1>3, <1>4, <1>5 DEF WaysOwned
<1>8. \A e \in Domains, w \in Ways, o, p \in Handlers \cup Claims :
         (Owns(o, e, w)' /\ Owns(p, e, w)') => o = p
  BY <1>2, <1>4, <1>6 DEF WaysOwned
<1> QED
  BY <1>7, <1>8 DEF WaysOwned

\* The Release of an error path or of unprepare: the ways were nobody else's.
LEMMA OwnedReleased ==
    ASSUME TypeOK, WaysOwned, NEW h \in Handlers, AllocOf(h) \in Alloc,
           Release(AllocOf(h).cacheID, AllocOf(h).cbm), AllocOf(h)' = NoAlloc,
           \A o \in (Handlers \cup Claims) \ {h} : AllocOf(o)' = AllocOf(o)
    PROVE  WaysOwned'
<1>1. PICK d \in Domains, cbm \in CBM : AllocOf(h).cacheID = d /\ AllocOf(h).cbm = cbm
  BY DEF Alloc
<1>2. AllocOf(h) # NoAlloc
  BY StructuredAssumption
<1>3. \A e, w : Owns(h, e, w) <=> e = d /\ w \in cbm
  BY <1>1, <1>2 DEF Owns
<1>4. \A e, w : ~ Owns(h, e, w)'
  BY DEF Owns
<1>5. \A o \in (Handlers \cup Claims) \ {h} : \A e, w : Owns(o, e, w)' <=> Owns(o, e, w)
  BY DEF Owns
<1>6. \A e \in Domains : \A w : w \in allocated'[e] <=> w \in allocated[e] /\ ~ (e = d /\ w \in cbm)
  BY <1>1 DEF Release, TypeOK, WayAllocatorType
<1>7. \A e \in Domains, w \in Ways :
         w \in allocated'[e] <=> \E o \in Handlers \cup Claims : Owns(o, e, w)'
  BY <1>3, <1>4, <1>5, <1>6 DEF WaysOwned
<1>8. \A e \in Domains, w \in Ways, o, p \in Handlers \cup Claims :
         (Owns(o, e, w)' /\ Owns(p, e, w)') => o = p
  BY <1>4, <1>5 DEF WaysOwned
<1> QED
  BY <1>7, <1>8 DEF WaysOwned

\* The map takes the ways over from a call, or a call from the map.
LEMMA OwnedPassed ==
    ASSUME WaysOwned, UNCHANGED allocated,
           NEW p \in Handlers \cup Claims, NEW q \in Handlers \cup Claims, p # q,
           AllocOf(q) = NoAlloc, AllocOf(q)' = AllocOf(p), AllocOf(p)' = NoAlloc,
           \A o \in (Handlers \cup Claims) \ {p, q} : AllocOf(o)' = AllocOf(o)
    PROVE  WaysOwned'
<1>1. \A e, w : /\ Owns(q, e, w)' <=> Owns(p, e, w)
                /\ ~ Owns(q, e, w) /\ ~ Owns(p, e, w)'
  BY DEF Owns
<1>2. \A o \in (Handlers \cup Claims) \ {p, q} : \A e, w : Owns(o, e, w)' <=> Owns(o, e, w)
  BY DEF Owns
<1> QED
  BY <1>1, <1>2 DEF WaysOwned

\* Each step of a driver that does not crash keeps the ways owned.
LEMMA OwnedStep ==
    ASSUME SerialUse, TypeOK, CallsConsistent, ServedInv, WaysOwned, [Next]_vars,
           ~ Crash, ~ Restart
    PROVE  WaysOwned'
<1> USE DEF driver
\* A step that leaves what its handler holds, and the map.
<1>1. ASSUME NEW h \in Handlers, call'[h].alloc = call[h].alloc,
             \A k \in Handlers \ {h} : call'[k] = call[k],
             UNCHANGED <<allocated, structuredAllocs>>
      PROVE  WaysOwned'
  BY <1>1, OwnedStays DEF AllocOf
<1>2. ASSUME NEW h \in Handlers,
             \/ CreateGroupDir(h) \/ WriteGroupSchemata(h) \/ WriteClaimCDISpec(h)
             \/ UndoGroup(h) \/ RemoveGroup(h) \/ RemoveClaimCDISpec(h) \/ EndLoop(h)
      PROVE  WaysOwned'
  <2>1. PICK pc : Goto(h, pc)
    BY <1>2
    DEF CreateGroupDir, WriteGroupSchemata, WriteClaimCDISpec, UndoGroup, RemoveGroup,
        RemoveClaimCDISpec, EndLoop
  <2>2. UNCHANGED <<allocated, structuredAllocs>>
    BY <1>2
    DEF CreateGroupDir, WriteGroupSchemata, WriteClaimCDISpec, UndoGroup, RemoveGroup,
        RemoveClaimCDISpec, EndLoop
  <2> QED
    BY <1>1, <2>1, <2>2, Moved
<1>3. ASSUME NEW h \in Handlers, GetClaim(h) \/ SkipResult(h)
      PROVE  WaysOwned'
  <2>1. call'[h].alloc = call[h].alloc /\ \A k \in Handlers \ {h} : call'[k] = call[k]
    <3>1. CASE GetClaim(h) /\ Goto(h, "error")
      BY <3>1, Moved
    <3>2. CASE GetClaim(h) /\ ~ Goto(h, "error")
      BY <3>2 DEF GetClaim, TypeOK, Call
    <3>3. CASE SkipResult(h)
      BY <3>3 DEF SkipResult, TypeOK, Call
    <3> QED
      BY <1>3, <3>1, <3>2, <3>3
  <2> QED
    BY <1>1, <1>3, <2>1 DEF GetClaim, SkipResult
<1>4. ASSUME NEW h \in Handlers, AllocateWays(h)
      PROVE  WaysOwned'
  <2> DEFINE device == Head(call[h].todo)
  <2>1. device \in Device /\ AllocOf(h) = NoAlloc
    <3>1. device \in Device
      BY <1>4 DEF AllocateWays, Call, TypeOK
    <3>2. call[h].alloc = NoAlloc
      BY <1>4 DEF AllocateWays, CallsConsistent, CallConsistent, HoldPCs
    <3> QED
      BY <3>1, <3>2 DEF AllocOf
  <2>2. CASE Goto(h, "error") /\ UNCHANGED allocated
    BY <1>1, <1>4, <2>2, Moved DEF AllocateWays
  <2>3. ASSUME NEW cbm \in CBM, Allocate(device.cacheID, device.ways, cbm),
               GotoHolding(h, "mkdir", [cacheID |-> device.cacheID, cbm |-> cbm])
        PROVE  WaysOwned'
    <3>1. PICK d \in Domains : d = device.cacheID
      BY <2>1 DEF Device
    <3>2. /\ cbm \cap allocated[d] = {}
          /\ allocated' = [allocated EXCEPT ![d] = @ \cup cbm]
      BY <2>3, <3>1, AllocateFreeRun DEF Allocate
    <3>3. /\ call'[h].alloc = [cacheID |-> d, cbm |-> cbm]
          /\ \A k \in Handlers \ {h} : call'[k] = call[k]
      BY <2>3, <3>1, MovedAlloc
    <3>4. /\ AllocOf(h)' = [cacheID |-> d, cbm |-> cbm]
          /\ \A o \in (Handlers \cup Claims) \ {h} : AllocOf(o)' = AllocOf(o)
      BY <1>4, <3>3 DEF AllocOf, AllocateWays
    <3> QED
      BY <2>1, <3>2, <3>4, OwnedReserved
  <2> QED
    BY <1>4, <2>2, <2>3 DEF AllocateWays
<1>5. ASSUME NEW h \in Handlers, FreeWaysOnError(h) \/ ReleaseWays(h)
      PROVE  WaysOwned'
  <2>1. AllocOf(h) = call[h].alloc /\ AllocOf(h) \in Alloc
    BY <1>5, GroupOfType DEF FreeWaysOnError, ReleaseWays, HoldPCs, AllocOf
  <2>2. PICK pc : GotoHolding(h, pc, NoAlloc)
    BY <1>5 DEF FreeWaysOnError, ReleaseWays
  <2>3. /\ AllocOf(h)' = NoAlloc
        /\ \A o \in (Handlers \cup Claims) \ {h} : AllocOf(o)' = AllocOf(o)
    BY <1>5, <2>2, MovedAlloc DEF AllocOf, FreeWaysOnError, ReleaseWays
  <2> QED
    BY <1>5, <2>1, <2>3, OwnedReleased DEF FreeWaysOnError, ReleaseWays
\* The entry that StoreAlloc overwrites is none: nothing is lost.
<1>6. ASSUME NEW h \in Handlers, StoreAlloc(h)
      PROVE  WaysOwned'
  <2>1. Working(h) /\ Preparing(h) /\ call[h].ids = <<>>
    BY <1>6 DEF StoreAlloc, Working, Preparing, PreparePCs, ServedInv, CallsInv, CallDone
  <2>2. PICK c \in Claims : call[h].claim = c
    BY <2>1 DEF Working, CallsConsistent, CallConsistent
  <2>3. structuredAllocs[c] = NoAlloc
    BY <1>6, <2>1, <2>2, NoEntry DEF StoreAlloc
  <2>4. /\ structuredAllocs'[c] = call[h].alloc
        /\ \A x \in Claims \ {c} : structuredAllocs'[x] = structuredAllocs[x]
    BY <1>6, <2>2 DEF StoreAlloc, TypeOK
  <2>5. call'[h].alloc = NoAlloc /\ \A k \in Handlers \ {h} : call'[k] = call[k]
    BY <1>6 DEF StoreAlloc, TypeOK, Call
  <2>6. /\ AllocOf(c) = NoAlloc /\ AllocOf(c)' = AllocOf(h) /\ AllocOf(h)' = NoAlloc
        /\ \A o \in (Handlers \cup Claims) \ {h, c} : AllocOf(o)' = AllocOf(o)
        /\ h # c
    BY <2>3, <2>4, <2>5, StructuredAssumption DEF AllocOf
  <2> QED
    BY <1>6, <2>6, OwnedPassed DEF StoreAlloc
<1>7. ASSUME NEW h \in Handlers, TakeAlloc(h)
      PROVE  WaysOwned'
  <2>1. PICK c \in Claims : call[h].claim = c
    BY <1>7 DEF TakeAlloc, CallsConsistent, CallConsistent
  <2>2. AllocOf(h) = NoAlloc
    BY <1>7 DEF TakeAlloc, AllocOf, CallsConsistent, CallConsistent, HoldPCs
  <2>3. /\ structuredAllocs'[c] = NoAlloc
        /\ \A x \in Claims \ {c} : structuredAllocs'[x] = structuredAllocs[x]
    BY <1>7, <2>1 DEF TakeAlloc, TypeOK
  <2>4. PICK pc : GotoHolding(h, pc, structuredAllocs[c])
    BY <1>7, <2>1 DEF TakeAlloc
  <2>5. /\ call'[h].alloc = structuredAllocs[c]
        /\ \A k \in Handlers \ {h} : call'[k] = call[k]
    BY <2>4, MovedAlloc
  <2>6. /\ AllocOf(h)' = AllocOf(c) /\ AllocOf(c)' = NoAlloc
        /\ \A o \in (Handlers \cup Claims) \ {h, c} : AllocOf(o)' = AllocOf(o)
        /\ h # c
    BY <2>3, <2>5, StructuredAssumption DEF AllocOf
  <2> QED
    BY <1>7, <2>2, <2>6, OwnedPassed DEF TakeAlloc
<1>8. ASSUME NEW h \in Handlers,
             Reply(h) \/ \E c \in Claims : CallPrepare(h, c) \/ CallUnprepare(h, c)
      PROVE  WaysOwned'
  <2>1. call[h].alloc = NoAlloc
    BY <1>8
    DEF Reply, ReplyPCs, CallPrepare, CallUnprepare, HoldPCs, CallsConsistent, CallConsistent
  <2>2. call'[h].alloc = NoAlloc /\ \A k \in Handlers \ {h} : call'[k] = call[k]
    BY <1>8 DEF Reply, CallPrepare, CallUnprepare, IdleCall, NewCall, TypeOK
  <2> QED
    BY <1>1, <1>8, <2>1, <2>2 DEF Reply, CallPrepare, CallUnprepare
<1>9. CASE UNCHANGED <<allocated, structuredAllocs, call>>
  BY <1>9, OwnedStays DEF AllocOf
<1> QED
  BY <1>2, <1>3, <1>4, <1>5, <1>6, <1>7, <1>8, <1>9
  DEF Next, HandlerStep, vars, SerialUse, Timeout, Schedule, Deallocate, PodGone,
      KubeletRestart, StartContainer, ExitContainer

\* At first no way is in use and nobody has any.
LEMMA InitOwned == Init => WaysOwned /\ GroupsOwed
BY StructuredAssumption
DEF Init, NewWayAllocator, IdleCall, WaysOwned, Owns, AllocOf, GroupsOwed, Exists

\* A removed group leaves nothing to answer for: its call may go on.
LEMMA OwedRemoved ==
    ASSUME TypeOK, GroupsOwed, NEW h \in Handlers, GroupOf(h) \in Groups,
           groups' = [groups EXCEPT ![GroupOf(h)] = NoGroup],
           \A k \in Handlers \ {h} : call'[k] = call[k],
           UNCHANGED structuredAllocs
    PROVE  GroupsOwed'
<1> SUFFICES ASSUME NEW c \in Claims, NEW d \in Domains, Exists(<<d, c>>)'
             PROVE  \/ structuredAllocs[c] # NoAlloc /\ structuredAllocs[c].cacheID = d
                    \/ \E k \in Handlers \ {h} :
                          /\ call[k].claim = c /\ call[k].pc \in MadePCs
                          /\ call[k].alloc.cacheID = d
  BY DEF GroupsOwed
<1>1. <<d, c>> # GroupOf(h) /\ Exists(<<d, c>>)
  BY StructuredAssumption DEF Exists, TypeOK, ResctrlType
<1> QED
  BY <1>1 DEF GroupsOwed, GroupOf

\* Each step of a driver that does not crash keeps the groups owed, when the
\* removal of a group does not fail.
LEMMA OwedStep ==
    ASSUME "delete" \notin MayFail, SerialUse, TypeOK, CallsConsistent, ServedInv, GroupsOwed,
           [Next]_vars, ~ Crash, ~ Restart
    PROVE  GroupsOwed'
<1> USE DEF driver, resctrl
\* A step that makes no group and takes nothing from what a group is owed to.
<1>1. ASSUME \A c \in Claims, d \in Domains : Exists(<<d, c>>)' => Exists(<<d, c>>),
             \A k \in Handlers : call[k].pc \in MadePCs =>
                /\ call'[k].pc \in MadePCs
                /\ call'[k].claim = call[k].claim /\ call'[k].alloc = call[k].alloc,
             UNCHANGED structuredAllocs
      PROVE  GroupsOwed'
  BY <1>1 DEF GroupsOwed
<1>2. ASSUME NEW h \in Handlers, call[h].pc \notin MadePCs, UNCHANGED <<groups, structuredAllocs>>,
             \A k \in Handlers \ {h} : call'[k] = call[k]
      PROVE  GroupsOwed'
  BY <1>1, <1>2 DEF Exists
<1>3. ASSUME NEW h \in Handlers,
             \/ GetClaim(h) \/ SkipResult(h) \/ EndLoop(h) \/ AllocateWays(h)
             \/ FreeWaysOnError(h) \/ ReleaseWays(h) \/ RemoveClaimCDISpec(h) \/ Reply(h)
             \/ \E c \in Claims : CallPrepare(h, c) \/ CallUnprepare(h, c)
      PROVE  GroupsOwed'
  <2>1. call[h].pc \notin MadePCs /\ UNCHANGED <<groups, structuredAllocs>>
    BY <1>3
    DEF GetClaim, SkipResult, EndLoop, AllocateWays, FreeWaysOnError, ReleaseWays,
        RemoveClaimCDISpec, Reply, ReplyPCs, CallPrepare, CallUnprepare, MadePCs
  <2>2. \A k \in Handlers \ {h} : call'[k] = call[k]
    BY <1>3
    DEF GetClaim, SkipResult, EndLoop, AllocateWays, FreeWaysOnError, ReleaseWays,
        RemoveClaimCDISpec, Reply, CallPrepare, CallUnprepare, Goto, GotoHolding, TypeOK
  <2> QED
    BY <1>2, <2>1, <2>2
<1>4. ASSUME NEW h \in Handlers, CreateGroupDir(h)
      PROVE  GroupsOwed'
  <2>1. GroupOf(h) \in Groups
    BY <1>4, GroupOfType DEF CreateGroupDir, HoldPCs
  <2>2. CASE Goto(h, "free") /\ UNCHANGED groups
    BY <1>2, <1>4, <2>2, Moved DEF CreateGroupDir, MadePCs
  <2>3. CASE Goto(h, "schemata") /\ Mkdir(GroupOf(h))
    <3>1. /\ call'[h].pc \in MadePCs /\ call'[h].claim = call[h].claim
          /\ call'[h].alloc = call[h].alloc
          /\ \A k \in Handlers \ {h} : call'[k] = call[k]
          /\ structuredAllocs' = structuredAllocs
      BY <1>4, <2>3, Moved DEF CreateGroupDir, MadePCs
    <3>2. ASSUME NEW c \in Claims, NEW d \in Domains, Exists(<<d, c>>)'
          PROVE  Exists(<<d, c>>) \/ (call[h].claim = c /\ call[h].alloc.cacheID = d)
      BY <2>1, <2>3, <3>2, StructuredAssumption
      DEF Mkdir, Exists, GroupOf, TypeOK, ResctrlType
    <3>3. call[h].pc \notin MadePCs
      BY <1>4 DEF CreateGroupDir, MadePCs
    <3> QED
      BY <3>1, <3>2, <3>3 DEF GroupsOwed
  <2> QED
    BY <1>4, <2>2, <2>3 DEF CreateGroupDir
<1>5. ASSUME NEW h \in Handlers, WriteGroupSchemata(h)
      PROVE  GroupsOwed'
  <2>1. GroupOf(h) \in Groups /\ TasksIn(GroupOf(h)) = {}
    BY <1>5, GroupOfType, NoTasksYet DEF WriteGroupSchemata, HoldPCs
  <2>2. CASE /\ Goto(h, "cdi") /\ CanWriteSchemata(GroupOf(h), call[h].alloc.cbm)
             /\ WriteSchemata(GroupOf(h), call[h].alloc.cbm)
    <3>1. \A c \in Claims, d \in Domains : Exists(<<d, c>>)' => Exists(<<d, c>>)
      BY <2>1, <2>2, StructuredAssumption
      DEF CanWriteSchemata, WriteSchemata, Exists, TypeOK, ResctrlType
    <3> QED
      BY <1>1, <1>5, <2>2, <3>1, Moved DEF WriteGroupSchemata, MadePCs
  <2>3. CASE Goto(h, "free") /\ RemoveIfEmpty(GroupOf(h))
    BY <1>5, <2>1, <2>3, Moved, OwedRemoved DEF RemoveIfEmpty, WriteGroupSchemata
  <2> QED
    BY <1>5, <2>2, <2>3 DEF WriteGroupSchemata
<1>6. ASSUME NEW h \in Handlers, WriteClaimCDISpec(h)
      PROVE  GroupsOwed'
  <2>1. PICK pc \in MadePCs : Goto(h, pc)
    BY <1>6 DEF WriteClaimCDISpec, MadePCs
  <2> QED
    BY <1>1, <1>6, <2>1, Moved DEF WriteClaimCDISpec, Exists
<1>7. ASSUME NEW h \in Handlers, UndoGroup(h) \/ RemoveGroup(h)
      PROVE  GroupsOwed'
  <2>1. GroupOf(h) \in Groups
    BY <1>7, GroupOfType DEF UndoGroup, RemoveGroup, HoldPCs
  <2>2. PICK pc : Goto(h, pc)
    BY <1>7 DEF UndoGroup, RemoveGroup
  <2> QED
    BY <1>7, <2>1, <2>2, Moved, OwedRemoved DEF UndoGroup, RemoveGroup, DeleteGroup
<1>8. ASSUME NEW h \in Handlers, StoreAlloc(h)
      PROVE  GroupsOwed'
  <2>1. Working(h) /\ Preparing(h) /\ call[h].ids = <<>> /\ call[h].alloc # NoAlloc
    BY <1>8
    DEF StoreAlloc, Working, Preparing, PreparePCs, ServedInv, CallsInv, CallDone,
        CallsConsistent, CallConsistent, HoldPCs
  <2>2. PICK c \in Claims : call[h].claim = c
    BY <2>1 DEF Working, CallsConsistent, CallConsistent
  <2>3. structuredAllocs[c] = NoAlloc
    BY <1>8, <2>1, <2>2, NoEntry DEF StoreAlloc
  <2>4. /\ structuredAllocs'[c] = call[h].alloc
        /\ \A x \in Claims \ {c} : structuredAllocs'[x] = structuredAllocs[x]
        /\ \A k \in Handlers \ {h} : call'[k] = call[k]
        /\ UNCHANGED groups
    BY <1>8, <2>2 DEF StoreAlloc, TypeOK
  <2>5. \A k \in Handlers : call[k].claim = c /\ call[k].pc \in MadePCs => k = h
    BY <2>1, <2>2 DEF ServedInv, SerialInv, Working, MadePCs
  <2> QED
    BY <2>1, <2>2, <2>3, <2>4, <2>5 DEF GroupsOwed, Exists
<1>9. ASSUME NEW h \in Handlers, TakeAlloc(h)
      PROVE  GroupsOwed'
  <2>1. PICK c \in Claims : call[h].claim = c
    BY <1>9 DEF TakeAlloc, CallsConsistent, CallConsistent
  <2>2. /\ \A x \in Claims \ {c} : structuredAllocs'[x] = structuredAllocs[x]
        /\ UNCHANGED groups
    BY <1>9, <2>1 DEF TakeAlloc, TypeOK
  <2>3. PICK pc : /\ GotoHolding(h, pc, structuredAllocs[c])
                  /\ structuredAllocs[c] # NoAlloc => pc = "delete"
    BY <1>9, <2>1 DEF TakeAlloc
  <2>4. /\ call'[h].pc = pc /\ call'[h].claim = c /\ call'[h].alloc = structuredAllocs[c]
        /\ \A k \in Handlers \ {h} : call'[k] = call[k]
    BY <2>1, <2>3, MovedAlloc
  <2>5. call[h].pc \notin MadePCs
    BY <1>9 DEF TakeAlloc, MadePCs
  <2> QED
    BY <2>2, <2>3, <2>4, <2>5 DEF GroupsOwed, Exists, MadePCs
<1>10. CASE UNCHANGED <<groups, structuredAllocs, call>>
  BY <1>1, <1>10 DEF Exists
<1> QED
  BY <1>3, <1>4, <1>5, <1>6, <1>7, <1>8, <1>9, <1>10
  DEF Next, HandlerStep, vars, SerialUse, Timeout, Schedule, Deallocate, PodGone,
      KubeletRestart, StartContainer, ExitContainer

\* With no crash allowed, the driver is up and neither crashes nor restarts.
LEMMA UpStep ==
    ASSUME MaxCrashes = 0, TypeOK, up, [Next]_vars
    PROVE  up' /\ ~ Crash /\ ~ Restart
<1>1. ~ Crash /\ ~ Restart
  BY DEF Crash, Restart, TypeOK
<1> QED
  BY <1>1
  DEF Next, HandlerStep, vars, GetClaim, SkipResult, AllocateWays, EndLoop, CreateGroupDir,
      WriteGroupSchemata, WriteClaimCDISpec, UndoGroup, FreeWaysOnError, StoreAlloc, TakeAlloc,
      RemoveGroup, ReleaseWays, RemoveClaimCDISpec, Reply, Timeout, CallPrepare, CallUnprepare,
      Schedule, Deallocate, PodGone, KubeletRestart, StartContainer, ExitContainer

\* Every way in use will be released by someone, whatever calls fail.
THEOREM NoLeakHolds == (SerialUse /\ MaxCrashes = 0) => (Spec => []NoLeak)
<1> SUFFICES ASSUME SerialUse, MaxCrashes = 0 PROVE Spec => []NoLeak
  OBVIOUS
<1> DEFINE Kept == up /\ WaysOwned
<1>1. Init => Kept
  BY InitOwned DEF Init
<1>2. TypeOK /\ CallsConsistent /\ ServedInv /\ Kept /\ [Next]_vars => Kept'
  BY UpStep, OwnedStep
<1>3. TypeOK /\ Kept => NoLeak
  <2> SUFFICES ASSUME TypeOK, Kept, NEW d \in Domains
               PROVE  allocated[d] =
                         UNION {AllocOf(o).cbm : o \in {x \in Owners : AllocOf(x).cacheID = d}}
    BY DEF NoLeak
  <2>1. \A o \in Owners : AllocOf(o).cbm \subseteq Ways
    BY OwnerType DEF Alloc, CBM
  <2>2. allocated[d] \subseteq Ways
    BY DEF TypeOK, WayAllocatorType, CBM
  <2>3. \A w : w \in allocated[d] <=>
                  \E o \in Owners : AllocOf(o).cacheID = d /\ w \in AllocOf(o).cbm
    BY <2>1, <2>2 DEF WaysOwned, Owns, Owners
  <2> QED
    BY <2>3
<1> QED
  BY <1>1, <1>2, <1>3, ServedInvariant, TypeCorrect, PTL DEF Spec

\* A claim that is unprepared, with no call for it, has no entry and no group.
THEOREM UnpreparedHasNothingHolds ==
    (SerialUse /\ MaxCrashes = 0 /\ "delete" \notin MayFail)
        => (Spec => []UnpreparedHasNothing)
<1> SUFFICES ASSUME SerialUse, MaxCrashes = 0, "delete" \notin MayFail
             PROVE  Spec => []UnpreparedHasNothing
  OBVIOUS
<1> DEFINE Kept == up /\ GroupsOwed
<1>1. Init => Kept
  BY InitOwned DEF Init
<1>2. TypeOK /\ CallsConsistent /\ ServedInv /\ Kept /\ [Next]_vars => Kept'
  BY UpStep, OwedStep
<1>3. ServedInv /\ Kept => UnpreparedHasNothing
  <2> SUFFICES ASSUME ServedInv, Kept, NEW c \in Claims,
                      phase[c] = "none", \A h \in Handlers : call[h].claim # c
               PROVE  /\ structuredAllocs[c] = NoAlloc
                      /\ \A d \in Domains : groups[<<d, c>>] = NoGroup
    BY DEF UnpreparedHasNothing
  <2>1. structuredAllocs[c] = NoAlloc
    BY DEF ServedInv, ClaimsInv, ClaimKept, RecordOf
  <2> QED
    BY <2>1 DEF GroupsOwed, Exists
<1> QED
  BY <1>1, <1>2, <1>3, ServedInvariant, TypeCorrect, PTL DEF Spec

-----------------------------------------------------------------------------
\* The counters cover what is reserved: every mask was asked for by a result of
\* its claim's allocation, and no result stands behind two masks.

Asked(c, a) ==
    /\ Contiguous(a.cbm)
    /\ \E i \in DOMAIN api[c] :
          api[c][i] = [cacheID |-> a.cacheID, ways |-> Cardinality(a.cbm)]

OwnersAsked == \A o \in Owners : Asked(ClaimOf(o), AllocOf(o))

\* What a prepare has still to do are results of the claim's allocation.
TodoAsked ==
    \A h \in Handlers : Preparing(h) =>
        \A j \in DOMAIN call[h].todo :
           \E i \in DOMAIN api[call[h].claim] : api[call[h].claim][i] = call[h].todo[j]

\* A step that gives nobody new ways, and no claim with ways a new allocation.
LEMMA OwnersStayAsked ==
    ASSUME OwnersAsked,
           \A o \in Handlers \cup Claims : AllocOf(o)' # NoAlloc =>
              \E p \in Handlers \cup Claims :
                 /\ AllocOf(p) = AllocOf(o)' /\ ClaimOf(p) = ClaimOf(o)'
                 /\ api'[ClaimOf(p)] = api[ClaimOf(p)]
    PROVE  OwnersAsked'
<1> SUFFICES ASSUME NEW o \in Handlers \cup Claims, AllocOf(o)' # NoAlloc
             PROVE  Asked(ClaimOf(o), AllocOf(o))'
  BY DEF OwnersAsked, Owners
<1>1. PICK p \in Handlers \cup Claims :
         /\ AllocOf(p) = AllocOf(o)' /\ ClaimOf(p) = ClaimOf(o)'
         /\ api'[ClaimOf(p)] = api[ClaimOf(p)]
  OBVIOUS
<1>2. Asked(ClaimOf(p), AllocOf(p))
  BY <1>1 DEF OwnersAsked, Owners
<1> QED
  BY <1>1, <1>2 DEF Asked

\* A step after which each prepare has what it had to do, less the first result,
\* or all that the claim has been allocated.
LEMMA TodoStaysAsked ==
    ASSUME TypeOK, TodoAsked,
           \A h \in Handlers : Preparing(h)' =>
              \/ call'[h].todo = <<>>
              \/ call'[h].todo = api'[call'[h].claim]
              \/ /\ Preparing(h)
                 /\ call'[h].claim = call[h].claim
                 /\ api'[call[h].claim] = api[call[h].claim]
                 /\ \/ call'[h].todo = call[h].todo
                    \/ call[h].todo # <<>> /\ call'[h].todo = Tail(call[h].todo)
    PROVE  TodoAsked'
<1> SUFFICES ASSUME NEW h \in Handlers, Preparing(h)', NEW j \in DOMAIN call'[h].todo
             PROVE  \E i \in DOMAIN api'[call'[h].claim] :
                       api'[call'[h].claim][i] = call'[h].todo[j]
  BY DEF TodoAsked
<1>1. CASE call'[h].todo = <<>> \/ call'[h].todo = api'[call'[h].claim]
  BY <1>1
<1>2. ASSUME Preparing(h), call'[h].claim = call[h].claim,
             api'[call[h].claim] = api[call[h].claim],
             \E k \in DOMAIN call[h].todo : call'[h].todo[j] = call[h].todo[k]
      PROVE  \E i \in DOMAIN api'[call'[h].claim] :
                api'[call'[h].claim][i] = call'[h].todo[j]
  BY <1>2 DEF TodoAsked
<1>3. ASSUME call[h].todo # <<>>, call'[h].todo = Tail(call[h].todo)
      PROVE  \E k \in DOMAIN call[h].todo : call'[h].todo[j] = call[h].todo[k]
  <2>1. call[h].todo \in Seq({OtherDevice} \cup Device)
    BY DEF TypeOK, Call
  <2>2. j + 1 \in DOMAIN call[h].todo /\ call'[h].todo[j] = call[h].todo[j + 1]
    BY <1>3, <2>1
  <2> QED
    BY <2>2
<1> QED
  BY <1>1, <1>2, <1>3

\* A claim that the kubelet is done with has no call and no entry.
LEMMA NoneServed ==
    ASSUME CallsConsistent, ServedInv, NEW c \in Claims, phase[c] = "none"
    PROVE  /\ structuredAllocs[c] = NoAlloc
           /\ \A h \in Handlers : Working(h) => call[h].claim # c
<1>1. \A h \in Handlers : Working(h) => call[h].claim # c
  BY DEF ServedInv, SerialInv
<1>2. RecordOf(c)
  BY DEF ServedInv, ClaimsInv, ClaimKept
<1> QED
  BY <1>1, <1>2 DEF RecordOf, Preparing, Working, PreparePCs

\* Allocate answers as many ways as it is asked for.
LEMMA AllocateCount ==
    ASSUME NEW d, NEW ways, NEW cbm, Allocate(d, ways, cbm)
    PROVE  Cardinality(cbm) = ways
<1>1. PICK start \in Ways : cbm = start .. start + ways - 1
  BY DEF Allocate, buildWayMask
<1>2. ways \in 1 .. NumWays
  BY DEF Allocate, CanAllocate
<1>3. start \in Int /\ start + ways - 1 \in Int /\ start <= start + ways - 1
  BY <1>2, NumWaysAssumption DEF Ways
<1>4. \A m, n \in Int : m <= n => Cardinality(m .. n) = n - m + 1
  BY FS_Interval
<1> QED
  BY <1>1, <1>2, <1>3, <1>4

\* The ways that a call comes to hold are as many as a result of its claim has.
LEMMA AskedAllocate ==
    ASSUME TypeOK, CallsConsistent, OwnersAsked, TodoAsked, NEW h \in Handlers, AllocateWays(h)
    PROVE  OwnersAsked'
<1> DEFINE device == Head(call[h].todo)
           c == call[h].claim
<1>1. /\ device \in Device /\ device = call[h].todo[1] /\ 1 \in DOMAIN call[h].todo
      /\ Preparing(h) /\ UNCHANGED <<structuredAllocs, api>>
  BY DEF AllocateWays, TypeOK, Call, Preparing, PreparePCs, kubelet
<1>2. CASE Goto(h, "error")
  <2>1. \A o \in Handlers \cup Claims : AllocOf(o)' = AllocOf(o) /\ ClaimOf(o)' = ClaimOf(o)
    BY <1>1, <1>2, Moved DEF AllocOf, ClaimOf
  <2> QED
    BY <1>1, <2>1, OwnersStayAsked
<1>3. ASSUME NEW cbm \in CBM, Allocate(device.cacheID, device.ways, cbm),
             GotoHolding(h, "mkdir", [cacheID |-> device.cacheID, cbm |-> cbm])
      PROVE  OwnersAsked'
  <2> DEFINE a == [cacheID |-> device.cacheID, cbm |-> cbm]
  <2>1. Contiguous(cbm) /\ Cardinality(cbm) = device.ways
    BY <1>3, AllocateFreeRun, AllocateCount
  <2>2. PICK i \in DOMAIN api[c] : api[c][i] = device
    BY <1>1 DEF TodoAsked
  <2>3. Asked(c, a)
    BY <1>1, <2>1, <2>2 DEF Asked, Device
  <2>4. /\ call'[h].alloc = a /\ call'[h].claim = c
        /\ \A k \in Handlers \ {h} : call'[k] = call[k]
    BY <1>3, MovedAlloc
  <2>5. \A o \in (Handlers \cup Claims) \ {h} :
           AllocOf(o)' = AllocOf(o) /\ ClaimOf(o)' = ClaimOf(o)
    BY <1>1, <2>4 DEF AllocOf, ClaimOf
  <2>6. ASSUME NEW o \in (Handlers \cup Claims) \ {h}, AllocOf(o) # NoAlloc
        PROVE  Asked(ClaimOf(o), AllocOf(o))'
    <3>1. Asked(ClaimOf(o), AllocOf(o))
      BY <2>6 DEF OwnersAsked, Owners
    <3> QED
      BY <1>1, <2>5, <3>1 DEF Asked
  <2>7. AllocOf(h)' = a /\ ClaimOf(h)' = c
    BY <2>4 DEF AllocOf, ClaimOf
  <2>8. Asked(ClaimOf(h), AllocOf(h))'
    BY <1>1, <2>3, <2>7 DEF Asked
  <2> QED
    BY <2>5, <2>6, <2>8 DEF OwnersAsked, Owners
<1> QED
  BY <1>1, <1>2, <1>3 DEF AllocateWays

\* Each step keeps every mask asked for.
LEMMA AskedStep ==
    ASSUME TypeOK, CallsConsistent, ServedInv, OwnersAsked, TodoAsked, [Next]_vars
    PROVE  OwnersAsked' /\ TodoAsked'
<1> USE DEF driver, kubelet
\* What the calls hold and have to do, and the map, stay; api only loses or gains
\* the allocation of a claim that the kubelet is done with.
<1>1. ASSUME UNCHANGED structuredAllocs,
             \A h \in Handlers : Working(h)' =>
                /\ Working(h) /\ (Preparing(h)' <=> Preparing(h))
                /\ call'[h].claim = call[h].claim /\ call'[h].todo = call[h].todo,
             \A h \in Handlers :
                \/ call'[h].alloc = call[h].alloc /\ call'[h].claim = call[h].claim
                \/ call'[h].alloc = NoAlloc,
             \A c \in Claims : phase[c] # "none" => api'[c] = api[c]
      PROVE  OwnersAsked' /\ TodoAsked'
  <2>1. ASSUME NEW o \in Handlers \cup Claims, AllocOf(o)' # NoAlloc
        PROVE  /\ AllocOf(o) = AllocOf(o)' /\ ClaimOf(o) = ClaimOf(o)'
               /\ api'[ClaimOf(o)] = api[ClaimOf(o)]
    <3>1. AllocOf(o) = AllocOf(o)' /\ ClaimOf(o) = ClaimOf(o)'
      BY <1>1, <2>1 DEF AllocOf, ClaimOf
    <3>2. ClaimOf(o) \in Claims /\ phase[ClaimOf(o)] # "none"
      <4>1. CASE o \in Handlers
        BY <2>1, <3>1, <4>1
        DEF AllocOf, ClaimOf, CallsConsistent, CallConsistent, HoldPCs, ServedInv, SerialInv,
            Working
      <4>2. CASE o \notin Handlers
        BY <2>1, <3>1, <4>2, NoneServed DEF AllocOf, ClaimOf
      <4> QED
        BY <4>1, <4>2
    <3> QED
      BY <1>1, <3>1, <3>2
  <2>2. ASSUME NEW h \in Handlers, Preparing(h)'
        PROVE  /\ Preparing(h)
               /\ call'[h].claim = call[h].claim /\ call'[h].todo = call[h].todo
               /\ api'[call[h].claim] = api[call[h].claim]
    <3>1. Working(h)'
      BY <2>2 DEF Preparing, Working, PreparePCs
    <3>2. call[h].claim \in Claims /\ phase[call[h].claim] # "none"
      BY <1>1, <3>1 DEF Working, CallsConsistent, CallConsistent, ServedInv, SerialInv
    <3> QED
      BY <1>1, <2>2, <3>1, <3>2
  <2> QED
    BY <2>1, <2>2, OwnersStayAsked, TodoStaysAsked
\* A call that only moves on, or gives up its ways.
<1>2. ASSUME NEW h \in Handlers, NEW pc, Working(h),
             Goto(h, pc) \/ GotoHolding(h, pc, NoAlloc),
             Preparing(h)' <=> Preparing(h),
             UNCHANGED <<structuredAllocs, api>>
      PROVE  OwnersAsked' /\ TodoAsked'
  <2>1. /\ call'[h].claim = call[h].claim /\ call'[h].todo = call[h].todo
        /\ call'[h].alloc \in {call[h].alloc, NoAlloc}
        /\ \A k \in Handlers \ {h} : call'[k] = call[k]
    BY <1>2, Moved, MovedAlloc
  <2> QED
    BY <1>1, <1>2, <2>1 DEF Working, Preparing
<1>3. ASSUME NEW h \in Handlers,
             \/ (GetClaim(h) /\ Goto(h, "error")) \/ EndLoop(h) \/ CreateGroupDir(h)
             \/ WriteGroupSchemata(h) \/ WriteClaimCDISpec(h) \/ UndoGroup(h)
             \/ FreeWaysOnError(h) \/ RemoveGroup(h) \/ ReleaseWays(h) \/ RemoveClaimCDISpec(h)
      PROVE  OwnersAsked' /\ TodoAsked'
  <2>1. PICK pc : /\ Goto(h, pc) \/ GotoHolding(h, pc, NoAlloc)
                  /\ pc \in PreparePCs \cup {"prepared", "error"} <=> Preparing(h)
    BY <1>3
    DEF GetClaim, EndLoop, CreateGroupDir, WriteGroupSchemata, WriteClaimCDISpec, UndoGroup,
        FreeWaysOnError, RemoveGroup, ReleaseWays, RemoveClaimCDISpec, Preparing, PreparePCs
  <2>2. Working(h) /\ UNCHANGED <<structuredAllocs, api>>
    BY <1>3
    DEF GetClaim, EndLoop, CreateGroupDir, WriteGroupSchemata, WriteClaimCDISpec, UndoGroup,
        FreeWaysOnError, RemoveGroup, ReleaseWays, RemoveClaimCDISpec, Working
  <2>3. call'[h].pc = pc
    BY <2>1, Moved, MovedAlloc
  <2> QED
    BY <1>2, <2>1, <2>2, <2>3 DEF Preparing
<1>4. ASSUME NEW h \in Handlers, (GetClaim(h) /\ ~ Goto(h, "error")) \/ SkipResult(h)
      PROVE  OwnersAsked' /\ TodoAsked'
  <2>1. /\ call'[h].claim = call[h].claim /\ call'[h].alloc = call[h].alloc
        /\ \A k \in Handlers \ {h} : call'[k] = call[k]
        /\ \/ call'[h].todo = api[call[h].claim]
           \/ call[h].todo # <<>> /\ call'[h].todo = Tail(call[h].todo)
    <3>1. CASE SkipResult(h)
      BY <3>1 DEF SkipResult, TypeOK, Call
    <3>2. CASE GetClaim(h) /\ ~ Goto(h, "error")
      <4>1. call' = [call EXCEPT ![h].pc = "loop", ![h].todo = api[call[h].claim]]
        BY <3>2 DEF GetClaim
      <4> QED
        BY <4>1 DEF TypeOK, Call
    <3> QED
      BY <1>4, <3>1, <3>2
  <2>2. Preparing(h) /\ UNCHANGED <<structuredAllocs, api>>
    BY <1>4 DEF GetClaim, SkipResult, Preparing, PreparePCs
  <2>3. OwnersAsked'
    BY <2>1, <2>2, OwnersStayAsked DEF AllocOf, ClaimOf
  <2>4. TodoAsked'
    BY <2>1, <2>2, TodoStaysAsked DEF Preparing
  <2> QED
    BY <2>3, <2>4
<1>5. ASSUME NEW h \in Handlers, AllocateWays(h)
      PROVE  OwnersAsked' /\ TodoAsked'
  <2>1. PICK pc, alloc : Goto(h, pc) \/ GotoHolding(h, pc, alloc)
    BY <1>5 DEF AllocateWays
  <2>2. /\ call'[h].claim = call[h].claim /\ call'[h].todo = call[h].todo
        /\ \A k \in Handlers \ {h} : call'[k] = call[k]
    BY <2>1, Moved, MovedAlloc
  <2>3. Preparing(h) /\ UNCHANGED api
    BY <1>5 DEF AllocateWays, Preparing, PreparePCs
  <2> QED
    BY <1>5, <2>2, <2>3, AskedAllocate, TodoStaysAsked DEF Preparing
\* The entry of the claim takes over what the call had.
<1>6. ASSUME NEW h \in Handlers, StoreAlloc(h)
      PROVE  OwnersAsked' /\ TodoAsked'
  <2>1. PICK c \in Claims : call[h].claim = c
    BY <1>6 DEF StoreAlloc, CallsConsistent, CallConsistent
  <2>2. /\ structuredAllocs'[c] = call[h].alloc
        /\ \A x \in Claims \ {c} : structuredAllocs'[x] = structuredAllocs[x]
        /\ UNCHANGED api
    BY <1>6, <2>1 DEF StoreAlloc, TypeOK
  <2>3. /\ call'[h].alloc = NoAlloc /\ call'[h].claim = call[h].claim
        /\ call[h].todo # <<>> /\ call'[h].todo = Tail(call[h].todo)
        /\ Preparing(h) /\ \A k \in Handlers \ {h} : call'[k] = call[k]
    BY <1>6
    DEF StoreAlloc, TypeOK, Call, CallsConsistent, CallConsistent, Preparing, PreparePCs
  <2>4. OwnersAsked'
    <3>1. AllocOf(c)' = AllocOf(h) /\ ClaimOf(c)' = ClaimOf(h)
      BY <2>1, <2>2, StructuredAssumption DEF AllocOf, ClaimOf
    <3>2. \A o \in (Handlers \cup Claims) \ {c} : AllocOf(o)' # NoAlloc =>
             AllocOf(o)' = AllocOf(o) /\ ClaimOf(o)' = ClaimOf(o)
      BY <2>2, <2>3 DEF AllocOf, ClaimOf
    <3> QED
      BY <2>2, <3>1, <3>2, OwnersStayAsked
  <2>5. TodoAsked'
    BY <2>2, <2>3, TodoStaysAsked DEF Preparing
  <2> QED
    BY <2>4, <2>5
\* The call takes over what the entry of the claim had.
<1>7. ASSUME NEW h \in Handlers, TakeAlloc(h)
      PROVE  OwnersAsked' /\ TodoAsked'
  <2>1. PICK c \in Claims : call[h].claim = c
    BY <1>7 DEF TakeAlloc, CallsConsistent, CallConsistent
  <2>2. /\ structuredAllocs'[c] = NoAlloc
        /\ \A x \in Claims \ {c} : structuredAllocs'[x] = structuredAllocs[x]
        /\ UNCHANGED api
    BY <1>7, <2>1 DEF TakeAlloc, TypeOK
  <2>3. PICK pc \in {"delete", "unprepared"} : GotoHolding(h, pc, structuredAllocs[c])
    BY <1>7, <2>1 DEF TakeAlloc
  <2>4. /\ call'[h].alloc = structuredAllocs[c] /\ call'[h].claim = c /\ call'[h].pc = pc
        /\ \A k \in Handlers \ {h} : call'[k] = call[k]
    BY <2>1, <2>3, MovedAlloc
  <2>5. OwnersAsked'
    <3>1. AllocOf(h)' = AllocOf(c) /\ ClaimOf(h)' = ClaimOf(c)
      BY <2>4, StructuredAssumption DEF AllocOf, ClaimOf
    <3>2. \A o \in (Handlers \cup Claims) \ {h} : AllocOf(o)' # NoAlloc =>
             AllocOf(o)' = AllocOf(o) /\ ClaimOf(o)' = ClaimOf(o)
      BY <2>2, <2>4 DEF AllocOf, ClaimOf
    <3> QED
      BY <2>2, <3>1, <3>2, OwnersStayAsked
  <2>6. ~ Preparing(h)'
    BY <2>4 DEF Preparing, PreparePCs
  <2>7. TodoAsked'
    BY <2>2, <2>4, <2>6, TodoStaysAsked DEF Preparing
  <2> QED
    BY <2>5, <2>7
\* A call begins or ends: it has no ways and nothing to do.
<1>8. ASSUME NEW h \in Handlers,
             Reply(h) \/ \E c \in Claims : CallPrepare(h, c) \/ CallUnprepare(h, c)
      PROVE  OwnersAsked' /\ TodoAsked'
  <2>1. /\ call'[h].alloc = NoAlloc /\ call'[h].todo = <<>>
        /\ \A k \in Handlers \ {h} : call'[k] = call[k]
        /\ UNCHANGED <<structuredAllocs, api>>
    BY <1>8 DEF Reply, CallPrepare, CallUnprepare, IdleCall, NewCall, TypeOK
  <2>2. OwnersAsked'
    <3>1. \A o \in Handlers \cup Claims : AllocOf(o)' # NoAlloc =>
             AllocOf(o)' = AllocOf(o) /\ ClaimOf(o)' = ClaimOf(o)
      BY <2>1 DEF AllocOf, ClaimOf
    <3> QED
      BY <2>1, <3>1, OwnersStayAsked
  <2>3. TodoAsked'
    BY <2>1, TodoStaysAsked DEF Preparing
  <2> QED
    BY <2>2, <2>3
<1>9. CASE Crash \/ Restart
  <2>1. /\ \A h \in Handlers : call'[h] = IdleCall \/ (call'[h] = call[h] /\ ~ Working(h))
        /\ structuredAllocs' = [c \in Claims |-> NoAlloc]
        /\ UNCHANGED api
    <3>1. CASE Crash
      <4>1. call' = [h \in Handlers |-> IdleCall]
        BY <3>1 DEF Crash
      <4> QED
        BY <3>1, <4>1 DEF Crash
    <3>2. CASE Restart
      BY <3>2 DEF Restart, TypeOK, CallsConsistent, CallConsistent, Working
    <3> QED
      BY <1>9, <3>1, <3>2
  <2>2. /\ \A h \in Handlers : call'[h].alloc = NoAlloc /\ ~ Preparing(h)'
        /\ \A o \in Handlers \cup Claims : AllocOf(o)' = NoAlloc
    BY <2>1
    DEF IdleCall, Working, Preparing, PreparePCs, CallsConsistent, CallConsistent, HoldPCs,
        AllocOf
  <2> QED
    BY <2>2, OwnersStayAsked, TodoStaysAsked
<1>10. ASSUME NEW c \in Claims, Schedule(c) \/ Deallocate(c)
       PROVE  OwnersAsked' /\ TodoAsked'
  <2>1. phase[c] = "none"
    BY <1>10 DEF Schedule, Deallocate, ServedInv, ClaimsInv, ClaimKept
  <2>2. \A x \in Claims \ {c} : api'[x] = api[x]
    BY <1>10 DEF Schedule, Deallocate, TypeOK
  <2> QED
    BY <1>1, <1>10, <2>1, <2>2 DEF Schedule, Deallocate, Working, Preparing
<1>11. ASSUME NEW h \in Handlers, Timeout(h)
       PROVE  OwnersAsked' /\ TodoAsked'
  <2>1. \A k \in Handlers :
           /\ call'[k].pc = call[k].pc /\ call'[k].claim = call[k].claim
           /\ call'[k].todo = call[k].todo /\ call'[k].alloc = call[k].alloc
    BY <1>11 DEF Timeout, TypeOK, Call
  <2> QED
    BY <1>1, <1>11, <2>1 DEF Timeout, Working, Preparing
<1>12. CASE UNCHANGED <<structuredAllocs, call, api>>
  BY <1>1, <1>12 DEF Working, Preparing
<1> QED
  BY <1>3, <1>4, <1>5, <1>6, <1>7, <1>8, <1>9, <1>10, <1>11, <1>12
  DEF Next, HandlerStep, vars, PodGone, KubeletRestart, StartContainer, ExitContainer

\* A claim has at most one owner of ways: there is no entry while a call has some.
LEMMA OneOwner ==
    ASSUME TypeOK, CallsConsistent, ServedInv,
           NEW o \in Owners, NEW p \in Owners, ClaimOf(o) = ClaimOf(p)
    PROVE  o = p
<1>1. ASSUME NEW h \in Owners, h \in Handlers
      PROVE  Working(h) /\ structuredAllocs[ClaimOf(h)] = NoAlloc
  <2>1. call[h].pc \in HoldPCs
    BY <1>1 DEF Owners, AllocOf, CallsConsistent, CallConsistent
  <2>2. Working(h) /\ call[h].pc # "take"
    BY <2>1 DEF HoldPCs, Working
  <2>3. Preparing(h) => call[h].ids = <<>>
    BY <1>1, <2>1 DEF HoldPCs, ServedInv, CallsInv, CallDone
  <2> QED
    BY <1>1, <2>2, <2>3, NoEntry DEF ClaimOf
<1>2. CASE o \in Handlers /\ p \in Handlers
  BY <1>1, <1>2 DEF ClaimOf, ServedInv, SerialInv
<1>3. CASE o \in Handlers /\ p \notin Handlers
  BY <1>1, <1>3 DEF ClaimOf, Owners, AllocOf
<1>4. CASE o \notin Handlers /\ p \in Handlers
  BY <1>1, <1>4 DEF ClaimOf, Owners, AllocOf
<1>5. CASE o \notin Handlers /\ p \notin Handlers
  BY <1>5 DEF ClaimOf
<1> QED
  BY <1>2, <1>3, <1>4, <1>5

\* What the results of an allocation, or of all, consume of a domain is finite.
LEMMA UnitsFinite ==
    ASSUME NEW r \in Requests, NEW d
    PROVE  IsFiniteSet(Units(r, d))
<1> DEFINE S == {j \in DOMAIN r : r[j] # OtherDevice /\ r[j].cacheID = d}
           T == {{i} \X (1 .. r[i].ways) : i \in S}
           f == [i \in S |-> {i} \X (1 .. r[i].ways)]
<1>1. r \in Seq({OtherDevice} \cup Device)
  BY StructuredAssumption
<1>2. IsFiniteSet(S)
  <2>1. IsFiniteSet(DOMAIN r)
    BY <1>1, FS_Interval
  <2> QED
    BY <2>1, FS_Subset
<1>3. ASSUME NEW i \in S
      PROVE  IsFiniteSet({i} \X (1 .. r[i].ways))
  <2>1. r[i].ways \in Nat
    BY <1>1 DEF Device
  <2>2. \A n \in Nat : IsFiniteSet(1 .. n)
    BY FS_Interval
  <2>3. IsFiniteSet({i}) /\ IsFiniteSet(1 .. r[i].ways)
    BY <2>1, <2>2, FS_Singleton
  <2> QED
    BY <2>3, FS_Product
<1>4. f \in Surjection(S, T)
  BY DEF Surjection
<1>5. IsFiniteSet(T)
  <2> HIDE DEF S, T, f
  <2> QED
    BY <1>2, <1>4, FS_Surjection
<1>6. \A X \in T : IsFiniteSet(X)
  BY <1>3
<1>7. IsFiniteSet(UNION T)
  <2> HIDE DEF T
  <2> QED
    BY <1>5, <1>6, FS_UNION
<1> QED
  BY <1>7 DEF Units

\* The units of way-pool that the scheduled claims consume.
Counted(d) == UNION {{c} \X Units(api[c], d) : c \in Scheduled}

LEMMA CountedFinite ==
    ASSUME IsFiniteSet(Claims), TypeOK, NEW d
    PROVE  IsFiniteSet(Counted(d))
<1> DEFINE T == {{c} \X Units(api[c], d) : c \in Scheduled}
           f == [c \in Scheduled |-> {c} \X Units(api[c], d)]
<1>1. IsFiniteSet(Scheduled)
  BY FS_Subset DEF Scheduled
<1>2. \A X \in T : IsFiniteSet(X)
  <2>1. ASSUME NEW c \in Scheduled
        PROVE  IsFiniteSet({c} \X Units(api[c], d))
    <3>1. IsFiniteSet({c}) /\ IsFiniteSet(Units(api[c], d))
      BY UnitsFinite, FS_Singleton DEF Scheduled, TypeOK
    <3> QED
      BY <3>1, FS_Product
  <2> QED
    BY <2>1
<1>3. f \in Surjection(Scheduled, T)
  BY DEF Surjection
<1>4. IsFiniteSet(T)
  <2> HIDE DEF T, f
  <2> QED
    BY <1>1, <1>3, FS_Surjection
<1>5. IsFiniteSet(UNION T)
  <2> HIDE DEF T
  <2> QED
    BY <1>2, <1>4, FS_UNION
<1> QED
  BY <1>5 DEF Counted

Lowest(cbm) == CHOOSE low \in Ways : \E high \in Ways : low <= high /\ cbm = low .. high

\* A way of a mask that was asked for stands for a unit that its claim consumes.
LEMMA WayCounted ==
    ASSUME TypeOK, CallsConsistent, ServedInv, OwnersAsked, NEW o \in Owners,
           NEW w \in AllocOf(o).cbm
    PROVE  \E i : <<ClaimOf(o), <<i, w - Lowest(AllocOf(o).cbm) + 1>>>>
                      \in Counted(AllocOf(o).cacheID)
<1> DEFINE a == AllocOf(o)
           c == ClaimOf(o)
           low == Lowest(a.cbm)
<1>1. Asked(c, a)
  BY DEF OwnersAsked
<1>2. PICK i \in DOMAIN api[c] : api[c][i] = [cacheID |-> a.cacheID, ways |-> Cardinality(a.cbm)]
  BY <1>1 DEF Asked
<1>3. low \in Ways /\ \E high \in Ways : low <= high /\ a.cbm = low .. high
  BY <1>1 DEF Asked, Contiguous, Lowest
<1>4. c \in Scheduled
  <2>1. c \in Claims /\ phase[c] # "none"
    <3>1. CASE o \in Handlers
      BY <3>1
      DEF Owners, AllocOf, ClaimOf, CallsConsistent, CallConsistent, HoldPCs, ServedInv,
          SerialInv, Working
    <3>2. CASE o \notin Handlers
      BY <3>2, NoneServed DEF Owners, AllocOf, ClaimOf
    <3> QED
      BY <3>1, <3>2
  <2> QED
    BY <2>1 DEF ServedInv, ClaimsInv, ClaimKept, Scheduled
<1>5. w - low + 1 \in 1 .. Cardinality(a.cbm)
  <2>1. PICK high \in Ways : low <= high /\ a.cbm = low .. high
    BY <1>3
  <2>2. low \in Int /\ high \in Int
    BY <1>3, <2>1, NumWaysAssumption DEF Ways
  <2>3. Cardinality(a.cbm) = high - low + 1
    BY <2>1, <2>2, FS_Interval
  <2> QED
    BY <2>1, <2>2, <2>3
<1>6. <<i, w - low + 1>> \in Units(api[c], a.cacheID)
  <2>1. api[c][i] # OtherDevice /\ api[c][i].cacheID = a.cacheID
        /\ api[c][i].ways = Cardinality(a.cbm)
    <3>1. a.cacheID \in Domains /\ Cardinality(a.cbm) \in Nat
      BY OwnerType, CBMCardinality
    <3> QED
      BY <1>2, <3>1, StructuredAssumption DEF Device
  <2> QED
    BY <1>5, <2>1 DEF Units
<1>7. <<c, <<i, w - low + 1>>>> \in {c} \X Units(api[c], a.cacheID)
  BY <1>6
<1> QED
  BY <1>4, <1>7 DEF Counted

\* So there are no more ways in use than units consumed.
LEMMA WaysCounted ==
    ASSUME IsFiniteSet(Claims), TypeOK, CallsConsistent, ServedInv, WaysOwned, OwnersAsked
    PROVE  CountersCoverReserved
<1> SUFFICES ASSUME NEW d \in Domains
             PROVE  Cardinality(allocated[d]) <= Cardinality(Counted(d))
  BY DEF CountersCoverReserved, Consumed, Counted
<1> DEFINE Owner(w) == CHOOSE o \in Owners : Owns(o, d, w)
           Position(w) == w - Lowest(AllocOf(Owner(w)).cbm) + 1
           unit == [w \in allocated[d] |->
                       CHOOSE u \in Counted(d) :
                          u[1] = ClaimOf(Owner(w)) /\ u[2][2] = Position(w)]
<1>1. ASSUME NEW w \in allocated[d]
      PROVE  Owner(w) \in Owners /\ Owns(Owner(w), d, w)
  <2>1. w \in Ways
    BY DEF TypeOK, WayAllocatorType, CBM
  <2>2. PICK o \in Handlers \cup Claims : Owns(o, d, w)
    BY <2>1 DEF WaysOwned
  <2>3. o \in Owners
    BY <2>2 DEF Owns, Owners
  <2> QED
    BY <2>2, <2>3
<1> HIDE DEF Owner
<1>2. ASSUME NEW w \in allocated[d]
      PROVE  /\ unit[w] \in Counted(d)
             /\ unit[w][1] = ClaimOf(Owner(w)) /\ unit[w][2][2] = Position(w)
  <2>1. PICK i : <<ClaimOf(Owner(w)), <<i, Position(w)>>>> \in Counted(d)
    BY <1>1, WayCounted DEF Owns
  <2>2. \E u \in Counted(d) : u[1] = ClaimOf(Owner(w)) /\ u[2][2] = Position(w)
    BY <2>1
  <2> QED
    BY <2>2
<1>3. ASSUME NEW v \in allocated[d], NEW w \in allocated[d], unit[v] = unit[w]
      PROVE  v = w
  <2>1. Owner(v) = Owner(w)
    <3>1. ClaimOf(Owner(v)) = ClaimOf(Owner(w))
      BY <1>2, <1>3
    <3>2. Owner(v) \in Owners /\ Owner(w) \in Owners
      BY <1>1
    <3> HIDE DEF Position, unit
    <3> QED
      BY <3>1, <3>2, OneOwner
  <2>2. Position(v) = Position(w)
    BY <1>2, <1>3
  <2>3. v \in Int /\ w \in Int /\ Lowest(AllocOf(Owner(v)).cbm) \in Int
    <3>1. Contiguous(AllocOf(Owner(v)).cbm)
      BY <1>1 DEF OwnersAsked, Asked
    <3>2. Lowest(AllocOf(Owner(v)).cbm) \in Ways
      BY <3>1 DEF Contiguous, Lowest
    <3> QED
      BY <3>2, NumWaysAssumption DEF TypeOK, WayAllocatorType, CBM, Ways
  <2> QED
    BY <2>1, <2>2, <2>3
<1>4. unit \in Injection(allocated[d], Counted(d))
  BY <1>2, <1>3 DEF Injection, IsInjective
<1> HIDE DEF unit
<1> QED
  BY <1>4, CountedFinite, FS_Injection

\* At first no claim is scheduled and nothing is owned.
LEMMA InitAsked == Init => OwnersAsked /\ TodoAsked
BY StructuredAssumption
DEF Init, IdleCall, OwnersAsked, TodoAsked, Owners, AllocOf, Preparing, PreparePCs

\* The allocator never has more ways of a domain in use than the scheduler has
\* counted: no claim is short of room because of what the counters do not see.
THEOREM CountersCoverReservedHolds ==
    (SerialUse /\ MaxCrashes = 0 /\ IsFiniteSet(Claims)) => (Spec => []CountersCoverReserved)
<1> SUFFICES ASSUME SerialUse, MaxCrashes = 0, IsFiniteSet(Claims)
             PROVE  Spec => []CountersCoverReserved
  OBVIOUS
<1> DEFINE Kept == up /\ WaysOwned /\ OwnersAsked /\ TodoAsked
<1>1. Init => Kept
  BY InitOwned, InitAsked DEF Init
<1>2. TypeOK /\ CallsConsistent /\ ServedInv /\ Kept /\ [Next]_vars => Kept'
  BY UpStep, OwnedStep, AskedStep
<1>3. TypeOK /\ CallsConsistent /\ ServedInv /\ Kept => CountersCoverReserved
  BY WaysCounted
<1> QED
  BY <1>1, <1>2, <1>3, ServedInvariant, TypeCorrect, PTL DEF Spec

-----------------------------------------------------------------------------
\* The service: what is answered is what was asked for, each claim's own, and stays.

\* A device ID that is to be answered, or has been, is a result of the allocation.
IsAsked(c, id) == <<id[1], id[2]>> \in AskedOf[c]

IdsAsked ==
    /\ \A h \in Handlers : Preparing(h) =>
          \A i \in DOMAIN call[h].ids : IsAsked(call[h].claim, call[h].ids[i])
    /\ \A c \in Claims : phase[c] = "prepared" =>
          \A i \in DOMAIN answer[c] : IsAsked(c, answer[c][i])

\* A step that answers nothing and names no new device.
LEMMA IdsStayAsked ==
    ASSUME CallsConsistent, IdsAsked,
           \A h \in Handlers : Preparing(h)' =>
              \/ call'[h].ids = <<>>
              \/ /\ Preparing(h)
                 /\ call'[h].claim = call[h].claim /\ call'[h].ids = call[h].ids
                 /\ api'[call[h].claim] = api[call[h].claim],
           \A c \in Claims : phase'[c] = "prepared" =>
              phase[c] = "prepared" /\ answer'[c] = answer[c] /\ api'[c] = api[c]
    PROVE  IdsAsked'
<1>1. \A c \in Claims : \A id : api'[c] = api[c] => (IsAsked(c, id)' <=> IsAsked(c, id))
  BY DEF IsAsked, AskedOf
<1>2. \A h \in Handlers : Preparing(h) => call[h].claim \in Claims
  BY DEF CallsConsistent, CallConsistent, Preparing, PreparePCs
<1>3. ASSUME NEW h \in Handlers, Preparing(h)', NEW i \in DOMAIN call'[h].ids
      PROVE  IsAsked(call[h].claim, call[h].ids[i])'
  <2>1. call'[h].ids # <<>>
    BY <1>3
  <2> QED
    BY <1>1, <1>2, <1>3, <2>1 DEF IdsAsked
<1>4. ASSUME NEW c \in Claims, phase'[c] = "prepared", NEW i \in DOMAIN answer'[c]
      PROVE  IsAsked(c, answer[c][i])'
  BY <1>1, <1>4 DEF IdsAsked
<1> QED
  BY <1>3, <1>4 DEF IdsAsked

\* The device that a call goes on to answer has the ways of its reservation.
LEMMA IdsStore ==
    ASSUME TypeOK, CallsConsistent, ServedInv, OwnersAsked, IdsAsked,
           NEW h \in Handlers, StoreAlloc(h)
    PROVE  IdsAsked'
<1> DEFINE c == call[h].claim
           alloc == call[h].alloc
<1>1. /\ c \in Claims /\ alloc # NoAlloc /\ Preparing(h) /\ UNCHANGED <<api, phase, answer>>
      /\ alloc \in Alloc
  BY DEF StoreAlloc, CallsConsistent, CallConsistent, HoldPCs, Preparing, PreparePCs, kubelet,
         TypeOK, Call
<1>2. Asked(c, alloc)
  <2>1. h \in Owners /\ AllocOf(h) = alloc /\ ClaimOf(h) = c
    BY <1>1 DEF Owners, AllocOf, ClaimOf
  <2> QED
    BY <2>1 DEF OwnersAsked
<1>3. IsAsked(c, DeviceIDOf(h))
  <2>0. api[c] # NoRequest
    BY <1>1 DEF ServedInv, SerialInv, ClaimsInv, ClaimKept, Working, Preparing, PreparePCs
  <2>1. PICK i \in DOMAIN api[c] :
           api[c][i] = [cacheID |-> alloc.cacheID, ways |-> Cardinality(alloc.cbm)]
    BY <1>2 DEF Asked
  <2>2. Cardinality(alloc.cbm) \in Nat
    BY <1>1, CBMCardinality DEF Alloc
  <2>3. api[c][i] \in Device /\ api[c][i] # OtherDevice
    BY <1>1, <2>1, <2>2, StructuredAssumption DEF Alloc, Device
  <2> QED
    BY <1>1, <2>0, <2>1, <2>3 DEF IsAsked, AskedOf, Sizes, DeviceIDOf
<1>4. /\ call'[h].claim = c /\ call'[h].ids = Append(call[h].ids, DeviceIDOf(h))
      /\ \A k \in Handlers \ {h} : call'[k] = call[k]
      /\ call[h].ids \in Seq(DeviceID)
  BY DEF StoreAlloc, TypeOK, Call
<1>5. \A x \in Claims : \A id : IsAsked(x, id)' <=> IsAsked(x, id)
  BY <1>1 DEF IsAsked, AskedOf
<1>6. ASSUME NEW i \in DOMAIN call'[h].ids
      PROVE  IsAsked(c, call'[h].ids[i])
  <2>1. call'[h].ids[i] = DeviceIDOf(h) \/ \E j \in DOMAIN call[h].ids : call'[h].ids[i] = call[h].ids[j]
    BY <1>4
  <2> QED
    BY <1>1, <1>3, <2>1 DEF IdsAsked
<1>7. \A k \in Handlers \ {h} : Preparing(k)' => Preparing(k) /\ call[k].claim \in Claims
  BY <1>4 DEF Preparing, CallsConsistent, CallConsistent, PreparePCs
<1>8. \A x \in Claims : phase'[x] = "prepared" =>
         \A i \in DOMAIN answer'[x] : IsAsked(x, answer[x][i])'
  BY <1>1, <1>5 DEF IdsAsked
<1>9. ASSUME NEW k \in Handlers, Preparing(k)', NEW i \in DOMAIN call'[k].ids
      PROVE  IsAsked(call[k].claim, call[k].ids[i])'
  <2>1. CASE k = h
    BY <1>1, <1>4, <1>5, <1>6, <1>9, <2>1
  <2>2. CASE k # h
    BY <1>4, <1>5, <1>7, <1>9, <2>2 DEF IdsAsked
  <2> QED
    BY <2>1, <2>2
<1> QED
  BY <1>8, <1>9 DEF IdsAsked

\* The answer passes on what the call has made.
LEMMA IdsReply ==
    ASSUME TypeOK, CallsConsistent, IdsAsked, NEW h \in Handlers, Reply(h)
    PROVE  IdsAsked'
<1>1. /\ call'[h] = IdleCall /\ \A k \in Handlers \ {h} : call'[k] = call[k]
      /\ UNCHANGED api /\ call[h].claim \in Claims
  BY DEF Reply, TypeOK, CallsConsistent, CallConsistent, ReplyPCs
<1>2. \A x \in Claims : \A id : IsAsked(x, id)' <=> IsAsked(x, id)
  BY <1>1 DEF IsAsked, AskedOf
<1>3. \A k \in Handlers : Preparing(k)' =>
         Preparing(k) /\ call'[k] = call[k] /\ call[k].claim \in Claims
  BY <1>1 DEF Preparing, IdleCall, CallsConsistent, CallConsistent, PreparePCs
<1>4. ASSUME NEW c \in Claims, phase'[c] = "prepared"
      PROVE  \A i \in DOMAIN answer'[c] : IsAsked(c, answer'[c][i])
  <2>1. \/ phase[c] = "prepared" /\ answer'[c] = answer[c]
        \/ c = call[h].claim /\ answer'[c] = call[h].ids /\ call[h].pc = "prepared"
    BY <1>4 DEF Reply, TypeOK
  <2> QED
    BY <2>1 DEF IdsAsked, Preparing
<1> QED
  BY <1>2, <1>3, <1>4 DEF IdsAsked

\* Each step keeps it.
LEMMA IdsStep ==
    ASSUME TypeOK, CallsConsistent, ServedInv, OwnersAsked, IdsAsked, [Next]_vars
    PROVE  IdsAsked'
<1> USE DEF driver, kubelet
<1>1. \A h \in Handlers : Working(h) => call[h].claim \in Claims /\ phase[call[h].claim] # "none"
  BY DEF Working, CallsConsistent, CallConsistent, ServedInv, SerialInv
<1>2. \A h \in Handlers : Preparing(h) => Working(h)
  BY DEF Preparing, Working, PreparePCs
<1>3. ASSUME NEW h \in Handlers,
             \/ GetClaim(h) \/ SkipResult(h) \/ AllocateWays(h) \/ EndLoop(h)
             \/ CreateGroupDir(h) \/ WriteGroupSchemata(h) \/ WriteClaimCDISpec(h)
             \/ UndoGroup(h) \/ FreeWaysOnError(h) \/ TakeAlloc(h) \/ RemoveGroup(h)
             \/ ReleaseWays(h) \/ RemoveClaimCDISpec(h) \/ Timeout(h)
      PROVE  IdsAsked'
  <2>1. UNCHANGED <<api, phase, answer>>
    BY <1>3
    DEF GetClaim, SkipResult, AllocateWays, EndLoop, CreateGroupDir, WriteGroupSchemata,
        WriteClaimCDISpec, UndoGroup, FreeWaysOnError, TakeAlloc, RemoveGroup, ReleaseWays,
        RemoveClaimCDISpec, Timeout
  <2>2. /\ call'[h].claim = call[h].claim /\ call'[h].ids = call[h].ids
        /\ Preparing(h)' => Preparing(h)
        /\ \A k \in Handlers \ {h} : call'[k] = call[k]
    <3>1. CASE GetClaim(h) \/ SkipResult(h) \/ Timeout(h)
      BY <3>1 DEF GetClaim, SkipResult, Timeout, Goto, Preparing, PreparePCs, TypeOK, Call
    <3>2. CASE \E pc, alloc : /\ Goto(h, pc) \/ GotoHolding(h, pc, alloc)
                              /\ pc \in PreparePCs \cup {"prepared", "error"} => Preparing(h)
      BY <3>2, Moved, MovedAlloc DEF Preparing
    <3>3. CASE AllocateWays(h)
      <4>1. Preparing(h) /\ \E pc, alloc : Goto(h, pc) \/ GotoHolding(h, pc, alloc)
        BY <3>3 DEF AllocateWays, Preparing, PreparePCs
      <4> QED
        BY <3>2, <4>1
    <3>4. CASE TakeAlloc(h)
      <4>1. PICK pc \in {"delete", "unprepared"} : \E alloc : GotoHolding(h, pc, alloc)
        BY <3>4 DEF TakeAlloc
      <4>2. pc \notin PreparePCs \cup {"prepared", "error"}
        BY <4>1 DEF PreparePCs
      <4> QED
        BY <3>2, <4>1, <4>2
    <3>5. CASE \/ EndLoop(h) \/ CreateGroupDir(h) \/ WriteGroupSchemata(h)
               \/ WriteClaimCDISpec(h) \/ UndoGroup(h) \/ FreeWaysOnError(h)
               \/ RemoveGroup(h) \/ ReleaseWays(h) \/ RemoveClaimCDISpec(h)
      <4>1. PICK pc : /\ Goto(h, pc) \/ GotoHolding(h, pc, NoAlloc)
                      /\ pc \in PreparePCs \cup {"prepared", "error"} <=> Preparing(h)
        BY <3>5
        DEF EndLoop, CreateGroupDir, WriteGroupSchemata, WriteClaimCDISpec, UndoGroup,
            FreeWaysOnError, RemoveGroup, ReleaseWays, RemoveClaimCDISpec, Preparing, PreparePCs
      <4> QED
        BY <3>2, <4>1
    <3> QED
      BY <1>3, <3>1, <3>3, <3>4, <3>5
  <2> QED
    BY <2>1, <2>2, IdsStayAsked DEF Preparing
<1>4. ASSUME NEW h \in Handlers, NEW c \in Claims, CallPrepare(h, c) \/ CallUnprepare(h, c)
      PROVE  IdsAsked'
  <2>1. call'[h].ids = <<>> /\ \A k \in Handlers \ {h} : call'[k] = call[k]
    BY <1>4 DEF CallPrepare, CallUnprepare, NewCall, TypeOK
  <2> QED
    BY <1>4, <2>1, IdsStayAsked DEF CallPrepare, CallUnprepare, Preparing
<1>5. ASSUME NEW c \in Claims,
             \/ Schedule(c) \/ Deallocate(c) \/ PodGone(c) \/ KubeletRestart(c)
             \/ StartContainer(c) \/ ExitContainer(c)
      PROVE  IdsAsked'
  <2>1. UNCHANGED call /\ \A x \in Claims : phase[x] # "none" => api'[x] = api[x]
    BY <1>5
    DEF Schedule, Deallocate, PodGone, KubeletRestart, StartContainer, ExitContainer, TypeOK,
        ServedInv, ClaimsInv, ClaimKept
  <2>2. \A x \in Claims : phase'[x] = "prepared" => phase[x] = "prepared" /\ answer'[x] = answer[x]
    BY <1>5
    DEF Schedule, Deallocate, PodGone, KubeletRestart, StartContainer, ExitContainer, TypeOK
  <2> QED
    BY <1>1, <1>2, <2>1, <2>2, IdsStayAsked DEF Preparing
<1>6. CASE Crash \/ Restart \/ UNCHANGED vars
  <2>1. UNCHANGED <<api, phase, answer>> /\ \A h \in Handlers : call'[h] \in {call[h], IdleCall}
    BY <1>6 DEF Crash, Restart, vars
  <2> QED
    BY <2>1, IdsStayAsked DEF Preparing, IdleCall, PreparePCs
<1> QED
  BY <1>3, <1>4, <1>5, <1>6, IdsStore, IdsReply DEF Next, HandlerStep

\* The devices that a claim can be answered with stand for groups of its own, and
\* have together the sizes that it asked for: there is one.
LEMMA PartsAre ==
    ASSUME SerialUse, TypeOK, NEW c \in Claims, api[c] # NoRequest,
           NEW ids \in Seq(DeviceID), ids # <<>>,
           \A i \in DOMAIN ids : Enforced(c, ids[i]) /\ IsAsked(c, ids[i])
    PROVE  /\ \A p \in PartsOf(c, ids) :
                 /\ p[1] \in Domains /\ p = <<p[1], groups[<<p[1], c>>]>>
                 /\ Written(<<p[1], c>>) /\ Contiguous(p[2]) /\ p[2] \in CBM
           /\ \A p, q \in PartsOf(c, ids) : p = q
           /\ {<<p[1], Cardinality(p[2])>> : p \in PartsOf(c, ids)} = AskedOf[c]
<1> DEFINE Part(i) == <<ids[i][1], groups[<<ids[i][1], c>>]>>
<1>1. ASSUME NEW i \in DOMAIN ids
      PROVE  /\ ids[i][1] \in Domains /\ Written(<<ids[i][1], c>>)
             /\ Contiguous(groups[<<ids[i][1], c>>])
             /\ groups[<<ids[i][1], c>>] \in CBM
             /\ <<ids[i][1], Cardinality(groups[<<ids[i][1], c>>])>> \in AskedOf[c]
  <2>1. ids[i] \in DeviceID /\ ids[i][1] \in Domains
    BY DEF DeviceID
  <2>2. <<ids[i][1], c>> \in Groups
    BY <2>1, StructuredAssumption
  <2> QED
    BY <2>1, <2>2 DEF Enforced, IsAsked, Written, Exists, TypeOK, ResctrlType
<1>2. \A x, y \in AskedOf[c] : x = y
  <2>1. api[c] \in Requests /\ AskedOf[c] = Sizes(api[c])
    BY DEF AskedOf, TypeOK
  <2>2. \A i, j \in {k \in DOMAIN api[c] : api[c][k] # OtherDevice} : i = j
    BY <2>1 DEF SerialUse, OneDevice
  <2> QED
    BY <2>1, <2>2 DEF Sizes
<1>3. \A p \in PartsOf(c, ids) : \E i \in DOMAIN ids : p = Part(i)
  BY DEF PartsOf
<1>4. \A p \in PartsOf(c, ids) :
         /\ p[1] \in Domains /\ p = <<p[1], groups[<<p[1], c>>]>>
         /\ Written(<<p[1], c>>) /\ Contiguous(p[2]) /\ p[2] \in CBM
         /\ <<p[1], Cardinality(p[2])>> \in AskedOf[c]
  <2> SUFFICES ASSUME NEW p \in PartsOf(c, ids)
               PROVE  /\ p[1] \in Domains /\ p = <<p[1], groups[<<p[1], c>>]>>
                      /\ Written(<<p[1], c>>) /\ Contiguous(p[2]) /\ p[2] \in CBM
                      /\ <<p[1], Cardinality(p[2])>> \in AskedOf[c]
    OBVIOUS
  <2>1. PICK i \in DOMAIN ids : p = Part(i)
    BY <1>3
  <2>2. p[1] = ids[i][1] /\ p[2] = groups[<<ids[i][1], c>>]
    BY <2>1
  <2> QED
    BY <1>1, <2>1, <2>2
<1>5. \A p, q \in PartsOf(c, ids) : p = q
  <2> SUFFICES ASSUME NEW p \in PartsOf(c, ids), NEW q \in PartsOf(c, ids)
               PROVE  p = q
    OBVIOUS
  <2>1. <<p[1], Cardinality(p[2])>> = <<q[1], Cardinality(q[2])>>
    BY <1>2, <1>4
  <2>2. p[1] = q[1]
    BY <2>1
  <2> QED
    BY <1>4, <2>2
<1>6. PartsOf(c, ids) # {}
  <2>1. 1 \in DOMAIN ids
    OBVIOUS
  <2> QED
    BY <2>1 DEF PartsOf
<1>7. {<<p[1], Cardinality(p[2])>> : p \in PartsOf(c, ids)} = AskedOf[c]
  <2> DEFINE Size(p) == <<p[1], Cardinality(p[2])>>
  <2>1. \A p \in PartsOf(c, ids) : Size(p) \in AskedOf[c]
    BY <1>4
  <2> HIDE DEF Size
  <2>2. \A x \in AskedOf[c] : \E p \in PartsOf(c, ids) : x = Size(p)
    BY <1>2, <1>6, <2>1
  <2>3. {Size(p) : p \in PartsOf(c, ids)} = AskedOf[c]
    BY <2>1, <2>2
  <2> QED
    BY <2>3 DEF Size
<1> QED
  BY <1>4, <1>5, <1>7

\* What the service has given, then, is each prepared claim's own group.
LEMMA GivenAre ==
    ASSUME SerialUse, TypeOK, CallsConsistent, ServedInv, IdsAsked, NEW c \in Claims
    PROVE  \A p \in GivenTo[c] :
              /\ phase[c] = "prepared" /\ p[1] \in Domains
              /\ p = <<p[1], groups[<<p[1], c>>]>> /\ Written(<<p[1], c>>)
<1>1. CASE phase[c] = "prepared"
  <2>1. /\ answer[c] \in Seq(DeviceID) /\ answer[c] # <<>> /\ api[c] # NoRequest
        /\ \A i \in DOMAIN answer[c] : Enforced(c, answer[c][i]) /\ IsAsked(c, answer[c][i])
    BY <1>1 DEF TypeOK, CallsConsistent, ServedInv, ClaimsInv, ClaimKept, IdsAsked
  <2>2. GivenTo[c] = PartsOf(c, answer[c])
    BY <1>1 DEF GivenTo
  <2> QED
    BY <1>1, <2>1, <2>2, PartsAre
<1>2. CASE phase[c] # "prepared"
  BY <1>2 DEF GivenTo
<1> QED
  BY <1>1, <1>2

\* A step that touches neither the allocations and the containers nor what a
\* prepared claim has is not seen.
LEMMA NotSeen ==
    ASSUME TypeOK, CallsConsistent, ServedInv, UNCHANGED <<api, task>>,
           \A c \in Claims : (phase'[c] = "prepared" <=> phase[c] = "prepared"),
           \A c \in Claims : phase[c] = "prepared" =>
              /\ answer'[c] = answer[c]
              /\ \A d \in Domains : groups'[<<d, c>>] = groups[<<d, c>>]
    PROVE  UNCHANGED <<AskedOf, GivenTo, ConfinedTo>>
<1>1. AskedOf' = AskedOf
  BY DEF AskedOf
<1>2. ASSUME NEW c \in Claims, phase[c] = "prepared"
      PROVE  PartsOf(c, answer[c])' = PartsOf(c, answer[c])
  <2>1. \A i \in DOMAIN answer[c] : answer[c][i][1] \in Domains
    BY DEF TypeOK, DeviceID
  <2> QED
    BY <1>2, <2>1 DEF PartsOf
<1>3. GivenTo' = GivenTo
  BY <1>2 DEF GivenTo
<1>4. ASSUME NEW c \in Claims, task[c] \in Groups
      PROVE  groups'[task[c]] = groups[task[c]]
  <2>1. phase[c] = "prepared" /\ task[c][2] = c
    BY <1>4, ResctrlAssumption DEF ServedInv, ClaimsInv, ClaimKept
  <2>2. PICK d \in Domains : task[c] = <<d, c>>
    BY <1>4, <2>1, StructuredAssumption
  <2> QED
    BY <2>1, <2>2
<1>5. ConfinedTo' = ConfinedTo
  BY <1>4 DEF ConfinedTo
<1> QED
  BY <1>1, <1>3, <1>5

\* What a handler does before its answer.
LEMMA WorkNotSeen ==
    ASSUME TypeOK, CallsConsistent, ServedInv, NEW h \in Handlers, HandlerStep(h), ~ Reply(h)
    PROVE  UNCHANGED <<AskedOf, GivenTo, ConfinedTo>>
<1> USE DEF driver, resctrl, kubelet
<1>0. \/ CreateGroupDir(h) \/ WriteGroupSchemata(h) \/ UndoGroup(h) \/ RemoveGroup(h)
      \/ GetClaim(h) \/ SkipResult(h) \/ AllocateWays(h) \/ EndLoop(h) \/ WriteClaimCDISpec(h)
      \/ FreeWaysOnError(h) \/ StoreAlloc(h) \/ TakeAlloc(h) \/ ReleaseWays(h)
      \/ RemoveClaimCDISpec(h)
  BY DEF HandlerStep
<1>1. UNCHANGED <<api, phase, answer>>
  <2>1. CASE \/ CreateGroupDir(h) \/ WriteGroupSchemata(h) \/ UndoGroup(h) \/ RemoveGroup(h)
    BY <2>1 DEF CreateGroupDir, WriteGroupSchemata, UndoGroup, RemoveGroup
  <2>2. CASE \/ GetClaim(h) \/ SkipResult(h) \/ AllocateWays(h) \/ EndLoop(h)
             \/ WriteClaimCDISpec(h)
    BY <2>2 DEF GetClaim, SkipResult, AllocateWays, EndLoop, WriteClaimCDISpec
  <2>3. CASE \/ FreeWaysOnError(h) \/ StoreAlloc(h) \/ TakeAlloc(h) \/ ReleaseWays(h)
             \/ RemoveClaimCDISpec(h)
    BY <2>3 DEF FreeWaysOnError, StoreAlloc, TakeAlloc, ReleaseWays, RemoveClaimCDISpec
  <2> QED
    BY <1>0, <2>1, <2>2, <2>3
<1>2. CASE \/ CreateGroupDir(h) \/ WriteGroupSchemata(h) \/ UndoGroup(h) \/ RemoveGroup(h)
  <2>1. /\ TasksIn(GroupOf(h)) = {} /\ GroupOf(h) \in Groups /\ Working(h)
        /\ call[h].claim \in Claims
    BY <1>2, NoTasksYet, GroupOfType
    DEF CreateGroupDir, WriteGroupSchemata, UndoGroup, RemoveGroup, HoldPCs, Working,
        CallsConsistent, CallConsistent
  <2>2. groups' = groups \/ \E v : groups' = [groups EXCEPT ![GroupOf(h)] = v]
    BY <1>2
    DEF CreateGroupDir, Mkdir, WriteGroupSchemata, WriteSchemata, RemoveIfEmpty,
        UndoGroup, RemoveGroup, DeleteGroup
  <2>3. task' = task
    <3>1. task' = task \/ task' = Drained(GroupOf(h))
      BY <1>2 DEF CreateGroupDir, WriteGroupSchemata, UndoGroup, RemoveGroup, DeleteGroup
    <3> QED
      BY <2>1, <3>1 DEF Drained, TasksIn, TypeOK, ResctrlType
  <2>4. phase[call[h].claim] # "prepared"
    BY <2>1 DEF ServedInv, SerialInv
  <2>5. \A g \in Groups : g[2] # call[h].claim => groups'[g] = groups[g]
    BY <2>1, <2>2 DEF GroupOf, TypeOK, ResctrlType
  <2>6. \A c \in Claims : phase[c] = "prepared" =>
           \A d \in Domains : groups'[<<d, c>>] = groups[<<d, c>>]
    BY <2>4, <2>5, StructuredAssumption
  <2> QED
    BY <1>1, <2>3, <2>6, NotSeen
<1>3. CASE ~ (CreateGroupDir(h) \/ WriteGroupSchemata(h) \/ UndoGroup(h) \/ RemoveGroup(h))
  <2>1. UNCHANGED <<groups, task>>
    <3>1. CASE \/ GetClaim(h) \/ SkipResult(h) \/ AllocateWays(h) \/ EndLoop(h)
               \/ WriteClaimCDISpec(h)
      BY <3>1 DEF GetClaim, SkipResult, AllocateWays, EndLoop, WriteClaimCDISpec
    <3>2. CASE \/ FreeWaysOnError(h) \/ StoreAlloc(h) \/ TakeAlloc(h) \/ ReleaseWays(h)
               \/ RemoveClaimCDISpec(h)
      BY <3>2 DEF FreeWaysOnError, StoreAlloc, TakeAlloc, ReleaseWays, RemoveClaimCDISpec
    <3> QED
      BY <1>0, <1>3, <3>1, <3>2
  <2> QED
    BY <1>1, <2>1, NotSeen
<1> QED
  BY <1>2, <1>3

\* The answer of a prepare gives the claim its partition; nobody else has its ways.
LEMMA ReplyGives ==
    ASSUME SerialUse, TypeOK, CallsConsistent, ServedInv, IdsAsked, GroupsIsolated,
           NEW h \in Handlers, Reply(h)
    PROVE  Service!Next \/ UNCHANGED <<AskedOf, GivenTo, ConfinedTo>>
<1> DEFINE c == call[h].claim
<1> USE DEF driver, resctrl
<1>1. /\ call[h].pc \in ReplyPCs /\ c \in Claims /\ Working(h)
      /\ UNCHANGED <<api, groups, task>>
      /\ phase[c] = IF Preparing(h) THEN "wanted" ELSE "ending"
      /\ call[h].pc # "unprepared" => Preparing(h)
  BY DEF Reply, ReplyPCs, Working, CallsConsistent, CallConsistent, ServedInv, SerialInv, Preparing
<1>2. AskedOf' = AskedOf /\ ConfinedTo' = ConfinedTo
  BY <1>1 DEF AskedOf, ConfinedTo
<1>3. ASSUME call[h].pc = "prepared", phase' = [phase EXCEPT ![c] = "prepared"],
             answer' = [answer EXCEPT ![c] = call[h].ids]
      PROVE  Service!Next
  <2> DEFINE parts == PartsOf(c, call[h].ids)
  <2>1. /\ call[h].ids \in Seq(DeviceID) /\ call[h].ids # <<>> /\ api[c] # NoRequest
        /\ \A i \in DOMAIN call[h].ids : Enforced(c, call[h].ids[i]) /\ IsAsked(c, call[h].ids[i])
        /\ phase[c] = "wanted"
    BY <1>1, <1>3
    DEF TypeOK, Call, CallsConsistent, CallConsistent, ServedInv, CallsInv, CallDone, ClaimsInv,
        ClaimKept, IdsAsked
  <2>2. /\ \A p \in parts : /\ p[1] \in Domains /\ p = <<p[1], groups[<<p[1], c>>]>>
                            /\ Written(<<p[1], c>>) /\ Contiguous(p[2]) /\ p[2] \in CBM
        /\ \A p, q \in parts : p = q
        /\ {<<p[1], Cardinality(p[2])>> : p \in parts} = AskedOf[c]
    BY <1>1, <2>1, PartsAre
  <2>3. GivenTo[c] = {}
    BY <1>1, <2>1 DEF GivenTo
  <2>4. GivenTo' = [GivenTo EXCEPT ![c] = parts]
    <3>1. \A x \in Claims : PartsOf(x, answer[x])' = PartsOf(x, answer'[x])
      BY <1>1 DEF PartsOf
    <3>2. \A x \in Claims : GivenTo'[x] = IF x = c THEN parts ELSE GivenTo[x]
      BY <1>1, <1>3, <3>1 DEF GivenTo, TypeOK
    <3>3. DOMAIN GivenTo = Claims /\ GivenTo' = [x \in Claims |-> GivenTo'[x]]
      BY DEF GivenTo
    <3> HIDE DEF parts
    <3>4. GivenTo' = [x \in Claims |-> IF x = c THEN parts ELSE GivenTo[x]]
      BY <3>2, <3>3
    <3>5. GivenTo = [x \in Claims |-> GivenTo[x]]
      BY DEF GivenTo
    <3> QED
      BY <3>3, <3>4, <3>5
  <2>5. ASSUME NEW x \in Claims \ {c}, NEW p \in parts, NEW q \in GivenTo[x], p[1] = q[1]
        PROVE  p[2] \cap q[2] = {}
    <3>1. /\ p[1] \in Domains /\ p = <<p[1], groups[<<p[1], c>>]>> /\ Written(<<p[1], c>>)
          /\ q = <<q[1], groups[<<q[1], x>>]>> /\ Written(<<q[1], x>>)
      BY <2>2, GivenAre
    <3> DEFINE g1 == <<p[1], c>>
               g2 == <<p[1], x>>
    <3>2. g1 \in Groups /\ g2 \in Groups /\ g1 # g2 /\ g1[1] = g2[1]
      BY <1>1, <3>1, StructuredAssumption
    <3>3. Written(g1) /\ Written(g2) /\ p[2] = groups[g1] /\ q[2] = groups[g2]
      BY <2>5, <3>1
    <3> QED
      BY <3>2, <3>3 DEF GroupsIsolated
  <2>6. ASSUME NEW p \in parts
        PROVE  p \in Domains \X CBM
    <3>1. p[1] \in Domains /\ p[2] \in CBM /\ p = <<p[1], groups[<<p[1], c>>]>>
      BY <2>2
    <3>2. p = <<p[1], p[2]>>
      BY <3>1
    <3> QED
      BY <3>1, <3>2
  <2> HIDE DEF parts
  <2>7. /\ \A p \in parts : Service!Contiguous(p[2])
        /\ \A p, q \in parts : p # q => Service!Apart(p, q)
        /\ \A x \in Claims \ {c} : \A p \in parts, q \in GivenTo[x] : Service!Apart(p, q)
    BY <2>2, <2>5 DEF Service!Apart, Service!Contiguous, Service!Ways, Contiguous, Ways
  <2>8. parts \in SUBSET (Domains \X Service!CBM)
    BY <2>6 DEF Service!CBM, Service!Ways, CBM, Ways
  <2>9. \A S : Service!Cardinality(S) = Cardinality(S)
    BY DEF Cardinality, Service!Cardinality
  <2>10. {<<p[1], Service!Cardinality(p[2])>> : p \in parts} = AskedOf[c]
    BY <2>2, <2>9, Zenon
  <2>11. Service!Give(c)
    BY <1>2, <2>3, <2>4, <2>7, <2>8, <2>10, Zenon DEF Service!Give
  <2> QED
    BY <1>1, <2>11 DEF Service!Next
<1>4. ASSUME call[h].pc = "unprepared", phase' = [phase EXCEPT ![c] = "none"],
             answer' = [answer EXCEPT ![c] = <<>>]
      PROVE  UNCHANGED <<AskedOf, GivenTo, ConfinedTo>>
  <2>1. phase[c] = "ending"
    BY <1>1, <1>4 DEF Preparing, PreparePCs
  <2>2. \A x \in Claims : phase'[x] = IF x = c THEN "none" ELSE phase[x]
    BY <1>1, <1>4 DEF TypeOK
  <2>3. \A x \in Claims \ {c} : answer'[x] = answer[x]
    BY <1>1, <1>4 DEF TypeOK
  <2> QED
    BY <1>1, <2>1, <2>2, <2>3, NotSeen
<1>5. ASSUME UNCHANGED <<phase, answer>>
      PROVE  UNCHANGED <<AskedOf, GivenTo, ConfinedTo>>
  BY <1>1, <1>5, NotSeen
<1> QED
  BY <1>3, <1>4, <1>5 DEF Reply

\* The scheduler asks, a container starts in the group of its claim, and the end of
\* a pod withdraws what was given.
LEMMA OutsideSeen ==
    ASSUME SerialUse, TypeOK, CallsConsistent, ServedInv, NEW c \in Claims,
           \/ Schedule(c) \/ Deallocate(c) \/ PodGone(c) \/ KubeletRestart(c)
           \/ StartContainer(c) \/ ExitContainer(c)
    PROVE  Service!Next
<1> USE DEF driver, resctrl
<1>1. ClaimKept(c)
  BY DEF ServedInv, ClaimsInv
<1>2. /\ AskedOf = [x \in Claims |-> AskedOf[x]] /\ GivenTo = [x \in Claims |-> GivenTo[x]]
      /\ ConfinedTo = [x \in Claims |-> ConfinedTo[x]]
  BY DEF AskedOf, GivenTo, ConfinedTo
<1>3. CASE Schedule(c)
  <2>1. PICK r \in Requests : /\ \A i \in DOMAIN r : r[i] = OtherDevice \/ r[i] \in Published
                              /\ api' = [api EXCEPT ![c] = r]
    BY <1>3 DEF Schedule
  <2>2. phase[c] = "none" /\ api[c] = NoRequest /\ phase' = [phase EXCEPT ![c] = "wanted"]
    BY <1>1, <1>3 DEF Schedule, ClaimKept
  <2>3. Sizes(r) \in SUBSET (Domains \X (1 .. NumWays))
    BY <2>1 DEF Sizes, Published
  <2>4. AskedOf[c] = {} /\ AskedOf' = [AskedOf EXCEPT ![c] = Sizes(r)]
    BY <2>1, <2>2, StructuredAssumption DEF AskedOf, TypeOK
  <2>5. UNCHANGED <<GivenTo, ConfinedTo>>
    BY <1>3, <2>2 DEF Schedule, GivenTo, PartsOf, ConfinedTo, TypeOK
  <2> QED
    BY <2>3, <2>4, <2>5 DEF Service!Next, Service!Ask
<1>4. CASE Deallocate(c)
  <2>1. phase[c] = "none" /\ api' = [api EXCEPT ![c] = NoRequest]
    BY <1>4 DEF Deallocate
  <2>2. GivenTo[c] = {} /\ AskedOf' = [AskedOf EXCEPT ![c] = {}]
    BY <2>1 DEF GivenTo, AskedOf, TypeOK
  <2>3. UNCHANGED <<GivenTo, ConfinedTo>>
    BY <1>4 DEF Deallocate, GivenTo, PartsOf, ConfinedTo
  <2> QED
    BY <2>2, <2>3 DEF Service!Next, Service!Forget
<1>5. CASE PodGone(c)
  <2>1. task[c] = NoTask /\ phase' = [phase EXCEPT ![c] = "ending"] /\ UNCHANGED <<answer, groups>>
    BY <1>5 DEF PodGone
  <2>2. ConfinedTo[c] = NoTask
    BY <2>1, ResctrlAssumption DEF ConfinedTo
  <2>3. \A x \in Claims : PartsOf(x, answer[x])' = PartsOf(x, answer[x])
    BY <2>1 DEF PartsOf
  <2>4. \A x \in Claims : phase'[x] = IF x = c THEN "ending" ELSE phase[x]
    BY <2>1 DEF TypeOK
  <2>5. GivenTo' = [GivenTo EXCEPT ![c] = {}]
    BY <2>3, <2>4 DEF GivenTo
  <2>6. UNCHANGED <<AskedOf, ConfinedTo>>
    BY <1>5 DEF PodGone, AskedOf, ConfinedTo
  <2> QED
    BY <2>2, <2>5, <2>6 DEF Service!Next, Service!Withdraw
<1>6. CASE StartContainer(c)
  <2> DEFINE ids == answer[c]
             g == cdi[ids[Len(ids)][3]].group
  <2>1. /\ phase[c] = "prepared" /\ task[c] = NoTask /\ task' = [task EXCEPT ![c] = g]
        /\ UNCHANGED <<groups, kubelet>>
    BY <1>6 DEF StartContainer, AssignPID
  <2>2. ids \in Seq(DeviceID) /\ ids # <<>>
    BY <2>1 DEF TypeOK, CallsConsistent
  <2>3. Len(ids) \in DOMAIN ids /\ ids[Len(ids)] \in DeviceID
    BY <2>2
  <2>4. g = <<ids[Len(ids)][1], c>> /\ ids[Len(ids)][1] \in Domains
    BY <1>1, <2>1, <2>3 DEF ClaimKept, Enforced, DeviceID
  <2>5. g \in Groups
    BY <2>4, StructuredAssumption
  <2>6. <<g[1], groups[g]>> \in GivenTo[c]
    BY <2>1, <2>3, <2>4 DEF GivenTo, PartsOf
  <2> HIDE DEF g
  <2>7. ConfinedTo[c] = NoTask /\ ConfinedTo' = [ConfinedTo EXCEPT ![c] = <<g[1], groups[g]>>]
    BY <2>1, <2>5, ResctrlAssumption, StructuredAssumption DEF ConfinedTo, TypeOK, ResctrlType
  <2>8. UNCHANGED <<AskedOf, GivenTo>>
    BY <2>1 DEF kubelet, AskedOf, GivenTo, PartsOf
  <2> QED
    BY <2>6, <2>7, <2>8 DEF Service!Next, Service!Start
<1>7. CASE ExitContainer(c)
  <2>1. ConfinedTo' = [ConfinedTo EXCEPT ![c] = NoTask]
    BY <1>7, ResctrlAssumption, StructuredAssumption DEF ExitContainer, ConfinedTo, TypeOK, ResctrlType
  <2>2. UNCHANGED <<AskedOf, GivenTo>>
    BY <1>7 DEF ExitContainer, kubelet, AskedOf, GivenTo, PartsOf
  <2> QED
    BY <2>1, <2>2 DEF Service!Next, Service!Exit
<1> QED
  BY <1>3, <1>4, <1>5, <1>6, <1>7 DEF SerialUse, KubeletRestart

\* Every step is a step of the service, or is not seen.
LEMMA ServiceStep ==
    ASSUME SerialUse, TypeOK, CallsConsistent, ServedInv, IdsAsked, GroupsIsolated, [Next]_vars
    PROVE  Service!Next \/ UNCHANGED <<AskedOf, GivenTo, ConfinedTo>>
<1>1. ASSUME UNCHANGED <<groups, task, kubelet>>
      PROVE  UNCHANGED <<AskedOf, GivenTo, ConfinedTo>>
  BY <1>1 DEF kubelet, AskedOf, GivenTo, PartsOf, ConfinedTo
<1>2. ASSUME NEW h \in Handlers,
             Timeout(h) \/ \E c \in Claims : CallPrepare(h, c) \/ CallUnprepare(h, c)
      PROVE  UNCHANGED <<groups, task, kubelet>>
  BY <1>2 DEF Timeout, CallPrepare, CallUnprepare, resctrl
<1>3. CASE Crash \/ Restart \/ UNCHANGED vars
  BY <1>1, <1>3 DEF Crash, Restart, vars, resctrl
<1> QED
  BY <1>1, <1>2, <1>3, WorkNotSeen, ReplyGives, OutsideSeen DEF Next, HandlerStep

LEMMA ServiceInit == Init => Service!Init
<1> SUFFICES ASSUME Init PROVE Service!Init
  OBVIOUS
<1>1. \A c \in Claims : task[c] = NoTask /\ NoTask \notin Groups
  BY StructuredAssumption, ResctrlAssumption DEF Init
<1> QED
  BY <1>1 DEF Init, Service!Init, AskedOf, GivenTo, ConfinedTo

\* What a user of claims relies on holds of the driver, whatever fails or crashes:
\* the answer of a prepare gives the claim what it asked for and nobody else has,
\* and it stays the claim's, its container in it, until the pod is gone.
THEOREM ServesClaimsHolds == (SerialUse /\ NoLostGroup) => (Spec => ServesClaims)
<1> SUFFICES ASSUME SerialUse, NoLostGroup PROVE Spec => ServesClaims
  OBVIOUS
<1>1. Init => OwnersAsked /\ TodoAsked /\ IdsAsked
  <2>1. Init => IdsAsked
    BY DEF Init, IdsAsked, IdleCall, Preparing, PreparePCs
  <2> QED
    BY <2>1, InitAsked
<1>2. TypeOK /\ CallsConsistent /\ ServedInv /\ OwnersAsked /\ TodoAsked /\ IdsAsked /\ [Next]_vars
         => (OwnersAsked /\ TodoAsked /\ IdsAsked)'
  BY AskedStep, IdsStep
<1>3. TypeOK /\ CallsConsistent /\ ServedInv /\ IdsAsked /\ GroupsIsolated /\ [Next]_vars
         => [Service!Next]_<<AskedOf, GivenTo, ConfinedTo>>
  BY ServiceStep
<1>4. Spec => [](CallsConsistent /\ ServedInv)
  BY ServedInvariant
<1>5. Spec => []GroupsIsolated
  BY Isolation
<1> QED
  BY <1>1, <1>2, <1>3, <1>4, <1>5, ServiceInit, TypeCorrect, PTL
  DEF Spec, ServesClaims, Service!Spec, Service!vars
=============================================================================
