---------------------------- MODULE ClaimService ----------------------------
(***************************************************************************)
(* What a user of claims relies on: a claim that is prepared is given as   *)
(* many consecutive ways as it asked for, which no other claim has, and    *)
(* its container is confined to them until it exits.  Nothing is said of   *)
(* groups, files, records, calls, errors or crashes: none of them shows.   *)
(***************************************************************************)
EXTENDS Ways

CONSTANTS
    Users,      \* the claims
    Domains,    \* the L3 domains of the node
    Nowhere     \* the claim's container is not running

VARIABLES
    asked,      \* claim -> the <<domain, number of ways>> of its allocation
    given,      \* claim -> the <<domain, mask>> it has been given
    confined    \* claim -> the one its container is limited to, or Nowhere

vars == <<asked, given, confined>>

Init ==
    /\ asked = [c \in Users |-> {}]
    /\ given = [c \in Users |-> {}]
    /\ confined = [c \in Users |-> Nowhere]

Apart(p, q) == p[1] = q[1] => p[2] \cap q[2] = {}

Ask(c) ==
    /\ asked[c] = {}
    /\ \E sizes \in SUBSET (Domains \X (1 .. NumWays)) :
          asked' = [asked EXCEPT ![c] = sizes]
    /\ UNCHANGED <<given, confined>>

\* All that was asked for, at once.
Give(c) ==
    /\ given[c] = {}
    /\ \E parts \in SUBSET (Domains \X CBM) :
          /\ {<<p[1], Cardinality(p[2])>> : p \in parts} = asked[c]
          /\ \A p \in parts : Contiguous(p[2])
          /\ \A p, q \in parts : p # q => Apart(p, q)
          /\ \A x \in Users \ {c} : \A p \in parts, q \in given[x] : Apart(p, q)
          /\ given' = [given EXCEPT ![c] = parts]
    /\ UNCHANGED <<asked, confined>>

Start(c) ==
    /\ confined[c] = Nowhere
    /\ \E p \in given[c] : confined' = [confined EXCEPT ![c] = p]
    /\ UNCHANGED <<asked, given>>

Exit(c) ==
    /\ confined' = [confined EXCEPT ![c] = Nowhere]
    /\ UNCHANGED <<asked, given>>

\* Not under a running container.
Withdraw(c) ==
    /\ confined[c] = Nowhere
    /\ given' = [given EXCEPT ![c] = {}]
    /\ UNCHANGED <<asked, confined>>

Forget(c) ==
    /\ given[c] = {}
    /\ asked' = [asked EXCEPT ![c] = {}]
    /\ UNCHANGED <<given, confined>>

Next ==
    \E c \in Users : Ask(c) \/ Give(c) \/ Start(c) \/ Exit(c) \/ Withdraw(c) \/ Forget(c)

Spec == Init /\ [][Next]_vars
=============================================================================
