--------------------------- MODULE CapacityLedger ---------------------------
(***************************************************************************)
(* What the scheduler promises of capacity, however placements, retries,   *)
(* expiries and measurements interleave: a reservation is promised once,   *)
(* on an open node, and within what was last measured there beside all the *)
(* promises still in force.  A promise may end at any moment, and then for *)
(* good unless its confirmation had begun while it was in force.  What is  *)
(* measured and which nodes are open is up to the others.                  *)
(***************************************************************************)
EXTENDS Integers, FiniteSets, Functions

CONSTANTS
  Ids,               \* reservations
  Nodes, Resources,  \* where and of what capacity is promised
  Needs              \* what a reservation may ask for: [Resources -> Nat]

VARIABLES
  promise,     \* every promise ever made: from reservations to [node, need]
  held,        \* the reservations whose promise is in force
  confirming,  \* those whose confirmation has begun and not ended
  measured,    \* [Nodes -> the capacity last measured]
  open         \* the nodes that accept workloads

Load(n, r) ==
  SumFunction([id \in Ids |->
    IF id \in held /\ promise[id].node = n THEN promise[id].need[r] ELSE 0])

Init == DOMAIN promise = {} /\ held = {} /\ confirming = {}

Promise(id, n, need) ==
  /\ id \notin DOMAIN promise
  /\ n \in open
  /\ \A r \in Resources : need[r] > 0 => Load(n, r) + need[r] <= measured[n][r]
  /\ promise' = [i \in DOMAIN promise \cup {id} |->
                   IF i = id THEN [node |-> n, need |-> need] ELSE promise[i]]
  /\ held' = held \cup {id}
  /\ UNCHANGED <<confirming, measured, open>>

(* Promises end, confirmations begin, and one that ends may bring back what *)
(* ended meanwhile.                                                         *)
Settle ==
  /\ confirming' \subseteq confirming \cup held
  /\ held' \subseteq held \cup (confirming \ confirming')
  /\ UNCHANGED promise

Next == Settle \/ \E id \in Ids, n \in Nodes, need \in Needs : Promise(id, n, need)

Spec == Init /\ [][Next]_<<promise, held, confirming, measured, open>>
=============================================================================
