-------------------------- MODULE ComputeScheduler --------------------------
(***************************************************************************)
(* Managed compute placement: app/Services/OnePloy/ManagedComputeScheduler *)
(* with the capacity collector that feeds it, the node registrar, and the  *)
(* every-minute expiry sweep of app/Console/Kernel.php.                    *)
(*                                                                         *)
(* A reservation row is identified by its (team, idempotency key), which   *)
(* the database keeps unique.  Time is relative: a row carries the number  *)
(* of clock steps left until expires_at (0 means expires_at <= now()) and  *)
(* a snapshot carries its age, so the clock never has to be bounded.       *)
(*                                                                         *)
(* Transactions.  reserve() locks the team row and then every eligible     *)
(* node row before it reads the active reservations, so it is one step.    *)
(* consume() locks the team and the reservation but NO node: it reads the  *)
(* clock in isActive() and commits later, so it is two steps, and between  *)
(* them it holds its team lock and its row lock.                           *)
(***************************************************************************)
EXTENDS Integers, FiniteSets, FiniteSetsExt, Functions

CONSTANTS
  Teams, Keys,        \* tenants; idempotency keys
  Refs,               \* workload references passed to consume()
  Nodes,              \* node ids: naturals, since the id breaks ties
  Pools, PoolOf,      \* compute pools; the pool of each node
  PoolConfigs,        \* what an operator may register: [region, classes]
  Requests,           \* [class, region, need] a caller may ask for
  Resources, Gpu,     \* the resource names, and the one that is not scaled
  Totals,             \* the raw totals a probe may report
  AllocationPercent, SystemReserve,
  ReservationTtl, SnapshotMaxAge,   \* in clock steps
  AnyRegion,          \* a null region
  None

ASSUME ResourceAssumption ==
  /\ Gpu \in Resources
  /\ Totals \subseteq [Resources -> Nat]
  /\ AllocationPercent \in 1..100
  /\ SystemReserve \in [Resources \ {Gpu} -> Nat]

ASSUME TimeAssumption ==
  /\ ReservationTtl \in Nat \ {0}
  /\ SnapshotMaxAge \in Nat \ {0}

ASSUME NodeAssumption == Nodes \subseteq Nat /\ PoolOf \in [Nodes -> Pools]

ASSUME FiniteAssumption ==
  IsFiniteSet(Teams) /\ IsFiniteSet(Keys) /\ IsFiniteSet(Nodes) /\ IsFiniteSet(Resources)

(* validateRequirements(): at least one of everything but gpu. *)
ASSUME RequestAssumption ==
  /\ \E r \in Resources : r # Gpu
  /\ \A req \in Requests :
       /\ req.need \in [Resources -> Nat]
       /\ \A r \in Resources \ {Gpu} : req.need[r] >= 1

VARIABLES
  tenantActive,  \* [Teams -> BOOLEAN]      Team::isTenantActive()
  pool,          \* [Pools -> config or None]
  node,          \* [Nodes -> health or None]: draining, probeError, snap
  res,           \* [Teams \X Keys -> row or None]
  consuming,     \* [Teams -> [key, ref] or None]: an open consume()
  peak,          \* history: the largest capacity ever recorded per node
  late           \* history: what consume() confirmed after its expiry

vars == <<tenantActive, pool, node, res, consuming, peak, late>>

Vectors == [Resources -> Nat]
Zero == [r \in Resources |-> 0]

Snapshots == [cap : Vectors, age : 0..SnapshotMaxAge + 1]
Health == [draining : BOOLEAN, probeError : BOOLEAN, snap : Snapshots \cup {None}]
Statuses == {"reserved", "consumed", "released", "expired"}
Rows == [node : Nodes, request : Requests, status : Statuses,
         left : 0..ReservationTtl, ref : Refs \cup {None}]

ASSUME NullAssumption == None \notin Rows

TypeOK ==
  /\ tenantActive \in [Teams -> BOOLEAN]
  /\ pool \in [Pools -> PoolConfigs \cup {None}]
  /\ node \in [Nodes -> Health \cup {None}]
  /\ res \in [Teams \X Keys -> Rows \cup {None}]
  /\ consuming \in [Teams -> [key : Keys, ref : Refs] \cup {None}]
  /\ peak \in [Nodes -> Vectors]
  /\ late \subseteq Teams \X Keys

-----------------------------------------------------------------------------
(* Capacity: what a probe's totals leave for tenants.                      *)

\* Mutant: the system reserve may leave less than nothing.
AllocatableUnclamped(total) ==
  [r \in Resources |->
     IF r = Gpu THEN total[r]
     ELSE (total[r] * AllocationPercent) \div 100 - SystemReserve[r]]

AllocatableCapacity(total) ==
  [r \in Resources |->
     IF r = Gpu THEN total[r]
     ELSE Max({0, (total[r] * AllocationPercent) \div 100 - SystemReserve[r]})]

-----------------------------------------------------------------------------
(* Reservations.                                                           *)

IsActive(row) ==
  /\ row # None
  /\ \/ row.status = "consumed"
     \/ row.status = "reserved" /\ row.left > 0

ActiveOn(n) == {id \in Teams \X Keys : IsActive(res[id]) /\ res[id].node = n}

\* Mutant: what is consumed no longer counts.
ClaimedReservedOnly(n) ==
  [r \in Resources |->
     SumFunction([id \in Teams \X Keys |->
                    IF id \in ActiveOn(n) /\ res[id].status = "reserved"
                    THEN res[id].request.need[r] ELSE 0])]

\* claimedResourcesByNode(): the sum of what active reservations ask of n.
Claimed(n) ==
  [r \in Resources |->
     SumFunction([id \in Teams \X Keys |->
                    IF id \in ActiveOn(n) THEN res[id].request.need[r] ELSE 0])]

\* Rows a transaction of consume() holds locked.
LockedRows ==
  {<<t, consuming[t].key>> : t \in {u \in Teams : consuming[u] # None}}

-----------------------------------------------------------------------------
(* Placement.                                                              *)

\* Mutant: a failed probe no longer quarantines.
EligibleDespiteProbeError(req) ==
  {n \in Nodes :
     /\ node[n] # None
     /\ ~node[n].draining
     /\ pool[PoolOf[n]] # None
     /\ req.region \in {AnyRegion, pool[PoolOf[n]].region}
     /\ req.class \in pool[PoolOf[n]].classes}

EligibleNodes(req) ==
  {n \in Nodes :
     /\ node[n] # None
     /\ ~node[n].draining /\ ~node[n].probeError
     /\ pool[PoolOf[n]] # None
     /\ req.region \in {AnyRegion, pool[PoolOf[n]].region}
     /\ req.class \in pool[PoolOf[n]].classes}

FreshNodes(req) ==
  {n \in EligibleNodes(req) :
     node[n].snap # None /\ node[n].snap.age <= SnapshotMaxAge}

\* Mutant: any snapshot of the node counts, not only its latest.
AvailableByLargest(n) ==
  [r \in Resources |-> Max({0, peak[n][r] - Claimed(n)[r]})]

AvailableBefore(n) ==
  [r \in Resources |-> Max({0, node[n].snap.cap[r] - Claimed(n)[r]})]

Fits(n, req) == \A r \in Resources : req.need[r] <= AvailableBefore(n)[r]

Candidates(req) == {n \in FreshNodes(req) : Fits(n, req)}

\* Only resources the node has at all are scored.
Scored(n) == {r \in Resources : node[n].snap.cap[r] > 0}
BasisPoints(x, cap) == (x * 10000) \div cap

LoadBasisPoints(n) ==
  Max({BasisPoints(Claimed(n)[r], node[n].snap.cap[r]) : r \in Scored(n)})

HeadroomBasisPoints(n, req) ==
  Min({BasisPoints(AvailableBefore(n)[r] - req.need[r], node[n].snap.cap[r])
         : r \in Scored(n)})

\* compareCandidates(): lowest load, then most headroom, then lowest id.
ComesBefore(m, n, req) ==
  \/ LoadBasisPoints(m) < LoadBasisPoints(n)
  \/ /\ LoadBasisPoints(m) = LoadBasisPoints(n)
     /\ \/ HeadroomBasisPoints(m, req) > HeadroomBasisPoints(n, req)
        \/ /\ HeadroomBasisPoints(m, req) = HeadroomBasisPoints(n, req)
           /\ m < n

Selected(req) ==
  CHOOSE n \in Candidates(req) :
    \A m \in Candidates(req) \ {n} : ComesBefore(n, m, req)

NewRow(n, req) ==
  [node |-> n, request |-> req, status |-> "reserved",
   left |-> ReservationTtl, ref |-> None]

-----------------------------------------------------------------------------
Init ==
  /\ tenantActive = [t \in Teams |-> TRUE]
  /\ pool = [p \in Pools |-> None]
  /\ node = [n \in Nodes |-> None]
  /\ res = [id \in Teams \X Keys |-> None]
  /\ consuming = [t \in Teams |-> None]
  /\ peak = [n \in Nodes |-> Zero]
  /\ late = {}

(* An operator suspends or reactivates a tenant. *)
SetTenantActive(t) ==
  /\ tenantActive' = [tenantActive EXCEPT ![t] = ~@]
  /\ UNCHANGED <<pool, node, res, consuming, peak, late>>

(* The registrar upserts the pool and creates the node if it is missing. *)
Register(n, cfg) ==
  /\ pool' = [pool EXCEPT ![PoolOf[n]] = cfg]
  /\ node' = IF node[n] # None THEN node
             ELSE [node EXCEPT ![n] =
                     [draining |-> FALSE, probeError |-> FALSE, snap |-> None]]
  /\ UNCHANGED <<tenantActive, res, consuming, peak, late>>

SetDraining(n) ==
  /\ node[n] # None
  /\ node' = [node EXCEPT ![n].draining = ~@]
  /\ UNCHANGED <<tenantActive, pool, res, consuming, peak, late>>

(* A probe succeeded: a new latest snapshot, and the error is cleared.  The *)
(* retention sweep keeps at least the newest snapshot, the only one read.   *)
Capture(n, total) ==
  LET cap == AllocatableCapacity(total) IN
  /\ node[n] # None
  /\ node' = [node EXCEPT ![n].snap = [cap |-> cap, age |-> 0],
                          ![n].probeError = FALSE]
  /\ peak' = [peak EXCEPT ![n] = [r \in Resources |-> Max({@[r], cap[r]})]]
  /\ UNCHANGED <<tenantActive, pool, res, consuming, late>>

(* A probe failed or reported nonsense: quarantine, the snapshot stays. *)
RecordFailure(n) ==
  /\ node[n] # None
  /\ node' = [node EXCEPT ![n].probeError = TRUE]
  /\ UNCHANGED <<tenantActive, pool, res, consuming, peak, late>>

(* A retry with a known key returns the existing row whatever its status,   *)
(* so only a new key changes state.  SELECT ... FOR UPDATE waits for any    *)
(* active row on a fresh node that a consume() transaction has locked; a    *)
(* row that is not active does not match and is not waited for.             *)
Reserve(t, k, req) ==
  /\ consuming[t] = None
  /\ res[<<t, k>>] = None
  /\ tenantActive[t]
  /\ Candidates(req) # {}
  /\ \A n \in FreshNodes(req) : ActiveOn(n) \cap LockedRows = {}
  /\ res' = [res EXCEPT ![<<t, k>>] = NewRow(Selected(req), req)]
  /\ UNCHANGED <<tenantActive, pool, node, consuming, peak, late>>

\* Mutant: only the status column is looked at, not the clock.
ConsumeCheckStatusOnly(t, k, ref) ==
  /\ consuming[t] = None
  /\ res[<<t, k>>] # None
  /\ res[<<t, k>>].status = "reserved"
  /\ consuming' = [consuming EXCEPT ![t] = [key |-> k, ref |-> ref]]
  /\ UNCHANGED <<tenantActive, pool, node, res, peak, late>>

(* consume(), first half: locks taken, status and clock checked. *)
ConsumeCheck(t, k, ref) ==
  /\ consuming[t] = None
  /\ res[<<t, k>>] # None
  /\ res[<<t, k>>].status = "reserved"
  /\ IsActive(res[<<t, k>>])
  /\ consuming' = [consuming EXCEPT ![t] = [key |-> k, ref |-> ref]]
  /\ UNCHANGED <<tenantActive, pool, node, res, peak, late>>

(* The database keeps (team, workload_reference) unique. *)
ReferenceTaken(t) ==
  \E k \in Keys : res[<<t, k>>] # None /\ res[<<t, k>>].ref = consuming[t].ref

(* consume(), second half: the update commits, however late by then. *)
ConsumeCommit(t) ==
  /\ consuming[t] # None
  /\ ~ReferenceTaken(t)
  /\ res' = [res EXCEPT ![<<t, consuming[t].key>>].status = "consumed",
                        ![<<t, consuming[t].key>>].left = 0,
                        ![<<t, consuming[t].key>>].ref = consuming[t].ref]
  /\ consuming' = [consuming EXCEPT ![t] = None]
  /\ late' = IF res[<<t, consuming[t].key>>].left > 0 THEN late
             ELSE late \cup {<<t, consuming[t].key>>}
  /\ UNCHANGED <<tenantActive, pool, node, peak>>

(* The unique index rejects the update, or the connection is lost. *)
ConsumeRollback(t) ==
  /\ consuming[t] # None
  /\ consuming' = [consuming EXCEPT ![t] = None]
  /\ UNCHANGED <<tenantActive, pool, node, res, peak, late>>

(* Consumed rows, and reserved rows past their expiry, are released too. *)
Release(t, k) ==
  /\ consuming[t] = None
  /\ res[<<t, k>>] # None
  /\ res[<<t, k>>].status \in {"reserved", "consumed"}
  /\ res' = [res EXCEPT ![<<t, k>>].status = "released", ![<<t, k>>].left = 0]
  /\ UNCHANGED <<tenantActive, pool, node, consuming, peak, late>>

\* Mutant: the sweep's status filter is wrong.
OverdueConsumed(id) == res[id] # None /\ res[id].status = "consumed"

Overdue(id) == res[id] # None /\ res[id].status = "reserved" /\ res[id].left = 0

(* The scheduled bulk update; it waits for rows locked by consume(). *)
Expire ==
  /\ \E id \in Teams \X Keys : Overdue(id)
  /\ \A id \in LockedRows : ~Overdue(id)
  /\ res' = [id \in Teams \X Keys |->
               IF Overdue(id) THEN [res[id] EXCEPT !.status = "expired"]
               ELSE res[id]]
  /\ UNCHANGED <<tenantActive, pool, node, consuming, peak, late>>

-----------------------------------------------------------------------------
OneStepOlder(n) ==
  IF node[n] = None \/ node[n].snap = None THEN node[n]
  ELSE [node[n] EXCEPT !.snap.age = Min({@ + 1, SnapshotMaxAge + 1})]

OneStepCloser(row) ==
  IF row # None /\ row.status = "reserved" /\ row.left > 0
  THEN [row EXCEPT !.left = @ - 1] ELSE row

(* The clock, which waits for nobody: a reservation may run out while a     *)
(* consume() that found it active is still open.                            *)
Tick ==
  /\ node' = [n \in Nodes |-> OneStepOlder(n)]
  /\ res' = [id \in Teams \X Keys |-> OneStepCloser(res[id])]
  /\ UNCHANGED <<tenantActive, pool, consuming, peak, late>>

Next ==
  \/ \E t \in Teams : SetTenantActive(t)
  \/ \E n \in Nodes, cfg \in PoolConfigs : Register(n, cfg)
  \/ \E n \in Nodes : SetDraining(n)
  \/ \E n \in Nodes, total \in Totals : Capture(n, total)
  \/ \E n \in Nodes : RecordFailure(n)
  \/ \E t \in Teams, k \in Keys, req \in Requests : Reserve(t, k, req)
  \/ \E t \in Teams, k \in Keys, ref \in Refs : ConsumeCheck(t, k, ref)
  \/ \E t \in Teams : ConsumeCommit(t)
  \/ \E t \in Teams : ConsumeRollback(t)
  \/ \E t \in Teams, k \in Keys : Release(t, k)
  \/ Expire
  \/ Tick

Spec == Init /\ [][Next]_vars

(* Time passes whatever the workers do, an open transaction ends one way or *)
(* the other, and the sweep runs every minute.                              *)
LiveSpec ==
  /\ Spec
  /\ WF_vars(Tick)
  /\ WF_vars(Expire)
  /\ \A t \in Teams : WF_vars(ConsumeCommit(t) \/ ConsumeRollback(t))

-----------------------------------------------------------------------------
(* What the reservations in R claim of resource r on node n. *)
ClaimedBy(R, n, r) ==
  SumFunction([id \in Teams \X Keys |->
                 IF id \in ActiveOn(n) \cap R THEN res[id].request.need[r] ELSE 0])

(* Capacity is promised twice only by a consume() that outlives the expiry  *)
(* it checked: apart from what was confirmed that late, the active          *)
(* reservations of a node never claim more than the largest capacity ever   *)
(* recorded for it, although they expire, are consumed and are released     *)
(* while others take what they give back (reserve, consume, expire).        *)
CapacityRespected ==
  \A n \in Nodes, r \in Resources :
    ClaimedBy((Teams \X Keys) \ late, n, r) <= peak[n][r]

Ended(id) == res[id] # None /\ ~IsActive(res[id]) /\ id \notin LockedRows

(* A reservation that holds no capacity and is not being consumed has       *)
(* ended for good: no idempotent retry, no consume() that begins now and no *)
(* sweep makes it active, since its capacity may belong to another          *)
(* placement.  Only a consume() that found it active may still confirm it.  *)
NeverRevived == [][\A id \in Teams \X Keys : Ended(id) => Ended(id)']_vars

(* A draining or quarantined node gets no new load: no placement, retry or  *)
(* registration puts a reservation on it; only a consume() that is already  *)
(* open may confirm one that expired there meanwhile (acceptingWorkloads).  *)
QuarantineHolds ==
  [][\A n \in Nodes :
       node[n] # None /\ (node[n].draining \/ node[n].probeError)
         => ActiveOn(n)' \subseteq
              ActiveOn(n) \cup {id \in LockedRows : res[id].node = n}]_vars

Promises ==
  [id \in {i \in Teams \X Keys : res[i] # None} |->
     [node |-> res[id].node, need |-> res[id].request.need]]
Held == {id \in Teams \X Keys : IsActive(res[id])}
Measured ==
  [n \in Nodes |->
     IF node[n] = None \/ node[n].snap = None THEN Zero ELSE node[n].snap.cap]
Open == {n \in Nodes : node[n] # None /\ ~node[n].draining /\ ~node[n].probeError}

Capacity == INSTANCE CapacityLedger WITH
  Ids <- Teams \X Keys, Needs <- {req.need : req \in Requests},
  promise <- Promises, held <- Held, confirming <- LockedRows,
  measured <- Measured, open <- Open

(* Placement keeps the ledger of CapacityLedger: a reservation is promised   *)
(* capacity once, on a node that accepts workloads and within what was last  *)
(* measured there beside all that is active, and what ended comes back only  *)
(* if a consume() had found it active before (reserve, consume, release,     *)
(* expire).                                                                  *)
ImplementsCapacityLedger == Capacity!Spec

Pending(id) == res[id] # None /\ res[id].status = "reserved"

(* An abandoned reservation does not stay reserved for ever: it is consumed, *)
(* released or swept (PLATFORM-V1: abandoned workflows release or expire).   *)
HoldEnds == \A id \in Teams \X Keys : Pending(id) ~> ~Pending(id)
=============================================================================
