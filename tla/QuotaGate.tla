----------------------------- MODULE QuotaGate ------------------------------
(***************************************************************************)
(* Plan quotas of one tenant: app/Services/OnePloy/QuotaGate.php and its   *)
(* two callers, the ResourceQuotaObserver around every model creation and  *)
(* TeamMemberAdmission around membership.                                  *)
(*                                                                         *)
(* A resource is created in three database transactions: the "creating"    *)
(* event reserves a slot under the team lock, the INSERT runs, the         *)
(* "created" event consumes the reservation.  The first one reads the rows *)
(* and the reservations in two statements, and neither the INSERT nor      *)
(* consume() takes the team lock, so a resource that goes from one table   *)
(* to the other between the two reads is seen in neither.  A crash         *)
(* anywhere leaves the reservation to its 15 minutes.  Membership is       *)
(* admitted in one transaction under the team lock.                        *)
(*                                                                         *)
(* A platform team is never limited and is not modelled.  All callers      *)
(* reserve a quantity of one.                                              *)
(***************************************************************************)
EXTENDS Integers, FiniteSets

CONSTANTS
  Uuids,             \* the resources that may be created
  Users,             \* the people who may be members
  Founders,          \* members attached when the team was made
  RemovableUsers,    \* members an admin may remove
  LoginInvitees,     \* users whose invitation is accepted by logging in
  Limits,            \* numeric limits a plan may set
  Unlimited,         \* the null limit
  ReservationTtl,    \* in clock steps
  None

ASSUME QuotaAssumption ==
  /\ IsFiniteSet(Uuids) /\ IsFiniteSet(Users)
  /\ Founders \subseteq Users
  /\ Limits \subseteq Nat
  /\ Unlimited \notin Nat
  /\ ReservationTtl \in Nat \ {0}
  /\ None \notin [status : {"reserved", "consumed", "released"}, left : 0..ReservationTtl]
  /\ None \notin [by : Uuids, max : Limits \cup {Unlimited}, seen : SUBSET Uuids]

VARIABLES
  tenantActive,  \* Team::isTenantActive()
  limit,         \* the entitlement for the resource quota
  memberLimit,   \* the entitlement for members.max
  pc,            \* [Uuids -> where the creation of the resource stands]
  rsv,           \* [Uuids -> its quota reservation, or None]
  rows,          \* the resources that exist
  members,       \* the users in team_user
  admitted,      \* users with a (consumed) team-member reservation
  gate,          \* the transaction that holds the team lock between its two reads, or None
  peakLimit,     \* history: the largest resource limit ever in force
  peakMembers,   \* history: the largest members limit ever in force
  overlooked,    \* history: resources that no admission could see
  walkIns        \* history: members who did not pass the members count

vars == <<tenantActive, limit, memberLimit, pc, rsv, rows, members, admitted, gate,
          peakLimit, peakMembers, overlooked, walkIns>>
resourceVars == <<pc, rsv, rows, overlooked>>
memberVars == <<members, admitted, walkIns>>
planVars == <<tenantActive, limit, memberLimit, peakLimit, peakMembers>>

AnyLimit == Limits \cup {Unlimited}
Reservations == [status : {"reserved", "consumed", "released"}, left : 0..ReservationTtl]
Stages == {"new", "creating", "inserted", "ended"}
Gates == [by : Uuids, max : AnyLimit, seen : SUBSET Uuids]

TypeOK ==
  /\ tenantActive \in BOOLEAN
  /\ limit \in AnyLimit /\ memberLimit \in AnyLimit
  /\ peakLimit \in AnyLimit /\ peakMembers \in AnyLimit
  /\ pc \in [Uuids -> Stages]
  /\ rsv \in [Uuids -> Reservations \cup {None}]
  /\ rows \subseteq Uuids /\ overlooked \subseteq Uuids
  /\ members \subseteq Users /\ admitted \subseteq Users /\ walkIns \subseteq Users
  /\ gate \in Gates \cup {None}

-----------------------------------------------------------------------------
\* Mutant: an expired reservation still counts.
ActiveForEver(u) == rsv[u] # None /\ rsv[u].status = "reserved"

\* Only reserved rows that have not expired count; a consumed one is a row.
IsActive(u) == rsv[u] # None /\ rsv[u].status = "reserved" /\ rsv[u].left > 0

Reserved == {u \in Uuids : IsActive(u)}

\* Mutant: off by one at the limit.
CanCreateOneMore(max, used, reserved) ==
  /\ tenantActive
  /\ max # Unlimited => used + reserved <= max

\* assertCanCreate() for a quantity of one.
CanCreate(max, used, reserved) ==
  /\ tenantActive
  /\ max # Unlimited => used + reserved + 1 <= max

LargerLimit(a, b) ==
  IF a = Unlimited \/ b = Unlimited THEN Unlimited ELSE IF a < b THEN b ELSE a

-----------------------------------------------------------------------------
Init ==
  /\ tenantActive = TRUE
  /\ limit \in AnyLimit /\ memberLimit \in AnyLimit
  /\ peakLimit = limit /\ peakMembers = memberLimit
  /\ pc = [u \in Uuids |-> "new"]
  /\ rsv = [u \in Uuids |-> None]
  /\ rows = {} /\ overlooked = {}
  /\ members = Founders /\ admitted = {} /\ walkIns = {}
  /\ gate = None

(* An operator suspends or reactivates the tenant: an update of the team row, *)
(* which waits for the lock.                                                  *)
SetTenantActive ==
  /\ gate = None
  /\ tenantActive' = ~tenantActive
  /\ UNCHANGED <<limit, memberLimit, peakLimit, peakMembers, gate, resourceVars, memberVars>>

(* A purchase replaces the entitlements the resolver reads. *)
ChangePlan(max, memberMax) ==
  /\ limit' = max /\ memberLimit' = memberMax
  /\ peakLimit' = LargerLimit(peakLimit, max)
  /\ peakMembers' = LargerLimit(peakMembers, memberMax)
  /\ UNCHANGED <<tenantActive, gate, resourceVars, memberVars>>

(* The "creating" event: reserveIfLimited() takes the team lock, finds no    *)
(* reservation for the model's fresh uuid, and reads the limit (once: the    *)
(* resolver keeps it) and the rows.                                          *)
Count(u) ==
  /\ gate = None
  /\ pc[u] = "new" /\ rsv[u] = None /\ tenantActive
  /\ gate' = [by |-> u, max |-> limit, seen |-> rows]
  /\ UNCHANGED <<resourceVars, memberVars, planVars>>

\* What the second read lets pass: the rows counted before, the reservations now.
Admits(u) ==
  /\ gate # None /\ gate.by = u
  /\ CanCreate(gate.max, Cardinality(gate.seen), Cardinality(Reserved))

\* Rows that are in neither read.
InNeitherRead == rows \ (gate.seen \cup Reserved)

(* The second read, the comparison and the reservation; the commit gives the *)
(* lock back.  An unlimited plan leaves no reservation.                      *)
Creating(u) ==
  /\ Admits(u)
  /\ gate' = None
  /\ pc' = [pc EXCEPT ![u] = "creating"]
  /\ rsv' = IF gate.max = Unlimited THEN rsv
            ELSE [rsv EXCEPT ![u] = [status |-> "reserved", left |-> ReservationTtl]]
  /\ overlooked' = overlooked \cup InNeitherRead
  /\ UNCHANGED <<rows, memberVars, planVars>>

(* The gate throws, or the process dies: the transaction is rolled back. *)
TurnedAway ==
  /\ gate # None
  /\ gate' = None
  /\ UNCHANGED <<resourceVars, memberVars, planVars>>

(* The INSERT, under no lock, early or late. *)
Insert(u) ==
  /\ pc[u] = "creating"
  /\ pc' = [pc EXCEPT ![u] = "inserted"]
  /\ rows' = rows \cup {u}
  /\ overlooked' = IF IsActive(u) THEN overlooked ELSE overlooked \cup {u}
  /\ UNCHANGED <<rsv, gate, memberVars, planVars>>

(* The INSERT fails, or the process dies before or after it: nothing in an   *)
(* ordinary creation path releases the reservation.                          *)
Abandon(u) ==
  /\ pc[u] \in {"creating", "inserted"}
  /\ pc' = [pc EXCEPT ![u] = "ended"]
  /\ UNCHANGED <<rsv, rows, overlooked, gate, memberVars, planVars>>

(* The "created" event.  consume() of an expired reservation throws after    *)
(* the row is committed, so the row stays and so does the reservation.       *)
Created(u) ==
  /\ pc[u] = "inserted"
  /\ pc' = [pc EXCEPT ![u] = "ended"]
  /\ rsv' = IF IsActive(u)
            THEN [rsv EXCEPT ![u] = [status |-> "consumed", left |-> 0]]
            ELSE rsv
  /\ UNCHANGED <<rows, overlooked, gate, memberVars, planVars>>

(* A server import saves without events inside one transaction that it rolls *)
(* back on any error: it goes through the same two reads, and the lock is    *)
(* held until the row and its consumed reservation are committed together.   *)
Import(u) ==
  /\ Admits(u) /\ u \notin rows
  /\ gate' = None
  /\ pc' = [pc EXCEPT ![u] = "ended"]
  /\ rsv' = IF gate.max = Unlimited THEN rsv
            ELSE [rsv EXCEPT ![u] = [status |-> "consumed", left |-> 0]]
  /\ rows' = rows \cup {u}
  /\ overlooked' = overlooked \cup InNeitherRead
  /\ UNCHANGED <<memberVars, planVars>>

Delete(u) ==
  /\ u \in rows /\ pc[u] = "ended"
  /\ rows' = rows \ {u}
  /\ UNCHANGED <<pc, rsv, overlooked, gate, memberVars, planVars>>

-----------------------------------------------------------------------------
(* TeamMemberAdmission::attach().  The key names the user, so a user who was *)
(* a member before has a consumed reservation already: it is returned before *)
(* the quota is looked at, and consume() accepts it.                         *)
Attach(x) ==
  /\ gate = None
  /\ x \notin members
  /\ x \in admitted \/ CanCreate(memberLimit, Cardinality(members), 0)
  /\ members' = members \cup {x}
  /\ admitted' = IF memberLimit = Unlimited THEN admitted ELSE admitted \cup {x}
  /\ walkIns' = IF x \in admitted THEN walkIns \cup {x} ELSE walkIns \ {x}
  /\ UNCHANGED <<gate, resourceVars, planVars>>

(* Logging in with a pending invitation attaches without the gate. *)
LoginAttach(x) ==
  /\ x \in LoginInvitees \ members
  /\ members' = members \cup {x}
  /\ walkIns' = walkIns \cup {x}
  /\ UNCHANGED <<admitted, gate, resourceVars, planVars>>

(* An admin removes a member: the pivot row goes, the reservation stays. *)
RemoveMember(x) ==
  /\ x \in RemovableUsers \cap members
  /\ members' = members \ {x}
  /\ UNCHANGED <<admitted, walkIns, gate, resourceVars, planVars>>

-----------------------------------------------------------------------------
Tick ==
  /\ rsv' = [u \in Uuids |->
               IF rsv[u] # None /\ rsv[u].left > 0
               THEN [status |-> rsv[u].status, left |-> rsv[u].left - 1] ELSE rsv[u]]
  /\ UNCHANGED <<pc, rows, overlooked, gate, memberVars, planVars>>

ResourceStep ==
  \E u \in Uuids :
    Count(u) \/ Creating(u) \/ Insert(u) \/ Abandon(u) \/ Created(u) \/ Import(u) \/ Delete(u)

MemberStep == \E x \in Users : Attach(x) \/ LoginAttach(x) \/ RemoveMember(x)

Next ==
  \/ SetTenantActive
  \/ \E max, memberMax \in AnyLimit : ChangePlan(max, memberMax)
  \/ ResourceStep
  \/ TurnedAway
  \/ MemberStep
  \/ Tick

Spec == Init /\ [][Next]_vars

(* Time passes. *)
LiveSpec == Spec /\ WF_vars(Tick)

-----------------------------------------------------------------------------
(* Concurrent creations never take the same last slot as long as one of them *)
(* can see the other: however reservations, inserts, crashes, deletions and  *)
(* plan changes interleave, no more resources exist than the largest limit   *)
(* ever in force, apart from those inserted after their reservation expired  *)
(* and those that went from reserved to consumed between the two reads of an *)
(* admission (QuotaGate::assertCanCreate reads rows, then reservations).     *)
ResourcesWithinLimit ==
  peakLimit # Unlimited => Cardinality(rows \ overlooked) <= peakLimit

(* What the platform document says without exception: transactions, locks    *)
(* and expiring reservations keep concurrent requests from consuming the     *)
(* same final quota slot, so no more resources exist than the largest limit  *)
(* ever in force (PLATFORM-V1.md:73).  The code does not keep it.            *)
FinalSlotTakenOnce == peakLimit # Unlimited => Cardinality(rows) <= peakLimit

(* The members who passed the count of TeamMemberAdmission::attach() are     *)
(* never more than the largest members limit ever in force (or than the      *)
(* founders): whatever joins by login, leaves and comes back meanwhile,      *)
(* only the last two kinds of arrival are not held to the limit.             *)
MembersWithinLimit ==
  peakMembers # Unlimited =>
    \/ Cardinality(members \ walkIns) <= peakMembers
    \/ Cardinality(members \ walkIns) <= Cardinality(Founders)

(* A slot that was reserved and never used is given back: no reservation     *)
(* counts against the plan for ever (15 minute expiry of reserveIfLimited).  *)
SlotReturns == \A u \in Uuids : (u \in Reserved) ~> (u \notin Reserved)

=============================================================================
