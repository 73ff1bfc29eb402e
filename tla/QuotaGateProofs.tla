-------------------------- MODULE QuotaGateProofs ---------------------------
(***************************************************************************)
(* Proofs about QuotaGate, for any finite sets of resources and users and  *)
(* any limits, without a condition on how long a creation takes.           *)
(***************************************************************************)
EXTENDS QuotaGate, FiniteSetTheorems, TLAPS

(* Creations that hold a live reservation and have no row yet. *)
Pending == {u \in Uuids : pc[u] = "creating" /\ IsActive(u)}

(* What counts against the plan: the rows an admission can see, and the rows *)
(* that are about to appear.                                                 *)
Visible == (rows \cup Pending) \ overlooked

PeakInv == peakLimit # Unlimited => limit # Unlimited /\ limit <= peakLimit

(* The admission under way compares with a limit that was in force. *)
GateInv == gate # None /\ peakLimit # Unlimited => gate.max # Unlimited /\ gate.max <= peakLimit

(* What exists and what is about to exist fits. *)
FitInv == peakLimit # Unlimited => Cardinality(Visible) <= peakLimit

IInv == TypeOK /\ PeakInv /\ GateInv /\ FitInv

LEMMA TypeStep ==
  ASSUME TypeOK, [Next]_vars
  PROVE  TypeOK'
<1> USE QuotaAssumption DEF TypeOK, AnyLimit, Stages, resourceVars, memberVars, planVars
<1>1. CASE SetTenantActive
  BY <1>1 DEF SetTenantActive
<1>2. ASSUME NEW max \in AnyLimit, NEW memberMax \in AnyLimit, ChangePlan(max, memberMax)
  PROVE  TypeOK'
  BY <1>2 DEF ChangePlan, LargerLimit
<1>3. ASSUME NEW u \in Uuids, Count(u)
  PROVE  TypeOK'
  BY <1>3 DEF Count, Gates
<1>4. ASSUME NEW u \in Uuids, Creating(u)
  PROVE  TypeOK'
  BY <1>4 DEF Creating, InNeitherRead, Reservations
<1>5. ASSUME NEW u \in Uuids, Insert(u)
  PROVE  TypeOK'
  BY <1>5 DEF Insert
<1>6. ASSUME NEW u \in Uuids, Abandon(u)
  PROVE  TypeOK'
  BY <1>6 DEF Abandon
<1>7. ASSUME NEW u \in Uuids, Created(u)
  PROVE  TypeOK'
  BY <1>7 DEF Created, Reservations
<1>8. ASSUME NEW u \in Uuids, Import(u)
  PROVE  TypeOK'
  BY <1>8 DEF Import, InNeitherRead, Reservations
<1>9. ASSUME NEW u \in Uuids, Delete(u)
  PROVE  TypeOK'
  BY <1>9 DEF Delete
<1>10. CASE TurnedAway
  BY <1>10 DEF TurnedAway
<1>11. ASSUME NEW x \in Users, Attach(x) \/ LoginAttach(x) \/ RemoveMember(x)
  PROVE  TypeOK'
  BY <1>11 DEF Attach, LoginAttach, RemoveMember
<1>12. CASE Tick
  <2>1. rsv' \in [Uuids -> Reservations \cup {None}]
    BY <1>12 DEF Tick, Reservations
  <2> QED
    BY <1>12, <2>1 DEF Tick
<1>13. CASE UNCHANGED vars
  BY <1>13 DEF vars
<1> QED
  BY <1>1, <1>2, <1>3, <1>4, <1>5, <1>6, <1>7, <1>8, <1>9, <1>10, <1>11, <1>12, <1>13
  DEF Next, ResourceStep, MemberStep

LEMMA VisibleIsFinite ==
  ASSUME TypeOK
  PROVE  IsFiniteSet(Visible) /\ Cardinality(Visible) \in Nat
<1>1. Visible \subseteq Uuids
  BY DEF TypeOK, Visible, Pending
<1> QED
  BY <1>1, QuotaAssumption, FS_Subset, FS_CardinalityType

(* Whatever the gate lets pass fits: all that can be seen afterwards is in   *)
(* the first read, in the second, or the new resource itself.                *)
LEMMA Admission ==
  ASSUME IInv, NEW u \in Uuids, Admits(u), peakLimit # Unlimited,
         NEW S, S \subseteq gate.seen \cup Reserved \cup {u}
  PROVE  Cardinality(S) <= peakLimit
<1> DEFINE A == gate.seen
           R == Reserved
<1>1. /\ A \subseteq Uuids /\ R \subseteq Uuids
      /\ gate.max \in Nat /\ peakLimit \in Nat /\ gate.max <= peakLimit
  BY QuotaAssumption DEF IInv, TypeOK, GateInv, Admits, Gates, AnyLimit, Reserved
<1>2. Cardinality(A) + Cardinality(R) + 1 <= gate.max
  BY <1>1, QuotaAssumption DEF Admits, CanCreate
<1>3. S \subseteq (A \cup R) \cup {u}
  OBVIOUS
<1> HIDE DEF A, R
<1>4. IsFiniteSet(A) /\ IsFiniteSet(R) /\ IsFiniteSet(A \cap R) /\ IsFiniteSet(A \cup R)
  BY <1>1, QuotaAssumption, FS_Subset, FS_Intersection, FS_Union
<1>5. /\ Cardinality(A) \in Nat /\ Cardinality(R) \in Nat
      /\ Cardinality(A \cap R) \in Nat /\ Cardinality(A \cup R) \in Nat
  BY <1>4, FS_CardinalityType
<1>6. Cardinality(A \cup R) = Cardinality(A) + Cardinality(R) - Cardinality(A \cap R)
  BY <1>4, FS_Union
<1>7. /\ IsFiniteSet((A \cup R) \cup {u})
      /\ Cardinality((A \cup R) \cup {u}) =
           IF u \in A \cup R THEN Cardinality(A \cup R) ELSE Cardinality(A \cup R) + 1
  BY <1>4, FS_AddElement
<1>8. /\ IsFiniteSet(S)
      /\ Cardinality(S) <= Cardinality((A \cup R) \cup {u})
  BY <1>3, <1>7, FS_Subset
<1>9. Cardinality(S) \in Nat /\ Cardinality((A \cup R) \cup {u}) \in Nat
  BY <1>7, <1>8, FS_CardinalityType
<1> QED
  BY <1>1, <1>2, <1>5, <1>6, <1>7, <1>8, <1>9

(* Fewer visible resources still fit. *)
LEMMA Shrink ==
  ASSUME IInv, TypeOK', UNCHANGED peakLimit, Visible' \subseteq Visible
  PROVE  FitInv'
<1> SUFFICES ASSUME peakLimit # Unlimited
             PROVE  Cardinality(Visible') <= peakLimit
  BY DEF FitInv
<1>1. IsFiniteSet(Visible) /\ Cardinality(Visible) \in Nat
  BY VisibleIsFinite DEF IInv
<1>2. IsFiniteSet(Visible') /\ Cardinality(Visible') <= Cardinality(Visible)
  BY <1>1, FS_Subset
<1>3. Cardinality(Visible') \in Nat
  BY <1>2, FS_CardinalityType
<1>4. peakLimit \in Nat /\ Cardinality(Visible) <= peakLimit
  BY QuotaAssumption DEF IInv, TypeOK, FitInv, AnyLimit
<1> QED
  BY <1>1, <1>2, <1>3, <1>4

(* One step per action; only an admission can add to what is visible. *)
LEMMA Inductive ==
  ASSUME IInv, [Next]_vars
  PROVE  IInv'
<1> USE QuotaAssumption
<1>1. TypeOK'
  BY TypeStep DEF IInv
<1>2. TypeOK /\ PeakInv /\ GateInv /\ FitInv
  BY DEF IInv
<1>3. ASSUME UNCHANGED <<limit, peakLimit>>, gate' = gate \/ gate' = None, Visible' \subseteq Visible
  PROVE  IInv'
  BY <1>1, <1>2, <1>3, Shrink DEF IInv, PeakInv, GateInv
<1>4. CASE SetTenantActive
  BY <1>3, <1>4 DEF SetTenantActive, resourceVars, Visible, Pending, IsActive
<1>5. ASSUME NEW max \in AnyLimit, NEW memberMax \in AnyLimit, ChangePlan(max, memberMax)
  PROVE  IInv'
  <2>1. /\ UNCHANGED <<rsv, rows, pc, overlooked, gate>>
        /\ limit' = max /\ peakLimit' = LargerLimit(peakLimit, max)
    BY <1>5 DEF ChangePlan, resourceVars
  <2>2. ASSUME peakLimit' # Unlimited
    PROVE  /\ peakLimit # Unlimited /\ peakLimit <= peakLimit'
           /\ limit' # Unlimited /\ limit' <= peakLimit'
           /\ peakLimit \in Nat /\ peakLimit' \in Nat
    BY <1>2, <2>1, <2>2 DEF LargerLimit, AnyLimit, TypeOK
  <2>3. PeakInv'
    BY <2>2 DEF PeakInv
  <2>4. GateInv'
    <3> SUFFICES ASSUME gate # None, peakLimit' # Unlimited
                 PROVE  gate.max # Unlimited /\ gate.max <= peakLimit'
      BY <2>1 DEF GateInv
    <3>1. gate.max # Unlimited /\ gate.max <= peakLimit /\ gate.max \in AnyLimit
      BY <1>2, <2>2 DEF GateInv, TypeOK, Gates
    <3>2. peakLimit \in Nat /\ peakLimit' \in Nat /\ peakLimit <= peakLimit'
      BY <2>2
    <3>3. gate.max \in Nat
      BY <3>1 DEF AnyLimit
    <3> QED
      BY <3>1, <3>2, <3>3
  <2>5. FitInv'
    BY <1>2, <2>1, <2>2, VisibleIsFinite DEF FitInv, Visible, Pending, IsActive
  <2> QED
    BY <1>1, <2>3, <2>4, <2>5 DEF IInv
<1>6. ASSUME NEW u \in Uuids, Count(u)
  PROVE  IInv'
  <2>1. UNCHANGED <<limit, peakLimit, rows, rsv, pc, overlooked>>
    BY <1>6 DEF Count, planVars, resourceVars
  <2>2. GateInv'
    BY <1>2, <1>6, <2>1 DEF Count, GateInv, PeakInv
  <2>3. FitInv' /\ PeakInv'
    BY <1>2, <2>1 DEF FitInv, PeakInv, Visible, Pending, IsActive
  <2> QED
    BY <1>1, <2>2, <2>3 DEF IInv
<1>7. ASSUME NEW u \in Uuids, Creating(u) \/ Import(u)
  PROVE  IInv'
  <2>1. /\ UNCHANGED <<limit, peakLimit>> /\ gate' = None /\ Admits(u)
        /\ overlooked' = overlooked \cup InNeitherRead
        /\ rows' \subseteq rows \cup {u}
        /\ \A v \in Uuids \ {u} : pc'[v] = pc[v] /\ rsv'[v] = rsv[v]
    BY <1>2, <1>7 DEF Creating, Import, planVars, TypeOK
  <2>2. Visible' \subseteq gate.seen \cup Reserved \cup {u}
    BY <2>1 DEF Visible, Pending, InNeitherRead, Reserved, IsActive
  <2>3. FitInv'
    BY <2>1, <2>2, Admission DEF FitInv
  <2>4. PeakInv' /\ GateInv'
    BY <1>2, <2>1 DEF PeakInv, GateInv
  <2> QED
    BY <1>1, <2>3, <2>4 DEF IInv
<1>8. ASSUME NEW u \in Uuids, Insert(u)
  PROVE  IInv'
  <2>1. UNCHANGED <<limit, peakLimit, gate>>
    BY <1>8 DEF Insert, planVars
  <2>2. Visible' \subseteq Visible
    BY <1>2, <1>8 DEF Insert, Visible, Pending, IsActive, TypeOK
  <2> QED
    BY <1>3, <2>1, <2>2
<1>9. ASSUME NEW u \in Uuids, Abandon(u)
  PROVE  IInv'
  <2>1. UNCHANGED <<limit, peakLimit, gate>>
    BY <1>9 DEF Abandon, planVars
  <2>2. Visible' \subseteq Visible
    BY <1>2, <1>9 DEF Abandon, Visible, Pending, IsActive, TypeOK
  <2> QED
    BY <1>3, <2>1, <2>2
<1>10. ASSUME NEW u \in Uuids, Created(u)
  PROVE  IInv'
  <2>1. UNCHANGED <<limit, peakLimit, gate, rows, overlooked>>
    BY <1>10 DEF Created, planVars
  <2>2. \A v \in Uuids : pc'[v] = "creating" => pc[v] = "creating" /\ rsv'[v] = rsv[v]
    BY <1>2, <1>10 DEF Created, TypeOK
  <2>3. Visible' \subseteq Visible
    BY <2>1, <2>2 DEF Visible, Pending, IsActive
  <2> QED
    BY <1>3, <2>1, <2>3
<1>11. ASSUME NEW u \in Uuids, Delete(u)
  PROVE  IInv'
  BY <1>3, <1>11 DEF Delete, planVars, Visible, Pending, IsActive
<1>12. CASE TurnedAway
  BY <1>3, <1>12 DEF TurnedAway, resourceVars, planVars, Visible, Pending, IsActive
<1>13. ASSUME NEW x \in Users, Attach(x) \/ LoginAttach(x) \/ RemoveMember(x)
  PROVE  IInv'
  BY <1>3, <1>13 DEF Attach, LoginAttach, RemoveMember, resourceVars, planVars, Visible, Pending, IsActive
<1>14. CASE Tick
  <2>1. UNCHANGED <<limit, peakLimit, rows, pc, overlooked, gate>>
    BY <1>14 DEF Tick, planVars
  <2>2. ASSUME NEW v \in Uuids, IsActive(v)'
    PROVE  IsActive(v)
    <3>1. rsv'[v] = IF rsv[v] # None /\ rsv[v].left > 0
                    THEN [status |-> rsv[v].status, left |-> rsv[v].left - 1] ELSE rsv[v]
      BY <1>14 DEF Tick
    <3> QED
      BY <2>2, <3>1 DEF IsActive
  <2>3. Visible' \subseteq Visible
    BY <2>1, <2>2 DEF Visible, Pending
  <2> QED
    BY <1>3, <2>1, <2>3
<1>15. CASE UNCHANGED vars
  BY <1>3, <1>15 DEF vars, Visible, Pending, IsActive
<1> QED
  BY <1>4, <1>5, <1>6, <1>7, <1>8, <1>9, <1>10, <1>11, <1>12, <1>13, <1>14, <1>15
  DEF Next, ResourceStep, MemberStep

LEMMA Initial ==
  ASSUME Init
  PROVE  IInv
<1>0. \A n \in Nat : n <= n
  OBVIOUS
<1> USE QuotaAssumption
<1>1. TypeOK
  BY DEF Init, TypeOK, Stages, AnyLimit
<1>2. Visible = {}
  BY DEF Init, Visible, Pending
<1>3. FitInv
  BY <1>1, <1>2, FS_EmptySet DEF FitInv, TypeOK, AnyLimit
<1>4. PeakInv
  <2>1. peakLimit = limit /\ limit \in Limits \cup {Unlimited} /\ Limits \subseteq Nat
    BY DEF Init, AnyLimit
  <2>2. limit # Unlimited => limit <= limit
    BY <1>0, <2>1, Zenon
  <2> QED
    BY <2>1, <2>2, Zenon DEF PeakInv
<1>5. GateInv
  BY DEF Init, GateInv
<1> QED
  BY <1>1, <1>3, <1>4, <1>5 DEF IInv

(* The columns of the gate's tables keep to their vocabularies. *)
THEOREM TypeCorrect == Spec => []TypeOK
<1>1. Init => TypeOK
  BY Initial DEF IInv
<1> QED
  BY <1>1, TypeStep, PTL DEF Spec

(* QuotaGate and its observer never let more resources exist than the        *)
(* largest limit in force, but for those that the two reads of assertCanCreate *)
(* cannot see: inserted after their reservation expired, or consumed between *)
(* the reads.  For any number of creations and imports and any delays.       *)
THEOREM QuotaKept == Spec => []ResourcesWithinLimit
<1>1. IInv => ResourcesWithinLimit
  <2> SUFFICES ASSUME IInv, peakLimit # Unlimited
               PROVE  Cardinality(rows \ overlooked) <= peakLimit
    BY DEF ResourcesWithinLimit
  <2>1. IsFiniteSet(Visible) /\ Cardinality(Visible) \in Nat
    BY VisibleIsFinite DEF IInv
  <2>2. rows \ overlooked \subseteq Visible
    BY DEF Visible
  <2>3. /\ IsFiniteSet(rows \ overlooked)
        /\ Cardinality(rows \ overlooked) <= Cardinality(Visible)
    BY <2>1, <2>2, FS_Subset
  <2>4. Cardinality(rows \ overlooked) \in Nat
    BY <2>3, FS_CardinalityType
  <2>5. peakLimit \in Nat /\ Cardinality(Visible) <= peakLimit
    BY QuotaAssumption DEF IInv, TypeOK, AnyLimit, FitInv
  <2> QED
    BY <2>1, <2>3, <2>4, <2>5
<1> QED
  BY <1>1, Initial, Inductive, PTL DEF Spec

(* The members limit now in force is one of those the peak has seen. *)
MemberPeakInv ==
  peakMembers # Unlimited => memberLimit # Unlimited /\ memberLimit <= peakMembers

MemberInv == TypeOK /\ MemberPeakInv /\ MembersWithinLimit

(* Fewer members who passed the count, under the same or a larger peak. *)
LEMMA FewerMembers ==
  ASSUME MemberInv, TypeOK', (members \ walkIns)' \subseteq members \ walkIns,
         peakMembers' # Unlimited => peakMembers # Unlimited /\ peakMembers <= peakMembers'
  PROVE  MembersWithinLimit'
<1> USE QuotaAssumption
<1> DEFINE M == members \ walkIns
<1>1. IsFiniteSet(M) /\ IsFiniteSet(Founders) /\ Cardinality(M) \in Nat
      /\ Cardinality(Founders) \in Nat
  <2>1. M \subseteq Users
    BY DEF MemberInv, TypeOK
  <2> QED
    BY <2>1, FS_Subset, FS_CardinalityType
<1>2. IsFiniteSet(M') /\ Cardinality(M') <= Cardinality(M) /\ Cardinality(M') \in Nat
  <2>1. M' \subseteq M
    OBVIOUS
  <2>2. IsFiniteSet(M') /\ Cardinality(M') <= Cardinality(M)
    BY <1>1, <2>1, FS_Subset
  <2> QED
    BY <2>2, FS_CardinalityType
<1>3. peakMembers \in AnyLimit /\ peakMembers' \in AnyLimit
  BY DEF MemberInv, TypeOK
<1> SUFFICES ASSUME peakMembers' # Unlimited
             PROVE  \/ Cardinality(M') <= peakMembers'
                    \/ Cardinality(M') <= Cardinality(Founders)
  BY DEF MembersWithinLimit
<1>4. \/ Cardinality(M) <= peakMembers
      \/ Cardinality(M) <= Cardinality(Founders)
  BY DEF MemberInv, MembersWithinLimit
<1>5. peakMembers \in Nat /\ peakMembers' \in Nat /\ peakMembers <= peakMembers'
  BY <1>3 DEF AnyLimit
<1> HIDE DEF M
<1> QED
  BY <1>1, <1>2, <1>4, <1>5

(* TeamMemberAdmission, with anyone joining by login, leaving and coming     *)
(* back: those who passed its count are within the largest members limit     *)
(* ever in force, or no more than the founders.                              *)
THEOREM MembersKept == Spec => []MembersWithinLimit
<1> USE QuotaAssumption
<1>1. Init => MemberInv
  <2> SUFFICES ASSUME Init PROVE MemberInv
    OBVIOUS
  <2>1. members \ walkIns = Founders
    BY DEF Init
  <2>2. Cardinality(Founders) \in Nat
    BY FS_Subset, FS_CardinalityType
  <2>3. TypeOK
    BY Initial DEF IInv
  <2> QED
    BY <2>1, <2>2, <2>3 DEF Init, MemberInv, MembersWithinLimit, MemberPeakInv, AnyLimit
<1>2. MemberInv /\ [Next]_vars => MemberInv'
  <2> SUFFICES ASSUME MemberInv, [Next]_vars PROVE MemberInv'
    OBVIOUS
  <2>1. TypeOK'
    BY TypeStep DEF MemberInv
  <2>2. ASSUME UNCHANGED <<memberLimit, peakMembers>>,
               (members \ walkIns)' \subseteq members \ walkIns
    PROVE  MemberInv'
    <3>1. peakMembers' # Unlimited => peakMembers # Unlimited /\ peakMembers <= peakMembers'
      BY <2>2 DEF MemberInv, TypeOK, AnyLimit
    <3> QED
      BY <2>1, <2>2, <3>1, FewerMembers DEF MemberInv, MemberPeakInv
  <2>3. ASSUME NEW max \in AnyLimit, NEW memberMax \in AnyLimit, ChangePlan(max, memberMax)
    PROVE  MemberInv'
    <3>1. /\ UNCHANGED <<members, walkIns>> /\ memberLimit' = memberMax
          /\ peakMembers' = LargerLimit(peakMembers, memberMax)
      BY <2>3 DEF ChangePlan, memberVars
    <3>2. ASSUME peakMembers' # Unlimited
      PROVE  /\ peakMembers # Unlimited /\ peakMembers <= peakMembers'
             /\ memberLimit' # Unlimited /\ memberLimit' <= peakMembers'
      <4>1. peakMembers \in Limits \cup {Unlimited} /\ memberMax \in Limits \cup {Unlimited}
        BY DEF MemberInv, TypeOK, AnyLimit
      <4>2. peakMembers # Unlimited /\ memberMax # Unlimited
        BY <3>1, <3>2 DEF LargerLimit
      <4>3. peakMembers \in Nat /\ memberMax \in Nat
        BY <4>1, <4>2
      <4>4. peakMembers' = IF peakMembers < memberMax THEN memberMax ELSE peakMembers
        BY <3>1, <4>2 DEF LargerLimit
      <4> QED
        BY <3>1, <4>2, <4>3, <4>4
    <3> QED
      BY <2>1, <3>1, <3>2, FewerMembers DEF MemberInv, MemberPeakInv
  <2>4. ASSUME NEW x \in Users, Attach(x)
    PROVE  MemberInv'
    <3>1. /\ UNCHANGED <<memberLimit, peakMembers>> /\ x \notin members
          /\ members' = members \cup {x}
      BY <2>4 DEF Attach, planVars
    <3>2. CASE x \in admitted
      BY <2>2, <2>4, <3>1, <3>2 DEF Attach
    <3>3. CASE x \notin admitted /\ peakMembers # Unlimited
      <4>1. memberLimit \in Nat /\ peakMembers \in Nat /\ memberLimit <= peakMembers
        BY <3>3 DEF MemberInv, MemberPeakInv, TypeOK, AnyLimit
      <4>2. Cardinality(members) + 0 + 1 <= memberLimit
        BY <2>4, <3>3, <4>1 DEF Attach, CanCreate
      <4>3. IsFiniteSet(members) /\ Cardinality(members) \in Nat
        BY FS_Subset, FS_CardinalityType DEF MemberInv, TypeOK
      <4>4. IsFiniteSet(members') /\ Cardinality(members') = Cardinality(members) + 1
        BY <3>1, <4>3, FS_AddElement
      <4>5. /\ Cardinality(members' \ walkIns') <= Cardinality(members')
            /\ Cardinality(members' \ walkIns') \in Nat
        <5>1. members' \ walkIns' \subseteq members'
          OBVIOUS
        <5>2. /\ IsFiniteSet(members' \ walkIns')
              /\ Cardinality(members' \ walkIns') <= Cardinality(members')
          BY <4>4, <5>1, FS_Subset
        <5> QED
          BY <5>2, FS_CardinalityType
      <4>6. Cardinality(members' \ walkIns') <= peakMembers
        BY <4>1, <4>2, <4>3, <4>4, <4>5
      <4> QED
        BY <2>1, <3>1, <4>6 DEF MemberInv, MemberPeakInv, MembersWithinLimit
    <3>4. CASE peakMembers = Unlimited
      BY <2>1, <3>1, <3>4 DEF MemberInv, MemberPeakInv, MembersWithinLimit
    <3> QED
      BY <3>2, <3>3, <3>4
  <2>5. ASSUME NEW x \in Users, LoginAttach(x) \/ RemoveMember(x)
    PROVE  MemberInv'
    BY <2>2, <2>5 DEF LoginAttach, RemoveMember, planVars
  <2>6. CASE UNCHANGED <<memberLimit, peakMembers, members, walkIns>>
    BY <2>2, <2>6
  <2> QED
    BY <2>3, <2>4, <2>5, <2>6
    DEF Next, vars, ResourceStep, MemberStep, memberVars, planVars, SetTenantActive, Count,
        Creating, Insert, Abandon, Created, Import, Delete, TurnedAway, Tick
<1>3. MemberInv => MembersWithinLimit
  BY DEF MemberInv
<1> QED
  BY <1>1, <1>2, <1>3, PTL DEF Spec

=============================================================================
