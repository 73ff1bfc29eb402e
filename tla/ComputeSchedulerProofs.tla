----------------------- MODULE ComputeSchedulerProofs -----------------------
(***************************************************************************)
(* What holds of managed compute placement for any teams, keys, nodes,     *)
(* resources, requests and measured totals.                                *)
(*                                                                         *)
(* No property is inductive alone.  ConsumeCommit updates the row that an  *)
(* earlier transaction step checked, so LockedInv says what such a row is  *)
(* while its lock is held.  Reserve compares with the latest snapshot and  *)
(* the property with the largest one, so SnapInv relates the two.  The     *)
(* clock runs while a consume() is open: what it may confirm after the     *)
(* expiry is known by its lock, and WhoActivates says so.                  *)
(*                                                                         *)
(* Everything rests on reserve() finding a node at all among its           *)
(* candidates, that is, on compareCandidates() being a strict total order. *)
(* The last section shows that placement implements CapacityLedger.        *)
(***************************************************************************)
EXTENDS ComputeScheduler, SumLemmas

\* The row an open consume() holds locked still is what the consume() checked.
LockedRow(t) ==
  LET row == res[<<t, consuming[t].key>>] IN
  /\ row # None
  /\ row.status = "reserved"

LockedInv == \A t \in Teams : consuming[t] # None => LockedRow(t)

IInv == TypeOK /\ LockedInv

\* No snapshot is above the largest capacity recorded.
SnapInv ==
  \A n \in Nodes : node[n] # None =>
    (node[n].snap # None => \A r \in Resources : node[n].snap.cap[r] <= peak[n][r])

CapacityInv == IInv /\ SnapInv /\ CapacityRespected

-----------------------------------------------------------------------------
(* The choice among candidates.                                            *)

\* A finite set with a strict total order has a first element.
LEMMA FirstElement ==
  ASSUME NEW S, IsFiniteSet(S), S # {}, NEW R,
         \A x, y \in S : x # y => <<x, y>> \in R \/ <<y, x>> \in R,
         \A x, y, z \in S : <<x, y>> \in R /\ <<y, z>> \in R => <<x, z>> \in R
  PROVE  \E x \in S : \A y \in S \ {x} : <<x, y>> \in R
<1> DEFINE Led(s) == \E x \in s : \A y \in s \ {x} : <<x, y>> \in R
           Bad == {s \in SUBSET S : s # {} /\ ~Led(s)}
<1>1. ASSUME NEW s \in SUBSET S, s # {}, s \ {Chosen(s)} = {} \/ Led(s \ {Chosen(s)})
      PROVE  Led(s)
  <2> DEFINE c == Chosen(s)
  <2>1. c \in s
    BY <1>1, ChosenIn
  <2> HIDE DEF c
  <2>2. CASE s \ {c} = {}
    BY <2>1, <2>2
  <2>3. CASE Led(s \ {c})
    <3>1. PICK x \in s \ {c} : \A y \in (s \ {c}) \ {x} : <<x, y>> \in R
      BY <2>3
    <3>2. CASE <<x, c>> \in R
      BY <3>1, <3>2
    <3>3. CASE <<c, x>> \in R
      <4>1. \A y \in s \ {c} : <<c, y>> \in R
        BY <2>1, <3>1, <3>3
      <4> QED BY <2>1, <4>1
    <3> QED BY <2>1, <3>1, <3>2, <3>3
  <2> QED BY <1>1, <2>2, <2>3 DEF c
<1>2. \A s \in Bad : s # {} => s \ {Chosen(s)} \in Bad
  BY <1>1
<1>3. S \notin Bad
  <2>1. Bad \in SUBSET SUBSET S /\ {} \notin Bad
    OBVIOUS
  <2> HIDE DEF Bad
  <2> QED BY <1>2, <2>1, SetInduction
<1> QED BY <1>3

LEMMA MaxIn ==
  ASSUME NEW S \in SUBSET Int, IsFiniteSet(S), S # {}
  PROVE  Max(S) \in S
<1> DEFINE R == {p \in S \X S : p[1] > p[2]}
<1>1. \A x, y \in S : <<x, y>> \in R <=> x > y
  OBVIOUS
<1> HIDE DEF R
<1>2. \A x, y \in S : x # y => <<x, y>> \in R \/ <<y, x>> \in R
  BY <1>1
<1>3. \A x, y, z \in S : <<x, y>> \in R /\ <<y, z>> \in R => <<x, z>> \in R
  BY <1>1
<1>4. \E x \in S : \A y \in S \ {x} : <<x, y>> \in R
  BY <1>2, <1>3, FirstElement
<1>5. \E x \in S : \A y \in S : x >= y
  <2>1. PICK x \in S : \A y \in S \ {x} : <<x, y>> \in R
    BY <1>4
  <2>2. ASSUME NEW y \in S PROVE x >= y
    <3>1. CASE y = x
      BY <3>1
    <3>2. CASE y # x
      <4>1. <<x, y>> \in R
        BY <2>1, <3>2
      <4> QED BY <1>1, <4>1
    <3> QED BY <3>1, <3>2
  <2> QED BY <2>2
<1> QED BY <1>5 DEF Max

LEMMA MinIn ==
  ASSUME NEW S \in SUBSET Int, IsFiniteSet(S), S # {}
  PROVE  Min(S) \in S
<1> DEFINE R == {p \in S \X S : p[1] < p[2]}
<1>1. \A x, y \in S : <<x, y>> \in R <=> x < y
  OBVIOUS
<1> HIDE DEF R
<1>2. \A x, y \in S : x # y => <<x, y>> \in R \/ <<y, x>> \in R
  BY <1>1
<1>3. \A x, y, z \in S : <<x, y>> \in R /\ <<y, z>> \in R => <<x, z>> \in R
  BY <1>1
<1>4. \E x \in S : \A y \in S \ {x} : <<x, y>> \in R
  BY <1>2, <1>3, FirstElement
<1>5. \E x \in S : \A y \in S : x =< y
  <2>1. PICK x \in S : \A y \in S \ {x} : <<x, y>> \in R
    BY <1>4
  <2>2. ASSUME NEW y \in S PROVE x =< y
    <3>1. CASE y = x
      BY <3>1
    <3>2. CASE y # x
      <4>1. <<x, y>> \in R
        BY <2>1, <3>2
      <4> QED BY <1>1, <4>1
    <3> QED BY <3>1, <3>2
  <2> QED BY <2>2
<1> QED BY <1>5 DEF Min

LEMMA MaxOfTwo ==
  ASSUME NEW m \in Int, NEW n \in Int
  PROVE  Max({m, n}) \in {m, n} /\ Max({m, n}) >= m /\ Max({m, n}) >= n
<1>1. \E x \in {m, n} : \A y \in {m, n} : x >= y
  <2>1. CASE m >= n
    BY <2>1
  <2>2. CASE n >= m
    BY <2>2
  <2> QED BY <2>1, <2>2
<1>2. Max({m, n}) \in {m, n} /\ \A y \in {m, n} : Max({m, n}) >= y
  BY <1>1 DEF Max
<1> QED BY <1>2

LEMMA MaxWithZero == \A x \in Int : Max({0, x}) = 0 \/ Max({0, x}) = x
BY MaxOfTwo

\* The values of a function on a finite set are finitely many.
LEMMA FiniteImage ==
  ASSUME NEW S, IsFiniteSet(S), NEW f, DOMAIN f = S, f \in [S -> Int]
  PROVE  IsFiniteSet({f[x] : x \in S})
<1> DEFINE T == {f[x] : x \in S}
<1>1. f \in Surjection(S, T)
  BY DEF Surjection
<1> QED BY <1>1, FS_Surjection

LEMMA BasisPointsType ==
  ASSUME NEW x \in Int, NEW c \in Nat, c > 0
  PROVE  BasisPoints(x, c) \in Int
BY DEF BasisPoints

LEMMA ClaimedType ==
  ASSUME TypeOK, NEW n
  PROVE  /\ Claimed(n) \in Vectors
         /\ \A r \in Resources :
              [id \in Teams \X Keys |-> IF id \in ActiveOn(n) THEN res[id].request.need[r] ELSE 0]
                \in [Teams \X Keys -> Nat]
<1>1. ASSUME NEW r \in Resources
      PROVE  [id \in Teams \X Keys |-> IF id \in ActiveOn(n) THEN res[id].request.need[r] ELSE 0]
               \in [Teams \X Keys -> Nat]
  <2>1. ASSUME NEW id \in ActiveOn(n) PROVE res[id].request.need[r] \in Nat
    <3>1. res[id] \in Rows
      BY DEF ActiveOn, IsActive, TypeOK
    <3>2. res[id].request \in Requests
      BY <3>1 DEF Rows
    <3> QED BY <3>2, RequestAssumption
  <2> QED BY <2>1
<1>2. IsFiniteSet(Teams \X Keys)
  BY FiniteAssumption, FS_Product
<1>3. \A r \in Resources : Claimed(n)[r] \in Nat
  BY <1>1, <1>2, SumType DEF Claimed
<1>4. Claimed(n) \in Vectors
  BY <1>3 DEF Claimed, Vectors
<1> QED BY <1>1, <1>4

\* A candidate has some of every resource but gpu, so it is scored.
LEMMA CandidateScored ==
  ASSUME TypeOK, NEW req \in Requests, NEW n \in Candidates(req)
  PROVE  /\ n \in Nodes /\ node[n] \in Health /\ node[n].snap \in Snapshots
         /\ \A r \in Resources : AvailableBefore(n)[r] \in Nat
         /\ Scored(n) # {} /\ IsFiniteSet(Scored(n))
<1>1. n \in Nodes /\ node[n] \in Health /\ node[n].snap \in Snapshots /\ Fits(n, req)
  <2>1. n \in Nodes /\ node[n] # None /\ node[n].snap # None /\ Fits(n, req)
    BY DEF Candidates, FreshNodes, EligibleNodes
  <2>2. node[n] \in Health
    BY <2>1 DEF TypeOK
  <2> QED BY <2>1, <2>2 DEF Health
<1>2. ASSUME NEW r \in Resources
      PROVE  /\ node[n].snap.cap[r] \in Nat
             /\ AvailableBefore(n)[r] \in {0, node[n].snap.cap[r] - Claimed(n)[r]}
             /\ AvailableBefore(n)[r] >= 0 /\ AvailableBefore(n)[r] \in Nat
             /\ Claimed(n)[r] \in Nat
  <2>1. node[n].snap.cap[r] \in Nat /\ Claimed(n)[r] \in Nat
    BY <1>1, ClaimedType DEF Snapshots, Vectors
  <2>2. AvailableBefore(n)[r] = Max({0, node[n].snap.cap[r] - Claimed(n)[r]})
    BY DEF AvailableBefore
  <2> DEFINE free == node[n].snap.cap[r] - Claimed(n)[r]
  <2>3. free \in Int
    BY <2>1
  <2> HIDE DEF free
  <2>4. Max({0, free}) \in {0, free} /\ Max({0, free}) >= 0
    BY <2>3, MaxOfTwo
  <2>5. Max({0, free}) \in Nat
    BY <2>3, <2>4
  <2> QED BY <2>1, <2>2, <2>4, <2>5 DEF free
<1>3. PICK r \in Resources : r # Gpu
  BY RequestAssumption
<1>4. req.need[r] \in Nat /\ req.need[r] >= 1 /\ req.need[r] <= AvailableBefore(n)[r]
  BY <1>1, <1>3, RequestAssumption DEF Fits
<1>5. node[n].snap.cap[r] > 0
  BY <1>2, <1>4
<1>6. r \in Scored(n)
  BY <1>5 DEF Scored
<1>7. IsFiniteSet(Scored(n))
  BY FiniteAssumption, FS_Subset DEF Scored
<1> QED BY <1>1, <1>2, <1>6, <1>7

LEMMA ScoresType ==
  ASSUME TypeOK, NEW req \in Requests, NEW n \in Candidates(req)
  PROVE  LoadBasisPoints(n) \in Int /\ HeadroomBasisPoints(n, req) \in Int
<1>1. \A r \in Scored(n) : /\ r \in Resources /\ node[n].snap.cap[r] \in Nat
                           /\ node[n].snap.cap[r] > 0
                           /\ Claimed(n)[r] \in Int
                           /\ AvailableBefore(n)[r] - req.need[r] \in Int
  <2> SUFFICES ASSUME NEW r \in Scored(n)
               PROVE  /\ r \in Resources /\ node[n].snap.cap[r] \in Nat
                      /\ node[n].snap.cap[r] > 0
                      /\ Claimed(n)[r] \in Int
                      /\ AvailableBefore(n)[r] - req.need[r] \in Int
    OBVIOUS
  <2>1. r \in Resources /\ node[n].snap.cap[r] > 0
    BY DEF Scored
  <2>2. node[n].snap.cap[r] \in Nat
    BY <2>1, CandidateScored DEF Snapshots, Vectors
  <2>3. Claimed(n)[r] \in Nat
    BY <2>1, ClaimedType DEF Vectors
  <2>4. AvailableBefore(n)[r] \in Nat /\ req.need[r] \in Nat
    BY <2>1, CandidateScored, RequestAssumption
  <2> QED BY <2>1, <2>2, <2>3, <2>4
<1>2. Scored(n) # {} /\ IsFiniteSet(Scored(n))
  BY CandidateScored
<1>3. LoadBasisPoints(n) \in Int
  <2> DEFINE f == [r \in Scored(n) |-> BasisPoints(Claimed(n)[r], node[n].snap.cap[r])]
             T == {f[r] : r \in Scored(n)}
  <2>1. f \in [Scored(n) -> Int]
    BY <1>1, BasisPointsType
  <2>2. T = {BasisPoints(Claimed(n)[r], node[n].snap.cap[r]) : r \in Scored(n)}
    OBVIOUS
  <2>3. DOMAIN f = Scored(n)
    OBVIOUS
  <2> HIDE DEF f
  <2>4. IsFiniteSet(T) /\ T # {} /\ T \in SUBSET Int
    BY <1>2, <2>1, <2>3, FiniteImage
  <2> HIDE DEF T
  <2>5. Max(T) \in T
    BY <2>4, MaxIn
  <2> QED BY <2>2, <2>4, <2>5 DEF LoadBasisPoints
<1>4. HeadroomBasisPoints(n, req) \in Int
  <2> DEFINE f == [r \in Scored(n) |->
                     BasisPoints(AvailableBefore(n)[r] - req.need[r], node[n].snap.cap[r])]
             T == {f[r] : r \in Scored(n)}
  <2>1. f \in [Scored(n) -> Int]
    BY <1>1, BasisPointsType
  <2>2. T = {BasisPoints(AvailableBefore(n)[r] - req.need[r], node[n].snap.cap[r])
               : r \in Scored(n)}
    OBVIOUS
  <2>3. DOMAIN f = Scored(n)
    OBVIOUS
  <2> HIDE DEF f
  <2>4. IsFiniteSet(T) /\ T # {} /\ T \in SUBSET Int
    BY <1>2, <2>1, <2>3, FiniteImage
  <2> HIDE DEF T
  <2>5. Min(T) \in T
    BY <2>4, MinIn
  <2> QED BY <2>2, <2>4, <2>5 DEF HeadroomBasisPoints
<1> QED BY <1>3, <1>4

\* compareCandidates() leaves exactly one first: reserve() places on a candidate.
LEMMA SelectedIsCandidate ==
  ASSUME TypeOK, NEW req \in Requests, Candidates(req) # {}
  PROVE  Selected(req) \in Candidates(req)
<1> DEFINE C == Candidates(req)
           R == {p \in C \X C : ComesBefore(p[1], p[2], req)}
<1>1. IsFiniteSet(C) /\ C \subseteq Nat
  <2>1. C \subseteq Nodes
    BY DEF Candidates, FreshNodes, EligibleNodes
  <2> QED BY <2>1, FiniteAssumption, NodeAssumption, FS_Subset
<1>2. \A x, y \in C : <<x, y>> \in R <=> ComesBefore(x, y, req)
  OBVIOUS
<1>3. \A x \in C : x \in Nat /\ LoadBasisPoints(x) \in Int /\ HeadroomBasisPoints(x, req) \in Int
  BY <1>1, ScoresType
<1> HIDE DEF C, R
<1>4. \A x, y \in C : x # y => ComesBefore(x, y, req) \/ ComesBefore(y, x, req)
  BY <1>3 DEF ComesBefore
<1>5. \A x, y, z \in C :
        ComesBefore(x, y, req) /\ ComesBefore(y, z, req) => ComesBefore(x, z, req)
  BY <1>3 DEF ComesBefore
<1>6. C # {}
  BY DEF C
<1>7. \E x \in C : \A y \in C \ {x} : <<x, y>> \in R
  <2>1. \A x, y \in C : x # y => <<x, y>> \in R \/ <<y, x>> \in R
    BY <1>2, <1>4
  <2>2. \A x, y, z \in C : <<x, y>> \in R /\ <<y, z>> \in R => <<x, z>> \in R
    BY <1>2, <1>5
  <2>3. IsFiniteSet(C)
    BY <1>1
  <2> QED BY <1>6, <2>1, <2>2, <2>3, FirstElement
<1>8. \E x \in C : \A y \in C \ {x} : ComesBefore(x, y, req)
  BY <1>2, <1>7
<1> QED BY <1>8 DEF Selected, C

-----------------------------------------------------------------------------
(* Types, and the rows that open transactions hold.                        *)

\* A row that moves to another status keeps its node and its request.
Moved(row, status, left, ref) ==
  [node |-> row.node, request |-> row.request, status |-> status, left |-> left, ref |-> ref]

LEMMA MovedIsRow ==
  ASSUME NEW row \in Rows, NEW st \in Statuses, NEW l \in 0..ReservationTtl,
         NEW ref \in Refs \cup {None}
  PROVE  /\ Moved(row, st, l, ref) \in Rows /\ Moved(row, st, l, ref) # None
         /\ Moved(row, st, l, ref).node = row.node
         /\ Moved(row, st, l, ref).request = row.request
         /\ Moved(row, st, l, ref).status = st /\ Moved(row, st, l, ref).left = l
<1>1. Moved(row, st, l, ref) \in Rows
  BY DEF Rows, Moved
<1> QED BY <1>1, NullAssumption DEF Moved

\* consume(), release(), the sweep and the clock update a row in place.
LEMMA StatusUpdate ==
  ASSUME NEW row \in Rows, NEW st \in Statuses
  PROVE  [row EXCEPT !.status = st] = Moved(row, st, row.left, row.ref)
BY DEF Rows, Moved

LEMMA LeftUpdate ==
  ASSUME NEW row \in Rows, NEW l \in 0..ReservationTtl
  PROVE  [row EXCEPT !.left = l] = Moved(row, row.status, l, row.ref)
BY DEF Rows, Moved

LEMMA ReleaseUpdate ==
  ASSUME NEW row \in Rows, NEW st \in Statuses, NEW l \in 0..ReservationTtl
  PROVE  [row EXCEPT !.status = st, !.left = l] = Moved(row, st, l, row.ref)
<1> DEFINE a == [row EXCEPT !.status = st]
<1>1. a = Moved(row, st, row.left, row.ref) /\ a \in Rows
  BY DEF Rows, Moved
<1> HIDE DEF a
<1>2. [a EXCEPT !.left = l] = Moved(row, st, l, row.ref)
  BY <1>1 DEF Rows, Moved
<1> QED BY <1>2 DEF a

LEMMA ConsumeUpdate ==
  ASSUME NEW row \in Rows, NEW ref \in Refs
  PROVE  [row EXCEPT !.status = "consumed", !.left = 0, !.ref = ref]
           = Moved(row, "consumed", 0, ref)
<1> DEFINE a == [row EXCEPT !.status = "consumed", !.left = 0]
<1>1. "consumed" \in Statuses /\ 0 \in 0..ReservationTtl
  BY TimeAssumption DEF Statuses
<1>2. a = Moved(row, "consumed", 0, row.ref)
  BY <1>1, ReleaseUpdate, Zenon
<1> HIDE DEF a
<1>3. a \in Rows
  BY <1>1, <1>2 DEF Rows, Moved
<1>4. [a EXCEPT !.ref = ref] = Moved(row, "consumed", 0, ref)
  BY <1>2, <1>3 DEF Rows, Moved
<1> QED BY <1>4 DEF a

LEMMA RowKnown ==
  ASSUME TypeOK, NEW id \in Teams \X Keys, res[id] # None
  PROVE  res[id] \in Rows /\ res[id].left \in 0..ReservationTtl /\ res[id].node \in Nodes
         /\ res[id].request \in Requests /\ res[id].status \in Statuses
         /\ res[id].ref \in Refs \cup {None}
<1>1. res[id] \in Rows
  BY DEF TypeOK
<1> QED BY <1>1 DEF Rows

\* What each operation that touches reservations does to them.
LEMMA CommitMoves ==
  ASSUME IInv, NEW t \in Teams, ConsumeCommit(t)
  PROVE  LET id == <<t, consuming[t].key>> IN
         /\ id \in Teams \X Keys /\ res[id] \in Rows
         /\ res' = [res EXCEPT ![id] = Moved(res[id], "consumed", 0, consuming[t].ref)]
         /\ Moved(res[id], "consumed", 0, consuming[t].ref) \in Rows
<1> DEFINE id == <<t, consuming[t].key>>
<1>1. consuming[t] # None /\ consuming[t] \in [key : Keys, ref : Refs]
  BY DEF ConsumeCommit, IInv, TypeOK
<1>2. id \in Teams \X Keys /\ consuming[t].ref \in Refs
  BY <1>1
<1>3. res[id] \in Rows
  BY <1>1, <1>2, RowKnown DEF IInv, LockedInv, LockedRow
<1>4. res' = [res EXCEPT ![id].status = "consumed", ![id].left = 0,
                         ![id].ref = consuming[t].ref]
  BY DEF ConsumeCommit
<1> HIDE DEF id
<1>5. res' = [res EXCEPT ![id] = [res[id] EXCEPT !.status = "consumed", !.left = 0,
                                                 !.ref = consuming[t].ref]]
  BY <1>2, <1>4 DEF IInv, TypeOK
<1>6. [res[id] EXCEPT !.status = "consumed", !.left = 0, !.ref = consuming[t].ref]
        = Moved(res[id], "consumed", 0, consuming[t].ref)
  <2> DEFINE row == res[id]
             w == consuming[t].ref
  <2>1. row \in Rows /\ w \in Refs
    BY <1>2, <1>3
  <2> HIDE DEF row, w
  <2>2. [row EXCEPT !.status = "consumed", !.left = 0, !.ref = w] = Moved(row, "consumed", 0, w)
    BY <2>1, ConsumeUpdate, Zenon
  <2> QED BY <2>2, Zenon DEF row, w
<1>7. Moved(res[id], "consumed", 0, consuming[t].ref) \in Rows
  <2>1. "consumed" \in Statuses /\ 0 \in 0..ReservationTtl
    BY TimeAssumption DEF Statuses
  <2> QED BY <1>2, <1>3, <2>1, MovedIsRow, Zenon
<1> QED BY <1>2, <1>3, <1>5, <1>6, <1>7 DEF id

LEMMA ReleaseMoves ==
  ASSUME IInv, NEW t \in Teams, NEW k \in Keys, Release(t, k)
  PROVE  LET id == <<t, k>> IN
         /\ id \in Teams \X Keys /\ res[id] \in Rows
         /\ res' = [res EXCEPT ![id] = Moved(res[id], "released", 0, res[id].ref)]
         /\ Moved(res[id], "released", 0, res[id].ref) \in Rows
<1> DEFINE id == <<t, k>>
<1>1. id \in Teams \X Keys /\ res[id] # None
  BY DEF Release
<1>2. res[id] \in Rows /\ res[id].ref \in Refs \cup {None}
  BY <1>1, RowKnown DEF IInv
<1>3. res' = [res EXCEPT ![id].status = "released", ![id].left = 0]
  BY DEF Release
<1> HIDE DEF id
<1>4. res' = [res EXCEPT ![id] = [res[id] EXCEPT !.status = "released", !.left = 0]]
  BY <1>1, <1>3 DEF IInv, TypeOK
<1>5. [res[id] EXCEPT !.status = "released", !.left = 0]
        = Moved(res[id], "released", 0, res[id].ref)
  <2>1. "released" \in Statuses /\ 0 \in 0..ReservationTtl
    BY TimeAssumption DEF Statuses
  <2> QED BY <1>2, <2>1, ReleaseUpdate, Zenon
<1>6. Moved(res[id], "released", 0, res[id].ref) \in Rows
  BY <1>2, MovedIsRow, TimeAssumption DEF Statuses
<1> QED BY <1>1, <1>2, <1>4, <1>5, <1>6 DEF id

LEMMA ReservePlaces ==
  ASSUME IInv, NEW t \in Teams, NEW k \in Keys, NEW req \in Requests, Reserve(t, k, req)
  PROVE  /\ Selected(req) \in Candidates(req) /\ Selected(req) \in Nodes
         /\ <<t, k>> \in Teams \X Keys /\ res[<<t, k>>] = None
         /\ res' = [res EXCEPT ![<<t, k>>] = NewRow(Selected(req), req)]
         /\ NewRow(Selected(req), req) \in Rows
<1>1. Selected(req) \in Candidates(req)
  BY SelectedIsCandidate DEF Reserve, IInv
<1>2. Selected(req) \in Nodes
  BY <1>1 DEF Candidates, FreshNodes, EligibleNodes
<1>3. NewRow(Selected(req), req) \in Rows
  BY <1>2, TimeAssumption DEF NewRow, Rows, Statuses
<1> QED BY <1>1, <1>2, <1>3 DEF Reserve

LEMMA ExpireMoves ==
  ASSUME IInv, Expire
  PROVE  /\ res' \in [Teams \X Keys -> Rows \cup {None}]
         /\ \A id \in Teams \X Keys :
              \/ res'[id] = res[id] /\ ~Overdue(id)
              \/ /\ Overdue(id) /\ res[id] \in Rows
                 /\ res'[id] = Moved(res[id], "expired", res[id].left, res[id].ref)
<1>1. res' = [id \in Teams \X Keys |->
                IF Overdue(id) THEN [res[id] EXCEPT !.status = "expired"] ELSE res[id]]
  BY DEF Expire
<1>2. ASSUME NEW id \in Teams \X Keys, Overdue(id)
      PROVE  /\ res[id] \in Rows
             /\ [res[id] EXCEPT !.status = "expired"]
                  = Moved(res[id], "expired", res[id].left, res[id].ref)
             /\ Moved(res[id], "expired", res[id].left, res[id].ref) \in Rows
  <2>1. res[id] \in Rows /\ res[id].left \in 0..ReservationTtl
        /\ res[id].ref \in Refs \cup {None}
    BY <1>2, RowKnown DEF Overdue, IInv
  <2>2. "expired" \in Statuses
    BY DEF Statuses
  <2> QED BY <2>1, <2>2, StatusUpdate, MovedIsRow, Zenon
<1>3. ASSUME NEW id \in Teams \X Keys
      PROVE  /\ res'[id] \in Rows \cup {None}
             /\ \/ res'[id] = res[id] /\ ~Overdue(id)
                \/ /\ Overdue(id) /\ res[id] \in Rows
                   /\ res'[id] = Moved(res[id], "expired", res[id].left, res[id].ref)
  <2>1. CASE Overdue(id)
    BY <1>1, <1>2, <2>1, Zenon
  <2>2. CASE ~Overdue(id)
    <3>1. res'[id] = res[id]
      BY <1>1, <2>2, Zenon
    <3> QED BY <2>2, <3>1 DEF IInv, TypeOK
  <2> QED BY <2>1, <2>2
<1> QED BY <1>1, <1>3, Zenon

LEMMA TickMoves ==
  ASSUME IInv, Tick
  PROVE  /\ res' \in [Teams \X Keys -> Rows \cup {None}]
         /\ \A id \in Teams \X Keys :
              \/ res'[id] = res[id] /\ ~(res[id] # None /\ res[id].status = "reserved" /\ res[id].left > 0)
              \/ /\ res[id] \in Rows /\ res[id].status = "reserved" /\ res[id].left > 0
                 /\ res[id].left - 1 \in 0..ReservationTtl
                 /\ res'[id] = Moved(res[id], res[id].status, res[id].left - 1, res[id].ref)
<1>1. res' = [id \in Teams \X Keys |-> OneStepCloser(res[id])]
  BY DEF Tick
<1>2. ASSUME NEW id \in Teams \X Keys, res[id] # None, res[id].status = "reserved",
             res[id].left > 0
      PROVE  /\ res[id] \in Rows /\ res[id].left - 1 \in 0..ReservationTtl
             /\ res'[id] = Moved(res[id], res[id].status, res[id].left - 1, res[id].ref)
             /\ Moved(res[id], res[id].status, res[id].left - 1, res[id].ref) \in Rows
  <2>1. res[id] \in Rows /\ res[id].left \in 0..ReservationTtl
        /\ res[id].status \in Statuses /\ res[id].ref \in Refs \cup {None}
    BY <1>2, RowKnown DEF IInv
  <2>2. res[id].left - 1 \in 0..ReservationTtl
    BY <1>2, <2>1, TimeAssumption
  <2>3. res'[id] = [res[id] EXCEPT !.left = res[id].left - 1]
    BY <1>1, <1>2, Zenon DEF OneStepCloser
  <2> QED BY <2>1, <2>2, <2>3, LeftUpdate, MovedIsRow, Zenon
<1>3. ASSUME NEW id \in Teams \X Keys,
             ~(res[id] # None /\ res[id].status = "reserved" /\ res[id].left > 0)
      PROVE  res'[id] = res[id] /\ res[id] \in Rows \cup {None}
  <2>1. res'[id] = res[id]
    BY <1>1, <1>3, Zenon DEF OneStepCloser
  <2> QED BY <2>1 DEF IInv, TypeOK
<1>4. \A id \in Teams \X Keys : res'[id] \in Rows \cup {None}
  BY <1>2, <1>3, Zenon
<1>5. res' \in [Teams \X Keys -> Rows \cup {None}]
  BY <1>1, <1>4, Zenon
<1> QED BY <1>2, <1>3, <1>5, Zenon

LEMMA OlderHealth ==
  ASSUME TypeOK, NEW n \in Nodes
  PROVE  /\ OneStepOlder(n) \in Health \cup {None}
         /\ OneStepOlder(n) # None /\ OneStepOlder(n).snap # None =>
              /\ node[n] # None /\ node[n].snap # None
              /\ OneStepOlder(n).snap.cap = node[n].snap.cap
<1>1. CASE node[n] = None \/ node[n].snap = None
  BY <1>1 DEF OneStepOlder, TypeOK
<1>2. CASE node[n] # None /\ node[n].snap # None
  <2> DEFINE h == node[n]
             age == Min({h.snap.age + 1, SnapshotMaxAge + 1})
  <2>1. h \in Health
    BY <1>2 DEF TypeOK
  <2>2. h.snap \in Snapshots
    BY <1>2, <2>1 DEF Health
  <2>3. h.snap.age \in 0..SnapshotMaxAge + 1 /\ h.snap.cap \in Vectors
    BY <2>2 DEF Snapshots
  <2>4. age \in 0..SnapshotMaxAge + 1
    <3> DEFINE S == {h.snap.age + 1, SnapshotMaxAge + 1}
    <3>1. \E x \in S : \A y \in S : x =< y
      BY <2>3, TimeAssumption
    <3>2. age \in S /\ \A y \in S : age =< y
      BY <3>1 DEF Min
    <3> QED BY <2>3, <3>2, TimeAssumption
  <2>5. OneStepOlder(n) = [h EXCEPT !.snap.age = age]
    BY <1>2 DEF OneStepOlder
  <2> HIDE DEF age, h
  <2>6. [h EXCEPT !.snap.age = age]
          = [draining |-> h.draining, probeError |-> h.probeError,
             snap |-> [cap |-> h.snap.cap, age |-> age]]
    BY <2>1, <2>2 DEF Health, Snapshots
  <2>7. OneStepOlder(n) \in Health
    BY <2>1, <2>3, <2>4, <2>5, <2>6 DEF Health, Snapshots
  <2>8. OneStepOlder(n).snap.cap = node[n].snap.cap
    BY <2>5, <2>6 DEF h
  <2> QED BY <1>2, <2>7, <2>8
<1> QED BY <1>1, <1>2

LEMMA AllocatableType ==
  ASSUME NEW total \in Totals
  PROVE  AllocatableCapacity(total) \in Vectors
<1>1. total \in [Resources -> Nat]
  BY ResourceAssumption
<1>2. ASSUME NEW r \in Resources PROVE AllocatableCapacity(total)[r] \in Nat
  <2>1. CASE r = Gpu
    BY <1>1, <2>1 DEF AllocatableCapacity
  <2>2. CASE r # Gpu
    <3> DEFINE kept == (total[r] * AllocationPercent) \div 100 - SystemReserve[r]
    <3>1. total[r] \in Nat /\ AllocationPercent \in Nat /\ SystemReserve[r] \in Nat
      BY <1>1, <2>2, ResourceAssumption
    <3>2. total[r] * AllocationPercent \in Nat
      BY <3>1
    <3>3. kept \in Int
      BY <3>1, <3>2
    <3>4. AllocatableCapacity(total)[r] = Max({0, kept})
      BY <2>2 DEF AllocatableCapacity
    <3> HIDE DEF kept
    <3>5. Max({0, kept}) \in {0, kept} /\ Max({0, kept}) >= 0
      BY <3>3, MaxOfTwo
    <3> QED BY <3>3, <3>4, <3>5
  <2> QED BY <2>1, <2>2
<1> QED BY <1>2 DEF AllocatableCapacity, Vectors

\* What an operator or a probe does to a node leaves it well formed, and only
\* a capture changes its snapshot.
LEMMA NodeMoves ==
  ASSUME TypeOK, NEW n \in Nodes, node[n] # None
  PROVE  /\ SetDraining(n) =>
              /\ node' \in [Nodes -> Health \cup {None}]
              /\ \A m \in Nodes : m # n => node'[m] = node[m]
              /\ node'[n].snap = node[n].snap
         /\ RecordFailure(n) =>
              /\ node' \in [Nodes -> Health \cup {None}]
              /\ \A m \in Nodes : m # n => node'[m] = node[m]
              /\ node'[n].snap = node[n].snap
<1> DEFINE h == node[n]
           b == ~h.draining
           d == [draining |-> b, probeError |-> h.probeError, snap |-> h.snap]
           yes == TRUE
           e == [draining |-> h.draining, probeError |-> yes, snap |-> h.snap]
<1>1. h \in Health
  BY DEF TypeOK
<1>2. h.draining \in BOOLEAN /\ h.probeError \in BOOLEAN /\ h.snap \in Snapshots \cup {None}
  BY <1>1 DEF Health
<1>3. d \in Health /\ d.snap = h.snap /\ b \in BOOLEAN
  BY <1>2 DEF Health
<1>4. e \in Health /\ e.snap = h.snap
  BY <1>2 DEF Health
<1>5. ASSUME SetDraining(n) PROVE node' = [node EXCEPT ![n] = d]
  <2>1. node' = [node EXCEPT ![n].draining = b]
    BY <1>5 DEF SetDraining
  <2> HIDE DEF b
  <2>2. node' = [node EXCEPT ![n] = [h EXCEPT !.draining = b]]
    BY <2>1 DEF TypeOK
  <2> HIDE DEF h
  <2>3. [h EXCEPT !.draining = b] = d
    BY <1>1, <1>3 DEF Health
  <2> QED BY <2>2, <2>3
<1>6. ASSUME RecordFailure(n) PROVE node' = [node EXCEPT ![n] = e]
  <2>1. node' = [node EXCEPT ![n].probeError = yes] /\ yes \in BOOLEAN
    BY <1>6 DEF RecordFailure
  <2> HIDE DEF yes
  <2>2. node' = [node EXCEPT ![n] = [h EXCEPT !.probeError = yes]]
    BY <2>1 DEF TypeOK
  <2> HIDE DEF h
  <2>3. [h EXCEPT !.probeError = yes] = e
    BY <1>1, <2>1 DEF Health
  <2> QED BY <2>2, <2>3
<1> HIDE DEF d, e
<1>7. ASSUME SetDraining(n)
      PROVE  /\ node' \in [Nodes -> Health \cup {None}]
             /\ \A m \in Nodes : m # n => node'[m] = node[m]
             /\ node'[n].snap = node[n].snap
  BY <1>3, <1>5, <1>7 DEF TypeOK
<1>8. ASSUME RecordFailure(n)
      PROVE  /\ node' \in [Nodes -> Health \cup {None}]
             /\ \A m \in Nodes : m # n => node'[m] = node[m]
             /\ node'[n].snap = node[n].snap
  BY <1>4, <1>6, <1>8 DEF TypeOK
<1> QED BY <1>7, <1>8

LEMMA CaptureMoves ==
  ASSUME TypeOK, NEW n \in Nodes, NEW total \in Totals, Capture(n, total)
  PROVE  LET cap == AllocatableCapacity(total) IN
         /\ node' \in [Nodes -> Health \cup {None}]
         /\ \A m \in Nodes : m # n => node'[m] = node[m] /\ peak'[m] = peak[m]
         /\ node'[n].snap.cap = cap
         /\ peak' \in [Nodes -> Vectors]
         /\ \A r \in Resources : peak'[n][r] >= peak[n][r] /\ peak'[n][r] >= cap[r]
<1> DEFINE cap == AllocatableCapacity(total)
           h == node[n]
           new == [draining |-> h.draining, probeError |-> FALSE, snap |-> [cap |-> cap, age |-> 0]]
           top == [r \in Resources |-> Max({peak[n][r], cap[r]})]
<1>1. cap \in Vectors
  BY AllocatableType
<1>2. h \in Health /\ h.draining \in BOOLEAN
  BY DEF Capture, TypeOK, Health
<1>3. node' = [node EXCEPT ![n] = new]
  <2>1. node' = [node EXCEPT ![n].snap = [cap |-> cap, age |-> 0], ![n].probeError = FALSE]
    BY DEF Capture
  <2> DEFINE sn == [cap |-> cap, age |-> 0]
             a == [h EXCEPT !.snap = sn]
  <2> HIDE DEF sn
  <2>2. node' = [node EXCEPT ![n] = [a EXCEPT !.probeError = FALSE]]
    BY <2>1 DEF TypeOK, sn
  <2>3. sn \in Snapshots
    BY <1>1, TimeAssumption DEF sn, Snapshots
  <2> HIDE DEF h
  <2>4. a \in Health /\ a.draining = h.draining /\ a.snap = sn
    BY <1>2, <2>3 DEF Health
  <2> HIDE DEF a
  <2> DEFINE no == FALSE
  <2>5. no \in BOOLEAN
    OBVIOUS
  <2> HIDE DEF no
  <2>6. [a EXCEPT !.probeError = no] = [draining |-> a.draining, probeError |-> no, snap |-> a.snap]
    BY <2>4, <2>5 DEF Health
  <2> QED BY <2>2, <2>4, <2>6 DEF sn, no
<1>4. new \in Health /\ new.snap.cap = cap
  BY <1>1, <1>2, TimeAssumption DEF Health, Snapshots
<1>5. \A r \in Resources : top[r] \in Nat /\ top[r] >= peak[n][r] /\ top[r] >= cap[r]
  <2> SUFFICES ASSUME NEW r \in Resources
               PROVE  top[r] \in Nat /\ top[r] >= peak[n][r] /\ top[r] >= cap[r]
    OBVIOUS
  <2>1. peak[n][r] \in Nat /\ cap[r] \in Nat
    BY <1>1 DEF TypeOK, Vectors
  <2>2. top[r] = Max({peak[n][r], cap[r]})
    OBVIOUS
  <2> DEFINE p == peak[n][r]
             c == cap[r]
  <2> HIDE DEF cap, top, p, c
  <2>3. p \in Nat /\ c \in Nat
    BY <2>1 DEF p, c
  <2>4. Max({p, c}) \in {p, c} /\ Max({p, c}) >= p /\ Max({p, c}) >= c
    BY <2>3, MaxOfTwo
  <2>5. Max({p, c}) \in Nat
    BY <2>3, <2>4
  <2> QED BY <2>2, <2>4, <2>5 DEF p, c
<1>6. peak' = [peak EXCEPT ![n] = top]
  BY DEF Capture
<1>7. top \in Vectors
  BY <1>5 DEF Vectors
<1> HIDE DEF cap, new, top, h
<1>8. node' \in [Nodes -> Health \cup {None}] /\ node'[n] = new
      /\ \A m \in Nodes : m # n => node'[m] = node[m]
  BY <1>3, <1>4 DEF TypeOK
<1>9. peak' \in [Nodes -> Vectors] /\ peak'[n] = top
      /\ \A m \in Nodes : m # n => peak'[m] = peak[m]
  BY <1>6, <1>7 DEF TypeOK
<1> QED BY <1>4, <1>5, <1>8, <1>9 DEF cap

-----------------------------------------------------------------------------
LEMMA InitIInv == Init => IInv
<1> SUFFICES ASSUME Init PROVE IInv
  OBVIOUS
<1>1. Zero \in Vectors
  BY DEF Zero, Vectors
<1>2. TypeOK
  BY <1>1 DEF Init, TypeOK
<1>3. LockedInv
  BY DEF Init, LockedInv
<1> QED BY <1>2, <1>3 DEF IInv

\* A lock's row is the same row after a step that changes neither.
LEMMA LocksRest ==
  ASSUME IInv, UNCHANGED <<res, consuming>>
  PROVE  LockedInv'
BY DEF IInv, LockedInv, LockedRow

LEMMA LockedId ==
  ASSUME TypeOK, NEW t \in Teams, consuming[t] # None
  PROVE  /\ consuming[t].key \in Keys /\ consuming[t].ref \in Refs
         /\ <<t, consuming[t].key>> \in Teams \X Keys
         /\ <<t, consuming[t].key>> \in LockedRows
<1>1. consuming[t] \in [key : Keys, ref : Refs]
  BY DEF TypeOK
<1> QED BY <1>1 DEF LockedRows

LEMMA NextIInv == IInv /\ [Next]_vars => IInv'
<1> SUFFICES ASSUME IInv, [Next]_vars PROVE IInv'
  OBVIOUS
<1>0. TypeOK /\ LockedInv
  BY DEF IInv
<1>1. ASSUME NEW t \in Teams, SetTenantActive(t) PROVE IInv'
  <2>1. TypeOK'
    BY <1>0, <1>1 DEF SetTenantActive, TypeOK
  <2>2. LockedInv'
    BY <1>1, LocksRest DEF SetTenantActive
  <2> QED BY <2>1, <2>2 DEF IInv
<1>2. ASSUME NEW n \in Nodes, NEW cfg \in PoolConfigs, Register(n, cfg) PROVE IInv'
  <2> DEFINE new == [draining |-> FALSE, probeError |-> FALSE, snap |-> None]
  <2>1. new \in Health
    BY DEF Health
  <2>2. node' = IF node[n] # None THEN node ELSE [node EXCEPT ![n] = new]
    BY <1>2 DEF Register
  <2> HIDE DEF new
  <2>3. node' \in [Nodes -> Health \cup {None}]
    BY <1>0, <2>1, <2>2 DEF TypeOK
  <2>4. pool' \in [Pools -> PoolConfigs \cup {None}]
    BY <1>0, <1>2, NodeAssumption DEF Register, TypeOK
  <2>5. TypeOK'
    BY <1>0, <1>2, <2>3, <2>4 DEF Register, TypeOK
  <2>6. LockedInv'
    BY <1>2, LocksRest DEF Register
  <2> QED BY <2>5, <2>6 DEF IInv
<1>3. ASSUME NEW n \in Nodes, SetDraining(n) PROVE IInv'
  <2>1. node' \in [Nodes -> Health \cup {None}]
    BY <1>0, <1>3, NodeMoves DEF SetDraining
  <2>2. TypeOK'
    BY <1>0, <1>3, <2>1 DEF SetDraining, TypeOK
  <2>3. LockedInv'
    BY <1>3, LocksRest DEF SetDraining
  <2> QED BY <2>2, <2>3 DEF IInv
<1>4. ASSUME NEW n \in Nodes, NEW total \in Totals, Capture(n, total) PROVE IInv'
  <2>1. node' \in [Nodes -> Health \cup {None}] /\ peak' \in [Nodes -> Vectors]
    BY <1>0, <1>4, CaptureMoves
  <2>2. TypeOK'
    BY <1>0, <1>4, <2>1 DEF Capture, TypeOK
  <2>3. LockedInv'
    BY <1>4, LocksRest DEF Capture
  <2> QED BY <2>2, <2>3 DEF IInv
<1>5. ASSUME NEW n \in Nodes, RecordFailure(n) PROVE IInv'
  <2>1. node' \in [Nodes -> Health \cup {None}]
    BY <1>0, <1>5, NodeMoves DEF RecordFailure
  <2>2. TypeOK'
    BY <1>0, <1>5, <2>1 DEF RecordFailure, TypeOK
  <2>3. LockedInv'
    BY <1>5, LocksRest DEF RecordFailure
  <2> QED BY <2>2, <2>3 DEF IInv
<1>6. ASSUME NEW t \in Teams, NEW k \in Keys, NEW req \in Requests, Reserve(t, k, req)
      PROVE  IInv'
  <2> DEFINE row == NewRow(Selected(req), req)
  <2>1. /\ row \in Rows /\ <<t, k>> \in Teams \X Keys /\ res[<<t, k>>] = None
        /\ res' = [res EXCEPT ![<<t, k>>] = row]
    BY <1>6, ReservePlaces
  <2>2. UNCHANGED <<tenantActive, pool, node, consuming, peak, late>>
    BY <1>6 DEF Reserve
  <2> HIDE DEF row
  <2>3. TypeOK'
    BY <1>0, <2>1, <2>2 DEF TypeOK
  <2>4. ASSUME NEW u \in Teams, consuming'[u] # None PROVE LockedRow(u)'
    <3>1. consuming[u] # None /\ consuming'[u] = consuming[u]
      BY <2>2, <2>4
    <3>2. <<u, consuming[u].key>> \in Teams \X Keys /\ LockedRow(u)
      BY <1>0, <3>1, LockedId DEF LockedInv
    <3>3. <<u, consuming[u].key>> # <<t, k>>
      BY <2>1, <3>2 DEF LockedRow
    <3>4. res'[<<u, consuming[u].key>>] = res[<<u, consuming[u].key>>]
      BY <1>0, <2>1, <3>2, <3>3 DEF TypeOK
    <3> QED BY <3>1, <3>2, <3>4 DEF LockedRow
  <2> QED BY <2>3, <2>4 DEF IInv, LockedInv
<1>7. ASSUME NEW t \in Teams, NEW k \in Keys, NEW ref \in Refs, ConsumeCheck(t, k, ref)
      PROVE  IInv'
  <2> DEFINE c == [key |-> k, ref |-> ref]
  <2>1. /\ c \in [key : Keys, ref : Refs] /\ c.key = k
        /\ consuming' = [consuming EXCEPT ![t] = c] /\ res' = res
    BY <1>7 DEF ConsumeCheck
  <2>2. UNCHANGED <<tenantActive, pool, node, res, peak, late>>
    BY <1>7 DEF ConsumeCheck
  <2>3. res[<<t, k>>] # None /\ res[<<t, k>>].status = "reserved" /\ res[<<t, k>>].left > 0
    BY <1>7 DEF ConsumeCheck, IsActive
  <2> HIDE DEF c
  <2>4. TypeOK'
    BY <1>0, <2>1, <2>2 DEF TypeOK
  <2>5. ASSUME NEW u \in Teams, consuming'[u] # None PROVE LockedRow(u)'
    <3>1. CASE u = t
      <4>1. consuming'[u].key = k
        BY <1>0, <2>1, <3>1 DEF TypeOK
      <4> QED BY <2>1, <2>3, <3>1, <4>1 DEF LockedRow
    <3>2. CASE u # t
      <4>1. consuming'[u] = consuming[u]
        BY <1>0, <2>1, <3>2 DEF TypeOK
      <4> QED BY <1>0, <2>1, <2>5, <4>1 DEF LockedInv, LockedRow
    <3> QED BY <3>1, <3>2
  <2> QED BY <2>4, <2>5 DEF IInv, LockedInv
<1>8. ASSUME NEW t \in Teams, ConsumeCommit(t) PROVE IInv'
  <2> DEFINE id == <<t, consuming[t].key>>
             row == Moved(res[id], "consumed", 0, consuming[t].ref)
  <2>1. id \in Teams \X Keys /\ row \in Rows /\ res' = [res EXCEPT ![id] = row]
    BY <1>8, CommitMoves
  <2>2. /\ consuming' = [consuming EXCEPT ![t] = None]
        /\ UNCHANGED <<tenantActive, pool, node, peak>>
        /\ late' \in {late, late \cup {id}}
    BY <1>8 DEF ConsumeCommit
  <2> HIDE DEF row
  <2>3. TypeOK'
    <3> HIDE DEF id
    <3> QED BY <1>0, <2>1, <2>2 DEF TypeOK
  <2>4. ASSUME NEW u \in Teams, consuming'[u] # None PROVE LockedRow(u)'
    <3>1. u # t /\ consuming'[u] = consuming[u] /\ consuming[u] # None
      BY <1>0, <2>2, <2>4 DEF TypeOK
    <3>2. <<u, consuming[u].key>> \in Teams \X Keys /\ LockedRow(u)
      BY <1>0, <3>1, LockedId DEF LockedInv
    <3>3. res'[<<u, consuming[u].key>>] = res[<<u, consuming[u].key>>]
      BY <1>0, <2>1, <3>1, <3>2 DEF TypeOK
    <3> QED BY <3>1, <3>2, <3>3 DEF LockedRow
  <2> QED BY <2>3, <2>4 DEF IInv, LockedInv
<1>9. ASSUME NEW t \in Teams, ConsumeRollback(t) PROVE IInv'
  <2>1. TypeOK'
    BY <1>0, <1>9 DEF ConsumeRollback, TypeOK
  <2>2. LockedInv'
    BY <1>0, <1>9 DEF ConsumeRollback, TypeOK, LockedInv, LockedRow
  <2> QED BY <2>1, <2>2 DEF IInv
<1>10. ASSUME NEW t \in Teams, NEW k \in Keys, Release(t, k) PROVE IInv'
  <2> DEFINE row == Moved(res[<<t, k>>], "released", 0, res[<<t, k>>].ref)
  <2>1. /\ <<t, k>> \in Teams \X Keys /\ row \in Rows
        /\ res' = [res EXCEPT ![<<t, k>>] = row]
    BY <1>10, ReleaseMoves
  <2>2. consuming[t] = None /\ UNCHANGED <<tenantActive, pool, node, consuming, peak, late>>
    BY <1>10 DEF Release
  <2> HIDE DEF row
  <2>3. TypeOK'
    BY <1>0, <2>1, <2>2 DEF TypeOK
  <2>4. ASSUME NEW u \in Teams, consuming'[u] # None PROVE LockedRow(u)'
    <3>1. u # t /\ consuming'[u] = consuming[u] /\ consuming[u] # None
      BY <2>2, <2>4
    <3>2. <<u, consuming[u].key>> \in Teams \X Keys /\ LockedRow(u)
      BY <1>0, <3>1, LockedId DEF LockedInv
    <3>3. res'[<<u, consuming[u].key>>] = res[<<u, consuming[u].key>>]
      BY <1>0, <2>1, <3>1, <3>2 DEF TypeOK
    <3> QED BY <3>1, <3>2, <3>3 DEF LockedRow
  <2> QED BY <2>3, <2>4 DEF IInv, LockedInv
<1>11. CASE Expire
  <2>1. UNCHANGED <<tenantActive, pool, node, consuming, peak, late>>
    BY <1>11 DEF Expire
  <2>2. TypeOK'
    BY <1>0, <1>11, <2>1, ExpireMoves DEF TypeOK
  <2>3. ASSUME NEW u \in Teams, consuming'[u] # None PROVE LockedRow(u)'
    <3> DEFINE id == <<u, consuming[u].key>>
    <3>1. consuming'[u] = consuming[u] /\ consuming[u] # None
      BY <2>1, <2>3
    <3>2. id \in Teams \X Keys /\ id \in LockedRows /\ LockedRow(u)
      BY <1>0, <3>1, LockedId DEF LockedInv
    <3>3. res'[id] = res[id]
      <4>1. ~Overdue(id)
        BY <1>11, <3>2 DEF Expire
      <4> HIDE DEF id
      <4> QED BY <1>11, <3>2, <4>1, ExpireMoves
    <3> QED BY <3>1, <3>2, <3>3 DEF LockedRow
  <2> QED BY <2>2, <2>3 DEF IInv, LockedInv
<1>12. CASE Tick
  <2>1. UNCHANGED <<tenantActive, pool, consuming, peak, late>>
    BY <1>12 DEF Tick
  <2>2. node' \in [Nodes -> Health \cup {None}]
    BY <1>0, <1>12, OlderHealth DEF Tick
  <2>3. TypeOK'
    BY <1>0, <1>12, <2>1, <2>2, TickMoves DEF TypeOK
  <2>4. ASSUME NEW u \in Teams, consuming'[u] # None PROVE LockedRow(u)'
    <3> DEFINE id == <<u, consuming[u].key>>
    <3>1. consuming'[u] = consuming[u] /\ consuming[u] # None
      BY <2>1, <2>4
    <3>2. id \in Teams \X Keys /\ id \in LockedRows /\ LockedRow(u)
      BY <1>0, <3>1, LockedId DEF LockedInv
    <3>3. res[id] # None /\ res[id].status = "reserved"
      BY <3>2 DEF LockedRow
    <3> HIDE DEF id
    <3>4. res'[id] # None /\ res'[id].status = "reserved"
      <4>1. CASE res'[id] = res[id]
        BY <3>3, <4>1
      <4>2. CASE /\ res[id] \in Rows /\ res[id].left - 1 \in 0..ReservationTtl
                 /\ res'[id] = Moved(res[id], res[id].status, res[id].left - 1, res[id].ref)
        <5>1. res[id].status \in Statuses /\ res[id].ref \in Refs \cup {None}
          BY <1>0, <3>2, <3>3, RowKnown
        <5>2. res'[id].status = res[id].status
          BY <4>2 DEF Moved
        <5>3. Moved(res[id], res[id].status, res[id].left - 1, res[id].ref) \in Rows
          BY <4>2, <5>1 DEF Moved, Rows
        <5> QED BY <3>3, <4>2, <5>2, <5>3, NullAssumption
      <4> QED BY <1>12, <3>2, <4>1, <4>2, TickMoves, Zenon
    <3> QED BY <3>1, <3>4 DEF LockedRow, id
  <2> QED BY <2>3, <2>4 DEF IInv, LockedInv
<1>13. CASE UNCHANGED vars
  BY <1>0, <1>13, LocksRest DEF vars, IInv, TypeOK
<1> QED
  BY <1>1, <1>2, <1>3, <1>4, <1>5, <1>6, <1>7, <1>8, <1>9, <1>10, <1>11, <1>12, <1>13 DEF Next

\* The inductive invariant of the scheduler: what an open consume() checked
\* is still so while it holds the row.
THEOREM SchedulerInvariant == Spec => []IInv
BY InitIInv, NextIInv, PTL DEF Spec

\* Pools, nodes, reservations and open transactions stay in their types,
\* however the clock and the transactions of consume() interleave.
THEOREM TypeCorrect == Spec => []TypeOK
BY SchedulerInvariant, PTL DEF IInv

-----------------------------------------------------------------------------
(* Who may hold capacity after a step.                                     *)

SameClaim(id) ==
  IsActive(res[id]) /\ res'[id].node = res[id].node /\ res'[id].request = res[id].request

\* A consume() found it active and commits after its expiry.
Confirmed(id) ==
  /\ id \in LockedRows /\ id \notin LockedRows' /\ id \in late'
  /\ res[id] # None
  /\ res'[id].node = res[id].node /\ res'[id].request = res[id].request

\* Only a reserve() makes a reservation active.  A consume() that commits in
\* time finds its row active, one that commits late confirms the row it has
\* locked, and all else ends reservations.
LEMMA WhoActivates ==
  ASSUME IInv, [Next]_vars,
         NEW id \in Teams \X Keys, IsActive(res'[id])
  PROVE  \/ SameClaim(id)
         \/ Confirmed(id)
         \/ \E t \in Teams, k \in Keys, req \in Requests : Reserve(t, k, req) /\ id = <<t, k>>
<1>0. TypeOK /\ LockedInv
  BY DEF IInv
<1>1. CASE res' = res
  BY <1>1 DEF SameClaim
<1>2. ASSUME NEW t \in Teams, NEW k \in Keys, NEW req \in Requests, Reserve(t, k, req),
             id # <<t, k>>
      PROVE  SameClaim(id)
  <2>1. res'[id] = res[id]
    BY <1>0, <1>2 DEF Reserve, TypeOK
  <2> QED BY <2>1 DEF SameClaim
<1>3. ASSUME NEW t \in Teams, ConsumeCommit(t) PROVE SameClaim(id) \/ Confirmed(id)
  <2> DEFINE c == <<t, consuming[t].key>>
             row == Moved(res[c], "consumed", 0, consuming[t].ref)
  <2>1. c \in Teams \X Keys /\ res' = [res EXCEPT ![c] = row]
    BY <1>3, CommitMoves
  <2>2. row.node = res[c].node /\ row.request = res[c].request
    BY DEF Moved
  <2>3. res[c] # None /\ res[c].status = "reserved"
    BY <1>0, <1>3 DEF ConsumeCommit, LockedInv, LockedRow
  <2>6. /\ c \in LockedRows
        /\ consuming' = [consuming EXCEPT ![t] = None]
        /\ late' = IF res[c].left > 0 THEN late ELSE late \cup {c}
    BY <1>0, <1>3, LockedId DEF ConsumeCommit
  <2>7. c \notin LockedRows'
    BY <1>0, <2>6 DEF LockedRows, TypeOK
  <2> HIDE DEF c, row
  <2>4. CASE id = c
    <3>1. res'[id] = row
      BY <1>0, <2>1, <2>4 DEF TypeOK
    <3>2. CASE res[c].left > 0
      BY <2>2, <2>3, <2>4, <3>1, <3>2 DEF SameClaim, IsActive
    <3>3. CASE ~(res[c].left > 0)
      BY <2>2, <2>3, <2>4, <2>6, <2>7, <3>1, <3>3 DEF Confirmed
    <3> QED BY <3>2, <3>3
  <2>5. CASE id # c
    <3>1. res'[id] = res[id]
      BY <1>0, <2>1, <2>5 DEF TypeOK
    <3> QED BY <3>1 DEF SameClaim
  <2> QED BY <2>4, <2>5
<1>4. ASSUME NEW t \in Teams, NEW k \in Keys, Release(t, k) PROVE SameClaim(id)
  <2> DEFINE row == Moved(res[<<t, k>>], "released", 0, res[<<t, k>>].ref)
  <2>1. <<t, k>> \in Teams \X Keys /\ res' = [res EXCEPT ![<<t, k>>] = row]
    BY <1>4, ReleaseMoves
  <2>2. ~IsActive(row)
    BY DEF IsActive, Moved
  <2> HIDE DEF row
  <2>3. id # <<t, k>>
    BY <1>0, <2>1, <2>2 DEF TypeOK
  <2>4. res'[id] = res[id]
    BY <1>0, <2>1, <2>3 DEF TypeOK
  <2> QED BY <2>4 DEF SameClaim
<1>5. CASE Expire
  <2>1. CASE res'[id] = res[id]
    BY <2>1 DEF SameClaim
  <2>2. CASE res'[id] = Moved(res[id], "expired", res[id].left, res[id].ref)
    BY <2>2 DEF IsActive, Moved
  <2> QED BY <1>5, <2>1, <2>2, ExpireMoves, Zenon
<1>6. CASE Tick
  <2>1. CASE res'[id] = res[id]
    BY <2>1 DEF SameClaim
  <2>2. CASE /\ res[id] \in Rows /\ res[id].status = "reserved" /\ res[id].left > 0
             /\ res'[id] = Moved(res[id], res[id].status, res[id].left - 1, res[id].ref)
    <3>1. res'[id].node = res[id].node /\ res'[id].request = res[id].request
      BY <2>2 DEF Moved
    <3>2. IsActive(res[id])
      BY <2>2, NullAssumption DEF IsActive
    <3> QED BY <3>1, <3>2 DEF SameClaim
  <2> QED BY <1>6, <2>1, <2>2, TickMoves, Zenon
<1>7. ASSUME NEW t \in Teams, SetTenantActive(t) PROVE SameClaim(id)
  BY <1>1, <1>7 DEF SetTenantActive, SameClaim
<1>8. ASSUME NEW n \in Nodes, NEW cfg \in PoolConfigs, Register(n, cfg) PROVE SameClaim(id)
  BY <1>8 DEF Register, SameClaim
<1>9. ASSUME NEW n \in Nodes, NEW total \in Totals, Capture(n, total) PROVE SameClaim(id)
  BY <1>9 DEF Capture, SameClaim
<1>10. ASSUME NEW n \in Nodes, SetDraining(n) \/ RecordFailure(n) PROVE SameClaim(id)
  BY <1>10 DEF SetDraining, RecordFailure, SameClaim
<1>11. ASSUME NEW t \in Teams, NEW k \in Keys, NEW ref \in Refs, ConsumeCheck(t, k, ref)
       PROVE  SameClaim(id)
  BY <1>11 DEF ConsumeCheck, SameClaim
<1>12. ASSUME NEW t \in Teams, ConsumeRollback(t) PROVE SameClaim(id)
  BY <1>12 DEF ConsumeRollback, SameClaim
<1>13. CASE UNCHANGED vars
  BY <1>13 DEF vars, SameClaim
<1> QED
  BY <1>2, <1>3, <1>4, <1>5, <1>6, <1>7, <1>8, <1>9, <1>10, <1>11, <1>12, <1>13 DEF Next

\* The row of a reservation keeps its node and its request for ever.
LEMMA RowsKept ==
  ASSUME IInv, [Next]_vars, NEW id \in Teams \X Keys,
         ~ \E t \in Teams, k \in Keys, req \in Requests : Reserve(t, k, req)
  PROVE  /\ res'[id] # None <=> res[id] # None
         /\ res[id] # None => res'[id].node = res[id].node /\ res'[id].request = res[id].request
<1> DEFINE Kept == /\ res'[id] # None <=> res[id] # None
                   /\ res[id] # None => /\ res'[id].node = res[id].node
                                        /\ res'[id].request = res[id].request
<1> SUFFICES Kept
  OBVIOUS
<1>0. TypeOK
  BY DEF IInv
<1>1. ASSUME res'[id] = res[id] PROVE Kept
  BY <1>1
<1>2. ASSUME NEW st \in Statuses, NEW l \in 0..ReservationTtl, NEW ref \in Refs \cup {None},
             res[id] \in Rows, res'[id] = Moved(res[id], st, l, ref)
      PROVE  Kept
  BY <1>2, MovedIsRow, NullAssumption
<1> HIDE DEF Kept
<1>3. ASSUME NEW t \in Teams, ConsumeCommit(t) PROVE Kept
  <2> DEFINE c == <<t, consuming[t].key>>
             row == Moved(res[c], "consumed", 0, consuming[t].ref)
  <2>1. c \in Teams \X Keys /\ res[c] \in Rows /\ res' = [res EXCEPT ![c] = row]
    BY <1>3, CommitMoves
  <2>2. "consumed" \in Statuses /\ 0 \in 0..ReservationTtl /\ consuming[t].ref \in Refs
    BY <1>0, <1>3, LockedId, TimeAssumption DEF ConsumeCommit, Statuses
  <2>3. CASE id = c
    <3>1. res'[id] = row
      BY <1>0, <2>1, <2>3 DEF TypeOK
    <3> QED BY <1>2, <2>1, <2>2, <2>3, <3>1
  <2>4. CASE id # c
    BY <1>0, <1>1, <2>1, <2>4 DEF TypeOK
  <2> QED BY <2>3, <2>4
<1>4. ASSUME NEW t \in Teams, NEW k \in Keys, Release(t, k) PROVE Kept
  <2> DEFINE c == <<t, k>>
             row == Moved(res[c], "released", 0, res[c].ref)
  <2>1. c \in Teams \X Keys /\ res[c] \in Rows /\ res' = [res EXCEPT ![c] = row]
    BY <1>4, ReleaseMoves
  <2>2. "released" \in Statuses /\ 0 \in 0..ReservationTtl /\ res[c].ref \in Refs \cup {None}
    BY <2>1, TimeAssumption DEF Statuses, Rows
  <2>3. CASE id = c
    <3>1. res'[id] = row
      BY <1>0, <2>1, <2>3 DEF TypeOK
    <3> QED BY <1>2, <2>1, <2>2, <2>3, <3>1
  <2>4. CASE id # c
    BY <1>0, <1>1, <2>1, <2>4 DEF TypeOK
  <2> QED BY <2>3, <2>4
<1>5. CASE Expire
  <2>1. CASE /\ res[id] \in Rows
             /\ res'[id] = Moved(res[id], "expired", res[id].left, res[id].ref)
    <3>1. /\ "expired" \in Statuses /\ res[id].left \in 0..ReservationTtl
          /\ res[id].ref \in Refs \cup {None}
      BY <2>1 DEF Statuses, Rows
    <3> QED BY <1>2, <2>1, <3>1
  <2> QED BY <1>1, <1>5, <2>1, ExpireMoves, Zenon
<1>6. CASE Tick
  <2>1. CASE /\ res[id] \in Rows /\ res[id].left - 1 \in 0..ReservationTtl
             /\ res'[id] = Moved(res[id], res[id].status, res[id].left - 1, res[id].ref)
    <3>1. res[id].status \in Statuses /\ res[id].ref \in Refs \cup {None}
      BY <2>1 DEF Rows
    <3> QED BY <1>2, <2>1, <3>1
  <2> QED BY <1>1, <1>6, <2>1, TickMoves, Zenon
<1>7. CASE UNCHANGED res
  BY <1>1, <1>7
<1>8. \/ UNCHANGED res \/ Expire \/ Tick
      \/ \E t \in Teams : ConsumeCommit(t)
      \/ \E t \in Teams, k \in Keys : Release(t, k)
  BY DEF Next, vars, SetTenantActive, Register, SetDraining, Capture, RecordFailure,
     ConsumeCheck, ConsumeRollback
<1> QED BY <1>3, <1>4, <1>5, <1>6, <1>7, <1>8

\* A consume() locks a reservation only while it is active.
LEMMA LocksGrow ==
  ASSUME TypeOK, [Next]_vars, NEW id \in Teams \X Keys, id \in LockedRows'
  PROVE  id \in LockedRows \/ IsActive(res[id])
<1>1. CASE UNCHANGED consuming
  BY <1>1 DEF LockedRows
<1>2. ASSUME NEW t \in Teams, NEW k \in Keys, NEW ref \in Refs, ConsumeCheck(t, k, ref)
      PROVE  id \in LockedRows \/ IsActive(res[id])
  <2> DEFINE c == [key |-> k, ref |-> ref]
  <2>1. consuming' = [consuming EXCEPT ![t] = c] /\ c.key = k /\ IsActive(res[<<t, k>>])
    BY <1>2 DEF ConsumeCheck
  <2> HIDE DEF c
  <2>2. PICK u \in Teams : consuming'[u] # None /\ id = <<u, consuming'[u].key>>
    BY DEF LockedRows
  <2>3. CASE u = t
    BY <2>1, <2>2, <2>3 DEF TypeOK
  <2>4. CASE u # t
    BY <2>1, <2>2, <2>4 DEF TypeOK, LockedRows
  <2> QED BY <2>3, <2>4
<1>3. ASSUME NEW t \in Teams, consuming' = [consuming EXCEPT ![t] = None]
      PROVE  id \in LockedRows
  <2>1. PICK u \in Teams : consuming'[u] # None /\ id = <<u, consuming'[u].key>>
    BY DEF LockedRows
  <2>2. consuming'[u] = consuming[u]
    BY <1>3, <2>1 DEF TypeOK
  <2> QED BY <2>1, <2>2 DEF LockedRows
<1>4. \/ UNCHANGED consuming
      \/ \E t \in Teams, k \in Keys, ref \in Refs : ConsumeCheck(t, k, ref)
      \/ \E t \in Teams : consuming' = [consuming EXCEPT ![t] = None]
  BY DEF Next, vars, SetTenantActive, Register, SetDraining, Capture, RecordFailure,
     Reserve, ConsumeCommit, ConsumeRollback, Release, Expire, Tick
<1> QED BY <1>1, <1>2, <1>3, <1>4

\* A reservation that holds no capacity and is not being consumed has ended
\* for good, whatever transactions and the clock do (reserve, consume, expire).
THEOREM NoRevival == Spec => NeverRevived
<1>1. ASSUME IInv, [Next]_vars, NEW id \in Teams \X Keys, Ended(id)
      PROVE  Ended(id)'
  <2>1. res[id] # None /\ ~IsActive(res[id]) /\ id \notin LockedRows
    BY <1>1 DEF Ended
  <2>2. id \notin LockedRows'
    BY <1>1, <2>1, LocksGrow DEF IInv
  <2>3. ASSUME NEW t \in Teams, NEW k \in Keys, NEW req \in Requests, Reserve(t, k, req)
        PROVE  res'[id] = res[id]
    BY <1>1, <2>1, <2>3 DEF Reserve, IInv, TypeOK
  <2>4. res'[id] # None
    BY <1>1, <2>1, <2>3, RowsKept
  <2>5. ASSUME IsActive(res'[id]) PROVE FALSE
    <3>1. \E t \in Teams, k \in Keys, req \in Requests : Reserve(t, k, req) /\ id = <<t, k>>
      BY <1>1, <2>1, <2>5, WhoActivates DEF SameClaim, Confirmed
    <3> QED BY <2>1, <3>1 DEF Reserve
  <2> QED BY <2>2, <2>4, <2>5 DEF Ended
<1>2. IInv /\ [Next]_vars => [\A id \in Teams \X Keys : Ended(id) => Ended(id)']_vars
  BY <1>1
<1> QED BY <1>2, SchedulerInvariant, PTL DEF Spec, NeverRevived

\* A draining or quarantined node gets no load but what an open consume() had
\* found active there (lockEligibleNodes).
THEOREM QuarantineKept == Spec => QuarantineHolds
<1>1. ASSUME IInv, [Next]_vars, NEW n \in Nodes, node[n] # None,
             node[n].draining \/ node[n].probeError,
             NEW id \in ActiveOn(n)'
      PROVE  id \in ActiveOn(n) \cup {i \in LockedRows : res[i].node = n}
  <2>1. id \in Teams \X Keys /\ IsActive(res'[id]) /\ res'[id].node = n
    BY <1>1 DEF ActiveOn
  <2>2. CASE SameClaim(id)
    BY <2>1, <2>2 DEF SameClaim, ActiveOn
  <2>3. ASSUME NEW t \in Teams, NEW k \in Keys, NEW req \in Requests,
               Reserve(t, k, req), id = <<t, k>>
        PROVE  FALSE
    <3>1. /\ Selected(req) \in Candidates(req)
          /\ res' = [res EXCEPT ![id] = NewRow(Selected(req), req)]
      BY <1>1, <2>3, ReservePlaces
    <3>2. res'[id] = NewRow(Selected(req), req)
      BY <1>1, <2>1, <3>1 DEF IInv, TypeOK
    <3>3. n = Selected(req)
      BY <2>1, <3>2 DEF NewRow
    <3> QED BY <1>1, <3>1, <3>3 DEF Candidates, FreshNodes, EligibleNodes
  <2>4. CASE Confirmed(id)
    BY <2>1, <2>4 DEF Confirmed
  <2> QED BY <1>1, <2>1, <2>2, <2>3, <2>4, WhoActivates
<1>2. IInv /\ [Next]_vars
        => [\A n \in Nodes :
              node[n] # None /\ (node[n].draining \/ node[n].probeError)
                => ActiveOn(n)' \subseteq
                     ActiveOn(n) \cup {id \in LockedRows : res[id].node = n}]_vars
  BY <1>1
<1> QED BY <1>2, SchedulerInvariant, PTL DEF Spec, QuarantineHolds

-----------------------------------------------------------------------------
(* Capacity.                                                               *)

\* What each reservation of the table rs that is not in l asks of node n.
Claims(rs, l, n, r) ==
  [id \in Teams \X Keys |->
     IF IsActive(rs[id]) /\ rs[id].node = n /\ id \notin l
     THEN rs[id].request.need[r] ELSE 0]

\* What the reservations that were not confirmed late claim.
InTime(n, r) == ClaimedBy((Teams \X Keys) \ late, n, r)

LEMMA ClaimsType ==
  ASSUME NEW rs \in [Teams \X Keys -> Rows \cup {None}], NEW l, NEW n, NEW r \in Resources
  PROVE  Claims(rs, l, n, r) \in [Teams \X Keys -> Nat] /\ IsFiniteSet(Teams \X Keys)
<1>1. ASSUME NEW id \in Teams \X Keys, IsActive(rs[id]) PROVE rs[id].request.need[r] \in Nat
  <2>1. rs[id] \in Rows
    BY <1>1 DEF IsActive
  <2>2. rs[id].request \in Requests
    BY <2>1 DEF Rows
  <2> QED BY <2>2, RequestAssumption
<1>2. IsFiniteSet(Teams \X Keys)
  BY FiniteAssumption, FS_Product
<1> QED BY <1>1, <1>2 DEF Claims

LEMMA ClaimedIsSum ==
  ASSUME NEW n, NEW r \in Resources
  PROVE  Claimed(n)[r] = SumFunction(Claims(res, {}, n, r))
<1> DEFINE f == [id \in Teams \X Keys |->
                   IF id \in ActiveOn(n) THEN res[id].request.need[r] ELSE 0]
<1>1. f = Claims(res, {}, n, r)
  BY DEF Claims, ActiveOn
<1>2. Claimed(n)[r] = SumFunction(f)
  BY DEF Claimed
<1> QED BY <1>1, <1>2, Zenon

LEMMA InTimeIsSum ==
  ASSUME NEW n, NEW r \in Resources
  PROVE  /\ InTime(n, r) = SumFunction(Claims(res, late, n, r))
         /\ InTime(n, r)' = SumFunction(Claims(res', late', n, r))
<1> DEFINE A == ActiveOn(n) \cap ((Teams \X Keys) \ late)
           f == [id \in Teams \X Keys |->
                   IF id \in A THEN res[id].request.need[r] ELSE 0]
           g == [id \in Teams \X Keys |->
                   IF id \in A' THEN res'[id].request.need[r] ELSE 0]
<1>1. f = Claims(res, late, n, r)
  BY DEF Claims, ActiveOn
<1>2. g = Claims(res', late', n, r)
  BY DEF Claims, ActiveOn
<1>3. InTime(n, r) = SumFunction(f)
  BY DEF InTime, ClaimedBy
<1>4. InTime(n, r)' = SumFunction(g)
  BY DEF InTime, ClaimedBy
<1> QED BY <1>1, <1>2, <1>3, <1>4, Zenon

LEMMA InTimeIsPart ==
  ASSUME TypeOK, NEW n \in Nodes, NEW r \in Resources
  PROVE  /\ Claimed(n)[r] \in Nat /\ InTime(n, r) \in Nat
         /\ InTime(n, r) <= Claimed(n)[r]
<1> DEFINE f == Claims(res, late, n, r)
           g == Claims(res, {}, n, r)
<1>1. f \in [Teams \X Keys -> Nat] /\ g \in [Teams \X Keys -> Nat] /\ IsFiniteSet(Teams \X Keys)
  BY ClaimsType DEF TypeOK
<1>2. \A id \in Teams \X Keys : f[id] = g[id] \/ f[id] = 0
  BY DEF Claims
<1> HIDE DEF f, g
<1>3. \A id \in Teams \X Keys : f[id] <= g[id]
  BY <1>1, <1>2
<1>4. SumFunction(f) \in Nat /\ SumFunction(g) \in Nat /\ SumFunction(f) <= SumFunction(g)
  BY <1>1, <1>3, SumMonotone
<1> QED BY <1>4, ClaimedIsSum, InTimeIsSum DEF f, g

\* When no reservation becomes active in time, no node is asked for more.
LEMMA ClaimsShrink ==
  ASSUME TypeOK, TypeOK', late \subseteq late',
         \A id \in Teams \X Keys : IsActive(res'[id]) /\ id \notin late' => SameClaim(id)
  PROVE  \A n \in Nodes, r \in Resources :
           /\ InTime(n, r) \in Nat /\ InTime(n, r)' \in Nat
           /\ InTime(n, r)' <= InTime(n, r)
<1> SUFFICES ASSUME NEW n \in Nodes, NEW r \in Resources
             PROVE  /\ InTime(n, r) \in Nat /\ InTime(n, r)' \in Nat
                    /\ InTime(n, r)' <= InTime(n, r)
  OBVIOUS
<1> DEFINE f == Claims(res', late', n, r)
           g == Claims(res, late, n, r)
<1>1. f \in [Teams \X Keys -> Nat] /\ IsFiniteSet(Teams \X Keys)
  BY ClaimsType DEF TypeOK
<1>2. g \in [Teams \X Keys -> Nat]
  BY ClaimsType DEF TypeOK
<1>3. \A id \in Teams \X Keys : f[id] <= g[id]
  <2> SUFFICES ASSUME NEW id \in Teams \X Keys PROVE f[id] <= g[id]
    OBVIOUS
  <2>1. f[id] \in Nat /\ g[id] \in Nat
    BY <1>1, <1>2
  <2>2. CASE IsActive(res'[id]) /\ res'[id].node = n /\ id \notin late'
    <3>1. f[id] = g[id]
      BY <2>2 DEF SameClaim, Claims
    <3> QED BY <2>1, <3>1
  <2>3. CASE ~(IsActive(res'[id]) /\ res'[id].node = n /\ id \notin late')
    <3>1. f[id] = 0
      BY <2>3 DEF Claims
    <3> QED BY <2>1, <3>1
  <2> QED BY <2>2, <2>3
<1> HIDE DEF f, g
<1>4. SumFunction(f) \in Nat /\ SumFunction(g) \in Nat /\ SumFunction(f) <= SumFunction(g)
  BY <1>1, <1>2, <1>3, SumMonotone
<1> QED BY <1>4, InTimeIsSum DEF f, g

\* A reserve() adds what was asked for to the node it chose.
LEMMA ReserveClaims ==
  ASSUME IInv, TypeOK', NEW t \in Teams, NEW k \in Keys, NEW req \in Requests,
         Reserve(t, k, req), NEW n \in Nodes, NEW r \in Resources
  PROVE  /\ InTime(n, r) \in Nat /\ InTime(n, r)' \in Nat
         /\ n # Selected(req) => InTime(n, r)' = InTime(n, r)
         /\ n = Selected(req) => InTime(n, r)' <= InTime(n, r) + req.need[r]
<1> DEFINE id == <<t, k>>
           f == Claims(res, late, n, r)
           g == Claims(res', late', n, r)
<1>1. /\ id \in Teams \X Keys /\ res[id] = None /\ late' = late
      /\ res' = [res EXCEPT ![id] = NewRow(Selected(req), req)]
      /\ NewRow(Selected(req), req) \in Rows
  BY ReservePlaces DEF Reserve
<1>2. f \in [Teams \X Keys -> Nat] /\ g \in [Teams \X Keys -> Nat]
  BY ClaimsType DEF IInv, TypeOK
<1>3. IsFiniteSet(Teams \X Keys)
  BY FiniteAssumption, FS_Product
<1>4. res'[id] = NewRow(Selected(req), req)
  BY <1>1 DEF IInv, TypeOK
<1>5. f[id] = 0
  BY <1>1 DEF Claims, IsActive
<1>6. g[id] = 0 \/ (n = Selected(req) /\ g[id] = req.need[r])
  <2>1. res'[id].node = Selected(req) /\ res'[id].request = req
    BY <1>4 DEF NewRow
  <2> QED BY <1>1, <2>1 DEF Claims
<1>7. \A y \in (Teams \X Keys) \ {id} : f[y] = g[y]
  <2> SUFFICES ASSUME NEW y \in (Teams \X Keys) \ {id} PROVE f[y] = g[y]
    OBVIOUS
  <2>1. res'[y] = res[y]
    BY <1>1 DEF IInv, TypeOK
  <2> QED BY <1>1, <2>1 DEF Claims
<1>8. req.need[r] \in Nat
  BY RequestAssumption
<1> HIDE DEF f, g, id
<1>9. /\ SumFunction(f) \in Nat /\ SumFunction(g) \in Nat
      /\ SumFunction(g) = SumFunction(f) - f[id] + g[id]
  BY <1>1, <1>2, <1>3, <1>7, SumChange
<1>10. InTime(n, r) = SumFunction(f) /\ InTime(n, r)' = SumFunction(g)
  BY InTimeIsSum DEF f, g
<1> QED BY <1>5, <1>6, <1>8, <1>9, <1>10

\* What is confirmed late stays known as such.
LEMMA LateGrows == ASSUME [Next]_vars PROVE late \subseteq late'
BY DEF Next, vars, SetTenantActive, Register, SetDraining, Capture, RecordFailure, Reserve,
   ConsumeCheck, ConsumeCommit, ConsumeRollback, Release, Expire, Tick

LEMMA InitCapacityInv == Init => CapacityInv
<1> SUFFICES ASSUME Init PROVE CapacityInv
  OBVIOUS
<1>1. IInv
  BY InitIInv
<1>2. SnapInv
  BY DEF Init, SnapInv
<1>3. ASSUME NEW n \in Nodes, NEW r \in Resources PROVE InTime(n, r) <= peak[n][r]
  <2> DEFINE f == Claims(res, late, n, r)
  <2>1. f \in [Teams \X Keys -> Nat] /\ IsFiniteSet(Teams \X Keys)
    BY <1>1, ClaimsType DEF IInv, TypeOK
  <2>2. \A id \in Teams \X Keys : f[id] = 0
    BY DEF Init, Claims, IsActive
  <2> HIDE DEF f
  <2>3. SumFunction(f) = 0
    BY <2>1, <2>2, SumZero
  <2>4. peak[n][r] = 0
    BY DEF Init, Zero
  <2> QED BY <2>3, <2>4, InTimeIsSum DEF f
<1> QED BY <1>1, <1>2, <1>3 DEF CapacityInv, CapacityRespected, InTime

LEMMA SnapStep ==
  ASSUME CapacityInv, [Next]_vars
  PROVE  SnapInv' /\ \A n \in Nodes, r \in Resources :
           peak[n][r] \in Nat /\ peak'[n][r] \in Nat /\ peak[n][r] <= peak'[n][r]
<1>0. TypeOK /\ SnapInv /\ TypeOK'
  BY NextIInv DEF CapacityInv, IInv
<1>1. \A n \in Nodes, r \in Resources : peak[n][r] \in Nat /\ peak'[n][r] \in Nat
  BY <1>0 DEF TypeOK, Vectors
<1>2. ASSUME UNCHANGED <<node, peak>>
      PROVE  SnapInv' /\ \A n \in Nodes, r \in Resources : peak[n][r] <= peak'[n][r]
  BY <1>0, <1>1, <1>2 DEF SnapInv
<1>3. ASSUME NEW n \in Nodes, NEW cfg \in PoolConfigs, Register(n, cfg)
      PROVE  SnapInv' /\ peak' = peak
  <2> DEFINE new == [draining |-> FALSE, probeError |-> FALSE, snap |-> None]
  <2>1. node' = (IF node[n] # None THEN node ELSE [node EXCEPT ![n] = new]) /\ peak' = peak
    BY <1>3 DEF Register
  <2>2. new.snap = None
    OBVIOUS
  <2> HIDE DEF new
  <2>3. ASSUME NEW m \in Nodes, node'[m] # None, node'[m].snap # None PROVE node'[m] = node[m]
    BY <1>0, <2>1, <2>2, <2>3 DEF TypeOK
  <2> QED BY <1>0, <2>1, <2>3 DEF SnapInv
<1>4. ASSUME NEW n \in Nodes, SetDraining(n) \/ RecordFailure(n)
      PROVE  SnapInv' /\ peak' = peak
  <2>1. node[n] # None /\ peak' = peak
    BY <1>4 DEF SetDraining, RecordFailure
  <2>2. /\ \A m \in Nodes : m # n => node'[m] = node[m]
        /\ node'[n].snap = node[n].snap
    BY <1>0, <1>4, <2>1, NodeMoves
  <2> QED BY <1>0, <2>1, <2>2 DEF SnapInv
<1>5. ASSUME NEW n \in Nodes, NEW total \in Totals, Capture(n, total)
      PROVE  SnapInv' /\ \A m \in Nodes, r \in Resources : peak[m][r] <= peak'[m][r]
  <2> DEFINE cap == AllocatableCapacity(total)
  <2>1. /\ \A m \in Nodes : m # n => node'[m] = node[m] /\ peak'[m] = peak[m]
        /\ node'[n].snap.cap = cap
        /\ \A r \in Resources : peak'[n][r] >= peak[n][r] /\ peak'[n][r] >= cap[r]
    BY <1>0, <1>5, CaptureMoves
  <2>2. \A r \in Resources : cap[r] \in Nat
    BY AllocatableType DEF Vectors
  <2> HIDE DEF cap
  <2>3. ASSUME NEW m \in Nodes, NEW r \in Resources PROVE peak[m][r] <= peak'[m][r]
    BY <1>1, <2>1
  <2>4. ASSUME NEW m \in Nodes, node'[m] # None, node'[m].snap # None, NEW r \in Resources
        PROVE  node'[m].snap.cap[r] <= peak'[m][r]
    <3>1. CASE m = n
      BY <1>1, <2>1, <2>2, <3>1
    <3>2. CASE m # n
      BY <1>0, <2>1, <2>4, <3>2 DEF SnapInv
    <3> QED BY <3>1, <3>2
  <2> QED BY <2>3, <2>4 DEF SnapInv
<1>6. ASSUME Tick PROVE SnapInv' /\ peak' = peak
  <2>1. peak' = peak /\ \A m \in Nodes : node'[m] = OneStepOlder(m)
    BY <1>6 DEF Tick
  <2>2. ASSUME NEW m \in Nodes, node'[m] # None, node'[m].snap # None
        PROVE  node[m] # None /\ node[m].snap # None /\ node'[m].snap.cap = node[m].snap.cap
    BY <1>0, <2>1, <2>2, OlderHealth
  <2> QED BY <1>0, <2>1, <2>2 DEF SnapInv
<1>7. ASSUME peak' = peak PROVE \A n \in Nodes, r \in Resources : peak[n][r] <= peak'[n][r]
  BY <1>1, <1>7
<1> USE <1>0
<1>8. CASE \E t \in Teams : SetTenantActive(t) \/ ConsumeCommit(t) \/ ConsumeRollback(t)
  BY <1>1, <1>2, <1>8 DEF SetTenantActive, ConsumeCommit, ConsumeRollback
<1>9. CASE \E t \in Teams, k \in Keys, req \in Requests : Reserve(t, k, req)
  BY <1>1, <1>2, <1>9 DEF Reserve
<1>10. CASE \E t \in Teams, k \in Keys, ref \in Refs : ConsumeCheck(t, k, ref)
  BY <1>1, <1>2, <1>10 DEF ConsumeCheck
<1>11. CASE \E t \in Teams, k \in Keys : Release(t, k)
  BY <1>1, <1>2, <1>11 DEF Release
<1>12. CASE Expire
  BY <1>1, <1>2, <1>12 DEF Expire
<1>13. CASE UNCHANGED vars
  BY <1>1, <1>2, <1>13 DEF vars
<1> QED
  BY <1>1, <1>3, <1>4, <1>5, <1>6, <1>7, <1>8, <1>9, <1>10, <1>11, <1>12, <1>13 DEF Next

LEMMA NextCapacityInv ==
  ASSUME CapacityInv, [Next]_vars
  PROVE  CapacityInv'
<1>0. IInv /\ TypeOK /\ SnapInv /\ IInv' /\ TypeOK'
  BY NextIInv DEF CapacityInv, IInv
<1>1. SnapInv'
  BY SnapStep
<1>2. \A n \in Nodes, r \in Resources :
        peak[n][r] \in Nat /\ peak'[n][r] \in Nat /\ peak[n][r] <= peak'[n][r]
  BY SnapStep
<1>3. \A n \in Nodes, r \in Resources : InTime(n, r) <= peak[n][r]
  BY DEF CapacityInv, CapacityRespected, InTime
<1> SUFFICES ASSUME NEW n \in Nodes, NEW r \in Resources
             PROVE  InTime(n, r)' <= peak'[n][r]
  BY <1>0, <1>1 DEF CapacityInv, CapacityRespected, InTime
<1>4. ASSUME NEW t \in Teams, NEW k \in Keys, NEW req \in Requests, Reserve(t, k, req)
      PROVE  InTime(n, r)' <= peak'[n][r]
  <2>1. /\ InTime(n, r) \in Nat /\ InTime(n, r)' \in Nat
        /\ n # Selected(req) => InTime(n, r)' = InTime(n, r)
        /\ n = Selected(req) => InTime(n, r)' <= InTime(n, r) + req.need[r]
    BY <1>0, <1>4, ReserveClaims
  <2>2. Claimed(n)[r] \in Nat /\ InTime(n, r) <= Claimed(n)[r]
    BY <1>0, InTimeIsPart
  <2>3. CASE n # Selected(req)
    BY <1>2, <1>3, <2>1, <2>3
  <2>4. CASE n = Selected(req)
    <3> DEFINE c == node[n].snap.cap[r]
    <3>1. n \in Candidates(req)
      BY <1>0, <1>4, <2>4, ReservePlaces
    <3>2. node[n].snap \in Snapshots /\ node[n] # None /\ node[n].snap # None
      BY <1>0, <3>1, CandidateScored DEF Candidates, FreshNodes, EligibleNodes
    <3>3. c \in Nat /\ c <= peak[n][r]
      BY <1>0, <3>2 DEF SnapInv, Snapshots, Vectors
    <3>4. req.need[r] \in Nat /\ req.need[r] <= Max({0, c - Claimed(n)[r]})
      BY <3>1, RequestAssumption DEF Candidates, Fits, AvailableBefore
    <3> DEFINE free == c - Claimed(n)[r]
    <3>5. free \in Int
      BY <2>2, <3>3
    <3> HIDE DEF c, free
    <3>6. Max({0, free}) = 0 \/ Max({0, free}) = free
      BY <3>5, MaxWithZero
    <3>7. req.need[r] <= 0 \/ req.need[r] <= free
      BY <3>4, <3>6 DEF free
    <3> QED BY <1>2, <1>3, <2>1, <2>2, <2>4, <3>3, <3>4, <3>7 DEF free
  <2> QED BY <2>3, <2>4
<1>5. CASE ~ \E t \in Teams, k \in Keys, req \in Requests : Reserve(t, k, req)
  <2>1. \A id \in Teams \X Keys : IsActive(res'[id]) /\ id \notin late' => SameClaim(id)
    BY <1>0, <1>5, WhoActivates DEF Confirmed
  <2>2. /\ InTime(n, r) \in Nat /\ InTime(n, r)' \in Nat
        /\ InTime(n, r)' <= InTime(n, r)
    BY <1>0, <2>1, ClaimsShrink, LateGrows
  <2> QED BY <1>2, <1>3, <2>2
<1> QED BY <1>4, <1>5

\* The inductive invariant of the capacity: no snapshot, and no claim that was
\* not confirmed after its expiry, is above the largest capacity recorded.
THEOREM CapacityInvariant == Spec => []CapacityInv
<1>1. CapacityInv /\ [Next]_vars => CapacityInv'
  BY NextCapacityInv
<1> QED BY <1>1, InitCapacityInv, PTL DEF Spec

\* Capacity is promised twice only by a consume() that outlives the expiry it
\* checked: all other active reservations of a node stay within the largest
\* capacity recorded for it (reserve, consume, expire).
THEOREM NeverOversold == Spec => []CapacityRespected
BY CapacityInvariant, PTL DEF CapacityInv

-----------------------------------------------------------------------------
(* The capacity as a ledger.                                               *)

CapacityStep == [Capacity!Next]_<<Promises, Held, LockedRows, Measured, Open>>

\* A step that places nothing makes no promise, and brings back none but
\* what a consume() confirms.
LEMMA NothingPromised ==
  ASSUME IInv, [Next]_vars,
         ~ \E t \in Teams, k \in Keys, req \in Requests : Reserve(t, k, req)
  PROVE  CapacityStep
<1>1. Held' \subseteq Held \cup (LockedRows \ LockedRows')
  BY WhoActivates DEF Held, SameClaim, Confirmed
<1>5. LockedRows' \subseteq LockedRows \cup Held
  <2>1. LockedRows' \subseteq Teams \X Keys
    <3>1. TypeOK'
      BY NextIInv DEF IInv
    <3> QED BY <3>1 DEF TypeOK, LockedRows
  <2> QED BY <2>1, LocksGrow DEF IInv, Held
<1>2. {i \in Teams \X Keys : res'[i] # None} = {i \in Teams \X Keys : res[i] # None}
  BY RowsKept
<1>3. \A id \in {i \in Teams \X Keys : res[i] # None} :
        [node |-> res'[id].node, need |-> res'[id].request.need]
          = [node |-> res[id].node, need |-> res[id].request.need]
  BY RowsKept
<1>4. UNCHANGED Promises
  BY <1>2, <1>3, Zenon DEF Promises
<1> QED BY <1>1, <1>4, <1>5 DEF CapacityStep, Capacity!Next, Capacity!Settle

\* The ledger's load of a node is what its active reservations claim.
LEMMA LoadIsClaimed ==
  ASSUME NEW n, NEW r \in Resources
  PROVE  Capacity!Load(n, r) = Claimed(n)[r]
<1> DEFINE f == [id \in Teams \X Keys |->
                   IF id \in Held /\ Promises[id].node = n THEN Promises[id].need[r] ELSE 0]
<1>1. ASSUME NEW id \in Teams \X Keys
      PROVE  f[id] = Claims(res, {}, n, r)[id]
  <2>1. CASE IsActive(res[id])
    <3>1. id \in Held /\ res[id] # None
      BY <2>1 DEF Held, IsActive
    <3>2. Promises[id] = [node |-> res[id].node, need |-> res[id].request.need]
      BY <3>1 DEF Promises
    <3>3. Promises[id].node = res[id].node /\ Promises[id].need = res[id].request.need
      BY <3>2
    <3> QED BY <2>1, <3>1, <3>3 DEF Claims
  <2>2. CASE ~IsActive(res[id])
    BY <2>2 DEF Held, Claims
  <2> QED BY <2>1, <2>2
<1>2. f = Claims(res, {}, n, r)
  BY <1>1 DEF Claims
<1>3. Capacity!SumFunction(f) = SumFunction(f)
  BY DEF Capacity!SumFunction, Capacity!SumFunctionOnSet, Capacity!FoldFunctionOnSet,
     Capacity!MapThenFoldSet, SumFunction, SumFunctionOnSet, FoldFunctionOnSet, MapThenFoldSet
<1>4. Capacity!Load(n, r) = Capacity!SumFunction(f)
  BY DEF Capacity!Load
<1>5. Claimed(n)[r] = SumFunction(Claims(res, {}, n, r))
  BY ClaimedIsSum
<1> HIDE DEF f
<1> QED BY <1>2, <1>3, <1>4, <1>5

\* reserve() places a new key on an open node with room for it as measured.
LEMMA ReserveIsPromise ==
  ASSUME IInv, NEW t \in Teams, NEW k \in Keys, NEW req \in Requests, Reserve(t, k, req)
  PROVE  Selected(req) \in Nodes /\ Capacity!Promise(<<t, k>>, Selected(req), req.need)
<1> DEFINE id == <<t, k>>
           n == Selected(req)
           row == NewRow(n, req)
           ids == {i \in Teams \X Keys : res[i] # None}
<1>0. TypeOK
  BY DEF IInv
<1>1. /\ n \in Candidates(req) /\ n \in Nodes /\ id \in Teams \X Keys /\ res[id] = None
      /\ res' = [res EXCEPT ![id] = row] /\ row \in Rows
  BY ReservePlaces
<1>2. UNCHANGED <<node, consuming>>
  BY DEF Reserve
<1>3. DOMAIN Promises = ids
  BY DEF Promises
<1>4. n \in Open
  BY <1>1 DEF Open, Candidates, FreshNodes, EligibleNodes
<1>5. ASSUME NEW r \in Resources, req.need[r] > 0
      PROVE  Capacity!Load(n, r) + req.need[r] <= Measured[n][r]
  <2>1. node[n] # None /\ node[n].snap # None /\ req.need[r] <= AvailableBefore(n)[r]
    BY <1>1 DEF Candidates, FreshNodes, EligibleNodes, Fits
  <2>2. node[n].snap.cap[r] \in Nat
    <3>1. node[n] \in Health
      BY <1>0, <1>1, <2>1 DEF TypeOK
    <3>2. node[n].snap \in Snapshots
      BY <2>1, <3>1 DEF Health
    <3> QED BY <3>2 DEF Snapshots, Vectors
  <2>3. Claimed(n)[r] \in Nat
    BY <1>0, ClaimedType DEF Vectors
  <2>4. req.need[r] \in Nat
    BY RequestAssumption
  <2>5. AvailableBefore(n)[r] = Max({0, node[n].snap.cap[r] - Claimed(n)[r]})
    BY DEF AvailableBefore
  <2>6. Measured[n][r] = node[n].snap.cap[r]
    BY <1>1, <2>1 DEF Measured
  <2>7. Capacity!Load(n, r) = Claimed(n)[r]
    BY LoadIsClaimed
  <2> DEFINE c == node[n].snap.cap[r]
             l == Claimed(n)[r]
             q == req.need[r]
             a == AvailableBefore(n)[r]
             x == c - l
  <2>8. x \in Int /\ (a = 0 \/ a = x)
    BY <2>2, <2>3, <2>5, MaxWithZero
  <2> HIDE DEF a
  <2>9. q <= a /\ q > 0 /\ q \in Nat
    BY <1>5, <2>1, <2>4 DEF a
  <2>10. q <= x
    BY <2>8, <2>9
  <2>11. l + q <= c
    <3> HIDE DEF c, l, q
    <3>1. c \in Nat /\ l \in Nat /\ q \in Nat
      BY <2>2, <2>3, <2>4 DEF c, l, q
    <3> QED BY <2>10, <3>1
  <2> QED BY <2>6, <2>7, <2>11
<1>6. row # None /\ row.node = n /\ row.request = req /\ IsActive(row)
  BY <1>1, NullAssumption, TimeAssumption DEF NewRow, IsActive
<1> HIDE DEF row, n, id
<1>7. /\ res'[id] = row
      /\ \A i \in Teams \X Keys : i # id => res'[i] = res[i]
  BY <1>0, <1>1 DEF TypeOK
<1>8. Held' = Held \cup {id}
  BY <1>1, <1>6, <1>7 DEF Held
<1>9. Promises' = [i \in DOMAIN Promises \cup {id} |->
                     IF i = id THEN [node |-> n, need |-> req.need] ELSE Promises[i]]
  <2> DEFINE p(i) == IF i = id THEN [node |-> n, need |-> req.need] ELSE Promises[i]
  <2>1. {i \in Teams \X Keys : res'[i] # None} = ids \cup {id}
    BY <1>1, <1>6, <1>7
  <2>2. \A i \in ids \cup {id} :
          [node |-> res'[i].node, need |-> res'[i].request.need] = p(i)
    <3> SUFFICES ASSUME NEW i \in ids \cup {id}
                 PROVE  [node |-> res'[i].node, need |-> res'[i].request.need] = p(i)
      OBVIOUS
    <3>1. CASE i = id
      BY <1>6, <1>7, <3>1
    <3>2. CASE i # id
      BY <1>7, <3>2 DEF Promises
    <3> QED BY <3>1, <3>2
  <2>3. Promises' = [i \in ids \cup {id} |-> [node |-> res'[i].node, need |-> res'[i].request.need]]
    BY <2>1, Zenon DEF Promises
  <2> HIDE DEF p, ids
  <2>4. Promises' = [i \in ids \cup {id} |-> p(i)]
    BY <2>2, <2>3, Zenon
  <2> QED BY <1>3, <2>4, Zenon DEF p
<1>10. id \notin DOMAIN Promises
  BY <1>1, <1>3
<1>11. UNCHANGED <<LockedRows, Measured, Open>>
  BY <1>2 DEF Measured, Open, LockedRows
<1>12. Capacity!Promise(id, n, req.need)
  BY <1>4, <1>5, <1>8, <1>9, <1>10, <1>11 DEF Capacity!Promise
<1> QED BY <1>1, <1>12 DEF id, n

\* The scheduler implements CapacityLedger: reserve() promises a new
\* reservation capacity that the latest snapshot of an open node still has
\* beside all active ones; release(), the sweep, the clock and the probes
\* promise nothing and bring nothing back, and consume() brings back only
\* what it found active when it began.
THEOREM PlacementIsALedger == Spec => ImplementsCapacityLedger
<1>1. Init => Capacity!Init
  BY DEF Init, Capacity!Init, Promises, Held, IsActive, LockedRows
<1>2. IInv /\ [Next]_vars => [Capacity!Next]_<<Promises, Held, LockedRows, Measured, Open>>
  <2> SUFFICES ASSUME IInv, [Next]_vars PROVE CapacityStep
    BY DEF CapacityStep
  <2>1. ASSUME NEW t \in Teams, NEW k \in Keys, NEW req \in Requests, Reserve(t, k, req)
        PROVE  CapacityStep
    <3>1. <<t, k>> \in Teams \X Keys /\ req.need \in {q.need : q \in Requests}
      OBVIOUS
    <3>2. Selected(req) \in Nodes /\ Capacity!Promise(<<t, k>>, Selected(req), req.need)
      BY <2>1, ReserveIsPromise
    <3> QED BY <3>1, <3>2, Zenon DEF CapacityStep, Capacity!Next
  <2> QED BY <2>1, NothingPromised
<1> QED BY <1>1, <1>2, SchedulerInvariant, PTL DEF Spec, ImplementsCapacityLedger, Capacity!Spec
=============================================================================
