------------------------------ MODULE SumLemmas ------------------------------
(***************************************************************************)
(* What the proofs about budgets and capacities need to know of the sum of *)
(* a function over a finite set (SumFunction): it is a natural number, it  *)
(* follows its summands, and it changes by what one of them changes.       *)
(*                                                                         *)
(* SumFunction is a recursive function on the subsets of its domain, which *)
(* takes out a chosen element at each step.  SumExists shows that there is *)
(* such a function, by the size of the sets it is defined on, and          *)
(* SetInduction is the induction that all else uses: a property is given   *)
(* by the set of sets that lack it, and the least natural number replaces  *)
(* the induction scheme.                                                   *)
(***************************************************************************)
EXTENDS Integers, FiniteSets, Functions, FiniteSetTheorems, TLAPS

\* The element a fold takes out first.
Chosen(s) == CHOOSE x \in s : TRUE

\* g adds up f over every set of dom.
IsSum(g, f, dom) ==
  g = [s \in dom |-> IF s = {} THEN 0 ELSE f[Chosen(s)] + g[s \ {Chosen(s)}]]

\* The subsets of at most k elements.
UpTo(S, k) == {s \in SUBSET S : Cardinality(s) <= k}

-----------------------------------------------------------------------------
\* A set of naturals has a least element.
LEMMA LeastNatural ==
  ASSUME NEW T \in SUBSET Nat, T # {}
  PROVE  \E n \in T : \A m \in T : n <= m
<1>1. \E n \in T : \A m \in T : ~ (<<m, n>> \in OpToRel(<, Nat))
  BY NatLessThanWellFounded, WFMin, Zenon
<1>2. \A m, n \in Nat : m < n => <<m, n>> \in OpToRel(<, Nat)
  BY DEF OpToRel
<1>3. \E n \in T : \A m \in T : ~ (m < n)
  BY <1>1, <1>2, Zenon
<1> QED BY <1>3

\* The fold takes an element of the set.
LEMMA ChosenIn == ASSUME NEW s, s # {} PROVE Chosen(s) \in s
BY DEF Chosen

\* Without it the set has one element less.
LEMMA SmallerSet ==
  ASSUME NEW S, IsFiniteSet(S), NEW s \in SUBSET S, s # {}
  PROVE  /\ Cardinality(s) \in Nat /\ s \ {Chosen(s)} \in SUBSET S
         /\ Cardinality(s \ {Chosen(s)}) = Cardinality(s) - 1
         /\ Cardinality(s) > 0
<1>1. IsFiniteSet(s)
  BY FS_Subset
<1>2. Cardinality(s) \in Nat /\ Cardinality(s) # 0
  BY <1>1, FS_CardinalityType, FS_EmptySet
<1>3. Chosen(s) \in s
  BY ChosenIn
<1>4. Cardinality(s \ {Chosen(s)}) = Cardinality(s) - 1
  BY <1>1, <1>3, FS_RemoveElement
<1> QED BY <1>2, <1>4

\* The recursion has a solution: extend one for sets of k - 1 elements to k.
LEMMA SumExists ==
  ASSUME NEW S, IsFiniteSet(S), NEW f
  PROVE  \E g : IsSum(g, f, SUBSET S)
<1> DEFINE Bad == {k \in Nat : ~ \E g : IsSum(g, f, UpTo(S, k))}
<1>1. Bad = {}
  <2> SUFFICES ASSUME Bad # {} PROVE FALSE
    OBVIOUS
  <2>1. PICK k \in Bad : \A m \in Bad : k <= m
    BY LeastNatural
  <2>2. CASE k = 0
    <3> DEFINE g == [s \in UpTo(S, 0) |-> 0]
    <3>1. \A s \in UpTo(S, 0) : s = {}
      <4> SUFFICES ASSUME NEW s \in UpTo(S, 0), s # {} PROVE FALSE
        OBVIOUS
      <4>1. s \in SUBSET S /\ Cardinality(s) <= 0
        BY DEF UpTo
      <4>2. Cardinality(s) \in Nat /\ Cardinality(s) > 0
        BY <4>1, SmallerSet
      <4> QED BY <4>1, <4>2
    <3>2. IsSum(g, f, UpTo(S, 0))
      BY <3>1 DEF IsSum
    <3> QED BY <2>2, <3>2
  <2>3. CASE k # 0
    <3>1. k - 1 \in Nat /\ k - 1 \notin Bad
      BY <2>1, <2>3
    <3>2. PICK g : IsSum(g, f, UpTo(S, k - 1))
      BY <3>1
    <3> DEFINE val(s) == IF s = {} THEN 0 ELSE f[Chosen(s)] + g[s \ {Chosen(s)}]
               h == [s \in UpTo(S, k) |-> val(s)]
    <3>3. \A s \in UpTo(S, k - 1) : g[s] = val(s)
      BY <3>2 DEF IsSum
    <3>4. ASSUME NEW s \in UpTo(S, k), s # {}
          PROVE  s \ {Chosen(s)} \in UpTo(S, k - 1) /\ s \ {Chosen(s)} \in UpTo(S, k)
      BY <3>4, SmallerSet DEF UpTo
    <3>5. ASSUME NEW s \in UpTo(S, k), s # {}
          PROVE  h[s \ {Chosen(s)}] = g[s \ {Chosen(s)}]
      <4> DEFINE t == s \ {Chosen(s)}
      <4>1. t \in UpTo(S, k - 1) /\ t \in UpTo(S, k)
        BY <3>4, <3>5
      <4> HIDE DEF t
      <4>2. h[t] = g[t]
        BY <4>1, <3>3
      <4> QED BY <4>2 DEF t
    <3>6. \A s \in UpTo(S, k) :
            val(s) = IF s = {} THEN 0 ELSE f[Chosen(s)] + h[s \ {Chosen(s)}]
      BY <3>5
    <3>7. IsSum(h, f, UpTo(S, k))
      <4> HIDE DEF val
      <4> QED BY <3>6 DEF IsSum
    <3> QED BY <3>7
  <2> QED BY <2>2, <2>3
<1>2. Cardinality(S) \in Nat
  BY FS_CardinalityType
<1>3. UpTo(S, Cardinality(S)) = SUBSET S
  BY FS_Subset DEF UpTo
<1>4. \E g : IsSum(g, f, UpTo(S, Cardinality(S)))
  BY <1>1, <1>2
<1> QED BY <1>3, <1>4

\* SumFunction is such a solution, at the whole domain.
LEMMA SumIsSum ==
  ASSUME NEW S, IsFiniteSet(S), NEW f, DOMAIN f = S
  PROVE  \E g : IsSum(g, f, SUBSET S) /\ SumFunction(f) = g[S]
<1> DEFINE g == CHOOSE h : IsSum(h, f, SUBSET S)
<1>1. IsSum(g, f, SUBSET S)
  BY SumExists
<1>2. SumFunction(f) = g[S]
  BY DEF SumFunction, SumFunctionOnSet, FoldFunctionOnSet, MapThenFoldSet, IsSum, Chosen
<1> QED BY <1>1, <1>2

\* Induction on a finite set: if whatever set is bad is bad for a smaller
\* one, and the empty set is not, then none is.
LEMMA SetInduction ==
  ASSUME NEW S, IsFiniteSet(S), NEW Bad \in SUBSET SUBSET S, {} \notin Bad,
         \A s \in Bad : s # {} => s \ {Chosen(s)} \in Bad
  PROVE  S \notin Bad
<1> SUFFICES ASSUME S \in Bad PROVE FALSE
  OBVIOUS
<1> DEFINE Sizes == {Cardinality(s) : s \in Bad}
<1>1. Sizes \subseteq Nat /\ Sizes # {}
  BY FS_Subset, FS_CardinalityType
<1>2. PICK k \in Sizes : \A m \in Sizes : k <= m
  BY <1>1, LeastNatural
<1>3. PICK s \in Bad : k = Cardinality(s)
  BY <1>2
<1>4. Cardinality(s \ {Chosen(s)}) = k - 1 /\ k \in Nat
  BY <1>3, SmallerSet
<1>5. Cardinality(s \ {Chosen(s)}) \in Sizes
  BY <1>3
<1> HIDE DEF Sizes
<1>6. k <= k - 1
  BY <1>2, <1>4, <1>5
<1> QED BY <1>4, <1>6

-----------------------------------------------------------------------------
\* Functions that agree everywhere but at x have sums that differ as they do.
LEMMA SumChange ==
  ASSUME NEW S, IsFiniteSet(S), NEW x \in S,
         NEW f \in [S -> Nat], NEW g \in [S -> Nat],
         \A y \in S \ {x} : f[y] = g[y]
  PROVE  /\ SumFunction(f) \in Nat /\ SumFunction(g) \in Nat
         /\ SumFunction(g) = SumFunction(f) - f[x] + g[x]
<1>1. PICK F : IsSum(F, f, SUBSET S) /\ SumFunction(f) = F[S]
  BY SumIsSum
<1>2. PICK G : IsSum(G, g, SUBSET S) /\ SumFunction(g) = G[S]
  BY SumIsSum
<1> DEFINE Good(s) == /\ F[s] \in Nat /\ G[s] \in Nat
                      /\ x \in s => G[s] = F[s] - f[x] + g[x]
                      /\ x \notin s => G[s] = F[s]
           Bad == {s \in SUBSET S : ~ Good(s)}
<1>3. {} \notin Bad
  BY <1>1, <1>2 DEF IsSum
<1>4. ASSUME NEW s \in SUBSET S, s # {}, Good(s \ {Chosen(s)}) PROVE Good(s)
  <2> DEFINE c == Chosen(s)
             t == s \ {c}
  <2>1. c \in s /\ (x \in t <=> x \in s /\ x # c)
    BY <1>4, ChosenIn
  <2>2. F[s] = f[c] + F[t] /\ G[s] = g[c] + G[t]
    BY <1>1, <1>2, <1>4 DEF IsSum
  <2>3. Good(t)
    BY <1>4
  <2> HIDE DEF c, t
  <2>4. f[c] \in Nat /\ g[c] \in Nat /\ f[x] \in Nat /\ g[x] \in Nat /\ (c # x => f[c] = g[c])
    BY <2>1
  <2>5. CASE c = x
    BY <2>1, <2>2, <2>3, <2>4, <2>5
  <2>6. CASE c # x
    BY <2>1, <2>2, <2>3, <2>4, <2>6
  <2> QED BY <2>5, <2>6
<1>5. S \notin Bad
  BY <1>3, <1>4, SetInduction
<1> QED BY <1>1, <1>2, <1>5

\* Smaller summands have a smaller sum.
LEMMA SumMonotone ==
  ASSUME NEW S, IsFiniteSet(S), NEW f \in [S -> Nat], NEW g \in [S -> Nat],
         \A y \in S : f[y] <= g[y]
  PROVE  /\ SumFunction(f) \in Nat /\ SumFunction(g) \in Nat
         /\ SumFunction(f) <= SumFunction(g)
<1>1. PICK F : IsSum(F, f, SUBSET S) /\ SumFunction(f) = F[S]
  BY SumIsSum
<1>2. PICK G : IsSum(G, g, SUBSET S) /\ SumFunction(g) = G[S]
  BY SumIsSum
<1> DEFINE Good(s) == F[s] \in Nat /\ G[s] \in Nat /\ F[s] <= G[s]
           Bad == {s \in SUBSET S : ~ Good(s)}
<1>3. {} \notin Bad
  BY <1>1, <1>2 DEF IsSum
<1>4. ASSUME NEW s \in SUBSET S, s # {}, Good(s \ {Chosen(s)}) PROVE Good(s)
  <2>1. Chosen(s) \in S
    BY <1>4, ChosenIn
  <2>2. /\ F[s] = f[Chosen(s)] + F[s \ {Chosen(s)}]
        /\ G[s] = g[Chosen(s)] + G[s \ {Chosen(s)}]
    BY <1>1, <1>2, <1>4 DEF IsSum
  <2> QED BY <1>4, <2>1, <2>2
<1>5. S \notin Bad
  BY <1>3, <1>4, SetInduction
<1> QED BY <1>1, <1>2, <1>5

\* A sum of zeros is zero.
LEMMA SumZero ==
  ASSUME NEW S, IsFiniteSet(S), NEW f \in [S -> Nat], \A y \in S : f[y] = 0
  PROVE  SumFunction(f) = 0
<1>1. PICK F : IsSum(F, f, SUBSET S) /\ SumFunction(f) = F[S]
  BY SumIsSum
<1> DEFINE Bad == {s \in SUBSET S : F[s] # 0}
<1>2. {} \notin Bad
  BY <1>1 DEF IsSum
<1>3. ASSUME NEW s \in SUBSET S, s # {}, F[s \ {Chosen(s)}] = 0 PROVE F[s] = 0
  <2>1. F[s] = f[Chosen(s)] + F[s \ {Chosen(s)}]
    BY <1>1, <1>3 DEF IsSum
  <2> QED BY <1>3, <2>1, ChosenIn
<1>4. \A s \in Bad : s # {} => s \ {Chosen(s)} \in Bad
  BY <1>3
<1>5. S \notin Bad
  <2> HIDE DEF Bad
  <2>1. Bad \in SUBSET SUBSET S
    BY DEF Bad
  <2> QED BY <1>2, <1>4, <2>1, SetInduction
<1> QED BY <1>1, <1>5

\* A sum of naturals is a natural.
LEMMA SumType ==
  ASSUME NEW S, IsFiniteSet(S), NEW f \in [S -> Nat]
  PROVE  SumFunction(f) \in Nat
BY SumMonotone
=============================================================================
