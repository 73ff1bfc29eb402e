-------------------------- MODULE AiGatewayProofs --------------------------
(***************************************************************************)
(* The gateway for any calls, keys, costs, limits, attempts and months: of *)
(* the calls with one idempotency key at most one reaches the provider,    *)
(* what succeeded is metered once, and no month exceeds its budget.        *)
(*                                                                         *)
(* OneProviderCallPerKey is not inductive alone: Post sends what an        *)
(* earlier step admitted.  The invariant adds that a call was sent, or is  *)
(* about to be, only if it owns a request row, and that the rows with a    *)
(* key are unique, which is what beginRequest() sees under the team lock.  *)
(*                                                                         *)
(* The two sums need more: the row of a call is pending from its admission *)
(* until it settles (Settled), so a settlement moves the tokens of exactly *)
(* one row, once.  recordSuccess() charges the month of the answer, which  *)
(* may be later than that of the row, and what the provider reports, which *)
(* may be more than the row reserved: what the charged month did not hold  *)
(* is in unreserved (Unheld), and the budget is stated beside it.          *)
(***************************************************************************)
EXTENDS AiGateway, SumLemmas

AnyRow == {None} \cup UNION {RowsOf(c) : c \in Calls}
InFlight == {"admitted", "provider", "answered"}

OneRowPerKey ==
  \A c, d \in Calls :
    row[c] # None /\ row[d] # None /\ KeyOf[c] # None /\ KeyOf[c] = KeyOf[d] => c = d

Owned ==
  \A c \in Calls :
    /\ call[c] \in InFlight \/ posts[c] > 0 => row[c] # None
    /\ call[c] = "admission" => readLimit[c] \in Limits
    /\ posts[c] <= AttemptsOf(c)

Inv ==
  /\ TypeOK /\ row \in [Calls -> AnyRow] /\ spent \in [Calls -> Nat]
  /\ OneRowPerKey /\ Owned

-----------------------------------------------------------------------------
LEMMA CostType == \A c \in Calls : Cost[PayloadOf[c]] \in Nat \ {0}
BY GatewayAssumption

LEMMA RowNotNone == \A c \in Calls : \A r \in RowsOf(c) : r # None /\ r \in AnyRow
<1> SUFFICES ASSUME NEW c \in Calls, NEW r \in RowsOf(c) PROVE r # None /\ r \in AnyRow
  OBVIOUS
<1>1. r \in AnyRow
  BY DEF AnyRow
<1> QED BY <1>1, GatewayAssumption

LEMMA MaxOfTwo ==
  ASSUME NEW m \in Nat, NEW n \in Nat
  PROVE  Max({m, n}) \in Nat /\ Max({m, n}) >= m /\ Max({m, n}) >= n
<1>1. \E x \in {m, n} : \A y \in {m, n} : x >= y
  <2>1. CASE m >= n
    BY <2>1
  <2>2. CASE n >= m
    BY <2>2
  <2> QED BY <2>1, <2>2
<1>2. Max({m, n}) \in {m, n} /\ \A y \in {m, n} : Max({m, n}) >= y
  BY <1>1 DEF Max
<1> QED BY <1>2

\* A row's status is set by keeping the rest of it.
LEMMA StatusKeepsRow ==
  ASSUME NEW c \in Calls, row[c] \in RowsOf(c),
         NEW s \in {"pending", "succeeded", "failed"}
  PROVE  [status |-> s, month |-> row[c].month, reserved |-> row[c].reserved] \in RowsOf(c)
BY DEF RowsOf

LEMMA NewRow ==
  ASSUME NEW c \in Calls, month \in Months
  PROVE  [status |-> "pending", month |-> month, reserved |-> Cost[PayloadOf[c]]] \in RowsOf(c)
BY DEF RowsOf

\* A success adds to its month no more than the month held for it and Unheld.
LEMMA UnheldCovers ==
  ASSUME Inv, NEW c \in Calls, row[c] # None
  PROVE  /\ Unheld(c) \in Nat
         /\ row[c].month # month => Unheld(c) = spent[c]
         /\ row[c].month = month => spent[c] <= Cost[PayloadOf[c]] + Unheld(c)
<1>1. spent[c] \in Nat /\ row[c].reserved = Cost[PayloadOf[c]]
  BY DEF Inv, TypeOK, RowsOf
<1>2. CASE row[c].month # month
  BY <1>1, <1>2 DEF Unheld
<1>3. CASE row[c].month = month
  <2> DEFINE over == spent[c] - Cost[PayloadOf[c]]
  <2>1. Unheld(c) = Max({0, over})
    BY <1>1, <1>3 DEF Unheld
  <2>2. over \in Int /\ Cost[PayloadOf[c]] \in Nat
    BY <1>1, CostType
  <2>3. \E x \in {0, over} : \A y \in {0, over} : x >= y
    <3> HIDE DEF over
    <3>1. CASE 0 >= over
      BY <3>1
    <3>2. CASE over >= 0
      BY <2>2, <3>2
    <3> QED BY <2>2, <3>1, <3>2
  <2>4. Unheld(c) \in {0, over} /\ \A y \in {0, over} : Unheld(c) >= y
    <3> HIDE DEF over
    <3> QED BY <2>1, <2>3 DEF Max
  <2>5. Unheld(c) \in Nat /\ Unheld(c) >= over
    <3> HIDE DEF over
    <3> QED BY <2>2, <2>4
  <2> QED BY <1>1, <1>3, <2>2, <2>5
<1> QED BY <1>2, <1>3
-----------------------------------------------------------------------------
LEMMA InitInv == Init => Inv
<1> SUFFICES ASSUME Init PROVE Inv
  OBVIOUS
<1> USE DEF Init
<1>1. TypeOK
  BY GatewayAssumption, CostType DEF TypeOK, Months, Stages
<1>2. row \in [Calls -> AnyRow] /\ spent \in [Calls -> Nat]
  BY DEF AnyRow
<1>3. OneRowPerKey
  BY DEF OneRowPerKey
<1>4. Owned
  BY GatewayAssumption DEF Owned, InFlight, AttemptsOf
<1> QED BY <1>1, <1>2, <1>3, <1>4 DEF Inv

LEMMA NextInv == Inv /\ [Next]_vars => Inv'
<1> SUFFICES ASSUME Inv, [Next]_vars PROVE Inv'
  OBVIOUS
<1> USE DEF Inv
<1>1. ASSUME NEW c \in Calls, Entitle(c) PROVE Inv'
  <2>1. TypeOK'
    BY <1>1 DEF Entitle, Moves, TypeOK, Stages
  <2>2. OneRowPerKey'
    BY <1>1 DEF Entitle, OneRowPerKey
  <2>3. Owned'
    BY <1>1 DEF Entitle, Moves, Owned, TypeOK, InFlight, AttemptsOf
  <2> QED BY <1>1, <2>1, <2>2, <2>3 DEF Entitle
<1>2. ASSUME NEW c \in Calls, BeginKnown(c) PROVE Inv'
  <2>1. TypeOK'
    BY <1>2 DEF BeginKnown, Moves, TypeOK, Stages
  <2>2. OneRowPerKey'
    BY <1>2 DEF BeginKnown, OneRowPerKey
  <2>3. Owned'
    BY <1>2 DEF BeginKnown, Moves, Owned, TypeOK, InFlight, AttemptsOf
  <2> QED BY <1>2, <2>1, <2>2, <2>3 DEF BeginKnown
<1>3. ASSUME NEW c \in Calls, Begin(c) PROVE Inv'
  <2> DEFINE r == [status |-> "pending", month |-> month, reserved |-> Cost[PayloadOf[c]]]
  <2>1. r \in RowsOf(c) /\ r # None /\ r \in AnyRow
    BY NewRow, RowNotNone DEF TypeOK
  <2>2. row' = [row EXCEPT ![c] = r]
    BY <1>3 DEF Begin
  <2> HIDE DEF r
  <2>3. row' \in [Calls -> AnyRow] /\ spent' \in [Calls -> Nat]
    BY <1>3, <2>1, <2>2 DEF Begin
  <2>4. granted' \in [Months -> Nat]
    <3>1. readLimit[c] \in Nat /\ granted[month] \in Nat
      BY <1>3, GatewayAssumption DEF Begin, Owned, TypeOK
    <3>2. Max({granted[month], readLimit[c]}) \in Nat
      BY <3>1, MaxOfTwo
    <3> QED BY <1>3, <3>2 DEF Begin, TypeOK
  <2>5. \A d \in Calls : row'[d] = None \/ row'[d] \in RowsOf(d)
    BY <2>1, <2>2 DEF TypeOK
  <2>6. TypeOK'
    BY <1>3, <2>4, <2>5 DEF Begin, Moves, TypeOK, Stages
  <2>7. OneRowPerKey'
    <3> SUFFICES ASSUME NEW d \in Calls, NEW e \in Calls, row'[d] # None, row'[e] # None,
                        KeyOf[d] # None, KeyOf[d] = KeyOf[e]
                 PROVE  d = e
      BY DEF OneRowPerKey
    <3>1. \A x \in Calls : KeyOf[c] # None /\ KeyOf[x] = KeyOf[c] => row[x] = None
      BY <1>3 DEF Begin, Existing
    <3> QED BY <2>2, <3>1 DEF OneRowPerKey
  <2>8. Owned'
    BY <1>3, <2>1, <2>2 DEF Begin, Moves, Owned, TypeOK, InFlight, AttemptsOf
  <2> QED BY <2>3, <2>6, <2>7, <2>8
<1>4. ASSUME NEW c \in Calls, BeginRefused(c) PROVE Inv'
  <2>1. TypeOK'
    BY <1>4 DEF BeginRefused, Moves, TypeOK, Stages
  <2>2. OneRowPerKey'
    BY <1>4 DEF BeginRefused, OneRowPerKey
  <2>3. Owned'
    BY <1>4 DEF BeginRefused, Moves, Owned, TypeOK, InFlight, AttemptsOf
  <2> QED BY <1>4, <2>1, <2>2, <2>3 DEF BeginRefused
<1>5. ASSUME NEW c \in Calls, Post(c) PROVE Inv'
  <2>1. posts[c] + 1 \in 0..Attempts /\ posts[c] + 1 <= AttemptsOf(c)
    BY <1>5, GatewayAssumption DEF Post, TypeOK, AttemptsOf
  <2>2. TypeOK'
    BY <1>5, <2>1 DEF Post, Moves, TypeOK, Stages
  <2>3. OneRowPerKey'
    BY <1>5 DEF Post, OneRowPerKey
  <2>4. Owned'
    BY <1>5, <2>1 DEF Post, Moves, Owned, TypeOK, InFlight, AttemptsOf
  <2> QED BY <1>5, <2>2, <2>3, <2>4 DEF Post
<1>6. ASSUME NEW c \in Calls, Lost(c) PROVE Inv'
  <2>1. TypeOK'
    BY <1>6 DEF Lost, Moves, TypeOK, Stages
  <2>2. OneRowPerKey'
    BY <1>6 DEF Lost, OneRowPerKey
  <2>3. Owned'
    BY <1>6 DEF Lost, Moves, Owned, TypeOK, InFlight, AttemptsOf
  <2> QED BY <1>6, <2>1, <2>2, <2>3 DEF Lost
<1>7. ASSUME NEW c \in Calls, NEW tokens \in 0..(Cost[PayloadOf[c]] + Overrun), Answer(c, tokens)
      PROVE  Inv'
  <2>1. spent' \in [Calls -> Nat]
    BY <1>7, CostType, GatewayAssumption DEF Answer
  <2>2. TypeOK'
    BY <1>7 DEF Answer, Moves, TypeOK, Stages
  <2>3. OneRowPerKey'
    BY <1>7 DEF Answer, OneRowPerKey
  <2>4. Owned'
    BY <1>7 DEF Answer, Moves, Owned, TypeOK, InFlight, AttemptsOf
  <2> QED BY <1>7, <2>1, <2>2, <2>3, <2>4 DEF Answer
<1>8. ASSUME NEW c \in Calls, RecordFailure(c) PROVE Inv'
  <2> DEFINE r == [status |-> "failed", month |-> row[c].month, reserved |-> row[c].reserved]
  <2>0. posts[c] > 0 \/ call[c] \in InFlight
    BY <1>8 DEF RecordFailure, InFlight
  <2>1. row[c] # None /\ row[c] \in RowsOf(c)
    BY <2>0 DEF Owned, TypeOK
  <2>2. r \in RowsOf(c) /\ r # None /\ r \in AnyRow
    BY <2>1, StatusKeepsRow, RowNotNone
  <2>3. row' = [row EXCEPT ![c] = r]
    BY <1>8 DEF RecordFailure, SetStatus
  <2> HIDE DEF r
  <2>4. row' \in [Calls -> AnyRow] /\ spent' \in [Calls -> Nat]
    BY <1>8, <2>2, <2>3 DEF RecordFailure
  <2>5. \A d \in Calls : row'[d] = None \/ row'[d] \in RowsOf(d)
    BY <2>2, <2>3 DEF TypeOK
  <2>6. TypeOK'
    BY <1>8, <2>5 DEF RecordFailure, Moves, TypeOK, Stages
  <2>7. OneRowPerKey'
    BY <2>1, <2>3 DEF OneRowPerKey
  <2>8. Owned'
    BY <1>8, <2>2, <2>3 DEF RecordFailure, Moves, Owned, TypeOK, InFlight, AttemptsOf
  <2> QED BY <2>4, <2>6, <2>7, <2>8
<1>9. ASSUME NEW c \in Calls, RecordSuccess(c) PROVE Inv'
  <2> DEFINE r == [status |-> "succeeded", month |-> row[c].month, reserved |-> row[c].reserved]
  <2>1. row[c] # None /\ row[c] \in RowsOf(c)
    BY <1>9 DEF RecordSuccess, Owned, InFlight, TypeOK
  <2>2. r \in RowsOf(c) /\ r # None /\ r \in AnyRow
    BY <2>1, StatusKeepsRow, RowNotNone
  <2>3. row' = [row EXCEPT ![c] = r]
    BY <1>9 DEF RecordSuccess, SetStatus
  <2> HIDE DEF r
  <2>4. row' \in [Calls -> AnyRow] /\ spent' \in [Calls -> Nat]
    BY <1>9, <2>2, <2>3 DEF RecordSuccess
  <2>5. \A d \in Calls : row'[d] = None \/ row'[d] \in RowsOf(d)
    BY <2>2, <2>3 DEF TypeOK
  <2>6. ledger' \in [Months -> Nat] /\ unreserved' \in [Months -> Nat]
    <3>1. Unheld(c) \in Nat
      BY <2>1, UnheldCovers
    <3> QED BY <1>9, <3>1 DEF RecordSuccess, TypeOK
  <2>7. TypeOK'
    BY <1>9, <2>5, <2>6 DEF RecordSuccess, Moves, TypeOK, Stages
  <2>8. OneRowPerKey'
    BY <2>1, <2>3 DEF OneRowPerKey
  <2>9. Owned'
    BY <1>9, <2>2, <2>3 DEF RecordSuccess, Moves, Owned, TypeOK, InFlight, AttemptsOf
  <2> QED BY <2>4, <2>7, <2>8, <2>9
<1>10. ASSUME NEW c \in Calls, Die(c) PROVE Inv'
  <2>1. TypeOK'
    BY <1>10 DEF Die, Moves, TypeOK, Stages
  <2>2. OneRowPerKey'
    BY <1>10 DEF Die, OneRowPerKey
  <2>3. Owned'
    BY <1>10 DEF Die, Moves, Owned, TypeOK, InFlight, AttemptsOf
  <2> QED BY <1>10, <2>1, <2>2, <2>3 DEF Die
<1>11. ASSUME NEW limit \in Limits \cup {None}, ChangePlan(limit) PROVE Inv'
  BY <1>11 DEF ChangePlan, TypeOK, OneRowPerKey, Owned
<1>12. CASE NextMonth
  BY <1>12, GatewayAssumption DEF NextMonth, TypeOK, OneRowPerKey, Owned, Months
<1>13. CASE UNCHANGED vars
  BY <1>13 DEF vars, TypeOK, OneRowPerKey, Owned
<1> QED
  BY <1>1, <1>2, <1>3, <1>4, <1>5, <1>6, <1>7, <1>8, <1>9, <1>10, <1>11, <1>12, <1>13
  DEF Next, CallStep

\* The inductive invariant of the gateway: who is at the provider owns a row.
THEOREM GatewayInvariant == Spec => []Inv
BY InitInv, NextInv, PTL DEF Spec

\* The gateway stays in its types: rows, attempts and counts of tokens.
THEOREM TypeCorrect == Spec => []TypeOK
BY GatewayInvariant, PTL DEF Inv

\* Of the calls with one idempotency key one is ever sent to the provider, and
\* a call without a key is sent once (beginRequest, client).
THEOREM SentOnce == Spec => []OneProviderCallPerKey
<1>1. Inv => OneProviderCallPerKey
  <2> SUFFICES ASSUME Inv PROVE OneProviderCallPerKey
    OBVIOUS
  <2>1. \A c \in Calls : posts[c] \in Nat /\ (posts[c] > 0 => row[c] # None)
    BY GatewayAssumption DEF Inv, TypeOK, Owned
  <2>2. \A c \in Calls : KeyOf[c] = None => posts[c] <= 1
    BY DEF Inv, Owned, AttemptsOf
  <2>3. ASSUME NEW c \in Calls, NEW d \in Calls, c # d, KeyOf[c] # None, KeyOf[c] = KeyOf[d]
        PROVE  posts[c] = 0 \/ posts[d] = 0
    BY <2>1, <2>3 DEF Inv, OneRowPerKey
  <2> QED BY <2>2, <2>3 DEF OneProviderCallPerKey
<1> QED BY <1>1, GatewayInvariant, PTL
-----------------------------------------------------------------------------
(* The sums of the budget and of the ledger.  Reserved and Used give their  *)
(* summands from the rows alone, so that one lemma serves a state and its   *)
(* successor.                                                               *)
IsPending(r, m) == r # None /\ r.status = "pending" /\ r.month = m
IsSucceeded(r) == r # None /\ r.status = "succeeded"

Reserved(rw, m) == [d \in Calls |-> IF IsPending(rw[d], m) THEN rw[d].reserved ELSE 0]
Used(rw, sp) == [d \in Calls |-> IF IsSucceeded(rw[d]) THEN sp[d] ELSE 0]

LEMMA PendingIsSum == \A m \in Months : PendingTokens(m) = SumFunction(Reserved(row, m))
BY DEF PendingTokens, PendingIn, Reserved, IsPending

LEMMA PendingIsSumNext ==
  \A m \in Months : PendingTokens(m)' = SumFunction(Reserved(row', m))
BY DEF PendingTokens, PendingIn, Reserved, IsPending

LEMMA LedgerIsSum == LedgerExact <=> SumFunction(ledger) = SumFunction(Used(row, spent))
BY DEF LedgerExact, Succeeded, Used, IsSucceeded

LEMMA LedgerIsSumNext ==
  LedgerExact' <=> SumFunction(ledger') = SumFunction(Used(row', spent'))
BY DEF LedgerExact, Succeeded, Used, IsSucceeded

LEMMA ReservedType ==
  ASSUME NEW rw, \A c \in Calls : rw[c] = None \/ rw[c] \in RowsOf(c), NEW m \in Months
  PROVE  Reserved(rw, m) \in [Calls -> Nat]
<1>1. \A d \in Calls : rw[d] # None => rw[d].reserved \in Nat
  BY CostType DEF RowsOf
<1> QED BY <1>1 DEF Reserved, IsPending

LEMMA UsedType ==
  ASSUME NEW rw, NEW sp, \A c \in Calls : sp[c] \in Nat
  PROVE  Used(rw, sp) \in [Calls -> Nat]
BY DEF Used

\* The charge of a month: what changes when the row of one call changes.
LEMMA ReservedChange ==
  ASSUME NEW c \in Calls, NEW m \in Months, NEW rw, NEW rv,
         \A d \in Calls : rw[d] = None \/ rw[d] \in RowsOf(d),
         \A d \in Calls : rv[d] = None \/ rv[d] \in RowsOf(d),
         \A d \in Calls \ {c} : rv[d] = rw[d]
  PROVE  /\ SumFunction(Reserved(rw, m)) \in Nat
         /\ SumFunction(Reserved(rv, m)) \in Nat
         /\ Reserved(rw, m)[c] \in Nat /\ Reserved(rv, m)[c] \in Nat
         /\ SumFunction(Reserved(rv, m))
              = SumFunction(Reserved(rw, m)) - Reserved(rw, m)[c] + Reserved(rv, m)[c]
<1> DEFINE f == Reserved(rw, m)
           g == Reserved(rv, m)
<1>1. f \in [Calls -> Nat] /\ g \in [Calls -> Nat]
  BY ReservedType
<1>2. \A d \in Calls \ {c} : f[d] = g[d]
  BY DEF Reserved
<1>3. IsFiniteSet(Calls)
  BY GatewayAssumption
<1> HIDE DEF f, g
<1>4. SumFunction(f) \in Nat /\ SumFunction(g) \in Nat /\ SumFunction(g) = SumFunction(f) - f[c] + g[c]
  BY <1>1, <1>2, <1>3, SumChange
<1> QED BY <1>1, <1>4 DEF f, g

LEMMA UsedChange ==
  ASSUME NEW c \in Calls, NEW rw, NEW rv, NEW sp, NEW sq,
         \A d \in Calls : sp[d] \in Nat, \A d \in Calls : sq[d] \in Nat,
         \A d \in Calls \ {c} : rv[d] = rw[d] /\ sq[d] = sp[d]
  PROVE  /\ SumFunction(Used(rw, sp)) \in Nat
         /\ SumFunction(Used(rv, sq)) \in Nat
         /\ Used(rw, sp)[c] \in Nat /\ Used(rv, sq)[c] \in Nat
         /\ SumFunction(Used(rv, sq))
              = SumFunction(Used(rw, sp)) - Used(rw, sp)[c] + Used(rv, sq)[c]
<1> DEFINE f == Used(rw, sp)
           g == Used(rv, sq)
<1>1. f \in [Calls -> Nat] /\ g \in [Calls -> Nat]
  BY UsedType
<1>2. \A d \in Calls \ {c} : f[d] = g[d]
  BY DEF Used
<1>3. IsFiniteSet(Calls)
  BY GatewayAssumption
<1> HIDE DEF f, g
<1>4. SumFunction(f) \in Nat /\ SumFunction(g) \in Nat /\ SumFunction(g) = SumFunction(f) - f[c] + g[c]
  BY <1>1, <1>2, <1>3, SumChange
<1> QED BY <1>1, <1>4 DEF f, g
-----------------------------------------------------------------------------
(* A call has no row before it is admitted and a pending one while it is at *)
(* the provider.                                                            *)
Settled ==
  \A c \in Calls :
    /\ call[c] \in {"new", "admission"} => row[c] = None
    /\ call[c] \in InFlight => IsPending(row[c], row[c].month)

LedgerInv == Inv /\ Settled /\ LedgerExact
BudgetInv == Inv /\ Settled /\ BudgetKept

\* What a step may do to the rows, the reported tokens and the ledger.
RowsKept ==
  row' = row /\ ledger' = ledger /\ granted' = granted /\ unreserved' = unreserved

\* The row of c becomes r, the others stay.
SetsRow(c, r) ==
  /\ row' = [row EXCEPT ![c] = r]
  /\ r # None
  /\ \A d \in Calls \ {c} : row'[d] = row[d]
  /\ row'[c] = r
  /\ spent' = spent

LEMMA BeginSetsRow ==
  ASSUME Inv, NEW c \in Calls, Begin(c)
  PROVE  \E r : SetsRow(c, r) /\ r.status = "pending" /\ r.month = month
                /\ r.reserved = Cost[PayloadOf[c]]
<1> DEFINE r == [status |-> "pending", month |-> month, reserved |-> Cost[PayloadOf[c]]]
<1>1. r # None
  BY NewRow, RowNotNone DEF Inv, TypeOK
<1>2. r.status = "pending" /\ r.month = month /\ r.reserved = Cost[PayloadOf[c]]
  OBVIOUS
<1>3. row' = [row EXCEPT ![c] = r] /\ spent' = spent
  BY DEF Begin
<1> HIDE DEF r
<1>4. SetsRow(c, r)
  BY <1>1, <1>3 DEF SetsRow, Inv
<1> QED BY <1>2, <1>4

LEMMA RecordSetsRow ==
  ASSUME Inv, NEW c \in Calls, NEW s \in {"failed", "succeeded"}, SetStatus(c, s),
         spent' = spent, row[c] # None
  PROVE  \E r : SetsRow(c, r) /\ r.status = s
<1> DEFINE r == [status |-> s, month |-> row[c].month, reserved |-> row[c].reserved]
<1>1. row[c] \in RowsOf(c)
  BY DEF Inv, TypeOK
<1>2. r # None
  BY <1>1, StatusKeepsRow, RowNotNone
<1>3. r.status = s
  OBVIOUS
<1>4. row' = [row EXCEPT ![c] = r]
  BY DEF SetStatus
<1> HIDE DEF r
<1>5. SetsRow(c, r)
  BY <1>2, <1>4 DEF SetsRow, Inv
<1> QED BY <1>3, <1>5

\* The steps that leave rows, ledger and granted limits alone.
LEMMA OtherSteps ==
  ASSUME [Next]_vars,
         \A c \in Calls : ~ Begin(c) /\ ~ RecordFailure(c) /\ ~ RecordSuccess(c)
  PROVE  RowsKept
BY DEF Next, CallStep, vars, RowsKept, ChangePlan, NextMonth, Entitle, BeginKnown,
       BeginRefused, Post, Lost, Answer, Die

LEMMA SettledStep ==
  ASSUME Inv, Settled, [Next]_vars
  PROVE  Settled'
<1> USE DEF Inv, TypeOK
<1>1. ASSUME NEW c \in Calls, Begin(c) PROVE Settled'
  <2>1. PICK r : SetsRow(c, r) /\ r.status = "pending"
    BY <1>1, BeginSetsRow
  <2>2. call' = [call EXCEPT ![c] = "admitted"]
    BY <1>1 DEF Begin, Moves
  <2> QED BY <2>1, <2>2 DEF Settled, SetsRow, InFlight, IsPending
<1>2. ASSUME NEW c \in Calls, RecordFailure(c) \/ RecordSuccess(c) PROVE Settled'
  <2>1. \A d \in Calls \ {c} : row'[d] = row[d]
    BY <1>2 DEF RecordFailure, RecordSuccess, SetStatus
  <2>2. call' = [call EXCEPT ![c] = "ended"]
    BY <1>2 DEF RecordFailure, RecordSuccess, Moves
  <2> QED BY <2>1, <2>2 DEF Settled, InFlight, IsPending
<1>3. ASSUME \A c \in Calls : ~ Begin(c) /\ ~ RecordFailure(c) /\ ~ RecordSuccess(c)
      PROVE  Settled'
  <2>1. row' = row
    BY <1>3, OtherSteps DEF RowsKept
  <2>2. \A c \in Calls :
          /\ call'[c] \in {"new", "admission"} => call[c] \in {"new", "admission"}
          /\ call'[c] \in InFlight => call[c] \in InFlight
    BY <1>3 DEF Next, CallStep, vars, ChangePlan, NextMonth, Entitle, BeginKnown, BeginRefused,
                Post, Lost, Answer, Die, Moves, InFlight
  <2> QED BY <2>1, <2>2 DEF Settled
<1> QED BY <1>1, <1>2, <1>3
-----------------------------------------------------------------------------
LEMMA MonthsFinite == IsFiniteSet(Months)
BY GatewayAssumption, FS_Interval DEF Months

LEMMA RowTypes ==
  ASSUME Inv, NEW c \in Calls, row[c] # None
  PROVE  row[c].reserved = Cost[PayloadOf[c]] /\ row[c].month \in Months
BY DEF Inv, TypeOK, RowsOf

LEMMA InitLedger == Init => LedgerInv
<1> SUFFICES ASSUME Init PROVE LedgerInv
  OBVIOUS
<1>1. Inv
  BY InitInv
<1>2. Settled
  BY DEF Init, Settled, InFlight
<1>3. SumFunction(ledger) = 0
  BY MonthsFinite, SumZero DEF Init
<1>4. \A c \in Calls : spent[c] \in Nat /\ ~ IsSucceeded(row[c])
  BY DEF Init, IsSucceeded
<1> DEFINE u == Used(row, spent)
<1>5. u \in [Calls -> Nat] /\ \A c \in Calls : u[c] = 0
  BY <1>4 DEF Used
<1> HIDE DEF u
<1>6. SumFunction(u) = 0
  BY <1>5, GatewayAssumption, SumZero
<1> QED BY <1>1, <1>2, <1>3, <1>6, LedgerIsSum DEF u, LedgerInv

LEMMA NextLedger == LedgerInv /\ [Next]_vars => LedgerInv'
<1> SUFFICES ASSUME LedgerInv, [Next]_vars PROVE LedgerExact'
  BY NextInv, SettledStep DEF LedgerInv
<1>1. Inv /\ Inv' /\ Settled
  BY NextInv DEF LedgerInv
<1> DEFINE sum == SumFunction(Used(row, spent))
           next == SumFunction(Used(row', spent'))
<1>2. SumFunction(ledger) = sum
  BY LedgerIsSum DEF LedgerInv
<1>3. (\A c \in Calls : spent[c] \in Nat) /\ (\A c \in Calls : spent'[c] \in Nat)
  BY <1>1 DEF Inv
<1>4. ASSUME NEW c \in Calls, \A d \in Calls \ {c} : row'[d] = row[d] /\ spent'[d] = spent[d],
             ~ IsSucceeded(row[c]), ~ IsSucceeded(row'[c])
      PROVE  next = sum
  <2>1. Used(row, spent)[c] = 0 /\ Used(row', spent')[c] = 0
    BY <1>4 DEF Used
  <2>2. sum \in Nat /\ next = sum - Used(row, spent)[c] + Used(row', spent')[c]
    BY <1>3, <1>4, UsedChange
  <2> HIDE DEF sum, next
  <2> QED BY <2>1, <2>2
<1>5. ASSUME NEW c \in Calls, call[c] \in InFlight PROVE ~ IsSucceeded(row[c]) /\ row[c] # None
  BY <1>1, <1>5 DEF Settled, IsPending, IsSucceeded
<1>6. ASSUME NEW c \in Calls, Begin(c) PROVE next = sum /\ ledger' = ledger
  <2>1. PICK r : SetsRow(c, r) /\ r.status = "pending"
    BY <1>1, <1>6, BeginSetsRow
  <2>2. ~ IsSucceeded(row[c])
    BY <1>1, <1>6 DEF Settled, Begin, IsSucceeded
  <2>3. ~ IsSucceeded(row'[c])
    BY <2>1 DEF SetsRow, IsSucceeded
  <2> QED BY <1>4, <1>6, <2>1, <2>2, <2>3 DEF SetsRow, Begin
<1>7. ASSUME NEW c \in Calls, RecordFailure(c) PROVE next = sum /\ ledger' = ledger
  <2>1. call[c] \in InFlight /\ SetStatus(c, "failed") /\ spent' = spent
    BY <1>7 DEF RecordFailure, InFlight
  <2>2. PICK r : SetsRow(c, r) /\ r.status = "failed"
    BY <1>1, <1>5, <2>1, RecordSetsRow
  <2>3. ~ IsSucceeded(row'[c])
    BY <2>2 DEF SetsRow, IsSucceeded
  <2> QED BY <1>4, <1>5, <1>7, <2>1, <2>2, <2>3 DEF SetsRow, RecordFailure
<1>8. ASSUME NEW c \in Calls, NEW tokens, Answer(c, tokens) PROVE next = sum /\ ledger' = ledger
  <2>1. call[c] \in InFlight /\ row' = row /\ spent' = [spent EXCEPT ![c] = tokens]
    BY <1>8 DEF Answer, InFlight
  <2>2. \A d \in Calls \ {c} : row'[d] = row[d] /\ spent'[d] = spent[d]
    BY <1>1, <2>1 DEF Inv
  <2> QED BY <1>4, <1>5, <1>8, <2>1, <2>2 DEF Answer
<1>9. ASSUME NEW c \in Calls, RecordSuccess(c) PROVE SumFunction(ledger') = next
  <2>1. call[c] \in InFlight /\ SetStatus(c, "succeeded") /\ spent' = spent
    BY <1>9 DEF RecordSuccess, InFlight
  <2>2. PICK r : SetsRow(c, r) /\ r.status = "succeeded"
    BY <1>1, <1>5, <2>1, RecordSetsRow
  <2>3. IsSucceeded(row'[c])
    BY <2>2 DEF SetsRow, IsSucceeded
  <2>4. Used(row, spent)[c] = 0 /\ Used(row', spent')[c] = spent[c]
    BY <1>5, <2>1, <2>3 DEF Used
  <2>5. sum \in Nat /\ next = sum - Used(row, spent)[c] + Used(row', spent')[c]
    <3>1. \A d \in Calls \ {c} : row'[d] = row[d] /\ spent'[d] = spent[d]
      BY <2>1, <2>2 DEF SetsRow
    <3> QED BY <1>3, <3>1, UsedChange
  <2>6. /\ month \in Months /\ ledger \in [Months -> Nat] /\ ledger' \in [Months -> Nat]
        /\ \A m \in Months \ {month} : ledger[m] = ledger'[m]
        /\ ledger'[month] = ledger[month] + spent[c]
    BY <1>1, <1>9 DEF RecordSuccess, Inv, TypeOK
  <2>7. SumFunction(ledger') = SumFunction(ledger) - ledger[month] + ledger'[month]
    BY <2>6, MonthsFinite, SumChange
  <2>8. ledger[month] \in Nat /\ spent[c] \in Nat
    BY <1>3, <2>6
  <2> HIDE DEF sum, next
  <2> QED BY <1>2, <2>4, <2>5, <2>6, <2>7, <2>8
<1>10. ASSUME \A c \in Calls : ~ Begin(c) /\ ~ RecordFailure(c) /\ ~ RecordSuccess(c),
              ~ \E c \in Calls : \E tokens \in 0..(Cost[PayloadOf[c]] + Overrun) : Answer(c, tokens)
       PROVE  row' = row /\ spent' = spent /\ ledger' = ledger
  BY <1>10 DEF Next, CallStep, vars, ChangePlan, NextMonth, Entitle, BeginKnown, BeginRefused,
               Post, Lost, Die
<1>11. SumFunction(ledger') = next
  <2>1. CASE \E c \in Calls : Begin(c) \/ RecordFailure(c)
    BY <1>2, <1>6, <1>7, <2>1
  <2>2. CASE \E c \in Calls : \E tokens \in 0..(Cost[PayloadOf[c]] + Overrun) : Answer(c, tokens)
    BY <1>2, <1>8, <2>2
  <2>3. CASE \E c \in Calls : RecordSuccess(c)
    BY <1>9, <2>3
  <2> QED BY <1>2, <1>10, <2>1, <2>2, <2>3
<1> QED BY <1>11, LedgerIsSumNext

\* The ledger holds over all months what the provider reported for the calls
\* recorded as succeeded, whatever runs at the same time, is lost or dies
\* (recordSuccess, recordFailure).
THEOREM MeteredOnce == Spec => []LedgerExact
<1>1. LedgerInv => LedgerExact
  BY DEF LedgerInv
<1> QED BY <1>1, InitLedger, NextLedger, PTL DEF Spec

-----------------------------------------------------------------------------
LEMMA InitBudget == Init => BudgetInv
<1> SUFFICES ASSUME Init PROVE BudgetInv
  OBVIOUS
<1>1. Inv /\ Settled
  BY InitLedger DEF LedgerInv
<1>2. ASSUME NEW m \in Months
      PROVE  ledger[m] + PendingTokens(m) <= granted[m] + unreserved[m]
  <2> DEFINE f == Reserved(row, m)
  <2>1. f \in [Calls -> Nat] /\ \A d \in Calls : f[d] = 0
    BY DEF Init, Reserved, IsPending
  <2> HIDE DEF f
  <2>2. SumFunction(f) = 0
    BY <2>1, GatewayAssumption, SumZero
  <2>3. PendingTokens(m) = 0
    BY <2>2, PendingIsSum DEF f
  <2> QED BY <2>3 DEF Init
<1> QED BY <1>1, <1>2 DEF BudgetInv, BudgetKept

LEMMA NextBudget ==
  ASSUME BudgetInv, [Next]_vars
  PROVE  BudgetInv'
<1>1. Inv /\ Inv' /\ Settled /\ Settled' /\ BudgetKept
  BY NextInv, SettledStep DEF BudgetInv
<1> SUFFICES ASSUME NEW m \in Months
             PROVE  ledger'[m] + PendingTokens(m)' <= granted'[m] + unreserved'[m]
  BY <1>1 DEF BudgetInv, BudgetKept
<1> DEFINE sum == SumFunction(Reserved(row, m))
           next == SumFunction(Reserved(row', m))
<1>2. PendingTokens(m) = sum /\ PendingTokens(m)' = next /\ ledger[m] + sum <= granted[m] + unreserved[m]
  BY <1>1, PendingIsSum, PendingIsSumNext DEF BudgetKept
<1>3. /\ \A d \in Calls : row[d] = None \/ row[d] \in RowsOf(d)
      /\ \A d \in Calls : row'[d] = None \/ row'[d] \in RowsOf(d)
  BY <1>1 DEF Inv, TypeOK
<1>4. ASSUME NEW c \in Calls, \A d \in Calls \ {c} : row'[d] = row[d]
      PROVE  /\ sum \in Nat /\ next \in Nat
             /\ Reserved(row, m)[c] \in Nat /\ Reserved(row', m)[c] \in Nat
             /\ next = sum - Reserved(row, m)[c] + Reserved(row', m)[c]
  BY <1>3, <1>4, ReservedChange
<1>5. /\ ledger[m] \in Nat /\ granted[m] \in Nat /\ unreserved[m] \in Nat /\ month \in Months
      /\ ledger \in [Months -> Nat] /\ granted \in [Months -> Nat]
      /\ unreserved \in [Months -> Nat]
  BY <1>1 DEF Inv, TypeOK
<1> HIDE DEF sum, next
<1>6. ASSUME NEW c \in Calls, call[c] \in InFlight PROVE row[c] # None /\ IsPending(row[c], row[c].month)
  BY <1>1, <1>6 DEF Settled, IsPending
<1>7. ASSUME NEW c \in Calls, Begin(c) PROVE ledger'[m] + next <= granted'[m] + unreserved'[m]
  <2>1. PICK r : SetsRow(c, r) /\ r.status = "pending" /\ r.month = month
                 /\ r.reserved = Cost[PayloadOf[c]]
    BY <1>1, <1>7, BeginSetsRow
  <2> DEFINE old == Reserved(row, m)[c]
             new == Reserved(row', m)[c]
  <2>2. sum \in Nat /\ next \in Nat /\ old \in Nat /\ new \in Nat /\ next = sum - old + new
    BY <1>4, <2>1 DEF SetsRow
  <2>3. ledger'[m] = ledger[m] /\ unreserved'[m] = unreserved[m]
    BY <1>7 DEF Begin
  <2>4. CASE m # month
    <3>1. new = 0
      BY <2>1, <2>4 DEF SetsRow, Reserved, IsPending
    <3>2. granted'[m] = granted[m]
      BY <1>5, <1>7, <2>4 DEF Begin
    <3> HIDE DEF old, new
    <3> QED BY <1>2, <1>5, <2>2, <2>3, <3>1, <3>2
  <2>5. CASE m = month
    <3>1. new = Cost[PayloadOf[c]]
      BY <2>1, <2>5 DEF SetsRow, Reserved, IsPending
    <3>2. ledger[m] + sum + Cost[PayloadOf[c]] <= readLimit[c]
      BY <1>2, <1>7, <2>5 DEF Begin, FitsBudget
    <3>3. readLimit[c] \in Nat
      BY <1>1, <1>7, GatewayAssumption DEF Begin, Inv, Owned
    <3>4. granted'[m] = Max({granted[m], readLimit[c]})
      BY <1>5, <1>7, <2>5 DEF Begin
    <3>5. granted'[m] \in Nat /\ granted'[m] >= readLimit[c]
      BY <1>5, <3>3, <3>4, MaxOfTwo
    <3> HIDE DEF old, new
    <3> QED BY <1>5, <2>2, <2>3, <3>1, <3>2, <3>3, <3>5
  <2> QED BY <2>4, <2>5
<1>8. ASSUME NEW c \in Calls, RecordFailure(c) PROVE ledger'[m] + next <= granted'[m] + unreserved'[m]
  <2>1. /\ call[c] \in InFlight /\ SetStatus(c, "failed") /\ spent' = spent
        /\ ledger' = ledger /\ granted' = granted /\ unreserved' = unreserved
    BY <1>8 DEF RecordFailure, InFlight
  <2>2. PICK r : SetsRow(c, r) /\ r.status = "failed"
    BY <1>1, <1>6, <2>1, RecordSetsRow
  <2> DEFINE old == Reserved(row, m)[c]
             new == Reserved(row', m)[c]
  <2>3. sum \in Nat /\ next \in Nat /\ old \in Nat /\ next = sum - old + new
    BY <1>4, <2>2 DEF SetsRow
  <2>4. new = 0
    BY <2>2 DEF SetsRow, Reserved, IsPending
  <2> HIDE DEF old, new
  <2> QED BY <1>2, <1>5, <2>1, <2>3, <2>4
<1>9. ASSUME NEW c \in Calls, RecordSuccess(c) PROVE ledger'[m] + next <= granted'[m] + unreserved'[m]
  <2>1. /\ call[c] \in InFlight /\ SetStatus(c, "succeeded") /\ spent' = spent
        /\ granted' = granted
    BY <1>9 DEF RecordSuccess, InFlight
  <2>2. PICK r : SetsRow(c, r) /\ r.status = "succeeded"
    BY <1>1, <1>6, <2>1, RecordSetsRow
  <2> DEFINE old == Reserved(row, m)[c]
             new == Reserved(row', m)[c]
  <2>3. sum \in Nat /\ next \in Nat /\ old \in Nat /\ next = sum - old + new
    BY <1>4, <2>2 DEF SetsRow
  <2>4. new = 0
    BY <2>2 DEF SetsRow, Reserved, IsPending
  <2>5. CASE m # month
    <3>1. ledger'[m] = ledger[m] /\ unreserved'[m] = unreserved[m]
      BY <1>5, <1>9, <2>5 DEF RecordSuccess
    <3> HIDE DEF old, new
    <3> QED BY <1>2, <1>5, <2>1, <2>3, <2>4, <3>1
  <2>6. CASE m = month
    <3>1. /\ ledger'[m] = ledger[m] + spent[c]
          /\ unreserved'[m] = unreserved[m] + Unheld(c)
      BY <1>5, <1>9, <2>6 DEF RecordSuccess
    <3>2. row[c] # None /\ IsPending(row[c], row[c].month)
      BY <1>6, <2>1
    <3>3. /\ Unheld(c) \in Nat
          /\ row[c].month # month => Unheld(c) = spent[c]
          /\ row[c].month = month => spent[c] <= Cost[PayloadOf[c]] + Unheld(c)
      BY <1>1, <3>2, UnheldCovers
    <3>4. spent[c] \in Nat /\ Cost[PayloadOf[c]] \in Nat
      BY <1>1, CostType DEF Inv
    <3>5. row[c].month = month => old = Cost[PayloadOf[c]]
      BY <1>1, <2>6, <3>2, RowTypes DEF Reserved
    <3>6. spent[c] <= old + Unheld(c)
      <4> HIDE DEF old
      <4>1. CASE row[c].month = month
        BY <3>3, <3>4, <3>5, <4>1
      <4>2. CASE row[c].month # month
        BY <2>3, <3>3, <3>4, <4>2
      <4> QED BY <4>1, <4>2
    <3> HIDE DEF old, new
    <3> QED BY <1>2, <1>5, <2>1, <2>3, <2>4, <3>1, <3>3, <3>4, <3>6
  <2> QED BY <2>5, <2>6
<1>10. ASSUME \A c \in Calls : ~ Begin(c) /\ ~ RecordFailure(c) /\ ~ RecordSuccess(c)
       PROVE  ledger'[m] + next <= granted'[m] + unreserved'[m]
  <2>1. row' = row /\ ledger' = ledger /\ granted' = granted /\ unreserved' = unreserved
    BY <1>10, OtherSteps DEF RowsKept
  <2>2. next = sum
    BY <2>1 DEF sum, next
  <2> QED BY <1>2, <2>1, <2>2
<1> QED BY <1>2, <1>7, <1>8, <1>9, <1>10

\* The recorded usage of a month and all that may still be charged to it stay
\* within the largest limit a call of that month was admitted under, apart from
\* the tokens of calls answered after their month and those reported beyond a
\* reservation, whenever months end and calls die (beginRequest, recordSuccess).
THEOREM BudgetNeverExceeded == Spec => []BudgetKept
<1>1. BudgetInv => BudgetKept
  BY DEF BudgetInv
<1>2. BudgetInv /\ [Next]_vars => BudgetInv'
  BY NextBudget
<1> QED BY <1>1, <1>2, InitBudget, PTL DEF Spec
=============================================================================
