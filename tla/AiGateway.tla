----------------------------- MODULE AiGateway ------------------------------
(***************************************************************************)
(* The AI gateway of one tenant: app/Services/OnePloy/AiGatewayService     *)
(* with AiGatewayEntitlement.                                              *)
(*                                                                         *)
(* A call reads the tenant's monthly token limit, admits itself under the  *)
(* team lock with a pending request row that reserves its worst case, asks *)
(* the provider, and settles the row and the month's usage ledger under    *)
(* the team lock again.  Between these steps other calls run, the plan may *)
(* change, the month may end and the process may die; nothing sweeps a     *)
(* pending row that its process left behind.                               *)
(*                                                                         *)
(* The provider is external.  What it reports is metered as it comes and   *)
(* not compared with what the call reserved (prompt bytes plus             *)
(* max_tokens), so it may be more.  A call that is answered after the end  *)
(* of its month is metered in the month of the answer.  A lost connection  *)
(* is retried only under an idempotency key.                               *)
(* A platform team has no limit and is left out.                           *)
(***************************************************************************)
EXTENDS Integers, FiniteSets, FiniteSetsExt, Functions

CONSTANTS
  Calls,             \* the requests made to the gateway
  KeyOf,             \* the idempotency key of each, or None
  PayloadOf,         \* the request body of each
  Cost,              \* the tokens a body reserves
  Limits,            \* the monthly token limits a plan may grant
  Attempts,          \* connection_attempts: how often a keyed call may be sent
  LastMonth,         \* bound on the months that pass
  Overrun,           \* bound on the tokens reported beyond those reserved
  None

Months == 0..LastMonth

RowsOf(c) == [status : {"pending", "succeeded", "failed"}, month : Months,
              reserved : {Cost[PayloadOf[c]]}]

ASSUME GatewayAssumption ==
  /\ IsFiniteSet(Calls)
  /\ \A c \in Calls : Cost[PayloadOf[c]] \in Nat \ {0}
  /\ Limits \subseteq Nat
  /\ Attempts \in Nat \ {0}
  /\ LastMonth \in Nat
  /\ Overrun \in Nat
  /\ None \notin Nat
  /\ \A c \in Calls : None \notin RowsOf(c)

VARIABLES
  entitled,  \* the limit of the eligible subscription, or None
  month,     \* the current billing period
  call,      \* [Calls -> where the call stands]
  readLimit, \* [Calls -> the limit it read before it took the lock]
  row,       \* [Calls -> the request row it created, or None]
  posts,     \* [Calls -> how often it was sent to the provider]
  spent,     \* [Calls -> the tokens the provider reported for it]
  ledger,    \* [Months -> total_tokens of the usage ledger]
  granted,   \* history: [Months -> the largest limit a call was admitted under]
  unreserved \* history: [Months -> tokens metered without a reservation in that month]

vars == <<entitled, month, call, readLimit, row, posts, spent, ledger, granted, unreserved>>

Stages == {"new", "admission", "admitted", "provider", "answered", "ended"}
TypeOK ==
  /\ entitled \in Limits \cup {None}
  /\ month \in Months
  /\ call \in [Calls -> Stages]
  /\ readLimit \in [Calls -> Limits \cup {None}]
  /\ \A c \in Calls : row[c] = None \/ row[c] \in RowsOf(c)
  /\ posts \in [Calls -> 0..Attempts]
  /\ \A c \in Calls : spent[c] \in 0..(Cost[PayloadOf[c]] + Overrun)
  /\ ledger \in [Months -> Nat]
  /\ granted \in [Months -> Nat]
  /\ unreserved \in [Months -> Nat]

-----------------------------------------------------------------------------
Moves(c, stage) == call' = [call EXCEPT ![c] = stage]

SetStatus(c, status) ==
  row' = [row EXCEPT ![c] = [status |-> status, month |-> row[c].month,
                             reserved |-> row[c].reserved]]

\* The row with this call's key: (team, idempotency_key_hash) is unique.
Existing(c) == {d \in Calls : row[d] # None /\ KeyOf[c] # None /\ KeyOf[d] = KeyOf[c]}

\* Mutant: what is at the provider does not count.
PendingUncounted(m) == {}

PendingIn(m) == {d \in Calls : row[d] # None /\ row[d].status = "pending" /\ row[d].month = m}

PendingTokens(m) ==
  SumFunction([d \in Calls |-> IF d \in PendingIn(m) THEN row[d].reserved ELSE 0])

\* The budget check of beginRequest(), with the limit read before the lock.
FitsBudget(c) ==
  ledger[month] + PendingTokens(month) + Cost[PayloadOf[c]] <= readLimit[c]

Init ==
  /\ entitled \in Limits \cup {None}
  /\ month = 0
  /\ call = [c \in Calls |-> "new"]
  /\ readLimit = [c \in Calls |-> None]
  /\ row = [c \in Calls |-> None]
  /\ posts = [c \in Calls |-> 0]
  /\ spent = [c \in Calls |-> 0]
  /\ ledger = [m \in Months |-> 0]
  /\ granted = [m \in Months |-> 0]
  /\ unreserved = [m \in Months |-> 0]

-----------------------------------------------------------------------------
(* A plan is bought, changed, or ends. *)
ChangePlan(limit) ==
  /\ entitled' = limit
  /\ UNCHANGED <<month, call, readLimit, row, posts, spent, ledger, granted, unreserved>>

(* monthlyTokenLimit(): no eligible subscription ends the call. *)
Entitle(c) ==
  /\ call[c] = "new"
  /\ readLimit' = [readLimit EXCEPT ![c] = entitled]
  /\ Moves(c, IF entitled = None THEN "ended" ELSE "admission")
  /\ UNCHANGED <<entitled, month, row, posts, spent, ledger, granted, unreserved>>

(* beginRequest() finds the key used: a replay, a conflict, an earlier      *)
(* failure or a request in progress.  In every case nothing is sent.        *)
BeginKnown(c) ==
  /\ call[c] = "admission"
  /\ Existing(c) # {}
  /\ Moves(c, "ended")
  /\ UNCHANGED <<entitled, month, readLimit, row, posts, spent, ledger, granted, unreserved>>

\* Mutant: the key is not looked up.
BeginUnkeyed(c) ==
  /\ call[c] = "admission"
  /\ FitsBudget(c)
  /\ row' = [row EXCEPT ![c] = [status |-> "pending", month |-> month,
                                reserved |-> Cost[PayloadOf[c]]]]
  /\ granted' = [granted EXCEPT ![month] = Max({@, readLimit[c]})]
  /\ Moves(c, "admitted")
  /\ UNCHANGED <<entitled, month, readLimit, posts, spent, ledger, unreserved>>

(* beginRequest() admits the call and reserves its worst case. *)
Begin(c) ==
  /\ call[c] = "admission"
  /\ Existing(c) = {}
  /\ FitsBudget(c)
  /\ row' = [row EXCEPT ![c] = [status |-> "pending", month |-> month,
                                reserved |-> Cost[PayloadOf[c]]]]
  /\ granted' = [granted EXCEPT ![month] = Max({@, readLimit[c]})]
  /\ Moves(c, "admitted")
  /\ UNCHANGED <<entitled, month, readLimit, posts, spent, ledger, unreserved>>

(* The budget is exhausted. *)
BeginRefused(c) ==
  /\ call[c] = "admission"
  /\ Existing(c) = {}
  /\ ~FitsBudget(c)
  /\ Moves(c, "ended")
  /\ UNCHANGED <<entitled, month, readLimit, row, posts, spent, ledger, granted, unreserved>>

-----------------------------------------------------------------------------
(* client(): how often a call may be sent.  Only one with a key is retried. *)
AttemptsOf(c) == IF KeyOf[c] = None THEN 1 ELSE Attempts

Post(c) ==
  /\ call[c] = "admitted"
  /\ posts[c] < AttemptsOf(c)
  /\ posts' = [posts EXCEPT ![c] = @ + 1]
  /\ Moves(c, "provider")
  /\ UNCHANGED <<entitled, month, readLimit, row, spent, ledger, granted, unreserved>>

(* The connection fails or times out (408): the provider may have worked.   *)
Lost(c) ==
  /\ call[c] = "provider"
  /\ Moves(c, "admitted")
  /\ UNCHANGED <<entitled, month, readLimit, row, posts, spent, ledger, granted, unreserved>>

(* The provider answers; usageFrom() reads the tokens it reports. *)
Answer(c, tokens) ==
  /\ call[c] = "provider"
  /\ tokens \in 0..(Cost[PayloadOf[c]] + Overrun)
  /\ spent' = [spent EXCEPT ![c] = tokens]
  /\ Moves(c, "answered")
  /\ UNCHANGED <<entitled, month, readLimit, row, posts, ledger, granted, unreserved>>

(* recordFailure(): every attempt was lost, or the answer is an error or    *)
(* unusable.                                                                *)
RecordFailure(c) ==
  /\ \/ call[c] = "admitted" /\ posts[c] = AttemptsOf(c)
     \/ call[c] = "answered"
  /\ SetStatus(c, "failed")
  /\ Moves(c, "ended")
  /\ UNCHANGED <<entitled, month, readLimit, posts, spent, ledger, granted, unreserved>>

\* What a success adds to the present month beyond what it held there: all of
\* it when the call was admitted in an earlier month, else what exceeds the
\* reservation.
Unheld(c) ==
  IF row[c].month # month THEN spent[c] ELSE Max({0, spent[c] - row[c].reserved})

\* Mutant: the ledger is written, the row is forgotten.
RecordSuccessRowLeft(c) ==
  /\ call[c] = "answered"
  /\ ledger' = [ledger EXCEPT ![month] = @ + spent[c]]
  /\ unreserved' = [unreserved EXCEPT ![month] = @ + Unheld(c)]
  /\ Moves(c, "ended")
  /\ UNCHANGED <<entitled, month, readLimit, row, posts, spent, granted>>

(* recordSuccess(): the row and the ledger of the month it is now. *)
RecordSuccess(c) ==
  /\ call[c] = "answered"
  /\ SetStatus(c, "succeeded")
  /\ ledger' = [ledger EXCEPT ![month] = @ + spent[c]]
  /\ unreserved' = [unreserved EXCEPT ![month] = @ + Unheld(c)]
  /\ Moves(c, "ended")
  /\ UNCHANGED <<entitled, month, readLimit, posts, spent, granted>>

(* The process dies; a row it made stays pending. *)
Die(c) ==
  /\ call[c] \in {"admission", "admitted", "provider", "answered"}
  /\ Moves(c, "ended")
  /\ UNCHANGED <<entitled, month, readLimit, row, posts, spent, ledger, granted, unreserved>>

(* The month ends, with calls at the provider or not. *)
NextMonth ==
  /\ month < LastMonth
  /\ month' = month + 1
  /\ UNCHANGED <<entitled, call, readLimit, row, posts, spent, ledger, granted, unreserved>>

CallStep(c) ==
  \/ Entitle(c) \/ BeginKnown(c) \/ Begin(c) \/ BeginRefused(c)
  \/ Post(c) \/ Lost(c)
  \/ \E tokens \in 0..(Cost[PayloadOf[c]] + Overrun) : Answer(c, tokens)
  \/ RecordFailure(c) \/ RecordSuccess(c) \/ Die(c)

Next ==
  \/ \E limit \in Limits \cup {None} : ChangePlan(limit)
  \/ \E c \in Calls : CallStep(c)
  \/ NextMonth

Spec == Init /\ [][Next]_vars

-----------------------------------------------------------------------------
(* The month's recorded usage, with all that may still be charged to it,    *)
(* stays within the largest limit a call of that month was admitted under,  *)
(* whatever calls and plan changes interleave, whatever dies and whenever   *)
(* the month ends, apart from the tokens that no reservation of that month  *)
(* stood for: those of a call admitted in an earlier month, and those the   *)
(* provider reports beyond what the call reserved (beginRequest,            *)
(* recordSuccess; "monthly token budget reserves request capacity before    *)
(* calling the provider").                                                  *)
BudgetKept ==
  \A m \in Months : ledger[m] + PendingTokens(m) <= granted[m] + unreserved[m]

(* Of the calls that carry one idempotency key only one is ever sent to the *)
(* provider, and what has no key is never sent twice, although replies are  *)
(* lost, callers repeat themselves and processes die (beginRequest, client; *)
(* "an idempotent replay avoids a second provider charge").                 *)
OneProviderCallPerKey ==
  \A c, d \in Calls :
    \/ c = d /\ (KeyOf[c] = None => posts[c] <= 1)
    \/ c # d /\ (KeyOf[c] # None /\ KeyOf[c] = KeyOf[d] => posts[c] = 0 \/ posts[d] = 0)

Succeeded == {c \in Calls : row[c] # None /\ row[c].status = "succeeded"}

(* Usage is metered once: what the ledger holds over all months is what the *)
(* provider used for the calls recorded as succeeded, no more and no less   *)
(* (recordSuccess reads, adds and writes under the team lock).              *)
LedgerExact ==
  SumFunction(ledger)
    = SumFunction([c \in Calls |-> IF c \in Succeeded THEN spent[c] ELSE 0])
=============================================================================
