------------------------------ MODULE Checkout ------------------------------
(***************************************************************************)
(* Checkout sessions and payments: app/Services/OnePloy/CheckoutService    *)
(* and the four things that drive it at the same time: the buyer's browser *)
(* (start, PayPal return, PayPal cancel), the payment webhooks, and the    *)
(* five-minute PayPal reconciliation.                                      *)
(*                                                                         *)
(* A request or job runs in a worker that takes it step by step; a step is *)
(* one database transaction or statement, or one call to the provider.     *)
(* What a worker read in an earlier step may be stale in the next: cancel  *)
(* and the reconciliation write the session without a lock and without     *)
(* reading it again.  A worker may die, or throw, between any two steps.   *)
(*                                                                         *)
(* The provider is external.  It creates one order per session (the        *)
(* request id is derived from the session), captures it at most once, and  *)
(* sends a signed event per payment reference until one is acknowledged.   *)
(* Razorpay announces one payment under two references (payment.captured   *)
(* names the payment, order.paid the order), PayPal and Stripe under one.  *)
(* Events of other kinds, or whose amount or provider do not match, are    *)
(* recorded and change no session; they are left out.                      *)
(***************************************************************************)
EXTENDS Integers, FiniteSets

CONSTANTS
  Sessions,          \* checkout sessions
  PayPalSessions,    \* those paid through PayPal
  PlanSessions,      \* those that buy a plan (others buy a domain)
  LapsingSessions,   \* those whose expires_at may pass
  CancelSessions,    \* those whose buyer may follow PayPal's cancel link
  PayingSessions,    \* those whose buyer may pay
  Refs, RefsOf,      \* payment references; the ones of a session's payment
  Workers, None

ASSUME CheckoutAssumption ==
  /\ PayPalSessions \subseteq Sessions /\ PlanSessions \subseteq Sessions
  /\ RefsOf \in [Sessions -> SUBSET Refs]
  /\ \A s \in PayPalSessions : \E ref \in Refs : RefsOf[s] = {ref}
  /\ \A s, t \in Sessions : s # t => RefsOf[s] \cap RefsOf[t] = {}
  /\ None \notin Sessions /\ None \notin Refs

VARIABLES
  status,        \* [Sessions -> the session's status column, or "absent"]
  reference,     \* [Sessions -> BOOLEAN]: provider_reference is filled
  lapsed,        \* [Sessions -> BOOLEAN]: expires_at is in the past
  initiatedAgo,  \* [Sessions -> BOOLEAN]: updated_at is over 2 minutes old
  payments,      \* the <<session, reference>> of the payments table; every
                 \* payment row comes with its own invoice and order
  subscription,  \* the plan session whose entitlements are in force
  order,         \* [Sessions -> the order's state at the provider]
  event,         \* [Sessions \X Refs -> where the provider's event stands]
  worker         \* [Workers -> what the worker is doing]

sessionVars == <<status, reference, lapsed, initiatedAgo>>
ledgerVars == <<payments, subscription>>
providerVars == <<order, event>>
checkoutVars == <<sessionVars, ledgerVars, providerVars, worker>>

Statuses == {"absent", "open", "initiating_provider", "pending_provider",
             "paid", "cancelled", "expired"}
Stages == {"idle", "initiate", "attach", "capture", "cancel", "reconcile",
           "markPaid", "queue", "dispatch", "processed"}
Tasks == [stage : Stages, s : Sessions \cup {None}, ref : Refs \cup {None}, hook : BOOLEAN]
Idle == [stage |-> "idle", s |-> None, ref |-> None, hook |-> FALSE]

TypeOK ==
  /\ status \in [Sessions -> Statuses]
  /\ reference \in [Sessions -> BOOLEAN]
  /\ lapsed \in [Sessions -> BOOLEAN]
  /\ initiatedAgo \in [Sessions -> BOOLEAN]
  /\ payments \subseteq Sessions \X Refs
  /\ subscription \in PlanSessions \cup {None}
  /\ order \in [Sessions -> {"none", "created", "approved", "captured"}]
  /\ event \in [Sessions \X Refs -> {"unsent", "sent", "received", "processed"}]
  /\ worker \in [Workers -> Tasks]

-----------------------------------------------------------------------------
Task(stage, s, ref, hook) == [stage |-> stage, s |-> s, ref |-> ref, hook |-> hook]

At(w, stage) == worker[w].stage = stage
Free(w) == At(w, "idle")

Takes(w, task) == worker' = [worker EXCEPT ![w] = task]
Ends(w) == Takes(w, Idle)

\* w goes on to the next stage of its task.
Goes(w, stage) == Takes(w, Task(stage, worker[w].s, worker[w].ref, worker[w].hook))

PaymentOf(s) == CHOOSE ref \in RefsOf[s] : TRUE

Init ==
  /\ status = [s \in Sessions |-> "absent"]
  /\ reference = [s \in Sessions |-> FALSE]
  /\ lapsed = [s \in Sessions |-> FALSE]
  /\ initiatedAgo = [s \in Sessions |-> FALSE]
  /\ payments = {} /\ subscription = None
  /\ order = [s \in Sessions |-> "none"]
  /\ event = [e \in Sessions \X Refs |-> "unsent"]
  /\ worker = [w \in Workers |-> Idle]

-----------------------------------------------------------------------------
(* create(): a retry with the same idempotency key finds the session. *)
Create(s) ==
  /\ status[s] = "absent"
  /\ status' = [status EXCEPT ![s] = "open"]
  /\ UNCHANGED <<reference, lapsed, initiatedAgo, ledgerVars, providerVars, worker>>

(* The clock: expires_at passes; two minutes pass since the last update. *)
Lapse(s) ==
  /\ s \in LapsingSessions /\ status[s] # "absent" /\ ~lapsed[s]
  /\ lapsed' = [lapsed EXCEPT ![s] = TRUE]
  /\ UNCHANGED <<status, reference, initiatedAgo, ledgerVars, providerVars, worker>>

InitiationAges(s) ==
  /\ status[s] = "initiating_provider" /\ ~initiatedAgo[s]
  /\ initiatedAgo' = [initiatedAgo EXCEPT ![s] = TRUE]
  /\ UNCHANGED <<status, reference, lapsed, ledgerVars, providerVars, worker>>

-----------------------------------------------------------------------------
(* startPayment(), first transaction, on a session past its expiry. *)
StartExpired(s) ==
  /\ status[s] \notin {"absent", "paid", "expired"}
  /\ lapsed[s]
  /\ status' = [status EXCEPT ![s] = "expired"]
  /\ UNCHANGED <<reference, lapsed, initiatedAgo, ledgerVars, providerVars, worker>>

(* startPayment(), first transaction: claim the session for initiation,     *)
(* unless it is paid, cancelled, ready, or was claimed within two minutes.  *)
StartPayment(w, s) ==
  /\ Free(w)
  /\ status[s] \notin {"absent", "paid", "cancelled"}
  /\ ~lapsed[s]
  /\ ~(status[s] = "pending_provider" /\ reference[s])
  /\ status[s] = "initiating_provider" => initiatedAgo[s]
  /\ status' = [status EXCEPT ![s] = "initiating_provider"]
  /\ reference' = [reference EXCEPT ![s] = FALSE]
  /\ initiatedAgo' = [initiatedAgo EXCEPT ![s] = FALSE]
  /\ Takes(w, Task("initiate", s, None, FALSE))
  /\ UNCHANGED <<lapsed, ledgerVars, providerVars>>

(* The provider creates the order, or returns the one it has. *)
Initiate(w) ==
  LET s == worker[w].s IN
  /\ At(w, "initiate")
  /\ order' = [order EXCEPT ![s] = IF @ = "none" THEN "created" ELSE @]
  /\ Goes(w, "attach")
  /\ UNCHANGED <<sessionVars, ledgerVars, event>>

(* The provider call fails, before or after the order exists: the session    *)
(* opens again if it is still being initiated (by whomever).                 *)
InitiateFails(w) ==
  LET s == worker[w].s IN
  /\ At(w, "initiate") \/ At(w, "attach")
  /\ status' = [status EXCEPT ![s] = IF @ = "initiating_provider" THEN "open" ELSE @]
  /\ Ends(w)
  /\ UNCHANGED <<reference, lapsed, initiatedAgo, ledgerVars, providerVars>>

(* startPayment(), second transaction; it throws if the session moved on. *)
Attach(w) ==
  LET s == worker[w].s
      mine == status[s] = "initiating_provider" IN
  /\ At(w, "attach")
  /\ status' = [status EXCEPT ![s] = IF mine THEN "pending_provider" ELSE @]
  /\ reference' = [reference EXCEPT ![s] = mine \/ @]
  /\ initiatedAgo' = [initiatedAgo EXCEPT ![s] = ~mine /\ @]
  /\ Ends(w)
  /\ UNCHANGED <<lapsed, ledgerVars, providerVars>>

-----------------------------------------------------------------------------
Announced(s) ==
  [e \in Sessions \X Refs |->
     IF e[1] = s /\ e[2] \in RefsOf[s] /\ event[e] = "unsent" THEN "sent" ELSE event[e]]

(* The buyer approves at PayPal, or pays at once elsewhere. *)
BuyerApproves(s) ==
  /\ s \in PayingSessions
  /\ order[s] = "created"
  /\ IF s \in PayPalSessions
     THEN /\ order' = [order EXCEPT ![s] = "approved"]
          /\ UNCHANGED event
     ELSE /\ order' = [order EXCEPT ![s] = "captured"]
          /\ event' = Announced(s)
  /\ UNCHANGED <<sessionVars, ledgerVars, worker>>

\* Rows found by a PayPal order id.
FoundByOrder(s) == s \in PayPalSessions /\ reference[s]

(* complete(): the buyer returns; a paid session needs nothing more. *)
Complete(w, s) ==
  /\ Free(w)
  /\ FoundByOrder(s)
  /\ status[s] # "paid"
  /\ Takes(w, Task("capture", s, PaymentOf(s), FALSE))
  /\ UNCHANGED <<sessionVars, ledgerVars, providerVars>>

\* Mutant: the return to the site is taken as proof of payment.
CaptureUnverified(w) ==
  /\ At(w, "capture")
  /\ Goes(w, "markPaid")
  /\ UNCHANGED <<sessionVars, ledgerVars, providerVars>>

(* completePayPal(): captureOrder() is idempotent per order; an order that   *)
(* was not approved makes it throw (see Dies).                               *)
Capture(w) ==
  LET s == worker[w].s IN
  /\ At(w, "capture")
  /\ order[s] \in {"approved", "captured"}
  /\ order' = [order EXCEPT ![s] = "captured"]
  /\ event' = Announced(s)
  /\ Goes(w, "markPaid")
  /\ UNCHANGED <<sessionVars, ledgerVars>>

(* cancel(): the session is read ... *)
CancelRead(w, s) ==
  /\ Free(w)
  /\ s \in CancelSessions
  /\ FoundByOrder(s)
  /\ status[s] \notin {"paid", "cancelled"}
  /\ Takes(w, Task("cancel", s, None, FALSE))
  /\ UNCHANGED <<sessionVars, ledgerVars, providerVars>>

(* ... and written, whatever happened in between. *)
CancelWrite(w) ==
  /\ At(w, "cancel")
  /\ status' = [status EXCEPT ![worker[w].s] = "cancelled"]
  /\ Ends(w)
  /\ UNCHANGED <<reference, lapsed, initiatedAgo, ledgerVars, providerVars>>

-----------------------------------------------------------------------------
(* ReconcilePaymentsJob: all pending sessions are loaded at once ... *)
ReconcileRead(w, s) ==
  /\ Free(w)
  /\ FoundByOrder(s)
  /\ status[s] = "pending_provider"
  /\ Takes(w, Task("reconcile", s, PaymentOf(s), FALSE))
  /\ UNCHANGED <<sessionVars, ledgerVars, providerVars>>

(* ... and one that lapsed is written as expired when its turn comes. *)
ReconcileExpires(w) ==
  LET s == worker[w].s IN
  /\ At(w, "reconcile")
  /\ lapsed[s]
  /\ status' = [status EXCEPT ![s] = "expired"]
  /\ Ends(w)
  /\ UNCHANGED <<reference, lapsed, initiatedAgo, ledgerVars, providerVars>>

(* Otherwise the provider is asked: capture what is approved, record what is *)
(* captured, leave the rest.                                                 *)
ReconcileAsks(w) ==
  LET s == worker[w].s IN
  /\ At(w, "reconcile")
  /\ ~lapsed[s]
  /\ \/ order[s] = "approved" /\ Goes(w, "capture")
     \/ order[s] = "captured" /\ Goes(w, "markPaid")
     \/ order[s] \in {"none", "created"} /\ Ends(w)
  /\ UNCHANGED <<sessionVars, ledgerVars, providerVars>>

-----------------------------------------------------------------------------
\* Mutant: the event is acknowledged before it is applied.
WebhookAcknowledgedFirst(w, s, ref) ==
  /\ Free(w)
  /\ event[<<s, ref>>] \in {"sent", "received"}
  /\ event' = [event EXCEPT ![<<s, ref>>] = "processed"]
  /\ Takes(w, Task("markPaid", s, ref, TRUE))
  /\ UNCHANGED <<sessionVars, ledgerVars, order>>

(* PaymentWebhookController: record the event, or find it recorded and not   *)
(* yet processed, and apply the payment.                                     *)
Webhook(w, s, ref) ==
  /\ Free(w)
  /\ event[<<s, ref>>] \in {"sent", "received"}
  /\ event' = [event EXCEPT ![<<s, ref>>] = "received"]
  /\ Takes(w, Task("markPaid", s, ref, TRUE))
  /\ UNCHANGED <<sessionVars, ledgerVars, order>>

WebhookProcessed(w) ==
  /\ At(w, "processed")
  /\ event' = [event EXCEPT ![<<worker[w].s, worker[w].ref>>] = "processed"]
  /\ Ends(w)
  /\ UNCHANGED <<sessionVars, ledgerVars, order>>

-----------------------------------------------------------------------------
\* Mutant: the payment's reference alone decides whether it is new.
AlreadyPaidByReference(s, ref) == <<s, ref>> \in payments

\* markPaid() finds the session paid, or this very payment recorded for it.
AlreadyPaid(s, ref) == status[s] = "paid" \/ <<s, ref>> \in payments

(* markPaid(), its transaction.  It takes a session in any unpaid status; a  *)
(* payment it has recorded before does not make the session paid again.      *)
MarkPaid(w) ==
  LET s == worker[w].s
      ref == worker[w].ref
      new == ~AlreadyPaid(s, ref) IN
  /\ At(w, "markPaid")
  /\ status' = [status EXCEPT ![s] = IF new THEN "paid" ELSE @]
  /\ payments' = IF new THEN payments \cup {<<s, ref>>} ELSE payments
  /\ subscription' = IF new /\ s \in PlanSessions THEN s ELSE subscription
  /\ Goes(w, "queue")
  /\ UNCHANGED <<reference, lapsed, initiatedAgo, providerVars>>

Returns(w) == IF worker[w].hook THEN Goes(w, "processed") ELSE Ends(w)

(* markPaid() after its commit: queuePaidDomainRegistrations(), a           *)
(* transaction of its own and then, if it found a domain, the dispatch of   *)
(* its job.  What they do to domains is DomainPurchase's part.              *)
Queued(w) ==
  /\ At(w, "queue")
  /\ Goes(w, "dispatch") \/ Returns(w)
  /\ UNCHANGED <<sessionVars, ledgerVars, providerVars>>

Dispatched(w) ==
  /\ At(w, "dispatch")
  /\ Returns(w)
  /\ UNCHANGED <<sessionVars, ledgerVars, providerVars>>

(* The process dies, or throws and only notes failure_reason. *)
Dies(w) ==
  /\ ~Free(w)
  /\ Ends(w)
  /\ UNCHANGED <<sessionVars, ledgerVars, providerVars>>

-----------------------------------------------------------------------------
(* Every step but the creation of a session and the end of markPaid(). *)
SessionStep(s) ==
  \/ Lapse(s) \/ InitiationAges(s) \/ StartExpired(s) \/ BuyerApproves(s)

RequestStep(w, s) ==
  \/ StartPayment(w, s) \/ Complete(w, s) \/ CancelRead(w, s) \/ ReconcileRead(w, s)
  \/ \E ref \in Refs : Webhook(w, s, ref)

WorkerStep(w) ==
  \/ Initiate(w) \/ InitiateFails(w) \/ Attach(w)
  \/ Capture(w) \/ CancelWrite(w)
  \/ ReconcileExpires(w) \/ ReconcileAsks(w)
  \/ MarkPaid(w) \/ WebhookProcessed(w) \/ Dies(w)

CheckoutStep ==
  \/ \E s \in Sessions : SessionStep(s)
  \/ \E w \in Workers, s \in Sessions : RequestStep(w, s)
  \/ \E w \in Workers : WorkerStep(w)

Next ==
  \/ \E s \in Sessions : Create(s)
  \/ \E w \in Workers : Queued(w) \/ Dispatched(w)
  \/ CheckoutStep

Spec == Init /\ [][Next]_checkoutVars

-----------------------------------------------------------------------------
OrdersOf(s) == {p \in payments : p[1] = s}

(* A session is charged once: no interleaving of return, webhooks under one  *)
(* or two references, reconciliation, cancellation, expiry, crashes and      *)
(* redeliveries gives it two orders (markPaid).                              *)
OneOrderPerSession ==
  \A s \in Sessions : \A p, q \in OrdersOf(s) : p = q

(* An order, and with it a subscription, exists only for money the provider  *)
(* has captured for that session (PLATFORM-V1: browser redirects are never   *)
(* proof of payment).                                                        *)
OrderBackedByCapture ==
  /\ \A p \in payments : order[p[1]] = "captured" /\ p[2] \in RefsOf[p[1]]
  /\ subscription # None => OrdersOf(subscription) # {}

(* Captured money always becomes an order, although the worker that captured *)
(* it may die before it records anything (webhook inbox, redelivery).        *)
CapturedBecomesOrder ==
  \A s \in Sessions : (order[s] = "captured") ~> (OrdersOf(s) # {})
=============================================================================
