--------------------------- MODULE CommerceProofs ---------------------------
(***************************************************************************)
(* Proofs about Checkout, for any sets of sessions, references and workers *)
(* and any choice of which sessions lapse or are cancelled, and about      *)
(* DomainPurchase, for any names as well.  The purchase is shown to        *)
(* implement the checkout it is built on, so the checkout's invariants     *)
(* hold of it, and on top of them that no name is bought twice or before   *)
(* it is paid.  Both together are shown to implement PurchaseLedger.       *)
(***************************************************************************)
EXTENDS DomainPurchase, TLAPS


(* What a task carries from one step to the next is about its session, and   *)
(* only PayPal sessions are captured, cancelled or reconciled.               *)
TaskOK(t, ord) ==
  /\ t.stage # "idle" => t.s \in Sessions
  /\ t.stage \in {"capture", "cancel", "reconcile"} => t.s \in PayPalSessions
  /\ t.stage \in {"capture", "reconcile", "markPaid", "queue", "dispatch", "processed"}
       => t.ref \in RefsOf[t.s]
  /\ t.stage \in {"markPaid", "queue", "dispatch", "processed"} => ord[t.s] = "captured"

WorkerInv == \A w \in Workers : TaskOK(worker[w], order)

(* The provider announces only what it captured. *)
EventInv ==
  \A s \in Sessions, ref \in Refs :
    event[<<s, ref>>] # "unsent" => ref \in RefsOf[s] /\ order[s] = "captured"

(* Cancellation and expiry can overwrite "paid" only on a PayPal session,    *)
(* which has a single reference; all others stay paid.                       *)
PaymentInv ==
  /\ \A s \in Sessions, ref \in Refs : <<s, ref>> \in payments =>
       /\ ref \in RefsOf[s]
       /\ order[s] = "captured"
       /\ s \notin PayPalSessions => status[s] = "paid"

OneRef == \A s \in Sessions, ref, other \in Refs :
  <<s, ref>> \in payments /\ <<s, other>> \in payments => ref = other

SubscriptionInv ==
  subscription # None => \E ref \in Refs : <<subscription, ref>> \in payments

IInv == TypeOK /\ WorkerInv /\ EventInv /\ PaymentInv /\ OneRef /\ SubscriptionInv

(* A task moved on to another stage is a task. *)
LEMMA TaskTyped ==
  ASSUME TypeOK, NEW w \in Workers, NEW stage \in Stages
  PROVE  /\ Task(stage, worker[w].s, worker[w].ref, worker[w].hook) \in Tasks
         /\ Idle \in Tasks
  BY DEF TypeOK, Task, Tasks, Idle, Stages

(* Type correctness, one step per action of Checkout. *)
LEMMA TypeStep ==
  ASSUME TypeOK, WorkerInv, [Next]_checkoutVars
  PROVE  TypeOK'
<1> USE CheckoutAssumption DEF TypeOK, Takes, Ends, Goes, Statuses, sessionVars, ledgerVars, providerVars
<1>1. ASSUME NEW s \in Sessions, Create(s)
  PROVE  TypeOK'
  BY <1>1 DEF Create
<1>2. ASSUME NEW s \in Sessions, Lapse(s)
  PROVE  TypeOK'
  BY <1>2 DEF Lapse
<1>3. ASSUME NEW s \in Sessions, InitiationAges(s)
  PROVE  TypeOK'
  BY <1>3 DEF InitiationAges
<1>4. ASSUME NEW s \in Sessions, StartExpired(s)
  PROVE  TypeOK'
  BY <1>4 DEF StartExpired
<1>5. ASSUME NEW s \in Sessions, BuyerApproves(s)
  PROVE  TypeOK'
  BY <1>5 DEF BuyerApproves, Announced
<1>6. ASSUME NEW w \in Workers, NEW s \in Sessions, StartPayment(w, s)
  PROVE  TypeOK'
  BY <1>6 DEF StartPayment, Task, Tasks, Stages
<1>7. ASSUME NEW w \in Workers, NEW s \in Sessions, Complete(w, s)
  PROVE  TypeOK'
  BY <1>7 DEF Complete, PaymentOf, FoundByOrder, Task, Tasks, Stages
<1>8. ASSUME NEW w \in Workers, NEW s \in Sessions, CancelRead(w, s)
  PROVE  TypeOK'
  BY <1>8 DEF CancelRead, FoundByOrder, Task, Tasks, Stages
<1>9. ASSUME NEW w \in Workers, NEW s \in Sessions, ReconcileRead(w, s)
  PROVE  TypeOK'
  BY <1>9 DEF ReconcileRead, PaymentOf, FoundByOrder, Task, Tasks, Stages
<1>10. ASSUME NEW w \in Workers, NEW s \in Sessions, NEW ref \in Refs, Webhook(w, s, ref)
  PROVE  TypeOK'
  BY <1>10 DEF Webhook, Task, Tasks, Stages
<1>11. ASSUME NEW w \in Workers, Initiate(w)
  PROVE  TypeOK'
  BY <1>11, TaskTyped DEF Initiate, WorkerInv, TaskOK, At, Free, Stages
<1>12. ASSUME NEW w \in Workers, InitiateFails(w)
  PROVE  TypeOK'
  BY <1>12, TaskTyped DEF InitiateFails, WorkerInv, TaskOK, At, Free, Stages
<1>13. ASSUME NEW w \in Workers, Attach(w)
  PROVE  TypeOK'
  BY <1>13, TaskTyped DEF Attach, WorkerInv, TaskOK, At, Free, Stages
<1>14. ASSUME NEW w \in Workers, Capture(w)
  PROVE  TypeOK'
  BY <1>14, TaskTyped DEF Capture, Announced, WorkerInv, TaskOK, At, Free, Stages
<1>15. ASSUME NEW w \in Workers, CancelWrite(w)
  PROVE  TypeOK'
  BY <1>15, TaskTyped DEF CancelWrite, WorkerInv, TaskOK, At, Free, Stages
<1>16. ASSUME NEW w \in Workers, ReconcileExpires(w)
  PROVE  TypeOK'
  BY <1>16, TaskTyped DEF ReconcileExpires, WorkerInv, TaskOK, At, Free, Stages
<1>17. ASSUME NEW w \in Workers, ReconcileAsks(w)
  PROVE  TypeOK'
  BY <1>17, TaskTyped DEF ReconcileAsks, WorkerInv, TaskOK, At, Free, Stages
<1>18. ASSUME NEW w \in Workers, MarkPaid(w)
  PROVE  TypeOK'
  BY <1>18, TaskTyped DEF MarkPaid, AlreadyPaid, WorkerInv, TaskOK, At, Free, Stages
<1>19. ASSUME NEW w \in Workers, WebhookProcessed(w)
  PROVE  TypeOK'
  BY <1>19, TaskTyped DEF WebhookProcessed, WorkerInv, TaskOK, At, Free, Stages
<1>20. ASSUME NEW w \in Workers, Queued(w) \/ Dispatched(w)
  PROVE  TypeOK'
  <2>1. "processed" \in Stages /\ "dispatch" \in Stages
    BY DEF Stages
  <2>2. Goes(w, "dispatch") \/ Goes(w, "processed") \/ Ends(w)
    BY <1>20, Zenon DEF Queued, Dispatched, Returns
  <2>3. UNCHANGED <<sessionVars, ledgerVars, providerVars>>
    BY <1>20 DEF Queued, Dispatched
  <2>4. CASE Goes(w, "processed")
    BY <2>1, <2>3, <2>4, TaskTyped
  <2>5. CASE Ends(w)
    BY <2>1, <2>3, <2>5, TaskTyped
  <2>6. CASE Goes(w, "dispatch")
    BY <2>1, <2>3, <2>6, TaskTyped
  <2> QED
    BY <2>2, <2>4, <2>5, <2>6
<1>21. ASSUME NEW w \in Workers, Dies(w)
  PROVE  TypeOK'
  BY <1>21, TaskTyped DEF Dies, WorkerInv, TaskOK, At, Free, Stages
<1>22. CASE UNCHANGED checkoutVars
  BY <1>22 DEF checkoutVars
<1> QED
  BY <1>1, <1>2, <1>3, <1>4, <1>5, <1>6, <1>7, <1>8, <1>9, <1>10, <1>11, <1>12, <1>13, <1>14, <1>15, <1>16, <1>17, <1>18, <1>19, <1>20, <1>21, <1>22
  DEF Next, CheckoutStep, SessionStep, RequestStep, WorkerStep

(* Which actions write the payments, the provider's order and its events. *)
LEMMA WhoPays ==
  ASSUME [Next]_checkoutVars
  PROVE  UNCHANGED ledgerVars \/ \E w \in Workers : MarkPaid(w)
  BY ZenonT(60) DEF Next, CheckoutStep, SessionStep, RequestStep, WorkerStep, checkoutVars,
      sessionVars, ledgerVars, providerVars,
      Create, Lapse, InitiationAges, StartExpired, BuyerApproves, StartPayment, Complete,
      CancelRead, ReconcileRead, Webhook, Initiate, InitiateFails, Attach, Capture,
      CancelWrite, ReconcileExpires, ReconcileAsks, MarkPaid, WebhookProcessed, Queued, Dispatched, Dies

LEMMA WhoOrders ==
  ASSUME [Next]_checkoutVars
  PROVE  \/ UNCHANGED order
         \/ \E s \in Sessions : BuyerApproves(s)
         \/ \E w \in Workers : Initiate(w) \/ Capture(w)
  BY ZenonT(60) DEF Next, CheckoutStep, SessionStep, RequestStep, WorkerStep, checkoutVars,
      sessionVars, ledgerVars, providerVars,
      Create, Lapse, InitiationAges, StartExpired, BuyerApproves, StartPayment, Complete,
      CancelRead, ReconcileRead, Webhook, Initiate, InitiateFails, Attach, Capture,
      CancelWrite, ReconcileExpires, ReconcileAsks, MarkPaid, WebhookProcessed, Queued, Dispatched, Dies

LEMMA WhoAnnounces ==
  ASSUME [Next]_checkoutVars
  PROVE  \/ UNCHANGED event
         \/ \E s \in Sessions : BuyerApproves(s)
         \/ \E w \in Workers : Capture(w) \/ WebhookProcessed(w)
         \/ \E w \in Workers, s \in Sessions, ref \in Refs : Webhook(w, s, ref)
  BY ZenonT(60) DEF Next, CheckoutStep, SessionStep, RequestStep, WorkerStep, checkoutVars,
      sessionVars, ledgerVars, providerVars,
      Create, Lapse, InitiationAges, StartExpired, BuyerApproves, StartPayment, Complete,
      CancelRead, ReconcileRead, Webhook, Initiate, InitiateFails, Attach, Capture,
      CancelWrite, ReconcileExpires, ReconcileAsks, MarkPaid, WebhookProcessed, Queued, Dispatched, Dies

(* What was captured stays captured. *)
LEMMA OrderMonotone ==
  ASSUME TypeOK, WorkerInv, [Next]_checkoutVars, NEW s \in Sessions, order[s] = "captured"
  PROVE  order'[s] = "captured"
<1>1. CASE UNCHANGED order
  BY <1>1
<1>2. ASSUME NEW t \in Sessions, BuyerApproves(t)
  PROVE  order'[s] = "captured"
  BY <1>2 DEF BuyerApproves, TypeOK
<1>3. ASSUME NEW w \in Workers, Initiate(w)
  PROVE  order'[s] = "captured"
  BY <1>3 DEF Initiate, TypeOK
<1>4. ASSUME NEW w \in Workers, Capture(w)
  PROVE  order'[s] = "captured"
  BY <1>4 DEF Capture, TypeOK
<1> QED
  BY <1>1, <1>2, <1>3, <1>4, WhoOrders

(* One worker takes a sound task while the others keep theirs. *)
LEMMA WorkerTakes ==
  ASSUME TypeOK, WorkerInv, [Next]_checkoutVars,
         NEW w \in Workers, NEW STATE t, Takes(w, t), TaskOK(t, order')
  PROVE  WorkerInv'
<1> SUFFICES ASSUME NEW v \in Workers PROVE TaskOK(worker'[v], order')
  BY DEF WorkerInv
<1>1. CASE v = w
  <2>1. worker'[v] = t
    BY <1>1 DEF Takes, TypeOK
  <2> QED
    BY <2>1 DEF TaskOK
<1>2. CASE v # w
  <2>1. worker'[v] = worker[v]
    BY <1>2 DEF Takes, TypeOK
  <2>2. TaskOK(worker[v], order)
    BY DEF WorkerInv
  <2> QED
    BY <2>1, <2>2, OrderMonotone DEF TaskOK
<1> QED
  BY <1>1, <1>2

LEMMA WorkerRests ==
  ASSUME TypeOK, WorkerInv, [Next]_checkoutVars, UNCHANGED worker
  PROVE  WorkerInv'
<1> SUFFICES ASSUME NEW v \in Workers PROVE TaskOK(worker'[v], order')
  BY DEF WorkerInv
<1>1. TaskOK(worker[v], order)
  BY DEF WorkerInv
<1> QED
  BY <1>1, OrderMonotone DEF TaskOK

LEMMA WorkerEnds ==
  ASSUME TypeOK, WorkerInv, [Next]_checkoutVars, NEW w \in Workers, Ends(w)
  PROVE  WorkerInv'
  BY WorkerTakes DEF Ends, TaskOK, Idle

(* The tasks that are under way stay sound, one step per action. *)
LEMMA WorkerStepInv ==
  ASSUME TypeOK, WorkerInv, EventInv, [Next]_checkoutVars
  PROVE  WorkerInv'
<1> USE CheckoutAssumption
<1>1. ASSUME NEW s \in Sessions, Create(s)
  PROVE  WorkerInv'
  BY <1>1, WorkerRests DEF Create
<1>2. ASSUME NEW s \in Sessions, Lapse(s)
  PROVE  WorkerInv'
  BY <1>2, WorkerRests DEF Lapse
<1>3. ASSUME NEW s \in Sessions, InitiationAges(s)
  PROVE  WorkerInv'
  BY <1>3, WorkerRests DEF InitiationAges
<1>4. ASSUME NEW s \in Sessions, StartExpired(s)
  PROVE  WorkerInv'
  BY <1>4, WorkerRests DEF StartExpired
<1>5. ASSUME NEW s \in Sessions, BuyerApproves(s)
  PROVE  WorkerInv'
  BY <1>5, WorkerRests DEF BuyerApproves
<1>6. ASSUME NEW w \in Workers, NEW s \in Sessions, StartPayment(w, s)
  PROVE  WorkerInv'
  <2>1. TaskOK(Task("initiate", s, None, FALSE), order')
    BY <1>6 DEF StartPayment, TaskOK, Task
  <2> QED
    BY <1>6, <2>1, WorkerTakes DEF StartPayment
<1>7. ASSUME NEW w \in Workers, NEW s \in Sessions, Complete(w, s)
  PROVE  WorkerInv'
  <2>1. TaskOK(Task("capture", s, PaymentOf(s), FALSE), order')
    BY <1>7 DEF Complete, FoundByOrder, PaymentOf, TaskOK, Task
  <2> QED
    BY <1>7, <2>1, WorkerTakes DEF Complete
<1>8. ASSUME NEW w \in Workers, NEW s \in Sessions, CancelRead(w, s)
  PROVE  WorkerInv'
  <2>1. TaskOK(Task("cancel", s, None, FALSE), order')
    BY <1>8 DEF CancelRead, FoundByOrder, TaskOK, Task
  <2> QED
    BY <1>8, <2>1, WorkerTakes DEF CancelRead
<1>9. ASSUME NEW w \in Workers, NEW s \in Sessions, ReconcileRead(w, s)
  PROVE  WorkerInv'
  <2>1. TaskOK(Task("reconcile", s, PaymentOf(s), FALSE), order')
    BY <1>9 DEF ReconcileRead, FoundByOrder, PaymentOf, TaskOK, Task
  <2> QED
    BY <1>9, <2>1, WorkerTakes DEF ReconcileRead
<1>10. ASSUME NEW w \in Workers, NEW s \in Sessions, NEW ref \in Refs, Webhook(w, s, ref)
  PROVE  WorkerInv'
  <2>1. ref \in RefsOf[s] /\ order'[s] = "captured"
    BY <1>10 DEF Webhook, EventInv
  <2>2. TaskOK(Task("markPaid", s, ref, TRUE), order')
    BY <2>1 DEF TaskOK, Task
  <2> QED
    BY <1>10, <2>2, WorkerTakes DEF Webhook
<1>11. ASSUME NEW w \in Workers, Initiate(w)
  PROVE  WorkerInv'
  <2>1. TaskOK(worker[w], order) /\ worker[w].stage # "idle"
    BY <1>11 DEF Initiate, At, WorkerInv
  <2>2. TaskOK(Task("attach", worker[w].s, worker[w].ref, worker[w].hook), order')
    BY <1>11, <2>1, OrderMonotone DEF Initiate, At, TaskOK, Task, TypeOK
  <2> QED
    BY <1>11, <2>2, WorkerTakes DEF Initiate, Goes
<1>12. ASSUME NEW w \in Workers, InitiateFails(w)
  PROVE  WorkerInv'
  BY <1>12, WorkerEnds DEF InitiateFails
<1>13. ASSUME NEW w \in Workers, Attach(w)
  PROVE  WorkerInv'
  BY <1>13, WorkerEnds DEF Attach
<1>14. ASSUME NEW w \in Workers, CancelWrite(w)
  PROVE  WorkerInv'
  BY <1>14, WorkerEnds DEF CancelWrite
<1>15. ASSUME NEW w \in Workers, ReconcileExpires(w)
  PROVE  WorkerInv'
  BY <1>15, WorkerEnds DEF ReconcileExpires
<1>16. ASSUME NEW w \in Workers, WebhookProcessed(w)
  PROVE  WorkerInv'
  BY <1>16, WorkerEnds DEF WebhookProcessed
<1>17. ASSUME NEW w \in Workers, Dies(w)
  PROVE  WorkerInv'
  BY <1>17, WorkerEnds DEF Dies
<1>18. ASSUME NEW w \in Workers, Capture(w)
  PROVE  WorkerInv'
  <2>1. TaskOK(worker[w], order) /\ worker[w].stage # "idle"
    BY <1>18 DEF Capture, At, WorkerInv
  <2>2. TaskOK(Task("markPaid", worker[w].s, worker[w].ref, worker[w].hook), order')
    BY <1>18, <2>1, OrderMonotone DEF Capture, At, TaskOK, Task, TypeOK
  <2> QED
    BY <1>18, <2>2, WorkerTakes DEF Capture, Goes
<1>19. ASSUME NEW w \in Workers, MarkPaid(w)
  PROVE  WorkerInv'
  <2>1. TaskOK(worker[w], order) /\ worker[w].stage # "idle"
    BY <1>19 DEF MarkPaid, At, WorkerInv
  <2>2. TaskOK(Task("queue", worker[w].s, worker[w].ref, worker[w].hook), order')
    BY <1>19, <2>1, OrderMonotone DEF MarkPaid, At, TaskOK, Task, TypeOK
  <2> QED
    BY <1>19, <2>2, WorkerTakes DEF MarkPaid, Goes
<1>20. ASSUME NEW w \in Workers, ReconcileAsks(w)
  PROVE  WorkerInv'
  <2>1. TaskOK(worker[w], order) /\ worker[w].stage = "reconcile"
    BY <1>20 DEF ReconcileAsks, At, WorkerInv
  <2>2. UNCHANGED order
    BY <1>20 DEF ReconcileAsks, providerVars
  <2>3. CASE order[worker[w].s] = "approved" /\ Goes(w, "capture")
    <3>1. TaskOK(Task("capture", worker[w].s, worker[w].ref, worker[w].hook), order')
      BY <2>1 DEF TaskOK, Task
    <3> QED
      BY <2>3, <3>1, WorkerTakes DEF Goes
  <2>4. CASE order[worker[w].s] = "captured" /\ Goes(w, "markPaid")
    <3>1. TaskOK(Task("markPaid", worker[w].s, worker[w].ref, worker[w].hook), order')
      BY <2>1, <2>2, <2>4 DEF TaskOK, Task
    <3> QED
      BY <2>4, <3>1, WorkerTakes DEF Goes
  <2>5. CASE Ends(w)
    BY <2>5, WorkerEnds
  <2> QED
    BY <1>20, <2>3, <2>4, <2>5 DEF ReconcileAsks
<1>21. ASSUME NEW w \in Workers, Queued(w) \/ Dispatched(w)
  PROVE  WorkerInv'
  <2>1. TaskOK(worker[w], order) /\ worker[w].stage \in {"queue", "dispatch"}
    BY <1>21 DEF Queued, Dispatched, At, WorkerInv
  <2>2. Goes(w, "dispatch") \/ Goes(w, "processed") \/ Ends(w)
    BY <1>21, Zenon DEF Queued, Dispatched, Returns
  <2>3. UNCHANGED order
    BY <1>21 DEF Queued, Dispatched, providerVars
  <2>4. ASSUME NEW stage \in {"dispatch", "processed"}, Goes(w, stage)
    PROVE  WorkerInv'
    <3>1. TaskOK(Task(stage, worker[w].s, worker[w].ref, worker[w].hook), order')
      BY <2>1, <2>3, <2>4 DEF TaskOK, Task
    <3> QED
      BY <2>4, <3>1, WorkerTakes DEF Goes
  <2>5. CASE Ends(w)
    BY <2>5, WorkerEnds
  <2> QED
    BY <2>2, <2>4, <2>5
<1>22. CASE UNCHANGED checkoutVars
  BY <1>22, WorkerRests DEF checkoutVars
<1> QED
  BY <1>1, <1>2, <1>3, <1>4, <1>5, <1>6, <1>7, <1>8, <1>9, <1>10, <1>11, <1>12, <1>13, <1>14, <1>15, <1>16, <1>17, <1>18, <1>19, <1>20, <1>21, <1>22
  DEF Next, CheckoutStep, SessionStep, RequestStep, WorkerStep

(* Events tell of captured payments only. *)
LEMMA EventStepInv ==
  ASSUME TypeOK, WorkerInv, EventInv, [Next]_checkoutVars
  PROVE  EventInv'
<1> SUFFICES ASSUME NEW s \in Sessions, NEW ref \in Refs, event'[<<s, ref>>] # "unsent"
             PROVE  ref \in RefsOf[s] /\ order'[s] = "captured"
  BY DEF EventInv
<1>1. CASE event[<<s, ref>>] # "unsent"
  BY <1>1, OrderMonotone DEF EventInv
<1>2. CASE event[<<s, ref>>] = "unsent"
  <2>1. CASE UNCHANGED event
    BY <1>2, <2>1
  <2>2. ASSUME NEW t \in Sessions, BuyerApproves(t)
    PROVE  ref \in RefsOf[s] /\ order'[s] = "captured"
    BY <1>2, <2>2 DEF BuyerApproves, Announced, TypeOK
  <2>3. ASSUME NEW w \in Workers, Capture(w)
    PROVE  ref \in RefsOf[s] /\ order'[s] = "captured"
    BY <1>2, <2>3 DEF Capture, Announced, TypeOK
  <2>4. ASSUME NEW w \in Workers, WebhookProcessed(w)
    PROVE  ref \in RefsOf[s] /\ order'[s] = "captured"
    <3>1. TaskOK(worker[w], order) /\ worker[w].stage = "processed"
      BY <2>4 DEF WebhookProcessed, At, WorkerInv
    <3>2. <<s, ref>> = <<worker[w].s, worker[w].ref>>
      BY <1>2, <2>4 DEF WebhookProcessed, TypeOK
    <3> QED
      BY <2>4, <3>1, <3>2 DEF WebhookProcessed, TaskOK
  <2>5. ASSUME NEW w \in Workers, NEW t \in Sessions, NEW r \in Refs, Webhook(w, t, r)
    PROVE  ref \in RefsOf[s] /\ order'[s] = "captured"
    <3>1. <<s, ref>> = <<t, r>>
      BY <1>2, <2>5 DEF Webhook, TypeOK
    <3> QED
      BY <1>2, <2>5, <3>1 DEF Webhook
  <2> QED
    BY <2>1, <2>2, <2>3, <2>4, <2>5, WhoAnnounces
<1> QED
  BY <1>1, <1>2

(* Only cancellation and expiry take a session out of "paid", and they touch *)
(* PayPal sessions only.                                                     *)
LEMMA WhoUnpays ==
  ASSUME TypeOK, WorkerInv, [Next]_checkoutVars,
         NEW s \in Sessions, s \notin PayPalSessions, status[s] = "paid"
  PROVE  status'[s] = "paid"
<1>1. \/ status'[s] = "paid"
      \/ \E w \in Workers : CancelWrite(w) \/ ReconcileExpires(w)
  BY ZenonT(60) DEF TypeOK, Next, CheckoutStep, SessionStep, RequestStep, WorkerStep, checkoutVars,
      sessionVars, ledgerVars, providerVars,
      Create, Lapse, InitiationAges, StartExpired, BuyerApproves, StartPayment, Complete,
      CancelRead, ReconcileRead, Webhook, Initiate, InitiateFails, Attach, Capture,
      CancelWrite, ReconcileExpires, ReconcileAsks, MarkPaid, WebhookProcessed, Queued, Dispatched, Dies
<1>2. ASSUME NEW w \in Workers, CancelWrite(w) \/ ReconcileExpires(w)
  PROVE  status'[s] = "paid"
  <2>1. TaskOK(worker[w], order) /\ worker[w].stage \in {"cancel", "reconcile"}
    BY <1>2 DEF CancelWrite, ReconcileExpires, At, WorkerInv
  <2>2. worker[w].s # s
    BY <2>1 DEF TaskOK
  <2> QED
    BY <1>2, <2>2 DEF CancelWrite, ReconcileExpires, TypeOK
<1> QED
  BY <1>1, <1>2

(* markPaid() records the payment its caller verified, or nothing. *)
LEMMA MarkPaidRecords ==
  ASSUME TypeOK, WorkerInv, NEW w \in Workers, MarkPaid(w)
  PROVE  LET s == worker[w].s  ref == worker[w].ref IN
         /\ s \in Sessions /\ ref \in RefsOf[s] /\ ref \in Refs /\ order[s] = "captured"
         /\ \/ UNCHANGED <<payments, subscription>>
            \/ /\ status[s] # "paid" /\ status'[s] = "paid"
               /\ <<s, ref>> \notin payments
               /\ payments' = payments \cup {<<s, ref>>}
               /\ subscription' \in {s, subscription}
<1>1. TaskOK(worker[w], order) /\ worker[w].stage = "markPaid"
  BY DEF MarkPaid, At, WorkerInv
<1>2. /\ worker[w].s \in Sessions /\ worker[w].ref \in RefsOf[worker[w].s]
      /\ order[worker[w].s] = "captured"
  BY <1>1 DEF TaskOK
<1>3. worker[w].ref \in Refs
  BY <1>2, CheckoutAssumption
<1> QED
  BY <1>2, <1>3 DEF MarkPaid, AlreadyPaid, TypeOK

LEMMA PaymentStepInv ==
  ASSUME TypeOK, WorkerInv, PaymentInv, [Next]_checkoutVars
  PROVE  PaymentInv'
<1> SUFFICES ASSUME NEW s \in Sessions, NEW ref \in Refs, <<s, ref>> \in payments'
             PROVE  /\ ref \in RefsOf[s] /\ order'[s] = "captured"
                    /\ s \notin PayPalSessions => status'[s] = "paid"
  BY DEF PaymentInv
<1>1. CASE <<s, ref>> \in payments
  BY <1>1, OrderMonotone, WhoUnpays DEF PaymentInv
<1>2. CASE <<s, ref>> \notin payments
  <2>1. PICK w \in Workers : MarkPaid(w)
    BY <1>2, WhoPays DEF ledgerVars
  <2>2. payments' = payments \cup {<<worker[w].s, worker[w].ref>>}
    BY <1>2, <2>1, MarkPaidRecords
  <2>3. s = worker[w].s /\ ref = worker[w].ref
    BY <1>2, <2>2
  <2> QED
    BY <1>2, <2>1, <2>3, MarkPaidRecords, OrderMonotone
<1> QED
  BY <1>1, <1>2

(* A second payment row needs an unpaid session with another reference: a    *)
(* PayPal session has no other, and any other session has stayed paid.       *)
LEMMA OneRefStepInv ==
  ASSUME TypeOK, WorkerInv, PaymentInv, OneRef, [Next]_checkoutVars
  PROVE  OneRef'
<1>1. CASE UNCHANGED payments
  BY <1>1 DEF OneRef
<1>2. CASE ~UNCHANGED payments
  <2>1. PICK w \in Workers : MarkPaid(w)
    BY <1>2, WhoPays DEF ledgerVars
  <2> DEFINE s == worker[w].s
             ref == worker[w].ref
  <2>2. /\ s \in Sessions /\ ref \in RefsOf[s] /\ ref \in Refs
        /\ status[s] # "paid" /\ <<s, ref>> \notin payments
        /\ payments' = payments \cup {<<s, ref>>}
    BY <1>2, <2>1, MarkPaidRecords
  <2>3. \A other \in Refs : <<s, other>> \notin payments
    BY <2>2, CheckoutAssumption DEF PaymentInv
  <2> HIDE DEF s, ref
  <2> QED
    BY <2>2, <2>3 DEF OneRef
<1> QED
  BY <1>1, <1>2

LEMMA SubscriptionStepInv ==
  ASSUME TypeOK, WorkerInv, SubscriptionInv, [Next]_checkoutVars
  PROVE  SubscriptionInv'
<1>1. CASE UNCHANGED <<payments, subscription>>
  BY <1>1 DEF SubscriptionInv
<1>2. CASE ~UNCHANGED <<payments, subscription>>
  <2>1. PICK w \in Workers : MarkPaid(w)
    BY <1>2, WhoPays DEF ledgerVars
  <2> QED
    BY <1>2, <2>1, MarkPaidRecords DEF SubscriptionInv
<1> QED
  BY <1>1, <1>2

LEMMA Inductive ==
  ASSUME IInv, [Next]_checkoutVars
  PROVE  IInv'
  BY TypeStep, WorkerStepInv, EventStepInv, PaymentStepInv, OneRefStepInv,
     SubscriptionStepInv DEF IInv

LEMMA Initial ==
  ASSUME Init
  PROVE  IInv
  BY CheckoutAssumption DEF Init, IInv, TypeOK, WorkerInv, TaskOK, EventInv, PaymentInv,
     OneRef, SubscriptionInv, Idle, Tasks, Stages, Statuses

(* Every run keeps the inductive invariant. *)
THEOREM CheckoutInvariant == Spec => []IInv
  BY Initial, Inductive, PTL DEF Spec

(* The columns of CheckoutService's tables keep to their vocabularies. *)
THEOREM TypeCorrect == Spec => []TypeOK
<1>1. IInv => TypeOK
  BY DEF IInv
<1> QED
  BY CheckoutInvariant, <1>1, PTL

(* markPaid() never gives a session two orders, for any number of sessions,  *)
(* references per session and concurrent workers.                            *)
THEOREM ChargedOnce == Spec => []OneOrderPerSession
<1>1. IInv => OneOrderPerSession
  <2> SUFFICES ASSUME IInv, NEW s \in Sessions, NEW p \in OrdersOf(s), NEW q \in OrdersOf(s)
               PROVE  p = q
    BY DEF OneOrderPerSession
  <2>1. p \in Sessions \X Refs /\ q \in Sessions \X Refs
    BY DEF IInv, TypeOK, OrdersOf
  <2>2. p = <<s, p[2]>> /\ q = <<s, q[2]>> /\ p[2] \in Refs /\ q[2] \in Refs
    BY <2>1 DEF OrdersOf
  <2> QED
    BY <2>2 DEF IInv, OneRef, OrdersOf
<1> QED
  BY CheckoutInvariant, <1>1, PTL

(* Orders and subscriptions rest on captured money, for every instance. *)
THEOREM OrdersBacked == Spec => []OrderBackedByCapture
<1>1. IInv => OrderBackedByCapture
  <2> SUFFICES ASSUME IInv PROVE OrderBackedByCapture
    OBVIOUS
  <2>1. ASSUME NEW p \in payments
        PROVE  order[p[1]] = "captured" /\ p[2] \in RefsOf[p[1]]
    <3>1. p \in Sessions \X Refs
      BY DEF IInv, TypeOK
    <3>2. p = <<p[1], p[2]>> /\ p[1] \in Sessions /\ p[2] \in Refs
      BY <3>1
    <3> QED
      BY <3>2 DEF IInv, PaymentInv
  <2>2. ASSUME subscription # None
        PROVE  OrdersOf(subscription) # {}
    <3>1. PICK ref \in Refs : <<subscription, ref>> \in payments
      BY <2>2 DEF IInv, SubscriptionInv
    <3>2. <<subscription, ref>>[1] = subscription
      OBVIOUS
    <3> QED
      BY <3>1, <3>2 DEF OrdersOf
  <2> QED
    BY <2>1, <2>2 DEF OrderBackedByCapture
<1> QED
  BY CheckoutInvariant, <1>1, PTL

-----------------------------------------------------------------------------
(* Domain purchase.                                                        *)

(* A session that is paid has its payment row. *)
PaidInv ==
  \A s \in Sessions : status[s] = "paid" => \E ref \in Refs : <<s, ref>> \in payments

DomainTyped ==
  /\ domain \in [DomainSessions -> DomainStatuses]
  /\ zone \in [DomainSessions -> {"none", "pending_delegation", "active"}]
  /\ job \in [DomainSessions -> JobStages]
  /\ doomed \in [DomainSessions -> BOOLEAN]
  /\ registrarCalls \in [DomainSessions -> {0, 1}]

(* A row exists only for a created session. *)
RowInv ==
  \A d \in DomainSessions :
    status[d] = "absent" => domain[d] = "none" /\ registrarCalls[d] = 0

(* The unique index on the name. *)
NameInv ==
  \A d, e \in DomainSessions :
    domain[d] # "none" /\ domain[e] # "none" /\ NameOf[d] = NameOf[e] => d = e

(* What the row says once a job exists, is about to call, or has called. *)
JobInv ==
  \A d \in DomainSessions :
    /\ job[d] # "none" \/ doomed[d] => domain[d] \notin {"none", "pending_payment"}
    /\ job[d] \notin {"none", "queued"} =>
         domain[d] \notin {"none", "pending_payment", "pending_registration"}
    /\ job[d] = "register" => registrarCalls[d] = 0
    /\ registrarCalls[d] = 1 =>
         domain[d] \notin {"none", "pending_payment", "pending_registration"}

(* Only what is paid for is about to be bought or was bought. *)
BoughtInv ==
  \A d \in DomainSessions :
    job[d] = "register" \/ registrarCalls[d] = 1 =>
      \E ref \in Refs : <<d, ref>> \in payments

(* A job is about to be dispatched only for a row that was taken over for    *)
(* registration, and such a row neither disappears nor goes back.            *)
TakenOver(d) == domain[d] \notin {"none", "pending_payment"}

DispatchInv ==
  \A w \in Workers :
    At(w, "dispatch") => worker[w].s \in DomainSessions /\ TakenOver(worker[w].s)

DomainIInv ==
  /\ IInv /\ PaidInv /\ DispatchInv
  /\ DomainTyped /\ RowInv /\ NameInv /\ JobInv /\ BoughtInv

(* A step of the purchase is a step of the checkout or none of it. *)
LEMMA DomainStepIsCheckoutStep ==
  ASSUME [DomainNext]_vars
  PROVE  [Next]_checkoutVars
<1> USE DomainAssumption, CheckoutAssumption
<1>1. ASSUME NEW d \in DomainSessions, StartDomain(d)
  PROVE  [Next]_checkoutVars
  BY <1>1 DEF StartDomain, Next
<1>2. ASSUME NEW s \in Sessions, CreatePlan(s)
  PROVE  [Next]_checkoutVars
  BY <1>2 DEF CreatePlan, Next
<1>3. ASSUME NEW w \in Workers, QueuePaidDomain(w) \/ DispatchProvisioning(w)
  PROVE  [Next]_checkoutVars
  BY <1>3 DEF QueuePaidDomain, DispatchProvisioning, Next
<1>4. ASSUME NEW d \in DomainSessions, JobStep(d) \/ JobFailed(d) \/ VerifyDns(d)
  PROVE  [Next]_checkoutVars
  BY <1>4 DEF JobStep, Claim, CallRegistrar, Registered, RegistrarFails, CreateZone,
     DelegationPending, DnsFails, Notify, JobDies, JobFailed, VerifyDns
<1>5. CASE CheckoutStep
  BY <1>5 DEF Next
<1>6. CASE UNCHANGED vars
  BY <1>6 DEF vars
<1> QED
  BY <1>1, <1>2, <1>3, <1>4, <1>5, <1>6 DEF DomainNext

(* The domain purchase implements the checkout: with its domain variables    *)
(* hidden, every behaviour of it is one of Checkout's.                       *)
THEOREM PurchaseImplementsCheckout == DomainSpec => Spec
<1>1. DomainInit => Init
  BY DEF DomainInit
<1> QED
  BY <1>1, DomainStepIsCheckoutStep, PTL DEF DomainSpec, Spec

(* Payment rows are never deleted, and a session once created stays so. *)
LEMMA LedgerGrows ==
  ASSUME TypeOK, WorkerInv, [Next]_checkoutVars
  PROVE  payments \subseteq payments'
<1>1. CASE UNCHANGED ledgerVars
  BY <1>1 DEF ledgerVars
<1>2. ASSUME NEW w \in Workers, MarkPaid(w)
  PROVE  payments \subseteq payments'
  BY <1>2, MarkPaidRecords
<1> QED
  BY <1>1, <1>2, WhoPays

(* Which actions write the session's status. *)
LEMMA WhoWrites ==
  ASSUME [Next]_checkoutVars
  PROVE  \/ UNCHANGED status
         \/ \E s \in Sessions : Create(s) \/ StartExpired(s)
         \/ \E w \in Workers, s \in Sessions : StartPayment(w, s)
         \/ \E w \in Workers : \/ InitiateFails(w) \/ Attach(w) \/ CancelWrite(w)
                               \/ ReconcileExpires(w) \/ MarkPaid(w)
  BY ZenonT(60) DEF Next, CheckoutStep, SessionStep, RequestStep, WorkerStep, checkoutVars,
      sessionVars, ledgerVars, providerVars,
      Create, Lapse, InitiationAges, StartExpired, BuyerApproves, StartPayment, Complete,
      CancelRead, ReconcileRead, Webhook, Initiate, InitiateFails, Attach, Capture,
      CancelWrite, ReconcileExpires, ReconcileAsks, MarkPaid, WebhookProcessed, Queued, Dispatched, Dies

LEMMA CreatedForGood ==
  ASSUME TypeOK, [Next]_checkoutVars, NEW s \in Sessions, status[s] # "absent"
  PROVE  status'[s] # "absent"
<1>1. CASE UNCHANGED status
  BY <1>1
<1>2. ASSUME NEW t \in Sessions, Create(t) \/ StartExpired(t)
  PROVE  status'[s] # "absent"
  BY <1>2 DEF Create, StartExpired, TypeOK
<1>3. ASSUME NEW w \in Workers, NEW t \in Sessions, StartPayment(w, t)
  PROVE  status'[s] # "absent"
  BY <1>3 DEF StartPayment, TypeOK
<1>4. ASSUME NEW w \in Workers, InitiateFails(w) \/ Attach(w)
  PROVE  status'[s] # "absent"
  BY <1>4 DEF InitiateFails, Attach, TypeOK
<1>5. ASSUME NEW w \in Workers, CancelWrite(w) \/ ReconcileExpires(w) \/ MarkPaid(w)
  PROVE  status'[s] # "absent"
  BY <1>5 DEF CancelWrite, ReconcileExpires, MarkPaid, TypeOK
<1> QED
  BY <1>1, <1>2, <1>3, <1>4, <1>5, WhoWrites

LEMMA WhoMarks ==
  ASSUME TypeOK, [Next]_checkoutVars,
         NEW s \in Sessions, status[s] # "paid", status'[s] = "paid"
  PROVE  \E w \in Workers :
           MarkPaid(w) /\ worker[w].s = s /\ payments' = payments \cup {<<s, worker[w].ref>>}
<1>1. ASSUME NEW t \in Sessions, Create(t) \/ StartExpired(t)
  PROVE  FALSE
  BY <1>1 DEF Create, StartExpired, TypeOK
<1>2. ASSUME NEW w \in Workers, NEW t \in Sessions, StartPayment(w, t)
  PROVE  FALSE
  BY <1>2 DEF StartPayment, TypeOK
<1>3. ASSUME NEW w \in Workers,
             InitiateFails(w) \/ Attach(w) \/ CancelWrite(w) \/ ReconcileExpires(w)
  PROVE  FALSE
  BY <1>3 DEF InitiateFails, Attach, CancelWrite, ReconcileExpires, TypeOK
<1>4. ASSUME NEW w \in Workers, MarkPaid(w)
  PROVE  worker[w].s = s /\ payments' = payments \cup {<<s, worker[w].ref>>}
  <2>1. worker[w].s = s
    BY <1>4 DEF MarkPaid, TypeOK
  <2> QED
    BY <1>4, <2>1 DEF MarkPaid, TypeOK
<1> QED
  BY <1>1, <1>2, <1>3, <1>4, WhoWrites

LEMMA PaidStepInv ==
  ASSUME TypeOK, WorkerInv, PaidInv, [Next]_checkoutVars
  PROVE  PaidInv'
<1> SUFFICES ASSUME NEW s \in Sessions, status'[s] = "paid"
             PROVE  \E ref \in Refs : <<s, ref>> \in payments'
  BY DEF PaidInv
<1>1. CASE status[s] = "paid"
  BY <1>1, LedgerGrows DEF PaidInv
<1>2. CASE status[s] # "paid"
  <2>1. PICK w \in Workers :
          MarkPaid(w) /\ worker[w].s = s /\ payments' = payments \cup {<<s, worker[w].ref>>}
    BY <1>2, WhoMarks
  <2> QED
    BY <2>1, MarkPaidRecords
<1> QED
  BY <1>1, <1>2

(* The conjuncts about domains, which a step of the checkout can disturb     *)
(* only by creating a session or recording a payment.                        *)
DomainPart == DomainTyped /\ RowInv /\ NameInv /\ JobInv /\ BoughtInv

LEMMA DomainRests ==
  ASSUME TypeOK, WorkerInv, DomainPart, [Next]_checkoutVars, UNCHANGED domainVars
  PROVE  DomainPart'
<1> USE DomainAssumption, CheckoutAssumption
<1>1. DomainTyped' /\ NameInv' /\ JobInv'
  BY DEF DomainPart, DomainTyped, NameInv, JobInv, domainVars
<1>2. RowInv'
  BY CreatedForGood DEF DomainPart, RowInv, domainVars
<1>3. BoughtInv'
  BY LedgerGrows DEF DomainPart, BoughtInv, domainVars
<1> QED
  BY <1>1, <1>2, <1>3 DEF DomainPart

(* A new purchase takes a name nobody holds, or one given up unpaid. *)
LEMMA StartDomainKeeps ==
  ASSUME TypeOK, WorkerInv, DomainPart, [Next]_checkoutVars,
         NEW d \in DomainSessions, StartDomain(d)
  PROVE  DomainPart'
<1> USE DomainAssumption, CheckoutAssumption
<1>1. /\ status[d] = "absent" /\ status'[d] = "open"
      /\ domain[d] = "none" /\ registrarCalls[d] = 0 /\ job[d] = "none" /\ ~doomed[d]
  BY DEF StartDomain, Create, TypeOK, DomainPart, RowInv, JobInv, DomainTyped
<1>2. \A e \in SameName(d) : domain[e] = "pending_payment" /\ job[e] = "none" /\ ~doomed[e]
                              /\ registrarCalls[e] = 0
  BY DEF StartDomain, SameName, Abandoned, DomainPart, JobInv, DomainTyped
<1>3. /\ domain' \in [DomainSessions -> DomainStatuses]
      /\ domain'[d] = "pending_payment"
      /\ \A e \in SameName(d) : domain'[e] = "none"
      /\ \A e \in DomainSessions : e # d /\ e \notin SameName(d) => domain'[e] = domain[e]
  BY DEF StartDomain, SameName, DomainPart, DomainTyped, DomainStatuses
<1>4. UNCHANGED <<zone, job, doomed, registrarCalls>>
  BY DEF StartDomain
<1>5. DomainTyped'
  BY <1>3, <1>4 DEF DomainPart, DomainTyped
<1>6. RowInv'
  BY <1>1, <1>2, <1>3, <1>4, CreatedForGood DEF DomainPart, RowInv
<1>7. NameInv'
  BY <1>3 DEF DomainPart, NameInv, SameName
<1>8. JobInv'
  BY <1>1, <1>2, <1>3, <1>4 DEF DomainPart, JobInv
<1>9. BoughtInv'
  BY <1>4, LedgerGrows DEF DomainPart, BoughtInv
<1> QED
  BY <1>5, <1>6, <1>7, <1>8, <1>9 DEF DomainPart

LEMMA QueuePaidDomainKeeps ==
  ASSUME TypeOK, WorkerInv, DomainPart, [Next]_checkoutVars,
         NEW w \in Workers, QueuePaidDomain(w)
  PROVE  DomainPart'
<1> USE DomainAssumption, CheckoutAssumption
<1> DEFINE s == worker[w].s
<1>1. CASE UNCHANGED domain
  BY <1>1, DomainRests DEF QueuePaidDomain, domainVars
<1>2. CASE /\ s \in DomainSessions /\ domain[s] \in {"pending_payment", "pending_registration"}
           /\ domain' = [domain EXCEPT ![s] = "pending_registration"]
  <2>1. UNCHANGED <<zone, job, doomed, registrarCalls, status, payments>>
    BY DEF QueuePaidDomain, Queued, sessionVars, ledgerVars
  <2>2. registrarCalls[s] = 0 /\ job[s] \in {"none", "queued"}
    BY <1>2 DEF DomainPart, JobInv, DomainTyped
  <2>3. DomainTyped'
    BY <1>2, <2>1 DEF DomainPart, DomainTyped, DomainStatuses
  <2>4. RowInv'
    BY <1>2, <2>1 DEF DomainPart, RowInv, DomainTyped
  <2>5. NameInv'
    BY <1>2 DEF DomainPart, NameInv, DomainTyped
  <2>6. JobInv'
    BY <1>2, <2>1, <2>2 DEF DomainPart, JobInv, DomainTyped
  <2>7. BoughtInv'
    BY <1>2, <2>1, <2>2 DEF DomainPart, BoughtInv, DomainTyped
  <2> QED
    BY <2>3, <2>4, <2>5, <2>6, <2>7 DEF DomainPart
<1> QED
  BY <1>1, <1>2 DEF QueuePaidDomain, SetDomain

LEMMA DispatchKeeps ==
  ASSUME TypeOK, WorkerInv, DomainPart, DispatchInv, [Next]_checkoutVars,
         NEW w \in Workers, DispatchProvisioning(w)
  PROVE  DomainPart'
<1> USE DomainAssumption, CheckoutAssumption
<1> DEFINE s == worker[w].s
<1>1. s \in DomainSessions /\ TakenOver(s)
  BY DEF DispatchProvisioning, Dispatched, DispatchInv
<1>2. /\ job' = [job EXCEPT ![s] = IF job[s] = "none" THEN "queued" ELSE job[s]]
      /\ UNCHANGED <<domain, zone, doomed, registrarCalls, status, payments>>
  BY DEF DispatchProvisioning, Dispatched, SetJob, sessionVars, ledgerVars
<1> HIDE DEF s
<1>3. DomainTyped'
  BY <1>1, <1>2 DEF DomainPart, DomainTyped, JobStages
<1>4. RowInv' /\ NameInv'
  BY <1>2 DEF DomainPart, RowInv, NameInv
<1>5. JobInv'
  BY <1>1, <1>2 DEF DomainPart, JobInv, DomainTyped, TakenOver
<1>6. BoughtInv'
  BY <1>1, <1>2 DEF DomainPart, BoughtInv, DomainTyped
<1> QED
  BY <1>3, <1>4, <1>5, <1>6 DEF DomainPart

(* A row taken over for registration stays so, whoever starts a purchase. *)
LEMMA RowsAdvance ==
  ASSUME TypeOK, DomainPart, [DomainNext]_vars, NEW d \in DomainSessions, TakenOver(d)
  PROVE  TakenOver(d)'
<1> USE DomainAssumption, CheckoutAssumption DEF DomainPart, DomainTyped, TakenOver
<1>1. ASSUME NEW e \in DomainSessions, StartDomain(e)
  PROVE  TakenOver(d)'
  <2>1. d # e /\ d \notin SameName(e)
    BY <1>1 DEF StartDomain, Create, SameName, Abandoned, RowInv
  <2> QED
    BY <1>1, <2>1 DEF StartDomain
<1>2. ASSUME NEW s \in Sessions, CreatePlan(s)
  PROVE  TakenOver(d)'
  BY <1>2 DEF CreatePlan, domainVars
<1>3. ASSUME NEW w \in Workers, QueuePaidDomain(w)
  PROVE  TakenOver(d)'
  BY <1>3 DEF QueuePaidDomain, SetDomain
<1>4. ASSUME NEW w \in Workers, DispatchProvisioning(w)
  PROVE  TakenOver(d)'
  BY <1>4 DEF DispatchProvisioning
<1>5. ASSUME NEW e \in DomainSessions, JobStep(e) \/ JobFailed(e) \/ VerifyDns(e)
  PROVE  TakenOver(d)'
  BY <1>5 DEF JobStep, Claim, CallRegistrar, Registered, RegistrarFails, CreateZone,
     DelegationPending, DnsFails, Notify, JobDies, JobFailed, VerifyDns, SetDomain
<1>6. CASE UNCHANGED domainVars
  BY <1>6 DEF domainVars
<1> QED
  BY <1>1, <1>2, <1>3, <1>4, <1>5, <1>6 DEF DomainNext, vars

(* Only queuePaidDomainRegistrations() brings a worker to the dispatch. *)
Elsewhere == \E w \in Workers : \E t : Takes(w, t) /\ t.stage # "dispatch"

LEMMA WhoDispatches ==
  ASSUME [DomainNext]_vars
  PROVE  UNCHANGED worker \/ Elsewhere \/ \E w \in Workers : QueuePaidDomain(w)
<1>1. ASSUME NEW w \in Workers, NEW s, NEW ref, NEW hook,
             NEW stage \in Stages \ {"dispatch"}, Takes(w, Task(stage, s, ref, hook))
  PROVE  Elsewhere
  BY <1>1 DEF Elsewhere, Task
<1>2. ASSUME NEW w \in Workers, Ends(w)
  PROVE  Elsewhere
  BY <1>2 DEF Elsewhere, Ends, Idle
<1>3. ASSUME NEW w \in Workers, NEW stage \in Stages \ {"dispatch"}, Goes(w, stage)
  PROVE  Elsewhere
  BY <1>1, <1>3 DEF Goes
<1>4. /\ "initiate" \in Stages \ {"dispatch"} /\ "attach" \in Stages \ {"dispatch"}
      /\ "capture" \in Stages \ {"dispatch"} /\ "cancel" \in Stages \ {"dispatch"}
      /\ "reconcile" \in Stages \ {"dispatch"} /\ "markPaid" \in Stages \ {"dispatch"}
      /\ "queue" \in Stages \ {"dispatch"} /\ "processed" \in Stages \ {"dispatch"}
  BY DEF Stages
<1>5. ASSUME NEW s \in Sessions, Create(s) \/ SessionStep(s)
  PROVE  UNCHANGED worker
  BY <1>5 DEF Create, SessionStep, Lapse, InitiationAges, StartExpired, BuyerApproves
<1>6. ASSUME NEW w \in Workers, NEW s \in Sessions, RequestStep(w, s)
  PROVE  Elsewhere
  BY <1>1, <1>4, <1>6 DEF RequestStep, StartPayment, Complete, CancelRead, ReconcileRead, Webhook
<1>7. ASSUME NEW w \in Workers, WorkerStep(w)
  PROVE  Elsewhere
  BY <1>2, <1>3, <1>4, <1>7 DEF WorkerStep, Initiate, InitiateFails, Attach, Capture, CancelWrite,
     ReconcileExpires, ReconcileAsks, MarkPaid, WebhookProcessed, Dies
<1>8. ASSUME NEW w \in Workers, DispatchProvisioning(w)
  PROVE  Elsewhere
  BY <1>2, <1>3, <1>4, <1>8, Zenon DEF DispatchProvisioning, Dispatched, Returns
<1>9. ASSUME NEW d \in DomainSessions,
             StartDomain(d) \/ JobStep(d) \/ JobFailed(d) \/ VerifyDns(d)
  PROVE  UNCHANGED worker
  BY <1>9 DEF StartDomain, Create, JobStep, Claim, CallRegistrar, Registered, RegistrarFails,
     CreateZone, DelegationPending, DnsFails, Notify, JobDies, JobFailed, VerifyDns, checkoutVars
<1>10. ASSUME NEW s \in Sessions, CreatePlan(s)
  PROVE  UNCHANGED worker
  BY <1>10 DEF CreatePlan, Create
<1>11. CASE UNCHANGED vars
  BY <1>11 DEF vars, checkoutVars
<1> HIDE DEF Elsewhere
<1> QED
  BY <1>5, <1>6, <1>7, <1>8, <1>9, <1>10, <1>11 DEF DomainNext, CheckoutStep

LEMMA DispatchStepInv ==
  ASSUME TypeOK, DomainPart, DispatchInv, [DomainNext]_vars
  PROVE  DispatchInv'
<1> SUFFICES ASSUME NEW v \in Workers, worker'[v].stage = "dispatch"
             PROVE  worker'[v].s \in DomainSessions /\ TakenOver(worker[v].s)'
  BY DEF DispatchInv, At
<1>1. CASE worker'[v] = worker[v]
  BY <1>1, RowsAdvance DEF DispatchInv, At
<1>2. CASE Elsewhere
  <2>1. PICK w \in Workers : \E t : Takes(w, t) /\ t.stage # "dispatch"
    BY <1>2 DEF Elsewhere
  <2> QED
    BY <1>1, <2>1 DEF Takes, TypeOK
<1>3. ASSUME NEW w \in Workers, QueuePaidDomain(w), worker'[v] # worker[v]
  PROVE  worker'[v].s \in DomainSessions /\ TakenOver(worker[v].s)'
  <2> DEFINE s == worker[w].s
  <2>1. \/ /\ s \in DomainSessions /\ domain' = [domain EXCEPT ![s] = "pending_registration"]
           /\ Goes(w, "dispatch")
        \/ Goes(w, "processed") \/ Ends(w)
    BY <1>3, Zenon DEF QueuePaidDomain, SetDomain, Returns
  <2>2. v = w
    BY <1>3, <2>1 DEF Goes, Ends, Takes, TypeOK
  <2>3. CASE Goes(w, "processed") \/ Ends(w)
    BY <2>2, <2>3 DEF Goes, Ends, Takes, TypeOK, Task, Idle
  <2>4. CASE /\ s \in DomainSessions /\ domain' = [domain EXCEPT ![s] = "pending_registration"]
             /\ Goes(w, "dispatch")
    <3>1. worker'[v].s = s
      BY <2>2, <2>4 DEF Goes, Takes, TypeOK, Task
    <3>2. domain'[s] = "pending_registration"
      BY <2>4 DEF DomainPart, DomainTyped
    <3> HIDE DEF s
    <3> QED
      BY <2>4, <3>1, <3>2 DEF TakenOver
  <2> QED
    BY <2>1, <2>3, <2>4
<1> QED
  BY <1>1, <1>2, <1>3, WhoDispatches

(* The job and the DNS verification leave the checkout alone. *)
LEMMA JobKeeps ==
  ASSUME TypeOK, PaidInv, DomainPart, NEW d \in DomainSessions, JobStep(d) \/ JobFailed(d) \/ VerifyDns(d)
  PROVE  DomainPart'
<1> USE DomainAssumption, CheckoutAssumption
<1>1. UNCHANGED <<status, payments>>
  BY DEF JobStep, Claim, CallRegistrar, Registered, RegistrarFails, CreateZone, DelegationPending,
     DnsFails, Notify, JobDies, JobFailed, VerifyDns, checkoutVars, sessionVars, ledgerVars
<1> USE <1>1 DEF DomainPart, DomainTyped, RowInv, NameInv, JobInv, BoughtInv, DomainStatuses,
        JobStages, SetDomain, SetJob
<1>2. CASE Claim(d)
  <2>1. CASE MayClaim(d)
    <3>1. d \in Sessions /\ \E ref \in Refs : <<d, ref>> \in payments
      BY <2>1 DEF MayClaim, PaidInv
    <3>2. /\ domain' = [domain EXCEPT ![d] = "registering"]
          /\ job' = [job EXCEPT ![d] = "register"]
          /\ UNCHANGED <<zone, doomed, registrarCalls>>
      BY <1>2, <2>1 DEF Claim
    <3>3. domain[d] = "pending_registration" /\ registrarCalls[d] = 0 /\ status[d] = "paid"
      BY <2>1 DEF MayClaim
    <3>4. DomainTyped' /\ RowInv'
      BY <3>2, <3>3
    <3>5. NameInv'
      BY <3>2, <3>3
    <3>6. JobInv'
      BY <3>2, <3>3
    <3>7. BoughtInv'
      BY <3>1, <3>2
    <3> QED
      BY <3>4, <3>5, <3>6, <3>7
  <2>2. CASE ~MayClaim(d)
    <3>1. /\ job' = [job EXCEPT ![d] = "none"]
          /\ UNCHANGED <<domain, zone, doomed, registrarCalls>>
      BY <1>2, <2>2 DEF Claim
    <3>2. DomainTyped' /\ RowInv'
      BY <3>1
    <3>3. NameInv'
      BY <3>1
    <3>4. JobInv'
      BY <3>1
    <3>5. BoughtInv'
      BY <3>1
    <3> QED
      BY <3>2, <3>3, <3>4, <3>5
  <2> QED
    BY <2>1, <2>2
<1>3. CASE CallRegistrar(d)
  <2>1. DomainTyped' /\ RowInv'
    BY <1>3 DEF CallRegistrar
  <2>2. NameInv'
    BY <1>3 DEF CallRegistrar
  <2>3. JobInv'
    BY <1>3 DEF CallRegistrar
  <2>4. BoughtInv'
    BY <1>3 DEF CallRegistrar
  <2> QED
    BY <2>1, <2>2, <2>3, <2>4
<1>4. CASE Registered(d)
  <2>1. DomainTyped' /\ RowInv'
    BY <1>4 DEF Registered
  <2>2. NameInv'
    BY <1>4 DEF Registered
  <2>3. JobInv'
    BY <1>4 DEF Registered
  <2>4. BoughtInv'
    BY <1>4 DEF Registered
  <2> QED
    BY <2>1, <2>2, <2>3, <2>4
<1>5. CASE RegistrarFails(d)
  <2>1. DomainTyped' /\ RowInv'
    BY <1>5 DEF RegistrarFails
  <2>2. NameInv'
    BY <1>5 DEF RegistrarFails
  <2>3. JobInv'
    BY <1>5 DEF RegistrarFails
  <2>4. BoughtInv'
    BY <1>5 DEF RegistrarFails
  <2> QED
    BY <2>1, <2>2, <2>3, <2>4
<1>6. CASE CreateZone(d)
  <2>1. DomainTyped' /\ RowInv'
    BY <1>6 DEF CreateZone
  <2>2. NameInv'
    BY <1>6 DEF CreateZone
  <2>3. JobInv'
    BY <1>6 DEF CreateZone
  <2>4. BoughtInv'
    BY <1>6 DEF CreateZone
  <2> QED
    BY <2>1, <2>2, <2>3, <2>4
<1>7. CASE DelegationPending(d)
  <2>1. DomainTyped' /\ RowInv'
    BY <1>7 DEF DelegationPending
  <2>2. NameInv'
    BY <1>7 DEF DelegationPending
  <2>3. JobInv'
    BY <1>7 DEF DelegationPending
  <2>4. BoughtInv'
    BY <1>7 DEF DelegationPending
  <2> QED
    BY <2>1, <2>2, <2>3, <2>4
<1>8. CASE Notify(d)
  <2>1. DomainTyped' /\ RowInv'
    BY <1>8 DEF Notify
  <2>2. NameInv'
    BY <1>8 DEF Notify
  <2>3. JobInv'
    BY <1>8 DEF Notify
  <2>4. BoughtInv'
    BY <1>8 DEF Notify
  <2> QED
    BY <2>1, <2>2, <2>3, <2>4
<1>9. CASE JobDies(d)
  <2>1. DomainTyped' /\ RowInv'
    BY <1>9 DEF JobDies
  <2>2. NameInv'
    BY <1>9 DEF JobDies
  <2>3. JobInv'
    BY <1>9 DEF JobDies
  <2>4. BoughtInv'
    BY <1>9 DEF JobDies
  <2> QED
    BY <2>1, <2>2, <2>3, <2>4
<1>10. CASE JobFailed(d)
  <2>1. DomainTyped' /\ RowInv'
    BY <1>10 DEF JobFailed
  <2>2. NameInv'
    BY <1>10 DEF JobFailed
  <2>3. JobInv'
    BY <1>10 DEF JobFailed
  <2>4. BoughtInv'
    BY <1>10 DEF JobFailed
  <2> QED
    BY <2>1, <2>2, <2>3, <2>4
<1>11. CASE VerifyDns(d)
  <2>1. DomainTyped' /\ RowInv'
    BY <1>11 DEF VerifyDns
  <2>2. NameInv'
    BY <1>11 DEF VerifyDns
  <2>3. JobInv'
    BY <1>11 DEF VerifyDns
  <2>4. BoughtInv'
    BY <1>11 DEF VerifyDns
  <2> QED
    BY <2>1, <2>2, <2>3, <2>4
<1>12. CASE DnsFails(d)
  <2>1. DomainTyped' /\ RowInv'
    BY <1>12 DEF DnsFails
  <2>2. NameInv'
    BY <1>12 DEF DnsFails
  <2>3. JobInv'
    BY <1>12 DEF DnsFails
  <2>4. BoughtInv'
    BY <1>12 DEF DnsFails
  <2> QED
    BY <2>1, <2>2, <2>3, <2>4
<1> QED
  BY <1>2, <1>3, <1>4, <1>5, <1>6, <1>7, <1>8, <1>9, <1>10, <1>11, <1>12 DEF JobStep

LEMMA DomainInductive ==
  ASSUME DomainIInv, [DomainNext]_vars
  PROVE  DomainIInv'
<1>1. [Next]_checkoutVars
  BY DomainStepIsCheckoutStep
<1>2. IInv' /\ PaidInv'
  BY <1>1, Inductive, PaidStepInv DEF DomainIInv, IInv
<1>3. TypeOK /\ WorkerInv /\ PaidInv /\ DispatchInv /\ DomainPart
  BY DEF DomainIInv, IInv, DomainPart
<1>5. DispatchInv'
  BY <1>3, DispatchStepInv
<1>4. DomainPart'
  <2>1. ASSUME NEW d \in DomainSessions, StartDomain(d)
    PROVE  DomainPart'
    BY <1>1, <1>3, <2>1, StartDomainKeeps
  <2>2. ASSUME NEW s \in Sessions, CreatePlan(s)
    PROVE  DomainPart'
    BY <1>1, <1>3, <2>2, DomainRests DEF CreatePlan
  <2>3. ASSUME NEW w \in Workers, QueuePaidDomain(w)
    PROVE  DomainPart'
    BY <1>1, <1>3, <2>3, QueuePaidDomainKeeps
  <2>6. ASSUME NEW w \in Workers, DispatchProvisioning(w)
    PROVE  DomainPart'
    BY <1>1, <1>3, <2>6, DispatchKeeps
  <2>4. ASSUME NEW d \in DomainSessions, JobStep(d) \/ JobFailed(d) \/ VerifyDns(d)
    PROVE  DomainPart'
    BY <1>3, <2>4, JobKeeps
  <2>5. CASE UNCHANGED domainVars
    BY <1>1, <1>3, <2>5, DomainRests
  <2> QED
    BY <2>1, <2>2, <2>3, <2>4, <2>5, <2>6 DEF DomainNext, vars
<1> QED
  BY <1>2, <1>4, <1>5 DEF DomainIInv, DomainPart

LEMMA DomainInitial ==
  ASSUME DomainInit
  PROVE  DomainIInv
<1>1. IInv
  BY Initial DEF DomainInit
<1>2. PaidInv
  BY DEF DomainInit, Init, PaidInv
<1>3. DomainPart
  BY DEF DomainInit, DomainPart, DomainTyped, RowInv, NameInv, JobInv, BoughtInv,
     DomainStatuses, JobStages
<1>4. DispatchInv
  BY DEF DomainInit, Init, DispatchInv, At, Idle
<1> QED
  BY <1>1, <1>2, <1>3, <1>4 DEF DomainIInv, DomainPart

(* What DomainCheckoutService and the jobs know of each other holds in every *)
(* state: who is in charge of a row, what was paid for it, what was bought.  *)
THEOREM DomainInvariant == DomainSpec => []DomainIInv
  BY DomainInitial, DomainInductive, PTL DEF DomainSpec

(* Domain rows, zones and the stages of ProvisionDomainJob keep to their     *)
(* vocabularies, beside those of the checkout.                               *)
THEOREM DomainTypeCorrect == DomainSpec => []DomainTypeOK
<1>1. DomainIInv => DomainTypeOK
  <2> SUFFICES ASSUME DomainIInv PROVE DomainTypeOK
    OBVIOUS
  <2>1. registrarCalls \in [DomainSessions -> Nat]
    BY DEF DomainIInv, DomainTyped
  <2> QED
    BY <2>1 DEF DomainIInv, DomainTyped, DomainTypeOK, IInv
<1> QED
  BY DomainInvariant, <1>1, PTL

(* ProvisionDomainJob asks the registrar for a name at most once, however    *)
(* many sessions want the name and whatever crashes or is redelivered.       *)
THEOREM BoughtOnce == DomainSpec => []RegistrarCalledOnce
<1>1. DomainIInv => RegistrarCalledOnce
  <2> SUFFICES ASSUME DomainIInv PROVE RegistrarCalledOnce
    OBVIOUS
  <2>1. \A d \in DomainSessions : registrarCalls[d] \in {0, 1}
    BY DEF DomainIInv, DomainTyped
  <2>2. \A d \in DomainSessions : registrarCalls[d] = 1 => domain[d] # "none"
    BY DEF DomainIInv, JobInv
  <2> QED
    BY <2>1, <2>2 DEF RegistrarCalledOnce, DomainIInv, NameInv
<1> QED
  BY DomainInvariant, <1>1, PTL

(* Nothing is bought from the registrar before the money for it is captured  *)
(* and recorded.                                                             *)
THEOREM PaidBeforeBought == DomainSpec => []BoughtOnlyWhenPaid
<1>1. DomainIInv => BoughtOnlyWhenPaid
  <2> SUFFICES ASSUME DomainIInv, NEW d \in DomainSessions, registrarCalls[d] > 0
               PROVE  order[d] = "captured" /\ OrdersOf(d) # {}
    BY DEF BoughtOnlyWhenPaid
  <2>1. registrarCalls[d] = 1
    BY DEF DomainIInv, DomainTyped
  <2>2. PICK ref \in Refs : <<d, ref>> \in payments
    BY <2>1 DEF DomainIInv, BoughtInv
  <2>3. d \in Sessions
    BY DomainAssumption, CheckoutAssumption
  <2>4. order[d] = "captured"
    BY <2>2, <2>3 DEF DomainIInv, IInv, PaymentInv
  <2>5. <<d, ref>>[1] = d
    OBVIOUS
  <2> QED
    BY <2>2, <2>4, <2>5 DEF OrdersOf
<1> QED
  BY DomainInvariant, <1>1, PTL

-----------------------------------------------------------------------------
(* The purchase as a ledger.                                               *)

LedgerStep == [Ledger!Next]_<<CapturedSessions, payments, registrarCalls>>

(* Which action writes the history of the registrar's calls. *)
LEMMA WhoBuys ==
  ASSUME [DomainNext]_vars
  PROVE  UNCHANGED registrarCalls \/ \E d \in DomainSessions : CallRegistrar(d)
<1>1. ASSUME NEW d \in DomainSessions, StartDomain(d) \/ JobFailed(d) \/ VerifyDns(d)
  PROVE  UNCHANGED registrarCalls
  BY <1>1 DEF StartDomain, JobFailed, VerifyDns
<1>2. ASSUME NEW s \in Sessions, CreatePlan(s)
  PROVE  UNCHANGED registrarCalls
  BY <1>2 DEF CreatePlan, domainVars
<1>3. ASSUME NEW w \in Workers, QueuePaidDomain(w) \/ DispatchProvisioning(w)
  PROVE  UNCHANGED registrarCalls
  BY <1>3 DEF QueuePaidDomain, DispatchProvisioning
<1>4. ASSUME NEW d \in DomainSessions, JobStep(d)
  PROVE  UNCHANGED registrarCalls \/ CallRegistrar(d)
  BY <1>4 DEF JobStep, Claim, Registered, RegistrarFails, CreateZone, DelegationPending,
     DnsFails, Notify, JobDies
<1>5. CASE UNCHANGED domainVars
  BY <1>5 DEF domainVars
<1> QED
  BY <1>1, <1>2, <1>3, <1>4, <1>5 DEF DomainNext, vars

(* The registrar is called for a paid name that nobody has bought: a session *)
(* that bought it still holds the row, and so does the one about to buy.     *)
LEMMA CallIsBuy ==
  ASSUME DomainIInv, NEW d \in DomainSessions, CallRegistrar(d)
  PROVE  Ledger!Buy(d)
<1>1. job[d] = "register" /\ UNCHANGED checkoutVars
  BY DEF CallRegistrar
<1>2. Ledger!Ordered(d)
  BY <1>1 DEF DomainIInv, BoughtInv, Ledger!Ordered
<1>3. registrarCalls[d] = 0 /\ domain[d] # "none"
  BY <1>1 DEF DomainIInv, JobInv
<1>4. ASSUME NEW e \in DomainSessions, NameOf[e] = NameOf[d]
  PROVE  registrarCalls[e] = 0
  <2>1. registrarCalls[e] \in {0, 1}
    BY DEF DomainIInv, DomainTyped
  <2>2. registrarCalls[e] = 1 => domain[e] # "none"
    BY DEF DomainIInv, JobInv
  <2> QED
    BY <1>3, <1>4, <2>1, <2>2 DEF DomainIInv, NameInv
<1>5. registrarCalls' = [registrarCalls EXCEPT ![d] = 1]
  BY <1>3 DEF CallRegistrar
<1>6. UNCHANGED <<CapturedSessions, payments>>
  BY <1>1 DEF checkoutVars, ledgerVars, providerVars, CapturedSessions
<1> QED
  BY <1>2, <1>4, <1>5, <1>6 DEF Ledger!Buy

(* What markPaid() records is the first order of a captured session. *)
LEMMA MarkPaidIsOrder ==
  ASSUME IInv, UNCHANGED registrarCalls, ~UNCHANGED payments,
         NEW w \in Workers, MarkPaid(w)
  PROVE  worker[w].s \in Sessions /\ worker[w].ref \in Refs
         /\ Ledger!Order(worker[w].s, worker[w].ref)
<1> DEFINE s == worker[w].s
           ref == worker[w].ref
<1>1. /\ s \in Sessions /\ ref \in RefsOf[s] /\ ref \in Refs /\ order[s] = "captured"
      /\ status[s] # "paid" /\ <<s, ref>> \notin payments
      /\ payments' = payments \cup {<<s, ref>>}
  BY MarkPaidRecords DEF IInv
<1>2. UNCHANGED CapturedSessions
  BY DEF MarkPaid, providerVars, CapturedSessions
<1> HIDE DEF s, ref
<1>3. \A other \in Refs : <<s, other>> \notin payments
  BY <1>1, CheckoutAssumption DEF IInv, PaymentInv
<1>4. s \in CapturedSessions
  BY <1>1 DEF CapturedSessions
<1>5. Ledger!Order(s, ref)
  BY <1>1, <1>2, <1>3, <1>4 DEF Ledger!Order, Ledger!Ordered
<1> QED
  BY <1>1, <1>5 DEF s, ref

(* The provider captures one session at a time, and creates or approves an   *)
(* order without capturing it.                                               *)
LEMMA ProviderCaptures ==
  ASSUME IInv, [Next]_checkoutVars, UNCHANGED <<payments, registrarCalls>>
  PROVE  UNCHANGED CapturedSessions \/ \E s \in Sessions : Ledger!Capture(s)
<1>1. ASSUME NEW s \in Sessions, order' = [order EXCEPT ![s] = "captured"]
  PROVE  UNCHANGED CapturedSessions \/ Ledger!Capture(s)
  <2>1. \A t \in Sessions : order'[t] = IF t = s THEN "captured" ELSE order[t]
    BY <1>1 DEF IInv, TypeOK
  <2>2. CapturedSessions' = CapturedSessions \cup {s}
    BY <2>1 DEF CapturedSessions
  <2> QED
    BY <2>2 DEF Ledger!Capture
<1>2. ASSUME NEW s \in Sessions, NEW to \in {"created", "approved"},
             order[s] # "captured", order' = [order EXCEPT ![s] = to]
  PROVE  UNCHANGED CapturedSessions
  BY <1>2 DEF IInv, TypeOK, CapturedSessions
<1>3. CASE UNCHANGED order
  BY <1>3 DEF CapturedSessions
<1>4. ASSUME NEW s \in Sessions, BuyerApproves(s)
  PROVE  UNCHANGED CapturedSessions \/ Ledger!Capture(s)
  BY <1>1, <1>2, <1>4 DEF BuyerApproves
<1>5. ASSUME NEW w \in Workers, Initiate(w) \/ Capture(w)
  PROVE  worker[w].s \in Sessions
  BY <1>5 DEF IInv, WorkerInv, TaskOK, Initiate, Capture, At
<1>6. ASSUME NEW w \in Workers, Initiate(w)
  PROVE  UNCHANGED CapturedSessions
  <2>1. \A t \in Sessions : order'[t] = "captured" <=> order[t] = "captured"
    BY <1>5, <1>6 DEF Initiate, IInv, TypeOK
  <2> QED
    BY <2>1 DEF CapturedSessions
<1>7. ASSUME NEW w \in Workers, Capture(w)
  PROVE  UNCHANGED CapturedSessions \/ Ledger!Capture(worker[w].s)
  BY <1>1, <1>5, <1>7 DEF Capture
<1> QED
  BY <1>3, <1>4, <1>5, <1>6, <1>7, WhoOrders

LEMMA LedgerStepTaken ==
  ASSUME DomainIInv, [DomainNext]_vars
  PROVE  LedgerStep
<1>1. IInv /\ [Next]_checkoutVars
  BY DomainStepIsCheckoutStep DEF DomainIInv
<1>2. ASSUME NEW d \in DomainSessions, CallRegistrar(d)
  PROVE  LedgerStep
  BY <1>2, CallIsBuy DEF LedgerStep, Ledger!Next
<1>3. CASE UNCHANGED registrarCalls /\ ~UNCHANGED payments
  <2>1. PICK w \in Workers : MarkPaid(w)
    BY <1>1, <1>3, WhoPays DEF ledgerVars
  <2> QED
    BY <1>1, <1>3, <2>1, MarkPaidIsOrder DEF LedgerStep, Ledger!Next
<1>4. CASE UNCHANGED registrarCalls /\ UNCHANGED payments
  BY <1>1, <1>4, ProviderCaptures DEF LedgerStep, Ledger!Next
<1> QED
  BY <1>2, <1>3, <1>4, WhoBuys

(* Checkout and provisioning together implement PurchaseLedger: whatever is  *)
(* retried, redelivered, cancelled, expired or lost, each step of            *)
(* captureOrder(), markPaid() and ProvisionDomainJob captures money, turns   *)
(* captured money into its session's only order, or buys a name nobody       *)
(* bought for an order that exists, and no step takes any of it back.        *)
THEOREM PurchaseIsALedger == DomainSpec => ImplementsLedger
<1>1. DomainInit => Ledger!Init
  BY DEF DomainInit, Init, Ledger!Init, CapturedSessions
<1>2. DomainIInv /\ [DomainNext]_vars
        => [Ledger!Next]_<<CapturedSessions, payments, registrarCalls>>
  BY LedgerStepTaken DEF LedgerStep
<1> QED
  BY <1>1, <1>2, DomainInvariant, PTL DEF DomainSpec, ImplementsLedger, Ledger!Spec
=============================================================================
