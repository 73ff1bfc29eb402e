--------------------------- MODULE DomainPurchase ---------------------------
(***************************************************************************)
(* Domain purchases: app/Services/OnePloy/DomainCheckoutService and the    *)
(* jobs ProvisionDomainJob, VerifyDomainDnsJob and                         *)
(* ReconcilePendingDomainDnsJob, composed with the checkout that pays for  *)
(* them (Checkout).  A domain row belongs to exactly one checkout session, *)
(* so it is identified by that session; the name column is unique.         *)
(*                                                                         *)
(* The provisioning job has one attempt.  When its worker dies, its unique *)
(* lock ends after ten minutes, so the job may be dispatched again; only   *)
(* later does the queue find the first one lost and call failed(), which   *)
(* writes manual_review whatever the row says by then.                     *)
(***************************************************************************)
EXTENDS Checkout

CONSTANTS
  DomainSessions,    \* the sessions that buy a domain, all through PayPal
  Names, NameOf      \* domain names; the name a session buys

ASSUME DomainAssumption ==
  /\ DomainSessions \subseteq PayPalSessions
  /\ DomainSessions \cap PlanSessions = {}
  /\ NameOf \in [DomainSessions -> Names]

VARIABLES
  domain,         \* [DomainSessions -> the row's status, or "none"]
  zone,           \* [DomainSessions -> its DNS zone's status, or "none"]
  job,            \* [DomainSessions -> where its provisioning job stands]
  doomed,         \* [DomainSessions -> BOOLEAN]: failed() is still to come
  registrarCalls  \* history: [DomainSessions -> register() calls made]

domainVars == <<domain, zone, job, doomed, registrarCalls>>
vars == <<checkoutVars, domainVars>>

DomainStatuses == {"none", "pending_payment", "pending_registration", "registering",
                   "registered", "dns_pending", "active", "manual_review"}
JobStages == {"none", "queued", "register", "called", "dns", "zoned", "notify"}

DomainTypeOK ==
  /\ TypeOK
  /\ domain \in [DomainSessions -> DomainStatuses]
  /\ zone \in [DomainSessions -> {"none", "pending_delegation", "active"}]
  /\ job \in [DomainSessions -> JobStages]
  /\ doomed \in [DomainSessions -> BOOLEAN]
  /\ registrarCalls \in [DomainSessions -> Nat]

-----------------------------------------------------------------------------
SetDomain(d, to) == domain' = [domain EXCEPT ![d] = to]
SetJob(d, to) == job' = [job EXCEPT ![d] = to]

SameName(d) == {e \in DomainSessions \ {d} : NameOf[e] = NameOf[d] /\ domain[e] # "none"}

\* Mutant: any lapsed row gives way, however far its purchase got.
LapsedRow(e) == lapsed[e]

\* A row that start() deletes to make way: unpaid as far as the row says.
Abandoned(e) == domain[e] = "pending_payment" /\ lapsed[e]

DomainInit ==
  /\ Init
  /\ domain = [d \in DomainSessions |-> "none"]
  /\ zone = [d \in DomainSessions |-> "none"]
  /\ job = [d \in DomainSessions |-> "none"]
  /\ doomed = [d \in DomainSessions |-> FALSE]
  /\ registrarCalls = [d \in DomainSessions |-> 0]

(* DomainCheckoutService::start() with a new session.  Resuming an open one  *)
(* changes nothing here: it is StartPayment again.                           *)
StartDomain(d) ==
  /\ Create(d)
  /\ \A e \in SameName(d) : Abandoned(e)
  /\ domain' = [e \in DomainSessions |->
                  IF e = d THEN "pending_payment"
                  ELSE IF e \in SameName(d) THEN "none" ELSE domain[e]]
  /\ UNCHANGED <<zone, job, doomed, registrarCalls>>

CreatePlan(s) == s \notin DomainSessions /\ Create(s) /\ UNCHANGED domainVars

(* queuePaidDomainRegistrations(), its transaction, after markPaid()         *)
(* committed.                                                                *)
QueuePaidDomain(w) ==
  LET s == worker[w].s IN
  /\ Queued(w)
  /\ IF s \in DomainSessions /\ domain[s] \in {"pending_payment", "pending_registration"}
     THEN SetDomain(s, "pending_registration") /\ Goes(w, "dispatch")
     ELSE UNCHANGED domain /\ Returns(w)
  /\ UNCHANGED <<zone, job, doomed, registrarCalls>>

(* The dispatch after its commit, whatever became of the row meanwhile.  A   *)
(* job whose unique lock is held is not dispatched again.                    *)
DispatchProvisioning(w) ==
  LET s == worker[w].s IN
  /\ Dispatched(w)
  /\ SetJob(s, IF job[s] = "none" THEN "queued" ELSE job[s])
  /\ UNCHANGED <<domain, zone, doomed, registrarCalls>>

-----------------------------------------------------------------------------
\* Only a paid, not yet started registration is claimed.
MayClaim(d) == domain[d] = "pending_registration" /\ status[d] = "paid"

(* ProvisionDomainJob, its first transaction. *)
Claim(d) ==
  /\ job[d] = "queued"
  /\ IF MayClaim(d)
     THEN SetDomain(d, "registering") /\ SetJob(d, "register")
     ELSE UNCHANGED domain /\ SetJob(d, "none")
  /\ UNCHANGED <<zone, doomed, registrarCalls, checkoutVars>>

(* The call to the registrar leaves; the answer is not known yet. *)
CallRegistrar(d) ==
  /\ job[d] = "register"
  /\ registrarCalls' = [registrarCalls EXCEPT ![d] = @ + 1]
  /\ SetJob(d, "called")
  /\ UNCHANGED <<domain, zone, doomed, checkoutVars>>

Registered(d) ==
  /\ job[d] = "called"
  /\ SetDomain(d, "registered") /\ SetJob(d, "dns")
  /\ UNCHANGED <<zone, doomed, registrarCalls, checkoutVars>>

\* Mutant: a purchase without an answer is tried again.
RegistrarFailsRetried(d) ==
  /\ job[d] = "called"
  /\ SetDomain(d, "pending_registration") /\ SetJob(d, "queued")
  /\ UNCHANGED <<zone, doomed, registrarCalls, checkoutVars>>

(* An error answer, or none in time: nobody knows whether it was bought. *)
RegistrarFails(d) ==
  /\ job[d] = "called"
  /\ SetDomain(d, "manual_review") /\ SetJob(d, "none")
  /\ UNCHANGED <<zone, doomed, registrarCalls, checkoutVars>>

(* ensureZone() succeeded and the zone row is written, then the domain's. *)
CreateZone(d) ==
  /\ job[d] = "dns"
  /\ zone' = [zone EXCEPT ![d] = "pending_delegation"]
  /\ SetJob(d, "zoned")
  /\ UNCHANGED <<domain, doomed, registrarCalls, checkoutVars>>

DelegationPending(d) ==
  /\ job[d] = "zoned"
  /\ SetDomain(d, "dns_pending") /\ SetJob(d, "notify")
  /\ UNCHANGED <<zone, doomed, registrarCalls, checkoutVars>>

(* No PowerDNS, or it or a write fails: the row stays registered, annotated. *)
DnsFails(d) ==
  /\ job[d] \in {"dns", "zoned"}
  /\ SetJob(d, "notify")
  /\ UNCHANGED <<domain, zone, doomed, registrarCalls, checkoutVars>>

Notify(d) ==
  /\ job[d] = "notify"
  /\ SetJob(d, "none")
  /\ UNCHANGED <<domain, zone, doomed, registrarCalls, checkoutVars>>

(* The job's worker dies or throws; sooner or later failed() is called. *)
JobDies(d) ==
  /\ job[d] # "none"
  /\ SetJob(d, "none")
  /\ doomed' = [doomed EXCEPT ![d] = TRUE]
  /\ UNCHANGED <<domain, zone, registrarCalls, checkoutVars>>

JobFailed(d) ==
  /\ doomed[d]
  /\ SetDomain(d, "manual_review")
  /\ doomed' = [doomed EXCEPT ![d] = FALSE]
  /\ UNCHANGED <<zone, job, registrarCalls, checkoutVars>>

(* VerifyDomainDnsJob, dispatched by the provisioning job and again by the   *)
(* reconciliation: the row is read again under a lock before it is written.  *)
VerifyDns(d) ==
  /\ domain[d] = "dns_pending" /\ zone[d] # "none"
  /\ zone' = [zone EXCEPT ![d] = "active"]
  /\ SetDomain(d, "active")
  /\ UNCHANGED <<job, doomed, registrarCalls, checkoutVars>>

-----------------------------------------------------------------------------
JobStep(d) ==
  \/ Claim(d) \/ CallRegistrar(d) \/ Registered(d) \/ RegistrarFails(d)
  \/ CreateZone(d) \/ DelegationPending(d) \/ DnsFails(d) \/ Notify(d) \/ JobDies(d)

DomainNext ==
  \/ \E d \in DomainSessions : StartDomain(d)
  \/ \E s \in Sessions : CreatePlan(s)
  \/ \E w \in Workers : QueuePaidDomain(w) \/ DispatchProvisioning(w)
  \/ \E d \in DomainSessions : JobStep(d) \/ JobFailed(d)
  \/ \E d \in DomainSessions : VerifyDns(d)
  \/ CheckoutStep /\ UNCHANGED domainVars

DomainSpec == DomainInit /\ [][DomainNext]_vars

Delivering(s) == {w \in Workers : worker[w].hook /\ worker[w].s = s}

(* Workers and jobs go on or die, events are delivered until processed, and  *)
(* not every delivery of an event meets a crash at the same place.           *)
LiveDomainSpec ==
  /\ DomainSpec
  /\ \A w \in Workers :
       WF_vars(\/ WorkerStep(w) /\ UNCHANGED domainVars
               \/ QueuePaidDomain(w) \/ DispatchProvisioning(w))
  /\ \A s \in PayingSessions :
       /\ SF_vars(\E w \in Delivering(s) : MarkPaid(w) /\ UNCHANGED domainVars)
       /\ SF_vars(\E w \in Delivering(s) : QueuePaidDomain(w))
       /\ SF_vars(\E w \in Delivering(s) : DispatchProvisioning(w))
       /\ \A ref \in RefsOf[s] :
            SF_vars((\E w \in Workers : Webhook(w, s, ref)) /\ UNCHANGED domainVars)
  /\ \A d \in DomainSessions : WF_vars(JobStep(d)) /\ WF_vars(JobFailed(d))

-----------------------------------------------------------------------------
(* The registrar is asked to buy a name at most once, whatever is retried,   *)
(* redelivered, crashes or is bought again by somebody else (ROADMAP:        *)
(* non-retrying manual-review safety for uncertain purchases, globally       *)
(* unique reservations).                                                     *)
RegistrarCalledOnce ==
  /\ \A d \in DomainSessions : registrarCalls[d] <= 1
  /\ \A d, e \in DomainSessions :
       registrarCalls[d] > 0 /\ registrarCalls[e] > 0 /\ NameOf[d] = NameOf[e] => d = e

(* Nothing is bought from the registrar before the money for it is captured  *)
(* and recorded (PLATFORM-V1: provisioning begins only from authoritative    *)
(* payment state).                                                           *)
BoughtOnlyWhenPaid ==
  \A d \in DomainSessions :
    registrarCalls[d] > 0 => order[d] = "captured" /\ OrdersOf(d) # {}

CapturedSessions == {s \in Sessions : order[s] = "captured"}

Ledger == INSTANCE PurchaseLedger WITH
            captured <- CapturedSessions, orders <- payments, calls <- registrarCalls

(* Checkout and domain jobs together keep the ledger of PurchaseLedger: each *)
(* step of a worker, the provider or a job captures, records or buys one     *)
(* thing in that order, or leaves all three as they are (markPaid,           *)
(* ProvisionDomainJob, captureOrder).                                        *)
ImplementsLedger == Ledger!Spec

\* The row of d was deleted for another session that wants the name.
GaveWay(d) ==
  /\ lapsed[d] /\ domain[d] = "none"
  /\ \E e \in DomainSessions \ {d} : NameOf[e] = NameOf[d] /\ status[e] # "absent"

Resolved(d) == domain[d] \in {"registered", "dns_pending", "active", "manual_review"}

(* A paid domain is registered or put up for review in the end, whatever     *)
(* dies on the way, with two exceptions: a cancellation or an expiry that    *)
(* read the session before the payment overwrites "paid", or another buyer   *)
(* of the name got the row deleted after the session lapsed (webhook         *)
(* redelivery, queuePaidDomainRegistrations, ProvisionDomainJob, start).     *)
UndisturbedDomainResolves ==
  \A d \in DomainSessions :
    (OrdersOf(d) # {}) ~> (Resolved(d) \/ status[d] # "paid" \/ GaveWay(d))

(* The same without exceptions (PLATFORM-V1: a registration failure after *)
(* payment creates a visible resolution path and never silently completes    *)
(* the order).                                                               *)
PaidDomainResolves ==
  \A d \in DomainSessions : (OrdersOf(d) # {}) ~> Resolved(d)
=============================================================================
