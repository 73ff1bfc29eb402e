# OnePloy: a TLA+ verification project

OnePloy is a Laravel platform that sells hosting. It inherits an application
deployment engine from its upstream project and adds commerce (plans, checkout,
domains), plan quotas, managed compute placement, a metered AI gateway and a
WordPress bridge; a realtime server gives its users terminals on their machines.
This project models the parts whose correctness depends on interleavings,
crashes, retries and time. Paths below are relative to the
repository root (`src/` in `PROJECT.json`).

## 1. Inventory

| Component | State it keeps | Operations | Talks to |
|---|---|---|---|
| Managed compute (`ManagedComputeScheduler`, `...CapacityCollector`, `...NodeRegistrar`) | pools, nodes, capacity snapshots, workload reservations | register, drain, capture, reserve, consume, release, expire | SSH probe; scheduler tick |
| Quota gate (`QuotaGate`, `ResourceQuotaObserver`, `TeamMemberAdmission`, `EntitlementResolver`) | quota reservations, resource rows, membership | reserve on `creating`, consume on `created`, attach member, expire by time | every model creation, imports, login |
| Checkout (`CheckoutService`, PayPal and webhook controllers, `ReconcilePaymentsJob`) | sessions, webhook inbox, payments, orders, subscription | create, startPayment, complete, cancel, webhook, reconcile, markPaid | PayPal, Stripe, Razorpay; domain jobs |
| Domain purchase (`DomainCheckoutService`, `ProvisionDomainJob`, `VerifyDomainDnsJob`) | domain rows, zones, queued jobs | start, queue, claim, register, zone, verify, failed() | checkout, registrar, PowerDNS |
| AI gateway (`AiGatewayService`, `AiGatewayEntitlement`) | request rows, usage ledger | admit, send with retries, record success or failure | subscriptions, AI provider |
| Deployment queue (`bootstrap/helpers/applications.php`, `ApplicationDeploymentJob`) | deployment rows | queue, start next, force start, cancel, status transitions | servers over SSH |
| Terminal server (`docker/coolify-realtime/terminal-server.js`, `terminal-utils.js`) | one session per websocket: buffered messages, the current PTY, kill loops, a deadline, a heartbeat flag | connect, authorize, message, command, force end, kill loop, PTY exit, deadline, ping and pong, close, error | browser; `/terminal/auth` and `/terminal/auth/ips`; node-pty and ssh |
| Browser terminal (`resources/js/terminal.js`) | socket, connection state, timers, attempts, pending command, flow control counters, saved page styles | connect, time out, reconnect, ping, probe, hide and show, send command, write output, fullscreen, cleanup | terminal server; xterm; Livewire events |
| Domain search (`wordpress-bridge/assets/oneploy-bridge.js`) | debounce timer, sequence number, abort controller, results panel, hidden price fields | bind, input, timer, blur, submit, answer, error | the store's search endpoint; the host site's form |

What is hard in them, and what makes each correct:

- **Compute.** Placements of different tenants race for a node; a reservation
  expires while somebody consumes it; a node drains or fails its probe while a
  request is on the way. Correct: capacity is not promised twice, what ended is
  not revived, quarantined nodes get nothing, abandoned reservations end.
- **Quota.** Reservation, INSERT and consumption are three transactions, and
  admission reads rows and reservations in two statements; a crash in between leaves
  state behind. Correct: the plan is not exceeded, and a lost creation does not keep
  its slot.
- **Checkout.** Four actors report or overwrite the same session: the browser, the
  webhooks (duplicated, late, under two references), the reconciliation and the
  cancel link. Any of them may die between two transactions. Correct: one order
  per session, only for captured money, and captured money always gets its order.
- **Domains.** The registrar's answer may be lost, and buying twice is not
  undoable. Correct: at most one purchase per name, only after payment, and every
  paid domain ends in a state somebody sees.
- **AI gateway.** The limit is read outside the lock, the provider call is long,
  replies get lost, months end. Correct: the budget, at most one sent request per
  key, exact metering.
- **Deployment queue.** Check-then-act on status columns without locks: requests,
  cancellations and queue workers interleave between any two statements. Correct:
  nothing is left in progress with nobody working on it, where it would block its
  application for good, and what can be started is not forgotten. Exceptions between
  a status write and what has to follow it are where this fails.
- **Terminal server.** A command that replaces a terminal waits in a loop until the old
  one is gone; other commands, a forced end, the old shell's exit, the close of the
  socket and the deadline come meanwhile. Correct: one terminal at a time, which is the
  one the session knows, every command answered, no terminal that is never told to exit,
  no session whose browser has gone, and ssh started only with arguments that were
  checked.
- **Browser terminal.** Five kinds of timers and two socket callbacks each decide
  whether to try again. Correct: a page is never left without a connection and
  without a timer, paused output is resumed, the page is not left unscrollable.
- **Domain search.** Fetches answer out of order and abort too late. Correct: the
  price that the form submits is that of the name in the field.

`PROJECT.json` lists every component with its status and every hazard at its line.

## 2. Modules

| Module | Models | Composition |
|---|---|---|
| `CapacityLedger` | abstract: what the scheduler promises of capacity | – |
| `ComputeScheduler` | placement and the life of a reservation | implements `CapacityLedger` |
| `QuotaGate` | resource and member admission of one tenant | – |
| `Checkout` | sessions, provider, webhook inbox, workers | – |
| `PurchaseLedger` | abstract: what buying promises of money, orders and names | – |
| `DomainPurchase` | domain rows and jobs | extends `Checkout`; its steps are checkout steps joined with domain steps; implements `PurchaseLedger` |
| `AiGateway` | calls of one tenant, request rows, ledger | – |
| `DeploymentQueue` | deployment rows, dispatched jobs, and the threads that act on them statement by statement | – |
| `SshArgs` | the checks of the ssh command line, as operators on tokens | – |
| `TerminalSlot` | abstract: what a session promises of its terminals | – |
| `TerminalServer` | one websocket session | extends `SshArgs`; implements `TerminalSlot` |
| `TerminalView` | fullscreen, scroll lock and the two saves of the body's styles | – |
| `TerminalClient` | the page's terminal | extends `TerminalView`; its server is an instance of `TerminalSlot` |
| `DomainSearch` | the search field of the WordPress bridge | – |
| `ComputeSchedulerProofs`, `QuotaGateProofs`, `AiGatewayProofs`, `DeploymentQueueProofs`, `TerminalServerProofs` | theorems | extend the module they are named after |
| `CommerceProofs` | theorems about `Checkout` and `DomainPurchase` | extends `DomainPurchase` |
| `BrowserProofs` | theorems about `TerminalView`, `TerminalClient` and `DomainSearch` | extends them |
| `SumLemmas` | lemmas about the sum of a function over a finite set, and the least natural number | extended by the proofs that add up or count |
| `MC*` | constants of the instances TLC checks | extend the module they instantiate |

### ComputeScheduler
A row of `res` is a workload reservation, keyed by team and idempotency key as
its unique index is. Time is relative: a row carries the clock steps left until
`expires_at`, a snapshot its age, so the clock needs no bound. `reserve()` takes
the team lock and then every eligible node's, so it is one step (it reads `now()`
before the node locks, which only makes it treat more reservations as active).
The placement itself (eligibility, freshness, fit, basis-point load and headroom,
tie by id) is translated in full. `consume()` locks team and reservation but no
node; its check and its commit are two actions, and between them other teams run, the
node drains and the clock goes on. A commit that comes after the expiry it checked
confirms a reservation whose capacity may have been given away: the code does that, and
the properties say exactly how far it reaches. `late` keeps what was confirmed that way,
`LockedRows` is what an open `consume()` holds.
`CapacityLedger` is the promise: a reservation is promised once, on a node that accepts
workloads, and within what was last measured there beside all promises in force; it may
end at any moment, and then for good unless its confirmation had begun before. It says
more than `CapacityRespected`, which
compares with the largest capacity ever recorded. A resource of which nothing is asked
does not count: `Fits` lets it pass on a node that is measured below what it already
promised. `ImplementsCapacityLedger` substitutes the rows, the active ones, those under
an open `consume()`, the latest snapshots and the nodes that are neither draining nor in
error.

### QuotaGate
`Count` and `Creating` are the two reads of the transaction that admits a model
creation: the team lock, the limit and the rows first, then the reservations, the
comparison and the new reservation. `gate` is what that transaction holds in between.
`Insert` and `Created` are the two transactions after it, under no team lock and as late
as they like. So a resource that is inserted and consumed between the two reads is
counted in neither: `overlooked` collects those, and the ones inserted when their
reservation had expired (`consume()` refuses them only after the row was committed).
`ResourcesWithinLimit` counts all others; `FinalSlotTakenOnce` counts all and is violated.
`TurnedAway` is the rollback; `Abandon` is a crash or a failed INSERT, after which nothing
releases the reservation (`creationFailed` is no Eloquent event). `Import` is the one path
that does everything in one transaction. `Attach` is admission; `LoginAttach` and
`RemoveMember` are the two ways around it, and `walkIns` are the members who were not
counted when they came: by login, or on the reservation consumed for them before.

### Checkout
A worker runs one request or job at a time, one transaction or provider call per
step, and may die between steps (`Dies`). What it carries (`stage`, session,
reference, whether it serves a webhook) is what the PHP code holds in local
variables. `CancelRead`/`CancelWrite` and `ReconcileRead`/`ReconcileExpires`/
`ReconcileAsks` split where the code reads a row without a lock and writes it
later. `order` is the provider's side and `event` its event per payment reference,
from unsent to processed; an event that was received but not processed is
delivered again.

### DomainPurchase
One row per session, since the row belongs to its checkout; names are shared
between sessions. `QueuePaidDomain` and `DispatchProvisioning` are the parts of
`markPaid()` after its commit: a transaction of their own, and then the job's dispatch.
The job's steps are the transactions and calls of `ProvisionDomainJob::handle`.
`JobDies` frees the unique lock and leaves `failed()` to come (`doomed`), so a
second job may run in between. `PurchaseLedger` is the promise: money is captured, then
becomes its session's only order, and only then is the name bought, once among all who
want it, and none of it is ever taken back. `ImplementsLedger` substitutes the sessions
whose order the provider captured, the payment rows and the calls to the registrar.

### AiGateway
Admission under the team lock, the provider call, and settlement under the lock
again are separate steps of a call. `Post`/`Lost` are the attempts of the HTTP
client: only a call with an idempotency key has more than one. `Die` leaves a
pending row that nothing sweeps. The month may end at any moment, also under a call,
and the provider may report up to `Overrun` tokens more than the call reserved: the code
compares neither. `granted` is history: the largest limit a call of
that month was admitted under, since the limit is read before the lock. So is
`unreserved`: the tokens metered in a month in which no reservation stood for them.

### DeploymentQueue
A thread is a web request or a queue worker; `pc` is the statement it is at, and
the rest of its record what PHP holds in local variables: the row in hand, the
snapshot of queued rows it still has to look at, the outcome it will write, the
server whose queue it advances next. A write is what Eloquent sends: only the
columns that differ from the model as it was loaded, so a stale model may write
nothing or overwrite a later status. `UserStep` starts a request (queue, force
start, cancel by page or API), `PickUp` hands a dispatched job to a worker,
`ThreadStep` is one statement. `Restart` is the cleanup at program start; the
tenant may be suspended and reactivated. What a build does on the server is one
step that ends well or badly. `DispatchFails` is a dispatch that throws after the row
was set in progress, in the constructor of the job or at the push to Redis;
`AdvanceFails` is an exception between the end of a deployment and the scan of the queue.
`undispatched` and `cutShort` remember the row and the server until a later dispatch or
scan makes up for it.

### SshArgs, TerminalSlot, TerminalServer
`SshArgs` has tokens (flags, options, a key, a port, a destination, words) for
arguments and translates `extractSshArgs`, `validateSshArgs` and `extractTargetHost`
on them; the quoting of the shell line is not split character by character. A
destination may name no host: `extractTargetHost` skips what looks like a key path
(`terminal-utils.js:108`), and the validator accepts it all the same (`225`).
`SshArgsAgree` compares the validator with a declarative reading of what is
allowed (`Acceptable`, on lists of groups: a flag with its value or an argument alone),
and with it the target and the sanitized list that ssh is started with
(`Unmultiplexed`), over every list of `MCInputs`. `TerminalServer` is one connection from its
verification to its end. JavaScript runs one callback at a time, so a step is what
happens between two awaits. `tasks` holds the kill loops under way with the handler
each returns to, in the order in which their 500 ms timers fire. `TerminalSlot` is
the promise: a terminal starts only in an empty slot and no command starts twice;
`ImplementsSlot` substitutes the live PTYs and the started commands.

### TerminalView, TerminalClient
A step is one callback: a socket event, a timer, a visibility change, a message.
`socket` keeps apart the three ways a socket can be CLOSING, since their close
events are treated differently; `link` says whether the two ends still hear each
other. `strays` are reconnect timers that `reconnectInterval` no longer holds,
because two failures of one connection each set one. `pingTimer` is the one variable
behind the 35-second ping and the 5-second probe. The server at the other end is an
instance of `TerminalSlot`, one per connection, so what the client relies on is what
the server is shown to implement. `TerminalView` keeps the two saves of the body's
styles that overlap when fullscreen and scroll lock begin and end in different order.

### DomainSearch
A search is named by its sequence number. Between `fetch()`, `json()` and the
continuations other events run; `abort()` rejects what is awaited and has no effect
on what is already read. `ValueSetSilently` is a
value that is set without an event.

## 3. Runs

| Run | Checks | Shows |
|---|---|---|
| `compute` | `TypeOK`, `CapacityRespected`, `NeverRevived`, `ImplementsCapacityLedger`, `QuarantineHolds`, `HoldEnds` | two teams contend for one node of changing capacity that drains, fails and goes stale, with `consume()` calls that outlive their reservation |
| `quota_resources` | `ResourcesWithinLimit`, `MembersWithinLimit`, `SlotReturns` | two resources and two people, plans of 0, 1 and no limit |
| `quota_final_slot` | `FinalSlotTakenOnce` is violated | one resource is inserted and consumed between the two reads of another's admission |
| `checkout_safety` | `OneOrderPerSession`, `OrderBackedByCapture` | a PayPal session for a domain and a two-reference Razorpay session for a plan, two workers; run on the composition, which implements `Checkout` |
| `domain_safety` | `RegistrarCalledOnce`, `BoughtOnlyWhenPaid`, `ImplementsLedger` | two sessions that buy the same name |
| `domain_live` | `CapturedBecomesOrder`, `UndisturbedDomainResolves` | a domain session with crashes, cancellation and expiry, and a second one that wants its name |
| `ai_safety` | `BudgetKept`, `OneProviderCallPerKey`, `LedgerExact` | three calls, two of them with one key, a month that ends at any moment, a provider that reports too much |
| `deployment_queue` | `InProgressHasJob`, `NoLostWakeup`, `EveryDeploymentEnds` | two threads, two applications, one of them with an additional server, exceptions after a status write |
| `terminal_server` | `TypeOK`, `OneTerminal`, `DeadlineOfTheLiving`, `SshArgsAgree`, `ImplementsSlot`, `CommandAnswered`, `ToldToExit`, `VanishedBrowserReleased` | three commands, a forced end, errors, shells that do not obey, a browser that vanishes |
| `terminal_client` | `TypeOK`, `NeverLeftFrozen`, `NeverStranded`, `PauseRemembered`, `PausedPtyResumes`, `ReconnectEnds` | connections that are refused, time out, break or die silently |
| `domain_search` | `QuoteMatchesField`, `NewestSearchSpeaks`, `OneSearchUnderWay`, `FieldAnswered` | four events on a field, answers and aborts in any order |
| `domain_cancelled` | `PaidDomainResolves` is violated | a stale cancellation overwrites "paid"; the domain is never provisioned nor reviewed |

`quota_final_slot` and `domain_cancelled` disagree with sentences of the repository,
which `PROJECT.json` quotes under `findings`.

### Known exceptions
The passing properties name the cases in which the code does not do what a reader
might expect. The models contain these cases; each property says precisely what it does
not claim:

- A `consume()` may commit after the expiry it checked (`ManagedComputeScheduler.php:187`,
  against the comment at 239-240): capacity that was given away meanwhile is then
  promised twice, on a node that may drain by then. `CapacityRespected` leaves
  out the claims of `late`; `NeverRevived`, `QuarantineHolds` and
  `ImplementsCapacityLedger` let only the row that an open `consume()` holds come back.
- A resource may be in neither read of an admission (`QuotaGate.php:36`), and may be
  inserted after its reservation expired, since the refusal comes after the row is
  committed (`QuotaGate.php:137`). `ResourcesWithinLimit` leaves these out (`overlooked`)
  and `FinalSlotTakenOnce` does not.
- A member who comes back on the reservation that was consumed for him
  (`QuotaGate.php:100`), and an invitee who logs in (`FortifyServiceProvider.php:97`
  attaches without the gate), are not held to the limit: `MembersWithinLimit` counts the
  others.
- The row of a lapsed session is deleted to make way for another
  (`DomainCheckoutService.php:131`) although a payment of it is still accepted; that
  session is then paid without a domain row and without a review, which
  `PLATFORM-V1.md:97` rules out. `UndisturbedDomainResolves` is checked with both sessions
  and excepts it (`GaveWay`).
- Usage of a call that is answered after the end of its month lands in a month that
  reserved nothing for it (`AiGatewayService.php:350`), and nothing compares what the
  provider reports with the reservation (`411`): `BudgetKept` adds both to the budget
  (`unreserved`).
- A dispatch that throws leaves its row in progress without a job
  (`bootstrap/helpers/applications.php:102`, `154`), and an exception after the end of a
  deployment leaves its server's queue unscanned (`ApplicationDeploymentJob.php:5076`).
  `InProgressHasJob` excepts the row itself, `NoLostWakeup` and `EveryDeploymentEnds` the
  rows that wait behind it or for the scan.
- A list of ssh arguments may hold further destinations in which `extractTargetHost`
  finds no host (`terminal-utils.js:108` against `225`), before the one that names the
  authorized host; `Acceptable` says so, and `AcceptsExactly` shows it to be the only such
  case.
- A shell that was told to exit need not obey: an editor or another program may swallow
  what is typed. The kill loop gives up after its attempts (`terminal-server.js:502`), and
  the deadline fires once. `ToldToExit` therefore claims no end of a terminal, only that
  it was told.
- A socket that closes before `/terminal/auth/ips` answers is registered after its
  close event (`terminal-server.js:241`): nothing removes the session, and a terminal
  started for a buffered command runs until its deadline. `ToldToExit` is
  about registered sessions: once the close handler removed one, the deadline of a
  terminal that outlived its kill loop, or was started by a command that still waited,
  finds no session to end.
- The comment "Terminal states cannot be changed" (`ApplicationDeploymentJob.php:5082`)
  holds of the model as it was loaded, not of the row: a stale write sets a
  cancelled or failed row back. `EveryDeploymentEnds` therefore asks that an end is
  reached, not that the first one stays.
- `MayWait`: a queued deployment that shares a server or an application with one on
  an additional server, and one of a tenant that was suspended, may wait for ever,
  because nobody advances that queue (`bootstrap/helpers/applications.php:145`, `168`).
- A page that was left may connect again: the visibility listener and the timer of the
  first connection survive `cleanup()` (`terminal.js:345`). `NeverStranded` and
  `ReconnectEnds` are about pages that were not left.
- The 35-second ping timeout is set again only by a pong, so the third miss that would
  close a dead socket is never counted (`terminal.js:1054`); a dead socket is found by
  the probe of a tab that is shown again, or by the server's heartbeat. A command asked
  for between two failed attempts is dropped by `resetTerminal` (`terminal.js:541`).
- `QuoteMatchesField` and `FieldAnswered` except a value set without an event
  (`oneploy-bridge.js:128`).
- `CapacityRespected` compares with the largest capacity recorded, since a new
  measurement below what is claimed ends no reservation
  (`ManagedComputeCapacityCollector.php:34`), and counts per node: a server registered
  in two pools is two nodes (`ManagedComputeNodeRegistrar.php:45`).
- `BudgetKept` compares with the largest limit a call was admitted under, since the
  limit is read before the lock (`AiGatewayService.php:45`).
- `failed()` of a lost domain job may write `manual_review` over what a second job
  reached (`ProvisionDomainJob.php:133`); `UndisturbedDomainResolves` accepts it, since
  an operator sees the row.

### Bounds
- *Compute* (44,292 states): capacity 2 of one resource, requests of 1 and 2, so one
  request more than fits is always possible; the smaller total is below the system reserve
  and leaves nothing. A reservation lives two clock steps, so it can be fresh, about to
  expire and expired. Two teams with one reservation each are what the race between
  `consume()` and `reserve()` needs (a team lock serialises one team). One node: the
  choice between several does not interact with time, and that it succeeds and what it
  promises is proved for any number. With one key per team no two workload references of
  one team meet, so `ReferenceTaken` never holds; `ConsumeRollback` covers its outcome.
  `ComputeSchedulerProofs` covers any teams, keys, nodes, resources and requests.
- *Quota* (113,022 states): two creations at limit 1 contend for the last slot, 0 and
  no limit let the plan change around it; a life of two steps lets one step pass during
  a creation. A founder and one more person who joins, leaves, and returns by
  admission or login. `QuotaGateProofs` covers any number of creations, people and limits.
- *Checkout*: two workers are the smallest number in which one holds a stale read
  while the other pays; `CommerceProofs` covers any number. Sessions lapse in the
  domain runs only, where they also decide about the domain row.
- *Domains* (418,964 states for safety, 58,843 for liveness): two sessions for one name;
  `CommerceProofs` covers any number. For liveness only the first may be paid
  (`PayingSessions`), lapse and be cancelled; the second may take its row.
- *AI* (514,152 states): limits 2 and 3 against costs 2, 2 and 1, two months, two
  attempts, one token beyond the reservation. `AiGatewayProofs` covers any calls, costs,
  limits, months, attempts and overruns.
- *Deployment queue* (372,692 states): two threads are enough for a statement between
  any two of another; three rows let one run, one wait and one arrive; one
  intervention (cancellation, forced start, restart, suspension, exception),
  `concurrent_builds`
  1 and a queue limit of 2, so both limits are met. `InProgressHasJob`
  and `NoLostWakeup` are proved for any numbers.
- *Terminal server* (335,587 states): three commands let two compete for the slot of a
  third; two attempts, so a kill loop looks, looks again and gives up. The argument lists
  are all of up to three groups and the generated one with its groups exchanged, replaced
  or one added; proved for lists of any length.
- *Terminal client* (403,164 states): two commands, two reconnect attempts, one stray
  timer; a threshold of one pending write with three outstanding passes it and comes
  back. The safety properties are proved for any of these numbers.
- *Domain search* (451,690 states): four events and four texts, two of which
  normalise to one name and one of which has no dot; up to eight searches.

### Deadlock
`checkout_safety` and the domain runs turn deadlock checking off: when all sessions
are paid, cancelled or expired and every event is processed, nothing is left to do.
So do the runs of the terminal, the search field and the deployment queue: a closed
session, a page that was left, a field after its last event and a queue whose
deployments all ended come to rest.

### Symmetry
Workers in the safety runs of checkout and domains are interchangeable. No run that
checks liveness uses symmetry.

### Fairness
- *Compute*: the clock ticks, the sweep runs every minute
  (`Console/Kernel.php`), a transaction commits or rolls back.
- *Quota*: the clock ticks. Nothing is assumed of creations.
- *Checkout, domains*: a worker goes on or dies and a job goes on or fails, which
  the queue guarantees by its timeouts. The provider delivers an event until it is
  processed, and not every delivery meets a crash at the same place: strong
  fairness, per session that may be paid, of `Webhook`, `MarkPaid`, `QueuePaidDomain` and
  `DispatchProvisioning` for webhook workers.
  Nothing is assumed of the browser, of the buyer or of the reconciliation.
- *Deployment queue*: a running request or job goes on or throws, which includes that a
  build ends (the job has a timeout), and workers take what is dispatched. Users promise
  nothing.
- *Terminal server*: requests are answered or fail, timers and intervals fire, a
  closing socket gets its close event. Nothing is assumed of shells.
- *Browser terminal*: timers fire, xterm calls back, a socket that is being closed
  gets its close event. Nothing makes an attempt to connect succeed.
- *Domain search*: the timer fires, continuations run, and a fetch is answered or
  fails in the end.

## 4. Proofs

All are checked by TLAPS for every value of the constants that satisfies the named
assumptions.

- `ComputeSchedulerProofs`. *Assumptions*: the named ones of `ComputeScheduler` (finite
  sets of teams, keys, nodes and resources; natural numbers as node ids; requests of
  natural numbers). `IInv == TypeOK /\ LockedInv`: the row that an open `consume()` holds
  locked is still reserved; without it the commit could activate anything. That
  `Reserve` finds a best node at all rests on
  `compareCandidates()` being a strict total order on the candidates, which is a lemma.
  `CapacityInv` adds that no snapshot exceeds the largest capacity recorded (`SnapInv`),
  since `reserve()` compares with the former and the property with the latter. Results,
  all without condition: `SchedulerInvariant`, `TypeCorrect`, `NoRevival`,
  `QuarantineKept`, `CapacityInvariant`, `NeverOversold` and the refinement
  `PlacementIsALedger`.
  The refinement needs that a row keeps its node and request for good (`RowsKept`), that
  only `reserve()` activates one (`WhoActivates`), and that the ledger's load is the sum
  `reserve()` computes (`LoadIsClaimed`).
- `SumLemmas`. Capacity, budget and ledger are sums over a finite set. A sum is a
  recursive function on the subsets of its domain; the lemmas show that it exists, that
  it changes by what one summand changes, and that it is monotone, by induction on the
  size of the set. The induction takes a *set* of counterexamples and its least size in
  place of a predicate, which is a form the provers can instantiate.
- `CommerceProofs`, on the checkout. *Assumption*: `CheckoutAssumption` (references of different
  sessions are different; a PayPal session has one). *Inductive invariant*
  `IInv == TypeOK /\ WorkerInv /\ EventInv /\ PaymentInv /\ OneRef /\
  SubscriptionInv`: a worker that is about to record a payment holds a session the
  provider captured and one of its references (`WorkerInv`), an event is only sent
  for a captured order (`EventInv`), recorded payments are backed (`PaymentInv`),
  and a session has at most one (`OneRef`). `OneOrderPerSession` is not inductive
  without the first two, since `MarkPaid` acts on what the worker carried. Results:
  `CheckoutInvariant`, `TypeCorrect`, `ChargedOnce`, `OrdersBacked`.
- `CommerceProofs`, on domains. `PurchaseImplementsCheckout` shows that every behaviour of
  the composition is one of `Checkout` (each domain step is a checkout step or
  leaves the checkout alone), so the checkout's invariants carry over.
  `DomainInvariant` adds what a job knows: a claimed registration has status
  `registering` and is paid, a row that left `pending_payment` has an order, a name
  with a called registrar keeps its row so that no other session gets one. Results:
  `DomainTypeCorrect`, `BoughtOnce`, `PaidBeforeBought`, and the refinement
  `PurchaseIsALedger`: every step of buyer, provider, worker or job is a step of
  `PurchaseLedger` or leaves it alone. Each of its three variables has one writer:
  the call to the registrar buys (`CallIsBuy`, from the job's part of the invariant),
  `markPaid()` orders (`MarkPaidIsOrder`: an unpaid session with a payment row would be
  a PayPal session, whose only reference is already recorded), and the provider
  captures (`ProviderCaptures`).
- `QuotaGateProofs`. *Assumption*: `QuotaAssumption`. The strengthening of
  `ResourcesWithinLimit` counts rows together with resources in creation whose reservation
  is in force (`FitInv`), since the row of an admitted resource comes later, and says that
  the limit a transaction read between its two reads is one that was in force (`GateInv`).
  That the comparison bounds that count although its two reads are apart rests on one
  fact: what exists and is in neither read is `overlooked` from then on.
  `MembersWithinLimit` is inductive with the same fact about the members limit.
  Results, all without condition: `TypeCorrect`, `QuotaKept`,
  `MembersKept`.

- `AiGatewayProofs`. *Assumption*: `GatewayAssumption`. `OneProviderCallPerKey` is not
  inductive, since `Post` sends what an earlier step admitted. The invariant adds that
  whoever was sent or is about to be owns a request row (`Owned`) and that rows with a
  key are unique (`OneRowPerKey`), which `beginRequest()` ensures under the team lock.
  For the sums it adds that the row of a call under way is pending (`Settled`), so that a
  settlement moves one row's tokens once. Results: `GatewayInvariant`,
  `TypeCorrect`, `SentOnce`, `MeteredOnce` and `BudgetNeverExceeded`, for calls that are
  answered in any month and with any overrun.
- `DeploymentQueueProofs`. *Assumption*: `DeploymentAssumption`. The invariant adds what
  each thread carries between its statements (`Carries`) and that the rows that exist
  together with those about to be inserted stay within the table (`Reserved`, a
  cardinality). For the wakeups, `WakeInv` adds that threads know only rows that were
  inserted (`Known`) and that a queued row of an active tenant is blocked or watched: on a
  thread's list, in its hands, or on a server whose queue it still owes a scan (`Awake`).
  `NoLostWakeup` alone says nothing while anybody is at work, and so is far from
  inductive. Results: `QueueInvariant`, `TypeCorrect`, `SomebodyWorksOnIt`,
  `WatchedOrBlocked`, `NoWakeupLost`.
- `TerminalServerProofs`. *Assumption*: `TerminalAssumption`. The invariant adds that
  every command that waits is held by exactly one kill loop (`CommandsQueued`) and every
  buffered one by exactly one message (`MessagesBuffered`); without them a command could
  be started twice. Results: `ServerInvariant`, `TypeCorrect`, `TerminalIsOne`,
  `DeadlineIsOfTheLiving`, and the refinement `SessionIsASlot`: every step of the
  session is a step of `TerminalSlot` or leaves it alone. `OnlyWellFormedStarts` is
  about what is started: whatever list of tokens the browser sends, ssh gets one key,
  one port, every required option and none twice, and one destination in which a host is
  found, an authorized one. Its lemma `ValidatorSound` is an induction over the
  arguments: after k of them the scan's record says exactly what they were (`Read`). Its
  hypothesis is that command lines are lists of tokens; a destination among them may
  name a host or none. `AcceptsExactly` adds the other direction: for lists of groups of
  any length and any authorized hosts, `validateSshArgs` accepts exactly what is
  `Acceptable`. `SpawnsWhatIsChecked` is about what happens to an accepted list: the
  host extracted from it is authorized, `sanitizeSshArgs` leaves exactly its groups that
  do not multiplex, and what it leaves would be accepted again. `ArgumentsAgree` puts
  both together as the property of the run. The argument goes group by group: the scan
  of a flattened list is the scan of its groups one after the other (`ScanOfGroups`), a
  list that is not refused is read exactly (`GroupsScanned`), and the counts of
  `Acceptable` say that each kind of group occurs once (`AcceptableGroups`).
  *Hypotheses* (`ArgLists`): a group is a flag, a flag with a value, a destination or a
  word; only an option has a name; an allowed option's value does not read like
  `user@host`, which the patterns of `isAllowedSshOption` give. The lists of the run
  satisfy them.
- `BrowserProofs`, on the browser's terminal. *Assumption*: `ClientAssumption`. Three invariants about
  different variables: `ViewInv` (what the two saves of the body's styles hold),
  `FlowInv` (which sockets and terminals a pause may belong to) and `LinkInv` (which
  timers may be pending beside which socket, with a budget that bounds the attempts).
  Results: `NotLeftFrozen`, `PauseNotForgotten`, `NotStranded`, `TypeCorrect`.
- `BrowserProofs`, on the search field. *Assumptions*: `TextAssumption`, `BoundAssumption`. The invariant
  adds that an armed timer still has its event to account for (`Counted`) and that
  whatever is awaited is what the controller would abort (`ControllerOwnsAwaited`).
  Results: `SearchInvariant`, `SearchTypeCorrect`, `QuoteIsOfTheField`, `OnlyNewestSpeaks`,
  `OneAtATime`.

The type invariants of `QuotaGate`, `Checkout`, `DomainPurchase`, `AiGateway`,
`DeploymentQueue` and `DomainSearch` are proved and not checked by a run as well.

Only model-checked is liveness, which needs fairness and ENABLED: `HoldEnds`,
`SlotReturns`, `CapturedBecomesOrder`, `UndisturbedDomainResolves`,
`EveryDeploymentEnds`, `CommandAnswered`, `ToldToExit`,
`VanishedBrowserReleased`, `PausedPtyResumes`, `ReconnectEnds`, `FieldAnswered`. Every
safety property that a passing run checks is also a theorem, and none of them has a
hypothesis about when something happens. The inductive invariants `IInv`,
`SnapInv`, `CapacityInv`, `LedgerInv`, `BudgetInv` and `WakeInv` were also checked by TLC
on the instances of the runs.

## 5. Not modelled

HTTP clients, signature checks, SSH probes and DNS lookups are represented by their
outcomes. Amount and currency checks of webhooks only lead to events that change
nothing, so they are left out. A platform team is never limited and is left out of
quota and AI gateway. User interface, API formatting, policies,
notifications, backups, installer and the catalogue have no concurrent state of
their own. `PROJECT.json` gives the reason for each.

Of the repository's JavaScript nearly all is the vendored Monaco editor
(`public/js/monaco-editor-0.52.2`, over 50,000 of 57,000 lines), third-party code that
the pages load as it is. Of its own scripts the terminal server, the browser terminal
and the domain search are modelled; left out are the terminal's themes, mobile
toolbar, keyboard layout, resizing and countdown display, the rendering of search
results, and small page scripts without state. Bytes relayed between browser and
terminal, keystrokes and JSON pings change nothing in the terminal server. A command
message that is no list of strings, at which `handleCommand` throws
(`terminal-server.js:352`), is not among its inputs. `destroy()` of the browser terminal
(`terminal.js:911`), which leaves the page's scroll lock as it is, and the `close(1001)`
that a browser refuses (`terminal.js:1060`), after a third miss that is never counted, are
left out. A separate
build server of the deployment queue is left out, and so is what a build does.

## 6. Plan

1. Done: `ComputeScheduler`, `QuotaGate`, `Checkout`, `DomainPurchase`, `AiGateway`,
   `DeploymentQueue`, `TerminalServer` with `SshArgs` and `TerminalSlot`,
   `TerminalClient` with `TerminalView`, `DomainSearch`.
2. Done: every safety property that a run checks has a theorem, and the abstract
   specifications `TerminalSlot`, `PurchaseLedger` and `CapacityLedger` are implemented
   and proved to be.
3. Left: backups: the job that runs, retries and prunes them, once its remote command
   sequence is abstracted to outcomes.
