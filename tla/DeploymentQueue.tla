-------------------------- MODULE DeploymentQueue --------------------------
(***************************************************************************)
(* The queue of application deployments: queue_application_deployment,     *)
(* force_start_deployment, queue_next_deployment, next_queuable and        *)
(* next_after_cancel (bootstrap/helpers/applications.php), the status      *)
(* writes of ApplicationDeploymentJob, the cancellations, and the cleanup  *)
(* when the program starts.                                                *)
(*                                                                         *)
(* Nothing here takes a lock: web requests and queue workers are threads   *)
(* whose database statements interleave.  A step is one statement, or a    *)
(* run of reads that decide one thing.  A write is what Eloquent sends: an *)
(* update() writes only what differs from the model as it was loaded, so   *)
(* marking a row in progress that was read in progress writes nothing.     *)
(* A dispatch, or what comes between the end of a deployment and the scan  *)
(* of the queue, may throw: nothing that was written before is undone.     *)
(***************************************************************************)
EXTENDS Integers, FiniteSets

CONSTANTS
    Threads,           \* web requests and queue workers
    Apps,              \* applications, all of one tenant
    PRs,               \* pull_request_id values; 0 is the normal deployment
    Servers,
    NoServer,
    Home,              \* application -> $application->destination->server
    Extra,             \* application -> its additional server, or NoServer
    ConcurrentBuilds,  \* settings->concurrent_builds
    QueueLimit,        \* settings->deployment_queue_limit
    MaxDeployments,    \* bound: rows of the table
    MaxRequests,       \* bound: deployments asked for
    MaxInterventions   \* bound: cancellations, forced starts, restarts, tenant changes,
                       \* exceptions

ASSUME DeploymentAssumption ==
    /\ IsFiniteSet(Threads) /\ Apps # {} /\ 0 \in PRs
    /\ NoServer \notin Servers
    /\ Home \in [Apps -> Servers] /\ Extra \in [Apps -> Servers \cup {NoServer}]
    /\ ConcurrentBuilds \in Nat /\ QueueLimit \in Nat
    /\ MaxDeployments \in Nat /\ MaxRequests \in Nat /\ MaxInterventions \in Nat

VARIABLES
    rows,      \* application_deployment_queues, by id
    created,   \* how many rows exist
    jobs,      \* id -> ApplicationDeploymentJobs dispatched and not yet picked up
    thread,    \* what every thread is doing
    tenant,    \* isTenantActive(), and whether it ever was not
    undispatched,   \* history: rows whose last dispatch threw
    cutShort,       \* history: servers whose last scan was never made, or threw half way
    requests,       \* deployments asked for so far
    interventions   \* interventions so far

thrown == <<undispatched, cutShort>>
vars == <<rows, created, jobs, thread, tenant, undispatched, cutShort, requests, interventions>>

Deployments == 1 .. MaxDeployments
Terminal == {"finished", "failed", "cancelled"}
Active == {"queued", "in_progress"}
Statuses == Terminal \cup Active \cup {"none"}

NoRow == [status |-> "none", app |-> CHOOSE a \in Apps : TRUE, pr |-> 0, server |-> NoServer,
          only |-> FALSE]

(* pc: where the thread is; d: the row in hand; seen: the outcome a job    *)
(* writes; todo: rows of the snapshot still to look at; after: the server  *)
(* whose queue is advanced next; req: the deployment asked for; ask:       *)
(* no_questions_asked is FALSE.                                            *)
Idle == [pc |-> "idle", d |-> 0, seen |-> "none", todo |-> {}, after |-> NoServer,
         req |-> NoRow, ask |-> TRUE]

(* The thread's loop over the rows of todo, and after it over the queue of *)
(* the server it has to advance.                                           *)
Loop(todo, after) ==
    IF todo = {} /\ after = NoServer THEN Idle
    ELSE [Idle EXCEPT !.pc = "scanning", !.todo = todo, !.after = after]

JobPCs == {"marking", "building", "writing"}
PCs == {"idle", "creating", "scanning", "starting", "dispatching", "spreading"} \cup JobPCs

Rows == [status : Statuses, app : Apps, pr : PRs, server : Servers \cup {NoServer}, only : BOOLEAN]

(* Rows, jobs and threads have their types; no job is taken that was not   *)
(* dispatched.                                                             *)
TypeOK ==
    /\ rows \in [Deployments -> Rows]
    /\ created \in 0 .. MaxDeployments
    /\ jobs \in [Deployments -> Nat]
    /\ thread \in [Threads -> [pc : PCs, d : 0 .. MaxDeployments, seen : Statuses,
                               todo : SUBSET Deployments, after : Servers \cup {NoServer},
                               req : Rows, ask : BOOLEAN]]
    /\ tenant \in {"active", "suspended", "reactivated"}
    /\ undispatched \subseteq Deployments /\ cutShort \subseteq Servers
    /\ requests \in 0 .. MaxRequests
    /\ interventions \in 0 .. MaxInterventions

Init ==
    /\ rows = [d \in Deployments |-> NoRow]
    /\ created = 0
    /\ jobs = [d \in Deployments |-> 0]
    /\ thread = [t \in Threads |-> Idle]
    /\ tenant = "active"
    /\ undispatched = {} /\ cutShort = {}
    /\ requests = 0
    /\ interventions = 0

-----------------------------------------------------------------------------
At(t, pc) == thread[t].pc = pc
Goto(t, changes) == thread' = [thread EXCEPT ![t] = changes]

UserAsks ==
    /\ requests < MaxRequests
    /\ requests' = requests + 1
    /\ UNCHANGED interventions

Intervention ==
    /\ interventions < MaxInterventions
    /\ interventions' = interventions + 1
    /\ UNCHANGED requests

OnServer(s, status) == {d \in Deployments : rows[d].server = s /\ rows[d].status = status}

TenantActive == tenant # "suspended"

(* MaxDeployments counts the rows that exist and the ones being created.   *)
Room == created + Cardinality({t \in Threads : At(t, "creating")}) < MaxDeployments

(* next_queuable for a stored row.  A refusal rests on one of its reads.   *)
NextQueuable(d) ==
    /\ TenantActive
    /\ ~ \E e \in Deployments : /\ rows[e].app = rows[d].app
                                /\ rows[e].pr = rows[d].pr
                                /\ rows[e].status = "in_progress"
    /\ Cardinality(OnServer(rows[d].server, "in_progress")) < ConcurrentBuilds

(* queue_application_deployment up to the insert: the tenant, the length   *)
(* of the server's queue, an active deployment of the same thing.  All     *)
(* deployments here are of one commit.                                     *)
Accepted(req, ask, force) ==
    /\ TenantActive
    /\ Cardinality(OnServer(req.server, "queued")) < QueueLimit
    /\ \/ ~ask
       \/ force
       \/ ~ \E e \in Deployments : /\ rows[e].app = req.app
                                   /\ rows[e].pr = req.pr
                                   /\ rows[e].status \in Active

Request(app, pr, server, only) ==
    [status |-> "queued", app |-> app, pr |-> pr, server |-> server, only |-> only]

(* A deployment from the page, the API or a webhook.                       *)
QueueApplicationDeployment(t, app, pr, force) ==
    LET req == Request(app, pr, Home[app], FALSE) IN
    /\ At(t, "idle") /\ UserAsks /\ Room
    /\ Accepted(req, TRUE, force)
    /\ Goto(t, [Idle EXCEPT !.pc = "creating", !.req = req, !.ask = TRUE])
    /\ UNCHANGED <<rows, created, jobs, tenant, thrown>>

(* Destination::redeploy: one server only, no questions asked.             *)
Redeploy(t, app, server) ==
    LET req == Request(app, 0, server, TRUE) IN
    /\ server \in {Home[app], Extra[app]} \ {NoServer}
    /\ At(t, "idle") /\ UserAsks /\ Room
    /\ Accepted(req, FALSE, FALSE)
    /\ Goto(t, [Idle EXCEPT !.pc = "creating", !.req = req, !.ask = FALSE])
    /\ UNCHANGED <<rows, created, jobs, tenant, thrown>>

(* Mutant: the decision is made first, the row is inserted after it.       *)
CreateAfterDeciding(t) ==
    LET d == created + 1
        req == thread[t].req
        free == ~thread[t].ask
                  \/ Cardinality(OnServer(req.server, "in_progress")) < ConcurrentBuilds IN
    /\ At(t, "creating")
    /\ \/ /\ thread[t].seen = "none"
          /\ Goto(t, [thread[t] EXCEPT !.seen = IF free THEN "finished" ELSE "failed"])
          /\ UNCHANGED <<rows, created>>
       \/ /\ thread[t].seen # "none"
          /\ created' = d
          /\ rows' = [rows EXCEPT ![d] = req]
          /\ Goto(t, [Idle EXCEPT !.pc = IF thread[t].seen = "finished" THEN "starting"
                                         ELSE "scanning",
                                  !.d = d, !.after = thread[t].after])
    /\ UNCHANGED <<jobs, tenant, thrown, requests, interventions>>

(* The insert; the row is queued, and visible, before anybody decides      *)
(* whether it may start.                                                   *)
Create(t) ==
    LET d == created + 1 IN
    /\ At(t, "creating")
    /\ created' = d
    /\ rows' = [rows EXCEPT ![d] = thread[t].req]
    /\ Goto(t, IF thread[t].ask
               THEN Loop({d}, NoServer)
               ELSE [Idle EXCEPT !.pc = "starting", !.d = d, !.after = thread[t].after])
    /\ UNCHANGED <<jobs, tenant, thrown, requests, interventions>>

-----------------------------------------------------------------------------
(* The loop of queue_next_deployment and next_after_cancel, oldest row     *)
(* first; queue_application_deployment looks at its own row the same way.  *)
LookAtRow(t) ==
    \E d \in thread[t].todo :
        /\ At(t, "scanning")
        /\ \A e \in thread[t].todo : d <= e
        /\ Goto(t, IF NextQueuable(d)
                   THEN [thread[t] EXCEPT !.pc = "starting", !.d = d, !.todo = @ \ {d}]
                   ELSE Loop(thread[t].todo \ {d}, thread[t].after))
        /\ UNCHANGED <<rows, created, jobs, tenant, thrown, requests, interventions>>

(* update(['status' => in_progress]).                                      *)
MarkStarted(t) ==
    /\ At(t, "starting")
    /\ rows' = [rows EXCEPT ![thread[t].d].status = "in_progress"]
    /\ Goto(t, [thread[t] EXCEPT !.pc = "dispatching"])
    /\ UNCHANGED <<created, jobs, tenant, thrown, requests, interventions>>

(* ApplicationDeploymentJob::dispatch.                                     *)
Dispatch(t) ==
    /\ At(t, "dispatching")
    /\ jobs' = [jobs EXCEPT ![thread[t].d] = @ + 1]
    /\ undispatched' = undispatched \ {thread[t].d}
    /\ Goto(t, Loop(thread[t].todo, thread[t].after))
    /\ UNCHANGED <<rows, created, tenant, cutShort, requests, interventions>>

(* An exception ends the request or the job; the queues it was to look at  *)
(* are not looked at.  (When it ends a job, failed() finds the row at its  *)
(* end and returns.)                                                       *)
Dies(t) ==
    LET owed == {rows[d].server : d \in thread[t].todo} \cup {thread[t].after} IN
    /\ Intervention
    /\ Goto(t, Idle)
    /\ cutShort' = cutShort \cup (owed \ {NoServer})
    /\ UNCHANGED <<rows, created, jobs, tenant>>

(* The job's constructor throws (a base_directory or a registry image that *)
(* is refused, a server or destination that is gone), or the push to Redis *)
(* fails; the row stays in progress.                                       *)
DispatchFails(t) ==
    /\ At(t, "dispatching")
    /\ undispatched' = undispatched \cup {thread[t].d}
    /\ Dies(t)

(* What comes between the write of an end and the scan of the queue throws *)
(* or has lost its server: events, notifications, the additional server.   *)
AdvanceFails(t) ==
    /\ \/ At(t, "spreading")
       \/ At(t, "scanning") /\ thread[t].todo = {}
    /\ Dies(t)
    /\ UNCHANGED undispatched

(* queue_next_deployment and next_after_cancel take their snapshot of the  *)
(* server's queued rows.                                                   *)
Snapshot(t) ==
    /\ At(t, "scanning") /\ thread[t].todo = {}
    /\ cutShort' = cutShort \ {thread[t].after}
    /\ Goto(t, Loop(OnServer(thread[t].after, "queued"), NoServer))
    /\ UNCHANGED <<rows, created, jobs, tenant, undispatched, requests, interventions>>

(* force_start_deployment, on the row as the request loaded it; the page   *)
(* it comes from may be older.                                             *)
ForceStart(t, d) ==
    /\ At(t, "idle") /\ Intervention
    /\ d <= created
    /\ TenantActive
    /\ Goto(t, [Idle EXCEPT !.d = d,
           !.pc = IF rows[d].status = "in_progress" THEN "dispatching" ELSE "starting"])
    /\ UNCHANGED <<rows, created, jobs, tenant, thrown>>

(* Cancelling through the API or a tool needs an active row; the           *)
(* deployment page does not look.  Both advance the row's server.          *)
Cancel(t, d) ==
    /\ rows' = [rows EXCEPT ![d].status = "cancelled"]
    /\ Goto(t, Loop({}, rows[d].server))
    /\ UNCHANGED <<created, jobs, tenant, thrown>>

CancelByApi(t, d) ==
    /\ At(t, "idle") /\ Intervention
    /\ rows[d].status \in Active
    /\ Cancel(t, d)

CancelByPage(t, d) ==
    /\ At(t, "idle") /\ Intervention
    /\ d <= created
    /\ Cancel(t, d)

-----------------------------------------------------------------------------
(* handle(): the refresh, the return when the row was cancelled, and       *)
(* update(['status' => in_progress, 'horizon_job_worker' => ..]), which    *)
(* leaves a status alone that was read in progress.                        *)
PickJob(t, d) ==
    /\ At(t, "idle") /\ jobs[d] > 0
    /\ jobs' = [jobs EXCEPT ![d] = @ - 1]
    /\ Goto(t, IF rows[d].status = "cancelled" THEN Idle
               ELSE [Idle EXCEPT !.d = d,
                        !.pc = IF rows[d].status = "in_progress" THEN "building" ELSE "marking"])
    /\ UNCHANGED <<rows, created, tenant, thrown, requests, interventions>>

HandleMarks(t) ==
    /\ At(t, "marking")
    /\ rows' = [rows EXCEPT ![thread[t].d].status = "in_progress"]
    /\ Goto(t, [thread[t] EXCEPT !.pc = "building"])
    /\ UNCHANGED <<created, jobs, tenant, thrown, requests, interventions>>

(* The build ends well, or with an exception or a timeout, which reach     *)
(* failed(); transitionToStatus refreshes the row.  A finished or failed   *)
(* row is left alone; a cancelled one, which checkForCancellation and      *)
(* execute_remote_command may find earlier, makes it throw.                *)
BuildEnds(t) ==
    /\ At(t, "building")
    /\ \/ /\ rows[thread[t].d].status \in Terminal
          /\ Goto(t, Idle)
       \/ /\ rows[thread[t].d].status \notin Terminal
          /\ \E outcome \in {"finished", "failed"} :
                 Goto(t, [thread[t] EXCEPT !.pc = "writing", !.seen = outcome])
    /\ UNCHANGED <<rows, created, jobs, tenant, thrown, requests, interventions>>

(* A success deploys to the additional server as well.                     *)
Spreads(row, outcome) ==
    /\ outcome = "finished"
    /\ Extra[row.app] # NoServer
    /\ ~row.only
    /\ row.pr = 0
    /\ row.server # Extra[row.app]

Transition(t, after) ==
    LET row == rows[thread[t].d]
        outcome == thread[t].seen IN
    /\ rows' = [rows EXCEPT ![thread[t].d].status = outcome]
    /\ Goto(t, IF Spreads(row, outcome)
               THEN [Idle EXCEPT !.pc = "spreading", !.after = after,
                                 !.req = Request(row.app, 0, Extra[row.app], FALSE)]
               ELSE Loop({}, after))
    /\ UNCHANGED <<created, jobs, tenant, thrown, requests, interventions>>

(* Mutant: a failed deployment does not advance the queue.                 *)
TransitionToStatusFailuresStop(t) ==
    /\ At(t, "writing")
    /\ Transition(t, IF thread[t].seen = "failed" THEN NoServer ELSE Home[rows[thread[t].d].app])

(* Mutant: the job writes nothing when it failed.                          *)
TransitionToStatusUnwritten(t) ==
    /\ At(t, "writing")
    /\ \/ thread[t].seen = "failed" /\ Goto(t, Idle)
                                    /\ UNCHANGED <<rows, created, jobs, tenant, thrown, requests, interventions>>
       \/ thread[t].seen # "failed" /\ Transition(t, Home[rows[thread[t].d].app])

(* updateDeploymentStatus, then the side effects (a success deploys to the *)
(* additional server), then queue_next_deployment: the queue of the        *)
(* server the APPLICATION lives on.                                        *)
TransitionToStatus(t) ==
    /\ At(t, "writing")
    /\ Transition(t, Home[rows[thread[t].d].app])

(* deploy_to_additional_destinations calls queue_application_deployment    *)
(* with no questions asked; a refusal is logged and the job goes on.       *)
DeployToAdditionalDestinations(t) ==
    /\ At(t, "spreading")
    /\ Goto(t, IF Accepted(thread[t].req, FALSE, FALSE) /\ Room
               THEN [thread[t] EXCEPT !.pc = "creating", !.ask = FALSE]
               ELSE Loop({}, thread[t].after))
    /\ UNCHANGED <<rows, created, jobs, tenant, thrown, requests, interventions>>

-----------------------------------------------------------------------------
(* The program stops and starts: threads are gone, Init.php marks every    *)
(* queued or running row failed, dispatched jobs wait in Redis.            *)
Restart ==
    /\ Intervention
    /\ rows' = [d \in Deployments |-> IF rows[d].status \in Active
                                      THEN [rows[d] EXCEPT !.status = "failed"] ELSE rows[d]]
    /\ thread' = [t \in Threads |-> Idle]
    /\ undispatched' = {} /\ cutShort' = {}
    /\ UNCHANGED <<created, jobs, tenant>>

SuspendTenant ==
    /\ Intervention
    /\ tenant = "active"
    /\ tenant' = "suspended"
    /\ UNCHANGED <<rows, created, jobs, thread, thrown>>

ReactivateTenant ==
    /\ tenant = "suspended"
    /\ tenant' = "reactivated"
    /\ UNCHANGED <<rows, created, jobs, thread, thrown, requests, interventions>>

UserStep(t) ==
    \/ \E app \in Apps :
          \/ \E pr \in PRs, force \in BOOLEAN : QueueApplicationDeployment(t, app, pr, force)
          \/ \E server \in Servers : Redeploy(t, app, server)
    \/ \E d \in Deployments : ForceStart(t, d) \/ CancelByApi(t, d) \/ CancelByPage(t, d)

ThreadStep(t) ==
    \/ Create(t) \/ LookAtRow(t) \/ MarkStarted(t) \/ Snapshot(t)
    \/ Dispatch(t) \/ DispatchFails(t) \/ AdvanceFails(t)
    \/ HandleMarks(t) \/ BuildEnds(t) \/ TransitionToStatus(t)
    \/ DeployToAdditionalDestinations(t)

PickUp(d) == \E t \in Threads : PickJob(t, d)

Next ==
    \/ \E t \in Threads : UserStep(t) \/ ThreadStep(t)
    \/ \E d \in Deployments : PickUp(d)
    \/ Restart \/ SuspendTenant \/ ReactivateTenant

Spec == Init /\ [][Next]_vars

(* A running request or job goes on or throws, a build ends (the job has a *)
(* timeout), and workers take what is dispatched.  Users promise nothing. *)
LiveSpec ==
    /\ Spec
    /\ \A t \in Threads : WF_vars(ThreadStep(t))
    /\ \A d \in Deployments : WF_vars(PickUp(d))

-----------------------------------------------------------------------------
(* A row in progress has somebody who will end it: a dispatched job, a     *)
(* running one, or a thread about to dispatch one.  However starts,        *)
(* cancellations, second jobs and restarts interleave, no row is left in   *)
(* progress with nobody working on it, where it would block its            *)
(* application and take one of the server's builds for good, but one whose *)
(* own dispatch threw after the status was written.                        *)
InProgressHasJob ==
    \A d \in Deployments :
        rows[d].status = "in_progress" =>
            \/ d \in undispatched
            \/ jobs[d] > 0
            \/ \E t \in Threads : /\ thread[t].d = d
                                  /\ thread[t].pc \in JobPCs \cup {"dispatching"}

(* The row inserted first and looked at afterwards: a deployment whose     *)
(* start was refused is queued while the one that refused it is still in   *)
(* progress, so the scan at that one's end sees it.  Whenever nobody is at *)
(* work, no queued row of an active tenant could be started, unless the    *)
(* last scan of its server's queue threw, or a deployment away from its    *)
(* application's own server shares the row's server or application.        *)
Entangled(d) == \E e \in 1 .. created :
    /\ rows[e].server # Home[rows[e].app]
    /\ rows[e].server = rows[d].server \/ rows[e].app = rows[d].app

Unscanned(d) == rows[d].server \in cutShort

NoLostWakeup ==
    /\ \A t \in Threads : At(t, "idle")
    /\ tenant = "active"
    => \A d \in Deployments :
          rows[d].status = "queued" /\ ~Entangled(d) /\ ~Unscanned(d) => ~NextQueuable(d)

(* Every deployment comes to an end: one that was dispatched, always; a    *)
(* queued one of an active tenant while every deployment it meets runs on  *)
(* its application's own server and no exception came in between.  (The    *)
(* end of a deployment on an additional server advances the queue of the   *)
(* application's own server, its cancellation only the queue of the        *)
(* additional one, a reactivated tenant's queue is advanced by nobody, and *)
(* a row whose dispatch threw blocks the rows it meets until somebody      *)
(* cancels it: there a queued row can wait for good.)                      *)
Stranded(d) == rows[d].status = "in_progress" /\ d \in undispatched

BehindStranded(d) == \E e \in Deployments :
    Stranded(e) /\ (rows[e].server = rows[d].server \/ rows[e].app = rows[d].app)

MayWait(d) ==
    /\ rows[d].status = "queued"
    /\ tenant # "active" \/ Entangled(d) \/ Unscanned(d) \/ BehindStranded(d)

EveryDeploymentEnds ==
    \A d \in Deployments :
        rows[d].status \in Active ~>
            (rows[d].status \in Terminal \/ MayWait(d) \/ Stranded(d))
=============================================================================
