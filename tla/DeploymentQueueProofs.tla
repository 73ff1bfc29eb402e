----------------------- MODULE DeploymentQueueProofs -----------------------
(***************************************************************************)
(* The deployment queue for any number of threads, applications, servers   *)
(* and deployments: a deployment in progress always has somebody who will  *)
(* end it, and no queued one is forgotten, whatever exceptions cut off; a  *)
(* row whose own dispatch threw, and the queue of a server whose scan was  *)
(* cut short, are what the exceptions leave behind.                        *)
(*                                                                         *)
(* InProgressHasJob needs to know what threads carry between their         *)
(* statements: the row a thread is about to start or works on exists, a    *)
(* row it is about to insert is queued, and an outcome it is about to      *)
(* write is an end.  That the row exists rests on the ids reserved by the  *)
(* threads that are creating one.                                          *)
(*                                                                         *)
(* NoLostWakeup speaks of the moments when nobody is at work.  Its         *)
(* invariant speaks of all: a queued row that nothing blocks is watched by *)
(* some thread.  A step that refuses a row saw what blocks it, and a step  *)
(* that ends what blocks it owes a scan of the row's server, because what  *)
(* blocks it lives on its application's own server (Entangled excludes the *)
(* rest).                                                                  *)
(***************************************************************************)
EXTENDS DeploymentQueue, FiniteSetTheorems, TLAPS

USE DEF thrown

ThreadStates ==
  [pc : PCs, d : 0 .. MaxDeployments, seen : Statuses, todo : SUBSET Deployments,
   after : Servers \cup {NoServer}, req : Rows, ask : BOOLEAN]

WorkPCs == JobPCs \cup {"dispatching"}

Carries(x) ==
  /\ x.pc \in WorkPCs \cup {"starting"} => x.d \in Deployments
  /\ x.pc = "writing" => x.seen \in {"finished", "failed"}
  /\ x.pc \in {"creating", "spreading"} => x.req.status = "queued"

Works(x, d) == x.d = d /\ x.pc \in WorkPCs

Creating == {t \in Threads : At(t, "creating")}
Reserved == created + Cardinality(Creating) <= MaxDeployments

Inv ==
  /\ TypeOK
  /\ \A t \in Threads : Carries(thread[t])
  /\ Reserved
  /\ InProgressHasJob

-----------------------------------------------------------------------------
LEMMA NoRowType == NoRow \in Rows
<1>1. (CHOOSE a \in Apps : TRUE) \in Apps
  BY DeploymentAssumption
<1> QED BY <1>1, DeploymentAssumption DEF NoRow, Rows, Statuses, Terminal, Active

(* What a thread does when it has nothing in hand.                         *)
LEMMA IdleFacts == Idle \in ThreadStates /\ Carries(Idle) /\ Idle.pc = "idle"
<1>1. Idle.pc = "idle"
  BY DEF Idle
<1>2. 0 \in 0 .. MaxDeployments
  BY DeploymentAssumption
<1>3. Idle \in ThreadStates
  BY <1>2, NoRowType DEF Idle, ThreadStates, PCs, Statuses
<1> QED BY <1>1, <1>3 DEF Carries, WorkPCs, JobPCs

LEMMA LoopFacts ==
  ASSUME NEW todo \in SUBSET Deployments, NEW after \in Servers \cup {NoServer}
  PROVE  /\ Loop(todo, after) \in ThreadStates /\ Carries(Loop(todo, after))
         /\ Loop(todo, after).pc \in {"idle", "scanning"}
<1>1. CASE todo = {} /\ after = NoServer
  BY <1>1, IdleFacts DEF Loop
<1>2. CASE ~(todo = {} /\ after = NoServer)
  <2> DEFINE x == [Idle EXCEPT !.pc = "scanning", !.todo = todo, !.after = after]
  <2>1. Loop(todo, after) = x
    BY <1>2 DEF Loop
  <2>2. x \in ThreadStates /\ x.pc = "scanning"
    BY IdleFacts DEF ThreadStates, PCs
  <2> QED BY <2>1, <2>2 DEF Carries, WorkPCs, JobPCs
<1> QED BY <1>1, <1>2

(* One thread goes on, the others stay where they are.                     *)
LEMMA OneThread ==
  ASSUME Inv, NEW t \in Threads, NEW x \in ThreadStates, Carries(x), Goto(t, x)
  PROVE  /\ thread' \in [Threads -> ThreadStates]
         /\ \A u \in Threads : Carries(thread[u])'
         /\ thread'[t] = x /\ \A u \in Threads \ {t} : thread'[u] = thread[u]
<1>1. thread \in [Threads -> ThreadStates] /\ thread' = [thread EXCEPT ![t] = x]
  BY DEF Inv, TypeOK, ThreadStates, Goto
<1>2. thread' \in [Threads -> ThreadStates]
  BY <1>1
<1>3. thread'[t] = x /\ \A u \in Threads \ {t} : thread'[u] = thread[u]
  BY <1>1
<1>4. ASSUME NEW u \in Threads PROVE Carries(thread'[u])
  BY <1>3 DEF Inv
<1> QED BY <1>2, <1>3, <1>4

LEMMA CreatingFacts ==
  ASSUME Inv
  PROVE  /\ IsFiniteSet(Creating) /\ Cardinality(Creating) \in Nat
         /\ created \in Nat /\ created <= MaxDeployments /\ MaxDeployments \in Nat
         /\ created + Cardinality(Creating) <= MaxDeployments
<1>1. IsFiniteSet(Creating) /\ Cardinality(Creating) \in Nat
  BY DeploymentAssumption, FS_Subset, FS_CardinalityType DEF Creating
<1> QED BY <1>1, DeploymentAssumption DEF Inv, TypeOK, Reserved

(* A thread that does not create leaves the ids reserved as they are.      *)
LEMMA ReservedSame ==
  ASSUME Inv, NEW t \in Threads, NEW x \in ThreadStates, Carries(x), Goto(t, x),
         x.pc # "creating", created' = created
  PROVE  Reserved'
<1>1. Creating' = Creating \ {t}
  BY OneThread DEF Creating, At
<1>2. Cardinality(Creating \ {t}) <= Cardinality(Creating)
  BY CreatingFacts, FS_RemoveElement
<1>3. Cardinality(Creating \ {t}) \in Nat
  BY CreatingFacts, FS_RemoveElement, FS_CardinalityType
<1> QED BY <1>1, <1>2, <1>3, CreatingFacts DEF Reserved

(* A thread begins to create while there is room.                          *)
LEMMA ReservedMore ==
  ASSUME Inv, NEW t \in Threads, NEW x \in ThreadStates, Carries(x), Goto(t, x),
         x.pc = "creating", Room, created' = created
  PROVE  Reserved'
<1>1. Creating' = Creating \cup {t}
  BY OneThread DEF Creating, At
<1>2. Cardinality(Creating \cup {t}) \in {Cardinality(Creating), Cardinality(Creating) + 1}
  BY CreatingFacts, FS_AddElement
<1>3. Cardinality(Creating \cup {t}) \in Nat
  BY CreatingFacts, FS_AddElement, FS_CardinalityType
<1>4. created + Cardinality(Creating) < MaxDeployments
  BY DEF Room, Creating
<1> QED BY <1>1, <1>2, <1>3, <1>4, CreatingFacts DEF Reserved

(* The insert takes the id that its thread reserved.                       *)
LEMMA ReservedUsed ==
  ASSUME Inv, NEW t \in Threads, NEW x \in ThreadStates, Carries(x), Goto(t, x),
         x.pc # "creating", At(t, "creating"), created' = created + 1
  PROVE  Reserved'
<1>1. Creating' = Creating \ {t}
  BY OneThread DEF Creating, At
<1>2. Cardinality(Creating \ {t}) = Cardinality(Creating) - 1
  BY CreatingFacts, FS_RemoveElement DEF Creating
<1> QED BY <1>1, <1>2, CreatingFacts DEF Reserved

LEMMA NextIdFree ==
  ASSUME Inv, NEW t \in Threads, At(t, "creating")
  PROVE  created + 1 \in Deployments /\ created + 1 \in 0 .. MaxDeployments
<1>1. Cardinality(Creating) # 0
  BY CreatingFacts, FS_EmptySet DEF Creating
<1> QED BY <1>1, CreatingFacts DEF Deployments

(* Who worked on a row still does, unless it handed the row to a job, or   *)
(* could not.                                                              *)
LEMMA StillWorked ==
  ASSUME Inv, NEW t \in Threads, NEW x \in ThreadStates, Carries(x), Goto(t, x),
         \A d \in Deployments : rows'[d].status = "in_progress" =>
           \/ Works(x, d) \/ d \in undispatched'
           \/ /\ rows[d].status = "in_progress"
              /\ d \in undispatched => d \in undispatched' \/ jobs'[d] > 0
              /\ jobs[d] > 0 => jobs'[d] > 0
              /\ Works(thread[t], d) => jobs'[d] > 0
  PROVE  InProgressHasJob'
<1>1. thread'[t] = x /\ \A u \in Threads \ {t} : thread'[u] = thread[u]
  BY OneThread
<1>2. ASSUME NEW d \in Deployments, rows'[d].status = "in_progress"
      PROVE  d \in undispatched' \/ jobs'[d] > 0 \/ \E u \in Threads : Works(thread'[u], d)
  <2>1. CASE Works(x, d) \/ d \in undispatched' BY <1>1, <2>1
  <2>2. CASE ~(Works(x, d) \/ d \in undispatched')
    <3>1. /\ rows[d].status = "in_progress"
          /\ d \in undispatched => d \in undispatched' \/ jobs'[d] > 0
          /\ jobs[d] > 0 => jobs'[d] > 0
          /\ Works(thread[t], d) => jobs'[d] > 0
      BY <1>2, <2>2
    <3>2. d \in undispatched \/ jobs[d] > 0 \/ \E u \in Threads : Works(thread[u], d)
      BY <3>1 DEF Inv, InProgressHasJob, Works, WorkPCs
    <3> QED BY <1>1, <3>1, <3>2
  <2> QED BY <2>1, <2>2
<1> QED BY <1>2 DEF InProgressHasJob, Works, WorkPCs

-----------------------------------------------------------------------------
(* Everything but the threads and what they work on.                       *)
RestOK ==
  /\ rows \in [Deployments -> Rows] /\ jobs \in [Deployments -> Nat]
  /\ created \in 0 .. MaxDeployments
  /\ tenant \in {"active", "suspended", "reactivated"}
  /\ undispatched \subseteq Deployments /\ cutShort \subseteq Servers
  /\ requests \in 0 .. MaxRequests /\ interventions \in 0 .. MaxInterventions

LEMMA Counters ==
  ASSUME Inv
  PROVE  /\ UserAsks => requests' \in 0 .. MaxRequests /\ interventions' \in 0 .. MaxInterventions
         /\ Intervention => requests' \in 0 .. MaxRequests /\ interventions' \in 0 .. MaxInterventions
BY DeploymentAssumption DEF Inv, TypeOK, UserAsks, Intervention

LEMMA Assemble ==
  ASSUME Inv, NEW t \in Threads, NEW x \in ThreadStates, Carries(x), Goto(t, x),
         RestOK', Reserved', InProgressHasJob'
  PROVE  Inv'
<1>1. thread' \in [Threads -> ThreadStates] /\ \A u \in Threads : Carries(thread[u])'
  BY OneThread
<1>2. TypeOK'
  BY <1>1 DEF TypeOK, RestOK, ThreadStates
<1> QED BY <1>1, <1>2 DEF Inv

(* A step that only moves its thread, which is not at work on a row, or    *)
(* stays at work on the same one.                                          *)
LEMMA OnlyMoves ==
  ASSUME Inv, NEW t \in Threads, NEW x \in ThreadStates, Carries(x), Goto(t, x),
         x.pc # "creating" \/ Room, RestOK',
         rows' = rows, jobs' = jobs, created' = created, undispatched' = undispatched,
         \A d \in Deployments : rows[d].status = "in_progress" /\ Works(thread[t], d) => Works(x, d)
  PROVE  Inv'
<1>1. Reserved'
  BY ReservedSame, ReservedMore
<1>2. InProgressHasJob'
  BY StillWorked
<1> QED BY <1>1, <1>2, Assemble

LEMMA NotAtWork ==
  ASSUME NEW t \in Threads, thread[t].pc \notin WorkPCs
  PROVE  \A d \in Deployments : ~Works(thread[t], d)
BY DEF Works

(* What the two ways to ask for a deployment have in common.               *)
LEMMA RequestForm ==
  ASSUME NEW t \in Threads, NEW app \in Apps,
         \/ \E pr \in PRs, force \in BOOLEAN : QueueApplicationDeployment(t, app, pr, force)
         \/ \E server \in Servers : Redeploy(t, app, server)
  PROVE  \E pr \in PRs, server \in Servers, only \in BOOLEAN, ask \in BOOLEAN :
           /\ At(t, "idle") /\ UserAsks /\ Room
           /\ Goto(t, [Idle EXCEPT !.pc = "creating", !.req = Request(app, pr, server, only), !.ask = ask])
           /\ UNCHANGED <<rows, created, jobs, tenant, undispatched, cutShort>>
<1>1. CASE \E pr \in PRs, force \in BOOLEAN : QueueApplicationDeployment(t, app, pr, force)
  <2>1. PICK pr \in PRs, force \in BOOLEAN : QueueApplicationDeployment(t, app, pr, force)
    BY <1>1
  <2>2. Home[app] \in Servers
    BY DeploymentAssumption
  <2> QED BY <2>1, <2>2 DEF QueueApplicationDeployment
<1>2. CASE \E server \in Servers : Redeploy(t, app, server)
  BY <1>2, DeploymentAssumption DEF Redeploy
<1> QED BY <1>1, <1>2

(* A request is accepted and its thread reserves a row.                    *)
LEMMA RequestSteps ==
  ASSUME Inv, NEW t \in Threads, NEW app \in Apps,
         \/ \E pr \in PRs, force \in BOOLEAN : QueueApplicationDeployment(t, app, pr, force)
         \/ \E server \in Servers : Redeploy(t, app, server)
  PROVE  Inv'
<1>1. PICK pr \in PRs, server \in Servers, only \in BOOLEAN, ask \in BOOLEAN :
         /\ At(t, "idle") /\ UserAsks /\ Room
         /\ Goto(t, [Idle EXCEPT !.pc = "creating", !.req = Request(app, pr, server, only), !.ask = ask])
         /\ UNCHANGED <<rows, created, jobs, tenant, undispatched, cutShort>>
  BY RequestForm
<1> DEFINE x == [Idle EXCEPT !.pc = "creating", !.req = Request(app, pr, server, only), !.ask = ask]
<1>2. Request(app, pr, server, only) \in Rows /\ Request(app, pr, server, only).status = "queued"
  BY DEF Request, Rows, Statuses, Active
<1>3. /\ x \in ThreadStates /\ x.pc = "creating" /\ x.req = Request(app, pr, server, only)
  BY <1>2, IdleFacts DEF ThreadStates, PCs
<1>4. Carries(x)
  BY <1>2, <1>3 DEF Carries, WorkPCs, JobPCs
<1>5. RestOK'
  BY <1>1, Counters DEF RestOK, Inv, TypeOK
<1>6. \A d \in Deployments : ~Works(thread[t], d)
  BY <1>1, NotAtWork DEF At, WorkPCs, JobPCs
<1> HIDE DEF x
<1>7. Goto(t, x)
  BY <1>1 DEF x
<1> QED BY <1>1, <1>3, <1>4, <1>5, <1>6, <1>7, OnlyMoves

LEMMA CreateStep ==
  ASSUME Inv, NEW t \in Threads, Create(t)
  PROVE  Inv'
<1> DEFINE e == created + 1
           y == [Idle EXCEPT !.pc = "starting", !.d = e, !.after = thread[t].after]
           x == IF thread[t].ask THEN Loop({e}, NoServer) ELSE y
<1>1. /\ At(t, "creating") /\ created' = e /\ rows' = [rows EXCEPT ![e] = thread[t].req]
      /\ Goto(t, x) /\ UNCHANGED <<jobs, tenant, undispatched, cutShort, requests, interventions>>
  BY DEF Create
<1>2. e \in Deployments /\ e \in 0 .. MaxDeployments
  BY <1>1, NextIdFree
<1>3. thread[t] \in ThreadStates /\ Carries(thread[t])
  BY DEF Inv, TypeOK, ThreadStates
<1>4. thread[t].req \in Rows /\ thread[t].req.status = "queued" /\ thread[t].after \in Servers \cup {NoServer}
  BY <1>1, <1>3 DEF ThreadStates, Carries, At
<1>5. y \in ThreadStates /\ y.pc = "starting" /\ y.d = e
  BY <1>2, <1>4, IdleFacts DEF ThreadStates, PCs
<1>6. Carries(y)
  BY <1>2, <1>5 DEF Carries
<1>7. x \in ThreadStates /\ Carries(x) /\ x.pc # "creating"
  <2>1. Loop({e}, NoServer) \in ThreadStates /\ Carries(Loop({e}, NoServer))
        /\ Loop({e}, NoServer).pc \in {"idle", "scanning"}
    BY <1>2, LoopFacts
  <2> QED BY <1>5, <1>6, <2>1
<1>8. RestOK'
  BY <1>1, <1>2, <1>4 DEF Inv, TypeOK, RestOK
<1> HIDE DEF e, x
<1>9. Reserved'
  BY <1>1, <1>7, ReservedUsed DEF e
<1>10. InProgressHasJob'
  <2>1. rows \in [Deployments -> Rows]
    BY DEF Inv, TypeOK
  <2>2. \A d \in Deployments : rows'[d].status = "in_progress" => rows[d].status = "in_progress"
    BY <1>1, <1>2, <1>4, <2>1
  <2>3. \A d \in Deployments : ~Works(thread[t], d)
    BY <1>1, NotAtWork DEF At, WorkPCs, JobPCs
  <2> QED BY <1>1, <1>7, <2>2, <2>3, StillWorked
<1> QED BY <1>1, <1>7, <1>8, <1>9, <1>10, Assemble

-----------------------------------------------------------------------------
LEMMA ThreadFacts ==
  ASSUME Inv, NEW t \in Threads
  PROVE  /\ thread[t] \in ThreadStates /\ Carries(thread[t])
         /\ thread[t].d \in 0 .. MaxDeployments /\ thread[t].todo \in SUBSET Deployments
         /\ thread[t].after \in Servers \cup {NoServer}
         /\ rows \in [Deployments -> Rows] /\ jobs \in [Deployments -> Nat] /\ RestOK
<1>1. thread[t] \in ThreadStates /\ Carries(thread[t])
  BY DEF Inv, TypeOK, ThreadStates
<1> QED BY <1>1 DEF Inv, TypeOK, RestOK, ThreadStates

LEMMA LookAtRowStep ==
  ASSUME Inv, NEW t \in Threads, LookAtRow(t)
  PROVE  Inv'
<1>1. PICK d \in thread[t].todo :
        /\ At(t, "scanning")
        /\ Goto(t, IF NextQueuable(d)
                   THEN [thread[t] EXCEPT !.pc = "starting", !.d = d, !.todo = @ \ {d}]
                   ELSE Loop(thread[t].todo \ {d}, thread[t].after))
        /\ UNCHANGED <<rows, created, jobs, tenant, undispatched, cutShort, requests, interventions>>
  BY DEF LookAtRow
<1> DEFINE y == [thread[t] EXCEPT !.pc = "starting", !.d = d, !.todo = @ \ {d}]
           z == Loop(thread[t].todo \ {d}, thread[t].after)
           x == IF NextQueuable(d) THEN y ELSE z
<1>2. d \in Deployments /\ d \in 0 .. MaxDeployments
  BY ThreadFacts, DeploymentAssumption DEF Deployments
<1>3. y \in ThreadStates /\ y.pc = "starting" /\ y.d = d
  BY <1>2, ThreadFacts DEF ThreadStates, PCs
<1>4. Carries(y)
  BY <1>2, <1>3 DEF Carries
<1>5. z \in ThreadStates /\ Carries(z) /\ z.pc \in {"idle", "scanning"}
  <2>1. thread[t].todo \ {d} \in SUBSET Deployments /\ thread[t].after \in Servers \cup {NoServer}
    BY ThreadFacts
  <2> QED BY <2>1, LoopFacts
<1>6. x \in ThreadStates /\ Carries(x) /\ x.pc # "creating"
  BY <1>3, <1>4, <1>5
<1> HIDE DEF x
<1>7. RestOK'
  BY <1>1, ThreadFacts DEF RestOK
<1>8. \A f \in Deployments : ~Works(thread[t], f)
  BY <1>1, NotAtWork DEF At, WorkPCs, JobPCs
<1>9. Goto(t, x)
  BY <1>1 DEF x
<1> QED BY <1>1, <1>6, <1>7, <1>8, <1>9, OnlyMoves

LEMMA SnapshotStep ==
  ASSUME Inv, NEW t \in Threads, Snapshot(t)
  PROVE  Inv'
<1> DEFINE x == Loop(OnServer(thread[t].after, "queued"), NoServer)
<1>1. /\ At(t, "scanning") /\ Goto(t, x) /\ cutShort' = cutShort \ {thread[t].after}
      /\ UNCHANGED <<rows, created, jobs, tenant, undispatched, requests, interventions>>
  BY DEF Snapshot
<1>2. x \in ThreadStates /\ Carries(x) /\ x.pc \in {"idle", "scanning"}
  BY LoopFacts DEF OnServer
<1> HIDE DEF x
<1>3. RestOK'
  BY <1>1, ThreadFacts DEF RestOK
<1>4. \A f \in Deployments : ~Works(thread[t], f)
  BY <1>1, NotAtWork DEF At, WorkPCs, JobPCs
<1> QED BY <1>1, <1>2, <1>3, <1>4, OnlyMoves

(* Writing a status keeps the table's type.                                *)
LEMMA WriteStatus ==
  ASSUME Inv, NEW d \in Deployments, NEW status \in Statuses,
         rows' = [rows EXCEPT ![d].status = status]
  PROVE  /\ rows' \in [Deployments -> Rows] /\ rows'[d].status = status
         /\ \A f \in Deployments \ {d} : rows'[f] = rows[f]
<1>1. rows \in [Deployments -> Rows]
  BY DEF Inv, TypeOK
<1>2. rows[d] \in Rows
  BY <1>1
<1>3. [rows[d] EXCEPT !.status = status] \in Rows /\ [rows[d] EXCEPT !.status = status].status = status
  BY <1>2 DEF Rows
<1> QED BY <1>1, <1>3

(* A row is marked by the thread that will dispatch or run its job.        *)
LEMMA MarkSteps ==
  ASSUME Inv, NEW t \in Threads, MarkStarted(t) \/ HandleMarks(t)
  PROVE  Inv'
<1>1. PICK pc \in {"dispatching", "building"} :
        /\ thread[t].pc \in {"starting", "marking"}
        /\ rows' = [rows EXCEPT ![thread[t].d].status = "in_progress"]
        /\ Goto(t, [thread[t] EXCEPT !.pc = pc])
        /\ UNCHANGED <<created, jobs, tenant, undispatched, cutShort, requests, interventions>>
  BY DEF MarkStarted, HandleMarks, At
<1> DEFINE x == [thread[t] EXCEPT !.pc = pc]
<1>2. thread[t].d \in Deployments
  BY <1>1, ThreadFacts DEF Carries, WorkPCs, JobPCs
<1>3. x \in ThreadStates /\ x.pc = pc /\ x.d = thread[t].d
  BY ThreadFacts DEF ThreadStates, PCs, JobPCs
<1>4. Carries(x) /\ Works(x, thread[t].d) /\ x.pc # "creating"
  BY <1>2, <1>3 DEF Carries, Works, WorkPCs, JobPCs
<1> HIDE DEF x
<1>5. Goto(t, x)
  BY <1>1 DEF x
<1>6. /\ rows' \in [Deployments -> Rows]
      /\ \A f \in Deployments \ {thread[t].d} : rows'[f] = rows[f]
  BY <1>1, <1>2, WriteStatus DEF Statuses, Active
<1>7. RestOK'
  BY <1>1, <1>6, ThreadFacts DEF RestOK
<1>8. \A f \in Deployments \ {thread[t].d} : ~Works(thread[t], f)
  BY DEF Works
<1>9. Reserved'
  BY <1>1, <1>3, <1>4, <1>5, ReservedSame
<1>10. InProgressHasJob'
  BY <1>1, <1>3, <1>4, <1>5, <1>6, <1>8, StillWorked
<1> QED BY <1>3, <1>4, <1>5, <1>7, <1>9, <1>10, Assemble

LEMMA DispatchStep ==
  ASSUME Inv, NEW t \in Threads, Dispatch(t)
  PROVE  Inv'
<1> DEFINE x == Loop(thread[t].todo, thread[t].after)
           e == thread[t].d
<1>1. /\ At(t, "dispatching") /\ jobs' = [jobs EXCEPT ![e] = @ + 1] /\ Goto(t, x)
      /\ undispatched' = undispatched \ {e}
      /\ UNCHANGED <<rows, created, tenant, cutShort, requests, interventions>>
  BY DEF Dispatch
<1>2. e \in Deployments
  BY <1>1, ThreadFacts DEF Carries, WorkPCs, At
<1>3. x \in ThreadStates /\ Carries(x) /\ x.pc \in {"idle", "scanning"}
  BY ThreadFacts, LoopFacts
<1>4. jobs \in [Deployments -> Nat]
  BY ThreadFacts
<1> HIDE DEF x
<1>5. jobs' \in [Deployments -> Nat] /\ jobs'[e] > 0 /\ \A f \in Deployments \ {e} : jobs'[f] = jobs[f]
  BY <1>1, <1>2, <1>4
<1>6. RestOK'
  BY <1>1, <1>5, ThreadFacts DEF RestOK
<1>7. \A f \in Deployments \ {e} : ~Works(thread[t], f)
  BY DEF Works
<1>8. Reserved'
  BY <1>1, <1>3, ReservedSame
<1>9. InProgressHasJob'
  <2> HIDE DEF e
  <2>1. \A f \in Deployments : /\ jobs[f] > 0 => jobs'[f] > 0
                               /\ Works(thread[t], f) => jobs'[f] > 0
                               /\ f \in undispatched => f \in undispatched' \/ jobs'[f] > 0
    BY <1>1, <1>5, <1>7
  <2> QED BY <1>1, <1>3, <2>1, StillWorked
<1> QED BY <1>1, <1>3, <1>6, <1>8, <1>9, Assemble

(* A thread that dies leaves nothing in progress but the row it could not  *)
(* dispatch.                                                               *)
LEMMA DiesStep ==
  ASSUME Inv, NEW t \in Threads, DispatchFails(t) \/ AdvanceFails(t)
  PROVE  Inv'
<1>1. /\ Intervention /\ Goto(t, Idle) /\ UNCHANGED <<rows, created, jobs, tenant>>
      /\ cutShort' = cutShort \cup
           (({rows[d].server : d \in thread[t].todo} \cup {thread[t].after}) \ {NoServer})
  BY DEF DispatchFails, AdvanceFails, Dies
<1>2. cutShort' \subseteq Servers
  <2>1. \A d \in Deployments : rows[d].server \in Servers \cup {NoServer}
    BY ThreadFacts DEF Rows
  <2> QED BY <1>1, <2>1, ThreadFacts DEF RestOK
<1>3. \/ thread[t].pc \notin WorkPCs /\ undispatched' = undispatched
      \/ /\ thread[t].d \in Deployments
         /\ undispatched' = undispatched \cup {thread[t].d}
  BY ThreadFacts DEF DispatchFails, AdvanceFails, At, WorkPCs, JobPCs, Carries
<1>4. RestOK'
  <2>1. undispatched' \subseteq Deployments
    BY <1>3, ThreadFacts DEF RestOK
  <2> QED BY <1>1, <1>2, <2>1, Counters, ThreadFacts DEF RestOK
<1>5. \A d \in Deployments : /\ d \in undispatched => d \in undispatched'
                             /\ Works(thread[t], d) => d \in undispatched'
  BY <1>3 DEF Works
<1>6. Idle \in ThreadStates /\ Carries(Idle) /\ Idle.pc # "creating"
  BY IdleFacts
<1>7. Reserved'
  BY <1>1, <1>6, ReservedSame
<1>8. InProgressHasJob'
  BY <1>1, <1>5, <1>6, StillWorked
<1> QED BY <1>1, <1>4, <1>6, <1>7, <1>8, Assemble

LEMMA ForceStartStep ==
  ASSUME Inv, NEW t \in Threads, NEW d \in Deployments, ForceStart(t, d)
  PROVE  Inv'
<1>1. PICK pc \in {"dispatching", "starting"} :
        /\ At(t, "idle") /\ Intervention
        /\ Goto(t, [Idle EXCEPT !.d = d, !.pc = pc])
        /\ UNCHANGED <<rows, created, jobs, tenant, undispatched, cutShort>>
  BY DEF ForceStart
<1> DEFINE x == [Idle EXCEPT !.d = d, !.pc = pc]
<1>2. d \in 0 .. MaxDeployments
  BY DeploymentAssumption DEF Deployments
<1>3. x \in ThreadStates /\ x.pc = pc /\ x.d = d
  BY <1>2, IdleFacts DEF ThreadStates, PCs
<1>4. Carries(x) /\ x.pc # "creating"
  BY <1>3 DEF Carries
<1> HIDE DEF x
<1>5. Goto(t, x)
  BY <1>1 DEF x
<1>6. RestOK'
  BY <1>1, Counters, ThreadFacts DEF RestOK
<1>7. \A f \in Deployments : ~Works(thread[t], f)
  BY <1>1, NotAtWork DEF At, WorkPCs, JobPCs
<1> QED BY <1>1, <1>3, <1>4, <1>5, <1>6, <1>7, OnlyMoves

LEMMA CancelSteps ==
  ASSUME Inv, NEW t \in Threads, NEW d \in Deployments, CancelByApi(t, d) \/ CancelByPage(t, d)
  PROVE  Inv'
<1> DEFINE x == Loop({}, rows[d].server)
<1>1. /\ At(t, "idle") /\ Intervention /\ rows' = [rows EXCEPT ![d].status = "cancelled"]
      /\ Goto(t, x) /\ UNCHANGED <<created, jobs, tenant, undispatched, cutShort>>
  BY DEF CancelByApi, CancelByPage, Cancel
<1>2. rows[d].server \in Servers \cup {NoServer}
  BY ThreadFacts DEF Rows
<1>3. x \in ThreadStates /\ Carries(x) /\ x.pc \in {"idle", "scanning"}
  BY <1>2, LoopFacts
<1> HIDE DEF x
<1>4. /\ rows' \in [Deployments -> Rows] /\ rows'[d].status = "cancelled"
      /\ \A f \in Deployments \ {d} : rows'[f] = rows[f]
  BY <1>1, WriteStatus DEF Statuses, Terminal
<1>5. RestOK'
  BY <1>1, <1>4, Counters, ThreadFacts DEF RestOK
<1>6. \A f \in Deployments : ~Works(thread[t], f)
  BY <1>1, NotAtWork DEF At, WorkPCs, JobPCs
<1>7. Reserved'
  BY <1>1, <1>3, ReservedSame
<1>8. InProgressHasJob'
  <2>1. \A f \in Deployments : rows'[f].status = "in_progress" => rows[f].status = "in_progress"
    BY <1>4
  <2> QED BY <1>1, <1>3, <1>6, <2>1, StillWorked
<1> QED BY <1>1, <1>3, <1>5, <1>7, <1>8, Assemble

(* The job that is taken off the queue is at work on its row, unless the   *)
(* row was cancelled.                                                      *)
LEMMA PickJobStep ==
  ASSUME Inv, NEW t \in Threads, NEW d \in Deployments, PickJob(t, d)
  PROVE  Inv'
<1> DEFINE y == [Idle EXCEPT !.d = d,
                   !.pc = IF rows[d].status = "in_progress" THEN "building" ELSE "marking"]
           x == IF rows[d].status = "cancelled" THEN Idle ELSE y
<1>1. /\ At(t, "idle") /\ jobs[d] > 0 /\ jobs' = [jobs EXCEPT ![d] = @ - 1] /\ Goto(t, x)
      /\ UNCHANGED <<rows, created, tenant, undispatched, cutShort, requests, interventions>>
  BY DEF PickJob
<1>2. d \in 0 .. MaxDeployments
  BY DeploymentAssumption DEF Deployments
<1>3. y \in ThreadStates /\ y.pc \in {"building", "marking"} /\ y.d = d
  BY <1>2, IdleFacts DEF ThreadStates, PCs, JobPCs
<1>4. Carries(y) /\ Works(y, d)
  BY <1>3 DEF Carries, Works, WorkPCs, JobPCs
<1>5. x \in ThreadStates /\ Carries(x) /\ x.pc # "creating"
  BY <1>3, <1>4, IdleFacts
<1>6. rows[d].status = "in_progress" => Works(x, d)
  BY <1>4
<1> HIDE DEF x
<1>7. jobs' \in [Deployments -> Nat] /\ \A f \in Deployments \ {d} : jobs'[f] = jobs[f]
  <2>1. jobs \in [Deployments -> Nat]
    BY ThreadFacts
  <2> QED BY <1>1, <2>1
<1>8. RestOK'
  BY <1>1, <1>7, ThreadFacts DEF RestOK
<1>9. \A f \in Deployments : ~Works(thread[t], f)
  BY <1>1, NotAtWork DEF At, WorkPCs, JobPCs
<1>10. Reserved'
  BY <1>1, <1>5, ReservedSame
<1>11. InProgressHasJob'
  <2>1. \A f \in Deployments : rows[f].status = "in_progress"
          => Works(x, f) \/ (jobs[f] > 0 => jobs'[f] > 0)
    BY <1>6, <1>7
  <2> QED BY <1>1, <1>5, <1>9, <2>1, StillWorked
<1> QED BY <1>1, <1>5, <1>8, <1>10, <1>11, Assemble

LEMMA BuildEndsStep ==
  ASSUME Inv, NEW t \in Threads, BuildEnds(t)
  PROVE  Inv'
<1>1. At(t, "building") /\ UNCHANGED <<rows, created, jobs, tenant, undispatched, cutShort, requests, interventions>>
  BY DEF BuildEnds
<1>2. RestOK'
  BY <1>1, ThreadFacts DEF RestOK
<1>3. CASE rows[thread[t].d].status \in Terminal /\ Goto(t, Idle)
  <2>1. \A f \in Deployments : ~(rows[f].status = "in_progress" /\ Works(thread[t], f))
    BY <1>3 DEF Works, Terminal
  <2> QED BY <1>1, <1>2, <1>3, <2>1, IdleFacts, OnlyMoves
<1>4. ASSUME NEW outcome \in {"finished", "failed"},
             Goto(t, [thread[t] EXCEPT !.pc = "writing", !.seen = outcome])
      PROVE  Inv'
  <2> DEFINE x == [thread[t] EXCEPT !.pc = "writing", !.seen = outcome]
  <2>1. /\ x \in ThreadStates /\ x.pc = "writing" /\ x.d = thread[t].d /\ x.seen = outcome
    BY ThreadFacts DEF ThreadStates, PCs, JobPCs, Statuses, Terminal
  <2>2. Carries(x)
    BY <1>1, <2>1, ThreadFacts DEF Carries, At, WorkPCs, JobPCs
  <2>3. \A f \in Deployments : Works(thread[t], f) => Works(x, f)
    BY <2>1 DEF Works, WorkPCs, JobPCs
  <2> HIDE DEF x
  <2>4. Goto(t, x)
    BY <1>4 DEF x
  <2>5. x.pc # "creating"
    BY <2>1
  <2> QED BY <1>1, <1>2, <2>1, <2>2, <2>3, <2>4, <2>5, OnlyMoves
<1> QED BY <1>3, <1>4 DEF BuildEnds

(* The outcome is an end, so the row needs nobody any more.                *)
LEMMA TransitionStep ==
  ASSUME Inv, NEW t \in Threads, TransitionToStatus(t)
  PROVE  Inv'
<1> DEFINE e == thread[t].d
           row == rows[e]
           after == Home[row.app]
           y == [Idle EXCEPT !.pc = "spreading", !.after = after,
                             !.req = Request(row.app, 0, Extra[row.app], FALSE)]
           x == IF Spreads(row, thread[t].seen) THEN y ELSE Loop({}, after)
<1>1. /\ At(t, "writing") /\ rows' = [rows EXCEPT ![e].status = thread[t].seen]
      /\ Goto(t, x) /\ UNCHANGED <<created, jobs, tenant, undispatched, cutShort, requests, interventions>>
  BY DEF TransitionToStatus, Transition
<1>2. e \in Deployments /\ thread[t].seen \in {"finished", "failed"}
  BY <1>1, ThreadFacts DEF Carries, At, WorkPCs, JobPCs
<1>3. row \in Rows
  BY <1>2, ThreadFacts
<1>4. row.app \in Apps
  BY <1>3 DEF Rows
<1>5. after \in Servers \cup {NoServer} /\ Extra[row.app] \in Servers \cup {NoServer}
  BY <1>4, DeploymentAssumption
<1>6. /\ Request(row.app, 0, Extra[row.app], FALSE) \in Rows
      /\ Request(row.app, 0, Extra[row.app], FALSE).status = "queued"
  <2> HIDE DEF row
  <2> QED BY <1>4, <1>5, DeploymentAssumption DEF Request, Rows, Statuses, Active
<1>7. /\ y \in ThreadStates /\ y.pc = "spreading"
      /\ y.req = Request(row.app, 0, Extra[row.app], FALSE)
  <2> HIDE DEF row, after
  <2> QED BY <1>5, <1>6, IdleFacts DEF ThreadStates, PCs
<1>8. Carries(y)
  <2> HIDE DEF y
  <2> QED BY <1>6, <1>7 DEF Carries, WorkPCs, JobPCs
<1>9. x \in ThreadStates /\ Carries(x) /\ x.pc # "creating"
  <2>1. /\ Loop({}, after) \in ThreadStates /\ Carries(Loop({}, after))
        /\ Loop({}, after).pc \in {"idle", "scanning"}
    <3> HIDE DEF after
    <3> QED BY <1>5, LoopFacts
  <2> HIDE DEF y, after
  <2> QED BY <1>7, <1>8, <2>1
<1> HIDE DEF x, row, after, y, e
<1>10. /\ rows' \in [Deployments -> Rows] /\ rows'[e].status = thread[t].seen
       /\ \A f \in Deployments \ {e} : rows'[f] = rows[f]
  BY <1>1, <1>2, WriteStatus DEF Statuses, Terminal
<1>11. RestOK'
  BY <1>1, <1>10, ThreadFacts DEF RestOK
<1>12. Reserved'
  BY <1>1, <1>9, ReservedSame
<1>13. InProgressHasJob'
  <2>1. \A f \in Deployments : rows'[f].status = "in_progress"
          => rows[f].status = "in_progress" /\ f # e
    BY <1>2, <1>10
  <2>2. \A f \in Deployments : f # e => ~Works(thread[t], f)
    BY DEF Works, e
  <2> QED BY <1>1, <1>9, <2>1, <2>2, StillWorked
<1> QED BY <1>1, <1>9, <1>11, <1>12, <1>13, Assemble

LEMMA SpreadStep ==
  ASSUME Inv, NEW t \in Threads, DeployToAdditionalDestinations(t)
  PROVE  Inv'
<1> DEFINE y == [thread[t] EXCEPT !.pc = "creating", !.ask = FALSE]
           z == Loop({}, thread[t].after)
<1>1. /\ At(t, "spreading")
      /\ \/ Room /\ Goto(t, y)
         \/ Goto(t, z)
      /\ UNCHANGED <<rows, created, jobs, tenant, undispatched, cutShort, requests, interventions>>
  BY DEF DeployToAdditionalDestinations
<1>2. y \in ThreadStates /\ y.pc = "creating" /\ y.req = thread[t].req
  BY ThreadFacts DEF ThreadStates, PCs
<1>3. Carries(y)
  BY <1>1, <1>2, ThreadFacts DEF Carries, At, WorkPCs, JobPCs
<1>4. z \in ThreadStates /\ Carries(z) /\ z.pc \in {"idle", "scanning"}
  BY ThreadFacts, LoopFacts
<1> HIDE DEF y, z
<1>5. RestOK'
  BY <1>1, ThreadFacts DEF RestOK
<1>6. \A f \in Deployments : ~Works(thread[t], f)
  BY <1>1, NotAtWork DEF At, WorkPCs, JobPCs
<1>7. CASE Room /\ Goto(t, y)
  BY <1>1, <1>2, <1>3, <1>5, <1>6, <1>7, OnlyMoves
<1>8. CASE Goto(t, z)
  BY <1>1, <1>4, <1>5, <1>6, <1>8, OnlyMoves
<1> QED BY <1>1, <1>7, <1>8

LEMMA RestartStep ==
  ASSUME Inv, Restart
  PROVE  Inv'
<1>1. /\ Intervention /\ thread' = [t \in Threads |-> Idle]
      /\ rows' = [d \in Deployments |-> IF rows[d].status \in Active
                                        THEN [rows[d] EXCEPT !.status = "failed"] ELSE rows[d]]
      /\ undispatched' = {} /\ cutShort' = {} /\ UNCHANGED <<created, jobs, tenant>>
  BY DEF Restart
<1>2. ASSUME NEW d \in Deployments
      PROVE  rows'[d] \in Rows /\ rows'[d].status # "in_progress"
  <2>1. rows[d] \in Rows
    BY DEF Inv, TypeOK
  <2>2. CASE rows[d].status \in Active
    <3>1. /\ [rows[d] EXCEPT !.status = "failed"] \in Rows
          /\ [rows[d] EXCEPT !.status = "failed"].status = "failed"
      BY <2>1 DEF Rows, Statuses, Terminal
    <3> QED BY <1>1, <2>2, <3>1
  <2>3. CASE rows[d].status \notin Active
    BY <1>1, <2>1, <2>3 DEF Active
  <2> QED BY <2>2, <2>3
<1>3. rows' \in [Deployments -> Rows]
  BY <1>1, <1>2
<1>4. thread' \in [Threads -> ThreadStates] /\ \A t \in Threads : Carries(thread'[t])
  BY <1>1, IdleFacts
<1>5. TypeOK'
  BY <1>1, <1>3, <1>4, Counters DEF Inv, TypeOK, ThreadStates
<1>6. Creating' = {}
  BY <1>1, IdleFacts DEF Creating, At
<1>7. Reserved'
  BY <1>1, <1>6, CreatingFacts, FS_EmptySet DEF Reserved
<1>8. InProgressHasJob'
  BY <1>2 DEF InProgressHasJob
<1> QED BY <1>4, <1>5, <1>7, <1>8 DEF Inv

(* Neither the tenant nor nothing at all disturbs a deployment.            *)
LEMMA TenantSteps ==
  ASSUME Inv, SuspendTenant \/ ReactivateTenant \/ UNCHANGED vars
  PROVE  Inv'
<1>1. UNCHANGED <<rows, created, jobs, thread, undispatched, cutShort>>
  BY DEF SuspendTenant, ReactivateTenant, vars
<1>2. /\ tenant' \in {"active", "suspended", "reactivated"}
      /\ requests' \in 0 .. MaxRequests /\ interventions' \in 0 .. MaxInterventions
  BY Counters DEF Inv, TypeOK, SuspendTenant, ReactivateTenant, vars
<1>3. TypeOK'
  BY <1>1, <1>2 DEF Inv, TypeOK
<1>4. Reserved' /\ InProgressHasJob' /\ \A t \in Threads : Carries(thread'[t])
  BY <1>1 DEF Inv, Reserved, Creating, At, InProgressHasJob
<1> QED BY <1>3, <1>4 DEF Inv

-----------------------------------------------------------------------------
LEMMA InitInv == Init => Inv
<1> SUFFICES ASSUME Init PROVE Inv
  OBVIOUS
<1>1. rows \in [Deployments -> Rows] /\ \A d \in Deployments : rows[d].status = "none"
  BY NoRowType DEF Init, NoRow
<1>2. thread \in [Threads -> ThreadStates] /\ \A t \in Threads : Carries(thread[t])
  BY IdleFacts DEF Init
<1>3. TypeOK
  BY <1>1, <1>2, DeploymentAssumption DEF Init, TypeOK, ThreadStates
<1>4. Creating = {}
  BY IdleFacts DEF Init, Creating, At
<1>5. Reserved
  BY <1>4, FS_EmptySet, DeploymentAssumption DEF Init, Reserved
<1>6. InProgressHasJob
  BY <1>1 DEF InProgressHasJob
<1> QED BY <1>2, <1>3, <1>5, <1>6 DEF Inv

LEMMA NextInv == Inv /\ [Next]_vars => Inv'
<1> SUFFICES ASSUME Inv, [Next]_vars PROVE Inv'
  OBVIOUS
<1>1. ASSUME NEW t \in Threads, UserStep(t) PROVE Inv'
  <2>1. CASE \E app \in Apps :
               \/ \E pr \in PRs, force \in BOOLEAN : QueueApplicationDeployment(t, app, pr, force)
               \/ \E server \in Servers : Redeploy(t, app, server)
    BY <2>1, RequestSteps
  <2>2. CASE \E d \in Deployments : ForceStart(t, d)
    BY <2>2, ForceStartStep
  <2>3. CASE \E d \in Deployments : CancelByApi(t, d) \/ CancelByPage(t, d)
    BY <2>3, CancelSteps
  <2> QED BY <1>1, <2>1, <2>2, <2>3 DEF UserStep
<1>2. ASSUME NEW t \in Threads, ThreadStep(t) PROVE Inv'
  <2>1. CASE Create(t) BY <2>1, CreateStep
  <2>2. CASE LookAtRow(t) BY <2>2, LookAtRowStep
  <2>3. CASE MarkStarted(t) \/ HandleMarks(t) BY <2>3, MarkSteps
  <2>4. CASE Dispatch(t) BY <2>4, DispatchStep
  <2>5. CASE Snapshot(t) BY <2>5, SnapshotStep
  <2>6. CASE BuildEnds(t) BY <2>6, BuildEndsStep
  <2>7. CASE TransitionToStatus(t) BY <2>7, TransitionStep
  <2>8. CASE DeployToAdditionalDestinations(t) BY <2>8, SpreadStep
  <2>9. CASE DispatchFails(t) \/ AdvanceFails(t) BY <2>9, DiesStep
  <2> QED BY <1>2, <2>1, <2>2, <2>3, <2>4, <2>5, <2>6, <2>7, <2>8, <2>9 DEF ThreadStep
<1>3. ASSUME NEW d \in Deployments, PickUp(d) PROVE Inv'
  BY <1>3, PickJobStep DEF PickUp
<1>4. CASE Restart BY <1>4, RestartStep
<1>5. CASE SuspendTenant \/ ReactivateTenant \/ UNCHANGED vars BY <1>5, TenantSteps
<1> QED BY <1>1, <1>2, <1>3, <1>4, <1>5 DEF Next

-----------------------------------------------------------------------------
(* The inductive invariant: what the threads carry between statements.     *)
THEOREM QueueInvariant == Spec => []Inv
BY InitInv, NextInv, PTL DEF Spec

(* Rows, dispatched jobs and threads keep their types: in particular no    *)
(* more rows are inserted than ids were reserved.                          *)
THEOREM TypeCorrect == Spec => []TypeOK
<1>1. Inv => TypeOK BY DEF Inv
<1> QED BY <1>1, QueueInvariant, PTL

(* No row is left in progress with nobody working on it, although neither  *)
(* queue_next_deployment nor the cancellations nor the job's own status    *)
(* writes take a lock, and requests and jobs die of exceptions: the one    *)
(* exception is a row whose own ApplicationDeploymentJob::dispatch threw.  *)
THEOREM SomebodyWorksOnIt == Spec => []InProgressHasJob
<1>1. Inv => InProgressHasJob BY DEF Inv
<1> QED BY <1>1, QueueInvariant, PTL
-----------------------------------------------------------------------------
(* No wakeup is lost.  A queued row that may start is watched: a thread    *)
(* has it in its list, is about to start it, or will take a snapshot of    *)
(* its server's queue.                                                     *)
LoopPCs == {"scanning", "starting", "dispatching"}

Watches(x, d, s) ==
  \/ x.pc \in LoopPCs /\ d \in x.todo
  \/ x.pc \in LoopPCs \cup {"creating", "spreading"} /\ x.after = s
  \/ x.pc = "starting" /\ x.d = d

Watched(d) == \E t \in Threads : Watches(thread[t], d, rows[d].server)

(* What stands in the way of row d, given the rows of the table.           *)
Running(rw, s) == {e \in Deployments : rw[e].server = s /\ rw[e].status = "in_progress"}

Blocked(rw, d) ==
  \/ \E e \in Deployments : rw[e].app = rw[d].app /\ rw[e].pr = rw[d].pr /\ rw[e].status = "in_progress"
  \/ ~(Cardinality(Running(rw, rw[d].server)) < ConcurrentBuilds)

(* A thread holds rows that exist, and advances no queue while it creates  *)
(* the row of a user's request.                                            *)
Within(x, n) ==
  /\ x.pc \in WorkPCs \cup {"starting"} => x.d <= n
  /\ x.pc \in LoopPCs => \A d \in x.todo : d <= n
  /\ x.pc = "creating" /\ x.ask => x.after = NoServer

Known ==
  /\ \A e \in Deployments : e > created => rows[e].status = "none" /\ jobs[e] = 0
  /\ \A t \in Threads : Within(thread[t], created)

Waiting(d) == rows[d].status = "queued" /\ ~Entangled(d) /\ ~Unscanned(d)

Awake ==
  tenant = "active" =>
    \A d \in Deployments : Waiting(d) => Watched(d) \/ Blocked(rows, d)

WakeInv == Inv /\ Known /\ Awake
-----------------------------------------------------------------------------
LEMMA GotoFacts ==
  ASSUME Inv, NEW t \in Threads, NEW x, Goto(t, x)
  PROVE  thread'[t] = x /\ \A u \in Threads \ {t} : thread'[u] = thread[u]
BY DEF Inv, TypeOK, Goto

LEMMA IdleFields ==
  /\ Idle.pc = "idle" /\ Idle.todo = {} /\ Idle.after = NoServer /\ Idle.d = 0 /\ Idle.ask
BY DEF Idle

LEMMA LoopFields ==
  ASSUME NEW todo \in SUBSET Deployments, NEW after \in Servers \cup {NoServer}
  PROVE  /\ Loop(todo, after).pc \in {"idle", "scanning"}
         /\ Loop(todo, after).pc = "scanning" => Loop(todo, after).todo = todo
         /\ todo # {} \/ after # NoServer =>
              /\ Loop(todo, after).pc = "scanning"
              /\ Loop(todo, after).todo = todo /\ Loop(todo, after).after = after
<1>1. CASE todo = {} /\ after = NoServer
  BY <1>1, IdleFields DEF Loop
<1>2. CASE ~(todo = {} /\ after = NoServer)
  <2> DEFINE x == [Idle EXCEPT !.pc = "scanning", !.todo = todo, !.after = after]
  <2>1. Loop(todo, after) = x
    BY <1>2 DEF Loop
  <2>2. x.pc = "scanning" /\ x.todo = todo /\ x.after = after
    BY IdleFacts DEF ThreadStates
  <2> QED BY <2>1, <2>2
<1> QED BY <1>1, <1>2

(* A thread that loops watches the rows in its list and the server whose   *)
(* queue comes next.                                                       *)
LEMMA LoopWatches ==
  ASSUME NEW todo \in SUBSET Deployments, NEW after \in Servers \cup {NoServer},
         NEW d \in Deployments, NEW s \in Servers, d \in todo \/ after = s
  PROVE  Watches(Loop(todo, after), d, s)
<1>1. todo # {} \/ after # NoServer
  BY DeploymentAssumption
<1> QED BY <1>1, LoopFields DEF Watches, LoopPCs

LEMMA LoopWithin ==
  ASSUME NEW todo \in SUBSET Deployments, NEW after \in Servers \cup {NoServer},
         NEW n, \A d \in todo : d <= n
  PROVE  Within(Loop(todo, after), n)
<1>1. /\ Loop(todo, after).pc \in {"idle", "scanning"}
      /\ Loop(todo, after).pc = "scanning" => Loop(todo, after).todo = todo
  BY LoopFields
<1> HIDE DEF Loop
<1> QED BY <1>1 DEF Within, WorkPCs, JobPCs, LoopPCs

LEMMA DeploymentsFinite == IsFiniteSet(Deployments)
<1>1. 1 \in Int /\ MaxDeployments \in Int
  BY DeploymentAssumption
<1> QED BY <1>1, FS_Interval DEF Deployments

(* What blocks a row still does when the rows it meets go on running.      *)
LEMMA BlockedKept ==
  ASSUME NEW rw, NEW rv, NEW d \in Deployments,
         rv[d].app = rw[d].app, rv[d].pr = rw[d].pr, rv[d].server = rw[d].server,
         \A e \in Deployments :
           rw[e].status = "in_progress" /\ (rw[e].server = rw[d].server \/ rw[e].app = rw[d].app) =>
             /\ rv[e].status = "in_progress" /\ rv[e].app = rw[e].app
             /\ rv[e].pr = rw[e].pr /\ rv[e].server = rw[e].server,
         Blocked(rw, d)
  PROVE  Blocked(rv, d)
<1>1. CASE \E e \in Deployments : /\ rw[e].app = rw[d].app /\ rw[e].pr = rw[d].pr
                                  /\ rw[e].status = "in_progress"
  BY <1>1 DEF Blocked
<1>2. CASE ~(Cardinality(Running(rw, rw[d].server)) < ConcurrentBuilds)
  <2> DEFINE old == Running(rw, rw[d].server)
             new == Running(rv, rv[d].server)
  <2>1. old \subseteq new /\ new \subseteq Deployments
    BY DEF Running
  <2>2. IsFiniteSet(Deployments)
    BY DeploymentsFinite
  <2> HIDE DEF old, new
  <2>3. IsFiniteSet(new)
    BY <2>1, <2>2, FS_Subset
  <2>4. Cardinality(old) <= Cardinality(new) /\ IsFiniteSet(old)
    BY <2>1, <2>3, FS_Subset
  <2>5. Cardinality(old) \in Nat /\ Cardinality(new) \in Nat
    BY <2>3, <2>4, FS_CardinalityType
  <2>6. ~(Cardinality(new) < ConcurrentBuilds)
    BY <1>2, <2>4, <2>5, DeploymentAssumption DEF old
  <2> QED BY <2>6 DEF Blocked, new
<1> QED BY <1>1, <1>2 DEF Blocked

(* ... or when a row it does not meet changes.                             *)
LEMMA BlockedByOthers ==
  ASSUME NEW rw, NEW rv, NEW e \in Deployments, NEW d \in Deployments \ {e},
         \A f \in Deployments \ {e} : rv[f] = rw[f],
         ~(rw[e].server = rw[d].server \/ rw[e].app = rw[d].app), Blocked(rw, d)
  PROVE  Blocked(rv, d)
<1>1. rv[d] = rw[d]
  OBVIOUS
<1>2. \A f \in Deployments :
        rw[f].server = rw[d].server \/ rw[f].app = rw[d].app => rv[f] = rw[f]
  OBVIOUS
<1> QED BY <1>1, <1>2, BlockedKept

LEMMA RefusedIsBlocked ==
  ASSUME NEW d \in Deployments, tenant = "active"
  PROVE  (~NextQueuable(d) => Blocked(rows, d)) /\ (Blocked(rows, d) => ~NextQueuable(d))
BY DEF NextQueuable, Blocked, Running, OnServer, TenantActive

(* A row that waits lives where its application does, and so does every    *)
(* row that can block it.                                                  *)
LEMMA WaitingFacts ==
  ASSUME Inv, Known, NEW d \in Deployments, Waiting(d)
  PROVE  /\ d \in 1 .. created /\ rows[d].server \in Servers
         /\ \A e \in 1 .. created :
              rows[e].server = rows[d].server \/ rows[e].app = rows[d].app =>
                rows[e].server = rows[d].server /\ Home[rows[e].app] = rows[d].server
<1>1. created \in Nat /\ d \in Nat /\ d >= 1
  BY CreatingFacts DEF Deployments
<1>2. ~(d > created)
  BY DEF Known, Waiting
<1>3. d \in 1 .. created
  BY <1>1, <1>2
<1>4. \A e \in 1 .. created :
        rows[e].server = rows[d].server \/ rows[e].app = rows[d].app =>
          rows[e].server = Home[rows[e].app]
  BY DEF Waiting, Entangled, Unscanned
<1>5. rows[d].server = Home[rows[d].app]
  BY <1>3, <1>4
<1>6. rows[d].app \in Apps
  BY DEF Inv, TypeOK, Rows
<1> QED BY <1>3, <1>4, <1>5, <1>6, DeploymentAssumption

LEMMA ServerOfQueued ==
  ASSUME Inv, Known, NEW d \in Deployments, rows[d].status = "queued", ~Entangled(d)
  PROVE  rows[d].server \in Servers
<1>1. created \in Nat /\ d \in Nat /\ d >= 1
  BY CreatingFacts DEF Deployments
<1>2. ~(d > created)
  BY DEF Known
<1>3. d \in 1 .. created
  BY <1>1, <1>2
<1>4. rows[d].server = Home[rows[d].app]
  BY <1>3 DEF Entangled
<1>5. rows[d].app \in Apps
  BY DEF Inv, TypeOK, Rows
<1> QED BY <1>4, <1>5, DeploymentAssumption

(* Threads keep to the rows that exist.                                    *)
LEMMA KnownStep ==
  ASSUME Inv, Known, NEW t \in Threads, NEW x, Goto(t, x), Within(x, created'),
         created' \in Nat, created <= created',
         \A e \in Deployments : e > created' => rows'[e].status = "none" /\ jobs'[e] = 0
  PROVE  Known'
<1>1. ASSUME NEW u \in Threads PROVE Within(thread'[u], created')
  <2>1. CASE u = t
    BY <2>1, GotoFacts
  <2>2. CASE u # t
    <3>1. thread'[u] = thread[u] /\ Within(thread[u], created)
      BY <2>2, GotoFacts DEF Known
    <3>2. thread[u].d \in Nat /\ (\A d \in thread[u].todo : d \in Nat) /\ created \in Nat
      BY ThreadFacts, CreatingFacts DEF Deployments
    <3> QED BY <3>1, <3>2 DEF Within
  <2> QED BY <2>1, <2>2
<1> QED BY <1>1 DEF Known

(* A row stays watched or blocked if the thread that moves sees to it.     *)
LEMMA AwakeStep ==
  ASSUME WakeInv, NEW t \in Threads, NEW x, Goto(t, x),
         tenant' = "active" => tenant = "active",
         tenant' = "active" => \A d \in Deployments : Waiting(d)' =>
           \/ Watches(x, d, rows'[d].server) \/ Blocked(rows', d)
           \/ /\ Waiting(d) /\ rows'[d].server = rows[d].server
              /\ ~Watches(thread[t], d, rows[d].server)
              /\ ~Blocked(rows, d)
  PROVE  Awake'
<1> SUFFICES ASSUME tenant' = "active", NEW d \in Deployments, Waiting(d)'
             PROVE  Watched(d)' \/ Blocked(rows', d)
  BY DEF Awake
<1>1. thread'[t] = x /\ \A u \in Threads \ {t} : thread'[u] = thread[u]
  BY GotoFacts DEF WakeInv
<1>2. CASE Watches(x, d, rows'[d].server)
  BY <1>1, <1>2 DEF Watched
<1>3. CASE /\ Waiting(d) /\ rows'[d].server = rows[d].server
           /\ ~Watches(thread[t], d, rows[d].server) /\ ~Blocked(rows, d)
  <2>1. PICK u \in Threads : Watches(thread[u], d, rows[d].server)
    BY <1>3 DEF WakeInv, Awake, Watched
  <2>2. u # t
    BY <1>3, <2>1
  <2>3. Watches(thread'[u], d, rows'[d].server)
    BY <1>1, <1>3, <2>1, <2>2
  <2> QED BY <2>3 DEF Watched
<1> QED BY <1>2, <1>3

(* A step that only moves its thread.                                      *)
LEMMA AwakeMoves ==
  ASSUME WakeInv, NEW t \in Threads, NEW x, Goto(t, x),
         rows' = rows, created' = created, tenant' = tenant, cutShort' = cutShort,
         Within(x, created),
         \A e \in Deployments : e > created => jobs'[e] = 0,
         tenant = "active" => \A d \in Deployments :
           Waiting(d) /\ Watches(thread[t], d, rows[d].server) =>
             Watches(x, d, rows[d].server) \/ Blocked(rows, d)
  PROVE  Known' /\ Awake'
<1>1. created \in Nat
  BY CreatingFacts DEF WakeInv
<1>2. Known'
  BY <1>1, KnownStep DEF WakeInv, Known
<1>3. \A d \in Deployments : Waiting(d)' => Waiting(d)
  BY DEF Waiting, Entangled, Unscanned
<1>4. Awake'
  BY <1>3, AwakeStep
<1> QED BY <1>2, <1>4
-----------------------------------------------------------------------------
LEMMA WatchingPCs ==
  ASSUME NEW x, x.pc \notin LoopPCs \cup {"creating", "spreading"}
  PROVE  \A d, s : ~Watches(x, d, s)
BY DEF Watches, LoopPCs

LEMMA UserAwake ==
  ASSUME WakeInv, NEW t \in Threads, NEW app \in Apps,
         \/ \E pr \in PRs, force \in BOOLEAN : QueueApplicationDeployment(t, app, pr, force)
         \/ \E server \in Servers : Redeploy(t, app, server)
  PROVE  Known' /\ Awake'
<1>1. PICK pr \in PRs, server \in Servers, only \in BOOLEAN, ask \in BOOLEAN :
         /\ At(t, "idle") /\ UserAsks /\ Room
         /\ Goto(t, [Idle EXCEPT !.pc = "creating", !.req = Request(app, pr, server, only), !.ask = ask])
         /\ UNCHANGED <<rows, created, jobs, tenant, undispatched, cutShort>>
  BY RequestForm
<1> DEFINE req == Request(app, pr, server, only)
           x == [Idle EXCEPT !.pc = "creating", !.req = req, !.ask = ask]
<1>2. x.pc = "creating" /\ x.after = NoServer
  BY IdleFacts, IdleFields DEF ThreadStates
<1>3. Within(x, created)
  BY <1>2 DEF Within, WorkPCs, JobPCs, LoopPCs
<1> HIDE DEF x
<1>4. Goto(t, x)
  BY <1>1 DEF x
<1>5. \A d, s : ~Watches(thread[t], d, s)
  BY <1>1, WatchingPCs DEF At, LoopPCs
<1> QED BY <1>1, <1>3, <1>4, <1>5, AwakeMoves DEF WakeInv, Known

LEMMA ForceStartAwake ==
  ASSUME WakeInv, NEW t \in Threads, NEW d \in Deployments, ForceStart(t, d)
  PROVE  Known' /\ Awake'
<1>1. PICK pc \in {"dispatching", "starting"} :
        /\ At(t, "idle") /\ d <= created
        /\ Goto(t, [Idle EXCEPT !.d = d, !.pc = pc])
        /\ UNCHANGED <<rows, created, jobs, tenant, undispatched, cutShort>>
  BY DEF ForceStart
<1> DEFINE x == [Idle EXCEPT !.d = d, !.pc = pc]
<1>2. x.pc = pc /\ x.d = d /\ x.todo = {}
  BY IdleFacts, IdleFields DEF ThreadStates
<1>3. Within(x, created)
  BY <1>1, <1>2 DEF Within
<1> HIDE DEF x
<1>4. Goto(t, x)
  BY <1>1 DEF x
<1>5. \A e, s : ~Watches(thread[t], e, s)
  BY <1>1, WatchingPCs DEF At, LoopPCs
<1> QED BY <1>1, <1>3, <1>4, <1>5, AwakeMoves DEF WakeInv, Known

LEMMA PickJobAwake ==
  ASSUME WakeInv, NEW t \in Threads, NEW d \in Deployments, PickJob(t, d)
  PROVE  Known' /\ Awake'
<1> DEFINE pc == IF rows[d].status = "in_progress" THEN "building" ELSE "marking"
           y == [Idle EXCEPT !.d = d, !.pc = pc]
           x == IF rows[d].status = "cancelled" THEN Idle ELSE y
<1>1. /\ At(t, "idle") /\ jobs[d] > 0 /\ jobs' = [jobs EXCEPT ![d] = @ - 1] /\ Goto(t, x)
      /\ UNCHANGED <<rows, created, tenant, undispatched, cutShort>>
  BY DEF PickJob
<1>2. jobs \in [Deployments -> Nat] /\ created \in Nat /\ d \in Nat
  BY CreatingFacts DEF WakeInv, Inv, TypeOK, Deployments
<1>3. d <= created
  BY <1>1, <1>2 DEF WakeInv, Known
<1>4. \A e \in Deployments : e > created => jobs'[e] = 0
  BY <1>1, <1>2, <1>3 DEF WakeInv, Known, Deployments
<1>5. pc \in {"building", "marking"}
  OBVIOUS
<1> HIDE DEF pc
<1>6. y.pc = pc /\ y.d = d
  BY IdleFacts DEF ThreadStates
<1>7. Within(y, created)
  BY <1>3, <1>5, <1>6 DEF Within, LoopPCs
<1>8. Within(Idle, created)
  BY IdleFields DEF Within, WorkPCs, JobPCs, LoopPCs
<1>9. Within(x, created)
  BY <1>7, <1>8
<1> HIDE DEF x
<1>10. \A e, s : ~Watches(thread[t], e, s)
  BY <1>1, WatchingPCs DEF At, LoopPCs
<1> QED BY <1>1, <1>4, <1>9, <1>10, AwakeMoves

LEMMA BuildEndsAwake ==
  ASSUME WakeInv, NEW t \in Threads, BuildEnds(t)
  PROVE  Known' /\ Awake'
<1>1. At(t, "building") /\ UNCHANGED <<rows, created, jobs, tenant, undispatched, cutShort>>
  BY DEF BuildEnds
<1>2. \A e, s : ~Watches(thread[t], e, s)
  BY <1>1, WatchingPCs DEF At, LoopPCs
<1>3. CASE Goto(t, Idle)
  <2>1. Within(Idle, created)
    BY IdleFields DEF Within, WorkPCs, JobPCs, LoopPCs
  <2> QED BY <1>1, <1>2, <1>3, <2>1, AwakeMoves DEF WakeInv, Known
<1>4. ASSUME NEW outcome, Goto(t, [thread[t] EXCEPT !.pc = "writing", !.seen = outcome])
      PROVE  Known' /\ Awake'
  <2> DEFINE x == [thread[t] EXCEPT !.pc = "writing", !.seen = outcome]
  <2>1. x.pc = "writing" /\ x.d = thread[t].d
    BY ThreadFacts DEF ThreadStates, WakeInv
  <2>2. thread[t].d <= created
    BY <1>1 DEF WakeInv, Known, Within, At, WorkPCs, JobPCs
  <2>3. Within(x, created)
    BY <2>1, <2>2 DEF Within, LoopPCs
  <2> HIDE DEF x
  <2>4. Goto(t, x)
    BY <1>4 DEF x
  <2> QED BY <1>1, <1>2, <2>3, <2>4, AwakeMoves DEF WakeInv, Known
<1> QED BY <1>3, <1>4 DEF BuildEnds

(* A thread that is in nobody's way any more advances the queue it owes.   *)
LEMMA SpreadAwake ==
  ASSUME WakeInv, NEW t \in Threads, DeployToAdditionalDestinations(t)
  PROVE  Known' /\ Awake'
<1> DEFINE y == [thread[t] EXCEPT !.pc = "creating", !.ask = FALSE]
           z == Loop({}, thread[t].after)
<1>1. /\ At(t, "spreading")
      /\ Goto(t, y) \/ Goto(t, z)
      /\ UNCHANGED <<rows, created, jobs, tenant, undispatched, cutShort>>
  BY DEF DeployToAdditionalDestinations
<1>2. thread[t] \in ThreadStates /\ thread[t].after \in Servers \cup {NoServer}
  BY ThreadFacts DEF WakeInv
<1>3. y.pc = "creating" /\ ~y.ask /\ y.after = thread[t].after
  BY <1>2 DEF ThreadStates
<1>4. Within(y, created)
  BY <1>3 DEF Within, WorkPCs, JobPCs, LoopPCs
<1>5. \A d, s : Watches(thread[t], d, s) => thread[t].after = s
  BY <1>1 DEF At, Watches, LoopPCs
<1>6. \A d, s : Watches(thread[t], d, s) => Watches(y, d, s)
  BY <1>3, <1>5 DEF Watches
<1>7. Within(z, created)
  BY <1>2, LoopWithin
<1>8. \A d \in Deployments, s \in Servers : Watches(thread[t], d, s) => Watches(z, d, s)
  BY <1>2, <1>5, LoopWatches
<1>9. \A d \in Deployments : Waiting(d) => rows[d].server \in Servers
  BY WaitingFacts DEF WakeInv
<1> HIDE DEF y, z
<1>10. CASE Goto(t, y)
  BY <1>1, <1>4, <1>6, <1>10, AwakeMoves DEF WakeInv, Known
<1>11. CASE Goto(t, z)
  BY <1>1, <1>7, <1>8, <1>9, <1>11, AwakeMoves DEF WakeInv, Known
<1> QED BY <1>1, <1>10, <1>11

(* The row looked at is started or was found blocked; the others stay on   *)
(* the list.                                                               *)
LEMMA LookAtRowAwake ==
  ASSUME WakeInv, NEW t \in Threads, LookAtRow(t)
  PROVE  Known' /\ Awake'
<1>1. PICK d \in thread[t].todo :
        /\ At(t, "scanning")
        /\ Goto(t, IF NextQueuable(d)
                   THEN [thread[t] EXCEPT !.pc = "starting", !.d = d, !.todo = @ \ {d}]
                   ELSE Loop(thread[t].todo \ {d}, thread[t].after))
        /\ UNCHANGED <<rows, created, jobs, tenant, undispatched, cutShort>>
  BY DEF LookAtRow
<1> DEFINE todo == thread[t].todo \ {d}
           y == [thread[t] EXCEPT !.pc = "starting", !.d = d, !.todo = todo]
           z == Loop(todo, thread[t].after)
<1>2. /\ thread[t] \in ThreadStates /\ thread[t].after \in Servers \cup {NoServer}
      /\ todo \in SUBSET Deployments /\ d \in Deployments
  BY ThreadFacts DEF WakeInv
<1>3. \A e \in thread[t].todo : e <= created
  BY <1>1 DEF WakeInv, Known, Within, At, LoopPCs
<1>4. \A e \in Deployments : \A s :
        Watches(thread[t], e, s) => e = d \/ e \in todo \/ thread[t].after = s
  BY <1>1 DEF At, Watches
<1>5. (NextQueuable(d) /\ Goto(t, y)) \/ (~NextQueuable(d) /\ Goto(t, z))
  BY <1>1
<1> HIDE DEF todo
<1>6. y.pc = "starting" /\ y.d = d /\ y.todo = todo /\ y.after = thread[t].after
  BY <1>2 DEF ThreadStates
<1>7. d <= created /\ \A e \in todo : e <= created
  BY <1>3 DEF todo
<1>8. Within(y, created) /\ Within(z, created)
  <2>1. Within(y, created)
    BY <1>6, <1>7 DEF Within
  <2>2. Within(z, created)
    BY <1>2, <1>7, LoopWithin
  <2> QED BY <2>1, <2>2
<1>9. \A e \in Deployments : \A s : Watches(thread[t], e, s) => Watches(y, e, s)
  BY <1>4, <1>6 DEF Watches, LoopPCs
<1>10. \A e \in Deployments, s \in Servers : Watches(thread[t], e, s) => e = d \/ Watches(z, e, s)
  BY <1>2, <1>4, LoopWatches
<1>11. \A e \in Deployments : Waiting(e) => rows[e].server \in Servers
  BY WaitingFacts DEF WakeInv
<1> HIDE DEF y, z
<1>12. CASE NextQueuable(d) /\ Goto(t, y)
  BY <1>1, <1>8, <1>9, <1>12, AwakeMoves DEF WakeInv, Known
<1>13. CASE ~NextQueuable(d) /\ Goto(t, z)
  <2>1. tenant = "active" => Blocked(rows, d)
    BY <1>2, <1>13, RefusedIsBlocked
  <2> QED BY <1>1, <1>8, <1>10, <1>11, <1>13, <2>1, AwakeMoves DEF WakeInv, Known
<1> QED BY <1>5, <1>12, <1>13

LEMMA DispatchAwake ==
  ASSUME WakeInv, NEW t \in Threads, Dispatch(t)
  PROVE  Known' /\ Awake'
<1> DEFINE x == Loop(thread[t].todo, thread[t].after)
           e == thread[t].d
<1>1. /\ At(t, "dispatching") /\ jobs' = [jobs EXCEPT ![e] = @ + 1] /\ Goto(t, x)
      /\ UNCHANGED <<rows, created, tenant, cutShort>>
  BY DEF Dispatch
<1>2. /\ thread[t].after \in Servers \cup {NoServer} /\ thread[t].todo \in SUBSET Deployments
      /\ jobs \in [Deployments -> Nat] /\ created \in Nat
  BY ThreadFacts, CreatingFacts DEF WakeInv
<1>3. e <= created /\ \A d \in thread[t].todo : d <= created
  BY <1>1 DEF WakeInv, Known, Within, At, LoopPCs, WorkPCs
<1>4. e \in Nat
  BY ThreadFacts DEF WakeInv
<1>5. Within(x, created)
  BY <1>2, <1>3, LoopWithin
<1>6. \A d \in Deployments, s \in Servers : Watches(thread[t], d, s) => Watches(x, d, s)
  <2>1. \A d \in Deployments, s \in Servers :
          Watches(thread[t], d, s) => d \in thread[t].todo \/ thread[t].after = s
    BY <1>1 DEF At, Watches
  <2> QED BY <1>2, <2>1, LoopWatches
<1>7. \A d \in Deployments : Waiting(d) => rows[d].server \in Servers
  BY WaitingFacts DEF WakeInv
<1> HIDE DEF x, e
<1>8. \A d \in Deployments : d > created => jobs'[d] = 0
  BY <1>1, <1>2, <1>3, <1>4 DEF WakeInv, Known, Deployments
<1> QED BY <1>1, <1>5, <1>6, <1>7, <1>8, AwakeMoves

(* The snapshot holds every queued row of the server.                      *)
LEMMA SnapshotAwake ==
  ASSUME WakeInv, NEW t \in Threads, Snapshot(t)
  PROVE  Known' /\ Awake'
<1> DEFINE found == OnServer(thread[t].after, "queued")
           x == Loop(found, NoServer)
<1>1. /\ At(t, "scanning") /\ thread[t].todo = {} /\ Goto(t, x)
      /\ cutShort' = cutShort \ {thread[t].after}
      /\ UNCHANGED <<rows, created, jobs, tenant>>
  BY DEF Snapshot
<1>2. found \in SUBSET Deployments
  BY DEF OnServer
<1>3. \A d \in found : d <= created
  <2>1. \A d \in found : d \in Deployments /\ rows[d].status = "queued"
    BY DEF OnServer
  <2>2. created \in Nat /\ \A d \in Deployments : d \in Nat
    BY CreatingFacts DEF WakeInv, Deployments
  <2>3. \A d \in found : ~(d > created)
    BY <2>1 DEF WakeInv, Known
  <2> HIDE DEF found
  <2> QED BY <2>1, <2>2, <2>3
<1>4. ASSUME NEW d \in Deployments, Waiting(d)'
      PROVE  /\ rows[d].server \in Servers
             /\ rows[d].server = thread[t].after => d \in found
             /\ rows[d].server # thread[t].after =>
                  Waiting(d) /\ ~Watches(thread[t], d, rows[d].server)
  <2>1. rows[d].status = "queued" /\ ~Entangled(d)
    BY <1>1, <1>4 DEF Waiting, Entangled
  <2>2. rows[d].server = thread[t].after => d \in found
    BY <2>1 DEF OnServer
  <2>3. rows[d].server # thread[t].after => Waiting(d)
    BY <1>1, <1>4, <2>1 DEF Waiting, Unscanned
  <2>4. rows[d].server # thread[t].after => ~Watches(thread[t], d, rows[d].server)
    BY <1>1 DEF At, Watches, LoopPCs
  <2>5. rows[d].server \in Servers
    BY <2>1, ServerOfQueued DEF WakeInv
  <2> HIDE DEF found
  <2> QED BY <2>2, <2>3, <2>4, <2>5
<1> HIDE DEF found
<1>5. Within(x, created)
  BY <1>2, <1>3, LoopWithin
<1>6. \A d \in found, s \in Servers : Watches(x, d, s)
  BY <1>2, LoopWatches
<1> HIDE DEF x
<1>7. Known'
  <2>1. created \in Nat
    BY CreatingFacts DEF WakeInv
  <2> QED BY <1>1, <1>5, <2>1, KnownStep DEF WakeInv, Known
<1>8. ASSUME NEW d \in Deployments, Waiting(d)'
      PROVE  \/ Watches(x, d, rows'[d].server) \/ Blocked(rows', d)
             \/ /\ Waiting(d) /\ rows'[d].server = rows[d].server
                /\ ~Watches(thread[t], d, rows[d].server)
                /\ ~Blocked(rows, d)
  BY <1>1, <1>4, <1>6, <1>8
<1>9. Awake'
  BY <1>1, <1>8, AwakeStep
<1> QED BY <1>7, <1>9

(* A row that a dying thread still had to look at waits on a server whose  *)
(* scan was cut short.                                                     *)
LEMMA DiesAwake ==
  ASSUME WakeInv, NEW t \in Threads, DispatchFails(t) \/ AdvanceFails(t)
  PROVE  Known' /\ Awake'
<1> DEFINE owed == {rows[d].server : d \in thread[t].todo} \cup {thread[t].after}
<1>1. /\ Goto(t, Idle) /\ UNCHANGED <<rows, created, jobs, tenant>>
      /\ cutShort' = cutShort \cup (owed \ {NoServer})
  BY DEF DispatchFails, AdvanceFails, Dies
<1>2. thread[t].pc \in {"dispatching", "spreading", "scanning"}
  BY DEF DispatchFails, AdvanceFails, At
<1>3. Within(Idle, created)
  BY IdleFields DEF Within, WorkPCs, JobPCs, LoopPCs
<1>4. ASSUME NEW d \in Deployments, Waiting(d)'
      PROVE  Waiting(d) /\ ~Watches(thread[t], d, rows[d].server)
  <2>1. rows[d].status = "queued" /\ ~Entangled(d) /\ rows[d].server \notin cutShort'
    BY <1>1, <1>4 DEF Waiting, Entangled, Unscanned
  <2>2. rows[d].server \in Servers
    BY <2>1, ServerOfQueued DEF WakeInv
  <2>3. rows[d].server \notin cutShort /\ rows[d].server \notin owed
    BY <1>1, <2>1, <2>2, DeploymentAssumption
  <2>4. ~Watches(thread[t], d, rows[d].server)
    BY <1>2, <2>3 DEF Watches
  <2> QED BY <2>1, <2>3, <2>4 DEF Waiting, Unscanned
<1> HIDE DEF owed
<1>5. Known'
  <2>1. created \in Nat
    BY CreatingFacts DEF WakeInv
  <2> QED BY <1>1, <1>3, <2>1, KnownStep DEF WakeInv, Known
<1>6. Awake'
  BY <1>1, <1>4, AwakeStep
<1> QED BY <1>5, <1>6
-----------------------------------------------------------------------------
(* A written status changes nothing else of the table.                     *)
LEMMA OnlyStatus ==
  ASSUME Inv, NEW e \in Deployments, NEW status \in Statuses,
         rows' = [rows EXCEPT ![e].status = status], created' = created, cutShort' = cutShort
  PROVE  /\ rows'[e].status = status
         /\ \A d \in Deployments \ {e} : rows'[d] = rows[d]
         /\ \A d \in Deployments : /\ rows'[d].app = rows[d].app /\ rows'[d].pr = rows[d].pr
                                   /\ rows'[d].server = rows[d].server
         /\ \A d \in Deployments \ {e} : Waiting(d)' => Waiting(d)
<1>1. rows'[e].status = status /\ \A d \in Deployments \ {e} : rows'[d] = rows[d]
  BY WriteStatus
<1>2. rows \in [Deployments -> Rows] /\ rows[e] \in Rows
  BY DEF Inv, TypeOK
<1>3. rows'[e].app = rows[e].app /\ rows'[e].pr = rows[e].pr /\ rows'[e].server = rows[e].server
  BY <1>2 DEF Rows
<1>4. \A d \in Deployments : /\ rows'[d].app = rows[d].app /\ rows'[d].pr = rows[d].pr
                             /\ rows'[d].server = rows[d].server
  BY <1>1, <1>3
<1>5. \A f \in 1 .. created : f \in Deployments
  BY CreatingFacts DEF Deployments
<1>6. ASSUME NEW d \in Deployments \ {e}, Waiting(d)' PROVE Waiting(d)
  BY <1>1, <1>4, <1>5, <1>6 DEF Waiting, Entangled, Unscanned
<1> QED BY <1>1, <1>4, <1>6

LEMMA MarkAwake ==
  ASSUME WakeInv, NEW t \in Threads, MarkStarted(t) \/ HandleMarks(t)
  PROVE  Known' /\ Awake'
<1>1. PICK pc \in {"dispatching", "building"} :
        /\ \/ thread[t].pc = "starting" /\ pc = "dispatching"
           \/ thread[t].pc = "marking" /\ pc = "building"
        /\ rows' = [rows EXCEPT ![thread[t].d].status = "in_progress"]
        /\ Goto(t, [thread[t] EXCEPT !.pc = pc])
        /\ UNCHANGED <<created, jobs, tenant, undispatched, cutShort>>
  BY DEF MarkStarted, HandleMarks, At
<1> DEFINE x == [thread[t] EXCEPT !.pc = pc]
           e == thread[t].d
<1>2. Inv /\ Known
  BY DEF WakeInv
<1>3. e \in Deployments
  BY <1>1, <1>2, ThreadFacts DEF Carries, WorkPCs, JobPCs
<1>4. Within(thread[t], created)
  BY <1>2 DEF Known
<1>5. x.pc = pc /\ x.d = e /\ x.todo = thread[t].todo /\ x.after = thread[t].after
  BY <1>2, ThreadFacts DEF ThreadStates
<1>6. Within(x, created)
  <2> HIDE DEF x
  <2> QED BY <1>1, <1>4, <1>5 DEF Within, WorkPCs, JobPCs, LoopPCs
<1> HIDE DEF x
<1>7. Goto(t, x)
  BY <1>1 DEF x
<1>8. /\ rows'[e].status = "in_progress"
      /\ \A d \in Deployments \ {e} : rows'[d] = rows[d]
      /\ \A d \in Deployments : /\ rows'[d].app = rows[d].app /\ rows'[d].pr = rows[d].pr
                                /\ rows'[d].server = rows[d].server
      /\ \A d \in Deployments \ {e} : Waiting(d)' => Waiting(d)
  BY <1>1, <1>2, <1>3, OnlyStatus DEF Statuses, Active
<1>9. e <= created
  BY <1>1, <1>4 DEF Within, WorkPCs, JobPCs
<1>10. created \in Nat /\ \A d \in Deployments : d \in Nat
  BY <1>2, CreatingFacts DEF Deployments
<1>11. \A d \in Deployments : d > created => rows'[d].status = "none" /\ jobs'[d] = 0
  BY <1>1, <1>2, <1>8, <1>9, <1>10 DEF Known
<1>12. Known'
  BY <1>1, <1>2, <1>6, <1>7, <1>10, <1>11, KnownStep
<1>13. ASSUME NEW d \in Deployments, Waiting(d)'
       PROVE  /\ Waiting(d)
              /\ Watches(thread[t], d, rows[d].server) => Watches(x, d, rows'[d].server)
              /\ Blocked(rows, d) => Blocked(rows', d)
  <2>1. d # e
    BY <1>8, <1>13 DEF Waiting
  <2>2. Watches(thread[t], d, rows[d].server) => Watches(x, d, rows'[d].server)
    <3> HIDE DEF e
    <3>1. rows'[d].server = rows[d].server
      BY <1>8
    <3>2. thread[t].d # d
      BY <2>1 DEF e
    <3> QED BY <1>1, <1>5, <3>1, <3>2 DEF Watches, LoopPCs
  <2>3. Blocked(rows, d) => Blocked(rows', d)
    <3>1. \A f \in Deployments : rows[f].status = "in_progress" => rows'[f].status = "in_progress"
      BY <1>8
    <3> QED BY <1>8, <3>1, BlockedKept
  <2> QED BY <1>8, <1>13, <2>1, <2>2, <2>3
<1>14. \A d \in Deployments : rows'[d].server = rows[d].server
  BY <1>8
<1>15. Awake'
  BY <1>1, <1>7, <1>13, <1>14, AwakeStep
<1> QED BY <1>12, <1>15

Writes(e, status) == rows' = [rows EXCEPT ![e].status = status]

(* A row comes to an end: whatever it blocked is looked at by the thread   *)
(* that ended it.                                                          *)
LEMMA EndAwake ==
  ASSUME WakeInv, NEW t \in Threads, NEW x, Goto(t, x), NEW e \in Deployments, e <= created,
         NEW status \in Terminal, Writes(e, status),
         created' = created, jobs' = jobs, tenant' = tenant, cutShort' = cutShort,
         \A d, s : ~Watches(thread[t], d, s), Within(x, created),
         \A d \in Deployments :
           Waiting(d) /\ (rows[e].server = rows[d].server \/ rows[e].app = rows[d].app) =>
             Watches(x, d, rows[d].server)
  PROVE  Known' /\ Awake'
<1>1. Inv /\ Known /\ status # "queued" /\ status \in Statuses
  BY DEF WakeInv, Terminal, Statuses
<1>2. /\ rows'[e].status = status
      /\ \A d \in Deployments \ {e} : rows'[d] = rows[d]
      /\ \A d \in Deployments : /\ rows'[d].app = rows[d].app /\ rows'[d].pr = rows[d].pr
                                /\ rows'[d].server = rows[d].server
      /\ \A d \in Deployments \ {e} : Waiting(d)' => Waiting(d)
  BY <1>1, OnlyStatus DEF Writes
<1>3. created \in Nat /\ \A d \in Deployments : d \in Nat
  BY <1>1, CreatingFacts DEF Deployments
<1>4. \A d \in Deployments : d > created => rows'[d].status = "none" /\ jobs'[d] = 0
  BY <1>1, <1>2, <1>3 DEF Known
<1>5. Known'
  BY <1>1, <1>3, <1>4, KnownStep
<1>6. ASSUME NEW d \in Deployments, Waiting(d)'
      PROVE  /\ Waiting(d)
             /\ Blocked(rows, d) => Blocked(rows', d) \/ Watches(x, d, rows'[d].server)
  <2>1. d # e
    BY <1>1, <1>2, <1>6 DEF Waiting
  <2>2. Waiting(d) /\ rows'[d].server = rows[d].server
    BY <1>2, <1>6, <2>1
  <2>3. CASE rows[e].server = rows[d].server \/ rows[e].app = rows[d].app
    BY <2>2, <2>3
  <2>4. ASSUME ~(rows[e].server = rows[d].server \/ rows[e].app = rows[d].app), Blocked(rows, d)
        PROVE  Blocked(rows', d)
    <3>1. d \in Deployments \ {e} /\ \A f \in Deployments \ {e} : rows'[f] = rows[f]
      BY <1>2, <2>1
    <3> QED BY <2>4, <3>1, BlockedByOthers
  <2> QED BY <2>2, <2>3, <2>4
<1>7. \A d \in Deployments : rows'[d].server = rows[d].server
  BY <1>2
<1>8. Awake'
  BY <1>6, <1>7, AwakeStep
<1> QED BY <1>5, <1>8

LEMMA CancelAwake ==
  ASSUME WakeInv, NEW t \in Threads, NEW e \in Deployments, CancelByApi(t, e) \/ CancelByPage(t, e)
  PROVE  Known' /\ Awake'
<1> DEFINE x == Loop({}, rows[e].server)
<1>1. /\ At(t, "idle") /\ rows' = [rows EXCEPT ![e].status = "cancelled"]
      /\ Goto(t, x) /\ created' = created /\ jobs' = jobs /\ tenant' = tenant
      /\ cutShort' = cutShort
  BY DEF CancelByApi, CancelByPage, Cancel
<1>2. created \in Nat /\ e \in Nat /\ e >= 1
  BY CreatingFacts DEF WakeInv, Deployments
<1>3. e <= created
  <2>1. e <= created \/ rows[e].status \in Active
    BY DEF CancelByApi, CancelByPage
  <2> QED BY <1>2, <2>1 DEF WakeInv, Known, Active
<1>4. rows[e].server \in Servers \cup {NoServer}
  BY DEF WakeInv, Inv, TypeOK, Rows
<1>5. Within(x, created)
  BY <1>4, LoopWithin
<1>6. ASSUME NEW d \in Deployments, Waiting(d),
             rows[e].server = rows[d].server \/ rows[e].app = rows[d].app
      PROVE  Watches(x, d, rows[d].server)
  <2>1. e \in 1 .. created
    BY <1>2, <1>3
  <2>2. rows[e].server = rows[d].server /\ rows[d].server \in Servers
    BY <1>6, <2>1, WaitingFacts DEF WakeInv
  <2> QED BY <1>4, <2>2, LoopWatches
<1>7. \A d, s : ~Watches(thread[t], d, s)
  BY <1>1, WatchingPCs DEF At, LoopPCs
<1> HIDE DEF x
<1> QED BY <1>1, <1>3, <1>5, <1>6, <1>7, EndAwake DEF Terminal, Writes

LEMMA TransitionAwake ==
  ASSUME WakeInv, NEW t \in Threads, TransitionToStatus(t)
  PROVE  Known' /\ Awake'
<1> DEFINE e == thread[t].d
           row == rows[e]
           after == Home[row.app]
           req == Request(row.app, 0, Extra[row.app], FALSE)
           y == [Idle EXCEPT !.pc = "spreading", !.after = after, !.req = req]
           z == Loop({}, after)
<1>1. /\ At(t, "writing") /\ rows' = [rows EXCEPT ![e].status = thread[t].seen]
      /\ Goto(t, y) \/ Goto(t, z)
      /\ created' = created /\ jobs' = jobs /\ tenant' = tenant
      /\ cutShort' = cutShort
  BY DEF TransitionToStatus, Transition
<1>2. Inv /\ Known
  BY DEF WakeInv
<1>3. e \in Deployments /\ thread[t].seen \in Terminal
  BY <1>1, <1>2, ThreadFacts DEF Carries, At, WorkPCs, JobPCs, Terminal
<1>4. e <= created
  BY <1>1, <1>2 DEF Known, Within, At, WorkPCs, JobPCs
<1>5. row.app \in Apps
  BY <1>2, <1>3 DEF Inv, TypeOK, Rows
<1>6. after \in Servers /\ after \in Servers \cup {NoServer}
  BY <1>5, DeploymentAssumption
<1>7. ASSUME NEW d \in Deployments, Waiting(d),
             rows[e].server = rows[d].server \/ rows[e].app = rows[d].app
      PROVE  after = rows[d].server
  <2>1. e \in 1 .. created
    BY <1>2, <1>3, <1>4, CreatingFacts DEF Deployments
  <2> QED BY <1>2, <1>7, <2>1, WaitingFacts
<1> HIDE DEF after, req, row
<1>8. y.pc = "spreading" /\ y.after = after
  BY IdleFacts DEF ThreadStates
<1>9. Within(y, created)
  <2> HIDE DEF y
  <2> QED BY <1>8 DEF Within, WorkPCs, JobPCs, LoopPCs
<1>10. Within(z, created)
  BY <1>6, LoopWithin
<1>11. \A d : Watches(y, d, after)
  <2> HIDE DEF y
  <2> QED BY <1>8 DEF Watches
<1>12. \A d \in Deployments : Watches(z, d, after)
  BY <1>6, LoopWatches
<1>13. \A d, s : ~Watches(thread[t], d, s)
  BY <1>1, WatchingPCs DEF At, LoopPCs
<1> HIDE DEF y, z, e
<1>14. \A d \in Deployments :
         Waiting(d) /\ (rows[e].server = rows[d].server \/ rows[e].app = rows[d].app) =>
           Watches(y, d, rows[d].server) /\ Watches(z, d, rows[d].server)
  BY <1>7, <1>11, <1>12
<1>15. CASE Goto(t, y)
  BY <1>1, <1>3, <1>4, <1>9, <1>13, <1>14, <1>15, EndAwake DEF Writes
<1>16. CASE Goto(t, z)
  BY <1>1, <1>3, <1>4, <1>10, <1>13, <1>14, <1>16, EndAwake DEF Writes
<1> QED BY <1>1, <1>15, <1>16
(* The row inserted is on its thread's list or about to be started; what   *)
(* the thread owes to another server's queue it keeps.                     *)
LEMMA CreateAwake ==
  ASSUME WakeInv, NEW t \in Threads, Create(t)
  PROVE  Known' /\ Awake'
<1> DEFINE e == created + 1
           after == thread[t].after
           y == [Idle EXCEPT !.pc = "starting", !.d = e, !.after = after]
           z == Loop({e}, NoServer)
           x == IF thread[t].ask THEN z ELSE y
<1>1. /\ At(t, "creating") /\ created' = e /\ rows' = [rows EXCEPT ![e] = thread[t].req]
      /\ Goto(t, x) /\ jobs' = jobs /\ tenant' = tenant
      /\ cutShort' = cutShort
  BY DEF Create
<1>2. Inv /\ Known /\ Within(thread[t], created)
  BY DEF WakeInv, Known
<1>3. e \in Deployments /\ created \in Nat /\ \A d \in Deployments : d \in Nat
  BY <1>1, <1>2, NextIdFree, CreatingFacts DEF Deployments
<1>4. thread[t].req.status = "queued"
  BY <1>1, <1>2, ThreadFacts DEF Carries, At
<1>5. rows'[e] = thread[t].req /\ \A d \in Deployments \ {e} : rows'[d] = rows[d]
  <2>1. rows \in [Deployments -> Rows]
    BY <1>2 DEF Inv, TypeOK
  <2> HIDE DEF e, x
  <2> QED BY <1>1, <1>3, <2>1
<1>6. rows[e].status = "none" /\ \A d \in Deployments : d > e => d > created /\ d # e
  <2>1. e > created
    BY <1>3
  <2>2. rows[e].status = "none"
    BY <1>2, <1>3, <2>1 DEF Known
  <2>3. \A d \in Deployments : d > e => d > created /\ d # e
    BY <1>3
  <2> QED BY <2>2, <2>3
<1>7. \A d \in Deployments : d > e => rows'[d].status = "none" /\ jobs'[d] = 0
  <2> HIDE DEF e, x
  <2> QED BY <1>1, <1>2, <1>5, <1>6 DEF Known
<1>8. y.pc = "starting" /\ y.d = e /\ y.todo = {} /\ y.after = after
  <2> HIDE DEF e, after
  <2> QED BY IdleFacts, IdleFields DEF ThreadStates
<1>9. z.pc = "scanning" /\ z.todo = {e}
  <2>1. {e} \in SUBSET Deployments /\ {e} # {}
    BY <1>3
  <2> HIDE DEF e
  <2> QED BY <2>1, LoopFields
<1>10. Within(y, e) /\ Within(z, e)
  <2>1. e <= e
    BY <1>3
  <2> HIDE DEF y, z, e
  <2> QED BY <1>8, <1>9, <2>1 DEF Within, WorkPCs, JobPCs, LoopPCs
<1>11. Known'
  <2>1. Within(x, e)
    BY <1>10
  <2>2. e \in Nat /\ created <= e
    BY <1>3
  <2> HIDE DEF e, x
  <2> QED BY <1>1, <1>2, <1>7, <2>1, <2>2, KnownStep
<1>12. \A s : Watches(x, e, s)
  <2>1. \A s : Watches(y, e, s) /\ Watches(z, e, s)
    <3> HIDE DEF y, z, e
    <3> QED BY <1>8, <1>9 DEF Watches, LoopPCs
  <2> QED BY <2>1
<1>13. \A d : \A s \in Servers : Watches(thread[t], d, s) => Watches(x, d, s)
  <2>1. \A d, s : Watches(thread[t], d, s) => after = s
    BY <1>1 DEF At, Watches, LoopPCs
  <2>2. thread[t].ask => after = NoServer
    BY <1>1, <1>2 DEF Within, At
  <2>3. \A d : Watches(y, d, after)
    <3> HIDE DEF y, after
    <3> QED BY <1>8 DEF Watches, LoopPCs
  <2>4. NoServer \notin Servers
    BY DeploymentAssumption
  <2> HIDE DEF y, z, after
  <2> QED BY <2>1, <2>2, <2>3, <2>4
<1> HIDE DEF x, y, z, after
<1>14. ASSUME NEW d \in Deployments \ {e}, Waiting(d)'
       PROVE  Waiting(d)
  <2>1. rows'[d] = rows[d]
    BY <1>5
  <2>2. \A f \in 1 .. created : f \in 1 .. created' /\ rows'[f] = rows[f]
    <3>1. \A f \in 1 .. created : f \in 1 .. e /\ f # e /\ f \in Deployments
      BY <1>2, <1>3, CreatingFacts DEF Deployments
    <3> QED BY <1>1, <1>5, <3>1
  <2> HIDE DEF e
  <2> QED BY <1>1, <1>14, <2>1, <2>2 DEF Waiting, Entangled, Unscanned
<1>15. ASSUME NEW d \in Deployments \ {e}, Blocked(rows, d)
       PROVE  Blocked(rows', d)
  <2>1. \A f \in Deployments : rows[f].status = "in_progress" => rows'[f] = rows[f]
    <3> HIDE DEF e
    <3> QED BY <1>5, <1>6
  <2>2. rows'[d] = rows[d]
    BY <1>5
  <2>3. \A f \in Deployments :
          rows[f].status = "in_progress" /\ (rows[f].server = rows[d].server \/ rows[f].app = rows[d].app) =>
            /\ rows'[f].status = "in_progress" /\ rows'[f].app = rows[f].app
            /\ rows'[f].pr = rows[f].pr /\ rows'[f].server = rows[f].server
    BY <2>1
  <2> HIDE DEF e
  <2> QED BY <1>15, <2>2, <2>3, BlockedKept
<1>16. ASSUME NEW d \in Deployments, Waiting(d)'
       PROVE  \/ Watches(x, d, rows'[d].server) \/ Blocked(rows', d)
              \/ /\ Waiting(d) /\ rows'[d].server = rows[d].server
                 /\ ~Watches(thread[t], d, rows[d].server)
                 /\ ~Blocked(rows, d)
  <2>1. CASE d = e
    BY <1>12, <2>1
  <2>2. CASE d # e
    <3>1. Waiting(d) /\ rows'[d] = rows[d]
      BY <1>5, <1>14, <1>16, <2>2
    <3>2. rows[d].server \in Servers
      BY <1>2, <3>1, WaitingFacts
    <3> HIDE DEF e
    <3> QED BY <1>13, <1>15, <2>2, <3>1, <3>2
  <2> QED BY <2>1, <2>2
<1>17. Awake'
  <2> HIDE DEF e
  <2> QED BY <1>1, <1>16, AwakeStep
<1> QED BY <1>11, <1>17

LEMMA RestartAwake ==
  ASSUME WakeInv, Restart
  PROVE  Known' /\ Awake'
<1>1. /\ thread' = [t \in Threads |-> Idle]
      /\ rows' = [d \in Deployments |-> IF rows[d].status \in Active
                                        THEN [rows[d] EXCEPT !.status = "failed"] ELSE rows[d]]
      /\ undispatched' = {} /\ cutShort' = {} /\ UNCHANGED <<created, jobs, tenant>>
  BY DEF Restart
<1>2. Within(Idle, created)
  BY IdleFields DEF Within, WorkPCs, JobPCs, LoopPCs
<1>3. ASSUME NEW d \in Deployments
      PROVE  rows'[d].status # "queued" /\ (rows[d].status = "none" => rows'[d].status = "none")
  <2>1. rows[d] \in Rows
    BY DEF WakeInv, Inv, TypeOK
  <2>2. CASE rows[d].status \in Active
    <3>1. [rows[d] EXCEPT !.status = "failed"].status = "failed"
      BY <2>1 DEF Rows
    <3> QED BY <1>1, <2>2, <3>1 DEF Active
  <2>3. CASE rows[d].status \notin Active
    BY <1>1, <2>3 DEF Active
  <2> QED BY <2>2, <2>3
<1>4. Known'
  BY <1>1, <1>2, <1>3 DEF WakeInv, Known
<1>5. Awake'
  BY <1>3 DEF Awake, Waiting
<1> QED BY <1>4, <1>5

LEMMA TenantAwake ==
  ASSUME WakeInv, SuspendTenant \/ ReactivateTenant \/ UNCHANGED vars
  PROVE  Known' /\ Awake'
<1>1. UNCHANGED <<rows, created, jobs, thread, undispatched, cutShort>> /\ (tenant' = "active" => tenant = "active")
  BY DEF SuspendTenant, ReactivateTenant, vars
<1>2. Known'
  BY <1>1 DEF WakeInv, Known
<1>3. Awake'
  BY <1>1 DEF WakeInv, Awake, Waiting, Entangled, Unscanned, Watched
<1> QED BY <1>2, <1>3

LEMMA InitWake == Init => WakeInv
<1> SUFFICES ASSUME Init PROVE WakeInv
  OBVIOUS
<1>1. Inv
  BY InitInv
<1>2. \A d \in Deployments : rows[d].status = "none" /\ jobs[d] = 0
  BY DEF Init, NoRow
<1>3. Within(Idle, created)
  BY IdleFields DEF Within, WorkPCs, JobPCs, LoopPCs
<1>4. Known
  BY <1>2, <1>3 DEF Init, Known
<1>5. Awake
  BY <1>2 DEF Awake, Waiting
<1> QED BY <1>1, <1>4, <1>5 DEF WakeInv

LEMMA NextWake == WakeInv /\ [Next]_vars => WakeInv'
<1> SUFFICES ASSUME WakeInv, [Next]_vars PROVE Known' /\ Awake'
  BY NextInv DEF WakeInv
<1>1. ASSUME NEW t \in Threads, UserStep(t) PROVE Known' /\ Awake'
  <2>1. CASE \E app \in Apps :
               \/ \E pr \in PRs, force \in BOOLEAN : QueueApplicationDeployment(t, app, pr, force)
               \/ \E server \in Servers : Redeploy(t, app, server)
    BY <2>1, UserAwake
  <2>2. CASE \E d \in Deployments : ForceStart(t, d)
    BY <2>2, ForceStartAwake
  <2>3. CASE \E d \in Deployments : CancelByApi(t, d) \/ CancelByPage(t, d)
    BY <2>3, CancelAwake
  <2> QED BY <1>1, <2>1, <2>2, <2>3 DEF UserStep
<1>2. ASSUME NEW t \in Threads, ThreadStep(t) PROVE Known' /\ Awake'
  <2>1. CASE Create(t) BY <2>1, CreateAwake
  <2>2. CASE LookAtRow(t) BY <2>2, LookAtRowAwake
  <2>3. CASE MarkStarted(t) \/ HandleMarks(t) BY <2>3, MarkAwake
  <2>4. CASE Dispatch(t) BY <2>4, DispatchAwake
  <2>5. CASE Snapshot(t) BY <2>5, SnapshotAwake
  <2>6. CASE BuildEnds(t) BY <2>6, BuildEndsAwake
  <2>7. CASE TransitionToStatus(t) BY <2>7, TransitionAwake
  <2>8. CASE DeployToAdditionalDestinations(t) BY <2>8, SpreadAwake
  <2>9. CASE DispatchFails(t) \/ AdvanceFails(t) BY <2>9, DiesAwake
  <2> QED BY <1>2, <2>1, <2>2, <2>3, <2>4, <2>5, <2>6, <2>7, <2>8, <2>9 DEF ThreadStep
<1>3. ASSUME NEW d \in Deployments, PickUp(d) PROVE Known' /\ Awake'
  BY <1>3, PickJobAwake DEF PickUp
<1>4. CASE Restart BY <1>4, RestartAwake
<1>5. CASE SuspendTenant \/ ReactivateTenant \/ UNCHANGED vars BY <1>5, TenantAwake
<1> QED BY <1>1, <1>2, <1>3, <1>4, <1>5 DEF Next

(* The inductive invariant of the queue's advance: a queued row that may   *)
(* start is on the list of a thread, about to be started, or on a server   *)
(* whose queue a thread still owes a scan.                                 *)
THEOREM WatchedOrBlocked == Spec => []WakeInv
BY InitWake, NextWake, PTL DEF Spec

(* Whenever nobody is at work, no queued row of an active tenant could be  *)
(* started (queue_application_deployment inserts before it looks,          *)
(* queue_next_deployment and next_after_cancel scan after the write), for  *)
(* rows that meet no deployment away from its application's own server, on *)
(* a server whose last scan no exception cut short.                        *)
THEOREM NoWakeupLost == Spec => []NoLostWakeup
<1>1. WakeInv => NoLostWakeup
  <2> SUFFICES ASSUME WakeInv, \A t \in Threads : At(t, "idle"), tenant = "active",
                      NEW d \in Deployments, rows[d].status = "queued", ~Entangled(d),
                      ~Unscanned(d)
               PROVE  ~NextQueuable(d)
    BY DEF NoLostWakeup
  <2>1. \A t \in Threads : ~Watches(thread[t], d, rows[d].server)
    BY WatchingPCs DEF At, LoopPCs
  <2>2. Blocked(rows, d)
    BY <2>1 DEF WakeInv, Awake, Waiting, Watched
  <2> QED BY <2>2, RefusedIsBlocked
<1> QED BY <1>1, WatchedOrBlocked, PTL
=============================================================================
