---------------------------- MODULE DomainSearch ----------------------------
(***************************************************************************)
(* The domain search of the WordPress bridge (oneploy-bridge.js): a field, *)
(* a results panel, and the hidden fields that carry availability and      *)
(* price into the site's own form.  Typing arms a debounce timer, leaving  *)
(* the field or submitting searches at once, every search is a fetch with  *)
(* an AbortController, and an answer is used only while its sequence       *)
(* number is still the newest one.                                         *)
(*                                                                         *)
(* A request is named by its sequence number.  The browser settles the     *)
(* promises of fetch() and response.json() on tasks of its own, so a       *)
(* request passes through                                                  *)
(*   "fetching"  the response headers are awaited,                         *)
(*   "reading"   the headers were ok, the body is awaited,                 *)
(*   "read"      the body is complete, the continuation is queued,         *)
(*   "failed"    the promise is rejected, the continuation is queued,      *)
(*   "done"      searchDomain returned.                                    *)
(* abort() rejects a request that is fetching or reading; on one that is   *)
(* already "read" or "failed" it has no effect.                            *)
(***************************************************************************)
EXTENDS Integers

CONSTANTS
    Texts,        \* what the field may contain
    Names,        \* texts after trim().toLowerCase()
    Normalise,    \* [Texts -> Names]: trim().toLowerCase()
    Dotted,       \* the names that contain a dot
    Widget,       \* preventSubmit: the form is the bridge's own widget
    MaxEvents     \* bound on what happens to the field

ASSUME TextAssumption == Normalise \in [Texts -> Names] /\ Dotted \subseteq Names
ASSUME BoundAssumption == MaxEvents \in Nat

VARIABLES
    bound,        \* form.dataset.oneployBound
    input,        \* input.value
    timer,        \* the debounce timer is armed
    seq,          \* state.requestSequence
    controller,   \* state.controller: the request it aborts, 0 for null
    requests,     \* request -> its progress
    panel,        \* the results element, and the request that filled it
    meta,         \* the hidden fields, and the request that filled them
    silent,       \* the value was set with no event since the last search or input event
    events        \* how often something happened to the field

searchVars == <<bound, input, timer, seq, controller, requests, panel, meta, silent, events>>

(* Every event increments the sequence at most twice: an input event by    *)
(* itself and again when its timer fires.                                  *)
Requests == 1 .. 2 * MaxEvents
Unused == [phase |-> "unused", domain |-> Normalise[CHOOSE t \in Texts : TRUE], aborted |-> FALSE]
Empty == [kind |-> "empty", by |-> 0, available |-> FALSE]
Cleared == [by |-> 0, available |-> FALSE]

Domain == Normalise[input]

Phases == {"unused", "fetching", "reading", "read", "failed", "done"}

(* The field, the search and its bookkeeping have their types.             *)
SearchTypeOK ==
    /\ bound \in BOOLEAN /\ timer \in BOOLEAN /\ silent \in BOOLEAN
    /\ input \in Texts
    /\ seq \in 0 .. 2 * MaxEvents
    /\ controller \in {0} \cup Requests
    /\ requests \in [Requests -> [phase : Phases, domain : Names, aborted : BOOLEAN]]
    /\ panel \in [kind : {"empty", "checking", "result", "error"},
                  by : {0} \cup Requests, available : BOOLEAN]
    /\ meta \in [by : {0} \cup Requests, available : BOOLEAN]
    /\ events \in 0 .. MaxEvents

SearchInit ==
    /\ bound = FALSE
    /\ input \in Texts
    /\ timer = FALSE
    /\ seq = 0
    /\ controller = 0
    /\ requests = [r \in Requests |-> Unused]
    /\ panel = Empty
    /\ meta = Cleared
    /\ silent = FALSE
    /\ events = 0

-----------------------------------------------------------------------------
(* state.controller?.abort()                                               *)
Aborted == [r \in Requests |->
    IF r = controller THEN [requests[r] EXCEPT !.aborted = TRUE] ELSE requests[r]]

(* searchDomain, up to its first await.                                    *)
SearchDomain ==
    /\ seq' = seq + 1
    /\ meta' = Cleared
    /\ silent' = FALSE
    /\ \/ /\ Domain \notin Dotted
          /\ requests' = Aborted
          /\ controller' = 0
          /\ panel' = Empty
       \/ /\ Domain \in Dotted
          /\ requests' = [Aborted EXCEPT ![seq + 1] =
                 [phase |-> "fetching", domain |-> Domain, aborted |-> FALSE]]
          /\ controller' = seq + 1
          /\ panel' = [kind |-> "checking", by |-> seq + 1, available |-> FALSE]

(* Mutant: the block forgets whose controller it clears.                   *)
FinallyAlways(r) ==
    /\ requests' = [requests EXCEPT ![r].phase = "done"]
    /\ controller' = 0

(* What follows the awaits ends with the finally block.                    *)
Finally(r) ==
    /\ requests' = [requests EXCEPT ![r].phase = "done"]
    /\ controller' = IF controller = r THEN 0 ELSE controller

(* renderDomainResult, with what the store answered.                       *)
Render(r, available) ==
    /\ panel' = [kind |-> "result", by |-> r, available |-> available]
    /\ meta' = [by |-> r, available |-> available]

(* The continuation of a body that was read.                               *)
BodyRead(r) ==
    /\ requests[r].phase = "read"
    /\ \/ /\ seq # r \/ Domain # requests[r].domain
          /\ UNCHANGED <<panel, meta>>
       \/ /\ seq = r /\ Domain = requests[r].domain
          /\ \E available \in BOOLEAN : Render(r, available)
    /\ Finally(r)
    /\ UNCHANGED <<bound, input, timer, seq, silent, events>>

ShowError(r) ==
    /\ panel' = [kind |-> "error", by |-> r, available |-> FALSE]
    /\ meta' = Cleared

(* Mutant: the error of a superseded search is shown too.                  *)
CatchErrorAlways(r) ==
    /\ requests[r].phase = "failed"
    /\ ShowError(r)
    /\ Finally(r)
    /\ UNCHANGED <<bound, input, timer, seq, silent, events>>

(* The catch block for an error that is not an AbortError.                 *)
CatchError(r) ==
    /\ requests[r].phase = "failed"
    /\ \/ seq # r /\ UNCHANGED <<panel, meta>>
       \/ seq = r /\ ShowError(r)
    /\ Finally(r)
    /\ UNCHANGED <<bound, input, timer, seq, silent, events>>

(* The rejection that abort() causes: an AbortError, nothing is shown.     *)
CatchAbort(r) ==
    /\ requests[r].phase \in {"fetching", "reading"}
    /\ requests[r].aborted
    /\ Finally(r)
    /\ UNCHANGED <<bound, input, timer, seq, panel, meta, silent, events>>

-----------------------------------------------------------------------------
(* The network: the headers come with a good or a bad status, the body     *)
(* comes whole, or the connection or the JSON fails.                       *)
Awaiting(r) == requests[r].phase \in {"fetching", "reading"} /\ ~requests[r].aborted

Headers(r) ==
    /\ Awaiting(r) /\ requests[r].phase = "fetching"
    /\ \E phase \in {"reading", "failed"} :
           requests' = [requests EXCEPT ![r].phase = phase]
    /\ UNCHANGED <<bound, input, timer, seq, controller, panel, meta, silent, events>>

Body(r) ==
    /\ Awaiting(r) /\ requests[r].phase = "reading"
    /\ requests' = [requests EXCEPT ![r].phase = "read"]
    /\ UNCHANGED <<bound, input, timer, seq, controller, panel, meta, silent, events>>

NetworkFails(r) ==
    /\ Awaiting(r)
    /\ requests' = [requests EXCEPT ![r].phase = "failed"]
    /\ UNCHANGED <<bound, input, timer, seq, controller, panel, meta, silent, events>>

-----------------------------------------------------------------------------
(* initialize and bindDomainForm.  The MutationObserver calls it again for *)
(* every change of the page; oneployBound makes the later calls no-ops.    *)
BindDomainForm ==
    /\ ~bound
    /\ bound' = TRUE
    /\ UNCHANGED <<input, timer, seq, controller, requests, panel, meta, silent, events>>

(* Mutant: the handler leaves the hidden fields to the search.             *)
InputEventKeepsMeta(t) ==
    /\ bound /\ events < MaxEvents
    /\ events' = events + 1
    /\ input' = t
    /\ seq' = seq + 1
    /\ requests' = Aborted
    /\ controller' = 0
    /\ panel' = Empty
    /\ timer' = TRUE
    /\ silent' = FALSE
    /\ UNCHANGED <<bound, meta>>

(* The visitor types; before the form is bound nobody listens.             *)
InputEvent(t) ==
    /\ bound /\ events < MaxEvents
    /\ events' = events + 1
    /\ input' = t
    /\ seq' = seq + 1
    /\ requests' = Aborted
    /\ controller' = 0
    /\ meta' = Cleared
    /\ panel' = Empty
    /\ timer' = TRUE
    /\ silent' = FALSE
    /\ UNCHANGED bound

(* The debounce timer fires 650 ms after the last input event.             *)
TimerFires ==
    /\ timer
    /\ timer' = FALSE
    /\ SearchDomain
    /\ UNCHANGED <<bound, input, events>>

(* Mutant: the timer is cleared but nothing is searched.                   *)
BlurEventSearchesNot ==
    /\ bound /\ events < MaxEvents
    /\ events' = events + 1
    /\ timer' = FALSE
    /\ UNCHANGED <<bound, input, seq, controller, requests, panel, meta, silent>>

(* Leaving the field.                                                      *)
BlurEvent ==
    /\ bound /\ events < MaxEvents
    /\ events' = events + 1
    /\ timer' = FALSE
    /\ SearchDomain
    /\ UNCHANGED <<bound, input>>

(* Submitting the widget searches; a form that is only bound submits       *)
(* natively, which is the site's own business.                             *)
SubmitEvent ==
    /\ Widget
    /\ bound /\ events < MaxEvents
    /\ events' = events + 1
    /\ timer' = FALSE
    /\ SearchDomain
    /\ UNCHANGED <<bound, input>>

(* A script of the page, a form reset, or the visitor before the form is   *)
(* bound changes the value and no handler of the bridge runs.              *)
ValueSetSilently(t) ==
    /\ events < MaxEvents
    /\ events' = events + 1
    /\ input' = t
    /\ silent' = TRUE
    /\ UNCHANGED <<bound, timer, seq, controller, requests, panel, meta>>

Continue(r) == BodyRead(r) \/ CatchError(r) \/ CatchAbort(r)
Network(r) == Headers(r) \/ Body(r) \/ NetworkFails(r)

SearchNext ==
    \/ BindDomainForm
    \/ \E t \in Texts : InputEvent(t) \/ ValueSetSilently(t)
    \/ TimerFires
    \/ BlurEvent
    \/ SubmitEvent
    \/ \E r \in Requests : Continue(r) \/ Network(r)

SearchSpec == SearchInit /\ [][SearchNext]_searchVars

(* The browser fires timers, runs queued continuations, and settles every  *)
(* fetch that is not aborted (with an error when the network times out).   *)
(* The visitor promises nothing.                                           *)
SearchLiveSpec ==
    /\ SearchSpec
    /\ WF_searchVars(TimerFires)
    /\ \A r \in Requests : WF_searchVars(Continue(r)) /\ WF_searchVars(Network(r))

-----------------------------------------------------------------------------
(* The availability and price in the hidden fields are those of the domain *)
(* in the field: a visitor who edits the name while an answer is under way *)
(* never submits the other name's price.  Only a value set with no event   *)
(* (a script, a form reset) leaves the fields behind, and no answer that   *)
(* arrives after that is written into them either.                         *)
QuoteMatchesField ==
    meta.by # 0 /\ ~silent => requests[meta.by].domain = Domain

(* What the panel shows was written by the newest search, and the hidden   *)
(* fields agree with it: neither the answer nor the error of a superseded  *)
(* search replaces what came after it, however late the abort.             *)
NewestSearchSpeaks ==
    /\ panel.kind # "empty" => panel.by = seq
    /\ meta.by # 0 => /\ panel.kind = "result"
                      /\ panel.by = meta.by
                      /\ panel.available = meta.available

(* At most one request that was not aborted is under way: a burst of       *)
(* typing, leaving and submitting never leaves two searches running at the *)
(* store, because the finally block of an old search keeps its hands off   *)
(* the controller of a newer one.                                          *)
OneSearchUnderWay ==
    \A r, s \in Requests : Awaiting(r) /\ Awaiting(s) => r = s

(* Once the visitor stops, a field with a complete name ends with a result *)
(* or an error: "checking" does not stay.  (With a value set silently      *)
(* while a search runs it does stay: the guard drops the answer and leaves *)
(* the panel.)                                                             *)
FieldAnswered ==
    <>[](seq > 0 /\ ~silent /\ Domain \in Dotted => panel.kind \in {"result", "error"})
=============================================================================
