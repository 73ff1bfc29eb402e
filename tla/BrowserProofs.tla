---------------------------- MODULE BrowserProofs ----------------------------
(***************************************************************************)
(* Proofs about the two scripts that run in a page, each on the event loop *)
(* of its own: the browser's terminal and the domain search.               *)
(*                                                                         *)
(* The browser's terminal is never stranded, never left frozen, and never  *)
(* forgets that it paused the output, for any number of commands,          *)
(* attempts, stray timers and writes.  The three invariants are about      *)
(* different variables, and so is what each of them needs:                 *)
(*   ViewInv   what the two saves of the body's styles hold;               *)
(*   LinkInv   which timers may be pending beside which socket;            *)
(*   FlowInv   which sockets and terminals a pause may belong to.          *)
(*                                                                         *)
(* The domain search carries the price of the name in its field, for any   *)
(* texts and any number of events.  SearchInv adds two facts to the        *)
(* properties: a debounce timer that is armed has still to be paid for, so *)
(* the sequence stays below twice the events, and whatever is awaited is   *)
(* what the controller would abort.                                        *)
(***************************************************************************)
EXTENDS TerminalClient, DomainSearch, TLAPS


Thawed(s) == s \in Styles /\ s.overflow # "hidden" /\ s.position = "own"

ViewInv ==
  /\ ViewTypeOK
  /\ ~fullscreen => /\ ~pageScrollLocked /\ Thawed(body)
                    /\ fullscreenAncestorPatches = Unsaved
  /\ fullscreen => pageScrollLocked /\ Thawed(scrollLockStyles)

-----------------------------------------------------------------------------
LEMMA StyleFacts ==
  /\ \A s \in Styles : s # Unsaved
  /\ [overflow |-> "hidden", position |-> "fixed"] \in Styles
  /\ \A s \in Styles : [s EXCEPT !.overflow = "visible"] \in Styles
  /\ \A s \in Styles : Thawed(s) => Thawed([s EXCEPT !.overflow = "visible"])
BY DEF Styles, Unsaved, Thawed

LEMMA EnterKeeps ==
  ASSUME ViewInv, EnterFullscreen
  PROVE  ViewInv'
<1>1. ~fullscreen /\ fullscreen' = TRUE
  BY DEF EnterFullscreen
<1>2. /\ ~pageScrollLocked /\ Thawed(body) /\ body \in Styles
      /\ fullscreenAncestorPatches = Unsaved
  BY <1>1 DEF ViewInv, Thawed
<1>3. PICK patched \in Styles : PatchAncestors(patched) /\ LockPageScroll(patched)
  BY DEF EnterFullscreen
<1>4. patched = [body EXCEPT !.overflow = "visible"] /\ fullscreenAncestorPatches' = body
  BY <1>2, <1>3 DEF PatchAncestors, RestoreAncestors
<1>5. Thawed(patched)
  BY <1>2, <1>4, StyleFacts
<1>6. /\ pageScrollLocked' = TRUE /\ scrollLockStyles' = patched
      /\ body' = [overflow |-> "hidden", position |-> "fixed"]
  BY <1>2, <1>3 DEF LockPageScroll
<1>7. ViewTypeOK'
  BY <1>1, <1>2, <1>4, <1>6, StyleFacts DEF ViewTypeOK
<1> QED BY <1>1, <1>5, <1>6, <1>7 DEF ViewInv

LEMMA ExitKeeps ==
  ASSUME ViewInv, ExitFullscreen
  PROVE  ViewInv'
<1>1. /\ fullscreen' = FALSE /\ pageScrollLocked' = FALSE
      /\ fullscreenAncestorPatches' = Unsaved /\ scrollLockStyles' = Unsaved
      /\ body' = UnlockPageScroll(RestoreAncestors(body))
  BY DEF ExitFullscreen
<1>2. Thawed(body')
  <2>1. CASE fullscreen
    BY <1>1, <2>1 DEF ViewInv, UnlockPageScroll
  <2>2. CASE ~fullscreen
    BY <1>1, <2>2 DEF ViewInv, UnlockPageScroll, RestoreAncestors
  <2> QED BY <2>1, <2>2 DEF ViewInv, ViewTypeOK
<1>3. ViewTypeOK'
  BY <1>1, <1>2 DEF ViewTypeOK, Thawed
<1> QED BY <1>1, <1>2, <1>3 DEF ViewInv

LEMMA ViewSame ==
  ASSUME ViewInv, UNCHANGED view
  PROVE  ViewInv'
BY DEF ViewInv, ViewTypeOK, view, Thawed

LEMMA ViewStep == ViewInv /\ [Next]_vars => ViewInv'
<1> SUFFICES ASSUME ViewInv, [Next]_vars PROVE ViewInv'
  OBVIOUS
<1>1. UNCHANGED view \/ ExitFullscreen \/ EnterFullscreen
  <2>1. CASE PtyExited BY <2>1 DEF PtyExited
  <2>2. CASE MakeFullscreen BY <2>2 DEF MakeFullscreen
  <2>3. CASE Cleanup BY <2>3 DEF Cleanup
  <2>4. CASE [Next]_vars /\ ~PtyExited /\ ~MakeFullscreen /\ ~Cleanup
    BY <2>4, Zenon DEF Next, vars, FirstConnection, ReconnectFires, StrayFires,
       ConnectionTimeout, HandleSocketOpen, SocketEnds, LinkDies, Pong, PingTimeout,
       ProbeTimeout, Hide, Show, AskCommand, PtyReady, Unprocessable, Rejected, Output,
       FlowControlCallback
  <2> QED BY <2>1, <2>2, <2>3, <2>4
<1> QED BY <1>1, EnterKeeps, ExitKeeps, ViewSame

LEMMA ViewStart == Init => ViewInv
<1> SUFFICES ASSUME Init PROVE ViewInv
  OBVIOUS
<1>1. /\ fullscreen = FALSE /\ pageScrollLocked = FALSE
      /\ fullscreenAncestorPatches = Unsaved /\ scrollLockStyles = Unsaved
      /\ body = [overflow |-> "own", position |-> "own"]
  BY DEF Init, ViewInit
<1>2. Thawed(body)
  BY <1>1 DEF Thawed, Styles
<1>3. ViewTypeOK
  BY <1>1, <1>2, Zenon DEF ViewTypeOK, Thawed
<1> QED BY <1>1, <1>2, <1>3 DEF ViewInv

(* The page can be scrolled whenever the terminal is not fullscreen,       *)
(* however exitFullscreen came to run.                                     *)
THEOREM NotLeftFrozen == Spec => []NeverLeftFrozen
<1>1. ViewInv => NeverLeftFrozen
  BY DEF ViewInv, NeverLeftFrozen, Thawed
<1> QED BY <1>1, ViewStart, ViewStep, PTL DEF Spec

-----------------------------------------------------------------------------
FlowInv ==
  /\ pendingWrites \in Nat /\ outstanding \in 0..MaxOutstanding
  /\ PauseRemembered
  /\ ptyPaused => running # {}
  /\ socket \in {"none", "closed", "connecting"} => ~ptyPaused

(* Steps that leave the writes and the terminal's pause alone.             *)
LEMMA FlowSame ==
  ASSUME FlowInv, flow' = flow, ptyPaused' = ptyPaused, running' = running,
         Heard' => Heard \/ socket = "connecting",
         socket' \in {"none", "closed", "connecting"} => socket \in {"none", "closed", "connecting"}
  PROVE  FlowInv'
<1>1. pendingWrites' = pendingWrites /\ outstanding' = outstanding /\ paused' = paused
  BY DEF flow
<1>2. PauseRemembered'
  <2>1. (ptyPaused /\ Heard)' => paused'
    BY <1>1, Zenon DEF FlowInv, PauseRemembered
  <2>2. (paused' => pendingWrites' > MAX_PENDING_WRITES \div 2) /\ pendingWrites' <= outstanding'
    BY <1>1, Zenon DEF FlowInv, PauseRemembered
  <2> QED BY <2>1, <2>2, Zenon DEF PauseRemembered
<1> QED BY <1>1, <1>2, Zenon DEF FlowInv

LEMMA FlowQuietSteps ==
  ASSUME FlowInv,
         \/ FirstConnection \/ ReconnectFires \/ StrayFires \/ ConnectionTimeout
         \/ HandleSocketOpen \/ LinkDies \/ Pong \/ PingTimeout \/ ProbeTimeout \/ Hide \/ Show
         \/ AskCommand \/ (\E n \in Numbers : Unprocessable(n) \/ Rejected(n))
         \/ MakeFullscreen \/ Cleanup \/ UNCHANGED vars
  PROVE  FlowInv'
<1>1. flow' = flow /\ ptyPaused' = ptyPaused /\ running' = running
  BY Zenon DEF vars, server, FirstConnection, ReconnectFires, StrayFires, ConnectionTimeout,
     HandleSocketOpen, LinkDies, Pong, PingTimeout, ProbeTimeout, Hide, Show, AskCommand,
     Unprocessable, Rejected, MakeFullscreen, Cleanup
<1>2. /\ Heard' => Heard \/ socket = "connecting"
      /\ socket' \in {"none", "closed", "connecting"} => socket \in {"none", "closed", "connecting"}
  <2>1. CASE FirstConnection \/ ReconnectFires \/ StrayFires \/ Show
    BY <2>1 DEF FirstConnection, ReconnectFires, StrayFires, Show, InitializeWebSocket, Heard, timers
  <2>2. CASE ConnectionTimeout BY <2>2 DEF ConnectionTimeout, Heard
  <2>3. CASE HandleSocketOpen BY <2>3 DEF HandleSocketOpen
  <2>4. CASE LinkDies BY <2>4 DEF LinkDies, Heard
  <2>5. CASE Pong \/ Hide BY <2>5 DEF Pong, Hide, Heard
  <2>6. CASE PingTimeout \/ ProbeTimeout BY <2>6 DEF PingTimeout, ProbeTimeout, Heard
  <2>7. CASE AskCommand \/ (\E n \in Numbers : Unprocessable(n) \/ Rejected(n))
    BY <2>7 DEF AskCommand, Unprocessable, Rejected, connection, Heard
  <2>8. CASE MakeFullscreen \/ UNCHANGED vars
    BY <2>8 DEF MakeFullscreen, vars, connection, Heard
  <2>9. CASE Cleanup BY <2>9 DEF Cleanup, Heard
  <2> QED BY <2>1, <2>2, <2>3, <2>4, <2>5, <2>6, <2>7, <2>8, <2>9
<1> QED BY <1>1, <1>2, FlowSame

(* A socket ends, or a terminal begins or ends: nothing is paused.         *)
LEMMA FlowResetSteps ==
  ASSUME FlowInv,
         (\E error \in BOOLEAN : SocketEnds(error)) \/ (\E n \in Numbers : PtyReady(n)) \/ PtyExited
  PROVE  FlowInv'
<1>1. ptyPaused' = FALSE
  BY DEF SocketEnds, PtyReady, PtyExited
<1>2. \/ flow' = flow
      \/ pendingWrites' = 0 /\ paused' = FALSE /\ outstanding' = outstanding
  BY Zenon DEF SocketEnds, PtyReady, PtyExited
<1>3. /\ pendingWrites' \in Nat /\ outstanding' \in 0..MaxOutstanding
      /\ paused' => pendingWrites' > MAX_PENDING_WRITES \div 2
      /\ pendingWrites' <= outstanding'
  <2>1. /\ pendingWrites \in Nat /\ outstanding \in 0..MaxOutstanding
        /\ paused => pendingWrites > MAX_PENDING_WRITES \div 2
        /\ pendingWrites <= outstanding
    BY DEF FlowInv, PauseRemembered
  <2>2. CASE flow' = flow
    <3>1. pendingWrites' = pendingWrites /\ outstanding' = outstanding /\ paused' = paused
      BY <2>2 DEF flow
    <3> QED BY <2>1, <3>1, Zenon
  <2>3. CASE pendingWrites' = 0 /\ paused' = FALSE /\ outstanding' = outstanding
    <3>1. ~paused'
      BY <2>3
    <3>2. pendingWrites' = 0 /\ outstanding' = outstanding
      BY <2>3
    <3>3. pendingWrites' \in Nat /\ outstanding' \in 0..MaxOutstanding /\ pendingWrites' <= outstanding'
      BY <2>1, <3>2
    <3> QED BY <3>1, <3>3, Zenon
  <2> QED BY <1>2, <2>2, <2>3
<1> QED BY <1>1, <1>3, Zenon DEF FlowInv, PauseRemembered

LEMMA OutputStep ==
  ASSUME FlowInv, Output
  PROVE  FlowInv'
<1>1. /\ pendingWrites' = pendingWrites + 1 /\ outstanding' = outstanding + 1
      /\ outstanding < MaxOutstanding
  BY DEF Output
<1>2. paused' = paused /\ ptyPaused' = ptyPaused /\ running' = running /\ ~ptyPaused
  BY DEF Output, server
<1>3. pendingWrites \in Nat /\ outstanding \in 0..MaxOutstanding /\ pendingWrites <= outstanding
  BY DEF FlowInv, PauseRemembered
<1>4. pendingWrites' \in Nat /\ outstanding' \in 0..MaxOutstanding /\ pendingWrites' <= outstanding'
  BY <1>1, <1>3, ClientAssumption
<1>5. pendingWrites > MAX_PENDING_WRITES \div 2 => pendingWrites' > MAX_PENDING_WRITES \div 2
  BY <1>1, <1>3, ClientAssumption
<1>6. paused' => pendingWrites' > MAX_PENDING_WRITES \div 2
  BY <1>2, <1>5, Zenon DEF FlowInv, PauseRemembered
<1> QED BY <1>2, <1>4, <1>6, Zenon DEF FlowInv, PauseRemembered

LEMMA CallbackStep ==
  ASSUME FlowInv, FlowControlCallback
  PROVE  FlowInv'
<1> DEFINE half == MAX_PENDING_WRITES \div 2
<1>1. /\ outstanding > 0 /\ outstanding' = outstanding - 1
      /\ pendingWrites' = IF pendingWrites > 0 THEN pendingWrites - 1 ELSE 0
  BY DEF FlowControlCallback
<1>2. pendingWrites \in Nat /\ outstanding \in 0..MaxOutstanding /\ pendingWrites <= outstanding
  BY DEF FlowInv, PauseRemembered
<1>3. pendingWrites' \in Nat /\ outstanding' \in 0..MaxOutstanding /\ pendingWrites' <= outstanding'
  BY <1>1, <1>2, ClientAssumption
<1>4. /\ pendingWrites' > MAX_PENDING_WRITES => pendingWrites' > half
      /\ ~(pendingWrites' <= half) => pendingWrites' > half
  BY <1>3, ClientAssumption
<1>5. /\ paused' = CASE pendingWrites' > MAX_PENDING_WRITES -> TRUE
                     [] pendingWrites' <= half -> FALSE
                     [] OTHER -> paused
      /\ ptyPaused' = IF paused' # paused /\ Heard /\ running # {} THEN paused' ELSE ptyPaused
      /\ running' = running
  BY DEF FlowControlCallback
<1>6. socket' = socket /\ Heard' = Heard
  BY DEF FlowControlCallback, connection, Heard
<1>7. paused' => pendingWrites' > half
  <2>1. CASE pendingWrites' > MAX_PENDING_WRITES BY <1>4, <2>1
  <2>2. CASE pendingWrites' <= half /\ ~(pendingWrites' > MAX_PENDING_WRITES)
    BY <1>5, <2>2
  <2>3. CASE ~(pendingWrites' <= half) BY <1>4, <2>3
  <2> QED BY <2>1, <2>2, <2>3
<1> HIDE DEF half
<1>8. ptyPaused' /\ Heard' => paused'
  BY <1>5, <1>6 DEF FlowInv, PauseRemembered
<1>9. ptyPaused' => running' # {}
  BY <1>5 DEF FlowInv
<1>10. socket' \in {"none", "closed", "connecting"} => ~ptyPaused'
  BY <1>5, <1>6 DEF FlowInv, Heard
<1> QED BY <1>3, <1>7, <1>8, <1>9, <1>10, Zenon DEF FlowInv, PauseRemembered, half

LEMMA FlowStart == Init => FlowInv
<1> SUFFICES ASSUME Init PROVE FlowInv
  OBVIOUS
<1>1. pendingWrites = 0 /\ outstanding = 0
  BY DEF Init
<1>2. pendingWrites \in Nat /\ outstanding \in 0..MaxOutstanding /\ pendingWrites <= outstanding
  BY <1>1, ClientAssumption
<1>3. ~paused /\ ~ptyPaused
  BY DEF Init
<1> QED BY <1>2, <1>3, Zenon DEF FlowInv, PauseRemembered

LEMMA FlowStep == FlowInv /\ [Next]_vars => FlowInv'
BY FlowQuietSteps, FlowResetSteps, OutputStep, CallbackStep, Zenon DEF Next

(* A terminal that is paused is one the client knows to be paused, with    *)
(* writes enough under way for flowControlCallback to resume it.           *)
THEOREM PauseNotForgotten == Spec => []PauseRemembered
<1>1. FlowInv => PauseRemembered
  BY DEF FlowInv
<1> QED BY <1>1, FlowStart, FlowStep, PTL DEF Spec

-----------------------------------------------------------------------------
(* The attempts already made and the ones that pending timers will make.   *)
Budget == MaxReconnectAttempts + MaxStrays
NoSocket == socket \in {"none", "closed"}

TimersInv ==
  /\ reconnectAttempts \in Nat /\ strays \in 0..MaxStrays
  /\ reconnectAttempts + strays <= Budget
  /\ reconnectTimer => reconnectAttempts + strays < Budget
  /\ reconnectTimer => NoSocket \/ (socket = "aborting" /\ strays < MaxStrays)

LinkInv ==
  /\ TimersInv /\ NeverStranded
  /\ socket = "leaving" => page = "gone"

(* scheduleReconnect sets a timer exactly when attempts are left.          *)
Schedules(attempts) ==
  /\ reconnectTimer' => ~Exhausted(attempts)
  /\ ~reconnectTimer' => Exhausted(attempts)

LEMMA ScheduleFacts ==
  ASSUME NEW attempts, ScheduleReconnect(attempts)
  PROVE  Schedules(attempts)
BY Zenon DEF ScheduleReconnect, Schedules

LEMMA ScheduledTimers ==
  ASSUME NEW attempts \in Nat, NEW s \in 0..MaxStrays, attempts + s <= Budget,
         reconnectAttempts' = attempts, strays' = s, Schedules(attempts),
         NoSocket' \/ (socket' = "aborting" /\ s < MaxStrays)
  PROVE  /\ TimersInv'
         /\ reconnectTimer' \/ Exhausted(reconnectAttempts)'
<1>1. ~Exhausted(attempts) => attempts + s < Budget
  BY ClientAssumption DEF Exhausted, Budget
<1> QED BY <1>1 DEF Schedules, TimersInv, Exhausted

(* initializeWebSocket: the last socket still lives, or one is made, or    *)
(* the attempt is counted as failed.                                       *)
LEMMA InitializeKeeps ==
  ASSUME LinkInv, NEW attempts \in Nat, NEW pending, NEW s \in 0..MaxStrays,
         InitializeWebSocket(attempts, pending),
         pending => reconnectTimer, page' = page, strays' = s, s <= strays,
         attempts + s <= Budget, reconnectTimer /\ pending => attempts + s < Budget
  PROVE  LinkInv'
<1>1. reconnectAttempts' = attempts
  BY DEF InitializeWebSocket
<1>2. CASE ~NoSocket /\ reconnectTimer' = pending /\ socket' = socket
  <2>1. ~NoSocket'
    BY <1>2 DEF NoSocket
  <2>2. reconnectTimer' => reconnectTimer /\ pending
    BY <1>2
  <2>3. reconnectTimer' => socket' = "aborting" /\ s < MaxStrays
    <3>1. strays < MaxStrays => s < MaxStrays
      BY ClientAssumption DEF LinkInv, TimersInv
    <3> QED BY <1>2, <2>2, <3>1, Zenon DEF LinkInv, TimersInv
  <2>4. TimersInv'
    BY <1>1, <2>2, <2>3, Zenon DEF TimersInv
  <2>5. NeverStranded'
    BY <2>1 DEF NeverStranded, NoSocket
  <2> QED BY <1>2, <2>4, <2>5, Zenon DEF LinkInv
<1>3. CASE socket' = "connecting" /\ ~reconnectTimer'
  BY <1>1, <1>3 DEF LinkInv, TimersInv, NeverStranded
<1>4. CASE NoSocket /\ socket' = socket /\ Schedules(attempts)
  <2>1. NoSocket'
    BY <1>4 DEF NoSocket
  <2>2. TimersInv' /\ (reconnectTimer' \/ Exhausted(reconnectAttempts)')
    BY <1>1, <1>4, <2>1, ScheduledTimers
  <2>3. socket' # "leaving"
    BY <2>1 DEF NoSocket
  <2> QED BY <2>2, <2>3, Zenon DEF LinkInv, NeverStranded
<1> QED
  BY <1>2, <1>3, <1>4, ScheduleFacts, Zenon DEF InitializeWebSocket, NoSocket

LEMMA ConnectSteps ==
  ASSUME LinkInv, FirstConnection \/ ReconnectFires \/ StrayFires
  PROVE  LinkInv'
<1>1. /\ reconnectAttempts \in Nat /\ strays \in 0..MaxStrays
      /\ reconnectAttempts + strays <= Budget
      /\ reconnectTimer => reconnectAttempts + strays < Budget
  BY DEF LinkInv, TimersInv
<1>2. Budget \in Nat
  BY ClientAssumption DEF Budget
<1>3. page' = page
  BY DEF FirstConnection, ReconnectFires, StrayFires
<1>4. CASE FirstConnection
  <2>1. InitializeWebSocket(reconnectAttempts, reconnectTimer) /\ strays' = strays
    BY <1>4 DEF FirstConnection
  <2>2. strays <= strays
    BY <1>1
  <2> QED BY <1>1, <1>3, <2>1, <2>2, InitializeKeeps
<1>5. CASE ReconnectFires
  <2>1. reconnectTimer /\ InitializeWebSocket(reconnectAttempts + 1, FALSE) /\ strays' = strays
    BY <1>5 DEF ReconnectFires
  <2>2. reconnectAttempts + strays < Budget
    BY <1>1, <2>1
  <2>3. reconnectAttempts + 1 \in Nat /\ strays <= strays /\ (reconnectAttempts + 1) + strays <= Budget
    BY <1>1, <1>2, <2>2
  <2> QED BY <1>1, <1>3, <2>1, <2>3, InitializeKeeps
<1>6. CASE StrayFires
  <2>1. /\ strays > 0 /\ strays' = strays - 1
        /\ InitializeWebSocket(reconnectAttempts + 1, reconnectTimer)
    BY <1>6 DEF StrayFires
  <2>2. /\ reconnectAttempts + 1 \in Nat /\ strays - 1 \in 0..MaxStrays /\ strays - 1 <= strays
        /\ (reconnectAttempts + 1) + (strays - 1) = reconnectAttempts + strays
    BY <1>1, <2>1, ClientAssumption
  <2> QED BY <1>1, <1>3, <2>1, <2>2, InitializeKeeps
<1> QED BY <1>4, <1>5, <1>6

LEMMA ConnectionTimeoutStep ==
  ASSUME LinkInv, ConnectionTimeout
  PROVE  LinkInv'
<1>1. /\ strays < MaxStrays /\ socket' = "aborting" /\ ScheduleReconnect(reconnectAttempts)
      /\ reconnectAttempts' = reconnectAttempts /\ strays' = strays
  BY DEF ConnectionTimeout
<1>2. /\ reconnectAttempts \in Nat /\ strays \in 0..MaxStrays
      /\ reconnectAttempts + strays <= Budget
  BY DEF LinkInv, TimersInv
<1>3. TimersInv'
  BY <1>1, <1>2, ScheduleFacts, ScheduledTimers
<1> QED BY <1>1, <1>3 DEF LinkInv, NeverStranded

(* A socket that is neither new nor gone takes part in no timer.           *)
LEMMA SocketMoves ==
  ASSUME LinkInv, reconnectTimer' = reconnectTimer, strays' = strays,
         reconnectAttempts' = reconnectAttempts \/ reconnectAttempts' = 0,
         socket \in {"connecting", "open"}, socket' \in {"open", "closing"}
  PROVE  LinkInv'
<1>1. ~reconnectTimer'
  BY DEF LinkInv, TimersInv, NoSocket
<1>2. /\ reconnectAttempts' \in Nat /\ strays' \in 0..MaxStrays
      /\ reconnectAttempts' + strays' <= Budget
  <2>1. /\ reconnectAttempts \in Nat /\ strays \in 0..MaxStrays
        /\ reconnectAttempts + strays <= Budget
    BY DEF LinkInv, TimersInv
  <2>2. strays <= Budget
    BY <2>1, ClientAssumption DEF Budget
  <2>3. CASE reconnectAttempts' = reconnectAttempts BY <2>1, <2>3
  <2>4. CASE reconnectAttempts' = 0 BY <2>1, <2>2, <2>4
  <2> QED BY <2>3, <2>4
<1>3. TimersInv'
  BY <1>1, <1>2 DEF TimersInv
<1> QED BY <1>3 DEF LinkInv, NeverStranded

LEMMA LinkSame ==
  ASSUME LinkInv, page' = page, starter' = starter, socket' = socket, strays' = strays,
         reconnectAttempts' = reconnectAttempts, reconnectTimer' = reconnectTimer
  PROVE  LinkInv'
<1>1. TimersInv'
  BY Zenon DEF LinkInv, TimersInv, NoSocket
<1>2. NeverStranded'
  BY Zenon DEF LinkInv, NeverStranded, Exhausted
<1> QED BY <1>1, <1>2, Zenon DEF LinkInv

LEMMA LinkQuietSteps ==
  ASSUME LinkInv,
         \/ LinkDies \/ Pong \/ Hide \/ AskCommand
         \/ (\E n \in Numbers : PtyReady(n) \/ Unprocessable(n) \/ Rejected(n))
         \/ PtyExited \/ Output \/ FlowControlCallback \/ MakeFullscreen \/ UNCHANGED vars
  PROVE  LinkInv'
<1>1. /\ page' = page /\ starter' = starter /\ socket' = socket /\ strays' = strays
      /\ reconnectAttempts' = reconnectAttempts /\ reconnectTimer' = reconnectTimer
  BY Zenon DEF vars, connection, timers, LinkDies, Pong, Hide, AskCommand, PtyReady,
     Unprocessable, Rejected, PtyExited, Output, FlowControlCallback, MakeFullscreen
<1> QED BY <1>1, LinkSame

LEMMA SocketSteps ==
  ASSUME LinkInv, HandleSocketOpen \/ PingTimeout \/ ProbeTimeout
  PROVE  LinkInv'
<1>1. /\ reconnectTimer' = reconnectTimer /\ strays' = strays
      /\ page' = page /\ starter' = starter
  BY Zenon DEF HandleSocketOpen, PingTimeout, ProbeTimeout
<1>2. reconnectAttempts' = reconnectAttempts \/ reconnectAttempts' = 0
  BY DEF HandleSocketOpen, PingTimeout, ProbeTimeout
<1>3. \/ socket' = socket /\ reconnectAttempts' = reconnectAttempts
      \/ socket \in {"connecting", "open"} /\ socket' \in {"open", "closing"}
  BY DEF HandleSocketOpen, PingTimeout, ProbeTimeout
<1> QED BY <1>1, <1>2, <1>3, LinkSame, SocketMoves

LEMMA ShowStep ==
  ASSUME LinkInv, Show
  PROVE  LinkInv'
<1>1. page' = page /\ starter' = starter /\ strays' = strays
  BY DEF Show
<1>2. CASE InitializeWebSocket(0, reconnectTimer)
  <2>1. strays \in 0..MaxStrays /\ 0 \in Nat /\ strays <= strays /\ 0 + strays <= Budget
    BY ClientAssumption DEF LinkInv, TimersInv, Budget
  <2>2. reconnectTimer => 0 + strays < Budget
    <3>1. /\ reconnectAttempts \in Nat
          /\ reconnectTimer => reconnectAttempts + strays < Budget
      BY DEF LinkInv, TimersInv
    <3>2. reconnectAttempts + strays < Budget => 0 + strays < Budget
      BY <2>1, <3>1, ClientAssumption DEF Budget
    <3> QED BY <3>1, <3>2
  <2> QED BY <1>1, <1>2, <2>1, <2>2, InitializeKeeps
<1>3. CASE /\ socket' = socket /\ reconnectAttempts' = reconnectAttempts
           /\ reconnectTimer' = reconnectTimer
  BY <1>1, <1>3, LinkSame
<1> QED BY <1>2, <1>3, Zenon DEF Show, timers

LEMMA CleanupStep ==
  ASSUME LinkInv, Cleanup
  PROVE  LinkInv'
<1>1. page' = "gone" /\ reconnectAttempts' = reconnectAttempts /\ strays' = strays
  BY DEF Cleanup
<1>2. ~reconnectTimer'
  BY DEF Cleanup
<1> QED BY <1>1, <1>2 DEF LinkInv, TimersInv, NeverStranded

(* The end of a socket.  An error's timer is overwritten only if the       *)
(* connection timeout set one before, while there was room for a stray.    *)
LEMMA SocketEndsStep ==
  ASSUME LinkInv, NEW error \in BOOLEAN, SocketEnds(error)
  PROVE  LinkInv'
<1>1. /\ socket' = "closed" /\ page' = page /\ reconnectAttempts' = reconnectAttempts
  BY DEF SocketEnds
<1>2. /\ reconnectAttempts \in Nat /\ strays \in 0..MaxStrays
      /\ reconnectAttempts + strays <= Budget
  BY DEF LinkInv, TimersInv
<1>3. strays' \in 0..MaxStrays /\ reconnectAttempts + strays' <= Budget
  <2>1. CASE error /\ reconnectTimer /\ ~Exhausted(reconnectAttempts)
    <3>1. strays' = strays + 1
      BY <2>1 DEF SocketEnds
    <3>2. strays < MaxStrays
      BY <2>1 DEF SocketEnds, LinkInv, TimersInv, NoSocket
    <3>3. reconnectAttempts < MaxReconnectAttempts
      BY <1>2, <2>1, ClientAssumption DEF Exhausted
    <3> HIDE DEF Exhausted
    <3>4. strays + 1 \in 0..MaxStrays /\ reconnectAttempts + (strays + 1) <= Budget
      BY <1>2, <3>2, <3>3, ClientAssumption DEF Budget
    <3> QED BY <3>1, <3>4
  <2>2. CASE ~(error /\ reconnectTimer /\ ~Exhausted(reconnectAttempts))
    <3>1. strays' = strays
      BY <2>2 DEF SocketEnds
    <3> QED BY <1>2, <3>1
  <2> QED BY <2>1, <2>2
<1>4. CASE CleanClose
  <2>1. page' = "gone"
    BY <1>1, <1>4 DEF CleanClose, LinkInv
  <2>2. ~reconnectTimer'
    BY <1>4 DEF SocketEnds
  <2> QED BY <1>1, <1>2, <1>3, <2>1, <2>2 DEF LinkInv, TimersInv, NeverStranded
<1>5. CASE ~CleanClose
  <2>1. Schedules(reconnectAttempts)
    BY <1>5, ScheduleFacts DEF SocketEnds
  <2>2. TimersInv' /\ (reconnectTimer' \/ Exhausted(reconnectAttempts)')
    <3>1. NoSocket'
      BY <1>1 DEF NoSocket
    <3> QED BY <1>1, <1>2, <1>3, <2>1, <3>1, ScheduledTimers
  <2>3. NeverStranded'
    BY <2>2, Zenon DEF NeverStranded
  <2> QED BY <1>1, <2>2, <2>3 DEF LinkInv
<1> QED BY <1>4, <1>5

LEMMA LinkStart == Init => LinkInv
<1> SUFFICES ASSUME Init PROVE LinkInv
  OBVIOUS
<1>1. reconnectAttempts = 0 /\ strays = 0 /\ socket = "none"
  BY DEF Init
<1>2. ~reconnectTimer /\ starter
  BY DEF Init
<1>3. TimersInv
  BY <1>1, <1>2, ClientAssumption DEF TimersInv, Budget
<1> QED BY <1>1, <1>2, <1>3 DEF LinkInv, NeverStranded

LEMMA LinkStep == LinkInv /\ [Next]_vars => LinkInv'
BY ConnectSteps, ConnectionTimeoutStep, LinkQuietSteps, SocketSteps, ShowStep, CleanupStep,
   SocketEndsStep, Zenon DEF Next

(* Whatever timeouts, errors, closes and visibility changes meet, a page   *)
(* without a connection has a timer pending that will try again, until its *)
(* attempts are used up.                                                   *)
THEOREM NotStranded == Spec => []NeverStranded
<1>1. LinkInv => NeverStranded
  BY DEF LinkInv
<1> QED BY <1>1, LinkStart, LinkStep, PTL DEF Spec

-----------------------------------------------------------------------------
SwitchesOK ==
  /\ starter \in BOOLEAN /\ link \in BOOLEAN
  /\ reconnectTimer \in BOOLEAN /\ connectionTimer \in BOOLEAN
  /\ isDocumentVisible \in BOOLEAN /\ wasConnectedBeforeHidden \in BOOLEAN
  /\ terminalActive \in BOOLEAN /\ paused \in BOOLEAN /\ ptyPaused \in BOOLEAN

NamesOK ==
  /\ page \in {"live", "gone"}
  /\ connectionState \in {"disconnected", "connecting", "connected", "reconnecting"}
  /\ socket \in {"none", "connecting", "open", "aborting", "closing", "leaving", "closed"}
  /\ pingTimer \in {"none", "ping", "probe"}
  /\ heartbeatMissed \in 0..1
  /\ pingTimer = "ping" => heartbeatMissed = 0

CommandsOK ==
  /\ asked \in 0..MaxCommands
  /\ pendingCommand \in 0..MaxCommands /\ lastSentCommand \in 0..MaxCommands
  /\ sent \subseteq Numbers /\ running \subseteq Numbers /\ started \subseteq Numbers

LEMMA SwitchesStep ==
  ASSUME SwitchesOK, [Next]_vars
  PROVE  SwitchesOK'
<1>1. CASE FirstConnection
  BY <1>1, Zenon DEF SwitchesOK, FirstConnection, InitializeWebSocket, ScheduleReconnect, visibility, server, flow
<1>2. CASE ReconnectFires
  BY <1>2, Zenon DEF SwitchesOK, ReconnectFires, InitializeWebSocket, ScheduleReconnect, visibility, server, flow
<1>3. CASE StrayFires
  BY <1>3, Zenon DEF SwitchesOK, StrayFires, InitializeWebSocket, ScheduleReconnect, visibility, server, flow
<1>4. CASE Show
  BY <1>4, Zenon DEF SwitchesOK, Show, InitializeWebSocket, ScheduleReconnect, timers, server, flow
<1>5. CASE ConnectionTimeout
  BY <1>5, Zenon DEF SwitchesOK, ConnectionTimeout, ScheduleReconnect, visibility, server, flow
<1>6. CASE HandleSocketOpen
  BY <1>6, Zenon DEF SwitchesOK, HandleSocketOpen, visibility, flow
<1>7. CASE \E error \in BOOLEAN : SocketEnds(error)
  BY <1>7, Zenon DEF SwitchesOK, SocketEnds, ScheduleReconnect, visibility, flow
<1>8. CASE LinkDies \/ Pong
  BY <1>8, Zenon DEF SwitchesOK, LinkDies, Pong, timers, visibility, server, flow
<1>9. CASE PingTimeout \/ ProbeTimeout
  BY <1>9, Zenon DEF SwitchesOK, PingTimeout, ProbeTimeout, visibility, server, flow
<1>10. CASE Hide
  BY <1>10, Zenon DEF SwitchesOK, Hide, server, flow
<1>11. CASE AskCommand
  BY <1>11, Zenon DEF SwitchesOK, AskCommand, connection, timers, visibility, flow
<1>12. CASE \E n \in Numbers : PtyReady(n)
  BY <1>12, Zenon DEF SwitchesOK, PtyReady, connection, timers, visibility, flow
<1>13. CASE \E n \in Numbers : Unprocessable(n) \/ Rejected(n)
  BY <1>13, Zenon DEF SwitchesOK, Unprocessable, Rejected, connection, timers, visibility, flow
<1>14. CASE PtyExited
  BY <1>14, Zenon DEF SwitchesOK, PtyExited, connection, timers, visibility, flow
<1>15. CASE Output
  BY <1>15, Zenon DEF SwitchesOK, Output, connection, timers, visibility, server
<1>16. CASE FlowControlCallback
  BY <1>16, Zenon DEF SwitchesOK, FlowControlCallback, connection, timers, visibility
<1>17. CASE MakeFullscreen \/ UNCHANGED vars
  BY <1>17, Zenon DEF SwitchesOK, MakeFullscreen, vars, connection, timers, visibility, server, flow
<1>18. CASE Cleanup
  BY <1>18, Zenon DEF SwitchesOK, Cleanup, visibility, server, flow
<1> QED BY <1>1, <1>2, <1>3, <1>4, <1>5, <1>6, <1>7, <1>8, <1>9,
          <1>10, <1>11, <1>12, <1>13, <1>14, <1>15, <1>16, <1>17, <1>18 DEF Next

LEMMA NamesStep ==
  ASSUME NamesOK, [Next]_vars
  PROVE  NamesOK'
<1>1. CASE FirstConnection \/ ReconnectFires \/ StrayFires \/ Show
  BY <1>1 DEF NamesOK, FirstConnection, ReconnectFires, StrayFires, Show,
     InitializeWebSocket, ScheduleReconnect, visibility, commands, server, flow, timers
<1>2. CASE ConnectionTimeout \/ HandleSocketOpen \/ \E error \in BOOLEAN : SocketEnds(error)
  BY <1>2 DEF NamesOK, ConnectionTimeout, HandleSocketOpen, SocketEnds,
     ScheduleReconnect, Send, visibility, commands, server, flow
<1>3. CASE LinkDies \/ Pong \/ PingTimeout \/ ProbeTimeout \/ Hide
  BY <1>3 DEF NamesOK, LinkDies, Pong, PingTimeout, ProbeTimeout, Hide,
     visibility, commands, server, flow, timers
<1>4. CASE AskCommand \/ PtyExited
        \/ \E n \in Numbers : PtyReady(n) \/ Unprocessable(n) \/ Rejected(n)
  BY <1>4 DEF NamesOK, AskCommand, PtyReady, Unprocessable, Rejected, PtyExited,
     Send, Server!Start, Server!Finish, connection, timers, visibility, commands, flow
<1>5. CASE Output \/ FlowControlCallback \/ MakeFullscreen \/ Cleanup \/ UNCHANGED vars
  BY <1>5 DEF NamesOK, Output, FlowControlCallback, MakeFullscreen, Cleanup, vars,
     connection, timers, visibility, commands, server, flow
<1> QED BY <1>1, <1>2, <1>3, <1>4, <1>5 DEF Next

LEMMA CommandsStep ==
  ASSUME CommandsOK, [Next]_vars
  PROVE  CommandsOK'
<1>1. CASE AskCommand
  <2>1. asked' = asked + 1 /\ asked + 1 \in Numbers /\ asked + 1 \in 0..MaxCommands
    BY <1>1, ClientAssumption DEF AskCommand, CommandsOK, Numbers
  <2>2. /\ pendingCommand' \in {pendingCommand, asked + 1}
        /\ lastSentCommand' \in {lastSentCommand, asked + 1}
        /\ sent' \in {sent, sent \cup {asked + 1}}
        /\ running' = running /\ started' = started
    BY <1>1 DEF AskCommand, Send
  <2> QED BY <2>1, <2>2 DEF CommandsOK
<1>2. CASE HandleSocketOpen
  <2> DEFINE n == IF pendingCommand # 0 THEN pendingCommand ELSE lastSentCommand
  <2>1. n # 0 => n \in Numbers /\ n \in 0..MaxCommands
    BY ClientAssumption DEF CommandsOK, Numbers
  <2>2. /\ IF n # 0 THEN lastSentCommand' = n /\ sent' = sent \cup {n}
                    ELSE lastSentCommand' = lastSentCommand /\ sent' = sent
        /\ pendingCommand' = 0 /\ asked' = asked /\ running' = running /\ started' = started
    BY <1>2 DEF HandleSocketOpen, Send
  <2> HIDE DEF n
  <2>3. 0 \in 0..MaxCommands
    BY ClientAssumption
  <2> QED BY <2>1, <2>2, <2>3 DEF CommandsOK
<1>3. CASE ~AskCommand /\ ~HandleSocketOpen
  <2>1. 0 \in 0..MaxCommands
    BY ClientAssumption
  <2>2. /\ asked' = asked /\ pendingCommand' \in {0, pendingCommand}
        /\ lastSentCommand' \in {0, lastSentCommand} /\ sent' \subseteq sent
    BY <1>3 DEF Next, vars, FirstConnection, ReconnectFires, StrayFires, ConnectionTimeout,
       SocketEnds, LinkDies, Pong, PingTimeout, ProbeTimeout, Hide, Show, PtyReady, PtyExited,
       Unprocessable, Rejected, Output, FlowControlCallback, MakeFullscreen, Cleanup,
       commands, server
  <2>3. running' \subseteq Numbers /\ started' \subseteq Numbers
    BY <1>3 DEF CommandsOK, Next, vars, FirstConnection, ReconnectFires, StrayFires,
       ConnectionTimeout, SocketEnds, LinkDies, Pong, PingTimeout, ProbeTimeout, Hide, Show,
       PtyReady, PtyExited, Unprocessable, Rejected, Output, FlowControlCallback,
       MakeFullscreen, Cleanup, server, Server!Start, Server!Finish
  <2> QED BY <2>1, <2>2, <2>3 DEF CommandsOK
<1> QED BY <1>1, <1>2, <1>3

LEMMA RestStart == Init => SwitchesOK /\ NamesOK /\ CommandsOK
<1> SUFFICES ASSUME Init PROVE SwitchesOK /\ NamesOK /\ CommandsOK
  OBVIOUS
<1>1. SwitchesOK
  BY Zenon DEF Init, SwitchesOK
<1>2. NamesOK
  BY DEF Init, NamesOK
<1>3. CommandsOK
  BY ClientAssumption DEF Init, CommandsOK
<1> QED BY <1>1, <1>2, <1>3

LEMMA TypeParts ==
  ASSUME ViewInv, FlowInv, LinkInv, SwitchesOK, NamesOK, CommandsOK
  PROVE  TypeOK
<1>1. reconnectAttempts \in 0..(MaxReconnectAttempts + MaxStrays) /\ strays \in 0..MaxStrays
  BY ClientAssumption DEF LinkInv, TimersInv, Budget
<1>2. pendingWrites \in Nat /\ outstanding \in 0..MaxOutstanding
  BY DEF FlowInv
<1>3. {starter, link, reconnectTimer, connectionTimer, isDocumentVisible,
       wasConnectedBeforeHidden, terminalActive, paused, ptyPaused} \subseteq BOOLEAN
  BY Zenon DEF SwitchesOK
<1> QED BY <1>1, <1>2, <1>3, Zenon DEF TypeOK, ViewInv, NamesOK, CommandsOK

(* Every variable of the browser's terminal keeps its type: the attempts   *)
(* stay within what maxReconnectAttempts and the stray timers allow, and a *)
(* ping that is waited for is the first.                                   *)
THEOREM TypeCorrect == Spec => []TypeOK
<1>1. Spec => [](ViewInv /\ FlowInv /\ LinkInv)
  BY ViewStart, ViewStep, FlowStart, FlowStep, LinkStart, LinkStep, PTL DEF Spec
<1>2. Spec => [](SwitchesOK /\ NamesOK /\ CommandsOK)
  BY RestStart, SwitchesStep, NamesStep, CommandsStep, PTL DEF Spec
<1> QED BY <1>1, <1>2, TypeParts, PTL

-----------------------------------------------------------------------------
(* The domain search.                                                      *)

Counted == seq <= 2 * events /\ (timer => seq < 2 * events)

ControllerOwnsAwaited == \A r \in Requests : Awaiting(r) => r = controller

SearchInv ==
    /\ SearchTypeOK /\ Counted /\ ControllerOwnsAwaited
    /\ QuoteMatchesField /\ NewestSearchSpeaks

Request == [phase : Phases, domain : Names, aborted : BOOLEAN]

(* abort() marks one request and changes nothing else of any.              *)
LEMMA AbortedTypes ==
    ASSUME SearchTypeOK
    PROVE  /\ Aborted \in [Requests -> Request]
           /\ \A r \in Requests : /\ Aborted[r].phase = requests[r].phase
                                  /\ Aborted[r].domain = requests[r].domain
                                  /\ r = controller => Aborted[r].aborted
                                  /\ r # controller => Aborted[r] = requests[r]
<1>1. requests \in [Requests -> Request]
  BY DEF SearchTypeOK, Request
<1>2. ASSUME NEW r \in Requests, r = controller
      PROVE  /\ Aborted[r] \in Request /\ Aborted[r].aborted
             /\ Aborted[r].phase = requests[r].phase /\ Aborted[r].domain = requests[r].domain
  <2>1. Aborted[r] = [requests[r] EXCEPT !.aborted = TRUE]
    BY <1>2 DEF Aborted
  <2>2. requests[r] \in [phase : Phases, domain : Names, aborted : BOOLEAN]
    BY <1>1 DEF Request
  <2> QED BY <2>1, <2>2 DEF Request
<1>3. ASSUME NEW r \in Requests, r # controller
      PROVE  Aborted[r] = requests[r]
  BY <1>3 DEF Aborted
<1>4. Aborted = [r \in Requests |-> Aborted[r]]
  BY DEF Aborted
<1>5. \A r \in Requests : Aborted[r] \in Request
  BY <1>1, <1>2, <1>3
<1>6. Aborted \in [Requests -> Request]
  BY <1>4, <1>5, Zenon
<1> QED BY <1>2, <1>3, <1>6

LEMMA OneMore ==
    ASSUME NEW M \in Nat, NEW s \in Nat, NEW e \in 0 .. M, s + 1 <= 2 * e
    PROVE  s + 1 \in 1 .. 2 * M /\ s + 1 \in 0 .. 2 * M
OBVIOUS

(* A search that is counted keeps everything: it aborts what was awaited,  *)
(* clears the hidden fields and puts itself into controller and panel.     *)
LEMMA SearchKeepsInv ==
    ASSUME SearchInv, SearchDomain, input' = input, timer' = FALSE, bound' = bound,
           events' \in 0 .. MaxEvents, seq + 1 <= 2 * events'
    PROVE  SearchInv'
<1> USE TextAssumption, BoundAssumption DEF TextAssumption, BoundAssumption
<1>1. seq + 1 \in Requests /\ Domain \in Names /\ controller \in {0} \cup Requests
  <2>1. seq \in Nat /\ input \in Texts /\ controller \in {0} \cup Requests
    BY DEF SearchInv, SearchTypeOK
  <2>2. seq + 1 \in 1 .. 2 * MaxEvents
    BY <2>1, OneMore, Zenon
  <2> QED BY <2>1, <2>2 DEF Requests, Domain
<1>2. Aborted \in [Requests -> Request] /\ requests \in [Requests -> Request]
  BY AbortedTypes DEF SearchInv, SearchTypeOK, Request
<1>3. requests' \in [Requests -> Request]
  <2>1. CASE Domain \notin Dotted
    BY <2>1, <1>2 DEF SearchDomain
  <2>2. CASE Domain \in Dotted
    <3>1. [phase |-> "fetching", domain |-> Domain, aborted |-> FALSE] \in Request
      BY <1>1 DEF Request, Phases
    <3> QED BY <2>2, <3>1, <1>1, <1>2 DEF SearchDomain
  <2> QED BY <2>1, <2>2
<1>4. controller' \in {0} \cup Requests
  BY <1>1 DEF SearchDomain
<1>5. /\ panel' \in [kind : {"empty", "checking", "result", "error"},
                     by : {0} \cup Requests, available : BOOLEAN]
      /\ panel'.kind # "empty" => panel'.by = seq'
  <2>1. CASE Domain \notin Dotted
    <3>1. panel' = [kind |-> "empty", by |-> 0, available |-> FALSE]
      BY <2>1 DEF SearchDomain, Empty
    <3> QED BY <3>1
  <2>2. CASE Domain \in Dotted
    <3>1. panel' = [kind |-> "checking", by |-> seq + 1, available |-> FALSE] /\ seq' = seq + 1
      BY <2>2 DEF SearchDomain
    <3> QED BY <3>1, <1>1
  <2> QED BY <2>1, <2>2
<1>6. meta' \in [by : {0} \cup Requests, available : BOOLEAN] /\ meta'.by = 0
  BY DEF SearchDomain, Cleared
<1>7. seq' \in 0 .. 2 * MaxEvents /\ seq' <= 2 * events'
  <2>1. seq \in Nat /\ seq' = seq + 1
    BY DEF SearchDomain, SearchInv, SearchTypeOK
  <2>2. seq + 1 \in 0 .. 2 * MaxEvents
    BY <2>1, OneMore, Zenon
  <2> QED BY <2>1, <2>2, Zenon
<1>8. SearchTypeOK'
  BY <1>3, <1>4, <1>5, <1>6, <1>7 DEF SearchInv, SearchTypeOK, SearchDomain, Request
<1>9. ControllerOwnsAwaited'
  <2> SUFFICES ASSUME NEW r \in Requests, Awaiting(r)'
               PROVE  r = controller'
    BY DEF ControllerOwnsAwaited
  <2>1. ~(Aborted[r].phase \in {"fetching", "reading"} /\ ~Aborted[r].aborted)
    BY AbortedTypes DEF SearchInv, ControllerOwnsAwaited, Awaiting
  <2>2. CASE Domain \notin Dotted
    BY <2>1, <2>2 DEF SearchDomain, Awaiting
  <2>3. CASE Domain \in Dotted
    BY <2>1, <2>3, <1>1, <1>2 DEF SearchDomain, Awaiting
  <2> QED BY <2>2, <2>3
<1>10. Counted' /\ QuoteMatchesField' /\ NewestSearchSpeaks'
  BY <1>5, <1>6, <1>7 DEF Counted, QuoteMatchesField, NewestSearchSpeaks
<1> QED BY <1>8, <1>9, <1>10 DEF SearchInv

(* A step that moves one request on, and neither its domain nor an abort.  *)
Moved(r) ==
    \E phase \in Phases :
        /\ requests' = [requests EXCEPT ![r].phase = phase]
        /\ phase \in {"fetching", "reading"} => Awaiting(r) /\ controller' = controller
        /\ controller' \in {controller, 0} /\ (controller' # controller => r = controller)

LEMMA MoveKeeps ==
    ASSUME SearchInv, NEW r \in Requests, Moved(r)
    PROVE  /\ requests' \in [Requests -> Request] /\ controller' \in {0} \cup Requests
           /\ \A s \in Requests : requests'[s].domain = requests[s].domain
           /\ ControllerOwnsAwaited'
<1> USE DEF Request
<1>1. PICK phase \in Phases :
        /\ requests' = [requests EXCEPT ![r].phase = phase]
        /\ phase \in {"fetching", "reading"} => Awaiting(r) /\ controller' = controller
        /\ controller' \in {controller, 0} /\ (controller' # controller => r = controller)
  BY DEF Moved
<1>2. requests \in [Requests -> Request] /\ controller \in {0} \cup Requests
  BY DEF SearchInv, SearchTypeOK
<1>3. /\ requests' \in [Requests -> Request]
      /\ \A s \in Requests : /\ requests'[s].domain = requests[s].domain
                             /\ requests'[s].aborted = requests[s].aborted
                             /\ requests'[s].phase = IF s = r THEN phase ELSE requests[s].phase
  BY <1>1, <1>2
<1>4. ControllerOwnsAwaited'
  BY <1>1, <1>3 DEF SearchInv, ControllerOwnsAwaited, Awaiting
<1> QED BY <1>1, <1>2, <1>3, <1>4

LEMMA FinallyMoves ==
    ASSUME NEW r \in Requests, Finally(r)
    PROVE  Moved(r)
BY DEF Finally, Moved, Phases

(* The network moves a request that is awaited.                            *)
LEMMA NetworkKeepsInv ==
    ASSUME SearchInv, NEW r \in Requests, Network(r)
    PROVE  SearchInv'
<1>1. Moved(r) /\ UNCHANGED <<bound, input, timer, seq, controller, panel, meta, silent, events>>
  <2>1. CASE Headers(r) BY <2>1 DEF Headers, Moved, Phases
  <2>2. CASE Body(r) BY <2>2 DEF Body, Moved, Phases
  <2>3. CASE NetworkFails(r) BY <2>3 DEF NetworkFails, Moved, Phases
  <2> QED BY <2>1, <2>2, <2>3 DEF Network
<1>2. SearchTypeOK'
  BY <1>1, MoveKeeps DEF SearchInv, SearchTypeOK, Request
<1>3. QuoteMatchesField'
  BY <1>1, MoveKeeps DEF SearchInv, SearchTypeOK, QuoteMatchesField, Domain
<1>4. Counted' /\ NewestSearchSpeaks'
  BY <1>1 DEF SearchInv, Counted, NewestSearchSpeaks
<1> QED BY <1>1, <1>2, <1>3, <1>4, MoveKeeps DEF SearchInv

(* What follows an await: it renders, shows an error, or leaves the panel. *)
LEMMA ContinueKeepsInv ==
    ASSUME SearchInv, NEW r \in Requests, Continue(r)
    PROVE  SearchInv'
<1>1. Moved(r) /\ UNCHANGED <<bound, input, timer, seq, silent, events>>
  BY FinallyMoves DEF Continue, BodyRead, CatchError, CatchAbort
<1>2. \/ UNCHANGED <<panel, meta>>
      \/ seq = r /\ Domain = requests[r].domain /\ \E a \in BOOLEAN : Render(r, a)
      \/ seq = r /\ ShowError(r)
  BY DEF Continue, BodyRead, CatchError, CatchAbort
<1>3. r \in Requests /\ 0 \notin Requests
  BY DEF Requests
<1>4. /\ panel' \in [kind : {"empty", "checking", "result", "error"},
                     by : {0} \cup Requests, available : BOOLEAN]
      /\ meta' \in [by : {0} \cup Requests, available : BOOLEAN]
      /\ NewestSearchSpeaks'
  <2>1. CASE UNCHANGED <<panel, meta>>
    BY <1>1, <2>1 DEF SearchInv, SearchTypeOK, NewestSearchSpeaks
  <2>2. CASE seq = r /\ \E a \in BOOLEAN : Render(r, a)
    BY <1>1, <1>3, <2>2 DEF NewestSearchSpeaks, Render
  <2>3. CASE seq = r /\ ShowError(r)
    BY <1>1, <1>3, <2>3 DEF NewestSearchSpeaks, ShowError, Cleared
  <2> QED BY <1>2, <2>1, <2>2, <2>3
<1>5. QuoteMatchesField'
  <2>1. CASE UNCHANGED <<panel, meta>>
    BY <1>1, <2>1, MoveKeeps DEF SearchInv, SearchTypeOK, QuoteMatchesField, Domain
  <2>2. CASE Domain = requests[r].domain /\ \E a \in BOOLEAN : Render(r, a)
    BY <1>1, <1>3, <2>2, MoveKeeps DEF QuoteMatchesField, Render, Domain
  <2>3. CASE ShowError(r)
    BY <2>3 DEF QuoteMatchesField, ShowError, Cleared
  <2> QED BY <1>2, <2>1, <2>2, <2>3
<1>6. SearchTypeOK' /\ Counted'
  BY <1>1, <1>4, MoveKeeps DEF SearchInv, SearchTypeOK, Counted, Request
<1> QED BY <1>1, <1>4, <1>5, <1>6, MoveKeeps DEF SearchInv

(* What the visitor or the page does to the field without a search.        *)
LEMMA FieldKeepsInv ==
    ASSUME SearchInv, BindDomainForm \/ \E t \in Texts : InputEvent(t) \/ ValueSetSilently(t)
    PROVE  SearchInv'
<1> USE BoundAssumption DEF BoundAssumption
<1>1. CASE BindDomainForm
  BY <1>1 DEF BindDomainForm, SearchInv, SearchTypeOK, Counted, ControllerOwnsAwaited, Awaiting,
              QuoteMatchesField, NewestSearchSpeaks, Domain
<1>2. ASSUME NEW t \in Texts, InputEvent(t) PROVE SearchInv'
  <2>1. requests' = Aborted /\ Aborted \in [Requests -> Request]
    BY <1>2, AbortedTypes DEF SearchInv, InputEvent
  <2>2. ControllerOwnsAwaited'
    BY <2>1, AbortedTypes DEF SearchInv, ControllerOwnsAwaited, Awaiting
  <2>3. Counted' /\ seq' \in 0 .. 2 * MaxEvents /\ events' \in 0 .. MaxEvents
    BY <1>2 DEF SearchInv, SearchTypeOK, Counted, InputEvent
  <2>4. SearchTypeOK'
    BY <1>2, <2>1, <2>3 DEF SearchInv, SearchTypeOK, InputEvent, Empty, Cleared, Request
  <2>5. QuoteMatchesField' /\ NewestSearchSpeaks'
    BY <1>2 DEF InputEvent, QuoteMatchesField, NewestSearchSpeaks, Empty, Cleared
  <2> QED BY <2>2, <2>3, <2>4, <2>5 DEF SearchInv
<1>3. ASSUME NEW t \in Texts, ValueSetSilently(t) PROVE SearchInv'
  BY <1>3 DEF ValueSetSilently, SearchInv, SearchTypeOK, Counted, ControllerOwnsAwaited, Awaiting,
              QuoteMatchesField, NewestSearchSpeaks
<1> QED BY <1>1, <1>2, <1>3

LEMMA SearchInitial == SearchInit => SearchInv
<1> SUFFICES ASSUME SearchInit PROVE SearchInv
  OBVIOUS
<1> USE TextAssumption, BoundAssumption DEF TextAssumption, BoundAssumption
<1>1. Unused \in Request
  <2>1. (CHOOSE t \in Texts : TRUE) \in Texts
    BY DEF SearchInit
  <2> QED BY <2>1 DEF Unused, Request, Phases
<1>2. SearchTypeOK
  <2>1. requests \in [Requests -> Request]
    BY <1>1 DEF SearchInit
  <2>2. seq \in 0 .. 2 * MaxEvents /\ events \in 0 .. MaxEvents /\ input \in Texts
    BY DEF SearchInit
  <2>3. bound \in BOOLEAN /\ timer \in BOOLEAN /\ silent \in BOOLEAN /\ controller \in {0} \cup Requests
    BY DEF SearchInit
  <2>4. /\ panel \in [kind : {"empty", "checking", "result", "error"},
                      by : {0} \cup Requests, available : BOOLEAN]
        /\ meta \in [by : {0} \cup Requests, available : BOOLEAN]
    BY DEF SearchInit, Empty, Cleared
  <2> QED BY <2>1, <2>2, <2>3, <2>4 DEF SearchTypeOK, Request
<1>3. ControllerOwnsAwaited
  BY DEF SearchInit, ControllerOwnsAwaited, Awaiting, Unused
<1>4. Counted /\ QuoteMatchesField /\ NewestSearchSpeaks
  BY DEF SearchInit, Counted, QuoteMatchesField, NewestSearchSpeaks, Empty, Cleared
<1> QED BY <1>2, <1>3, <1>4 DEF SearchInv

LEMMA SearchInductive == SearchInv /\ [SearchNext]_searchVars => SearchInv'
<1> SUFFICES ASSUME SearchInv, [SearchNext]_searchVars PROVE SearchInv'
  OBVIOUS
<1> USE BoundAssumption DEF BoundAssumption
<1>1. CASE BindDomainForm \/ \E t \in Texts : InputEvent(t) \/ ValueSetSilently(t)
  BY <1>1, FieldKeepsInv
<1>2. CASE TimerFires
  <2>1. SearchDomain /\ input' = input /\ timer' = FALSE /\ bound' = bound /\ events' = events
    BY <1>2 DEF TimerFires
  <2>2. events' \in 0 .. MaxEvents /\ seq + 1 <= 2 * events'
    BY <1>2, <2>1 DEF SearchInv, SearchTypeOK, Counted, TimerFires
  <2> QED BY <2>1, <2>2, SearchKeepsInv
<1>3. CASE BlurEvent \/ SubmitEvent
  <2>1. /\ SearchDomain /\ input' = input /\ timer' = FALSE /\ bound' = bound
        /\ events < MaxEvents /\ events' = events + 1
    BY <1>3 DEF BlurEvent, SubmitEvent
  <2>2. events' \in 0 .. MaxEvents /\ seq + 1 <= 2 * events'
    BY <2>1 DEF SearchInv, SearchTypeOK, Counted
  <2> QED BY <2>1, <2>2, SearchKeepsInv
<1>4. ASSUME NEW r \in Requests, Continue(r) PROVE SearchInv'
  BY <1>4, ContinueKeepsInv
<1>5. ASSUME NEW r \in Requests, Network(r) PROVE SearchInv'
  BY <1>5, NetworkKeepsInv
<1>6. CASE UNCHANGED searchVars
  BY <1>6 DEF searchVars, SearchInv, SearchTypeOK, Counted, ControllerOwnsAwaited, Awaiting,
              QuoteMatchesField, NewestSearchSpeaks, Domain
<1> QED BY <1>1, <1>2, <1>3, <1>4, <1>5, <1>6 DEF SearchNext

(* The invariant holds of every behaviour of the search field.             *)
THEOREM SearchInvariant == SearchSpec => []SearchInv
BY SearchInitial, SearchInductive, PTL DEF SearchSpec

(* The bookkeeping of searchDomain has its types; in particular no burst   *)
(* of events makes the sequence outrun what was counted.                   *)
THEOREM SearchTypeCorrect == SearchSpec => []SearchTypeOK
<1>1. SearchInv => SearchTypeOK BY DEF SearchInv
<1> QED BY SearchInvariant, <1>1, PTL

(* The hidden availability and price are those of the name in the field,   *)
(* unless the value was set without an event.                              *)
THEOREM QuoteIsOfTheField == SearchSpec => []QuoteMatchesField
<1>1. SearchInv => QuoteMatchesField BY DEF SearchInv
<1> QED BY SearchInvariant, <1>1, PTL

(* Neither answer nor error of a superseded search is ever shown.          *)
THEOREM OnlyNewestSpeaks == SearchSpec => []NewestSearchSpeaks
<1>1. SearchInv => NewestSearchSpeaks BY DEF SearchInv
<1> QED BY SearchInvariant, <1>1, PTL

(* At most one search that was not aborted is under way at the store.      *)
THEOREM OneAtATime == SearchSpec => []OneSearchUnderWay
<1>1. SearchInv => OneSearchUnderWay
  BY DEF SearchInv, ControllerOwnsAwaited, OneSearchUnderWay
<1> QED BY SearchInvariant, <1>1, PTL
=============================================================================
