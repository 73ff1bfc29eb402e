--------------------------- MODULE TerminalClient ---------------------------
(***************************************************************************)
(* The browser's side of a terminal: resources/js/terminal.js.             *)
(*                                                                         *)
(* One component on a page, its websocket with the timers that guard it,   *)
(* the commands it was asked to send, and the flow control of the output.  *)
(* A step is one callback: a socket event, a timer, a visibility change, a *)
(* message.  The server at the other end is what TerminalSlot promises,    *)
(* one session per connection; the network may refuse, break or silently   *)
(* lose a connection.                                                      *)
(***************************************************************************)
EXTENDS Integers, TerminalView

CONSTANTS
  MaxCommands,           \* bound: commands the page asks for
  MaxReconnectAttempts,  \* maxReconnectAttempts
  MaxStrays,             \* bound: forgotten reconnect timers at a time
  MAX_PENDING_WRITES,
  MaxOutstanding         \* bound: writes xterm has not called back for

ASSUME ClientAssumption ==
  /\ MaxCommands \in Nat /\ MaxReconnectAttempts \in Nat \ {0} /\ MaxStrays \in Nat
  /\ MAX_PENDING_WRITES \in Nat /\ MaxOutstanding \in Nat

Numbers == 1..MaxCommands

VARIABLES
  page,               \* "live", or "gone" after cleanup()
  starter,            \* is the timer of the first connection pending?
  connectionState,
  socket,             \* readyState; CLOSING is "aborting" if it was never OPEN,
                      \* "leaving" after close(1000), else "closing"
  link,               \* do the two ends of an open socket still hear each other?
  reconnectAttempts,
  reconnectTimer,     \* is the timer in reconnectInterval pending?
  strays,             \* pending reconnect timers that no variable holds any more
  connectionTimer,    \* is connectionTimeoutId pending?
  pingTimer,          \* pingTimeoutId: "none", "ping" (35 s) or "probe" (5 s)
  heartbeatMissed,
  isDocumentVisible, wasConnectedBeforeHidden,
  asked,              \* the last command the page asked for
  pendingCommand, lastSentCommand,  \* 0 for null
  terminalActive,
  sent,               \* the commands that reached this connection's server
  running, started,   \* the server's terminal slot
  pendingWrites, paused,
  outstanding,        \* writes whose callback is still to come
  ptyPaused           \* has the server's PTY been paused?

timers == <<reconnectTimer, connectionTimer, pingTimer>>
connection == <<connectionState, socket, link, reconnectAttempts, timers, strays>>
visibility == <<isDocumentVisible, wasConnectedBeforeHidden>>
commands == <<pendingCommand, lastSentCommand>>
server == <<sent, running, started, ptyPaused>>
flow == <<pendingWrites, paused, outstanding>>
vars == <<page, starter, connection, heartbeatMissed, visibility, asked, commands,
          terminalActive, server, flow, view>>

Server == INSTANCE TerminalSlot

TypeOK ==
  /\ page \in {"live", "gone"}
  /\ connectionState \in {"disconnected", "connecting", "connected", "reconnecting"}
  /\ socket \in {"none", "connecting", "open", "aborting", "closing", "leaving", "closed"}
  /\ reconnectAttempts \in 0..(MaxReconnectAttempts + MaxStrays)
  /\ strays \in 0..MaxStrays
  /\ pingTimer \in {"none", "ping", "probe"}
  /\ heartbeatMissed \in 0..1
  /\ asked \in 0..MaxCommands
  /\ pendingCommand \in 0..MaxCommands /\ lastSentCommand \in 0..MaxCommands
  /\ sent \subseteq Numbers /\ running \subseteq Numbers /\ started \subseteq Numbers
  /\ pendingWrites \in Nat /\ outstanding \in 0..MaxOutstanding
  /\ ViewTypeOK
  /\ {starter, link, reconnectTimer, connectionTimer, isDocumentVisible,
      wasConnectedBeforeHidden, terminalActive, paused, ptyPaused} \subseteq BOOLEAN

Init ==
  /\ page = "live" /\ starter = TRUE
  /\ connectionState = "disconnected" /\ socket = "none" /\ link = FALSE
  /\ reconnectAttempts = 0 /\ reconnectTimer = FALSE /\ strays = 0
  /\ connectionTimer = FALSE /\ pingTimer = "none" /\ heartbeatMissed = 0
  /\ isDocumentVisible = TRUE /\ wasConnectedBeforeHidden = FALSE
  /\ asked = 0 /\ pendingCommand = 0 /\ lastSentCommand = 0
  /\ terminalActive = FALSE
  /\ sent = {} /\ running = {} /\ started = {} /\ ptyPaused = FALSE
  /\ pendingWrites = 0 /\ paused = FALSE /\ outstanding = 0
  /\ ViewInit

Heard == socket = "open" /\ link

-----------------------------------------------------------------------------
(* scheduleReconnect, after `attempts' attempts.  A pending timer in       *)
(* reconnectInterval is overwritten, not cancelled.                        *)
Exhausted(attempts) == attempts >= MaxReconnectAttempts

\* Mutant: attempts are not counted.
ScheduleReconnectForever(attempts) ==
  reconnectTimer' = TRUE /\ connectionState' = "reconnecting"

\* Mutant: off by one at the last attempt.
ScheduleReconnectOneLess(attempts) ==
  /\ reconnectTimer' = ~Exhausted(attempts + 1)
  /\ connectionState' = IF Exhausted(attempts + 1) THEN "disconnected" ELSE "reconnecting"

ScheduleReconnect(attempts) ==
  /\ reconnectTimer' = ~Exhausted(attempts)
  /\ connectionState' = IF Exhausted(attempts) THEN "disconnected" ELSE "reconnecting"

(* initializeWebSocket, unless the last socket still lives.  The           *)
(* constructor may throw.  `pending' is whether the timer in               *)
(* reconnectInterval is still pending.                                     *)
InitializeWebSocket(attempts, pending) ==
  /\ reconnectAttempts' = attempts
  /\ \/ /\ socket \notin {"none", "closed"}
        /\ reconnectTimer' = pending
        /\ UNCHANGED <<connectionState, socket, link, connectionTimer, pingTimer>>
     \/ /\ socket \in {"none", "closed"}
        /\ socket' = "connecting" /\ connectionState' = "connecting"
        /\ reconnectTimer' = FALSE /\ connectionTimer' = TRUE /\ pingTimer' = "none"
        /\ UNCHANGED link
     \/ /\ socket \in {"none", "closed"}
        /\ ScheduleReconnect(attempts)
        /\ connectionTimer' = FALSE /\ pingTimer' = "none"
        /\ UNCHANGED <<socket, link>>

FirstConnection ==
  /\ starter /\ starter' = FALSE
  /\ InitializeWebSocket(reconnectAttempts, reconnectTimer)
  /\ UNCHANGED <<page, strays, heartbeatMissed, visibility, asked, commands,
                 terminalActive, server, flow, view>>

ReconnectFires ==
  /\ reconnectTimer
  /\ InitializeWebSocket(reconnectAttempts + 1, FALSE)
  /\ UNCHANGED <<page, starter, strays, heartbeatMissed, visibility, asked, commands,
                 terminalActive, server, flow, view>>

StrayFires ==
  /\ strays > 0 /\ strays' = strays - 1
  /\ InitializeWebSocket(reconnectAttempts + 1, reconnectTimer)
  /\ UNCHANGED <<page, starter, heartbeatMissed, visibility, asked, commands,
                 terminalActive, server, flow, view>>

\* Mutant: the timeout is only logged.
ConnectionTimeoutLogged ==
  /\ connectionTimer /\ connectionState = "connecting" /\ strays < MaxStrays
  /\ connectionTimer' = FALSE
  /\ UNCHANGED <<page, starter, connectionState, socket, link, reconnectAttempts,
                 reconnectTimer, pingTimer, strays, heartbeatMissed, visibility, asked,
                 commands, terminalActive, server, flow, view>>

(* The connection timeout closes the socket and calls handleConnectionError. *)
ConnectionTimeout ==
  /\ connectionTimer /\ connectionState = "connecting" /\ strays < MaxStrays
  /\ connectionTimer' = FALSE
  /\ socket' = "aborting"
  /\ ScheduleReconnect(reconnectAttempts)
  /\ UNCHANGED <<page, starter, link, reconnectAttempts, pingTimer, strays, heartbeatMissed,
                 visibility, asked, commands, terminalActive, server, flow, view>>

-----------------------------------------------------------------------------
(* sendMessage of a command: it reaches the server if the link is up.      *)
Send(n, up) ==
  /\ lastSentCommand' = n
  /\ sent' = IF up THEN sent \cup {n} ELSE sent

(* handleSocketOpen: flush the buffered command, or replay the last one.   *)
HandleSocketOpen ==
  /\ socket = "connecting"
  /\ socket' = "open" /\ link' = TRUE /\ connectionState' = "connected"
  /\ reconnectAttempts' = 0 /\ heartbeatMissed' = 0
  /\ connectionTimer' = FALSE /\ pingTimer' = "ping"
  /\ LET n == IF pendingCommand # 0 THEN pendingCommand ELSE lastSentCommand
     IN  IF n # 0 THEN Send(n, TRUE) ELSE UNCHANGED <<lastSentCommand, sent>>
  /\ pendingCommand' = 0
  /\ UNCHANGED <<page, starter, reconnectTimer, strays, visibility, asked, terminalActive,
                 running, started, ptyPaused, flow, view>>

(* The close event has code 1000: the peer answered close(1000).           *)
CleanClose == socket = "leaving" /\ link

(* The end of a socket: an error event first if it failed, whose timer     *)
(* takes the place of a pending one, and then handleSocketClose, which     *)
(* cancels that and sets another unless the close was clean.               *)
SocketEnds(error) ==
  /\ \/ socket \in {"connecting", "aborting"} /\ error
     \/ socket = "open"
     \/ socket \in {"closing", "leaving"} /\ ~error
  /\ socket' = "closed" /\ link' = FALSE
  /\ strays' = IF error /\ reconnectTimer /\ ~Exhausted(reconnectAttempts)
                 THEN strays + 1 ELSE strays
  /\ connectionTimer' = FALSE /\ pingTimer' = "none"
  /\ IF CleanClose
       THEN /\ connectionState' = "disconnected" /\ reconnectTimer' = FALSE
            /\ UNCHANGED <<pendingCommand, terminalActive, flow>>
       ELSE /\ ScheduleReconnect(reconnectAttempts)
            /\ IF reconnectAttempts > 0
                 THEN /\ pendingWrites' = 0 /\ paused' = FALSE /\ UNCHANGED outstanding
                      /\ pendingCommand' = 0 /\ terminalActive' = FALSE
                 ELSE UNCHANGED <<flow, pendingCommand, terminalActive>>
  /\ sent' = {} /\ running' = {} /\ started' = {} /\ ptyPaused' = FALSE
  /\ UNCHANGED <<page, starter, reconnectAttempts, heartbeatMissed, visibility, asked,
                 lastSentCommand, view>>

(* The network loses an open connection without telling this end.          *)
LinkDies ==
  /\ Heard /\ link' = FALSE
  /\ UNCHANGED <<page, starter, connectionState, socket, reconnectAttempts, timers, strays,
                 heartbeatMissed, visibility, asked, commands, terminalActive, server, flow, view>>

-----------------------------------------------------------------------------
MaxHeartbeatMisses == 3

(* A pong: the keep-alive and the probe ask for one.                       *)
Pong ==
  /\ Heard
  /\ heartbeatMissed' = 0 /\ pingTimer' = "ping"
  /\ UNCHANGED <<page, starter, connectionState, socket, link, reconnectAttempts,
                 reconnectTimer, connectionTimer, strays, visibility, asked, commands,
                 terminalActive, server, flow, view>>

(* The ping timeout counts, and would close the socket at the third miss   *)
(* in a row; nothing sets it again until a pong comes.                     *)
PingTimeout ==
  /\ pingTimer = "ping" /\ pingTimer' = "none"
  /\ heartbeatMissed' = heartbeatMissed + 1
  /\ socket' = IF heartbeatMissed' >= MaxHeartbeatMisses /\ socket = "open" THEN "closing" ELSE socket
  /\ UNCHANGED <<page, starter, connectionState, link, reconnectAttempts, reconnectTimer,
                 connectionTimer, strays, visibility, asked, commands, terminalActive, server, flow, view>>

ProbeTimeout ==
  /\ pingTimer = "probe" /\ pingTimer' = "none"
  /\ socket' = IF socket = "open" THEN "closing" ELSE socket
  /\ UNCHANGED <<page, starter, connectionState, link, reconnectAttempts, reconnectTimer,
                 connectionTimer, strays, heartbeatMissed, visibility, asked, commands,
                 terminalActive, server, flow, view>>

(* handleVisibilityChange.                                                 *)
Hide ==
  /\ isDocumentVisible /\ isDocumentVisible' = FALSE
  /\ wasConnectedBeforeHidden' = (connectionState = "connected")
  /\ pingTimer' = "none"
  /\ UNCHANGED <<page, starter, connectionState, socket, link, reconnectAttempts,
                 reconnectTimer, connectionTimer, strays, heartbeatMissed, asked, commands,
                 terminalActive, server, flow, view>>

Show ==
  /\ ~isDocumentVisible /\ isDocumentVisible' = TRUE
  /\ \/ /\ wasConnectedBeforeHidden /\ socket = "open"
        /\ heartbeatMissed' = 0 /\ pingTimer' = "probe"
        /\ UNCHANGED <<connectionState, socket, link, reconnectAttempts, reconnectTimer,
                       connectionTimer>>
     \/ /\ wasConnectedBeforeHidden /\ socket # "open" /\ connectionState # "connected"
        /\ InitializeWebSocket(0, reconnectTimer)
        /\ UNCHANGED heartbeatMissed
     \/ /\ ~wasConnectedBeforeHidden \/ (socket # "open" /\ connectionState = "connected")
        /\ UNCHANGED <<connectionState, socket, link, reconnectAttempts, timers, heartbeatMissed>>
  /\ UNCHANGED <<page, starter, wasConnectedBeforeHidden, strays, asked, commands,
                 terminalActive, server, flow, view>>

-----------------------------------------------------------------------------
(* sendCommandWhenReady, for a command of the page.                        *)
AskCommand ==
  /\ page = "live" /\ asked < MaxCommands
  /\ asked' = asked + 1
  /\ IF connectionState = "connected" /\ socket = "open"
       THEN Send(asked + 1, link) /\ UNCHANGED pendingCommand
       ELSE pendingCommand' = asked + 1 /\ UNCHANGED <<lastSentCommand, sent>>
  /\ UNCHANGED <<page, starter, connection, heartbeatMissed, visibility, terminalActive,
                 running, started, ptyPaused, flow, view>>

(* handleSocketMessage, for what the server reports of a command.          *)
Waiting == sent \ started

PtyReady(n) ==
  /\ Heard /\ n \in Waiting /\ Server!Start(n)
  /\ terminalActive' = TRUE /\ ptyPaused' = FALSE
  /\ UNCHANGED <<page, starter, connection, heartbeatMissed, visibility, asked, commands,
                 sent, flow, view>>

PtyExited ==
  /\ Heard /\ Server!Finish
  /\ terminalActive' = FALSE /\ lastSentCommand' = 0 /\ ptyPaused' = FALSE
  /\ ExitFullscreen
  /\ UNCHANGED <<page, starter, connection, heartbeatMissed, visibility, asked,
                 pendingCommand, sent, flow>>

Unprocessable(n) ==
  /\ Heard /\ n \in Waiting /\ running # {}
  /\ sent' = sent \ {n}
  /\ terminalActive' = FALSE /\ lastSentCommand' = 0
  /\ UNCHANGED <<page, starter, connection, heartbeatMissed, visibility, asked,
                 pendingCommand, running, started, ptyPaused, flow, view>>

Rejected(n) ==
  /\ Heard /\ n \in Waiting /\ running = {}
  /\ sent' = sent \ {n}
  /\ terminalActive' = FALSE
  /\ UNCHANGED <<page, starter, connection, heartbeatMissed, visibility, asked, commands,
                 running, started, ptyPaused, flow, view>>

(* Output of the terminal is written to xterm, which calls back.           *)
Output ==
  /\ Heard /\ running # {} /\ ~ptyPaused /\ outstanding < MaxOutstanding
  /\ pendingWrites' = pendingWrites + 1 /\ outstanding' = outstanding + 1
  /\ UNCHANGED <<page, starter, connection, heartbeatMissed, visibility, asked, commands,
                 terminalActive, server, paused, view>>

\* Mutant: off by one at the lower threshold.
FlowControlCallbackLate ==
  /\ outstanding > 0 /\ outstanding' = outstanding - 1
  /\ pendingWrites' = IF pendingWrites > 0 THEN pendingWrites - 1 ELSE 0
  /\ paused' = CASE pendingWrites' > MAX_PENDING_WRITES -> TRUE
                  [] pendingWrites' < MAX_PENDING_WRITES \div 2 -> FALSE
                  [] OTHER -> paused
  /\ ptyPaused' = IF paused' # paused /\ Heard /\ running # {} THEN paused' ELSE ptyPaused
  /\ UNCHANGED <<page, starter, connection, heartbeatMissed, visibility, asked, commands,
                 terminalActive, sent, running, started, view>>

(* flowControlCallback.  The server ignores a pause or a resume when no    *)
(* terminal is active.                                                     *)
FlowControlCallback ==
  /\ outstanding > 0 /\ outstanding' = outstanding - 1
  /\ pendingWrites' = IF pendingWrites > 0 THEN pendingWrites - 1 ELSE 0
  /\ paused' = CASE pendingWrites' > MAX_PENDING_WRITES -> TRUE
                  [] pendingWrites' <= MAX_PENDING_WRITES \div 2 -> FALSE
                  [] OTHER -> paused
  /\ ptyPaused' = IF paused' # paused /\ Heard /\ running # {} THEN paused' ELSE ptyPaused
  /\ UNCHANGED <<page, starter, connection, heartbeatMissed, visibility, asked, commands,
                 terminalActive, sent, running, started, view>>

(* makeFullscreen, the button.                                             *)
MakeFullscreen ==
  /\ page = "live"
  /\ (fullscreen /\ ExitFullscreen) \/ EnterFullscreen
  /\ UNCHANGED <<page, starter, connection, heartbeatMissed, visibility, asked, commands,
                 terminalActive, server, flow>>

(* cleanup, when the page is left.  Neither the first connection's timer   *)
(* nor a stray one is cancelled.  (The server is asked to end the          *)
(* terminal, which it does anyway when the socket closes.)                 *)
Cleanup ==
  /\ page = "live" /\ page' = "gone"
  /\ reconnectTimer' = FALSE /\ connectionTimer' = FALSE /\ pingTimer' = "none"
  /\ connectionState' = "disconnected" /\ pendingCommand' = 0
  /\ socket' = CASE socket = "connecting" -> "aborting"
                  [] socket = "open" -> "leaving"
                  [] OTHER -> socket
  /\ ExitFullscreen
  /\ UNCHANGED <<starter, link, reconnectAttempts, strays, heartbeatMissed, visibility, asked,
                 lastSentCommand, terminalActive, server, flow>>

Next ==
  \/ FirstConnection \/ ReconnectFires \/ StrayFires \/ ConnectionTimeout
  \/ HandleSocketOpen \/ (\E error \in BOOLEAN : SocketEnds(error)) \/ LinkDies
  \/ Pong \/ PingTimeout \/ ProbeTimeout \/ Hide \/ Show
  \/ AskCommand
  \/ \E n \in Numbers : PtyReady(n) \/ Unprocessable(n) \/ Rejected(n)
  \/ PtyExited \/ Output \/ FlowControlCallback \/ MakeFullscreen \/ Cleanup

Spec == Init /\ [][Next]_vars

(***************************************************************************)
(* Timers fire, xterm calls back, and a socket that is being closed gets   *)
(* its close event.  Nothing makes an attempt succeed.                     *)
(***************************************************************************)
Fairness ==
  /\ WF_vars(FirstConnection) /\ WF_vars(ReconnectFires) /\ WF_vars(StrayFires)
  /\ WF_vars(ConnectionTimeout) /\ WF_vars(ProbeTimeout)
  /\ WF_vars(FlowControlCallback)
  /\ WF_vars(\E error \in BOOLEAN :
                socket \in {"aborting", "closing", "leaving"} /\ SocketEnds(error))

LiveSpec == Spec /\ Fairness

-----------------------------------------------------------------------------
(* A page without a connection always has a timer pending that will try    *)
(* again, until the attempts are used up: whatever timeouts, errors,       *)
(* closes and visibility changes met in between, it is not stranded.       *)
NeverStranded ==
  page = "live" /\ socket \in {"none", "closed"}
    => starter \/ reconnectTimer \/ strays > 0 \/ Exhausted(reconnectAttempts)

(* A paused terminal is one the client knows to be paused, with enough     *)
(* writes under way that their callbacks will resume it.                   *)
PauseRemembered ==
  /\ ptyPaused /\ Heard => paused
  /\ paused => pendingWrites > MAX_PENDING_WRITES \div 2
  /\ pendingWrites <= outstanding

(* So output goes on: a paused terminal is resumed, unless its process or  *)
(* its connection ends first.                                              *)
PausedPtyResumes == (ptyPaused /\ Heard) ~> ~(ptyPaused /\ Heard)

(* Trying to connect ends: connected, given up, or the page left.          *)
ReconnectEnds ==
  (page = "live" /\ connectionState \in {"connecting", "reconnecting"})
    ~> \/ connectionState = "connected"
       \/ Exhausted(reconnectAttempts) \/ page = "gone"

=============================================================================
