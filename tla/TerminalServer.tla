--------------------------- MODULE TerminalServer ---------------------------
(***************************************************************************)
(* The realtime terminal server:                                           *)
(* docker/coolify-realtime/terminal-server.js.                             *)
(*                                                                         *)
(* One websocket connection and the session behind it; sessions share      *)
(* nothing, since each has a random userId of its own.  JavaScript runs    *)
(* one callback at a time, so a step is what happens between two awaits:   *)
(* a message, a socket event, the answer of a request, a timer.  What an   *)
(* await waits for is in `tasks': the kill loops under way, with the       *)
(* handler each of them returns to, in the order in which they look again: *)
(* timers of the same 500 ms fire in the order they were set.              *)
(*                                                                         *)
(* A command is known by its number in the order of sending, and so is the *)
(* pseudo-terminal (PTY) it starts.  The browser is any sequence of        *)
(* commands, one request to end the terminal (checkActive: 'force', sent   *)
(* by its cleanup) and a close, or it vanishes without one.  Keystrokes,   *)
(* resizing, output, flow control and JSON pings are relayed and change    *)
(* nothing here.                                                           *)
(***************************************************************************)
EXTENDS SshArgs

CONSTANTS
  MaxCommands,      \* bound: how many commands the browser sends
  CommandLines,     \* the argument lists it may send
  AuthorizedHosts,  \* the answer of /terminal/auth/ips
  MaxAttempts       \* maxAttempts of killPtyProcess

ASSUME TerminalAssumption ==
  /\ MaxCommands \in Nat
  /\ MaxAttempts \in Nat \ {0}

Numbers == 1..MaxCommands

VARIABLES
  ws,         \* the socket: "open", "closing", "closed"
  peer,       \* is the browser still at the other end?
  isAlive,    \* ws.isAlive: a pong came since the last ping
  stage,      \* how far authorization is
  stored,     \* is the session in userSessions?
  pendingMessages,
  cmd,        \* [Numbers -> where the command, or its PTY, stands]
  line,       \* [Numbers -> its argument list, empty before it is sent]
  forced,     \* has the browser sent its checkActive: 'force'?
  ptyProcess, \* the session's current PTY, 0 for null
  isActive,
  timer,      \* is terminalSessionTimer running?
  tasks       \* the kill loops under way, first the next to look

vars == <<ws, peer, isAlive, stage, stored, pendingMessages, cmd, line, forced,
          ptyProcess, isActive, timer, tasks>>
connection == <<ws, peer, isAlive, stage>>
session == <<ptyProcess, isActive, timer>>

Stages == {"verifying", "rejected", "fetching", "failed", "draining", "ready"}
ForceKill == 0
Alive == {"live", "told"}
Started == Alive \cup {"exited"}
CommandStates ==
  {"unsent", "buffered", "waiting", "rejected", "unprocessable"} \cup Started
Reasons == {"command", "force", "error", "close", "timer"}
Tasks == [why : Reasons, n : 0..MaxCommands, attempts : 1..MaxAttempts]

TypeOK ==
  /\ ws \in {"open", "closing", "closed"}
  /\ peer \in BOOLEAN /\ isAlive \in BOOLEAN /\ stored \in BOOLEAN
  /\ stage \in Stages
  /\ pendingMessages \in Seq(0..MaxCommands)
  /\ cmd \in [Numbers -> CommandStates]
  /\ line \in [Numbers -> CommandLines \cup {<<>>}]
  /\ forced \in BOOLEAN /\ isActive \in BOOLEAN /\ timer \in BOOLEAN
  /\ ptyProcess \in 0..MaxCommands
  /\ tasks \in Seq(Tasks)

Init ==
  /\ ws = "open" /\ peer = TRUE /\ isAlive = TRUE
  /\ stage = "verifying" /\ stored = FALSE
  /\ pendingMessages = <<>>
  /\ cmd = [n \in Numbers |-> "unsent"]
  /\ line = [n \in Numbers |-> <<>>]
  /\ forced = FALSE
  /\ ptyProcess = 0 /\ isActive = FALSE /\ timer = FALSE
  /\ tasks = <<>>

LivePtys == {n \in Numbers : cmd[n] \in Alive}

-----------------------------------------------------------------------------
(* attemptKill types an exit into whatever PTY is the current one.         *)
Told(c) == [n \in Numbers |-> IF n = ptyProcess /\ c[n] = "live" THEN "told" ELSE c[n]]

(* killPtyProcess finds a session with a PTY, or returns false at once.    *)
CanKill == stored /\ ptyProcess # 0

KillTask(why, n) == [why |-> why, n |-> n, attempts |-> 1]

(* The second half of handleCommand: the old deadline is dropped, the      *)
(* command checked, and its PTY spawned with a deadline of its own.        *)
AcceptedLines ==
  {l \in CommandLines :
     LET args == ExtractSshArgs(l)
     IN  /\ IsAuthorizedTargetHost(ExtractTargetHost(args), AuthorizedHosts)
         /\ ValidateSshArgs(args, AuthorizedHosts)}

\* Mutant: the terminal gets no deadline.
RunCommandUnlimited(n, l) ==
  IF l \in AcceptedLines
    THEN /\ cmd' = [cmd EXCEPT ![n] = "live"]
         /\ ptyProcess' = n /\ isActive' = TRUE /\ timer' = FALSE
    ELSE /\ cmd' = [cmd EXCEPT ![n] = "rejected"]
         /\ timer' = FALSE
         /\ UNCHANGED <<ptyProcess, isActive>>

RunCommand(n, l) ==
  IF l \in AcceptedLines
    THEN /\ cmd' = [cmd EXCEPT ![n] = "live"]
         /\ ptyProcess' = n /\ isActive' = TRUE /\ timer' = TRUE
    ELSE /\ cmd' = [cmd EXCEPT ![n] = "rejected"]
         /\ timer' = FALSE
         /\ UNCHANGED <<ptyProcess, isActive>>

\* Mutant: the kill loop is started and not awaited.
HandleCommandAtOnce(n, l) == RunCommand(n, l) /\ UNCHANGED tasks

(* handleCommand waits for the kill loop if a terminal is active.          *)
HandleCommand(n, l) ==
  IF isActive
    THEN /\ tasks' = Append(tasks, KillTask("command", n))
         /\ cmd' = [Told(cmd) EXCEPT ![n] = "waiting"]
         /\ UNCHANGED session
    ELSE RunCommand(n, l) /\ UNCHANGED tasks

(* checkActive: 'force' does not wait for the loop it starts.              *)
HandleForce ==
  /\ IF isActive
       THEN tasks' = Append(tasks, KillTask("force", 0)) /\ cmd' = Told(cmd)
       ELSE UNCHANGED <<tasks, cmd>>
  /\ UNCHANGED session

HandleMessage(m) == IF m = ForceKill THEN HandleForce ELSE HandleCommand(m, line[m])

-----------------------------------------------------------------------------
(* verifyClient asks /terminal/auth before the upgrade.                    *)
VerifyClient(ok) ==
  /\ stage = "verifying"
  /\ stage' = IF ok THEN "fetching" ELSE "rejected"
  /\ ws' = IF ok THEN ws ELSE "closed"
  /\ UNCHANGED <<peer, isAlive, stored, pendingMessages, cmd, line, forced, session, tasks>>

\* Mutant: what was buffered is not handled.
FetchAuthorizedHostsUndrained ==
  /\ stage = "fetching"
  /\ stage' = "ready" /\ stored' = TRUE
  /\ UNCHANGED <<ws, peer, isAlive, pendingMessages, cmd, line, forced, session, tasks>>

(* The connection handler goes on when /terminal/auth/ips answers, whether *)
(* or not the socket is still open.  After a success the session is stored *)
(* and the buffered messages are handled.                                  *)
FetchAuthorizedHosts ==
  /\ stage = "fetching"
  /\ stage' = "draining" /\ stored' = TRUE
  /\ UNCHANGED <<ws, peer, isAlive, pendingMessages, cmd, line, forced, session, tasks>>

FetchFails ==
  /\ stage = "fetching"
  /\ stage' = "failed"
  /\ ws' = IF ws = "open" THEN "closing" ELSE ws
  /\ UNCHANGED <<peer, isAlive, stored, pendingMessages, cmd, line, forced, session, tasks>>

(* The drain loop runs to its end before anything else happens.            *)
Drain ==
  /\ stage = "draining" /\ pendingMessages # <<>>
  /\ HandleMessage(Head(pendingMessages))
  /\ pendingMessages' = Tail(pendingMessages)
  /\ UNCHANGED <<connection, stored, line, forced>>

DrainEnds ==
  /\ stage = "draining" /\ pendingMessages = <<>>
  /\ stage' = "ready"
  /\ UNCHANGED <<ws, peer, isAlive, stored, pendingMessages, cmd, line, forced, session, tasks>>

Idle == stage # "draining"

(* A message is buffered until the session is authorized.                  *)
Arrives == ws = "open" /\ peer /\ Idle

ReceiveCommand(n, l) ==
  /\ Arrives /\ cmd[n] = "unsent"
  /\ \A k \in Numbers : k < n => cmd[k] # "unsent"
  /\ \/ /\ stage = "fetching"
        /\ pendingMessages' = Append(pendingMessages, n)
        /\ cmd' = [cmd EXCEPT ![n] = "buffered"]
        /\ UNCHANGED <<session, tasks>>
     \/ stage = "ready" /\ HandleCommand(n, l) /\ UNCHANGED pendingMessages
  /\ line' = [line EXCEPT ![n] = l]
  /\ UNCHANGED <<connection, stored, forced>>

ReceiveForce ==
  /\ Arrives /\ ~forced
  /\ forced' = TRUE
  /\ \/ /\ stage = "fetching"
        /\ pendingMessages' = Append(pendingMessages, ForceKill)
        /\ UNCHANGED <<cmd, session, tasks>>
     \/ stage = "ready" /\ HandleForce /\ UNCHANGED pendingMessages
  /\ UNCHANGED <<connection, stored, line>>

-----------------------------------------------------------------------------
(* A kill loop looks again 500 ms after it typed the exit.                 *)
Looking == Idle /\ tasks # <<>>
task == Head(tasks)

(* handleClose removes the session when its loop ends, however it ended.   *)
AfterKill == stored' = (stored /\ task.why # "close")

\* Mutant: the loop reports success without looking at isActive.
KillSucceedsBlindly ==
  /\ Looking
  /\ tasks' = Tail(tasks)
  /\ IF task.why = "command"
       THEN RunCommand(task.n, line[task.n])
       ELSE timer' = FALSE /\ UNCHANGED <<cmd, ptyProcess, isActive>>
  /\ AfterKill
  /\ UNCHANGED <<connection, pendingMessages, line, forced>>

KillSucceeds ==
  /\ Looking /\ ~isActive
  /\ tasks' = Tail(tasks)
  /\ IF task.why = "command"
       THEN RunCommand(task.n, line[task.n])
       ELSE timer' = FALSE /\ UNCHANGED <<cmd, ptyProcess, isActive>>
  /\ AfterKill
  /\ UNCHANGED <<connection, pendingMessages, line, forced>>

\* Mutant: one attempt too many.
KillAgainOnceMore ==
  /\ Looking /\ isActive /\ task.attempts <= MaxAttempts
  /\ tasks' = Append(Tail(tasks), [task EXCEPT !.attempts = @ + 1])
  /\ cmd' = Told(cmd)
  /\ UNCHANGED <<connection, stored, pendingMessages, line, forced, session>>

KillAgain ==
  /\ Looking /\ isActive /\ task.attempts < MaxAttempts
  /\ tasks' = Append(Tail(tasks), [task EXCEPT !.attempts = @ + 1])
  /\ cmd' = Told(cmd)
  /\ UNCHANGED <<connection, stored, pendingMessages, line, forced, session>>

KillGivesUp ==
  /\ Looking /\ isActive /\ task.attempts = MaxAttempts
  /\ tasks' = Tail(tasks)
  /\ cmd' = IF task.why = "command" THEN [cmd EXCEPT ![task.n] = "unprocessable"] ELSE cmd
  /\ AfterKill
  /\ UNCHANGED <<connection, pendingMessages, line, forced, session>>

\* Mutant: the deadline of the PTY that exited stays set.
PtyExitsDeadlineLeft(n) ==
  /\ Idle /\ cmd[n] \in Alive
  /\ cmd' = [cmd EXCEPT ![n] = "exited"]
  /\ isActive' = FALSE
  /\ UNCHANGED <<connection, stored, pendingMessages, line, forced, ptyProcess, timer, tasks>>

(* onExit of a PTY, whichever PTY it is.                                   *)
PtyExits(n) ==
  /\ Idle /\ cmd[n] \in Alive
  /\ cmd' = [cmd EXCEPT ![n] = "exited"]
  /\ isActive' = FALSE /\ timer' = FALSE
  /\ UNCHANGED <<connection, stored, pendingMessages, line, forced, ptyProcess, tasks>>

(* The deadline of eight hours.  A loop lasts seconds, so a loop of an     *)
(* earlier deadline has ended.                                             *)
SessionTimerFires ==
  /\ Idle /\ timer /\ \A i \in 1..Len(tasks) : tasks[i].why # "timer"
  /\ timer' = FALSE
  /\ IF CanKill
       THEN tasks' = Append(tasks, KillTask("timer", 0)) /\ cmd' = Told(cmd)
       ELSE UNCHANGED <<tasks, cmd>>
  /\ UNCHANGED <<connection, stored, pendingMessages, line, forced, ptyProcess, isActive>>

-----------------------------------------------------------------------------
(* handleError; a close event follows.                                     *)
SocketError ==
  /\ ws = "open" /\ stage \notin {"verifying", "draining"}
  /\ ws' = "closing"
  /\ IF CanKill
       THEN tasks' = Append(tasks, KillTask("error", 0)) /\ cmd' = Told(cmd)
       ELSE UNCHANGED <<tasks, cmd>>
  /\ UNCHANGED <<peer, isAlive, stage, stored, pendingMessages, line, forced, session>>

(* handleClose, on the browser's close or after the server's own.          *)
SocketClose ==
  /\ ws = "closing" \/ (ws = "open" /\ peer)
  /\ stage \notin {"verifying", "draining"}
  /\ ws' = "closed"
  /\ IF CanKill
       THEN /\ tasks' = Append(tasks, KillTask("close", 0)) /\ cmd' = Told(cmd)
            /\ UNCHANGED stored
       ELSE stored' = FALSE /\ UNCHANGED <<tasks, cmd>>
  /\ UNCHANGED <<peer, isAlive, stage, pendingMessages, line, forced, session>>

\* Mutant: the missed pong is not acted upon.
HeartbeatPingsOnly ==
  /\ ws = "open" /\ stage \notin {"verifying", "draining"}
  /\ isAlive' = FALSE
  /\ UNCHANGED <<ws, peer, stage, stored, pendingMessages, cmd, line, forced, session, tasks>>

(* The heartbeat interval: terminate who did not answer the last ping.     *)
Heartbeat ==
  /\ ws = "open" /\ stage \notin {"verifying", "draining"}
  /\ IF isAlive THEN isAlive' = FALSE /\ UNCHANGED ws
                ELSE ws' = "closing" /\ UNCHANGED isAlive
  /\ UNCHANGED <<peer, stage, stored, pendingMessages, cmd, line, forced, session, tasks>>

Pong ==
  /\ ws = "open" /\ peer /\ ~isAlive /\ Idle
  /\ isAlive' = TRUE
  /\ UNCHANGED <<ws, peer, stage, stored, pendingMessages, cmd, line, forced, session, tasks>>

(* The browser disappears without a close.                                 *)
PeerVanishes ==
  /\ peer /\ ws = "open" /\ stage \notin {"verifying", "draining"}
  /\ peer' = FALSE
  /\ UNCHANGED <<ws, isAlive, stage, stored, pendingMessages, cmd, line, forced, session, tasks>>

Next ==
  \/ \E ok \in BOOLEAN : VerifyClient(ok)
  \/ FetchAuthorizedHosts \/ FetchFails \/ Drain \/ DrainEnds
  \/ \E n \in Numbers, l \in CommandLines : ReceiveCommand(n, l)
  \/ ReceiveForce
  \/ KillSucceeds \/ KillAgain \/ KillGivesUp
  \/ \E n \in Numbers : PtyExits(n)
  \/ SessionTimerFires
  \/ SocketError \/ SocketClose \/ Heartbeat \/ Pong \/ PeerVanishes

Spec == Init /\ [][Next]_vars

(***************************************************************************)
(* Requests are answered, timers and intervals fire, and a socket that is  *)
(* closing gets its close event.  A shell that was told to exit need not:  *)
(* an editor or another program may swallow what was typed.                *)
(***************************************************************************)
Fairness ==
  /\ WF_vars(FetchAuthorizedHosts \/ FetchFails)
  /\ WF_vars(Drain \/ DrainEnds)
  /\ WF_vars(KillSucceeds \/ KillAgain \/ KillGivesUp)
  /\ WF_vars(SessionTimerFires)
  /\ WF_vars(Heartbeat)
  /\ WF_vars(ws = "closing" /\ SocketClose)

LiveSpec == Spec /\ Fairness

-----------------------------------------------------------------------------
(* isActive and ptyProcess tell the truth: at most one PTY of a session is *)
(* alive, and it is the one that keystrokes and kill loops are typed into, *)
(* although commands, kill loops and exits come in any order.              *)
OneTerminal == LivePtys = IF isActive THEN {ptyProcess} ELSE {}

(* The deadline that runs is that of the terminal that is alive: none      *)
(* survives its terminal to end a later one.                               *)
DeadlineOfTheLiving == timer => isActive

(* The session is a terminal slot: handleCommand starts a PTY only when    *)
(* the one before it has gone, and never one command twice.                *)
Slot == INSTANCE TerminalSlot
          WITH running <- LivePtys, started <- {n \in Numbers : cmd[n] \in Started}

ImplementsSlot == Slot!Spec

(* What a session that is ready starts ssh with is what it checked: the    *)
(* validator accepts exactly the acceptable lists, and the other passes of *)
(* handleCommand over a list (extractTargetHost, sanitizeSshArgs) agree    *)
(* with it, whatever the order of the arguments.                           *)
SshArgsAgree == stage = "ready" => ValidatorExact /\ SpawnedAsChecked

(* A command that was received is started, rejected or called              *)
(* unprocessable, unless its session was never authorized: the kill loop   *)
(* it waits for ends even if commands compete and no terminal obeys.       *)
CommandAnswered ==
  \A n \in Numbers :
    cmd[n] \in {"buffered", "waiting"}
      ~> (cmd[n] \notin {"buffered", "waiting"} \/ stage = "failed")

(* A terminal whose session is registered does not go on untold: it exits, *)
(* or an exit is typed into it, by its own deadline at the latest, though  *)
(* commands, kill loops and earlier deadlines set and clear timers.  What  *)
(* is typed may be ignored; the deadline types it a few times and no more. *)
ToldToExit == \A n \in Numbers : cmd[n] = "live" ~> (cmd[n] # "live" \/ ~stored)

(* The heartbeat finds out that a browser vanished, and its session goes.  *)
VanishedBrowserReleased == (~peer /\ ws = "open" /\ stage = "ready") ~> ~stored
=============================================================================
