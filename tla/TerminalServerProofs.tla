------------------------ MODULE TerminalServerProofs ------------------------
(***************************************************************************)
(* The session of the terminal server is a terminal slot, for any number   *)
(* of commands, any command lines and any number of kill attempts.         *)
(*                                                                         *)
(* That isActive and ptyProcess tell the truth is not inductive alone.     *)
(* What it needs is where the commands are that have not run: a kill loop  *)
(* that will return to handleCommand holds a command that waits and no     *)
(* other loop holds, and the same of the buffered messages.                *)
(*                                                                         *)
(* The last two parts are about what is started.  A command line of any    *)
(* length that validateSshArgs accepts is well formed; and for a line made *)
(* of groups, a flag with its value or an argument alone, it accepts       *)
(* exactly the acceptable ones.  The second follows the scan group by      *)
(* group: it has found nothing wrong after k groups exactly when those are *)
(* all listed and none is repeated, and then it knows what they are.       *)
(***************************************************************************)
EXTENDS TerminalServer, SequenceTheorems, SumLemmas, TLAPS

IsCommand(t) == t.why = "command"

Queued(ts, c) ==
  /\ \A i \in 1..Len(ts) : IsCommand(ts[i]) => ts[i].n \in Numbers /\ c[ts[i].n] = "waiting"
  /\ \A i, j \in 1..Len(ts) :
       IsCommand(ts[i]) /\ IsCommand(ts[j]) /\ ts[i].n = ts[j].n => i = j

Buffered(ms, c) ==
  /\ \A i \in 1..Len(ms) : ms[i] # ForceKill => c[ms[i]] = "buffered"
  /\ \A i, j \in 1..Len(ms) : ms[i] # ForceKill /\ ms[i] = ms[j] => i = j

CommandsQueued == Queued(tasks, cmd)
MessagesBuffered == Buffered(pendingMessages, cmd)

Inv ==
  /\ TypeOK /\ OneTerminal /\ DeadlineOfTheLiving
  /\ CommandsQueued /\ MessagesBuffered

StartedCommands == {n \in Numbers : cmd[n] \in Started}
SlotStep == [Slot!Next]_<<LivePtys, StartedCommands>>

-----------------------------------------------------------------------------
LEMMA NumberOrForce ==
  ASSUME NEW ms \in Seq(0..MaxCommands)
  PROVE  \A i \in 1..Len(ms) : ms[i] \in 0..MaxCommands /\ (ms[i] # ForceKill => ms[i] \in Numbers)
<1> SUFFICES ASSUME NEW i \in 1..Len(ms)
             PROVE  ms[i] \in 0..MaxCommands /\ (ms[i] # ForceKill => ms[i] \in Numbers)
  OBVIOUS
<1>1. ms[i] \in 0..MaxCommands
  BY ElementOfSeq
<1> QED BY <1>1, TerminalAssumption DEF Numbers, ForceKill

(* Sequences, as the lemmas below use them.                                *)
LEMMA AppendFacts ==
  ASSUME NEW S, NEW s \in Seq(S), NEW x \in S
  PROVE  /\ Append(s, x) \in Seq(S) /\ Len(Append(s, x)) = Len(s) + 1
         /\ \A i \in 1..Len(s) : Append(s, x)[i] = s[i]
         /\ Append(s, x)[Len(s) + 1] = x
OBVIOUS

LEMMA TailFacts ==
  ASSUME NEW S, NEW s \in Seq(S), s # <<>>
  PROVE  /\ Tail(s) \in Seq(S) /\ Len(s) \in Nat \ {0} /\ Len(Tail(s)) = Len(s) - 1
         /\ \A i \in 1..(Len(s) - 1) : Tail(s)[i] = s[i + 1]
         /\ Head(s) = s[1] /\ Head(s) \in S
OBVIOUS

(* A kill loop joins the queue: a command's, or one that holds none.       *)
LEMMA QueuedAppend ==
  ASSUME NEW ts \in Seq(Tasks), NEW t \in Tasks, NEW c, NEW d, Queued(ts, c),
         \A n \in Numbers : c[n] = "waiting" => d[n] = "waiting",
         IsCommand(t) => t.n \in Numbers /\ d[t.n] = "waiting" /\ c[t.n] # "waiting"
  PROVE  Queued(Append(ts, t), d)
<1> DEFINE us == Append(ts, t)
<1>1. /\ Len(us) = Len(ts) + 1 /\ Len(ts) \in Nat
      /\ \A i \in 1..Len(ts) : us[i] = ts[i]
      /\ us[Len(ts) + 1] = t
  BY AppendFacts
<1>2. ASSUME NEW i \in 1..Len(us), IsCommand(us[i])
      PROVE  us[i].n \in Numbers /\ d[us[i].n] = "waiting"
  <2>1. CASE i = Len(ts) + 1 BY <1>1, <1>2, <2>1
  <2>2. CASE i \in 1..Len(ts) BY <1>1, <1>2, <2>2 DEF Queued
  <2> QED BY <1>1, <2>1, <2>2
<1>3. ASSUME NEW i \in 1..Len(us), NEW j \in 1..Len(us),
             IsCommand(us[i]), IsCommand(us[j]), us[i].n = us[j].n
      PROVE  i = j
  <2>1. CASE i \in 1..Len(ts) /\ j \in 1..Len(ts)
    BY <1>1, <1>3, <2>1 DEF Queued
  <2>2. CASE i \in 1..Len(ts) /\ j = Len(ts) + 1
    BY <1>1, <1>3, <2>2 DEF Queued
  <2>3. CASE i = Len(ts) + 1 /\ j \in 1..Len(ts)
    BY <1>1, <1>3, <2>3 DEF Queued
  <2> QED BY <1>1, <2>1, <2>2, <2>3
<1> QED BY <1>2, <1>3 DEF Queued

(* The first loop leaves the queue, and with it the command it held.       *)
LEMMA QueuedTail ==
  ASSUME NEW ts \in Seq(Tasks), ts # <<>>, NEW c, NEW d, Queued(ts, c),
         \A n \in Numbers :
            c[n] = "waiting" /\ ~(IsCommand(Head(ts)) /\ n = Head(ts).n) => d[n] = "waiting"
  PROVE  Queued(Tail(ts), d)
<1> DEFINE us == Tail(ts)
<1>1. /\ Len(us) = Len(ts) - 1 /\ Len(ts) \in Nat \ {0}
      /\ \A i \in 1..(Len(ts) - 1) : us[i] = ts[i + 1]
      /\ Head(ts) = ts[1]
  BY TailFacts
<1>2. \A i \in 1..Len(us) : i + 1 \in 1..Len(ts) /\ us[i] = ts[i + 1] /\ i + 1 # 1
  BY <1>1
<1>3. 1 \in 1..Len(ts)
  BY <1>1
<1>4. ASSUME NEW i \in 1..Len(us), IsCommand(us[i])
      PROVE  us[i].n \in Numbers /\ d[us[i].n] = "waiting"
  <2>1. us[i].n \in Numbers /\ c[us[i].n] = "waiting"
    BY <1>2, <1>4 DEF Queued
  <2>2. ~(IsCommand(Head(ts)) /\ us[i].n = Head(ts).n)
    BY <1>1, <1>2, <1>3, <1>4 DEF Queued
  <2> QED BY <2>1, <2>2
<1>5. ASSUME NEW i \in 1..Len(us), NEW j \in 1..Len(us),
             IsCommand(us[i]), IsCommand(us[j]), us[i].n = us[j].n
      PROVE  i = j
  <2>1. i + 1 = j + 1
    BY <1>2, <1>5 DEF Queued
  <2> QED BY <2>1, <1>1
<1> QED BY <1>4, <1>5 DEF Queued

LEMMA QueuedSame ==
  ASSUME NEW ts, NEW c, NEW d, Queued(ts, c),
         \A n \in Numbers : c[n] = "waiting" => d[n] = "waiting"
  PROVE  Queued(ts, d)
BY DEF Queued

LEMMA BufferedAppend ==
  ASSUME NEW ms \in Seq(0..MaxCommands), NEW m \in 0..MaxCommands, NEW c, NEW d, Buffered(ms, c),
         \A n \in Numbers : c[n] = "buffered" => d[n] = "buffered",
         m # ForceKill => d[m] = "buffered" /\ c[m] # "buffered"
  PROVE  Buffered(Append(ms, m), d)
<1> DEFINE us == Append(ms, m)
<1>1. /\ Len(us) = Len(ms) + 1 /\ Len(ms) \in Nat
      /\ \A i \in 1..Len(ms) : us[i] = ms[i]
      /\ us[Len(ms) + 1] = m
  BY AppendFacts
<1>2. \A i \in 1..Len(ms) : ms[i] # ForceKill => ms[i] \in Numbers /\ d[ms[i]] = "buffered"
  BY NumberOrForce DEF Buffered
<1>3. ASSUME NEW i \in 1..Len(us), us[i] # ForceKill PROVE d[us[i]] = "buffered"
  <2>1. CASE i \in 1..Len(ms) BY <1>1, <1>2, <1>3, <2>1
  <2>2. CASE i = Len(ms) + 1 BY <1>1, <1>3, <2>2
  <2> QED BY <1>1, <2>1, <2>2
<1>4. ASSUME NEW i \in 1..Len(us), NEW j \in 1..Len(us), us[i] # ForceKill, us[i] = us[j]
      PROVE  i = j
  <2>1. CASE i \in 1..Len(ms) /\ j \in 1..Len(ms)
    BY <1>1, <1>4, <2>1 DEF Buffered
  <2>2. CASE i \in 1..Len(ms) /\ j = Len(ms) + 1
    BY <1>1, <1>4, <2>2 DEF Buffered
  <2>3. CASE i = Len(ms) + 1 /\ j \in 1..Len(ms)
    BY <1>1, <1>4, <2>3 DEF Buffered
  <2> QED BY <1>1, <2>1, <2>2, <2>3
<1> QED BY <1>3, <1>4 DEF Buffered

LEMMA BufferedTail ==
  ASSUME NEW ms \in Seq(0..MaxCommands), ms # <<>>, NEW c, NEW d, Buffered(ms, c),
         \A n \in Numbers : c[n] = "buffered" /\ n # Head(ms) => d[n] = "buffered"
  PROVE  Buffered(Tail(ms), d)
<1> DEFINE us == Tail(ms)
<1>1. /\ Len(us) = Len(ms) - 1 /\ Len(ms) \in Nat \ {0}
      /\ \A i \in 1..(Len(ms) - 1) : us[i] = ms[i + 1]
      /\ Head(ms) = ms[1]
  BY TailFacts
<1>2. \A i \in 1..Len(us) : i + 1 \in 1..Len(ms) /\ us[i] = ms[i + 1] /\ i + 1 # 1
  BY <1>1
<1>3. 1 \in 1..Len(ms)
  BY <1>1
<1>4. ASSUME NEW i \in 1..Len(us), us[i] # ForceKill PROVE d[us[i]] = "buffered"
  <2>1. us[i] \in Numbers /\ c[us[i]] = "buffered"
    <3>1. i + 1 \in 1..Len(ms) /\ ms[i + 1] # ForceKill /\ us[i] = ms[i + 1]
      BY <1>2, <1>4
    <3> QED BY <3>1, NumberOrForce DEF Buffered
  <2>2. us[i] # Head(ms)
    BY <1>1, <1>2, <1>3, <1>4 DEF Buffered
  <2> QED BY <2>1, <2>2
<1>5. ASSUME NEW i \in 1..Len(us), NEW j \in 1..Len(us), us[i] # ForceKill, us[i] = us[j]
      PROVE  i = j
  <2>1. ms[i + 1] # ForceKill /\ ms[i + 1] = ms[j + 1] /\ i + 1 \in 1..Len(ms) /\ j + 1 \in 1..Len(ms)
    BY <1>2, <1>5
  <2>2. i + 1 = j + 1
    BY <2>1 DEF Buffered
  <2> QED BY <2>2, <1>1
<1> QED BY <1>4, <1>5 DEF Buffered

LEMMA BufferedSame ==
  ASSUME NEW ms \in Seq(0..MaxCommands), NEW c, NEW d, Buffered(ms, c),
         \A n \in Numbers : c[n] = "buffered" => d[n] = "buffered"
  PROVE  Buffered(ms, d)
<1>1. \A i \in 1..Len(ms) : ms[i] # ForceKill => ms[i] \in Numbers
  BY NumberOrForce
<1> QED BY <1>1 DEF Buffered

-----------------------------------------------------------------------------
(* Typing an exit changes neither which terminals are alive nor where any  *)
(* other command stands.                                                   *)
LEMMA ToldFacts ==
  ASSUME TypeOK
  PROVE  /\ Told(cmd) \in [Numbers -> CommandStates]
         /\ \A n \in Numbers : /\ Told(cmd)[n] \in Alive <=> cmd[n] \in Alive
                               /\ Told(cmd)[n] \in Started <=> cmd[n] \in Started
                               /\ cmd[n] \notin Alive => Told(cmd)[n] = cmd[n]
BY DEF TypeOK, Told, CommandStates, Alive, Started

(* A step after which the same terminals are alive.                        *)
Quiet ==
  /\ cmd' \in [Numbers -> CommandStates]
  /\ \A n \in Numbers : /\ cmd'[n] \in Alive <=> cmd[n] \in Alive
                        /\ cmd'[n] \in Started <=> cmd[n] \in Started

LEMMA QuietKeeps ==
  ASSUME Inv, Quiet, ptyProcess' = ptyProcess, isActive' = isActive, timer' = timer \/ timer' = FALSE
  PROVE  OneTerminal' /\ DeadlineOfTheLiving' /\ SlotStep
<1>1. LivePtys' = LivePtys /\ StartedCommands' = StartedCommands
  BY DEF Quiet, LivePtys, StartedCommands
<1>2. OneTerminal'
  BY <1>1, Zenon DEF Inv, OneTerminal
<1>3. DeadlineOfTheLiving'
  BY Zenon DEF Inv, DeadlineOfTheLiving
<1> QED BY <1>1, <1>2, <1>3 DEF SlotStep

(* The second half of handleCommand, when no terminal is active, starts    *)
(* the slot or rejects the command.                                        *)
LEMMA RunCommandFacts ==
  ASSUME Inv, ~isActive, NEW n \in Numbers, NEW l, cmd[n] \notin Started, RunCommand(n, l)
  PROVE  /\ cmd' \in [Numbers -> CommandStates]
         /\ \A k \in Numbers \ {n} : cmd'[k] = cmd[k]
         /\ ptyProcess' \in 0..MaxCommands /\ isActive' \in BOOLEAN /\ timer' \in BOOLEAN
         /\ OneTerminal' /\ DeadlineOfTheLiving' /\ SlotStep
<1>1. cmd \in [Numbers -> CommandStates] /\ ptyProcess \in 0..MaxCommands /\ isActive \in BOOLEAN
  BY DEF Inv, TypeOK
<1>2. LivePtys = {}
  BY Zenon DEF Inv, OneTerminal
<1>3. n \in 0..MaxCommands
  BY TerminalAssumption DEF Numbers
<1>4. CASE l \in AcceptedLines
  <2>1. cmd' = [cmd EXCEPT ![n] = "live"] /\ ptyProcess' = n /\ isActive' = TRUE /\ timer' = TRUE
    BY <1>4 DEF RunCommand
  <2>2. cmd' \in [Numbers -> CommandStates] /\ \A k \in Numbers \ {n} : cmd'[k] = cmd[k]
    BY <1>1, <2>1 DEF CommandStates, Started, Alive
  <2>3. LivePtys' = {n}
    BY <1>1, <1>2, <2>1 DEF LivePtys, Alive
  <2>4. n \notin StartedCommands /\ StartedCommands' = StartedCommands \cup {n}
    BY <1>1, <2>1 DEF StartedCommands, Started, Alive
  <2>5. Slot!Start(n)
    BY <1>2, <2>3, <2>4 DEF Slot!Start, StartedCommands
  <2>6. SlotStep
    BY <2>5 DEF SlotStep, Slot!Next
  <2>7. OneTerminal' /\ DeadlineOfTheLiving'
    BY <2>1, <2>3, Zenon DEF OneTerminal, DeadlineOfTheLiving
  <2> QED BY <1>3, <2>1, <2>2, <2>6, <2>7
<1>5. CASE l \notin AcceptedLines
  <2>1. /\ cmd' = [cmd EXCEPT ![n] = "rejected"] /\ timer' = FALSE
        /\ ptyProcess' = ptyProcess /\ isActive' = isActive
    BY <1>5 DEF RunCommand
  <2>2. Quiet /\ \A k \in Numbers \ {n} : cmd'[k] = cmd[k]
    BY <1>1, <2>1 DEF Quiet, CommandStates, Started, Alive
  <2>3. OneTerminal' /\ DeadlineOfTheLiving' /\ SlotStep
    BY <2>1, <2>2, QuietKeeps
  <2> QED BY <1>1, <2>1, <2>2, <2>3 DEF Quiet
<1> QED BY <1>4, <1>5

LEMMA KillTaskType ==
  ASSUME NEW why \in Reasons, NEW n \in 0..MaxCommands
  PROVE  /\ KillTask(why, n) \in Tasks
         /\ KillTask(why, n).n = n /\ (IsCommand(KillTask(why, n)) <=> why = "command")
BY TerminalAssumption DEF KillTask, Tasks, IsCommand

(* handleCommand on a command that was just received or buffered.          *)
LEMMA HandleCommandFacts ==
  ASSUME Inv, NEW n \in Numbers, NEW l, cmd[n] \in {"unsent", "buffered"}, HandleCommand(n, l)
  PROVE  /\ cmd' \in [Numbers -> CommandStates] /\ tasks' \in Seq(Tasks)
         /\ \A k \in Numbers \ {n} : cmd[k] = "buffered" => cmd'[k] = "buffered"
         /\ ptyProcess' \in 0..MaxCommands /\ isActive' \in BOOLEAN /\ timer' \in BOOLEAN
         /\ OneTerminal' /\ DeadlineOfTheLiving' /\ SlotStep /\ CommandsQueued'
<1>1. /\ cmd \in [Numbers -> CommandStates] /\ tasks \in Seq(Tasks) /\ Queued(tasks, cmd)
      /\ ptyProcess \in 0..MaxCommands /\ isActive \in BOOLEAN /\ timer \in BOOLEAN
  BY DEF Inv, TypeOK, CommandsQueued
<1>2. cmd[n] \notin Started /\ cmd[n] # "waiting" /\ n \in 0..MaxCommands
  BY TerminalAssumption DEF Started, Alive, Numbers
<1>3. CASE isActive
  <2>1. /\ tasks' = Append(tasks, KillTask("command", n))
        /\ cmd' = [Told(cmd) EXCEPT ![n] = "waiting"]
        /\ ptyProcess' = ptyProcess /\ isActive' = isActive /\ timer' = timer
    BY <1>3 DEF HandleCommand, session
  <2>2. /\ Told(cmd) \in [Numbers -> CommandStates]
        /\ \A k \in Numbers : /\ Told(cmd)[k] \in Alive <=> cmd[k] \in Alive
                              /\ Told(cmd)[k] \in Started <=> cmd[k] \in Started
                              /\ cmd[k] \notin Alive => Told(cmd)[k] = cmd[k]
    BY ToldFacts DEF Inv
  <2>3. /\ cmd' \in [Numbers -> CommandStates] /\ cmd'[n] = "waiting"
        /\ \A k \in Numbers \ {n} : cmd'[k] = Told(cmd)[k]
    BY <2>1, <2>2 DEF CommandStates
  <2>4. \A k \in Numbers : /\ cmd[k] = "waiting" => cmd'[k] = "waiting"
                           /\ k # n /\ cmd[k] = "buffered" => cmd'[k] = "buffered"
    BY <2>2, <2>3 DEF Alive
  <2>5. Quiet
    BY <1>1, <1>2, <2>2, <2>3 DEF Quiet, Started, Alive
  <2>6. /\ KillTask("command", n) \in Tasks /\ KillTask("command", n).n = n
        /\ IsCommand(KillTask("command", n))
    BY <1>2, KillTaskType DEF Reasons
  <2>7. tasks' \in Seq(Tasks) /\ Queued(tasks', cmd')
    <3>1. tasks' \in Seq(Tasks)
      BY <1>1, <2>1, <2>6, AppendFacts
    <3>2. Queued(Append(tasks, KillTask("command", n)), cmd')
      BY <1>1, <1>2, <2>3, <2>4, <2>6, QueuedAppend
    <3> QED BY <2>1, <3>1, <3>2
  <2>8. OneTerminal' /\ DeadlineOfTheLiving' /\ SlotStep
    BY <2>1, <2>5, QuietKeeps
  <2> QED BY <1>1, <2>1, <2>3, <2>4, <2>7, <2>8 DEF CommandsQueued
<1>4. CASE ~isActive
  <2>1. RunCommand(n, l) /\ tasks' = tasks
    BY <1>4 DEF HandleCommand
  <2>2. /\ cmd' \in [Numbers -> CommandStates]
        /\ \A k \in Numbers \ {n} : cmd'[k] = cmd[k]
        /\ ptyProcess' \in 0..MaxCommands /\ isActive' \in BOOLEAN /\ timer' \in BOOLEAN
        /\ OneTerminal' /\ DeadlineOfTheLiving' /\ SlotStep
    BY <1>2, <1>4, <2>1, RunCommandFacts
  <2>3. Queued(tasks, cmd')
    BY <1>1, <1>2, <2>2, QueuedSame
  <2> QED BY <1>1, <2>1, <2>2, <2>3 DEF CommandsQueued
<1> QED BY <1>3, <1>4

(* A kill loop that holds no command starts, or none does.                 *)
KillOrNot ==
  \/ \E why \in Reasons \ {"command"} :
       tasks' = Append(tasks, KillTask(why, 0)) /\ cmd' = Told(cmd)
  \/ tasks' = tasks /\ cmd' = cmd

LEMMA KillOrNotFacts ==
  ASSUME Inv, KillOrNot
  PROVE  /\ Quiet /\ tasks' \in Seq(Tasks) /\ CommandsQueued'
         /\ \A n \in Numbers : cmd[n] = "buffered" => cmd'[n] = "buffered"
<1>1. cmd \in [Numbers -> CommandStates] /\ tasks \in Seq(Tasks) /\ Queued(tasks, cmd)
  BY DEF Inv, TypeOK, CommandsQueued
<1>2. ASSUME NEW why \in Reasons \ {"command"}, tasks' = Append(tasks, KillTask(why, 0)),
             cmd' = Told(cmd)
      PROVE  /\ Quiet /\ tasks' \in Seq(Tasks) /\ CommandsQueued'
             /\ \A n \in Numbers : cmd[n] = "buffered" => cmd'[n] = "buffered"
  <2>1. /\ cmd' \in [Numbers -> CommandStates]
        /\ \A n \in Numbers : /\ cmd'[n] \in Alive <=> cmd[n] \in Alive
                              /\ cmd'[n] \in Started <=> cmd[n] \in Started
                              /\ cmd[n] \notin Alive => cmd'[n] = cmd[n]
    BY <1>2, ToldFacts DEF Inv
  <2>2. \A n \in Numbers : /\ cmd[n] = "waiting" => cmd'[n] = "waiting"
                           /\ cmd[n] = "buffered" => cmd'[n] = "buffered"
    BY <2>1 DEF Alive
  <2>3. KillTask(why, 0) \in Tasks /\ ~IsCommand(KillTask(why, 0))
    BY TerminalAssumption, KillTaskType
  <2>4. tasks' \in Seq(Tasks) /\ Queued(tasks', cmd')
    <3>1. tasks' \in Seq(Tasks)
      BY <1>1, <1>2, <2>3, AppendFacts
    <3>2. Queued(Append(tasks, KillTask(why, 0)), cmd')
      BY <1>1, <2>2, <2>3, QueuedAppend
    <3> QED BY <1>2, <3>1, <3>2
  <2> QED BY <2>1, <2>2, <2>4 DEF Quiet, CommandsQueued
<1>3. CASE tasks' = tasks /\ cmd' = cmd
  BY <1>1, <1>3 DEF Quiet, CommandsQueued, Queued, IsCommand
<1> QED BY <1>2, <1>3 DEF KillOrNot

(* A step that leaves the commands alone or only starts a kill loop, drops *)
(* the deadline at most, and buffers no command.                           *)
LEMMA KillOrNotKeeps ==
  ASSUME Inv, KillOrNot, pendingMessages' = pendingMessages,
         ptyProcess' = ptyProcess, isActive' = isActive, timer' = timer \/ timer' = FALSE
  PROVE  /\ OneTerminal' /\ DeadlineOfTheLiving' /\ CommandsQueued' /\ MessagesBuffered' /\ SlotStep
         /\ cmd' \in [Numbers -> CommandStates] /\ tasks' \in Seq(Tasks)
         /\ pendingMessages' \in Seq(0..MaxCommands)
         /\ ptyProcess' \in 0..MaxCommands /\ isActive' \in BOOLEAN /\ timer' \in BOOLEAN
<1>1. /\ Quiet /\ tasks' \in Seq(Tasks) /\ CommandsQueued'
      /\ \A n \in Numbers : cmd[n] = "buffered" => cmd'[n] = "buffered"
  BY KillOrNotFacts
<1>2. OneTerminal' /\ DeadlineOfTheLiving' /\ SlotStep
  BY <1>1, QuietKeeps
<1>3. /\ pendingMessages \in Seq(0..MaxCommands) /\ Buffered(pendingMessages, cmd)
      /\ ptyProcess \in 0..MaxCommands /\ isActive \in BOOLEAN /\ timer \in BOOLEAN
  BY DEF Inv, TypeOK, MessagesBuffered
<1>4. Buffered(pendingMessages, cmd')
  BY <1>1, <1>3, BufferedSame
<1> QED BY <1>1, <1>2, <1>3, <1>4 DEF Quiet, MessagesBuffered

-----------------------------------------------------------------------------
(* The part of the state that the terminals do not depend on.              *)
RestOK ==
  /\ ws \in {"open", "closing", "closed"}
  /\ peer \in BOOLEAN /\ isAlive \in BOOLEAN /\ stored \in BOOLEAN
  /\ stage \in Stages
  /\ line \in [Numbers -> CommandLines \cup {<<>>}]
  /\ forced \in BOOLEAN

(* A step of the socket, a timer or a request.                             *)
LEMMA PlainStep ==
  ASSUME Inv, KillOrNot, RestOK', pendingMessages' = pendingMessages,
         ptyProcess' = ptyProcess, isActive' = isActive, timer' = timer \/ timer' = FALSE
  PROVE  Inv' /\ SlotStep
<1>1. /\ OneTerminal' /\ DeadlineOfTheLiving' /\ CommandsQueued' /\ MessagesBuffered' /\ SlotStep
      /\ cmd' \in [Numbers -> CommandStates] /\ tasks' \in Seq(Tasks)
      /\ pendingMessages' \in Seq(0..MaxCommands)
      /\ ptyProcess' \in 0..MaxCommands /\ isActive' \in BOOLEAN /\ timer' \in BOOLEAN
  BY KillOrNotKeeps
<1>2. TypeOK'
  BY <1>1 DEF TypeOK, RestOK
<1> QED BY <1>1, <1>2 DEF Inv

LEMMA AuthorizationSteps ==
  ASSUME Inv,
         (\E ok \in BOOLEAN : VerifyClient(ok)) \/ FetchAuthorizedHosts \/ FetchFails \/ DrainEnds
  PROVE  Inv' /\ SlotStep
<1> USE DEF Inv, TypeOK, RestOK, session, Stages
<1>1. RestOK'
  <2>1. CASE \E ok \in BOOLEAN : VerifyClient(ok)
    BY <2>1, Zenon DEF VerifyClient
  <2>2. CASE FetchAuthorizedHosts BY <2>2, Zenon DEF FetchAuthorizedHosts
  <2>3. CASE FetchFails BY <2>3, Zenon DEF FetchFails
  <2>4. CASE DrainEnds BY <2>4, Zenon DEF DrainEnds
  <2> QED BY <2>1, <2>2, <2>3, <2>4
<1>2. /\ tasks' = tasks /\ cmd' = cmd /\ pendingMessages' = pendingMessages
      /\ ptyProcess' = ptyProcess /\ isActive' = isActive /\ timer' = timer
  BY Zenon DEF VerifyClient, FetchAuthorizedHosts, FetchFails, DrainEnds
<1> HIDE DEF Inv, TypeOK, RestOK, session, Stages
<1>3. KillOrNot
  BY <1>2 DEF KillOrNot
<1> QED BY <1>1, <1>2, <1>3, PlainStep

LEMMA SocketSteps ==
  ASSUME Inv, SocketError \/ SocketClose \/ Heartbeat \/ Pong \/ PeerVanishes
  PROVE  Inv' /\ SlotStep
<1>1. RestOK
  BY DEF Inv, TypeOK, RestOK
<1>2. RestOK'
  <2>1. CASE SocketError BY <1>1, <2>1, Zenon DEF SocketError, RestOK
  <2>2. CASE SocketClose BY <1>1, <2>2, Zenon DEF SocketClose, RestOK
  <2>3. CASE Heartbeat BY <1>1, <2>3, Zenon DEF Heartbeat, RestOK
  <2>4. CASE Pong BY <1>1, <2>4, Zenon DEF Pong, RestOK
  <2>5. CASE PeerVanishes BY <1>1, <2>5, Zenon DEF PeerVanishes, RestOK
  <2> QED BY <2>1, <2>2, <2>3, <2>4, <2>5
<1>3. /\ pendingMessages' = pendingMessages
      /\ ptyProcess' = ptyProcess /\ isActive' = isActive /\ timer' = timer
  BY Zenon DEF SocketError, SocketClose, Heartbeat, Pong, PeerVanishes, session
<1>4. KillOrNot
  <2>1. "error" \in Reasons \ {"command"} /\ "close" \in Reasons \ {"command"}
    BY DEF Reasons
  <2>2. CASE SocketError BY <2>1, <2>2, Zenon DEF SocketError, KillOrNot
  <2>3. CASE SocketClose BY <2>1, <2>3, Zenon DEF SocketClose, KillOrNot
  <2>4. CASE Heartbeat \/ Pong \/ PeerVanishes
    BY <2>4, Zenon DEF Heartbeat, Pong, PeerVanishes, KillOrNot
  <2> QED BY <2>2, <2>3, <2>4
<1> QED BY <1>2, <1>3, <1>4, PlainStep

LEMMA TimerStep ==
  ASSUME Inv, SessionTimerFires
  PROVE  Inv' /\ SlotStep
<1>1. RestOK'
  BY Zenon DEF Inv, TypeOK, RestOK, SessionTimerFires, connection
<1>2. /\ pendingMessages' = pendingMessages
      /\ ptyProcess' = ptyProcess /\ isActive' = isActive /\ timer' = FALSE
  BY Zenon DEF SessionTimerFires
<1>3. KillOrNot
  <2>1. "timer" \in Reasons \ {"command"}
    BY DEF Reasons
  <2> QED BY <2>1, Zenon DEF SessionTimerFires, KillOrNot
<1> QED BY <1>1, <1>2, <1>3, PlainStep

(* checkActive: 'force', buffered or handled.                              *)
LEMMA ForceFacts ==
  ASSUME HandleForce
  PROVE  KillOrNot /\ ptyProcess' = ptyProcess /\ isActive' = isActive /\ timer' = timer
<1>1. "force" \in Reasons \ {"command"}
  BY DEF Reasons
<1> QED BY <1>1, Zenon DEF HandleForce, KillOrNot, session

LEMMA ReceiveForceStep ==
  ASSUME Inv, ReceiveForce
  PROVE  Inv' /\ SlotStep
<1>1. RestOK'
  BY Zenon DEF Inv, TypeOK, RestOK, ReceiveForce, connection
<1>2. CASE HandleForce /\ pendingMessages' = pendingMessages
  BY <1>1, <1>2, ForceFacts, PlainStep
<1>3. CASE /\ pendingMessages' = Append(pendingMessages, ForceKill)
           /\ cmd' = cmd /\ tasks' = tasks /\ session' = session
  <2>1. /\ pendingMessages \in Seq(0..MaxCommands) /\ Buffered(pendingMessages, cmd)
        /\ cmd \in [Numbers -> CommandStates] /\ tasks \in Seq(Tasks) /\ Queued(tasks, cmd)
        /\ ptyProcess \in 0..MaxCommands /\ isActive \in BOOLEAN /\ timer \in BOOLEAN
    BY DEF Inv, TypeOK, MessagesBuffered, CommandsQueued
  <2>2. ptyProcess' = ptyProcess /\ isActive' = isActive /\ timer' = timer
    BY <1>3 DEF session
  <2>3. ForceKill \in 0..MaxCommands
    BY TerminalAssumption DEF ForceKill
  <2>4. pendingMessages' \in Seq(0..MaxCommands)
    BY <1>3, <2>1, <2>3, AppendFacts
  <2>5. Buffered(Append(pendingMessages, ForceKill), cmd)
    BY <2>1, <2>3, BufferedAppend
  <2>6. Quiet
    BY <1>3, <2>1 DEF Quiet
  <2>7. OneTerminal' /\ DeadlineOfTheLiving' /\ SlotStep
    BY <2>2, <2>6, QuietKeeps
  <2>8. TypeOK'
    BY <1>1, <1>3, <2>1, <2>2, <2>4 DEF TypeOK, RestOK
  <2> QED BY <1>3, <2>1, <2>5, <2>7, <2>8 DEF Inv, CommandsQueued, MessagesBuffered
<1> QED BY <1>2, <1>3, Zenon DEF ReceiveForce, session

LEMMA ReceiveCommandStep ==
  ASSUME Inv, NEW n \in Numbers, NEW l \in CommandLines, ReceiveCommand(n, l)
  PROVE  Inv' /\ SlotStep
<1>1. /\ pendingMessages \in Seq(0..MaxCommands) /\ Buffered(pendingMessages, cmd)
      /\ cmd \in [Numbers -> CommandStates] /\ tasks \in Seq(Tasks) /\ Queued(tasks, cmd)
      /\ ptyProcess \in 0..MaxCommands /\ isActive \in BOOLEAN /\ timer \in BOOLEAN
      /\ line \in [Numbers -> CommandLines \cup {<<>>}]
  BY DEF Inv, TypeOK, MessagesBuffered, CommandsQueued
<1>2. cmd[n] = "unsent" /\ line' = [line EXCEPT ![n] = l]
  BY DEF ReceiveCommand
<1>3. line' \in [Numbers -> CommandLines \cup {<<>>}]
  BY <1>1, <1>2
<1>4. RestOK'
  BY <1>3, Zenon DEF Inv, TypeOK, RestOK, ReceiveCommand, connection
<1>5. n \in 0..MaxCommands /\ n # ForceKill
  BY TerminalAssumption DEF Numbers, ForceKill
<1>6. CASE /\ pendingMessages' = Append(pendingMessages, n)
           /\ cmd' = [cmd EXCEPT ![n] = "buffered"] /\ tasks' = tasks /\ session' = session
  <2>1. ptyProcess' = ptyProcess /\ isActive' = isActive /\ timer' = timer
    BY <1>6 DEF session
  <2>2. /\ cmd' \in [Numbers -> CommandStates] /\ cmd'[n] = "buffered"
        /\ \A k \in Numbers \ {n} : cmd'[k] = cmd[k]
    BY <1>1, <1>6 DEF CommandStates
  <2>3. Quiet
    BY <1>2, <2>2 DEF Quiet, Started, Alive
  <2>4. OneTerminal' /\ DeadlineOfTheLiving' /\ SlotStep
    BY <2>1, <2>3, QuietKeeps
  <2>5. pendingMessages' \in Seq(0..MaxCommands)
    BY <1>1, <1>5, <1>6, AppendFacts
  <2>6. Buffered(Append(pendingMessages, n), cmd')
    <3>1. /\ \A k \in Numbers : cmd[k] = "buffered" => cmd'[k] = "buffered"
          /\ cmd'[n] = "buffered" /\ cmd[n] # "buffered"
      BY <1>2, <2>2
    <3> QED BY <1>1, <1>5, <3>1, BufferedAppend
  <2>7. Queued(tasks, cmd')
    <3>1. \A k \in Numbers : cmd[k] = "waiting" => cmd'[k] = "waiting"
      BY <1>2, <2>2
    <3> QED BY <1>1, <3>1, QueuedSame
  <2>8. TypeOK'
    BY <1>1, <1>4, <1>6, <2>1, <2>2, <2>5 DEF TypeOK, RestOK
  <2> QED BY <1>6, <2>4, <2>6, <2>7, <2>8 DEF Inv, CommandsQueued, MessagesBuffered
<1>7. CASE HandleCommand(n, l) /\ pendingMessages' = pendingMessages
  <2>1. /\ cmd' \in [Numbers -> CommandStates] /\ tasks' \in Seq(Tasks)
        /\ \A k \in Numbers \ {n} : cmd[k] = "buffered" => cmd'[k] = "buffered"
        /\ ptyProcess' \in 0..MaxCommands /\ isActive' \in BOOLEAN /\ timer' \in BOOLEAN
        /\ OneTerminal' /\ DeadlineOfTheLiving' /\ SlotStep /\ CommandsQueued'
    BY <1>2, <1>7, HandleCommandFacts
  <2>2. Buffered(pendingMessages, cmd')
    BY <1>1, <1>2, <2>1, BufferedSame
  <2>3. TypeOK'
    BY <1>1, <1>4, <1>7, <2>1 DEF TypeOK, RestOK
  <2> QED BY <1>7, <2>1, <2>2, <2>3 DEF Inv, MessagesBuffered
<1> QED BY <1>6, <1>7, Zenon DEF ReceiveCommand, session

(* One buffered message is handled: a command no one else holds, or the    *)
(* request to end the terminal.                                            *)
LEMMA DrainStep ==
  ASSUME Inv, Drain
  PROVE  Inv' /\ SlotStep
<1> DEFINE m == Head(pendingMessages)
<1>1. /\ pendingMessages \in Seq(0..MaxCommands) /\ Buffered(pendingMessages, cmd)
      /\ cmd \in [Numbers -> CommandStates]
      /\ ptyProcess \in 0..MaxCommands /\ isActive \in BOOLEAN /\ timer \in BOOLEAN
  BY DEF Inv, TypeOK, MessagesBuffered
<1>2. /\ pendingMessages # <<>> /\ pendingMessages' = Tail(pendingMessages)
      /\ HandleMessage(m)
  BY DEF Drain
<1>3. /\ pendingMessages' \in Seq(0..MaxCommands) /\ 1 \in 1..Len(pendingMessages)
      /\ m = pendingMessages[1]
  BY <1>1, <1>2, TailFacts
<1>4. m # ForceKill => m \in Numbers /\ cmd[m] = "buffered"
  BY <1>1, <1>3, NumberOrForce DEF Buffered
<1>5. RestOK'
  BY Zenon DEF Inv, TypeOK, RestOK, Drain, connection
<1> HIDE DEF m
<1>6. CASE m = ForceKill
  <2>1. KillOrNot /\ ptyProcess' = ptyProcess /\ isActive' = isActive /\ timer' = timer
    BY <1>2, <1>6, ForceFacts DEF HandleMessage
  <2>2. /\ Quiet /\ tasks' \in Seq(Tasks) /\ CommandsQueued'
        /\ \A n \in Numbers : cmd[n] = "buffered" => cmd'[n] = "buffered"
    BY <2>1, KillOrNotFacts
  <2>3. OneTerminal' /\ DeadlineOfTheLiving' /\ SlotStep
    BY <2>1, <2>2, QuietKeeps
  <2>4. Buffered(Tail(pendingMessages), cmd')
    BY <1>1, <1>2, <2>2, BufferedTail
  <2>5. TypeOK'
    BY <1>1, <1>3, <1>5, <2>1, <2>2 DEF TypeOK, RestOK, Quiet
  <2> QED BY <1>2, <2>2, <2>3, <2>4, <2>5 DEF Inv, MessagesBuffered
<1>7. CASE m # ForceKill
  <2>1. HandleCommand(m, line[m]) /\ m \in Numbers /\ cmd[m] \in {"unsent", "buffered"}
    BY <1>2, <1>4, <1>7 DEF HandleMessage
  <2>2. /\ cmd' \in [Numbers -> CommandStates] /\ tasks' \in Seq(Tasks)
        /\ \A k \in Numbers \ {m} : cmd[k] = "buffered" => cmd'[k] = "buffered"
        /\ ptyProcess' \in 0..MaxCommands /\ isActive' \in BOOLEAN /\ timer' \in BOOLEAN
        /\ OneTerminal' /\ DeadlineOfTheLiving' /\ SlotStep /\ CommandsQueued'
    BY <2>1, HandleCommandFacts
  <2>3. Buffered(Tail(pendingMessages), cmd')
    BY <1>1, <1>2, <2>2, BufferedTail DEF m
  <2>4. TypeOK'
    BY <1>3, <1>5, <2>2 DEF TypeOK, RestOK
  <2> QED BY <1>2, <2>2, <2>3, <2>4 DEF Inv, MessagesBuffered
<1> QED BY <1>6, <1>7

-----------------------------------------------------------------------------
(* The first kill loop and the command it holds, if it holds one.          *)
LEMMA FirstTask ==
  ASSUME Inv, tasks # <<>>
  PROVE  /\ task \in Tasks /\ Tail(tasks) \in Seq(Tasks) /\ task = Head(tasks)
         /\ IsCommand(task) => task.n \in Numbers /\ cmd[task.n] = "waiting"
<1>1. tasks \in Seq(Tasks) /\ Queued(tasks, cmd)
  BY DEF Inv, TypeOK, CommandsQueued
<1>2. /\ Tail(tasks) \in Seq(Tasks) /\ 1 \in 1..Len(tasks)
      /\ Head(tasks) = tasks[1] /\ Head(tasks) \in Tasks
  BY <1>1, TailFacts
<1> QED BY <1>1, <1>2 DEF Queued, task

LEMMA KillLoopRest ==
  ASSUME Inv, KillSucceeds \/ KillAgain \/ KillGivesUp
  PROVE  /\ RestOK' /\ pendingMessages' = pendingMessages
         /\ pendingMessages \in Seq(0..MaxCommands) /\ Buffered(pendingMessages, cmd)
         /\ tasks # <<>>
<1>1. stored' \in BOOLEAN
  BY Zenon DEF Inv, TypeOK, KillSucceeds, KillAgain, KillGivesUp, AfterKill
<1>2. RestOK'
  BY <1>1, Zenon DEF Inv, TypeOK, RestOK, KillSucceeds, KillAgain, KillGivesUp, connection
<1> QED
  BY <1>2, Zenon DEF Inv, TypeOK, MessagesBuffered, KillSucceeds, KillAgain, KillGivesUp, Looking

LEMMA KillSucceedsStep ==
  ASSUME Inv, KillSucceeds
  PROVE  Inv' /\ SlotStep
<1>1. /\ RestOK' /\ pendingMessages' = pendingMessages
      /\ pendingMessages \in Seq(0..MaxCommands) /\ Buffered(pendingMessages, cmd)
      /\ tasks # <<>>
  BY KillLoopRest
<1>2. /\ task \in Tasks /\ Tail(tasks) \in Seq(Tasks) /\ task = Head(tasks)
      /\ IsCommand(task) => task.n \in Numbers /\ cmd[task.n] = "waiting"
  BY <1>1, FirstTask
<1>3. /\ tasks \in Seq(Tasks) /\ Queued(tasks, cmd) /\ cmd \in [Numbers -> CommandStates]
      /\ ptyProcess \in 0..MaxCommands /\ isActive \in BOOLEAN
  BY DEF Inv, TypeOK, CommandsQueued
<1>4. ~isActive /\ tasks' = Tail(tasks)
  BY DEF KillSucceeds
<1>5. CASE IsCommand(task)
  <2>1. RunCommand(task.n, line[task.n])
    BY <1>5 DEF KillSucceeds, IsCommand
  <2>2. task.n \in Numbers /\ cmd[task.n] \notin Started /\ cmd[task.n] # "buffered"
    BY <1>2, <1>5 DEF Started, Alive
  <2>3. /\ cmd' \in [Numbers -> CommandStates]
        /\ \A k \in Numbers \ {task.n} : cmd'[k] = cmd[k]
        /\ ptyProcess' \in 0..MaxCommands /\ isActive' \in BOOLEAN /\ timer' \in BOOLEAN
        /\ OneTerminal' /\ DeadlineOfTheLiving' /\ SlotStep
    BY <1>4, <2>1, <2>2, RunCommandFacts
  <2>4. Queued(Tail(tasks), cmd')
    <3>1. \A k \in Numbers :
             cmd[k] = "waiting" /\ ~(IsCommand(Head(tasks)) /\ k = Head(tasks).n) => cmd'[k] = "waiting"
      BY <1>2, <1>5, <2>3
    <3> QED BY <1>1, <1>3, <3>1, QueuedTail
  <2>5. Buffered(pendingMessages, cmd')
    <3>1. \A k \in Numbers : cmd[k] = "buffered" => cmd'[k] = "buffered"
      BY <2>2, <2>3
    <3> QED BY <1>1, <3>1, BufferedSame
  <2>6. TypeOK'
    BY <1>1, <1>2, <1>4, <2>3 DEF TypeOK, RestOK
  <2> QED BY <1>1, <1>4, <2>3, <2>4, <2>5, <2>6 DEF Inv, CommandsQueued, MessagesBuffered
<1>6. CASE ~IsCommand(task)
  <2>1. cmd' = cmd /\ ptyProcess' = ptyProcess /\ isActive' = isActive /\ timer' = FALSE
    BY <1>6, Zenon DEF KillSucceeds, IsCommand
  <2>2. Quiet
    BY <1>3, <2>1 DEF Quiet
  <2>3. OneTerminal' /\ DeadlineOfTheLiving' /\ SlotStep
    BY <2>1, <2>2, QuietKeeps
  <2>4. Queued(Tail(tasks), cmd)
    BY <1>1, <1>3, QueuedTail
  <2>5. TypeOK'
    BY <1>1, <1>2, <1>3, <1>4, <2>1 DEF TypeOK, RestOK
  <2> QED BY <1>1, <1>4, <2>1, <2>3, <2>4, <2>5 DEF Inv, CommandsQueued, MessagesBuffered
<1> QED BY <1>5, <1>6

LEMMA KillAgainStep ==
  ASSUME Inv, KillAgain
  PROVE  Inv' /\ SlotStep
<1> DEFINE again == [task EXCEPT !.attempts = @ + 1]
<1>1. /\ RestOK' /\ pendingMessages' = pendingMessages
      /\ pendingMessages \in Seq(0..MaxCommands) /\ Buffered(pendingMessages, cmd)
      /\ tasks # <<>>
  BY KillLoopRest
<1>2. /\ task \in Tasks /\ Tail(tasks) \in Seq(Tasks) /\ task = Head(tasks)
      /\ IsCommand(task) => task.n \in Numbers /\ cmd[task.n] = "waiting"
  BY <1>1, FirstTask
<1>3. /\ tasks \in Seq(Tasks) /\ Queued(tasks, cmd)
      /\ ptyProcess \in 0..MaxCommands /\ isActive \in BOOLEAN /\ timer \in BOOLEAN
  BY DEF Inv, TypeOK, CommandsQueued
<1>4. /\ tasks' = Append(Tail(tasks), again) /\ cmd' = Told(cmd)
      /\ task.attempts < MaxAttempts
      /\ ptyProcess' = ptyProcess /\ isActive' = isActive /\ timer' = timer
  BY DEF KillAgain, session
<1>5. again \in Tasks /\ again.n = task.n /\ (IsCommand(again) <=> IsCommand(task))
  <2>1. task.attempts \in 1..MaxAttempts /\ task.attempts < MaxAttempts
    BY <1>2, <1>4 DEF Tasks
  <2>2. task.attempts + 1 \in 1..MaxAttempts
    BY <2>1, TerminalAssumption
  <2>3. again \in Tasks
    BY <1>2, <2>2 DEF Tasks
  <2>4. again.n = task.n /\ again.why = task.why
    BY <1>2 DEF Tasks
  <2> QED BY <2>3, <2>4 DEF IsCommand
<1> HIDE DEF again
<1>6. /\ cmd' \in [Numbers -> CommandStates]
      /\ \A k \in Numbers : /\ cmd'[k] \in Alive <=> cmd[k] \in Alive
                            /\ cmd'[k] \in Started <=> cmd[k] \in Started
                            /\ cmd[k] \notin Alive => cmd'[k] = cmd[k]
  BY <1>4, ToldFacts DEF Inv
<1>7. \A k \in Numbers : /\ cmd[k] = "waiting" => cmd'[k] = "waiting"
                         /\ cmd[k] = "buffered" => cmd'[k] = "buffered"
  BY <1>6 DEF Alive
<1>8. OneTerminal' /\ DeadlineOfTheLiving' /\ SlotStep
  <2>1. Quiet
    BY <1>6 DEF Quiet
  <2> QED BY <1>4, <2>1, QuietKeeps
(* The command leaves the head of the queue for its end and waits in       *)
(* between in neither place: the loop that holds it is the only one.       *)
<1>9. tasks' \in Seq(Tasks) /\ Queued(tasks', cmd')
  <2> DEFINE c == [k \in Numbers |-> IF IsCommand(task) /\ k = task.n THEN "none" ELSE cmd'[k]]
  <2>1. \A k \in Numbers :
           cmd[k] = "waiting" /\ ~(IsCommand(Head(tasks)) /\ k = Head(tasks).n) => c[k] = "waiting"
    BY <1>2, <1>7
  <2>2. /\ \A k \in Numbers : c[k] = "waiting" => cmd'[k] = "waiting"
        /\ IsCommand(again) => /\ again.n \in Numbers
                               /\ cmd'[again.n] = "waiting" /\ c[again.n] # "waiting"
    BY <1>2, <1>5, <1>7
  <2> HIDE DEF c
  <2>3. Queued(Tail(tasks), c)
    BY <1>1, <1>3, <2>1, QueuedTail
  <2>4. Queued(tasks', cmd')
    <3>1. tasks' = Append(Tail(tasks), again) /\ Tail(tasks) \in Seq(Tasks) /\ again \in Tasks
      BY <1>2, <1>4, <1>5
    <3> QED BY <2>2, <2>3, <3>1, QueuedAppend
  <2> QED BY <1>2, <1>4, <1>5, <2>4, AppendFacts
<1>10. Buffered(pendingMessages, cmd')
  BY <1>1, <1>7, BufferedSame
<1>11. TypeOK'
  BY <1>1, <1>3, <1>4, <1>6, <1>9 DEF TypeOK, RestOK
<1> QED BY <1>1, <1>8, <1>9, <1>10, <1>11 DEF Inv, CommandsQueued, MessagesBuffered

LEMMA KillGivesUpStep ==
  ASSUME Inv, KillGivesUp
  PROVE  Inv' /\ SlotStep
<1>1. /\ RestOK' /\ pendingMessages' = pendingMessages
      /\ pendingMessages \in Seq(0..MaxCommands) /\ Buffered(pendingMessages, cmd)
      /\ tasks # <<>>
  BY KillLoopRest
<1>2. /\ Tail(tasks) \in Seq(Tasks) /\ task = Head(tasks)
      /\ IsCommand(task) => task.n \in Numbers /\ cmd[task.n] = "waiting"
  BY <1>1, FirstTask
<1>3. /\ tasks \in Seq(Tasks) /\ Queued(tasks, cmd) /\ cmd \in [Numbers -> CommandStates]
      /\ ptyProcess \in 0..MaxCommands /\ isActive \in BOOLEAN /\ timer \in BOOLEAN
  BY DEF Inv, TypeOK, CommandsQueued
<1>4. /\ tasks' = Tail(tasks)
      /\ cmd' = IF IsCommand(task) THEN [cmd EXCEPT ![task.n] = "unprocessable"] ELSE cmd
  BY DEF KillGivesUp, IsCommand
<1>5. ptyProcess' = ptyProcess /\ isActive' = isActive /\ timer' = timer
  BY DEF KillGivesUp, session
<1>6. /\ Quiet
      /\ \A k \in Numbers :
           cmd[k] = "waiting" /\ ~(IsCommand(Head(tasks)) /\ k = Head(tasks).n) => cmd'[k] = "waiting"
      /\ \A k \in Numbers : cmd[k] = "buffered" => cmd'[k] = "buffered"
  <2>1. CASE IsCommand(task)
    BY <1>2, <1>3, <1>4, <2>1 DEF Quiet, CommandStates, Started, Alive
  <2>2. CASE ~IsCommand(task)
    BY <1>3, <1>4, <2>2 DEF Quiet
  <2> QED BY <2>1, <2>2
<1>7. OneTerminal' /\ DeadlineOfTheLiving' /\ SlotStep
  BY <1>5, <1>6, QuietKeeps
<1>8. Queued(Tail(tasks), cmd')
  BY <1>1, <1>3, <1>6, QueuedTail
<1>9. Buffered(pendingMessages, cmd')
  BY <1>1, <1>6, BufferedSame
<1>10. TypeOK'
  BY <1>1, <1>2, <1>3, <1>4, <1>5, <1>6 DEF TypeOK, RestOK, Quiet
<1> QED BY <1>1, <1>4, <1>7, <1>8, <1>9, <1>10 DEF Inv, CommandsQueued, MessagesBuffered

(* The PTY that exits is the current one, for no other is alive.           *)
LEMMA PtyExitsStep ==
  ASSUME Inv, NEW n \in Numbers, PtyExits(n)
  PROVE  Inv' /\ SlotStep
<1>1. /\ pendingMessages \in Seq(0..MaxCommands) /\ Buffered(pendingMessages, cmd)
      /\ tasks \in Seq(Tasks) /\ Queued(tasks, cmd) /\ cmd \in [Numbers -> CommandStates]
      /\ ptyProcess \in 0..MaxCommands
  BY DEF Inv, TypeOK, CommandsQueued, MessagesBuffered
<1>2. cmd[n] \in Alive /\ cmd' = [cmd EXCEPT ![n] = "exited"]
  BY DEF PtyExits
<1>3. isActive' = FALSE /\ timer' = FALSE /\ ptyProcess' = ptyProcess
  BY DEF PtyExits
<1>4. tasks' = tasks /\ pendingMessages' = pendingMessages
  BY DEF PtyExits
<1>5. RestOK'
  BY Zenon DEF Inv, TypeOK, RestOK, PtyExits, connection
<1>6. LivePtys = {n}
  <2>1. n \in LivePtys
    BY <1>2 DEF LivePtys
  <2>2. isActive /\ LivePtys = {ptyProcess}
    BY <2>1, Zenon DEF Inv, OneTerminal
  <2> QED BY <2>1, <2>2
<1>7. LivePtys' = {}
  BY <1>1, <1>2, <1>6 DEF LivePtys, Alive
<1>8. StartedCommands' = StartedCommands
  BY <1>1, <1>2 DEF StartedCommands, Started, Alive
<1>9. SlotStep
  BY <1>6, <1>7, <1>8 DEF SlotStep, Slot!Next, Slot!Finish, StartedCommands
<1>10. OneTerminal' /\ DeadlineOfTheLiving'
  BY <1>3, <1>7, Zenon DEF OneTerminal, DeadlineOfTheLiving
<1>11. /\ cmd' \in [Numbers -> CommandStates]
       /\ \A k \in Numbers : cmd[k] \in {"waiting", "buffered"} => cmd'[k] = cmd[k]
  BY <1>1, <1>2 DEF CommandStates, Started, Alive
<1>12. Queued(tasks, cmd') /\ Buffered(pendingMessages, cmd')
  <2>1. \A k \in Numbers : cmd[k] = "waiting" => cmd'[k] = "waiting"
    BY <1>11
  <2>2. \A k \in Numbers : cmd[k] = "buffered" => cmd'[k] = "buffered"
    BY <1>11
  <2> QED BY <1>1, <2>1, <2>2, QueuedSame, BufferedSame
<1>13. TypeOK'
  BY <1>1, <1>3, <1>4, <1>5, <1>11 DEF TypeOK, RestOK
<1> QED BY <1>4, <1>9, <1>10, <1>12, <1>13 DEF Inv, CommandsQueued, MessagesBuffered

-----------------------------------------------------------------------------
LEMMA InitInv == Init => Inv /\ Slot!Init
<1> SUFFICES ASSUME Init PROVE Inv /\ Slot!Init
  OBVIOUS
<1>1. TypeOK
  <2>1. cmd \in [Numbers -> CommandStates] /\ line \in [Numbers -> CommandLines \cup {<<>>}]
    BY DEF Init, CommandStates
  <2>2. ptyProcess \in 0..MaxCommands /\ tasks \in Seq(Tasks) /\ pendingMessages \in Seq(0..MaxCommands)
    BY TerminalAssumption DEF Init
  <2> QED BY <2>1, <2>2 DEF Init, TypeOK, Stages
<1>2. LivePtys = {} /\ StartedCommands = {}
  BY DEF Init, LivePtys, StartedCommands, Alive, Started
<1>3. OneTerminal /\ DeadlineOfTheLiving
  BY <1>2, Zenon DEF Init, OneTerminal, DeadlineOfTheLiving
<1>4. CommandsQueued /\ MessagesBuffered
  BY DEF Init, CommandsQueued, MessagesBuffered, Queued, Buffered
<1>5. Slot!Init
  BY <1>2 DEF Slot!Init, StartedCommands
<1> QED BY <1>1, <1>3, <1>4, <1>5 DEF Inv

LEMMA NextInv == Inv /\ [Next]_vars => Inv' /\ SlotStep
<1> SUFFICES ASSUME Inv, [Next]_vars PROVE Inv' /\ SlotStep
  OBVIOUS
<1>1. CASE Next
  <2>1. CASE (\E ok \in BOOLEAN : VerifyClient(ok)) \/ FetchAuthorizedHosts \/ FetchFails \/ DrainEnds
    BY <2>1, AuthorizationSteps
  <2>2. CASE Drain BY <2>2, DrainStep
  <2>3. CASE \E n \in Numbers, l \in CommandLines : ReceiveCommand(n, l)
    BY <2>3, ReceiveCommandStep
  <2>4. CASE ReceiveForce BY <2>4, ReceiveForceStep
  <2>5. CASE KillSucceeds BY <2>5, KillSucceedsStep
  <2>6. CASE KillAgain BY <2>6, KillAgainStep
  <2>7. CASE KillGivesUp BY <2>7, KillGivesUpStep
  <2>8. CASE \E n \in Numbers : PtyExits(n) BY <2>8, PtyExitsStep
  <2>9. CASE SessionTimerFires BY <2>9, TimerStep
  <2>10. CASE SocketError \/ SocketClose \/ Heartbeat \/ Pong \/ PeerVanishes
    BY <2>10, SocketSteps
  <2> QED BY <1>1, <2>1, <2>2, <2>3, <2>4, <2>5, <2>6, <2>7, <2>8, <2>9, <2>10 DEF Next
<1>2. CASE UNCHANGED vars
  <2>1. RestOK' /\ KillOrNot /\ pendingMessages' = pendingMessages
    BY <1>2, Zenon DEF vars, Inv, TypeOK, RestOK, KillOrNot
  <2>2. ptyProcess' = ptyProcess /\ isActive' = isActive /\ timer' = timer
    BY <1>2, Zenon DEF vars
  <2> QED BY <2>1, <2>2, PlainStep
<1> QED BY <1>1, <1>2

-----------------------------------------------------------------------------
(* The inductive invariant: one terminal, its deadline, and every waiting  *)
(* or buffered command in one place.                                       *)
THEOREM ServerInvariant == Spec => []Inv
BY InitInv, NextInv, PTL DEF Spec

(* Every variable of the terminal server keeps its type.                   *)
THEOREM TypeCorrect == Spec => []TypeOK
<1>1. Inv => TypeOK BY DEF Inv
<1> QED BY <1>1, ServerInvariant, PTL

(* isActive and ptyProcess tell the truth of the PTYs, however commands,   *)
(* kill loops and exits of the PTYs interleave.                            *)
THEOREM TerminalIsOne == Spec => []OneTerminal
<1>1. Inv => OneTerminal BY DEF Inv
<1> QED BY <1>1, ServerInvariant, PTL

(* terminalSessionTimer runs only while its terminal is alive.             *)
THEOREM DeadlineIsOfTheLiving == Spec => []DeadlineOfTheLiving
<1>1. Inv => DeadlineOfTheLiving BY DEF Inv
<1> QED BY <1>1, ServerInvariant, PTL

(* A session of the terminal server implements the terminal slot:          *)
(* handleCommand never starts a PTY beside another, nor a command twice.   *)
THEOREM SessionIsASlot == Spec => ImplementsSlot
<1>1. SlotStep <=> [Slot!Next]_<<LivePtys, {n \in Numbers : cmd[n] \in Started}>>
  BY DEF SlotStep, StartedCommands
<1> QED BY <1>1, InitInv, NextInv, PTL DEF Spec, ImplementsSlot, Slot!Spec

-----------------------------------------------------------------------------
(* The arguments of ssh.                                                   *)

FlagKinds == {"-i", "-p", "-o"}

(* A token as extractSshArgs leaves it.                                    *)
Tokens(names, hosts) ==
  [kind : FlagKinds \cup {"key", "port", "option", "destination", "word"},
   name : names, value : {"ok", "no", "bad"}, host : hosts]

ScanStates(names, hosts) ==
  [ok : BOOLEAN, want : {""} \cup FlagKinds, hasIdentityFile : BOOLEAN, hasPort : BOOLEAN,
   seen : SUBSET names, target : hosts]

(* What an accepted argument is, and does to the scan.                     *)
Passes(s, a, s1) ==
  \/ /\ a.kind \in FlagKinds
     /\ s1.seen = s.seen /\ s1.target = s.target
     /\ s1.hasIdentityFile = s.hasIdentityFile /\ s1.hasPort = s.hasPort
  \/ /\ a.kind = "key" /\ a.value = "ok" /\ ~s.hasIdentityFile
     /\ s1.seen = s.seen /\ s1.target = s.target
     /\ s1.hasIdentityFile /\ s1.hasPort = s.hasPort
  \/ /\ a.kind = "port" /\ a.value = "ok" /\ ~s.hasPort
     /\ s1.seen = s.seen /\ s1.target = s.target
     /\ s1.hasIdentityFile = s.hasIdentityFile /\ s1.hasPort
  \/ /\ IsAllowedSshOption(a) /\ a.name \notin s.seen
     /\ s1.seen = s.seen \cup {a.name} /\ s1.target = s.target
     /\ s1.hasIdentityFile = s.hasIdentityFile /\ s1.hasPort = s.hasPort
  \/ /\ a.kind = "destination" /\ a.value = "ok" /\ s.target = NoHost
     /\ s1.seen = s.seen /\ s1.target = a.host
     /\ s1.hasIdentityFile = s.hasIdentityFile /\ s1.hasPort = s.hasPort

(* What one step of validateSshArgs does, by the flag before the argument. *)
Scanned(s, a, r) ==
  /\ s.want = "-i" =>
       /\ r.ok <=> s.ok /\ ~s.hasIdentityFile /\ a.kind = "key" /\ a.value = "ok"
       /\ r.want = "" /\ r.hasIdentityFile
       /\ r.hasPort = s.hasPort /\ r.seen = s.seen /\ r.target = s.target
  /\ s.want = "-p" =>
       /\ r.ok <=> s.ok /\ ~s.hasPort /\ a.kind = "port" /\ a.value = "ok"
       /\ r.want = "" /\ r.hasPort
       /\ r.hasIdentityFile = s.hasIdentityFile /\ r.seen = s.seen /\ r.target = s.target
  /\ s.want = "-o" =>
       /\ r.ok <=> s.ok /\ a.name \notin s.seen /\ IsAllowedSshOption(a)
       /\ r.want = "" /\ r.seen = s.seen \cup {a.name}
       /\ r.hasIdentityFile = s.hasIdentityFile /\ r.hasPort = s.hasPort
       /\ r.target = s.target
  /\ s.want = "" /\ a.kind \in FlagKinds =>
       /\ r.ok = s.ok /\ r.want = a.kind
       /\ r.hasIdentityFile = s.hasIdentityFile /\ r.hasPort = s.hasPort
       /\ r.seen = s.seen /\ r.target = s.target
  /\ s.want = "" /\ a.kind \notin FlagKinds =>
       /\ r.ok <=> s.ok /\ a.kind = "destination" /\ a.value = "ok" /\ s.target = NoHost
       /\ r.want = "" /\ r.target = a.host
       /\ r.hasIdentityFile = s.hasIdentityFile /\ r.hasPort = s.hasPort
       /\ r.seen = s.seen

(* ScanStep is that, arm by arm of its CASE.                               *)
LEMMA ScanStepExact ==
  ASSUME NEW names, NEW hosts, NEW s \in ScanStates(names, hosts), NEW a,
         a.name \in names, a.host \in hosts
  PROVE  ScanStep(s, a) \in ScanStates(names, hosts) /\ Scanned(s, a, ScanStep(s, a))
<1> DEFINE yes == TRUE
           okI == s.ok /\ ~s.hasIdentityFile /\ a.kind = "key" /\ a.value = "ok"
           okP == s.ok /\ ~s.hasPort /\ a.kind = "port" /\ a.value = "ok"
           okO == s.ok /\ a.name \notin s.seen /\ IsAllowedSshOption(a)
           okT == s.ok /\ a.kind = "destination" /\ a.value = "ok" /\ s.target = NoHost
           sI == [s EXCEPT !.want = "", !.hasIdentityFile = yes, !.ok = okI]
           sP == [s EXCEPT !.want = "", !.hasPort = yes, !.ok = okP]
           sO == [s EXCEPT !.want = "", !.seen = @ \cup {a.name}, !.ok = okO]
           sF == [s EXCEPT !.want = a.kind]
           sT == [s EXCEPT !.target = a.host, !.ok = okT]
           same(r) == /\ r.hasIdentityFile = s.hasIdentityFile /\ r.hasPort = s.hasPort
                      /\ r.seen = s.seen /\ r.target = s.target
           r == ScanStep(s, a)
<1>1. /\ s.want = "-i" => r = sI
      /\ s.want = "-p" => r = sP
      /\ s.want = "-o" => r = sO
      /\ s.want = "" /\ a.kind \in FlagKinds => r = sF
      /\ s.want = "" /\ a.kind \notin FlagKinds => r = sT
  BY DEF ScanStep, FlagKinds
<1>2. yes \in BOOLEAN /\ okI \in BOOLEAN /\ okP \in BOOLEAN /\ okO \in BOOLEAN /\ okT \in BOOLEAN
  OBVIOUS
<1> HIDE DEF yes, okI, okP, okO, okT, r
<1>3. /\ sI \in ScanStates(names, hosts) /\ sI.ok = okI /\ sI.want = "" /\ sI.hasIdentityFile = yes
      /\ sI.hasPort = s.hasPort /\ sI.seen = s.seen /\ sI.target = s.target
  BY <1>2 DEF ScanStates, FlagKinds
<1>4. /\ sP \in ScanStates(names, hosts) /\ sP.ok = okP /\ sP.want = "" /\ sP.hasPort = yes
      /\ sP.hasIdentityFile = s.hasIdentityFile /\ sP.seen = s.seen /\ sP.target = s.target
  BY <1>2 DEF ScanStates, FlagKinds
<1>5. /\ sO \in ScanStates(names, hosts) /\ sO.ok = okO /\ sO.want = ""
      /\ sO.seen = s.seen \cup {a.name} /\ sO.target = s.target
      /\ sO.hasIdentityFile = s.hasIdentityFile /\ sO.hasPort = s.hasPort
  BY <1>2 DEF ScanStates, FlagKinds
<1>6. a.kind \in FlagKinds =>
        /\ sF \in ScanStates(names, hosts) /\ sF.ok = s.ok /\ sF.want = a.kind /\ same(sF)
  BY <1>2 DEF ScanStates, FlagKinds
<1>7. /\ sT \in ScanStates(names, hosts) /\ sT.ok = okT /\ sT.want = s.want /\ sT.target = a.host
      /\ sT.hasIdentityFile = s.hasIdentityFile /\ sT.hasPort = s.hasPort /\ sT.seen = s.seen
  BY <1>2 DEF ScanStates, FlagKinds
<1> HIDE DEF sI, sP, sO, sF, sT
<1>8. s.want = "" \/ s.want = "-i" \/ s.want = "-p" \/ s.want = "-o"
  BY DEF ScanStates, FlagKinds
<1>9. r \in ScanStates(names, hosts)
  BY <1>1, <1>3, <1>4, <1>5, <1>6, <1>7, <1>8
<1>10. s.want = "-i" =>
         /\ r.ok <=> s.ok /\ ~s.hasIdentityFile /\ a.kind = "key" /\ a.value = "ok"
         /\ r.want = "" /\ r.hasIdentityFile
         /\ r.hasPort = s.hasPort /\ r.seen = s.seen /\ r.target = s.target
  BY <1>1, <1>3 DEF okI, yes
<1>11. s.want = "-p" =>
         /\ r.ok <=> s.ok /\ ~s.hasPort /\ a.kind = "port" /\ a.value = "ok"
         /\ r.want = "" /\ r.hasPort
         /\ r.hasIdentityFile = s.hasIdentityFile /\ r.seen = s.seen /\ r.target = s.target
  BY <1>1, <1>4 DEF okP, yes
<1>12. s.want = "-o" =>
         /\ r.ok <=> s.ok /\ a.name \notin s.seen /\ IsAllowedSshOption(a)
         /\ r.want = "" /\ r.seen = s.seen \cup {a.name}
         /\ r.hasIdentityFile = s.hasIdentityFile /\ r.hasPort = s.hasPort
         /\ r.target = s.target
  BY <1>1, <1>5 DEF okO
<1>13. s.want = "" /\ a.kind \in FlagKinds => r.ok = s.ok /\ r.want = a.kind /\ same(r)
  BY <1>1, <1>6
<1>14. s.want = "" /\ a.kind \notin FlagKinds =>
         /\ r.ok <=> s.ok /\ a.kind = "destination" /\ a.value = "ok" /\ s.target = NoHost
         /\ r.want = "" /\ r.target = a.host
         /\ r.hasIdentityFile = s.hasIdentityFile /\ r.hasPort = s.hasPort
         /\ r.seen = s.seen
  BY <1>1, <1>7 DEF okT
<1> QED BY <1>9, <1>10, <1>11, <1>12, <1>13, <1>14 DEF r, Scanned

(* One step of the scan keeps its types and accepts only what passes.      *)
LEMMA ScanStepFacts ==
  ASSUME NEW names, NEW hosts, NEW s \in ScanStates(names, hosts), NEW a,
         a.name \in names, a.host \in hosts
  PROVE  /\ ScanStep(s, a) \in ScanStates(names, hosts)
         /\ ScanStep(s, a).ok => s.ok /\ Passes(s, a, ScanStep(s, a))
<1>1. s.want = "" \/ s.want = "-i" \/ s.want = "-p" \/ s.want = "-o"
  BY DEF ScanStates, FlagKinds
<1> DEFINE r == ScanStep(s, a)
<1>2. r \in ScanStates(names, hosts) /\ Scanned(s, a, r)
  BY ScanStepExact
<1> HIDE DEF r
<1>3. r.ok => s.ok /\ Passes(s, a, r)
  <2>1. CASE s.want = "-i"
    BY <1>2, <2>1 DEF Passes, Scanned
  <2>2. CASE s.want = "-p"
    BY <1>2, <2>2 DEF Passes, Scanned
  <2>3. CASE s.want = "-o"
    BY <1>2, <2>3 DEF Passes, Scanned
  <2>4. CASE s.want = "" /\ a.kind \in FlagKinds
    BY <1>2, <2>4 DEF Passes, Scanned
  <2>5. CASE s.want = "" /\ a.kind \notin FlagKinds
    BY <1>2, <2>5 DEF Passes, Scanned
  <2> QED BY <1>1, <2>1, <2>2, <2>3, <2>4, <2>5
<1> QED BY <1>2, <1>3 DEF r

-----------------------------------------------------------------------------
(* The scan of the first n arguments, step by step.                        *)
IsScan(g, args, n) ==
  g = [i \in 0..n |-> IF i = 0 THEN ScanStart ELSE ScanStep(g[i - 1], args[i])]

(* The recursion has a solution: extend one for k - 1 arguments to k.      *)
LEMMA ScanExists ==
  ASSUME NEW n \in Nat, NEW args
  PROVE  \E g : IsScan(g, args, n)
<1> DEFINE Bad == {k \in Nat : ~ \E g : IsScan(g, args, k)}
<1> SUFFICES ASSUME Bad # {} PROVE FALSE
  OBVIOUS
<1>1. PICK k \in Bad : \A m \in Bad : k <= m
  BY LeastNatural
<1>2. CASE k = 0
  <2>1. IsScan([i \in 0..0 |-> ScanStart], args, 0)
    BY DEF IsScan
  <2> QED BY <1>1, <1>2, <2>1
<1>3. CASE k # 0
  <2>1. k - 1 \in Nat /\ k - 1 \notin Bad
    BY <1>1, <1>3
  <2>2. PICK g : IsScan(g, args, k - 1)
    BY <2>1
  <2> DEFINE val(i) == IF i = 0 THEN ScanStart ELSE ScanStep(g[i - 1], args[i])
             h == [i \in 0..k |-> val(i)]
  <2>3. \A i \in 0..(k - 1) : g[i] = val(i)
    BY <2>2 DEF IsScan
  <2> HIDE DEF val
  <2>4. \A i \in 1..k : h[i - 1] = g[i - 1]
    BY <2>1, <2>3
  <2>5. \A i \in 0..k : val(i) = IF i = 0 THEN ScanStart ELSE ScanStep(h[i - 1], args[i])
    <3> SUFFICES ASSUME NEW i \in 0..k, i # 0 PROVE h[i - 1] = g[i - 1]
      BY DEF val
    <3> HIDE DEF h
    <3> QED BY <2>1, <2>4
  <2>6. IsScan(h, args, k)
    BY <2>5 DEF IsScan
  <2> QED BY <2>6
<1> QED BY <1>2, <1>3

(* Nothing is wrong and no value is missing.                               *)
Fine(s) == s.ok /\ s.want = ""

(* What validateSshArgs asks of the scan at its end.                       *)
Accepts(s, allowed) ==
  /\ Fine(s) /\ s.hasIdentityFile /\ s.hasPort
  /\ RequiredOptions \subseteq s.seen
  /\ MultiplexingOptions \cap s.seen \in {{}, MultiplexingOptions}
  /\ s.target # NoHost /\ s.target \in allowed

(* It accepts exactly when the scan ends like that.                        *)
LEMMA ValidatorAsScan ==
  ASSUME NEW args, Len(args) \in Nat, NEW allowed
  PROVE  \E g : /\ IsScan(g, args, Len(args))
                /\ ValidateSshArgs(args, allowed) <=> Accepts(g[Len(args)], allowed)
<1> DEFINE g == CHOOSE h : IsScan(h, args, Len(args))
<1>1. IsScan(g, args, Len(args))
  BY ScanExists
<1>2. ValidateSshArgs(args, allowed) <=> Accepts(g[Len(args)], allowed)
  BY DEF ValidateSshArgs, IsScan, IsAuthorizedTargetHost, Accepts, Fine
<1> QED BY <1>1, <1>2

-----------------------------------------------------------------------------
(* An argument that may stand in a command line at all.                    *)
Allowed(a) ==
  \/ a.kind \in FlagKinds
  \/ a.kind \in {"key", "port", "destination"} /\ a.value = "ok"
  \/ IsAllowedSshOption(a)

OptionsIn(args, k) == {i \in 1..k : args[i].kind = "option"}
NamesIn(args, k) == {args[i].name : i \in OptionsIn(args, k)}

(* What the scan knows after k arguments it accepted.                      *)
KeyRead(args, k, s) ==
  /\ \A i, j \in 1..k : args[i].kind = "key" /\ args[j].kind = "key" => i = j
  /\ s.hasIdentityFile <=> \E i \in 1..k : args[i].kind = "key"
PortRead(args, k, s) ==
  /\ \A i, j \in 1..k : args[i].kind = "port" /\ args[j].kind = "port" => i = j
  /\ s.hasPort <=> \E i \in 1..k : args[i].kind = "port"
NamesHost(a) == a.kind = "destination" /\ a.host # NoHost
TargetRead(args, k, s) ==
  /\ \A i, j \in 1..k : NamesHost(args[i]) /\ args[j].kind = "destination" => j <= i
  /\ \A i \in 1..k : NamesHost(args[i]) => s.target = args[i].host
  /\ s.target # NoHost => \E i \in 1..k : NamesHost(args[i])
OptionsRead(args, k, s) ==
  /\ \A i, j \in OptionsIn(args, k) : args[i].name = args[j].name => i = j
  /\ \A i \in OptionsIn(args, k) : args[i].name \in s.seen
  /\ \A n \in s.seen : \E i \in OptionsIn(args, k) : args[i].name = n
Read(args, k, s) ==
  /\ \A i \in 1..k : Allowed(args[i])
  /\ KeyRead(args, k, s) /\ PortRead(args, k, s)
  /\ TargetRead(args, k, s) /\ OptionsRead(args, k, s)

(* One more argument that passes is read as well.                         *)
LEMMA ReadStep ==
  ASSUME NEW args, NEW k \in Nat, NEW s, NEW s1, Read(args, k, s), Passes(s, args[k + 1], s1)
  PROVE  Read(args, k + 1, s1)
<1> DEFINE a == args[k + 1]
<1>1. \A i : i \in 1..(k + 1) <=> i \in 1..k \/ i = k + 1
  OBVIOUS
<1>2. k + 1 \notin 1..k /\ k + 1 \in 1..(k + 1)
  OBVIOUS
<1>3. OptionsIn(args, k + 1) = OptionsIn(args, k) \cup IF a.kind = "option" THEN {k + 1} ELSE {}
  BY <1>1 DEF OptionsIn
<1>4. k + 1 \notin OptionsIn(args, k)
  BY <1>2 DEF OptionsIn
<1>5. Allowed(a)
  BY DEF Passes, Allowed
<1>6. \A i \in 1..(k + 1) : Allowed(args[i])
  BY <1>1, <1>5 DEF Read
<1>7. KeyRead(args, k + 1, s1)
  BY <1>1, <1>2 DEF Read, KeyRead, Passes, FlagKinds, IsAllowedSshOption
<1>8. PortRead(args, k + 1, s1)
  BY <1>1, <1>2 DEF Read, PortRead, Passes, FlagKinds, IsAllowedSshOption
<1>9. TargetRead(args, k + 1, s1)
  <2>1. CASE a.kind = "destination"
    <3>1. s.target = NoHost /\ s1.target = a.host
      BY <2>1 DEF Passes, FlagKinds, IsAllowedSshOption
    <3>2. \A i \in 1..k : ~NamesHost(args[i])
      BY <3>1 DEF Read, TargetRead, NamesHost
    <3>3. \A i \in 1..(k + 1) : NamesHost(args[i]) => i = k + 1
      BY <1>1, <3>2
    <3>4. \A j \in 1..(k + 1) : j <= k + 1
      OBVIOUS
    <3>5. s1.target # NoHost => NamesHost(args[k + 1])
      BY <2>1, <3>1 DEF NamesHost
    <3> HIDE DEF a
    <3> QED BY <1>2, <3>1, <3>3, <3>4, <3>5 DEF TargetRead, a
  <2>2. CASE a.kind # "destination"
    <3>1. s1.target = s.target
      BY <2>2 DEF Passes
    <3>2. ~NamesHost(args[k + 1]) /\ args[k + 1].kind # "destination"
      BY <2>2 DEF NamesHost
    <3> HIDE DEF a
    <3> QED BY <1>1, <3>1, <3>2 DEF Read, TargetRead
  <2> QED BY <2>1, <2>2
<1>10. OptionsRead(args, k + 1, s1)
  <2>1. CASE a.kind = "option"
    <3>1. s1.seen = s.seen \cup {a.name} /\ a.name \notin s.seen
      BY <2>1 DEF Passes, FlagKinds
    <3> QED BY <2>1, <3>1, <1>3, <1>4 DEF Read, OptionsRead
  <2>2. CASE a.kind # "option"
    <3>1. s1.seen = s.seen
      BY <2>2 DEF Passes, IsAllowedSshOption
    <3> QED BY <2>2, <3>1, <1>3 DEF Read, OptionsRead
  <2> QED BY <2>1, <2>2
<1> QED BY <1>6, <1>7, <1>8, <1>9, <1>10 DEF Read

(* Induction over the arguments: a scan that ends well has read them all.  *)
LEMMA ScanReads ==
  ASSUME NEW names, NEW hosts, NoHost \in hosts, NEW args \in Seq(Tokens(names, hosts)),
         NEW g, IsScan(g, args, Len(args)), g[Len(args)].ok
  PROVE  Read(args, Len(args), g[Len(args)])
<1> DEFINE Good(k) == /\ g[k] \in ScanStates(names, hosts)
                      /\ g[k].ok => Read(args, k, g[k])
           Bad == {k \in 0..Len(args) : ~Good(k)}
<1>0. Len(args) \in Nat
  OBVIOUS
<1>1. /\ g[0] = ScanStart
      /\ \A i \in 1..Len(args) : g[i] = ScanStep(g[i - 1], args[i])
  BY <1>0 DEF IsScan
<1>2. \A i \in 1..Len(args) : args[i] \in Tokens(names, hosts)
  OBVIOUS
<1>3. \A i \in 1..Len(args) : args[i].name \in names /\ args[i].host \in hosts
  BY <1>2 DEF Tokens
<1>4. Good(0)
  <2>1. ScanStart \in ScanStates(names, hosts)
    BY DEF ScanStart, ScanStates
  <2>2. Read(args, 0, ScanStart)
    BY DEF Read, KeyRead, PortRead, TargetRead, OptionsRead, OptionsIn, ScanStart
  <2> QED BY <1>1, <2>1, <2>2
<1>5. ASSUME NEW k \in Nat, k + 1 \in 1..Len(args), Good(k) PROVE Good(k + 1)
  <2> DEFINE s == g[k]
             s1 == g[k + 1]
  <2>1. s1 = ScanStep(s, args[k + 1])
    BY <1>1, <1>5
  <2>2. s \in ScanStates(names, hosts) /\ args[k + 1].name \in names /\ args[k + 1].host \in hosts
    BY <1>3, <1>5
  <2>4. s.ok => Read(args, k, s)
    BY <1>5
  <2> HIDE DEF s, s1
  <2>5. s1 \in ScanStates(names, hosts) /\ (s1.ok => s.ok /\ Passes(s, args[k + 1], s1))
    BY <2>1, <2>2, ScanStepFacts
  <2>6. s1.ok => Read(args, k + 1, s1)
    BY <2>4, <2>5, ReadStep
  <2> QED BY <2>5, <2>6 DEF s1
<1>6. Bad = {}
  <2> SUFFICES ASSUME Bad # {} PROVE FALSE
    OBVIOUS
  <2>1. Bad \in SUBSET Nat
    BY <1>0
  <2>2. PICK m \in Bad : \A n \in Bad : m <= n
    BY <2>1, LeastNatural
  <2> HIDE DEF Good
  <2>3. m # 0 /\ m \in 0..Len(args) /\ ~Good(m)
    BY <1>4, <2>2
  <2>4. m - 1 \in Nat /\ (m - 1) + 1 = m /\ m \in 1..Len(args) /\ Good(m - 1)
    BY <1>0, <2>2, <2>3
  <2>5. Good((m - 1) + 1)
    BY <1>5, <2>4
  <2> QED BY <2>3, <2>4, <2>5
<1> QED BY <1>0, <1>6

(* The command line names one key, one port and one host, which is         *)
(* authorized and stands in the last destination, no option twice, every   *)
(* required one and no forbidden one.                                      *)
WellFormed(args, hosts) ==
  /\ \A i \in 1..Len(args) : Allowed(args[i])
  /\ \E i \in 1..Len(args) :
       args[i].kind = "key" /\ \A j \in 1..Len(args) : args[j].kind = "key" => j = i
  /\ \E i \in 1..Len(args) :
       args[i].kind = "port" /\ \A j \in 1..Len(args) : args[j].kind = "port" => j = i
  /\ \E i \in 1..Len(args) :
       /\ NamesHost(args[i]) /\ args[i].host \in hosts
       /\ \A j \in 1..Len(args) :
            args[j].kind = "destination" /\ j # i => j < i /\ args[j].host = NoHost
  /\ \A i, j \in OptionsIn(args, Len(args)) : args[i].name = args[j].name => i = j
  /\ RequiredOptions \subseteq NamesIn(args, Len(args))
  /\ MultiplexingOptions \cap NamesIn(args, Len(args)) \in {{}, MultiplexingOptions}

(* validateSshArgs accepts well-formed command lines only, of any length.  *)
LEMMA ValidatorSound ==
  ASSUME NEW names, NEW hosts, NoHost \in hosts, NEW args \in Seq(Tokens(names, hosts)),
         NEW allowed, ValidateSshArgs(args, allowed)
  PROVE  WellFormed(args, allowed)
<1>0. Len(args) \in Nat
  OBVIOUS
<1>1. PICK g : /\ IsScan(g, args, Len(args))
               /\ g[Len(args)].ok /\ g[Len(args)].hasIdentityFile /\ g[Len(args)].hasPort
               /\ RequiredOptions \subseteq g[Len(args)].seen
               /\ MultiplexingOptions \cap g[Len(args)].seen \in {{}, MultiplexingOptions}
               /\ g[Len(args)].target # NoHost /\ g[Len(args)].target \in allowed
  BY <1>0, ValidatorAsScan DEF Accepts, Fine
<1> DEFINE n == Len(args)
           s == g[n]
<1>2. Read(args, n, s)
  BY <1>1, ScanReads
<1>3. s.seen = NamesIn(args, n)
  BY <1>2 DEF Read, OptionsRead, NamesIn
<1>4. /\ s.hasIdentityFile /\ s.hasPort /\ s.target # NoHost /\ s.target \in allowed
      /\ RequiredOptions \subseteq s.seen
      /\ MultiplexingOptions \cap s.seen \in {{}, MultiplexingOptions}
  BY <1>1
<1> HIDE DEF s
<1>5. \E i \in 1..n : args[i].kind = "key" /\ \A j \in 1..n : args[j].kind = "key" => j = i
  BY <1>2, <1>4 DEF Read, KeyRead
<1>6. \E i \in 1..n : args[i].kind = "port" /\ \A j \in 1..n : args[j].kind = "port" => j = i
  BY <1>2, <1>4 DEF Read, PortRead
<1>7. \E i \in 1..n : /\ NamesHost(args[i]) /\ args[i].host \in allowed
                      /\ \A j \in 1..n : args[j].kind = "destination" /\ j # i =>
                           j < i /\ args[j].host = NoHost
  <2>1. PICK i \in 1..n : NamesHost(args[i]) /\ args[i].host \in allowed
    BY <1>2, <1>4 DEF Read, TargetRead
  <2>2. ASSUME NEW j \in 1..n, args[j].kind = "destination", j # i
        PROVE  j < i /\ args[j].host = NoHost
    <3>1. j <= i
      BY <1>2, <2>1, <2>2 DEF Read, TargetRead
    <3>2. j < i
      BY <1>0, <2>2, <3>1
    <3>3. NamesHost(args[j]) => i <= j
      BY <1>2, <2>1 DEF Read, TargetRead, NamesHost
    <3> QED BY <1>0, <2>2, <3>2, <3>3 DEF NamesHost
  <2> QED BY <2>1, <2>2
<1> QED BY <1>2, <1>3, <1>4, <1>5, <1>6, <1>7 DEF WellFormed, Read, OptionsRead

(* extractSshArgs rewrites values and may append an option.                *)
LEMMA ExtractKeeps ==
  ASSUME NEW T, NEW l \in Seq(T), \A a \in T : RewriteTTY(a) \in T,
         Flag("-o") \in T, Option(RequestTTY, "ok", NoHost) \in T
  PROVE  ExtractSshArgs(l) \in Seq(T)
<1> DEFINE rewritten == [i \in 1..Len(l) |-> RewriteTTY(l[i])]
           f == Flag("-o")
           o == Option(RequestTTY, "ok", NoHost)
<1>1. Len(l) \in Nat /\ \A i \in 1..Len(l) : l[i] \in T
  BY ElementOfSeq, LenProperties
<1>2. rewritten \in [1..Len(l) -> T]
  BY <1>1
<1>3. rewritten \in Seq(T)
  BY <1>1, <1>2, SeqDef
<1>4. ExtractSshArgs(l) = rewritten \/ ExtractSshArgs(l) = rewritten \o <<f, o>>
  BY DEF ExtractSshArgs
<1>5. f \in T /\ o \in T
  OBVIOUS
<1> HIDE DEF rewritten, f, o
<1>6. <<f, o>> \in Seq(T)
  BY <1>5
<1>7. rewritten \o <<f, o>> \in Seq(T)
  BY <1>3, <1>6, ConcatProperties
<1> QED BY <1>3, <1>4, <1>7

(* So it leaves tokens.                                                    *)
LEMMA ExtractTokens ==
  ASSUME NEW names, NEW hosts, NoHost \in hosts, {"", RequestTTY} \subseteq names,
         NEW l \in Seq(Tokens(names, hosts))
  PROVE  ExtractSshArgs(l) \in Seq(Tokens(names, hosts))
<1>1. \A a \in Tokens(names, hosts) : RewriteTTY(a) \in Tokens(names, hosts)
  BY DEF RewriteTTY, Tokens
<1>2. /\ Flag("-o") \in Tokens(names, hosts)
      /\ Option(RequestTTY, "ok", NoHost) \in Tokens(names, hosts)
  BY DEF Flag, Option, Tokens, FlagKinds
<1> QED BY <1>1, <1>2, ExtractKeeps

-----------------------------------------------------------------------------
(* Whatever was started has been checked.                                  *)
StartedAreAccepted == \A n \in Numbers : cmd[n] \in Started => line[n] \in AcceptedLines

(* A step starts at most the command n, and only with accepted arguments.  *)
StartsOnly(n, l) ==
  \A k \in Numbers :
    cmd'[k] \in Started => cmd[k] \in Started \/ (k = n /\ l \in AcceptedLines)

LEMMA RunCommandStarts ==
  ASSUME TypeOK, NEW n \in Numbers, NEW l, RunCommand(n, l)
  PROVE  StartsOnly(n, l)
<1>1. cmd \in [Numbers -> CommandStates]
  BY DEF TypeOK
<1>2. \/ cmd' = [cmd EXCEPT ![n] = "live"] /\ l \in AcceptedLines
      \/ cmd' = [cmd EXCEPT ![n] = "rejected"]
  BY DEF RunCommand
<1> QED BY <1>1, <1>2 DEF StartsOnly, Started, Alive

LEMMA ToldStarts ==
  ASSUME TypeOK, cmd' = Told(cmd) \/ cmd' = cmd
  PROVE  \A k \in Numbers : cmd'[k] \in Started => cmd[k] \in Started
BY DEF Told, Started, Alive

LEMMA HandleCommandStarts ==
  ASSUME TypeOK, NEW n \in Numbers, NEW l, HandleCommand(n, l)
  PROVE  StartsOnly(n, l)
<1>1. CASE isActive
  <2>1. cmd' = [Told(cmd) EXCEPT ![n] = "waiting"]
    BY <1>1 DEF HandleCommand
  <2> QED BY <2>1 DEF StartsOnly, Told, Started, Alive
<1>2. CASE ~isActive
  BY <1>2, RunCommandStarts DEF HandleCommand
<1> QED BY <1>1, <1>2

LEMMA AcceptedStep == Inv /\ StartedAreAccepted /\ [Next]_vars => StartedAreAccepted'
<1> SUFFICES ASSUME Inv, StartedAreAccepted, [Next]_vars PROVE StartedAreAccepted'
  OBVIOUS
<1>1. /\ TypeOK /\ cmd \in [Numbers -> CommandStates]
      /\ line \in [Numbers -> CommandLines \cup {<<>>}]
  BY DEF Inv, TypeOK
<1>2. ASSUME line' = line, \A k \in Numbers : cmd'[k] \in Started => cmd[k] \in Started
      PROVE  StartedAreAccepted'
  BY <1>2 DEF StartedAreAccepted
<1>3. ASSUME NEW n \in Numbers, line' = line, StartsOnly(n, line[n])
      PROVE  StartedAreAccepted'
  BY <1>3 DEF StartedAreAccepted, StartsOnly
<1>4. CASE \/ \E ok \in BOOLEAN : VerifyClient(ok)
           \/ FetchAuthorizedHosts \/ FetchFails \/ DrainEnds
           \/ Heartbeat \/ Pong \/ PeerVanishes \/ UNCHANGED vars
  <2>1. line' = line /\ cmd' = cmd
    BY <1>4, Zenon DEF VerifyClient, FetchAuthorizedHosts, FetchFails, DrainEnds, Heartbeat, Pong,
       PeerVanishes, vars
  <2> QED BY <2>1, <1>2
<1>5. CASE KillAgain \/ SessionTimerFires \/ SocketError \/ SocketClose
  <2>1. line' = line /\ (cmd' = Told(cmd) \/ cmd' = cmd)
    BY <1>5, Zenon DEF KillAgain, SessionTimerFires, SocketError, SocketClose
  <2> QED BY <2>1, <1>1, <1>2, ToldStarts
<1>6. CASE ReceiveForce
  <2>1. line' = line /\ (cmd' = Told(cmd) \/ cmd' = cmd)
    BY <1>6, Zenon DEF ReceiveForce, HandleForce
  <2> QED BY <2>1, <1>1, <1>2, ToldStarts
<1>7. CASE Drain
  <2> DEFINE m == Head(pendingMessages)
  <2>1. line' = line /\ pendingMessages \in Seq(0..MaxCommands) /\ pendingMessages # <<>>
    BY <1>1, <1>7 DEF Drain, TypeOK
  <2>2. m \in 0..MaxCommands
    BY <2>1, TailFacts
  <2>3. HandleMessage(m)
    BY <1>7 DEF Drain
  <2> HIDE DEF m
  <2>4. CASE m = ForceKill
    <3>1. cmd' = Told(cmd) \/ cmd' = cmd
      BY <2>3, <2>4, Zenon DEF HandleMessage, HandleForce
    <3> QED BY <2>1, <3>1, <1>1, <1>2, ToldStarts
  <2>5. CASE m # ForceKill
    <3>1. m \in Numbers /\ HandleCommand(m, line[m])
      BY <2>2, <2>3, <2>5, TerminalAssumption DEF HandleMessage, Numbers, ForceKill
    <3> QED BY <2>1, <3>1, <1>1, <1>3, HandleCommandStarts
  <2> QED BY <2>4, <2>5
<1>8. CASE \E n \in Numbers, l \in CommandLines : ReceiveCommand(n, l)
  <2>1. PICK n \in Numbers, l \in CommandLines : ReceiveCommand(n, l)
    BY <1>8
  <2>2. cmd[n] = "unsent" /\ line' = [line EXCEPT ![n] = l]
    BY <2>1 DEF ReceiveCommand
  <2>3. StartsOnly(n, l)
    <3>1. CASE cmd' = [cmd EXCEPT ![n] = "buffered"]
      BY <1>1, <3>1 DEF StartsOnly, Started, Alive
    <3>2. CASE HandleCommand(n, l)
      BY <1>1, <3>2, HandleCommandStarts
    <3> QED BY <2>1, <3>1, <3>2 DEF ReceiveCommand
  <2>4. cmd[n] \notin Started
    BY <2>2 DEF Started, Alive
  <2> QED BY <1>1, <2>2, <2>3, <2>4 DEF StartedAreAccepted, StartsOnly
<1>9. CASE KillSucceeds
  <2>1. line' = line
    BY <1>9 DEF KillSucceeds
  <2>2. CASE task.why = "command"
    <3>1. task.n \in Numbers
      BY <1>9, <2>2, FirstTask DEF KillSucceeds, Looking, IsCommand
    <3>2. RunCommand(task.n, line[task.n])
      BY <1>9, <2>2 DEF KillSucceeds
    <3> QED BY <1>1, <1>3, <2>1, <3>1, <3>2, RunCommandStarts
  <2>3. CASE task.why # "command"
    <3>1. cmd' = cmd
      BY <1>9, <2>3 DEF KillSucceeds
    <3> QED BY <1>2, <2>1, <3>1
  <2> QED BY <2>2, <2>3
<1>10. CASE KillGivesUp
  <2>1. line' = line /\ (cmd' = [cmd EXCEPT ![task.n] = "unprocessable"] \/ cmd' = cmd)
    BY <1>10 DEF KillGivesUp
  <2>2. \A k \in Numbers : cmd'[k] \in Started => cmd[k] \in Started
    BY <1>1, <2>1 DEF Started, Alive
  <2> QED BY <1>2, <2>1, <2>2
<1>11. CASE \E n \in Numbers : PtyExits(n)
  <2>1. PICK n \in Numbers : PtyExits(n)
    BY <1>11
  <2>2. line' = line /\ cmd[n] \in Alive /\ cmd' = [cmd EXCEPT ![n] = "exited"]
    BY <2>1 DEF PtyExits
  <2>3. \A k \in Numbers : cmd'[k] \in Started => cmd[k] \in Started
    BY <1>1, <2>2 DEF Started
  <2> QED BY <1>2, <2>2, <2>3
<1> QED BY <1>4, <1>5, <1>6, <1>7, <1>8, <1>9, <1>10, <1>11 DEF Next

(* The ssh behind every terminal was given one key, one port and one       *)
(* destination, which is an authorized host, every required option, no     *)
(* option twice, and multiplexing as a whole or not at all: whatever the   *)
(* browser sent, and wherever the command waited before handleCommand      *)
(* went on with it.                                                        *)
StartedWellFormed ==
  \A n \in Numbers : cmd[n] \in Started => WellFormed(ExtractSshArgs(line[n]), AuthorizedHosts)

(* handleCommand starts ssh only with a command line that validateSshArgs  *)
(* found well formed, for lists of tokens of any length.                   *)
THEOREM OnlyWellFormedStarts ==
  ASSUME NEW CONSTANT names, NEW CONSTANT hosts, NoHost \in hosts,
         {"", RequestTTY} \subseteq names, CommandLines \subseteq Seq(Tokens(names, hosts))
  PROVE  Spec => []StartedWellFormed
<1>1. Init => StartedAreAccepted
  BY DEF Init, StartedAreAccepted, Started, Alive
<1>2. ASSUME NEW l \in AcceptedLines PROVE WellFormed(ExtractSshArgs(l), AuthorizedHosts)
  <2>1. l \in CommandLines /\ ValidateSshArgs(ExtractSshArgs(l), AuthorizedHosts)
    BY DEF AcceptedLines
  <2>2. ExtractSshArgs(l) \in Seq(Tokens(names, hosts))
    BY <2>1, ExtractTokens
  <2> QED BY <2>1, <2>2, ValidatorSound
<1>3. StartedAreAccepted => StartedWellFormed
  BY <1>2 DEF StartedAreAccepted, StartedWellFormed
<1> QED BY <1>1, <1>3, ServerInvariant, AcceptedStep, PTL DEF Spec
-----------------------------------------------------------------------------
(* The arguments group by group.                                           *)

(* Induction up to n, for a property given by the set of those that have it. *)
LEMMA IntervalInduction ==
  ASSUME NEW n \in Nat, NEW Good, 0 \in Good, \A k \in 0..(n - 1) : k \in Good => k + 1 \in Good
  PROVE  \A k \in 0..n : k \in Good
<1> DEFINE Bad == {k \in 0..n : k \notin Good}
<1> SUFFICES ASSUME Bad # {} PROVE FALSE
  OBVIOUS
<1>0. Bad \in SUBSET Nat
  OBVIOUS
<1>1. PICK m \in Bad : \A k \in Bad : m <= k
  <2> HIDE DEF Bad
  <2> QED BY <1>0, LeastNatural
<1>2. m \in 0..n /\ m # 0 /\ m - 1 \in 0..(n - 1) /\ (m - 1) + 1 = m
  BY <1>1
<1>3. m - 1 \in Good
  BY <1>1, <1>2
<1>4. m \in Good
  BY <1>2, <1>3
<1> QED BY <1>1, <1>4

-----------------------------------------------------------------------------
(* The arguments of the first k groups.                                    *)
IsFlat(u, groups, n) ==
  u = [i \in 0..n |-> IF i = 0 THEN <<>> ELSE u[i - 1] \o groups[i]]

(* The recursion of Flatten has a solution.                                *)
LEMMA FlatExists ==
  ASSUME NEW n \in Nat, NEW groups
  PROVE  \E u : IsFlat(u, groups, n)
<1> DEFINE Good == {k \in Nat : \E u : IsFlat(u, groups, k)}
<1>1. 0 \in Good
  <2>1. IsFlat([i \in 0..0 |-> <<>>], groups, 0)
    BY DEF IsFlat
  <2> QED BY <2>1
<1>2. ASSUME NEW k \in 0..(n - 1), k \in Good PROVE k + 1 \in Good
  <2>1. PICK u : IsFlat(u, groups, k)
    BY <1>2
  <2> DEFINE val(i) == IF i = 0 THEN <<>> ELSE u[i - 1] \o groups[i]
             h == [i \in 0..(k + 1) |-> val(i)]
  <2>2. \A i \in 0..k : u[i] = val(i)
    BY <2>1 DEF IsFlat
  <2> HIDE DEF val
  <2>3. \A i \in 1..(k + 1) : h[i - 1] = u[i - 1]
    BY <2>2
  <2>4. \A i \in 0..(k + 1) : val(i) = IF i = 0 THEN <<>> ELSE h[i - 1] \o groups[i]
    <3> SUFFICES ASSUME NEW i \in 0..(k + 1), i # 0 PROVE h[i - 1] = u[i - 1]
      BY DEF val
    <3> HIDE DEF h
    <3> QED BY <2>3
  <2>5. IsFlat(h, groups, k + 1)
    BY <2>4 DEF IsFlat
  <2> QED BY <2>5
<1> HIDE DEF Good
<1>3. n \in Good
  BY <1>1, <1>2, IntervalInduction
<1> QED BY <1>3 DEF Good

(* Where the arguments of a group stand in the list.                       *)
Flat(u, groups, T) ==
  /\ u[0] = <<>>
  /\ \A k \in 0..Len(groups) : u[k] \in Seq(T)
  /\ \A k \in 1..Len(groups) : u[k] = u[k - 1] \o groups[k]
  /\ \A k \in 0..Len(groups) : /\ Len(u[k]) <= Len(u[Len(groups)])
                               /\ \A i \in 1..Len(u[k]) : u[Len(groups)][i] = u[k][i]

(* Flatten strings the groups together: the first k are a prefix.          *)
LEMMA FlattenFacts ==
  ASSUME NEW T, NEW groups \in Seq(Seq(T))
  PROVE  \E u : Flat(u, groups, T) /\ Flatten(groups) = u[Len(groups)]
<1> DEFINE n == Len(groups)
           u == CHOOSE v : IsFlat(v, groups, n)
<1>0. n \in Nat /\ \A k \in 1..n : groups[k] \in Seq(T)
  OBVIOUS
<1>1. IsFlat(u, groups, n)
  BY <1>0, FlatExists
<1>2. Flatten(groups) = u[n]
  BY DEF Flatten, IsFlat
<1> HIDE DEF u, n
<1>3. u[0] = <<>> /\ \A k \in 1..n : u[k] = u[k - 1] \o groups[k]
  <2> DEFINE val(i) == IF i = 0 THEN <<>> ELSE u[i - 1] \o groups[i]
  <2>1. u = [i \in 0..n |-> val(i)]
    BY <1>1 DEF IsFlat
  <2> HIDE DEF val
  <2>2. \A i \in 0..n : u[i] = val(i)
    BY <2>1
  <2>3. u[0] = val(0) /\ \A k \in 1..n : u[k] = val(k)
    BY <1>0, <2>2
  <2>4. val(0) = <<>>
    BY Zenon DEF val
  <2>5. ASSUME NEW k \in 1..n PROVE val(k) = u[k - 1] \o groups[k]
    <3>1. k # 0 OBVIOUS
    <3> QED BY <3>1, Zenon DEF val
  <2> QED BY <2>3, <2>4, <2>5
<1>4. \A k \in 0..n : u[k] \in Seq(T)
  <2> DEFINE Good == {k \in 0..n : u[k] \in Seq(T)}
  <2>1. 0 \in Good
    <3>1. <<>> \in Seq(T) /\ 0 \in 0..n
      BY <1>0, EmptySeq
    <3> QED BY <1>3, <3>1, Zenon
  <2>2. ASSUME NEW k \in 0..(n - 1), k \in Good PROVE k + 1 \in Good
    <3>1. k + 1 \in 1..n /\ (k + 1) - 1 = k
      BY <1>0
    <3>2. u[k + 1] = u[k] \o groups[k + 1] /\ groups[k + 1] \in Seq(T) /\ u[k] \in Seq(T)
      BY <1>0, <1>3, <2>2, <3>1
    <3>3. u[k + 1] \in Seq(T)
      BY <3>2, ConcatProperties
    <3> QED BY <3>1, <3>3
  <2> HIDE DEF Good
  <2>3. \A k \in 0..n : k \in Good
    BY <1>0, <2>1, <2>2, IntervalInduction
  <2> QED BY <2>3 DEF Good
<1>5. ASSUME NEW k \in 0..n
      PROVE  Len(u[k]) <= Len(u[n]) /\ \A i \in 1..Len(u[k]) : u[n][i] = u[k][i]
  <2> DEFINE P(m) == Len(u[k]) <= Len(u[m]) /\ \A i \in 1..Len(u[k]) : u[m][i] = u[k][i]
             Good == {d \in Nat : k + d <= n => P(k + d)}
  <2>1. 0 \in Good
    <3>1. k + 0 = k /\ Len(u[k]) \in Nat
      BY <1>4, LenProperties
    <3>2. P(k)
      BY <3>1
    <3> QED BY <3>1, <3>2
  <2>2. ASSUME NEW d \in 0..((n - k) - 1), d \in Good PROVE d + 1 \in Good
    <3> DEFINE m == k + d
    <3>1. m \in 0..n /\ m + 1 \in 1..n /\ (m + 1) - 1 = m /\ k + (d + 1) = m + 1 /\ d + 1 \in Nat
      BY <1>0
    <3>2. P(m)
      BY <2>2, <3>1
    <3> HIDE DEF m
    <3>3. /\ u[m + 1] = u[m] \o groups[m + 1] /\ u[m] \in Seq(T) /\ groups[m + 1] \in Seq(T)
          /\ u[k] \in Seq(T)
      BY <1>0, <1>3, <1>4, <3>1
    <3> DEFINE b == Len(u[m])
               c == Len(groups[m + 1])
               a == Len(u[k])
    <3>4. /\ \A i \in 1..(b + c) :
               u[m + 1][i] = IF i <= b THEN u[m][i] ELSE groups[m + 1][i - b]
          /\ Len(u[m + 1]) = b + c
      <4>1. \A i \in 1..(b + c) :
              u[m + 1][i] = IF i <= b THEN u[m][i] ELSE groups[m + 1][i - b]
        BY <3>3, ConcatProperties
      <4>2. Len(u[m + 1]) = b + c
        BY <3>3, ConcatProperties
      <4> QED BY <4>1, <4>2
    <3>5. a \in Nat /\ b \in Nat /\ c \in Nat
      BY <3>3, LenProperties
    <3>6. a <= b /\ \A i \in 1..a : u[m][i] = u[k][i]
      BY <3>2
    <3> HIDE DEF a, b, c
    <3>7. a <= b + c /\ \A i \in 1..a : u[m + 1][i] = u[k][i]
      BY <3>4, <3>5, <3>6
    <3>8. P(m + 1)
      BY <3>4, <3>7 DEF a
    <3> QED BY <3>1, <3>8
  <2> HIDE DEF Good
  <2>3. n - k \in Nat /\ n - k \in 0..(n - k)
    BY <1>0
  <2>4. n - k \in Good
    BY <2>1, <2>2, <2>3, IntervalInduction
  <2> QED BY <1>0, <2>4 DEF Good
<1> QED BY <1>2, <1>3, <1>4, <1>5 DEF Flat, n

(* Where the arguments of group k stand in the list.                       *)
GroupAt(u, groups, k) ==
  LET args == u[Len(groups)]
      b == Len(u[k - 1])
  IN  /\ b \in Nat /\ Len(args) \in Nat
      /\ Len(groups[k]) \in Nat /\ Len(u[k]) = b + Len(groups[k])
      /\ b + Len(groups[k]) <= Len(args)
      /\ \A j \in 1..Len(groups[k]) : args[b + j] = groups[k][j]

(* Group k stands behind the groups before it.                             *)
LEMMA FlatAt ==
  ASSUME NEW T, NEW groups \in Seq(Seq(T)), NEW u, Flat(u, groups, T), NEW k \in 1..Len(groups)
  PROVE  GroupAt(u, groups, k)
<1> DEFINE n == Len(groups)
<1>1. n \in Nat /\ groups[k] \in Seq(T) /\ k \in 0..n /\ n \in 0..n /\ k - 1 \in 0..n
  OBVIOUS
<1>2. u[k] = u[k - 1] \o groups[k] /\ u[k - 1] \in Seq(T) /\ u[k] \in Seq(T) /\ u[n] \in Seq(T)
  BY <1>1 DEF Flat
<1>3. /\ Len(u[k]) <= Len(u[n])
      /\ \A i \in 1..Len(u[k]) : u[n][i] = u[k][i]
  BY <1>1 DEF Flat
<1> HIDE DEF n
<1> DEFINE b == Len(u[k - 1])
           c == Len(groups[k])
           l == Len(u[n])
<1>4. /\ \A i \in 1..(b + c) : u[k][i] = IF i <= b THEN u[k - 1][i] ELSE groups[k][i - b]
      /\ Len(u[k]) = b + c
  <2>1. \A i \in 1..(b + c) : u[k][i] = IF i <= b THEN u[k - 1][i] ELSE groups[k][i - b]
    BY <1>1, <1>2, ConcatProperties
  <2>2. Len(u[k]) = b + c
    BY <1>1, <1>2, ConcatProperties
  <2> QED BY <2>1, <2>2
<1>5. b \in Nat /\ c \in Nat /\ l \in Nat
  BY <1>1, <1>2, LenProperties
<1>6. b + c <= l /\ \A i \in 1..(b + c) : u[n][i] = u[k][i]
  BY <1>3, <1>4
<1> HIDE DEF b, c, l
<1>7. ASSUME NEW j \in 1..c PROVE u[n][b + j] = groups[k][j]
  <2>1. b + j \in 1..(b + c) /\ ~(b + j <= b) /\ (b + j) - b = j
    BY <1>5
  <2> QED BY <1>4, <1>6, <2>1
<1> QED BY <1>4, <1>5, <1>6, <1>7 DEF n, b, c, l, GroupAt

-----------------------------------------------------------------------------
(* A token with the fields its kind leaves it: only an option has a name,  *)
(* and only a destination or an option that is not allowed reads like      *)
(* user@host.                                                              *)
ArgTokens(names, hosts) ==
  {a \in Tokens(names, hosts) :
     /\ a.kind # "option" => a.name = ""
     /\ a.kind \notin {"option", "destination"} => a.host = NoHost
     /\ a.kind \in FlagKinds => a.value = "ok"
     /\ IsAllowedSshOption(a) => a.host = NoHost}

(* A flag with its value, an argument alone, or nothing.                   *)
Groups(names, hosts) ==
  {g \in Seq(ArgTokens(names, hosts)) :
     \/ Len(g) = 0
     \/ Len(g) = 1 /\ g[1].kind \in FlagKinds \cup {"destination", "word"}
     \/ Len(g) = 2 /\ g[1].kind \in FlagKinds}

(* The groups the code accepts, by their parts.                            *)
IsIdentity(g) == Len(g) = 2 /\ g[1].kind = "-i" /\ g[2].kind = "key" /\ g[2].value = "ok"
IsPort(g) == Len(g) = 2 /\ g[1].kind = "-p" /\ g[2].kind = "port" /\ g[2].value = "ok"
IsTarget(g) == Len(g) = 1 /\ g[1].kind = "destination" /\ g[1].value = "ok"

(* The scan of a group.                                                    *)
GroupStep(s, g) ==
  IF Len(g) = 0 THEN s
  ELSE IF Len(g) = 1 THEN ScanStep(s, g[1])
  ELSE ScanStep(ScanStep(s, g[1]), g[2])

(* The group is one the scan accepts where it stands.                      *)
Joins(s, g) ==
  \/ Len(g) = 0
  \/ IsIdentity(g) /\ ~s.hasIdentityFile
  \/ IsPort(g) /\ ~s.hasPort
  \/ IsOption(g) /\ g[2].name \notin s.seen
  \/ IsTarget(g) /\ s.target = NoHost

(* What the scan has learnt from it.                                       *)
Updates(s, g, r) ==
  /\ r.hasIdentityFile <=> s.hasIdentityFile \/ IsIdentity(g)
  /\ r.hasPort <=> s.hasPort \/ IsPort(g)
  /\ r.seen = s.seen \cup (IF IsOption(g) THEN {g[2].name} ELSE {})
  /\ r.target = IF IsTarget(g) THEN g[1].host ELSE s.target

(* A group is accepted when it joins, and is then what the scan learns.    *)
LEMMA GroupStepExact ==
  ASSUME NEW names, NEW hosts, NEW s \in ScanStates(names, hosts), NEW g \in Groups(names, hosts)
  PROVE  /\ GroupStep(s, g) \in ScanStates(names, hosts)
         /\ Fine(GroupStep(s, g)) <=> Fine(s) /\ Joins(s, g)
         /\ Fine(GroupStep(s, g)) => Updates(s, g, GroupStep(s, g))
<1> DEFINE r == GroupStep(s, g)
           n == Len(g)
           a == g[1]
           b == g[2]
<1>w. s.want = "" \/ s.want = "-i" \/ s.want = "-p" \/ s.want = "-o"
  BY DEF ScanStates, FlagKinds
<1>b. s.hasIdentityFile \in BOOLEAN /\ s.hasPort \in BOOLEAN /\ s.ok \in BOOLEAN
  BY DEF ScanStates
<1>0. /\ n = 0 \/ (n = 1 /\ a.kind \in FlagKinds \cup {"destination", "word"})
               \/ (n = 2 /\ a.kind \in FlagKinds)
      /\ n >= 1 => a \in ArgTokens(names, hosts)
      /\ n >= 2 => b \in ArgTokens(names, hosts)
  BY DEF Groups
<1>1. CASE n = 0
  <2>1. r = s
    BY <1>1 DEF GroupStep
  <2>2. ~IsIdentity(g) /\ ~IsPort(g) /\ ~IsOption(g) /\ ~IsTarget(g) /\ Joins(s, g)
    BY <1>1 DEF IsIdentity, IsPort, IsOption, IsTarget, Joins
  <2> QED BY <2>1, <2>2 DEF Updates
<1>2. CASE n = 1
  <2>1. r = ScanStep(s, a)
    BY <1>2 DEF GroupStep
  <2>2. a.name \in names /\ a.host \in hosts /\ a.kind \in FlagKinds \cup {"destination", "word"}
    <3> HIDE DEF n, a, b
    <3>1. a \in ArgTokens(names, hosts)
      BY <1>0, <1>2
    <3>2. a.name \in names /\ a.host \in hosts
      BY <3>1 DEF ArgTokens, Tokens
    <3>3. a.kind \in FlagKinds \cup {"destination", "word"}
      BY <1>0, <1>2
    <3> QED BY <3>2, <3>3
  <2>3. ~IsIdentity(g) /\ ~IsPort(g) /\ ~IsOption(g)
    BY <1>2 DEF IsIdentity, IsPort, IsOption
  <2>4. (IsTarget(g) <=> a.kind = "destination" /\ a.value = "ok")
    BY <1>2 DEF IsTarget
  <2>5. Joins(s, g) <=> IsTarget(g) /\ s.target = NoHost
    BY <1>2, <2>3 DEF Joins
  <2> DEFINE q == ScanStep(s, a)
  <2> HIDE DEF r, a, q
  <2>6. q \in ScanStates(names, hosts) /\ Scanned(s, a, q)
    BY <2>2, ScanStepExact DEF q
  <2>7. r = q
    BY <2>1 DEF q
  <2>8. q.ok \in BOOLEAN /\ q.hasIdentityFile \in BOOLEAN /\ q.hasPort \in BOOLEAN
    BY <2>6 DEF ScanStates
  <2>9. CASE s.want = ""
    <3>1. CASE a.kind \in FlagKinds
      <4>1. q.want # "" /\ ~IsTarget(g)
        BY <2>4, <2>6, <2>9, <3>1 DEF Scanned, FlagKinds
      <4> QED BY <2>5, <2>6, <2>7, <4>1 DEF Fine, r
    <3>2. CASE a.kind \notin FlagKinds
      <4>1. /\ q.ok <=> s.ok /\ IsTarget(g) /\ s.target = NoHost
            /\ q.want = "" /\ q.target = a.host
            /\ q.hasIdentityFile = s.hasIdentityFile /\ q.hasPort = s.hasPort
            /\ q.seen = s.seen
        BY <2>4, <2>6, <2>9, <3>2 DEF Scanned
      <4>2. Fine(q) <=> Fine(s) /\ Joins(s, g)
        BY <2>5, <2>9, <4>1 DEF Fine
      <4>3. Fine(q) => Updates(s, g, q)
        BY <2>3, <2>5, <4>1, <4>2 DEF Fine, Updates, a
      <4> QED BY <2>6, <2>7, <4>2, <4>3 DEF r
    <3> QED BY <3>1, <3>2
  <2>10. CASE s.want # ""
    <3>1. ~q.ok
      BY <1>w, <2>2, <2>6, <2>10 DEF Scanned, FlagKinds, IsAllowedSshOption
    <3> QED BY <2>6, <2>7, <2>10, <3>1 DEF Fine, r
  <2> QED BY <2>9, <2>10
<1>3. CASE n = 2
  <2> DEFINE q == ScanStep(s, a)
             p == ScanStep(q, b)
  <2>1. r = p
    BY <1>3 DEF GroupStep
  <2>2. /\ a.name \in names /\ a.host \in hosts /\ a.kind \in FlagKinds
        /\ b.name \in names /\ b.host \in hosts
    <3> HIDE DEF n, a, b
    <3>1. a \in ArgTokens(names, hosts) /\ b \in ArgTokens(names, hosts)
      BY <1>0, <1>3
    <3>2. a.name \in names /\ a.host \in hosts /\ b.name \in names /\ b.host \in hosts
      BY <3>1 DEF ArgTokens, Tokens
    <3>3. a.kind \in FlagKinds
      BY <1>0, <1>3
    <3> QED BY <3>2, <3>3
  <2>3. /\ IsIdentity(g) <=> a.kind = "-i" /\ b.kind = "key" /\ b.value = "ok"
        /\ IsPort(g) <=> a.kind = "-p" /\ b.kind = "port" /\ b.value = "ok"
        /\ IsOption(g) <=> a.kind = "-o" /\ IsAllowedSshOption(b)
        /\ ~IsTarget(g)
    BY <1>3 DEF IsIdentity, IsPort, IsOption, IsTarget
  <2>4. Joins(s, g) <=> \/ IsIdentity(g) /\ ~s.hasIdentityFile
                        \/ IsPort(g) /\ ~s.hasPort
                        \/ IsOption(g) /\ b.name \notin s.seen
    BY <1>3, <2>3 DEF Joins
  <2>5. q \in ScanStates(names, hosts) /\ Scanned(s, a, q)
    BY <2>2, ScanStepExact
  <2> HIDE DEF q
  <2>6. p \in ScanStates(names, hosts) /\ Scanned(q, b, p)
    BY <2>2, <2>5, ScanStepExact
  <2> HIDE DEF r, a, b, p
  <2>7. p.ok => q.ok
    <3>1. q.want = "" \/ q.want = "-i" \/ q.want = "-p" \/ q.want = "-o"
      BY <2>5 DEF ScanStates, FlagKinds
    <3>2. q.ok \in BOOLEAN /\ p.ok \in BOOLEAN
      BY <2>5, <2>6 DEF ScanStates
    <3> QED BY <2>6, <3>1, <3>2 DEF Scanned
  <2>8. CASE s.want # ""
    <3>1. ~q.ok
      BY <1>w, <2>2, <2>5, <2>8 DEF Scanned, FlagKinds, IsAllowedSshOption
    <3> QED BY <2>1, <2>6, <2>7, <2>8, <3>1 DEF Fine, r
  <2>9. CASE s.want = ""
    <3>1. /\ q.ok = s.ok /\ q.want = a.kind
          /\ q.hasIdentityFile = s.hasIdentityFile /\ q.hasPort = s.hasPort
          /\ q.seen = s.seen /\ q.target = s.target
      BY <2>2, <2>5, <2>9 DEF Scanned
    <3>2. CASE a.kind = "-i"
      <4>1. /\ p.ok <=> s.ok /\ IsIdentity(g) /\ ~s.hasIdentityFile
            /\ p.want = "" /\ p.hasIdentityFile
            /\ p.hasPort = s.hasPort /\ p.seen = s.seen /\ p.target = s.target
            /\ ~IsPort(g) /\ ~IsOption(g)
        BY <2>3, <2>6, <3>1, <3>2 DEF Scanned
      <4>2. Fine(p) <=> Fine(s) /\ Joins(s, g)
        BY <2>4, <2>9, <4>1 DEF Fine
      <4>3. Fine(p) => Updates(s, g, p)
        BY <2>3, <4>1 DEF Fine, Updates
      <4> QED BY <2>1, <2>6, <4>2, <4>3 DEF r
    <3>3. CASE a.kind = "-p"
      <4>1. /\ p.ok <=> s.ok /\ IsPort(g) /\ ~s.hasPort
            /\ p.want = "" /\ p.hasPort
            /\ p.hasIdentityFile = s.hasIdentityFile /\ p.seen = s.seen /\ p.target = s.target
            /\ ~IsIdentity(g) /\ ~IsOption(g)
        BY <2>3, <2>6, <3>1, <3>3 DEF Scanned
      <4>2. Fine(p) <=> Fine(s) /\ Joins(s, g)
        BY <2>4, <2>9, <4>1 DEF Fine
      <4>3. Fine(p) => Updates(s, g, p)
        BY <2>3, <4>1 DEF Fine, Updates
      <4> QED BY <2>1, <2>6, <4>2, <4>3 DEF r
    <3>4. CASE a.kind = "-o"
      <4>1. /\ p.ok <=> s.ok /\ IsOption(g) /\ b.name \notin s.seen
            /\ p.want = "" /\ p.hasIdentityFile = s.hasIdentityFile
            /\ p.hasPort = s.hasPort /\ p.seen = s.seen \cup {b.name} /\ p.target = s.target
            /\ ~IsIdentity(g) /\ ~IsPort(g)
        BY <2>3, <2>6, <3>1, <3>4 DEF Scanned
      <4>2. Fine(p) <=> Fine(s) /\ Joins(s, g)
        BY <2>4, <2>9, <4>1 DEF Fine
      <4>3. Fine(p) => Updates(s, g, p)
        BY <2>3, <4>1 DEF Fine, Updates, b
      <4> QED BY <2>1, <2>6, <4>2, <4>3 DEF r
    <3> QED BY <2>2, <3>2, <3>3, <3>4 DEF FlagKinds
  <2> QED BY <2>8, <2>9
<1> QED BY <1>0, <1>1, <1>2, <1>3

-----------------------------------------------------------------------------
(* The scan of a list goes through it group by group.                      *)
LEMMA ScanOfGroups ==
  ASSUME NEW names, NEW hosts, NEW groups \in Seq(Groups(names, hosts)), NEW u,
         Flat(u, groups, ArgTokens(names, hosts)), NEW after,
         IsScan(after, u[Len(groups)], Len(u[Len(groups)]))
  PROVE  /\ after[Len(u[0])] = ScanStart
         /\ \A k \in 1..Len(groups) :
              after[Len(u[k])] = GroupStep(after[Len(u[k - 1])], groups[k])
<1> DEFINE T == ArgTokens(names, hosts)
           args == u[Len(groups)]
           l == Len(args)
<1>0. /\ groups \in Seq(Seq(T))
      /\ \A k \in 1..Len(groups) : groups[k] \in Groups(names, hosts)
  <2>1. Groups(names, hosts) \subseteq Seq(T)
    BY DEF Groups
  <2> HIDE DEF T
  <2> QED BY <2>1
<1>1. Len(groups) \in Nat /\ Len(groups) \in 0..Len(groups)
  OBVIOUS
<1>2. args \in Seq(T)
  BY <1>1 DEF Flat
<1>3. l \in Nat
  BY <1>2, LenProperties
<1> HIDE DEF args, l
<1>4. IsScan(after, args, l)
  BY DEF args, l
<1>5. after[0] = ScanStart /\ \A i \in 1..l : after[i] = ScanStep(after[i - 1], args[i])
  <2> DEFINE val(i) == IF i = 0 THEN ScanStart ELSE ScanStep(after[i - 1], args[i])
  <2>1. after = [i \in 0..l |-> val(i)]
    BY <1>4, Zenon DEF IsScan
  <2> HIDE DEF val
  <2>2. after[0] = val(0) /\ \A i \in 1..l : i # 0 /\ after[i] = val(i)
    BY <1>3, <2>1
  <2> QED BY <2>2, Zenon DEF val
<1>6. Len(u[0]) = 0
  <2>1. u[0] = <<>>
    BY DEF Flat
  <2> QED BY <2>1
<1>7. ASSUME NEW k \in 1..Len(groups)
      PROVE  after[Len(u[k])] = GroupStep(after[Len(u[k - 1])], groups[k])
  <2> DEFINE b == Len(u[k - 1])
             c == Len(groups[k])
  <2>1. /\ b \in Nat /\ c \in Nat /\ Len(u[k]) = b + c /\ b + c <= l
        /\ \A j \in 1..c : args[b + j] = groups[k][j]
    <3>1. Flat(u, groups, T)
      OBVIOUS
    <3> HIDE DEF T
    <3>2. GroupAt(u, groups, k)
      BY <1>0, <3>1, FlatAt
    <3>3. b \in Nat /\ c \in Nat /\ Len(u[k]) = b + c /\ b + c <= Len(args)
      BY <3>2 DEF GroupAt, args
    <3>4. \A j \in 1..c : args[b + j] = groups[k][j]
      BY <3>2 DEF GroupAt, args
    <3> QED BY <3>3, <3>4 DEF l
  <2>2. c = 0 \/ c = 1 \/ c = 2
    BY <1>0 DEF Groups
  <2> HIDE DEF b
  <2>3. CASE c = 0
    <3>1. Len(u[k]) = b
      BY <2>1, <2>3
    <3> QED BY <2>3, <3>1 DEF GroupStep, b
  <2>4. CASE c = 1
    <3>1. Len(u[k]) = b + 1 /\ args[b + 1] = groups[k][1] /\ b + 1 \in 1..l /\ (b + 1) - 1 = b
      BY <1>3, <2>1, <2>4
    <3>2. after[b + 1] = ScanStep(after[b], groups[k][1])
      BY <1>5, <3>1
    <3> QED BY <2>4, <3>1, <3>2 DEF GroupStep, b
  <2>5. CASE c = 2
    <3> HIDE DEF c
    <3>1. /\ Len(u[k]) = b + 2 /\ args[b + 1] = groups[k][1] /\ args[b + 2] = groups[k][2]
          /\ b + 1 \in 1..l /\ (b + 1) - 1 = b /\ b + 2 \in 1..l /\ (b + 2) - 1 = b + 1
      BY <1>3, <2>1, <2>5
    <3>2. after[b + 1] = ScanStep(after[b], groups[k][1])
      BY <1>5, <3>1
    <3>3. after[b + 2] = ScanStep(after[b + 1], groups[k][2])
      BY <1>5, <3>1
    <3>4. GroupStep(after[b], groups[k]) = ScanStep(ScanStep(after[b], groups[k][1]), groups[k][2])
      BY <2>5 DEF GroupStep, c
    <3> QED BY <3>1, <3>2, <3>3, <3>4 DEF b
  <2> QED BY <2>2, <2>3, <2>4, <2>5
<1> QED BY <1>5, <1>6, <1>7

-----------------------------------------------------------------------------
(* A group the code may accept somewhere.                                  *)
Listed(g) == Len(g) = 0 \/ IsIdentity(g) \/ IsPort(g) \/ IsOption(g) \/ IsTarget(g)

(* No group is there twice.                                                *)
OneIdentity(groups, k) ==
  \A i, j \in 1..k : IsIdentity(groups[i]) /\ IsIdentity(groups[j]) => i = j
OnePort(groups, k) ==
  \A i, j \in 1..k : IsPort(groups[i]) /\ IsPort(groups[j]) => i = j
Named(g) == IsTarget(g) /\ g[1].host # NoHost
TargetLast(groups, k) ==
  \A i, j \in 1..k : Named(groups[i]) /\ IsTarget(groups[j]) => j <= i
NoOptionTwice(groups, k) ==
  \A i, j \in 1..k :
    IsOption(groups[i]) /\ IsOption(groups[j]) /\ groups[i][2].name = groups[j][2].name => i = j
Uniq(groups, k) ==
  /\ \A i \in 1..k : Listed(groups[i])
  /\ OneIdentity(groups, k) /\ OnePort(groups, k) /\ TargetLast(groups, k)
  /\ NoOptionTwice(groups, k)

(* What the scan knows after k groups it accepted.                         *)
Known(groups, k, s) ==
  /\ s.hasIdentityFile <=> \E i \in 1..k : IsIdentity(groups[i])
  /\ s.hasPort <=> \E i \in 1..k : IsPort(groups[i])
  /\ \A n : n \in s.seen <=> \E i \in 1..k : IsOption(groups[i]) /\ groups[i][2].name = n
  /\ \A i \in 1..k : Named(groups[i]) => s.target = groups[i][1].host
  /\ (\A i \in 1..k : ~Named(groups[i])) => s.target = NoHost

(* A group is of one kind.                                                 *)
LEMMA GroupKinds ==
  ASSUME NEW g
  PROVE  /\ IsIdentity(g) => Len(g) # 0 /\ ~IsPort(g) /\ ~IsOption(g) /\ ~IsTarget(g)
         /\ IsPort(g) => Len(g) # 0 /\ ~IsIdentity(g) /\ ~IsOption(g) /\ ~IsTarget(g)
         /\ IsOption(g) => Len(g) # 0 /\ ~IsIdentity(g) /\ ~IsPort(g) /\ ~IsTarget(g)
         /\ IsTarget(g) => Len(g) # 0 /\ ~IsIdentity(g) /\ ~IsPort(g) /\ ~IsOption(g)
BY DEF IsIdentity, IsPort, IsOption, IsTarget

(* A group joins the ones before it when it repeats none of them, and the  *)
(* scan knows it from then on.                                             *)
LEMMA JoinStep ==
  ASSUME NEW groups, NEW k \in Nat, NEW s, Known(groups, k, s),
         s.hasIdentityFile \in BOOLEAN, s.hasPort \in BOOLEAN
  PROVE  /\ Uniq(groups, k + 1) <=> Uniq(groups, k) /\ Joins(s, groups[k + 1])
         /\ \A r : Joins(s, groups[k + 1]) /\ Updates(s, groups[k + 1], r)
                     => Known(groups, k + 1, r)
<1> DEFINE g == groups[k + 1]
<1>1. \A i : i \in 1..(k + 1) <=> i \in 1..k \/ i = k + 1
  OBVIOUS
<1>2. k + 1 \notin 1..k
  OBVIOUS
<1>3. Joins(s, g) <=> /\ Listed(g)
                      /\ IsIdentity(g) => ~s.hasIdentityFile
                      /\ IsPort(g) => ~s.hasPort
                      /\ IsOption(g) => g[2].name \notin s.seen
                      /\ IsTarget(g) => s.target = NoHost
  BY GroupKinds DEF Joins, Listed
<1>4. OneIdentity(groups, k + 1) <=>
        OneIdentity(groups, k) /\ (IsIdentity(g) => ~s.hasIdentityFile)
  BY <1>1, <1>2 DEF OneIdentity, Known
<1>5. OnePort(groups, k + 1) <=> OnePort(groups, k) /\ (IsPort(g) => ~s.hasPort)
  BY <1>1, <1>2 DEF OnePort, Known
<1>6. TargetLast(groups, k + 1) <=> TargetLast(groups, k) /\ (IsTarget(g) => s.target = NoHost)
  <2>1. s.target = NoHost <=> \A i \in 1..k : ~Named(groups[i])
    BY DEF Known, Named
  <2> DEFINE Q(i) == IsTarget(groups[i])
             N(i) == Named(groups[i])
  <2>2. /\ TargetLast(groups, k) <=> \A i, j \in 1..k : N(i) /\ Q(j) => j <= i
        /\ TargetLast(groups, k + 1) <=> \A i, j \in 1..(k + 1) : N(i) /\ Q(j) => j <= i
    BY DEF TargetLast
  <2>3. (N(k + 1) => Q(k + 1)) /\ (Q(k + 1) <=> IsTarget(g))
    BY DEF Named
  <2>4. s.target = NoHost <=> \A i \in 1..k : ~N(i)
    BY <2>1
  <2> HIDE DEF Q, N, g
  <2>5. (IsTarget(g) => s.target = NoHost) <=> \A i \in 1..k : ~(N(i) /\ Q(k + 1))
    BY <2>3, <2>4
  <2>6. ASSUME NEW i \in 1..(k + 1) PROVE /\ k + 1 <= i <=> i = k + 1
                                          /\ i <= k + 1
    OBVIOUS
  <2> QED BY <1>1, <1>2, <2>2, <2>3, <2>5, <2>6
<1>7. NoOptionTwice(groups, k + 1) <=>
        NoOptionTwice(groups, k) /\ (IsOption(g) => g[2].name \notin s.seen)
  <2>1. g[2].name \in s.seen <=>
          \E i \in 1..k : IsOption(groups[i]) /\ groups[i][2].name = g[2].name
    BY DEF Known
  <2> DEFINE P(i) == IsOption(groups[i])
             nm(i) == groups[i][2].name
  <2>2. g[2].name \in s.seen <=> \E i \in 1..k : P(i) /\ nm(i) = nm(k + 1)
    BY <2>1
  <2>3. /\ NoOptionTwice(groups, k) <=> \A i, j \in 1..k : P(i) /\ P(j) /\ nm(i) = nm(j) => i = j
        /\ NoOptionTwice(groups, k + 1) <=>
             \A i, j \in 1..(k + 1) : P(i) /\ P(j) /\ nm(i) = nm(j) => i = j
    BY DEF NoOptionTwice
  <2>4. P(k + 1) <=> IsOption(g)
    OBVIOUS
  <2> HIDE DEF P, nm, g
  <2> QED BY <1>1, <1>2, <2>2, <2>3, <2>4
<1>8. Uniq(groups, k + 1) <=> Uniq(groups, k) /\ Joins(s, g)
  BY <1>1, <1>3, <1>4, <1>5, <1>6, <1>7 DEF Uniq
<1>9. ASSUME NEW r, Joins(s, g), Updates(s, g, r) PROVE Known(groups, k + 1, r)
  <2>1. r.hasIdentityFile <=> \E i \in 1..(k + 1) : IsIdentity(groups[i])
    BY <1>1, <1>9 DEF Known, Updates
  <2>2. r.hasPort <=> \E i \in 1..(k + 1) : IsPort(groups[i])
    BY <1>1, <1>9 DEF Known, Updates
  <2>3. \A n : n \in r.seen <=>
          \E i \in 1..(k + 1) : IsOption(groups[i]) /\ groups[i][2].name = n
    BY <1>1, <1>9 DEF Known, Updates
  <2>4. IsTarget(g) => \A i \in 1..k : ~Named(groups[i])
    BY <1>1, <1>3, <1>9 DEF Known, Named
  <2>5. \A i \in 1..(k + 1) : Named(groups[i]) => r.target = groups[i][1].host
    BY <1>1, <1>9, <2>4 DEF Known, Updates, Named
  <2>6. (\A i \in 1..(k + 1) : ~Named(groups[i])) => r.target = NoHost
    BY <1>1, <1>9 DEF Known, Updates, Named
  <2> QED BY <2>1, <2>2, <2>3, <2>5, <2>6 DEF Known
<1> QED BY <1>8, <1>9

-----------------------------------------------------------------------------
(* The names of the options, once each.                                    *)
OptionNames(groups) ==
  {groups[i][2].name : i \in {j \in 1..Len(groups) : IsOption(groups[j])}}

(* What validateSshArgs accepts, said of the groups.                       *)
WellGrouped(groups, allowed) ==
  /\ Uniq(groups, Len(groups))
  /\ \E i \in 1..Len(groups) : IsIdentity(groups[i])
  /\ \E i \in 1..Len(groups) : IsPort(groups[i])
  /\ \E i \in 1..Len(groups) : Named(groups[i]) /\ groups[i][1].host \in allowed
  /\ RequiredOptions \subseteq OptionNames(groups)
  /\ MultiplexingOptions \cap OptionNames(groups) \in {{}, MultiplexingOptions}

(* The scan of all groups finds nothing wrong exactly when each is listed  *)
(* and none is repeated, and then knows what they are.                     *)
LEMMA GroupsScanned ==
  ASSUME NEW names, NEW hosts, NoHost \in hosts, NEW groups \in Seq(Groups(names, hosts)), NEW u,
         Flat(u, groups, ArgTokens(names, hosts)), NEW after,
         IsScan(after, u[Len(groups)], Len(u[Len(groups)]))
  PROVE  LET s == after[Len(u[Len(groups)])] IN
         /\ Fine(s) <=> Uniq(groups, Len(groups))
         /\ Fine(s) => Known(groups, Len(groups), s)
<1> DEFINE n == Len(groups)
           s(k) == after[Len(u[k])]
           P(k) == /\ s(k) \in ScanStates(names, hosts)
                   /\ Fine(s(k)) <=> Uniq(groups, k)
                   /\ Fine(s(k)) => Known(groups, k, s(k))
           Good == {k \in 0..n : P(k)}
<1>0. n \in Nat /\ \A k \in 1..n : groups[k] \in Groups(names, hosts)
  OBVIOUS
<1>1. s(0) = ScanStart /\ \A k \in 1..n : s(k) = GroupStep(s(k - 1), groups[k])
  BY ScanOfGroups
<1> HIDE DEF s, n
<1>3. P(0)
  <2>1. s(0) \in ScanStates(names, hosts) /\ Fine(s(0))
    <3>1. ScanStart \in ScanStates(names, hosts) /\ Fine(ScanStart)
      BY DEF ScanStart, ScanStates, Fine
    <3> QED BY <1>1, <3>1
  <2>2. Uniq(groups, 0)
    BY DEF Uniq, OneIdentity, OnePort, TargetLast, NoOptionTwice
  <2>3. Known(groups, 0, s(0))
    <3>1. Known(groups, 0, ScanStart)
      BY DEF ScanStart, Known
    <3> QED BY <1>1, <3>1
  <2> QED BY <2>1, <2>2, <2>3
<1>4. ASSUME NEW k \in 0..(n - 1), P(k) PROVE P(k + 1)
  <2>1. k + 1 \in 1..n /\ (k + 1) - 1 = k /\ k \in Nat /\ \A i \in 1..(k + 1) : i \in 1..n
    BY <1>0
  <2> DEFINE p == s(k)
             r == s(k + 1)
             g == groups[k + 1]
  <2>2. r = GroupStep(p, g)
    BY <1>1, <2>1
  <2>3. g \in Groups(names, hosts) /\ p \in ScanStates(names, hosts)
    BY <1>0, <1>4, <2>1
  <2> HIDE DEF p, r
  <2>4. /\ r \in ScanStates(names, hosts)
        /\ Fine(r) <=> Fine(p) /\ Joins(p, g)
        /\ Fine(r) => Updates(p, g, r)
    BY <2>2, <2>3, GroupStepExact
  <2>5. (Fine(p) <=> Uniq(groups, k)) /\ (Fine(p) => Known(groups, k, p))
    BY <1>4 DEF p
  <2>6. p.hasIdentityFile \in BOOLEAN /\ p.hasPort \in BOOLEAN
    BY <2>3 DEF ScanStates
  <2>8. CASE Fine(p)
    <3>1. Known(groups, k, p)
      BY <2>5, <2>8
    <3>2. /\ Uniq(groups, k + 1) <=> Uniq(groups, k) /\ Joins(p, groups[k + 1])
          /\ \A q : Joins(p, groups[k + 1]) /\ Updates(p, groups[k + 1], q)
                     => Known(groups, k + 1, q)
      BY <2>1, <2>6, <3>1, JoinStep
    <3> QED BY <2>4, <2>5, <2>8, <3>2 DEF r
  <2>9. CASE ~Fine(p)
    <3>1. ~Uniq(groups, k)
      BY <2>5, <2>9
    <3>2. ~Uniq(groups, k + 1)
      <4>1. \A i \in 1..k : i \in 1..(k + 1)
        BY <2>1
      <4> QED BY <3>1, <4>1 DEF Uniq, OneIdentity, OnePort, TargetLast, NoOptionTwice
    <3> QED BY <2>4, <2>9, <3>2 DEF r
  <2> QED BY <2>8, <2>9
<1> HIDE DEF P
<1>5. 0 \in Good /\ \A k \in 0..(n - 1) : k \in Good => k + 1 \in Good
  BY <1>0, <1>3, <1>4
<1> HIDE DEF Good
<1>6. n \in Good
  <2>1. \A k \in 0..n : k \in Good
    BY <1>0, <1>5, IntervalInduction
  <2> QED BY <1>0, <2>1
<1> QED BY <1>6 DEF Good, P, s, n

(* validateSshArgs, which reads the list once from the left, accepts the   *)
(* lists that are well grouped.                                            *)
LEMMA ValidatorOfGroups ==
  ASSUME NEW names, NEW hosts, NoHost \in hosts, NEW groups \in Seq(Groups(names, hosts)),
         NEW allowed
  PROVE  ValidateSshArgs(Flatten(groups), allowed) <=> WellGrouped(groups, allowed)
<1> DEFINE T == ArgTokens(names, hosts)
           n == Len(groups)
<1>0. n \in Nat /\ \A k \in 1..n : groups[k] \in Groups(names, hosts)
  OBVIOUS
<1>1. groups \in Seq(Seq(T))
  <2>1. Groups(names, hosts) \subseteq Seq(T)
    BY DEF Groups
  <2> HIDE DEF T
  <2> QED BY <2>1
<1>2. PICK u : Flat(u, groups, T) /\ Flatten(groups) = u[n]
  <2> HIDE DEF T
  <2> QED BY <1>1, FlattenFacts
<1> DEFINE args == Flatten(groups)
<1>3. args \in Seq(T) /\ n \in 0..n
  BY <1>0, <1>2 DEF Flat
<1>4. Len(args) \in Nat
  <2> HIDE DEF T, args
  <2> QED BY <1>3, LenProperties
<1> HIDE DEF args
<1>5. PICK after : /\ IsScan(after, args, Len(args))
                   /\ ValidateSshArgs(args, allowed) <=> Accepts(after[Len(args)], allowed)
  BY <1>4, ValidatorAsScan
<1> DEFINE s == after[Len(args)]
<1>6. (Fine(s) <=> Uniq(groups, n)) /\ (Fine(s) => Known(groups, n, s))
  BY <1>2, <1>5, GroupsScanned DEF args
<1> HIDE DEF s
<1>8. ASSUME Known(groups, n, s), Uniq(groups, n), Fine(s)
      PROVE  Accepts(s, allowed) <=> WellGrouped(groups, allowed)
  <2>1. s.seen = OptionNames(groups)
    <3>1. \A m : m \in s.seen <=> \E i \in 1..n : IsOption(groups[i]) /\ groups[i][2].name = m
      BY <1>8 DEF Known
    <3> QED BY <3>1 DEF OptionNames
  <2>2. s.target # NoHost /\ s.target \in allowed <=>
          \E i \in 1..n : Named(groups[i]) /\ groups[i][1].host \in allowed
    BY <1>8 DEF Known, Named
  <2>3. /\ s.hasIdentityFile <=> \E i \in 1..n : IsIdentity(groups[i])
        /\ s.hasPort <=> \E i \in 1..n : IsPort(groups[i])
    BY <1>8 DEF Known
  <2> QED BY <1>8, <2>1, <2>2, <2>3 DEF Accepts, WellGrouped
<1>9. ~Fine(s) => ~Accepts(s, allowed) /\ ~WellGrouped(groups, allowed)
  BY <1>6 DEF Accepts, WellGrouped
<1>10. ValidateSshArgs(args, allowed) <=> Accepts(s, allowed)
  BY <1>5 DEF s
<1> QED BY <1>6, <1>8, <1>9, <1>10 DEF args

-----------------------------------------------------------------------------
(* The groups by their parts are the groups of the reference.              *)
LEMMA GroupForms ==
  ASSUME NEW names, NEW hosts, NEW allowed, NEW g \in Groups(names, hosts)
  PROVE  /\ IsIdentity(g) <=> g = <<Flag("-i"), Path("ok")>>
         /\ IsPort(g) <=> g = <<Flag("-p"), Port("ok")>>
         /\ IsTarget(g) /\ g[1].host \in allowed <=> \E h \in allowed : g = <<Destination(h, "ok")>>
<1> DEFINE T == ArgTokens(names, hosts)
<1>0. g \in Seq(T)
  BY DEF Groups
<1>1. ASSUME NEW a \in T, a.kind \in FlagKinds PROVE a = Flag(a.kind)
  BY <1>1 DEF ArgTokens, Tokens, Flag, FlagKinds
<1>2. ASSUME NEW a \in T, a.kind = "key", a.value = "ok" PROVE a = Path("ok")
  BY <1>2 DEF ArgTokens, Tokens, Path, FlagKinds
<1>3. ASSUME NEW a \in T, a.kind = "port", a.value = "ok" PROVE a = Port("ok")
  BY <1>3 DEF ArgTokens, Tokens, Port, FlagKinds
<1>4. ASSUME NEW a \in T, a.kind = "destination", a.value = "ok" PROVE a = Destination(a.host, "ok")
  BY <1>4 DEF ArgTokens, Tokens, Destination, FlagKinds
<1> HIDE DEF T
<1>5. IsIdentity(g) => g = <<Flag("-i"), Path("ok")>>
  <2> SUFFICES ASSUME IsIdentity(g) PROVE g = <<Flag("-i"), Path("ok")>>
    OBVIOUS
  <2>1. Len(g) = 2 /\ g[1] \in T /\ g[2] \in T
    BY <1>0 DEF IsIdentity
  <2>2. g[1] = Flag("-i") /\ g[2] = Path("ok")
    BY <1>1, <1>2, <2>1 DEF IsIdentity, FlagKinds
  <2> QED BY <1>0, <2>1, <2>2
<1>6. IsPort(g) => g = <<Flag("-p"), Port("ok")>>
  <2> SUFFICES ASSUME IsPort(g) PROVE g = <<Flag("-p"), Port("ok")>>
    OBVIOUS
  <2>1. Len(g) = 2 /\ g[1] \in T /\ g[2] \in T
    BY <1>0 DEF IsPort
  <2>2. g[1] = Flag("-p") /\ g[2] = Port("ok")
    BY <1>1, <1>3, <2>1 DEF IsPort, FlagKinds
  <2> QED BY <1>0, <2>1, <2>2
<1>7. IsTarget(g) => g = <<Destination(g[1].host, "ok")>>
  <2> SUFFICES ASSUME IsTarget(g) PROVE g = <<Destination(g[1].host, "ok")>>
    OBVIOUS
  <2>1. Len(g) = 1 /\ g[1] \in T
    BY <1>0 DEF IsTarget
  <2>2. g[1] = Destination(g[1].host, "ok")
    BY <1>4, <2>1 DEF IsTarget
  <2> QED BY <1>0, <2>1, <2>2
<1>8. g = <<Flag("-i"), Path("ok")>> => IsIdentity(g)
  <2> SUFFICES ASSUME g = <<Flag("-i"), Path("ok")>> PROVE IsIdentity(g)
    OBVIOUS
  <2>1. Len(g) = 2 /\ g[1] = Flag("-i") /\ g[2] = Path("ok")
    OBVIOUS
  <2>2. Flag("-i").kind = "-i" /\ Path("ok").kind = "key" /\ Path("ok").value = "ok"
    BY DEF Flag, Path
  <2> QED BY <2>1, <2>2 DEF IsIdentity
<1>9. g = <<Flag("-p"), Port("ok")>> => IsPort(g)
  <2> SUFFICES ASSUME g = <<Flag("-p"), Port("ok")>> PROVE IsPort(g)
    OBVIOUS
  <2>1. Len(g) = 2 /\ g[1] = Flag("-p") /\ g[2] = Port("ok")
    OBVIOUS
  <2>2. Flag("-p").kind = "-p" /\ Port("ok").kind = "port" /\ Port("ok").value = "ok"
    BY DEF Flag, Port
  <2> QED BY <2>1, <2>2 DEF IsPort
<1>10. ASSUME NEW h, g = <<Destination(h, "ok")>> PROVE IsTarget(g) /\ g[1].host = h
  BY <1>10 DEF IsTarget, Destination
<1> QED BY <1>5, <1>6, <1>7, <1>8, <1>9, <1>10

(* A set of one member.                                                    *)
LEMMA OneMember ==
  ASSUME NEW S, IsFiniteSet(S)
  PROVE  Cardinality(S) = 1 <=> (\E x \in S : TRUE) /\ \A x, y \in S : x = y
<1>1. Cardinality(S) = 1 <=> \E x : S = {x}
  BY FS_Singleton
<1>2. (\E x : S = {x}) <=> (\E x \in S : TRUE) /\ \A x, y \in S : x = y
  <2>1. ASSUME NEW x \in S, \A z, y \in S : z = y PROVE S = {x}
    BY <2>1
  <2> QED BY <2>1
<1> QED BY <1>1, <1>2

(* As many values as arguments: none is taken twice.                       *)
LEMMA DistinctImages ==
  ASSUME NEW S, IsFiniteSet(S), NEW f, f = [x \in S |-> f[x]], NEW T, T = {f[x] : x \in S}
  PROVE  Cardinality(T) = Cardinality(S) <=> \A x, y \in S : f[x] = f[y] => x = y
<1>1. f \in Surjection(S, T)
  BY DEF Surjection
<1>2. Cardinality(T) = Cardinality(S) <=> f \in Injection(S, T)
  BY <1>1, FS_Surjection
<1>3. f \in Injection(S, T) <=> \A x, y \in S : f[x] = f[y] => x = y
  BY <1>1 DEF Surjection, Injection, IsInjective
<1> QED BY <1>2, <1>3

(* Well grouped, said with sets and their sizes as the reference does.     *)
LEMMA AcceptableGroups ==
  ASSUME NEW names, NEW hosts, NEW groups \in Seq(Groups(names, hosts)), NEW allowed,
         \A i \in 1..Len(groups) : groups[i] # <<>>
  PROVE  WellGrouped(groups, allowed) <=> Acceptable(groups, allowed)
<1> DEFINE at == 1..Len(groups)
           identity == {i \in at : groups[i] = <<Flag("-i"), Path("ok")>>}
           port     == {i \in at : groups[i] = <<Flag("-p"), Port("ok")>>}
           target   == {i \in at : \E h \in allowed \ {NoHost} : groups[i] = <<Destination(h, "ok")>>}
           hostless == {i \in at : groups[i] = <<Destination(NoHost, "ok")>>}
           options  == {i \in at : IsOption(groups[i])}
           taken    == {groups[i][2].name : i \in options}
<1>0. Len(groups) \in Nat /\ \A i \in at : groups[i] \in Groups(names, hosts)
  OBVIOUS
<1>1. \A i \in at : /\ i \in identity <=> IsIdentity(groups[i])
                    /\ i \in port <=> IsPort(groups[i])
                    /\ i \in target <=> Named(groups[i]) /\ groups[i][1].host \in allowed
                    /\ i \in hostless <=> IsTarget(groups[i]) /\ ~Named(groups[i])
                    /\ i \in options <=> IsOption(groups[i])
  <2> SUFFICES ASSUME NEW i \in at
               PROVE  /\ i \in identity <=> IsIdentity(groups[i])
                      /\ i \in port <=> IsPort(groups[i])
                      /\ i \in target <=> Named(groups[i]) /\ groups[i][1].host \in allowed
                      /\ i \in hostless <=> IsTarget(groups[i]) /\ ~Named(groups[i])
    OBVIOUS
  <2>1. groups[i] \in Groups(names, hosts)
    BY <1>0
  <2>2. IsTarget(groups[i]) /\ groups[i][1].host \in allowed \ {NoHost} <=>
          \E h \in allowed \ {NoHost} : groups[i] = <<Destination(h, "ok")>>
    BY <2>1, GroupForms
  <2>3. IsTarget(groups[i]) /\ groups[i][1].host \in {NoHost} <=>
          \E h \in {NoHost} : groups[i] = <<Destination(h, "ok")>>
    BY <2>1, GroupForms
  <2>4. /\ IsIdentity(groups[i]) <=> groups[i] = <<Flag("-i"), Path("ok")>>
        /\ IsPort(groups[i]) <=> groups[i] = <<Flag("-p"), Port("ok")>>
    BY <2>1, GroupForms
  <2> QED BY <2>2, <2>3, <2>4 DEF Named
<1>2. \A i \in at : Len(groups[i]) # 0
  <2> SUFFICES ASSUME NEW i \in at, Len(groups[i]) = 0 PROVE FALSE
    OBVIOUS
  <2>1. groups[i] \in Seq(ArgTokens(names, hosts)) /\ groups[i] # <<>>
    BY <1>0 DEF Groups
  <2> QED BY <2>1, EmptySeq
<1>3. Acceptable(groups, allowed) <=>
        /\ at = identity \cup port \cup target \cup hostless \cup options
        /\ Cardinality(identity) = 1 /\ Cardinality(port) = 1 /\ Cardinality(target) = 1
        /\ \A i \in hostless, j \in target : i < j
        /\ Cardinality(taken) = Cardinality(options)
        /\ RequiredOptions \subseteq taken
        /\ MultiplexingOptions \cap taken \in {{}, MultiplexingOptions}
  BY DEF Acceptable
<1>4. /\ identity \subseteq at /\ port \subseteq at /\ target \subseteq at
      /\ hostless \subseteq at /\ options \subseteq at
  OBVIOUS
<1>f. IsFiniteSet(at)
  BY <1>0, FS_Interval
<1>5. taken = OptionNames(groups)
  BY DEF OptionNames
<1>6. Cardinality(taken) = Cardinality(options) <=> NoOptionTwice(groups, Len(groups))
  <2> DEFINE f == [i \in options |-> groups[i][2].name]
  <2>1. IsFiniteSet(options)
    <3> HIDE DEF options, at
    <3> QED BY <1>f, <1>4, FS_Subset
  <2>2. f = [i \in options |-> f[i]] /\ taken = {f[i] : i \in options}
    OBVIOUS
  <2>3. \A i \in options : f[i] = groups[i][2].name
    OBVIOUS
  <2> HIDE DEF f, taken
  <2>4. Cardinality(taken) = Cardinality(options) <=> \A i, j \in options : f[i] = f[j] => i = j
    <3> HIDE DEF options
    <3> QED BY <2>1, <2>2, DistinctImages
  <2> QED BY <2>3, <2>4 DEF NoOptionTwice
<1> HIDE DEF identity, port, target, hostless, options, taken
<1>7. /\ IsFiniteSet(identity) /\ IsFiniteSet(port) /\ IsFiniteSet(target)
  <2> HIDE DEF at
  <2> QED BY <1>f, <1>4, FS_Subset
<1>8. Cardinality(identity) = 1 <=>
        (\E i \in at : IsIdentity(groups[i])) /\ OneIdentity(groups, Len(groups))
  <2>1. Cardinality(identity) = 1 <=> (\E x \in identity : TRUE) /\ \A x, y \in identity : x = y
    BY <1>7, OneMember
  <2> QED BY <1>1, <1>4, <2>1 DEF OneIdentity
<1>9. Cardinality(port) = 1 <=>
        (\E i \in at : IsPort(groups[i])) /\ OnePort(groups, Len(groups))
  <2>1. Cardinality(port) = 1 <=> (\E x \in port : TRUE) /\ \A x, y \in port : x = y
    BY <1>7, OneMember
  <2> QED BY <1>1, <1>4, <2>1 DEF OnePort
<1>10. Cardinality(target) = 1 <=> (\E x \in target : TRUE) /\ \A x, y \in target : x = y
  BY <1>7, OneMember
<1>11. ASSUME WellGrouped(groups, allowed) PROVE Acceptable(groups, allowed)
  <2>1. Uniq(groups, Len(groups))
    BY <1>11 DEF WellGrouped
  <2>2. PICK t \in at : Named(groups[t]) /\ groups[t][1].host \in allowed
    BY <1>11 DEF WellGrouped
  <2>3. \A i, j \in at : Named(groups[i]) /\ IsTarget(groups[j]) => j <= i
    BY <2>1 DEF Uniq, TargetLast
  <2>4. \A i \in at : i \in Int
    BY <1>0
  <2>5. \A i \in at : Named(groups[i]) => i = t
    <3>1. \A i \in at : Named(groups[i]) => i <= t /\ t <= i
      BY <2>2, <2>3 DEF Named
    <3> QED BY <2>4, <3>1
  <2>6. \A i \in at : IsTarget(groups[i]) => i \in target \cup hostless
    BY <1>1, <2>2, <2>5
  <2>7. at = identity \cup port \cup target \cup hostless \cup options
    BY <1>1, <1>2, <1>4, <2>1, <2>6 DEF Uniq, Listed
  <2>8. Cardinality(target) = 1
    BY <1>1, <1>4, <1>10, <2>2, <2>5
  <2>9. ASSUME NEW i \in hostless, NEW j \in target PROVE i < j
    <3>1. i <= j /\ i # j
      BY <1>1, <1>4, <2>3
    <3> QED BY <1>4, <2>4, <3>1
  <2> QED BY <1>3, <1>5, <1>6, <1>8, <1>9, <1>11, <2>1, <2>7, <2>8, <2>9 DEF WellGrouped, Uniq
<1>12. ASSUME Acceptable(groups, allowed) PROVE WellGrouped(groups, allowed)
  <2>1. at = identity \cup port \cup target \cup hostless \cup options
    BY <1>3, <1>12
  <2>2. \A i \in at : Listed(groups[i])
    BY <1>1, <2>1 DEF Listed, Named
  <2>3. \A i \in at : IsTarget(groups[i]) => i \in target \/ i \in hostless
    BY <1>1, <2>1, GroupKinds
  <2>4. (\E x \in target : TRUE) /\ \A x, y \in target : x = y
    BY <1>3, <1>10, <1>12
  <2>5. ASSUME NEW i \in at, NEW j \in at, Named(groups[i]), IsTarget(groups[j]) PROVE j <= i
    <3>1. i \in target
      BY <1>1, <2>3, <2>5 DEF Named
    <3>2. j = i \/ j \in hostless
      BY <2>3, <2>4, <2>5, <3>1
    <3>3. j = i \/ j < i
      BY <1>3, <1>12, <3>1, <3>2
    <3> QED BY <1>0, <3>3
  <2>6. TargetLast(groups, Len(groups))
    BY <2>5 DEF TargetLast
  <2>7. \E i \in at : Named(groups[i]) /\ groups[i][1].host \in allowed
    BY <1>1, <1>4, <2>4
  <2>8. Uniq(groups, Len(groups))
    BY <1>3, <1>6, <1>8, <1>9, <1>12, <2>2, <2>6 DEF Uniq
  <2> QED BY <1>3, <1>5, <1>8, <1>9, <1>12, <2>7, <2>8 DEF WellGrouped
<1> QED BY <1>11, <1>12

-----------------------------------------------------------------------------
(* An accepted list names a host in one destination only, so that          *)
(* extractTargetHost finds the authorized one.                             *)
LEMMA TargetExtracted ==
  ASSUME NEW names, NEW hosts, NoHost \in hosts, NEW args \in Seq(ArgTokens(names, hosts)),
         NEW allowed, ValidateSshArgs(args, allowed)
  PROVE  ExtractTargetHost(args) \in allowed
<1> DEFINE n == Len(args)
<1>1. \A i \in 1..n : args[i] \in ArgTokens(names, hosts)
  OBVIOUS
<1>2. args \in Seq(Tokens(names, hosts))
  <2>1. ArgTokens(names, hosts) \subseteq Tokens(names, hosts)
    BY DEF ArgTokens
  <2> QED BY <2>1
<1>3. WellFormed(args, allowed)
  BY <1>2, ValidatorSound
<1>4. PICK t \in 1..n : /\ NamesHost(args[t]) /\ args[t].host \in allowed
                        /\ \A j \in 1..n : args[j].kind = "destination" /\ j # t =>
                             args[j].host = NoHost
  BY <1>3 DEF WellFormed
<1>5. args[t].host # NoHost
  BY <1>4 DEF NamesHost
<1>6. ASSUME NEW j \in 1..n, args[j].host # NoHost PROVE j = t
  <2>1. args[j].kind = "option" \/ args[j].kind = "destination"
    BY <1>1, <1>6 DEF ArgTokens
  <2>2. Allowed(args[j])
    BY <1>3 DEF WellFormed
  <2>3. args[j].kind # "option"
    BY <1>1, <1>6, <2>2 DEF Allowed, ArgTokens, FlagKinds
  <2> QED BY <1>4, <1>6, <2>1, <2>3
<1> DEFINE named == {i \in 1..n : args[i].host # NoHost}
<1>7. named = {t}
  BY <1>4, <1>5, <1>6
<1>8. ExtractTargetHost(args) =
        IF named = {} THEN NoHost
        ELSE args[CHOOSE i \in named : \A j \in named : i <= j].host
  BY DEF ExtractTargetHost
<1> HIDE DEF named
<1>9. (CHOOSE i \in named : \A j \in named : i <= j) = t
  BY <1>7
<1> QED BY <1>4, <1>7, <1>8, <1>9

-----------------------------------------------------------------------------
(* The arguments sanitizeSshArgs leaves out, and the rest, step by step.   *)
Multiplexes(args, i) == i \in 1..Len(args) /\ args[i].name \in MultiplexingOptions
Dropped(args, i) ==
  \/ args[i].kind = "-o" /\ Multiplexes(args, i + 1)
  \/ Multiplexes(args, i) /\ i > 1 /\ args[i - 1].kind = "-o"

IsKept(h, args, n) ==
  h = [i \in 0..n |-> IF i = 0 THEN <<>>
                      ELSE IF Dropped(args, i) THEN h[i - 1] ELSE Append(h[i - 1], args[i])]

(* The recursion of sanitizeSshArgs has a solution.                        *)
LEMMA KeptExists ==
  ASSUME NEW n \in Nat, NEW args
  PROVE  \E h : IsKept(h, args, n)
<1> DEFINE Good == {k \in Nat : \E h : IsKept(h, args, k)}
<1>1. 0 \in Good
  <2>1. IsKept([i \in 0..0 |-> <<>>], args, 0)
    BY DEF IsKept
  <2> QED BY <2>1
<1>2. ASSUME NEW k \in 0..(n - 1), k \in Good PROVE k + 1 \in Good
  <2>1. PICK f : IsKept(f, args, k)
    BY <1>2
  <2> DEFINE val(i) == IF i = 0 THEN <<>>
                       ELSE IF Dropped(args, i) THEN f[i - 1] ELSE Append(f[i - 1], args[i])
             h == [i \in 0..(k + 1) |-> val(i)]
  <2>2. \A i \in 0..k : f[i] = val(i)
    BY <2>1 DEF IsKept
  <2> HIDE DEF val
  <2>3. \A i \in 1..(k + 1) : h[i - 1] = f[i - 1]
    BY <2>2
  <2>4. \A i \in 0..(k + 1) :
          val(i) = IF i = 0 THEN <<>>
                   ELSE IF Dropped(args, i) THEN h[i - 1] ELSE Append(h[i - 1], args[i])
    <3> SUFFICES ASSUME NEW i \in 0..(k + 1), i # 0 PROVE h[i - 1] = f[i - 1]
      BY DEF val
    <3> HIDE DEF h
    <3> QED BY <2>3
  <2>5. IsKept(h, args, k + 1)
    BY <2>4 DEF IsKept
  <2> QED BY <2>5
<1> HIDE DEF Good
<1>3. n \in Good
  <2>1. \A k \in 0..n : k \in Good
    BY <1>1, <1>2, IntervalInduction
  <2> QED BY <2>1
<1> QED BY <1>3 DEF Good

(* sanitizeSshArgs drops an argument or appends it.                        *)
LEMMA KeptFacts ==
  ASSUME NEW args, Len(args) \in Nat
  PROVE  \E h : /\ h[0] = <<>>
                /\ \A i \in 1..Len(args) :
                     /\ Dropped(args, i) => h[i] = h[i - 1]
                     /\ ~Dropped(args, i) => h[i] = Append(h[i - 1], args[i])
                /\ SanitizeSshArgs(args) = h[Len(args)]
<1> DEFINE n == Len(args)
           h == CHOOSE f : IsKept(f, args, n)
<1>1. IsKept(h, args, n)
  BY KeptExists
<1>2. SanitizeSshArgs(args) = h[n]
  BY DEF SanitizeSshArgs, IsKept, Dropped, Multiplexes
<1> HIDE DEF h, n
<1>0. n \in Nat
  BY DEF n
<1> DEFINE val(i) == IF i = 0 THEN <<>>
                     ELSE IF Dropped(args, i) THEN h[i - 1] ELSE Append(h[i - 1], args[i])
<1>3. h = [i \in 0..n |-> val(i)]
  BY <1>1 DEF IsKept
<1> HIDE DEF val
<1>4. h[0] = val(0) /\ \A i \in 1..n : i # 0 /\ h[i] = val(i)
  BY <1>0, <1>3
<1>5. h[0] = <<>>
  BY <1>4, Zenon DEF val
<1>6. ASSUME NEW i \in 1..n
      PROVE  /\ Dropped(args, i) => h[i] = h[i - 1]
             /\ ~Dropped(args, i) => h[i] = Append(h[i - 1], args[i])
  BY <1>4, Zenon DEF val
<1> QED BY <1>2, <1>5, <1>6 DEF n

-----------------------------------------------------------------------------
(* The two tokens of a group, appended.                                    *)
LEMMA AppendGroup ==
  ASSUME NEW T, NEW s \in Seq(T), NEW g \in Seq(T)
  PROVE  /\ Len(g) = 0 => s \o g = s
         /\ Len(g) = 1 => s \o g = Append(s, g[1])
         /\ Len(g) = 2 => s \o g = Append(Append(s, g[1]), g[2])
<1>1. CASE Len(g) = 0
  <2>1. g = <<>>
    BY <1>1, EmptySeq
  <2> QED BY <1>1, <2>1, ConcatEmptySeq
<1>2. ASSUME Len(g) = 1 PROVE s \o g = Append(s, g[1])
  <2>1. g = <<g[1]>> /\ g[1] \in T
    <3> DEFINE e == g[1]
    <3>1. e \in T
      <4>1. 1 \in 1..Len(g)
        BY <1>2
      <4> QED BY <4>1, ElementOfSeq
    <3> HIDE DEF e
    <3>2. <<e>> \in Seq(T) /\ Len(<<e>>) = 1 /\ <<e>>[1] = e
      BY <3>1
    <3>3. \A i \in 1..Len(g) : g[i] = <<e>>[i]
      BY <1>2, <3>2 DEF e
    <3>4. g = <<e>>
      BY <1>2, <3>2, <3>3, SeqEqual
    <3> QED BY <3>1, <3>4 DEF e
  <2>2. Append(s, g[1]) = s \o <<g[1]>>
    BY <2>1, AppendIsConcat
  <2> QED BY <2>1, <2>2
<1>3. ASSUME Len(g) = 2 PROVE s \o g = Append(Append(s, g[1]), g[2])
  <2>1. g = <<g[1]>> \o <<g[2]>> /\ g[1] \in T /\ g[2] \in T
    <3> DEFINE e == g[1]
               f == g[2]
    <3>1. e \in T /\ f \in T
      <4>1. 1 \in 1..Len(g) /\ 2 \in 1..Len(g)
        BY <1>3
      <4> QED BY <4>1, ElementOfSeq
    <3> HIDE DEF e, f
    <3> DEFINE q == <<e>> \o <<f>>
    <3>2. q \in Seq(T) /\ Len(q) = 2 /\ q[1] = e /\ q[2] = f
      BY <3>1
    <3> HIDE DEF q
    <3>3. \A i \in 1..Len(g) : g[i] = q[i]
      BY <1>3, <3>2 DEF e, f
    <3>4. g = q
      BY <1>3, <3>2, <3>3, SeqEqual
    <3> QED BY <3>1, <3>4 DEF e, f, q
  <2> DEFINE a == <<g[1]>>
             b == <<g[2]>>
  <2>2. a \in Seq(T) /\ b \in Seq(T)
    BY <2>1
  <2>3. Append(s, g[1]) = s \o a
    BY <2>1, AppendIsConcat
  <2>4. s \o a \in Seq(T)
    <3> HIDE DEF a
    <3> QED BY <2>2, ConcatProperties
  <2>5. Append(s \o a, g[2]) = (s \o a) \o b
    BY <2>1, <2>4, AppendIsConcat
  <2>6. (s \o a) \o b = s \o (a \o b)
    <3> HIDE DEF a, b
    <3> QED BY <2>2, ConcatAssociative
  <2> QED BY <2>1, <2>3, <2>5, <2>6
<1> QED BY <1>1, <1>2, <1>3

-----------------------------------------------------------------------------
(* Without its multiplexing options a well-grouped list is well grouped.   *)
LEMMA UnmultiplexedGroups ==
  ASSUME NEW names, NEW hosts, NEW groups \in Seq(Groups(names, hosts)), NEW allowed,
         WellGrouped(groups, allowed)
  PROVE  LET rest == Unmultiplexed(groups) IN
         /\ rest \in Seq(Groups(names, hosts)) /\ Len(rest) = Len(groups)
         /\ WellGrouped(rest, allowed)
<1> DEFINE rest == Unmultiplexed(groups)
           n == Len(groups)
           G == Groups(names, hosts)
<1>0. n \in Nat /\ \A i \in 1..n : groups[i] \in G
  OBVIOUS
<1>1. <<>> \in G
  <2>1. <<>> \in Seq(ArgTokens(names, hosts)) /\ Len(<<>>) = 0
    BY EmptySeq
  <2> QED BY <2>1 DEF Groups
<1> HIDE DEF G
<1>2. /\ rest = [i \in 1..n |-> rest[i]]
      /\ \A i \in 1..n : rest[i] = IF IsMultiplexing(groups[i]) THEN <<>> ELSE groups[i]
  BY DEF Unmultiplexed
<1> HIDE DEF rest, n
<1>3. rest \in Seq(G) /\ Len(rest) = n
  <2>1. \A i \in 1..n : rest[i] \in G
    BY <1>0, <1>1, <1>2
  <2>2. rest \in [1..n -> G]
    BY <1>2, <2>1
  <2> QED BY <1>0, <2>2, SeqDef
<1>4. ~IsIdentity(<<>>) /\ ~IsPort(<<>>) /\ ~IsOption(<<>>) /\ ~IsTarget(<<>>) /\ Listed(<<>>)
  BY DEF IsIdentity, IsPort, IsOption, IsTarget, Listed
<1>5. \A i \in 1..n : /\ IsMultiplexing(groups[i]) => rest[i] = <<>> /\ IsOption(groups[i])
                      /\ ~IsMultiplexing(groups[i]) => rest[i] = groups[i]
  BY <1>2 DEF IsMultiplexing
<1>6. \A i \in 1..n : /\ IsIdentity(rest[i]) <=> IsIdentity(groups[i])
                      /\ IsPort(rest[i]) <=> IsPort(groups[i])
                      /\ IsTarget(rest[i]) <=> IsTarget(groups[i])
                      /\ IsTarget(groups[i]) => rest[i] = groups[i]
                      /\ Named(rest[i]) <=> Named(groups[i])
                      /\ IsOption(rest[i]) <=> IsOption(groups[i]) /\ ~IsMultiplexing(groups[i])
                      /\ IsOption(rest[i]) => rest[i] = groups[i]
                      /\ Listed(groups[i]) => Listed(rest[i])
  BY <1>4, <1>5, GroupKinds DEF Named
<1>7. Uniq(groups, n)
  BY DEF WellGrouped, n
<1>8. Uniq(rest, n)
  BY <1>6, <1>7 DEF Uniq, OneIdentity, OnePort, TargetLast, NoOptionTwice
<1>9. OptionNames(rest) = OptionNames(groups) \ MultiplexingOptions
  <2>1. OptionNames(rest) = {rest[i][2].name : i \in {j \in 1..n : IsOption(rest[j])}}
    BY <1>3 DEF OptionNames
  <2>2. OptionNames(groups) = {groups[i][2].name : i \in {j \in 1..n : IsOption(groups[j])}}
    BY DEF OptionNames, n
  <2>3. \A i \in 1..n : IsOption(groups[i]) =>
          (IsMultiplexing(groups[i]) <=> groups[i][2].name \in MultiplexingOptions)
    BY DEF IsMultiplexing
  <2> QED BY <1>6, <2>1, <2>2, <2>3
<1>10. /\ RequiredOptions \subseteq OptionNames(rest)
       /\ MultiplexingOptions \cap OptionNames(rest) = {}
  BY <1>9, SshAssumption DEF WellGrouped
<1>11. /\ \E i \in 1..n : IsIdentity(rest[i])
       /\ \E i \in 1..n : IsPort(rest[i])
       /\ \E i \in 1..n : Named(rest[i]) /\ rest[i][1].host \in allowed
  BY <1>6 DEF WellGrouped, n, Named
<1>12. WellGrouped(rest, allowed)
  BY <1>3, <1>8, <1>10, <1>11 DEF WellGrouped
<1> QED BY <1>3, <1>12 DEF rest, n, G

(* What sanitizeSshArgs drops of a group, which starts after the b-th argument. *)
LEMMA GroupDropped ==
  ASSUME NEW names, NEW hosts, NEW g \in Groups(names, hosts), Listed(g), NEW args,
         Len(args) \in Nat, NEW b \in Nat, b + Len(g) <= Len(args),
         \A j \in 1..Len(g) : args[b + j] = g[j]
  PROVE  /\ IsMultiplexing(g) => \A j \in 1..Len(g) : Dropped(args, b + j)
         /\ ~IsMultiplexing(g) => \A j \in 1..Len(g) : ~Dropped(args, b + j)
<1> DEFINE n == Len(g)
           l == Len(args)
           T == ArgTokens(names, hosts)
<1>0. n = 0 \/ n = 1 \/ n = 2
  BY DEF Groups
<1>1. \A j \in 1..n : g[j] \in T
  BY DEF Groups
<1>2. \A j \in 1..n : g[j].kind # "option" => g[j].name = ""
  BY <1>1 DEF ArgTokens
<1>3. "" \notin MultiplexingOptions
  BY SshAssumption
<1>4. CASE n = 0
  <2>1. 1..n = {}
    BY <1>4
  <2> QED BY <2>1
<1>5. CASE n = 1
  <2>1. g[1].kind = "destination" /\ ~IsMultiplexing(g)
    BY <1>5 DEF Listed, IsIdentity, IsPort, IsOption, IsTarget, IsMultiplexing
  <2>2. 1..n = {1} /\ args[b + 1] = g[1] /\ g[1].name = ""
    <3> HIDE DEF n
    <3>1. 1..n = {1} /\ 1 \in 1..n
      BY <1>5
    <3>2. args[b + 1] = g[1]
      BY <3>1 DEF n
    <3> QED BY <1>2, <2>1, <3>1, <3>2
  <2>3. ~Dropped(args, b + 1)
    BY <1>3, <2>1, <2>2 DEF Dropped, Multiplexes
  <2> QED BY <2>1, <2>2, <2>3
<1>6. CASE n = 2
  <2>1. IsIdentity(g) \/ IsPort(g) \/ IsOption(g)
    BY <1>6 DEF Listed, IsTarget
  <2> HIDE DEF n
  <2>2. 1..n = {1, 2} /\ args[b + 1] = g[1] /\ args[b + 2] = g[2]
    BY <1>6 DEF n
  <2>3. /\ b + 1 \in 1..l /\ b + 2 \in 1..l /\ (b + 1) + 1 = b + 2 /\ (b + 2) - 1 = b + 1
        /\ b + 2 > 1
    BY <1>6 DEF n
  <2> HIDE DEF l
  <2>4. Multiplexes(args, b + 1) <=> g[1].name \in MultiplexingOptions
    BY <2>2, <2>3 DEF Multiplexes, l
  <2>5. Multiplexes(args, b + 2) <=> g[2].name \in MultiplexingOptions
    BY <2>2, <2>3 DEF Multiplexes, l
  <2>6. g[1].kind \in FlagKinds /\ g[2].kind \notin FlagKinds
    BY <2>1 DEF IsIdentity, IsPort, IsOption, FlagKinds, IsAllowedSshOption
  <2>7. g[1].name = "" /\ ~Multiplexes(args, b + 1)
    <3>1. 1 \in 1..n
      BY <2>2
    <3> QED BY <1>2, <1>3, <2>4, <2>6, <3>1 DEF FlagKinds
  <2>8. Dropped(args, b + 1) <=> g[1].kind = "-o" /\ g[2].name \in MultiplexingOptions
    BY <2>2, <2>3, <2>5, <2>7 DEF Dropped
  <2>9. Dropped(args, b + 2) <=> g[1].kind = "-o" /\ g[2].name \in MultiplexingOptions
    BY <2>2, <2>3, <2>5, <2>6 DEF Dropped, FlagKinds
  <2>10. IsMultiplexing(g) <=> g[1].kind = "-o" /\ g[2].name \in MultiplexingOptions
    BY <2>1 DEF IsMultiplexing, IsOption, IsIdentity, IsPort
  <2> QED BY <2>2, <2>8, <2>9, <2>10 DEF n
<1> QED BY <1>0, <1>4, <1>5, <1>6

(* sanitizeSshArgs takes the multiplexing groups out of a well-grouped list *)
(* and nothing else.                                                       *)
LEMMA SanitizedGroups ==
  ASSUME NEW names, NEW hosts, NEW groups \in Seq(Groups(names, hosts)), NEW allowed,
         WellGrouped(groups, allowed)
  PROVE  SanitizeSshArgs(Flatten(groups)) = Flatten(Unmultiplexed(groups))
<1> DEFINE T == ArgTokens(names, hosts)
           G == Groups(names, hosts)
           n == Len(groups)
           rest == Unmultiplexed(groups)
<1>0. n \in Nat /\ n \in 0..n /\ \A k \in 1..n : groups[k] \in G /\ Listed(groups[k])
  BY DEF WellGrouped, Uniq
<1>1. rest \in Seq(G) /\ Len(rest) = n
  BY UnmultiplexedGroups
<1>2. G \subseteq Seq(T)
  BY DEF Groups
<1>r. \A k \in 1..n : rest[k] = IF IsMultiplexing(groups[k]) THEN <<>> ELSE groups[k]
  BY DEF Unmultiplexed
<1> HIDE DEF T, rest
<1>3. groups \in Seq(Seq(T)) /\ rest \in Seq(Seq(T))
  <2>1. groups \in Seq(G)
    OBVIOUS
  <2> HIDE DEF G, n
  <2>2. groups \in Seq(Seq(T))
    BY <1>2, <2>1
  <2>3. rest \in Seq(Seq(T))
    BY <1>1, <1>2
  <2> QED BY <2>2, <2>3
<1>4. PICK u : Flat(u, groups, T) /\ Flatten(groups) = u[n]
  BY <1>3, FlattenFacts
<1>5. PICK v : Flat(v, rest, T) /\ Flatten(rest) = v[n]
  BY <1>1, <1>3, FlattenFacts
<1> DEFINE args == u[n]
<1>6. args \in Seq(T)
  BY <1>0, <1>4 DEF Flat
<1>7. Len(args) \in Nat
  <2> HIDE DEF args
  <2> QED BY <1>6, LenProperties
<1> HIDE DEF args
<1>8. PICK h : /\ h[0] = <<>>
               /\ \A i \in 1..Len(args) :
                    /\ Dropped(args, i) => h[i] = h[i - 1]
                    /\ ~Dropped(args, i) => h[i] = Append(h[i - 1], args[i])
               /\ SanitizeSshArgs(args) = h[Len(args)]
  BY <1>7, KeptFacts
<1> DEFINE Good == {k \in 0..n : h[Len(u[k])] = v[k]}
<1>9. 0 \in Good
  <2>1. u[0] = <<>> /\ v[0] = <<>>
    BY <1>4, <1>5 DEF Flat
  <2>2. Len(u[0]) = 0
    BY <2>1
  <2>3. h[Len(u[0])] = v[0]
    BY <1>8, <2>1, <2>2
  <2> QED BY <1>0, <2>3
<1>10. ASSUME NEW m \in 0..(n - 1), m \in Good PROVE m + 1 \in Good
  <2> DEFINE k == m + 1
             g == groups[k]
             c == Len(g)
             b == Len(u[m])
             s == h[b]
  <2>1. k \in 1..n /\ k \in 0..n /\ k - 1 = m /\ m \in 0..n
    BY <1>0
  <2> HIDE DEF k
  <2>2. GroupAt(u, groups, k)
    BY <1>3, <1>4, <2>1, FlatAt
  <2>3. b \in Nat /\ Len(u[k]) = b + c /\ b + c <= Len(args)
    BY <2>1, <2>2 DEF GroupAt, args
  <2>4. \A j \in 1..c : args[b + j] = g[j]
    BY <2>1, <2>2 DEF GroupAt, args
  <2>5. v[k] = v[m] \o rest[k] /\ v[m] \in Seq(T)
    BY <1>1, <1>5, <2>1 DEF Flat
  <2>6. s = v[m]
    BY <1>10
  <2>7. g \in Groups(names, hosts) /\ Listed(g) /\ g \in Seq(T)
    BY <1>0, <1>2, <2>1
  <2>8. c = 0 \/ c = 1 \/ c = 2
    BY <2>7 DEF Groups
  <2>9. rest[k] = IF IsMultiplexing(g) THEN <<>> ELSE g
    BY <1>r, <2>1
  <2> HIDE DEF g, b, s
  <2>10. /\ IsMultiplexing(g) => \A j \in 1..c : Dropped(args, b + j)
         /\ ~IsMultiplexing(g) => \A j \in 1..c : ~Dropped(args, b + j)
    BY <1>7, <2>3, <2>4, <2>7, GroupDropped
  <2>11. h[b + c] = v[k]
    <3>1. CASE IsMultiplexing(g)
      <4>1. c = 2
        BY <3>1 DEF IsMultiplexing, IsOption
      <4> HIDE DEF c
      <4>2. /\ b + 1 \in 1..Len(args) /\ b + 2 \in 1..Len(args)
            /\ (b + 1) - 1 = b /\ (b + 2) - 1 = b + 1 /\ b + c = b + 2
        BY <1>7, <2>3, <4>1
      <4>3. Dropped(args, b + 1) /\ Dropped(args, b + 2)
        BY <2>10, <3>1, <4>1
      <4>4. h[b + 2] = h[b]
        BY <1>8, <4>2, <4>3
      <4>5. v[k] = v[m]
        BY <2>5, <2>9, <3>1, ConcatEmptySeq
      <4> QED BY <2>6, <4>2, <4>4, <4>5 DEF s
    <3>2. CASE ~IsMultiplexing(g)
      <4>1. v[k] = s \o g /\ s \in Seq(T)
        BY <2>5, <2>6, <2>9, <3>2
      <4>2. /\ Len(g) = 0 => s \o g = s
            /\ Len(g) = 1 => s \o g = Append(s, g[1])
            /\ Len(g) = 2 => s \o g = Append(Append(s, g[1]), g[2])
        BY <2>7, <4>1, AppendGroup
      <4>3. \A j \in 1..c : ~Dropped(args, b + j)
        BY <2>10, <3>2
      <4>4. CASE c = 0
        <5>1. b + c = b
          BY <2>3, <4>4
        <5> QED BY <4>1, <4>2, <4>4, <5>1 DEF s
      <4>5. CASE c = 1
        <5>0. v[k] = Append(s, g[1])
          BY <4>1, <4>2, <4>5
        <5> HIDE DEF c
        <5>1. /\ b + 1 \in 1..Len(args) /\ (b + 1) - 1 = b /\ b + c = b + 1
              /\ args[b + 1] = g[1] /\ ~Dropped(args, b + 1)
          BY <1>7, <2>3, <2>4, <4>3, <4>5
        <5>2. h[b + 1] = Append(h[b], g[1])
          BY <1>8, <5>1
        <5> QED BY <5>0, <5>1, <5>2 DEF s
      <4>6. CASE c = 2
        <5>0. v[k] = Append(Append(s, g[1]), g[2])
          BY <4>1, <4>2, <4>6
        <5> HIDE DEF c
        <5>1. /\ b + 1 \in 1..Len(args) /\ (b + 1) - 1 = b /\ b + c = b + 2
              /\ args[b + 1] = g[1] /\ ~Dropped(args, b + 1)
              /\ b + 2 \in 1..Len(args) /\ (b + 2) - 1 = b + 1
              /\ args[b + 2] = g[2] /\ ~Dropped(args, b + 2)
          BY <1>7, <2>3, <2>4, <4>3, <4>6
        <5>2. h[b + 1] = Append(h[b], g[1])
          BY <1>8, <5>1
        <5>3. h[b + 2] = Append(h[b + 1], g[2])
          BY <1>8, <5>1
        <5> QED BY <5>0, <5>1, <5>2, <5>3 DEF s
      <4> QED BY <2>8, <4>4, <4>5, <4>6
    <3> QED BY <3>1, <3>2
  <2> QED BY <2>1, <2>3, <2>11 DEF k
<1> HIDE DEF Good
<1>11. n \in Good
  <2>1. \A k \in 0..n : k \in Good
    <3>1. \A k \in 0..(n - 1) : k \in Good => k + 1 \in Good
      BY <1>10
    <3> QED BY <1>0, <1>9, <3>1, IntervalInduction
  <2> QED BY <1>0, <2>1
<1>12. h[Len(args)] = v[n]
  BY <1>11 DEF Good, args
<1> QED BY <1>4, <1>5, <1>8, <1>12 DEF args, rest

-----------------------------------------------------------------------------
(* The argument lists that are compared: groups with something in them.    *)
ArgLists(names, hosts) == Seq(Groups(names, hosts) \ {<<>>})

(* They are lists of groups.                                               *)
LEMMA ListedGroups ==
  ASSUME NEW names, NEW hosts, NEW groups \in ArgLists(names, hosts)
  PROVE  /\ groups \in Seq(Groups(names, hosts))
         /\ \A i \in 1..Len(groups) : groups[i] # <<>>
<1> DEFINE G == Groups(names, hosts)
<1>1. groups \in Seq(G \ {<<>>})
  BY DEF ArgLists
<1> HIDE DEF G
<1>2. groups \in Seq(G) /\ \A i \in 1..Len(groups) : groups[i] \in G \ {<<>>}
  BY <1>1, ElementOfSeq, SeqDef
<1> QED BY <1>2 DEF G

(* validateSshArgs accepts exactly the acceptable lists: for any number of *)
(* groups in any order, with wrong ones anywhere, and any authorized hosts. *)
THEOREM AcceptsExactly ==
  ASSUME NEW names, NEW hosts, NoHost \in hosts, NEW groups \in ArgLists(names, hosts),
         NEW allowed
  PROVE  ValidateSshArgs(Flatten(groups), allowed) <=> Acceptable(groups, allowed)
<1>1. /\ groups \in Seq(Groups(names, hosts))
      /\ \A i \in 1..Len(groups) : groups[i] # <<>>
  BY ListedGroups
<1>2. ValidateSshArgs(Flatten(groups), allowed) <=> WellGrouped(groups, allowed)
  BY <1>1, ValidatorOfGroups
<1>3. WellGrouped(groups, allowed) <=> Acceptable(groups, allowed)
  BY <1>1, AcceptableGroups
<1> QED BY <1>2, <1>3

(* Of an accepted list extractTargetHost names an authorized host, whatever *)
(* destinations without a host stand before the one that names it, and     *)
(* what sanitizeSshArgs leaves, the list without its multiplexing options, *)
(* would be accepted again: nothing that was required is lost on the way   *)
(* to the spawn.                                                           *)
THEOREM SpawnsWhatIsChecked ==
  ASSUME NEW names, NEW hosts, NoHost \in hosts, NEW groups \in ArgLists(names, hosts),
         NEW allowed, ValidateSshArgs(Flatten(groups), allowed)
  PROVE  /\ ExtractTargetHost(Flatten(groups)) \in allowed
         /\ SanitizeSshArgs(Flatten(groups)) = Flatten(Unmultiplexed(groups))
         /\ ValidateSshArgs(SanitizeSshArgs(Flatten(groups)), allowed)
<1> DEFINE T == ArgTokens(names, hosts)
           args == Flatten(groups)
           rest == Unmultiplexed(groups)
<1>1. groups \in Seq(Groups(names, hosts))
  BY ListedGroups
<1>2. WellGrouped(groups, allowed)
  BY <1>1, ValidatorOfGroups
<1>3. rest \in Seq(Groups(names, hosts)) /\ WellGrouped(rest, allowed)
  BY <1>1, <1>2, UnmultiplexedGroups
<1>4. SanitizeSshArgs(args) = Flatten(rest)
  BY <1>1, <1>2, SanitizedGroups
<1> HIDE DEF rest
<1>5. ValidateSshArgs(Flatten(rest), allowed)
  BY <1>3, ValidatorOfGroups
<1>6. args \in Seq(T)
  <2>1. Groups(names, hosts) \subseteq Seq(T)
    BY DEF Groups
  <2> HIDE DEF T
  <2>2. groups \in Seq(Seq(T))
    BY <1>1, <2>1
  <2>3. PICK u : Flat(u, groups, T) /\ Flatten(groups) = u[Len(groups)]
    BY <2>2, FlattenFacts
  <2>4. Len(groups) \in 0..Len(groups)
    BY <2>2, LenProperties
  <2> QED BY <2>3, <2>4 DEF Flat
<1> HIDE DEF args
<1>7. ExtractTargetHost(args) \in allowed
  BY <1>6, TargetExtracted DEF args
<1> QED BY <1>4, <1>5, <1>7 DEF args, rest

(* The two together, as the run checks them: validateSshArgs agrees with   *)
(* the reference on every list, and of an accepted command                 *)
(* extractTargetHost and sanitizeSshArgs make the same.                    *)
THEOREM ArgumentsAgree ==
  ASSUME NEW CONSTANT names, NEW CONSTANT hosts, NoHost \in hosts,
         Inputs \subseteq ArgLists(names, hosts)
  PROVE  Spec => []SshArgsAgree
<1>1. ValidatorExact
  BY AcceptsExactly DEF ValidatorExact
<1>2. SpawnedAsChecked
  <2> SUFFICES ASSUME NEW groups \in Inputs, ValidateSshArgs(Flatten(groups), {"h1"})
               PROVE  /\ ExtractTargetHost(Flatten(groups)) = "h1"
                      /\ SanitizeSshArgs(Flatten(groups)) = Flatten(Unmultiplexed(groups))
                      /\ ValidateSshArgs(SanitizeSshArgs(Flatten(groups)), {"h1"})
    BY DEF SpawnedAsChecked
  <2>1. groups \in ArgLists(names, hosts)
    OBVIOUS
  <2>2. ExtractTargetHost(Flatten(groups)) \in {"h1"}
    BY <2>1, SpawnsWhatIsChecked
  <2>3. /\ SanitizeSshArgs(Flatten(groups)) = Flatten(Unmultiplexed(groups))
        /\ ValidateSshArgs(SanitizeSshArgs(Flatten(groups)), {"h1"})
    BY <2>1, SpawnsWhatIsChecked
  <2> QED BY <2>2, <2>3
<1>3. SshArgsAgree
  BY <1>1, <1>2 DEF SshArgsAgree
<1> QED BY <1>3, PTL
=============================================================================
