---------------------------- MODULE TerminalSlot ----------------------------
(***************************************************************************)
(* What a terminal session promises: one terminal at a time, and a command *)
(* that was sent once is started at most once.                             *)
(***************************************************************************)
CONSTANT Numbers  \* the commands of the session, in the order they were sent

VARIABLES
  running,  \* the terminals that are alive
  started   \* the commands whose terminal was ever started

Init == running = {} /\ started = {}

Start(n) ==
  /\ running = {} /\ n \notin started
  /\ running' = {n}
  /\ started' = started \cup {n}

Finish ==
  /\ running # {} /\ running' = {}
  /\ UNCHANGED started

Next == (\E n \in Numbers : Start(n)) \/ Finish

Spec == Init /\ [][Next]_<<running, started>>
=============================================================================
