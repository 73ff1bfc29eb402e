------------------------------ MODULE SshArgs -------------------------------
(***************************************************************************)
(* What the terminal server does with the arguments of an ssh command      *)
(* before it spawns one: docker/coolify-realtime/terminal-utils.js.        *)
(*                                                                         *)
(* An argument is a token that has been through the quote handling of      *)
(* extractSshArgs; a host has been normalised.  A token keeps what the     *)
(* code's regular expressions tell apart: its kind, the name of an option, *)
(* whether its value is one the code allows, and the host it names if it   *)
(* reads like user@host.  A destination names none when its host part      *)
(* looks like the path of a key, which extractTargetHost skips.            *)
(***************************************************************************)
EXTENDS Integers, Sequences, FiniteSets

CONSTANTS
  RequiredOptions,      \* REQUIRED_SSH_OPTIONS
  MultiplexingOptions,  \* ControlMaster, ControlPath, ControlPersist
  NoHost,               \* extractTargetHost() found none
  Inputs                \* argument lists to compare with the reference

RequestTTY == "RequestTTY"

ASSUME SshAssumption ==
  /\ RequiredOptions \cap MultiplexingOptions = {}
  /\ "" \notin MultiplexingOptions /\ RequestTTY \notin MultiplexingOptions

Flag(f) == [kind |-> f, name |-> "", value |-> "ok", host |-> NoHost]
Option(n, v, h) == [kind |-> "option", name |-> n, value |-> v, host |-> h]
Path(v) == [kind |-> "key", name |-> "", value |-> v, host |-> NoHost]
Port(v) == [kind |-> "port", name |-> "", value |-> v, host |-> NoHost]
Destination(h, v) == [kind |-> "destination", name |-> "", value |-> v, host |-> h]
Word == [kind |-> "word", name |-> "", value |-> "ok", host |-> NoHost]

(* extractSshArgs: a terminal is always requested.                         *)
RewriteTTY(a) ==
  IF a.kind = "option" /\ a.name = RequestTTY /\ a.value = "no"
    THEN [a EXCEPT !.value = "ok"] ELSE a

ExtractSshArgs(tokens) ==
  LET rewritten == [i \in 1..Len(tokens) |-> RewriteTTY(tokens[i])]
  IN  IF \E i \in 1..Len(tokens) : tokens[i].name = RequestTTY
        THEN rewritten
        ELSE rewritten \o <<Flag("-o"), Option(RequestTTY, "ok", NoHost)>>

(* extractTargetHost: the first argument that reads like user@host.        *)
ExtractTargetHost(args) ==
  LET named == {i \in 1..Len(args) : args[i].host # NoHost}
  IN  IF named = {} THEN NoHost
      ELSE args[CHOOSE i \in named : \A j \in named : i <= j].host

IsAuthorizedTargetHost(h, hosts) == h # NoHost /\ h \in hosts

IsAllowedSshOption(a) == a.kind = "option" /\ a.value \in {"ok", "no"}

-----------------------------------------------------------------------------
(* validateSshArgs reads the list once; `want' is the flag whose value     *)
(* comes next.                                                             *)
ScanStart ==
  [ok |-> TRUE, want |-> "", hasIdentityFile |-> FALSE, hasPort |-> FALSE,
   seen |-> {}, target |-> NoHost]

\* Mutant: an option may be repeated.
ScanStepRepeats(s, a) ==
  CASE s.want = "-i" ->
         [s EXCEPT !.want = "", !.hasIdentityFile = TRUE,
                   !.ok = @ /\ ~s.hasIdentityFile /\ a.kind = "key" /\ a.value = "ok"]
    [] s.want = "-p" ->
         [s EXCEPT !.want = "", !.hasPort = TRUE,
                   !.ok = @ /\ ~s.hasPort /\ a.kind = "port" /\ a.value = "ok"]
    [] s.want = "-o" ->
         [s EXCEPT !.want = "", !.seen = @ \cup {a.name}, !.ok = @ /\ IsAllowedSshOption(a)]
    [] s.want = "" /\ a.kind \in {"-i", "-p", "-o"} ->
         [s EXCEPT !.want = a.kind]
    [] OTHER ->
         [s EXCEPT !.target = a.host,
                   !.ok = @ /\ a.kind = "destination" /\ a.value = "ok" /\ s.target = NoHost]

ScanStep(s, a) ==
  CASE s.want = "-i" ->
         [s EXCEPT !.want = "", !.hasIdentityFile = TRUE,
                   !.ok = @ /\ ~s.hasIdentityFile /\ a.kind = "key" /\ a.value = "ok"]
    [] s.want = "-p" ->
         [s EXCEPT !.want = "", !.hasPort = TRUE,
                   !.ok = @ /\ ~s.hasPort /\ a.kind = "port" /\ a.value = "ok"]
    [] s.want = "-o" ->
         [s EXCEPT !.want = "", !.seen = @ \cup {a.name},
                   !.ok = @ /\ a.name \notin s.seen /\ IsAllowedSshOption(a)]
    [] s.want = "" /\ a.kind \in {"-i", "-p", "-o"} ->
         [s EXCEPT !.want = a.kind]
    [] OTHER ->
         [s EXCEPT !.target = a.host,
                   !.ok = @ /\ a.kind = "destination" /\ a.value = "ok" /\ s.target = NoHost]

ValidateSshArgs(args, hosts) ==
  LET after[i \in 0..Len(args)] ==
        IF i = 0 THEN ScanStart ELSE ScanStep(after[i - 1], args[i])
      end == after[Len(args)]
      multiplexing == MultiplexingOptions \cap end.seen
  IN  /\ end.ok /\ end.want = ""
      /\ end.hasIdentityFile /\ end.hasPort
      /\ RequiredOptions \subseteq end.seen
      /\ multiplexing \in {{}, MultiplexingOptions}
      /\ IsAuthorizedTargetHost(end.target, hosts)

(* sanitizeSshArgs: a multiplexing option goes with the -o before it.      *)
SanitizeSshArgs(args) ==
  LET multiplexes(i) == i \in 1..Len(args) /\ args[i].name \in MultiplexingOptions
      dropped(i) == \/ args[i].kind = "-o" /\ multiplexes(i + 1)
                    \/ multiplexes(i) /\ i > 1 /\ args[i - 1].kind = "-o"
      kept[i \in 0..Len(args)] ==
        IF i = 0 THEN <<>>
        ELSE IF dropped(i) THEN kept[i - 1] ELSE Append(kept[i - 1], args[i])
  IN  kept[Len(args)]

-----------------------------------------------------------------------------
(***************************************************************************)
(* The reference: an input is a list of groups, a flag with its value or a *)
(* destination, and is acceptable by what the groups are, in any order but *)
(* for the destinations: one names a host, an authorized one, and those    *)
(* that name none stand before it.                                         *)
(***************************************************************************)
Flatten(groups) ==
  LET upTo[i \in 0..Len(groups)] ==
        IF i = 0 THEN <<>> ELSE upTo[i - 1] \o groups[i]
  IN  upTo[Len(groups)]

IsOption(g) == Len(g) = 2 /\ g[1].kind = "-o" /\ IsAllowedSshOption(g[2])

Acceptable(groups, hosts) ==
  LET at == 1..Len(groups)
      identity == {i \in at : groups[i] = <<Flag("-i"), Path("ok")>>}
      port     == {i \in at : groups[i] = <<Flag("-p"), Port("ok")>>}
      target   == {i \in at : \E h \in hosts \ {NoHost} : groups[i] = <<Destination(h, "ok")>>}
      hostless == {i \in at : groups[i] = <<Destination(NoHost, "ok")>>}
      options  == {i \in at : IsOption(groups[i])}
      names    == {groups[i][2].name : i \in options}
  IN  /\ at = identity \cup port \cup target \cup hostless \cup options
      /\ Cardinality(identity) = 1 /\ Cardinality(port) = 1 /\ Cardinality(target) = 1
      /\ \A i \in hostless, j \in target : i < j
      /\ Cardinality(names) = Cardinality(options)
      /\ RequiredOptions \subseteq names
      /\ MultiplexingOptions \cap names \in {{}, MultiplexingOptions}

IsMultiplexing(g) == IsOption(g) /\ g[2].name \in MultiplexingOptions

Unmultiplexed(groups) ==
  [i \in 1..Len(groups) |-> IF IsMultiplexing(groups[i]) THEN <<>> ELSE groups[i]]

(* validateSshArgs accepts exactly the acceptable lists, whatever the      *)
(* order of their groups and wherever a wrong one, a second host or a      *)
(* destination without a host stands among them.                           *)
ValidatorExact ==
  \A hosts \in {{"h1"}, {"h1", "h2"}} : \A groups \in Inputs :
    ValidateSshArgs(Flatten(groups), hosts) <=> Acceptable(groups, hosts)

(* In an accepted command extractTargetHost finds the authorized host that *)
(* validateSshArgs found, and sanitizeSshArgs removes its multiplexing and *)
(* nothing else.                                                           *)
SpawnedAsChecked ==
  \A groups \in Inputs :
    LET args == Flatten(groups)
    IN  ValidateSshArgs(args, {"h1"})
          => /\ ExtractTargetHost(args) = "h1"
             /\ SanitizeSshArgs(args) = Flatten(Unmultiplexed(groups))
             /\ ValidateSshArgs(SanitizeSshArgs(args), {"h1"})
=============================================================================
