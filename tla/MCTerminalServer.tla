-------------------------- MODULE MCTerminalServer --------------------------
(* One required option and two that multiplex stand for seven and three.   *)
EXTENDS TerminalServer, TLC

Tty == <<Flag("-o"), Option(RequestTTY, "ok", NoHost)>>
Key == <<Flag("-i"), Path("ok")>>
Port22 == <<Flag("-p"), Port("ok")>>
To(h) == <<Destination(h, "ok")>>
Master == <<Flag("-o"), Option("ControlMaster", "ok", NoHost)>>
Control == <<Flag("-o"), Option("ControlPath", "ok", NoHost)>>

Generated == <<Key, Port22, Tty, Master, Control, To("h1")>>
Wrong ==
  {<<Flag("-i"), Path("bad")>>, <<Flag("-i")>>, <<Flag("-p"), Port("bad")>>,
   <<Flag("-o"), Option(RequestTTY, "no", NoHost)>>,
   <<Flag("-o"), Option("ProxyCommand", "bad", "h2")>>,
   To("h2"), To(NoHost), <<Destination("h1", "bad")>>, <<Word>>}
Groups == {Generated[i] : i \in 1..6} \cup Wrong

(* Every short list, and the generated one with one group replaced or one  *)
(* more, in the orders that differ from it by an exchange.                 *)
Orders == {[Generated EXCEPT ![i] = Generated[j], ![j] = Generated[i]] : i, j \in 1..6}
MCInputs ==
  UNION {[1..n -> Groups] : n \in 0..3}
    \cup {[s EXCEPT ![i] = g] : s \in Orders, i \in 1..6, g \in Groups}
    \cup {Append(s, g) : s \in Orders, g \in Groups}

(* A command for a server of the team and one for somebody else's.         *)
MCCommandLines == {Flatten(<<Key, Port22, To("h1")>>), Flatten(<<Key, Port22, To("h2")>>)}
=============================================================================
