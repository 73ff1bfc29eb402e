--------------------------- MODULE PurchaseLedger ---------------------------
(***************************************************************************)
(* What buying promises, whatever is retried, redelivered, cancelled or    *)
(* lost on the way: money is captured, then becomes the session's only     *)
(* order, and only then is the domain bought, no name of it twice.         *)
(* Nothing of this is ever taken back.                                     *)
(***************************************************************************)
EXTENDS Integers

CONSTANTS
  Sessions, Refs,         \* checkout sessions, payment references
  DomainSessions, NameOf  \* the sessions that buy a domain, and its name

VARIABLES
  captured,  \* the sessions whose money the provider has
  orders,    \* the <<session, reference>> of the orders
  calls      \* [DomainSessions -> how often the registrar was asked]

Init == captured = {} /\ orders = {} /\ calls = [d \in DomainSessions |-> 0]

Ordered(s) == \E ref \in Refs : <<s, ref>> \in orders

Capture(s) ==
  /\ s \notin captured
  /\ captured' = captured \cup {s}
  /\ UNCHANGED <<orders, calls>>

Order(s, ref) ==
  /\ s \in captured /\ ~Ordered(s)
  /\ orders' = orders \cup {<<s, ref>>}
  /\ UNCHANGED <<captured, calls>>

Buy(d) ==
  /\ Ordered(d)
  /\ \A e \in DomainSessions : NameOf[e] = NameOf[d] => calls[e] = 0
  /\ calls' = [calls EXCEPT ![d] = 1]
  /\ UNCHANGED <<captured, orders>>

Next ==
  \/ \E s \in Sessions : Capture(s) \/ \E ref \in Refs : Order(s, ref)
  \/ \E d \in DomainSessions : Buy(d)

Spec == Init /\ [][Next]_<<captured, orders, calls>>
=============================================================================
