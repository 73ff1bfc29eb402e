-------------------------- MODULE MCDomainPurchase --------------------------
(* PayPal sessions d1 and d2 buy the same domain name; r buys a plan through *)
(* Razorpay, which announces a payment under two references.                 *)
EXTENDS DomainPurchase, TLC
CONSTANTS d1, d2, r

MCRefsOf == [s \in Sessions |-> CASE s = d1 -> {"c1"} [] s = d2 -> {"c2"}
                                  [] s = r -> {"payment", "order"}]
OneName == [d \in DomainSessions |-> "name"]
Symmetric == Permutations(Workers)
=============================================================================
