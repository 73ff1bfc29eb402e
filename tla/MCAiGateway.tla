---------------------------- MODULE MCAiGateway -----------------------------
(* Three calls: a and b share a key, c has none.  A limit of 3 admits a     *)
(* large and a small body at once, a limit of 2 only one of the large.      *)
EXTENDS AiGateway

CONSTANTS a, b, c
MCKeyOf == [x \in Calls |-> IF x \in {a, b} THEN "k" ELSE None]
MCPayloadOf == [x \in Calls |-> IF x = c THEN "small" ELSE "large"]
MCCost == [large |-> 2, small |-> 1]
=============================================================================
