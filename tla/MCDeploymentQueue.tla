------------------------- MODULE MCDeploymentQueue -------------------------
(***************************************************************************)
(* An instance of DeploymentQueue: shop and blog live on s1; shop also     *)
(* runs on s2.                                                             *)
(***************************************************************************)
EXTENDS DeploymentQueue

CONSTANTS shop, blog, s1, s2

MCHome == [a \in {shop, blog} |-> s1]
MCExtra == [a \in {shop, blog} |-> IF a = shop THEN s2 ELSE NoServer]
=============================================================================
