----------------------------- MODULE MCGateway -----------------------------
(* Instances of GatewayCache, and of the tokens below it, for TLC.         *)
EXTENDS GatewayCache, TLC

CONSTANTS t1, j1, j2, g1, g2

OperatorKinds == {"cloned_website", "custom_image", "document"}
OneInstant == [c \in Caches |-> 1]

Symmetry == Permutations({j1, j2}) \cup Permutations({g1, g2})
=============================================================================
