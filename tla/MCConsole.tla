----------------------------- MODULE MCConsole -----------------------------
(* Instances of Console for TLC.                                           *)
EXTENDS Console

CONSTANTS row1, row2, row3, k1, k2, s1, s2

Bound == [x \in Cards |-> CASE x = "agents" -> 4 [] x = "dashboard" -> 1 [] OTHER -> 2]
\* Three clicks open one token's drawer, close it and open another's.
InDrawer == [x \in Cards |-> IF x = "tokens" THEN 3 ELSE 0]
OneClick == [x \in Cards |-> 1]
=============================================================================
