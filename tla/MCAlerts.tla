------------------------------ MODULE MCAlerts ------------------------------
(* Instances of Alerts for TLC.                                            *)
EXTENDS Alerts, TLC

CONSTANTS c1, c2, k1, k2

\* Channels are interchangeable, and so are the pairs.
Symmetry == Permutations({c1, c2}) \cup Permutations({k1, k2})
=============================================================================
