------------------------------- MODULE MCFleet -------------------------------
(* Instances of Fleet for TLC.                                             *)
EXTENDS Fleet, TLC

CONSTANTS h1, h2, s1, s2

\* A service (s1) and a copy started by hand (s2) on one machine.
SharedMachine == (s1 :> h1) @@ (s2 :> h1)

\* The service alone.
OneMachine == (s1 :> h1)

\* One service on each machine.
OwnMachine == (s1 :> h1) @@ (s2 :> h2)

\* The two processes of the shared machine are interchangeable.
Symmetry == Permutations({s1, s2})
=============================================================================
