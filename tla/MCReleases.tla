----------------------------- MODULE MCReleases -----------------------------
(* Instances of ReleaseUpdate for TLC.                                     *)
EXTENDS ReleaseUpdate, TLC

CONSTANTS k1, c1, b1, a1

TwoPlatforms == <<"linux", "exe">>
=============================================================================
