---------------------------- MODULE MCDetection ----------------------------
(* Instances of Detection for TLC.                                         *)
EXTENDS Detection, TLC

CONSTANTS t1, t2, other, foreign

SomeTypes == t1 :> TypeIds @@ t2 :> {"email"}

SomeHosts == {<<>>, <<t1>>, <<t1, t1>>, <<other, t2>>, <<t2, t1>>}

SomeRequests ==
    ({<<>>} \X {t1} \X Actions \X Tails)
        \cup (SomeHosts \X {t1, t2, other} \X {"pixel.gif"} \X {"end"})
=============================================================================
