----------------------------- MODULE MCAttribution -----------------------------
(* Instances of Attribution for TLC.                                       *)
EXTENDS Attribution, TLC
CONSTANTS q1, q2, m1, m2

OneEach == (m1 :> q1) @@ (m2 :> q2)
TwoAndOne == (m1 :> 2) @@ (m2 :> 1)
=============================================================================
