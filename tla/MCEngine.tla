------------------------------ MODULE MCEngine ------------------------------
(* Two pipelines, the first with two sources and the second with one.      *)
EXTENDS Engine, TLC

CONSTANTS p1, p2, s1, s2, s3

MCSourceOf == (s1 :> p1) @@ (s2 :> p1) @@ (s3 :> p2)
=============================================================================
