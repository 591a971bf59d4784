----------------------------- MODULE MCLogFile ------------------------------
(* Two goroutines that reload the sink are interchangeable.                *)
EXTENDS LogFile, TLC

CONSTANTS r1, r2

MCReloaders == {r1, r2}

Symmetry == Permutations(MCReloaders)
=============================================================================
