----------------------------- MODULE MCDispatch -----------------------------
(* Two executors run the same code on the same list, and a key is only     *)
(* compared with another.                                                  *)
EXTENDS Dispatch, TLC

Symmetry == Permutations(Executors) \cup Permutations(Keys)
=============================================================================
