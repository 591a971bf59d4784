---------------------------- MODULE MCBboltQueue ----------------------------
(* Small instances of BboltQueue.  The callers of Pop run the same code and *)
(* no property tells them apart, so they are symmetric (safety runs only).  *)
EXTENDS BboltQueue, TLC

PopperSymmetry == Permutations(Poppers)
=============================================================================
