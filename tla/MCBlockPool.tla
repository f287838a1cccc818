----------------------------- MODULE MCBlockPool -----------------------------
(* Two threads and up to five blocks at once, of block pools of 1, 2, 4. *)
EXTENDS BlockPool, TLC

CONSTANTS t1, t2

TwoThreads == {t1, t2}
ThreadSymmetry == Permutations(TwoThreads)
=============================================================================
