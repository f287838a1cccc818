-------------------------- MODULE MCProactorService -------------------------
(* One connection, workers w1 and w2, application thread a1. *)
EXTENDS ProactorService, TLC

CONSTANTS w1, w2, a1

TwoWorkers == {w1, w2}
OneApp == {a1}
WorkerSymmetry == Permutations(TwoWorkers)
=============================================================================
