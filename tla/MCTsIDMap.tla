----------------------------- MODULE MCTsIDMap -----------------------------
(* Three connections compete for two ids. *)
EXTENDS TsIDMap

CONSTANTS o1, o2, o3

MCObjects == {o1, o2, o3}
=============================================================================
