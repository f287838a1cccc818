-------------------------- MODULE MCReactorService --------------------------
(* One connection, the reactor thread r and application thread a1. *)
EXTENDS ReactorService

CONSTANTS r, a1

OneApp == {a1}
=============================================================================
