----------------------------- MODULE MCSendQueue -----------------------------
(* Ticks of a cycle of twelve, the day a third of it. *)
EXTENDS SendQueue

(* The longest delay that is kept, and one of more than a day. *)
MCDelays == {2, 5}
=============================================================================
