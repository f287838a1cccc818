--------------------------- MODULE MCMessageQueue ---------------------------
(* Network threads p1.. and application threads c1.. of small instances. *)
EXTENDS MessageQueue

CONSTANTS p1, p2, p3, c1, c2

TwoProducers == {p1, p2}
ThreeProducers == {p1, p2, p3}
OneConsumer == {c1}
TwoConsumers == {c1, c2}

(* Two large events among small ones: one of them leaving makes room for   *)
(* several.                                                                *)
Uneven == [m \in Messages |-> IF m \in {<<p1, 2>>, <<p2, 1>>} THEN 3 ELSE 1]
=============================================================================
