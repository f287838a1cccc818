---------------------------- MODULE EventChannel ----------------------------
(***************************************************************************)
(* What the event queue promises to its one application thread: a channel  *)
(* that takes one event at a time and hands over the oldest events, any    *)
(* number of them, in one step and in the order they were sent.            *)
(***************************************************************************)
EXTENDS Naturals, Sequences

CONSTANT Events

VARIABLES chan,  \* sent and not yet received
          got    \* received

cvars == <<chan, got>>

Init == chan = <<>> /\ got = <<>>

Send == \E e \in Events : chan' = Append(chan, e) /\ UNCHANGED got

Receive == \E k \in 1 .. Len(chan) :
              /\ got' = got \o SubSeq(chan, 1, k)
              /\ chan' = SubSeq(chan, k + 1, Len(chan))

Next == Send \/ Receive

Spec == Init /\ [][Next]_cvars
=============================================================================
