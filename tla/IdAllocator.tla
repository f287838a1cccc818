---------------------------- MODULE IdAllocator ----------------------------
(***************************************************************************)
(* What TsIDMapT promises to the services: an id is given to an object     *)
(* only when no object holds it, and an id that is given back is issued    *)
(* again only after the ids that were free before it, so that a stale id   *)
(* means "no such connection" for as long as possible.  Acquiring and      *)
(* releasing are single steps here.                                        *)
(***************************************************************************)
EXTENDS Integers, Sequences

CONSTANTS Max, Objects, NoId

VARIABLES free,   \* the free ids in the order they will be issued
          held    \* object -> the id it holds, or NoId

avars == <<free, held>>

Init == /\ free = [i \in 1 .. Max |-> i - 1]
        /\ held = [o \in Objects |-> NoId]

Acquire(o) == /\ held[o] = NoId
              /\ free # <<>>
              /\ \A p \in Objects : held[p] # Head(free)
              /\ held' = [held EXCEPT ![o] = Head(free)]
              /\ free' = Tail(free)

Release(o) == /\ held[o] # NoId
              /\ held' = [held EXCEPT ![o] = NoId]
              /\ free' = Append(free, held[o])

Next == \E o \in Objects : Acquire(o) \/ Release(o)

Spec == Init /\ [][Next]_avars
=============================================================================
