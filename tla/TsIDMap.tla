------------------------------ MODULE TsIDMap ------------------------------
(***************************************************************************)
(* The connection registry: TsIDMapT (Include/TsidMap.h), an id queue      *)
(* (IDQueueT over TSQueueT) beside a map from ids to service objects, each *)
(* with a mutex of its own.  Register and UnRegister take both mutexes one *)
(* after the other, so between two of their steps any other thread may     *)
(* run.  A service object registers itself once, in open, and unregisters  *)
(* itself once, in its destructor (ReactorService, ProactorService); when  *)
(* it is gone a new connection may reuse its storage.                      *)
(***************************************************************************)
EXTENDS Integers, Sequences

CONSTANTS Max,         \* t_max, the number of ids
          Objects,     \* storage for service objects
          Invalid_ID,  \* returned when no id is left
          NoObject     \* the NULL pointer

ASSUME MaxAssumption == Max \in Nat \ {0}
ASSUME SentinelAssumption == /\ NoObject \notin Objects
                             /\ Invalid_ID \notin 0 .. Max - 1

VARIABLES idle,    \* m_idleIdQueue: the ids nobody holds, oldest first
          active,  \* m_activeIdMap: id -> object, NoObject when unbound
          serial,  \* object -> the id Register gave it (_serial)
          pc       \* object -> where its constructor, open or destructor is

vars == <<idle, active, serial, pc>>

Ids == 0 .. Max - 1

IsValidId(id) == id \in Ids

PCs == {"none", "opening", "binding", "open", "refused",
        "unbinding", "releasing"}

-----------------------------------------------------------------------------

Init == /\ idle = [i \in 1 .. Max |-> i - 1]
        /\ active = [id \in Ids |-> NoObject]
        /\ serial = [o \in Objects |-> Invalid_ID]
        /\ pc = [o \in Objects |-> "none"]

(* A new connection: the constructor leaves _serial = Invalid_ID. *)
Construct(o) == /\ pc[o] = "none"
                /\ serial' = [serial EXCEPT ![o] = Invalid_ID]
                /\ pc' = [pc EXCEPT ![o] = "opening"]
                /\ UNCHANGED <<idle, active>>

(* Fault: the id is read (TSQueueT::Head) but left in the queue. *)
RegisterPop_Peek(o) == /\ pc[o] = "opening"
                       /\ idle # <<>>
                       /\ serial' = [serial EXCEPT ![o] = Head(idle)]
                       /\ pc' = [pc EXCEPT ![o] = "binding"]
                       /\ UNCHANGED <<idle, active>>

(* Register, first mutex: take the id that has been idle longest. *)
RegisterPop(o) == /\ pc[o] = "opening"
                  /\ idle # <<>>
                  /\ serial' = [serial EXCEPT ![o] = Head(idle)]
                  /\ idle' = Tail(idle)
                  /\ pc' = [pc EXCEPT ![o] = "binding"]
                  /\ UNCHANGED active

(* Register on an empty queue returns Invalid_ID. *)
RegisterFail(o) == /\ pc[o] = "opening"
                   /\ idle = <<>>
                   /\ pc' = [pc EXCEPT ![o] = "refused"]
                   /\ UNCHANGED <<idle, active, serial>>

(* Register, second mutex.  bind leaves an entry that is already there as  *)
(* it is, and Register does not look at its result.                        *)
RegisterBind(o) == /\ pc[o] = "binding"
                   /\ active' = [active EXCEPT ![serial[o]] =
                                   IF @ = NoObject THEN o ELSE @]
                   /\ pc' = [pc EXCEPT ![o] = "open"]
                   /\ UNCHANGED <<idle, serial>>

(* The result of Get, and of the find in UnRegister. *)
Get(id) == IF id \in Ids THEN active[id] ELSE NoObject

(* Fault: the result of find is ignored. *)
UnRegisterFind_Unchecked(o) ==
    /\ pc[o] \in {"open", "refused"}
    /\ pc' = [pc EXCEPT ![o] = "unbinding"]
    /\ UNCHANGED <<idle, active, serial>>

(* UnRegister: find.  A destructor whose _serial is Invalid_ID returns     *)
(* before it, and UnRegister of an id that is not bound does nothing.      *)
UnRegisterFind(o) ==
    /\ pc[o] \in {"open", "refused"}
    /\ pc' = [pc EXCEPT ![o] =
                IF Get(serial[o]) = NoObject THEN "none" ELSE "unbinding"]
    /\ UNCHANGED <<idle, active, serial>>

(* Fault: the entry stays in the map. *)
UnRegisterUnbind_Forgotten(o) == /\ pc[o] = "unbinding"
                                 /\ pc' = [pc EXCEPT ![o] = "releasing"]
                                 /\ UNCHANGED <<idle, active, serial>>

UnRegisterUnbind(o) == /\ pc[o] = "unbinding"
                       /\ active' = [active EXCEPT ![serial[o]] = NoObject]
                       /\ pc' = [pc EXCEPT ![o] = "releasing"]
                       /\ UNCHANGED <<idle, serial>>

(* Fault: the id goes back to the head of the queue, to be issued next. *)
UnRegisterPush_Front(o) ==
    /\ pc[o] = "releasing"
    /\ idle' = IF IsValidId(serial[o]) THEN <<serial[o]>> \o idle ELSE idle
    /\ pc' = [pc EXCEPT ![o] = "none"]
    /\ UNCHANGED <<active, serial>>

UnRegisterPush(o) ==
    /\ pc[o] = "releasing"
    /\ idle' = IF IsValidId(serial[o]) THEN Append(idle, serial[o]) ELSE idle
    /\ pc' = [pc EXCEPT ![o] = "none"]
    /\ UNCHANGED <<active, serial>>

Next == \E o \in Objects :
            \/ Construct(o)
            \/ RegisterPop(o)
            \/ RegisterFail(o)
            \/ RegisterBind(o)
            \/ UnRegisterFind(o)
            \/ UnRegisterUnbind(o)
            \/ UnRegisterPush(o)

Spec == Init /\ [][Next]_vars

-----------------------------------------------------------------------------

Holding == {"binding", "open", "unbinding", "releasing"}

Holds(o, id) == pc[o] \in Holding /\ serial[o] = id

(* The type of the state; an object has a valid _serial exactly from the   *)
(* pop of its id to its release (TsidMap.h:86-103).                        *)
TypeOK == /\ idle \in Seq(Ids)
          /\ active \in [Ids -> Objects \cup {NoObject}]
          /\ serial \in [Objects -> Ids \cup {Invalid_ID}]
          /\ pc \in [Objects -> PCs]
          /\ \A o \in Objects :
                /\ pc[o] \in Holding => serial[o] \in Ids
                /\ pc[o] \in {"opening", "refused"} => serial[o] = Invalid_ID

(* Every id is in exactly one place, whatever the interleaving of Register *)
(* and UnRegister (TsidMap.h:86-103): waiting in the idle queue, once, or  *)
(* held by one object.  No id leaks and none is issued twice.              *)
IdleOnce == \A i, j \in 1 .. Len(idle) : idle[i] = idle[j] => i = j
IdleNotHeld == \A i \in 1 .. Len(idle), o \in Objects : ~Holds(o, idle[i])
HeldOnce == \A o, p \in Objects :
                /\ pc[o] \in Holding
                /\ pc[p] \in Holding
                /\ serial[o] = serial[p]
                => o = p
NoIdLost == \A id \in Ids : \/ \E i \in 1 .. Len(idle) : idle[i] = id
                            \/ \E o \in Objects : Holds(o, id)

IdsConserved == IdleOnce /\ IdleNotHeld /\ HeldOnce /\ NoIdLost

(* A look-up by id (TsidMap.h:105-111, used by every Send and Close of the *)
(* accessors) returns the one object registered under that id, and never   *)
(* misses an object whose open has finished and whose destructor has not   *)
(* begun: although bind's result is ignored, bind never meets an entry.    *)
LookupExact == \A id \in Ids, o \in Objects :
                   Get(id) = o <=> /\ pc[o] \in {"open", "unbinding"}
                                   /\ serial[o] = id

(* The id an object holds, as the allocator sees it: from the step that    *)
(* pops the id to the step that pushes it back.                            *)
HeldId(o) == IF pc[o] \in Holding THEN serial[o] ELSE Invalid_ID

Allocator == INSTANCE IdAllocator WITH free <- idle,
                                       held <- [o \in Objects |-> HeldId(o)],
                                       NoId <- Invalid_ID

(* Register and UnRegister (TsidMap.h:86-103), interleaved step by step,   *)
(* implement the allocator that acquires and releases in one step.         *)
ImplementsAllocator == Allocator!Spec
=============================================================================
