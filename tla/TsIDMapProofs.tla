--------------------------- MODULE TsIDMapProofs ---------------------------
(***************************************************************************)
(* Proofs about the connection registry, for every number of ids and every *)
(* set of objects.                                                         *)
(***************************************************************************)
EXTENDS TsIDMap, TLAPS

USE DEF Ids, PCs

(* Removing the head of a sequence leaves its other elements, shifted. *)
LEMMA TailFacts ==
    ASSUME NEW S, NEW s \in Seq(S), s # <<>>
    PROVE  /\ Head(s) = s[1]
           /\ 1 \in 1 .. Len(s)
           /\ Head(s) \in S
           /\ Tail(s) \in Seq(S)
           /\ Len(Tail(s)) = Len(s) - 1
           /\ \A i \in 1 .. Len(Tail(s)) : i + 1 \in 1 .. Len(s)
                                           /\ Tail(s)[i] = s[i + 1]
  OBVIOUS

(* Appending leaves the elements in place and adds one at the end. *)
LEMMA AppendFacts ==
    ASSUME NEW S, NEW s \in Seq(S), NEW e \in S
    PROVE  /\ Append(s, e) \in Seq(S)
           /\ Len(Append(s, e)) = Len(s) + 1
           /\ \A i \in 1 .. Len(s) : i \in 1 .. Len(Append(s, e))
                                     /\ Append(s, e)[i] = s[i]
           /\ \A i \in 1 .. Len(Append(s, e)) :
                  i \in 1 .. Len(s) \/ i = Len(s) + 1
           /\ Append(s, e)[Len(s) + 1] = e
  OBVIOUS

-----------------------------------------------------------------------------

(* Every variable keeps its type, and an object has a valid _serial from   *)
(* the pop of its id to the push, and none before.                         *)
THEOREM TypeCorrect == Spec => []TypeOK
<1> USE MaxAssumption, SentinelAssumption DEF TypeOK, Holding
<1>1. Init => TypeOK
  BY DEF Init
<1>2. TypeOK /\ [Next]_vars => TypeOK'
  <2> SUFFICES ASSUME TypeOK, [Next]_vars
               PROVE  TypeOK'
    OBVIOUS
  <2>1. ASSUME NEW o \in Objects, Construct(o) PROVE TypeOK'
    BY <2>1 DEF Construct
  <2>2. ASSUME NEW o \in Objects, RegisterPop(o) PROVE TypeOK'
    BY <2>2, TailFacts DEF RegisterPop
  <2>3. ASSUME NEW o \in Objects, RegisterFail(o) PROVE TypeOK'
    BY <2>3 DEF RegisterFail
  <2>4. ASSUME NEW o \in Objects, RegisterBind(o) PROVE TypeOK'
    BY <2>4 DEF RegisterBind
  <2>5. ASSUME NEW o \in Objects, UnRegisterFind(o)
        PROVE  TypeOK'
    BY <2>5 DEF UnRegisterFind, Get
  <2>6. ASSUME NEW o \in Objects, UnRegisterUnbind(o)
        PROVE  TypeOK'
    BY <2>6 DEF UnRegisterUnbind
  <2>7. ASSUME NEW o \in Objects, UnRegisterPush(o)
        PROVE  TypeOK'
    <3>1. serial[o] \in Ids /\ idle' = Append(idle, serial[o])
      BY <2>7 DEF UnRegisterPush, IsValidId
    <3>2. idle' \in Seq(Ids)
      BY <3>1, AppendFacts
    <3>3. QED
      BY <2>7, <3>2 DEF UnRegisterPush
  <2>8. CASE UNCHANGED vars
    BY <2>8 DEF vars
  <2>9. QED
    BY <2>1, <2>2, <2>3, <2>4, <2>5, <2>6, <2>7, <2>8 DEF Next
<1>3. QED
  BY <1>1, <1>2, PTL DEF Spec

-----------------------------------------------------------------------------

(* What each kind of step does to the sets of idle and held ids.           *)
LEMMA PopStep ==
    ASSUME TypeOK, IdsConserved, NEW o \in Objects, RegisterPop(o)
    PROVE  IdsConserved'
<1>1. \A p \in Objects : p # o => pc'[p] = pc[p] /\ serial'[p] = serial[p]
  BY DEF RegisterPop, TypeOK
<1>2. /\ Len(idle') = Len(idle) - 1
      /\ 1 \in 1 .. Len(idle)
      /\ idle[1] \in Ids
      /\ \A i \in 1 .. Len(idle') : i + 1 \in 1 .. Len(idle)
                                    /\ idle'[i] = idle[i + 1]
  <2>1. idle \in Seq(Ids) /\ idle # <<>> /\ idle' = Tail(idle)
    BY DEF RegisterPop, TypeOK
  <2>2. QED BY <2>1, TailFacts
<1>3. pc[o] = "opening" /\ Head(idle) = idle[1]
  BY TailFacts DEF RegisterPop, TypeOK
<1> USE DEF TypeOK, IdsConserved, IdleOnce, IdleNotHeld, HeldOnce,
            NoIdLost, Holds, Holding
<1>4. pc'[o] = "binding" /\ serial'[o] = idle[1]
  BY <1>3 DEF RegisterPop
<1>5. IdleOnce'
  BY <1>2
<1>6. IdleNotHeld'
  <2> SUFFICES ASSUME NEW i \in 1 .. Len(idle'), NEW p \in Objects,
                      pc'[p] \in Holding, serial'[p] = idle'[i]
               PROVE  FALSE
    OBVIOUS
  <2>1. CASE p = o
    <3>1. idle[1] = idle[i + 1] /\ i + 1 # 1
      BY <2>1, <1>2, <1>4
    <3>2. QED BY <3>1, <1>2
  <2>2. CASE p # o
    BY <2>2, <1>2, <1>1
  <2>3. QED BY <2>1, <2>2
<1>7. HeldOnce'
  <2> SUFFICES ASSUME NEW p \in Objects, NEW q \in Objects,
                      pc'[p] \in Holding, pc'[q] \in Holding,
                      serial'[p] = serial'[q], p # q
               PROVE  FALSE
    OBVIOUS
  <2>1. CASE p # o /\ q # o
    BY <2>1, <1>1
  <2>2. CASE p = o
    <3>1. Holds(q, idle[1]) BY <2>2, <1>1, <1>4
    <3>2. QED BY <3>1, <1>2
  <2>3. CASE q = o
    <3>1. Holds(p, idle[1]) BY <2>3, <1>1, <1>4
    <3>2. QED BY <3>1, <1>2
  <2>4. QED BY <2>1, <2>2, <2>3
<1>8. NoIdLost'
  <2> SUFFICES ASSUME NEW id \in Ids
               PROVE  \/ \E i \in 1 .. Len(idle') : idle'[i] = id
                      \/ \E p \in Objects : Holds(p, id)'
    OBVIOUS
  <2>1. CASE \E i \in 1 .. Len(idle) : idle[i] = id
    <3>1. PICK i \in 1 .. Len(idle) : idle[i] = id
      BY <2>1
    <3>2. CASE i = 1
      BY <3>1, <3>2, <1>4
    <3>3. CASE i # 1
      <4>1. i - 1 \in 1 .. Len(idle') /\ idle'[i - 1] = idle[i]
        BY <3>3, <1>2
      <4>2. QED BY <4>1, <3>1
    <3>4. QED BY <3>2, <3>3
  <2>2. CASE \E p \in Objects : Holds(p, id)
    BY <2>2, <1>1, <1>3
  <2>3. QED BY <2>1, <2>2
<1>9. QED BY <1>5, <1>6, <1>7, <1>8

LEMMA PushStep ==
    ASSUME TypeOK, IdsConserved, NEW o \in Objects,
           UnRegisterPush(o)
    PROVE  IdsConserved'
<1> USE DEF TypeOK, IdsConserved, IdleOnce, IdleNotHeld, HeldOnce,
            NoIdLost, Holds, Holding
<1>1. /\ serial[o] \in Ids /\ pc[o] = "releasing"
      /\ idle' = Append(idle, serial[o])
      /\ serial' = serial
      /\ pc' = [pc EXCEPT ![o] = "none"]
  BY DEF UnRegisterPush, IsValidId
<1>2. /\ Len(idle') = Len(idle) + 1
      /\ Len(idle) \in Nat
      /\ \A i \in 1 .. Len(idle) : i \in 1 .. Len(idle')
                                   /\ idle'[i] = idle[i]
      /\ \A i \in 1 .. Len(idle') : i \in 1 .. Len(idle) \/ i = Len(idle) + 1
      /\ idle'[Len(idle) + 1] = serial[o]
  BY <1>1, AppendFacts
<1>3. \A p \in Objects : p # o => pc'[p] = pc[p]
  BY <1>1
<1>4. pc'[o] = "none"
  BY <1>1
<1>5. IdleOnce'
  BY <1>1, <1>2
<1>6. IdleNotHeld'
  <2> SUFFICES ASSUME NEW i \in 1 .. Len(idle'), NEW p \in Objects,
                      pc'[p] \in Holding, serial[p] = idle'[i]
               PROVE  FALSE
    BY <1>1
  <2>1. p # o /\ pc[p] \in Holding
    BY <1>3, <1>4
  <2>2. CASE i \in 1 .. Len(idle)
    BY <2>1, <2>2, <1>2
  <2>3. CASE i = Len(idle) + 1
    <3>1. serial[p] = serial[o] BY <2>3, <1>2
    <3>2. QED BY <3>1, <2>1, <1>1
  <2>4. QED BY <2>2, <2>3, <1>2
<1>7. HeldOnce'
  BY <1>1, <1>3, <1>4
<1>8. NoIdLost'
  <2> SUFFICES ASSUME NEW id \in Ids
               PROVE  \/ \E i \in 1 .. Len(idle') : idle'[i] = id
                      \/ \E p \in Objects : Holds(p, id)'
    OBVIOUS
  <2>1. CASE \E i \in 1 .. Len(idle) : idle[i] = id
    BY <2>1, <1>2
  <2>2. CASE Holds(o, id)
    BY <2>2, <1>2
  <2>3. CASE \E p \in Objects : p # o /\ Holds(p, id)
    BY <2>3, <1>1, <1>3
  <2>4. QED BY <2>1, <2>2, <2>3
<1>9. QED BY <1>5, <1>6, <1>7, <1>8

(* A step that leaves the idle queue and the ids alone, and neither starts *)
(* nor ends anybody's hold on an id, preserves the conservation of ids.    *)
LEMMA QuietStep ==
    ASSUME IdsConserved, idle' = idle,
           \A o \in Objects : /\ pc'[o] \in Holding <=> pc[o] \in Holding
                              /\ pc[o] \in Holding => serial'[o] = serial[o]
    PROVE  IdsConserved'
  BY DEF IdsConserved, IdleOnce, IdleNotHeld, HeldOnce, NoIdLost, Holds

(* A step that binds, looks up or unbinds an entry keeps look-ups exact,   *)
(* because no two objects ever hold the same id.                           *)
LEMMA LookupStep ==
    ASSUME TypeOK, HeldOnce, LookupExact, NEW o \in Objects,
           \/ RegisterBind(o)
           \/ UnRegisterFind(o)
           \/ UnRegisterUnbind(o)
    PROVE  LookupExact'
<1> USE SentinelAssumption
    DEF TypeOK, HeldOnce, LookupExact, Holding, Get
<1>1. CASE RegisterBind(o)
  <2>1. active[serial[o]] = NoObject
    BY <1>1 DEF RegisterBind
  <2>2. QED BY <1>1, <2>1 DEF RegisterBind
<1>2. CASE UnRegisterFind(o)
  BY <1>2 DEF UnRegisterFind
<1>3. CASE UnRegisterUnbind(o)
  BY <1>3 DEF UnRegisterUnbind
<1>4. QED BY <1>1, <1>2, <1>3

(* Every id is in the idle queue once or held by exactly one object, and a *)
(* look-up finds exactly the registered objects.  The two are inductive    *)
(* only together: an open object whose entry were missing would keep its   *)
(* id for ever, and an id held twice would be bound to the wrong object.   *)
THEOREM RegistryCorrect == Spec => [](IdsConserved /\ LookupExact)
<1>1. Init => IdsConserved /\ LookupExact
  <2> SUFFICES ASSUME Init PROVE IdsConserved /\ LookupExact
    OBVIOUS
  <2>1. Len(idle) = Max /\ \A i \in 1 .. Max : idle[i] = i - 1
    BY MaxAssumption DEF Init
  <2>2. \A id \in Ids : id + 1 \in 1 .. Len(idle) /\ idle[id + 1] = id
    BY <2>1, MaxAssumption
  <2>3. \A o \in Objects : pc[o] = "none"
    BY DEF Init
  <2>4. IdsConserved
    <3>1. IdleOnce
      BY <2>1, MaxAssumption DEF IdleOnce
    <3>2. IdleNotHeld /\ HeldOnce
      BY <2>3 DEF IdleNotHeld, HeldOnce, Holds, Holding
    <3>3. NoIdLost
      BY <2>2 DEF NoIdLost
    <3>4. QED BY <3>1, <3>2, <3>3 DEF IdsConserved
  <2>5. LookupExact
    BY <2>3, SentinelAssumption DEF Init, LookupExact, Get
  <2>6. QED BY <2>4, <2>5
<1>2. /\ TypeOK /\ IdsConserved /\ LookupExact
      /\ [Next]_vars
      => (IdsConserved /\ LookupExact)'
  <2> SUFFICES ASSUME TypeOK, IdsConserved, LookupExact,
                      [Next]_vars
               PROVE  IdsConserved' /\ LookupExact'
    OBVIOUS
  <2>0. HeldOnce
    BY DEF IdsConserved
  <2>1. ASSUME NEW o \in Objects, Construct(o)
        PROVE  IdsConserved' /\ LookupExact'
    <3>1. IdsConserved'
      BY <2>1, QuietStep DEF Construct, TypeOK, Holding
    <3>2. LookupExact'
      BY <2>1 DEF Construct, TypeOK, LookupExact, Get
    <3>3. QED BY <3>1, <3>2
  <2>2. ASSUME NEW o \in Objects, RegisterPop(o)
        PROVE  IdsConserved' /\ LookupExact'
    <3>1. IdsConserved'
      BY <2>2, PopStep
    <3>2. LookupExact'
      BY <2>2 DEF RegisterPop, TypeOK, LookupExact, Get
    <3>3. QED BY <3>1, <3>2
  <2>3. ASSUME NEW o \in Objects, RegisterFail(o)
        PROVE  IdsConserved' /\ LookupExact'
    <3>1. IdsConserved'
      BY <2>3, QuietStep DEF RegisterFail, TypeOK, Holding
    <3>2. LookupExact'
      BY <2>3 DEF RegisterFail, TypeOK, LookupExact, Get
    <3>3. QED BY <3>1, <3>2
  <2>4. ASSUME NEW o \in Objects, RegisterBind(o)
        PROVE  IdsConserved' /\ LookupExact'
    <3>1. IdsConserved'
      BY <2>4, QuietStep DEF RegisterBind, TypeOK, Holding
    <3>2. QED BY <2>0, <2>4, <3>1, LookupStep
  <2>5. ASSUME NEW o \in Objects, UnRegisterFind(o)
        PROVE  IdsConserved' /\ LookupExact'
    <3>1. pc[o] = "open" => pc'[o] = "unbinding"
      BY <2>5, SentinelAssumption
      DEF UnRegisterFind, TypeOK, Holding, LookupExact
    <3>2. pc[o] = "refused" => pc'[o] \notin Holding
      BY <2>5, SentinelAssumption DEF UnRegisterFind, TypeOK, Holding, Get
    <3>3. IdsConserved'
      BY <2>5, <3>1, <3>2, QuietStep DEF UnRegisterFind, TypeOK, Holding
    <3>4. QED BY <2>0, <2>5, <3>3, LookupStep
  <2>6. ASSUME NEW o \in Objects, UnRegisterUnbind(o)
        PROVE  IdsConserved' /\ LookupExact'
    <3>1. IdsConserved'
      BY <2>6, QuietStep DEF UnRegisterUnbind, TypeOK, Holding
    <3>2. QED BY <2>0, <2>6, <3>1, LookupStep
  <2>7. ASSUME NEW o \in Objects, UnRegisterPush(o)
        PROVE  IdsConserved' /\ LookupExact'
    <3>1. IdsConserved'
      BY <2>7, PushStep
    <3>2. LookupExact'
      BY <2>7 DEF UnRegisterPush, TypeOK, LookupExact, Get
    <3>3. QED BY <3>1, <3>2
  <2>8. CASE UNCHANGED vars
    <3>1. IdsConserved'
      BY <2>8, QuietStep DEF vars
    <3>2. LookupExact'
      BY <2>8 DEF vars, LookupExact, Get
    <3>3. QED BY <3>1, <3>2
  <2>9. QED
    BY <2>1, <2>2, <2>3, <2>4, <2>5, <2>6, <2>7, <2>8 DEF Next
<1>3. QED
  BY <1>1, <1>2, TypeCorrect, PTL DEF Spec

(* A look-up finds the registered objects and no others: an id that is     *)
(* free, or whose object is not bound yet or no longer, gives the sentinel *)
(* (TsidMap.h:83-111).                                                    *)
THEOREM LookupCorrect == Spec => []LookupExact
  BY RegistryCorrect, PTL

-----------------------------------------------------------------------------

(* Every step of the two-mutex registry is a step of the one-step          *)
(* allocator or leaves the allocator's state alone: an id changes hands at *)
(* the pop and at the push, and nowhere else.                              *)
THEOREM RegistryImplementsAllocator == Spec => ImplementsAllocator
<1> DEFINE held == [o \in Objects |-> HeldId(o)]
<1>1. Init => Allocator!Init
  BY DEF Init, Allocator!Init, HeldId, Holding
<1>2. TypeOK /\ IdsConserved /\ LookupExact /\ [Next]_vars
      => [Allocator!Next]_<<idle, held>>
  <2> SUFFICES ASSUME TypeOK, IdsConserved, LookupExact, [Next]_vars
               PROVE  Allocator!Next \/ UNCHANGED <<idle, held>>
    OBVIOUS
  <2> USE DEF HeldId, Holding
  <2>1. ASSUME NEW o \in Objects, Construct(o)
        PROVE  UNCHANGED <<idle, held>>
    BY <2>1 DEF Construct, TypeOK
  <2>2. ASSUME NEW o \in Objects, RegisterPop(o)
        PROVE  Allocator!Acquire(o)
    <3>1. \A p \in Objects : held[p] # Head(idle)
      <4>1. idle \in Seq(Ids) /\ idle # <<>>
        BY <2>2 DEF RegisterPop, TypeOK
      <4>2. Head(idle) = idle[1] /\ 1 \in 1 .. Len(idle) /\ Head(idle) \in Ids
        BY <4>1, TailFacts
      <4>3. QED
        BY <4>2, SentinelAssumption DEF IdsConserved, IdleNotHeld, Holds
    <3>2. held' = [held EXCEPT ![o] = Head(idle)]
      BY <2>2 DEF RegisterPop, TypeOK
    <3>3. held[o] = Invalid_ID
      BY <2>2 DEF RegisterPop
    <3>4. QED BY <2>2, <3>1, <3>2, <3>3 DEF RegisterPop, Allocator!Acquire
  <2>3. ASSUME NEW o \in Objects, RegisterFail(o)
        PROVE  UNCHANGED <<idle, held>>
    BY <2>3 DEF RegisterFail, TypeOK
  <2>4. ASSUME NEW o \in Objects, RegisterBind(o)
        PROVE  UNCHANGED <<idle, held>>
    BY <2>4 DEF RegisterBind, TypeOK
  <2>5. ASSUME NEW o \in Objects, UnRegisterFind(o)
        PROVE  UNCHANGED <<idle, held>>
    <3>1. pc[o] = "open" => pc'[o] = "unbinding"
      BY <2>5, SentinelAssumption DEF UnRegisterFind, TypeOK, LookupExact
    <3>2. pc[o] = "refused" => pc'[o] \notin Holding
      BY <2>5, SentinelAssumption DEF UnRegisterFind, TypeOK, Get
    <3>3. QED BY <2>5, <3>1, <3>2 DEF UnRegisterFind, TypeOK
  <2>6. ASSUME NEW o \in Objects, UnRegisterUnbind(o)
        PROVE  UNCHANGED <<idle, held>>
    BY <2>6 DEF UnRegisterUnbind, TypeOK
  <2>7. ASSUME NEW o \in Objects, UnRegisterPush(o)
        PROVE  Allocator!Release(o)
    <3>1. held[o] = serial[o] /\ serial[o] \in Ids
      BY <2>7 DEF UnRegisterPush, TypeOK
    <3>2. held' = [held EXCEPT ![o] = Invalid_ID]
      BY <2>7 DEF UnRegisterPush, TypeOK
    <3>3. idle' = Append(idle, held[o])
      BY <2>7, <3>1 DEF UnRegisterPush, IsValidId
    <3>4. QED BY <3>1, <3>2, <3>3, SentinelAssumption DEF Allocator!Release
  <2>8. CASE UNCHANGED vars
    BY <2>8 DEF vars
  <2>9. QED
    BY <2>1, <2>2, <2>3, <2>4, <2>5, <2>6, <2>7, <2>8
    DEF Next, Allocator!Next
<1>3. QED
  BY <1>1, <1>2, TypeCorrect, RegistryCorrect, PTL
  DEF Spec, ImplementsAllocator, Allocator!Spec, Allocator!avars
=============================================================================
