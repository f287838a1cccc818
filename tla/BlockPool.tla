------------------------------ MODULE BlockPool ------------------------------
(***************************************************************************)
(* The pools message blocks of one size come from (FlexibleSizePoolT and   *)
(* FixedSizePoolT of Include/PoolStrategy.inl, Src/MessageBlockPool.cpp).  *)
(*                                                                         *)
(* The first thread to find none makes the fixed-size pool; threads that   *)
(* are in doubt together each make one, which is named after its maker     *)
(* here, and the last to store it wins: nobody allocates from the others   *)
(* again, or deletes them.  A fixed-size pool is a list of                 *)
(* block pools, each twice the one before; allocation takes place under    *)
(* its lock, and a release puts the three parts of a block back into the   *)
(* allocators of its own block pool one by one, without that lock.         *)
(*                                                                         *)
(* The release build is modelled: ACE_ASSERT is empty there.  What the one *)
(* in AddBlockPool claims is stated as StoredOnce.                         *)
(***************************************************************************)
EXTENDS Naturals, Sequences, FiniteSets, Functions

CONSTANTS Threads,
          StartChunkCount, \* StartChuckCount, blocks of the first block pool
          MaxPools,        \* bound: block pools of a fixed-size pool
          MaxOut           \* bound: blocks in use or on their way, at once

ASSUME BlockPoolAssumption == /\ IsFiniteSet(Threads)
                              /\ StartChunkCount \in Nat \ {0}
                              /\ MaxPools \in Nat \ {0}
                              /\ MaxOut \in Nat

None == "none"

ASSUME NoThread == None \notin Threads

VARIABLES slot,   \* the maker of _pool[poolIndex]
          nextChunkCount, \* _nextChunkCount of each fixed-size pool
          count,  \* the length of its _poolList
          chunks, \* _maxChunkCount of each block pool in the list
          free,   \* the chunks its three allocators have
          used,   \* its whole blocks that are in use
          active, \* the position of _activePool in the list
          lock,   \* who has _lock
          pc, fsp, at, part, \* of each thread: where it is, with which
                  \* fixed-size pool, block pool and part
          peak    \* the most blocks a fixed-size pool had out at once

made == <<nextChunkCount, count, chunks>>
vars == <<slot, made, free, used, active, lock, pc, fsp, at, part, peak>>

(* The parts in the order of their tests and of their allocation: message  *)
(* block, data block, buffer.                                              *)
Part == 1 .. 3
Pools == 1 .. MaxPools

(* Blocks of all block pools in a list. *)
Total(blocks) == LET sum[p \in 0 .. MaxPools] ==
                         IF p = 0 THEN 0 ELSE sum[p - 1] + blocks[p]
                 IN  sum[MaxPools]

Maximum(m, n) == IF m > n THEN m ELSE n
Least(S) == CHOOSE n \in S : \A m \in S : n <= m

(* Blocks that have at least one part out of the pool. *)
Demand(f, list) ==
    Total([p \in Pools |-> chunks[f][p] - Least(Range(list[p]))])

Goto(t, place) == pc' = [pc EXCEPT ![t] = place]
Here(t) == free[fsp[t]][at[t]]

Init == /\ slot = None
        /\ nextChunkCount = [f \in Threads |-> StartChunkCount]
        /\ count = [f \in Threads |-> 0]
        /\ chunks = [f \in Threads |-> [p \in Pools |-> 0]]
        /\ free = [f \in Threads |-> [p \in Pools |-> [k \in Part |-> 0]]]
        /\ used = [f \in Threads |-> [p \in Pools |-> 0]]
        /\ active = [f \in Threads |-> 1]
        /\ lock = [f \in Threads |-> None]
        /\ pc = [t \in Threads |-> "idle"]
        /\ fsp = [t \in Threads |-> t]
        /\ at = [t \in Threads |-> 1]
        /\ part = [t \in Threads |-> 1]
        /\ peak = [f \in Threads |-> 0]

-----------------------------------------------------------------------------
(* Allocate *)

InUse == FoldFunction(+, 0, [f \in Threads |-> Total(used[f])])

(* FlexibleSizePoolT::Allocate looks for the pool of the size. *)
Allocate(t) == /\ pc[t] = "idle"
               /\ InUse + Cardinality({u \in Threads : pc[u] # "idle"}) < MaxOut
               /\ IF slot = None THEN Goto(t, "add") /\ UNCHANGED fsp
                  ELSE Goto(t, "lock") /\ fsp' = [fsp EXCEPT ![t] = slot]
               /\ UNCHANGED <<slot, made, free, used, active, lock, at, part, peak>>

(* FixedSizePoolT::MakePool *)
NewPool(f) == LET last == count[f] + 1
                  n == nextChunkCount[f]
              IN  /\ count' = [count EXCEPT ![f] = last]
                  /\ chunks' = [chunks EXCEPT ![f][last] = n]
                  /\ free' = [free EXCEPT ![f][last] = [k \in Part |-> n]]
                  /\ active' = [active EXCEPT ![f] = last]
                  /\ nextChunkCount' = [nextChunkCount EXCEPT ![f] = 2 * n]

(* AddBlockPool stores a new one, which has its first block pool ... *)
AddBlockPool(t) == /\ pc[t] = "add"
                   /\ NewPool(t)
                   /\ slot' = t
                   /\ Goto(t, "added")
                   /\ UNCHANGED <<used, lock, fsp, at, part, peak>>

(* ... and returns what is stored by then. *)
Added(t) == /\ pc[t] = "added"
            /\ fsp' = [fsp EXCEPT ![t] = slot]
            /\ Goto(t, "lock")
            /\ UNCHANGED <<slot, made, free, used, active, lock, at, part, peak>>

(* Fault: the lock is not waited for. *)
Acquire_Unlocked(t) == /\ pc[t] = "lock"
                       /\ lock' = [lock EXCEPT ![fsp[t]] = t]
                       /\ at' = [at EXCEPT ![t] = active[fsp[t]]]
                       /\ Goto(t, "test")
                       /\ UNCHANGED <<slot, made, free, used, active, fsp, part, peak>>

(* FixedSizePoolT::Allocate tries the active pool first. *)
Acquire(t) == /\ pc[t] = "lock"
              /\ lock[fsp[t]] = None
              /\ lock' = [lock EXCEPT ![fsp[t]] = t]
              /\ at' = [at EXCEPT ![t] = active[fsp[t]]]
              /\ Goto(t, "test")
              /\ UNCHANGED <<slot, made, free, used, active, fsp, part, peak>>

(* MessageBlockPool::Allocate asks each allocator whether it has a chunk.  *)
Found(t) == /\ pc[t] \in {"test", "walk"}
            /\ Here(t)[part[t]] > 0
            /\ IF part[t] < 3
               THEN part' = [part EXCEPT ![t] = @ + 1] /\ UNCHANGED pc
               ELSE part' = [part EXCEPT ![t] = 1] /\ Goto(t, "malloc")
            /\ UNCHANGED <<slot, made, free, used, active, lock, fsp, at, peak>>

(* Fault: the pools before the active one are not tried. *)
TryOthers_Never(t) == /\ pc[t] = "test"
                      /\ Here(t)[part[t]] = 0
                      /\ part' = [part EXCEPT ![t] = 1]
                      /\ Goto(t, "make")
                      /\ UNCHANGED <<slot, made, free, used, active, lock, fsp, at,
                                     peak>>

(* AllocateFromAnotherPool: from the first pool of the list ... *)
TryOthers(t) == /\ pc[t] = "test"
                /\ Here(t)[part[t]] = 0
                /\ part' = [part EXCEPT ![t] = 1]
                /\ at' = [at EXCEPT ![t] = 1]
                /\ Goto(t, "walk")
                /\ UNCHANGED <<slot, made, free, used, active, lock, fsp, peak>>

(* ... one after the other ... *)
TryNext(t) == /\ pc[t] = "walk"
              /\ Here(t)[part[t]] = 0
              /\ part' = [part EXCEPT ![t] = 1]
              /\ IF at[t] < count[fsp[t]]
                 THEN at' = [at EXCEPT ![t] = @ + 1] /\ UNCHANGED pc
                 ELSE Goto(t, "make") /\ UNCHANGED at
              /\ UNCHANGED <<slot, made, free, used, active, lock, fsp, peak>>

(* ... and then from a new one. *)
MakePool(t) == /\ pc[t] = "make"
               /\ count[fsp[t]] < MaxPools
               /\ NewPool(fsp[t])
               /\ at' = [at EXCEPT ![t] = count[fsp[t]] + 1]
               /\ Goto(t, "test")
               /\ UNCHANGED <<slot, used, lock, fsp, part, peak>>

(* The three parts are taken one by one.  An allocator that has none left  *)
(* is not asked any more.                                                  *)
Malloc(t) ==
    /\ pc[t] = "malloc"
    /\ LET f == fsp[t]
           list == [free[f] EXCEPT ![at[t]][part[t]] = @ - 1]
       IN  IF Here(t)[part[t]] = 0
           THEN Goto(t, "broken") /\ UNCHANGED <<free, part, peak>>
           ELSE /\ free' = [free EXCEPT ![f] = list]
                /\ peak' = [peak EXCEPT ![f] = Maximum(@, Demand(f, list))]
                /\ IF part[t] < 3
                   THEN part' = [part EXCEPT ![t] = @ + 1] /\ UNCHANGED pc
                   ELSE part' = [part EXCEPT ![t] = 1] /\ Goto(t, "allocated")
    /\ UNCHANGED <<slot, made, used, active, lock, fsp, at>>

Done(t) == /\ Goto(t, "idle")
           /\ fsp' = [fsp EXCEPT ![t] = t]
           /\ at' = [at EXCEPT ![t] = 1]

(* Its pool is the active one from now on. *)
Allocated(t) == /\ pc[t] = "allocated"
                /\ used' = [used EXCEPT ![fsp[t]][at[t]] = @ + 1]
                /\ active' = [active EXCEPT ![fsp[t]] = at[t]]
                /\ lock' = [lock EXCEPT ![fsp[t]] = None]
                /\ Done(t)
                /\ UNCHANGED <<slot, made, free, part, peak>>

-----------------------------------------------------------------------------
(* ACE_Message_Block::release: the message block, the buffer and the data  *)
(* block go back to their allocators, without the lock.                    *)

Release(t) == /\ pc[t] = "idle"
              /\ \E f \in Threads : \E p \in Pools :
                    /\ used[f][p] > 0
                    /\ used' = [used EXCEPT ![f][p] = @ - 1]
                    /\ free' = [free EXCEPT ![f][p][1] = @ + 1]
                    /\ fsp' = [fsp EXCEPT ![t] = f]
                    /\ at' = [at EXCEPT ![t] = p]
              /\ Goto(t, "free_buffer")
              /\ UNCHANGED <<slot, made, active, lock, part, peak>>

FreeBuffer(t) == /\ pc[t] = "free_buffer"
                 /\ free' = [free EXCEPT ![fsp[t]][at[t]][3] = @ + 1]
                 /\ Goto(t, "free_data")
                 /\ UNCHANGED <<slot, made, used, active, lock, fsp, at, part, peak>>

(* Fault: the data block is not given back. *)
FreeData_Forgets(t) == /\ pc[t] = "free_data"
                       /\ Done(t)
                       /\ UNCHANGED <<slot, made, free, used, active, lock, part,
                                      peak>>

FreeData(t) == /\ pc[t] = "free_data"
               /\ free' = [free EXCEPT ![fsp[t]][at[t]][2] = @ + 1]
               /\ Done(t)
               /\ UNCHANGED <<slot, made, used, active, lock, part, peak>>

Step(t) == \/ Allocate(t) \/ AddBlockPool(t) \/ Added(t) \/ Acquire(t)
           \/ Found(t) \/ TryOthers(t) \/ TryNext(t) \/ MakePool(t)
           \/ Malloc(t) \/ Allocated(t)
           \/ Release(t) \/ FreeBuffer(t) \/ FreeData(t)

Next == \E t \in Threads : Step(t)

Spec == Init /\ [][Next]_vars

-----------------------------------------------------------------------------
TypeOK == /\ slot \in Threads \cup {None}
          /\ nextChunkCount \in [Threads -> Nat]
          /\ count \in [Threads -> 0 .. MaxPools]
          /\ chunks \in [Threads -> [Pools -> Nat]]
          /\ free \in [Threads -> [Pools -> [Part -> Nat]]]
          /\ used \in [Threads -> [Pools -> Nat]]
          /\ active \in [Threads -> Pools]
          /\ lock \in [Threads -> Threads \cup {None}]
          /\ pc \in [Threads -> {"idle", "add", "added", "lock", "test",
                                 "walk", "make", "malloc", "allocated",
                                 "broken", "free_buffer", "free_data"}]
          /\ fsp \in [Threads -> Threads]
          /\ at \in [Threads -> Pools]
          /\ part \in [Threads -> Part]
          /\ \A f \in Threads : count[f] > 0 => active[f] <= count[f]
          /\ \A t \in Threads :
                pc[t] \in {"test", "walk", "malloc", "allocated",
                           "free_buffer", "free_data"}
                    => at[t] <= count[fsp[t]]

(* Parts that a thread has taken for a block, or has still to give back. *)
Held(f, p, k) == {t \in Threads :
                     /\ fsp[t] = f /\ at[t] = p
                     /\ \/ pc[t] = "malloc" /\ k < part[t]
                        \/ pc[t] = "allocated"
                        \/ pc[t] = "free_buffer" /\ k \in {2, 3}
                        \/ pc[t] = "free_data" /\ k = 2}

(* No chunk is given out twice or misses its home: each of the chunks a    *)
(* block pool was made with is free in that pool, part of a whole block or *)
(* with a thread (PoolStrategy.inl:113-122, MessageBlockPool.cpp:21-60).   *)
(* Of a fixed-size pool that was overwritten the free chunks are at home   *)
(* too, but out of reach: see StoredOnce.                                  *)
Conserved ==
    \A f \in Threads, p \in Pools, k \in Part :
        free[f][p][k] + used[f][p] + Cardinality(Held(f, p, k)) = chunks[f][p]

(* AddBlockPool stores a pool where there is none, which                   *)
(* ACE_ASSERT(NULL == _pool[poolIndex]) claims (PoolStrategy.inl:152):     *)
(* false of two threads that found none at the same time.                  *)
StoredOnce == [][slot' # slot => slot = None]_vars

(* Once the three depths were tested, the three chunks are there: blocks   *)
(* that are released meanwhile only add to them, and the lock keeps others *)
(* from taking them (MessageBlockPool.cpp:28-58, PoolStrategy.inl:24).     *)
AllocationWhole == \A t \in Threads : pc[t] # "broken"

(* The block pools before the last one. *)
Early(f) == [p \in Pools |-> IF p < count[f] THEN chunks[f][p] ELSE 0]

(* Memory follows demand: a block pool is added only when so many blocks   *)
(* were out at once that all those before it were exhausted together       *)
(* (PoolStrategy.inl:54-72), although they are tested one after the other  *)
(* and blocks come back in between.  This is so in each list: the first    *)
(* block pool of a second list, made in vain, is none of its growth.       *)
GrowthFollowsDemand == \A f \in Threads : Total(Early(f)) <= peak[f]
=============================================================================
