--------------------------- MODULE BlockPoolProofs ---------------------------
(***************************************************************************)
(* An allocation that has tested the three allocators of a block pool gets *)
(* its three chunks, for any threads, pool sizes and bounds.               *)
(*                                                                         *)
(* The invariant is about one thread at a time (ThreadInv).  A step of     *)
(* thread t keeps that of every other thread u because it does no more to  *)
(* what u sees than Spares(u) allows (lemma Frame).  That the chunks add   *)
(* up (Conserved) follows step by step from the balance of what the thread *)
(* that moves has taken and given (lemmas HeldStep, BalancedStep).         *)
(*                                                                         *)
(* That the list grows with the demand only is about the walk of a thread  *)
(* through it (GrowthInv): what the thread has found exhausted was out at  *)
(* once, although it was found one after the other.                        *)
(***************************************************************************)
EXTENDS BlockPool, SequenceFacts, FiniteSetTheorems, TLAPS

Places == {"idle", "add", "added", "lock", "test", "walk", "make", "malloc",
           "allocated", "broken", "free_buffer", "free_data"}
Locked == {"test", "walk", "make", "malloc", "allocated"}
InPool == {"test", "walk", "malloc", "allocated", "free_buffer", "free_data"}

(* What the argument needs of the types. *)
Types == /\ slot \in Threads \cup {None}
         /\ nextChunkCount \in [Threads -> Nat]
         /\ count \in [Threads -> 0 .. MaxPools]
         /\ chunks \in [Threads -> [Pools -> Nat]]
         /\ free \in [Threads -> [Pools -> [Part -> Nat]]]
         /\ used \in [Threads -> [Pools -> Nat]]
         /\ active \in [Threads -> Pools]
         /\ lock \in [Threads -> Threads \cup {None}]
         /\ pc \in [Threads -> Places]
         /\ fsp \in [Threads -> Threads]
         /\ at \in [Threads -> Pools]
         /\ part \in [Threads -> Part]

(* A fixed-size pool is empty until its maker stores it; its active pool   *)
(* and those with blocks in use are in its list.                           *)
Lists == /\ slot # None => count[slot] > 0
         /\ slot = None => \A f \in Threads : count[f] = 0
         /\ \A f \in Threads : count[f] > 0 => active[f] <= count[f]
         /\ \A f \in Threads, p \in Pools : used[f][p] > 0 => p <= count[f]

(* Where thread t may be, with which fixed-size pool f, block pool p and   *)
(* part k: in a pool of the list, with the lock if it allocates, and the   *)
(* chunks it has tested are still there.                                   *)
Fits(t, place, f, p, k) ==
    /\ place = "add" => count[t] = 0
    /\ place = "added" => slot # None
    /\ place \in Locked \cup {"lock"} => count[f] > 0
    /\ place \in InPool => p <= count[f]
    /\ place \in Locked => lock[f] = t
    /\ place \notin {"test", "walk", "malloc"} => k = 1
    /\ place \in {"test", "walk"} => \A j \in Part : j < k => free[f][p][j] > 0
    /\ place = "malloc" => \A j \in Part : j >= k => free[f][p][j] > 0
    /\ place # "broken"

ThreadInv(t) == Fits(t, pc[t], fsp[t], at[t], part[t])

IInv == Types /\ Lists /\ \A t \in Threads : ThreadInv(t)

(* What a step of another thread may do to what u sees. *)
Spares(u) ==
    /\ slot # None => slot' # None
    /\ pc[u] = "add" => count'[u] = count[u]
    /\ count'[fsp[u]] >= count[fsp[u]]
    /\ pc[u] \in Locked =>
          /\ lock'[fsp[u]] = lock[fsp[u]]
          /\ \A k \in Part : free'[fsp[u]][at[u]][k] >= free[fsp[u]][at[u]][k]

LEMMA Frame ==
  ASSUME Types, Types', NEW u \in Threads, ThreadInv(u), Spares(u),
         pc'[u] = pc[u], fsp'[u] = fsp[u], at'[u] = at[u], part'[u] = part[u]
  PROVE  ThreadInv(u)'
<1>. DEFINE place == pc[u]
            f == fsp[u]
            p == at[u]
            k == part[u]
<1>0. f \in Threads /\ p \in Pools /\ k \in Part
  BY DEF Types
<1>1. p \in Nat /\ k \in Nat /\ count[f] \in Nat /\ count'[f] \in Nat
  <2>1. count[f] \in 0 .. MaxPools /\ count'[f] \in 0 .. MaxPools
    BY <1>0 DEF Types
  <2>. QED  BY <1>0, <2>1 DEF Pools, Part
<1>2. \A j \in Part : j \in Nat /\ free[f][p][j] \in Nat /\ free'[f][p][j] \in Nat
  <2>1. free[f][p] \in [Part -> Nat] /\ free'[f][p] \in [Part -> Nat]
    BY <1>0 DEF Types
  <2>. QED  BY <2>1 DEF Part
<1>3. Fits(u, place, f, p, k)
  BY DEF ThreadInv
<1>4. place \in {"test", "walk"} => \A j \in Part : j < k => free'[f][p][j] > 0
  BY <1>1, <1>2, <1>3 DEF Fits, Spares, Locked
<1>5. place = "malloc" => \A j \in Part : j >= k => free'[f][p][j] > 0
  BY <1>1, <1>2, <1>3 DEF Fits, Spares, Locked
<1>6. /\ place = "add" => count'[u] = 0
      /\ place \in Locked \cup {"lock"} => count'[f] > 0
      /\ place \in InPool => p <= count'[f]
  BY <1>1, <1>3 DEF Fits, Spares
<1>7. /\ place = "added" => slot' # None
      /\ place \in Locked => lock'[f] = u
      /\ place \notin {"test", "walk", "malloc"} => k = 1
      /\ place # "broken"
  BY <1>3 DEF Fits, Spares
<1>. QED  BY <1>4, <1>5, <1>6, <1>7 DEF ThreadInv, Fits, Spares

(* In the beginning nobody has made or taken anything. *)
LEMMA InitIInv == Init => IInv
<1>. SUFFICES ASSUME Init PROVE IInv
  OBVIOUS
<1>1. Types
  BY NoThread, BlockPoolAssumption DEF Init, Types, Places, Part, Pools
<1>2. Lists
  BY DEF Init, Lists
<1>3. \A t \in Threads : ThreadInv(t)
  BY DEF Init, ThreadInv, Fits, Locked, InPool
<1>. QED  BY <1>1, <1>2, <1>3 DEF IInv

(* A step that changes only where its thread is keeps the invariant when   *)
(* the thread fits there.                                                  *)
LEMMA Moves ==
  ASSUME IInv, NEW t \in Threads, NEW place \in Places, NEW f \in Threads,
         NEW p \in Pools, NEW k \in Part,
         pc' = [pc EXCEPT ![t] = place], fsp' = [fsp EXCEPT ![t] = f],
         at' = [at EXCEPT ![t] = p], part' = [part EXCEPT ![t] = k],
         UNCHANGED <<slot, made, free, used, active, lock>>,
         Fits(t, place, f, p, k)
  PROVE  IInv'
<1>0. /\ Types /\ Lists
      /\ UNCHANGED <<slot, nextChunkCount, count, chunks, free, used, active, lock>>
  BY DEF IInv, made
<1>1. /\ pc' \in [Threads -> Places] /\ fsp' \in [Threads -> Threads]
      /\ at' \in [Threads -> Pools] /\ part' \in [Threads -> Part]
  <2>1. /\ pc \in [Threads -> Places] /\ fsp \in [Threads -> Threads]
        /\ at \in [Threads -> Pools] /\ part \in [Threads -> Part]
    BY <1>0 DEF Types
  <2>. QED  BY <2>1
<1>2. Types'
  BY <1>0, <1>1 DEF Types
<1>3. Lists'
  BY <1>0 DEF Lists
<1>4. pc'[t] = place /\ fsp'[t] = f /\ at'[t] = p /\ part'[t] = k
  BY <1>0 DEF Types
<1>5. Fits(t, place, f, p, k)'
  BY <1>0 DEF Fits
<1>6. ThreadInv(t)'
  BY <1>4, <1>5 DEF ThreadInv, Fits
<1>7. ASSUME NEW u \in Threads, u # t PROVE ThreadInv(u)'
  <2>1. ThreadInv(u)
    BY DEF IInv
  <2>2. pc'[u] = pc[u] /\ fsp'[u] = fsp[u] /\ at'[u] = at[u] /\ part'[u] = part[u]
    BY <1>0, <1>7 DEF Types
  <2>. QED  BY <1>0, <2>1, <2>2 DEF ThreadInv, Fits
<1>. QED  BY <1>2, <1>3, <1>6, <1>7 DEF IInv

(* What is known of a thread before its step. *)
LEMMA Place ==
  ASSUME IInv, NEW t \in Threads
  PROVE  /\ Types /\ Lists /\ Fits(t, pc[t], fsp[t], at[t], part[t])
         /\ fsp[t] \in Threads /\ at[t] \in Pools /\ part[t] \in Part
         /\ pc = [pc EXCEPT ![t] = pc[t]] /\ fsp = [fsp EXCEPT ![t] = fsp[t]]
         /\ at = [at EXCEPT ![t] = at[t]] /\ part = [part EXCEPT ![t] = part[t]]
<1>1. Types /\ Lists /\ ThreadInv(t)
  BY DEF IInv
<1>. QED  BY <1>1 DEF Types, ThreadInv

(* Looking for the pool of the size changes only the thread. *)
LEMMA AllocateStep == ASSUME IInv, NEW t \in Threads, Allocate(t) PROVE IInv'
<1>0. /\ pc[t] = "idle" /\ at' = at /\ part' = part
      /\ UNCHANGED <<slot, made, free, used, active, lock>>
  BY DEF Allocate
<1>1. CASE slot = None
  <2>1. Fits(t, "add", fsp[t], at[t], part[t])
    BY <1>0, <1>1, Place DEF Fits, Lists, Locked, InPool
  <2>2. /\ pc' = [pc EXCEPT ![t] = "add"] /\ fsp' = [fsp EXCEPT ![t] = fsp[t]]
        /\ at' = [at EXCEPT ![t] = at[t]] /\ part' = [part EXCEPT ![t] = part[t]]
    BY <1>0, <1>1, Place DEF Allocate, Goto
  <2>3. "add" \in Places /\ fsp[t] \in Threads /\ at[t] \in Pools /\ part[t] \in Part
    BY Place DEF Places
  <2>. QED  BY <1>0, <2>1, <2>2, <2>3, Moves
<1>2. CASE slot # None
  <2>1. slot \in Threads
    BY <1>2, Place DEF Types
  <2>2. Fits(t, "lock", slot, at[t], part[t])
    BY <1>0, <1>2, Place DEF Fits, Lists, Locked, InPool
  <2>3. /\ pc' = [pc EXCEPT ![t] = "lock"] /\ fsp' = [fsp EXCEPT ![t] = slot]
        /\ at' = [at EXCEPT ![t] = at[t]] /\ part' = [part EXCEPT ![t] = part[t]]
    BY <1>0, <1>2, Place DEF Allocate, Goto
  <2>4. "lock" \in Places /\ at[t] \in Pools /\ part[t] \in Part
    BY Place DEF Places
  <2>. QED  BY <1>0, <2>1, <2>2, <2>3, <2>4, Moves
<1>. QED  BY <1>1, <1>2

(* What is stored by then has a block pool. *)
LEMMA AddedStep == ASSUME IInv, NEW t \in Threads, Added(t) PROVE IInv'
<1>1. /\ pc[t] = "added" /\ at' = at /\ part' = part
      /\ pc' = [pc EXCEPT ![t] = "lock"] /\ fsp' = [fsp EXCEPT ![t] = slot]
      /\ UNCHANGED <<slot, made, free, used, active, lock>>
  BY DEF Added, Goto
<1>2. slot \in Threads /\ slot # None
  BY <1>1, Place DEF Fits, Types
<1>3. Fits(t, "lock", slot, at[t], part[t])
  BY <1>1, <1>2, Place DEF Fits, Lists, Locked, InPool
<1>4. at' = [at EXCEPT ![t] = at[t]] /\ part' = [part EXCEPT ![t] = part[t]]
  BY <1>1, Place
<1>5. "lock" \in Places /\ at[t] \in Pools /\ part[t] \in Part
  BY Place DEF Places
<1>. QED  BY <1>1, <1>2, <1>3, <1>4, <1>5, Moves

(* One more chunk is known to be there, or all three. *)
LEMMA FoundStep == ASSUME IInv, NEW t \in Threads, Found(t) PROVE IInv'
<1>0. /\ pc[t] \in {"test", "walk"} /\ free[fsp[t]][at[t]][part[t]] > 0
      /\ fsp' = [fsp EXCEPT ![t] = fsp[t]] /\ at' = [at EXCEPT ![t] = at[t]]
      /\ UNCHANGED <<slot, made, free, used, active, lock>>
  BY Place DEF Found, Here
<1>3. fsp[t] \in Threads /\ at[t] \in Pools /\ part[t] \in Part
  BY Place
<1>1. CASE part[t] < 3
  <2>1. part[t] + 1 \in Part /\ \A j \in Part : j < part[t] + 1 => j <= part[t]
    BY <1>1, Place DEF Part
  <2>2. Fits(t, pc[t], fsp[t], at[t], part[t] + 1)
    <3>1. \A j \in Part : j < part[t] + 1 => free[fsp[t]][at[t]][j] > 0
      <4>1. \A j \in Part : j < part[t] + 1 => j < part[t] \/ j = part[t]
        BY Place DEF Part
      <4>. QED  BY <1>0, <4>1, Place DEF Fits
    <3>. QED  BY <1>0, <3>1, Place DEF Fits
  <2>3. /\ part' = [part EXCEPT ![t] = part[t] + 1]
        /\ pc' = [pc EXCEPT ![t] = pc[t]]
    BY <1>1, Place DEF Found
  <2>4. pc[t] \in Places
    BY <1>0 DEF Places
  <2>. QED  BY <1>0, <1>3, <2>1, <2>2, <2>3, <2>4, Moves
<1>2. CASE ~(part[t] < 3)
  <2>1. part[t] = 3 /\ 1 \in Part /\ \A j \in Part : j < 3 \/ j = 3
    BY <1>2, Place DEF Part
  <2>2. Fits(t, "malloc", fsp[t], at[t], 1)
    BY <1>0, <2>1, Place DEF Fits, Locked, InPool
  <2>3. part' = [part EXCEPT ![t] = 1] /\ pc' = [pc EXCEPT ![t] = "malloc"]
    BY <1>2 DEF Found, Goto
  <2>4. "malloc" \in Places
    BY DEF Places
  <2>. QED  BY <1>0, <1>3, <2>1, <2>2, <2>3, <2>4, Moves
<1>. QED  BY <1>1, <1>2

(* The walk starts with the first pool ... *)
LEMMA TryOthersStep == ASSUME IInv, NEW t \in Threads, TryOthers(t) PROVE IInv'
<1>1. /\ pc[t] = "test" /\ fsp' = [fsp EXCEPT ![t] = fsp[t]]
      /\ pc' = [pc EXCEPT ![t] = "walk"] /\ at' = [at EXCEPT ![t] = 1]
      /\ part' = [part EXCEPT ![t] = 1]
      /\ UNCHANGED <<slot, made, free, used, active, lock>>
  BY Place DEF TryOthers, Goto
<1>2. "walk" \in Places /\ fsp[t] \in Threads /\ 1 \in Pools /\ 1 \in Part
  BY Place, BlockPoolAssumption DEF Places, Pools, Part
<1>3. count[fsp[t]] \in Nat /\ \A j \in Part : ~(j < 1)
  <2>1. count[fsp[t]] \in 0 .. MaxPools
    BY <1>2, Place DEF Types
  <2>. QED  BY <2>1 DEF Part
<1>4. Fits(t, "walk", fsp[t], 1, 1)
  BY <1>1, <1>3, Place DEF Fits, Locked, InPool
<1>. QED  BY <1>1, <1>2, <1>4, Moves

(* ... and the next pool is in the list as well. *)
LEMMA TryNextStep == ASSUME IInv, NEW t \in Threads, TryNext(t) PROVE IInv'
<1>1. /\ pc[t] = "walk" /\ fsp' = [fsp EXCEPT ![t] = fsp[t]]
      /\ part' = [part EXCEPT ![t] = 1]
      /\ UNCHANGED <<slot, made, free, used, active, lock>>
  BY Place DEF TryNext
<1>2. /\ "walk" \in Places /\ "make" \in Places /\ fsp[t] \in Threads
      /\ at[t] \in Pools /\ 1 \in Part /\ \A j \in Part : ~(j < 1)
  BY Place DEF Places, Part
<1>3. count[fsp[t]] \in 0 .. MaxPools
  BY <1>2, Place DEF Types
<1>4. CASE at[t] < count[fsp[t]]
  <2>1. at[t] + 1 \in Pools /\ at[t] + 1 <= count[fsp[t]]
    BY <1>2, <1>3, <1>4, BlockPoolAssumption DEF Pools
  <2>2. /\ pc' = [pc EXCEPT ![t] = "walk"] /\ at' = [at EXCEPT ![t] = at[t] + 1]
    BY <1>1, <1>4, Place DEF TryNext
  <2>3. Fits(t, "walk", fsp[t], at[t] + 1, 1)
    BY <1>1, <1>2, <2>1, Place DEF Fits, Locked, InPool
  <2>. QED  BY <1>1, <1>2, <2>1, <2>2, <2>3, Moves
<1>5. CASE ~(at[t] < count[fsp[t]])
  <2>1. /\ pc' = [pc EXCEPT ![t] = "make"] /\ at' = [at EXCEPT ![t] = at[t]]
    BY <1>5, Place DEF TryNext, Goto
  <2>2. Fits(t, "make", fsp[t], at[t], 1)
    BY <1>1, Place DEF Fits, Locked, InPool
  <2>. QED  BY <1>1, <1>2, <2>1, <2>2, Moves
<1>. QED  BY <1>4, <1>5

(* A step that also changes what threads share. *)
LEMMA Changes ==
  ASSUME IInv, NEW t \in Threads, NEW place \in Places, NEW f \in Threads,
         NEW p \in Pools, NEW k \in Part,
         pc' = [pc EXCEPT ![t] = place], fsp' = [fsp EXCEPT ![t] = f],
         at' = [at EXCEPT ![t] = p], part' = [part EXCEPT ![t] = k],
         slot' \in Threads \cup {None}, nextChunkCount' \in [Threads -> Nat],
         count' \in [Threads -> 0 .. MaxPools],
         chunks' \in [Threads -> [Pools -> Nat]],
         free' \in [Threads -> [Pools -> [Part -> Nat]]],
         used' \in [Threads -> [Pools -> Nat]], active' \in [Threads -> Pools],
         lock' \in [Threads -> Threads \cup {None}],
         Lists', Fits(t, place, f, p, k)',
         \A u \in Threads : u # t => Spares(u)
  PROVE  IInv'
<1>1. /\ pc \in [Threads -> Places] /\ fsp \in [Threads -> Threads]
      /\ at \in [Threads -> Pools] /\ part \in [Threads -> Part]
  BY DEF IInv, Types
<1>2. /\ pc' \in [Threads -> Places] /\ fsp' \in [Threads -> Threads]
      /\ at' \in [Threads -> Pools] /\ part' \in [Threads -> Part]
  BY <1>1
<1>3. Types /\ Types'
  BY <1>2 DEF IInv, Types
<1>4. pc'[t] = place /\ fsp'[t] = f /\ at'[t] = p /\ part'[t] = k
  BY <1>1
<1>5. ThreadInv(t)'
  BY <1>4 DEF ThreadInv, Fits
<1>6. ASSUME NEW u \in Threads, u # t PROVE ThreadInv(u)'
  <2>1. pc'[u] = pc[u] /\ fsp'[u] = fsp[u] /\ at'[u] = at[u] /\ part'[u] = part[u]
    BY <1>1, <1>6
  <2>2. Spares(u) /\ ThreadInv(u)
    BY <1>6 DEF IInv
  <2>. QED  BY <1>3, <2>1, <2>2, Frame
<1>. QED  BY <1>3, <1>5, <1>6 DEF IInv

(* The state before a step, in the form in which it is used. *)
LEMMA Shared ==
  ASSUME IInv
  PROVE  /\ slot \in Threads \cup {None} /\ nextChunkCount \in [Threads -> Nat]
         /\ count \in [Threads -> 0 .. MaxPools]
         /\ chunks \in [Threads -> [Pools -> Nat]]
         /\ free \in [Threads -> [Pools -> [Part -> Nat]]]
         /\ used \in [Threads -> [Pools -> Nat]] /\ active \in [Threads -> Pools]
         /\ lock \in [Threads -> Threads \cup {None}]
         /\ pc \in [Threads -> Places] /\ fsp \in [Threads -> Threads]
         /\ at \in [Threads -> Pools] /\ part \in [Threads -> Part]
         /\ \A f \in Threads : count[f] \in Nat /\ active[f] \in Nat
<1>1. Types
  BY DEF IInv
<1>2. ASSUME NEW f \in Threads PROVE count[f] \in Nat /\ active[f] \in Nat
  <2>1. count \in [Threads -> 0 .. MaxPools] /\ active \in [Threads -> 1 .. MaxPools]
    BY <1>1 DEF Types, Pools
  <2>2. count[f] \in 0 .. MaxPools /\ active[f] \in 1 .. MaxPools
    BY <2>1
  <2>. QED  BY <2>2
<1>3. /\ slot \in Threads \cup {None} /\ nextChunkCount \in [Threads -> Nat]
      /\ count \in [Threads -> 0 .. MaxPools]
      /\ chunks \in [Threads -> [Pools -> Nat]]
      /\ free \in [Threads -> [Pools -> [Part -> Nat]]]
  BY <1>1 DEF Types
<1>4. /\ used \in [Threads -> [Pools -> Nat]] /\ active \in [Threads -> Pools]
      /\ lock \in [Threads -> Threads \cup {None}]
      /\ pc \in [Threads -> Places] /\ fsp \in [Threads -> Threads]
      /\ at \in [Threads -> Pools] /\ part \in [Threads -> Part]
  BY <1>1 DEF Types
<1>. QED  BY <1>2, <1>3, <1>4

(* Who is locked in a fixed-size pool has its lock, so nobody else is. *)
LEMMA Exclusion ==
  ASSUME IInv, NEW t \in Threads, NEW u \in Threads, u # t,
         pc[t] \in Locked, pc[u] \in Locked
  PROVE  fsp[u] # fsp[t]
<1>1. lock[fsp[t]] = t
  BY Place DEF Fits
<1>2. lock[fsp[u]] = u
  BY Place DEF Fits
<1>3. ASSUME fsp[u] = fsp[t] PROVE FALSE
  <2>1. lock[fsp[u]] = lock[fsp[t]]
    BY ONLY <1>3
  <2>. QED  BY ONLY <1>1, <1>2, <2>1, u # t
<1>. QED  BY <1>3

(* The lock was free, so nobody else is locked in this fixed-size pool. *)
LEMMA AcquireStep == ASSUME IInv, NEW t \in Threads, Acquire(t) PROVE IInv'
<1>0. PICK f \in Threads : f = fsp[t]
  BY Place
<1>9. PICK p \in Pools : p = active[f]
  BY Shared
<1>1. /\ pc[t] = "lock" /\ lock[f] = None /\ lock' = [lock EXCEPT ![f] = t]
      /\ pc' = [pc EXCEPT ![t] = "test"] /\ fsp' = [fsp EXCEPT ![t] = f]
      /\ at' = [at EXCEPT ![t] = p] /\ part' = [part EXCEPT ![t] = 1]
      /\ UNCHANGED <<slot, nextChunkCount, count, chunks, free, used, active>>
  <2>1. pc[t] = "lock" /\ part[t] = 1
    BY Place DEF Acquire, Fits
  <2>. QED  BY <1>0, <1>9, <2>1, Place DEF Acquire, Goto, made
<1>2. "test" \in Places /\ 1 \in Part /\ \A j \in Part : ~(j < 1)
  BY DEF Places, Part
<1>3. lock' \in [Threads -> Threads \cup {None}] /\ lock'[f] = t
  BY <1>1, Shared
<1>4. Lists'
  BY <1>1, Place DEF Lists
<1>5. count[f] > 0 /\ p <= count[f]
  BY <1>0, <1>1, <1>9, Place DEF Fits, Lists
<1>6. Fits(t, "test", f, p, 1)'
  BY <1>1, <1>2, <1>3, <1>5 DEF Fits, Locked, InPool
<1>7. ASSUME NEW u \in Threads, u # t PROVE Spares(u)
  <2>1. pc[u] \in Locked => lock[fsp[u]] = u
    BY Place DEF Fits
  <2>2. pc[u] \in Locked => fsp[u] # f
    BY <1>1, <2>1, NoThread
  <2>3. /\ fsp[u] \in Threads /\ count[fsp[u]] \in Nat
        /\ \A k \in Part : free[fsp[u]][at[u]][k] \in Nat
    BY Shared
  <2>4. fsp[u] # f => lock'[fsp[u]] = lock[fsp[u]]
    BY <1>1, <2>3, Shared
  <2>. QED  BY <1>1, <2>2, <2>3, <2>4 DEF Spares
<1>. QED  BY <1>1, <1>2, <1>3, <1>4, <1>6, <1>7, Shared, Changes

(* The new fixed-size pool was empty, so nobody is in it. *)
LEMMA AddBlockPoolStep == ASSUME IInv, NEW t \in Threads, AddBlockPool(t) PROVE IInv'
<1> DEFINE n == nextChunkCount[t]
<1>0. PICK f \in Threads, p \in Pools : f = fsp[t] /\ p = at[t]
  BY Place
<1>1. pc[t] = "add" /\ part[t] = 1 /\ count[t] = 0 /\ count[t] + 1 = 1
  BY Place DEF AddBlockPool, Fits
<1>2. /\ slot' = t /\ count' = [count EXCEPT ![t] = 1]
      /\ chunks' = [chunks EXCEPT ![t][1] = n]
      /\ free' = [free EXCEPT ![t][1] = [k \in Part |-> n]]
      /\ active' = [active EXCEPT ![t] = 1]
      /\ nextChunkCount' = [nextChunkCount EXCEPT ![t] = 2 * n]
      /\ pc' = [pc EXCEPT ![t] = "added"] /\ fsp' = [fsp EXCEPT ![t] = f]
      /\ at' = [at EXCEPT ![t] = p] /\ part' = [part EXCEPT ![t] = 1]
      /\ UNCHANGED <<used, lock>>
  BY <1>0, <1>1, Place DEF AddBlockPool, NewPool, Goto
<1>3. /\ 1 \in Pools /\ 1 \in 0 .. MaxPools /\ n \in Nat /\ 2 * n \in Nat
      /\ "added" \in Places /\ 1 \in Part
  <2>1. n \in Nat
    BY Shared
  <2>. QED  BY <2>1, BlockPoolAssumption DEF Pools, Places, Part
<1>4. /\ count' \in [Threads -> 0 .. MaxPools] /\ active' \in [Threads -> Pools]
      /\ nextChunkCount' \in [Threads -> Nat] /\ slot' \in Threads \cup {None}
  BY <1>2, <1>3, Shared
<1>5. chunks' \in [Threads -> [Pools -> Nat]]
  BY <1>2, <1>3, Shared
<1>6. free' \in [Threads -> [Pools -> [Part -> Nat]]]
  <2>1. [k \in Part |-> n] \in [Part -> Nat]
    BY <1>3
  <2>. QED  BY <1>2, <1>3, <2>1, Shared
<1>7. count'[t] = 1 /\ active'[t] = 1 /\ slot' # None
  BY <1>2, Shared, NoThread
<1>8. Lists'
  <2>1. \A g \in Threads : count'[g] > 0 => active'[g] <= count'[g]
    BY <1>2, <1>7, Place, Shared DEF Lists
  <2>2. \A q \in Pools : used[t][q] > 0 => q <= 1
    BY <1>1, Place DEF Lists, Pools
  <2>3. \A g \in Threads, q \in Pools : used'[g][q] > 0 => q <= count'[g]
    BY <1>2, <1>7, <2>2, Place, Shared DEF Lists
  <2>. QED  BY <1>2, <1>7, <2>1, <2>3 DEF Lists
<1>9. Fits(t, "added", f, p, 1)'
  BY <1>7 DEF Fits, Locked, InPool
<1>10. ASSUME NEW u \in Threads, u # t PROVE Spares(u)
  <2>1. /\ fsp[u] \in Threads /\ count[fsp[u]] \in Nat
        /\ \A k \in Part : free[fsp[u]][at[u]][k] \in Nat
    BY Shared
  <2>2. pc[u] \in Locked => fsp[u] # t
    BY <1>1, <2>1, Place DEF Fits
  <2>3. count'[fsp[u]] >= count[fsp[u]] /\ count'[u] = count[u]
    BY <1>1, <1>2, <1>10, <2>1, Shared
  <2>4. fsp[u] # t => free'[fsp[u]] = free[fsp[u]]
    BY <1>2, <2>1, Shared
  <2>. QED  BY <1>2, <1>7, <2>1, <2>2, <2>3, <2>4 DEF Spares
<1>. QED  BY <1>2, <1>3, <1>4, <1>5, <1>6, <1>8, <1>9, <1>10, Shared, Changes

(* The new block pool is behind all those in use. *)
LEMMA MakePoolStep == ASSUME IInv, NEW t \in Threads, MakePool(t) PROVE IInv'
<1>0. PICK f \in Threads : f = fsp[t]
  BY Place
<1>11. PICK last \in Nat : last = count[f] + 1
  BY Shared
<1> DEFINE n == nextChunkCount[f]
<1>1. /\ pc[t] = "make" /\ count[f] < MaxPools /\ part[t] = 1
      /\ count' = [count EXCEPT ![f] = last]
      /\ chunks' = [chunks EXCEPT ![f][last] = n]
      /\ free' = [free EXCEPT ![f][last] = [k \in Part |-> n]]
      /\ active' = [active EXCEPT ![f] = last]
      /\ nextChunkCount' = [nextChunkCount EXCEPT ![f] = 2 * n]
      /\ pc' = [pc EXCEPT ![t] = "test"] /\ fsp' = [fsp EXCEPT ![t] = f]
      /\ at' = [at EXCEPT ![t] = last] /\ part' = [part EXCEPT ![t] = 1]
      /\ UNCHANGED <<slot, used, lock>>
  <2>1. pc[t] = "make" /\ part[t] = 1
    BY Place DEF MakePool, Fits
  <2>. QED  BY <1>0, <1>11, <2>1, Place DEF MakePool, NewPool, Goto
<1>2. count[f] \in 0 .. MaxPools /\ count[f] > 0
  <2>1. count[f] > 0
    BY <1>0, <1>1, Place DEF Fits, Locked
  <2>. QED  BY <2>1, Shared
<1>12. last \in Pools /\ last \in 0 .. MaxPools /\ last > count[f]
  BY <1>1, <1>2, <1>11, BlockPoolAssumption DEF Pools
<1>3. /\ last \in Pools /\ last \in 0 .. MaxPools /\ last > count[f] /\ last > 0
      /\ n \in Nat /\ 2 * n \in Nat /\ "test" \in Places /\ 1 \in Part
      /\ \A j \in Part : ~(j < 1)
  <2>1. n \in Nat
    BY Shared
  <2>. QED  BY <1>2, <1>12, <2>1 DEF Places, Part
<1>4. /\ count' \in [Threads -> 0 .. MaxPools] /\ active' \in [Threads -> Pools]
      /\ nextChunkCount' \in [Threads -> Nat]
  BY <1>1, <1>2, <1>3, Shared
<1>5. chunks' \in [Threads -> [Pools -> Nat]]
  BY <1>1, <1>2, <1>3, Shared
<1>6. free' \in [Threads -> [Pools -> [Part -> Nat]]]
  <2>1. [k \in Part |-> n] \in [Part -> Nat]
    BY <1>3
  <2>. QED  BY <1>1, <1>2, <1>3, <2>1, Shared
<1>7. count'[f] = last /\ active'[f] = last
  BY <1>1, <1>2, Shared
<1>8. Lists'
  <2>1. ASSUME NEW g \in Threads, count'[g] > 0 PROVE active'[g] <= count'[g]
    <3>1. CASE g = f
      BY <1>7, <3>1
    <3>2. CASE g # f
      <4>1. count'[g] = count[g] /\ active'[g] = active[g]
        BY <1>1, <3>2, Shared
      <4>. QED  BY <2>1, <4>1, Place DEF Lists
    <3>. QED  BY <3>1, <3>2
  <2>2. \A g \in Threads, p \in Pools : used'[g][p] > 0 => p <= count'[g]
    <3>1. ASSUME NEW p \in Pools, used[f][p] > 0 PROVE p <= last
      <4>1. p <= count[f]
        BY <3>1, Place DEF Lists
      <4>2. p \in Nat /\ count[f] \in Nat
        BY Shared DEF Pools
      <4>. QED  BY <1>11, <4>1, <4>2
    <3>. QED  BY <1>1, <1>7, <3>1, Place, Shared DEF Lists
  <2>3. slot # None /\ count'[slot] > 0
    <3>1. slot # None
      BY <1>2, Place DEF Lists
    <3>2. slot \in Threads /\ count[slot] > 0
      BY <3>1, Place, Shared DEF Lists
    <3>. QED  BY <1>1, <1>3, <1>7, <3>1, <3>2, Shared
  <2>. QED  BY <1>1, <2>1, <2>2, <2>3 DEF Lists
<1>9. Fits(t, "test", f, last, 1)'
  <2>1. lock'[f] = t
    BY <1>0, <1>1, Place DEF Fits, Locked
  <2>. QED  BY <1>3, <1>7, <2>1 DEF Fits, Locked, InPool
<1>10. ASSUME NEW u \in Threads, u # t PROVE Spares(u)
  <2>1. /\ fsp[u] \in Threads /\ count[fsp[u]] \in Nat
        /\ \A k \in Part : free[fsp[u]][at[u]][k] \in Nat
    BY Shared
  <2>2. pc[u] \in Locked => fsp[u] # f
    BY <1>0, <1>1, <1>10, Exclusion DEF Locked
  <2>3. count'[fsp[u]] >= count[fsp[u]]
    BY <1>1, <1>3, <1>7, <2>1, Shared
  <2>4. pc[u] = "add" => count'[u] = count[u]
    <3>1. pc[u] = "add" => u # f
      BY <1>2, Place DEF Fits
    <3>. QED  BY <1>1, <3>1, Shared
  <2>5. fsp[u] # f => free'[fsp[u]] = free[fsp[u]]
    BY <1>1, <2>1, Shared
  <2>. QED  BY <1>1, <2>1, <2>2, <2>3, <2>4, <2>5 DEF Spares
<1>. QED  BY <1>1, <1>2, <1>3, <1>4, <1>5, <1>6, <1>8, <1>9, <1>10, Shared, Changes

(* The chunk was there; whoever else is in this fixed-size pool only gives *)
(* chunks back, so what it needs stays.                                    *)
LEMMA MallocStep == ASSUME IInv, NEW t \in Threads, Malloc(t) PROVE IInv'
<1>0. PICK f \in Threads, p \in Pools, k \in Part :
         f = fsp[t] /\ p = at[t] /\ k = part[t]
  BY Place
<1>1. /\ pc[t] = "malloc" /\ \A j \in Part : j >= k => free[f][p][j] > 0
      /\ lock[f] = t /\ count[f] > 0 /\ p <= count[f]
  BY <1>0, Place DEF Malloc, Fits, Locked, InPool
<1>2. k \in 1 .. 3 /\ free[f][p][k] > 0
  BY <1>1 DEF Part
<1>3. PICK c \in Nat : c = free[f][p][k] - 1
  <2>1. free[f][p][k] \in Nat
    BY Shared
  <2>. QED  BY <1>2, <2>1
<1>4. /\ free' = [free EXCEPT ![f][p][k] = c]
      /\ fsp' = [fsp EXCEPT ![t] = f] /\ at' = [at EXCEPT ![t] = p]
      /\ UNCHANGED <<slot, nextChunkCount, count, chunks, used, active, lock>>
  <2>1. free[fsp[t]][at[t]][part[t]] # 0
    BY <1>0, <1>2
  <2>2. free' = [free EXCEPT ![f] = [free[f] EXCEPT ![p][k] = c]]
    BY <1>0, <1>3, <2>1 DEF Malloc, Here
  <2>3. /\ fsp' = fsp /\ at' = at
        /\ UNCHANGED <<slot, nextChunkCount, count, chunks, used, active, lock>>
    BY DEF Malloc, made
  <2>4. [free EXCEPT ![f] = [free[f] EXCEPT ![p][k] = c]]
           = [free EXCEPT ![f][p][k] = c]
    BY Shared
  <2>. QED  BY <1>0, <2>2, <2>3, <2>4, Place
<1>5. free' \in [Threads -> [Pools -> [Part -> Nat]]]
  BY <1>4, Shared
<1>6. \A j \in Part : j # k => free'[f][p][j] = free[f][p][j]
  BY <1>4, Shared
<1>7. Lists'
  BY <1>4, Place DEF Lists
<1>8. ASSUME NEW u \in Threads, u # t PROVE Spares(u)
  <2>1. /\ fsp[u] \in Threads /\ count[fsp[u]] \in Nat
        /\ \A j \in Part : free[fsp[u]][at[u]][j] \in Nat
    BY Shared
  <2>2. pc[u] \in Locked => fsp[u] # f
    BY <1>0, <1>1, <1>8, Exclusion DEF Locked
  <2>3. fsp[u] # f => free'[fsp[u]] = free[fsp[u]]
    BY <1>4, <2>1, Shared
  <2>. QED  BY <1>4, <2>1, <2>2, <2>3 DEF Spares
<1>9. CASE k < 3
  <2>1. pc' = [pc EXCEPT ![t] = "malloc"] /\ part' = [part EXCEPT ![t] = k + 1]
    BY <1>0, <1>1, <1>2, <1>9, Place DEF Malloc, Here
  <2>2. "malloc" \in Places /\ k + 1 \in Part
    BY <1>2, <1>9 DEF Places, Part
  <2>3. \A j \in Part : j >= k + 1 => free'[f][p][j] > 0
    BY <1>1, <1>2, <1>6 DEF Part
  <2>4. Fits(t, "malloc", f, p, k + 1)'
    BY <1>1, <1>4, <2>3 DEF Fits, Locked, InPool
  <2>. QED  BY <1>4, <1>5, <1>7, <1>8, <2>1, <2>2, <2>4, Shared, Changes
<1>10. CASE ~(k < 3)
  <2>1. pc' = [pc EXCEPT ![t] = "allocated"] /\ part' = [part EXCEPT ![t] = 1]
    BY <1>0, <1>1, <1>2, <1>10, Place DEF Malloc, Here, Goto
  <2>2. "allocated" \in Places /\ 1 \in Part
    BY DEF Places, Part
  <2>3. Fits(t, "allocated", f, p, 1)'
    BY <1>1, <1>4 DEF Fits, Locked, InPool
  <2>. QED  BY <1>4, <1>5, <1>7, <1>8, <2>1, <2>2, <2>3, Shared, Changes
<1>. QED  BY <1>9, <1>10

(* A whole block comes from a pool of the list. *)
LEMMA AllocatedStep == ASSUME IInv, NEW t \in Threads, Allocated(t) PROVE IInv'
<1>0. PICK f \in Threads, p \in Pools : f = fsp[t] /\ p = at[t]
  BY Place
<1>1. pc[t] = "allocated" /\ part[t] = 1 /\ p <= count[f] /\ lock[f] = t
  BY <1>0, Place DEF Allocated, Fits, Locked, InPool
<1>2. PICK n \in Nat : n = used[f][p] + 1
  <2>1. used[f][p] \in Nat
    BY Shared
  <2>. QED  BY <2>1
<1>3. /\ used' = [used EXCEPT ![f][p] = n] /\ active' = [active EXCEPT ![f] = p]
      /\ lock' = [lock EXCEPT ![f] = None] /\ pc' = [pc EXCEPT ![t] = "idle"]
      /\ fsp' = [fsp EXCEPT ![t] = t] /\ at' = [at EXCEPT ![t] = 1]
      /\ part' = [part EXCEPT ![t] = 1]
      /\ UNCHANGED <<slot, nextChunkCount, count, chunks, free>>
  BY <1>0, <1>1, <1>2, Place DEF Allocated, Done, Goto, made
<1>4. used' \in [Threads -> [Pools -> Nat]] /\ active' \in [Threads -> Pools]
  BY <1>3, Shared
<1>5. lock' \in [Threads -> Threads \cup {None}]
  BY <1>3, Shared
<1>6. "idle" \in Places /\ 1 \in Pools /\ 1 \in Part
  BY BlockPoolAssumption DEF Places, Pools, Part
<1>7. Lists'
  <2>1. ASSUME NEW g \in Threads, count'[g] > 0 PROVE active'[g] <= count'[g]
    BY <1>1, <1>3, <2>1, Place, Shared DEF Lists
  <2>2. ASSUME NEW g \in Threads, NEW q \in Pools, used'[g][q] > 0
        PROVE  q <= count'[g]
    <3>1. CASE g = f /\ q = p
      BY <1>1, <1>3, <3>1
    <3>2. CASE ~(g = f /\ q = p)
      <4>1. used'[g][q] = used[g][q]
        BY <1>3, <3>2, Shared
      <4>. QED  BY <1>3, <2>2, <4>1, Place DEF Lists
    <3>. QED  BY <3>1, <3>2
  <2>. QED  BY <1>3, <2>1, <2>2, Place DEF Lists
<1>8. Fits(t, "idle", t, 1, 1)'
  BY DEF Fits, Locked, InPool
<1>9. ASSUME NEW u \in Threads, u # t PROVE Spares(u)
  <2>1. /\ fsp[u] \in Threads /\ count[fsp[u]] \in Nat
        /\ \A j \in Part : free[fsp[u]][at[u]][j] \in Nat
    BY Shared
  <2>2. pc[u] \in Locked => fsp[u] # f
    BY <1>0, <1>1, <1>9, Exclusion DEF Locked
  <2>3. fsp[u] # f => lock'[fsp[u]] = lock[fsp[u]]
    BY <1>3, <2>1, Shared
  <2>. QED  BY <1>3, <2>1, <2>2, <2>3 DEF Spares
<1>. QED  BY <1>3, <1>4, <1>5, <1>6, <1>7, <1>8, <1>9, Shared, Changes

(* A chunk that comes back takes nothing from anybody. *)
LEMMA Returned ==
  ASSUME IInv, NEW f \in Threads, NEW p \in Pools, NEW k \in Part,
         free' = [free EXCEPT ![f][p][k] = @ + 1],
         slot' = slot, count' = count, lock' = lock
  PROVE  /\ free' \in [Threads -> [Pools -> [Part -> Nat]]]
         /\ \A u \in Threads : Spares(u)
<1>1. \A g \in Threads, q \in Pools, j \in Part :
         free[g][q][j] \in Nat /\ free'[g][q][j] >= free[g][q][j]
  BY Shared
<1>2. free' \in [Threads -> [Pools -> [Part -> Nat]]]
  BY Shared
<1>3. ASSUME NEW u \in Threads PROVE Spares(u)
  <2>1. fsp[u] \in Threads /\ at[u] \in Pools /\ count[fsp[u]] \in Nat
    BY Shared
  <2>. QED  BY <1>1, <2>1 DEF Spares
<1>. QED  BY <1>2, <1>3

(* A block that is released comes from a pool of the list. *)
LEMMA ReleaseStep == ASSUME IInv, NEW t \in Threads, Release(t) PROVE IInv'
<1>0. PICK f \in Threads, p \in Pools :
         /\ used[f][p] > 0
         /\ used' = [used EXCEPT ![f][p] = @ - 1]
         /\ free' = [free EXCEPT ![f][p][1] = @ + 1]
         /\ fsp' = [fsp EXCEPT ![t] = f] /\ at' = [at EXCEPT ![t] = p]
  BY DEF Release
<1>1. pc[t] = "idle" /\ part[t] = 1
  BY Place DEF Release, Fits
<1>2. /\ pc' = [pc EXCEPT ![t] = "free_buffer"] /\ part' = [part EXCEPT ![t] = 1]
      /\ UNCHANGED <<slot, nextChunkCount, count, chunks, active, lock>>
  BY <1>1, Place DEF Release, Goto, made
<1>3. "free_buffer" \in Places /\ 1 \in Part
  BY DEF Places, Part
<1>4. \A g \in Threads, q \in Pools :
         used'[g][q] \in Nat /\ (used'[g][q] > 0 => used[g][q] > 0)
  <2>1. used[f][p] \in Nat /\ used[f][p] - 1 \in Nat
    BY <1>0, Shared
  <2>. QED  BY <1>0, <2>1, Shared
<1>5. used' \in [Threads -> [Pools -> Nat]]
  BY <1>0, <1>4, Shared
<1>6. Lists'
  BY <1>2, <1>4, Place DEF Lists
<1>7. Fits(t, "free_buffer", f, p, 1)'
  <2>1. p <= count'[f]
    BY <1>0, <1>2, Place DEF Lists
  <2>. QED  BY <2>1 DEF Fits, Locked, InPool
<1>8. /\ free' \in [Threads -> [Pools -> [Part -> Nat]]]
      /\ \A u \in Threads : Spares(u)
  BY <1>0, <1>2, <1>3, Returned
<1>. QED  BY <1>0, <1>2, <1>3, <1>5, <1>6, <1>7, <1>8, Shared, Changes

LEMMA FreeBufferStep == ASSUME IInv, NEW t \in Threads, FreeBuffer(t) PROVE IInv'
<1>0. PICK f \in Threads, p \in Pools : f = fsp[t] /\ p = at[t]
  BY Place
<1>1. pc[t] = "free_buffer" /\ part[t] = 1 /\ p <= count[f]
  BY <1>0, Place DEF FreeBuffer, Fits, InPool
<1>2. /\ pc' = [pc EXCEPT ![t] = "free_data"] /\ part' = [part EXCEPT ![t] = 1]
      /\ fsp' = [fsp EXCEPT ![t] = f] /\ at' = [at EXCEPT ![t] = p]
      /\ free' = [free EXCEPT ![f][p][3] = @ + 1]
      /\ UNCHANGED <<slot, nextChunkCount, count, chunks, used, active, lock>>
  BY <1>0, <1>1, Place DEF FreeBuffer, Goto, made
<1>3. "free_data" \in Places /\ 1 \in Part /\ 3 \in Part
  BY DEF Places, Part
<1>4. Lists'
  BY <1>2, Place DEF Lists
<1>5. Fits(t, "free_data", f, p, 1)'
  BY <1>1, <1>2 DEF Fits, Locked, InPool
<1>6. /\ free' \in [Threads -> [Pools -> [Part -> Nat]]]
      /\ \A u \in Threads : Spares(u)
  BY <1>2, <1>3, Returned
<1>. QED  BY <1>2, <1>3, <1>4, <1>5, <1>6, Shared, Changes

LEMMA FreeDataStep == ASSUME IInv, NEW t \in Threads, FreeData(t) PROVE IInv'
<1>0. PICK f \in Threads, p \in Pools : f = fsp[t] /\ p = at[t]
  BY Place
<1>1. pc[t] = "free_data" /\ part[t] = 1
  BY Place DEF FreeData, Fits
<1>2. /\ pc' = [pc EXCEPT ![t] = "idle"] /\ part' = [part EXCEPT ![t] = 1]
      /\ fsp' = [fsp EXCEPT ![t] = t] /\ at' = [at EXCEPT ![t] = 1]
      /\ free' = [free EXCEPT ![f][p][2] = @ + 1]
      /\ UNCHANGED <<slot, nextChunkCount, count, chunks, used, active, lock>>
  BY <1>0, <1>1, Place DEF FreeData, Done, Goto, made
<1>3. "idle" \in Places /\ 1 \in Pools /\ 1 \in Part /\ 2 \in Part
  BY BlockPoolAssumption DEF Places, Pools, Part
<1>4. Lists'
  BY <1>2, Place DEF Lists
<1>5. Fits(t, "idle", t, 1, 1)'
  BY DEF Fits, Locked, InPool
<1>6. /\ free' \in [Threads -> [Pools -> [Part -> Nat]]]
      /\ \A u \in Threads : Spares(u)
  BY <1>2, <1>3, Returned
<1>. QED  BY <1>2, <1>3, <1>4, <1>5, <1>6, Shared, Changes

(* One case per action. *)
LEMMA StepIInv == ASSUME IInv, [Next]_vars PROVE IInv'
<1>1. ASSUME NEW t \in Threads, Step(t) PROVE IInv'
  <2>1. CASE Allocate(t)      BY <2>1, AllocateStep
  <2>2. CASE AddBlockPool(t)  BY <2>2, AddBlockPoolStep
  <2>3. CASE Added(t)         BY <2>3, AddedStep
  <2>4. CASE Acquire(t)       BY <2>4, AcquireStep
  <2>5. CASE Found(t)         BY <2>5, FoundStep
  <2>6. CASE TryOthers(t)     BY <2>6, TryOthersStep
  <2>7. CASE TryNext(t)       BY <2>7, TryNextStep
  <2>8. CASE MakePool(t)      BY <2>8, MakePoolStep
  <2>9. CASE Malloc(t)        BY <2>9, MallocStep
  <2>10. CASE Allocated(t)    BY <2>10, AllocatedStep
  <2>11. CASE Release(t)      BY <2>11, ReleaseStep
  <2>12. CASE FreeBuffer(t)   BY <2>12, FreeBufferStep
  <2>13. CASE FreeData(t)     BY <2>13, FreeDataStep
  <2>. QED  BY <1>1, <2>1, <2>2, <2>3, <2>4, <2>5, <2>6, <2>7, <2>8, <2>9,
               <2>10, <2>11, <2>12, <2>13 DEF Step
<1>2. CASE UNCHANGED vars
  BY <1>2 DEF vars, made, IInv, Types, Lists, ThreadInv, Fits
<1>. QED  BY <1>1, <1>2 DEF Next

(* The state has its types; what is looked at is a pool of the list.       *)
THEOREM TypeCorrect == Spec => []TypeOK
<1>1. IInv => TypeOK
  BY DEF IInv, Types, Lists, ThreadInv, Fits, TypeOK, Places, Locked, InPool
<1>. QED  BY InitIInv, StepIInv, <1>1, PTL DEF Spec

(* Once the three depths were tested the three chunks are there: no        *)
(* allocation breaks off (MessageBlockPool.cpp:28-58).                     *)
THEOREM WholeBlocks == Spec => []AllocationWhole
<1>1. IInv => AllocationWhole
  BY DEF IInv, ThreadInv, Fits, AllocationWhole
<1>. QED  BY InitIInv, StepIInv, <1>1, PTL DEF Spec

-----------------------------------------------------------------------------
(* Whether thread t has part k of a block of pool p, as a number: it has   *)
(* one at most.                                                            *)
Has(t, f, p, k) == t \in Held(f, p, k)
Share(t, f, p, k) == IF Has(t, f, p, k) THEN 1 ELSE 0

(* A step of one thread changes only its own share.                        *)
LEMMA HeldStep ==
    ASSUME NEW t \in Threads, NEW f, NEW p, NEW k,
           \A u \in Threads \ {t} : /\ pc'[u] = pc[u] /\ fsp'[u] = fsp[u]
                                    /\ at'[u] = at[u] /\ part'[u] = part[u]
    PROVE  /\ Cardinality(Held(f, p, k)) \in Nat
           /\ Cardinality(Held(f, p, k)') \in Nat
           /\ Cardinality(Held(f, p, k)') + Share(t, f, p, k)
                = Cardinality(Held(f, p, k)) + Share(t, f, p, k)'
<1> DEFINE A == Held(f, p, k)
           B == Held(f, p, k)'
<1>1. A \subseteq Threads /\ B \subseteq Threads
  BY DEF Held
<1>2. IsFiniteSet(A) /\ IsFiniteSet(B)
  BY <1>1, BlockPoolAssumption, FS_Subset
<1>3. \A u \in Threads \ {t} : u \in A <=> u \in B
  BY DEF Held
<1>4. /\ Share(t, f, p, k) = IF t \in A THEN 1 ELSE 0
      /\ Share(t, f, p, k)' = IF t \in B THEN 1 ELSE 0
  BY DEF Share, Has
<1> HIDE DEF A, B
<1>5. CASE t \in A <=> t \in B
  <2>1. A = B
    BY <1>1, <1>3, <1>5
  <2>2. Cardinality(A) \in Nat
    BY <1>2, FS_CardinalityType
  <2>3. QED
    BY <1>4, <2>1, <2>2 DEF A, B
<1>6. CASE t \in A /\ t \notin B
  <2>1. A = B \cup {t}
    BY <1>1, <1>3, <1>6
  <2>2. Cardinality(B) \in Nat /\ Cardinality(B \cup {t}) = Cardinality(B) + 1
    BY <1>2, <1>6, FS_CardinalityType, FS_AddElement
  <2>3. QED
    BY <1>4, <1>6, <2>1, <2>2 DEF A, B
<1>7. CASE t \notin A /\ t \in B
  <2>1. B = A \cup {t}
    BY <1>1, <1>3, <1>7
  <2>2. Cardinality(A) \in Nat /\ Cardinality(A \cup {t}) = Cardinality(A) + 1
    BY <1>2, <1>7, FS_CardinalityType, FS_AddElement
  <2>3. QED
    BY <1>4, <1>7, <2>1, <2>2 DEF A, B
<1>8. QED
  BY <1>5, <1>6, <1>7

(* The books balance after a step of t when, for every part of every pool, *)
(* what the step frees, puts to use or takes comes to what it adds to the  *)
(* pool.                                                                   *)
Balanced(t) ==
    \A f \in Threads, p \in Pools, k \in Part :
        free'[f][p][k] + used'[f][p] + Share(t, f, p, k)' + chunks[f][p]
          = free[f][p][k] + used[f][p] + Share(t, f, p, k) + chunks'[f][p]

Alone(t) == \A u \in Threads \ {t} : /\ pc'[u] = pc[u] /\ fsp'[u] = fsp[u]
                                     /\ at'[u] = at[u] /\ part'[u] = part[u]

LEMMA BalancedStep ==
    ASSUME Types, Types', NEW t \in Threads, Alone(t), Balanced(t), Conserved
    PROVE  Conserved'
<1> SUFFICES ASSUME NEW f \in Threads, NEW p \in Pools, NEW k \in Part
             PROVE  free'[f][p][k] + used'[f][p] + Cardinality(Held(f, p, k)')
                      = chunks'[f][p]
  BY DEF Conserved
<1>1. /\ free[f][p][k] \in Nat /\ used[f][p] \in Nat /\ chunks[f][p] \in Nat
      /\ free'[f][p][k] \in Nat /\ used'[f][p] \in Nat
      /\ chunks'[f][p] \in Nat
  BY DEF Types
<1>2. free[f][p][k] + used[f][p] + Cardinality(Held(f, p, k)) = chunks[f][p]
  BY DEF Conserved
<1>3. free'[f][p][k] + used'[f][p] + Share(t, f, p, k)' + chunks[f][p]
        = free[f][p][k] + used[f][p] + Share(t, f, p, k) + chunks'[f][p]
  BY DEF Balanced
<1>4. /\ Cardinality(Held(f, p, k)) \in Nat
      /\ Cardinality(Held(f, p, k)') \in Nat
      /\ Cardinality(Held(f, p, k)') + Share(t, f, p, k)
           = Cardinality(Held(f, p, k)) + Share(t, f, p, k)'
  BY HeldStep DEF Alone
<1>5. Share(t, f, p, k) \in {0, 1} /\ Share(t, f, p, k)' \in {0, 1}
  BY DEF Share
<1> DEFINE h == Cardinality(Held(f, p, k))
           hh == Cardinality(Held(f, p, k)')
           m == Share(t, f, p, k)
           mm == Share(t, f, p, k)'
<1>6. /\ h \in Nat /\ hh \in Nat /\ m \in Nat /\ mm \in Nat
      /\ hh + m = h + mm
      /\ free[f][p][k] + used[f][p] + h = chunks[f][p]
      /\ free'[f][p][k] + used'[f][p] + mm + chunks[f][p]
           = free[f][p][k] + used[f][p] + m + chunks'[f][p]
  BY <1>2, <1>3, <1>4, <1>5
<1> HIDE DEF h, hh, m, mm
<1>7. free'[f][p][k] + used'[f][p] + hh = chunks'[f][p]
  BY <1>1, <1>6
<1>8. QED
  BY <1>7 DEF hh

(* A thread that holds nothing before or after a step that takes nothing.  *)
Idle(t) == pc[t] \notin {"malloc", "allocated", "free_buffer", "free_data"}

LEMMA IdleShare ==
    ASSUME NEW t, NEW f, NEW p, NEW k, Idle(t)
    PROVE  Share(t, f, p, k) = 0
  BY DEF Idle, Share, Has, Held

LEMMA UntakenBalanced ==
    ASSUME Types, NEW t \in Threads, UNCHANGED <<free, used, chunks>>,
           \A f \in Threads, p \in Pools, k \in Part :
               Share(t, f, p, k) = 0 /\ Share(t, f, p, k)' = 0
    PROVE  Balanced(t)
<1>1. ASSUME NEW f \in Threads, NEW p \in Pools, NEW k \in Part
      PROVE  free'[f][p][k] + used'[f][p] + Share(t, f, p, k)' + chunks[f][p]
               = free[f][p][k] + used[f][p] + Share(t, f, p, k) + chunks'[f][p]
  <2>1. Share(t, f, p, k) = 0 /\ Share(t, f, p, k)' = 0
    OBVIOUS
  <2>2. free' = free /\ used' = used /\ chunks' = chunks
    OBVIOUS
  <2>3. QED
    BY <2>1, <2>2
<1>2. QED
  BY <1>1 DEF Balanced

(* A step that moves only its thread, holding nothing ... *)
LEMMA LooksBalanced ==
    ASSUME IInv, NEW t \in Threads,
           \/ Allocate(t) \/ Added(t) \/ Acquire(t) \/ Found(t)
           \/ TryOthers(t) \/ TryNext(t)
    PROVE  Balanced(t)
<1>1. UNCHANGED <<free, used, chunks>>
  BY DEF Allocate, Added, Acquire, Found, TryOthers, TryNext, made
<1>2. Idle(t)
  BY DEF Idle, Allocate, Added, Acquire, Found, TryOthers, TryNext
<1>3. Types /\ pc'[t] # "malloc" => Idle(t)'
  BY DEF Idle, Allocate, Added, Acquire, Found, TryOthers, TryNext, Goto, Types
<1>4. Types /\ pc'[t] = "malloc" => part'[t] = 1
  BY DEF Allocate, Added, Acquire, Found, TryOthers, TryNext, Goto, Types
<1>5. Types
  BY DEF IInv
<1>6. ASSUME NEW f \in Threads, NEW p \in Pools, NEW k \in Part
      PROVE  Share(t, f, p, k) = 0 /\ Share(t, f, p, k)' = 0
  <2>1. CASE pc'[t] = "malloc"
    <3>1. ~(k < 1)
      BY DEF Part
    <3>2. QED
      BY <1>2, <1>4, <1>5, <2>1, <3>1, IdleShare DEF Share, Has, Held
  <2>2. CASE pc'[t] # "malloc"
    BY <1>2, <1>3, <1>5, <2>2, IdleShare DEF Share, Has, Held, Idle
  <2>3. QED
    BY <2>1, <2>2
<1>7. QED
  BY <1>1, <1>5, <1>6, UntakenBalanced

(* ... a new block pool, whose place in the list nobody was at ... *)
LEMMA NewPoolBalanced ==
    ASSUME IInv, Conserved, NEW t \in Threads, NEW f \in Threads,
           count[f] < MaxPools, NewPool(f), UNCHANGED used, Idle(t), Idle(t)'
    PROVE  Balanced(t)
<1> DEFINE last == count[f] + 1
           n == nextChunkCount[f]
<1>1. Types /\ Lists /\ \A u \in Threads : ThreadInv(u)
  BY DEF IInv
<1>2. count[f] \in Nat /\ last \in Pools /\ n \in Nat
  <2>1. count[f] \in Nat /\ n \in Nat
    BY Shared
  <2>2. QED
    BY <2>1, BlockPoolAssumption DEF Pools
<1>3. /\ chunks' = [chunks EXCEPT ![f][last] = n]
      /\ free' = [free EXCEPT ![f][last] = [k \in Part |-> n]]
  BY DEF NewPool
<1>4. ASSUME NEW k \in Part
      PROVE  free[f][last][k] = chunks[f][last] /\ used[f][last] = 0
  <2>1. ~(last <= count[f])
    BY <1>2
  <2>2. used[f][last] = 0
    BY <1>1, <1>2, <2>1 DEF Lists, Types
  <2>3. Held(f, last, k) = {}
    <3>1. ASSUME NEW u \in Held(f, last, k)
          PROVE  FALSE
      <4>1. u \in Threads /\ fsp[u] = f /\ at[u] = last /\ pc[u] \in InPool
        BY <3>1 DEF Held, InPool
      <4>2. at[u] <= count[fsp[u]]
        BY <1>1, <4>1 DEF ThreadInv, Fits
      <4>3. QED
        BY <2>1, <4>1, <4>2
    <3>2. QED
      BY <3>1
  <2>4. free[f][last][k] + used[f][last] + Cardinality(Held(f, last, k))
          = chunks[f][last]
    BY <1>2 DEF Conserved
  <2>5. Cardinality(Held(f, last, k)) = 0
    BY <2>3, FS_EmptySet
  <2>6. free[f][last][k] \in Nat
    BY <1>1, <1>2 DEF Types
  <2>7. QED
    BY <2>2, <2>4, <2>5, <2>6
<1>5. ASSUME NEW g \in Threads, NEW p \in Pools, NEW k \in Part
      PROVE  free'[g][p][k] + used'[g][p] + Share(t, g, p, k)' + chunks[g][p]
               = free[g][p][k] + used[g][p] + Share(t, g, p, k) + chunks'[g][p]
  <2>1. Share(t, g, p, k) = 0 /\ Share(t, g, p, k)' = 0
    BY IdleShare DEF Share, Has, Held, Idle
  <2>2. free[g][p][k] \in Nat /\ used[g][p] \in Nat /\ chunks[g][p] \in Nat
    BY <1>1 DEF Types
  <2>3. CASE g = f /\ p = last
    <3>1. free'[g][p][k] = n /\ chunks'[g][p] = n
      BY <1>1, <1>2, <1>3, <2>3 DEF Types
    <3>2. free[g][p][k] = chunks[g][p] /\ used'[g][p] = used[g][p]
      BY <1>4, <2>3
    <3>3. QED
      BY <1>2, <2>1, <2>2, <3>1, <3>2
  <2>4. CASE ~(g = f /\ p = last)
    <3>1. /\ free'[g][p][k] = free[g][p][k] /\ chunks'[g][p] = chunks[g][p]
          /\ used'[g][p] = used[g][p]
      BY <1>1, <1>2, <1>3, <2>4 DEF Types
    <3>2. QED
      BY <2>1, <2>2, <3>1
  <2>5. QED
    BY <2>3, <2>4
<1>6. QED
  BY <1>5 DEF Balanced

(* ... the steps that hand on a part: it leaves the free ones or the used  *)
(* ones and is with the thread, or the other way round.                    *)
HandsOn(t, f, p) ==
    \A k \in Part :
        free'[f][p][k] + used'[f][p] + Share(t, f, p, k)'
          = free[f][p][k] + used[f][p] + Share(t, f, p, k)

LEMMA HandedBalanced ==
    ASSUME Types, NEW t \in Threads, NEW f \in Threads, NEW p \in Pools,
           UNCHANGED chunks, HandsOn(t, f, p),
           \A g \in Threads, q \in Pools, k \in Part :
               ~(g = f /\ q = p) => /\ free'[g][q][k] = free[g][q][k]
                                   /\ used'[g][q] = used[g][q]
                                   /\ Share(t, g, q, k) = 0
                                   /\ Share(t, g, q, k)' = 0
    PROVE  Balanced(t)
<1>1. ASSUME NEW g \in Threads, NEW q \in Pools, NEW k \in Part
      PROVE  free'[g][q][k] + used'[g][q] + Share(t, g, q, k)' + chunks[g][q]
               = free[g][q][k] + used[g][q] + Share(t, g, q, k) + chunks'[g][q]
  <2>1. chunks'[g][q] = chunks[g][q]
    OBVIOUS
  <2>2. CASE g = f /\ q = p
    BY <2>1, <2>2 DEF HandsOn
  <2>3. CASE ~(g = f /\ q = p)
    <3>1. /\ free'[g][q][k] = free[g][q][k] /\ used'[g][q] = used[g][q]
          /\ Share(t, g, q, k) = 0 /\ Share(t, g, q, k)' = 0
      BY <2>3
    <3>2. QED
      BY <2>1, <3>1
  <2>4. QED
    BY <2>2, <2>3
<1>2. QED
  BY <1>1 DEF Balanced

(* A thread holds parts of no pool but the one it is at. *)
LEMMA ElsewhereShare ==
    ASSUME NEW t, NEW f, NEW p, NEW k, ~(fsp[t] = f /\ at[t] = p)
    PROVE  Share(t, f, p, k) = 0
  BY DEF Share, Has, Held

(* What it holds of that one, by where it is. *)
LEMMA ShareIs ==
    ASSUME NEW t \in Threads, NEW f, NEW p, NEW k, fsp[t] = f, at[t] = p
    PROVE  /\ pc[t] = "malloc" =>
                 Share(t, f, p, k) = IF k < part[t] THEN 1 ELSE 0
           /\ pc[t] = "allocated" => Share(t, f, p, k) = 1
           /\ pc[t] = "free_buffer" =>
                 Share(t, f, p, k) = IF k \in {2, 3} THEN 1 ELSE 0
           /\ pc[t] = "free_data" =>
                 Share(t, f, p, k) = IF k = 2 THEN 1 ELSE 0
           /\ Idle(t) => Share(t, f, p, k) = 0
  BY DEF Share, Has, Held, Idle

(* The same after a step. *)
LEMMA ShareIsNext ==
    ASSUME NEW t \in Threads, NEW f, NEW p, NEW k, fsp'[t] = f, at'[t] = p
    PROVE  /\ pc'[t] = "malloc" =>
                 Share(t, f, p, k)' = IF k < part'[t] THEN 1 ELSE 0
           /\ pc'[t] = "allocated" => Share(t, f, p, k)' = 1
           /\ pc'[t] = "free_buffer" =>
                 Share(t, f, p, k)' = IF k \in {2, 3} THEN 1 ELSE 0
           /\ pc'[t] = "free_data" =>
                 Share(t, f, p, k)' = IF k = 2 THEN 1 ELSE 0
  BY DEF Share, Has, Held

LEMMA NoShareNext ==
    ASSUME NEW t, NEW f, NEW p, NEW k,
           pc'[t] = "idle" \/ ~(fsp'[t] = f /\ at'[t] = p)
    PROVE  Share(t, f, p, k)' = 0
  BY DEF Share, Has, Held

(* A chunk that was free is the thread's, a block is put to use, and what  *)
(* is released goes back part by part.                                     *)
LEMMA MallocBalanced == ASSUME IInv, NEW t \in Threads, Malloc(t)
                        PROVE  Balanced(t)
<1>0. PICK f \in Threads, p \in Pools, k \in Part :
         f = fsp[t] /\ p = at[t] /\ k = part[t]
  BY Place
<1>1. Types /\ pc[t] = "malloc" /\ k \in 1 .. 3 /\ free[f][p][k] > 0
  <2>1. pc[t] = "malloc" /\ Types /\ k \in 1 .. 3
    BY Place DEF Malloc, Part
  <2>2. \A j \in Part : j >= k => free[f][p][j] > 0
    BY <1>0, <2>1, Place DEF Fits
  <2>3. QED
    BY <2>1, <2>2
<1>2. /\ free' = [free EXCEPT ![f] = [free[f] EXCEPT ![p][k] = @ - 1]]
      /\ UNCHANGED used /\ UNCHANGED chunks
      /\ fsp' = fsp /\ at' = at
      /\ IF k < 3 THEN part' = [part EXCEPT ![t] = k + 1] /\ UNCHANGED pc
                  ELSE pc' = [pc EXCEPT ![t] = "allocated"]
  <2>1. ~(free[fsp[t]][at[t]][part[t]] = 0)
    BY <1>0, <1>1
  <2>2. QED
    BY <1>0, <2>1 DEF Malloc, Here, Goto, made
<1>3. /\ pc'[t] = IF k < 3 THEN "malloc" ELSE "allocated"
      /\ k < 3 => part'[t] = k + 1
  BY <1>1, <1>2 DEF Types
<1>4. \A g \in Threads, q \in Pools, j \in Part :
         /\ free[g][q][j] \in Nat /\ used[g][q] \in Nat
         /\ free'[g][q][j] = IF g = f /\ q = p /\ j = k THEN free[g][q][j] - 1
                                                      ELSE free[g][q][j]
  BY <1>1, <1>2 DEF Types
<1>5. ASSUME NEW j \in Part
      PROVE  free'[f][p][j] + used'[f][p] + Share(t, f, p, j)'
               = free[f][p][j] + used[f][p] + Share(t, f, p, j)
  <2>1. j \in 1 .. 3
    BY DEF Part
  <2>2. Share(t, f, p, j) = IF j < k THEN 1 ELSE 0
    BY <1>0, <1>1, ShareIs
  <2>3. Share(t, f, p, j)' = IF j < k \/ j = k THEN 1 ELSE 0
    <3>1. CASE k < 3
      <4>1. Share(t, f, p, j)' = IF j < k + 1 THEN 1 ELSE 0
        BY <1>0, <1>2, <1>3, <3>1, ShareIsNext
      <4>2. QED
        BY <1>1, <2>1, <4>1
    <3>2. CASE ~(k < 3)
      <4>1. Share(t, f, p, j)' = 1
        BY <1>0, <1>2, <1>3, <3>2, ShareIsNext
      <4>2. QED
        BY <1>1, <2>1, <3>2, <4>1
    <3>3. QED
      BY <3>1, <3>2
  <2>4. /\ free[f][p][j] \in Nat /\ used[f][p] \in Nat
        /\ free'[f][p][j] = IF j = k THEN free[f][p][j] - 1 ELSE free[f][p][j]
        /\ used'[f][p] = used[f][p]
    BY <1>2, <1>4
  <2>5. QED
    BY <1>1, <2>1, <2>2, <2>3, <2>4
<1>6. ASSUME NEW g \in Threads, NEW q \in Pools, NEW j \in Part,
             ~(g = f /\ q = p)
      PROVE  /\ free'[g][q][j] = free[g][q][j] /\ used'[g][q] = used[g][q]
             /\ Share(t, g, q, j) = 0 /\ Share(t, g, q, j)' = 0
  BY <1>0, <1>2, <1>4, <1>6, ElsewhereShare, NoShareNext
<1>7. QED
  BY <1>1, <1>2, <1>5, <1>6, HandedBalanced DEF HandsOn

LEMMA AllocatedBalanced == ASSUME IInv, NEW t \in Threads, Allocated(t)
                           PROVE  Balanced(t)
<1>0. PICK f \in Threads, p \in Pools : f = fsp[t] /\ p = at[t]
  BY Place
<1>1. /\ Types /\ pc[t] = "allocated" /\ pc'[t] = "idle"
      /\ used' = [used EXCEPT ![f][p] = @ + 1]
      /\ UNCHANGED free /\ UNCHANGED chunks
  <2>1. Types /\ pc \in [Threads -> Places]
    BY Place, Shared
  <2>2. pc' = [pc EXCEPT ![t] = "idle"] /\ pc[t] = "allocated"
    BY DEF Allocated, Done, Goto
  <2>3. QED
    BY <1>0, <2>1, <2>2 DEF Allocated, made
<1>2. \A g \in Threads, q \in Pools, j \in Part :
         /\ free[g][q][j] \in Nat /\ used[g][q] \in Nat
         /\ used'[g][q] = IF g = f /\ q = p THEN used[g][q] + 1 ELSE used[g][q]
  BY <1>1 DEF Types
<1>3. ASSUME NEW j \in Part
      PROVE  free'[f][p][j] + used'[f][p] + Share(t, f, p, j)'
               = free[f][p][j] + used[f][p] + Share(t, f, p, j)
  <2>1. Share(t, f, p, j) = 1 /\ Share(t, f, p, j)' = 0
    BY <1>0, <1>1, ShareIs, NoShareNext
  <2>2. /\ free[f][p][j] \in Nat /\ used[f][p] \in Nat
        /\ free'[f][p][j] = free[f][p][j] /\ used'[f][p] = used[f][p] + 1
    BY <1>1, <1>2
  <2>3. QED
    BY <2>1, <2>2
<1>4. ASSUME NEW g \in Threads, NEW q \in Pools, NEW j \in Part,
             ~(g = f /\ q = p)
      PROVE  /\ free'[g][q][j] = free[g][q][j] /\ used'[g][q] = used[g][q]
             /\ Share(t, g, q, j) = 0 /\ Share(t, g, q, j)' = 0
  BY <1>0, <1>1, <1>2, <1>4, ElsewhereShare, NoShareNext
<1>5. QED
  BY <1>1, <1>3, <1>4, HandedBalanced DEF HandsOn

LEMMA ReleaseBalanced == ASSUME IInv, NEW t \in Threads, Release(t)
                         PROVE  Balanced(t)
<1>0. PICK f \in Threads, p \in Pools :
         /\ used[f][p] > 0
         /\ used' = [used EXCEPT ![f][p] = @ - 1]
         /\ free' = [free EXCEPT ![f][p][1] = @ + 1]
         /\ fsp' = [fsp EXCEPT ![t] = f] /\ at' = [at EXCEPT ![t] = p]
  BY DEF Release
<1>1. /\ Types /\ Idle(t) /\ pc'[t] = "free_buffer"
      /\ fsp'[t] = f /\ at'[t] = p /\ UNCHANGED chunks
  <2>1. /\ Types /\ pc \in [Threads -> Places]
        /\ fsp \in [Threads -> Threads] /\ at \in [Threads -> Pools]
    BY Place, Shared
  <2>2. /\ pc[t] = "idle" /\ pc' = [pc EXCEPT ![t] = "free_buffer"]
        /\ UNCHANGED chunks
    BY DEF Release, Goto, made
  <2>3. QED
    BY <1>0, <2>1, <2>2 DEF Idle
<1>2. \A g \in Threads, q \in Pools, j \in Part :
         /\ free[g][q][j] \in Nat /\ used[g][q] \in Nat
         /\ used'[g][q] = IF g = f /\ q = p THEN used[g][q] - 1 ELSE used[g][q]
         /\ free'[g][q][j] = IF g = f /\ q = p /\ j = 1 THEN free[g][q][j] + 1
                                                      ELSE free[g][q][j]
  <2>1. 1 \in Part
    BY DEF Part
  <2>2. QED
    BY <1>0, <1>1, <2>1 DEF Types
<1>3. ASSUME NEW j \in Part
      PROVE  free'[f][p][j] + used'[f][p] + Share(t, f, p, j)'
               = free[f][p][j] + used[f][p] + Share(t, f, p, j)
  <2>1. /\ Share(t, f, p, j) = 0
        /\ Share(t, f, p, j)' = IF j \in {2, 3} THEN 1 ELSE 0
    BY <1>1, IdleShare, ShareIsNext
  <2>2. /\ free[f][p][j] \in Nat /\ used[f][p] \in Nat
        /\ free'[f][p][j] = IF j = 1 THEN free[f][p][j] + 1 ELSE free[f][p][j]
        /\ used'[f][p] = used[f][p] - 1
    BY <1>2
  <2>3. j \in 1 .. 3
    BY DEF Part
  <2>4. QED
    BY <2>1, <2>2, <2>3
<1>4. ASSUME NEW g \in Threads, NEW q \in Pools, NEW j \in Part,
             ~(g = f /\ q = p)
      PROVE  /\ free'[g][q][j] = free[g][q][j] /\ used'[g][q] = used[g][q]
             /\ Share(t, g, q, j) = 0 /\ Share(t, g, q, j)' = 0
  BY <1>1, <1>2, <1>4, IdleShare, NoShareNext
<1>5. QED
  BY <1>1, <1>3, <1>4, HandedBalanced DEF HandsOn

LEMMA FreeBalanced ==
    ASSUME IInv, NEW t \in Threads, FreeBuffer(t) \/ FreeData(t)
    PROVE  Balanced(t)
<1>0. PICK f \in Threads, p \in Pools : f = fsp[t] /\ p = at[t]
  BY Place
<1>1. PICK k \in {2, 3} :
         /\ Types
         /\ free' = [free EXCEPT ![f][p][k] = @ + 1]
         /\ UNCHANGED used /\ UNCHANGED chunks
         /\ \/ /\ k = 3 /\ pc[t] = "free_buffer" /\ pc'[t] = "free_data"
               /\ fsp'[t] = f /\ at'[t] = p
            \/ k = 2 /\ pc[t] = "free_data" /\ pc'[t] = "idle"
  <2>1. Types
    BY Place
  <2>2. CASE FreeBuffer(t)
    <3>1. /\ free' = [free EXCEPT ![f][p][3] = @ + 1]
          /\ UNCHANGED used /\ UNCHANGED chunks
          /\ pc[t] = "free_buffer" /\ pc'[t] = "free_data"
          /\ fsp'[t] = f /\ at'[t] = p
      BY <1>0, <2>1, <2>2 DEF FreeBuffer, Goto, made, Types
    <3>2. QED
      BY <2>1, <3>1
  <2>3. CASE FreeData(t)
    <3>1. /\ free' = [free EXCEPT ![f][p][2] = @ + 1]
          /\ UNCHANGED used /\ UNCHANGED chunks
          /\ pc[t] = "free_data" /\ pc'[t] = "idle"
      BY <1>0, <2>1, <2>3 DEF FreeData, Done, Goto, made, Types
    <3>2. QED
      BY <2>1, <3>1
  <2>4. QED
    BY <2>2, <2>3
<1>2. \A g \in Threads, q \in Pools, j \in Part :
         /\ free[g][q][j] \in Nat /\ used[g][q] \in Nat
         /\ free'[g][q][j] = IF g = f /\ q = p /\ j = k THEN free[g][q][j] + 1
                                                      ELSE free[g][q][j]
  <2>1. k \in Part /\ free' = [free EXCEPT ![f][p][k] = @ + 1]
    BY <1>1 DEF Part
  <2>2. /\ free \in [Threads -> [Pools -> [Part -> Nat]]]
        /\ used \in [Threads -> [Pools -> Nat]]
    BY Shared
  <2>3. QED
    BY <2>1, <2>2
<1>3. ASSUME NEW j \in Part
      PROVE  free'[f][p][j] + used'[f][p] + Share(t, f, p, j)'
               = free[f][p][j] + used[f][p] + Share(t, f, p, j)
  <2>1. CASE k = 3
    <3>1. /\ Share(t, f, p, j) = IF j \in {2, 3} THEN 1 ELSE 0
          /\ Share(t, f, p, j)' = IF j = 2 THEN 1 ELSE 0
      BY <1>0, <1>1, <2>1, ShareIs, ShareIsNext
    <3>2. QED
      BY <1>1, <1>2, <2>1, <3>1
  <2>2. CASE k = 2
    <3>1. /\ Share(t, f, p, j) = IF j = 2 THEN 1 ELSE 0
          /\ Share(t, f, p, j)' = 0
      BY <1>0, <1>1, <2>2, ShareIs, NoShareNext
    <3>2. QED
      BY <1>1, <1>2, <2>2, <3>1
  <2>3. QED
    BY <1>1, <2>1, <2>2
<1>4. ASSUME NEW g \in Threads, NEW q \in Pools, NEW j \in Part,
             ~(g = f /\ q = p)
      PROVE  /\ free'[g][q][j] = free[g][q][j] /\ used'[g][q] = used[g][q]
             /\ Share(t, g, q, j) = 0 /\ Share(t, g, q, j)' = 0
  BY <1>0, <1>1, <1>2, <1>4, ElsewhereShare, NoShareNext
<1>5. QED
  BY <1>1, <1>3, <1>4, HandedBalanced DEF HandsOn

(* A step of a thread leaves the others where they are. *)
LEMMA StepAlone ==
    ASSUME IInv, NEW t \in Threads, Step(t)
    PROVE  Alone(t)
<1> USE Shared DEF Alone, Goto, Done
<1>1. CASE Allocate(t) \/ AddBlockPool(t) \/ Added(t) \/ Acquire(t)
  BY <1>1 DEF Allocate, AddBlockPool, Added, Acquire
<1>2. CASE Found(t) \/ TryOthers(t)
  BY <1>2 DEF Found, TryOthers
<1>3. CASE TryNext(t) \/ MakePool(t)
  BY <1>3 DEF TryNext, MakePool
<1>4. CASE Malloc(t)
  BY <1>4 DEF Malloc
<1>5. CASE Allocated(t) \/ Release(t)
  BY <1>5 DEF Allocated, Release
<1>6. CASE FreeBuffer(t) \/ FreeData(t)
  BY <1>6 DEF FreeBuffer, FreeData
<1>7. QED
  BY <1>1, <1>2, <1>3, <1>4, <1>5, <1>6 DEF Step

(* One case per kind of action. *)
LEMMA StepBalanced ==
    ASSUME IInv, Conserved, NEW t \in Threads, Step(t)
    PROVE  Balanced(t)
<1>1. CASE \/ Allocate(t) \/ Added(t) \/ Acquire(t) \/ Found(t)
           \/ TryOthers(t) \/ TryNext(t)
  BY <1>1, LooksBalanced
<1>2. CASE AddBlockPool(t)
  <2>1. /\ NewPool(t) /\ UNCHANGED used /\ Idle(t)
        /\ pc' = [pc EXCEPT ![t] = "added"]
    BY <1>2 DEF AddBlockPool, Goto, Idle
  <2>2. Idle(t)' /\ count[t] < MaxPools
    <3>1. count[t] = 0
      BY <1>2, Place DEF AddBlockPool, Fits
    <3>2. pc'[t] = "added"
      BY <2>1, Shared
    <3>3. QED
      BY <3>1, <3>2, BlockPoolAssumption DEF Idle
  <2>3. QED
    BY <2>1, <2>2, NewPoolBalanced
<1>3. CASE MakePool(t)
  <2>1. /\ fsp[t] \in Threads /\ NewPool(fsp[t]) /\ UNCHANGED used /\ Idle(t)
        /\ pc' = [pc EXCEPT ![t] = "test"] /\ count[fsp[t]] < MaxPools
    BY <1>3, Shared DEF MakePool, Goto, Idle
  <2>2. Idle(t)'
    BY <2>1, Shared DEF Idle
  <2>3. QED
    BY <2>1, <2>2, NewPoolBalanced
<1>4. CASE Malloc(t)
  BY <1>4, MallocBalanced
<1>5. CASE Allocated(t)
  BY <1>5, AllocatedBalanced
<1>6. CASE Release(t)
  BY <1>6, ReleaseBalanced
<1>7. CASE FreeBuffer(t) \/ FreeData(t)
  BY <1>7, FreeBalanced
<1>8. QED
  BY <1>1, <1>2, <1>3, <1>4, <1>5, <1>6, <1>7 DEF Step

LEMMA ConservedNext ==
    ASSUME IInv, Conserved, [Next]_vars
    PROVE  Conserved'
<1>1. ASSUME NEW t \in Threads, Step(t)
      PROVE  Conserved'
  <2>1. Types /\ Types'
    <3>1. Next
      BY <1>1 DEF Next
    <3>2. IInv'
      BY <3>1, StepIInv
    <3>3. QED
      BY <3>2 DEF IInv
  <2>2. Alone(t) /\ Balanced(t)
    BY <1>1, StepAlone, StepBalanced
  <2>3. QED
    BY <2>1, <2>2, BalancedStep
<1>2. CASE UNCHANGED vars
  <2>1. /\ UNCHANGED free /\ UNCHANGED used /\ UNCHANGED chunks
        /\ UNCHANGED pc /\ UNCHANGED fsp /\ UNCHANGED at /\ UNCHANGED part
    BY <1>2 DEF vars, made
  <2>2. \A f, p, k : Held(f, p, k)' = Held(f, p, k)
    BY <2>1 DEF Held
  <2>3. QED
    BY <2>1, <2>2 DEF Conserved
<1>3. QED
  BY <1>1, <1>2 DEF Next

LEMMA InitConserved == Init => Conserved
<1> SUFFICES ASSUME Init, NEW f \in Threads, NEW p \in Pools, NEW k \in Part
             PROVE  free[f][p][k] + used[f][p] + Cardinality(Held(f, p, k))
                      = chunks[f][p]
  BY DEF Conserved
<1>1. Held(f, p, k) = {}
  BY DEF Init, Held
<1>2. Cardinality(Held(f, p, k)) = 0
  BY <1>1, FS_EmptySet
<1>3. free[f][p][k] = 0 /\ used[f][p] = 0 /\ chunks[f][p] = 0
  BY DEF Init
<1>4. QED
  BY <1>2, <1>3

(* No chunk is given out twice or misses its home pool, whatever threads   *)
(* allocate and release at once (PoolStrategy.inl:113-122,                 *)
(* MessageBlockPool.cpp:21-60).                                            *)
THEOREM ChunksConserved == Spec => []Conserved
  BY InitIInv, StepIInv, InitConserved, ConservedNext, PTL DEF Spec

-----------------------------------------------------------------------------
(* Growth *)

(* g[p] is the sum of s up to p; Total(s) is the end of such a run.  The   *)
(* facts about sums go from one position of the list to the next.          *)
IsRun(g, s, n) == /\ g \in [0 .. n -> Nat] /\ g[0] = 0
                  /\ \A p \in 1 .. n : g[p] = g[p - 1] + s[p]

Running(s) == CHOOSE g : g = [p \in 0 .. MaxPools |->
                                 IF p = 0 THEN 0 ELSE g[p - 1] + s[p]]

(* Total names the function it is defined with. *)
LEMMA TotalIs == ASSUME NEW s PROVE Total(s) = Running(s)[MaxPools]
  BY DEF Total, Running

(* The equations of a running sum have a solution ... *)
LEMMA RunExists ==
    ASSUME NEW s \in [Pools -> Nat]
    PROVE  \E g : IsRun(g, s, MaxPools)
<1>0. MaxPools \in Nat /\ MaxPools \in 0 .. MaxPools
  BY BlockPoolAssumption
<1> DEFINE T == {m \in Nat : \E g : IsRun(g, s, m)}
<1>1. 0 \in T
  <2>1. [p \in 0 .. 0 |-> 0] \in [0 .. 0 -> Nat] /\ [p \in 0 .. 0 |-> 0][0] = 0
    OBVIOUS
  <2>2. IsRun([p \in 0 .. 0 |-> 0], s, 0)
    BY <2>1 DEF IsRun
  <2>3. QED
    BY <2>2
<1>2. ASSUME NEW m \in 1 .. MaxPools, m - 1 \in T PROVE m \in T
  <2>1. m - 1 \in 0 .. MaxPools /\ m \in 1 .. MaxPools /\ m \in Nat
    BY <1>0
  <2>3. PICK g : IsRun(g, s, m - 1)
    BY <1>2
  <2> DEFINE h == [p \in 0 .. m |-> IF p = m THEN g[m - 1] + s[m] ELSE g[p]]
  <2>4. s[m] \in Nat
    BY <2>1 DEF Pools
  <2>5. g[m - 1] \in Nat /\ \A p \in 0 .. m - 1 : g[p] \in Nat
    BY <2>1, <2>3 DEF IsRun
  <2>6. h \in [0 .. m -> Nat]
    <3>1. ASSUME NEW p \in 0 .. m
          PROVE  (IF p = m THEN g[m - 1] + s[m] ELSE g[p]) \in Nat
      <4>1. p = m \/ p \in 0 .. m - 1
        BY <2>1
      <4>2. QED
        BY <2>4, <2>5, <4>1
    <3>2. QED
      BY <3>1
  <2>7. h[0] = 0
    BY <2>1, <2>3 DEF IsRun
  <2>8. ASSUME NEW p \in 1 .. m PROVE h[p] = h[p - 1] + s[p]
    <3>1. p - 1 \in 0 .. m /\ p \in 0 .. m /\ p - 1 # m
      BY <2>1
    <3>2. CASE p = m
      BY <3>1, <3>2
    <3>3. CASE p # m
      <4>1. p \in 1 .. m - 1
        BY <2>1, <3>3
      <4>2. g[p] = g[p - 1] + s[p]
        BY <2>3, <4>1 DEF IsRun
      <4>3. QED
        BY <3>1, <3>3, <4>2
    <3>4. QED
      BY <3>2, <3>3
  <2>9. IsRun(h, s, m)
    <3> HIDE DEF h
    <3>1. QED
      BY <2>6, <2>7, <2>8 DEF IsRun
  <2>10. QED
    BY <2>9
<1> HIDE DEF T
<1>3. MaxPools \in T
  BY <1>0, <1>1, <1>2, Upwards
<1>4. QED
  BY <1>3 DEF T

(* ... so the function that Total chooses is one. *)
LEMMA RunningRuns ==
    ASSUME NEW s \in [Pools -> Nat]
    PROVE  IsRun(Running(s), s, MaxPools)
<1>0. MaxPools \in Nat /\ MaxPools \in 0 .. MaxPools
  BY BlockPoolAssumption
<1>1. PICK g : IsRun(g, s, MaxPools)
  BY RunExists
<1>2. g = [p \in 0 .. MaxPools |-> IF p = 0 THEN 0 ELSE g[p - 1] + s[p]]
  <2>1. g = [p \in 0 .. MaxPools |-> g[p]]
    BY <1>1 DEF IsRun
  <2>2. \A p \in 0 .. MaxPools : g[p] = IF p = 0 THEN 0 ELSE g[p - 1] + s[p]
    BY <1>0, <1>1 DEF IsRun
  <2>3. QED
    BY <2>1, <2>2
<1> DEFINE r == Running(s)
<1>3. r = [p \in 0 .. MaxPools |-> IF p = 0 THEN 0 ELSE r[p - 1] + s[p]]
  BY <1>2 DEF Running
<1> HIDE DEF r
<1>4. \A p \in 0 .. MaxPools : r[p] = IF p = 0 THEN 0 ELSE r[p - 1] + s[p]
  BY <1>3
<1>5. \A p \in 0 .. MaxPools : r[p] \in Nat
  <2> DEFINE T == {m \in Nat : r[m] \in Nat}
  <2>1. 0 \in T
    BY <1>0, <1>4
  <2>2. ASSUME NEW m \in 1 .. MaxPools, m - 1 \in T PROVE m \in T
    <3>1. m \in 0 .. MaxPools /\ m # 0 /\ m \in Nat /\ s[m] \in Nat
      BY <1>0 DEF Pools
    <3>2. r[m] = r[m - 1] + s[m] /\ r[m - 1] \in Nat
      BY <1>4, <2>2, <3>1
    <3>3. QED
      BY <3>1, <3>2
  <2> HIDE DEF T
  <2>3. 0 .. MaxPools \subseteq T
    BY <1>0, <2>1, <2>2, Upwards
  <2>4. QED
    BY <2>3 DEF T
<1>6. r[0] = 0 /\ \A p \in 1 .. MaxPools : r[p] = r[p - 1] + s[p]
  BY <1>0, <1>4
<1>7. r \in [0 .. MaxPools -> Nat]
  BY <1>3, <1>5
<1>8. QED
  BY <1>6, <1>7 DEF IsRun, r

(* A sum grows with its terms. *)
LEMMA TotalGrows ==
    ASSUME NEW s \in [Pools -> Nat], NEW u \in [Pools -> Nat],
           \A p \in Pools : s[p] <= u[p]
    PROVE  Total(s) \in Nat /\ Total(u) \in Nat /\ Total(s) <= Total(u)
<1>0. MaxPools \in Nat /\ MaxPools \in 0 .. MaxPools
  BY BlockPoolAssumption
<1> DEFINE a == Running(s)
           b == Running(u)
<1>1. IsRun(a, s, MaxPools) /\ IsRun(b, u, MaxPools)
  BY RunningRuns
<1>2. Total(s) = a[MaxPools] /\ Total(u) = b[MaxPools]
  BY TotalIs
<1> HIDE DEF a, b
<1>3. \A p \in 0 .. MaxPools : a[p] \in Nat /\ b[p] \in Nat
  BY <1>1 DEF IsRun
<1>4. \A p \in 0 .. MaxPools : a[p] <= b[p]
  <2> DEFINE T == {m \in Nat : a[m] <= b[m]}
  <2>1. 0 \in T
    BY <1>1 DEF IsRun
  <2>2. ASSUME NEW m \in 1 .. MaxPools, m - 1 \in T PROVE m \in T
    <3>1. m - 1 \in 0 .. MaxPools /\ m \in Pools /\ m \in Nat
      BY <1>0 DEF Pools
    <3>2. a[m] = a[m - 1] + s[m] /\ b[m] = b[m - 1] + u[m]
      BY <1>1 DEF IsRun
    <3>3. /\ s[m] \in Nat /\ u[m] \in Nat /\ s[m] <= u[m]
          /\ a[m - 1] \in Nat /\ b[m - 1] \in Nat /\ a[m - 1] <= b[m - 1]
      BY <1>3, <2>2, <3>1
    <3>4. QED
      BY <3>1, <3>2, <3>3
  <2> HIDE DEF T
  <2>3. 0 .. MaxPools \subseteq T
    BY <1>0, <2>1, <2>2, Upwards
  <2>4. QED
    BY <2>3 DEF T
<1>5. QED
  BY <1>0, <1>2, <1>3, <1>4

(* A sum of nothing. *)
LEMMA TotalZero ==
    ASSUME NEW s \in [Pools -> Nat], \A p \in Pools : s[p] = 0
    PROVE  Total(s) = 0
<1>0. MaxPools \in Nat /\ MaxPools \in 0 .. MaxPools
  BY BlockPoolAssumption
<1> DEFINE a == Running(s)
<1>1. IsRun(a, s, MaxPools)
  BY RunningRuns
<1>2. Total(s) = a[MaxPools]
  BY TotalIs
<1> HIDE DEF a
<1>3. \A p \in 0 .. MaxPools : a[p] = 0
  <2> DEFINE T == {m \in Nat : a[m] = 0}
  <2>1. 0 \in T
    BY <1>1 DEF IsRun
  <2>2. ASSUME NEW m \in 1 .. MaxPools, m - 1 \in T PROVE m \in T
    <3>1. a[m] = a[m - 1] + s[m] /\ s[m] = 0 /\ a[m - 1] = 0 /\ m \in Nat
      BY <1>1, <2>2 DEF IsRun, Pools
    <3>2. QED
      BY <3>1
  <2> HIDE DEF T
  <2>3. 0 .. MaxPools \subseteq T
    BY <1>0, <2>1, <2>2, Upwards
  <2>4. QED
    BY <2>3 DEF T
<1>4. QED
  BY <1>0, <1>2, <1>3

(* The blocks of a block pool that are out, at least in part. *)
Out(f, p) == chunks[f][p] - Least(Range(free[f][p]))

(* The same for all of the list, where the block pools of P count as they  *)
(* were when a thread found an allocator of theirs empty.  It has the lock *)
(* while it walks: nothing is taken from the others meanwhile, so all that *)
(* Seen counts was out when the walk began.                                *)
Seen(f, P) == [p \in Pools |-> IF p \in P THEN chunks[f][p] ELSE Out(f, p)]
Tested(t) == IF pc[t] = "make" THEN Pools
             ELSE IF pc[t] = "walk" THEN 1 .. at[t] - 1 ELSE {}

(* There are no chunks behind the end of the list. *)
Beyond == \A f \in Threads, p \in Pools : p > count[f] => chunks[f][p] = 0

(* The peak is as high as what is out, and as what each walk has seen. *)
GrowthInv ==
   /\ peak \in [Threads -> Nat]
   /\ Beyond
   /\ GrowthFollowsDemand
   /\ \A f \in Threads : Total(Seen(f, {})) <= peak[f]
   /\ \A t \in Threads : Total(Seen(fsp[t], Tested(t))) <= peak[fsp[t]]

(* The emptiest of the three allocators. *)
LEMMA LeastIs ==
    ASSUME NEW list \in [Part -> Nat]
    PROVE  /\ Least(Range(list)) \in Nat
           /\ \E k \in Part : Least(Range(list)) = list[k]
           /\ \A k \in Part : Least(Range(list)) <= list[k]
<1> DEFINE S == Range(list)
<1>1. S = {list[k] : k \in Part} /\ 1 \in Part
  BY DEF Range, Part
<1>2. S \subseteq Nat /\ S # {}
  BY <1>1
<1>3. Least(S) \in S /\ \A n \in S : Least(S) <= n
  <2> HIDE DEF S
  <2>1. \E n \in S : \A m \in S : n <= m
    BY <1>2, LeastNatural
  <2>2. QED
    BY <2>1 DEF Least
<1>4. QED
  BY <1>1, <1>2, <1>3

(* It is fuller when none of the three is emptier. *)
LEMMA LeastGrows ==
    ASSUME NEW a \in [Part -> Nat], NEW b \in [Part -> Nat],
           \A k \in Part : a[k] <= b[k]
    PROVE  Least(Range(a)) <= Least(Range(b))
<1> DEFINE x == Least(Range(a))
           y == Least(Range(b))
<1>1. PICK k \in Part : y = b[k]
  BY LeastIs
<1>2. x <= a[k] /\ x \in Nat
  BY LeastIs
<1> HIDE DEF x, y
<1>3. a[k] \in Nat /\ b[k] \in Nat /\ a[k] <= b[k]
  OBVIOUS
<1>4. QED
  BY <1>1, <1>2, <1>3 DEF x, y

(* All chunks are out of a block pool that has an empty allocator. *)
LEMMA OutIs ==
    ASSUME Types, Conserved, NEW f \in Threads, NEW p \in Pools
    PROVE  /\ Out(f, p) \in Nat /\ chunks[f][p] \in Nat
           /\ Out(f, p) <= chunks[f][p]
           /\ chunks[f][p] = 0 => Out(f, p) = 0
           /\ (\E k \in Part : free[f][p][k] = 0) => Out(f, p) = chunks[f][p]
<1> DEFINE list == free[f][p]
           l == Least(Range(list))
<1>1. list \in [Part -> Nat] /\ chunks[f][p] \in Nat /\ used[f][p] \in Nat
  BY DEF Types
<1>2. ASSUME NEW k \in Part PROVE list[k] <= chunks[f][p]
  <2>1. Cardinality(Held(f, p, k)) \in Nat
    <3>1. IsFiniteSet(Held(f, p, k))
      BY BlockPoolAssumption, FS_Subset DEF Held
    <3>2. QED
      BY <3>1, FS_CardinalityType
  <2>2. list[k] + used[f][p] + Cardinality(Held(f, p, k)) = chunks[f][p]
    BY DEF Conserved
  <2>3. list[k] \in Nat
    BY <1>1
  <2>4. QED
    BY <1>1, <2>1, <2>2, <2>3
<1> HIDE DEF list
<1>3. /\ l \in Nat /\ \E k \in Part : l = list[k]
      /\ \A k \in Part : l <= list[k] /\ list[k] \in Nat
  BY <1>1, LeastIs
<1>4. Out(f, p) = chunks[f][p] - l
  BY DEF Out, list
<1> HIDE DEF l
<1>5. l <= chunks[f][p]
  BY <1>2, <1>3
<1>6. (\E k \in Part : list[k] = 0) => l = 0
  BY <1>3
<1>7. QED
  BY <1>1, <1>3, <1>4, <1>5, <1>6 DEF list

(* What is seen is a count of blocks, before a step ... *)
LEMMA SeenType ==
    Types /\ Conserved =>
        \A f \in Threads : \A P : Seen(f, P) \in [Pools -> Nat]
<1> SUFFICES ASSUME Types, Conserved, NEW f \in Threads, NEW P
             PROVE  Seen(f, P) \in [Pools -> Nat]
  OBVIOUS
<1>1. \A p \in Pools : Out(f, p) \in Nat /\ chunks[f][p] \in Nat
  BY OutIs
<1>2. QED
  BY <1>1 DEF Seen

(* ... and after it. *)
LEMMA SeenTypeNext ==
    Types' /\ Conserved' =>
        \A f \in Threads : \A P : Seen(f, P)' \in [Pools -> Nat]
<1>1. (Types /\ Conserved =>
         \A f \in Threads : \A P : Seen(f, P) \in [Pools -> Nat])'
  BY SeenType, PTL
<1>2. QED
  BY <1>1

(* No more is out of a pool whose allocators are no emptier. *)
LEMMA SeenShrinks ==
    ASSUME Types, Conserved, Types', Conserved', NEW f \in Threads, NEW P,
           chunks' = chunks, peak'[f] = peak[f], peak[f] \in Nat,
           \A p \in Pools, k \in Part : free'[f][p][k] >= free[f][p][k],
           Total(Seen(f, P)) <= peak[f]
    PROVE  (Total(Seen(f, P)) <= peak[f])'
<1> DEFINE s == Seen(f, P)
           u == Seen(f, P)'
<1>1. s \in [Pools -> Nat] /\ u \in [Pools -> Nat]
  BY SeenType, SeenTypeNext
<1>2. ASSUME NEW p \in Pools PROVE u[p] <= s[p]
  <2>1. /\ free[f][p] \in [Part -> Nat] /\ free'[f][p] \in [Part -> Nat]
        /\ chunks[f][p] \in Nat
    BY DEF Types
  <2> DEFINE a == Least(Range(free[f][p]))
             b == Least(Range(free'[f][p]))
  <2>2. \A k \in Part : free[f][p][k] <= free'[f][p][k]
    BY <2>1
  <2>3. a <= b /\ a \in Nat /\ b \in Nat
    BY <2>1, <2>2, LeastGrows, LeastIs
  <2>4. Out(f, p) = chunks[f][p] - a /\ Out(f, p)' = chunks[f][p] - b
    BY DEF Out
  <2> HIDE DEF a, b
  <2>5. Out(f, p)' <= Out(f, p)
    BY <2>1, <2>3, <2>4
  <2>6. s[p] = IF p \in P THEN chunks[f][p] ELSE Out(f, p)
    BY DEF Seen
  <2>7. u[p] = IF p \in P THEN chunks[f][p] ELSE Out(f, p)'
    BY DEF Seen
  <2>8. QED
    BY <2>1, <2>5, <2>6, <2>7
<1> HIDE DEF s, u
<1>3. Total(u) <= Total(s) /\ Total(u) \in Nat /\ Total(s) \in Nat
  BY <1>1, <1>2, TotalGrows
<1>4. Total(u) <= peak[f]
  BY <1>3 DEF s
<1>5. QED
  BY <1>4 DEF u

(* A step that takes nothing and makes nothing keeps the invariant when    *)
(* what its own thread has seen is within the peak.                        *)
LEMMA GrowthFrame ==
    ASSUME IInv, Conserved, GrowthInv, IInv', Conserved', NEW t \in Threads,
           UNCHANGED <<chunks, count, peak>>, Alone(t),
           \A g \in Threads, p \in Pools, k \in Part :
              free'[g][p][k] >= free[g][p][k],
           NEW f \in Threads, NEW P, fsp'[t] = f, Tested(t)' = P,
           Total(Seen(f, P)) <= peak[f]
    PROVE  GrowthInv'
<1>1. Types /\ Types' /\ peak \in [Threads -> Nat]
  BY DEF IInv, GrowthInv
<1>2. ASSUME NEW g \in Threads, NEW Q, Total(Seen(g, Q)) <= peak[g]
      PROVE  (Total(Seen(g, Q)) <= peak[g])'
  BY <1>1, <1>2, SeenShrinks
<1>3. ASSUME NEW u \in Threads
      PROVE  (Total(Seen(fsp[u], Tested(u))) <= peak[fsp[u]])'
  <2>1. CASE u = t
    BY <1>2, <2>1
  <2>2. CASE u # t
    <3>0. PICK Q : Q = Tested(u)
      OBVIOUS
    <3>1. PICK g \in Threads : g = fsp[u] /\ Q = Tested(u)
      BY <3>0, <1>1 DEF Types
    <3>2. fsp'[u] = g /\ Tested(u)' = Q
      BY <2>2, <3>1 DEF Alone, Tested
    <3>3. Total(Seen(g, Q)) <= peak[g]
      BY <3>1 DEF GrowthInv
    <3>4. QED
      BY <1>2, <3>2, <3>3
  <2>3. QED
    BY <2>1, <2>2
<1>4. \A g \in Threads : (Total(Seen(g, {})) <= peak[g])'
  BY <1>2 DEF GrowthInv
<1>5. Beyond' /\ GrowthFollowsDemand' /\ peak' \in [Threads -> Nat]
  BY <1>1 DEF GrowthInv, Beyond, GrowthFollowsDemand, Early
<1>6. QED
  BY <1>3, <1>4, <1>5 DEF GrowthInv

(* The steps that only look: the tests tell the thread what is exhausted.  *)
LEMMA LookGrowth ==
    ASSUME IInv, Conserved, GrowthInv, IInv', Conserved', NEW t \in Threads,
           Step(t),
           Allocate(t) \/ Added(t) \/ Acquire(t) \/ Found(t) \/ TryOthers(t)
              \/ TryNext(t) \/ Allocated(t)
    PROVE  GrowthInv'
<1>1. Alone(t) /\ Types /\ fsp[t] \in Threads /\ at[t] \in Pools
  BY StepAlone, Place
<1>2. UNCHANGED <<chunks, count, peak, free>>
  BY DEF Allocate, Added, Acquire, Found, TryOthers, TryNext, Allocated, made
<1>3. \A g \in Threads, p \in Pools, k \in Part :
         free'[g][p][k] >= free[g][p][k]
  <2>1. \A g \in Threads, p \in Pools, k \in Part : free[g][p][k] \in Nat
    BY <1>1 DEF Types
  <2>2. QED
    BY <1>2, <2>1
<1>4. \A f \in Threads : Total(Seen(f, {})) <= peak[f]
  BY DEF GrowthInv
<1>5. PICK f \in Threads : f = fsp'[t]
  BY DEF IInv, Types
<1>6. CASE Tested(t)' = {}
  BY <1>1, <1>2, <1>3, <1>4, <1>5, <1>6, GrowthFrame
<1>7. PICK P : P = Tested(t)'
  OBVIOUS
<1>8. CASE Found(t) \/ TryNext(t)
  <2>1. f = fsp[t] /\ fsp' = fsp
    BY <1>5, <1>8 DEF Found, TryNext
  <2>2. Total(Seen(f, Tested(t))) <= peak[f]
    BY <2>1 DEF GrowthInv
  <2>3. Seen(f, P) = Seen(f, Tested(t)) \/ P = {}
    <3>1. CASE Found(t)
      <4>1. pc'[t] = pc[t] \/ pc'[t] = "malloc"
        BY <1>1, <3>1 DEF Found, Goto, Types
      <4>2. QED
        BY <1>7, <3>1, <4>1 DEF Tested, Found
    <3>2. CASE TryNext(t)
      <4>1. /\ pc[t] = "walk" /\ free[f][at[t]][part[t]] = 0 /\ part[t] \in Part
        BY <1>1, <2>1, <3>2 DEF TryNext, Here, Types
      <4>2. Out(f, at[t]) = chunks[f][at[t]]
        BY <1>1, <4>1, OutIs
      <4>3. at[t] \in Nat /\ Tested(t) = 1 .. at[t] - 1
        BY <1>1, <4>1 DEF Tested, Pools
      <4>4. CASE at[t] < count[f]
        <5>1. pc'[t] = "walk" /\ at'[t] = at[t] + 1
          BY <1>1, <2>1, <3>2, <4>1, <4>4 DEF TryNext, Types
        <5>2. P = 1 .. at[t]
          BY <1>7, <4>3, <5>1 DEF Tested
        <5>3. \A p \in Pools : p \in P <=> p \in Tested(t) \/ p = at[t]
          BY <1>1, <4>3, <5>2 DEF Pools
        <5>4. QED
          BY <4>2, <5>3 DEF Seen
      <4>5. CASE ~(at[t] < count[f])
        <5>1. pc'[t] = "make"
          BY <1>1, <2>1, <3>2, <4>5 DEF TryNext, Goto, Types
        <5>2. P = Pools
          BY <1>7, <5>1 DEF Tested
        <5>3. count[f] \in Nat /\ count[f] <= at[t]
          BY <1>1, <4>3, <4>5, Shared
        <5>4. ASSUME NEW p \in Pools, p \notin Tested(t), p # at[t]
              PROVE  Out(f, p) = chunks[f][p]
          <6>1. p \in Nat /\ p > at[t] /\ p > count[f]
            BY <4>3, <5>3, <5>4 DEF Pools
          <6>2. chunks[f][p] = 0
            BY <6>1 DEF GrowthInv, Beyond
          <6>3. QED
            BY <1>1, <6>2, OutIs
        <5>5. QED
          BY <4>2, <5>2, <5>4 DEF Seen
      <4>6. QED
        BY <4>4, <4>5
    <3>3. QED
      BY <1>8, <3>1, <3>2
  <2>4. CASE P = {}
    BY <1>6, <1>7, <2>4
  <2>5. CASE Seen(f, P) = Seen(f, Tested(t))
    <3>1. Total(Seen(f, P)) <= peak[f]
      BY <2>2, <2>5
    <3>2. QED
      BY <1>1, <1>2, <1>3, <1>5, <1>7, <3>1, GrowthFrame
  <2>6. QED
    BY <2>3, <2>4, <2>5
<1>9. CASE Allocate(t) \/ Added(t) \/ Acquire(t) \/ TryOthers(t) \/ Allocated(t)
  <2>1. CASE Allocate(t) \/ Added(t) \/ Acquire(t) \/ Allocated(t)
    <3>1. pc'[t] \notin {"make", "walk"}
      BY <1>1, <2>1
         DEF Allocate, Added, Acquire, Allocated, Goto, Done, Types
    <3>2. QED
      BY <1>6, <3>1 DEF Tested
  <2>2. CASE TryOthers(t)
    <3>1. pc'[t] = "walk" /\ at'[t] = 1
      BY <1>1, <2>2 DEF TryOthers, Goto, Types
    <3>2. 1 .. 1 - 1 = {}
      OBVIOUS
    <3>3. QED
      BY <1>6, <3>1, <3>2 DEF Tested
  <2>3. QED
    BY <1>9, <2>1, <2>2
<1>10. QED
  BY <1>8, <1>9

(* What comes back makes no pool fuller. *)
LEMMA FreeGrowth ==
    ASSUME IInv, Conserved, GrowthInv, IInv', Conserved', NEW t \in Threads,
           Step(t), Release(t) \/ FreeBuffer(t) \/ FreeData(t)
    PROVE  GrowthInv'
<1>1. Alone(t) /\ Types /\ fsp[t] \in Threads /\ at[t] \in Pools
  BY StepAlone, Place
<1>2. UNCHANGED <<chunks, count, peak>>
  BY DEF Release, FreeBuffer, FreeData, made
<1>3. PICK g \in Threads, q \in Pools, j \in Part :
         free' = [free EXCEPT ![g][q][j] = @ + 1]
  BY <1>1 DEF Release, FreeBuffer, FreeData, Part
<1>4. \A f \in Threads, p \in Pools, k \in Part :
         free'[f][p][k] >= free[f][p][k]
  <2>1. \A f \in Threads, p \in Pools, k \in Part : free[f][p][k] \in Nat
    BY <1>1 DEF Types
  <2>2. QED
    BY <1>1, <1>3, <2>1 DEF Types
<1>5. PICK f \in Threads : f = fsp'[t]
  BY DEF IInv, Types
<1>6. pc'[t] \notin {"make", "walk"}
  BY <1>1 DEF Release, FreeBuffer, FreeData, Goto, Done, Types
<1>7. Tested(t)' = {} /\ Total(Seen(f, {})) <= peak[f]
  BY <1>6 DEF Tested, GrowthInv
<1>8. QED
  BY <1>1, <1>2, <1>4, <1>5, <1>7, GrowthFrame

(* Nobody else is on a walk through the pool whose lock a thread has.      *)
LEMMA NobodyWalks ==
    ASSUME IInv, NEW t \in Threads, NEW u \in Threads, u # t,
           pc[t] \in Locked, fsp[u] = fsp[t]
    PROVE  Tested(u) = {}
  BY Exclusion DEF Tested, Locked

(* A chunk that is taken counts for the peak at once. *)
LEMMA MallocGrowth ==
    ASSUME IInv, Conserved, GrowthInv, IInv', Conserved', NEW t \in Threads,
           Step(t), Malloc(t)
    PROVE  GrowthInv'
<1>0. PICK f \in Threads : f = fsp[t]
  BY Place
<1>1. Alone(t) /\ Types /\ Types' /\ at[t] \in Pools /\ pc[t] = "malloc"
      /\ peak \in [Threads -> Nat]
  BY StepAlone, Place DEF IInv, GrowthInv, Malloc
<1>2. UNCHANGED <<chunks, count, fsp, at>>
  BY DEF Malloc, made
<1>3. Here(t)[part[t]] # 0
  <2>1. PICK k \in Part : k = part[t]
    BY Place
  <2>2. /\ \A j \in Part : j >= k => free[fsp[t]][at[t]][j] > 0
        /\ k \in 1 .. 3
    BY <1>1, <2>1, Place DEF Fits, Part
  <2>3. free[fsp[t]][at[t]][k] > 0
    BY <2>2
  <2>4. QED
    BY <2>1, <2>3 DEF Here
<1>4. PICK list : /\ free' = [free EXCEPT ![f] = list]
                  /\ peak' = [peak EXCEPT ![f] = Maximum(@, Demand(f, list))]
                  /\ pc'[t] \in {"malloc", "allocated"}
  <2>1. PICK l : l = [free[f] EXCEPT ![at[t]][part[t]] = @ - 1]
    OBVIOUS
  <2>2. /\ free' = [free EXCEPT ![f] = l]
        /\ peak' = [peak EXCEPT ![f] = Maximum(@, Demand(f, l))]
    BY ONLY <1>0, <1>3, <2>1, Malloc(t) DEF Malloc
  <2>3. pc'[t] \in {"malloc", "allocated"}
    <3>1. pc' = pc \/ pc' = [pc EXCEPT ![t] = "allocated"]
      BY <1>3 DEF Malloc, Goto
    <3>2. QED
      BY <1>1, <3>1 DEF Types
  <2>4. QED
    BY <2>2, <2>3
<1>5. free'[f] = list /\ peak'[f] = Maximum(peak[f], Demand(f, list))
  BY <1>1, <1>4 DEF Types
<1>6. Demand(f, list) = Total(Seen(f, {}))'
  BY <1>2, <1>5 DEF Demand, Seen, Out
<1>7. Total(Seen(f, {}))' \in Nat
  BY <1>1, SeenTypeNext, TotalGrows
<1>8. /\ peak'[f] \in Nat /\ peak'[f] >= peak[f]
      /\ Total(Seen(f, {}))' <= peak'[f]
  BY <1>1, <1>5, <1>6, <1>7 DEF Maximum
<1>9. peak' \in [Threads -> Nat]
  BY <1>1, <1>4, <1>8
<1>10. ASSUME NEW g \in Threads, g # f, NEW P, Total(Seen(g, P)) <= peak[g]
       PROVE  (Total(Seen(g, P)) <= peak[g])'
  <2>1. free'[g] = free[g] /\ chunks' = chunks /\ peak'[g] = peak[g]
    BY <1>1, <1>2, <1>4, <1>10 DEF Types
  <2>2. Seen(g, P)' = Seen(g, P)
    BY <2>1 DEF Seen, Out
  <2>3. QED
    BY <1>10, <2>1, <2>2
<1>11. ASSUME NEW g \in Threads PROVE (Total(Seen(g, {})) <= peak[g])'
  <2>1. CASE g = f
    BY <1>8, <2>1
  <2>2. CASE g # f
    BY <1>10, <2>2 DEF GrowthInv
  <2>3. QED
    BY <2>1, <2>2
<1>12. ASSUME NEW u \in Threads
       PROVE  (Total(Seen(fsp[u], Tested(u))) <= peak[fsp[u]])'
  <2>0. PICK P : P = Tested(u)
    OBVIOUS
  <2>1. PICK g \in Threads : g = fsp[u] /\ P = Tested(u)
    BY <2>0, <1>1 DEF Types
  <2>2. fsp'[u] = g
    BY <1>2, <2>1
  <2>3. CASE u = t
    <3>1. Tested(u)' = {}
      BY <1>4, <2>3 DEF Tested
    <3>2. QED
      BY <1>11, <2>2, <3>1
  <2>4. CASE u # t
    <3>1. Tested(u)' = P
      BY <1>1, <2>1, <2>4 DEF Alone, Tested
    <3>2. CASE g = f
      <4>1. P = {}
        BY <1>0, <1>1, <2>1, <2>4, <3>2, NobodyWalks DEF Locked
      <4>2. QED
        BY <1>11, <2>2, <3>1, <4>1
    <3>3. CASE g # f
      <4>1. Total(Seen(g, P)) <= peak[g]
        BY <2>1 DEF GrowthInv
      <4>2. QED
        BY <1>10, <2>2, <3>1, <3>3, <4>1
    <3>4. QED
      BY <3>2, <3>3
  <2>5. QED
    BY <2>3, <2>4
<1>13. GrowthFollowsDemand'
  <2> SUFFICES ASSUME NEW g \in Threads PROVE (Total(Early(g)) <= peak[g])'
    BY DEF GrowthFollowsDemand
  <2>1. Early(g)' = Early(g)
    BY <1>2 DEF Early
  <2>2. Total(Early(g)) <= peak[g]
    BY DEF GrowthInv, GrowthFollowsDemand
  <2>3. CASE g # f
    <3>1. peak'[g] = peak[g]
      BY <1>1, <1>4, <2>3
    <3>2. QED
      BY <2>1, <2>2, <3>1
  <2>4. CASE g = f
    <3>1. Early(f) \in [Pools -> Nat]
      BY <1>1 DEF Early, Types
    <3>2. Total(Early(f)) \in Nat
      BY <3>1, TotalGrows
    <3>3. QED
      BY <1>1, <1>8, <2>1, <2>2, <2>4, <3>2
  <2>5. QED
    BY <2>3, <2>4
<1>14. Beyond'
  BY <1>2 DEF GrowthInv, Beyond
<1>15. QED
  BY <1>9, <1>11, <1>12, <1>13, <1>14 DEF GrowthInv

(* A new block pool counts for the growth, and the list before it was seen *)
(* exhausted.                                                              *)
LEMMA NewPoolGrowth ==
    ASSUME IInv, Conserved, GrowthInv, IInv', Conserved', NEW t \in Threads,
           NEW f \in Threads, Alone(t), NewPool(f), count[f] < MaxPools,
           UNCHANGED peak, pc'[t] \notin {"make", "walk"},
           count[f] = 0 \/ Total(Seen(f, Pools)) <= peak[f],
           \A u \in Threads : u # t /\ fsp[u] = f => Tested(u) = {}
    PROVE  GrowthInv'
<1> DEFINE last == count[f] + 1
           n == nextChunkCount[f]
           list == [k \in Part |-> n]
<1>1. Types /\ Types' /\ peak \in [Threads -> Nat] /\ Beyond
  BY DEF IInv, GrowthInv
<1>2. count[f] \in Nat /\ last \in Pools /\ n \in Nat
  <2>1. count[f] \in Nat /\ n \in Nat
    BY Shared
  <2>2. QED
    BY <2>1, BlockPoolAssumption DEF Pools
<1>3. Least(Range(list)) = n
  <2>1. list \in [Part -> Nat]
    BY <1>2
  <2>2. PICK k \in Part : Least(Range(list)) = list[k]
    BY <2>1, LeastIs
  <2>3. QED
    BY <2>2
<1> HIDE DEF list
<1>4. /\ count'[f] = last /\ chunks'[f][last] = n /\ free'[f][last] = list
      /\ \A p \in Pools : p # last => /\ chunks'[f][p] = chunks[f][p]
                                     /\ free'[f][p] = free[f][p]
      /\ \A g \in Threads : g # f => /\ chunks'[g] = chunks[g]
                                    /\ free'[g] = free[g]
                                    /\ count'[g] = count[g]
  <2>1. /\ count' = [count EXCEPT ![f] = last]
        /\ chunks' = [chunks EXCEPT ![f][last] = n]
        /\ free' = [free EXCEPT ![f][last] = list]
    BY DEF NewPool, list
  <2>2. /\ count \in [Threads -> 0 .. MaxPools]
        /\ chunks \in [Threads -> [Pools -> Nat]]
        /\ free \in [Threads -> [Pools -> [Part -> Nat]]]
    BY Shared
  <2> HIDE DEF last, n
  <2>3. QED
    BY <1>2, <2>1, <2>2
<1>5. \A p \in Pools : p > count[f] => chunks[f][p] = 0
  BY <1>1 DEF Beyond
<1>6. ASSUME NEW p \in Pools PROVE Out(f, p)' = Out(f, p)
  <2>1. CASE p = last
    <3>1. chunks[f][last] = 0
      BY <1>2, <1>5
    <3>2. Out(f, last) = 0
      BY <1>1, <1>2, <3>1, OutIs
    <3>3. Out(f, p)' = n - Least(Range(list))
      BY <1>4, <2>1 DEF Out
    <3>4. QED
      BY <1>2, <1>3, <2>1, <3>2, <3>3
  <2>2. CASE p # last
    BY <1>4, <2>2 DEF Out
  <2>3. QED
    BY <2>1, <2>2
<1>7. Seen(f, {})' = Seen(f, {})
  BY <1>6 DEF Seen
<1>8. ASSUME NEW g \in Threads, g # f, NEW P
      PROVE  Seen(g, P)' = Seen(g, P)
  BY <1>4, <1>8 DEF Seen, Out
<1>9. ASSUME NEW g \in Threads PROVE (Total(Seen(g, {})) <= peak[g])'
  <2>1. Seen(g, {})' = Seen(g, {})
    BY <1>7, <1>8
  <2>2. Total(Seen(g, {})) <= peak[g]
    BY DEF GrowthInv
  <2>3. QED
    BY <2>1, <2>2
<1>10. ASSUME NEW u \in Threads
       PROVE  (Total(Seen(fsp[u], Tested(u))) <= peak[fsp[u]])'
  <2>1. CASE u = t
    <3>1. fsp'[t] \in Threads /\ Tested(t)' = {}
      BY <1>1 DEF Types, Tested
    <3>2. QED
      BY <1>9, <2>1, <3>1
  <2>2. CASE u # t
    <3>0. PICK P : P = Tested(u)
      OBVIOUS
    <3>1. PICK g \in Threads : g = fsp[u] /\ P = Tested(u)
      BY <3>0, <1>1 DEF Types
    <3>2. fsp'[u] = g /\ Tested(u)' = P
      BY <2>2, <3>1 DEF Alone, Tested
    <3>3. CASE g = f
      <4>1. P = {}
        BY <2>2, <3>1, <3>3
      <4>2. QED
        BY <1>9, <3>2, <4>1
    <3>4. CASE g # f
      <4>1. Total(Seen(g, P)) <= peak[g]
        BY <3>1 DEF GrowthInv
      <4>2. Seen(g, P)' = Seen(g, P)
        BY <1>8, <3>4
      <4>3. QED
        BY <3>2, <4>1, <4>2
    <3>5. QED
      BY <3>3, <3>4
  <2>3. QED
    BY <2>1, <2>2
<1>11. ASSUME NEW g \in Threads PROVE (Total(Early(g)) <= peak[g])'
  <2>1. Total(Early(g)) <= peak[g]
    BY DEF GrowthInv, GrowthFollowsDemand
  <2>2. CASE g # f
    <3>1. Early(g)' = Early(g)
      BY <1>4, <2>2 DEF Early
    <3>2. QED
      BY <2>1, <3>1
  <2>3. CASE g = f /\ count[f] = 0
    <3>1. \A p \in Pools : ~(p < count[f]) /\ ~(p < count'[f])
      BY <1>4, <2>3 DEF Pools
    <3>2. Early(f)' = Early(f)
      BY <3>1 DEF Early
    <3>3. QED
      BY <2>1, <2>3, <3>2
  <2>4. CASE g = f /\ count[f] # 0
    <3>1. ASSUME NEW p \in Pools
          PROVE  (IF p < count'[f] THEN chunks'[f][p] ELSE 0) = chunks[f][p]
      <4>1. p \in Nat
        BY DEF Pools
      <4>2. CASE p < last
        BY <1>2, <1>4, <4>1, <4>2
      <4>3. CASE ~(p < last)
        BY <1>2, <1>4, <1>5, <4>1, <4>3
      <4>4. QED
        BY <4>2, <4>3
    <3>2. Early(f)' = Seen(f, Pools)
      BY <3>1 DEF Early, Seen
    <3>3. QED
      BY <2>4, <3>2
  <2>5. QED
    BY <2>2, <2>3, <2>4
<1>12. Beyond'
  <2> SUFFICES ASSUME NEW g \in Threads, NEW p \in Pools, p > count'[g]
               PROVE  chunks'[g][p] = 0
    BY DEF Beyond
  <2>1. CASE g = f
    <3>1. p > count[f] /\ p # last
      BY <1>2, <1>4, <2>1 DEF Pools
    <3>2. QED
      BY <1>4, <1>5, <2>1, <3>1
  <2>2. CASE g # f
    BY <1>1, <1>4, <2>2 DEF Beyond
  <2>3. QED
    BY <2>1, <2>2
<1>13. QED
  BY <1>1, <1>9, <1>10, <1>11, <1>12 DEF GrowthInv, GrowthFollowsDemand

(* The two that make a block pool: nobody walks through that list but t. *)
LEMMA MadeGrowth ==
    ASSUME IInv, Conserved, GrowthInv, IInv', Conserved', NEW t \in Threads,
           Step(t), AddBlockPool(t) \/ MakePool(t)
    PROVE  GrowthInv'
<1>1. Alone(t) /\ Types /\ pc \in [Threads -> Places]
  BY StepAlone, Place, Shared
<1>2. CASE AddBlockPool(t)
  <2>1. count[t] = 0 /\ 0 < MaxPools
    BY <1>2, Place, BlockPoolAssumption DEF AddBlockPool, Fits
  <2>2. pc'[t] = "added" /\ UNCHANGED peak /\ NewPool(t)
    BY <1>1, <1>2 DEF AddBlockPool, Goto
  <2>3. ASSUME NEW u \in Threads, u # t, fsp[u] = t PROVE Tested(u) = {}
    <3>1. pc[u] \notin Locked
      BY <2>1, <2>3, Place DEF Fits
    <3>2. QED
      BY <3>1 DEF Tested, Locked
  <2>4. QED
    BY <1>1, <2>1, <2>2, <2>3, NewPoolGrowth
<1>3. CASE MakePool(t)
  <2>1. PICK f \in Threads : f = fsp[t]
    BY Place
  <2>2. /\ pc[t] = "make" /\ pc'[t] = "test" /\ UNCHANGED peak /\ NewPool(f)
        /\ count[f] < MaxPools
    BY <1>1, <1>3, <2>1 DEF MakePool, Goto
  <2>3. Total(Seen(f, Pools)) <= peak[f]
    <3>1. Tested(t) = Pools
      BY <2>2 DEF Tested
    <3>2. QED
      BY <2>1, <3>1 DEF GrowthInv
  <2>4. \A u \in Threads : u # t /\ fsp[u] = f => Tested(u) = {}
    BY <2>1, <2>2, NobodyWalks DEF Locked
  <2>5. QED
    BY <1>1, <2>2, <2>3, <2>4, NewPoolGrowth
<1>4. QED
  BY <1>2, <1>3

(* In the beginning no block pool has a chunk. *)
LEMMA InitGrowth == Init => GrowthInv
<1> SUFFICES ASSUME Init PROVE GrowthInv
  OBVIOUS
<1>1. Types /\ Conserved
  BY InitIInv, InitConserved DEF IInv
<1>2. /\ \A f \in Threads : peak[f] = 0 /\ count[f] = 0
      /\ \A f \in Threads, p \in Pools : chunks[f][p] = 0
      /\ \A t \in Threads : fsp[t] = t /\ Tested(t) = {}
      /\ peak \in [Threads -> Nat]
  BY DEF Init, Tested
<1>3. ASSUME NEW f \in Threads PROVE Total(Seen(f, {})) <= peak[f]
  <2>1. Seen(f, {}) \in [Pools -> Nat]
    BY <1>1, SeenType
  <2>2. \A p \in Pools : Out(f, p) = 0
    BY <1>1, <1>2, OutIs
  <2>3. \A p \in Pools : Seen(f, {})[p] = 0
    BY <2>2 DEF Seen
  <2>4. Total(Seen(f, {})) = 0
    BY <2>1, <2>3, TotalZero
  <2>5. QED
    BY <1>2, <2>4
<1>4. ASSUME NEW f \in Threads PROVE Total(Early(f)) <= peak[f]
  <2>1. Early(f) \in [Pools -> Nat] /\ \A p \in Pools : Early(f)[p] = 0
    BY <1>2 DEF Early
  <2>2. Total(Early(f)) = 0
    BY <2>1, TotalZero
  <2>3. QED
    BY <1>2, <2>2
<1>5. \A t \in Threads : Total(Seen(fsp[t], Tested(t))) <= peak[fsp[t]]
  BY <1>2, <1>3
<1>6. QED
  BY <1>2, <1>3, <1>4, <1>5 DEF GrowthInv, GrowthFollowsDemand, Beyond

(* One case per kind of step. *)
LEMMA GrowthNext ==
    ASSUME IInv, Conserved, GrowthInv, IInv', Conserved', [Next]_vars
    PROVE  GrowthInv'
<1>1. ASSUME NEW t \in Threads, Step(t) PROVE GrowthInv'
  BY <1>1, LookGrowth, FreeGrowth, MallocGrowth, MadeGrowth DEF Step
<1>2. CASE UNCHANGED vars
  BY <1>2 DEF vars, made, GrowthInv, Beyond, GrowthFollowsDemand, Early, Seen,
              Out, Tested
<1>3. QED
  BY <1>1, <1>2 DEF Next

(* A block pool is added only when so many blocks were out at once that    *)
(* those before it were exhausted together (PoolStrategy.inl:54-72).       *)
THEOREM GrowthBounded == Spec => []GrowthFollowsDemand
<1>1. GrowthInv => GrowthFollowsDemand
  BY DEF GrowthInv
<1>2. QED
  BY <1>1, InitIInv, StepIInv, InitConserved, ConservedNext, InitGrowth,
     GrowthNext, PTL DEF Spec
=============================================================================
