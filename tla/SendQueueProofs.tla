--------------------------- MODULE SendQueueProofs ---------------------------
(* Proofs about SendQueue, for any width of the tick count, any day, any   *)
(* delays and any room in the queue.                                       *)
EXTENDS SendQueue, SequenceFacts, SequenceTheorems, TLAPS

LEMMA Sizes ==
    /\ Modulus \in Nat /\ Day \in Nat /\ Capacity \in Nat
    /\ 1 <= Modulus /\ 1 <= Day /\ 1 <= Capacity
    /\ 2 * Day < Modulus /\ MaxRequests \in Nat
    /\ \A delay \in Delays : /\ delay \in Nat /\ 1 <= delay
                               /\ delay <= Modulus - 1
    /\ Proactor \in BOOLEAN
  BY SendQueueAssumption

-----------------------------------------------------------------------------
(* Sequences *)

LEMMA InsertedAt ==
    ASSUME NEW S, NEW s \in Seq(S), NEW e \in S, NEW k \in 1 .. Len(s) + 1
    PROVE  LET t == InsertAt(s, k, e)
           IN  /\ t \in Seq(S) /\ Len(t) = Len(s) + 1
               /\ \A j \in 1 .. Len(s) + 1 :
                     /\ j < k => t[j] = s[j]
                     /\ j = k => t[j] = e
                     /\ j > k => t[j] = s[j - 1]
<1> DEFINE a == SubSeq(s, 1, k - 1)
           b == SubSeq(s, k, Len(s))
           u == <<e>>
           c == a \o u
<1>1. /\ a \in Seq(S) /\ Len(a) = k - 1
      /\ \A i \in 1 .. k - 1 : a[i] = s[i]
      /\ b \in Seq(S) /\ Len(b) = Len(s) - k + 1
      /\ \A i \in 1 .. Len(s) - k + 1 : b[i] = s[k + i - 1]
      /\ k \in Nat /\ Len(s) \in Nat
  OBVIOUS
<1> HIDE DEF a, b
<1>2. /\ c \in Seq(S) /\ Len(c) = k
      /\ \A i \in 1 .. k - 1 : c[i] = s[i]
      /\ c[k] = e
  <2>1. /\ u \in Seq(S) /\ Len(u) = 1 /\ u[1] = e
    OBVIOUS
  <2> HIDE DEF u
  <2>2. /\ a \o u \in Seq(S) /\ Len(a \o u) = Len(a) + Len(u)
        /\ \A i \in 1 .. Len(a) + Len(u) :
              (a \o u)[i] = IF i <= Len(a) THEN a[i] ELSE u[i - Len(a)]
    BY ONLY <1>1, <2>1, ConcatProperties
  <2>3. Len(a) + Len(u) = k /\ k - Len(a) = 1 /\ ~(k <= Len(a)) /\ k \in 1 .. k
    BY <1>1, <2>1
  <2>4. c[k] = e
    BY <2>1, <2>2, <2>3
  <2>5. \A i \in 1 .. k - 1 : i <= Len(a) /\ i \in 1 .. k
    BY <1>1
  <2>6. QED
    BY <1>1, <2>2, <2>3, <2>4, <2>5
<1> HIDE DEF c
<1>3. /\ c \o b \in Seq(S) /\ Len(c \o b) = Len(s) + 1
      /\ \A i \in 1 .. k : (c \o b)[i] = c[i]
      /\ \A i \in k + 1 .. Len(s) + 1 : (c \o b)[i] = b[i - k]
  BY <1>1, <1>2
<1>4. InsertAt(s, k, e) = c \o b
  BY DEF InsertAt, a, b, c, u
<1>5. ASSUME NEW j \in 1 .. Len(s) + 1
      PROVE  /\ j < k => (c \o b)[j] = s[j]
             /\ j = k => (c \o b)[j] = e
             /\ j > k => (c \o b)[j] = s[j - 1]
  <2>1. CASE j <= k
    <3>1. /\ j \in 1 .. k /\ (c \o b)[j] = c[j]
          /\ j < k => j \in 1 .. k - 1
          /\ j < k \/ j = k
      BY <1>1, <1>3, <2>1
    <3>2. QED
      BY <1>2, <3>1
  <2>2. CASE j > k
    <3>1. /\ j - k \in 1 .. Len(s) - k + 1 /\ j \in k + 1 .. Len(s) + 1
          /\ k + (j - k) - 1 = j - 1 /\ ~(j < k) /\ j # k
      BY <1>1, <2>2
    <3>2. (c \o b)[j] = b[j - k] /\ b[j - k] = s[j - 1]
      BY <1>1, <1>3, <3>1
    <3>3. QED
      BY <3>1, <3>2
  <2>3. j <= k \/ j > k
    BY <1>1
  <2>4. QED
    BY ONLY <2>1, <2>2, <2>3
<1>6. QED
  BY <1>3, <1>4, <1>5

LEMMA InsertedMembers ==
    ASSUME NEW S, NEW s \in Seq(S), NEW e \in S, NEW k \in 1 .. Len(s) + 1
    PROVE  \A i \in DOMAIN InsertAt(s, k, e) :
              \/ InsertAt(s, k, e)[i] = e
              \/ \E j \in DOMAIN s : InsertAt(s, k, e)[i] = s[j]
<1> DEFINE t == InsertAt(s, k, e)
<1>1. /\ t \in Seq(S) /\ Len(t) = Len(s) + 1
      /\ \A j \in 1 .. Len(s) + 1 :
            /\ j < k => t[j] = s[j]
            /\ j = k => t[j] = e
            /\ j > k => t[j] = s[j - 1]
  BY InsertedAt
<1> HIDE DEF t
<1>2. /\ DOMAIN t = 1 .. Len(s) + 1 /\ DOMAIN s = 1 .. Len(s)
      /\ Len(s) \in Nat /\ k \in Nat
  BY <1>1
<1>3. ASSUME NEW i \in DOMAIN t
      PROVE  t[i] = e \/ \E j \in DOMAIN s : t[i] = s[j]
  <2>1. CASE i < k
    <3>1. i \in DOMAIN s /\ i \in 1 .. Len(s) + 1
      BY <1>2, <2>1
    <3>2. QED
      BY <1>1, <2>1, <3>1
  <2>2. CASE i > k
    <3>1. i - 1 \in DOMAIN s /\ i \in 1 .. Len(s) + 1
      BY <1>2, <2>2
    <3>2. QED
      BY <1>1, <2>2, <3>1
  <2>3. CASE i = k
    BY <1>1, <1>2, <2>3
  <2>4. QED
    BY <1>2, <2>1, <2>2, <2>3
<1>4. QED
  BY <1>3 DEF t

LEMMA RemovedAt ==
    ASSUME NEW S, NEW s \in Seq(S), NEW k \in 1 .. Len(s)
    PROVE  LET t == RemoveAt(s, k)
           IN  /\ t \in Seq(S) /\ Len(t) = Len(s) - 1
               /\ \A j \in 1 .. Len(s) - 1 :
                     t[j] = IF j < k THEN s[j] ELSE s[j + 1]
<1> DEFINE a == SubSeq(s, 1, k - 1)
           b == SubSeq(s, k + 1, Len(s))
<1>1. /\ a \in Seq(S) /\ Len(a) = k - 1
      /\ \A i \in 1 .. k - 1 : a[i] = s[i]
      /\ b \in Seq(S) /\ Len(b) = Len(s) - k
      /\ \A i \in 1 .. Len(s) - k : b[i] = s[k + i]
      /\ k \in Nat /\ Len(s) \in Nat
  OBVIOUS
<1> HIDE DEF a, b
<1>2. /\ a \o b \in Seq(S) /\ Len(a \o b) = Len(s) - 1
      /\ \A i \in 1 .. k - 1 : (a \o b)[i] = a[i]
      /\ \A i \in k .. Len(s) - 1 : (a \o b)[i] = b[i - (k - 1)]
  <2>1. /\ a \o b \in Seq(S) /\ Len(a \o b) = Len(a) + Len(b)
        /\ \A i \in 1 .. Len(a) + Len(b) :
              (a \o b)[i] = IF i <= Len(a) THEN a[i] ELSE b[i - Len(a)]
    BY ONLY <1>1, ConcatProperties
  <2>2. QED
    BY ONLY <1>1, <2>1
<1>3. RemoveAt(s, k) = a \o b
  BY DEF RemoveAt, a, b
<1>4. ASSUME NEW j \in 1 .. Len(s) - 1
      PROVE  (a \o b)[j] = IF j < k THEN s[j] ELSE s[j + 1]
  <2>1. CASE j < k
    BY <1>1, <1>2, <2>1
  <2>2. CASE j >= k
    <3>1. /\ j - (k - 1) \in 1 .. Len(s) - k /\ j \in k .. Len(s) - 1
          /\ k + (j - (k - 1)) = j + 1
      BY <1>1, <2>2
    <3>2. QED
      BY <1>1, <1>2, <2>2, <3>1
  <2>3. QED
    BY <1>1, <2>1, <2>2
<1>5. QED
  BY <1>2, <1>3, <1>4

LEMMA LastPlace ==
    ASSUME NEW n \in Nat, NEW T, T \subseteq 1 .. n, T # {}
    PROVE  Max(T) \in T /\ \A i \in T : Max(T) >= i
<1> DEFINE U == {n - i : i \in T}
<1>1. U \subseteq Nat /\ U # {}
  <2>1. \A i \in T : n - i \in Nat
    OBVIOUS
  <2>2. QED
    BY <2>1
<1>2. PICK u \in U : \A v \in U : u <= v
  <2> HIDE DEF U
  <2>1. QED
    BY <1>1, LeastNatural
<1>3. PICK i \in T : u = n - i
  OBVIOUS
<1>4. \A j \in T : n - i <= n - j
  BY <1>2, <1>3
<1>5. \A j \in T : i >= j
  BY <1>4
<1>6. QED
  BY <1>5 DEF Max

-----------------------------------------------------------------------------
LEMMA BlockType ==
    ASSUME NEW block \in Blocks
    PROVE  /\ block.id \in Ids /\ block.tick \in 0 .. Modulus - 1
           /\ block.tick \in Nat /\ block.delay \in Nat /\ block.wait \in Nat
           /\ block.late \in 0 .. Modulus
           /\ block # Nothing
<1>1. /\ block.id \in Ids /\ block.tick \in 0 .. Modulus - 1
      /\ block.delay \in Nat /\ block.wait \in Nat
      /\ block.late \in 0 .. Modulus
  BY DEF Blocks
<1>2. block.id # 0 /\ Nothing.id = 0
  BY <1>1, Sizes DEF Ids, Nothing
<1>3. block.tick \in Nat
  BY <1>1, Sizes
<1>4. QED
  BY <1>1, <1>2, <1>3

(* The place at which a block enters the sorted queue, and the one that is *)
(* taken.                                                                  *)
LEMMA AfterDivides ==
    ASSUME TypeOK, Sorted, NEW block \in Blocks
    PROVE  /\ After(block) \in 0 .. Len(queue)
           /\ \A i \in DOMAIN queue :
                 i <= After(block) <=> queue[i].tick >= block.tick
<1> DEFINE before == {i \in DOMAIN queue : queue[i].tick >= block.tick}
<1>1. /\ DOMAIN queue = 1 .. Len(queue) /\ Len(queue) \in Nat
      /\ block.tick \in Nat
      /\ \A i \in DOMAIN queue : queue[i].tick \in Nat
  <2>1. queue \in Seq(Blocks) /\ DOMAIN queue = 1 .. Len(queue)
        /\ Len(queue) \in Nat
    BY DEF TypeOK
  <2>2. \A i \in 1 .. Len(queue) : queue[i] \in Blocks
    BY <2>1
  <2>3. QED
    BY <2>1, <2>2, BlockType
<1>2. After(block) = IF before = {} THEN 0 ELSE Max(before)
  BY DEF After
<1>3. CASE before = {}
  BY <1>1, <1>2, <1>3
<1>4. CASE before # {}
  <2>1. before \subseteq 1 .. Len(queue)
    BY <1>1
  <2>2. Max(before) \in before /\ \A i \in before : Max(before) >= i
    <3> HIDE DEF before
    <3>1. QED
      BY <1>1, <1>4, <2>1, LastPlace
  <2> DEFINE k == After(block)
  <2>3. k \in before /\ \A i \in before : k >= i
    BY <1>2, <1>4, <2>2
  <2> HIDE DEF k
  <2>4. k \in 1 .. Len(queue) /\ queue[k].tick >= block.tick
    BY <1>1, <2>3
  <2>5. ASSUME NEW i \in DOMAIN queue
        PROVE  i <= k <=> queue[i].tick >= block.tick
    <3>1. i <= k => queue[i].tick >= queue[k].tick
      BY <1>1, <2>4 DEF Sorted
    <3>2. queue[i].tick >= block.tick => i <= k
      BY <1>1, <2>3, <2>4
    <3>3. /\ queue[i].tick \in Nat /\ queue[k].tick \in Nat
          /\ block.tick \in Nat
      BY <1>1, <2>4
    <3>4. QED
      BY <2>4, <3>1, <3>2, <3>3
  <2>6. QED
    BY <1>1, <2>4, <2>5 DEF k
<1>5. QED
  BY <1>3, <1>4

LEMMA EarliestIsQueued ==
    ASSUME TypeOK, queue # <<>>
    PROVE  /\ Earliest \in DOMAIN queue
           /\ queue[Earliest].tick = Last(queue).tick
<1> DEFINE T == {i \in DOMAIN queue : queue[i].tick = Last(queue).tick}
<1>1. DOMAIN queue = 1 .. Len(queue) /\ Len(queue) \in Nat /\ Len(queue) # 0
  BY DEF TypeOK
<1>2. Len(queue) \in T /\ T \subseteq Nat
  BY <1>1 DEF Last
<1>3. PICK i \in T : \A j \in T : i <= j
  <2> HIDE DEF T
  <2>1. QED
    BY <1>2, LeastNatural
<1>4. ASSUME NEW j \in 1 .. i - 1 PROVE queue[j].tick # Last(queue).tick
  BY <1>1, <1>3
<1>5. QED
  BY <1>4 DEF Earliest

-----------------------------------------------------------------------------
(* Types, and the order of the queue *)

LEMMA Enqueued ==
    ASSUME QueueOK, NEW block \in Blocks, Enqueue(block)
    PROVE  /\ queue' \in Seq(Blocks) /\ Len(queue') <= Capacity
           /\ Sorted'
           /\ lost' \subseteq Ids
<1>1. /\ queue \in Seq(Blocks) /\ Len(queue) <= Capacity /\ lost \subseteq Ids
      /\ Len(queue) \in Nat /\ DOMAIN queue = 1 .. Len(queue)
      /\ Sorted /\ block.id \in Ids
  BY DEF QueueOK, TypeOK, Blocks
<1>2. CASE Len(queue) >= Capacity
  BY <1>1, <1>2, Sizes DEF Enqueue, Sorted
<1>3. CASE Len(queue) < Capacity
  <2> DEFINE k == After(block)
  <2>1. /\ k \in 0 .. Len(queue)
        /\ \A i \in DOMAIN queue : i <= k <=> queue[i].tick >= block.tick
    BY AfterDivides DEF QueueOK
  <2>2. queue' = InsertAt(queue, k + 1, block) /\ lost' = lost
    BY <1>3 DEF Enqueue
  <2> HIDE DEF k
  <2>3. /\ queue' \in Seq(Blocks) /\ Len(queue') = Len(queue) + 1
        /\ \A j \in 1 .. Len(queue) + 1 :
              /\ j < k + 1 => queue'[j] = queue[j]
              /\ j = k + 1 => queue'[j] = block
              /\ j > k + 1 => queue'[j] = queue[j - 1]
    <3>1. k + 1 \in 1 .. Len(queue) + 1 /\ queue \in Seq(Blocks)
      BY <1>1, <2>1
    <3> DEFINE n == k + 1
               t == InsertAt(queue, n, block)
    <3>2. n \in 1 .. Len(queue) + 1
      BY <3>1
    <3> HIDE DEF n
    <3>3. /\ t \in Seq(Blocks) /\ Len(t) = Len(queue) + 1
          /\ \A j \in 1 .. Len(queue) + 1 :
                /\ j < n => t[j] = queue[j]
                /\ j = n => t[j] = block
                /\ j > n => t[j] = queue[j - 1]
      BY ONLY <3>1, <3>2, block \in Blocks, InsertedAt
    <3>4. queue' = t
      BY <2>2 DEF n
    <3> HIDE DEF t
    <3>5. QED
      BY ONLY <3>3, <3>4 DEF n
  <2>4. Len(queue') <= Capacity
    BY <1>1, <1>3, <2>3, Sizes
  <2>5. ASSUME NEW i \in 1 .. Len(queue) + 1, NEW j \in 1 .. Len(queue) + 1,
               i < j
        PROVE  queue'[i].tick >= queue'[j].tick
    <3>1. /\ block.tick \in Nat /\ k \in Nat
          /\ \A n \in DOMAIN queue : queue[n].tick \in Nat
      <4>1. \A n \in DOMAIN queue : queue[n] \in Blocks
        BY <1>1
      <4>2. QED
        BY <2>1, <4>1, BlockType
    <3>2. CASE j < k + 1
      <4>1. i \in DOMAIN queue /\ j \in DOMAIN queue
            /\ queue'[i] = queue[i] /\ queue'[j] = queue[j]
        BY <1>1, <2>1, <2>3, <2>5, <3>2
      <4>2. QED
        BY <1>1, <2>5, <4>1 DEF Sorted
    <3>3. CASE j = k + 1
      <4>1. i \in DOMAIN queue /\ i <= k
            /\ queue'[i] = queue[i] /\ queue'[j] = block
        BY <1>1, <2>1, <2>3, <2>5, <3>3
      <4>2. QED
        BY <2>1, <4>1
    <3>4. CASE j > k + 1
      <4>1. j - 1 \in DOMAIN queue /\ queue'[j] = queue[j - 1] /\ j - 1 > k
        BY <1>1, <2>1, <2>3, <2>5, <3>4
      <4>2. CASE i < k + 1
        <5>1. i \in DOMAIN queue /\ queue'[i] = queue[i] /\ i < j - 1
          BY <1>1, <2>1, <2>3, <2>5, <3>4, <4>2
        <5>2. QED
          BY <1>1, <4>1, <5>1 DEF Sorted
      <4>3. CASE i = k + 1
        <5>1. queue'[i] = block
          BY <1>1, <2>1, <2>3, <2>5, <4>3
        <5>2. ~(queue[j - 1].tick >= block.tick)
          BY <2>1, <3>1, <4>1
        <5>3. QED
          BY <3>1, <4>1, <5>1, <5>2
      <4>4. CASE i > k + 1
        <5>1. /\ i - 1 \in DOMAIN queue /\ queue'[i] = queue[i - 1]
              /\ i - 1 < j - 1
          BY <1>1, <2>1, <2>3, <2>5, <4>4
        <5>2. QED
          BY <1>1, <4>1, <5>1 DEF Sorted
      <4>5. QED
        BY <2>1, <4>2, <4>3, <4>4
    <3>5. QED
      BY <2>1, <3>2, <3>3, <3>4
  <2>6. Sorted'
    <3>1. DOMAIN queue' = 1 .. Len(queue) + 1
      BY <2>3
    <3>2. QED
      BY <2>5, <3>1 DEF Sorted
  <2>7. QED
    BY <1>1, <2>2, <2>3, <2>4, <2>6
<1>4. QED
  BY <1>1, <1>2, <1>3, Sizes

LEMMA AgedBlock ==
    ASSUME NEW block \in Blocks
    PROVE  /\ Aged(block) \in Blocks
           /\ Aged(block).id = block.id /\ Aged(block).tick = block.tick
           /\ Aged(block).delay = block.delay
           /\ Aged(block).wait = IF block.wait > 0 THEN block.wait - 1 ELSE 0
           /\ Aged(block).late = IF block.wait = 0 /\ block.late < Modulus
                                 THEN block.late + 1 ELSE block.late
<1> DEFINE w == IF block.wait > 0 THEN block.wait - 1 ELSE 0
           l == IF block.wait = 0 /\ block.late < Modulus
                THEN block.late + 1 ELSE block.late
<1>1. /\ block.id \in Ids /\ block.tick \in 0 .. Modulus - 1
      /\ block.delay \in Nat /\ w \in Nat /\ l \in 0 .. Modulus
  BY BlockType, Sizes
<1>2. Aged(block) = [block EXCEPT !.wait = w, !.late = l]
  BY DEF Aged
<1> HIDE DEF w, l
<1>3. Aged(block) = [id |-> block.id, tick |-> block.tick,
                     delay |-> block.delay, wait |-> w, late |-> l]
  BY <1>2 DEF Blocks
<1>4. QED
  BY <1>1, <1>3 DEF Blocks, w, l

LEMMA InitQueue ==
    ASSUME Init
    PROVE  QueueOK
<1>1. queue \in Seq(Blocks) /\ Len(queue) = 0 /\ DOMAIN queue = {}
  BY DEF Init
<1>2. /\ now \in 0 .. Modulus - 1 /\ current \in 0 .. Modulus - 1
      /\ requests \in 0 .. MaxRequests /\ Len(queue) <= Capacity
  BY <1>1, Sizes DEF Init
<1>3. QED
  BY <1>1, <1>2 DEF Init, QueueOK, TypeOK, Sorted

LEMMA PushQueueOK ==
    ASSUME QueueOK, NEW delay \in Delays \cup {0}, PushQueue(delay)
    PROVE  QueueOK'
<1> DEFINE tick == IF Proactor /\ delay > 0 THEN (now + delay) % Modulus ELSE 0
           block == [id |-> requests', delay |-> delay, wait |-> delay,
                     late |-> 0, tick |-> tick]
<1>1. /\ now \in 0 .. Modulus - 1 /\ requests \in 0 .. MaxRequests
      /\ requests < MaxRequests /\ requests' = requests + 1
  BY DEF QueueOK, TypeOK, PushQueue
<1>2. requests' \in Ids /\ requests' \in 0 .. MaxRequests
  BY <1>1, Sizes DEF Ids
<1>3. tick \in 0 .. Modulus - 1
  BY <1>1, Sizes
<1>4. block \in Blocks
  BY <1>2, <1>3, Sizes DEF Blocks
<1>5. Enqueue(block) /\ UNCHANGED <<now, fired, pc, current, chain, held, sent>>
  BY DEF PushQueue
<1> HIDE DEF block
<1>6. /\ queue' \in Seq(Blocks) /\ Len(queue') <= Capacity
      /\ Sorted' /\ lost' \subseteq Ids
  BY <1>4, <1>5, Enqueued
<1>7. QED
  BY <1>2, <1>5, <1>6 DEF QueueOK, TypeOK

LEMMA PopQueueOK ==
    ASSUME QueueOK, PopBlock
    PROVE  QueueOK'
<1> DEFINE k == Earliest
<1>1. /\ queue \in Seq(Blocks) /\ Len(queue) <= Capacity
      /\ DOMAIN queue = 1 .. Len(queue) /\ Len(queue) \in Nat /\ Sorted
      /\ \A i \in DOMAIN queue : queue[i] \in Blocks /\ queue[i].tick \in Nat
  <2>1. queue \in Seq(Blocks) /\ DOMAIN queue = 1 .. Len(queue)
        /\ Len(queue) \in Nat /\ Len(queue) <= Capacity /\ Sorted
    BY DEF QueueOK, TypeOK
  <2>2. \A i \in 1 .. Len(queue) : queue[i] \in Blocks
    BY <2>1
  <2>3. QED
    BY <2>1, <2>2, BlockType
<1>2. k \in 1 .. Len(queue)
  BY <1>1, EarliestIsQueued DEF PopBlock, QueueOK
<1>3. queue' = RemoveAt(queue, k)
  BY DEF PopBlock
<1>4. IF IsDue(queue[k].tick)
      THEN chain' = chain \cup {queue[k]} /\ UNCHANGED <<pc, held>>
      ELSE held' = queue[k] /\ pc' = "back" /\ UNCHANGED chain
  BY DEF PopBlock
<1> HIDE DEF k
<1>5. /\ queue' \in Seq(Blocks) /\ Len(queue') = Len(queue) - 1
      /\ \A j \in 1 .. Len(queue) - 1 :
            queue'[j] = IF j < k THEN queue[j] ELSE queue[j + 1]
  BY <1>1, <1>2, <1>3, RemovedAt, Zenon
<1>6. Len(queue') <= Capacity /\ DOMAIN queue' = 1 .. Len(queue) - 1
  BY <1>1, <1>5, Sizes
<1>7. Sorted'
  <2> DEFINE K(j) == IF j < k THEN j ELSE j + 1
  <2>1. \A j \in DOMAIN queue' : K(j) \in DOMAIN queue /\ queue'[j] = queue[K(j)]
    BY <1>1, <1>2, <1>5, <1>6
  <2>2. \A i, j \in DOMAIN queue' : i < j => K(i) < K(j)
    BY <1>1, <1>2, <1>6
  <2> HIDE DEF K
  <2>3. QED
    BY <1>1, <2>1, <2>2 DEF Sorted
<1>8. queue[k] \in Blocks /\ queue[k] # Nothing
  BY <1>1, <1>2, BlockType
<1>9. /\ chain' \subseteq Blocks /\ pc' \in {"idle", "pop", "back"}
      /\ held' \in Blocks \cup {Nothing} /\ (pc' = "back" <=> held' # Nothing)
  BY <1>4, <1>8 DEF QueueOK, TypeOK
<1>10. UNCHANGED <<now, fired, current, sent, lost, requests>>
  BY DEF PopBlock
<1>11. QED
  BY <1>5, <1>6, <1>7, <1>9, <1>10 DEF QueueOK, TypeOK

LEMMA ReturnOK ==
    ASSUME QueueOK, Return
    PROVE  chain' = {} /\ pc' = "idle" /\ sent' \subseteq Ids
  BY DEF QueueOK, TypeOK, Return, Blocks

LEMMA PutBackOK ==
    ASSUME QueueOK, PutBack
    PROVE  QueueOK'
<1>1. held \in Blocks
  BY DEF QueueOK, TypeOK, PutBack
<1>2. /\ Enqueue(held) /\ Return /\ held' = Nothing
      /\ UNCHANGED <<now, fired, current, requests>>
  BY DEF PutBack
<1>3. /\ queue' \in Seq(Blocks) /\ Len(queue') <= Capacity
      /\ Sorted' /\ lost' \subseteq Ids
  BY <1>1, <1>2, Enqueued
<1>4. QED
  BY <1>2, <1>3, ReturnOK DEF QueueOK, TypeOK

LEMMA TickOK ==
    ASSUME QueueOK, Tick
    PROVE  /\ QueueOK'
           /\ Len(queue') = Len(queue) /\ DOMAIN queue' = DOMAIN queue
           /\ \A i \in DOMAIN queue : queue'[i] = Aged(queue[i])
           /\ held' = IF held = Nothing THEN Nothing ELSE Aged(held)
<1>1. /\ now \in 0 .. Modulus - 1 /\ queue \in Seq(Blocks)
      /\ Len(queue) <= Capacity /\ Len(queue) \in Nat
      /\ DOMAIN queue = 1 .. Len(queue)
      /\ held \in Blocks \cup {Nothing} /\ Sorted
  BY DEF QueueOK, TypeOK
<1>2. now' \in 0 .. Modulus - 1
  BY <1>1, Sizes DEF Tick
<1>3. /\ queue' = [i \in 1 .. Len(queue) |-> Aged(queue[i])]
      /\ held' = IF held = Nothing THEN Nothing ELSE Aged(held)
      /\ fired' = FALSE
      /\ UNCHANGED <<pc, current, chain, sent, lost, requests>>
  BY <1>1 DEF Tick
<1>4. \A i \in 1 .. Len(queue) :
         /\ queue[i] \in Blocks /\ Aged(queue[i]) \in Blocks
         /\ Aged(queue[i]).tick = queue[i].tick
  BY <1>1, AgedBlock
<1>5. /\ queue' \in Seq(Blocks) /\ Len(queue') = Len(queue)
      /\ DOMAIN queue' = 1 .. Len(queue)
      /\ \A i \in 1 .. Len(queue) : queue'[i] = Aged(queue[i])
  BY <1>1, <1>3, <1>4
<1>6. Sorted'
  BY <1>1, <1>4, <1>5 DEF Sorted
<1>7. held' \in Blocks \cup {Nothing} /\ (held' = Nothing <=> held = Nothing)
  <2>1. CASE held = Nothing
    BY <1>3, <2>1
  <2>2. CASE held # Nothing
    <3>1. held \in Blocks /\ held' = Aged(held)
      BY <1>1, <1>3, <2>2
    <3>2. held' \in Blocks
      BY <3>1, AgedBlock
    <3>3. Nothing \notin Blocks
      BY DEF Nothing, Blocks, Ids
    <3>4. QED
      BY <2>2, <3>2, <3>3
  <2>3. QED
    BY <2>1, <2>2
<1>8. QED
  BY <1>1, <1>2, <1>3, <1>5, <1>6, <1>7 DEF QueueOK, TypeOK

LEMMA StepQueue ==
    ASSUME QueueOK, [Next]_vars
    PROVE  QueueOK'
<1>1. CASE PopBegin
  BY <1>1 DEF PopBegin, QueueOK, TypeOK, Sorted
<1>2. CASE PopEmpty
  BY <1>2, ReturnOK DEF PopEmpty, QueueOK, TypeOK, Sorted
<1>3. CASE UNCHANGED vars
  BY <1>3 DEF vars, QueueOK, TypeOK, Sorted
<1>4. QED
  BY <1>1, <1>2, <1>3, PushQueueOK, PopQueueOK, PutBackOK, TickOK DEF Next, Pop

(* The queue keeps the order that dequeue_prio relies on, its limit, and   *)
(* the variables keep their types, whatever is pushed or put back while    *)
(* blocks are taken (ServiceImpl.cpp:35-59).                               *)
THEOREM QueueSorted == Spec => []QueueOK
  BY InitQueue, StepQueue, PTL DEF Spec

-----------------------------------------------------------------------------
(* Every block is in one place *)

InQueue(id) == \E i \in DOMAIN queue : queue[i].id = id
InChain(id) == \E block \in chain : block.id = id

OnceQueued(id) == \A i, j \in DOMAIN queue :
                     queue[i].id = id /\ queue[j].id = id => i = j
OnceTaken(id) == \A a, b \in chain : a.id = id /\ b.id = id => a = b

Somewhere(id) == \/ InQueue(id) \/ InChain(id) \/ held.id = id
                 \/ id \in sent \/ id \in lost

NotTwice(id) == /\ OnceQueued(id) /\ OnceTaken(id)
                /\ InQueue(id) => ~InChain(id)
                /\ held.id = id => ~InQueue(id) /\ ~InChain(id)
                /\ id \in sent => /\ ~InQueue(id) /\ ~InChain(id)
                                  /\ held.id # id
                /\ id \in lost => /\ ~InQueue(id) /\ ~InChain(id)
                                  /\ held.id # id /\ id \notin sent

Placed(id) == NotTwice(id) /\ (Somewhere(id) <=> id <= requests)

OnceInv == QueueOK /\ \A id \in Ids : Placed(id)

LEMMA EnqueueFinds ==
    ASSUME QueueOK, NEW block \in Blocks, Enqueue(block), NEW id \in Ids,
           OnceQueued(id), ~(InQueue(id) /\ block.id = id)
    PROVE  /\ OnceQueued(id)'
           /\ \/ /\ InQueue(id)' <=> InQueue(id) \/ block.id = id
                 /\ lost' = lost
              \/ /\ InQueue(id)' <=> InQueue(id)
                 /\ id \in lost' <=> id \in lost \/ block.id = id
<1>1. /\ queue \in Seq(Blocks) /\ Len(queue) \in Nat
      /\ DOMAIN queue = 1 .. Len(queue) /\ Sorted /\ TypeOK
  BY DEF QueueOK, TypeOK
<1>2. CASE ~(Len(queue) < Capacity)
  BY <1>2 DEF Enqueue, InQueue, OnceQueued
<1>3. CASE Len(queue) < Capacity
  <2> DEFINE n == After(block) + 1
             t == InsertAt(queue, n, block)
  <2>1. n \in 1 .. Len(queue) + 1
    BY <1>1, AfterDivides
  <2>2. queue' = t /\ lost' = lost
    BY <1>3 DEF Enqueue
  <2> HIDE DEF n
  <2>3. /\ t \in Seq(Blocks) /\ Len(t) = Len(queue) + 1
        /\ \A j \in 1 .. Len(queue) + 1 :
              /\ j < n => t[j] = queue[j]
              /\ j = n => t[j] = block
              /\ j > n => t[j] = queue[j - 1]
    BY ONLY <1>1, <2>1, block \in Blocks, InsertedAt
  <2> HIDE DEF t
  <2>4. DOMAIN t = 1 .. Len(queue) + 1
    BY <2>3
  <2> DEFINE K(j) == IF j < n THEN j ELSE j - 1
  <2>5. ASSUME NEW j \in DOMAIN t, j # n
        PROVE  K(j) \in DOMAIN queue /\ t[j] = queue[K(j)]
    BY <1>1, <2>1, <2>3, <2>4, <2>5
  <2>6. \A i, j \in DOMAIN t : i # n /\ j # n /\ K(i) = K(j) => i = j
    BY <1>1, <2>1, <2>4
  <2>7. n \in DOMAIN t /\ t[n] = block
    BY <1>1, <2>1, <2>3, <2>4
  <2>8. ASSUME NEW i \in DOMAIN queue
        PROVE  \E j \in DOMAIN t : j # n /\ t[j] = queue[i]
    <3>1. CASE i < n
      BY <1>1, <2>1, <2>3, <2>4, <3>1
    <3>2. CASE i >= n
      <4>1. /\ i + 1 \in 1 .. Len(queue) + 1 /\ i + 1 > n /\ i + 1 # n
            /\ (i + 1) - 1 = i
        BY <1>1, <2>1, <3>2
      <4>2. t[i + 1] = queue[i]
        BY <2>3, <4>1
      <4>3. QED
        BY <2>4, <4>1, <4>2
    <3>3. QED
      BY <1>1, <2>1, <3>1, <3>2
  <2> HIDE DEF K
  <2>9. InQueue(id)' <=> InQueue(id) \/ block.id = id
    <3>1. ASSUME NEW j \in DOMAIN t, t[j].id = id
          PROVE  InQueue(id) \/ block.id = id
      BY <2>5, <2>7, <3>1 DEF InQueue
    <3>2. (\E j \in DOMAIN t : t[j].id = id) <=> InQueue(id) \/ block.id = id
      BY <2>7, <2>8, <3>1 DEF InQueue
    <3>3. QED
      BY <2>2, <3>2 DEF InQueue
  <2>10. ASSUME NEW i \in DOMAIN t, NEW j \in DOMAIN t,
                t[i].id = id, t[j].id = id
         PROVE  i = j
    <3>1. CASE i # n /\ j # n
      <4>1. K(i) = K(j)
        BY <2>5, <2>10, <3>1 DEF OnceQueued
      <4>2. QED
        BY <2>6, <3>1, <4>1
    <3>2. CASE i = n /\ j # n
      BY <2>5, <2>7, <2>10, <3>2 DEF InQueue
    <3>3. CASE i # n /\ j = n
      BY <2>5, <2>7, <2>10, <3>3 DEF InQueue
    <3>4. QED
      BY <3>1, <3>2, <3>3
  <2>11. OnceQueued(id)'
    BY <2>2, <2>10 DEF OnceQueued
  <2>12. QED
    BY <2>2, <2>9, <2>11
<1>4. QED
  BY <1>2, <1>3

LEMMA PushPlaced ==
    ASSUME OnceInv, NEW delay \in Delays \cup {0}, PushQueue(delay),
           NEW id \in Ids
    PROVE  Placed(id)'
<1> DEFINE tick == IF Proactor /\ delay > 0 THEN (now + delay) % Modulus ELSE 0
           block == [id |-> requests', delay |-> delay, wait |-> delay,
                     late |-> 0, tick |-> tick]
<1>1. /\ now \in 0 .. Modulus - 1 /\ requests \in 0 .. MaxRequests
      /\ requests < MaxRequests /\ requests' = requests + 1
      /\ id \in Nat /\ id \in Ids
  BY DEF OnceInv, QueueOK, TypeOK, PushQueue, Ids
<1>2. requests' \in Ids
  BY <1>1, Sizes DEF Ids
<1>3. tick \in 0 .. Modulus - 1
  BY <1>1, Sizes
<1>4. block \in Blocks /\ block.id = requests'
  BY <1>2, <1>3, Sizes DEF Blocks
<1>5. Enqueue(block) /\ UNCHANGED <<chain, held, sent>>
  BY DEF PushQueue
<1> HIDE DEF block
<1>6. Placed(id) /\ QueueOK
  BY DEF OnceInv
<1>7. block.id = id <=> id = requests + 1
  BY <1>1, <1>4
<1>8. block.id = id => ~Somewhere(id)
  BY <1>1, <1>6, <1>7 DEF Placed
<1>9. /\ OnceQueued(id)'
      /\ \/ /\ InQueue(id)' <=> InQueue(id) \/ block.id = id
            /\ lost' = lost
         \/ /\ InQueue(id)' <=> InQueue(id)
            /\ id \in lost' <=> id \in lost \/ block.id = id
  BY <1>4, <1>5, <1>6, <1>8, EnqueueFinds DEF Placed, NotTwice, Somewhere
<1>10. OnceTaken(id)' /\ (InChain(id)' <=> InChain(id))
  BY <1>5, <1>6 DEF Placed, NotTwice, OnceTaken, InChain
<1>11. NotTwice(id)' /\ (Somewhere(id)' <=> Somewhere(id) \/ block.id = id)
  BY <1>5, <1>6, <1>8, <1>9, <1>10 DEF Placed, NotTwice, Somewhere
<1>12. id <= requests' <=> id <= requests \/ block.id = id
  BY <1>1, <1>7
<1>13. QED
  BY <1>6, <1>11, <1>12 DEF Placed

LEMMA PopPlaced ==
    ASSUME OnceInv, PopBlock, NEW id \in Ids
    PROVE  Placed(id)'
<1> DEFINE k == Earliest
           t == RemoveAt(queue, k)
<1>1. /\ queue \in Seq(Blocks) /\ Len(queue) \in Nat
      /\ DOMAIN queue = 1 .. Len(queue)
      /\ Placed(id) /\ pc = "pop" /\ id \in Ids
      /\ held.id # id
  BY DEF OnceInv, QueueOK, TypeOK, PopBlock, Nothing, Ids
<1>2. k \in 1 .. Len(queue)
  BY <1>1, EarliestIsQueued DEF PopBlock, OnceInv, QueueOK
<1>3. queue' = t /\ UNCHANGED <<sent, lost, requests>>
  BY DEF PopBlock
<1>4. \/ chain' = chain \cup {queue[k]} /\ held' = held
      \/ chain' = chain /\ held' = queue[k]
  BY DEF PopBlock
<1> HIDE DEF k
<1>5. /\ t \in Seq(Blocks) /\ Len(t) = Len(queue) - 1
      /\ \A j \in 1 .. Len(queue) - 1 :
            t[j] = IF j < k THEN queue[j] ELSE queue[j + 1]
  BY ONLY <1>1, <1>2, RemovedAt, Zenon
<1> HIDE DEF t
<1>6. DOMAIN t = 1 .. Len(queue) - 1
  BY <1>1, <1>5
<1> DEFINE K(j) == IF j < k THEN j ELSE j + 1
<1>7. ASSUME NEW j \in DOMAIN t
      PROVE  K(j) \in DOMAIN queue /\ t[j] = queue[K(j)] /\ K(j) # k
  BY <1>1, <1>2, <1>5, <1>6
<1>8. \A i, j \in DOMAIN t : K(i) = K(j) => i = j
  BY <1>1, <1>2, <1>6
<1>9. ASSUME NEW i \in DOMAIN queue, i # k
      PROVE  \E j \in DOMAIN t : t[j] = queue[i]
  <2>1. CASE i < k
    <3>1. i \in 1 .. Len(queue) - 1
      BY <1>1, <1>2, <2>1
    <3>2. QED
      BY <1>5, <1>6, <2>1, <3>1
  <2>2. CASE i > k
    <3>1. /\ i - 1 \in 1 .. Len(queue) - 1 /\ ~(i - 1 < k)
          /\ (i - 1) + 1 = i
      BY <1>1, <1>2, <2>2
    <3>2. t[i - 1] = queue[i]
      BY <1>5, <3>1
    <3>3. QED
      BY <1>6, <3>1, <3>2
  <2>3. QED
    BY <1>1, <1>2, <1>9, <2>1, <2>2
<1> HIDE DEF K
<1>10. OnceQueued(id) /\ OnceTaken(id) /\ NotTwice(id)
  BY <1>1 DEF Placed, NotTwice
<1>11. k \in DOMAIN queue
  BY <1>1, <1>2
<1>12. ASSUME NEW j \in DOMAIN t, t[j].id = id
       PROVE  InQueue(id) /\ queue[k].id # id
  BY <1>7, <1>10, <1>11, <1>12 DEF InQueue, OnceQueued
<1>13. /\ InQueue(id) <=> InQueue(id)' \/ queue[k].id = id
       /\ ~(InQueue(id)' /\ queue[k].id = id)
  <2>1. (\E j \in DOMAIN t : t[j].id = id) =>
            InQueue(id) /\ queue[k].id # id
    BY <1>12
  <2>2. InQueue(id) => (\E j \in DOMAIN t : t[j].id = id) \/ queue[k].id = id
    BY <1>9 DEF InQueue
  <2>3. queue[k].id = id => InQueue(id)
    BY <1>11 DEF InQueue
  <2>4. InQueue(id)' <=> \E j \in DOMAIN t : t[j].id = id
    BY <1>3 DEF InQueue
  <2>5. QED
    BY <2>1, <2>2, <2>3, <2>4
<1>14. OnceQueued(id)'
  <2>1. ASSUME NEW i \in DOMAIN t, NEW j \in DOMAIN t,
               t[i].id = id, t[j].id = id
        PROVE  i = j
    <3>1. K(i) = K(j)
      BY <1>7, <1>10, <2>1 DEF OnceQueued
    <3>2. QED
      BY <1>8, <3>1
  <2>2. QED
    BY <1>3, <2>1 DEF OnceQueued
<1>15. CASE chain' = chain \cup {queue[k]} /\ held' = held
  <2>1. InChain(id)' <=> InChain(id) \/ queue[k].id = id
    BY <1>15 DEF InChain
  <2>2. OnceTaken(id)'
    <3>1. queue[k].id = id => ~InChain(id)
      BY <1>10, <1>13 DEF NotTwice
    <3>2. QED
      BY <1>10, <1>15, <3>1 DEF OnceTaken, InChain
  <2>3. NotTwice(id)' /\ (Somewhere(id)' <=> Somewhere(id))
    BY <1>3, <1>10, <1>13, <1>14, <1>15, <2>1, <2>2 DEF NotTwice, Somewhere
  <2>4. QED
    BY <1>1, <1>3, <2>3 DEF Placed
<1>16. CASE chain' = chain /\ held' = queue[k]
  <2>1. OnceTaken(id)' /\ (InChain(id)' <=> InChain(id))
    BY <1>10, <1>16 DEF OnceTaken, InChain
  <2>2. NotTwice(id)' /\ (Somewhere(id)' <=> Somewhere(id))
    BY <1>1, <1>3, <1>10, <1>13, <1>14, <1>16, <2>1 DEF NotTwice, Somewhere
  <2>3. QED
    BY <1>1, <1>3, <2>2 DEF Placed
<1>17. QED
  BY <1>4, <1>15, <1>16

LEMMA ReturnPlaced ==
    ASSUME NEW id \in Ids, Return
    PROVE  /\ OnceTaken(id)' /\ ~InChain(id)'
           /\ id \in sent' <=> id \in sent \/ InChain(id)
  BY DEF Return, OnceTaken, InChain

LEMMA PutBackPlaced ==
    ASSUME OnceInv, PutBack, NEW id \in Ids
    PROVE  Placed(id)'
<1>1. /\ held \in Blocks /\ QueueOK /\ Placed(id)
      /\ Enqueue(held) /\ Return /\ held' = Nothing /\ requests' = requests
  BY DEF OnceInv, QueueOK, TypeOK, PutBack
<1>2. held'.id # id
  BY <1>1 DEF Nothing, Ids
<1>3. NotTwice(id)
  BY <1>1 DEF Placed
<1>4. /\ OnceQueued(id)'
      /\ \/ /\ InQueue(id)' <=> InQueue(id) \/ held.id = id
            /\ lost' = lost
         \/ /\ InQueue(id)' <=> InQueue(id)
            /\ id \in lost' <=> id \in lost \/ held.id = id
  BY <1>1, <1>3, EnqueueFinds DEF NotTwice
<1>5. /\ OnceTaken(id)' /\ ~InChain(id)'
      /\ id \in sent' <=> id \in sent \/ InChain(id)
  BY <1>1, ReturnPlaced
<1>6. NotTwice(id)' /\ (Somewhere(id)' <=> Somewhere(id))
  BY <1>2, <1>3, <1>4, <1>5 DEF NotTwice, Somewhere
<1>7. QED
  BY <1>1, <1>6 DEF Placed

LEMMA PopEmptyPlaced ==
    ASSUME OnceInv, PopEmpty, NEW id \in Ids
    PROVE  Placed(id)'
<1>1. /\ Placed(id) /\ Return
      /\ UNCHANGED <<queue, held, lost, requests>>
  BY DEF OnceInv, PopEmpty
<1>2. NotTwice(id)
  BY <1>1 DEF Placed
<1>3. /\ OnceTaken(id)' /\ ~InChain(id)'
      /\ id \in sent' <=> id \in sent \/ InChain(id)
  BY <1>1, ReturnPlaced
<1>4. OnceQueued(id)' /\ (InQueue(id)' <=> InQueue(id))
  BY <1>1, <1>2 DEF NotTwice, OnceQueued, InQueue
<1>5. NotTwice(id)' /\ (Somewhere(id)' <=> Somewhere(id))
  BY <1>1, <1>2, <1>3, <1>4 DEF NotTwice, Somewhere
<1>6. QED
  BY <1>1, <1>5 DEF Placed

LEMMA TickPlaced ==
    ASSUME OnceInv, Tick, NEW id \in Ids
    PROVE  Placed(id)'
<1>1. /\ Placed(id) /\ QueueOK
      /\ UNCHANGED <<chain, sent, lost, requests>>
  BY DEF OnceInv, Tick
<1>2. NotTwice(id)
  BY <1>1 DEF Placed
<1>3. /\ DOMAIN queue' = DOMAIN queue
      /\ \A i \in DOMAIN queue : queue'[i] = Aged(queue[i])
      /\ held' = IF held = Nothing THEN Nothing ELSE Aged(held)
  BY <1>1, TickOK
<1>4. \A i \in DOMAIN queue : queue'[i].id = queue[i].id
  <2>1. \A i \in DOMAIN queue : queue[i] \in Blocks
    BY <1>1 DEF QueueOK, TypeOK
  <2>2. QED
    BY <1>3, <2>1, AgedBlock
<1>5. held'.id = held.id
  <2>1. held \in Blocks \/ held = Nothing
    BY <1>1 DEF QueueOK, TypeOK
  <2>2. QED
    BY <1>3, <2>1, AgedBlock
<1>6. OnceQueued(id)' /\ (InQueue(id)' <=> InQueue(id))
  BY <1>2, <1>3, <1>4 DEF NotTwice, OnceQueued, InQueue
<1>7. OnceTaken(id)' /\ (InChain(id)' <=> InChain(id))
  BY <1>1, <1>2 DEF NotTwice, OnceTaken, InChain
<1>8. NotTwice(id)' /\ (Somewhere(id)' <=> Somewhere(id))
  BY <1>1, <1>2, <1>5, <1>6, <1>7 DEF NotTwice, Somewhere
<1>9. QED
  BY <1>1, <1>8 DEF Placed

LEMMA OnePlace ==
    ASSUME NEW id \in Ids, Placed(id)
    PROVE  Cardinality({i \in DOMAIN queue : queue[i].id = id})
           + Cardinality({block \in chain \cup {held} : block.id = id})
           + Cardinality({s \in {1} : id \in sent})
           + Cardinality({s \in {1} : id \in lost})
             = IF id <= requests THEN 1 ELSE 0
<1> DEFINE Q == {i \in DOMAIN queue : queue[i].id = id}
           C == {block \in chain \cup {held} : block.id = id}
           S == {s \in {1} : id \in sent}
           L == {s \in {1} : id \in lost}
<1>1. NotTwice(id) /\ (Somewhere(id) <=> id <= requests)
  BY DEF Placed
<1>2. (\A x, y \in Q : x = y) /\ (Q # {} <=> InQueue(id))
  BY <1>1 DEF NotTwice, OnceQueued, InQueue
<1>3. (\A x, y \in C : x = y) /\ (C # {} <=> InChain(id) \/ held.id = id)
  BY <1>1 DEF NotTwice, OnceTaken, InChain
<1>4. (\A x, y \in S : x = y) /\ (S # {} <=> id \in sent)
  OBVIOUS
<1>5. (\A x, y \in L : x = y) /\ (L # {} <=> id \in lost)
  OBVIOUS
<1> HIDE DEF Q, C, S, L
<1>6. /\ Cardinality(Q) = IF Q = {} THEN 0 ELSE 1
      /\ Cardinality(C) = IF C = {} THEN 0 ELSE 1
      /\ Cardinality(S) = IF S = {} THEN 0 ELSE 1
      /\ Cardinality(L) = IF L = {} THEN 0 ELSE 1
  BY <1>2, <1>3, <1>4, <1>5, AtMostOne
<1>7. Cardinality(Q) + Cardinality(C) + Cardinality(S) + Cardinality(L)
        = IF Somewhere(id) THEN 1 ELSE 0
  BY <1>1, <1>2, <1>3, <1>4, <1>5, <1>6 DEF NotTwice, Somewhere
<1>8. QED
  BY <1>1, <1>7 DEF Q, C, S, L

(* However pushes and the timer's pop interleave, no block is lost without *)
(* a trace or sent twice: it is queued, in the hands of the pop, sent, or  *)
(* refused for want of room (ServiceImpl.cpp:35-80).                       *)
THEOREM SentOnce == Spec => []ExactlyOnce
<1>1. Init => OnceInv
  <2> SUFFICES ASSUME Init, NEW id \in Ids PROVE Placed(id)
    BY InitQueue DEF OnceInv
  <2>1. id # 0 /\ ~(id <= requests)
    BY Sizes DEF Init, Ids
  <2>2. /\ OnceQueued(id) /\ OnceTaken(id) /\ ~InQueue(id) /\ ~InChain(id)
        /\ held.id # id /\ id \notin sent /\ id \notin lost
    BY <2>1 DEF Init, OnceQueued, OnceTaken, InQueue, InChain, Nothing
  <2>3. QED
    BY <2>1, <2>2 DEF Placed, NotTwice, Somewhere
<1>2. OnceInv /\ [Next]_vars => OnceInv'
  <2> SUFFICES ASSUME OnceInv, [Next]_vars PROVE OnceInv'
    OBVIOUS
  <2>1. QueueOK'
    BY StepQueue DEF OnceInv
  <2>2. ASSUME UNCHANGED <<queue, chain, held, sent, lost, requests>>,
               NEW id \in Ids
        PROVE  Placed(id)'
    BY <2>2 DEF OnceInv, Placed, NotTwice, Somewhere, OnceQueued, OnceTaken,
                InQueue, InChain
  <2>3. ASSUME NEW id \in Ids PROVE Placed(id)'
    <3>1. CASE PopBegin \/ UNCHANGED vars
      BY <2>2, <3>1 DEF PopBegin, vars
    <3>2. QED
      BY <3>1, PushPlaced, PopPlaced, PutBackPlaced, PopEmptyPlaced,
         TickPlaced DEF Next, Pop
  <2>4. QED
    BY <2>1, <2>3 DEF OnceInv, Ids
<1>3. OnceInv => ExactlyOnce
  BY OnePlace DEF OnceInv, ExactlyOnce
<1>4. QED
  BY <1>1, <1>2, <1>3, PTL DEF Spec

-----------------------------------------------------------------------------
(* No block is sent early *)

(* A block that has still to wait is due when the wait is over ... *)
Timed(block) ==
    /\ Proactor /\ block.wait > 0 => /\ block.wait <= block.delay
                                     /\ block.wait <= Modulus - 1
                                     /\ block.tick = (now + block.wait) % Modulus
    /\ ~Proactor => block.tick = 0

(* ... and a pop that has begun goes by this tick or by the last one,      *)
(* since the timer cannot expire again before it has returned.             *)
Recent == pc # "idle" => \/ current = now
                         \/ ~fired /\ now = (current + 1) % Modulus

TimeInv == /\ QueueOK /\ Recent /\ NeverEarly
           /\ \A i \in DOMAIN queue : Timed(queue[i])
           /\ Timed(held)

LEMMA OneTurn ==
    ASSUME NEW x \in Int
    PROVE  /\ x \in 0 .. Modulus - 1 => x % Modulus = x
           /\ x \in Modulus .. 2 * Modulus - 1 => x % Modulus = x - Modulus
           /\ x \in -Modulus .. -1 => x % Modulus = x + Modulus
  BY Sizes

LEMMA NotDueYet ==
    ASSUME QueueOK, Recent, pc # "idle", NEW block \in Blocks,
           Proactor, block.delay < Day - 1, Timed(block), block.wait > 0
    PROVE  ~IsDue(block.tick)
<1> DEFINE M == Modulus
           w == block.wait
           t == block.tick
           d == (current - t) % M
<1>2. M \in Nat /\ Day \in Nat /\ 2 * Day < M
  BY Sizes
<1>1. /\ now \in 0 .. M - 1 /\ current \in 0 .. M - 1
      /\ w \in Nat /\ w >= 1 /\ w <= Day - 2 /\ t = (now + w) % M
      /\ current = now \/ now = (current + 1) % M
  BY <1>2, BlockType DEF QueueOK, TypeOK, Timed, Recent
<1> HIDE DEF w, t
<1>3. t = IF now + w < M THEN now + w ELSE now + w - M
  BY <1>1, <1>2, OneTurn
<1>4. \/ current = now
      \/ now = current + 1
      \/ now = current + 1 - M
  <2>1. current + 1 \in 0 .. M - 1 \/ current + 1 \in M .. 2 * M - 1
    BY <1>1, <1>2
  <2>2. (current + 1) % M = current + 1 \/ (current + 1) % M = current + 1 - M
    <3>1. CASE current + 1 \in 0 .. M - 1
      BY ONLY <1>1, <1>2, <3>1
    <3>2. CASE current + 1 \in M .. 2 * M - 1
      BY ONLY <1>1, <1>2, <3>2
    <3>3. QED
      BY <2>1, <3>1, <3>2
  <2>3. QED
    BY <1>1, <2>2
<1>5. d = M - w \/ d = M - w - 1
  <2>1. \/ current - t = -w \/ current - t = M - w
        \/ current - t = -w - 1 \/ current - t = M - w - 1
    BY <1>1, <1>2, <1>3, <1>4
  <2>2. /\ -w \in -M .. -1 /\ -w - 1 \in -M .. -1
        /\ M - w \in 0 .. M - 1 /\ M - w - 1 \in 0 .. M - 1
    BY <1>1, <1>2
  <2>3. QED
    BY <1>1, <1>2, <2>1, <2>2, OneTurn
<1>6. Difference(t) = d - M
  BY <1>1, <1>2, <1>5 DEF Difference
<1> HIDE DEF d
<1>7. d - M < 0 /\ d - M > -Day
  BY <1>1, <1>2, <1>5
<1>8. QED
  BY <1>6, <1>7 DEF IsDue, t

LEMMA AgedTimed ==
    ASSUME QueueOK, now' = (now + 1) % Modulus, NEW block \in Blocks,
           Timed(block)
    PROVE  LET b == Aged(block)
           IN  /\ Proactor /\ b.wait > 0 => /\ b.wait <= b.delay
                                            /\ b.wait <= Modulus - 1
                                            /\ b.tick = (now' + b.wait) % Modulus
               /\ ~Proactor => b.tick = 0
<1> DEFINE w == block.wait
           b == Aged(block)
<1>1. /\ b.wait = IF w > 0 THEN w - 1 ELSE 0
      /\ b.tick = block.tick /\ b.delay = block.delay
      /\ w \in Nat /\ block.delay \in Nat
      /\ now \in 0 .. Modulus - 1
      /\ ~Proactor => block.tick = 0
  BY AgedBlock, BlockType DEF QueueOK, TypeOK, Timed
<1>2. CASE Proactor /\ w > 1
  <2>1. w <= block.delay /\ w <= Modulus - 1 /\ block.tick = (now + w) % Modulus
    BY <1>1, <1>2 DEF Timed
  <2> HIDE DEF w
  <2>2. now' = IF now + 1 < Modulus THEN now + 1 ELSE 0
    BY <1>1, Sizes, OneTurn
  <2>3. (now' + (w - 1)) % Modulus = (now + w) % Modulus
    <3>1. CASE now + 1 < Modulus
      BY <1>1, <2>2, <3>1
    <3>2. CASE ~(now + 1 < Modulus)
      <4>1. now = Modulus - 1 /\ now' = 0
        BY <1>1, <2>2, <3>2, Sizes
      <4>2. (now + w) % Modulus = w - 1 /\ (w - 1) % Modulus = w - 1
        BY <1>1, <1>2, <2>1, <4>1, Sizes, OneTurn
      <4>3. QED
        BY <1>1, <4>1, <4>2
    <3>3. QED
      BY <3>1, <3>2
  <2>4. b.wait = w - 1 /\ w - 1 <= b.delay /\ w - 1 <= Modulus - 1
    BY <1>1, <1>2, <2>1, Sizes
  <2> HIDE DEF b
  <2>5. QED
    BY <1>1, <2>1, <2>3, <2>4 DEF b
<1>3. CASE ~(Proactor /\ w > 1)
  BY <1>1, <1>3
<1>4. QED
  BY <1>2, <1>3

(* What the queue holds after a step was in it before, or is the block that *)
(* was pushed.                                                             *)
LEMMA EnqueueMembers ==
    ASSUME QueueOK, NEW block \in Blocks, Enqueue(block)
    PROVE  \A i \in DOMAIN queue' :
              queue'[i] = block \/ \E j \in DOMAIN queue : queue'[i] = queue[j]
<1>1. /\ queue \in Seq(Blocks) /\ Len(queue) \in Nat
      /\ DOMAIN queue = 1 .. Len(queue) /\ Sorted /\ TypeOK
  BY DEF QueueOK, TypeOK
<1>2. CASE ~(Len(queue) < Capacity)
  BY <1>2 DEF Enqueue
<1>3. CASE Len(queue) < Capacity
  <2> DEFINE n == After(block) + 1
  <2>1. n \in 1 .. Len(queue) + 1
    BY <1>1, AfterDivides
  <2>2. queue' = InsertAt(queue, n, block)
    BY <1>3 DEF Enqueue
  <2> HIDE DEF n
  <2>3. QED
    BY <1>1, <2>1, <2>2, InsertedMembers
<1>4. QED
  BY <1>2, <1>3

LEMMA PopMembers ==
    ASSUME QueueOK, PopBlock
    PROVE  \A j \in DOMAIN queue' :
              \E i \in DOMAIN queue : queue'[j] = queue[i]
<1> DEFINE k == Earliest
           t == RemoveAt(queue, k)
<1>1. /\ queue \in Seq(Blocks) /\ Len(queue) \in Nat
      /\ DOMAIN queue = 1 .. Len(queue) /\ queue # <<>> /\ TypeOK
  BY DEF QueueOK, TypeOK, PopBlock
<1>2. k \in 1 .. Len(queue)
  BY <1>1, EarliestIsQueued
<1>3. queue' = t
  BY DEF PopBlock
<1> HIDE DEF k
<1>4. /\ t \in Seq(Blocks) /\ Len(t) = Len(queue) - 1
      /\ \A j \in 1 .. Len(queue) - 1 :
            t[j] = IF j < k THEN queue[j] ELSE queue[j + 1]
  BY ONLY <1>1, <1>2, RemovedAt, Zenon
<1> HIDE DEF t
<1>5. ASSUME NEW j \in DOMAIN t
      PROVE  \E i \in DOMAIN queue : t[j] = queue[i]
  <2>1. /\ j \in 1 .. Len(queue) - 1
        /\ j \in DOMAIN queue /\ j + 1 \in DOMAIN queue
    BY <1>1, <1>4
  <2>2. QED
    BY <1>4, <2>1
<1>6. QED
  BY <1>3, <1>5

LEMMA InitTime ==
    ASSUME Init
    PROVE  TimeInv
<1>1. /\ DOMAIN queue = {} /\ chain = {} /\ pc = "idle"
      /\ held.wait = 0 /\ held.tick = 0
  BY DEF Init, Nothing
<1>2. QED
  BY <1>1, InitQueue DEF TimeInv, Recent, NeverEarly, Timed

LEMMA EnqueueTimed ==
    ASSUME TimeInv, NEW block \in Blocks, Enqueue(block), Timed(block),
           now' = now
    PROVE  \A i \in DOMAIN queue' : Timed(queue'[i])
  BY EnqueueMembers DEF TimeInv

LEMMA PushTime ==
    ASSUME TimeInv, NEW delay \in Delays \cup {0}, PushQueue(delay)
    PROVE  TimeInv'
<1> DEFINE tick == IF Proactor /\ delay > 0 THEN (now + delay) % Modulus ELSE 0
           block == [id |-> requests', delay |-> delay, wait |-> delay,
                     late |-> 0, tick |-> tick]
<1>1. /\ now \in 0 .. Modulus - 1 /\ requests \in 0 .. MaxRequests
      /\ requests < MaxRequests /\ requests' = requests + 1
  BY DEF TimeInv, QueueOK, TypeOK, PushQueue
<1>2. requests' \in Ids
  BY <1>1, Sizes DEF Ids
<1>3. tick \in 0 .. Modulus - 1
  BY <1>1, Sizes
<1>4. block \in Blocks /\ Timed(block)
  <2>1. delay \in Nat /\ delay <= Modulus - 1
    BY Sizes
  <2>2. block \in Blocks
    BY <1>2, <1>3, <2>1, Sizes DEF Blocks
  <2>3. Timed(block)
    BY <2>1 DEF Timed
  <2>4. QED
    BY <2>2, <2>3
<1>5. /\ Enqueue(block)
      /\ UNCHANGED <<now, fired, pc, current, chain, held, sent>>
  BY DEF PushQueue
<1> HIDE DEF block
<1>6. \A i \in DOMAIN queue' : Timed(queue'[i])
  BY <1>4, <1>5, EnqueueTimed
<1>7. (\A i \in DOMAIN queue : Timed(queue[i]))'
  BY <1>5, <1>6 DEF Timed
<1>8. Recent' /\ NeverEarly' /\ Timed(held)'
  BY <1>5 DEF TimeInv, Recent, NeverEarly, Timed
<1>9. QueueOK'
  BY PushQueueOK DEF TimeInv
<1>10. QED
  BY <1>7, <1>8, <1>9 DEF TimeInv

LEMMA PopTime ==
    ASSUME TimeInv, PopBlock
    PROVE  TimeInv'
<1> DEFINE k == Earliest
<1>1. /\ queue \in Seq(Blocks) /\ Len(queue) \in Nat
      /\ DOMAIN queue = 1 .. Len(queue) /\ pc = "pop" /\ QueueOK /\ Recent
  BY DEF TimeInv, QueueOK, TypeOK, PopBlock
<1>2. k \in 1 .. Len(queue)
  BY <1>1, EarliestIsQueued DEF PopBlock, QueueOK
<1>3. UNCHANGED <<now, fired, current>>
  BY DEF PopBlock
<1>4. \/ /\ IsDue(queue[k].tick) /\ UNCHANGED <<pc, held>>
         /\ chain' = chain \cup {queue[k]}
      \/ chain' = chain /\ held' = queue[k] /\ pc' = "back"
  BY DEF PopBlock
<1> HIDE DEF k
<1>5. \A j \in DOMAIN queue' : \E i \in DOMAIN queue : queue'[j] = queue[i]
  BY <1>1, PopMembers
<1>6. queue[k] \in Blocks /\ Timed(queue[k]) /\ queue[k].wait \in Nat
  <2>1. queue[k] \in Blocks
    BY <1>1, <1>2
  <2>2. Timed(queue[k])
    BY <1>1, <1>2 DEF TimeInv
  <2>3. QED
    BY <2>1, <2>2, BlockType
<1>7. (\A i \in DOMAIN queue : Timed(queue[i]))'
  BY <1>3, <1>5 DEF TimeInv, Timed
<1>8. Recent'
  BY <1>1, <1>3, <1>4 DEF Recent
<1>9. NeverEarly' /\ Timed(held)'
  <2>1. CASE /\ IsDue(queue[k].tick) /\ held' = held
             /\ chain' = chain \cup {queue[k]}
    <3>1. Proactor /\ queue[k].delay < Day - 1 => queue[k].wait = 0
      BY <1>1, <1>6, <2>1, NotDueYet
    <3>2. QED
      BY <1>3, <2>1, <3>1 DEF TimeInv, NeverEarly, Timed
  <2>2. CASE chain' = chain /\ held' = queue[k]
    BY <1>3, <1>6, <2>2 DEF TimeInv, NeverEarly, Timed
  <2>3. QED
    BY <1>4, <2>1, <2>2
<1>10. QueueOK'
  BY <1>1, PopQueueOK
<1>11. QED
  BY <1>7, <1>8, <1>9, <1>10 DEF TimeInv

LEMMA PutBackTime ==
    ASSUME TimeInv, PutBack
    PROVE  TimeInv'
<1>1. /\ held \in Blocks /\ QueueOK /\ Timed(held)
      /\ Enqueue(held) /\ held' = Nothing /\ chain' = {} /\ pc' = "idle"
      /\ now' = now
  BY DEF TimeInv, QueueOK, TypeOK, PutBack, Return
<1>2. \A i \in DOMAIN queue' : Timed(queue'[i])
  BY <1>1, EnqueueTimed
<1>3. (\A i \in DOMAIN queue : Timed(queue[i]))'
  BY <1>1, <1>2 DEF Timed
<1>4. Recent' /\ NeverEarly' /\ Timed(held)'
  BY <1>1 DEF Recent, NeverEarly, Timed, Nothing
<1>5. QED
  BY <1>1, <1>3, <1>4, PutBackOK DEF TimeInv

LEMMA TickTime ==
    ASSUME TimeInv, Tick
    PROVE  TimeInv'
<1>1. /\ QueueOK /\ now' = (now + 1) % Modulus /\ fired /\ ~fired'
      /\ UNCHANGED <<pc, current, chain>>
  BY DEF TimeInv, Tick
<1>2. /\ DOMAIN queue' = DOMAIN queue
      /\ \A i \in DOMAIN queue : queue'[i] = Aged(queue[i])
      /\ held' = IF held = Nothing THEN Nothing ELSE Aged(held)
      /\ QueueOK'
  BY <1>1, TickOK
<1> DEFINE TimedNext(block) ==
              /\ Proactor /\ block.wait > 0 =>
                    /\ block.wait <= block.delay
                    /\ block.wait <= Modulus - 1
                    /\ block.tick = (now' + block.wait) % Modulus
              /\ ~Proactor => block.tick = 0
<1>3. ASSUME NEW block \in Blocks, Timed(block)
      PROVE  TimedNext(Aged(block))
  BY <1>1, <1>3, AgedTimed
<1>4. \A i \in DOMAIN queue : queue[i] \in Blocks /\ Timed(queue[i])
  BY <1>1 DEF TimeInv, QueueOK, TypeOK
<1>5. (\A i \in DOMAIN queue : Timed(queue[i]))'
  <2>1. \A i \in DOMAIN queue' : TimedNext(queue'[i])
    <3> HIDE DEF TimedNext
    <3>1. QED
      BY <1>2, <1>3, <1>4
  <2>2. QED
    BY <2>1 DEF Timed
<1>6. Timed(held)'
  <2>1. CASE held = Nothing
    BY <1>2, <2>1 DEF Timed, Nothing
  <2>2. CASE held # Nothing
    <3>1. held \in Blocks /\ Timed(held) /\ held' = Aged(held)
      BY <1>1, <1>2, <2>2 DEF TimeInv, QueueOK, TypeOK
    <3>2. TimedNext(held')
      <4> HIDE DEF TimedNext
      <4>1. QED
        BY <1>3, <3>1
    <3>3. QED
      BY <3>2 DEF Timed
  <2>3. QED
    BY <2>1, <2>2
<1>7. Recent' /\ NeverEarly'
  BY <1>1 DEF TimeInv, Recent, NeverEarly
<1>8. QED
  BY <1>2, <1>5, <1>6, <1>7 DEF TimeInv

LEMMA StepTime ==
    ASSUME TimeInv, [Next]_vars
    PROVE  TimeInv'
<1>1. QueueOK'
  BY StepQueue DEF TimeInv
<1>2. CASE PopBegin
  BY <1>1, <1>2 DEF PopBegin, TimeInv, Recent, NeverEarly, Timed
<1>3. CASE PopEmpty
  BY <1>1, <1>3 DEF PopEmpty, Return, TimeInv, Recent, NeverEarly, Timed
<1>4. CASE UNCHANGED vars
  BY <1>1, <1>4 DEF vars, TimeInv, Recent, NeverEarly, Timed
<1>5. QED
  BY <1>2, <1>3, <1>4, PushTime, PopTime, PutBackTime, TickTime
     DEF Next, Pop

(* A pop takes no block of the proactor's reserved sends before its delay  *)
(* is over, at every value of the tick count and across its wrap, as long  *)
(* as the delay and the age of the clock that the pop has read, at most a  *)
(* tick, stay below a day: the difference of two ticks less than a day     *)
(* apart has the right sign (ServiceImpl.cpp:42-80).                       *)
THEOREM NoneEarly == Spec => []NeverEarly
<1>1. TimeInv /\ [Next]_vars => TimeInv'
  BY StepTime
<1>2. TimeInv => NeverEarly
  BY DEF TimeInv
<1>3. QED
  BY <1>1, <1>2, InitTime, PTL DEF Spec

-----------------------------------------------------------------------------
(* No block is held up but around the wrap *)

(* The tick at which the last pop began: the timer expires once a tick. *)
Clock == IF fired THEN now ELSE (now - 1) % Modulus

Turn == pc # "idle" => current = Clock

(* How late a block can be which every complete pop takes: a tick counts   *)
(* once for a pop that goes on and once for the next one, not yet begun.   *)
Limit == (IF pc = "pop" THEN 1 ELSE 0) + (IF fired THEN 0 ELSE 1)

(* A delayed block that is due before the last day of a cycle meets a pop  *)
(* that takes it before it could be later than this.  A block without      *)
(* delay meets one as soon as a pop begins before that day; whether the    *)
(* pop at tick 0 has come to its end matters, since it takes what the last *)
(* day has held up.                                                        *)
Prompt(block) ==
    /\ block.wait > 0 => block.late = 0
    /\ block.tick \in 1 .. Modulus - Day - 1 /\ block.wait = 0 =>
          block.late < Limit /\ now = block.tick + block.late
    /\ block.tick = 0 /\ Clock < Modulus - Day /\ (Clock > 0 \/ pc # "pop") =>
          block.late <= Limit

LateInv == /\ TimeInv /\ Turn
           /\ \A i \in DOMAIN queue : Prompt(queue[i])
           /\ Prompt(held)

LEMMA Limits ==
    ASSUME TypeOK
    PROVE  /\ Limit \in 0 .. 2
           /\ Clock \in 0 .. Modulus - 1
           /\ fired => Clock = now
           /\ ~fired => Clock = IF now > 0 THEN now - 1 ELSE Modulus - 1
<1>1. now \in 0 .. Modulus - 1 /\ Modulus \in Nat /\ 1 <= Modulus
  BY Sizes DEF TypeOK
<1>2. now > 0 => (now - 1) % Modulus = now - 1
  BY <1>1, OneTurn
<1>3. ~(now > 0) => (now - 1) % Modulus = Modulus - 1
  BY <1>1, OneTurn
<1>4. QED
  BY <1>1, <1>2, <1>3 DEF Limit, Clock

(* While a pop goes on, no block that is due by its clock and before the   *)
(* last day can be behind one that is not due.                             *)
LEMMA NotHeldUp ==
    ASSUME current \in 0 .. Modulus - 1, NEW x \in 0 .. Modulus - 1, ~IsDue(x),
           x <= current
    PROVE  current > Modulus - Day
<1> DEFINE d == (current - x) % Modulus
<1>1. d = current - x
  BY Sizes, OneTurn
<1>2. Difference(x) < 0 /\ Difference(x) > -Day
  BY DEF IsDue
<1>3. Difference(x) = IF 2 * d >= Modulus THEN d - Modulus ELSE d
  BY DEF Difference
<1> HIDE DEF d
<1>4. QED
  BY <1>1, <1>2, <1>3, Sizes

LEMMA InitLate ==
    ASSUME Init
    PROVE  LateInv
<1>1. DOMAIN queue = {} /\ pc = "idle" /\ held.wait = 0 /\ held.tick = 0
      /\ held.late = 0
  BY DEF Init, Nothing
<1>2. Prompt(held)
  BY <1>1, InitQueue, Limits DEF Prompt, QueueOK
<1>3. QED
  BY <1>1, <1>2, InitTime DEF LateInv, Turn

LEMMA PushLate ==
    ASSUME LateInv, NEW delay \in Delays \cup {0}, PushQueue(delay)
    PROVE  Turn' /\ Prompt(held)' /\ (\A i \in DOMAIN queue : Prompt(queue[i]))'
<1> DEFINE tick == IF Proactor /\ delay > 0 THEN (now + delay) % Modulus ELSE 0
           block == [id |-> requests', delay |-> delay, wait |-> delay,
                     late |-> 0, tick |-> tick]
<1>1. /\ now \in 0 .. Modulus - 1 /\ requests \in 0 .. MaxRequests
      /\ requests < MaxRequests /\ requests' = requests + 1
      /\ TypeOK /\ QueueOK
  BY DEF LateInv, TimeInv, QueueOK, TypeOK, PushQueue
<1>2. requests' \in Ids
  BY <1>1, Sizes DEF Ids
<1>3. tick \in 0 .. Modulus - 1
  BY <1>1, Sizes
<1>4. block \in Blocks
  BY <1>2, <1>3, Sizes DEF Blocks
<1>5. Prompt(block)
  <2>1. delay = 0 \/ delay > 0
    BY Sizes
  <2>2. QED
    BY <1>1, <2>1, Limits DEF Prompt
<1>6. /\ Enqueue(block)
      /\ UNCHANGED <<now, fired, pc, current, chain, held, sent>>
  BY DEF PushQueue
<1> HIDE DEF block
<1>7. \A i \in DOMAIN queue' : Prompt(queue'[i])
  BY <1>1, <1>4, <1>5, <1>6, EnqueueMembers DEF LateInv
<1>8. QED
  BY <1>6, <1>7 DEF LateInv, Turn, Prompt, Limit, Clock

LEMMA BeginLate ==
    ASSUME LateInv, PopBegin
    PROVE  Turn' /\ Prompt(held)' /\ (\A i \in DOMAIN queue : Prompt(queue[i]))'
<1>1. /\ pc = "idle" /\ pc' = "pop" /\ fired' = TRUE /\ current' = now
      /\ UNCHANGED <<now, queue, held>>
      /\ TypeOK /\ now \in 0 .. Modulus - 1
  BY DEF PopBegin, LateInv, TimeInv, QueueOK, TypeOK
<1>2. /\ Limit' = 1 /\ Clock' = now
      /\ Limit = IF fired THEN 0 ELSE 1
  BY <1>1 DEF Limit, Clock
<1>3. Turn'
  BY <1>1, <1>2 DEF Turn
<1>4. ASSUME NEW block, block = held \/ block \in Blocks, Prompt(block)
      PROVE  Prompt(block)'
  <2>1. block.late \in Nat /\ block.tick \in Nat
    BY <1>1, <1>4, BlockType, Sizes DEF TypeOK, Nothing
  <2>2. block.tick = 0 /\ now < Modulus - Day /\ now > 0 => block.late <= 1
    <3>1. CASE fired
      BY <1>1, <1>2, <1>4, <2>1, <3>1, Limits DEF Prompt
    <3>2. CASE ~fired
      BY <1>1, <1>2, <1>4, <2>1, <3>2, Limits, Sizes DEF Prompt
    <3>3. QED
      BY <3>1, <3>2
  <2>3. Limit <= 1
    BY <1>2
  <2>4. block.tick \in 1 .. Modulus - Day - 1 /\ block.wait = 0 =>
          block.late < 1 /\ now = block.tick + block.late
    BY <1>2, <1>4, <2>1, <2>3 DEF Prompt
  <2>5. block.wait > 0 => block.late = 0
    BY <1>4 DEF Prompt
  <2>6. QED
    BY <1>1, <1>2, <2>2, <2>4, <2>5 DEF Prompt
<1>5. \A i \in DOMAIN queue : queue[i] \in Blocks
  BY <1>1 DEF TypeOK
<1>6. QED
  BY <1>1, <1>3, <1>4, <1>5 DEF LateInv

LEMMA PopLate ==
    ASSUME LateInv, PopBlock
    PROVE  Turn' /\ Prompt(held)' /\ (\A i \in DOMAIN queue : Prompt(queue[i]))'
<1> DEFINE k == Earliest
           h == queue[k]
<1>1. /\ queue \in Seq(Blocks) /\ Len(queue) \in Nat /\ queue # <<>>
      /\ DOMAIN queue = 1 .. Len(queue) /\ pc = "pop" /\ QueueOK /\ TypeOK
      /\ current = Clock /\ Sorted
  BY DEF LateInv, TimeInv, QueueOK, TypeOK, PopBlock, Turn
<1>2. k \in DOMAIN queue /\ h.tick = Last(queue).tick
  BY <1>1, EarliestIsQueued
<1>3. UNCHANGED <<now, fired, current>> /\ Clock' = Clock
  BY DEF PopBlock, Clock
<1>4. \/ IsDue(h.tick) /\ UNCHANGED <<pc, held>>
      \/ ~IsDue(h.tick) /\ held' = h /\ pc' = "back"
  BY DEF PopBlock
<1>5. \A j \in DOMAIN queue' : \E i \in DOMAIN queue : queue'[j] = queue[i]
  BY <1>1, PopMembers
<1>6. Turn'
  BY <1>1, <1>3 DEF Turn
<1> HIDE DEF k, h
<1>7. CASE IsDue(h.tick) /\ UNCHANGED <<pc, held>>
  <2>1. Limit' = Limit
    BY <1>3, <1>7 DEF Limit
  <2>2. QED
    BY <1>3, <1>5, <1>6, <1>7, <2>1 DEF LateInv, Prompt
<1>8. CASE ~IsDue(h.tick) /\ held' = h /\ pc' = "back"
  <2>1. ASSUME NEW i \in DOMAIN queue, NEW b, b = queue[i]
        PROVE  Prompt(b)'
    <3>1. b \in Blocks /\ h \in Blocks
      BY <1>1, <1>2, <2>1 DEF h
    <3>2. /\ b.tick \in 0 .. Modulus - 1 /\ b.late \in Nat
          /\ h.tick \in 0 .. Modulus - 1 /\ b.tick \in Nat
      BY <3>1, BlockType, Sizes
    <3>3. b.tick >= h.tick
      <4>1. i <= Len(queue) /\ Len(queue) \in DOMAIN queue /\ i \in Nat
        BY <1>1
      <4>2. h.tick = queue[Len(queue)].tick
        BY <1>2 DEF Last
      <4>3. CASE i < Len(queue)
        BY <1>1, <2>1, <4>1, <4>2, <4>3 DEF Sorted
      <4>4. CASE i = Len(queue)
        BY <2>1, <3>2, <4>2, <4>4
      <4>5. QED
        BY <1>1, <4>1, <4>3, <4>4
    <3>4. Prompt(b)
      BY <2>1 DEF LateInv
    <3>5. /\ Clock \in 0 .. Modulus - 1 /\ Modulus \in Nat /\ Day \in Nat
          /\ now \in 0 .. Modulus - 1
          /\ fired => Clock = now
          /\ ~fired /\ now > 0 => Clock = now - 1
      BY <1>1, Limits, Sizes DEF TypeOK
    <3>6. b.tick <= Clock => Clock > Modulus - Day
      <4>1. h.tick <= current => current > Modulus - Day
        BY ONLY <1>1, <1>8, <3>2, <3>5, NotHeldUp
      <4>2. QED
        BY ONLY <1>1, <3>2, <3>3, <3>5, <4>1
    <3>7. Limit' = Limit - 1 /\ Limit = IF fired THEN 1 ELSE 2
      BY <1>1, <1>3, <1>8 DEF Limit
    <3>8. ASSUME b.tick \in 1 .. Modulus - Day - 1, b.wait = 0
          PROVE  b.late < Limit' /\ now = b.tick + b.late
      <4>1. b.late < Limit /\ now = b.tick + b.late
        BY <3>4, <3>8 DEF Prompt
      <4>2. Clock = IF fired THEN now ELSE now - 1
        BY ONLY <3>2, <3>5, <3>8, <4>1
      <4>3. Clock <= b.tick
        BY ONLY <3>2, <3>5, <3>7, <3>8, <4>1, <4>2
      <4>4. b.tick > Clock
        BY ONLY <3>2, <3>5, <3>6, <3>8, <4>3
      <4>5. QED
        BY ONLY <3>2, <3>5, <3>7, <4>1, <4>2, <4>4
    <3>9. ~(b.tick = 0 /\ Clock < Modulus - Day)
      BY ONLY <3>2, <3>5, <3>6
    <3>10. QED
      BY <1>3, <3>4, <3>8, <3>9 DEF Prompt
  <2>2. Prompt(held)'
    BY <1>2, <1>8, <2>1 DEF h, Prompt
  <2>3. (\A i \in DOMAIN queue : Prompt(queue[i]))'
    BY <1>5, <2>1 DEF Prompt
  <2>4. QED
    BY <1>6, <2>2, <2>3
<1>9. QED
  BY <1>4, <1>7, <1>8

LEMMA ReturnLate ==
    ASSUME LateInv, PutBack \/ PopEmpty
    PROVE  Turn' /\ Prompt(held)' /\ (\A i \in DOMAIN queue : Prompt(queue[i]))'
<1>1. /\ pc' = "idle" /\ UNCHANGED <<now, fired, current>>
      /\ QueueOK /\ TypeOK
  BY DEF PutBack, PopEmpty, Return, LateInv, TimeInv, QueueOK
<1>2. Turn' /\ Clock' = Clock
  BY <1>1 DEF Turn, Clock
<1>3. CASE PutBack
  <2>1. /\ pc = "back" /\ held' = Nothing /\ Enqueue(held) /\ held \in Blocks
    BY <1>1, <1>3 DEF PutBack, TypeOK
  <2>2. Limit' = Limit
    BY <1>1, <2>1 DEF Limit
  <2>3. \A i \in DOMAIN queue' : Prompt(queue'[i])
    BY <1>1, <2>1, EnqueueMembers DEF LateInv
  <2>4. \A block : Prompt(block) => Prompt(block)'
    BY <1>1, <1>2, <2>1, <2>2 DEF Prompt
  <2>5. (\A i \in DOMAIN queue : Prompt(queue[i]))'
    BY <1>1, <1>2, <2>1, <2>2, <2>3 DEF Prompt
  <2>6. Prompt(held)'
    BY <1>1, <2>1, <2>2, Limits DEF Prompt, Nothing
  <2>7. QED
    BY <1>2, <2>5, <2>6
<1>4. CASE PopEmpty
  <2>1. queue' = <<>> /\ held' = held /\ pc = "pop"
    BY <1>4 DEF PopEmpty
  <2>2. held = Nothing
    BY <1>1, <2>1 DEF TypeOK
  <2>3. Limit' \in 0 .. 1
    BY <1>1 DEF Limit
  <2>4. Prompt(held)'
    BY <2>1, <2>2, <2>3 DEF Prompt, Nothing
  <2>5. QED
    BY <1>2, <2>1, <2>4
<1>5. QED
  BY <1>3, <1>4

LEMMA AgedPrompt ==
    ASSUME LateInv, Tick, NEW block \in Blocks, Timed(block), Prompt(block)
    PROVE  LET b == Aged(block)
           IN  /\ b.wait > 0 => b.late = 0
               /\ b.tick \in 1 .. Modulus - Day - 1 /\ b.wait = 0 =>
                     b.late < Limit' /\ now' = b.tick + b.late
               /\ b.tick = 0 /\ Clock' < Modulus - Day
                     /\ (Clock' > 0 \/ pc' # "pop") => b.late <= Limit'
<1> DEFINE b == Aged(block)
<1>1. /\ TypeOK /\ QueueOK /\ now \in 0 .. Modulus - 1
      /\ fired = TRUE /\ fired' = FALSE /\ pc' = pc
      /\ now' = (now + 1) % Modulus
  BY DEF LateInv, TimeInv, QueueOK, TypeOK, Tick
<1>2. /\ b.tick = block.tick
      /\ b.wait = IF block.wait > 0 THEN block.wait - 1 ELSE 0
      /\ b.late = IF block.wait = 0 /\ block.late < Modulus
                  THEN block.late + 1 ELSE block.late
      /\ block.wait \in Nat /\ block.late \in 0 .. Modulus
      /\ block.tick \in 0 .. Modulus - 1
  BY AgedBlock, BlockType
<1> HIDE DEF b
<1>3. now' = IF now + 1 < Modulus THEN now + 1 ELSE 0
  BY <1>1, Sizes, OneTurn
<1>4. Clock' = Clock
  <2>1. TypeOK'
    BY <1>1, TickOK DEF QueueOK
  <2>2. Clock' = IF now' > 0 THEN now' - 1 ELSE Modulus - 1
    BY <1>1, <1>3, Sizes, OneTurn DEF Clock
  <2>3. QED
    BY <1>1, <1>3, <2>2, Sizes DEF Clock
<1>5. Limit' = Limit + 1 /\ Limit \in 0 .. 1
  BY <1>1 DEF Limit
<1>6. block.wait > 0 => block.late = 0
  BY DEF Prompt
<1>7. b.wait > 0 => b.late = 0
  BY <1>2, <1>6
<1>8. ASSUME b.tick \in 1 .. Modulus - Day - 1, b.wait = 0
      PROVE  b.late < Limit' /\ now' = b.tick + b.late
  <2>1. CASE block.wait = 0
    <3>1. block.late < Limit /\ now = block.tick + block.late
      BY <1>2, <1>8, <2>1 DEF Prompt
    <3>2. block.late = 0 /\ b.late = 1 /\ now + 1 < Modulus
      BY <1>1, <1>2, <1>5, <1>8, <2>1, <3>1, Sizes
    <3>3. QED
      BY <1>1, <1>2, <1>3, <1>5, <3>1, <3>2
  <2>2. CASE block.wait > 0
    <3>1. block.wait = 1 /\ b.late = 0 /\ block.tick = (now + 1) % Modulus
      BY <1>2, <1>6, <1>8, <2>2 DEF Timed
    <3>2. QED
      BY <1>1, <1>2, <1>5, <1>8, <3>1
  <2>3. QED
    BY <1>2, <2>1, <2>2
<1>9. ASSUME b.tick = 0, Clock' < Modulus - Day, Clock' > 0 \/ pc' # "pop"
      PROVE  b.late <= Limit'
  <2>1. block.late <= Limit
    BY <1>1, <1>2, <1>4, <1>9 DEF Prompt
  <2>2. QED
    BY <1>2, <1>5, <2>1
<1>10. QED
  BY <1>7, <1>8, <1>9 DEF b

LEMMA TickLate ==
    ASSUME LateInv, Tick
    PROVE  Turn' /\ Prompt(held)' /\ (\A i \in DOMAIN queue : Prompt(queue[i]))'
<1>1. /\ QueueOK /\ TypeOK /\ UNCHANGED <<pc, current>>
      /\ fired = TRUE /\ fired' = FALSE /\ now' = (now + 1) % Modulus
      /\ now \in 0 .. Modulus - 1
  BY DEF LateInv, TimeInv, QueueOK, TypeOK, Tick
<1>2. /\ DOMAIN queue' = DOMAIN queue
      /\ \A i \in DOMAIN queue : queue'[i] = Aged(queue[i])
      /\ held' = IF held = Nothing THEN Nothing ELSE Aged(held)
  BY <1>1, TickOK
<1>3. Turn'
  <2>1. now' = IF now + 1 < Modulus THEN now + 1 ELSE 0
    BY <1>1, Sizes, OneTurn
  <2>2. (now' - 1) % Modulus = now
    BY <1>1, <2>1, Sizes, OneTurn
  <2>3. QED
    BY <1>1, <2>2 DEF LateInv, Turn, Clock
<1> DEFINE PromptNext(block) ==
       /\ block.wait > 0 => block.late = 0
       /\ block.tick \in 1 .. Modulus - Day - 1 /\ block.wait = 0 =>
             block.late < Limit' /\ now' = block.tick + block.late
       /\ block.tick = 0 /\ Clock' < Modulus - Day
             /\ (Clock' > 0 \/ pc' # "pop") => block.late <= Limit'
<1>4. ASSUME NEW block \in Blocks, Timed(block), Prompt(block)
      PROVE  PromptNext(Aged(block))
  BY <1>4, AgedPrompt
<1>5. \A i \in DOMAIN queue :
         queue[i] \in Blocks /\ Timed(queue[i]) /\ Prompt(queue[i])
  BY <1>1 DEF LateInv, TimeInv, TypeOK
<1>6. (\A i \in DOMAIN queue : Prompt(queue[i]))'
  <2>1. \A i \in DOMAIN queue' : PromptNext(queue'[i])
    <3> HIDE DEF PromptNext
    <3>1. QED
      BY <1>2, <1>4, <1>5
  <2>2. QED
    BY <2>1 DEF Prompt
<1>7. PromptNext(held')
  <2>1. CASE held = Nothing
    <3>1. Limit' \in 1 .. 2
      BY <1>1 DEF Limit
    <3>2. QED
      BY <1>2, <2>1, <3>1 DEF Nothing
  <2>2. CASE held # Nothing
    <3>1. /\ held \in Blocks /\ Timed(held) /\ Prompt(held)
          /\ held' = Aged(held)
      BY <1>1, <1>2, <2>2 DEF LateInv, TimeInv, TypeOK
    <3> HIDE DEF PromptNext
    <3>2. QED
      BY <1>4, <3>1
  <2>3. QED
    BY <2>1, <2>2
<1>8. Prompt(held)'
  BY <1>7 DEF Prompt
<1>9. QED
  BY <1>3, <1>6, <1>8

(* A block that is due is sent by the next expiry of the timer or the one  *)
(* after, for every width of the tick count: what is held up for longer    *)
(* waits in the last day before the wrap, or its tick has wrapped or lies  *)
(* in that day (ServiceImpl.cpp:53-59).                                    *)
THEOREM NoneHeldUp == Spec => []OnTime
<1>1. LateInv /\ [Next]_vars => LateInv'
  <2> SUFFICES ASSUME LateInv, [Next]_vars PROVE LateInv'
    OBVIOUS
  <2>1. TimeInv'
    BY StepTime DEF LateInv
  <2>2. CASE UNCHANGED vars
    BY <2>1, <2>2 DEF vars, LateInv, Turn, Prompt, Limit, Clock
  <2>3. CASE Next
    <3>1. Turn' /\ Prompt(held)' /\ (\A i \in DOMAIN queue : Prompt(queue[i]))'
      BY <2>3, PushLate, BeginLate, PopLate, ReturnLate, TickLate DEF Next, Pop
    <3>2. QED
      BY <2>1, <3>1 DEF LateInv
  <2>4. QED
    BY <2>2, <2>3
<1>2. LateInv => OnTime
  <2> SUFFICES ASSUME LateInv, NEW i \in DOMAIN queue, queue[i].late > 2,
                      ~LastDay, ~(queue[i].tick > now)
               PROVE  FALSE
    BY DEF OnTime
  <2> DEFINE b == queue[i]
  <2>1. /\ TypeOK /\ b \in Blocks /\ Prompt(b) /\ now \in 0 .. Modulus - 1
    BY DEF LateInv, TimeInv, QueueOK, TypeOK
  <2>2. b.tick \in 0 .. Modulus - 1 /\ b.wait \in Nat /\ b.late \in Nat
        /\ b.late > 2 /\ b.tick <= now
    BY <2>1, BlockType, Sizes
  <2> HIDE DEF b
  <2>3. Limit \in 0 .. 2 /\ b.wait = 0
    BY <2>1, <2>2, Limits DEF Prompt
  <2>4. now > 1 /\ now < Modulus - Day
    BY <2>1, Sizes DEF LastDay
  <2>5. ~(b.tick \in 1 .. Modulus - Day - 1)
    BY <2>1, <2>2, <2>3 DEF Prompt
  <2>6. b.tick = 0
    BY <2>1, <2>2, <2>4, <2>5, Sizes
  <2>7. Clock > 0 /\ Clock < Modulus - Day
    BY <2>1, <2>4, Limits, Sizes
  <2>8. QED
    BY <2>1, <2>2, <2>3, <2>6, <2>7 DEF Prompt
<1>3. QED
  BY <1>1, <1>2, InitLate, PTL DEF Spec
=============================================================================
