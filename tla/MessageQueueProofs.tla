------------------------- MODULE MessageQueueProofs -------------------------
(* Proofs about MessageQueue, for any number of threads and messages and   *)
(* any sizes and marks.                                                    *)
EXTENDS MessageQueue, SequenceFacts, SequenceTheorems, TLAPS

(* A thread that waits in Push has a message in its hands. *)
Pushing == \A p \in Producers : pc[p] = "full" => pushes[p] # 0

(* The types alone are not inductive: only a thread with a message can     *)
(* have it refused.                                                        *)
TypeInv == TypeOK /\ Pushing

LEMMA InitType == ASSUME Init PROVE TypeInv
  <1> USE QueueAssumption DEF Init
  <1>1. queue \in Seq(Messages)
    OBVIOUS
  <1>2. /\ chain \in [Consumers -> Seq(Messages)]
        /\ received \in [Consumers -> Seq(Messages)]
    OBVIOUS
  <1>3. /\ call \in [Consumers -> Calls]
        /\ pushes \in [Producers -> 0 .. MaxPush]
    BY DEF Calls
  <1>4. /\ notEmpty \subseteq {c \in Consumers : pc[c] = "empty"}
        /\ notFull \subseteq {p \in Producers : pc[p] = "full"}
        /\ refused \subseteq Messages
    BY Zenon
  <1>5. /\ pc \in [Producers \cup Consumers ->
                     {"out", "full", "claim", "dequeue", "empty", "more", "leave"}]
        /\ \A p \in Producers : pc[p] \in {"out", "full"}
        /\ \A c \in Consumers : pc[c] # "full"
        /\ Pushing
    BY DEF Pushing
  <1> QED BY <1>1, <1>2, <1>3, <1>4, <1>5 DEF TypeInv, TypeOK

LEMMA CurrentMessage ==
  ASSUME TypeOK, NEW p \in Producers, pushes[p] # 0
  PROVE  Current(p) \in Messages
  BY QueueAssumption DEF TypeOK, Current, Messages

(* A condition variable loses sleepers to a signal and gains none. *)
LEMMA SignalWakes == ASSUME NEW S, NEW R \in Signal(S) PROVE R \subseteq S
  BY DEF Signal

LEMMA EnqueueType ==
  ASSUME TypeOK, NEW m \in Messages, EnqueueTail(m)
  PROVE  queue' \in Seq(Messages) /\ notEmpty' \subseteq notEmpty
  <1>1. queue' \in Seq(Messages)
    BY DEF TypeOK, EnqueueTail
  <1> QED BY <1>1, SignalWakes DEF EnqueueTail

LEMMA DequeueType ==
  ASSUME TypeOK, NEW c \in Consumers, DequeueHead(c)
  PROVE  /\ queue' \in Seq(Messages)
         /\ chain' \in [Consumers -> Seq(Messages)]
         /\ notFull' \subseteq notFull
  <1>1. Head(queue) \in Messages /\ queue' \in Seq(Messages)
    BY DEF TypeOK, DequeueHead
  <1>2. Append(chain[c], Head(queue)) \in Seq(Messages)
    BY <1>1 DEF TypeOK
  <1>3. chain' \in [Consumers -> Seq(Messages)]
    BY <1>2 DEF TypeOK, DequeueHead
  <1>4. notFull' = notFull \/ notFull' \in Signal(notFull)
    BY DEF DequeueHead
  <1> QED BY <1>1, <1>3, <1>4, SignalWakes

-----------------------------------------------------------------------------
(* Changing the place of a producer disturbs no consumer, and conversely. *)
LEMMA PushDoneType ==
  ASSUME TypeInv, NEW p \in Producers, NEW m \in Messages, PushDone(p, m),
         p \notin notFull,
         pushes' \in [Producers -> 0 .. MaxPush],
         \A q \in Producers \ {p} : pushes'[q] = pushes[q],
         UNCHANGED <<state, popProgress, call, chain, received>>
  PROVE  TypeInv'
  <1>1. queue' \in Seq(Messages) /\ notEmpty' \subseteq notEmpty
    BY EnqueueType DEF PushDone, TypeInv
  <1> USE DEF TypeInv, TypeOK
  <1>2. /\ pc' = [pc EXCEPT ![p] = "out"]
        /\ \A c \in Consumers : pc'[c] = pc[c]
    BY QueueAssumption DEF PushDone
  <1>3. /\ notEmpty' \subseteq {c \in Consumers : pc'[c] = "empty"}
        /\ notFull' \subseteq {q \in Producers : pc'[q] = "full"}
    BY <1>1, <1>2 DEF PushDone
  <1>4. Pushing'
    BY <1>2 DEF Pushing
  <1>5. /\ \A q \in Producers : pc'[q] \in {"out", "full"}
        /\ \A c \in Consumers : pc'[c] # "full"
    BY <1>2
  <1>6. pc' \in [Producers \cup Consumers ->
                   {"out", "full", "claim", "dequeue", "empty", "more", "leave"}]
    BY <1>2
  <1>7. UNCHANGED <<state, popProgress, call, chain, received, refused>>
    BY DEF PushDone
  <1> QED BY <1>1, <1>3, <1>4, <1>5, <1>6, <1>7

LEMMA PushWaitType ==
  ASSUME TypeInv, NEW p \in Producers, PushWait(p),
         pushes' \in [Producers -> 0 .. MaxPush], pushes'[p] # 0,
         \A q \in Producers \ {p} : pushes'[q] = pushes[q],
         UNCHANGED <<state, popProgress, call, chain, received>>
  PROVE  TypeInv'
  <1> USE DEF TypeInv, TypeOK
  <1>1. /\ pc' = [pc EXCEPT ![p] = "full"]
        /\ \A c \in Consumers : pc'[c] = pc[c]
    BY QueueAssumption DEF PushWait
  <1>2. /\ notEmpty' \subseteq {c \in Consumers : pc'[c] = "empty"}
        /\ notFull' \subseteq {q \in Producers : pc'[q] = "full"}
    BY <1>1 DEF PushWait
  <1>3. Pushing'
    BY <1>1 DEF Pushing
  <1>4. /\ \A q \in Producers : pc'[q] \in {"out", "full"}
        /\ \A c \in Consumers : pc'[c] # "full"
    BY <1>1
  <1>5. pc' \in [Producers \cup Consumers ->
                   {"out", "full", "claim", "dequeue", "empty", "more", "leave"}]
    BY <1>1
  <1>6. UNCHANGED <<queue, state, popProgress, call, chain, received, refused>>
    BY DEF PushWait
  <1> QED BY <1>2, <1>3, <1>4, <1>5, <1>6

LEMMA PushType ==
  ASSUME TypeInv, NEW p \in Producers, Push(p) PROVE TypeInv'
  <1>1. /\ pushes[p] + 1 \in 1 .. MaxPush
        /\ pushes' = [pushes EXCEPT ![p] = pushes[p] + 1]
    BY QueueAssumption DEF Push, TypeInv, TypeOK
  <1>2. /\ pushes' \in [Producers -> 0 .. MaxPush] /\ pushes'[p] # 0
        /\ \A q \in Producers \ {p} : pushes'[q] = pushes[q]
    BY <1>1, QueueAssumption DEF TypeInv, TypeOK
  <1>3. <<p, pushes[p] + 1>> \in Messages
    BY <1>1 DEF Messages
  <1>4. p \notin notFull
    BY DEF Push, TypeInv, TypeOK
  <1>5. CASE IsFull
    BY <1>2, <1>5, PushWaitType DEF Push
  <1>6. CASE ~IsFull
    BY <1>2, <1>3, <1>4, <1>6, PushDoneType DEF Push
  <1> QED BY <1>5, <1>6

LEMMA PushWakeType ==
  ASSUME TypeInv, NEW p \in Producers, PushWake(p) PROVE TypeInv'
  <1>1. pushes \in [Producers -> 0 .. MaxPush] /\ pushes[p] # 0
    BY DEF PushWake, TypeInv, TypeOK, Pushing
  <1>2. Current(p) \in Messages
    BY <1>1, CurrentMessage DEF TypeInv
  <1>3. CASE state # "ACTIVATED"
    <2> USE DEF TypeInv, TypeOK
    <2>1. /\ pc' = [pc EXCEPT ![p] = "out"]
          /\ \A c \in Consumers : pc'[c] = pc[c]
          /\ UNCHANGED <<queue, notEmpty, notFull, pushes>>
      BY <1>3, QueueAssumption DEF PushWake
    <2>2. /\ notEmpty' \subseteq {c \in Consumers : pc'[c] = "empty"}
          /\ notFull' \subseteq {q \in Producers : pc'[q] = "full"}
      BY <2>1 DEF PushWake
    <2>3. Pushing'
      BY <2>1 DEF Pushing
    <2>4. /\ \A q \in Producers : pc'[q] \in {"out", "full"}
          /\ \A c \in Consumers : pc'[c] # "full"
      BY <2>1
    <2>5. refused' \subseteq Messages
      BY <1>2, <1>3 DEF PushWake
    <2> QED BY <2>1, <2>2, <2>3, <2>4, <2>5 DEF PushWake
  <1>4. CASE state = "ACTIVATED" /\ IsFull
    BY <1>1, <1>4, PushWaitType DEF PushWake
  <1>5. CASE state = "ACTIVATED" /\ ~IsFull
    BY <1>1, <1>2, <1>5, PushDoneType DEF PushWake
  <1> QED BY <1>3, <1>4, <1>5

LEMMA TakeOrWaitType ==
  ASSUME TypeInv, NEW c \in Consumers, pc[c] \in {"dequeue", "empty"},
         c \notin notEmpty,
         PopTake(c) \/ PopWait(c),
         UNCHANGED <<state, popProgress, pushes, call, received, refused>>
  PROVE  TypeInv'
  <1> USE DEF TypeInv, TypeOK, Pushing
  <1>1. CASE PopTake(c)
    <2>1. DequeueHead(c)
      BY <1>1 DEF PopTake
    <2>2. /\ queue' \in Seq(Messages)
          /\ chain' \in [Consumers -> Seq(Messages)]
          /\ notFull' \subseteq notFull
      BY ONLY <2>1, DequeueType, TypeInv, c \in Consumers DEF TypeInv
    <2> QED BY <1>1, <2>2, QueueAssumption DEF PopTake
  <1>2. CASE PopWait(c)
    BY <1>2, QueueAssumption DEF PopWait
  <1> QED BY <1>1, <1>2

LEMMA ConsumerType ==
  ASSUME TypeInv, NEW c \in Consumers, ConsumerStep(c) PROVE TypeInv'
  <1> USE DEF TypeInv, TypeOK, Pushing
  <1>0. \A p \in Producers : p # c
    BY QueueAssumption
  <1>1. CASE PopEnter(c)
    <2>1. call' \in [Consumers -> Calls]
      BY <1>1 DEF PopEnter
    <2> QED BY <1>0, <1>1, <2>1 DEF PopEnter
  <1>2. CASE PopClaim(c)
    BY <1>0, <1>2 DEF PopClaim
  <1>3. CASE PopDequeue(c)
    <2>1. pc[c] = "dequeue" /\ c \notin notEmpty
      BY <1>3 DEF PopDequeue
    <2> QED BY ONLY <1>3, <2>1, c \in Consumers, TypeInv, TakeOrWaitType
            DEF PopDequeue
  <1>4. CASE PopWake(c)
    <2>1. CASE state # "ACTIVATED"
      <3>1. /\ pc' = [pc EXCEPT ![c] = "leave"]
            /\ \A p \in Producers : pc'[p] = pc[p]
            /\ UNCHANGED <<queue, notEmpty, notFull, chain>>
        BY <1>4, <2>1, QueueAssumption DEF PopWake, PopGiveUp
      <3>2. notEmpty' \subseteq {d \in Consumers : pc'[d] = "empty"}
        BY <1>4, <3>1 DEF PopWake
      <3> QED BY <1>4, <3>1, <3>2 DEF PopWake
    <2>2. CASE state = "ACTIVATED"
      BY ONLY <1>4, <2>2, c \in Consumers, TypeInv, TakeOrWaitType DEF PopWake
    <2> QED BY <2>1, <2>2
  <1>5. CASE PopTimeout(c)
    BY <1>0, <1>5 DEF PopTimeout
  <1>6. CASE PopMore(c)
    BY <1>0, <1>6 DEF PopMore
  <1>7. CASE PopLeave(c)
    <2>1. received[c] \o chain[c] \in Seq(Messages) /\ <<>> \in Seq(Messages)
      OBVIOUS
    <2>2. /\ received' \in [Consumers -> Seq(Messages)]
          /\ chain' \in [Consumers -> Seq(Messages)]
      BY <1>7, <2>1 DEF PopLeave
    <2> QED BY <1>7, <2>2, QueueAssumption DEF PopLeave
  <1> QED BY <1>1, <1>2, <1>3, <1>4, <1>5, <1>6, <1>7 DEF ConsumerStep

LEMMA StepType ==
  ASSUME TypeInv, [Next]_vars PROVE TypeInv'
  <1>1. ASSUME NEW p \in Producers, ProducerStep(p) PROVE TypeInv'
    BY <1>1, PushType, PushWakeType DEF ProducerStep
  <1>2. ASSUME NEW c \in Consumers, ConsumerStep(c) PROVE TypeInv'
    BY <1>2, ConsumerType
  <1>3. CASE Pulse
    BY <1>3 DEF Pulse, TypeInv, TypeOK, Pushing
  <1>4. CASE UNCHANGED vars
    BY <1>4 DEF vars, TypeInv, TypeOK, Pushing
  <1> QED BY <1>1, <1>2, <1>3, <1>4 DEF Next

(* The queue never holds more than its high water mark, a thread sleeps on *)
(* a condition variable only in the call that waits for it, and the other  *)
(* variables have their types (MessageQueue.cpp:51-119,                    *)
(* Message_Queue_T.cpp:1706-1757).                                         *)
THEOREM TypeCorrect == Spec => []TypeOK
  <1>1. TypeInv => TypeOK
    BY DEF TypeInv
  <1> QED BY <1>1, InitType, StepType, PTL DEF Spec

-----------------------------------------------------------------------------
(* The order of events *)

(* A sequence of messages that were all pushed before the one in the hands *)
(* of their thread.                                                        *)
Earlier(m) == /\ m[2] <= pushes[m[1]]
              /\ pc[m[1]] = "full" => m[2] < pushes[m[1]]

Pushed(s) == \A i \in DOMAIN s : Earlier(s[i])

(* What is in the queue and what a call has taken from it must also be     *)
(* older than what is pushed next, or the next push would break the order. *)
OrderInv == /\ TypeInv
            /\ \A c \in Consumers : Ordered(History(c)) /\ Pushed(History(c))

LEMMA HistoryType ==
  ASSUME TypeInv, NEW c \in Consumers PROVE History(c) \in Seq(Messages)
  BY DEF TypeInv, TypeOK, History

LEMMA OrderedAppend ==
  ASSUME NEW s \in Seq(Messages), NEW m \in Messages, Ordered(s),
         \A i \in DOMAIN s : s[i][1] = m[1] => s[i][2] < m[2]
  PROVE  Ordered(Append(s, m))
  <1> DEFINE t == Append(s, m)
  <1>1. /\ DOMAIN s = 1 .. Len(s) /\ Len(s) \in Nat
        /\ DOMAIN t = 1 .. Len(s) + 1
        /\ \A i \in 1 .. Len(s) : t[i] = s[i]
        /\ t[Len(s) + 1] = m
    BY AppendProperties, LenProperties
  <1> HIDE DEF t
  <1>2. SUFFICES ASSUME NEW i \in DOMAIN t, NEW j \in DOMAIN t,
                        i < j, t[i][1] = t[j][1]
                 PROVE  t[i][2] < t[j][2]
    BY DEF Ordered, t
  <1>3. i \in DOMAIN s /\ t[i] = s[i]
    BY <1>1, <1>2
  <1>4. CASE j = Len(s) + 1
    BY <1>1, <1>2, <1>3, <1>4
  <1>5. CASE j # Len(s) + 1
    BY <1>1, <1>2, <1>3, <1>5 DEF Ordered
  <1> QED BY <1>4, <1>5

(* The messages after the one that another thread has taken move up. *)
LEMMA DropOne ==
  ASSUME NEW S, NEW a \in Seq(S), NEW q \in Seq(S), q # <<>>,
         NEW i \in DOMAIN (a \o Tail(q)),
         NEW k, k = IF i <= Len(a) THEN i ELSE i + 1
  PROVE  k \in DOMAIN (a \o q) /\ (a \o Tail(q))[i] = (a \o q)[k]
  <1>1. /\ Tail(q) \in Seq(S) /\ Len(Tail(q)) = Len(q) - 1
        /\ \A n \in 1 .. Len(Tail(q)) : Tail(q)[n] = q[n + 1]
        /\ Len(a) \in Nat /\ Len(q) \in Nat \ {0}
    BY HeadTailProperties, LenProperties, EmptySeq
  <1>2. /\ DOMAIN (a \o q) = 1 .. Len(a) + Len(q)
        /\ \A n \in 1 .. Len(a) + Len(q) :
              (a \o q)[n] = IF n <= Len(a) THEN a[n] ELSE q[n - Len(a)]
    BY ConcatProperties, LenProperties
  <1>3. /\ DOMAIN (a \o Tail(q)) = 1 .. Len(a) + Len(Tail(q))
        /\ \A n \in 1 .. Len(a) + Len(Tail(q)) :
              (a \o Tail(q))[n] = IF n <= Len(a) THEN a[n]
                                                 ELSE Tail(q)[n - Len(a)]
    BY <1>1, ConcatProperties, LenProperties
  <1>4. CASE i <= Len(a)
    BY <1>1, <1>2, <1>3, <1>4
  <1>5. CASE ~(i <= Len(a))
    <2>1. /\ i \in Nat /\ i - Len(a) \in 1 .. Len(Tail(q))
          /\ k = i + 1 /\ k \in 1 .. Len(a) + Len(q) /\ ~(k <= Len(a))
      BY <1>1, <1>3, <1>5
    <2>2. (a \o Tail(q))[i] = q[i - Len(a) + 1]
      BY <1>1, <1>3, <1>5, <2>1
    <2>3. (a \o q)[k] = q[k - Len(a)] /\ k - Len(a) = i - Len(a) + 1
      BY <1>1, <1>2, <2>1
    <2> QED BY <1>2, <2>1, <2>2, <2>3
  <1> QED BY <1>4, <1>5

LEMMA OrderedDrop ==
  ASSUME NEW a \in Seq(Messages), NEW q \in Seq(Messages), q # <<>>,
         Ordered(a \o q), Pushed(a \o q)
  PROVE  Ordered(a \o Tail(q)) /\ Pushed(a \o Tail(q))
  <1> DEFINE K(i) == IF i <= Len(a) THEN i ELSE i + 1
             s == a \o q
             t == a \o Tail(q)
  <1>1. \A i \in DOMAIN t : K(i) \in DOMAIN s /\ t[i] = s[K(i)]
    BY DropOne
  <1>2. DOMAIN t \subseteq Nat /\ Len(a) \in Nat
    BY ConcatProperties, HeadTailProperties, LenProperties
  <1>3. \A i, j \in DOMAIN t : i < j => K(i) < K(j)
    BY <1>2
  <1> HIDE DEF K, s, t
  <1>4. Ordered(s) /\ Pushed(s)
    BY DEF s
  <1>5. Ordered(t)
    BY <1>1, <1>3, <1>4 DEF Ordered
  <1>6. Pushed(t)
    BY <1>1, <1>4 DEF Pushed
  <1> QED BY <1>5, <1>6 DEF t

(* Pushing, popping and handing over, as History sees them. *)
LEMMA HistoryMoves ==
  ASSUME NEW r \in Seq(Messages), NEW h \in Seq(Messages),
         NEW q \in Seq(Messages)
  PROVE  /\ \A m \in Messages : r \o h \o Append(q, m) = Append(r \o h \o q, m)
         /\ q # <<>> => r \o Append(h, Head(q)) \o Tail(q) = r \o h \o q
         /\ (r \o h) \o <<>> \o q = r \o h \o q
  <1>1. r \o h \in Seq(Messages) /\ (r \o h) \o <<>> = r \o h
    BY ConcatProperties, ConcatEmptySeq
  <1>2. ASSUME NEW m \in Messages
        PROVE  r \o h \o Append(q, m) = Append(r \o h \o q, m)
    <2>1. Append(q, m) = q \o <<m>> /\ <<m>> \in Seq(Messages)
      BY AppendIsConcat
    <2>2. r \o h \o q \in Seq(Messages)
      BY <1>1, ConcatProperties
    <2> QED BY <1>1, <2>1, <2>2, ConcatAssociative, AppendIsConcat
  <1>3. ASSUME q # <<>>
        PROVE  r \o Append(h, Head(q)) \o Tail(q) = r \o h \o q
    <2> DEFINE x == Head(q)
               t == Tail(q)
    <2>1. /\ x \in Messages /\ t \in Seq(Messages)
          /\ <<x>> \in Seq(Messages) /\ q = <<x>> \o t
      BY <1>3
    <2> HIDE DEF x, t
    <2>2. r \o Append(h, x) = (r \o h) \o <<x>>
      BY <2>1, AppendIsConcat, ConcatAssociative
    <2>3. ((r \o h) \o <<x>>) \o t = (r \o h) \o (<<x>> \o t)
      BY ONLY <1>1, <2>1, ConcatAssociative
    <2>4. r \o Append(h, x) \o t = r \o h \o q
      BY ONLY <2>1, <2>2, <2>3, Zenon
    <2> QED BY <2>4 DEF x, t
  <1> QED BY <1>1, <1>2, <1>3

-----------------------------------------------------------------------------
(* A push adds the youngest message of its thread to every history. *)
LEMMA PushKeepsOrder ==
  ASSUME OrderInv, TypeInv', NEW m \in Messages,
         queue' = Append(queue, m), UNCHANGED <<chain, received>>,
         \A n \in Messages : Earlier(n) => Earlier(n)',
         \A n \in Messages : Earlier(n) /\ n[1] = m[1] => n[2] < m[2],
         Earlier(m)'
  PROVE  OrderInv'
  <1> SUFFICES ASSUME NEW c \in Consumers
               PROVE  (Ordered(History(c)) /\ Pushed(History(c)))'
    BY DEF OrderInv
  <1>1. PICK h \in Seq(Messages) : h = History(c)
    BY HistoryType DEF OrderInv
  <1>2. /\ \A i \in DOMAIN h : h[i] \in Messages /\ Earlier(h[i])
        /\ Ordered(h)
    BY <1>1, ElementOfSeq, LenProperties DEF OrderInv, Pushed
  <1>3. History(c)' = Append(h, m)
    BY <1>1, HistoryMoves DEF History, OrderInv, TypeInv, TypeOK
  <1>4. Ordered(Append(h, m))
    BY <1>2, OrderedAppend
  <1>5. ASSUME NEW i \in DOMAIN Append(h, m) PROVE Earlier(Append(h, m)[i])'
    <2>1. CASE i \in DOMAIN h
      BY <1>2, <2>1, AppendProperties, LenProperties
    <2>2. CASE i \notin DOMAIN h
      BY <2>2, AppendProperties, LenProperties
    <2> QED BY <2>1, <2>2
  <1> QED BY <1>3, <1>4, <1>5 DEF Ordered, Pushed

(* Any other step leaves a history as it is, or takes a message from the   *)
(* queue to another thread.                                                *)
LEMMA OthersKeepOrder ==
  ASSUME OrderInv, TypeInv',
         \A n \in Messages : Earlier(n) => Earlier(n)',
         \A c \in Consumers :
            \/ History(c)' = History(c)
            \/ /\ queue # <<>>
               /\ History(c)' = received[c] \o chain[c] \o Tail(queue)
  PROVE  OrderInv'
  <1> SUFFICES ASSUME NEW c \in Consumers
               PROVE  (Ordered(History(c)) /\ Pushed(History(c)))'
    BY DEF OrderInv
  <1>1. PICK h : h = History(c)'
    OBVIOUS
  <1>2. h \in Seq(Messages)
    <2>1. (History(c) \in Seq(Messages))'
      BY DEF TypeInv, TypeOK, History
    <2> QED BY <1>1, <2>1 DEF Messages
  <1>3. /\ received[c] \o chain[c] \in Seq(Messages)
        /\ queue \in Seq(Messages)
    BY ConcatProperties DEF OrderInv, TypeInv, TypeOK
  <1>4. Ordered(h) /\ Pushed(h)
    <2>1. Ordered(History(c)) /\ Pushed(History(c))
      BY DEF OrderInv
    <2>2. CASE h = History(c)
      BY <2>1, <2>2
    <2>3. CASE queue # <<>> /\ h = received[c] \o chain[c] \o Tail(queue)
      BY <1>3, <2>1, <2>3, OrderedDrop DEF History
    <2> QED BY <1>1, <2>2, <2>3
  <1>5. \A i \in DOMAIN h : Earlier(h[i])'
    BY <1>2, <1>4, ElementOfSeq, LenProperties DEF Pushed
  <1> QED BY <1>1, <1>4, <1>5 DEF Ordered, Pushed

-----------------------------------------------------------------------------
LEMMA InitOrder == ASSUME Init PROVE OrderInv
  <1> SUFFICES ASSUME NEW c \in Consumers
               PROVE  Ordered(History(c)) /\ Pushed(History(c))
    BY InitType DEF OrderInv
  <1>1. History(c) = <<>>
    BY ConcatEmptySeq, EmptySeq DEF Init, History
  <1> QED BY <1>1 DEF Ordered, Pushed

LEMMA PushOrder ==
  ASSUME OrderInv, TypeInv', NEW p \in Producers, ProducerStep(p)
  PROVE  OrderInv'
  <1>1. \A n \in Messages : n[1] \in Producers /\ n[2] \in Nat
    BY DEF Messages
  <1>2. /\ TypeInv
        /\ \A q \in Producers : pushes[q] \in Nat
        /\ pushes \in [Producers -> 0 .. MaxPush]
        /\ pc \in [Producers \cup Consumers ->
                     {"out", "full", "claim", "dequeue", "empty", "more", "leave"}]
    BY QueueAssumption DEF OrderInv, TypeInv, TypeOK
  <1>3. CASE Push(p)
    <2>1. /\ pushes'[p] = pushes[p] + 1
          /\ \A q \in Producers \ {p} : pushes'[q] = pushes[q] /\ pc'[q] = pc[q]
      <3>1. /\ pushes' = [pushes EXCEPT ![p] = @ + 1]
            /\ \/ pc' = [pc EXCEPT ![p] = "out"]
               \/ pc' = [pc EXCEPT ![p] = "full"]
        BY <1>3 DEF Push, PushWait, PushDone
      <3> QED BY <1>2, <3>1
    <2>2. \A n \in Messages : Earlier(n) => Earlier(n)'
      BY <1>1, <1>2, <2>1 DEF Earlier
    <2>3. CASE IsFull
      <3>1. UNCHANGED <<queue, chain, received>>
        BY <1>3, <2>3 DEF Push, PushWait
      <3> QED BY <2>2, <3>1, OthersKeepOrder DEF History
    <2>4. CASE ~IsFull
      <3>1. PushDone(p, <<p, pushes[p] + 1>>) /\ UNCHANGED <<chain, received>>
        BY <1>3, <2>4 DEF Push
      <3>2. PICK m \in Messages : m = <<p, pushes[p] + 1>>
        <4>1. pushes[p] + 1 \in 1 .. MaxPush
          BY <1>2, <1>3, QueueAssumption DEF Push
        <4> QED BY <4>1 DEF Messages
      <3>3. /\ queue' = Append(queue, m) /\ pc'[p] = "out"
            /\ m[1] = p /\ m[2] = pushes[p] + 1
        BY <1>2, <3>1, <3>2 DEF PushDone, EnqueueTail
      <3>4. Earlier(m)'
        BY <1>2, <2>1, <3>3 DEF Earlier
      <3>5. \A n \in Messages : Earlier(n) /\ n[1] = m[1] => n[2] < m[2]
        BY <1>1, <1>2, <3>3 DEF Earlier
      <3> QED BY <2>2, <3>1, <3>3, <3>4, <3>5, PushKeepsOrder
    <2> QED BY <2>3, <2>4
  <1>4. CASE PushWake(p)
    <2>1. /\ pushes' = pushes
          /\ \A q \in Producers \ {p} : pc'[q] = pc[q]
          /\ pc[p] = "full" /\ pushes[p] # 0
          /\ UNCHANGED <<chain, received>>
      <3>1. \/ pc' = [pc EXCEPT ![p] = "out"]
            \/ pc' = [pc EXCEPT ![p] = "full"]
        BY <1>4 DEF PushWake, PushWait, PushDone
      <3> QED BY <1>2, <1>4, <3>1 DEF PushWake, TypeInv, Pushing
    <2>2. \A n \in Messages : Earlier(n) => Earlier(n)'
      BY <1>1, <1>2, <2>1 DEF Earlier
    <2>3. CASE UNCHANGED queue
      BY <2>1, <2>2, <2>3, OthersKeepOrder DEF History
    <2>4. CASE PushDone(p, Current(p))
      <3>1. PICK m \in Messages : m = Current(p)
        BY <1>2, <2>1, CurrentMessage DEF TypeInv
      <3>2. /\ queue' = Append(queue, m) /\ pc'[p] = "out"
            /\ m[1] = p /\ m[2] = pushes[p]
        BY <1>2, <2>4, <3>1 DEF PushDone, EnqueueTail, Current
      <3>3. Earlier(m)'
        BY <1>2, <2>1, <3>2 DEF Earlier
      <3>4. \A n \in Messages : Earlier(n) /\ n[1] = m[1] => n[2] < m[2]
        BY <1>1, <1>2, <2>1, <3>2 DEF Earlier
      <3> QED BY <2>1, <2>2, <3>2, <3>3, <3>4, PushKeepsOrder
    <2> QED BY <1>4, <2>3, <2>4 DEF PushWake, PushWait
  <1> QED BY <1>3, <1>4 DEF ProducerStep

LEMMA PopOrder ==
  ASSUME OrderInv, TypeInv', NEW c \in Consumers, ConsumerStep(c)
  PROVE  OrderInv'
  <1> USE DEF TypeInv, TypeOK
  <1>1. /\ pushes' = pushes
        /\ \A q \in Producers : pc'[q] = pc[q]
    BY QueueAssumption
       DEF OrderInv, ConsumerStep, PopEnter, PopClaim, PopDequeue, PopWake,
           PopTake, PopWait, PopGiveUp, PopTimeout, PopMore, PopLeave
  <1>2. \A n \in Messages : Earlier(n) => Earlier(n)'
    BY <1>1 DEF Earlier, Messages
  <1>3. CASE UNCHANGED <<queue, chain, received>>
    BY ONLY <1>2, <1>3, OthersKeepOrder, OrderInv, TypeInv' DEF History
  <1>4. CASE DequeueHead(c) /\ UNCHANGED received
    <2>1. ASSUME NEW d \in Consumers
          PROVE  \/ History(d)' = History(d)
                 \/ /\ queue # <<>>
                    /\ History(d)' = received[d] \o chain[d] \o Tail(queue)
      <3>1. CASE d = c
        <4>1. /\ received[c] \in Seq(Messages) /\ chain[c] \in Seq(Messages)
              /\ queue \in Seq(Messages)
          BY DEF OrderInv
        <4>2. /\ queue # <<>> /\ queue' = Tail(queue)
              /\ chain'[d] = Append(chain[c], Head(queue))
              /\ received' = received
          BY <1>4, <3>1 DEF DequeueHead, OrderInv
        <4>3. received[c] \o Append(chain[c], Head(queue)) \o Tail(queue)
              = received[c] \o chain[c] \o queue
          BY ONLY <4>1, <4>2, HistoryMoves
        <4> QED BY ONLY <3>1, <4>2, <4>3 DEF History
      <3>2. CASE d # c
        BY <1>4, <3>2 DEF DequeueHead, History
      <3> QED BY <3>1, <3>2
    <2> QED BY ONLY <1>2, <2>1, OthersKeepOrder, OrderInv, TypeInv'
  <1>5. CASE PopLeave(c)
    <2>1. ASSUME NEW d \in Consumers PROVE History(d)' = History(d)
      <3>1. CASE d = c
        BY <1>5, <3>1, HistoryMoves DEF PopLeave, History, OrderInv
      <3>2. CASE d # c
        BY <1>5, <3>2 DEF PopLeave, History
      <3> QED BY <3>1, <3>2
    <2> QED BY ONLY <1>2, <2>1, OthersKeepOrder, OrderInv, TypeInv'
  <1> QED BY <1>3, <1>4, <1>5
          DEF ConsumerStep, PopEnter, PopClaim, PopDequeue, PopWake, PopTake,
              PopWait, PopGiveUp, PopTimeout, PopMore

(* The events of one network thread reach each application thread in the   *)
(* order they were pushed, for any number of threads, whatever calls       *)
(* overlap, wait, time out or are refused (MessageQueue.cpp:51-119).       *)
THEOREM OrderKept == Spec => []InOrder
  <1>1. OrderInv /\ [Next]_vars => OrderInv'
    <2> SUFFICES ASSUME OrderInv, [Next]_vars PROVE OrderInv'
      OBVIOUS
    <2>1. TypeInv'
      BY StepType DEF OrderInv
    <2>2. CASE Pulse \/ UNCHANGED vars
      <3>1. UNCHANGED <<queue, chain, received, pushes, pc>>
        BY <2>2 DEF Pulse, vars
      <3>2. \A n \in Messages : Earlier(n) => Earlier(n)'
        BY <3>1 DEF Earlier
      <3> QED BY <2>1, <3>1, <3>2, OthersKeepOrder DEF History
    <2> QED BY <2>1, <2>2, PushOrder, PopOrder DEF Next
  <1>2. OrderInv => InOrder
    BY DEF OrderInv, InOrder
  <1> QED BY <1>1, <1>2, InitOrder, PTL DEF Spec

-----------------------------------------------------------------------------
(* Every message is in one place *)

InHands(m) == pc[m[1]] = "full" /\ pushes[m[1]] = m[2]

Somewhere(m) == \/ In(m, queue)
                \/ Among(m, chain)
                \/ Among(m, received)
                \/ m \in refused
                \/ InHands(m)

NotTwice(m) == /\ One(m, queue) /\ Single(m, chain) /\ Single(m, received)
               /\ In(m, queue) => ~Among(m, chain)
               /\ In(m, queue) \/ Among(m, chain) => ~Among(m, received)
               /\ In(m, queue) \/ Among(m, chain) \/ Among(m, received)
                     => m \notin refused
               /\ InHands(m) => /\ ~In(m, queue) /\ ~Among(m, chain)
                                /\ ~Among(m, received) /\ m \notin refused

(* What a thread has pushed so far is somewhere, and nothing else is.      *)
Placed(m) == NotTwice(m) /\ (Somewhere(m) <=> m[2] <= pushes[m[1]])

OnceInv == TypeInv /\ \A m \in Messages : Placed(m)

(* A message that no step touches, and whose thread takes no next one.     *)
LEMMA StayPlaced ==
  ASSUME NEW m \in Messages, Placed(m),
         UNCHANGED <<queue, chain, received>>,
         m \in refused' <=> m \in refused,
         InHands(m)' <=> InHands(m),
         m[2] <= pushes[m[1]]' <=> m[2] <= pushes[m[1]]
  PROVE  Placed(m)'
  <1>1. /\ Somewhere(m)' <=> Somewhere(m)
        /\ NotTwice(m)'
    BY DEF Placed, Somewhere, NotTwice
  <1> QED BY <1>1 DEF Placed

LEMMA TakePlaced ==
  ASSUME TypeInv, NEW m \in Messages, Placed(m),
         NEW c \in Consumers, DequeueHead(c),
         UNCHANGED <<received, refused, pushes>>,
         InHands(m)' <=> InHands(m)
  PROVE  Placed(m)'
  <1>1. /\ queue \in Seq(Messages) /\ queue # <<>>
        /\ chain \in [Consumers -> Seq(Messages)]
        /\ Head(queue) \in Messages /\ queue' = Tail(queue)
        /\ chain' = [chain EXCEPT ![c] = Append(chain[c], Head(queue))]
    BY DEF TypeInv, TypeOK, DequeueHead
  <1> DEFINE e == Head(queue)
             s == Append(chain[c], e)
  <1>2. /\ In(m, queue) <=> m = e \/ In(m, queue')
        /\ One(m, queue) => One(m, queue') /\ ~(m = e /\ In(m, queue'))
    BY ONLY <1>1, HeadHas
  <1>3. chain[c] \in Seq(Messages) /\ e \in Messages /\ s \in Seq(Messages)
    BY ONLY <1>1, c \in Consumers
  <1>4. /\ In(m, s) <=> In(m, chain[c]) \/ m = e
        /\ One(m, chain[c]) /\ ~(In(m, chain[c]) /\ m = e) => One(m, s)
    BY ONLY <1>3, AppendHas
  <1>5. DOMAIN chain = Consumers /\ chain' = [chain EXCEPT ![c] = s]
    BY <1>1
  <1> HIDE DEF e, s
  <1>6. In(m, chain[c]) => Among(m, chain)
    BY <1>5 DEF Among
  <1>7. NotTwice(m)
    BY DEF Placed
  <1>8. Single(m, chain) /\ One(m, chain[c])
    BY <1>5, <1>7 DEF NotTwice, Single
  <1>9. One(m, s) /\ (In(m, s) => In(m, chain[c]) \/ ~Among(m, chain))
    BY <1>2, <1>4, <1>6, <1>7, <1>8 DEF NotTwice
  <1>10. /\ Single(m, chain')
         /\ Among(m, chain') <=>
               In(m, s) \/ (Among(m, chain) /\ ~In(m, chain[c]))
    <2>1. chain \in [Consumers -> Seq(Messages)] /\ s \in Seq(Messages)
      BY <1>1, <1>3
    <2> QED BY ONLY <1>5, <1>8, <1>9, <2>1, c \in Consumers, m \in Messages,
                    ReplaceHas
  <1>11. Among(m, chain') <=> Among(m, chain) \/ m = e
    BY <1>4, <1>6, <1>10
  <1>12. /\ Somewhere(m)' <=> Somewhere(m)
         /\ NotTwice(m)'
    BY <1>2, <1>7, <1>10, <1>11 DEF Somewhere, NotTwice
  <1> QED BY <1>12 DEF Placed

(* The caller gets the chain. *)
LEMMA LeavePlaced ==
  ASSUME TypeInv, NEW m \in Messages, Placed(m),
         NEW c \in Consumers, PopLeave(c),
         InHands(m)' <=> InHands(m)
  PROVE  Placed(m)'
  <1> DEFINE s == received[c] \o chain[c]
  <1>1. /\ chain \in [Consumers -> Seq(Messages)]
        /\ received \in [Consumers -> Seq(Messages)]
        /\ received' = [received EXCEPT ![c] = s]
        /\ chain' = [chain EXCEPT ![c] = <<>>]
        /\ UNCHANGED <<queue, refused, pushes>>
    BY DEF TypeInv, TypeOK, PopLeave
  <1>2. /\ chain[c] \in Seq(Messages) /\ received[c] \in Seq(Messages)
        /\ s \in Seq(Messages) /\ <<>> \in Seq(Messages)
        /\ DOMAIN chain = Consumers /\ DOMAIN received = Consumers
    BY ONLY <1>1, c \in Consumers
  <1>3. /\ In(m, s) <=> In(m, received[c]) \/ In(m, chain[c])
        /\ One(m, received[c]) /\ One(m, chain[c])
           /\ ~(In(m, received[c]) /\ In(m, chain[c])) => One(m, s)
    BY ONLY <1>2, ConcatHas
  <1> HIDE DEF s
  <1>4. /\ In(m, chain[c]) => Among(m, chain)
        /\ In(m, received[c]) => Among(m, received)
    BY <1>2 DEF Among
  <1>5. NotTwice(m)
    BY DEF Placed
  <1>6. /\ Single(m, chain) /\ One(m, chain[c])
        /\ Single(m, received) /\ One(m, received[c])
    BY <1>2, <1>5 DEF NotTwice, Single
  <1>7. One(m, s) /\ (In(m, s) => In(m, received[c]) \/ ~Among(m, received))
    BY <1>3, <1>4, <1>5, <1>6 DEF NotTwice
  <1>8. /\ Single(m, received')
        /\ Among(m, received') <=>
              In(m, s) \/ (Among(m, received) /\ ~In(m, received[c]))
    BY ONLY <1>1, <1>2, <1>6, <1>7, c \in Consumers, m \in Messages,
            ReplaceHas
  <1>9. /\ Single(m, chain')
        /\ Among(m, chain') <=> Among(m, chain) /\ ~In(m, chain[c])
    BY ONLY <1>1, <1>2, <1>6, c \in Consumers, m \in Messages,
            ReplaceHas, EmptyHas
  <1>10. /\ Among(m, received') <=> Among(m, received) \/ In(m, chain[c])
         /\ UNCHANGED <<queue, refused, pushes>>
    BY <1>1, <1>3, <1>4, <1>8
  <1>11. /\ Somewhere(m)' <=> Somewhere(m)
         /\ NotTwice(m)'
    BY <1>4, <1>5, <1>8, <1>9, <1>10 DEF Somewhere, NotTwice
  <1> QED BY <1>10, <1>11 DEF Placed

(* A message that was nowhere, or in the hands of its thread, enters the   *)
(* queue.                                                                  *)
LEMMA EnqueuePlaced ==
  ASSUME TypeInv, NEW m \in Messages, Placed(m),
         NEW n \in Messages, queue' = Append(queue, n),
         UNCHANGED <<chain, received, refused>>,
         ~Somewhere(n) \/ InHands(n), ~InHands(n)',
         m # n => (InHands(m)' <=> InHands(m)),
         m[2] <= pushes[m[1]]' <=> m[2] <= pushes[m[1]] \/ m = n
  PROVE  Placed(m)'
  <1>1. queue \in Seq(Messages)
    BY DEF TypeInv, TypeOK
  <1>2. /\ In(m, queue') <=> In(m, queue) \/ m = n
        /\ One(m, queue) /\ ~(In(m, queue) /\ m = n) => One(m, queue')
    BY ONLY <1>1, n \in Messages, queue' = Append(queue, n), AppendHas
  <1>3. NotTwice(m) /\ (Somewhere(m) <=> m[2] <= pushes[m[1]])
    BY DEF Placed
  <1>4. CASE m = n
    <2>1. ~In(m, queue) /\ ~Among(m, chain) /\ ~Among(m, received)
          /\ m \notin refused
      <3>1. ~Somewhere(m) \/ InHands(m)
        BY <1>4
      <3> QED BY ONLY <1>3, <3>1 DEF NotTwice, Somewhere
    <2>2. NotTwice(m)'
      BY <1>2, <1>3, <1>4, <2>1 DEF NotTwice
    <2>3. Somewhere(m)'
      BY <1>2, <1>4 DEF Somewhere
    <2> QED BY <1>4, <2>2, <2>3 DEF Placed
  <1>5. CASE m # n
    <2>1. /\ Somewhere(m)' <=> Somewhere(m)
          /\ NotTwice(m)'
      BY <1>2, <1>3, <1>5 DEF Somewhere, NotTwice
    <2> QED BY <1>3, <1>5, <2>1 DEF Placed
  <1> QED BY <1>4, <1>5

LEMMA InitPlaced == ASSUME Init PROVE OnceInv
  <1> SUFFICES ASSUME NEW m \in Messages PROVE Placed(m)
    BY InitType DEF OnceInv
  <1>1. m[1] \in Producers /\ m[2] \in 1 .. MaxPush
    BY DEF Messages
  <1>2. /\ ~In(m, queue) /\ One(m, queue)
        /\ ~Among(m, chain) /\ Single(m, chain)
        /\ ~Among(m, received) /\ Single(m, received)
        /\ m \notin refused
    BY EmptyHas DEF Init, Among, Single
  <1>3. ~InHands(m) /\ ~(m[2] <= pushes[m[1]])
    BY <1>1, QueueAssumption DEF Init, InHands
  <1> QED BY <1>2, <1>3 DEF Placed, NotTwice, Somewhere

LEMMA PushPlaced ==
  ASSUME OnceInv, NEW p \in Producers, ProducerStep(p),
         NEW m \in Messages
  PROVE  Placed(m)'
  <1>1. /\ TypeInv /\ Placed(m)
        /\ m[1] \in Producers /\ m[2] \in 1 .. MaxPush
        /\ pushes \in [Producers -> 0 .. MaxPush]
        /\ pc \in [Producers \cup Consumers ->
                     {"out", "full", "claim", "dequeue", "empty", "more", "leave"}]
        /\ MaxPush \in Nat
    BY QueueAssumption DEF OnceInv, TypeInv, TypeOK, Messages
  <1>2. CASE Push(p)
    <2>1. /\ pc[p] = "out" /\ pushes[p] < MaxPush
          /\ pushes' = [pushes EXCEPT ![p] = pushes[p] + 1]
          /\ UNCHANGED <<chain, received>>
      BY <1>2 DEF Push
    <2>2. PICK n \in Messages : n = <<p, pushes[p] + 1>>
      <3>1. pushes[p] + 1 \in 1 .. MaxPush
        BY <1>1, <2>1
      <3> QED BY <3>1 DEF Messages
    <2>3. n[1] = p /\ n[2] = pushes[p] + 1
      BY <2>2
    <2>4. m = n <=> m[1] = p /\ m[2] = pushes[p] + 1
      BY <2>2 DEF Messages
    <2>5. ~Somewhere(n)
      BY <1>1, <2>3 DEF OnceInv, Placed
    <2>6. m[2] <= pushes[m[1]]' <=> m[2] <= pushes[m[1]] \/ m = n
      BY <1>1, <2>1, <2>4
    <2>7. CASE IsFull
      <3>1. /\ pc' = [pc EXCEPT ![p] = "full"]
            /\ UNCHANGED <<queue, refused>>
        BY <1>2, <2>7 DEF Push, PushWait
      <3>2. /\ InHands(m)' <=> InHands(m) \/ m = n
        BY <1>1, <2>1, <2>4, <3>1 DEF InHands
      <3>3. CASE m = n
        <4>1. ~Somewhere(m) /\ InHands(m)'
          BY <2>5, <3>2, <3>3
        <4>2. NotTwice(m)' /\ Somewhere(m)'
          BY <1>1, <2>1, <3>1, <4>1 DEF Placed, NotTwice, Somewhere
        <4> QED BY <2>6, <3>3, <4>2 DEF Placed
      <3>4. CASE m # n
        BY <1>1, <2>1, <2>6, <3>1, <3>2, <3>4, StayPlaced
      <3> QED BY <3>3, <3>4
    <2>8. CASE ~IsFull
      <3>1. /\ queue' = Append(queue, n)
            /\ pc' = [pc EXCEPT ![p] = "out"]
            /\ UNCHANGED refused
        BY <1>2, <2>2, <2>8 DEF Push, PushDone, EnqueueTail
      <3>2. ~InHands(n)' /\ (InHands(m)' <=> InHands(m))
        BY <1>1, <2>1, <2>3, <3>1 DEF InHands
      <3> QED BY <1>1, <2>1, <2>5, <2>6, <3>1, <3>2, EnqueuePlaced
    <2> QED BY <2>7, <2>8
  <1>3. CASE PushWake(p)
    <2>1. /\ pc[p] = "full"
          /\ UNCHANGED <<pushes, chain, received>>
      BY <1>3 DEF PushWake
    <2>2. PICK n \in Messages : n = Current(p)
      BY <1>1, <2>1, CurrentMessage DEF TypeInv, Pushing
    <2>3. n[1] = p /\ n[2] = pushes[p] /\ InHands(n)
      BY <2>1, <2>2 DEF Current, InHands
    <2>4. m = n <=> m[1] = p /\ m[2] = pushes[p]
      BY <2>2 DEF Messages, Current
    <2>5. ASSUME pc' = [pc EXCEPT ![p] = "out"]
          PROVE  ~InHands(n)' /\ (m # n => (InHands(m)' <=> InHands(m)))
      BY <1>1, <2>1, <2>3, <2>4, <2>5 DEF InHands
    <2>6. CASE PushDone(p, Current(p))
      <3>1. /\ queue' = Append(queue, n)
            /\ pc' = [pc EXCEPT ![p] = "out"]
            /\ UNCHANGED refused
        BY <2>2, <2>6 DEF PushDone, EnqueueTail
      <3>2. m = n => m[2] <= pushes[m[1]]
        BY <1>1, <2>3
      <3> QED BY <1>1, <2>1, <2>3, <2>5, <3>1, <3>2, EnqueuePlaced
    <2>7. CASE PushWait(p)
      <3>1. /\ pc' = [pc EXCEPT ![p] = "full"]
            /\ UNCHANGED <<queue, refused>>
        BY <2>7 DEF PushWait
      <3>2. InHands(m)' <=> InHands(m)
        BY <1>1, <2>1, <3>1 DEF InHands
      <3> QED BY <1>1, <2>1, <3>1, <3>2, StayPlaced
    <2>8. CASE /\ refused' = refused \cup {Current(p)}
               /\ pc' = [pc EXCEPT ![p] = "out"]
               /\ UNCHANGED queue
      <3>1. CASE m = n
        <4>1. NotTwice(m) /\ InHands(m) /\ ~InHands(m)' /\ m \in refused'
          BY <1>1, <2>2, <2>3, <2>5, <2>8, <3>1 DEF Placed
        <4>2. /\ ~In(m, queue) /\ ~Among(m, chain) /\ ~Among(m, received)
              /\ One(m, queue) /\ Single(m, chain) /\ Single(m, received)
          BY ONLY <4>1 DEF NotTwice
        <4>3. queue' = queue /\ chain' = chain /\ received' = received
          BY <2>1, <2>8
        <4>4. NotTwice(m)' /\ Somewhere(m)'
          BY ONLY <4>1, <4>2, <4>3 DEF NotTwice, Somewhere
        <4> QED BY <1>1, <2>1, <2>3, <3>1, <4>4 DEF Placed
      <3>2. CASE m # n
        <4>1. m \in refused' <=> m \in refused
          BY <2>2, <2>8, <3>2
        <4> QED BY <1>1, <2>1, <2>5, <2>8, <3>2, <4>1, StayPlaced
      <3> QED BY <3>1, <3>2
    <2> QED BY <1>3, <2>6, <2>7, <2>8 DEF PushWake
  <1> QED BY <1>2, <1>3 DEF ProducerStep

LEMMA PopPlaced ==
  ASSUME OnceInv, NEW c \in Consumers, ConsumerStep(c),
         NEW m \in Messages
  PROVE  Placed(m)'
  <1>1. /\ TypeInv /\ Placed(m) /\ m[1] \in Producers
        /\ pc \in [Producers \cup Consumers ->
                     {"out", "full", "claim", "dequeue", "empty", "more", "leave"}]
    BY DEF OnceInv, TypeInv, TypeOK, Messages
  <1>2. \E x : pc' = [pc EXCEPT ![c] = x]
    BY DEF ConsumerStep, PopEnter, PopClaim, PopDequeue, PopWake, PopTake,
           PopWait, PopGiveUp, PopTimeout, PopMore, PopLeave
  <1>3. pushes' = pushes
    BY DEF ConsumerStep, PopEnter, PopClaim, PopDequeue, PopWake, PopTimeout,
           PopMore, PopLeave
  <1>4. InHands(m)' <=> InHands(m)
    BY <1>1, <1>2, <1>3, QueueAssumption DEF InHands
  <1>5. CASE UNCHANGED <<queue, chain, received, refused>>
    BY <1>1, <1>3, <1>4, <1>5, StayPlaced
  <1>6. CASE DequeueHead(c) /\ UNCHANGED <<received, refused>>
    BY <1>1, <1>3, <1>4, <1>6, TakePlaced
  <1>7. CASE PopLeave(c)
    BY <1>1, <1>4, <1>7, LeavePlaced
  <1> QED BY <1>5, <1>6, <1>7
          DEF ConsumerStep, PopEnter, PopClaim, PopDequeue, PopWake, PopTake,
              PopWait, PopGiveUp, PopTimeout, PopMore

(* The places of a message that is where it should be differ in nothing.   *)
LEMMA OnePlace ==
  ASSUME TypeInv, NEW m \in Messages, Placed(m)
  PROVE  Cardinality(Places(m)) = IF m[2] <= pushes[m[1]] THEN 1 ELSE 0
  <1> DEFINE Q == {<<"queue", i>> : i \in {j \in DOMAIN queue : queue[j] = m}}
             C == UNION {{<<"chain", c, i>> : i \in {j \in DOMAIN chain[c] :
                                    chain[c][j] = m}} : c \in Consumers}
             R == UNION {{<<"received", c, i>> : i \in
                           {j \in DOMAIN received[c] : received[c][j] = m}} :
                               c \in Consumers}
             F == IF m \in refused THEN {<<"refused">>} ELSE {}
             H == {<<"pushing", p>> : p \in {q \in Producers :
                                      /\ pc[q] = "full" /\ Current(q) = m}}
  <1>1. Places(m) = Q \cup C \cup R \cup F \cup H
    BY Zenon DEF Places
  <1>2. /\ DOMAIN chain = Consumers /\ DOMAIN received = Consumers
        /\ m[1] \in Producers /\ m = <<m[1], m[2]>>
    BY DEF TypeInv, TypeOK, Messages
  <1>3. NotTwice(m) /\ (Somewhere(m) <=> m[2] <= pushes[m[1]])
    BY DEF Placed
  <1>4. (\A x, y \in Q : x = y) /\ (Q # {} <=> In(m, queue))
    BY <1>3 DEF NotTwice, One, In
  <1>5. (\A x, y \in C : x = y) /\ (C # {} <=> Among(m, chain))
    <2>1. ASSUME NEW c \in Consumers, NEW d \in Consumers,
                 NEW i \in DOMAIN chain[c], NEW j \in DOMAIN chain[d],
                 chain[c][i] = m, chain[d][j] = m
          PROVE  c = d /\ i = j
      <3>1. c = d
        BY <1>2, <1>3, <2>1 DEF NotTwice, Single, In
      <3> QED BY <1>2, <1>3, <2>1, <3>1 DEF NotTwice, Single, One
    <2>2. \A x \in C : \E c \in Consumers : \E i \in DOMAIN chain[c] :
             chain[c][i] = m /\ x = <<"chain", c, i>>
      OBVIOUS
    <2>3. \A x, y \in C : x = y
      BY <2>1, <2>2
    <2>4. ASSUME C # {} PROVE Among(m, chain)
      BY <1>2, <2>2, <2>4 DEF Among, In
    <2>5. ASSUME Among(m, chain) PROVE C # {}
      <3>1. PICK c \in Consumers : \E i \in DOMAIN chain[c] : chain[c][i] = m
        BY <1>2, <2>5 DEF Among, In
      <3>2. PICK i \in DOMAIN chain[c] : chain[c][i] = m
        BY <3>1
      <3>3. <<"chain", c, i>> \in C
        BY <3>2
      <3> QED BY <3>3
    <2> QED BY <2>3, <2>4, <2>5
  <1>6. (\A x, y \in R : x = y) /\ (R # {} <=> Among(m, received))
    <2>1. ASSUME NEW c \in Consumers, NEW d \in Consumers,
                 NEW i \in DOMAIN received[c], NEW j \in DOMAIN received[d],
                 received[c][i] = m, received[d][j] = m
          PROVE  c = d /\ i = j
      <3>1. c = d
        BY <1>2, <1>3, <2>1 DEF NotTwice, Single, In
      <3> QED BY <1>2, <1>3, <2>1, <3>1 DEF NotTwice, Single, One
    <2>2. \A x \in R : \E c \in Consumers : \E i \in DOMAIN received[c] :
             received[c][i] = m /\ x = <<"received", c, i>>
      OBVIOUS
    <2>3. \A x, y \in R : x = y
      BY <2>1, <2>2
    <2>4. ASSUME R # {} PROVE Among(m, received)
      BY <1>2, <2>2, <2>4 DEF Among, In
    <2>5. ASSUME Among(m, received) PROVE R # {}
      <3>1. PICK c \in Consumers :
               \E i \in DOMAIN received[c] : received[c][i] = m
        BY <1>2, <2>5 DEF Among, In
      <3>2. PICK i \in DOMAIN received[c] : received[c][i] = m
        BY <3>1
      <3>3. <<"received", c, i>> \in R
        BY <3>2
      <3> QED BY <3>3
    <2> QED BY <2>3, <2>4, <2>5
  <1>7. (\A x, y \in F : x = y) /\ (F # {} <=> m \in refused)
    OBVIOUS
  <1>8. (\A x, y \in H : x = y) /\ (H # {} <=> InHands(m))
    <2>1. \A q : Current(q) = m <=> q = m[1] /\ pushes[q] = m[2]
      BY <1>2 DEF Current
    <2>2. H = {<<"pushing", p>> : p \in {q \in Producers :
                 pc[q] = "full" /\ q = m[1] /\ pushes[q] = m[2]}}
      BY <2>1
    <2> HIDE DEF H
    <2> QED BY <1>2, <2>2 DEF InHands
  <1> HIDE DEF Q, C, R, F, H
  <1>9. \A x, y \in Places(m) : x = y
    <2>1. /\ Q # {} => C = {} /\ R = {} /\ F = {} /\ H = {}
          /\ C # {} => R = {} /\ F = {} /\ H = {}
          /\ R # {} => F = {} /\ H = {}
          /\ F # {} => H = {}
      BY <1>3, <1>4, <1>5, <1>6, <1>7, <1>8 DEF NotTwice
    <2>2. \/ Places(m) = Q \/ Places(m) = C \/ Places(m) = R
          \/ Places(m) = F \/ Places(m) = H
      BY ONLY <1>1, <2>1
    <2> QED BY ONLY <1>4, <1>5, <1>6, <1>7, <1>8, <2>2
  <1>10. Places(m) = {} <=> ~Somewhere(m)
    BY <1>1, <1>4, <1>5, <1>6, <1>7, <1>8 DEF Somewhere
  <1> QED BY <1>3, <1>9, <1>10, AtMostOne

(* Whatever calls overlap, wait, time out or are pulsed away, a message    *)
(* handed to Push is neither lost nor delivered twice                      *)
(* (MessageQueue.cpp:51-119).                                              *)
THEOREM DeliveredOnce == Spec => []ExactlyOnce
  <1>1. OnceInv /\ [Next]_vars => OnceInv'
    <2> SUFFICES ASSUME OnceInv, [Next]_vars PROVE OnceInv'
      OBVIOUS
    <2>1. TypeInv'
      BY StepType DEF OnceInv
    <2>2. ASSUME Pulse \/ UNCHANGED vars, NEW m \in Messages
          PROVE  Placed(m)'
      <3>1. UNCHANGED <<queue, chain, received, refused, pushes, pc>>
        BY <2>2 DEF Pulse, vars
      <3>2. InHands(m)' <=> InHands(m)
        BY <3>1 DEF InHands
      <3> QED BY <3>1, <3>2, StayPlaced DEF OnceInv
    <2>3. (\A m \in Messages : Placed(m))'
      <3>1. Messages' = Messages
        BY DEF Messages
      <3> QED BY <2>2, <3>1, PushPlaced, PopPlaced DEF Next
    <2> QED BY <2>1, <2>3 DEF OnceInv
  <1>2. OnceInv => ExactlyOnce
    BY OnePlace DEF OnceInv, ExactlyOnce
  <1> QED BY <1>1, <1>2, InitPlaced, PTL DEF Spec

-----------------------------------------------------------------------------
(* No wake-up is lost *)

(* A producer that sleeps has messages before it or a woken one ...        *)
RoomComing == notFull # {} => queue # <<>> \/ WokenProducers # {}

(* ... and while a consumer sleeps, the woken ones can empty the queue.    *)
QueueTaken == notEmpty # {} => Len(queue) <= Cardinality(WokenConsumers)

WakeInv == TypeInv /\ NoLostWakeup

LEMMA Woken ==
  ASSUME TypeInv
  PROVE  /\ IsFiniteSet(WokenProducers)
         /\ IsFiniteSet(WokenConsumers)
         /\ Cardinality(WokenProducers) \in Nat
         /\ Cardinality(WokenConsumers) \in Nat
         /\ Len(queue) \in Nat
         /\ notEmpty \subseteq {c \in Consumers : pc[c] = "empty"}
         /\ notFull \subseteq {p \in Producers : pc[p] = "full"}
  <1>1. /\ WokenProducers \subseteq Producers \cup Consumers
        /\ WokenConsumers \subseteq Producers \cup Consumers
    BY DEF WokenProducers, WokenConsumers
  <1>2. IsFiniteSet(WokenProducers) /\ IsFiniteSet(WokenConsumers)
    BY <1>1, FS_Subset, QueueAssumption
  <1>3. queue \in Seq(Messages)
        /\ notEmpty \subseteq {c \in Consumers : pc[c] = "empty"}
        /\ notFull \subseteq {p \in Producers : pc[p] = "full"}
    BY QueueAssumption DEF TypeInv, TypeOK
  <1> QED BY <1>2, <1>3, FS_CardinalityType, LenProperties

LEMMA SignalOne ==
  ASSUME NEW S, NEW R \in Signal(S), R # {}
  PROVE  \E t \in S : R = S \ {t}
  BY DEF Signal

LEMMA EnqueueWakes ==
  ASSUME TypeInv, QueueTaken, NEW m \in Messages, EnqueueTail(m),
         \A c \in Consumers : pc'[c] = pc[c]
  PROVE  QueueTaken'
  <1> SUFFICES ASSUME notEmpty' # {}
               PROVE  Len(queue') <= Cardinality(WokenConsumers')
    BY DEF QueueTaken
  <1>1. PICK t \in notEmpty : notEmpty' = notEmpty \ {t}
    BY SignalOne DEF EnqueueTail
  <1>2. /\ WokenConsumers' = WokenConsumers \cup {t}
        /\ t \notin WokenConsumers
    BY <1>1, Woken DEF WokenConsumers
  <1>3. Cardinality(WokenConsumers') = Cardinality(WokenConsumers) + 1
    BY <1>2, Woken, FS_AddElement
  <1>4. Len(queue') = Len(queue) + 1
    BY DEF TypeInv, TypeOK, EnqueueTail
  <1>5. Len(queue) <= Cardinality(WokenConsumers)
    BY <1>1 DEF QueueTaken
  <1> DEFINE x == Cardinality(WokenConsumers)
             y == Cardinality(WokenConsumers')
             n == Len(queue)
  <1>6. x \in Nat /\ n \in Nat /\ n <= x /\ y = x + 1
    BY <1>3, <1>5, Woken
  <1> HIDE DEF x, n
  <1> QED BY <1>4, <1>6 DEF n

(* An empty queue is below either mark. *)
LEMMA NoBytes == Bytes(<<>>) = 0
  <1> DEFINE Sums(f) == f = [i \in 0 .. Len(<<>>) |->
                               IF i = 0 THEN 0 ELSE f[i - 1] + Size[<<>>[i]]]
             sum == CHOOSE f : Sums(f)
  <1>1. Sums([i \in {0} |-> 0])
    <2>1. 0 .. Len(<<>>) = {0}
      OBVIOUS
    <2> QED BY <2>1
  <1>2. Sums(sum)
    BY <1>1
  <1>3. Bytes(<<>>) = sum[Len(<<>>)]
    BY DEF Bytes
  <1> HIDE DEF sum
  <1>4. sum[0] = 0
    BY <1>2
  <1> QED BY <1>3, <1>4

LEMMA DequeueWakes ==
  ASSUME TypeInv, NEW c \in Consumers, DequeueHead(c),
         \A p \in Producers : pc'[p] = pc[p]
  PROVE  RoomComing'
  <1> SUFFICES ASSUME notFull' # {}, queue' = <<>>
               PROVE  WokenProducers' # {}
    BY DEF RoomComing
  <1>1. Bytes(queue') <= LowWater
    BY NoBytes, QueueAssumption
  <1>2. notFull' \in Signal(notFull)
    BY <1>1 DEF DequeueHead
  <1>3. PICK t \in notFull : notFull' = notFull \ {t}
    BY <1>2, SignalOne
  <1>4. t \in WokenProducers'
    BY <1>3, Woken DEF WokenProducers
  <1> QED BY <1>4

(* The woken among the consumers, when one of them has taken a message. *)
LEMMA TakeQueue ==
  ASSUME TypeInv, QueueTaken, NEW c \in Consumers, PopTake(c)
  PROVE  QueueTaken'
  <1> SUFFICES ASSUME notEmpty # {}
               PROVE  Len(queue') <= Cardinality(WokenConsumers')
    BY DEF QueueTaken, PopTake
  <1>1. /\ notEmpty' = notEmpty
        /\ \E x \in {"more", "leave"} : pc' = [pc EXCEPT ![c] = x]
        /\ DOMAIN pc = Producers \cup Consumers
    BY DEF PopTake, TypeInv, TypeOK
  <1>2. WokenConsumers' = WokenConsumers \ {c}
    BY <1>1 DEF WokenConsumers
  <1>3. Cardinality(WokenConsumers') >= Cardinality(WokenConsumers) - 1
    <2>1. Cardinality(WokenConsumers') = IF c \in WokenConsumers
                                          THEN Cardinality(WokenConsumers) - 1
                                          ELSE Cardinality(WokenConsumers)
      BY ONLY <1>2, Woken, TypeInv, FS_RemoveElement
    <2> DEFINE a == Cardinality(WokenConsumers)
    <2>2. a \in Nat
      BY Woken
    <2> HIDE DEF a
    <2> QED BY ONLY <2>1, <2>2 DEF a
  <1>4. Len(queue') = Len(queue) - 1
    BY DEF TypeInv, TypeOK, DequeueHead, PopTake
  <1>5. Len(queue) <= Cardinality(WokenConsumers)
    BY DEF QueueTaken
  <1>6. Cardinality(WokenConsumers') \in Nat
    BY <1>2, Woken, FS_RemoveElement, FS_CardinalityType
  <1> DEFINE x == Cardinality(WokenConsumers)
             y == Cardinality(WokenConsumers')
             n == Len(queue)
             k == Len(queue')
  <1>7. /\ x \in Nat /\ n \in Nat /\ y \in Nat /\ y >= x - 1 /\ k = n - 1
        /\ n <= x
    BY <1>3, <1>4, <1>5, <1>6, Woken
  <1>8. SUFFICES k <= y
    OBVIOUS
  <1> HIDE DEF x, y, n, k
  <1> QED BY <1>7

LEMMA PushWakes ==
  ASSUME TypeInv, RoomComing, QueueTaken, state = "ACTIVATED",
         NEW p \in Producers, ProducerStep(p)
  PROVE  RoomComing' /\ QueueTaken'
  <1>1. /\ DOMAIN pc = Producers \cup Consumers
        /\ \E x : pc' = [pc EXCEPT ![p] = x]
    BY DEF TypeInv, TypeOK, ProducerStep, Push, PushWake, PushDone, PushWait
  <1>2. \A c \in Consumers : pc'[c] = pc[c]
    BY <1>1, QueueAssumption
  <1>3. CASE IsFull /\ PushWait(p)
    <2>1. UNCHANGED <<queue, notEmpty>>
      BY <1>3 DEF PushWait
    <2>2. QueueTaken'
      BY <1>2, <2>1 DEF QueueTaken, WokenConsumers
    <2>3. queue # <<>>
      BY <1>3, NoBytes, QueueAssumption DEF IsFull
    <2> QED BY <2>1, <2>2, <2>3 DEF RoomComing
  <1>4. ASSUME NEW m \in Messages, PushDone(p, m)
        PROVE  RoomComing' /\ QueueTaken'
    <2>1. queue' = Append(queue, m) /\ queue \in Seq(Messages)
      BY <1>4 DEF PushDone, EnqueueTail, TypeInv, TypeOK
    <2>2. queue' # <<>>
      BY <2>1
    <2>3. QueueTaken'
      BY <1>2, <1>4, EnqueueWakes DEF PushDone
    <2> QED BY <2>2, <2>3 DEF RoomComing
  <1>5. CASE Push(p)
    <2>1. pc[p] = "out" /\ p \notin notFull
      BY <1>5, Woken DEF Push
    <2>2. CASE IsFull
      BY <1>3, <1>5, <2>2 DEF Push
    <2>3. CASE ~IsFull
      <3>1. pushes[p] + 1 \in 1 .. MaxPush
        BY <1>5, QueueAssumption DEF Push, TypeInv, TypeOK
      <3>2. <<p, pushes[p] + 1>> \in Messages
        BY <3>1 DEF Messages
      <3> QED BY <1>4, <1>5, <2>1, <2>3, <3>2 DEF Push
    <2> QED BY <2>2, <2>3
  <1>6. CASE PushWake(p)
    <2>1. pc[p] = "full" /\ p \notin notFull
      BY <1>6 DEF PushWake
    <2>2. Current(p) \in Messages
      BY <2>1, CurrentMessage DEF TypeInv, Pushing
    <2> QED BY <1>3, <1>4, <1>6, <2>1, <2>2 DEF PushWake
  <1> QED BY <1>5, <1>6 DEF ProducerStep

LEMMA PopWakes ==
  ASSUME TypeInv, RoomComing, QueueTaken, state = "ACTIVATED",
         NEW c \in Consumers, ConsumerStep(c)
  PROVE  RoomComing' /\ QueueTaken'
  <1>1. /\ DOMAIN pc = Producers \cup Consumers
        /\ \E x : pc' = [pc EXCEPT ![c] = x]
    BY DEF TypeInv, TypeOK, ConsumerStep, PopEnter, PopClaim, PopDequeue,
           PopWake, PopTake, PopWait, PopGiveUp, PopTimeout, PopMore, PopLeave
  <1>2. \A p \in Producers : pc'[p] = pc[p]
    BY <1>1, QueueAssumption
  <1>3. CASE PopTake(c)
    BY <1>2, <1>3, DequeueWakes, TakeQueue DEF PopTake
  <1>4. CASE PopWait(c)
    <2>1. RoomComing'
      BY <1>2, <1>4 DEF PopWait, RoomComing, WokenProducers
    <2>2. WokenConsumers' \subseteq Producers \cup Consumers
      BY DEF WokenConsumers
    <2>3. Cardinality(WokenConsumers)' \in Nat
      BY <2>2, FS_Subset, FS_CardinalityType, QueueAssumption
    <2>4. Len(queue') = 0
      BY <1>4 DEF PopWait
    <2> DEFINE y == Cardinality(WokenConsumers)'
    <2>5. y \in Nat
      BY <2>3
    <2>6. 0 <= y
      <3> HIDE DEF y
      <3> QED BY <2>5
    <2> QED BY <2>1, <2>4, <2>6 DEF QueueTaken
  <1>5. CASE PopTimeout(c)
    <2>1. /\ RoomComing'
          /\ notEmpty' = notEmpty \ {c} /\ c \in notEmpty /\ queue' = queue
          /\ pc' = [pc EXCEPT ![c] = "leave"]
      BY <1>2, <1>5 DEF PopTimeout, RoomComing, WokenProducers
    <2>2. WokenConsumers' = WokenConsumers
      BY <1>1, <2>1 DEF WokenConsumers
    <2> QED BY <2>1, <2>2 DEF QueueTaken
  <1>6. CASE \/ PopEnter(c) \/ PopClaim(c) \/ PopMore(c) \/ PopLeave(c)
    <2>1. UNCHANGED <<queue, notEmpty, notFull>>
      BY <1>6 DEF PopEnter, PopClaim, PopMore, PopLeave
    <2>2. /\ pc[c] # "empty" /\ pc'[c] # "empty"
          /\ \A d \in Consumers \ {c} : pc'[d] = pc[d]
      BY <1>1, <1>6 DEF PopEnter, PopClaim, PopMore, PopLeave
    <2>3. WokenConsumers' = WokenConsumers
      BY <2>1, <2>2 DEF WokenConsumers
    <2>4. WokenProducers' = WokenProducers
      BY <1>2, <2>1 DEF WokenProducers
    <2> QED BY <2>1, <2>3, <2>4 DEF RoomComing, QueueTaken
  <1> QED BY <1>3, <1>4, <1>5, <1>6
          DEF ConsumerStep, PopDequeue, PopWake

(* Until a Pulse, no message waits for a consumer that nobody will wake,   *)
(* and no producer for the dequeue of a message when none is left and no   *)
(* producer is about to push one (Message_Queue_T.cpp:1181-1195,           *)
(* 1475-1479, 1706-1757).                                                  *)
THEOREM NoWakeupLost == Spec => []NoLostWakeup
  <1>1. Init => WakeInv
    <2> SUFFICES ASSUME Init PROVE NoLostWakeup
      BY InitType DEF WakeInv
    <2> QED BY DEF Init, NoLostWakeup
  <1>2. WakeInv /\ [Next]_vars => WakeInv'
    <2> SUFFICES ASSUME WakeInv, [Next]_vars, state' = "ACTIVATED"
                 PROVE  RoomComing' /\ QueueTaken'
      BY StepType DEF WakeInv, NoLostWakeup, RoomComing, QueueTaken
    <2>1. TypeInv /\ ~Pulse /\ (state = "ACTIVATED" => RoomComing /\ QueueTaken)
      BY DEF WakeInv, NoLostWakeup, RoomComing, QueueTaken, Pulse
    <2>2. CASE UNCHANGED vars
      BY <2>1, <2>2 DEF vars, RoomComing, QueueTaken, WokenProducers,
                        WokenConsumers
    <2>3. CASE Next
      <3>1. state = "ACTIVATED"
        BY <2>1, <2>3 DEF Next, ProducerStep, Push, PushWake, ConsumerStep,
           PopEnter, PopClaim, PopDequeue, PopWake, PopTimeout, PopMore,
           PopLeave
      <3> QED BY <2>1, <2>3, <3>1, PushWakes, PopWakes DEF Next
    <2> QED BY <2>2, <2>3
  <1>3. WakeInv => NoLostWakeup
    BY DEF WakeInv
  <1> QED BY <1>1, <1>2, <1>3, PTL DEF Spec

-----------------------------------------------------------------------------
(* The channel *)

LEMMA SplitConcat ==
  ASSUME NEW S, NEW s \in Seq(S), NEW t \in Seq(S)
  PROVE  /\ SubSeq(s \o t, 1, Len(s)) = s
         /\ SubSeq(s \o t, Len(s) + 1, Len(s \o t)) = t
         /\ s # <<>> => Len(s) \in 1 .. Len(s \o t)
  <1> DEFINE r == s \o t
  <1>1. /\ r \in Seq(S) /\ Len(r) = Len(s) + Len(t)
        /\ Len(s) \in Nat /\ Len(t) \in Nat
        /\ \A i \in 1 .. Len(s) : r[i] = s[i]
        /\ \A i \in 1 .. Len(t) : r[Len(s) + i] = t[i]
    OBVIOUS
  <1> HIDE DEF r
  <1>2. SubSeq(r, 1, Len(s)) = s
    <2>1. /\ SubSeq(r, 1, Len(s)) \in Seq(S)
          /\ Len(SubSeq(r, 1, Len(s))) = Len(s)
          /\ \A i \in 1 .. Len(s) : SubSeq(r, 1, Len(s))[i] = r[i]
      BY <1>1
    <2> QED BY <1>1, <2>1, SeqEqual
  <1>3. SubSeq(r, Len(s) + 1, Len(r)) = t
    <2> DEFINE u == SubSeq(r, Len(s) + 1, Len(r))
    <2>1. /\ u \in Seq(S) /\ Len(u) = Len(t)
          /\ \A i \in 1 .. Len(t) : u[i] = r[Len(s) + i]
      BY <1>1
    <2> HIDE DEF u
    <2>2. u = t
      BY <1>1, <2>1, SeqEqual
    <2> QED BY <2>2 DEF u
  <1>4. s # <<>> => Len(s) \in 1 .. Len(r)
    BY <1>1, EmptySeq
  <1> QED BY <1>2, <1>3, <1>4 DEF r

(* With one application thread, whatever it calls and however long it      *)
(* waits, the queue is a channel that hands over the oldest events in one  *)
(* step: every step of MessageQueue is a Send, a Receive or none of its    *)
(* concern (MessageQueue.cpp:51-119).                                      *)
THEOREM QueueImplementsChannel ==
  ASSUME NEW c, Consumers = {c}
  PROVE  Spec => ImplementsChannel
  <1>1. Application = c
    BY DEF Application
  <1> DEFINE s == chain[c] \o queue
             got == received[c]
  <1>2. Init => Channel!Init
    BY <1>1, ConcatEmptySeq, EmptySeq DEF Init, Channel!Init
  <1>3. TypeInv /\ [Next]_vars => [Channel!Next]_Channel!cvars
    <2> SUFFICES ASSUME TypeInv, [Next]_vars
                 PROVE  Channel!Next \/ UNCHANGED Channel!cvars
      OBVIOUS
    <2>1. /\ chain[c] \in Seq(Messages) /\ queue \in Seq(Messages)
          /\ received[c] \in Seq(Messages)
          /\ DOMAIN chain = {c} /\ DOMAIN received = {c}
      BY DEF TypeInv, TypeOK
    <2>2. CASE UNCHANGED <<queue, chain, received>>
      BY <2>2, <1>1 DEF Channel!cvars
    <2>3. ASSUME NEW m \in Messages, EnqueueTail(m), UNCHANGED <<chain, received>>
          PROVE  Channel!Next
      <3>1. chain[c] \o Append(queue, m) = Append(chain[c] \o queue, m)
        BY ONLY <2>1, m \in Messages, ConcatProperties, AppendIsConcat,
                ConcatAssociative
      <3>2. Channel!Send
        BY <1>1, <2>3, <3>1 DEF Channel!Send, EnqueueTail
      <3> QED BY <3>2 DEF Channel!Next
    <2>4. ASSUME DequeueHead(c), received' = received
          PROVE  UNCHANGED Channel!cvars
      <3>1. /\ queue # <<>> /\ queue' = Tail(queue)
            /\ chain'[c] = Append(chain[c], Head(queue))
        BY <2>1, <2>4 DEF DequeueHead
      <3>2. Append(chain[c], Head(queue)) \o Tail(queue) = chain[c] \o queue
        <4> DEFINE x == Head(queue)
                   t == Tail(queue)
        <4>1. /\ x \in Messages /\ t \in Seq(Messages)
              /\ <<x>> \in Seq(Messages) /\ queue = <<x>> \o t
          BY <2>1, <3>1
        <4> HIDE DEF x, t
        <4>2. Append(chain[c], x) = chain[c] \o <<x>>
          BY <2>1, <4>1, AppendIsConcat
        <4>3. (chain[c] \o <<x>>) \o t = chain[c] \o (<<x>> \o t)
          BY ONLY <2>1, <4>1, ConcatAssociative
        <4>4. Append(chain[c], x) \o t = chain[c] \o queue
          BY ONLY <4>1, <4>2, <4>3, Zenon
        <4> QED BY <4>4 DEF x, t
      <3> QED BY <1>1, <2>4, <3>1, <3>2 DEF Channel!cvars
    <2>5. ASSUME PopLeave(c)
          PROVE  Channel!Next \/ UNCHANGED Channel!cvars
      <3>1. /\ queue' = queue /\ chain'[c] = <<>>
            /\ received'[c] = received[c] \o chain[c]
        BY <2>1, <2>5 DEF PopLeave
      <3>2. <<>> \o queue = queue
        BY <2>1, ConcatEmptySeq
      <3>3. CASE chain[c] = <<>>
        <4>1. received[c] \o <<>> = received[c]
          BY <2>1, ConcatEmptySeq
        <4> QED BY <1>1, <3>1, <3>2, <3>3, <4>1 DEF Channel!cvars
      <3>4. CASE chain[c] # <<>>
        <4> DEFINE k == Len(chain[c])
        <4>1. /\ k \in 1 .. Len(chain[c] \o queue)
              /\ SubSeq(chain[c] \o queue, 1, k) = chain[c]
              /\ SubSeq(chain[c] \o queue, k + 1, Len(chain[c] \o queue)) = queue
          BY ONLY <2>1, <3>4, SplitConcat
        <4> HIDE DEF k
        <4>2. Channel!Receive
          BY ONLY <1>1, <3>1, <3>2, <4>1 DEF Channel!Receive
        <4> QED BY <4>2 DEF Channel!Next
      <3> QED BY <3>3, <3>4
    <2>6. ASSUME NEW p \in Producers, ProducerStep(p)
          PROVE  Channel!Next \/ UNCHANGED Channel!cvars
      <3>1. CASE Push(p)
        <4>1. CASE IsFull
          BY <2>2, <3>1, <4>1 DEF Push, PushWait
        <4>2. CASE ~IsFull
          <5>1. pushes[p] + 1 \in 1 .. MaxPush
            BY <3>1, QueueAssumption DEF Push, TypeInv, TypeOK
          <5>2. <<p, pushes[p] + 1>> \in Messages
            BY <5>1 DEF Messages
          <5> QED BY <2>3, <3>1, <4>2, <5>2 DEF Push, PushDone
        <4> QED BY <4>1, <4>2
      <3>2. CASE PushWake(p)
        <4>1. Current(p) \in Messages
          BY <3>2, CurrentMessage DEF PushWake, TypeInv, Pushing
        <4> QED BY <2>2, <2>3, <3>2, <4>1 DEF PushWake, PushWait, PushDone
      <3> QED BY <2>6, <3>1, <3>2 DEF ProducerStep
    <2>7. ASSUME ConsumerStep(c)
          PROVE  Channel!Next \/ UNCHANGED Channel!cvars
      BY <2>2, <2>4, <2>5, <2>7
         DEF ConsumerStep, PopEnter, PopClaim, PopDequeue, PopWake, PopTake,
             PopWait, PopGiveUp, PopTimeout, PopMore
    <2>8. CASE Pulse \/ UNCHANGED vars
      BY <2>2, <2>8 DEF Pulse, vars
    <2> QED BY <2>6, <2>7, <2>8 DEF Next
  <1>4. Init => TypeInv
    BY InitType
  <1>5. TypeInv /\ [Next]_vars => TypeInv'
    BY StepType
  <1> QED BY <1>2, <1>3, <1>4, <1>5, PTL
          DEF Spec, ImplementsChannel, Channel!Spec
=============================================================================
