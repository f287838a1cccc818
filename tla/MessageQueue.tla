---------------------------- MODULE MessageQueue ----------------------------
(***************************************************************************)
(* The event queue between the network half and the application half:      *)
(* MessageQueue (Src/MessageQueue.cpp) over ACE_Message_Queue.  Network    *)
(* threads Push, application threads Pop or PopAll.  The ACE queue is a    *)
(* monitor: one mutex and two condition variables, with a high and a low   *)
(* water mark in bytes.  Pop and PopAll try to exclude each other with the *)
(* flag m_popProgress, tested in one step and set in the next.             *)
(***************************************************************************)
EXTENDS Naturals, Sequences, FiniteSets, SequencesExt

CONSTANTS Producers,  \* network threads
          Consumers,  \* application threads
          MaxPush,    \* bound: pushes per producer
          Size,       \* message -> its bytes, data block and header
          HighWater,  \* high_water_mark_, in bytes
          LowWater,   \* low_water_mark_, in bytes
          Pulsing     \* may the application call Pulse?

Messages == Producers \X (1 .. MaxPush)

ASSUME QueueAssumption == /\ Producers \cap Consumers = {}
                          /\ IsFiniteSet(Producers \cup Consumers)
                          /\ MaxPush \in Nat
                          /\ Size \in [Messages -> Nat \ {0}]
                          /\ HighWater \in Nat \ {0}
                          /\ LowWater \in 0 .. HighWater
                          /\ Pulsing \in BOOLEAN

VARIABLES queue,         \* messages between head_ and tail_
          state,         \* state_: ACTIVATED or PULSED
          popProgress,   \* m_popProgress
          notEmpty,      \* consumers asleep on not_empty_cond_
          notFull,       \* producers asleep on not_full_cond_
          pc,            \* where each thread is
          pushes,        \* producer -> number of Push calls made
          call,          \* consumer -> the call it is in
          chain,         \* consumer -> blocks dequeued by the call so far
          received,      \* consumer -> everything its calls have returned
          refused        \* messages whose Push returned false

vars == <<queue, state, popProgress, notEmpty, notFull, pc, pushes, call,
          chain, received, refused>>

Calls == [all : BOOLEAN, forever : BOOLEAN]

(* The message a producer is pushing, or has pushed last. *)
Current(p) == <<p, pushes[p]>>

Init == /\ queue = <<>>
        /\ state = "ACTIVATED"
        /\ popProgress = FALSE
        /\ notEmpty = {}
        /\ notFull = {}
        /\ pc = [t \in Producers \cup Consumers |-> "out"]
        /\ pushes = [p \in Producers |-> 0]
        /\ call = [c \in Consumers |-> [all |-> TRUE, forever |-> TRUE]]
        /\ chain = [c \in Consumers |-> <<>>]
        /\ received = [c \in Consumers |-> <<>>]
        /\ refused = {}

-----------------------------------------------------------------------------
(* The ACE monitor *)

(* cur_bytes_ of a queue that holds q. *)
Bytes(q) == LET sum[i \in 0 .. Len(q)] ==
                    IF i = 0 THEN 0 ELSE sum[i - 1] + Size[q[i]]
            IN  sum[Len(q)]

(* A message of any size is let in below the mark, and takes it past it. *)
IsFull == Bytes(queue) >= HighWater

(* Signalling a condition variable wakes one sleeper, if there is one. *)
Signal(sleepers) == IF sleepers = {} THEN {{}}
                    ELSE {sleepers \ {t} : t \in sleepers}

(* Faults: the message goes to the head; the message wakes nobody. *)
EnqueueTail_AtHead(m) == /\ queue' = <<m>> \o queue
                         /\ notEmpty' \in Signal(notEmpty)

EnqueueTail_Silent(m) == /\ queue' = Append(queue, m)
                         /\ UNCHANGED notEmpty

EnqueueTail(m) == /\ queue' = Append(queue, m)
                  /\ notEmpty' \in Signal(notEmpty)

(* Fault: a producer is woken only when the queue stops being full. *)
DequeueHead_LateSignal(c) ==
    /\ queue # <<>>
    /\ chain' = [chain EXCEPT ![c] = Append(@, Head(queue))]
    /\ queue' = Tail(queue)
    /\ notFull' \in IF IsFull /\ Bytes(queue') <= LowWater
                    THEN Signal(notFull)
                    ELSE {notFull}

(* One producer is signalled, and only down to the low water mark, however *)
(* much room the message leaves behind.                                    *)
DequeueHead(c) ==
    /\ queue # <<>>
    /\ chain' = [chain EXCEPT ![c] = Append(@, Head(queue))]
    /\ queue' = Tail(queue)
    /\ notFull' \in IF Bytes(queue') <= LowWater THEN Signal(notFull)
                                                ELSE {notFull}

-----------------------------------------------------------------------------
(* Push *)

PushDone(p, m) == /\ EnqueueTail(m)
                  /\ pc' = [pc EXCEPT ![p] = "out"]
                  /\ UNCHANGED <<notFull, refused>>

PushWait(p) == /\ notFull' = notFull \cup {p}
               /\ pc' = [pc EXCEPT ![p] = "full"]
               /\ UNCHANGED <<queue, notEmpty, refused>>

(* enqueue_tail without a timeout: wait while the queue is full. *)
Push(p) == /\ pc[p] = "out"
           /\ pushes[p] < MaxPush
           /\ pushes' = [pushes EXCEPT ![p] = @ + 1]
           /\ IF IsFull THEN PushWait(p) ELSE PushDone(p, <<p, pushes[p] + 1>>)
           /\ UNCHANGED <<state, popProgress, call, chain, received>>

(* Back from not_full_cond_: wait_not_full_cond gives up when the queue is *)
(* no longer ACTIVATED, and otherwise tests again.                         *)
PushWake(p) ==
    /\ pc[p] = "full"
    /\ p \notin notFull
    /\ IF state # "ACTIVATED"
       THEN /\ refused' = refused \cup {Current(p)}
            /\ pc' = [pc EXCEPT ![p] = "out"]
            /\ UNCHANGED <<queue, notEmpty, notFull>>
       ELSE IF IsFull THEN PushWait(p) ELSE PushDone(p, Current(p))
    /\ UNCHANGED <<state, popProgress, pushes, call, chain, received>>

-----------------------------------------------------------------------------
(* Pop and PopAll *)

(* The test of m_popProgress; a call that finds it set returns false. *)
PopEnter(c) == /\ pc[c] = "out"
               /\ ~popProgress
               /\ call' \in {[call EXCEPT ![c] = k] : k \in Calls}
               /\ pc' = [pc EXCEPT ![c] = "claim"]
               /\ UNCHANGED <<queue, state, popProgress, notEmpty, notFull,
                              pushes, chain, received, refused>>

(* The constructor of InterlockedGuard. *)
PopClaim(c) == /\ pc[c] = "claim"
               /\ popProgress' = TRUE
               /\ pc' = [pc EXCEPT ![c] = "dequeue"]
               /\ UNCHANGED <<queue, state, notEmpty, notFull, pushes, call,
                              chain, received, refused>>

PopTake(c) == /\ DequeueHead(c)
              /\ pc' = [pc EXCEPT ![c] = IF call[c].all THEN "more"
                                                        ELSE "leave"]
              /\ UNCHANGED notEmpty

PopWait(c) == /\ queue = <<>>
              /\ notEmpty' = notEmpty \cup {c}
              /\ pc' = [pc EXCEPT ![c] = "empty"]
              /\ UNCHANGED <<queue, chain, notFull>>

PopDequeue(c) == /\ pc[c] = "dequeue"
                 /\ PopTake(c) \/ PopWait(c)
                 /\ UNCHANGED <<state, popProgress, pushes, call, received,
                                refused>>

PopGiveUp(c) == /\ pc' = [pc EXCEPT ![c] = "leave"]
                /\ UNCHANGED <<queue, notEmpty, notFull, chain>>

(* Back from not_empty_cond_: fail when the queue is no longer ACTIVATED,  *)
(* even with a message in it.                                              *)
PopWake(c) == /\ pc[c] = "empty"
              /\ c \notin notEmpty
              /\ IF state # "ACTIVATED" THEN PopGiveUp(c)
                                        ELSE PopTake(c) \/ PopWait(c)
              /\ UNCHANGED <<state, popProgress, pushes, call, received,
                             refused>>

(* Fault: PopAll stops without the blocks it has already dequeued. *)
PopTimeout_Forgets(c) == /\ pc[c] = "empty"
                         /\ c \in notEmpty
                         /\ ~call[c].forever
                         /\ notEmpty' = notEmpty \ {c}
                         /\ chain' = [chain EXCEPT ![c] = <<>>]
                         /\ pc' = [pc EXCEPT ![c] = "leave"]
                         /\ UNCHANGED <<queue, state, popProgress, notFull,
                                        pushes, call, received, refused>>

(* The deadline of a call with a timeout passes while it sleeps. *)
PopTimeout(c) == /\ pc[c] = "empty"
                 /\ c \in notEmpty
                 /\ ~call[c].forever
                 /\ notEmpty' = notEmpty \ {c}
                 /\ pc' = [pc EXCEPT ![c] = "leave"]
                 /\ UNCHANGED <<queue, state, popProgress, notFull, pushes,
                                call, chain, received, refused>>

(* PopAll: is_empty() ends the loop. *)
PopMore(c) == /\ pc[c] = "more"
              /\ pc' = [pc EXCEPT ![c] = IF queue = <<>> THEN "leave"
                                                         ELSE "dequeue"]
              /\ UNCHANGED <<queue, state, popProgress, notEmpty, notFull,
                             pushes, call, chain, received, refused>>

(* Fault: the flag stays set. *)
PopLeave_FlagKept(c) == /\ pc[c] = "leave"
                        /\ received' = [received EXCEPT ![c] = @ \o chain[c]]
                        /\ chain' = [chain EXCEPT ![c] = <<>>]
                        /\ pc' = [pc EXCEPT ![c] = "out"]
                        /\ UNCHANGED <<queue, state, popProgress, notEmpty,
                                       notFull, pushes, call, refused>>

(* The destructor of InterlockedGuard; the caller gets the chain. *)
PopLeave(c) == /\ pc[c] = "leave"
               /\ popProgress' = FALSE
               /\ received' = [received EXCEPT ![c] = @ \o chain[c]]
               /\ chain' = [chain EXCEPT ![c] = <<>>]
               /\ pc' = [pc EXCEPT ![c] = "out"]
               /\ UNCHANGED <<queue, state, notEmpty, notFull, pushes, call,
                              refused>>

-----------------------------------------------------------------------------
(* Pulse wakes every sleeper; nothing ever makes the queue ACTIVATED again. *)
Pulse == /\ Pulsing
         /\ state' = "PULSED"
         /\ notEmpty' = {}
         /\ notFull' = {}
         /\ UNCHANGED <<queue, popProgress, pc, pushes, call, chain,
                        received, refused>>

ProducerStep(p) == Push(p) \/ PushWake(p)
ConsumerStep(c) == \/ PopEnter(c) \/ PopClaim(c) \/ PopDequeue(c)
                   \/ PopWake(c) \/ PopTimeout(c) \/ PopMore(c) \/ PopLeave(c)

Next == \/ \E p \in Producers : ProducerStep(p)
        \/ \E c \in Consumers : ConsumerStep(c)
        \/ Pulse

Spec == Init /\ [][Next]_vars

(* Threads run: a network thread that was woken returns from its Push, and *)
(* an application thread keeps calling PopAll and is scheduled in it, as   *)
(* EchoBackServer::svc does.  Nobody is obliged to push or pulse.          *)
Fairness == /\ \A p \in Producers : WF_vars(PushWake(p))
            /\ \A c \in Consumers : WF_vars(ConsumerStep(c))

FairSpec == Spec /\ Fairness

-----------------------------------------------------------------------------

TypeOK == /\ queue \in Seq(Messages)
          /\ state \in {"ACTIVATED", "PULSED"}
          /\ popProgress \in BOOLEAN
          /\ notEmpty \subseteq {c \in Consumers : pc[c] = "empty"}
          /\ notFull \subseteq {p \in Producers : pc[p] = "full"}
          /\ pc \in [Producers \cup Consumers ->
                        {"out", "full", "claim", "dequeue", "empty", "more",
                         "leave"}]
          /\ \A p \in Producers : pc[p] \in {"out", "full"}
          /\ \A c \in Consumers : pc[c] # "full"
          /\ pushes \in [Producers -> 0 .. MaxPush]
          /\ call \in [Consumers -> Calls]
          /\ chain \in [Consumers -> Seq(Messages)]
          /\ received \in [Consumers -> Seq(Messages)]
          /\ refused \subseteq Messages

(* Every message handed to Push (MessageQueue.cpp:51-65) is in one place:  *)
(* still in the pushing thread's hands, in the queue, in the chain of one  *)
(* PopAll (84-119), returned to one application thread, or refused.  No    *)
(* interleaving of calls, time-outs and pulses loses or duplicates it.     *)
Places(m) ==
    {<<"queue", i>> : i \in {j \in DOMAIN queue : queue[j] = m}}
    \cup (UNION {{<<"chain", c, i>> : i \in {j \in DOMAIN chain[c] :
                                    chain[c][j] = m}} : c \in Consumers})
    \cup (UNION {{<<"received", c, i>> : i \in {j \in DOMAIN received[c] :
                                    received[c][j] = m}} : c \in Consumers})
    \cup (IF m \in refused THEN {<<"refused">>} ELSE {})
    \cup {<<"pushing", p>> : p \in {q \in Producers : /\ pc[q] = "full"
                                                      /\ Current(q) = m}}

ExactlyOnce == \A m \in Messages :
                  Cardinality(Places(m)) = IF m[2] <= pushes[m[1]] THEN 1 ELSE 0

(* The events of one network thread reach each application thread in the   *)
(* order they were pushed (a connection's Read never overtakes an earlier  *)
(* one), also when several threads share the queue.                        *)
Ordered(s) == \A i, j \in DOMAIN s : i < j /\ s[i][1] = s[j][1]
                                     => s[i][2] < s[j][2]

History(c) == received[c] \o chain[c] \o queue

InOrder == \A c \in Consumers : Ordered(History(c))

(* No wake-up is lost (Message_Queue_T.cpp:1181-1195, 1475-1479,           *)
(* 1706-1757), until a Pulse makes the woken give up instead of taking     *)
(* their turn: a producer sleeps only while messages are left, whose       *)
(* dequeueing wakes it, or while a woken producer has still to push one;   *)
(* and while a consumer sleeps, the queue holds no more than the woken     *)
(* consumers can take.  Room alone wakes nobody: when a large message      *)
(* leaves, one producer is signalled and the others, who would fit, sleep  *)
(* on until the next dequeue.                                              *)
WokenProducers == {p \in Producers : pc[p] = "full"} \ notFull
WokenConsumers == {c \in Consumers : pc[c] = "empty"} \ notEmpty

NoLostWakeup == state = "ACTIVATED" =>
    /\ notFull # {} => queue # <<>> \/ WokenProducers # {}
    /\ notEmpty # {} => Len(queue) <= Cardinality(WokenConsumers)

(* With one application thread, the loop of dequeue_head and is_empty in   *)
(* PopAll (MessageQueue.cpp:96-118) hands over a run of the oldest events  *)
(* as if it took them in one step: blocks already in the thread's chain    *)
(* still count as sent and not received.                                   *)
Application == CHOOSE c \in Consumers : TRUE

Channel == INSTANCE EventChannel WITH
               Events <- Messages,
               chan <- chain[Application] \o queue,
               got <- received[Application]

ImplementsChannel == Channel!Spec

(* An event that is in the queue is handed to the application, as long as  *)
(* its thread keeps calling.                                               *)
EventuallyReceived ==
    \A m \in Messages : (m \in ToSet(queue)) ~>
        \E c \in Consumers : m \in ToSet(received[c])

(* A network thread that finds the queue full gets out of Push again, as   *)
(* long as the application keeps calling.                                  *)
PushReturns == \A p \in Producers : (pc[p] = "full") ~> (pc[p] = "out")
=============================================================================
