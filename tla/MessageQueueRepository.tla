----------------------- MODULE MessageQueueRepository -----------------------
(***************************************************************************)
(* The event queues of an application, by id (Src/MessageQueueRepository.  *)
(* cpp), and the auto-reset event they share: a push into any queue        *)
(* signals it, and a thread that pops from all queues waits for it when it *)
(* has found them all empty, one after the other.                          *)
(*                                                                         *)
(* A queue is taken at the level of its operations (MessageQueue has what  *)
(* is inside): a push waits while the queue is full and fails when a pulse *)
(* or, once the queue was pulsed, room wakes it.                           *)
(*                                                                         *)
(* Which thread calls what, and when, is for the module that extends this  *)
(* one: a call begins by sending the thread to "push", "scan" or "pulse"   *)
(* and ends at the place "then" has for it.                                *)
(***************************************************************************)
EXTENDS Naturals, Sequences, FiniteSets, SequencesExt

CONSTANTS Queues,     \* the queues in the order of m_queueContainer
          Threads,
          HighWater   \* high water mark of each queue, in messages

ASSUME RepositoryAssumption == /\ Queues \in Seq(ToSet(Queues))
                               /\ Queues # <<>> /\ IsInjective(Queues)
                               /\ HighWater \in Nat \ {0}

VARIABLES queue,        \* the messages of each queue
          pulsed,       \* queues in state PULSED, which nothing ends
          woken,        \* threads that a pulse woke while they waited for room
          deleted,      \* DeleteAll was called
          event,        \* the ACE_Event of _eventNotiStrategy is signalled
          suspendPush,  \* m_suspendPush
          popProgress,  \* m_popProgress
          pc,           \* where each thread is
          then,         \* where it goes on when its call returns
          at,           \* the position of its loop over the queues
          message,      \* the queue and the message it pushes
          chain,        \* what it has popped in this call
          received,     \* messages that a call of some thread has returned
          refused       \* messages whose push has failed

rvars == <<queue, pulsed, woken, deleted, event, suspendPush, popProgress, pc,
           then, at, message, chain, received, refused>>

Ids == ToSet(Queues)
Here(t) == Queues[at[t]]
None == <<>>

Goto(t, place) == pc' = [pc EXCEPT ![t] = place]

Return(t) == /\ Goto(t, then[t])
             /\ then' = [then EXCEPT ![t] = "idle"]
             /\ at' = [at EXCEPT ![t] = 1]

RepositoryInit == /\ queue = [q \in Ids |-> <<>>]
                  /\ pulsed = {} /\ woken = {} /\ deleted = FALSE
                  /\ event = FALSE
                  /\ suspendPush = FALSE /\ popProgress = FALSE
                  /\ pc = [t \in Threads |-> "idle"]
                  /\ then = [t \in Threads |-> "idle"]
                  /\ at = [t \in Threads |-> 1]
                  /\ message = [t \in Threads |-> None]
                  /\ chain = [t \in Threads |-> <<>>]
                  /\ received = {}
                  /\ refused = {}

-----------------------------------------------------------------------------
(* Calls *)

PushCall(t, q, m, return) == /\ Goto(t, "push")
                             /\ message' = [message EXCEPT ![t] = <<q, m>>]
                             /\ then' = [then EXCEPT ![t] = return]

LoopCall(t, place, return) == /\ Goto(t, place)
                              /\ then' = [then EXCEPT ![t] = return]

-----------------------------------------------------------------------------
(* Push *)

(* Fault: nobody who waits is told. *)
Enqueue_Silent(q, m) == /\ Len(queue[q]) < HighWater
                        /\ queue' = [queue EXCEPT ![q] = Append(@, m)]
                        /\ event' = event

(* enqueue_tail, with the notification, under the lock of the queue. *)
Enqueue(q, m) == /\ Len(queue[q]) < HighWater
                 /\ queue' = [queue EXCEPT ![q] = Append(@, m)]
                 /\ event' = TRUE

Refuse(t) == /\ refused' = refused \cup {message[t][2]}
             /\ message' = [message EXCEPT ![t] = None]
             /\ woken' = woken \ {t}
             /\ Return(t)

Enqueued(t) == /\ Enqueue(message[t][1], message[t][2])
               /\ message' = [message EXCEPT ![t] = None]
               /\ Return(t)
               /\ UNCHANGED <<woken, refused>>

PushRefused(t) == /\ pc[t] = "push"
                  /\ suspendPush
                  /\ Refuse(t)
                  /\ UNCHANGED <<queue, pulsed, deleted, event, suspendPush,
                                 popProgress, chain, received>>

PushFound(t) == /\ pc[t] = "push"
                /\ ~suspendPush
                /\ Goto(t, "enqueue")
                /\ UNCHANGED <<queue, pulsed, woken, deleted, event,
                               suspendPush, popProgress, then, at, message,
                               chain, received, refused>>

(* Fault: a push does not wait for room. *)
PushEnqueue_NoWait(t) == /\ pc[t] = "enqueue"
                         /\ \/ Enqueued(t)
                            \/ /\ Len(queue[message[t][1]]) >= HighWater
                               /\ Refuse(t)
                               /\ UNCHANGED <<queue, event>>
                         /\ UNCHANGED <<pulsed, deleted, suspendPush,
                                        popProgress, chain, received>>

PushEnqueue(t) == /\ pc[t] = "enqueue"
                  /\ \/ ~deleted /\ Enqueued(t)
                     \/ /\ deleted \/ Len(queue[message[t][1]]) >= HighWater
                        /\ Goto(t, IF deleted THEN "undefined" ELSE "full")
                        /\ UNCHANGED <<queue, event, then, at, message, woken,
                                       refused>>
                  /\ UNCHANGED <<pulsed, deleted, suspendPush, popProgress,
                                 chain, received>>

(* Woken by room or by a pulse. *)
PushWake(t) == /\ pc[t] = "full"
               /\ LET q == message[t][1]
                  IN  \/ q \notin pulsed /\ Enqueued(t)
                      \/ /\ t \in woken \/ (q \in pulsed /\ Len(queue[q]) < HighWater)
                         /\ Refuse(t)
                         /\ UNCHANGED <<queue, event>>
               /\ UNCHANGED <<pulsed, deleted, suspendPush, popProgress,
                              chain, received>>

-----------------------------------------------------------------------------
(* PopAll over all queues *)

(* IsAllEmpty *)
Scan(t) == /\ pc[t] = "scan" /\ ~deleted
           /\ IF queue[Here(t)] = <<>> /\ at[t] < Len(Queues)
              THEN at' = [at EXCEPT ![t] = @ + 1] /\ UNCHANGED pc
              ELSE /\ Goto(t, IF queue[Here(t)] = <<>> THEN "wait" ELSE "enter")
                   /\ at' = [at EXCEPT ![t] = 1]
           /\ UNCHANGED <<queue, pulsed, woken, deleted, event, suspendPush,
                          popProgress, then, message, chain, received, refused>>

(* The queues that a thread is about to look into were deleted: what it    *)
(* does then is not defined, and the thread leaves the model.              *)
Dangling(t) == /\ pc[t] \in {"scan", "drain", "take"} /\ deleted
               /\ Goto(t, "undefined")
               /\ UNCHANGED <<queue, pulsed, woken, deleted, event, suspendPush,
                              popProgress, then, at, message, chain, received,
                              refused>>

(* Waiting takes the signal away; a signal that finds nobody stays. *)
Wait(t) == /\ pc[t] = "wait"
           /\ event
           /\ event' = FALSE
           /\ Goto(t, "enter")
           /\ UNCHANGED <<queue, pulsed, woken, deleted, suspendPush,
                          popProgress, then, at, message, chain, received,
                          refused>>

WaitTimeout(t) == /\ pc[t] = "wait"
                  /\ Goto(t, "enter")
                  /\ UNCHANGED <<queue, pulsed, woken, deleted, event,
                                 suspendPush, popProgress, then, at, message,
                                 chain, received, refused>>

(* m_popProgress is tested in one step and set in another. *)
Enter(t) == /\ pc[t] = "enter"
            /\ IF popProgress THEN Return(t)
               ELSE Goto(t, "claim") /\ UNCHANGED <<then, at>>
            /\ UNCHANGED <<queue, pulsed, woken, deleted, event, suspendPush,
                           popProgress, message, chain, received, refused>>

Claim(t) == /\ pc[t] = "claim"
            /\ popProgress' = TRUE
            /\ Goto(t, "drain")
            /\ UNCHANGED <<queue, pulsed, woken, deleted, event, suspendPush,
                           then, at, message, chain, received, refused>>

NextQueue(t) == IF at[t] < Len(Queues)
                THEN at' = [at EXCEPT ![t] = @ + 1] /\ Goto(t, "drain")
                ELSE Goto(t, "leave") /\ UNCHANGED at

(* PopAllImpl: a queue from which another thread is popping is passed      *)
(* over (MessageQueue::PopAll tests that and sets it in two steps, and the *)
(* first to leave resets it: two threads may well be in one queue) ...     *)
Visit(t) == /\ pc[t] = "drain" /\ ~deleted
            /\ \/ Goto(t, "take") /\ UNCHANGED at
               \/ /\ \E u \in Threads \ {t} : pc[u] = "take" /\ at[u] = at[t]
                  /\ NextQueue(t)
            /\ UNCHANGED <<queue, pulsed, woken, deleted, event, suspendPush,
                           popProgress, then, message, chain, received, refused>>

(* ... and the others are emptied. *)
Take(t) == /\ pc[t] = "take" /\ ~deleted
           /\ IF queue[Here(t)] # <<>>
              THEN /\ chain' = [chain EXCEPT ![t] = Append(@, Head(queue[Here(t)]))]
                   /\ queue' = [queue EXCEPT ![Here(t)] = Tail(@)]
                   /\ UNCHANGED <<pc, at>>
              ELSE NextQueue(t) /\ UNCHANGED <<queue, chain>>
           /\ UNCHANGED <<pulsed, woken, deleted, event, suspendPush,
                          popProgress, then, message, received, refused>>

(* Fault: a call that leaves last clears what the other has popped. *)
Leave_Forgets(t) == /\ pc[t] = "leave"
                    /\ popProgress' = FALSE
                    /\ received' = received \cup ToSet(chain[t])
                    /\ chain' = [u \in Threads |-> <<>>]
                    /\ Return(t)
                    /\ UNCHANGED <<queue, pulsed, woken, deleted, event,
                                   suspendPush, message, refused>>

Leave(t) == /\ pc[t] = "leave"
            /\ popProgress' = FALSE
            /\ received' = received \cup ToSet(chain[t])
            /\ chain' = [chain EXCEPT ![t] = <<>>]
            /\ Return(t)
            /\ UNCHANGED <<queue, pulsed, woken, deleted, event, suspendPush,
                           message, refused>>

-----------------------------------------------------------------------------
(* PulseAll: the queues one by one, and then the event. *)
Pulse(t) == /\ pc[t] = "pulse"
            /\ pulsed' = pulsed \cup {Here(t)}
            /\ woken' = woken \cup {u \in Threads : pc[u] = "full"
                                                 /\ message[u][1] = Here(t)}
            /\ IF at[t] < Len(Queues)
               THEN at' = [at EXCEPT ![t] = @ + 1] /\ UNCHANGED pc
               ELSE Goto(t, "notify") /\ UNCHANGED at
            /\ UNCHANGED <<queue, deleted, event, suspendPush, popProgress,
                           then, message, chain, received, refused>>

Notify(t) == /\ pc[t] = "notify"
             /\ event' = TRUE
             /\ Return(t)
             /\ UNCHANGED <<queue, pulsed, woken, deleted, suspendPush,
                            popProgress, message, chain, received, refused>>

(* Each thread goes on with the call it is in. *)
RepositoryStep(t) == \/ PushRefused(t) \/ PushFound(t) \/ PushEnqueue(t)
                     \/ PushWake(t) \/ Scan(t) \/ Wait(t) \/ Enter(t)
                     \/ Claim(t) \/ Visit(t) \/ Take(t) \/ Leave(t)
                     \/ Dangling(t) \/ Pulse(t) \/ Notify(t)
=============================================================================
