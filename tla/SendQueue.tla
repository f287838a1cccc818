------------------------------ MODULE SendQueue ------------------------------
(***************************************************************************)
(* The send queue of a connection: ServiceImpl::PushQueue and PopQueue     *)
(* (Src/ServiceImpl.cpp:35-80) over an ACE_Message_Queue kept in the order *)
(* of msg_priority.  The priority is the tick at which the block may be    *)
(* sent, 0 for at once; ticks are the low bits of the time in milliseconds *)
(* and wrap around.                                                        *)
(*                                                                         *)
(* An application thread pushes at any moment, also between two steps of   *)
(* the pop that the timer of the connection makes.  The delay a block was  *)
(* sent with, how much of it is left, and for how long the block could     *)
(* have been sent, are kept with it for the properties: the code has only  *)
(* the tick.                                                               *)
(***************************************************************************)
EXTENDS Integers, Sequences, FiniteSets, SequencesExt, FiniteSetsExt

CONSTANTS Modulus,     \* number of values of a tick (2^32)
          Day,         \* MaxDifferenceTick
          Proactor,    \* the connection is a ProactorService
          Delays,      \* delays an application thread asks for, any uint32
          Capacity,    \* high water mark of the queue, in blocks
          MaxRequests  \* bound: sends

ASSUME SendQueueAssumption ==
           /\ {Modulus, Day, Capacity} \subseteq Nat \ {0}
           /\ 2 * Day < Modulus
           /\ Proactor \in BOOLEAN
           /\ Delays \subseteq 1 .. Modulus - 1 /\ MaxRequests \in Nat

VARIABLES now,      \* GetTick
          fired,    \* has the timer expired since the tick count changed?
          queue,    \* _block_queue, head first
          pc,       \* the timer's thread: idle, pop or back
          current,  \* current_tick
          chain,    \* the blocks of *param_block
          held,     \* the block that goes back into the queue
          sent,     \* the blocks PopQueue has returned
          lost,     \* blocks the queue had no room for
          requests  \* number of sends

vars == <<now, fired, queue, pc, current, chain, held, sent, lost, requests>>

Ids == 1 .. MaxRequests
Nothing == [id |-> 0, tick |-> 0, delay |-> 0, wait |-> 0, late |-> 0]

Init == /\ now \in 0 .. Modulus - 1
        /\ fired = FALSE
        /\ queue = <<>>
        /\ pc = "idle"
        /\ current = 0
        /\ chain = {}
        /\ held = Nothing
        /\ sent = {}
        /\ lost = {}
        /\ requests = 0

-----------------------------------------------------------------------------
(* enqueue_i: behind the last item of greater or equal priority. *)
After(block) == LET before == {i \in DOMAIN queue : queue[i].tick >= block.tick}
                IN  IF before = {} THEN 0 ELSE Max(before)

(* Fault: the order in which blocks were pushed is kept. *)
Enqueue_Fifo(block) == IF Len(queue) < Capacity
                       THEN queue' = Append(queue, block) /\ UNCHANGED lost
                       ELSE lost' = lost \cup {block.id} /\ UNCHANGED queue

(* enqueue_prio without waiting. *)
Enqueue(block) == IF Len(queue) < Capacity
                  THEN queue' = InsertAt(queue, After(block) + 1, block)
                       /\ UNCHANGED lost
                  ELSE lost' = lost \cup {block.id} /\ UNCHANGED queue

(* Fault: of the highest priority, as dequeue_head would take it. *)
Earliest_AtHead == 1

(* dequeue_prio_i: of the items of the lowest priority, which are the last *)
(* ones, the earliest.                                                     *)
Earliest == CHOOSE i \in DOMAIN queue :
               /\ queue[i].tick = Last(queue).tick
               /\ \A j \in 1 .. i - 1 : queue[j].tick # Last(queue).tick

(* Fault: a plain comparison, which the last day of the cycle upsets. *)
IsDue_Unsigned(tick) == current >= tick

(* The difference is an int, of the width of a tick. *)
Difference(tick) == LET d == (current - tick) % Modulus
                    IN  IF 2 * d >= Modulus THEN d - Modulus ELSE d

IsDue(tick) == ~(Difference(tick) < 0 /\ Difference(tick) > -Day)

-----------------------------------------------------------------------------
(* SendRequest, for a delay of 0, and SendReserve.  The proactor's         *)
(* accessor makes an IntervalSend of the one and a ReserveSend of the      *)
(* other; the reactor's makes an IntervalSend of both.                     *)
PushQueue(delay) ==
    /\ requests < MaxRequests
    /\ requests' = requests + 1
    /\ Enqueue([id |-> requests', delay |-> delay, wait |-> delay, late |-> 0,
                tick |-> IF Proactor /\ delay > 0 THEN (now + delay) % Modulus
                                                  ELSE 0])
    /\ UNCHANGED <<now, fired, pc, current, chain, held, sent>>

(* PopQueue reads the clock once ... *)
PopBegin == /\ pc = "idle"
            /\ current' = now
            /\ fired' = TRUE
            /\ pc' = "pop"
            /\ UNCHANGED <<now, queue, chain, held, sent, lost, requests>>

(* ... and takes blocks until one is not due yet, which goes back, ... *)
PopBlock == /\ pc = "pop"
            /\ queue # <<>>
            /\ LET block == queue[Earliest]
               IN  IF IsDue(block.tick)
                   THEN /\ chain' = chain \cup {block}
                        /\ UNCHANGED <<pc, held>>
                   ELSE /\ held' = block
                        /\ pc' = "back"
                        /\ UNCHANGED chain
            /\ queue' = RemoveAt(queue, Earliest)
            /\ UNCHANGED <<now, fired, current, sent, lost, requests>>

Return == /\ sent' = sent \cup {block.id : block \in chain}
          /\ chain' = {}
          /\ pc' = "idle"

(* Fault: the block is let go. *)
PutBack_Forgets == /\ pc = "back"
                   /\ held' = Nothing
                   /\ Return
                   /\ UNCHANGED <<now, fired, queue, current, lost, requests>>

(* ... or lost when the queue was filled meanwhile; nobody looks. *)
PutBack == /\ pc = "back"
           /\ Enqueue(held)
           /\ held' = Nothing
           /\ Return
           /\ UNCHANGED <<now, fired, current, requests>>

PopEmpty == /\ pc = "pop"
            /\ queue = <<>>
            /\ Return
            /\ UNCHANGED <<now, fired, queue, current, held, lost, requests>>

Pop == PopBegin \/ PopBlock \/ PutBack \/ PopEmpty

(* A tick passes.  The timer expires at least once a tick. *)
Aged(block) == [block EXCEPT !.wait = IF @ > 0 THEN @ - 1 ELSE 0,
                             !.late = IF block.wait = 0 /\ @ < Modulus
                                      THEN @ + 1 ELSE @]

Tick == /\ fired
        /\ now' = (now + 1) % Modulus
        /\ fired' = FALSE
        /\ queue' = [i \in DOMAIN queue |-> Aged(queue[i])]
        /\ held' = IF held = Nothing THEN Nothing ELSE Aged(held)
        /\ UNCHANGED <<pc, current, chain, sent, lost, requests>>

Next == \/ \E delay \in Delays \cup {0} : PushQueue(delay)
        \/ Pop \/ Tick

Spec == Init /\ [][Next]_vars

FairSpec == Spec /\ WF_vars(Pop) /\ WF_vars(Tick)

-----------------------------------------------------------------------------
Blocks == [id : Ids, tick : 0 .. Modulus - 1, delay : Nat, wait : Nat,
           late : 0 .. Modulus]

TypeOK == /\ now \in 0 .. Modulus - 1 /\ current \in 0 .. Modulus - 1
          /\ fired \in BOOLEAN
          /\ queue \in Seq(Blocks) /\ Len(queue) <= Capacity
          /\ pc \in {"idle", "pop", "back"}
          /\ chain \subseteq Blocks
          /\ held \in Blocks \cup {Nothing} /\ (pc = "back" <=> held # Nothing)
          /\ sent \subseteq Ids /\ lost \subseteq Ids
          /\ requests \in 0 .. MaxRequests

(* The pop takes no block of the proactor's ReserveSend                    *)
(* (ProactorService.cpp:192-195) before its delay is over, at every value  *)
(* of the tick count, the ones around which it wraps included, for delays  *)
(* that ServiceImpl.cpp:53-59 can tell from a tick long past: a day in all *)
(* with the tick by which the pop's clock may be behind the sender's.      *)
NeverEarly == \A block \in chain :
                 Proactor /\ block.delay < Day - 1 => block.wait = 0

(* What the facade promises of every connection and every delay: "Send     *)
(* buffer delayed time" (NetworkFacade.h:176).  The reactor's accessor     *)
(* drops the delay (ReactorServiceAccessor.cpp:53-58), and the proactor    *)
(* takes one of a day or more for a tick long past.                        *)
DelayKept == \A block \in chain : block.wait = 0

(* The queue stays in the order dequeue_prio relies on, whatever goes back *)
(* into it: the block with the lowest tick is last.  It never holds more   *)
(* than there is room for (ServiceImpl.cpp:35-59).                         *)
Sorted == \A i, j \in DOMAIN queue : i < j => queue[i].tick >= queue[j].tick

QueueOK == TypeOK /\ Sorted

(* A block that could be sent is sent by the next expiry of the timer or,  *)
(* when it came too late for that pop, the one after, but for two cases    *)
(* that the wrap of the tick count makes: in the last day before the wrap  *)
(* tick 0 counts as "not yet" and holds up all others, and after the wrap  *)
(* the blocks whose tick has wrapped hold up, until they are due, those    *)
(* from before the wrap (ServiceImpl.cpp:53-59).                           *)
LastDay == now >= Modulus - Day \/ now <= 1

OnTime == \A i \in DOMAIN queue :
             queue[i].late > 2 => LastDay \/ queue[i].tick > now

(* However the pop and the pushes interleave, each block is in one place:  *)
(* queued, in the pop's hands, sent or refused by a full queue.            *)
ExactlyOnce == \A id \in Ids :
    Cardinality({i \in DOMAIN queue : queue[i].id = id})
    + Cardinality({block \in chain \cup {held} : block.id = id})
    + Cardinality({s \in {1} : id \in sent}) + Cardinality({s \in {1} : id \in lost})
      = IF id <= requests THEN 1 ELSE 0

(* Every block leaves the queue, also one that the wrap delays.            *)
SentEventually == \A id \in Ids : (requests >= id) ~> (id \in sent \cup lost)
=============================================================================
