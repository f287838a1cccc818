--------------------------- MODULE ReactorService ---------------------------
(***************************************************************************)
(* One connection served by the reactor: ReactorService over ServiceImpl   *)
(* (Src/ReactorService.cpp, Src/ServiceImpl.cpp).  The reactor thread runs *)
(* the handlers (open, handle_timeout, handle_input, handle_close) one at  *)
(* a time; application threads find the service by its id and call         *)
(* IntervalSend or DirectSend, ActiveClose and ReceiveClose on it at any   *)
(* moment.  They share the close flag, the send lock, the send queue and   *)
(* the socket.                                                             *)
(*                                                                         *)
(* A message block is the sequence of its bytes; a byte is named by the    *)
(* thread that asked for it, the number of its request and its place.      *)
(* Only the reactor thread takes the timer lock and the close lock, never  *)
(* twice at a time, so neither is modelled.                                *)
(***************************************************************************)
EXTENDS Naturals, Sequences, FiniteSets, SequencesExt

CONSTANTS Apps,          \* application threads
          Reactor,       \* the reactor thread
          Direct,        \* Send_Mode is eSM_Direct, else eSM_Interval
          Disabling,     \* may the application call CloseStream?
          ReceiveClosing,\* may it call CloseReceiveStream?
          Expiring,      \* ZombieConnectionTerm is not 0
          MaxRequests,   \* bound: sends per application thread
          BlockLen,      \* bytes per requested block
          SendCap,       \* high water mark of the send queue, in blocks
          MaxReads       \* bound: receptions

ASSUME ServiceAssumption == /\ Reactor \notin Apps
                            /\ {Direct, Disabling, ReceiveClosing, Expiring}
                                  \subseteq BOOLEAN
                            /\ {MaxRequests, MaxReads} \subseteq Nat
                            /\ {BlockLen, SendCap} \subseteq Nat \ {0}

VARIABLES pc,         \* where each thread is
          probe,      \* the next comparison of GetCloseFlag
          hand,       \* the block a thread holds
          flag,       \* _closeFlag
          sendLock,   \* _sendLock
          sendQueue,  \* _block_queue
          registered, \* is the id in ReactorServiceMap?
          alive,      \* the object is not deleted
          socket,     \* this side: open, shut (for writing) or closed
          peer,       \* the other side: open or closed
          events,     \* what was pushed to the event queue for this id
          wire,       \* the bytes the kernel has taken, in order
          requests,   \* sends asked for by each application thread
          dropped     \* bytes released unsent, with the reason

vars == <<pc, probe, hand, flag, sendLock, sendQueue, registered, alive,
          socket, peer, events, wire, requests, dropped>>

Threads == Apps \cup {Reactor}

Block(a, n) == [i \in 1 .. BlockLen |-> <<a, n, i>>]
Bytes == Apps \X (1 .. MaxRequests) \X (1 .. BlockLen)
Flags == {"None", "Passive", "Active", "Receive"}

Init == /\ pc = [t \in Threads |-> IF t = Reactor THEN "open" ELSE "idle"]
        /\ probe = [t \in Threads |-> 1]
        /\ hand = [t \in Threads |-> <<>>]
        /\ flag = "None"
        /\ sendLock = FALSE
        /\ sendQueue = <<>>
        /\ registered = FALSE
        /\ alive = TRUE
        /\ socket = "open"
        /\ peer = "open"
        /\ events = <<>>
        /\ wire = <<>>
        /\ requests = [a \in Apps |-> 0]
        /\ dropped = {}

Goto(t, place) == pc' = [pc EXCEPT ![t] = place]

(* An application thread works on the object it found, deleted or not; the *)
(* reactor thread stops using it when it deletes it.                       *)
At(t, place) == pc[t] = place /\ alive

(* A send ends: the reactor goes on with the zombie check. *)
Back(t) == IF t = Reactor THEN "zombie" ELSE "idle"

Drop(bytes, why) == dropped' = dropped \cup (bytes \X {why})

-----------------------------------------------------------------------------
(* ServiceImpl::GetCloseFlag: three comparisons, each atomic, one by one.  *)

Order == <<"Passive", "Active", "Receive">>

Reading == {"tick", "sending", "notified"}

ProbeNext(t) == /\ pc[t] \in Reading
                /\ alive
                /\ probe[t] < 3
                /\ flag # Order[probe[t]]
                /\ probe' = [probe EXCEPT ![t] = @ + 1]
                /\ UNCHANGED <<pc, hand, flag, sendLock, sendQueue, registered,
                               alive, socket, peer, events, wire, requests,
                               dropped>>

(* The comparison that decides: the flag is seen as value. *)
Reads(t, value) == \/ value = Order[probe[t]] /\ flag = value
                   \/ value = "None" /\ probe[t] = 3 /\ flag # Order[3]

Sees(t, value) == Reads(t, value) /\ probe' = [probe EXCEPT ![t] = 1]

-----------------------------------------------------------------------------
(* Fault: one block too many is let in. *)
PushQueue_OffByOne(bytes) ==
    IF Len(sendQueue) > SendCap
    THEN Drop(ToSet(bytes), "full") /\ UNCHANGED sendQueue
    ELSE sendQueue' = Append(sendQueue, bytes) /\ UNCHANGED dropped

(* ServiceImpl::PushQueue, no waiting: false when the queue is full. *)
PushQueue(bytes) ==
    IF Len(sendQueue) >= SendCap
    THEN Drop(ToSet(bytes), "full") /\ UNCHANGED sendQueue
    ELSE sendQueue' = Append(sendQueue, bytes) /\ UNCHANGED dropped

(* _SmartSend, by an application thread (DirectSend) or by the reactor     *)
(* thread (_SendQueuedBlock).                                              *)
SendClosing(t) == /\ At(t, "sending")
                  /\ \E v \in Flags \ {"None"} : Sees(t, v)
                  /\ Drop(ToSet(hand[t]), "closing")
                  /\ hand' = [hand EXCEPT ![t] = <<>>]
                  /\ Goto(t, Back(t))
                  /\ UNCHANGED <<flag, sendLock, sendQueue, registered, alive,
                                 socket, peer, events, wire, requests>>

SendOpen(t) == /\ At(t, "sending")
               /\ Sees(t, "None")
               /\ Goto(t, "lock")
               /\ UNCHANGED <<hand, flag, sendLock, sendQueue, registered,
                              alive, socket, peer, events, wire, requests,
                              dropped>>

(* Fault: the send lock is taken whoever has it. *)
AcquireSendLock_Always(t) == /\ At(t, "lock")
                             /\ sendLock' = TRUE
                             /\ Goto(t, "send")
                             /\ UNCHANGED <<probe, hand, flag, sendQueue,
                                            registered, alive, socket, peer,
                                            events, wire, requests, dropped>>

AcquireSendLock(t) == /\ At(t, "lock")
                      /\ sendLock' = TRUE
                      /\ Goto(t, IF sendLock THEN "requeue" ELSE "send")
                      /\ UNCHANGED <<probe, hand, flag, sendQueue, registered,
                                     alive, socket, peer, events, wire,
                                     requests, dropped>>

(* Fault: rd_ptr is not advanced after a partial send. *)
PeerSend_Rewinds(t) ==
    /\ At(t, "send")
    /\ socket = "open"
    /\ \E k \in 0 .. Len(hand[t]) :
          /\ wire' = wire \o SubSeq(hand[t], 1, k)
          /\ hand' = [hand EXCEPT ![t] = IF k = Len(@) THEN <<>> ELSE @]
    /\ Goto(t, "sent")
    /\ UNCHANGED <<probe, flag, sendLock, sendQueue, registered, alive, socket,
                   peer, events, requests, dropped>>

(* The kernel takes some prefix of the block, or nothing (EWOULDBLOCK). *)
PeerSend(t) == /\ At(t, "send")
               /\ socket = "open"
               /\ \E k \in 0 .. Len(hand[t]) :
                     /\ wire' = wire \o SubSeq(hand[t], 1, k)
                     /\ hand' = [hand EXCEPT ![t] =
                                    SubSeq(@, k + 1, Len(@))]
               /\ Goto(t, "sent")
               /\ UNCHANGED <<probe, flag, sendLock, sendQueue, registered,
                              alive, socket, peer, events, requests, dropped>>

(* send fails for good once either side has closed. *)
PeerSendError(t) == /\ At(t, "send")
                    /\ socket # "open" \/ peer = "closed"
                    /\ Goto(t, "failed")
                    /\ UNCHANGED <<probe, hand, flag, sendLock, sendQueue,
                                   registered, alive, socket, peer, events,
                                   wire, requests, dropped>>

(* Fault: the lock stays taken when the send fails or is partial. *)
ReleaseSendLock_Partly(t) == /\ At(t, "sent") \/ At(t, "failed")
                             /\ sendLock' = (hand[t] # <<>>)
                             /\ Goto(t, IF pc[t] = "failed" THEN "abort"
                                        ELSE IF hand[t] = <<>> THEN Back(t)
                                        ELSE "requeue")
                             /\ UNCHANGED <<probe, hand, flag, sendQueue,
                                            registered, alive, socket, peer,
                                            events, wire, requests, dropped>>

ReleaseSendLock(t) == /\ At(t, "sent") \/ At(t, "failed")
                      /\ sendLock' = FALSE
                      /\ Goto(t, IF pc[t] = "failed" THEN "abort"
                                 ELSE IF hand[t] = <<>> THEN Back(t)
                                 ELSE "requeue")
                      /\ UNCHANGED <<probe, hand, flag, sendQueue, registered,
                                     alive, socket, peer, events, wire,
                                     requests, dropped>>

(* ReserveClose, then the block is released. *)
SendAbort(t) == /\ At(t, "abort")
                /\ flag' = "Passive"
                /\ Drop(ToSet(hand[t]), "closing")
                /\ hand' = [hand EXCEPT ![t] = <<>>]
                /\ Goto(t, Back(t))
                /\ UNCHANGED <<probe, sendLock, sendQueue, registered, alive,
                               socket, peer, events, wire, requests>>

(* The block, or what is left of it, goes to the back of the queue. *)
Requeue(t) == /\ At(t, "requeue")
              /\ PushQueue(hand[t])
              /\ hand' = [hand EXCEPT ![t] = <<>>]
              /\ Goto(t, Back(t))
              /\ UNCHANGED <<probe, flag, sendLock, registered, alive, socket,
                             peer, events, wire, requests>>

Sending(t) == \/ SendClosing(t) \/ SendOpen(t) \/ AcquireSendLock(t)
              \/ PeerSend(t) \/ PeerSendError(t) \/ ReleaseSendLock(t)
              \/ SendAbort(t) \/ Requeue(t)

-----------------------------------------------------------------------------
(* Application threads: Get(id), then a call on the object *)

(* NetworkFacade::SendRequest. *)
SendRequest(a) == /\ pc[a] = "idle"
                  /\ registered
                  /\ requests[a] < MaxRequests
                  /\ requests' = [requests EXCEPT ![a] = @ + 1]
                  /\ hand' = [hand EXCEPT ![a] = Block(a, requests[a] + 1)]
                  /\ Goto(a, IF Direct THEN "sending" ELSE "requeue")
                  /\ UNCHANGED <<probe, flag, sendLock, sendQueue, registered,
                                 alive, socket, peer, events, wire, dropped>>

(* CloseStream and CloseReceiveStream. *)
CloseRequest(a) == /\ pc[a] = "idle"
                   /\ registered
                   /\ \/ Disabling /\ Goto(a, "disable")
                      \/ ReceiveClosing /\ Goto(a, "receive")
                   /\ UNCHANGED <<probe, hand, flag, sendLock, sendQueue,
                                  registered, alive, socket, peer, events,
                                  wire, requests, dropped>>

(* Fault: the close request is dropped. *)
SetCloseFlag_Lost(a) == /\ At(a, "disable") \/ At(a, "receive")
                        /\ Goto(a, "idle")
                        /\ UNCHANGED <<probe, hand, flag, sendLock, sendQueue,
                                       registered, alive, socket, peer, events,
                                       wire, requests, dropped>>

(* ActiveClose, ReceiveClose: the flag is overwritten, whatever it was. *)
SetCloseFlag(a) == /\ At(a, "disable") \/ At(a, "receive")
                   /\ flag' = IF pc[a] = "disable" THEN "Active" ELSE "Receive"
                   /\ Goto(a, "idle")
                   /\ UNCHANGED <<probe, hand, sendLock, sendQueue, registered,
                                  alive, socket, peer, events, wire, requests,
                                  dropped>>

(* The object was deleted between Get and the end of the call: from here   *)
(* on the call has no defined effect, and the thread is not followed.      *)
Dangling(a) == /\ pc[a] \notin {"idle", "undefined"}
               /\ ~alive
               /\ Goto(a, "undefined")
               /\ UNCHANGED <<probe, hand, flag, sendLock, sendQueue,
                              registered, alive, socket, peer, events, wire,
                              requests, dropped>>

AppCall(a) == SetCloseFlag(a) \/ Dangling(a) \/ ProbeNext(a) \/ Sending(a)

App(a) == SendRequest(a) \/ CloseRequest(a) \/ AppCall(a)

-----------------------------------------------------------------------------
(* The reactor thread: opening *)

(* Everything but the reactor thread's place and what was pushed. *)
quiet == <<hand, flag, sendLock, sendQueue, socket, peer, wire, requests,
           dropped>>

PushEvent(e) == events' = Append(events, e)

(* There may be no id left.  The release build, where the assertion is     *)
(* empty, goes on under Invalid_ID: nobody finds the object then, and      *)
(* _UnRegister leaves the map alone.                                       *)
Register == /\ pc[Reactor] = "open"
            /\ registered' \in BOOLEAN
            /\ Goto(Reactor, "establish")
            /\ UNCHANGED <<quiet, probe, alive, events>>

OnEstablish == /\ pc[Reactor] = "establish"
               /\ PushEvent("Establish")
               /\ Goto(Reactor, "register")
               /\ UNCHANGED <<quiet, probe, registered, alive>>

(* The timer and the handler are registered; the acceptor closes the       *)
(* service at once when that fails or when it is suspended.                *)
OpenDone == /\ pc[Reactor] = "register"
            /\ Goto(Reactor, "loop") \/ Goto(Reactor, "closing")
            /\ UNCHANGED <<quiet, probe, registered, alive, events>>

-----------------------------------------------------------------------------
(* The reactor thread: handle_input *)

HandleInput == /\ pc[Reactor] = "loop"
               /\ Len(events) <= MaxReads
               /\ PushEvent("Read")
               /\ UNCHANGED <<quiet, pc, probe, registered, alive>>

(* recv returns 0 or an error: the reactor calls handle_close. *)
HandleInputEnd == /\ pc[Reactor] = "loop"
                  /\ peer = "closed"
                  /\ Goto(Reactor, "closing")
                  /\ UNCHANGED <<quiet, probe, registered, alive, events>>

-----------------------------------------------------------------------------
(* The reactor thread: handle_timeout *)

HandleTimeout == /\ pc[Reactor] = "loop"
                 /\ Goto(Reactor, "tick")
                 /\ UNCHANGED <<quiet, probe, registered, alive, events>>

(* _IsCloseFlagActivate. *)
TickPassive == /\ pc[Reactor] = "tick"
               /\ Sees(Reactor, "Passive")
               /\ Goto(Reactor, "closing")
               /\ UNCHANGED <<quiet, registered, alive, events>>

TickActive == /\ pc[Reactor] = "tick"
              /\ Sees(Reactor, "Active")
              /\ socket' = "shut"
              /\ Goto(Reactor, "shut")
              /\ UNCHANGED <<hand, flag, sendLock, sendQueue, registered,
                             alive, peer, events, wire, requests, dropped>>

(* ReserveClose after _ActiveClose. *)
TickReserve == /\ pc[Reactor] = "shut"
               /\ flag' = "Passive"
               /\ Goto(Reactor, "closing")
               /\ UNCHANGED <<probe, hand, sendLock, sendQueue, registered,
                              alive, socket, peer, events, wire, requests,
                              dropped>>

TickOpen == /\ pc[Reactor] = "tick"
            /\ \E v \in {"None", "Receive"} : Sees(Reactor, v)
            /\ Goto(Reactor, "try")
            /\ UNCHANGED <<quiet, registered, alive, events>>

(* _SendQueuedBlock: look at the send lock, then collect the queue. *)
TrySendLock == /\ pc[Reactor] = "try"
               /\ Goto(Reactor, IF sendLock THEN "zombie" ELSE "pop")
               /\ UNCHANGED <<quiet, probe, registered, alive, events>>

PopQueue == /\ pc[Reactor] = "pop"
            /\ sendQueue # <<>>
            /\ hand' = [hand EXCEPT ![Reactor] = @ \o Head(sendQueue)]
            /\ sendQueue' = Tail(sendQueue)
            /\ UNCHANGED <<pc, probe, flag, sendLock, registered, alive,
                           socket, peer, events, wire, requests, dropped>>

PopQueueEnd == /\ pc[Reactor] = "pop"
               /\ sendQueue = <<>>
               /\ Goto(Reactor, IF hand[Reactor] = <<>> THEN "zombie"
                                                        ELSE "sending")
               /\ UNCHANGED <<quiet, probe, registered, alive, events>>

(* _CheckZombieConnection: ActiveClose, then ReserveClose. *)
NotZombie == /\ pc[Reactor] = "zombie"
             /\ Goto(Reactor, "loop")
             /\ UNCHANGED <<quiet, probe, registered, alive, events>>

Zombie == /\ Expiring
          /\ \/ pc[Reactor] = "zombie" /\ flag' = "Active"
                /\ Goto(Reactor, "expired")
             \/ pc[Reactor] = "expired" /\ flag' = "Passive"
                /\ Goto(Reactor, "loop")
          /\ UNCHANGED <<probe, hand, sendLock, sendQueue, registered, alive,
                         socket, peer, events, wire, requests, dropped>>

-----------------------------------------------------------------------------
(* The reactor thread: handle_close and the destructor *)

(* Faults: the application is not told; it is told again. *)
NotifyClose_Silent == /\ pc[Reactor] = "closing"
                      /\ Goto(Reactor, "delete")
                      /\ UNCHANGED <<quiet, probe, registered, alive, events>>

NotifyClose_Again == /\ pc[Reactor] = "closing"
                     /\ \/ PushEvent("Close") /\ Goto(Reactor, "notified")
                        \/ /\ "Close" \in ToSet(events)
                           /\ Goto(Reactor, "delete") /\ UNCHANGED events
                     /\ UNCHANGED <<quiet, probe, registered, alive>>

(* _NotifyClose: called by _IsCloseFlagActivate and again by handle_close, *)
(* it tells the application once (_sentCloseMessage).                      *)
NotifyClose == /\ pc[Reactor] = "closing"
               /\ IF "Close" \in ToSet(events)
                  THEN Goto(Reactor, "delete") /\ UNCHANGED events
                  ELSE PushEvent("Close") /\ Goto(Reactor, "notified")
               /\ UNCHANGED <<quiet, probe, registered, alive>>

NotifyReserve == /\ pc[Reactor] = "notified"
                 /\ \E v \in Flags :
                       /\ Sees(Reactor, v)
                       /\ flag' = IF v = "None" THEN "Passive" ELSE flag
                 /\ Goto(Reactor, "closing")
                 /\ UNCHANGED <<hand, sendLock, sendQueue, registered, alive,
                                socket, peer, events, wire, requests, dropped>>

(* _CleanUp: the handlers are removed and the socket closed, the id goes   *)
(* back to the registry, and only then is the object gone with its queue.  *)
CloseHandle == /\ pc[Reactor] = "delete"
               /\ socket' = "closed"
               /\ Goto(Reactor, "unregister")
               /\ UNCHANGED <<probe, hand, flag, sendLock, sendQueue,
                              registered, alive, peer, events, wire, requests,
                              dropped>>

(* Fault: the id stays in the map. *)
UnRegister_Forgotten == /\ pc[Reactor] = "unregister"
                        /\ Goto(Reactor, "free")
                        /\ UNCHANGED <<quiet, probe, registered, alive, events>>

UnRegister == /\ pc[Reactor] = "unregister"
              /\ registered' = FALSE
              /\ Goto(Reactor, "free")
              /\ UNCHANGED <<quiet, probe, alive, events>>

Delete == /\ pc[Reactor] = "free"
          /\ alive' = FALSE
          /\ sendQueue' = <<>>
          /\ Drop(UNION {ToSet(sendQueue[i]) : i \in DOMAIN sendQueue},
                  "closing")
          /\ Goto(Reactor, "gone")
          /\ UNCHANGED <<probe, hand, flag, sendLock, registered, socket,
                         peer, events, wire, requests>>

ReactorStep == \/ Register \/ OnEstablish \/ OpenDone
               \/ HandleInput \/ HandleInputEnd \/ HandleTimeout
               \/ TickPassive \/ TickActive \/ TickReserve \/ TickOpen
               \/ TrySendLock \/ PopQueue \/ PopQueueEnd
               \/ NotZombie \/ Zombie
               \/ NotifyClose \/ NotifyReserve
               \/ CloseHandle \/ UnRegister \/ Delete
               \/ ProbeNext(Reactor) \/ Sending(Reactor)

-----------------------------------------------------------------------------
(* The other side hangs up. *)
PeerClose == /\ peer = "open"
             /\ peer' = "closed"
             /\ UNCHANGED <<pc, probe, hand, flag, sendLock, sendQueue,
                            registered, alive, socket, events, wire, requests,
                            dropped>>

Next == ReactorStep \/ PeerClose \/ \E a \in Apps : App(a)

Spec == Init /\ [][Next]_vars

(* Threads run; the reactor serves a socket that stays readable and a      *)
(* timer that stays due, turn by turn; the peer reads, so that now and     *)
(* then the kernel takes a whole block.                                    *)
SendAll(t) == PeerSend(t) /\ hand'[t] = <<>>

Fairness == /\ WF_vars(ReactorStep)
            /\ SF_vars(HandleInputEnd)
            /\ SF_vars(HandleTimeout)
            /\ \A a \in Apps : WF_vars(AppCall(a))
            /\ \A t \in Threads : SF_vars(SendAll(t))

FairSpec == Spec /\ Fairness

-----------------------------------------------------------------------------

Places == {"open", "establish", "register", "loop", "tick", "shut", "try",
           "pop", "sending", "lock", "send", "sent", "failed", "abort",
           "requeue", "zombie", "expired", "closing", "notified", "delete",
           "unregister", "free", "gone"}
AppPlaces == {"idle", "disable", "receive", "sending", "lock", "send", "sent",
              "failed", "abort", "requeue", "undefined"}

TypeOK == /\ pc \in [Threads -> Places \cup AppPlaces]
          /\ pc[Reactor] \in Places
          /\ \A a \in Apps : pc[a] \in AppPlaces
          /\ probe \in [Threads -> 1 .. 3]
          /\ hand \in [Threads -> Seq(Bytes)]
          /\ flag \in Flags
          /\ sendLock \in BOOLEAN /\ registered \in BOOLEAN /\ alive \in BOOLEAN
          /\ sendQueue \in Seq(Seq(Bytes)) /\ Len(sendQueue) <= SendCap
          /\ socket \in {"open", "shut", "closed"}
          /\ peer \in {"open", "closed"}
          /\ events \in Seq({"Establish", "Read", "Close"})
          /\ wire \in Seq(Bytes)
          /\ requests \in [Apps -> 0 .. MaxRequests]
          /\ dropped \subseteq Bytes \X {"full", "closing"}

Closed == "Close" \in ToSet(events)

(* Whatever application threads ask for and however the kernel splits the  *)
(* sends, every byte given to a Send is in one place: in a thread's hands, *)
(* in the send queue, on the wire or released (ReactorService.cpp:255-304),*)
(* refused by a full queue or because of a close.  None is sent twice or   *)
(* forgotten between lock, partial send and queue.                         *)
Whereabouts(b) ==
    {<<"wire", i>> : i \in {j \in DOMAIN wire : wire[j] = b}}
    \cup (UNION {{<<"hand", t, i>> : i \in {j \in DOMAIN hand[t] :
                                            hand[t][j] = b}} : t \in Threads})
    \cup (UNION {{<<"queue", k, i>> : i \in {j \in DOMAIN sendQueue[k] :
                   sendQueue[k][j] = b}} : k \in DOMAIN sendQueue})
    \cup {d \in dropped : d[1] = b}

ExactlyOnce == \A b \in Bytes : Cardinality(Whereabouts(b)) =
                                IF b[2] <= requests[b[1]] THEN 1 ELSE 0

(* A byte reaches the peer only after the one before it in its block: the *)
(* rest of a partly sent block stays together in the queue, also when      *)
(* _SendQueuedBlock merges it with others (ReactorService.cpp:263-269,     *)
(* 291-293).                                                               *)
PrefixSent ==
    \A i \in DOMAIN wire :
        LET b == wire[i]
        IN  b[3] > 1 => \E j \in 1 .. i - 1 : wire[j] = <<b[1], b[2], b[3] - 1>>

(* Every byte is accounted for, once, and the bytes of a block leave in    *)
(* order.  This does not promise that all of them leave: a full queue      *)
(* refuses the rest of a partly sent block too, which counts as dropped    *)
(* here and which nobody is told of, since handle_timeout ignores what     *)
(* _SmartSend returns (ReactorService.cpp:291-293, 303).                   *)
StreamIntact == ExactlyOnce /\ PrefixSent

(* One thread at a time is inside peer().send, and the send lock is free   *)
(* when none is: a DirectSend and the timer never write to the socket      *)
(* together, and no failure or partial send leaves the lock taken          *)
(* (ReactorService.cpp:271-276).                                           *)
Senders == {t \in Threads : pc[t] \in {"send", "sent", "failed"}}

SendersExclusive == /\ Cardinality(Senders) <= 1
                    /\ alive => (sendLock <=> Senders # {})

(* What the application hears of a connection: Establish first, then Reads,*)
(* then one Close and nothing after it, whichever of a close request, the  *)
(* peer, a failed send or a zombie check ends it, together or alone.       *)
EventProtocol == \A i \in DOMAIN events :
                    /\ events[i] = "Establish" <=> i = 1
                    /\ events[i] = "Close" => i = Len(events)

(* The id goes back to the registry, for another connection to use, only   *)
(* when Close was pushed under it, and the object is deleted only when its *)
(* id can no longer be looked up (ReactorService.cpp:84-97, 165-170).      *)
IdFreedAfterClose == [][/\ registered' => alive'
                        /\ registered /\ ~registered' => Closed
                       ]_<<registered, alive>>

(* A CloseStream that finds the connection is carried through: "Close      *)
(* connection" (NetworkFacade.h:184).  The application is told and the id  *)
(* is freed, which CloseService (ReactorServiceAccessor.cpp:68-87) waits   *)
(* for.  The timer decides by three comparisons while others write the     *)
(* flag; only a CloseReceiveStream called meanwhile can undo the request,  *)
(* since it overwrites the flag (ReactorService.cpp:210-213).              *)
CloseUndisturbed ==
    \A a \in Apps : (alive /\ pc[a] = "disable") ~>
        ((Closed /\ ~registered) \/ \E b \in Apps : pc[b] = "receive")

(* The peer's hang-up ends the connection in the same way, whatever close  *)
(* requests, failed sends and expiries come with it.                       *)
HangupHeard == (peer = "closed") ~> (Closed /\ ~registered)

(* Bytes in the send queue do not stay there: the timer sends them or the  *)
(* connection ends (ReactorService.cpp:296-304).                           *)
InQueue(b) == \E k \in DOMAIN sendQueue : b \in ToSet(sendQueue[k])

SentEventually == \A b \in Bytes : InQueue(b) ~>
                     (b \in ToSet(wire) \/ \E d \in dropped : d[1] = b)

(* The sender test (Testcase/main.cpp:113) expects the bytes of one sender *)
(* in the order they were sent.                                            *)
WireInOrder ==
    \A i, j \in DOMAIN wire : i < j /\ wire[i][1] = wire[j][1] =>
        \/ wire[i][2] < wire[j][2]
        \/ wire[i][2] = wire[j][2] /\ wire[i][3] < wire[j][3]
=============================================================================
