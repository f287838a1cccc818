--------------------------- MODULE ProactorService ---------------------------
(***************************************************************************)
(* One connection served by the proactor: ProactorService over ServiceImpl *)
(* (Src/ProactorService.cpp, Src/ServiceImpl.cpp).  Worker threads run the *)
(* completions of the connection: of its read, of its write, of its timer; *)
(* several of them at a time.  Application threads find the service by its *)
(* id and call IntervalSend or DirectSend, ActiveClose, ReceiveClose and   *)
(* ReserveClose on it.                                                     *)
(*                                                                         *)
(* A completion stays outstanding until a worker takes it up, and only     *)
(* then is it decided what came of the operation.  A message block is the  *)
(* sequence of its bytes; a byte is named by the thread that asked for it, *)
(* the number of its request and its place.                                *)
(***************************************************************************)
EXTENDS Naturals, Sequences, FiniteSets, SequencesExt

CONSTANTS Workers,        \* threads that run the proactor's event loop
          Apps,           \* application threads
          Direct,         \* Send_Mode is eSM_Direct, else eSM_Interval
          ReceiveClosing, \* may the application call CloseReceiveStream?
          Expiring,       \* ZombieConnectionTerm is not 0
          MaxRequests,    \* bound: sends per application thread
          BlockLen,       \* bytes per requested block
          SendCap,        \* high water mark of the send queue, in blocks
          MaxCloses,      \* bound: close requests, of applications and zombies
          MaxReads,       \* bound: receptions
          MaxPosted       \* bound: timer completions that wait for a worker

ASSUME ProactorAssumption ==
           /\ Workers \cap Apps = {}
           /\ {Direct, ReceiveClosing, Expiring} \subseteq BOOLEAN
           /\ {MaxRequests, MaxReads, MaxCloses} \subseteq Nat
           /\ {BlockLen, SendCap, MaxPosted} \subseteq Nat \ {0}

VARIABLES pc,          \* where each thread is
          probe,       \* the next comparison of GetCloseFlag
          hand,        \* the block a thread holds
          flag,        \* _closeFlag
          timerLock,   \* _timerLock
          sendLock,    \* _sendLock
          sendQueue,   \* _block_queue
          reading,     \* is a read outstanding?
          writing,     \* the block whose write is outstanding
          timer,       \* of the service: new, on or off
          posted,      \* completions of the timer that wait for a worker
          object,      \* alive, dying (the delete timer runs) or deleted
          registered,  \* is the id in ProactorServiceMap?
          socket,      \* the directions, in and out, still open on this side
          peer,        \* the other side: open or closed
          events,      \* what was pushed to the event queue for this id
          wire,        \* the bytes the kernel has taken, in order
          requests,    \* sends asked for by each application thread
          closes,      \* close requests made, and zombies found
          dropped      \* bytes that will never be sent, with the reason

sends == <<hand, sendLock, sendQueue, writing, wire, requests, dropped>>
life == <<registered, object, socket, peer, closes>>
timing == <<timerLock, timer, posted>>
vars == <<pc, probe, flag, sends, life, timing, reading, events>>

Threads == Workers \cup Apps

Block(a, n) == [i \in 1 .. BlockLen |-> <<a, n, i>>]
Bytes == Apps \X (1 .. MaxRequests) \X (1 .. BlockLen)
Flags == {"None", "Passive", "Active", "Receive"}

(* One worker has taken up the accept. *)
Init == /\ \E w \in Workers :
              pc = [t \in Threads |-> IF t = w THEN "open" ELSE "idle"]
        /\ probe = [t \in Threads |-> 1]
        /\ hand = [t \in Threads |-> <<>>]
        /\ flag = "None"
        /\ timerLock = FALSE
        /\ sendLock = FALSE
        /\ sendQueue = <<>>
        /\ reading = FALSE
        /\ writing = <<>>
        /\ timer = "new"
        /\ posted = 0
        /\ object = "alive"
        /\ registered = FALSE
        /\ socket = {"in", "out"}
        /\ peer = "open"
        /\ events = <<>>
        /\ wire = <<>>
        /\ requests = [a \in Apps |-> 0]
        /\ dropped = {}
        /\ closes = 0

Goto(t, place) == pc' = [pc EXCEPT ![t] = place]

Drop(bytes, why) == dropped' = dropped \cup (bytes \X {why})

PushEvent(e) == events' = Append(events, e)

(* A worker is free for a completion; those of a deleted handler are lost. *)
Serves(w) == pc[w] = "idle" /\ object # "deleted"

-----------------------------------------------------------------------------
(* ServiceImpl::GetCloseFlag: three comparisons, each atomic, one by one.  *)

Order == <<"Passive", "Active", "Receive">>

Reading == {"tick", "disable", "receive"}

ProbeNext(t) == /\ pc[t] \in Reading
                /\ probe[t] < 3
                /\ flag # Order[probe[t]]
                /\ probe' = [probe EXCEPT ![t] = @ + 1]
                /\ UNCHANGED <<pc, flag, sends, life, timing, reading, events>>

(* The comparison that decides: the flag is seen as value. *)
Sees(t, value) ==
    /\ \/ value = Order[probe[t]] /\ flag = value
       \/ value = "None" /\ probe[t] = 3 /\ flag # Order[3]
    /\ probe' = [probe EXCEPT ![t] = 1]

(* Fault: the request is dropped also when the flag was not set. *)
CloseUnlessSet_Deaf(t) == /\ pc[t] \in {"disable", "receive"}
                          /\ \E v \in Flags : Sees(t, v)
                          /\ Goto(t, "idle")
                          /\ UNCHANGED <<flag, sends, life, timing, reading,
                                         events>>

(* ActiveClose and ReceiveClose do nothing when the flag was set before;   *)
(* otherwise they set it, in a step of its own.                            *)
CloseUnlessSet(t) == /\ pc[t] \in {"disable", "receive"}
                     /\ \E v \in Flags :
                           /\ Sees(t, v)
                           /\ Goto(t, IF v # "None" THEN "idle"
                                      ELSE IF pc[t] = "disable" THEN "set_active"
                                      ELSE "set_receive")
                     /\ UNCHANGED <<flag, sends, life, timing, reading, events>>

SetCloseFlag(t) == /\ pc[t] \in {"set_active", "set_receive"}
                   /\ flag' = IF pc[t] = "set_active" THEN "Active" ELSE "Receive"
                   /\ Goto(t, "idle")
                   /\ UNCHANGED <<probe, sends, life, timing, reading, events>>

-----------------------------------------------------------------------------
(* _SmartSend, by an application thread (DirectSend) or by the worker that *)
(* runs the timer (_SendQueuedBlock), which has the timer lock.            *)

Back(t) == IF t \in Workers THEN "untick" ELSE "idle"

(* Fault: one block too many. *)
PushQueue_OffByOne(bytes) ==
    IF Len(sendQueue) > SendCap
    THEN Drop(ToSet(bytes), "full") /\ UNCHANGED sendQueue
    ELSE sendQueue' = Append(sendQueue, bytes) /\ UNCHANGED dropped

(* ServiceImpl::PushQueue, no waiting; nobody releases a refused block. *)
PushQueue(bytes) ==
    IF Len(sendQueue) >= SendCap
    THEN Drop(ToSet(bytes), "full") /\ UNCHANGED sendQueue
    ELSE sendQueue' = Append(sendQueue, bytes) /\ UNCHANGED dropped

(* Fault: the send lock is taken whoever has it. *)
AcquireSendLock_Always(t) ==
    /\ pc[t] = "lock"
    /\ sendLock' = TRUE
    /\ Goto(t, "write")
    /\ UNCHANGED <<probe, flag, hand, sendQueue, writing, wire, requests,
                   dropped, life, timing, reading, events>>

AcquireSendLock(t) ==
    /\ pc[t] = "lock"
    /\ sendLock' = TRUE
    /\ Goto(t, IF sendLock THEN "requeue" ELSE "write")
    /\ UNCHANGED <<probe, flag, hand, sendQueue, writing, wire, requests,
                   dropped, life, timing, reading, events>>

Requeue(t) == /\ pc[t] = "requeue"
              /\ PushQueue(hand[t])
              /\ hand' = [hand EXCEPT ![t] = <<>>]
              /\ Goto(t, Back(t))
              /\ UNCHANGED <<probe, flag, sendLock, writing, wire, requests,
                             life, timing, reading, events>>

(* _SmartSendImpl starts the write; the lock is kept until it completes. *)
StartWrite(t) == /\ pc[t] = "write"
                 /\ "out" \in socket
                 /\ writing' = hand[t]
                 /\ hand' = [hand EXCEPT ![t] = <<>>]
                 /\ Goto(t, Back(t))
                 /\ UNCHANGED <<probe, flag, sendLock, sendQueue, wire,
                                requests, dropped, life, timing, reading,
                                events>>

(* It fails: the block is released and the close reserved, but the lock is *)
(* not released any more.  Outside Windows a chain of blocks was released  *)
(* in _SmartSendImpl already, and its merged copy is not released at all:  *)
(* that branch is not modelled.                                            *)
StartWriteError(t) == /\ pc[t] = "write"
                      /\ Drop(ToSet(hand[t]), "failed")
                      /\ hand' = [hand EXCEPT ![t] = <<>>]
                      /\ flag' = "Passive"
                      /\ Goto(t, Back(t))
                      /\ UNCHANGED <<probe, sendLock, sendQueue, writing, wire,
                                     requests, life, timing, reading, events>>

Sending(t) == \/ AcquireSendLock(t) \/ Requeue(t)
              \/ StartWrite(t) \/ StartWriteError(t)

-----------------------------------------------------------------------------
(* handle_write_stream: the kernel has taken a prefix of the block. *)

(* Fault: the rest of a partial write is written from its beginning. *)
WriteDone_Rewinds(w) ==
    /\ Serves(w) /\ writing # <<>>
    /\ \E k \in 1 .. Len(writing) :
          /\ wire' = wire \o SubSeq(writing, 1, k)
          /\ hand' = [hand EXCEPT ![w] =
                         IF k = Len(writing) THEN <<>> ELSE writing]
    /\ writing' = <<>>
    /\ Goto(w, "wrote")
    /\ UNCHANGED <<probe, flag, sendLock, sendQueue, requests, dropped, life,
                   timing, reading, events>>

WriteDone(w) == /\ Serves(w) /\ writing # <<>>
                /\ \E k \in 1 .. Len(writing) :
                      /\ wire' = wire \o SubSeq(writing, 1, k)
                      /\ hand' = [hand EXCEPT ![w] =
                                     SubSeq(writing, k + 1, Len(writing))]
                /\ writing' = <<>>
                /\ Goto(w, "wrote")
                /\ UNCHANGED <<probe, flag, sendLock, sendQueue, requests,
                               dropped, life, timing, reading, events>>

(* The write failed: the close is reserved; neither the block nor the lock *)
(* is released.                                                            *)
WriteFailed(w) == /\ Serves(w) /\ writing # <<>>
                  /\ "out" \notin socket \/ peer = "closed"
                  /\ Drop(ToSet(writing), "failed")
                  /\ writing' = <<>>
                  /\ flag' = "Passive"
                  /\ UNCHANGED <<pc, probe, hand, sendLock, sendQueue, wire,
                                 requests, life, timing, reading, events>>

(* Fault: the lock is kept when the block is finished. *)
AfterWrite_KeepsLock(w) ==
    /\ pc[w] = "wrote"
    /\ hand[w] = <<>> \/ "out" \in socket
    /\ writing' = hand[w]
    /\ hand' = [hand EXCEPT ![w] = <<>>]
    /\ Goto(w, "idle")
    /\ UNCHANGED <<probe, flag, sendLock, sendQueue, wire, requests, dropped,
                   life, timing, reading, events>>

(* The block is finished and the lock released, or the rest is written. *)
AfterWrite(w) == /\ pc[w] = "wrote"
                 /\ \/ hand[w] = <<>> /\ sendLock' = FALSE
                    \/ hand[w] # <<>> /\ "out" \in socket /\ UNCHANGED sendLock
                 /\ writing' = hand[w]
                 /\ hand' = [hand EXCEPT ![w] = <<>>]
                 /\ Goto(w, "idle")
                 /\ UNCHANGED <<probe, flag, sendQueue, wire, requests,
                                dropped, life, timing, reading, events>>

(* Writing the rest fails: release, ReserveClose and then ReleaseSendLock. *)
AfterWriteError(w) == /\ \/ /\ pc[w] = "wrote" /\ hand[w] # <<>>
                            /\ Drop(ToSet(hand[w]), "failed")
                            /\ hand' = [hand EXCEPT ![w] = <<>>]
                            /\ flag' = "Passive"
                            /\ Goto(w, "release") /\ UNCHANGED sendLock
                         \/ /\ pc[w] = "release"
                            /\ sendLock' = FALSE
                            /\ Goto(w, "idle")
                            /\ UNCHANGED <<dropped, hand, flag>>
                      /\ UNCHANGED <<probe, sendQueue, writing, wire, requests,
                                     life, timing, reading, events>>

-----------------------------------------------------------------------------
(* handle_read_stream *)

ReadCount == Cardinality({i \in DOMAIN events : events[i] = "Read"})

ReadDone(w) == /\ Serves(w) /\ reading
               /\ ReadCount < MaxReads
               /\ reading' = FALSE
               /\ Goto(w, "received")
               /\ UNCHANGED <<probe, flag, sends, life, timing, events>>

(* Nothing was read: the peer has closed, or this side has closed or shut. *)
ReadEnd(w) == /\ Serves(w) /\ reading
              /\ "in" \notin socket \/ peer = "closed"
              /\ reading' = FALSE
              /\ flag' = "Passive"
              /\ UNCHANGED <<pc, probe, sends, life, timing, events>>

OnReceive(w) == /\ pc[w] = "received"
                /\ PushEvent("Read")
                /\ Goto(w, "reread")
                /\ UNCHANGED <<probe, flag, sends, life, timing, reading>>

(* _InitializeRead, at the end of a completion or, before the timer is     *)
(* registered, of open: the next read is started, or a close reserved.     *)
(* m_reader and m_writer keep the number of a handle that _CloseHandle     *)
(* closed.  That the system gives it to no other socket before this object *)
(* is deleted is an assumption; without it a read or a write could still   *)
(* be started, on somebody else's connection.                              *)
InitializeRead(w) ==
    /\ pc[w] \in {"reread", "first_read"}
    /\ \/ "in" \in socket /\ reading' = TRUE /\ UNCHANGED flag
       \/ flag' = "Passive" /\ UNCHANGED reading
    /\ Goto(w, IF pc[w] = "reread" THEN "idle" ELSE "register_timer")
    /\ UNCHANGED <<probe, sends, life, timing, events>>

-----------------------------------------------------------------------------
(* open, by the worker that took up the accept *)

(* The reader or the writer cannot be opened: the close is reserved, but   *)
(* no timer will ever see it.                                              *)
OpenFail(w) == /\ pc[w] = "open"
               /\ flag' = "Passive"
               /\ Goto(w, "idle")
               /\ UNCHANGED <<probe, sends, life, timing, reading, events>>

(* Fault: the first read is started before the application is told. *)
Register_Reads(w) == /\ pc[w] = "open"
                     /\ registered' = TRUE
                     /\ reading' = TRUE
                     /\ Goto(w, "establish")
                     /\ UNCHANGED <<probe, flag, sends, object, socket, peer,
                                    closes, timing, events>>

(* There may be no id left.  The release build, where the assertion is     *)
(* empty, goes on under Invalid_ID: nobody finds the object then.          *)
Register(w) == /\ pc[w] = "open"
               /\ registered' \in BOOLEAN
               /\ Goto(w, "establish")
               /\ UNCHANGED <<probe, flag, sends, object, socket, peer, closes,
                              timing, reading, events>>

OnEstablish(w) == /\ pc[w] = "establish"
                  /\ PushEvent("Establish")
                  /\ Goto(w, "first_read")
                  /\ UNCHANGED <<probe, flag, sends, life, timing, reading>>

RegisterTimer(w) == /\ pc[w] = "register_timer"
                    /\ timer' = "on"
                    /\ Goto(w, "idle")
                    /\ UNCHANGED <<probe, flag, sends, life, timerLock, posted,
                                   reading, events>>

-----------------------------------------------------------------------------
(* handle_time_out.  The thread of the timer queue posts a completion each *)
(* time the timer expires, whether or not the last one was served.         *)

Expire == /\ timer = "on" /\ posted < MaxPosted
          /\ posted' = posted + 1
          /\ UNCHANGED <<pc, probe, flag, sends, life, timerLock, timer,
                         reading, events>>

(* Fault: a second worker is let in. *)
HandleTimeout_Always(w) ==
    /\ Serves(w) /\ posted > 0
    /\ posted' = posted - 1
    /\ timerLock' = TRUE
    /\ Goto(w, "tick")
    /\ UNCHANGED <<probe, flag, sends, life, timer, reading, events>>

(* A worker that finds another one at it drops the completion. *)
HandleTimeout(w) == /\ Serves(w) /\ posted > 0
                    /\ posted' = posted - 1
                    /\ timerLock' = TRUE
                    /\ Goto(w, IF timerLock THEN "idle" ELSE "tick")
                    /\ UNCHANGED <<probe, flag, sends, life, timer, reading,
                                   events>>

(* _IsCloseFlagActivate reads the flag: eCF_Passive cancels the timer and  *)
(* closes; eCF_Active shuts the sending side, eCF_Receive the receiving.   *)
CheckCloseFlag(w) ==
    /\ pc[w] = "tick"
    /\ \E v \in Flags :
          /\ Sees(w, v)
          /\ timer' = IF v = "Passive" THEN "off" ELSE timer
          /\ socket' = CASE v = "Active" -> socket \ {"out"}
                         [] v = "Receive" -> socket \ {"in"}
                         [] OTHER -> socket
          /\ Goto(w, CASE v = "Passive" -> "close"
                       [] v = "Active" -> "reserve"
                       [] v = "Receive" -> "clear"
                       [] OTHER -> "try")
    /\ UNCHANGED <<flag, sends, registered, object, peer, closes, timerLock,
                   posted, reading, events>>

(* Then eCF_Active becomes eCF_Passive, for the next expiry to close, and  *)
(* eCF_Receive eCF_None, whatever the flag has become meanwhile.           *)
ReplaceCloseFlag(w) == /\ pc[w] \in {"reserve", "clear"}
                       /\ flag' = IF pc[w] = "reserve" THEN "Passive" ELSE "None"
                       /\ Goto(w, IF pc[w] = "reserve" THEN "untick" ELSE "try")
                       /\ UNCHANGED <<probe, sends, life, timing, reading,
                                      events>>

(* _Close: the socket, the Close event, and the timer that will delete.    *)
CloseHandle(w) == /\ pc[w] = "close"
                  /\ socket' = {}
                  /\ Goto(w, "notify")
                  /\ UNCHANGED <<probe, flag, sends, registered, object, peer,
                                 closes, timing, reading, events>>

NotifyClose(w) == /\ pc[w] = "notify"
                  /\ PushEvent("Close")
                  /\ Goto(w, "schedule")
                  /\ UNCHANGED <<probe, flag, sends, life, timing, reading>>

(* Fault: nothing is scheduled. *)
ScheduleDelete_Forgotten(w) ==
    /\ pc[w] = "schedule"
    /\ Goto(w, "untick")
    /\ UNCHANGED <<probe, flag, sends, life, timing, reading, events>>

ScheduleDelete(w) == /\ pc[w] = "schedule"
                     /\ object' = "dying"
                     /\ Goto(w, "untick")
                     /\ UNCHANGED <<probe, flag, sends, registered, socket,
                                    peer, closes, timing, reading, events>>

(* _SendQueuedBlock: nothing while a write is outstanding.  All blocks of  *)
(* the queue become one.                                                   *)
TrySendLock(w) == /\ pc[w] = "try"
                  /\ Goto(w, IF sendLock THEN "untick" ELSE "pop")
                  /\ UNCHANGED <<probe, flag, sends, life, timing, reading,
                                 events>>

PopQueue(w) == /\ pc[w] = "pop"
               /\ sendQueue # <<>>
               /\ hand' = [hand EXCEPT ![w] = @ \o Head(sendQueue)]
               /\ sendQueue' = Tail(sendQueue)
               /\ UNCHANGED <<pc, probe, flag, sendLock, writing, wire,
                              requests, dropped, life, timing, reading, events>>

PopQueueEnd(w) == /\ pc[w] = "pop"
                  /\ sendQueue = <<>>
                  /\ Goto(w, IF hand[w] = <<>> THEN "untick" ELSE "lock")
                  /\ UNCHANGED <<probe, flag, sends, life, timing, reading,
                                 events>>

ReleaseTimerLock(w) == /\ pc[w] = "untick"
                       /\ timerLock' = FALSE
                       /\ Goto(w, "zombie")
                       /\ UNCHANGED <<probe, flag, sends, life, timer, posted,
                                      reading, events>>

(* _CheckZombieConnection, outside the lock; when is left to chance. *)
CheckZombie(w) == /\ pc[w] = "zombie"
                  /\ \/ Goto(w, "idle") /\ UNCHANGED closes
                     \/ /\ Expiring /\ closes < MaxCloses
                        /\ closes' = closes + 1
                        /\ Goto(w, "disable")
                  /\ UNCHANGED <<probe, flag, sends, registered, object,
                                 socket, peer, timing, reading, events>>

(* Fault: the destructor leaves the id in the map. *)
Delete_Registered == /\ object = "dying"
                     /\ \A t \in Threads : pc[t] \in {"idle", "closing"}
                     /\ object' = "deleted"
                     /\ Drop(UNION {ToSet(sendQueue[i]) : i \in DOMAIN sendQueue},
                             "closing")
                     /\ sendQueue' = <<>>
                     /\ UNCHANGED <<pc, probe, hand, flag, sendLock, writing,
                                    wire, requests, registered, socket, peer,
                                    closes, timing, reading, events>>

(* DeleteHandler::handle_time_out, five seconds later: it is assumed that  *)
(* nobody is inside the service any more.                                  *)
Delete == /\ object = "dying"
          /\ \A t \in Threads : pc[t] \in {"idle", "closing"}
          /\ object' = "deleted"
          /\ registered' = FALSE
          /\ Drop(UNION {ToSet(sendQueue[i]) : i \in DOMAIN sendQueue},
                  "closing")
          /\ sendQueue' = <<>>
          /\ UNCHANGED <<pc, probe, hand, flag, sendLock, writing, wire,
                         requests, socket, peer, closes, timing, reading,
                         events>>

-----------------------------------------------------------------------------
(* Application threads; the registry finds the service as long as the id   *)
(* is in the map.                                                          *)

(* SendRequest by mode; SendReserve, here without a delay, always queues.   *)
SendRequest(a) == /\ pc[a] = "idle" /\ registered
                  /\ requests[a] < MaxRequests
                  /\ requests' = [requests EXCEPT ![a] = @ + 1]
                  /\ hand' = [hand EXCEPT ![a] = Block(a, requests'[a])]
                  /\ \/ Direct /\ Goto(a, "lock")
                     \/ Goto(a, "requeue")
                  /\ UNCHANGED <<probe, flag, sendLock, sendQueue, writing,
                                 wire, dropped, life, timing, reading, events>>

(* CloseStream and CloseReceiveStream. *)
CloseRequest(a) == /\ pc[a] = "idle" /\ registered
                   /\ closes < MaxCloses
                   /\ closes' = closes + 1
                   /\ \/ Goto(a, "disable")
                      \/ ReceiveClosing /\ Goto(a, "receive")
                   /\ UNCHANGED <<probe, flag, sends, registered, object,
                                  socket, peer, timing, reading, events>>

(* CloseService, at the shutdown, calls ReserveClose and then only waits    *)
(* for the map to be empty.                                                *)
CloseService(a) == /\ pc[a] = "idle" /\ registered
                   /\ flag' = "Passive"
                   /\ Goto(a, "closing")
                   /\ UNCHANGED <<probe, sends, life, timing, reading, events>>

PeerClose == /\ peer = "open"
             /\ peer' = "closed"
             /\ UNCHANGED <<pc, probe, flag, sends, registered, object, socket,
                            closes, timing, reading, events>>

-----------------------------------------------------------------------------
Completion(w) == \/ WriteDone(w) \/ WriteFailed(w)
                 \/ ReadDone(w) \/ ReadEnd(w) \/ HandleTimeout(w)

(* What a worker goes on with once it has begun. *)
WorkerStep(w) == \/ OpenFail(w) \/ Register(w) \/ OnEstablish(w)
                 \/ InitializeRead(w) \/ RegisterTimer(w)
                 \/ OnReceive(w) \/ AfterWrite(w) \/ AfterWriteError(w)
                 \/ CheckCloseFlag(w) \/ ReplaceCloseFlag(w)
                 \/ CloseHandle(w) \/ NotifyClose(w) \/ ScheduleDelete(w)
                 \/ TrySendLock(w) \/ PopQueue(w) \/ PopQueueEnd(w)
                 \/ ReleaseTimerLock(w) \/ CheckZombie(w)

CallStep(t) == ProbeNext(t) \/ CloseUnlessSet(t) \/ SetCloseFlag(t) \/ Sending(t)

ThreadStep(t) == CallStep(t) \/ (t \in Workers /\ WorkerStep(t))

Next == \/ \E t \in Threads : ThreadStep(t)
        \/ \E w \in Workers : Completion(w)
        \/ \E a \in Apps : SendRequest(a) \/ CloseRequest(a) \/ CloseService(a)
        \/ Expire \/ Delete \/ PeerClose

Spec == Init /\ [][Next]_vars

(* Threads run; the timers expire and are served; and reads and writes     *)
(* that completed get a worker now and then, though the timer goes on.     *)
Fairness == /\ \A t \in Threads : WF_vars(ThreadStep(t))
            /\ WF_vars(Delete)
            /\ WF_vars(Expire \/ \E w \in Workers : HandleTimeout(w))
            /\ SF_vars(\E w \in Workers : ReadEnd(w) \/ WriteDone(w)
                                           \/ WriteFailed(w))

FairSpec == Spec /\ Fairness

-----------------------------------------------------------------------------

TickPlaces == {"tick", "reserve", "clear", "close", "notify", "schedule",
               "try", "pop", "untick"}
SendPlaces == {"lock", "write", "requeue"}
ClosePlaces == {"disable", "receive", "set_active", "set_receive"}
OpenPlaces == {"open", "establish", "first_read", "register_timer"}

TypeOK == /\ pc \in [Threads -> {"idle", "wrote", "release", "received", "reread",
                                 "zombie", "closing"} \cup OpenPlaces \cup TickPlaces
                                           \cup SendPlaces \cup ClosePlaces]
          /\ probe \in [Threads -> 1 .. 3]
          /\ hand \in [Threads -> Seq(Bytes)]
          /\ flag \in Flags
          /\ {timerLock, sendLock, reading, registered} \subseteq BOOLEAN
          /\ sendQueue \in Seq(Seq(Bytes)) /\ Len(sendQueue) <= SendCap
          /\ writing \in Seq(Bytes)
          /\ timer \in {"new", "on", "off"}
          /\ posted \in 0 .. MaxPosted
          /\ object \in {"alive", "dying", "deleted"}
          /\ socket \subseteq {"in", "out"}
          /\ peer \in {"open", "closed"}
          /\ events \in Seq({"Establish", "Read", "Close"})
          /\ wire \in Seq(Bytes)
          /\ requests \in [Apps -> 0 .. MaxRequests]
          /\ closes \in 0 .. MaxCloses
          /\ dropped \subseteq Bytes \X {"full", "failed", "closing"}

(* Whatever is sent, however the kernel splits the writes and whichever    *)
(* worker completes them, a byte is in one place: in a thread's hands, in  *)
(* the queue, in the outstanding write, on the wire or dropped             *)
(* (ProactorService.cpp:97-128, 304-350).                                  *)
Places(b, seq) == {i \in DOMAIN seq : seq[i] = b}

Whereabouts(b) ==
    {<<"wire", i>> : i \in Places(b, wire)}
    \cup {<<"writing", i>> : i \in Places(b, writing)}
    \cup (UNION {{<<"hand", t, i>> : i \in Places(b, hand[t])} : t \in Threads})
    \cup (UNION {{<<"queue", k, i>> : i \in Places(b, sendQueue[k])} :
                   k \in DOMAIN sendQueue})
    \cup {d \in dropped : d[1] = b}

ExactlyOnce == \A b \in Bytes : Cardinality(Whereabouts(b)) =
                                IF b[2] <= requests[b[1]] THEN 1 ELSE 0

(* The socket has one write at a time, started by whoever holds the send   *)
(* lock and completed by whatever worker: no thread starts a write while   *)
(* another is starting one or one is outstanding.  A block that was partly *)
(* written therefore reaches the peer before anything sent later.          *)
Writers == {t \in Threads : pc[t] \in {"write", "wrote", "release"}}

OneWrite == /\ Cardinality(Writers) + (IF writing = <<>> THEN 0 ELSE 1) <= 1
            /\ ~sendLock => Writers = {} /\ writing = <<>>

(* What the peer gets of a block comes in order and without a hole: before *)
(* each byte, the one before it in the block.                              *)
PrefixSent ==
    \A i \in DOMAIN wire :
        LET b == wire[i]
        IN  b[3] > 1 => \E j \in 1 .. i - 1 : wire[j] = <<b[1], b[2], b[3] - 1>>

(* Every byte is accounted for, once, and the bytes of a block leave in    *)
(* order (ProactorService.cpp:97-128, 304-350).  A full queue may refuse a *)
(* block, also one that the timer had collected, and then nobody is told:  *)
(* the timer ignores what _SmartSend returns (ProactorService.cpp:311).    *)
StreamIntact == ExactlyOnce /\ PrefixSent

(* One worker at a time serves the timer, although completions pile up: no *)
(* two of them close the connection at once or empty the queue together    *)
(* (ProactorService.cpp:134-140).                                          *)
TickingAt(t) == \/ pc[t] \in TickPlaces
                \/ t \in Workers /\ pc[t] \in SendPlaces

OneTick == /\ Cardinality({t \in Threads : TickingAt(t)}) <= 1
           /\ timerLock <=> \E t \in Threads : TickingAt(t)

(* The application hears Establish first.  Nothing is read from a closed   *)
(* socket: after Close comes at most the one Read that a worker had in     *)
(* hand then (ProactorService.cpp:81-95, 261-271).                         *)
EventOrder ==
    \A i \in DOMAIN events :
        /\ events[i] = "Establish" <=> i = 1
        /\ events[i] = "Close" =>
              Cardinality({j \in DOMAIN events : j > i /\ events[j] = "Read"}) <= 1

(* The id goes back to the registry only when Close was pushed under it    *)
(* and the socket is closed, and while the id can be looked up the object  *)
(* exists (ProactorService.cpp:55-62, 261-271).                            *)
Closed == "Close" \in ToSet(events)

IdFreedAfterClose == /\ registered => object # "deleted"
                     /\ object = "deleted" => ~registered /\ Closed /\ socket = {}

(* A connection that was established and whose peer hangs up ends: the     *)
(* application is told and the id is free, which CloseService waits for.   *)
(* The read sees the hang-up, a later expiry of the timer closes, and the  *)
(* delete timer ends it.                                                   *)
HangupHeard == (peer = "closed" /\ events # <<>>) ~> (Closed /\ ~registered)

(* So does a connection that a thread found to close.                      *)
CloseHeard == (\E t \in Threads : pc[t] = "disable") ~> (Closed /\ ~registered)

(* What waits in the send queue is written or the connection ends, also    *)
(* when a write fails and leaves the send lock taken for good              *)
(* (ProactorService.cpp:97-104, 304-328).                                  *)
InQueue(b) == \E k \in DOMAIN sendQueue : b \in ToSet(sendQueue[k])

SentEventually == \A b \in Bytes : InQueue(b) ~>
                     (Closed \/ b \in ToSet(wire) \/ \E d \in dropped : d[1] = b)
=============================================================================
