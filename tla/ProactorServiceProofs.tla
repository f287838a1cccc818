----------------------- MODULE ProactorServiceProofs -----------------------
(***************************************************************************)
(* Proofs about a connection of the proactor, for every set of worker and  *)
(* application threads, every number and size of blocks, every queue       *)
(* capacity and every choice of what the application may do.               *)
(***************************************************************************)
EXTENDS ProactorService, SequenceFacts, FiniteSetTheorems, TLAPS

(* A byte of a sequence of bytes is a byte. *)
LEMMA ToSetFacts ==
    ASSUME NEW S, NEW s \in Seq(S)
    PROVE  ToSet(s) \subseteq S
  BY DEF ToSet

LEMMA AppendFacts ==
    ASSUME NEW S, NEW s \in Seq(S), NEW e \in S
    PROVE  /\ Append(s, e) \in Seq(S)
           /\ Len(Append(s, e)) = Len(s) + 1
  OBVIOUS

(* The two parts of a block that the kernel splits, and the rest of a queue *)
(* whose first block is taken.                                              *)
LEMMA SplitFacts ==
    ASSUME NEW S, NEW s \in Seq(S), NEW k \in 1 .. Len(s)
    PROVE  SubSeq(s, 1, k) \in Seq(S) /\ SubSeq(s, k + 1, Len(s)) \in Seq(S)
  OBVIOUS

LEMMA HeadFacts ==
    ASSUME NEW S, NEW s \in Seq(S), s # <<>>
    PROVE  Head(s) \in S /\ Tail(s) \in Seq(S) /\ Len(Tail(s)) = Len(s) - 1
  OBVIOUS

(* The comparison of GetCloseFlag and the release of a block by type. *)
LEMMA SeesTypes ==
    ASSUME TypeOK, NEW t \in Threads, NEW v, Sees(t, v)
    PROVE  probe' \in [Threads -> 1 .. 3]
  BY DEF TypeOK, Sees

LEMMA DropTypes ==
    ASSUME TypeOK, NEW s \in Seq(Bytes), NEW why \in {"full", "failed"},
           Drop(ToSet(s), why)
    PROVE  dropped' \subseteq Bytes \X {"full", "failed", "closing"}
<1>1. ToSet(s) \subseteq Bytes
  BY ToSetFacts
<1>2. QED
  BY <1>1 DEF TypeOK, Drop

-----------------------------------------------------------------------------
(* Every step keeps the types: one lemma for the calls of a thread, one    *)
(* for the completions a worker takes up, one for what it goes on with,    *)
(* one for the applications and one for the timers and the peer.           *)
LEMMA CallTypes ==
    ASSUME TypeOK, NEW t \in Threads, CallStep(t)
    PROVE  TypeOK'
<1> USE ProactorAssumption DEF Goto, sends, life, timing, TickPlaces,
        SendPlaces, ClosePlaces, OpenPlaces, Reading, Threads, Flags
<1>1. CASE ProbeNext(t)
  <2>1. probe[t] \in 1 .. 3 /\ probe[t] < 3
    BY <1>1 DEF ProbeNext, TypeOK
  <2>2. probe[t] + 1 \in 1 .. 3
    BY <2>1
  <2>3. probe' \in [Threads -> 1 .. 3]
    BY <1>1, <2>2 DEF ProbeNext, TypeOK
  <2>4. QED
    BY <1>1, <2>3 DEF ProbeNext, TypeOK
<1>2. CASE CloseUnlessSet(t)
  <2>1. PICK v \in Flags :
           /\ Sees(t, v)
           /\ Goto(t, IF v # "None" THEN "idle"
                      ELSE IF pc[t] = "disable" THEN "set_active"
                      ELSE "set_receive")
    BY <1>2 DEF CloseUnlessSet
  <2>2. \/ Goto(t, "idle") \/ Goto(t, "set_active") \/ Goto(t, "set_receive")
    BY <2>1
  <2>3. probe' \in [Threads -> 1 .. 3]
    BY <2>1, SeesTypes
  <2>4. QED
    BY <1>2, <2>2, <2>3 DEF TypeOK, CloseUnlessSet
<1>3. CASE SetCloseFlag(t)
  BY <1>3 DEF SetCloseFlag, TypeOK
<1>4. CASE AcquireSendLock(t)
  BY <1>4 DEF AcquireSendLock, TypeOK
<1>5. CASE Requeue(t)
  <2>1. hand[t] \in Seq(Bytes)
    BY DEF TypeOK
  <2>2. /\ sendQueue' \in Seq(Seq(Bytes)) /\ Len(sendQueue') <= SendCap
        /\ dropped' \subseteq Bytes \X {"full", "failed", "closing"}
    <3>1. CASE Len(sendQueue) >= SendCap
      <4>1. Drop(ToSet(hand[t]), "full") /\ UNCHANGED sendQueue
        BY <1>5, <3>1 DEF Requeue, PushQueue
      <4>2. QED
        BY <2>1, <4>1, DropTypes DEF TypeOK
    <3>2. CASE ~(Len(sendQueue) >= SendCap)
      <4>1. sendQueue' = Append(sendQueue, hand[t]) /\ UNCHANGED dropped
        BY <1>5, <3>2 DEF Requeue, PushQueue
      <4>2. Len(sendQueue) + 1 <= SendCap
        BY <3>2 DEF TypeOK
      <4>3. QED
        BY <2>1, <4>1, <4>2, AppendFacts DEF TypeOK
    <3>3. QED
      BY <3>1, <3>2
  <2>3. PICK place \in {"untick", "idle"} : Goto(t, place)
    BY <1>5 DEF Requeue, Back
  <2>4. hand' \in [Threads -> Seq(Bytes)]
    BY <1>5 DEF Requeue, TypeOK
  <2>5. UNCHANGED <<probe, flag, sendLock, writing, wire, requests, life,
                    timing, reading, events>>
    BY <1>5 DEF Requeue
  <2>6. QED
    BY <2>2, <2>3, <2>4, <2>5 DEF TypeOK
<1>6. CASE StartWrite(t)
  BY <1>6 DEF StartWrite, Back, TypeOK
<1>7. CASE StartWriteError(t)
  <2>1. dropped' \subseteq Bytes \X {"full", "failed", "closing"}
    BY <1>7, DropTypes DEF TypeOK, StartWriteError
  <2>2. QED
    BY <1>7, <2>1 DEF StartWriteError, Back, TypeOK
<1>8. QED
  BY <1>1, <1>2, <1>3, <1>4, <1>5, <1>6, <1>7 DEF CallStep, Sending

LEMMA CompletionTypes ==
    ASSUME TypeOK, NEW w \in Workers, Completion(w)
    PROVE  TypeOK'
<1> USE ProactorAssumption DEF Goto, sends, life, timing, TickPlaces,
        SendPlaces, ClosePlaces, OpenPlaces, Threads, Flags
<1>1. CASE WriteDone(w)
  <2>1. PICK k \in 1 .. Len(writing) :
           /\ wire' = wire \o SubSeq(writing, 1, k)
           /\ hand' = [hand EXCEPT ![w] = SubSeq(writing, k + 1, Len(writing))]
    BY <1>1 DEF WriteDone
  <2>2. /\ SubSeq(writing, 1, k) \in Seq(Bytes)
        /\ SubSeq(writing, k + 1, Len(writing)) \in Seq(Bytes)
    BY SplitFacts DEF TypeOK
  <2>3. wire' \in Seq(Bytes) /\ hand' \in [Threads -> Seq(Bytes)]
    <3>1. wire \in Seq(Bytes) /\ hand \in [Threads -> Seq(Bytes)]
      BY DEF TypeOK
    <3>2. hand' \in [Threads -> Seq(Bytes)]
      BY <2>1, <2>2, <3>1
    <3>3. wire' \in Seq(Bytes)
      BY <2>1, <2>2, <3>1
    <3>4. QED
      BY <3>2, <3>3
  <2>4. writing' \in Seq(Bytes)
    BY <1>1 DEF WriteDone
  <2>5. pc' = [pc EXCEPT ![w] = "wrote"]
    BY <1>1 DEF WriteDone
  <2>6. /\ UNCHANGED <<probe, flag, sendLock, sendQueue, requests, dropped>>
        /\ UNCHANGED <<life, timing, reading, events>>
    BY <1>1 DEF WriteDone
  <2>7. QED
    BY <2>3, <2>4, <2>5, <2>6 DEF TypeOK
<1>2. CASE WriteFailed(w)
  <2>1. dropped' \subseteq Bytes \X {"full", "failed", "closing"}
    BY <1>2, DropTypes DEF TypeOK, WriteFailed
  <2>2. QED
    BY <1>2, <2>1 DEF WriteFailed, TypeOK
<1>3. CASE ReadDone(w)
  BY <1>3 DEF ReadDone, TypeOK
<1>4. CASE ReadEnd(w)
  BY <1>4 DEF ReadEnd, TypeOK
<1>5. CASE HandleTimeout(w)
  BY <1>5 DEF HandleTimeout, TypeOK
<1>6. QED
  BY <1>1, <1>2, <1>3, <1>4, <1>5 DEF Completion

LEMMA WorkerTypes ==
    ASSUME TypeOK, NEW w \in Workers, WorkerStep(w)
    PROVE  TypeOK'
<1> USE ProactorAssumption DEF Goto, sends, life, timing, TickPlaces,
        SendPlaces, ClosePlaces, OpenPlaces, Threads, Flags, PushEvent
<1>1. CASE OpenFail(w)
  BY <1>1 DEF OpenFail, TypeOK
<1>2. CASE Register(w)
  BY <1>2 DEF Register, TypeOK
<1>3. CASE OnEstablish(w)
  BY <1>3 DEF OnEstablish, TypeOK
<1>4. CASE InitializeRead(w)
  BY <1>4 DEF InitializeRead, TypeOK
<1>5. CASE RegisterTimer(w)
  BY <1>5 DEF RegisterTimer, TypeOK
<1>6. CASE OnReceive(w)
  BY <1>6 DEF OnReceive, TypeOK
<1>7. CASE AfterWrite(w)
  <2>1. writing' \in Seq(Bytes) /\ hand' \in [Threads -> Seq(Bytes)]
    BY <1>7 DEF TypeOK, AfterWrite
  <2>2. sendLock' \in BOOLEAN
    BY <1>7 DEF TypeOK, AfterWrite
  <2>3. QED
    BY <1>7, <2>1, <2>2 DEF AfterWrite, TypeOK
<1>8. CASE AfterWriteError(w)
  <2>1. CASE pc[w] = "wrote"
    <3>1. hand' = [hand EXCEPT ![w] = <<>>] /\ Drop(ToSet(hand[w]), "failed")
      BY <1>8, <2>1 DEF AfterWriteError
    <3>2. dropped' \subseteq Bytes \X {"full", "failed", "closing"}
      BY <3>1, DropTypes DEF TypeOK
    <3>3. /\ pc' = [pc EXCEPT ![w] = "release"] /\ flag' = "Passive"
          /\ UNCHANGED <<probe, sendLock, sendQueue, writing, wire, requests>>
          /\ UNCHANGED <<life, timing, reading, events>>
      BY <1>8, <2>1 DEF AfterWriteError
    <3>4. hand' \in [Threads -> Seq(Bytes)]
      BY <3>1 DEF TypeOK
    <3>5. QED
      BY <3>2, <3>3, <3>4 DEF TypeOK
  <2>2. CASE pc[w] = "release"
    BY <1>8, <2>2 DEF AfterWriteError, TypeOK
  <2>3. QED
    BY <1>8, <2>1, <2>2 DEF AfterWriteError
<1>9. CASE CheckCloseFlag(w)
  <2>1. PICK place \in {"close", "reserve", "clear", "try"} : Goto(w, place)
    BY <1>9 DEF CheckCloseFlag
  <2>2. probe' \in [Threads -> 1 .. 3] /\ timer' \in {"new", "on", "off"}
    BY <1>9 DEF CheckCloseFlag, Sees, TypeOK
  <2>3. socket' \subseteq {"in", "out"}
    BY <1>9 DEF CheckCloseFlag, TypeOK
  <2>4. UNCHANGED <<flag, sends, registered, object, peer, closes, timerLock,
                    posted, reading, events>>
    BY <1>9 DEF CheckCloseFlag
  <2>5. QED
    BY <2>1, <2>2, <2>3, <2>4 DEF TypeOK
<1>10. CASE ReplaceCloseFlag(w)
  BY <1>10 DEF ReplaceCloseFlag, TypeOK
<1>11. CASE CloseHandle(w)
  BY <1>11 DEF CloseHandle, TypeOK
<1>12. CASE NotifyClose(w)
  BY <1>12 DEF NotifyClose, TypeOK
<1>13. CASE ScheduleDelete(w)
  BY <1>13 DEF ScheduleDelete, TypeOK
<1>14. CASE TrySendLock(w)
  BY <1>14 DEF TrySendLock, TypeOK
<1>15. CASE PopQueue(w)
  <2>1. /\ Head(sendQueue) \in Seq(Bytes)
        /\ Tail(sendQueue) \in Seq(Seq(Bytes))
        /\ Len(Tail(sendQueue)) = Len(sendQueue) - 1
    BY <1>15, HeadFacts DEF TypeOK, PopQueue
  <2>2. hand' \in [Threads -> Seq(Bytes)]
    <3>1. hand[w] \o Head(sendQueue) \in Seq(Bytes)
      BY <2>1 DEF TypeOK
    <3>2. QED
      BY <1>15, <3>1 DEF TypeOK, PopQueue
  <2>3. Len(Tail(sendQueue)) <= SendCap
    BY <2>1 DEF TypeOK
  <2>4. QED
    BY <1>15, <2>1, <2>2, <2>3 DEF PopQueue, TypeOK
<1>16. CASE PopQueueEnd(w)
  BY <1>16 DEF PopQueueEnd, TypeOK
<1>17. CASE ReleaseTimerLock(w)
  BY <1>17 DEF ReleaseTimerLock, TypeOK
<1>18. CASE CheckZombie(w)
  <2>1. closes' \in 0 .. MaxCloses
    BY <1>18 DEF TypeOK, CheckZombie
  <2>2. QED
    BY <1>18, <2>1 DEF CheckZombie, TypeOK
<1>19. QED
  BY <1>1, <1>2, <1>3, <1>4, <1>5, <1>6, <1>7, <1>8, <1>9, <1>10, <1>11, <1>12,
     <1>13, <1>14, <1>15, <1>16, <1>17, <1>18 DEF WorkerStep

LEMMA AppTypes ==
    ASSUME TypeOK, NEW a \in Apps,
           SendRequest(a) \/ CloseRequest(a) \/ CloseService(a)
    PROVE  TypeOK'
<1> USE ProactorAssumption DEF Goto, sends, life, timing, TickPlaces,
        SendPlaces, ClosePlaces, OpenPlaces, Threads, Flags
<1>1. CASE SendRequest(a)
  <2>1. /\ requests' \in [Apps -> 0 .. MaxRequests]
        /\ requests'[a] \in 1 .. MaxRequests
    BY <1>1 DEF TypeOK, SendRequest
  <2>2. Block(a, requests'[a]) \in Seq(Bytes)
    <3>1. \A i \in 1 .. BlockLen : <<a, requests'[a], i>> \in Bytes
      BY <2>1 DEF Bytes
    <3>2. BlockLen \in Nat
      OBVIOUS
    <3>3. QED
      BY <3>1, <3>2 DEF Block
  <2>3. hand' \in [Threads -> Seq(Bytes)]
    BY <1>1, <2>2 DEF TypeOK, SendRequest
  <2>4. QED
    BY <1>1, <2>1, <2>3 DEF SendRequest, TypeOK
<1>2. CASE CloseRequest(a)
  <2>1. closes' \in 0 .. MaxCloses
    BY <1>2 DEF TypeOK, CloseRequest
  <2>2. QED
    BY <1>2, <2>1 DEF CloseRequest, TypeOK
<1>3. CASE CloseService(a)
  BY <1>3 DEF CloseService, TypeOK
<1>4. QED
  BY <1>1, <1>2, <1>3

LEMMA OutsideTypes ==
    ASSUME TypeOK, Expire \/ Delete \/ PeerClose
    PROVE  TypeOK'
<1> USE ProactorAssumption DEF sends, life, timing
<1>1. CASE Expire
  BY <1>1 DEF Expire, TypeOK
<1>2. CASE Delete
  <2>1. /\ sendQueue' = <<>>
        /\ Drop(UNION {ToSet(sendQueue[i]) : i \in DOMAIN sendQueue},
                "closing")
    BY <1>2 DEF Delete
  <2>2. \A i \in DOMAIN sendQueue : ToSet(sendQueue[i]) \subseteq Bytes
    <3>1. \A i \in DOMAIN sendQueue : sendQueue[i] \in Seq(Bytes)
      BY DEF TypeOK
    <3>2. QED
      BY <3>1, ToSetFacts
  <2>3. dropped' \subseteq Bytes \X {"full", "failed", "closing"}
    BY <2>1, <2>2 DEF TypeOK, Drop
  <2>4. sendQueue' \in Seq(Seq(Bytes)) /\ Len(sendQueue') <= SendCap
    BY <2>1
  <2>5. object' = "deleted" /\ registered' = FALSE
    BY <1>2 DEF Delete
  <2>6. /\ UNCHANGED <<pc, probe, hand, flag, sendLock, writing, wire,
                       requests, socket, peer, closes>>
        /\ UNCHANGED <<timerLock, timer, posted, reading, events>>
    BY <1>2 DEF Delete
  <2>7. QED
    BY <2>3, <2>4, <2>5, <2>6 DEF TypeOK
<1>3. CASE PeerClose
  BY <1>3 DEF PeerClose, TypeOK
<1>4. QED
  BY <1>1, <1>2, <1>3

LEMMA InitTypes ==
    ASSUME Init
    PROVE  TypeOK
<1>1. /\ MaxRequests \in Nat /\ MaxCloses \in Nat
      /\ SendCap \in Nat /\ MaxPosted \in Nat
  BY ProactorAssumption
<1>2. pc \in [Threads -> {"open", "idle"}]
  BY DEF Init
<1>3. /\ hand \in [Threads -> Seq(Bytes)] /\ probe \in [Threads -> 1 .. 3]
      /\ requests \in [Apps -> 0 .. MaxRequests]
  BY <1>1 DEF Init
<1>4. /\ sendQueue \in Seq(Seq(Bytes)) /\ Len(sendQueue) <= SendCap
      /\ writing \in Seq(Bytes) /\ wire \in Seq(Bytes)
      /\ events \in Seq({"Establish", "Read", "Close"})
  BY <1>1 DEF Init
<1>5. /\ posted \in 0 .. MaxPosted /\ closes \in 0 .. MaxCloses
      /\ dropped \subseteq Bytes \X {"full", "failed", "closing"}
  BY <1>1 DEF Init
<1>6. QED
  BY <1>2, <1>3, <1>4, <1>5 DEF Init, TypeOK, OpenPlaces, Flags

LEMMA NextTypes == ASSUME TypeOK, [Next]_vars PROVE TypeOK'
<1>1. CASE Next
  BY <1>1, CallTypes, CompletionTypes, WorkerTypes, AppTypes, OutsideTypes
     DEF Next, ThreadStep
<1>2. CASE UNCHANGED vars
  BY <1>2 DEF vars, sends, life, timing, TypeOK
<1>3. QED
  BY <1>1, <1>2

(* Every variable has its type in every reachable state: the send queue    *)
(* never exceeds its high water mark and no more completions of the timer  *)
(* wait than may (ProactorService.cpp:134-140, ServiceImpl.cpp:35-45).     *)
THEOREM TypeCorrect == Spec => []TypeOK
  BY InitTypes, NextTypes, PTL DEF Spec

-----------------------------------------------------------------------------
(* An application thread is never inside the timer's work. *)
AppsOutside == \A a \in Apps :
                 pc[a] \in {"idle", "closing"} \cup SendPlaces \cup ClosePlaces

(* The timer lock is taken as long as one worker serves the timer. *)
TickAlone == /\ \A t, u \in Threads : TickingAt(t) /\ TickingAt(u) => t = u
             /\ timerLock <=> \E t \in Threads : TickingAt(t)

(* The send lock is handed from the thread that starts a write to the      *)
(* outstanding write, from there to the worker of its completion, and back *)
(* while a rest remains.                                                   *)
WritingAt(t) == pc[t] \in {"write", "wrote", "release"}

WriteAlone == /\ \A t, u \in Threads : WritingAt(t) /\ WritingAt(u) => t = u
              /\ \A t \in Threads : WritingAt(t) => sendLock /\ writing = <<>>
              /\ writing # <<>> => sendLock

(* How far the closing went: the socket first, then Close, then the timer  *)
(* that deletes when no thread is inside any more.                         *)
Ending == /\ \A t \in Threads : pc[t] = "notify" => socket = {}
          /\ \A t \in Threads : pc[t] = "schedule" => socket = {} /\ Closed
          /\ object # "alive" => socket = {} /\ Closed
          /\ object = "deleted" =>
                ~registered /\ \A t \in Threads : pc[t] \in {"idle", "closing"}

(* Until Establish is pushed, only the opening worker is about and the     *)
(* writes of applications that already found the id.                       *)
OpeningAt(t) == pc[t] \in OpenPlaces

Opening ==
    /\ \A t, u \in Threads : OpeningAt(t) /\ OpeningAt(u) => t = u
    /\ \A t \in Threads : pc[t] \in {"open", "establish"} => events = <<>>
    /\ events = <<>> =>
          /\ ~reading /\ timer = "new" /\ posted = 0
          /\ \A w \in Workers :
                pc[w] \in {"idle", "open", "establish", "wrote", "release"}

(* The right to push a Read is with the outstanding read or with the one   *)
(* worker that completes it and starts the next; a closed socket has none. *)
ReadingAt(t) == pc[t] \in {"first_read", "received", "reread"}

ReadAlone == /\ \A t, u \in Threads : ReadingAt(t) /\ ReadingAt(u) => t = u
             /\ \A t \in Threads : ReadingAt(t) => ~reading
             /\ Closed => "in" \notin socket

(* Is there a Read still to come, of a read that was started before? *)
ReadPending == reading \/ \E t \in Threads : pc[t] = "received"

(* After a Close comes one Read at most, and none while one is pending. *)
LastRead ==
    \A i \in DOMAIN events : events[i] = "Close" =>
       /\ ReadPending => \A j \in DOMAIN events : j > i => events[j] # "Read"
       /\ \A j, k \in DOMAIN events :
             /\ j > i /\ events[j] = "Read"
             /\ k > i /\ events[k] = "Read"
             => j = k

EstablishFirst == \A i \in DOMAIN events : events[i] = "Establish" <=> i = 1

IInv == /\ TypeOK
        /\ AppsOutside /\ TickAlone /\ WriteAlone
        /\ Ending /\ Opening /\ ReadAlone /\ LastRead /\ EstablishFirst

-----------------------------------------------------------------------------
(* What the steps need of the types: pc is a function on the threads, and  *)
(* what pushing an event does to the events.                               *)
AllPlaces == {"idle", "wrote", "release", "received", "reread", "zombie",
              "closing"} \cup OpenPlaces \cup TickPlaces \cup SendPlaces
                         \cup ClosePlaces

PcMaps == pc \in [Threads -> AllPlaces]

ClosedFacts ==
   /\ UNCHANGED events => UNCHANGED Closed
   /\ PushEvent("Establish") => events' # <<>> /\ UNCHANGED Closed
   /\ PushEvent("Read") => events' # <<>> /\ UNCHANGED Closed
   /\ PushEvent("Close") => events' # <<>> /\ Closed'
   /\ Closed => events # <<>>

(* The facts that the steps below use in place of TypeOK. *)
LEMMA PcFacts ==
    ASSUME TypeOK
    PROVE  PcMaps
  BY DEF TypeOK, PcMaps, AllPlaces

LEMMA PushFacts ==
    ASSUME TypeOK, NEW e \in {"Establish", "Read", "Close"}, PushEvent(e)
    PROVE  /\ Len(events') = Len(events) + 1
           /\ DOMAIN events = 1 .. Len(events)
           /\ DOMAIN events' = 1 .. (Len(events) + 1)
           /\ \A i \in 1 .. Len(events) : events'[i] = events[i]
           /\ events'[Len(events) + 1] = e
           /\ ToSet(events') = ToSet(events) \cup {e}
<1>1. events \in Seq({"Establish", "Read", "Close"})
  BY DEF TypeOK
<1>2. events' = Append(events, e)
  BY DEF PushEvent
<1>3. /\ Len(events') = Len(events) + 1
      /\ DOMAIN events = 1 .. Len(events)
      /\ DOMAIN events' = 1 .. (Len(events) + 1)
      /\ \A i \in 1 .. Len(events) : events'[i] = events[i]
      /\ events'[Len(events) + 1] = e
  BY <1>1, <1>2
<1>4. ToSet(events') = ToSet(events) \cup {e}
  BY <1>1, <1>3 DEF ToSet
<1>5. QED
  BY <1>3, <1>4

LEMMA ClosedSteps ==
    ASSUME TypeOK
    PROVE  ClosedFacts
<1>1. UNCHANGED events => UNCHANGED Closed
  BY DEF Closed
<1>2. ASSUME NEW e \in {"Establish", "Read", "Close"}, PushEvent(e)
      PROVE  events' # <<>> /\ (Closed' <=> Closed \/ e = "Close")
  <2>1. /\ ToSet(events') = ToSet(events) \cup {e}
        /\ Len(events') = Len(events) + 1
    BY <1>2, PushFacts
  <2>2. Len(events) \in Nat
    BY DEF TypeOK
  <2>3. QED
    BY <2>1, <2>2 DEF Closed
<1>3. Closed => events # <<>>
  BY DEF Closed, ToSet
<1>4. PushEvent("Establish") => events' # <<>> /\ UNCHANGED Closed
  BY <1>2 DEF Closed
<1>5. PushEvent("Read") => events' # <<>> /\ UNCHANGED Closed
  BY <1>2 DEF Closed
<1>6. PushEvent("Close") => events' # <<>> /\ Closed'
  BY <1>2
<1>7. QED
  BY <1>1, <1>3, <1>4, <1>5, <1>6 DEF ClosedFacts

-----------------------------------------------------------------------------
(* The steps, one invariant after the other.  The actions are taken in     *)
(* groups of what one thread does one after the other.                     *)
LEMMA AppsOutsideStep ==
    ASSUME PcMaps,
           AppsOutside,
           Next
    PROVE  AppsOutside'
<1> USE ProactorAssumption DEF AppsOutside, PcMaps, Goto, PushEvent, sends,
        life, timing, TickPlaces, SendPlaces, ClosePlaces, OpenPlaces, Threads
<1>1. ASSUME NEW t \in Threads,
             ProbeNext(t) \/ CloseUnlessSet(t) \/ SetCloseFlag(t)
      PROVE  AppsOutside'
  BY <1>1 DEF ProbeNext, CloseUnlessSet, SetCloseFlag, Reading, Sees
<1>2. ASSUME NEW t \in Threads,
             AcquireSendLock(t) \/ Requeue(t)
      PROVE  AppsOutside'
  BY <1>2 DEF AcquireSendLock, Requeue, Back
<1>3. ASSUME NEW t \in Threads,
             StartWrite(t) \/ StartWriteError(t)
      PROVE  AppsOutside'
  BY <1>3 DEF StartWrite, StartWriteError, Back
<1>4. ASSUME NEW w \in Workers,
             WriteDone(w) \/ WriteFailed(w)
      PROVE  AppsOutside'
  BY <1>4 DEF WriteDone, WriteFailed, Serves
<1>5. ASSUME NEW w \in Workers,
             ReadDone(w) \/ ReadEnd(w) \/ HandleTimeout(w)
      PROVE  AppsOutside'
  BY <1>5 DEF ReadDone, ReadEnd, HandleTimeout, Serves
<1>6. ASSUME NEW w \in Workers, OpenFail(w) \/ Register(w) PROVE AppsOutside'
  BY <1>6 DEF OpenFail, Register
<1>7. ASSUME NEW w \in Workers,
             OnEstablish(w) \/ RegisterTimer(w)
      PROVE  AppsOutside'
  BY <1>7 DEF OnEstablish, RegisterTimer
<1>8. ASSUME NEW w \in Workers,
             InitializeRead(w) \/ OnReceive(w)
      PROVE  AppsOutside'
  BY <1>8 DEF InitializeRead, OnReceive
<1>9. ASSUME NEW w \in Workers,
             AfterWrite(w) \/ AfterWriteError(w)
      PROVE  AppsOutside'
  BY <1>9 DEF AfterWrite, AfterWriteError
<1>10. ASSUME NEW w \in Workers,
             CheckCloseFlag(w) \/ ReplaceCloseFlag(w)
      PROVE  AppsOutside'
  BY <1>10 DEF CheckCloseFlag, ReplaceCloseFlag, Sees
<1>11. ASSUME NEW w \in Workers,
             CloseHandle(w) \/ NotifyClose(w) \/ ScheduleDelete(w)
      PROVE  AppsOutside'
  BY <1>11 DEF CloseHandle, NotifyClose, ScheduleDelete
<1>12. ASSUME NEW w \in Workers,
             TrySendLock(w) \/ PopQueue(w) \/ PopQueueEnd(w)
      PROVE  AppsOutside'
  BY <1>12 DEF TrySendLock, PopQueue, PopQueueEnd
<1>13. ASSUME NEW w \in Workers,
             ReleaseTimerLock(w) \/ CheckZombie(w)
      PROVE  AppsOutside'
  BY <1>13 DEF ReleaseTimerLock, CheckZombie
<1>14. ASSUME NEW a \in Apps,
             SendRequest(a) \/ CloseRequest(a) \/ CloseService(a)
      PROVE  AppsOutside'
  BY <1>14 DEF SendRequest, CloseRequest, CloseService
<1>15. CASE Expire \/ Delete \/ PeerClose
  BY <1>15 DEF Expire, Delete, PeerClose
<1>16. QED
  BY <1>1, <1>2, <1>3, <1>4, <1>5, <1>6, <1>7, <1>8, <1>9, <1>10, <1>11, <1>12,
     <1>13, <1>14, <1>15
     DEF Next, ThreadStep, CallStep, Sending, Completion, WorkerStep

(* The timer lock is taken by one worker at a time. *)
LEMMA TickAloneStep ==
    ASSUME PcMaps,
           AppsOutside,
           AppsOutside',
           TickAlone,
           Next
    PROVE  TickAlone'
<1> USE ProactorAssumption DEF AppsOutside, TickAlone, TickingAt, PcMaps, Goto,
        PushEvent, sends, life, timing, TickPlaces, SendPlaces, ClosePlaces,
        OpenPlaces, Threads
<1>1. ASSUME NEW t \in Threads,
             ProbeNext(t) \/ CloseUnlessSet(t) \/ SetCloseFlag(t)
      PROVE  TickAlone'
  BY <1>1 DEF ProbeNext, CloseUnlessSet, SetCloseFlag, Reading, Sees
<1>2. ASSUME NEW t \in Threads,
             AcquireSendLock(t) \/ Requeue(t)
      PROVE  TickAlone'
  BY <1>2 DEF AcquireSendLock, Requeue, Back
<1>3. ASSUME NEW t \in Threads,
             StartWrite(t) \/ StartWriteError(t)
      PROVE  TickAlone'
  BY <1>3 DEF StartWrite, StartWriteError, Back
<1>4. ASSUME NEW w \in Workers, WriteDone(w) PROVE TickAlone'
  BY <1>4 DEF WriteDone, Serves
<1>5. ASSUME NEW w \in Workers, WriteFailed(w) PROVE TickAlone'
  BY <1>5 DEF WriteFailed, Serves
<1>6. ASSUME NEW w \in Workers,
             ReadDone(w) \/ ReadEnd(w) \/ HandleTimeout(w)
      PROVE  TickAlone'
  BY <1>6 DEF ReadDone, ReadEnd, HandleTimeout, Serves
<1>7. ASSUME NEW w \in Workers, OpenFail(w) \/ Register(w) PROVE TickAlone'
  BY <1>7 DEF OpenFail, Register
<1>8. ASSUME NEW w \in Workers,
             OnEstablish(w) \/ RegisterTimer(w)
      PROVE  TickAlone'
  BY <1>8 DEF OnEstablish, RegisterTimer
<1>9. ASSUME NEW w \in Workers,
             InitializeRead(w) \/ OnReceive(w)
      PROVE  TickAlone'
  BY <1>9 DEF InitializeRead, OnReceive
<1>10. ASSUME NEW w \in Workers,
             AfterWrite(w) \/ AfterWriteError(w)
      PROVE  TickAlone'
  BY <1>10 DEF AfterWrite, AfterWriteError
<1>11. ASSUME NEW w \in Workers,
             CheckCloseFlag(w) \/ ReplaceCloseFlag(w)
      PROVE  TickAlone'
  BY <1>11 DEF CheckCloseFlag, ReplaceCloseFlag, Sees
<1>12. ASSUME NEW w \in Workers,
             CloseHandle(w) \/ NotifyClose(w) \/ ScheduleDelete(w)
      PROVE  TickAlone'
  BY <1>12 DEF CloseHandle, NotifyClose, ScheduleDelete
<1>13. ASSUME NEW w \in Workers, TrySendLock(w) PROVE TickAlone'
  BY <1>13 DEF TrySendLock
<1>14. ASSUME NEW w \in Workers, PopQueue(w) PROVE TickAlone'
  BY <1>14 DEF PopQueue
<1>15. ASSUME NEW w \in Workers, PopQueueEnd(w) PROVE TickAlone'
  BY <1>15 DEF PopQueueEnd
<1>16. ASSUME NEW w \in Workers,
             ReleaseTimerLock(w) \/ CheckZombie(w)
      PROVE  TickAlone'
  BY <1>16 DEF ReleaseTimerLock, CheckZombie
<1>17. ASSUME NEW a \in Apps,
             SendRequest(a) \/ CloseRequest(a) \/ CloseService(a)
      PROVE  TickAlone'
  BY <1>17 DEF SendRequest, CloseRequest, CloseService
<1>18. CASE Expire \/ Delete \/ PeerClose
  BY <1>18 DEF Expire, Delete, PeerClose
<1>19. QED
  BY <1>1, <1>2, <1>3, <1>4, <1>5, <1>6, <1>7, <1>8, <1>9, <1>10, <1>11, <1>12,
     <1>13, <1>14, <1>15, <1>16, <1>17, <1>18
     DEF Next, ThreadStep, CallStep, Sending, Completion, WorkerStep

(* The send lock is free, or one thread or the outstanding write has it. *)
LEMMA WriteAloneStep ==
    ASSUME PcMaps,
           AppsOutside,
           WriteAlone,
           Next
    PROVE  WriteAlone'
<1> USE ProactorAssumption DEF AppsOutside, WriteAlone, WritingAt, PcMaps,
        Goto, PushEvent, sends, life, timing, TickPlaces, SendPlaces,
        ClosePlaces, OpenPlaces, Threads
<1>1. ASSUME NEW t \in Threads,
             ProbeNext(t) \/ CloseUnlessSet(t) \/ SetCloseFlag(t)
      PROVE  WriteAlone'
  BY <1>1 DEF ProbeNext, CloseUnlessSet, SetCloseFlag, Reading, Sees
<1>2. ASSUME NEW t \in Threads,
             AcquireSendLock(t) \/ Requeue(t)
      PROVE  WriteAlone'
  BY <1>2 DEF AcquireSendLock, Requeue, Back
<1>3. ASSUME NEW t \in Threads,
             StartWrite(t) \/ StartWriteError(t)
      PROVE  WriteAlone'
  BY <1>3 DEF StartWrite, StartWriteError, Back
<1>4. ASSUME NEW w \in Workers,
             WriteDone(w) \/ WriteFailed(w)
      PROVE  WriteAlone'
  BY <1>4 DEF WriteDone, WriteFailed, Serves
<1>5. ASSUME NEW w \in Workers,
             ReadDone(w) \/ ReadEnd(w) \/ HandleTimeout(w)
      PROVE  WriteAlone'
  BY <1>5 DEF ReadDone, ReadEnd, HandleTimeout, Serves
<1>6. ASSUME NEW w \in Workers, OpenFail(w) \/ Register(w) PROVE WriteAlone'
  BY <1>6 DEF OpenFail, Register
<1>7. ASSUME NEW w \in Workers,
             OnEstablish(w) \/ RegisterTimer(w)
      PROVE  WriteAlone'
  BY <1>7 DEF OnEstablish, RegisterTimer
<1>8. ASSUME NEW w \in Workers,
             InitializeRead(w) \/ OnReceive(w)
      PROVE  WriteAlone'
  BY <1>8 DEF InitializeRead, OnReceive
<1>9. ASSUME NEW w \in Workers,
             AfterWrite(w) \/ AfterWriteError(w)
      PROVE  WriteAlone'
  BY <1>9 DEF AfterWrite, AfterWriteError
<1>10. ASSUME NEW w \in Workers,
             CheckCloseFlag(w) \/ ReplaceCloseFlag(w)
      PROVE  WriteAlone'
  BY <1>10 DEF CheckCloseFlag, ReplaceCloseFlag, Sees
<1>11. ASSUME NEW w \in Workers,
             CloseHandle(w) \/ NotifyClose(w) \/ ScheduleDelete(w)
      PROVE  WriteAlone'
  BY <1>11 DEF CloseHandle, NotifyClose, ScheduleDelete
<1>12. ASSUME NEW w \in Workers,
             TrySendLock(w) \/ PopQueue(w) \/ PopQueueEnd(w)
      PROVE  WriteAlone'
  BY <1>12 DEF TrySendLock, PopQueue, PopQueueEnd
<1>13. ASSUME NEW w \in Workers,
             ReleaseTimerLock(w) \/ CheckZombie(w)
      PROVE  WriteAlone'
  BY <1>13 DEF ReleaseTimerLock, CheckZombie
<1>14. ASSUME NEW a \in Apps,
             SendRequest(a) \/ CloseRequest(a) \/ CloseService(a)
      PROVE  WriteAlone'
  BY <1>14 DEF SendRequest, CloseRequest, CloseService
<1>15. CASE Expire \/ Delete \/ PeerClose
  BY <1>15 DEF Expire, Delete, PeerClose
<1>16. QED
  BY <1>1, <1>2, <1>3, <1>4, <1>5, <1>6, <1>7, <1>8, <1>9, <1>10, <1>11, <1>12,
     <1>13, <1>14, <1>15
     DEF Next, ThreadStep, CallStep, Sending, Completion, WorkerStep

(* The connection ends in order. *)
LEMMA EndingStep ==
    ASSUME PcMaps,
           ClosedFacts,
           AppsOutside,
           Ending,
           Next
    PROVE  Ending'
<1> USE ProactorAssumption DEF ClosedFacts, AppsOutside, Ending, PcMaps, Goto,
        PushEvent, sends, life, timing, TickPlaces, SendPlaces, ClosePlaces,
        OpenPlaces, Threads
<1>1. ASSUME NEW t \in Threads,
             ProbeNext(t) \/ CloseUnlessSet(t) \/ SetCloseFlag(t)
      PROVE  Ending'
  BY <1>1 DEF ProbeNext, CloseUnlessSet, SetCloseFlag, Reading, Sees
<1>2. ASSUME NEW t \in Threads, AcquireSendLock(t) \/ Requeue(t) PROVE Ending'
  BY <1>2 DEF AcquireSendLock, Requeue, Back
<1>3. ASSUME NEW t \in Threads,
             StartWrite(t) \/ StartWriteError(t)
      PROVE  Ending'
  BY <1>3 DEF StartWrite, StartWriteError, Back
<1>4. ASSUME NEW w \in Workers, WriteDone(w) \/ WriteFailed(w) PROVE Ending'
  BY <1>4 DEF WriteDone, WriteFailed, Serves
<1>5. ASSUME NEW w \in Workers,
             ReadDone(w) \/ ReadEnd(w) \/ HandleTimeout(w)
      PROVE  Ending'
  BY <1>5 DEF ReadDone, ReadEnd, HandleTimeout, Serves
<1>6. ASSUME NEW w \in Workers, OpenFail(w) \/ Register(w) PROVE Ending'
  BY <1>6 DEF OpenFail, Register
<1>7. ASSUME NEW w \in Workers,
             OnEstablish(w) \/ RegisterTimer(w)
      PROVE  Ending'
  BY <1>7 DEF OnEstablish, RegisterTimer
<1>8. ASSUME NEW w \in Workers, InitializeRead(w) \/ OnReceive(w) PROVE Ending'
  BY <1>8 DEF InitializeRead, OnReceive
<1>9. ASSUME NEW w \in Workers,
             AfterWrite(w) \/ AfterWriteError(w)
      PROVE  Ending'
  BY <1>9 DEF AfterWrite, AfterWriteError
<1>10. ASSUME NEW w \in Workers,
             CheckCloseFlag(w) \/ ReplaceCloseFlag(w)
      PROVE  Ending'
  BY <1>10 DEF CheckCloseFlag, ReplaceCloseFlag, Sees
<1>11. ASSUME NEW w \in Workers,
             CloseHandle(w) \/ NotifyClose(w) \/ ScheduleDelete(w)
      PROVE  Ending'
  BY <1>11 DEF CloseHandle, NotifyClose, ScheduleDelete
<1>12. ASSUME NEW w \in Workers,
             TrySendLock(w) \/ PopQueue(w) \/ PopQueueEnd(w)
      PROVE  Ending'
  BY <1>12 DEF TrySendLock, PopQueue, PopQueueEnd
<1>13. ASSUME NEW w \in Workers,
             ReleaseTimerLock(w) \/ CheckZombie(w)
      PROVE  Ending'
  BY <1>13 DEF ReleaseTimerLock, CheckZombie
<1>14. ASSUME NEW a \in Apps,
             SendRequest(a) \/ CloseRequest(a) \/ CloseService(a)
      PROVE  Ending'
  BY <1>14 DEF SendRequest, CloseRequest, CloseService
<1>15. CASE Expire \/ Delete \/ PeerClose
  BY <1>15 DEF Expire, Delete, PeerClose
<1>16. QED
  BY <1>1, <1>2, <1>3, <1>4, <1>5, <1>6, <1>7, <1>8, <1>9, <1>10, <1>11, <1>12,
     <1>13, <1>14, <1>15
     DEF Next, ThreadStep, CallStep, Sending, Completion, WorkerStep

(* It begins with one worker that nobody else can disturb. *)
LEMMA OpeningStep ==
    ASSUME PcMaps,
           ClosedFacts,
           AppsOutside,
           AppsOutside',
           Opening,
           Next
    PROVE  Opening'
<1> USE ProactorAssumption DEF ClosedFacts, AppsOutside, Opening, OpeningAt,
        PcMaps, Goto, PushEvent, sends, life, timing, TickPlaces, SendPlaces,
        ClosePlaces, OpenPlaces, Threads
<1>1. ASSUME NEW t \in Threads,
             ProbeNext(t) \/ CloseUnlessSet(t) \/ SetCloseFlag(t)
      PROVE  Opening'
  BY <1>1 DEF ProbeNext, CloseUnlessSet, SetCloseFlag, Reading, Sees
<1>2. ASSUME NEW t \in Threads, AcquireSendLock(t) \/ Requeue(t) PROVE Opening'
  BY <1>2 DEF AcquireSendLock, Requeue, Back
<1>3. ASSUME NEW t \in Threads,
             StartWrite(t) \/ StartWriteError(t)
      PROVE  Opening'
  BY <1>3 DEF StartWrite, StartWriteError, Back
<1>4. ASSUME NEW w \in Workers, WriteDone(w) PROVE Opening'
  BY <1>4 DEF WriteDone, Serves
<1>5. ASSUME NEW w \in Workers, WriteFailed(w) PROVE Opening'
  BY <1>5 DEF WriteFailed, Serves
<1>6. ASSUME NEW w \in Workers,
             ReadDone(w) \/ ReadEnd(w) \/ HandleTimeout(w)
      PROVE  Opening'
  BY <1>6 DEF ReadDone, ReadEnd, HandleTimeout, Serves
<1>7. ASSUME NEW w \in Workers, OpenFail(w) \/ Register(w) PROVE Opening'
  BY <1>7 DEF OpenFail, Register
<1>8. ASSUME NEW w \in Workers,
             OnEstablish(w) \/ RegisterTimer(w)
      PROVE  Opening'
  BY <1>8 DEF OnEstablish, RegisterTimer
<1>9. ASSUME NEW w \in Workers,
             InitializeRead(w) \/ OnReceive(w)
      PROVE  Opening'
  BY <1>9 DEF InitializeRead, OnReceive
<1>10. ASSUME NEW w \in Workers,
             AfterWrite(w) \/ AfterWriteError(w)
      PROVE  Opening'
  BY <1>10 DEF AfterWrite, AfterWriteError
<1>11. ASSUME NEW w \in Workers,
             CheckCloseFlag(w) \/ ReplaceCloseFlag(w)
      PROVE  Opening'
  BY <1>11 DEF CheckCloseFlag, ReplaceCloseFlag, Sees
<1>12. ASSUME NEW w \in Workers,
             CloseHandle(w) \/ NotifyClose(w) \/ ScheduleDelete(w)
      PROVE  Opening'
  BY <1>12 DEF CloseHandle, NotifyClose, ScheduleDelete
<1>13. ASSUME NEW w \in Workers,
             TrySendLock(w) \/ PopQueue(w) \/ PopQueueEnd(w)
      PROVE  Opening'
  BY <1>13 DEF TrySendLock, PopQueue, PopQueueEnd
<1>14. ASSUME NEW w \in Workers,
             ReleaseTimerLock(w) \/ CheckZombie(w)
      PROVE  Opening'
  BY <1>14 DEF ReleaseTimerLock, CheckZombie
<1>15. ASSUME NEW a \in Apps,
             SendRequest(a) \/ CloseRequest(a) \/ CloseService(a)
      PROVE  Opening'
  BY <1>15 DEF SendRequest, CloseRequest, CloseService
<1>16. CASE Expire \/ Delete \/ PeerClose
  BY <1>16 DEF Expire, Delete, PeerClose
<1>17. QED
  BY <1>1, <1>2, <1>3, <1>4, <1>5, <1>6, <1>7, <1>8, <1>9, <1>10, <1>11, <1>12,
     <1>13, <1>14, <1>15, <1>16
     DEF Next, ThreadStep, CallStep, Sending, Completion, WorkerStep

(* The right to push a Read has one owner. *)
LEMMA ReadAloneStep ==
    ASSUME PcMaps,
           ClosedFacts,
           AppsOutside,
           Opening,
           Ending,
           ReadAlone,
           Next
    PROVE  ReadAlone'
<1> USE ProactorAssumption DEF ClosedFacts, AppsOutside, Opening, Ending,
        ReadAlone, ReadingAt, PcMaps, Goto, PushEvent, sends, life, timing,
        TickPlaces, SendPlaces, ClosePlaces, OpenPlaces, Threads
<1>1. ASSUME NEW t \in Threads,
             ProbeNext(t) \/ CloseUnlessSet(t) \/ SetCloseFlag(t)
      PROVE  ReadAlone'
  BY <1>1 DEF ProbeNext, CloseUnlessSet, SetCloseFlag, Reading, Sees
<1>2. ASSUME NEW t \in Threads,
             AcquireSendLock(t) \/ Requeue(t)
      PROVE  ReadAlone'
  BY <1>2 DEF AcquireSendLock, Requeue, Back
<1>3. ASSUME NEW t \in Threads,
             StartWrite(t) \/ StartWriteError(t)
      PROVE  ReadAlone'
  BY <1>3 DEF StartWrite, StartWriteError, Back
<1>4. ASSUME NEW w \in Workers, WriteDone(w) PROVE ReadAlone'
  BY <1>4 DEF WriteDone, Serves
<1>5. ASSUME NEW w \in Workers, WriteFailed(w) PROVE ReadAlone'
  BY <1>5 DEF WriteFailed, Serves
<1>6. ASSUME NEW w \in Workers,
             ReadDone(w) \/ ReadEnd(w) \/ HandleTimeout(w)
      PROVE  ReadAlone'
  BY <1>6 DEF ReadDone, ReadEnd, HandleTimeout, Serves
<1>7. ASSUME NEW w \in Workers, OpenFail(w) \/ Register(w) PROVE ReadAlone'
  BY <1>7 DEF OpenFail, Register
<1>8. ASSUME NEW w \in Workers,
             OnEstablish(w) \/ RegisterTimer(w)
      PROVE  ReadAlone'
  BY <1>8 DEF OnEstablish, RegisterTimer
<1>9. ASSUME NEW w \in Workers,
             InitializeRead(w) \/ OnReceive(w)
      PROVE  ReadAlone'
  BY <1>9 DEF InitializeRead, OnReceive
<1>10. ASSUME NEW w \in Workers,
             AfterWrite(w) \/ AfterWriteError(w)
      PROVE  ReadAlone'
  BY <1>10 DEF AfterWrite, AfterWriteError
<1>11. ASSUME NEW w \in Workers,
             CheckCloseFlag(w) \/ ReplaceCloseFlag(w)
      PROVE  ReadAlone'
  BY <1>11 DEF CheckCloseFlag, ReplaceCloseFlag, Sees
<1>12. ASSUME NEW w \in Workers,
             CloseHandle(w) \/ NotifyClose(w) \/ ScheduleDelete(w)
      PROVE  ReadAlone'
  BY <1>12 DEF CloseHandle, NotifyClose, ScheduleDelete
<1>13. ASSUME NEW w \in Workers, TrySendLock(w) PROVE ReadAlone'
  BY <1>13 DEF TrySendLock
<1>14. ASSUME NEW w \in Workers, PopQueue(w) PROVE ReadAlone'
  BY <1>14 DEF PopQueue
<1>15. ASSUME NEW w \in Workers, PopQueueEnd(w) PROVE ReadAlone'
  BY <1>15 DEF PopQueueEnd
<1>16. ASSUME NEW w \in Workers,
             ReleaseTimerLock(w) \/ CheckZombie(w)
      PROVE  ReadAlone'
  BY <1>16 DEF ReleaseTimerLock, CheckZombie
<1>17. ASSUME NEW a \in Apps,
             SendRequest(a) \/ CloseRequest(a) \/ CloseService(a)
      PROVE  ReadAlone'
  BY <1>17 DEF SendRequest, CloseRequest, CloseService
<1>18. CASE Expire \/ Delete \/ PeerClose
  BY <1>18 DEF Expire, Delete, PeerClose
<1>19. QED
  BY <1>1, <1>2, <1>3, <1>4, <1>5, <1>6, <1>7, <1>8, <1>9, <1>10, <1>11, <1>12,
     <1>13, <1>14, <1>15, <1>16, <1>17, <1>18
     DEF Next, ThreadStep, CallStep, Sending, Completion, WorkerStep

-----------------------------------------------------------------------------
(* The events: one of three actions pushes each. *)
LEMMA EventSteps ==
    ASSUME Next
    PROVE  \/ UNCHANGED events
           \/ \E w \in Workers :
                 OnEstablish(w) \/ OnReceive(w) \/ NotifyClose(w)
<1> USE DEF sends, life, timing
<1>1. ASSUME NEW t \in Threads, CallStep(t)
      PROVE  UNCHANGED events
  BY <1>1 DEF CallStep, Sending, ProbeNext, CloseUnlessSet, SetCloseFlag,
     AcquireSendLock, Requeue, StartWrite, StartWriteError
<1>2. ASSUME NEW w \in Workers, Completion(w)
      PROVE  UNCHANGED events
  BY <1>2 DEF Completion, WriteDone, WriteFailed, ReadDone, ReadEnd,
     HandleTimeout
<1>3. ASSUME NEW w \in Workers, WorkerStep(w)
      PROVE  \/ UNCHANGED events
             \/ OnEstablish(w) \/ OnReceive(w) \/ NotifyClose(w)
  BY <1>3 DEF WorkerStep, OpenFail, Register, InitializeRead, RegisterTimer,
     AfterWrite, AfterWriteError, CheckCloseFlag, ReplaceCloseFlag,
     CloseHandle, ScheduleDelete, TrySendLock, PopQueue, PopQueueEnd,
     ReleaseTimerLock, CheckZombie
<1>4. ASSUME NEW a \in Apps,
             SendRequest(a) \/ CloseRequest(a) \/ CloseService(a)
      PROVE  UNCHANGED events
  BY <1>4 DEF SendRequest, CloseRequest, CloseService
<1>5. CASE Expire \/ Delete \/ PeerClose
  BY <1>5 DEF Expire, Delete, PeerClose
<1>6. QED
  BY <1>1, <1>2, <1>3, <1>4, <1>5 DEF Next, ThreadStep

(* Establish is the first event and no other one is. *)
LEMMA EstablishFirstStep ==
    ASSUME TypeOK, AppsOutside, Opening, EstablishFirst, Next
    PROVE  EstablishFirst'
<1> USE DEF Goto, Opening, EstablishFirst
<1>1. Len(events) \in Nat /\ (events = <<>> <=> Len(events) = 0)
  BY DEF TypeOK
<1>2. CASE UNCHANGED events
  BY <1>2
<1>3. ASSUME NEW w \in Workers, OnEstablish(w)
      PROVE  EstablishFirst'
  <2>1. events = <<>> /\ PushEvent("Establish")
    BY <1>3 DEF OnEstablish, Threads
  <2>2. QED
    BY <1>1, <2>1, PushFacts
<1>4. ASSUME NEW w \in Workers, OnReceive(w)
      PROVE  EstablishFirst'
  <2>1. events # <<>> /\ PushEvent("Read")
    BY <1>4 DEF OnReceive
  <2>2. QED
    BY <1>1, <2>1, PushFacts
<1>5. ASSUME NEW w \in Workers, NotifyClose(w)
      PROVE  EstablishFirst'
  <2>1. events # <<>> /\ PushEvent("Close")
    BY <1>5 DEF NotifyClose
  <2>2. QED
    BY <1>1, <2>1, PushFacts
<1>6. QED
  BY <1>2, <1>3, <1>4, <1>5, EventSteps

(* Only a read that is started adds to the pending ones. *)
LEMMA PendingStep ==
    ASSUME PcMaps,
           AppsOutside,
           "in" \notin socket,
           Next
    PROVE  (ReadPending' => ReadPending)
<1> USE ProactorAssumption DEF AppsOutside, ReadPending, PcMaps, Goto,
        PushEvent, sends, life, timing, TickPlaces, SendPlaces, ClosePlaces,
        OpenPlaces, Threads
<1>1. ASSUME NEW t \in Threads,
             ProbeNext(t) \/ CloseUnlessSet(t) \/ SetCloseFlag(t)
      PROVE  (ReadPending' => ReadPending)
  BY <1>1 DEF ProbeNext, CloseUnlessSet, SetCloseFlag, Reading, Sees
<1>2. ASSUME NEW t \in Threads,
             AcquireSendLock(t) \/ Requeue(t)
      PROVE  (ReadPending' => ReadPending)
  BY <1>2 DEF AcquireSendLock, Requeue, Back
<1>3. ASSUME NEW t \in Threads,
             StartWrite(t) \/ StartWriteError(t)
      PROVE  (ReadPending' => ReadPending)
  BY <1>3 DEF StartWrite, StartWriteError, Back
<1>4. ASSUME NEW w \in Workers,
             WriteDone(w) \/ WriteFailed(w)
      PROVE  (ReadPending' => ReadPending)
  BY <1>4 DEF WriteDone, WriteFailed, Serves
<1>5. ASSUME NEW w \in Workers,
             ReadDone(w) \/ ReadEnd(w) \/ HandleTimeout(w)
      PROVE  (ReadPending' => ReadPending)
  BY <1>5 DEF ReadDone, ReadEnd, HandleTimeout, Serves
<1>6. ASSUME NEW w \in Workers,
             OpenFail(w) \/ Register(w)
      PROVE  (ReadPending' => ReadPending)
  BY <1>6 DEF OpenFail, Register
<1>7. ASSUME NEW w \in Workers,
             OnEstablish(w) \/ RegisterTimer(w)
      PROVE  (ReadPending' => ReadPending)
  BY <1>7 DEF OnEstablish, RegisterTimer
<1>8. ASSUME NEW w \in Workers,
             InitializeRead(w) \/ OnReceive(w)
      PROVE  (ReadPending' => ReadPending)
  BY <1>8 DEF InitializeRead, OnReceive
<1>9. ASSUME NEW w \in Workers,
             AfterWrite(w) \/ AfterWriteError(w)
      PROVE  (ReadPending' => ReadPending)
  BY <1>9 DEF AfterWrite, AfterWriteError
<1>10. ASSUME NEW w \in Workers,
             CheckCloseFlag(w) \/ ReplaceCloseFlag(w)
      PROVE  (ReadPending' => ReadPending)
  BY <1>10 DEF CheckCloseFlag, ReplaceCloseFlag, Sees
<1>11. ASSUME NEW w \in Workers,
             CloseHandle(w) \/ NotifyClose(w) \/ ScheduleDelete(w)
      PROVE  (ReadPending' => ReadPending)
  BY <1>11 DEF CloseHandle, NotifyClose, ScheduleDelete
<1>12. ASSUME NEW w \in Workers,
             TrySendLock(w) \/ PopQueue(w) \/ PopQueueEnd(w)
      PROVE  (ReadPending' => ReadPending)
  BY <1>12 DEF TrySendLock, PopQueue, PopQueueEnd
<1>13. ASSUME NEW w \in Workers,
             ReleaseTimerLock(w) \/ CheckZombie(w)
      PROVE  (ReadPending' => ReadPending)
  BY <1>13 DEF ReleaseTimerLock, CheckZombie
<1>14. ASSUME NEW a \in Apps,
             SendRequest(a) \/ CloseRequest(a) \/ CloseService(a)
      PROVE  (ReadPending' => ReadPending)
  BY <1>14 DEF SendRequest, CloseRequest, CloseService
<1>15. CASE Expire \/ Delete \/ PeerClose
  BY <1>15 DEF Expire, Delete, PeerClose
<1>16. QED
  BY <1>1, <1>2, <1>3, <1>4, <1>5, <1>6, <1>7, <1>8, <1>9, <1>10, <1>11, <1>12,
     <1>13, <1>14, <1>15
     DEF Next, ThreadStep, CallStep, Sending, Completion, WorkerStep

(* A Read that comes after Close uses up the pending read. *)
LEMMA LastReadStep ==
    ASSUME TypeOK, AppsOutside, Opening, ReadAlone, LastRead, Next
    PROVE  LastRead'
<1>1. Len(events) \in Nat /\ DOMAIN events = 1 .. Len(events)
  BY DEF TypeOK
<1>2. Closed => (ReadPending' => ReadPending)
  BY PcFacts, PendingStep DEF ReadAlone
<1>3. \A i \in DOMAIN events : events[i] = "Close" => Closed
  BY DEF Closed, ToSet
<1>4. CASE UNCHANGED events
  BY <1>2, <1>3, <1>4 DEF LastRead
<1>5. ASSUME NEW w \in Workers, OnEstablish(w)
      PROVE  LastRead'
  <2>1. events = <<>> /\ PushEvent("Establish")
    BY <1>5 DEF OnEstablish, Opening, Threads
  <2>2. DOMAIN events' = {1} /\ events'[1] = "Establish"
    BY <2>1, PushFacts
  <2>3. QED
    BY <2>2 DEF LastRead
<1>6. ASSUME NEW w \in Workers, OnReceive(w)
      PROVE  LastRead'
  <2>1. PushEvent("Read")
    BY <1>6 DEF OnReceive
  <2>2. ReadPending /\ ~ReadPending'
    <3>1. pc[w] = "received" /\ pc' = [pc EXCEPT ![w] = "reread"]
      BY <1>6 DEF OnReceive, Goto
    <3>2. reading' = reading /\ reading = FALSE
      BY <1>6, <3>1 DEF OnReceive, ReadAlone, ReadingAt, Threads, TypeOK
    <3>3. \A u \in Threads : pc'[u] # "received"
      BY <3>1, PcFacts DEF ReadAlone, ReadingAt, Threads, PcMaps
    <3>4. QED
      BY <3>1, <3>2, <3>3 DEF ReadPending, Threads
  <2>3. \A i, j \in DOMAIN events :
           events[i] = "Close" /\ j > i => events[j] # "Read"
    BY <2>2 DEF LastRead
  <2>4. \A i, j \in DOMAIN events' :
           /\ events'[i] = "Close" /\ j > i /\ events'[j] = "Read"
           => j = Len(events) + 1
    BY <1>1, <2>1, <2>3, PushFacts
  <2>5. QED
    BY <2>2, <2>4 DEF LastRead
<1>7. ASSUME NEW w \in Workers, NotifyClose(w)
      PROVE  LastRead'
  <2>1. PushEvent("Close")
    BY <1>7 DEF NotifyClose
  <2>2. ASSUME NEW i \in DOMAIN events', events'[i] = "Close"
        PROVE  /\ ReadPending' =>
                    \A j \in DOMAIN events' : j > i => events'[j] # "Read"
               /\ \A j, k \in DOMAIN events' :
                     /\ j > i /\ events'[j] = "Read"
                     /\ k > i /\ events'[k] = "Read"
                     => j = k
    <3>1. CASE i \in DOMAIN events
      <4>1. events[i] = "Close" /\ Closed
        BY <1>1, <1>3, <2>1, <2>2, <3>1, PushFacts
      <4>2. \A j \in DOMAIN events' :
               events'[j] = "Read" => j \in DOMAIN events /\ events[j] = "Read"
        BY <1>1, <2>1, PushFacts
      <4>3. QED
        BY <1>2, <3>1, <4>1, <4>2 DEF LastRead
    <3>2. CASE i \notin DOMAIN events
      <4>1. i = Len(events) + 1
        BY <1>1, <2>1, <3>2, PushFacts
      <4>2. \A j \in DOMAIN events' : ~(j > i)
        BY <1>1, <2>1, <4>1, PushFacts
      <4>3. QED
        BY <4>2
    <3>3. QED
      BY <3>1, <3>2
  <2>3. QED
    BY <2>2 DEF LastRead
<1>8. QED
  BY <1>4, <1>5, <1>6, <1>7, EventSteps

-----------------------------------------------------------------------------
(* The whole is inductive. *)
LEMMA InitIInv ==
    ASSUME Init
    PROVE  IInv
<1> USE ProactorAssumption DEF TickPlaces, SendPlaces, ClosePlaces, OpenPlaces,
        Threads
<1>1. PICK w \in Workers :
         pc = [t \in Threads |-> IF t = w THEN "open" ELSE "idle"]
  BY DEF Init
<1>2. AppsOutside
  BY <1>1 DEF AppsOutside
<1>3. TickAlone
  BY <1>1 DEF Init, TickAlone, TickingAt
<1>4. WriteAlone
  BY <1>1 DEF Init, WriteAlone, WritingAt
<1>5. Ending
  BY <1>1 DEF Init, Ending
<1>6. Opening
  BY <1>1 DEF Init, Opening, OpeningAt
<1>7. ~Closed
  BY DEF Init, Closed, ToSet
<1>8. ReadAlone
  BY <1>1, <1>7 DEF Init, ReadAlone, ReadingAt
<1>9. LastRead /\ EstablishFirst
  BY DEF Init, LastRead, EstablishFirst
<1>10. QED
  BY InitTypes, <1>2, <1>3, <1>4, <1>5, <1>6, <1>8, <1>9 DEF IInv

LEMMA NextIInv ==
    ASSUME IInv, [Next]_vars
    PROVE  IInv'
<1>1. /\ TypeOK /\ TypeOK'
      /\ PcMaps /\ ClosedFacts
  BY NextTypes, PcFacts, ClosedSteps DEF IInv
<1>2. CASE Next
  <2>1. AppsOutside'
    BY <1>1, <1>2, AppsOutsideStep DEF IInv
  <2>2. TickAlone' /\ WriteAlone'
    BY <1>1, <1>2, <2>1, TickAloneStep, WriteAloneStep DEF IInv
  <2>3. Ending' /\ Opening'
    BY <1>1, <1>2, <2>1, EndingStep, OpeningStep DEF IInv
  <2>4. ReadAlone' /\ LastRead' /\ EstablishFirst'
    BY <1>1, <1>2, ReadAloneStep, LastReadStep, EstablishFirstStep DEF IInv
  <2>5. QED
    BY <1>1, <2>1, <2>2, <2>3, <2>4 DEF IInv
<1>3. CASE UNCHANGED vars
  BY <1>1, <1>3 DEF vars, sends, life, timing, IInv, AppsOutside, TickAlone,
     TickingAt, WriteAlone, WritingAt, Ending, Opening, OpeningAt, ReadAlone,
     ReadingAt, LastRead, ReadPending, EstablishFirst, Closed
<1>4. QED
  BY <1>2, <1>3

LEMMA IInvHolds == Spec => []IInv
  BY InitIInv, NextIInv, PTL DEF Spec

(* One worker at a time serves the timer, however many completions wait    *)
(* (ProactorService.cpp:134-140).                                          *)
THEOREM OneTickHolds == Spec => []OneTick
<1>1. ASSUME IInv
      PROVE  OneTick
  <2> DEFINE Ticking == {t \in Threads : TickingAt(t)}
  <2>1. \A t, u \in Ticking : t = u
    BY <1>1 DEF IInv, TickAlone
  <2>2. Cardinality(Ticking) \in {0, 1}
    BY <2>1, AtMostOne
  <2>3. QED
    BY <1>1, <2>2 DEF IInv, TickAlone, OneTick
<1>2. QED
  BY <1>1, IInvHolds, PTL

(* The socket has one write at a time (ProactorService.cpp:97-128,         *)
(* 304-350).                                                               *)
THEOREM OneWriteHolds == Spec => []OneWrite
<1>1. ASSUME IInv
      PROVE  OneWrite
  <2>1. \A t, u \in Writers : t = u
    BY <1>1 DEF IInv, WriteAlone, WritingAt, Writers
  <2>2. /\ Cardinality(Writers) \in {0, 1}
        /\ Writers = {} <=> Cardinality(Writers) = 0
    BY <2>1, AtMostOne
  <2>3. Writers # {} => sendLock /\ writing = <<>>
    BY <1>1 DEF IInv, WriteAlone, WritingAt, Writers
  <2>4. writing # <<>> => sendLock
    BY <1>1 DEF IInv, WriteAlone
  <2>5. QED
    BY <2>2, <2>3, <2>4 DEF OneWrite
<1>2. QED
  BY <1>1, IInvHolds, PTL

(* The application hears Establish first and after Close at most the one   *)
(* Read that was in hand (ProactorService.cpp:81-95, 261-271).             *)
THEOREM EventOrderHolds == Spec => []EventOrder
<1>1. ASSUME IInv
      PROVE  EventOrder
  <2>1. ASSUME NEW i \in DOMAIN events, events[i] = "Close"
        PROVE  Cardinality({j \in DOMAIN events :
                              j > i /\ events[j] = "Read"}) <= 1
    <3> DEFINE Reads == {j \in DOMAIN events : j > i /\ events[j] = "Read"}
    <3>1. \A j, k \in Reads : j = k
      BY <1>1, <2>1 DEF IInv, LastRead
    <3>2. Cardinality(Reads) \in {0, 1}
      BY <3>1, AtMostOne
    <3>3. QED
      BY <3>2
  <2>2. QED
    BY <1>1, <2>1 DEF IInv, EstablishFirst, EventOrder
<1>2. QED
  BY <1>1, IInvHolds, PTL

(* The id goes back to the registry when Close was pushed under it and the *)
(* socket is closed, and as long as the id can be looked up the object     *)
(* exists (ProactorService.cpp:55-62, 261-271).                            *)
THEOREM IdFreedAfterCloseHolds == Spec => []IdFreedAfterClose
<1>1. ASSUME IInv
      PROVE  IdFreedAfterClose
  BY <1>1 DEF IInv, Ending, IdFreedAfterClose
<1>2. QED
  BY <1>1, IInvHolds, PTL

-----------------------------------------------------------------------------
(* The bytes.  Each is in one place, and behind the one before it in its   *)
(* block (SequenceFacts).  A thread that has nothing to send holds none;   *)
(* and while a thread has the send lock no write is outstanding, so that   *)
(* starting one forgets none (WriteAlone).                                 *)
HandPlaces == {"lock", "write", "requeue", "wrote", "pop"}

HandFree == \A t \in Threads : pc[t] \notin HandPlaces => hand[t] = <<>>

Placed(b) == /\ Once(b, wire, writing, hand, sendQueue, dropped)
             /\ Known(b, wire, writing, hand, sendQueue, dropped)
                   <=> b[2] <= requests[b[1]]

StreamInv == /\ IInv /\ HandFree
             /\ Chained(wire, writing, hand, sendQueue)
             /\ \A b \in Bytes : Placed(b)

(* What a step may do to the bytes. *)
KeepsBytes == UNCHANGED <<wire, writing, hand, sendQueue, dropped, requests>>

DropsHand(t, why) == /\ Drop(ToSet(hand[t]), why)
                     /\ hand' = [hand EXCEPT ![t] = <<>>]
                     /\ UNCHANGED <<wire, writing, sendQueue, requests>>

QueuesHand(t) == /\ sendQueue' = Append(sendQueue, hand[t])
                 /\ hand' = [hand EXCEPT ![t] = <<>>]
                 /\ UNCHANGED <<wire, writing, dropped, requests>>

WritesHand(t) == /\ pc[t] \in {"write", "wrote"}
                 /\ writing' = hand[t]
                 /\ hand' = [hand EXCEPT ![t] = <<>>]
                 /\ UNCHANGED <<wire, sendQueue, dropped, requests>>

LEMMA CallBytes ==
    ASSUME NEW t \in Threads, CallStep(t)
    PROVE  \/ KeepsBytes \/ QueuesHand(t) \/ WritesHand(t)
           \/ \E why \in {"full", "failed"} : DropsHand(t, why)
<1>1. CASE ProbeNext(t) \/ CloseUnlessSet(t) \/ SetCloseFlag(t)
  BY <1>1 DEF ProbeNext, CloseUnlessSet, SetCloseFlag, sends, KeepsBytes
<1>2. CASE AcquireSendLock(t)
  BY <1>2 DEF AcquireSendLock, KeepsBytes
<1>3. CASE Requeue(t)
  <2>1. CASE Len(sendQueue) >= SendCap
    BY <1>3, <2>1 DEF Requeue, PushQueue, DropsHand
  <2>2. CASE ~(Len(sendQueue) >= SendCap)
    BY <1>3, <2>2 DEF Requeue, PushQueue, QueuesHand
  <2>3. QED
    BY <2>1, <2>2
<1>4. CASE StartWrite(t)
  BY <1>4 DEF StartWrite, WritesHand
<1>5. CASE StartWriteError(t)
  BY <1>5 DEF StartWriteError, DropsHand
<1>6. QED
  BY <1>1, <1>2, <1>3, <1>4, <1>5 DEF CallStep, Sending

LEMMA WorkerBytes ==
    ASSUME NEW w \in Workers, WorkerStep(w)
    PROVE  \/ KeepsBytes \/ PopQueue(w) \/ WritesHand(w)
           \/ DropsHand(w, "failed")
<1> USE DEF sends, KeepsBytes
<1>1. CASE OpenFail(w) \/ Register(w) \/ OnEstablish(w) \/ InitializeRead(w)
  BY <1>1 DEF OpenFail, Register, OnEstablish, InitializeRead
<1>2. CASE RegisterTimer(w) \/ OnReceive(w) \/ CheckCloseFlag(w)
  BY <1>2 DEF RegisterTimer, OnReceive, CheckCloseFlag
<1>3. CASE ReplaceCloseFlag(w) \/ CloseHandle(w) \/ NotifyClose(w)
  BY <1>3 DEF ReplaceCloseFlag, CloseHandle, NotifyClose
<1>4. CASE ScheduleDelete(w) \/ TrySendLock(w) \/ PopQueueEnd(w)
  BY <1>4 DEF ScheduleDelete, TrySendLock, PopQueueEnd
<1>5. CASE ReleaseTimerLock(w) \/ CheckZombie(w)
  BY <1>5 DEF ReleaseTimerLock, CheckZombie
<1>6. CASE AfterWrite(w)
  BY <1>6 DEF AfterWrite, WritesHand
<1>7. CASE AfterWriteError(w)
  BY <1>7 DEF AfterWriteError, DropsHand
<1>8. QED
  BY <1>1, <1>2, <1>3, <1>4, <1>5, <1>6, <1>7 DEF WorkerStep

LEMMA NextBytes ==
    ASSUME [Next]_vars
    PROVE  \/ KeepsBytes \/ Delete
           \/ \E a \in Apps : SendRequest(a)
           \/ \E w \in Workers : WriteDone(w) \/ WriteFailed(w) \/ PopQueue(w)
           \/ \E t \in Threads :
                 \/ QueuesHand(t) \/ WritesHand(t)
                 \/ \E why \in {"full", "failed"} : DropsHand(t, why)
<1> USE DEF sends, KeepsBytes
<1>1. CASE UNCHANGED vars
  BY <1>1 DEF vars
<1>2. CASE Expire \/ PeerClose
  BY <1>2 DEF Expire, PeerClose
<1>3. ASSUME NEW a \in Apps, CloseRequest(a) \/ CloseService(a)
      PROVE  KeepsBytes
  BY <1>3 DEF CloseRequest, CloseService
<1>4. ASSUME NEW w \in Workers, Completion(w)
      PROVE  KeepsBytes \/ WriteDone(w) \/ WriteFailed(w)
  BY <1>4 DEF Completion, ReadDone, ReadEnd, HandleTimeout
<1> HIDE DEF KeepsBytes
<1>5. ASSUME NEW t \in Threads, ThreadStep(t)
      PROVE  \/ KeepsBytes \/ QueuesHand(t) \/ WritesHand(t)
             \/ t \in Workers /\ PopQueue(t)
             \/ \E why \in {"full", "failed"} : DropsHand(t, why)
  BY <1>5, CallBytes, WorkerBytes DEF ThreadStep
<1>6. QED
  BY <1>1, <1>2, <1>3, <1>4, <1>5 DEF Next

(* What a step does to the hands. *)
Frees(t) == /\ \A u \in Threads \ {t} : pc'[u] = pc[u] /\ hand'[u] = hand[u]
            /\ \/ pc'[t] \in HandPlaces
               \/ hand'[t] = <<>>
               \/ pc[t] \notin HandPlaces /\ hand'[t] = hand[t]

LEMMA FreesEnough ==
    ASSUME HandFree, NEW t \in Threads, Frees(t)
    PROVE  HandFree'
  BY DEF HandFree, Frees

HandMaps == hand \in [Threads -> Seq(Bytes)]

LEMMA CallFrees ==
    ASSUME PcMaps, HandMaps, NEW t \in Threads, CallStep(t)
    PROVE  Frees(t)
<1> USE DEF PcMaps, HandMaps, Frees, HandPlaces, Goto, sends
<1>1. CASE ProbeNext(t)
  BY <1>1 DEF ProbeNext, Reading
<1>2. CASE CloseUnlessSet(t)
  <2>1. /\ pc[t] \in {"disable", "receive"} /\ \E place : Goto(t, place)
        /\ hand' = hand
    BY <1>2 DEF CloseUnlessSet
  <2>2. QED
    BY <2>1
<1>3. CASE SetCloseFlag(t)
  BY <1>3 DEF SetCloseFlag
<1>4. CASE AcquireSendLock(t)
  BY <1>4 DEF AcquireSendLock
<1>5. CASE Requeue(t) \/ StartWrite(t) \/ StartWriteError(t)
  <2>1. (\E place : Goto(t, place)) /\ hand' = [hand EXCEPT ![t] = <<>>]
    BY <1>5 DEF Requeue, StartWrite, StartWriteError
  <2>2. QED
    BY <2>1
<1>6. QED
  BY <1>1, <1>2, <1>3, <1>4, <1>5 DEF CallStep, Sending

LEMMA WorkerFrees ==
    ASSUME PcMaps, HandMaps, NEW t \in Threads, WorkerStep(t)
    PROVE  Frees(t)
<1> USE DEF sends
<1>1. ASSUME pc[t] \notin HandPlaces, \E place : Goto(t, place), hand' = hand
      PROVE  Frees(t)
  BY <1>1 DEF Frees, PcMaps, Goto
<1>2. CASE OpenFail(t) \/ Register(t) \/ OnEstablish(t) \/ InitializeRead(t)
  BY <1>1, <1>2 DEF OpenFail, Register, OnEstablish, InitializeRead, HandPlaces
<1>3. CASE RegisterTimer(t) \/ OnReceive(t)
  BY <1>1, <1>3 DEF RegisterTimer, OnReceive, HandPlaces
<1>4. CASE CheckCloseFlag(t)
  <2>1. pc[t] = "tick" /\ (\E place : Goto(t, place)) /\ hand' = hand
    BY <1>4 DEF CheckCloseFlag
  <2>2. QED
    BY <1>1, <2>1 DEF HandPlaces
<1>5. CASE ReplaceCloseFlag(t) \/ CloseHandle(t) \/ NotifyClose(t)
  BY <1>1, <1>5 DEF ReplaceCloseFlag, CloseHandle, NotifyClose, HandPlaces
<1>6. CASE ScheduleDelete(t) \/ TrySendLock(t) \/ ReleaseTimerLock(t)
  BY <1>1, <1>6 DEF ScheduleDelete, TrySendLock, ReleaseTimerLock, HandPlaces
<1>7. CASE CheckZombie(t)
  <2>1. pc[t] = "zombie" /\ (\E place : Goto(t, place)) /\ hand' = hand
    BY <1>7 DEF CheckZombie
  <2>2. QED
    BY <1>1, <2>1 DEF HandPlaces
<1>8. CASE PopQueue(t)
  <2>1. /\ pc[t] = "pop" /\ pc' = pc
        /\ \E s : hand' = [hand EXCEPT ![t] = s]
    BY <1>8 DEF PopQueue
  <2>2. QED
    BY <2>1 DEF Frees, HandPlaces, HandMaps
<1>9. CASE PopQueueEnd(t)
  BY <1>9 DEF PopQueueEnd, Frees, HandPlaces, PcMaps, Goto
<1>10. CASE AfterWrite(t)
  BY <1>10 DEF AfterWrite, Frees, PcMaps, HandMaps, Goto
<1>11. CASE AfterWriteError(t)
  <2>1. CASE pc[t] = "wrote"
    <3>1. Goto(t, "release") /\ hand' = [hand EXCEPT ![t] = <<>>]
      BY <1>11, <2>1 DEF AfterWriteError
    <3>2. QED
      BY <3>1 DEF Frees, PcMaps, HandMaps, Goto
  <2>2. CASE pc[t] # "wrote"
    <3>1. pc[t] = "release" /\ Goto(t, "idle") /\ hand' = hand
      BY <1>11, <2>2 DEF AfterWriteError
    <3>2. QED
      BY <1>1, <3>1 DEF HandPlaces
  <2>3. QED
    BY <2>1, <2>2
<1>12. QED
  BY <1>2, <1>3, <1>4, <1>5, <1>6, <1>7, <1>8, <1>9, <1>10, <1>11
     DEF WorkerStep

LEMMA NextFree ==
    ASSUME TypeOK, HandFree, [Next]_vars
    PROVE  HandFree'
<1>1. PcMaps /\ HandMaps
  BY PcFacts DEF TypeOK, HandMaps
<1>2. CASE UNCHANGED vars
  BY <1>2 DEF vars, sends, HandFree
<1>3. CASE Expire \/ PeerClose \/ Delete
  BY <1>3 DEF Expire, PeerClose, Delete, sends, HandFree
<1>4. ASSUME NEW a \in Apps, SendRequest(a) PROVE HandFree'
  <2>1. /\ \E place \in {"lock", "requeue"} : Goto(a, place)
        /\ \E s : hand' = [hand EXCEPT ![a] = s]
        /\ a \in Threads
    BY <1>4 DEF SendRequest, Threads
  <2>2. Frees(a)
    BY <1>1, <2>1 DEF Frees, PcMaps, HandMaps, Goto, HandPlaces
  <2>3. QED
    BY <2>1, <2>2, FreesEnough
<1>5. ASSUME NEW a \in Apps, CloseRequest(a) \/ CloseService(a)
      PROVE  HandFree'
  <2>1. /\ pc[a] = "idle" /\ \E place : Goto(a, place)
        /\ hand' = hand /\ a \in Threads
    BY <1>5 DEF CloseRequest, CloseService, sends, Threads
  <2>2. Frees(a)
    BY <1>1, <2>1 DEF Frees, PcMaps, Goto, HandPlaces
  <2>3. QED
    BY <2>1, <2>2, FreesEnough
<1>6. ASSUME NEW w \in Workers, Completion(w) PROVE HandFree'
  <2> USE DEF Serves, sends, Goto, PcMaps, HandMaps, Frees, HandPlaces
  <2>1. w \in Threads
    BY DEF Threads
  <2>2. CASE WriteDone(w)
    <3>1. Goto(w, "wrote") /\ \E s : hand' = [hand EXCEPT ![w] = s]
      BY <2>2 DEF WriteDone
    <3>2. QED
      BY <1>1, <2>1, <3>1, FreesEnough
  <2>3. CASE WriteFailed(w) \/ ReadEnd(w)
    <3>1. pc' = pc /\ hand' = hand
      BY <2>3 DEF WriteFailed, ReadEnd
    <3>2. QED
      BY <3>1 DEF HandFree
  <2>4. CASE ReadDone(w) \/ HandleTimeout(w)
    <3>1. pc[w] = "idle" /\ (\E place : Goto(w, place)) /\ hand' = hand
      BY <2>4 DEF ReadDone, HandleTimeout
    <3>2. QED
      BY <1>1, <2>1, <3>1, FreesEnough
  <2>5. QED
    BY <1>6, <2>2, <2>3, <2>4 DEF Completion
<1>7. ASSUME NEW t \in Threads, ThreadStep(t) PROVE HandFree'
  BY <1>1, <1>7, CallFrees, WorkerFrees, FreesEnough DEF ThreadStep
<1>8. QED
  BY <1>2, <1>3, <1>4, <1>5, <1>6, <1>7 DEF Next

-----------------------------------------------------------------------------
(* Each byte stays in one place. *)
LEMMA HandTypes ==
    ASSUME TypeOK
    PROVE  /\ hand \in [Threads -> Seq(Bytes)] /\ wire \in Seq(Bytes)
           /\ writing \in Seq(Bytes)
           /\ sendQueue \in Seq(Seq(Bytes))
           /\ requests \in [Apps -> 0 .. MaxRequests]
  BY DEF TypeOK

LEMMA RequestPlaced ==
    ASSUME TypeOK, HandFree, NEW b \in Bytes, Placed(b),
           NEW a \in Apps, SendRequest(a)
    PROVE  Placed(b)'
<1> DEFINE s == Block(a, requests[a] + 1)
<1>1. /\ hand' = [hand EXCEPT ![a] = s]
      /\ requests' = [requests EXCEPT ![a] = requests[a] + 1]
      /\ UNCHANGED <<wire, writing, sendQueue, dropped>>
      /\ hand[a] = <<>> /\ a \in Threads /\ requests[a] \in Nat
      /\ requests[a] < MaxRequests
  <2>1. /\ requests' = [requests EXCEPT ![a] = requests[a] + 1]
        /\ hand' = [hand EXCEPT ![a] = Block(a, requests'[a])]
        /\ UNCHANGED <<wire, writing, sendQueue, dropped>>
        /\ pc[a] = "idle" /\ requests[a] < MaxRequests
    BY DEF SendRequest
  <2>2. requests[a] \in Nat /\ requests'[a] = requests[a] + 1
    BY <2>1, HandTypes
  <2>3. a \in Threads /\ hand[a] = <<>>
    BY <2>1 DEF HandFree, HandPlaces, Threads
  <2>4. QED
    BY <2>1, <2>2, <2>3
<1>2. b \in Apps \X (1 .. MaxRequests) \X (1 .. BlockLen) /\ BlockLen \in Nat
  BY ProactorAssumption DEF Bytes
<1>3. /\ DOMAIN s = 1 .. BlockLen
      /\ \A i \in 1 .. BlockLen : s[i] = <<a, requests[a] + 1, i>>
  BY DEF Block
<1>4. s \in Seq(Bytes)
  <2>1. requests[a] + 1 \in 1 .. MaxRequests
    BY <1>1, ProactorAssumption
  <2>2. \A i \in 1 .. BlockLen : s[i] \in Bytes
    BY <1>3, <2>1 DEF Bytes
  <2>3. QED
    BY <1>2, <2>2 DEF Block
<1> HIDE DEF s
<1>5. In(b, s) <=> b[1] = a /\ b[2] = requests[a] + 1
  <2>1. ASSUME In(b, s) PROVE b[1] = a /\ b[2] = requests[a] + 1
    <3>1. PICK i \in 1 .. BlockLen : s[i] = b
      BY <1>3, <2>1 DEF In
    <3>2. b = <<a, requests[a] + 1, i>>
      BY <1>3, <3>1
    <3>3. QED
      BY <3>2
  <2>2. ASSUME b[1] = a, b[2] = requests[a] + 1 PROVE In(b, s)
    <3>1. b[3] \in 1 .. BlockLen /\ b = <<b[1], b[2], b[3]>>
      BY <1>2
    <3>2. s[b[3]] = b
      BY <1>3, <2>2, <3>1
    <3>3. QED
      BY <1>3, <3>1, <3>2 DEF In
  <2>3. QED
    BY <2>1, <2>2
<1>6. One(b, s)
  <2>1. \A i \in 1 .. BlockLen : s[i][3] = i
    BY <1>3
  <2>2. QED
    BY <1>3, <2>1 DEF One
<1>7. b[2] \in Nat /\ b[1] \in Apps /\ requests[b[1]] \in Nat
  BY <1>2, HandTypes
<1>8. ~(In(b, s) /\ Known(b, wire, writing, hand, sendQueue, dropped))
  BY <1>1, <1>5, <1>7 DEF Placed
<1>9. /\ Once(b, wire, writing, hand', sendQueue, dropped)
      /\ Known(b, wire, writing, hand', sendQueue, dropped)
            <=> Known(b, wire, writing, hand, sendQueue, dropped) \/ In(b, s)
  BY <1>1, <1>4, <1>6, <1>8, HandTypes, TakeUp DEF Placed
<1>10. b[2] <= requests'[b[1]] <=> b[2] <= requests[b[1]] \/ In(b, s)
  <2>1. CASE b[1] = a
    <3>1. requests'[b[1]] = requests[a] + 1
      BY <1>1, <1>7, <2>1, HandTypes
    <3>2. QED
      BY <1>1, <1>5, <1>7, <2>1, <3>1
  <2>2. CASE b[1] # a
    BY <1>1, <1>5, <1>7, <2>2, HandTypes
  <2>3. QED
    BY <2>1, <2>2
<1>11. QED
  BY <1>1, <1>9, <1>10 DEF Placed

LEMMA StepPlaced ==
    ASSUME IInv, HandFree, NEW b \in Bytes, Placed(b), [Next]_vars
    PROVE  Placed(b)'
<1>1. TypeOK /\ WriteAlone
  BY DEF IInv
<1> USE <1>1, HandTypes
<1>2. CASE KeepsBytes
  BY <1>2 DEF KeepsBytes, Placed
<1>3. ASSUME NEW a \in Apps, SendRequest(a) PROVE Placed(b)'
  BY <1>3, RequestPlaced
<1>4. ASSUME NEW w \in Workers, WriteDone(w) PROVE Placed(b)'
  <2>1. PICK k \in 0 .. Len(writing) :
           /\ wire' = wire \o SubSeq(writing, 1, k)
           /\ hand' = [hand EXCEPT ![w] =
                          SubSeq(writing, k + 1, Len(writing))]
    <3>1. \A k \in 1 .. Len(writing) : k \in 0 .. Len(writing)
      OBVIOUS
    <3>2. \E k \in 1 .. Len(writing) :
             /\ wire' = wire \o SubSeq(writing, 1, k)
             /\ hand' = [hand EXCEPT ![w] =
                            SubSeq(writing, k + 1, Len(writing))]
      BY <1>4 DEF WriteDone
    <3>3. QED
      BY ONLY <3>1, <3>2
  <2>2. writing' = <<>> /\ UNCHANGED <<sendQueue, dropped, requests>>
    BY <1>4 DEF WriteDone
  <2>3. hand[w] = <<>> /\ w \in Threads
    BY <1>4 DEF WriteDone, Serves, HandFree, HandPlaces, Threads
  <2>4. /\ Once(b, wire', <<>>, hand', sendQueue, dropped)
        /\ Known(b, wire', <<>>, hand', sendQueue, dropped)
              <=> Known(b, wire, writing, hand, sendQueue, dropped)
    BY <2>1, <2>3, TakeRest DEF Placed
  <2>5. QED
    BY <2>2, <2>4 DEF Placed
<1>5. ASSUME NEW w \in Workers, WriteFailed(w) PROVE Placed(b)'
  <2> DEFINE A == ToSet(writing)
             c == dropped \cup (A \X {"failed"})
  <2>1. /\ dropped' = c /\ writing' = <<>>
        /\ UNCHANGED <<wire, hand, sendQueue, requests>>
    BY <1>5 DEF WriteFailed, Drop
  <2>2. b \in A <=> In(b, writing)
    BY DEF ToSet, In
  <2> HIDE DEF A
  <2>3. /\ Once(b, wire, <<>>, hand, sendQueue, c)
        /\ Known(b, wire, <<>>, hand, sendQueue, c)
              <=> Known(b, wire, writing, hand, sendQueue, dropped)
    BY <2>2, DropWrite DEF Placed
  <2> HIDE DEF c
  <2>4. QED
    BY <2>1, <2>3 DEF Placed
<1>6. ASSUME NEW t \in Threads, WritesHand(t) PROVE Placed(b)'
  <2>1. writing = <<>>
    BY <1>6 DEF WritesHand, WriteAlone, WritingAt
  <2>2. /\ Once(b, wire, hand[t], hand', sendQueue, dropped)
        /\ Known(b, wire, hand[t], hand', sendQueue, dropped)
              <=> Known(b, wire, <<>>, hand, sendQueue, dropped)
    BY <1>6, <2>1, WriteHeld DEF Placed, WritesHand
  <2>3. QED
    BY <1>6, <2>1, <2>2 DEF Placed, WritesHand
<1>7. ASSUME NEW t \in Threads, QueuesHand(t) PROVE Placed(b)'
  <2>1. /\ Once(b, wire, writing, hand', sendQueue', dropped)
        /\ Known(b, wire, writing, hand', sendQueue', dropped)
              <=> Known(b, wire, writing, hand, sendQueue, dropped)
    BY <1>7, QueueHeld DEF Placed, QueuesHand
  <2>2. QED
    BY <1>7, <2>1 DEF Placed, QueuesHand
<1>8. ASSUME NEW t \in Threads, NEW why, DropsHand(t, why) PROVE Placed(b)'
  <2> DEFINE A == ToSet(hand[t])
             g == [hand EXCEPT ![t] = <<>>]
             c == dropped \cup (A \X {why})
  <2>1. /\ hand' = g /\ dropped' = c
        /\ UNCHANGED <<wire, writing, sendQueue, requests>>
    BY <1>8 DEF DropsHand, Drop
  <2>2. b \in A <=> In(b, hand[t])
    BY DEF ToSet, In
  <2> HIDE DEF A
  <2>3. /\ Once(b, wire, writing, g, sendQueue, c)
        /\ Known(b, wire, writing, g, sendQueue, c)
              <=> Known(b, wire, writing, hand, sendQueue, dropped)
    BY <2>2, DropHeld DEF Placed
  <2> HIDE DEF g, c
  <2>4. QED
    BY <2>1, <2>3 DEF Placed
<1>9. ASSUME NEW w \in Workers, PopQueue(w) PROVE Placed(b)'
  <2>1. /\ sendQueue # <<>> /\ sendQueue' = Tail(sendQueue)
        /\ hand' = [hand EXCEPT ![w] = hand[w] \o Head(sendQueue)]
        /\ UNCHANGED <<wire, writing, dropped, requests>>
    BY <1>9 DEF PopQueue
  <2>2. /\ Once(b, wire, writing, hand', sendQueue', dropped)
        /\ Known(b, wire, writing, hand', sendQueue', dropped)
              <=> Known(b, wire, writing, hand, sendQueue, dropped)
    BY <2>1, Collect DEF Placed, Threads
  <2>3. QED
    BY <2>1, <2>2 DEF Placed
<1>10. CASE Delete
  <2> DEFINE A == UNION {ToSet(sendQueue[k]) : k \in DOMAIN sendQueue}
             c == dropped \cup (A \X {"closing"})
  <2>1. /\ dropped' = c /\ sendQueue' = <<>>
        /\ UNCHANGED <<wire, writing, hand, requests>>
    BY <1>10 DEF Delete, Drop
  <2>2. b \in A <=> Among(b, sendQueue)
    <3>1. \A k \in DOMAIN sendQueue : b \in ToSet(sendQueue[k])
                                         <=> In(b, sendQueue[k])
      BY DEF ToSet, In
    <3>2. QED
      BY <3>1 DEF Among
  <2> HIDE DEF A
  <2>3. /\ Once(b, wire, writing, hand, <<>>, c)
        /\ Known(b, wire, writing, hand, <<>>, c)
              <=> Known(b, wire, writing, hand, sendQueue, dropped)
    BY <2>2, DropQueue DEF Placed
  <2> HIDE DEF c
  <2>4. QED
    BY <2>1, <2>3 DEF Placed
<1>11. QED
  BY <1>2, <1>3, <1>4, <1>5, <1>6, <1>7, <1>8, <1>9, <1>10, NextBytes

(* Each byte stays behind the one before it. *)
LEMMA StepChained ==
    ASSUME TypeOK, Chained(wire, writing, hand, sendQueue), [Next]_vars
    PROVE  Chained(wire, writing, hand, sendQueue)'
<1> USE HandTypes
<1>1. /\ \A t \in Threads : hand[t] \in Seq(Bytes) /\ Behind(hand[t], wire)
      /\ Behind(<<>>, wire) /\ <<>> \in Seq(Bytes) /\ Behind(writing, wire)
  BY EmptyBehind DEF Chained
<1>2. CASE KeepsBytes
  BY <1>2 DEF KeepsBytes, Chained
<1>3. ASSUME NEW a \in Apps, SendRequest(a)
      PROVE  Chained(wire, writing, hand, sendQueue)'
  <2> DEFINE s == Block(a, requests'[a])
  <2>1. /\ hand' = [hand EXCEPT ![a] = s]
        /\ UNCHANGED <<wire, writing, sendQueue>>
    BY <1>3 DEF SendRequest
  <2>2. Behind(s, wire)
    <3>1. BlockLen \in Nat
      BY ProactorAssumption
    <3>2. Behind([i \in 1 .. BlockLen |-> <<a, requests'[a], i>>], wire)
      BY ONLY <3>1, BlockBehind
    <3>3. QED
      BY <3>2 DEF Block
  <2> HIDE DEF s
  <2>3. Chained(wire, writing, hand', sendQueue)
    BY Zenon, <2>1, <2>2, HandTypes DEF Chained
  <2>4. QED
    BY <2>1, <2>3
<1>4. ASSUME NEW w \in Workers, WriteDone(w)
      PROVE  Chained(wire, writing, hand, sendQueue)'
  <2>1. PICK k \in 0 .. Len(writing) :
           /\ wire' = wire \o SubSeq(writing, 1, k)
           /\ hand' = [hand EXCEPT ![w] =
                          SubSeq(writing, k + 1, Len(writing))]
    <3>1. \A k \in 1 .. Len(writing) : k \in 0 .. Len(writing)
      OBVIOUS
    <3>2. \E k \in 1 .. Len(writing) :
             /\ wire' = wire \o SubSeq(writing, 1, k)
             /\ hand' = [hand EXCEPT ![w] =
                            SubSeq(writing, k + 1, Len(writing))]
      BY <1>4 DEF WriteDone
    <3>3. QED
      BY ONLY <3>1, <3>2
  <2>2. sendQueue' = sendQueue /\ writing' = <<>>
    BY <1>4 DEF WriteDone
  <2>3. /\ Chained(wire', writing, hand, sendQueue)
        /\ Behind(SubSeq(writing, k + 1, Len(writing)), wire')
    BY <1>1, <2>1, ChangeWire
  <2>4. Chained(wire', <<>>, hand', sendQueue)
    BY <2>1, <2>3, EmptyBehind DEF Chained
  <2>5. QED
    BY <2>2, <2>4
<1>5. ASSUME NEW w \in Workers, WriteFailed(w)
      PROVE  Chained(wire, writing, hand, sendQueue)'
  BY <1>1, <1>5 DEF WriteFailed, Chained
<1>6. ASSUME NEW t \in Threads, WritesHand(t)
      PROVE  Chained(wire, writing, hand, sendQueue)'
  <2>1. Chained(wire, hand[t], hand, sendQueue)
    BY <1>1 DEF Chained
  <2>2. Chained(wire, hand[t], hand', sendQueue)
    BY <1>1, <1>6, <2>1, ChangeHand DEF WritesHand
  <2>3. QED
    BY <1>6, <2>2 DEF WritesHand
<1>7. ASSUME NEW t \in Threads, QueuesHand(t)
      PROVE  Chained(wire, writing, hand, sendQueue)'
  <2>1. Chained(wire, writing, hand, sendQueue')
    BY <1>1, <1>7, ChangeQueue DEF QueuesHand
  <2>2. Chained(wire, writing, hand', sendQueue')
    BY <1>1, <1>7, <2>1, ChangeHand DEF QueuesHand
  <2>3. QED
    BY <1>7, <2>2 DEF QueuesHand
<1>8. ASSUME NEW t \in Threads, NEW why, DropsHand(t, why)
      PROVE  Chained(wire, writing, hand, sendQueue)'
  <2>1. Chained(wire, writing, hand', sendQueue)
    BY <1>1, <1>8, ChangeHand DEF DropsHand
  <2>2. QED
    BY <1>8, <2>1 DEF DropsHand
<1>9. ASSUME NEW w \in Workers, PopQueue(w)
      PROVE  Chained(wire, writing, hand, sendQueue)'
  <2>1. /\ sendQueue # <<>> /\ sendQueue' = Tail(sendQueue)
        /\ hand' = [hand EXCEPT ![w] = hand[w] \o Head(sendQueue)]
        /\ wire' = wire /\ writing' = writing /\ w \in Threads
    BY <1>9 DEF PopQueue, Threads
  <2>2. Behind(Head(sendQueue), wire) /\ Chained(wire, writing, hand, sendQueue')
    BY <1>1, <2>1, ChangeQueue
  <2>3. Head(sendQueue) \in Seq(Bytes)
    BY <2>1, HeadFacts
  <2>4. /\ hand[w] \o Head(sendQueue) \in Seq(Bytes)
        /\ Behind(hand[w] \o Head(sendQueue), wire)
    BY <1>1, <2>1, <2>2, <2>3, ConcatBehind
  <2>5. Chained(wire, writing, hand', sendQueue')
    BY <2>1, <2>2, <2>4, ChangeHand
  <2>6. QED
    BY <2>1, <2>5
<1>10. CASE Delete
  BY <1>10 DEF Delete, Chained
<1>11. QED
  BY <1>2, <1>3, <1>4, <1>5, <1>6, <1>7, <1>8, <1>9, <1>10, NextBytes

(* Every byte that is sent is in one place, behind the one before it in    *)
(* its block wherever it waits or was sent, or in what the code threw      *)
(* away: for any number of workers and application threads, blocks of any  *)
(* length and any send queue, whichever worker completes a write and       *)
(* however much of it the kernel took (ProactorService.cpp:97-128,         *)
(* 304-350).                                                               *)
THEOREM StreamKept == Spec => []StreamIntact
<1>1. Init => StreamInv
  <2> SUFFICES ASSUME Init PROVE StreamInv
    OBVIOUS
  <2>1. IInv
    BY InitIInv
  <2>2. HandFree
    BY DEF Init, HandFree
  <2>3. /\ wire = <<>> /\ writing = <<>> /\ sendQueue = <<>> /\ dropped = {}
        /\ \A t \in Threads : hand[t] = <<>>
        /\ DOMAIN hand = Threads
        /\ \A a \in Apps : requests[a] = 0
    BY DEF Init
  <2>4. Chained(wire, writing, hand, sendQueue)
    BY <2>3, EmptyBehind DEF Chained
  <2>5. ASSUME NEW b \in Bytes PROVE Placed(b)
    <3>1. b[1] \in Apps /\ b[2] \in 1 .. MaxRequests /\ MaxRequests \in Nat
      BY ProactorAssumption DEF Bytes
    <3>2. ~(b[2] <= requests[b[1]])
      BY <2>3, <3>1
    <3>3. ~In(b, <<>>) /\ One(b, <<>>)
      BY EmptyHas
    <3>4. ~Among(b, hand) /\ Single(b, hand)
      BY <2>3, <3>3 DEF Among, Single
    <3>5. ~Among(b, <<>>) /\ Single(b, <<>>) /\ ~Gone(b, {})
      BY DEF Among, Single, Gone
    <3>6. QED
      BY <2>3, <3>2, <3>3, <3>4, <3>5 DEF Placed, Once, Known
  <2>6. QED
    BY <2>1, <2>2, <2>4, <2>5 DEF StreamInv
<1>2. StreamInv /\ [Next]_vars => StreamInv'
  <2> SUFFICES ASSUME StreamInv, [Next]_vars PROVE StreamInv'
    OBVIOUS
  <2>1. IInv' /\ HandFree'
    BY NextIInv, NextFree DEF StreamInv, IInv
  <2>2. Chained(wire, writing, hand, sendQueue)'
    BY StepChained DEF StreamInv, IInv
  <2>3. \A b \in Bytes : Placed(b)'
    BY StepPlaced DEF StreamInv
  <2>4. Bytes' = Bytes
    BY DEF Bytes
  <2>5. QED
    BY <2>1, <2>2, <2>3, <2>4 DEF StreamInv
<1>3. StreamInv => StreamIntact
  <2> SUFFICES ASSUME StreamInv PROVE StreamIntact
    OBVIOUS
  <2>1. ASSUME NEW b \in Bytes
        PROVE  Cardinality(Whereabouts(b)) =
                  IF b[2] <= requests[b[1]] THEN 1 ELSE 0
    <3>1. DOMAIN hand = Threads
      BY DEF StreamInv, IInv, TypeOK
    <3>2. Whereabouts(b) = Spots(b, wire, writing, hand, sendQueue, dropped)
      BY <3>1 DEF Whereabouts, Places, Spots
    <3>3. Placed(b)
      BY DEF StreamInv
    <3>4. QED
      BY <3>2, <3>3, OneSpot DEF Placed
  <2>2. PrefixSent
    <3>1. Behind(wire, <<>>)
      BY DEF StreamInv, Chained
    <3>2. \A m : ~In(m, <<>>)
      BY EmptyHas
    <3>3. QED
      BY <3>1, <3>2 DEF Behind, Before, PrefixSent
  <2>3. QED
    BY <2>1, <2>2 DEF StreamIntact, ExactlyOnce
<1>4. QED
  BY <1>1, <1>2, <1>3, PTL DEF Spec
=============================================================================
