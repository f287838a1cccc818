------------------------ MODULE ReactorServiceProofs ------------------------
(***************************************************************************)
(* Proofs about a connection of the reactor, for every set of application  *)
(* threads, every number and size of blocks, every queue capacity and      *)
(* every choice of what the application may do.                            *)
(***************************************************************************)
EXTENDS ReactorService, SequenceFacts, FiniteSetTheorems, TLAPS

(* What PeerSend does to a block: both parts are sequences of its bytes. *)
LEMMA SplitFacts ==
    ASSUME NEW S, NEW s \in Seq(S), NEW k \in 0 .. Len(s)
    PROVE  SubSeq(s, 1, k) \in Seq(S) /\ SubSeq(s, k + 1, Len(s)) \in Seq(S)
  OBVIOUS

(* The bytes of a sequence of bytes are bytes. *)
LEMMA ToSetFacts ==
    ASSUME NEW S, NEW s \in Seq(S)
    PROVE  ToSet(s) \subseteq S
  BY DEF ToSet

(* Taking the first block of the queue leaves a shorter queue of blocks. *)
LEMMA HeadFacts ==
    ASSUME NEW S, NEW s \in Seq(S), s # <<>>
    PROVE  Head(s) \in S /\ Tail(s) \in Seq(S) /\ Len(Tail(s)) = Len(s) - 1
  OBVIOUS

LEMMA AppendFacts ==
    ASSUME NEW S, NEW s \in Seq(S), NEW e \in S
    PROVE  Append(s, e) \in Seq(S) /\ Len(Append(s, e)) = Len(s) + 1
  OBVIOUS

-----------------------------------------------------------------------------

(* Every step keeps the types: one lemma for the calls of a sender, one    *)
(* for what an application thread does, one for the reactor thread.        *)
LEMMA SendingTypes ==
    ASSUME TypeOK, NEW t \in Threads, ProbeNext(t) \/ Sending(t)
    PROVE  TypeOK'
<1> USE ServiceAssumption DEF TypeOK, Goto, At, Back, Threads, Places,
        AppPlaces, Flags
<1>1. CASE ProbeNext(t)
  <2>1. probe[t] \in 1 .. 3 /\ probe[t] < 3
    BY <1>1 DEF ProbeNext
  <2>2. probe[t] + 1 \in 1 .. 3
    BY <2>1
  <2>3. probe' \in [Threads -> 1 .. 3]
    BY <1>1, <2>2 DEF ProbeNext
  <2>4. QED
    BY <1>1, <2>3 DEF ProbeNext
<1>2. CASE SendClosing(t)
  <2>1. ToSet(hand[t]) \subseteq Bytes
    BY ToSetFacts
  <2>2. QED
    BY <1>2, <2>1 DEF SendClosing, Sees, Drop
<1>3. CASE SendOpen(t)
  BY <1>3 DEF SendOpen, Sees
<1>4. CASE AcquireSendLock(t)
  BY <1>4 DEF AcquireSendLock
<1>5. CASE PeerSend(t)
  <2>1. PICK k \in 0 .. Len(hand[t]) :
           /\ wire' = wire \o SubSeq(hand[t], 1, k)
           /\ hand' = [hand EXCEPT ![t] = SubSeq(@, k + 1, Len(@))]
    BY <1>5 DEF PeerSend
  <2>2. /\ SubSeq(hand[t], 1, k) \in Seq(Bytes)
        /\ SubSeq(hand[t], k + 1, Len(hand[t])) \in Seq(Bytes)
    BY SplitFacts
  <2>3. wire' \in Seq(Bytes) /\ hand' \in [Threads -> Seq(Bytes)]
    BY <2>1, <2>2
  <2>4. QED
    BY <1>5, <2>3 DEF PeerSend
<1>6. CASE PeerSendError(t)
  BY <1>6 DEF PeerSendError
<1>7. CASE ReleaseSendLock(t)
  BY <1>7 DEF ReleaseSendLock
<1>8. CASE SendAbort(t)
  <2>1. ToSet(hand[t]) \subseteq Bytes
    BY ToSetFacts
  <2>2. QED
    BY <1>8, <2>1 DEF SendAbort, Drop
<1>9. CASE Requeue(t)
  <2>1. ToSet(hand[t]) \subseteq Bytes
    BY ToSetFacts
  <2>2. sendQueue' \in Seq(Seq(Bytes)) /\ Len(sendQueue') <= SendCap
    <3>1. CASE Len(sendQueue) >= SendCap
      BY <1>9, <3>1 DEF Requeue, PushQueue
    <3>2. CASE ~(Len(sendQueue) >= SendCap)
      <4>1. sendQueue' = Append(sendQueue, hand[t])
        BY <1>9, <3>2 DEF Requeue, PushQueue
      <4>2. hand[t] \in Seq(Bytes)
        OBVIOUS
      <4>3. QED
        BY <3>2, <4>1, <4>2, AppendFacts
    <3>3. QED
      BY <3>1, <3>2
  <2>3. dropped' \subseteq Bytes \X {"full", "closing"}
    BY <1>9, <2>1 DEF Requeue, PushQueue, Drop
  <2>4. QED
    BY <1>9, <2>2, <2>3 DEF Requeue
<1>10. QED
  BY <1>1, <1>2, <1>3, <1>4, <1>5, <1>6, <1>7, <1>8, <1>9 DEF Sending

LEMMA AppTypes ==
    ASSUME TypeOK, NEW a \in Apps, App(a)
    PROVE  TypeOK'
<1> USE ServiceAssumption DEF TypeOK, Goto, At, Threads, Places, AppPlaces,
        Flags
<1>1. CASE SendRequest(a)
  <2>1. requests[a] + 1 \in 1 .. MaxRequests
    BY <1>1 DEF SendRequest
  <2>2. Block(a, requests[a] + 1) \in Seq(Bytes)
    <3>1. \A i \in 1 .. BlockLen : <<a, requests[a] + 1, i>> \in Bytes
      BY <2>1 DEF Bytes
    <3>2. BlockLen \in Nat
      OBVIOUS
    <3>3. QED
      BY <3>1, <3>2 DEF Block
  <2>3. QED
    BY <1>1, <2>1, <2>2 DEF SendRequest
<1>2. CASE CloseRequest(a)
  <2>1. PICK place \in {"disable", "receive"} : Goto(a, place)
    BY <1>2 DEF CloseRequest
  <2>2. UNCHANGED <<probe, hand, flag, sendLock, sendQueue, registered, alive,
                    socket, peer, events, wire, requests, dropped>>
    BY <1>2 DEF CloseRequest
  <2>3. QED
    BY <2>1, <2>2
<1>3. CASE SetCloseFlag(a)
  BY <1>3 DEF SetCloseFlag
<1>4. CASE Dangling(a)
  BY <1>4 DEF Dangling
<1>5. CASE ProbeNext(a) \/ Sending(a)
  BY <1>5, SendingTypes
<1>6. QED
  BY <1>1, <1>2, <1>3, <1>4, <1>5 DEF App, AppCall

LEMMA ReactorTypes ==
    ASSUME TypeOK, ReactorStep
    PROVE  TypeOK'
<1> USE ServiceAssumption DEF TypeOK, Goto, Threads, Places, AppPlaces, Flags,
        quiet, PushEvent, Sees
<1>1. CASE Register
  BY <1>1 DEF Register
<1>2. CASE OnEstablish
  BY <1>2 DEF OnEstablish
<1>3. CASE OpenDone
  <2>1. PICK place \in {"loop", "closing"} : Goto(Reactor, place)
    BY <1>3 DEF OpenDone
  <2>2. UNCHANGED <<quiet, probe, registered, alive, events>>
    BY <1>3 DEF OpenDone
  <2>3. QED
    BY <2>1, <2>2
<1>4. CASE HandleInput
  BY <1>4 DEF HandleInput
<1>5. CASE HandleInputEnd
  BY <1>5 DEF HandleInputEnd
<1>6. CASE HandleTimeout
  BY <1>6 DEF HandleTimeout
<1>7. CASE TickPassive
  BY <1>7 DEF TickPassive
<1>8. CASE TickActive
  BY <1>8 DEF TickActive
<1>9. CASE TickReserve
  BY <1>9 DEF TickReserve
<1>10. CASE TickOpen
  BY <1>10 DEF TickOpen
<1>11. CASE TrySendLock
  BY <1>11 DEF TrySendLock
<1>12. CASE PopQueue
  <2>1. Head(sendQueue) \in Seq(Bytes) /\ Tail(sendQueue) \in Seq(Seq(Bytes))
        /\ Len(Tail(sendQueue)) = Len(sendQueue) - 1
    BY <1>12, HeadFacts DEF PopQueue
  <2>2. hand[Reactor] \o Head(sendQueue) \in Seq(Bytes)
    BY <2>1
  <2>3. QED
    BY <1>12, <2>1, <2>2 DEF PopQueue
<1>13. CASE PopQueueEnd
  BY <1>13 DEF PopQueueEnd
<1>14. CASE NotZombie
  BY <1>14 DEF NotZombie
<1>15. CASE Zombie
  BY <1>15 DEF Zombie
<1>16. CASE NotifyClose
  <2>1. events' = events \/ events' = Append(events, "Close")
    BY <1>16 DEF NotifyClose
  <2>2. Append(events, "Close") \in Seq({"Establish", "Read", "Close"})
    OBVIOUS
  <2>3. events' \in Seq({"Establish", "Read", "Close"})
    BY <2>1, <2>2
  <2>4. PICK place \in {"delete", "notified"} : Goto(Reactor, place)
    BY <1>16 DEF NotifyClose
  <2>5. UNCHANGED <<quiet, probe, registered, alive>>
    BY <1>16 DEF NotifyClose
  <2>6. QED
    BY <2>3, <2>4, <2>5
<1>17. CASE NotifyReserve
  BY <1>17 DEF NotifyReserve
<1>18. CASE CloseHandle
  BY <1>18 DEF CloseHandle
<1>19. CASE UnRegister
  BY <1>19 DEF UnRegister
<1>20. CASE Delete
  <2>1. UNION {ToSet(sendQueue[j]) : j \in DOMAIN sendQueue} \subseteq Bytes
    BY ToSetFacts
  <2>2. dropped' \subseteq Bytes \X {"full", "closing"}
    BY <1>20, <2>1 DEF Delete, Drop
  <2>3. sendQueue' \in Seq(Seq(Bytes)) /\ Len(sendQueue') <= SendCap
    BY <1>20 DEF Delete
  <2>4. QED
    BY <1>20, <2>2, <2>3 DEF Delete
<1>21. CASE ProbeNext(Reactor) \/ Sending(Reactor)
  BY <1>21, SendingTypes
<1>22. QED
  BY <1>1, <1>2, <1>3, <1>4, <1>5, <1>6, <1>7, <1>8, <1>9, <1>10, <1>11, <1>12, <1>13, <1>14, <1>15, <1>16, <1>17, <1>18, <1>19, <1>20, <1>21 DEF ReactorStep

LEMMA InitTypes ==
    ASSUME Init
    PROVE  TypeOK
<1>1. pc \in [Threads -> Places \cup AppPlaces] /\ pc[Reactor] \in Places
      /\ \A a \in Apps : pc[a] \in AppPlaces
  BY ServiceAssumption DEF Init, Threads, Places, AppPlaces
<1>2. probe \in [Threads -> 1 .. 3] /\ hand \in [Threads -> Seq(Bytes)]
  BY DEF Init
<1>3. MaxRequests \in Nat /\ SendCap \in Nat
  BY ServiceAssumption
<1>4. requests \in [Apps -> 0 .. MaxRequests]
  BY <1>3 DEF Init
<1>5. sendQueue \in Seq(Seq(Bytes)) /\ Len(sendQueue) <= SendCap
  BY <1>3 DEF Init
<1>6. wire \in Seq(Bytes) /\ events \in Seq({"Establish", "Read", "Close"})
  BY DEF Init
<1>7. flag \in Flags /\ dropped \subseteq Bytes \X {"full", "closing"}
  BY DEF Init, Flags
<1>8. /\ sendLock \in BOOLEAN /\ registered \in BOOLEAN /\ alive \in BOOLEAN
      /\ socket \in {"open", "shut", "closed"} /\ peer \in {"open", "closed"}
  BY DEF Init
<1>9. QED
  BY <1>1, <1>2, <1>4, <1>5, <1>6, <1>7, <1>8 DEF TypeOK

LEMMA NextTypes ==
    ASSUME TypeOK, [Next]_vars
    PROVE  TypeOK'
<1>1. CASE ReactorStep
  BY <1>1, ReactorTypes
<1>2. CASE \E a \in Apps : App(a)
  BY <1>2, AppTypes
<1>3. CASE PeerClose
  BY <1>3 DEF PeerClose, TypeOK
<1>4. CASE UNCHANGED vars
  BY <1>4 DEF vars, TypeOK
<1>5. QED
  BY <1>1, <1>2, <1>3, <1>4 DEF Next

(* Every variable keeps its type; the send queue never holds more than its *)
(* high water mark, and application threads never leave the steps of a     *)
(* call on the service.                                                    *)
THEOREM TypeCorrect == Spec => []TypeOK
  BY InitTypes, NextTypes, PTL DEF Spec

-----------------------------------------------------------------------------
(* At most one sender.  What makes it inductive: as long as the object     *)
(* lives, the lock is taken exactly when some thread is between            *)
(* AcquireSendLock and ReleaseSendLock; once it is deleted nobody enters.  *)

SendPlaces == {"send", "sent", "failed"}

OneSender == /\ \A t, u \in Senders : t = u
             /\ alive => (sendLock <=> Senders # {})

(* A step that neither enters nor leaves a send keeps the set of senders.  *)
LEMMA SameSenders ==
    ASSUME TypeOK, OneSender, NEW t \in Threads, NEW place,
           Goto(t, place), pc[t] \in SendPlaces <=> place \in SendPlaces,
           UNCHANGED <<sendLock, alive>>
    PROVE  OneSender'
<1>1. \A u \in Threads : pc'[u] \in SendPlaces <=> pc[u] \in SendPlaces
  BY DEF TypeOK, Goto
<1>2. Senders' = Senders
  BY <1>1 DEF Senders, SendPlaces
<1>3. QED
  BY <1>2 DEF OneSender

LEMMA SendingOneSender ==
    ASSUME TypeOK, OneSender, NEW t \in Threads, Sending(t)
    PROVE  OneSender'
<1> USE DEF At, Back, SendPlaces
<1>1. CASE SendClosing(t)
  BY <1>1, SameSenders DEF SendClosing
<1>2. CASE SendOpen(t)
  BY <1>2, SameSenders DEF SendOpen
<1>3. CASE AcquireSendLock(t)
  <2>1. CASE sendLock
    BY <1>3, <2>1, SameSenders DEF AcquireSendLock
  <2>2. CASE ~sendLock
    <3>1. Senders = {}
      BY <1>3, <2>2 DEF AcquireSendLock, OneSender
    <3>2. pc' = [pc EXCEPT ![t] = "send"]
      BY <1>3, <2>2 DEF AcquireSendLock, Goto
    <3>3. Senders' = {t}
      BY <3>1, <3>2 DEF Senders, TypeOK
    <3>4. sendLock'
      BY <1>3 DEF AcquireSendLock
    <3>5. QED
      BY <3>3, <3>4 DEF OneSender
  <2>3. QED
    BY <2>1, <2>2
<1>4. CASE PeerSend(t)
  BY <1>4, SameSenders DEF PeerSend
<1>5. CASE PeerSendError(t)
  BY <1>5, SameSenders DEF PeerSendError
<1>6. CASE ReleaseSendLock(t)
  <2>1. t \in Senders
    BY <1>6 DEF ReleaseSendLock, Senders
  <2>2. PICK place \in {"abort", "zombie", "idle", "requeue"} : Goto(t, place)
    BY <1>6 DEF ReleaseSendLock
  <2>3. Senders' = Senders \ {t}
    BY <2>2 DEF Senders, Goto, TypeOK
  <2>4. Senders' = {}
    BY <2>1, <2>3 DEF OneSender
  <2>5. sendLock' = FALSE
    BY <1>6 DEF ReleaseSendLock
  <2>6. QED
    BY <2>4, <2>5 DEF OneSender
<1>7. CASE SendAbort(t)
  BY <1>7, SameSenders DEF SendAbort
<1>8. CASE Requeue(t)
  BY <1>8, SameSenders DEF Requeue
<1>9. QED
  BY <1>1, <1>2, <1>3, <1>4, <1>5, <1>6, <1>7, <1>8 DEF Sending

(* A step that moves nobody. *)
LEMMA NobodyMoves ==
    ASSUME OneSender, UNCHANGED <<pc, sendLock, alive>>
    PROVE  OneSender'
BY DEF OneSender, Senders

(* A deleted object has no new sender. *)
LEMMA FewerSenders ==
    ASSUME TypeOK, OneSender, NEW t \in Threads, NEW place,
           Goto(t, place), place \notin SendPlaces, ~alive'
    PROVE  OneSender'
<1>1. \A u \in Threads : pc'[u] \in SendPlaces => pc[u] \in SendPlaces
  BY DEF TypeOK, Goto
<1>2. Senders' \subseteq Senders
  BY <1>1 DEF Senders, SendPlaces
<1>3. QED
  BY <1>2 DEF OneSender

LEMMA AppOneSender ==
    ASSUME TypeOK, OneSender, NEW a \in Apps, App(a)
    PROVE  OneSender'
<1> USE DEF Threads, SendPlaces, At
<1>1. CASE SendRequest(a)
  BY <1>1, SameSenders DEF SendRequest
<1>2. CASE CloseRequest(a)
  BY <1>2, SameSenders DEF CloseRequest
<1>3. CASE SetCloseFlag(a)
  BY <1>3, SameSenders DEF SetCloseFlag
<1>4. CASE Dangling(a)
  BY <1>4, FewerSenders DEF Dangling
<1>5. CASE ProbeNext(a)
  BY <1>5, NobodyMoves DEF ProbeNext
<1>6. CASE Sending(a)
  BY <1>6, SendingOneSender
<1>7. QED
  BY <1>1, <1>2, <1>3, <1>4, <1>5, <1>6 DEF App, AppCall

LEMMA ReactorOneSender ==
    ASSUME TypeOK, OneSender, ReactorStep
    PROVE  OneSender'
<1> USE DEF Threads, SendPlaces, quiet
<1>1. Reactor \in Threads
  OBVIOUS
<1>2. CASE Register
  BY <1>2, <1>1, SameSenders DEF Register
<1>3. CASE OnEstablish
  BY <1>3, <1>1, SameSenders DEF OnEstablish
<1>4. CASE OpenDone
  BY <1>4, <1>1, SameSenders DEF OpenDone
<1>5. CASE HandleInput
  BY <1>5, NobodyMoves DEF HandleInput
<1>6. CASE HandleInputEnd
  BY <1>6, <1>1, SameSenders DEF HandleInputEnd
<1>7. CASE HandleTimeout
  BY <1>7, <1>1, SameSenders DEF HandleTimeout
<1>8. CASE TickPassive
  BY <1>8, <1>1, SameSenders DEF TickPassive
<1>9. CASE TickActive
  BY <1>9, <1>1, SameSenders DEF TickActive
<1>10. CASE TickReserve
  BY <1>10, <1>1, SameSenders DEF TickReserve
<1>11. CASE TickOpen
  BY <1>11, <1>1, SameSenders DEF TickOpen
<1>12. CASE TrySendLock
  BY <1>12, <1>1, SameSenders DEF TrySendLock
<1>13. CASE PopQueue
  BY <1>13, NobodyMoves DEF PopQueue
<1>14. CASE PopQueueEnd
  BY <1>14, <1>1, SameSenders DEF PopQueueEnd
<1>15. CASE NotZombie
  BY <1>15, <1>1, SameSenders DEF NotZombie
<1>16. CASE Zombie
  BY <1>16, <1>1, SameSenders DEF Zombie
<1>17. CASE NotifyClose
  BY <1>17, <1>1, SameSenders DEF NotifyClose
<1>18. CASE NotifyReserve
  BY <1>18, <1>1, SameSenders DEF NotifyReserve
<1>19. CASE CloseHandle
  BY <1>19, <1>1, SameSenders DEF CloseHandle
<1>20. CASE UnRegister
  BY <1>20, <1>1, SameSenders DEF UnRegister
<1>21. CASE Delete
  BY <1>21, <1>1, FewerSenders DEF Delete
<1>22. CASE ProbeNext(Reactor)
  BY <1>22, NobodyMoves DEF ProbeNext
<1>23. CASE Sending(Reactor)
  BY <1>23, <1>1, SendingOneSender
<1>24. QED
  BY <1>2, <1>3, <1>4, <1>5, <1>6, <1>7, <1>8, <1>9, <1>10, <1>11, <1>12, <1>13, <1>14, <1>15, <1>16, <1>17, <1>18, <1>19, <1>20, <1>21, <1>22, <1>23 DEF ReactorStep

(* No two threads ever write to the socket of a connection together, for   *)
(* any number of application threads, and while the service lives its send *)
(* lock is free whenever no send is under way.                             *)
THEOREM SendersCorrect == Spec => []SendersExclusive
<1>1. Init => OneSender
  BY ServiceAssumption DEF Init, OneSender, Senders, Threads
<1>2. TypeOK /\ OneSender /\ [Next]_vars => OneSender'
  <2> SUFFICES ASSUME TypeOK, OneSender, [Next]_vars
               PROVE  OneSender'
    OBVIOUS
  <2>1. CASE ReactorStep
    BY <2>1, ReactorOneSender
  <2>2. CASE \E a \in Apps : App(a)
    BY <2>2, AppOneSender
  <2>3. CASE PeerClose
    BY <2>3, NobodyMoves DEF PeerClose
  <2>4. CASE UNCHANGED vars
    BY <2>4, NobodyMoves DEF vars
  <2>5. QED
    BY <2>1, <2>2, <2>3, <2>4 DEF Next
<1>3. OneSender => SendersExclusive
  <2> SUFFICES ASSUME OneSender PROVE SendersExclusive
    OBVIOUS
  <2>1. Cardinality(Senders) <= 1
    <3>1. CASE Senders = {}
      BY <3>1, FS_EmptySet
    <3>2. CASE Senders # {}
      <4>1. PICK t \in Senders : Senders = {t}
        BY <3>2 DEF OneSender
      <4>2. QED
        BY <4>1, FS_Singleton
    <3>3. QED
      BY <3>1, <3>2
  <2>2. QED
    BY <2>1 DEF OneSender, SendersExclusive
<1>4. QED
  BY <1>1, <1>2, <1>3, TypeCorrect, PTL DEF Spec

-----------------------------------------------------------------------------
(* What the application hears.  What makes it inductive: the place of the  *)
(* reactor thread says whether the id is registered, whether the object    *)
(* lives, and whether Establish and Close were pushed.                     *)

Serving == {"register", "loop", "tick", "shut", "try", "pop", "sending",
            "lock", "send", "sent", "failed", "abort", "requeue", "zombie",
            "expired"}

Protocol ==
    /\ EventProtocol
    /\ registered => pc[Reactor] \notin {"open", "free", "gone"}
    /\ alive <=> pc[Reactor] # "gone"
    /\ events = <<>> <=> pc[Reactor] \in {"open", "establish"}
    /\ Closed => pc[Reactor] \in {"notified", "closing", "delete",
                                   "unregister", "free", "gone"}
    /\ pc[Reactor] \in {"notified", "delete", "unregister", "free", "gone"}
          => Closed

(* What pushing an event does to the events. *)
LEMMA PushFacts ==
    ASSUME TypeOK, NEW e \in {"Establish", "Read", "Close"}, PushEvent(e)
    PROVE  /\ Len(events') = Len(events) + 1
           /\ DOMAIN events' = 1 .. Len(events')
           /\ DOMAIN events = 1 .. Len(events)
           /\ \A i \in 1 .. Len(events) : events'[i] = events[i]
           /\ events'[Len(events) + 1] = e
           /\ events' # <<>>
           /\ Closed' <=> Closed \/ e = "Close"
<1>1. /\ events \in Seq({"Establish", "Read", "Close"})
      /\ events' = Append(events, e)
  BY DEF TypeOK, PushEvent
<1>2. /\ Len(events') = Len(events) + 1
      /\ DOMAIN events' = 1 .. Len(events')
      /\ DOMAIN events = 1 .. Len(events)
      /\ \A i \in 1 .. Len(events) : events'[i] = events[i]
      /\ events'[Len(events) + 1] = e
      /\ events' # <<>>
  BY <1>1
<1>3. Closed' <=> Closed \/ e = "Close"
  BY <1>1, <1>2 DEF Closed, ToSet
<1>4. QED
  BY <1>2, <1>3

(* The reactor thread moves on without telling the application anything.   *)
LEMMA ServingProtocol ==
    ASSUME TypeOK, Protocol, NEW place,
           pc[Reactor] \in Serving, place \in Serving \cup {"closing"},
           Goto(Reactor, place),
           UNCHANGED <<events, registered, alive>>
    PROVE  Protocol'
<1>1. pc'[Reactor] = place
  BY DEF TypeOK, Goto, Threads
<1>2. (EventProtocol <=> EventProtocol') /\ (Closed <=> Closed')
  BY DEF EventProtocol, Closed
<1>3. QED
  BY <1>1, <1>2 DEF Protocol, Serving

(* The reactor thread stays where it is, and so does what was pushed. *)
LEMMA OthersProtocol ==
    ASSUME Protocol, pc'[Reactor] = pc[Reactor],
           UNCHANGED <<events, registered, alive>>
    PROVE  Protocol'
BY DEF Protocol, EventProtocol, Closed

LEMMA SendingProtocol ==
    ASSUME TypeOK, Protocol, NEW t \in Threads, Sending(t) \/ ProbeNext(t)
    PROVE  Protocol'
<1>1. UNCHANGED <<events, registered, alive>>
  BY DEF Sending, ProbeNext, SendClosing, SendOpen, AcquireSendLock, PeerSend,
         PeerSendError, ReleaseSendLock, SendAbort, Requeue
<1>2. CASE ProbeNext(t)
  BY <1>1, <1>2, OthersProtocol DEF ProbeNext
<1>3. CASE Sending(t)
  <2>1. PICK place \in Serving \cup {"idle"} :
           /\ Goto(t, place)
           /\ t = Reactor => place \in Serving /\ pc[t] \in Serving
    BY <1>3 DEF Sending, SendClosing, SendOpen, AcquireSendLock, PeerSend,
                PeerSendError, ReleaseSendLock, SendAbort, Requeue, At, Back,
                Serving
  <2>2. CASE t = Reactor
    BY <1>1, <2>1, <2>2, ServingProtocol
  <2>3. CASE t # Reactor
    <3>1. pc'[Reactor] = pc[Reactor]
      BY <2>1, <2>3 DEF Goto, TypeOK, Threads
    <3>2. QED
      BY <1>1, <3>1, OthersProtocol
  <2>4. QED
    BY <2>2, <2>3
<1>4. QED
  BY <1>2, <1>3

LEMMA AppProtocol ==
    ASSUME TypeOK, Protocol, NEW a \in Apps, App(a)
    PROVE  Protocol'
<1>1. CASE SendRequest(a) \/ CloseRequest(a) \/ SetCloseFlag(a) \/ Dangling(a)
  <2>1. UNCHANGED <<events, registered, alive>>
    BY <1>1 DEF SendRequest, CloseRequest, SetCloseFlag, Dangling
  <2>2. \E place : Goto(a, place)
    BY <1>1 DEF SendRequest, CloseRequest, SetCloseFlag, Dangling
  <2>3. a # Reactor
    BY ServiceAssumption
  <2>4. pc'[Reactor] = pc[Reactor]
    BY <2>2, <2>3 DEF Goto, TypeOK, Threads
  <2>5. QED
    BY <2>1, <2>4, OthersProtocol
<1>2. CASE Sending(a) \/ ProbeNext(a)
  BY <1>2, SendingProtocol DEF Threads
<1>3. QED
  BY <1>1, <1>2 DEF App, AppCall

LEMMA ReactorProtocol ==
    ASSUME TypeOK, Protocol, ReactorStep
    PROVE  Protocol'
<1>1. \A place : Goto(Reactor, place) => pc'[Reactor] = place
  BY DEF TypeOK, Goto, Threads
<1>2. CASE Register
  BY <1>1, <1>2 DEF Register, Protocol, EventProtocol, Closed
<1>3. CASE OnEstablish
  <2>1. PushEvent("Establish") /\ pc'[Reactor] = "register" /\ events = <<>>
    BY <1>1, <1>3 DEF OnEstablish, Protocol
  <2>2. Len(events) = 0
    BY <2>1
  <2>3. EventProtocol'
    BY <2>1, <2>2, PushFacts DEF EventProtocol
  <2>4. ~Closed /\ ~Closed' /\ events' # <<>>
    BY <1>3, <2>1, PushFacts DEF OnEstablish, Protocol
  <2>5. QED
    BY <1>3, <2>1, <2>3, <2>4 DEF OnEstablish, Protocol
<1>4. CASE OpenDone
  BY <1>4, ServingProtocol DEF OpenDone, Serving
<1>5. CASE HandleInput
  <2>1. PushEvent("Read") /\ pc' = pc /\ ~Closed /\ events # <<>>
    BY <1>5 DEF HandleInput, Protocol
  <2>2. \A i \in DOMAIN events : events[i] # "Close"
    BY <2>1 DEF Closed, ToSet
  <2>3. events \in Seq({"Establish", "Read", "Close"})
    BY DEF TypeOK
  <2>4. Len(events) \in Nat /\ Len(events) > 0
    BY <2>1, <2>3
  <2>5. EventProtocol'
    BY <2>1, <2>2, <2>4, PushFacts DEF EventProtocol, Protocol
  <2>6. ~Closed' /\ events' # <<>>
    BY <2>1, PushFacts
  <2>7. QED
    BY <1>5, <2>1, <2>5, <2>6 DEF HandleInput, Protocol
<1>6. CASE HandleInputEnd
  BY <1>6, ServingProtocol DEF HandleInputEnd, Serving
<1>7. CASE HandleTimeout
  BY <1>7, ServingProtocol DEF HandleTimeout, Serving
<1>8. CASE TickPassive
  BY <1>8, ServingProtocol DEF TickPassive, Serving
<1>9. CASE TickActive
  BY <1>9, ServingProtocol DEF TickActive, Serving
<1>10. CASE TickReserve
  BY <1>10, ServingProtocol DEF TickReserve, Serving
<1>11. CASE TickOpen
  BY <1>11, ServingProtocol DEF TickOpen, Serving
<1>12. CASE TrySendLock
  BY <1>12, ServingProtocol DEF TrySendLock, Serving
<1>13. CASE PopQueue
  BY <1>13, OthersProtocol DEF PopQueue
<1>14. CASE PopQueueEnd
  BY <1>14, ServingProtocol DEF PopQueueEnd, Serving, quiet
<1>15. CASE NotZombie
  BY <1>15, ServingProtocol DEF NotZombie, Serving, quiet
<1>16. CASE Zombie
  BY <1>16, ServingProtocol DEF Zombie, Serving, quiet
<1>17. CASE NotifyClose
  <2>1. CASE Closed
    BY <1>1, <1>17, <2>1 DEF NotifyClose, Protocol, Closed, EventProtocol
  <2>2. CASE ~Closed
    <3>1. PushEvent("Close") /\ pc'[Reactor] = "notified" /\ events # <<>>
      BY <1>1, <1>17, <2>2 DEF NotifyClose, Protocol, Closed
    <3>2. \A j \in DOMAIN events : events[j] # "Close"
      BY <2>2 DEF Closed, ToSet
    <3>3. events \in Seq({"Establish", "Read", "Close"})
      BY DEF TypeOK
    <3>4. Len(events) \in Nat /\ Len(events) > 0
      BY <3>1, <3>3
    <3>5. EventProtocol'
      BY <3>1, <3>2, <3>4, PushFacts DEF EventProtocol, Protocol
    <3>6. Closed' /\ events' # <<>>
      BY <3>1, PushFacts
    <3>7. QED
      BY <1>17, <3>1, <3>5, <3>6 DEF NotifyClose, Protocol
  <2>3. QED
    BY <2>1, <2>2
<1>18. CASE NotifyReserve
  BY <1>1, <1>18 DEF NotifyReserve, Protocol, EventProtocol, Closed
<1>19. CASE CloseHandle
  BY <1>1, <1>19 DEF CloseHandle, Protocol, EventProtocol, Closed
<1>20. CASE UnRegister
  BY <1>1, <1>20 DEF UnRegister, Protocol, EventProtocol, Closed
<1>21. CASE Delete
  BY <1>1, <1>21 DEF Delete, Protocol, EventProtocol, Closed
<1>22. CASE ProbeNext(Reactor) \/ Sending(Reactor)
  BY <1>22, SendingProtocol DEF Threads
<1>23. QED
  BY <1>2, <1>3, <1>4, <1>5, <1>6, <1>7, <1>8, <1>9, <1>10, <1>11, <1>12, <1>13, <1>14, <1>15, <1>16, <1>17, <1>18, <1>19, <1>20, <1>21, <1>22 DEF ReactorStep

LEMMA ProtocolInvariant == Spec => []Protocol
<1>1. Init => Protocol
  <2> SUFFICES ASSUME Init PROVE Protocol
    OBVIOUS
  <2>1. pc[Reactor] = "open" /\ events = <<>> /\ ~registered /\ alive
    BY DEF Init, Threads
  <2>2. DOMAIN events = {}
    BY <2>1
  <2>3. EventProtocol /\ ~Closed
    BY <2>2 DEF EventProtocol, Closed, ToSet
  <2>4. QED
    BY <2>1, <2>3 DEF Protocol
<1>2. TypeOK /\ Protocol /\ [Next]_vars => Protocol'
  <2> SUFFICES ASSUME TypeOK, Protocol, [Next]_vars
               PROVE  Protocol'
    OBVIOUS
  <2>1. CASE ReactorStep
    BY <2>1, ReactorProtocol
  <2>2. CASE \E a \in Apps : App(a)
    BY <2>2, AppProtocol
  <2>3. CASE PeerClose
    BY <2>3, OthersProtocol DEF PeerClose
  <2>4. CASE UNCHANGED vars
    BY <2>4, OthersProtocol DEF vars
  <2>5. QED
    BY <2>1, <2>2, <2>3, <2>4 DEF Next
<1>3. QED
  BY <1>1, <1>2, TypeCorrect, PTL DEF Spec

(* Whatever the application, the peer and failing sends do together, the   *)
(* events of a connection are Establish, then Reads, then at most one      *)
(* Close, the last.                                                        *)
THEOREM EventsCorrect == Spec => []EventProtocol
<1>1. Protocol => EventProtocol
  BY DEF Protocol
<1>2. QED
  BY <1>1, ProtocolInvariant, PTL

(* What tells whether the id is registered is one step of the reactor      *)
(* thread, at the end of open or at the end of the deletion.               *)
LEMMA RegisteredKept ==
    ASSUME Next
    PROVE  Register \/ UnRegister \/ registered' = registered
<1>1. ASSUME NEW t \in Threads, Sending(t) \/ ProbeNext(t)
      PROVE  registered' = registered
  BY <1>1 DEF Sending, ProbeNext, SendClosing, SendOpen, AcquireSendLock,
              PeerSend, PeerSendError, ReleaseSendLock, SendAbort, Requeue
<1>2. ASSUME NEW a \in Apps, App(a)
      PROVE  registered' = registered
  BY <1>1, <1>2 DEF App, AppCall, SendRequest, CloseRequest, SetCloseFlag,
                    Dangling, Threads
<1>3. ASSUME ReactorStep
      PROVE  Register \/ UnRegister \/ registered' = registered
  BY <1>1, <1>3 DEF ReactorStep, Threads, OnEstablish, OpenDone, HandleInput,
     HandleInputEnd, HandleTimeout, TickPassive, TickActive, TickReserve,
     TickOpen, TrySendLock, PopQueue, PopQueueEnd, NotZombie, Zombie,
     NotifyClose, NotifyReserve, CloseHandle, Delete
<1>4. CASE PeerClose
  BY <1>4 DEF PeerClose
<1>5. QED
  BY <1>2, <1>3, <1>4 DEF Next

(* An id goes back to the registry only after Close was pushed under it,   *)
(* and while it can be looked up its object is not deleted: in every step  *)
(* of the connection, an id it got or none (ReactorService.cpp:84-97,      *)
(* 132-170).                                                               *)
THEOREM IdReuseCorrect == Spec => IdFreedAfterClose
<1>1. ASSUME Protocol, Protocol', [Next]_vars
      PROVE  /\ registered' => alive'
             /\ registered /\ ~registered' => Closed
  <2>1. registered' => alive'
    BY <1>1 DEF Protocol
  <2>2. CASE Register
    BY <1>1, <2>2 DEF Register, Protocol
  <2>3. CASE UnRegister
    BY <1>1, <2>3 DEF UnRegister, Protocol
  <2>4. CASE registered' = registered
    BY <2>1, <2>4
  <2>5. CASE UNCHANGED vars
    BY <2>1, <2>5 DEF vars
  <2>6. QED
    BY <1>1, <2>2, <2>3, <2>4, <2>5, RegisteredKept, <2>1
<1>2. QED
  BY <1>1, ProtocolInvariant, PTL DEF Spec, IdFreedAfterClose

-----------------------------------------------------------------------------
(* The bytes.  Each is in one place, and behind the one before it in its   *)
(* block (SequenceFacts); what is inductive needs no more than that a      *)
(* thread outside a send has nothing in its hands, since a new request     *)
(* takes the place of what it has.                                         *)
HandFree == \A a \in Apps : pc[a] \in {"idle", "disable", "receive"}
                               => hand[a] = <<>>

Placed(b) == /\ Once(b, wire, <<>>, hand, sendQueue, dropped)
             /\ Known(b, wire, <<>>, hand, sendQueue, dropped)
                   <=> b[2] <= requests[b[1]]

StreamInv == /\ TypeOK /\ HandFree
             /\ Chained(wire, <<>>, hand, sendQueue)
             /\ \A b \in Bytes : Placed(b)

(* What a step may do to the bytes. *)
KeepsBytes == UNCHANGED <<wire, hand, sendQueue, dropped, requests>>

DropsHand(t, why) == /\ Drop(ToSet(hand[t]), why)
                     /\ hand' = [hand EXCEPT ![t] = <<>>]
                     /\ UNCHANGED <<wire, sendQueue, requests>>

QueuesHand(t) == /\ sendQueue' = Append(sendQueue, hand[t])
                 /\ hand' = [hand EXCEPT ![t] = <<>>]
                 /\ UNCHANGED <<wire, dropped, requests>>

LEMMA SendingBytes ==
    ASSUME NEW t \in Threads, Sending(t)
    PROVE  \/ KeepsBytes \/ PeerSend(t) \/ QueuesHand(t)
           \/ \E why \in {"full", "closing"} : DropsHand(t, why)
<1>1. CASE SendClosing(t)
  BY <1>1 DEF SendClosing, DropsHand
<1>2. CASE SendOpen(t)
  BY <1>2 DEF SendOpen, KeepsBytes
<1>3. CASE AcquireSendLock(t)
  BY <1>3 DEF AcquireSendLock, KeepsBytes
<1>4. CASE PeerSendError(t)
  BY <1>4 DEF PeerSendError, KeepsBytes
<1>5. CASE ReleaseSendLock(t)
  BY <1>5 DEF ReleaseSendLock, KeepsBytes
<1>6. CASE SendAbort(t)
  BY <1>6 DEF SendAbort, DropsHand
<1>7. CASE Requeue(t)
  <2>1. CASE Len(sendQueue) >= SendCap
    BY <1>7, <2>1 DEF Requeue, PushQueue, DropsHand
  <2>2. CASE ~(Len(sendQueue) >= SendCap)
    BY <1>7, <2>2 DEF Requeue, PushQueue, QueuesHand
  <2>3. QED
    BY <2>1, <2>2
<1>8. QED
  BY <1>1, <1>2, <1>3, <1>4, <1>5, <1>6, <1>7 DEF Sending

LEMMA ReactorBytes ==
    ASSUME ReactorStep
    PROVE  \/ KeepsBytes \/ Sending(Reactor) \/ PopQueue \/ Delete
<1> USE DEF quiet, KeepsBytes
<1>1. CASE Register \/ OnEstablish \/ OpenDone
  BY <1>1 DEF Register, OnEstablish, OpenDone
<1>2. CASE HandleInput \/ HandleInputEnd \/ HandleTimeout
  BY <1>2 DEF HandleInput, HandleInputEnd, HandleTimeout
<1>3. CASE TickPassive \/ TickActive \/ TickReserve \/ TickOpen
  BY <1>3 DEF TickPassive, TickActive, TickReserve, TickOpen
<1>4. CASE TrySendLock \/ PopQueueEnd \/ NotZombie \/ Zombie
  BY <1>4 DEF TrySendLock, PopQueueEnd, NotZombie, Zombie
<1>5. CASE NotifyClose \/ NotifyReserve \/ CloseHandle \/ UnRegister
  BY <1>5 DEF NotifyClose, NotifyReserve, CloseHandle, UnRegister
<1>6. CASE ProbeNext(Reactor)
  BY <1>6 DEF ProbeNext
<1>7. QED
  BY <1>1, <1>2, <1>3, <1>4, <1>5, <1>6 DEF ReactorStep

LEMMA NextBytes ==
    ASSUME [Next]_vars
    PROVE  \/ KeepsBytes \/ PopQueue \/ Delete
           \/ \E a \in Apps : SendRequest(a)
           \/ \E t \in Threads :
                 \/ PeerSend(t) \/ QueuesHand(t)
                 \/ \E why \in {"full", "closing"} : DropsHand(t, why)
<1>1. CASE ReactorStep
  BY <1>1, ReactorBytes, SendingBytes DEF Threads
<1>2. CASE PeerClose \/ UNCHANGED vars
  BY <1>2 DEF PeerClose, vars, KeepsBytes
<1>3. ASSUME NEW a \in Apps, App(a)
      PROVE  KeepsBytes \/ SendRequest(a) \/ Sending(a)
  BY <1>3 DEF App, AppCall, CloseRequest, SetCloseFlag, Dangling, ProbeNext,
              KeepsBytes
<1>4. QED
  BY <1>1, <1>2, <1>3, SendingBytes DEF Next, Threads

(* A thread that comes to the end of a send has put down its block. *)
LEMMA SendingFree ==
    ASSUME TypeOK, HandFree, NEW t \in Threads, Sending(t)
    PROVE  HandFree'
<1>1. /\ \A u \in Threads \ {t} : pc'[u] = pc[u] /\ hand'[u] = hand[u]
      /\ pc'[t] \in {"idle", "disable", "receive"} => hand'[t] = <<>>
  <2> USE DEF TypeOK, Goto, At, Back
  <2>1. CASE SendClosing(t) \/ SendAbort(t) \/ Requeue(t)
    BY <2>1 DEF SendClosing, SendAbort, Requeue
  <2>2. CASE SendOpen(t) \/ AcquireSendLock(t) \/ PeerSendError(t)
    BY <2>2 DEF SendOpen, AcquireSendLock, PeerSendError
  <2>3. CASE PeerSend(t)
    <3>1. pc' = [pc EXCEPT ![t] = "sent"]
      BY <2>3 DEF PeerSend
    <3>2. PICK s : hand' = [hand EXCEPT ![t] = s]
      BY <2>3 DEF PeerSend
    <3>3. QED
      BY <3>1, <3>2
  <2>4. CASE ReleaseSendLock(t)
    BY <2>4 DEF ReleaseSendLock
  <2>5. QED
    BY <2>1, <2>2, <2>3, <2>4 DEF Sending
<1>2. QED
  BY <1>1 DEF HandFree, Threads

LEMMA NextFree ==
    ASSUME TypeOK, HandFree, [Next]_vars
    PROVE  HandFree'
<1>1. CASE UNCHANGED vars
  BY <1>1 DEF vars, HandFree
<1>2. CASE PeerClose
  BY <1>2 DEF PeerClose, HandFree
<1>3. ASSUME NEW a \in Apps, App(a) PROVE HandFree'
  <2>1. CASE Sending(a)
    BY <2>1, SendingFree DEF Threads
  <2>2. CASE ProbeNext(a)
    BY <2>2 DEF ProbeNext, HandFree
  <2>3. CASE SendRequest(a)
    BY <2>3 DEF SendRequest, HandFree, Goto, TypeOK
  <2>4. CASE CloseRequest(a) \/ SetCloseFlag(a) \/ Dangling(a)
    <3>1. /\ pc[a] \in {"idle", "disable", "receive"} \/ Goto(a, "undefined")
          /\ \E place : Goto(a, place)
          /\ hand' = hand
      BY <2>4 DEF CloseRequest, SetCloseFlag, Dangling, At
    <3>2. /\ \A u \in Apps \ {a} : pc'[u] = pc[u]
          /\ Goto(a, "undefined") => pc'[a] = "undefined"
      BY <3>1 DEF Goto, TypeOK, Threads
    <3>3. QED
      BY <3>1, <3>2 DEF HandFree
  <2>5. QED
    BY <1>3, <2>1, <2>2, <2>3, <2>4 DEF App, AppCall
<1>4. CASE ReactorStep
  <2>1. CASE Sending(Reactor)
    BY <2>1, SendingFree DEF Threads
  <2>2. CASE ~Sending(Reactor)
    <3>1. \A a \in Apps : pc'[a] = pc[a] /\ hand'[a] = hand[a]
      <4> USE ServiceAssumption DEF TypeOK, Goto, quiet, Threads
      <4>1. CASE Register \/ OnEstablish \/ OpenDone
        BY <4>1 DEF Register, OnEstablish, OpenDone
      <4>2. CASE HandleInput \/ HandleInputEnd \/ HandleTimeout
        BY <4>2 DEF HandleInput, HandleInputEnd, HandleTimeout
      <4>3. CASE TickPassive \/ TickActive \/ TickReserve \/ TickOpen
        BY <4>3 DEF TickPassive, TickActive, TickReserve, TickOpen
      <4>4. CASE TrySendLock \/ PopQueueEnd \/ NotZombie \/ Zombie
        BY <4>4 DEF TrySendLock, PopQueueEnd, NotZombie, Zombie
      <4>5. CASE NotifyClose \/ NotifyReserve \/ CloseHandle \/ UnRegister
        BY <4>5 DEF NotifyClose, NotifyReserve, CloseHandle, UnRegister
      <4>6. CASE ProbeNext(Reactor) \/ Delete
        BY <4>6 DEF ProbeNext, Delete
      <4>7. CASE PopQueue
        BY <4>7 DEF PopQueue
      <4>8. QED
        BY <1>4, <2>2, <4>1, <4>2, <4>3, <4>4, <4>5, <4>6, <4>7
           DEF ReactorStep
    <3>2. QED
      BY <3>1 DEF HandFree
  <2>3. QED
    BY <2>1, <2>2
<1>5. QED
  BY <1>1, <1>2, <1>3, <1>4 DEF Next

-----------------------------------------------------------------------------
(* Each byte stays in one place. *)
LEMMA HandTypes ==
    ASSUME TypeOK
    PROVE  /\ hand \in [Threads -> Seq(Bytes)] /\ wire \in Seq(Bytes)
           /\ sendQueue \in Seq(Seq(Bytes))
           /\ requests \in [Apps -> 0 .. MaxRequests]
  BY DEF TypeOK

LEMMA RequestPlaced ==
    ASSUME TypeOK, HandFree, NEW b \in Bytes, Placed(b),
           NEW a \in Apps, SendRequest(a)
    PROVE  Placed(b)'
<1> DEFINE s == Block(a, requests[a] + 1)
<1>1. /\ hand' = [hand EXCEPT ![a] = s]
      /\ requests' = [requests EXCEPT ![a] = requests[a] + 1]
      /\ UNCHANGED <<wire, sendQueue, dropped>>
      /\ hand[a] = <<>> /\ a \in Threads /\ requests[a] \in Nat
      /\ requests[a] < MaxRequests
  BY DEF SendRequest, HandFree, TypeOK, Threads
<1>2. b \in Apps \X (1 .. MaxRequests) \X (1 .. BlockLen) /\ BlockLen \in Nat
  BY ServiceAssumption DEF Bytes
<1>3. /\ DOMAIN s = 1 .. BlockLen
      /\ \A i \in 1 .. BlockLen : s[i] = <<a, requests[a] + 1, i>>
  BY DEF Block
<1>4. s \in Seq(Bytes)
  <2>1. requests[a] + 1 \in 1 .. MaxRequests
    BY <1>1, ServiceAssumption
  <2>2. \A i \in 1 .. BlockLen : s[i] \in Bytes
    BY <1>3, <2>1 DEF Bytes
  <2>3. QED
    BY <1>2, <2>2 DEF Block
<1> HIDE DEF s
<1>5. In(b, s) <=> b[1] = a /\ b[2] = requests[a] + 1
  <2>1. ASSUME In(b, s) PROVE b[1] = a /\ b[2] = requests[a] + 1
    <3>1. PICK i \in 1 .. BlockLen : s[i] = b
      BY <1>3, <2>1 DEF In
    <3>2. b = <<a, requests[a] + 1, i>>
      BY <1>3, <3>1
    <3>3. QED
      BY <3>2
  <2>2. ASSUME b[1] = a, b[2] = requests[a] + 1 PROVE In(b, s)
    <3>1. b[3] \in 1 .. BlockLen /\ b = <<b[1], b[2], b[3]>>
      BY <1>2
    <3>2. s[b[3]] = b
      BY <1>3, <2>2, <3>1
    <3>3. QED
      BY <1>3, <3>1, <3>2 DEF In
  <2>3. QED
    BY <2>1, <2>2
<1>6. One(b, s)
  <2>1. \A i \in 1 .. BlockLen : s[i][3] = i
    BY <1>3
  <2>2. QED
    BY <1>3, <2>1 DEF One
<1>7. b[2] \in Nat /\ b[1] \in Apps /\ requests[b[1]] \in Nat
  BY <1>2, HandTypes
<1>8. ~(In(b, s) /\ Known(b, wire, <<>>, hand, sendQueue, dropped))
  BY <1>1, <1>5, <1>7 DEF Placed
<1>9. /\ Once(b, wire, <<>>, hand', sendQueue, dropped)
      /\ Known(b, wire, <<>>, hand', sendQueue, dropped)
            <=> Known(b, wire, <<>>, hand, sendQueue, dropped) \/ In(b, s)
  BY <1>1, <1>4, <1>6, <1>8, HandTypes, TakeUp DEF Placed
<1>10. b[2] <= requests'[b[1]] <=> b[2] <= requests[b[1]] \/ In(b, s)
  <2>1. CASE b[1] = a
    <3>1. requests'[b[1]] = requests[a] + 1
      BY <1>1, <1>7, <2>1, HandTypes
    <3>2. QED
      BY <1>1, <1>5, <1>7, <2>1, <3>1
  <2>2. CASE b[1] # a
    BY <1>1, <1>5, <1>7, <2>2, HandTypes
  <2>3. QED
    BY <2>1, <2>2
<1>11. QED
  BY <1>1, <1>9, <1>10 DEF Placed

LEMMA StepPlaced ==
    ASSUME TypeOK, HandFree, NEW b \in Bytes, Placed(b), [Next]_vars
    PROVE  Placed(b)'
<1> USE HandTypes
<1>1. CASE KeepsBytes
  BY <1>1 DEF KeepsBytes, Placed
<1>2. ASSUME NEW a \in Apps, SendRequest(a) PROVE Placed(b)'
  BY <1>2, RequestPlaced
<1>3. ASSUME NEW t \in Threads, PeerSend(t) PROVE Placed(b)'
  <2>1. PICK k \in 0 .. Len(hand[t]) :
           /\ wire' = wire \o SubSeq(hand[t], 1, k)
           /\ hand' = [hand EXCEPT ![t] =
                          SubSeq(hand[t], k + 1, Len(hand[t]))]
    BY <1>3 DEF PeerSend
  <2>2. UNCHANGED <<sendQueue, dropped, requests>>
    BY <1>3 DEF PeerSend
  <2>3. /\ Once(b, wire', <<>>, hand', sendQueue, dropped)
        /\ Known(b, wire', <<>>, hand', sendQueue, dropped)
              <=> Known(b, wire, <<>>, hand, sendQueue, dropped)
    BY <2>1, SendPart DEF Placed
  <2>4. QED
    BY <2>2, <2>3 DEF Placed
<1>4. ASSUME NEW t \in Threads, QueuesHand(t) PROVE Placed(b)'
  <2>1. /\ Once(b, wire, <<>>, hand', sendQueue', dropped)
        /\ Known(b, wire, <<>>, hand', sendQueue', dropped)
              <=> Known(b, wire, <<>>, hand, sendQueue, dropped)
    BY <1>4, QueueHeld DEF Placed, QueuesHand
  <2>2. QED
    BY <1>4, <2>1 DEF Placed, QueuesHand
<1>5. ASSUME NEW t \in Threads, NEW why, DropsHand(t, why) PROVE Placed(b)'
  <2> DEFINE A == ToSet(hand[t])
             g == [hand EXCEPT ![t] = <<>>]
             c == dropped \cup (A \X {why})
  <2>1. /\ hand' = g /\ dropped' = c
        /\ UNCHANGED <<wire, sendQueue, requests>>
    BY <1>5 DEF DropsHand, Drop
  <2>2. b \in A <=> In(b, hand[t])
    BY DEF ToSet, In
  <2> HIDE DEF A
  <2>3. /\ Once(b, wire, <<>>, g, sendQueue, c)
        /\ Known(b, wire, <<>>, g, sendQueue, c)
              <=> Known(b, wire, <<>>, hand, sendQueue, dropped)
    BY <2>2, DropHeld DEF Placed
  <2> HIDE DEF g, c
  <2>4. QED
    BY <2>1, <2>3 DEF Placed
<1>6. CASE PopQueue
  <2>1. /\ sendQueue # <<>> /\ sendQueue' = Tail(sendQueue)
        /\ hand' = [hand EXCEPT ![Reactor] = hand[Reactor] \o Head(sendQueue)]
        /\ UNCHANGED <<wire, dropped, requests>>
    BY <1>6 DEF PopQueue
  <2>2. /\ Once(b, wire, <<>>, hand', sendQueue', dropped)
        /\ Known(b, wire, <<>>, hand', sendQueue', dropped)
              <=> Known(b, wire, <<>>, hand, sendQueue, dropped)
    BY <2>1, Collect DEF Placed, Threads
  <2>3. QED
    BY <2>1, <2>2 DEF Placed
<1>7. CASE Delete
  <2> DEFINE A == UNION {ToSet(sendQueue[k]) : k \in DOMAIN sendQueue}
             c == dropped \cup (A \X {"closing"})
  <2>1. /\ dropped' = c /\ sendQueue' = <<>>
        /\ UNCHANGED <<wire, hand, requests>>
    BY <1>7 DEF Delete, Drop
  <2>2. b \in A <=> Among(b, sendQueue)
    <3>1. \A k \in DOMAIN sendQueue : b \in ToSet(sendQueue[k])
                                         <=> In(b, sendQueue[k])
      BY DEF ToSet, In
    <3>2. QED
      BY <3>1 DEF Among
  <2> HIDE DEF A
  <2>3. /\ Once(b, wire, <<>>, hand, <<>>, c)
        /\ Known(b, wire, <<>>, hand, <<>>, c)
              <=> Known(b, wire, <<>>, hand, sendQueue, dropped)
    BY <2>2, DropQueue DEF Placed
  <2> HIDE DEF c
  <2>4. QED
    BY <2>1, <2>3 DEF Placed
<1>8. QED
  BY <1>1, <1>2, <1>3, <1>4, <1>5, <1>6, <1>7, NextBytes

(* Each byte stays behind the one before it. *)
LEMMA StepChained ==
    ASSUME TypeOK, Chained(wire, <<>>, hand, sendQueue), [Next]_vars
    PROVE  Chained(wire, <<>>, hand, sendQueue)'
<1> USE HandTypes
<1>1. /\ \A t \in Threads : hand[t] \in Seq(Bytes) /\ Behind(hand[t], wire)
      /\ Behind(<<>>, wire) /\ <<>> \in Seq(Bytes)
  BY EmptyBehind DEF Chained
<1>2. CASE KeepsBytes
  BY <1>2 DEF KeepsBytes, Chained
<1>3. ASSUME NEW a \in Apps, SendRequest(a)
      PROVE  Chained(wire, <<>>, hand, sendQueue)'
  <2>1. /\ hand' = [hand EXCEPT ![a] = Block(a, requests[a] + 1)]
        /\ UNCHANGED <<wire, sendQueue>>
    BY <1>3 DEF SendRequest
  <2>2. Behind(Block(a, requests[a] + 1), wire)
    <3>1. BlockLen \in Nat
      BY ServiceAssumption
    <3>2. Behind([i \in 1 .. BlockLen |-> <<a, requests[a] + 1, i>>], wire)
      BY ONLY <3>1, BlockBehind
    <3>3. QED
      BY <3>2 DEF Block
  <2>3. Chained(wire, <<>>, hand', sendQueue)
    BY Zenon, <2>1, <2>2, HandTypes DEF Chained
  <2>4. QED
    BY <2>1, <2>3
<1>4. ASSUME NEW t \in Threads, PeerSend(t)
      PROVE  Chained(wire, <<>>, hand, sendQueue)'
  <2>1. PICK k \in 0 .. Len(hand[t]) :
           /\ wire' = wire \o SubSeq(hand[t], 1, k)
           /\ hand' = [hand EXCEPT ![t] =
                          SubSeq(hand[t], k + 1, Len(hand[t]))]
    BY <1>4 DEF PeerSend
  <2>2. sendQueue' = sendQueue
    BY <1>4 DEF PeerSend
  <2>3. /\ Chained(wire', <<>>, hand, sendQueue)
        /\ Behind(SubSeq(hand[t], k + 1, Len(hand[t])), wire')
    BY <1>1, <2>1, ChangeWire
  <2>4. Chained(wire', <<>>, hand', sendQueue)
    BY <2>1, <2>3 DEF Chained
  <2>5. QED
    BY <2>2, <2>4
<1>5. ASSUME NEW t \in Threads, QueuesHand(t)
      PROVE  Chained(wire, <<>>, hand, sendQueue)'
  <2>1. Chained(wire, <<>>, hand, sendQueue')
    BY <1>1, <1>5, ChangeQueue DEF QueuesHand
  <2>2. Chained(wire, <<>>, hand', sendQueue')
    BY <1>1, <1>5, <2>1, ChangeHand DEF QueuesHand
  <2>3. QED
    BY <1>5, <2>2 DEF QueuesHand
<1>6. ASSUME NEW t \in Threads, NEW why, DropsHand(t, why)
      PROVE  Chained(wire, <<>>, hand, sendQueue)'
  <2>1. Chained(wire, <<>>, hand', sendQueue)
    BY <1>1, <1>6, ChangeHand DEF DropsHand
  <2>2. QED
    BY <1>6, <2>1 DEF DropsHand
<1>7. CASE PopQueue
  <2>1. /\ sendQueue # <<>> /\ sendQueue' = Tail(sendQueue)
        /\ hand' = [hand EXCEPT ![Reactor] = hand[Reactor] \o Head(sendQueue)]
        /\ wire' = wire /\ Reactor \in Threads
    BY <1>7 DEF PopQueue, Threads
  <2>2. Behind(Head(sendQueue), wire) /\ Chained(wire, <<>>, hand, sendQueue')
    BY <1>1, <2>1, ChangeQueue
  <2>3. Head(sendQueue) \in Seq(Bytes)
    BY <2>1, HeadFacts
  <2>4. /\ hand[Reactor] \o Head(sendQueue) \in Seq(Bytes)
        /\ Behind(hand[Reactor] \o Head(sendQueue), wire)
    BY <1>1, <2>1, <2>2, <2>3, ConcatBehind
  <2>5. Chained(wire, <<>>, hand', sendQueue')
    BY <2>1, <2>2, <2>4, ChangeHand
  <2>6. QED
    BY <2>1, <2>5
<1>8. CASE Delete
  BY <1>8 DEF Delete, Chained
<1>9. QED
  BY <1>2, <1>3, <1>4, <1>5, <1>6, <1>7, <1>8, NextBytes

(* Every byte a Send was given is in one place, behind the one before it   *)
(* in its block wherever it waits or was sent, or in what the code threw   *)
(* away, which may be the rest of a block whose start is on the wire: for  *)
(* any number of application threads that send and close, blocks of any    *)
(* length, any send queue, and however the kernel splits the sends         *)
(* (ReactorService.cpp:255-308).                                           *)
THEOREM StreamKept == Spec => []StreamIntact
<1>1. Init => StreamInv
  <2> SUFFICES ASSUME Init PROVE StreamInv
    OBVIOUS
  <2>1. TypeOK
    BY InitTypes
  <2>2. HandFree
    BY DEF Init, HandFree, Threads
  <2>3. /\ wire = <<>> /\ sendQueue = <<>> /\ dropped = {}
        /\ \A t \in Threads : hand[t] = <<>>
        /\ DOMAIN hand = Threads
        /\ \A a \in Apps : requests[a] = 0
    BY DEF Init
  <2>4. Chained(wire, <<>>, hand, sendQueue)
    BY <2>3, EmptyBehind DEF Chained
  <2>5. ASSUME NEW b \in Bytes PROVE Placed(b)
    <3>1. b[1] \in Apps /\ b[2] \in 1 .. MaxRequests /\ MaxRequests \in Nat
      BY ServiceAssumption DEF Bytes
    <3>2. ~(b[2] <= requests[b[1]])
      BY <2>3, <3>1
    <3>3. ~In(b, <<>>) /\ One(b, <<>>)
      BY EmptyHas
    <3>4. ~Among(b, hand) /\ Single(b, hand)
      BY <2>3, <3>3 DEF Among, Single
    <3>5. ~Among(b, <<>>) /\ Single(b, <<>>) /\ ~Gone(b, {})
      BY DEF Among, Single, Gone
    <3>6. QED
      BY <2>3, <3>2, <3>3, <3>4, <3>5 DEF Placed, Once, Known
  <2>6. QED
    BY <2>1, <2>2, <2>4, <2>5 DEF StreamInv
<1>2. StreamInv /\ [Next]_vars => StreamInv'
  <2> SUFFICES ASSUME StreamInv, [Next]_vars PROVE StreamInv'
    OBVIOUS
  <2>1. TypeOK' /\ HandFree'
    BY NextTypes, NextFree DEF StreamInv
  <2>2. Chained(wire, <<>>, hand, sendQueue)'
    BY StepChained DEF StreamInv
  <2>3. \A b \in Bytes : Placed(b)'
    BY StepPlaced DEF StreamInv
  <2>4. Bytes' = Bytes
    BY DEF Bytes
  <2>5. QED
    BY <2>1, <2>2, <2>3, <2>4 DEF StreamInv
<1>3. StreamInv => StreamIntact
  <2> SUFFICES ASSUME StreamInv PROVE StreamIntact
    OBVIOUS
  <2>1. ASSUME NEW b \in Bytes
        PROVE  Cardinality(Whereabouts(b)) =
                  IF b[2] <= requests[b[1]] THEN 1 ELSE 0
    <3>1. DOMAIN hand = Threads
      BY DEF StreamInv, TypeOK
    <3>2. Whereabouts(b) = Spots(b, wire, <<>>, hand, sendQueue, dropped)
      BY <3>1 DEF Whereabouts, Spots
    <3>3. Placed(b)
      BY DEF StreamInv
    <3>4. QED
      BY <3>2, <3>3, OneSpot DEF Placed
  <2>2. PrefixSent
    <3>1. Behind(wire, <<>>)
      BY DEF StreamInv, Chained
    <3>2. \A m : ~In(m, <<>>)
      BY EmptyHas
    <3>3. QED
      BY <3>1, <3>2 DEF Behind, Before, PrefixSent
  <2>3. QED
    BY <2>1, <2>2 DEF StreamIntact, ExactlyOnce
<1>4. QED
  BY <1>1, <1>2, <1>3, PTL DEF Spec
=============================================================================
