------------------------ MODULE NetworkFacadeProofs ------------------------
(***************************************************************************)
(* Proofs about the facade over a reactor, for every number of application *)
(* threads, queues and connections, every capacity of the queues and every *)
(* number of events.                                                       *)
(***************************************************************************)
EXTENDS NetworkFacade, SequenceFacts, FiniteSetTheorems, TLAPS

(* Next, as one list: the call a thread is in goes on, or one of the       *)
(* handlers and calls of this module begins or goes on.                    *)
LEMMA StepCases ==
    ASSUME Next
    PROVE  \/ \E t \in Threads : RepositoryStep(t) /\ UNCHANGED fvars
           \/ \E c \in Connections, state \in {"open", "asked"} :
                 Accept(c) \/ Receive(c) \/ Disconnect(c, state)
           \/ Opened \/ UnRegister \/ EndLoop \/ TimerExpires
           \/ \E t \in Apps : PopAllMessage(t)
           \/ \E t \in Others : Stop(t)
           \/ PulseAll \/ SuspendAcceptor \/ SuspendPush \/ ClearTimeout
           \/ Suspend \/ CloseService \/ CloseTimer \/ CloseEventPool
           \/ Join \/ DeleteAll \/ ClearAcceptor
  BY FacadeAssumption DEF Next, NetContinues, AppContinues, Close, Apps

-----------------------------------------------------------------------------
(* The sets of the types are the same in every state. *)
AllPlaces == {"idle", "stopped", "undefined", "opened", "unregister", "ended"}
                \cup CallPlaces \cup ClosePlaces
Returns == {"idle", "opened", "unregister", "suspend", "delete"}

PcMaps == pc \in [Threads -> AllPlaces] /\ then \in [Threads -> Returns]

(* Once the network thread has ended it stays so.  The queues are deleted, *)
(* and the call that deletes them begins, only then.                       *)
Joined ==
    /\ pc[Net] \in {"idle", "push", "enqueue", "full", "opened", "unregister",
                    "ended"}
    /\ then[Net] \in {"idle", "opened", "unregister"}
    /\ deleted \/ pc[Closer] = "delete" \/ then[Closer] = "delete" =>
          pc[Net] = "ended"

(* A pulse comes before whatever it wakes. *)
PulsedFirst == /\ woken # {} => pulsed # {}
               /\ refused # {} => suspendPush \/ pulsed # {}

AtOK ==
    /\ at \in [Threads -> 1 .. Len(Queues) + Len(Conns) + 1]
    /\ \A t \in Threads :
          /\ pc[t] \in {"scan", "drain", "take", "pulse"} =>
                at[t] <= Len(Queues)
          /\ pc[t] \notin {"scan", "drain", "take", "leave", "pulse", "notify",
                           "ask", "undefined"} => at[t] = 1

QueueOK ==
    /\ queue \in [Ids -> Seq(Messages)]
    /\ \A q \in Ids : Len(queue[q]) <= HighWater
    /\ chain \in [Threads -> Seq(Messages)]

MessageOK ==
    /\ message \in [Threads -> (Ids \X Messages) \cup {None}]
    /\ \A t \in Threads : pc[t] \in {"push", "enqueue", "full"} =>
                             message[t] \in Ids \X Messages

SeenOK == received \subseteq Messages /\ refused \subseteq Messages

WorldOK ==
    /\ pulsed \subseteq Ids /\ woken \subseteq Threads
    /\ {deleted, event, suspendPush, popProgress, timer, ending, suspend}
           \subseteq BOOLEAN
    /\ conn \in [Connections -> {"new", "open", "asked", "closing", "gone"}]
    /\ serving \in Connections
    /\ acceptor \in {"open", "suspended", "closed"}
    /\ pushes \in [reads : 0 .. MaxPushes, timers : 0 .. MaxPushes]
    /\ pushes.reads + pushes.timers <= MaxPushes

IInv == /\ PcMaps /\ AtOK /\ QueueOK /\ MessageOK /\ SeenOK /\ WorldOK
        /\ Joined /\ PulsedFirst

(* The messages that the network thread makes are of their type. *)
NewMessages ==
    /\ \A c \in Connections : <<"Establish", c>> \in Messages
                              /\ <<"Close", c>> \in Messages
    /\ <<"Close", serving>> \in Messages
    /\ pushes.reads + pushes.timers < MaxPushes =>
          <<"Read", pushes.reads>> \in Messages
          /\ <<"Timer", pushes.timers>> \in Messages

(* ... as they are counted and named. *)
LEMMA NewMessageFacts == WorldOK => NewMessages
  BY DEF WorldOK, NewMessages, Messages

(* The loops run over something. *)
Bounds == /\ Len(Queues) \in Nat \ {0} /\ Len(Conns) \in Nat \ {0}
          /\ \A i \in 1 .. Len(Queues) : Queues[i] \in Ids
          /\ \A i \in 1 .. Len(Conns) : Conns[i] \in Connections

(* ... and who the threads are. *)
Staff == /\ Net \in Threads /\ Closer \in Threads /\ Net # Closer
         /\ Others \subseteq Threads \ {Net, Closer}
         /\ Len(Queues) \in Nat \ {0} /\ Len(Conns) \in Nat \ {0}

LEMMA LenFacts == Bounds
  BY RepositoryAssumption, FacadeAssumption DEF Bounds, Ids, Connections

LEMMA StaffFacts == Staff
<1>1. /\ Net \in Threads /\ Closer \in Threads /\ Net # Closer
      /\ Others \subseteq Threads \ {Net, Closer}
  BY FacadeAssumption
<1>2. QED
  BY <1>1, LenFacts DEF Staff, Bounds

(* The places a thread goes to. *)
LEMMA PlacesStep ==
    ASSUME PcMaps,
           Next
    PROVE  PcMaps'
<1> USE FacadeAssumption
        DEF PcMaps, AllPlaces, Returns, CallPlaces, ClosePlaces, Return, Goto,
            PushEvent, PushCall, LoopCall, fvars, rvars, Apps
<1>1. ASSUME NEW t \in Threads, UNCHANGED fvars,
             PushRefused(t) \/ PushFound(t)
      PROVE  PcMaps'
  BY <1>1 DEF PushRefused, PushFound, Refuse
<1>2. ASSUME NEW t \in Threads, UNCHANGED fvars,
             PushEnqueue(t)
      PROVE  PcMaps'
  BY <1>2 DEF PushEnqueue, Enqueued, Enqueue
<1>3. ASSUME NEW t \in Threads, UNCHANGED fvars,
             PushWake(t)
      PROVE  PcMaps'
  BY <1>3 DEF PushWake, Enqueued, Enqueue, Refuse
<1>4. ASSUME NEW t \in Threads, UNCHANGED fvars,
             Scan(t) \/ Wait(t)
      PROVE  PcMaps'
  BY <1>4 DEF Scan, Wait
<1>5. ASSUME NEW t \in Threads, UNCHANGED fvars,
             Enter(t) \/ Claim(t)
      PROVE  PcMaps'
  BY <1>5 DEF Enter, Claim
<1>6. ASSUME NEW t \in Threads, UNCHANGED fvars,
             Visit(t) \/ Take(t)
      PROVE  PcMaps'
  BY <1>6 DEF Visit, Take, NextQueue
<1>7. ASSUME NEW t \in Threads, UNCHANGED fvars,
             Leave(t) \/ Dangling(t)
      PROVE  PcMaps'
  BY <1>7 DEF Leave, Dangling
<1>8. ASSUME NEW t \in Threads, UNCHANGED fvars,
             Pulse(t) \/ Notify(t)
      PROVE  PcMaps'
  BY <1>8 DEF Pulse, Notify
<1>9. ASSUME NEW c \in Connections, NEW state,
             Accept(c) \/ Receive(c) \/ Disconnect(c, state)
      PROVE  PcMaps'
  BY <1>9 DEF Accept, Receive, Disconnect
<1>10. ASSUME NEW t \in Apps,
             PopAllMessage(t)
      PROVE  PcMaps'
  BY <1>10 DEF PopAllMessage
<1>11. ASSUME NEW t \in Others,
             Stop(t)
      PROVE  PcMaps'
  BY <1>11 DEF Stop
<1>12. CASE Opened \/ UnRegister \/ EndLoop
  BY <1>12 DEF Opened, UnRegister, EndLoop
<1>13. CASE TimerExpires
  BY <1>13 DEF TimerExpires
<1>14. CASE PulseAll \/ SuspendAcceptor \/ SuspendPush
  BY <1>14 DEF PulseAll, SuspendAcceptor, SuspendPush
<1>15. CASE ClearTimeout \/ Suspend \/ CloseService
  BY <1>15 DEF ClearTimeout, Suspend, CloseService, WaitTimeout
<1>16. CASE CloseTimer \/ CloseEventPool \/ Join \/ DeleteAll \/ ClearAcceptor
  BY <1>16 DEF CloseTimer, CloseEventPool, Join, DeleteAll, ClearAcceptor
<1>17. QED
  BY <1>1, <1>2, <1>3, <1>4, <1>5, <1>6, <1>7, <1>8, <1>9, <1>10, <1>11, <1>12,
     <1>13, <1>14, <1>15, <1>16, StepCases
     DEF RepositoryStep

(* The network thread is waited for before anything is deleted. *)
LEMMA JoinedStep ==
    ASSUME PcMaps,
           Joined,
           Next
    PROVE  Joined'
<1> USE FacadeAssumption
        DEF PcMaps, Joined, Return, Goto, PushEvent, PushCall, LoopCall, fvars,
            rvars, Apps
<1>1. ASSUME NEW t \in Threads, UNCHANGED fvars,
             PushRefused(t) \/ PushFound(t)
      PROVE  Joined'
  BY <1>1 DEF PushRefused, PushFound, Refuse
<1>2. ASSUME NEW t \in Threads, UNCHANGED fvars,
             PushEnqueue(t)
      PROVE  Joined'
  BY <1>2 DEF PushEnqueue, Enqueued, Enqueue
<1>3. ASSUME NEW t \in Threads, UNCHANGED fvars,
             PushWake(t)
      PROVE  Joined'
  BY <1>3 DEF PushWake, Enqueued, Enqueue, Refuse
<1>4. ASSUME NEW t \in Threads, UNCHANGED fvars,
             Scan(t) \/ Wait(t)
      PROVE  Joined'
  BY <1>4 DEF Scan, Wait
<1>5. ASSUME NEW t \in Threads, UNCHANGED fvars,
             Enter(t) \/ Claim(t)
      PROVE  Joined'
  BY <1>5 DEF Enter, Claim
<1>6. ASSUME NEW t \in Threads, UNCHANGED fvars,
             Visit(t) \/ Take(t)
      PROVE  Joined'
  BY <1>6 DEF Visit, Take, NextQueue
<1>7. ASSUME NEW t \in Threads, UNCHANGED fvars,
             Leave(t) \/ Dangling(t)
      PROVE  Joined'
  BY <1>7 DEF Leave, Dangling
<1>8. ASSUME NEW t \in Threads, UNCHANGED fvars,
             Pulse(t) \/ Notify(t)
      PROVE  Joined'
  BY <1>8 DEF Pulse, Notify
<1>9. ASSUME NEW c \in Connections, NEW state,
             Accept(c) \/ Receive(c) \/ Disconnect(c, state)
      PROVE  Joined'
  BY <1>9 DEF Accept, Receive, Disconnect
<1>10. ASSUME NEW t \in Apps,
             PopAllMessage(t)
      PROVE  Joined'
  BY <1>10 DEF PopAllMessage
<1>11. ASSUME NEW t \in Others,
             Stop(t)
      PROVE  Joined'
  BY <1>11 DEF Stop
<1>12. CASE Opened \/ UnRegister \/ EndLoop
  BY <1>12 DEF Opened, UnRegister, EndLoop
<1>13. CASE TimerExpires
  BY <1>13 DEF TimerExpires
<1>14. CASE PulseAll \/ SuspendAcceptor \/ SuspendPush
  BY <1>14 DEF PulseAll, SuspendAcceptor, SuspendPush
<1>15. CASE ClearTimeout \/ Suspend \/ CloseService
  BY <1>15 DEF ClearTimeout, Suspend, CloseService, WaitTimeout
<1>16. CASE CloseTimer \/ CloseEventPool \/ Join \/ DeleteAll \/ ClearAcceptor
  BY <1>16 DEF CloseTimer, CloseEventPool, Join, DeleteAll, ClearAcceptor
<1>17. QED
  BY <1>1, <1>2, <1>3, <1>4, <1>5, <1>6, <1>7, <1>8, <1>9, <1>10, <1>11, <1>12,
     <1>13, <1>14, <1>15, <1>16, StepCases
     DEF RepositoryStep

(* Nothing is refused before the shutdown or a pulse. *)
LEMMA PulsedFirstStep ==
    ASSUME PcMaps,
           PulsedFirst,
           Next
    PROVE  PulsedFirst'
<1> USE FacadeAssumption
        DEF PcMaps, PulsedFirst, Return, Goto, PushEvent, PushCall, LoopCall,
            fvars, rvars, Apps
<1>1. ASSUME NEW t \in Threads, UNCHANGED fvars,
             PushRefused(t) \/ PushFound(t)
      PROVE  PulsedFirst'
  BY <1>1 DEF PushRefused, PushFound, Refuse
<1>2. ASSUME NEW t \in Threads, UNCHANGED fvars,
             PushEnqueue(t)
      PROVE  PulsedFirst'
  BY <1>2 DEF PushEnqueue, Enqueued, Enqueue
<1>3. ASSUME NEW t \in Threads, UNCHANGED fvars,
             PushWake(t)
      PROVE  PulsedFirst'
  BY <1>3 DEF PushWake, Enqueued, Enqueue, Refuse
<1>4. ASSUME NEW t \in Threads, UNCHANGED fvars,
             Scan(t) \/ Wait(t)
      PROVE  PulsedFirst'
  BY <1>4 DEF Scan, Wait
<1>5. ASSUME NEW t \in Threads, UNCHANGED fvars,
             Enter(t) \/ Claim(t)
      PROVE  PulsedFirst'
  BY <1>5 DEF Enter, Claim
<1>6. ASSUME NEW t \in Threads, UNCHANGED fvars,
             Visit(t) \/ Take(t)
      PROVE  PulsedFirst'
  BY <1>6 DEF Visit, Take, NextQueue
<1>7. ASSUME NEW t \in Threads, UNCHANGED fvars,
             Leave(t) \/ Dangling(t)
      PROVE  PulsedFirst'
  BY <1>7 DEF Leave, Dangling
<1>8. ASSUME NEW t \in Threads, UNCHANGED fvars,
             Pulse(t) \/ Notify(t)
      PROVE  PulsedFirst'
  BY <1>8 DEF Pulse, Notify
<1>9. ASSUME NEW c \in Connections, NEW state,
             Accept(c) \/ Receive(c) \/ Disconnect(c, state)
      PROVE  PulsedFirst'
  BY <1>9 DEF Accept, Receive, Disconnect
<1>10. ASSUME NEW t \in Apps,
             PopAllMessage(t)
      PROVE  PulsedFirst'
  BY <1>10 DEF PopAllMessage
<1>11. ASSUME NEW t \in Others,
             Stop(t)
      PROVE  PulsedFirst'
  BY <1>11 DEF Stop
<1>12. CASE Opened \/ UnRegister \/ EndLoop
  BY <1>12 DEF Opened, UnRegister, EndLoop
<1>13. CASE TimerExpires
  BY <1>13 DEF TimerExpires
<1>14. CASE PulseAll \/ SuspendAcceptor \/ SuspendPush
  BY <1>14 DEF PulseAll, SuspendAcceptor, SuspendPush
<1>15. CASE ClearTimeout \/ Suspend \/ CloseService
  BY <1>15 DEF ClearTimeout, Suspend, CloseService, WaitTimeout
<1>16. CASE CloseTimer \/ CloseEventPool \/ Join \/ DeleteAll \/ ClearAcceptor
  BY <1>16 DEF CloseTimer, CloseEventPool, Join, DeleteAll, ClearAcceptor
<1>17. QED
  BY <1>1, <1>2, <1>3, <1>4, <1>5, <1>6, <1>7, <1>8, <1>9, <1>10, <1>11, <1>12,
     <1>13, <1>14, <1>15, <1>16, StepCases
     DEF RepositoryStep

(* Loops stay within the queues, and the one of CloseService within the   *)
(* connections.                                                            *)
LEMMA AtStep ==
    ASSUME PcMaps, AtOK, Staff, Next
    PROVE  AtOK'
<1> USE DEF PcMaps, AtOK, Staff, Return, Goto, PushEvent, PushCall, LoopCall,
            fvars, rvars, Apps
<1>1. ASSUME NEW t \in Threads, UNCHANGED fvars,
             PushRefused(t)
      PROVE  AtOK'
  BY <1>1 DEF PushRefused, Refuse
<1>2. ASSUME NEW t \in Threads, UNCHANGED fvars,
             PushFound(t)
      PROVE  AtOK'
  BY <1>2 DEF PushFound
<1>3. ASSUME NEW t \in Threads, UNCHANGED fvars,
             PushEnqueue(t)
      PROVE  AtOK'
  <2>1. CASE Enqueued(t)
    BY <1>3, <2>1 DEF PushEnqueue, Enqueued
  <2>2. CASE pc' = [pc EXCEPT ![t] = IF deleted THEN "undefined" ELSE "full"]
             /\ UNCHANGED <<queue, event, then, at, message, woken, refused>>
    BY <1>3, <2>2 DEF PushEnqueue
  <2>3. QED
    BY <1>3, <2>1, <2>2 DEF PushEnqueue
<1>4. ASSUME NEW t \in Threads, UNCHANGED fvars,
             PushWake(t)
      PROVE  AtOK'
  <2>1. CASE Enqueued(t)
    BY <1>4, <2>1 DEF PushWake, Enqueued, Enqueue
  <2>2. CASE Refuse(t) /\ UNCHANGED <<queue, event>>
    BY <1>4, <2>2 DEF PushWake, Refuse
  <2>3. QED
    BY <1>4, <2>1, <2>2 DEF PushWake
<1>5. ASSUME NEW t \in Threads, UNCHANGED fvars,
             Scan(t)
      PROVE  AtOK'
  <2>1. CASE queue[Here(t)] = <<>> /\ at[t] < Len(Queues)
    <3>1. at[t] + 1 \in 1 .. Len(Queues)
      BY <2>1
    <3>2. at' = [at EXCEPT ![t] = at[t] + 1] /\ UNCHANGED pc /\ pc[t] = "scan"
      BY <1>5, <2>1 DEF Scan
    <3>3. QED
      BY <3>1, <3>2
  <2>2. CASE ~(queue[Here(t)] = <<>> /\ at[t] < Len(Queues))
    BY <1>5, <2>2 DEF Scan
  <2>3. QED
    BY <2>1, <2>2
<1>6. ASSUME NEW t \in Threads, UNCHANGED fvars,
             Wait(t)
      PROVE  AtOK'
  BY <1>6 DEF Wait
<1>7. ASSUME NEW t \in Threads, UNCHANGED fvars,
             Enter(t)
      PROVE  AtOK'
  BY <1>7 DEF Enter
<1>8. ASSUME NEW t \in Threads, UNCHANGED fvars,
             Claim(t)
      PROVE  AtOK'
  BY <1>8 DEF Claim
<1>9. ASSUME NEW t \in Threads, UNCHANGED fvars,
             Visit(t)
      PROVE  AtOK'
  <2>1. CASE pc' = [pc EXCEPT ![t] = "take"] /\ UNCHANGED at
    BY <1>9, <2>1 DEF Visit
  <2>2. CASE NextQueue(t) /\ at[t] < Len(Queues)
    <3>1. /\ pc[t] = "drain" /\ at' = [at EXCEPT ![t] = at[t] + 1]
          /\ pc' = [pc EXCEPT ![t] = "drain"]
      BY <1>9, <2>2 DEF Visit, NextQueue
    <3>2. at[t] + 1 \in 1 .. Len(Queues)
      BY <2>2
    <3>3. QED
      BY <3>1, <3>2
  <2>3. CASE NextQueue(t) /\ ~(at[t] < Len(Queues))
    BY <1>9, <2>3 DEF Visit, NextQueue
  <2>4. QED
    BY <1>9, <2>1, <2>2, <2>3 DEF Visit
<1>10. ASSUME NEW t \in Threads, UNCHANGED fvars,
             Take(t)
      PROVE  AtOK'
  <2>1. CASE queue[Here(t)] # <<>>
    BY <1>10, <2>1 DEF Take
  <2>2. CASE queue[Here(t)] = <<>> /\ at[t] < Len(Queues)
    BY <1>10, <2>2 DEF Take, NextQueue
  <2>3. CASE queue[Here(t)] = <<>> /\ at[t] >= Len(Queues)
    BY <1>10, <2>3 DEF Take, NextQueue
  <2>4. QED
    BY <1>10, <2>1, <2>2, <2>3 DEF Take
<1>11. ASSUME NEW t \in Threads, UNCHANGED fvars,
             Leave(t)
      PROVE  AtOK'
  BY <1>11 DEF Leave
<1>12. ASSUME NEW t \in Threads, UNCHANGED fvars,
             Dangling(t)
      PROVE  AtOK'
  BY <1>12 DEF Dangling
<1>13. ASSUME NEW t \in Threads, UNCHANGED fvars,
             Pulse(t)
      PROVE  AtOK'
  <2>1. CASE at[t] < Len(Queues)
    BY <1>13, <2>1 DEF Pulse
  <2>2. CASE ~(at[t] < Len(Queues))
    BY <1>13, <2>2 DEF Pulse
  <2>3. QED
    BY <1>13, <2>1, <2>2 DEF Pulse
<1>14. ASSUME NEW t \in Threads, UNCHANGED fvars,
             Notify(t)
      PROVE  AtOK'
  BY <1>14 DEF Notify
<1>15. ASSUME NEW c \in Connections, NEW state,
             Accept(c)
      PROVE  AtOK'
  BY <1>15 DEF Accept
<1>16. ASSUME NEW c \in Connections, NEW state,
             Receive(c)
      PROVE  AtOK'
  BY <1>16 DEF Receive
<1>17. ASSUME NEW c \in Connections, NEW state,
             Disconnect(c, state)
      PROVE  AtOK'
  BY <1>17 DEF Disconnect
<1>18. ASSUME NEW t \in Apps,
             PopAllMessage(t)
      PROVE  AtOK'
  <2>1. /\ t \in Threads /\ UNCHANGED at
        /\ pc[t] = "idle" /\ pc' = [pc EXCEPT ![t] = "scan"]
    BY <1>18 DEF PopAllMessage
  <2>2. QED
    BY <2>1
<1>19. ASSUME NEW t \in Others,
             Stop(t)
      PROVE  AtOK'
  BY <1>19 DEF Stop
<1>20. CASE Opened
  BY <1>20 DEF Opened
<1>21. CASE UnRegister
  BY <1>21 DEF UnRegister
<1>22. CASE EndLoop
  BY <1>22 DEF EndLoop
<1>23. CASE TimerExpires
  BY <1>23 DEF TimerExpires
<1>24. CASE PulseAll
  BY <1>24 DEF PulseAll
<1>25. CASE SuspendAcceptor
  BY <1>25 DEF SuspendAcceptor
<1>26. CASE SuspendPush
  BY <1>26 DEF SuspendPush
<1>27. CASE ClearTimeout
  BY <1>27 DEF ClearTimeout, WaitTimeout
<1>28. CASE Suspend
  BY <1>28 DEF Suspend
<1>29. CASE CloseService
  BY <1>29 DEF CloseService
<1>30. CASE CloseTimer
  BY <1>30 DEF CloseTimer
<1>31. CASE CloseEventPool
  BY <1>31 DEF CloseEventPool
<1>32. CASE Join
  BY <1>32 DEF Join
<1>33. CASE DeleteAll
  BY <1>33 DEF DeleteAll
<1>34. CASE ClearAcceptor
  BY <1>34 DEF ClearAcceptor
<1>35. QED
  BY <1>1, <1>2, <1>3, <1>4, <1>5, <1>6, <1>7, <1>8, <1>9, <1>10, <1>11, <1>12,
     <1>13, <1>14, <1>15, <1>16, <1>17, <1>18, <1>19, <1>20, <1>21, <1>22,
     <1>23, <1>24, <1>25, <1>26, <1>27, <1>28, <1>29, <1>30, <1>31, <1>32,
     <1>33, <1>34, StepCases
     DEF RepositoryStep

(* A message that is put into its queue. *)
LEMMA EnqueuedQueues ==
    ASSUME QueueOK, NEW t \in Threads, message[t] \in Ids \X Messages,
           Enqueued(t), UNCHANGED chain
    PROVE  QueueOK'
<1> DEFINE q == message[t][1]
           m == message[t][2]
<1>1. q \in Ids /\ m \in Messages
  OBVIOUS
<1>2. Len(queue[q]) < HighWater /\ queue' = [queue EXCEPT ![q] = Append(@, m)]
  BY DEF Enqueued, Enqueue
<1> HIDE DEF q, m
<1>3. /\ Append(queue[q], m) \in Seq(Messages)
      /\ Len(Append(queue[q], m)) <= HighWater
  <2>1. queue[q] \in Seq(Messages)
    BY <1>1 DEF QueueOK
  <2>2. Len(Append(queue[q], m)) = Len(queue[q]) + 1 /\ Len(queue[q]) \in Nat
    BY <1>1, <2>1
  <2>3. QED
    BY <1>1, <1>2, <2>1, <2>2, RepositoryAssumption
<1>4. QED
  BY <1>1, <1>2, <1>3 DEF QueueOK

(* The queue at which a loop is. *)
LEMMA HereFacts ==
    ASSUME AtOK, NEW t \in Threads,
           pc[t] \in {"scan", "drain", "take", "pulse"}
    PROVE  Here(t) \in Ids
  BY LenFacts DEF AtOK, Here, Bounds

(* The queues and what threads have popped from them. *)
LEMMA QueueStep ==
    ASSUME PcMaps,
           AtOK,
           MessageOK,
           QueueOK,
           Next
    PROVE  QueueOK'
<1> USE FacadeAssumption
        DEF QueueOK, MessageOK, Return, Goto, PushEvent, PushCall, LoopCall,
            fvars, rvars, Apps
<1>1. ASSUME NEW t \in Threads, UNCHANGED fvars,
             PushRefused(t) \/ PushFound(t)
      PROVE  QueueOK'
  BY <1>1 DEF PushRefused, PushFound, Refuse
<1>2. ASSUME NEW t \in Threads, UNCHANGED fvars,
             PushEnqueue(t)
      PROVE  QueueOK'
  <2>1. CASE Enqueued(t)
    <3>1. message[t] \in Ids \X Messages
      BY <1>2 DEF PushEnqueue
    <3>2. UNCHANGED chain
      BY <1>2 DEF PushEnqueue
    <3>3. QED
      BY <2>1, <3>1, <3>2, EnqueuedQueues
  <2>2. CASE UNCHANGED queue
    BY <1>2, <2>2 DEF PushEnqueue
  <2>3. QED
    BY <1>2, <2>1, <2>2 DEF PushEnqueue
<1>3. ASSUME NEW t \in Threads, UNCHANGED fvars,
             PushWake(t)
      PROVE  QueueOK'
  <2>1. CASE Enqueued(t)
    <3>1. message[t] \in Ids \X Messages
      BY <1>3 DEF PushWake
    <3>2. UNCHANGED chain
      BY <1>3 DEF PushWake
    <3>3. QED
      BY <2>1, <3>1, <3>2, EnqueuedQueues
  <2>2. CASE UNCHANGED queue
    BY <1>3, <2>2 DEF PushWake
  <2>3. QED
    BY <1>3, <2>1, <2>2 DEF PushWake
<1>4. ASSUME NEW t \in Threads, UNCHANGED fvars,
             Scan(t) \/ Wait(t)
      PROVE  QueueOK'
  BY <1>4 DEF Scan, Wait
<1>5. ASSUME NEW t \in Threads, UNCHANGED fvars,
             Enter(t) \/ Claim(t)
      PROVE  QueueOK'
  BY <1>5 DEF Enter, Claim
<1>6. ASSUME NEW t \in Threads, UNCHANGED fvars,
             Visit(t)
      PROVE  QueueOK'
  BY <1>6 DEF Visit, NextQueue
<1>7. ASSUME NEW t \in Threads, UNCHANGED fvars,
             Take(t)
      PROVE  QueueOK'
  <2>1. CASE queue[Here(t)] # <<>>
    <3> DEFINE q == Here(t)
    <3>1. q \in Ids /\ queue[q] \in Seq(Messages) /\ queue[q] # <<>>
      BY <1>7, <2>1, HereFacts DEF Take
    <3>2. /\ Head(queue[q]) \in Messages /\ Tail(queue[q]) \in Seq(Messages)
          /\ Len(Tail(queue[q])) <= HighWater
      <4>1. Len(queue[q]) <= HighWater
        BY <3>1
      <4>2. QED
        BY <3>1, <4>1, RepositoryAssumption
    <3>3. /\ chain' = [chain EXCEPT ![t] = Append(@, Head(queue[q]))]
          /\ queue' = [queue EXCEPT ![q] = Tail(@)]
      BY <1>7, <2>1 DEF Take
    <3> HIDE DEF q
    <3>4. /\ queue' \in [Ids -> Seq(Messages)]
          /\ chain' \in [Threads -> Seq(Messages)]
      BY <3>1, <3>2, <3>3
    <3>5. \A k \in Ids : Len(queue'[k]) <= HighWater
      BY <3>1, <3>2, <3>3
    <3>6. QED
      BY <3>4, <3>5
  <2>2. CASE queue[Here(t)] = <<>>
    BY <1>7, <2>2 DEF Take, NextQueue
  <2>3. QED
    BY <2>1, <2>2
<1>8. ASSUME NEW t \in Threads, UNCHANGED fvars,
             Leave(t)
      PROVE  QueueOK'
  BY <1>8 DEF Leave
<1>9. ASSUME NEW t \in Threads, UNCHANGED fvars,
             Dangling(t)
      PROVE  QueueOK'
  BY <1>9 DEF Dangling
<1>10. ASSUME NEW t \in Threads, UNCHANGED fvars,
             Pulse(t) \/ Notify(t)
      PROVE  QueueOK'
  BY <1>10 DEF Pulse, Notify
<1>11. ASSUME NEW c \in Connections, NEW state,
             Accept(c) \/ Receive(c) \/ Disconnect(c, state)
      PROVE  QueueOK'
  BY <1>11 DEF Accept, Receive, Disconnect
<1>12. ASSUME NEW t \in Apps,
             PopAllMessage(t)
      PROVE  QueueOK'
  BY <1>12 DEF PopAllMessage
<1>13. ASSUME NEW t \in Others,
             Stop(t)
      PROVE  QueueOK'
  BY <1>13 DEF Stop
<1>14. CASE Opened \/ UnRegister \/ EndLoop
  BY <1>14 DEF Opened, UnRegister, EndLoop
<1>15. CASE TimerExpires
  BY <1>15 DEF TimerExpires
<1>16. CASE PulseAll \/ SuspendAcceptor \/ SuspendPush
  BY <1>16 DEF PulseAll, SuspendAcceptor, SuspendPush
<1>17. CASE ClearTimeout \/ Suspend \/ CloseService
  BY <1>17 DEF ClearTimeout, Suspend, CloseService, WaitTimeout
<1>18. CASE CloseTimer \/ CloseEventPool \/ Join \/ DeleteAll \/ ClearAcceptor
  BY <1>18 DEF CloseTimer, CloseEventPool, Join, DeleteAll, ClearAcceptor
<1>19. QED
  BY <1>1, <1>2, <1>3, <1>4, <1>5, <1>6, <1>7, <1>8, <1>9, <1>10, <1>11, <1>12,
     <1>13, <1>14, <1>15, <1>16, <1>17, <1>18, StepCases
     DEF RepositoryStep

(* What a thread pushes. *)
LEMMA MessageStep ==
    ASSUME PcMaps, NewMessages, MessageOK, Staff,
           EventQueue \in Ids, TimerQueue \in Ids, Next
    PROVE  MessageOK'
<1> USE DEF PcMaps, MessageOK, NewMessages, Staff, Returns, Return, Goto,
            PushEvent, PushCall, LoopCall, fvars, rvars, Apps
<1>1. ASSUME NEW t \in Threads, UNCHANGED fvars,
             PushRefused(t) \/ PushFound(t)
      PROVE  MessageOK'
  BY <1>1 DEF PushRefused, PushFound, Refuse
<1>2. ASSUME NEW t \in Threads, UNCHANGED fvars,
             PushEnqueue(t)
      PROVE  MessageOK'
  BY <1>2 DEF PushEnqueue, Enqueued, Enqueue
<1>3. ASSUME NEW t \in Threads, UNCHANGED fvars,
             PushWake(t)
      PROVE  MessageOK'
  <2>1. CASE Enqueued(t)
    BY <1>3, <2>1 DEF PushWake, Enqueued, Enqueue
  <2>2. CASE Refuse(t) /\ UNCHANGED <<queue, event>>
    BY <1>3, <2>2 DEF PushWake, Refuse
  <2>3. QED
    BY <1>3, <2>1, <2>2 DEF PushWake
<1>4. ASSUME NEW t \in Threads, UNCHANGED fvars,
             Scan(t) \/ Wait(t)
      PROVE  MessageOK'
  BY <1>4 DEF Scan, Wait
<1>5. ASSUME NEW t \in Threads, UNCHANGED fvars,
             Enter(t) \/ Claim(t)
      PROVE  MessageOK'
  BY <1>5 DEF Enter, Claim
<1>6. ASSUME NEW t \in Threads, UNCHANGED fvars,
             Visit(t) \/ Take(t)
      PROVE  MessageOK'
  BY <1>6 DEF Visit, Take, NextQueue
<1>7. ASSUME NEW t \in Threads, UNCHANGED fvars,
             Leave(t) \/ Dangling(t)
      PROVE  MessageOK'
  BY <1>7 DEF Leave, Dangling
<1>8. ASSUME NEW t \in Threads, UNCHANGED fvars,
             Pulse(t) \/ Notify(t)
      PROVE  MessageOK'
  BY <1>8 DEF Pulse, Notify
<1>9. ASSUME NEW c \in Connections, NEW state,
             Accept(c)
      PROVE  MessageOK'
  BY <1>9 DEF Accept
<1>10. ASSUME NEW c \in Connections, NEW state,
             Receive(c)
      PROVE  MessageOK'
  BY <1>10 DEF Receive
<1>11. ASSUME NEW c \in Connections, NEW state,
             Disconnect(c, state)
      PROVE  MessageOK'
  BY <1>11 DEF Disconnect
<1>12. ASSUME NEW t \in Apps,
             PopAllMessage(t)
      PROVE  MessageOK'
  BY <1>12 DEF PopAllMessage
<1>13. ASSUME NEW t \in Others,
             Stop(t)
      PROVE  MessageOK'
  BY <1>13 DEF Stop
<1>14. CASE Opened
  <2>1. CASE acceptor = "suspended"
    <3>1. message' = [message EXCEPT
                        ![Net] = <<EventQueue, <<"Close", serving>>>>]
      BY <1>14, <2>1 DEF Opened
    <3>2. <<EventQueue, <<"Close", serving>>>> \in Ids \X Messages
      OBVIOUS
    <3>3. pc' = [pc EXCEPT ![Net] = "push"]
      BY <1>14, <2>1 DEF Opened
    <3>4. QED
      BY <3>1, <3>2, <3>3
  <2>2. CASE acceptor # "suspended"
    BY <1>14, <2>2 DEF Opened
  <2>3. QED
    BY <2>1, <2>2
<1>15. CASE UnRegister
  BY <1>15 DEF UnRegister
<1>16. CASE EndLoop
  BY <1>16 DEF EndLoop
<1>17. CASE TimerExpires
  BY <1>17 DEF TimerExpires
<1>18. CASE PulseAll \/ SuspendAcceptor \/ SuspendPush
  BY <1>18 DEF PulseAll, SuspendAcceptor, SuspendPush
<1>19. CASE ClearTimeout \/ Suspend \/ CloseService
  BY <1>19 DEF ClearTimeout, Suspend, CloseService, WaitTimeout
<1>20. CASE CloseTimer \/ CloseEventPool \/ Join \/ DeleteAll \/ ClearAcceptor
  BY <1>20 DEF CloseTimer, CloseEventPool, Join, DeleteAll, ClearAcceptor
<1>21. QED
  BY <1>1, <1>2, <1>3, <1>4, <1>5, <1>6, <1>7, <1>8, <1>9, <1>10, <1>11, <1>12,
     <1>13, <1>14, <1>15, <1>16, <1>17, <1>18, <1>19, <1>20, StepCases
     DEF RepositoryStep

(* What was returned or refused. *)
LEMMA SeenStep ==
    ASSUME QueueOK,
           MessageOK,
           SeenOK,
           Next
    PROVE  SeenOK'
<1> USE FacadeAssumption
        DEF QueueOK, SeenOK, MessageOK, ToSet, Return, Goto, PushEvent,
            PushCall, LoopCall, fvars, rvars, Apps
<1>1. ASSUME NEW t \in Threads, UNCHANGED fvars,
             PushRefused(t) \/ PushFound(t)
      PROVE  SeenOK'
  BY <1>1 DEF PushRefused, PushFound, Refuse
<1>2. ASSUME NEW t \in Threads, UNCHANGED fvars,
             PushEnqueue(t)
      PROVE  SeenOK'
  BY <1>2 DEF PushEnqueue, Enqueued, Enqueue
<1>3. ASSUME NEW t \in Threads, UNCHANGED fvars,
             PushWake(t)
      PROVE  SeenOK'
  BY <1>3 DEF PushWake, Enqueued, Enqueue, Refuse
<1>4. ASSUME NEW t \in Threads, UNCHANGED fvars,
             Scan(t) \/ Wait(t)
      PROVE  SeenOK'
  BY <1>4 DEF Scan, Wait
<1>5. ASSUME NEW t \in Threads, UNCHANGED fvars,
             Enter(t) \/ Claim(t)
      PROVE  SeenOK'
  BY <1>5 DEF Enter, Claim
<1>6. ASSUME NEW t \in Threads, UNCHANGED fvars,
             Visit(t) \/ Take(t)
      PROVE  SeenOK'
  BY <1>6 DEF Visit, Take, NextQueue
<1>7. ASSUME NEW t \in Threads, UNCHANGED fvars,
             Leave(t) \/ Dangling(t)
      PROVE  SeenOK'
  BY <1>7 DEF Leave, Dangling
<1>8. ASSUME NEW t \in Threads, UNCHANGED fvars,
             Pulse(t) \/ Notify(t)
      PROVE  SeenOK'
  BY <1>8 DEF Pulse, Notify
<1>9. ASSUME NEW c \in Connections, NEW state,
             Accept(c) \/ Receive(c) \/ Disconnect(c, state)
      PROVE  SeenOK'
  BY <1>9 DEF Accept, Receive, Disconnect
<1>10. ASSUME NEW t \in Apps,
             PopAllMessage(t)
      PROVE  SeenOK'
  BY <1>10 DEF PopAllMessage
<1>11. ASSUME NEW t \in Others,
             Stop(t)
      PROVE  SeenOK'
  BY <1>11 DEF Stop
<1>12. CASE Opened \/ UnRegister \/ EndLoop
  BY <1>12 DEF Opened, UnRegister, EndLoop
<1>13. CASE TimerExpires
  BY <1>13 DEF TimerExpires
<1>14. CASE PulseAll \/ SuspendAcceptor \/ SuspendPush
  BY <1>14 DEF PulseAll, SuspendAcceptor, SuspendPush
<1>15. CASE ClearTimeout \/ Suspend \/ CloseService
  BY <1>15 DEF ClearTimeout, Suspend, CloseService, WaitTimeout
<1>16. CASE CloseTimer \/ CloseEventPool \/ Join \/ DeleteAll \/ ClearAcceptor
  BY <1>16 DEF CloseTimer, CloseEventPool, Join, DeleteAll, ClearAcceptor
<1>17. QED
  BY <1>1, <1>2, <1>3, <1>4, <1>5, <1>6, <1>7, <1>8, <1>9, <1>10, <1>11, <1>12,
     <1>13, <1>14, <1>15, <1>16, StepCases
     DEF RepositoryStep

(* The rest. *)
LEMMA WorldStep ==
    ASSUME AtOK, PcMaps, WorldOK, Staff, Bounds, MaxPushes \in Nat, Next
    PROVE  WorldOK'
<1> USE DEF WorldOK, Staff, Asked, Return, Goto, PushEvent, PushCall,
            LoopCall, fvars, rvars, Apps
<1>1. ASSUME NEW t \in Threads, UNCHANGED fvars,
             PushRefused(t) \/ PushFound(t)
      PROVE  WorldOK'
  BY <1>1 DEF PushRefused, PushFound, Refuse
<1>2. ASSUME NEW t \in Threads, UNCHANGED fvars,
             PushEnqueue(t)
      PROVE  WorldOK'
  BY <1>2 DEF PushEnqueue, Enqueued, Enqueue
<1>3. ASSUME NEW t \in Threads, UNCHANGED fvars,
             PushWake(t)
      PROVE  WorldOK'
  BY <1>3 DEF PushWake, Enqueued, Enqueue, Refuse
<1>4. ASSUME NEW t \in Threads, UNCHANGED fvars,
             Scan(t) \/ Wait(t)
      PROVE  WorldOK'
  BY <1>4 DEF Scan, Wait
<1>5. ASSUME NEW t \in Threads, UNCHANGED fvars,
             Enter(t) \/ Claim(t)
      PROVE  WorldOK'
  BY <1>5 DEF Enter, Claim
<1>6. ASSUME NEW t \in Threads, UNCHANGED fvars,
             Visit(t) \/ Take(t)
      PROVE  WorldOK'
  BY <1>6 DEF Visit, Take, NextQueue
<1>7. ASSUME NEW t \in Threads, UNCHANGED fvars,
             Leave(t) \/ Dangling(t)
      PROVE  WorldOK'
  BY <1>7 DEF Leave, Dangling
<1>8. ASSUME NEW t \in Threads, UNCHANGED fvars,
             Pulse(t)
      PROVE  WorldOK'
  <2>1. Here(t) \in Ids
    BY <1>8, HereFacts DEF Pulse
  <2>2. QED
    BY <1>8, <2>1 DEF Pulse
<1>9. ASSUME NEW t \in Threads, UNCHANGED fvars,
             Notify(t)
      PROVE  WorldOK'
  BY <1>9 DEF Notify
<1>10. ASSUME NEW c \in Connections, NEW state,
             Accept(c)
      PROVE  WorldOK'
  BY <1>10 DEF Accept
<1>11. ASSUME NEW c \in Connections, NEW state,
             Receive(c)
      PROVE  WorldOK'
  <2>1. pushes' \in [reads : 0 .. MaxPushes, timers : 0 .. MaxPushes]
        /\ pushes'.reads + pushes'.timers <= MaxPushes
    BY <1>11 DEF Receive
  <2>2. QED
    BY <1>11, <2>1 DEF Receive
<1>12. ASSUME NEW c \in Connections, NEW state,
             Disconnect(c, state)
      PROVE  WorldOK'
  BY <1>12 DEF Disconnect
<1>13. ASSUME NEW t \in Apps,
             PopAllMessage(t)
      PROVE  WorldOK'
  BY <1>13 DEF PopAllMessage
<1>14. ASSUME NEW t \in Others,
             Stop(t)
      PROVE  WorldOK'
  BY <1>14 DEF Stop
<1>15. CASE Opened \/ UnRegister \/ EndLoop
  BY <1>15 DEF Opened, UnRegister, EndLoop
<1>16. CASE TimerExpires
  <2>1. pushes' \in [reads : 0 .. MaxPushes, timers : 0 .. MaxPushes]
        /\ pushes'.reads + pushes'.timers <= MaxPushes
    BY <1>16 DEF TimerExpires
  <2>2. QED
    BY <1>16, <2>1 DEF TimerExpires
<1>17. CASE PulseAll \/ SuspendAcceptor \/ SuspendPush
  BY <1>17 DEF PulseAll, SuspendAcceptor, SuspendPush
<1>18. CASE ClearTimeout
  BY <1>18 DEF ClearTimeout, WaitTimeout
<1>19. CASE Suspend
  BY <1>19 DEF Suspend
<1>20. CASE CloseService
  <2>1. CASE at[Closer] <= Len(Conns)
    <3> DEFINE c == Conns[at[Closer]]
    <3>1. /\ c \in Connections
          /\ Asked(c) \in {"new", "open", "asked", "closing", "gone"}
      BY <2>1 DEF Bounds, AtOK
    <3>2. conn' = [conn EXCEPT ![c] = Asked(c)]
      BY <1>20, <2>1 DEF CloseService
    <3> HIDE DEF c
    <3>3. conn' \in [Connections ->
                        {"new", "open", "asked", "closing", "gone"}]
      BY <3>1, <3>2
    <3>4. QED
      BY <1>20, <3>3 DEF CloseService
  <2>2. CASE ~(at[Closer] <= Len(Conns))
    BY <1>20, <2>2 DEF CloseService
  <2>3. QED
    BY <2>1, <2>2
<1>21. CASE CloseTimer \/ CloseEventPool \/ Join \/ DeleteAll \/ ClearAcceptor
  BY <1>21 DEF CloseTimer, CloseEventPool, Join, DeleteAll, ClearAcceptor
<1>22. QED
  BY <1>1, <1>2, <1>3, <1>4, <1>5, <1>6, <1>7, <1>8, <1>9, <1>10, <1>11, <1>12,
     <1>13, <1>14, <1>15, <1>16, <1>17, <1>18, <1>19, <1>20, <1>21, StepCases
     DEF RepositoryStep

(* The invariant holds at first, and every step keeps it. *)
LEMMA InitIInv ==
    ASSUME Init
    PROVE  IInv
<1> USE FacadeAssumption, LenFacts DEF Init, RepositoryInit, Bounds
<1>1. PcMaps
  BY DEF PcMaps, AllPlaces, Returns
<1>2. AtOK
  BY DEF AtOK
<1>3. QueueOK
  BY RepositoryAssumption DEF QueueOK
<1>4. MessageOK /\ SeenOK
  <2>1. \A t \in Threads : message[t] = None /\ pc[t] = "idle"
    OBVIOUS
  <2>2. MessageOK
    BY <2>1 DEF MessageOK
  <2>3. QED
    BY <2>2 DEF SeenOK
<1>5. WorldOK
  <2>1. /\ conn \in [Connections ->
                        {"new", "open", "asked", "closing", "gone"}]
        /\ serving \in Connections
    OBVIOUS
  <2>2. /\ pushes \in [reads : 0 .. MaxPushes, timers : 0 .. MaxPushes]
        /\ pushes.reads + pushes.timers <= MaxPushes
    OBVIOUS
  <2>3. QED
    BY <2>1, <2>2 DEF WorldOK
<1>6. Joined /\ PulsedFirst
  BY DEF Joined, PulsedFirst
<1>7. QED
  BY <1>1, <1>2, <1>3, <1>4, <1>5, <1>6 DEF IInv

LEMMA NextIInv ==
    ASSUME IInv, [Next]_vars
    PROVE  IInv'
<1>1. CASE Next
  <2>1. PcMaps' /\ AtOK'
    BY <1>1, PlacesStep, AtStep, StaffFacts DEF IInv
  <2>2. /\ EventQueue \in Ids /\ TimerQueue \in Ids /\ MaxPushes \in Nat
    BY FacadeAssumption
  <2>3. QueueOK' /\ MessageOK' /\ SeenOK'
    BY <1>1, <2>2, QueueStep, MessageStep, SeenStep, NewMessageFacts,
       StaffFacts DEF IInv
  <2>4. WorldOK' /\ Joined' /\ PulsedFirst'
    BY <1>1, <2>2, WorldStep, JoinedStep, PulsedFirstStep, StaffFacts,
       LenFacts DEF IInv
  <2>5. QED
    BY <2>1, <2>3, <2>4 DEF IInv
<1>2. CASE UNCHANGED vars
  BY <1>2 DEF vars, rvars, fvars, IInv, PcMaps, AtOK, QueueOK, MessageOK,
     SeenOK, WorldOK, Joined, PulsedFirst
<1>3. QED
  BY <1>1, <1>2

LEMMA IInvHolds == Spec => []IInv
  BY InitIInv, NextIInv, PTL DEF Spec

(* Every variable has its type, and no queue exceeds its high water mark   *)
(* (MessageQueue.cpp:43-61, MessageQueueRepository.cpp:23-136).            *)
THEOREM TypeCorrect == Spec => []TypeOK
<1>1. ASSUME IInv
      PROVE  TypeOK
  BY <1>1 DEF IInv, TypeOK, PcMaps, AllPlaces, Returns, AtOK, QueueOK,
     MessageOK, SeenOK, WorldOK
<1>2. QED
  BY <1>1, IInvHolds, PTL

(* The queues outlive the network thread, however far the application      *)
(* threads are with their calls (NetworkFacade.cpp:85-96).                 *)
THEOREM QueueOutlivesNetworkHolds == Spec => []QueueOutlivesNetwork
<1>1. ASSUME IInv
      PROVE  QueueOutlivesNetwork
  BY <1>1 DEF IInv, Joined, QueueOutlivesNetwork
<1>2. QED
  BY <1>1, IInvHolds, PTL

(* A full queue makes the network thread wait; events are refused only     *)
(* from the shutdown on, or by a pulse (MessageQueueRepository.cpp:44-57). *)
THEOREM RefusedLateHolds == Spec => []RefusedLate
<1>1. ASSUME IInv
      PROVE  RefusedLate
  BY <1>1 DEF IInv, PulsedFirst, RefusedLate
<1>2. QED
  BY <1>1, IInvHolds, PTL

-----------------------------------------------------------------------------
(* Where an event is: see SequenceFacts for what is said of sequences and  *)
(* of families of sequences.                                               *)
(* A message is with the network thread that pushes it. *)
Pushing(m, t) == message[t] # None /\ message[t][2] = m

InPush(m) == \E t \in Threads : Pushing(m, t)

OnePush(m) == \A t, u \in Threads : Pushing(m, t) /\ Pushing(m, u) => t = u

Kept(m) ==
    /\ Single(m, queue) /\ Single(m, chain) /\ OnePush(m)
    /\ Made(m) <=> \/ Among(m, queue) \/ Among(m, chain) \/ InPush(m)
                   \/ m \in received \/ m \in refused
    /\ Among(m, queue) => ~Among(m, chain)
    /\ InPush(m) => ~Among(m, queue) /\ ~Among(m, chain)
    /\ m \in received => ~Among(m, queue) /\ ~Among(m, chain) /\ ~InPush(m)
    /\ m \in refused => /\ ~Among(m, queue) /\ ~Among(m, chain)
                        /\ ~InPush(m) /\ m \notin received

(* A thread that is not pushing has nothing to push; the connection that   *)
(* the network thread deals with is in the state that its handler left.    *)
Serving ==
    /\ \A t \in Threads : pc[t] \notin {"push", "enqueue", "full", "undefined"}
                             => message[t] = None
    /\ pc[Net] \in {"idle", "opened", "unregister", "ended"} =>
          then[Net] = "idle"
    /\ "opened" \in {pc[Net], then[Net]} => conn[serving] \in {"open", "asked"}
    /\ "unregister" \in {pc[Net], then[Net]} => conn[serving] = "closing"

EachKept == \A m \in Messages : Kept(m)

-----------------------------------------------------------------------------
(* A thread begins to push a message, and comes to the end of its push. *)
LEMMA PushBegins ==
    ASSUME MessageOK, NEW t \in Threads, message[t] = None, NEW q \in Ids,
           NEW n \in Messages, message' = [message EXCEPT ![t] = <<q, n>>],
           NEW m
    PROVE  /\ InPush(m)' <=> InPush(m) \/ m = n
           /\ OnePush(m) /\ ~(InPush(m) /\ m = n) => OnePush(m)'
<1>1. /\ message'[t] = <<q, n>> /\ <<q, n>> # None
      /\ \A u \in Threads \ {t} : message'[u] = message[u]
  BY DEF MessageOK, None
<1>2. /\ message'[t] # None /\ message'[t][2] = n
      /\ \A u \in Threads \ {t} : message'[u] = message[u]
  BY <1>1
<1>3. QED
  BY <1>2 DEF InPush, OnePush, Pushing

LEMMA PushEnds ==
    ASSUME MessageOK, NEW t \in Threads, message[t] \in Ids \X Messages,
           message' = [message EXCEPT ![t] = None], NEW m, OnePush(m)
    PROVE  /\ InPush(m)' <=> InPush(m) /\ m # message[t][2]
           /\ OnePush(m)'
<1>1. /\ message[t] # None /\ message'[t] = None
      /\ \A u \in Threads \ {t} : message'[u] = message[u]
  BY DEF MessageOK, None
<1>2. QED
  BY <1>1 DEF InPush, OnePush, Pushing

(* Nothing is handed on. *)
LEMMA Unmoved ==
    ASSUME UNCHANGED <<queue, chain, message, received, refused>>,
           NEW m, Kept(m), Made(m)' <=> Made(m)
    PROVE  Kept(m)'
<1>1. UNCHANGED queue /\ UNCHANGED chain /\ UNCHANGED message
      /\ UNCHANGED received /\ UNCHANGED refused
  OBVIOUS
<1>2. /\ (InPush(m)' <=> InPush(m)) /\ (OnePush(m)' <=> OnePush(m))
  BY <1>1 DEF InPush, OnePush, Pushing
<1>3. QED
  BY <1>1, <1>2 DEF Kept

(* A message is made and a thread begins to push it. *)
LEMMA MadeKept ==
    ASSUME MessageOK, NEW t \in Threads, message[t] = None, NEW q \in Ids,
           NEW n \in Messages, message' = [message EXCEPT ![t] = <<q, n>>],
           UNCHANGED <<queue, chain, received, refused>>,
           NEW m, Kept(m), m = n => ~Made(m), Made(m)' <=> Made(m) \/ m = n
    PROVE  Kept(m)'
<1>1. UNCHANGED queue /\ UNCHANGED chain
      /\ UNCHANGED received /\ UNCHANGED refused
  OBVIOUS
<1>2. /\ InPush(m)' <=> InPush(m) \/ m = n
      /\ OnePush(m) /\ ~(InPush(m) /\ m = n) => OnePush(m)'
  BY PushBegins
<1>3. QED
  BY <1>1, <1>2 DEF Kept

(* It is put into its queue. *)
LEMMA EnqueuedKept ==
    ASSUME QueueOK, MessageOK,
           NEW t \in Threads, message[t] \in Ids \X Messages,
           Enqueued(t), UNCHANGED <<chain, received>>,
           NEW m, Kept(m), Made(m)' <=> Made(m)
    PROVE  Kept(m)'
<1> DEFINE q == message[t][1]
           n == message[t][2]
           s == Append(queue[q], n)
<1>1. q \in Ids /\ n \in Messages /\ Pushing(n, t)
  BY DEF Pushing, None
<1>2. /\ queue' = [queue EXCEPT ![q] = s]
      /\ message' = [message EXCEPT ![t] = None]
      /\ UNCHANGED refused /\ UNCHANGED chain /\ UNCHANGED received
  BY DEF Enqueued, Enqueue
<1>3. /\ InPush(m)' <=> InPush(m) /\ m # n
      /\ OnePush(m)'
  BY <1>2, PushEnds DEF Kept
<1>4. m = n => InPush(m)
  BY <1>1 DEF InPush
<1>5. /\ In(m, s) <=> In(m, queue[q]) \/ m = n
      /\ One(m, queue[q]) /\ ~(In(m, queue[q]) /\ m = n) => One(m, s)
  BY <1>1, AppendHas DEF QueueOK
<1>6. queue \in [Ids -> Seq(Messages)] /\ s \in Seq(Messages)
  BY <1>1, AppendHas DEF QueueOK
<1> HIDE DEF q, n, s
<1>7. In(m, queue[q]) => Among(m, queue)
  BY <1>1, <1>6 DEF Among
<1>8. One(m, s) /\ (In(m, s) => In(m, queue[q]) \/ ~Among(m, queue))
  BY <1>1, <1>4, <1>5, <1>6, <1>7 DEF Kept, Single
<1>9. /\ Single(m, queue')
      /\ Among(m, queue') <=> In(m, s) \/ (Among(m, queue) /\ ~In(m, queue[q]))
  BY <1>1, <1>2, <1>6, <1>8, ReplaceHas DEF Kept
<1>10. Among(m, queue') <=> Among(m, queue) \/ m = n
  BY <1>5, <1>7, <1>9
<1>11. QED
  BY <1>2, <1>3, <1>4, <1>9, <1>10 DEF Kept

(* It is refused. *)
LEMMA RefusedKept ==
    ASSUME MessageOK, NEW t \in Threads, message[t] \in Ids \X Messages,
           Refuse(t), UNCHANGED <<queue, chain, received>>,
           NEW m, Kept(m), Made(m)' <=> Made(m)
    PROVE  Kept(m)'
<1> DEFINE n == message[t][2]
<1>1. /\ message' = [message EXCEPT ![t] = None]
      /\ refused' = refused \cup {n}
      /\ UNCHANGED queue /\ UNCHANGED chain /\ UNCHANGED received
  BY DEF Refuse
<1>2. InPush(m)' <=> InPush(m) /\ m # n
  BY <1>1, PushEnds DEF Kept
<1>3. OnePush(m)'
  BY <1>1, PushEnds DEF Kept
<1>4. m = n => InPush(m)
  BY DEF InPush, Pushing, None
<1> HIDE DEF n
<1>5. QED
  BY <1>1, <1>2, <1>3, <1>4 DEF Kept

(* A thread pops it. *)
LEMMA TakenKept ==
    ASSUME QueueOK, NEW t \in Threads, NEW q \in Ids, queue[q] # <<>>,
           chain' = [chain EXCEPT ![t] = Append(@, Head(queue[q]))],
           queue' = [queue EXCEPT ![q] = Tail(@)],
           UNCHANGED <<message, received, refused>>,
           NEW m, Kept(m), Made(m)' <=> Made(m)
    PROVE  Kept(m)'
<1> DEFINE n == Head(queue[q])
           rest == Tail(queue[q])
           s == Append(chain[t], n)
<1>1. /\ queue \in [Ids -> Seq(Messages)]
      /\ chain \in [Threads -> Seq(Messages)]
      /\ queue[q] \in Seq(Messages) /\ chain[t] \in Seq(Messages)
      /\ n \in Messages /\ rest \in Seq(Messages) /\ s \in Seq(Messages)
  BY DEF QueueOK
<1>2. /\ In(m, queue[q]) <=> m = n \/ In(m, rest)
      /\ One(m, queue[q]) => One(m, rest) /\ ~(m = n /\ In(m, rest))
  BY <1>1, HeadHas
<1>3. /\ In(m, s) <=> In(m, chain[t]) \/ m = n
      /\ One(m, chain[t]) /\ ~(In(m, chain[t]) /\ m = n) => One(m, s)
  BY <1>1, AppendHas
<1>4. /\ queue' = [queue EXCEPT ![q] = rest]
      /\ chain' = [chain EXCEPT ![t] = s]
      /\ UNCHANGED message /\ UNCHANGED received /\ UNCHANGED refused
  OBVIOUS
<1> HIDE DEF n, rest, s
<1>5. /\ One(m, queue[q]) /\ One(m, chain[t])
      /\ In(m, queue[q]) => Among(m, queue)
      /\ In(m, chain[t]) => Among(m, chain)
  BY <1>1 DEF Kept, Single, Among
<1>6. /\ Single(m, queue')
      /\ Among(m, queue') <=>
            In(m, rest) \/ (Among(m, queue) /\ ~In(m, queue[q]))
  <2>1. One(m, rest) /\ (In(m, rest) => In(m, queue[q])) /\ Single(m, queue)
    BY <1>2, <1>5 DEF Kept
  <2>2. /\ Single(m, [queue EXCEPT ![q] = rest])
        /\ Among(m, [queue EXCEPT ![q] = rest]) <=>
              In(m, rest) \/ (Among(m, queue) /\ ~In(m, queue[q]))
    BY ONLY <1>1, <2>1, ReplaceHas, q \in Ids
  <2>3. QED
    BY <1>4, <2>2
<1>7. /\ Single(m, chain')
      /\ Among(m, chain') <=> In(m, s) \/ (Among(m, chain) /\ ~In(m, chain[t]))
  <2>1. m = n => Among(m, queue) /\ ~Among(m, chain)
    BY <1>2, <1>5 DEF Kept
  <2>2. /\ One(m, s) /\ Single(m, chain)
        /\ In(m, s) => In(m, chain[t]) \/ ~Among(m, chain)
    BY <1>3, <1>5, <2>1 DEF Kept
  <2>3. /\ Single(m, [chain EXCEPT ![t] = s])
        /\ Among(m, [chain EXCEPT ![t] = s]) <=>
              In(m, s) \/ (Among(m, chain) /\ ~In(m, chain[t]))
    BY ONLY <1>1, <2>2, ReplaceHas, t \in Threads
  <2>4. QED
    BY <1>4, <2>3
<1>8. Among(m, queue') <=> Among(m, queue) /\ m # n
  <2>1. ASSUME Among(m, queue), ~In(m, queue[q])
        PROVE  m # n
    BY <1>2, <2>1
  <2>2. QED
    BY <1>2, <1>5, <1>6, <2>1
<1>9. Among(m, chain') <=> Among(m, chain) \/ m = n
  BY <1>3, <1>5, <1>7
<1>10. m = n => Among(m, queue)
  BY <1>2, <1>5
<1>11. (InPush(m)' <=> InPush(m)) /\ (OnePush(m)' <=> OnePush(m))
  BY <1>4 DEF InPush, OnePush, Pushing
<1>12. QED
  BY <1>4, <1>6, <1>7, <1>8, <1>9, <1>10, <1>11 DEF Kept

(* A call returns what it has popped. *)
LEMMA ReturnedKept ==
    ASSUME QueueOK, NEW t \in Threads,
           received' = received \cup ToSet(chain[t]),
           chain' = [chain EXCEPT ![t] = <<>>],
           UNCHANGED <<queue, message, refused>>,
           NEW m, Kept(m), Made(m)' <=> Made(m)
    PROVE  Kept(m)'
<1>1. UNCHANGED queue /\ UNCHANGED message /\ UNCHANGED refused
  OBVIOUS
<1>2. chain \in [Threads -> Seq(Messages)] /\ <<>> \in Seq(Messages)
  BY DEF QueueOK
<1>3. ~In(m, <<>>) /\ One(m, <<>>)
  BY EmptyHas
<1>4. /\ Single(m, chain')
      /\ Among(m, chain') <=> Among(m, chain) /\ ~In(m, chain[t])
  BY <1>2, <1>3, ReplaceHas DEF Kept
<1>5. m \in received' <=> m \in received \/ In(m, chain[t])
  BY DEF ToSet, In
<1>6. In(m, chain[t]) => Among(m, chain)
  BY <1>2 DEF Among
<1>7. (InPush(m)' <=> InPush(m)) /\ (OnePush(m)' <=> OnePush(m))
  BY <1>1 DEF InPush, OnePush, Pushing
<1>8. QED
  BY <1>1, <1>4, <1>5, <1>6, <1>7 DEF Kept

-----------------------------------------------------------------------------
(* What is made: a push of a new message, by the network thread, makes it. *)
MadeNow(n) == /\ ~Made(n)
              /\ \A m \in Messages : Made(m)' <=> Made(m) \/ m = n

MadeBefore == \A m \in Messages : Made(m)' <=> Made(m)

(* What each kind of message was made by. *)
LEMMA MessageKinds ==
    ASSUME NEW m \in Messages
    PROVE  \/ \E c \in Connections : m = <<"Establish", c>>
           \/ \E c \in Connections : m = <<"Close", c>>
           \/ \E i \in 0 .. MaxPushes : m = <<"Read", i>>
           \/ \E i \in 0 .. MaxPushes : m = <<"Timer", i>>
  BY DEF Messages

LEMMA MadeMeans ==
    /\ \A c : Made(<<"Establish", c>>) <=> conn[c] # "new"
    /\ \A c : Made(<<"Close", c>>) <=> conn[c] \in {"closing", "gone"}
    /\ \A i : Made(<<"Read", i>>) <=> i < pushes.reads
    /\ \A i : Made(<<"Timer", i>>) <=> i < pushes.timers
  BY DEF Made

LEMMA MadeMeansNext ==
    /\ \A c : Made(<<"Establish", c>>)' <=> conn'[c] # "new"
    /\ \A c : Made(<<"Close", c>>)' <=> conn'[c] \in {"closing", "gone"}
    /\ \A i : Made(<<"Read", i>>)' <=> i < pushes'.reads
    /\ \A i : Made(<<"Timer", i>>)' <=> i < pushes'.timers
  BY DEF Made

(* The steps that make one ... *)
LEMMA AcceptMakes ==
    ASSUME WorldOK, NEW c \in Connections, Accept(c)
    PROVE  MadeNow(<<"Establish", c>>)
<1>1. /\ conn[c] = "new" /\ conn' = [conn EXCEPT ![c] = "open"]
      /\ pushes' = pushes
  BY DEF Accept
<1>2. QED
  BY <1>1, MadeMeans, MadeMeansNext, MessageKinds DEF MadeNow, WorldOK

LEMMA CloseMakes ==
    ASSUME WorldOK, NEW c \in Connections, conn[c] \in {"open", "asked"},
           conn' = [conn EXCEPT ![c] = "closing"], UNCHANGED pushes
    PROVE  MadeNow(<<"Close", c>>)
  BY MadeMeans, MadeMeansNext, MessageKinds DEF MadeNow, WorldOK

LEMMA ReceiveMakes ==
    ASSUME WorldOK, NEW c \in Connections, Receive(c)
    PROVE  MadeNow(<<"Read", pushes.reads>>)
<1>1. /\ pushes'.reads = pushes.reads + 1 /\ pushes'.timers = pushes.timers
      /\ conn' = conn
  BY DEF Receive, WorldOK
<1>2. \A i \in 0 .. MaxPushes :
         i < pushes.reads + 1 <=> i < pushes.reads \/ i = pushes.reads
  BY DEF WorldOK
<1>3. QED
  BY <1>1, <1>2, MadeMeans, MadeMeansNext, MessageKinds DEF MadeNow, WorldOK

LEMMA TimerMakes ==
    ASSUME WorldOK, TimerExpires
    PROVE  MadeNow(<<"Timer", pushes.timers>>)
<1>1. /\ pushes'.timers = pushes.timers + 1 /\ pushes'.reads = pushes.reads
      /\ conn' = conn
  BY DEF TimerExpires, WorldOK
<1>2. \A i \in 0 .. MaxPushes :
         i < pushes.timers + 1 <=> i < pushes.timers \/ i = pushes.timers
  BY DEF WorldOK
<1>3. QED
  BY <1>1, <1>2, MadeMeans, MadeMeansNext, MessageKinds DEF MadeNow, WorldOK

(* ... and the others: asking a connection to close, and giving its id    *)
(* back, makes nothing. *)
LEMMA OthersMake ==
    ASSUME WorldOK, Serving, AtOK,
           \/ UNCHANGED fvars \/ UnRegister \/ CloseService \/ CloseTimer
           \/ UNCHANGED <<conn, pushes>>
    PROVE  MadeBefore
<1>1. CASE UNCHANGED <<conn, pushes>> \/ UNCHANGED fvars \/ CloseTimer
  BY <1>1 DEF MadeBefore, Made, fvars, CloseTimer
<1>2. CASE UnRegister
  <2>1. /\ conn[serving] = "closing" /\ pushes' = pushes
        /\ conn' = [conn EXCEPT ![serving] = "gone"]
    BY <1>2 DEF UnRegister, Serving
  <2>2. QED
    BY <2>1, MadeMeans, MadeMeansNext, MessageKinds DEF MadeBefore, WorldOK
<1>3. CASE CloseService
  <2>1. CASE at[Closer] <= Len(Conns)
    <3> DEFINE c == Conns[at[Closer]]
    <3>1. c \in Connections
      BY <2>1, LenFacts, FacadeAssumption DEF Bounds, AtOK
    <3>2. /\ conn' = [conn EXCEPT ![c] = Asked(c)] /\ pushes' = pushes
      BY <1>3, <2>1 DEF CloseService
    <3> HIDE DEF c
    <3>3. /\ conn[c] = "new" <=> Asked(c) = "new"
          /\ conn[c] \in {"closing", "gone"} <=>
                Asked(c) \in {"closing", "gone"}
      BY DEF Asked
    <3>4. QED
      BY <3>1, <3>2, <3>3, MadeMeans, MadeMeansNext, MessageKinds
         DEF MadeBefore, WorldOK
  <2>2. CASE ~(at[Closer] <= Len(Conns))
    BY <1>3, <2>2 DEF CloseService, MadeBefore, Made
  <2>3. QED
    BY <2>1, <2>2
<1>4. QED
  BY <1>1, <1>2, <1>3

(* A push comes to its end, one way or the other. *)
LEMMA ReturnServing ==
    ASSUME PcMaps, MessageOK, WorldOK, Serving, NEW t \in Threads,
           pc[t] \in {"push", "enqueue", "full"},
           pc' = [pc EXCEPT ![t] = then[t]],
           then' = [then EXCEPT ![t] = "idle"],
           message' = [message EXCEPT ![t] = None],
           UNCHANGED conn, UNCHANGED serving
    PROVE  Serving'
<1>1. /\ pc'[t] = then[t] /\ then'[t] = "idle" /\ message'[t] = None
      /\ \A u \in Threads \ {t} : /\ pc'[u] = pc[u] /\ then'[u] = then[u]
                                  /\ message'[u] = message[u]
  BY DEF PcMaps, MessageOK
<1>2. \A u \in Threads :
         pc'[u] \notin {"push", "enqueue", "full", "undefined"}
             => message'[u] = None
  BY <1>1 DEF Serving
<1>3. Net \in Threads
  BY FacadeAssumption
<1>4. CASE t = Net
  BY <1>1, <1>2, <1>3, <1>4 DEF Serving
<1>5. CASE t # Net
  BY <1>1, <1>2, <1>3, <1>5 DEF Serving
<1>6. QED
  BY <1>4, <1>5

(* What is known of the threads and of the maps. *)
Cast == /\ Staff
        /\ DOMAIN pc = Threads /\ DOMAIN then = Threads
        /\ DOMAIN message = Threads
        /\ DOMAIN conn = Connections /\ serving \in Connections

LEMMA CastFacts ==
    ASSUME PcMaps, MessageOK, WorldOK
    PROVE  Cast
  BY StaffFacts DEF Cast, PcMaps, MessageOK, WorldOK

(* What the network thread has at hand. *)
LEMMA ServingStep ==
    ASSUME PcMaps, MessageOK, WorldOK, AtOK, Cast, Serving, Next
    PROVE  Serving'
<1> USE DEF Cast, Staff, Serving, None, Return, Goto, PushEvent, PushCall,
            LoopCall, fvars, rvars, Apps
<1>1. ASSUME NEW t \in Threads, UNCHANGED fvars,
             PushRefused(t) \/ PushFound(t)
      PROVE  Serving'
  BY <1>1 DEF PushRefused, PushFound, Refuse
<1>2. ASSUME NEW t \in Threads, UNCHANGED fvars,
             PushEnqueue(t)
      PROVE  Serving'
  <2>1. CASE Enqueued(t)
    <3>1. /\ pc[t] = "enqueue" /\ pc' = [pc EXCEPT ![t] = then[t]]
          /\ then' = [then EXCEPT ![t] = "idle"]
          /\ message' = [message EXCEPT ![t] = None]
          /\ UNCHANGED conn /\ UNCHANGED serving
      BY <1>2, <2>1 DEF PushEnqueue, Enqueued
    <3>2. QED
      BY <3>1, ReturnServing
  <2>2. CASE pc' = [pc EXCEPT ![t] = IF deleted THEN "undefined" ELSE "full"]
             /\ UNCHANGED <<queue, event, then, at, message, woken, refused>>
    BY <1>2, <2>2 DEF PushEnqueue
  <2>3. QED
    BY <1>2, <2>1, <2>2 DEF PushEnqueue
<1>3. ASSUME NEW t \in Threads, UNCHANGED fvars,
             PushWake(t)
      PROVE  Serving'
  <2>1. /\ pc[t] = "full" /\ pc' = [pc EXCEPT ![t] = then[t]]
        /\ then' = [then EXCEPT ![t] = "idle"]
        /\ message' = [message EXCEPT ![t] = None]
        /\ UNCHANGED conn /\ UNCHANGED serving
    BY <1>3 DEF PushWake, Enqueued, Refuse
  <2>2. QED
    BY <2>1, ReturnServing
<1>4. ASSUME NEW t \in Threads, UNCHANGED fvars,
             Scan(t) \/ Wait(t)
      PROVE  Serving'
  BY <1>4 DEF Scan, Wait
<1>5. ASSUME NEW t \in Threads, UNCHANGED fvars,
             Enter(t)
      PROVE  Serving'
  BY <1>5 DEF Enter
<1>6. ASSUME NEW t \in Threads, UNCHANGED fvars,
             Claim(t)
      PROVE  Serving'
  BY <1>6 DEF Claim
<1>7. ASSUME NEW t \in Threads, UNCHANGED fvars,
             Visit(t)
      PROVE  Serving'
  BY <1>7 DEF Visit, NextQueue
<1>8. ASSUME NEW t \in Threads, UNCHANGED fvars,
             Take(t)
      PROVE  Serving'
  BY <1>8 DEF Take, NextQueue
<1>9. ASSUME NEW t \in Threads, UNCHANGED fvars,
             Leave(t)
      PROVE  Serving'
  BY <1>9 DEF Leave
<1>10. ASSUME NEW t \in Threads, UNCHANGED fvars,
             Dangling(t)
      PROVE  Serving'
  BY <1>10 DEF Dangling
<1>11. ASSUME NEW t \in Threads, UNCHANGED fvars,
             Pulse(t)
      PROVE  Serving'
  BY <1>11 DEF Pulse
<1>12. ASSUME NEW t \in Threads, UNCHANGED fvars,
             Notify(t)
      PROVE  Serving'
  BY <1>12 DEF Notify
<1>13. ASSUME NEW c \in Connections, NEW state,
             Accept(c)
      PROVE  Serving'
  BY <1>13 DEF Accept
<1>14. ASSUME NEW c \in Connections, NEW state,
             Receive(c)
      PROVE  Serving'
  BY <1>14 DEF Receive
<1>15. ASSUME NEW c \in Connections, NEW state,
             Disconnect(c, state)
      PROVE  Serving'
  BY <1>15 DEF Disconnect
<1>16. ASSUME NEW t \in Apps,
             PopAllMessage(t)
      PROVE  Serving'
  BY <1>16 DEF PopAllMessage
<1>17. ASSUME NEW t \in Others,
             Stop(t)
      PROVE  Serving'
  BY <1>17 DEF Stop
<1>18. CASE Opened
  BY <1>18 DEF Opened
<1>19. CASE UnRegister
  BY <1>19 DEF UnRegister
<1>20. CASE EndLoop
  BY <1>20 DEF EndLoop
<1>21. CASE TimerExpires
  BY <1>21 DEF TimerExpires
<1>22. CASE PulseAll \/ SuspendAcceptor \/ SuspendPush
  BY <1>22 DEF PulseAll, SuspendAcceptor, SuspendPush
<1>23. CASE ClearTimeout
  BY <1>23 DEF ClearTimeout, WaitTimeout
<1>24. CASE Suspend
  BY <1>24 DEF Suspend
<1>25. CASE CloseService
  <2>1. CASE at[Closer] <= Len(Conns)
    <3> DEFINE c == Conns[at[Closer]]
    <3>1. c \in Connections
      BY <2>1, LenFacts DEF Bounds, AtOK
    <3>2. conn' = [conn EXCEPT ![c] = Asked(c)] /\ serving' = serving
          /\ UNCHANGED pc /\ UNCHANGED then /\ UNCHANGED message
      BY <1>25, <2>1 DEF CloseService
    <3> HIDE DEF c
    <3>3. conn[c] = "closing" <=> Asked(c) = "closing"
      BY DEF Asked
    <3>4. conn[c] \in {"open", "asked"} => Asked(c) = "asked"
      BY DEF Asked
    <3>5. /\ conn[serving] = "closing" => conn'[serving] = "closing"
          /\ conn[serving] \in {"open", "asked"} =>
                conn'[serving] \in {"open", "asked"}
      <4>1. /\ conn'[c] = Asked(c)
            /\ \A d \in Connections \ {c} : conn'[d] = conn[d]
        BY <3>1, <3>2
      <4>2. CASE serving = c
        BY ONLY <3>3, <3>4, <4>1, <4>2
      <4>3. CASE serving # c
        BY <4>1, <4>3
      <4>4. QED
        BY <4>2, <4>3
    <3>6. QED
      BY <3>2, <3>5
  <2>2. CASE ~(at[Closer] <= Len(Conns))
    BY <1>25, <2>2 DEF CloseService
  <2>3. QED
    BY <2>1, <2>2
<1>26. CASE CloseTimer \/ CloseEventPool \/ Join \/ DeleteAll \/ ClearAcceptor
  BY <1>26 DEF CloseTimer, CloseEventPool, Join, DeleteAll, ClearAcceptor
<1>27. QED
  BY <1>1, <1>2, <1>3, <1>4, <1>5, <1>6, <1>7, <1>8, <1>9, <1>10, <1>11, <1>12,
     <1>13, <1>14, <1>15, <1>16, <1>17, <1>18, <1>19, <1>20, <1>21, <1>22,
     <1>23, <1>24, <1>25, <1>26, StepCases
     DEF RepositoryStep

(* A step of a thread within a call of the repository. *)
LEMMA RepositoryKept ==
    ASSUME IInv, Serving, EachKept, NEW t \in Threads,
           RepositoryStep(t), UNCHANGED fvars
    PROVE  EachKept'
<1> SUFFICES ASSUME NEW m \in Messages
             PROVE  Kept(m)'
  BY DEF EachKept
<1>1. /\ Kept(m) /\ AtOK /\ QueueOK /\ MessageOK
      /\ Made(m)' <=> Made(m)
  <2>1. MadeBefore
    BY OthersMake DEF IInv
  <2>2. QED
    BY <2>1 DEF EachKept, IInv, MadeBefore
<1>2. CASE PushRefused(t)
  <2>1. message[t] \in Ids \X Messages
    BY <1>1, <1>2 DEF PushRefused, MessageOK
  <2>2. Refuse(t) /\ UNCHANGED <<queue, chain, received>>
    BY <1>2 DEF PushRefused
  <2>3. QED
    BY <1>1, <2>1, <2>2, RefusedKept
<1>3. CASE PushEnqueue(t) \/ PushWake(t)
  <2>1. message[t] \in Ids \X Messages
    BY <1>1, <1>3 DEF PushEnqueue, PushWake, MessageOK
  <2>2. UNCHANGED <<chain, received>>
    BY <1>3 DEF PushEnqueue, PushWake
  <2>3. CASE Enqueued(t)
    BY <1>1, <2>1, <2>2, <2>3, EnqueuedKept
  <2>4. CASE Refuse(t) /\ UNCHANGED <<queue, event>>
    BY <1>1, <2>1, <2>2, <2>4, RefusedKept
  <2>5. CASE UNCHANGED <<queue, message, refused>>
    BY <1>1, <2>2, <2>5, Unmoved
  <2>6. Enqueued(t) \/ (Refuse(t) /\ UNCHANGED <<queue, event>>)
        \/ UNCHANGED <<queue, message, refused>>
    BY <1>3 DEF PushEnqueue, PushWake
  <2>7. QED
    BY <2>3, <2>4, <2>5, <2>6
<1>4. CASE Take(t)
  <2>1. CASE queue[Here(t)] # <<>>
    <3> DEFINE q == Here(t)
    <3>1. q \in Ids /\ queue[q] # <<>>
      BY <1>1, <1>4, <2>1, HereFacts DEF Take
    <3>2. /\ chain' = [chain EXCEPT ![t] = Append(@, Head(queue[q]))]
          /\ queue' = [queue EXCEPT ![q] = Tail(@)]
          /\ UNCHANGED <<message, received, refused>>
      BY <1>4, <2>1 DEF Take
    <3> HIDE DEF q
    <3>3. QED
      BY <1>1, <3>1, <3>2, TakenKept
  <2>2. CASE queue[Here(t)] = <<>>
    <3>1. UNCHANGED <<queue, chain, message, received, refused>>
      BY <1>4, <2>2 DEF Take
    <3>2. QED
      BY <1>1, <3>1, Unmoved
  <2>3. QED
    BY <2>1, <2>2
<1>5. CASE Leave(t)
  <2>1. /\ received' = received \cup ToSet(chain[t])
        /\ chain' = [chain EXCEPT ![t] = <<>>]
        /\ UNCHANGED <<queue, message, refused>>
    BY <1>5 DEF Leave
  <2>2. QED
    BY <1>1, <2>1, ReturnedKept
<1>6. CASE \/ PushFound(t) \/ Scan(t) \/ Wait(t) \/ Enter(t) \/ Claim(t)
           \/ Visit(t) \/ Dangling(t) \/ Pulse(t) \/ Notify(t)
  <2>1. UNCHANGED <<queue, chain, message, received, refused>>
    BY <1>6 DEF PushFound, Scan, Wait, Enter, Claim, Visit, Dangling, Pulse,
       Notify
  <2>2. QED
    BY <1>1, <2>1, Unmoved
<1>7. QED
  BY <1>2, <1>3, <1>4, <1>5, <1>6 DEF RepositoryStep

(* The network thread begins to push a message that it has made. *)
LEMMA NewKept ==
    ASSUME IInv, Serving, EachKept, NEW q \in Ids, NEW n \in Messages,
           NEW return, PushEvent(q, n, return),
           pc[Net] \in {"idle", "opened"}, MadeNow(n)
    PROVE  EachKept'
<1> SUFFICES ASSUME NEW m \in Messages
             PROVE  Kept(m)'
  BY DEF EachKept
<1>1. Net \in Threads /\ message[Net] = None
  BY FacadeAssumption DEF Serving
<1>2. /\ message' = [message EXCEPT ![Net] = <<q, n>>]
      /\ UNCHANGED <<queue, chain, received, refused>>
  BY DEF PushEvent, PushCall
<1>3. MessageOK /\ Kept(m)
  BY DEF IInv, EachKept
<1>4. /\ m = n => ~Made(m)
      /\ Made(m)' <=> Made(m) \/ m = n
  BY DEF MadeNow
<1>5. QED
  BY <1>1, <1>2, <1>3, <1>4, MadeKept

(* No message moves. *)
LEMMA OthersKept ==
    ASSUME EachKept, MadeBefore,
           UNCHANGED <<queue, chain, message, received, refused>>
    PROVE  EachKept'
<1>1. ASSUME NEW m \in Messages
      PROVE  Kept(m)'
  BY <1>1, Unmoved DEF EachKept, MadeBefore
<1>2. QED
  BY <1>1 DEF EachKept

(* All steps. *)
LEMMA EachKeptStep ==
    ASSUME IInv, Serving, EachKept, Next
    PROVE  EachKept'
<1>1. ASSUME NEW t \in Threads, RepositoryStep(t), UNCHANGED fvars
      PROVE  EachKept'
  BY <1>1, RepositoryKept
<1>2. /\ WorldOK /\ AtOK /\ NewMessages
      /\ EventQueue \in Ids /\ TimerQueue \in Ids
  BY NewMessageFacts, FacadeAssumption DEF IInv
<1>3. ASSUME NEW c \in Connections, Accept(c)
      PROVE  EachKept'
  <2>1. /\ PushEvent(EventQueue, <<"Establish", c>>, "opened")
        /\ pc[Net] = "idle"
    BY <1>3 DEF Accept
  <2>2. MadeNow(<<"Establish", c>>)
    BY <1>2, <1>3, AcceptMakes
  <2>3. <<"Establish", c>> \in Messages
    BY <1>2 DEF NewMessages
  <2>4. QED
    BY <1>2, <2>1, <2>2, <2>3, NewKept
<1>4. ASSUME NEW c \in Connections, Receive(c)
      PROVE  EachKept'
  <2>1. /\ PushEvent(EventQueue, <<"Read", pushes.reads>>, "idle")
        /\ pc[Net] = "idle"
    BY <1>4 DEF Receive
  <2>2. MadeNow(<<"Read", pushes.reads>>)
    BY <1>2, <1>4, ReceiveMakes
  <2>3. <<"Read", pushes.reads>> \in Messages
    BY <1>2, <1>4 DEF NewMessages, Receive
  <2>4. QED
    BY <1>2, <2>1, <2>2, <2>3, NewKept
<1>5. ASSUME NEW c \in Connections, NEW state \in {"open", "asked"},
             Disconnect(c, state)
      PROVE  EachKept'
  <2>1. /\ PushEvent(EventQueue, <<"Close", c>>, "unregister")
        /\ pc[Net] = "idle"
    BY <1>5 DEF Disconnect
  <2>2. /\ conn[c] \in {"open", "asked"}
        /\ conn' = [conn EXCEPT ![c] = "closing"] /\ UNCHANGED pushes
    BY <1>5 DEF Disconnect
  <2>3. MadeNow(<<"Close", c>>)
    BY <1>2, <2>2, CloseMakes
  <2>4. <<"Close", c>> \in Messages
    BY <1>2 DEF NewMessages
  <2>5. QED
    BY <1>2, <2>1, <2>3, <2>4, NewKept
<1>6. CASE Opened
  <2>1. CASE acceptor = "suspended"
    <3>1. /\ PushEvent(EventQueue, <<"Close", serving>>, "unregister")
          /\ pc[Net] = "opened"
      BY <1>6, <2>1 DEF Opened
    <3>2. /\ serving \in Connections /\ conn[serving] \in {"open", "asked"}
          /\ conn' = [conn EXCEPT ![serving] = "closing"] /\ UNCHANGED pushes
      BY <1>2, <1>6, <2>1 DEF Opened, Serving, WorldOK
    <3>3. MadeNow(<<"Close", serving>>)
      BY <1>2, <3>2, CloseMakes
    <3>4. <<"Close", serving>> \in Messages
      BY <1>2 DEF NewMessages
    <3>5. QED
      BY <1>2, <3>1, <3>3, <3>4, NewKept
  <2>2. CASE acceptor # "suspended"
    <3>1. /\ UNCHANGED <<queue, chain, message, received, refused>>
          /\ UNCHANGED <<conn, pushes>>
      BY <1>6, <2>2 DEF Opened
    <3>2. QED
      BY <1>2, <3>1, OthersMake, OthersKept
  <2>3. QED
    BY <2>1, <2>2
<1>7. CASE TimerExpires
  <2>1. /\ PushEvent(TimerQueue, <<"Timer", pushes.timers>>, "idle")
        /\ pc[Net] = "idle"
    BY <1>7 DEF TimerExpires
  <2>2. MadeNow(<<"Timer", pushes.timers>>)
    BY <1>2, <1>7, TimerMakes
  <2>3. <<"Timer", pushes.timers>> \in Messages
    BY <1>2, <1>7 DEF NewMessages, TimerExpires
  <2>4. QED
    BY <1>2, <2>1, <2>2, <2>3, NewKept
<1>8. CASE UnRegister \/ CloseService \/ CloseTimer
  <2>1. UNCHANGED <<queue, chain, message, received, refused>>
    BY <1>8 DEF UnRegister, CloseService, CloseTimer
  <2>2. QED
    BY <1>2, <1>8, <2>1, OthersMake, OthersKept
<1>9. ASSUME NEW t, PopAllMessage(t) \/ Stop(t)
      PROVE  EachKept'
  <2>1. /\ UNCHANGED <<queue, chain, message, received, refused>>
        /\ UNCHANGED fvars
    BY <1>9 DEF PopAllMessage, Stop, fvars
  <2>2. QED
    BY <1>2, <2>1, OthersMake, OthersKept
<1>10. CASE \/ EndLoop \/ PulseAll \/ SuspendAcceptor \/ SuspendPush
            \/ ClearTimeout \/ Suspend \/ CloseEventPool \/ Join \/ DeleteAll
            \/ ClearAcceptor
  <2>1. /\ UNCHANGED <<queue, chain, message, received, refused>>
        /\ UNCHANGED <<conn, pushes>>
    BY <1>10 DEF EndLoop, PulseAll, SuspendAcceptor, SuspendPush, ClearTimeout,
       WaitTimeout, Suspend, CloseEventPool, Join, DeleteAll, ClearAcceptor,
       rvars, fvars
  <2>2. QED
    BY <1>2, <2>1, OthersMake, OthersKept
<1>11. QED
  BY <1>1, <1>3, <1>4, <1>5, <1>6, <1>7, <1>8, <1>9, <1>10, StepCases

-----------------------------------------------------------------------------
(* At first nothing is made. *)
LEMMA InitKept ==
    ASSUME Init
    PROVE  Serving /\ EachKept
<1> USE DEF Init, RepositoryInit
<1>1. Net \in Threads /\ \A t \in Threads : message[t] = None
  BY FacadeAssumption
<1>2. Serving
  BY <1>1 DEF Serving
<1>3. ASSUME NEW m \in Messages
      PROVE  Kept(m)
  <2>1. ~Among(m, queue) /\ Single(m, queue)
    BY EmptyHas DEF Among, Single
  <2>2. ~Among(m, chain) /\ Single(m, chain)
    BY EmptyHas DEF Among, Single
  <2>3. ~InPush(m) /\ OnePush(m)
    BY <1>1 DEF InPush, OnePush, Pushing
  <2>4. ~Made(m)
    BY MadeMeans, MessageKinds
  <2>5. QED
    BY <2>1, <2>2, <2>3, <2>4 DEF Kept
<1>4. QED
  BY <1>2, <1>3 DEF EachKept

LEMMA KeptHolds == Spec => [](Serving /\ EachKept)
<1> DEFINE Inv == Serving /\ EachKept
<1>1. ASSUME IInv, Inv, [Next]_vars
      PROVE  Inv'
  <2>1. CASE Next
    <3>1. Serving'
      BY <1>1, <2>1, CastFacts, ServingStep DEF IInv
    <3>2. EachKept'
      BY <1>1, <2>1, EachKeptStep
    <3>3. QED
      BY <3>1, <3>2
  <2>2. CASE UNCHANGED vars
    <3>1. /\ UNCHANGED pc /\ UNCHANGED then /\ UNCHANGED message
          /\ UNCHANGED conn /\ UNCHANGED serving
          /\ UNCHANGED <<queue, chain, message, received, refused>>
          /\ UNCHANGED <<conn, pushes>>
      BY <2>2 DEF vars, rvars, fvars
    <3>2. Serving'
      BY <1>1, <3>1 DEF Serving
    <3>3. EachKept'
      BY <1>1, <3>1, OthersMake, OthersKept DEF IInv
    <3>4. QED
      BY <3>2, <3>3
  <2>3. QED
    BY <1>1, <2>1, <2>2
<1>2. Init => Inv
  BY InitKept
<1> HIDE DEF Inv
<1>3. Spec => []Inv
  BY <1>1, <1>2, IInvHolds, PTL DEF Spec
<1>4. QED
  BY <1>3 DEF Inv

(* What Kept says is that a message is at one place when it was made, and  *)
(* at none before.                                                         *)
LEMMA KeptPlaces ==
    ASSUME QueueOK, NEW m, Kept(m)
    PROVE  Cardinality(Whereabouts(m)) = IF Made(m) THEN 1 ELSE 0
<1> DEFINE Q == UNION {{<<"queue", q, i>> : i \in Places(m, queue[q])} :
                           q \in Ids}
           C == UNION {{<<"chain", t, i>> : i \in Places(m, chain[t])} :
                           t \in Threads}
           R == {<<"received", r>> : r \in received \cap {m}}
           P == {<<"pushing", t>> : t \in {u \in Threads :
                    /\ message[u] # None
                    /\ message[u][2] = m}}
           F == {<<"refused", r>> : r \in refused \cap {m}}
<1>1. Whereabouts(m) = Q \cup C \cup R \cup P \cup F
  BY DEF Whereabouts
<1>2. /\ DOMAIN queue = Ids /\ DOMAIN chain = Threads
  BY DEF QueueOK
<1>3. (Q # {} <=> Among(m, queue)) /\ \A x, y \in Q : x = y
  <2>1. \A x : x \in Q <=> \E q \in Ids : \E i \in DOMAIN queue[q] :
                               queue[q][i] = m /\ x = <<"queue", q, i>>
    BY DEF Places
  <2>2. Q # {} <=> Among(m, queue)
    BY <1>2, <2>1 DEF Among, In
  <2>3. /\ \A a, b \in Ids : In(m, queue[a]) /\ In(m, queue[b]) => a = b
        /\ \A a \in Ids : One(m, queue[a])
    BY <1>2 DEF Kept, Single
  <2>4. \A x, y \in Q : x = y
    BY <2>1, <2>3 DEF In, One
  <2>5. QED
    BY <2>2, <2>4
<1>4. (C # {} <=> Among(m, chain)) /\ \A x, y \in C : x = y
  <2>1. \A x : x \in C <=> \E t \in Threads : \E i \in DOMAIN chain[t] :
                               chain[t][i] = m /\ x = <<"chain", t, i>>
    BY DEF Places
  <2>2. C # {} <=> Among(m, chain)
    BY <1>2, <2>1 DEF Among, In
  <2>3. /\ \A a, b \in Threads : In(m, chain[a]) /\ In(m, chain[b]) => a = b
        /\ \A a \in Threads : One(m, chain[a])
    BY <1>2 DEF Kept, Single
  <2>4. \A x, y \in C : x = y
    BY <2>1, <2>3 DEF In, One
  <2>5. QED
    BY <2>2, <2>4
<1>5. (R # {} <=> m \in received) /\ \A x, y \in R : x = y
  OBVIOUS
<1>6. (F # {} <=> m \in refused) /\ \A x, y \in F : x = y
  OBVIOUS
<1>7. (P # {} <=> InPush(m)) /\ \A x, y \in P : x = y
  BY DEF InPush, Kept, OnePush, Pushing
<1> HIDE DEF Q, C, R, P, F
<1>8. /\ \A x, y \in Whereabouts(m) : x = y
      /\ Whereabouts(m) # {} <=> Made(m)
  BY <1>1, <1>3, <1>4, <1>5, <1>6, <1>7 DEF Kept
<1>9. QED
  BY <1>8, AtMostOne

(* Each event of the network thread is pushed, queued, popped, received or *)
(* refused, and no two of these (MessageQueueRepository.cpp:44-57,99-136). *)
THEOREM EventsHold == Spec => []EventsOK
<1>1. ASSUME IInv, EachKept
      PROVE  ExactlyOnce
  BY <1>1, KeptPlaces DEF ExactlyOnce, EachKept, IInv
<1>2. QED
  BY <1>1, IInvHolds, KeptHolds, TypeCorrect, PTL DEF EventsOK
=============================================================================
