---------------------------- MODULE NetworkFacade ----------------------------
(***************************************************************************)
(* The facade with a reactor behind it, from the time it is open to the    *)
(* end of Close (Src/NetworkFacade.cpp): the network thread accepts        *)
(* connections, serves them and the timers, and pushes an event for each   *)
(* thing that happens; application threads pop from all queues; one of     *)
(* them closes the facade in the end.                                      *)
(*                                                                         *)
(* A connection is what CloseService sees of it (ReactorService has the    *)
(* rest): in the registry from its accept to its deletion, and closed by   *)
(* the network thread some time after it was asked to.                     *)
(***************************************************************************)
EXTENDS MessageQueueRepository

CONSTANTS Net,        \* the network thread
          Closer,     \* the application thread that closes the facade
          Others,     \* the other application threads
          Conns,      \* connections, in the order of their ids
          EventQueue, \* the queue of the acceptor
          TimerQueue, \* TimerQueueID
          MaxPushes   \* bound: Read and Timer events

ASSUME FacadeAssumption == /\ Threads = {Net, Closer} \cup Others
                           /\ Net # Closer /\ {Net, Closer} \cap Others = {}
                           /\ {EventQueue, TimerQueue} \subseteq Ids
                           /\ Conns \in Seq(ToSet(Conns))
                           /\ Conns # <<>> /\ IsInjective(Conns)
                           /\ MaxPushes \in Nat

VARIABLES conn,      \* of each connection: new, open, asked, closing or gone
          serving,   \* the connection the network thread deals with
          acceptor,  \* open, suspended or closed
          timer,     \* is the timer scheduled?
          ending,    \* end_reactor_event_loop was called
          suspend,   \* _suspend
          pushes     \* pushes made, by kind

fvars == <<conn, serving, acceptor, timer, ending, suspend, pushes>>
vars == <<rvars, fvars>>

Connections == ToSet(Conns)
Apps == {Closer} \cup Others
Registered == {c \in Connections : conn[c] \in {"open", "asked", "closing"}}

Init == /\ RepositoryInit
        /\ conn = [c \in Connections |-> "new"]
        /\ serving = Conns[1]
        /\ acceptor = "open"
        /\ timer = TRUE
        /\ ending = FALSE
        /\ suspend = FALSE
        /\ pushes = [reads |-> 0, timers |-> 0]

-----------------------------------------------------------------------------
(* The network thread.  Between two handlers it is idle. *)

PushEvent(q, m, return) ==
    /\ PushCall(Net, q, m, return)
    /\ UNCHANGED <<queue, pulsed, woken, deleted, event, suspendPush,
                   popProgress, at, chain, received, refused>>

(* handle_input of the acceptor: open registers the connection and tells   *)
(* the application; a suspended acceptor closes it at once.                *)
Accept(c) == /\ pc[Net] = "idle" /\ ~ending
             /\ conn[c] = "new" /\ acceptor # "closed"
             /\ conn' = [conn EXCEPT ![c] = "open"]
             /\ serving' = c
             /\ PushEvent(EventQueue, <<"Establish", c>>, "opened")
             /\ UNCHANGED <<acceptor, timer, ending, suspend, pushes>>

Opened == /\ pc[Net] = "opened"
          /\ IF acceptor = "suspended"
             THEN /\ conn' = [conn EXCEPT ![serving] = "closing"]
                  /\ PushEvent(EventQueue, <<"Close", serving>>, "unregister")
             ELSE /\ Goto(Net, "idle") /\ UNCHANGED conn
                  /\ UNCHANGED <<queue, pulsed, woken, deleted, event,
                                 suspendPush, popProgress, then, at, message,
                                 chain, received, refused>>
          /\ UNCHANGED <<serving, acceptor, timer, ending, suspend, pushes>>

Receive(c) == /\ pc[Net] = "idle" /\ ~ending
              /\ conn[c] \in {"open", "asked"}
              /\ pushes.reads + pushes.timers < MaxPushes
              /\ pushes' = [pushes EXCEPT !.reads = @ + 1]
              /\ PushEvent(EventQueue, <<"Read", pushes.reads>>, "idle")
              /\ UNCHANGED <<conn, serving, acceptor, timer, ending, suspend>>

(* The peer hung up, or the connection's timer sees that it was asked to   *)
(* close; the id goes back when the application was told.                  *)
Disconnect(c, state) ==
    /\ pc[Net] = "idle" /\ ~ending
    /\ conn[c] = state
    /\ conn' = [conn EXCEPT ![c] = "closing"]
    /\ serving' = c
    /\ PushEvent(EventQueue, <<"Close", c>>, "unregister")
    /\ UNCHANGED <<acceptor, timer, ending, suspend, pushes>>

UnRegister == /\ pc[Net] = "unregister"
              /\ conn' = [conn EXCEPT ![serving] = "gone"]
              /\ Goto(Net, "idle")
              /\ UNCHANGED <<queue, pulsed, woken, deleted, event, suspendPush,
                             popProgress, then, at, message, chain, received,
                             refused, serving, acceptor, timer, ending,
                             suspend, pushes>>

(* handle_timeout of the facade's timer: PushTimerMessage. *)
TimerExpires == /\ pc[Net] = "idle" /\ ~ending
                /\ timer /\ pushes.reads + pushes.timers < MaxPushes
                /\ pushes' = [pushes EXCEPT !.timers = @ + 1]
                /\ PushEvent(TimerQueue, <<"Timer", pushes.timers>>, "idle")
                /\ UNCHANGED <<conn, serving, acceptor, timer, ending, suspend>>

EndLoop == /\ pc[Net] = "idle" /\ ending
           /\ Goto(Net, "ended")
           /\ UNCHANGED <<queue, pulsed, woken, deleted, event, suspendPush,
                          popProgress, then, at, message, chain, received,
                          refused, fvars>>

NetContinues == \/ RepositoryStep(Net) /\ UNCHANGED fvars
                \/ Opened \/ UnRegister \/ EndLoop
                \/ \E c \in Connections : Disconnect(c, "asked")

-----------------------------------------------------------------------------
(* Application threads: PopAllMessage in a loop, for as long as it takes.  *)

PopAllMessage(t) == /\ pc[t] = "idle"
                    /\ ~suspend
                    /\ LoopCall(t, "scan", "idle")
                    /\ UNCHANGED <<queue, pulsed, woken, deleted, event,
                                   suspendPush, popProgress, at, message,
                                   chain, received, refused, fvars>>

AppContinues(t) == (RepositoryStep(t) /\ UNCHANGED fvars) \/ PopAllMessage(t)

(* Between two calls a thread may have had enough. *)
Stop(t) == /\ pc[t] = "idle"
           /\ Goto(t, "stopped")
           /\ UNCHANGED <<queue, pulsed, woken, deleted, event, suspendPush,
                          popProgress, then, at, message, chain, received,
                          refused, fvars>>

(* Pulse, once, to get the others out of their calls. *)
PulseAll == /\ pc[Closer] = "idle" /\ pulsed = {}
            /\ LoopCall(Closer, "pulse", "idle")
            /\ UNCHANGED <<queue, pulsed, woken, deleted, event, suspendPush,
                           popProgress, at, message, chain, received, refused,
                           fvars>>

SuspendAcceptor == /\ pc[Closer] = "idle" /\ acceptor = "open"
                   /\ acceptor' = "suspended"
                   /\ UNCHANGED <<rvars, conn, serving, timer, ending, suspend,
                                  pushes>>

-----------------------------------------------------------------------------
(* Close, by an application thread; the others may still be popping, as in *)
(* the test programs, which end their threads before or after it.          *)

(* SuspendPush, then ClearMessageQueue: PopAllMessage for 100 ms. *)
SuspendPush == /\ pc[Closer] = "idle"
               /\ suspendPush' = TRUE
               /\ LoopCall(Closer, "scan", "suspend")
               /\ UNCHANGED <<queue, pulsed, woken, deleted, event,
                              popProgress, at, message, chain, received, refused,
                              fvars>>

ClearTimeout == then[Closer] = "suspend" /\ WaitTimeout(Closer) /\ UNCHANGED fvars

Suspend == /\ pc[Closer] = "suspend"
           /\ suspend' = TRUE
           /\ Goto(Closer, "ask")
           /\ UNCHANGED <<queue, pulsed, woken, deleted, event, suspendPush,
                          popProgress, then, at, message, chain, received,
                          refused, conn, serving, acceptor, timer, ending,
                          pushes>>

Asked(c) == IF conn[c] = "open" THEN "asked" ELSE conn[c]

(* Fault: the last id is left out. *)
CloseService_OffByOne ==
    /\ pc[Closer] = "ask"
    /\ IF at[Closer] < Len(Conns)
       THEN /\ conn' = [conn EXCEPT ![Conns[at[Closer]]] = Asked(Conns[at[Closer]])]
            /\ at' = [at EXCEPT ![Closer] = @ + 1]
            /\ UNCHANGED pc
       ELSE /\ Goto(Closer, "poll")
            /\ at' = [at EXCEPT ![Closer] = 1]
            /\ UNCHANGED conn
    /\ UNCHANGED <<queue, pulsed, woken, deleted, event, suspendPush,
                   popProgress, then, message, chain, received, refused,
                   serving, acceptor, timer, ending, suspend, pushes>>

(* CloseService looks up one id after the other and asks the connection,   *)
(* if there is one, to close ...                                           *)
CloseService ==
    /\ pc[Closer] = "ask"
    /\ IF at[Closer] <= Len(Conns)
       THEN /\ conn' = [conn EXCEPT ![Conns[at[Closer]]] = Asked(Conns[at[Closer]])]
            /\ at' = [at EXCEPT ![Closer] = @ + 1]
            /\ UNCHANGED pc
       ELSE /\ Goto(Closer, "poll")
            /\ at' = [at EXCEPT ![Closer] = 1]
            /\ UNCHANGED conn
    /\ UNCHANGED <<queue, pulsed, woken, deleted, event, suspendPush,
                   popProgress, then, message, chain, received, refused,
                   serving, acceptor, timer, ending, suspend, pushes>>

(* ... then waits for the registry to be empty.  The timer is cancelled.   *)
CloseTimer == /\ pc[Closer] = "poll"
              /\ Registered = {}
              /\ timer' = FALSE
              /\ Goto(Closer, "end")
              /\ UNCHANGED <<queue, pulsed, woken, deleted, event, suspendPush,
                             popProgress, then, at, message, chain, received,
                             refused, conn, serving, acceptor, ending, suspend,
                             pushes>>

CloseEventPool == /\ pc[Closer] = "end"
                  /\ ending' = TRUE
                  /\ Goto(Closer, "join")
                  /\ UNCHANGED <<queue, pulsed, woken, deleted, event,
                                 suspendPush, popProgress, then, at, message,
                                 chain, received, refused, conn, serving,
                                 acceptor, timer, suspend, pushes>>

(* Fault: the thread is not waited for. *)
Join_Early == /\ pc[Closer] = "join"
              /\ LoopCall(Closer, "pulse", "delete")
              /\ UNCHANGED <<queue, pulsed, woken, deleted, event, suspendPush,
                             popProgress, at, message, chain, received, refused,
                             fvars>>

(* wait() for the network thread; then the repository is closed: PulseAll, *)
Join == /\ pc[Closer] = "join"
        /\ pc[Net] = "ended"
        /\ LoopCall(Closer, "pulse", "delete")
        /\ UNCHANGED <<queue, pulsed, woken, deleted, event, suspendPush,
                       popProgress, at, message, chain, received, refused, fvars>>

(* DeleteAll, unbind_all. *)
DeleteAll == /\ pc[Closer] = "delete"
             /\ deleted' = TRUE
             /\ Goto(Closer, "clear")
             /\ UNCHANGED <<queue, pulsed, woken, event, suspendPush,
                            popProgress, then, at, message, chain, received,
                            refused, fvars>>

ClearAcceptor == /\ pc[Closer] = "clear"
                 /\ acceptor' = "closed"
                 /\ Goto(Closer, "closed")
                 /\ UNCHANGED <<queue, pulsed, woken, deleted, event,
                                suspendPush, popProgress, then, at, message,
                                chain, received, refused, conn, serving, timer,
                                ending, suspend, pushes>>

Close == \/ ClearTimeout \/ Suspend \/ CloseService \/ CloseTimer
         \/ CloseEventPool \/ Join \/ DeleteAll \/ ClearAcceptor

Next == \/ NetContinues \/ TimerExpires
        \/ \E c \in Connections : Accept(c) \/ Receive(c) \/ Disconnect(c, "open")
        \/ \E t \in Apps : AppContinues(t)
        \/ \E t \in Others : Stop(t)
        \/ PulseAll \/ SuspendAcceptor \/ SuspendPush \/ Close

Spec == Init /\ [][Next]_vars

(* Threads run: the network thread finishes its handlers and closes what   *)
(* was asked to close, application threads keep calling until they stop,   *)
(* and a Close goes on.  Nobody has to connect, send, hang up or close.    *)
Fairness == /\ WF_vars(NetContinues)
            /\ \A t \in Others : WF_vars(AppContinues(t))
            /\ WF_vars(AppContinues(Closer) \/ Close)

FairSpec == Spec /\ Fairness

-----------------------------------------------------------------------------
Messages == ({"Establish", "Close"} \X Connections)
            \cup ({"Read", "Timer"} \X (0 .. MaxPushes))

CallPlaces == {"push", "enqueue", "full", "scan", "wait", "enter", "claim",
               "drain", "take", "leave", "pulse", "notify"}
ClosePlaces == {"suspend", "ask", "poll", "end", "join", "delete", "clear",
                "closed"}

TypeOK == /\ queue \in [Ids -> Seq(Messages)]
          /\ \A q \in Ids : Len(queue[q]) <= HighWater
          /\ pulsed \subseteq Ids /\ woken \subseteq Threads
          /\ {deleted, event, suspendPush, popProgress, timer, ending, suspend}
                 \subseteq BOOLEAN
          /\ pc \in [Threads -> {"idle", "stopped", "undefined", "opened",
                                "unregister", "ended"}
                                   \cup CallPlaces \cup ClosePlaces]
          /\ then \in [Threads -> {"idle", "opened", "unregister", "suspend",
                                  "delete"}]
          /\ at \in [Threads -> 1 .. Len(Queues) + Len(Conns) + 1]
          /\ message \in [Threads -> (Ids \X Messages) \cup {None}]
          /\ chain \in [Threads -> Seq(Messages)]
          /\ received \subseteq Messages /\ refused \subseteq Messages
          /\ conn \in [Connections -> {"new", "open", "asked", "closing", "gone"}]
          /\ serving \in Connections
          /\ acceptor \in {"open", "suspended", "closed"}
          /\ pushes \in [reads : 0 .. MaxPushes, timers : 0 .. MaxPushes]

(* Each event is in one place: with the network thread, in its queue, with *)
(* one of the threads that pop from all queues, also when two of them got  *)
(* past m_popProgress together, or refused (MessageQueueRepository.cpp:    *)
(* 44-57, 99-136).                                                         *)
Places(m, seq) == {i \in DOMAIN seq : seq[i] = m}

Whereabouts(m) ==
    (UNION {{<<"queue", q, i>> : i \in Places(m, queue[q])} : q \in Ids})
    \cup (UNION {{<<"chain", t, i>> : i \in Places(m, chain[t])} : t \in Threads})
    \cup {<<"received", r>> : r \in received \cap {m}}
    \cup {<<"pushing", t>> : t \in {u \in Threads : /\ message[u] # None
                                                    /\ message[u][2] = m}}
    \cup {<<"refused", r>> : r \in refused \cap {m}}

Made(m) == CASE m[1] = "Establish" -> conn[m[2]] # "new"
             [] m[1] = "Close" -> conn[m[2]] \in {"closing", "gone"}
             [] m[1] = "Read" -> m[2] < pushes.reads
             [] OTHER -> m[2] < pushes.timers

ExactlyOnce == \A m \in Messages :
                  Cardinality(Whereabouts(m)) = IF Made(m) THEN 1 ELSE 0

(* The above, with queues that never hold more than their high water mark. *)
EventsOK == TypeOK /\ ExactlyOnce

(* Events are refused only from the shutdown on, or by a pulse: until then *)
(* a full queue makes the network thread wait.                             *)
RefusedLate == refused # {} => suspendPush \/ pulsed # {}

(* The queues are deleted when no network thread can use them any more:    *)
(* the event pool was joined first (NetworkFacade.cpp:85-96), which the    *)
(* order of the calls in Close is for.                                     *)
QueueOutlivesNetwork == /\ pc[Net] # "undefined"
                        /\ deleted => pc[Net] = "ended"

(* When no more events come, the application's calls of PopAllMessage have *)
(* emptied all queues sooner or later: no signal of the shared event is    *)
(* lost between a thread's look at the queues and its wait, nor eaten for  *)
(* good by a thread that finds another popping                             *)
(* (MessageQueueRepository.cpp:99-109).                                    *)
EventuallyReceived == []<>(suspendPush \/ \A q \in Ids : queue[q] = <<>>)

(* Close returns when the acceptors were suspended before and the other    *)
(* threads have made their last call when ClearMessageQueue begins: every  *)
(* connection was asked to close or is closed by its acceptor, and the     *)
(* network thread comes out of a full queue (NetworkFacade.cpp:85-96,      *)
(* ReactorServiceAccessor.cpp:68-87).  With another thread popping it may  *)
(* not return: ClearMessageQueue finds m_popProgress set and gives up, and *)
(* that thread may be past the full queue (NetworkFacade.cpp:467-475,      *)
(* MessageQueueRepository.cpp:104).                                        *)
Clearing == pc[Closer] = "scan" /\ then[Closer] = "suspend"

CloseReturns == (/\ Clearing
                 /\ acceptor = "suspended"
                 /\ \A t \in Others : pc[t] = "stopped") ~> (pc[Closer] = "closed")
=============================================================================
