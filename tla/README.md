# HalfNetwork in TLA+

HalfNetwork is a C++ network library on top of ACE, a half-sync/half-async
design. The asynchronous half (an ACE Reactor or an ACE Proactor) serves the
sockets. The synchronous half, the application, talks to it through one facade
(`NetworkFacade`): it gives blocks to send and takes *events* (Establish, Read,
Close, Timer, Custom) out of message queues.

This directory specifies the concurrent core of the library, model-checks it
with TLC and proves its main safety properties with TLAPS. Paths are relative to
`src/HalfNetwork/HalfNetwork/`; `ace/` is `src/HalfNetwork/ACE_wrappers/ace/`.

## Inventory

| Component | State | Operations | What makes it correct | Modelled in |
|---|---|---|---|---|
| Connection registry: `TsIDMapT` over `IDQueueT`, `TSQueueT` (`Include/TsidMap.h`, `TsQueue.h`) | queue of idle ids; map id to service; one mutex each | Register, UnRegister, Get, Size | no id leaks or is issued twice; a look-up finds exactly the registered service; the id idle longest is issued next | `TsIDMap` |
| Event queue: `MessageQueue`, `InterlockedGuard` over `ACE_Message_Queue` (`Src/MessageQueue.cpp`, `ace/Message_Queue_T.cpp`) | bounded queue, ACTIVATED/PULSED, two condition variables, `m_popProgress` | Push, Pop, PopAll, Pulse | no message lost or doubled; order per network thread; no lost wake-up; everyone gets out | `MessageQueue` |
| Reactor connection: `ReactorService`, `ServiceImpl`, `InterlockedValue` (`Src/ReactorService.cpp`, ...) | close flag, send lock, send queue, socket, id | open, handle_input, handle_timeout, handle_close, sends, ActiveClose, ReceiveClose | one sender at a time; no byte lost or doubled; Establish, Reads, one Close; every close carried through | `ReactorService` |
| Delayed sends: `ServiceImpl::PushQueue`, `PopQueue` | blocks ordered by 32-bit tick | push with delay, pop what is due | no block early, none lost, none held up but where the tick wraps | `SendQueue` |
| Proactor connection: `ProactorService`, `DeleteHandler` | as the reactor's, plus a timer lock and outstanding completions | completion handlers on several threads | as the reactor's; one write at a time though another thread completes it; one worker in the timer | `ProactorService` |
| Repository of queues: `MessageQueueRepository`, `CustemNotificationStrategy` | map id to queue, auto-reset event, `m_suspendPush` | CreateQueue, Push, Pop and PopAll (one queue, all queues), PulseAll, Close | an event wakes a thread that waits on all queues; nothing lost or doubled | `MessageQueueRepository` |
| Facade and shutdown: `NetworkFacade`, `CloseService` of the accessors | `_suspend`, acceptors, lists | Create, Open, Close, AddAcceptor, ... | Close ends: every connection is told to go and goes; the queues outlive who pushes | `NetworkFacade` |
| Acceptors and connectors | suspended flag, handles | accept, connect, suspend | a connection accepted late is closed | reactor's acceptor in `NetworkFacade` |
| Timers: `ReactorTimer`, `ProactorTimer` | list of timer records | Add, Open, Close | no expiry after the queues are gone | reactor's timer in `NetworkFacade` |
| Event pools | threads | Open, Close | all threads end | `NetworkFacade` (reactor), the workers of `ProactorService` |
| Block pools: `FlexibleSizePoolT`, `MessageBlockPool`, `MemoryBlockPool` | lists of chunk pools per size | Allocate, Deallocate | a chunk has one owner; no half allocation; growth follows demand | `BlockPool` |
| `ThreadPool`, `TSQueueWithEventT` | auto-reset event, working flag | Open, Close; Push, Pop, Fini | every thread ends; no wait after the last pulse | not modelled |
| `TsBlockList`, `SyncSocket`, `SimpleConfig`, `Logger`, `LogCallback` | little or none | I/O and formatting | sequential | not modelled |
| `ExternalLib` (AsyncAdo, ADOLib, JsonPacket), test and example programs | | | separate programs and libraries | not modelled |
| ACE | | | vendored; the operations used are modelled where used | in `MessageQueue`, `SendQueue`, `BlockPool` |

How they interact. An acceptor (reactor thread) or a connector (application
thread) creates a service and opens it: the service takes an id from the
registry, pushes Establish to the event queue and starts a timer. The reactor
thread pushes a Read for each reception. An application thread pops events,
looks a connection up by its id and calls a send or a close on the service it
finds; sends go to the socket at once (`eSM_Direct`) or to the send queue
(`eSM_Interval`), which the timer empties. A close sets a flag; the timer finds
it, and the service pushes Close, closes the socket, gives the id back and
deletes itself. Under the proactor it is the workers that run the completions of
reads, writes and timers, several at once. Blocks come from pools that all threads
share. Closing the facade refuses further pushes, asks every connection to close,
waits for the registry to be empty, ends the network threads and deletes the
queues. Shared state: registry, close flag, send lock, send queue,
socket, event queue.

What is hard here: threads that meet at every one of these places; checks and
updates of flags in separate steps; partial and failed sends; several reasons to
close at once; a bounded queue that blocks network threads; a pulse that wakes
more threads than intended; objects deleted while other threads hold a pointer.
`PROJECT.json` lists each of these as a hazard at its line, with the properties
that would catch it, or why none does.

## Modules

**`TsIDMap`** - the registry. `Register` and `UnRegister` take the id queue's
mutex and the map's one after the other, so each is split there: `RegisterPop`,
`RegisterBind`, `UnRegisterFind`, `UnRegisterUnbind`, `UnRegisterPush`. `serial`
and `pc` say what the service object knows and where it is. `IdAllocator` is the
abstract specification: ids acquired and released in one step, in FIFO order;
`ImplementsAllocator` maps an id in transit to the abstract state it is about to
reach.

**`MessageQueue`** - the event queue. The ACE queue is a monitor, so a step is
what a thread does between taking and releasing the mutex, including in a wait:
`notEmpty` and `notFull` are the threads asleep on the two condition variables,
and a thread in `"empty"` or `"full"` that is in neither set has been woken.
`Signal` wakes one sleeper of the model's choice. The test of `m_popProgress`
(`PopEnter`) and the guard's constructor (`PopClaim`) are two steps, as in the
code. Each message has a size; the queue is full when its bytes reach the high
water mark, and a dequeue signals one producer when they are at or below the low
mark, as in ACE. One large message that leaves can make room for several sleepers
and wakes one of them; the others sleep on, with room, until the next dequeue, and
`NoLostWakeup` is stated so. A time-out (`PopTimeout`) is possible only for a
sleeper that has not been signalled: a waiter that times out is taken not to
have consumed a signal. `EventChannel` is the abstract specification for one
application thread: a FIFO channel whose receiver takes any number of the oldest
events at once. Not modelled: `Clear`, which has no caller in the repository.

**`ReactorService`** - one accepted connection: the reactor thread and any
number of application threads. `pc` holds the place of each thread in its
handler or call. A block is the sequence of its bytes, each named by sender,
request and place, so partial sends, merging and requeueing are what they are in
the code. `GetCloseFlag` is three comparisons that other threads may come between
(`probe`). `_SmartSend` is shared by both kinds of thread (`Sending(t)`). The
kernel takes any prefix of a block, or nothing. `_NotifyClose` is called twice on
some paths (by `_IsCloseFlagActivate`, then by `handle_close`); the second call
finds `_sentCloseMessage` set. The order of the destructor (socket, registry, send
queue) is kept. An application thread may still hold the pointer when the object
is deleted: its call then has no defined effect, and `Dangling` takes the thread
out of the model. `SendReserve` of the
reactor ignores its delay (`ReactorServiceAccessor.cpp:53`) and is an
`IntervalSend`. `Register` may get no id: the code asserts that it does and, in a
build without assertions, serves a connection that no look-up finds. A full send
queue also refuses the rest of a partly sent block, and on the timer's way nobody
is told (`ReactorService.cpp:291-293, 303`): `StreamIntact` counts these bytes as
dropped, it does not say that there are none. Abstracted: `registered` stands for the id's place in the
registry (`TsIDMap` shows that look-ups are exact), `events` is what was handed to
Push (`MessageQueue` shows what becomes of it), the zombie check may say yes
whenever it is switched on, and every block has tick 0, as in `SendRequest`.
`_timerLock` and `_closeLock` are taken by the reactor thread only, never nested,
and are left out.

**`ProactorService`** - one accepted connection served by several workers. A
worker that is idle takes up a completion (`WriteDone`, `WriteFailed`,
`ReadDone`, `ReadEnd`, `HandleTimeout`) and goes on with it step by step; what came
of an operation is decided only then, and completions of a deleted handler are
lost. `writing` is the block whose write is outstanding: it holds the send lock
without any thread, `AcquireSendLock` and the `sendLock' = FALSE` of `AfterWrite`
are often different threads. `ActiveClose` and `ReceiveClose` test the flag
(`CloseUnlessSet`) and set it (`SetCloseFlag`) in two steps. `Expire` posts timer
completions whether or not the last one was served, so `_Close` may run again
after the timer was cancelled, and Close is then pushed again: the code does this,
and `EventOrder` is stated so. `socket` is the set of directions still open, since
`eCF_Active` shuts only the sending side first. Two failures leak by the code and
are modelled as they are: a write that cannot be started or that fails keeps the
send lock (`StartWriteError`, `WriteFailed`), and an `open` that fails leaves an
object no timer will ever close (`OpenFail`). `Register` may get no id, as in the
reactor. `m_reader` and `m_writer` keep the number of the handle that
`_CloseHandle` closed; the model assumes that the system gives it to no other
socket while the object lives, so that reads and writes started later fail. `Delete` is the delete timer five
seconds later; that nobody is inside the service by then is an assumption of its
guard, and the only place where a duration matters. A gathering write is one
write; the branch of `_SmartSendImpl` that merges blocks in builds other than
Windows is not modelled, nor what it does to memory: when the write cannot be
started it has already released the blocks that `_SmartSend` releases again
(`ProactorService.cpp:342, 323`), and it never releases the merged one. What the
timer collects and a full queue then refuses is dropped with nobody told
(`ProactorService.cpp:311`).

**`SendQueue`** - what both connections abstract from: the order of the send
queue and its ticks. Ticks count modulo `Modulus` and the difference is signed, of
their width, as the cast to `int` makes it; `Init` starts at any tick. Each block
carries, for the properties only, how long it still has to wait and for how long
it could have been sent, and the delay it was given. The pop is a step per block, and
pushes come in between; the block that is not due goes back into a queue that may
be full. `Proactor` tells whose `SendReserve` it is: the reactor's gives the block
no tick. Delays are any below `Modulus`, as in the code; `NeverEarly` is about the
proactor and delays that are more than a tick short of `MaxDifferenceTick`, a day,
and `DelayKept` is the promise without these limits, which neither connection keeps
(see Findings). Assumed: the timer expires at least once per tick (`fired`); where
it does not, `OnTime` is to be read as a bound in expiries.

**`MessageQueueRepository`** - all queues by id with the auto-reset event they
share. A queue is taken at the level of its operations, which `MessageQueue`
justifies: `PushEnqueue` waits while it is full, `PushWake` fails after a pulse.
Its high water mark counts events, that is, they are of equal size here.
`Scan` looks at the queues one by one and `Wait` takes the signal. The guard
around the pop is tested (`Enter`) and set (`Claim`) in two steps, so two threads
may drain together. The module leaves open which thread calls what: `LoopCall` and
`PushCall` send a thread into a call and `then` says where it goes on.
A thread that is about to look into a queue that was deleted leaves the model
(`Dangling`).

**`NetworkFacade`** extends it with the network thread (accepts, reads,
disconnections, timers, each of which pushes), with application threads that
pop from all queues, pulse once and suspend the acceptors, and with Close, step by
step in its order: `SuspendPush`, clearing the queues for 100 ms (which ends at its
timeout, `ClearTimeout`), `Suspend`, `CloseService` over one id after the other,
waiting for the registry, the timer, the end of the network thread, `DeleteAll`. A
connection is reduced to what `CloseService` sees of it. The other application
threads may still be popping when Close begins, as in the test programs, which
call it before they wait for their threads. `QueueOutlivesNetwork` says that the
network thread, at least, never pushes into a deleted queue.

**`BlockPool`** - the pools of message blocks of one size. Threads that find no
pool make one each (`AddBlockPool`), and the last to store it wins; the pool is
named by its maker. Allocation tests three depths and takes three chunks under the
lock of the fixed-size pool; a release gives the three chunks back one by one
without it. The release build is modelled, in which `ACE_ASSERT` is empty: what the
assertion at `PoolStrategy.inl:152` claims is `StoredOnce`, and it is false (see
Findings). A pool that is overwritten is never deleted: its blocks go back to it,
so that `Conserved` holds, but nobody can allocate them again. `GrowthFollowsDemand`
is about the list of one fixed-size pool and does not count a second one as growth.
Sizes too large for any pool fall back to
`new` and are not modelled.

`MC*` modules give small sets of threads and the refinement mappings that need
names of particular threads. `TsIDMapProofs`, `MessageQueueProofs`,
`ReactorServiceProofs`, `ProactorServiceProofs`, `SendQueueProofs`,
`NetworkFacadeProofs` (which is about `MessageQueueRepository` as well) and
`BlockPoolProofs` hold the theorems of the modules they are named after, and
`SequenceFacts` the lemmas that several of them need: where a message or a byte is
when sequences grow, shrink, split and join. Operators with a name of the form
`Action_Fault` are faults of that action: each property of a passing run has one that violates it.

## Runs

| Run | Instance | Question | Answer |
|---|---|---|---|
| `registry` | 3 objects, 2 ids | do ids survive any interleaving of registrations? | yes; refines `IdAllocator` |
| `queue_single` | 3 producers x 2, 1 consumer, messages of 1 and 3 bytes, both marks at 2 | is the queue a channel, and does everyone get out of it? | yes; refines `EventChannel` |
| `queue_shared` | 2 producers x 2, 2 consumers, the same sizes and marks, pulses | is anything lost, doubled or overtaken, is anyone left asleep? | no |
| `reactor` | 1 application thread, 2 direct sends of 2 bytes, queue of 1 | safety and progress with closes, half-closes, zombie checks and hang-ups at any moment | holds; a close request is carried through unless a half-close comes |
| `proactor` | 2 workers, 1 application thread, 2 blocks of 2 bytes, queue of 1 | safety with several workers at any completion, closes, half-closes and hang-ups | holds |
| `proactor_live` | the same with blocks of 1 byte, no half-close | are closes and hang-ups carried through, do queued bytes leave? | yes |
| `send_queue` | the proactor's: 4 sends, delays of 0, 2 and 5 ticks, a tick count of 12, a day of 4, queue of 2 | is a block sent when due, wherever the tick count wraps? | none delayed by less than a day is early; late only around the wrap |
| `facade` | 1 network thread, 2 application threads, 2 queues of 1 message, 1 connection | is an event lost on its way, and does Close return? | no; yes, when the acceptors were suspended and the others have stopped |
| `block_pool` | 2 threads, up to 5 blocks, pools of 1, 2 and 4 | does a chunk get lost, an allocation come out half, memory grow without need? | no |
| `reactor_order` | 1 application thread, 2 queued blocks | do bytes arrive in the order of sending? | **no**: the rest of a partial send goes to the back of the queue |
| `delay_lost` | the reactor's: as `send_queue` | is a delayed block held back? | **no**: the delay is ignored |
| `pool_twice` | as `block_pool` | is a pool stored only where there is none? | **no**: two threads make one each |

Why the bounds suffice. Two ids and three objects make the registry run out and
reuse ids in both orders. Three producers, and a queue that two small messages or
a large one fill, let one sleep while another is woken and a third slips in, the
situations in which a monitor loses a wake-up; a large message that leaves makes
room for two. In `reactor` the application thread and the timer find each other
with the send lock taken; more than one application thread is left to the
theorems, which hold for any number. Blocks of two bytes have a partial send,
and a send queue of one block can be empty, hold a remainder and be full. One
reception (`MaxReads`) puts a Read between Establish and Close. Two workers are
enough for one to complete a write or a timer while the other starts the next;
the third completion a connection has, its read, then finds both busy. Two Reads
let one be in a worker's hands at the Close, and one posted timer completion
(`MaxPosted`) is what closes a connection a second time. Close requests are
bounded too (`MaxCloses`): the three comparisons of `GetCloseFlag` may miss a flag
that somebody keeps changing, for ever. Four sends over a queue of two fill it
while the pop holds a block; with a tick count of twelve and a day of four, each
difference has blocks before, in and after the wrap, two ticks is the longest
delay that `NeverEarly` is about and five is more than a day. In the facade, one message of
room makes every second push wait; the connection may come before, during or after
the scan of `CloseService`; the one Read or Timer event (`MaxPushes`) goes with
Establish and Close over two queues. Five blocks make the third pool (after 1 and
2) necessary, and blocks come back while the pools are tried. All counters only
bound how often something new is asked for, never what happens to it. Deadlock is
not checked in the runs of the queue, the connections and the facade, because
producers and connections come to their end. Workers are symmetric in `proactor`,
which has no temporal property, and so are the threads in `block_pool`.

Fairness. In `MessageQueue`: a woken network thread runs on, and the application
thread keeps calling Pop and is scheduled in it (`EchoBackServer::svc` is such a
loop); nobody must push or pulse. In `ReactorService`: every thread runs on once
it is in a call or a handler; the reactor, which serves all ready handles and due
timers in each round, does not neglect a readable socket or the timer for ever
(strong fairness of `HandleInputEnd` and `HandleTimeout`); and a peer that is
there reads, so that the kernel takes a whole block again and again when asked
again and again (strong fairness of `SendAll`). Nobody must send, close or hang
up. In `ProactorService`: every thread runs on; the delete timer expires (`Delete`);
the timer expires and is served; and the completions of reads and writes get a
worker now and then although the timer's go on (strong fairness: completion ports
are served in the order of posting, no worker prefers timers). In `SendQueue` the
pop goes on and ticks pass. In `NetworkFacade` the network thread finishes its
handlers and gets round to closing what was asked to close, application threads
keep popping until they stop, a Close goes on. In both connections `SentEventually`
lets bytes end up dropped, because a full send queue or a
closing connection drops them.

## Findings

Three runs show a disagreement between code and text, test or assertion. The quoted
lines are in `PROJECT.json`.

* `reactor_order`: bytes of one sender are reordered after a partial send, since
  the rest goes to the back of the send queue.
* `delay_lost`: the facade's `SendReserve` promises a delay. The reactor's accessor
  drops it (`ReactorServiceAccessor.cpp:57`), and the block leaves with the next
  expiry. The proactor's keeps it only below a day: `ServiceImpl.cpp:53-54` takes a
  longer delay for a tick long past. `MCSendQueue_reactor.cfg` with `Proactor = TRUE`
  violates `DelayKept` too, by the delay of five.
* `pool_twice`: the assertion that there is no pool yet (`PoolStrategy.inl:152`)
  fails when two threads have found none, and in a build without assertions the
  first pool is overwritten and its free chunks are out of reach for good.

The models also show behaviour that no text of the repository denies, or denies
only in general words, and that is in the actions and in the wording of the
properties. `CloseReceiveStream` overwrites a `CloseStream` the timer has not yet
served (`ReactorService.cpp:210-213`), and the connection stays open:
`CloseUndisturbed` says "unless a `CloseReceiveStream` is called", and fails
without these words. A full send queue drops the rest of a partly sent block, so
that the peer's stream has a hole nobody is told of (`ReactorService.cpp:303`).
`InterlockedGuard` tests and
sets in two steps and lets two threads in; `Pulse` makes a `Push` that waits for
room fail; after `CloseReceiveStream` the reactor's connection drops what is sent
and goes on reading; the proactor may push Close more than once; a failed write
leaves the proactor's send lock taken, after which only the close empties the
queue; a network thread may sleep in `Push` although there is room, until the next
dequeue; around the wrap of the tick count blocks without delay wait for up to a
day; a `Close` of a facade whose acceptors were not suspended may wait for ever
for a connection that came after its scan; and so may a `Close` that begins while
another thread is popping: `ClearMessageQueue` then finds `m_popProgress` set and
gives up, the other thread may already be past a queue that is full and be told to
stop, and the network thread stays in its push. `CloseReturns` has both as its
premise; without them TLC shows these two behaviours.

## Proofs

Every safety property that a passing run checks is also a theorem, and so are both
refinements. They hold for all values of the constants that satisfy the
assumptions named in the modules (`MaxAssumption`, `SentinelAssumption`,
`QueueAssumption`, `ServiceAssumption`, `ProactorAssumption`,
`SendQueueAssumption`, `RepositoryAssumption`, `FacadeAssumption`,
`BlockPoolAssumption`, `NoThread`), and nothing else is assumed. These say that
sets of threads that play different parts are disjoint, that a queue or a block
has room for something, that the day fits twice into the range of the tick count,
as `MaxDifferenceTick` does, and, where threads are counted (`MessageQueue`,
`BlockPool`), that there are finitely many. The counters that the `Max...`
constants bound are bounded by any number. Each invariant below was checked by TLC
before it was proved.

* `TsIDMapProofs`: `TypeCorrect`; `RegistryCorrect`, that ids are conserved and
  look-ups exact (`LookupCorrect` states the second part alone): the invariant ties
  the idle queue, the map and the ids in transit together, because none of the
  three alone determines the others between the two mutexes;
  `RegistryImplementsAllocator`, each step mapped to a step of `IdAllocator` or to
  a stutter.
* `MessageQueueProofs`: `TypeCorrect`; `OrderKept`, that each application thread
  gets the events of a network thread in the order of pushing. The history of an
  application thread, what it received, holds and would find in the queue, must be
  in order, and each message in it older than the one its network thread has in
  its hands (`OrderInv`): without the second part the next push could break the
  order. A push appends to every history, a pop by another thread drops one
  message from the middle, and other steps leave them as they are.
  `DeliveredOnce`: `OnceInv` says of each message (`Placed`) that it has one place
  if it was pushed and none if not; without the "none" the next push could double
  it. `NoWakeupLost`: while a producer sleeps, a message is left whose dequeueing
  signals it, or a woken producer has still to push one, whatever the sizes and the
  marks; while a consumer sleeps, the woken consumers can take all there is. An
  empty queue is below every mark, so the dequeue that takes the last message
  signals a producer; each enqueue wakes one consumer for the one message it adds,
  and counting needs the sets to be finite. `QueueImplementsChannel`, for one application thread: what it holds
  and what is queued, in this order, is the channel, so that a step is a `Send`, a
  `Receive`, or moves messages within the channel.
* `ReactorServiceProofs`: `TypeCorrect`; `SendersCorrect`, through `OneSender`
  (the senders are all equal, and as long as the object lives the lock is taken
  exactly when there is one: without the second part nothing would say that a free
  lock means nobody is sending); `EventsCorrect` and `IdReuseCorrect`, through
  `Protocol`, which says for each place of the reactor thread whether the id can be
  registered, the object alive, and Establish and Close pushed. The id may be
  missing all along, so `IdFreedAfterClose` is about the step that gives it back
  (`RegisteredKept`: no other step but `Register` touches it). Most steps of the
  reactor thread preserve it because they stay within `Serving`, and other
  threads because they touch none of it. `StreamKept`: each byte has one place
  if it was asked to be sent and none if not (`Placed`), and wherever a sequence of
  bytes waits, each byte of it is behind its predecessor, on the wire or in the
  same sequence (`Chained`). The second is not a property of the wire alone: a rest
  that is requeued, or merged with other blocks, must still begin where the wire
  ended. `HandFree` is needed because a new request takes the place of what the
  thread has in its hands.
* `ProactorServiceProofs`: `TypeCorrect`; `OneTickHolds`, `OneWriteHolds`,
  `EventOrderHolds` and `IdFreedAfterCloseHolds`, all through one invariant, since
  several workers serve the connection and what each may do depends on what the
  others are at: the timer lock is taken exactly while one worker serves the timer
  (`TickAlone`); the send lock goes from the thread that starts a write to the
  write that is outstanding and from there to the worker of its completion
  (`WriteAlone`); until Establish is pushed only the opening worker and late writes
  are about (`Opening`); the right to push a Read is with the outstanding read or
  with one worker (`ReadAlone`), which is why at most one Read can follow a Close
  (`LastRead`); the closing shuts the socket before it pushes Close, and deletes
  only when nobody is inside (`Ending`). `StreamKept` is the reactor's argument
  with one more place for bytes, the outstanding write; that starting a write
  forgets none rests on `WriteAlone`.
* `SendQueueProofs`, for any width of the tick count: `QueueSorted`, types and the
  order by tick, which both the insertion and the pop rely on; `SentOnce`, as
  `DeliveredOnce`; `NoneEarly`, through `TimeInv`: a block that still has to wait
  for n ticks has the tick n from now, modulo the width (`Timed`), and the tick
  that a pop compares with is now, or the one before while the timer is due
  (`Recent`), so that the signed difference errs only towards waiting, for delays
  under a day less that tick; blocks with longer ones may be in the queue too.
  `NoneHeldUp`, through `LateInv`: how late a block can be depends on its tick,
  the clock and whether a pop goes on or is still to begin (`Prompt`, `Limit`). A
  pop whose clock is not in the last day takes a prefix of the sorted queue that
  has every block it compares as due; the invariant says for which blocks that is
  enough.
* `NetworkFacadeProofs`: `TypeCorrect`; `QueueOutlivesNetworkHolds`, because the
  queues are deleted only by a thread that waited for the end of the network thread
  (`Joined`), which makes no call after it; `RefusedLateHolds`, because nobody is
  woken for a refusal before a pulse (`PulsedFirst`); `EventsHold`: each message
  that was made has one place (`Kept`), where "made" is read off the state of its
  connection or the counter of its kind, and a connection is in the state that the
  handler of the network thread left it in (`Serving`): without that a Close could
  be made twice.
* `BlockPoolProofs`: `TypeCorrect`, and `WholeBlocks`, for any number of threads and
  blocks and pools of any growth: an allocation never runs out between its tests and its takings.
  The invariant says who has each lock, that a thread inside it is at a pool of
  the list, and `Fits`: the parts a thread has tested and not yet taken are there.
  It holds through the steps of others because only the owner of the lock takes
  chunks of a fixed-size pool (`Exclusion`) and releases only add to them.
  `ChunksConserved`: what a step takes from free and used chunks is what its
  thread holds afterwards (`Balanced`), and nobody else's holdings change.
  `GrowthBounded`, through `GrowthInv`: for a thread on its walk through the list,
  the block pools it has found exhausted, counted as they were then, and those it
  has not yet looked at, as they are, sum up to no more than the peak (`Seen`,
  `Tested`). A release can only lower the sum, a thread that allocates from the
  same list would need the lock, and at the end of the walk the sum is the size of
  the list. `Total` is a recursive function; that sums grow with their terms goes
  from one position of the list to the next (`Upwards` in `SequenceFacts`, from the
  well-foundedness of the naturals, takes the place of an induction).

Only model-checked: liveness, which is out of the prover's reach with everything
else under fairness (`EventuallyReceived`, `PushReturns`, `CloseHeard`,
`CloseUndisturbed`, `HangupHeard`, `SentEventually`, `CloseReturns`). The assumptions of the model,
such as that nobody is inside a proactor's service five seconds after its close,
are neither checked nor proved.

## Not modelled

* Connectors: a connection that an application thread opens. It would be a second
  opener in `ReactorService`, whose timer runs before the handler is registered.
* The proactor's acceptor, timer and pool in the shutdown. The facade is composed
  with the reactor; the proactor's connection has `CloseService` as a call.
* `CreateQueue` and `Pop` over all queues; failed accepts.
* `MemoryBlockPool`: its free lists take any chunk, so there is nothing to conserve
  per pool.
* `ThreadPool`, `TSQueueWithEventT`, `TsBlockList`: no other part of the library
  runs on them.
* `SyncSocket`, `SimpleConfig`, `Logger`: blocking I/O and text.
* ACE beyond the operations named in the map, and the libraries under
  `ExternalLib`: vendored or separate, and most of the repository's lines.

## Plan

1. The connector as a second opener of `ReactorService`; its timer may fire before
   the handler is registered. `Protocol` then needs a place for the opener.
2. The proactor's side of the shutdown: its acceptor, timer and pool, composed with
   the repository as `NetworkFacade` composes the reactor's.
3. A refinement for the repository, whose channel is what `EventsHold` says of
   each message, and for the send queue, a set of blocks with their delays.
