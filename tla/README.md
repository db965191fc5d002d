# TLA+ verification of kit_muduo_cpp

kit_muduo_cpp is a C++ network library in the style of muduo: one event loop per
thread, non-blocking sockets dispatched by epoll, callbacks for everything, and on
top of that TCP and UDP endpoints, an HTTP server, timers and a thread pool. This
directory holds TLA+ models of its core, the TLC configurations that check them, and
TLAPS proofs of every safety property the passing runs check, for every value of the models'
constants.

Paths are relative to the root of the repository (`src/net/...`, `include/net/...`).
`PROJECT.json` maps every definition to the lines it models and lists components,
runs, mutants, findings, hazards and theorems.

## 1. Inventory

### Components

| Component | State it keeps | Operations | What makes it correct |
|---|---|---|---|
| EventLoop (`src/net/event_loop.cpp`) | `_quit`, `_callingPendingFunc`, `_pendingFuncs`, `_activeChannels`, eventfd | `loop`, `quit`, `runInLoop`, `queueInLoop`, `wakeup`, `handleRead`, `doPendingFuncs` | no functor sleeps in the queue while the loop sleeps in `epoll_wait`; functors run once, in order; `quit` ends the loop |
| EventLoopThread, Thread (`src/base/event_loop_thread.cpp`, `thread.cpp`) | `_loop`, the thread, `t_loopInThread` | `startLoop`, `threadFunc`, destructor | the loop lent out is alive while lent; the destructor returns |
| EventLoopThreadPool | the loops, `_next` | `start`, `getNextLoop` | connections spread over running loops |
| ThreadPool (`include/base/thread_pool.h`, `src/base/thread_pool.cpp`) | task queue, `pool_`, `exited_ids_`, counters, three condition variables | `start`, `stop`, `submitTask`, `trySubmitTask`, worker loop | accepted tasks run, no notification is missed, `stop` returns, counters agree with threads |
| SampleTimerQueue, Timer (`src/net/sample_timer_queue.cpp`) | `_timers`, `_activeTimers`, `_cancelingTimers`, `_runningTimers`, timerfd | `addTimer`, `cancel`, `handleRead` with `getExpired`, `reset` | the timerfd is armed for the earliest timer; a cancelled timer does not run |
| Channel, Poller, EpollPoller, PollPoller | interest, `_index` (a state, or a place in `_eventList`), `_channels` by descriptor, the kernel's epoll set | `updateChannel`, `removeChannel`, `handleEvent`, `poll` | a channel is watched for what it asks, and a report reaches the channel it is about |
| Buffer (`include/net/buffer.h`) | bytes, two indices, prepend area | `append`, `makeSpace`, `reset*`, `readFd` | bytes come out as they went in |
| TcpConnection (`src/net/tcp_connection.cpp`) | `_state`, channel, buffers | `send`, `shutdown`, `handleRead/Write/Close/Error`, `connectEstablished/Destroyed` | the stream is whole and in order; FIN comes last |
| TcpServer, Acceptor (`src/net/tcp_server.cpp`, `acceptor.cpp`) | `_connections`, `_nextConnId` | `newConnection`, `removeConnection(InLoop)`, destructor | every connection is taken down once, on the right loops |
| AsyncUdpDatagram (`src/net/async_udp_datagram.cpp`) | `state_`, `pending_datagrams_`, `channel_removed_`, shared ownership | `start`, `send`, `close`, `forceClose`, handlers | order, graceful close loses nothing, deleted once, when nothing refers to it |
| HttpServer, HttpContext, LLhttpParser (`src/net/http/`) | per-connection parser and request, business pool | `onMessage`, `handleRequest`, parser callbacks | requests are parsed whole under any segmentation and answered |
| HTTP routing (`http_servlet.cpp`, `http_router.cpp`) | `exact_routes_`, `dynamic_routes_`, `next_route_id_` | `addRoute`, `removeRoute` in three forms, `match`, `handle`, `getRoute`, `listRoutes` | the right servlet, 404 or 405; no two routes of a pattern share a method |
| LruCache (`include/base/lru_cache.h`) | list, map, deferred promotions | `get`, `put`, ... | the size bound; map and list agree |
| UdpDatagram, UdpServer; Socket, InetAddress; loggers and appenders; data converters; custom HTTP parser, multipart parser; time, util, variant | little or none that is shared | | see section 7 |

### How they interact

A loop thread calls `epoll_wait`, dispatches the ready channels, then runs the
functors other threads queued. Every other class keeps its state on one loop thread
and turns foreign calls into functors of that loop. TcpServer uses two loops per
connection: accept and the connection map on the base loop, events of the connection
on a sub-loop. HttpServer adds a pool of business threads which send responses back
through the loop's queue. Ownership is by `shared_ptr`: a queued functor, a connection
map and an event in progress (`Channel::tie`) keep an object alive; channels
themselves are raw pointers in the poller and in `_activeChannels`.

### What is hard

Steps made outside locks (the eventfd written after the queue's mutex is released;
`is_running_` stored and waiters notified without the mutex); state tested on the
caller's thread and used later on the loop's; callbacks that call back into the object
that called them, or let go of it; objects taken down across two loops; requests cut
at arbitrary points by TCP; several waiters and timeouts on a bounded queue. Section
"hazards" of `PROJECT.json` lists 39 such places with the properties that watch them.

## 2. Modules

| Module | Models | Composition |
|---|---|---|
| `LoopExecutor` | what `queueInLoop` promises: a FIFO line of functors, each run once | abstract specification |
| `EventLoop` | the loop thread and its callers, step by step around mutex, eventfd and flags | implements `LoopExecutor` |
| `EventLoopThread` | owner, thread function, `Thread` handshake and join, `t_loopInThread` | EXTENDS `EventLoop`, every step of whose loop is one of `EventLoop` |
| `ThreadPool` | both modes, condition variables with explicit wait sets | |
| `SampleTimerQueue` | timers, timerfd and clock | |
| `Poller` | what a poller promises its loop | abstract specification |
| `Pollers` | `EpollPoller` and `PollPoller`, the kernel under them, reused descriptors | implements `Poller` |
| `Channel` | one channel's interest and its registration with `EpollPoller`, its descriptor its own | used by the TCP and UDP modules |
| `Buffer` | indices, prepend area, move or grow, `readFd` | used by `TcpConnection` |
| `TcpConnection` | the handlers as functions on a connection record | EXTENDS `Buffer`, `Channel` |
| `TcpServer` | base loop, sub-loops, accept, map, destruction, peers, users | EXTENDS `TcpConnection` |
| `AsyncUdpDatagram` | one datagram socket on its loop, with re-entrant callbacks | EXTENDS `Channel` |
| `HttpServer` | one HTTP connection: segmentation, pipelining, loop or pool | |
| `Routes` | routes, answers and the choice among matching routes | constant-level, used by the next two |
| `RouteTable` | what `HttpServletDispatch` promises: one table of routes | abstract specification |
| `HttpDispatch` | `HttpServletDispatch`: two containers and their separate lookups | implements `RouteTable` (proved, no run) |
| `EventLoopThreadProofs` | proofs about `EventLoop`, then about `EventLoopThread` | EXTENDS `EventLoopThread` |
| `ThreadPoolProofs`, `SampleTimerQueueProofs`, `PollersProofs`, `TcpServerProofs`, `AsyncUdpDatagramProofs`, `HttpServerProofs`, `HttpDispatchProofs` | proofs about the module they are named after | each EXTENDS it |
| `MC*` | instantiation for TLC | |

`TcpServer`, `AsyncUdpDatagram` and `HttpServer` use a loop's queue the way
`LoopExecutor` describes it: functors of one loop run one at a time and in order, and
never together with a handler of the same loop. `EventLoop` is shown to provide that.
`HttpServer` in turn uses of the connection what `tcp_server` checks: what
`sendInLoop` takes is sent whole and in order.

### Correspondence with the code

*EventLoop.* `pc` is the place of the loop thread in `loop()` and `doPendingFuncs()`,
`stage[t]` the call that thread `t` is inside of, between its store or push and its
write of the eventfd. The steps are: push under the mutex; test of
`isInLoopThread() / _callingPendingFunc` with `wakeup()`; store of `_quit`;
its wakeup; the read of `_quit`; the return of `poll`, with any of the ready
channels or none (timeout); `handleRead`; the callback of another channel; the flag;
the swap; each functor. User code may call back wherever the code runs it. `early` remembers
functors queued by the loop thread before `loop()` runs: `queueInLoop` does not wake
the loop for these, so they wait for the first event or for the poll timeout of 10 s.

*EventLoopThread.* `tpc` and `opc` are the places of `threadFunc` and of the owner.
`inThread` is the thread-local pointer by which a second loop in a thread aborts; the
destructor of a loop clears the pointer of the thread that *runs* it, which is the
owner's for a loop in an EventLoopThread.

*ThreadPool.* A critical section is one step, except that a thread whose predicate was
false and which has not yet begun to wait is a state of its own: it holds the mutex
but cannot be notified. That is where notifications made without the mutex are lost.
Worker, submitter and controller have places for every statement outside a critical
section. Wait sets are explicit and `notify_one` picks any waiter. Spurious wakeups are
left out: every wait re-evaluates its predicate, so one only repeats the test, and no
progress may rest on them.

*SampleTimerQueue.* `timers` is the ordered set of (expiration, timer), `activeTimers`
the register by timer; the batch is taken (`getExpired`), run timer by timer, with
calls from the callbacks in between, and put back (`reset`). The clock ticks between
any two steps, and the timerfd becomes readable when its time comes, also while a
batch runs.

*TcpConnection / TcpServer.* A connection is a record; `HandleWrite`, `SendInLoop` and
the others are functions from record to record; TcpServer's actions apply them, put
functors on the queues of loops and keep the map. `calls` are sends and shutdowns of
other threads that passed their test of `_state` and have not queued their functor yet.
A write takes any part of what it is given. A message is `MsgLen` distinct bytes.
`incoming` is what lies unread in the socket: a read event takes any part of it that
`readFd` has room for, in the buffer and in the second vector, and the message
callback takes any part of what it is shown.

*Pollers.* `chan` are the channel objects with descriptor, events and `_index`,
`channels` is `_channels`, `epollSet` the kernel's set and `eventList` the array of
PollPoller; `kind` says which of the two is in use. `asked` remembers, for the
properties, which channels the loop's users have registered. A destroyed channel may
be made anew with the lowest free descriptor. A channel is removed once, as every user
in the library does it. `CloseEarly` is the situation EpollPoller's fallback is there
for (it calls the branch indispensable): a descriptor closed, and perhaps reused,
while its disabled channel is still in `_channels`; the older channel is then removed
before the newer one, as their functors are in the queue in that order.

*AsyncUdpDatagram.* `stack` is what runs on the loop thread, innermost last, so a
callback of `handleWrite` can call `send`, `close` or `forceClose` in the middle of
its loop. References are counted where the code holds them: the user's, the functors',
the tie of the event in progress. Where the code's behaviour is undefined, the model
raises `undefined` and stops; the properties hold up to that point.

*HttpServer.* A byte is a triple (request, part, position); `Sent(kinds, k)` is the
k-th byte of the client, whose requests follow one another, part after part. A request
with a bad byte has it where its version should begin, and is the client's last: the
parser stays failed behind it. `Receive(n)` appends the next n bytes to the input
buffer and `onMessage` parses: a callback for each piece of a part that the data holds
(`Piece`, appended or assigned by `Feed`), a pause at the end of a message, an error at
a bad byte (this is llhttp, external). Requests are handled inline or by workers, whose
responses and shutdowns are functors.

*HttpDispatch.* Every operation holds `route_mtx_` from beginning to end and so is one
step, for any number of threads. A vector of routes is appended to with growing ids
and erased from in place: it is the set of its routes, in the order of their ids.
Which patterns are dynamic (`routeKind`) and which paths a matcher accepts
(`MatchPath`) are parameters; nothing is assumed of them. A request may have a method
no route can ask for.

## 3. Runs

| Run | Instance | States | Shows |
|---|---|---|---|
| `event_loop_thread` | owner, loop thread, one user, three functors, eventfd maximum 2, one loop of the owner's own | 398,479 | `NoLostWakeup`; `ImplementsExecutor`; `QueuedRuns` without help of the poll timeout; `LentLoopAlive`; `LiveQuitJoins`: a quit still in force once `loop()` began leads to a joined thread |
| `event_loop_thread_dtor` | owner and loop thread | violation | `DestructorReturns`, see Findings |
| `thread_pool` | FIXED and CACHE, one or two initial threads, at most two, queue of one, two submitters and tasks, one timed | 131,892 | `PoolAccounting`, `QuietAfterStop`, `NoMissedNotification`, `AcceptedRuns`, `CacheStopReturns` |
| `thread_pool_fixed_stop` | as above, no idle timeouts | violation | `StopReturns`, see Findings |
| `timer_queue` | three timers, three milliseconds, due at once or in two, one-shot or repeated, one foreign call pending | 1,798,611 | `RegistersAgree`, `TimerFdArmed`, `DeadTimersStayDead`, `RunWhenDue` |
| `timer_queue_cancel` | two timers | violation | `CancelIsFinal`, see Findings |
| `tcp_server` | one connection on the base loop alone or on a sub-loop, destruction at any time, two messages of two bytes in either direction, buffer of three, extra buffer of four | 163,135 | `StreamIntegrity`, `InputIntegrity`, `WritingIffOutput`, `FinIsLast`; `MapCoversOpen`, `RemoveDefined`, `RegisteredIsHeld`, `ReclaimedWasAnnounced`; `ClosedIsReclaimed`, `ShutdownCompletes` |
| `pollers` | either poller, three channels, three descriptors | 93,428 | `WatchedAsAsked`, `IndexLeadsBack`, `ImplementsPoller` |
| `udp_datagram` | three sends, two queued foreign calls, stack of three | 351,152 | `DatagramOrder`, `WritingIffPending`, `ClosedIsUnregistered`, `OnlyForceLoses`, `DeletedIffUnused`, `CloseCompletes` |
| `udp_force_close` | the same | violation | `ForceCloseIsSafe`, see Findings |
| `http_server` | three pipelined requests (ordinary, closing or malformed), two workers, queue of one, with and without the pool | 192,286 | `UrlAndBodyWhole`, `AnswersWellFormed`, `CloseIsAnnounced`, `RequestsAnswered` |
| `http_segments` | one request whose tokens have two bytes | violation | `SegmentationInvisible`, see Findings |

Types are checked along: `TypeOK` and `HttpTypeOK` by themselves, `ThreadTypeOK`,
`PoolTypeOK`, `TcpTypeOK` and `UdpTypeOK` as conjuncts of `LentLoopAlive`, `PoolAccounting`,
`StreamIntegrity` and `DatagramOrder`. Each property of a passing run has a
mutant, a plausible bug in the mapped code that TLC finds to violate it; mutants stand
right before the definition they change and are marked as such.

Deadlock checking is off in all runs but `pollers`: each system really may stop (the loop has quit,
the pool has stopped, the calls a bound permits have been made). What must not get
stuck is stated as liveness instead. In `pollers` some call is always possible.

### Bounds and why they are enough

* Functors, timers and datagrams: the interesting cases need one that is being handled,
  one queued behind it and one that comes late; three give all orders of these.
* Two tasks, the second of which meets a full queue, are what the liveness properties of
  the pool can be checked with in minutes. Two submitters waiting at once, among whom
  `notify_one` chooses, need a third task: `PoolAccounting`, `QuietAfterStop` and the
  inductive `WakeInv` behind `NoMissedNotification` were checked with three tasks too
  (1,546,645 states with a queue of one, 1,925,345 with a queue of two), and
  `NotificationsSuffice` is proved for any number of tasks, submitters and threads.
* One connection brings all interleavings of its base loop, its own loop, its user, its
  peer and the destructor. Connections share the map, the loops and the round robin
  only; the four invariants of the take-down were also checked with two connections on up to two
  sub-loops (1,884,308 states, no data), and are proved for any number.
* `EvfdMax` = 2 makes the counter saturate (2^64 - 2 in the kernel), so that a failed
  write of the eventfd is among the cases; the proofs are for any value above 0.
* The pool's queue of one makes submitters wait; two threads at most and one at least
  make the pool grow and shrink; `MaxSpawn` = 3 allows a retired thread to be replaced,
  `MaxIdleTimeouts` bounds how often workers retire while the pool runs (while it
  stops, timeouts are unbounded).
* Timers: delays 0 and 2 and interval 1 over three milliseconds put timers into one batch,
  into successive batches, and behind each other while a batch runs.
* `InitSize` = 3 with two messages of two bytes makes `makeSpace` move and grow.
  `ExtraSize` = 4 lets one read fill the buffer and spill into the second vector, with
  room to spare or not.
  `MaxCalls` and `MaxQueue` bound calls of users in progress, never the library's own.
* Pollers: with three channels and descriptors a channel in the middle of the array is
  removed, one is moved into its place, and one is neither; a descriptor is reused
  while the array or the map still has other entries.
* `MaxDepth` = 3 holds an event, its handler and the callback that calls back in. A
  send that fails in an error callback calls that callback again, without limit in the
  code; the bound lets it happen where the stack has room (up to three deep). The
  proofs assume no more than that the stack holds these three (`UdpAssumption`).
* HTTP: token of one byte where tokens are not the question, two where they are; a
  span of two bytes has one place to be cut; three requests give one answered, one in
  the pool and one refused.

### Fairness and why the code justifies it

* EventLoopThread: the loop thread goes on (WF of its steps), a readable eventfd makes
  `epoll_wait` return, callers that are past their push write the eventfd, waits of the
  owner end when their condition holds. User callbacks return. The poll timeout is
  *not* assumed, so a lost wakeup is not excused by the next timeout; only
  `event_loop_thread_dtor` adds it (`TimeoutSpec`), to show that it does not help.
* ThreadPool: threads are scheduled, tasks return, timed waits time out in the end,
  which is why a missed notification does no harm in CACHE_MOD. Nobody has to submit or to stop.
* TcpServer: a loop runs its queue and serves ready channels; a peer keeps reading.
  A hang-up is seen once the data before it has been read.
  Nobody has to send, shut down or close.
* AsyncUdpDatagram: weak fairness of the loop; strong fairness of taking the functors,
  since every turn of `loop()` ends in `doPendingFuncs`, whatever events keep
  coming; the socket becomes writable again and again and then takes or fails a
  datagram, not always EAGAIN.
* HttpServer: the loop comes back to its functors (strong fairness, as above);
  business threads are scheduled; servlets return.

## 4. Proofs

| Theorem | Statement | Argument |
|---|---|---|
| `TypeCorrect` | `Spec => []TypeOK` | one step per action |
| `WakeInvariant` | `Spec => []WakeInv` | inductive invariant |
| `NoLostWakeups` | `Spec => []NoLostWakeup` | from `WakeInv` |
| `NoStrandedQuits` | `Spec => []NoStrandedQuit` | from `WakeInv` |
| `LoopImplementsExecutor` | `Spec => ImplementsExecutor` | refinement, `todo <- tmp \o pendingFuncs`, `ran <- executed` |
| `ThreadImplementsEventLoop` | `ThreadSpec => Spec` | every step of the composition is a step of EventLoop or leaves it alone |
| `LentLoopWakes`, `LentLoopImplementsExecutor` | `ThreadSpec => []NoLostWakeup`, `ThreadSpec => ImplementsExecutor` | from that and the theorems about EventLoop |
| `ThreadTypeCorrect` | `ThreadSpec => []ThreadTypeOK` | one step per action, and `TypeCorrect` |
| `LifeInvariant`, `LentLoopIsAlive` | `ThreadSpec => []LifeInv`, `[]LentLoopAlive` | inductive invariant |
| `PoolInvariant` | `Spec => []PoolInv` | inductive invariant, by cardinalities |
| `PoolAlwaysAccounted`, `QuietWhenStopped` | `[]PoolAccounting`, `[]QuietAfterStop` | from `PoolInv` |
| `NotificationsSuffice` | `[]NoMissedNotification` | from `WakeInv` of ThreadPool, inductive given `PoolInv` |
| `TimerInvariant` | `Spec => []TimerInv` | inductive invariant |
| `SampleTimerQueueProofs!TypeCorrect`, `RegistersAlwaysAgree`, `TimerFdAlwaysArmed` | `[]TypeOK`, `[]RegistersAgree`, `[]TimerFdArmed` | from `TimerInv` |
| `CancelledNeverRun`, `RunsWhenDue` | `DeadTimersStayDead`, `RunWhenDue` (action properties) | every step from a state of `TimerInv` |
| `PollersInvariant` | `Spec => []PollersInv` | inductive invariant |
| `IndexAlwaysLeadsBack`, `AlwaysWatchedAsAsked` | `[]IndexLeadsBack`, `[]WatchedAsAsked` | from `PollersInv` |
| `PollersImplementPoller` | `Spec => ImplementsPoller` | refinement from `PollersInv` before and after a step |
| `TcpInvariant` | `Spec => []TcpInv` | inductive invariant |
| `OutputIsWhole`, `InputIsWhole`, `WritingMatchesOutput`, `ShutsAfterOutput` | `[]StreamIntegrity`, `[]InputIntegrity`, `[]WritingIffOutput`, `[]FinIsLast` | from `TcpInv` |
| `MapHasAllOpen`, `RemovesOnlyKnown`, `HeldWhileRegistered`, `AnnouncedWhenReclaimed` | `[]MapCoversOpen`, `[]RemoveDefined`, `[]RegisteredIsHeld`, `[]ReclaimedWasAnnounced` | from `TcpInv` |
| `UdpInvariant` | `Spec => []UdpInv` | inductive invariant |
| `DatagramsInOrder`, `InterestMatchesQueue`, `ClosedHasLeft`, `GracefulKeeps`, `DeletedExactlyWhenUnused` | `[]DatagramOrder`, `[]WritingIffPending`, `[]ClosedIsUnregistered`, `[]OnlyForceLoses`, `[]DeletedIffUnused` | from `UdpInv` |
| `HttpInvariant` | `Spec => []HttpInv` | inductive invariant |
| `HttpTypeCorrect`, `UrlAndBodyAlwaysWhole`, `AnswersAlwaysWellFormed`, `CloseAlwaysAnnounced` | `[]HttpTypeOK`, `[]UrlAndBodyWhole`, `[]AnswersWellFormed`, `[]CloseIsAnnounced` | from `HttpInv` |
| `DispatchInvariant` | `Spec => []DispatchInv` | inductive invariant, by way of the refinement |
| `DispatchImplementsRouteTable` | `Spec => ImplementsRouteTable` | refinement, `table <- dynamicRoutes \cup` the vectors of `exactRoutes` |

Every invariant of a run is thereby stated by a theorem, and so are the action
properties and refinements; what remains with TLC is liveness.

Those about the loop hold for any set of threads, any set of functors, and any maximum
of the eventfd, from the assumptions `ThreadsAssumption` (the loop's thread is not among the others),
`EvfdAssumption` (the eventfd can hold a value above 0), and for EventLoopThread
`OwnerAssumption` (the owner is another thread) and `MaxOwnLoopsAssumption`. Those
about HttpDispatch assume nothing: not even that a matcher is consistent. The others
assume of their constants what makes them parameters of the code:

| Assumption | Says |
|---|---|
| `PoolAssumption`, `ThreadAssumption` | the limits on threads and on queued tasks are at least 1, and there are ids for as many threads; workers, submitters and controller are different threads |
| `TimerAssumption` | delays are integers (in the past too), intervals and bounds numbers |
| `MaxFdAssumption` | the largest descriptor is a number |
| `BufferAssumption`, `MsgLenAssumption`, `ServerAssumption` | sizes and bounds are numbers, a message has a byte, the base loop is none of the sub-loops; no size is related to another |
| `UdpAssumption` | bounds are numbers; the stack can hold an event, its handler and a callback |
| `HttpAssumption` | there is a request, and a token and a span have a byte each; the threshold of the pool may be 0 |

So connections, sub-loops, channels, threads, timers, datagrams, requests, and lengths
of buffers, messages and requests are arbitrary. The inductive invariants were checked
by TLC on the instances of the runs before they were proved.

*Why `WakeInv`.* `NoLostWakeup` speaks of a loop asleep. It is not inductive: between
the drain of the eventfd and the swap of the queue, functors lie there with no wakeup
owed, and that is harmless only because a swap comes before the next sleep. `WakeInv`
therefore says, for the places from which a sleep can come before a swap ("init",
"check", "poll") and for those after the swap ("for", "func"), that an unswapped functor is
early or a wakeup is in the eventfd or owed by a caller. A caller on the loop
thread itself owes one only if `_callingPendingFunc` is set, so the invariant also ties
that flag to the loop's place, and says when the loop thread can be inside a call.
For quits it says the same of the place "poll".

*Why `LifeInv`.* That a lent loop is alive depends on where each thread can be given
the other: nothing is published before the thread is up, and a joined thread has exited.

*The refinement.* Lemmas about sequences do the work: appending to `_pendingFuncs`
appends to the line (`ConcatAppend`); starting a functor of a non-empty batch takes the
head of the line (`ConcatHeadTail`); the swap, made when `tmp` is empty, leaves the line alone.

*The routes.* `DispatchInv` says that a route is in the container its pattern calls
for, that no vector of exact routes is empty, that ids are unique and that routes of
one pattern share no method. The last two speak of the table, not of the containers, so
they are proved of the table's steps (`TableStep`) after every step has been shown to be
one (`StepImplements`). The answers need all of it: without `NoEmptyVector` a path whose
routes are gone would be answered 405 instead of being tried against the dynamic
routes, and without unique ids `removeRoute(id)` would erase one of two routes where
the table loses both. `EraseFacts` and `EraseTable` say what erasing from a vector, and
dropping the vector when it is empty, does to the containers and to the table.

*Why `PoolInv`.* `PoolAccounting` bounds the counters; that they are right needs to be
known of every thread: one that still works is in `pool_` and not marked as exited, or
`stop` is joining it (`Kept`), so `cur_thread_count_` is the cardinality of the former,
and `busy_count_` that of the threads inside a task (`Counts`). A thread that retires
is marked and taken from the count in one critical section (`markThreadExited`), which
keeps the two equal. `QuietAfterStop` follows from what `Control` says of `stop`'s last place.

*Why the pool's `WakeInv`.* `NoMissedNotification` counts: waiting submitters against
free places, waiting workers against queued tasks. A `notify_one` moves one waiter into
the count just as its notifier leaves it, whichever waiter it is. A thread begins to wait
only between its test and its wait, and is then inside the mutex: `Blocking` says that
what it tested still holds there, so that it does not begin to wait beside a free place
(or a task) nobody accounts for. `stop` notifies without the mutex, which breaks this
(finding 2), so the property is about a pool that runs.

*Why `TimerInv`.* The two registers agree only because a timer whose `add` is still
queued is in neither (`QueuedAddsAreFresh`): an id is added once. A cancelled timer
stays out because while a batch runs every dead timer of it is in `_cancelingTimers`
(`DeadAreOut`), and what is left in `_runningTimers` behind a batch is dead
(`BatchState`). `FdArmed` gives two readings of "armed": between handlers for all
timers; during a batch, whose expiration `reset` will look at afterwards, only for those
which `reset` takes for no expiration at all.

*Why `PollersInv`.* A report reaches the channel it is about if map, kernel set and
array all lead back. `EpollLeads` ties `_index` to membership in the kernel's set;
`PollLeads` says that `_index` is a bijection from the registered channels onto the
array, which is what removing by swapping with the last entry must repair. That the
channels of one descriptor are at most two, of which at most one is open
(`Descriptors`), is what makes the fallback of `EpollPoller::removeChannel` right.

*Why `TcpInv`.* A connection goes through four stages (`Fresh`, `Live`, `Closed`,
`Removed`), and the functors in the queues of two loops decide when. `Stages` says for
each connection which functors are queued at which stage and whether the map has it;
`Ordered`, that those of set-up and tear-down are queued once and in order, so that
after one has run it is not there any more. `Sound` holds the streams: what is on the
wire, then what is readable in the output buffer, is what was taken. The proof goes
from lemmas about `Buffer` (what `AppendData`, `MakeSpace`, `ReadFd` do to the readable
bytes) to one per operation of `TcpConnection`, to lemmas about queues that gain or
lose an entry, to one per action of `TcpServer`.

*Why `UdpInv`.* Callbacks call back in, so what holds of the record between handlers
does not hold inside them: `WriteFrame` says that only `handleWrite`, and only while it
is on the stack, leaves the interest in writing on over an empty queue, and `Nested` where on the
stack it can be. `SendsAccounted` counts the sends still queued, by which a number is
never taken twice. Deletion has two ways: at once, when the last reference goes
on the loop's thread, or by a functor (`destroyInLoop`) when it goes elsewhere.
`Ownership` says that a datagram someone holds has no such functor to come, one that is
alive and held by nobody has exactly one, and a deleted one has none; `FramesHeld`, by
whom the callback that is running is kept. Together they are `DeletedIffUnused`.

*Why `HttpInv`.* `Input` says that buffer and socket together hold what the client
sent from the k-th byte on, and that the context's appended parts hold what precedes it
of the request at hand (`Begun`): it is what a piece given to a callback is appended to
without gap or overlap (`PieceContinues`, `FeedIs`). It says nothing of the parts that
are assigned; of these `SegmentationInvisible` is false (finding 4). `Once`: a request
is at one place at most between dispatch and answer; `Answers`: for as long as the
connection is up, an answered request is at none of them. `Announced`: a queued shutdown
has an answer that closes before it in the queue, or on the wire already; the order of
send and shutdown in `work_func` and the queue's being FIFO are both needed.

*Only model-checked.* All liveness properties: `QueuedRuns`, `LiveQuitJoins`,
`AcceptedRuns`, `CacheStopReturns`, `ClosedIsReclaimed`,
`ShutdownCompletes`, `CloseCompletes`, `RequestsAnswered` (fairness and ENABLED are out
of the prover's reach). What recursive definitions compute on every input would need an
induction over data that the installed provers cannot instantiate; the models use none.

## 5. Findings

1. **The destructor of EventLoopThread may never return** (`event_loop_thread_dtor`).
   `threadFunc` publishes `_loop` before it calls `loop()`, and `loop()` begins with
   `_quit = false` (`src/net/event_loop.cpp:83`). A destructor that runs in between
   has its quit overwritten and joins for ever. `tests/test_event_loop_thread.cpp:29-31`
   destroys the thread right after `startLoop()`.
2. **`ThreadPool::stop` may hang in FIXED_MOD** (`thread_pool_fixed_stop`). It stores
   `is_running_` and notifies without the mutex (`src/base/thread_pool.cpp:80`); both can
   fall between a worker's test and its wait. The comment there names an empty
   queue and no busy thread as the exit condition.
3. **A cancelled repeated timer may run again** (`timer_queue_cancel`). When a callback
   cancels a repeated timer whose own callback ran earlier in the same batch, the timer
   is neither counting nor running, the call is ignored and `reset` puts the timer back
   (`src/net/sample_timer_queue.cpp:101`). `tests/test_timer.cpp:99` promises the
   opposite and tests only the other order.
4. **Split tokens are parsed as their last piece** (`http_segments`). `onMethod`,
   `onVersion` and `onHeaderField` assign where `onUrl`, `onHeaderValue` and `onBody`
   append (`src/net/http/http_llhttp_parser.cpp:153, 271, 295`).
   `tests/http/test_llhttp.cpp:116` says that segmented parsing is supported.
5. **`forceClose` from an error callback of `handleWrite` is undefined**
   (`udp_force_close`). `include/net/async_udp_datagram.h:77` says that it closes at
   once, drops the pending datagrams and unregisters the channel. When the error
   callback that `handleWrite` makes calls it, the handler goes on to `pop_front()` on
   the queue that was cleared (`src/net/async_udp_datagram.cpp:335`).

## 6. Further observations

Seen while modelling, and not findings: we know of no doc, comment or test that these
contradict.

* Functors queued by the loop thread before `loop()` wait for an event or 10 s.
  Functors still queued when `loop()` returns are never run.
* The destructor of an EventLoop run by another thread clears that thread's
  `t_loopInThread`, so the owner of an EventLoopThread could build a second loop unnoticed.
* `ThreadPool::start` iterates `pool_` without its mutex after `is_running_` is set;
  the model assumes that `start` returns before the pool is shared.
* Two cancellations of one timer within its batch fail an assertion (the build keeps
  assertions); the model stops there.
* A connection that waits half-closed for its peer (kDisconnecting) when ~TcpServer
  runs is destroyed without its down callback (`ReclaimedWasAnnounced` excepts it). The
  close callback holds a raw pointer to the server.
* AsyncUdpDatagram: a user that releases the datagram in the callback of another
  channel of the same turn leaves a dangling pointer in `_activeChannels`.
* HttpServer: with the pool, responses to pipelined requests may be sent out of order
  (`AnswersWellFormed` demands order only without it),
  requests behind one that closes are still dispatched though their responses are dropped, and a
  servlet that throws leaves its request unanswered.
* EpollPoller: `disableAll` on a channel that is disabled already adds it to epoll
  again, with no events, so that hang-ups and errors are reported for it. `removeChannel`
  compares `it->second` before it looks whether there is an entry at all: where an old and
  a new channel have had one descriptor and the new one is removed first, removing the
  old one is undefined. The comment in `include/net/poller.h:67` already names
  the descriptor as a key that is not unique. PollPoller lacks the fallback for reused descriptors.
* HttpServletDispatch: a vector of exact routes hides dynamic routes for its path, also
  for methods only these allow (405). A route that is removed while a request is between
  `match` and the servlet's `handle` still serves it. A pattern with `:` inside a segment
  counts as exact unless another segment begins with `:`; then the former becomes a parameter too.
* LruCache: keys seen by readers pile up in `pending_promotions_` until the next writer.

## 7. What is not modelled

* LruCache: a self-contained template that no part of the servers uses.
* Of the routes, what text matches which pattern: the regular expressions, globs and
  route parameters, and the bodies of the built-in servlets.
* Failures of `epoll_ctl`, `poll` and `read`, which are logged and change no state.
* Text: custom HTTP parser, multipart parser, messages, url decoding, formatting, logging,
  data and byte-order conversions. They are sequential and their data is their content.
* Thin wrappers around system calls (Socket, InetAddress, UdpDatagram, UdpServer), time,
  util, variant. Vendored code under `pkg/` (llhttp appears as the caller of the callbacks).
* Use of destroyed objects other than where it is said above; destruction of a timer
  queue or of an acceptor with work left; memory ordering below sequential consistency
  (the flags shared between threads are atomics with the default ordering).

## 8. Plan

Done, in this order: event loop with its abstract executor and proofs; event loop
thread; thread pool; timer queue; buffer, channel, TCP connection and server; UDP
datagram; HTTP connection; the input side of TCP; the pollers and their abstract
specification; the HTTP routes with theirs, and proofs about them.

What is left to model is text (the custom parser's states, the multipart parser) and
parts with no behaviour of their own; see section 7.

Proved since: the invariants, action properties and refinements of all modules.

Theorems next: action properties that the inductive invariants already imply (a
connection goes through its stages in one direction, an answer once sent stays), the
composition of pollers and event loop, so that a report reaches a channel that exists,
and for each finding what the code would have to keep for the property to hold.

## 9. Running

    tlc -workers 2 -config MCEventLoopThread.cfg MCEventLoopThread
    tlapm EventLoopThreadProofs.tla

and likewise with the module and configuration of each run in `PROJECT.json`, and with
the other modules named `*Proofs`; `TcpServerProofs` and `HttpServerProofs` take some
minutes. Runs
marked `violation` are expected to print a counterexample.
