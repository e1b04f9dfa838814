# KenMuduo in TLA+

KenMuduo is a small reactor library in C++: one event loop per thread, a server
that accepts connections in a base loop and deals them out to a pool of loops,
and connections that buffer what the kernel does not take. This directory holds
TLA+ models of its concurrent core, the TLC configurations that check them on
small instances, and TLAPS proofs of the results that matter most.

    tlc -workers 2 -config MCEventLoop.cfg MCEventLoop
    tlapm EventLoopProofs.tla
    tlapm EventLoopThreadPoolProofs.tla
    tlapm BufferProofs.tla
    tlapm TcpConnectionProofs.tla
    tlapm TcpServerProofs.tla
    tlapm TcpServerQueueProofs.tla
    tlapm TcpServerConnProofs.tla
    tlapm TcpServerLifeProofs.tla

`PROJECT.json` maps every definition to the lines it models and lists runs,
mutants, hazards, findings and theorems.

## 1. The system

| Component | State | Operations | Talks to |
|---|---|---|---|
| `EventLoop` | `quit_`, `looping_`, `callPendingFunctor_`, `pendingFunctors_` behind `mutex_`, an eventfd, `activeChannels_` | `loop`, `quit`, `runInLoop`, `queueInLoop`, `wakeup`, `handleRead`, `doPendingFunctor` | any thread calls it; it calls the poller, the channels and the functors |
| `EventLoopThread`, `Thread` | `loop_` behind `mutex_` and `cond_`, a `std::thread`, a semaphore | `startLoop`, `threadFunc`, the destructor, `start`, `join` | creates the worker; the worker publishes its loop |
| `EventLoopThreadPool` | `loops_`, `next_`, `numThreads_`, `started_` | `setThreadNum`, `start`, `getNextLoop`, `getAllLoops`, the destructor | the base loop's thread only |
| `TcpConnection` | `state_` (atomic), `outputBuffer_`, `inputBuffer_` | `send`, `shutdown`, `sendInLoop`, `shutdownInLoop`, `handleRead/Write/Close/Error`, `connectEstablished`, `connectionDestroyed` | user threads, its io loop, its `Channel`, `TcpServer` by `closeCallback_` |
| `Channel` | `events_`, `revents_`, `index_`, `tie_` | `enable...`/`disable...`, `remove`, `handleEvent` | the loop calls it; it calls back its owner and updates the poller |
| `EPollPoller` | `channels_` by fd, the epoll set, the event list | `poll`, `updateChannel`, `removeChannel` | the kernel |
| `TcpServer` | `connections_`, `started_`, `nextConnId_` | `start`, `newConnection`, `removeConnection`, `removeConnectionInLoop`, the destructor | acceptor, pool, connections |
| `Acceptor` | listening socket and channel | `listen`, `handleRead` | calls `newConnection` |
| `Buffer` | a vector and two indices | `append`, `retrieve...`, `readFd`, `writeFd`, `makeSpace` | `TcpConnection` |
| the rest | `Socket`, `InetAddress`, `Timestamp`, `Logger`, `CurrentThread`, `DefaultPoller` | wrappers and values | |

What is hard here, and which component has to get it right:

* **Waking up a sleeping loop.** Threads append functors while the loop is
  anywhere in its turn; whether to write the eventfd is decided outside the lock
  from `callPendingFunctor_`. Correct means: no announced functor and no quit is
  slept over, each functor runs once, in order.
* **Starting and stopping threads.** A condition variable and a semaphore on the
  way up; on the way down a flag, an eventfd and a join, with the loop a local
  variable of the thread that is told to stop. Correct means: `start` returns
  loops that are ready, the destructor returns, and when it has, nothing of the
  thread is left.
* **A connection's life.** Its state is written by its io loop and by any thread
  that calls `shutdown`; its end runs through two loops and back; what keeps it
  alive is a handful of `shared_ptr`s while some functors carry raw pointers.
  Correct means: the bytes arrive in order, the user hears of the end, the map,
  the poller and the references agree, and a closed connection is freed.
* **Numbers that are used again.** Descriptors come back as soon as a socket is
  closed, and the pollers keep their channels by descriptor; names come from a
  counter, and the map keeps the connections by name. Correct means: no entry is
  erased by the wrong connection, no connection displaces another, and no entry
  points to a connection that has been freed. The code misses the last one when a
  send of another thread runs after `connectionDestroyed` and registers the
  channel again; that nothing else does it, and that the entries of the
  connections that live do not suffer from it, is what is checked and proved.
* **A server that starts and ends.** `start` may be called by any thread, accept
  may run out of descriptors, and the destructor works against loops that still
  run functors bound to the raw server. Correct means: the acceptor listens when
  the loops are there, waiting clients are accepted when descriptors come back,
  and nothing calls a server that is gone.
* **Arithmetic on sizes** in `Buffer` and in `sendInLoop`.

## 2. Modules

| Module | Models | State and actions |
|---|---|---|
| `FunctorQueue` | what `queueInLoop`/`runInLoop` promise: an abstract queue | `issued`, `queue`, `done`, `stopped`; `Submit`, `RunAtOnce`, `RunNext`, `Stop` |
| `EventLoop` | `EventLoop.cc` | one action per access to shared state: `queueInLoop` (the critical section), `wakeup` (the eventfd), the statements of `loop` and of `doPendingFunctor`. `loopAt` and `at` are program counters; `issued`, `calls` and `done` are history: what was handed to the loop, what was pushed and what has run, the last two in order |
| `EventLoopProofs` | theorems about `EventLoop` | |
| `EventLoopThreadPool` | pool, `EventLoopThread`, `Thread`, with a loop reduced to `quit_`, eventfd and lifetime | the base loop's thread (`mainAt`, `cur`) and the workers (`at[i]`) |
| `EventLoopThreadPoolProofs` | theorems about the pool | |
| `TcpConnection` | one connection with its channel, its io loop, removal through the base loop, user threads, peer | handlers and functors of the io loop; `send`/`shutdown` of other threads cut between test, set and queue; the kernel and the peer |
| `TcpConnectionProofs` | theorems about `TcpConnection` | |
| `ConnectionLife` | what the user may rely on for every connection: accepted, up, reported down, freed, in this order; the report comes again only when the peer has closed, and is left out only when the server is being destroyed | `life`, `ends` (the number of reports), `lost` (the peer has closed), `stopping`; `Accept`, `Up`, `Down`, `DownAgain`, `Lose`, `Free`, `Stop` |
| `EPollPoller` | the pollers of all loops | `index`, `channels_`, `eventListSize`; `updateChannel`, `removeChannel`, `poll` |
| `TcpServer` | server, acceptor, many connections, the loops in turns, the destructor; EXTENDS `EPollPoller` | callers of `start` (`startAt`), accept and `newConnection`, the functors `listen`, `establish`, `remove`, `destroy`, `send`, the end of a connection, `send` of other threads cut between the test of the state and the queueing (`sending`), `~TcpServer` (`mainAt`). `ends` counts the reports of a connection's end, `late` names the connections a send has registered again after their removal |
| `TcpServerProofs` | theorems about the start of `TcpServer`, and its types | |
| `TcpServerQueueProofs` | lemmas about its functors: which wait, for whom, in what order, and what each action does to them | |
| `TcpServerConnProofs` | theorems about its connections, the pollers' tables and the destructor | |
| `TcpServerLifeProofs` | the proof that it implements `ConnectionLife` | |
| `Buffer` | `Buffer.h`, `Buffer.cc`: a vector and its two indices | `size`, `buffer`, `readerIndex`, `writerIndex`; `append`, `readFd`, `readFdFails`, `retrieve` |
| `BufferProofs` | theorems about `Buffer` | |
| `MC...` | instances for TLC | |

`EventLoop` implements `FunctorQueue` (checked and proved), and `TcpServer`
implements `ConnectionLife` for each of its connections (checked and proved). The
modules above the loop rely on the first result and use less of the loop:
`TcpConnection` and `TcpServer` have first-in-first-out queues of functors and a
batch that is swapped out, `EventLoopThreadPool` has the part of the loop that
stopping depends on. `TcpConnection` and `TcpServer` look at the same code from
two sides: the first has every interleaving inside one connection and one server
that may go, the second has many connections that share descriptors, names, loops
and the end of the server. `Buffer` stands alone: `TcpConnection` sees its output
buffer as the sequence of bytes that `ContentsAreFifo` says it is.

### Abstractions, and what they leave out

* **`EventLoop`.** Functors are model values, one per call. A functor's body is a
  place (`loopAt = "functor"`) from which the owner may call the loop again; so
  are the callbacks of other channels (`"io"` in `active`). What `epoll_wait` may
  return is any subset, with the wakeup channel in it exactly when the eventfd is
  readable; the counter of the eventfd is reduced to zero or not. The order of
  the active channels is free.
* **`EventLoopThreadPool`.** The mutex is held for a test and a wait, or for a
  store and a notification, and each is one step; a wait releases the mutex in
  the same step and may end spuriously. `Thread::start` posts a semaphore, which
  is `postTid`. The unlocked reads of `loop_` in `~EventLoopThread` are one step:
  only the worker writes it afterwards, and only when it leaves its loop, which
  nothing but this destructor asks for.
* **`TcpConnection`.** Bytes are numbered in the order `sendInLoop` is given them,
  `Junk` stands for bytes from behind the caller's string, and `write` takes any
  part. Handlers that touch nothing shared run in one step; `send` and `shutdown`
  are cut where another thread can come in between, and the user's callbacks are
  places from which the io loop's thread may call `send` and `shutdown`. The
  write-complete callback is set; the high-water-mark callback is not, as
  `TcpServer` never sets it. An event with an empty result goes straight to the
  batch: nothing happens between that could see the difference. Once the process
  has been killed by SIGPIPE, or has touched a destroyed object, `loopAt` is
  `"aborted"` and nothing more is said: the safety properties are about what
  happens up to there. That is also where a connection stops that closes once its
  server's destruction has begun, although the pool is joined inside `~TcpServer`,
  where the memory of the server still exists: `TcpServer` follows that case. With `oneLoop` the base loop is the io loop and removal
  runs inside `handleClose`. The destructor of a server that has one loop runs in
  that loop's own thread, outside `loop()`, and is in `TcpServer`.
* **`EPollPoller`, `TcpServer`.** A turn of a loop is: one poll, one step for each
  event, the swap, one step for each functor. The wakeup channel takes a place in
  the event list and is ready exactly when functors wait or `quit` was called
  (what `NoLostWakeup` is about); a wakeup that has nothing left to announce is
  left out. `poll` returns as many of the ready channels as fit, any of them, and
  a full list doubles; the real list starts at 16, the instance at 1. What the
  kernel watches is what `index_` says. `started_` is zero or not. Loops of the
  pool are ready when `EventLoopThreadPool::start` returns (module
  `EventLoopThreadPool`). `accept4` returns the smallest free descriptor; which
  are free depends on the connections that are alive, so a descriptor comes back
  when the last `shared_ptr` goes. Descriptor 0 is lost for good, as in the code.
  EMFILE and EAGAIN change nothing but the turn. `setThreadNum` is taken to be
  called before `start` and `loop`, as the example does; the code
  (`TcpServer.cc:57`) does not test it. `nextConnId_` does not wrap. The server is
  destroyed by the base loop's thread after `loop()` has returned, with no thread
  inside `start`, and the base loop is not run again; a server that is destroyed
  inside its own loop's turn is in `TcpConnection` only.
* **Sends in `TcpServer`.** Of what happens while a connection is up only that is
  here which reaches the poller's tables. A `send` of another thread tests the
  state (`testState`) and queues its functor later (`queueSend`); the functor gives
  up in `kDisconnected` only, and otherwise may call `enableReading` (`runSend`),
  whatever part `write` takes. A send of the loop's own thread tests the state in
  the same turn, while the channel is registered, and changes nothing here; nor
  does the functor of `shutdown`. The functor of a send carries a raw pointer. What
  happens when it runs on a connection that is gone is undefined, and the model
  does not go there: the user is taken to keep the connection until the batch of
  the functor has gone, so that a queued send counts as a reference like the map
  and the other functors (`Alive`). Nor is a send into a loop that is gone
  followed (`HasPoller`). A channel that came back stays behind when its
  connection is freed; an event of it that was polled before is dropped
  (`handleFreed`: the lock in `Channel::handleEvent` yields nothing), which is the
  outcome in which the process survives.
* **`Buffer`.** Bytes are numbered as they are put in, so that one equation says
  which bytes wait. `append` is one step: a buffer belongs to one thread. `readFd`
  may get any number of bytes the two vectors of `readv` can hold, the end of the
  stream (zero) included. Sizes are natural numbers, since nothing comes near
  2^64, except in `readFdFails`: there -1 becomes the largest size_t, and
  `SizeModulus` says what the sums wrap to. The copy that follows is undefined in C++;
  `fate` says whether it ended the process or copied nothing, and nothing is
  claimed afterwards but `FailedReadKeepsData`. `writeFd` and `peek` change nothing;
  the constructor's parameter is ignored by the code and so by the model.

## 3. Runs

| Run | Instance | Shows |
|---|---|---|
| `event_loop` | owner, two other threads, three functors, one of them queued before `loop()` | `NoLostWakeup`, `ExactlyOnce`, refinement of `FunctorQueue`; `QueuedFunctorRuns` and `QuitStopsLoop` under fairness |
| `thread_pool` | zero to three workers, at most three connections for each loop | `LoopsAreReady`, `FairShare`, `DestroyedMeansFinished`; `StartReturns`, `QuitInTimeEndsThread` under fairness |
| `tcp_connection` | one user thread with two calls, one call from callbacks, strings of zero and two bytes, one unread message, two removals under way; one loop and two | `WireIsPrefix`, `DownBeforeFree`, `MappedIsWatched`, `OwnSendsBeforeShutdown`; `PeerCloseFrees` under fairness |
| `tcp_server` | zero loops or one besides the base loop, two callers of `start`, two clients, one removal of a connection under way, the free descriptors {0, 1} or {2, 3}, other threads that send on the connections with descriptor 1, an event list of one | `TablesAgree`, `ListensWhenReady`, `SilentOnlyWhenStopped`, `NothingCallsDestroyedServer`, refinement of `ConnectionLife`; `ClosedIsFreed` and `WaitingIsAccepted` under fairness |
| `buffer` | two bytes in front, room for two, three bytes on the stack, nine bytes in all | `ContentsAreFifo`, `SizeBounded` |
| `pool_quit_lost` | as `thread_pool` | **violated**: the destructor may wait for ever |
| `pool_wakeup_dead_loop` | as `thread_pool` | **violated**: `quit()` wakes up a loop that is gone |
| `output_not_conserved` | one call per caller | **violated**: what was written is appended again |
| `output_not_awaited` | same | **violated**: data waits without EPOLLOUT |
| `write_after_shutdown` | same | **violated**: a late send writes to a closed side |
| `destroyed_but_watched` | same | **violated**: a late send registers the channel again |
| `buffer_failed_read` | as `buffer`, size_t modulo 64 | **violated**: a failed read loses a byte that waits |

Why the bounds are enough. Two foreign threads and the owner give every pair of
racing callers of a loop; a third functor makes batches of two, with one more
queued while they run; an early functor gives the one case without a wakeup. A
pool of three has a first, a middle and a last loop, and three rounds of
`getNextLoop` wrap `next_` twice. A string of two bytes is the shortest that can
be written in part; two calls of one thread give `send` before `shutdown`, two
sends, and a shutdown by the loop in between; two removals are enough for a second
`handleClose` before the first removal has come back. `MaxRemovals` makes the io
loop wait for the base loop where it would run further ahead: the third removal
does to the state what the second does. In `tcp_server`, on {0, 1}, the first
accept loses descriptor 0, after which a single descriptor is left: the second
client meets EMFILE until the first connection is freed, and then gets the number
the first one had, also when a late send has left an entry under it. On {2, 3} two
connections are up at once, both in the base loop or both in the loop of the pool.
An event list of one is filled by the wakeup channel alone and has to grow before
anything else is reported with it. One queued send (`MaxSends`) with another one
tested behind it (`sending`) is enough for a send that was tested in time and runs
after `connectionDestroyed`; `TalkFds` keeps the sends to the connections of {0,
1}, whose number is used again, as sends multiply the states by ten. `MaxRemovals`
is 1 here, since that a second removal of the same connection is harmless to it is
shown in `tcp_connection`; with one in the queue and one in the batch the end of a
connection is still reported more than once. In `buffer` nine bytes are enough to
append into the room, into room that was retrieved, and into a vector that grows,
each also from the stack's buffer and twice over; a room smaller than the stack's
buffer and a larger one both occur, and so both forms of `readv`. `MaxShare`,
`MaxBytes` and the numbers of calls bound the environment, never a handler.

Deadlock is checked for `event_loop`, where a stopped loop still lets its other
threads queue and quit. In the others the system really stops: a destroyed
pool, a destroyed connection or server, a buffer after its last byte or a failed read.

### Fairness

* `EventLoop`: the owner goes on by itself, except that in `epoll_wait` it need
  not return unless the eventfd is readable, so no property leans on the ten
  seconds of the poll timeout or on other channels. A thread that has decided to
  write the eventfd does so. Nobody is obliged to call anything.
* `EventLoopThreadPool`: the base loop's thread goes on once it is in a call, and
  so does each worker, with the same exception in `epoll_wait`.
* `TcpConnection`: handlers, functors and callbacks run to their end, the base
  loop runs its removals, a user thread inside a call goes on. The user need not
  call or let go, the peer need not send or close.
* `TcpServer`: each loop goes on with its turn, a thread inside `start` comes out
  of it, and a thread inside `send` queues its functor. `ClosedIsFreed` and
  `WaitingIsAccepted` are about a base loop that has been entered and not been
  asked to quit (`Serving`), as nothing obliges the user to do either. No client
  is obliged to connect or to close, and the order of the ready channels is the
  kernel's: that a channel that does not fit is reported in the end comes from the
  growth of the list alone.

## 4. What is proved

`EventLoopProofs`, for any set of threads and functors, from the two assumptions
of `EventLoop` (`LoopThread \notin Threads`, `EarlyFunctors \subseteq Functors`).

* `TypeCorrect`: `Spec => []TypeOK`, by `InitTypeOK` and `NextTypeOK`. Besides the
  types `TypeOK` ties `callPendingFunctor_`, the batch and the active channels to
  the place in `loop()`, which makes it inductive.
* `WakeupNotLost`: `Spec => []NoLostWakeup`. The property speaks of the moment
  before `epoll_wait` only and is not inductive: a functor may have been queued,
  and its wakeup consumed, turns before. `Announced` says at which places of the
  loop waiting work must have its wakeup still ahead: everywhere but between
  the handling of the eventfd and the swap. There the work will be in the batch.
  While the batch runs, `callPendingFunctor_` is up and the owner's own calls
  wake up too. `WakeInv == TypeOK /\ Announced` is inductive.
* `RunsExactlyOnce`: `Spec => []ExactlyOnce`. `History` (run, in the batch, queued)
  equals `calls`, the functors in the order of the pushes: a push appends the same
  functor to both, the swap and the start of a functor leave `History` as it is
  (`SwapKeepsOrder`, `CallTakesHead`). That no functor is twice in it needs
  `OnceInv`: what was pushed has been issued, and each push takes a fresh one.
* `LoopImplementsQueue`: `Spec => ImplementsQueue`; each action is a step of the
  queue or a stutter under `queue <- functors \o pending`.

For any number of threads and connections, from `MaxThreads \in Nat`
(`EventLoopThreadPoolProofs`):

* `PoolLoopsAreReady`, `PoolSharesFairly`, `PoolDestroysFinished` and
  `PoolTypeCorrect`, from one inductive invariant `PoolInv == TypeOK /\ MainInv /\
  WorkerInv /\ ShareInv`. `MainInv` ties `loops_` to the place of the base loop's
  thread: which worker it is starting, that those beyond do not exist, that only
  the one behind the semaphore is just created. `WorkerInv` says of each worker
  what that place allows: it serves its loop until the destructor asks it to quit,
  and it has finished when the destructor has passed it; without the first half the
  unlocked test of `loop_` could skip a join. `ShareInv` makes the round robin
  inductive: the loops before `next_` are one connection ahead of the rest.

For any sizes and any number of bytes, from the two assumptions of `Buffer`
(`BufferProofs`):

* `BufferTypeCorrect`, `BufferIsFifo` and `BufferSizeBounded`, from `BufferInv`: the
  three properties together with `given - taken <= peak`. They need each other: the
  order of the indices decides that a move leaves room, and the numbers of the bytes
  give the indices. `AppendAtWorks` is the core, for a vector and a writer's index that
  need not be the buffer's: `readFd` appends from its own stack after it has moved the
  index, and cites the lemma for that vector. A failing read keeps `BufferInv`
  because everything in it is said of `fate = "fine"`, the type of the indices apart.

For any set of user threads, any numbers of calls and any lengths, from
`IoLoop \notin Users` and bounds that are natural numbers (`TcpConnectionProofs`):

* `ConnectionTypeCorrect`, `ConnectionMappedIsWatched` and
  `ConnectionDownBeforeFree`, from `ConnInv == Flags /\ Types /\ Places /\ Watching
  /\ Fresh /\ Mapped`. `MappedIsWatched` is not inductive: one has to know that
  `connectionDestroyed` is only queued by what took the connection out of the map
  (`Mapped`), that it therefore meets a server without the connection (`Places`),
  that nobody else empties the interest set (`Watching`), and that
  `connectEstablished` is the first functor of all and runs once (`Fresh`). The
  same facts say that the connection callback came before the removal. The
  lemmas `KindStaysAway`, `FreshStays` and `MappedStays` treat the actions that
  only append to a queue or start a functor of it.
* `WireIsPrefixTheorem`, from `WireInv`: the property, and that an empty
  `outputBuffer_` means that everything is on the wire. A write that takes n > 0
  bytes leaves n bytes, so it is the last one; `Watching` excludes `handleWrite`,
  for nothing ever asks for EPOLLOUT.
* `SendsPrecedeShutdown`, from `OrderInv`: once a thread's `shutdown` has set the
  state the thread can be in no `send`, and in queue and batch its sends come
  before its shutdown. The state that refuses the send is set before the functor
  is queued; that it is never reset rests on `Fresh`.

For any number of threads that call `start`, of loops, connections and
descriptors, from the assumptions of `TcpServer` and `EPollPoller`
(`TcpServerProofs`):

* `ServerTypeCorrect` and `ServerListensWhenReady`, from `ServerInv == Types /\
  Starting`. `Starting` says that at most one thread gets past the test of
  `started_`, that there are no loops and no listening before it has started the
  pool, and that all loops run from then on (`PoolReady`), whether the acceptor
  is registered, its functor waits, or the thread has not got there yet. The types
  are needed because a functor of a connection must not reach the acceptor's
  channel.

On top of it, from the same assumptions, the rest of `TcpServer`
(`TcpServerQueueProofs`, `TcpServerConnProofs`, `TcpServerLifeProofs`):

* `ServerTablesAgree`, `ServerSilentOnlyWhenStopped` and
  `ServerIsNotCalledAfterwards`, from one inductive invariant `Inv == Types /\
  Starting /\ Functors /\ ConnInv /\ Closing /\ Destructor`. None of the three is
  inductive: `removeChannel` erases an entry by number, which is right only if the
  number is the connection's own, and that only if the connection is still
  referred to. So `Kept` says that a connection whose channel is registered, or
  will be, is kept by what is still to act on it: the map, a removal in the base
  loop's queue or a `connectionDestroyed` in its own; only a channel in `late`,
  which a send has registered after all of that, is kept by nothing. With it
  follow the one owner of each descriptor (`OwnSockets`: `accept4` returns only
  what no live connection has) and, the other way round, the tables (`Tables`),
  where an entry that a late send has left is overwritten when the next owner of
  the number registers, and its own `removeChannel` can no longer come then.
  `Stages` ties a connection's state, what the user was told and its registration
  to the functors that wait; `Heard` says who will still tell the user;
  `Activated` that what `poll` returned is registered until it is handled, as
  nothing removes a channel between the two; `Closing` that its peer has closed,
  without which `handleClose` could report an end again that nobody has caused.
  `Destructor` ties the place of `~TcpServer` to the loops: those of the pool have
  stopped up to `cur`, and the base loop's own connections have been destroyed
  before the map is empty.
* `Functors` says which queues a functor may be in (`InPlace`), that nothing of a
  connection is before its `connectEstablished` (`EstablishFirst`), and that a
  loop has a batch only while it runs it (`Batches`). Without the order a
  `connectionDestroyed` could overtake `connectEstablished` and leave a channel
  that nobody removes. The proofs above see the queues only as three sets,
  `ToEstablish`, `ToRemove` and `ToDestroy` (a send is in none of them, and only a
  reference), and one lemma for each action says what becomes of them
  (`PollQueues`, `AcceptQueues`, `CloseQueues`, `RunRemovalQueues`, `EndQueues`,
  `DestructorQueues` and others): the swap in `doPendingFunctor` and the end of a
  batch change nothing, a functor that starts leaves its set, and a loop that
  stops takes with it its own connections' functors and no others.
* `ServerImplementsLife`: `Spec => ImplementsLife`. `NextConns` proves along with
  the invariant what each action does to the connections seen from the user
  (`LifeStep`): one comes up, the end of one is reported, again only if its peer
  has closed, one is accepted, or references go and nothing is said. The last is
  `Free` of the connections that were referred to and are not any more: while the
  server is not being destroyed all of them are down (`HeardWhileServing`),
  several may go with one batch, and none is a stutter. `destroyServer` is `Stop`
  (`ServerStops`), a peer that closes is `Lose` (`PeerLoses`), and no other step
  is either (`OthersLeavePeers`). The mapping keeps the number of reports, so a
  second report is a step of its own (`DownAgain`) and no stutter.

`Inv` and `LifeStep` were also checked with TLC: on the 262,712 states of
`tcp_server`, and, with its safety properties and the refinement, on the 1,346,191
of an instance that is too long for a run: two loops besides the base loop, the
free descriptors {1, 2}, sends on the connections with descriptor 1 while the
other one is up, one caller of `start`, and an event list of eight, which never
fills.

Only model-checked are the liveness properties: `QueuedFunctorRuns`,
`QuitStopsLoop`, `StartReturns`, `QuitInTimeEndsThread`, `PeerCloseFrees`,
`ClosedIsFreed` and `WaitingIsAccepted` rest on fairness, and so on ENABLED, which
is outside the prover. Every invariant and every refinement that a run checks is
proved. The violated properties of section 5 are shown by TLC alone.

## 5. Findings

Seven properties that a comment of the code states are violated; `PROJECT.json`
quotes the lines. The two of the pool concern its destruction: a quit that is
erased by the start of `loop()`, and a wakeup after the loop has gone. Four
concern `TcpConnection`: `remaining = len = nwrote`, `enableReading` where
`enableWriting` is meant, the test for `kDisconnected` where `shutdown` sets
`kDisconnecting`, and the channel that comes back after it has been removed, whose
entry `TcpServer` then follows through the end of the connection. `WireIsPrefix`
holds none the less: stray bytes stay in `outputBuffer_` for ever, since nothing
asks for EPOLLOUT. Its mutant repairs `enableReading` alone, and then they go out.
The seventh is in `Buffer::readFd`, where an error of `readv` is stored in a
`size_t` and taken for data; the caller does get -1 back, but `saveErrno` is never
set and the indices have moved.

## 6. Plan

1. Done: `FunctorQueue`, `EventLoop`, `EventLoopThreadPool`, `Buffer`,
   `TcpConnection`, `EPollPoller`, `TcpServer` with `ConnectionLife`, each with a run;
   proofs of all their invariants and of both refinements.
2. Next: that `TcpConnection`, with its finer steps inside one connection,
   implements `ConnectionLife` too, repeated reports included, so that both views of a
   connection meet in one
   abstract specification; and a longer instance of `tcp_server` in which a client
   reconnects while the removal of its predecessor waits in a stopped loop.

## 7. Not modelled

`Logger`, `Timestamp`, `InetAddress`, `CurrentThread` and `DefaultPoller` are
values, wrappers or a choice at construction, and so are the options that `Socket`
sets; its `accept`, `shutdownWrite` and destructor are in the models. A failing
`epoll_ctl`, `epoll_create`, `eventfd`, `bind` or `listen` ends the process or
leaves a line in the log. The example is a user of the library; the callers of
`TcpConnection` include what it does. Unsynchronised accesses that C++ leaves
undefined (`loop_` read without its mutex) are taken as sequentially consistent;
the bytes of a string that is gone when its functor runs (`TcpConnection.cc:143`)
are not followed. A process that touches a destroyed object or is killed by
SIGPIPE is not followed any further.

Some of what the code does is described and not forbidden: repeated
connection callbacks after the peer has closed (`TcpConnection.cc:109`), a
connection that ends without one after the user's own `shutdown`
(`TcpConnection.cc:226`), functors left in the queue of a loop that has stopped
(`EventLoop.cc:78`), and functors of the owner that wake nobody up
(`EventLoop.cc:143`). The properties name these cases as their exceptions and say
that there are no others; `PROJECT.json` notes it at each hazard. A worker that
leaves its loop by itself (`EventLoopThread.cc:16`) and a user who runs the base
loop again after the server has gone (`TcpServer.cc:102`) are not in the models.
