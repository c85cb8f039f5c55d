# A verification of network_muduo

TLA+ models of the network library in `src/`: a reactor (one `EventLoop` per
thread, epoll underneath), TCP connections on top of it, a server that deals
connections out to I/O threads, and a client. Line numbers below refer to `src/`.

## 1. The system

### Components

| component | state | operations | interacts through |
|---|---|---|---|
| EventLoop (`EventLoop.{h,cc}`) | `looping_`, `quit_`, `pendingFunctors_` under `mutex_`, `callingPendingFunctions_`, `wakeupFd_`, `activeChannels_` | `loop`, `quit`, `runInLoop`, `queueInLoop`, `wakeup`, `handleRead`, `doPendingFunctors` | other threads call `queueInLoop`/`quit`; the eventfd wakes the owner |
| Channel (`Channel.{h,cc}`) | `events_`, `revents_`, `index_`, `tie_`, `tied_` | enable/disable, `remove`, `handleEvent` | calls its owner's callbacks and the poller |
| Poller, EPollPoller | `channels_`, `events_` list; the kernel's interest list | `poll`, `updateChannel`, `removeChannel`, `update` | raw `Channel*` in the kernel and in the active list |
| TcpConnection | `state_` (atomic), channel, socket, two Buffers | `send`, `shutdown`, `forceClose`, `*InLoop`, `connectEstablished`, `connectDestroyed`, `handle*` | users' threads, the I/O loop, the owner's close callback |
| TcpServer | `connections_`, `nextConnId_`, `started_` | `start`, `newConnection`, `removeConnection`, `removeConnectionInLoop`, destructor | base loop and I/O loops |
| Buffer | `buffer_`, `readerIndex_`, `writerIndex_` | `readFd`, `writeFd`, `append`, `retrieve*` | used by TcpConnection and by message callbacks |
| Acceptor | `listenning_`, channel | `listen`, `handleRead` | TcpServer::newConnection |
| Connector, TcpClient | `state_`, `connect_`, `channel_`; `connection_` under `mutex_`, `connect_` | `start`, `stop`, `restart`, `handleWrite`, `handleError`; `connect`, `disconnect`, `stop`, `newConnection`, `removeConnection` | loop tasks, user threads |
| EventLoopThread, EventLoopThreadPool, Thread, CurrentThread | `loop_` under `mutex_`/`cond_`, `exiting_`; `loops_`, `next_`; `tid_`, `joined_` | `startLoop`, `threadFunc`, destructor; `start`, `getNextLoop`; `start`, `join` | a thread publishes its stack-allocated loop |
| Logger | `logLevel_` | `setLogLevel`, `log` | every thread |
| Socket, InetAddress, Timestamp, Callbacks, DefaultPoller, examples, build files | none that changes | wrappers | |

### Hard behaviours, and what makes a component correct

- **EventLoop.** A thread extends the queue, releases the lock, and only then
  decides whether to write the eventfd, while the owner may be polling,
  swapping, calling functors or leaving. Correct: no wake-up or quit is lost,
  tasks run in order and once, a batch ends, a quit ends the loop.
- **Channel/EPollPoller.** `index_` is the only memory of what the kernel holds.
  Correct: it always agrees with the map and the kernel, no `epoll_ctl` fails
  (add/mod failures end the process), and no pointer to a destroyed channel is
  handed out.
- **TcpConnection/TcpServer.** Three kinds of threads act on one connection;
  `state_` is tested and set in separate steps; destruction travels from the I/O
  loop to the base loop and back. Correct: the callback says up once, then down
  once; the connection leaves the map and the poller before it dies; a dead peer
  or a `forceClose` always leads to destruction.
- **Buffer and the data path.** Partial reads, retrieves and writes. Correct: the
  indices keep their order, bytes are neither lost, repeated nor reordered, and
  the writing side is shut down after the last byte.
- **EventLoopThread and its pool.** A pointer to a loop on another thread's stack
  is published, used, and withdrawn; the loop is quit from outside. Correct: the
  loops given out exist, `start()` returns, a thread ends before what it uses
  is destroyed, destruction ends.
- **~TcpServer.** The map is emptied in the base thread while I/O loops close
  connections, and the loops are then quit with tasks in their queues. Correct: no
  connection is left that takes itself for connected, no channel dangles.
- **Connector/TcpClient.** Two channels in turn share a socket, the first one deleted
  by a queued task; stop, disconnect, reconnect and destruction race events and
  each other. Correct: one attempt or connection at a time, a stop is not lost,
  nothing dangles, what is closed is destroyed.

`PROJECT.json` lists the hazards line by line with the properties that cover them.

## 2. Modules

| module | models | role |
|---|---|---|
| `TaskQueue` | what an EventLoop promises: queued tasks start one at a time, in order | abstract specification |
| `EventLoop` | one loop, its owner and any number of callers | detailed specification; refines `TaskQueue` |
| `EventLoop_proofs` | | theorems about `EventLoop` |
| `EPollPoller` | Channel and EPollPoller as operators on a poller record, with the kernel's interest list | used by the two modules below |
| `ChannelLifecycle` | the channels of one loop, from construction to destruction | state machine over `EPollPoller` |
| `EPollPoller_proofs` | | lemmas about the operators of `EPollPoller`, used by all proofs with a poller |
| `ChannelLifecycle_proofs` | | theorems about `ChannelLifecycle` |
| `ServerSession` | what a TcpServer promises of each connection: up, down, each once, then destroyed, then silent | abstract specification |
| `ConnectionLifecycle` | TcpServer with its destructor, its TcpConnections, base loop, I/O loop, users' threads, peers | composes `EPollPoller` with two task queues; refines `ServerSession` |
| `ConnectionSteps_proofs` | | types of `ConnectionLifecycle`; what each of its steps does to one connection |
| `ConnectionLifecycle_proofs` | | theorems about `ConnectionLifecycle`, with its refinement of `ServerSession` |
| `ClientSession` | what a TcpClient promises: one attempt or connection at a time, each for a reason | abstract specification |
| `Client` | TcpClient, Connector and their connections on one loop, users' threads, the server | composes `EPollPoller` with a task queue; refines `ClientSession` |
| `Client_proofs` | | theorems about `Client`, with its refinement of `ClientSession` |
| `Buffer` | Buffer as operators on a record | used by the three modules below |
| `InputPath` | `handleRead` and the message callback over `inputBuffer_` | one half of `DataPath` |
| `TcpSend` | `send`, `shutdown`, `handleWrite` over `outputBuffer_` and the socket | state machine over `Buffer`; the other half of `DataPath` |
| `DataPath` | an echo server's connection: reads, onMessage, sends of its own and of another thread | composes `InputPath`, `TcpSend` and a task queue |
| `DataPath_proofs` | | lemmas about the operators of `Buffer`, theorems about `DataPath` |
| `LoopThreads` | EventLoopThreadPool, its EventLoopThreads and Threads | state machine |
| `LoopThreads_proofs` | | theorems about `LoopThreads` |
| `MC*` | instances with symmetry or concrete functions | model checking |

Operators whose comment begins with *Fault:* are mistakes one could make in the
code (a dropped test, a missing reset). They are used by no specification: put in
the place of the definition that follows them, each breaks the property it is
paired with in `PROJECT.json`.

### EventLoop

`pc` is the owner's place in `loop()`. A call by another thread is two steps, with
`call[t]` between them: `queueInLoop`/`quit` (the locked part, or the store to
`quit_`) and `queueInLoopWakes`/`quitWakes`. `doPendingFunctors` is four actions,
split where other threads can get in: raising `callingPendingFunctions_`, the
swap, each functor, lowering it. Functors and I/O callbacks run user code, which
may call the loop in turn; `runInLoop` by the owner nests in `running`. The
eventfd is a counter with a limit (`EventfdMax`, 2^64-2 in the kernel).
`pollReturns` reports any non-empty set of ready channels, because the event
list may be shorter than the set of ready ones (EPollPoller.cc:55-59). A signal
and the poll timeout are `pollTimesOut`. What the handlers of I/O channels do
besides calling the loop is the matter of the other modules.

### EPollPoller and ChannelLifecycle

A poller is a record: `index`, `events` (fields of all channels), `channels_`, and
the kernel's side (`open`, `ptr`, `mask`, and `failed`, the kinds of calls that
failed). `update` succeeds or fails as epoll_ctl(2) says. Closing a descriptor takes
it out of the interest list. `ChannelLifecycle` lets owners do anything the code's
owners do: two channels may share a descriptor in turn, as a Connector's and then
a TcpConnection's do. The code relies on its owners' discipline, and the guards
state it: use a channel only while it is alive and alone on an open descriptor
(`MayUse`), close a descriptor when no channel for it is in the poller, destroy a
channel that was removed, and not during a dispatch (`destroy`).
`ConnectionLifecycle` does not assume that discipline; it checks its result.

### ConnectionLifecycle

The loops appear as `TaskQueue` (which EventLoop is proved to refine): `baseTasks`
and `ioTasks`. An I/O callback or task is one step, as other threads see only the
atomic `state_`, written once in it, and the tasks it queues. A remote call is
three steps (`callChecks`, `callSets`, `callQueues`), since `state_` is tested, then
set, then the task queued (TcpConnection.cc:90-93, 99-102). User callbacks are
`callback`: they call nothing or one of `usage.local`. Ownership is explicit: a
connection is `Destroyed` when the map, the users (`held`) and the tasks that bind
a shared_ptr have let it go; `Owns` excludes the tasks that bind a bare `this`. With the
connection goes its descriptor (~Socket): the poller such a task works on has it closed
(`Kernel`), the `epoll_ctl` of a late `enableWriteing` fails with EBADF, and the fatal log
ends the process (`exited`). `handleClose` is one step here, and its down callback calls
nothing: where a thread's `setState(kDisconnecting)` can come between `setState` and the
callback is the matter of `Client`, which cuts it there; in the usages of the run
`ConnectionClose` and of the theorems about callbacks the down callback finds
kDisconnected, or may call only `send` and `shutdown`, which ask for kConnected.
The constant `Usages` lists ways to use the library, and each behaviour has one of
them, `usage`: `sameLoop` is `setThreadNum(0)`, where `runInLoop` runs in place and
`baseTasks` stays empty; `remote` and `local` are what users' threads and the
callbacks call; `stops` tells whether the server is destroyed. `newConnection`
includes Acceptor's read event.

The I/O loop has a `stage`: it waits in epoll_wait, dispatches `active`, or runs the
`batch` of tasks that it swapped. The batch matters when the server is destroyed:
`stopServer` (the base loop has ended, as at the end of echoServer's `main`),
`stopConnection` for each round of the destructor, `quitLoops` for the pool's, and
`loopEnds`, when the I/O loop sees `quit_` and leaves without the tasks that came
after its swap. Users' threads have ended their calls by then: nothing in the code
protects a call that goes on. What the pool's destructor does step by step is the
matter of `LoopThreads`.

### Client

One loop, `tasks`, its poller `p`, and attempts 1, 2, ... with a descriptor each,
which first belongs to the channel `Dial(k)` of the Connector and then to `Conn(k)` of
the TcpConnection. `connector` is the Connector's `connect_`, `state_` and the attempt
that `channel_` is for: `connecting` overwrites it, `resetChannel` deletes whatever it
is then. `removeAndResetChannel`, `startInLoop` and `connect` are operators that their
callers (`handleWrite`, `stopInLoop`, `restart`, `runStartInLoop`) compose. A call by
a user is cut between `TcpClient::connect_`, `Connector::connect_` and the queue
(`setsConnect`, `setsConnectorConnect`, `queues`); `disconnect` holds `mutex_` from
`disconnectLocks` until the task of `shutdown` is queued, and `newConnection` and
`removeConnection` wait for it (`mutexFree`). `at` is the callback the loop is in the
middle of: `newConnection` and `handleClose` are cut where they take the mutex, where
`connect_` has been read, and between the assignment to `state_` and the connection
callback (`connectEstablished` and `saysUp`, `handleClose` and `saysDown`), as a thread's
shutdown may set kDisconnecting there. `usage` is what users' threads (`remote`) and the
connection callbacks (`local`) may call.

What epoll_wait reports of a socket is fixed when it returns: `erring` are the attempts
reported with EPOLLERR. For those `handleError` ends the process: its log statement formats
an enumerator with %s (Connector.cc:165), which a build of the library confirms. A socket
that fails after it was reported writable reaches `handleWrite`, whose getsockopt finds the
error, only logs it and leaves kConnecting behind (`handleWriteFails`, Connector.cc:142-145);
once `resetChannel` has emptied `channel_`, a `stopInLoop` follows the null pointer. `stopInLoop` leaks the
descriptor, as the code does; the model never uses a descriptor twice.

`destroyClient` is the destructor with a connection. Its guard is what the caller has
to see to: in the loop's thread, no call under way, no task of the Connector
queued. Without a connection the destructor is undefined behaviour (section 6).

### Buffer, InputPath, TcpSend, DataPath

Bytes are numbers in the order of the stream, so that loss, repetition and order
can be told. `Copied` marks a copy past the vector's end (`overrun`) and does not
model what it hits: `DataPath` stops there. Sizes are constants. The code has a prepended
part of 8, a vector of 1024 and an `extrabuf` of 65536 bytes; `DataPath`'s runs have 1, 2 and
3, and reads of up to 5 bytes: below, at and above what the vector has room for, up to
what `readv` can return at all. So the reads through `extrabuf`, the growth of the vector
and, after a partial retrieve, the copies past its end all happen.

`DataPath` puts both halves into one loop with a sender's thread. `handleRead` takes
what `InputPath` allows, which is what `readv` can return; `onMessage` retrieves any part of
it and sends that in place, as example/echoServer.cc does with all of it. The sender's
`send` queues a task with a pointer into its string, its `shutdown` a task behind it.
`strings` are those alive: `dropsString` lets one go, before its task has run if
`usage.keeps` is false, and the task then sends bytes that nobody gave it. `usage` also
tells whether the sender sends, and whether it or the loop's thread shuts down. A write on
a connection whose writing side is shut down ends the process (`killed`).

### LoopThreads

`pc` is the place of the base thread (`start`, `getNextLoop`, destruction), `cur` the
EventLoopThread it is at, `at[i]` the place of thread i between being spawned and
having left `threadFunc`. What is done under an EventLoopThread's `mutex_` is one
step: nobody looks at `loop_` under the mutex in between. The destructor, which
does not take it, is three steps: the test of `loop_`, `quit_ = true`, the wake-up.
That a loop with `quit_` set does not sleep on is checked in `EventLoop`
(`QuitEndsRunningLoop`), so `loopReturns` asks for `quit_` only. The threads in `QuitByUsers` are those whose loops a user's callback
quits itself: the destructor then races with `clearLoop`. `MaxGiven` bounds the calls
of `getNextLoop`.

## 3. Runs

| run | bounds | shows |
|---|---|---|
| `EventLoop` | 2 other threads, 2 functors, 1 I/O channel, queue <= 2, nesting <= 2, counter <= 2 | no lost wake-up or quit, the eventfd is not read empty; refinement of `TaskQueue`; queued callbacks are called, batches end, a running loop's quit ends it |
| `ChannelLifecycle` | 3 channels on 2 descriptors | the poller and the kernel agree; nothing dangles |
| `ConnectionClose` | 2 connections, 1 user thread; one loop, with remote `send` and callbacks that do everything, or two loops, with remote `send`, or with remote `shutdown` and callbacks that shut down and send; the server is destroyed in all | refinement of `ServerSession`: up once, down once, then destroyed; usable connections are in the map; the channel is gone before the connection, and a removed one is not registered again; a server with one loop leaves no connection connected |
| `ConnectionLive` | 1 connection, 2 user threads, `shutdown` and `forceClose` in threads and callbacks, one task at a time | a gone peer leads to destruction; `forceClose` closes |
| `DataPath` | a stream of 6, reads <= 5, a vector of 2, an extrabuf of 3, any part retrieved, 2 messages of the sender with strings kept or dropped, 3 bytes of room in the socket; the sender shuts down, or the loop's thread when there is no sender | until a read overruns the vector, indices are in order and bytes are lost by its growth only; the echo is complete while the socket takes everything; no write after shutdown |
| `Client` | 2 attempts, 1 connect, 2 user threads that connect, disconnect and stop, or that connect and stop with callbacks that force a close; one task at a time | refinement of `ClientSession`; nothing dangles or outlives its owner; only a failed attempt ends the process; stops and disconnects take effect; what is closed is destroyed |
| `LoopThreads` | 3 threads, each loop given out twice, users quit the third | loops given out exist; `start()` returns; a thread ends before what it uses dies; loops are dealt out evenly; a running loop that is quit is joined |

Why the bounds are enough: a lost wake-up needs one owner and one caller between
two of their steps, and two callers cover interference between calls; a queue of
2 holds a task before and one after the swap. An epoll entry is disturbed only
by channels of the same descriptor, and there are two of those. Every race on a
connection is between one remote call, the loop and the peer; a second user
thread adds races between calls. A client needs two attempts to reconnect, so that
the old connection's tasks meet the new attempt. The data path needs a read
larger than the vector and one after a partial retrieve, hence a stream of 6, and a socket
with room for less than the echo and the messages together. `MaxTasks` stops users from queueing, never the
loops. The theorems of section 5 need none of these bounds.

Deadlock is not checked where the system may stop: a loop that has exited, all
connections gone, a stream at its end, the process ended, the pool destroyed. It is checked in `ChannelLifecycle`.

Runs that find a disagreement between the code and what its comments say:

| run | what the comment says | what the code does |
|---|---|---|
| `LoopThreadsHang` | EventLoopThread.cc:15, the destructor ends the loop | `loop()` resets a `quit_` that came before it (EventLoop.cc:67), `join()` waits for ever |
| `ConnectionStaleTask` | TcpConnection.h:15-18, lifetime by shared_ptr | tasks with a bare `this` (TcpConnection.cc:81, 93) |
| `ServerStop` | TcpServer.cc:49, the destructor destroys the connections | connectDestroyed is queued to a loop that quits without running it (EventLoop.cc:70) |
| `SendRest` | TcpConnection.cc:263-265, the rest is kept and sent | it is lost: append does not move writerIndex_ (Buffer.h:87-91) |
| `ReadOverrun` | Buffer.h:15, readerIndex <= writerIndex <= size | after a partial retrieve a read runs past the vector's end (Buffer.h:35) |

The same models show more, with other constants or properties than the runs above:

- `EventLoop` with `QueueBeforeLoop = TRUE` violates `NoLostWakeup`: a callback the owner
  queues before `loop()` wakes nobody (EventLoop.cc:128; EventLoop.h:34 says it does).
- `NoneLeftAtExit` is violated: a callback queued after the last swap is never
  executed (EventLoop.cc:70; EventLoop.h:34 says it is).
- `DownIsDisconnected` is violated with `Usages <- Shutting`: `shutdown` tests `state_` before
  the loop closes the connection and sets it afterwards, so that one that was reported
  down is kDisconnecting (TcpConnection.cc:90-92; TcpConnection.h:36-37).
- `RemovedStaysOut` is violated with `Usages <- SendingAndShutting`: after that race the
  queued `sendInLoop` finds kDisconnecting, passes its test and registers a channel that
  `connectDestroyed` has removed (TcpConnection.cc:229).
- In `DataPath`, `StreamIsWhole` is violated: what goes through extrabuf is lost
  (Buffer.cc:45, Buffer.h:87-91). How much that is, is part of `StreamIsKept`.
- `SendsWhatWasGiven` is violated where the sender does not keep its strings: the task of
  `send` reads a string that is gone (TcpConnection.cc:81).
- In `TcpSend`, `ShutWhenAllSent` is violated: `isWriteing` is an equality test
  (Channel.h:54), so that shutdownInLoop closes the writing side over a waiting rest
  (TcpConnection.cc:286).
- `QuitUsesLiveLoop` is violated: between the two steps of `quit()` the loop may see
  `quit_` and be destroyed with its thread's stack (EventLoopThread.cc:21).
- `LoopThreads` with the set difference `\ QuitByUsers` left out of `LoopsInUseAreAlive`
  and `ThreadEndsFirst` violates both: a loop that a user quits may go between the
  destructor's test of `loop_` and its use, and a thread whose `loop_` is null already
  is detached while it still holds `mutex_` (EventLoopThread.cc:19, 63-65).
- `NoWriteAfterShutdown` is violated with `Usages <- TwoCallers`: a queued send runs
  behind a shutdown by the loop's thread, as `sendInLoop` refuses kDisconnected only
  (TcpConnection.cc:229), and SIGPIPE ends the process.
- `Client` with `MaxConnects = 2` violates `OneAtATime`, as nothing in the code keeps a
  second `connect` from starting an attempt while another goes on. From there it
  violates `NoDanglingChannel` (the second attempt overwrites `channel_`, whose channel
  is in the poller, or a queued `resetChannel` deletes the new one),
  `PollerIsConsistent`, `NoTaskOfDestroyed` and `OnlyFailedAttemptsCrash` (`stopInLoop`
  finds `channel_` empty after such a `resetChannel`). `TypeOK` and
  `StoppedAttemptEnds` still hold, and are proved.
- `Client` with usages in which a thread disconnects and a callback calls `forceClose`
  violates `UpThenDownOnce`: disconnect's `shutdown` has passed its test
  (TcpConnection.cc:90), `handleClose` sets kDisconnected (200), `shutdown` sets
  kDisconnecting (92), and the down callback (204) calls `forceClose`, which passes line
  99. Its task closes the connection again.

Some usages of the library break `OneLifeEach` and `NoDanglingChannel`; the runs and
the theorems leave them out, by name (`ClosesOnce`, `SendsOrSets` in section 5).

- A late `forceClose` by a user's thread sets kDisconnecting after the connection went
  down, and its task runs `handleClose` a second time.
- So does a late `shutdown` of a user's thread, with a local `forceClose` that was
  queued before.
- With two loops and a server that is destroyed, a local `forceClose` is enough:
  `~TcpServer` queues connectDestroyed, the forceClose queues forceCloseInLoop behind
  it. The first leaves kDisconnecting as it is (TcpConnection.cc:126); the second
  disables a channel that is no longer in the poller, which adds it again
  (EPollPoller.cc:83-97), and the hang-up that is then reported is handled as a
  second close.
- With a send and a shutdown of users' threads the violation of `RemovedStaysOut` above goes
  on: while somebody holds the connection its channel dangles later, and
  `NoDanglingChannel` fails; when it is destroyed already the process ends. Either call
  alone does no harm.

And `~TcpServer` destroys a connection that is kDisconnecting without a word: after a
`shutdown` or `forceClose`, connectDestroyed finds it not kConnected and calls no
callback (TcpConnection.cc:126), with one loop, too. TLC refutes
`server = "gone" /\ usage.sameLoop => \A c \in made : downs[c] = 1` with eight states.
`ServerSession` therefore lets a connection go without having said down, but only
with the server.

## 4. Fairness

- `EventLoop`: a runnable thread runs (WF of the owner's steps and of the second
  half of a call); epoll_wait returns when the eventfd is readable. User code is
  assumed to return; this is SF, because calls made meanwhile disable the return.
  Nothing is assumed of I/O, of the poll timeout or of new calls: a lost wake-up
  is not excused by the 10 s timeout.
- `ConnectionLifecycle`: the loop runs on (WF of its steps: it never stops between
  two of them); epoll is level-triggered, so a channel that stays ready is reported
  (SF of the poll that reports it); the bytes before a FIN are finite (SF of the
  closing read, as reads that stay may come before it); the base loop runs its
  tasks (WF); a thread ends the call it began (WF), and a user drops its shared_ptr
  some day (SF, assumed of the user). New connections, calls, the peer's close and
  the server's destruction need not happen.
- `Client`: the same for its one loop and its users, until the process crashes. The
  server need not answer.
- `LoopThreads`: a runnable thread runs. Nobody need give loops out, destroy the pool
  or quit a loop, and condition variables need not wake up by themselves.

## 5. What is proved

All proofs are checked by TLAPS, for every value of the constants.

`EventLoop_proofs`, from `EventLoopAssumption`: `TypeCorrect`; `WakeupsAreNotLost` (for
`~QueueBeforeLoop`), `QuitsAreNotLost`, `ReadsSucceed` from the inductive invariant
`IInv`; and `Refinement`, that `EventLoop` implements `TaskQueue`. `NoLostWakeup`
speaks of the owner asleep only and is not inductive: `QueuedIsAnnounced` says what
holds of the queue at every other place, `OwnerPosition` where the owner can be. Whenever a batch will not follow (the owner is at
the loop's test or in epoll_wait, or has swapped already), a non-empty queue has an
announcement: the eventfd, or a thread between the two halves of `queueInLoop`;
and the owner's own unfinished call has `callingPendingFunctions_` raised, or a
batch ahead of it. The refinement maps the abstract queue to
`functors \o pendingFunctors_`: the swap is a stutter, `callFunctor` takes the head.

`EPollPoller_proofs`, from `PollerAssumption`: one lemma for each operator says that
it keeps a poller `Sound` and which channels it touches (`ChangesOnly`), another that
it keeps the types alone. In `ChannelLifecycle_proofs` the invariant `IInv` adds that
whatever is in the poller, active or current is alive. From it follow `TypeCorrect`, `IndexAlwaysAgrees`,
`NoEpollCtlFails`, `NoPointerDangles`.

`LoopThreads_proofs`, from `LoopThreadsAssumption`: `TypeCorrect`, `EvenDealing`,
`LoopsInUseLive`, `ThreadsEndFirst`. What the last two say of a thread depends on how
far start() and the destructor have come, so the invariant `IInv` says it for every
place: `LoopPoints`, `loop_` points to the loop just while `threadFunc` is between its
publication and the end; `StartedInOrder` and `DestroyedInOrder`, the threads before
`cur` are published or destroyed and the others are not yet; `QuitByDestructor`, a
loop no user quits is running or not yet started until the destructor quits it.
`EvenDealing` needs more than the difference it bounds: `DealtInTurn` says which
loops are one ahead, those before `next_`.

`DataPath_proofs`, from `BufferAssumption` and `DataPathAssumption`, for buffers, reads,
messages and streams of any size. Of the input half: `IndicesStayInOrder` and
`StreamAlwaysKept`, with no further hypothesis; both speak of the time before a read runs
past the vector, since the behaviour after it is undefined (`ReadOverrun` shows that it
comes). One lemma for each operator (`SpaceMade`, `AppendedFull`, `ReadTakes`, `Retrieved`)
says that it keeps a buffer `Sound` and which stream is readable in it (`Continues`). The
invariant `Kept` says that callback and buffer together hold a stream of bytes that have
arrived, each once and in order, and counts them: with those by which readFd has made the
vector grow they are as many as arrived. That is how much `append` loses
(Buffer.cc:42-46): it fills the new part of the vector and leaves writerIndex_ where it was.
A buffer that is empty has been reset, which is why a read into one never overruns it.

With the hypothesis that a sender's thread that sends is the one that shuts down:
`NoWriteComesLate`. The invariant `WritesEnd` says that the shutdown task is the queue's
last, that the queue is empty once the writing side is shut down, and `state_` not
kConnected; that the channel never stops reading, so that `isWriteing` is never true,
is part of it, as otherwise `handleWrite` could shut the side down before queued sends.

In every usage: `EchoAlwaysComplete`. `EchoIsComplete` looks at the wire alone and is not
inductive. `EchoKept` follows the bytes from where they are taken: the wire carries the
first k of what onMessage took and the sender's up to where the queue begins; the queue
holds the rest, message after message without a gap, and their strings exist, if the
sender keeps them (if not, a message may be as many bytes nobody gave); nothing waits in
the output buffer while the channel does not wait for room; once the channel has waited,
the property asks nothing, as the rest of a short write is lost (`SendRest`). The two
streams can be woven in any way: the statement is that the wire `Carries` each, and
`CarriesMore` says what a write of one does to it and to the other.

`ConnectionLifecycle_proofs`, from `LifecycleAssumption`, for any number of connections
and users' threads and any set of usages. All that is to be said speaks of one
connection, so `ConnectionSteps_proofs` says of each step which connection it touches
and how its state, tasks and channel change; the others are `Untouched`, and what held
of them holds still. The invariants are layers, each proved with the ones before it:

| layer | of one connection | theorem |
|---|---|---|
| `Typed`, `Types` | the types, tasks and calls for connections that exist, the places of the two loops; with `Types` a sound poller as well, which a send to a destroyed connection ends together with the process | `TypeCorrect` |
| `Begun` | nothing happens to it before connectEstablished, its first task, which runs once | |
| `Listed` | one that can be used is in the map while the server is up | `ConnectedStaysListed`, `OneLoopServerStopsAll` |
| `Late` | a connected one is in the poller; where users' threads only send, one that has been removed is kDisconnected, so that a late send does nothing (`NoLateSend`) | |
| `Kept` | one whose channel is in the poller is in the map, or has a removal or a connectDestroyed to come | `NoChannelDangles`; with `Down`, `RemovedChannelStaysOut` |
| `Down` | it has gone down at most once; what can take it down again (a second handleClose, connectDestroyed, forceCloseInLoop) is excluded by its state or comes first in the queue | `UpThenDown` |
| `Ended`, `Finished` | the I/O loop stands still once it has ended; one that is out of the map, or on its way, while the server is up has gone down | `Refinement` |

`NoDanglingChannel` is not inductive: it says nothing until the last owner has gone, and
`Kept` says who will remove the channel until then. `TypeCorrect`, `ConnectedStaysListed` and
`OneLoopServerStopsAll` hold in every usage. `NoChannelDangles` assumes of the constant
`Usages` what `SendsOrSets` says: users' threads do not send, or do nothing else.
`UpThenDown` assumes what `ClosesOnce` does: nobody calls `forceClose`, or users' threads only
send and the I/O loop is not left by `~TcpServer`. `RemovedChannelStaysOut` assumes both: what
could put a removed channel back is a late send, which finds kDisconnected or, where threads
shut down, is not there, and a second `handleClose`. Section 3 tells how the code goes wrong
in the other usages. The usages of the run `ConnectionClose` satisfy both.

`Refinement`, which needs both hypotheses, is the promise as a whole: every step of the
server is one of `ServerSession` or a stutter, with `gone` standing for the connections
that are `Destroyed`. That none comes back (`StaysDestroyed`) is the part a user would
not think of: a step is about a connection somebody holds (`Held`), and where only a raw
pointer leads to it, from the poller to its channel, `Kept` names the owner. A
connection that is destroyed while the server is up has gone down: it is not in the map
any more, and `Finished` says what it did before it left. `UpThenDown` makes each
callback the first of its kind.

`Client_proofs`, from `ClientAssumption`, for any number of attempts and users:
`TypeCorrect` and `StopsAreKept`, however often `connect` is called and in every usage. And,
for `MaxConnects <= 1` and usages in which no thread disconnects where callbacks force a
close: `PollerStaysConsistent`, `NoChannelDangles`, `NoTaskDangles`, `UpThenDown`,
`OnlyFailedAttemptsKill` and the `Refinement` of `ClientSession`. The hypotheses are the
bounds of the run: the reconnections that follow the one `connect`, and any stops, are all
there; what a second call does, and a disconnect together with a `forceClose`, is told in
section 3. `Invariant` has eight parts, and none is inductive without the others:

- `AskedOnce`: the one call of connect is somewhere between the user and the first
  attempt, once. `OneThing`: an attempt goes on, or has failed without anyone being told
  (`handleWriteFails`), or the loop is between two halves of a callback, or the last
  attempt's connection is live, and `state_` tells which.
- `Registered`: the poller has the Dial channel of the attempt that goes on and the
  Conn channel of the connection that is `Live`, from `connectEstablished` to `handleClose`,
  and no other.
- `Owned`: a connection that is live is `connection_`, or the client is gone and its
  forceCloseInLoop owns it.
- `ResetFirst`: the task that deletes the Connector's channel runs before anything can
  end the connection it was queued for, and so before the next attempt sets
  `channel_`. `Forced`, `ShutFirst`: while there is a client the task of a forceClose is
  the last event of its connection, and a shutdownInLoop comes before the
  connectDestroyed that releases the last owner. `EventsFirst`: tasks queued by the
  dispatch run after it. These four are facts about positions in the queue; `Keeps` and
  `QueueKeeps` say what dequeuing and queueing make of them.

`Apart` is where the hypothesis about usages enters: where callbacks may force a close, the
down callback finds the kDisconnected that `handleClose` left. `Failed` says that what
epoll_wait reported of an attempt stays true; with `OneThing`, that an empty `channel_` in
kConnecting belongs to a broken socket, it gives `OnlyFailedAttemptsKill`.

A step changes few of the variables these parts read, so there is a frame lemma
(`Undisturbed`) and one lemma for each action. The refinement follows from the invariant
step by step: a start is queued (`Ask`) and run (`Answer`) only where `AskedOnce` and
`OneThing` say that no attempt goes on and no connection is up.

Only model-checked: all liveness (the prover has no ENABLED), so `ClosedIsDestroyed`,
`ForceCloseCloses`, `DisconnectShutsDown` and the leads-to properties of the other
runs. All the safety properties of the passing runs are proved, some under the hypotheses
named above. Out of the prover's reach are also induction over data and RECURSIVE
operators; no module uses the latter.

## 6. Not modelled

- socket options, addresses, timestamps, environment variables; log output and the
  Logger's shared level, which labels it. A log statement that ends the process is
  modelled (`Client`).
- The high-water-mark callback, a notification; the write-complete callback, which
  `std::bind` of a data member's address keeps from ever running
  (TcpConnection.cc:178, 245).
- `TcpServer::start`, `Acceptor::listen`: done once, before anything else happens. An
  accept that fails for want of descriptors changes nothing in the program; the
  loop is busy until one is closed.
- `~TcpClient` without a connection (TcpClient.cc:57-61): it binds connectDestroyed to a
  null pointer, and leaves tasks for the Connector that it deletes. Whatever the
  loop does then is undefined.
- SIGPIPE after the peer's reset. In `ConnectionLifecycle` a write fails with EPIPE, as
  under a program that ignores the signal; `DataPath` models the signal after
  shutdownWrite.
- The retry delay of the Connector, constants that nothing uses.
