# MTRpc in TLA+

MTRpc is a small RPC system over protobuf: a client and a server that speak HTTP
on TCP, an edge-triggered epoll loop, a pool of worker threads, and the buffers,
queues and locks below them.  This directory models its core in TLA+, checks it
with TLC and proves a part of it with TLAPS.  Paths are relative to `src/`.

## 1. Inventory

| component | state | operations | what is hard | what makes it correct |
|---|---|---|---|---|
| `IOEvent` (`mio/mio_event.*`) | `_events` bits, `ref_count`, `group` | `OnEventAsync`, `OnEventWrapper`, `RequireRef`, `ReleaseRef`, the `...Async` posts | lock-free bits: a raise races the end of a handler; the reference is taken after the bit is visible | one handler at a time, no raised bit lost, the last user deletes |
| `WorkGroup`, `Worker` (`thread/workpool.*`) | task queue, idle list, a task slot and a mutex per worker | `Post`, `RunTask`, `loop`, `Stop` | Post against a worker going idle; unsignalled wake-ups; Stop against a worker going to sleep | each task run once, no sleeper forgotten, Stop ends |
| waiting (`Reply`, `RpcClientController`, `ConnectStream`) | a flag or status, mutex, condition variable | `Run`/`SetStatus`/`OnConnect`, `Wait`, `Wait(ms)` | the flag is tested without the mutex | a returned wait has the result; nobody sleeps on a finished call |
| `Epoller`, `EventNotify` (`mio/mio_poller.*`, `mio_notify.h`) | task list, eventfd, two timer trees, epoll set | `Poll`, `ProcessTimeOut`, `ProcessPendingTask`, event and timer operations, `PostTask`, `Stop` | plain pointers in trees, tasks and `ev_arr` while workers close events; edges and deadlines missed | tasks in order, deleted events forgotten, nothing slept over |
| client channel (`rpc/rpc_channel_impl.*`, `mio/mio_connect_stream.*`, `mio/mio_socket_stream.*`, `rpc/rpc_client_impl.cpp`) | `sendcall`, `waitcall`, `donecall`, buffers, `_close_when_empty`, `_isClosed` | `Connect`, `CallMethod`, `Close`, the stream's handlers | four threads; interest changes posted by all; the channel deletes itself; errors while calls are queued | one call in flight, the right answer, every call ends |
| server connection (`rpc/rpc_server_connect.*`, `mio/mio_message_stream.*`) | queue of pending responses, headers, buffers | `OnMessageRecived`, `SendMessage`, `OnMessageSended`, `OnClose` | pipelined and partial requests, partial writes, errors and close with responses outstanding | responses once and in order |
| server, acceptor (`rpc/rpc_server_impl.cpp`, `mio/mio_acceptor.cpp`) | listening socket, poller, group | `Start`, `Stop`, `OnAccept` | | a connection starts with an empty state |
| service pool (`rpc/rpc_service_pool.h`) | a locked map, a chain of boards, a cache by hash | `RegisterService`, `FindService`, `ListService` | the cache is read without the lock, names share its slots | what was registered is found, under its name |
| `IOBuffer` (`mio/mio_buffer.*`) | ring of pieces with a size each, read and write position | vectors for `readv`/`writev`, `Next`, `BackUp`, `Skip`, `Reset`, `Reserve`, `AlignWritePos` | positions across pieces of different sizes, full against empty, header written after the body | the bytes out are the bytes in, in order |
| HTTP header (`http/rpc_http_header.*`, `mio/mio_message_stream.cpp`) | parser state, pending characters, fields | `ParserHeader`, `SerializeHeader`, `OnRecived` | input cut anywhere, locals lost between reads | the message handed over is the message sent |
| `SpinList`, `WorkQueue`, `ArrayLockFreeQueue` | links or a ring with counters | `push`, `pop`, `MoveTo`, `Merge` | splicing, nodes freed outside a lock, counters that wrap | a FIFO queue |
| `NoLockWorkPool` (`thread/nolock_workpool.*`) | ring of entries, a slot per worker | `Post`, `Get`, `RunTask`, `loop`, `Stop` | posters and workers meet at an entry in any order | each task run once |
| timer tree (`common/ngx_rbtree.*`) | nodes, a sentinel all trees share | insert, delete, minimum | deletion's fixup walks up from the sentinel | ordered, balanced, the minimum is the next timer |
| shared pointers (`smart_ptr/`) | use and weak count | copy, release, `weak_ptr::lock` | lock against the last release | disposed and freed once, in that order |
| `ServerState` (`common/serverstat.*`) | two words per status | `state`, `Clear` | each word swapped alone | each word counts its calls |
| logging (`log/log.*`) | a list per thread, one file | `OutPut`, `Close` | time of the last file per thread, file shared | lines in order, in a recent file |

How they interact: a user thread calls `CallMethod`, which queues the call and posts
a task to the `Epoller`; the poller's thread runs tasks and turns kernel events and
expired timers into `OnEventAsync` on an `IOEvent`; that posts a wrapper to the
`WorkGroup`; a worker runs the stream's handler, which fills buffers, posts further
tasks, completes calls (`SetStatus` wakes the user) and finally closes the stream.

`PROJECT.json` lists every component with its status, and under `hazards` what is hard
to test, at its line.

## 2. Modules

| module | models | composition |
|---|---|---|
| `SerialHandler` | abstract: bits are owed to a handler that runs alone | implemented by `IOEvent` |
| `IOEvent` | `mio_event.cpp`: one step per atomic operation | |
| `IOEventProofs` | theorems about `IOEvent` | extends `IOEvent`, `TLAPS` |
| `WorkPool` | `workpool.cpp`: one step per exchange, list call or locked section | |
| `WorkPoolProofs` | theorems about `WorkPool` | extends `WorkPool`, `TLAPS` |
| `Completion` | the three wait/set pairs, which are the same code three times | |
| `CompletionProofs` | theorem about `Completion` | extends `Completion`, `TLAPS` |
| `Epoller` | `mio_poller.cpp`, `mio_notify.h` | uses the contract of `SerialHandler` for handlers |
| `EpollerProofs` | theorems about `Epoller` | extends `Epoller`, `TLAPS` |
| `RpcChannel` | client channel, stream, the poller's view of one event, server and network as environment | uses the contracts of `IOEvent` (one handler pass at a time), `Epoller` (tasks in order) and `Completion` (a status ends a wait) |
| `RpcChannelProofs` | theorems about `RpcChannel` | extends `RpcChannel`, `TLAPS` |
| `ServerConnect` | server connection and its stream; client and network as environment | same contracts as `RpcChannel` |
| `ServerConnectProofs` | theorems about `ServerConnect` | extends `ServerConnect`, `TLAPS` |
| `StreamPoller` | operators the two share: what a posted task does to a stream's interest, how many tasks a pass of the poller runs, the order of `OnEvent`'s parts | extended by `RpcChannel`, `ServerConnect` |
| `Fifo` | abstract: a queue of elements and what each thread has taken | implemented by the next three |
| `LockFreeQueue` | `array_lock_free_queue_impl.h` and the single-producer form: one step per access of a shared word | refines `Fifo` |
| `WorkQueue` | `workqueue.h`: two locks, a dummy node | refines `Fifo` |
| `QueueProofs` | theorems about `LockFreeQueue`, `WorkQueue` and `SpinList`, their refinements of `Fifo` among them, and about `IOBuffer` as a readbuf | extends the four and `TLAPS` |
| `SpinList` | `spinlist.h` with its links | refines `Fifo`; `WorkPool`, `Epoller`, `RpcChannel` use it as an atomic queue |
| `NoLockWorkPool` | `nolock_workpool.*`: one step per atomic instruction | |
| `SharedCount` | `sp_counted_base_gcc_x86.hpp`, `shared_count.hpp` | |
| `ComponentProofs` | theorems about `SharedCount`, `NoLockWorkPool`, `ServerState`, `ServicePool` and `Logger` | extends them and `TLAPS` |
| `RbTree` | `ngx_rbtree.cpp` on a heap of nodes, each turn of the deletion's loop a step | `Epoller` uses its result: a set with a minimum |
| `IOBuffer` | `mio_buffer.*` and the packets written to and read from it | `RpcChannel`, `ServerConnect` use its result: whole requests and responses |
| `HttpHeader` | `rpc_http_header.cpp`, `MessageStream::OnRecived` | as `IOBuffer` |
| `ServicePool` | `rpc_service_pool.h` | |
| `ServerState` | `serverstat.cpp` | |
| `Logger` | `log.cpp` | |
| `MCQueues` | `LockFreeQueue`, `WorkQueue`, `SpinList` and `Completion` side by side | `part` says which one a behaviour is about |
| `MCComponents` | the other eight side by side | `part`, as above |
| other `MC...` | one module each for TLC | |

**IOEvent.** `_events` is the set of bits that are on.  A caller in `OnEventAsync`
goes through `FetchAndOr` (the atomic or, and both early returns), `WrapperRef`
(`RequireRef`) and `Post`; a wrapper through `Swap`, the handler, `CompareAndSwap`
and `WrapperRelease`.  Without a group the handler runs inline in the poller's
thread.  A raiser holds a reference (registration, timer or owner), as its callers do.

**WorkPool.** `wpc` is the worker's place in `loop`, `ppc` the poster's in `Post`.
A worker holds its mutex from `idleWorker->push` to `cv.wait` (`"towait"`).  `RunTask`
reposts a task it displaces by calling `Post` inside itself; `towake` is the stack of
workers still to be notified when those calls return.  `Interrupt` is an unsignalled
return of `cv.wait`.

**Completion.** Names of `Reply`; `isdone` and `ret` are one word in the other two
classes.  `LockAndSleep` is one step because `pthread_cond_wait` gives the mutex back.

**Epoller.** `ppc` is the place in `Poll`.  `PostTask` is two steps (push, then write
the eventfd).  An expired timer raises its bit first and leaves the tree in a second
step.  The handler is any handler that obeys the contract of `SocketStream::OnEvent`:
it posts on its own event while that is open, closes once, releases the reference of
a timeout bit, or leaks it where the code returns early.

**RpcChannel.** `SocketStream::OnEvent` is cut where it touches what other threads
touch: `OnEvent` (head) → `OnReadable` → `OnMessageRecived` → `SendNext` →
`OnWriteable` → `HandlerWriteable` → `Flush...` → `OnReadTimeOut` → `OnWriteTimeOut` →
`OnEventTail` → `OnCloseCancel` → `OnCloseDelete`.  A request or response is named by
its call; a partly written request stays in `writebuf`.  `OnMessageSended`'s loop adds
the same size until the packet counts as sent, so any write moves the call to
`donecall`.  `"crashed"` is a thread that has used a deleted `RpcChannelImpl` or a null
`_stream`; nothing is modelled after that.  `ProcessPendingTask` runs one posted task in a
step: `moved` is how many of `tasks` the poller has moved to its private list `tmp`, and
until that is empty it looks neither at epoll nor at its timers.  So a handler may post
between two tasks of one pass, and what it posts waits for the next.

**ServerConnect.** The service's method runs inside the handler, so a connection has
one thread besides the poller's.  Requests and responses are two halves each: a half
is what can be read or written alone.  `RecvHalf`, `RecvBad` and `OnMessageRecived` are
the ways through `MessageStream::OnRecived`; after each the loop goes on or ends.  A
body is parsed up to the end of the read buffer, so a request behind it makes the parse
fail or is swallowed, and the rest of a body that nobody consumed is skipped by the
header parser.  That a response does not fit the write buffer is a choice.  `undefined`
is set when a deleted controller is used; nothing is modelled after that.

**LockFreeQueue.** `qpc` is the place in `push` or `pop`, `qidx` the index a thread has
read.  `single` chooses the class: the single producer has no second counter, its one
increment publishes the slot.  `countToIndex` masks as the code does (`Masked`), bit by bit,
so that the model also takes sizes that are no power of two.  The code's default, 65535, is
one of these: the mask `a_count & 65534` gives the counters 0 and 1 the same slot, and the first push
on an empty queue of the many-producer class is refused as if it were full.  (With
`Q_SIZE = 3` and `QStarts = {0}` in `Queues.cfg`, TLC finds `FalseForCause` violated in
three states.)  `Queues` and the proofs are about the sizes that the header's comment asks for
(`array_lock_free_queue.h:58`).

**WorkQueue, SpinList.** Nodes are numbered in the order of allocation; `deleted` and the
links are the heap.  A `SpinList` is used in one of its two ways (`usage`): popped by its
consumers, or moved to a private list and merged back, as `Epoller` and the logger do.

**NoLockWorkPool.** A poster goes through the index, the exchange of the entry's task,
the read of its worker, the second read of its task (`ReadTask`, which may find another
task or none) and `RunTask`; a worker through its slot, the index, the entry and the
wait.  The code's asserts are taken as compiled out.

**SharedCount.** A handle is shared, weak, or in the middle of an operation: `Release`,
`Dispose`, `WeakRelease`, `Destroy` are what one `release()` does, `LockRead` and
`LockCas` what one `lock()` does.

**RbTree.** `heap` holds parent, children, colour and key of every node, the sentinel
included.  Insertion is one step, deletion `Unlink` followed by one step for each turn of
the fixup loop; `fixing` is the loop's `temp`.  `Timings` gives the orders in which timers
are set.

**IOBuffer.** Bytes are numbered in the order in which the peer must see them.  `role` is
whose buffer it is: a client's writebuf, into which a packet may be written at any time, a
server's, or a readbuf.  A server writes the next packet when the last one is sent
(`pending`), and none after it has answered an error and emptied the buffer (`closing`).
`sound` becomes false, and the behaviour ends, in five cases that the code does not guard
against:

- a packet is larger than the free pieces;
- a `Reset` changes the size of a piece that is being sent;
- `BackUp` returns into a short piece, one that `Reserve` truncated: `operator-=` adds the
  size of the piece it leaves.  Without this case TLC finds a wrong `Content-Length` in
  four states: a response, its `writev`, and a response nearly as large as the buffer.
  `BackUp` is to return the last bytes of the piece that `Next` gave
  (`zero_copy_stream.h:221`);
- an error header is cut off at the end of its piece;
- a `readv` fills all the room, after which the buffer looks empty.

**HttpHeader.** The peer's text is `SerializeHeader`'s, with names shortened; `Readable`
delivers any prefix, and the parser takes it a character at a time.  `stale` counts the
spaces `MoveBufTo` leaves in `buf`; `key` is a local of `ParserHeader` and goes with it.

**ServicePool, ServerState, Logger.** `finder`, `call` and `entry` are the places of a
caller between two accesses of shared state: the cache and the map, the two words of a
`Status`, the stamp of a line and its output.

## 3. Runs

| run | bounds | shows |
|---|---|---|
| `IOEvent` | 2 raisers, 3 live wrappers, 3 bits | invariants, no lost bit, `SerialHandler` implemented |
| `WorkPool` | 2 workers, 2 posters, 2 tasks, 1 interrupted wait, Stop | tasks in one place, sleepers reachable, tasks run, Stop ends |
| `WorkPool_lost` | 1 worker, 1 poster, 1 task | **violation**: a posted task waits for the next `Post` |
| `Epoller` | 1 event, 3 posts, clock 1..2 | order of tasks, references, timers; nothing slept over, Stop ends `Poll` |
| `Completion_lost` | 1 waiter | **violation**: the signal comes between test and wait |
| `RpcChannel` | 2 calls (one synchronous), write timeout, failing serialisation, 1 full send buffer; or 1 asynchronous call, refused, end of file, reset, read timeout, unparsable answer; or 2 calls, read timeout, 2 full send buffers, connected at once and never released (`Setups`) | one in flight, right answers but after a timeout, stray answers, nothing stranded, statuses given once |
| `ServerConnect` | 2 requests, at most 2 unanswered, 1 full send buffer, end of file, reset | answers once and in order, a waiting peer is answered, errors close, controllers deleted |
| `RpcChannel_callback` | 1 call, read timeout | **violation**: `done` is not run on failure |
| `RpcChannel_dead` | 1 call, no fault | **violation**: `Close` uses a channel the handler has deleted |
| `RpcChannel_mismatch` | 2 calls, read timeout, 2 full send buffers | **violation**: a call is given the answer to another |
| `Queues` | 2 producers and 2 consumers per queue; ring of 4, 3-bit counters that start at 6, 4 elements; `WorkQueue` of 4 nodes, `SpinList` of 6; a plain and a timed waiter | all three are FIFO queues, refused and empty only for cause, no freed node used; results and returns of a wait |
| `Components` | see below | the properties of the eight other parts |

Why the bounds are enough. The races are between two parties at a time: two raisers and
a wrapper, two posters and two workers (one displaced task and one stale entry need
exactly two of each), a setter and a waiter. Three posts are the registration and any
two of set, cancel and delete for one event (the safety invariants were also run with
four, 1.3 million states, which is too many for the liveness checks); events share only
the loop, so a second event adds no interaction but the order of dispatch. `MaxTime`
stands for all later seconds. Two calls, and two requests, are needed for pipelining and
for a mismatch. In `RpcChannel`, a stray answer (`StrayOnlyWhenClosing`) and an answer
taken by another call need a timed-out call whose request is partly written, a second call
behind it and a second full send buffer: the third environment has these, and TLC reaches
both there; it leaves out the owner's wait and release, which they do not depend on and
which the other two environments have. The violations name their own bounds: the smallest instances in which
they occur.

`Queues`: four elements in a ring that holds three fill it, wrap the ring and wrap the
3-bit counters; `Components`:

- `SharedCount`: 4 handles: two of each kind, or three against a locking one;
- `RbTree`: five timers of one tree in any order, three and two of both trees, and ten set
  in order and cancelled in any order, a tree whose deletions reach the red
  sibling and the second turn of the fixup loop; two timers share a key;
- `IOBuffer`: 4 pieces of 3 bytes, headers of 1, bodies of 0, 1, 3 and 4: a body that ends
  inside a piece, at its end and in the next, and packets that go round the ring; with
  `MAX_HEADER_SIZE` = 3, `Reserve` truncates a piece as soon as a byte of it is used;
- `HttpHeader`: six conversations: pipelined requests, junk before the method, a response
  without a body, an over-long path, malformed headers in both directions; every cut;
- `ServicePool`: 4 services, two of one name, two names of one slot, 2 finders;
- `ServerState`: 4 calls, one refused, 2 `Clear`s; `Logger`: 2 threads with 2 lines each,
  a clock that runs on for two hours;
- `NoLockWorkPool`: 2 workers, 2 tasks posted at most 3 times (a displaced task is posted
  again), 2 gets in all, 1 interrupted wait, a ring of 2.

Each property of a run is one promise of a component; where it has several parts it is the
conjunction of named ones:

| property | parts |
|---|---|
| `NobodyForgotten` (`WorkPool`) | `SleeperReachable`, `NoUndoneTask` |
| `GivenTasksRun` (`WorkPool`) | `HandedTaskRuns`, `QueuedTaskRunsAfterBusy` |
| `PointersAlive` (`Epoller`) | `DeletedIsForgotten`, `TimersOfRegistered` |
| `NothingStranded` (`RpcChannel`) | `NoStuckCall`, `ReleasedIsDeleted` |
| `ControllersReleased` (`ServerConnect`) | `ReleasedOnce`, `NoLeak` |
| `FalseForCause` (`LockFreeQueue`) | `RefusedOnlyWhenFull`, `EmptyOnlyWhenEmpty` |
| `WaitEnds` (`Completion`) | `TimedWaitReturns`, `SleeperIsWoken` |
| `HandlesCounted` (`SharedCount`) | `CountsMatch`, `NoResurrection`, `BlockOutlivesHandles`, `NothingLeaks` |
| `TimerTree` (`RbTree`) | `SearchTree`, `LeftmostIsFirst`, `Balanced`, `SentinelIsBlack` |
| `BufferDelivers` (`IOBuffer`) | `BufferIsFifo`, `ContentLengthIsBody` |
| `ParsedIsSent` (`HttpHeader`) | `HandedIsSent`, `FailsOnlyOnBad` |
| `ServicesFound` (`ServicePool`) | `RegisteredIsFound`, `PoolConsistent`, `FoundByName` |
| `StatusCountsCalls` (`ServerState`) | `WordsMatchCalls`, `BothWordsCounted` |
| `LinesWritten` (`Logger`) | `LinesInOrder`, `FileIsRecent` |
| `FirstRoundSafe` (`NoLockWorkPool`) | `FirstRoundRunsOnce`, `FirstRoundSlotEmpty` |

A type invariant is part of one of its module's properties; that of `IOEvent` is proved.

The parts of `Queues` and of `Components` share no state: `part` picks one, the others stay
as they began, so the sum of their states is explored and not the product.

`CHECK_DEADLOCK FALSE` everywhere: callers may stop calling, and all of these systems
then rest.  That they do not rest too early is what `NoStuckCall`, `SleeperReachable`
and the liveness properties say.

Exceptions written into properties.  `SleeperReachable` and `NoUndoneTask` hold until
a wait is interrupted: then a worker is in `idleWorker` twice, the branch of `RunTask`
marked "should be never happen" is taken, and its repost keeps `TaskInOnePlace`.
`NoStuckCall` and `ReleasedIsDeleted` except a reset connection with unsent data
(`mio_socket_stream.cpp:59` posts an interest that may be set already, so no edge
follows), and `NoStuckCall` a call pushed between `OnClose`'s cancelling and
`delete this`.  `StatusGivenOnce` excepts a request that cannot be serialised, which
`SendToServer`'s callers push to `waitcall` after it has its status.  `ReleasedOnce`
excepts pipelined requests (`OnMessageSended` queues the next response a second time, it
is never written, and `OnClose` deletes it twice) and a response that does not fit
(`SendMessage` deletes it while it stays in `pending`).  `LockstepAnswered` excepts a list
page written in part: its packet size is 0, so it counts as complete.  `RefusedOnlyWhenFull` and
`EmptyOnlyWhenEmpty` except a push or pop that others overtook between its two reads.
`BufferIsFifo` and `ContentLengthIsBody` hold while `sound`.  `HandedIsSent`,
`FailsOnlyOnBad` and `AllHanded` except input cut inside a field's value, whose key is then
lost.  `FirstRoundRunsOnce` and `FirstRoundSlotEmpty` hold until an index has gone round
the ring: after that an entry keeps the worker of the round before, and a task can be run
twice or put over another.  `BothWordsCounted` excepts a `Clear`, `FileIsRecent` the time
another thread took between its stamp and its new file, and `LinesInOrder` promises nothing
of the lines of other threads after `Init(conf)`, which are never written.
`SentinelIsBlack` is checked for the trees of one poller: with two in a process (every
client and every server has one) their deletions write the common sentinel at the same time
and it can become red.

`PROJECT.json` lists the hazards the properties are about.  Others that were met and that no
property covers: tasks left in a slot by `Stop` (`workpool.cpp:81`); `Post`'s drain loop,
which workers that go idle can keep busy (`workpool.cpp:229`); a timeout's reference leaked
by an early return (`mio_socket_stream.cpp:62`); answers that arrive with the end of file
dropped (`mio_socket_stream.cpp:205`); the write timer that is never cancelled
(`rpc_channel_impl.cpp:338`); `HTTP_MAX_REQUEST_PENDING` not tested while requests are
pipelined (`rpc_server_connect.cpp:193`); the default size 65535 of the lock-free queue, with
which the many-producer class refuses every push (`array_lock_free_queue.h:45`); a lost wake-up and an
overwritten entry of `NoLockWorkPool` (`nolock_workpool.cpp:138`, `:18`); no length test in
the response parser (`rpc_http_header.cpp:483`); `statusmap` read without its mutex
(`serverstat.cpp:102`); `Merge` of an empty list (`spinlist.h:170`, tested for by its callers).
The first six are in the models as the code has them, as are those of `NoLockWorkPool` and
the parser.

## 4. Fairness

Threads that can run do (weak fairness per thread).  Strong fairness is used where a
thread takes a mutex that others take and release again and again (`StopWorker`,
`SetterLock`), and for a timed wait that spurious wake-ups restart.  The clock passes.
Nobody is obliged to call `Post`, `Wait` or `Stop`, no task is obliged to finish in
`Completion`, and nobody counts on spurious wake-ups.  In `LockFreeQueue` a producer that
has begun `push` goes on (`QFairness`), and in `HttpHeader` what was sent arrives and is
parsed (`HFairness`); where several modules share a run, each one's fairness is assumed in
the behaviours that are about it.  The other modules state safety only.

## 5. Proofs

The theorems hold for every value of the constants that the `ASSUME` of the model allows;
the bounds that TLC's runs need (`MaxPosts`, `MaxTime`, `MaxNodes`, `MaxInterrupts`,
`MaxEagain`, `eagain` of a `Setups` member) are arbitrary naturals in them.  Each inductive invariant was checked by TLC
before it was proved.

| module | theorem | says |
|---|---|---|
| `IOEventProofs` | `TypeCorrect`, `OnlyOneHandler`, `PendingAssertionHolds`, `DeletedUnderNobody` | types, `OneHandler`, `PendingAsserted`, `NoUseAfterDelete` |
| | `RefinesSerialHandler` | the safety part of `SerialHandler` is implemented |
| `CompletionProofs` | `WaitersGetResult` | `WaitReturnsResult` |
| `ComponentProofs` | `CountsAndLives` | `HandlesCounted` |
| | `FirstRoundIsSafe` | `FirstRoundSafe` (`NoLockWorkPool`) |
| | `EverySampleCounted` | `StatusCountsCalls` (`ServerState`) |
| | `LookupsFind` | `ServicesFound` (`ServicePool`) |
| | `LinesKeepOrder` | `LinesWritten` (`Logger`) |
| `QueueProofs` | `FreedNodesUntouched` | `NoFreedNodeUsed` |
| | `WorkQueueRefinesFifo` | `WorkQueueIsFifo`: `Fifo` is implemented |
| | `SpinListRefinesFifo` | `SpinListIsFifo`: likewise, with both lists well linked |
| | `LockFreeQueueRefinesFifo` | `LockFreeQueueIsFifo`: likewise, with the types, if `Q_SIZE` is a power of two |
| | `FalseOnlyForCause` | `FalseForCause` on the same condition |
| | `ReadBufferDelivers` | `BufferDelivers` for a readbuf, pieces of any number and size |
| `WorkPoolProofs` | `TasksPlacedOnce`, `SleepersReachable` | `TaskInOnePlace`, `NobodyForgotten` |
| `EpollerProofs` | `PostedInOrder`, `NoPointerDangles` | `TasksInOrder`, `PointersAlive` |
| `RpcChannelProofs` | `NeverPipelined`, `StrayMeansClosing` | `OneInFlight`, `StrayOnlyWhenClosing` |
| | `PairedWhileOpen` | `ResponsesPaired`: `ResponseMatches` until the channel is marked to be closed, and without timeouts to the end |
| | `OneStatusEach` | the action property `StatusGivenOnce` |
| | `NobodyStranded` | `NothingStranded`: at rest each call has its status, a released channel is deleted |
| `ServerConnectProofs` | `InOrderOnce`, `NoControllerTwice` | `AnswersInOrder`, `ControllersReleased` |
| | `ClosesAfterError`, `NobodyWaits` | `ErrorCloses`, `LockstepAnswered` |

**IOEvent.** Assumed: finite sets of callers and tasks, event bits distinct from the status
bits.  `OneHandler` alone is not inductive: a wrapper that is posted but has not run, and a
caller that has set `PENDING` but not yet posted, must count as well.  The strengthening
says that at most one party is responsible for an event at any time and that one exists
exactly when `PENDING` or `PROCESSING` is on; it also ties the bits to the place of that
party (`PROCESSING` from its exchange to its successful compare-and-swap, `PENDING` if it
has still to run or to run again).  The references need a second conjunct: `ref_count` is
the number of registered holders plus one for a wrapper that is posted or running.

**Completion.** Assumed: the setter is none of the waiters, and no result is the value of
an unset one.  A waiter may have seen the flag without the mutex, so that it holds the
mutex or not cannot carry the argument.  `SetterOrder` says that the flag is on only after
the result was stored, `LeftForCause` that a waiter without a timeout is past its loop only
if the flag is on.

**SharedCount.** Assumed: a finite set of handles.  One unit of `weak_count_` stands for all the
shared handles; after the last of them it stands for the handle that disposes of the
object.  `Counted` states both counts as cardinalities; `Stages` says that at most one
handle disposes, at most one destroys, and in which order object and block go.

**NoLockWorkPool.** Assumed: at least one entry, sentinels outside their sets, and bounds
that are naturals; any number of workers, tasks and entries.  `FirstRoundSafe` is about the
states before an index has gone round the ring, and so is its invariant: until then an entry
has one poster and one worker (`OwnPoster`, `OwnWorker`).  Tasks (`OncePlaced`): the copy
that `Put` leaves in an entry must not count as a place of the task.  A task is in an entry
only as long as no worker has been there or its poster has still to look for a worker;
`WorkerAfterPop` says that a registered worker has already been there, so that the copy is
out of reach.  Workers (`Owed`): a worker that registers is owed one exchange with its slot
and one notification, by the entry if its poster has still to look there, else by that
poster.  Nobody else owes it, and without interrupted waits it stays where it waits, or
ends after `Stop`, with an empty slot until that exchange.  Hence `RunTask` finds the slot
empty, posts nothing again and notifies the worker right after.

**ServerState.** Assumed: the dumper is none of the calls.  A word that only came back to the
value that was read lets the compare-and-swap succeed; the proof does not need to exclude
it, since the new value depends on nothing but the old one (`SwapsIt`).  `Adding` says that
a call that has yet to add its sample to a word is not among those in it, hence none is
counted twice; `NotCleared` ties, before the first `Clear`, the place of a call to both
words and keeps the sum at most the maximum times the number.  The sum over the calls in
the second word is a fold of the community modules over a finite set, in an order of its
own choice.  That adding one call adds its time (`TotalAdds`) would be an induction over
finite sets; instead a smallest set without such sums is shown not to exist
(`SmallestSet`, from `WFMin` on the naturals).

**ServicePool.** Assumed: finitely many services, and that no service is called `idle`, which
marks a thread that looks for none.  `ServicesFound` is an invariant of the readers, one of
the four structures, and an action property.  The invariant says what holds in the middle of
a registration as well: the lock's holder is the one registrar between `map` and `done`, and
its board points to `_head` until it becomes `_head` (`OneRegistrar`); the map has every
board that is begun, under its name (`MapAgrees`); the boards behind `_head` are those that
are past that assignment and as many as `_count` says (`ChainAgrees`); the cache has finished
ones only (`CacheAgrees`).  A reader knows only finished ones (`FindersRight`), so that it
misses none whichever of the three it reads.  The walk of `ListService` is a recursive
function, and is treated as `Behind` in `WorkQueue` below: that the function exists for any
bound (`WalkExists`), and that it collects the members of a linked list of any length
(`WalkAlong`), follow from a least number where that fails.

**Logger.** Assumed: the closing thread logs too, the bounds are naturals, and the clock
starts more than an hour after its origin.  What is written of a thread is its first
`LinesDone` lines, a number that depends on the mode: before `Init(conf)` all but the one in
hand, after it none until `Close`, and then those of the closing thread only; the lines that
other threads pushed stay in their lists, where the theorem leaves them, as the code does.
`LinesNumbered` says this of the indices of `written`; `LineInHand` and `LinesPushed` say
that what is about to be written carries the next numbers.  For the age of the file,
`OpenFile` bounds how far the last file of a thread can be ahead of the common one: a file
is made with the stamp of a line in hand, which is at most `MaxDelay` old, and no other
thread's last file is later than the clock.

**WorkQueue.** Assumed: a thread is a producer or a consumer.  For the freed nodes: a node
is linked once, so `next` is injective, and the popped nodes are closed under
predecessors; hence neither the node a push writes to nor the one a pop finds behind
`head` is freed.  `tail` does dangle between the two assignments of `push`, as the
invariant allows, and is not followed there.  For the refinement the queue maps to the
nodes behind `head`.  What the recursive function `Behind` computes is not proved by
induction over its argument: the invariant says that a list exists whose members are linked
from `head` to the last node (`HasList`), and a least place where such a list and `Behind`
differ leads to a contradiction (`WFMin` on the naturals).

**SpinList.** Assumed: a thread that pushes neither pops nor moves.  Nodes are linked in the
order in which they are allocated and leave in that order, so that three numbers describe
both lists: the mover's own list is the nodes from `popped + 1` to some `m`, the shared one
those from `m + 1` to the last node linked (`Linked`).  `Ends` gives head and tail of each
in these terms, also between the two steps of a `push`, when the links are set and `head` is
not; `Links` gives `next` and `pre` of every node, `InHand` what a thread inside `push` or
`pop` holds.  `MoveTo` and `Merge` only move `m` to `Linked`: their splice must give the two
inner nodes just the links that they would have had in one list (`MovedLInv`).  What
`ChainOf` computes for such an interval is shown as above (`FollowAlong`), and the refinement
maps the queue to the interval from `popped + 1` to `Linked` (`SpinContentsAre`).

**LockFreeQueue.** Assumed: producers are no consumers, and fewer elements are pushed than the
counters have values.  Without that bound a counter can come round during one call, and the
compare-and-swap succeed for a thread whose index is stale: 2^32 pushes in the code.  The
theorems are about a `Q_SIZE` that is a power of two (`PowerOf2`), for which the mask of the
one class is the remainder of the other (`MaskIsRemainder`, from the bits of a counter) and a
slot stays the same across the wrap (`IndexOf`).  The invariant gives every counter, and
every index that a thread has read, a position in a ring without end, of which the code sees
the remainder (`QPositions`): the positions are what the code's `uint32_t` would be without
its width.  `RingOK` orders them, read up to `r`, committed up to `m`, reserved up to `w`,
with `w < r + Q_SIZE`; since a push that reserves has an element of its own
(`UsedElements`), `w` is less than one round of the counters from the start (`NotRound`).
Hence equal remainders mean equal positions wherever a compare-and-swap succeeds, and no
two of the positions between `r` and `w` share a slot.  The one test made with a stale index
is harmless: `PushOK` promises room to a push past its test only if its index is still the
write index, which is when its compare-and-swap succeeds; `PopOK` likewise.  A step moves
`m` or `r` by one, or neither (`QMoved`), and so it enqueues, dequeues or stutters.

**IOBuffer.** Assumed: more numbers of bytes than the buffer has cells.  The theorem is about
a readbuf, whose pieces always have their full size.  Its invariant (`RecvAt`) gives the
bytes positions in a ring without end: `r` were taken, `w` put in, `w` at most a round
ahead of `r`; `readpos` and `writepos` are the places of `r` and `w` (`PosOf`), and `owed` and
the cells from `r` to `w` hold the numbers of these bytes.  Less than a round apart no two
bytes share a cell (`CellOnce`), so what `readv` fills is free and what leaves is only the
bytes in front.  For full pieces the recursive functions of the model have closed forms
(`PlusIs`, `MinusIs`, `VectorsAre`, `DifferenceIs`), each shown by a least counterexample
(`LeastNat`).

**WorkPool.** Assumed: sentinels outside their sets, finitely many workers.  Tasks
(`PlacedOnce`, `PlacedTillRun`): slots, posters' hands and the queue hold a task at most
once between them, and hold it exactly from its posting to its run.  Workers (`Calm`): as
long as no wait was interrupted, each worker that goes idle has one token, an entry of
`idleWorker`, a poster's `pworker` or its `towake`; the invariant says that tokens are not
doubled and what a token says about the worker's place and slot.  After an interrupted wait
a worker has two, which is why `NobodyForgotten` promises nothing then.

**Epoller.** Assumed: finitely many events, a positive timeout.  `PointersAlive` needs the
queue and the references.  The queue (`TasksOf`): the tasks of an event lie in the order
`Add`, others, `Del`, so none is left when `DelEvent` gives the registration back.  The
references (`Counted`): `ref_count` is at least the number of `Holders`: the owner, the
registration, each timer in a tree, each raised timeout bit, and the wrapper.  It is not
equal to that number: a timeout bit that is raised twice takes two references and its
handler gives back one, and so does a handler that returns early.  So the theorem says that
nothing dangles, and not that everything is deleted in the end.  `BatchDone` and `Arrived`
tie the batch and `ev_arr` to the place of the loop.

**RpcChannel.** Assumed: the user makes calls from a finite set.  Responses
carry no identifier.  `InStep` says that requests and responses under way are no more than
the calls that wait, `Paired` that they belong to the call that waits.  Both hold as long as
a response is awaited (`Awaited`): until the channel is marked to be closed, or, without
timeouts, until the stream is closed.  With timeouts a marked channel may still send a call
and give it the late response to an earlier one, so `ResponseMatches` without a condition is
not a theorem: the run `RpcChannel_mismatch` violates it.  `Pending` says that a call in a
queue has no final status and is in one queue once; `StatusGivenOnce` follows from it at each
step that gives a status.  The steps are first sorted into nine kinds by what they do to the
queues (`Pushed`, `Sent`, `Received` ...), then each conjunct is shown for each kind.

`NothingStranded` speaks of states where nothing is left to happen, so an invariant of the
states before them must say what is left.  `StreamInv` follows a call through four
relations, each of which needs the one before:

- the wish to write (`WantsWrite`): what the interest of the stream will be after the tasks
  that are posted is written without a fold, by an `AddRW` or `ModRW` that no `ModR`
  follows.  The lemmas `WishAfterPost` and `WishAfterRun` say how a post and the
  run of a task change it.  `TaskList` says where the first `AddR` or `AddRW` lies as long
  as the stream is not registered;
- edges (`Edges`): what is unread is on epoll's ready list, in `_events` or about to be
  read, so is an end of file, and an interest in writing, with room to write, has its edge
  or a posted `ModR` that gives it up.  `Unwritten` and `Closing`: a stream that has
  something to write, or is to be closed, wants to write;
- numbers (`Flow`): as long as nothing went wrong (`Normal`), the requests and responses
  under way are exactly as many as the calls in flight (`Balanced`), and each call in
  `sendcall` is served by the thread that pushed it, by the wish to write, by the handler or
  by an answer that has still to come (`Serving`);
- places (`Placed`): a call that was pushed and has no status is in one of the three queues.

At rest there is no posted task, no edge and no thread in a handler.  Then no interest in
writing is left and nothing is unread; so a closed channel has emptied its queues, a channel
to be closed has been, and an open one has, by `Balanced`, no call in flight and, by
`Serving`, none to send.

**ServerConnect.** Assumed: the bounds are naturals (`ServerAssumption`), so the theorems are
about any number of requests, of unanswered ones and of full send buffers.  None of the four
properties is inductive; one invariant, `ConnInv`, carries all of them, by three arguments:

- order: the unread halves in `readbuf` and `inbox` are the last ones the peer sent, in
  order, so that a half's place follows from how many have been taken (`Incoming`).
  Controllers exist only for requests that were taken, and the live ones are in `pending`
  (`Controllers`, `Sound`, `NoLeak`); a new answer is for a request later than all that are
  in `received` and `writebuf` (`Outgoing`), whether or not the peer pipelines;
- phases: with a peer that waits for answers, an open connection either has exactly one
  request under way and nothing else (`Asking`), or has served all and is writing the last
  response (`Answering`); after an error it either keeps meeting the bad header in front,
  or has at most half a request left to read, or has written the error and closes
  (`Failing`).  `_res_send_size` is part of it: what was sent and what is in `writebuf` make
  up the packet, except for the list page;
- edges: what is unread is on epoll's ready list, in `_events` or about to be read; an end
  of file likewise, until the stream is marked to be closed; and a stream whose interest
  includes writing, with room to write, has its edge or a posted `ModEvent` that gives the
  interest up (`Edges`).  Each handler pass that leaves something to write leaves, after
  the last posted task, an interest in writing (`Answering`, `Closing`).  Since `SetEvent`
  yields an edge only for a change of interest, this is what a missing or misplaced
  `ModEvent` in the code would break.

At rest there are no edges left, so nothing is unread, unwritten or still to be closed.

Only model-checked, and why:

- all liveness, under fairness, and deadlock freedom: beyond the prover;
- `RbTree` (the walk below a node), `HttpHeader` (a parser run over its input): they are about
  what recursive definitions compute for every input;
- `IOBuffer` as a writebuf: its pieces differ in size, so that positions have no closed form.

## 6. Not modelled

Vendored and generated code (`json`, `proto`, `thirdparty`), which is most of the
lines of the repository; generated closures (`thread/ext_closure.h`, `closure.h`); thin
wrappers of system calls (`mio/tcpsocket.cpp`, the acceptor, signals, files), pages
(`http/inspecter.cpp`) and formatting.  `EventTimer` and the read/write lock have no user.
Of modelled components: the start and join of threads, destructors that run after all
threads have ended, `size()` of the lock-free queue, the slots of method statistics, the
statistics' counters and dumper, the accept loop.  The null closure a client would call on
a response it cannot parse is a hazard without a model: nothing happens after it.

## 7. Plan

1. Compositions: `IOEvent` on `WorkPool` (a raised bit and a lost task), `Completion` with
   a caller that deletes the controller.
