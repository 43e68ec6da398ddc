# CxxFramework in TLA+

CxxFramework is a server framework descended from the Darwin Streaming Server: tasks run by
pools of threads, sockets driven by one event thread, timers, reference-counted tables, and an
HTTP server on top. This directory models it as the Linux build compiles it (pthreads,
`epollev.cpp`): the threads, locks and timers, the life of the server from start to shutdown, the
HTTP session, the sockets and caches below it, and the text algorithms. TLC checks the models;
TLAPS proves the main invariants of the scheduler, the lock and the session.

`PROJECT.json` says which lines every definition stands for, which run checks which property,
what each hazard is covered by, and which theorems are proved.

## The system

| part | state | operations | talks to |
|---|---|---|---|
| Task, TaskThread, TaskThreadPool (`CFThread/Task.cpp`) | `fEvents`, `fUseThisThread`, name; per thread a blocking queue and a timer heap | `Signal`, `GetEvents`, `ForceSameThread`, `Entry`, `WaitForTask`, `RemoveThreads` | everything: every callback ends in `Signal` |
| IdleTask (`CFThread/IdleTask.cpp`) | one heap under `fHeapMutex`, one thread | `SetIdleTimer`, `CancelTimeout`, destructor, `Entry`, `Release` | Heap, `Task::Signal` |
| TimeoutTask (`CFThread/TimeoutTask.cpp`) | a queue of timeouts, a task that scans it | `SetTimeout`, `RefreshTimeout`, `Run` | TaskThread's heap, `Task::Signal` |
| EventContext, EventThread (`CFSocket/EventContext.cpp`, `epollev.cpp`) | descriptor, unique id, RefTable, `gDataMap`, the batch of events | `RequestEvent`, `Cleanup`, `Entry`, `select_*`, `epoll_waitevent` | RefTable, `Task::Signal` |
| RefTable, HashTable (`CFCore/Ref.cpp`, `HashTable.h`) | chains of Refs, reference counts | `Register`, `Resolve`, `Release`, `UnRegister`, `TryUnRegister`, `Swap` | EventThread, UDP pool |
| RWMutex (`CFCore/RWMutex.cpp`) | `fState`, counts of waiters | `LockRead`, `LockWrite`, `TryLock*`, `Unlock` | the global lock around `Run()` |
| Heap (`CFCore/Heap.cpp`) | array, `fFreeIndex` | `Insert`, `ExtractMin`, `Remove`, `Update` | TaskThread, IdleTaskThread |
| TCPListenerSocket (`CFSocket/TCPListenerSocket.cpp`) | descriptor, `fSleepBetweenAccepts`, idle timer | `ProcessEvent`, `SlowDown`, `RunNormal`, `Run` | EventContext, IdleTask, sessions |
| ClientSocket (`CFSocket/ClientSocket.cpp`) | send buffer and how far it was sent, GET and POST states, event mask | `Connect`, `Send`, `SendV`, `Read` | Socket, EventContext |
| UDPSocketPool, UDPDemuxer (`CFSocket/`) | queue of pairs with reference counts, tables of tasks | `GetUDPSocketPair`, `CreateUDPSocketPair`, `ReleaseUDPSocketPair`, `RegisterTask`, `UnregisterTask` | UDPSocket, Queue |
| FileSource (`CFCore/FileSource.cpp`) | map of blocks, queue of buffers in order of use, position | `Set`, `AllocateFileCache`, `Read`, `ReadFromDisk`, `ReadFromCache` | the disk |
| Queue, BufferPool (`CFCore/`) | ring through a sentinel | `EnQueue`, `DeQueue`, `Remove`, `Get`, `Put` | all of the above |
| HTTP session and streams (`CFHttp/`) | `fState`, `fRequestBuffer` with its offsets, output buffers, two mutexes | `Run`, `ReadRequest`, `Read`, `SetupRequest`, `SetupResponse`, `Flush` | all of the above |
| HTTP messages (`HTTPPacket`, `HTTPProtocol`, `HTTPDispatcher`, `QueryParamList`, `UserAgentParser`) | header fields, sorted table of paths, list of parameters | parse, build, look up | session |
| strings, dates, configuration, base64, MD5, interfaces (`CFCore`, `CFBasic`, `SocketUtils`) | none, or a table filled once | pure functions | HTTP, CFMain |
| start and stop (`CFMain.cpp`, `CFState.h`) | `sState` | nine release steps | all of the above |

What is hard in it, and what makes each part correct:

* **Scheduler.** `Signal` is lock free: the caller whose `fetch_or` turned `kAlive` on enqueues
  the task, the thread that runs the task turns it off with a compare-exchange. If the two ever
  disagree, a task is run by two threads at once, or is alive and in no queue, and never runs
  again. A deleted task must not come back; a task that asked for its thread must get it.
* **RWMutex.** Writers exclude everybody; no waiter may be forgotten or counted twice, also
  when a wait times out or is woken for nothing.
* **Heap.** The root is the earliest timer; each element is in the array exactly once, and
  never outside of it.
* **Event loop.** Descriptor numbers are reused by the kernel while `gDataMap` still has the
  id of the old owner; contexts are cleaned up while the event thread works for them; events
  come in batches that are consumed one per call.
* **RefTable.** An object is not destroyed while somebody holds it, and its owner is woken up
  when the last holder lets go.
* **IdleTask.** The thread sleeps until the earliest timer while others set earlier ones; it
  must not sleep past any, nor signal a task that is gone.
* **HTTP session.** `recv()` cuts the stream anywhere, clients send requests back to back, and
  the socket takes a response in parts. Each request must be dispatched whole and each response
  sent whole and in order; the session must not wait for input it already has; the mutexes it
  keeps across returns of `Run()` must be unlocked by the thread that locked them; a client
  that goes away, or a timeout, must end it wherever it is.
* **Server life.** The main thread and the event thread talk through the flags of `CFState`
  while connections still come in; threads are stopped in an order that must leave nothing in the
  table or in epoll behind, and the shutdown must end.
* **Timeouts.** `SetTimeout` writes two fields without the lock under which the scan reads them;
  the sleeping time is the shortest found so far plus a second.
* **Sockets and streams.** `send()` takes any part, `connect()` and `recv()` may stop anywhere, and
  the caller calls again: no byte may be lost or sent twice, and the event waited for must be the
  one that comes.
* **Caches and pools.** The block evicted must not be found again under its old number; a pair of
  ports is shared, counted and searched for while others release theirs.
* **Text.** What is written must be read back, at the ends of buffers and with odd input.

## Modules

### TaskSched, TaskLifecycle

`TaskSched` cuts `Task::Signal` into its atomic pieces (`SignalEnter`: the `Valid()` test;
`SignalOr`: the `fetch_or`; `SignalPlace`: choice of a thread and `EnQueue`) and
`TaskThread::Entry` into one step per shared access. The compare-exchange that ends a run is
three steps (`LoadExpected`, `Exchange`, `StoreExpected`) because its expected value is a
function-local `static`, shared by all threads and overwritten when the exchange fails.
Callers are the TaskThreads themselves (from inside `Run()`) and other threads (EventThread,
IdleTaskThread). The round robin of the picker is any thread of its pool; the heap of a thread
is a set of tasks, some of which are due.

Assumed: `Run()` begins with `GetEvents()`, as every `Run()` of the framework does; the
deletion of a task waits until nobody is inside `Signal()` on it (the destructors of
EventContext, IdleTask and TimeoutTask take the locks under which others signal the task);
`compare_exchange_weak` does not fail spuriously (x86).

`TaskLifecycle` is what the scheduler promises about one task: idle, ready, running and
gone, bound to one thread from the moment it is placed until it runs. `ImplementsLifecycle`
states that `TaskSched` implements it; it is checked by TLC and proved.

### RWMutex

Every method is atomic under `fInternalLock` up to its `Wait`; a waiting thread is asleep or
awake, and may wake up by itself. `Unlock` goes by `fState`, not by what the caller holds.

### TimerHeap

The array with `ShiftUp` and `ShiftDown` one iteration per step, and the growing of the array.
`misplaced` is a history variable: it becomes true when `Remove` fills an inner slot with a
leaf that is smaller than the slot's parent, the one thing `Extract` does not repair.
`HeapOrder` is what the operations promise until then. `sanityCheck` is what the assertions of
`Heap.cpp` say of every heap; it is false afterwards, which the run `idle_oversleeps` shows by what it does
to the timers.

### EventLoop

The epoll layer (`select_watchevent`, `select_modwatch`, `select_removeevent`, the batch
`gEpollEvents` and its counters), `RequestEvent`, `Cleanup` in two steps around the wait in
`UnRegister`, and `EventThread::Entry`. The kernel hands closed descriptors out again. The
RefTable is a function from ids to contexts: its counting is in `RefTable`. Not in it:
`SnarfEventContext`, edge triggered watches, the requests of `CFState` (in `Server`), and two
threads drawing an id at once (below).

### RefTable

The chains of `HashTable` as sequences, the reference counts, `UnRegister` waiting on the
condition of its Ref, spurious wakeups, refused registrations, and `Swap`.

### IdleTimer

The IdleTaskThread's loop with the clock: `msec` is read once per turn, so that time may pass
between it and the wait. The timers are the elements of the array of `TimerHeap`, which this module
extends: `SetIdleTimer` inserts or updates one, `CancelTimeout` and the destructor go through
`Remove`, the thread looks at slot 1 (`PeekMin`) and extracts it, and each operation runs its loop to
the end before `fHeapMutex` is let go (a loop that runs is `shift # "none"`). So the earliest timer is
what the array says it is, also after a `Remove` that broke its order: `SleepsUntilLowest` (the thread
sleeps past no timer in the heap) is what the comment in `Entry` says, and is violated;
`NeverSleepsPast` is the same until `misplaced`. Callers stop before `Release`, the order of `CFMain`.

### Server

`CFMain` from the first step to the last: initialisation, configuration, the wait for an exit code,
and the nine release steps, each a step of its own with what it waits for: 1 and 3 for the flag they set to be
cleared by the event thread, 5 for the end of the event
thread, 7 for the task threads, which run what was signalled before they end, 9 for the idle thread, which first
lets its timers expire. 2, 4, 6 and 8 (`kDisableEvent`, which stays set, the stop request to the event thread, the kill of the timeout task, its
deletion) wait for nothing. From step 6 on no timeout is signalled, from step 7 on no task runs.

The `EventThread` is its loop over `CFState::sState`, with the local variables that survive from turn to turn
(`theErr`, `theCurrentEvent`). `RequestEvent` on a task thread is two steps, the test of `kDisableEvent` and the
registration, so that the flag and the whole clean-up may come between them; on the event thread it is one, since
the clean-up runs on that thread too. The clean-up takes one context at a time; it comes to every context that was
in the table when it began (`listed`) and may come to one that is added. `late` names the sessions whose
first request was past its test when the flag was set: `OnlyLateRegistered` says that they are all that
may be left; the comments of the code (`EventContext.cpp:304`, `CFMain.cpp:149`) say that nothing is.

There is one `TCPListenerSocket`, with every outcome of `accept()` (`EMFILE` ends the process,
`TCPListenerSocket.cpp:137-143`), its idle timer and its end. It sleeps when `GetSessionTask()` has
called `SlowDown()`. That choice (`slow`) is free: `TCPListenerSocket` leaves it to the derived class, and the one that
`src/` has, `HTTPListenerSocket`, asks `OverMaxConnections()`, which is always false. A session is free, new
(accepted on a task thread, no request yet), asking (between the two steps of `RequestEvent`), open or
signalled; one of them may ask the server to exit. How events are found is in `EventLoop`.

### ClientSocket, ResponseStream

`ClientSocket` is a `TCPClientSocket` or an `HTTPClientSocket` (GET and POST over two connections,
the messages in base64) in front of a kernel that takes and gives any part, with a caller that calls
again after the event it was told to wait for. `ResponseStream` is the output stream of the server
and of the client, `Put`, `WriteV` and `Flush`, over the growing `StringFormatter`.

### FileSource, UDPSockets, TimeoutTasks

`FileSource` has several readers: those that go through the cache hold `fMutex`, those that read
from the disk take no lock and share the position. Buffers are evicted in order of use, fills fail,
the file is replaced between reads. A cache that is disabled between the unlocked test of `Read` and
the lock of `ReadFromCache` (`Assert(0)` there) is left out: the two are one step.

`UDPSockets` is the pool with its demuxers: get and register are two steps, so that callers interleave; ports are 16 bit and other processes hold some. Port 0 is met
only by a search that stepped over the last port, in a pair with port 1, which cannot be bound.

`TimeoutTasks` counts time down to each timeout and to the next run of the scanning task;
`SetTimeout` is its two assignments, `Run` goes one element of the `Queue` per step.

### Text, tables and algorithms

`StringParser` (with `StrPtrLen`), `StringFormatter`, `StringTranslator`, `DateTranslator`,
`QueryParamList`, `HTTPPacket` (with `HTTPProtocol`), `HTTPDispatcher`, `UserAgentParser`, `ConfParser`,
`Base64`, `MD5`, `Utils` (with `SocketUtils`) and `Queue` (with `BufferPool`) are operators over values. A text
is a sequence of symbols; a symbol is a character or, where the code never looks inside, a word.
`MD5` has the gathering of pieces, the count of bits, the padding and what is digested for
authentication and passwords; what the rounds compute of a block is a parameter.

`TextCases` puts writers and readers together over one input: the parts an input is made of say
what has to come out. `RoundTrips` states it for what is encoded and decoded, `MessagesRead` for
what is parsed. They are silent about the inputs for which a comment or a test of the repository asks for something that
the code does not do: a query that gives a name twice, the steps of `Queue::Test` that expect the iterator to begin at
the tail, a reason of more than one word. These, and what has neither comment nor test to go by
(a head longer than its first buffer, an interface that vanishes between two calls, a user agent
without prefix), are listed below. The characters are there for these two properties, which are about the
conversions; the other modules take what is parsed as a value.

### MCCore, MCData

Both choose one part in the initial state, and only that part takes steps: the parts share no
state in the code either, or share it as the modules above say. `MCCore` has the lock, the table, the
idle timers and the server, `MCData` the rest but for the scheduler, the event loop and the session, which have
runs of their own. `IdleView` and `DataView` tell the heap's states
apart by what is in each slot and not by which of the interchangeable elements it is.

### HTTPSession

One connection: the client (what it sends, reads, and how it leaves), the events and the
timeout, and one action per state of `HTTPSession::Run`. `ReadRequest` is two actions, as in the
code: `TakeLeftover` when the previous request is done, `ReadSocket` otherwise; both end in
`Scan`, which finds the end of a head. `FilteringRequest` is `SetupRequest` with the reading of
the body, `SendingResponse` is `SetupResponse` and `Flush`.

Bytes are cells <<message, position>>, so that the properties can say which message a byte
belongs to: the last cell of a head stands for whatever ends a head in the code, the rest of the
text is left out. A head that does not begin where a message begins does not parse.
`fReadMutex` and `fSessionMutex` are locked and unlocked together and are one lock. Nothing in
`src/` counts object holders, decodes base64, splits a connection in two or sets
`fRequestBodyLen`; those branches are left out. That a signalled task runs, and on the thread it
asked for, is what `TaskSched` shows; that a level triggered event arrives, what `EventLoop` shows.

## Runs

| run | constants | what it shows |
|---|---|---|
| `sched` | 2 tasks (one with a default thread), 2 short and 1 blocking thread, 1 outside caller | `OnePlace`, `AliveIffScheduled`, `SameThread`, `ImplementsLifecycle` |
| `sched_stop` | 2 tasks, 1 short and 1 blocking thread, stop requests at any time | `ExitOnlyOnStop`, `DeadStaysOut`, `ScheduledRuns` |
| `sched_drop` | 1 task, 2 threads, 1 caller | an event is lost (violation of `NoEventDropped`) |
| `rwmutex_two_writers` | the lock part of `core`, 2 writers, 1 reader | two writers in the lock (violation of `OneWriter`) |
| `loop` | 2 contexts, 2 descriptors, 2 ids | `LoopConsistent`, `LevelEventDelivered` |
| `loop_one_shot` | the same | a one shot event is lost (violation of `OneShotEventDelivered`) |
| `http` | 2 threads, ten clients, buffer of 4 cells, responses of 2, socket that takes 3 | `WholeRequests`, `BufferExact`, `NoStalledRequest`, `ResponsesWhole`, `LockOwner`, `HangupEnds` |
| `http_resend` | 2 threads, the same clients | a response is sent twice (violation of `ResponseOnce`) |
| `core` | lock: 1 writer that also reads, 3 readers | `WaitersCounted`, `Exclusion`, `WriterEnters`, `ReaderEnters` |
| | table: 3 Refs, 2 of them with equal keys, one hash slot, 2 users | `SafeWhileHeld`, `TableConsistent`, `UnRegisterReturns` |
| | idle: 2 tasks, timeouts of 1 and 2 | `NeverSleepsPast`, `IdleConsistent`, `TimerFires`, `StopReturns` |
| | server: the listener, 1 session, 1 waiting connection | `OnlyLateRegistered`, `ShutdownCompletes` |
| `idle_oversleeps` | the idle part of `core`, 7 tasks, timeouts of 0 to 2 | after a cancelled timer the thread sleeps past another (violation of `SleepsUntilLowest`) |
| `data` | heap: 6 elements, 3 values, array of 2 slots | `HeapConsistent`, `HeapOrder` |
| | file: 2 readers, files of 3 bytes and 1, at most 2 buffers, 1 fault | `PoolConsistent`, `ReadsExact` |
| | stream: 5 bytes over a buffer of 2, server and client | `StreamInOrder` |
| | client: 2 messages, 2 bytes behind an answer of 2, TCP and HTTP | `StreamsWhole`, `WaitsForTheRightEvent` |
| | udp: 3 callers, 2 sources, ports 4 to 7 | `PairsConsistent` |
| | timeout: 2 timeouts, a second of 2 ticks, interval of 5 | `TimeoutsKept` |
| | text: the inputs listed in `MCData` | `RoundTrips`, `MessagesRead` |
| `client_get` | the client part of `data`, answers in several pieces | the count of bytes received is wrong (violation of `ReceivedExact`) |

Why the bounds are enough: two tasks compete for a thread, and with two short threads a signal
can go to the wrong one; one outside caller and the threads' own signals give two racing calls
on one task, and what a third could do is covered by the proofs, which hold for any sets. Six heap
elements are the first size at which the last leaf lies in another subtree than the element
removed and `Remove` can break the order; the two tasks of `core` keep theirs, which is what `NeverSleepsPast`
asks for (the proof is for any number), and `idle_oversleeps` takes seven, since the lost order shows at the
root only after another timer was taken. Two descriptors make a batch of two events, the least in which one is discarded, and
two contexts hand a number from one to the other. Colliding and equal keys need three Refs.
The clients of `http` send, between them, requests with and without a body back to back, a head
as long as the buffer, a head that does not parse, a body that is not announced, a '$' packet and
one that is too long; the buffer is smaller than two messages and the socket takes less than two
responses, so that both run full in the middle of one.

The listener and one session of the server put two contexts into the table, so that the clean-up can be cut
into between them, and the session may come twice; the proof is for any number. In `data` a file of
three blocks over two buffers evicts in the middle of a read; the stream is longer than two buffers;
the second message meets what is left of the first; three callers share one pair and look for
another among ports of which another process may take one; the lateness that `TimeoutsKept` allows is reached
on both of its sides, so that a tighter bound is false. The blocks of `MD5` are 8 bytes with words of
one byte, so that the count of bits overflows at 32 bytes, which the inputs cross; what ends at,
before and after the end of a block, a buffer or a line is among the inputs.

Bounds that are not in the code: `MaxTime`, `MaxLag` (time in `IdleTimer` ends at `Horizon`),
`MaxRead` (the client of a session stops reading, since a response that is built again at each
wake-up never ends), `MaxBacklog`, `MaxBuffers`, `MaxFaults`, `Length`, `MaxMessages`, `MaxData`,
`NumTimeouts`. The timeouts' part ends with their thread; the client stream's ends when something was written
between a `Flush` that failed and its retry (below).

### Fairness

* `TaskSched`: threads keep running, `Run()` returns, a `Signal()` once begun is finished and
  time passes. Nobody is obliged to signal. `ScheduledRuns` is conditional: without "new work
  ceases" a task may starve behind timers or behind a task that signals itself in every run,
  and a stopped thread abandons its heap.
* `RWMutex`: who is in leaves, who was woken tests again. No wait ends by itself, although the
  code has a timeout of three days. `ReaderEnters` supposes that writers cease: a waiting
  writer shuts new readers out, so that readers may starve.
* `EventLoop`: the event thread and signalled tasks run. `UnRegister` is strongly fair: the
  event thread may take the context again and again, each `Release` signals the waiting owner,
  and the mutex is assumed not to starve it.
* `RefTable`: users release what they resolved, owners that were woken test again.
* `IdleTimer`: the thread runs, time passes and a timed wait ends when its time has come.
* `Server`: the main thread, the event thread, the idle thread, the listener and each session run; the timeout of a
  session comes until the timeout task is killed. All of it is weak. Nobody is obliged to connect or to ask for the exit.
* The parts of `data` need none: their properties are invariants.
* `HTTPSession`: a signalled session runs and a level triggered event reaches it. The client and
  the timeout are obliged to nothing: `HangupEnds` holds without the timeout.

## Proofs

`TaskSchedProofs` proves, for any tasks, threads, callers and events, that `TypeOK`, `OnePlace`,
`AliveIffScheduled`, `DeadStaysOut`, `SameThread` and `ExitOnlyOnStop` are invariants of `Spec`,
stop requests included. Assumed is only `SchedAssumption` (both pools have a thread, names are
distinct, as `CFMain` sees to). None of these is inductive alone. The invariant is their
conjunction with `DoomedIsDead` (a thread about to delete a task holds one that is marked dead):

* a second `Signal` cannot place a task twice because `kAlive` is on exactly while the task is
  scheduled (`AliveIffScheduled`), and the step that turns it off succeeds only for the thread
  that holds the task, which by `OnePlace` holds it alone;
* `Found` never meets a task that is not valid (`ExitOnlyOnStop`) because dead tasks are in no
  queue or heap (`DeadStaysOut`), which holds because they keep `kAlive`;
* `SameThread` needs `OnePlace` when `BeginRun` forgets the thread and `ForceSameThread` sets it.

The same module proves from that invariant that every step of `TaskSched` is a step of
`TaskLifecycle` or leaves its variables alone.

`RWMutexProofs` proves that the counts of waiters are exact for any finite set of threads, and
that a single writer is excluded from all readers. The invariant is `Exclusion` itself together
with `TypeOK`: with one writer a writer that enters knows from `fState <= 0` that no reader is in.

`HTTPSessionProofs` proves `BufferExact` and `LockOwner` for any threads, messages and sizes
allowed by `SessionAssumption` (scripts are sequences of messages, a buffer of at least two bytes, no empty head). Neither is
inductive. `IInv` adds that `recv()` has returned no more than the client sent (`StreamInv`), the
types of the offsets (`BufferInv`), that no more of a body is there than its head announced
(`BodyInv`: without it the next read could take cells of the following request), that there is no
request before `HaveCompleteMessage` (`NoRequestYet`, the two assertions of the code there), and
that the lock is free or held once by a thread (`ThreadInv`). The argument for `BufferExact` is
that `Scan` splits what is in the buffer in two and that reading the bytes put back moves them
from one counter to the other; `LockOwner` follows because the two places
that return with the mutexes locked ask for the same thread, and `BeginRun` honours it.
`NoStalledRequest` needs `SleepInv`: a buffer that `fRequestPtr` does not mark holds no complete
head, which `Scan` sees to and which no step between two scans can change. `ResponsesWhole` is
proved of what was written, sent or not (`OutputInv`): `delivered` with the rest of the
output buffer behind it is a chain of responses that ends with a whole one. `Flush` moves cells
from one part of it to the other, `SetupResponse` puts a response behind it, and what was delivered is
a beginning of it.

`WholeRequests` is proved there, too. The stream of the client is defined by recursion; that its messages lie
one behind the other (`Laid(S)`, with the start of each message in `S`) is proved by a smallest
counterexample, for any script. The invariant (`Framed(S)`) says which cells of the stream are in the buffer (`Buffered`:
what was put back, and a head that is not complete, is what was received last) and where in the stream the
session is in each state (`AtWork`): between two requests at the start of a message, then behind its head, then
behind what was read of its body. `Scan` finds the head of a message that starts where the buffer starts as soon as
all of it is there, and nothing else (`ScanFrames`); a body is read first from what was put back and from the socket only
when that is used up, so that its cells are consecutive (`FilteringReads`). Messages behind one that is too big for
the buffer, or that has a body its head does not announce, are not claimed to be framed (`WellFramed`).

`CoreProofs` has two modules:

* `RefTable`: `SafeWhileHeld` and `TableConsistent` together are inductive. An object stays while it
  is held because its owner sees the exact count, and the count is exact because a place that
  is used again is held by nobody. `Unlink` and `Link` are treated by lemmas on chains without repetitions.
  Users are finitely many (`RefAssumption`).
* `Server`: `OnlyLateRegistered`, with `RequestEvent` in two steps and the clean-up one context at a time. It needs
  `FlagsKept` (which request of `CFState` can be set in which step of the shutdown), `RequestsLate` (once
  `kDisableEvent` is set, a session that is past its test and in no table is one of `late`, because no other passes
  it any more) and `CleanListed` (what is registered during the clean-up was there when it began or is late).

`EventLoopProofs` proves `LoopConsistent` for any contexts, descriptors and ids. `LoopInv` adds that a
descriptor has one owner, which uses it or closes it (`OneOwner`), that epoll watches no descriptor that is
closed (`WatchedInUse`), that the table is the inverse of `fUniqueID` (`IdsMatch`) and that the context in the hands
of the event thread has an id (`HeldHasId`). A number that the kernel gives out again finds `gDataMap`
stale, and `RequestEvent` overwrites the entry before the number is watched.

`TimerProofs` proves `HeapConsistent` and `HeapOrder` for any elements and times. `OrderInv` says what holds in
the middle of the loops: while an element goes up, only it may be smaller than its parent, and its
children are in order with its parent; while one goes down, only its children may be smaller than it.
`misplaced` stays in the statement because the code breaks the order there.

That the IdleTaskThread and its callers touch the heap by these operations only, one at a time, is proved
as a refinement (`IdleImplementsHeap`), so that both invariants hold of the timers. From there `NeverSleepsPast`
follows for any tasks and timeouts: in an array whose children are not smaller than their parents the root is
the least (`RootIsLeast`, by the smallest slot that is not), and a timer that is set while the thread sleeps or has
looked wakes it up. `IdleConsistent` needs no order: an element that is taken out is in the hands of the
thread until it has signalled it, under the mutex.

The same module proves `TimeoutsKept` for any number of timeouts, any periods and any length of a second.
That the ring is the list of the objects that exist is proved of queues as values: `EnQueue` puts an element
at the end of the list and `Remove` takes it out, because in a ring (`Ring`) both neighbours of every
element agree. The bound on lateness needs an invariant for the middle of a run (`OnTime`) and one for the
sleep (`Asleep`): a turn of the loop makes the interval longer by less than a second, so that what is
left of the loop can add no more than that for each element to come, and what was passed is not late at all.

`IOProofs` has four modules:

* `ClientSocket`: `WaitsForTheRightEvent`, which names the socket and the direction: to write for a call that stopped in
  a connect or a send, on the socket of that connection, also where a `Read` has still to send its `GET`; to read for
  every other read, on the socket of the `GET`. It needs that a `GET` is received only when it has left the send buffer; and `StreamsWhole` for any number of messages, any length of the answer and of the buffer
  (`ClientAssumption`). `WholeInv` says what is on the wire while nothing is being sent and while a message is
  (`SendSide`), and from when on the answer to the `GET` and the bytes behind it were told apart (`ReadSide`). One
  buffer serves the `POST` and the `GET`: the invariant holds because a call is only begun when the last one is
  through, so that the rest in the buffer is that of the call that is repeated, and because the connection of the
  `POST` is begun by the first message and by no other. `SendV` cuts the front of the rest (`RestMoves`),
  and a new message adds its encoding to the stream (`PostedGrows`). The latter is about `FlattenSeq` of any
  number of messages: the function behind the fold is shown to exist and to agree with that of one
  message less, by induction stated for a set of numbers (`AllReached`).
* `ResponseStream`: `StreamInOrder` for any sizes of the buffer and of the one or two vectors, for the server's
  stream and the client's (`StreamSpec`). `StreamInv` adds that the formatter may grow, so that `Put` drops
  nothing, that the sent part lies within the buffer and that only a client's stream has a tail. A `send()` takes
  the front of buffer and vectors together (`SendKeeps`); what it left of the vectors is what
  `PutRest` puts into the buffer, whichever of them it stopped in (`PutRestOfOne`, `PutRestOfTwo`).
* `UDPSockets`: `PairsConsistent` for any finite set of callers and any ports (`PortAssumption`). `UDPInv` adds
  what a caller in the middle of a call knows (`CallsFit`): between the search and `RegisterTask`
  others register and release, and the pair found stays queued because it is counted already.
* `FileSource`: `PoolConsistent` for any readers, files and sizes. `FileInv` adds that the map is an interval of blocks
  (`MapSized`), that a call that is about to get a buffer has a block of it (`BlockInMap`), and that the
  limit of the pool leaves a free buffer below it (`LimitFits`: a counting argument, an injective queue shorter
  than the set of buffers misses one). `ReadsExact` for the same readers, files and sizes: `ReadInv` adds what each
  block holds that is filled and not spoiled (`BlocksRight`), how far a read has come and that what it copied is
  what the file has from its position on (`Progress`), and where a fill stands between its seek and its read, which
  another access may cut into (`AtDisk`).

Out of the prover's reach and left to TLC: everything about fairness (`ScheduledRuns`,
`WriterEnters`, `ReaderEnters`, `LevelEventDelivered`, `UnRegisterReturns`, `TimerFires`,
`StopReturns`, `ShutdownCompletes`, `HangupEnds`), and what the algorithms under `RoundTrips`
and `MessagesRead` compute: they are recursive operators over texts, and a statement about all texts would be an
induction over data. Their cases are enumerated. The folds that other components use are unfolded by
hand in the proofs.

## Where the code and its comments disagree

With a run: a lost event at the end of `Run()` (`Task.cpp:341`), two writers in the lock
(`RWMutex.cpp:106`), the last event of a batch discarded (`epollev.cpp:140`), a response sent again
(`HTTPSession.cpp:208`), bytes counted twice while the answer to a GET is received
(`ClientSocket.cpp:253`), and a timer that is slept past because `Remove` left the heap out of order
(`Heap.cpp:148`, against the comment at `IdleTask.cpp:95`).

Seen while modelling, without a run of their own. Threads, timers and events:

* `Heap.cpp:148`: `Extract` only moves the leaf down. When `Remove` takes an inner element out,
  the leaf may be smaller than its new parent, against the assertions of `sanityCheck`
  (`Heap.cpp:204-208`), which are compiled out. `HeapOrder` is stated for the time before.
* `EventContext.cpp:156`: `RequestEvent` tests `kDisableEvent` and then registers and watches the context; on a task
  thread the flag and the whole clean-up may come in between, so that the context is in the table and in epoll
  afterwards. `EventContext.cpp:304` says that no new events come from then on, `CFMain.cpp:149` that all event stop.
  It takes a first request on a task thread: a session accepted by `Run()` of a listener that has slowed down, which
  today's `HTTPListenerSocket` never does, or a task of the user that opens a `ClientSocket`. `OnlyLateRegistered`
  says that nothing else is left.
* `TCPListenerSocket.cpp:206`: `RequestEvent(EV_RM)` removes the watch of a listener that slows down and leaves
  `fWatchEventCalled` set, so that the later request (line 231) modifies a watch that is gone
  (`EventContext.cpp:161`): the listener never accepts again. It takes a listener whose `GetSessionTask()` calls
  `SlowDown()`; that of `HTTPListenerSocket` does not, because `OverMaxConnections()` is always false. The comment at
  line 228 speaks of having run out of descriptors, but the process exits then (lines 137-143).
* `EventContext.cpp:221`: `topVal` is a static that a failed exchange overwrites. The counter
  of ids never wraps with one thread, and wraps at once when two threads race, so that two
  contexts may find the same id free; the second `Register` is refused and the refusal ignored.
* `EventContext.cpp:292`: `continue` tests an old `theErr` and handles an old event again, so that a
  connection may be accepted after the request to stop listening.
* `IdleTask.cpp:57`: `SetIdleTimer` moves a pending timer to an earlier time, while
  `IdleTask.h:105` says it does nothing.
* `TimeoutTask.cpp:83`: the comment says 60 seconds and "smallest interval"; the code takes
  15 seconds and the last interval that is smaller, plus one second, so that the sleep creeps up
  with each timeout (`TimeoutsKept` has this creep in its bound: it says how late a timeout can get, not that it is on
  time). A task that is due is signalled in every run. `RefreshTimeout` after
  `SetTimeout(0)` makes "now" of the "NEVER" of `TimeoutTask.h:116`.
* `Queue.cpp:170`: `Queue::Test`, which is compiled out, expects the iterator to begin at the tail;
  it begins at the head, as its users expect, and the test would fail there and only there.

HTTP:

* `HTTPSession.cpp:185`: the 505 for an illegal version is overruled by the assignment behind
  it, and the request is dispatched.
* `HTTPSession.cpp:416`: requests already in the buffer are served behind a response that said
  "Connection: close", because the kill event is looked at in the next `Run()`.
* `HTTPRequestStream.cpp:261`: after a head that was too long (`E2BIG`) the rest of it is read as
  a new request; a '$' packet longer than the buffer ends in a `recv()` of length 0, which is
  taken for the end of the connection.
* `HTTPResponseStream::Flush` returns `EAGAIN` for hard errors too; the client's `Flush` takes what
  was put between a failed `Flush` and its retry for sent, and its `WriteV` goes past what the
  `ClientSocket` still has to send.
* A request line without a version takes the first header line for it; a response whose reason has
  two words, which `CreateResponseHeader()` writes, does not parse (`HTTPPacket.cpp:179`); a head longer than the
  first buffer leaves the packet's pointer at the old buffer.
* `HTTPListenerSocket::OverMaxConnections` is always false; an error of `accept()` other than `EAGAIN`
  and `EMFILE` makes a session without a descriptor.
* `QueryParamList.cpp:130` returns the last value of a name; the comment at line 127 says the first.

Sockets, files and text:

* `ClientSocket.cpp:122` says of the branch of the `POST` connection that it waits for "a read event on the POST Socket"; it
  asks for `EV_WR` there, which is what a send that was stopped needs and what `WaitsForTheRightEvent` states.
* A `ClientSocket` that met a hard error sends its old rest when it is used again and drops the new
  message.
* `UDPSocketPool.h:60` says "This may return NULL if no pair is available"; the port is 16 bits wide,
  the search steps over its end and never returns, with the mutex held.
* `GetUDPSocketPair` reads the demuxer without its mutex, `UDPDemuxer.h:151` says "Assumes that parent
  has grabbed the Mutex!".
* `FileSource`: a block whose fill failed stays in the map with no bytes, and a read that begins inside
  it copies a negative length; `Set` keeps the map of the old file. `ReadsExact` leaves out reads that
  copied from such a block (`spoiled`) or that another access cut into (`raced`), and shows that all others are exact.
* `SocketUtils.cpp:359`: an interface that vanishes between two calls makes the array too short.
* `EncodeURL` writes one digit and a NUL for control characters; `DecodeURL` keeps the count of dots
  across a '?'; `GetWord` with a limit writes one byte more; an empty configuration file is an error;
  `MD5Encode` does not terminate a result that is cut off; the version of a user agent is split by
  numbers that wrap, and nothing of it is found where the prefix is missing.

## Not modelled

Windows, macOS and `select` variants (`ev.cpp`, `win32ev.cpp`, `mymutex.cpp`, `mycondition.cpp`)
are not in the modelled build. `CommonUtilitiesLib` is borrowed (getopt, daemon,
logging, crash dumps). `Mutex`, `Cond` and `SpinLock` are a thin layer over pthreads and are taken as working, with waits that end for nothing
or by their timeout. Socket options, multicast, sending and receiving of UDP, process identity, code
loading (`CodeFragment`), messages (`CFEnv`) and assertions are system calls and I/O. The rounds of
MD5 are 32 bit arithmetic out of TLC's reach. Nothing uses `HTTPClientRequestStream`. URIs longer than
512 bytes, printing and `Heap::Test` are left out. The global lock around `Run()` (`CallLocked`,
`GlobalUnlock`) is in the plan.

## Plan

Modelled: the scheduler, the locks, the event loop, the timers, the session, the server's life, the
sockets, the caches and pools, and the text algorithms. Left:

1. The global lock around `Run()` as a composition of the scheduler's loop and `RWMutex`.
2. Two threads that draw ids at once (`EventContext.cpp:221`), and edge triggered watches.
