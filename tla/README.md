# A TLA+ specification of taotu

taotu is a Reactor network library in C++ on top of io_uring. This directory
holds TLA+ modules that model it, from the completions of io_uring up to remote
procedure calls, TLC configurations that check them on small instances, and
TLAPS proofs, for every size, about connections, the event loop, the logger,
the server side, remote procedure calls and the object pool.
`PROJECT.json` lists the components, the runs, the correspondence between
definitions and source lines, the hazards and the theorems.

Paths below are relative to `src/src/`.

## 1. The system

A program has one or more **event loops**, each an `EventManager` run by one
thread. An iteration of `EventManager::Start` polls the io_uring for
completions, lets active `Eventer`s do their work, runs expired time tasks and
destroys closed connections. Other threads reach a loop only through its timer
(`RunAt`, `RunSoon`, ...) and `Quit`.

| Part | State | Operations | Interacts with | What makes it correct |
|---|---|---|---|---|
| `Connecting` | state, two output buffers, an input buffer, in-flight flags and cancel keys | `Send`, `ShutDownWrite`, `ForceClose(After)`, `Start/Stop Reading/Writing`, completion handlers | submits operations to `Poller`; calls the user back; tells `EventManager` that it is closed | bytes conserved in both directions; no stall; told once up and once down |
| `Poller` | `ops_`, `states_`, next key, pending submissions | submit, cancel, `HandleCqe`, `Poll` | kernel; `Eventer`; completion functions with raw `self` pointers | a completion reaches only the object that submitted the operation |
| `Eventer` | descriptor, event mask, `is_handling_` | register, `Work`, destruction | `Poller`, its owner's callbacks | not destroyed inside its own `Work` |
| `EventManager` | `connection_map_`, `closed_fds_`, `should_quit_`, eventfd | `Start`, `RunAt`..., `InsertNewConnection`, `Quit`, `WakeUp` | all parts of its loop; other threads | tasks neither lost nor late; `Quit` ends the loop; no connection leaks |
| `Timer`, `TimePoint` | a multimap of tasks under a spin lock | add, minimum wait, expire | `EventManager` | order; the wait fits an `int` |
| `Connector` | state, eventer, retry delay | `Start`, `Stop`, `Connect`, `DoRetrying`, `DoWriting`, `DoWithError` | `Poller`, time tasks, `ClientReactorManager` | no descriptor leaks, attempts do not multiply, it keeps trying |
| `ClientReactorManager`, `Client` | the connection, `can_connect_` | `Connect`, `Disconnect`, `Stop` | `Connector`, `EventManager` | only connected sockets become connections |
| `Acceptor` | listening socket, idle descriptor, accept request | `Listen`, `OnAcceptComplete` | kernel, `ServerReactorManager` | always one accept request; clients are answered when descriptors run out |
| `Balancer` | strategy, cursor | `PickOneEventManager` | event loops | I/O threads only, evenly |
| `ServerReactorManager`, `Server` | event loops and their threads | accept callback, `Loop` | `Acceptor`, `Balancer`, event loops | an accepted socket is in one place |
| `IoBuffer` | a vector and two indices | append, retrieve, grow, shrink, header, read from and write to descriptors | `Connecting`, RPC | it is a queue of bytes (until it is compacted) |
| `Logger` | a ring of slots with sequence numbers, a writer thread, two files | `Enqueue`, `WriteDownLogs`, `StartLogger`, `EndLogger` | every thread | no slot shared, no record lost, no lost wake-up |
| RPC (`RpcCodec`, `RpcAsyncChannel`, `RpcSyncChannel`, `RpcServer`) | outstanding calls by id, input cut anywhere, closures held by services | `CallMethod`, `OnMessage`, `OnRpcMessage`, `DoneCallback`, destruction | `Connecting` or a blocking socket, services | a call is executed at most once and ends once, with its own reply |
| `ThreadPool` | two queues, two mutexes, a condition variable | `AddTask`, workers | user threads | tasks run, shutdown ends |
| `SpinLock`, `ObjectPool`, `MemoryPool` | a flag; a free list | lock; allocate, free | everywhere | exclusion; a block has one owner |
| `Socketer`, `NetAddress` | a descriptor; an address | one system call each | kernel | none of their own |

What is hard here: completions that outlive the objects they point to;
addresses and descriptors that are reused; partial reads and writes, with the
user sending and closing from inside callbacks; the race between a thread that
registers a task and a loop about to sleep; retries that race with `Stop`;
exhausted descriptors; a lock-free ring together with a condition variable;
frames cut anywhere and responses in any order; a free list whose links lie in
the objects. The list of these, each at its line, is `hazards` in `PROJECT.json`.

## 2. Modules

| Module | Models |
|---|---|
| `Connecting` | `connecting.*`, the reads, writes and cancellations of `poller.*`, connection insertion, destruction and quitting in `event_manager.cc` |
| `ConnectingProofs`, `ConnectingFlow`, `ConnectingFlowProofs` | TLAPS proofs about `Connecting`: identity and callbacks; the invariant that accounts for every byte; that the handlers keep it, and what follows |
| `EventLoop` | `Start`, time tasks, waking and quitting in `event_manager.*`; `timer.*`, `time_point.*`; the poll request on the eventfd |
| `Client` | `connector.*`, client part of `reactor_manager.*`, `client.*`, poll requests of `poller.*`, `eventer.*` |
| `Server` | `acceptor.*`, `balancer.*`, server part of `reactor_manager.*`, `Server::Start` |
| `RpcCodec` | the framing of `rpc_codec.*`, as operators on sequences |
| `RpcChannel` | both channels of `rpc_channel.*`, the rest of `rpc_codec.*`, `rpc_server.*` |
| `RpcCall` | the abstract call that `RpcChannel` implements |
| `ObjectPool` | `object_pool.h`, `memory_pool.h`, `spin_lock.h`, the pool of `reactor_manager.h` |
| `Logger` | `logger.*` |
| `IoBuffer`, `ByteQueue` | `io_buffer.*`, and the abstract queue it implements |
| `LoggerProofs` | TLAPS proofs about `Logger` |
| `EventLoopProofs`, `ServerProofs`, `ObjectPoolProofs` | TLAPS proofs about `EventLoop`, `Server` and `ObjectPool` |
| `RpcProofs` | TLAPS proofs about `RpcChannel`: its inductive invariant, and the refinement of `RpcCall` |
| `MC...` | instances for TLC: symmetry sets and users of the buffer |

**Connecting.** `conn[c]` is a `Connecting` object with its buffers and flags
plus history (`told`, `accepted`, `write_faulted`, `read_faulted`). `ops` is
`Poller::ops_`, with the raw pointers as addresses, and `ring`, `cq`, `net` are
the kernel and the network. One thread runs the loop, so a completion handler
is one step, including every call the user makes in its callback; kernel and
peers interleave between steps. Handlers are operators from a loop state to a
loop state (`OnReadComplete`, `OnWriteComplete`, `DoClosing`, ...) and the
actions of `HandleCqe`, `RunTimeTask` and `DestroyClosedConnections` apply
them. A connection is destroyed when its requests have completed or after
`kMaxPendingIoRetries` iterations; the two-second limit of the code, reached
later than the count, is left out. The buffers are byte queues here, which the
IoBuffer runs justify until a compaction (`io_buffer.cc:309`). The header macro that
guards multishot receive is not defined by `linux/io_uring.h`, so the one-shot
`readv` path is the one that is compiled and modelled.

**EventLoop.** Calls of other threads are split at every shared access: put the
task in, read the minimum, compare, write the eventfd. The loop is split at
every statement of `Start` and `Poll`. Time is in ticks, `Milli` of them to a
millisecond, and a wait is a number of milliseconds reduced to the range
`IntSpan` of `int`.

**Client.** `connectors[k]` is a `Connector` with its manager; `eventers` is
memory in which `Eventer`s are built and destroyed; `poller` has prepared and
submitted entries, poll requests and completions. `socket()` and `connect()`
return any of the groups of results the code distinguishes. A retry delay may
end before the kernel and the loop have handled what was submitted earlier, so
a completion may come after its `Eventer` is gone and another one is built at
its address.

**Server.** Loop 0 handles accept completions statement by statement;
`kMinEvents` reads the size of each loop in a step of its own, because loops
change meanwhile. `StartLoop` is `ServerReactorManager::Loop`: the I/O loops are
started in turn, then loop 0, while clients already connect. Only `Balancer`'s
default selects that strategy; `ServerReactorManager` passes 0, round robin.

**Logger.** Every atomic access, lock and wait of producers and writer is a
step. `pending_` is unsigned, modulo `Span`.

**IoBuffer, ByteQueue.** Member functions are operators on `[buffer,
reading_index, writing_index]`; a byte is a number, so that loss and repetition
show. `Users` are sets of member functions with a bound on bytes. `ByteQueue` is
the abstract queue: bytes are put in at the end or in front, taken out in
order, and discarded only by a call that asks for more bytes than there are. Its
flag `intact` ends the promise; the refinement mapping takes it from `moved`,
the history of whether `ReserveWritableSpace` has moved the content, because
that move makes bytes readable again that were read before (`EnsuresSpace`).

**RpcCodec, RpcChannel, RpcCall.** A frame is a sequence of units: length, tag,
payload units, checksum. A unit knows the message it was cut from and its place
in it, so a length read at a wrong place is garbage and a checksum fails unless
tag and payload are those of one message, in order; both are computed from what
is in the buffer, never looked up. `RpcChannel` composes the framing with two
byte streams, a client that is an `RpcAsyncChannel` (calls are made on the
loop's thread, because `Connecting::Send` is unprotected, inside a callback or
between two) or an `RpcSyncChannel` (the caller blocks), and the channel that
`RpcServer` gives to the accepted connection, whose services keep their `done`
closures and run them later in any order. Streams are delivered in any pieces;
either end may close and lose the tail of its output, and the connection may be
reset. A message longer than `kMaxMessageLength` is sent and refused, as in the
code. `id_` has no initial value in the code, so `Init` gives it any, and it
wraps at `IdSpan`. `RpcCall` says what a caller may rely on, in five actions;
the refinement mapping takes a call from `pc` and `result`. An error reply ends
a call as `"empty"`: its closure runs and its response is untouched.

The input buffers of the event loops are modelled with their vectors
(`client_vec`, `server_vec`): what was read stays in front of the unread input
until everything is read, one `readv` brings at most the writable space and the
extra buffer, and what does not fit is appended, which makes the vector grow or,
if there is enough space in front, compacts it. A compaction leaves
`writing_index_` where it was, so the end finds bytes again that it has read:
it may refuse what it takes for a frame, execute a request again, write past
the vector, or stop reading because the writable space has underflowed.
`RpcCall` has the flag `intact` for it, and every RPC property speaks of the
time before the first compaction (`Compacted`), which large pipelined frames
reach: more than the writable space must arrive behind a partly read input.

**ObjectPool.** `memory` maps every node the pool has obtained to a pointer or an
object, since both use the same bytes. Allocation and release are split at every
access of the free list, so that the spin lock is what keeps threads apart.
`FreeList` is the least set that has `free_list_head_` and with a node the node
its link points to.

## 3. Runs

Ten runs pass and two exhibit a disagreement between a comment and the code.

| Run | Checks | Instance | States |
|---|---|---|---|
| `ConnectingIo` | `TypeOK`, `OutputConserved`, `NoStalledOutput`, `NeverDeaf`, `InputConserved` | one connection; the user sends up to 3 bytes, shuts down, closes; the peer sends 2 bytes, closes, resets; one fault | 825 k |
| `ConnectingClose` | `CompletionTargetsLive`, `Registered`, `CallbackProtocol`, `ClosedIsDestroyed`, `QuitTerminates` | two connections in one memory block and on one descriptor; closes at once and delayed, a high-water-mark callback that closes, `Quit` at any time | 42 k |
| `EventLoopWake` | `NeverOversleeps`, `TasksConserved`, `NeverOvertaken` | two threads, two tasks, delays shorter and longer than an `int` holds | 2.0 M |
| `EventLoopLive` | `DueTasksRun`, `QuitStopsLoop` | one thread, two tasks, one refused poll request | 92 k |
| `LoggerRing` | `WrittenInOrder`, `SlotExclusive`, `PendingCounts`, `SleepsOnlyWhenIdle`, `EndWritesAll`, `RecentLogsKept`, `DroppedOnlyWhenFull` | two producers with three records each, a ring of two, files of two records, two starts, `open` may fail | 1.3 M |
| `IoBufferQueue` | `IndexesInOrder`, `ImplementsByteQueue` | a user that always takes everything, one that never makes the buffer grow, and one that reads parts and makes it grow | 51 k |
| `ClientRetry` | `TypeOK`, `SocketOwned`, `LateCqeIgnored`, `OneAttempt`, `OutlivesWork`, `ConnectsAtLast` | one client, one `Connect`, one `Disconnect`, two blocks for `Eventer`s, three sockets, up to three failures | 179 k |
| `ServerAccept` | `OneAcceptRequest`, `DescriptorsAccounted`, `InOnePlace`, `HandedEvenly`, `EveryRequestAnswered` | four clients, three I/O threads, both strategies, three descriptors, one failing request | 131 k |
| `RpcCalls` | `ImplementsRpcCall`, `FramesAligned`, `EveryCallEnds` | two calls, asynchronous or blocking, to a method that exists or not; payloads of 0 to 2 units of which 2 are too long; two ids; input vectors of 6 units, 8 in the extra buffer | 522 k |
| `PoolBlocks` | `ObjectsIntact`, `BlocksConserved` | three threads, up to three objects, blocks of two mallocs (2, then 3) | 35 k |
| `LoggerEnd` | `EndReturns` is violated | one producer, one record | |
| `IoBufferCompact` | `EnsuresSpace` is violated | a user that reads part and lets the buffer grow | |

What each one is for:

- *ConnectingIo* is about the data. With three bytes in messages of up to two a
  write can be short, the second buffer can be filled during it and the swap can
  be followed by another short write; twelve keys leave room for every
  operation and cancellation of such a history. A full submission queue or a
  failed request happens once, anywhere.
- *ConnectingClose* is about identity and the end. One block and one descriptor
  force the second connection into the place of the first while requests of the
  first are still in the kernel or the completion queue, and the kernel is free
  never to complete a read. One retry is enough, because the model only
  distinguishes "waits again" from "waited long enough".
- *EventLoopWake* interleaves two threads with the loop at every shared access.
  One tick is half a millisecond, so truncation matters; a delay of 18 ticks
  exceeds the positive half of an `int` of 16 values.
- *LoggerRing* has more records than slots, so the ring wraps, fills and drops
  records, and enough per file for several rotations.
- *IoBufferQueue* shows the refinement `IoBuffer => ByteQueue` until a
  compaction, and that a user who reads everything at once never meets one;
  *IoBufferCompact* shows what a compaction does. The users are sets of member
  functions, so a run is exhaustive over their calls. A content that was moved
  is only read afterwards, a bound in `Put`: nothing is claimed of it.
- *ClientRetry* has enough sockets and failures for the back-off to reach its
  limit (`MaxDelay`). After the first failure (`MaxLate`) the retry may overtake
  requests and completions of the attempt before; after later ones it waits for
  them, which bounds the run.
- *ServerAccept* has more clients than descriptors and more clients than I/O
  threads, so descriptors run out and the cursor wraps. Clients connect before
  the loops have started too.
- *RpcCalls* is the composition of both ends of a connection. Two calls are
  enough for responses to overtake each other, two ids for the counter to wrap
  between them, and a message of the largest size and one above it for both
  answers of the length test. Cuts fall between any two units, in front of the
  length too. With more outstanding calls than ids an entry would be replaced;
  2^64 outstanding calls do not occur, and `IdSpan` is not below the number of
  calls here for that reason. Vectors of 6 units, less than two frames, grow
  and are compacted at both ends. That a compacted input makes a service execute
  a call twice, or an end deaf, is not reached with two calls of these sizes.
- *PoolBlocks* has a first malloc of two blocks and three objects, so the second
  malloc happens and the free list is emptied and refilled from both.

Deadlock is checked except in `RpcCalls` and `PoolBlocks`, where the system stops
when nobody calls any more, a blocking caller waits for ever, or the pool is
gone. Elsewhere, where the program ends on purpose (a loop that returned from
`Start`, producers with nothing left to log), the action `Terminated` stutters. Each property of a passing run has a mutant of the code
in `PROJECT.json` that violates it; mutants are the operators commented
*Mutant* in front of the definition they change.

### Fairness

- `Connecting`: the loop thread goes on to its next statement, and `Poll`,
  whose wait has a time-out, takes completions that are there. Strong fairness
  of `HandleCqe` is justified because a batch takes what is in the queue at
  every poll. Nothing is assumed of the kernel, the peers or the user.
- `EventLoop`: every thread takes the next statement of a call it has begun, a
  wait ends at its time-out or with a completion, time passes. Nobody has to
  call anything.
- `Client`: the loop runs, the kernel takes submitted entries and completes
  ready polls, a retry delay ends, and the network answers in the end (the
  kernel's own time-out is an answer).
- `Server`: the loops run and the kernel accepts or says why not. Nobody has to
  connect or hang up.
- `RpcChannel`: both loops handle what arrives, a caller goes on unless it is
  blocked, bytes in a stream arrive, and a service answers what it was asked.
  `EveryCallEnds` claims nothing once an end has closed, the connection was
  reset, the client refused a frame or an input buffer was compacted: then the
  code indeed leaves calls waiting.
- `Logger` (for `LoggerEnd`): strong fairness for mutexes and
  compare-and-exchange; the violation shows that even this does not help.

## 4. Proofs

TLAPS proves, for every value of the constants that the named assumptions
allow, all the safety properties that the runs check of `Connecting`,
`EventLoop`, `Logger`, `Server`, `RpcChannel` and `ObjectPool`.

| Module | Theorem | States |
|---|---|---|
| `ConnectingProofs` | `TypeCorrect` | `Spec => []TypeOK` |
| | `CompletionSafety` | `Spec => []CompletionTargetsLive` |
| | `CallbackOrder` | `Spec => []CallbackProtocol` |
| | `Registry` | `Spec => []Registered` |
| | `Inductive` | `Spec => []IInv`, from which these follow |
| `ConnectingFlowProofs` | `SpecOutputConserved` | `Spec => []OutputConserved` |
| | `SpecNoStalledOutput` | `Spec => []NoStalledOutput` |
| | `SpecNeverDeaf` | `Spec => []NeverDeaf` |
| | `SpecInputConserved` | `Spec => []InputConserved` |
| | `FlowInductive` | `Spec => []FlowInv`, from which these follow |
| `EventLoopProofs` | `SpecTasksConserved` | `Spec => []TasksConserved` |
| | `SpecNeverOvertaken` | `Spec => []NeverOvertaken` |
| | `SpecNeverOversleeps` | `ShortRun`: `Spec => []NeverOversleeps` |
| `LoggerProofs` | `TypeCorrect` | `Spec => []TypeOK` |
| | `NoLostWakeup` | `Spec => []SleepsOnlyWhenIdle` |
| | `RecentLogs` | `Spec => []RecentLogsKept` |
| | `EndLosesNothing` | `Spec => []EndWritesAll` |
| | `SlotsNeverShared` | `EndEarly = FALSE`: `Spec => []SlotExclusive` |
| | `LogInOrder` | `EndEarly = FALSE`: `Spec => []WrittenInOrder` |
| | `PendingIsCount` | `EndEarly = FALSE`: `Spec => []PendingCounts` |
| | `DropsOnlyWhenFull` | `EndEarly = FALSE`: `Spec => DroppedOnlyWhenFull`, an action property |
| | `RingInvariant` | `EndEarly = FALSE`: `Spec => []IInv`, from which these follow |
| `ServerProofs` | `ListensOnce` | `Spec => []OneAcceptRequest` |
| | `NoDescriptorLeak` | `Spec => []DescriptorsAccounted` |
| | `SocketInOnePlace` | `Spec => []InOnePlace` |
| | `ServerInvariant` | `Spec => []IInv`, from which these follow |
| | `BalancerEven` | `N >= 3` or no `kMinEvents`: `Spec => []HandedEvenly` |
| `ObjectPoolProofs` | `NoBlockLost` | `Spec => []BlocksConserved` |
| | `NoObjectOverwritten` | `Spec => []ObjectsIntact` |
| | `PoolInvariant` | `Spec => []IInv`, from which these follow |
| `RpcProofs` | `FramesNeverSlip` | `EnoughIds`: `Spec => []FramesAligned` |
| | `CallsImplementRpcCall` | `EnoughIds`: `Spec => ImplementsRpcCall`, the refinement |

Every inductive invariant was checked with TLC on the instance of the module's
run before it was proved. None of the properties below is inductive alone; what
each needs is the point of its proof. A fact that only one lemma needs is a
named step of its proof (`<1>DoneStep` of `NextKept`, say); facts that several
need are lemmas of their own. The few facts about sequences that are used
(`SeqAppend`, `SeqSub`, ...) are stated where they are used.

### Connecting

The only assumption is `BoundsAssumption` of `Connecting`: the bounds are
natural numbers, and 0, which stands for "none", names no object. That a
completion finds its connection alive depends on every *earlier* close having
cleared the pointers of its operations, and clearing them depends on the
connection knowing the key of each operation in flight; destroying the right
connection depends on `closed_fds` naming exactly the disconnected ones. `IInv`
therefore says:

- `GoodOps`: a connection with a read or write in flight knows its cancel key
  (`Cancellable`), and every operation that still has a completion function is
  `Owned`: its connection is alive, is at the operation's address, has the
  in-flight flag set and holds the operation's key;
- `GoodReg`: live connections and `connection_map_` correspond, `closed_fds_`
  is the set of descriptors of disconnected connections, no connection is
  still `kConnecting` between steps, and the history `told` fits the state.

Each handler (submission, cancellation, closing, `Send`, completion handlers
with the user's callback inside) is first shown to take a good loop state to a
good one. `NextIInv` lifts this to the actions, one step for each. The handlers
change one connection at a time, through `Put`, which is kept opaque in the
proofs; lemmas about `Put` split on whether a connection is the one changed.

The theorems about bytes need the converse of `Owned` and more. `FlowInv` (in
`ConnectingFlow`) says:

- `KeysApart`: a key names one request, one completion or one operation, and a
  request that has completed is no longer in the ring;
- `Flying`: a read or write in flight is an operation whose completion function
  is set, so that its completion will be delivered;
- `Writes`: the bytes on the wire are 1, 2, ..., the two output buffers go on
  from the first byte not confirmed, a write request holds exactly the first
  buffer, and the wire is ahead of the confirmed bytes by what the one
  completion of the write in flight reports, or by nothing;
- `Reads`: the same for the input buffer and the one completion of the read in
  flight;
- `Flushed`, `Listening`: between two handlers, a write is in flight exactly
  when there is something to write, and an open connection is reading.

`Flushed` and `Listening` fail in the middle of a handler, when `OnReadComplete`
has taken its completion and the user's callback calls `Send` or closes before
the next read is submitted. `Flow` is therefore what each function keeps
(`FlowStep`), while `Settled` holds before and after a handler.

### EventLoop

Any number of threads and tasks, any delays, any width of `int`. `TimerInv`
describes the multimap: the waiting tasks are sorted, those of equal time in
the order they were registered, no waiting task should have run before an
expired one, and a one-shot task is in one place.
`TasksConserved` counts identifiers, so the number of distinct ids of a sequence
without repetitions is shown to be its length.

`NeverOversleeps` speaks of the moments at which no thread is inside a call, and
is therefore far from inductive. `Covered` says what holds in between: when a
wait is too long for the first task, the thread that registered this task is
still on its way to wake the loop (`Responsible`), and if it has read the
minimum already, what it read will make it wake the loop. `Armed` says that the
eventfd is polled during every wait, `QuitSeen` the same as `Covered` for
`Quit`, `Limited` that the wait ends when its time-out does.

`ShortRun` is the one hypothesis: the loop runs for at most half the span of an
`int` of milliseconds. A task can be overdue by no more than that, and an
overdue task's negative distance, cast to `int`, stays negative. Beyond it the
cast in `Timer::GetMinTimeDuration` wraps to a positive wait. The delays are not
restricted: a task that is further away than an `int` holds makes the loop wake
early, never late.

### Logger

Any finite number of producers and of records, any ring of two slots or more,
files of any positive size. A ring of one slot is excluded, because it does not
work: position `i` published and position `i + 1` free are then the same
sequence number in the same slot, and TLC finds two threads in it. The code's
ring has 2^24 slots.

The ring theorems assume `EndEarly = FALSE`, that `END_LOG` is called when no
thread logs, as the tests do. Otherwise `StartLogger` resets the ring under a
producer that still holds a position, as noted in section 5. `NoLostWakeup` and
`RecentLogs` need no such condition.

`SlotExclusive` speaks of slots and the threads exchange sequence numbers and
positions; `IInv` ties them together. `Window`: the positions in use run from
the last one the writer has released to `write_index - 1` and are at most `Size`
many, so that no two of them share a slot (`TakenApart`, by arithmetic modulo
`Size`). `Position`: what a producer knows of the position it loaded, in
particular that a compare-and-exchange that succeeds still finds the slot free.
`Slots`: a claimed position is being stored by one producer or holds its record,
and the positions to come are free. `Taken`, `Logged`: the record in the
writer's hands and the log are the claimed ones. `Phase`: which thread can be
where while the logger starts and ends. `Emptied`: nothing is left once the
writer has ended, for which `PendingCounts` itself is needed, since the writer
ends when the count is 0: with nobody logging, the count is the number of
records in the ring, and no more than `Size` of them, below `Span`, so that 0
modulo `Span` is 0.

`RecentLogs` rests on `DiskInv`: the count of bytes is that of the current file,
and rotation goes to another file than the current one.

### Server

Any number of clients, loops and descriptors, under `ServerAssumption`. `IInv`
has, for each place a socket can be in (`Completed`, `Queued`, `Opened`), both
directions: what is there has the state that belongs to the place and is there
once, and a client in that state is there. `Request` orders the completions:
the one that ended the accept request is the last, and neither the kernel nor
the main loop has the request then. `BalancerEven` has an invariant of its own,
`Turns`: the threads up to the cursor have been given one connection more than
the others. Its hypothesis excludes one case in which the property is false: with a
single I/O thread the search of `kMinEvents` never moves `cursor_` from 0, so
the accepting loop is picked (`balancer.cc:42`).

### ObjectPool

Any number of threads and of mallocs, under `PoolAssumption`. `Exclusion` is the
spin lock; `Hands` and `Apart` say which block a thread has in its hands at each
statement and that no block is two threads'; `FreeLinked` that the links in
the free blocks' own bytes are one list from `free_list_head_` to null;
`Mallocs` that the headers are linked from the last to the first. That a list
is one list is stated by closure (`IsList`: a set that has the head and is
closed under the links has every free block), and so is `FreeList` in the model, which
needs no induction in most proofs; where one is needed, over the blocks that a
new malloc links, it is done with a least element of a set of numbers (`Least`,
`Induct`), from the library's theorem that `<` is well-founded.

### RPC

Any number of calls, payload sizes and limits, and any place of the cuts.
Both theorems speak of the time before an input buffer is compacted, for any
sizes of vectors and extra buffers. Their invariant is `Unbroken`: some input
was compacted, which stays so (`StaysCompacted`), or `IInv` holds; `IInv` is
kept by every step that does not compact (`NextKept`), growth of a vector
included. `EnoughIds` says that there are no more calls than ids, as the pigeonhole
principle states it: of `IdSpan + 1` calls two are the same. The counter of the
code has 64 bits; with more calls than that an entry of `outstanding_calls_`
would be replaced.

For the refinement, `IInv` says that a call on which `Reply` is taken was
executed and one on which `Refuse` is taken never was. A response is matched by id,
so ids must differ: `Requested` says that the ids in use are the last ones the
counter gave, counted modulo `IdSpan` back from `id_` (`Ages`), whatever the
uninitialised `id_` started from. `Asked` and `Answered` speak of every unit on the way, in the streams
or in the input buffers: a request unit is of a call that was sent, once, and
not executed yet; a response unit is of a message that is `Justified` by an
execution or by a refusal. They survive cuts, losses and resets because what is
left of a stream is always a segment of it (`Segment`). `Whole` says that an end
that can still send has cut no frame, so the next one starts where the last
ended; this is what makes `Framed` inductive. The steps that only move
bytes or close an end are treated together (`Quiet`), and `CallsImplementRpcCall`
adds for each step the abstract one it is, or a stutter.

### Only model-checked

- `TypeOK`, `SocketOwned`, `LateCqeIgnored` and `OneAttempt` of `Client`, and its
  action property `OutlivesWork`: not attempted yet.
- `IndexesInOrder` of `IoBuffer` and its refinement of `ByteQueue`: not attempted
  yet.
- Liveness (`ClosedIsDestroyed`, `QuitTerminates`, `DueTasksRun`, `QuitStopsLoop`,
  `ConnectsAtLast`, `EveryRequestAnswered`, `EveryCallEnds`): the prover supports
  neither fairness nor `ENABLED`.

What a recursive definition computes for all inputs is out of its reach as well,
since induction over data cannot be used; no module has a `RECURSIVE` operator.

## 5. Where code and comments disagree

Shown by a run: `END_LOG` may never return (`logger.cc:33`); `ReserveWritableSpace` does not
make room in a partly read buffer (`io_buffer.cc:309`).

Met while modelling, and kept here as notes rather than as runs:

- `connecting.cc:366`: "If the writing event is not paid attention to, shut down
  the writing end". io_uring writes never enable write events on the eventer, so
  `HasWriteEvents()` is always false and `ShutDownWrite` shuts the socket down in
  front of output that `Send` accepted. RPC meets this when a frame is refused.
- `connecting.cc:334`: nothing protects `Send` against other threads, and
  `logger.cc:44` nothing a producer against a concurrent `END_LOG` and restart.
- `connecting.cc:145`: a read that fails for a reason outside of the two groups
  the code knows is reported as an error, and no read is submitted after it.
- `io_buffer.cc:309` bites in RPC too: pipelined frames that do not fit behind a
  partly read input compact it, and the end reads bytes twice (section 2).
- `rpc_channel.cc:107`: a reply that carries an error runs the closure as a
  successful one does; the error code is never read.
- `rpc_channel.cc:77`: there is no time-out. A call whose connection has closed
  stays in `outstanding_calls_` until the channel is destroyed, and one made on
  a closed connection is registered and never sent. `rpc_channel.cc:199`: the
  blocking channel does not drop its calls at all.
- `rpc_codec.cc:160`: a frame that `RpcSyncChannel` refuses stays at the front of
  `io_buffer_`, so every later call finds it again and returns without a reply.
- `rpc_codec.cc:76`: once `SO_ERROR` has been read, `send` fails for ever and the
  loop over it does not end.
- `rpc_channel.cc:129`: the closure given to a service uses channel and connection
  by raw pointer; a service must not run it after the connection is gone.
- `event_manager.cc:274`: after 1000 retries a connection is destroyed with its
  request in the kernel, although `poller.cc:285` says the kernel "won't touch
  freed context/iov memory": the iovec and buffers belong to the connection.
  For the same reason `ForceClose` does not close "at the end of this loop"
  (`connecting.h:139`).
- `connecting.cc:398`: `CancelPendingIo` clears `write_in_flight_` before the
  kernel has dropped the write, so a later `Send` appends to the buffer in use.
- `connecting.cc:386`: the task of `ForceCloseAfter` may close another
  connection that was built in the same memory (the code has a FIXME).
- `event_manager.cc:181`: a `Quit` between `Loop()` and the first statement of
  the new thread is overwritten.
- `event_manager.h:86`: the default start time of `RunEveryUntil` is now + now.
- `timer.cc:28`: a first task more than 2^31 ms away makes the wait wrap; the
  loop then wakes early or polls without waiting.
- `poller.cc:394`: "If not in states_, eventer was removed - ignore this late
  CQE". It is found in `states_` if another `Eventer`, of this client's next
  attempt or of another client, was built at the address meanwhile. `DoWriting`
  may then take a socket for connected that is still connecting.
- `event_manager.cc:222`: with two clients on one loop, a connection can be
  inserted while the loop drains; the loop goes on until its peer closes.
- `connector.cc:96`: time tasks of a destroyed client still run.
- `connector.cc:113`: the task in which `Stop` disables and removes its `Eventer`
  is registered by the task that quits the loop, and a loop that has quit runs
  no more tasks. The descriptor is closed, but its poll request and its entry in
  `states_` stay.
- `connector.cc:175`: a second `Connect` during the first leaks a descriptor.
- `balancer.cc:42`: with one I/O thread `kMinEvents` picks the accepting loop;
  `balancer.cc:37`: it does not count connections on their way to a loop.
- `logger.cc:132`: the writer can block with a record in the ring, until the
  producer that is about to count it does; `logger.cc:114`: three files, not
  two, are in circulation, the first under the user's name.
- `io_buffer.cc:280`: a `recv` that fails inside `ReadFromFd` moves the writing
  index back; at the end of the stream the loop does not end.

## 6. Limits

- `Connecting`: the calls of the user are made on the loop's thread. Multishot
  receive and registered buffers are not modelled.
- `EventLoop`: the submission queue refuses at most one request.
- `Client`: one client per loop and one `Connect` call (a second one leaks a
  descriptor, section 5); a retry takes at least one iteration, and overtakes
  earlier requests only after the first `MaxLate` failures. The submission queue
  has room: a poll request that is refused (`poller.cc:463`) is modelled in
  `EventLoop` only.
  `Connector::Restart` (never called) and the destructors are left out, and so
  are `should_retry_` and `can_connect_` of the manager, which nothing reads.
- `Server`: the loops do not quit, the submission queue has room, there are at
  least two event managers, and no other thread takes the idle descriptor
  between `close` and `accept`.
- `Logger`: memory is sequentially consistent, which is stronger than the
  acquire and release orders of the code; `END_LOG` is called when no thread
  logs, as the tests do.
- `IoBuffer`: a header set in an almost full buffer, where `size_t` wraps, and
  failing `recv` calls (`MaxErrors` is 0) are outside the runs.
- `RpcChannel`: one connection. Both ends are this library's, so every frame on
  the wire was made by `FillEmptyBuffer`; a caller has a response object for each
  call. Raw-message callbacks, which no constructor is given, are left out.
- `ObjectPool`: `malloc` succeeds; memory is sequentially consistent, as the
  default order of `MutexLock`'s accesses makes it inside the lock.

Not modelled:

- `ThreadPool`: `AddTask` cannot be instantiated. `thread_pool.h:51` returns
  `std::nullopt` from a function whose result is a `std::future`, so a program
  that gives the pool a task does not compile.
- `Socketer`, `NetAddress`: one system call or conversion per function.
- Formatting of log records and times.
- The examples: programs on top of the library, whose calls are among those the
  modules above allow their users.

## 7. Plan

Done, in this order: `Connecting` and its proofs, `EventLoop`, `Logger`,
`IoBuffer` with `ByteQueue`, `Client`, `Server`, RPC with its refinement of
`RpcCall`, `ObjectPool`.

Proved: `Connecting` (identity and callbacks), every safety property of
`Logger`, `Server`, `ObjectPool` and RPC, then the bytes of `Connecting` and the
safety properties of `EventLoop`.

Next theorems, most important first: `SocketOwned`, `LateCqeIgnored` and
`OneAttempt` of `Client`; `IndexesInOrder` and the refinement of `ByteQueue`.
