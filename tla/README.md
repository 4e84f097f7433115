# A TLA+ verification of yeti

This directory holds TLA+ models of the concurrent and the stateful core of the
repository, TLC runs that check them on small instances, and TLAPS proofs that
hold for every instance. `PROJECT.json` lists every component, run, mutant,
source line, hazard and theorem.

## The system

The repository is a collection of C and C++ code around a UPnP/DLNA stack:

| part | what it is | its state and how it is used |
|---|---|---|
| `yeti/Source/Core`, `System` | a portable runtime derived from Neptune: threads, queues, shared variables, references, a state machine, streams, HTTP, sockets | everything below builds on it |
| `yeti/Source/Dlna` | an engine: a select loop, timers, asynchronous sockets and a thread pool | a list of objects, work items, a semaphore; uses Core's threads and sockets |
| `yeti/Source/FlyDog` | a task manager and thread tasks | does not compile against this Core |
| `Neptune`, `Platinum` | the vendored libraries Core and FlyDog are taken from | read for documentation and tests |
| `MiniFrame` | three application frames: `BRFrame` (a handler queue with a thread pool), `PPBoxFrame` (modules and a daemon), `IntelFrame` (Intel's ILib) | |
| `MyPlayer/SDL_MPEG` | a video player: demuxer, decoder threads, event loop | packet queues and a picture queue |
| `Venus` | an AirPlay server; vendored Intel DLNA and mDNS code | |

The components with a protocol of their own that are modelled:

**Queue** (`YetiWin32Queue.cpp`, `YetiQueue.h`). State: a list, a critical
section, two manual-reset events. Operations `push`, `pop`, `peek`, each with a
timeout. Hard: lost wake-ups between reset and wait, several waiters on one
event, time-outs racing a late item. Correct when it is a bounded FIFO whose
every answer is true of some instant of the call.

**SharedVariable** (`YetiWin32Thread.cpp`). State: a value, a mutex, an
*auto-reset* event. Operations `set_value`, `wait_until_equals`,
`wait_while_equals`. Hard: who gets the one wake-up. Correct when whoever waits
for the value that stays gets its answer.

**ThreadCallbackSlot** (`YetiThreads.cpp`). State: two shared variables
(`m_pending_`, `m_ack_`), two locks, the argument pointer, a shutdown flag.
`send_callback`, `receive_callback` and `shutdown` run in different threads.
Hard: a shutdown at any moment of a handshake. Correct when a callback runs at
most once, only while its sender waits, and never after the shutdown.

**StateMachine** (`YetiStateMachine.h/.cpp`). State: the current state, a
pending transition and event, a box and a history per state. Users' handlers,
inits, entries and exits call back into it. Hard: long sequences of transitions
over the tree. Correct when entries and exits balance, a state's box is there
while it is active, and a history is where the machine was.

**Reference** (`YetiReferences.h`). State: a counter and a mutex shared by all
references to an object. Hard: copies and drops in several threads; the last one
deletes the mutex the others lock. Correct when the object and the mutex live
exactly as long as they are needed.

**RingBuffer** (`YetiRingBuffer.cpp`). State: an array and two positions in it.
Hard: full and empty, and calls that end exactly at the end of the array. Correct
when it is a bounded FIFO of bytes.

**RingBufferStream** (Platinum's `PltRingBufferStream.cpp`). State: a ring buffer,
a lock, flags for the end and for an abort, two totals. Readers and writers look
under the lock, leave it, sleep, and take it again to copy. Hard: what was seen
may have changed before it is copied; a copy may need two pieces. Correct when
bytes come out in order, once, the end comes after the last of them, and no call
stays blocked without a reason.

**BufferedInputStream** (`YetiBufferedStream.cpp`). State: the bytes between two
offsets of a buffer, its size and allocation, `m_skipnewline_`, `m_eos_`. One
thread uses it. Hard: lines and `\r\n` that a block, a time-out or the end of the
source cuts in two; calls of different kinds that follow each other; a size set
anew while bytes are held. Correct when what leaves the stream reaches its caller
once and in order, and no copy overruns the buffer.

**TaskManager** (Platinum's `PltTaskManager.cpp`, `PltThreadTask.cpp`). State: a
list of tasks, a queue of tokens, a flag that it is stopping, all under one lock;
a thread per task. Hard: a push with a timeout under the lock that pops need,
tasks that end before they are listed or start others while all are being
stopped. Correct when the limit is kept, the list is exact, and a stop leaves
nothing running.

**AsyncTask** (BRFrame's `AsyncTask.cpp/.h`, `InterfaceImpl.cpp`). State: a queue of
handlers, a `boost::asio` service with a pool of threads, made anew by each
start. Hard: a stop joins outside the lock, so threads of two services meet.
Correct when handlers run once, none is left behind, and none of a service runs
after its stop.

**Player** (`MyPlayer/SDL_MPEG/SDL_MPEG.cpp`). State: two packet queues, a ring of
pictures, an event queue, a timer. Five threads: demuxer, video decoder, SDL's
audio and timer threads, the event loop. Hard: the ring's indices move outside
its lock; only the event loop may make an overlay, so the decoder asks for one
and waits on the condition it also waits on for room; every refresh must start
exactly one timer. Correct when pictures are shown once and in order, no overlay
is touched by two, and nobody is left asleep.

They interact by calls: the slot is made of two shared variables; the stream is
made of a ring buffer (`RingBufferStream` extends `RingBuffer`); references use
the runtime's mutex; the queue uses the same `Win32Event` as the shared variable,
once manual-reset and once auto-reset, which is why one of them loses wake-ups
and the other does not; the task manager uses the queue as a counter. The other
components, and why each is not modelled, are in `PROJECT.json` under
`components` and at the end of this file.

## The modules

| module | models | how |
|---|---|---|
| `BoundedQueue` | what `YetiQueue.h` promises | calls that take effect at one instant on a bounded FIFO; `TimeOut` and `FindEmpty` only when it is true |
| `Win32Queue` | `push`, `pop`, `peek` | `items`, `mutex`, `canPush`, `canPop` are the members; `pc`, `call`, `ret` are each thread's stack. One action per stretch of code between two points others can observe: `Enter` (lock), `PushAdd`/`PushBlock`/`PopTake`/`PeekHead`/`PollEmpty`/`ReadBlock` (the test under the lock, by outcome), `Signal`, `Release` (unlock before the wait), `Wake`/`GiveUp` (the event wait), `Leave`, `Return`. `pop` and `peek` share the actions whose code is the same |
| `MCWin32Queue` | | four threads and the calls they make, for TLC |
| `Win32QueueProofs` | | the proofs about `Win32Queue` |
| `Win32SharedVariable` | the members and steps of one shared variable | operators on `value` and `signalled`; instantiated by the next two |
| `SharedVariableWaiters` | waiters on one variable | `Test` (under `m_lock_`), `Wake`, `TimeOut`, and a script of `set_value` calls |
| `ThreadCallbackSlot` | the slot | two instances of `Win32SharedVariable`; one action per step of `send_callback`, `receive_callback` and `shutdown`, locks as the thread inside them |
| `ThreadCallbackSlotProofs` | | the proofs about `ThreadCallbackSlot` |
| `StateMachine` | the state machine | the tree is the constant `Above`; `Exits` and `Entries` are the two walks of `exit` and `entry`, `SavedHistory` the chain of `setHistorySuper`; `Transit` is one round of `rattleOn`'s inner loop, `HandleEvent`, `SetState`, `Dispatch`, `ClearHistory`, `HandlerReturns` the user's handler, `InitFromHistory`/`InitByUser` the init |
| `MCStateMachine` | | a tree for TLC |
| `StateMachineProofs` | | the proofs about `StateMachine` |
| `Reference` | `Reference<T>` | `Lock`, `Drop` or `Count` (what happens under the mutex), `Free` (delete of the mutex), `Next_...` (what follows `_release`) |
| `ReferenceProofs` | | the proofs about `Reference` |
| `ByteQueue` | what a ring buffer promises | `Put`, `Take`, `Look`, `Clear`, `Shut` on a bounded sequence of bytes |
| `RingBuffer` | `RingBuffer` | `data`, `in`, `out`, `closed` are the members (positions counted from `m_data_.start`), one action per method; `answer` is what the last one did. `WriteChunk`/`ReadChunk` and `Wrap` are the two halves of `write`/`read`, `Fold` the wrap-around of `move_in`/`move_out` |
| `RingBufferStream` | `PLT_RingBufferStream` | extends `RingBuffer` (Neptune's is the same class). `Direct` is the owner who uses the ring buffer before the stream is made. `ReadTest`/`WriteTest` are the look under the lock, by outcome (a call that would sleep and come back stays where it is), `Relock` the second lock, `ReadSome`/`WriteSome` one piece, `CopyEnds`/`CopyFails`/`Leave` the ways out; `StreamFlush`, `SetEOS`, `Abort` |
| `MCRingBufferStream` | | numbered bytes, for TLC |
| `BufferedInputStream` | `BufferedInputStream` | a byte is its place in the source's text, so that order and loss show; `data` is what lies between the offsets. `LineChar`, `LineFill`, `LineRelease`, `RawChar` are the steps of `read_line`'s loops, `ReadFirst` and `ReadRest` the two parts of `read`, `Peek` and `PeekRefill` (its `fill_buffer`) those of `peek`; `SetBufferSize` takes any size, forced or not, and `Moves` is the copy into a new buffer. The source delivers any number of bytes up to what is asked, times out, or ends. `overrun` and `tight` are history: a copy has overrun its buffer, the owner has set a size smaller than what was held |
| `MCBufferedInputStream` | | every text up to a length, for TLC |
| `MCReferenceAndBuffer` | | `Reference` and `MCBufferedInputStream` in one instance: a behaviour is one of either |
| `StreamProofs` | | the proofs about `RingBuffer`, `RingBufferStream` and `BufferedInputStream`; the last keeps to names the other two do not use, so that one module can extend all three |
| `TaskManager` | task manager and tasks | `adding[a]` is where actor `a` (a thread outside, or a running task) is in `AddTask`, `thread[t]` where task `t`'s thread is in `Run`, `stop[s]` where `StopAllTasks` is. A section under `m_TasksLock` is one step, except that `Admit`/`Launch`/`Listed` and `FindsFull`/`PushTimesOut` hold the lock across a wait |
| `MCTaskManager` | | five actors and who starts whom, for TLC |
| `TaskManagerProofs` | | the proofs about `TaskManager` |
| `AsyncTask` | the interface and its task | `caller[c]` is where a user is in `Start`, `Stop`, `Reset` or a call, `worker[w]` where a thread of a pool is (`w` is the number of the service and of the thread). The io_service is external: it is stopped or has `posted` ExecHandlers |
| `AsyncTaskProofs` | | the proofs about `AsyncTask` |
| `Player` | the player | one variable says where each thread is; a section under a mutex of SDL is one step, and what the code does outside them (moving `rindex`, `windex`, making the overlay) is a step of its own. A sleep in `SDL_CondWait` is a place (`"room asleep"`), from which `SignalRing`, `PutVideo`, `PutAudio` move the thread back to its test |
| `MCPlayer` | | a film of four packets, for TLC |
| `PlayerProofs` | | the proofs about `Player` |

Conventions: an operator named `X_Something` before `X` is a plausible bug in the
code `X` models, used only to show that a property notices it.

### What is abstracted

* Items, values, callbacks and objects are model values. Handlers, inits, entries
  and exits are the user's code: the models let them do whatever the interface
  allows (a handler may ask for one transition and dispatch one event; an init
  may only go to a proper substate, as the code asserts).
* Calls into Windows succeed. Critical sections are atomic and not fair beyond
  what is said below; they are never entered twice by one thread in this code.
* There is no clock. A finite timeout may expire whenever the event is not
  signalled, and may also never expire.
* A reference to `NULL` made with a mutex leaks that mutex
  (`YetiReferences.h:17`); such references are not modelled. A thread that finds
  a deleted mutex stops in the model; the property is that it never happens.
* In the state machine, a state's box is there or not; `setStateBox` and
  `setStateDirect` are `SetState` with the history and the default initializer,
  since a box the caller brings is a box. Inits do not dispatch (the debug build
  asserts it). `MACHO_SNAPSHOTS` is not defined by any build and not modelled.

* Ring buffer: its callers keep to `get_space`, `get_available` and their contiguous
  forms, as all callers in the repository do. The stream has one writer, which
  sets the end itself when it is done, as in the code that uses it; readers,
  `Flush` and `Abort` come from anywhere.
* `BufferedInputStream`: of the text only `\r`, `\n` and "another" are told
  apart. A copy that overruns its buffer (`YetiBufferedStream.cpp:128`) is undefined
  behaviour, and the model goes on: what did not fit is read back as it was or as
  other bytes, for which the first byte of the text stands. `overrun` remembers it.
  `BufferFits` says of it that the owner had set a size smaller than what was held
  (`tight`), and the other properties of the stream speak of the time before it.
  Lines that do not fit are modelled as the code treats them; the properties speak
  of those that fit.
* Tasks: delays and time-outs are steps that may take any time. A pop under the
  lock only waits in vain, so it is part of the step. What a task does in `DoRun`
  is to start or kill other tasks and to end. `StopAllTasks` has one caller at a
  time.
* `AsyncTask`: the io_service is what `boost::asio` documents: it runs each posted
  function in one of the threads in `run`, and `stop` makes `run` return once the
  function that runs has returned. Handlers return and do not call `Stop`.
* Player: sizes of packets are counted in packets, and the limits are small
  numbers of them; frames are a number and a size. Decoding may drop or finish a
  frame, an overlay may fail to be made, the file may fail to open, have one
  stream only or give a read error. SDL's event queue has room. After `quit` the
  process ends: the threads go on in the model but nothing is promised of them.

## The runs

| run | instance | what it shows |
|---|---|---|
| `queue` | 2 pushers and 2 readers, with infinite, finite and zero timeouts, 2 items, limit 2, at most 5 items or pushes under way; deadlock is checked | the lock, the limit, truthful events, the inductive invariant `IInv`, the refinement of `BoundedQueue`; an item reaches a blocked pop, room reaches a blocked push |
| `variable_test` (violation) | the three waiters of Neptune's `TestSharedVariables` | a waiter sleeps for ever: the event is auto-reset |
| `slot` | 2 senders, 2 receivers with zero or finite timeouts, 1 closer | a callback runs at most once, on live arguments, and not after the shutdown; senders and the shutdown get through |
| `slot_assert` (violation) | 2 senders, 1 polling receiver, 1 closer | the debug assertion of `send_callback` can fail |
| `machine` | four user states, a deep and a shallow history, a persistent state, 1 dispatch | balance of entries, boxes, histories, `IInv`; `rattleOn` comes back |
| `references_and_buffer` | References: 2 threads, 3 references, 2 objects, every operation. Buffered stream: all texts of up to 5 bytes of three kinds; buffer sizes 0, 1, 3, 2 by default; room for 1 or 3 characters, reads and peeks of 1 or 3 bytes; every order of `set_buffer_size`, forced or not | the counter, the object and the mutex; a copy overruns the buffer only after a size smaller than what was held, and until then no byte is lost or doubled, lines are whole, the end is the end, buffers are large enough |
| `reference_use` (violation) | the same references with copy, destroy and detach | a detached reference locks a deleted mutex |
| `ring` | an array of 3, calls of up to 2 bytes, 5 bytes in all, 1 reader, 1 writer | the ring buffer implements `ByteQueue`, also while the stream's threads use it; order, pieces, totals, the end; blocked calls are released |
| `tasks` | limit 2; a listener that runs until it is stopped and starts two workers, one of which may fail to start; a task its owner kills; a stopper | limit, tokens and list agree; nothing runs after a stop or is used after its deletion; `AddTask` and `StopAllTasks` come back |
| `player` | a film of video, audio, other, video; 1 place in the ring, limits of 0 packets, 2 frame sizes, 1 key | overlays, order of pictures, the one timer; pictures reach the screen, the decoder and the demuxer go on |
| `buffer_assert` (violation) | the same buffered stream | `peek` refills a buffer that holds bytes |
| `async` | 2 callers, 2 services of 2 threads, 3 handlers | handlers run once and leave the queue, a stop that no start goes by is final, and every stop comes back |

`references_and_buffer` checks two components that do not meet. Both have invariants
only, so that one instance answers for both: the state of the one that a behaviour does
not use stays as it was made, and the number of states is the sum of the two. Deadlock is
not checked there, because references may all be gone with nothing left to do; nor in
the runs in which threads end or leave for good, or a machine, a stream or a film is
done (`slot`, `machine`, `ring`, `tasks`, `player`, `async`).

### Bounds, and why they are enough

* Queue: with two threads on each side there are always two that compete for what
  a third provides, and two places tell "one signal, one place" from "one signal,
  all places". `Bound` only keeps the unbounded list and TLC finite. What the safety properties say is
  proved for all values.
* Shared variable: the scenario of the test; a single waiter at a time is covered
  by the slot, for which `SignalsArrive` is proved.
* Slot: the second sender and the second receiver are what locks protect
  against; a closer stays closed.
* State machine: the tree has a state below one with a deep history, which is
  below one with a shallow history, and a sibling branch. The proofs drop the
  bound.
* Reference: three references let two be dropped while a third is copied; two
  objects are needed for an assignment to change the mutex half-way.

* Ring buffer: with an array of three every position is reached, both pieces of a
  split copy occur, and two bytes fill it. The proofs drop the bounds;
  `Bound` lets the two positions go round once and meet again.
* Tasks: the listener holds one of two places, its workers compete for the other,
  and the stop comes at every moment of that.
* Player: one place in the ring makes decoder and event loop wait for each other
  at every picture (the code's own `VIDEO_PICTURE_QUEUE_SIZE` is 1); a second key
  adds only a second seek. The film has a packet of every kind and a second
  picture after the first.
* BufferedInputStream: five bytes in blocks of one to three put every pair of
  characters at every boundary. Sizes of 0, 1 and 3 with a default of 2 let a size be
  set below what is held, unforced and forced, and grow again, and let `peek` meet
  both a smaller size and none. The proofs drop the bounds.
* AsyncTask: two services are needed for old threads to meet a new service; a
  third adds nothing that the second does not.

### Fairness

* Queue: each thread in a call goes on (weak), and a critical section does not
  pass over one thread for ever (strong, on `Enter`). A pop that is always
  overtaken is still possible; the liveness properties speak of *some* pop.
  Neither calling nor timing out is fair.
* Shared variable: weak fairness of each thread's steps and of the setter.
* Slot: weak fairness of each thread's steps, strong fairness of its locks, and
  receivers keep calling with timeouts that expire: the slot's contract is that
  its owner polls it.
* State machine: the one thread that runs the machine goes on, and the user's
  methods return. Inits that go down the tree end because the tree does.
* Stream: strong fairness of each thread inside a call (`m_Lock` does not pass over
  one for ever, and a poll that would succeed again and again does). Nobody has to
  call anything.
* Tasks: threads run; strong fairness of what needs `m_TasksLock`, since `AddTask`
  leaves and takes it in a loop with the other threads' sleeps in between. A task
  that is `Endless` ends only when it is told to abort.
* Player: every thread that can take a step does in the end, and a started timer
  fires. The user owes nothing.
* AsyncTask: callers inside a call and threads of a pool go on, handlers return.

## What is proved

`Win32QueueProofs` (from `QueueAssumption`: the limit is a natural number, calls
are calls). For any number of threads, any limit, any set of calls:

* `Invariance`: `IInv` is an invariant. The capacity and the events are not
  inductive alone: that a pop which is about to signal really has made room
  depends on the lock (nobody else changes the list in between) and on what the
  program counter says of the call (`PhaseOK`). `InductiveStep` has one case per
  action.
* `TypeCorrect`, `LockSafe`, `CapacitySafe`, `NoLostWakeUp` follow.
* `Implements`: the queue implements `BoundedQueue`. A push takes effect in the
  abstract queue not when it appends but when it signals, because between the
  two a waiter may still time out and its answer must be true: `SettledQueue`
  undoes the change of the thread that is in between. `MapStep` maps every
  action to an abstract one or a stutter.

`StateMachineProofs` (from `TreeAssumption`: superstates are a chain that ends
in Root; `StateAssumption`). For every tree and every choice of histories and
persistent states:

* `ExitsAre`, `EntriesAre`: which states the two walks reach. A walk stops at the
  first state it does not exit (enter); that this is the same as taking all the
  states above that qualify uses that superstates are a chain.
* `PathMoves`: path of the current state, minus exits, plus entries, is the path of
  the next. From it the balance of entries.
* `Invariance`, and from it `EntriesBalance`, `BoxesKept`, `HistorySafe`,
  `HistoryTrue`. The histories need `PhaseOK` (no transition is pending while a
  handler may clear them) and the balance.
* `InitsOnlyDescend`: what an init asks for, or a history remembers, exits nothing and
  makes the path longer. This is why the rounds of `rattleOn` end (`RattleEnds`, as far
  as it needs no fairness).

`StreamProofs`, first part: the ring buffer (from `RingAssumption`: the size is
positive). For an array of any size and any sequences of bytes that are written:

* `TypeCorrect`: neither position leaves the array, although `write`, `read`,
  `move_in` and `move_out` each move it in their own way.
* `Implements`: `RingBuffer` implements `ByteQueue`. `PutsAppends` and `TakesRemoves`
  say once what moving `in` or `out` by `n` places modulo `Size` does to the bytes
  between them, by cases of whether the array's end lies in between; the four ways
  of writing and reading are shown to be such a move, each with its own wrap-around.
  That `in = out` means empty, never full, comes out of `Bounds`.

Second part: the stream around it (from `RingAssumption` and `StreamAssumption`: one
writer, as in the code that uses the class; bytes are their numbers). For any
readers, any array, any number of bytes and any lengths of the calls,
`StreamInvariance`, `NothingLeftBehind`, `EndIsLast`, `StreamImplements`, `WhatItSaw`:

* Bytes have numbers, so that nothing is lost, doubled or reordered means that the
  contents are a run of numbers that ends before the next one offered (`InOrder`).
  A thread tests under the lock, leaves the lock, takes it again and copies:
  `Locked` says that one thread at a time copies, `Joins` that what a reader has copied
  is the run just before the contents, `Suffices` that after the first piece the
  rest lies in one, and `RoomStays` that nobody takes the room the writer saw.
* `WhatItSaw` has one reader as its hypothesis. With two the bytes one of them saw
  may be gone when it has the lock again; the code then succeeds with fewer or none, which the
  other theorems allow.
* `StreamImplements`: the threads ask the ring buffer for no more than there is, so
  in their hands it still is the queue of the first part.

Third part: the buffered stream (from `BufferedAssumption`: texts are texts, sizes are
numbers, a caller has room for a byte). For every text, everything the source may
deliver, every size of the buffer and every order of the calls, `set_buffer_size` of
any size at any time among them, `BufferedInvariance`, `BufferHolds`, `BytesKept`,
`LinesWhole`, `EndComesLast`:

* `BInv` is `overrun => tight`, and `Sound` and `Calm` until a copy overruns the buffer.
  What the theorems promise ends there, as what the code promises does; that it ends
  nowhere else is `overrun => tight`: only an owner who sets a size smaller than what is
  held brings it about. `Calm` makes that inductive: while nobody has, what is held
  fits the size last set, and not only the allocation, so neither a later grow nor a
  peek moves it to a smaller buffer (`Reallocates`, `SqueezeOverruns`: a peek that
  refills overruns).

* `Behind`: the buffer holds the last bytes that were delivered, whichever of
  filling, draining, releasing and resizing came last.
* `Lines`: while a line is read, its characters are the plain ones among the bytes the
  call has taken (`LineSoFar`), and none of these was an end of the line but newlines
  that belong to the line before (`GoesOn`). A character is dropped only by a line that
  does not fit, of which the properties do not speak.
* `Reads`: `read` hands out all it takes but at most one newline (`Newline`). It fails
  only with an empty buffer, and after the first byte only with that byte in hand,
  so an end of the source is not reported before what came first (`Ends`).

`ThreadCallbackSlotProofs` (from `SlotAssumption`: senders, receivers and closers
are different threads). For any number of each and any timeouts, `Invariance`,
`CallbackOnce`, `ArgumentsLive`, `ShutdownSilent`, `SignalsArrive`:

* `DeliveredOnce` alone says nothing of the variables. `Locks` says that one sender and
  one receiver (or closer) at a time take part; `Handshake` says, for the time before a
  shutdown, how far these two are from the values of `m_pending_` and `m_ack_`. After
  the shutdown the values may be anything (the second violation below), and what
  remains true is that nothing is delivered.
* `SignalsArrive` is the counterpart of `variable_test`: with one waiter per variable
  the auto-reset event loses nothing.

`ReferenceProofs` (from `ReferenceAssumption`: finitely many references). For any number
of threads, references and objects, `Invariance`, `CounterRight`, `MutexSafe`,
`NoMutexLeaks`:

* While a copy waits for the mutex it has the pointer and is not counted. It is safe
  because the reference it is copied from is counted and nobody else changes that one
  (`Disciplined`, what a user of the class owes it). So the thread that counts down to zero is
  the last one that can reach the object (`Counted`: the counter is the number of
  `Holders`), and it alone deletes the mutex (`Doomed`, `Inside`).
* The theorems speak of references that have an object. A reference that was detached
  has none and may still have a mutex: the third violation is about those.

`TaskManagerProofs` (from `ManagerAssumption`: a task has one starter, there is one
stopper, finitely many tasks). For any tasks and any limit, `Invariance`, `BooksTrue`,
`StopIsFinal`, `DeletedUnused`:

* `Listing`: a listed task is one whose thread lives, but for the one that is being
  started. `Tokens` counts listed tasks, the one being started and tokens lost to a
  failed start, and says when the queue of tokens may be missing: nothing is added
  between the moment `StopAllTasks` throws it away and the moment it is made again.
* What the two liveness properties rest on: `NoneStartsWhileStopping` (no thread starts
  while `m_Stopping` is raised, so those a stop waits for become fewer) and
  `RoomWillCome` (a full queue means a listed task whose thread lives, or lost tokens).

`AsyncTaskProofs` (from `AsyncAssumption`: a pool has a thread). For any callers, pool
size, starts and handlers, `Invariance`, `HandlersRunOnce`, `StopIsFinal`,
`NoHandlerStranded`, `ThreadsKept`:

* `Numbers` tells handlers apart, `Owned` and `Stopping` say which stop joins which
  service's threads, `OneService` that without a start that goes by a joining stop only
  threads of one service live. `NoneStranded` counts ExecHandlers against queued
  handlers, over the threads that hold one (`Execs`).
* `JoinedTakeNoMore`: a thread that a stop joins takes no further ExecHandler, also
  when another start has made the task run again, so the stop waits for one handler
  per thread at most.

`PlayerProofs` (from `PlayerAssumption`: the ring has a place, 0 is no size of a frame).
For any film, limits, sizes and ring, `Invariance`, `OverlaysSafe`, `PicturesOrdered`,
`OneRefreshAlways`, `NoSignalLost`, `PacketsLimited`:

* `Overlays`: from asking for an overlay to being told, exactly one event is posted or
  being handled (`Asked`, which the lemmas `PushCounts` and `TakeCounts` follow through
  the event queue), and the decoder waits or is at its end.
* `Room`: only main makes the count smaller, so room that was seen stays. With it,
  `NextSlotFree`: the place written to is none of those still to be shown, which needs
  that `Slots` places in a row, modulo `Slots`, are different (`Places`).
* `Pictures`: where the index written to is, how many pictures were put in the ring, and
  which picture is in each place, while either index may be ahead of the count.

Every safety and action property and every refinement that a passing run checks is
stated by one of these theorems. Only model-checked: all liveness (`ItemsReachPoppers`,
`RoomReachesPushers`, `SendersReturn`, `ShutdownCompletes`, `RattleEnds`, `CallsGoOn`,
`AddReturns`, both `StopReturns`, `HandlersLeaveQueue`, `PicturesReachScreen`,
`ThreadsGoOn`), because TLAPS does not handle fairness here, and the shared variable with
several waiters, of which the test's expectation is a liveness property and false.
Type correctness of the slot, the references, the task manager, the asynchronous
task, the player and the two streams is part of each inductive invariant and proved
with it.

## What the violations show

1. `variable_test`: `Win32SharedVariable` signals an auto-reset event, so one
   `set_value` releases one waiter, possibly one that waits for something else.
   The test of the original class expects all of them to answer. In this
   repository each variable of the slot has one waiter at a time, for which
   one signal is enough (`SignalsArrive`).
2. `slot_assert`: a sender passes the test of `m_shutdown_`, the shutdown resets
   `m_pending_` and acknowledges, then the sender posts, finds the stale
   acknowledgement and returns `SHUTDOWN`, with `m_pending_` left at 1. The next
   `send_callback` fails its assertion in a debug build. No callback runs
   wrongly (`slot`).
3. `reference_use`: a reference that was detached while others remained still
   has the mutex pointer and uses it when it is destroyed, even after the last
   of the others has deleted the mutex.
4. `buffer_assert`: a buffer of 3 is filled, one byte is read, the size is set to 1
   without force, so that the two bytes stay where they are, and `peek` is asked for 3.
   It moves the two bytes to a buffer of 1 (`YetiBufferedStream.cpp:128` overruns it) and
   calls `fill_buffer`, whose assertion (`:145`) fails; without assertions the next block
   takes the place of the two bytes, and they are lost. `peek` has
   `buffered > new_size` (`:181`) where Neptune has `buffered < new_size`. The run
   `references_and_buffer` has the same behaviour, and others without a peek: sizes 3, 0,
   1, none of them forced, copy three bytes into one, because `:122` compares the new
   size with the last one and not with what is held.

## Not modelled, and why

* **Dlna engine** (`yeti/Source/Dlna`): an incomplete port; the pool is never given
  work and the select loop has nothing to select. **FlyDog**: does not compile at
  this commit; its original is the task manager modelled here. **Jobs**:
  declarations only.
* **HTTP, sockets, files, text, crypto, allocation, system ports**: text
  processing or direct calls into libraries and the operating system. What their
  readers rely on (whole lines, the end of a stream) is in `BufferedInputStream`.
* **UPnP protocols of Platinum, Intel's ILib and MicroStack, mDNS, libplist**:
  vendored or generated code, most of the repository's lines. Only the parts of
  Platinum that are concurrent clients of the runtime are modelled.
* **AirPlay server**: one select loop around a text protocol.
* **PPBoxFrame**: modules started in order over `boost::asio`; it depends on
  libraries that are not in the repository.
* In modelled components: failures of operating system calls, clocks (audio and
  video synchronisation, the length of time-outs), `Win32Thread`'s detached mode,
  two simultaneous stoppers of a task manager, what SDL does after `quit`.
* Met while reading, and outside these models:
  - `YetiWin32Queue.cpp:58`: a time-out starts anew after each wake-up in vain;
    `YetiWin32Thread.cpp:92`: a wait answers at once when its event could not be made;
    `:314`: a detached thread deletes the object its creator holds.
  - `YetiReferences.h:17`: a reference to `NULL` made with a mutex leaks it.
  - `YetiBufferedStream.cpp:43`: the `String` form of `read_line` drops a line cut by a
    time-out; `:52`: a line may be `buffer_size` + 1 characters long, with the terminator
    after them, and one that does not fit loses a character and is a success when it
    comes out of the buffer (Neptune's `BufferedStreamsTest1.cpp:67` expects
    `NOT_ENOUGH_SPACE` of its `ReadLine`); `:69`: every newline after a `\r` that ended a
    line is passed over, those of empty lines, too; `:106`: a time-out between `\r` and
    `\n` forgets the `\r`, and an empty line follows. `NothingLost`, `LinesAreWhole` and
    `BufferFits` are stated so as to allow these; `YetiHttp.cpp:107`: a time-out in the
    headers counts as their end.
  - `PltTaskManager.cpp:118`: the first of two stoppers clears the flag of the other;
    `PltThreadTask.cpp:93`: a task without a manager may have deleted itself before
    `StartThread` waits on its member.
  - `AsyncTask.cpp:43`: a second `Stop` returns while the first still joins; `:67`: a `Stop`
    called by a handler joins its own thread.
  - `SDL_MPEG.cpp:632`: events that do not fit SDL's queue are dropped unnoticed.
  - `YDEngine.cpp:60`, `FDManager.cpp:75`: the waiting pool, and a push without a time-out
    under the lock that pops need, in code that is not used or does not build.
* Modelled as the code has them, without a property that forbids them: tasks that fill all
  places and each wait in `AddTask` for another (`PltTaskManager.cpp:145`), a seek that
  worked keeps the old packets (`SDL_MPEG.cpp:962`), a second seek may be swallowed
  (`:1033`), a file that does not open leaves the window (`:892`), and a stop between the
  two halves of `Start` leaves the interface's flag wrong (`InterfaceImpl.cpp:24`).

## Plan

1. Proofs: what is left of the liveness properties when fairness is taken away. Proved
   are `NoLostWakeUp`, `SignalsArrive`, `NoSignalLost`, `InitsOnlyDescend`,
   `NoneStartsWhileStopping`, `RoomWillCome` and `JoinedTakeNoMore`; for the stream, that a
   thread which polls finds what it polls for, is left.
2. `Win32Thread`'s detached mode; socket cancel; the HTTP client's reuse of
   connections; ILib's chain; two stoppers of a task manager.
