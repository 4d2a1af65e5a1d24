# CoreLib in TLA+

This directory specifies the event loop and the IPC mechanisms of CoreLib
(`Source/`, `Headers/`): what the code does, one TLA+ action per operation or
system call, and what it is meant to guarantee. TLC checks the specifications
on small instances; TLAPS proves the most important safety properties for
every instance. `PROJECT.json` lists components, runs, mutants, hazards and
theorems, and maps every definition to its source lines.

Line references are to the repository; the platform is Linux (epoll, timerfd,
AF_UNIX sockets) unless a text says otherwise; timers are specified for both
platforms.

## 1. Inventory

| Component | Source | State | Operations |
|---|---|---|---|
| Looper | `Source/Looper.cpp` | `_shouldTerminate`, `_trivialSource`, `_waitSet`; one per thread | `Current()`, `loop()`, `terminate()`, `addSource()`, `removeSource()` |
| LooperSource | `Source/LooperSource.cpp`, `Headers/LooperSource.h`, `Source/Linux/LooperSource_Linux.cpp` | `_handles`, `_handlesAllocated`, the four functions of a source | `handles()`, `AsTrivial()`, `AsTimer()`, `onAwoken()`, `updateInWaitSetHandle()` |
| WaitSet | `Source/WaitSet.cpp`, `Source/Linux/WaitSet_Linux.cpp` | `_sources`, the epoll set in the kernel | `addSource()`, `removeSource()`, `wait()`, destructor |
| Channel | `Source/Channel.cpp` | `_connected`, `_ready`, `_source`, `_socket`, two callbacks | `tryConnect()`, `scheduleInLooper()`, `unscheduleFromLooper()`, `sendMessage()`, `readMessageOnHandle()`, `terminate()` |
| Socket, Lock | `Source/Socket.cpp`, `Headers/Lock.h`, `Headers/AutoLock.h` | `_handle`, `_lock`; packet queues in the kernel | `WriteMessage()`, `ReadMessages()`, `connect()`, `close()` |
| Server | `Source/Server.cpp` | `_socketHandle`, `_name`, `_channelAvailablilityCallback`; the name in the file system, the kernel's backlog | constructor, destructor, `onConnectionAvailableForAccept()` |
| SharedMemory | `Source/SharedMemory.cpp` | `_handle`, `_address`, `_ready`; names and backings in the kernel | constructor, `cleanup()` |
| Message | `Source/Message.cpp`, `Headers/Message.h` | `_buffer`, `_bufferLength`, `_dataLength`, `_sizeRead`, `_attachments` | `reserve()`, `encode()`, `decode()`, `addAttachment()` |
| Timers (of LooperSource) | `Source/Linux/LooperSource_Linux.cpp`, `Source/Apple/LooperSource_Apple.cpp` | a timerfd per timer; one kqueue entry per looper | `AsTimer()`, its allocator, reader and custom update handler |
| Attachment | `Source/Attachment.cpp` | a descriptor number it does not own | none |
| Apple platform | `Source/Apple/` | kqueue set | as WaitSet and LooperSource |
| Utilities, Layer, RingBuffer | | none | macros; empty classes |
| Tests, GoogleTest | `Test/` | | |

### How they interact

A thread owns one `Looper`. `loop()` asks its wait set for a source whose
descriptor is readable, calls the source's reader (`onAwoken()`), and tests
`_shouldTerminate` before it waits again. Any thread that has the pointer may
call `terminate()`, which sets the flag and writes to the pipe of the looper's
*trivial source*, which the first `loop()` makes and puts into the wait set. Nothing
makes `terminate()` wait until it has.

A channel is scheduled in a looper by making a source that caches the
descriptor of its socket and calls `readMessageOnHandle()`. This reads all
packets under the socket's lock, releases the lock, hands the messages to the
callback and terminates the channel when the read said so. Other threads may
send on the same channel, or terminate it. Callbacks may do anything:
send, terminate, schedule, call `loop()` again (section 7 says where a model
leaves that out).

A server's source accepts connections in a looper and passes them to a
callback as channels; the other end is a `Channel(name)` with `tryConnect()`.
A message is what passes between channels, with attachments (descriptors).
Shared memory stands alone; its handle travels as an attachment.

### What is hard, and what makes each component correct

* **Looper**: `terminate()` races with `loop()` between its test of the flag
  and `wait()`, and with the first `loop()` while it makes the trivial source.
  Correct if no wake-up is lost, if wake messages go to the pipe the wait set
  watches in spite of the lazy, unsynchronised allocation of the handles, and if
  `loop()` returns for a request and only for one. It is so only as far as no
  request comes before the first `loop()` has set up.
* **WaitSet**: descriptors are cached in sources, forgotten by the kernel when
  closed, and reused; the kernel holds raw pointers; results of `epoll_ctl()`
  are ignored. Correct if `_sources` and the epoll set agree and what `wait()`
  returns is alive while `loop()` uses it.
* **Channel, Socket**: several threads of two ends, a lock that covers reading
  and writing but not closing, a blocking `poll()` inside the lock, batches
  dispatched after the lock is released, errors reported once. Correct if
  messages arrive in order, none twice and none lost, if the end of a
  connection is reported after them and once, and if nothing blocks for ever.
* **Server**: names outlive crashed processes, the constructor retries,
  connections queue before they are accepted. Correct if the name leads to the
  server that listens, if the constructor ends, and if no client is left in
  limbo.
* **SharedMemory**: constructors of several processes race for random names,
  and may die with one. Correct if backings are private and names temporary.
* **Message**: buffer arithmetic, decoding in any order and from any buffer.
  Attachments are numbers that may be closed and given out again before the
  message is sent. Correct if decoding returns what was encoded and stays inside
  the buffer, and if the files that were attached arrive and no others. Of two
  attachments none arrives.
* **Timers**: the interval becomes an unsigned count and is split into seconds
  and nanoseconds; a timerfd runs on while its timer is in no wait set; expirations
  merge; on Apple platforms the one entry of a kqueue stands for its timer. Correct
  if no interval goes unsignalled, none is signalled early, the reader finds an
  expiration, and a scheduled timer fires again and again.

The list of hazards in `PROJECT.json` names the lines.

## 2. Modules

| Module | Models | Used by |
|---|---|---|
| `LoopContract` | abstract: `loop()` runs until `terminate()` | `Looper` implements it |
| `Looper` | `loop()`, `terminate()`, the trivial source and its pipe | `MCLooper`, `LooperProofs` |
| `WaitSet` | one looper's wait set and epoll set with channels and timers in them | `MCWaitSet`, `WaitSetProofs` |
| `MessagePipe` | abstract: one direction of a pair of channels | `Channel` implements it, twice |
| `Channel` | two connected channels, their sockets, locks, loops and further threads | `MCChannel`, `ChannelProofs` |
| `Server` | servers of one name, clients, crashes, the loops that accept | `MCServer`, `ServerProofs` |
| `SharedMemory` | shared memory objects of all processes | `MCSharedMemory`, `SharedMemoryProofs` |
| `Binary` | the binary digits of a number | `Message`, `Timer`, `BinaryProofs` |
| `Message` | a message from encoding to decoding, attachments and the sender's descriptors | `MCMessage`, `MessageProofs` |
| `Timer` | timers in the wait sets of running loopers, on Linux and on Apple platforms | `MCTimer`, `TimerProofs` |

The models meet at the places where the components do, each taking the other's
promise as its environment:
`Looper` treats user sources as things that become ready and run callbacks;
`WaitSet` is the wait set inside it, with the channels' and timers' operations
on it; `Channel` is what happens when the loop runs a channel's source (its
`ReadCall` is `WaitSource` of `Looper`); `Server` is where a connected pair
comes from; `Message` is what one packet of `Channel` contains; `Timer` is what
makes a timer of `WaitSet` ready and what its reader does.

### Looper

A step is one access to shared memory or one system call. `pc[t]` is the point
in `loop()` (owner only), `terminate()` or `handles()` where thread `t` stands;
`depth` counts nested `loop()` calls, which share one `_shouldTerminate`
(`Reset` clears it, Looper.cpp:96). A pipe is named by the thread that created
it, so two concurrent allocations are two pipes: `watched` is the one in
the wait set, `handles` the one in the source. `wakes[p]` counts messages in a
pipe.

`terminate()` has no guard but the bound on the pipe: any thread may call it at any
time, before the first `loop()` and while that sets up, as the repository's own
tests may (ChannelTest.cpp:65-82). `early` records who did. Such a call may find a
null `_trivialSource`, and the process dies (`TerminateNull`), or it may allocate the
handles a second time. `LoopContract` has exactly this gap: a request that is made
before the loop is prepared (`premature`) may break the contract, then or later
(`Break`), and nothing else may.

A pipe holds `PipeCapacity` messages (`RoomForWake`); another thread's
`terminate()` on a full one sleeps in `write()` until `loop()` reads. The owner's
own, from a callback, would sleep for ever: `MayTerminate` keeps it from that
unless `OwnFlood` is set. `MaxDepth` bounds the nesting.

### WaitSet

Everything runs on the looper's thread; a step is one operation of a channel,
a timer or the looper. `handle` is the descriptor that is open now, `cached`
the one the source remembers, `watch` the epoll set by descriptor. Descriptor
numbers are drawn from `1 .. MaxHandle` and reused. `connected` may be set or
not on opening, which stands for `Channel(name)` and `Channel(handle)`.

Two rules of the caller are parameters: `LateUnschedule = FALSE` means that a
channel that terminated is unscheduled before the program opens another
descriptor, `CollectInCallback = FALSE` that user code does not drop the last
reference to the object whose callback is running. The run `waitset` keeps both
rules, and `waitset_late` and `MCWaitSetCollect.cfg` show what happens without.

### Channel

Two ends with a loop thread each, and further threads `Users` of an end. The
kernel keeps `inbox` (packets queued for an end), `reset` (an ECONNRESET to be
reported once, after the peer closed with unread packets) and `fd`; the C++
fields are `handle`, `connected`, `lock`, and `batch`/`eof` for the locals of
`readMessageOnHandle()`. `handle` and `fd` differ between `::close()` and
`_handle = -1` (Socket.cpp:137-140), which are not under the lock. A thread in
`poll()` keeps the socket alive after its descriptor is closed (`Gone`).
Every outcome of `sendmsg()` and `recvmsg()` the code distinguishes is an
action: `Sent`, `SendWouldBlock`, `SendFails`, `SendBroken`; `RecvMessage`,
`RecvZero`, `RecvStops`. EINTR is retried inside the call and leaves no trace.
After EAGAIN the code reads `_handle` a second time, for `poll()` (Socket.cpp:315):
`PollCall` is a step of its own, and another thread's `close()` may come in between.
A descriptor that is closed is reported at once; `-1` is ignored, and the thread
sleeps for ever with the lock (`"asleep"`).
A broken pipe raises no SIGPIPE, as the sockets are SOCK_SEQPACKET.

`Crash` kills the process of an end in `Crashes` at any step, with all its
threads and their locks, and the kernel closes its descriptor (`Die`). So does the
`CL_CHECK` on `::close()` when another thread has closed the descriptor already
(`CloseFails`). The users in `MoreLoops` run a second loop over the channel of their
end.

`Senders` and `Closers` say which threads call `sendMessage()` and
`terminate()`, `Empty` which messages have no data. `accepted`, `delivered`
and `notified` are what a caller sees; the refinement into `MessagePipe` uses
the first two.

### Server

The constructor and destructor are cut at their system calls (`phase`).
`entry` is what the name leads to: binding takes it, unlinking clears it
*whoever it belongs to*, a crash leaves it. `backlog` holds connected clients
that were not accepted. A server in `BindFails` gets another error than
EADDRINUSE. Any number of servers of the name may live at a time, and each may
unlink another's name; `taken` records the servers to which that happened. An
`unlink()` that finds no name fails its check, and the process ends (`Abort`). A loop
of `Loopers` wakes up for a server (`Wake`) and then calls `accept()` (`Accept`), which blocks
when the backlog is empty by then; `woken` holds the loops between the two.

### SharedMemory

A step is one system call of the constructor, its failure path or `cleanup()`.
`backing[n]` is what a name refers to; backings are named by their creator.
`Fail` is any failure of `shm_open()`, `ftruncate()` or `mmap()`; a failed
check (`munmap(MAP_FAILED)`, `close(-1)`) stops the object where it is.

### Message

The buffer is a sequence of cells, each a byte of a value; capacity, read
position and attachments are numbers. `NextPOTSize` is computed on the binary
digits (`Binary`) of a `size_t` of `Width` bits, with the wrap-around of `+ 1`;
`reserve()` does not call it with 0. `Transfer` is the packet's way through `WriteMessage()` and
`ReadMessages()`, including the control messages.

`table` is the sender's table of descriptors. An attachment is a number in it;
what the kernel passes on is the file the number stands for when `sendmsg()` is
called (`FilesOf`), and the receiver gets descriptors of its own. The program may
close a descriptor at any time, and the number may be given out again; `closed` records
the attached files this happened to. `ReadsControl` says which packets the reader
gets past: not one with several descriptors, as it asserts a control message's length
to be that of one (Socket.cpp:196), and none at all where `CMSG_NXTHDR(header, nullptr)`
is not the first control message (`NullIsFirst = FALSE`, glibc). The others stop the
receiver (`stopped`).

### Timer

`clock` holds the kernel's timers: a timerfd per timer on Linux, one entry per
kqueue on Apple platforms, each with its period, what is left of it, and whether
an expiration waits to be read. `Tick` lets time pass for all of them, between any
two steps. `due` and `owed` record what each timer should do, from its interval
alone: when its next interval ends, and whether one ended that has not fired.
`platform` is chosen in `Init`; it decides what adding, removing and waiting do
(`AllocateOnce`, `TimerAdd`, `TimerDelete`, `Wait`). `TimerSpec` is the
`itimerspec` of the Linux allocator, computed in words of `Width` bits.

A timer is in one wait set at a time unless `SharedTimers`, and alone in a kqueue
unless `ManyTimers`.

## 3. Runs

Each run asks one question. *distinct* is the number of distinct states.

| Run | Instance | distinct | Shows |
|---|---|---|---|
| `looper` | owner and 2 terminators, 1 user source, nesting 2, pipe 2; `terminate()` at any time | 624544 | no wake-up is lost, one pipe unless a request was early, the reader never blocks; `Looper` implements `LoopContract` with its liveness |
| `channel` | A's loop thread, a second thread at A that sends, B's loop thread that sends; all three terminate; queue 2, 3 sends each way, the third message empty; B's process may be killed | 1353085 | in-order prefix both ways; nothing lost while open; the end behind everything; one notification, with two threads in `close()` at once |
| `channel_one_way` | 2 threads send at A, one terminates, or the process is killed; queue 2, 4 sends | 62768 | liveness: every message accepted arrives, also after the sender is gone, and then the receiver ends |
| `channel_empty` (violation) | second message empty | | a message without data ends the channel |
| `channel_blocked` (violation) | both ends send, queue 1 | | two full queues stop both ends for good |
| `waitset` | 2 channels, 2 timers, 3 descriptor numbers | 10665 | wait set and epoll set agree, `loop()` uses live sources |
| `waitset_late` (violation) | the same, `LateUnschedule` | | another channel's registration is removed |
| `server` | 3 servers whose lives overlap, in one loop, 2 clients, backlog 1 | 274320 | a bound server keeps the name until another server takes it away; constructors end; no limbo; `accept()` does not block |
| `shared_memory` | 3 objects, 2 names, 2 tries, failures | 52480 | backings private, names temporary, constructors end |
| `message` | types of 1 and 4 bytes, `size_t` of 8 bits, 2 attachments, 2 numbers, 2 files | 349881 | what is decoded was encoded; no file arrives in place of another; reserving is enough |
| `message_attachments` (violation) | the same | | a packet with two attachments is not read |
| `timer` | 2 timers, 2 loopers, 4 intervals (one zero, one negative), both platforms | 65485 | no interval unsignalled or early, no blocked read, timers fire for ever |

Further configurations are run by hand. They show what happens outside of the rules
the runs above assume, or that a property one would like to have does not hold. TLC
reports the named property violated in each:

| Configuration | Property | What happens |
|---|---|---|
| `MCLooperEarly.cfg` | `NoNullTrivialSource` | `terminate()` before the first `loop()` dereferences a null `_trivialSource` (Looper.cpp:101) |
| `MCLooperFlood.cfg` | `KeepsContract` | a callback calls `terminate()` on a full pipe and sleeps in `write()`, which only its own loop could end |
| `MCChannelTwoLoopers.cfg` | `PipeIsSafe` | two loops read one channel, and their batches are dispatched without the lock in any order (Channel.cpp:132) |
| `MCChannelTwoClosers.cfg` | `CloseSucceeds` | a user thread's failed send and the loop thread both terminate one end: both pass `_handle != -1` and the second `close()` fails its check, or hits a reused descriptor (Socket.cpp:137-140) |
| `MCChannelAsleep.cfg` | `PollCanReturn` | between EAGAIN and `poll()` another thread closes the socket: the writer polls -1, sleeps for ever and keeps the lock (Socket.cpp:315-319) |
| `MCWaitSetCollect.cfg` | `HandlerAlive` | a callback drops the last reference to its own channel or timer; `loop()` goes on with the object (Looper.cpp:93) |
| `MCServerOverlap.cfg` | `UnlinkSucceeds` | a second server takes the name of a living one, and one of them finds no name to unlink, which its check does not forgive (Server.cpp:80, :107) |
| `MCServerBind.cfg` | `ConstructorEnds` | `bind()` fails with another error than EADDRINUSE: the constructor loops for ever; the `result` it would leave with is shadowed (Server.cpp:67-88) |
| `MCServerTwoLoopers.cfg` | `AcceptDoesNotBlock` | two loops wake up for one connection, and the second blocks in `accept()` (Server.cpp:116) |
| `MCMessageGlibc.cfg` | `AttachmentsArrive` | with glibc, `CMSG_NXTHDR(header, nullptr)` is no way to get the first control message: not even one attachment arrives (Socket.cpp:192) |
| `MCTimerShared.cfg` | `ReaderDoesNotBlock` | two loops wake up for one expiration, and the second blocks in `read()` |
| `MCTimerMany.cfg` | `PeriodIsSignalled` | on Apple platforms the second timer of a looper takes over the entry of the first, as every timer has the handle -1 (LooperSource_Apple.cpp:77) |
| `MCSharedMemoryFailure.cfg` | `FailureIsClean` | the failure path's own calls fail: `close(-1)` when no name was free, and (with `Failures`) `munmap(MAP_FAILED)`; a handle that is open is not closed, as the test at SharedMemory.cpp:146 is the wrong way round |

### Are the bounds enough?

* *Threads.* The pipe and the flag have one reader and symmetric writers: a
  third terminator adds no new kind of interleaving. Two ends are all there
  are; a third thread at one end contends with that end's loop thread, for the lock and
  in `close()`. What B does with A, A does with B: only B is killed in `channel`, and
  its loop thread faces one thread where A's faces two.
* *Nesting.* Depth 2 is the first where a request may be consumed by the inner
  `loop()`; a deeper one repeats that.
* *Queues.* A queue of 1 or 2 with one more send than it holds is full, drains
  and fills again. `LowWater = 0` makes `poll()` as late as it may be.
* *Descriptors.* Three numbers for four sources: reuse happens at once, and
  opening may be impossible.
* *Servers.* Three let one that crashed be followed by one that crashes with the
  old name half replaced, and by a third; and two overlap while a third takes the name
  of either.
* *Names.* Two for three objects and two tries: collisions, and running out.
* *Bytes.* Sizes 1 and 4 in a buffer of at most 6 cells make values straddle
  powers of two; `ReserveIsEnough` runs over every length up to half of an
  8-bit `size_t`. The code's shifts 1..16 reach 32 of 64 bits; `{1, 2}` reach
  4 of 8 in the same way (`MCMessage`).
* *Files.* Two numbers and two files: a number that is closed can be given out for
  another file.
* *Time.* With 2 ticks to a second, intervals of 2 and 3 have a remainder or not, and
  -1 becomes the largest word; two timers whose periods differ drift through every
  relation to each other.

The theorems of section 6 hold for all values of these bounds.

### Deadlock

`MCLooper`, `MCWaitSet` and `MCTimer` check it: a step is always possible (in
`MCLooper` a user source may become ready even when the process has died, so what
must go on there is stated by `KeepsContract`). Elsewhere
`CHECK_DEADLOCK FALSE` is set because the system may really stop: sends are
bounded, channels, servers and objects are used once, a message is sent once, and with two-way traffic
the two ends do deadlock, which `channel_blocked` states as a property.

## 4. Fairness

* `Looper`: weak fairness for the owner's steps in `loop()` and inside
  `terminate()`, and for each terminator's steps once `terminate()` has begun.
  The scheduler runs threads that can run, and callbacks return. Nothing obliges a
  thread to call `loop()` or `terminate()`, or a source to become ready.
* `Channel`: weak fairness per thread, for everything but the calls
  (`SendCall`, `TerminateCall`): loop threads stay in `loop()`. Fairness is per
  thread and not per action, so a thread blocked on a lock is owed nothing.
* `Server`, `SharedMemory`: a constructor or destructor that has begun goes on,
  and a server's source is scheduled in a running loop. Construction,
  destruction, crashes and clients are never obliged.
* `Timer`: time passes (weak fairness of `Tick`), the reader and the wake function
  return, and `wait()` is strongly fair per timer: epoll and kqueue report the ready
  entries of a set in turn, so that one source cannot starve another.
* `WaitSet` and `Message` have safety properties only.

## 5. Findings

1. `channel_empty`: `recvmsg()` returning 0 is taken for the end
   (Socket.cpp:240-244), but a packet without data returns 0 too;
   `Test/AttachmentTest.cpp:52-71` sends one and expects its callback.
2. `channel_blocked`: `WriteMessage()` sleeps in `poll()` with the lock that
   `ReadMessages()` needs (Socket.cpp:319, :156): the comment at
   Socket.cpp:97-101 promises reads that do not block.
3. `waitset_late`: `unscheduleFromLooper()` removes the descriptor number its
   source has cached, which may be another channel's by now (Channel.cpp:167).

4. `message_attachments`: `WriteMessage()` puts all descriptors of a message into one
   control message (Socket.cpp:288-303), and `ReadMessages()` asserts that a control
   message has the length of one (Socket.cpp:196), so that two attachments end the
   reader's process. The comment at Socket.cpp:186-187 says "Read all descriptors in
   one go", and `MaxControlBufferItemCount = 8` (Socket.cpp:51) makes room for eight.

Some configurations run by hand contradict the repository's texts as well:

* `MCLooperEarly.cfg`: the tests of channels call `terminate()` from another thread
  without waiting for the `loop()` that it should end
  (`ChannelTest.cpp:65-82`, `:133-157`); if it comes first, the process dies.
* `MCMessageGlibc.cfg`: `AttachmentTest.cpp:64-71` expects its one attachment to
  arrive; with glibc, as `Socket.cpp:192` is written, it need not.
* `MCChannelTwoClosers.cfg`, `MCServerOverlap.cfg`, `MCSharedMemoryFailure.cfg`: the
  `CL_CHECK`s on `::close()`, `::unlink()` and `::munmap()` assert what these calls
  do not return there.
* `MCServerBind.cfg`: the test of `result` after the loop (`Server.cpp:84-88`) is
  meant for a `bind()` that failed, and is never reached with one.

The others leave a rule of use that no text of the repository states: one looper
per channel, server or timer, no `terminate()` from a callback on a full pipe, no
last reference dropped in a callback, one timer per looper on Apple platforms, and
no `close()` beside a writer.

## 6. What is proved

| Module | For all | Assuming | Theorems |
|---|---|---|---|
| `LooperProofs` | terminators, sources, depth, pipe capacity; `terminate()` at any time | nothing | types; `NoLostWakeup`, `OneWakePipe`, `ReadNeverBlocks`; `Looper` implements the safety of `LoopContract` |
| `WaitSetProofs` | channels, timers, descriptors | nothing | types; `WatchedIsScheduled` |
| | | `TidyProgram` (no late unscheduling, finding 3) | `ScheduledIsWatched` |
| `ServerProofs` | servers and their overlap, clients, backlog, crashes | nothing | types; `ListeningIsReachable`, `NameIsRemoved` |
| | | `OneLoop` | `AcceptDoesNotBlock` |
| `SharedMemoryProofs` | objects, names, tries, failures | nothing | types; `BackingIsPrivate`, `UnlinksOwnName`, `NamesAreTemporary` |
| `ChannelProofs` | users, second loops, queue sizes, numbers of messages, empty messages, crashes, who sends and terminates | nothing | types; `NotifiedOnce`; `OneThreadInTheSocket` (the lock excludes, and is always released); `MessagesOnlyOvertake` (none lost or delivered twice, whatever the order) |
| | | `OneLoop` per channel | `NothingLost`, `EofIsComplete`; `PipeIsSafe`, that is, both directions implement the safety of `MessagePipe` |
| `MessageProofs` | types, sizes, reservations, descriptors, files, when they are closed | nothing | `NothingIsInvented`, `RoundTrip`, `NoWrongFile` |
| | | `Reservable` (lengths up to half of a `size_t`) | `InBuffer`, `ReserveIsEnough` |
| `BinaryProofs` | numbers and widths | nothing | the lemmas about digits that the other two use |
| `TimerProofs` | timers, loopers, intervals, word size, both platforms | `PlainUse` (one looper per timer; one timer per looper on Apple platforms) | types; `PeriodIsSignalled`, `ReaderDoesNotBlock`, `NotEarly` |

In `MessageProofs` and `TimerProofs` `NoneIsNoMessage` and `NoneIsNoRecord` say that `None` is not a record by chance.
Besides these, each module has the assumptions on constants it declares, which
TLC evaluates in every run; that the shifts of `Message_NextPOTSize()` reach half
of the word (`ReachAssumption`) and that `sendMessage()` lets no more bytes through
than half of what a `size_t` counts (`SizeAssumption`) are two of them. Each proof has
an inductive invariant, one lemma for the initial state, and one with a step per
action; `ChannelProofs` and `MessageProofs` have several invariants, each for what
follows from the same assumptions.

* *Looper.* `NoLostWakeup` is not inductive: it needs to know where wakes go.
  `PipesAreAccountedFor` says that only the owner and early threads make a pipe, and
  that whatever pipe the source, the wait set or a thread holds is one of those made,
  so that they agree if there is one; `BeforeRegistration`, that until the trivial
  source is registered every other thread inside `terminate()` is early;
  `AfterRegistration`, that from then on the source and its handles are there;
  `OwnerKnows`, that a `loop()` that was told of a wake finds it.
  The properties are conditional on `OnePipe` where a second pipe, which only an early
  request can make, refutes them.
* *WaitSet.* `HandlesAreOwned` (a number belongs to one live object),
  `CachesAreKnown` (a cached number is the object's own, as long as it is open)
  and `ScheduledAreKnown` are kept by every program; `ClosedNumbersAreFree` (a closed
  channel that is still scheduled has a number that nobody else got) is what
  `TidyProgram` buys, and all that `ScheduledIsWatched` needs beyond.
* *Server.* `NameIsGone` (the name does not lead to a server that has removed it) and the
  type of the backlogs are enough for servers that overlap, because what an overlap
  may do to a server is in `taken`. `BacklogStep` treats the queue apart, as sequences
  need their own facts; `WokenForOne` is what one loop per server knows between waking
  up and `accept()`.
* *SharedMemory.* `OwnBacking`: a handle refers to the object's own backing,
  because of `O_EXCL`. `OneName`: that backing has only one name, so
  `shm_unlink()` takes away the last. `TriesAreLeft` bounds the retries.
* *Channel.* `TInv` is the type invariant with `MessageInHand`: who sends has a
  message. `OneNotification` follows from `ClosedOnce`, which counts the end's one
  `::close()`: whoever stands between it and the callback, or has passed it, is one,
  as only an open descriptor can be closed.
  So it holds for two threads in `close()`, too, the second of which ends the process.
  For the messages each end has `Complete`
  (`accepted[Peer(e)] = delivered[e] \o batch[e] \o inbox[e]` while it reads),
  `NoReadAfterEof` (a read that found the end was the last one, as nothing reads
  between it and `::close()`), `Drained` (if the peer's messages all have data, an empty
  queue after a read found the end, which is why the peer must be gone for good,
  `GoneStays`) and `InOrder`, the prefix
  that remains when a queue is dropped. `PipeStep` reads off that each step accepts
  one message, delivers the next one, or does neither. With two loops the order is
  lost, and the argument is about sets: `Fresh` (no two sends carry one message),
  `Apart` (a message is in one place) and `SentIsSomewhere`.
* *Message.* `NumbersStand`: until the packet is sent, each attached number stands for
  the file it was attached for, unless that was closed since. `ExactBuffer`: the receiver's buffer is as long as the
  data, so that a `decode()` that succeeds stays inside it. For `InBuffer`, `RoundsUp`
  shows that spreading the ones of `x - 1` to the right fills at least the digits
  below the highest, and `LeastPowerOfTwo` that where the shifts reach it fills all
  of them, so that `+ 1` gives the least power of two that is enough. For `RoundTrip`,
  `Journey` keeps where each encoded value starts in the packet (`Layout`) and that
  the receiver's next `decode()` starts where the next value does (`Packet`).
* *Binary.* The provers know neither powers nor induction over an operator. `Pow2`,
  the digits of a number and its value are recursive functions; that such functions
  exist is proved (`Recursion`), from an induction over *sets* of numbers
  (`Induction`), which follows from the least element of a set (`LeastElement`).
* *Timer.* `TimeIsKept`: the kernel entry that serves a timer (`InStep`) has its
  interval as period, the same time left, and an unread expiration exactly if the
  timer owes one; a timer nothing runs for owes nothing. `Conversion` is the lemma that
  `TimerSpec` loses no part of an interval. `Reading` and `Alone`: between `wait()`
  and the reader nobody else can take the expiration.

Only model-checked: the liveness properties (`HangUpIsNoticed`, `ConstructorEnds` of
`Server` and `SharedMemory`, `NoLimbo`, `TimerFires`), and `KeepsContract` and
`PipeDelivers` with their fairness, of which the safety parts are proved: TLAPS does
not reason about ENABLED; and `HandlerAlive`, which is about one rule of the caller
and what the program does within it. All other invariants that a run expects to hold
are proved.

## 7. Not modelled

* *Apple platform.* The kqueue back end is modelled for timers only. What it makes
  of an interval that is zero or negative is not.
* *Custom update handlers* of sources other than timers (the library makes none),
  and a `loop()` nested in a callback in `WaitSet` (it is in `Looper`).
* *The end of a looper's thread* against a late `terminate()`.
* *Threads that share a wait set*: `_sources` has no lock, and its looper's thread is
  the only one to touch it in the models.
* *A `loop()` nested in a message callback* of `Channel`. It may read and dispatch
  newer packets before the rest of the outer batch, a local of `readMessageOnHandle()`
  (Channel.cpp:128-141). The model's `ReadCall` starts from `"idle"` only; but the
  nested loop does to the channel what the loop of a user in `MoreLoops` does while
  the first thread stays in its callback, so that `MCChannelTwoLoopers.cfg` shows the
  overtaking, `OneLoop` excludes it, and `MessagesOnlyOvertake` is what remains.
* *Builds with NDEBUG*: a failed `CL_CHECK` or `CL_ASSERT` ends the process in the
  models. A descriptor number that is reused between the two closes of
  `MCChannelTwoClosers.cfg` is not modelled, either; the second one then closes what
  belongs to somebody else.
* *Failures the code only asserts on*: `malloc()`, running out of descriptors,
  and partial writes of the wake message.
* `Utilities`, `Layer`, `RingBuffer` have no behaviour; the tests are read as
  documentation of use; GoogleTest is vendored.

## 8. Plan

Done: `LoopContract`, `Looper`, `MessagePipe`, `Channel` with crashes and second
loops, `WaitSet`, `Server` with its loops, `SharedMemory`, `Message` with the
sender's descriptors, `Timer` on both platforms; proofs about each of them.

Next, in this order:

1. The end of a looper's thread: destruction of the looper and its wait set while
   another thread holds the pointer.
2. The Apple wait set beside the Linux one, with one abstract set of scheduled
   sources that both are to implement.
3. What a loop's client is promised of `WaitSet` and `Server` as abstract
   specifications of their own (a set of registered handlers; a name that leads to
   at most one listener), with the proof that each step maps to a step or a stutter,
   as for `LoopContract` and `MessagePipe`.
