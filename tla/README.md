# ABE in TLA+

ABE (`src/ABE`) is a C++ foundation library: reference-counted objects, strings,
containers, messages, buffers, byte streams, bit I/O, and a small runtime of
threads, loopers and dispatch queues. This directory holds a TLA+ model of it,
the TLC runs that check small instances and the TLAPS proofs that cover every
instance. File names below are relative to `src/ABE/`.

## Inventory

| component | source | state | operations | correct when |
|---|---|---|---|---|
| lock-free queue | `stl/Queue.{h,cpp}` | `mHead`, `mTail`, `mLength`, linked nodes | push1/pushN, pop1/popN, clear, size | FIFO, no element lost or twice, no access to freed memory |
| job dispatcher | `core/Looper.cpp` 162-299 | `mTasks` (lock-free queue), `mTimedTasks` (list by time), `mTaskLock` | queue, pop, next, remove, exists, flush | a queued job runs once, not early; "first" tells the poster to wake the runner |
| looper | `core/Looper.cpp` 301-528 | `mTerminated`, `mRequestExit`, `mLock`, `mWait`, a thread | post, remove, exists, flush, onJob loop, requestExit | no posted job is left behind by a sleeping looper, exit waits for the jobs posted before it |
| main looper | `core/Looper.cpp` 301-502 | `lpMain`, `lpCurrent`, the same dispatcher, no thread of its own | Main, Current, loop, terminate, SIGINT's handler | it ends when it is asked to, from any thread or the handler, and drains what was posted before |
| dispatch queue | `core/Looper.cpp` 530-646 | `mDispatching`, its tasks, a looper to run on | dispatch, sync, remove, exists, flush, requestExit | jobs of one queue run one at a time, sync returns after its job, release waits for all jobs |
| thread | `core/Thread.cpp`, `core/Looper.h` | `mState`, `mWait` | start, run, join, detach, execution | the job runs at most once, only after run(), join returns after it |
| job | `core/Job.cpp`, `core/Looper.h` | ticks, looper or queue | run, cancel, execution | follows looper and queue |
| mutex, condition | `core/Mutex.{h,cpp}` | pthread objects | lock, wait, waitRelative, signal | as pthread |
| shared object | `core/SharedObject.cpp`, `core/Types.h` | `mRefs`, weak/strong pointers | Retain, Release, sp<>, onFirstRetain, onLastRetain | freed once, after the last reference |
| shared buffer | `core/SharedBuffer.h`, `core/SharedObject.cpp` | refs, size, content | Create, edit, ReleaseBuffer | a writer never changes what another holder sees |
| containers | `stl/Vector`, `stl/List`, `stl/HashTable` | copy-on-write storage | push, pop, insert, erase, sort, clear | sequence, sorted order and map laws |
| string, message, buffer | `core/String`, `core/Message`, `core/Buffer` | value types over SharedBuffer | set, append; set, find, remove; read, write, skip, resize | value semantics, read back what was written |
| content | `core/Content.cpp`, `core/protocol/File.cpp` | cache block, positions, file | read, write, seek, tell | reads and writes agree with the file |
| bit I/O | `tools/Bits` | cache word, position | read, write, skip, set, get | the reader returns what the writer was given |
| allocator, log, system | `core/Allocator.cpp`, `core/Log.cpp`, `core/System.cpp` | - | - | thin wrappers |
| C interface | `ABE.h`, `ABE.cpp` | - | one call each | passes on to the classes |

### How the parts interact

A `Looper` owns a `LooperDispatcher`, which is a `JobDispatcher` and runs as the
job of a `Thread`. `Looper::post` puts a `Task` (an `sp<Job>` and a time) on one
of two lists: a `LockFree::Queue` if it is due at once, pushed without a lock, or
a `List` by time behind `mTaskLock`. `queue()` reports whether the task is the
first, and only then does the poster take `mLock` and signal `mWait`. The
looper's thread pops a task or sleeps, with `mLock` held from the pop to the wait.
`exists` and `remove` first move everything from the queue to the list
(`merge_l`). A `DispatchQueue` has its own `JobDispatcher`, the
`QueueDispatcher`, which is also a `Job`: it is posted to a looper, runs one
task, and posts itself again. Dropping the last `sp<Looper>` or
`sp<DispatchQueue>` calls `onLastRetain` and waits there. The main looper has
the same dispatcher, but `loop` runs it in the main thread, and the handler of
SIGINT calls its `terminate` in whatever thread it interrupts. Everything that is
shared is counted by `SharedObject`; containers and strings share storage
through `SharedBuffer` and copy it before they write. A `Content` keeps one block
of a `File` in a `Buffer`; a `Message` is a `HashTable` of entries that may hold
an object.

### What is hard

- the lock-free queue: the order of three stores in pushN, two loads of `mHead`
  in popN, nodes whose address comes back from malloc, clear's stale head;
- the decision to wake: a push and a test of the size are two steps, and other
  threads push, pop and merge in between;
- a wait with a timeout that was computed before the sleep, signals that wake
  one of several kinds of waiter, waits that return for no reason;
- exits: the last reference may go while jobs run, tasks are delayed, or the
  dispatcher is posted; it may be dropped by the looper's own thread;
- a thread whose state is set by the creator, by run, by join and by itself;
- a signal handler that takes locks, and a global pointer to the main looper that
  is neither locked nor counted;
- the counts of shared objects and copy on write between threads;
- short reads and writes, cached blocks, ring positions, file boundaries.

`PROJECT.json` lists these at their lines, with the properties that watch them;
those that no property watches say why.

## Modules

| module | models | uses |
|---|---|---|
| `LockFreeQueue` | `LockFreeQueueImpl`, one action per shared access | |
| `FifoQueue` | what `LockFree::Queue` promises | |
| `JobDispatcher` | operators on the two task lists | |
| `Looper` | a looper, its thread and its clients | `JobDispatcher` |
| `DispatchQueue` | a dispatch queue on a looper | `JobDispatcher` |
| `Thread` | `Thread` and its native thread | |
| `MainLooper` | the main looper, the threads that use it, and SIGINT | |
| `SharedObject` | counts, `sp`, destructors, several threads | |
| `SharedBuffer` | copy on write, several threads | implements `OwnedSequences` |
| `OwnedSequences`, `OwnedTables` | what holders of shared storage are promised | |
| `Vector`, `List`, `String` | sequences on shared storage | `OwnedSequences` |
| `HashTable`, `Message` | tables on shared storage, references in entries | `OwnedTables` |
| `Buffer` | linear and ring buffers | |
| `File`, `Content` | a file that reads and writes short, and the cache over it | `Content` extends `File` |
| `Bits` | `BitWriter` and `BitReader` | |
| `MC*` | scenarios and symmetry for TLC | the modules |
| `JobDispatcher_proofs` | lemmas about the task lists | `JobDispatcher`, `TLAPS` |
| `Looper_proofs`, `DispatchQueue_proofs` | theorems | the module, `JobDispatcher_proofs` |
| `LockFreeQueue_proofs`, `SharedObject_proofs` | theorems | the module, `TLAPS` |
| `Thread_proofs` | theorems | `Thread`, `MainLooper`, `TLAPS` |
| `Core_proofs` | theorems | `MCCore`, its strings, messages, buffers and files, `TLAPS` |
| `Stl_proofs` | theorems | `MCStl`, its shared buffers, vectors and tables, `TLAPS` |

`MCCore` (objects, strings, messages, rings, files), `MCStl` (shared buffers,
containers, bits) and `MCThread` (a thread, the main looper) hold several parts: a
behaviour is about one of them, and the variables of the others are not used.
`MCThread` extends `Thread` and `MainLooper`, whose definitions have names of
their own for this.

Definitions that begin with the comment "Mutant:" are plausible wrong versions of
the definition that follows them. No specification uses them; each shows that
some property would notice.

### LockFreeQueue

The variables are the fields of the class and of its nodes, `heap` (what malloc
has handed out: a freed node can come back), and the registers of each thread.
`PushAlloc` to `PushAdd` are the steps of pushN (`Push1Link`, `Push1Swing` those
of push1); `PopBegin` to `PopFree` those of popN, pop1 and clear. clear goes back
to its test with `head` still pointing to the freed node, as the code does.
Memory that only one thread can reach is written in the neighbouring step; the
code's atomics are sequentially consistent, so interleaving is all there is.
Dereferencing NULL or a freed node is the end of the run (`Crash`): what happens
then is undefined. `spine`, `order` and `consumed` are history.

`FifoQueue` is the promise. `ImplementsFifo` maps its queue to the elements
published and not consumed: linking (push1) or the swap of `mTail` (pushN) is
Push, taking the data is Pop, everything else is a stutter.

### JobDispatcher and Looper

`JobDispatcher` has the pure part: where a timed task is inserted (before those
due at the same time), what `next` returns, what sort and remove leave. The list
is a sequence; sort is modelled by its result, a stable sort, and not by its
merging. In `Looper` every critical section is a step, except that merge_l takes
one step per task, since posters push meanwhile. A post takes its time from the
clock when its Task is made (`MakeTask`) and queues it later (`PostPush`), so that
two posters may queue against the order of their times; `JobsInOrder` therefore
promises an order to each client, not to all. The lock-free queue is a
sequence here, one push and one pop a step; the steps inside are
`LockFreeQueue`'s. The looper's thread (`lpc`) goes through pop, run and drop; the
task that goes out of scope at the end of the iteration may drop the last
reference to the looper (`JobHolds`), and then the thread is "stuck" in its own
requestExit. Time is a counter to `MaxTime`; `Jitter` is the slack of a
millisecond in pop. Anyone's wait may return for no reason.

### DispatchQueue

`posts` is what the looper has of this dispatcher, in the order `Looper`
promises. sync holds `mLock` from its push to its wait (`SyncPush` to
`SyncSize`), so that the signal cannot come first. `Woken` is who is signalled
after a task. Neither the wait of sync nor that of `requestExit` is in a loop: a
wait that returns for no reason ends sync before its task has run and destroys
the Condition that the task points to (`made`, `dangling`; the run ends when
the dispatcher signals it), and lets `ExitCheck` find the dispatcher busy. merge_l
is a single step here.

### Thread

`mState` and one Condition with the set of its waiters; setState_l wakes one of
them, whichever. The native thread is `npc`, a client `pc`. A CHECK that fails
aborts the process. The job may join its own thread, which the code has a branch
for. `Thread::Main`, names and scheduling types are left out, and so is detach,
which has no caller.

### MainLooper

Every thread has a stack of the calls it is in, with the handler's on top of what
it interrupts, so that SIGINT may come at any step of any thread. `mLock` and
`mTaskLock` are explicit: the mutexes check for errors, and a thread that locks
one it holds aborts. `Lock` enters the section that `Sections` names. The list of
delayed tasks is two sets, those whose time has come and the others: their order
is `Looper`'s subject. `early`, `ran` and `flushed` are history.

The handler is there from `InstallHandler`, the sigaction at the end of the
dispatcher's constructor, which is before `AssignDispatcher` gives the looper its
dispatcher. It reads `lpMain` when it arrives (`Interrupt`) and the dispatcher
in a later step (`HandlerTerminates`), without a reference.

`unlucky` marks what the code does not survive, and `FailsOnlyByBadLuck` says
that, of what is modelled, there is nothing else: SIGINT in a thread that holds
one of the two locks (in its own, an abort; with `mTaskLock` held, the loop waits
for a thread that waits for the loop), before the dispatcher is assigned (a null
pointer), or after the loop, when `lpMain` is NULL; a loop that ends, and a last
reference that goes, between the handler's two reads; and `Looper::Main()` in
another thread before the main thread has completed the first call, or while the
last reference is going. A SIGINT before the handler is installed ends the
process and is left out. Bounds: one signal; no second main looper; one reference
per thread at a time; jobs post and terminate only.

### SharedObject and SharedBuffer

A slot is an `sp` that one thread may use at a time and may hand to another, as a
task's job is when it is popped. Each object has an `sp` inside, so that deleting
one object may release the next. A thread's stack holds the calls it is in, since
destructors nest. Every access to a count is a step, the load and the decrement
of `ReleaseObject` apart.

`SharedBuffer` has the test of `edit`, the copy, the write that the caller makes
later, and both steps of a release. Its refinement mapping is a holder's content;
`KeepsOwnContent` says that each step of any thread changes what one holder reads
and nothing else.

### Containers, String, Message

One thread each: what others do to the counts is `SharedBuffer`'s subject. Next
to the storage as the code lays it out (cells with raw memory, chains, linked
nodes, bytes with a terminator), the variable `value` keeps what each holder
should read, by the operations of `OwnedSequences` or `OwnedTables`; the
invariants compare the two. `List` sorts with the code's buckets, link by link;
`MCStl` has one list long enough for several rounds of merging. Elements are
values; their constructors are not followed.

Two operations reach other holders, although both classes say "cow":
`HashTable::clear` empties shared storage in place, and `String::set` writes in
place when the text fits. A table's victims get the value `Lost`, and the
invariant says nothing of them from there; a string's end the run. `Message`
counts what clear leaks (`leaked`).

`flaw` is what has gone wrong with a string. "unterminated": set(const char *)
and a string appended to itself write no terminator, although `String.h` calls
`c_str()` null-terminated; the characters are still there by their length, and
the flaw goes with the next operation that writes a terminator. "overwritten": another string in the
same buffer was set. "overlapped": a string was inserted into itself, where
`strncpy` overlaps what it writes; `Found` has both outcomes, all bytes read first or
one after the other. The last two end the run. So `StringsKeepTheirText` compares
characters by length and by `c_str()`, and each flaw takes away what it breaks
only. Left out, because the code then reads memory it does not have: `replace` of
an unterminated string, an only holder that is set to itself, an argument that
points into the string's own bytes, and a reference to a vector's own element.

### Buffer, Content, Bits

`stream` is what a reader of a buffer should find, `want` what the client wants in
the file, `bits` and `pos` what was written and how far it has been read. `at` is
where the client of a content is by its own calls: a seek puts it where it asked
to be, whatever the code returns, inside the file or window. A behaviour
ends where the code goes wrong: a buffer after a replace that runs over the end,
or a resize that cuts (`misused`), bits after a value with more bits than its
length, which disturb those before it (`spoiled`). A content's `fault` is the
first of: a short write of the block ("short"), a write after a seek inside the
cache ("place"), a seek or a skip that ends elsewhere ("seek", "skip"), a write
across the end that makes the length too long ("length"); all but the last end
the run. The properties hold up to there, the conditions say when that may
be (`MissesAreAtTheEnds`: a seek misses only at or past the end of a window that
starts behind its file).

`File` may read and write fewer bytes than asked, over a whole file or a window
of any start and any length, for reading or writing, one that starts past the end
of the file too, where lseek fails and leaves the descriptor where it was. Seeks
are to 0 or more, as `Content.h` asks; skips go both ways. Descriptors that
cannot be sought and the parsing of urls are left out. A step of `Content` is one
round of the loop of read or write. `Bits` has bytes of `Width` bits, so that
words of eight bytes stay small numbers.

## Runs

| run | question | instance |
|---|---|---|
| `queue_spsc` | does the queue keep its promise with one producer and one consumer, in any mixture of its entry points? | 3 pushes, 4 addresses |
| `queue_mpsc` | what still holds with several producers, up to a crash? | 2 producers, 2 pushes each, 5 addresses |
| `queue_mpsc_crash` | is pushN "for multi producer"? No. | 2 producers, 1 push each |
| `looper_calls` | does the looper run what is posted, in order, once, and drain at exit? | four scenarios, 2 clients |
| `looper_lost_wakeup` | does "first" always wake the looper? No. | 2 posts |
| `looper_own_job` | may a job hold its looper? No. | 1 post |
| `thread_calls` | are run and join safe in any order; does the main looper end, also on SIGINT? | 3 clients, 5 calls; 3 threads, 4 calls, 1 signal |
| `thread_join_skips` | does join wait for the job? Not if it overtakes run's wake-up. | 1 run, 1 join |
| `dispatch_calls` | are tasks run one at a time, does sync wait, does the release drain? | four scenarios, 2 clients |
| `core_calls` | do counts match, and does each holder keep its own: objects, strings, messages, rings, files? | 2 threads, 3 slots, 2 objects; 2 strings, 3 characters; 2 messages; 2 capacities; files of up to 4 bytes, blocks of 2 |
| `stl_calls` | does a shared buffer change for its writer only, does each container hold what its calls made of it, do readers return the bits written? | 2 threads, 2 holders, 4 buffers; 2 of each container, 4 items; a list of 6; 2 writes of bits |
| `vector_shrink` | does a vector stay inside its storage? Not after shrink. | the same |

Why the bounds are enough. Queue: a second element is needed to see the order, a
third to have a node address freed and reused while another thread holds it; one
address more than the elements alive lets malloc choose. Looper and dispatch
queue: the hazards need a task on each list, a third call that merges or removes,
delays shorter and longer than each other (1 and 3, with a slack of 1), and a
clock that passes the longest. `Roles` is a set of scenarios; a behaviour picks
one at the start, so that one run covers clients that do everything alone and
clients that get in each other's way, each with its own bound. Thread: two
callers of run, three of join, and the job. Main looper: the scenarios give the
calls, the fetch included, to the main thread, to one other or to two; with the
signal two threads can wait for the end at once. Objects: a third slot lets a
thread keep an object while another assigns, and the second object is what the
first holds inside. Shared storage: two holders share, one more buffer is what
edit copies to. Lists: five and more elements fill a second bucket of the sort
and merge it. Tables: two of the three keys share a bucket, and the second
element grows the table. Rings: one transfer is smaller and one larger than the
capacity, and positions pass it. Files: contents longer than a block, seeks to
every place and past the end, windows that start at, in and past the file, empty and
longer than it, in both modes. Bits: lengths below a byte, across
bytes and longer than the reservoir's refill.

`CHECK_DEADLOCK FALSE` is set where the system really stops: clients have no
more calls, the clock is at its bound, the process has aborted, or all nodes are
in use. `queue_spsc` has it on: a consumer polls for ever. `queue_mpsc_crash` has
it on too, and stops at its violation.

Fairness. Threads that are not blocked move (WF on the looper's thread, the
native thread, and the continuation of each call), as any preemptive scheduler
grants; locks are held for a bounded number of steps. Time passes (WF on
`Tick`). Nobody has to begin a call, no wait has to return without a signal
or its timeout, and no SIGINT has to come; in `MainLooper` delays end and a wait
with a timeout returns (WF on `Elapse` and `MainThread`). `queue_spsc` assumes in addition that the consumer keeps polling.

### What the runs show

With one producer and one consumer the queue is what `FifoQueue` says: no bad
access, no lost element, false from pop only when drained. With several producers
the order still holds (and so does the count, by proof), and producers never touch
freed memory, but the consumer may: pushN counts its element although an earlier producer has not
linked its own, and popN then swaps NULL into `mHead`. That is how the job
dispatcher uses the queue. Two consumers fail sooner; no part of the library
pops from two threads.

The looper keeps every job in exactly one place, runs the due jobs of each client
in order, never sleeps past work and drains before it terminates, provided no client moves tasks
(posts at once, or merges in exists and remove) while another is between its push
and its test of the size (`OneMover`). Without the proviso it may sleep on with
jobs queued: `looper_lost_wakeup` shows it for two posts, and a post with an
exists does the same. A later signal or the release of the looper wakes it;
without one the jobs wait for ever. Dispatch has the same test with the same
outcome (the proviso of `QueueIsServed`, `JobsRun` and `CallsReturn`); there the
release waits for a signal that nobody sends. Of the dispatch queue's exit only a
wait that returns for no reason breaks the CHECK and the draining
(`ExitDrains` says so), since the wait is not in a loop.

The thread's state only advances, the job runs at most once, and join returns
after the thread has gone. A join that takes the lock after run() and before the
native thread wakes makes it skip the job (`thread_join_skips`), although the
comment says join waits for the job. A CHECK fails only when run or join is
called twice or join before run. A job that joins its own thread detaches it and
then waits for itself for ever; no client hangs with it. The example
`Thread(new MyJob()).run()` without a join leaves the native thread waiting in
`AwaitTerminating`.

The main looper ends when it is asked to, whoever asks, and runs or drops every
task posted before. A terminate in the main thread (a job, the handler) drops
them, one from another thread lets them run. The bad luck above is real: nothing
in the code blocks SIGINT while a lock is held or before the dispatcher is
assigned. Other things met here: releasing a
main looper that is never looped waits for ever; `Looper.h` says terminate "can
only be used in non-main threads", and the code has a branch for the main thread;
Looper's requestExit compares with `Thread::Main()`, whose first call aborts
outside of the main thread.

Counts match in every interleaving, objects are deleted once, and freed memory is
touched only by an assignment from inside the object that the target alone keeps
alive, since `operator=` clears before it sets. Holders of a shared buffer never
see each other's writes: the test in `edit` and the write after it may be apart,
because only a holder can make another. Strings and tables keep this for their
copies except after the two operations in place. Buffers, cached files and bits
return what was written up to the points where their behaviours end.
`vector_shrink` is a bug: shrink leaves `mCapacity` as it was, and the next push
writes over the guard behind the storage.

The models also have these steps, up to which the properties hold, against what
the sources say of them; they have no run of their own:

- `String::set(const char *)` leaves the terminator out, so that `s = "aa"; s = "x"`
  compares as "xa" (`String.h:156` has `c_str()` null-terminated), and writes into
  a buffer that copies share (`String.h:45`: "cow support");
- `HashTable::clear` empties storage that copies share (`HashTable.cpp:124`: "cow");
- `Buffer::replace` without a length checks with 0 (`Buffer.cpp:181`), and after a
  `resize` that cuts, `empty()` is a size_t below zero (`Buffer.h:120`);
- `Content` gives up what a short write has left (`Content.cpp:94`), writes to the
  end of the block after a seek into it, and its `tell` does not count written
  bytes in the cache (`Content.h:141`);
- `File` clamps a seek in a window as if the window began at 0, so that `tell` may be
  negative (`Content.h:142`), and its length grows by bytes that were overwritten
  (`Content.h:88`);
- `BitWriter::write` does not mask its argument (`Bits.h:232`);
- SIGINT between `sigaction` and the assignment of the main looper's dispatcher
  calls a null pointer (`Looper.cpp:333`, 470);
- the last release of a `DispatchQueue` waits for ever if two clients have dispatched
  at once, and fails its CHECK (`Looper.cpp:586`) if its wait returns for no reason;
  sync returns before its task in that case.

Seen without a model: `HashTable.h` says insert will "replace if
exists", and the code checks that the key is absent; `Buffer(const char *, 0)`
copies nothing, though the header says it duplicates; `Buffer::indexOf` may match
past what is ready; `BitReader::skip()` also drops whole bytes it has loaded;
`BitWriter` over a `Buffer` ignores the read position; `String::replaceAll` does
not end when the replacement contains what it replaces; `Message::dup` does not
copy `mWhat`.

## Proofs

The theorems hold for every value of the constants, that is for any number of
clients, threads, nodes, objects and calls, any clock and any scenario, under
the named assumptions of the modules: the sets of clients are finite, the special
values are not among the others, bounds are natural numbers. Each module's
argument is an inductive invariant, one lemma per action (or per conjunct) that
it is kept, and theorems that read the properties off it. None of the properties
is inductive as a run states it; what had to be added is below.

### `LockFreeQueue_proofs`

- `TypeCorrect`: `TypeOK`, for any consumers and entry points.
- `FifoInvariance`, `FifoOrder`, `ProducerSafety` (`Fifo`,
  `ProducersAreSafe`) and `ImplementsQueue` (every step is a push, a pop or a
  stutter of `FifoQueue`), under `Usage`: one consumer, and either one producer in
  any mixture of entry points or any number calling pushN. That is how
  `LockFree::Queue` and the dispatchers use it. `FifoInv` adds to `Fifo` that the
  live part of the spine is allocated, without repetition and holds the published
  elements (`SpineInv`); that links are in spine order or not yet stored
  (`LinkInv`); that unpublished nodes are private to one producer (`PrivateInv`,
  `OwnerInv`); that a linking producer's predecessor is in the list
  (`LinkingInv`, which gives `ProducerSafety`); and what the consumer's registers
  hold at each step (`ConsumerInv`), including the NULL in `mHead` that leads to
  the crash with several producers.
- `CountIsRight`, `SizeBounded` (`SizeIsBounded`, which no run checks), with one
  consumer (`OneConsumer`). `mLength` lags behind: producers add late, the consumer
  subtracts before it takes. `CountInv` says by how much, modulo `SizeMod`, and
  that the consumer goes past its test only when an element is counted.
- `SoleSafety`, `AccessSafety` (`NoBadAccess`) and `EmptyIsDrained`
  (`EmptyMeansDrained`), with one consumer and one producer (`OneProducer`):
  with two producers `queue_mpsc_crash` refutes the first. `SoleInv` says that
  only the producer's current link may be missing, and that elements are
  published in the order of the calls; with `CountInv` the consumer never goes
  where the link is missing. `EmptyIsDrained` needs `MaxPush < SizeMod`: fewer
  pushes than size_t can count, or a full queue would look empty.

### `JobDispatcher_proofs`

`SortFacts` and `WithoutFacts`: merge_l's sort and remove keep the tasks they
should, double none, and leave the list in the order of the times, for lists of any
length. The module also has the lemmas about inserting, popping and concatenating
that the looper's and the dispatch queue's proofs share.

### `Looper_proofs`

`LooperSafe` (`LooperInv`) and from it `TypeCorrect`, `TasksAreConserved`,
`WorkNoticed`, `JobsAreInOrder` and `ExitRunsAll` (`TypeOK`, `TasksConserved`,
`WorkIsNoticed`, `JobsInOrder`, `ExitDrains`). The parts of `LooperInv`:

- `CallsInv`: what each call in progress has locked and may do;
- `RefsInv`: `mRefs` is the number of clients that have not let go, plus what
  the jobs on the lists and the running one hold. Without it `TypeOK` is not
  inductive: a count could go below zero;
- `ExitInv`: after the last client has let go nobody begins a call, and the
  thread leaves its loop only after that, with both lists empty;
- `PlacesInv`: every call of post is in one place, once, and the next one is new;
- `OrderInv`: a task without delay goes from the queue, perhaps through the list,
  to its run, and what the same client has ahead of it at each of the three places
  was made no later; a task that is made and not queued yet is no earlier than those.
  `JobsInOrder` alone says nothing of the places before the run;
- `NoticeInv`: a sleeping looper has an empty queue and a deadline no later than
  any listed task, or somebody is on the way to wake it. `WorkIsNoticed` speaks of
  the first of the list; during a merge the list is out of order, and the
  invariant speaks of all of it. Its condition is `OneMover`, which the run
  `looper_lost_wakeup` shows to be needed.

### `DispatchQueue_proofs`

`DispatchSafe` (`DispatchInv`) and from it `TypeCorrect`, `TasksAreConserved`,
`QueueServed`, `SyncAfterRun`, `SignalsSafe` and `ExitRunsAll` (`TypeOK`,
`TasksConserved`, `QueueIsServed`, `SyncMeansRun`, `SignalsFindTheirSync`,
`ExitDrains`), the last three unless a wait returns for no reason. `CallsInv` and
`PlacesInv` are as in the looper. `SyncInv`: until then whoever is in sync waits as
long as its task is on a list or runs, is in no other call, and is woken only after
its task has run; so its Condition is there when the task is signalled.
`ServedInv`: a queue with tasks is posted, running, or some client is about to
post it; the window is from a push to the test of the size. `ExitInv`: the client
that dropped the last reference is alone, and goes on only when nothing is queued
or running, unless waits return for no reason.

### `Thread_proofs`

`ThreadInvariance` (`ThreadInv` ties `mState` to where the native thread, the
creator and the callers are and to whether the job has run), and from it
`TypeCorrect`, `JoinIsDone` (`JoinMeansDone`: what a join promises is not
inductive without knowing why the native thread exited), `StateOnlyAdvances`
(`StateAdvances`, step by step) and `AbortsOnlyOnMisuse` (`AbortsOnMisuse`, with a
count of who has called what).

Of the main looper, `MainLooperInvariance` (`MainLooperInv`) and `MainLooperSafe`
(`MainLooperIsSafe`), with SIGINT at any step of any thread once its handler is
installed, and stacks of any
depth. `CreationInv` orders the looper, its dispatcher and its end;
`ReferenceInv`: who has a reference, or is about to, or is the handler between
its two reads, finds a looper that is complete or gone; `LocksInv`: who holds a lock is in its section with nothing on top, as
long as no handler came there; `DrainInv`: the loop is the outermost call of the
main thread, and a task posted before the exit has run, was dropped, or is
pending, and none is pending at the end.

### `SharedObject_proofs`

`SharedObjectSafe` (`SharedObjectInv`) and from it `CountedSafe`
(`ObjectsAreCounted`) and `NoUseAfterFreeSafe` (`NoUseAfterFree`). Assumed: finite
sets of slots and objects, disjoint, without `NULL`. The count is the number of
references (`CountsMatch`) only together with `NoDangling` (what an `sp` points
to is alive) and with what each unfinished call has read before it was
interrupted (`FramesInv`: the load and the decrement of a release, the kept
source of an assignment, the object between its destructor and its free).
`DeletedInv`: a live object with a count of zero is being deleted, by one call.

### `Stl_proofs`

`SharedBufferSafe` (`SharedBufferInv`), `BuffersSafe` (`BuffersAreCounted`) and
`BuffersImplementSequences`: `Spec => KeepsOwnContent`, the refinement of
`OwnedSequences`, step by step. Each theorem assumes `BufferAssumption`, which
`MCStl` states for its instance. `EditInv` is the reason why the test in `edit`
and the write after it may be apart: the edit's holder is the thread's own, its
buffer has room for the write, and at the write its count is one; only a
holder can raise a count, and the only holder is the thread itself.

`TablesInvariance` and `TablesKeepEntries` (`TablesKeepTheirEntries`) are about
`MCSpec`, the specification of the run, in its scenario of tables, for any finite
sets of tables, storages and keys, any values, any hash that is a number, and
constructors with any length but 0 (`TablesAssumption`; at least as many storages
as tables, so that memory is always found). `TablesSound`: storage counts the
tables that have it and is not in use otherwise, which is why an edit in place
reaches no other table; every element is in the bucket of its key's hash, and no
key is there twice, in whatever order elements were inserted, moved by a growth or
erased; the chains hold what the table should, which counts it. After a clear of a
table that shares its storage the others are lost, and their count is only known to
be no smaller than what is there. That an iterator comes to every element once
follows from the placement: `next` visits the positions of the chains in their
lexical order.

`VectorsInvariance` and `VectorsKeepItems` (`VectorsKeepTheirItems`) are about the
scenario of vectors, for any finite sets of vectors and storages, any elements
whose keys are numbers, and any capacities but 0 (`VectorsAssumption`; more
storages than vectors, because a vector that moves has two for a moment).
`VectorsSound`: storage counts the vectors that have it; its first `mItemCount`
cells are the items that each of them should hold, and the others are raw. A
vector that is alone is written in place (`InPlaceIs`: nobody else reads these
cells), any other moves (`RelocateIs`), and both leave the rest what they have
(`VectorsStay`). What is left of a removed item is raw again, so nothing dead is
destructed and nothing alive is forgotten.

That `sort` is the stable sort (`IndexSorts`) is proved for every length. All
buckets of a pass together hold every position once, each in the strict order
`Precedes` (smaller key, or the same key and before), and the positions of an
earlier bucket are before those of a later one: this is why taking from the left
bucket unless the right one is smaller keeps equal elements in order, and why two
buckets whose ends are in order can be put together at once. A pass halves the
number of buckets, so that one is left after as many passes as there are items,
and the place of a position in it is the count of those up to it, as
`OwnedSequences` defines the stable sort.

A growth moves the elements of a chain one by one, a merge takes one position at a
time, and a length or a capacity doubles until it is large enough. All are recursive
functions in the model. That such a function exists and obeys its recursion, and
induction up to a number, are proved from the least counterexample (`Recursion`,
`Induction`), with sets and functions in the place of the operators that the
library's theorems have as parameters.

### `Core_proofs`

The theorems are about `MCSpec`, the specification the run checks, where each
part is one scenario: each has an invariance theorem for its scenario and one that
reads the property off it.

- `BytesInvariance` and `BuffersInOrder` (`BuffersReadInOrder`), for buffers of any
  capacity and transfers of any length (`BytesAssumption`: they are sizes).
  `BytesInv`, until the buffer is misused: the read position is not beyond the
  write position, a ring begins inside its capacity and holds no more than that
  (`PositionsInv`); the bytes between them, wherever a ring has moved them, are
  the stream (`StreamInv`).
- `ContentInvariance` and `ContentsAreTheFiles` (`ContentIsTheFiles`), for files,
  windows and blocks of any start and length, in both modes, and any short read or
  write (`ContentAssumption`). The client's place is not in the code. `PlaceInv`: the
  descriptor is where `File` and `Content` believe it to be. `ReadInv` ties the
  client to it, less what is left of the block, and says that the block is what the
  file has before the descriptor. `WriteInv`: the block laid over the file at the
  descriptor is what the client wants, an empty block included. `SeekInv` and
  `MissesAreAtTheEnds` say where a seek may go and when it may miss. All but these
  hold until a fault other than a length.
- `MessageInvariance` and `MessagesKeepEntries` (`MessagesKeepTheirEntries`), for
  finitely many messages and names (`MessageAssumption`, which also keeps NULL
  from being an entry). `BlocksInv`: a string's block is in use exactly while an
  entry has it, and only one has, so that erasing an entry frees nobody else's.
  `CountsInv`: an object's count is the number of entries that hold it, the
  client's reference and what clear has leaked. `AnswerInv`: what find returns.
- `StringInvariance` and `StringsKeepText` (`StringsKeepTheirText`), for finitely
  many strings and arguments of any length (`StringAssumption`: at least as many
  buffers as strings, so that memory is always found, and NULL is not a buffer).
  `BufferInv`: a buffer counts the strings that have it and lives as long.
  `RoomInv`: the characters and the terminator are inside the buffer, which is
  the reason why writing in place does not leave it. `TextInv` and `EndInv`: the
  characters are those asked for, and the terminator stands behind them unless the
  string is marked; `VisibleInv`: no terminator is among them, so `c_str()` ends
  there. `SizesInv`: until a string is spoiled, strings in one buffer have the same
  size. `swap` does nothing to
  two strings in one buffer, which is right only because of this: their sizes are
  theirs, and the invariant without it allows them to differ.

Sequences are reasoned about by their elements: the lemmas at the beginning of
each part say what `SubSeq`, an overlay, a splice or a copy to the start has at
each index.

### Model-checked only

Liveness is out of the prover's reach: `JobsOfOneMoverRun`,
`LastReleaseTerminates`, `JobsRun`, `CallsReturn`, `MainLoopEnds`, and the part of
`ImplementsFifo` that rests on fairness. Two invariants, both of `MCStl`, have no
theorem. `ListsKeepTheirItems`: a list is read by following its links, and each
operation folds over a chain. `BitsReadAsWritten`: words are put together bit by
bit by folds, whose values the prover cannot compute with. The runs enumerate all
short instances of each.

## Plan

Modelled: the runtime (queue, looper, dispatch queue, thread, main looper), what
it shares (objects, buffers), the containers, strings, messages, buffers, cached
files and bits. Left: `Looper::Current` outside of jobs, a second main looper, and
a `Job` without a looper.

Proved: the safety of the runtime and of what it shares, and what strings,
messages, vectors, tables, buffers and cached files hold. What could still be
proved: that lists and bits hold what the runs find.

## Not modelled

Logging, time and environment access, allocators, string formatting, Unicode
conversion, matrices (floating point), debugging aids, the C interface, and
vendored code; statistics of the looper. The pthread objects are external: a
Mutex is an atomic step or a holder, a Condition a set of waiters. Memory order
weaker than sequential consistency is not used by the code and not modelled.
Substrings, comparison and the other operations
that only read are left out of strings and buffers, and so is what prints.
