# linux_test in TLA+

linux_test is a collection of C programs, kernel modules and small libraries
that exercise Linux interfaces. Most files are straight-line demonstrations of
one call. This directory models the parts that have state and behaviour of
their own: those that share data between threads or processes, wait for each
other, keep linked structures alive across failures, or maintain a data
structure under a long sequence of calls. There are ten such parts. Each is a
TLA+ module translated from its source file and model-checked with TLC on small
instances, and for each of them TLAPS has proved the safety properties for
every value of the constants; the liveness properties are model-checked only.

Paths below are relative to the repository (`src/` stands for its root).
`PROJECT.json` lists, for every definition, the lines it stands for, and, for
every property, a plausible bug (an operator marked `mutant` in a module) that
the property catches.

## 1. Inventory

### Modelled

| part | source | state | operations | how the parts interact | what is hard |
|---|---|---|---|---|---|
| myfifo device | `driver/myfifo/drv/myfifo.c` | `size`, `rp`, `wp`, 4096 bytes, a semaphore, wait queues `inq`, `outq` | `read`, `write`, `poll`, `MYFIFO_CLEAR` | processes in system calls; wake-ups through the kernel's wait queues | the wait condition is read without the semaphore; the wake-up follows its release; signals and faults on every path; full and empty both have `rp = wp` |
| globalmem device | `driver/globalmem/drv/globalmem.c` | memory, open counter, semaphore, attributes, how far the probe has got | open, release, read, write, seek, clear; sysfs attributes; probe, remove | processes in system calls, sysfs writers, an administrator who binds and unbinds | the device can be opened before its semaphore is initialised; the next probe initialises it again under open files; sysfs takes no semaphore; a signal in release |
| eeprom driver | `driver/eeprom.c` | cached slices, their validity bits and ages, `update_lock` | sysfs read and write | the bus and the device behind it; a write invalidates what a read caches | a refresh holds the lock and a write does not; transfers fail half way and are retried until a timeout; ages are compared across the wrap of `jiffies` |
| atomic operations | `atomic/atomic-arm.h`, `-mips.h`, `-x86.h` | one word, link reservations, a store buffer | add, and, or, cas, swap, loads and stores with barriers | processors that use the same word | between the load and the store of a loop anything may happen |
| thread pool | `test_threads_pool.c` | task list, `cur_queue_size`, `shutdown`, mutex, condition | `pool_init`, `pool_add_worker`, `pool_destroy`, `thread_routine` | main and workers through the mutex and condition | lost and spurious wake-ups; `shutdown` written without the lock; freeing what threads still use |
| shared frame buffer | `test_ringbuffer.c` | four `uint32_t` counters, mutex, condition, run flag | client fills, server drains, shutdown | two threads that read each other's counter | half of the accesses take no lock; the counters wrap; a signal sent without the lock |
| broadcast server | `sock_br_server.c` | linked list of clients, counter | accept, read standard input, write to all, delete | one thread, `select`, peers that leave at any moment | a deletion while the cursor is on the node; one of several writes fails |
| process monitor | `top_ext.c` | two tables of records, free list, counters | `read_procs`, `print_procs`, `free_old_procs`, the loop of main | reads `/proc` entry by entry while tasks run, exit and start | a task is gone, or another, between two reads; records are recycled; a table grows while it is filled |
| hash map | `math/hashmap.c_` | open-addressing table, `size` | put, get, remove, iterate, rehash, destroy | rehash calls put, put calls rehash | holes left by removals; growth inside growth; memory failure inside growth |
| min-heap | `math/min_heap.c` | array of pointers, index in each item | push, pop, erase, adjust | callers keep items and trust `min_heap_idx` | one shift must repair an erase in the middle; back-pointers follow every move |

What makes each correct:

- *myfifo*: bytes come out once, in order, whatever fails; the semaphore is
  returned on every path; nobody sleeps while what it waits for is there.
- *globalmem*: the semaphore is never above one and is returned on every path;
  the counter is the number of open files; a read is a copy of the memory at
  one moment; whoever queues is served.
- *eeprom*: what the cache calls valid is what the device holds; a read after
  a completed write returns what was written; nothing older than the lease is
  returned; the count of a write is what reached the device.
- *atomic operations*: each takes effect in one step, between its call and its
  return, and somebody always gets on.
- *thread pool*: every task is run once; the asserts of `thread_routine` hold;
  workers do not all sleep over a task; nothing is freed under a thread;
  `pool_destroy` returns.
- *frame buffer*: the two threads never touch the same frame or leave the
  buffer; frames keep flowing; the program ends when told to.
- *broadcast server*: the list is exactly the open clients, the counter counts
  them, each chunk goes to all of them, and only failed clients are deleted.
- *process monitor*: every record is in one place; a task that lived through a
  round is shown, once; the time shown for it is its own.
- *hash map*: a key put and not removed is found, with the value put last; a
  removed key is not; the probe always ends in a table with room.
- *min-heap*: the root is a least item; each item knows its slot.

### Not modelled, and why

`PROJECT.json` lists every part. The reasons are:

| part | source | why |
|---|---|---|
| module load of myfifo | `driver/myfifo/drv/myfifo.c:289` | publishes the device before its queues and semaphore are initialised; the same order is modelled in globalmem's probe, with its consequences |
| myv4l driver | `driver/myv4l/drv/drv_v4l.c` | what it does is decided by the kernel's videobuf, which is not in the repository |
| mymap and lddbus drivers, kernel examples | `driver/mymap`, `driver/lddbus`, `driver/program-examples` | register something with the kernel and keep no state of their own |
| input device monitor | `test_inotify.c` | whether a freed device is used depends on how the kernel batches the events of three queues; a model would be mostly of them |
| futex pair | `test_futex.c` | one word, one wait, one wake |
| GLib condition demo | `gtk-test/gcond_demo.c` | one slot between two threads, with `g_mutex_trylock` used as if it locked: there is no discipline whose consequences could be checked |
| allocation wrappers | `wrap_func/wrap_malloc.c` | a global count of bytes, without a lock, in a demonstration that calls one after the other |
| local server and client | `sock_local_server.c`, `sock_br_client.c` | one loop over `select` with one descriptor |
| memory barrier test | `test_mem_bar.cpp` | a litmus test of the processor, not an algorithm; `Atomic` has the store buffers |
| disk monitor | `iostat.c` | two buffers in turn, and no other state |
| Huffman code, array rotation, other pure functions | `math`, `md5sum` | print a result and make no claim to check |
| sqlite, dlmalloc and mspace | `sqlite`, `mspace` | vendored; more than nine tenths of the repository's lines of C |
| everything else | | one system call, widget or language construct each, build experiments, and scripts in other languages |

### Hazards

`PROJECT.json` lists what can go wrong in this code and a test would hardly
reach, line by line, with the properties that cover it. Three have no property:
the module load of myfifo and the batches of `test_inotify.c:412` (above), and
the reservation of `min_heap.c:126`, which is proved (`WithinReserve`) and not
listed by a run.

## 2. Modules

| module | what it is |
|---|---|
| `BoundedFifo` | abstract: a queue of bytes of bounded capacity |
| `MyFifo`, `MCMyFifo`, `MyFifoProofs` | the device, every call a sequence of steps, refines `BoundedFifo`; who makes which calls, for TLC; seven theorems |
| `GlobalMem`, `GlobalMemProofs` | the device from its probe to its removal; four theorems |
| `Eeprom`, `MCEeprom`, `EepromProofs` | cache, device and bus; instance; five theorems |
| `AtomicWord` | abstract: a word that every operation reads and writes in one step |
| `Atomic`, `MCAtomic` | the instructions of the three headers, refines `AtomicWord`; instance |
| `ThreadPool`, `ThreadPoolProofs` | main and workers; six theorems |
| `FrameRing` | client and server of the frame buffer |
| `BrServer` | the select loop and the client list |
| `ServerProofs` | six theorems about `FrameRing` and four about `BrServer` |
| `ProcTable`, `MCProcTable` | the monitor beside the tasks it lists; instance |
| `AtomicProcProofs` | three theorems about `Atomic` and four about `ProcTable` |
| `HashMap`, `MCHashMap`, `HashMapProofs` | the table, its instance, five theorems |
| `PriorityQueue` | abstract: a set with values, from which a least item is taken |
| `MinHeap`, `MCMinHeap`, `MinHeapProofs` | the heap, refines `PriorityQueue`; instance; five theorems |

The ten parts do not call each other in the repository, so the only
compositions are of a detailed module with its abstract specification, by
`INSTANCE ... WITH`. Variables named as history in a module's comments are no
state of the program; they record what a property speaks about. `BrServer` and
`ProcTable` share their proof modules with another program, and name their
`Init`, `Next`, `Spec` and `TypeOK` apart (`BrSpec`, `ProcSpec` and so on).

### MyFifo

State: the fields of `struct myfifo_dev` under their own names; `inq` and
`outq` as the sets of processes still queued; `pc`, `req`, `got` for each
process: where its call is, the arguments, and the bytes copied to it.

What lies between `down_interruptible` and `up` is one action per outcome
(`Blocked`, `ReadBody`, `WriteBody`, `ReadFault`, `WriteFault`, `Clear`,
`PollBody`), because everything there is guarded by the semaphore except
`size`, which the wait conditions read without it, and which each section
writes once. `wait_event_interruptible` is taken apart into looking
(`WaitCheck`), enqueueing (`PrepareToWait`), looking again (`WaitRecheck`),
sleeping and being woken (`Woken`), as the macro has it: that is where a
wake-up can be lost. `WakeUp` is `wake_up_interruptible` after `up`. Signals
are `DownInterrupted` and `SleepInterrupted`; a sleeper that finds a signal
looks at the condition again before it gives up, as the macro does. A failed
`copy_from_user` leaves anything in the free cells it was writing to.

### GlobalMem

State: the fields of `struct globalmem_dev`; the semaphore as its count and the
queue of those blocked on it, with `inited` saying whether `sema_init` has been
called; `driver`, how far the probe has got; `cdev`, whether `open` finds the
device; for each process, its call, file offset and the cells read.

A call begins with `Call`, which also fixes the offset and cuts the length, as
the code does before it takes the semaphore. `Take` and `Enqueue` are the two
ways through `down_interruptible`, `Interrupted` is a signal while queued, and
`Up` hands the semaphore over to the first in the queue. What is done inside is
`Count` (open, release), `Copy` one cell at a time and `Copied`, or `Fault`
half way. Cells are separate steps because `BinWrite` and `BinCopy`, the binary
sysfs attribute, write the memory beside it all. `Publish`, `RequestIrq`,
`SemaInit` and `DrvRemove` are the probe, in the order of the code, and the
removal, with files open or not. Queueing on a semaphore that is still all
zeros is an oops (`Oops`), and initialising one that is in use is undefined:
both end the model.

### Eeprom

State: what the device holds; `data`, `valid`, `last_updated` and `update_lock`
of `struct eeprom_data`; for each process, its call, the loop counters, the
value of `valid` it is working on, and the timeout of the page it is writing.
Contents are taken by page, the unit of a write; a slice is two pages.

A read goes slice by slice: `UpdateClient` takes the lock and looks at the bit
and the age, `Fill` is a transfer, `FillFails` one that fails after part of the
bytes, `Stamp` and `Mark` record the age and set the bit; then `Copy` hands out
the bytes and `ReadReturns`. A write clears each slice's bit (`ClearLoad`,
`ClearStore`) and puts two pages (`WritePage`; `WritePageFails` may have
reached the device, and is repeated until an attempt began after the timeout),
up to `AllWritten` and `WriteReturns`. Setting and clearing a bit are a load and
a store each, because a write does not take the lock. `Tick` advances
`jiffies`, which wraps.

### Atomic

State: the word, each processor's waiting store, its link reservation, where it
is in its operation and the value it has read. A step is one instruction that
touches memory: `LoadLinked` and `StoreCond` with `LinkBreaks` on ARM and MIPS;
`Locked`, and `ReadForLoop` with `CasInLoop`, on x86; `Load`, `Store` and
`Drain` for the plain accesses, with the barriers as conditions that the
processor's own store has drained. On ARM and MIPS `cas` and `swap` begin without
a barrier and may load the processor's own waiting store; whether that store,
when it drains, breaks the processor's own link is left open. A `cas` may then
fail because of a store that nobody else has seen, which is `Compare` in
`AtomicWord`. `arch` is the header that is compiled in.

### ThreadPool

State: the fields of `CThread_pool`; the list as a sequence of tasks;
`waiting`, the threads blocked in `pthread_cond_wait`; where each thread is.
`shutdown` is written by `pool_destroy` without the lock, so each read of it is
a step (`Test`, `Decide`). `Signal` wakes one waiter, any one; `SpuriousWakeup`
is what the standard allows. A thread that has returned from the wait takes the
mutex again and goes back to the test (`Wakes`). Main adds its tasks and then
may or may not destroy the pool.

### FrameRing

State: `user`, `user_base`, `server`, `server_base` modulo `Laps * FrameCount`,
as `uint32_t` does modulo 2^32; the mutex, the wait, the run flag; and, for
each thread, where it is and the chunk it is working on. Filling and draining
are states with a duration, not steps, so that `NoFrameShared` can speak about
the memory the two are using at the same time. Counters are aligned words: each
is read and written in one step.

### BrServer

State: `g_clients_head`, the `next` field of every node, which nodes are
allocated, `g_clients_cnt`, which sockets are open, whose peers have left, and
the cursor and `prev` of the broadcast. Each `write` is a step; it may fail
only when the peer has left, which it may do at any moment. After a deletion
the code goes on through freed memory when another client follows (section 5);
the behaviour is then undefined, and the model stops (`UseAfterFree`). So the
model goes on only after the deletion of the last client of the list, and a
property about a round that comes to its end speaks of no other. Before it
stops, though, there is the state in which a client has been deleted in front
of others and the cursor has moved on: `ListIsOpenClients`, `CountsClients` and
`EveryClientServed` hold there as well.

### ProcTable

State: the tables and lists of `top_ext.c` under their own names, holding
numbers of records; `rec`, what `malloc` has given so far; and, beside them, the
kernel's tasks, which run (`Run`), exit (`Exit`) and are created, with the id of
an earlier one if need be (`Create`). Of what is read about a task, a record
keeps the processor time, an unsigned word (modulo `ULong`); differences wrap,
the time a task uses in its life is taken to fit (`MaxTime`). `step` is where
the program is.

The program has one thread, so its steps are its accesses to `/proc`:
`OpenProc`, `NextPid`, `ReadStat`, `OpenTask`, `NextTid`, `CloseTask`,
`CloseProc`. `PrintProcs` is the sort, in any order that the comparison allows;
`FreeProc` and `FreedAll` are `free_old_procs`; `Swap` and `MainReturns` are the
loop of main. What `malloc` returns holds anything, and a recycled record what its
last user left. When the task has gone, `ReadStat` leaves the record as it was,
if the file could not be opened, or gives it what was on the stack, if the task
went after that (`top_ext.c:391` does not test what `fgets` returns).

### HashMap

State: the table and the two counters. `hashmap_put` and `_hashmap_rehash` call
each other; the puts under way are `stack`, each with the old table it is
copying from. The crc32 and mixing of a key is the constant `Hash`. `map`,
`torn` and `holed` are history: what a map would hold, whether memory ran out
in the middle of a rehash (elements not yet copied are then lost), and whether
anything has been removed.

### MinHeap

State: `min_heap_t` under its own names, the value and index of each item, and
the shift under way: the hole and the item that will fill it. One iteration of
`min_heap_shift_up_` or `min_heap_shift_down_` is one step. The model's `out`
is the item that pop or erase takes out; its index becomes -1 with the last
step of the call.

## 3. Runs

| run | instance | properties | states |
|---|---|---|---|
| `myfifo_shared` | two processes that read and write at will, one also clears and polls; 3 cells, requests to 2 bytes of 2 values | `SemCountsHolder`, `RingConsistent`, `ReaderNotStranded`, `ImplementsFifo` | 1.16 million |
| `myfifo_pair` | a reader, a writer, a poller; 3 cells; fair | `WriterNotStranded`, `PollSleepsOnlyAtEnds`, `SoleCallReturns` | 86 thousand |
| `globalmem` | a reader and a writer, 2 cells, 2 values, 2 probes, 1 release cut short; fair | `SemCountsHolder`, `CountsOpeners`, `ReadsWhole`, `WaiterServed` | 1.57 million |
| `eeprom` | a reader and a process that reads and writes; 2 slices of 2 pages; lease 0, `jiffies` modulo 4 and about to wrap; 3 calls, 5 calls and ticks | `CoherentWhenCalm`, `ReadSeesDevice`, `NotOlderThanLease`, `CountIsWritten` | 10.0 million (up to symmetry) |
| `atomic` | two processors, words of 2 bits, ten calls, the three headers; fair | `ImplementsWord`, `LockFree` | 113 thousand |
| `pool` | 3 workers, 3 tasks; fair | `TakerFindsTask`, `TaskConserved`, `NotAllAsleep`, `FreedAfterExit`, `EveryTaskRuns`, `DestroyReturnsUnlessMissed` | 4.7 thousand |
| `frames` | 8 frames, 4 laps to the wrap, requests of 3 and 5; fair | `WithinCapacity`, `ChunksInBuffer`, `NoFrameShared`, `FramesFlow`, `EndsUnlessMissed` | 4.5 thousand |
| `br_list` | 4 connections | `ListIsOpenClients`, `CountsClients`, `EveryClientServed` | 10 thousand |
| `br_delete` | 4 connections | `DeletesOnlyTheFailed` violated | |
| `proctable` | 2 processes, one of 2 threads; tables of 1 record at first; 3 rounds; words modulo 4; 2 kernel events | `RecordsAccounted`, `DeltaIsOwn`, `LongLivedShown` | 3.75 million |
| `hash_table` | 4 keys that collide, 2 values, chains of 2, tables of 8, 16 and 32 | `SizeCoversUsed`, `KeysReachable`, `GetReturnsLatest` | 553 thousand |
| `min_heap` | 6 items, 2 values, 2 slots reserved at first | `HeapOrdered`, `BackPointers`, `ImplementsQueue` | 266 thousand (up to symmetry) |

The type invariants are proved instead of run, except those of `BrServer` and
`ProcTable`, which are part of `ListIsOpenClients` and `RecordsAccounted`.

What the runs show of each part:

- *myfifo*: the ring behaves as a bounded queue through every interleaving of
  reads, writes, clears, faults and signals; no reader is stranded, and no
  writer as long as nobody clears; a sole reader or writer returns as soon as
  it can.
- *globalmem*: until the semaphore is used before or initialised during its
  use, there is one holder; the counter is off by exactly the releases that a
  signal cut short; reads are whole unless sysfs wrote into them; a waiter is
  served even if the driver is unbound meanwhile.
- *eeprom*: without a write beside another call or behind the first slice, the
  cache is coherent, after failed transfers and short writes too. With them,
  what a read returns may differ from the device, but its age stays bounded.
- *atomic*: the loops lose no update, whatever happens between their two
  accesses, and always let somebody through.
- *pool*: no task is lost or run twice, none is slept over, and the pool is
  freed after its threads; see section 5 for `pool_destroy`.
- *frames*: the unlocked halves never work on the same frame, and keep going;
  see section 5 for the end.
- *broadcast server*: list and counter are right, and a round's cursor is in
  front of just those clients that have not been offered the chunk, up to the
  use of freed memory: a deletion with another client behind it is checked until
  the program touches the freed node, which is at once, and only the last client
  is ever deleted by a round that ends (section 5).
- *proctable*: records are neither leaked nor shared, but for those of
  processes that go away at `top_ext.c:344`; whoever stays is shown, unless
  `max_procs` is set and as many are shown as it allows, with the time it has
  used.
- *hash map*, *min-heap*: what the theorems say, and that the heap's calls take
  out a least item.

Why the bounds are enough:

- *myfifo*: with 3 cells and requests of 2 bytes a chunk ends at its size, at
  the end of the buffer and at the other pointer; a call can find the fifo
  empty, full or in between; two processes are enough for every race between
  one call's release of the semaphore and another's wait, and the third of
  `myfifo_pair` adds a poller that registers on both queues. All but the
  liveness is proved for all sizes (section 4).
- *globalmem*: two cells are the fewest that a read can see in two states; a
  second probe is one that meets open files; one release cut short is where the
  counter starts to be off. With two processes one is inside while the other
  queues, is interrupted, or finds the driver gone. The state invariants are
  proved for all sizes.
- *eeprom*: two slices are one that a write starts in and one behind it, two
  pages a slice are a refresh or a write that is half done. Three calls are a
  write, a read that overlaps it and one afterwards. With a lease of 0 and four
  jiffies, two calls and three ticks age a slice past the lease, past half a
  wrap and across the wrap from `Boot`. The calls are for the whole device and
  for the second half of the last slice, cut at the device's end. The four
  properties are proved without these bounds.
- *atomic*: two processors are one in its loop and one that disturbs it; two
  bits let an add wrap, an and and an or change one bit and keep the other.
- *pool*: three workers are the fewest for which a signal can go to one while
  another is between test and wait and a third is running a task; the safety
  invariants are proved for any number.
- *frames*: `Laps = 4` laps cover both wraps (that of the counter and that of
  the lap base), chunks of 3 and 5 in a buffer of 8 meet every offset and the
  short chunk at the end of a lap. What the code needs of 2^32 is that
  it is a multiple of the buffer size, which `Modulus` keeps.
- *broadcast server*: with four clients a deletion happens at the head, in the
  middle, at the end, and of the only client. The first two end the defined
  behaviour; deletions at the end follow each other in later rounds, and clients
  are accepted in between. The three properties are proved for any number.
- *proctable*: three records in tables that begin with one are two doublings,
  the second leaving an empty place; three rounds are one whose records come
  back after two; two kernel events are a task that exits and its id used
  again, or one that runs while another goes. Options are with and without
  `-t`, one process and all, and a limit that cuts the list. The three
  properties are proved without these bounds.
- *hash map*: the hash values make keys collide in the small table, across its
  end, and again in the doubled one, so that a rehash must rehash; `MaxTable`
  is the memory there is, and memory may also fail earlier.
- *min-heap*: 6 items are three levels with a last parent of one child; two
  values already distinguish less, equal and greater. With `FirstAlloc = 2` the
  array is enlarged twice.

Fairness, where a run has it:

- *myfifo*: the scheduler runs every runnable process (weak fairness of the
  steps of a call already made) and the kernel's semaphore serves its queue in
  order (strong fairness of `Down`). Nobody has to start a call, and signals,
  timeouts and faults need never come.
- *globalmem*: the scheduler runs every call that has begun, and a probe that
  has begun goes on. Here the semaphore's queue is part of the model, so that
  nothing need be assumed of it.
- *atomic*: a processor executes its instructions and drains its stores (weak
  fairness), and does not lose its link every time before the store (strong
  fairness of a conditional store that still has it), which is what the
  architectures ask of an implementation. Nobody need start an operation.
- *pool*: threads are scheduled, tasks end, and a thread that keeps finding the
  mutex free gets it in the end; main need not destroy the pool. For the mutex
  this is what a default pthread mutex gives in practice, not what POSIX
  promises.
- *frames*: the same of the two threads. The delay of the command line need
  never run out, so that "frames keep flowing" is not helped by the end of the
  program; but once the client has stopped it, the server's loop ends.

Deadlock is checked except where the system may stop: a hung `pool_destroy` or
`pthread_join`, the end of a program, a driver that stays unbound, undefined
behaviour, and the bound on the number of calls of `Eeprom`.

## 4. Theorems

All are of the form `Spec => []P`, or, for the refinements, `Spec => Abstract`,
for every value of the constants that satisfies the module's assumption, and
are checked by TLAPS to the last leaf.

- **MyFifo** (`MyFifoProofs`): `TypeCorrect`, `SemaphoreCorrect`,
  `RingCorrect`, `NoReaderStranded`, `NoWriterStranded`, `PollersAtEnds`,
  `ImplementsBoundedFifo`. The three state invariants are inductive together
  (`BaseInv`): that the ring stays consistent needs that only the holder of the
  semaphore writes it and that a chunk never passes the other pointer
  (`ReadChunk`, `WriteChunk`). For the wake-ups, the argument is that `size`
  can only grow in a write, whose process is then about to wake `inq`
  (`SizeGrows`), and that a process only falls asleep after it has been
  enqueued and then seen `size = 0` (`FallsAsleep`). For writers the assumption
  `NobodyClears` is needed, because a clear makes room and wakes nobody. A
  poller is on both queues while it sleeps (`OnBothQueues`), so that any
  wake-up reaches it. The refinement follows from the ring: a chunk read or
  written is the beginning or the end of the queue.
- **GlobalMem** (`GlobalMemProofs`): `TypesCorrect`, `SemaphoreCorrect`,
  `CounterCorrect`, `ReadsCorrect`. `IInv` is `Shapes` (a process that copies
  stays within the memory and has collected what it has passed), mutual
  exclusion (those queued wait, each once; one is inside or the count is one),
  and the two properties that depend on it: what is counted and what has been
  read does not change while somebody else is kept out.
- **Eeprom** (`EepromProofs`): `TypesCorrect`, `CacheCoherent`, `ReadCorrect`,
  `CountCorrect`, `AgeBounded`. `Quiet` says, as long as no write has
  overlapped another call or begun behind the first slice, how far each call
  has got: the pages behind a refresh's counter are as in the device, those
  before a write's are as in its buffer and their slices not marked, and nobody
  comes between the two accesses to `valid`. `AgeBounded` needs no such
  condition. `Ages` relates `jiffies` and every stamp to true time, and what
  remains is arithmetic: `time_after` tells the later of two times less than
  half a wrap apart (`TimeAfterIsLater`).
- **Atomic** (`AtomicProcProofs`): `TypesCorrect`, `LinkCorrect`,
  `OperationsAtomic`. A link that is unbroken guards the value loaded
  (`LinkKeepsValue`): the store of another processor breaks the link, and the
  processor's own waiting store leaves what it sees as it was when it drains. So
  the conditional store, which waits for that, is the moment at which the
  operation takes effect, and every other instruction of a loop is a stutter of
  `AtomicWord`, except a comparison that fails.
- **ThreadPool** (`ThreadPoolProofs`): `PoolTypeCorrect`, `AssertsHold`,
  `CountCorrect`, `SignalNotLost`, `FreeIsSafe`, `TasksConserved`. The
  assertions are not inductive: `Inv` adds who is inside the critical section
  (`LockInv`), what a worker there has learnt and the lock keeps true
  (`KnowsInv`: a worker that has left the loop has a task or has seen the
  shutdown), and how far `pool_destroy` has got (`JoinInv`). No assumption is
  made on who is woken, or why. That tasks are conserved is proved on top of
  it, by counting the places a task may be in.
- **FrameRing** (`ServerProofs`): `TypesCorrect`, `CapacityKept`,
  `ChunksCorrect`, `ChunksDisjoint`, `ClientNeverGivesUp`, `WakeUpNotLost`.
  `Shape` says that a lap base is a multiple of the buffer, so that no lap
  straddles the wrap, and that each counter is in its lap; `Planned`, that what
  a thread has planned from the other's counter is still there when it works,
  since the other can only have made more of it; `Sleeping`, that the client
  sleeps only when there is no space. The rest is arithmetic of laps. The run's
  `SleepsOnlyWhenFull` and `OnlyMainStops` are proved only.
- **BrServer** (`ServerProofs`): `BrTypesCorrect`, `ListCorrect`,
  `ClientsCounted`, `ClientsServed`. `Listed` says that there is an order of
  the open clients in which `next` leads from each to the one after it, `head`
  to the first and the last to nothing; accept adds one in front, and a deletion
  takes one out and keeps the order of the others. `Cursor` says that the
  broadcast has offered the chunk to the clients before its cursor; that those
  it has not are the ones the links lead to from the cursor on, right after a
  deletion too, is that order read from the cursor (`RestOfChain`). That the
  list, which is the recursive function `Chain`, is then made of the open
  clients is shown of the least number of links at which it would not be.
  `Allocated` is what the use of freed memory ends.
- **ProcTable** (`AtomicProcProofs`): `ProcTypesCorrect`, `RecordsCounted`,
  `DeltaCorrect`, `LongLivedSeen`. `Accounting` says that every record is in
  one of five places, where read_procs stands with the record in its hands
  (`Control`), and that the table is full up to `proc_num` and no further
  (`Filled`). `Tracking` says that a table has one record for each task still
  living that was seen when it was filled, with the time that was read
  (`Matches`), and nothing of a life yet to come (`SeenBefore`); that a task
  seen twice in one life is in both tables (`Between`); that no task already
  met can come again in the round (`Fresh`); and that one which was there from
  the beginning has its record or is still to come (`Noticed`). No task is
  missed because `/proc` lists a process as long as any of its threads is there
  (`KernelOK`). For the list shown, the sort puts the empty entries last
  (`Sorted`), whatever order it gives the others; so without a limit the list
  has every record of the table, and with one it is as long as the limit or has
  them all. `MaxTime < ULong` is assumed:
  the time that a task uses fits in a word.
- **HashMap** (`HashMapProofs`): `SizeCorrect`, `HalfEmpty`, `TypesCorrect`,
  `KeysFound`, `LatestFound`. `HInv` says that the counter covers the used
  slots and stays within half of the table. The counter is not exact: a put
  that replaces a value counts it again, so the step needs "at least", and the
  cardinality of the used slots grows by at most one with a store and falls by
  one with a removal. That keys are found is about rehash and put calling each
  other: in the middle, what the map holds is spread over the table, the old
  tables of the calls under way and the pairs on their way between them. `Kept`
  is all three together, and each step moves an element within it. Before the
  first removal, moreover, every slot that the probe for a used slot's key
  passes is used (`Tight`), so that no key has two (`Single`).
- **MinHeap** (`MinHeapProofs`): `OrderCorrect`, `BackPointersCorrect`,
  `WithinReserve`, `TypesCorrect`, `ImplementsPriorityQueue`. Between calls the
  order is what one expects; during a shift there is a hole, and `HInv` speaks
  about the live slots around it: the order holds across the hole, an item on
  its way up is no larger than what is below, one on its way down no smaller
  than what is above. That erase chooses the right direction is what makes the
  invariant hold when the shift begins. That pop takes out a least item needs
  that the root of an ordered heap is one: otherwise there is a first slot with
  a lesser item, and its parent comes before it (`RootIsLeast`).

Every invariant and every action property that a passing run checks is stated
by one of these theorems, and so are the three refinements. Model-checked only
are the seven liveness properties (`SoleCallReturns`, `EveryTaskRuns`,
`DestroyReturnsUnlessMissed`, `FramesFlow`, `EndsUnlessMissed`, `WaiterServed`,
`LockFree`), since liveness under fairness is out of the prover's reach.

## 5. Where the code and its own statements differ

- *Deleting a client.* `sock_br_server.c:169` says "delete client", and lines
  175-177 advance the cursor and then free it: the next client's node is freed
  instead of the failed one's. Run `br_delete` shows it.

In the following the code falls short of what a comment says in one case, which
the property that is checked names and excepts. Without the exception TLC finds
the case.

- *Poll of a full fifo.* `myfifo.c:167` says that the buffer is full if `wp` is
  right behind `rp`. `myfifo_write` fills the last cell too, which makes the
  two equal, and `myfifo_poll` takes that for empty: a poller for input sleeps
  over a full fifo (the `Size` in `PollSleepsOnlyAtEnds`).
- *Clear without wake-up.* `wait_queue.txt:66` explains that a sleeper whose
  condition becomes true sleeps on without `wake_up_interruptible`.
  `MYFIFO_CLEAR` does just that to the writers: `WriterNotStranded` holds of
  processes that do not clear.
- *Destroying the pool.* `test_threads_pool.c:127` says that all waiting
  threads are woken. A worker that has tested `shutdown` and not yet begun to
  wait is not, because neither the flag nor the broadcast is under the lock;
  `pthread_join` then waits for ever (`MissedBroadcast` in
  `DestroyReturnsUnlessMissed`). The last signal of `test_ringbuffer.c:221` has
  the same gap (`MissedSignal` in `EndsUnlessMissed`).
- *Removing a key.* `hashmap.c_:312` says "Remove an element with that key from
  the map". A put after the removal of another, colliding key can store a key a
  second time, in front of its first place; removing it uncovers the old value.
  Until anything is removed the table is a map (`~holed` in
  `GetReturnsLatest`).

Where nothing is said, the models still show what to expect:

- `eeprom.c:171` writes the pages from the beginning of the device, whatever
  the offset, and clears the bits of the slices at the offset (`calm`).
- `globalmem.c:191` writes from the beginning of the memory, whatever the
  offset, and into the middle of a read (`torn`); a release cut short by a
  signal is counted as open for ever (`leaked`); a process that opens the
  device before the probe has come to `sema_init` takes an uninitialised
  semaphore (`Oops`).
- `top_ext.c:344` loses the record of a process that goes away there (`lost`).

## 6. What is left out of the modelled parts

- myfifo: module load and unload; `MYFIFO_SIZE` itself (a constant); the byte
  count that a call returns is the length of what moved.
- globalmem: one of the two memory regions; a file offset shared by two
  processes; what follows once behaviour is undefined.
- eeprom: contents below the page; detection, which keeps no state; a single
  attempt that takes longer than half a wrap of `jiffies`.
- atomic operations: the order between different words; more than one waiting
  store of a processor; the build for one processor (`ANDROID_SMP` 0).
- pool: failure of `malloc` and `pthread_create`, which the code does not test.
  A worker that has read `shutdown` as 0 still takes a task after
  `pool_destroy` has set it; the model has that step and no property forbids it.
- frames: the content of a frame, which the program never looks at; the
  initialisation before the client thread exists. The client may leave with the
  mutex locked, which main then destroys: the model keeps the mutex with the
  client and nothing waits for it.
- broadcast server: the content and size of a chunk; a `write` that blocks or
  is short; failures of `bind` and `listen`, after which the program ends.
- process monitor: the fields other than the processor time; percentages,
  including the division by no time at all with `-d 0`; a failed `malloc`, which
  ends the program; a directory that changes while it is read (each is read in
  one step); an id that is used again between `fopen` and `fgets` of its file. A
  task with a reused id is compared with the earlier one, as in the code, and no
  property speaks of its time.
- hash map: the hash function; the callback that `hashmap_destroy` calls for
  each element.
- min-heap: the destructor; a failed `realloc`, which leaves everything as it
  was.

## 7. What could follow

In the order in which they would add most: the module load of myfifo, as a
probe in front of `MyFifo` like that of `GlobalMem`; the input monitor
(`test_inotify.c`), with the kernel's queues as its environment; the buffer list
of myv4l, once the part of videobuf it relies on is written down; and the order
between different words in `Atomic`, which needs a memory model for each of the
three processors.
