# Formal models of LTTit

TLA+ models of the LTTit embedded operating system (`src/lttit`), checked with
TLC and proved with TLAPS. The code is the reference: every definition that
stands for code is listed in `PROJECT.json` under `map` with the lines it
translates.

## 1. The system

LTTit runs one image per node: a real-time kernel, a memory manager, a file
system and a shell, and a protocol stack (CSC) that joins nodes into one name
space. Paths below are relative to `src/lttit` unless they start with `src/`.

| component | state | operations | interacts with |
|---|---|---|---|
| scheduler `RTOS/source/schedule.c` | ready, wake-time, deleted trees; tick count; lock count; current TCB | create, delete, delay, exit, lock, unlock, change priority; tick, PendSV | called by every other part; heap; ports |
| red-black tree `lib/source/rbtree.c` | nodes, cached first and last | insert, remove, first, last | every queue of the kernel, timers |
| semaphore, mutex `RTOS/source/{sem,mutex}.c` | value, wait tree, owner and its priority | take/release, lock/unlock | scheduler; released from interrupts |
| message queue `RTOS/source/mequeue.c` | ring, two wait trees | send, receive | scheduler |
| bounded buffer, read-write lock `RTOS/source/{PCqueue,RWlock}.c` | semaphores, spin locks, counters | send/recv, acquire/release | semaphore, `atomic.h` |
| software timers `RTOS/source/timer.c` | tree of deadlines | create, delete, tick | callbacks in the tick interrupt |
| ports `src/arch/*` | interrupt mask, stacks | critical sections, context switch | scheduler |
| SCP `CSC/scp` | per-stream sequence space, send and receive queues, timers | connect, send, recv, close, input, timers | ccnet below, RPC above |
| RPC `CSC/ccrpc` | pending calls, reassembly | call, on_data, dispatch | SCP, mutex, semaphore |
| ccnet `CSC/ccnet` | routing table, links | output, input, route | links, SCP |
| file system `fs` | bitmap, inodes, superblock; disk copy | format, mount, mkdir, rmdir, open, read, write, truncate, unlink, sync | block device of the port |
| heap and pools `mg` | free list, pools, bit maps | malloc, free, ... | everything |
| world `world` | tree of virtual nodes | register, open, read, write, remote forwarding | RPC, file system |
| TCP/IP `TcpIp` | connections | | not started by any node program |
| ccBPF `ccBPF` | compiler (its list and counters are static), virtual machine, image in the file system | compile, load, run, migrate | shell, RPC, world |
| shell, editor `shell`, `vim` | line state | commands | world, file system, RPC |
| containers `lib/source` | hash map, radix and prefix trees, lists | | all |

**What is hard.** The kernel runs on one core. A critical section masks SysTick
and PendSV, so it is atomic; what lies *between* two critical sections of one
call is open to a tick, a context switch and every other task. The calls that
wait are all built of at least two sections: a task links itself in a wait tree,
leaves the section, and only then sleeps; a waker takes a task out of its trees,
leaves the section, and only then makes it ready. Time-outs race with those
wake-ups. Ready keys are computed once and go stale; counters are 8, 16 and 32
bits wide. Above the kernel the hazards are a lossy, reordering link (SCP),
late answers (RPC), and a disk without a journal (fs). `PROJECT.json` lists them
one by one under `hazards`, each at its line.

**What makes each part correct.**

- Scheduler: every live task is in exactly one tree; the dispatched task is
  ready; nothing ready waits behind the idle task; an urgent task is not left
  waiting; sleepers wake on time; a held scheduler lock keeps the processor.
- Semaphore: tokens are neither made nor lost; no wake-up is lost; the wait tree
  holds callers only. It implements an abstract counting semaphore.
- Mutex: one holder; the owner is as urgent as whom it blocks, along the chain.
- Queue: a bounded first-in first-out buffer; nobody waits beside a message.
- SCP: whatever is lost or late, the bytes read are the bytes sent, in order and
  once; a byte is let go of only when the peer took it.
- RPC: an answer goes to its call and to no other. ccnet: the tables that the nodes
  compute each for itself lead every packet by a shortest way.
- File system: bit maps, inodes and directories agree; an operation on a path leaves
  all others alone, whatever blocks are used again, also after a reset.
- Timers: one firing per period, whatever callbacks create and delete. World: a name
  resolves to what was registered, and a peer takes no driver away.
- Heap: blocks tile the arena. Tree: balanced, and the ordered sequence the kernel
  is modelled with. Read-write lock: exclusion, and nobody is stranded.
- ccBPF: a program does what its source says, on whichever node it goes on.

## 2. Modules

| module | models | notes |
|---|---|---|
| `RbTree` | the ordered collection `rbtree.c` offers | a tree is the sequence of its nodes in order; an equal key goes behind |
| `Kernel` | kernel state and the functions of `schedule.c` | operators from kernel state to kernel state, shared by all that follow |
| `Scheduler` | tasks that use the kernel directly | one action per critical section, plus PendSV, SysTick and one turn of `check_ticks` |
| `Semaphore` | `sem.c` | refines `CountingSemaphore` |
| `Mutex` | `mutex.c` | two mutexes, chains and circles |
| `MessageQueue` | `mequeue.c` | refines `BoundedFifo` |
| `Scp` | `scp.c`: two nodes and the link between them | refines `ByteStream` |
| `Rpc` | `rpc.c` over an ordered stream | one action per section under `rpc_port_lock` |
| `Ccnet` | `ccnet.c` on every node | tables and packets |
| `Fs` | `fs.c` and the mount of the port | refines `Files` |
| `Heap` | `heap.c` | sequential, one action per call |
| `RedBlackTree` | `rbtree.c` | refines `RbTree` |
| `Timers` | `timer.c` and the tick handlers of the ports | one turn of `timer_tick` per action, with what its callback does |
| `PrefixMap`, `World` | `prefix.c`, `world.c` on two nodes | the crit-bit map as a value; one action per call |
| `PcQueue`, `RwLock` | `PCqueue.c`, `RWlock.c` | clients of the semaphore's promise; `PcQueue` refines `BoundedFifo` |
| `Compiler` | the ccBPF compiler behind the parser | functions from syntax trees to intermediate code to images |
| `Cbpf` | the virtual machine and its test of images | the instructions the compiler emits |
| `Migration` | the shell commands `compile` and `runbpf`, the task that sends a program on, the node that goes on with it | uses `Compiler`, `Cbpf` and `Language` |
| `Language` | what the manual says a source means | reference definition, an evaluator of syntax trees |
| `Sources` | families of small programs | inputs of the runs |
| `CountingSemaphore`, `BoundedFifo`, `ByteStream`, `Files` | what their parts promise | abstract specifications |
| `MC*` | constants for TLC; `MCChannels` has the message queue and the transport side by side, `MCServices` the small parts | |
| `Services` | file systems, calls, routes and the bounded buffer side by side, with the properties of each | what `MCServices` and `ServicesProofs` have in common |
| `Resources` | the timers and the heap in the same way | what `MCServices` and `SchedulerProofs` have in common |
| `Parts` | the variable `part`, which says which of them moves | |
| `RbTreeProofs`, `KernelProofs` | lemmas on the trees, on words, rings and induction, and on the kernel's operators | see section 5 |
| `SchedulerProofs` | theorems on `Scheduler` and on what every task has with it: `Timers` and `Heap` | see section 5 |
| `SemaphoreProofs`, `MutexProofs`, `MessageQueueProofs`, `ScpProofs` | theorems on the modules they are named for | see section 5 |
| `ServicesProofs` | theorems on `PcQueue`, `RwLock`, `Rpc`, `Ccnet` and `Fs` | see section 5 |

**State of the kernel modules.** `Kernel` keeps one record `k`: the clock, the current task, the ready,
sleeping and deleted trees with their keys, the wait trees of all objects, the
pending-PendSV bit, `schedule_PendSV`, `preempt_count` and `need_resched`. Two
fields are not in the code: `isr` says that the tick interrupt is in its loop,
and `corrupt` records that a node was linked while linked or unlinked while not.
The C code has no test for that and its trees are undefined from there on, so no
action but a stutter follows it. Each client module adds the object (value,
owner, ring) and, per task, where it stands between two critical sections (`pc`)
and the locals it keeps across them (its copy of `schedule_PendSV`, the ticks it
was given, the task it has to make ready).

**Atomicity.** In the kernel modules one action is one critical section with
everything the code calls in it. `Running(k, t)` is the guard of every task action: the task is on the
processor, no PendSV is pending and no tick is being served. PendSV and SysTick
have one priority level in the ports; PendSV is taken first when both are pending
and neither interrupts the other. The tick's loop is one action per woken task,
although nothing runs between its turns; that only keeps the steps small.

**Callers.** A task does not sleep or delete itself while it holds the scheduler
lock, deletes nobody but itself, releases what it holds and holds each object
once. In `Semaphore` interrupt handlers release too (`src/test/blink.c`). Tasks
also sleep between calls (`nap`), with any object in hand.

**Transport.** In `Scp` a handler is a function from a stream to `[s, out]`, the
stream it leaves and the packets it sends; `Leave` stores the one and puts any part of
the other on the link, so losing a packet is losing it when it is sent. Packets are
taken off the link in any order. `stream[n]` is `struct scp_stream` without what
measures time (`rto`, `srtt`, `rttvar`): a timer that is active may expire at any
step, which includes every timing. How many buffers a time-out sends again depends on
`rto_recovery`, which depends on those times: it is any of `FragCounts`. Sequence
numbers keep a width and are compared as `SEQ_GT` and `SEQ_LT` do; the tree of
segments that came too early is ordered by the plain number, as `rb_insert_node` does.
Handlers are atomic. That `scp_timer_process` is called where no handler is
interrupted is left to the program: `scp.c` takes no lock.

**Calls.** In `Rpc` a message is its number, its status and (for the properties only)
the call it belongs to. A message is cut into pieces anywhere; the pieces one
`rpc_on_data` appends may complete several messages, dispatched under one lock. What
becomes of a request is a `fate`: done, failed, refused, answer lost, dropped.

**Routes.** `Ccnet` keeps the table of every node and the packets on links. A packet
carries its ttl and the ttl its checksum was computed with, which is all that can
make `in_checksum` fail on the way.

**Files.** `Fs` keeps memory (`mem`: bit maps as sets of used numbers, and the inode
table) apart from the blocks on the disk. A directory is a function from names to
entries; a file is a sequence of block contents. An operation is a value of both, which
its steps change one after the other, and which stays as it is where one fails: a component of
a path (`enter`), a block of a buffer (`store`). `Reset` takes the first steps of a write,
with the block at hand erased. `Fs(s)` of `Services` is the file system of one
number of inodes, of slots and set of paths, and `Promise(s)` what `Files` says of it.
`inode_alloc` takes the first free bit of `InodeBitmap`, which has whole words (`InodeBits`, 32) while
`DInodeArray` has `InodeCount` entries (1024 / 40 = 25), and compares nothing with
`INODE_COUNT`. The inode of the 26th name lies behind the table (`Overruns`), and `fs_open`
or `fs_mkdir` writes it there: over whatever the linker put there. `overrun` marks that state, and nothing
follows it.

**Heap, tree, buffer, lock.** `Heap` counts in words of the alignment.
`RedBlackTree` is a transcription over one record of links and colours; what the code
does twice, mirrored, is written once with a side. `PcQueue` and `RwLock` use the
semaphore as `CountingSemaphore` promises it. For `PcQueue` that is what the
`semaphore` run checks; `RwLock` tries again when a take runs out of time.

**Timers.** A timer that is allocated has its deadline and period; `clock_tree` holds
those that are linked. A turn of `timer_tick` is the callback of the first node, which
may create a timer or delete another, then its removal and, when it is periodic, its
new deadline. The stm32 port wakes sleepers and so counts the tick before it serves the
timers, the pico port after: `counts_first` is which. `created` and `fired` are for the
property: by the age of a timer it says how often it must have fired.

**Names.** `PrefixMap` has the nodes of the crit-bit tree with the byte and the bit they
test; a tree is a value, since nothing points into it. `World` has one tree per node.
`world_sync_node` puts a listing on the line, `root_write` takes it at the peer and
registers name after name without a driver, each as far as memory goes; or the request
is lost. `world_register` is one step: it takes no lock, and the programs register
before their transport is connected. They sync their own node's names only.

**Programs.** The parser of the code generates each statement when it has read it; the
model starts from the trees. `front` is what the compiler keeps: the list `ir` and the
counters of temporaries and labels, which are static variables that nothing resets. A node takes a temporary
when its field holds none; the field of most nodes is not set when they are made, so it holds what
the memory held (`Leftovers`). Lowering turns each instruction into a few of the machine
and patches jumps when all labels are known; branches of conditional jumps keep their
byte. The machine's memory is one of bytes, so that words overlap where the code lets
them. A slice is `MaxInsn` instructions; a program that asks to migrate stops within it, with
the rest of its statement still to be done on the other node. `link` has the programs on
their way; the call that carries one may fail, and nobody tries again. `runs` is a history:
what each run printed, on which node, and how it ended; `DoesWhatSourceSays` compares
it with `Language`.

**Mutants.** Operators commented "Mutant of ..." are defective variants of the
definition that follows them. No specification uses them: `PROJECT.json` names,
for each property of each passing run, the variant that breaks it.

## 3. Runs

| run | checks | result |
|---|---|---|
| `scheduler` | 7 invariants, `LockKeepsProcessor`, `SleepersWake` | holds |
| `scheduler_rt` | `RtBeforeBe`: no best-effort task runs while a real-time one is ready | violated |
| `scheduler_wrap` | `NeverOverdue` across the wrap of the clock | violated |
| `semaphore` | conservation, exclusion, no lost wake-up, `ImplementsCounting` | holds |
| `semaphore_stale` | `AsleepIsNotReady` | violated |
| `mutex` | what the value counts, waiters, inheritance | holds |
| `mutex_exclusion` | `MutualExclusion` | violated |
| `channels` | a queue with one sender and one receiver: `ImplementsFifo`, no lost wake-up; the transport: `ImplementsStream`, `AckedWasTaken`, `WindowCountsQueued`, `FlightIsTimed` | holds |
| `queue_overfull` | two senders: `NeverOverfull` | violated |
| `services` | `ImplementsFiles`, `TreeIsSound`, `PendingAreWaiting`, `OkMeansExecuted`, `RoutesReach`, `BlocksTileArena`, `TreeIsBalanced`, `ImplementsRbTree`, `ImplementsFifo`, `WriterExcludes`, `NobodyStranded`, `FiresEveryPeriod`, `NamesResolve`, `DoesWhatSourceSays` | holds |
| `ccnet_forward` | `ForwardedUntilArrived` | violated |
| `ccbpf_logic` | `DoesWhatSourceSays` for the first example of the manual | violated |

The violated ones are disagreements between code and documentation, listed under
`findings` with both lines:

1. *Best effort before real time.* `rt_prio_value` turns the far deadline of a
   best-effort task into the smallest key, so it is dispatched first.
2. *Wrap of the clock.* Sleepers are sorted by raw wake time but tested by signed
   difference: after the wrap the tree's first node hides one that is overdue.
3. *Late second half of a release.* `semaphore_release` makes the woken task ready
   outside its critical section; by then that task may be asleep in another call.
   The same window is in `mutex_unlock` and in the queue.
4. *Mutex taken twice.* A woken `mutex_lock` never looks at the value again.
5. *Message overwritten.* Nor does a woken `queue_send` or `queue_receive`.
   With one sender and one receiver (the `channels` run) the ring is correct.
6. *Forwarding.* `ccnet_input` counts the ttl down and forwards the header with its old
   checksum: the next hop drops the packet, so only neighbours are reached. The
   tables themselves are right (`RoutesReach`, proved as `RoutesLead`).
7. *Logic without jumps.* Only a relation that has a false exit emits a conditional jump. The
   first operand of `||` and the operand of `!` have none, so such a condition is always
   taken: the manual's first example leaves 14 in `c` where C leaves 12. Conditions
   of relations and `&&` are right (`services`).

**Bounds of the kernel runs.** All use three tasks, two real-time (`a` and `b`; `pt` and
`rt` at the queue) and one best-effort, so that preemption, inheritance and the order of dispatch all occur;
with two tasks no third party can slip between a wake-up and the return of the woken
task. `LastTick` ends the clock; it is long enough for a sleep, a time-out
and a second sleep of the same task. `TickMod`, `DelayMod` and `SwitchMod` are the
widths of the clock (32 bits), of a delay (16) and of `schedule_PendSV` (8), small
enough that truncation and equality of a stale copy happen within the bound:
`Delays` contains 0 and `DelayMod` itself, and `Timeouts` of the semaphore contains
`DelayMod`, the argument that does not sleep at all. `TickMod` does not wrap in the
passing runs and does in `scheduler_wrap`. `SwitchMod = 1` in the scheduler runs
removes the counter, which no action of that module reads. `MaxNest`, `MaxGiven`
bound the nesting of the lock and the releases by interrupts. In `channels` tasks
wait 0, 1 or 6 ticks: poll, time out within the bound, or wait beyond it.
`mutex` is symmetric in the two mutexes and no temporal formula is checked there
beyond a single action property. `TypeOK` documents the variables of the modules that
have one and is no run's property; that of the scheduler is proved (`TypeCorrect`), and
those of the others as a part of `IInv`.

**Bounds of the transport** (in `channels`). The full payload is two bytes, windows and congestion window are
two to four, the client's numbers start at 14 of 16 and wrap. Each behaviour has one
kind of trouble (`Sizes`): two packets on the link and three bytes, enough for a
segment to overtake another and for the bytes of one to be cut at another place when
they are sent again; the client or the listener closing; a heap that is
exhausted once, which leaves a hole in the numbers; data both ways; a silent
peer. Three bytes against a window of two make the window close and the probe
necessary. `TimeoutMax`, `retries` and `idle` are 0 or 1 instead of 3 to 16: giving up is
reached either way. `CwndMax` is above every window: a larger `cwnd` acts alike.
What the bounds leave out is three packets on the link at once.

**Bounds of `services`.** `part` chooses one instance in the initial state. The two
file systems have three data blocks, files of two blocks, and either fewer inodes than
names or a directory with a single place, so that every operation meets its failures; with
`/a` and `/a/b` a component of a path fails after the first was made. The bit map has one bit
more than the table has entries, as 32 is more than 25: in `wide` an operation overruns
the table. With as many bits as entries, which `Assumption` allows, the call fails
instead; that case is in the theorems only. The calls are two or
three, by two tasks of one node or one of each: with answers and requests lost in
every way, with numbers that are used again (`space` 3), with both sides calling. The
routes are checked for all graphs of four nodes in which a link costs 1, 3 or is
missing, 0 and 1 linked: ties, detours longer than two links and unconnected nodes occur. The heap has
ten words, for up to four blocks in use and every way to split and to join. The tree has seven
nodes of four values, enough for every case of the repairs, with ties for the order of equals. Three timers with periods of 1 and 2 run for four ticks, on both
kinds of port: two fall due in one tick, a third is created or deleted between them, and a
timer's memory is used again. The clock does not wrap: the order across the wrap is that of
the sleepers in `scheduler_wrap`. Names have bytes of three bits; the keys differ in every bit, in
the first byte and behind it, and one begins with another. One node has one name more than
its listing can hold. The buffer has two slots and three tasks, the lock four tasks.
The programs are those of `Sources`: every relation below, at and above equality, with both
branches; conjunctions whose second operand must not be evaluated; arithmetic that wraps, that divides
by 0 and that is interrupted by a move; a byte of the packet behind its end. A byte has four values, so a word has
256 and sums wrap; slices have 16 instructions instead of 64, so that programs of some 30 run in
several. One program is compiled after a start and run twice; the memory of its nodes was
never used (`Leftovers` is 0), as it is then.

**Fairness.** Only `SleepersWake` needs it. PendSV and the loop of the tick run to
their end once taken (weak fairness). SysTick is pended by hardware and stays
pending while masked, so it is taken when it is enabled again and again (strong
fairness: critical sections and PendSV disable it again and again). Nothing is
assumed of tasks: a task may compute for ever. Wake times beyond `LastTick` are
excluded, because the model's clock stops there. No progress is claimed of the
transport, which stalls: when the window opens again with nothing in flight no timer
runs and nothing is sent until the next `scp_send`.

**Deadlock** is checked in every run of the kernel modules; the idle task is always there to take a
step when nothing else is. In `channels` the transport may rest, since both its ends may have nothing more to say. The other runs have `CHECK_DEADLOCK FALSE`: their parts may
really stop (all calls made, the last program at its end, an arena whose sentinel is lost). That
nothing waits for ever at the lock is `NobodyStranded`, at the link `FlightIsTimed`.

## 4. Abstract specifications

`CountingSemaphore` has `Take`, `Release` and `Give` over a count and a set of
holders; `Semaphore` maps `value` to the count, so a take linearises where the
value is counted down. `BoundedFifo` has `Send` and `Receive` over a sequence;
`MessageQueue` and `PcQueue` map the slots between the two ends of the ring to it.
Waiting, waking and time-outs are stuttering steps.

`ByteStream` has the bytes written and read by each end: what is read is always a
prefix of what was written. `Files` maps paths to nothing, a directory or the blocks of
a file; an operation changes the path it names, and `Put` says what a write may leave
that fails or that a reset interrupts: its blocks in order, then perhaps one hole, and the holes
it would have filled as they were; nothing else.
`Reset` and mounting are stuttering steps, so what was saved is what is found. `RbTree`
is the abstraction of `RedBlackTree`: the in-order walk. All are checked as properties of
the detailed modules (`Abstract!Spec`, `Fifo!Spec`, `Promise(s)!Step`, `ImplementsRbTree`).

## 5. Proofs

Every safety invariant of the kernel's runs and of calls, routes, timers, the heap, the file
system, the bounded buffer and the read-write lock is a theorem for every value of the
constants, and so are the window and the acknowledgements of the transport and the
refinements of `CountingSemaphore`, `BoundedFifo`, `ByteStream` and `Files`. The
invariants are seldom inductive one by one; each module states the conjunction that is
(`IInv`, and what it adds by name), and its proofs have one lemma per action.

| theorem | states | besides the named assumptions |
|---|---|---|
| `SchedulerProofs`: `TypeCorrect`, `TreesStayIntact`, `TasksStayPartitioned`, `RunningStaysReady`, `NeverIdleWhileReady`, `LockHolderKeepsProcessor` | `TypeOK`, `TreesIntact`, `TasksPartitioned`, `RunningIsReady`, `NoIdleWhileReady`, `LockKeepsProcessor` | |
| `DeferredIsRemembered`, `UrgentIsHeeded` | `DeferredNotForgotten`, `UrgentNotKeptWaiting` | |
| `NobodyOversleeps` | `NeverOverdue` | `Unwrapped` |
| `TimersFireOnTime` | `FiresEveryPeriod` | `NeverWraps` |
| `ArenaIsTiled` | `BlocksTileArena` | |
| `SemaphoreProofs`: `TokensStayConserved`, `ExclusionHolds`, `NoTokenIdles`, `WaitersStayCallers`, `NobodyIsLost`, `ImplementsCountingSemaphore` | every property of the run `semaphore` | finitely many tasks |
| `MutexProofs`: `ValueAlwaysCounts`, `WaitingObjStaysQueue`, `NobodyIsLost`, `ChainInherits` | every property of the run `mutex` | finitely many tasks |
| `MessageQueueProofs`: `NobodyIsLost` | `NobodyLost` | finitely many tasks |
| `NobodyQueuedBesideWork`, `ImplementsBoundedFifo`, `PairNeverOverfull` | `NoMessageBesideReceivers`, `ImplementsFifo`, `NeverOverfull` | one sender, one receiver |
| `ServicesProofs`: `ExclusionHolds`, `NobodyStrandedHolds` | `WriterExcludes`, `NobodyStranded` | finitely many tasks |
| `QueueIsFifo` | `ImplementsFifo` | |
| `TableIsExact`, `OkIsEarned` | `PendingAreWaiting`, `OkMeansExecuted` | |
| `RoutesLead` | `RoutesReach` | |
| `TreesAreSound`, `FilesImplemented` | `TreeIsSound`, `ImplementsFiles` | none; the model ends at `overrun` |
| `ScpProofs`: `ScpTypeCorrect`, `WindowIsExact` | `ScpTypeOK`, `WindowCountsQueued` | |
| `StreamIsOrdered` | `ImplementsStream` | `NumbersFrom` |
| `WhatIsAckedWasTaken`, `WhatFliesIsTimed` | `AckedWasTaken`, `FlightIsTimed` | `NumbersFrom` |
| `ImplementsByteStream`, `AckedBytesWereTaken`, `FlightAlwaysTimed` | the same three | `OneNumber`, `FewBytes` |

*Assumptions on constants.* `NameAssumption` (the idle task and NULL are not tasks),
`WidthAssumption` (positive widths, a delay is shorter than the clock's range),
`TimingAssumption` (periods and deadlines are 16-bit), `BoundAssumption`,
`SemaphoreAssumption` (no release finds the 8-bit value at its maximum), `ScpAssumption`
(among others the receive window and its limit are not 0: `RECV_WIN_INIT` and
`SCP_RECV_LIMIT` of `lttit_config.h`),
`RouteAssumption` (a link costs something, and a way through all the nodes less than
`CCNET_INF`; the programs' links cost 1), `FsAssumption` (a path leads through directories
only, a write begins within a file, the pointer that is not set is no block), and the like for the other modules; TLC evaluates them in the runs. Four hypotheses are the theorems' own,
the first three because the claim fails without them:

- `Unwrapped`: the clock stays one longest delay below its maximum. Sleepers are ordered by
  the plain number and woken by the signed difference, which disagree once a key wraps
  (run `scheduler_wrap`).
- `OnePair`: one task sends and one receives. With two senders the ring of `mequeue.c` is
  overfilled (run `queue_overfull`).
- `NeverWraps`: no timer's deadline reaches half the range of the counter ahead. It is the
  same disagreement; `timer.c` compares as `check_ticks` does, over the same kind of tree.

- `NumbersFrom(first)`: an end starts every connection from the number `first` gives it, and
  what it queued on one is less than half the sequence space (2^31 bytes). The model's
  link may keep a packet for ever; `scp.c` does not look whether a CONNECT_ACK answers
  the CONNECT sent last, and a number that comes round again is accepted as the
  new one. Nothing bounds the age of a packet in the code, so the proof bounds the
  numbers. `OneNumber` and `FewBytes` (no failing send) are constants for
  which it always holds, so the theorems with these two leave no behaviour out; those with
  `NumbersFrom` have the failing sends as well. Without it `ImplementsStream` fails, for instance with initial
  numbers 14 and then 12 in a space of 16: a client that gives up its handshake, connects again and
  takes the late CONNECT_ACK of the first attempt has its third byte read first. TLC
  finds this when `Iss` has two values for a client; no run here does.

**The trees** (`RbTreeProofs`). What insertion and removal do to a sequence: the set of its
nodes, no duplicates, the order of keys (`InsertOrdered`, `RemoveOrdered`,
`FirstIsLeast`), and that nodes of one key stay in the order in which they were linked (`LinkedInOrder`). Also what later proofs share: arithmetic of words (`UpMod`, `DownMod`, `ApartMod`), a
ring as a sequence (`RingAppend`, `RingTail`, `RingTurn`), and induction over the naturals
(`Induction`, from the least element of a set), with the existence of functions
defined by it (`Recursion`, `StepsExist`), and sequences joined and cut
(`SuffixIs`, `FrontRead`).

**The kernel** (`KernelProofs`). What each kernel operator does to the trees (for instance
`TaskDelay`: either nothing changes, or the current task moves from the ready tree to the
sleepers and a switch is requested). A second part states less of any state of the
right type, for the objects, where a task may be asleep and ready at once (finding 3):
which wait trees a step leaves alone, and that it loses no task (`Carries`).

**The scheduler.** That a running task may call `task_delay` without corrupting the ready
tree needs that it is in the ready tree and in no other; that linking a new task is sound
needs that its TCB belongs to one creator and is linked nowhere (`ChildrenAreNew`); that
the lock keeps the processor needs that no switch is pending while it is held
(`NoSwitchUnderLock`), which holds because every request goes through
`scheduler_request_switch`. For the requests (`RInv`) one has to know besides that a task
in the deleted tree is still in `task_delete` (`DeadAreDeleting`): a request made for a
ready task survives until PendSV, or is recorded until the unlock that answers it. For
the sleepers (`WakesLieAhead`) every key lies ahead of the clock by what is left
of a delay, at most `DelayMod - 1`; there the signed difference is the plain one, the
first node is the least, and the loop of `check_ticks` ends exactly when no time is now.

**The semaphore.** That a woken task may take the token it finds needs that it holds none
(`CallersHoldNone`); that no wake-up is lost needs that whoever leaves a wait tree is a
caller of that semaphore (`WaitersAreCallers`), for only then the release that serves it
turns a waiter into a woken task (`ReleaseServes`); that nobody is lost needs that a
release knows whom it has to wake (`WakersKnowWhom`).

**The mutex.** `mutex_lock` counts down after a wake-up without looking, so the value counts
modulo its width those who believe they hold the mutex; the invariant ties that to
where each task stands. `ChainInherits` is about the recursion of `inherit_prio`, the
function `chain` of `Mutex`: by induction along it, no turn makes a task less urgent, and
what one turn gives the owner the turns that follow leave. A circle of owners, on which the
code exhausts its stack, is marked `corrupt` and excluded by the property.

**The message queue.** For any number of senders and receivers nobody is lost. With one of each,
`PairInv` says who waits while the ring is full or empty and that `write` is
`read` and the number of messages further on; a woken task finds what it was woken for, since nobody else can
take it. A send then appends to the sequence between the two ends, a receive takes its
head (`RingAppend`, `RingTail`), and all other steps leave it.

**The read-write lock.** `CountersCount` says that the four counters and the two semaphores
count the tasks at each place, `TurnsAlternate` that tokens are out for one kind only and
that whoever has none waits for the other kind. Every action moves one task from one
place to another (`Moved`), so each lemma reduces to arithmetic on the number of tasks at
the seven places.

**The bounded buffer.** Every slot is free, taken by a task on the way in or out, or full: the
two semaphores and the numbers of tasks at the labels add up to the size
(`SlotsAccountedFor`). So neither end overtakes the other, whatever senders and
receivers pass between the semaphore and the slot.

**Calls.** `IInv` of `Rpc` says of every request that it is on its way once and did not run
until then (`RequestedOnce`), and of the table that it is the calls in progress. While one node calls and no
number is used again, a number is the call it was made for (`NumberedAsMade`), and an answer that finds
its call pending is the first one to it (`AnswersAreFirst`): `rpc_on_data` takes
the messages a stream delivers in order and removes a call from the table with the
first answer, so what comes later is dropped. Lost requests, late answers and time-outs
are all in `Next`. Numbers that are used again are covered by `TableIsExact` only.

**Routes.** Of `run_dij` an invariant over its rounds (`Sound`): what `dist` says of a node is the
length of a way to it, along `prev`; a visited node is no farther than one that is not, and every
link out of a visited node is accounted for. Each round visits one more node (`VisitSound`), so after `NodeCount`
rounds nothing is ahead (`NothingAhead`) and `dist` is the least length of any way, or
`INF` where there is none (`DijkstraIs`, `FarIs`). `next_hop_from_dij` goes back along
`prev`, and `dist` falls at each step, so it meets the source (`Descent`). Now the tables of
different nodes, computed apart: the first hop of `n` towards `v` is a neighbour from which `v`
is nearer by just what the link to it costs (`HopIs`). So the way through the tables comes nearer at each
node, repeats none, ends in `v` and is as long as `n`'s distance (`WayThere`, `WayIs`);
ties, which two nodes may break differently, do no harm. For a graph with links that cost nothing
coming nearer is no argument, and the theorem leaves them out; nothing in the code asks for
links that cost, but every program's do. If a way could cost `CCNET_INF` or more, its node
would be taken for one that cannot be reached.

**Files.** `FsIInv` says that what a mount would find, or has found, is a tree (`Tree`): every inode
in use has a path of its own (`place`), directories where directories may be (`Placed`); an
entry leads to an inode whose path is that of the directory and the name (`Entries`), and every
inode but the root has one (`Listed`); and the blocks of an inode are its own and in use (`Apart`). So
`fs_lookup_path` finds the inode whose path it is given, if there is one (`LookupIs`, by induction along the
path). That nothing is written behind the table before every entry belongs to a name is a second
invariant (`Full`): the first free bit is behind the table only when all entries are taken
(`AllocIs`), and each taken one has a name. Both speak of the states up to the overrun, where
the model ends. `TreeIsSound` alone is not inductive: it does not say that the blocks of one
inode differ, nor that no directory is reached by two ways, nor anything of the open file. That
one is a copy of an inode, which a write that fails leaves ahead of the table (`Handle`): with
blocks more than the inode has, which no other inode has either.
While nothing is unsaved the disk has what the memory has,
which is why a reset then loses nothing. An operation is taken apart as the code is, and
for each part it is said what every path shows after it (`Shown`): an entry that is added or removed changes
one path (`AddedIs`, `RemovedIs`), a block that is taken in vain none (`SparedIs`), `fs_mkdir` those along
its path as far as it comes (`MadeFurther`), a write the blocks it stored (`StoredIs`,
`RewrittenIs`). From this both theorems follow: the invariant (`FsKeeps`), and that every
operation is a step of `Files` (`PromiseKept`). For the second `Files` had to be corrected: a write that fails leaves
the holes that it stored blocks for, since the inode with these blocks is not written back,
which shows in files of five blocks and not in those of the run.

**Timers.** A linked timer that was created at tick `b` and ran `k` times is due at `b +
period * (k + 1)`, and that tick has not been served yet (`OnTime`). The two kinds of
port differ only in which ticks have (`Soonest`, `Latest`). The first node is due now
exactly while `timer_tick` goes on (`HeadIsDue`), what a callback creates or deletes keeps all
others on time (`CallSound`), and the quotient of age and period is then the number of
runs (`PeriodsPassed`).

**The heap.** Free blocks and blocks in use share the words of the arena without overlap, and
the list is in order of address with a gap after every block (`Sparse`): so a block
that is freed fits between its neighbours and can touch only those two
(`PlacedIsLoose`), and `join` needs to look no further (`JoinIs`). `all_size` follows from
the words each step takes or gives (`WordCounts`). The theorem holds for an arena of any
size and any requests.

**The transport.** `ScpIInv` is the types of all fields together with the window's sum, and
each handler is taken apart as the code is: a handler is a function on streams, so each
lemma says that a stream with these properties is taken to one that has them. What a
handler sends of the queued buffers is always a slice of one of them (`SlicesOf`, `Sends`):
for `scp_retransmit_gap` that rests on the arithmetic of the wrapping comparisons, by
which the end of the gap lies within the buffer it is cut from (`WithinBuffer`). Of
`sb_cc` the sum is kept because what is dropped from the front of the tree, what is read from
it next and what stays make up the whole (`BytesSplit`, `JoinedLen`), and a
buffer put in anywhere adds its own length (`BytesInsert`). The sums themselves are recursive
functions; that they exist and what they add up to is by `Induction` (`SumsAre`, `JoinedIs`).

**The stream.** For each direction there is a line: the number of the first byte, how many
numbers were used, and how many of them, from the first on, have a byte (`scp_send`
takes numbers before it asks for memory, so a failed send leaves a hole). A `Piece` has the
bytes of its numbers, or lies behind the first hole. `Direction` says that the sender's
queue, every DATA packet on the link, and the tree of the receiver hold pieces of the
line, and that what was read and what waits to be read are the bytes 1, 2, ... up to
`rcv_nxt` (`Outgoing`, `Incoming`, `PacketOf`). The invariant is that each end has such a line (`StreamIInv`). A hole is
never read over, for the bytes before `rcv_nxt` are all of the line's front. That every handler keeps it is shown per handler (`EmitGood`,
`InOrderGood`, `OutOfOrderGood`, ...) over the wrapping comparisons: within half the
space they agree with the distance from the first number (`Inside`). What
`out_of_order` cuts off a packet on either side, and what joins when `rcv_nxt`
moves into the tree, are pieces again (`CutPart`, `ReachedChain`). When a send makes the line longer, what was a
piece stays one (`PieceGrows`). Then `scp_send` is a `Write`, `scp_recv` a `Read` or a
stutter, and all other steps leave both.

**The acknowledgements.** Along each line `AckIInv` says what the two ends know of each other (`Heard`).
Of the sender (`Queued`): `snd_una`, `snd_nxt` and `snd_seq_q` follow one another, each buffer
lies no nearer than the bytes queued before it, and what left the queue lies before
`snd_una`; while it may still send, `snd_una` is no more than the peer took. Of the receiver
(`Within`): `rcv_nxt` and the tree are within what the peer has sent. And of the link: a
DATA packet carries what was sent, an ACK no more than the receiver took, its
SACK no more than was sent (`Onwards`, `Back`). The SACK matters twice: it is what
decides whether bytes are in flight or lost, and a SACK beyond `snd_nxt` would stop the timer under
what is in flight. `Since` is why a step of one end leaves true what was said to the
other: nobody opens again, what was sent stays sent and what was taken stays taken. That a
receiver never runs ahead of its peer is the invariant of the stream over a line cut
off at what was sent (`Short`). The timers (`Guarded`) follow `snd_una`: wherever
`scp_output` sends with nothing in flight it starts one (`OutputWatches`), and
`scp_process_ack` stops it only when everything is acknowledged (`ProcessAckGuarded`).

*Only model-checked.* `SleepersWake` (liveness is out of the prover's reach). `NamesResolve`, `TreeIsBalanced`, `ImplementsRbTree` and `DoesWhatSourceSays` rest on
RECURSIVE operators, which the prover does not take. The properties the runs
violate are false, and `NeverOverdue` is outside `Unwrapped`.

## 6. What is left of the plan

1. The composition of `Rpc` with `Scp` in place of the ordered stream.
2. The pools of `mg`; `prefix_map_set` and `scp_timer_process` in the smaller steps a
   preemption or an interrupt can see.

## 7. Not modelled

*Kernel.* Statistics, logging, the pid map and `rtos_get_task_info`; `task_delete` of
another task, which unlinks a node that may not be in the ready tree (no program does
it); `*_delete` of objects, which only free memory; memory exhaustion in the creators;
more than 255 releases that nobody takes, for which the 8-bit value wraps; what priority
an owner of nested mutexes returns to (`owner_orig_prio` may be an inherited one); stack
layout and register saving; the Cortex-A7 port; nested interrupts above the kernel's
priority (the UART of `src/test1` has priority 0, which `EnterCritical` does not mask).
`spin_unlock` counts `preempt_count` down without `scheduler_unlock`'s test of
`need_resched`: a switch comes late, which no property of `RwLock` is about. A writer must
not block while it holds `w_guard`: the lock is not bound to its owner.

Three things the kernel does and no property forbids, because the models do them
as well: the ready key is the time left when a task was linked and the preemption test compares
deadlines, so the two orders drift apart (`UrgentNotKeptWaiting` asks for both); a waiter that is
released between joining the wait tree and `task_delay` sleeps its full time with the token
in hand (`NoTokenBesideWaiters` counts it as woken); and on a circle of owners `inherit_prio`
calls itself without end (`Mutex` marks the state as `corrupt` and stops there).

*SCP.* Times, checksums, several streams per node, a link that duplicates. Three
things the model shows and no property forbids: a FIN that overtakes data moves
`rcv_nxt` over the gap (the reader sees a prefix); `LAST_ACK` closes on any
acknowledgement; a failed `scp_send` leaves a hole that stalls the stream.

*RPC.* With both sides calling, a request of the peer with the number of a pending call
is taken for its answer; `OkMeansExecuted` is limited to one side calling. The encoding of
requests, and a piece lost in reassembly for want of memory, are not modelled.

*ccnet.* Finding packets in a stream of bytes; changing the graph at run time.

*File system.* A reset while metadata are unsaved: there is no journal, the three
blocks of `fs_sync` are written one after the other, and the code has no recovery to check.
(`fs_close` does not sync, although the manual says that it does.) Two handles of one
file, each with its copy of the inode; unlinking an open file; a regular file as
a component of a path; `fs_unmount`; the 4 KB sectors of the pico port. What happens after
the 26th name: its inode overwrites memory behind `DInodeArray` (lines 156, 873 and 581 of `fs.c`), and
`fs_sync` and `fs_mount` save and load 25 entries, so it is not what was saved when it is
mounted again. `TreeIsSound` and `ImplementsFiles` hold up to that operation.

*Heap.* Requests so large that the size wraps. When the arena ends at a multiple of 8
the first block covers the sentinel, and handing out the last block whole lets its user
overwrite it: `lost` marks that state and nothing follows it.

*Timers.* A period of 0, for which the tick does not end; a callback that deletes its own
timer, which `timer_tick` then unlinks; and deleting a timer that has run out, which
unlinks a node that is not linked. A timer that runs once can therefore not be freed after it
ran. (The kernel manual says that callbacks run in a thread; the ports call `timer_tick`
in the tick interrupt.)

*World.* The file operations behind a name, which are the drivers of the programs;
`prefix_map_del`, `prefix_map_iter_prefix` and `prefix_map_clear`, which nothing calls;
`prefix_map_set` interrupted by another task. A listing that does not fit its 512 bytes
ends in a piece of a name, which the peer registers: the model shows it, and assumes that
this piece is not `root`, which would take the peer's own driver away.

*ccBPF.* Lexing and parsing; structures, pointers into `ctx`, strings and the map
functions; bit operators and the unary minus, on which lowering aborts; a condition that is
neither a relation nor made of them, for which no jump is emitted; a body without statements, whose
missing `gen` is called; hooks, to which nothing attaches a program. A second
compilation after a start: `ir_init` is never called, so it appends to the list of the first one,
whose memory was given back, and the image begins with the first program's code. Local variables
narrower than four bytes, which stores of a word overlap, and more than 64 bytes of
them, which reach into the temporaries; jumps over more than 255 instructions, which are cut. A second `runbpf` before the
sender has packed the program of the first: both use `g_ctx`; reading a command
line takes longer, and `ShellReads` assumes so. An image that `bpf_validate` refuses is
run all the same, as a null pointer: the model ends such a run as `crashed`, and the
property says that no image of the compiler comes to that.

*Whole parts.* The pools, the containers (functions and
sequences in the models), `TcpIp` (no program
starts it), the other commands of the shell and the editor (sequential), and
the vendored drivers under `src/test1/Drivers`, which are most of the repository's lines.
