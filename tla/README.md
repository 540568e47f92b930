# Verification of xv6 with virtual memory

TLA+ models of this xv6 (x86, with copy-on-write fork, lazy allocation, automatic stack
growth, paging to swap files and shared memory), TLC runs that check them on small
instances, and TLAPS proofs about copy-on-write, paging, shared memory, the scheduler, the log,
the buffer cache and pipes for instances of any size. Sources are cited relative to `src/src/`.
`PROJECT.json` maps each definition to the lines it translates.

## The system and its parts

| Part | State | Operations | Interacts with |
|---|---|---|---|
| frames (`kalloc.c`) | free list, reference counts | kalloc, kfree, count up / down | every user of memory |
| page tables, copy-on-write (`vm.c`, `trap.c`) | directories, PTE_W, sizes | copyuvm, PageFault, stackGrow, allocuvm, deallocuvm, freevm | frames, processes |
| paging (`VirtualMemory.c`, `vm.c`) | memory table with a FIFO list, swap table, swap files | record, evict, swap in, fork, exec, sbrk | page tables, files |
| shared memory (`SharedMemory.c`) | global table, table per process | alloc, dealloc, read, write | frames, exit |
| processes (`proc.c`) | process table, CPUs, ptable.lock | fork, exit, wait, kill, sleep, wakeup, scheduler | all that sleeps |
| log (`log.c`) | header and blocks, in memory and on disk | begin_op, log_write, end_op, commit, recovery | buffers, disk |
| buffers and disk (`bio.c`, `sleeplock.c`, `ide.c`) | buffer list, sleep locks, request queue | bread, bwrite, brelse, iderw, ideintr | log, files |
| names (`fs.c`, `sysfile.c`) | inodes, references, links, directories | create, link, unlink, open, mkdir, chdir, close, swap files | blocks, processes |
| contents (`fs.c`, `file.c`, `mkfs.c`) | bitmap, blocks, block maps, offsets | balloc, bmap, readi, writei, itrunc, fileread, filewrite, mkfs | log, names |
| pipes and open files (`pipe.c`, `file.c`) | ring, open ends, file table, descriptors | pipe, dup, read, write, close, fork, exit | processes |
| shell and init (`sh.c`, `init.c`) | processes with descriptors and a command tree | parse, run each kind of command, wait, restart | pipes, processes |
| console input (`console.c`) | ring with three indices | key, erase, kill line, read | keyboard, readers |
| user heap (`umalloc.c`) | circular free list | malloc, free, morecore | sbrk |
| strings, patterns, numbers | none | pure functions | all |

What is hard here: steps of several CPUs around counts that are read under one lock and
used after it; the tables of paging that say the same thing in three places; crashes between
the block writes of a commit; sleeps and wakeups; two closers, two unlinkers, two parents;
counters that wrap; calls that fail in the middle.

The order of work follows from that: first copy-on-write (and its proof), then the additions of
this repository (paging, shared memory), then the concurrent kernel (processes, log, buffers,
pipes, names, contents), then the user level on which the rest is tried out.

## Modules

Each module is one component: its state, `Init`, an action per handler or per stretch of
it between two accesses to shared state, `Next`, `Spec`, then its properties. A few operators
(`kfreeAlways`, `sleepEarly`, ...) are altered forms of the operator that follows them. Nothing
uses them; `PROJECT.json` lists each with the property that breaks when it takes the place of
the original.

* **CopyOnWrite** (`kalloc.c`, `vm.c`, parts of `proc.c`, `exec.c`, `sysproc.c`). `freelist`,
  `refCount`, the frame and PTE_W bit of each page of each directory, and for each process where
  it is in a fault, a fork, an exec or a freevm. The count that PageFault reads (vm.c:623), the
  mapping it installs and the count it lowers (vm.c:638-639) are different steps, as are the two
  statements of copyuvm's loop (vm.c:277-279). kalloc may fail wherever the code calls it.
  A failing stackGrow, a kernel panic and frames the code drops are modelled as the code has them.
  **PrivateMemory** is what a program may rely on: each process has a memory of its own, copied
  by fork. CopyOnWrite implements it; MemoryIsPrivate adds that each change is made by an action of
  the process whose memory it is, and a store puts there what was stored. The way out of fork in
  which CopyVirtualMemoryData fails (proc.c:359) is in Scheduling.
* **VirtualMemory** (`VirtualMemory.c`, `vm.c`, `fs.c`, `sysproc.c`). The memory table with its
  doubly linked list, the swap table, the swap file and one process's page table; when it forks,
  the model goes on with either of the two. It implements PrivateMemory too. An exec that fails after
  it has cleared the tables, and a child whose slot still has the swap table of an earlier process,
  leave the program with tables that are not its own; `stray` remembers that until an exec succeeds, and the
  properties are about programs that are not stray. What stray programs do is followed all the same.
* **SharedMemory** and its abstraction **SharedSegment** (one segment per signature). A program may ask
  for signature 0, which the tables use for "empty": its search finds an empty place, and if a page is
  listed there before the copy, the copy reads or writes that page. SegmentsAreShared excepts the
  copies of such calls and nothing else.
* **Scheduling** (`proc.c`, `trap.c`). Slots, CPUs, `ptable.lock` held across `swtch`, a device.
* **Log** and its abstraction **AtomicDisk** (groups of operations appear at once or not at all).
  `SIZE` is `log.size`, `OPBLOCKS` the number of blocks an operation really writes.
* **BufCache** (`bio.c`, `sleeplock.c`, `ide.c`). A "process" is one use of one buffer; a caller that
  has two buffers at once (write_log, install_trans, bmap) is two of them. idelock is held from the
  test in iderw to the sleep, the disk works on the request that idestart gave it, and it may fail on
  the blocks of `Faulty`, where ideintr marks the buffer valid without data.
* **Names** (`fs.c` from iget to namex, `sysfile.c`, the swap files' creation and removal). The loops
  of InitializeSwapFiles and ClearSwapFiles are modelled file by file. ClearSwapFiles stops at the first name it
  cannot unlink, because another process removed it or the current directory changed; exit answers
  with a panic, exec goes on to InitializeSwapFiles, which overwrites the pointers to the files that
  are still open. `lost` counts those; RefsAreExact includes them, so nothing else is lost.
* **Blocks** (`fs.c` from balloc to writei, `file.c`, and `mkfs.c`, whose image is the initial
  state). One byte stands for a run of them; block size, NDIRECT and disk are small.
* **Pipe** (`pipe.c`, `file.c`, `sysfile.c`) and its abstraction **ByteStream**.
* **Shell** (`sh.c`, `init.c`). A line is a sequence of tokens (how gettoken cuts words and
  nulterminate ends them is left out, peek looks at the next token); the recursive-descent
  parser is a family of recursive operators, compared with a grammar that derives trees by splitting
  the line. runcmd is a state machine: each process has its place, its command tree and its
  descriptors; fork1, open, pipe and exec may fail. A program that was exec'd is external: it ends
  when it likes, but one that reads a pipe ends at end of file.
* **ConsoleInput** (`console.c`) and its abstraction **LineInput** (a line being edited, and a queue).
* **Heap** (`umalloc.c`), with the break moved as `sys_sbrk` does (twice, see below). Requests are below
  2^31 bytes, so that neither `nunits` nor the `int` that morecore passes to sbrk wraps.
* **Text** (`string.c`, `ulib.c`, `grep.c`, `fs.c`, `proc.c`, `MemoryInfoTest.c`): pure operators;
  a state is a question to one of them. The names of swap files are distinct for pids of up to 8
  digits; beyond, dirlink's cut at DIRSIZ drops digits, and AnswersAreExact says which (`Kept`).
* **MC...** give the constants of a run. **MCUserView** starts CopyOnWrite after the first exec and
  leaves out the kernel's own frames. **MCUserland** puts Shell, ConsoleInput, Heap and Text side
  by side; a behaviour is about one of them.
* **CopyOnWriteInvariant**, **CopyOnWriteProofs**, **VirtualMemoryProofs**, **SharedMemoryProofs**,
  **SchedulingProofs**, **LogProofs**, **BufCacheProofs** and **PipeProofs** hold the proofs.
  **MCInvariant** lets TLC check the inductive invariant of CopyOnWrite.

Models that are composed of several components of the code rather than one: CopyOnWrite (allocator,
page tables and process calls), Names (inodes, directories, the calls and the swap files), Pipe (pipe,
file table, descriptors), BufCache (buffers, locks, driver). Between modules the interfaces are: the log's
assumption about buffers (`B_DIRTY` is not recycled) is BufCache's `NothingIsLost`; Blocks and Names
take the log's atomicity and sleep locks as given; all modules that sleep use sleep and wakeup as
Scheduling shows them to behave; Shell takes pipes and descriptors as Pipe shows them to behave.

## Runs

| Run | Instance | Checks |
|---|---|---|
| `cow` | 2 processes, 3 directories, 4 frames, 4 pages | CountIsExact, WritableIsPrivate, FreeIsUnused |
| `user_view` | the same, 2 values | MemoryIsPrivate (refinement of PrivateMemory, step by step of the acting process) |
| `shm` | 2 processes, signatures 0 to 3, 2 global and 2 own places, 3 frames | UsersAreHolders, HeldIsFound, SegmentsAreShared (refinement) |
| `paging` | memory table of 3, swap file of 2 pages, 7 pages, left-over entries for 2 pages | TablesAreExact, EvictsOldest, PagingIsInvisible (refinement) |
| `log` | 2 processes, 3 blocks, log of 6, MAXOPBLOCKS 3, 2 blocks per operation | LogIsExact, SleepersWake, OperationsAreAtomic (refinement) |
| `sched` | 4 slots, 2 CPUs | OneStackEach, ParentIsAlive, SleepersAreWoken |
| `sched_live` | 3 slots, 1 CPU | RunnableRuns, KilledExits, OrphansAreReaped |
| `pipe` | 2 processes, 2 descriptors each, pipe of 2 bytes, counters of 4 values | EndsAreExact, SleepersHaveReason, PipeIsStream (refinement), ReadersFinish |
| `bufs` | 2 processes, 2 buffers, 3 blocks, 1 of them faulty | BuffersAreExact, ReadsAreCurrent, NothingIsLost, RequestsFinish |
| `names` | 2 processes, 4 inodes, 2 names, 2 swap files of one process; three pairs of programs: hard links and exec, directories with `..` and exit, and a swap file that goes away | RefsAreExact, NamesAreExact, InUseIsAllocated |
| `blocks` | 2 processes, 3 files, 4 blocks of 2 bytes, 1 direct and 2 indirect | BlocksAreExact, ContentsAreExact, SharedWritesAppend |
| `userland` | all lines of at most 3 tokens and some that nest, 5 processes, 6 descriptors; ring of 3, indices of 6 values; heap of 16 units; texts and patterns of length 3 | ParseIsGrammar, DescriptorsAreExact, ForegroundIsDone, PromptReturns, LinesAreExact (refinement), HeapIsExact, AnswersAreExact |

The comment before each property says what it states and where it bites. In short: the runs
show that in the situations that occur within the bounds the code keeps its counts, tables,
queues and descriptors exact in every interleaving, that what is shared behind the scenes
(frames, swap, buffers, log) cannot be seen by those who use it, and that who should wake or
finish does.

**Why the bounds are enough.** Each makes the limit it stands for happen: 4 frames run out in
a fork of a 3-page process; the memory table of 3 is full after the first growth, and 2 swap
pages make a slot be reused; 2 places for 3 signatures fill both tables; once a
block is logged a log of 6 has no room for a second reservation of 3, which waits; the pipe's 3-byte write does not fit in 2 bytes and the counters wrap
after 4; 2 buffers for 3 blocks force recycling; 4 inodes force the reuse of a removed one; 4
blocks fill the disk with an indirect file; the ring of 3 fills and its indices wrap after 6. Two
processes suffice for the races between two holders of a count; where a third party matters (an
orphan with its parent and init) there are three. Counters that would grow
without end are bounded by constants named in the modules (`MaxLines`, `MaxLost`, `Writes`, `UINT`).
Symmetry is used where elements are interchangeable and no property is temporal (directories,
CPUs; in `shm` and `user_view` the refinement is a safety property).

**Fairness.** Log and BufCache: a process inside the kernel that can go on does, and the disk
answers. In BufCache the process that ideintr has woken needs idelock, which other requests take
in between; that it gets the lock at last is strong fairness of `iderwWoken` (a spin lock that is free again
and again is not lost for ever). Pipe: a process inside a call goes on. Shell: a process that can go on does; programs end when
their input does. Scheduling, on one CPU: the CPU does not stop, the clock interrupts user programs
and leaves a process in the kernel time to go on, init waits again and again. On several CPUs spin
locks would have to be fair, which `xchg` is not, so `sched_live` is for one. No fairness is asked of user
programs' calls, of kill or of a crash.

**Deadlock.** It is checked in `log`, `sched`, `sched_live` and `userland`. Elsewhere a state without a successor is
one the code can be in: the machine panicked (no memory in a place that panics, no buffer, a full
disk), every process has ended, or, in Names, the deadlock described below.

## What is proved

TLAPS proves the following for every value of the constants that satisfies the assumption
stated in the module: finite sets of processes, CPUs, blocks and frames of any size, tables,
logs and caches of any length. Each proof has the same shape: an inductive invariant, a lemma
per conjunct that every step keeps it (with a case per action), and the properties as
consequences. Before it was proved each invariant was checked with TLC on the instance of the
run of its module.

| Module | Theorem | States |
|---|---|---|
| CopyOnWriteProofs | `Invariant`, `TypeCorrect` | `[]IInv`, `[]TypeOK` |
| | `CountsAreExact`, `WritableFramesArePrivate`, `FreeFramesAreUnused` | the three invariants of run `cow` |
| | `MemoriesArePrivate` | MemoryIsPrivate: every step is one of PrivateMemory by the process that acts, or not seen |
| | `Implements` | CopyOnWrite implements PrivateMemory |
| SchedulingProofs | `Invariant` | `[]SInv` |
| | `StacksAreSeparate`, `ParentsAreAlive`, `WakeupsAreKept` | the three invariants of run `sched` |
| LogProofs | `Invariant` | `[]LInv` |
| | `AtomicLog` | the log implements AtomicDisk |
| | `LogIsAlwaysExact`, `LogNeverPanics` | if `LogIsLarge`: the invariant of run `log`, and log_write and end_op never panic |
| BufCacheProofs | `Invariant` | `[]BInv` |
| | `BuffersAreAlwaysExact`, `ReadsAreAlwaysCurrent`, `ChangesAreKept` | the three invariants of run `bufs` |
| SharedMemoryProofs | `Invariant`, `UsersAreTheHolders` | `[]SMInv`, UsersAreHolders |
| | `HeldIsAlwaysFound`, `SharedSegments` | HeldIsFound, and the tables implement SharedSegment but for copies under signature 0 |
| PipeProofs | `Invariant`, `EndsAreAlwaysExact`, `SleepersAlwaysHaveReason` | `[]PInv`, the two invariants of run `pipe` |
| | `PipesAreStreams` | the pipe implements ByteStream (PipeIsStream) |
| VirtualMemoryProofs | `Invariant`, `TablesAreAlwaysExact` | `[]IInv`, the invariant of run `paging`, while the break only grows |
| | `OldestIsEvicted` | EvictsOldest |
| | `PagingIsNeverSeen` | paging implements PrivateMemory (PagingIsInvisible) |

**Copy-on-write.** Assumptions: the boot list has no frame twice, there is room for text, a
guard page and a stack (`MemoryAssumption`), and a uint is not 0 and can count all possible
references to a frame (`CountAssumption`). None of the three properties is inductive. That a frame with
count 1 may be written needs that the count is exact; that it is exact needs that a directory has one
owner, that a directory which nobody owns and the pages that fork and exec have yet to visit
are empty, and what a process in the middle of a fault knows about its page. `IInv`
(CopyOnWriteInvariant) therefore adds `DirOwned`, `ChildOwned`, `EmptyWhereUnused`,
`WritableIsMapped`, `ThreadInv`, `CopyIsFresh`, and `OneMeansPrivate`: a count of 1 that PageFault
read stays a licence to write until it is used, because only the process itself could raise it.
CopyOnWriteInvariant shows that a step keeps types and ownership and is confined to its own tables
and to frames nobody else holds; of the counts it uses only `CountsTell`, that a held frame has
a count and that a frame with count 1 has one mapping. CopyOnWriteProofs derives that from exactness
and has the counting argument: a step adds or removes one reference and one count, by the
cardinality of a set with one element more or less. MCInvariant.cfg checks IInv with TLC.

That the sharing cannot be seen (`MemoriesArePrivate`) needs `ViewInv` besides: copyuvm has copied
the pages it has visited and no others (`ForkCopied`), exec has loaded those it has visited
(`ExecBuilt`), and heap and stack do not meet (`SizesFit`). The argument is that the kernel, in a step
for any process, writes at most to a frame nobody sees (`KernelWritesNew`, `NewKeeps`), and that a
program's store goes to a frame no other page table has (`StoreKeeps`). So a fault, a copy and a
release change nobody's view, and of all the steps of a fork, an exec or an sbrk one is the step of
PrivateMemory and the others are not seen.

**Scheduling.** `SInv` adds to the three properties: nobody runs on the stack of a slot that is
free or being filled (`StacksAreUsed`), so the scheduler and fork never hand out a stack in use;
only the living are in system calls (`CallersLive`) and fork owns the slot it fills (`ForksOwnChild`),
so an orphan's new parent is there; nobody is its own parent, so that an exit does not wake itself
instead of its parent; and `DeviceIsLocked`: who has checked the device holds its lock until it
sleeps, so the handler cannot have come in between.

**Log.** `LInv` adds what each phase of a commit and of recovery has reached: `OpsAreCounted`
(`outstanding` is the number of processes between begin_op and end_op), `OnePhase` (recovery,
operations and commit exclude each other), `HeaderFollows` (the header on disk is the one in memory
from write_head to the erasure, else empty, and no block is in it twice), `CacheFollows` (the dirty
buffers are the blocks logged and not yet installed) and `LogFollows` (how far write_log and
install_trans have come). With it every block write of a commit but one is a stutter of AtomicDisk
and write_head is its commit; a crash before it goes back to the last commit and recovery
from one after it repeats installing. `LogFits` counts, for each running operation, the blocks it
may still log, and asks that with them the log stays below `log.size - 1` blocks, where log_write panics
(log.c:218). begin_op's reservation alone does not give that: mkfs makes the log LOGSIZE blocks long
with its header (mkfs.c:25), one short of a full reservation. What does is that no operation writes MAXOPBLOCKS
blocks (filewrite writes four data blocks, the inode, the indirect block and the bitmap block). `LogIsLarge`
says so, `OPBLOCKS < MAXOPBLOCKS /\ MAXOPBLOCKS < LOGSIZE /\ LOGSIZE <= SIZE`, and is the hypothesis of
the two theorems; with OPBLOCKS = MAXOPBLOCKS LogNeverFull is refuted (below).

**Buffers.** `BInv` adds: `refcnt` is the number of processes between bget and brelse
(`RefsAreCounted`), a sleep lock has one holder (`LocksAreHeld`), a buffer is in the disk's queue,
once, exactly while its holder sleeps in iderw (`RequestsAreQueued`), a block keeps its buffer while
somebody uses it (`BlocksAreKept`), valid data is the newest there is (`ContentsAreKept`), and the
list brelse reorders still has every buffer (`ListIsWhole`). So bget finds a buffer to recycle whenever
there is one. That there is one is not claimed: bget panics when every buffer is in use or dirty.
Blocks on which the disk may fail are excepted where contents are concerned.

**Shared memory.** `SMInv` says which process may find the two tables half changed: only the one
in the critical section (`LockIsHeld`, `HalfDone`). A signature is once in a process's table
and once in the global one (`OwnTables`, `GlobalTable`), a page is in one place and not free
(`PagesAreSeparate`), `UsersAreCounted` excepts the place being changed, and `SearchesHit` carries
the argument for the reads without lock: the entry of a held signature does not move, and a search that has
not met it has it still ahead. Of a search for signature 0 the invariant
says nothing but that it is one.

**Pipe.** `PipeAssumption`: processes are finitely many, the ring and the tables are not empty, the
ring is smaller than the range of the counters, and its size divides it (512 and 2^32 in the code), or the
byte after a wrap would be looked for in the wrong place. `PInv` adds: `ref` is the number of
descriptors of a file (`RefsAreCounted`), a process in pipewrite or piperead still has the descriptor
it called with and a slot that is not used has none (`CallsAreHeld`), each end has one file, or one process
between the last fileclose and its pipeclose, or is closed (`OnePipe`), and the ring holds at most PIPESIZE
bytes (`RingFits`). Most lemmas use of the counts only that a file with a count has a descriptor
(`CountsTell`); that dup, fork, close and exit keep the counts is again about cardinalities of sets
with one element more or less, for fork one for each descriptor of the parent. For `PipesAreStreams` the
queue is read off the ring from `nread` on, modulo PIPESIZE; a byte put is an Append to it and a
byte got is its Tail, also where a counter wraps.

**Paging.** `PagingAssumption`: page 0, text, guard page, stack and one page more fit into the address
space, and the memory table has an entry more than exec needs. `VInv` says of the list in the memory
table that there is a sequence of distinct entries that Next follows from the head and Last from the tail, that they are
the used entries, and that an unused one has no Last (`IsList`); that a recorded page is
present, belongs to the program and is recorded once (`MemoryOK`); that the swap table has exactly the
pages on disk, once each (`SwapOK`); and that heap and stack keep a page between them (`SizesOK`).
Recording a page, the rotation that RecordPage does when the table is full, fork's copy and exec's
new table each give a list with a known sequence. The walk along the list (`Follow`) and exec's table are
recursive functions; what they compute is shown for every length by looking at the least place where they
would differ (`Least`). EvictsOldest then speaks of the sequence. PagingIsInvisible maps a page to its
frame or to its place on the disk, and every move between the two leaves that view alone. The theorems
are about `GrowSpec`: with sbrk downwards the list does break (MCSwapRefuted, below). Failing execs and
left-over swap tables are steps of GrowSpec; so `IInv` claims `VInv` of programs that
are not stray, and of all only that the swap table is a sequence of addresses (`SwapShape`), from which
exec establishes `VInv` again.

**Only model-checked.**

* Liveness (SleepersWake, RunnableRuns, KilledExits, OrphansAreReaped, ReadersFinish, RequestsFinish,
  PromptReturns): the prover does not handle fairness and ENABLED.
* ParseIsGrammar, HeapIsExact and AnswersAreExact (Shell, Heap, Text): RECURSIVE operators over
  trees, lists and strings. tlapm has no SMT backend in a module that declares one, and their results
  for every input need an induction over data. DescriptorsAreExact and ForegroundIsDone are about the same module Shell.
* LinesAreExact (ConsoleInput), the properties of Names and those of Blocks: checked within the bounds
  above. Names and Blocks have the largest state of the modules; the initial state of Blocks is
  the image that mkfs computes with a fold, which is again an induction over data.

## Where the code disagrees with what is said of it

These were met while modelling. Each has a property and a cfg, and TLC finds the violation in
seconds to a few minutes with `tlc -config <cfg> <module>`. Where a cfg has two properties TLC
stops at the first it finds violated; remove that one to see the other:

| cfg | module | property | what happens |
|---|---|---|---|
| MCLeak | MCCopyOnWrite | FreedIsReusable | kfree of a frame with count 1 only lowers the count (kalloc.c:88): it never returns to the free list |
| MCSharedRefuted | MCSharedMemory | AllocGivesPage | AllocSharedMemory reports success without memory (SharedMemory.c:164) |
| | | SegmentsStayShared | a write with signature 0 goes to a page that is listed meanwhile (SharedMemory.c:265) |
| MCSwapRefuted | MCVirtualMemory | TailIsOldest | sbrk downwards leaves the list's tail and count wrong (vm.c:770) |
| | | SwappedInIsPrivate | a page is swapped into a frame shared copy-on-write, writable (vm.c:455) |
| MCSwapStray | MCVirtualMemory | TablesStayExact | an exec that fails leaves tables of another image; a child's slot keeps old swap entries (exec.c:41) |
| MCLogRefuted | Log | SleepersHaveWaker | a page fault inside an operation begins another one; all sleep (log.c:134) |
| | | LogNeverFull | operations of MAXOPBLOCKS blocks fill the log up to log.size - 1 (log.c:218) |
| MCReadFails | BufCache | BreadReturnsContents | a failed read leaves the buffer's old contents, marked valid (ide.c:118) |
| MCForkHalf | MCScheduling | WaitersHaveChildren | fork fails with the child half made; the parent waits for ever (proc.c:359) |
| MCNamesRefuted | MCNames | NoDeadlock | create and unlink wait for each other's inode through iput (fs.c:336) |
| | | UnlinkedIsFreed | two iputs each leave the unlinked inode to the other (fs.c:339) |
| MCMemoryInfo | MCUserland | InfoIsReadBack | bytes of 128 and more are read back as negative (MemoryInfoTest.c:10) |

The properties of the runs say where such behaviour limits them: `cow` counts frames the code
loses as lost, `paging` leaves out sbrk downwards and what stray programs see, `names` counts the swap
files that exec loses, `ReadsAreCurrent` and `NothingIsLost` except the blocks on which the disk fails, `InUseIsAllocated` excepts the `..` of a removed
directory, `SleepersHaveReason` a killed writer that has filled the pipe (pipe.c:86). `sys_sbrk` moves
the break twice (sysproc.c:62); CopyOnWrite, VirtualMemory and Heap model it so.

## Not modelled

* Boot, multiprocessor set-up, interrupt controllers, timers, keyboard and serial line: they program
  devices once or pass on what those say. Their results are initial states and inputs.
* Assembly for traps, switches and system call stubs; the system call table and the checks of single
  arguments (`syscall.c`).
* Console output, `printf.c`, and the formatting of messages.
* ELF headers, argument strings and the bytes of a loaded program: no property tells them apart.
* `memide.c`, which the default build does not link; `mkfs`'s superblock and inode encoding.
* The user programs and tests: they are callers. `grep`'s matcher is modelled, its reading loop is not.
* Of `string.c` and `ulib.c` the functions without a loop worth a property (strlen, strchr, gets, stat).
* TLB and cache effects: the hardware is taken to be sequentially consistent, as the locks of
  `spinlock.c` make it for the data they guard. The unlocked reads that the code does make (the count in
  PageFault, the searches in SharedMemory) are steps of their own.
