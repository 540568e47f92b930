---------------------------- MODULE CopyOnWrite ----------------------------
(***************************************************************************)
(* Physical frames, their reference counts and the user page tables that   *)
(* map them: kalloc.c, the copy-on-write half of vm.c (copyuvm, PageFault, *)
(* deallocuvm, freevm, stackGrow, allocuvm) and the parts of fork, exec,   *)
(* exit, wait and sbrk that allocate, share or release frames.             *)
(*                                                                         *)
(* Processes run on several CPUs and only kmem.lock protects the counts,   *)
(* so a step here is what one process does between two of its accesses to  *)
(* shared state: the count read by PageFault (vm.c:623) and the count      *)
(* dropped (vm.c:639) are different steps, and so are the mapping copyuvm  *)
(* installs and the count it raises afterwards (vm.c:277-279).             *)
(*                                                                         *)
(* Sizes are in pages.  The memory table, the swap table and the FIFO list *)
(* are the subject of module VirtualMemory; here no process is large       *)
(* enough (8500 pages) for a page to be swapped out.                       *)
(***************************************************************************)
EXTENDS Integers, Sequences, FiniteSets

CONSTANTS
  Proc,      \* slots of ptable.proc
  InitProc,  \* initproc
  Pgdir,     \* page directories: one per process and one being built by exec
  Frame,     \* physical frames between the end of the kernel and PHYSTOP
  BootList,  \* kmem.freelist when main() has run kinit1 and kinit2
  None,      \* no frame, no directory, no process
  Value,     \* contents of a frame
  Zero,      \* contents after memset(mem, 0, PGSIZE)
  Text,      \* contents after loaduvm
  TextPages, \* number of pages of a program file
  USERTOP,   \* first page above user memory
  UINT_MAX   \* largest value of a uint reference count

Page == 0..(USERTOP - 1)

TextPage == 1..TextPages

ASSUME ProcAssumption ==
  /\ IsFiniteSet(Proc) /\ InitProc \in Proc
  /\ IsFiniteSet(Pgdir) /\ Pgdir # {}
  /\ None \notin Proc \cup Pgdir \cup Frame

ASSUME MemoryAssumption ==
  /\ BootList \in Seq(Frame) /\ BootList # <<>>
  /\ \A i, j \in 1..Len(BootList) : BootList[i] = BootList[j] => i = j
  /\ Zero \in Value /\ Text \in Value
  /\ USERTOP \in Nat /\ TextPages \in Nat \ {0}
  /\ TextPages + 3 <= USERTOP

(* A uint can count all the page table entries, faulting processes and     *)
(* kernel pointers that could refer to one frame.                          *)
ASSUME CountAssumption ==
  /\ UINT_MAX \in Nat \ {0}
  /\ Cardinality(Pgdir \X Page) + Cardinality(Proc) + 2 < UINT_MAX

VARIABLES
  freelist,          \* kmem.freelist
  refCount,          \* kmem.PhisicalPageRefCount
  PhysicalPageTotal,
  kheld,             \* frames the kernel uses: stacks, tables, pipes, blocks
  lost,              \* frames whose only pointer a failing or panicking call dropped
  mem,               \* contents of the frames
  pte,               \* pte[d][a]: frame mapped at page a of directory d
  writable,          \* writable[d]: pages of d with PTE_W
  state,             \* proc.state; RUNNABLE stands for RUNNING and SLEEPING too
  pgdir,             \* proc.pgdir
  sz,                \* proc.sz
  stackSize,         \* proc.stackSize
  killed,            \* proc.killed
  panicked,          \* panic() was called
  pc,                \* where each process is in the kernel
  va,                \* the page its handler works on
  cnt,               \* physicalPageRefCount in PageFault
  fr,                \* newPage, then pageAddr, in PageFault
  dir,               \* the directory it builds or frees
  child,             \* np in fork
  todo               \* pages its loop has still to visit

frameVars == <<freelist, refCount, PhysicalPageTotal, kheld, lost, mem>>
tableVars == <<pte, writable>>
procVars == <<state, pgdir, sz, stackSize, killed, panicked>>
threadVars == <<pc, va, cnt, fr, dir, child, todo>>
vars == <<frameVars, tableVars, procVars, threadVars>>

PC == {"user", "cow", "copy", "dec", "fork", "forkInc", "forkFree",
       "exec", "free"}

-----------------------------------------------------------------------------
(* The allocator. *)

kalloc(f) ==
  /\ freelist # <<>>
  /\ f = Head(freelist)
  /\ freelist' = Tail(freelist)
  /\ refCount' = [refCount EXCEPT ![f] = 1]
  /\ PhysicalPageTotal' = PhysicalPageTotal + 1

kallocFails == freelist = <<>>

(* Mutant: the count is not looked at. *)
kfreeAlways(f) ==
  /\ freelist' = <<f>> \o freelist
  /\ PhysicalPageTotal' = PhysicalPageTotal - 1
  /\ refCount' = [refCount EXCEPT ![f] = 0]

kfree(f) ==
  \/ /\ refCount[f] > 0
     /\ refCount' = [refCount EXCEPT ![f] = @ - 1]
     /\ UNCHANGED <<freelist, PhysicalPageTotal>>
  \/ /\ refCount[f] = 0
     /\ freelist' = <<f>> \o freelist
     /\ PhysicalPageTotal' = PhysicalPageTotal - 1
     /\ UNCHANGED refCount

(* kalloc and, on an error path, kfree of the same frame: the count falls  *)
(* back to 0 but the frame does not return to the list.                    *)
kallocAndFree(f) ==
  /\ freelist # <<>>
  /\ f = Head(freelist)
  /\ freelist' = Tail(freelist)
  /\ refCount' = [refCount EXCEPT ![f] = 0]
  /\ PhysicalPageTotal' = PhysicalPageTotal + 1

(* Mutants: copyuvm, or PageFault, does not adjust the count. *)
keepRefCount(f) == UNCHANGED refCount

increasePhysicalPageRefCountByOne(f) ==
  refCount' = [refCount EXCEPT ![f] = IF @ = UINT_MAX THEN 0 ELSE @ + 1]

decreasePhysicalPageRefCountByOne(f) ==
  refCount' = [refCount EXCEPT ![f] = IF @ = 0 THEN UINT_MAX ELSE @ - 1]

(* mappages needs a frame for a page table when the directory has none for *)
(* that range, so it can fail only when there is no free frame.            *)
mappagesFails == freelist = <<>>

-----------------------------------------------------------------------------
(* Helpers. *)

(* a is where a loop over the pages S is. *)
IsFirst(a, S) == a \in S /\ \A b \in S : a <= b

Mapped(d) == {a \in Page : pte[d][a] # None}

(* What copyuvm copies: text, data and heap from page 1, then the stack.   *)
Region(p) == {a \in Page : \/ 1 <= a /\ a < sz[p]
                           \/ USERTOP - stackSize[p] <= a}

(* Directories some process uses, builds or frees. *)
BusyDir == {pgdir[p] : p \in Proc} \cup {dir[p] : p \in Proc}

InUser(p) == state[p] = "RUNNABLE" /\ pc[p] = "user" /\ ~killed[p]

AtPage(p, a) == InUser(p) /\ a \in Page

MapFrame(d, a, f, w) ==
  /\ pte' = [pte EXCEPT ![d][a] = f]
  /\ writable' = [writable EXCEPT ![d] = IF w THEN @ \cup {a} ELSE @ \ {a}]

(* deallocuvm on one present page. *)
ReleasePage(d, a) ==
  /\ kfree(pte[d][a])
  /\ MapFrame(d, a, None, FALSE)

kill(p) == killed' = [killed EXCEPT ![p] = TRUE]

panic == panicked' = TRUE

Idle(p) ==
  /\ pc' = [pc EXCEPT ![p] = "user"]
  /\ va' = [va EXCEPT ![p] = 0]
  /\ cnt' = [cnt EXCEPT ![p] = 0]
  /\ fr' = [fr EXCEPT ![p] = None]
  /\ dir' = [dir EXCEPT ![p] = None]
  /\ child' = [child EXCEPT ![p] = None]
  /\ todo' = [todo EXCEPT ![p] = {}]

-----------------------------------------------------------------------------
Init ==
  \E d \in Pgdir : LET f == Head(BootList) IN
    /\ freelist = Tail(BootList)
    /\ refCount = [g \in Frame |-> IF g = f THEN 1 ELSE 0]
    /\ PhysicalPageTotal = 1
    /\ kheld = {} /\ lost = {}
    /\ mem = [g \in Frame |-> IF g = f THEN Text ELSE Zero]
    /\ pte = [e \in Pgdir |-> [a \in Page |-> IF e = d /\ a = 0 THEN f ELSE None]]
    /\ writable = [e \in Pgdir |-> IF e = d THEN {0} ELSE {}]
    /\ state = [p \in Proc |-> IF p = InitProc THEN "RUNNABLE" ELSE "UNUSED"]
    /\ pgdir = [p \in Proc |-> IF p = InitProc THEN d ELSE None]
    /\ sz = [p \in Proc |-> IF p = InitProc THEN 1 ELSE 0]
    /\ stackSize = [p \in Proc |-> 0]
    /\ killed = [p \in Proc |-> FALSE]
    /\ panicked = FALSE
    /\ pc = [p \in Proc |-> "user"]
    /\ va = [p \in Proc |-> 0]
    /\ cnt = [p \in Proc |-> 0]
    /\ fr = [p \in Proc |-> None]
    /\ dir = [p \in Proc |-> None]
    /\ child = [p \in Proc |-> None]
    /\ todo = [p \in Proc |-> {}]

-----------------------------------------------------------------------------
(* User code: a store to a page mapped with PTE_W does not trap. *)

Store(p, a, v) ==
  /\ AtPage(p, a)
  /\ a \in writable[pgdir[p]]
  /\ mem' = [mem EXCEPT ![pte[pgdir[p]][a]] = v]
  /\ UNCHANGED <<freelist, refCount, PhysicalPageTotal, kheld, lost,
                 tableVars, procVars, threadVars>>

-----------------------------------------------------------------------------
(* PageFault on a page that is not present. *)

NullFault(p) ==
  /\ AtPage(p, 0)
  /\ pte[pgdir[p]][0] = None
  /\ kill(p)
  /\ UNCHANGED <<frameVars, tableVars, state, pgdir, sz, stackSize, panicked,
                 threadVars>>

isLackOfStackCapacity(p, a) == sz[p] + 1 <= a /\ a < USERTOP - stackSize[p]

(* stackGrow maps the page just below the stack, whatever page faulted.    *)
stackGrow(p, f) ==
  /\ kalloc(f)
  /\ pte[pgdir[p]][USERTOP - stackSize[p] - 1] = None
  /\ MapFrame(pgdir[p], USERTOP - stackSize[p] - 1, f, TRUE)
  /\ mem' = [mem EXCEPT ![f] = Zero]
  /\ stackSize' = [stackSize EXCEPT ![p] = @ + 1]
  /\ UNCHANGED <<kheld, lost, killed, panicked>>

(* mappages panics when the page below the stack is mapped already.        *)
stackGrowRemap(p, f) ==
  /\ kalloc(f)
  /\ pte[pgdir[p]][USERTOP - stackSize[p] - 1] # None
  /\ panic
  /\ lost' = lost \cup {f}
  /\ UNCHANGED <<kheld, mem, tableVars, stackSize, killed>>

stackGrowFails(p) ==
  /\ \/ kallocFails /\ UNCHANGED frameVars
     \/ \E f \in Frame : /\ kallocAndFree(f)
                         /\ freelist' = <<>>
                         /\ UNCHANGED <<kheld, lost, mem>>
  /\ kill(p)
  /\ UNCHANGED <<tableVars, stackSize, panicked>>

StackFault(p, a) ==
  /\ AtPage(p, a)
  /\ a > 0
  /\ pte[pgdir[p]][a] = None
  /\ isLackOfStackCapacity(p, a)
  /\ \/ \E f \in Frame : stackGrow(p, f) \/ stackGrowRemap(p, f)
     \/ stackGrowFails(p)
  /\ UNCHANGED <<state, pgdir, sz, threadVars>>

(* Any other page is allocated lazily; the frame is dropped, not freed,    *)
(* when mappages fails.                                                    *)
LazyFault(p, a) ==
  /\ AtPage(p, a)
  /\ a > 0
  /\ pte[pgdir[p]][a] = None
  /\ ~isLackOfStackCapacity(p, a)
  /\ \/ /\ kallocFails
        /\ kill(p)
        /\ UNCHANGED <<frameVars, tableVars>>
     \/ \E f \in Frame :
          /\ kalloc(f)
          /\ mem' = [mem EXCEPT ![f] = Zero]
          /\ \/ MapFrame(pgdir[p], a, f, TRUE) /\ UNCHANGED <<killed, lost>>
             \/ /\ freelist' = <<>>
                /\ lost' = lost \cup {f}
                /\ kill(p)
                /\ UNCHANGED tableVars
          /\ UNCHANGED kheld
  /\ UNCHANGED <<state, pgdir, sz, stackSize, panicked, threadVars>>

-----------------------------------------------------------------------------
(* PageFault on a page that is present but not writable: copy on write. *)

FaultCount(p, a) ==
  /\ AtPage(p, a)
  /\ pte[pgdir[p]][a] # None
  /\ a \notin writable[pgdir[p]]
  /\ \/ /\ refCount[pte[pgdir[p]][a]] < 1
        /\ panic
        /\ UNCHANGED threadVars
     \/ /\ refCount[pte[pgdir[p]][a]] >= 1
        /\ pc' = [pc EXCEPT ![p] = "cow"]
        /\ va' = [va EXCEPT ![p] = a]
        /\ cnt' = [cnt EXCEPT ![p] = refCount[pte[pgdir[p]][a]]]
        /\ UNCHANGED <<panicked, fr, dir, child, todo>>
  /\ UNCHANGED <<frameVars, tableVars, state, pgdir, sz, stackSize, killed>>

(* Mutant: two references are taken for one. *)
CowReuseShared(p) ==
  /\ pc[p] = "cow"
  /\ cnt[p] <= 2
  /\ writable' = [writable EXCEPT ![pgdir[p]] = @ \cup {va[p]}]
  /\ Idle(p)
  /\ UNCHANGED <<frameVars, pte, procVars>>

CowReuse(p) ==
  /\ pc[p] = "cow"
  /\ cnt[p] = 1
  /\ writable' = [writable EXCEPT ![pgdir[p]] = @ \cup {va[p]}]
  /\ Idle(p)
  /\ UNCHANGED <<frameVars, pte, procVars>>

CowAlloc(p) ==
  /\ pc[p] = "cow"
  /\ cnt[p] # 1
  /\ \/ /\ kallocFails
        /\ kill(p)
        /\ Idle(p)
        /\ UNCHANGED frameVars
     \/ \E f \in Frame :
          /\ kalloc(f)
          /\ pc' = [pc EXCEPT ![p] = "copy"]
          /\ fr' = [fr EXCEPT ![p] = f]
          /\ UNCHANGED <<kheld, lost, mem, killed, va, cnt, dir, child, todo>>
  /\ UNCHANGED <<tableVars, state, pgdir, sz, stackSize, panicked>>

CowCopy(p) ==
  /\ pc[p] = "copy"
  /\ mem' = [mem EXCEPT ![fr[p]] = mem[pte[pgdir[p]][va[p]]]]
  /\ MapFrame(pgdir[p], va[p], fr[p], TRUE)
  /\ fr' = [fr EXCEPT ![p] = pte[pgdir[p]][va[p]]]
  /\ pc' = [pc EXCEPT ![p] = "dec"]
  /\ UNCHANGED <<freelist, refCount, PhysicalPageTotal, kheld, lost, procVars,
                 va, cnt, dir, child, todo>>

CowDecrease(p) ==
  /\ pc[p] = "dec"
  /\ decreasePhysicalPageRefCountByOne(fr[p])
  /\ Idle(p)
  /\ UNCHANGED <<freelist, PhysicalPageTotal, kheld, lost, mem, tableVars,
                 procVars>>

-----------------------------------------------------------------------------
(* sbrk of one page.  sys_sbrk adds n to proc.sz a second time after       *)
(* growproc has done so, unless that would come too close to the stack.    *)

heapLimit(p) == USERTOP - stackSize[p] - 1

SbrkGrow(p) ==
  /\ InUser(p)
  /\ sz[p] + 1 <= heapLimit(p)
  /\ \E f \in Frame :
       \/ /\ kalloc(f)
          /\ pte[pgdir[p]][sz[p]] = None
          /\ MapFrame(pgdir[p], sz[p], f, TRUE)
          /\ mem' = [mem EXCEPT ![f] = Zero]
          /\ sz' = [sz EXCEPT ![p] = IF @ + 2 > heapLimit(p) THEN @ + 1 ELSE @ + 2]
          /\ UNCHANGED <<lost, panicked>>
       \/ /\ kalloc(f)
          /\ pte[pgdir[p]][sz[p]] # None
          /\ panic
          /\ lost' = lost \cup {f}
          /\ UNCHANGED <<mem, tableVars, sz>>
       \/ /\ kallocAndFree(f)
          /\ freelist' = <<>>
          /\ UNCHANGED <<lost, mem, tableVars, sz, panicked>>
  /\ UNCHANGED <<kheld, state, pgdir, stackSize, killed, threadVars>>

(* Mutant: the size is taken down twice whatever growproc returned. *)
shrunkTwice(s) == s - 2

(* growproc reports failure when the new size is 0, after the page is gone. *)
shrunk(s) == IF s = 1 THEN 1 ELSE s - 2

SbrkShrink(p) ==
  /\ InUser(p)
  /\ sz[p] >= 1
  /\ IF pte[pgdir[p]][sz[p] - 1] # None
     THEN ReleasePage(pgdir[p], sz[p] - 1)
     ELSE UNCHANGED <<freelist, refCount, PhysicalPageTotal, tableVars>>
  /\ sz' = [sz EXCEPT ![p] = shrunk(@)]
  /\ UNCHANGED <<kheld, lost, mem, state, pgdir, stackSize, killed, panicked,
                 threadVars>>

(* Two ways in which sbrk goes wrong.  When kalloc fails, allocuvm undoes   *)
(* the pages up to the new size, and so frees the page above the heap if   *)
(* it had been allocated lazily.  And deallocuvm panics on a page that is  *)
(* not in the memory table; which pages are there is left open here.       *)
SbrkFails(p) ==
  /\ InUser(p)
  /\ \/ /\ sz[p] + 1 <= heapLimit(p)
        /\ kallocFails
        /\ pte[pgdir[p]][sz[p]] # None
        /\ ReleasePage(pgdir[p], sz[p])
        /\ UNCHANGED panicked
     \/ /\ sz[p] >= 1
        /\ pte[pgdir[p]][sz[p] - 1] # None
        /\ panic
        /\ UNCHANGED <<freelist, refCount, PhysicalPageTotal, tableVars>>
  /\ UNCHANGED <<kheld, lost, mem, state, pgdir, sz, stackSize, killed, threadVars>>

-----------------------------------------------------------------------------
(* fork: allocproc, copyuvm page by page, then the child becomes RUNNABLE. *)

ForkStart(p, c, d) ==
  /\ InUser(p)
  /\ state[c] = "UNUSED"
  /\ d \notin BusyDir
  /\ state' = [state EXCEPT ![c] = "EMBRYO"]
  /\ pc' = [pc EXCEPT ![p] = "fork"]
  /\ dir' = [dir EXCEPT ![p] = d]
  /\ child' = [child EXCEPT ![p] = c]
  /\ todo' = [todo EXCEPT ![p] = Region(p)]
  /\ UNCHANGED <<frameVars, tableVars, pgdir, sz, stackSize, killed, panicked,
                 va, cnt, fr>>

(* One round of copyuvm's loop up to mappages.  PTE_W is cleared in the    *)
(* parent first, and stays cleared when mappages fails.                    *)
ForkMap(p, a) ==
  /\ pc[p] = "fork"
  /\ IsFirst(a, todo[p])
  /\ LET f == pte[pgdir[p]][a]
         readOnly == [writable EXCEPT ![pgdir[p]] = @ \ {a}]
     IN \/ /\ f = None
           /\ panic
           /\ UNCHANGED <<tableVars, pc, va>>
        \/ /\ f # None
           /\ pte' = [pte EXCEPT ![dir[p]][a] = f]
           /\ writable' = readOnly
           /\ pc' = [pc EXCEPT ![p] = "forkInc"]
           /\ va' = [va EXCEPT ![p] = a]
           /\ UNCHANGED panicked
        \/ /\ f # None
           /\ mappagesFails
           /\ writable' = readOnly
           /\ pc' = [pc EXCEPT ![p] = "forkFree"]
           /\ UNCHANGED <<pte, va, panicked>>
  /\ UNCHANGED <<frameVars, state, pgdir, sz, stackSize, killed,
                 cnt, fr, dir, child, todo>>

ForkIncrease(p) ==
  /\ pc[p] = "forkInc"
  /\ increasePhysicalPageRefCountByOne(pte[pgdir[p]][va[p]])
  /\ pc' = [pc EXCEPT ![p] = "fork"]
  /\ todo' = [todo EXCEPT ![p] = @ \ {va[p]}]
  /\ va' = [va EXCEPT ![p] = 0]
  /\ UNCHANGED <<freelist, PhysicalPageTotal, kheld, lost, mem, tableVars,
                 procVars, cnt, fr, dir, child>>

(* The child is ready.  That its tables cannot be copied (proc.c:359),     *)
(* which leaves the slot and its pages taken, is in module Scheduling.     *)
ForkDone(p) ==
  /\ pc[p] = "fork"
  /\ todo[p] = {}
  /\ state' = [state EXCEPT ![child[p]] = "RUNNABLE"]
  /\ pgdir' = [pgdir EXCEPT ![child[p]] = dir[p]]
  /\ sz' = [sz EXCEPT ![child[p]] = sz[p]]
  /\ stackSize' = [stackSize EXCEPT ![child[p]] = stackSize[p]]
  /\ Idle(p)
  /\ UNCHANGED <<frameVars, tableVars, killed, panicked>>

(* The label bad of copyuvm, and fork's own error return. *)
ForkFree(p) ==
  /\ pc[p] = "forkFree"
  /\ \/ /\ \E a \in Page : IsFirst(a, Mapped(dir[p])) /\ ReleasePage(dir[p], a)
        /\ UNCHANGED <<state, threadVars>>
     \/ /\ Mapped(dir[p]) = {}
        /\ state' = [state EXCEPT ![child[p]] = "UNUSED"]
        /\ Idle(p)
        /\ UNCHANGED <<freelist, refCount, PhysicalPageTotal, tableVars>>
  /\ UNCHANGED <<kheld, lost, mem, pgdir, sz, stackSize, killed, panicked>>

-----------------------------------------------------------------------------
(* exec: a new directory is filled, then replaces the old one, which is    *)
(* freed page by page; on an error the new one is freed instead.           *)

ExecStart(p, d) ==
  /\ InUser(p)
  /\ d \notin BusyDir
  /\ TextPages + 1 <= heapLimit(p)
  /\ pc' = [pc EXCEPT ![p] = "exec"]
  /\ dir' = [dir EXCEPT ![p] = d]
  /\ todo' = [todo EXCEPT ![p] = TextPage]
  /\ UNCHANGED <<frameVars, tableVars, procVars, va, cnt, fr, child>>

allocFails ==
  \/ kallocFails /\ UNCHANGED <<freelist, refCount, PhysicalPageTotal>>
  \/ \E f \in Frame : kallocAndFree(f) /\ freelist' = <<>>

ExecAlloc(p, a) ==
  /\ pc[p] = "exec"
  /\ IsFirst(a, todo[p])
  /\ \/ \E f \in Frame :
          /\ kalloc(f)
          /\ MapFrame(dir[p], a, f, TRUE)
          /\ mem' = [mem EXCEPT ![f] = Text]
          /\ todo' = [todo EXCEPT ![p] = @ \ {a}]
          /\ UNCHANGED pc
     \/ /\ allocFails
        /\ pc' = [pc EXCEPT ![p] = "free"]
        /\ UNCHANGED <<mem, tableVars, todo>>
  /\ UNCHANGED <<kheld, lost, procVars, va, cnt, fr, dir, child>>

(* The program file is too short or malformed. *)
ExecBad(p) ==
  /\ pc[p] = "exec"
  /\ pc' = [pc EXCEPT ![p] = "free"]
  /\ UNCHANGED <<frameVars, tableVars, procVars, va, cnt, fr, dir, child, todo>>

(* stackSize is overwritten before the stack page is allocated and is not  *)
(* restored when exec fails afterwards.                                    *)
ExecStack(p) ==
  /\ pc[p] = "exec"
  /\ todo[p] = {}
  /\ \/ \E f \in Frame :
          /\ kalloc(f)
          /\ MapFrame(dir[p], USERTOP - 1, f, TRUE)
          /\ mem' = [mem EXCEPT ![f] = Zero]
          /\ stackSize' = [stackSize EXCEPT ![p] = 1]
          /\ \/ /\ pgdir' = [pgdir EXCEPT ![p] = dir[p]]
                /\ dir' = [dir EXCEPT ![p] = pgdir[p]]
                /\ sz' = [sz EXCEPT ![p] = TextPages + 1]
             \/ UNCHANGED <<pgdir, dir, sz>>
     \/ /\ allocFails
        /\ stackSize' = [stackSize EXCEPT ![p] = 0]
        /\ UNCHANGED <<mem, tableVars, pgdir, dir, sz>>
  /\ pc' = [pc EXCEPT ![p] = "free"]
  /\ UNCHANGED <<kheld, lost, state, killed, panicked, va, cnt, fr, child, todo>>

ExecFree(p) ==
  /\ pc[p] = "free"
  /\ \/ /\ \E a \in Page : IsFirst(a, Mapped(dir[p])) /\ ReleasePage(dir[p], a)
        /\ UNCHANGED threadVars
     \/ /\ Mapped(dir[p]) = {}
        /\ Idle(p)
        /\ UNCHANGED <<freelist, refCount, PhysicalPageTotal, tableVars>>
  /\ UNCHANGED <<kheld, lost, mem, procVars>>

-----------------------------------------------------------------------------
(* exit, and the freevm that wait() runs for a zombie. *)

Exit(p) ==
  /\ state[p] = "RUNNABLE"
  /\ pc[p] = "user"
  /\ IF p = InitProc
     THEN panic /\ UNCHANGED state
     ELSE state' = [state EXCEPT ![p] = "ZOMBIE"] /\ UNCHANGED panicked
  /\ UNCHANGED <<frameVars, tableVars, pgdir, sz, stackSize, killed, threadVars>>

(* The fields of a slot that becomes UNUSED are dead: fork overwrites them. *)
WaitFree(z) ==
  /\ state[z] = "ZOMBIE"
  /\ \/ /\ \E a \in Page : IsFirst(a, Mapped(pgdir[z])) /\ ReleasePage(pgdir[z], a)
        /\ UNCHANGED <<state, pgdir, sz, stackSize, killed>>
     \/ /\ Mapped(pgdir[z]) = {}
        /\ state' = [state EXCEPT ![z] = "UNUSED"]
        /\ pgdir' = [pgdir EXCEPT ![z] = None]
        /\ sz' = [sz EXCEPT ![z] = 0]
        /\ stackSize' = [stackSize EXCEPT ![z] = 0]
        /\ killed' = [killed EXCEPT ![z] = FALSE]
        /\ UNCHANGED <<freelist, refCount, PhysicalPageTotal, tableVars>>
  /\ UNCHANGED <<kheld, lost, mem, panicked, threadVars>>

(* Every other caller of kalloc and kfree in the kernel. *)
KernelAlloc ==
  \E f \in Frame :
    /\ kalloc(f)
    /\ kheld' = kheld \cup {f}
    /\ UNCHANGED <<lost, mem, tableVars, procVars, threadVars>>

KernelFree ==
  \E f \in kheld :
    /\ kfree(f)
    /\ kheld' = kheld \ {f}
    /\ UNCHANGED <<lost, mem, tableVars, procVars, threadVars>>

-----------------------------------------------------------------------------
Fault(p) ==
  \/ NullFault(p)
  \/ \E a \in Page : StackFault(p, a) \/ LazyFault(p, a) \/ FaultCount(p, a)
  \/ CowReuse(p) \/ CowAlloc(p) \/ CowCopy(p) \/ CowDecrease(p)

Fork(p) ==
  \/ \E c \in Proc, d \in Pgdir : ForkStart(p, c, d)
  \/ \E a \in Page : ForkMap(p, a)
  \/ ForkIncrease(p) \/ ForkDone(p) \/ ForkFree(p)

Exec(p) ==
  \/ \E d \in Pgdir : ExecStart(p, d)
  \/ \E a \in Page : ExecAlloc(p, a)
  \/ ExecBad(p) \/ ExecStack(p) \/ ExecFree(p)

Next ==
  /\ ~panicked
  /\ \/ \E p \in Proc :
          \/ \E a \in Page, v \in Value : Store(p, a, v)
          \/ Fault(p)
          \/ SbrkGrow(p) \/ SbrkShrink(p) \/ SbrkFails(p)
          \/ Fork(p)
          \/ Exec(p)
          \/ Exit(p) \/ WaitFree(p)
     \/ KernelAlloc
     \/ KernelFree

Spec == Init /\ [][Next]_vars

-----------------------------------------------------------------------------
(* TypeOK: every variable of the allocator, the page tables and the        *)
(* processes has its type; a uint count stays a uint.                      *)
TypeOK ==
  /\ freelist \in Seq(Frame)
  /\ refCount \in [Frame -> 0..UINT_MAX]
  /\ PhysicalPageTotal \in Int
  /\ kheld \in SUBSET Frame
  /\ lost \in SUBSET Frame
  /\ mem \in [Frame -> Value]
  /\ pte \in [Pgdir -> [Page -> Frame \cup {None}]]
  /\ writable \in [Pgdir -> SUBSET Page]
  /\ state \in [Proc -> {"UNUSED", "EMBRYO", "RUNNABLE", "ZOMBIE"}]
  /\ pgdir \in [Proc -> Pgdir \cup {None}]
  /\ sz \in [Proc -> 0..USERTOP]
  /\ stackSize \in [Proc -> 0..USERTOP]
  /\ killed \in [Proc -> BOOLEAN]
  /\ panicked \in BOOLEAN
  /\ pc \in [Proc -> PC]
  /\ va \in [Proc -> Page]
  /\ cnt \in [Proc -> 0..UINT_MAX]
  /\ fr \in [Proc -> Frame \cup {None}]
  /\ dir \in [Proc -> Pgdir \cup {None}]
  /\ child \in [Proc -> Proc \cup {None}]
  /\ todo \in [Proc -> SUBSET Page]

(* Mappings copyuvm has installed but not counted yet. *)
Uncounted == {<<dir[p], va[p]>> : p \in {q \in Proc : pc[q] = "forkInc"}}

(* Page table entries that hold a counted reference to frame f. *)
MapRefs(f) ==
  {h \in Pgdir \X Page : pte[h[1]][h[2]] = f /\ h \notin Uncounted}

(* Processes in PageFault that hold f outside any page table: as the new   *)
(* page not mapped yet, or as the old page not given back yet.             *)
FaultRefs(f) == {p \in Proc : pc[p] \in {"copy", "dec"} /\ fr[p] = f}

KernelRefs(f) == (IF f \in kheld THEN 1 ELSE 0) + (IF f \in lost THEN 1 ELSE 0)

(* CountIsExact: the count of a frame is the number of its holders, with   *)
(* every copyuvm, PageFault and freevm of other processes in progress;     *)
(* a count that is too low makes PageFault give write access to a shared   *)
(* page (vm.c:628), one that is too high makes it copy for ever.           *)
CountIsExact ==
  \A f \in Frame :
    refCount[f] = Cardinality(MapRefs(f)) + Cardinality(FaultRefs(f)) + KernelRefs(f)

(* WritableIsPrivate: a frame mapped with PTE_W is mapped nowhere else,    *)
(* although PageFault decides this from a count it read earlier.           *)
WritableIsPrivate ==
  \A d \in Pgdir : \A a \in writable[d] :
    \A e \in Pgdir, b \in Page :
      pte[e][b] = pte[d][a] => e = d /\ b = a

(* FreeIsUnused: no frame on the free list is still mapped, or about to be *)
(* mapped by a PageFault in progress, or in use by the kernel, and none is *)
(* on the list twice.                                                      *)
FreeIsUnused ==
  \A i \in 1..Len(freelist) :
    /\ \A d \in Pgdir, a \in Page : pte[d][a] # freelist[i]
    /\ \A p \in Proc : pc[p] \in {"copy", "dec"} => fr[p] # freelist[i]
    /\ freelist[i] \notin kheld \cup lost
    /\ \A j \in 1..Len(freelist) : freelist[j] = freelist[i] => j = i

(* FreedIsReusable: a frame that kalloc handed out and that nothing refers *)
(* to any more is on the free list again (kalloc.c:68, kfree frees the     *)
(* page; README 2.1.1, the allocation figures follow kalloc and kfree).    *)
FreedIsReusable ==
  \A f \in Frame : refCount[f] = 0 => \E i \in 1..Len(freelist) : freelist[i] = f

-----------------------------------------------------------------------------
(* What user programs see of all this. *)

Live == {p \in Proc : state[p] = "RUNNABLE"}

LiveRegion == [p \in Proc |-> IF p \in Live THEN Region(p) ELSE {}]

(* A page that is not mapped reads as zeroes: the first access allocates it. *)
View == [p \in Proc |-> [a \in Page |->
           IF p \in Live /\ pte[pgdir[p]][a] # None
           THEN mem[pte[pgdir[p]][a]] ELSE Zero]]

PM == INSTANCE PrivateMemory WITH
        StackPage <- USERTOP - 1,
        live <- Live, region <- LiveRegion, space <- View

(* What a step of p does to the memories: none changes but p's own, which  *)
(* gets a new value only where p stores it.                                *)
MemoryStep ==
  \/ UNCHANGED PM!pmVars
  \/ \E p \in Proc :
       \/ \E a \in Page, v \in Value : Store(p, a, v) /\ PM!PMStore(p, a, v)
       \/ /\ \/ Fault(p) \/ Fork(p) \/ Exec(p)
             \/ SbrkGrow(p) \/ SbrkShrink(p) \/ SbrkFails(p)
          /\ PM!PMResize(p)
       \/ ForkDone(p) /\ PM!PMFork(p, child[p])
       \/ ExecStack(p) /\ PM!PMExec(p)
       \/ Exit(p) /\ PM!PMExit(p)

(* MemoryIsPrivate: sharing frames copy-on-write is invisible; with all    *)
(* interleavings of copyuvm, PageFault and freevm, each process sees the   *)
(* memory PrivateMemory gives it, and each change of that memory is a step *)
(* of the process that it belongs to (CopyOnWriteTest.c:24, "you cann't    *)
(* affect my data").                                                       *)
MemoryIsPrivate == PM!PMInit /\ [][MemoryStep]_vars
=============================================================================
