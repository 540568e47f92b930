--------------------------- MODULE VirtualMemory ---------------------------
(***************************************************************************)
(* Paging to swap files: VirtualMemory.c and the functions of vm.c, fs.c   *)
(* and sysproc.c that record a process's pages, evict the oldest one when  *)
(* the memory table is full and bring it back on the next access.          *)
(*                                                                         *)
(* One process is followed, other than init and sh (which SwapPage does    *)
(* not serve).  When it forks, the model goes on with the parent or with   *)
(* the child while the other one waits; shared has the pages whose frame   *)
(* the other one uses too.  An exec may fail before or after it has        *)
(* cleared the tables, and the slot a child gets may hold the swap table   *)
(* of an earlier process.  Elsewhere kalloc succeeds; module CopyOnWrite   *)
(* has its failures and the interleaving of processes.  Sizes are in pages *)
(* and sbrk moves the break by one page.                                   *)
(***************************************************************************)
EXTENDS Integers, Sequences, FiniteSets

CONSTANTS
  MEMORY_TABLE_TOTAL_ENTRYS,
  SWAP_TABLE_ENTRY_NUM,  \* entries of one page of the swap table
  SWAP_FILE_PAGES,       \* pages the six swap files can hold
  USERTOP, TextPages, Value, Zero, Text,
  LeftPage,              \* pages an earlier process of a slot had on disk
  Self                   \* the process

Page == 0..(USERTOP - 1)
TextPage == 1..TextPages
Entry == 1..MEMORY_TABLE_TOTAL_ENTRYS
SLOT_USABLE == -1

ASSUME PagingAssumption ==
  /\ MEMORY_TABLE_TOTAL_ENTRYS \in Nat /\ SWAP_TABLE_ENTRY_NUM \in Nat \ {0}
  /\ SWAP_FILE_PAGES \in Nat /\ USERTOP \in Nat /\ TextPages \in Nat \ {0}
  /\ TextPages + 2 <= MEMORY_TABLE_TOTAL_ENTRYS
  /\ TextPages + 4 <= USERTOP
  /\ Zero \in Value /\ Text \in Value /\ LeftPage \subseteq Page

VARIABLES
  table,      \* memory table and FIFO list: va, Next, Last, head, tail, num
  swapVA,     \* swap table, page after page: VirtualAddress of each entry
  disk,       \* swap files: contents of the page each entry stands for
  pte,        \* per page: not mapped, present, or PTE_PG
  mem,        \* contents of the frames of the pages present, else Zero
  cow,        \* present pages without PTE_W
  shared,     \* present pages whose frame the waiting process uses too
  sz, stackSize,
  stopped,    \* a panic, an endless fault in the kernel, or killed
  stray       \* history: the tables come from a discarded image (exec failed
              \* halfway) or from an earlier process of the slot (fork)

swapVars == <<swapVA, disk>>
frameVars == <<mem, cow, shared>>
vars == <<table, swapVars, pte, frameVars, sz, stackSize, stopped, stray>>

-----------------------------------------------------------------------------
(* The memory table; 0 is the null pointer. *)

EmptyTable ==
  [va   |-> [e \in Entry |-> SLOT_USABLE],
   next |-> [e \in Entry |-> 0],
   last |-> [e \in Entry |-> 0],
   head |-> 0, tail |-> 0, num |-> 0]

(* The entry n places after the head of T's list. *)
Follow(T) ==
  LET f[n \in 0..MEMORY_TABLE_TOTAL_ENTRYS] ==
        IF n = 0 THEN T.head ELSE IF f[n - 1] = 0 THEN 0 ELSE T.next[f[n - 1]]
  IN f

IsFirst(i, S) == i \in S /\ \A j \in S : i <= j

UsableEntry(T) == {e \in Entry : T.va[e] = SLOT_USABLE}

(* RecordPage: the first usable entry becomes the head of the list. *)
RecordPage(T, a) ==
  LET e == CHOOSE i \in Entry : IsFirst(i, UsableEntry(T))
      old == T.head
  IN [T EXCEPT !.va[e] = a,
               !.next[e] = old,
               !.last = IF old = 0 THEN @ ELSE [@ EXCEPT ![old] = e],
               !.head = e,
               !.tail = IF old = 0 THEN e ELSE @,
               !.num = @ + 1]

(* GetMemoryListTail panics when the list has no second element or the     *)
(* tail no predecessor.                                                    *)
TailPanics(T) ==
  \/ T.head = 0 \/ T.next[T.head] = 0
  \/ T.tail = 0 \/ T.last[T.tail] = 0

GetMemoryListTail(T) ==
  [T EXCEPT !.tail = T.last[T.tail],
            !.next[T.last[T.tail]] = 0,
            !.last[T.tail] = 0]

(* Mutant: the old head is not linked back to the new one. *)
SetMemoryListHeadNoLast(T, e, a) ==
  [T EXCEPT !.next[e] = T.head, !.head = e, !.va[e] = a]

SetMemoryListHead(T, e, a) ==
  [T EXCEPT !.next[e] = T.head, !.last[T.head] = e, !.head = e, !.va[e] = a]

(* Mutant: the entry of the oldest page is reused where it is. *)
RotateInPlace(T, a) == [T EXCEPT !.va[T.tail] = a]

(* The oldest entry leaves the tail and comes back at the head with        *)
(* address a.                                                              *)
Rotate(T, a) == SetMemoryListHead(GetMemoryListTail(T), T.tail, a)

(* RemoveFromMemoryList searches the list for the predecessor of e, and    *)
(* runs off its end when e is not on the list.  The tail pointer stays.    *)
Predecessor(T, e) == {c \in Entry : /\ \E n \in DOMAIN Follow(T) : Follow(T)[n] = c
                                    /\ T.next[c] = e}

Removable(T, e) == T.head = e \/ Predecessor(T, e) # {}

RemoveFromMemoryList(T, e) ==
  LET n == T.next[e]
      c == IF T.head = e THEN 0 ELSE CHOOSE i \in Predecessor(T, e) : TRUE
      links == IF n = 0 THEN T.last ELSE [T.last EXCEPT ![n] = c]
  IN [T EXCEPT !.va[e] = SLOT_USABLE,
               !.head = IF c = 0 THEN n ELSE @,
               !.next = [i \in Entry |-> CASE i = e -> 0 [] i = c -> n [] OTHER -> @[i]],
               !.last = [links EXCEPT ![e] = 0],
               !.num = @ - 1]

(* CopyVirtualMemoryData writes the list to the first entries, in order.   *)
CopyList(T) ==
  LET f == Follow(T)
      k == Cardinality({n \in DOMAIN f : f[n] # 0})
  IN [va   |-> [e \in Entry |-> IF e <= k THEN T.va[f[e - 1]] ELSE SLOT_USABLE],
      next |-> [e \in Entry |-> IF e < k THEN e + 1 ELSE 0],
      last |-> [e \in Entry |-> IF e <= k THEN e - 1 ELSE 0],
      head |-> IF k = 0 THEN 0 ELSE 1, tail |-> k, num |-> T.num]

-----------------------------------------------------------------------------
(* The swap table. *)

(* GetAddressInSwapTable: the first entry with this address. *)
InSwapTable(a) == {s \in DOMAIN swapVA : swapVA[s] = a}

(* Mutant: the first entry is taken although it is in use. *)
FirstInSwapTable == 1

(* GetEmptyInSwapTable: the first usable entry, on a new page if need be.  *)
GetEmptyInSwapTable ==
  IF InSwapTable(SLOT_USABLE) = {} THEN Len(swapVA) + 1
  ELSE CHOOSE s \in DOMAIN swapVA : IsFirst(s, InSwapTable(SLOT_USABLE))

GrowSwapTable(s, q, blank) ==
  IF s \in DOMAIN q THEN q ELSE q \o [i \in 1..SWAP_TABLE_ENTRY_NUM |-> blank]

-----------------------------------------------------------------------------
Region == {a \in Page : (1 <= a /\ a < sz) \/ USERTOP - stackSize <= a}

heapLimit == USERTOP - stackSize - 1

stop(why) ==
  /\ stopped' = why
  /\ UNCHANGED <<table, swapVars, pte, frameVars, sz, stackSize, stray>>

(* allocuvm and stackGrow map a fresh page of zeroes at a and record it:   *)
(* in a usable entry, or in the entry of the oldest page b, which          *)
(* RecordFile writes to its swap file.  With stray tables b may be no page *)
(* of the program: RecordFile and SwapPage then panic, fault, or give away *)
(* physical page 0, and nothing is said of what follows.                   *)
CanEvict ==
  /\ ~TailPanics(table)
  /\ table.va[table.tail] \in Page
  /\ pte[table.va[table.tail]] = "present"

MapAndRecord(a) ==
  \/ /\ table.num < MEMORY_TABLE_TOTAL_ENTRYS
     /\ UsableEntry(table) # {}
     /\ table' = RecordPage(table, a)
     /\ pte' = [pte EXCEPT ![a] = "present"]
     /\ mem' = [mem EXCEPT ![a] = Zero]
     /\ UNCHANGED <<swapVars, cow, shared>>
  \/ LET b == table.va[table.tail]
         s == GetEmptyInSwapTable
     IN /\ table.num >= MEMORY_TABLE_TOTAL_ENTRYS
        /\ CanEvict
        /\ s <= SWAP_FILE_PAGES
        /\ table' = Rotate(table, a)
        /\ swapVA' = [GrowSwapTable(s, swapVA, SLOT_USABLE) EXCEPT ![s] = b]
        /\ disk' = [GrowSwapTable(s, disk, Zero) EXCEPT ![s] = mem[b]]
        /\ pte' = [pte EXCEPT ![a] = "present", ![b] = "PG"]
        /\ mem' = [mem EXCEPT ![a] = Zero, ![b] = Zero]
        /\ cow' = cow \ {b}
        /\ shared' = shared \ {b}

RecordPanics ==
  \/ table.num < MEMORY_TABLE_TOTAL_ENTRYS /\ UsableEntry(table) = {}
  \/ table.num >= MEMORY_TABLE_TOTAL_ENTRYS
     /\ (~CanEvict \/ GetEmptyInSwapTable > SWAP_FILE_PAGES)

-----------------------------------------------------------------------------
(* The program after exec: its pages are recorded in the order in which    *)
(* exec allocates them, the stack last.                                    *)
Loading ==
  LET T[n \in 0..TextPages] == IF n = 0 THEN EmptyTable ELSE RecordPage(T[n - 1], n)
  IN T

ExecTable == RecordPage(Loading[TextPages], USERTOP - 1)

Image == TextPage \cup {USERTOP - 1}

Init ==
  /\ table = ExecTable
  /\ swapVA = <<>> /\ disk = <<>>
  /\ pte = [a \in Page |-> IF a \in Image THEN "present" ELSE "none"]
  /\ mem = [a \in Page |-> IF a \in TextPage THEN Text ELSE Zero]
  /\ cow = {}
  /\ shared = {}
  /\ sz = TextPages + 1
  /\ stackSize = 1
  /\ stopped = "no"
  /\ stray = FALSE

(* A store.  Without PTE_W the page fault gives the process its own copy;  *)
(* with PTE_W it goes to the frame, whoever else uses it.                  *)
Store(a, v) ==
  /\ pte[a] = "present"
  /\ mem' = [mem EXCEPT ![a] = v]
  /\ cow' = cow \ {a}
  /\ shared' = shared \ (cow \cap {a})
  /\ UNCHANGED <<table, swapVars, pte, sz, stackSize, stopped, stray>>

(* Mutant: the entry is read after the oldest page was written there. *)
ReadSwapFileLate(s) == mem[table.va[table.tail]]

ReadSwapFile(s) == disk[s]

(* SwapPage: the oldest page and the faulting one change places.  The      *)
(* frame goes from one to the other with PTE_W, even if it is shared.      *)
SwapIn(a) ==
  /\ pte[a] = "PG"
  /\ LET b == table.va[table.tail]
         s == CHOOSE i \in DOMAIN swapVA : IsFirst(i, InSwapTable(a))
     IN \/ /\ ~CanEvict \/ InSwapTable(a) = {}
           /\ stop("panic")
        \/ /\ CanEvict
           /\ InSwapTable(a) # {}
           /\ table' = Rotate(table, a)
           /\ pte' = [pte EXCEPT ![a] = "present", ![b] = "PG"]
           /\ mem' = [mem EXCEPT ![b] = Zero, ![a] = ReadSwapFile(s)]
           /\ disk' = [disk EXCEPT ![s] = mem[b]]
           /\ swapVA' = [swapVA EXCEPT ![s] = b]
           /\ cow' = cow \ {b}
           /\ shared' = (shared \ {b}) \cup (IF b \in shared THEN {a} ELSE {})
           /\ UNCHANGED <<sz, stackSize, stopped, stray>>

NullFault == pte[0] = "none" /\ stop("killed")

isLackOfStackCapacity(a) == sz + 1 <= a /\ a < USERTOP - stackSize

StackFault(a) ==
  /\ pte[a] = "none" /\ a > 0
  /\ isLackOfStackCapacity(a)
  /\ LET top == USERTOP - stackSize - 1
     IN \/ (pte[top] = "present" \/ RecordPanics) /\ stop("panic")
        \/ /\ pte[top] # "present"
           /\ MapAndRecord(top)
           /\ stackSize' = stackSize + 1
           /\ UNCHANGED <<sz, stopped, stray>>

(* The other pages are allocated when touched, and not recorded. *)
LazyFault(a) ==
  /\ pte[a] = "none" /\ a > 0
  /\ ~isLackOfStackCapacity(a)
  /\ pte' = [pte EXCEPT ![a] = "present"]
  /\ mem' = [mem EXCEPT ![a] = Zero]
  /\ UNCHANGED <<table, swapVars, cow, shared, sz, stackSize, stopped, stray>>

(* sbrk(PGSIZE): growproc, then sz grows a second time in sys_sbrk unless  *)
(* that would come too close to the stack.                                 *)
SbrkGrow ==
  /\ sz + 1 <= heapLimit
  /\ \/ (pte[sz] = "present" \/ RecordPanics) /\ stop("panic")
     \/ /\ pte[sz] # "present"
        /\ MapAndRecord(sz)
        /\ sz' = IF sz + 2 > heapLimit THEN sz + 1 ELSE sz + 2
        /\ UNCHANGED <<stackSize, stopped, stray>>

(* sbrk(-PGSIZE).  deallocuvm counts a present page twice, and leaves      *)
(* PTE_PG in the page table when it forgets a page on disk.                *)
InMemoryTable(a) == {e \in Entry : table.va[e] = a}

(* growproc fails when the new size is 0, and sys_sbrk adds n once more.   *)
shrunk == IF sz = 1 THEN 1 ELSE sz - 2

SbrkShrink ==
  /\ sz >= 1
  /\ LET a == sz - 1
         e == CHOOSE i \in Entry : IsFirst(i, InMemoryTable(a))
         s == CHOOSE i \in DOMAIN swapVA : IsFirst(i, InSwapTable(a))
         recorded == InMemoryTable(a) # {} /\ Removable(table, e)
     IN \/ /\ pte[a] = "present" /\ recorded
           /\ table' = [RemoveFromMemoryList(table, e) EXCEPT !.num = @ - 1]
           /\ pte' = [pte EXCEPT ![a] = "none"]
           /\ mem' = [mem EXCEPT ![a] = Zero]
           /\ cow' = cow \ {a} /\ shared' = shared \ {a}
           /\ sz' = shrunk
           /\ UNCHANGED <<swapVars, stackSize, stopped, stray>>
        \/ /\ pte[a] = "PG"
           /\ InSwapTable(a) # {}
           /\ swapVA' = [swapVA EXCEPT ![s] = SLOT_USABLE]
           /\ sz' = shrunk
           /\ UNCHANGED <<table, disk, pte, frameVars, stackSize, stopped, stray>>
        \/ /\ pte[a] = "none"
           /\ sz' = shrunk
           /\ UNCHANGED <<table, swapVars, pte, frameVars, stackSize, stopped, stray>>
        \/ /\ \/ pte[a] = "present" /\ ~recorded
              \/ pte[a] = "PG" /\ InSwapTable(a) = {}
           /\ stop("panic")

(* The swap table that the last process of a slot left in it, a number of  *)
(* whole pages: neither exit nor allocproc clears it.                      *)
SwapTable ==
  UNION {[1..n -> LeftPage \cup {SLOT_USABLE}] :
           n \in {m \in 0..(SWAP_FILE_PAGES + SWAP_TABLE_ENTRY_NUM - 1) :
                    m % SWAP_TABLE_ENTRY_NUM = 0}}

(* CopyVirtualMemoryData copies the parent's swap table over the one left  *)
(* in the child's slot and keeps what is beyond it.                        *)
CopySwap(left, q, blank) ==
  [s \in DOMAIN left |-> IF s \in DOMAIN q THEN q[s] ELSE blank[s]]

(* fork, seen from the parent or from the child.  copyuvm panics on a page *)
(* that is not present, and CopyVirtualMemoryData follows a null pointer   *)
(* when the child's slot has fewer pages of swap table than the parent.    *)
Fork ==
  \/ /\ \E a \in Region : pte[a] # "present"
     /\ stop("panic")
  \/ \E left \in SwapTable :
        /\ \A a \in Region : pte[a] = "present"
        /\ Len(left) < Len(swapVA)
        /\ stop("panic")
  \/ /\ \A a \in Region : pte[a] = "present"
     /\ \/ UNCHANGED <<table, swapVars, pte, mem, stray>>
        \/ \E left \in SwapTable :
             /\ Len(left) >= Len(swapVA)
             /\ table' = CopyList(table)
             /\ swapVA' = CopySwap(left, swapVA, left)
             /\ disk' = CopySwap(left, disk, [s \in DOMAIN left |-> Zero])
             /\ pte' = [a \in Page |-> IF a \in Region THEN "present" ELSE "none"]
             /\ mem' = [a \in Page |-> IF a \in Region THEN mem[a] ELSE Zero]
             /\ stray' = (stray \/ \E s \in DOMAIN left \ DOMAIN swapVA :
                                      left[s] # SLOT_USABLE)
     /\ cow' = Region
     /\ shared' = Region
     /\ UNCHANGED <<sz, stackSize, stopped>>

(* exec loads another program of the same size.  It forgets the old tables *)
(* first; the swap files are made anew at the end.                         *)
Exec ==
  /\ table' = ExecTable
  /\ swapVA' = [s \in DOMAIN swapVA |-> SLOT_USABLE]
  /\ disk' = [s \in DOMAIN swapVA |-> Zero]
  /\ pte' = [a \in Page |-> IF a \in Image THEN "present" ELSE "none"]
  /\ mem' = [a \in Page |-> IF a \in TextPage THEN Text ELSE Zero]
  /\ cow' = {}
  /\ shared' = {}
  /\ sz' = TextPages + 1
  /\ stackSize' = 1
  /\ stray' = FALSE
  /\ UNCHANGED stopped

(* An exec that fails after it has cleared the tables: while it loads page *)
(* after page, at the stack's first page, or while it copies the           *)
(* arguments.  The new image is discarded, but the pages recorded for it   *)
(* stay in the table, and the old program runs on.                         *)
ExecFails ==
  /\ \/ \E n \in 0..TextPages : table' = Loading[n] /\ UNCHANGED stackSize
     \/ table' = Loading[TextPages] /\ stackSize' = 0
     \/ table' = ExecTable /\ stackSize' = 1
  /\ swapVA' = [s \in DOMAIN swapVA |-> SLOT_USABLE]
  /\ stray' = TRUE
  /\ UNCHANGED <<disk, pte, frameVars, sz, stopped>>

GrowNext ==
  /\ stopped = "no"
  /\ \/ \E a \in Page : \/ \E v \in Value : Store(a, v)
                        \/ SwapIn(a) \/ StackFault(a) \/ LazyFault(a)
     \/ NullFault \/ SbrkGrow \/ Fork \/ Exec \/ ExecFails

Next == GrowNext \/ (stopped = "no" /\ SbrkShrink)

(* A program whose break only grows. *)
GrowSpec == Init /\ [][GrowNext]_vars

Spec == Init /\ [][Next]_vars
-----------------------------------------------------------------------------
Used == Cardinality({e \in Entry : table.va[e] # SLOT_USABLE})

(* ListIsQueue: the FIFO list contains every used entry of the memory      *)
(* table once, Last is the inverse of Next, the tail pointer is its end    *)
(* and MemoryEntryNum its length, so neither GetMemoryListTail nor         *)
(* RecordInMemory can panic.                                               *)
ListIsQueue ==
  LET f == Follow(table)
  IN /\ \A e \in Entry : table.va[e] # SLOT_USABLE => \E n \in 0..(Used - 1) : f[n] = e
     /\ f[Used] = 0
     /\ \A n \in 1..(Used - 1) : table.last[f[n]] = f[n - 1]
     /\ table.last[table.head] = 0
     /\ table.tail = f[Used - 1]
     /\ table.num = Used

(* SwapIsExact: a page is marked PTE_PG exactly when the swap table has an *)
(* entry for it, and then it has one.                                      *)
SwapIsExact ==
  \A a \in Page : Cardinality(InSwapTable(a)) = (IF pte[a] = "PG" THEN 1 ELSE 0)

(* TablesAreExact: as long as the tables are the program's own, the memory *)
(* table is a queue of the resident pages, the swap table names the        *)
(* others, and the page table agrees with both.  They are not its own      *)
(* after an exec that failed halfway, nor in a child whose slot kept the   *)
(* swap table of an earlier process, until the next exec succeeds.         *)
TablesAreExact == ~stray => ListIsQueue /\ SwapIsExact

(* TablesStayExact: the same of every state, which is what RecordFile and  *)
(* SwapMemoryAndFile take for granted (vm.c: A record is in memstab but    *)
(* not in pgdir).                                                          *)
TablesStayExact == ListIsQueue /\ SwapIsExact

(* The recorded pages, oldest first. *)
Queue == LET f == Follow(table)
         IN [i \in 1..Used |-> table.va[f[Used - i]]]

(* TailIsOldest: MemoryListTail is the end of the list, the page that has  *)
(* been in memory longest (README 2.6.1, the tail has the lowest priority  *)
(* and is swapped out first).                                              *)
TailIsOldest ==
  table.head # 0 => \E n \in DOMAIN Follow(table) :
                      Follow(table)[n] = table.tail /\ table.next[table.tail] = 0

(* EvictsOldest: replacement is first in, first out (README 2.6.1): a page *)
(* enters at the end of the queue, and the only page that ever leaves it,  *)
(* to the swap files, is the one that has been in memory longest.  An exec *)
(* starts a queue of its own, and one that fails halfway breaks the order. *)
FifoStep ==
  \/ Queue' = Queue
  \/ \E a \in Page : /\ pte'[a] = "present"
                     /\ \/ Queue' = Append(Queue, a)
                        \/ /\ Queue' = Append(Tail(Queue), a)
                           /\ pte'[Head(Queue)] = "PG"

EvictsOldest == [][~stray' => table' = ExecTable \/ FifoStep]_vars

View == [p \in {Self} |-> [a \in Page |->
          CASE pte[a] = "present" -> mem[a]
            [] pte[a] = "PG" /\ InSwapTable(a) # {} ->
                 disk[CHOOSE s \in DOMAIN swapVA : IsFirst(s, InSwapTable(a))]
            [] OTHER -> Zero]]

PM == INSTANCE PrivateMemory WITH
        Proc <- {Self}, InitProc <- Self, StackPage <- USERTOP - 1,
        live <- {Self}, region <- [p \in {Self} |-> Region], space <- View

(* PagingIsInvisible: eviction, swap in and lazy allocation never change   *)
(* what the program reads.  A page changes only by the program's store to  *)
(* that page, and then to the value stored; sbrk, stack growth and fork    *)
(* keep every page of heap and stack; exec gives a new image.  So a page   *)
(* that comes back from the swap files has the value stored last.          *)
PagingStep ==
  \/ UNCHANGED PM!pmVars
  \/ \E a \in Page, v \in Value : Store(a, v) /\ PM!PMStore(Self, a, v)
  \/ (SbrkGrow \/ Fork \/ \E a \in Page : StackFault(a)) /\ PM!PMResize(Self)
  \/ Exec /\ PM!PMExec(Self)

PagingIsInvisible == PM!PMInit /\ [][~stray' => PagingStep]_vars

(* SwappedInIsPrivate: a page the process can write without a fault is in  *)
(* a frame nobody else uses, also when SwapMemoryAndFile put it there      *)
(* (README 2.3.2, one process's changes do not affect another's use).      *)
SwappedInIsPrivate == shared \subseteq cow
=============================================================================
