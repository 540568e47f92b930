----------------------- MODULE CopyOnWriteInvariant -------------------------
(* The inductive invariant of module CopyOnWrite, and the proofs that every *)
(* step preserves its parts about types, about who owns which directory and *)
(* about who holds a frame: a step of a process is confined to its own      *)
(* tables and to frames nobody else holds, so free frames stay unused and a *)
(* frame with one reference stays private.  From that follows what user     *)
(* programs see: what the kernel does for a process changes only memory     *)
(* that no other process sees.  The counts are in CopyOnWriteProofs.        *)
EXTENDS CopyOnWrite, TLAPS

-----------------------------------------------------------------------------
(* The inductive invariant. *)

Builders == {"fork", "forkInc", "forkFree", "exec", "free"}
Forkers == {"fork", "forkInc", "forkFree"}

(* A directory has one owner: the process that runs on it, or the one that *)
(* builds or frees it.                                                     *)
DirOwned ==
  /\ \A p \in Proc : state[p] \in {"RUNNABLE", "ZOMBIE"} <=> pgdir[p] # None
  /\ \A p \in Proc : pc[p] # "user" => state[p] = "RUNNABLE"
  /\ \A p \in Proc : pc[p] \in Builders <=> dir[p] # None
  /\ \A p, q \in Proc : pgdir[p] # None /\ pgdir[p] = pgdir[q] => p = q
  /\ \A p, q \in Proc : dir[p] # None /\ dir[p] = dir[q] => p = q
  /\ \A p, q \in Proc : dir[p] # None => dir[p] # pgdir[q]

(* fork owns the slot of the child it builds. *)
ChildOwned ==
  /\ \A p \in Proc : pc[p] \in Forkers =>
       child[p] \in Proc /\ state[child[p]] = "EMBRYO"
  /\ \A p, q \in Proc :
       pc[p] \in Forkers /\ pc[q] \in Forkers /\ child[p] = child[q] => p = q

(* A directory nobody owns is empty. *)
UnownedIsEmpty ==
  \A d \in Pgdir : (\A p \in Proc : pgdir[p] # d /\ dir[p] # d) =>
    \A a \in Page : pte[d][a] = None

(* copyuvm has not touched the pages of the child it has still to visit.   *)
ForkAhead ==
  \A p \in Proc : pc[p] \in {"fork", "forkInc"} =>
    \A a \in todo[p] : (pc[p] = "forkInc" /\ a = va[p]) \/ pte[dir[p]][a] = None

(* Neither has exec. *)
ExecAhead ==
  \A p \in Proc : pc[p] = "exec" =>
    /\ \A a \in todo[p] : a <= TextPages /\ pte[dir[p]][a] = None
    /\ pte[dir[p]][USERTOP - 1] = None

EmptyWhereUnused == UnownedIsEmpty /\ ForkAhead /\ ExecAhead

(* PTE_W is set on present pages only. *)
WritableIsMapped == \A d \in Pgdir : \A a \in writable[d] : pte[d][a] # None

(* What PageFault and copyuvm have established about the page they are at. *)
ThreadInv ==
  /\ \A p \in Proc : pc[p] = "forkInc" =>
       /\ pte[dir[p]][va[p]] = pte[pgdir[p]][va[p]]
       /\ pte[pgdir[p]][va[p]] # None
       /\ va[p] \notin writable[pgdir[p]]
       /\ va[p] \notin writable[dir[p]]
  /\ \A p \in Proc : pc[p] \in {"cow", "copy"} =>
       pte[pgdir[p]][va[p]] # None /\ va[p] \notin writable[pgdir[p]]
  /\ \A p \in Proc : pc[p] \in {"copy", "dec"} => fr[p] \in Frame

(* The page about to be mapped by PageFault is nobody else's. *)
CopyIsFresh ==
  \A p \in Proc : pc[p] = "copy" =>
    /\ \A d \in Pgdir, a \in Page : pte[d][a] # fr[p]
    /\ \A q \in Proc : pc[q] \in {"copy", "dec"} /\ fr[q] = fr[p] => q = p

(* A count of 1 read by PageFault stays a licence to write until it is     *)
(* used, whatever other processes do in between.                           *)
OneMeansPrivate ==
  \A p \in Proc : pc[p] = "cow" /\ cnt[p] = 1 =>
    \A e \in Pgdir, b \in Page :
      pte[e][b] = pte[pgdir[p]][va[p]] => e = pgdir[p] /\ b = va[p]

IInv ==
  /\ TypeOK
  /\ DirOwned
  /\ ChildOwned
  /\ EmptyWhereUnused
  /\ WritableIsMapped
  /\ ThreadInv
  /\ CopyIsFresh
  /\ OneMeansPrivate
  /\ CountIsExact
  /\ WritableIsPrivate
  /\ FreeIsUnused

-----------------------------------------------------------------------------
(* Facts every preservation proof starts from. *)

(* A step that changes nothing. *)
LEMMA StutterIInv ==
  ASSUME IInv, UNCHANGED vars
  PROVE  IInv'
<1>1. /\ UNCHANGED <<freelist, refCount, PhysicalPageTotal, kheld, lost, mem>>
      /\ UNCHANGED <<pte, writable, state, pgdir, sz, stackSize, killed, panicked>>
      /\ UNCHANGED <<pc, va, cnt, fr, dir, child, todo>>
  BY Zenon DEF vars, frameVars, tableVars, procVars, threadVars
<1>2. TypeOK'
  BY <1>1, Zenon DEF IInv, TypeOK
<1>3. DirOwned' /\ ChildOwned'
  BY <1>1 DEF IInv, DirOwned, ChildOwned, Builders, Forkers
<1>4. EmptyWhereUnused'
  BY <1>1, Zenon DEF IInv, EmptyWhereUnused, UnownedIsEmpty, ForkAhead, ExecAhead
<1>5. WritableIsMapped' /\ ThreadInv' /\ CopyIsFresh' /\ OneMeansPrivate'
  BY <1>1 DEF IInv, WritableIsMapped, ThreadInv, CopyIsFresh, OneMeansPrivate
<1>6. CountIsExact'
  BY <1>1 DEF IInv, CountIsExact, MapRefs, Uncounted, FaultRefs, KernelRefs
<1>7. WritableIsPrivate' /\ FreeIsUnused'
  BY <1>1 DEF IInv, WritableIsPrivate, FreeIsUnused
<1>8. QED
  BY <1>2, <1>3, <1>4, <1>5, <1>6, <1>7, Zenon DEF IInv

(* The types of the variables that say who owns which directory. *)
LEMMA OwnerTypes ==
  ASSUME TypeOK
  PROVE  /\ state \in [Proc -> {"UNUSED", "EMBRYO", "RUNNABLE", "ZOMBIE"}]
         /\ pgdir \in [Proc -> Pgdir \cup {None}]
         /\ dir \in [Proc -> Pgdir \cup {None}]
         /\ child \in [Proc -> Proc \cup {None}]
         /\ pc \in [Proc -> PC]
         /\ todo \in [Proc -> SUBSET Page]
BY Zenon DEF TypeOK

(* The types of the variables that say where frames are mapped. *)
LEMMA TableTypes ==
  ASSUME TypeOK
  PROVE  /\ pte \in [Pgdir -> [Page -> Frame \cup {None}]]
         /\ writable \in [Pgdir -> SUBSET Page]
         /\ pgdir \in [Proc -> Pgdir \cup {None}]
         /\ dir \in [Proc -> Pgdir \cup {None}]
         /\ pc \in [Proc -> PC]
         /\ va \in [Proc -> Page]
         /\ fr \in [Proc -> Frame \cup {None}]
         /\ cnt \in [Proc -> 0..UINT_MAX]
BY Zenon DEF TypeOK

(* The types of the variables of the allocator. *)
LEMMA FrameTypes ==
  ASSUME TypeOK
  PROVE  /\ freelist \in Seq(Frame)
         /\ refCount \in [Frame -> 0..UINT_MAX]
         /\ PhysicalPageTotal \in Int
         /\ kheld \in SUBSET Frame
         /\ lost \in SUBSET Frame
         /\ mem \in [Frame -> Value]
BY Zenon DEF TypeOK

(* A process in the kernel has a directory, and a builder has a second one. *)
LEMMA OwnsDirs ==
  ASSUME IInv, NEW p \in Proc
  PROVE  /\ pc[p] # "user" => pgdir[p] \in Pgdir
         /\ state[p] \in {"RUNNABLE", "ZOMBIE"} => pgdir[p] \in Pgdir
         /\ pc[p] \in Builders => dir[p] \in Pgdir
BY OwnerTypes DEF IInv, DirOwned

(* A frame that kalloc hands out has no holder, and the rest of the list   *)
(* does not contain it.                                                    *)
LEMMA KallocFresh ==
  ASSUME IInv, NEW f \in Frame, freelist # <<>>, f = Head(freelist),
         freelist' = Tail(freelist)
  PROVE  /\ \A d \in Pgdir, a \in Page : pte[d][a] # f
         /\ \A p \in Proc : pc[p] \in {"copy", "dec"} => fr[p] # f
         /\ f \notin kheld \cup lost
         /\ freelist' \in Seq(Frame)
         /\ Len(freelist') = Len(freelist) - 1
         /\ \A i \in 1..Len(freelist') :
              /\ i + 1 \in 1..Len(freelist)
              /\ freelist'[i] = freelist[i + 1]
              /\ freelist'[i] # f
<1>1. freelist \in Seq(Frame) /\ Len(freelist) \in Nat /\ Len(freelist) >= 1
      /\ f = freelist[1]
  BY FrameTypes DEF IInv
<1>2. 1 \in 1..Len(freelist)
  BY <1>1
<1>3. /\ freelist' \in Seq(Frame)
      /\ Len(freelist') = Len(freelist) - 1
      /\ \A i \in 1..Len(freelist') :
           i + 1 \in 1..Len(freelist) /\ freelist'[i] = freelist[i + 1]
  BY <1>1
<1>4. \A i \in 1..Len(freelist') : freelist'[i] # f
  BY <1>1, <1>2, <1>3 DEF IInv, FreeIsUnused
<1>5. QED
  BY <1>1, <1>2, <1>3, <1>4 DEF IInv, FreeIsUnused

(* The entry freevm releases is one it has found present. *)
LEMMA FirstIsMapped ==
  ASSUME NEW d, NEW a, IsFirst(a, Mapped(d))
  PROVE  a \in Page /\ pte[d][a] # None
BY Zenon DEF IsFirst, Mapped

(* The page stackGrow maps is a page of the user range. *)
LEMMA StackGrowsInRange ==
  ASSUME TypeOK, NEW p \in Proc, NEW a \in Page, isLackOfStackCapacity(p, a)
  PROVE  /\ USERTOP - stackSize[p] - 1 \in Page
         /\ stackSize[p] + 1 \in 0..USERTOP
<1>1. /\ USERTOP \in Nat /\ sz[p] \in 0..USERTOP /\ stackSize[p] \in 0..USERTOP
      /\ a \in Nat
  BY MemoryAssumption DEF TypeOK, Page
<1>2. QED
  BY <1>1 DEF isLackOfStackCapacity, Page

-----------------------------------------------------------------------------
(* Types. *)

(* kalloc and kfree keep the allocator's types. *)
LEMMA AllocatorTypes ==
  ASSUME TypeOK, NEW f \in Frame
  PROVE  /\ kalloc(f) \/ kallocAndFree(f) \/ kfree(f) =>
              /\ freelist' \in Seq(Frame)
              /\ refCount' \in [Frame -> 0..UINT_MAX]
              /\ PhysicalPageTotal' \in Int
         /\ increasePhysicalPageRefCountByOne(f)
              \/ decreasePhysicalPageRefCountByOne(f) =>
                refCount' \in [Frame -> 0..UINT_MAX]
<1>1. UINT_MAX \in Nat /\ UINT_MAX >= 1
  BY CountAssumption
<1>2. ASSUME kalloc(f) PROVE freelist' \in Seq(Frame)
      /\ refCount' \in [Frame -> 0..UINT_MAX] /\ PhysicalPageTotal' \in Int
  BY <1>1, <1>2, FrameTypes DEF kalloc
<1>3. ASSUME kallocAndFree(f) PROVE freelist' \in Seq(Frame)
      /\ refCount' \in [Frame -> 0..UINT_MAX] /\ PhysicalPageTotal' \in Int
  BY <1>1, <1>3, FrameTypes DEF kallocAndFree
<1>4. ASSUME kfree(f) PROVE freelist' \in Seq(Frame)
      /\ refCount' \in [Frame -> 0..UINT_MAX] /\ PhysicalPageTotal' \in Int
  <2>1. CASE refCount[f] > 0
    BY <1>1, <1>4, <2>1, FrameTypes DEF kfree
  <2>2. CASE refCount[f] = 0
    <3>1. <<f>> \o freelist \in Seq(Frame)
      BY FrameTypes
    <3>2. /\ freelist' = <<f>> \o freelist
          /\ PhysicalPageTotal' = PhysicalPageTotal - 1
          /\ refCount' = refCount
      BY <1>4, <2>2 DEF kfree
    <3>3. QED
      BY <3>1, <3>2, FrameTypes
  <2>3. QED
    BY <2>1, <2>2, FrameTypes
<1>5. ASSUME increasePhysicalPageRefCountByOne(f)
             \/ decreasePhysicalPageRefCountByOne(f)
      PROVE  refCount' \in [Frame -> 0..UINT_MAX]
  <2>1. refCount[f] \in 0..UINT_MAX /\ refCount \in [Frame -> 0..UINT_MAX]
    BY FrameTypes, Zenon
  <2>2. /\ refCount[f] # UINT_MAX => refCount[f] + 1 \in 0..UINT_MAX
        /\ refCount[f] # 0 => refCount[f] - 1 \in 0..UINT_MAX
        /\ 0 \in 0..UINT_MAX /\ UINT_MAX \in 0..UINT_MAX
    BY <1>1, <2>1
  <2>3. PICK n \in 0..UINT_MAX : refCount' = [refCount EXCEPT ![f] = n]
    BY <1>5, <2>1, <2>2, Zenon
       DEF increasePhysicalPageRefCountByOne, decreasePhysicalPageRefCountByOne
  <2>4. QED
    BY <2>1, <2>3, Zenon
<1>6. QED
  BY <1>2, <1>3, <1>4, <1>5, Zenon

(* Mapping or unmapping one page keeps the types of the tables. *)
LEMMA MapFrameTypes ==
  ASSUME TypeOK, NEW d \in Pgdir, NEW a \in Page, NEW f \in Frame \cup {None},
         NEW w \in BOOLEAN, MapFrame(d, a, f, w)
  PROVE  /\ pte' \in [Pgdir -> [Page -> Frame \cup {None}]]
         /\ writable' \in [Pgdir -> SUBSET Page]
BY TableTypes, Zenon DEF MapFrame

(* A page of a zombie or of a half-built directory that freevm releases.   *)
LEMMA ReleaseTypes ==
  ASSUME TypeOK, NEW d \in Pgdir, NEW a \in Page, pte[d][a] # None,
         ReleasePage(d, a)
  PROVE  /\ freelist' \in Seq(Frame)
         /\ refCount' \in [Frame -> 0..UINT_MAX]
         /\ PhysicalPageTotal' \in Int
         /\ pte' \in [Pgdir -> [Page -> Frame \cup {None}]]
         /\ writable' \in [Pgdir -> SUBSET Page]
<1>1. pte[d][a] \in Frame
  BY TableTypes
<1>2. QED
  BY <1>1, AllocatorTypes, MapFrameTypes, Zenon DEF ReleasePage

(* A handler that returns keeps the types of its local variables. *)
LEMMA IdleTypes ==
  ASSUME TypeOK, NEW p \in Proc, Idle(p)
  PROVE  /\ pc' \in [Proc -> PC]
         /\ va' \in [Proc -> Page]
         /\ cnt' \in [Proc -> 0..UINT_MAX]
         /\ fr' \in [Proc -> Frame \cup {None}]
         /\ dir' \in [Proc -> Pgdir \cup {None}]
         /\ child' \in [Proc -> Proc \cup {None}]
         /\ todo' \in [Proc -> SUBSET Page]
<1>1. 0 \in Page /\ "user" \in PC
  BY MemoryAssumption DEF Page, PC
<1>2. 0 \in 0..UINT_MAX
  BY CountAssumption
<1>3. QED
  BY <1>1, <1>2, OwnerTypes, TableTypes, Zenon DEF Idle

(* TypeOK is preserved by every step. *)
LEMMA TypeOKStep ==
  ASSUME IInv, Next
  PROVE  TypeOK'
<1> USE DEF TypeOK
<1>0. TypeOK /\ USERTOP \in Nat /\ TextPages \in Nat /\ TextPages + 3 <= USERTOP
      /\ Zero \in Value /\ Text \in Value
  BY MemoryAssumption, Zenon DEF IInv
<1>1. ASSUME NEW p \in Proc, NEW a \in Page, NEW v \in Value, Store(p, a, v)
      PROVE  TypeOK'
  BY <1>0, <1>1, Zenon DEF Store, tableVars, procVars, threadVars
<1>2. ASSUME NEW p \in Proc, NullFault(p) PROVE TypeOK'
  BY <1>0, <1>2, Zenon DEF NullFault, kill, frameVars, tableVars, threadVars
<1>3. ASSUME NEW p \in Proc, NEW a \in Page, StackFault(p, a) PROVE TypeOK'
  <2>1. /\ USERTOP - stackSize[p] - 1 \in Page
        /\ stackSize[p] + 1 \in 0..USERTOP
        /\ pgdir[p] \in Pgdir
    BY <1>0, <1>3, OwnsDirs, StackGrowsInRange, Zenon DEF StackFault, AtPage, InUser
  <2>2. ASSUME NEW f \in Frame, stackGrow(p, f) PROVE TypeOK'
    <3>1. /\ pte' \in [Pgdir -> [Page -> Frame \cup {None}]]
          /\ writable' \in [Pgdir -> SUBSET Page]
      BY <1>0, <2>1, <2>2, MapFrameTypes, Zenon DEF stackGrow
    <3>2. QED
      BY <1>0, <1>3, <2>1, <2>2, <3>1, AllocatorTypes, Zenon
         DEF StackFault, stackGrow, threadVars
  <2>3. ASSUME NEW f \in Frame, stackGrowRemap(p, f) PROVE TypeOK'
    BY <1>0, <1>3, <2>3, AllocatorTypes, Zenon
       DEF StackFault, stackGrowRemap, panic, tableVars, threadVars
  <2>4. ASSUME stackGrowFails(p) PROVE TypeOK'
    BY <1>0, <1>3, <2>4, AllocatorTypes, Zenon
       DEF StackFault, stackGrowFails, kill, frameVars, tableVars, threadVars
  <2>5. QED
    BY <1>3, <2>2, <2>3, <2>4, Zenon DEF StackFault
<1>4. ASSUME NEW p \in Proc, NEW a \in Page, LazyFault(p, a) PROVE TypeOK'
  <2>1. pgdir[p] \in Pgdir
    BY <1>4, OwnsDirs, Zenon DEF LazyFault, AtPage, InUser
  <2>2. CASE kallocFails /\ kill(p) /\ UNCHANGED <<frameVars, tableVars>>
    BY <1>0, <1>4, <2>2, Zenon DEF LazyFault, kill, frameVars, tableVars, threadVars
  <2>3. ASSUME NEW f \in Frame, kalloc(f), mem' = [mem EXCEPT ![f] = Zero],
               MapFrame(pgdir[p], a, f, TRUE), UNCHANGED <<killed, lost, kheld>>
        PROVE  TypeOK'
    <3>1. /\ pte' \in [Pgdir -> [Page -> Frame \cup {None}]]
          /\ writable' \in [Pgdir -> SUBSET Page]
      BY <1>0, <2>1, <2>3, MapFrameTypes, Zenon
    <3>2. QED
      BY <1>0, <1>4, <2>3, <3>1, AllocatorTypes, Zenon DEF LazyFault, threadVars
  <2>4. ASSUME NEW f \in Frame, kalloc(f), mem' = [mem EXCEPT ![f] = Zero],
               lost' = lost \cup {f}, kill(p), UNCHANGED <<tableVars, kheld>>
        PROVE  TypeOK'
    BY <1>0, <1>4, <2>4, AllocatorTypes, Zenon DEF LazyFault, kill, tableVars, threadVars
  <2>5. QED
    BY <1>4, <2>2, <2>3, <2>4, Zenon DEF LazyFault
<1>5. ASSUME NEW p \in Proc, NEW a \in Page, FaultCount(p, a) PROVE TypeOK'
  <2>1. pgdir[p] \in Pgdir /\ pte[pgdir[p]][a] \in Frame
    BY <1>0, <1>5, OwnsDirs DEF FaultCount, AtPage, InUser
  <2>2. "cow" \in PC /\ refCount[pte[pgdir[p]][a]] \in 0..UINT_MAX
    BY <1>0, <2>1, Zenon DEF PC
  <2>3. CASE panic /\ UNCHANGED threadVars
    BY <1>0, <1>5, <2>3, Zenon DEF FaultCount, panic, frameVars, tableVars, threadVars
  <2>4. CASE /\ pc' = [pc EXCEPT ![p] = "cow"]
             /\ va' = [va EXCEPT ![p] = a]
             /\ cnt' = [cnt EXCEPT ![p] = refCount[pte[pgdir[p]][a]]]
             /\ UNCHANGED <<panicked, fr, dir, child, todo>>
    BY <1>0, <1>5, <2>2, <2>4, Zenon DEF FaultCount, frameVars, tableVars
  <2>5. QED
    BY <1>5, <2>3, <2>4, Zenon DEF FaultCount
<1>6. ASSUME NEW p \in Proc, CowReuse(p) PROVE TypeOK'
  <2>1. pgdir[p] \in Pgdir /\ va[p] \in Page
    BY <1>0, <1>6, OwnsDirs, Zenon DEF CowReuse
  <2>2. QED
    BY <1>0, <1>6, <2>1, IdleTypes, Zenon DEF CowReuse, frameVars, procVars
<1>7. ASSUME NEW p \in Proc, CowAlloc(p) PROVE TypeOK'
  <2>1. CASE kill(p) /\ Idle(p) /\ UNCHANGED frameVars
    BY <1>0, <1>7, <2>1, IdleTypes, Zenon DEF CowAlloc, kill, frameVars, tableVars
  <2>2. ASSUME NEW f \in Frame, kalloc(f), pc' = [pc EXCEPT ![p] = "copy"],
               fr' = [fr EXCEPT ![p] = f],
               UNCHANGED <<kheld, lost, mem, killed, va, cnt, dir, child, todo>>
        PROVE  TypeOK'
    <3>1. /\ freelist' \in Seq(Frame) /\ refCount' \in [Frame -> 0..UINT_MAX]
          /\ PhysicalPageTotal' \in Int
      BY <1>0, <2>2, AllocatorTypes, Zenon
    <3>2. pc' \in [Proc -> PC] /\ fr' \in [Proc -> Frame \cup {None}]
      BY <1>0, <2>2, Zenon DEF PC
    <3>3. UNCHANGED <<tableVars, state, pgdir, sz, stackSize, panicked>>
      BY <1>7, Zenon DEF CowAlloc
    <3>4. QED
      BY <1>0, <2>2, <3>1, <3>2, <3>3, Zenon DEF tableVars
  <2>3. QED
    BY <1>7, <2>1, <2>2, Zenon DEF CowAlloc
<1>8. ASSUME NEW p \in Proc, CowCopy(p) PROVE TypeOK'
  <2>1. /\ pgdir[p] \in Pgdir /\ va[p] \in Page /\ fr[p] \in Frame
        /\ pte[pgdir[p]][va[p]] \in Frame
    <3>1. pc[p] = "copy"
      BY <1>8, Zenon DEF CowCopy
    <3>2. fr[p] \in Frame /\ pte[pgdir[p]][va[p]] # None
      BY <3>1, Zenon DEF IInv, ThreadInv
    <3>3. pgdir[p] \in Pgdir /\ va[p] \in Page
      BY <1>0, <3>1, OwnsDirs, Zenon
    <3>4. QED
      BY <3>2, <3>3, TableTypes, <1>0
  <2>2. QED
    BY <1>0, <1>8, <2>1, MapFrameTypes, Zenon DEF CowCopy, PC, procVars
<1>9. ASSUME NEW p \in Proc, CowDecrease(p) PROVE TypeOK'
  <2>1. fr[p] \in Frame
    BY <1>9, Zenon DEF CowDecrease, IInv, ThreadInv
  <2>2. QED
    BY <1>0, <1>9, <2>1, AllocatorTypes, IdleTypes, Zenon
       DEF CowDecrease, tableVars, procVars
<1>10. ASSUME NEW p \in Proc, SbrkGrow(p) PROVE TypeOK'
  <2>1. /\ pgdir[p] \in Pgdir
        /\ sz[p] \in Page
        /\ (IF sz[p] + 2 > heapLimit(p) THEN sz[p] + 1 ELSE sz[p] + 2) \in 0..USERTOP
    BY <1>0, <1>10, OwnsDirs DEF SbrkGrow, InUser, heapLimit, Page
  <2>2. ASSUME NEW f \in Frame, kalloc(f), MapFrame(pgdir[p], sz[p], f, TRUE),
               mem' = [mem EXCEPT ![f] = Zero],
               sz' = [sz EXCEPT ![p] = IF @ + 2 > heapLimit(p) THEN @ + 1 ELSE @ + 2],
               UNCHANGED <<lost, panicked>>
        PROVE  TypeOK'
    <3>1. /\ pte' \in [Pgdir -> [Page -> Frame \cup {None}]]
          /\ writable' \in [Pgdir -> SUBSET Page]
      BY <1>0, <2>1, <2>2, MapFrameTypes, Zenon
    <3>2. QED
      BY <1>0, <1>10, <2>1, <2>2, <3>1, AllocatorTypes, Zenon DEF SbrkGrow, threadVars
  <2>3. ASSUME NEW f \in Frame, kalloc(f), panic, lost' = lost \cup {f},
               UNCHANGED <<mem, tableVars, sz>>
        PROVE  TypeOK'
    BY <1>0, <1>10, <2>3, AllocatorTypes, Zenon DEF SbrkGrow, panic, tableVars, threadVars
  <2>4. ASSUME NEW f \in Frame, kallocAndFree(f),
               UNCHANGED <<lost, mem, tableVars, sz, panicked>>
        PROVE  TypeOK'
    BY <1>0, <1>10, <2>4, AllocatorTypes, Zenon DEF SbrkGrow, tableVars, threadVars
  <2>5. QED
    BY <1>10, <2>2, <2>3, <2>4, Zenon DEF SbrkGrow
<1>11. ASSUME NEW p \in Proc, SbrkShrink(p) PROVE TypeOK'
  <2>1. /\ pgdir[p] \in Pgdir
        /\ sz[p] - 1 \in Page
        /\ (IF sz[p] = 1 THEN 1 ELSE sz[p] - 2) \in 0..USERTOP
    BY <1>0, <1>11, OwnsDirs DEF SbrkShrink, shrunk, InUser, Page
  <2>2. /\ freelist' \in Seq(Frame)
        /\ refCount' \in [Frame -> 0..UINT_MAX]
        /\ PhysicalPageTotal' \in Int
        /\ pte' \in [Pgdir -> [Page -> Frame \cup {None}]]
        /\ writable' \in [Pgdir -> SUBSET Page]
    BY <1>0, <1>11, <2>1, ReleaseTypes, Zenon DEF SbrkShrink, tableVars
  <2>3. QED
    BY <1>0, <1>11, <2>1, <2>2, Zenon DEF SbrkShrink, shrunk, threadVars
<1>26. ASSUME NEW p \in Proc, SbrkFails(p) PROVE TypeOK'
  <2>1. /\ pgdir[p] \in Pgdir
        /\ UNCHANGED <<kheld, lost, mem, state, pgdir, sz, stackSize, killed, threadVars>>
    BY <1>26, OwnsDirs, Zenon DEF SbrkFails, InUser
  <2>2. CASE UNCHANGED <<freelist, refCount, PhysicalPageTotal, tableVars>> /\ panic
    BY <1>0, <2>1, <2>2, Zenon DEF panic, tableVars, threadVars
  <2>3. CASE /\ sz[p] + 1 <= heapLimit(p) /\ pte[pgdir[p]][sz[p]] # None
             /\ ReleasePage(pgdir[p], sz[p]) /\ UNCHANGED panicked
    <3>1. sz[p] \in Page
      BY <1>0, <2>3, MemoryAssumption DEF heapLimit, Page
    <3>2. /\ freelist' \in Seq(Frame)
          /\ refCount' \in [Frame -> 0..UINT_MAX]
          /\ PhysicalPageTotal' \in Int
          /\ pte' \in [Pgdir -> [Page -> Frame \cup {None}]]
          /\ writable' \in [Pgdir -> SUBSET Page]
      BY <1>0, <2>1, <2>3, <3>1, ReleaseTypes, Zenon
    <3>3. QED
      BY <1>0, <2>1, <2>3, <3>2, Zenon DEF threadVars
  <2>4. QED
    BY <1>26, <2>2, <2>3, Zenon DEF SbrkFails
<1>27. ASSUME NEW p \in Proc, ExecBad(p) PROVE TypeOK'
  <2>1. "free" \in PC
    BY Zenon DEF PC
  <2>2. QED
    BY <1>0, <1>27, <2>1, Zenon DEF ExecBad, frameVars, tableVars, procVars
<1>12. ASSUME NEW p \in Proc, NEW c \in Proc, NEW d \in Pgdir, ForkStart(p, c, d)
       PROVE  TypeOK'
  <2>1. Region(p) \subseteq Page /\ "fork" \in PC
    BY Zenon DEF Region, PC
  <2>2. QED
    BY <1>0, <1>12, <2>1, Zenon DEF ForkStart, frameVars, tableVars
<1>13. ASSUME NEW p \in Proc, NEW a \in Page, ForkMap(p, a) PROVE TypeOK'
  <2>1. /\ pgdir[p] \in Pgdir /\ dir[p] \in Pgdir
        /\ pte[pgdir[p]][a] \in Frame \cup {None}
        /\ "forkInc" \in PC /\ "forkFree" \in PC
    BY <1>0, <1>13, OwnsDirs DEF ForkMap, PC, Builders
  <2>2. CASE panic /\ UNCHANGED <<tableVars, pc, va>>
    BY <1>0, <1>13, <2>2, Zenon DEF ForkMap, panic, frameVars, tableVars
  <2>3. CASE /\ pte' = [pte EXCEPT ![dir[p]][a] = pte[pgdir[p]][a]]
             /\ writable' = [writable EXCEPT ![pgdir[p]] = @ \ {a}]
             /\ pc' = [pc EXCEPT ![p] = "forkInc"]
             /\ va' = [va EXCEPT ![p] = a]
             /\ UNCHANGED panicked
    <3>1. pte' \in [Pgdir -> [Page -> Frame \cup {None}]]
      BY <1>0, <2>1, <2>3, Zenon
    <3>2. QED
      BY <1>0, <1>13, <2>1, <2>3, <3>1, Zenon DEF ForkMap, frameVars
  <2>4. CASE /\ writable' = [writable EXCEPT ![pgdir[p]] = @ \ {a}]
             /\ pc' = [pc EXCEPT ![p] = "forkFree"]
             /\ UNCHANGED <<pte, va, panicked>>
    BY <1>0, <1>13, <2>1, <2>4 DEF ForkMap, frameVars
  <2>5. QED
    BY <1>13, <2>2, <2>3, <2>4, Zenon DEF ForkMap
<1>14. ASSUME NEW p \in Proc, ForkIncrease(p) PROVE TypeOK'
  <2>1. pte[pgdir[p]][va[p]] \in Frame /\ "fork" \in PC /\ 0 \in Page
    <3>1. pc[p] = "forkInc" /\ "fork" \in PC /\ 0 \in Page
      BY <1>0, <1>14 DEF ForkIncrease, PC, Page
    <3>2. pte[pgdir[p]][va[p]] # None
      BY <3>1, Zenon DEF IInv, ThreadInv
    <3>3. pgdir[p] \in Pgdir /\ va[p] \in Page
      BY <1>0, <3>1, OwnsDirs, Zenon
    <3>4. QED
      BY <3>1, <3>2, <3>3, TableTypes, <1>0
  <2>2. QED
    <3>1. refCount' \in [Frame -> 0..UINT_MAX]
      BY <1>0, <1>14, <2>1, AllocatorTypes, Zenon DEF ForkIncrease
    <3>2. /\ pc' \in [Proc -> PC] /\ todo' \in [Proc -> SUBSET Page]
          /\ va' \in [Proc -> Page]
      BY <1>0, <1>14, <2>1, Zenon DEF ForkIncrease
    <3>3. UNCHANGED <<freelist, PhysicalPageTotal, kheld, lost, mem, tableVars, procVars,
                      cnt, fr, dir, child>>
      BY <1>14, Zenon DEF ForkIncrease
    <3>4. QED
      BY <1>0, <3>1, <3>2, <3>3, Zenon DEF tableVars, procVars
<1>15. ASSUME NEW p \in Proc, ForkDone(p) PROVE TypeOK'
  <2>1. child[p] \in Proc
    BY <1>15, Zenon DEF ForkDone, IInv, ChildOwned, Forkers
  <2>2. QED
    BY <1>0, <1>15, <2>1, IdleTypes, Zenon DEF ForkDone, frameVars, tableVars
<1>16. ASSUME NEW p \in Proc, ForkFree(p) PROVE TypeOK'
  <2>1. child[p] \in Proc /\ dir[p] \in Pgdir
    BY <1>16, OwnsDirs, Zenon DEF ForkFree, IInv, ChildOwned, Forkers, Builders
  <2>2. ASSUME NEW a \in Page, IsFirst(a, Mapped(dir[p])), ReleasePage(dir[p], a),
               UNCHANGED <<state, threadVars>>
        PROVE  TypeOK'
    <3>1. pte[dir[p]][a] # None
      BY <2>2, Zenon DEF IsFirst, Mapped
    <3>2. QED
      BY <1>0, <1>16, <2>1, <2>2, <3>1, ReleaseTypes, Zenon DEF ForkFree, threadVars
  <2>3. CASE /\ state' = [state EXCEPT ![child[p]] = "UNUSED"]
             /\ Idle(p)
             /\ UNCHANGED <<freelist, refCount, PhysicalPageTotal, tableVars>>
    BY <1>0, <1>16, <2>1, <2>3, IdleTypes, Zenon DEF ForkFree, tableVars
  <2>4. QED
    BY <1>16, <2>2, <2>3, Zenon DEF ForkFree
<1>17. ASSUME NEW p \in Proc, NEW d \in Pgdir, ExecStart(p, d) PROVE TypeOK'
  <2>1. TextPage \subseteq Page /\ "exec" \in PC
    BY <1>0 DEF TextPage, Page, PC
  <2>2. QED
    BY <1>0, <1>17, <2>1, Zenon DEF ExecStart, frameVars, tableVars, procVars
<1>18. ASSUME NEW p \in Proc, NEW a \in Page, ExecAlloc(p, a) PROVE TypeOK'
  <2>1. dir[p] \in Pgdir /\ "free" \in PC
    BY <1>18, OwnsDirs, Zenon DEF ExecAlloc, Builders, PC
  <2>2. ASSUME NEW f \in Frame, kalloc(f), MapFrame(dir[p], a, f, TRUE),
               mem' = [mem EXCEPT ![f] = Text],
               todo' = [todo EXCEPT ![p] = @ \ {a}], UNCHANGED pc
        PROVE  TypeOK'
    <3>1. /\ pte' \in [Pgdir -> [Page -> Frame \cup {None}]]
          /\ writable' \in [Pgdir -> SUBSET Page]
      BY <1>0, <2>1, <2>2, MapFrameTypes, Zenon
    <3>2. QED
      BY <1>0, <1>18, <2>2, <3>1, AllocatorTypes, Zenon DEF ExecAlloc, procVars
  <2>3. CASE allocFails /\ pc' = [pc EXCEPT ![p] = "free"]
             /\ UNCHANGED <<mem, tableVars, todo>>
    BY <1>0, <1>18, <2>1, <2>3, AllocatorTypes, Zenon
       DEF ExecAlloc, allocFails, tableVars, procVars
  <2>4. QED
    BY <1>18, <2>2, <2>3, Zenon DEF ExecAlloc
<1>19. ASSUME NEW p \in Proc, ExecStack(p) PROVE TypeOK'
  <2>1. /\ dir[p] \in Pgdir /\ "free" \in PC /\ USERTOP - 1 \in Page
        /\ 0 \in 0..USERTOP /\ 1 \in 0..USERTOP /\ TextPages + 1 \in 0..USERTOP
    BY <1>0, <1>19, OwnsDirs DEF ExecStack, Builders, PC, Page
  <2>2. ASSUME NEW f \in Frame, kalloc(f), MapFrame(dir[p], USERTOP - 1, f, TRUE),
               mem' = [mem EXCEPT ![f] = Zero],
               stackSize' = [stackSize EXCEPT ![p] = 1],
               \/ /\ pgdir' = [pgdir EXCEPT ![p] = dir[p]]
                  /\ dir' = [dir EXCEPT ![p] = pgdir[p]]
                  /\ sz' = [sz EXCEPT ![p] = TextPages + 1]
               \/ UNCHANGED <<pgdir, dir, sz>>
        PROVE  TypeOK'
    <3>1. /\ pte' \in [Pgdir -> [Page -> Frame \cup {None}]]
          /\ writable' \in [Pgdir -> SUBSET Page]
      BY <1>0, <2>1, <2>2, MapFrameTypes, Zenon
    <3>2. /\ pgdir' \in [Proc -> Pgdir \cup {None}]
          /\ dir' \in [Proc -> Pgdir \cup {None}]
          /\ sz' \in [Proc -> 0..USERTOP]
          /\ stackSize' \in [Proc -> 0..USERTOP]
      BY <1>0, <2>1, <2>2, ZenonT(30)
    <3>3. QED
      BY <1>0, <1>19, <2>1, <2>2, <3>1, <3>2, AllocatorTypes, Zenon DEF ExecStack
  <2>3. CASE /\ allocFails
             /\ stackSize' = [stackSize EXCEPT ![p] = 0]
             /\ UNCHANGED <<mem, tableVars, pgdir, dir, sz>>
    BY <1>0, <1>19, <2>1, <2>3, AllocatorTypes, Zenon DEF ExecStack, allocFails, tableVars
  <2>4. QED
    BY <1>19, <2>2, <2>3, Zenon DEF ExecStack
<1>20. ASSUME NEW p \in Proc, ExecFree(p) PROVE TypeOK'
  <2>1. dir[p] \in Pgdir
    BY <1>20, OwnsDirs, Zenon DEF ExecFree, Builders
  <2>2. ASSUME NEW a \in Page, IsFirst(a, Mapped(dir[p])), ReleasePage(dir[p], a),
               UNCHANGED threadVars
        PROVE  TypeOK'
    <3>1. pte[dir[p]][a] # None
      BY <2>2, Zenon DEF IsFirst, Mapped
    <3>2. QED
      BY <1>0, <1>20, <2>1, <2>2, <3>1, ReleaseTypes, Zenon DEF ExecFree, threadVars, procVars
  <2>3. CASE Idle(p) /\ UNCHANGED <<freelist, refCount, PhysicalPageTotal, tableVars>>
    BY <1>0, <1>20, <2>3, IdleTypes, Zenon DEF ExecFree, tableVars, procVars
  <2>4. QED
    BY <1>20, <2>2, <2>3, Zenon DEF ExecFree
<1>21. ASSUME NEW p \in Proc, Exit(p) PROVE TypeOK'
  BY <1>0, <1>21, Zenon DEF Exit, panic, frameVars, tableVars, threadVars
<1>22. ASSUME NEW z \in Proc, WaitFree(z) PROVE TypeOK'
  <2>1. pgdir[z] \in Pgdir
    BY <1>22, OwnsDirs, Zenon DEF WaitFree
  <2>2. ASSUME NEW a \in Page, IsFirst(a, Mapped(pgdir[z])), ReleasePage(pgdir[z], a),
               UNCHANGED <<state, pgdir, sz, stackSize, killed>>
        PROVE  TypeOK'
    <3>1. pte[pgdir[z]][a] # None
      BY <2>2, Zenon DEF IsFirst, Mapped
    <3>2. QED
      BY <1>0, <1>22, <2>1, <2>2, <3>1, ReleaseTypes, Zenon DEF WaitFree, threadVars
  <2>3. CASE /\ state' = [state EXCEPT ![z] = "UNUSED"]
             /\ pgdir' = [pgdir EXCEPT ![z] = None]
             /\ sz' = [sz EXCEPT ![z] = 0]
             /\ stackSize' = [stackSize EXCEPT ![z] = 0]
             /\ killed' = [killed EXCEPT ![z] = FALSE]
             /\ UNCHANGED <<freelist, refCount, PhysicalPageTotal, tableVars>>
    BY <1>0, <1>22, <2>3 DEF WaitFree, tableVars, threadVars
  <2>4. QED
    BY <1>22, <2>2, <2>3 DEF WaitFree
<1>23. ASSUME KernelAlloc PROVE TypeOK'
  BY <1>0, <1>23, AllocatorTypes, Zenon DEF KernelAlloc, tableVars, procVars, threadVars
<1>24. ASSUME KernelFree PROVE TypeOK'
  BY <1>0, <1>24, AllocatorTypes, Zenon DEF KernelFree, tableVars, procVars, threadVars
<1>25. QED
  BY <1>1, <1>2, <1>3, <1>4, <1>5, <1>6, <1>7, <1>8, <1>9, <1>10, <1>11, <1>12,
     <1>13, <1>14, <1>15, <1>16, <1>17, <1>18, <1>19, <1>20, <1>21, <1>22,
     <1>23, <1>24, <1>26, <1>27, Zenon
     DEF Next, Fault, Fork, Exec

-----------------------------------------------------------------------------
(* Owners of directories and of process slots. *)

(* Moving inside a handler changes no owner. *)
LEMMA MovePc ==
  ASSUME IInv, NEW p \in Proc, NEW x \in PC, state[p] = "RUNNABLE",
         pc' = [pc EXCEPT ![p] = x], x \in Builders <=> pc[p] \in Builders,
         UNCHANGED <<state, pgdir, dir>>
  PROVE  DirOwned'
BY OwnerTypes DEF IInv, DirOwned

(* Every directory keeps one owner: the d \notin BusyDir of fork and exec  *)
(* stands for a directory fresh from setupkvm.                             *)
LEMMA DirOwnedStep ==
  ASSUME IInv, Next
  PROVE  DirOwned'
<1>0. DirOwned /\ None \notin Pgdir
  BY ProcAssumption, Zenon DEF IInv
<1>1. CASE UNCHANGED <<state, pgdir, pc, dir>>
  BY <1>0, <1>1, Zenon DEF DirOwned
<1>2. ASSUME NEW p \in Proc, NEW a \in Page, FaultCount(p, a)
      PROVE  DirOwned'
  <2>1. "cow" \in PC /\ ~("cow" \in Builders) /\ ~(pc[p] \in Builders) /\ state[p] = "RUNNABLE"
    BY <1>2, Zenon DEF FaultCount, AtPage, InUser, PC, Builders
  <2>2. QED
    BY <1>1, <1>2, <2>1, MovePc, Zenon DEF FaultCount, threadVars
<1>3. ASSUME NEW p \in Proc, Idle(p), pc[p] \notin Builders, UNCHANGED <<state, pgdir>>
      PROVE  DirOwned'
  BY <1>0, <1>3, OwnerTypes DEF IInv, Idle, DirOwned, Builders
<1>4. ASSUME NEW p \in Proc, Idle(p), pc[p] \in Builders, UNCHANGED <<state, pgdir>>
      PROVE  DirOwned'
  BY <1>0, <1>4, OwnerTypes DEF IInv, Idle, DirOwned, Builders
<1>5. ASSUME NEW p \in Proc, CowAlloc(p) PROVE DirOwned'
  <2>1. "copy" \in PC /\ ~("copy" \in Builders) /\ ~(pc[p] \in Builders) /\ state[p] = "RUNNABLE"
    BY <1>0, <1>5, Zenon DEF CowAlloc, PC, Builders, DirOwned
  <2>2. QED
    BY <1>3, <1>5, <2>1, MovePc, Zenon DEF CowAlloc
<1>6. ASSUME NEW p \in Proc, CowCopy(p) PROVE DirOwned'
  <2>1. "dec" \in PC /\ ~("dec" \in Builders) /\ ~(pc[p] \in Builders) /\ state[p] = "RUNNABLE"
    BY <1>0, <1>6, Zenon DEF CowCopy, PC, Builders, DirOwned
  <2>2. QED
    BY <1>6, <2>1, MovePc, Zenon DEF CowCopy, procVars
<1>7. ASSUME NEW p \in Proc, NEW c \in Proc, NEW d \in Pgdir, ForkStart(p, c, d)
      PROVE  DirOwned'
  <2>1. /\ state[p] = "RUNNABLE" /\ pc[p] = "user" /\ state[c] = "UNUSED"
        /\ state' = [state EXCEPT ![c] = "EMBRYO"]
        /\ pc' = [pc EXCEPT ![p] = "fork"]
        /\ dir' = [dir EXCEPT ![p] = d]
        /\ pgdir' = pgdir
    BY <1>7, Zenon DEF ForkStart, InUser
  <2>2. \A q \in Proc : pgdir[q] # d /\ dir[q] # d
    BY <1>7, Zenon DEF ForkStart, BusyDir
  <2>3. QED
    BY <1>0, <2>1, <2>2, OwnerTypes DEF IInv, DirOwned, Builders
<1>8. ASSUME NEW p \in Proc, NEW a \in Page, ForkMap(p, a) PROVE DirOwned'
  <2>1. /\ \A x \in {"forkInc", "forkFree"} : x \in PC /\ x \in Builders
        /\ pc[p] \in Builders /\ state[p] = "RUNNABLE"
    BY <1>0, <1>8, Zenon DEF ForkMap, PC, Builders, DirOwned
  <2>2. UNCHANGED pc \/ \E x \in {"forkInc", "forkFree"} : pc' = [pc EXCEPT ![p] = x]
    BY <1>8, Zenon DEF ForkMap
  <2>3. UNCHANGED <<state, pgdir, dir>>
    BY <1>8, Zenon DEF ForkMap
  <2>4. QED
    BY <1>1, <2>1, <2>2, <2>3, MovePc, Zenon
<1>9. ASSUME NEW p \in Proc, ForkIncrease(p) PROVE DirOwned'
  <2>1. "fork" \in PC /\ "fork" \in Builders /\ pc[p] \in Builders /\ state[p] = "RUNNABLE"
    BY <1>0, <1>9, Zenon DEF ForkIncrease, PC, Builders, DirOwned
  <2>2. QED
    BY <1>9, <2>1, MovePc, Zenon DEF ForkIncrease, procVars
<1>10. ASSUME NEW p \in Proc, ForkDone(p) PROVE DirOwned'
  <2>1. /\ child[p] \in Proc /\ state[child[p]] = "EMBRYO"
        /\ state[p] = "RUNNABLE" /\ dir[p] \in Pgdir
        /\ pgdir[child[p]] = None /\ pc[child[p]] = "user"
    BY <1>0, <1>10, OwnsDirs, Zenon DEF ForkDone, IInv, ChildOwned, Forkers, Builders, DirOwned
  <2>2. /\ state' = [state EXCEPT ![child[p]] = "RUNNABLE"]
        /\ pgdir' = [pgdir EXCEPT ![child[p]] = dir[p]]
        /\ pc' = [pc EXCEPT ![p] = "user"]
        /\ dir' = [dir EXCEPT ![p] = None]
    BY <1>10, Zenon DEF ForkDone, Idle
  <2>3. QED
    BY <1>0, <2>1, <2>2, OwnerTypes DEF IInv, DirOwned, Builders
<1>11. ASSUME NEW p \in Proc, ForkFree(p) PROVE DirOwned'
  <2>1. /\ child[p] \in Proc /\ state[child[p]] = "EMBRYO"
        /\ state[p] = "RUNNABLE" /\ pgdir[child[p]] = None /\ pc[child[p]] = "user"
    BY <1>0, <1>11, Zenon DEF ForkFree, IInv, ChildOwned, Forkers, Builders, DirOwned
  <2>2. CASE state' = [state EXCEPT ![child[p]] = "UNUSED"] /\ Idle(p)
    <3>1. /\ state' = [state EXCEPT ![child[p]] = "UNUSED"]
          /\ pgdir' = pgdir
          /\ pc' = [pc EXCEPT ![p] = "user"]
          /\ dir' = [dir EXCEPT ![p] = None]
      BY <1>11, <2>2, Zenon DEF ForkFree, Idle
    <3>2. TypeOK
      BY Zenon DEF IInv
    <3>3. QED
      BY <1>0, <2>1, <3>1, <3>2, OwnerTypes DEF DirOwned, Builders
  <2>3. QED
    BY <1>1, <1>11, <2>2, Zenon DEF ForkFree, threadVars
<1>12. ASSUME NEW p \in Proc, NEW d \in Pgdir, ExecStart(p, d) PROVE DirOwned'
  <2>1. /\ state[p] = "RUNNABLE" /\ pc[p] = "user"
        /\ pc' = [pc EXCEPT ![p] = "exec"]
        /\ dir' = [dir EXCEPT ![p] = d]
        /\ pgdir' = pgdir /\ state' = state
    BY <1>12, Zenon DEF ExecStart, InUser, procVars
  <2>2. \A q \in Proc : pgdir[q] # d /\ dir[q] # d
    BY <1>12, Zenon DEF ExecStart, BusyDir
  <2>3. QED
    BY <1>0, <2>1, <2>2, OwnerTypes DEF IInv, DirOwned, Builders
<1>13. ASSUME NEW p \in Proc, NEW a \in Page, ExecAlloc(p, a) PROVE DirOwned'
  <2>1. "free" \in PC /\ "free" \in Builders /\ pc[p] \in Builders /\ state[p] = "RUNNABLE"
    BY <1>0, <1>13, Zenon DEF ExecAlloc, PC, Builders, DirOwned
  <2>2. QED
    BY <1>1, <1>13, <2>1, MovePc, Zenon DEF ExecAlloc, procVars
<1>14. ASSUME NEW p \in Proc, ExecStack(p) PROVE DirOwned'
  <2>1. /\ "free" \in PC /\ "free" \in Builders /\ pc[p] = "exec" /\ pc[p] \in Builders
        /\ state[p] = "RUNNABLE"
        /\ dir[p] \in Pgdir /\ pgdir[p] \in Pgdir
    BY <1>0, <1>14, OwnsDirs, Zenon DEF ExecStack, PC, Builders, DirOwned
  <2>2. CASE UNCHANGED <<pgdir, dir>>
    BY <1>14, <2>1, <2>2, MovePc, Zenon DEF ExecStack
  <2>3. CASE pgdir' = [pgdir EXCEPT ![p] = dir[p]] /\ dir' = [dir EXCEPT ![p] = pgdir[p]]
    <3>1. pc' = [pc EXCEPT ![p] = "free"] /\ state' = state
      BY <1>14, Zenon DEF ExecStack
    <3>2. QED
      BY <1>0, <2>1, <2>3, <3>1, OwnerTypes DEF IInv, DirOwned
  <2>4. QED
    BY <1>14, <2>2, <2>3, Zenon DEF ExecStack
<1>15. ASSUME NEW p \in Proc, ExecFree(p) PROVE DirOwned'
  BY <1>1, <1>4, <1>15, Zenon DEF ExecFree, Builders, procVars, threadVars
<1>16. ASSUME NEW p \in Proc, Exit(p) PROVE DirOwned'
  <2>1. /\ state[p] = "RUNNABLE" /\ pc[p] = "user" /\ UNCHANGED <<pgdir, pc, dir>>
        /\ state' = state \/ state' = [state EXCEPT ![p] = "ZOMBIE"]
    BY <1>16, Zenon DEF Exit, threadVars
  <2>2. QED
    BY <1>0, <2>1, OwnerTypes DEF IInv, DirOwned
<1>17. ASSUME NEW z \in Proc, WaitFree(z) PROVE DirOwned'
  <2>1. CASE UNCHANGED <<state, pgdir>>
    BY <1>1, <1>17, <2>1, Zenon DEF WaitFree, threadVars
  <2>2. CASE state' = [state EXCEPT ![z] = "UNUSED"] /\ pgdir' = [pgdir EXCEPT ![z] = None]
    <3>1. state[z] = "ZOMBIE" /\ UNCHANGED <<pc, dir>>
      BY <1>17, Zenon DEF WaitFree, threadVars
    <3>2. QED
      BY <1>0, <2>2, <3>1, OwnerTypes DEF IInv, DirOwned
  <2>3. QED
    BY <1>17, <2>1, <2>2, Zenon DEF WaitFree
<1>18. ASSUME NEW p \in Proc, Fault(p) PROVE DirOwned'
  <2>1. NullFault(p) \/ (\E a \in Page : StackFault(p, a) \/ LazyFault(p, a))
          => UNCHANGED <<state, pgdir, pc, dir>>
    BY Zenon DEF NullFault, StackFault, LazyFault, threadVars
  <2>2. CowReuse(p) \/ CowDecrease(p) => Idle(p) /\ pc[p] \notin Builders
                                         /\ UNCHANGED <<state, pgdir>>
    BY Zenon DEF CowReuse, CowDecrease, Builders, procVars
  <2>3. QED
    BY <1>1, <1>2, <1>3, <1>5, <1>6, <1>18, <2>1, <2>2, Zenon DEF Fault
<1>19. ASSUME NEW p \in Proc,
              \/ \E a \in Page, v \in Value : Store(p, a, v)
              \/ SbrkGrow(p) \/ SbrkShrink(p) \/ SbrkFails(p)
       PROVE  DirOwned'
  BY <1>1, <1>19, Zenon DEF Store, SbrkGrow, SbrkShrink, SbrkFails, procVars, threadVars
<1>20. ASSUME KernelAlloc \/ KernelFree PROVE DirOwned'
  BY <1>1, <1>20, Zenon DEF KernelAlloc, KernelFree, procVars, threadVars
<1>21. ASSUME NEW p \in Proc, ExecBad(p) PROVE DirOwned'
  <2>1. pc[p] \in Builders /\ "free" \in Builders /\ "free" \in PC /\ state[p] = "RUNNABLE"
        /\ UNCHANGED <<state, pgdir, dir>> /\ pc' = [pc EXCEPT ![p] = "free"]
    BY <1>0, <1>21, Zenon DEF ExecBad, PC, Builders, DirOwned, procVars
  <2>2. QED
    BY <2>1, MovePc, Zenon
<1>22. QED
  BY <1>7, <1>8, <1>9, <1>10, <1>11, <1>12, <1>13, <1>14, <1>15, <1>16,
     <1>17, <1>18, <1>19, <1>20, <1>21, Zenon DEF Next, Fork, Exec

(* Two forks never build the same child, and the slot of the child stays   *)
(* EMBRYO until its fork ends.                                             *)
LEMMA ChildOwnedStep ==
  ASSUME IInv, Next
  PROVE  ChildOwned'
<1>0. ChildOwned /\ DirOwned /\ None \notin Proc
  BY ProcAssumption, Zenon DEF IInv
<1>1. ASSUME NEW p \in Proc, NEW x \in PC, pc' = [pc EXCEPT ![p] = x],
             x \in Forkers => pc[p] \in Forkers, UNCHANGED <<state, child>>
      PROVE  ChildOwned'
  BY <1>0, <1>1, OwnerTypes, Zenon DEF IInv, ChildOwned
<1>2. ASSUME NEW p \in Proc, Idle(p), UNCHANGED state
      PROVE  ChildOwned'
  BY <1>0, <1>2, OwnerTypes DEF IInv, ChildOwned, Idle, Forkers
<1>3. CASE UNCHANGED <<state, pc, child>>
  BY <1>0, <1>3, Zenon DEF ChildOwned
<1>4. ASSUME NEW p \in Proc, Fault(p) PROVE ChildOwned'
  <2>1. \A x \in {"cow", "copy", "dec"} : x \in PC /\ x \notin Forkers
    BY Zenon DEF PC, Forkers
  <2>2. UNCHANGED state
    BY <1>4, Zenon DEF Fault, NullFault, StackFault, LazyFault, FaultCount, CowReuse,
       CowAlloc, CowCopy, CowDecrease, procVars
  <2>3. \/ UNCHANGED <<pc, child>>
        \/ Idle(p)
        \/ \E x \in {"cow", "copy", "dec"} : pc' = [pc EXCEPT ![p] = x] /\ UNCHANGED child
    BY <1>4, Zenon DEF Fault, NullFault, StackFault, LazyFault, FaultCount, CowReuse,
       CowAlloc, CowCopy, CowDecrease, threadVars
  <2>4. QED
    BY <1>1, <1>2, <1>3, <2>1, <2>2, <2>3, Zenon
<1>5. ASSUME NEW p \in Proc, NEW c \in Proc, NEW d \in Pgdir, ForkStart(p, c, d)
      PROVE  ChildOwned'
  <2>1. /\ pc[p] = "user" /\ state[c] = "UNUSED"
        /\ state' = [state EXCEPT ![c] = "EMBRYO"]
        /\ pc' = [pc EXCEPT ![p] = "fork"]
        /\ child' = [child EXCEPT ![p] = c]
    BY <1>5, Zenon DEF ForkStart, InUser
  <2>2. \A q \in Proc : pc[q] \in Forkers => child[q] # c
    BY <1>0, <2>1, Zenon DEF ChildOwned
  <2>3. QED
    BY <1>0, <2>1, <2>2, OwnerTypes DEF IInv, ChildOwned
<1>6. ASSUME NEW p \in Proc, (\E a \in Page : ForkMap(p, a)) \/ ForkIncrease(p)
      PROVE  ChildOwned'
  <2>1. /\ pc[p] \in Forkers /\ UNCHANGED <<state, child>>
        /\ \A x \in {"fork", "forkInc", "forkFree"} : x \in PC
        /\ \/ UNCHANGED pc
           \/ \E x \in {"fork", "forkInc", "forkFree"} : pc' = [pc EXCEPT ![p] = x]
    BY <1>6, Zenon DEF ForkMap, ForkIncrease, Forkers, PC, procVars
  <2>2. QED
    BY <1>1, <1>3, <2>1, Zenon
<1>7. ASSUME NEW p \in Proc, NEW s, Idle(p), pc[p] \in Forkers,
             state' = [state EXCEPT ![child[p]] = s]
      PROVE  ChildOwned'
  <2>1. /\ pc' = [pc EXCEPT ![p] = "user"]
        /\ child' = [child EXCEPT ![p] = None]
    BY <1>7, Zenon DEF Idle
  <2>2. \A q \in Proc : q # p /\ pc[q] \in Forkers => child[q] # child[p]
    BY <1>0, <1>7, Zenon DEF ChildOwned
  <2>3. QED
    BY <1>0, <1>7, <2>1, <2>2, OwnerTypes DEF IInv, ChildOwned, Forkers
<1>8. ASSUME NEW p \in Proc, ForkDone(p) \/ ForkFree(p) PROVE ChildOwned'
  BY <1>3, <1>7, <1>8, Zenon DEF ForkDone, ForkFree, Forkers, threadVars
<1>9. ASSUME NEW p \in Proc, Exec(p) PROVE ChildOwned'
  <2>1. \A x \in {"exec", "free"} : x \in PC /\ x \notin Forkers
    BY Zenon DEF PC, Forkers
  <2>2. /\ UNCHANGED state
        /\ \/ UNCHANGED <<pc, child>>
           \/ Idle(p)
           \/ \E x \in {"exec", "free"} : pc' = [pc EXCEPT ![p] = x] /\ UNCHANGED child
    BY <1>9, Zenon DEF Exec, ExecStart, ExecAlloc, ExecBad, ExecStack, ExecFree, procVars,
       threadVars
  <2>3. QED
    BY <1>1, <1>2, <1>3, <2>1, <2>2, Zenon
<1>10. ASSUME NEW p \in Proc, Exit(p) \/ WaitFree(p) PROVE ChildOwned'
  <2>1. /\ state[p] \in {"RUNNABLE", "ZOMBIE"} /\ UNCHANGED <<pc, child>>
        /\ UNCHANGED state \/ \E s \in {"ZOMBIE", "UNUSED"} : state' = [state EXCEPT ![p] = s]
    BY <1>10, Zenon DEF Exit, WaitFree, threadVars
  <2>2. QED
    BY <1>0, <2>1, OwnerTypes, Zenon DEF IInv, ChildOwned
<1>11. ASSUME NEW p \in Proc,
              \/ \E a \in Page, v \in Value : Store(p, a, v)
              \/ SbrkGrow(p) \/ SbrkShrink(p) \/ SbrkFails(p)
       PROVE  ChildOwned'
  BY <1>3, <1>11, Zenon DEF Store, SbrkGrow, SbrkShrink, SbrkFails, procVars, threadVars
<1>12. ASSUME KernelAlloc \/ KernelFree PROVE ChildOwned'
  BY <1>3, <1>12, Zenon DEF KernelAlloc, KernelFree, procVars, threadVars
<1>13. QED
  BY <1>4, <1>5, <1>6, <1>8, <1>9, <1>10, <1>11, <1>12, Zenon DEF Next, Fork

-----------------------------------------------------------------------------
(* Directories nobody runs on. *)

(* A change to the table of a directory some process runs on disturbs no   *)
(* directory under construction.                                           *)
LEMMA RunningTableChange ==
  ASSUME IInv, NEW p \in Proc, pgdir[p] # None,
         \A e \in Pgdir : e # pgdir[p] => pte'[e] = pte[e],
         UNCHANGED <<pgdir, dir, todo>>,
         \A q \in Proc : /\ pc'[q] \in {"fork", "forkInc", "exec"} => pc'[q] = pc[q]
                         /\ pc[q] = "forkInc" => va'[q] = va[q]
  PROVE  EmptyWhereUnused'
<1>1. \A q \in Proc : dir[q] # None => dir[q] # pgdir[p] /\ dir[q] \in Pgdir
  BY OwnerTypes DEF IInv, DirOwned
<1>2. \A q \in Proc : pc[q] \in {"fork", "forkInc", "exec"} => dir[q] # None
  BY Zenon DEF IInv, DirOwned, Builders
<1>3. \A q \in Proc : pc[q] \in {"fork", "forkInc", "exec"} => pte'[dir[q]] = pte[dir[q]]
  BY <1>1, <1>2, Zenon
<1>4. UnownedIsEmpty /\ ForkAhead /\ ExecAhead
  BY Zenon DEF IInv, EmptyWhereUnused
<1>5. QED
  <2>1. UnownedIsEmpty'
    BY <1>3, <1>4 DEF UnownedIsEmpty
  <2>2. ForkAhead'
    BY <1>3, <1>4 DEF ForkAhead
  <2>3. ExecAhead'
    BY <1>3, <1>4 DEF ExecAhead
  <2>4. QED
    BY <2>1, <2>2, <2>3, Zenon DEF EmptyWhereUnused

(* A directory under construction stays empty where copyuvm or exec has    *)
(* not mapped a page yet, and a directory nobody owns stays empty.         *)
LEMMA EmptyWhereUnusedStep ==
  ASSUME IInv, Next
  PROVE  EmptyWhereUnused'
<1>0. UnownedIsEmpty /\ ForkAhead /\ ExecAhead /\ DirOwned /\ None \notin Pgdir
  BY ProcAssumption, Zenon DEF IInv, EmptyWhereUnused
<1>1. CASE UNCHANGED <<pte, pgdir, dir, pc, va, todo>>
  <2>1. UnownedIsEmpty'
    BY <1>0, <1>1, Zenon DEF UnownedIsEmpty
  <2>2. ForkAhead'
    BY <1>0, <1>1, Zenon DEF ForkAhead
  <2>3. ExecAhead'
    BY <1>0, <1>1, Zenon DEF ExecAhead
  <2>4. QED
    BY <2>1, <2>2, <2>3, Zenon DEF EmptyWhereUnused
<1>2. ASSUME NEW p \in Proc, Idle(p), pc[p] \notin Builders, UNCHANGED <<pte, pgdir>>
      PROVE  EmptyWhereUnused'
  <2>1. /\ dir' = dir
        /\ pc' = [pc EXCEPT ![p] = "user"] /\ va' = [va EXCEPT ![p] = 0]
        /\ todo' = [todo EXCEPT ![p] = {}]
    BY <1>0, <1>2, OwnerTypes, Zenon DEF IInv, DirOwned, Idle
  <2>2. QED
    <3>1. UnownedIsEmpty'
      BY <1>0, <1>2, <2>1, OwnerTypes, TableTypes, Zenon DEF IInv, UnownedIsEmpty
    <3>2. ForkAhead'
      BY <1>0, <1>2, <2>1, OwnerTypes, TableTypes, Zenon DEF IInv, ForkAhead
    <3>3. ExecAhead'
      BY <1>0, <1>2, <2>1, OwnerTypes, TableTypes, Zenon DEF IInv, ExecAhead
    <3>4. QED
      BY <3>1, <3>2, <3>3, Zenon DEF EmptyWhereUnused
<1>3. ASSUME NEW p \in Proc, Fault(p) PROVE EmptyWhereUnused'
  <2>1. CASE NullFault(p)
    BY <1>1, <2>1, Zenon DEF NullFault, tableVars, threadVars
  <2>2. ASSUME NEW a \in Page, StackFault(p, a) \/ LazyFault(p, a)
        PROVE  EmptyWhereUnused'
    <3>1. /\ UNCHANGED <<pgdir, dir, todo, pc, va>> /\ pgdir[p] # None
          /\ \A e \in Pgdir : e # pgdir[p] => pte'[e] = pte[e]
      BY <1>0, <2>2, TableTypes, Zenon
         DEF StackFault, LazyFault, stackGrow, stackGrowRemap, stackGrowFails, AtPage,
             InUser, DirOwned, MapFrame, tableVars, threadVars, IInv
    <3>2. QED
      BY <3>1, RunningTableChange, Zenon
  <2>3. ASSUME NEW a \in Page, FaultCount(p, a) PROVE EmptyWhereUnused'
    <3>1. /\ UNCHANGED <<pgdir, dir, todo, pte>> /\ pgdir[p] # None /\ pc[p] = "user"
          /\ \/ UNCHANGED <<pc, va>>
             \/ pc' = [pc EXCEPT ![p] = "cow"] /\ va' = [va EXCEPT ![p] = a]
      BY <1>0, <2>3, Zenon DEF FaultCount, AtPage, InUser, DirOwned, tableVars, threadVars
    <3>2. \A q \in Proc : /\ pc'[q] \in {"fork", "forkInc", "exec"} => pc'[q] = pc[q]
                          /\ pc[q] = "forkInc" => va'[q] = va[q]
      BY <3>1, TableTypes, Zenon DEF IInv
    <3>3. QED
      BY <3>1, <3>2, RunningTableChange, Zenon
  <2>4. CASE CowAlloc(p)
    <3>1. CASE Idle(p)
      BY <1>2, <2>4, <3>1, Zenon DEF CowAlloc, Builders, tableVars
    <3>2. CASE pc' = [pc EXCEPT ![p] = "copy"] /\ UNCHANGED <<va, dir, todo>>
      <4>1. UNCHANGED <<pgdir, pte>> /\ pgdir[p] # None
        BY <1>0, <2>4, Zenon DEF CowAlloc, DirOwned, tableVars
      <4>2. \A q \in Proc : pc'[q] \in {"fork", "forkInc", "exec"} => pc'[q] = pc[q]
        BY <3>2, TableTypes, Zenon DEF IInv
      <4>3. QED
        BY <3>2, <4>1, <4>2, RunningTableChange, Zenon
    <3>3. QED
      BY <2>4, <3>1, <3>2, Zenon DEF CowAlloc
  <2>5. CASE CowCopy(p)
    <3>1. /\ UNCHANGED <<pgdir, dir, todo, va>> /\ pgdir[p] # None
          /\ pc' = [pc EXCEPT ![p] = "dec"]
          /\ \A e \in Pgdir : e # pgdir[p] => pte'[e] = pte[e]
      BY <1>0, <2>5, TableTypes, Zenon DEF CowCopy, MapFrame, DirOwned, procVars, IInv
    <3>2. \A q \in Proc : pc'[q] \in {"fork", "forkInc", "exec"} => pc'[q] = pc[q]
      BY <3>1, TableTypes, Zenon DEF IInv
    <3>3. QED
      BY <3>1, <3>2, RunningTableChange, Zenon
  <2>6. CASE CowReuse(p) \/ CowDecrease(p)
    BY <1>2, <2>6, Zenon DEF CowReuse, CowDecrease, Builders, procVars, tableVars
  <2>7. QED
    BY <1>3, <2>1, <2>2, <2>3, <2>4, <2>5, <2>6, Zenon DEF Fault
<1>4. ASSUME NEW p \in Proc, SbrkGrow(p) \/ SbrkShrink(p) \/ SbrkFails(p)
      PROVE  EmptyWhereUnused'
  <2>1. /\ UNCHANGED <<pgdir, dir, todo, pc, va>> /\ pgdir[p] # None
        /\ \A e \in Pgdir : e # pgdir[p] => pte'[e] = pte[e]
    BY <1>0, <1>4, TableTypes, Zenon
       DEF SbrkGrow, SbrkShrink, SbrkFails, ReleasePage, InUser, DirOwned, MapFrame,
           tableVars, threadVars, IInv
  <2>2. QED
    BY <2>1, RunningTableChange, Zenon
<1>5. ASSUME NEW p \in Proc, Exit(p) \/ (WaitFree(p) /\ UNCHANGED pgdir)
      PROVE  EmptyWhereUnused'
  <2>1. /\ UNCHANGED <<pgdir, dir, todo, pc, va>> /\ pgdir[p] # None
        /\ \A e \in Pgdir : e # pgdir[p] => pte'[e] = pte[e]
    BY <1>0, <1>5, TableTypes, Zenon
       DEF Exit, WaitFree, ReleasePage, DirOwned, MapFrame, tableVars, threadVars, IInv
  <2>2. QED
    BY <2>1, RunningTableChange
<1>6. ASSUME NEW z \in Proc, WaitFree(z), Mapped(pgdir[z]) = {},
             pgdir' = [pgdir EXCEPT ![z] = None], UNCHANGED tableVars
      PROVE  EmptyWhereUnused'
  <2>1. UNCHANGED <<pte, dir, pc, va, todo>> /\ \A a \in Page : pte[pgdir[z]][a] = None
    BY <1>6, Zenon DEF WaitFree, threadVars, tableVars, Mapped
  <2>2. QED
    <3>1. UnownedIsEmpty'
      BY <1>0, <1>6, <2>1, OwnerTypes, Zenon DEF IInv, UnownedIsEmpty
    <3>2. ForkAhead'
      BY <1>0, <1>6, <2>1, OwnerTypes, Zenon DEF IInv, ForkAhead
    <3>3. ExecAhead'
      BY <1>0, <1>6, <2>1, OwnerTypes, Zenon DEF IInv, ExecAhead
    <3>4. QED
      BY <3>1, <3>2, <3>3 DEF EmptyWhereUnused
<1>7. ASSUME NEW p \in Proc, NEW c \in Proc, NEW d \in Pgdir, ForkStart(p, c, d)
      PROVE  EmptyWhereUnused'
  <2>1. /\ UNCHANGED <<pte, pgdir, va>>
        /\ pc' = [pc EXCEPT ![p] = "fork"] /\ dir' = [dir EXCEPT ![p] = d]
        /\ todo' = [todo EXCEPT ![p] = Region(p)]
        /\ dir[p] = None
    BY <1>0, <1>7, Zenon DEF ForkStart, tableVars, InUser, DirOwned, Builders
  <2>2. \A a \in Page : pte[d][a] = None
    BY <1>0, <1>7, Zenon DEF ForkStart, BusyDir, UnownedIsEmpty
  <2>3. Region(p) \subseteq Page
    BY Zenon DEF Region
  <2>4. QED
    <3>1. UnownedIsEmpty'
      BY <1>0, <2>1, <2>2, <2>3, OwnerTypes, Zenon DEF IInv, UnownedIsEmpty
    <3>2. ForkAhead'
      BY <1>0, <2>1, <2>2, <2>3, OwnerTypes, Zenon DEF IInv, ForkAhead
    <3>3. ExecAhead'
      BY <1>0, <2>1, <2>2, <2>3, OwnerTypes, Zenon DEF IInv, ExecAhead
    <3>4. QED
      BY <3>1, <3>2, <3>3, Zenon DEF EmptyWhereUnused
<1>8. ASSUME NEW p \in Proc, NEW d \in Pgdir, ExecStart(p, d) PROVE EmptyWhereUnused'
  <2>1. /\ UNCHANGED <<pte, pgdir, va>>
        /\ pc' = [pc EXCEPT ![p] = "exec"] /\ dir' = [dir EXCEPT ![p] = d]
        /\ todo' = [todo EXCEPT ![p] = TextPage]
        /\ dir[p] = None
    BY <1>0, <1>8, Zenon DEF ExecStart, tableVars, procVars, InUser, DirOwned, Builders
  <2>2. \A a \in Page : pte[d][a] = None
    BY <1>0, <1>8, Zenon DEF ExecStart, BusyDir, UnownedIsEmpty
  <2>3. /\ TextPage \subseteq Page /\ USERTOP - 1 \in Page
        /\ \A a \in TextPage : a <= TextPages
    BY MemoryAssumption DEF TextPage, Page
  <2>4. QED
    <3>1. UnownedIsEmpty'
      BY <1>0, <2>1, <2>2, <2>3, OwnerTypes, Zenon DEF IInv, UnownedIsEmpty
    <3>2. ForkAhead'
      BY <1>0, <2>1, <2>2, <2>3, OwnerTypes, Zenon DEF IInv, ForkAhead
    <3>3. ExecAhead'
      BY <1>0, <2>1, <2>2, <2>3, OwnerTypes, Zenon DEF IInv, ExecAhead
    <3>4. QED
      BY <3>1, <3>2, <3>3, Zenon DEF EmptyWhereUnused
<1>9. ASSUME NEW p \in Proc, NEW a \in Page, ForkMap(p, a) PROVE EmptyWhereUnused'
  <2>1. /\ UNCHANGED <<pgdir, dir, todo>> /\ pc[p] = "fork" /\ dir[p] \in Pgdir
        /\ \/ UNCHANGED <<pte, pc, va>>
           \/ /\ pte' = [pte EXCEPT ![dir[p]][a] = pte[pgdir[p]][a]]
              /\ pc' = [pc EXCEPT ![p] = "forkInc"] /\ va' = [va EXCEPT ![p] = a]
           \/ UNCHANGED <<pte, va>> /\ pc' = [pc EXCEPT ![p] = "forkFree"]
    BY <1>9, OwnsDirs, Zenon DEF ForkMap, Builders, tableVars
  <2>2. \A q \in Proc : dir[q] # dir[p] => pte'[dir[q]] = pte[dir[q]] \/ dir[q] \notin Pgdir
    BY <2>1, TableTypes, Zenon DEF IInv
  <2>3. CASE UNCHANGED <<pte, pc, va>>
    BY <1>1, <2>1, <2>3, Zenon
  <2>4. CASE UNCHANGED <<pte, va>> /\ pc' = [pc EXCEPT ![p] = "forkFree"]
    <3>1. UnownedIsEmpty'
      BY <1>0, <2>1, <2>4, OwnerTypes, Zenon DEF IInv, UnownedIsEmpty
    <3>2. ForkAhead'
      BY <1>0, <2>1, <2>4, OwnerTypes, Zenon DEF IInv, ForkAhead
    <3>3. ExecAhead'
      BY <1>0, <2>1, <2>4, OwnerTypes, Zenon DEF IInv, ExecAhead
    <3>4. QED
      BY <3>1, <3>2, <3>3, Zenon DEF EmptyWhereUnused
  <2>5. CASE /\ pte' = [pte EXCEPT ![dir[p]][a] = pte[pgdir[p]][a]]
             /\ pc' = [pc EXCEPT ![p] = "forkInc"] /\ va' = [va EXCEPT ![p] = a]
    <3>1. \A q \in Proc : q # p => dir[q] = None \/ dir[q] # dir[p]
      BY <1>0, <2>1, Zenon DEF DirOwned
    <3>2. \A q \in Proc : q # p /\ pc[q] \in Builders =>
            pte'[dir[q]] = pte[dir[q]]
      BY <2>2, <3>1, OwnsDirs, ProcAssumption, Zenon
    <3>3. \A b \in Page : b # a => pte'[dir[p]][b] = pte[dir[p]][b]
      BY <2>1, <2>5, TableTypes, Zenon DEF IInv
    <3>4. \A d \in Pgdir : d # dir[p] => pte'[d] = pte[d]
      BY <2>1, <2>5, TableTypes, Zenon DEF IInv
    <3>5. pc'[p] = "forkInc" /\ va'[p] = a /\ todo[p] \subseteq Page
          /\ \A q \in Proc : q # p => pc'[q] = pc[q] /\ va'[q] = va[q]
      BY <2>5, OwnerTypes, TableTypes, Zenon DEF IInv
    <3>6. QED
      <4>1. UnownedIsEmpty'
        BY <1>0, <2>1, <3>2, <3>3, <3>4, <3>5 DEF UnownedIsEmpty, Builders
      <4>2. ForkAhead'
        BY <1>0, <2>1, <3>2, <3>3, <3>4, <3>5 DEF ForkAhead, Builders
      <4>3. ExecAhead'
        BY <1>0, <2>1, <3>2, <3>3, <3>4, <3>5 DEF ExecAhead, Builders
      <4>4. QED
        BY <4>1, <4>2, <4>3 DEF EmptyWhereUnused
  <2>6. QED
    BY <2>1, <2>3, <2>4, <2>5, Zenon
<1>10. ASSUME NEW p \in Proc, ForkIncrease(p) PROVE EmptyWhereUnused'
  <2>1. /\ UNCHANGED <<pte, pgdir, dir>> /\ pc[p] = "forkInc"
        /\ pc' = [pc EXCEPT ![p] = "fork"] /\ va' = [va EXCEPT ![p] = 0]
        /\ todo' = [todo EXCEPT ![p] = @ \ {va[p]}]
    BY <1>10, Zenon DEF ForkIncrease, tableVars, procVars
  <2>2. QED
    <3>1. UnownedIsEmpty'
      BY <1>0, <2>1, OwnerTypes, TableTypes, Zenon DEF IInv, UnownedIsEmpty
    <3>2. ForkAhead'
      BY <1>0, <2>1, OwnerTypes, TableTypes, Zenon DEF IInv, ForkAhead
    <3>3. ExecAhead'
      BY <1>0, <2>1, OwnerTypes, TableTypes, Zenon DEF IInv, ExecAhead
    <3>4. QED
      BY <3>1, <3>2, <3>3 DEF EmptyWhereUnused
<1>11. ASSUME NEW p \in Proc, ForkDone(p) PROVE EmptyWhereUnused'
  <2>1. /\ UNCHANGED pte /\ pc[p] = "fork"
        /\ child[p] \in Proc /\ pgdir[child[p]] = None
        /\ pgdir' = [pgdir EXCEPT ![child[p]] = dir[p]]
        /\ dir' = [dir EXCEPT ![p] = None]
        /\ pc' = [pc EXCEPT ![p] = "user"] /\ va' = [va EXCEPT ![p] = 0]
        /\ todo' = [todo EXCEPT ![p] = {}]
    BY <1>0, <1>11, Zenon DEF ForkDone, Idle, tableVars, IInv, ChildOwned, Forkers, DirOwned
  <2>2. QED
    <3>1. UnownedIsEmpty'
      BY <1>0, <2>1, OwnerTypes, TableTypes, Zenon DEF IInv, UnownedIsEmpty
    <3>2. ForkAhead'
      BY <1>0, <2>1, OwnerTypes, TableTypes, Zenon DEF IInv, ForkAhead
    <3>3. ExecAhead'
      BY <1>0, <2>1, OwnerTypes, TableTypes, Zenon DEF IInv, ExecAhead
    <3>4. QED
      BY <3>1, <3>2, <3>3 DEF EmptyWhereUnused
<1>12. ASSUME NEW p \in Proc, NEW a \in Page, dir[p] \in Pgdir, pc[p] \in {"forkFree", "free"},
              MapFrame(dir[p], a, None, FALSE), UNCHANGED <<threadVars, pgdir>>
       PROVE  EmptyWhereUnused'
  <2>1. \A e \in Pgdir : e # dir[p] => pte'[e] = pte[e]
    BY <1>12, TableTypes, Zenon DEF IInv, MapFrame
  <2>2. \A q \in Proc : pc[q] \in {"fork", "forkInc", "exec"} =>
          dir[q] \in Pgdir /\ dir[q] # dir[p]
    BY <1>0, <1>12, OwnsDirs, Zenon DEF DirOwned, Builders
  <2>3. QED
    <3>1. UnownedIsEmpty'
      BY <1>0, <1>12, <2>1, <2>2, ZenonT(30) DEF UnownedIsEmpty, threadVars
    <3>5. pc' = pc /\ dir' = dir /\ todo' = todo /\ va' = va
      BY <1>12, Zenon DEF threadVars
    <3>6. \A q \in Proc : pc[q] \in {"fork", "forkInc", "exec"} =>
            pte'[dir[q]] = pte[dir[q]]
      BY <2>1, <2>2, Zenon
    <3>2. ForkAhead'
      BY <1>0, <3>5, <3>6 DEF ForkAhead
    <3>3. ExecAhead'
      BY <1>0, <3>5, <3>6, ZenonT(40) DEF ExecAhead
    <3>4. QED
      BY <3>1, <3>2, <3>3 DEF EmptyWhereUnused
<1>13. ASSUME NEW p \in Proc, dir[p] \in Pgdir, Mapped(dir[p]) = {}, Idle(p),
              UNCHANGED <<pte, pgdir>>
       PROVE  EmptyWhereUnused'
  <2>1. /\ dir' = [dir EXCEPT ![p] = None]
        /\ pc' = [pc EXCEPT ![p] = "user"] /\ va' = [va EXCEPT ![p] = 0]
        /\ todo' = [todo EXCEPT ![p] = {}]
        /\ \A a \in Page : pte[dir[p]][a] = None
    BY <1>13, Zenon DEF Idle, Mapped
  <2>2. QED
    <3>1. UnownedIsEmpty'
      BY <1>0, <1>13, <2>1, OwnerTypes, TableTypes, Zenon DEF IInv, UnownedIsEmpty
    <3>2. ForkAhead'
      BY <1>0, <1>13, <2>1, OwnerTypes, TableTypes, Zenon DEF IInv, ForkAhead
    <3>3. ExecAhead'
      BY <1>0, <1>13, <2>1, OwnerTypes, TableTypes, Zenon DEF IInv, ExecAhead
    <3>4. QED
      BY <3>1, <3>2, <3>3 DEF EmptyWhereUnused
<1>14. ASSUME NEW p \in Proc, ForkFree(p) \/ ExecFree(p) PROVE EmptyWhereUnused'
  <2>1. dir[p] \in Pgdir /\ pc[p] \in {"forkFree", "free"} /\ UNCHANGED pgdir
    BY <1>14, OwnsDirs, Zenon DEF ForkFree, ExecFree, Builders, procVars
  <2>2. QED
    BY <1>12, <1>13, <1>14, <2>1, Zenon DEF ForkFree, ExecFree, ReleasePage, tableVars
<1>15. ASSUME NEW p \in Proc, NEW a \in Page, ExecAlloc(p, a) PROVE EmptyWhereUnused'
  <2>1. /\ UNCHANGED <<pgdir, dir, va>> /\ pc[p] = "exec" /\ dir[p] \in Pgdir
        /\ a \in todo[p]
    BY <1>15, OwnsDirs, Zenon DEF ExecAlloc, Builders, procVars, IsFirst
  <2>2. CASE UNCHANGED <<pte, todo>> /\ pc' = [pc EXCEPT ![p] = "free"]
    <3>1. UnownedIsEmpty'
      BY <1>0, <2>1, <2>2, OwnerTypes, Zenon DEF IInv, UnownedIsEmpty
    <3>2. ForkAhead'
      BY <1>0, <2>1, <2>2, OwnerTypes, Zenon DEF IInv, ForkAhead
    <3>3. ExecAhead'
      BY <1>0, <2>1, <2>2, OwnerTypes, Zenon DEF IInv, ExecAhead
    <3>4. QED
      BY <3>1, <3>2, <3>3 DEF EmptyWhereUnused
  <2>3. ASSUME NEW f \in Frame, MapFrame(dir[p], a, f, TRUE), UNCHANGED pc,
               todo' = [todo EXCEPT ![p] = @ \ {a}]
        PROVE  EmptyWhereUnused'
    <3>1. \A q \in Proc : q # p => dir[q] = None \/ dir[q] # dir[p]
      BY <1>0, <2>1, Zenon DEF DirOwned
    <3>2. \A d \in Pgdir : d # dir[p] => pte'[d] = pte[d]
      BY <2>1, <2>3, TableTypes, Zenon DEF IInv, MapFrame
    <3>3. \A b \in Page : b # a => pte'[dir[p]][b] = pte[dir[p]][b]
      BY <2>1, <2>3, TableTypes, Zenon DEF IInv, MapFrame
    <3>4. /\ todo'[p] = todo[p] \ {a} /\ todo[p] \subseteq Page
          /\ \A q \in Proc : q # p => todo'[q] = todo[q]
      BY <2>3, OwnerTypes, Zenon DEF IInv
    <3>5. \A q \in Proc : q # p /\ pc[q] \in Builders => pte'[dir[q]] = pte[dir[q]]
      BY <3>1, <3>2, OwnsDirs, Zenon DEF IInv, DirOwned
    <3>6. a <= TextPages /\ USERTOP - 1 \in Page /\ USERTOP - 1 # a
      <4>1. USERTOP \in Nat /\ TextPages \in Nat /\ TextPages + 3 <= USERTOP
        BY MemoryAssumption, Zenon
      <4>2. a <= TextPages
        BY <1>0, <2>1, Zenon DEF ExecAhead
      <4>3. QED
        BY <4>1, <4>2 DEF Page
    <3>7. \A q \in Proc : pc[q] = "exec" =>
            /\ \A b \in todo'[q] : b <= TextPages /\ pte'[dir[q]][b] = None
            /\ pte'[dir[q]][USERTOP - 1] = None
      BY <1>0, <2>1, <3>3, <3>4, <3>5, <3>6 DEF ExecAhead, Builders
    <3>8. \A q \in Proc : pc[q] \in {"fork", "forkInc"} =>
            \A b \in todo'[q] : (pc[q] = "forkInc" /\ b = va[q]) \/ pte'[dir[q]][b] = None
      BY <1>0, <2>1, <3>4, <3>5 DEF ForkAhead, Builders
    <3>9. QED
      <4>1. UnownedIsEmpty'
        BY <1>0, <2>1, <3>2, ZenonT(40) DEF UnownedIsEmpty
      <4>2. ForkAhead'
        BY <2>1, <2>3, <3>8, Zenon DEF ForkAhead
      <4>3. ExecAhead'
        BY <2>1, <2>3, <3>7, Zenon DEF ExecAhead
      <4>4. QED
        BY <4>1, <4>2, <4>3, Zenon DEF EmptyWhereUnused
  <2>4. QED
    BY <1>15, <2>2, <2>3, Zenon DEF ExecAlloc, tableVars
<1>16. ASSUME NEW p \in Proc, ExecStack(p) PROVE EmptyWhereUnused'
  <2>1. /\ UNCHANGED <<va, todo>> /\ pc[p] = "exec" /\ pc' = [pc EXCEPT ![p] = "free"]
        /\ dir[p] \in Pgdir
        /\ UNCHANGED pte \/ \E f \in Frame : MapFrame(dir[p], USERTOP - 1, f, TRUE)
        /\ \/ pgdir' = [pgdir EXCEPT ![p] = dir[p]] /\ dir' = [dir EXCEPT ![p] = pgdir[p]]
           \/ UNCHANGED <<pgdir, dir>>
    BY <1>16, OwnsDirs, Zenon DEF ExecStack, Builders, tableVars
  <2>2. \A d \in Pgdir : d # dir[p] => pte'[d] = pte[d]
    BY <2>1, TableTypes, Zenon DEF IInv, MapFrame
  <2>3. \A q \in Proc : q # p => /\ pc'[q] = pc[q] /\ pgdir'[q] = pgdir[q] /\ dir'[q] = dir[q]
                                 /\ pc[q] \in Builders => pte'[dir[q]] = pte[dir[q]]
    BY <1>0, <2>1, <2>2, OwnerTypes, OwnsDirs, Zenon DEF IInv, DirOwned
  <2>4. \A d \in Pgdir : (\A q \in Proc : pgdir'[q] # d /\ dir'[q] # d) =>
          d # dir[p] /\ \A q \in Proc : pgdir[q] # d /\ dir[q] # d
    BY <2>1, <2>3, OwnerTypes DEF IInv
  <2>5. pc'[p] = "free"
    BY <2>1, OwnerTypes, Zenon DEF IInv
  <2>6. QED
    <3>1. UnownedIsEmpty'
      BY <1>0, <2>2, <2>4 DEF UnownedIsEmpty
    <3>2. ForkAhead'
      BY <1>0, <2>1, <2>3, <2>5 DEF ForkAhead, Builders
    <3>3. ExecAhead'
      BY <1>0, <2>1, <2>3, <2>5 DEF ExecAhead, Builders
    <3>4. QED
      BY <3>1, <3>2, <3>3 DEF EmptyWhereUnused
<1>17. ASSUME \/ \E p \in Proc, a \in Page, v \in Value : Store(p, a, v)
              \/ KernelAlloc \/ KernelFree
       PROVE  EmptyWhereUnused'
  BY <1>1, <1>17, Zenon DEF Store, KernelAlloc, KernelFree, tableVars, procVars, threadVars
<1>18. ASSUME NEW z \in Proc, WaitFree(z) PROVE EmptyWhereUnused'
  BY <1>5, <1>6, <1>18, Zenon DEF WaitFree
<1>19. ASSUME NEW p \in Proc, ExecBad(p) PROVE EmptyWhereUnused'
  <2>1. UNCHANGED <<pte, pgdir, dir, va, todo>> /\ pc[p] = "exec"
        /\ pc' = [pc EXCEPT ![p] = "free"]
    BY <1>19, Zenon DEF ExecBad, tableVars, procVars
  <2>2. \A q \in Proc : pc'[q] = pc[q] \/ (q = p /\ pc'[q] = "free")
    BY <2>1, OwnerTypes, Zenon DEF IInv
  <2>3. QED
    <3>1. UnownedIsEmpty'
      BY <1>0, <2>1, <2>2, Zenon DEF UnownedIsEmpty
    <3>2. ForkAhead'
      BY <1>0, <2>1, <2>2, Zenon DEF ForkAhead
    <3>3. ExecAhead'
      BY <1>0, <2>1, <2>2, Zenon DEF ExecAhead
    <3>4. QED
      BY <3>1, <3>2, <3>3 DEF EmptyWhereUnused
<1>20. QED
  BY <1>3, <1>4, <1>5, <1>7, <1>8, <1>9, <1>10, <1>11, <1>14, <1>15, <1>16,
     <1>17, <1>18, <1>19, Zenon DEF Next, Fork, Exec

-----------------------------------------------------------------------------
(* Writable pages. *)

(* Mapping a frame that is mapped nowhere. *)
LEMMA MapFresh ==
  ASSUME IInv, NEW d \in Pgdir, NEW a \in Page, NEW f \in Frame,
         \A e \in Pgdir, b \in Page : pte[e][b] # f,
         MapFrame(d, a, f, TRUE)
  PROVE  WritableIsMapped' /\ WritableIsPrivate'
<1>1. /\ \A e \in Pgdir, b \in Page : e # d \/ b # a => pte'[e][b] = pte[e][b]
      /\ pte'[d][a] = f
      /\ \A e \in Pgdir, b \in Page :
           b \in writable'[e] => b \in writable[e] \/ (e = d /\ b = a)
      /\ \A e \in Pgdir : writable[e] \subseteq Page /\ writable'[e] \subseteq Page
  BY TableTypes, Zenon DEF IInv, MapFrame
<1>2. None \notin Frame
  BY ProcAssumption, Zenon
<1>3. WritableIsMapped'
  BY <1>1, <1>2, ZenonT(40) DEF IInv, WritableIsMapped
<1>4. WritableIsPrivate'
  <2>1. SUFFICES ASSUME NEW e \in Pgdir, NEW b \in writable'[e],
                        NEW g \in Pgdir, NEW c \in Page, pte'[g][c] = pte'[e][b]
                 PROVE  g = e /\ c = b
    BY Zenon DEF WritableIsPrivate
  <2>2. b \in Page /\ (b \in writable[e] \/ (e = d /\ b = a))
    BY <1>1, Zenon
  <2>3. CASE e = d /\ b = a
    BY <1>1, <2>1, <2>3, ZenonT(40)
  <2>4. CASE ~(e = d /\ b = a)
    <3>1. b \in writable[e] /\ pte'[e][b] = pte[e][b] /\ pte[e][b] # f
      BY <1>1, <2>2, <2>4, Zenon
    <3>2. pte[g][c] = pte[e][b]
      BY <1>1, <2>1, <3>1, Zenon
    <3>3. QED
      BY <3>1, <3>2, Zenon DEF IInv, WritableIsPrivate
  <2>5. QED
    BY <2>3, <2>4, Zenon
<1>5. QED
  BY <1>3, <1>4, Zenon

(* Unmapping a page. *)
LEMMA Unmap ==
  ASSUME IInv, NEW d \in Pgdir, NEW a \in Page, MapFrame(d, a, None, FALSE)
  PROVE  WritableIsMapped' /\ WritableIsPrivate'
<1>1. /\ \A e \in Pgdir, b \in Page : e # d \/ b # a => pte'[e][b] = pte[e][b]
      /\ pte'[d][a] = None
      /\ \A e \in Pgdir, b \in Page :
           b \in writable'[e] => b \in writable[e] /\ (e # d \/ b # a)
      /\ \A e \in Pgdir : writable[e] \subseteq Page /\ writable'[e] \subseteq Page
  BY TableTypes, Zenon DEF IInv, MapFrame
<1>2. WritableIsMapped'
  BY <1>1, Zenon DEF IInv, WritableIsMapped
<1>3. WritableIsPrivate'
  <2>1. SUFFICES ASSUME NEW e \in Pgdir, NEW b \in writable'[e],
                        NEW g \in Pgdir, NEW c \in Page, pte'[g][c] = pte'[e][b]
                 PROVE  g = e /\ c = b
    BY Zenon DEF WritableIsPrivate
  <2>2. b \in Page /\ b \in writable[e] /\ (e # d \/ b # a)
    BY <1>1, Zenon
  <2>3. pte'[e][b] = pte[e][b] /\ pte[e][b] # None
    BY <1>1, <2>2, Zenon DEF IInv, WritableIsMapped
  <2>4. pte[g][c] = pte[e][b]
    BY <1>1, <2>1, <2>3, Zenon
  <2>5. QED
    BY <2>2, <2>4, Zenon DEF IInv, WritableIsPrivate
<1>4. QED
  BY <1>2, <1>3, Zenon

(* A frame is writable in one place only, and stays so in every step. *)
LEMMA WritableStep ==
  ASSUME IInv, Next
  PROVE  WritableIsMapped' /\ WritableIsPrivate'
<1> DEFINE Goal == WritableIsMapped' /\ WritableIsPrivate'
<1>0. TypeOK /\ WritableIsMapped /\ WritableIsPrivate
  BY Zenon DEF IInv
<1>1. CASE UNCHANGED tableVars
  BY <1>0, <1>1 DEF WritableIsMapped, WritableIsPrivate, tableVars
<1>2. ASSUME NEW f \in Frame, NEW d \in Pgdir, NEW a \in Page, kalloc(f),
             MapFrame(d, a, f, TRUE)
      PROVE  Goal
  BY <1>2, KallocFresh, MapFresh, Zenon DEF kalloc
<1>3. ASSUME NEW p \in Proc, NEW a \in Page, StackFault(p, a) \/ LazyFault(p, a) PROVE Goal
  <2>1. pgdir[p] \in Pgdir
    BY <1>3, OwnsDirs, Zenon DEF StackFault, LazyFault, AtPage, InUser
  <2>2. CASE LazyFault(p, a)
    BY <1>1, <1>2, <2>1, <2>2, Zenon DEF LazyFault
  <2>3. CASE StackFault(p, a)
    <3>1. USERTOP - stackSize[p] - 1 \in Page
      BY <1>0, <1>3, <2>3, StackGrowsInRange, Zenon DEF StackFault
    <3>2. QED
      BY <1>1, <1>2, <2>1, <2>3, <3>1, Zenon
         DEF StackFault, stackGrow, stackGrowRemap, stackGrowFails
  <2>4. QED
    BY <1>3, <2>2, <2>3, Zenon
<1>4. ASSUME NEW p \in Proc, CowReuse(p) PROVE Goal
  <2>1. /\ pgdir[p] \in Pgdir /\ va[p] \in Page /\ UNCHANGED pte
        /\ writable' = [writable EXCEPT ![pgdir[p]] = @ \cup {va[p]}]
        /\ pc[p] = "cow" /\ cnt[p] = 1
    BY <1>0, <1>4, OwnsDirs, TableTypes, Zenon DEF CowReuse
  <2>2. /\ pte[pgdir[p]][va[p]] # None
        /\ \A e \in Pgdir, b \in Page :
             pte[e][b] = pte[pgdir[p]][va[p]] => e = pgdir[p] /\ b = va[p]
    BY <2>1, Zenon DEF IInv, ThreadInv, OneMeansPrivate
  <2>3. \A d \in Pgdir : \A a \in writable'[d] :
          a \in writable[d] \/ (d = pgdir[p] /\ a = va[p])
    BY <1>0, <2>1, TableTypes, Zenon
  <2>4. QED
    <3>1. pte' = pte
      BY <2>1, Zenon
    <3>2. WritableIsMapped'
      BY <1>0, <2>2, <2>3, <3>1, Zenon DEF WritableIsMapped
    <3>3. ASSUME NEW d \in Pgdir, NEW a \in writable'[d], NEW e \in Pgdir, NEW b \in Page,
                 pte'[e][b] = pte'[d][a]
          PROVE  e = d /\ b = a
      <4>1. pte[e][b] = pte[d][a]
        BY <3>1, <3>3, Zenon
      <4>2. CASE a \in writable[d]
        BY <1>0, <4>1, <4>2, Zenon DEF WritableIsPrivate
      <4>3. CASE d = pgdir[p] /\ a = va[p]
        BY <2>2, <4>1, <4>3, Zenon
      <4>4. QED
        BY <2>3, <4>2, <4>3, Zenon
    <3>4. QED
      BY <3>2, <3>3, Zenon DEF WritableIsPrivate
<1>5. ASSUME NEW p \in Proc, CowCopy(p) PROVE Goal
  <2>1. /\ pgdir[p] \in Pgdir /\ va[p] \in Page /\ fr[p] \in Frame
        /\ MapFrame(pgdir[p], va[p], fr[p], TRUE)
        /\ \A e \in Pgdir, b \in Page : pte[e][b] # fr[p]
    BY <1>0, <1>5, OwnsDirs, TableTypes, Zenon DEF CowCopy, IInv, ThreadInv, CopyIsFresh
  <2>2. QED
    BY <2>1, MapFresh, Zenon
<1>6. ASSUME NEW p \in Proc, SbrkGrow(p) PROVE Goal
  <2>1. pgdir[p] \in Pgdir
    BY <1>6, OwnsDirs, Zenon DEF SbrkGrow, InUser
  <2>2. sz[p] \in Page
    BY <1>0, <1>6, MemoryAssumption DEF SbrkGrow, heapLimit, Page, TypeOK
  <2>3. QED
    BY <1>1, <1>2, <1>6, <2>1, <2>2, Zenon DEF SbrkGrow
<1>7. ASSUME NEW p \in Proc, SbrkShrink(p) PROVE Goal
  <2>1. pgdir[p] \in Pgdir
    BY <1>7, OwnsDirs, Zenon DEF SbrkShrink, InUser
  <2>2. sz[p] - 1 \in Page
    BY <1>0, <1>7, MemoryAssumption DEF SbrkShrink, Page, TypeOK
  <2>3. QED
    BY <1>1, <1>7, <2>1, <2>2, Unmap, Zenon DEF SbrkShrink, ReleasePage
<1>16. ASSUME NEW p \in Proc, SbrkFails(p) PROVE Goal
  <2>1. pgdir[p] \in Pgdir
    BY <1>16, OwnsDirs, Zenon DEF SbrkFails, InUser
  <2>2. sz[p] + 1 <= heapLimit(p) => sz[p] \in Page
    BY <1>0, MemoryAssumption DEF heapLimit, Page, TypeOK
  <2>3. QED
    BY <1>1, <1>16, <2>1, <2>2, Unmap, Zenon DEF SbrkFails, ReleasePage
<1>8. ASSUME NEW p \in Proc, NEW a \in Page, ForkMap(p, a) PROVE Goal
  <2>0. pc[p] = "fork" /\ pgdir[p] \in Pgdir /\ dir[p] \in Pgdir /\ pgdir[p] # dir[p]
        /\ a \in todo[p]
    BY <1>8, OwnsDirs, Zenon DEF ForkMap, Builders, IInv, DirOwned, IsFirst
  <2>1. CASE UNCHANGED tableVars
    BY <1>1, <2>1, Zenon
  <2>2. CASE writable' = [writable EXCEPT ![pgdir[p]] = @ \ {a}] /\ UNCHANGED pte
    <3>1. \A e \in Pgdir : \A b \in writable'[e] : b \in writable[e]
      BY <1>0, <2>0, <2>2, TableTypes, Zenon
    <3>2. QED
      <4>1. pte' = pte
        BY <2>2, Zenon
      <4>2. WritableIsMapped'
        BY <1>0, <3>1, <4>1, Zenon DEF WritableIsMapped
      <4>3. ASSUME NEW d \in Pgdir, NEW b \in writable'[d], NEW e \in Pgdir, NEW c \in Page,
                   pte'[e][c] = pte'[d][b]
            PROVE  e = d /\ c = b
        <5>1. pte[e][c] = pte[d][b] /\ b \in writable[d]
          BY <3>1, <4>1, <4>3, Zenon
        <5>2. QED
          BY <1>0, <5>1, Zenon DEF WritableIsPrivate
      <4>4. QED
        BY <4>2, <4>3, Zenon DEF WritableIsPrivate
  <2>3. CASE /\ pte[pgdir[p]][a] # None
             /\ pte' = [pte EXCEPT ![dir[p]][a] = pte[pgdir[p]][a]]
             /\ writable' = [writable EXCEPT ![pgdir[p]] = @ \ {a}]
    <3>1. /\ \A e \in Pgdir : \A b \in writable'[e] : b \in writable[e] /\ b \in Page
                                                  /\ (e # pgdir[p] \/ b # a)
          /\ \A e \in Pgdir, b \in Page : e # dir[p] \/ b # a => pte'[e][b] = pte[e][b]
          /\ pte'[dir[p]][a] = pte[pgdir[p]][a]
      BY <1>0, <2>0, <2>3, TableTypes, Zenon
    <3>2. pte[dir[p]][a] = None
      BY <2>0, Zenon DEF IInv, EmptyWhereUnused, UnownedIsEmpty, ForkAhead, ExecAhead
    <3>3. a \notin writable[dir[p]]
      BY <1>0, <2>0, <3>2, Zenon DEF WritableIsMapped
    <3>4. WritableIsMapped'
      BY <1>0, <2>3, <3>1 DEF WritableIsMapped
    <3>5. ASSUME NEW d \in Pgdir, NEW b \in writable'[d], NEW e \in Pgdir, NEW c \in Page,
                 pte'[e][c] = pte'[d][b]
          PROVE  e = d /\ c = b
      <4>1. pte'[d][b] = pte[d][b] /\ b \in writable[d] /\ (d # pgdir[p] \/ b # a)
        BY <3>1, <3>3, Zenon
      <4>2. CASE e = dir[p] /\ c = a
        BY <1>0, <2>0, <3>1, <3>5, <4>1, <4>2 DEF WritableIsPrivate
      <4>3. CASE e # dir[p] \/ c # a
        BY <1>0, <3>1, <3>5, <4>1, <4>3 DEF WritableIsPrivate
      <4>4. QED
        BY <4>2, <4>3, Zenon
    <3>6. QED
      BY <3>4, <3>5 DEF WritableIsPrivate
  <2>4. QED
    BY <1>8, <2>1, <2>2, <2>3, Zenon DEF ForkMap
<1>9. ASSUME NEW p \in Proc, ForkFree(p) \/ ExecFree(p) PROVE Goal
  <2>1. dir[p] \in Pgdir
    BY <1>9, OwnsDirs, Zenon DEF ForkFree, ExecFree, Builders
  <2>2. QED
    BY <1>1, <1>9, <2>1, Unmap, Zenon DEF ForkFree, ExecFree, ReleasePage
<1>10. ASSUME NEW p \in Proc, NEW a \in Page, ExecAlloc(p, a) PROVE Goal
  <2>1. dir[p] \in Pgdir
    BY <1>10, OwnsDirs, Zenon DEF ExecAlloc, Builders
  <2>2. QED
    BY <1>1, <1>2, <1>10, <2>1, Zenon DEF ExecAlloc
<1>11. ASSUME NEW p \in Proc, ExecStack(p) PROVE Goal
  <2>0. USERTOP - 1 \in Page
    BY MemoryAssumption DEF Page
  <2>1. dir[p] \in Pgdir /\ USERTOP - 1 \in Page
    BY <1>11, <2>0, OwnsDirs, Zenon DEF ExecStack, Builders
  <2>2. QED
    BY <1>1, <1>2, <1>11, <2>1, Zenon DEF ExecStack
<1>12. ASSUME NEW z \in Proc, WaitFree(z) PROVE Goal
  <2>1. pgdir[z] \in Pgdir
    BY <1>12, OwnsDirs, Zenon DEF WaitFree
  <2>2. QED
    BY <1>1, <1>12, <2>1, Unmap, Zenon DEF WaitFree, ReleasePage
<1>13. ASSUME NEW p \in Proc,
              \/ NullFault(p) \/ CowAlloc(p) \/ CowDecrease(p) \/ Exit(p)
              \/ ForkIncrease(p) \/ ForkDone(p)
              \/ \E a \in Page : FaultCount(p, a)
              \/ \E c \in Proc, d \in Pgdir : ForkStart(p, c, d)
              \/ ExecBad(p) \/ \E d \in Pgdir : ExecStart(p, d)
              \/ \E a \in Page, v \in Value : Store(p, a, v)
       PROVE  Goal
  BY <1>1, <1>13, Zenon DEF NullFault, CowAlloc, CowDecrease, Exit, ForkIncrease, ForkDone,
     FaultCount, ForkStart, ExecStart, ExecBad, Store
<1>14. ASSUME KernelAlloc \/ KernelFree PROVE Goal
  BY <1>1, <1>14, Zenon DEF KernelAlloc, KernelFree
<1>15. QED
  BY <1>3, <1>4, <1>5, <1>6, <1>7, <1>8, <1>9, <1>10, <1>11, <1>12, <1>13, <1>14, <1>16, Zenon
     DEF Next, Fault, Fork, Exec

-----------------------------------------------------------------------------
(* Holders of frames. *)

(* When a mapping is not counted yet. *)
Pending(d, a) == \E p \in Proc : pc[p] = "forkInc" /\ dir[p] = d /\ va[p] = a

(* What the counts tell of the holders of one frame.  The two conjuncts    *)
(* follow from CountIsExact (CountsTellHolders in CopyOnWriteProofs); the   *)
(* lemmas below use no more of it.                                          *)
CountsTell ==
  /\ \A f \in Frame :
       \/ \E d \in Pgdir, a \in Page : pte[d][a] = f /\ ~Pending(d, a)
       \/ \E p \in Proc : pc[p] \in {"copy", "dec"} /\ fr[p] = f
       \/ f \in kheld
       => refCount[f] >= 1
  /\ \A d, e \in Pgdir, a, b \in Page :
       /\ pte[d][a] \in Frame /\ refCount[pte[d][a]] = 1
       /\ pte[e][b] = pte[d][a] /\ ~Pending(d, a) /\ ~Pending(e, b)
       => e = d /\ b = a

(* Whoever holds a frame keeps its count above zero. *)
LEMMA HeldIsCounted ==
  ASSUME IInv, CountsTell, NEW f \in Frame,
         \/ \E d \in Pgdir, a \in Page : pte[d][a] = f /\ ~Pending(d, a)
         \/ \E p \in Proc : pc[p] \in {"copy", "dec"} /\ fr[p] = f
         \/ f \in kheld
  PROVE  refCount[f] \in 0..UINT_MAX /\ refCount[f] >= 1
<1>1. refCount[f] \in 0..UINT_MAX
  BY FrameTypes, Zenon DEF IInv
<1>2. refCount[f] >= 1
  BY Zenon DEF CountsTell
<1>3. QED
  BY <1>1, <1>2, Zenon

(* The entries of a directory its process runs on, or frees, are counted.  *)
LEMMA NotPending ==
  ASSUME IInv, NEW p \in Proc
  PROVE  /\ pgdir[p] # None => \A a \in Page : ~Pending(pgdir[p], a)
         /\ pc[p] \in {"fork", "forkFree", "exec", "free"} =>
              \A a \in Page : ~Pending(dir[p], a)
BY ProcAssumption, Zenon DEF IInv, DirOwned, Pending, Builders

(* So deallocuvm never finds a count of 0 and never pushes a frame that is *)
(* still mapped on the free list.                                          *)
LEMMA ReleaseHeld ==
  ASSUME IInv, CountsTell, NEW d \in Pgdir, NEW a \in Page, pte[d][a] # None, ~Pending(d, a),
         ReleasePage(d, a)
  PROVE  /\ pte[d][a] \in Frame
         /\ refCount' = [refCount EXCEPT ![pte[d][a]] = @ - 1]
         /\ refCount[pte[d][a]] \in 0..UINT_MAX /\ refCount[pte[d][a]] >= 1
         /\ UNCHANGED <<freelist, PhysicalPageTotal>>
<1>1. pte[d][a] \in Frame
  BY TableTypes DEF IInv
<1>2. refCount[pte[d][a]] \in 0..UINT_MAX /\ refCount[pte[d][a]] >= 1
  BY <1>1, HeldIsCounted, Zenon
<1>3. UINT_MAX \in Nat
  BY CountAssumption, Zenon
<1>4. refCount[pte[d][a]] # 0
  BY <1>2, <1>3
<1>5. QED
  BY <1>1, <1>2, <1>4, Zenon DEF ReleasePage, kfree

-----------------------------------------------------------------------------
(* What a step of one process leaves alone. *)

(* A frame p has just taken from the free list, or holds as newPage. *)
New(p, x) ==
  \/ freelist # <<>> /\ x = Head(freelist) /\ freelist' = Tail(freelist)
  \/ pc[p] = "copy" /\ x = fr[p]

(* A frame mapped by the directory p runs on. *)
Own(p, x) == pgdir[p] \in Pgdir /\ \E a \in Page : x = pte[pgdir[p]][a]

(* A step of p changes only the tables p runs on or builds, and maps only  *)
(* new frames and its own.                                                 *)
ConfinedTables(p) ==
  /\ \A e \in Pgdir : e \notin {pgdir[p], dir[p]} =>
       pte'[e] = pte[e] /\ writable'[e] = writable[e]
  /\ \A e \in Pgdir, b \in Page :
       \/ pte'[e][b] \in {pte[e][b], None}
       \/ pte'[e][b] \in Frame /\ (New(p, pte'[e][b]) \/ Own(p, pte'[e][b]))

(* It leaves the handlers of other processes alone. *)
ConfinedHandlers(p) ==
  /\ \A q \in Proc : q # p =>
       /\ pc'[q] = pc[q]
       /\ pc[q] # "user" => /\ pgdir'[q] = pgdir[q] /\ dir'[q] = dir[q]
                            /\ va'[q] = va[q] /\ cnt'[q] = cnt[q] /\ fr'[q] = fr[q]
  /\ pc'[p] \in {"copy", "dec"} =>
       fr'[p] \in Frame /\ (New(p, fr'[p]) \/ Own(p, fr'[p]))

(* It may take one frame from the list, and puts none on it. *)
ConfinedLists(p) ==
  /\ \/ freelist' = freelist
     \/ freelist # <<>> /\ freelist' = Tail(freelist)
  /\ kheld' = kheld
  /\ \A x \in lost' : x \in lost \/ New(p, x)

Confined(p) == ConfinedTables(p) /\ ConfinedHandlers(p) /\ ConfinedLists(p)

(* What mappages changes: one entry of one directory. *)
LEMMA MapFrameAt ==
  ASSUME TypeOK, NEW d \in Pgdir, NEW a \in Page, NEW f, NEW w \in BOOLEAN,
         MapFrame(d, a, f, w)
  PROVE  /\ \A e \in Pgdir : e # d => pte'[e] = pte[e] /\ writable'[e] = writable[e]
         /\ \A e \in Pgdir, b \in Page : e # d \/ b # a => pte'[e][b] = pte[e][b]
         /\ pte'[d][a] = f
         /\ writable'[d] = IF w THEN writable[d] \cup {a} ELSE writable[d] \ {a}
BY TableTypes, Zenon DEF MapFrame

(* The handler variables of the other processes survive Idle(p). *)
LEMMA IdleOthers ==
  ASSUME TypeOK, NEW p \in Proc, Idle(p)
  PROVE  /\ pc'[p] = "user"
         /\ \A q \in Proc : q # p =>
              /\ pc'[q] = pc[q] /\ dir'[q] = dir[q]
              /\ va'[q] = va[q] /\ cnt'[q] = cnt[q] /\ fr'[q] = fr[q]
BY OwnerTypes, TableTypes, Zenon DEF Idle

(* Mapping a new frame, or unmapping a page, in a table of p. *)
LEMMA ConfinedMap ==
  ASSUME TypeOK, NEW p \in Proc, NEW d \in Pgdir, d \in {pgdir[p], dir[p]},
         NEW a \in Page, NEW f, f = None \/ (f \in Frame /\ New(p, f)),
         NEW w \in BOOLEAN, MapFrame(d, a, f, w)
  PROVE  ConfinedTables(p)
<1>1. \A e \in Pgdir : e # d => pte'[e] = pte[e] /\ writable'[e] = writable[e]
  BY TableTypes, Zenon DEF MapFrame
<1>2. \A e \in Pgdir, b \in Page : e # d \/ b # a => pte'[e][b] = pte[e][b]
  BY TableTypes, Zenon DEF MapFrame
<1>3. pte'[d][a] = f
  BY TableTypes, Zenon DEF MapFrame
<1>4. QED
  BY <1>1, <1>2, <1>3, Zenon DEF ConfinedTables

(* A step that stays where it is, in user mode. *)
LEMMA ConfinedStay ==
  ASSUME NEW p \in Proc, pc[p] = "user", UNCHANGED <<pgdir, threadVars>>
  PROVE  ConfinedHandlers(p)
BY Zenon DEF ConfinedHandlers, threadVars

(* A step that changes no page table is confined. *)
LEMMA ConfinedSame ==
  ASSUME NEW p \in Proc, UNCHANGED tableVars
  PROVE  ConfinedTables(p)
BY Zenon DEF ConfinedTables, tableVars

(* kalloc is all a handler does to the lists. *)
LEMMA ConfinedKalloc ==
  ASSUME NEW p \in Proc, NEW f, kalloc(f) \/ kallocAndFree(f), UNCHANGED kheld,
         lost' = lost \/ lost' = lost \cup {f}
  PROVE  ConfinedLists(p) /\ New(p, f)
BY Zenon DEF kalloc, kallocAndFree, ConfinedLists, New

(* PageFault touches only the tables of the faulting process. *)
LEMMA ConfinedFault ==
  ASSUME IInv, NEW p \in Proc, Fault(p)
  PROVE  Confined(p)
<1>0. TypeOK
  BY Zenon DEF IInv
<1>1. CASE NullFault(p)
  BY <1>1, ConfinedStay, ConfinedSame, Zenon
     DEF NullFault, Confined, ConfinedLists, frameVars, AtPage, InUser
<1>2. ASSUME NEW a \in Page, StackFault(p, a) PROVE Confined(p)
  <2>1. /\ pc[p] = "user" /\ UNCHANGED <<pgdir, threadVars>> /\ pgdir[p] \in Pgdir
        /\ USERTOP - stackSize[p] - 1 \in Page
    BY <1>0, <1>2, OwnsDirs, StackGrowsInRange, Zenon DEF StackFault, AtPage, InUser
  <2>2. ConfinedHandlers(p)
    BY <2>1, ConfinedStay, Zenon
  <2>3. ASSUME NEW f \in Frame, stackGrow(p, f) PROVE Confined(p)
    BY <1>0, <2>1, <2>2, <2>3, ConfinedKalloc, ConfinedMap, Zenon DEF stackGrow, Confined
  <2>4. ASSUME NEW f \in Frame, stackGrowRemap(p, f) PROVE Confined(p)
    BY <2>2, <2>4, ConfinedKalloc, ConfinedSame, Zenon DEF stackGrowRemap, Confined
  <2>5. CASE stackGrowFails(p)
    BY <2>2, <2>5, ConfinedKalloc, ConfinedSame, Zenon
       DEF stackGrowFails, Confined, ConfinedLists, frameVars
  <2>6. QED
    BY <1>2, <2>3, <2>4, <2>5, Zenon DEF StackFault
<1>3. ASSUME NEW a \in Page, LazyFault(p, a) PROVE Confined(p)
  <2>1. pc[p] = "user" /\ UNCHANGED <<pgdir, threadVars>> /\ pgdir[p] \in Pgdir
    BY <1>3, OwnsDirs, Zenon DEF LazyFault, AtPage, InUser
  <2>2. ConfinedHandlers(p)
    BY <2>1, ConfinedStay, Zenon
  <2>3. CASE UNCHANGED <<frameVars, tableVars>>
    BY <2>2, <2>3, ConfinedSame, Zenon DEF Confined, ConfinedLists, frameVars
  <2>4. ASSUME NEW f \in Frame, kalloc(f), MapFrame(pgdir[p], a, f, TRUE),
               UNCHANGED <<lost, kheld>>
        PROVE  Confined(p)
    BY <1>0, <2>1, <2>2, <2>4, ConfinedKalloc, ConfinedMap, Zenon DEF Confined
  <2>5. ASSUME NEW f \in Frame, kalloc(f), lost' = lost \cup {f},
               UNCHANGED <<tableVars, kheld>>
        PROVE  Confined(p)
    BY <2>2, <2>5, ConfinedKalloc, ConfinedSame, Zenon DEF Confined
  <2>6. QED
    BY <1>3, <2>3, <2>4, <2>5, Zenon DEF LazyFault
<1>4. ASSUME NEW a \in Page, FaultCount(p, a) PROVE Confined(p)
  <2>1. /\ pc[p] = "user" /\ UNCHANGED <<pgdir, dir, fr, frameVars, tableVars>>
        /\ \/ UNCHANGED threadVars
           \/ /\ pc' = [pc EXCEPT ![p] = "cow"] /\ va' = [va EXCEPT ![p] = a]
              /\ cnt' = [cnt EXCEPT ![p] = refCount[pte[pgdir[p]][a]]]
    BY <1>4, Zenon DEF FaultCount, AtPage, InUser, threadVars
  <2>2. ConfinedHandlers(p)
    BY <1>0, <2>1, TableTypes, SMTT(20) DEF ConfinedHandlers, threadVars
  <2>3. QED
    BY <2>1, <2>2, ConfinedSame, Zenon DEF Confined, ConfinedLists, frameVars
<1>5. ASSUME Idle(p), UNCHANGED <<freelist, kheld, lost, pte, pgdir>>,
             pgdir[p] \in Pgdir, \A e \in Pgdir : e # pgdir[p] => writable'[e] = writable[e]
      PROVE  Confined(p)
  BY <1>0, <1>5, IdleOthers
     DEF Confined, ConfinedTables, ConfinedHandlers, ConfinedLists
<1>6. CASE CowReuse(p) \/ CowDecrease(p)
  <2>1. pgdir[p] \in Pgdir
    BY <1>6, OwnsDirs, Zenon DEF CowReuse, CowDecrease
  <2>2. QED
    BY <1>0, <1>5, <1>6, <2>1, TableTypes, Zenon
       DEF CowReuse, CowDecrease, frameVars, tableVars, procVars
<1>7. CASE CowAlloc(p)
  <2>1. pgdir[p] \in Pgdir /\ UNCHANGED <<pgdir, tableVars>>
    BY <1>7, OwnsDirs, Zenon DEF CowAlloc
  <2>2. CASE Idle(p) /\ UNCHANGED frameVars
    BY <1>5, <2>1, <2>2, Zenon DEF frameVars, tableVars
  <2>3. ASSUME NEW f \in Frame, kalloc(f), pc' = [pc EXCEPT ![p] = "copy"],
               fr' = [fr EXCEPT ![p] = f],
               UNCHANGED <<kheld, lost, va, cnt, dir>>
        PROVE  Confined(p)
    <3>1. New(p, f) /\ ConfinedLists(p)
      BY <2>3, ConfinedKalloc, Zenon
    <3>2. ConfinedHandlers(p)
      BY <1>0, <2>1, <2>3, <3>1, TableTypes, Zenon DEF ConfinedHandlers
    <3>3. QED
      BY <2>1, <3>1, <3>2, ConfinedSame, Zenon DEF Confined
  <2>4. QED
    BY <1>7, <2>2, <2>3, Zenon DEF CowAlloc
<1>8. CASE CowCopy(p)
  <2>1. /\ pgdir[p] \in Pgdir /\ va[p] \in Page /\ fr[p] \in Frame
        /\ pte[pgdir[p]][va[p]] \in Frame
    BY <1>0, <1>8, OwnsDirs, TableTypes DEF CowCopy, IInv, ThreadInv
  <2>2. /\ MapFrame(pgdir[p], va[p], fr[p], TRUE)
        /\ fr' = [fr EXCEPT ![p] = pte[pgdir[p]][va[p]]]
        /\ pc' = [pc EXCEPT ![p] = "dec"]
        /\ UNCHANGED <<freelist, kheld, lost, pgdir, dir, va, cnt>>
    BY <1>8, Zenon DEF CowCopy, procVars
  <2>3. New(p, fr[p]) /\ Own(p, pte[pgdir[p]][va[p]])
    BY <1>8, <2>1, Zenon DEF CowCopy, New, Own
  <2>4. ConfinedTables(p)
    BY <1>0, <2>1, <2>2, <2>3, ConfinedMap, Zenon
  <2>5. ConfinedHandlers(p)
    BY <1>0, <2>1, <2>2, <2>3, TableTypes, Zenon DEF ConfinedHandlers
  <2>6. QED
    BY <2>2, <2>4, <2>5, Zenon DEF Confined, ConfinedLists
<1>9. QED
  BY <1>1, <1>2, <1>3, <1>4, <1>6, <1>7, <1>8, Zenon DEF Fault

(* freevm and deallocuvm put no frame on the list. *)
LEMMA ConfinedRelease ==
  ASSUME IInv, CountsTell, NEW p \in Proc, NEW d \in Pgdir, NEW a \in Page, pte[d][a] # None,
         \/ d = pgdir[p]
         \/ d = dir[p] /\ pc[p] \in {"forkFree", "free"},
         ReleasePage(d, a), UNCHANGED <<kheld, lost>>
  PROVE  ConfinedTables(p) /\ ConfinedLists(p) /\ UNCHANGED <<freelist, PhysicalPageTotal>>
<1>1. ~Pending(d, a)
  BY NotPending, ProcAssumption, Zenon
<1>2. UNCHANGED <<freelist, PhysicalPageTotal>>
  BY <1>1, ReleaseHeld, Zenon
<1>3. ConfinedTables(p)
  BY ConfinedMap, Zenon DEF ReleasePage, IInv
<1>4. QED
  BY <1>2, <1>3, Zenon DEF ConfinedLists

(* sbrk touches only the table of its caller. *)
LEMMA ConfinedSbrk ==
  ASSUME IInv, CountsTell, NEW p \in Proc, SbrkGrow(p) \/ SbrkShrink(p) \/ SbrkFails(p)
  PROVE  Confined(p)
<1>0. TypeOK
  BY Zenon DEF IInv
<1>1. /\ pc[p] = "user" /\ UNCHANGED <<pgdir, threadVars, kheld>> /\ pgdir[p] \in Pgdir
  BY OwnsDirs, Zenon DEF SbrkGrow, SbrkShrink, SbrkFails, InUser
<1>2. ConfinedHandlers(p)
  BY <1>1, ConfinedStay, Zenon
<1>3. CASE SbrkGrow(p)
  <2>1. sz[p] \in Page
    BY <1>0, <1>3, MemoryAssumption DEF SbrkGrow, heapLimit, Page, TypeOK
  <2>2. PICK f \in Frame :
          \/ kalloc(f) /\ MapFrame(pgdir[p], sz[p], f, TRUE) /\ UNCHANGED lost
          \/ kalloc(f) /\ lost' = lost \cup {f} /\ UNCHANGED tableVars
          \/ kallocAndFree(f) /\ UNCHANGED <<lost, tableVars>>
    BY <1>3, Zenon DEF SbrkGrow
  <2>3. ConfinedLists(p) /\ New(p, f)
    BY <1>1, <2>2, ConfinedKalloc, Zenon
  <2>4. ConfinedTables(p)
    BY <1>0, <1>1, <2>1, <2>2, <2>3, ConfinedMap, ConfinedSame, Zenon
  <2>5. QED
    BY <1>2, <2>3, <2>4, Zenon DEF Confined
<1>4. CASE SbrkShrink(p)
  <2>1. sz[p] - 1 \in Page /\ UNCHANGED <<kheld, lost>>
    BY <1>0, <1>4, MemoryAssumption DEF SbrkShrink, Page, TypeOK
  <2>2. CASE pte[pgdir[p]][sz[p] - 1] # None
    BY <1>1, <1>2, <1>4, <2>1, <2>2, ConfinedRelease, Zenon DEF SbrkShrink, Confined
  <2>3. CASE pte[pgdir[p]][sz[p] - 1] = None
    BY <1>2, <1>4, <2>1, <2>3, ConfinedSame, Zenon DEF SbrkShrink, Confined, ConfinedLists
  <2>4. QED
    BY <2>2, <2>3, Zenon
<1>5. CASE SbrkFails(p)
  <2>1. UNCHANGED <<kheld, lost>>
    BY <1>5, Zenon DEF SbrkFails
  <2>2. CASE /\ sz[p] + 1 <= heapLimit(p) /\ pte[pgdir[p]][sz[p]] # None
             /\ ReleasePage(pgdir[p], sz[p])
    <3>1. sz[p] \in Page
      BY <1>0, <2>2, MemoryAssumption DEF heapLimit, Page, TypeOK
    <3>2. QED
      BY <1>1, <1>2, <2>1, <2>2, <3>1, ConfinedRelease, Zenon DEF Confined
  <2>3. CASE UNCHANGED <<freelist, refCount, PhysicalPageTotal, tableVars>>
    BY <1>2, <2>1, <2>3, ConfinedSame, Zenon DEF Confined, ConfinedLists
  <2>4. QED
    BY <1>5, <2>2, <2>3, Zenon DEF SbrkFails
<1>6. QED
  BY <1>3, <1>4, <1>5, Zenon

(* fork touches the tables of parent and child, which no other process has. *)
LEMMA ConfinedFork ==
  ASSUME IInv, CountsTell, NEW p \in Proc, Fork(p)
  PROVE  Confined(p)
<1>0. TypeOK
  BY Zenon DEF IInv
<1>1. ASSUME NEW c \in Proc, NEW d \in Pgdir, ForkStart(p, c, d) PROVE Confined(p)
  <2>1. /\ pc[p] = "user" /\ UNCHANGED <<pgdir, va, cnt, fr, frameVars, tableVars>>
        /\ pc' = [pc EXCEPT ![p] = "fork"] /\ dir' = [dir EXCEPT ![p] = d]
    BY <1>1, Zenon DEF ForkStart, InUser
  <2>2. ConfinedHandlers(p)
    BY <1>0, <2>1, TableTypes, Zenon DEF ConfinedHandlers
  <2>3. QED
    BY <2>1, <2>2, ConfinedSame, Zenon DEF Confined, ConfinedLists, frameVars
<1>2. ASSUME NEW a \in Page, ForkMap(p, a) PROVE Confined(p)
  <2>1. /\ pc[p] = "fork" /\ pgdir[p] \in Pgdir /\ dir[p] \in Pgdir
        /\ UNCHANGED <<pgdir, dir, cnt, fr, frameVars>>
    BY <1>2, OwnsDirs, Zenon DEF ForkMap, Builders
  <2>2. /\ \/ UNCHANGED pc
           \/ pc' = [pc EXCEPT ![p] = "forkInc"]
           \/ pc' = [pc EXCEPT ![p] = "forkFree"]
        /\ UNCHANGED va \/ va' = [va EXCEPT ![p] = a]
    BY <1>2, Zenon DEF ForkMap
  <2>3. ConfinedHandlers(p)
    BY <1>0, <2>1, <2>2, TableTypes, Zenon DEF ConfinedHandlers
  <2>4. /\ UNCHANGED writable \/ writable' = [writable EXCEPT ![pgdir[p]] = @ \ {a}]
        /\ \/ UNCHANGED pte
           \/ /\ pte[pgdir[p]][a] # None
              /\ pte' = [pte EXCEPT ![dir[p]][a] = pte[pgdir[p]][a]]
    BY <1>2, Zenon DEF ForkMap, tableVars
  <2>5. ConfinedTables(p)
    <3>1. pte[pgdir[p]][a] # None => pte[pgdir[p]][a] \in Frame /\ Own(p, pte[pgdir[p]][a])
      BY <1>0, <2>1, TableTypes DEF Own
    <3>2. QED
      BY <1>0, <2>1, <2>4, <3>1, TableTypes, SMTT(30) DEF ConfinedTables
  <2>6. QED
    BY <2>1, <2>3, <2>5, Zenon DEF Confined, ConfinedLists, frameVars
<1>3. CASE ForkIncrease(p)
  <2>1. /\ pc[p] = "forkInc" /\ UNCHANGED <<pgdir, cnt, fr, dir, freelist, kheld, lost, tableVars>>
        /\ pc' = [pc EXCEPT ![p] = "fork"] /\ va' = [va EXCEPT ![p] = 0]
    BY <1>3, Zenon DEF ForkIncrease, procVars
  <2>2. ConfinedHandlers(p)
    BY <1>0, <2>1, TableTypes, Zenon DEF ConfinedHandlers
  <2>3. QED
    BY <2>1, <2>2, ConfinedSame, Zenon DEF Confined, ConfinedLists
<1>4. CASE ForkDone(p)
  <2>1. child[p] \in Proc /\ pc[child[p]] = "user" /\ pgdir' = [pgdir EXCEPT ![child[p]] = dir[p]]
    BY <1>4, Zenon DEF ForkDone, IInv, ChildOwned, DirOwned, Forkers
  <2>2. ConfinedHandlers(p)
    BY <1>0, <1>4, <2>1, IdleOthers, TableTypes DEF ForkDone, ConfinedHandlers
  <2>3. QED
    BY <1>4, <2>2, ConfinedSame, Zenon DEF ForkDone, Confined, ConfinedLists, frameVars
<1>5. CASE ForkFree(p)
  <2>1. pc[p] = "forkFree" /\ dir[p] \in Pgdir /\ UNCHANGED <<pgdir, kheld, lost>>
    BY <1>5, OwnsDirs, Zenon DEF ForkFree, Builders
  <2>2. ASSUME NEW a \in Page, IsFirst(a, Mapped(dir[p])), ReleasePage(dir[p], a),
               UNCHANGED threadVars
        PROVE  Confined(p)
    <3>1. pte[dir[p]][a] # None
      BY <2>2, Zenon DEF IsFirst, Mapped
    <3>2. ConfinedHandlers(p)
      BY <2>1, <2>2, Zenon DEF ConfinedHandlers, threadVars
    <3>3. QED
      BY <2>1, <2>2, <3>1, <3>2, ConfinedRelease, Zenon DEF Confined
  <2>3. CASE Idle(p) /\ UNCHANGED <<freelist, tableVars>>
    <3>1. ConfinedHandlers(p)
      BY <1>0, <2>1, <2>3, IdleOthers, Zenon DEF ConfinedHandlers
    <3>2. QED
      BY <2>1, <2>3, <3>1, ConfinedSame, Zenon DEF Confined, ConfinedLists
  <2>4. QED
    BY <1>5, <2>2, <2>3, Zenon DEF ForkFree
<1>6. QED
  BY <1>1, <1>2, <1>3, <1>4, <1>5, Zenon DEF Fork

(* exec touches only the directory it is building or freeing. *)
LEMMA ConfinedExec ==
  ASSUME IInv, CountsTell, NEW p \in Proc, Exec(p)
  PROVE  Confined(p)
<1>0. TypeOK
  BY DEF IInv
<1>1. ASSUME NEW d \in Pgdir, ExecStart(p, d) PROVE Confined(p)
  <2>1. /\ pc[p] = "user" /\ UNCHANGED <<pgdir, va, cnt, fr, frameVars, tableVars>>
        /\ pc' = [pc EXCEPT ![p] = "exec"] /\ dir' = [dir EXCEPT ![p] = d]
    BY <1>1, Zenon DEF ExecStart, InUser, procVars
  <2>2. ConfinedHandlers(p)
    BY <1>0, <2>1, TableTypes, Zenon DEF ConfinedHandlers
  <2>3. QED
    BY <2>1, <2>2, ConfinedSame, Zenon DEF Confined, ConfinedLists, frameVars
<1>2. ASSUME allocFails, UNCHANGED <<kheld, lost>> PROVE ConfinedLists(p)
  BY <1>2, ConfinedKalloc, Zenon DEF allocFails, ConfinedLists
<1>3. ASSUME NEW a \in Page, ExecAlloc(p, a) PROVE Confined(p)
  <2>1. /\ pc[p] = "exec" /\ dir[p] \in Pgdir
        /\ UNCHANGED <<pgdir, dir, va, cnt, fr, kheld, lost>>
    BY <1>3, OwnsDirs, Zenon DEF ExecAlloc, Builders, procVars
  <2>2. ConfinedHandlers(p)
    BY <1>0, <1>3, <2>1, TableTypes, Zenon DEF ExecAlloc, ConfinedHandlers
  <2>3. ASSUME NEW f \in Frame, kalloc(f), MapFrame(dir[p], a, f, TRUE) PROVE Confined(p)
    BY <1>0, <2>1, <2>2, <2>3, ConfinedKalloc, ConfinedMap, Zenon DEF Confined
  <2>4. CASE allocFails /\ UNCHANGED tableVars
    BY <1>2, <2>1, <2>2, <2>4, ConfinedSame, Zenon DEF Confined
  <2>5. QED
    BY <1>3, <2>3, <2>4, Zenon DEF ExecAlloc
<1>4. CASE ExecStack(p)
  <2>1. /\ pc[p] = "exec" /\ pc' = [pc EXCEPT ![p] = "free"]
        /\ UNCHANGED <<va, cnt, fr, kheld, lost>>
        /\ \/ pgdir' = [pgdir EXCEPT ![p] = dir[p]] /\ dir' = [dir EXCEPT ![p] = pgdir[p]]
           \/ UNCHANGED <<pgdir, dir>>
    BY <1>4, Zenon DEF ExecStack
  <2>2. ConfinedHandlers(p)
    BY <1>0, <2>1, TableTypes, Zenon DEF ConfinedHandlers
  <2>0. USERTOP - 1 \in Page /\ dir[p] \in Pgdir
    BY <2>1, OwnsDirs, MemoryAssumption DEF Builders, Page
  <2>3. ASSUME NEW f \in Frame, kalloc(f), MapFrame(dir[p], USERTOP - 1, f, TRUE)
        PROVE  Confined(p)
    BY <1>0, <2>0, <2>1, <2>2, <2>3, ConfinedKalloc, ConfinedMap, Zenon DEF Confined
  <2>4. CASE allocFails /\ UNCHANGED tableVars
    BY <1>2, <2>1, <2>2, <2>4, ConfinedSame, Zenon DEF Confined
  <2>5. QED
    BY <1>4, <2>3, <2>4, Zenon DEF ExecStack
<1>5. CASE ExecFree(p)
  <2>1. pc[p] = "free" /\ dir[p] \in Pgdir /\ UNCHANGED <<pgdir, kheld, lost>>
    BY <1>5, OwnsDirs, Zenon DEF ExecFree, Builders, procVars
  <2>2. ASSUME NEW a \in Page, IsFirst(a, Mapped(dir[p])), ReleasePage(dir[p], a),
               UNCHANGED threadVars
        PROVE  Confined(p)
    <3>1. pte[dir[p]][a] # None
      BY <2>2 DEF IsFirst, Mapped
    <3>2. ConfinedHandlers(p)
      BY <2>1, <2>2, Zenon DEF ConfinedHandlers, threadVars
    <3>3. QED
      BY <2>1, <2>2, <3>1, <3>2, ConfinedRelease, Zenon DEF Confined
  <2>3. CASE Idle(p) /\ UNCHANGED <<freelist, tableVars>>
    <3>1. ConfinedHandlers(p)
      BY <1>0, <2>1, <2>3, IdleOthers, Zenon DEF ConfinedHandlers
    <3>2. QED
      BY <2>1, <2>3, <3>1, ConfinedSame, Zenon DEF Confined, ConfinedLists
  <2>4. QED
    BY <1>5, <2>2, <2>3, Zenon DEF ExecFree
<1>6. CASE ExecBad(p)
  <2>1. /\ pc[p] = "exec" /\ UNCHANGED <<pgdir, va, cnt, fr, dir, child, todo>>
        /\ pc' = [pc EXCEPT ![p] = "free"]
        /\ UNCHANGED <<frameVars, tableVars>>
    BY <1>6, Zenon DEF ExecBad, procVars
  <2>2. ConfinedHandlers(p)
    BY <1>0, <2>1, TableTypes, Zenon DEF ConfinedHandlers
  <2>3. QED
    BY <2>1, <2>2, ConfinedSame, Zenon DEF Confined, ConfinedLists, frameVars
<1>7. QED
  BY <1>1, <1>3, <1>4, <1>5, <1>6, Zenon DEF Exec

(* exit, wait and user code stay within the tables of the process. *)
LEMMA ConfinedExit ==
  ASSUME IInv, CountsTell, NEW p \in Proc,
         \/ \E a \in Page, v \in Value : Store(p, a, v)
         \/ Exit(p) \/ WaitFree(p)
  PROVE  Confined(p)
<1>0. TypeOK /\ (state[p] # "RUNNABLE" => pc[p] = "user")
  BY Zenon DEF IInv, DirOwned
<1>1. CASE Exit(p) \/ \E a \in Page, v \in Value : Store(p, a, v)
  BY <1>1, ConfinedStay, ConfinedSame, Zenon
     DEF Exit, Store, Confined, ConfinedLists, frameVars,
     procVars, AtPage, InUser
<1>2. CASE WaitFree(p)
  <2>1. pc[p] = "user" /\ pgdir[p] \in Pgdir /\ UNCHANGED <<threadVars, kheld, lost>>
    BY <1>0, <1>2, OwnsDirs, Zenon DEF WaitFree
  <2>2. ASSUME NEW a \in Page, IsFirst(a, Mapped(pgdir[p])), ReleasePage(pgdir[p], a),
               UNCHANGED pgdir
        PROVE  Confined(p)
    <3>1. pte[pgdir[p]][a] # None
      BY <2>2, Zenon DEF IsFirst, Mapped
    <3>2. QED
      BY <2>1, <2>2, <3>1, ConfinedRelease, ConfinedStay, Zenon DEF Confined
  <2>3. CASE pgdir' = [pgdir EXCEPT ![p] = None] /\ UNCHANGED <<freelist, tableVars>>
    <3>1. ConfinedHandlers(p)
      BY <1>0, <2>1, <2>3, OwnerTypes, Zenon DEF ConfinedHandlers, threadVars
    <3>2. QED
      BY <2>1, <2>3, <3>1, ConfinedSame, Zenon DEF Confined, ConfinedLists
  <2>4. QED
    BY <1>2, <2>2, <2>3, Zenon DEF WaitFree
<1>3. QED
  BY <1>1, <1>2, Zenon

(* Where the handler of p may be after a step of p that establishes        *)
(* nothing about a page or a frame.                                        *)
Between == {"user", "fork", "forkFree", "exec", "free"}

(* Those steps leave the handler in one of the places of Between. *)
LEMMA QuietStep ==
  ASSUME IInv, NEW p \in Proc,
         \/ NullFault(p)
         \/ \E a \in Page : StackFault(p, a) \/ LazyFault(p, a)
         \/ CowReuse(p) \/ CowDecrease(p)
         \/ SbrkGrow(p) \/ SbrkShrink(p) \/ SbrkFails(p)
         \/ \E c \in Proc, d \in Pgdir : ForkStart(p, c, d)
         \/ ForkIncrease(p) \/ ForkDone(p) \/ ForkFree(p)
         \/ Exec(p) \/ Exit(p) \/ WaitFree(p)
         \/ \E a \in Page, v \in Value : Store(p, a, v)
  PROVE  pc'[p] \in Between
<1>0. TypeOK /\ pc \in [Proc -> PC] /\ (state[p] # "RUNNABLE" => pc[p] = "user")
  BY Zenon DEF IInv, DirOwned, TypeOK
<1>1. CASE \/ NullFault(p) \/ SbrkGrow(p) \/ SbrkShrink(p) \/ SbrkFails(p)
           \/ \E a \in Page : StackFault(p, a) \/ LazyFault(p, a)
           \/ \E a \in Page, v \in Value : Store(p, a, v)
  BY <1>1, Zenon DEF NullFault, SbrkGrow, SbrkShrink, SbrkFails, StackFault, LazyFault, Store,
     AtPage, InUser, threadVars, Between
<1>2. CASE CowReuse(p) \/ CowDecrease(p) \/ ForkDone(p)
  BY <1>0, <1>2, IdleOthers, Zenon DEF CowReuse, CowDecrease, ForkDone, Between
<1>3. CASE ForkFree(p)
  BY <1>0, <1>3, IdleOthers, Zenon DEF ForkFree, Between, threadVars
<1>4. CASE ForkIncrease(p) \/ \E c \in Proc, d \in Pgdir : ForkStart(p, c, d)
  BY <1>0, <1>4, Zenon DEF ForkIncrease, ForkStart, Between
<1>5. CASE Exec(p)
  <2>1. CASE ExecFree(p)
    BY <1>0, <2>1, IdleOthers, Zenon DEF ExecFree, Between, threadVars
  <2>2. CASE ExecStack(p) \/ ExecBad(p) \/ \E d \in Pgdir : ExecStart(p, d)
    BY <1>0, <2>2, Zenon DEF ExecStack, ExecBad, ExecStart, Between
  <2>3. ASSUME NEW a \in Page, ExecAlloc(p, a) PROVE pc'[p] \in Between
    <3>1. pc[p] = "exec" /\ (UNCHANGED pc \/ pc' = [pc EXCEPT ![p] = "free"])
      BY <2>3, Zenon DEF ExecAlloc
    <3>2. QED
      BY <1>0, <3>1, Zenon DEF Between
  <2>4. QED
    BY <1>5, <2>1, <2>2, <2>3, Zenon DEF Exec
<1>6. CASE Exit(p) \/ WaitFree(p)
  BY <1>0, <1>6, Zenon DEF Exit, WaitFree, threadVars, Between
<1>7. QED
  BY <1>1, <1>2, <1>3, <1>4, <1>5, <1>6, Zenon

(* Every step is the kernel's, or a confined step of some process. *)
LEMMA ConfinedStep ==
  ASSUME IInv, CountsTell, Next
  PROVE  \/ KernelAlloc \/ KernelFree
         \/ \E p \in Proc :
              /\ Confined(p)
              /\ \/ pc'[p] \in Between
                 \/ \E a \in Page : FaultCount(p, a) \/ ForkMap(p, a)
                 \/ CowAlloc(p) \/ CowCopy(p)
<1>1. ASSUME NEW p \in Proc, Fault(p) \/ Fork(p) \/ Exec(p) \/ Exit(p) \/ WaitFree(p)
                             \/ SbrkGrow(p) \/ SbrkShrink(p) \/ SbrkFails(p)
                             \/ \E a \in Page, v \in Value : Store(p, a, v)
      PROVE  /\ Confined(p)
             /\ \/ pc'[p] \in Between
                \/ \E a \in Page : FaultCount(p, a) \/ ForkMap(p, a)
                \/ CowAlloc(p) \/ CowCopy(p)
  <2>1. Confined(p)
    BY <1>1, ConfinedFault, ConfinedSbrk, ConfinedFork, ConfinedExec, ConfinedExit, Zenon
  <2>2. QED
    BY <1>1, <2>1, QuietStep, Zenon DEF Fault, Fork
<1>2. QED
  BY <1>1, Zenon DEF Next

(* A new frame is nobody else's. *)
LEMMA NewIsFresh ==
  ASSUME IInv, NEW p \in Proc, NEW x \in Frame, New(p, x)
  PROVE  /\ \A d \in Pgdir, a \in Page : pte[d][a] # x
         /\ \A q \in Proc : q # p /\ pc[q] \in {"copy", "dec"} => fr[q] # x
<1>1. CASE freelist # <<>> /\ x = Head(freelist) /\ freelist' = Tail(freelist)
  BY <1>1, KallocFresh, Zenon
<1>2. CASE pc[p] = "copy" /\ x = fr[p]
  BY <1>2, Zenon DEF IInv, CopyIsFresh
<1>3. QED
  BY <1>1, <1>2, Zenon DEF New

(* What is left on the list was there before, and is not new. *)
LEMMA ListShrinks ==
  ASSUME IInv, NEW p \in Proc, ConfinedLists(p)
  PROVE  /\ freelist' \in Seq(Frame)
         /\ \A i \in 1..Len(freelist') :
              /\ freelist'[i] \in Frame
              /\ \E j \in 1..Len(freelist) : freelist'[i] = freelist[j]
              /\ ~New(p, freelist'[i])
              /\ \A k \in 1..Len(freelist') : freelist'[k] = freelist'[i] => k = i
<1>1. freelist \in Seq(Frame) /\ FreeIsUnused
  BY FrameTypes, Zenon DEF IInv
<1>2. CASE freelist' = freelist
  <2>1. \A i \in 1..Len(freelist) : ~(pc[p] = "copy" /\ freelist[i] = fr[p])
    BY <1>1, Zenon DEF FreeIsUnused
  <2>2. freelist # <<>> => freelist' # Tail(freelist)
    BY <1>1, <1>2
  <2>3. \A i \in 1..Len(freelist) : ~New(p, freelist[i])
    BY <1>2, <2>1, <2>2, Zenon DEF New
  <2>4. QED
    BY <1>1, <1>2, <2>3 DEF FreeIsUnused
<1>3. CASE freelist # <<>> /\ freelist' = Tail(freelist)
  <2>0. Head(freelist) \in Frame
    BY <1>1, <1>3
  <2>1. /\ freelist' \in Seq(Frame) /\ Len(freelist') = Len(freelist) - 1
        /\ \A i \in 1..Len(freelist') :
             /\ i + 1 \in 1..Len(freelist)
             /\ freelist'[i] = freelist[i + 1]
             /\ freelist'[i] # Head(freelist)
    BY <1>3, <2>0, KallocFresh, Zenon
  <2>2. \A i \in 1..Len(freelist') : ~(pc[p] = "copy" /\ freelist'[i] = fr[p])
    BY <1>1, <2>1 DEF FreeIsUnused
  <2>3. \A i, k \in 1..Len(freelist') : freelist'[k] = freelist'[i] => k = i
    <3>1. SUFFICES ASSUME NEW i \in 1..Len(freelist'), NEW k \in 1..Len(freelist'),
                          freelist'[k] = freelist'[i]
                   PROVE  k = i
      OBVIOUS
    <3>2. k + 1 = i + 1
      BY <1>1, <2>1, <3>1, Zenon DEF FreeIsUnused
    <3>3. QED
      BY <3>2
  <2>4. QED
    BY <1>1, <2>1, <2>2, <2>3 DEF New
<1>4. QED
  BY <1>2, <1>3, Zenon DEF ConfinedLists

(* The free list stays disjoint from everything in use. *)
LEMMA FreeIsUnusedStep ==
  ASSUME IInv, CountsTell, Next
  PROVE  FreeIsUnused'
<1>0. FreeIsUnused /\ freelist \in Seq(Frame) /\ None \notin Frame
  BY FrameTypes, ProcAssumption, Zenon DEF IInv
<1>1. ASSUME NEW p \in Proc, Confined(p) PROVE FreeIsUnused'
  <2>1. SUFFICES ASSUME NEW i \in 1..Len(freelist')
        PROVE  /\ \A d \in Pgdir, a \in Page : pte'[d][a] # freelist'[i]
               /\ \A q \in Proc : pc'[q] \in {"copy", "dec"} => fr'[q] # freelist'[i]
               /\ freelist'[i] \notin kheld' \cup lost'
               /\ \A j \in 1..Len(freelist') : freelist'[j] = freelist'[i] => j = i
    BY Zenon DEF FreeIsUnused
  <2>2. /\ freelist'[i] \in Frame
        /\ \E j \in 1..Len(freelist) : freelist'[i] = freelist[j]
        /\ ~New(p, freelist'[i])
        /\ \A k \in 1..Len(freelist') : freelist'[k] = freelist'[i] => k = i
    BY <1>1, ListShrinks, Zenon DEF Confined
  <2>3. /\ \A d \in Pgdir, a \in Page : pte[d][a] # freelist'[i]
        /\ \A q \in Proc : pc[q] \in {"copy", "dec"} => fr[q] # freelist'[i]
        /\ freelist'[i] \notin kheld \cup lost
    BY <1>0, <2>2, Zenon DEF FreeIsUnused
  <2>4. ~Own(p, freelist'[i])
    BY <2>3, Zenon DEF Own
  <2>5. \A d \in Pgdir, a \in Page : pte'[d][a] # freelist'[i]
    BY <1>0, <1>1, <2>2, <2>3, <2>4 DEF Confined, ConfinedTables
  <2>6. \A q \in Proc : pc'[q] \in {"copy", "dec"} => fr'[q] # freelist'[i]
    BY <1>1, <2>2, <2>3, <2>4, Zenon DEF Confined, ConfinedHandlers
  <2>7. freelist'[i] \notin kheld' \cup lost'
    BY <1>1, <2>2, <2>3, Zenon DEF Confined, ConfinedLists
  <2>8. QED
    BY <2>2, <2>5, <2>6, <2>7, Zenon
<1>2. ASSUME KernelAlloc PROVE FreeIsUnused'
  <2>1. PICK f \in Frame : kalloc(f) /\ kheld' = kheld \cup {f}
                           /\ UNCHANGED <<lost, pte, pc, fr>>
    BY <1>2, Zenon DEF KernelAlloc, tableVars, threadVars
  <2>2. /\ Len(freelist') = Len(freelist) - 1 /\ freelist' \in Seq(Frame)
        /\ \A i \in 1..Len(freelist') :
             /\ i + 1 \in 1..Len(freelist)
             /\ freelist'[i] = freelist[i + 1]
             /\ freelist'[i] # f
    BY <2>1, KallocFresh, Zenon DEF kalloc
  <2>3. \A i, k \in 1..Len(freelist') : freelist'[k] = freelist'[i] => k = i
    <3>1. SUFFICES ASSUME NEW i \in 1..Len(freelist'), NEW k \in 1..Len(freelist'),
                          freelist'[k] = freelist'[i]
                   PROVE  k = i
      OBVIOUS
    <3>2. k + 1 = i + 1
      BY <1>0, <2>2, <3>1, Zenon DEF FreeIsUnused
    <3>3. QED
      BY <3>2
  <2>4. \A i \in 1..Len(freelist') :
          /\ \A d \in Pgdir, b \in Page : pte'[d][b] # freelist'[i]
          /\ \A p \in Proc : pc'[p] \in {"copy", "dec"} => fr'[p] # freelist'[i]
          /\ freelist'[i] \notin kheld' \cup lost'
    <3>1. SUFFICES ASSUME NEW i \in 1..Len(freelist')
          PROVE  /\ \A d \in Pgdir, b \in Page : pte'[d][b] # freelist'[i]
                 /\ \A p \in Proc : pc'[p] \in {"copy", "dec"} => fr'[p] # freelist'[i]
                 /\ freelist'[i] \notin kheld' \cup lost'
      OBVIOUS
    <3>2. /\ i + 1 \in 1..Len(freelist)
          /\ freelist'[i] = freelist[i + 1]
          /\ freelist'[i] # f
      BY <2>2, <3>1, Zenon
    <3>3. /\ \A d \in Pgdir, b \in Page : pte[d][b] # freelist[i + 1]
          /\ \A p \in Proc : pc[p] \in {"copy", "dec"} => fr[p] # freelist[i + 1]
          /\ freelist[i + 1] \notin kheld \cup lost
      BY <1>0, <3>2, Zenon DEF FreeIsUnused
    <3>4. QED
      BY <2>1, <3>2, <3>3, Zenon
  <2>5. QED
    BY <2>3, <2>4, Zenon DEF FreeIsUnused
<1>3. ASSUME KernelFree PROVE FreeIsUnused'
  <2>1. PICK f \in kheld : kfree(f) /\ kheld' = kheld \ {f} /\ UNCHANGED <<lost, pte, pc, fr>>
    BY <1>3, Zenon DEF KernelFree, tableVars, threadVars
  <2>2. f \in Frame
    BY FrameTypes, Zenon DEF IInv
  <2>3. refCount[f] \in 0..UINT_MAX /\ refCount[f] >= 1 /\ UINT_MAX \in Nat
    BY <2>2, HeldIsCounted, CountAssumption, Zenon
  <2>4. refCount[f] # 0
    BY <2>3
  <2>5. freelist' = freelist
    BY <2>1, <2>4, Zenon DEF kfree
  <2>6. QED
    BY <1>0, <2>1, <2>5 DEF FreeIsUnused
<1>4. QED
  BY <1>1, <1>2, <1>3, ConfinedStep, Zenon

(* The page PageFault is about to map stays its own. *)
LEMMA CopyIsFreshStep ==
  ASSUME IInv, CountsTell, Next
  PROVE  CopyIsFresh'
<1>0. CopyIsFresh /\ None \notin Frame /\ TypeOK
  BY ProcAssumption, Zenon DEF IInv
<1>1. CASE UNCHANGED <<pc, pte, fr>>
  BY <1>0, <1>1, Zenon DEF CopyIsFresh
<1>2. ASSUME NEW p \in Proc, Confined(p), NEW q \in Proc, q # p, pc'[q] = "copy"
      PROVE  /\ \A d \in Pgdir, a \in Page : pte'[d][a] # fr'[q]
             /\ \A r \in Proc : pc'[r] \in {"copy", "dec"} /\ fr'[r] = fr'[q] => r = q
  <2>1. pc[q] = "copy" /\ fr'[q] = fr[q]
    BY <1>2, Zenon DEF Confined, ConfinedHandlers
  <2>2. fr[q] \in Frame
    BY <2>1, Zenon DEF IInv, ThreadInv
  <2>3. /\ \A d \in Pgdir, a \in Page : pte[d][a] # fr[q]
        /\ \A r \in Proc : pc[r] \in {"copy", "dec"} /\ fr[r] = fr[q] => r = q
    BY <1>0, <2>1, Zenon DEF CopyIsFresh
  <2>4. ~Own(p, fr[q])
    BY <2>3, Zenon DEF Own
  <2>5. ~New(p, fr[q])
    BY <1>2, <2>1, <2>2, NewIsFresh, Zenon
  <2>6. \A d \in Pgdir, a \in Page : pte'[d][a] # fr[q]
    BY <1>0, <1>2, <2>2, <2>3, <2>4, <2>5 DEF Confined, ConfinedTables
  <2>7. ASSUME NEW r \in Proc, pc'[r] \in {"copy", "dec"}, fr'[r] = fr[q]
        PROVE  r = q
    <3>1. r # p
      BY <2>4, <2>5, <2>7, <1>2, Zenon DEF Confined, ConfinedHandlers
    <3>2. pc'[r] = pc[r] /\ fr'[r] = fr[r]
      BY <1>2, <2>7, <3>1, Zenon DEF Confined, ConfinedHandlers
    <3>3. QED
      BY <2>3, <2>7, <3>2, Zenon
  <2>8. QED
    BY <2>1, <2>6, <2>7, Zenon
<1>3. ASSUME NEW p \in Proc, Confined(p), pc'[p] # "copy" PROVE CopyIsFresh'
  BY <1>2, <1>3, Zenon DEF CopyIsFresh
<1>4. ASSUME NEW p \in Proc, Confined(p), CowAlloc(p) PROVE CopyIsFresh'
  <2>1. CASE Idle(p)
    BY <1>0, <1>3, <1>4, <2>1, IdleOthers, Zenon
  <2>2. ASSUME NEW f \in Frame, kalloc(f), pc' = [pc EXCEPT ![p] = "copy"],
               fr' = [fr EXCEPT ![p] = f]
        PROVE  CopyIsFresh'
    <3>1. /\ \A d \in Pgdir, a \in Page : pte[d][a] # f
          /\ \A q \in Proc : pc[q] \in {"copy", "dec"} => fr[q] # f
      BY <2>2, KallocFresh, Zenon DEF kalloc
    <3>2. pc'[p] = "copy" /\ fr'[p] = f /\ pte' = pte
          /\ \A q \in Proc : q # p => pc'[q] = pc[q] /\ fr'[q] = fr[q]
      BY <1>0, <1>4, <2>2, TableTypes DEF CowAlloc, tableVars
    <3>3. QED
      BY <1>2, <1>4, <3>1, <3>2 DEF CopyIsFresh
  <2>3. QED
    BY <1>4, <2>1, <2>2, Zenon DEF CowAlloc
<1>5. ASSUME NEW p \in Proc, \/ CowCopy(p)
                             \/ \E a \in Page : FaultCount(p, a) \/ ForkMap(p, a)
      PROVE  pc'[p] # "copy"
  <2>1. /\ pc[p] # "copy" \/ CowCopy(p)
        /\ \/ UNCHANGED pc /\ ~CowCopy(p)
           \/ \E x \in {"dec", "cow", "forkInc", "forkFree"} : pc' = [pc EXCEPT ![p] = x]
    BY <1>5, Zenon DEF CowCopy, FaultCount, ForkMap, AtPage, InUser, threadVars
  <2>2. QED
    BY <1>0, <2>1, TableTypes, Zenon
<1>6. ASSUME KernelAlloc \/ KernelFree PROVE CopyIsFresh'
  BY <1>1, <1>6, Zenon DEF KernelAlloc, KernelFree, tableVars, threadVars
<1>7. QED
  BY <1>3, <1>4, <1>5, <1>6, ConfinedStep, Zenon DEF Between

(* A count of 1 means that the mapping PageFault looks at is the only one: *)
(* a mapping copyuvm has not counted yet has a counted twin in the parent. *)
LEMMA OneIsOnly ==
  ASSUME IInv, CountsTell, NEW p \in Proc, pgdir[p] \in Pgdir, pc[p] # "forkInc",
         NEW a \in Page, NEW f \in Frame, pte[pgdir[p]][a] = f, refCount[f] = 1
  PROVE  \A e \in Pgdir, b \in Page : pte[e][b] = f => e = pgdir[p] /\ b = a
<1>1. ~Pending(pgdir[p], a)
  BY NotPending, ProcAssumption, Zenon
<1>2. ASSUME NEW e \in Pgdir, NEW b \in Page, pte[e][b] = f, ~Pending(e, b)
      PROVE  e = pgdir[p] /\ b = a
  <2>1. /\ pte[pgdir[p]][a] \in Frame /\ refCount[pte[pgdir[p]][a]] = 1
        /\ pte[e][b] = pte[pgdir[p]][a]
    BY <1>2, Zenon
  <2>2. QED
    BY <1>1, <1>2, <2>1 DEF CountsTell
<1>3. ASSUME NEW e \in Pgdir, NEW b \in Page, pte[e][b] = f, Pending(e, b) PROVE FALSE
  <2>1. PICK q \in Proc : pc[q] = "forkInc" /\ dir[q] = e /\ va[q] = b
    BY <1>3, Zenon DEF Pending
  <2>2. pgdir[q] \in Pgdir /\ pte[pgdir[q]][b] = f
    BY <1>3, <2>1, OwnsDirs, Zenon DEF IInv, ThreadInv
  <2>3. ~Pending(pgdir[q], b)
    BY <2>2, NotPending, ProcAssumption, Zenon
  <2>4. pgdir[q] = pgdir[p]
    BY <1>2, <2>2, <2>3, Zenon
  <2>5. q = p
    BY <2>2, <2>4, ProcAssumption DEF IInv, DirOwned
  <2>6. QED
    BY <2>1, <2>5, Zenon
<1>4. QED
  BY <1>2, <1>3, Zenon

(* Between reading the count and setting PTE_W no other mapping appears.   *)
LEMMA OneMeansPrivateStep ==
  ASSUME IInv, CountsTell, Next
  PROVE  OneMeansPrivate'
<1>0. OneMeansPrivate /\ None \notin Frame \cup Pgdir /\ TypeOK
  BY ProcAssumption, Zenon DEF IInv
<1>1. CASE UNCHANGED <<pc, cnt, pte, pgdir, va>>
  BY <1>0, <1>1 DEF OneMeansPrivate
<1>2. ASSUME NEW p \in Proc, Confined(p), NEW q \in Proc, q # p, pc'[q] = "cow", cnt'[q] = 1
      PROVE  \A e \in Pgdir, b \in Page :
               pte'[e][b] = pte'[pgdir'[q]][va'[q]] => e = pgdir'[q] /\ b = va'[q]
  <2>1. pc[q] = "cow" /\ cnt[q] = 1 /\ pgdir'[q] = pgdir[q] /\ va'[q] = va[q]
    BY <1>2, Zenon DEF Confined, ConfinedHandlers
  <2>2. pgdir[q] \in Pgdir /\ va[q] \in Page /\ pgdir[q] \notin {pgdir[p], dir[p]}
    BY <1>0, <1>2, <2>1, OwnsDirs, TableTypes, Zenon DEF IInv, DirOwned
  <2>3. pte'[pgdir[q]] = pte[pgdir[q]]
    BY <1>2, <2>2, Zenon DEF Confined, ConfinedTables
  <2> DEFINE g == pte[pgdir[q]][va[q]]
  <2>4. g \in Frame
    BY <1>0, <2>1, <2>2, TableTypes DEF IInv, ThreadInv
  <2>5. \A e \in Pgdir, b \in Page : pte[e][b] = g => e = pgdir[q] /\ b = va[q]
    BY <1>0, <2>1, Zenon DEF OneMeansPrivate
  <2>6. ~New(p, g)
    BY <2>2, <2>4, NewIsFresh, Zenon
  <2>7. ~Own(p, g)
    BY <2>2, <2>5, ZenonT(40) DEF Own
  <2>8. \A e \in Pgdir, b \in Page : pte'[e][b] = g => pte[e][b] = g
    BY <1>0, <1>2, <2>4, <2>6, <2>7 DEF Confined, ConfinedTables
  <2>9. QED
    BY <2>1, <2>2, <2>3, <2>5, <2>8
<1>3. ASSUME NEW p \in Proc, Confined(p), pc'[p] # "cow" PROVE OneMeansPrivate'
  BY <1>2, <1>3, Zenon DEF OneMeansPrivate
<1>4. ASSUME NEW p \in Proc, NEW a \in Page, Confined(p), FaultCount(p, a)
      PROVE  OneMeansPrivate'
  <2>1. CASE UNCHANGED threadVars
    BY <1>1, <1>4, <2>1 DEF FaultCount, threadVars, tableVars
  <2>2. CASE /\ pc' = [pc EXCEPT ![p] = "cow"]
             /\ va' = [va EXCEPT ![p] = a]
             /\ cnt' = [cnt EXCEPT ![p] = refCount[pte[pgdir[p]][a]]]
    <3>1. /\ pgdir[p] \in Pgdir /\ pte[pgdir[p]][a] \in Frame /\ pc[p] = "user"
          /\ UNCHANGED <<pte, pgdir>>
      <4>1. /\ state[p] = "RUNNABLE" /\ pc[p] = "user" /\ pte[pgdir[p]][a] # None
            /\ UNCHANGED <<pte, pgdir>>
        BY <1>4, Zenon DEF FaultCount, AtPage, InUser, tableVars
      <4>2. pgdir[p] \in Pgdir
        BY <1>0, <4>1, OwnsDirs, Zenon
      <4>3. QED
        BY <1>0, <4>1, <4>2, TableTypes
    <3>2. /\ pc'[p] = "cow" /\ va'[p] = a /\ cnt'[p] = refCount[pte[pgdir[p]][a]]
      BY <1>0, <2>2, TableTypes, Zenon
    <3>3. cnt'[p] = 1 => \A e \in Pgdir, b \in Page :
            pte[e][b] = pte[pgdir[p]][a] => e = pgdir[p] /\ b = a
      <4>1. SUFFICES ASSUME refCount[pte[pgdir[p]][a]] = 1
            PROVE  \A e \in Pgdir, b \in Page :
                     pte[e][b] = pte[pgdir[p]][a] => e = pgdir[p] /\ b = a
        BY <3>2, Zenon
      <4>2. pc[p] # "forkInc"
        BY <3>1, Zenon
      <4>3. QED
        BY <3>1, <4>1, <4>2, OneIsOnly
    <3>4. QED
      BY <1>2, <1>4, <3>1, <3>2, <3>3, SMT, SMTT(30) DEF OneMeansPrivate
  <2>3. QED
    BY <1>4, <2>1, <2>2, Zenon DEF FaultCount
<1>5. ASSUME NEW p \in Proc, CowAlloc(p) \/ CowCopy(p) \/ \E a \in Page : ForkMap(p, a)
      PROVE  pc'[p] # "cow"
  <2>1. CASE Idle(p)
    BY <1>0, <2>1, IdleOthers, Zenon
  <2>2. CASE \E x \in {"copy", "dec", "forkInc", "forkFree"} : pc' = [pc EXCEPT ![p] = x]
    BY <1>0, <2>2, TableTypes, Zenon
  <2>3. CASE pc[p] = "fork" /\ UNCHANGED pc
    BY <2>3, Zenon
  <2>4. QED
    BY <1>5, <2>1, <2>2, <2>3, Zenon DEF CowAlloc, CowCopy, ForkMap
<1>6. ASSUME KernelAlloc \/ KernelFree PROVE OneMeansPrivate'
  BY <1>1, <1>6, Zenon DEF KernelAlloc, KernelFree, tableVars, threadVars, procVars
<1>7. QED
  BY <1>3, <1>4, <1>5, <1>6, ConfinedStep, Zenon DEF Between

(* What a handler has established survives the steps of the others. *)
LEMMA ThreadInvStep ==
  ASSUME IInv, CountsTell, Next
  PROVE  ThreadInv'
<1> DEFINE OK(q) ==
      /\ pc[q] = "forkInc" => /\ pte[dir[q]][va[q]] = pte[pgdir[q]][va[q]]
                              /\ pte[pgdir[q]][va[q]] # None
                              /\ va[q] \notin writable[pgdir[q]]
                              /\ va[q] \notin writable[dir[q]]
      /\ pc[q] \in {"cow", "copy"} =>
           pte[pgdir[q]][va[q]] # None /\ va[q] \notin writable[pgdir[q]]
      /\ pc[q] \in {"copy", "dec"} => fr[q] \in Frame
<1>0. TypeOK /\ (\A q \in Proc : OK(q)) /\ None \notin Frame \cup Pgdir
  BY ProcAssumption, Zenon DEF IInv, ThreadInv
<1>1. CASE UNCHANGED <<pc, pte, writable, fr, pgdir, dir, va>>
  BY <1>0, <1>1, Zenon DEF ThreadInv
<1>2. ASSUME NEW p \in Proc, Confined(p), NEW q \in Proc, q # p PROVE OK(q)'
  <2>1. CASE pc[q] = "user"
    BY <1>2, <2>1, Zenon DEF Confined, ConfinedHandlers
  <2>2. CASE pc[q] # "user"
    <3>1. /\ pc'[q] = pc[q] /\ pgdir'[q] = pgdir[q] /\ dir'[q] = dir[q]
          /\ va'[q] = va[q] /\ fr'[q] = fr[q]
      BY <1>2, <2>2, Zenon DEF Confined, ConfinedHandlers
    <3>2. pgdir[q] \in Pgdir /\ pgdir[q] \notin {pgdir[p], dir[p]}
      BY <1>0, <1>2, <2>2, OwnsDirs, Zenon DEF IInv, DirOwned
    <3>3. pte'[pgdir[q]] = pte[pgdir[q]] /\ writable'[pgdir[q]] = writable[pgdir[q]]
      BY <1>2, <3>2, Zenon DEF Confined, ConfinedTables
    <3>4. CASE pc[q] = "forkInc"
      <4>1. dir[q] \in Pgdir /\ dir[q] \notin {pgdir[p], dir[p]}
        BY <1>0, <1>2, <3>4, OwnsDirs, Zenon DEF IInv, DirOwned, Builders
      <4>2. pte'[dir[q]] = pte[dir[q]] /\ writable'[dir[q]] = writable[dir[q]]
        BY <1>2, <4>1, Zenon DEF Confined, ConfinedTables
      <4>3. QED
        BY <1>0, <3>1, <3>3, <3>4, <4>2, Zenon
    <3>5. CASE pc[q] # "forkInc"
      BY <1>0, <3>1, <3>3, <3>5
    <3>6. QED
      BY <3>4, <3>5, Zenon
  <2>3. QED
    BY <2>1, <2>2, Zenon
<1>3. ASSUME NEW p \in Proc, Confined(p), OK(p)' PROVE ThreadInv'
  BY <1>2, <1>3, Zenon DEF ThreadInv
<1>4. ASSUME NEW p \in Proc, pc'[p] \in Between PROVE OK(p)'
  BY <1>4, Zenon DEF Between
<1>5. ASSUME NEW p \in Proc, NEW a \in Page, FaultCount(p, a) PROVE OK(p)'
  <2>1. CASE UNCHANGED threadVars
    BY <1>5, <2>1, Zenon DEF FaultCount, AtPage, InUser, threadVars
  <2>2. CASE pc' = [pc EXCEPT ![p] = "cow"] /\ va' = [va EXCEPT ![p] = a]
    BY <1>0, <1>5, <2>2, TableTypes, Zenon DEF FaultCount, tableVars
  <2>3. QED
    BY <1>5, <2>1, <2>2, Zenon DEF FaultCount
<1>6. ASSUME NEW p \in Proc, CowAlloc(p) PROVE OK(p)'
  <2>1. CASE Idle(p)
    BY <1>0, <2>1, IdleOthers, Zenon
  <2>2. ASSUME NEW f \in Frame, pc' = [pc EXCEPT ![p] = "copy"], fr' = [fr EXCEPT ![p] = f],
               UNCHANGED va
        PROVE  OK(p)'
    <3>1. /\ pc'[p] = "copy" /\ fr'[p] = f /\ pc[p] = "cow"
          /\ UNCHANGED <<pte, writable, pgdir, va>>
      BY <1>0, <1>6, <2>2, TableTypes, Zenon DEF CowAlloc, tableVars
    <3>2. OK(p)
      BY <1>0, Zenon
    <3>3. QED
      BY <3>1, <3>2, Zenon
  <2>3. QED
    BY <1>6, <2>1, <2>2, Zenon DEF CowAlloc
<1>7. ASSUME NEW p \in Proc, CowCopy(p) PROVE OK(p)'
  <2>1. /\ pc'[p] = "dec" /\ fr'[p] = pte[pgdir[p]][va[p]] /\ pc[p] = "copy"
    BY <1>0, <1>7, TableTypes, Zenon DEF CowCopy
  <2>2. pgdir[p] \in Pgdir /\ pte[pgdir[p]][va[p]] # None
    BY <1>0, <2>1, OwnsDirs, Zenon
  <2>3. pte[pgdir[p]] \in [Page -> Frame \cup {None}] /\ va[p] \in Page
    BY <1>0, <2>1, <2>2, TableTypes, Zenon
  <2>4. pte[pgdir[p]][va[p]] \in Frame
    BY <2>2, <2>3, Zenon
  <2>5. QED
    BY <2>1, <2>4, Zenon
<1>8. ASSUME NEW p \in Proc, NEW a \in Page, ForkMap(p, a) PROVE OK(p)'
  <2>0. pc[p] = "fork" /\ pgdir[p] \in Pgdir /\ dir[p] \in Pgdir /\ pgdir[p] # dir[p]
        /\ UNCHANGED <<pgdir, dir>> /\ a \in todo[p]
    BY <1>8, OwnsDirs, Zenon DEF ForkMap, Builders, IInv, DirOwned, IsFirst
  <2>1. CASE UNCHANGED pc
    BY <2>0, <2>1, Zenon
  <2>2. CASE pc' = [pc EXCEPT ![p] = "forkFree"]
    BY <1>0, <2>2, TableTypes, Zenon
  <2>3. CASE /\ pte[pgdir[p]][a] # None
             /\ pte' = [pte EXCEPT ![dir[p]][a] = pte[pgdir[p]][a]]
             /\ writable' = [writable EXCEPT ![pgdir[p]] = @ \ {a}]
             /\ pc' = [pc EXCEPT ![p] = "forkInc"]
             /\ va' = [va EXCEPT ![p] = a]
    <3>1. /\ pc'[p] = "forkInc" /\ va'[p] = a
          /\ pte'[pgdir[p]] = pte[pgdir[p]] /\ pte'[dir[p]][a] = pte[pgdir[p]][a]
          /\ a \notin writable'[pgdir[p]] /\ writable'[dir[p]] = writable[dir[p]]
      BY <1>0, <2>0, <2>3, TableTypes
    <3>2. pte[dir[p]][a] = None
      BY <2>0, Zenon DEF IInv, EmptyWhereUnused, UnownedIsEmpty, ForkAhead, ExecAhead
    <3>3. a \notin writable[dir[p]]
      BY <2>0, <3>2, Zenon DEF IInv, WritableIsMapped
    <3>4. QED
      BY <2>0, <2>3, <3>1, <3>3, Zenon
  <2>4. QED
    BY <1>8, <2>1, <2>2, <2>3, Zenon DEF ForkMap
<1>9. ASSUME KernelAlloc \/ KernelFree PROVE ThreadInv'
  BY <1>1, <1>9, Zenon DEF KernelAlloc, KernelFree, tableVars, threadVars, procVars
<1>10. QED
  <2>1. ASSUME NEW p \in Proc, Confined(p),
               \/ pc'[p] \in Between
               \/ \E a \in Page : FaultCount(p, a) \/ ForkMap(p, a)
               \/ CowAlloc(p) \/ CowCopy(p)
        PROVE  ThreadInv'
    <3>1. OK(p)'
      BY <1>4, <1>5, <1>6, <1>7, <1>8, <2>1, Zenon
    <3>2. QED
      BY <1>3, <2>1, <3>1, Zenon
  <2>2. QED
    BY <1>9, <2>1, ConfinedStep, Zenon

-----------------------------------------------------------------------------
(* What user programs see. *)

(* copyuvm has copied the pages of the region that it has visited, and      *)
(* nothing else.                                                            *)
ForkCopied ==
  \A p \in Proc : pc[p] \in {"fork", "forkInc"} =>
    /\ todo[p] \subseteq Region(p)
    /\ pc[p] = "forkInc" => va[p] \in Region(p)
    /\ \A a \in Page \ todo[p] :
         pte[dir[p]][a] = IF a \in Region(p) THEN pte[pgdir[p]][a] ELSE None

(* exec has loaded the text pages that it has visited, and nothing else. *)
ExecBuilt ==
  \A p \in Proc : pc[p] = "exec" =>
    /\ todo[p] \subseteq TextPage
    /\ \A a \in Page \ todo[p] :
         IF a \in TextPage THEN pte[dir[p]][a] # None /\ mem[pte[dir[p]][a]] = Text
                           ELSE pte[dir[p]][a] = None

(* Heap and stack do not overlap. *)
SizesFit == \A p \in Proc : sz[p] < USERTOP /\ sz[p] + stackSize[p] <= USERTOP

ViewInv == ForkCopied /\ ExecBuilt /\ SizesFit

(* What the kernel does for p: every step of p but a store of its program.  *)
KernelStep(p) ==
  \/ Fault(p) \/ Fork(p) \/ Exec(p) \/ Exit(p) \/ WaitFree(p)
  \/ SbrkGrow(p) \/ SbrkShrink(p) \/ SbrkFails(p)

(* A step that writes to no frame, or to a new one. *)
WritesNew(p) ==
  \/ mem' = mem
  \/ \E x \in Frame, v \in Value : New(p, x) /\ mem' = [mem EXCEPT ![x] = v]

(* The kernel writes only to frames it has just taken from the free list. *)
LEMMA KernelWritesNew ==
  ASSUME IInv, NEW p \in Proc, KernelStep(p)
  PROVE  WritesNew(p)
<1>0. Zero \in Value /\ Text \in Value
  BY MemoryAssumption, Zenon
<1>1. ASSUME NEW f \in Frame, NEW v \in Value, kalloc(f), mem' = [mem EXCEPT ![f] = v]
      PROVE  WritesNew(p)
  BY <1>1, Zenon DEF WritesNew, New, kalloc
<1>2. ASSUME mem' = mem PROVE WritesNew(p)
  BY <1>2, Zenon DEF WritesNew
<1>3. CASE Fault(p)
  <2>1. CASE NullFault(p) \/ CowReuse(p) \/ CowAlloc(p) \/ CowDecrease(p)
             \/ \E a \in Page : FaultCount(p, a)
    BY <1>2, <2>1, Zenon DEF NullFault, CowReuse, CowAlloc, CowDecrease, FaultCount, frameVars
  <2>2. ASSUME NEW a \in Page, StackFault(p, a) PROVE WritesNew(p)
    BY <1>0, <1>1, <1>2, <2>2, Zenon
       DEF StackFault, stackGrow, stackGrowRemap, stackGrowFails, frameVars
  <2>3. ASSUME NEW a \in Page, LazyFault(p, a) PROVE WritesNew(p)
    BY <1>0, <1>1, <1>2, <2>3, Zenon DEF LazyFault, frameVars
  <2>4. CASE CowCopy(p)
    <3>1. /\ pgdir[p] \in Pgdir /\ va[p] \in Page /\ fr[p] \in Frame
          /\ pte[pgdir[p]][va[p]] \in Frame
      BY <2>4, OwnsDirs, TableTypes DEF CowCopy, IInv, ThreadInv
    <3>2. mem[pte[pgdir[p]][va[p]]] \in Value
      BY <3>1, FrameTypes, Zenon DEF IInv
    <3>3. QED
      BY <2>4, <3>1, <3>2, Zenon DEF CowCopy, WritesNew, New
  <2>5. QED
    BY <1>3, <2>1, <2>2, <2>3, <2>4, Zenon DEF Fault
<1>4. CASE SbrkGrow(p) \/ SbrkShrink(p) \/ SbrkFails(p) \/ Exit(p) \/ WaitFree(p)
  BY <1>0, <1>1, <1>2, <1>4, Zenon
     DEF SbrkGrow, SbrkShrink, SbrkFails, Exit, WaitFree, frameVars
<1>5. CASE Fork(p)
  BY <1>2, <1>5, Zenon DEF Fork, ForkStart, ForkMap, ForkIncrease, ForkDone, ForkFree, frameVars
<1>6. CASE Exec(p)
  BY <1>0, <1>1, <1>2, <1>6, Zenon
     DEF Exec, ExecStart, ExecAlloc, ExecBad, ExecStack, ExecFree, frameVars
<1>7. QED
  BY <1>3, <1>4, <1>5, <1>6, Zenon DEF KernelStep

(* So nothing that is mapped changes its contents. *)
LEMMA NewKeeps ==
  ASSUME IInv, NEW p \in Proc, WritesNew(p), NEW e \in Pgdir, NEW b \in Page,
         pte[e][b] # None
  PROVE  mem'[pte[e][b]] = mem[pte[e][b]]
<1>1. pte[e][b] \in Frame /\ mem \in [Frame -> Value]
  BY TableTypes, FrameTypes DEF IInv
<1>2. ASSUME NEW x \in Frame, NEW v \in Value, New(p, x), mem' = [mem EXCEPT ![x] = v]
      PROVE  mem'[pte[e][b]] = mem[pte[e][b]]
  <2>1. pte[e][b] # x
    BY <1>2, NewIsFresh, Zenon
  <2>2. QED
    BY <1>1, <1>2, <2>1, Zenon
<1>3. QED
  BY <1>2, Zenon DEF WritesNew

(* Of the pages that are mapped, only page a of p changes, to v. *)
WritesOwn(p, a, v) ==
  /\ pgdir[p] \in Pgdir /\ pte[pgdir[p]][a] # None
  /\ mem'[pte[pgdir[p]][a]] = v
  /\ \A e \in Pgdir, b \in Page :
       pte[e][b] # None /\ (e # pgdir[p] \/ b # a) => mem'[pte[e][b]] = mem[pte[e][b]]

(* A store of the program changes one page of its own. *)
LEMMA StoreKeeps ==
  ASSUME IInv, NEW p \in Proc, NEW a \in Page, NEW v \in Value, Store(p, a, v)
  PROVE  WritesOwn(p, a, v)
<1>1. /\ pgdir[p] \in Pgdir /\ a \in writable[pgdir[p]]
      /\ mem' = [mem EXCEPT ![pte[pgdir[p]][a]] = v]
  BY OwnsDirs, Zenon DEF Store, AtPage, InUser
<1>2. pte[pgdir[p]][a] # None
  BY <1>1, Zenon DEF IInv, WritableIsMapped
<1>3. \A e \in Pgdir, b \in Page : pte[e][b] # None => pte[e][b] \in Frame
  BY TableTypes DEF IInv
<1>4. \A e \in Pgdir, b \in Page : pte[e][b] = pte[pgdir[p]][a] => e = pgdir[p] /\ b = a
  BY <1>1, Zenon DEF IInv, WritableIsPrivate
<1>5. mem \in [Frame -> Value]
  BY FrameTypes, Zenon DEF IInv
<1>6. QED
  BY <1>1, <1>2, <1>3, <1>4, <1>5, Zenon DEF WritesOwn

(* What a step of another process leaves alone of q. *)
Kept(q) ==
  /\ todo'[q] = todo[q]
  /\ state'[q] = "RUNNABLE" <=> state[q] = "RUNNABLE"
  /\ state[q] = "RUNNABLE" => /\ pgdir'[q] = pgdir[q] /\ sz'[q] = sz[q]
                              /\ stackSize'[q] = stackSize[q]

(* No step touches the size or the state of another process, but for fork   *)
(* and the child it makes.                                                  *)
LEMMA OthersStay ==
  ASSUME IInv, NEW p \in Proc, NEW q \in Proc, q # p,
         KernelStep(p) \/ \E a \in Page, v \in Value : Store(p, a, v),
         ForkDone(p) => q # child[p]
  PROVE  Kept(q)
<1>0. /\ state \in [Proc -> {"UNUSED", "EMBRYO", "RUNNABLE", "ZOMBIE"}]
      /\ pgdir \in [Proc -> Pgdir \cup {None}]
      /\ sz \in [Proc -> 0..USERTOP] /\ stackSize \in [Proc -> 0..USERTOP]
      /\ todo \in [Proc -> SUBSET Page]
  BY Zenon DEF IInv, TypeOK
<1>1. ASSUME NEW x, stackSize' = stackSize \/ stackSize' = [stackSize EXCEPT ![p] = x],
             NEW y, sz' = sz \/ sz' = [sz EXCEPT ![p] = y],
             UNCHANGED <<state, pgdir, todo>>
      PROVE  Kept(q)
  BY <1>0, <1>1, Zenon DEF Kept
<1>2. ASSUME Idle(p), UNCHANGED <<sz, stackSize, state, pgdir>> PROVE Kept(q)
  BY <1>0, <1>2, Zenon DEF Kept, Idle
<1>3. CASE Fault(p) \/ \E a \in Page, v \in Value : Store(p, a, v)
  <2>1. CASE NullFault(p) \/ \E a \in Page, v \in Value : Store(p, a, v)
    BY <2>1, Zenon DEF NullFault, Store, procVars, threadVars, Kept
  <2>2. ASSUME NEW a \in Page, StackFault(p, a) PROVE Kept(q)
    BY <1>1, <2>2, Zenon
       DEF StackFault, stackGrow, stackGrowRemap, stackGrowFails, threadVars
  <2>3. ASSUME NEW a \in Page, LazyFault(p, a) \/ FaultCount(p, a) PROVE Kept(q)
    BY <2>3, Zenon DEF LazyFault, FaultCount, threadVars, Kept
  <2>4. CASE CowReuse(p) \/ CowAlloc(p) \/ CowCopy(p) \/ CowDecrease(p)
    BY <1>2, <2>4, Zenon DEF CowReuse, CowAlloc, CowCopy, CowDecrease, procVars, Kept
  <2>5. QED
    BY <1>3, <2>1, <2>2, <2>3, <2>4, Zenon DEF Fault
<1>4. CASE SbrkGrow(p) \/ SbrkShrink(p) \/ SbrkFails(p)
  BY <1>0, <1>4, Zenon DEF SbrkGrow, SbrkShrink, SbrkFails, threadVars, Kept
<1>5. CASE Fork(p)
  <2>1. ASSUME NEW c \in Proc, NEW d \in Pgdir, ForkStart(p, c, d) PROVE Kept(q)
    BY <1>0, <2>1, Zenon DEF ForkStart, Kept
  <2>2. ASSUME NEW a \in Page, ForkMap(p, a) PROVE Kept(q)
    BY <2>2, Zenon DEF ForkMap, Kept
  <2>3. CASE ForkIncrease(p)
    BY <1>0, <2>3, Zenon DEF ForkIncrease, procVars, Kept
  <2>4. CASE ForkDone(p)
    BY <1>0, <2>4, Zenon DEF ForkDone, Idle, Kept
  <2>5. CASE ForkFree(p)
    <3>1. state[child[p]] = "EMBRYO"
      BY <2>5, Zenon DEF ForkFree, IInv, ChildOwned, Forkers
    <3>2. QED
      BY <1>0, <2>5, <3>1, Zenon DEF ForkFree, Idle, threadVars, Kept
  <2>6. QED
    BY <1>5, <2>1, <2>2, <2>3, <2>4, <2>5, Zenon DEF Fork
<1>6. CASE Exec(p)
  <2>1. ASSUME NEW d \in Pgdir, ExecStart(p, d) PROVE Kept(q)
    BY <1>0, <2>1, Zenon DEF ExecStart, procVars, Kept
  <2>2. ASSUME NEW a \in Page, ExecAlloc(p, a) PROVE Kept(q)
    BY <1>0, <2>2, Zenon DEF ExecAlloc, procVars, Kept
  <2>3. CASE ExecStack(p)
    BY <1>0, <2>3, Zenon DEF ExecStack, Kept
  <2>4. CASE ExecBad(p) \/ ExecFree(p)
    BY <1>2, <2>4, Zenon DEF ExecBad, ExecFree, procVars, threadVars, Kept
  <2>5. QED
    BY <1>6, <2>1, <2>2, <2>3, <2>4, Zenon DEF Exec
<1>7. CASE Exit(p) \/ WaitFree(p)
  BY <1>0, <1>7, Zenon DEF Exit, WaitFree, threadVars, Kept
<1>8. QED
  BY <1>3, <1>4, <1>5, <1>6, <1>7, Zenon DEF KernelStep

(* A step of p that leaves q alone, and the contents of what q maps, is not *)
(* seen by q.                                                               *)
LEMMA OthersSeeNothing ==
  ASSUME IInv, NEW p \in Proc, NEW q \in Proc, q # p, Kept(q), ConfinedTables(p),
         \A e \in Pgdir, b \in Page :
           e # pgdir[p] /\ pte[e][b] # None => mem'[pte[e][b]] = mem[pte[e][b]]
  PROVE  /\ q \in Live' <=> q \in Live
         /\ LiveRegion'[q] = LiveRegion[q]
         /\ View'[q] = View[q]
<1>1. q \in Live' <=> q \in Live
  BY Zenon DEF Live, Kept
<1>2. CASE q \notin Live
  BY <1>1, <1>2, Zenon DEF LiveRegion, View
<1>3. CASE q \in Live
  <2>1. /\ pgdir'[q] = pgdir[q] /\ sz'[q] = sz[q] /\ stackSize'[q] = stackSize[q]
        /\ pgdir[q] \in Pgdir
    BY <1>3, OwnsDirs, Zenon DEF Live, Kept
  <2>2. Region(q)' = Region(q)
    BY <2>1, Zenon DEF Region
  <2>3. pgdir[q] \notin {pgdir[p], dir[p]}
    BY <2>1, ProcAssumption, Zenon DEF IInv, DirOwned
  <2>4. pte'[pgdir[q]] = pte[pgdir[q]]
    BY <2>1, <2>3, Zenon DEF ConfinedTables
  <2>5. \A a \in Page : pte[pgdir[q]][a] # None =>
          mem'[pte[pgdir[q]][a]] = mem[pte[pgdir[q]][a]]
    BY <2>1, <2>3, Zenon
  <2>6. View'[q] = [a \in Page |-> IF pte'[pgdir'[q]][a] # None
                                   THEN mem'[pte'[pgdir'[q]][a]] ELSE Zero]
    BY <1>1, <1>3, Zenon DEF View
  <2>7. View[q] = [a \in Page |-> IF pte[pgdir[q]][a] # None
                                  THEN mem[pte[pgdir[q]][a]] ELSE Zero]
    BY <1>3, Zenon DEF View
  <2>8. View'[q] = View[q]
    <3>1. ASSUME NEW a \in Page
          PROVE  (IF pte'[pgdir'[q]][a] # None THEN mem'[pte'[pgdir'[q]][a]] ELSE Zero)
                  = IF pte[pgdir[q]][a] # None THEN mem[pte[pgdir[q]][a]] ELSE Zero
      BY <2>1, <2>4, <2>5, Zenon
    <3>2. QED
      BY <2>6, <2>7, <3>1, Zenon
  <2>9. QED
    BY <1>1, <1>3, <2>2, <2>8, Zenon DEF LiveRegion
<1>4. QED
  BY <1>1, <1>2, <1>3, Zenon

(* What p itself sees at page a. *)
Sees(p, a) == IF pte[pgdir[p]][a] # None THEN mem[pte[pgdir[p]][a]] ELSE Zero

(* A running process sees the frames that its table maps. *)
LEMMA LiveSees ==
  ASSUME NEW p \in Proc
  PROVE  /\ p \in Live => LiveRegion[p] = Region(p) /\ View[p] = [a \in Page |-> Sees(p, a)]
         /\ p \notin Live => LiveRegion[p] = {} /\ View[p] = [a \in Page |-> Zero]
BY Zenon DEF LiveRegion, View, Sees

(* The same after a step. *)
LEMMA LiveSeesNext ==
  ASSUME NEW p \in Proc
  PROVE  /\ p \in Live' => /\ LiveRegion'[p] = Region(p)'
                           /\ View'[p] = [a \in Page |-> Sees(p, a)']
         /\ p \notin Live' => LiveRegion'[p] = {} /\ View'[p] = [a \in Page |-> Zero]
BY Zenon DEF LiveRegion, View, Sees

(* A step in which p at most loses pages outside its heap and stack. *)
Resizes(p) ==
  /\ p \in Live /\ p \in Live'
  /\ \A a \in Page : \/ Sees(p, a)' = Sees(p, a)
                     \/ Sees(p, a)' = Zero /\ ~(a \in Region(p) /\ a \in Region(p)')

(* Such a step is a resize of the abstract memory. *)
LEMMA ResizeRefines ==
  ASSUME NEW p \in Proc, Resizes(p),
         \A q \in Proc : q # p =>
           /\ q \in Live' <=> q \in Live
           /\ LiveRegion'[q] = LiveRegion[q] /\ View'[q] = View[q]
  PROVE  PM!PMResize(p)
<1>1. p \in Live /\ p \in Live'
  BY Zenon DEF Resizes
<1>2. Live' = Live
  <2>1. \A q \in Proc : q \in Live' <=> q \in Live
    BY <1>1, Zenon
  <2>2. QED
    BY <2>1, Zenon DEF Live
<1>3. /\ LiveRegion[p] = Region(p) /\ LiveRegion'[p] = Region(p)'
      /\ View[p] = [a \in Page |-> Sees(p, a)] /\ View'[p] = [a \in Page |-> Sees(p, a)']
  BY <1>1, LiveSees, LiveSeesNext, Zenon
<1>4. \A a \in Page : \/ View'[p][a] = View[p][a]
                      \/ View'[p][a] = Zero /\ a \notin LiveRegion[p] \cap LiveRegion'[p]
  <2>1. \A a \in Page : View[p][a] = Sees(p, a) /\ View'[p][a] = Sees(p, a)'
    BY <1>3, Zenon
  <2>2. QED
    BY <1>3, <2>1 DEF Resizes
<1>5. QED
  BY <1>1, <1>2, <1>4, Zenon DEF PM!PMResize

(* A step on which the table p runs on stays as it is. *)
LEMMA SameTable ==
  ASSUME IInv, NEW p \in Proc, WritesNew(p),
         state[p] = "RUNNABLE", state'[p] = "RUNNABLE", pgdir'[p] = pgdir[p],
         pte'[pgdir[p]] = pte[pgdir[p]]
  PROVE  Resizes(p)
<1>1. p \in Live /\ p \in Live' /\ pgdir[p] \in Pgdir
  BY OwnsDirs, Zenon DEF Live
<1>2. ASSUME NEW a \in Page PROVE Sees(p, a)' = Sees(p, a)
  BY <1>1, NewKeeps, Zenon DEF Sees
<1>3. QED
  BY <1>1, <1>2, Zenon DEF Resizes

(* A step that changes one page of it. *)
LEMMA OnePage ==
  ASSUME IInv, NEW p \in Proc, WritesNew(p),
         state[p] = "RUNNABLE", state'[p] = "RUNNABLE", pgdir'[p] = pgdir[p],
         NEW a \in Page, NEW f, NEW w \in BOOLEAN, MapFrame(pgdir[p], a, f, w),
         \/ f = None /\ ~(a \in Region(p) /\ a \in Region(p)')
         \/ f # None /\ mem'[f] = Sees(p, a)
  PROVE  Resizes(p)
<1>1. p \in Live /\ p \in Live' /\ pgdir[p] \in Pgdir
  BY OwnsDirs, Zenon DEF Live
<1>2. /\ \A b \in Page : b # a => pte'[pgdir[p]][b] = pte[pgdir[p]][b]
      /\ pte'[pgdir[p]][a] = f
  <2>1. TypeOK
    BY Zenon DEF IInv
  <2>2. QED
    BY <1>1, <2>1, TableTypes, Zenon DEF MapFrame
<1>3. ASSUME NEW b \in Page, b # a PROVE Sees(p, b)' = Sees(p, b)
  BY <1>1, <1>2, <1>3, NewKeeps, Zenon DEF Sees
<1>4. Sees(p, a)' = IF f # None THEN mem'[f] ELSE Zero
  BY <1>2, Zenon DEF Sees
<1>5. QED
  BY <1>1, <1>3, <1>4, Zenon DEF Resizes

(* PageFault maps pages, and copies shared ones, without its process seeing *)
(* it; only the stack may grow.                                             *)
LEMMA FaultResizes ==
  ASSUME IInv, NEW p \in Proc, Fault(p)
  PROVE  Resizes(p)
<1>0. TypeOK /\ WritesNew(p) /\ mem \in [Frame -> Value] /\ None \notin Frame
  BY KernelWritesNew, FrameTypes, ProcAssumption, Zenon DEF KernelStep, IInv
<1>1. /\ state[p] = "RUNNABLE" /\ pgdir[p] \in Pgdir
      /\ UNCHANGED <<state, pgdir>>
  <2>1. UNCHANGED <<state, pgdir>>
    BY Zenon DEF Fault, NullFault, StackFault, LazyFault, FaultCount, CowReuse, CowAlloc,
       CowCopy, CowDecrease, procVars
  <2>2. state[p] = "RUNNABLE"
    <3>1. CASE \/ NullFault(p)
               \/ \E a \in Page : StackFault(p, a) \/ LazyFault(p, a) \/ FaultCount(p, a)
      BY <3>1, Zenon DEF NullFault, StackFault, LazyFault, FaultCount, AtPage, InUser
    <3>2. CASE CowReuse(p) \/ CowAlloc(p) \/ CowCopy(p) \/ CowDecrease(p)
      BY <3>2, Zenon DEF CowReuse, CowAlloc, CowCopy, CowDecrease, IInv, DirOwned
    <3>3. QED
      BY <3>1, <3>2, Zenon DEF Fault
  <2>3. QED
    BY <2>1, <2>2, OwnsDirs, Zenon
<1>2. CASE UNCHANGED pte
  BY <1>0, <1>1, <1>2, SameTable, Zenon
<1>3. ASSUME NEW a \in Page, NEW f \in Frame, pte[pgdir[p]][a] = None,
             MapFrame(pgdir[p], a, f, TRUE), mem' = [mem EXCEPT ![f] = Zero]
      PROVE  Resizes(p)
  <2>1. f # None /\ mem'[f] = Sees(p, a) /\ TRUE \in BOOLEAN
    BY <1>0, <1>3, Zenon DEF Sees
  <2>2. QED
    BY <1>0, <1>1, <1>3, <2>1, OnePage, Zenon
<1>4. CASE NullFault(p) \/ CowReuse(p) \/ CowAlloc(p) \/ CowDecrease(p)
           \/ \E a \in Page : FaultCount(p, a)
  BY <1>2, <1>4, Zenon DEF NullFault, CowReuse, CowAlloc, CowDecrease, FaultCount, tableVars
<1>5. ASSUME NEW a \in Page, StackFault(p, a) PROVE Resizes(p)
  <2>1. USERTOP - stackSize[p] - 1 \in Page
    BY <1>0, <1>5, StackGrowsInRange, Zenon DEF StackFault
  <2>2. QED
    BY <1>2, <1>3, <1>5, <2>1, Zenon
       DEF StackFault, stackGrow, stackGrowRemap, stackGrowFails, tableVars
<1>6. ASSUME NEW a \in Page, LazyFault(p, a) PROVE Resizes(p)
  BY <1>2, <1>3, <1>6, Zenon DEF LazyFault, tableVars
<1>7. CASE CowCopy(p)
  <2>1. /\ va[p] \in Page /\ fr[p] \in Frame /\ pte[pgdir[p]][va[p]] # None
        /\ mem' = [mem EXCEPT ![fr[p]] = mem[pte[pgdir[p]][va[p]]]]
        /\ MapFrame(pgdir[p], va[p], fr[p], TRUE)
    BY <1>0, <1>7, TableTypes, Zenon DEF CowCopy, IInv, ThreadInv
  <2>2. fr[p] # None /\ mem'[fr[p]] = Sees(p, va[p]) /\ TRUE \in BOOLEAN
    BY <1>0, <2>1, Zenon DEF Sees
  <2>3. QED
    BY <1>0, <1>1, <2>1, <2>2, OnePage, Zenon
<1>8. QED
  BY <1>4, <1>5, <1>6, <1>7, Zenon DEF Fault

(* sbrk takes away no page of what is left of the heap, nor of the stack. *)
LEMMA SbrkResizes ==
  ASSUME IInv, SizesFit, NEW p \in Proc, SbrkGrow(p) \/ SbrkShrink(p) \/ SbrkFails(p)
  PROVE  Resizes(p)
<1>0. TypeOK /\ WritesNew(p) /\ mem \in [Frame -> Value] /\ None \notin Frame
  BY KernelWritesNew, FrameTypes, ProcAssumption, Zenon DEF KernelStep, IInv
<1>1. /\ state[p] = "RUNNABLE" /\ pgdir[p] \in Pgdir
      /\ UNCHANGED <<state, pgdir, stackSize>>
  BY OwnsDirs, Zenon DEF SbrkGrow, SbrkShrink, SbrkFails, InUser
<1>2. CASE UNCHANGED pte
  BY <1>0, <1>1, <1>2, SameTable, Zenon
<1>3. /\ USERTOP \in Nat /\ sz[p] \in 0..USERTOP /\ stackSize[p] \in 0..USERTOP
      /\ sz[p] < USERTOP /\ sz[p] + stackSize[p] <= USERTOP /\ sz \in [Proc -> 0..USERTOP]
  BY <1>0, MemoryAssumption, Zenon DEF TypeOK, SizesFit
<1>4. ASSUME NEW a \in Page, ReleasePage(pgdir[p], a),
             ~(a \in Region(p) /\ a \in Region(p)')
      PROVE  Resizes(p)
  BY <1>0, <1>1, <1>4, OnePage, Zenon DEF ReleasePage
<1>5. CASE SbrkGrow(p)
  <2>1. sz[p] \in Page
    BY <1>3 DEF Page
  <2>2. ASSUME NEW f \in Frame, pte[pgdir[p]][sz[p]] = None,
               MapFrame(pgdir[p], sz[p], f, TRUE), mem' = [mem EXCEPT ![f] = Zero]
        PROVE  Resizes(p)
    <3>1. f # None /\ mem'[f] = Sees(p, sz[p]) /\ TRUE \in BOOLEAN
      BY <1>0, <2>2, Zenon DEF Sees
    <3>2. QED
      BY <1>0, <1>1, <2>1, <2>2, <3>1, OnePage, Zenon
  <2>3. QED
    BY <1>2, <1>5, <2>2, Zenon DEF SbrkGrow, tableVars
<1>6. CASE SbrkShrink(p)
  <2>1. CASE pte[pgdir[p]][sz[p] - 1] # None
    <3>1. /\ sz[p] >= 1 /\ sz' = [sz EXCEPT ![p] = shrunk(sz[p])]
          /\ ReleasePage(pgdir[p], sz[p] - 1)
      BY <1>6, <2>1, Zenon DEF SbrkShrink
    <3>2. sz'[p] = shrunk(sz[p]) /\ stackSize'[p] = stackSize[p]
      BY <1>1, <1>3, <3>1, ZenonT(40)
    <3>3. sz[p] - 1 \in Page /\ ~(1 <= sz[p] - 1 /\ sz[p] - 1 < shrunk(sz[p]))
          /\ ~(USERTOP - stackSize[p] <= sz[p] - 1)
      BY <1>3, <3>1 DEF Page, shrunk
    <3>4. sz[p] - 1 \notin Region(p)'
      BY <3>2, <3>3, Zenon DEF Region
    <3>5. QED
      BY <1>4, <3>1, <3>3, <3>4, Zenon
  <2>2. QED
    BY <1>2, <1>6, <2>1, Zenon DEF SbrkShrink, tableVars
<1>7. CASE SbrkFails(p)
  <2>1. CASE sz[p] + 1 <= heapLimit(p) /\ ReleasePage(pgdir[p], sz[p])
    <3>1. sz[p] \in Page /\ ~(sz[p] < sz[p]) /\ ~(USERTOP - stackSize[p] <= sz[p])
      BY <1>3, <2>1 DEF Page, heapLimit
    <3>2. sz[p] \notin Region(p)
      BY <3>1, Zenon DEF Region
    <3>3. QED
      BY <1>4, <2>1, <3>1, <3>2, Zenon
  <2>2. QED
    BY <1>2, <1>7, <2>1, Zenon DEF SbrkFails, tableVars
<1>8. QED
  BY <1>5, <1>6, <1>7, Zenon

(* fork and exec work on another directory than the one p runs on. *)
LEMMA BuildResizes ==
  ASSUME IInv, NEW p \in Proc,
         \/ Fork(p) /\ ~ForkDone(p)
         \/ Exec(p) /\ UNCHANGED pgdir
  PROVE  Resizes(p)
<1>0. TypeOK /\ WritesNew(p) /\ USERTOP - 1 \in Page
  <2>1. USERTOP - 1 \in Page
    BY MemoryAssumption DEF Page
  <2>2. QED
    BY <2>1, KernelWritesNew, Zenon DEF KernelStep, IInv
<1>1. state[p] = "RUNNABLE" /\ pgdir[p] \in Pgdir /\ pgdir'[p] = pgdir[p] /\ dir[p] # pgdir[p]
  <2>1. state[p] = "RUNNABLE"
    BY Zenon DEF Fork, ForkStart, ForkMap, ForkIncrease, ForkDone, ForkFree,
       Exec, ExecStart, ExecAlloc, ExecBad, ExecStack, ExecFree, InUser, IInv, DirOwned
  <2>2. UNCHANGED pgdir
    BY Zenon DEF Fork, ForkStart, ForkMap, ForkIncrease, ForkFree, procVars
  <2>3. QED
    BY <2>1, <2>2, OwnsDirs, ProcAssumption, Zenon DEF IInv, DirOwned
<1>2. state'[p] = "RUNNABLE"
  <2>1. CASE Fork(p) /\ ~ForkDone(p)
    <3>1. ASSUME NEW c \in Proc, NEW d \in Pgdir, ForkStart(p, c, d) PROVE state'[p] = "RUNNABLE"
      <4>1. c # p /\ state' = [state EXCEPT ![c] = "EMBRYO"]
        BY <1>1, <3>1, Zenon DEF ForkStart
      <4>2. QED
        BY <1>0, <1>1, <4>1, OwnerTypes, Zenon
    <3>2. CASE ForkFree(p)
      <4>1. child[p] # p /\ (UNCHANGED state \/ state' = [state EXCEPT ![child[p]] = "UNUSED"])
        BY <1>1, <3>2, Zenon DEF ForkFree, IInv, ChildOwned, Forkers
      <4>2. QED
        BY <1>0, <1>1, <4>1, OwnerTypes, Zenon
    <3>3. QED
      BY <1>1, <2>1, <3>1, <3>2, Zenon DEF Fork, ForkMap, ForkIncrease, procVars
  <2>2. CASE Exec(p)
    BY <1>1, <2>2, Zenon DEF Exec, ExecStart, ExecAlloc, ExecBad, ExecStack, ExecFree, procVars
  <2>3. QED
    BY <2>1, <2>2, Zenon
<1>3. CASE pte'[pgdir[p]] = pte[pgdir[p]]
  BY <1>0, <1>1, <1>2, <1>3, SameTable, Zenon
<1>4. ASSUME NEW a \in Page, NEW f, NEW w \in BOOLEAN, MapFrame(dir[p], a, f, w)
      PROVE  Resizes(p)
  BY <1>0, <1>1, <1>3, <1>4, TableTypes, Zenon DEF MapFrame
<1>5. CASE Fork(p) /\ ~ForkDone(p)
  <2>1. CASE ForkFree(p)
    BY <1>3, <1>4, <2>1, Zenon DEF ForkFree, ReleasePage, tableVars
  <2>2. ASSUME NEW a \in Page, ForkMap(p, a) PROVE Resizes(p)
    <3>1. pte' = pte \/ pte' = [pte EXCEPT ![dir[p]][a] = pte[pgdir[p]][a]]
      BY <2>2, Zenon DEF ForkMap, tableVars
    <3>2. QED
      BY <1>0, <1>1, <1>3, <3>1, TableTypes, Zenon
  <2>3. QED
    BY <1>3, <1>5, <2>1, <2>2, Zenon DEF Fork, ForkStart, ForkIncrease, tableVars
<1>6. CASE Exec(p)
  BY <1>0, <1>3, <1>4, <1>6, Zenon
     DEF Exec, ExecStart, ExecAlloc, ExecBad, ExecStack, ExecFree, ReleasePage, tableVars
<1>7. QED
  BY <1>5, <1>6, Zenon

(* What the processes other than p see of a step of p: nothing. *)
Unseen(p) ==
  \A q \in Proc : q # p =>
    /\ q \in Live' <=> q \in Live
    /\ LiveRegion'[q] = LiveRegion[q] /\ View'[q] = View[q]

(* No step of p is seen by another process, but for fork and its child. *)
LEMMA StepIsUnseen ==
  ASSUME IInv, CountsTell, NEW p \in Proc, NEW q \in Proc, q # p,
         KernelStep(p) \/ \E a \in Page, v \in Value : Store(p, a, v),
         ForkDone(p) => q # child[p]
  PROVE  /\ q \in Live' <=> q \in Live
         /\ LiveRegion'[q] = LiveRegion[q] /\ View'[q] = View[q]
<1>1. Confined(p)
  BY ConfinedFault, ConfinedSbrk, ConfinedFork, ConfinedExec, ConfinedExit, Zenon DEF KernelStep
<1>2. Kept(q)
  BY OthersStay, Zenon
<1>3. \A e \in Pgdir, b \in Page :
        e # pgdir[p] /\ pte[e][b] # None => mem'[pte[e][b]] = mem[pte[e][b]]
  <2>1. CASE KernelStep(p)
    BY <2>1, KernelWritesNew, NewKeeps, Zenon
  <2>2. ASSUME NEW a \in Page, NEW v \in Value, Store(p, a, v)
        PROVE  \A e \in Pgdir, b \in Page :
                 e # pgdir[p] /\ pte[e][b] # None => mem'[pte[e][b]] = mem[pte[e][b]]
    <3>1. WritesOwn(p, a, v)
      BY <2>2, StoreKeeps, Zenon
    <3>2. QED
      BY <3>1, Zenon DEF WritesOwn
  <2>3. QED
    BY <2>1, <2>2, Zenon
<1>4. QED
  BY <1>1, <1>2, <1>3, OthersSeeNothing, Zenon DEF Confined

(* A store changes one page of the abstract memory. *)
LEMMA StoreRefines ==
  ASSUME IInv, CountsTell, NEW p \in Proc, NEW a \in Page, NEW v \in Value, Store(p, a, v)
  PROVE  PM!PMStore(p, a, v)
<1>1. /\ state[p] = "RUNNABLE"
      /\ UNCHANGED <<pte, state, pgdir, sz, stackSize>>
  BY Zenon DEF Store, AtPage, InUser, tableVars, procVars
<1>2. p \in Live /\ Live' = Live /\ LiveRegion' = LiveRegion
  BY <1>1, Zenon DEF Live, LiveRegion, Region
<1>3. Unseen(p)
  BY StepIsUnseen, Zenon DEF Unseen, ForkDone, Store, AtPage, InUser
<1>4. pgdir[p] \in Pgdir /\ Sees(p, a)' = v /\ \A b \in Page : b # a => Sees(p, b)' = Sees(p, b)
  <2>1. /\ pgdir[p] \in Pgdir /\ pte[pgdir[p]][a] # None /\ mem'[pte[pgdir[p]][a]] = v
        /\ \A b \in Page : pte[pgdir[p]][b] # None /\ b # a =>
             mem'[pte[pgdir[p]][b]] = mem[pte[pgdir[p]][b]]
    <3>1. WritesOwn(p, a, v)
      BY StoreKeeps, Zenon
    <3>2. QED
      BY <3>1, Zenon DEF WritesOwn
  <2>2. QED
    BY <1>1, <2>1, Zenon DEF Sees
<1>5. View[p] = [b \in Page |-> Sees(p, b)] /\ View'[p] = [b \in Page |-> Sees(p, b)']
  BY <1>2, LiveSees, LiveSeesNext, Zenon
<1>6. View'[p] = [View[p] EXCEPT ![a] = v]
  BY <1>4, <1>5, ZenonT(40)
<1>7. View \in [Proc -> {View[q] : q \in Proc}] /\ View' \in [Proc -> {View'[q] : q \in Proc}]
  BY Zenon DEF View
<1>8. View' = [View EXCEPT ![p][a] = v]
  BY <1>3, <1>6, <1>7, Zenon DEF Unseen
<1>9. QED
  BY <1>2, <1>8, Zenon DEF PM!PMStore

(* When fork returns, the child sees its parent's heap and stack. *)
LEMMA ForkRefines ==
  ASSUME IInv, CountsTell, ForkCopied, NEW p \in Proc, ForkDone(p)
  PROVE  PM!PMFork(p, child[p])
<1>1. PICK c \in Proc : c = child[p] /\ state[c] = "EMBRYO" /\ state[p] = "RUNNABLE" /\ c # p
  BY Zenon DEF ForkDone, IInv, ChildOwned, DirOwned, Forkers
<1>2. /\ state' = [state EXCEPT ![c] = "RUNNABLE"]
      /\ pgdir' = [pgdir EXCEPT ![c] = dir[p]]
      /\ sz' = [sz EXCEPT ![c] = sz[p]] /\ stackSize' = [stackSize EXCEPT ![c] = stackSize[p]]
      /\ UNCHANGED <<pte, mem>> /\ pc[p] = "fork" /\ todo[p] = {}
  BY <1>1, Zenon DEF ForkDone, tableVars, frameVars
<1>3. /\ state \in [Proc -> {"UNUSED", "EMBRYO", "RUNNABLE", "ZOMBIE"}]
      /\ pgdir \in [Proc -> Pgdir \cup {None}]
      /\ sz \in [Proc -> 0..USERTOP] /\ stackSize \in [Proc -> 0..USERTOP]
  BY Zenon DEF IInv, TypeOK
<1>4. /\ state'[c] = "RUNNABLE" /\ pgdir'[c] = dir[p]
      /\ sz'[c] = sz[p] /\ stackSize'[c] = stackSize[p]
      /\ state'[p] = state[p] /\ pgdir'[p] = pgdir[p]
      /\ sz'[p] = sz[p] /\ stackSize'[p] = stackSize[p]
  BY <1>1, <1>2, <1>3, Zenon
<1>0. pte' = pte /\ mem' = mem /\ pgdir'[p] = pgdir[p] /\ pgdir'[c] = dir[p]
  BY <1>2, <1>4, Zenon
<1>5. \A a \in Page : pte[dir[p]][a] = IF a \in Region(p) THEN pte[pgdir[p]][a] ELSE None
  BY <1>2, Zenon DEF ForkCopied
<1>6. /\ Region(c)' = Region(p) /\ Region(p)' = Region(p)
      /\ \A a \in Page : Sees(p, a)' = Sees(p, a)
  <2>1. Region(c)' = Region(p) /\ Region(p)' = Region(p)
    BY <1>4, Zenon DEF Region
  <2>2. ASSUME NEW a \in Page PROVE Sees(p, a)' = Sees(p, a)
    BY <1>0, Zenon DEF Sees
  <2>3. QED
    BY <2>1, <2>2, Zenon
<1>7. \A a \in Page : Sees(c, a)' = IF a \in Region(p) THEN Sees(p, a) ELSE Zero
  BY <1>0, <1>5, Zenon DEF Sees
<1>8. \A q \in Proc : q # p /\ q # c =>
        /\ q \in Live' <=> q \in Live
        /\ LiveRegion'[q] = LiveRegion[q] /\ View'[q] = View[q]
  BY <1>1, StepIsUnseen, Zenon DEF KernelStep, Fork
<1>9. p \in Live /\ p \in Live' /\ c \notin Live /\ c \in Live'
  BY <1>1, <1>4, Zenon DEF Live
<1>10. Live' = Live \cup {c}
  <2>1. \A q \in Proc : q \in Live' <=> q \in Live \cup {c}
    BY <1>8, <1>9, Zenon
  <2>2. Live \subseteq Proc /\ Live' \subseteq Proc
    BY Zenon DEF Live
  <2>3. QED
    BY <2>1, <2>2, Zenon
<1>11. LiveRegion' = [LiveRegion EXCEPT ![c] = LiveRegion[p]]
  <2>1. /\ LiveRegion[p] = Region(p) /\ LiveRegion'[c] = LiveRegion[p]
        /\ LiveRegion'[p] = LiveRegion[p]
    BY <1>6, <1>9, LiveSees, LiveSeesNext, ZenonT(30)
  <2>2. LiveRegion \in [Proc -> SUBSET Page] /\ LiveRegion' \in [Proc -> SUBSET Page]
    BY Zenon DEF LiveRegion, Region
  <2>3. QED
    BY <1>8, <2>1, <2>2, Zenon
<1>12. View' = [View EXCEPT ![c] = [a \in Page |->
                  IF a \in LiveRegion[p] THEN View[p][a] ELSE Zero]]
  <2>1. /\ View[p] = [a \in Page |-> Sees(p, a)] /\ View'[p] = [a \in Page |-> Sees(p, a)']
        /\ View'[c] = [a \in Page |-> Sees(c, a)'] /\ LiveRegion[p] = Region(p)
    BY <1>9, LiveSees, LiveSeesNext, Zenon
  <2>2. View'[p] = View[p]
    BY <1>6, <2>1, Zenon
  <2>3. View'[c] = [a \in Page |-> IF a \in LiveRegion[p] THEN View[p][a] ELSE Zero]
    <3>1. \A a \in Page : Sees(c, a)' = IF a \in LiveRegion[p] THEN View[p][a] ELSE Zero
      BY <1>7, <2>1, Zenon
    <3>2. QED
      BY <2>1, <3>1, Zenon
  <2>4. View \in [Proc -> {View[q] : q \in Proc}] /\ View' \in [Proc -> {View'[q] : q \in Proc}]
    BY Zenon DEF View
  <2>5. QED
    BY <1>8, <2>2, <2>3, <2>4, Zenon
<1>13. QED
  BY <1>1, <1>9, <1>10, <1>11, <1>12, Zenon DEF PM!PMFork

(* When exec switches to the new directory, p sees the program's image. *)
LEMMA ExecRefines ==
  ASSUME IInv, CountsTell, ExecBuilt, NEW p \in Proc, ExecStack(p), ~UNCHANGED pgdir
  PROVE  PM!PMExec(p)
<1>1. PICK f \in Frame :
        /\ kalloc(f) /\ MapFrame(dir[p], USERTOP - 1, f, TRUE)
        /\ mem' = [mem EXCEPT ![f] = Zero]
        /\ stackSize' = [stackSize EXCEPT ![p] = 1]
        /\ pgdir' = [pgdir EXCEPT ![p] = dir[p]] /\ sz' = [sz EXCEPT ![p] = TextPages + 1]
  BY Zenon DEF ExecStack
<1>2. pc[p] = "exec" /\ todo[p] = {} /\ UNCHANGED state /\ state[p] = "RUNNABLE"
  BY Zenon DEF ExecStack, IInv, DirOwned
<1>3. /\ TypeOK /\ pgdir \in [Proc -> Pgdir \cup {None}] /\ mem \in [Frame -> Value]
      /\ sz \in [Proc -> 0..USERTOP] /\ stackSize \in [Proc -> 0..USERTOP]
      /\ None \notin Frame /\ dir[p] \in Pgdir
  BY <1>2, OwnsDirs, ProcAssumption, Zenon DEF IInv, TypeOK, Builders
<1>4. /\ pgdir'[p] = dir[p] /\ sz'[p] = TextPages + 1 /\ stackSize'[p] = 1
  BY <1>1, <1>3, Zenon
<1>5. /\ USERTOP \in Nat /\ TextPages \in Nat /\ TextPages + 3 <= USERTOP
      /\ USERTOP - 1 \in Page /\ USERTOP - 1 \notin TextPage
  BY MemoryAssumption DEF Page, TextPage
<1>6. Region(p)' = TextPage \cup {USERTOP - 1}
  BY <1>4, <1>5 DEF Region, Page, TextPage
<1>7. /\ pte'[dir[p]][USERTOP - 1] = f
      /\ \A a \in Page : a # USERTOP - 1 => pte'[dir[p]][a] = pte[dir[p]][a]
  BY <1>1, <1>3, <1>5, TableTypes, Zenon DEF MapFrame
<1>8. ASSUME NEW a \in Page PROVE Sees(p, a)' = IF a \in TextPage THEN Text ELSE Zero
  <2>1. Sees(p, a)' = IF pte'[dir[p]][a] # None THEN mem'[pte'[dir[p]][a]] ELSE Zero
    BY <1>4, Zenon DEF Sees
  <2>2. CASE a = USERTOP - 1
    BY <1>1, <1>3, <1>5, <1>7, <2>1, <2>2, Zenon
  <2>3. CASE a # USERTOP - 1 /\ a \notin TextPage
    BY <1>2, <1>7, <2>1, <2>3, Zenon DEF ExecBuilt
  <2>4. CASE a \in TextPage
    <3>1. pte[dir[p]][a] # None /\ mem[pte[dir[p]][a]] = Text
      BY <1>2, <2>4, Zenon DEF ExecBuilt
    <3>2. WritesNew(p)
      BY KernelWritesNew, Zenon DEF KernelStep, Exec
    <3>3. mem'[pte[dir[p]][a]] = Text
      BY <1>3, <3>1, <3>2, NewKeeps, Zenon
    <3>4. QED
      BY <1>5, <1>7, <2>1, <2>4, <3>1, <3>3, Zenon
  <2>5. QED
    BY <2>2, <2>3, <2>4, Zenon
<1>9. Unseen(p)
  BY <1>2, StepIsUnseen, Zenon DEF Unseen, KernelStep, Exec, ExecStack, ForkDone
<1>10. p \in Live /\ Live' = Live
  BY <1>2, Zenon DEF Live
<1>11. LiveRegion' = [LiveRegion EXCEPT ![p] = TextPage \cup {USERTOP - 1}]
  <2>1. LiveRegion'[p] = TextPage \cup {USERTOP - 1}
    BY <1>6, <1>10, LiveSeesNext, Zenon
  <2>2. LiveRegion \in [Proc -> SUBSET Page] /\ LiveRegion' \in [Proc -> SUBSET Page]
    BY Zenon DEF LiveRegion, Region
  <2>3. QED
    BY <1>9, <2>1, <2>2, Zenon DEF Unseen
<1>12. View' = [View EXCEPT ![p] = [a \in Page |-> IF a \in TextPage THEN Text ELSE Zero]]
  <2>1. View'[p] = [a \in Page |-> Sees(p, a)']
    BY <1>10, LiveSeesNext, Zenon
  <2>2. View'[p] = [a \in Page |-> IF a \in TextPage THEN Text ELSE Zero]
    BY <1>8, <2>1, Zenon
  <2>3. View \in [Proc -> {View[q] : q \in Proc}] /\ View' \in [Proc -> {View'[q] : q \in Proc}]
    BY Zenon DEF View
  <2>4. QED
    BY <1>9, <2>2, <2>3, Zenon DEF Unseen
<1>13. QED
  BY <1>10, <1>11, <1>12, Zenon DEF PM!PMExec, PM!Image

(* exit ends what p sees. *)
LEMMA ExitRefines ==
  ASSUME IInv, CountsTell, NEW p \in Proc, Exit(p), p # InitProc
  PROVE  PM!PMExit(p)
<1>1. state[p] = "RUNNABLE" /\ pc[p] = "user" /\ state' = [state EXCEPT ![p] = "ZOMBIE"]
  BY Zenon DEF Exit
<1>2. state'[p] = "ZOMBIE"
  BY <1>1, OwnerTypes, Zenon DEF IInv
<1>3. p \in Live /\ p \notin Live' /\ Live \subseteq Proc /\ Live' \subseteq Proc
  BY <1>1, <1>2, Zenon DEF Live
<1>4. Unseen(p)
  BY <1>1, StepIsUnseen, Zenon DEF Unseen, KernelStep, ForkDone
<1>5. Live' = Live \ {p}
  BY <1>3, <1>4, Zenon DEF Unseen
<1>6. LiveRegion'[p] = {} /\ View'[p] = [a \in Page |-> Zero]
  BY <1>3, LiveSeesNext, Zenon
<1>7. LiveRegion \in [Proc -> SUBSET Page] /\ LiveRegion' \in [Proc -> SUBSET Page]
  BY Zenon DEF LiveRegion, Region
<1>8. View \in [Proc -> {View[q] : q \in Proc}] /\ View' \in [Proc -> {View'[q] : q \in Proc}]
  BY Zenon DEF View
<1>9. /\ LiveRegion' = [LiveRegion EXCEPT ![p] = {}]
      /\ View' = [View EXCEPT ![p] = [a \in Page |-> Zero]]
  BY <1>4, <1>6, <1>7, <1>8, Zenon DEF Unseen
<1>10. QED
  BY <1>3, <1>5, <1>9, Zenon DEF PM!PMExit, PM!Blank

(* wait frees the pages of a process that has ended: nobody sees it. *)
LEMMA WaitIsUnseen ==
  ASSUME IInv, CountsTell, NEW p \in Proc, WaitFree(p)
  PROVE  UNCHANGED <<Live, LiveRegion, View>>
<1>1. state[p] = "ZOMBIE" /\ (UNCHANGED state \/ state' = [state EXCEPT ![p] = "UNUSED"])
  BY Zenon DEF WaitFree
<1>2. state'[p] # "RUNNABLE" /\ state[p] # "RUNNABLE" /\ pc[p] = "user"
  <2>1. TypeOK /\ (pc[p] # "user" => state[p] = "RUNNABLE")
    BY Zenon DEF IInv, DirOwned
  <2>2. QED
    BY <1>1, <2>1, OwnerTypes, Zenon
<1>3. p \notin Live /\ p \notin Live' /\ Live \subseteq Proc /\ Live' \subseteq Proc
  BY <1>2, Zenon DEF Live
<1>4. Unseen(p)
  BY <1>2, StepIsUnseen, Zenon DEF Unseen, KernelStep, ForkDone
<1>5. Live' = Live
  <2>1. \A q \in Proc : q \in Live' <=> q \in Live
    BY <1>3, <1>4, Zenon DEF Unseen
  <2>2. QED
    BY <1>3, <2>1, Zenon
<1>6. LiveRegion'[p] = LiveRegion[p] /\ View'[p] = View[p]
  BY <1>3, LiveSees, LiveSeesNext, Zenon
<1>7. LiveRegion \in [Proc -> SUBSET Page] /\ LiveRegion' \in [Proc -> SUBSET Page]
  BY Zenon DEF LiveRegion, Region
<1>8. View \in [Proc -> {View[q] : q \in Proc}] /\ View' \in [Proc -> {View'[q] : q \in Proc}]
  BY Zenon DEF View
<1>9. LiveRegion' = LiveRegion /\ View' = View
  <2>1. \A q \in Proc : LiveRegion'[q] = LiveRegion[q] /\ View'[q] = View[q]
    BY <1>4, <1>6, Zenon DEF Unseen
  <2>2. LiveRegion' = LiveRegion
    BY <1>7, <2>1
  <2>3. View' = View
    BY <1>8, <2>1
  <2>4. QED
    BY <2>2, <2>3, Zenon
<1>10. QED
  BY <1>5, <1>9, Zenon

(* What user programs see is unchanged when nothing changes but counts and  *)
(* lists.                                                                   *)
LEMMA SameView ==
  ASSUME UNCHANGED <<pte, mem, state, pgdir, sz, stackSize>>
  PROVE  UNCHANGED <<Live, LiveRegion, View>>
<1>1. Live' = Live
  BY Zenon DEF Live
<1>2. LiveRegion' = LiveRegion
  BY <1>1, Zenon DEF LiveRegion, Region
<1>3. View' = View
  BY <1>1, Zenon DEF View
<1>4. QED
  BY <1>1, <1>2, <1>3, Zenon

(* Every step of the kernel is a step of the private memory of the process  *)
(* that takes it, or of none.                                               *)
LEMMA StepRefines ==
  ASSUME IInv, CountsTell, ViewInv, Next
  PROVE  MemoryStep
<1>0. ForkCopied /\ ExecBuilt /\ SizesFit
  BY Zenon DEF ViewInv
<1>1. CASE KernelAlloc \/ KernelFree
  <2>1. UNCHANGED <<Live, LiveRegion, View>>
    BY <1>1, SameView, Zenon DEF KernelAlloc, KernelFree, tableVars, procVars
  <2>2. QED
    BY <2>1, Zenon DEF MemoryStep, PM!pmVars
<1>2. ASSUME NEW p \in Proc, Resizes(p), ~ForkDone(p),
             \/ Fault(p) \/ Fork(p) \/ Exec(p)
             \/ SbrkGrow(p) \/ SbrkShrink(p) \/ SbrkFails(p)
      PROVE  MemoryStep
  <2>1. KernelStep(p)
    BY <1>2, Zenon DEF KernelStep
  <2>2. PM!PMResize(p)
    BY <1>2, <2>1, StepIsUnseen, ResizeRefines, Zenon
  <2>3. QED
    BY <1>2, <2>2, Zenon DEF MemoryStep
<1>3. ASSUME NEW p \in Proc, NEW a \in Page, NEW v \in Value, Store(p, a, v)
      PROVE  MemoryStep
  <2>1. PM!PMStore(p, a, v)
    BY <1>3, StoreRefines, Zenon
  <2>2. QED
    BY <1>3, <2>1, Zenon DEF MemoryStep
<1>4. ASSUME NEW p \in Proc, ForkDone(p) PROVE MemoryStep
  <2>1. child[p] \in Proc
    BY <1>4, Zenon DEF ForkDone, IInv, ChildOwned, Forkers
  <2>2. PM!PMFork(p, child[p])
    BY <1>0, <1>4, <2>1, ForkRefines, Zenon
  <2>3. QED
    BY <1>4, <2>2, Zenon DEF MemoryStep
<1>5. ASSUME NEW p \in Proc, Exec(p), ~ForkDone(p) PROVE MemoryStep
  <2>1. CASE UNCHANGED pgdir
    BY <1>2, <1>5, <2>1, BuildResizes, Zenon
  <2>2. CASE ~UNCHANGED pgdir
    <3>1. ExecStack(p)
      BY <1>5, <2>2, Zenon DEF Exec, ExecStart, ExecAlloc, ExecBad, ExecFree, procVars
    <3>2. PM!PMExec(p)
      BY <1>0, <1>5, <2>2, <3>1, ExecRefines, Zenon
    <3>3. QED
      BY <3>1, <3>2, Zenon DEF MemoryStep
  <2>3. QED
    BY <2>1, <2>2, Zenon
<1>6. ASSUME NEW p \in Proc, Fault(p) \/ Fork(p) \/ SbrkGrow(p) \/ SbrkShrink(p) \/ SbrkFails(p),
             ~ForkDone(p)
      PROVE  MemoryStep
  <2>1. Resizes(p)
    BY <1>0, <1>6, FaultResizes, SbrkResizes, BuildResizes, Zenon
  <2>2. QED
    BY <1>2, <1>6, <2>1, Zenon
<1>7. ASSUME NEW p \in Proc, Exit(p) PROVE MemoryStep
  <2>1. CASE p # InitProc
    <3>1. PM!PMExit(p)
      BY <1>7, <2>1, ExitRefines, Zenon
    <3>2. QED
      BY <1>7, <3>1, Zenon DEF MemoryStep
  <2>2. CASE p = InitProc
    <3>1. UNCHANGED <<Live, LiveRegion, View>>
      BY <1>7, <2>2, SameView, Zenon DEF Exit, frameVars, tableVars
    <3>2. QED
      BY <3>1, Zenon DEF MemoryStep, PM!pmVars
  <2>3. QED
    BY <2>1, <2>2, Zenon
<1>8. ASSUME NEW p \in Proc, WaitFree(p) PROVE MemoryStep
  BY <1>8, WaitIsUnseen, Zenon DEF MemoryStep, PM!pmVars
<1>9. QED
  BY <1>1, <1>3, <1>4, <1>5, <1>6, <1>7, <1>8, Zenon DEF Next

(* Heap and stack grow towards each other and stop before they meet. *)
LEMMA SizesFitStep ==
  ASSUME IInv, SizesFit, Next
  PROVE  SizesFit'
<1>0. /\ USERTOP \in Nat /\ TextPages \in Nat /\ TextPages + 3 <= USERTOP
      /\ sz \in [Proc -> 0..USERTOP] /\ stackSize \in [Proc -> 0..USERTOP] /\ TypeOK
  BY MemoryAssumption, Zenon DEF IInv, TypeOK
<1>1. CASE UNCHANGED <<sz, stackSize>>
  BY <1>1, Zenon DEF SizesFit
<1>2. ASSUME NEW p \in Proc, NEW y \in 0..USERTOP, NEW x \in 0..USERTOP,
             sz' = [sz EXCEPT ![p] = y], stackSize' = [stackSize EXCEPT ![p] = x],
             y < USERTOP, y + x <= USERTOP
      PROVE  SizesFit'
  BY <1>0, <1>2, Zenon DEF SizesFit
<1>3. ASSUME NEW p \in Proc
      PROVE  /\ sz[p] \in 0..USERTOP /\ stackSize[p] \in 0..USERTOP
             /\ sz[p] < USERTOP /\ sz[p] + stackSize[p] <= USERTOP
             /\ [sz EXCEPT ![p] = sz[p]] = sz /\ [stackSize EXCEPT ![p] = stackSize[p]] = stackSize
  BY <1>0, Zenon DEF SizesFit
<1>4. ASSUME NEW p \in Proc, NEW a \in Page, StackFault(p, a) PROVE SizesFit'
  <2>1. CASE UNCHANGED stackSize
    BY <1>1, <1>4, <2>1, Zenon DEF StackFault
  <2>2. CASE stackSize' = [stackSize EXCEPT ![p] = stackSize[p] + 1]
    <3>1. UNCHANGED sz /\ isLackOfStackCapacity(p, a) /\ a \in Int
      BY <1>4 DEF StackFault, Page
    <3>2. /\ stackSize[p] + 1 \in 0..USERTOP /\ sz[p] + (stackSize[p] + 1) <= USERTOP
      BY <1>0, <1>3, <3>1 DEF isLackOfStackCapacity
    <3>3. QED
      BY <1>2, <1>3, <2>2, <3>1, <3>2, Zenon
  <2>3. QED
    BY <1>4, <2>1, <2>2, Zenon DEF StackFault, stackGrow, stackGrowRemap, stackGrowFails
<1>5. ASSUME NEW p \in Proc, SbrkGrow(p) \/ SbrkShrink(p) \/ SbrkFails(p) PROVE SizesFit'
  <2>1. UNCHANGED stackSize
    BY <1>5, Zenon DEF SbrkGrow, SbrkShrink, SbrkFails
  <2>2. CASE UNCHANGED sz
    BY <1>1, <2>1, <2>2, Zenon
  <2>3. ASSUME NEW y, sz' = [sz EXCEPT ![p] = y], y \in 0..heapLimit(p) \/ y \in 0..sz[p]
        PROVE  SizesFit'
    <3>1. y \in 0..USERTOP /\ y < USERTOP /\ y + stackSize[p] <= USERTOP
      BY <1>0, <1>3, <2>3 DEF heapLimit
    <3>2. QED
      BY <1>2, <1>3, <2>1, <2>3, <3>1, Zenon
  <2>4. CASE SbrkGrow(p) /\ ~UNCHANGED sz
    <3>1. /\ sz[p] + 1 <= heapLimit(p)
          /\ sz' = [sz EXCEPT ![p] = IF sz[p] + 2 > heapLimit(p) THEN sz[p] + 1 ELSE sz[p] + 2]
      BY <2>4, Zenon DEF SbrkGrow
    <3>2. (IF sz[p] + 2 > heapLimit(p) THEN sz[p] + 1 ELSE sz[p] + 2) \in 0..heapLimit(p)
      BY <1>0, <1>3, <3>1 DEF heapLimit
    <3>3. QED
      BY <2>3, <3>1, <3>2, Zenon
  <2>5. CASE SbrkShrink(p)
    <3>1. sz[p] >= 1 /\ sz' = [sz EXCEPT ![p] = shrunk(sz[p])]
      BY <2>5, Zenon DEF SbrkShrink
    <3>2. shrunk(sz[p]) \in 0..sz[p]
      BY <1>3, <3>1 DEF shrunk
    <3>3. QED
      BY <2>3, <3>1, <3>2, Zenon
  <2>6. QED
    BY <1>5, <2>2, <2>4, <2>5, Zenon DEF SbrkFails
<1>6. ASSUME NEW p \in Proc, Fork(p) PROVE SizesFit'
  <2>1. CASE ForkDone(p)
    <3>1. /\ child[p] \in Proc /\ sz' = [sz EXCEPT ![child[p]] = sz[p]]
          /\ stackSize' = [stackSize EXCEPT ![child[p]] = stackSize[p]]
      BY <2>1, Zenon DEF ForkDone, IInv, ChildOwned, Forkers
    <3>2. QED
      BY <1>2, <1>3, <3>1, Zenon
  <2>2. QED
    BY <1>1, <1>6, <2>1, Zenon DEF Fork, ForkStart, ForkMap, ForkIncrease, ForkFree, procVars
<1>7. ASSUME NEW p \in Proc, Exec(p) PROVE SizesFit'
  <2>1. CASE ExecStack(p)
    <3>1. \/ /\ stackSize' = [stackSize EXCEPT ![p] = 1]
             /\ UNCHANGED sz \/ sz' = [sz EXCEPT ![p] = TextPages + 1]
          \/ stackSize' = [stackSize EXCEPT ![p] = 0] /\ UNCHANGED sz
      BY <2>1, Zenon DEF ExecStack
    <3>2. /\ 1 \in 0..USERTOP /\ 0 \in 0..USERTOP /\ TextPages + 1 \in 0..USERTOP
          /\ TextPages + 1 < USERTOP /\ (TextPages + 1) + 1 <= USERTOP
          /\ sz[p] + 1 <= USERTOP /\ sz[p] + 0 <= USERTOP
      BY <1>0, <1>3
    <3>3. QED
      BY <1>2, <1>3, <3>1, <3>2, Zenon
  <2>2. QED
    BY <1>1, <1>7, <2>1, Zenon DEF Exec, ExecStart, ExecAlloc, ExecBad, ExecFree, procVars
<1>8. ASSUME NEW p \in Proc, WaitFree(p) PROVE SizesFit'
  <2>1. 0 \in 0..USERTOP /\ 0 < USERTOP /\ 0 + 0 <= USERTOP
    BY <1>0
  <2>2. QED
    BY <1>1, <1>2, <1>8, <2>1, Zenon DEF WaitFree
<1>9. ASSUME NEW p \in Proc, Fault(p) PROVE SizesFit'
  BY <1>1, <1>4, <1>9, Zenon DEF Fault, NullFault, LazyFault, FaultCount, CowReuse, CowAlloc,
     CowCopy, CowDecrease, procVars
<1>10. ASSUME NEW p \in Proc, Exit(p) \/ \E a \in Page, v \in Value : Store(p, a, v)
       PROVE  SizesFit'
  BY <1>1, <1>10, Zenon DEF Exit, Store, procVars
<1>11. ASSUME KernelAlloc \/ KernelFree PROVE SizesFit'
  BY <1>1, <1>11, Zenon DEF KernelAlloc, KernelFree, procVars
<1>12. QED
  BY <1>5, <1>6, <1>7, <1>8, <1>9, <1>10, <1>11, Zenon DEF Next

(* Only fork and exec bring a process to their loops. *)
LEMMA LoopSteps ==
  ASSUME IInv, NEW p \in Proc, KernelStep(p) \/ \E a \in Page, v \in Value : Store(p, a, v)
  PROVE  /\ pc'[p] \in {"fork", "forkInc"} =>
              \/ \E c \in Proc, d \in Pgdir : ForkStart(p, c, d)
              \/ \E a \in Page : ForkMap(p, a)
              \/ ForkIncrease(p)
         /\ pc'[p] = "exec" =>
              (\E d \in Pgdir : ExecStart(p, d)) \/ \E a \in Page : ExecAlloc(p, a)
<1> DEFINE Elsewhere == pc'[p] \notin {"fork", "forkInc", "exec"}
<1>0. TypeOK /\ pc \in [Proc -> PC] /\ (state[p] # "RUNNABLE" => pc[p] = "user")
  BY Zenon DEF IInv, DirOwned, TypeOK
<1>1. ASSUME UNCHANGED pc, pc[p] \in {"user", "forkFree", "free"} PROVE Elsewhere
  BY <1>1, Zenon
<1>2. ASSUME Idle(p) PROVE Elsewhere
  BY <1>0, <1>2, IdleOthers, Zenon
<1>3. ASSUME NEW x \in {"cow", "copy", "dec", "free"}, pc' = [pc EXCEPT ![p] = x] PROVE Elsewhere
  BY <1>0, <1>3, Zenon
<1>4. CASE Fault(p) \/ \E a \in Page, v \in Value : Store(p, a, v)
  <2>1. Elsewhere
    <3>1. CASE NullFault(p) \/ (\E a \in Page : StackFault(p, a) \/ LazyFault(p, a))
               \/ \E a \in Page, v \in Value : Store(p, a, v)
      BY <1>1, <3>1, Zenon DEF NullFault, StackFault, LazyFault, Store, AtPage, InUser, threadVars
    <3>2. ASSUME NEW a \in Page, FaultCount(p, a) PROVE Elsewhere
      BY <1>1, <1>3, <3>2, Zenon DEF FaultCount, AtPage, InUser, threadVars
    <3>3. CASE CowReuse(p) \/ CowAlloc(p) \/ CowCopy(p) \/ CowDecrease(p)
      BY <1>2, <1>3, <3>3, Zenon DEF CowReuse, CowAlloc, CowCopy, CowDecrease
    <3>4. QED
      BY <1>4, <3>1, <3>2, <3>3, Zenon DEF Fault
  <2>2. QED
    BY <2>1, Zenon
<1>5. CASE SbrkGrow(p) \/ SbrkShrink(p) \/ SbrkFails(p) \/ Exit(p) \/ WaitFree(p)
  BY <1>0, <1>1, <1>5, Zenon
     DEF SbrkGrow, SbrkShrink, SbrkFails, Exit, WaitFree, InUser, threadVars
<1>6. CASE Fork(p)
  <2>1. ASSUME NEW c \in Proc, NEW d \in Pgdir, ForkStart(p, c, d) PROVE pc'[p] = "fork"
    BY <1>0, <2>1, Zenon DEF ForkStart
  <2>2. CASE ForkDone(p) \/ ForkFree(p)
    BY <1>1, <1>2, <2>2, Zenon DEF ForkDone, ForkFree, threadVars
  <2>3. ASSUME NEW a \in Page, ForkMap(p, a) PROVE pc'[p] # "exec"
    BY <1>0, <2>3, SMTT(20) DEF ForkMap
  <2>4. CASE ForkIncrease(p)
    BY <1>0, <2>4, Zenon DEF ForkIncrease
  <2>5. QED
    BY <1>6, <2>1, <2>2, <2>3, <2>4, Zenon DEF Fork
<1>7. CASE Exec(p)
  <2>1. CASE ExecBad(p) \/ ExecStack(p)
    BY <1>3, <2>1, Zenon DEF ExecBad, ExecStack
  <2>2. CASE ExecFree(p)
    BY <1>1, <1>2, <2>2, ZenonT(30) DEF ExecFree, threadVars
  <2>3. ASSUME NEW a \in Page, ExecAlloc(p, a) PROVE pc'[p] \in {"exec", "free"}
    BY <1>0, <2>3, Zenon DEF ExecAlloc
  <2>4. ASSUME NEW d \in Pgdir, ExecStart(p, d) PROVE pc'[p] = "exec"
    BY <1>0, <2>4, Zenon DEF ExecStart
  <2>5. QED
    BY <1>7, <2>1, <2>2, <2>3, <2>4, Zenon DEF Exec
<1>8. QED
  BY <1>4, <1>5, <1>6, <1>7, Zenon DEF KernelStep

(* What p does leaves the tables of a process q in fork or exec alone. *)
LEMMA BuilderKept ==
  ASSUME IInv, CountsTell, NEW p \in Proc, NEW q \in Proc, q # p,
         KernelStep(p) \/ \E a \in Page, v \in Value : Store(p, a, v),
         pc'[q] \in {"fork", "forkInc", "exec"}
  PROVE  /\ pc'[q] = pc[q] /\ dir'[q] = dir[q] /\ pgdir'[q] = pgdir[q] /\ va'[q] = va[q]
         /\ todo'[q] = todo[q] /\ Region(q)' = Region(q)
         /\ pte'[dir[q]] = pte[dir[q]] /\ pte'[pgdir[q]] = pte[pgdir[q]]
         /\ \A a \in Page : pte[dir[q]][a] # None =>
              mem'[pte[dir[q]][a]] = mem[pte[dir[q]][a]]
<1>1. Confined(p)
  BY ConfinedFault, ConfinedSbrk, ConfinedFork, ConfinedExec, ConfinedExit, ZenonT(30)
     DEF KernelStep
<1>2. pc'[q] = pc[q] /\ pc[q] # "user" /\ pc[q] \in Builders
  BY <1>1, Zenon DEF Confined, ConfinedHandlers, Builders
<1>3. pgdir'[q] = pgdir[q] /\ dir'[q] = dir[q] /\ va'[q] = va[q]
  BY <1>1, <1>2, Zenon DEF Confined, ConfinedHandlers
<1>4. state[q] = "RUNNABLE" /\ pgdir[q] \in Pgdir /\ dir[q] \in Pgdir
  BY <1>2, OwnsDirs, Zenon DEF IInv, DirOwned
<1>5. pgdir[q] \notin {pgdir[p], dir[p]} /\ dir[q] \notin {pgdir[p], dir[p]}
  BY <1>4, ProcAssumption, Zenon DEF IInv, DirOwned
<1>6. pte'[dir[q]] = pte[dir[q]] /\ pte'[pgdir[q]] = pte[pgdir[q]]
  BY <1>1, <1>4, <1>5, Zenon DEF Confined, ConfinedTables
<1>7. Kept(q)
  <2>1. ForkDone(p) => state[child[p]] = "EMBRYO"
    BY Zenon DEF ForkDone, IInv, ChildOwned, Forkers
  <2>2. QED
    BY <1>4, <2>1, OthersStay, Zenon
<1>8. todo'[q] = todo[q] /\ Region(q)' = Region(q)
  BY <1>4, <1>7, Zenon DEF Kept, Region
<1>9. ASSUME NEW a \in Page, pte[dir[q]][a] # None
      PROVE  mem'[pte[dir[q]][a]] = mem[pte[dir[q]][a]]
  <2>1. CASE KernelStep(p)
    BY <1>4, <1>9, <2>1, KernelWritesNew, NewKeeps, Zenon
  <2>2. ASSUME NEW b \in Page, NEW v \in Value, Store(p, b, v)
        PROVE  mem'[pte[dir[q]][a]] = mem[pte[dir[q]][a]]
    <3>1. WritesOwn(p, b, v)
      BY <2>2, StoreKeeps, Zenon
    <3>2. QED
      BY <1>4, <1>5, <1>9, <3>1, ZenonT(30) DEF WritesOwn
  <2>3. QED
    BY <2>1, <2>2, Zenon
<1>10. QED
  BY <1>2, <1>3, <1>6, <1>8, <1>9, Zenon

(* copyuvm's loop keeps what it has copied. *)
LEMMA ForkCopiedStep ==
  ASSUME IInv, CountsTell, ForkCopied, NEW p \in Proc,
         KernelStep(p) \/ \E a \in Page, v \in Value : Store(p, a, v)
  PROVE  ForkCopied'
<1> DEFINE OK(q) == pc[q] \in {"fork", "forkInc"} =>
              /\ todo[q] \subseteq Region(q)
              /\ pc[q] = "forkInc" => va[q] \in Region(q)
              /\ \A a \in Page \ todo[q] :
                   pte[dir[q]][a] = IF a \in Region(q) THEN pte[pgdir[q]][a] ELSE None
<1>0. (\A q \in Proc : OK(q)) /\ TypeOK
  BY Zenon DEF ForkCopied, IInv
<1>1. ASSUME NEW q \in Proc, q # p PROVE OK(q)'
  <2>1. ASSUME pc'[q] \in {"fork", "forkInc"}
        PROVE  /\ pc'[q] = pc[q] /\ dir'[q] = dir[q] /\ pgdir'[q] = pgdir[q] /\ va'[q] = va[q]
               /\ todo'[q] = todo[q] /\ Region(q)' = Region(q)
               /\ pte'[dir[q]] = pte[dir[q]] /\ pte'[pgdir[q]] = pte[pgdir[q]]
    <3>1. pc'[q] \in {"fork", "forkInc", "exec"}
      BY <2>1, Zenon
    <3>2. QED
      BY <1>1, <3>1, BuilderKept, Zenon
  <2>2. ASSUME pc'[q] \in {"fork", "forkInc"}
        PROVE  /\ todo'[q] \subseteq Region(q)'
               /\ pc'[q] = "forkInc" => va'[q] \in Region(q)'
    <3>1. todo[q] \subseteq Region(q) /\ (pc[q] = "forkInc" => va[q] \in Region(q))
      BY <1>0, <2>1, <2>2, Zenon
    <3>2. QED
      BY <2>1, <2>2, <3>1, Zenon
  <2>3. ASSUME pc'[q] \in {"fork", "forkInc"}, NEW a \in Page \ todo'[q]
        PROVE  pte'[dir'[q]][a] = IF a \in Region(q)' THEN pte'[pgdir'[q]][a] ELSE None
    <3>1. pte[dir[q]][a] = IF a \in Region(q) THEN pte[pgdir[q]][a] ELSE None
      BY <1>0, <2>1, <2>3, Zenon
    <3>2. pte'[dir'[q]] = pte[dir[q]] /\ pte'[pgdir'[q]] = pte[pgdir[q]] /\ Region(q)' = Region(q)
      BY <2>1, <2>3, Zenon
    <3>3. QED
      BY <3>1, <3>2, Zenon
  <2>4. QED
    BY <2>2, <2>3, Zenon
<1>2. ASSUME NEW c \in Proc, NEW d \in Pgdir, ForkStart(p, c, d) PROVE OK(p)'
  <2>1. /\ pc'[p] = "fork" /\ dir'[p] = d /\ todo'[p] = Region(p)
        /\ UNCHANGED <<pte, pgdir, sz, stackSize>>
    BY <1>0, <1>2, OwnerTypes, ZenonT(30) DEF ForkStart, tableVars
  <2>2. \A a \in Page : pte[d][a] = None
    BY <1>2, Zenon DEF ForkStart, BusyDir, IInv, EmptyWhereUnused, UnownedIsEmpty
  <2>3. Region(p)' = Region(p)
    BY <2>1, Zenon DEF Region
  <2>4. QED
    BY <2>1, <2>2, <2>3, Zenon
<1>3. ASSUME NEW a \in Page, ForkMap(p, a) PROVE OK(p)'
  <2>1. /\ pc[p] = "fork" /\ a \in todo[p] /\ UNCHANGED <<pgdir, dir, todo, sz, stackSize>>
        /\ dir[p] # pgdir[p] /\ dir[p] \in Pgdir /\ pgdir[p] \in Pgdir
    BY <1>3, OwnsDirs, Zenon DEF ForkMap, IsFirst, Builders, IInv, DirOwned
  <2>2. Region(p)' = Region(p)
    BY <2>1, Zenon DEF Region
  <2>3. CASE UNCHANGED <<pte, pc, va>>
    <3>1. pc'[p] = pc[p] /\ va'[p] = va[p] /\ todo'[p] = todo[p] /\ dir'[p] = dir[p]
          /\ pgdir'[p] = pgdir[p] /\ pte' = pte
      BY <2>1, <2>3, Zenon
    <3>2. todo[p] \subseteq Region(p) /\ pc'[p] # "forkInc"
          /\ \A b \in Page \ todo[p] :
               pte[dir[p]][b] = IF b \in Region(p) THEN pte[pgdir[p]][b] ELSE None
      BY <1>0, <2>1, <3>1, Zenon
    <3>3. QED
      BY <2>2, <3>1, <3>2, Zenon
  <2>4. CASE pc' = [pc EXCEPT ![p] = "forkFree"]
    BY <1>0, <2>4, OwnerTypes, ZenonT(30)
  <2>5. CASE /\ pte' = [pte EXCEPT ![dir[p]][a] = pte[pgdir[p]][a]]
             /\ pc' = [pc EXCEPT ![p] = "forkInc"] /\ va' = [va EXCEPT ![p] = a]
    <3>1. pc'[p] = "forkInc" /\ va'[p] = a
      BY <1>0, <2>5, TableTypes, ZenonT(30)
    <3>2. pte \in [Pgdir -> [Page -> Frame \cup {None}]]
      BY <1>0, TableTypes, Zenon
    <3>3. /\ pte'[pgdir[p]] = pte[pgdir[p]]
          /\ \A b \in Page : b # a => pte'[dir[p]][b] = pte[dir[p]][b]
      BY <2>1, <2>5, <3>2, ZenonT(30)
    <3>4. /\ todo[p] \subseteq Region(p) /\ a \in Region(p)
          /\ \A b \in Page \ todo[p] :
               pte[dir[p]][b] = IF b \in Region(p) THEN pte[pgdir[p]][b] ELSE None
      BY <1>0, <2>1, Zenon
    <3>5. ASSUME NEW b \in Page \ todo[p]
          PROVE  pte'[dir[p]][b] = IF b \in Region(p) THEN pte'[pgdir[p]][b] ELSE None
      BY <2>1, <3>3, <3>4, Zenon
    <3>6. todo'[p] = todo[p] /\ dir'[p] = dir[p] /\ pgdir'[p] = pgdir[p]
      BY <2>1, Zenon
    <3>7. QED
      BY <2>2, <3>1, <3>4, <3>5, <3>6, Zenon
  <2>6. QED
    BY <1>3, <2>3, <2>4, <2>5, Zenon DEF ForkMap, tableVars
<1>4. ASSUME ForkIncrease(p) PROVE OK(p)'
  <2>1. /\ pc[p] = "forkInc" /\ pc'[p] = "fork" /\ todo'[p] = todo[p] \ {va[p]}
        /\ UNCHANGED <<pte, pgdir, dir, sz, stackSize>>
    BY <1>0, <1>4, OwnerTypes, Zenon DEF ForkIncrease, tableVars, procVars
  <2>2. Region(p)' = Region(p)
    BY <2>1, Zenon DEF Region
  <2>3. pte[dir[p]][va[p]] = pte[pgdir[p]][va[p]] /\ va[p] \in Region(p)
    BY <1>0, <2>1, Zenon DEF IInv, ThreadInv
  <2>4. QED
    <3>1. ASSUME NEW a \in Page \ todo'[p]
          PROVE  pte[dir[p]][a] = IF a \in Region(p) THEN pte[pgdir[p]][a] ELSE None
      <4>1. a = va[p] \/ a \in Page \ todo[p]
        BY <2>1, <3>1, Zenon
      <4>2. QED
        BY <1>0, <2>1, <2>3, <4>1, Zenon
    <3>2. \A a \in Page \ todo'[p] :
            pte'[dir'[p]][a] = IF a \in Region(p)' THEN pte'[pgdir'[p]][a] ELSE None
      BY <2>1, <2>2, <3>1, Zenon
    <3>3. pc'[p] # "forkInc"
      BY <2>1, Zenon
    <3>4. todo[p] \subseteq Region(p)
      BY <1>0, <2>1, Zenon
    <3>5. todo'[p] \subseteq Region(p)'
      BY <2>1, <2>2, <3>4, Zenon
    <3>6. QED
      BY <3>2, <3>3, <3>5, Zenon
<1>5. OK(p)'
  BY <1>2, <1>3, <1>4, LoopSteps, Zenon
<1>6. QED
  BY <1>1, <1>5, Zenon DEF ForkCopied

(* exec's loop keeps what it has loaded. *)
LEMMA ExecBuiltStep ==
  ASSUME IInv, CountsTell, ExecBuilt, NEW p \in Proc,
         KernelStep(p) \/ \E a \in Page, v \in Value : Store(p, a, v)
  PROVE  ExecBuilt'
<1> DEFINE OK(q) == pc[q] = "exec" =>
              /\ todo[q] \subseteq TextPage
              /\ \A a \in Page \ todo[q] :
                   IF a \in TextPage THEN pte[dir[q]][a] # None /\ mem[pte[dir[q]][a]] = Text
                                     ELSE pte[dir[q]][a] = None
<1>0. (\A q \in Proc : OK(q)) /\ TypeOK
  BY Zenon DEF ExecBuilt, IInv
<1>1. ASSUME NEW q \in Proc, q # p PROVE OK(q)'
  <2>1. ASSUME pc'[q] = "exec"
        PROVE  /\ pc'[q] = pc[q] /\ dir'[q] = dir[q] /\ todo'[q] = todo[q]
               /\ pte'[dir[q]] = pte[dir[q]]
               /\ \A a \in Page : pte[dir[q]][a] # None =>
                    mem'[pte[dir[q]][a]] = mem[pte[dir[q]][a]]
    <3>1. pc'[q] \in {"fork", "forkInc", "exec"}
      BY <2>1, Zenon
    <3>2. QED
      BY <1>1, <3>1, BuilderKept, Zenon
  <2>2. ASSUME pc'[q] = "exec", NEW a \in Page \ todo'[q]
        PROVE  IF a \in TextPage
               THEN pte'[dir'[q]][a] # None /\ mem'[pte'[dir'[q]][a]] = Text
               ELSE pte'[dir'[q]][a] = None
    <3>1. IF a \in TextPage THEN pte[dir[q]][a] # None /\ mem[pte[dir[q]][a]] = Text
                            ELSE pte[dir[q]][a] = None
      BY <1>0, <2>1, <2>2, Zenon
    <3>2. /\ pte'[dir'[q]] = pte[dir[q]]
          /\ pte[dir[q]][a] # None => mem'[pte[dir[q]][a]] = mem[pte[dir[q]][a]]
      BY <2>1, <2>2, Zenon
    <3>3. QED
      BY <3>1, <3>2, Zenon
  <2>3. ASSUME pc'[q] = "exec" PROVE todo'[q] \subseteq TextPage
    BY <1>0, <2>1, <2>3, Zenon
  <2>4. QED
    BY <2>2, <2>3, Zenon
<1>2. ASSUME NEW d \in Pgdir, ExecStart(p, d) PROVE OK(p)'
  <2>1. /\ pc'[p] = "exec" /\ dir'[p] = d /\ todo'[p] = TextPage /\ UNCHANGED pte
    BY <1>0, <1>2, OwnerTypes, Zenon DEF ExecStart, tableVars
  <2>2. \A a \in Page : pte[d][a] = None
    BY <1>2, Zenon DEF ExecStart, BusyDir, IInv, EmptyWhereUnused, UnownedIsEmpty
  <2>3. QED
    BY <2>1, <2>2, Zenon
<1>3. ASSUME NEW a \in Page, ExecAlloc(p, a) PROVE OK(p)'
  <2>1. /\ pc[p] = "exec" /\ a \in todo[p] /\ UNCHANGED dir /\ dir[p] \in Pgdir
    BY <1>3, OwnsDirs, Zenon DEF ExecAlloc, IsFirst, Builders
  <2>2. CASE pc' = [pc EXCEPT ![p] = "free"]
    BY <1>0, <2>2, OwnerTypes, Zenon
  <2>3. ASSUME NEW f \in Frame, MapFrame(dir[p], a, f, TRUE), mem' = [mem EXCEPT ![f] = Text],
               todo' = [todo EXCEPT ![p] = todo[p] \ {a}], UNCHANGED pc
        PROVE  OK(p)'
    <3>1. /\ \A b \in Page : b # a => pte'[dir[p]][b] = pte[dir[p]][b]
          /\ pte'[dir[p]][a] = f
      <4>1. pte \in [Pgdir -> [Page -> Frame \cup {None}]]
            /\ pte' = [pte EXCEPT ![dir[p]][a] = f]
        BY <1>0, <2>3, TableTypes, Zenon DEF MapFrame
      <4>2. QED
        BY <2>1, <4>1, Zenon
    <3>0. f # None /\ mem'[f] = Text /\ todo'[p] = todo[p] \ {a}
      BY <1>0, <2>3, FrameTypes, OwnerTypes, ProcAssumption, Zenon
    <3>2. ASSUME NEW b \in Page, pte[dir[p]][b] # None
          PROVE  mem'[pte[dir[p]][b]] = mem[pte[dir[p]][b]]
      <4>1. KernelStep(p)
        BY <1>3, Zenon DEF KernelStep, Exec
      <4>2. QED
        BY <2>1, <3>2, <4>1, KernelWritesNew, NewKeeps, Zenon
    <3>3. a \in TextPage
      BY <1>0, <2>1, Zenon
    <3>4. QED
      <4>1. \A b \in Page \ todo'[p] : b \in Page \ todo[p] \/ b = a
        BY <3>0, Zenon
      <4>2. ASSUME NEW b \in Page \ todo'[p]
            PROVE  IF b \in TextPage THEN pte'[dir[p]][b] # None /\ mem'[pte'[dir[p]][b]] = Text
                                     ELSE pte'[dir[p]][b] = None
        <5>1. CASE b = a
          BY <3>0, <3>1, <3>3, <5>1, Zenon
        <5>2. CASE b # a
          BY <1>0, <2>1, <3>1, <3>2, <4>1, <4>2, <5>2, Zenon
        <5>3. QED
          BY <5>1, <5>2, Zenon
      <4>3. QED
        BY <1>0, <2>1, <3>0, <4>2, Zenon
  <2>4. QED
    BY <1>3, <2>2, <2>3, Zenon DEF ExecAlloc
<1>4. OK(p)'
  BY <1>2, <1>3, LoopSteps, Zenon
<1>5. QED
  BY <1>1, <1>4, Zenon DEF ExecBuilt

(* What fork, exec and sbrk rely on is kept by every step. *)
LEMMA ViewInvStep ==
  ASSUME IInv, CountsTell, ViewInv, Next
  PROVE  ViewInv'
<1>1. SizesFit'
  BY SizesFitStep, Zenon DEF ViewInv
<1>2. ASSUME NEW p \in Proc, KernelStep(p) \/ \E a \in Page, v \in Value : Store(p, a, v)
      PROVE  ForkCopied' /\ ExecBuilt'
  BY <1>2, ForkCopiedStep, ExecBuiltStep, Zenon DEF ViewInv
<1>3. ASSUME KernelAlloc \/ KernelFree PROVE ForkCopied' /\ ExecBuilt'
  <2>1. UNCHANGED <<mem, pte, pgdir, dir, pc, va, todo, sz, stackSize>>
    BY <1>3, Zenon DEF KernelAlloc, KernelFree, tableVars, procVars, threadVars
  <2>2. QED
    BY <2>1, Zenon DEF ViewInv, ForkCopied, ExecBuilt, Region
<1>4. QED
  BY <1>1, <1>2, <1>3, Zenon DEF Next, KernelStep, ViewInv

(* The first process starts with some image, and nothing is in progress. *)
LEMMA InitView ==
  ASSUME Init
  PROVE  ViewInv /\ PM!PMInit
<1>0. /\ USERTOP \in Nat /\ TextPages + 3 <= USERTOP /\ TextPages \in Nat
      /\ InitProc \in Proc /\ Zero \in Value /\ Text \in Value
  BY MemoryAssumption, ProcAssumption, Zenon
<1>1. PICK d \in Pgdir :
        /\ mem = [g \in Frame |-> IF g = Head(BootList) THEN Text ELSE Zero]
        /\ pte = [e \in Pgdir |-> [a \in Page |->
                   IF e = d /\ a = 0 THEN Head(BootList) ELSE None]]
        /\ state = [p \in Proc |-> IF p = InitProc THEN "RUNNABLE" ELSE "UNUSED"]
        /\ pgdir = [p \in Proc |-> IF p = InitProc THEN d ELSE None]
        /\ sz = [p \in Proc |-> IF p = InitProc THEN 1 ELSE 0]
        /\ stackSize = [p \in Proc |-> 0] /\ pc = [p \in Proc |-> "user"]
  BY Zenon DEF Init
<1>2. ForkCopied /\ ExecBuilt
  BY <1>1, Zenon DEF ForkCopied, ExecBuilt
<1>3. SizesFit
  BY <1>0, <1>1 DEF SizesFit
<1>4. Live = {InitProc}
  BY <1>0, <1>1, Zenon DEF Live
<1>5. \A p \in Proc \ {InitProc} : LiveRegion[p] = {} /\ View[p] = [a \in Page |-> Zero]
  BY <1>4, LiveSees, Zenon
<1>6. LiveRegion[InitProc] \in SUBSET Page
  BY <1>0, Zenon DEF LiveRegion, Region
<1>7. View[InitProc] \in [Page -> Value]
  <2>1. View[InitProc] = [a \in Page |-> Sees(InitProc, a)]
    BY <1>0, <1>4, LiveSees, Zenon
  <2>2. \A f \in Frame : mem[f] \in Value
    BY <1>0, <1>1, Zenon
  <2>3. Head(BootList) \in Frame
    BY MemoryAssumption
  <2>4. pgdir[InitProc] = d
    BY <1>0, <1>1, Zenon
  <2>5. \A a \in Page : pte[d][a] \in Frame \cup {None}
    BY <1>1, <2>3, Zenon
  <2>6. \A a \in Page : Sees(InitProc, a) \in Value
    BY <1>0, <2>2, <2>4, <2>5, Zenon DEF Sees
  <2>7. QED
    BY <2>1, <2>6, Zenon
<1>8. QED
  BY <1>2, <1>3, <1>4, <1>5, <1>6, <1>7, Zenon DEF ViewInv, PM!PMInit, PM!Blank

(* A step that changes nothing is seen by nobody. *)
LEMMA StutterView ==
  ASSUME UNCHANGED vars
  PROVE  (ViewInv => ViewInv') /\ UNCHANGED <<Live, LiveRegion, View>>
<1>1. UNCHANGED <<mem, pte, pgdir, dir, pc, va, todo, sz, stackSize, state>>
  BY Zenon DEF vars, frameVars, tableVars, procVars, threadVars
<1>2. ViewInv => ViewInv'
  BY <1>1, Zenon DEF ViewInv, ForkCopied, ExecBuilt, SizesFit, Region
<1>3. QED
  BY <1>1, <1>2, SameView, Zenon
=============================================================================
