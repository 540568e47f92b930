---------------------------- MODULE SharedMemory ----------------------------
(***************************************************************************)
(* SharedMemory.c: the global table of shared pages, the table each        *)
(* process keeps of the signatures it holds, and the parts of allocproc    *)
(* and exit that use them.  AllocSharedMemory and DeallocSharedMemory run  *)
(* under SharedMemoryLock, ReadSharedMemory and WriteSharedMemory without  *)
(* it, so their search of the global table meets updates half done.        *)
(*                                                                         *)
(* A call that returns -1 changes nothing; it is a stuttering step.        *)
(***************************************************************************)
EXTENDS Naturals, Integers, FiniteSets, FiniteSetsExt, Functions

CONSTANTS
  Proc,                    \* slots of ptable.proc
  Signature,               \* arguments of the calls
  Frame,                   \* frames on kmem.freelist at boot
  Value,                   \* contents of a page
  Torn,                    \* contents of a page while strncpy runs
  None,                    \* nobody holds the lock
  SHARED_MEMORY_PER_PROC,
  SHARED_MEMORY_GLOBAL

(* Addresses that are not pages: 0 from InitGlobalSharedMemory or from a   *)
(* kalloc that failed, and the pointer -1 that DeallocSharedMemory leaves.  *)
NotPage == {0, -1}

Place == 1..SHARED_MEMORY_GLOBAL
SelfPlace == 1..SHARED_MEMORY_PER_PROC

ASSUME SharedAssumption ==
  /\ Signature \subseteq Int
  /\ SHARED_MEMORY_GLOBAL \in Nat \ {0} /\ SHARED_MEMORY_PER_PROC \in Nat \ {0}
  /\ Frame \cap NotPage = {}
  /\ None \notin Proc /\ Torn \notin Value /\ Value # {} /\ 0 \notin Value \cup {Torn}
  /\ IsFiniteSet(Proc)

VARIABLES
  VirtualAddress, Sig, UserNumber,  \* the fields of GlobalSharedMemoryList
  SelfSharedMemory,                 \* proc.SelfSharedMemory
  SharedMemoryLock,                 \* its holder, or None
  freeFrames,                       \* kmem.freelist; kfree does not refill it
  content,                          \* contents of the frames
  got,                              \* TheBuffer of p's last ReadSharedMemory
  alive,                            \* processes between allocproc and exit
  pc, arg, place,                   \* where each process is: TheSignature, i
  ptr,                              \* the page strncpy is writing
  panicked

tableVars == <<VirtualAddress, Sig, UserNumber, SelfSharedMemory, SharedMemoryLock>>
vars == <<tableVars, freeFrames, content, got, alive, pc, arg, place, ptr, panicked>>

-----------------------------------------------------------------------------
GetSelf(p) == Range(SelfSharedMemory[p])

(* FindSelfSharedMemory and FindGlobalSharedMemory return the first match. *)
FindSelfSharedMemory(p, s) ==
  Min({k \in SelfPlace : SelfSharedMemory[p][k] = s})

FindGlobalSharedMemory(s) == Min({i \in Place : Sig[i] = s})

Listed(s) == \E i \in Place : Sig[i] = s

(* The loops of AllocSharedMemory remember the last empty place. *)
SelfEmptyPlace(p) == Max({k \in SelfPlace : SelfSharedMemory[p][k] = 0})

(* Mutant: the place is not checked to be empty. *)
GlobalFirstPlace == 1

GlobalEmptyPlace == Max({i \in Place : Sig[i] = 0})

Init ==
  /\ VirtualAddress = [i \in Place |-> 0]
  /\ Sig = [i \in Place |-> 0]
  /\ UserNumber = [i \in Place |-> 0]
  /\ SelfSharedMemory = [p \in Proc |-> [k \in SelfPlace |-> 0]]
  /\ SharedMemoryLock = None
  /\ freeFrames = Frame
  /\ content \in [Frame -> Value]
  /\ got \in [Proc -> Value]
  /\ alive = {}
  /\ pc = [p \in Proc |-> "user"]
  /\ arg = [p \in Proc |-> 0]
  /\ place = [p \in Proc |-> 1]
  /\ ptr = [p \in Proc |-> 0]
  /\ panicked = FALSE

Goto(p, l) == pc' = [pc EXCEPT ![p] = l]

At(p, l, s, i) ==
  /\ Goto(p, l)
  /\ arg' = [arg EXCEPT ![p] = s]
  /\ place' = [place EXCEPT ![p] = i]

Return(p) == At(p, "user", 0, 1)

InUser(p) == p \in alive /\ pc[p] = "user"

(* allocproc empties the table; a child inherits nothing. *)
Allocproc(p) ==
  /\ p \notin alive
  /\ alive' = alive \cup {p}
  /\ SelfSharedMemory' = [SelfSharedMemory EXCEPT ![p] = [k \in SelfPlace |-> 0]]
  /\ UNCHANGED <<VirtualAddress, Sig, UserNumber, SharedMemoryLock, freeFrames,
                 content, got, pc, arg, place, ptr, panicked>>

-----------------------------------------------------------------------------
(* Mutant: the tables are searched before the lock is taken. *)
AllocUnlocked(p, s) ==
  /\ InUser(p)
  /\ s \notin GetSelf(p)
  /\ 0 \in GetSelf(p)

(* AllocSharedMemory.  With signature 0 the search for it finds an empty   *)
(* place, so the call fails.  The other calls take 0 for a signature that  *)
(* the process holds as long as its own table has an empty place.          *)
AllocGuard(p, s) ==
  /\ InUser(p)
  /\ SharedMemoryLock = None
  /\ s \notin GetSelf(p)
  /\ 0 \in GetSelf(p)

AllocFound(p, s) ==
  /\ AllocGuard(p, s)
  /\ Listed(s)
  /\ SelfSharedMemory' = [SelfSharedMemory EXCEPT ![p][SelfEmptyPlace(p)] = s]
  /\ UserNumber' = [UserNumber EXCEPT ![FindGlobalSharedMemory(s)] = @ + 1]
  /\ UNCHANGED <<VirtualAddress, Sig, SharedMemoryLock, freeFrames, content, got,
                 alive, pc, arg, place, ptr, panicked>>

AllocNew(p, s) ==
  /\ AllocGuard(p, s)
  /\ ~Listed(s) /\ Listed(0)
  /\ SharedMemoryLock' = p
  /\ \/ \E f \in freeFrames :
          /\ VirtualAddress' = [VirtualAddress EXCEPT ![GlobalEmptyPlace] = f]
          /\ freeFrames' = freeFrames \ {f}
     \/ /\ freeFrames = {}
        /\ VirtualAddress' = [VirtualAddress EXCEPT ![GlobalEmptyPlace] = 0]
        /\ UNCHANGED freeFrames
  /\ At(p, "allocSig", s, GlobalEmptyPlace)
  /\ UNCHANGED <<Sig, UserNumber, SelfSharedMemory, content, got, alive, ptr, panicked>>

AllocSignature(p) ==
  /\ pc[p] = "allocSig"
  /\ Sig' = [Sig EXCEPT ![place[p]] = arg[p]]
  /\ Goto(p, "allocUse")
  /\ UNCHANGED <<VirtualAddress, UserNumber, SelfSharedMemory, SharedMemoryLock,
                 freeFrames, content, got, alive, arg, place, ptr, panicked>>

AllocUser(p) ==
  /\ pc[p] = "allocUse"
  /\ UserNumber' = [UserNumber EXCEPT ![place[p]] = 1]
  /\ SelfSharedMemory' = [SelfSharedMemory EXCEPT ![p][SelfEmptyPlace(p)] = arg[p]]
  /\ SharedMemoryLock' = None
  /\ Return(p)
  /\ UNCHANGED <<VirtualAddress, Sig, freeFrames, content, got, alive, ptr, panicked>>

-----------------------------------------------------------------------------
(* Mutant: the page goes while one process still uses it. *)
LastButOneUser(i) == UserNumber[i] - 1 <= 1

LastUser(i) == UserNumber[i] - 1 <= 0

(* DeallocSharedMemory, called by the process or by exit for each          *)
(* signature it still holds.  kfree panics on an address that is no page.  *)
ExitReleases(p, s) ==
  /\ pc[p] = "exit" /\ s # 0
  /\ \E k \in SelfPlace : /\ SelfSharedMemory[p][k] = s
                          /\ \A j \in 1..(k - 1) : SelfSharedMemory[p][j] = 0

Dealloc(p, s) ==
  /\ InUser(p) \/ ExitReleases(p, s)
  /\ SharedMemoryLock = None
  /\ s \in GetSelf(p)
  /\ Listed(s)
  /\ LET i == FindGlobalSharedMemory(s)
     IN /\ UserNumber' = [UserNumber EXCEPT ![i] = @ - 1]
        /\ SelfSharedMemory' =
             [SelfSharedMemory EXCEPT ![p][FindSelfSharedMemory(p, s)] = 0]
        /\ \/ /\ ~LastUser(i)
              /\ UNCHANGED <<SharedMemoryLock, pc, arg, place, panicked>>
           \/ /\ LastUser(i)
              /\ VirtualAddress[i] \notin NotPage
              /\ SharedMemoryLock' = p
              /\ pc' = [pc EXCEPT ![p] = "deallocClear"]
              /\ place' = [place EXCEPT ![p] = i]
              /\ arg' = [arg EXCEPT ![p] = IF pc[p] = "exit" THEN 1 ELSE 0]
              /\ UNCHANGED panicked
           \/ /\ LastUser(i)
              /\ VirtualAddress[i] \in NotPage
              /\ panicked' = TRUE
              /\ UNCHANGED <<SharedMemoryLock, pc, arg, place>>
  /\ UNCHANGED <<VirtualAddress, Sig, freeFrames, content, got, alive, ptr>>

(* After kfree; arg tells whether exit made the call. *)
DeallocClear(p) ==
  /\ pc[p] = "deallocClear"
  /\ VirtualAddress' = [VirtualAddress EXCEPT ![place[p]] = -1]
  /\ Sig' = [Sig EXCEPT ![place[p]] = 0]
  /\ SharedMemoryLock' = None
  /\ At(p, IF arg[p] = 1 THEN "exit" ELSE "user", 0, 1)
  /\ UNCHANGED <<UserNumber, SelfSharedMemory, freeFrames, content, got, alive,
                 ptr, panicked>>

-----------------------------------------------------------------------------
(* Mutant: the process's own table is not searched. *)
AccessUnchecked(p, s) ==
  /\ InUser(p)
  /\ \E l \in {"read", "write"} : At(p, l, s, 1)
  /\ UNCHANGED <<tableVars, freeFrames, content, got, alive, ptr, panicked>>

(* ReadSharedMemory and WriteSharedMemory: the loop of                     *)
(* FindGlobalSharedMemory runs without the lock, one place at a time.      *)
AccessStart(p, s) ==
  /\ InUser(p)
  /\ s \in GetSelf(p)
  /\ \E l \in {"read", "write"} : At(p, l, s, 1)
  /\ UNCHANGED <<tableVars, freeFrames, content, got, alive, ptr, panicked>>

AccessFind(p) ==
  /\ pc[p] \in {"read", "write"}
  /\ \/ /\ Sig[place[p]] = arg[p]
        /\ Goto(p, IF pc[p] = "read" THEN "readCopy" ELSE "writeCopy")
        /\ UNCHANGED <<arg, place>>
     \/ /\ Sig[place[p]] # arg[p]
        /\ IF place[p] < SHARED_MEMORY_GLOBAL
           THEN place' = [place EXCEPT ![p] = @ + 1] /\ UNCHANGED <<pc, arg>>
           ELSE Return(p)
  /\ UNCHANGED <<tableVars, freeFrames, content, got, alive, ptr, panicked>>

(* memmove from, or strncpy to, an address that is no page faults for      *)
(* ever: PageFault kills the process, but a killed process only exits on   *)
(* its way back to user code.                                              *)
AccessFaults(p) ==
  /\ pc[p] \in {"readCopy", "writeCopy"}
  /\ VirtualAddress[place[p]] \in NotPage
  /\ Goto(p, "stuck")
  /\ UNCHANGED <<tableVars, freeFrames, content, got, alive, arg, place, ptr, panicked>>

ReadCopy(p) ==
  /\ pc[p] = "readCopy"
  /\ VirtualAddress[place[p]] \notin NotPage
  /\ got' = [got EXCEPT ![p] = content[VirtualAddress[place[p]]]]
  /\ Return(p)
  /\ UNCHANGED <<tableVars, freeFrames, content, alive, ptr, panicked>>

WriteCopy(p) ==
  /\ pc[p] = "writeCopy"
  /\ VirtualAddress[place[p]] \notin NotPage
  /\ ptr' = [ptr EXCEPT ![p] = VirtualAddress[place[p]]]
  /\ content' = [content EXCEPT ![VirtualAddress[place[p]]] = Torn]
  /\ Goto(p, "writeEnd")
  /\ UNCHANGED <<tableVars, freeFrames, got, alive, arg, place, panicked>>

WriteEnd(p, v) ==
  /\ pc[p] = "writeEnd"
  /\ content' = [content EXCEPT ![ptr[p]] = v]
  /\ ptr' = [ptr EXCEPT ![p] = 0]
  /\ Return(p)
  /\ UNCHANGED <<tableVars, freeFrames, got, alive, panicked>>

-----------------------------------------------------------------------------
ExitStart(p) ==
  /\ InUser(p)
  /\ Goto(p, "exit")
  /\ UNCHANGED <<tableVars, freeFrames, content, got, alive, arg, place, ptr, panicked>>

(* Mutant: exit does not give the shared pages back. *)
ExitKeeps(p) ==
  /\ pc[p] = "exit"
  /\ alive' = alive \ {p}
  /\ Return(p)
  /\ UNCHANGED <<tableVars, freeFrames, content, got, ptr, panicked>>

ExitDone(p) ==
  /\ pc[p] = "exit"
  /\ GetSelf(p) = {0}
  /\ alive' = alive \ {p}
  /\ Return(p)
  /\ UNCHANGED <<tableVars, freeFrames, content, got, ptr, panicked>>

Access(p) ==
  \/ \E s \in Signature : AccessStart(p, s)
  \/ AccessFind(p) \/ AccessFaults(p) \/ ReadCopy(p) \/ WriteCopy(p)
  \/ \E v \in Value : WriteEnd(p, v)

Next ==
  /\ ~panicked
  /\ \E p \in Proc :
       \/ Allocproc(p)
       \/ \E s \in Signature : AllocFound(p, s) \/ AllocNew(p, s) \/ Dealloc(p, s)
       \/ AllocSignature(p) \/ AllocUser(p) \/ DeallocClear(p)
       \/ Access(p)
       \/ ExitStart(p) \/ ExitDone(p)

Spec == Init /\ [][Next]_vars

-----------------------------------------------------------------------------
Holders(s) == {p \in Proc : s \in GetSelf(p)}

(* UsersAreHolders: outside the critical section of AllocSharedMemory and  *)
(* DeallocSharedMemory, UserNumber of a listed page is the number of       *)
(* processes that hold its signature, and it is never 0: no page is freed  *)
(* under a holder and none outlives its last one.                          *)
UsersAreHolders ==
  SharedMemoryLock = None /\ ~panicked =>
    \A i \in Place : Sig[i] # 0 =>
      UserNumber[i] = Cardinality(Holders(Sig[i])) /\ UserNumber[i] > 0

(* HeldIsListed: every signature in a process's own table is in the global *)
(* table, once, and with a page that no other signature and no free frame  *)
(* is; this is what ReadSharedMemory relies on without taking the lock.    *)
HeldIsListed ==
  \A p \in Proc : \A s \in GetSelf(p) \ {0} :
    /\ Cardinality({i \in Place : Sig[i] = s}) = 1
    /\ LET a == VirtualAddress[FindGlobalSharedMemory(s)]
       IN a \in Frame => /\ a \notin freeFrames
                         /\ Cardinality({i \in Place : VirtualAddress[i] = a}) = 1

(* SearchSucceeds: a search that a process starts for a signature it holds *)
(* never runs past its page, whatever other processes allocate and free    *)
(* meanwhile, and what it finds is still that page when it is copied.  0   *)
(* is held by nobody: it marks an empty place, which may be taken.         *)
SearchSucceeds ==
  \A p \in Proc : arg[p] # 0 =>
    /\ pc[p] \in {"read", "write"} =>
         \E i \in place[p]..SHARED_MEMORY_GLOBAL : Sig[i] = arg[p]
    /\ pc[p] \in {"readCopy", "writeCopy", "writeEnd"} =>
         Sig[place[p]] = arg[p] /\ arg[p] \in GetSelf(p)

(* HeldIsFound: what a process holds is listed once with a page of its own *)
(* and a search for it, which takes no lock, finds that page.              *)
HeldIsFound == HeldIsListed /\ SearchSucceeds

(* AllocGivesPage: when AllocSharedMemory has reported success, the        *)
(* signature has a page (SharedMemory.c:114, 0 for success, -1 for failure). *)
AllocGivesPage ==
  \A p \in Proc : \A s \in GetSelf(p) \ {0} :
    VirtualAddress[FindGlobalSharedMemory(s)] \in Frame

(* DeallocReturns: DeallocSharedMemory returns for every argument          *)
(* (SharedMemory.c:179, 0 for success, -1 for failure).                    *)
DeallocReturns == ~panicked

-----------------------------------------------------------------------------
Segment(s) ==
  LET a == VirtualAddress[FindGlobalSharedMemory(s)]
  IN IF Holders(s) # {} /\ Listed(s) /\ a \in Frame THEN content[a] ELSE 0

Shared == INSTANCE SharedSegment WITH
  Signature <- Signature \ {0},
  Nothing <- 0,
  owners <- [s \in Signature \ {0} |-> Holders(s)],
  segment <- [s \in Signature \ {0} |-> Segment(s)]

(* Every step is invisible or does, for the process that takes it and the  *)
(* signature it called with, what the call promises.                       *)
SegmentStep ==
  \/ UNCHANGED Shared!ssVars
  \/ \E p \in Proc, s \in Signature \ {0} :
       \/ AllocFound(p, s) /\ Shared!Attach(p, s)
       \/ Dealloc(p, s) /\ Shared!Detach(p, s)
       \/ arg[p] = s /\ AllocUser(p) /\ Shared!Attach(p, s)
       \/ arg[p] = s /\ ReadCopy(p) /\ Shared!ReadSegment(p, s)
       \/ arg[p] = s /\ WriteCopy(p) /\ Shared!WriteSegment(p, s, Torn)
       \/ \E v \in Value : /\ arg[p] = s /\ WriteEnd(p, v)
                           /\ Shared!WriteSegment(p, s, v)

(* A copy by a call with signature 0, from or to a page that another       *)
(* process is listing or has listed since in the empty place that was      *)
(* found.                                                                  *)
CopyOfNone(p) ==
  arg[p] = 0 /\ (ReadCopy(p) \/ WriteCopy(p) \/ \E v \in Value : WriteEnd(p, v))

(* SegmentsAreShared: the two tables and the unlocked copies implement one *)
(* segment per signature, common to the processes that hold it.  It is     *)
(* changed only by a write of a process that holds it, with what that      *)
(* process writes, and read as it is; only a copy under signature 0 may do *)
(* otherwise.                                                              *)
SegmentsAreShared ==
  Shared!SSInit /\ [][(\E p \in Proc : CopyOfNone(p)) \/ SegmentStep]_vars

(* SegmentsStayShared: the same without the exception; SharedMemory.c:249  *)
(* says that a write goes to the shared memory of the process.             *)
SegmentsStayShared == Shared!SSInit /\ [][SegmentStep]_vars
=============================================================================
