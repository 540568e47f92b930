------------------------- MODULE SharedMemoryProofs -------------------------
(***************************************************************************)
(* Proofs about the shared memory calls, for any number of processes,      *)
(* signatures, frames and places of the two tables: the invariants of      *)
(* module SharedMemory and the segments that the tables implement.         *)
(***************************************************************************)
EXTENDS SharedMemory, FiniteSetTheorems, WellFoundedInduction, TLAPS

Critical == {"allocSig", "allocUse", "deallocClear"}
Searching == {"read", "write"}
Copying == {"readCopy", "writeCopy", "writeEnd"}
Label == Critical \cup Searching \cup Copying \cup {"user", "stuck", "exit"}

TypeOK ==
  /\ VirtualAddress \in [Place -> Frame \cup NotPage]
  /\ Sig \in [Place -> Signature \cup {0}] /\ UserNumber \in [Place -> Int]
  /\ SelfSharedMemory \in [Proc -> [SelfPlace -> Signature \cup {0}]]
  /\ freeFrames \subseteq Frame /\ content \in [Frame -> Value \cup {Torn}]
  /\ alive \subseteq Proc /\ pc \in [Proc -> Label]
  /\ arg \in [Proc -> Signature \cup {0, 1}] /\ place \in [Proc -> Place]
  /\ ptr \in [Proc -> Frame \cup {0}] /\ panicked \in BOOLEAN

(* The lock is held where the tables are half changed. *)
LockIsHeld == \A p \in Proc : pc[p] \in Critical => SharedMemoryLock = p

(* A process has a signature once, and a slot that is not in use has none. *)
OwnTables ==
  /\ \A p \in Proc : \A j, k \in SelfPlace :
       j # k /\ SelfSharedMemory[p][j] = SelfSharedMemory[p][k] => SelfSharedMemory[p][j] = 0
  /\ \A p \in Proc : p \notin alive =>
       pc[p] = "user" /\ \A k \in SelfPlace : SelfSharedMemory[p][k] = 0

(* A signature is listed once, and if it is held; an empty place has no    *)
(* page, except while a process fills it.                                  *)
GlobalTable ==
  /\ \A i, j \in Place : i # j /\ Sig[i] = Sig[j] => Sig[i] = 0
  /\ \A p \in Proc : \A k \in SelfPlace : Listed(SelfSharedMemory[p][k]) \/ SelfSharedMemory[p][k] = 0
  /\ \A i \in Place : \/ Sig[i] # 0 \/ VirtualAddress[i] \in NotPage
                      \/ \E p \in Proc : pc[p] = "allocSig" /\ place[p] = i

(* What a process knows between two steps with the lock. *)
HalfDone ==
  \A p \in Proc :
    /\ pc[p] = "allocSig" => /\ arg[p] \in Signature \ {0} /\ ~Listed(arg[p])
                             /\ Sig[place[p]] = 0 /\ 0 \in GetSelf(p)
    /\ pc[p] = "allocUse" => /\ arg[p] \in Signature \ {0} /\ Holders(arg[p]) = {}
                             /\ Sig[place[p]] = arg[p] /\ 0 \in GetSelf(p)
    /\ pc[p] = "deallocClear" => Sig[place[p]] # 0 /\ Holders(Sig[place[p]]) = {}

(* A page is in one place, and not free. *)
PagesAreSeparate ==
  /\ \A i \in Place : VirtualAddress[i] \notin freeFrames
  /\ \A i, j \in Place : i # j /\ VirtualAddress[i] = VirtualAddress[j] =>
                           VirtualAddress[i] \in NotPage

Counted(i) == UserNumber[i] = Cardinality(Holders(Sig[i])) /\ UserNumber[i] > 0

Unsettled(i) == \E p \in Proc : pc[p] \in {"allocUse", "deallocClear"} /\ place[p] = i

(* UserNumber counts the holders, except of the place that is changed. *)
UsersAreCounted ==
  ~panicked => /\ \A i \in Place : Sig[i] # 0 /\ ~Unsettled(i) => Counted(i)
               /\ \A i \in Place : Sig[i] = 0 => UserNumber[i] <= 0
               /\ \A p \in Proc : pc[p] = "deallocClear" => UserNumber[place[p]] <= 0

(* A search for a signature of its own does not miss. *)
SearchHits(p) ==
  /\ arg[p] \in GetSelf(p)
  /\ pc[p] \in Searching => \E i \in place[p]..SHARED_MEMORY_GLOBAL : Sig[i] = arg[p]
  /\ pc[p] \in Copying => Sig[place[p]] = arg[p]
  /\ pc[p] = "writeEnd" => VirtualAddress[place[p]] \in Frame /\ ptr[p] = VirtualAddress[place[p]]

SearchesHit ==
  \A p \in Proc : pc[p] \in Searching \cup Copying =>
                    arg[p] \in Signature /\ (arg[p] # 0 => SearchHits(p))

SMInv ==
  /\ TypeOK /\ LockIsHeld /\ OwnTables /\ GlobalTable /\ HalfDone
  /\ PagesAreSeparate /\ UsersAreCounted /\ SearchesHit

-----------------------------------------------------------------------------
(* Facts about the constants and the searches of the tables. *)

(* The constants, spelled out. *)
LEMMA Constants ==
  /\ SHARED_MEMORY_GLOBAL \in Nat /\ SHARED_MEMORY_GLOBAL > 0
  /\ SHARED_MEMORY_PER_PROC \in Nat /\ SHARED_MEMORY_PER_PROC > 0
  /\ Frame \cap NotPage = {} /\ None \notin Proc /\ IsFiniteSet(Proc)
  /\ 0 \notin Value \cup {Torn}
BY SharedAssumption

(* Sets of processes are finite. *)
LEMMA ProcSets ==
  ASSUME NEW S, S \subseteq Proc
  PROVE  IsFiniteSet(S) /\ Cardinality(S) \in Nat /\ (Cardinality(S) = 0 <=> S = {})
BY Constants, FS_Subset, FS_CardinalityType, FS_EmptySet, Zenon

(* The first and the last of a set of places are in it. *)
LEMMA FirstAndLast ==
  ASSUME NEW n \in Nat, NEW S, S \subseteq 1..n, S # {}
  PROVE  Min(S) \in S /\ Max(S) \in S
<1>0. \A j \in S : j \in Int
  OBVIOUS
<1>1. \E x \in S : \A y \in S : x =< y
  <2>1. S \subseteq Nat
    OBVIOUS
  <2>2. PICK x \in S : \A y \in S : ~(<<y, x>> \in OpToRel(<, Nat))
    BY <2>1, NatLessThanWellFounded, WFMin, Zenon
  <2>3. \A y \in S : ~(y < x)
    BY <2>1, <2>2, Zenon DEF OpToRel
  <2>4. QED
    BY <2>1, <2>3
<1>2. \E x \in S : \A y \in S : x >= y
  <2> DEFINE T == {n - i : i \in S}
  <2>1. T \subseteq Nat /\ T # {}
    <3>1. \A i \in S : n - i \in Nat
      OBVIOUS
    <3>2. QED
      BY <3>1, Zenon
  <2>2. PICK x \in T : \A y \in T : ~(<<y, x>> \in OpToRel(<, Nat))
    BY <2>1, NatLessThanWellFounded, WFMin, Zenon
  <2>3. \A y \in T : ~(y < x)
    BY <2>1, <2>2, Zenon DEF OpToRel
  <2>4. PICK i \in S : x = n - i
    OBVIOUS
  <2>5. \A j \in S : n - j \in T
    OBVIOUS
  <2>6. \A j \in S : ~(n - j < n - i)
    BY <2>3, <2>4, <2>5, Zenon
  <2>7. \A j \in S : i >= j
    BY <1>0, <2>6
  <2>8. QED
    BY <2>7, Zenon
<1>3. QED
  BY <1>1, <1>2, Zenon DEF Min, Max

(* A process has what is in its table. *)
LEMMA SelfRange ==
  ASSUME TypeOK, NEW p \in Proc, NEW s
  PROVE  s \in GetSelf(p) <=> \E k \in SelfPlace : SelfSharedMemory[p][k] = s
BY Zenon DEF TypeOK, GetSelf, Range

(* The same of the table after a step. *)
LEMMA SelfRangePrime ==
  ASSUME TypeOK', NEW p \in Proc, NEW s
  PROVE  s \in GetSelf(p)' <=> \E k \in SelfPlace : SelfSharedMemory'[p][k] = s
BY Zenon DEF TypeOK, GetSelf, Range

(* The searches return a place with the signature ... *)
LEMMA Finds ==
  ASSUME SMInv, NEW p \in Proc, NEW s
  PROVE  /\ Listed(s) => FindGlobalSharedMemory(s) \in Place /\ Sig[FindGlobalSharedMemory(s)] = s
         /\ Listed(0) => GlobalEmptyPlace \in Place /\ Sig[GlobalEmptyPlace] = 0
         /\ s \in GetSelf(p) => /\ FindSelfSharedMemory(p, s) \in SelfPlace
                                /\ SelfSharedMemory[p][FindSelfSharedMemory(p, s)] = s
         /\ 0 \in GetSelf(p) => /\ SelfEmptyPlace(p) \in SelfPlace
                                /\ SelfSharedMemory[p][SelfEmptyPlace(p)] = 0
<1>1. \A t : Listed(t) => LET S == {i \in Place : Sig[i] = t} IN Min(S) \in S /\ Max(S) \in S
  <2>1. SUFFICES ASSUME NEW t, Listed(t)
                 PROVE  LET S == {i \in Place : Sig[i] = t} IN Min(S) \in S /\ Max(S) \in S
    OBVIOUS
  <2> DEFINE S == {i \in Place : Sig[i] = t}
  <2>2. S \subseteq 1..SHARED_MEMORY_GLOBAL /\ S # {}
    BY <2>1, Zenon DEF Listed, Place
  <2> HIDE DEF S
  <2>3. Min(S) \in S /\ Max(S) \in S
    BY <2>2, Constants, FirstAndLast, Zenon
  <2>4. QED
    BY <2>3, Zenon DEF S
<1>2. \A t : t \in GetSelf(p) =>
        LET S == {k \in SelfPlace : SelfSharedMemory[p][k] = t} IN Min(S) \in S /\ Max(S) \in S
  <2>1. SUFFICES ASSUME NEW t, t \in GetSelf(p)
                 PROVE  LET S == {k \in SelfPlace : SelfSharedMemory[p][k] = t}
                        IN Min(S) \in S /\ Max(S) \in S
    OBVIOUS
  <2> DEFINE S == {k \in SelfPlace : SelfSharedMemory[p][k] = t}
  <2>2. S # {}
    BY <2>1, SelfRange, Zenon DEF SMInv
  <2>3. S \subseteq 1..SHARED_MEMORY_PER_PROC
    BY Zenon DEF SelfPlace
  <2> HIDE DEF S
  <2>4. Min(S) \in S /\ Max(S) \in S
    BY <2>2, <2>3, Constants, FirstAndLast, Zenon
  <2>5. QED
    BY <2>4, Zenon DEF S
<1>3. QED
  BY <1>1, <1>2, Zenon
     DEF FindGlobalSharedMemory, GlobalEmptyPlace, FindSelfSharedMemory, SelfEmptyPlace

(* ... and there is one such place. *)
LEMMA FindsThe ==
  ASSUME SMInv, NEW i \in Place, Sig[i] # 0
  PROVE  FindGlobalSharedMemory(Sig[i]) = i
<1>1. {j \in Place : Sig[j] = Sig[i]} = {i}
  BY Zenon DEF SMInv, GlobalTable
<1>2. Min({i}) = i
  BY DEF Min, Place
<1>3. QED
  BY <1>1, <1>2, Zenon DEF FindGlobalSharedMemory

(* A process that takes a signature. *)
LEMMA SelfTakes ==
  ASSUME SMInv, NEW p \in Proc, NEW s \in Signature \ {0}, s \notin GetSelf(p), 0 \in GetSelf(p),
         SelfSharedMemory' = [SelfSharedMemory EXCEPT ![p][SelfEmptyPlace(p)] = s]
  PROVE  /\ SelfSharedMemory' \in [Proc -> [SelfPlace -> Signature \cup {0}]]
         /\ \A q \in Proc : \A j, k \in SelfPlace :
              j # k /\ SelfSharedMemory'[q][j] = SelfSharedMemory'[q][k] => SelfSharedMemory'[q][j] = 0
         /\ \A q \in Proc : \A t : t # 0 =>
              (t \in GetSelf(q)' <=> t \in GetSelf(q) \/ (q = p /\ t = s))
         /\ \A q \in Proc : q # p => SelfSharedMemory'[q] = SelfSharedMemory[q]
<1> DEFINE e == SelfEmptyPlace(p)
<1>1. e \in SelfPlace /\ SelfSharedMemory[p][e] = 0
  BY Finds, Zenon
<1> HIDE DEF e
<1>2. TypeOK
  BY Zenon DEF SMInv
<1>3. /\ SelfSharedMemory'[p] = [SelfSharedMemory[p] EXCEPT ![e] = s]
      /\ \A q \in Proc : q # p => SelfSharedMemory'[q] = SelfSharedMemory[q]
      /\ SelfSharedMemory' \in [Proc -> [SelfPlace -> Signature \cup {0}]]
  BY <1>1, <1>2, Zenon DEF TypeOK, e
<1>4. \A k \in SelfPlace : SelfSharedMemory'[p][k] = IF k = e THEN s ELSE SelfSharedMemory[p][k]
  BY <1>1, <1>2, <1>3, Zenon DEF TypeOK
<1>5. \A k \in SelfPlace : SelfSharedMemory[p][k] # s
  BY <1>2, SelfRange, Zenon
<1>6. \A q \in Proc : \A j, k \in SelfPlace :
        j # k /\ SelfSharedMemory'[q][j] = SelfSharedMemory'[q][k] => SelfSharedMemory'[q][j] = 0
  BY <1>3, <1>4, <1>5 DEF SMInv, OwnTables
<1>7. \A q \in Proc : \A t : t \in GetSelf(q)' <=> \E k \in SelfPlace : SelfSharedMemory'[q][k] = t
  BY <1>3 DEF GetSelf, Range
<1>8. \A q \in Proc : \A t : t \in GetSelf(q) <=> \E k \in SelfPlace : SelfSharedMemory[q][k] = t
  BY <1>2, SelfRange, Zenon
<1>9. \A q \in Proc : \A t : t # 0 => (t \in GetSelf(q)' <=> t \in GetSelf(q) \/ (q = p /\ t = s))
  BY <1>1, <1>3, <1>4, <1>7, <1>8
<1>10. QED
  BY <1>3, <1>6, <1>9, Zenon

(* A process that gives a signature up. *)
LEMMA SelfDrops ==
  ASSUME SMInv, NEW p \in Proc, NEW s \in Signature, s \in GetSelf(p),
         SelfSharedMemory' = [SelfSharedMemory EXCEPT ![p][FindSelfSharedMemory(p, s)] = 0]
  PROVE  /\ SelfSharedMemory' \in [Proc -> [SelfPlace -> Signature \cup {0}]]
         /\ \A q \in Proc : \A j, k \in SelfPlace :
              j # k /\ SelfSharedMemory'[q][j] = SelfSharedMemory'[q][k] => SelfSharedMemory'[q][j] = 0
         /\ \A q \in Proc : \A t : t # 0 =>
              (t \in GetSelf(q)' <=> t \in GetSelf(q) /\ ~(q = p /\ t = s))
         /\ \A q \in Proc : \A k \in SelfPlace : SelfSharedMemory[q][k] = 0 => SelfSharedMemory'[q][k] = 0
<1> DEFINE e == FindSelfSharedMemory(p, s)
<1>1. e \in SelfPlace /\ SelfSharedMemory[p][e] = s
  BY Finds, Zenon
<1> HIDE DEF e
<1>2. TypeOK
  BY Zenon DEF SMInv
<1>3. /\ SelfSharedMemory'[p] = [SelfSharedMemory[p] EXCEPT ![e] = 0]
      /\ \A q \in Proc : q # p => SelfSharedMemory'[q] = SelfSharedMemory[q]
      /\ SelfSharedMemory' \in [Proc -> [SelfPlace -> Signature \cup {0}]]
  BY <1>1, <1>2, Zenon DEF TypeOK, e
<1>4. \A k \in SelfPlace : SelfSharedMemory'[p][k] = IF k = e THEN 0 ELSE SelfSharedMemory[p][k]
  BY <1>1, <1>2, <1>3 DEF TypeOK
<1>5. \A k \in SelfPlace : s # 0 /\ SelfSharedMemory[p][k] = s => k = e
  BY <1>1, Zenon DEF SMInv, OwnTables
<1>6. \A q \in Proc : \A j, k \in SelfPlace :
        j # k /\ SelfSharedMemory'[q][j] = SelfSharedMemory'[q][k] => SelfSharedMemory'[q][j] = 0
  BY <1>3, <1>4 DEF SMInv, OwnTables
<1>7. \A q \in Proc : \A t : t \in GetSelf(q)' <=> \E k \in SelfPlace : SelfSharedMemory'[q][k] = t
  BY <1>3 DEF GetSelf, Range
<1>8. \A q \in Proc : \A t : t \in GetSelf(q) <=> \E k \in SelfPlace : SelfSharedMemory[q][k] = t
  BY <1>2, SelfRange, Zenon
<1>9. \A t : t # 0 => (t \in GetSelf(p)' <=> t \in GetSelf(p) /\ t # s)
  BY <1>1, <1>4, <1>5, <1>7, <1>8
<1>10. \A q \in Proc : q # p => GetSelf(q)' = GetSelf(q)
  BY <1>3, Zenon DEF GetSelf
<1>11. \A q \in Proc : \A k \in SelfPlace : SelfSharedMemory[q][k] = 0 => SelfSharedMemory'[q][k] = 0
  BY <1>3, <1>4, Zenon
<1>12. QED
  BY <1>3, <1>6, <1>9, <1>10, <1>11, Zenon

(* The steps that leave both tables alone. *)
QuietStep(p) == Access(p) \/ ExitStart(p) \/ ExitDone(p)

(* A step is one of these. *)
LEMMA StepCases ==
  ASSUME Next
  PROVE  \E p \in Proc :
           \/ \E s \in Signature : AllocFound(p, s) \/ AllocNew(p, s) \/ Dealloc(p, s)
           \/ Allocproc(p) \/ AllocSignature(p) \/ AllocUser(p) \/ DeallocClear(p)
           \/ QuietStep(p)
BY Zenon DEF Next, QuietStep

(* What a quiet step leaves alone. *)
LEMMA QuietFacts ==
  ASSUME SMInv, NEW p \in Proc, QuietStep(p)
  PROVE  /\ pc[p] \notin Critical /\ pc'[p] \notin Critical
         /\ \A q \in Proc : q # p => pc'[q] = pc[q] /\ arg'[q] = arg[q] /\ place'[q] = place[q]
         /\ \A q \in Proc : q # p => ptr'[q] = ptr[q]
         /\ UNCHANGED <<VirtualAddress, Sig, UserNumber, SelfSharedMemory, SharedMemoryLock>>
         /\ UNCHANGED <<freeFrames, panicked>>
         /\ p \in alive
         /\ \/ alive' = alive
            \/ alive' = alive \ {p} /\ pc'[p] = "user" /\ GetSelf(p) = {0}
<1>1. /\ pc \in [Proc -> Label] /\ arg \in [Proc -> Signature \cup {0, 1}]
      /\ place \in [Proc -> Place] /\ ptr \in [Proc -> Frame \cup {0}]
  BY Zenon DEF SMInv, TypeOK
<1>2. pc[p] # "user" => p \in alive
  BY Zenon DEF SMInv, OwnTables
<1>3. CASE \E s \in Signature : AccessStart(p, s)
  BY <1>1, <1>3 DEF AccessStart, At, Goto, InUser, tableVars, Critical
<1>4. CASE AccessFind(p)
  BY <1>1, <1>2, <1>4 DEF AccessFind, Return, At, Goto, tableVars, Critical
<1>5. CASE AccessFaults(p)
  BY <1>1, <1>2, <1>5, Zenon DEF AccessFaults, Goto, tableVars, Critical
<1>6. CASE ReadCopy(p)
  BY <1>1, <1>2, <1>6, Zenon DEF ReadCopy, Return, At, Goto, tableVars, Critical
<1>7. CASE WriteCopy(p)
  BY <1>1, <1>2, <1>7, Zenon DEF WriteCopy, Goto, tableVars, Critical
<1>8. CASE \E v \in Value : WriteEnd(p, v)
  BY <1>1, <1>2, <1>8, Zenon DEF WriteEnd, Return, At, Goto, tableVars, Critical
<1>9. CASE ExitStart(p)
  BY <1>1, <1>9, Zenon DEF ExitStart, InUser, Goto, tableVars, Critical
<1>10. CASE ExitDone(p)
  BY <1>1, <1>2, <1>10, Zenon DEF ExitDone, Return, At, Goto, tableVars, Critical
<1>11. QED
  BY <1>3, <1>4, <1>5, <1>6, <1>7, <1>8, <1>9, <1>10 DEF QuietStep, Access

(* At most one process is where the lock is held. *)
LEMMA OneCritical ==
  ASSUME SMInv
  PROVE  /\ SharedMemoryLock = None => \A q \in Proc : pc[q] \notin Critical
         /\ \A p, q \in Proc : pc[p] \in Critical /\ q # p => pc[q] \notin Critical
BY Constants, Zenon DEF SMInv, LockIsHeld

(* allocproc finds the table empty. *)
LEMMA AllocprocKeeps ==
  ASSUME SMInv, NEW p \in Proc, Allocproc(p)
  PROVE  SelfSharedMemory' = SelfSharedMemory
<1>1. SelfSharedMemory[p] = [k \in SelfPlace |-> 0]
  BY Zenon DEF SMInv, TypeOK, OwnTables, Allocproc
<1>2. QED
  BY <1>1, Zenon DEF SMInv, TypeOK, Allocproc

(* A call of AllocSharedMemory for a signature that is not 0. *)
LEMMA AllocArgs ==
  ASSUME NEW p \in Proc, NEW s \in Signature, AllocGuard(p, s)
  PROVE  /\ s \in Signature \ {0} /\ s \notin GetSelf(p) /\ 0 \in GetSelf(p)
         /\ SharedMemoryLock = None /\ p \in alive /\ pc[p] = "user"
BY Zenon DEF AllocGuard, InUser

(* What AllocSharedMemory does to the tables, step by step. *)
LEMMA AllocFoundFacts ==
  ASSUME SMInv, NEW p \in Proc, NEW s \in Signature, AllocFound(p, s), NEW i,
         i = FindGlobalSharedMemory(s)
  PROVE  /\ s \in Signature \ {0} /\ s \notin GetSelf(p) /\ 0 \in GetSelf(p)
         /\ SharedMemoryLock = None /\ p \in alive /\ pc[p] = "user"
         /\ i \in Place /\ Sig[i] = s
         /\ UserNumber' = [UserNumber EXCEPT ![i] = @ + 1]
         /\ SelfSharedMemory' = [SelfSharedMemory EXCEPT ![p][SelfEmptyPlace(p)] = s]
         /\ UNCHANGED <<VirtualAddress, Sig, SharedMemoryLock, freeFrames, content, got>>
         /\ UNCHANGED <<alive, pc, arg, place, ptr, panicked>>
BY AllocArgs, Finds, Zenon DEF AllocFound

(* The first step of a new page. *)
LEMMA AllocNewFacts ==
  ASSUME SMInv, NEW p \in Proc, NEW s \in Signature, AllocNew(p, s), NEW e, e = GlobalEmptyPlace
  PROVE  /\ s \in Signature \ {0} /\ s \notin GetSelf(p) /\ 0 \in GetSelf(p)
         /\ SharedMemoryLock = None /\ p \in alive /\ pc[p] = "user"
         /\ e \in Place /\ Sig[e] = 0 /\ ~Listed(s)
         /\ \/ \E f \in freeFrames : /\ VirtualAddress' = [VirtualAddress EXCEPT ![e] = f]
                                     /\ freeFrames' = freeFrames \ {f}
            \/ VirtualAddress' = [VirtualAddress EXCEPT ![e] = 0] /\ freeFrames' = freeFrames
         /\ SharedMemoryLock' = p /\ pc' = [pc EXCEPT ![p] = "allocSig"]
         /\ arg' = [arg EXCEPT ![p] = s] /\ place' = [place EXCEPT ![p] = e]
         /\ UNCHANGED <<Sig, UserNumber, SelfSharedMemory, content, got, alive, ptr, panicked>>
BY AllocArgs, Finds, Zenon DEF AllocNew, At, Goto

(* Its last step. *)
LEMMA AllocUserFacts ==
  ASSUME SMInv, NEW p \in Proc, AllocUser(p)
  PROVE  /\ arg[p] \in Signature \ {0} /\ arg[p] \notin GetSelf(p) /\ 0 \in GetSelf(p)
         /\ Holders(arg[p]) = {} /\ Sig[place[p]] = arg[p] /\ place[p] \in Place
         /\ SharedMemoryLock = p /\ p \in alive /\ pc[p] = "allocUse"
         /\ \A q \in Proc : q # p => pc[q] \notin Critical
         /\ UserNumber' = [UserNumber EXCEPT ![place[p]] = 1]
         /\ SelfSharedMemory' = [SelfSharedMemory EXCEPT ![p][SelfEmptyPlace(p)] = arg[p]]
         /\ SharedMemoryLock' = None /\ pc' = [pc EXCEPT ![p] = "user"]
         /\ arg' = [arg EXCEPT ![p] = 0] /\ place' = [place EXCEPT ![p] = 1]
         /\ UNCHANGED <<VirtualAddress, Sig, freeFrames, content, got, alive, ptr, panicked>>
<1>1. pc[p] = "allocUse" /\ pc[p] \in Critical
  BY Zenon DEF AllocUser, Critical
<1>2. /\ arg[p] \in Signature \ {0} /\ 0 \in GetSelf(p) /\ Holders(arg[p]) = {}
      /\ Sig[place[p]] = arg[p] /\ SharedMemoryLock = p
  BY <1>1, Zenon DEF SMInv, HalfDone, LockIsHeld
<1>3. arg[p] \notin GetSelf(p)
  BY <1>2, Zenon DEF Holders
<1>4. p \in alive /\ place[p] \in Place
  BY <1>1, Zenon DEF SMInv, OwnTables, TypeOK
<1>5. \A q \in Proc : q # p => pc[q] \notin Critical
  BY <1>1, OneCritical, Zenon
<1>6. QED
  BY <1>1, <1>2, <1>3, <1>4, <1>5, Zenon DEF AllocUser, Return, At, Goto

(* What DeallocSharedMemory does under the lock. *)
LEMMA DeallocFacts ==
  ASSUME SMInv, ~panicked, NEW p \in Proc, NEW s \in Signature, Dealloc(p, s), NEW i,
         i = FindGlobalSharedMemory(s)
  PROVE  /\ s \in GetSelf(p) /\ SharedMemoryLock = None
         /\ p \in alive /\ pc[p] \in {"user", "exit"}
         /\ i \in Place /\ Sig[i] = s
         /\ UserNumber' = [UserNumber EXCEPT ![i] = @ - 1]
         /\ SelfSharedMemory' = [SelfSharedMemory EXCEPT ![p][FindSelfSharedMemory(p, s)] = 0]
         /\ \/ /\ ~LastUser(i) /\ s # 0
               /\ UNCHANGED <<SharedMemoryLock, pc, arg, place, panicked>>
            \/ /\ LastUser(i) /\ s # 0
               /\ SharedMemoryLock' = p /\ pc' = [pc EXCEPT ![p] = "deallocClear"]
               /\ place' = [place EXCEPT ![p] = i]
               /\ arg' = [arg EXCEPT ![p] = IF pc[p] = "exit" THEN 1 ELSE 0]
               /\ UNCHANGED panicked
            \/ panicked' = TRUE /\ UNCHANGED <<SharedMemoryLock, pc, arg, place>>
         /\ UNCHANGED <<VirtualAddress, Sig, freeFrames, content, got, alive, ptr>>
<1>1. i \in Place /\ Sig[i] = s
  BY Finds, Zenon DEF Dealloc
<1>2. p \in alive /\ pc[p] \in {"user", "exit"}
  BY Zenon DEF Dealloc, InUser, ExitReleases, SMInv, OwnTables
<1>3. SharedMemoryLock = None
  BY Zenon DEF Dealloc
<1>4. s = 0 => VirtualAddress[i] \in NotPage
  <2>1. \A q \in Proc : pc[q] # "allocSig"
    BY <1>3, OneCritical, Zenon DEF Critical
  <2>2. QED
    BY <1>1, <2>1, Zenon DEF SMInv, GlobalTable
<1>5. s = 0 => UserNumber[i] - 1 <= 0
  BY <1>1 DEF SMInv, TypeOK, UsersAreCounted
<1>6. QED
  BY <1>1, <1>2, <1>3, <1>4, <1>5, Zenon DEF Dealloc, LastUser

(* Who deallocates goes on, is the last user, or panics. *)
LEMMA DeallocCases ==
  ASSUME SMInv, ~panicked, NEW p \in Proc, NEW s \in Signature, Dealloc(p, s), NEW i,
         i = FindGlobalSharedMemory(s)
  PROVE  \/ /\ ~LastUser(i) /\ s # 0
            /\ pc' = pc /\ arg' = arg /\ place' = place /\ panicked' = panicked
         \/ /\ LastUser(i) /\ s # 0 /\ pc' = [pc EXCEPT ![p] = "deallocClear"]
            /\ place' = [place EXCEPT ![p] = i]
            /\ arg' = [arg EXCEPT ![p] = IF pc[p] = "exit" THEN 1 ELSE 0]
            /\ panicked' = panicked
         \/ panicked' = TRUE /\ pc' = pc /\ arg' = arg /\ place' = place
BY DeallocFacts, ZenonT(60)

-----------------------------------------------------------------------------
(* Preservation, one lemma per part of the invariant. *)

(* A quiet step keeps the types. *)
LEMMA QuietTypes ==
  ASSUME SMInv, NEW p \in Proc, QuietStep(p)
  PROVE  TypeOK'
<1>1. TypeOK
  BY Zenon DEF SMInv
<1>2. /\ UNCHANGED <<VirtualAddress, Sig, UserNumber, SelfSharedMemory, freeFrames, panicked>>
      /\ alive' \subseteq Proc
  BY <1>1, QuietFacts, Zenon DEF TypeOK
<1>3. 1 \in Place
  BY Constants DEF Place
<1> DEFINE Rest == /\ pc' \in [Proc -> Label] /\ arg' \in [Proc -> Signature \cup {0, 1}]
                   /\ place' \in [Proc -> Place] /\ content' \in [Frame -> Value \cup {Torn}]
                   /\ ptr' \in [Proc -> Frame \cup {0}]
<1>4. CASE \E s \in Signature : AccessStart(p, s)
  BY <1>1, <1>2, <1>3, <1>4 DEF TypeOK, Label, Searching, AccessStart, At, Goto
<1>5. CASE AccessFind(p)
  <2>1. place[p] < SHARED_MEMORY_GLOBAL => place[p] + 1 \in Place
    BY <1>1, Constants DEF TypeOK, Place
  <2>2. Rest
    BY <1>1, <1>3, <1>5, <2>1, Zenon DEF TypeOK, Label, Copying, AccessFind, Return, At, Goto
  <2>3. QED
    BY <1>1, <1>2, <2>2, Zenon DEF TypeOK
<1>6. CASE AccessFaults(p)
  BY <1>1, <1>2, <1>6, Zenon DEF TypeOK, Label, AccessFaults, Goto
<1>7. CASE ReadCopy(p)
  BY <1>1, <1>2, <1>3, <1>7, Zenon DEF TypeOK, Label, ReadCopy, Return, At, Goto
<1>8. CASE WriteCopy(p)
  BY <1>1, <1>2, <1>8, Zenon DEF TypeOK, Label, Copying, WriteCopy, Goto
<1>9. CASE \E v \in Value : WriteEnd(p, v)
  <2>1. PICK v \in Value : WriteEnd(p, v)
    BY <1>9, Zenon
  <2>2. content' \in [Frame -> Value \cup {Torn}]
    BY <1>1, <2>1, Zenon DEF TypeOK, WriteEnd
  <2>3. Rest
    BY <1>1, <1>3, <2>1, <2>2, Zenon DEF TypeOK, Label, WriteEnd, Return, At, Goto
  <2>4. QED
    BY <1>1, <1>2, <2>3, Zenon DEF TypeOK
<1>10. CASE ExitStart(p)
  BY <1>1, <1>2, <1>10, Zenon DEF TypeOK, Label, ExitStart, Goto
<1>11. CASE ExitDone(p)
  BY <1>1, <1>2, <1>3, <1>11, Zenon DEF TypeOK, Label, ExitDone, Return, At, Goto
<1>12. QED
  BY <1>4, <1>5, <1>6, <1>7, <1>8, <1>9, <1>10, <1>11, Zenon DEF QuietStep, Access

(* Every step keeps the types. *)
LEMMA TypeStep ==
  ASSUME SMInv, Next
  PROVE  TypeOK'
<1>0. SMInv /\ ~panicked
  BY Zenon DEF Next
<1>1. ASSUME NEW p \in Proc, Allocproc(p)
      PROVE  TypeOK'
  <2>1. SelfSharedMemory' = SelfSharedMemory
    BY <1>0, <1>1, AllocprocKeeps, Zenon
  <2>2. QED
    BY <1>0, <1>1, <2>1, Zenon DEF SMInv, TypeOK, Allocproc
<1>2. ASSUME NEW p \in Proc, NEW s \in Signature, AllocFound(p, s)
      PROVE  TypeOK'
  <2> DEFINE i == FindGlobalSharedMemory(s)
  <2>1. /\ i \in Place /\ UserNumber' = [UserNumber EXCEPT ![i] = @ + 1]
        /\ UNCHANGED <<VirtualAddress, Sig, freeFrames, content, alive, pc, arg, place, ptr, panicked>>
    BY <1>0, <1>2, AllocFoundFacts, Zenon
  <2>2. SelfSharedMemory' \in [Proc -> [SelfPlace -> Signature \cup {0}]]
    BY <1>0, <1>2, AllocFoundFacts, SelfTakes, Zenon
  <2> HIDE DEF i
  <2>3. QED
    BY <1>0, <2>1, <2>2 DEF SMInv, TypeOK
<1>3. ASSUME NEW p \in Proc, NEW s \in Signature, AllocNew(p, s)
      PROVE  TypeOK'
  <2> DEFINE e == GlobalEmptyPlace
  <2>1. e \in Place /\ SharedMemoryLock' = p /\ pc' = [pc EXCEPT ![p] = "allocSig"]
    BY <1>0, <1>3, AllocNewFacts, Zenon
  <2>2. arg' = [arg EXCEPT ![p] = s] /\ place' = [place EXCEPT ![p] = e]
    BY <1>0, <1>3, AllocNewFacts, Zenon
  <2>3. UNCHANGED <<Sig, UserNumber, SelfSharedMemory, content, alive, ptr, panicked>>
    BY <1>0, <1>3, AllocNewFacts, Zenon
  <2>4. \/ \E f \in freeFrames : /\ VirtualAddress' = [VirtualAddress EXCEPT ![e] = f]
                                 /\ freeFrames' = freeFrames \ {f}
        \/ VirtualAddress' = [VirtualAddress EXCEPT ![e] = 0] /\ freeFrames' = freeFrames
    BY <1>0, <1>3, AllocNewFacts, Zenon
  <2> HIDE DEF e
  <2>5. VirtualAddress' \in [Place -> Frame \cup NotPage] /\ freeFrames' \subseteq Frame
    BY <1>0, <2>1, <2>4 DEF SMInv, TypeOK, NotPage
  <2>6. QED
    BY <1>0, <2>1, <2>2, <2>3, <2>5 DEF SMInv, TypeOK, Label, Critical
<1>4. ASSUME NEW p \in Proc, AllocSignature(p)
      PROVE  TypeOK'
  <2>1. arg[p] \in Signature
    BY <1>0, <1>4, Zenon DEF SMInv, HalfDone, AllocSignature
  <2>2. QED
    BY <1>0, <1>4, <2>1, Zenon DEF SMInv, TypeOK, Label, Critical, AllocSignature, Goto
<1>5. ASSUME NEW p \in Proc, AllocUser(p)
      PROVE  TypeOK'
  <2>1. SelfSharedMemory' \in [Proc -> [SelfPlace -> Signature \cup {0}]]
    BY <1>0, <1>5, AllocUserFacts, SelfTakes, Zenon
  <2>2. 1 \in Place
    BY Constants DEF Place
  <2>3. QED
    BY <1>0, <1>5, <2>1, <2>2 DEF SMInv, TypeOK, Label, AllocUser, Return, At, Goto
<1>6. ASSUME NEW p \in Proc, NEW s \in Signature, Dealloc(p, s)
      PROVE  TypeOK'
  <2>0. PICK i \in Place : i = FindGlobalSharedMemory(s)
    BY <1>0, <1>6, DeallocFacts, Zenon
  <2>1. SelfSharedMemory' \in [Proc -> [SelfPlace -> Signature \cup {0}]]
    BY <1>0, <1>6, DeallocFacts, SelfDrops, Zenon
  <2>2. /\ UserNumber' = [UserNumber EXCEPT ![i] = @ - 1]
        /\ UNCHANGED <<VirtualAddress, Sig, freeFrames, content, alive, ptr>>
    BY <1>0, <1>6, <2>0, DeallocFacts, Zenon
  <2>3. /\ \/ pc' = pc
           \/ pc' = [pc EXCEPT ![p] = "deallocClear"]
        /\ arg' = arg \/ arg' = [arg EXCEPT ![p] = IF pc[p] = "exit" THEN 1 ELSE 0]
        /\ place' = place \/ place' = [place EXCEPT ![p] = i]
        /\ panicked' = panicked \/ panicked' = TRUE
    BY <1>0, <1>6, <2>0, DeallocCases, ZenonT(60)
  <2>4. pc' \in [Proc -> Label] /\ panicked' \in BOOLEAN
    BY <1>0, <2>3, Zenon DEF SMInv, TypeOK, Label, Critical
  <2>5. arg' \in [Proc -> Signature \cup {0, 1}] /\ place' \in [Proc -> Place]
    <3>1. arg \in [Proc -> Signature \cup {0, 1}] /\ place \in [Proc -> Place]
      BY <1>0 DEF SMInv, TypeOK
    <3>2. CASE arg' = arg
      BY <2>3, <3>1, <3>2
    <3>3. CASE arg' = [arg EXCEPT ![p] = IF pc[p] = "exit" THEN 1 ELSE 0]
      BY <2>3, <3>1, <3>3
    <3>4. QED
      BY <2>3, <3>2, <3>3, Zenon
  <2>6. UserNumber' \in [Place -> Int]
    BY <1>0, <2>2 DEF SMInv, TypeOK
  <2>7. QED
    BY <1>0, <2>1, <2>2, <2>4, <2>5, <2>6, Zenon DEF SMInv, TypeOK
<1>7. ASSUME NEW p \in Proc, DeallocClear(p)
      PROVE  TypeOK'
  <2>1. 1 \in Place
    BY Constants DEF Place
  <2>2. QED
    BY <1>0, <1>7, <2>1, Zenon DEF SMInv, TypeOK, Label, NotPage, DeallocClear, At, Goto
<1>8. ASSUME NEW p \in Proc, QuietStep(p)
      PROVE  TypeOK'
  BY <1>0, <1>8, QuietTypes, Zenon
<1>9. QED
  BY <1>1, <1>2, <1>3, <1>4, <1>5, <1>6, <1>7, <1>8, StepCases, Zenon

(* The lock is held where it should be. *)
LEMMA LockStep ==
  ASSUME SMInv, Next
  PROVE  LockIsHeld'
<1>0. SMInv /\ ~panicked
  BY DEF Next
<1>1. ASSUME NEW p \in Proc, NEW s \in Signature, AllocNew(p, s)
      PROVE  LockIsHeld'
  <2>1. SharedMemoryLock = None /\ SharedMemoryLock' = p /\ pc' = [pc EXCEPT ![p] = "allocSig"]
    BY <1>0, <1>1, AllocNewFacts, Zenon
  <2>2. QED
    BY <1>0, <2>1, OneCritical, Zenon DEF SMInv, TypeOK, LockIsHeld
<1>2. ASSUME NEW p \in Proc, AllocSignature(p)
      PROVE  LockIsHeld'
  BY <1>0, <1>2, Zenon DEF SMInv, TypeOK, LockIsHeld, Critical, AllocSignature, Goto
<1>3. ASSUME NEW p \in Proc, AllocUser(p)
      PROVE  LockIsHeld'
  <2>1. pc' = [pc EXCEPT ![p] = "user"] /\ \A q \in Proc : q # p => pc[q] \notin Critical
    BY <1>0, <1>3, AllocUserFacts, Zenon
  <2>2. QED
    BY <1>0, <2>1, Zenon DEF SMInv, TypeOK, LockIsHeld, Critical
<1>4. ASSUME NEW p \in Proc, NEW s \in Signature, Dealloc(p, s)
      PROVE  LockIsHeld'
  <2>1. \A q \in Proc : pc[q] \notin Critical
    BY <1>0, <1>4, OneCritical, DeallocFacts, Zenon
  <2>2. \/ pc' = pc
        \/ pc' = [pc EXCEPT ![p] = "deallocClear"] /\ SharedMemoryLock' = p
    BY <1>0, <1>4, DeallocFacts, Zenon
  <2>3. QED
    BY <1>0, <2>1, <2>2, Zenon DEF SMInv, TypeOK, LockIsHeld
<1>5. ASSUME NEW p \in Proc, DeallocClear(p)
      PROVE  LockIsHeld'
  <2>1. \A q \in Proc : q # p => pc[q] \notin Critical
    BY <1>0, <1>5, OneCritical, Zenon DEF DeallocClear, Critical
  <2>2. QED
    BY <1>0, <1>5, <2>1, Zenon DEF SMInv, TypeOK, LockIsHeld, Critical, DeallocClear, At, Goto
<1>6. ASSUME NEW p \in Proc, QuietStep(p)
      PROVE  LockIsHeld'
  BY <1>0, <1>6, QuietFacts, Zenon DEF SMInv, LockIsHeld
<1>7. ASSUME UNCHANGED <<SharedMemoryLock, pc>>
      PROVE  LockIsHeld'
  BY <1>0, <1>7, Zenon DEF SMInv, LockIsHeld
<1>8. QED
  BY <1>1, <1>2, <1>3, <1>4, <1>5, <1>6, <1>7, StepCases, Zenon
     DEF Allocproc, AllocFound

(* Own tables have no signature twice. *)
LEMMA OwnStep ==
  ASSUME SMInv, Next
  PROVE  OwnTables'
<1>0. SMInv /\ ~panicked
  BY DEF Next
<1>1. ASSUME NEW p \in Proc, Allocproc(p)
      PROVE  OwnTables'
  <2>1. SelfSharedMemory' = SelfSharedMemory
    BY <1>0, <1>1, AllocprocKeeps
  <2>2. QED
    BY <1>0, <1>1, <2>1 DEF SMInv, OwnTables, Allocproc
<1>2. ASSUME NEW p \in Proc, NEW s \in Signature, AllocFound(p, s)
      PROVE  OwnTables'
  <2>1. UNCHANGED <<pc, alive>> /\ p \in alive
    BY <1>0, <1>2, AllocFoundFacts, Zenon
  <2>2. /\ \A q \in Proc : \A j, k \in SelfPlace :
             j # k /\ SelfSharedMemory'[q][j] = SelfSharedMemory'[q][k] => SelfSharedMemory'[q][j] = 0
        /\ \A q \in Proc : q # p => SelfSharedMemory'[q] = SelfSharedMemory[q]
    BY <1>0, <1>2, AllocFoundFacts, SelfTakes
  <2>3. QED
    BY <1>0, <2>1, <2>2 DEF SMInv, OwnTables
<1>3. ASSUME NEW p \in Proc, NEW s \in Signature, AllocNew(p, s)
      PROVE  OwnTables'
  <2>1. /\ UNCHANGED <<SelfSharedMemory, alive>> /\ p \in alive
        /\ pc' = [pc EXCEPT ![p] = "allocSig"]
    BY <1>0, <1>3, AllocNewFacts, Zenon
  <2>2. QED
    BY <1>0, <2>1, Zenon DEF SMInv, TypeOK, OwnTables
<1>4. ASSUME NEW p \in Proc, AllocSignature(p)
      PROVE  OwnTables'
  BY <1>0, <1>4 DEF SMInv, TypeOK, OwnTables, AllocSignature, Goto
<1>5. ASSUME NEW p \in Proc, AllocUser(p)
      PROVE  OwnTables'
  <2>1. alive' = alive /\ pc' = [pc EXCEPT ![p] = "user"] /\ p \in alive
    BY <1>0, <1>5, AllocUserFacts, Zenon
  <2>2. /\ \A q \in Proc : \A j, k \in SelfPlace :
             j # k /\ SelfSharedMemory'[q][j] = SelfSharedMemory'[q][k] => SelfSharedMemory'[q][j] = 0
        /\ \A q \in Proc : q # p => SelfSharedMemory'[q] = SelfSharedMemory[q]
    BY <1>0, <1>5, AllocUserFacts, SelfTakes, Zenon
  <2>3. QED
    BY <1>0, <2>1, <2>2 DEF SMInv, TypeOK, OwnTables
<1>6. ASSUME NEW p \in Proc, NEW s \in Signature, Dealloc(p, s)
      PROVE  OwnTables'
  <2>1. alive' = alive /\ p \in alive /\ (pc' = pc \/ pc' = [pc EXCEPT ![p] = "deallocClear"])
    BY <1>0, <1>6, DeallocFacts, Zenon
  <2>2. /\ \A q \in Proc : \A j, k \in SelfPlace :
             j # k /\ SelfSharedMemory'[q][j] = SelfSharedMemory'[q][k] => SelfSharedMemory'[q][j] = 0
        /\ \A q \in Proc : \A k \in SelfPlace :
             SelfSharedMemory[q][k] = 0 => SelfSharedMemory'[q][k] = 0
    BY <1>0, <1>6, DeallocFacts, SelfDrops, Zenon
  <2>3. QED
    BY <1>0, <2>1, <2>2, Zenon DEF SMInv, TypeOK, OwnTables
<1>7. ASSUME NEW p \in Proc, DeallocClear(p)
      PROVE  OwnTables'
  BY <1>0, <1>7 DEF SMInv, TypeOK, OwnTables, DeallocClear, At, Goto
<1>8. ASSUME NEW p \in Proc, QuietStep(p)
      PROVE  OwnTables'
  <2>1. /\ SelfSharedMemory' = SelfSharedMemory /\ p \in alive
        /\ \A q \in Proc : q # p => pc'[q] = pc[q]
        /\ \/ alive' = alive
           \/ alive' = alive \ {p} /\ pc'[p] = "user" /\ GetSelf(p) = {0}
    BY <1>0, <1>8, QuietFacts, Zenon
  <2>2. GetSelf(p) = {0} => \A k \in SelfPlace : SelfSharedMemory[p][k] = 0
    BY <1>0, SelfRange, Zenon DEF SMInv
  <2>3. QED
    BY <1>0, <2>1, <2>2 DEF SMInv, OwnTables
<1>9. QED
  BY <1>1, <1>2, <1>3, <1>4, <1>5, <1>6, <1>7, <1>8, StepCases, Zenon

(* What a process has is listed. *)
LEMMA HeldAreListed ==
  ASSUME SMInv, NEW q \in Proc, NEW t, t # 0, t \in GetSelf(q)
  PROVE  Listed(t)
BY SelfRange DEF SMInv, GlobalTable

(* The global table lists what is held, once. *)
LEMMA GlobalStep ==
  ASSUME SMInv, Next
  PROVE  GlobalTable'
<1>0. SMInv /\ ~panicked
  BY DEF Next
<1>1. ASSUME NEW p \in Proc, Allocproc(p)
      PROVE  GlobalTable'
  <2>1. SelfSharedMemory' = SelfSharedMemory
    BY <1>0, <1>1, AllocprocKeeps
  <2>2. QED
    BY <1>0, <1>1, <2>1 DEF SMInv, GlobalTable, Listed, Allocproc
<1>2. ASSUME NEW p \in Proc, NEW s \in Signature, AllocFound(p, s)
      PROVE  GlobalTable'
  <2>1. /\ UNCHANGED <<VirtualAddress, Sig, pc, place>> /\ s \in Signature \ {0} /\ s \notin GetSelf(p)
        /\ 0 \in GetSelf(p) /\ Listed(s)
        /\ SelfSharedMemory' = [SelfSharedMemory EXCEPT ![p][SelfEmptyPlace(p)] = s]
    BY <1>0, <1>2, AllocFoundFacts, Zenon DEF AllocFound
  <2>2. \A q \in Proc : \A t : t # 0 => (t \in GetSelf(q)' => t \in GetSelf(q) \/ t = s)
    BY <1>0, <2>1, SelfTakes, Zenon
  <2>3. \A q \in Proc : \A k \in SelfPlace :
          Listed(SelfSharedMemory'[q][k]) \/ SelfSharedMemory'[q][k] = 0
    BY <1>0, <2>1, <2>2, TypeStep, SelfRangePrime, HeldAreListed, Zenon
  <2>4. QED
    BY <1>0, <2>1, <2>3 DEF SMInv, GlobalTable, Listed
<1>3. ASSUME NEW p \in Proc, NEW s \in Signature, AllocNew(p, s)
      PROVE  GlobalTable'
  <2> DEFINE e == GlobalEmptyPlace
  <2>1. /\ UNCHANGED <<Sig, SelfSharedMemory>> /\ e \in Place /\ SharedMemoryLock = None
        /\ pc' = [pc EXCEPT ![p] = "allocSig"] /\ place' = [place EXCEPT ![p] = e]
        /\ \E f : VirtualAddress' = [VirtualAddress EXCEPT ![e] = f]
    BY <1>0, <1>3, AllocNewFacts
  <2> HIDE DEF e
  <2>2. \A q \in Proc : pc[q] # "allocSig"
    BY <1>0, <2>1, OneCritical, Zenon DEF Critical
  <2>3. \A i \in Place : i # e => VirtualAddress'[i] = VirtualAddress[i]
    BY <1>0, <2>1, Zenon DEF SMInv, TypeOK
  <2>4. pc'[p] = "allocSig" /\ place'[p] = e
    BY <1>0, <2>1, Zenon DEF SMInv, TypeOK
  <2>5. QED
    BY <1>0, <2>1, <2>2, <2>3, <2>4, Zenon DEF SMInv, GlobalTable, Listed
<1>4. ASSUME NEW p \in Proc, AllocSignature(p)
      PROVE  GlobalTable'
  <2> DEFINE e == place[p]
  <2>1. /\ pc[p] = "allocSig" /\ Sig' = [Sig EXCEPT ![e] = arg[p]] /\ e \in Place
        /\ UNCHANGED <<VirtualAddress, SelfSharedMemory>>
    BY <1>0, <1>4, Zenon DEF SMInv, TypeOK, AllocSignature
  <2>2. Sig[e] = 0 /\ arg[p] # 0 /\ \A i \in Place : Sig[i] # arg[p]
    BY <1>0, <2>1, Zenon DEF SMInv, HalfDone, Listed
  <2>3. \A q \in Proc : q # p => pc[q] # "allocSig"
    BY <1>0, <2>1, OneCritical, Zenon DEF Critical
  <2>4. Sig'[e] = arg[p] /\ \A i \in Place : i # e => Sig'[i] = Sig[i]
    BY <1>0, <2>1, Zenon DEF SMInv, TypeOK
  <2>5. \A i, j \in Place : i # j /\ Sig'[i] = Sig'[j] => Sig'[i] = 0
    BY <1>0, <2>2, <2>4 DEF SMInv, GlobalTable
  <2>6. \A i \in Place : Sig'[i] # 0 \/ VirtualAddress[i] \in NotPage
    BY <1>0, <2>2, <2>3, <2>4 DEF SMInv, GlobalTable
  <2>7. \A t : t # 0 /\ Listed(t) => Listed(t)'
    BY <2>2, <2>4, Zenon DEF Listed
  <2>8. \A q \in Proc : \A k \in SelfPlace :
          Listed(SelfSharedMemory[q][k])' \/ SelfSharedMemory[q][k] = 0
    BY <1>0, <2>1, <2>7, Zenon DEF SMInv, GlobalTable
  <2>9. QED
    BY <2>1, <2>5, <2>6, <2>8, Zenon DEF GlobalTable
<1>5. ASSUME NEW p \in Proc, AllocUser(p)
      PROVE  GlobalTable'
  <2>1. /\ UNCHANGED <<VirtualAddress, Sig>> /\ arg[p] \in Signature \ {0} /\ arg[p] \notin GetSelf(p)
        /\ 0 \in GetSelf(p) /\ Listed(arg[p]) /\ pc[p] = "allocUse"
        /\ SelfSharedMemory' = [SelfSharedMemory EXCEPT ![p][SelfEmptyPlace(p)] = arg[p]]
        /\ \A q \in Proc : q # p => pc[q] # "allocSig"
    BY <1>0, <1>5, AllocUserFacts, Zenon DEF Listed, Critical
  <2>2. \A q \in Proc : \A t : t # 0 => (t \in GetSelf(q)' => t \in GetSelf(q) \/ t = arg[p])
    BY <1>0, <2>1, SelfTakes, Zenon
  <2>3. \A q \in Proc : \A k \in SelfPlace :
          Listed(SelfSharedMemory'[q][k]) \/ SelfSharedMemory'[q][k] = 0
    BY <1>0, <2>1, <2>2, TypeStep, SelfRangePrime, HeldAreListed
  <2>4. \A i \in Place : Sig[i] # 0 \/ VirtualAddress[i] \in NotPage
    BY <1>0, <2>1, Zenon DEF SMInv, GlobalTable
  <2>5. QED
    BY <1>0, <2>1, <2>3, <2>4, Zenon DEF SMInv, GlobalTable, Listed
<1>6. ASSUME NEW p \in Proc, NEW s \in Signature, Dealloc(p, s)
      PROVE  GlobalTable'
  <2>1. /\ UNCHANGED <<VirtualAddress, Sig>> /\ s \in GetSelf(p) /\ SharedMemoryLock = None
        /\ SelfSharedMemory' = [SelfSharedMemory EXCEPT ![p][FindSelfSharedMemory(p, s)] = 0]
    BY <1>0, <1>6, DeallocFacts, Zenon
  <2>2. \A q \in Proc : \A t : t # 0 => (t \in GetSelf(q)' => t \in GetSelf(q))
    BY <1>0, <2>1, SelfDrops, Zenon
  <2>3. \A q \in Proc : \A k \in SelfPlace :
          Listed(SelfSharedMemory'[q][k]) \/ SelfSharedMemory'[q][k] = 0
    BY <1>0, <2>2, TypeStep, SelfRangePrime, HeldAreListed
  <2>4. \A q \in Proc : pc[q] # "allocSig"
    BY <1>0, <2>1, OneCritical, Zenon DEF Critical
  <2>5. \A i \in Place : Sig[i] # 0 \/ VirtualAddress[i] \in NotPage
    BY <1>0, <2>4, Zenon DEF SMInv, GlobalTable
  <2>6. QED
    BY <1>0, <2>1, <2>3, <2>5 DEF SMInv, GlobalTable, Listed
<1>7. ASSUME NEW p \in Proc, DeallocClear(p)
      PROVE  GlobalTable'
  <2> DEFINE e == place[p]
  <2>1. /\ pc[p] = "deallocClear" /\ Sig' = [Sig EXCEPT ![e] = 0] /\ e \in Place
        /\ VirtualAddress' = [VirtualAddress EXCEPT ![e] = -1] /\ SelfSharedMemory' = SelfSharedMemory
    BY <1>0, <1>7, Zenon DEF SMInv, TypeOK, DeallocClear
  <2>2. Sig[e] # 0 /\ Holders(Sig[e]) = {}
    BY <1>0, <2>1, Zenon DEF SMInv, HalfDone
  <2>3. \A q \in Proc : pc[q] # "allocSig"
    BY <1>0, <2>1, OneCritical, Zenon DEF Critical
  <2>4. /\ Sig'[e] = 0 /\ \A i \in Place : i # e => Sig'[i] = Sig[i]
        /\ VirtualAddress'[e] = -1 /\ \A i \in Place : i # e => VirtualAddress'[i] = VirtualAddress[i]
    BY <1>0, <2>1, Zenon DEF SMInv, TypeOK
  <2>5. \A i, j \in Place : i # j /\ Sig'[i] = Sig'[j] => Sig'[i] = 0
    BY <1>0, <2>4 DEF SMInv, GlobalTable
  <2>6. \A i \in Place : Sig'[i] # 0 \/ VirtualAddress'[i] \in NotPage
    BY <1>0, <2>3, <2>4, Zenon DEF SMInv, GlobalTable, NotPage
  <2>7. \A q \in Proc : \A k \in SelfPlace : SelfSharedMemory[q][k] # Sig[e]
    BY <1>0, <2>2, SelfRange, Zenon DEF SMInv, Holders
  <2>8. \A q \in Proc : \A k \in SelfPlace :
          Listed(SelfSharedMemory[q][k])' \/ SelfSharedMemory[q][k] = 0
    BY <1>0, <2>1, <2>4, <2>7 DEF SMInv, GlobalTable, Listed
  <2>9. QED
    BY <2>1, <2>5, <2>6, <2>8, Zenon DEF GlobalTable
<1>8. ASSUME NEW p \in Proc, QuietStep(p)
      PROVE  GlobalTable'
  <2>1. /\ UNCHANGED <<VirtualAddress, Sig, SelfSharedMemory>> /\ pc[p] \notin Critical
        /\ \A q \in Proc : q # p => pc'[q] = pc[q] /\ place'[q] = place[q]
    BY <1>0, <1>8, QuietFacts, Zenon
  <2>2. \A q \in Proc : pc[q] = "allocSig" => pc'[q] = "allocSig" /\ place'[q] = place[q]
    BY <2>1, Zenon DEF Critical
  <2>3. QED
    BY <1>0, <2>1, <2>2 DEF SMInv, GlobalTable, Listed
<1>9. QED
  BY <1>1, <1>2, <1>3, <1>4, <1>5, <1>6, <1>7, <1>8, StepCases, Zenon

(* A signature whose place is settled is counted. *)
LEMMA SettledIsCounted ==
  ASSUME SMInv, ~panicked, SharedMemoryLock = None, NEW i \in Place, Sig[i] # 0
  PROVE  Counted(i)
<1>1. ~Unsettled(i)
  BY OneCritical, Zenon DEF Unsettled, Critical
<1>2. QED
  BY <1>1, Zenon DEF SMInv, UsersAreCounted

(* The processes that hold t after a step. *)
Holding(t) == {q \in Proc : t \in GetSelf(q)'}

(* One holder less, when a process gives a signature up ... *)
LEMMA HoldersDrop ==
  ASSUME SMInv, NEW p \in Proc, NEW s \in Signature, s \in GetSelf(p),
         SelfSharedMemory' = [SelfSharedMemory EXCEPT ![p][FindSelfSharedMemory(p, s)] = 0],
         NEW t, t # 0
  PROVE  Holding(t) = IF t = s THEN Holders(t) \ {p} ELSE Holders(t)
<1>1. \A q \in Proc : t \in GetSelf(q)' <=> t \in GetSelf(q) /\ ~(q = p /\ t = s)
  BY SelfDrops, Zenon
<1>2. QED
  BY <1>1, Zenon DEF Holders, Holding

(* ... and one more, when a process takes it. *)
LEMMA HoldersTake ==
  ASSUME SMInv, NEW p \in Proc, NEW s \in Signature \ {0}, s \notin GetSelf(p), 0 \in GetSelf(p),
         SelfSharedMemory' = [SelfSharedMemory EXCEPT ![p][SelfEmptyPlace(p)] = s],
         NEW t, t # 0
  PROVE  Holding(t) = IF t = s THEN Holders(t) \cup {p} ELSE Holders(t)
<1>1. \A q \in Proc : t \in GetSelf(q)' <=> t \in GetSelf(q) \/ (q = p /\ t = s)
  BY SelfTakes, Zenon
<1>2. QED
  BY <1>1, Zenon DEF Holders, Holding

(* The last user is the only holder. *)
LEMMA LastDrops ==
  ASSUME SMInv, ~panicked, SharedMemoryLock = None, NEW p \in Proc, NEW s \in Signature, s # 0,
         s \in GetSelf(p), NEW i \in Place, Sig[i] = s, LastUser(i),
         SelfSharedMemory' = [SelfSharedMemory EXCEPT ![p][FindSelfSharedMemory(p, s)] = 0]
  PROVE  Holders(s)' = {} /\ UserNumber[i] = 1
<1>1. Holders(s) \subseteq Proc /\ p \in Holders(s)
  BY Zenon DEF Holders
<1>2. /\ IsFiniteSet(Holders(s)) /\ Cardinality(Holders(s)) \in Nat
      /\ Cardinality(Holders(s) \ {p}) = Cardinality(Holders(s)) - 1
  BY <1>1, ProcSets, FS_RemoveElement, Zenon
<1>3. UserNumber[i] = Cardinality(Holders(s)) /\ UserNumber[i] > 0
  BY SettledIsCounted, Zenon DEF Counted
<1>4. Cardinality(Holders(s) \ {p}) = 0 /\ UserNumber[i] = 1
  BY <1>2, <1>3 DEF LastUser
<1>5. Holders(s) \ {p} = {}
  BY <1>1, <1>4, ProcSets, Zenon
<1>6. Holding(s) = {}
  BY <1>5, HoldersDrop, Zenon
<1>7. QED
  BY <1>4, <1>6, Zenon DEF Holders, Holding

(* What a process knows between its steps stays true. *)
LEMMA HalfStep ==
  ASSUME SMInv, Next
  PROVE  HalfDone'
<1>0. SMInv /\ ~panicked
  BY DEF Next
<1>1. ASSUME NEW p \in Proc, Allocproc(p)
      PROVE  HalfDone'
  <2>1. SelfSharedMemory' = SelfSharedMemory
    BY <1>0, <1>1, AllocprocKeeps
  <2>2. UNCHANGED <<pc, arg, place, Sig>>
    BY <1>1, Zenon DEF Allocproc
  <2>3. QED
    BY <1>0, <2>1, <2>2, Zenon DEF SMInv, HalfDone, Holders, GetSelf, Listed
<1>2. ASSUME NEW p \in Proc, NEW s \in Signature, AllocFound(p, s)
      PROVE  HalfDone'
  <2>1. SharedMemoryLock = None /\ pc' = pc
    BY <1>0, <1>2, AllocFoundFacts, Zenon
  <2>2. \A q \in Proc : pc'[q] \notin Critical
    BY <1>0, <2>1, OneCritical, Zenon
  <2>3. QED
    BY <2>2, Zenon DEF HalfDone, Critical
<1>3. ASSUME NEW p \in Proc, NEW s \in Signature, AllocNew(p, s)
      PROVE  HalfDone'
  <2> DEFINE e == GlobalEmptyPlace
  <2>1. /\ s \in Signature \ {0} /\ 0 \in GetSelf(p) /\ SharedMemoryLock = None
        /\ Sig[e] = 0 /\ ~Listed(s) /\ UNCHANGED <<Sig, SelfSharedMemory>>
        /\ pc' = [pc EXCEPT ![p] = "allocSig"] /\ arg' = [arg EXCEPT ![p] = s]
        /\ place' = [place EXCEPT ![p] = e]
    BY <1>0, <1>3, AllocNewFacts, Zenon
  <2> HIDE DEF e
  <2>2. pc'[p] = "allocSig" /\ arg'[p] = s /\ place'[p] = e
    BY <1>0, <2>1, Zenon DEF SMInv, TypeOK
  <2>3. \A q \in Proc : q # p => pc'[q] \notin Critical
    BY <1>0, <2>1, OneCritical, Zenon DEF SMInv, TypeOK
  <2>4. GetSelf(p)' = GetSelf(p) /\ \A t : Listed(t)' = Listed(t)
    BY <2>1, Zenon DEF GetSelf, Listed
  <2>5. Listed(s)' = Listed(s)
    BY <2>1, Zenon DEF Listed
  <2>6. ~Listed(arg[p])'
    BY <2>1, <2>2, Zenon DEF Listed
  <2>7. QED
    BY <2>1, <2>2, <2>3, <2>4, <2>6 DEF HalfDone, Critical
<1>4. ASSUME NEW p \in Proc, AllocSignature(p)
      PROVE  HalfDone'
  <2> DEFINE e == place[p]
  <2>1. /\ pc[p] = "allocSig" /\ Sig' = [Sig EXCEPT ![e] = arg[p]] /\ e \in Place
        /\ UNCHANGED <<SelfSharedMemory, arg, place>> /\ pc' = [pc EXCEPT ![p] = "allocUse"]
    BY <1>0, <1>4, Zenon DEF SMInv, TypeOK, AllocSignature, Goto
  <2>2. arg[p] \in Signature \ {0} /\ ~Listed(arg[p]) /\ 0 \in GetSelf(p)
    BY <1>0, <2>1, Zenon DEF SMInv, HalfDone
  <2>3. Holders(arg[p]) = {}
    BY <1>0, <2>2, HeldAreListed, Zenon DEF Holders
  <2>4. \A q \in Proc : q # p => pc'[q] \notin Critical
    BY <1>0, <2>1, OneCritical, Zenon DEF SMInv, TypeOK, Critical
  <2>5. pc'[p] = "allocUse" /\ Sig'[e] = arg[p]
    BY <1>0, <2>1, Zenon DEF SMInv, TypeOK
  <2>6. Holders(arg[p])' = {} /\ (0 \in GetSelf(p))'
    BY <2>1, <2>2, <2>3, Zenon DEF Holders, GetSelf
  <2>7. QED
    BY <2>1, <2>2, <2>4, <2>5, <2>6, Zenon DEF HalfDone, Critical
<1>5. ASSUME NEW p \in Proc, AllocUser(p)
      PROVE  HalfDone'
  <2>1. pc' = [pc EXCEPT ![p] = "user"] /\ \A q \in Proc : q # p => pc[q] \notin Critical
    BY <1>0, <1>5, AllocUserFacts
  <2>2. \A q \in Proc : pc'[q] \notin Critical
    BY <1>0, <2>1, Zenon DEF SMInv, TypeOK, Critical
  <2>3. QED
    BY <2>2, Zenon DEF HalfDone, Critical
<1>6. ASSUME NEW p \in Proc, NEW s \in Signature, Dealloc(p, s)
      PROVE  HalfDone'
  <2>0. PICK i \in Place : i = FindGlobalSharedMemory(s)
    BY <1>0, <1>6, DeallocFacts, Zenon
  <2>1. /\ s \in GetSelf(p) /\ SharedMemoryLock = None /\ i \in Place /\ Sig[i] = s /\ Sig' = Sig
        /\ SelfSharedMemory' = [SelfSharedMemory EXCEPT ![p][FindSelfSharedMemory(p, s)] = 0]
    BY <1>0, <1>6, <2>0, DeallocFacts, Zenon
  <2>2. \/ pc' = pc
        \/ /\ LastUser(i) /\ s # 0 /\ pc' = [pc EXCEPT ![p] = "deallocClear"]
           /\ place' = [place EXCEPT ![p] = i]
    BY <1>0, <1>6, <2>0, DeallocCases, ZenonT(60)
  <2>3. \A q \in Proc : pc[q] \notin Critical
    BY <1>0, <2>1, OneCritical, Zenon
  <2>4. CASE pc' = pc
    BY <2>3, <2>4, Zenon DEF HalfDone, Critical
  <2>5. CASE /\ LastUser(i) /\ s # 0 /\ pc' = [pc EXCEPT ![p] = "deallocClear"]
             /\ place' = [place EXCEPT ![p] = i]
    <3>1. Holders(s)' = {}
      BY <1>0, <2>1, <2>5, LastDrops, Zenon
    <3>2. /\ pc'[p] = "deallocClear" /\ place'[p] = i
          /\ \A q \in Proc : q # p => pc'[q] \notin Critical
      BY <1>0, <2>3, <2>5, Zenon DEF SMInv, TypeOK
    <3>3. Sig'[i] # 0 /\ Holders(Sig[place[p]])' = {}
      BY <2>1, <2>5, <3>1, <3>2, Zenon DEF Holders
    <3>4. QED
      BY <3>2, <3>3, Zenon DEF HalfDone, Critical
  <2>6. QED
    BY <2>2, <2>4, <2>5, Zenon
<1>7. ASSUME NEW p \in Proc, DeallocClear(p)
      PROVE  HalfDone'
  <2>1. \A q \in Proc : q # p => pc[q] \notin Critical
    BY <1>0, <1>7, OneCritical DEF DeallocClear, Critical
  <2>2. \A q \in Proc : pc'[q] \notin Critical
    BY <1>0, <1>7, <2>1, Zenon DEF SMInv, TypeOK, Critical, DeallocClear, At, Goto
  <2>3. QED
    BY <2>2 DEF HalfDone, Critical
<1>8. ASSUME NEW p \in Proc, QuietStep(p)
      PROVE  HalfDone'
  <2>1. /\ UNCHANGED <<Sig, SelfSharedMemory>> /\ pc'[p] \notin Critical
        /\ \A q \in Proc : q # p => pc'[q] = pc[q] /\ arg'[q] = arg[q] /\ place'[q] = place[q]
    BY <1>0, <1>8, QuietFacts, Zenon
  <2>2. /\ \A q \in Proc : GetSelf(q)' = GetSelf(q)
        /\ \A q \in Proc : q # p => /\ Listed(arg[q])' = Listed(arg[q])
                                    /\ Holders(arg[q])' = Holders(arg[q])
                                    /\ Holders(Sig[place[q]])' = Holders(Sig[place[q]])
    BY <2>1, Zenon DEF GetSelf, Listed, Holders
  <2>3. QED
    BY <1>0, <2>1, <2>2, ZenonT(60) DEF SMInv, HalfDone, Critical
<1>9. QED
  BY <1>1, <1>2, <1>3, <1>4, <1>5, <1>6, <1>7, <1>8, StepCases, Zenon

(* Pages stay separate. *)
LEMMA PagesStep ==
  ASSUME SMInv, Next
  PROVE  PagesAreSeparate'
<1>0. SMInv /\ ~panicked
  BY DEF Next
<1>1. ASSUME NEW p \in Proc, NEW s \in Signature, AllocNew(p, s)
      PROVE  PagesAreSeparate'
  <2> DEFINE e == GlobalEmptyPlace
  <2>1. /\ e \in Place
        /\ \/ \E f \in freeFrames : /\ VirtualAddress' = [VirtualAddress EXCEPT ![e] = f]
                                    /\ freeFrames' = freeFrames \ {f}
           \/ VirtualAddress' = [VirtualAddress EXCEPT ![e] = 0] /\ freeFrames' = freeFrames
    BY <1>0, <1>1, AllocNewFacts, Zenon
  <2> HIDE DEF e
  <2>2. CASE VirtualAddress' = [VirtualAddress EXCEPT ![e] = 0] /\ freeFrames' = freeFrames
    <3>1. 0 \notin freeFrames /\ 0 \in NotPage
      BY <1>0, Constants, Zenon DEF SMInv, TypeOK, NotPage
    <3>2. QED
      BY <1>0, <2>1, <2>2, <3>1, Zenon DEF SMInv, TypeOK, PagesAreSeparate
  <2>3. ASSUME NEW f \in freeFrames, VirtualAddress' = [VirtualAddress EXCEPT ![e] = f],
               freeFrames' = freeFrames \ {f}
        PROVE  PagesAreSeparate'
    <3>1. VirtualAddress'[e] = f /\ \A i \in Place : i # e => VirtualAddress'[i] = VirtualAddress[i]
      BY <1>0, <2>1, <2>3, Zenon DEF SMInv, TypeOK
    <3>2. \A i \in Place : VirtualAddress[i] \notin freeFrames
      BY <1>0, Zenon DEF SMInv, PagesAreSeparate
    <3>3. QED
      BY <1>0, <2>3, <3>1, <3>2 DEF SMInv, PagesAreSeparate
  <2>4. QED
    BY <2>1, <2>2, <2>3, Zenon
<1>2. ASSUME NEW p \in Proc, DeallocClear(p)
      PROVE  PagesAreSeparate'
  <2> DEFINE e == place[p]
  <2>1. /\ VirtualAddress' = [VirtualAddress EXCEPT ![e] = -1] /\ freeFrames' = freeFrames
        /\ e \in Place
    BY <1>0, <1>2, Zenon DEF SMInv, TypeOK, DeallocClear
  <2>2. -1 \notin freeFrames /\ -1 \in NotPage
    BY <1>0, Constants, Zenon DEF SMInv, TypeOK, NotPage
  <2>3. QED
    BY <1>0, <2>1, <2>2, Zenon DEF SMInv, TypeOK, PagesAreSeparate
<1>3. ASSUME NEW p \in Proc, QuietStep(p)
      PROVE  PagesAreSeparate'
  BY <1>0, <1>3, QuietFacts DEF SMInv, PagesAreSeparate
<1>4. ASSUME UNCHANGED <<VirtualAddress, freeFrames>>
      PROVE  PagesAreSeparate'
  BY <1>0, <1>4, ZenonT(60) DEF SMInv, PagesAreSeparate
<1>5. QED
  BY <1>1, <1>2, <1>3, <1>4, StepCases, ZenonT(60)
     DEF Allocproc, AllocFound, AllocSignature, AllocUser, Dealloc

(* UserNumber counts the holders. *)
LEMMA UsersStep ==
  ASSUME SMInv, Next
  PROVE  UsersAreCounted'
<1>0. SMInv /\ ~panicked
  BY DEF Next
<1>1. ASSUME NEW p \in Proc, Allocproc(p)
      PROVE  UsersAreCounted'
  <2>1. SelfSharedMemory' = SelfSharedMemory
    BY <1>0, <1>1, AllocprocKeeps
  <2>2. UNCHANGED <<pc, place, Sig, UserNumber, panicked>>
    BY <1>1, Zenon DEF Allocproc
  <2>3. QED
    BY <1>0, <2>1, <2>2 DEF SMInv, UsersAreCounted, Counted, Unsettled, Holders, GetSelf
<1>2. ASSUME NEW p \in Proc, NEW s \in Signature, AllocFound(p, s)
      PROVE  UsersAreCounted'
  <2> DEFINE i == FindGlobalSharedMemory(s)
  <2>1. /\ s \in Signature \ {0} /\ s \notin GetSelf(p) /\ 0 \in GetSelf(p)
        /\ SharedMemoryLock = None /\ i \in Place /\ Sig[i] = s
        /\ UserNumber' = [UserNumber EXCEPT ![i] = @ + 1]
        /\ SelfSharedMemory' = [SelfSharedMemory EXCEPT ![p][SelfEmptyPlace(p)] = s]
        /\ UNCHANGED <<Sig, pc, place, panicked>>
    BY <1>0, <1>2, AllocFoundFacts, Zenon
  <2> HIDE DEF i
  <2>2. \A j \in Place : Sig[j] # 0 => Counted(j)
    BY <1>0, <2>1, SettledIsCounted, Zenon
  <2>3. \A t : t # 0 => Holding(t) = IF t = s THEN Holders(t) \cup {p} ELSE Holders(t)
    BY <1>0, <2>1, HoldersTake, Zenon
  <2>4. Cardinality(Holding(s)) = Cardinality(Holders(s)) + 1 /\ Cardinality(Holders(s)) \in Nat
    <3>1. p \notin Holders(s) /\ Holders(s) \subseteq Proc
      BY <2>1, Zenon DEF Holders
    <3>2. QED
      BY <2>1, <2>3, <3>1, ProcSets, FS_AddElement
  <2>5. /\ UserNumber'[i] = UserNumber[i] + 1
        /\ \A j \in Place : j # i => UserNumber'[j] = UserNumber[j] /\ (Sig[j] # s \/ Sig[j] = 0)
    BY <1>0, <2>1 DEF SMInv, TypeOK, GlobalTable
  <2>6. \A j \in Place : Sig[j] # 0 =>
          UserNumber'[j] = Cardinality(Holding(Sig[j])) /\ UserNumber'[j] > 0
    BY <2>1, <2>2, <2>3, <2>4, <2>5 DEF Counted
  <2>7. \A j \in Place : Sig[j] = 0 => UserNumber'[j] <= 0
    BY <1>0, <2>1, <2>5, Zenon DEF SMInv, UsersAreCounted
  <2>8. \A q \in Proc : pc'[q] # "deallocClear"
    BY <1>0, <2>1, OneCritical, Zenon DEF Critical
  <2>9. \A j \in Place : Sig'[j] # 0 => Counted(j)'
    BY <2>1, <2>6, Zenon DEF Counted, Holders, Holding
  <2>10. QED
    BY <2>1, <2>7, <2>8, <2>9, Zenon DEF UsersAreCounted
<1>3. ASSUME NEW p \in Proc, NEW s \in Signature, AllocNew(p, s)
      PROVE  UsersAreCounted'
  <2>1. /\ SharedMemoryLock = None /\ UNCHANGED <<Sig, UserNumber, SelfSharedMemory, panicked>>
        /\ pc' = [pc EXCEPT ![p] = "allocSig"]
    BY <1>0, <1>3, AllocNewFacts, Zenon
  <2>2. \A j \in Place : Sig[j] # 0 => Counted(j)
    BY <1>0, <2>1, SettledIsCounted, Zenon
  <2>3. \A q \in Proc : pc'[q] # "deallocClear"
    BY <1>0, <2>1, OneCritical, Zenon DEF SMInv, TypeOK, Critical
  <2>4. QED
    BY <1>0, <2>1, <2>2, <2>3, Zenon DEF SMInv, UsersAreCounted, Counted, Holders, GetSelf
<1>4. ASSUME NEW p \in Proc, AllocSignature(p)
      PROVE  UsersAreCounted'
  <2> DEFINE e == place[p]
  <2>1. /\ pc[p] = "allocSig" /\ Sig' = [Sig EXCEPT ![e] = arg[p]] /\ e \in Place
        /\ UNCHANGED <<SelfSharedMemory, place, UserNumber, panicked>>
        /\ pc' = [pc EXCEPT ![p] = "allocUse"]
    BY <1>0, <1>4, Zenon DEF SMInv, TypeOK, AllocSignature, Goto
  <2>2. \A q \in Proc : q # p => pc[q] \notin Critical
    BY <1>0, <2>1, OneCritical, Zenon DEF Critical
  <2>3. \A j \in Place : ~Unsettled(j)
    BY <2>1, <2>2, Zenon DEF Unsettled, Critical
  <2>4. Unsettled(e)' /\ pc'[p] # "deallocClear" /\ \A q \in Proc : q # p => pc'[q] # "deallocClear"
    <3>1. pc'[p] = "allocUse" /\ \A q \in Proc : q # p => pc'[q] = pc[q]
      BY <1>0, <2>1, Zenon DEF SMInv, TypeOK
    <3>2. QED
      BY <2>1, <2>2, <3>1, Zenon DEF Unsettled, Critical
  <2>5. \A j \in Place : j # e => Sig'[j] = Sig[j]
    BY <1>0, <2>1, Zenon DEF SMInv, TypeOK
  <2>6. Sig'[e] # 0
    BY <1>0, <2>1, Zenon DEF SMInv, TypeOK, HalfDone
  <2>7. \A j \in Place : j # e /\ Sig'[j] # 0 => Counted(j)'
    BY <1>0, <2>1, <2>3, <2>5, Zenon DEF SMInv, UsersAreCounted, Counted, Holders, GetSelf
  <2>8. \A j \in Place : Sig'[j] = 0 => UserNumber'[j] <= 0
    BY <1>0, <2>1, <2>5, <2>6, Zenon DEF SMInv, UsersAreCounted
  <2>9. Unsettled(place[p])'
    BY <2>1, <2>4, Zenon DEF Unsettled
  <2>10. \A j \in Place : Sig'[j] # 0 /\ ~Unsettled(j)' => Counted(j)'
    BY <2>1, <2>4, <2>7, Zenon DEF Unsettled
  <2>11. QED
    BY <2>4, <2>8, <2>10, Zenon DEF UsersAreCounted
<1>5. ASSUME NEW p \in Proc, AllocUser(p)
      PROVE  UsersAreCounted'
  <2> DEFINE s == arg[p]
             e == place[p]
  <2>1. /\ s \in Signature \ {0} /\ s \notin GetSelf(p) /\ 0 \in GetSelf(p)
        /\ Holders(s) = {} /\ Sig[e] = s /\ e \in Place /\ pc[p] = "allocUse"
        /\ \A q \in Proc : q # p => pc[q] \notin Critical
        /\ UserNumber' = [UserNumber EXCEPT ![e] = 1]
        /\ SelfSharedMemory' = [SelfSharedMemory EXCEPT ![p][SelfEmptyPlace(p)] = s]
        /\ pc' = [pc EXCEPT ![p] = "user"] /\ UNCHANGED <<Sig, panicked>>
    BY <1>0, <1>5, AllocUserFacts, Zenon
  <2>2. \A t : t # 0 => Holding(t) = IF t = s THEN Holders(t) \cup {p} ELSE Holders(t)
    BY <1>0, <2>1, HoldersTake, Zenon
  <2> HIDE DEF s, e
  <2>3. Holding(s) = {p} /\ Cardinality(Holding(s)) = 1
    <3>1. s # 0 /\ Holders(s) = {}
      BY <2>1, Zenon
    <3>2. Holding(s) = {p}
      BY <2>2, <3>1, Zenon
    <3>3. QED
      BY <3>2, FS_Singleton, Zenon
  <2>4. \A j \in Place : j # e => ~Unsettled(j) /\ UserNumber'[j] = UserNumber[j]
    BY <1>0, <2>1, Zenon DEF SMInv, TypeOK, Unsettled, Critical, e
  <2>5. UserNumber'[e] = 1 /\ \A j \in Place : j # e => (Sig[j] # s \/ Sig[j] = 0)
    BY <1>0, <2>1, Zenon DEF SMInv, TypeOK, GlobalTable
  <2>6. \A j \in Place : Sig[j] # 0 /\ j # e => Counted(j)
    BY <1>0, <2>4, Zenon DEF SMInv, UsersAreCounted
  <2>7. \A j \in Place : Sig[j] # 0 =>
          UserNumber'[j] = Cardinality(Holding(Sig[j])) /\ UserNumber'[j] > 0
    BY <2>1, <2>2, <2>3, <2>4, <2>5, <2>6 DEF Counted
  <2>8. \A j \in Place : Sig'[j] # 0 => Counted(j)'
    BY <2>1, <2>7, Zenon DEF Counted, Holders, Holding
  <2>9. \A q \in Proc : pc'[q] # "deallocClear"
    BY <1>0, <2>1, Zenon DEF SMInv, TypeOK, Critical
  <2>10. \A j \in Place : Sig[j] = 0 => UserNumber'[j] <= 0
    BY <1>0, <2>1, <2>4, Zenon DEF SMInv, UsersAreCounted
  <2>11. QED
    BY <2>1, <2>8, <2>9, <2>10, Zenon DEF UsersAreCounted
<1>6. ASSUME NEW p \in Proc, NEW s \in Signature, Dealloc(p, s)
      PROVE  UsersAreCounted'
  <2>0. PICK i \in Place : i = FindGlobalSharedMemory(s)
    BY <1>0, <1>6, DeallocFacts, Zenon
  <2>1. /\ s \in GetSelf(p) /\ SharedMemoryLock = None /\ i \in Place /\ Sig[i] = s /\ Sig' = Sig
        /\ UserNumber' = [UserNumber EXCEPT ![i] = @ - 1]
        /\ SelfSharedMemory' = [SelfSharedMemory EXCEPT ![p][FindSelfSharedMemory(p, s)] = 0]
    BY <1>0, <1>6, <2>0, DeallocFacts, Zenon
  <2>2. \/ panicked' = TRUE
        \/ ~LastUser(i) /\ s # 0 /\ UNCHANGED <<pc, place>>
        \/ /\ LastUser(i) /\ s # 0 /\ pc' = [pc EXCEPT ![p] = "deallocClear"]
           /\ place' = [place EXCEPT ![p] = i]
    BY <1>0, <1>6, <2>0, DeallocCases, Zenon
  <2>3. CASE panicked' = TRUE
    BY <2>3, Zenon DEF UsersAreCounted
  <2>4. SUFFICES ASSUME s # 0
                 PROVE  UsersAreCounted'
    BY <2>2, <2>3, Zenon
  <2>5. \A j \in Place : Sig[j] # 0 => Counted(j)
    BY <1>0, <2>1, SettledIsCounted, Zenon
  <2>6. \A t : t # 0 => Holding(t) = IF t = s THEN Holders(t) \ {p} ELSE Holders(t)
    BY <1>0, <2>1, HoldersDrop, Zenon
  <2>7. Cardinality(Holding(s)) = Cardinality(Holders(s)) - 1 /\ Cardinality(Holders(s)) \in Nat
    <3>1. p \in Holders(s) /\ Holders(s) \subseteq Proc
      BY <2>1, Zenon DEF Holders
    <3>2. QED
      BY <2>4, <2>6, <3>1, ProcSets, FS_RemoveElement
  <2>8. /\ UserNumber'[i] = UserNumber[i] - 1 /\ UserNumber[i] \in Int
        /\ \A j \in Place : j # i => UserNumber'[j] = UserNumber[j] /\ (Sig[j] # s \/ Sig[j] = 0)
    BY <1>0, <2>1, Zenon DEF SMInv, TypeOK, GlobalTable
  <2>9. \A j \in Place : Sig[j] # 0 /\ j # i =>
          UserNumber'[j] = Cardinality(Holding(Sig[j])) /\ UserNumber'[j] > 0
    BY <2>5, <2>6, <2>8, Zenon DEF Counted
  <2>10. \A j \in Place : Sig'[j] # 0 /\ j # i => Counted(j)'
    BY <2>1, <2>9, Zenon DEF Counted, Holders, Holding
  <2>11. \A j \in Place : Sig'[j] = 0 => UserNumber'[j] <= 0
    BY <1>0, <2>1, <2>4, <2>8, Zenon DEF SMInv, UsersAreCounted
  <2>12. \A q \in Proc : pc[q] # "deallocClear"
    BY <1>0, <2>1, OneCritical, Zenon DEF Critical
  <2>13. CASE ~LastUser(i) /\ s # 0 /\ UNCHANGED <<pc, place>>
    <3>a. UserNumber[i] = Cardinality(Holders(s))
      BY <2>1, <2>4, <2>5, Zenon DEF Counted
    <3>b. ~(UserNumber[i] - 1 <= 0)
      BY <2>13, Zenon DEF LastUser
    <3>1. UserNumber'[i] = Cardinality(Holding(s)) /\ UserNumber'[i] > 0
      BY <2>7, <2>8, <3>a, <3>b
    <3>2. Counted(i)'
      BY <2>1, <3>1, Zenon DEF Counted, Holders, Holding
    <3>3. QED
      BY <2>10, <2>11, <2>12, <2>13, <3>2, Zenon DEF UsersAreCounted
  <2>14. CASE /\ LastUser(i) /\ s # 0 /\ pc' = [pc EXCEPT ![p] = "deallocClear"]
              /\ place' = [place EXCEPT ![p] = i]
    <3>1. UserNumber[i] = 1
      BY <1>0, <2>1, <2>14, LastDrops, Zenon
    <3>2. /\ pc'[p] = "deallocClear" /\ place'[p] = i
          /\ \A q \in Proc : q # p => pc'[q] # "deallocClear"
      BY <1>0, <2>12, <2>14, Zenon DEF SMInv, TypeOK
    <3>3. Unsettled(i)' /\ UserNumber'[i] <= 0
      BY <2>8, <3>1, <3>2 DEF Unsettled
    <3>4. \A q \in Proc : pc'[q] = "deallocClear" => UserNumber'[place'[q]] <= 0
      BY <3>2, <3>3, Zenon
    <3>5. \A j \in Place : Sig'[j] # 0 /\ ~Unsettled(j)' => Counted(j)'
      BY <2>10, <3>2, Zenon DEF Unsettled
    <3>6. QED
      BY <2>11, <3>4, <3>5, Zenon DEF UsersAreCounted
  <2>15. QED
    BY <2>2, <2>3, <2>13, <2>14, Zenon
<1>7. ASSUME NEW p \in Proc, DeallocClear(p)
      PROVE  UsersAreCounted'
  <2> DEFINE e == place[p]
  <2>1. /\ pc[p] = "deallocClear" /\ Sig' = [Sig EXCEPT ![e] = 0] /\ e \in Place
        /\ UNCHANGED <<SelfSharedMemory, UserNumber, panicked>>
        /\ pc' = [pc EXCEPT ![p] = IF arg[p] = 1 THEN "exit" ELSE "user"]
    BY <1>0, <1>7, Zenon DEF SMInv, TypeOK, DeallocClear, At, Goto
  <2>2. \A q \in Proc : q # p => pc[q] \notin Critical
    BY <1>0, <2>1, OneCritical, Zenon DEF Critical
  <2>3. \A q \in Proc : pc'[q] # "deallocClear"
    BY <1>0, <2>1, <2>2, Zenon DEF SMInv, TypeOK, Critical
  <2>4. \A j \in Place : j # e => ~Unsettled(j)
    BY <2>1, <2>2, Zenon DEF Unsettled, Critical
  <2>5. Sig'[e] = 0 /\ \A j \in Place : j # e => Sig'[j] = Sig[j]
    BY <1>0, <2>1, Zenon DEF SMInv, TypeOK
  <2>6. UserNumber[e] <= 0
    BY <1>0, <2>1, Zenon DEF SMInv, UsersAreCounted
  <2> HIDE DEF e
  <2>7. \A j \in Place : Sig'[j] # 0 => Counted(j)'
    BY <1>0, <2>1, <2>4, <2>5, Zenon DEF SMInv, UsersAreCounted, Counted, Holders, GetSelf
  <2>8. \A j \in Place : Sig'[j] = 0 => UserNumber'[j] <= 0
    BY <1>0, <2>1, <2>5, <2>6, Zenon DEF SMInv, UsersAreCounted
  <2>9. QED
    BY <2>3, <2>7, <2>8, Zenon DEF UsersAreCounted
<1>8. ASSUME NEW p \in Proc, QuietStep(p)
      PROVE  UsersAreCounted'
  <2>1. /\ UNCHANGED <<Sig, SelfSharedMemory, UserNumber, panicked>>
        /\ pc[p] \notin Critical /\ pc'[p] \notin Critical
        /\ \A q \in Proc : q # p => pc'[q] = pc[q] /\ place'[q] = place[q]
    BY <1>0, <1>8, QuietFacts, Zenon
  <2>2. \A j \in Place : Unsettled(j) => Unsettled(j)'
    BY <2>1, Zenon DEF Unsettled, Critical
  <2>3. \A q \in Proc : pc'[q] = "deallocClear" => UserNumber'[place'[q]] <= 0
    BY <1>0, <2>1, Zenon DEF SMInv, UsersAreCounted, Critical
  <2>4. \A j \in Place : Sig'[j] # 0 /\ ~Unsettled(j)' => Counted(j)'
    BY <1>0, <2>1, <2>2, Zenon DEF SMInv, UsersAreCounted, Counted, Holders, GetSelf
  <2>5. QED
    BY <1>0, <2>1, <2>3, <2>4, Zenon DEF SMInv, UsersAreCounted
<1>9. QED
  BY <1>1, <1>2, <1>3, <1>4, <1>5, <1>6, <1>7, <1>8, StepCases, Zenon

(* A search goes on if what its process holds stays where it is. *)
LEMMA KeepSearch ==
  ASSUME SMInv, ptr' = ptr,
         \A q \in Proc : pc'[q] \in Searching \cup Copying =>
                           pc'[q] = pc[q] /\ arg'[q] = arg[q] /\ place'[q] = place[q],
         \A q \in Proc : pc'[q] \in Searching \cup Copying =>
                           \A t : t # 0 /\ t \in GetSelf(q) => t \in GetSelf(q)',
         \A i \in Place : Sig[i] # 0 /\ Holders(Sig[i]) # {} =>
                            Sig'[i] = Sig[i] /\ VirtualAddress'[i] = VirtualAddress[i]
  PROVE  SearchesHit'
<1>1. SUFFICES ASSUME NEW q \in Proc, pc'[q] \in Searching \cup Copying
               PROVE  arg'[q] \in Signature /\ (arg'[q] # 0 => SearchHits(q)')
  BY Zenon DEF SearchesHit
<1>2. /\ pc'[q] = pc[q] /\ arg'[q] = arg[q] /\ place'[q] = place[q] /\ place[q] \in Place
      /\ arg[q] \in Signature
  BY <1>1, Zenon DEF SMInv, TypeOK, SearchesHit
<1>3. SUFFICES ASSUME arg[q] # 0
               PROVE  SearchHits(q)'
  BY <1>2, Zenon
<1>4. SearchHits(q)
  BY <1>1, <1>2, <1>3, Zenon DEF SMInv, SearchesHit
<1>5. arg[q] \in GetSelf(q) /\ arg[q] \in GetSelf(q)'
  BY <1>1, <1>3, <1>4, Zenon DEF SearchHits
<1>6. \A i \in Place : Sig[i] = arg[q] => Sig'[i] = arg[q] /\ VirtualAddress'[i] = VirtualAddress[i]
  BY <1>3, <1>5, Zenon DEF Holders
<1>7. ASSUME pc[q] \in Searching
      PROVE  \E i \in place[q]..SHARED_MEMORY_GLOBAL : Sig'[i] = arg[q]
  <2>1. PICK i \in place[q]..SHARED_MEMORY_GLOBAL : Sig[i] = arg[q]
    BY <1>4, <1>7, Zenon DEF SearchHits
  <2>2. i \in Place
    BY <1>2, Constants DEF Place
  <2>3. QED
    BY <1>6, <2>1, <2>2, Zenon
<1>8. pc[q] \in Copying => Sig'[place[q]] = arg[q]
  BY <1>2, <1>4, <1>6, Zenon DEF SearchHits
<1>9. pc[q] = "writeEnd" => /\ VirtualAddress'[place[q]] \in Frame
                            /\ ptr'[q] = VirtualAddress'[place[q]]
  BY <1>2, <1>4, <1>6, Zenon DEF SearchHits, Copying
<1>10. QED
  BY <1>2, <1>5, <1>7, <1>8, <1>9, Zenon DEF SearchHits

(* The process that searches finds what it holds. *)
LEMMA QuietSearch ==
  ASSUME SMInv, NEW p \in Proc, QuietStep(p), pc'[p] \in Searching \cup Copying
  PROVE  /\ arg'[p] \in Signature
         /\ arg'[p] # 0 =>
              /\ arg'[p] \in GetSelf(p)
              /\ pc'[p] \in Searching => \E i \in place'[p]..SHARED_MEMORY_GLOBAL : Sig[i] = arg'[p]
              /\ pc'[p] \in Copying => Sig[place'[p]] = arg'[p]
              /\ pc'[p] = "writeEnd" => /\ VirtualAddress[place'[p]] \in Frame
                                        /\ ptr'[p] = VirtualAddress[place'[p]]
<1>1. /\ pc \in [Proc -> Label] /\ arg \in [Proc -> Signature \cup {0, 1}]
      /\ ptr \in [Proc -> Frame \cup {0}]
      /\ place \in [Proc -> Place] /\ VirtualAddress \in [Place -> Frame \cup NotPage]
  BY Zenon DEF SMInv, TypeOK
<1> USE DEF Searching, Copying
<1>2. ASSUME NEW s \in Signature, AccessStart(p, s)
      PROVE  /\ arg'[p] = s /\ place'[p] = 1 /\ s \in GetSelf(p)
             /\ pc'[p] \in Searching
             /\ arg'[p] # 0 => \E i \in 1..SHARED_MEMORY_GLOBAL : Sig[i] = arg'[p]
  <2>1. arg'[p] = s /\ place'[p] = 1 /\ s \in GetSelf(p) /\ pc'[p] \in Searching
    BY <1>1, <1>2, Zenon DEF AccessStart, At, Goto
  <2>2. s # 0 => Listed(s)
    BY <2>1, HeldAreListed, Zenon
  <2>3. QED
    BY <2>1, <2>2, Zenon DEF Listed, Place
<1>3. CASE AccessFind(p)
  <2>1. CASE Sig[place[p]] = arg[p]
    <3>1. /\ pc[p] \in Searching /\ arg' = arg /\ place' = place
          /\ pc'[p] \in {"readCopy", "writeCopy"}
      BY <1>1, <1>3, <2>1, Zenon DEF AccessFind, Goto
    <3>2. arg[p] \in Signature /\ (arg[p] # 0 => arg[p] \in GetSelf(p))
      BY <3>1, Zenon DEF SMInv, SearchesHit, SearchHits
    <3>3. QED
      BY <2>1, <3>1, <3>2, Zenon
  <2>2. CASE Sig[place[p]] # arg[p]
    <3>1. /\ pc[p] \in Searching /\ arg' = arg /\ pc' = pc
          /\ place' = [place EXCEPT ![p] = @ + 1]
      BY <1>1, <1>3, <2>2 DEF AccessFind, Return, At, Goto
    <3>2. arg[p] \in Signature /\ (arg[p] # 0 => SearchHits(p))
      BY <3>1, Zenon DEF SMInv, SearchesHit
    <3>3. place'[p] = place[p] + 1 /\ place[p] \in Nat
      BY <1>1, <3>1 DEF Place
    <3>4. \A i \in place[p]..SHARED_MEMORY_GLOBAL :
            Sig[i] = arg[p] => i \in place'[p]..SHARED_MEMORY_GLOBAL
      BY <2>2, <3>3, Constants
    <3>5. QED
      BY <3>1, <3>2, <3>4, Zenon DEF SearchHits
  <2>3. QED
    BY <2>1, <2>2, Zenon
<1>4. CASE AccessFaults(p)
  BY <1>1, <1>4, Zenon DEF AccessFaults, Goto
<1>5. CASE ReadCopy(p)
  BY <1>1, <1>5, Zenon DEF ReadCopy, Return, At, Goto
<1>6. CASE WriteCopy(p)
  <2>1. /\ pc[p] = "writeCopy" /\ pc'[p] = "writeEnd" /\ arg' = arg /\ place' = place
        /\ VirtualAddress[place[p]] \in Frame /\ ptr'[p] = VirtualAddress[place[p]]
    BY <1>1, <1>6, Zenon DEF WriteCopy, Goto
  <2>2. arg[p] \in Signature /\ (arg[p] # 0 => arg[p] \in GetSelf(p) /\ Sig[place[p]] = arg[p])
    BY <2>1, Zenon DEF SMInv, SearchesHit, SearchHits
  <2>3. QED
    BY <2>1, <2>2, Zenon
<1>7. CASE \E v \in Value : WriteEnd(p, v)
  BY <1>1, <1>7, Zenon DEF WriteEnd, Return, At, Goto
<1>8. CASE ExitStart(p)
  BY <1>1, <1>8, Zenon DEF ExitStart, Goto
<1>9. CASE ExitDone(p)
  BY <1>1, <1>9, Zenon DEF ExitDone, Return, At, Goto
<1>10. CASE \E s \in Signature : AccessStart(p, s)
  BY <1>2, <1>10, Zenon
<1>11. QED
  BY <1>3, <1>4, <1>5, <1>6, <1>7, <1>8, <1>9, <1>10, Zenon DEF QuietStep, Access

(* No search misses what its process holds. *)
LEMMA SearchStep ==
  ASSUME SMInv, Next
  PROVE  SearchesHit'
<1>0. SMInv /\ ~panicked
  BY DEF Next
<1>1. ASSUME NEW p \in Proc, Allocproc(p)
      PROVE  SearchesHit'
  <2>1. SelfSharedMemory' = SelfSharedMemory
    BY <1>0, <1>1, AllocprocKeeps
  <2>2. UNCHANGED <<pc, arg, place, ptr, Sig, VirtualAddress>>
    BY <1>1, Zenon DEF Allocproc
  <2>3. QED
    BY <1>0, <2>1, <2>2 DEF SMInv, SearchesHit, SearchHits, GetSelf
<1>2. ASSUME NEW p \in Proc, NEW s \in Signature, AllocFound(p, s)
      PROVE  SearchesHit'
  <2>1. UNCHANGED <<pc, arg, place, ptr, Sig, VirtualAddress>>
    BY <1>0, <1>2, AllocFoundFacts, Zenon
  <2>2. \A q \in Proc : \A t : t # 0 /\ t \in GetSelf(q) => t \in GetSelf(q)'
    BY <1>0, <1>2, AllocFoundFacts, SelfTakes, Zenon
  <2>3. QED
    BY <1>0, <2>1, <2>2, KeepSearch, Zenon
<1>3. ASSUME NEW p \in Proc, NEW s \in Signature, AllocNew(p, s)
      PROVE  SearchesHit'
  <2> DEFINE e == GlobalEmptyPlace
  <2>1. /\ UNCHANGED <<Sig, SelfSharedMemory, ptr>> /\ e \in Place /\ Sig[e] = 0
        /\ pc' = [pc EXCEPT ![p] = "allocSig"] /\ place' = [place EXCEPT ![p] = e]
        /\ arg' = [arg EXCEPT ![p] = s]
        /\ \E f : VirtualAddress' = [VirtualAddress EXCEPT ![e] = f]
    BY <1>0, <1>3, AllocNewFacts
  <2> HIDE DEF e
  <2>2. \A i \in Place : Sig[i] # 0 => Sig'[i] = Sig[i] /\ VirtualAddress'[i] = VirtualAddress[i]
    BY <1>0, <2>1, Zenon DEF SMInv, TypeOK
  <2>3. \A q \in Proc : pc'[q] \in Searching \cup Copying =>
                          pc'[q] = pc[q] /\ arg'[q] = arg[q] /\ place'[q] = place[q]
    BY <1>0, <2>1, Zenon DEF SMInv, TypeOK, Searching, Copying
  <2>4. \A q \in Proc : GetSelf(q)' = GetSelf(q)
    BY <2>1, Zenon DEF GetSelf
  <2>5. QED
    BY <1>0, <2>1, <2>2, <2>3, <2>4, KeepSearch, Zenon
<1>4. ASSUME NEW p \in Proc, AllocSignature(p)
      PROVE  SearchesHit'
  <2> DEFINE e == place[p]
  <2>1. /\ pc[p] = "allocSig" /\ Sig' = [Sig EXCEPT ![e] = arg[p]] /\ e \in Place
        /\ UNCHANGED <<SelfSharedMemory, arg, place, ptr, VirtualAddress>>
        /\ pc' = [pc EXCEPT ![p] = "allocUse"]
    BY <1>0, <1>4, Zenon DEF SMInv, TypeOK, AllocSignature, Goto
  <2>2. Sig[e] = 0
    BY <1>0, <2>1, Zenon DEF SMInv, HalfDone
  <2>3. \A i \in Place : Sig[i] # 0 => Sig'[i] = Sig[i] /\ VirtualAddress'[i] = VirtualAddress[i]
    BY <1>0, <2>1, <2>2, Zenon DEF SMInv, TypeOK
  <2>4. \A q \in Proc : pc'[q] \in Searching \cup Copying =>
                          pc'[q] = pc[q] /\ arg'[q] = arg[q] /\ place'[q] = place[q]
    BY <1>0, <2>1, Zenon DEF SMInv, TypeOK, Searching, Copying
  <2>5. \A q \in Proc : GetSelf(q)' = GetSelf(q)
    BY <2>1, Zenon DEF GetSelf
  <2>6. QED
    BY <1>0, <2>1, <2>3, <2>4, <2>5, KeepSearch, Zenon
<1>5. ASSUME NEW p \in Proc, AllocUser(p)
      PROVE  SearchesHit'
  <2>1. /\ UNCHANGED <<Sig, VirtualAddress, ptr>> /\ pc' = [pc EXCEPT ![p] = "user"]
        /\ arg' = [arg EXCEPT ![p] = 0] /\ place' = [place EXCEPT ![p] = 1]
    BY <1>0, <1>5, AllocUserFacts, Zenon
  <2>2. \A q \in Proc : \A t : t # 0 /\ t \in GetSelf(q) => t \in GetSelf(q)'
    BY <1>0, <1>5, AllocUserFacts, SelfTakes, Zenon
  <2>3. \A q \in Proc : pc'[q] \in Searching \cup Copying =>
                          pc'[q] = pc[q] /\ arg'[q] = arg[q] /\ place'[q] = place[q]
    BY <1>0, <2>1, Zenon DEF SMInv, TypeOK, Searching, Copying
  <2>4. QED
    BY <1>0, <2>1, <2>2, <2>3, KeepSearch, Zenon
<1>6. ASSUME NEW p \in Proc, NEW s \in Signature, Dealloc(p, s)
      PROVE  SearchesHit'
  <2>0. PICK i \in Place : i = FindGlobalSharedMemory(s)
    BY <1>0, <1>6, DeallocFacts, Zenon
  <2>1. /\ UNCHANGED <<Sig, VirtualAddress, ptr>> /\ s \in GetSelf(p) /\ pc[p] \in {"user", "exit"}
        /\ SelfSharedMemory' = [SelfSharedMemory EXCEPT ![p][FindSelfSharedMemory(p, s)] = 0]
    BY <1>0, <1>6, <2>0, DeallocFacts, Zenon
  <2>2. \/ UNCHANGED <<pc, arg, place>>
        \/ /\ pc' = [pc EXCEPT ![p] = "deallocClear"] /\ place' = [place EXCEPT ![p] = i]
           /\ arg' = [arg EXCEPT ![p] = IF pc[p] = "exit" THEN 1 ELSE 0]
    BY <1>0, <1>6, <2>0, DeallocCases, ZenonT(60)
  <2>3. \A q \in Proc : \A t : t # 0 => (t \in GetSelf(q)' <=> t \in GetSelf(q) /\ ~(q = p /\ t = s))
    BY <1>0, <2>1, SelfDrops, Zenon
  <2>4. \A q \in Proc : pc'[q] \in Searching \cup Copying =>
                          /\ pc'[q] = pc[q] /\ arg'[q] = arg[q] /\ place'[q] = place[q]
                          /\ q # p
    BY <1>0, <2>1, <2>2 DEF SMInv, TypeOK, Searching, Copying
  <2>5. \A q \in Proc : pc'[q] \in Searching \cup Copying =>
                          \A t : t # 0 /\ t \in GetSelf(q) => t \in GetSelf(q)'
    BY <2>3, <2>4, Zenon
  <2>6. QED
    BY <1>0, <2>1, <2>4, <2>5, KeepSearch
<1>7. ASSUME NEW p \in Proc, DeallocClear(p)
      PROVE  SearchesHit'
  <2> DEFINE e == place[p]
  <2>1. /\ pc[p] = "deallocClear" /\ Sig' = [Sig EXCEPT ![e] = 0] /\ e \in Place
        /\ VirtualAddress' = [VirtualAddress EXCEPT ![e] = -1] /\ UNCHANGED <<SelfSharedMemory, ptr>>
        /\ pc' = [pc EXCEPT ![p] = IF arg[p] = 1 THEN "exit" ELSE "user"]
        /\ arg' = [arg EXCEPT ![p] = 0] /\ place' = [place EXCEPT ![p] = 1]
    BY <1>0, <1>7, Zenon DEF SMInv, TypeOK, DeallocClear, At, Goto
  <2>2. Holders(Sig[e]) = {}
    BY <1>0, <2>1, Zenon DEF SMInv, HalfDone
  <2>3. \A i \in Place : i # e => Sig'[i] = Sig[i] /\ VirtualAddress'[i] = VirtualAddress[i]
    BY <1>0, <2>1, Zenon DEF SMInv, TypeOK
  <2>4. \A q \in Proc : pc'[q] \in Searching \cup Copying =>
                          pc'[q] = pc[q] /\ arg'[q] = arg[q] /\ place'[q] = place[q]
    BY <1>0, <2>1, Zenon DEF SMInv, TypeOK, Searching, Copying
  <2>5. \A q \in Proc : GetSelf(q)' = GetSelf(q)
    BY <2>1, Zenon DEF GetSelf
  <2>6. QED
    BY <1>0, <2>1, <2>2, <2>3, <2>4, <2>5, KeepSearch, Zenon
<1>8. ASSUME NEW p \in Proc, QuietStep(p)
      PROVE  SearchesHit'
  <2>1. /\ UNCHANGED <<VirtualAddress, Sig, SelfSharedMemory>>
        /\ \A q \in Proc : q # p => pc'[q] = pc[q] /\ arg'[q] = arg[q] /\ place'[q] = place[q]
        /\ \A q \in Proc : q # p => ptr'[q] = ptr[q]
    BY <1>0, <1>8, QuietFacts, Zenon
  <2>2. \A q \in Proc : GetSelf(q)' = GetSelf(q)
    BY <2>1, Zenon DEF GetSelf
  <2>3. pc'[p] \in Searching \cup Copying =>
          arg'[p] \in Signature /\ (arg'[p] # 0 => SearchHits(p)')
    BY <1>0, <1>8, <2>1, <2>2, QuietSearch, Zenon DEF SearchHits
  <2>4. \A q \in Proc : q # p => (SearchHits(q) => SearchHits(q)')
    BY <2>1, <2>2, Zenon DEF SearchHits
  <2>5. QED
    BY <1>0, <2>1, <2>3, <2>4, Zenon DEF SMInv, SearchesHit
<1>9. QED
  BY <1>1, <1>2, <1>3, <1>4, <1>5, <1>6, <1>7, <1>8, StepCases, Zenon

-----------------------------------------------------------------------------
(* The invariant holds at the start ... *)
LEMMA InitSMInv == Init => SMInv
<1> SUFFICES ASSUME Init
             PROVE  SMInv
  OBVIOUS
<1>1. 1 \in Place
  BY Constants DEF Place
<1>2. TypeOK
  <2>1. /\ VirtualAddress \in [Place -> Frame \cup NotPage] /\ Sig \in [Place -> Signature \cup {0}]
        /\ UserNumber \in [Place -> Int]
    BY DEF Init, NotPage
  <2>2. SelfSharedMemory \in [Proc -> [SelfPlace -> Signature \cup {0}]]
    BY Zenon DEF Init
  <2>3. freeFrames \subseteq Frame /\ alive \subseteq Proc /\ panicked \in BOOLEAN
    BY Zenon DEF Init
  <2>4. content \in [Frame -> Value \cup {Torn}]
    BY Zenon DEF Init
  <2>5. /\ pc \in [Proc -> Label] /\ arg \in [Proc -> Signature \cup {0, 1}]
        /\ place \in [Proc -> Place] /\ ptr \in [Proc -> Frame \cup {0}]
    BY <1>1, Zenon DEF Init, Label
  <2>6. QED
    BY <2>1, <2>2, <2>3, <2>4, <2>5, Zenon DEF TypeOK
<1>3. LockIsHeld /\ OwnTables /\ HalfDone /\ SearchesHit
  BY Zenon DEF Init, LockIsHeld, OwnTables, HalfDone, SearchesHit, Critical, Searching, Copying
<1>4. GlobalTable /\ UsersAreCounted
  BY DEF Init, GlobalTable, UsersAreCounted, NotPage
<1>5. PagesAreSeparate
  BY Constants, Zenon DEF Init, PagesAreSeparate, NotPage
<1>6. QED
  BY <1>2, <1>3, <1>4, <1>5, Zenon DEF SMInv

(* ... and every step keeps it. *)
LEMMA SMInvStep == SMInv /\ [Next]_vars => SMInv'
<1>1. ASSUME SMInv, Next
      PROVE  SMInv'
  BY <1>1, TypeStep, LockStep, OwnStep, GlobalStep, HalfStep, PagesStep, UsersStep,
     SearchStep, Zenon DEF SMInv
<1>2. ASSUME SMInv, UNCHANGED vars
      PROVE  SMInv'
  <2>1. /\ UNCHANGED <<VirtualAddress, Sig, UserNumber, SelfSharedMemory, SharedMemoryLock>>
        /\ UNCHANGED <<freeFrames, content, got, alive, pc, arg, place, ptr, panicked>>
    BY <1>2, Zenon DEF vars, tableVars
  <2>2. TypeOK' /\ LockIsHeld' /\ OwnTables' /\ PagesAreSeparate'
    BY <1>2, <2>1 DEF SMInv, TypeOK, LockIsHeld, OwnTables, PagesAreSeparate
  <2>3. GlobalTable' /\ HalfDone'
    BY <1>2, <2>1 DEF SMInv, GlobalTable, HalfDone, Listed, Holders, GetSelf
  <2>4. UsersAreCounted' /\ SearchesHit'
    BY <1>2, <2>1, Zenon
       DEF SMInv, UsersAreCounted, SearchesHit, SearchHits, Counted, Unsettled,
                        Holders, GetSelf
  <2>5. QED
    BY <2>2, <2>3, <2>4, Zenon DEF SMInv
<1>3. QED
  BY <1>1, <1>2, Zenon

(* Invariant: the two tables agree with each other and with the pages,     *)
(* between all the steps of AllocSharedMemory, DeallocSharedMemory, exit   *)
(* and the calls that read the tables without the lock.                    *)
THEOREM Invariant == Spec => []SMInv
<1>1. QED
  BY InitSMInv, SMInvStep, PTL DEF Spec

(* UsersAreTheHolders: whenever the lock is free, the user count of each   *)
(* listed page is the number of its holders, and not 0.                    *)
THEOREM UsersAreTheHolders == Spec => []UsersAreHolders
<1>1. SMInv => UsersAreHolders
  BY SettledIsCounted, Zenon DEF UsersAreHolders, Counted
<1>2. QED
  BY Invariant, <1>1, PTL

(* HeldIsAlwaysFound: a process that looks for a signature it holds finds  *)
(* its page, without the lock and whatever others do, calls with the       *)
(* signature 0 of the empty places included.                               *)
THEOREM HeldIsAlwaysFound == Spec => []HeldIsFound
<1>1. ASSUME SMInv
      PROVE  HeldIsFound
  <2>1. HeldIsListed
    <3>1. SUFFICES ASSUME NEW p \in Proc, NEW s \in GetSelf(p) \ {0}
                   PROVE  /\ Cardinality({i \in Place : Sig[i] = s}) = 1
                          /\ LET a == VirtualAddress[FindGlobalSharedMemory(s)]
                             IN a \in Frame => /\ a \notin freeFrames
                                               /\ Cardinality({i \in Place : VirtualAddress[i] = a}) = 1
      BY Zenon DEF HeldIsListed
    <3>2. PICK i \in Place : Sig[i] = s
      BY <1>1, HeldAreListed, Zenon DEF Listed
    <3>3. {j \in Place : Sig[j] = s} = {i}
      BY <1>1, <3>2, Zenon DEF SMInv, GlobalTable
    <3>4. FindGlobalSharedMemory(s) = i
      BY <1>1, <3>2, FindsThe, Zenon
    <3>5. VirtualAddress[i] \notin freeFrames
      BY <1>1, Zenon DEF SMInv, PagesAreSeparate
    <3>6. VirtualAddress[i] \in Frame =>
            {j \in Place : VirtualAddress[j] = VirtualAddress[i]} = {i}
      BY <1>1, Constants, Zenon DEF SMInv, PagesAreSeparate
    <3>7. QED
      BY <3>3, <3>4, <3>5, <3>6, FS_Singleton
  <2>2. SearchSucceeds
    BY <1>1, Zenon
       DEF SMInv, SearchesHit, SearchHits, SearchSucceeds, Searching, Copying
  <2>3. QED
    BY <2>1, <2>2, Zenon DEF HeldIsFound
<1>2. QED
  BY Invariant, <1>1, PTL

-----------------------------------------------------------------------------
(* The segments.  What a signature with holders names is in its place of   *)
(* the global table ...                                                    *)
LEMMA SegmentAt ==
  ASSUME SMInv, NEW s, s # 0, NEW i \in Place, Sig[i] = s, Holders(s) # {}
  PROVE  Segment(s) = IF VirtualAddress[i] \in Frame THEN content[VirtualAddress[i]] ELSE 0
<1>1. FindGlobalSharedMemory(s) = i /\ Listed(s)
  BY FindsThe, Zenon DEF Listed
<1>2. QED
  BY <1>1, Zenon DEF Segment

(* ... also after a step. *)
LEMMA SegmentAtNext ==
  ASSUME SMInv', NEW s, s # 0, NEW i \in Place, Sig'[i] = s, Holders(s)' # {}
  PROVE  Segment(s)' = IF VirtualAddress'[i] \in Frame THEN content'[VirtualAddress'[i]] ELSE 0
<1>1. {j \in Place : Sig'[j] = s} = {i}
  BY Zenon DEF SMInv, GlobalTable
<1>2. Min({i}) = i
  BY DEF Min, Place
<1>3. FindGlobalSharedMemory(s)' = i /\ Listed(s)'
  BY <1>1, <1>2, Zenon DEF FindGlobalSharedMemory, Listed
<1>4. QED
  BY <1>3, Zenon DEF Segment

(* A segment stays as it is when its place and its page do. *)
LEMMA SameSegment ==
  ASSUME SMInv, SMInv', NEW s, s # 0, Holders(s) # {} <=> Holders(s)' # {},
         \A i \in Place : Sig[i] = s /\ Holders(s) # {} =>
           /\ Sig'[i] = s /\ VirtualAddress'[i] = VirtualAddress[i]
           /\ VirtualAddress[i] \in Frame => content'[VirtualAddress[i]] = content[VirtualAddress[i]]
  PROVE  Segment(s)' = Segment(s)
<1>1. CASE Holders(s) = {}
  BY <1>1, Zenon DEF Segment
<1>2. CASE Holders(s) # {}
  <2>1. PICK q \in Proc : s \in GetSelf(q)
    BY <1>2, Zenon DEF Holders
  <2>2. PICK i \in Place : Sig[i] = s
    BY <2>1, HeldAreListed, Zenon DEF Listed
  <2>3. Segment(s) = IF VirtualAddress[i] \in Frame THEN content[VirtualAddress[i]] ELSE 0
    BY <1>2, <2>2, SegmentAt, Zenon
  <2>4. Segment(s)' = IF VirtualAddress'[i] \in Frame THEN content'[VirtualAddress'[i]] ELSE 0
    BY <1>2, <2>2, SegmentAtNext, Zenon
  <2>5. QED
    BY <1>2, <2>2, <2>3, <2>4, Zenon
<1>3. QED
  BY <1>1, <1>2, Zenon

(* What a step does to the segments, in the terms of SharedSegment. *)
Names == Signature \ {0}

(* A process that attaches. *)
LEMMA AttachIs ==
  ASSUME NEW p \in Proc, NEW s \in Names, p \notin Holders(s), got' = got,
         \A t \in Names : Holders(t)' = IF t = s THEN Holders(t) \cup {p} ELSE Holders(t),
         \A t \in Names : t # s \/ Holders(s) # {} => Segment(t)' = Segment(t),
         Segment(s)' \in Value \cup {Torn, 0}
  PROVE  Shared!Attach(p, s)
<1> DEFINE o == [t \in Names |-> Holders(t)]
           g == [t \in Names |-> Segment(t)]
<1>1. o' = [o EXCEPT ![s] = @ \cup {p}] /\ p \notin o[s]
  BY Zenon
<1>2. CASE Holders(s) = {}
  <2>1. g' = [g EXCEPT ![s] = Segment(s)']
    BY Zenon
  <2>2. QED
    BY <1>1, <1>2, <2>1, Zenon DEF Shared!Attach, Names
<1>3. CASE Holders(s) # {}
  <2>1. g' = g
    BY <1>3, Zenon
  <2>2. QED
    BY <1>1, <1>3, <2>1, Zenon DEF Shared!Attach, Names
<1>4. QED
  BY <1>2, <1>3, Zenon

(* The same for a process that detaches. *)
LEMMA DetachIs ==
  ASSUME NEW p \in Proc, NEW s \in Names, p \in Holders(s), got' = got,
         \A t \in Names : Holders(t)' = IF t = s THEN Holders(t) \ {p} ELSE Holders(t),
         \A t \in Names : t # s \/ Holders(s) # {p} => Segment(t)' = Segment(t)
  PROVE  Shared!Detach(p, s)
<1> DEFINE o == [t \in Names |-> Holders(t)]
           g == [t \in Names |-> Segment(t)]
<1>1. o' = [o EXCEPT ![s] = @ \ {p}] /\ p \in o[s]
  BY Zenon
<1>2. Holders(s) = {p} => Segment(s)' = 0
  BY Zenon DEF Segment
<1>3. g' = [g EXCEPT ![s] = IF o[s] = {p} THEN 0 ELSE @]
  BY <1>2, Zenon
<1>4. QED
  BY <1>1, <1>3, Zenon DEF Shared!Detach, Names

(* The same for a process that writes. *)
LEMMA WriteIs ==
  ASSUME NEW p \in Proc, NEW s \in Names, NEW v, p \in Holders(s), got' = got,
         \A t \in Names : Holders(t)' = Holders(t),
         \A t \in Names : t # s => Segment(t)' = Segment(t),
         Segment(s) # 0, Segment(s)' = v
  PROVE  Shared!WriteSegment(p, s, v)
<1> DEFINE o == [t \in Names |-> Holders(t)]
           g == [t \in Names |-> Segment(t)]
<1>1. o' = o /\ p \in o[s] /\ g[s] # 0
  OBVIOUS
<1>2. g' = [g EXCEPT ![s] = v]
  BY Zenon
<1>3. QED
  BY <1>1, <1>2, Zenon DEF Shared!WriteSegment, Names

(* The same for a step that no segment shows. *)
LEMMA StutterIs ==
  ASSUME got' = got, \A t \in Names : Holders(t)' = Holders(t),
         \A t \in Names : Segment(t)' = Segment(t)
  PROVE  UNCHANGED Shared!ssVars
BY Zenon DEF Shared!ssVars, Names

(* A write to the page of the segment that the process named. *)
LEMMA PageWrite ==
  ASSUME SMInv, SMInv', NEW p \in Proc, QuietStep(p), NEW v \in Value \cup {Torn},
         pc[p] \in {"writeCopy", "writeEnd"}, arg[p] # 0, got' = got, VirtualAddress[place[p]] \in Frame,
         content' = [content EXCEPT ![VirtualAddress[place[p]]] = v]
  PROVE  arg[p] \in Names /\ Shared!WriteSegment(p, arg[p], v)
<1>1. PICK s \in Names, i \in Place, a \in Frame :
        /\ s = arg[p] /\ i = place[p] /\ a = VirtualAddress[i]
        /\ p \in Holders(s) /\ Sig[i] = s
  <2>1. pc[p] \in Copying /\ place[p] \in Place
    BY Zenon DEF SMInv, TypeOK, Copying
  <2>2. arg[p] \in Signature /\ SearchHits(p)
    BY <2>1, Zenon DEF SMInv, SearchesHit
  <2>3. arg[p] \in Names /\ p \in Holders(arg[p]) /\ Sig[place[p]] = arg[p]
    BY <2>1, <2>2, Zenon DEF SearchHits, Names, Holders
  <2>4. QED
    BY <2>1, <2>3, Zenon
<1>2. UNCHANGED <<VirtualAddress, Sig, SelfSharedMemory>>
  BY QuietFacts, Zenon
<1>3. \A t \in Names : Holders(t)' = Holders(t)
  BY <1>2, Zenon DEF Holders, GetSelf
<1>4. /\ content'[a] = v /\ \A f \in Frame : f # a => content'[f] = content[f]
      /\ content[a] \in Value \cup {Torn}
  BY <1>1, Zenon DEF SMInv, TypeOK
<1>5. Segment(s) = content[a]
  BY <1>1, SegmentAt, Zenon DEF Names
<1>6. Segment(s)' = v
  <2>1. Holders(s)' # {} /\ Sig'[i] = s /\ VirtualAddress'[i] = a
    BY <1>1, <1>2, <1>3, Zenon
  <2>2. Segment(s)' = IF VirtualAddress'[i] \in Frame THEN content'[VirtualAddress'[i]] ELSE 0
    BY <2>1, SegmentAtNext, Zenon DEF Names
  <2>3. QED
    BY <1>4, <2>1, <2>2, Zenon
<1>7. ASSUME NEW t \in Names, t # s
      PROVE  Segment(t)' = Segment(t)
  <2>1. \A j \in Place : Sig[j] = t /\ VirtualAddress[j] \in Frame => VirtualAddress[j] # a
    BY <1>1, <1>7, Constants, Zenon DEF SMInv, PagesAreSeparate
  <2>2. QED
    BY <1>2, <1>3, <1>4, <2>1, SameSegment DEF Names
<1>8. Segment(s) # 0
  BY <1>4, <1>5, Constants, Zenon
<1>9. Shared!WriteSegment(p, s, v)
  BY <1>1, <1>3, <1>6, <1>7, <1>8, WriteIs, Zenon
<1>10. QED
  BY <1>1, <1>9, Zenon

(* A quiet step reads or writes the segment that its process named, or     *)
(* none shows it.                                                          *)
LEMMA QuietRefines ==
  ASSUME SMInv, SMInv', NEW p \in Proc, QuietStep(p), ~CopyOfNone(p)
  PROVE  SegmentStep
<1>1. UNCHANGED <<VirtualAddress, Sig, SelfSharedMemory>>
  BY QuietFacts, Zenon
<1>2. \A t \in Names : Holders(t)' = Holders(t)
  BY <1>1, Zenon DEF Holders, GetSelf
<1>3. content' = content => \A t \in Names : Segment(t)' = Segment(t)
  BY <1>1, <1>2, SameSegment, Zenon DEF Names
<1>4. CASE content' = content /\ got' = got
  BY <1>2, <1>3, <1>4, StutterIs, Zenon DEF SegmentStep
<1>5. CASE ReadCopy(p)
  <2>0. arg[p] # 0
    BY <1>5, Zenon DEF CopyOfNone
  <2>1. PICK s \in Names, i \in Place :
          /\ s = arg[p] /\ i = place[p] /\ p \in Holders(s) /\ Sig[i] = s
    BY <1>5, <2>0 DEF SMInv, TypeOK, SearchesHit, SearchHits, Copying, Names, Holders, ReadCopy
  <2>2. /\ VirtualAddress[i] \in Frame /\ content' = content
        /\ got' = [got EXCEPT ![p] = content[VirtualAddress[i]]]
    BY <1>5, <2>1, Zenon DEF SMInv, TypeOK, ReadCopy
  <2>3. Segment(s) = content[VirtualAddress[i]]
    BY <2>1, <2>2, SegmentAt, Zenon DEF Names
  <2>4. [t \in Names |-> Segment(t)]' = [t \in Names |-> Segment(t)]
    BY <1>3, <2>2, Zenon
  <2>5. [t \in Names |-> Holders(t)]' = [t \in Names |-> Holders(t)]
    BY <1>2, Zenon
  <2>6. Shared!ReadSegment(p, s)
    BY <2>1, <2>2, <2>3, <2>4, <2>5, Zenon DEF Shared!ReadSegment, Names
  <2>7. QED
    BY <1>5, <2>1, <2>6, Zenon DEF SegmentStep, Names
<1>6. CASE WriteCopy(p)
  <2>0. arg[p] # 0 /\ Torn \in Value \cup {Torn}
    BY <1>6, Zenon DEF CopyOfNone
  <2>1. /\ pc[p] = "writeCopy" /\ got' = got /\ VirtualAddress[place[p]] \in Frame
        /\ content' = [content EXCEPT ![VirtualAddress[place[p]]] = Torn]
    BY <1>6, Zenon DEF SMInv, TypeOK, WriteCopy
  <2>2. arg[p] \in Names /\ Shared!WriteSegment(p, arg[p], Torn)
    BY <2>0, <2>1, PageWrite, Zenon
  <2>3. QED
    BY <1>6, <2>2, Zenon DEF SegmentStep, Names
<1>7. ASSUME NEW v \in Value, WriteEnd(p, v)
      PROVE  SegmentStep
  <2>0. arg[p] # 0 /\ v \in Value \cup {Torn}
    BY <1>7, Zenon DEF CopyOfNone
  <2>1. /\ pc[p] = "writeEnd" /\ got' = got
        /\ content' = [content EXCEPT ![ptr[p]] = v]
    BY <1>7, Zenon DEF WriteEnd
  <2>2. VirtualAddress[place[p]] \in Frame /\ ptr[p] = VirtualAddress[place[p]]
    BY <2>0, <2>1, Zenon DEF SMInv, SearchesHit, SearchHits, Copying
  <2>3. arg[p] \in Names /\ Shared!WriteSegment(p, arg[p], v)
    BY <2>0, <2>1, <2>2, PageWrite, Zenon
  <2>4. QED
    BY <1>7, <2>3, Zenon DEF SegmentStep, Names
<1>8. QED
  BY <1>4, <1>5, <1>6, <1>7, Zenon
     DEF QuietStep, Access, AccessStart, AccessFind, AccessFaults, ExitStart, ExitDone

(* Every other step is one that SharedSegment allows to its process. *)
LEMMA StepRefines ==
  ASSUME SMInv, SMInv', Next, \A p \in Proc : ~CopyOfNone(p)
  PROVE  SegmentStep
<1>0. ~panicked
  BY Zenon DEF Next
<1>1. ASSUME NEW p \in Proc, Allocproc(p)
      PROVE  UNCHANGED Shared!ssVars
  <2>1. UNCHANGED <<VirtualAddress, Sig, SelfSharedMemory, content, got>>
    BY <1>1, AllocprocKeeps, Zenon DEF Allocproc
  <2>2. \A t \in Names : Holders(t)' = Holders(t)
    BY <2>1, Zenon DEF Holders, GetSelf
  <2>3. \A t \in Names : Segment(t)' = Segment(t)
    BY <2>1, <2>2, SameSegment, Zenon DEF Names
  <2>4. QED
    BY <2>1, <2>2, <2>3, StutterIs, Zenon
<1>2. ASSUME NEW p \in Proc, NEW s \in Signature, AllocFound(p, s)
      PROVE  SegmentStep
  <2> DEFINE i == FindGlobalSharedMemory(s)
  <2>1. /\ s \in Names /\ s \notin GetSelf(p) /\ 0 \in GetSelf(p) /\ SharedMemoryLock = None
        /\ i \in Place /\ Sig[i] = s
        /\ SelfSharedMemory' = [SelfSharedMemory EXCEPT ![p][SelfEmptyPlace(p)] = s]
        /\ UNCHANGED <<VirtualAddress, Sig, content, got>>
    BY <1>2, AllocFoundFacts, Zenon DEF Names
  <2> HIDE DEF i
  <2>2. \A t \in Names : Holding(t) = IF t = s THEN Holders(t) \cup {p} ELSE Holders(t)
    BY <2>1, HoldersTake, Zenon DEF Names
  <2>3. \A t \in Names : Holders(t)' = IF t = s THEN Holders(t) \cup {p} ELSE Holders(t)
    BY <2>2, Zenon DEF Holding, Holders
  <2>4. Holders(s) # {}
    <3>1. Counted(i)
      BY <1>0, <2>1, SettledIsCounted, Zenon DEF Names
    <3>2. QED
      BY <2>1, <3>1, FS_EmptySet DEF Counted
  <2>5. \A t \in Names : Segment(t)' = Segment(t)
    BY <2>1, <2>3, <2>4, SameSegment, Zenon DEF Names
  <2>6. Segment(s) \in Value \cup {Torn, 0}
    BY Zenon DEF Segment, SMInv, TypeOK
  <2>7. p \notin Holders(s) /\ Segment(s)' \in Value \cup {Torn, 0}
    BY <2>1, <2>5, <2>6, Zenon DEF Holders
  <2>8. Shared!Attach(p, s)
    BY <2>1, <2>3, <2>5, <2>7, AttachIs
  <2>9. QED
    BY <1>2, <2>1, <2>8, Zenon DEF SegmentStep, Names
<1>3. ASSUME NEW p \in Proc, NEW s \in Signature, AllocNew(p, s)
      PROVE  UNCHANGED Shared!ssVars
  <2> DEFINE e == GlobalEmptyPlace
  <2>1. /\ UNCHANGED <<Sig, SelfSharedMemory, content, got>> /\ e \in Place /\ Sig[e] = 0
        /\ \E f : VirtualAddress' = [VirtualAddress EXCEPT ![e] = f]
    BY <1>3, AllocNewFacts
  <2> HIDE DEF e
  <2>2. \A i \in Place : Sig[i] # 0 => VirtualAddress'[i] = VirtualAddress[i]
    BY <2>1, Zenon DEF SMInv, TypeOK
  <2>3. \A t \in Names : Holders(t)' = Holders(t)
    BY <2>1, Zenon DEF Holders, GetSelf
  <2>4. \A t \in Names : Segment(t)' = Segment(t)
    BY <2>1, <2>2, <2>3, SameSegment, Zenon DEF Names
  <2>5. QED
    BY <2>1, <2>3, <2>4, StutterIs, Zenon
<1>4. ASSUME NEW p \in Proc, AllocSignature(p)
      PROVE  UNCHANGED Shared!ssVars
  <2>1. /\ UNCHANGED <<VirtualAddress, SelfSharedMemory, content, got>>
        /\ Sig[place[p]] = 0 /\ Sig' = [Sig EXCEPT ![place[p]] = arg[p]]
    BY <1>4, Zenon DEF SMInv, HalfDone, AllocSignature
  <2>2. \A i \in Place : Sig[i] # 0 => Sig'[i] = Sig[i]
    BY <2>1, Zenon DEF SMInv, TypeOK
  <2>3. \A t \in Names : Holders(t)' = Holders(t)
    BY <2>1, Zenon DEF Holders, GetSelf
  <2>4. \A t \in Names : Segment(t)' = Segment(t)
    BY <2>1, <2>2, <2>3, SameSegment, Zenon DEF Names
  <2>5. QED
    BY <2>1, <2>3, <2>4, StutterIs, Zenon
<1>5. ASSUME NEW p \in Proc, AllocUser(p)
      PROVE  SegmentStep
  <2>1. PICK s \in Names : s = arg[p]
    BY <1>5, AllocUserFacts, Zenon DEF Names
  <2>2. /\ s \notin GetSelf(p) /\ 0 \in GetSelf(p) /\ Holders(s) = {}
        /\ SelfSharedMemory' = [SelfSharedMemory EXCEPT ![p][SelfEmptyPlace(p)] = s]
        /\ UNCHANGED <<VirtualAddress, Sig, content, got>>
    BY <1>5, <2>1, AllocUserFacts, Zenon
  <2>3. \A t \in Names : Holding(t) = IF t = s THEN Holders(t) \cup {p} ELSE Holders(t)
    BY <2>1, <2>2, HoldersTake, Zenon DEF Names
  <2>4. \A t \in Names : Holders(t)' = IF t = s THEN Holders(t) \cup {p} ELSE Holders(t)
    BY <2>3, Zenon DEF Holding, Holders
  <2>5. \A t \in Names : t # s => Segment(t)' = Segment(t)
    BY <2>2, <2>4, SameSegment, Zenon DEF Names
  <2>6. Segment(s)' \in Value \cup {Torn, 0}
    BY Zenon DEF Segment, SMInv, TypeOK
  <2>7. p \notin Holders(s)
    BY <2>2, Zenon
  <2>8. Shared!Attach(p, s)
    BY <2>2, <2>4, <2>5, <2>6, <2>7, AttachIs
  <2>9. QED
    BY <1>5, <2>1, <2>8, Zenon DEF SegmentStep, Names
<1>6. ASSUME NEW p \in Proc, NEW s \in Signature, Dealloc(p, s)
      PROVE  SegmentStep
  <2>1. /\ s \in GetSelf(p)
        /\ SelfSharedMemory' = [SelfSharedMemory EXCEPT ![p][FindSelfSharedMemory(p, s)] = 0]
        /\ UNCHANGED <<VirtualAddress, Sig, content, got>>
    BY <1>0, <1>6, DeallocFacts, Zenon
  <2>2. \A t \in Names : Holding(t) = IF t = s THEN Holders(t) \ {p} ELSE Holders(t)
    BY <2>1, HoldersDrop, Zenon DEF Names
  <2>3. \A t \in Names : Holders(t)' = IF t = s THEN Holders(t) \ {p} ELSE Holders(t)
    BY <2>2, Zenon DEF Holding, Holders
  <2>4. p \in Holders(s)
    BY <2>1, Zenon DEF Holders
  <2>5. \A t \in Names : t # s \/ Holders(s) # {p} => Segment(t)' = Segment(t)
    <3>1. \A t \in Names : t # s \/ Holders(s) # {p} => (Holders(t) # {} <=> Holders(t)' # {})
      BY <2>3, <2>4, Zenon
    <3>2. QED
      BY <2>1, <3>1, SameSegment, Zenon DEF Names
  <2>6. CASE s \in Names
    <3>1. Shared!Detach(p, s)
      BY <2>1, <2>3, <2>4, <2>5, <2>6, DetachIs
    <3>2. QED
      BY <1>6, <2>6, <3>1, Zenon DEF SegmentStep, Names
  <2>7. CASE s \notin Names
    <3>1. \A t \in Names : t # s
      BY <2>7, Zenon
    <3>2. /\ \A t \in Names : Holders(t)' = Holders(t)
          /\ \A t \in Names : Segment(t)' = Segment(t)
      BY <2>3, <2>5, <3>1, Zenon
    <3>3. QED
      BY <2>1, <3>2, StutterIs, Zenon DEF SegmentStep
  <2>8. QED
    BY <2>6, <2>7, Zenon
<1>7. ASSUME NEW p \in Proc, DeallocClear(p)
      PROVE  UNCHANGED Shared!ssVars
  <2> DEFINE e == place[p]
  <2>1. /\ UNCHANGED <<SelfSharedMemory, content, got>> /\ e \in Place /\ Holders(Sig[e]) = {}
        /\ Sig' = [Sig EXCEPT ![e] = 0] /\ VirtualAddress' = [VirtualAddress EXCEPT ![e] = -1]
    BY <1>7, Zenon DEF SMInv, TypeOK, HalfDone, DeallocClear
  <2>2. \A i \in Place : i # e => Sig'[i] = Sig[i] /\ VirtualAddress'[i] = VirtualAddress[i]
    BY <2>1, Zenon DEF SMInv, TypeOK
  <2>3. \A t \in Names : Holders(t)' = Holders(t)
    BY <2>1, Zenon DEF Holders, GetSelf
  <2>4. \A t \in Names : \A i \in Place : Sig[i] = t /\ Holders(t) # {} => i # e
    BY <2>1, Zenon
  <2>5. \A t \in Names : Segment(t)' = Segment(t)
    BY <2>1, <2>2, <2>3, <2>4, SameSegment DEF Names
  <2>6. QED
    BY <2>1, <2>3, <2>5, StutterIs, Zenon
<1>8. UNCHANGED Shared!ssVars => SegmentStep
  BY Zenon DEF SegmentStep
<1>9. QED
  BY <1>1, <1>2, <1>3, <1>4, <1>5, <1>6, <1>7, <1>8, QuietRefines, StepCases, Zenon

(* SharedSegments: the two tables and the copies made without the lock     *)
(* implement one segment per signature, common to its holders, that only   *)
(* its holders change, each with what it writes, and that stays the same   *)
(* page while it has one; copies under the signature 0 are the exception.  *)
THEOREM SharedSegments == Spec => SegmentsAreShared
<1>1. ASSUME Init
      PROVE  Shared!SSInit
  <2>1. \A t \in Names : Holders(t) = {}
    BY <1>1, Zenon DEF Init, Holders, GetSelf, Range, Names
  <2>2. \A t \in Names : Segment(t) = 0
    BY <2>1, Zenon DEF Segment
  <2>3. QED
    BY <1>1, <2>1, <2>2, Zenon DEF Init, Shared!SSInit, Names
<1>2. SMInv /\ SMInv' /\ [Next]_vars => [(\E p \in Proc : CopyOfNone(p)) \/ SegmentStep]_vars
  BY StepRefines, Zenon
<1>3. QED
  BY Invariant, <1>1, <1>2, PTL DEF Spec, SegmentsAreShared
=============================================================================
