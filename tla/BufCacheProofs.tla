--------------------------- MODULE BufCacheProofs ---------------------------
(***************************************************************************)
(* Proofs about the buffer cache and the disk queue, for any number of     *)
(* processes, buffers and blocks: the invariants of module BufCache.       *)
(***************************************************************************)
EXTENDS BufCache, FiniteSetTheorems, WellFoundedInduction, TLAPS

Place == Holding \cup {"idle", "acquiresleep", "sleep_lock", "brelse"}

TypeOK ==
  /\ blockno \in [Buf -> Block \cup {None}] /\ refcnt \in [Buf -> Int]
  /\ valid \in [Buf -> BOOLEAN] /\ dirty \in [Buf -> BOOLEAN] /\ locked \in [Buf -> BOOLEAN]
  /\ data \in [Buf -> Value] /\ disk \in [Block -> Value] /\ last \in [Block -> Value]
  /\ lru \in [Buf -> Buf] /\ idequeue \in Seq(Buf)
  /\ pc \in [Proc -> Place] /\ buf \in [Proc -> Buf \cup {None}]
  /\ block \in [Proc -> Block \cup {None}] /\ panicked \in BOOLEAN
  /\ started \in Buf \cup {None}

Users(b) == {p \in Proc : buf[p] = b}

(* refcnt counts the processes between bget and brelse. *)
RefsAreCounted ==
  /\ \A p \in Proc : buf[p] = None <=> pc[p] = "idle"
  /\ \A b \in Buf : refcnt[b] = Cardinality(Users(b))

(* A sleep lock has one holder. *)
LocksAreHeld ==
  /\ \A p \in Proc : pc[p] \in Holding => locked[buf[p]]
  /\ \A p, q \in Proc : p # q /\ pc[p] \in Holding /\ pc[q] \in Holding => buf[p] # buf[q]

Queued(b) == \E i \in 1..Len(idequeue) : idequeue[i] = b

(* A buffer is in the queue, once, while its holder waits in iderw; who    *)
(* leaves iderw has a buffer with data.                                    *)
RequestsAreQueued ==
  /\ \A i \in 1..Len(idequeue) : \E p \in Proc : pc[p] \in {"sleep", "sleep_buf"} /\ buf[p] = idequeue[i]
  /\ \A p \in Proc : pc[p] \in {"sleep", "sleep_buf"} => Queued(buf[p])
  /\ \A i, j \in 1..Len(idequeue) : idequeue[i] = idequeue[j] => i = j
  /\ \A p \in Proc : pc[p] = "iderw" => valid[buf[p]] /\ ~dirty[buf[p]]
  /\ \A p \in Proc : pc[p] \in {"use", "release"} => valid[buf[p]]

(* A block is in one buffer, which it keeps while somebody uses it. *)
BlocksAreKept ==
  /\ \A a, b \in Buf : a # b /\ blockno[a] # None => blockno[a] # blockno[b]
  /\ \A p \in Proc : buf[p] # None => blockno[buf[p]] = block[p] /\ block[p] \in Block

(* The disk works on the first request of the queue. *)
DiskIsStarted == started = IF idequeue = <<>> THEN None ELSE Head(idequeue)

(* Valid data is the newest there is, and what is not on disk is valid. *)
ContentsAreKept ==
  /\ \A b \in Buf :
       valid[b] => /\ blockno[b] \in Block
                   /\ blockno[b] \notin Faulty => data[b] = last[blockno[b]]
  /\ \A b \in Buf : dirty[b] => valid[b]
  /\ NothingIsLost

(* The list has every buffer. *)
ListIsWhole == \A b \in Buf : \E i \in Buf : lru[i] = b

BInv ==
  /\ TypeOK /\ RefsAreCounted /\ LocksAreHeld /\ RequestsAreQueued /\ BlocksAreKept
  /\ DiskIsStarted /\ ContentsAreKept /\ ListIsWhole

-----------------------------------------------------------------------------
(* Facts about the constants and the counting. *)

(* The constants, spelled out. *)
LEMMA Constants ==
  /\ IsFiniteSet(Proc) /\ Blank \in Value /\ NBUF \in Nat /\ NBUF > 0
  /\ None \notin Block /\ None \notin Buf
BY BufAssumption

(* Sets of processes are finite. *)
LEMMA ProcSets ==
  ASSUME NEW S, S \subseteq Proc
  PROVE  IsFiniteSet(S) /\ Cardinality(S) \in Nat /\ (Cardinality(S) = 0 <=> S = {})
BY Constants, FS_Subset, FS_CardinalityType, FS_EmptySet, Zenon

(* A set of numbers up to NBUF has a largest element. *)
LEMMA Largest ==
  ASSUME NEW S, S \subseteq Buf, S # {}
  PROVE  \E i \in S : \A j \in S : j <= i
<1> DEFINE T == {NBUF - i : i \in S}
<1>1. T \subseteq Nat /\ T # {}
  <2>1. \A i \in S : NBUF - i \in Nat
    BY Constants DEF Buf
  <2>2. QED
    BY <2>1, Zenon
<1>2. PICK x \in T : \A y \in T : ~(<<y, x>> \in OpToRel(<, Nat))
  BY <1>1, NatLessThanWellFounded, WFMin, Zenon
<1>3. \A y \in T : ~(y < x)
  BY <1>1, <1>2, Zenon DEF OpToRel
<1>4. PICK i \in S : x = NBUF - i
  OBVIOUS
<1>5. \A j \in S : NBUF - j \in T
  OBVIOUS
<1>6. \A j \in S : ~(NBUF - j < NBUF - i)
  BY <1>3, <1>4, <1>5, Zenon
<1>7. QED
  BY <1>6, Constants DEF Buf

(* The three ways bget ends. *)
GetFrame(p, k) ==
  /\ pc[p] = "idle" /\ ~panicked
  /\ block' = [block EXCEPT ![p] = k]
  /\ UNCHANGED <<locked, data, lru, idequeue, started, disk, last>>

Hits(p, k, b) ==
  /\ GetFrame(p, k)
  /\ blockno[b] = k
  /\ refcnt' = [refcnt EXCEPT ![b] = @ + 1]
  /\ buf' = [buf EXCEPT ![p] = b]
  /\ pc' = [pc EXCEPT ![p] = "acquiresleep"]
  /\ UNCHANGED <<blockno, valid, dirty, panicked>>

Recycles(p, k, b) ==
  /\ GetFrame(p, k)
  /\ \A c \in Buf : blockno[c] # k
  /\ refcnt[b] = 0 /\ ~dirty[b]
  /\ blockno' = [blockno EXCEPT ![b] = k]
  /\ valid' = [valid EXCEPT ![b] = FALSE]
  /\ dirty' = [dirty EXCEPT ![b] = FALSE]
  /\ refcnt' = [refcnt EXCEPT ![b] = 1]
  /\ buf' = [buf EXCEPT ![p] = b]
  /\ pc' = [pc EXCEPT ![p] = "acquiresleep"]
  /\ UNCHANGED panicked

NoBuffers(p, k) ==
  /\ GetFrame(p, k)
  /\ \A b \in Buf : ~IsVictim(b)
  /\ panicked' = TRUE
  /\ UNCHANGED <<refcnt, buf, pc, blockno, valid, dirty>>

(* bget ends in one of these ways. *)
LEMMA GetCases ==
  ASSUME NEW p \in Proc, NEW k \in Block, bget(p, k)
  PROVE  (\E b \in Buf : Hits(p, k, b) \/ Recycles(p, k, b)) \/ NoBuffers(p, k)
<1>1. GetFrame(p, k)
  BY Zenon DEF bget, GetFrame
<1>2. CASE \E b \in Buf : blockno[b] = k
  BY <1>1, <1>2, Zenon DEF bget, Hits, Counted, Goes
<1>3. CASE ~(\E b \in Buf : blockno[b] = k) /\ \E b \in Buf : IsVictim(b)
  <2>1. PICK b \in Buf : /\ IsVictim(b)
                         /\ blockno' = [blockno EXCEPT ![b] = k]
                         /\ valid' = [valid EXCEPT ![b] = FALSE]
                         /\ dirty' = [dirty EXCEPT ![b] = FALSE]
                         /\ refcnt' = [refcnt EXCEPT ![b] = 1]
                         /\ buf' = [buf EXCEPT ![p] = b]
                         /\ pc' = [pc EXCEPT ![p] = "acquiresleep"]
                         /\ panicked' = panicked
    BY <1>3, Zenon DEF bget, Goes
  <2>2. refcnt[b] = 0 /\ ~dirty[b]
    BY <2>1, Zenon DEF IsVictim, MayRecycle
  <2>3. QED
    BY <1>1, <1>3, <2>1, <2>2, Zenon DEF Recycles
<1>4. CASE ~(\E b \in Buf : blockno[b] = k) /\ ~ \E b \in Buf : IsVictim(b)
  BY <1>1, <1>4, Zenon DEF bget, NoBuffers
<1>5. QED
  BY <1>2, <1>3, <1>4, Zenon

(* The request at the head of the queue. *)
LEMMA QueueHead ==
  ASSUME BInv, idequeue # <<>>, NEW b, b = Head(idequeue)
  PROVE  /\ b \in Buf /\ blockno[b] \in Block /\ Queued(b)
         /\ Tail(idequeue) \in Seq(Buf) /\ Len(Tail(idequeue)) = Len(idequeue) - 1
         /\ \A i \in 1..(Len(idequeue) - 1) : /\ Tail(idequeue)[i] = idequeue[i + 1]
                                              /\ idequeue[i + 1] # b
<1>1. idequeue \in Seq(Buf) /\ Len(idequeue) \in Nat /\ Len(idequeue) > 0
  BY DEF BInv, TypeOK
<1>2. b = idequeue[1] /\ b \in Buf /\ 1 \in 1..Len(idequeue)
  BY <1>1
<1>3. PICK p \in Proc : pc[p] \in {"sleep", "sleep_buf"} /\ buf[p] = b
  BY <1>2 DEF BInv, RequestsAreQueued
<1>4. blockno[b] \in Block
  BY <1>2, <1>3, Constants DEF BInv, BlocksAreKept
<1>5. \A i \in 1..(Len(idequeue) - 1) : Tail(idequeue)[i] = idequeue[i + 1]
  BY <1>1
<1>6. \A i \in 1..(Len(idequeue) - 1) : idequeue[i + 1] # b
  <2>1. \A i \in 1..(Len(idequeue) - 1) : i + 1 \in 1..Len(idequeue) /\ i + 1 # 1
    BY <1>1
  <2>2. QED
    BY <1>2, <2>1 DEF BInv, RequestsAreQueued
<1>7. QED
  BY <1>1, <1>2, <1>4, <1>5, <1>6 DEF Queued

(* The handler wakes the sleepers of one request; nobody is about to sleep *)
(* while it has idelock.                                                   *)
LEMMA HandlerWakes ==
  ASSUME BInv, ideintr, NEW q \in Proc
  PROVE  /\ pc[q] # "sleep"
         /\ \/ pc'[q] = pc[q] /\ ~(pc[q] = "sleep_buf" /\ buf[q] = Head(idequeue))
            \/ pc[q] = "sleep_buf" /\ buf[q] = Head(idequeue) /\ pc'[q] = "iderw"
BY Zenon DEF ideintr, wakeRequest, IdeFree

Transfers(b, k, ok) ==
  /\ ok \/ k \in Faulty
  /\ disk' = IF ok /\ dirty[b] THEN [disk EXCEPT ![k] = data[b]] ELSE disk
  /\ data' = IF ok /\ ~dirty[b] THEN [data EXCEPT ![b] = disk[k]] ELSE data

(* What the disk has finished is the first request of the queue. *)
LEMMA HandlerTransfers ==
  ASSUME BInv, ideintr, NEW b, b = Head(idequeue), NEW k, k = blockno[b]
  PROVE  \E ok \in BOOLEAN : Transfers(b, k, ok)
<1>1. started = b
  BY Zenon DEF BInv, DiskIsStarted, ideintr
<1>2. QED
  BY <1>1, Zenon DEF ideintr, Transfers

(* releasesleep wakes those who sleep on the lock. *)
LEMMA ReleaseWakes ==
  ASSUME NEW p \in Proc, releasesleep(p)
  PROVE  /\ pc'[p] = "brelse"
         /\ \A q \in Proc : q # p => \/ pc'[q] = pc[q]
                                     \/ pc[q] = "sleep_lock" /\ pc'[q] = "acquiresleep"
BY Zenon DEF releasesleep

-----------------------------------------------------------------------------
(* Preservation, one lemma per part of the invariant. *)

(* Every step keeps the types. *)
LEMMA TypeStep ==
  ASSUME BInv, Next
  PROVE  TypeOK'
<1>0. BInv
  OBVIOUS
<1>1. ASSUME NEW p \in Proc, NEW k \in Block, NEW b \in Buf, Hits(p, k, b)
      PROVE  TypeOK'
  <2>1. pc' \in [Proc -> Place] /\ buf' \in [Proc -> Buf \cup {None}]
    BY <1>0, <1>1, Zenon DEF BInv, TypeOK, Place, Holding, Hits
  <2>2. refcnt' \in [Buf -> Int] /\ block' \in [Proc -> Block \cup {None}]
    BY <1>0, <1>1 DEF BInv, TypeOK, Hits, GetFrame
  <2>3. UNCHANGED <<blockno, valid, dirty, locked, data, lru, idequeue, started, disk, last, panicked>>
    BY <1>1, Zenon DEF Hits, GetFrame
  <2>4. QED
    BY <1>0, <2>1, <2>2, <2>3, Zenon DEF BInv, TypeOK
<1>2. ASSUME NEW p \in Proc, NEW k \in Block, NEW b \in Buf, Recycles(p, k, b)
      PROVE  TypeOK'
  <2>1. pc' \in [Proc -> Place] /\ buf' \in [Proc -> Buf \cup {None}]
    BY <1>0, <1>2, Zenon DEF BInv, TypeOK, Place, Holding, Recycles
  <2>2. refcnt' \in [Buf -> Int] /\ block' \in [Proc -> Block \cup {None}]
    BY <1>0, <1>2 DEF BInv, TypeOK, Recycles, GetFrame
  <2>3. /\ blockno' \in [Buf -> Block \cup {None}] /\ valid' \in [Buf -> BOOLEAN]
        /\ dirty' \in [Buf -> BOOLEAN]
    BY <1>0, <1>2, Zenon DEF BInv, TypeOK, Recycles
  <2>4. UNCHANGED <<locked, data, lru, idequeue, started, disk, last, panicked>>
    BY <1>2, Zenon DEF Recycles, GetFrame
  <2>5. QED
    BY <1>0, <2>1, <2>2, <2>3, <2>4, Zenon DEF BInv, TypeOK
<1>3. ASSUME NEW p \in Proc, NEW k \in Block, NoBuffers(p, k)
      PROVE  TypeOK'
  BY <1>0, <1>3, Zenon DEF BInv, TypeOK, NoBuffers, GetFrame
<1>4. ASSUME NEW p \in Proc, acquiresleep(p)
      PROVE  TypeOK'
  <2>1. buf[p] \in Buf
    BY <1>0, <1>4, Zenon DEF BInv, TypeOK, RefsAreCounted, acquiresleep
  <2>2. QED
    BY <1>0, <1>4, <2>1, Zenon DEF BInv, TypeOK, Place, Holding, acquiresleep, Goes
<1>5. ASSUME NEW p \in Proc, bread(p)
      PROVE  TypeOK'
  <2>1. buf[p] \in Buf
    BY <1>0, <1>5, Zenon DEF BInv, TypeOK, RefsAreCounted, bread
  <2>2. Append(idequeue, buf[p]) \in Seq(Buf)
    BY <1>0, <1>5, <2>1 DEF BInv, TypeOK
  <2>3. QED
    <3>1. pc' \in [Proc -> Place]
      BY <1>0, <1>5, Zenon DEF BInv, TypeOK, Place, Holding, bread, iderw, Goes
    <3>2. UNCHANGED <<bufVars, lru, disk, buf, block, last, panicked>>
      BY <1>5, Zenon DEF bread
    <3>3. idequeue' \in Seq(Buf)
      BY <1>0, <1>5, <2>2, Zenon DEF BInv, TypeOK, bread, iderw
    <3>4. started' \in {started, buf[p]}
      BY <1>5, ZenonT(40) DEF bread, iderw, idestart
    <3>5. started' \in Buf \cup {None}
      BY <1>0, <2>1, <3>4, Zenon DEF BInv, TypeOK
    <3>6. QED
      BY <1>0, <3>1, <3>2, <3>3, <3>5, Zenon DEF BInv, TypeOK, bufVars
<1>6. ASSUME ideintr
      PROVE  TypeOK'
  <2> DEFINE h == Head(idequeue)
  <2>1. h \in Buf /\ blockno[h] \in Block /\ Tail(idequeue) \in Seq(Buf)
    BY <1>0, <1>6, QueueHead, Zenon DEF ideintr
  <2>2. pc' \in [Proc -> Place]
    BY <1>0, <1>6, Zenon DEF BInv, TypeOK, Place, Holding, ideintr, wakeRequest
  <2>3. data' \in [Buf -> Value] /\ disk' \in [Block -> Value]
    <3>1. PICK ok \in BOOLEAN : Transfers(h, blockno[h], ok)
      BY <1>0, <1>6, HandlerTransfers, Zenon
    <3>2. QED
      BY <1>0, <2>1, <3>1, ZenonT(40) DEF BInv, TypeOK, Transfers
  <2>4. started' \in Buf \cup {None}
    <3>1. Tail(idequeue) # <<>> => Head(Tail(idequeue)) \in Buf
      BY <2>1
    <3>2. QED
      BY <1>6, <3>1, Zenon DEF ideintr, startNext
  <2>5. /\ idequeue' = Tail(idequeue)
        /\ valid' = [valid EXCEPT ![h] = TRUE] /\ dirty' = [dirty EXCEPT ![h] = FALSE]
        /\ UNCHANGED <<blockno, refcnt, locked, lru, buf, block, last, panicked>>
    BY <1>6, Zenon DEF ideintr
  <2>6. QED
    BY <1>0, <2>1, <2>2, <2>3, <2>4, <2>5, Zenon DEF BInv, TypeOK
<1>7. ASSUME NEW p \in Proc, iderwWoken(p)
      PROVE  TypeOK'
  BY <1>0, <1>7, Zenon DEF BInv, TypeOK, Place, Holding, iderwWoken, bufVars, Goes
<1>8. ASSUME NEW p \in Proc, NEW v \in Value, bwrite(p, v)
      PROVE  TypeOK'
  <2>1. buf[p] \in Buf
    BY <1>0, <1>8, Zenon DEF BInv, TypeOK, RefsAreCounted, bwrite, Fill
  <2>2. Append(idequeue, buf[p]) \in Seq(Buf)
    BY <1>0, <1>8, <2>1 DEF BInv, TypeOK
  <2>3. QED
    BY <1>0, <1>8, <2>2, Zenon DEF BInv, TypeOK, Place, Holding, bwrite, Fill, iderw, idestart, Goes
<1>9. ASSUME NEW p \in Proc, NEW v \in Value, log_write(p, v)
      PROVE  TypeOK'
  BY <1>0, <1>9, Zenon DEF BInv, TypeOK, Place, Holding, log_write, Fill, Goes
<1>10. ASSUME NEW p \in Proc, install_trans(p)
      PROVE  TypeOK'
  <2>1. buf[p] \in Buf
    BY <1>0, <1>10, Zenon DEF BInv, TypeOK, RefsAreCounted, install_trans
  <2>2. Append(idequeue, buf[p]) \in Seq(Buf)
    BY <1>0, <1>10, <2>1 DEF BInv, TypeOK
  <2>3. QED
    BY <1>0, <1>10, <2>2, Zenon
       DEF BInv, TypeOK, Place, Holding, install_trans, bufVars, iderw, idestart, Goes
<1>11. ASSUME NEW p \in Proc, Read(p)
      PROVE  TypeOK'
  BY <1>0, <1>11, Zenon DEF BInv, TypeOK, Place, Holding, Read, bufVars, Goes
<1>12. ASSUME NEW p \in Proc, releasesleep(p)
      PROVE  TypeOK'
  <2>1. pc' \in [Proc -> Place]
    BY <1>0, <1>12, Zenon DEF BInv, TypeOK, Place, Holding, releasesleep
  <2>2. QED
    BY <1>0, <1>12, <2>1, Zenon DEF BInv, TypeOK, releasesleep
<1>13. ASSUME NEW p \in Proc, brelse(p)
      PROVE  TypeOK'
  <2>1. buf[p] \in Buf
    BY <1>0, <1>13, Zenon DEF BInv, TypeOK, RefsAreCounted, brelse
  <2>2. toFront(buf[p]) \in [Buf -> Buf]
    <3>1. lru \in [Buf -> Buf]
      BY <1>0, Zenon DEF BInv, TypeOK
    <3>2. \A i \in Buf : i # 1 => i - 1 \in Buf
      BY Constants DEF Buf
    <3>3. QED
      BY <2>1, <3>1, <3>2, Zenon DEF toFront
  <2>3. pc' \in [Proc -> Place] /\ buf' \in [Proc -> Buf \cup {None}]
    BY <1>0, <1>13, Zenon DEF BInv, TypeOK, Place, brelse, Goes
  <2>4. /\ refcnt' \in [Buf -> Int] /\ block' \in [Proc -> Block \cup {None}]
        /\ lru' \in [Buf -> Buf]
    BY <1>0, <1>13, <2>1, <2>2 DEF BInv, TypeOK, brelse
  <2>5. UNCHANGED <<blockno, valid, dirty, locked, data, idequeue, started, disk, last, panicked>>
    BY <1>13, Zenon DEF brelse
  <2>6. QED
    BY <1>0, <2>3, <2>4, <2>5, Zenon DEF BInv, TypeOK
<1>14. ASSUME NEW p \in Proc, sleep(p)
      PROVE  TypeOK'
  BY <1>0, <1>14, Zenon DEF BInv, TypeOK, Place, Holding, sleep, bufVars, Goes
<1>15. QED
  BY <1>1, <1>2, <1>3, <1>4, <1>5, <1>6, <1>7, <1>8, <1>9, <1>10, <1>11, <1>12, <1>13, <1>14,
     GetCases, Zenon
     DEF Next, Step

(* refcnt counts the users. *)
LEMMA RefsStep ==
  ASSUME BInv, Next
  PROVE  RefsAreCounted'
<1>0. BInv
  OBVIOUS
<1>1. ASSUME NEW p \in Proc, NEW k \in Block, NEW b \in Buf, Hits(p, k, b)
      PROVE  RefsAreCounted'
  <2>1. p \notin Users(b) /\ Users(b) \subseteq Proc /\ Users(b)' = Users(b) \cup {p}
    BY <1>0, <1>1, Constants DEF BInv, TypeOK, RefsAreCounted, Users, Hits, GetFrame
  <2>2. \A c \in Buf : c # b => Users(c)' = Users(c)
    BY <1>0, <1>1, Constants DEF BInv, TypeOK, RefsAreCounted, Users, Hits, GetFrame
  <2>3. Cardinality(Users(b)') = Cardinality(Users(b)) + 1
    BY <2>1, ProcSets, FS_AddElement, Zenon
  <2>4. QED
    BY <1>0, <1>1, <2>2, <2>3, Constants, Zenon DEF BInv, TypeOK, RefsAreCounted, Hits, GetFrame
<1>2. ASSUME NEW p \in Proc, NEW k \in Block, NEW b \in Buf, Recycles(p, k, b)
      PROVE  RefsAreCounted'
  <2>1. Users(b) = {}
    BY <1>0, <1>2, ProcSets, Zenon DEF BInv, RefsAreCounted, Users, Recycles
  <2>2. Users(b)' = {p}
    BY <1>0, <1>2, <2>1, Zenon DEF BInv, TypeOK, Users, Recycles
  <2>3. \A c \in Buf : c # b => Users(c)' = Users(c)
    BY <1>0, <1>2, Constants DEF BInv, TypeOK, RefsAreCounted, Users, Recycles, GetFrame
  <2>4. Cardinality(Users(b)') = 1
    BY <2>2, FS_Singleton, Zenon
  <2>5. QED
    BY <1>0, <1>2, <2>3, <2>4, Constants DEF BInv, TypeOK, RefsAreCounted, Recycles, GetFrame
<1>3. ASSUME NEW p \in Proc, acquiresleep(p)
      PROVE  RefsAreCounted'
  <2>1. UNCHANGED <<buf, refcnt>>
    BY <1>3, Zenon DEF acquiresleep, Goes
  <2>2. \A q \in Proc : pc'[q] = "idle" <=> pc[q] = "idle"
    BY <1>0, <1>3, Zenon DEF BInv, TypeOK, acquiresleep, Goes
  <2>3. QED
    BY <1>0, <1>3, <2>1, <2>2, Zenon DEF BInv, RefsAreCounted, Users
<1>4. ASSUME NEW p \in Proc, bread(p)
      PROVE  RefsAreCounted'
  <2>1. UNCHANGED <<buf, refcnt>>
    BY <1>4, Zenon DEF bread, iderw, bufVars, Goes
  <2>2. \A q \in Proc : pc'[q] = "idle" <=> pc[q] = "idle"
    BY <1>0, <1>4 DEF BInv, TypeOK, bread, iderw, bufVars, Goes
  <2>3. QED
    BY <1>0, <1>4, <2>1, <2>2 DEF BInv, RefsAreCounted, Users
<1>5. ASSUME ideintr
      PROVE  RefsAreCounted'
  <2>1. UNCHANGED <<buf, refcnt>>
    BY <1>5, Zenon DEF ideintr
  <2>2. \A q \in Proc : pc'[q] = "idle" <=> pc[q] = "idle"
    BY <1>0, <1>5, HandlerWakes, Zenon
  <2>3. QED
    BY <1>0, <1>5, <2>1, <2>2, Zenon DEF BInv, RefsAreCounted, Users
<1>6. ASSUME NEW p \in Proc, iderwWoken(p)
      PROVE  RefsAreCounted'
  <2>1. UNCHANGED <<buf, refcnt>>
    BY <1>6, Zenon DEF iderwWoken, bufVars, Goes
  <2>2. \A q \in Proc : pc'[q] = "idle" <=> pc[q] = "idle"
    BY <1>0, <1>6, Zenon DEF BInv, TypeOK, iderwWoken, bufVars, Goes
  <2>3. QED
    BY <1>0, <1>6, <2>1, <2>2 DEF BInv, RefsAreCounted, Users
<1>7. ASSUME NEW p \in Proc, NEW v \in Value, bwrite(p, v)
      PROVE  RefsAreCounted'
  <2>1. UNCHANGED <<buf, refcnt>>
    BY <1>7, Zenon DEF bwrite, Fill, iderw, Goes
  <2>2. \A q \in Proc : pc'[q] = "idle" <=> pc[q] = "idle"
    BY <1>0, <1>7, Zenon DEF BInv, TypeOK, bwrite, Fill, iderw, Goes
  <2>3. QED
    BY <1>0, <1>7, <2>1, <2>2, Zenon DEF BInv, RefsAreCounted, Users
<1>8. ASSUME NEW p \in Proc, NEW v \in Value, log_write(p, v)
      PROVE  RefsAreCounted'
  <2>1. UNCHANGED <<buf, refcnt>>
    BY <1>8, Zenon DEF log_write, Fill, Goes
  <2>2. \A q \in Proc : pc'[q] = "idle" <=> pc[q] = "idle"
    BY <1>0, <1>8, Zenon DEF BInv, TypeOK, log_write, Fill, Goes
  <2>3. QED
    BY <1>0, <1>8, <2>1, <2>2 DEF BInv, RefsAreCounted, Users
<1>9. ASSUME NEW p \in Proc, install_trans(p)
      PROVE  RefsAreCounted'
  <2>1. UNCHANGED <<buf, refcnt>>
    BY <1>9, Zenon DEF install_trans, iderw, bufVars, Goes
  <2>2. \A q \in Proc : pc'[q] = "idle" <=> pc[q] = "idle"
    BY <1>0, <1>9, Zenon DEF BInv, TypeOK, install_trans, iderw, bufVars, Goes
  <2>3. QED
    BY <1>0, <1>9, <2>1, <2>2 DEF BInv, RefsAreCounted, Users
<1>10. ASSUME NEW p \in Proc, Read(p)
      PROVE  RefsAreCounted'
  <2>1. UNCHANGED <<buf, refcnt>>
    BY <1>10, Zenon DEF Read, bufVars, Goes
  <2>2. \A q \in Proc : pc'[q] = "idle" <=> pc[q] = "idle"
    BY <1>0, <1>10, Zenon DEF BInv, TypeOK, Read, bufVars, Goes
  <2>3. QED
    BY <1>0, <1>10, <2>1, <2>2 DEF BInv, RefsAreCounted, Users
<1>11. ASSUME NEW p \in Proc, releasesleep(p)
      PROVE  RefsAreCounted'
  <2>1. UNCHANGED <<buf, refcnt>> /\ pc[p] = "release"
    BY <1>11, Zenon DEF releasesleep
  <2>2. \A q \in Proc : pc'[q] = "idle" <=> pc[q] = "idle"
    BY <1>0, <1>11, <2>1, ReleaseWakes, Zenon
  <2>3. QED
    BY <1>0, <1>11, <2>1, <2>2, Zenon DEF BInv, RefsAreCounted, Users
<1>12. ASSUME NEW p \in Proc, brelse(p)
      PROVE  RefsAreCounted'
  <2>1. PICK b \in Buf : b = buf[p]
    BY <1>0, <1>12, Zenon DEF BInv, TypeOK, RefsAreCounted, brelse
  <2>2. /\ refcnt' = [refcnt EXCEPT ![b] = @ - 1] /\ buf' = [buf EXCEPT ![p] = None]
        /\ pc' = [pc EXCEPT ![p] = "idle"]
        /\ refcnt \in [Buf -> Int] /\ buf \in [Proc -> Buf \cup {None}] /\ pc \in [Proc -> Place]
    BY <1>0, <1>12, <2>1, Zenon DEF BInv, TypeOK, brelse, Goes
  <2>3. p \in Users(b) /\ Users(b) \subseteq Proc /\ Users(b)' = Users(b) \ {p}
    BY <2>1, <2>2, Constants, Zenon DEF Users
  <2>4. \A c \in Buf : c # b => Users(c)' = Users(c)
    BY <2>1, <2>2, Constants, Zenon DEF Users
  <2>5. Cardinality(Users(b)') = Cardinality(Users(b)) - 1
    BY <2>3, ProcSets, FS_RemoveElement, Zenon
  <2>6. \A c \in Buf : refcnt'[c] = Cardinality(Users(c)')
    BY <1>0, <2>2, <2>4, <2>5, Zenon DEF BInv, RefsAreCounted
  <2>7. \A q \in Proc : buf'[q] = None <=> pc'[q] = "idle"
    BY <1>0, <2>2, Zenon DEF BInv, RefsAreCounted
  <2>8. QED
    BY <2>6, <2>7, Zenon DEF RefsAreCounted
<1>13. ASSUME UNCHANGED <<buf, refcnt, pc>>
      PROVE  RefsAreCounted'
  BY <1>0, <1>13, Zenon DEF BInv, RefsAreCounted, Users
<1>14. ASSUME NEW p \in Proc, sleep(p)
      PROVE  RefsAreCounted'
  <2>1. UNCHANGED <<buf, refcnt>>
    BY <1>14, Zenon DEF sleep, bufVars, Goes
  <2>2. \A q \in Proc : pc'[q] = "idle" <=> pc[q] = "idle"
    BY <1>0, <1>14, Zenon DEF BInv, TypeOK, sleep, bufVars, Goes
  <2>3. QED
    BY <1>0, <1>14, <2>1, <2>2, Zenon DEF BInv, RefsAreCounted, Users
<1>15. QED
  BY <1>1, <1>2, <1>3, <1>4, <1>5, <1>6, <1>7, <1>8, <1>9, <1>10, <1>11, <1>12, <1>13, <1>14,
     GetCases, Zenon
     DEF Next, Step, NoBuffers, GetFrame

(* A sleep lock has one holder. *)
LEMMA LocksStep ==
  ASSUME BInv, Next
  PROVE  LocksAreHeld'
<1>0. BInv
  OBVIOUS
<1>1. ASSUME NEW p \in Proc, NEW k \in Block, NEW b \in Buf, Hits(p, k, b)
      PROVE  LocksAreHeld'
  BY <1>0, <1>1, Zenon DEF BInv, TypeOK, LocksAreHeld, Holding, Hits, GetFrame
<1>2. ASSUME NEW p \in Proc, NEW k \in Block, NEW b \in Buf, Recycles(p, k, b)
      PROVE  LocksAreHeld'
  BY <1>0, <1>2, Zenon DEF BInv, TypeOK, LocksAreHeld, Holding, Recycles, GetFrame
<1>3. ASSUME NEW p \in Proc, acquiresleep(p)
      PROVE  LocksAreHeld'
  <2>1. CASE ~locked[buf[p]]
    <3>1. \A q \in Proc : pc[q] \in Holding => buf[q] # buf[p]
      BY <1>0, <1>3, <2>1, Zenon DEF BInv, LocksAreHeld
    <3>2. buf[p] \in Buf
      BY <1>0, <1>3 DEF BInv, TypeOK, RefsAreCounted, acquiresleep
    <3>3. /\ locked' = [locked EXCEPT ![buf[p]] = TRUE] /\ pc' = [pc EXCEPT ![p] = "bread"]
          /\ buf' = buf
      BY <1>3, <2>1, Zenon DEF acquiresleep, IsFree, Goes
    <3>4. QED
      <4>1. /\ pc'[p] = "bread" /\ \A q \in Proc : q # p => pc'[q] = pc[q]
            /\ locked'[buf[p]] = TRUE /\ \A c \in Buf : locked[c] => locked'[c]
        BY <1>0, <3>2, <3>3, Zenon DEF BInv, TypeOK
      <4>2. \A q \in Proc : pc[q] \in Holding => buf[q] \in Buf
        BY <1>0, Zenon DEF BInv, TypeOK, RefsAreCounted, Holding
      <4>3. \A q \in Proc : pc'[q] \in Holding => locked'[buf'[q]]
        BY <1>0, <3>3, <4>1, <4>2, Zenon DEF BInv, LocksAreHeld
      <4>4. \A q, r \in Proc : q # r /\ pc'[q] \in Holding /\ pc'[r] \in Holding
                                 => buf'[q] # buf'[r]
        BY <1>0, <3>1, <3>3, <4>1 DEF BInv, LocksAreHeld
      <4>5. QED
        BY <4>3, <4>4, Zenon DEF LocksAreHeld
  <2>2. CASE locked[buf[p]]
    <3>1. UNCHANGED <<locked, buf>> /\ pc' = [pc EXCEPT ![p] = "sleep_lock"]
      BY <1>3, <2>2, Zenon DEF acquiresleep, IsFree, Goes
    <3>2. \A q \in Proc : pc'[q] \in Holding => pc[q] \in Holding
      BY <1>0, <3>1, Zenon DEF BInv, TypeOK, Holding
    <3>3. QED
      BY <1>0, <3>1, <3>2, Zenon DEF BInv, LocksAreHeld
  <2>3. QED
    BY <2>1, <2>2, Zenon
<1>4. ASSUME NEW p \in Proc, bread(p)
      PROVE  LocksAreHeld'
  BY <1>0, <1>4, ZenonT(40) DEF BInv, TypeOK, LocksAreHeld, Holding, bread, iderw, bufVars, Goes
<1>5. ASSUME ideintr
      PROVE  LocksAreHeld'
  <2>1. UNCHANGED <<buf, locked>>
    BY <1>5, Zenon DEF ideintr
  <2>2. \A q \in Proc : pc'[q] \in Holding => pc[q] \in Holding
    BY <1>0, <1>5, HandlerWakes, Zenon DEF Holding
  <2>3. QED
    BY <1>0, <1>5, <2>1, <2>2, Zenon DEF BInv, LocksAreHeld
<1>6. ASSUME NEW p \in Proc, iderwWoken(p)
      PROVE  LocksAreHeld'
  BY <1>0, <1>6 DEF BInv, TypeOK, LocksAreHeld, Holding, iderwWoken, bufVars, Goes
<1>7. ASSUME NEW p \in Proc, NEW v \in Value, bwrite(p, v)
      PROVE  LocksAreHeld'
  BY <1>0, <1>7 DEF BInv, TypeOK, LocksAreHeld, Holding, bwrite, Fill, iderw, Goes
<1>8. ASSUME NEW p \in Proc, NEW v \in Value, log_write(p, v)
      PROVE  LocksAreHeld'
  BY <1>0, <1>8 DEF BInv, TypeOK, LocksAreHeld, Holding, log_write, Fill, Goes
<1>9. ASSUME NEW p \in Proc, install_trans(p)
      PROVE  LocksAreHeld'
  BY <1>0, <1>9 DEF BInv, TypeOK, LocksAreHeld, Holding, install_trans, iderw, bufVars, Goes
<1>10. ASSUME NEW p \in Proc, Read(p)
      PROVE  LocksAreHeld'
  BY <1>0, <1>10 DEF BInv, TypeOK, LocksAreHeld, Holding, Read, bufVars, Goes
<1>11. ASSUME NEW p \in Proc, releasesleep(p)
      PROVE  LocksAreHeld'
  <2>1. pc[p] = "release" /\ buf' = buf /\ locked' = [locked EXCEPT ![buf[p]] = FALSE]
    BY <1>11, Zenon DEF releasesleep
  <2>2. \A q \in Proc : pc'[q] \in Holding => pc[q] \in Holding /\ q # p
    BY <1>0, <1>11, <2>1, ReleaseWakes, Zenon DEF Holding
  <2>3. \A q \in Proc : pc'[q] \in Holding => buf[q] # buf[p] /\ locked[buf[q]]
    BY <1>0, <1>11, <2>1, <2>2, Zenon DEF BInv, LocksAreHeld, Holding
  <2>4. \A q \in Proc : pc'[q] \in Holding => locked'[buf[q]]
    BY <1>0, <1>11, <2>1, <2>3 DEF BInv, TypeOK, LocksAreHeld
  <2>5. QED
    BY <1>0, <1>11, <2>1, <2>2, <2>4, Zenon DEF BInv, LocksAreHeld
<1>12. ASSUME NEW p \in Proc, brelse(p)
      PROVE  LocksAreHeld'
  BY <1>0, <1>12, Zenon DEF BInv, TypeOK, LocksAreHeld, Holding, brelse, Goes
<1>13. ASSUME UNCHANGED <<buf, locked, pc>>
      PROVE  LocksAreHeld'
  BY <1>0, <1>13, Zenon DEF BInv, LocksAreHeld
<1>14. ASSUME NEW p \in Proc, sleep(p)
      PROVE  LocksAreHeld'
  <2>1. UNCHANGED <<locked, buf>>
    BY <1>14, Zenon DEF sleep, bufVars, Goes
  <2>2. \A q \in Proc : pc'[q] \in Holding => pc[q] \in Holding
    BY <1>0, <1>14, Zenon DEF BInv, TypeOK, Holding, sleep, Goes
  <2>3. QED
    BY <1>0, <2>1, <2>2, Zenon DEF BInv, LocksAreHeld
<1>15. QED
  BY <1>1, <1>2, <1>3, <1>4, <1>5, <1>6, <1>7, <1>8, <1>9, <1>10, <1>11, <1>12, <1>13, <1>14,
     GetCases, Zenon
     DEF Next, Step, NoBuffers, GetFrame

(* A request added to the queue. *)
LEMMA Enqueue ==
  ASSUME BInv, NEW p \in Proc, NEW b \in Buf, buf[p] = b, ~Queued(b),
         idequeue' = Append(idequeue, b), pc' = [pc EXCEPT ![p] = "sleep"],
         UNCHANGED <<buf, valid>>,
         \A c \in Buf : c # b => dirty'[c] = dirty[c],
         \A q \in Proc : q # p /\ pc[q] = "iderw" => buf[q] # b /\ buf[q] \in Buf
  PROVE  RequestsAreQueued'
<1>1. idequeue \in Seq(Buf) /\ pc \in [Proc -> Place] /\ Len(idequeue) \in Nat
  BY DEF BInv, TypeOK
<1>2. /\ Len(idequeue') = Len(idequeue) + 1
      /\ idequeue'[Len(idequeue) + 1] = b
      /\ \A i \in 1..Len(idequeue) : idequeue'[i] = idequeue[i]
  BY <1>1
<1>3. pc'[p] \in {"sleep", "sleep_buf"} /\ \A q \in Proc : q # p => pc'[q] = pc[q]
  BY <1>1, Zenon
<1>4. \A i \in 1..Len(idequeue) : idequeue[i] # b
  BY Zenon DEF Queued
<1>5. \A i \in 1..Len(idequeue)' : i \in 1..Len(idequeue) \/ i = Len(idequeue) + 1
  BY <1>1, <1>2
<1>6. \A i \in 1..Len(idequeue)' : \E q \in Proc : pc'[q] \in {"sleep", "sleep_buf"} /\ buf'[q] = idequeue'[i]
  <2>1. ASSUME NEW i \in 1..Len(idequeue)
        PROVE  \E q \in Proc : pc'[q] \in {"sleep", "sleep_buf"} /\ buf'[q] = idequeue'[i]
    <3>1. PICK q \in Proc : pc[q] \in {"sleep", "sleep_buf"} /\ buf[q] = idequeue[i]
      BY Zenon DEF BInv, RequestsAreQueued
    <3>2. pc'[q] \in {"sleep", "sleep_buf"}
      BY <1>3, <3>1, Zenon
    <3>3. QED
      BY <1>2, <3>1, <3>2, Zenon
  <2>2. QED
    BY <1>2, <1>3, <1>5, <2>1
<1>7. \A q \in Proc : pc'[q] \in {"sleep", "sleep_buf"} => Queued(buf[q])'
  <2>1. \A i \in 1..Len(idequeue) : i \in 1..Len(idequeue)'
    BY <1>1, <1>2
  <2>2. Len(idequeue) + 1 \in 1..Len(idequeue)'
    BY <1>1, <1>2
  <2>3. \A q \in Proc : q # p /\ pc'[q] \in {"sleep", "sleep_buf"} => Queued(buf[q])
    BY <1>3, Zenon DEF BInv, RequestsAreQueued
  <2>4. \A q \in Proc : q # p /\ pc'[q] \in {"sleep", "sleep_buf"} => Queued(buf[q])'
    BY <1>2, <2>1, <2>3 DEF Queued
  <2>5. Queued(buf[p])'
    BY <1>2, <2>2, Zenon DEF Queued
  <2>6. QED
    BY <2>4, <2>5, Zenon
<1>8. \A i, j \in 1..Len(idequeue)' : idequeue'[i] = idequeue'[j] => i = j
  BY <1>2, <1>4, <1>5 DEF BInv, RequestsAreQueued
<1>9. \A q \in Proc : pc'[q] = "iderw" => valid'[buf'[q]] /\ ~dirty'[buf'[q]]
  BY <1>3 DEF BInv, RequestsAreQueued
<1>10. \A q \in Proc : pc'[q] \in {"use", "release"} => valid'[buf'[q]]
  BY <1>3, Zenon DEF BInv, RequestsAreQueued
<1>11. QED
  BY <1>6, <1>7, <1>8, <1>9, <1>10, Zenon DEF RequestsAreQueued

(* A buffer is queued while its holder sleeps. *)
LEMMA RequestsStep ==
  ASSUME BInv, Next
  PROVE  RequestsAreQueued'
<1>0. BInv
  OBVIOUS
<1>1. ASSUME NEW p \in Proc, NEW k \in Block, NEW b \in Buf, Hits(p, k, b)
      PROVE  RequestsAreQueued'
  <2>1. /\ pc[p] = "idle" /\ pc'[p] = "acquiresleep" /\ UNCHANGED idequeue
        /\ \A q \in Proc : q # p => pc'[q] = pc[q] /\ buf'[q] = buf[q]
    BY <1>0, <1>1, Zenon DEF BInv, TypeOK, Hits, GetFrame
  <2>2. UNCHANGED <<valid, dirty>>
    BY <1>1, Zenon DEF Hits
  <2>3. \A i \in 1..Len(idequeue) : \E q \in Proc : pc'[q] \in {"sleep", "sleep_buf"} /\ buf'[q] = idequeue[i]
    <3>1. TAKE i \in 1..Len(idequeue)
    <3>2. PICK q \in Proc : pc[q] \in {"sleep", "sleep_buf"} /\ buf[q] = idequeue[i]
      BY <1>0, Zenon DEF BInv, RequestsAreQueued
    <3>3. QED
      BY <2>1, <3>2, Zenon
  <2>4. \A q \in Proc : pc'[q] \in {"sleep", "sleep_buf"} => Queued(buf[q])' /\ q # p
    BY <1>0, <2>1 DEF BInv, RequestsAreQueued, Queued
  <2>5. \A i, j \in 1..Len(idequeue) : idequeue[i] = idequeue[j] => i = j
    BY <1>0, Zenon DEF BInv, RequestsAreQueued
  <2>6. \A q \in Proc : pc'[q] = "iderw" => valid'[buf'[q]] /\ ~dirty'[buf'[q]]
    BY <1>0, <2>1, <2>2, Zenon DEF BInv, RequestsAreQueued
  <2>7. \A q \in Proc : pc'[q] \in {"use", "release"} => valid'[buf'[q]]
    BY <1>0, <2>1, <2>2, Zenon DEF BInv, RequestsAreQueued
  <2>8. QED
    BY <2>1, <2>3, <2>4, <2>5, <2>6, <2>7 DEF RequestsAreQueued
<1>2. ASSUME NEW p \in Proc, NEW k \in Block, NEW b \in Buf, Recycles(p, k, b)
      PROVE  RequestsAreQueued'
  <2>1. /\ pc[p] = "idle" /\ pc'[p] = "acquiresleep" /\ UNCHANGED idequeue
        /\ \A q \in Proc : q # p => pc'[q] = pc[q] /\ buf'[q] = buf[q]
    BY <1>0, <1>2, Zenon DEF BInv, TypeOK, Recycles, GetFrame
  <2>2. \A q \in Proc : q # p /\ pc[q] # "idle" => /\ valid'[buf[q]] = valid[buf[q]]
                                                /\ dirty'[buf[q]] = dirty[buf[q]]
    <3>1. Users(b) = {}
      BY <1>0, <1>2, ProcSets, Zenon DEF BInv, RefsAreCounted, Users, Recycles
    <3>2. \A q \in Proc : pc[q] # "idle" => buf[q] # b /\ buf[q] \in Buf
      BY <1>0, <3>1 DEF BInv, TypeOK, RefsAreCounted, Users
    <3>3. QED
      BY <1>0, <1>2, <3>2, Zenon DEF BInv, TypeOK, Recycles
  <2>3. \A i \in 1..Len(idequeue) : \E q \in Proc : pc'[q] \in {"sleep", "sleep_buf"} /\ buf'[q] = idequeue[i]
    <3>1. TAKE i \in 1..Len(idequeue)
    <3>2. PICK q \in Proc : pc[q] \in {"sleep", "sleep_buf"} /\ buf[q] = idequeue[i]
      BY <1>0 DEF BInv, RequestsAreQueued
    <3>3. QED
      BY <2>1, <3>2
  <2>4. \A q \in Proc : pc'[q] \in {"sleep", "sleep_buf"} => Queued(buf[q])' /\ q # p
    BY <1>0, <2>1 DEF BInv, RequestsAreQueued, Queued
  <2>5. \A i, j \in 1..Len(idequeue) : idequeue[i] = idequeue[j] => i = j
    BY <1>0 DEF BInv, RequestsAreQueued
  <2>6. \A q \in Proc : pc'[q] = "iderw" => valid'[buf'[q]] /\ ~dirty'[buf'[q]]
    BY <1>0, <2>1, <2>2 DEF BInv, RequestsAreQueued
  <2>7. \A q \in Proc : pc'[q] \in {"use", "release"} => valid'[buf'[q]]
    BY <1>0, <2>1, <2>2, Zenon DEF BInv, RequestsAreQueued
  <2>8. QED
    BY <2>1, <2>3, <2>4, <2>5, <2>6, <2>7 DEF RequestsAreQueued
<1>3. ASSUME NEW p \in Proc, acquiresleep(p)
      PROVE  RequestsAreQueued'
  <2>1. /\ UNCHANGED <<idequeue, valid, dirty, buf>>
        /\ \A q \in Proc : pc'[q] \in {"sleep", "sleep_buf"} <=> pc[q] \in {"sleep", "sleep_buf"}
        /\ \A q \in Proc : pc'[q] = "iderw" => pc[q] = "iderw"
        /\ \A q \in Proc : pc'[q] \in {"use", "release"} => valid[buf[q]]
    BY <1>0, <1>3 DEF BInv, TypeOK, RequestsAreQueued, acquiresleep, Goes
  <2>2. QED
    BY <1>0, <2>1 DEF BInv, RequestsAreQueued, Queued
<1>4. ASSUME NEW p \in Proc, bread(p)
      PROVE  RequestsAreQueued'
  <2>a. CASE valid[buf[p]]
    <3>1. /\ UNCHANGED <<idequeue, valid, dirty, buf>> /\ pc' = [pc EXCEPT ![p] = "use"]
          /\ pc[p] = "bread" /\ pc \in [Proc -> Place]
      BY <1>0, <1>4, <2>a, Zenon DEF BInv, TypeOK, bread, bufVars, Goes
    <3>2. QED
      BY <1>0, <2>a, <3>1 DEF BInv, RequestsAreQueued, Queued
  <2>b. CASE ~valid[buf[p]]
    <3> DEFINE b == buf[p]
    <3>1. b \in Buf /\ idequeue \in Seq(Buf) /\ pc \in [Proc -> Place]
      BY <1>0, <1>4, <2>b, Zenon DEF BInv, TypeOK, RefsAreCounted, bread
    <3>2. ~Queued(b)
      <4>1. \A q \in Proc : q # p /\ pc[q] \in {"sleep", "sleep_buf"} => buf[q] # b
        BY <1>0, <1>4, <2>b, Zenon DEF BInv, LocksAreHeld, Holding, bread
      <4>2. pc[p] \notin {"sleep", "sleep_buf"}
        BY <1>4, Zenon DEF bread
      <4>3. QED
        BY <1>0, <4>1, <4>2 DEF BInv, RequestsAreQueued, Queued
    <3>3. /\ idequeue' = Append(idequeue, b) /\ pc' = [pc EXCEPT ![p] = "sleep"]
          /\ UNCHANGED <<buf, valid>> /\ pc[p] \notin {"sleep", "sleep_buf"}
          /\ \A c \in Buf : c # b => dirty'[c] = dirty[c]
      BY <1>0, <1>4, <2>b, Zenon DEF BInv, TypeOK, bread, bufVars, iderw, Goes
    <3>4. \A q \in Proc : q # p /\ pc[q] = "iderw" => buf[q] # b /\ buf[q] \in Buf
      BY <1>0, <1>4, <2>b, Zenon DEF BInv, TypeOK, RefsAreCounted, LocksAreHeld, Holding, bread
    <3>5. QED
      BY <1>0, <3>1, <3>2, <3>3, <3>4, Enqueue, ZenonT(40)
  <2>c. QED
    BY <2>a, <2>b, Zenon
<1>5. ASSUME ideintr
      PROVE  RequestsAreQueued'
  <2> DEFINE h == Head(idequeue)
             n == Len(idequeue) - 1
  <2>1. /\ h \in Buf /\ Tail(idequeue) \in Seq(Buf) /\ Len(Tail(idequeue)) = n
        /\ \A i \in 1..n : Tail(idequeue)[i] = idequeue[i + 1] /\ idequeue[i + 1] # h
    BY <1>0, <1>5, QueueHead, Zenon DEF ideintr
  <2>2. /\ idequeue' = Tail(idequeue) /\ UNCHANGED buf
        /\ valid' = [valid EXCEPT ![h] = TRUE] /\ dirty' = [dirty EXCEPT ![h] = FALSE]
    BY <1>5, Zenon DEF ideintr
  <2>3. \A q \in Proc : \/ pc'[q] = pc[q] /\ ~(pc[q] \in {"sleep", "sleep_buf"} /\ buf[q] = h)
                        \/ pc[q] \in {"sleep", "sleep_buf"} /\ buf[q] = h /\ pc'[q] = "iderw"
    BY <1>0, <1>5, HandlerWakes, Zenon
  <2>4. /\ Len(idequeue) \in Nat /\ Len(idequeue) > 0 /\ idequeue[1] = h
        /\ \A i \in 1..n : i + 1 \in 1..Len(idequeue)
        /\ \A i \in 1..Len(idequeue) : i = 1 \/ (i - 1 \in 1..n /\ i = (i - 1) + 1)
    BY <1>0, <1>5 DEF BInv, TypeOK, ideintr
  <2>5. \A i \in 1..n : \E q \in Proc : pc'[q] \in {"sleep", "sleep_buf"} /\ buf[q] = idequeue'[i]
    <3>1. TAKE i \in 1..n
    <3>2. PICK q \in Proc : pc[q] \in {"sleep", "sleep_buf"} /\ buf[q] = idequeue[i + 1]
      BY <1>0, <2>4, Zenon DEF BInv, RequestsAreQueued
    <3>3. QED
      BY <2>1, <2>2, <2>3, <3>2, Zenon
  <2>6. \A q \in Proc : pc'[q] \in {"sleep", "sleep_buf"} => \E i \in 1..n : idequeue'[i] = buf[q]
    <3>1. SUFFICES ASSUME NEW q \in Proc, pc'[q] \in {"sleep", "sleep_buf"}
                   PROVE  \E i \in 1..n : idequeue'[i] = buf[q]
      OBVIOUS
    <3>2. pc[q] \in {"sleep", "sleep_buf"} /\ buf[q] # h
      BY <2>3, <3>1, Zenon
    <3>3. PICK i \in 1..Len(idequeue) : idequeue[i] = buf[q]
      BY <1>0, <3>2, Zenon DEF BInv, RequestsAreQueued, Queued
    <3>4. i # 1
      BY <2>4, <3>2, <3>3, Zenon
    <3>5. i - 1 \in 1..n /\ i = (i - 1) + 1
      BY <2>4, <3>4, Zenon
    <3>6. QED
      BY <2>1, <2>2, <3>3, <3>5, Zenon
  <2>7. \A i, j \in 1..n : idequeue'[i] = idequeue'[j] => i = j
    <3>1. TAKE i, j \in 1..n
    <3>2. HAVE idequeue'[i] = idequeue'[j]
    <3>3. idequeue[i + 1] = idequeue[j + 1]
      BY <2>1, <2>2, <3>2, Zenon
    <3>4. i + 1 = j + 1
      BY <1>0, <2>4, <3>3, Zenon DEF BInv, RequestsAreQueued
    <3>5. QED
      BY <3>4
  <2>8. \A q \in Proc : pc'[q] \in {"iderw", "use", "release"} => buf[q] \in Buf
    BY <1>0, <2>3, Zenon DEF BInv, TypeOK, RefsAreCounted
  <2>9. \A q \in Proc : pc'[q] = "iderw" => valid'[buf[q]] /\ ~dirty'[buf[q]]
    BY <1>0, <2>1, <2>2, <2>3, <2>8 DEF BInv, TypeOK, RequestsAreQueued
  <2>10. \A q \in Proc : pc'[q] \in {"use", "release"} => valid'[buf[q]]
    BY <1>0, <2>1, <2>2, <2>3, <2>8 DEF BInv, TypeOK, RequestsAreQueued
  <2>11. Len(idequeue') = n
    BY <2>1, <2>2, Zenon
  <2>12. QED
    BY <2>2, <2>5, <2>6, <2>7, <2>9, <2>10, <2>11 DEF RequestsAreQueued, Queued
<1>6. ASSUME NEW p \in Proc, iderwWoken(p)
      PROVE  RequestsAreQueued'
  <2>1. /\ UNCHANGED <<idequeue, valid, dirty, buf>>
        /\ \A q \in Proc : pc'[q] \in {"sleep", "sleep_buf"} <=> pc[q] \in {"sleep", "sleep_buf"}
        /\ \A q \in Proc : pc'[q] = "iderw" => pc[q] = "iderw"
        /\ \A q \in Proc : pc'[q] \in {"use", "release"} => valid[buf[q]]
    BY <1>0, <1>6 DEF BInv, TypeOK, RequestsAreQueued, iderwWoken, bufVars, Goes
  <2>2. QED
    BY <1>0, <2>1 DEF BInv, RequestsAreQueued, Queued
<1>7. ASSUME NEW p \in Proc, NEW v \in Value, bwrite(p, v)
      PROVE  RequestsAreQueued'
  <2> DEFINE b == buf[p]
  <2>1. b \in Buf /\ idequeue \in Seq(Buf) /\ pc \in [Proc -> Place]
    BY <1>0, <1>7, Zenon DEF BInv, TypeOK, RefsAreCounted, bwrite, Fill
  <2>2. ~Queued(b)
    <3>1. \A q \in Proc : q # p /\ pc[q] \in {"sleep", "sleep_buf"} => buf[q] # b
      BY <1>0, <1>7, Zenon DEF BInv, LocksAreHeld, Holding, bwrite, Fill
    <3>2. pc[p] \notin {"sleep", "sleep_buf"}
      BY <1>7, Zenon DEF bwrite, Fill
    <3>3. \A i \in 1..Len(idequeue) : \E q \in Proc : pc[q] \in {"sleep", "sleep_buf"} /\ buf[q] = idequeue[i]
      BY <1>0, Zenon DEF BInv, RequestsAreQueued
    <3>4. QED
      BY <3>1, <3>2, <3>3, Zenon DEF Queued
  <2>3. /\ idequeue' = Append(idequeue, b) /\ pc' = [pc EXCEPT ![p] = "sleep"]
        /\ UNCHANGED <<buf, valid>> /\ pc[p] \notin {"sleep", "sleep_buf"}
        /\ \A c \in Buf : c # b => dirty'[c] = dirty[c]
    BY <1>0, <1>7, Zenon DEF BInv, TypeOK, bwrite, Fill, iderw, Goes
  <2>4. \A q \in Proc : q # p /\ pc[q] = "iderw" => buf[q] # b /\ buf[q] \in Buf
    BY <1>0, <1>7, Zenon DEF BInv, TypeOK, RefsAreCounted, LocksAreHeld, Holding, bwrite, Fill
  <2>5. QED
    BY <1>0, <2>1, <2>2, <2>3, <2>4, Enqueue, ZenonT(40)
<1>8. ASSUME NEW p \in Proc, NEW v \in Value, log_write(p, v)
      PROVE  RequestsAreQueued'
  <2>1. /\ UNCHANGED <<idequeue, valid, buf>> /\ pc' = [pc EXCEPT ![p] = "release"]
        /\ pc[p] = "use" /\ pc \in [Proc -> Place]
    BY <1>0, <1>8, Zenon DEF BInv, TypeOK, log_write, Fill, Goes
  <2>2. \A q \in Proc : q # p /\ pc[q] = "iderw" => dirty'[buf[q]] = dirty[buf[q]]
    <3>1. \A q \in Proc : q # p /\ pc[q] = "iderw" => buf[q] # buf[p] /\ buf[q] \in Buf
      BY <1>0, <2>1, Zenon DEF BInv, TypeOK, RefsAreCounted, LocksAreHeld, Holding
    <3>2. QED
      BY <1>0, <1>8, <3>1, Zenon DEF BInv, TypeOK, log_write, Fill
  <2>3. QED
    BY <1>0, <2>1, <2>2, ZenonT(40) DEF BInv, RequestsAreQueued, Queued
<1>9. ASSUME NEW p \in Proc, install_trans(p)
      PROVE  RequestsAreQueued'
  <2> DEFINE b == buf[p]
  <2>1. b \in Buf /\ idequeue \in Seq(Buf) /\ pc \in [Proc -> Place]
    BY <1>0, <1>9, Zenon DEF BInv, TypeOK, RefsAreCounted, install_trans
  <2>2. ~Queued(b)
    <3>1. \A q \in Proc : q # p /\ pc[q] \in {"sleep", "sleep_buf"} => buf[q] # b
      BY <1>0, <1>9, Zenon DEF BInv, LocksAreHeld, Holding, install_trans
    <3>2. pc[p] \notin {"sleep", "sleep_buf"}
      BY <1>9, Zenon DEF install_trans
    <3>3. QED
      BY <1>0, <3>1, <3>2 DEF BInv, RequestsAreQueued, Queued
  <2>3. /\ idequeue' = Append(idequeue, b) /\ pc' = [pc EXCEPT ![p] = "sleep"]
        /\ UNCHANGED <<buf, valid>> /\ pc[p] \notin {"sleep", "sleep_buf"}
        /\ \A c \in Buf : c # b => dirty'[c] = dirty[c]
    BY <1>0, <1>9, Zenon DEF BInv, TypeOK, install_trans, bufVars, iderw, Goes
  <2>4. \A q \in Proc : q # p /\ pc[q] = "iderw" => buf[q] # b /\ buf[q] \in Buf
    BY <1>0, <1>9, Zenon DEF BInv, TypeOK, RefsAreCounted, LocksAreHeld, Holding, install_trans
  <2>5. QED
    BY <1>0, <2>1, <2>2, <2>3, <2>4, Enqueue, Zenon
<1>10. ASSUME NEW p \in Proc, Read(p)
      PROVE  RequestsAreQueued'
  <2>1. /\ UNCHANGED <<idequeue, valid, dirty, buf>>
        /\ \A q \in Proc : pc'[q] \in {"sleep", "sleep_buf"} <=> pc[q] \in {"sleep", "sleep_buf"}
        /\ \A q \in Proc : pc'[q] = "iderw" => pc[q] = "iderw"
        /\ \A q \in Proc : pc'[q] \in {"use", "release"} => valid[buf[q]]
    BY <1>0, <1>10 DEF BInv, TypeOK, RequestsAreQueued, Read, bufVars, Goes
  <2>2. QED
    BY <1>0, <2>1 DEF BInv, RequestsAreQueued, Queued
<1>11. ASSUME NEW p \in Proc, releasesleep(p)
      PROVE  RequestsAreQueued'
  <2>1. UNCHANGED <<idequeue, valid, dirty, buf>> /\ pc[p] = "release"
    BY <1>11, Zenon DEF releasesleep
  <2>2. /\ \A q \in Proc : pc'[q] \in {"sleep", "sleep_buf"} <=> pc[q] \in {"sleep", "sleep_buf"}
        /\ \A q \in Proc : pc'[q] = "iderw" => pc[q] = "iderw"
        /\ \A q \in Proc : pc'[q] \in {"use", "release"} => pc[q] \in {"use", "release"}
    BY <1>0, <1>11, <2>1, ReleaseWakes, Zenon
  <2>3. QED
    BY <1>0, <2>1, <2>2 DEF BInv, RequestsAreQueued, Queued
<1>12. ASSUME NEW p \in Proc, brelse(p)
      PROVE  RequestsAreQueued'
  <2>1. /\ UNCHANGED <<idequeue, valid, dirty>> /\ pc[p] = "brelse" /\ pc'[p] = "idle"
        /\ \A q \in Proc : q # p => pc'[q] = pc[q] /\ buf'[q] = buf[q]
    BY <1>0, <1>12, Zenon DEF BInv, TypeOK, brelse, Goes
  <2>2. \A i \in 1..Len(idequeue) : \E q \in Proc : pc'[q] \in {"sleep", "sleep_buf"} /\ buf'[q] = idequeue[i]
    <3>1. TAKE i \in 1..Len(idequeue)
    <3>2. PICK q \in Proc : pc[q] \in {"sleep", "sleep_buf"} /\ buf[q] = idequeue[i]
      BY <1>0, Zenon DEF BInv, RequestsAreQueued
    <3>3. QED
      BY <2>1, <3>2, Zenon
  <2>3. \A q \in Proc : pc'[q] \in {"sleep", "sleep_buf"} => Queued(buf[q])'
    BY <1>0, <2>1 DEF BInv, RequestsAreQueued, Queued
  <2>4. \A i, j \in 1..Len(idequeue) : idequeue[i] = idequeue[j] => i = j
    BY <1>0, Zenon DEF BInv, RequestsAreQueued
  <2>5. /\ \A q \in Proc : pc'[q] = "iderw" => valid'[buf'[q]] /\ ~dirty'[buf'[q]]
        /\ \A q \in Proc : pc'[q] \in {"use", "release"} => valid'[buf'[q]]
    BY <1>0, <2>1, Zenon DEF BInv, RequestsAreQueued
  <2>6. QED
    BY <2>1, <2>2, <2>3, <2>4, <2>5 DEF RequestsAreQueued
<1>13. ASSUME UNCHANGED <<idequeue, valid, dirty, buf, pc>>
      PROVE  RequestsAreQueued'
  BY <1>0, <1>13 DEF BInv, RequestsAreQueued, Queued
<1>14. ASSUME NEW p \in Proc, sleep(p)
      PROVE  RequestsAreQueued'
  <2>1. /\ UNCHANGED <<idequeue, valid, dirty, buf>>
        /\ \A q \in Proc : pc'[q] \in {"sleep", "sleep_buf"} <=> pc[q] \in {"sleep", "sleep_buf"}
        /\ \A q \in Proc : pc'[q] = "iderw" => pc[q] = "iderw"
        /\ \A q \in Proc : pc'[q] \in {"use", "release"} => valid[buf[q]]
    BY <1>0, <1>14 DEF BInv, TypeOK, RequestsAreQueued, sleep, bufVars, Goes
  <2>2. QED
    BY <1>0, <2>1 DEF BInv, RequestsAreQueued, Queued
<1>15. QED
  BY <1>1, <1>2, <1>3, <1>4, <1>5, <1>6, <1>7, <1>8, <1>9, <1>10, <1>11, <1>12, <1>13, <1>14,
     GetCases, Zenon
     DEF Next, Step, NoBuffers, GetFrame

(* A buffer in use keeps its block. *)
LEMMA BlocksStep ==
  ASSUME BInv, Next
  PROVE  BlocksAreKept'
<1>0. BInv
  OBVIOUS
<1>1. ASSUME NEW p \in Proc, NEW k \in Block, NEW b \in Buf, Hits(p, k, b)
      PROVE  BlocksAreKept'
  <2>1. /\ buf' = [buf EXCEPT ![p] = b] /\ block' = [block EXCEPT ![p] = k]
        /\ blockno' = blockno /\ blockno[b] = k
        /\ buf \in [Proc -> Buf \cup {None}] /\ block \in [Proc -> Block \cup {None}]
    BY <1>0, <1>1, Zenon DEF BInv, TypeOK, Hits, GetFrame
  <2>2. QED
    BY <1>0, <2>1, Zenon DEF BInv, BlocksAreKept
<1>2. ASSUME NEW p \in Proc, NEW k \in Block, NEW b \in Buf, Recycles(p, k, b)
      PROVE  BlocksAreKept'
  <2>1. /\ buf' = [buf EXCEPT ![p] = b] /\ block' = [block EXCEPT ![p] = k]
        /\ blockno' = [blockno EXCEPT ![b] = k] /\ \A c \in Buf : blockno[c] # k
        /\ buf \in [Proc -> Buf \cup {None}] /\ block \in [Proc -> Block \cup {None}]
        /\ blockno \in [Buf -> Block \cup {None}]
    BY <1>0, <1>2, Zenon DEF BInv, TypeOK, Recycles, GetFrame
  <2>2. Users(b) = {}
    BY <1>0, <1>2, ProcSets, Zenon DEF BInv, RefsAreCounted, Users, Recycles
  <2>3. \A q \in Proc : buf[q] # b
    BY <2>2, Zenon DEF Users
  <2>4. \A c, d \in Buf : c # d /\ blockno'[c] # None => blockno'[c] # blockno'[d]
    BY <1>0, <2>1, Zenon DEF BInv, BlocksAreKept
  <2>5. \A q \in Proc : buf'[q] # None => blockno'[buf'[q]] = block'[q] /\ block'[q] \in Block
    BY <1>0, <2>1, <2>3 DEF BInv, BlocksAreKept
  <2>6. QED
    BY <2>4, <2>5, Zenon DEF BlocksAreKept
<1>3. ASSUME NEW p \in Proc, NEW k \in Block, NoBuffers(p, k)
      PROVE  BlocksAreKept'
  <2>1. /\ UNCHANGED <<buf, blockno>> /\ block' = [block EXCEPT ![p] = k] /\ buf[p] = None
        /\ block \in [Proc -> Block \cup {None}]
    BY <1>0, <1>3, Zenon DEF BInv, TypeOK, RefsAreCounted, NoBuffers, GetFrame
  <2>2. QED
    BY <1>0, <2>1, Zenon DEF BInv, BlocksAreKept
<1>4. ASSUME NEW p \in Proc, brelse(p)
      PROVE  BlocksAreKept'
  <2>1. /\ buf' = [buf EXCEPT ![p] = None] /\ block' = [block EXCEPT ![p] = None]
        /\ blockno' = blockno
        /\ buf \in [Proc -> Buf \cup {None}] /\ block \in [Proc -> Block \cup {None}]
    BY <1>0, <1>4, Zenon DEF BInv, TypeOK, brelse
  <2>2. QED
    BY <1>0, <2>1, Zenon DEF BInv, BlocksAreKept
<1>5. ASSUME UNCHANGED <<buf, block, blockno>>
      PROVE  BlocksAreKept'
  BY <1>0, <1>5, Zenon DEF BInv, BlocksAreKept
<1>6. QED
  BY <1>1, <1>2, <1>3, <1>4, <1>5, GetCases, Zenon
     DEF Next, Step, acquiresleep, bread, ideintr, iderwWoken, sleep, bwrite, log_write,
         install_trans, Read, releasesleep, Fill, iderw, bufVars

(* A new request goes to the disk when it is the first. *)
LEMMA StartFirst ==
  ASSUME BInv, NEW p \in Proc, buf[p] \in Buf, pc[p] \in {"bread", "use"}, iderw(p)
  PROVE  DiskIsStarted'
<1> DEFINE b == buf[p]
<1>1. idequeue \in Seq(Buf) /\ Len(idequeue) \in Nat
  BY DEF BInv, TypeOK
<1>2. idequeue' = Append(idequeue, b) /\ Append(idequeue, b) # <<>>
  BY <1>1 DEF iderw
<1>3. CASE idequeue = <<>>
  <2>1. Head(Append(idequeue, b)) = b
    BY <1>3
  <2>2. QED
    BY <1>2, <2>1, Zenon DEF DiskIsStarted, iderw, idestart
<1>4. CASE idequeue # <<>>
  <2>1. Head(Append(idequeue, b)) = Head(idequeue) /\ 1 \in 1..Len(idequeue) /\ Head(idequeue) = idequeue[1]
    BY <1>1, <1>4
  <2>2. started = Head(idequeue)
    BY <1>4, Zenon DEF BInv, DiskIsStarted
  <2>3. QED
    BY <1>2, <2>1, <2>2, Zenon DEF DiskIsStarted, iderw, idestart
<1>5. QED
  BY <1>3, <1>4, Zenon

(* The disk works on the first request. *)
LEMMA StartedStep ==
  ASSUME BInv, Next
  PROVE  DiskIsStarted'
<1>0. BInv
  OBVIOUS
<1>1. ASSUME NEW p \in Proc, bread(p)
      PROVE  DiskIsStarted'
  <2>1. CASE valid[buf[p]]
    BY <1>0, <1>1, <2>1, Zenon DEF BInv, DiskIsStarted, bread
  <2>2. CASE ~valid[buf[p]]
    <3>1. buf[p] \in Buf /\ pc[p] \in {"bread", "use"} /\ iderw(p)
      BY <1>0, <1>1, <2>2, Zenon DEF BInv, TypeOK, RefsAreCounted, bread
    <3>2. QED
      BY <1>0, <3>1, StartFirst, Zenon
  <2>3. QED
    BY <2>1, <2>2, Zenon
<1>2. ASSUME NEW p \in Proc, NEW v \in Value, bwrite(p, v)
      PROVE  DiskIsStarted'
  <2>1. buf[p] \in Buf /\ pc[p] \in {"bread", "use"} /\ iderw(p)
    BY <1>0, <1>2, Zenon DEF BInv, TypeOK, RefsAreCounted, bwrite, Fill
  <2>2. QED
    BY <1>0, <2>1, StartFirst, Zenon
<1>3. ASSUME NEW p \in Proc, install_trans(p)
      PROVE  DiskIsStarted'
  <2>1. buf[p] \in Buf /\ pc[p] \in {"bread", "use"} /\ iderw(p)
    BY <1>0, <1>3, Zenon DEF BInv, TypeOK, RefsAreCounted, install_trans
  <2>2. QED
    BY <1>0, <2>1, StartFirst, Zenon
<1>4. ASSUME ideintr
      PROVE  DiskIsStarted'
  BY <1>4, Zenon DEF DiskIsStarted, ideintr, startNext
<1>5. ASSUME UNCHANGED <<idequeue, started>>
      PROVE  DiskIsStarted'
  BY <1>0, <1>5, Zenon DEF BInv, DiskIsStarted
<1>6. QED
  BY <1>1, <1>2, <1>3, <1>4, <1>5, GetCases, ZenonT(40)
     DEF Next, Step, Hits, Recycles, NoBuffers, GetFrame, acquiresleep, iderwWoken, sleep,
         log_write, Read, releasesleep, brelse

(* A caller's change is in its buffer. *)
LEMMA FillKeeps ==
  ASSUME BInv, NEW p \in Proc, NEW v \in Value, Fill(p, v)
  PROVE  ContentsAreKept'
<1> DEFINE b == buf[p]
           k == block[p]
<1>1. b \in Buf /\ valid[b] /\ k \in Block /\ blockno[b] = k
  BY Zenon DEF BInv, TypeOK, RefsAreCounted, RequestsAreQueued, BlocksAreKept, Fill
<1>2. /\ data' = [data EXCEPT ![b] = v] /\ last' = [last EXCEPT ![k] = v]
      /\ dirty' = [dirty EXCEPT ![b] = TRUE] /\ UNCHANGED <<blockno, valid, disk>>
  BY Zenon DEF Fill
<1>3. data \in [Buf -> Value] /\ last \in [Block -> Value] /\ dirty \in [Buf -> BOOLEAN]
  BY Zenon DEF BInv, TypeOK
<1>4. \A c \in Buf : c # b => blockno[c] # k
  BY <1>1, Constants DEF BInv, BlocksAreKept
<1>5. \A c \in Buf : valid'[c] => /\ blockno'[c] \in Block
                                  /\ blockno'[c] \notin Faulty => data'[c] = last'[blockno'[c]]
  BY <1>1, <1>2, <1>3, <1>4, Zenon DEF BInv, ContentsAreKept
<1>6. \A c \in Buf : dirty'[c] => valid'[c]
  BY <1>1, <1>2, <1>3, Zenon DEF BInv, ContentsAreKept
<1>7. ASSUME NEW j \in Block \ Faulty, disk'[j] # last'[j]
      PROVE  \E c \in Buf : blockno'[c] = j /\ dirty'[c] /\ data'[c] = last'[j]
  <2>1. CASE j = k
    BY <1>1, <1>2, <1>3, <2>1, Zenon
  <2>2. CASE j # k
    <3>1. disk[j] # last[j]
      BY <1>2, <1>3, <1>7, <2>2, Zenon
    <3>2. PICK c \in Buf : blockno[c] = j /\ dirty[c] /\ data[c] = last[j]
      BY <3>1, Zenon DEF BInv, ContentsAreKept, NothingIsLost
    <3>3. c # b
      BY <1>1, <2>2, <3>2, Zenon
    <3>4. QED
      BY <1>2, <1>3, <2>2, <3>2, <3>3, Zenon
  <2>3. QED
    BY <2>1, <2>2, Zenon
<1>8. QED
  BY <1>5, <1>6, <1>7, Zenon DEF ContentsAreKept, NothingIsLost

(* Nothing is lost and nothing is stale. *)
LEMMA ContentsStep ==
  ASSUME BInv, Next
  PROVE  ContentsAreKept'
<1>0. BInv
  OBVIOUS
<1>1. ASSUME NEW p \in Proc, NEW k \in Block, NEW b \in Buf, Recycles(p, k, b)
      PROVE  ContentsAreKept'
  <2>1. /\ blockno' = [blockno EXCEPT ![b] = k] /\ valid' = [valid EXCEPT ![b] = FALSE]
        /\ dirty' = [dirty EXCEPT ![b] = FALSE] /\ ~dirty[b]
        /\ UNCHANGED <<data, last, disk>>
    BY <1>1, Zenon DEF Recycles, GetFrame
  <2>2. /\ blockno \in [Buf -> Block \cup {None}] /\ valid \in [Buf -> BOOLEAN]
        /\ dirty \in [Buf -> BOOLEAN]
    BY <1>0, Zenon DEF BInv, TypeOK
  <2>3. \A c \in Buf : valid'[c] => /\ blockno'[c] \in Block
                                    /\ blockno'[c] \notin Faulty => data'[c] = last'[blockno'[c]]
    BY <1>0, <2>1, <2>2, Zenon DEF BInv, ContentsAreKept
  <2>4. \A c \in Buf : dirty'[c] => valid'[c]
    BY <1>0, <2>1, <2>2, Zenon DEF BInv, ContentsAreKept
  <2>5. NothingIsLost'
    BY <1>0, <2>1, <2>2 DEF BInv, ContentsAreKept, NothingIsLost
  <2>6. QED
    BY <2>3, <2>4, <2>5, Zenon DEF ContentsAreKept
<1>2. ASSUME ideintr
      PROVE  ContentsAreKept'
  <2> DEFINE b == Head(idequeue)
             k == blockno[b]
  <2>1. b \in Buf /\ k \in Block
    BY <1>0, <1>2, QueueHead, Zenon DEF ideintr
  <2>2. /\ blockno \in [Buf -> Block \cup {None}] /\ valid \in [Buf -> BOOLEAN]
        /\ dirty \in [Buf -> BOOLEAN] /\ data \in [Buf -> Value]
        /\ disk \in [Block -> Value] /\ last \in [Block -> Value]
    BY <1>0, Zenon DEF BInv, TypeOK
  <2>3. /\ valid' = [valid EXCEPT ![b] = TRUE] /\ dirty' = [dirty EXCEPT ![b] = FALSE]
        /\ UNCHANGED <<blockno, last>>
    BY <1>2, Zenon DEF ideintr
  <2>4. \A c \in Buf : dirty'[c] => valid'[c]
    BY <1>0, <2>2, <2>3, Zenon DEF BInv, ContentsAreKept
  <2>5. \A c \in Buf : c # b => blockno[c] # k
    BY <1>0, <2>1, Constants, Zenon DEF BInv, BlocksAreKept
  <2>5a. PICK ok \in BOOLEAN : Transfers(b, k, ok)
    BY <1>0, <1>2, HandlerTransfers, Zenon
  <2>6. CASE ok /\ dirty[b]
    <3>1. disk' = [disk EXCEPT ![k] = data[b]] /\ UNCHANGED data
      BY <2>5a, <2>6, Zenon DEF Transfers
    <3>2. k \notin Faulty => data[b] = last[k]
      BY <1>0, <2>1, <2>6, Zenon DEF BInv, ContentsAreKept
    <3>3. \A c \in Buf : valid'[c] => /\ blockno'[c] \in Block
                                      /\ blockno'[c] \notin Faulty => data'[c] = last'[blockno'[c]]
      BY <1>0, <2>1, <2>2, <2>3, <3>1, <3>2, Zenon DEF BInv, ContentsAreKept
    <3>4. ASSUME NEW j \in Block \ Faulty, disk'[j] # last'[j]
          PROVE  \E c \in Buf : blockno'[c] = j /\ dirty'[c] /\ data'[c] = last'[j]
      <4>1. j # k /\ disk[j] # last[j]
        BY <2>1, <2>2, <2>3, <3>1, <3>2, <3>4, Zenon
      <4>2. PICK c \in Buf : blockno[c] = j /\ dirty[c] /\ data[c] = last[j]
        BY <1>0, <4>1, Zenon DEF BInv, ContentsAreKept, NothingIsLost
      <4>3. QED
        BY <2>2, <2>3, <3>1, <4>1, <4>2, Zenon
    <3>5. QED
      BY <2>4, <3>3, <3>4, Zenon DEF ContentsAreKept, NothingIsLost
  <2>7. CASE ok /\ ~dirty[b]
    <3>1. data' = [data EXCEPT ![b] = disk[k]] /\ UNCHANGED disk
      BY <2>5a, <2>7, Zenon DEF Transfers
    <3>2. k \notin Faulty => disk[k] = last[k]
      BY <1>0, <2>1, <2>5, <2>7, Zenon DEF BInv, ContentsAreKept, NothingIsLost
    <3>3. \A c \in Buf : valid'[c] => /\ blockno'[c] \in Block
                                      /\ blockno'[c] \notin Faulty => data'[c] = last'[blockno'[c]]
      BY <1>0, <2>1, <2>2, <2>3, <3>1, <3>2, Zenon DEF BInv, ContentsAreKept
    <3>4. ASSUME NEW j \in Block \ Faulty, disk'[j] # last'[j]
          PROVE  \E c \in Buf : blockno'[c] = j /\ dirty'[c] /\ data'[c] = last'[j]
      <4>1. disk[j] # last[j]
        BY <2>3, <3>1, <3>4, Zenon
      <4>2. PICK c \in Buf : blockno[c] = j /\ dirty[c] /\ data[c] = last[j]
        BY <1>0, <4>1, Zenon DEF BInv, ContentsAreKept, NothingIsLost
      <4>3. c # b
        BY <2>7, <4>2, Zenon
      <4>4. QED
        BY <2>2, <2>3, <3>1, <4>2, <4>3, Zenon
    <3>5. QED
      BY <2>4, <3>3, <3>4 DEF ContentsAreKept, NothingIsLost
  <2>8. CASE ~ok
    <3>1. k \in Faulty /\ UNCHANGED <<disk, data>>
      BY <2>5a, <2>8, Zenon DEF Transfers
    <3>2. \A c \in Buf : valid'[c] => /\ blockno'[c] \in Block
                                      /\ blockno'[c] \notin Faulty => data'[c] = last'[blockno'[c]]
      BY <1>0, <2>1, <2>2, <2>3, <3>1, Zenon DEF BInv, ContentsAreKept
    <3>3. ASSUME NEW j \in Block \ Faulty, disk'[j] # last'[j]
          PROVE  \E c \in Buf : blockno'[c] = j /\ dirty'[c] /\ data'[c] = last'[j]
      <4>1. disk[j] # last[j] /\ j # k
        BY <2>3, <3>1, <3>3, Zenon
      <4>2. PICK c \in Buf : blockno[c] = j /\ dirty[c] /\ data[c] = last[j]
        BY <1>0, <4>1, Zenon DEF BInv, ContentsAreKept, NothingIsLost
      <4>3. QED
        BY <2>2, <2>3, <3>1, <4>1, <4>2, Zenon
    <3>4. QED
      BY <2>4, <3>2, <3>3, Zenon DEF ContentsAreKept, NothingIsLost
  <2>9. QED
    BY <2>6, <2>7, <2>8, Zenon
<1>3. ASSUME NEW p \in Proc, NEW v \in Value, bwrite(p, v)
      PROVE  ContentsAreKept'
  <2>1. Fill(p, v)
    BY <1>3, Zenon DEF bwrite
  <2>2. QED
    BY <1>0, <2>1, FillKeeps, Zenon
<1>4. ASSUME NEW p \in Proc, NEW v \in Value, log_write(p, v)
      PROVE  ContentsAreKept'
  <2>1. Fill(p, v)
    BY <1>4, Zenon DEF log_write
  <2>2. QED
    BY <1>0, <2>1, FillKeeps
<1>5. ASSUME UNCHANGED <<blockno, valid, dirty, data, disk, last>>
      PROVE  ContentsAreKept'
  BY <1>0, <1>5, Zenon DEF BInv, ContentsAreKept, NothingIsLost
<1>6. QED
  BY <1>1, <1>2, <1>3, <1>4, <1>5, GetCases, ZenonT(40)
     DEF Next, Step, Hits, NoBuffers, acquiresleep, bread, iderwWoken, sleep, install_trans, Read,
         releasesleep, brelse, GetFrame, iderw, bufVars

(* The list still has every buffer when one is moved to its front. *)
LEMMA FrontIsWhole ==
  ASSUME BInv, NEW b \in Buf
  PROVE  \A c \in Buf : \E i \in Buf : toFront(b)[i] = c
<1> DEFINE j == CHOOSE i \in Buf : lru[i] = b
<1>1. j \in Buf /\ lru[j] = b
  BY Zenon DEF BInv, ListIsWhole
<1>2. toFront(b) = [i \in Buf |-> IF i = 1 THEN b ELSE IF i <= j THEN lru[i - 1] ELSE lru[i]]
  BY Zenon DEF toFront
<1> HIDE DEF j
<1>3. TAKE c \in Buf
<1>4. CASE c = b
  <2>1. 1 \in Buf
    BY Constants DEF Buf
  <2>2. QED
    BY <1>2, <1>4, <2>1, Zenon
<1>5. CASE c # b
  <2>1. PICK i \in Buf : lru[i] = c
    BY Zenon DEF BInv, ListIsWhole
  <2>2. i # j
    BY <1>1, <1>5, <2>1, Zenon
  <2>3. CASE i < j
    <3>1. i + 1 \in Buf /\ i + 1 # 1 /\ i + 1 <= j /\ (i + 1) - 1 = i
      BY <1>1, <2>3, Constants DEF Buf
    <3>2. QED
      BY <1>2, <2>1, <3>1
  <2>4. CASE j < i
    <3>1. i # 1 /\ ~(i <= j)
      BY <1>1, <2>4, Constants DEF Buf
    <3>2. QED
      BY <1>2, <2>1, <3>1, Zenon
  <2>5. QED
    BY <1>1, <2>2, <2>3, <2>4, Constants DEF Buf
<1>6. QED
  BY <1>4, <1>5, Zenon

(* The list stays whole. *)
LEMMA ListStep ==
  ASSUME BInv, Next
  PROVE  ListIsWhole'
<1>0. BInv
  OBVIOUS
<1>1. ASSUME NEW p \in Proc, brelse(p)
      PROVE  ListIsWhole'
  <2>1. buf[p] \in Buf
    BY <1>0, <1>1, Zenon DEF BInv, TypeOK, RefsAreCounted, brelse
  <2>2. lru' = lru \/ lru' = toFront(buf[p])
    BY <1>1, Zenon DEF brelse
  <2>3. CASE lru' = lru
    BY <1>0, <2>3, Zenon DEF BInv, ListIsWhole
  <2>4. CASE lru' = toFront(buf[p])
    BY <1>0, <2>1, <2>4, FrontIsWhole, Zenon DEF ListIsWhole
  <2>5. QED
    BY <2>2, <2>3, <2>4, Zenon
<1>2. ASSUME UNCHANGED <<lru>>
      PROVE  ListIsWhole'
  BY <1>0, <1>2, Zenon DEF BInv, ListIsWhole
<1>3. QED
  BY <1>1, <1>2, GetCases, ZenonT(40)
     DEF Next, Step, Hits, Recycles, NoBuffers, GetFrame, acquiresleep, bread, ideintr,
         iderwWoken, sleep, bwrite, log_write, install_trans, Read, releasesleep, Fill, bufVars

(* bget overlooks no buffer that it may recycle. *)
LEMMA VictimExists ==
  ASSUME BInv
  PROVE  BuffersAreFound
<1>1. SUFFICES ASSUME NEW b \in Buf, MayRecycle(b)
               PROVE  \E c \in Buf : IsVictim(c)
  BY Zenon DEF BuffersAreFound
<1> DEFINE F == {i \in Buf : MayRecycle(lru[i])}
<1>2. F \subseteq Buf /\ F # {}
  BY <1>1, Zenon DEF BInv, ListIsWhole
<1>3. PICK i \in F : \A j \in F : j <= i
  BY <1>2, Largest, Zenon
<1>4. \A j \in (i + 1)..NBUF : ~MayRecycle(lru[j])
  <2>1. \A j \in (i + 1)..NBUF : j \in Buf /\ ~(j <= i)
    BY <1>2, Constants DEF Buf
  <2>2. QED
    BY <1>3, <2>1, Zenon
<1>5. lru[i] \in Buf
  BY <1>2, Zenon DEF BInv, TypeOK
<1>6. QED
  BY <1>2, <1>3, <1>4, <1>5, Zenon DEF IsVictim

-----------------------------------------------------------------------------
(* The invariant holds at the start ... *)
LEMMA InitBInv == Init => BInv
<1> SUFFICES ASSUME Init
             PROVE  BInv
  OBVIOUS
<1>1. TypeOK
  <2>1. /\ blockno \in [Buf -> Block \cup {None}] /\ refcnt \in [Buf -> Int]
        /\ valid \in [Buf -> BOOLEAN] /\ dirty \in [Buf -> BOOLEAN] /\ locked \in [Buf -> BOOLEAN]
    BY DEF Init
  <2>2. data \in [Buf -> Value] /\ disk \in [Block -> Value] /\ last \in [Block -> Value]
    BY Constants, Zenon DEF Init
  <2>3. lru \in [Buf -> Buf]
    BY Constants DEF Init, Buf
  <2>4. idequeue \in Seq(Buf) /\ panicked \in BOOLEAN
    <3>1. idequeue = <<>> /\ panicked = FALSE
      BY Zenon DEF Init
    <3>2. <<>> \in Seq(Buf)
      OBVIOUS
    <3>3. QED
      BY <3>1, <3>2, Zenon
  <2>5. /\ pc \in [Proc -> Place] /\ buf \in [Proc -> Buf \cup {None}]
        /\ block \in [Proc -> Block \cup {None}]
    BY Zenon DEF Init, Place, Holding
  <2>6. started \in Buf \cup {None}
    BY Zenon DEF Init
  <2>7. QED
    BY <2>1, <2>2, <2>3, <2>4, <2>5, <2>6, Zenon DEF TypeOK
<1>2. RefsAreCounted
  <2>1. \A b \in Buf : Users(b) = {}
    BY Constants, Zenon DEF Init, Users
  <2>2. QED
    BY <2>1, FS_EmptySet, Zenon DEF Init, RefsAreCounted
<1>3. LocksAreHeld
  BY Zenon DEF Init, LocksAreHeld, Holding
<1>4. RequestsAreQueued
  BY DEF Init, RequestsAreQueued, Queued
<1>5. BlocksAreKept
  BY Zenon DEF Init, BlocksAreKept
<1>6. ContentsAreKept
  BY Zenon DEF Init, ContentsAreKept, NothingIsLost
<1>7. ListIsWhole
  <2>1. \A b \in Buf : NBUF + 1 - b \in Buf /\ NBUF + 1 - (NBUF + 1 - b) = b
    BY Constants DEF Buf
  <2>2. QED
    BY <2>1, Zenon DEF Init, ListIsWhole
<1>8. DiskIsStarted
  BY Zenon DEF Init, DiskIsStarted
<1>9. QED
  BY <1>1, <1>2, <1>3, <1>4, <1>5, <1>6, <1>7, <1>8, Zenon DEF BInv

(* ... and every step keeps it. *)
LEMMA BInvStep == BInv /\ [Next]_vars => BInv'
<1>1. ASSUME BInv, Next
      PROVE  BInv'
  BY <1>1, TypeStep, RefsStep, LocksStep, RequestsStep, BlocksStep, ContentsStep,
     StartedStep, ListStep, Zenon DEF BInv
<1>2. ASSUME BInv, UNCHANGED vars
      PROVE  BInv'
  <2>1. /\ UNCHANGED <<blockno, refcnt, valid, dirty, locked, data, lru, idequeue, started, disk>>
        /\ UNCHANGED <<pc, buf, block, last, panicked>>
    BY <1>2, Zenon DEF vars, bufVars, procVars
  <2>2. TypeOK' /\ LocksAreHeld'
    BY <1>2, <2>1, Zenon DEF BInv, TypeOK, LocksAreHeld
  <2>3. BlocksAreKept' /\ RefsAreCounted'
    BY <1>2, <2>1, Zenon DEF BInv, RefsAreCounted, Users, BlocksAreKept
  <2>4. ContentsAreKept'
    BY <1>2, <2>1, Zenon DEF BInv, ContentsAreKept, NothingIsLost
  <2>5. RequestsAreQueued'
    BY <1>2, <2>1 DEF BInv, RequestsAreQueued, Queued
  <2>6. DiskIsStarted' /\ ListIsWhole'
    BY <1>2, <2>1 DEF BInv, DiskIsStarted, ListIsWhole
  <2>7. QED
    BY <2>2, <2>3, <2>4, <2>5, <2>6, Zenon DEF BInv
<1>3. QED
  BY <1>1, <1>2, Zenon

(* Invariant: the reference counts, sleep locks, the disk queue, the list  *)
(* of buffers and their contents stay in step, through every interleaving  *)
(* of bget, bread, bwrite, brelse and the interrupt handler.               *)
THEOREM Invariant == Spec => []BInv
<1>1. QED
  BY InitBInv, BInvStep, PTL DEF Spec

(* BuffersAreAlwaysExact: bget never gives two processes the same block in *)
(* two buffers or the same buffer at once, and overlooks no buffer that it *)
(* may recycle.                                                            *)
THEOREM BuffersAreAlwaysExact == Spec => []BuffersAreExact
<1>1. BInv => BuffersAreExclusive
  BY Zenon DEF BInv, LocksAreHeld, BlocksAreKept, BuffersAreExclusive
<1>2. BInv => BuffersAreExact
  BY <1>1, VictimExists, Zenon DEF BuffersAreExact
<1>3. QED
  BY Invariant, <1>2, PTL

(* ReadsAreAlwaysCurrent: what bread returns is what was last put into the *)
(* block, whoever put it there and whatever the disk fails to do with      *)
(* other blocks.                                                           *)
THEOREM ReadsAreAlwaysCurrent == Spec => []ReadsAreCurrent
<1>1. ASSUME BInv
      PROVE  ReadsAreCurrent
  <2>1. SUFFICES ASSUME NEW p \in Proc, pc[p] = "use", block[p] \notin Faulty
                 PROVE  data[buf[p]] = last[block[p]]
    BY Zenon DEF ReadsAreCurrent
  <2>2. buf[p] \in Buf /\ valid[buf[p]] /\ blockno[buf[p]] = block[p]
    BY <1>1, <2>1, Zenon DEF BInv, TypeOK, RefsAreCounted, RequestsAreQueued, BlocksAreKept
  <2>3. QED
    BY <1>1, <2>1, <2>2, Zenon DEF BInv, ContentsAreKept
<1>2. QED
  BY Invariant, <1>1, PTL

(* ChangesAreKept: a change that is not on disk is in a dirty buffer, so   *)
(* recycling a buffer in bget loses nothing, and only a failed write does. *)
THEOREM ChangesAreKept == Spec => []NothingIsLost
<1>1. BInv => NothingIsLost
  BY Zenon DEF BInv, ContentsAreKept
<1>2. QED
  BY Invariant, <1>1, PTL
=============================================================================
