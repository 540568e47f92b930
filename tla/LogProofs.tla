----------------------------- MODULE LogProofs -----------------------------
(***************************************************************************)
(* Proofs about the log, for any number of processes and blocks and any    *)
(* size of the log: the invariants of module Log and, for the log that     *)
(* mkfs makes and the operations of the source, the refinement of          *)
(* AtomicDisk and that the log never fills.                                *)
(***************************************************************************)
EXTENDS Log, FiniteSetTheorems, TLAPS

Place == {"idle", "begin", "asleep", "in", "commit"}

TypeOK ==
  /\ home \in [Block -> Value] /\ logBlock \in [Slot -> Value]
  /\ head \in Seq(Block) /\ lh \in Seq(Block)
  /\ cache \in [Block -> Value \cup {NoBuf}] /\ dirty \subseteq Block
  /\ outstanding \in Int /\ committing \in BOOLEAN
  /\ pc \in [Proc -> Place]
  /\ depth \in [Proc -> Nat] /\ wrote \in [Proc -> Nat]
  /\ stage \in {"boot", "log", "head", "install", "erase", "end", "none"}
  /\ tail \in Nat \ {0} /\ up \in BOOLEAN /\ panicked \in BOOLEAN

(* log.outstanding counts the operations in progress. *)
OpsAreCounted ==
  /\ \A p \in Proc : depth[p] = IF pc[p] = "in" THEN 1 ELSE 0
  /\ outstanding = Cardinality(InOp)

(* Recovery, operations and commit exclude each other. *)
OnePhase ==
  /\ ~up => /\ stage \in {"boot", "install", "erase"}
            /\ ~committing /\ dirty = {} /\ \A p \in Proc : pc[p] = "idle"
  /\ up => stage # "boot" /\ (committing <=> stage # "none")
  /\ committing => InOp = {}
  /\ panicked => InOp # {}

Distinct(s) == \A i, j \in 1..Len(s) : s[i] = s[j] => i = j

(* The header on disk is that of the log in memory from write_head to      *)
(* erase, and empty at other times.                                        *)
HeaderFollows ==
  /\ Distinct(lh) /\ Distinct(head) /\ Len(lh) <= LOGSIZE /\ Len(head) <= LOGSIZE
  /\ stage \in {"log", "head", "end", "none"} => head = <<>>
  /\ stage \in {"install", "erase"} => head = lh
  /\ stage = "end" => lh = <<>>
  /\ stage = "none" /\ InOp = {} => lh = <<>>
  /\ stage = "log" => tail <= Len(lh)
  /\ stage \in {"boot", "head"} => tail = 1
  /\ stage = "install" => tail <= Len(lh) + 1

(* A buffer differs from its block on disk only if it is dirty, and the    *)
(* dirty buffers are those of the blocks that are logged and not yet       *)
(* installed.                                                              *)
CacheFollows ==
  ~panicked =>
    /\ \A b \in Block : b \notin dirty => cache[b] \in {NoBuf, home[b]}
    /\ \A b \in dirty : cache[b] # NoBuf
    /\ stage \in {"log", "head", "none"} => \A b \in Block : b \in dirty <=> Logged(b)
    /\ up /\ stage = "install" =>
         \A b \in Block : b \in dirty <=> \E i \in tail..Len(lh) : lh[i] = b
    /\ stage \in {"erase", "end"} => dirty = {}

(* What the log on disk holds while commit() and recovery go through it. *)
LogFollows ==
  ~panicked =>
    /\ stage = "log" => \A i \in 1..(tail - 1) : logBlock[i] = cache[lh[i]]
    /\ stage = "head" => \A i \in 1..Len(lh) : logBlock[i] = cache[lh[i]]
    /\ stage = "install" => \A i \in 1..(tail - 1) : home[lh[i]] = logBlock[i]
    /\ stage = "install" /\ up => \A i \in tail..Len(lh) : cache[lh[i]] = logBlock[i]
    /\ stage = "erase" => \A i \in 1..Len(lh) : home[lh[i]] = logBlock[i]

(* The log that mkfs makes has room, also for what recovery finds. *)
LogHasRoom ==
  LogIsLarge => Len(lh) + Cardinality(MayLog) < LOGSIZE - 1 /\ Len(head) < LOGSIZE - 1

LInv ==
  /\ TypeOK /\ OpsAreCounted /\ OnePhase /\ HeaderFollows /\ CacheFollows /\ LogFollows
  /\ LogHasRoom

-----------------------------------------------------------------------------
(* Facts about the constants, the helpers and the counting. *)

(* The constants, spelled out. *)
LEMMA Constants ==
  /\ IsFiniteSet(Proc) /\ Blank \in Value /\ NoBuf \notin Value
  /\ OPBLOCKS \in Nat /\ OPBLOCKS > 0 /\ MAXOPBLOCKS \in Nat
  /\ LOGSIZE \in Nat /\ SIZE \in Nat
BY LogAssumption

(* A set of processes is finite. *)
LEMMA ProcSets ==
  ASSUME NEW S, S \subseteq Proc
  PROVE  IsFiniteSet(S) /\ Cardinality(S) \in Nat /\ (Cardinality(S) = 0 <=> S = {})
BY Constants, FS_Subset, FS_CardinalityType, FS_EmptySet, Zenon

(* wakeup(&log) sends sleepers to the top of begin_op's loop. *)
LEMMA WakeupFacts ==
  ASSUME NEW f \in [Proc -> Place]
  PROVE  /\ wakeup(f) \in [Proc -> Place]
         /\ \A q \in Proc : wakeup(f)[q] = "in" <=> f[q] = "in"
BY Zenon DEF wakeup, Place

(* One operation more. *)
LEMMA EnterOp ==
  ASSUME TypeOK, NEW p \in Proc, pc[p] # "in", pc' = [pc EXCEPT ![p] = "in"]
  PROVE  InOp' = InOp \cup {p} /\ Cardinality(InOp') = Cardinality(InOp) + 1
<1>1. InOp' = InOp \cup {p} /\ p \notin InOp /\ InOp \subseteq Proc
  BY Zenon DEF InOp, TypeOK
<1>2. QED
  BY <1>1, ProcSets, FS_AddElement, Zenon

(* One operation less. *)
LEMMA LeaveOp ==
  ASSUME NEW p \in Proc, p \in InOp, InOp' = InOp \ {p}
  PROVE  /\ Cardinality(InOp') = Cardinality(InOp) - 1
         /\ Cardinality(InOp) = 1 <=> InOp' = {}
<1>1. InOp \subseteq Proc /\ InOp' \subseteq Proc
  BY Zenon DEF InOp
<1>2. Cardinality(InOp') = Cardinality(InOp) - 1
  BY <1>1, ProcSets, FS_RemoveElement, Zenon
<1>3. QED
  BY <1>1, <1>2, ProcSets

(* end_op does not meet a commit, and ends an operation. *)
LEMMA EndOp ==
  ASSUME LInv, NEW p \in Proc, end_op(p)
  PROVE  /\ ~committing /\ up /\ stage = "none" /\ p \in InOp /\ depth[p] = 1
         /\ InOp' = InOp \ {p} /\ panicked' = panicked /\ pc' \in [Proc -> Place]
         /\ outstanding = 1 <=> InOp' = {}
<1>1. p \in InOp /\ ~committing /\ up /\ stage = "none" /\ depth[p] = 1
  BY Zenon DEF LInv, OnePhase, OpsAreCounted, TypeOK, InOp, end_op
<1>2. pc' \in [Proc -> Place] /\ InOp' = InOp \ {p}
  <2>1. CASE outstanding = 1
    BY <1>1, <2>1, Zenon DEF LInv, TypeOK, Place, InOp, end_op
  <2>2. CASE outstanding # 1
    <3> DEFINE f == [pc EXCEPT ![p] = "idle"]
    <3>1. f \in [Proc -> Place] /\ pc' = wakeup(f)
      BY <1>1, <2>2, Zenon DEF LInv, TypeOK, Place, end_op
    <3>2. \A q \in Proc : f[q] = "in" <=> pc[q] = "in" /\ q # p
      BY Zenon DEF LInv, TypeOK
    <3> HIDE DEF f
    <3>3. QED
      BY <3>1, <3>2, WakeupFacts, Zenon DEF InOp
  <2>3. QED
    BY <2>1, <2>2, Zenon
<1>3. outstanding = 1 <=> InOp' = {}
  BY <1>1, <1>2, LeaveOp, Zenon DEF LInv, OpsAreCounted
<1>4. QED
  BY <1>1, <1>2, <1>3, Zenon DEF end_op

(* The end of a commit leaves the operations alone. *)
LEMMA CommitEnds ==
  ASSUME TypeOK, NEW p \in Proc, CommitDone(p)
  PROVE  /\ pc' \in [Proc -> Place] /\ InOp' = InOp
         /\ \A q \in Proc : pc'[q] = "in" <=> pc[q] = "in"
<1> DEFINE f == [pc EXCEPT ![p] = "idle"]
<1>1. f \in [Proc -> Place] /\ pc' = wakeup(f)
  BY Zenon DEF TypeOK, Place, CommitDone
<1>2. \A q \in Proc : f[q] = "in" <=> pc[q] = "in"
  BY Zenon DEF TypeOK, CommitDone
<1> HIDE DEF f
<1>3. QED
  BY <1>1, <1>2, WakeupFacts, Zenon DEF InOp

(* Every step keeps the types. *)
LEMMA TypeStep ==
  ASSUME LInv, Next
  PROVE  TypeOK'
<1>0. TypeOK
  BY Zenon DEF LInv
<1>1. ASSUME NEW p \in Proc, Call(p), ~panicked
      PROVE  TypeOK'
  <2>1. pc' \in [Proc -> Place]
    BY <1>0, <1>1, Zenon DEF TypeOK, Place, Call
  <2>2. UNCHANGED <<diskVars, memVars, depth, wrote, stepVars>>
    BY <1>1, Zenon DEF Call
  <2>3. QED
    BY <1>0, <2>1, <2>2, Zenon DEF TypeOK, diskVars, memVars, stepVars
<1>2. ASSUME NEW p \in Proc, begin_op(p), ~panicked
      PROVE  TypeOK'
  <2>1. /\ pc' \in [Proc -> Place] /\ outstanding' \in Int
        /\ depth' \in [Proc -> Nat] /\ wrote' \in [Proc -> Nat]
    <3>1. CASE committing \/ NoSpace
      BY <1>0, <1>2, <3>1, Zenon DEF TypeOK, Place, begin_op
    <3>2. CASE ~(committing \/ NoSpace)
      <4>1. /\ outstanding' = outstanding + 1 /\ pc' = [pc EXCEPT ![p] = "in"]
            /\ depth' = [depth EXCEPT ![p] = @ + 1] /\ wrote' = [wrote EXCEPT ![p] = 0]
        BY <1>2, <3>2, Zenon DEF begin_op
      <4>2. pc' \in [Proc -> Place] /\ outstanding' \in Int
        BY <1>0, <4>1 DEF TypeOK, Place
      <4>3. depth' \in [Proc -> Nat] /\ wrote' \in [Proc -> Nat]
        BY <1>0, <4>1 DEF TypeOK
      <4>4. QED
        BY <4>2, <4>3, Zenon
    <3>3. QED
      BY <3>1, <3>2, Zenon
  <2>2. UNCHANGED <<diskVars, cache, dirty, lh, committing, stepVars>>
    BY <1>2, Zenon DEF begin_op
  <2>3. QED
    BY <1>0, <2>1, <2>2, Zenon DEF TypeOK, diskVars, stepVars
<1>3. ASSUME NEW p \in Proc, end_op(p), ~panicked
      PROVE  TypeOK'
  <2>1. pc' \in [Proc -> Place] /\ panicked' = panicked /\ depth[p] = 1 /\ ~committing
    BY <1>3, EndOp, Zenon
  <2>2. /\ outstanding' \in Int /\ depth' \in [Proc -> Nat] /\ wrote' \in [Proc -> Nat]
    BY <1>0, <1>3, <2>1 DEF TypeOK, end_op
  <2>3. /\ committing' \in BOOLEAN /\ tail' \in Nat \ {0}
        /\ stage' \in {"boot", "log", "head", "install", "erase", "end", "none"}
    <3>1. CASE outstanding = 1
      <4>1. /\ committing' = TRUE /\ tail' = 1
            /\ stage' = IF lh = <<>> THEN "end" ELSE "log"
        BY <1>3, <2>1, <3>1, Zenon DEF end_op
      <4>2. stage' = "end" \/ stage' = "log"
        BY <4>1, Zenon
      <4>3. QED
        BY <4>1, <4>2
    <3>2. CASE outstanding # 1
      <4>1. UNCHANGED <<committing, stage, tail>>
        BY <1>3, <2>1, <3>2, Zenon DEF end_op
      <4>2. QED
        BY <1>0, <4>1, Zenon DEF TypeOK
    <3>3. QED
      BY <3>1, <3>2, Zenon
  <2>4. UNCHANGED <<diskVars, cache, dirty, lh, up>>
    BY <1>3, Zenon DEF end_op
  <2>5. QED
    BY <1>0, <2>1, <2>2, <2>3, <2>4, Zenon DEF TypeOK, diskVars
<1>4. ASSUME NEW p \in Proc, CommitDone(p), ~panicked
      PROVE  TypeOK'
  <2>1. pc' \in [Proc -> Place]
    BY <1>0, <1>4, CommitEnds, Zenon
  <2>2. /\ committing' = FALSE /\ stage' = "none"
        /\ UNCHANGED <<diskVars, cache, dirty, lh, outstanding, depth, wrote, tail, up, panicked>>
    BY <1>4, Zenon DEF CommitDone
  <2>3. QED
    BY <1>0, <2>1, <2>2, Zenon DEF TypeOK, diskVars
<1>5. ASSUME NEW p \in Proc, NEW b \in Block, Read(p, b), ~panicked
      PROVE  TypeOK'
  <2>1. cache' \in [Block -> Value \cup {NoBuf}]
    BY <1>0, <1>5, Zenon DEF TypeOK, Read
  <2>2. UNCHANGED <<diskVars, dirty, lh, outstanding, committing, procVars, stepVars>>
    BY <1>5, Zenon DEF Read
  <2>3. QED
    BY <1>0, <2>1, <2>2, Zenon DEF TypeOK, diskVars, procVars, stepVars
<1>6. ASSUME NEW p \in Proc, NEW b \in Block, NEW v \in Value, log_write(p, b, v), ~panicked
      PROVE  TypeOK'
  <2>1. /\ lh' \in {lh, Append(lh, b)} /\ dirty' \in {dirty, dirty \cup {b}}
        /\ wrote' \in {wrote, [wrote EXCEPT ![p] = @ + 1]} /\ panicked' \in {panicked, TRUE}
        /\ cache' = [cache EXCEPT ![b] = v]
    BY <1>6, Zenon DEF log_write, pin
  <2>2. /\ lh' \in Seq(Block) /\ cache' \in [Block -> Value \cup {NoBuf}]
        /\ dirty' \subseteq Block /\ wrote' \in [Proc -> Nat] /\ panicked' \in BOOLEAN
    <3>1. /\ lh \in Seq(Block) /\ cache \in [Block -> Value \cup {NoBuf}]
          /\ dirty \subseteq Block /\ wrote \in [Proc -> Nat] /\ panicked \in BOOLEAN
      BY <1>0, Zenon DEF TypeOK
    <3>2. lh' \in Seq(Block)
      <4>1. Append(lh, b) \in Seq(Block)
        BY <3>1
      <4>2. QED
        BY <2>1, <3>1, <4>1, Zenon
    <3>3. dirty' \subseteq Block /\ panicked' \in BOOLEAN
      BY <2>1, <3>1, Zenon
    <3>4. wrote[p] + 1 \in Nat
      BY <3>1
    <3>5. cache' \in [Block -> Value \cup {NoBuf}] /\ wrote' \in [Proc -> Nat]
      BY <2>1, <3>1, <3>4, Zenon
    <3>6. QED
      BY <3>2, <3>3, <3>5, Zenon
  <2>3. UNCHANGED <<diskVars, outstanding, committing, pc, depth, stage, tail, up>>
    BY <1>6, Zenon DEF log_write
  <2>4. QED
    BY <1>0, <2>2, <2>3, Zenon DEF TypeOK, diskVars
<1>7. ASSUME NEW b \in Block, bget(b), ~panicked
      PROVE  TypeOK'
  <2>1. cache' \in [Block -> Value \cup {NoBuf}]
    BY <1>0, <1>7, Zenon DEF TypeOK, bget
  <2>2. UNCHANGED <<diskVars, dirty, lh, outstanding, committing, procVars, stepVars>>
    BY <1>7, Zenon DEF bget
  <2>3. QED
    BY <1>0, <2>1, <2>2, Zenon DEF TypeOK, diskVars, procVars, stepVars
<1>8. ASSUME write_log, ~panicked
      PROVE  TypeOK'
  <2>1. tail \in 1..Len(lh) /\ tail \in Slot
    BY <1>0, <1>8, Constants DEF LInv, TypeOK, HeaderFollows, Slot, write_log
  <2>2. lh[tail] \in Block
    BY <1>0, <2>1 DEF TypeOK
  <2>3. bread(lh[tail]) \in Value
    BY <1>0, <2>2, Zenon DEF TypeOK, bread
  <2>4. logBlock' \in [Slot -> Value]
    BY <1>0, <1>8, <2>1, <2>3, Zenon DEF TypeOK, write_log
  <2>5. /\ tail' \in Nat \ {0}
        /\ stage' \in {"boot", "log", "head", "install", "erase", "end", "none"}
    BY <1>0, <1>8 DEF TypeOK, write_log
  <2>6. UNCHANGED <<home, head, memVars, procVars, up, panicked>>
    BY <1>8, Zenon DEF write_log
  <2>7. QED
    BY <1>0, <2>4, <2>5, <2>6, Zenon DEF TypeOK, memVars, procVars
<1>9. ASSUME write_head, ~panicked
      PROVE  TypeOK'
  <2>1. head' = lh /\ stage' = "install"
    BY <1>9, Zenon DEF write_head
  <2>2. UNCHANGED <<home, logBlock, memVars, procVars, tail, up, panicked>>
    BY <1>9, Zenon DEF write_head
  <2>3. QED
    BY <1>0, <2>1, <2>2, Zenon DEF TypeOK, memVars, procVars
<1>10. ASSUME install_trans, ~panicked
      PROVE  TypeOK'
  <2>1. UNCHANGED <<logBlock, head, lh, outstanding, committing, procVars, up, panicked>>
    BY <1>10, Zenon DEF install_trans
  <2>2. /\ home' \in [Block -> Value] /\ cache' \in [Block -> Value \cup {NoBuf}]
        /\ dirty' \subseteq Block /\ tail' \in Nat \ {0} /\ stage' \in {"install", "erase"}
    <3>1. CASE tail <= Len(lh)
      <4>1. tail \in 1..Len(lh) /\ tail \in Slot
        BY <1>0, <1>10, <3>1, Constants DEF LInv, TypeOK, HeaderFollows, Slot
      <4>2. lh[tail] \in Block /\ logBlock[tail] \in Value
        BY <1>0, <4>1 DEF TypeOK
      <4>3. /\ home' = [home EXCEPT ![lh[tail]] = logBlock[tail]]
            /\ cache' = [cache EXCEPT ![lh[tail]] = logBlock[tail]]
            /\ dirty' = dirty \ {lh[tail]} /\ tail' = tail + 1 /\ stage' = "install"
        BY <1>10, <3>1, Zenon DEF install_trans, lastTail
      <4>4. home' \in [Block -> Value] /\ cache' \in [Block -> Value \cup {NoBuf}]
        BY <1>0, <4>2, <4>3, Zenon DEF TypeOK
      <4>5. dirty' \subseteq Block /\ tail' \in Nat \ {0} /\ stage' = "install"
        BY <1>0, <4>3 DEF TypeOK
      <4>6. QED
        BY <4>4, <4>5, Zenon
    <3>2. CASE ~(tail <= Len(lh))
      BY <1>0, <1>10, <3>2 DEF TypeOK, install_trans, lastTail
    <3>3. QED
      BY <3>1, <3>2, Zenon
  <2>3. QED
    BY <1>0, <2>1, <2>2, Zenon DEF TypeOK, procVars
<1>11. ASSUME erase, ~panicked
      PROVE  TypeOK'
  <2>1. lh' = <<>> /\ head' = <<>> /\ stage' \in {"end", "none"} /\ up' = TRUE
    BY <1>11, Zenon DEF erase
  <2>2. UNCHANGED <<home, logBlock, cache, dirty, outstanding, committing, procVars, tail, panicked>>
    BY <1>11, Zenon DEF erase
  <2>3. QED
    BY <1>0, <2>1, <2>2 DEF TypeOK, procVars
<1>12. ASSUME read_head, ~panicked
      PROVE  TypeOK'
  <2>1. lh' = head /\ stage' = "install"
    BY <1>12, Zenon DEF read_head
  <2>2. UNCHANGED <<diskVars, cache, dirty, outstanding, committing, procVars, tail, up, panicked>>
    BY <1>12, Zenon DEF read_head
  <2>3. QED
    BY <1>0, <2>1, <2>2, Zenon DEF TypeOK, diskVars, procVars
<1>13. ASSUME Crash
      PROVE  TypeOK'
  <2>1. UNCHANGED diskVars /\ PowerOff
    BY <1>13, Zenon DEF Crash
  <2>2. /\ cache' \in [Block -> Value \cup {NoBuf}] /\ pc' \in [Proc -> Place]
        /\ depth' \in [Proc -> Nat] /\ wrote' \in [Proc -> Nat]
    BY <2>1, Zenon DEF Place, PowerOff
  <2>3. /\ dirty' = {} /\ lh' = <<>> /\ outstanding' = 0 /\ committing' = FALSE
        /\ stage' = "boot" /\ tail' = 1 /\ up' = FALSE /\ panicked' = FALSE
    BY <2>1, Zenon DEF PowerOff
  <2>4. /\ dirty' \subseteq Block /\ lh' \in Seq(Block) /\ outstanding' \in Int
        /\ committing' \in BOOLEAN /\ tail' \in Nat \ {0} /\ up' \in BOOLEAN
        /\ panicked' \in BOOLEAN
        /\ stage' \in {"boot", "log", "head", "install", "erase", "end", "none"}
    <3>1. lh' \in Seq(Block)
      BY <2>3
    <3>2. dirty' \subseteq Block /\ outstanding' \in Int /\ tail' \in Nat \ {0}
      BY <2>3
    <3>3. committing' \in BOOLEAN /\ up' \in BOOLEAN /\ panicked' \in BOOLEAN
      BY <2>3, Zenon
    <3>4. stage' \in {"boot", "log", "head", "install", "erase", "end", "none"}
      BY <2>3, Zenon
    <3>5. QED
      BY <3>1, <3>2, <3>3, <3>4, Zenon
  <2>5. home' = home /\ logBlock' = logBlock /\ head' = head
    BY <2>1, Zenon DEF diskVars
  <2>6. QED
    BY <1>0, <2>2, <2>4, <2>5, Zenon DEF TypeOK
<1>14. QED
  BY <1>1, <1>2, <1>3, <1>4, <1>5, <1>6, <1>7, <1>8, <1>9, <1>10, <1>11, <1>12, <1>13, Zenon
     DEF Next, Run, CommitStep, ProcStep

(* outstanding counts the operations. *)
LEMMA OpsStep ==
  ASSUME LInv, Next
  PROVE  OpsAreCounted'
<1>0. LInv
  OBVIOUS
<1>1. ASSUME NEW p \in Proc, Call(p), ~panicked
      PROVE  OpsAreCounted'
  BY <1>0, <1>1, Zenon DEF LInv, TypeOK, OpsAreCounted, InOp, Call, diskVars, memVars, stepVars
<1>2. ASSUME NEW p \in Proc, begin_op(p), ~panicked
      PROVE  OpsAreCounted'
  <2>1. CASE committing \/ NoSpace
    BY <1>0, <1>2, <2>1, Zenon DEF LInv, TypeOK, OpsAreCounted, InOp, begin_op
  <2>2. CASE ~(committing \/ NoSpace)
    <3>1. Cardinality(InOp') = Cardinality(InOp) + 1
      BY <1>0, <1>2, <2>2, EnterOp, Zenon DEF LInv, begin_op
    <3>2. QED
      BY <1>0, <1>2, <2>2, <3>1 DEF LInv, TypeOK, OpsAreCounted, begin_op
  <2>3. QED
    BY <2>1, <2>2, Zenon
<1>3. ASSUME NEW p \in Proc, end_op(p), ~panicked
      PROVE  OpsAreCounted'
  <2>1. /\ InOp' = InOp \ {p} /\ p \in InOp
    BY <1>0, <1>3, EndOp, Zenon
  <2>2. outstanding' = Cardinality(InOp')
    BY <1>0, <1>3, <2>1, LeaveOp, Zenon DEF LInv, OpsAreCounted, end_op
  <2>3. \A q \in Proc : pc'[q] = "in" <=> pc[q] = "in" /\ q # p
    BY <2>1, Zenon DEF InOp
  <2>4. depth' = [depth EXCEPT ![p] = @ - 1] /\ depth[p] = 1
    BY <1>0, <1>3, EndOp, Zenon DEF end_op
  <2>5. QED
    BY <1>0, <1>3, <2>2, <2>3, <2>4 DEF LInv, TypeOK, OpsAreCounted
<1>4. ASSUME NEW p \in Proc, CommitDone(p), ~panicked
      PROVE  OpsAreCounted'
  <2>1. \A q \in Proc : pc'[q] = "in" <=> pc[q] = "in"
    BY <1>0, <1>4, CommitEnds, Zenon DEF LInv
  <2>2. InOp' = InOp
    BY <2>1, Zenon DEF InOp
  <2>3. QED
    BY <1>0, <1>4, <2>1, <2>2, Zenon DEF LInv, OpsAreCounted, CommitDone
<1>5. ASSUME Crash
      PROVE  OpsAreCounted'
  <2>1. InOp' = {}
    BY <1>5, Zenon DEF InOp, Crash, PowerOff
  <2>2. QED
    BY <1>5, <2>1, FS_EmptySet, Zenon DEF OpsAreCounted, Crash, PowerOff
<1>6. ASSUME UNCHANGED <<pc, depth, outstanding>>
      PROVE  OpsAreCounted'
  BY <1>0, <1>6, Zenon DEF LInv, OpsAreCounted, InOp
<1>7. QED
  BY <1>1, <1>2, <1>3, <1>4, <1>5, <1>6, Zenon
     DEF Next, Run, CommitStep, ProcStep, Read, log_write, bget, write_log, write_head,
         install_trans, erase, read_head, diskVars, memVars, procVars, stepVars

(* Recovery, operations and commit exclude each other. *)
LEMMA PhaseStep ==
  ASSUME LInv, Next
  PROVE  OnePhase'
<1>0. LInv
  OBVIOUS
<1>1. ASSUME NEW p \in Proc, Call(p), ~panicked
      PROVE  OnePhase'
  BY <1>0, <1>1, Zenon DEF LInv, TypeOK, OnePhase, InOp, Call, diskVars, memVars, stepVars
<1>2. ASSUME NEW p \in Proc, begin_op(p), ~panicked
      PROVE  OnePhase'
  BY <1>0, <1>2, Zenon DEF LInv, TypeOK, OnePhase, InOp, begin_op, stepVars
<1>3. ASSUME NEW p \in Proc, end_op(p), ~panicked
      PROVE  OnePhase'
  <2>1. /\ ~committing /\ up /\ stage = "none" /\ panicked' = panicked /\ up' = up
        /\ outstanding = 1 <=> InOp' = {}
    BY <1>0, <1>3, EndOp, Zenon DEF end_op
  <2>2. /\ outstanding = 1 => committing' = TRUE /\ stage' \in {"end", "log"}
        /\ outstanding # 1 => committing' = committing /\ stage' = stage
    BY <1>3, <2>1, Zenon DEF end_op
  <2>3. QED
    BY <1>3, <2>1, <2>2 DEF OnePhase
<1>4. ASSUME NEW p \in Proc, CommitDone(p), ~panicked
      PROVE  OnePhase'
  <2>1. InOp' = InOp
    BY <1>0, <1>4, CommitEnds, Zenon DEF LInv, CommitDone
  <2>2. QED
    BY <1>0, <1>4, <2>1, Zenon DEF LInv, TypeOK, OnePhase, CommitDone
<1>5. ASSUME NEW p \in Proc, NEW b \in Block, NEW v \in Value, log_write(p, b, v), ~panicked
      PROVE  OnePhase'
  <2>1. p \in InOp /\ InOp' = InOp /\ up
    BY <1>0, <1>5, Zenon DEF LInv, TypeOK, OnePhase, InOp, log_write
  <2>2. QED
    BY <1>0, <1>5, <2>1, Zenon DEF LInv, OnePhase, log_write
<1>6. ASSUME write_log, ~panicked
      PROVE  OnePhase'
  <2>1. InOp' = InOp
    BY <1>0, <1>6, Zenon DEF InOp, write_log, procVars
  <2>2. QED
    BY <1>0, <1>6, <2>1, Zenon DEF LInv, OnePhase, write_log, memVars, procVars
<1>7. ASSUME write_head, ~panicked
      PROVE  OnePhase'
  <2>1. InOp' = InOp
    BY <1>0, <1>7, Zenon DEF InOp, write_head, procVars
  <2>2. QED
    BY <1>0, <1>7, <2>1, Zenon DEF LInv, OnePhase, write_head, memVars, procVars
<1>8. ASSUME install_trans, ~panicked
      PROVE  OnePhase'
  <2>1. InOp' = InOp
    BY <1>0, <1>8, Zenon DEF InOp, install_trans, procVars
  <2>2. QED
    BY <1>0, <1>8, <2>1, Zenon DEF LInv, OnePhase, install_trans, procVars
<1>9. ASSUME erase, ~panicked
      PROVE  OnePhase'
  <2>1. InOp' = InOp
    BY <1>0, <1>9, Zenon DEF InOp, erase, procVars
  <2>2. QED
    BY <1>0, <1>9, <2>1, Zenon DEF LInv, OnePhase, erase, memVars, procVars
<1>10. ASSUME read_head, ~panicked
      PROVE  OnePhase'
  <2>1. InOp' = InOp
    BY <1>0, <1>10, Zenon DEF InOp, read_head, procVars
  <2>2. QED
    BY <1>0, <1>10, <2>1, Zenon DEF LInv, OnePhase, read_head, memVars, procVars
<1>11. ASSUME Crash
      PROVE  OnePhase'
  BY <1>0, <1>11, Zenon DEF OnePhase, Crash, PowerOff
<1>12. ASSUME UNCHANGED <<pc, stage, up, committing, panicked, dirty>>
      PROVE  OnePhase'
  BY <1>0, <1>12, Zenon DEF LInv, OnePhase, InOp
<1>13. QED
  BY <1>1, <1>2, <1>3, <1>4, <1>5, <1>6, <1>7, <1>8, <1>9, <1>10, <1>11, <1>12, Zenon
     DEF Next, Run, CommitStep, ProcStep, Read, bget, diskVars, procVars, stepVars

(* log_write happens between commits. *)
LEMMA LogWriteFacts ==
  ASSUME LInv, NEW p \in Proc, NEW b \in Block, NEW v \in Value, log_write(p, b, v)
  PROVE  /\ p \in InOp /\ up /\ ~committing /\ stage = "none" /\ head = <<>>
         /\ InOp' = InOp /\ stage' = stage /\ home' = home
         /\ cache' = [cache EXCEPT ![b] = v]
         /\ ~panicked' => lh' = (IF Logged(b) THEN lh ELSE Append(lh, b)) /\ dirty' = dirty \cup {b}
         /\ panicked' => lh' = lh \/ panicked
<1>1. p \in InOp /\ InOp' = InOp
  BY Zenon DEF LInv, TypeOK, InOp, log_write
<1>2. up /\ ~committing /\ stage = "none"
  BY <1>1, Zenon DEF LInv, TypeOK, OnePhase, InOp, log_write
<1>3. QED
  BY <1>1, <1>2, Zenon DEF LInv, HeaderFollows, log_write, pin, diskVars

(* The header on disk follows the one in memory. *)
LEMMA HeaderStep ==
  ASSUME LInv, Next
  PROVE  HeaderFollows'
<1>0. LInv
  OBVIOUS
<1>1. ASSUME NEW p \in Proc, Call(p), ~panicked
      PROVE  HeaderFollows'
  BY <1>0, <1>1, Zenon DEF LInv, TypeOK, HeaderFollows, InOp, Call, diskVars, memVars, stepVars
<1>2. ASSUME NEW p \in Proc, begin_op(p), ~panicked
      PROVE  HeaderFollows'
  BY <1>0, <1>2, Zenon DEF LInv, TypeOK, HeaderFollows, InOp, begin_op, diskVars, stepVars
<1>3. ASSUME NEW p \in Proc, end_op(p), ~panicked
      PROVE  HeaderFollows'
  <2>1. /\ stage = "none" /\ head = <<>> /\ lh' = lh /\ head' = head
        /\ stage' \in {"end", "log", "none"} /\ (stage' = "end" => lh = <<>>)
        /\ (stage' = "log" => lh # <<>> /\ tail' = 1)
        /\ (stage' = "none" => InOp' # {})
    BY <1>0, <1>3, EndOp, Zenon DEF LInv, HeaderFollows, end_op, diskVars
  <2>2. QED
    BY <1>0, <1>3, <2>1 DEF LInv, TypeOK, HeaderFollows
<1>4. ASSUME NEW p \in Proc, CommitDone(p), ~panicked
      PROVE  HeaderFollows'
  BY <1>0, <1>4, Zenon DEF LInv, HeaderFollows, CommitDone, diskVars
<1>5. ASSUME NEW p \in Proc, NEW b \in Block, NEW v \in Value, log_write(p, b, v), ~panicked
      PROVE  HeaderFollows'
  <2>1. /\ p \in InOp' /\ stage' = "none" /\ head = <<>> /\ head' = head
    BY <1>0, <1>5, LogWriteFacts, Zenon DEF log_write, diskVars
  <2>2. Distinct(lh') /\ Len(lh') <= LOGSIZE
    <3>1. CASE lh' = lh
      BY <1>0, <1>5, <3>1, Zenon DEF LInv, HeaderFollows
    <3>2. CASE lh' = Append(lh, b) /\ ~Logged(b) /\ ~LogFull
      BY <1>0, <1>5, <3>2, Constants DEF LInv, TypeOK, HeaderFollows, Distinct, Logged, LogFull
    <3>3. QED
      BY <1>0, <1>5, <3>1, <3>2, Zenon DEF log_write
  <2>3. QED
    BY <1>0, <1>5, <2>1, <2>2, Zenon DEF LInv, HeaderFollows
<1>6. ASSUME write_log, ~panicked
      PROVE  HeaderFollows'
  BY <1>0, <1>6 DEF LInv, TypeOK, HeaderFollows, InOp, write_log, memVars, procVars
<1>7. ASSUME write_head, ~panicked
      PROVE  HeaderFollows'
  BY <1>0, <1>7 DEF LInv, TypeOK, HeaderFollows, write_head, memVars, procVars
<1>8. ASSUME install_trans, ~panicked
      PROVE  HeaderFollows'
  BY <1>0, <1>8 DEF LInv, TypeOK, HeaderFollows, install_trans, lastTail, procVars
<1>9. ASSUME erase, ~panicked
      PROVE  HeaderFollows'
  BY <1>0, <1>9, Constants DEF LInv, HeaderFollows, Distinct, erase, procVars
<1>10. ASSUME read_head, ~panicked
      PROVE  HeaderFollows'
  BY <1>0, <1>10 DEF LInv, TypeOK, HeaderFollows, read_head, diskVars, procVars
<1>11. ASSUME Crash
      PROVE  HeaderFollows'
  BY <1>0, <1>11, Constants DEF LInv, HeaderFollows, Distinct, Crash, PowerOff, diskVars
<1>12. ASSUME UNCHANGED <<pc, lh, head, stage, tail>>
      PROVE  HeaderFollows'
  BY <1>0, <1>12, Zenon DEF LInv, HeaderFollows, InOp
<1>13. QED
  BY <1>1, <1>2, <1>3, <1>4, <1>5, <1>6, <1>7, <1>8, <1>9, <1>10, <1>11, <1>12, Zenon
     DEF Next, Run, CommitStep, ProcStep, Read, bget, diskVars, procVars, stepVars

(* The dirty buffers are those that are logged and not installed. *)
LEMMA CacheStep ==
  ASSUME LInv, Next
  PROVE  CacheFollows'
<1>0. LInv
  OBVIOUS
<1>1. ASSUME NEW p \in Proc, end_op(p), ~panicked
      PROVE  CacheFollows'
  <2>1. /\ stage = "none" /\ panicked' = panicked /\ stage' \in {"end", "log", "none"}
        /\ stage' = "end" => lh = <<>>
        /\ UNCHANGED <<lh, home, cache, dirty, up>>
    BY <1>0, <1>1, EndOp, Zenon DEF end_op, diskVars
  <2>2. stage' = "end" => dirty = {}
    BY <1>0, <1>1, <2>1 DEF LInv, TypeOK, CacheFollows, Logged
  <2>3. QED
    BY <1>0, <1>1, <2>1, <2>2, Zenon DEF LInv, CacheFollows, Logged
<1>2. ASSUME NEW p \in Proc, CommitDone(p), ~panicked
      PROVE  CacheFollows'
  <2>1. lh = <<>> /\ dirty = {}
    BY <1>0, <1>2, Zenon DEF LInv, HeaderFollows, CacheFollows, CommitDone
  <2>2. QED
    BY <1>0, <1>2, <2>1 DEF LInv, TypeOK, CacheFollows, Logged, CommitDone, diskVars
<1>3. ASSUME NEW p \in Proc, NEW b \in Block, Read(p, b), ~panicked
      PROVE  CacheFollows'
  BY <1>0, <1>3, Constants, Zenon
     DEF LInv, TypeOK, CacheFollows, Logged, Read, diskVars, procVars, stepVars
<1>4. ASSUME NEW p \in Proc, NEW b \in Block, NEW v \in Value, log_write(p, b, v), ~panicked
      PROVE  CacheFollows'
  <2>0. SUFFICES ASSUME ~panicked' PROVE CacheFollows'
    BY Zenon DEF CacheFollows
  <2>1. /\ stage' = "none" /\ stage = "none" /\ home' = home /\ cache' = [cache EXCEPT ![b] = v]
        /\ lh' = (IF Logged(b) THEN lh ELSE Append(lh, b)) /\ dirty' = dirty \cup {b}
    BY <1>0, <1>4, <2>0, LogWriteFacts, Zenon
  <2>2. \A c \in Block : Logged(c)' <=> Logged(c) \/ c = b
    <3>1. CASE Logged(b)
      BY <2>1, <3>1, Zenon DEF Logged
    <3>2. CASE ~Logged(b)
      <4>1. lh \in Seq(Block) /\ lh' = Append(lh, b)
        BY <1>0, <1>4, <2>1, <3>2, Zenon DEF LInv, TypeOK
      <4>2. Len(lh') = Len(lh) + 1 /\ lh'[Len(lh) + 1] = b /\ \A i \in 1..Len(lh) : lh'[i] = lh[i]
        BY <4>1
      <4>3. QED
        BY <4>1, <4>2 DEF Logged
    <3>3. QED
      BY <3>1, <3>2, Zenon
  <2>3. \A c \in Block : c \in dirty' <=> Logged(c)'
    BY <1>0, <1>4, <2>1, <2>2, Zenon DEF LInv, CacheFollows
  <2>4. QED
    BY <1>0, <1>4, <2>1, <2>3, Constants DEF LInv, TypeOK, CacheFollows
<1>5. ASSUME NEW b \in Block, bget(b), ~panicked
      PROVE  CacheFollows'
  BY <1>0, <1>5, Constants
     DEF LInv, TypeOK, CacheFollows, Logged, bget, diskVars, procVars, stepVars
<1>6. ASSUME write_log, ~panicked
      PROVE  CacheFollows'
  BY <1>0, <1>6, Zenon DEF LInv, CacheFollows, Logged, write_log, memVars, procVars
<1>7. ASSUME write_head, ~panicked
      PROVE  CacheFollows'
  <2>1. tail = 1 /\ lh \in Seq(Block)
    BY <1>0, <1>7, Zenon DEF LInv, TypeOK, HeaderFollows, write_head
  <2>2. QED
    BY <1>0, <1>7, <2>1, Zenon DEF LInv, CacheFollows, Logged, write_head, memVars, procVars
<1>8. ASSUME install_trans, ~panicked
      PROVE  CacheFollows'
  <2>1. CASE tail <= Len(lh)
    <3>1. /\ tail \in 1..Len(lh) /\ lh[tail] \in Block
          /\ logBlock[tail] \in Value /\ Distinct(lh) /\ dirty \subseteq Block
      BY <1>0, <1>8, <2>1, Constants DEF LInv, TypeOK, HeaderFollows, Slot
    <3>2. /\ home' = [home EXCEPT ![lh[tail]] = logBlock[tail]]
          /\ cache' = [cache EXCEPT ![lh[tail]] = logBlock[tail]]
          /\ dirty' = dirty \ {lh[tail]} /\ tail' = tail + 1
          /\ stage = "install" /\ UNCHANGED <<stage, lh, up, panicked>>
      BY <1>0, <1>8, <2>1, Zenon DEF install_trans, lastTail
    <3>3. \A b \in Block : b \notin dirty' => cache'[b] \in {NoBuf, home'[b]}
      BY <1>0, <1>8, <3>1, <3>2, Zenon DEF LInv, TypeOK, CacheFollows
    <3>4. \A b \in dirty' : cache'[b] # NoBuf
      BY <1>0, <1>8, <3>1, <3>2, Zenon DEF LInv, TypeOK, CacheFollows
    <3>5. ASSUME up PROVE \A b \in Block : b \in dirty' <=> \E i \in tail'..Len(lh) : lh[i] = b
      <4>1. \A b \in Block : b \in dirty <=> \E i \in tail..Len(lh) : lh[i] = b
        BY <1>0, <1>8, <3>2, <3>5, Zenon DEF LInv, CacheFollows
      <4>2. \A i \in tail..Len(lh) : i = tail \/ i \in (tail + 1)..Len(lh)
        BY <3>1
      <4>3. \A i \in (tail + 1)..Len(lh) : i \in tail..Len(lh) /\ lh[i] # lh[tail]
        BY <3>1 DEF Distinct
      <4>4. QED
        BY <3>1, <3>2, <4>1, <4>2, <4>3, Zenon
    <3>6. QED
      BY <3>2, <3>3, <3>4, <3>5, Zenon DEF CacheFollows
  <2>2. CASE ~(tail <= Len(lh))
    <3>1. UNCHANGED <<home, cache, dirty, up, panicked>> /\ stage' = "erase" /\ stage = "install"
      BY <1>0, <1>8, <2>2, Zenon DEF install_trans, lastTail
    <3>2. dirty = {}
      BY <1>0, <1>8, <2>2, <3>1 DEF LInv, TypeOK, OnePhase, CacheFollows
    <3>3. QED
      BY <1>0, <1>8, <3>1, <3>2, Zenon DEF LInv, CacheFollows
  <2>3. QED
    BY <2>1, <2>2, Zenon
<1>9. ASSUME erase, ~panicked
      PROVE  CacheFollows'
  <2>1. dirty = {} /\ dirty' = {} /\ lh' = <<>> /\ stage' \in {"end", "none"}
    BY <1>0, <1>9, Zenon DEF LInv, CacheFollows, erase
  <2>2. QED
    BY <1>0, <1>9, <2>1 DEF LInv, CacheFollows, Logged, erase
<1>10. ASSUME read_head, ~panicked
      PROVE  CacheFollows'
  BY <1>0, <1>10, Zenon DEF LInv, OnePhase, CacheFollows, read_head, diskVars
<1>11. ASSUME Crash
      PROVE  CacheFollows'
  BY <1>0, <1>11, Zenon DEF CacheFollows, Crash, PowerOff
<1>12. ASSUME UNCHANGED <<home, cache, dirty, lh, stage, tail, up, panicked>>
      PROVE  CacheFollows'
  BY <1>0, <1>12, Zenon DEF LInv, CacheFollows, Logged
<1>13. QED
  BY <1>1, <1>2, <1>3, <1>4, <1>5, <1>6, <1>7, <1>8, <1>9, <1>10, <1>11, <1>12, Zenon
     DEF Next, Run, CommitStep, ProcStep, Call, begin_op, diskVars, memVars, stepVars

(* What LogFollows says of the cache it says of dirty buffers. *)
LEMMA LoggedIsDirty ==
  ASSUME LInv, ~panicked
  PROVE  /\ stage = "log" => \A i \in 1..(tail - 1) : lh[i] \in dirty
         /\ stage = "head" => \A i \in 1..Len(lh) : lh[i] \in dirty
         /\ stage = "install" /\ up => \A i \in tail..Len(lh) : lh[i] \in dirty
<1>1. /\ tail \in Nat \ {0} /\ \A i \in 1..Len(lh) : lh[i] \in Block
      /\ Len(lh) \in Nat /\ (stage = "log" => tail <= Len(lh))
  BY DEF LInv, TypeOK, HeaderFollows
<1>2. CacheFollows
  BY Zenon DEF LInv
<1>3. QED
  BY <1>1, <1>2 DEF CacheFollows, Logged

(* The log on disk holds what is to be installed. *)
LEMMA LogStep ==
  ASSUME LInv, Next
  PROVE  LogFollows'
<1>0. LInv
  OBVIOUS
<1>1. ASSUME NEW p \in Proc, end_op(p), ~panicked
      PROVE  LogFollows'
  <2>1. ~committing /\ stage = "none"
    BY <1>0, <1>1, EndOp, Zenon
  <2>2. stage' \in {"end", "none"} \/ (stage' = "log" /\ tail' = 1)
    BY <1>1, <2>1, Zenon DEF end_op
  <2>3. QED
    BY <2>2 DEF LogFollows
<1>2. ASSUME NEW p \in Proc, CommitDone(p), ~panicked
      PROVE  LogFollows'
  BY <1>2, Zenon DEF LogFollows, CommitDone
<1>3. ASSUME NEW p \in Proc, NEW b \in Block, Read(p, b), ~panicked
      PROVE  LogFollows'
  <2>1. b \notin dirty /\ UNCHANGED <<home, logBlock, lh, stage, tail, up, panicked>>
    BY <1>0, <1>3, Zenon DEF LInv, CacheFollows, Read, diskVars, stepVars
  <2>2. \A c \in dirty : cache'[c] = cache[c]
    BY <1>0, <1>3, <2>1, Zenon DEF LInv, TypeOK, Read
  <2>3. QED
    BY <1>0, <1>3, <2>1, <2>2, LoggedIsDirty DEF LInv, LogFollows
<1>4. ASSUME NEW p \in Proc, NEW b \in Block, NEW v \in Value, log_write(p, b, v), ~panicked
      PROVE  LogFollows'
  BY <1>0, <1>4, LogWriteFacts, Zenon DEF LogFollows
<1>5. ASSUME NEW b \in Block, bget(b), ~panicked
      PROVE  LogFollows'
  <2>1. b \notin dirty /\ UNCHANGED <<home, logBlock, lh, stage, tail, up, panicked>>
    BY <1>5, Zenon DEF bget, diskVars, stepVars
  <2>2. \A c \in dirty : cache'[c] = cache[c]
    BY <1>0, <1>5, <2>1, Zenon DEF LInv, TypeOK, bget
  <2>3. QED
    BY <1>0, <1>5, <2>1, <2>2, LoggedIsDirty DEF LInv, LogFollows
<1>6. ASSUME write_log, ~panicked
      PROVE  LogFollows'
  <2>1. /\ tail \in 1..Len(lh) /\ tail \in Slot /\ stage = "log" /\ up /\ lh[tail] \in Block
    BY <1>0, <1>6, Constants DEF LInv, TypeOK, OnePhase, HeaderFollows, Slot, write_log
  <2>2. bread(lh[tail]) = cache[lh[tail]]
    BY <1>0, <1>6, <2>1, Zenon DEF LInv, CacheFollows, Logged, bread
  <2>3. /\ logBlock'[tail] = cache[lh[tail]] /\ \A i \in 1..(tail - 1) : logBlock'[i] = logBlock[i]
    BY <1>0, <1>6, <2>1, <2>2, Constants DEF LInv, TypeOK, HeaderFollows, Slot, write_log
  <2>4. \A i \in 1..tail : logBlock'[i] = cache[lh[i]]
    <3>1. \A i \in 1..tail : i = tail \/ i \in 1..(tail - 1)
      BY <2>1
    <3>2. QED
      BY <1>0, <1>6, <2>1, <2>3, <3>1 DEF LInv, LogFollows
  <2>5. QED
    BY <1>0, <1>6, <2>1, <2>4 DEF LogFollows, write_log, memVars
<1>7. ASSUME write_head, ~panicked
      PROVE  LogFollows'
  <2>1. tail = 1 /\ stage = "head"
    BY <1>0, <1>7, Zenon DEF LInv, HeaderFollows, write_head
  <2>2. QED
    BY <1>0, <1>7, <2>1 DEF LInv, LogFollows, write_head, memVars
<1>8. ASSUME install_trans, ~panicked
      PROVE  LogFollows'
  <2>1. CASE tail <= Len(lh)
    <3>1. /\ tail \in 1..Len(lh) /\ \A i \in 1..Len(lh) : lh[i] \in Block
          /\ logBlock[tail] \in Value /\ Distinct(lh)
      BY <1>0, <1>8, <2>1, Constants DEF LInv, TypeOK, HeaderFollows, Slot
    <3>2. /\ home' = [home EXCEPT ![lh[tail]] = logBlock[tail]]
          /\ cache' = [cache EXCEPT ![lh[tail]] = logBlock[tail]]
          /\ tail' = tail + 1
          /\ stage = "install" /\ UNCHANGED <<stage, lh, up, panicked, logBlock>>
      BY <1>0, <1>8, <2>1, Zenon DEF install_trans, lastTail
    <3>3. \A i \in 1..tail : home'[lh[i]] = logBlock[i]
      <4>1. \A i \in 1..tail : i \in 1..Len(lh) /\ (i = tail \/ i \in 1..(tail - 1))
        BY <3>1
      <4>2. \A i \in 1..(tail - 1) : home[lh[i]] = logBlock[i]
        BY <1>0, <1>8, <3>2, Zenon DEF LInv, LogFollows
      <4>3. home \in [Block -> Value]
        BY <1>0, <1>8, Zenon DEF LInv, TypeOK
      <4>4. QED
        BY <3>1, <3>2, <4>1, <4>2, <4>3, Zenon DEF Distinct
    <3>4. ASSUME up PROVE \A i \in (tail + 1)..Len(lh) : cache'[lh[i]] = logBlock[i]
      <4>1. \A i \in (tail + 1)..Len(lh) : i \in tail..Len(lh) /\ i \in 1..Len(lh) /\ i # tail
        BY <3>1
      <4>2. \A i \in tail..Len(lh) : cache[lh[i]] = logBlock[i]
        BY <1>0, <1>8, <3>2, <3>4, Zenon DEF LInv, LogFollows
      <4>3. cache \in [Block -> Value \cup {NoBuf}]
        BY <1>0, <1>8, Zenon DEF LInv, TypeOK
      <4>4. QED
        BY <3>1, <3>2, <4>1, <4>2, <4>3, Zenon DEF Distinct
    <3>5. QED
      BY <3>1, <3>2, <3>3, <3>4 DEF LogFollows
  <2>2. CASE ~(tail <= Len(lh))
    <3>1. stage = "install" /\ stage' = "erase" /\ UNCHANGED <<home, lh, logBlock>>
      BY <1>8, <2>2, Zenon DEF install_trans, lastTail
    <3>2. 1..Len(lh) \subseteq 1..(tail - 1)
      BY <1>0, <1>8, <2>2 DEF LInv, TypeOK
    <3>3. QED
      BY <1>0, <1>8, <3>1, <3>2, Zenon DEF LInv, LogFollows
  <2>3. QED
    BY <2>1, <2>2
<1>9. ASSUME erase, ~panicked
      PROVE  LogFollows'
  BY <1>9, Zenon DEF LogFollows, erase
<1>10. ASSUME read_head, ~panicked
      PROVE  LogFollows'
  <2>1. tail = 1 /\ ~up /\ stage = "boot"
    BY <1>0, <1>10, Zenon DEF LInv, OnePhase, HeaderFollows, read_head
  <2>2. QED
    BY <1>10, <2>1 DEF LogFollows, read_head
<1>11. ASSUME Crash
      PROVE  LogFollows'
  BY <1>11, Zenon DEF LogFollows, Crash, PowerOff
<1>12. ASSUME UNCHANGED <<home, cache, logBlock, lh, stage, tail, up, panicked>>
      PROVE  LogFollows'
  BY <1>0, <1>12, Zenon DEF LInv, LogFollows
<1>13. QED
  BY <1>1, <1>2, <1>3, <1>4, <1>5, <1>6, <1>7, <1>8, <1>9, <1>10, <1>11, <1>12, Zenon
     DEF Next, Run, CommitStep, ProcStep, Call, begin_op, diskVars, memVars, stepVars

(* The blocks that may still be added are finitely many. *)
LEMMA MayLogFinite ==
  ASSUME NEW S, S \subseteq Proc, NEW R, R \subseteq S \X (1..OPBLOCKS)
  PROVE  /\ IsFiniteSet(R) /\ Cardinality(R) \in Nat
         /\ Cardinality(R) <= Cardinality(S) * OPBLOCKS
<1>1. IsFiniteSet(1..OPBLOCKS) /\ Cardinality(1..OPBLOCKS) = OPBLOCKS
  BY Constants, FS_Interval
<1>2. IsFiniteSet(S \X (1..OPBLOCKS))
      /\ Cardinality(S \X (1..OPBLOCKS)) = Cardinality(S) * OPBLOCKS
  BY <1>1, ProcSets, FS_Product, ZenonT(40)
<1>3. R \in SUBSET (S \X (1..OPBLOCKS))
  OBVIOUS
<1>4. IsFiniteSet(R) /\ Cardinality(R) <= Cardinality(S \X (1..OPBLOCKS))
  BY <1>2, <1>3, FS_Subset, Zenon
<1>5. QED
  BY <1>2, <1>4, FS_CardinalityType, Zenon

(* Operations that write less than they reserve leave one block each. *)
LEMMA Spare ==
  ASSUME NEW k \in Nat, NEW a \in Nat, NEW b \in Nat, a < b
  PROVE  k * a \in Nat /\ k * b \in Nat /\ k * a + k <= k * b
<1>1. PICK c \in Nat : b = (a + 1) + c
  <2>1. b - (a + 1) \in Nat /\ b = (a + 1) + (b - (a + 1))
    OBVIOUS
  <2>2. QED
    BY <2>1, Zenon
<1>2. k * b = (k * a + k) + k * c
  BY <1>1
<1>3. k * a \in Nat /\ k * c \in Nat /\ k * b \in Nat
  BY <1>1
<1>4. QED
  BY <1>2, <1>3

(* Fewer blocks to come, and neither a longer log nor a longer header: it  *)
(* still fits.                                                             *)
LEMMA StillFits ==
  ASSUME LInv, Len(lh') \in Nat, Len(lh') <= Len(lh), MayLog' \subseteq MayLog,
         head' \in {head, lh, <<>>}
  PROVE  LogHasRoom'
<1>0. SUFFICES ASSUME LogIsLarge
               PROVE  Len(lh') + Cardinality(MayLog') < LOGSIZE - 1 /\ Len(head') < LOGSIZE - 1
  BY Zenon DEF LogHasRoom
<1>1. IsFiniteSet(MayLog) /\ Cardinality(MayLog) \in Nat
  BY MayLogFinite, Zenon DEF MayLog, InOp
<1>2. Cardinality(MayLog') \in Nat /\ Cardinality(MayLog') <= Cardinality(MayLog)
  BY <1>1, FS_Subset, FS_CardinalityType, Zenon
<1>3. lh \in Seq(Block) /\ Len(lh) + Cardinality(MayLog) < LOGSIZE - 1 /\ Len(head) < LOGSIZE - 1
  BY <1>0, Zenon DEF LInv, TypeOK, LogHasRoom
<1>4. Len(lh') + Cardinality(MayLog') < LOGSIZE - 1 /\ Len(lh) < LOGSIZE - 1 /\ 0 < LOGSIZE - 1
  BY <1>1, <1>2, <1>3, Constants
<1>5. QED
  BY <1>3, <1>4

(* What may still be logged fits: begin_op counts an operation with more   *)
(* blocks than it writes, log_write takes one of them.                     *)
LEMMA FitsStep ==
  ASSUME LInv, Next
  PROVE  LogHasRoom'
<1>0. LInv /\ lh \in Seq(Block) /\ Len(lh) \in Nat
  BY DEF LInv, TypeOK
<1>1. ASSUME NEW p \in Proc, Call(p), ~panicked
      PROVE  LogHasRoom'
  <2>1. InOp' = InOp /\ wrote' = wrote /\ lh' = lh /\ head' = head
    BY <1>0, <1>1, Zenon DEF LInv, TypeOK, InOp, Call, memVars, diskVars
  <2>2. QED
    BY <1>0, <1>1, <2>1, StillFits DEF MayLog
<1>2. ASSUME NEW p \in Proc, begin_op(p), ~panicked
      PROVE  LogHasRoom'
  <2>1. lh' = lh /\ head' = head
    BY <1>2, Zenon DEF begin_op, diskVars
  <2>2. CASE committing \/ NoSpace
    <3>1. InOp' = InOp /\ wrote' = wrote
      BY <1>0, <1>2, <2>2, Zenon DEF LInv, TypeOK, InOp, begin_op
    <3>2. QED
      BY <1>0, <1>2, <2>1, <3>1, StillFits DEF MayLog
  <2>3. CASE ~(committing \/ NoSpace)
    <3>0. SUFFICES ASSUME LogIsLarge
                   PROVE  Len(lh') + Cardinality(MayLog') < LOGSIZE - 1 /\ Len(head') < LOGSIZE - 1
      BY Zenon DEF LogHasRoom
    <3>1. Cardinality(InOp') = outstanding + 1
      BY <1>0, <1>2, <2>3, EnterOp, Zenon DEF LInv, OpsAreCounted, begin_op
    <3>2. InOp' \subseteq Proc /\ MayLog' \subseteq InOp' \X (1..OPBLOCKS)
      BY Zenon DEF InOp, MayLog
    <3>3. Cardinality(MayLog') \in Nat /\ Cardinality(MayLog') <= (outstanding + 1) * OPBLOCKS
      BY <3>1, <3>2, MayLogFinite, Zenon
    <3>4. outstanding \in Nat /\ (outstanding = 0 => InOp = {})
      BY <1>0, ProcSets, Zenon DEF LInv, OpsAreCounted, InOp
    <3>5. outstanding = 0 => Len(lh) = 0
      <4>1. up /\ stage = "none"
        BY <1>0, <1>2, <2>3, Zenon DEF LInv, OnePhase, begin_op
      <4>2. outstanding = 0 => lh = <<>>
        BY <1>0, <3>4, <4>1, Zenon DEF LInv, HeaderFollows
      <4>3. QED
        BY <4>2
    <3> DEFINE k == outstanding + 1
               m == k * OPBLOCKS
               n == k * MAXOPBLOCKS
    <3>6. k \in Nat /\ k > 0 /\ (k = 1 => outstanding = 0)
      BY <3>4
    <3>7. OPBLOCKS < MAXOPBLOCKS /\ MAXOPBLOCKS < LOGSIZE /\ LOGSIZE <= SIZE
      BY <3>0 DEF LogIsLarge
    <3>8. ~(Len(lh) + n > LOGSIZE)
      BY <2>3, Zenon DEF NoSpace
    <3>9. m \in Nat /\ n \in Nat /\ m + k <= n
      <4> HIDE DEF k
      <4>1. QED
        BY <3>6, <3>7, Constants, Spare
    <3>10. k = 1 => m = OPBLOCKS
      BY <3>6, Constants
    <3>11. Cardinality(MayLog') <= m
      BY <3>3, Zenon
    <3> HIDE DEF k, m, n
    <3>12. Len(lh) + Cardinality(MayLog') < LOGSIZE - 1
      <4>1. CASE k = 1
        BY <1>0, <3>3, <3>5, <3>6, <3>7, <3>10, <3>11, <4>1, Constants
      <4>2. CASE k # 1
        BY <1>0, <3>3, <3>6, <3>7, <3>8, <3>9, <3>11, <4>2, Constants
      <4>3. QED
        BY <4>1, <4>2, Zenon
    <3>13. QED
      BY <1>0, <2>1, <3>0, <3>12, Zenon DEF LInv, LogHasRoom
  <2>4. QED
    BY <2>2, <2>3
<1>3. ASSUME NEW p \in Proc, end_op(p), ~panicked
      PROVE  LogHasRoom'
  <2>1. InOp' = InOp \ {p} /\ lh' = lh /\ head' = head /\ wrote' = [wrote EXCEPT ![p] = 0]
    BY <1>0, <1>3, EndOp, Zenon DEF end_op, diskVars
  <2>2. \A q \in InOp' : wrote'[q] = wrote[q] /\ q \in InOp
    BY <1>0, <1>3, <2>1, Zenon DEF LInv, TypeOK, InOp
  <2>3. MayLog' \subseteq MayLog
    BY <2>2, Zenon DEF MayLog
  <2>4. QED
    BY <1>0, <1>3, <2>1, <2>3, StillFits
<1>4. ASSUME NEW p \in Proc, CommitDone(p), ~panicked
      PROVE  LogHasRoom'
  <2>1. InOp' = InOp /\ wrote' = wrote /\ lh' = lh /\ head' = head
    BY <1>0, <1>4, CommitEnds, Zenon DEF LInv, CommitDone, diskVars
  <2>2. QED
    BY <1>0, <1>4, <2>1, StillFits DEF MayLog
<1>5. ASSUME NEW p \in Proc, NEW b \in Block, NEW v \in Value, log_write(p, b, v), ~panicked
      PROVE  LogHasRoom'
  <2>1. InOp' = InOp /\ p \in InOp /\ head' = head
    BY <1>0, <1>5, LogWriteFacts, Zenon DEF log_write, diskVars
  <2>2. CASE wrote' = wrote /\ lh' = lh
    BY <1>0, <1>5, <2>1, <2>2, StillFits DEF MayLog
  <2>3. CASE /\ ~Logged(b) /\ lh' = Append(lh, b)
             /\ wrote' = [wrote EXCEPT ![p] = @ + 1]
    <3> DEFINE w == <<p, wrote[p] + 1>>
    <3>0. SUFFICES ASSUME LogIsLarge
                   PROVE  Len(lh') + Cardinality(MayLog') < LOGSIZE - 1 /\ Len(head') < LOGSIZE - 1
      BY Zenon DEF LogHasRoom
    <3>1. wrote[p] \in Nat /\ wrote[p] < OPBLOCKS
      BY <1>0, <1>5, <2>3, Zenon DEF LInv, TypeOK, log_write
    <3>2. w \in MayLog
      BY <2>1, <3>1, Constants DEF MayLog
    <3>3. MayLog' \subseteq MayLog \ {w}
      <4>1. \A q \in InOp : wrote'[q] = (IF q = p THEN wrote[p] + 1 ELSE wrote[q]) /\ wrote[q] \in Nat
        BY <1>0, <1>5, <2>3, Zenon DEF LInv, TypeOK, InOp
      <4>2. SUFFICES ASSUME NEW q \in InOp, NEW k \in 1..OPBLOCKS, wrote'[q] < k
                     PROVE  wrote[q] < k /\ ~(q = p /\ k = wrote[p] + 1)
        BY <2>1 DEF MayLog
      <4>3. QED
        BY <3>1, <4>1, <4>2, Constants
    <3>4. IsFiniteSet(MayLog) /\ Cardinality(MayLog) \in Nat
      BY MayLogFinite, Zenon DEF MayLog, InOp
    <3>5. IsFiniteSet(MayLog \ {w}) /\ Cardinality(MayLog \ {w}) = Cardinality(MayLog) - 1
      BY <3>2, <3>4, FS_RemoveElement, Zenon
    <3>6. Cardinality(MayLog') \in Nat /\ Cardinality(MayLog') <= Cardinality(MayLog) - 1
      BY <3>3, <3>5, FS_Subset, FS_CardinalityType
    <3>7. Len(lh') = Len(lh) + 1
      BY <1>0, <2>3
    <3>8. Len(lh) + Cardinality(MayLog) < LOGSIZE - 1 /\ Len(head) < LOGSIZE - 1
      BY <1>0, <3>0, Zenon DEF LInv, LogHasRoom
    <3>9. Len(lh') + Cardinality(MayLog') < LOGSIZE - 1
      BY <1>0, <3>4, <3>6, <3>7, <3>8, Constants
    <3>10. QED
      BY <2>1, <3>8, <3>9, Zenon
  <2>4. QED
    BY <1>5, <2>2, <2>3, Zenon DEF log_write
<1>6. ASSUME erase, ~panicked
      PROVE  LogHasRoom'
  <2>1. Len(lh') = 0 /\ MayLog' = MayLog /\ head' = <<>>
    BY <1>6, Zenon DEF erase, procVars, MayLog, InOp
  <2>2. QED
    BY <1>0, <1>6, <2>1, StillFits
<1>7. ASSUME read_head, ~panicked
      PROVE  LogHasRoom'
  <2>1. InOp' = {} /\ lh' = head /\ head \in Seq(Block) /\ head' = head
    BY <1>0, <1>7, Zenon DEF LInv, TypeOK, OnePhase, InOp, read_head, procVars, diskVars
  <2>2. MayLog' = {}
    BY <2>1, Zenon DEF MayLog
  <2>3. LogIsLarge => Len(head) < LOGSIZE - 1
    BY <1>0, Zenon DEF LInv, LogHasRoom
  <2>4. QED
    BY <2>1, <2>2, <2>3, FS_EmptySet, Constants DEF LogHasRoom
<1>8. ASSUME Crash
      PROVE  LogHasRoom'
  <2>1. Len(lh') = 0 /\ InOp' = {} /\ head' = head
    BY <1>8, Zenon DEF Crash, PowerOff, InOp, diskVars
  <2>2. MayLog' = {}
    BY <2>1, Zenon DEF MayLog
  <2>3. QED
    BY <1>0, <2>1, <2>2, StillFits
<1>9. ASSUME write_head, ~panicked
      PROVE  LogHasRoom'
  <2>1. head' = lh /\ lh' = lh /\ MayLog' = MayLog
    BY <1>9, Zenon DEF write_head, memVars, procVars, MayLog, InOp
  <2>2. QED
    BY <1>0, <1>9, <2>1, StillFits
<1>10. ASSUME UNCHANGED <<pc, wrote, lh, head>>
      PROVE  LogHasRoom'
  BY <1>0, <1>10, Zenon DEF LInv, LogHasRoom, MayLog, InOp
<1>11. QED
  BY <1>1, <1>2, <1>3, <1>4, <1>5, <1>6, <1>7, <1>8, <1>9, <1>10, Zenon
     DEF Next, Run, CommitStep, ProcStep, Read, bget, write_log, install_trans,
         diskVars, memVars, procVars, stepVars

(* The invariant holds at boot. *)
LEMMA InitLInv ==
  ASSUME Init
  PROVE  LInv
<1>1. TypeOK
  <2>1. /\ home \in [Block -> Value] /\ logBlock \in [Slot -> Value]
        /\ cache \in [Block -> Value \cup {NoBuf}]
    BY Constants, Zenon DEF Init
  <2>2. pc \in [Proc -> Place] /\ depth \in [Proc -> Nat] /\ wrote \in [Proc -> Nat]
    BY Zenon DEF Init, Place
  <2>3. /\ head = <<>> /\ lh = <<>> /\ dirty = {} /\ outstanding = 0 /\ committing = FALSE
        /\ stage = "boot" /\ tail = 1 /\ up = FALSE /\ panicked = FALSE
    BY Zenon DEF Init
  <2>4. /\ head \in Seq(Block) /\ lh \in Seq(Block) /\ dirty \subseteq Block
        /\ outstanding \in Int /\ committing \in BOOLEAN /\ tail \in Nat \ {0}
        /\ up \in BOOLEAN /\ panicked \in BOOLEAN
        /\ stage \in {"boot", "log", "head", "install", "erase", "end", "none"}
    <3>1. head \in Seq(Block) /\ lh \in Seq(Block)
      BY <2>3
    <3>2. dirty \subseteq Block /\ outstanding \in Int /\ tail \in Nat \ {0}
      BY <2>3
    <3>3. committing \in BOOLEAN /\ up \in BOOLEAN /\ panicked \in BOOLEAN
      BY <2>3, Zenon
    <3>4. stage \in {"boot", "log", "head", "install", "erase", "end", "none"}
      BY <2>3, Zenon
    <3>5. QED
      BY <3>1, <3>2, <3>3, <3>4, Zenon
  <2>5. QED
    BY <2>1, <2>2, <2>4, Zenon DEF TypeOK
<1>2. InOp = {} /\ MayLog = {}
  BY Zenon DEF Init, InOp, MayLog
<1>3. OpsAreCounted
  BY <1>2, FS_EmptySet, Zenon DEF Init, OpsAreCounted
<1>4. OnePhase /\ CacheFollows /\ LogFollows
  BY Zenon DEF Init, OnePhase, CacheFollows, LogFollows
<1>5. HeaderFollows
  BY Constants DEF Init, HeaderFollows, Distinct
<1>6. LogHasRoom
  BY <1>2, FS_EmptySet, Constants DEF Init, LogHasRoom, LogIsLarge
<1>7. QED
  BY <1>1, <1>3, <1>4, <1>5, <1>6, Zenon DEF LInv

(* Every step preserves it. *)
LEMMA LInvStep ==
  ASSUME LInv, [Next]_vars
  PROVE  LInv'
<1>1. CASE Next
  BY <1>1, TypeStep, OpsStep, PhaseStep, HeaderStep, CacheStep, LogStep, FitsStep,
     ZenonT(40) DEF LInv
<1>2. CASE UNCHANGED vars
  BY <1>2
     DEF LInv, vars, diskVars, memVars, procVars, stepVars, TypeOK, OpsAreCounted, OnePhase,
     HeaderFollows, CacheFollows, LogFollows, LogHasRoom, MayLog, InOp, Logged
<1>3. QED
  BY <1>1, <1>2, Zenon

(* Invariant: LInv holds in every state that operations, commits, crashes  *)
(* and recoveries of log.c can reach.                                      *)
THEOREM Invariant == Spec => []LInv
<1>1. Init => LInv
  BY InitLInv, Zenon
<1>2. LInv /\ [Next]_vars => LInv'
  BY LInvStep, Zenon
<1>3. QED
  BY <1>1, <1>2, PTL DEF Spec

-----------------------------------------------------------------------------
(* LogIsAlwaysExact: begin_op never lets in more than the log that mkfs    *)
(* makes can take, one block of it being the header, and when nothing is   *)
(* in progress everything that was written is in its place and the log is  *)
(* empty.                                                                  *)
THEOREM LogIsAlwaysExact == ASSUME LogIsLarge PROVE Spec => []LogIsExact
<1>1. LInv => LogIsExact
  <2>0. LInv => LogFits
    <3>1. SUFFICES ASSUME LInv PROVE LogFits
      OBVIOUS
    <3>2. Len(lh) \in Nat /\ Len(lh) + Cardinality(MayLog) < LOGSIZE - 1
      BY <3>1 DEF LInv, TypeOK, LogHasRoom
    <3>3. Cardinality(MayLog) \in Nat
      BY MayLogFinite, Zenon DEF MayLog, InOp
    <3>4. QED
      BY <3>2, <3>3, Constants DEF LogFits, LogIsLarge
  <2>1. SUFFICES ASSUME LInv, up, outstanding = 0, ~committing
                 PROVE  head = <<>> /\ dirty = {} /\ home = Current
    BY <2>0, Zenon DEF LogIsExact, QuietIsDurable
  <2>2. InOp = {} /\ stage = "none" /\ ~panicked
    BY <2>1, ProcSets, Zenon DEF LInv, OpsAreCounted, OnePhase, InOp
  <2>3. lh = <<>> /\ head = <<>>
    BY <2>1, <2>2, Zenon DEF LInv, HeaderFollows
  <2>4. dirty = {}
    BY <2>1, <2>2, <2>3 DEF LInv, TypeOK, CacheFollows, Logged
  <2>5. home = [b \in Block |-> bread(b)]
    BY <2>1, <2>2, <2>4, Zenon DEF LInv, TypeOK, CacheFollows, bread
  <2>6. QED
    BY <2>1, <2>3, <2>4, <2>5, Zenon DEF Current
<1>2. QED
  BY <1>1, Invariant, PTL

(* LogNeverPanics: with the log that mkfs makes, neither "too big a        *)
(* transaction", tested without the lock and also for blocks in the log    *)
(* already, nor "log_write outside of trans" nor "log.committing" is       *)
(* reached.                                                                *)
THEOREM LogNeverPanics == ASSUME LogIsLarge PROVE Spec => []~panicked
<1>1. Init => ~panicked
  BY Zenon DEF Init
<1>2. LInv /\ ~panicked /\ [Next]_vars => ~panicked'
  <2>1. SUFFICES ASSUME LInv, ~panicked, Next PROVE ~panicked'
    BY ZenonT(40) DEF vars, stepVars
  <2>2. ASSUME NEW p \in Proc, NEW b \in Block, NEW v \in Value, log_write(p, b, v)
        PROVE  ~panicked'
    <3>1. p \in InOp
      BY <2>1, <2>2, LogWriteFacts, Zenon
    <3>2. outstanding \in Nat /\ outstanding # 0
      BY <2>1, <3>1, ProcSets, Zenon DEF LInv, OpsAreCounted, InOp
    <3>3. IsFiniteSet(MayLog) /\ Cardinality(MayLog) \in Nat
      BY MayLogFinite, Zenon DEF MayLog, InOp
    <3>4. Len(lh) \in Nat /\ Len(lh) + Cardinality(MayLog) < LOGSIZE - 1
      BY <2>1 DEF LInv, TypeOK, LogHasRoom
    <3>5. ~LogFull
      BY <3>3, <3>4, Constants DEF LogFull, LogIsLarge
    <3>6. QED
      BY <2>1, <2>2, <3>2, <3>5 DEF log_write
  <2>3. ASSUME NEW p \in Proc, end_op(p) PROVE ~panicked'
    BY <2>1, <2>3, EndOp, Zenon
  <2>4. CASE panicked' = panicked
    BY <2>1, <2>4, Zenon
  <2>5. CASE Crash
    BY <2>5, Zenon DEF Crash, PowerOff
  <2>6. QED
    BY <2>1, <2>2, <2>3, <2>4, <2>5, Zenon
       DEF Next, Run, CommitStep, ProcStep, Call, begin_op, CommitDone, Read, bget, write_log,
           write_head, install_trans, erase, read_head, stepVars
<1>3. QED
  BY <1>1, <1>2, Invariant, PTL DEF Spec

-----------------------------------------------------------------------------
(* The refinement: each step of log.c is a step of AtomicDisk or none.     *)

adUnchanged == UNCHANGED <<Current, Stable, Open>>

(* The replayed disk holds, for a block of the header, the block's copy in *)
(* the log, and for any other block what is at its place.                  *)
LEMMA Replay ==
  ASSUME NEW hd \in Seq(Block), Distinct(hd), NEW lb, NEW i \in 1..Len(hd)
  PROVE  lb[CHOOSE j \in 1..Len(hd) : hd[j] = hd[i]] = lb[i]
<1>1. \E j \in 1..Len(hd) : hd[j] = hd[i]
  OBVIOUS
<1>2. (CHOOSE j \in 1..Len(hd) : hd[j] = hd[i]) = i
  BY <1>1, Zenon DEF Distinct
<1>3. QED
  BY <1>2, Zenon

(* With an empty header the disk is as it is. *)
LEMMA EmptyHeader ==
  /\ TypeOK /\ head = <<>> => Stable = home
  /\ TypeOK' /\ head' = <<>> => Stable' = home'
BY DEF Stable, TypeOK

(* A process is in the middle of an operation when it is in one. *)
LEMMA OpenIsInOp ==
  ASSUME LInv
  PROVE  Open = InOp
BY DEF LInv, OpsAreCounted, Open, InOp

(* begin_op opens an operation or sleeps. *)
LEMMA BeginRefines ==
  ASSUME LInv, NEW p \in Proc, begin_op(p)
  PROVE  AD!ADBegin(p) \/ adUnchanged
<1>1. Current' = Current /\ Stable' = Stable
  BY Zenon DEF begin_op, diskVars, stepVars, Current, Stable, bread
<1>2. CASE committing \/ NoSpace
  BY <1>1, <1>2, Zenon DEF begin_op, Open, adUnchanged
<1>3. CASE ~(committing \/ NoSpace)
  <2>1. Open' = Open \cup {p}
    BY <1>3 DEF LInv, TypeOK, begin_op, Open
  <2>2. QED
    BY <1>1, <2>1, Zenon DEF AD!ADBegin
<1>4. QED
  BY <1>2, <1>3, Zenon

(* log_write changes one block for those who read, and none on disk. *)
LEMMA WriteRefines ==
  ASSUME LInv, NEW p \in Proc, NEW b \in Block, NEW v \in Value, log_write(p, b, v)
  PROVE  AD!ADWrite(p, b, v)
<1>1. p \in Open /\ up /\ up' = up
  BY OpenIsInOp, LogWriteFacts, Zenon DEF log_write
<1>2. Stable' = Stable /\ Open' = Open
  BY Zenon DEF log_write, diskVars, Stable, Open
<1>3. \A c \in Block : bread(c)' = IF c = b THEN v ELSE bread(c)
  BY Constants, Zenon DEF LInv, TypeOK, log_write, diskVars, bread
<1>4. Current' = [Current EXCEPT ![b] = v]
  BY <1>1, <1>3, Zenon DEF Current
<1>5. QED
  BY <1>1, <1>2, <1>4, Zenon DEF AD!ADWrite

(* end_op closes an operation. *)
LEMMA EndRefines ==
  ASSUME LInv, NEW p \in Proc, end_op(p)
  PROVE  AD!ADEnd(p)
<1>1. Current' = Current /\ Stable' = Stable
  BY Zenon DEF end_op, diskVars, Current, Stable, bread
<1>2. p \in Open /\ depth[p] = 1 /\ depth' = [depth EXCEPT ![p] = @ - 1]
  BY EndOp, OpenIsInOp, Zenon DEF end_op
<1>3. Open' = Open \ {p}
  BY <1>2 DEF LInv, TypeOK, Open
<1>4. QED
  BY <1>1, <1>2, <1>3, Zenon DEF AD!ADEnd

(* Buffers that come and go are not seen. *)
LEMMA BuffersRefine ==
  ASSUME LInv, ~panicked, NEW b \in Block, bget(b) \/ \E p \in Proc : Read(p, b)
  PROVE  adUnchanged
<1>1. UNCHANGED <<home, logBlock, head, depth, up>>
  BY Zenon DEF bget, Read, diskVars, procVars, stepVars
<1>2. \A c \in Block : bread(c)' = bread(c)
  <2>1. CASE bget(b)
    BY <2>1, Zenon DEF LInv, TypeOK, CacheFollows, bget, diskVars, bread
  <2>2. ASSUME NEW p \in Proc, Read(p, b) PROVE \A c \in Block : bread(c)' = bread(c)
    BY <2>2, Zenon DEF LInv, TypeOK, Read, diskVars, bread
  <2>3. QED
    BY <2>1, <2>2, Zenon
<1>3. Stable' = Stable /\ Open' = Open
  BY <1>1, Zenon DEF Stable, Open
<1>4. QED
  BY <1>1, <1>2, <1>3, Zenon DEF Current, adUnchanged

(* The log's blocks are not seen before the header is written ... *)
LEMMA WriteLogRefines ==
  ASSUME LInv, TypeOK', write_log
  PROVE  adUnchanged
<1>1. head = <<>> /\ UNCHANGED <<home, head, cache, depth, up>>
  BY Zenon DEF LInv, HeaderFollows, write_log, memVars, procVars
<1>2. Stable = home /\ Stable' = home
  BY <1>1, EmptyHeader, Zenon DEF LInv
<1>3. QED
  BY <1>1, <1>2, Zenon DEF Current, Open, bread, adUnchanged

(* ... which is the moment of the commit: from then on a crash leaves the  *)
(* disk as the operations see it.                                          *)
LEMMA CommitRefines ==
  ASSUME LInv, TypeOK', ~panicked, write_head
  PROVE  AD!ADCommit
<1>1. /\ stage = "head" /\ head' = lh /\ up /\ committing
      /\ UNCHANGED <<home, logBlock, cache, depth, up>>
  BY Zenon DEF LInv, OnePhase, write_head, memVars, procVars
<1>2. Open = {} /\ Open' = Open
  BY <1>1, OpenIsInOp, Zenon DEF LInv, OnePhase, Open
<1>3. \A b \in Block : Stable'[b] = bread(b)
  <2>1. SUFFICES ASSUME NEW b \in Block PROVE Stable'[b] = bread(b)
    OBVIOUS
  <2>2. CASE Logged(b)
    <3>1. PICK i \in 1..Len(lh) : lh[i] = b
      BY <2>2, Zenon DEF Logged
    <3>2. lh \in Seq(Block) /\ Distinct(lh)
      BY Zenon DEF LInv, TypeOK, HeaderFollows
    <3>3. Stable'[b] = logBlock[CHOOSE j \in 1..Len(lh) : lh[j] = lh[i]]
      BY <1>1, <3>1, Zenon DEF Stable
    <3>4. Stable'[b] = logBlock[i]
      <4>1. logBlock[CHOOSE j \in 1..Len(lh) : lh[j] = lh[i]] = logBlock[i]
        BY <3>2, Replay, ZenonT(40)
      <4>2. QED
        BY <3>3, <4>1, Zenon
    <3>5. logBlock[i] = cache[b] /\ b \in dirty
      BY <1>1, <2>2, <3>1, Zenon DEF LInv, LogFollows, CacheFollows
    <3>6. QED
      BY <3>4, <3>5, Zenon DEF LInv, CacheFollows, bread
  <2>3. CASE ~Logged(b)
    <3>1. Stable'[b] = home[b]
      BY <1>1, <2>3, Zenon DEF Stable, Logged
    <3>2. b \notin dirty
      BY <1>1, <2>3, Zenon DEF LInv, CacheFollows
    <3>3. QED
      BY <3>1, <3>2, Zenon DEF LInv, CacheFollows, bread
  <2>4. QED
    BY <2>2, <2>3, Zenon
<1>4. Stable' = Current
  <2>1. Stable' = [b \in Block |-> Stable'[b]]
    BY Zenon DEF Stable
  <2>2. QED
    BY <1>1, <1>3, <2>1, Zenon DEF Current
<1>5. Current' = Current
  BY <1>1, Zenon DEF Current, bread
<1>6. QED
  BY <1>2, <1>4, <1>5, Zenon DEF AD!ADCommit

(* Installing a block puts at its place what a replay would put there. *)
LEMMA InstallRefines ==
  ASSUME LInv, ~panicked, install_trans
  PROVE  adUnchanged
<1>1. stage = "install" /\ head = lh /\ UNCHANGED <<logBlock, head, lh, depth, up>>
  BY Zenon DEF LInv, HeaderFollows, install_trans, procVars
<1>2. Open' = Open
  BY <1>1, Zenon DEF Open
<1>3. CASE tail <= Len(lh)
  <2>1. /\ tail \in 1..Len(lh) /\ lh[tail] \in Block /\ logBlock[tail] \in Value
        /\ lh \in Seq(Block) /\ Distinct(lh)
    BY <1>3, Constants DEF LInv, TypeOK, HeaderFollows, Slot
  <2>2. /\ home' = [home EXCEPT ![lh[tail]] = logBlock[tail]]
        /\ cache' = [cache EXCEPT ![lh[tail]] = logBlock[tail]]
    BY <1>3, Zenon DEF install_trans, lastTail
  <2>3. \A b \in Block : b # lh[tail] => home'[b] = home[b] /\ cache'[b] = cache[b]
    BY <2>2, Zenon DEF LInv, TypeOK
  <2>4. Stable' = Stable
    <3>1. \A b \in Block : ~(\E i \in 1..Len(head) : head[i] = b) => home'[b] = home[b]
      BY <1>1, <2>1, <2>3, Zenon
    <3>2. QED
      BY <1>1, <3>1, Zenon DEF Stable
  <2>5. CASE up
    <3>1. cache[lh[tail]] = logBlock[tail]
      BY <1>1, <2>1, <2>5 DEF LInv, LogFollows
    <3>2. \A b \in Block : bread(b)' = bread(b)
      BY <2>1, <2>2, <2>3, <3>1, Constants, Zenon DEF LInv, TypeOK, bread
    <3>3. QED
      BY <1>1, <1>2, <2>4, <2>5, <3>2, Zenon DEF Current, adUnchanged
  <2>6. CASE ~up
    BY <1>1, <1>2, <2>4, <2>6, Zenon DEF Current, adUnchanged
  <2>7. QED
    BY <2>5, <2>6, Zenon
<1>4. CASE ~(tail <= Len(lh))
  BY <1>1, <1>2, <1>4 DEF install_trans, lastTail, Current, Stable, bread, adUnchanged
<1>5. QED
  BY <1>3, <1>4, Zenon

(* When the header is erased the replay has nothing left to do, and after  *)
(* a recovery readers see the disk.                                        *)
LEMMA EraseRefines ==
  ASSUME LInv, TypeOK', ~panicked, erase
  PROVE  adUnchanged
<1>1. /\ stage = "erase" /\ head = lh /\ head' = <<>> /\ up' /\ dirty = {}
      /\ UNCHANGED <<home, logBlock, cache, depth>>
  BY Zenon DEF LInv, HeaderFollows, CacheFollows, erase, procVars
<1>2. Stable' = home
  BY <1>1, EmptyHeader, Zenon
<1>3. Stable = home
  <2>1. SUFFICES ASSUME NEW b \in Block PROVE Stable[b] = home[b]
    BY ZenonT(40) DEF LInv, TypeOK, Stable
  <2>2. CASE \E i \in 1..Len(lh) : lh[i] = b
    <3>1. PICK i \in 1..Len(lh) : lh[i] = b
      BY <2>2, Zenon
    <3>2. lh \in Seq(Block) /\ Distinct(lh)
      BY DEF LInv, TypeOK, HeaderFollows
    <3>3. Stable[b] = logBlock[CHOOSE j \in 1..Len(lh) : lh[j] = lh[i]]
      BY <1>1, <3>1, Zenon DEF Stable
    <3>4. home[lh[i]] = logBlock[i]
      BY <1>1, Zenon DEF LInv, LogFollows
    <3>5. QED
      BY <3>1, <3>2, <3>3, <3>4, Replay, ZenonT(40)
  <2>3. CASE ~ \E i \in 1..Len(lh) : lh[i] = b
    BY <1>1, <2>3, Zenon DEF Stable
  <2>4. QED
    BY <2>2, <2>3, Zenon
<1>4. [b \in Block |-> bread(b)] = home /\ [b \in Block |-> bread(b)]' = home
  BY <1>1, Zenon DEF LInv, TypeOK, CacheFollows, bread
<1>5. Current = home /\ Current' = home
  BY <1>1, <1>3, <1>4, Zenon DEF Current
<1>6. QED
  BY <1>1, <1>2, <1>3, <1>5, Zenon DEF Open, adUnchanged

(* A crash takes the blocks back to the last commit. *)
LEMMA CrashRefines ==
  ASSUME Crash
  PROVE  AD!ADCrash
<1>1. Stable' = Stable
  BY Zenon DEF Crash, diskVars, Stable
<1>2. Open' = {} /\ ~up'
  BY DEF Crash, PowerOff, Open
<1>3. QED
  BY <1>1, <1>2, Zenon DEF AD!ADCrash, Current

(* Every step of the log refines. *)
LEMMA StepRefines ==
  ASSUME LInv, TypeOK', [Next]_vars
  PROVE  AD!ADNext \/ adUnchanged
<1>1. CASE Crash
  BY <1>1, CrashRefines, Zenon DEF AD!ADNext
<1>2. ASSUME NEW p \in Proc, begin_op(p) PROVE AD!ADNext \/ adUnchanged
  BY <1>2, BeginRefines, Zenon DEF AD!ADNext
<1>3. ASSUME NEW p \in Proc, end_op(p) PROVE AD!ADNext \/ adUnchanged
  BY <1>3, EndRefines, Zenon DEF AD!ADNext
<1>4. ASSUME NEW p \in Proc, NEW b \in Block, NEW v \in Value, log_write(p, b, v)
      PROVE  AD!ADNext \/ adUnchanged
  BY <1>4, WriteRefines, Zenon DEF AD!ADNext
<1>5. ASSUME NEW b \in Block, ~panicked, bget(b) \/ \E p \in Proc : Read(p, b)
      PROVE  AD!ADNext \/ adUnchanged
  BY <1>5, BuffersRefine, Zenon
<1>6. ASSUME ~panicked, write_log \/ write_head \/ install_trans \/ erase
      PROVE  AD!ADNext \/ adUnchanged
  BY <1>6, WriteLogRefines, CommitRefines, InstallRefines, EraseRefines, Zenon DEF AD!ADNext
<1>7. CASE UNCHANGED <<diskVars, cache, depth, up>>
  BY <1>7, Zenon DEF diskVars, Current, Stable, Open, bread, adUnchanged
<1>8. QED
  BY <1>1, <1>2, <1>3, <1>4, <1>5, <1>6, <1>7, Zenon
     DEF Next, Run, CommitStep, ProcStep, Call, CommitDone, read_head, vars, memVars, procVars,
         stepVars

(* AtomicLog: the log, its header, the buffers and the recovery implement  *)
(* a disk on which groups of whole operations appear at once, whenever the *)
(* machine crashes.                                                        *)
THEOREM AtomicLog == Spec => OperationsAreAtomic
<1>1. Init => AD!ADInit
  <2>1. SUFFICES ASSUME Init PROVE AD!ADInit
    OBVIOUS
  <2>2. Stable = home /\ Stable \in [Block -> Value]
    BY <2>1, InitLInv, EmptyHeader, Zenon DEF Init, LInv, TypeOK
  <2>3. Current = Stable /\ Open = {}
    BY <2>1 DEF Init, Current, Open
  <2>4. QED
    BY <2>2, <2>3, Zenon DEF AD!ADInit
<1>2. LInv /\ LInv' /\ [Next]_vars => [AD!ADNext]_<<Current, Stable, Open>>
  BY StepRefines, Zenon DEF LInv, adUnchanged
<1>3. QED
  BY <1>1, <1>2, Invariant, PTL DEF Spec, OperationsAreAtomic, AD!ADSpec, AD!adVars

=============================================================================
