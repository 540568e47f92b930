-------------------------------- MODULE Log --------------------------------
(***************************************************************************)
(* The write-ahead log, log.c, with the part of the buffer cache it relies *)
(* on: bread finds a block in the cache or on the disk, a buffer with      *)
(* B_DIRTY is not recycled, and every write of a block is synchronous.     *)
(* The machine may crash between any two block writes, also during the     *)
(* recovery that initlog runs at the next boot.                            *)
(***************************************************************************)
EXTENDS Integers, Sequences, FiniteSets

CONSTANTS
  Proc,         \* processes that execute file system calls
  Block,        \* blocks of the file system
  Value,        \* contents of a block
  Blank,        \* contents of every block after mkfs
  NoBuf,        \* the block is not in the buffer cache
  MAXOPBLOCKS,  \* blocks that begin_op reserves for an operation
  OPBLOCKS,     \* blocks that an operation writes, at most
  LOGSIZE,
  SIZE          \* log.size, the blocks mkfs gives to the log with its header

ASSUME LogAssumption ==
  /\ IsFiniteSet(Proc) /\ IsFiniteSet(Block)
  /\ Blank \in Value /\ NoBuf \notin Value
  /\ OPBLOCKS \in Nat \ {0} /\ MAXOPBLOCKS \in Nat /\ OPBLOCKS <= MAXOPBLOCKS
  /\ LOGSIZE \in Nat /\ MAXOPBLOCKS <= LOGSIZE /\ SIZE \in Nat

(* What param.h, mkfs and the callers of log_write make of the constants:  *)
(* SIZE is LOGSIZE, three times MAXOPBLOCKS, and no operation writes       *)
(* MAXOPBLOCKS blocks (filewrite, the largest, writes four data blocks,    *)
(* the inode, the indirect block and the one bitmap block).                *)
LogIsLarge == OPBLOCKS < MAXOPBLOCKS /\ MAXOPBLOCKS < LOGSIZE /\ LOGSIZE <= SIZE

Slot == 1..LOGSIZE

VARIABLES
  home,         \* disk: the blocks at their own place
  logBlock,     \* disk: blocks log.start+1 ... of the log
  head,         \* disk: the header block, as a sequence of block numbers
  cache,        \* data of the buffers in the cache
  dirty,        \* blocks whose buffer has B_DIRTY
  lh,           \* log.lh
  outstanding,  \* log.outstanding
  committing,   \* log.committing
  pc,           \* idle; begin: at the top of begin_op's loop; asleep: in
                \* sleep(&log); in: after begin_op; commit: in commit()
  depth,        \* begin_op calls without their end_op
  wrote,        \* blocks that the present operation added to the log
  stage,        \* what initlog or commit() does next
  tail,         \* loop variable of write_log and install_trans
  up,           \* initlog has returned
  panicked      \* panic() was called

diskVars == <<home, logBlock, head>>
memVars == <<cache, dirty, lh, outstanding, committing>>
procVars == <<pc, depth, wrote>>
stepVars == <<stage, tail, up, panicked>>
vars == <<diskVars, memVars, procVars, stepVars>>

(* bread *)
bread(b) == IF cache[b] = NoBuf THEN home[b] ELSE cache[b]

(* The effect on the machine of losing power. *)
PowerOff ==
  /\ cache' = [b \in Block |-> NoBuf]
  /\ dirty' = {}
  /\ lh' = <<>>
  /\ outstanding' = 0
  /\ committing' = FALSE
  /\ pc' = [p \in Proc |-> "idle"]
  /\ depth' = [p \in Proc |-> 0]
  /\ wrote' = [p \in Proc |-> 0]
  /\ stage' = "boot" /\ tail' = 1 /\ up' = FALSE /\ panicked' = FALSE

Init ==
  /\ home = [b \in Block |-> Blank]
  /\ logBlock = [i \in Slot |-> Blank]
  /\ head = <<>>
  /\ cache = [b \in Block |-> NoBuf]
  /\ dirty = {}
  /\ lh = <<>>
  /\ outstanding = 0
  /\ committing = FALSE
  /\ pc = [p \in Proc |-> "idle"]
  /\ depth = [p \in Proc |-> 0]
  /\ wrote = [p \in Proc |-> 0]
  /\ stage = "boot" /\ tail = 1 /\ up = FALSE /\ panicked = FALSE

-----------------------------------------------------------------------------
(* File system calls. *)

Call(p) ==
  /\ up
  /\ pc[p] = "idle"
  /\ pc' = [pc EXCEPT ![p] = "begin"]
  /\ UNCHANGED <<diskVars, memVars, depth, wrote, stepVars>>

(* Mutant: the operation about to start is not counted. *)
NoSpaceForNext == Len(lh) + outstanding * MAXOPBLOCKS > LOGSIZE

NoSpace == Len(lh) + (outstanding + 1) * MAXOPBLOCKS > LOGSIZE

begin_op(p) ==
  /\ pc[p] = "begin"
  /\ IF committing \/ NoSpace
     THEN /\ pc' = [pc EXCEPT ![p] = "asleep"]
          /\ UNCHANGED <<outstanding, depth, wrote>>
     ELSE /\ outstanding' = outstanding + 1
          /\ pc' = [pc EXCEPT ![p] = "in"]
          /\ depth' = [depth EXCEPT ![p] = @ + 1]
          /\ wrote' = [wrote EXCEPT ![p] = 0]
  /\ UNCHANGED <<diskVars, cache, dirty, lh, committing, stepVars>>

(* Mutant: the block is not pinned. *)
noPin(b) == dirty

(* b->flags |= B_DIRTY *)
pin(b) == dirty \cup {b}

Logged(b) == \E i \in 1..Len(lh) : lh[i] = b

LogFull == Len(lh) >= LOGSIZE \/ Len(lh) >= SIZE - 1

(* bread, a change of the data, log_write and brelse.  The test for room   *)
(* takes no lock and comes before the search for b, so it also stops a     *)
(* write of a block that is logged already.                                *)
log_write(p, b, v) ==
  /\ pc[p] = "in"
  /\ wrote[p] < OPBLOCKS \/ Logged(b)
  /\ cache' = [cache EXCEPT ![b] = v]
  /\ IF LogFull \/ outstanding < 1
     THEN /\ panicked' = TRUE
          /\ UNCHANGED <<lh, dirty, wrote>>
     ELSE /\ lh' = IF Logged(b) THEN lh ELSE Append(lh, b)
          /\ dirty' = pin(b)
          /\ wrote' = IF Logged(b) THEN wrote ELSE [wrote EXCEPT ![p] = @ + 1]
          /\ UNCHANGED panicked
  /\ UNCHANGED <<diskVars, outstanding, committing, pc, depth, stage, tail, up>>

(* A block that is only read enters the cache. *)
Read(p, b) ==
  /\ pc[p] = "in"
  /\ cache[b] = NoBuf
  /\ cache' = [cache EXCEPT ![b] = home[b]]
  /\ UNCHANGED <<diskVars, dirty, lh, outstanding, committing, procVars, stepVars>>

(* bget recycles the buffer of b for another block. *)
bget(b) ==
  /\ up
  /\ cache[b] # NoBuf
  /\ b \notin dirty
  /\ cache' = [cache EXCEPT ![b] = NoBuf]
  /\ UNCHANGED <<diskVars, dirty, lh, outstanding, committing, procVars, stepVars>>

(* Mutant: nobody wakes the processes in begin_op. *)
noWakeup(f) == f

(* wakeup(&log) *)
wakeup(f) == [q \in Proc |-> IF f[q] = "asleep" THEN "begin" ELSE f[q]]

(* end_op up to commit(). *)
end_op(p) ==
  /\ pc[p] = "in"
  /\ outstanding' = outstanding - 1
  /\ depth' = [depth EXCEPT ![p] = @ - 1]
  /\ wrote' = [wrote EXCEPT ![p] = 0]
  /\ \/ /\ committing
        /\ panicked' = TRUE
        /\ UNCHANGED <<committing, pc, stage, tail>>
     \/ /\ ~committing
        /\ outstanding = 1
        /\ committing' = TRUE
        /\ pc' = [pc EXCEPT ![p] = "commit"]
        /\ stage' = IF lh = <<>> THEN "end" ELSE "log"
        /\ tail' = 1
        /\ UNCHANGED panicked
     \/ /\ ~committing
        /\ outstanding # 1
        /\ pc' = wakeup([pc EXCEPT ![p] = IF depth[p] = 1 THEN "idle" ELSE "in"])
        /\ UNCHANGED <<committing, stage, tail, panicked>>
  /\ UNCHANGED <<diskVars, cache, dirty, lh, up>>

-----------------------------------------------------------------------------
(* commit(), one block write at a time; initlog joins at install_trans.    *)

write_log ==
  /\ stage = "log"
  /\ logBlock' = [logBlock EXCEPT ![tail] = bread(lh[tail])]
  /\ IF tail = Len(lh) THEN stage' = "head" /\ tail' = 1
                       ELSE stage' = stage /\ tail' = tail + 1
  /\ UNCHANGED <<home, head, memVars, procVars, up, panicked>>

write_head ==
  /\ stage = "head"
  /\ head' = lh
  /\ stage' = "install"
  /\ UNCHANGED <<home, logBlock, memVars, procVars, tail, up, panicked>>

(* Mutant: the last block is left for later. *)
lastTailShort == Len(lh) - 1

lastTail == Len(lh)

(* bread of both blocks, memmove and bwrite, which clears B_DIRTY. *)
install_trans ==
  /\ stage = "install"
  /\ IF tail <= lastTail
     THEN /\ home' = [home EXCEPT ![lh[tail]] = logBlock[tail]]
          /\ cache' = [cache EXCEPT ![lh[tail]] = logBlock[tail]]
          /\ dirty' = dirty \ {lh[tail]}
          /\ tail' = tail + 1
          /\ UNCHANGED stage
     ELSE /\ stage' = "erase"
          /\ tail' = 1
          /\ UNCHANGED <<home, cache, dirty>>
  /\ UNCHANGED <<logBlock, head, lh, outstanding, committing, procVars, up, panicked>>

(* log.lh.n = 0 and write_head *)
erase ==
  /\ stage = "erase"
  /\ lh' = <<>>
  /\ head' = <<>>
  /\ stage' = IF up THEN "end" ELSE "none"
  /\ up' = TRUE
  /\ UNCHANGED <<home, logBlock, cache, dirty, outstanding, committing, procVars, tail, panicked>>

(* The rest of end_op. *)
CommitDone(p) ==
  /\ pc[p] = "commit"
  /\ stage = "end"
  /\ committing' = FALSE
  /\ pc' = wakeup([pc EXCEPT ![p] = "idle"])
  /\ stage' = "none"
  /\ UNCHANGED <<diskVars, cache, dirty, lh, outstanding, depth, wrote, tail, up, panicked>>

read_head ==
  /\ stage = "boot"
  /\ lh' = head
  /\ stage' = "install"
  /\ UNCHANGED <<diskVars, cache, dirty, outstanding, committing, procVars, tail, up, panicked>>

Crash ==
  /\ stage # "boot"
  /\ PowerOff
  /\ UNCHANGED diskVars

-----------------------------------------------------------------------------
(* An operation that reads or writes user memory takes a page fault, and   *)
(* SwapMemoryAndFile calls filewrite, hence begin_op, once more.           *)
SwapInside(p) ==
  /\ pc[p] = "in"
  /\ depth[p] = 1
  /\ pc' = [pc EXCEPT ![p] = "begin"]
  /\ UNCHANGED <<diskVars, memVars, depth, wrote, stepVars>>

CommitStep == write_log \/ write_head \/ install_trans \/ erase \/ read_head

ProcStep(p) == begin_op(p) \/ end_op(p) \/ CommitDone(p)

Run ==
  /\ ~panicked
  /\ \/ \E p \in Proc : \/ Call(p) \/ ProcStep(p)
                        \/ \E b \in Block : \/ Read(p, b)
                                            \/ \E v \in Value : log_write(p, b, v)
     \/ \E b \in Block : bget(b)
     \/ CommitStep

Next == Run \/ Crash

(* Every operation ends, a process that can run is scheduled again, and    *)
(* the machine runs.                                                       *)
Fairness ==
  /\ WF_vars(~panicked /\ CommitStep)
  /\ \A p \in Proc : WF_vars(~panicked /\ ProcStep(p))

Spec == Init /\ [][Next]_vars /\ Fairness

(* With pages that are swapped out while a file system call is running.    *)
SwapNext == Next \/ (~panicked /\ \E p \in Proc : SwapInside(p))

SwapSpec == Init /\ [][SwapNext]_vars
-----------------------------------------------------------------------------
InOp == {p \in Proc : pc[p] = "in"}

(* The blocks that the operations in progress may still add to the log. *)
MayLog == {w \in InOp \X (1..OPBLOCKS) : wrote[w[1]] < w[2]}

(* LogFits: however many operations begin_op lets in while earlier ones    *)
(* wait for their commit, the log with all they may still add stays below  *)
(* log.size - 1 blocks, where log_write panics: the test it makes without  *)
(* the lock has one answer, and write_log never goes past the log into the *)
(* inode blocks behind it.                                                 *)
LogFits == Len(lh) + Cardinality(MayLog) < SIZE - 1

(* LogNeverFull: operations of up to MAXOPBLOCKS blocks (param.h:10, "max  *)
(* # of blocks any FS op writes") have room in the log that mkfs makes     *)
(* (param.h:11, "max data blocks in on-disk log").                         *)
LogNeverFull == ~panicked

(* SleepersHaveWaker: while a process sleeps in begin_op, a process that   *)
(* does not is inside an operation or in commit() and will call wakeup     *)
(* (log.c:21, "sleeps until the last outstanding end_op() commits").       *)
SleepersHaveWaker ==
  (\E p \in Proc : pc[p] = "asleep") =>
    \E q \in Proc : pc[q] = "commit" \/ (depth[q] > 0 /\ pc[q] # "asleep")

(* SleepersWake: every process that sleeps in begin_op is woken, by an     *)
(* end_op or by the commit.                                                *)
SleepersWake == \A p \in Proc : pc[p] = "asleep" ~> pc[p] # "asleep"

(* What a crash would leave: the disk with the committed log replayed.     *)
Stable == [b \in Block |->
             IF \E i \in 1..Len(head) : head[i] = b
             THEN logBlock[CHOOSE i \in 1..Len(head) : head[i] = b]
             ELSE home[b]]

Current == IF up THEN [b \in Block |-> bread(b)] ELSE Stable

Open == {p \in Proc : depth[p] > 0}

AD == INSTANCE AtomicDisk WITH current <- Current, stable <- Stable, open <- Open

(* OperationsAreAtomic: after a crash at any point of any operation,       *)
(* commit or recovery, the disk holds whole groups of operations, and      *)
(* nothing read from the cache or after a recycled buffer is ever older.   *)
OperationsAreAtomic == AD!ADSpec

(* QuietIsDurable: when no operation is in progress, the effects of all    *)
(* that returned are on the disk at their place and the log is empty.      *)
QuietIsDurable ==
  up /\ outstanding = 0 /\ ~committing =>
    head = <<>> /\ dirty = {} /\ home = Current

(* LogIsExact: the log has room for what its operations may still write,   *)
(* and is empty, with everything in its place, when none is in progress.   *)
LogIsExact == LogFits /\ QuietIsDurable
=============================================================================
