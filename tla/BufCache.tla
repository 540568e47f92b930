------------------------------ MODULE BufCache ------------------------------
(***************************************************************************)
(* The buffer cache, the sleep locks of its buffers and the disk driver:   *)
(* bio.c, sleeplock.c and ide.c, as several processes use them.            *)
(*                                                                         *)
(* A step is what a process or the interrupt handler does while it holds   *)
(* bcache.lock, the spin lock of a sleep lock, or idelock.  bget gives up  *)
(* bcache.lock before it takes the buffer's lock, and brelse gives up the  *)
(* buffer's lock before it takes bcache.lock: buffers change hands there.  *)
(*                                                                         *)
(* A process is here one use of one buffer, from bread to brelse.  A       *)
(* process of the system that has two buffers at once, in write_log,       *)
(* install_trans or bmap, is two of them; their steps come in any order,   *)
(* which includes the orders of the code.                                  *)
(***************************************************************************)
EXTENDS Integers, Sequences, FiniteSets

CONSTANTS
  Proc,
  Block,     \* blocks of the disk
  Written,   \* blocks that the callers change
  Value,     \* contents of a block
  Blank,     \* the contents at the start
  Faulty,    \* blocks that the disk may fail to read or write
  NBUF,
  None

Buf == 1..NBUF

ASSUME BufAssumption ==
  /\ IsFiniteSet(Proc) /\ IsFiniteSet(Block)
  /\ Written \subseteq Block /\ Faulty \subseteq Block /\ Blank \in Value
  /\ NBUF \in Nat \ {0}
  /\ None \notin Block \cup Buf

VARIABLES
  blockno, refcnt, valid, dirty, locked, data,  \* fields of struct buf
  lru,       \* the buffers from bcache.head.next to bcache.head.prev
  idequeue,
  started,   \* the request that idestart has given to the disk
  disk,
  pc,        \* where a process is in bread, bwrite and brelse
  buf,       \* the buffer it works on
  block,     \* the block it wants
  last,      \* what callers have put into each block last
  panicked

bufVars == <<blockno, refcnt, valid, dirty, locked, data>>
procVars == <<pc, buf, block>>
vars == <<bufVars, lru, idequeue, started, disk, procVars, last, panicked>>

-----------------------------------------------------------------------------
Init ==
  /\ blockno = [b \in Buf |-> None]
  /\ refcnt = [b \in Buf |-> 0]
  /\ valid = [b \in Buf |-> FALSE]
  /\ dirty = [b \in Buf |-> FALSE]
  /\ locked = [b \in Buf |-> FALSE]
  /\ lru = [i \in Buf |-> NBUF + 1 - i]
  /\ idequeue = <<>>
  /\ started = None
  /\ disk = [k \in Block |-> Blank]
  /\ last = [k \in Block |-> Blank]
  /\ data = [b \in Buf |-> Blank]
  /\ pc = [p \in Proc |-> "idle"]
  /\ buf = [p \in Proc |-> None]
  /\ block = [p \in Proc |-> None]
  /\ panicked = FALSE

Goes(p, l) == pc' = [pc EXCEPT ![p] = l]

-----------------------------------------------------------------------------
(* Mutant: a buffer is unused although log.c has modified it. *)
MayRecycleDirty(b) == refcnt[b] = 0

MayRecycle(b) == refcnt[b] = 0 /\ ~dirty[b]

(* The last buffer of the list that may be recycled. *)
IsVictim(b) ==
  \E i \in Buf : /\ lru[i] = b
                 /\ MayRecycle(b)
                 /\ \A j \in (i + 1)..NBUF : ~MayRecycle(lru[j])

(* Mutant: the buffer is not counted until its lock is taken. *)
Uncounted(b) == refcnt

Counted(b) == [refcnt EXCEPT ![b] = @ + 1]

bget(p, k) ==
  /\ pc[p] = "idle" /\ ~panicked
  /\ IF \E b \in Buf : blockno[b] = k
     THEN \E b \in Buf :
            /\ blockno[b] = k
            /\ refcnt' = Counted(b)
            /\ buf' = [buf EXCEPT ![p] = b]
            /\ Goes(p, "acquiresleep")
            /\ UNCHANGED <<blockno, valid, dirty, panicked>>
     ELSE IF \E b \in Buf : IsVictim(b)
     THEN \E b \in Buf :
            /\ IsVictim(b)
            /\ blockno' = [blockno EXCEPT ![b] = k]
            /\ valid' = [valid EXCEPT ![b] = FALSE]
            /\ dirty' = [dirty EXCEPT ![b] = FALSE]
            /\ refcnt' = [refcnt EXCEPT ![b] = 1]
            /\ buf' = [buf EXCEPT ![p] = b]
            /\ Goes(p, "acquiresleep")
            /\ UNCHANGED panicked
     ELSE /\ panicked' = TRUE
          /\ UNCHANGED <<refcnt, buf, pc, blockno, valid, dirty>>
  /\ block' = [block EXCEPT ![p] = k]
  /\ UNCHANGED <<locked, data, lru, idequeue, started, disk, last>>

IsFree(b) == ~locked[b]

acquiresleep(p) ==
  /\ pc[p] = "acquiresleep"
  /\ IF IsFree(buf[p])
     THEN locked' = [locked EXCEPT ![buf[p]] = TRUE] /\ Goes(p, "bread")
     ELSE Goes(p, "sleep_lock") /\ UNCHANGED locked
  /\ UNCHANGED <<blockno, refcnt, valid, dirty, data, lru, idequeue, started, disk, buf, block, last, panicked>>

(* idelock is held from the test in iderw until the sleep. *)
IdeFree == \A p \in Proc : pc[p] # "sleep"

(* The request goes to the disk if no other is in front of it. *)
idestart(b) == IF Head(Append(idequeue, b)) = b THEN b ELSE started

(* iderw puts the buffer into the queue, and finds that it has to wait. *)
iderw(p) ==
  /\ IdeFree
  /\ idequeue' = Append(idequeue, buf[p])
  /\ started' = idestart(buf[p])
  /\ Goes(p, "sleep")

(* Mutant: the caller gets the buffer as it is. *)
breadNow(p) ==
  /\ pc[p] = "bread"
  /\ Goes(p, "use")
  /\ UNCHANGED <<bufVars, lru, idequeue, started, disk, buf, block, last, panicked>>

(* bread after bget. *)
bread(p) ==
  /\ pc[p] = "bread"
  /\ IF valid[buf[p]] THEN Goes(p, "use") /\ UNCHANGED <<idequeue, started>> ELSE iderw(p)
  /\ UNCHANGED <<bufVars, lru, disk, buf, block, last, panicked>>

(* sleep gives up idelock only when wakeup can find the process. *)
sleep(p) ==
  /\ pc[p] = "sleep"
  /\ Goes(p, "sleep_buf")
  /\ UNCHANGED <<bufVars, lru, idequeue, started, disk, buf, block, last, panicked>>

(* The loop at the end of iderw, once the process runs again. *)
iderwWoken(p) ==
  /\ pc[p] = "iderw" /\ IdeFree
  /\ Goes(p, IF valid[buf[p]] /\ ~dirty[buf[p]] THEN "use" ELSE "sleep")
  /\ UNCHANGED <<bufVars, lru, idequeue, started, disk, buf, block, last, panicked>>

(* Mutant: the handler leaves the other requests where they are. *)
startNothing == None

(* The handler gives the next request to the disk. *)
startNext == IF Tail(idequeue) = <<>> THEN None ELSE Head(Tail(idequeue))

(* wakeup(b): the sleepers of iderw. *)
wakeRequest(b) ==
  [p \in Proc |-> IF pc[p] = "sleep_buf" /\ buf[p] = b THEN "iderw" ELSE pc[p]]

(* The disk has finished what idestart asked for, or failed to.  The       *)
(* handler skips the transfer of a read that failed, does not look at the  *)
(* result of a write, and goes on in the same way.                         *)
ideintr ==
  /\ IdeFree /\ started # None /\ idequeue # <<>>
  /\ LET b == Head(idequeue)
         k == blockno[started]
     IN \E ok \in BOOLEAN :
          /\ ok \/ k \in Faulty
          /\ disk' = IF ok /\ dirty[started] THEN [disk EXCEPT ![k] = data[started]] ELSE disk
          /\ data' = IF ok /\ ~dirty[b] THEN [data EXCEPT ![b] = disk[k]] ELSE data
          /\ idequeue' = Tail(idequeue)
          /\ valid' = [valid EXCEPT ![b] = TRUE]
          /\ dirty' = [dirty EXCEPT ![b] = FALSE]
          /\ pc' = wakeRequest(b)
          /\ started' = startNext
  /\ UNCHANGED <<blockno, refcnt, locked, lru, buf, block, last, panicked>>

-----------------------------------------------------------------------------
(* A caller with a locked buffer changes its block, as log.c, fs.c do. *)
Fill(p, v) ==
  /\ pc[p] = "use"
  /\ block[p] \in Written
  /\ data' = [data EXCEPT ![buf[p]] = v]
  /\ last' = [last EXCEPT ![block[p]] = v]
  /\ dirty' = [dirty EXCEPT ![buf[p]] = TRUE]
  /\ UNCHANGED <<blockno, refcnt, valid, locked, lru, disk, buf, block, panicked>>

(* The caller changes the block and calls bwrite ... *)
bwrite(p, v) == Fill(p, v) /\ iderw(p)

(* ... or log_write, which only marks the buffer ... *)
log_write(p, v) ==
  /\ Fill(p, v)
  /\ Goes(p, "release")
  /\ UNCHANGED <<idequeue, started>>

(* ... or bwrite of what log_write has marked, in a commit ... *)
install_trans(p) ==
  /\ pc[p] = "use"
  /\ dirty[buf[p]]
  /\ iderw(p)
  /\ UNCHANGED <<bufVars, lru, disk, buf, block, last, panicked>>

(* ... or only reads. *)
Read(p) ==
  /\ pc[p] = "use"
  /\ Goes(p, "release")
  /\ UNCHANGED <<bufVars, lru, idequeue, started, disk, buf, block, last, panicked>>

-----------------------------------------------------------------------------
releasesleep(p) ==
  LET b == buf[p] IN
  /\ pc[p] = "release"
  /\ locked' = [locked EXCEPT ![b] = FALSE]
  /\ pc' = [q \in Proc |-> IF q = p THEN "brelse"
                           ELSE IF pc[q] = "sleep_lock" /\ buf[q] = b THEN "acquiresleep"
                           ELSE pc[q]]
  /\ UNCHANGED <<blockno, refcnt, valid, dirty, data, lru, idequeue, started, disk, buf, block, last, panicked>>

(* The list with b moved to its front. *)
toFront(b) ==
  LET j == CHOOSE i \in Buf : lru[i] = b
  IN [i \in Buf |-> IF i = 1 THEN b ELSE IF i <= j THEN lru[i - 1] ELSE lru[i]]

brelse(p) ==
  LET b == buf[p] IN
  /\ pc[p] = "brelse"
  /\ refcnt' = [refcnt EXCEPT ![b] = @ - 1]
  /\ lru' = IF refcnt[b] = 1 THEN toFront(b) ELSE lru
  /\ Goes(p, "idle")
  /\ buf' = [buf EXCEPT ![p] = None]
  /\ block' = [block EXCEPT ![p] = None]
  /\ UNCHANGED <<blockno, valid, dirty, locked, data, idequeue, started, disk, last, panicked>>

(* Steps a process takes without being told to. *)
Step(p) ==
  \/ acquiresleep(p) \/ bread(p) \/ sleep(p) \/ iderwWoken(p)
  \/ releasesleep(p) \/ brelse(p)

Next ==
  \/ ideintr
  \/ \E p \in Proc :
       \/ Step(p) \/ install_trans(p) \/ Read(p)
       \/ \E k \in Block : bget(p, k)
       \/ \E v \in Value : bwrite(p, v) \/ log_write(p, v)

(* A process that spins for idelock in the loop of iderw gets it: no other *)
(* processor wins the race for the lock for ever.                          *)
Spec ==
  /\ Init /\ [][Next]_vars
  /\ WF_vars(ideintr)
  /\ \A p \in Proc : WF_vars(Step(p)) /\ SF_vars(iderwWoken(p))

-----------------------------------------------------------------------------
Holding == {"bread", "sleep", "sleep_buf", "iderw", "use", "release"}

(* BuffersAreExclusive: a block is in one buffer only; the buffer that a   *)
(* process waits for or holds keeps its block although it may have slept   *)
(* twice since bget chose it; and two processes never hold the same one.   *)
BuffersAreExclusive ==
  /\ \A a, b \in Buf : a # b /\ blockno[a] # None => blockno[a] # blockno[b]
  /\ \A p \in Proc : buf[p] # None => blockno[buf[p]] = block[p]
  /\ \A p, q \in Proc : p # q /\ pc[p] \in Holding /\ pc[q] \in Holding => buf[p] # buf[q]

(* BuffersAreFound: the list never loses a buffer, so bget panics with "no *)
(* buffers" only when each one is in use or keeps a block of the log.      *)
BuffersAreFound ==
  (\E b \in Buf : MayRecycle(b)) => \E b \in Buf : IsVictim(b)

(* BuffersAreExact: bget gives each process a buffer of its own that is    *)
(* the only one with the block, and overlooks none.                        *)
BuffersAreExact == BuffersAreExclusive /\ BuffersAreFound

(* ReadsAreCurrent: bread gives its caller what was put into the block     *)
(* last, by whichever process and whether or not it has been on disk; a    *)
(* block that the disk fails to read or write spoils no other.             *)
ReadsAreCurrent ==
  \A p \in Proc :
    pc[p] = "use" /\ block[p] \notin Faulty => data[buf[p]] = last[block[p]]

(* NothingIsLost: a change that is not on disk is in a dirty buffer; so    *)
(* what bwrite wrote is on disk when it returns, and no recycled buffer    *)
(* held the only copy of a block.  Only a failed write loses one.          *)
NothingIsLost ==
  \A k \in Block \ Faulty :
    disk[k] # last[k] => \E b \in Buf : blockno[b] = k /\ dirty[b] /\ data[b] = last[k]

(* RequestsFinish: who has a request in the queue of iderw gets its buffer *)
(* back: idestart is called for every request, by iderw or by the handler  *)
(* of the one before, and no wakeup comes between the test in iderw and    *)
(* the sleep.                                                              *)
RequestsFinish ==
  \A p \in Proc : pc[p] = "sleep" ~> pc[p] = "use"

(* BreadReturnsContents: what bio.c says of bread, "Return a locked buf    *)
(* with the contents of the indicated block", of every block.  It does not *)
(* hold when the disk fails a read: ideintr skips the transfer and sets    *)
(* B_VALID.                                                                *)
BreadReturnsContents ==
  \A p \in Proc : pc[p] = "use" => data[buf[p]] = last[block[p]]
=============================================================================
