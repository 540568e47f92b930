------------------------------- MODULE Blocks -------------------------------
(***************************************************************************)
(* The contents of files: balloc, bfree, bmap, itrunc, readi and writei of *)
(* fs.c, and fileread and filewrite of file.c with the offset in the       *)
(* shared struct file.  The disk starts as mkfs.c leaves it.               *)
(*                                                                         *)
(* readi, writei and itrunc run with the inode locked.  Between their      *)
(* steps other processes work on other inodes and take blocks from, or     *)
(* give them back to, the same bitmap.                                     *)
(***************************************************************************)
EXTENDS Integers, SequencesExt, FiniteSets

CONSTANTS
  Proc,
  Ino,
  FileIno,    \* FileIno[f]: inode of the open file f
  Files,      \* Files[p]: the open files of p
  SwapFile,   \* the files that are used with ReadSwapFile and WriteSwapFile
  BSIZE,      \* bytes, or block numbers, in a block
  NDIRECT,
  NBLOCKS,    \* data blocks of the disk
  Image,      \* the files mkfs puts on it: pairs of an inode and its bytes
  MaxChunk,   \* filewrite's max
  Writes,     \* Writes[p]: what p writes
  ReadSize,   \* bytes that a read asks for
  None

NINDIRECT == BSIZE
MAXFILE == NDIRECT + NINDIRECT
File == DOMAIN FileIno
Block == 1..NBLOCKS

ASSUME BlocksAssumption ==
  /\ IsFiniteSet(Proc) /\ FileIno \in [File -> Ino] /\ SwapFile \subseteq File
  /\ BSIZE \in Nat \ {0} /\ NDIRECT \in Nat \ {0} /\ NBLOCKS \in Nat
  /\ MaxChunk \in Nat \ {0}
  /\ None \notin Proc

VARIABLES
  used,         \* the bitmap
  blk,          \* contents of the blocks: bytes, or the numbers of blocks
  addrs, size,  \* fields of struct inode
  lock,         \* holder of the inode's lock
  off,          \* field of struct file
  pc, file,     \* the call of a process and its file
  ino,          \* the inode it works on
  src,          \* filewrite: bytes still to be written
  end,          \* writei: off + n, where the chunk ends
  new,          \* balloc: the block it has found, 0 if none
  got,          \* readi: bytes read
  content,      \* what the calls that have returned have put into a file
  panicked

fsVars == <<used, blk, addrs, size>>
callVars == <<pc, file, ino, src, end, new, got>>
vars == <<fsVars, lock, off, callVars, content, panicked>>

-----------------------------------------------------------------------------
Zeros == [k \in 0..(BSIZE - 1) |-> 0]

Min2(x, y) == IF x < y THEN x ELSE y

(* mkfs: a blank disk, where freeblock is the first data block. *)
Blank ==
  [freeblock |-> 1,
   blk |-> [b \in Block |-> Zeros],
   addrs |-> [i \in Ino |-> [k \in 0..NDIRECT |-> 0]],
   size |-> [i \in Ino |-> 0]]

named(m, i, k) ==
  IF m.addrs[i][k] # 0 THEN m
  ELSE [m EXCEPT !.addrs[i][k] = m.freeblock, !.freeblock = @ + 1]

named2(m, ind, k) ==
  IF m.blk[ind][k] # 0 THEN m
  ELSE [m EXCEPT !.blk[ind][k] = m.freeblock, !.freeblock = @ + 1]

(* mkfs's iappend, byte by byte: the blocks it needs are taken in turn. *)
iappend(m, i, c) ==
  LET bn == m.size[i] \div BSIZE
      m1 == named(m, i, Min2(bn, NDIRECT))
      x1 == m1.addrs[i][Min2(bn, NDIRECT)]
      m2 == IF bn < NDIRECT THEN m1 ELSE named2(m1, x1, bn - NDIRECT)
      x == IF bn < NDIRECT THEN x1 ELSE m2.blk[x1][bn - NDIRECT]
  IN [m2 EXCEPT !.blk[x][m.size[i] % BSIZE] = c, !.size[i] = @ + 1]

mkfs ==
  FoldLeft(LAMBDA m, f : FoldLeft(LAMBDA n, c : iappend(n, f[1], c), m, f[2]), Blank, Image)

Init ==
  /\ used = 1..(mkfs.freeblock - 1)
  /\ blk = mkfs.blk
  /\ addrs = mkfs.addrs
  /\ size = mkfs.size
  /\ lock = [i \in Ino |-> None]
  /\ off = [f \in File |-> 0]
  /\ pc = [p \in Proc |-> "user"]
  /\ file = [p \in Proc |-> None]
  /\ ino = [p \in Proc |-> None]
  /\ src = [p \in Proc |-> <<>>]
  /\ end = [p \in Proc |-> 0]
  /\ new = [p \in Proc |-> 0]
  /\ got = [p \in Proc |-> <<>>]
  /\ content = [i \in Ino |-> FlattenSeq([k \in DOMAIN Image |->
                                 IF Image[k][1] = i THEN Image[k][2] ELSE <<>>])]
  /\ panicked = FALSE

(* The block bmap finds for bn, 0 if it has to allocate. *)
mapped(i, bn) ==
  IF bn < NDIRECT THEN addrs[i][bn]
  ELSE IF addrs[i][NDIRECT] = 0 THEN 0
  ELSE blk[addrs[i][NDIRECT]][bn - NDIRECT]

Goes(p, l) == pc' = [pc EXCEPT ![p] = l]

Idle(p) ==
  /\ Goes(p, "user")
  /\ file' = [file EXCEPT ![p] = None]
  /\ ino' = [ino EXCEPT ![p] = None]
  /\ src' = [src EXCEPT ![p] = <<>>]
  /\ end' = [end EXCEPT ![p] = 0]
  /\ got' = [got EXCEPT ![p] = <<>>]

-----------------------------------------------------------------------------
(* Where a call starts: ReadSwapFile and WriteSwapFile set the offset. *)
Offsets(f) == IF f \in SwapFile THEN {0, BSIZE} ELSE {off[f]}

(* The call of filewrite. *)
WriteCall(p, f, s) ==
  /\ pc[p] = "user"
  /\ Goes(p, "filewrite")
  /\ file' = [file EXCEPT ![p] = f]
  /\ src' = [src EXCEPT ![p] = s]
  /\ \E o \in Offsets(f) : off' = [off EXCEPT ![f] = o]
  /\ UNCHANGED <<fsVars, lock, ino, end, new, got, content, panicked>>

(* The checks of writei. *)
tooLong(i, o, n) == o > size[i] \/ o + n > MAXFILE * BSIZE

(* One turn of filewrite's loop up to the loop of writei. *)
filewrite(p) ==
  LET f == file[p]
      i == FileIno[f]
      n1 == Min2(Len(src[p]), MaxChunk)
  IN
  /\ pc[p] = "filewrite"
  /\ lock[i] = None
  /\ IF tooLong(i, off[f], n1)
     THEN Idle(p) /\ UNCHANGED lock
     ELSE /\ lock' = [lock EXCEPT ![i] = p]
          /\ ino' = [ino EXCEPT ![p] = i]
          /\ end' = [end EXCEPT ![p] = off[f] + n1]
          /\ Goes(p, "bmap")
          /\ UNCHANGED <<file, src, got>>
  /\ UNCHANGED <<fsVars, off, new, content, panicked>>

(* Where writei is; the bytes before it are already copied. *)
pos(p) == off[file[p]] + Len(got[p])

free == Block \ used

(* bmap finds no block and calls balloc for the indirect or a data block. *)
balloc(p) ==
  /\ pc[p] = "bmap"
  /\ mapped(ino[p], pos(p) \div BSIZE) = 0
  /\ IF free = {}
     THEN panicked' = TRUE /\ UNCHANGED <<used, new, pc>>
     ELSE \E b \in free :
            /\ \A c \in free : b <= c
            /\ used' = used \cup {b}
            /\ new' = [new EXCEPT ![p] = b]
            /\ Goes(p, "bzero")
            /\ UNCHANGED panicked
  /\ UNCHANGED <<blk, addrs, size, lock, off, file, ino, src, end, got, content>>

(* Mutant: the block keeps what its last owner has left. *)
zeroedNot(b) == blk

zeroed(b) == [blk EXCEPT ![b] = Zeros]

(* The end of balloc, and the assignment in bmap. *)
bzero(p) ==
  LET i == ino[p]
      bn == pos(p) \div BSIZE
      b == new[p]
  IN
  /\ pc[p] = "bzero"
  /\ IF bn < NDIRECT \/ addrs[i][NDIRECT] = 0
     THEN /\ blk' = zeroed(b)
          /\ addrs' = [addrs EXCEPT ![i][Min2(bn, NDIRECT)] = b]
     ELSE /\ blk' = [zeroed(b) EXCEPT ![addrs[i][NDIRECT]][bn - NDIRECT] = b]
          /\ UNCHANGED addrs
  /\ new' = [new EXCEPT ![p] = 0]
  /\ Goes(p, "bmap")
  /\ UNCHANGED <<used, size, lock, off, file, ino, src, end, got, content, panicked>>

(* The bytes of a file, from the blocks. *)
Bytes(i) == [k \in 1..size[i] |-> blk[mapped(i, (k - 1) \div BSIZE)][(k - 1) % BSIZE]]

(* s with the bytes t from offset o on. *)
Overwritten(s, o, t) ==
  [k \in 1..(IF o + Len(t) > Len(s) THEN o + Len(t) ELSE Len(s)) |->
     IF k \in (o + 1)..(o + Len(t)) THEN t[k - o] ELSE s[k]]

(* One turn of writei's loop, in the block that bmap has found.  got holds *)
(* the bytes of this chunk that are done. *)
writei(p) ==
  LET i == ino[p]
      o == pos(p)
      b == mapped(i, o \div BSIZE)
      at == o % BSIZE
      m == Min2(end[p] - o, BSIZE - at)
  IN
  /\ pc[p] = "bmap"
  /\ o < end[p]
  /\ b # 0
  /\ blk' = [blk EXCEPT ![b] = [k \in DOMAIN @ |->
               IF k \in at..(at + m - 1) THEN src[p][k - at + 1] ELSE @[k]]]
  /\ got' = [got EXCEPT ![p] = @ \o SubSeq(src[p], 1, m)]
  /\ src' = [src EXCEPT ![p] = SubSeq(@, m + 1, Len(@))]
  /\ Goes(p, IF o + m = end[p] THEN "written" ELSE "bmap")
  /\ UNCHANGED <<used, addrs, size, lock, off, file, ino, end, new, content, panicked>>

(* Mutant: f->off stays. *)
advancedNot(f, n) == off

advanced(f, n) == [off EXCEPT ![f] = @ + n]

sizeAfter(i, e) == IF e > size[i] THEN e ELSE size[i]

(* The end of writei and of the loop in filewrite. *)
written(p) ==
  LET i == ino[p]
      f == file[p]
  IN
  /\ pc[p] = "written"
  /\ size' = [size EXCEPT ![i] = sizeAfter(i, end[p])]
  /\ content' = [content EXCEPT ![i] = Overwritten(@, off[f], got[p])]
  /\ off' = advanced(f, Len(got[p]))
  /\ lock' = [lock EXCEPT ![i] = None]
  /\ IF src[p] = <<>> THEN Idle(p)
     ELSE /\ Goes(p, "filewrite")
          /\ ino' = [ino EXCEPT ![p] = None]
          /\ end' = [end EXCEPT ![p] = 0]
          /\ got' = [got EXCEPT ![p] = <<>>]
          /\ UNCHANGED <<file, src>>
  /\ UNCHANGED <<used, blk, addrs, new, panicked>>

-----------------------------------------------------------------------------
(* iput frees the inode: nobody has it open, and a new file gets it. *)
TruncCall(p, i) ==
  /\ pc[p] = "user"
  /\ size[i] > 0
  /\ \A q \in Proc : file[q] # None => FileIno[file[q]] # i
  /\ lock[i] = None
  /\ lock' = [lock EXCEPT ![i] = p]
  /\ ino' = [ino EXCEPT ![p] = i]
  /\ off' = [f \in File |-> IF FileIno[f] = i THEN 0 ELSE off[f]]
  /\ Goes(p, "itrunc")
  /\ UNCHANGED <<fsVars, file, src, end, new, got, content, panicked>>

(* Mutant: the last entry of the indirect block is left out. *)
entriesButOne == NINDIRECT - 1

entries == NINDIRECT

(* One bfree of itrunc: the direct blocks, the blocks of the indirect      *)
(* block, the indirect block.  end is the j of its loop. *)
itrunc(p) ==
  LET i == ino[p]
      j == end[p]
      direct == {k \in 0..(NDIRECT - 1) : addrs[i][k] # 0}
      ind == addrs[i][NDIRECT]
      Bfree(b) == panicked' = (b \notin used) /\ used' = used \ {b}
  IN
  /\ pc[p] = "itrunc"
  /\ IF direct # {}
     THEN \E k \in direct :
            /\ \A l \in direct : k <= l
            /\ Bfree(addrs[i][k])
            /\ addrs' = [addrs EXCEPT ![i][k] = 0]
            /\ UNCHANGED <<size, lock, callVars, content>>
     ELSE IF ind # 0 /\ j < entries
     THEN /\ IF blk[ind][j] # 0 THEN Bfree(blk[ind][j]) ELSE UNCHANGED <<used, panicked>>
          /\ end' = [end EXCEPT ![p] = j + 1]
          /\ UNCHANGED <<addrs, size, lock, pc, file, ino, src, new, got, content>>
     ELSE IF ind # 0
     THEN /\ Bfree(ind)
          /\ addrs' = [addrs EXCEPT ![i][NDIRECT] = 0]
          /\ UNCHANGED <<size, lock, callVars, content>>
     ELSE /\ size' = [size EXCEPT ![i] = 0]
          /\ content' = [content EXCEPT ![i] = <<>>]
          /\ lock' = [lock EXCEPT ![i] = None]
          /\ Idle(p)
          /\ UNCHANGED <<used, addrs, new, panicked>>
  /\ UNCHANGED <<blk, off>>

-----------------------------------------------------------------------------
(* fileread up to the loop of readi; what is beyond the size is cut off. *)
ReadCall(p, f, n) ==
  LET i == FileIno[f] IN
  /\ pc[p] = "user"
  /\ lock[i] = None
  /\ lock' = [lock EXCEPT ![i] = p]
  /\ \E o \in Offsets(f) :
       /\ o < size[i]
       /\ off' = [off EXCEPT ![f] = o]
       /\ end' = [end EXCEPT ![p] = Min2(o + n, size[i])]
  /\ file' = [file EXCEPT ![p] = f]
  /\ ino' = [ino EXCEPT ![p] = i]
  /\ Goes(p, "readi")
  /\ UNCHANGED <<fsVars, src, new, got, content, panicked>>

(* One turn of readi's loop. *)
readi(p) ==
  LET o == pos(p)
      b == mapped(ino[p], o \div BSIZE)
      at == o % BSIZE
      m == Min2(end[p] - o, BSIZE - at)
  IN
  /\ pc[p] = "readi"
  /\ b # 0
  /\ got' = [got EXCEPT ![p] = @ \o [k \in 1..m |-> blk[b][at + k - 1]]]
  /\ Goes(p, IF o + m = end[p] THEN "read" ELSE "readi")
  /\ UNCHANGED <<fsVars, lock, off, file, ino, src, end, new, content, panicked>>

(* The end of fileread. *)
fileread(p) ==
  /\ pc[p] = "read"
  /\ off' = advanced(file[p], Len(got[p]))
  /\ lock' = [lock EXCEPT ![ino[p]] = None]
  /\ Idle(p)
  /\ UNCHANGED <<fsVars, new, content, panicked>>

Step(p) ==
  \/ filewrite(p) \/ balloc(p) \/ bzero(p) \/ writei(p) \/ written(p)
  \/ itrunc(p) \/ readi(p) \/ fileread(p)

Next ==
  /\ ~panicked
  /\ \E p \in Proc :
       \/ Step(p)
       \/ \E i \in Ino : TruncCall(p, i)
       \/ \E f \in Files[p] : \/ \E s \in Writes[p] : WriteCall(p, f, s)
                              \/ ReadCall(p, f, ReadSize)

Spec == Init /\ [][Next]_vars
-----------------------------------------------------------------------------
(* The blocks that belong to an inode, with the place that names each. *)
Owned(i) ==
  {<<k, addrs[i][k]>> : k \in {k \in 0..NDIRECT : addrs[i][k] # 0}}
  \cup IF addrs[i][NDIRECT] = 0 THEN {}
       ELSE {<<NDIRECT + 1 + k, blk[addrs[i][NDIRECT]][k]>> :
               k \in {k \in 0..(NINDIRECT - 1) :
                        /\ blk[addrs[i][NDIRECT]][k] # 0
                        /\ \A p \in Proc : pc[p] = "itrunc" /\ ino[p] = i => end[p] <= k}}

(* Every place of the file system that names a block. *)
Owners ==
  UNION {{<<i, o[1], o[2]>> : o \in Owned(i)} : i \in Ino}
  \cup {<<p, 0, new[p]>> : p \in {p \in Proc : new[p] # 0}}

(* BlocksAreExact: a block is in use, according to the bitmap, exactly if  *)
(* one inode, indirect block or balloc in progress has it, and no two have *)
(* the same one; so none leaks and "freeing free block" is not reached.    *)
BlocksAreExact ==
  /\ used = {o[3] : o \in Owners}
  /\ Cardinality(used) = Cardinality(Owners)

(* ContentsAreExact: a file that nobody is changing holds the bytes that   *)
(* the writes have put there, however they were split into transactions    *)
(* and blocks, and whoever had the blocks before; and a read returns the   *)
(* bytes at its offset.                                                    *)
ContentsAreExact ==
  /\ \A i \in Ino : lock[i] = None => Bytes(i) = content[i]
  /\ \A p \in Proc :
       pc[p] = "read" => got[p] = SubSeq(content[ino[p]], off[file[p]] + 1, end[p])

(* SharedWritesAppend: processes that share an open file, after a fork or  *)
(* dup, never write over each other's bytes: what one writes goes to the   *)
(* end of the file, although filewrite gives up the inode between chunks.  *)
SharedWritesAppend ==
  \A f \in File \ SwapFile :
    lock[FileIno[f]] = None => off[f] = size[FileIno[f]]
=============================================================================
