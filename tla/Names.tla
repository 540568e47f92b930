-------------------------------- MODULE Names --------------------------------
(***************************************************************************)
(* Inodes, directories and path names: iget to namex of fs.c, the system   *)
(* calls of sysfile.c that create, link, unlink and open files, and the    *)
(* swap files that every process creates and removes.                      *)
(*                                                                         *)
(* An inode on disk and its copy in the cache are one here, because every  *)
(* change is followed by iupdate before the inode is unlocked.  A step     *)
(* ends where the code waits for the lock of another inode, or gives up    *)
(* icache.lock; iput is two steps, since the reference count is read with  *)
(* the inode's lock and lowered after that lock is released.               *)
(***************************************************************************)
EXTENDS Integers, Sequences, FiniteSets, TLC

CONSTANTS
  Proc,
  SwapUsers,   \* processes that exit and exec, with their swap files
  NSWAP,       \* SWAP_FILE_MAX_NUM
  SwapName,    \* SwapName[p, i]: the entry of "./.swap<i><pid>"
  NINODES,     \* inodes of the disk
  Name,        \* names that programs use
  Programs,    \* what may run: functions from processes to sets of system calls,
               \* which are records with fields kind, abs, path, to
  None

Ino == 1..NINODES
Root == 1
File == 0..(NSWAP - 1)
Entry == Name \cup {SwapName[h] : h \in SwapUsers \X File}

ASSUME NamesAssumption ==
  /\ IsFiniteSet(Proc) /\ SwapUsers \subseteq Proc
  /\ NINODES \in Nat \ {0} /\ NSWAP \in Nat \ {0}
  /\ \A f \in Programs, p \in Proc : \A c \in f[p] :
       \/ c.kind \in {"open", "openw", "create", "mkdir", "link", "unlink", "chdir"}
       \/ c.kind \in {"exit", "exec"} /\ p \in SwapUsers

VARIABLES
  type, nlink,   \* fields of struct inode and struct dinode
  ent, dotdot,   \* entries of a directory
  ref, valid,    \* fields of struct inode only
  lock,          \* holder of the inode's sleep lock
  fd, cwd,       \* the open file and the directory of a process
  swap,          \* FilesForSwap
  lost,          \* files left open that no pointer leads to, by inode
  prog,          \* the programs that run: a member of Programs
  th,            \* where a process is in the kernel
  stop           \* "no", "panic" or "stray": see IsStray

diskVars == <<type, nlink, ent, dotdot>>
cacheVars == <<ref, valid, lock>>
procVars == <<fd, cwd, swap, lost>>
vars == <<diskVars, cacheVars, procVars, prog, th, stop>>

-----------------------------------------------------------------------------
NoCall == [kind |-> "none", abs |-> FALSE, path |-> <<>>, to |-> <<>>]

(* pc: the point in the code; rest, cur: namex's path and ip;              *)
(* ip: the caller's ip; put: the inode of iput; half: iput has released    *)
(* it; file: the swap file that the loops over them have come to           *)
Idle(l) == [pc |-> l, call |-> NoCall, rest |-> <<>>, cur |-> None, ip |-> None,
            put |-> None, half |-> FALSE, file |-> 0]

Exec == [NoCall EXCEPT !.kind = "exec"]

Init ==
  /\ type = [i \in Ino |-> IF i = Root THEN "T_DIR" ELSE "0"]
  /\ nlink = [i \in Ino |-> IF i = Root THEN 1 ELSE 0]
  /\ ent = [i \in Ino |-> [e \in Entry |-> None]]
  /\ dotdot = [i \in Ino |-> IF i = Root THEN Root ELSE None]
  /\ ref = [i \in Ino |-> IF i = Root THEN Cardinality(Proc) ELSE 0]
  /\ valid = [i \in Ino |-> FALSE]
  /\ lock = [i \in Ino |-> None]
  /\ fd = [p \in Proc |-> None]
  /\ cwd = [p \in Proc |-> Root]
  /\ swap = [p \in Proc |-> [i \in File |-> None]]
  /\ lost = [i \in Ino |-> 0]
  /\ th = [p \in Proc |-> IF p \in SwapUsers THEN [Idle("clear") EXCEPT !.call = Exec]
                          ELSE Idle("user")]
  /\ prog \in Programs
  /\ stop = "no"

-----------------------------------------------------------------------------
Panics == stop' = "panic"

At(p, l) == th[p].pc = l /\ th[p].put = None

Set(p, r) == th' = [th EXCEPT ![p] = r @@ @]

dirlookup(d, e) ==
  CASE e = "." -> d
    [] e = ".." -> dotdot[d]
    [] OTHER -> ent[d][e]

iget(i) == ref' = [ref EXCEPT ![i] = @ + 1]

isdirempty(d) == \A e \in Entry : ent[d][e] = None

(* ilock waits for the lock and reads the inode when it is not valid.  It  *)
(* would panic on a free one; InUseIsAllocated says that there is none.    *)
CanLock(i) == lock[i] = None

Validated(i) == [valid EXCEPT ![i] = TRUE]

(* Mutant: an inode without links is freed although it is still open. *)
lastRefAny(i) == TRUE

lastRef(i) == ref[i] = 1

(* iput up to releasesleep. *)
iput(p) ==
  LET i == th[p].put IN
  /\ i # None /\ ~th[p].half
  /\ lock[i] = None
  /\ IF valid[i] /\ nlink[i] = 0 /\ lastRef(i)
     THEN /\ type' = [type EXCEPT ![i] = "0"]
          /\ ent' = [ent EXCEPT ![i] = [e \in Entry |-> None]]
          /\ dotdot' = [dotdot EXCEPT ![i] = None]
          /\ valid' = [valid EXCEPT ![i] = FALSE]
     ELSE UNCHANGED <<type, ent, dotdot, valid>>
  /\ Set(p, [half |-> TRUE])
  /\ UNCHANGED <<nlink, ref, lock, procVars, stop>>

(* The end of iput.  A cache entry without references is invalid: iget     *)
(* would clear valid. *)
iputDone(p) ==
  LET i == th[p].put IN
  /\ i # None /\ th[p].half
  /\ ref' = [ref EXCEPT ![i] = @ - 1]
  /\ valid' = [valid EXCEPT ![i] = @ /\ ref[i] > 1]
  /\ Set(p, [put |-> None, half |-> FALSE])
  /\ UNCHANGED <<diskVars, lock, procVars, stop>>

-----------------------------------------------------------------------------
(* The end of a call.  ClearSwapFiles goes on with the next file when      *)
(* kunlink succeeds, and returns when it fails, which exit answers with a  *)
(* panic and exec not at all.  InitializeSwapFiles unlocks what create     *)
(* returns. *)
After(p, ok) ==
  LET k == th[p].call.kind
      more == th[p].file + 1 < NSWAP
  IN
  CASE k \in {"exit", "exec"} /\ ok /\ more -> "clear"
    [] k = "exit" /\ ok -> "exitcwd"
    [] k \in {"exit", "swapinit"} /\ ~ok -> "panic"
    [] k = "exec" -> "newswap"
    [] k = "swapinit" /\ more -> "newswap"
    [] OTHER -> "user"

(* The file at which the loop in which a call is made goes on. *)
NextFile(p, ok) ==
  IF After(p, ok) = "clear" \/ th[p].call.kind = "swapinit" THEN th[p].file + 1 ELSE 0

(* iunlockput(i) or iput(i) as the last thing of a call. *)
Finish(p, i, ok) ==
  th' = [th EXCEPT ![p] = IF After(p, ok) = "user" THEN [Idle("user") EXCEPT !.put = i]
                          ELSE [pc |-> After(p, ok), put |-> i, cur |-> None, ip |-> None,
                                file |-> NextFile(p, ok)] @@ @]

(* A system call begins: namex with its start. *)
Start(p, c, l, from) ==
  /\ iget(from)
  /\ th' = [th EXCEPT ![p] = [Idle(l) EXCEPT !.call = c, !.rest = c.path, !.cur = from,
                                             !.file = th[p].file]]
  /\ UNCHANGED <<diskVars, valid, lock, stop>>

Parent(k) == k \in {"create", "mkdir", "unlink", "exit", "exec", "swapinit"}

Call(p, c) ==
  /\ At(p, "user")
  /\ c.kind \notin {"exit", "exec"}
  /\ Start(p, c, IF Parent(c.kind) THEN "nameiparent" ELSE "namei",
           IF c.abs THEN Root ELSE cwd[p])
  /\ UNCHANGED procVars

(* Where a call goes on with the inode that namex has found. *)
Found(p) ==
  LET k == th[p].call.kind IN
  CASE k \in {"open", "openw"} -> "open"
    [] k \in {"create", "mkdir", "swapinit"} -> "create"
    [] k \in {"unlink", "exit", "exec"} -> "unlink"
    [] k = "chdir" -> "chdir"
    [] OTHER -> IF th[p].pc = "namei" THEN "link" ELSE "linkparent"

(* namex returns 0: iput of where it stopped. *)
NotFound(p) ==
  IF th[p].call.kind = "link" /\ th[p].pc = "nameiparent"
  THEN Set(p, [pc |-> "linkbad", put |-> th[p].cur, cur |-> None])
  ELSE Finish(p, th[p].cur, FALSE)

(* The ".." of a removed directory may be any inode, or a free one;        *)
(* behaviours are not followed beyond it. *)
IsStray(d, e) == e = ".." /\ nlink[d] = 0

(* One turn of namex's loop, and its end. *)
namex(p) ==
  LET i == th[p].cur
      next == dirlookup(i, Head(th[p].rest))
  IN
  /\ At(p, "namei") \/ At(p, "nameiparent")
  /\ IF th[p].rest = <<>>
     THEN /\ IF th[p].pc = "namei" THEN Set(p, [pc |-> Found(p)]) ELSE NotFound(p)
          /\ UNCHANGED <<ref, valid, stop>>
     ELSE /\ CanLock(i)
          /\ valid' = Validated(i)
          /\ IF type[i] # "T_DIR" THEN NotFound(p) /\ UNCHANGED <<ref, stop>>
             ELSE IF th[p].pc = "nameiparent" /\ Len(th[p].rest) = 1
             THEN Set(p, [pc |-> Found(p)]) /\ UNCHANGED <<ref, stop>>
             ELSE IF next = None THEN NotFound(p) /\ UNCHANGED <<ref, stop>>
             ELSE /\ iget(next)
                  /\ Set(p, [cur |-> next, rest |-> Tail(th[p].rest), put |-> i])
                  /\ stop' = IF IsStray(i, Head(th[p].rest)) THEN "stray" ELSE stop
  /\ UNCHANGED <<diskVars, lock, procVars>>

Last(p) == Head(th[p].rest)

-----------------------------------------------------------------------------
(* sys_open without O_CREATE; there is one descriptor. *)
open(p) ==
  LET i == th[p].cur IN
  /\ At(p, "open")
  /\ CanLock(i)
  /\ valid' = Validated(i)
  /\ IF (type[i] = "T_DIR" /\ th[p].call.kind = "openw") \/ fd[p] # None
     THEN Finish(p, i, FALSE) /\ UNCHANGED fd
     ELSE fd' = [fd EXCEPT ![p] = i] /\ Finish(p, None, TRUE)
  /\ UNCHANGED <<diskVars, ref, lock, cwd, swap, lost, stop>>

close(p) ==
  /\ At(p, "user")
  /\ fd[p] # None
  /\ fd' = [fd EXCEPT ![p] = None]
  /\ Set(p, [put |-> fd[p]])
  /\ UNCHANGED <<diskVars, cacheVars, cwd, swap, lost, stop>>

(* A pointer in FilesForSwap gets a new file, whatever it points to. *)
Overwrite(p, i) ==
  LET n == th[p].file
      old == swap[p][n]
  IN /\ swap' = [swap EXCEPT ![p][n] = i]
     /\ lost' = IF old = None THEN lost ELSE [lost EXCEPT ![old] = @ + 1]

(* What the callers of create do with the locked inode they get: open and  *)
(* InitializeSwapFiles keep it, mkdir puts it. *)
Created(p, i) ==
  LET k == th[p].call.kind IN
  CASE k = "create" /\ fd[p] = None ->
         fd' = [fd EXCEPT ![p] = i] /\ Finish(p, None, TRUE) /\ UNCHANGED <<swap, lost>>
    [] k = "swapinit" ->
         Overwrite(p, i) /\ Finish(p, None, TRUE) /\ UNCHANGED fd
    [] OTHER -> Finish(p, i, k = "mkdir") /\ UNCHANGED <<fd, swap, lost>>

(* create: the parent is locked; ialloc finds the first free inode. *)
create(p) ==
  LET dp == th[p].cur
      ip == dirlookup(dp, Last(p))
      free == {i \in Ino : type[i] = "0"}
  IN
  /\ At(p, "create")
  /\ CanLock(dp)
  /\ IF ip # None
     THEN /\ iget(ip)
          /\ valid' = Validated(dp)
          /\ Set(p, [pc |-> "existing", ip |-> ip, put |-> dp, cur |-> None])
          /\ UNCHANGED <<type, nlink, lock, stop>>
     ELSE IF free = {}
     THEN Panics /\ UNCHANGED <<ref, valid, type, nlink, lock, th>>
     ELSE LET i == CHOOSE i \in free : \A j \in free : i <= j IN
          /\ iget(i)
          /\ valid' = Validated(dp)
          /\ type' = [type EXCEPT ![i] = IF th[p].call.kind = "mkdir" THEN "T_DIR" ELSE "T_FILE"]
          /\ nlink' = [nlink EXCEPT ![i] = 0]
          /\ lock' = [lock EXCEPT ![dp] = p]
          /\ Set(p, [pc |-> "new", ip |-> i])
          /\ UNCHANGED stop
  /\ UNCHANGED <<ent, dotdot, procVars>>

createExisting(p) ==
  LET ip == th[p].ip IN
  /\ At(p, "existing")
  /\ CanLock(ip)
  /\ valid' = Validated(ip)
  /\ IF th[p].call.kind # "mkdir" /\ type[ip] = "T_FILE"
     THEN Created(p, ip)
     ELSE Finish(p, ip, FALSE) /\ UNCHANGED <<fd, swap, lost>>
  /\ UNCHANGED <<diskVars, ref, lock, cwd, stop>>

(* create with the new inode locked: it is linked, then iput(dp). *)
createNew(p) ==
  LET dp == th[p].cur
      ip == th[p].ip
      isdir == type[ip] = "T_DIR"
  IN
  /\ At(p, "new")
  /\ lock[ip] = None
  /\ valid' = Validated(ip)
  /\ nlink' = [nlink EXCEPT ![ip] = 1, ![dp] = IF isdir THEN @ + 1 ELSE @]
  /\ dotdot' = [dotdot EXCEPT ![ip] = IF isdir THEN dp ELSE None]
  /\ ent' = [ent EXCEPT ![dp][Last(p)] = ip]
  /\ lock' = [lock EXCEPT ![dp] = None, ![ip] = p]
  /\ Set(p, [pc |-> "made", put |-> dp, cur |-> None])
  /\ UNCHANGED <<type, ref, procVars, stop>>

createReturns(p) ==
  /\ At(p, "made")
  /\ lock' = [lock EXCEPT ![th[p].ip] = None]
  /\ Created(p, th[p].ip)
  /\ UNCHANGED <<diskVars, ref, valid, cwd, stop>>

-----------------------------------------------------------------------------
(* sys_unlink and kunlink: the parent is locked. *)
unlink(p) ==
  LET dp == th[p].cur
      e == Last(p)
      ip == dirlookup(dp, e)
  IN
  /\ At(p, "unlink")
  /\ CanLock(dp)
  /\ valid' = Validated(dp)
  /\ IF e \in {".", ".."} \/ ip = None
     THEN Finish(p, dp, FALSE) /\ UNCHANGED <<ref, lock>>
     ELSE /\ iget(ip)
          /\ lock' = [lock EXCEPT ![dp] = p]
          /\ Set(p, [pc |-> "victim", ip |-> ip])
  /\ UNCHANGED <<diskVars, procVars, stop>>

isVictim(i) == type[i] # "T_DIR" \/ isdirempty(i)

(* unlink with the victim locked: its entry goes, then iput(dp). *)
unlinkVictim(p) ==
  LET dp == th[p].cur
      ip == th[p].ip
  IN
  /\ At(p, "victim")
  /\ CanLock(ip)
  /\ valid' = Validated(ip)
  /\ IF nlink[ip] < 1
     THEN Panics /\ UNCHANGED <<ent, nlink, lock, th>>
     ELSE IF ~isVictim(ip)
     THEN Set(p, [pc |-> "notempty", put |-> ip, ip |-> None]) /\ UNCHANGED <<ent, nlink, lock, stop>>
     ELSE /\ ent' = [ent EXCEPT ![dp][Last(p)] = None]
          /\ nlink' = [nlink EXCEPT ![dp] = IF type[ip] = "T_DIR" THEN @ - 1 ELSE @]
          /\ lock' = [lock EXCEPT ![dp] = None, ![ip] = p]
          /\ Set(p, [pc |-> "unlinked", put |-> dp, cur |-> None])
          /\ UNCHANGED stop
  /\ UNCHANGED <<type, dotdot, ref, procVars>>

(* Mutant: the parent is neither unlocked nor put. *)
unlinkNotEmptyKeeps(p) ==
  /\ At(p, "notempty")
  /\ Finish(p, None, FALSE)
  /\ UNCHANGED <<diskVars, cacheVars, procVars, stop>>

unlinkNotEmpty(p) ==
  /\ At(p, "notempty")
  /\ lock' = [lock EXCEPT ![th[p].cur] = None]
  /\ Finish(p, th[p].cur, FALSE)
  /\ UNCHANGED <<diskVars, ref, valid, procVars, stop>>

unlinkDone(p) ==
  LET ip == th[p].ip IN
  /\ At(p, "unlinked")
  /\ nlink' = [nlink EXCEPT ![ip] = @ - 1]
  /\ lock' = [lock EXCEPT ![ip] = None]
  /\ Finish(p, ip, TRUE)
  /\ UNCHANGED <<type, ent, dotdot, ref, valid, procVars, stop>>

-----------------------------------------------------------------------------
mayLink(i) == type[i] # "T_DIR"

(* Mutant: the link is counted only when it is there. *)
linkUncounted(n) == n

linkCounted(n) == n + 1

(* sys_link with the old name's inode; then the new name's parent. *)
link(p) ==
  LET ip == th[p].cur
      c == th[p].call
      from == IF c.abs THEN Root ELSE cwd[p]
  IN
  /\ At(p, "link")
  /\ CanLock(ip)
  /\ valid' = Validated(ip)
  /\ IF ~mayLink(ip)
     THEN Finish(p, ip, FALSE) /\ UNCHANGED <<nlink, ref>>
     ELSE /\ nlink' = [nlink EXCEPT ![ip] = linkCounted(@)]
          /\ iget(from)
          /\ Set(p, [pc |-> "nameiparent", rest |-> c.to, cur |-> from, ip |-> ip])
  /\ UNCHANGED <<type, ent, dotdot, lock, procVars, stop>>

(* dirlink; when the name is there its inode is put with dp locked. *)
linkParent(p) ==
  LET dp == th[p].cur
      old == dirlookup(dp, Last(p))
  IN
  /\ At(p, "linkparent")
  /\ CanLock(dp)
  /\ valid' = Validated(dp)
  /\ IF old # None
     THEN /\ iget(old)
          /\ lock' = [lock EXCEPT ![dp] = p]
          /\ Set(p, [pc |-> "linkexists", put |-> old])
          /\ UNCHANGED ent
     ELSE /\ ent' = [ent EXCEPT ![dp][Last(p)] = th[p].ip]
          /\ Set(p, [pc |-> "linked", put |-> dp, cur |-> None])
          /\ UNCHANGED <<ref, lock>>
  /\ UNCHANGED <<type, nlink, dotdot, procVars, stop>>

linkExists(p) ==
  /\ At(p, "linkexists")
  /\ lock' = [lock EXCEPT ![th[p].cur] = None]
  /\ Set(p, [pc |-> "linkbad", put |-> th[p].cur, cur |-> None])
  /\ UNCHANGED <<diskVars, ref, valid, procVars, stop>>

linkDone(p) ==
  /\ At(p, "linked")
  /\ Finish(p, th[p].ip, TRUE)
  /\ UNCHANGED <<diskVars, cacheVars, procVars, stop>>

linkBad(p) ==
  LET ip == th[p].ip IN
  /\ At(p, "linkbad")
  /\ CanLock(ip)
  /\ nlink' = [nlink EXCEPT ![ip] = @ - 1]
  /\ Finish(p, ip, FALSE)
  /\ UNCHANGED <<type, ent, dotdot, cacheVars, procVars, stop>>

-----------------------------------------------------------------------------
chdir(p) ==
  LET ip == th[p].cur IN
  /\ At(p, "chdir")
  /\ CanLock(ip)
  /\ valid' = Validated(ip)
  /\ IF type[ip] # "T_DIR"
     THEN Finish(p, ip, FALSE)
     ELSE Set(p, [pc |-> "chdired", put |-> cwd[p], cur |-> None, ip |-> ip])
  /\ cwd' = IF type[ip] # "T_DIR" THEN cwd ELSE [cwd EXCEPT ![p] = None]
  /\ UNCHANGED <<diskVars, ref, lock, fd, swap, lost, stop>>

chdirDone(p) ==
  /\ At(p, "chdired")
  /\ cwd' = [cwd EXCEPT ![p] = th[p].ip]
  /\ Finish(p, None, TRUE)
  /\ UNCHANGED <<diskVars, cacheVars, fd, swap, lost, stop>>

(* exit closes the files and then, as exec does, clears the swap files. *)
Leave(p, c) ==
  /\ At(p, "user")
  /\ c.kind \in {"exit", "exec"}
  /\ IF c.kind = "exit" /\ fd[p] # None
     THEN fd' = [fd EXCEPT ![p] = None] /\ Set(p, [put |-> fd[p]])
     ELSE Set(p, [pc |-> "clear", call |-> c]) /\ UNCHANGED fd
  /\ UNCHANGED <<diskVars, cacheVars, cwd, swap, lost, stop>>

(* One turn of the loop of ClearSwapFiles: the file is closed and unlinked *)
(* under its name in the current directory.  It returns at the first       *)
(* failure and leaves the files that follow open.                          *)
ClearSwapFiles(p) ==
  LET n == th[p].file IN
  /\ At(p, "clear")
  /\ IF swap[p][n] = None
     THEN Finish(p, None, FALSE) /\ UNCHANGED <<swap, ref>>
     ELSE /\ swap' = [swap EXCEPT ![p][n] = None]
          /\ iget(cwd[p])
          /\ Set(p, [pc |-> "nameiparent", rest |-> <<".", SwapName[p, n]>>,
                     cur |-> cwd[p], put |-> swap[p][n]])
  /\ UNCHANGED <<diskVars, valid, lock, fd, cwd, lost, stop>>

panic(p) ==
  /\ At(p, "panic")
  /\ Panics
  /\ UNCHANGED <<diskVars, cacheVars, procVars, th>>

exitCwd(p) ==
  /\ At(p, "exitcwd")
  /\ th' = [th EXCEPT ![p] = [Idle("dead") EXCEPT !.put = cwd[p]]]
  /\ cwd' = [cwd EXCEPT ![p] = None]
  /\ UNCHANGED <<diskVars, cacheVars, fd, swap, lost, stop>>

(* A fork in the root directory takes the slot again. *)
fork(p) ==
  /\ At(p, "dead")
  /\ cwd' = [cwd EXCEPT ![p] = Root]
  /\ iget(Root)
  /\ Set(p, [pc |-> "newswap"])
  /\ UNCHANGED <<diskVars, valid, lock, fd, swap, lost, stop>>

(* One turn of the loop of InitializeSwapFiles. *)
InitializeSwapFiles(p) ==
  /\ At(p, "newswap")
  /\ Start(p, [kind |-> "swapinit", abs |-> FALSE, path |-> <<".", SwapName[p, th[p].file]>>,
               to |-> <<>>],
           "nameiparent", cwd[p])
  /\ UNCHANGED procVars

Kernel(p) ==
  \/ iput(p) \/ iputDone(p) \/ namex(p)
  \/ open(p)
  \/ create(p) \/ createExisting(p) \/ createNew(p) \/ createReturns(p)
  \/ unlink(p) \/ unlinkVictim(p) \/ unlinkNotEmpty(p) \/ unlinkDone(p)
  \/ link(p) \/ linkParent(p) \/ linkExists(p) \/ linkDone(p) \/ linkBad(p)
  \/ chdir(p) \/ chdirDone(p)
  \/ ClearSwapFiles(p) \/ InitializeSwapFiles(p)
  \/ exitCwd(p) \/ panic(p)

Next ==
  /\ stop = "no"
  /\ \E p \in Proc :
       \/ Kernel(p) \/ close(p) \/ fork(p)
       \/ \E c \in prog[p] : Call(p, c) \/ Leave(p, c)
  /\ UNCHANGED prog

Spec == Init /\ [][Next]_vars
-----------------------------------------------------------------------------
(* The references a process holds: its files and directory, and the        *)
(* variables of the code it is in. *)
Held(p) == <<fd[p], cwd[p], th[p].cur, th[p].ip, th[p].put>>

(* RefsAreExact: the reference count of an inode is the number of places   *)
(* that hold it: open files, directories and swap files of processes and   *)
(* the variables of calls in progress; no error path keeps or drops one    *)
(* too many, except that exec loses the swap files that ClearSwapFiles has *)
(* left open.                                                              *)
RefsAreExact ==
  \A i \in Ino :
    ref[i] = Cardinality({h \in Proc \X (1..5) : Held(h[1])[h[2]] = i})
             + Cardinality({h \in Proc \X File : swap[h[1]][h[2]] = i}) + lost[i]

Entries(i) == {h \in Ino \X Entry : ent[h[1]][h[2]] = i}

Subdirs(i) == {e \in Entry : ent[i][e] # None /\ type[ent[i][e]] = "T_DIR"}

(* Calls that have raised nlink before the entry is written, or lower it   *)
(* after the entry is gone. *)
InFlight(i) ==
  {p \in Proc : /\ th[p].ip = i
                /\ \/ th[p].call.kind = "link" /\ th[p].pc \in {"nameiparent", "linkparent", "linkexists", "linkbad"}
                   \/ th[p].pc = "unlinked"}

(* LinksAreCounted: nlink is never less than the number of entries that    *)
(* name the inode, plus its subdirectories, plus the links that calls in   *)
(* progress will add or have taken away; so iput never frees an inode that *)
(* has a name, and "unlink: nlink < 1" is never reached.                   *)
LinksAreCounted ==
  \A i \in Ino :
    type[i] # "0" =>
      nlink[i] >= Cardinality(Entries(i)) + Cardinality(Subdirs(i)) + Cardinality(InFlight(i))

(* InUseIsAllocated: what a directory names, and what a process has open,  *)
(* as its directory, as its swap file or in a variable of a call, is an    *)
(* allocated inode, although others unlink it at the same time and inodes  *)
(* are reused; so "ilock: no type" is not reached.  The exception is the   *)
(* ".." of a removed directory.                                            *)
InUseIsAllocated ==
  stop # "stray" =>
    /\ \A h \in Ino \X Entry : ent[h[1]][h[2]] # None => type[ent[h[1]][h[2]]] # "0"
    /\ \A p \in Proc, k \in 1..5 :
         Held(p)[k] # None /\ ~(k = 5 /\ th[p].half) => type[Held(p)[k]] # "0"
    /\ \A p \in Proc, n \in File : swap[p][n] # None => type[swap[p][n]] # "0"

(* DirsFormTree: a directory has one name at most, and its ".." is the     *)
(* directory that has the name.                                            *)
DirsFormTree ==
  \A i \in Ino :
    type[i] = "T_DIR" => /\ Cardinality(Entries(i)) <= 1
                         /\ \A h \in Entries(i) : dotdot[i] = h[1]

(* NamesAreExact: every name counts in nlink, and the names of directories *)
(* form a tree that ".." leads up.                                         *)
NamesAreExact == LinksAreCounted /\ DirsFormTree

(* UnlinkedIsFreed: an inode without links and references is free, as the  *)
(* comment before iput says (fs.c:329).  Two iputs of one inode can each   *)
(* find the other's reference and leave it allocated for ever.             *)
UnlinkedIsFreed ==
  \A i \in Ino : nlink[i] = 0 /\ ref[i] = 0 => type[i] = "0"

(* The inode whose lock a process waits for. *)
Wants(p) ==
  CASE th[p].put # None -> IF th[p].half THEN None ELSE th[p].put
    [] th[p].pc \in {"existing", "new", "victim", "linkbad"} -> th[p].ip
    [] th[p].pc \in {"namei", "nameiparent", "open", "create", "unlink", "link", "linkparent", "chdir"} -> th[p].cur
    [] OTHER -> None

(* NoDeadlock: two processes never hold the inode that the other waits     *)
(* for.  iput locks the directory again while create and unlink hold the   *)
(* file, and unlink locks the file while it holds the directory.           *)
NoDeadlock ==
  \A p, q \in Proc :
    ~ (/\ Wants(p) # None /\ lock[Wants(p)] = q
       /\ Wants(q) # None /\ lock[Wants(q)] = p)
=============================================================================
