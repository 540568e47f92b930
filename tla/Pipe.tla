-------------------------------- MODULE Pipe --------------------------------
(***************************************************************************)
(* Pipes, the open-file table and file descriptors: pipe.c, the reference  *)
(* counts of file.c, and pipe, dup, read, write, close, fork and exit as   *)
(* far as they touch them.                                                 *)
(*                                                                         *)
(* A step is what a process does while it holds the pipe's lock or         *)
(* ftable.lock.  fileclose gives up ftable.lock before it calls pipeclose, *)
(* so a file can be gone while its end of the pipe is still open.          *)
(***************************************************************************)
EXTENDS Integers, Sequences, FiniteSets

CONSTANTS
  Proc,      \* process slots
  First,     \* the process that runs at the start
  Killable,  \* processes that others kill
  NOFILE,    \* file descriptors of a process
  NFILE,     \* entries of ftable
  Writes,    \* the sequences of bytes that programs write
  PIPESIZE,
  UINT,      \* number of values of the uint counters nread and nwrite
  MAXREAD,   \* largest n of a read
  None

Fd == 1..NOFILE
File == 1..NFILE
Byte == UNION {{s[i] : i \in DOMAIN s} : s \in Writes}

ASSUME PipeAssumption ==
  /\ IsFiniteSet(Proc) /\ First \in Proc /\ Killable \subseteq Proc
  /\ NOFILE \in Nat \ {0} /\ NFILE \in Nat \ {0}
  /\ PIPESIZE \in Nat \ {0}
  /\ UINT \in Nat /\ PIPESIZE < UINT /\ UINT % PIPESIZE = 0
  /\ MAXREAD \in Nat \ {0}
  /\ Writes \subseteq Seq(Byte)
  /\ None \notin File

VARIABLES
  ofile,                \* proc.ofile
  ref, writable,        \* fields of struct file
  page,                 \* the page of the pipe is allocated; there is only one
  data, nread, nwrite,  \* fields of struct pipe
  readopen, writeopen,
  state, killed,        \* fields of struct proc
  pc,                   \* the call a process is in
  out,                  \* pipewrite: bytes still to be written
  n,                    \* piperead: argument n
  got,                  \* what a read returns, None when there is none
  ff,                   \* fileclose: ff.writable
  cut                   \* a killed writer has left the pipe full

tableVars == <<ofile, ref, writable>>
pipeVars == <<page, data, nread, nwrite, readopen, writeopen>>
procVars == <<state, killed>>
callVars == <<pc, out, n, got, ff>>
vars == <<tableVars, pipeVars, procVars, callVars, cut>>

-----------------------------------------------------------------------------
FreeFd(p) == {d \in Fd : ofile[p][d] = None}

FreeFile == {f \in File : ref[f] = 0}

(* The two smallest elements of a set of numbers. *)
FirstTwo(S, a, b) ==
  /\ {a, b} \subseteq S /\ a < b
  /\ \A c \in S : c = a \/ b <= c

IsFirst(a, S) == a \in S /\ \A b \in S : a <= b

(* Bytes in the pipe, as nwrite - nread in unsigned arithmetic. *)
Count == (nwrite - nread) % UINT

(* Who may run: a killed process goes on only with the call it is in. *)
InUser(p) == state[p] = "RUNNING" /\ pc[p] = "user" /\ ~killed[p]

InCall(p, c) == state[p] = "RUNNING" /\ pc[p] = c

(* Mutant: nobody is woken. *)
noWakeup(c) == state

wakeup(c) == [p \in Proc |-> IF state[p] = c THEN "RUNNING" ELSE state[p]]

(* kfree fills the page. *)
Junk == [i \in 0..(PIPESIZE - 1) |-> None]

Init ==
  /\ ofile = [p \in Proc |-> [d \in Fd |-> None]]
  /\ ref = [f \in File |-> 0]
  /\ writable = [f \in File |-> FALSE]
  /\ page = FALSE
  /\ data = Junk
  /\ nread = 0 /\ nwrite = 0
  /\ readopen = FALSE /\ writeopen = FALSE
  /\ state = [p \in Proc |-> IF p = First THEN "RUNNING" ELSE "UNUSED"]
  /\ killed = [p \in Proc |-> FALSE]
  /\ pc = [p \in Proc |-> "user"]
  /\ out = [p \in Proc |-> <<>>]
  /\ n = [p \in Proc |-> 0]
  /\ got = [p \in Proc |-> None]
  /\ ff = [p \in Proc |-> FALSE]
  /\ cut = FALSE

-----------------------------------------------------------------------------
(* pipealloc and the descriptors for it.  When files, memory or            *)
(* descriptors run out, everything is undone and nothing changes.          *)
sys_pipe(p) ==
  /\ InUser(p)
  /\ ~page
  /\ \E f0, f1 \in File, d0, d1 \in Fd :
       /\ FirstTwo(FreeFile, f0, f1)
       /\ FirstTwo(FreeFd(p), d0, d1)
       /\ ofile' = [ofile EXCEPT ![p][d0] = f0, ![p][d1] = f1]
       /\ ref' = [ref EXCEPT ![f0] = 1, ![f1] = 1]
       /\ writable' = [writable EXCEPT ![f0] = FALSE, ![f1] = TRUE]
  /\ page' = TRUE
  /\ nread' = 0 /\ nwrite' = 0
  /\ readopen' = TRUE /\ writeopen' = TRUE
  /\ cut' = FALSE
  /\ UNCHANGED <<data, procVars, callVars>>

sys_dup(p, d) ==
  /\ InUser(p)
  /\ ofile[p][d] # None
  /\ \E e \in Fd : IsFirst(e, FreeFd(p)) /\ ofile' = [ofile EXCEPT ![p][e] = ofile[p][d]]
  /\ ref' = [ref EXCEPT ![ofile[p][d]] = @ + 1]
  /\ UNCHANGED <<writable, pipeVars, procVars, callVars, cut>>

(* Mutant: the end is closed with each descriptor. *)
fileclosed(f) == TRUE

(* The last reference of fileclose. *)
fileclose(f) == ref[f] = 1

(* close of descriptor d; then names where the process goes on. *)
Close(p, d, then) ==
  LET f == ofile[p][d] IN
  /\ ofile' = [ofile EXCEPT ![p][d] = None]
  /\ ref' = [ref EXCEPT ![f] = @ - 1]
  /\ IF fileclose(f)
     THEN /\ pc' = [pc EXCEPT ![p] = then]
          /\ ff' = [ff EXCEPT ![p] = writable[f]]
     ELSE UNCHANGED <<pc, ff>>
  /\ UNCHANGED <<writable, pipeVars, procVars, out, n, got, cut>>

sys_close(p, d) ==
  /\ InUser(p)
  /\ ofile[p][d] # None
  /\ Close(p, d, "close")

(* The page is freed when both ends are closed. *)
pipefree(r, w) == ~r /\ ~w

pipeclose(p) ==
  /\ \/ InCall(p, "close") /\ pc' = [pc EXCEPT ![p] = "user"]
     \/ InCall(p, "exitclose") /\ pc' = [pc EXCEPT ![p] = "exit"]
  /\ IF ff[p]
     THEN writeopen' = FALSE /\ UNCHANGED readopen /\ state' = wakeup("nread")
     ELSE readopen' = FALSE /\ UNCHANGED writeopen /\ state' = wakeup("nwrite")
  /\ IF pipefree(readopen', writeopen')
     THEN page' = FALSE /\ data' = Junk /\ nread' = 0 /\ nwrite' = 0 /\ cut' = FALSE
     ELSE UNCHANGED <<page, data, nread, nwrite, cut>>
  /\ ff' = [ff EXCEPT ![p] = FALSE]
  /\ UNCHANGED <<tableVars, killed, out, n, got>>

-----------------------------------------------------------------------------
(* sys_write and filewrite up to pipewrite. *)
WriteCall(p, d, s) ==
  /\ InUser(p)
  /\ ofile[p][d] # None
  /\ writable[ofile[p][d]]
  /\ pc' = [pc EXCEPT ![p] = "write"]
  /\ out' = [out EXCEPT ![p] = s]
  /\ UNCHANGED <<tableVars, pipeVars, procVars, n, got, ff, cut>>

(* Mutant: nwrite is kept below PIPESIZE. *)
slotFrom0(i) == i - 1

(* Where the i-th byte of a write goes. *)
slot(i) == (nwrite + i - 1) % PIPESIZE

(* Bytes that fit before nwrite == nread + PIPESIZE. *)
Room == PIPESIZE - Count

(* What pipewrite does until it returns or sleeps. *)
pipewrite(p) ==
  LET k == IF Len(out[p]) <= Room THEN Len(out[p]) ELSE Room
      rest == SubSeq(out[p], k + 1, Len(out[p]))
      Leave == pc' = [pc EXCEPT ![p] = "user"] /\ out' = [out EXCEPT ![p] = <<>>]
  IN
  /\ InCall(p, "write")
  /\ data' = [j \in DOMAIN data |->
                IF \E i \in 1..k : slot(i) = j
                THEN out[p][CHOOSE i \in 1..k : slot(i) = j] ELSE data[j]]
  /\ nwrite' = (nwrite + k) % UINT
  /\ \/ /\ rest = <<>>
        /\ Leave
        /\ state' = wakeup("nread")
        /\ UNCHANGED cut
     \/ /\ rest # <<>> /\ (~readopen \/ killed[p])
        /\ Leave
        /\ cut' = (cut \/ readopen)
        /\ UNCHANGED state
     \/ /\ rest # <<>> /\ readopen /\ ~killed[p]
        /\ state' = [wakeup("nread") EXCEPT ![p] = "nwrite"]
        /\ out' = [out EXCEPT ![p] = rest]
        /\ UNCHANGED <<pc, cut>>
  /\ UNCHANGED <<tableVars, page, nread, readopen, writeopen, killed, n, got, ff>>

ReadCall(p, d, m) ==
  /\ InUser(p)
  /\ ofile[p][d] # None
  /\ ~writable[ofile[p][d]]
  /\ pc' = [pc EXCEPT ![p] = "read"]
  /\ n' = [n EXCEPT ![p] = m]
  /\ UNCHANGED <<tableVars, pipeVars, procVars, out, got, ff, cut>>

piperead(p) ==
  LET empty == nread = nwrite
      k == IF n[p] <= Count THEN n[p] ELSE Count
  IN
  /\ InCall(p, "read")
  /\ \/ /\ empty /\ writeopen /\ killed[p]
        /\ pc' = [pc EXCEPT ![p] = "user"]
        /\ n' = [n EXCEPT ![p] = 0]
        /\ UNCHANGED <<nread, state, got>>
     \/ /\ empty /\ writeopen /\ ~killed[p]
        /\ state' = [state EXCEPT ![p] = "nread"]
        /\ UNCHANGED <<nread, pc, n, got>>
     \/ /\ ~(empty /\ writeopen)
        /\ got' = [got EXCEPT ![p] = [i \in 1..k |-> data[(nread + i - 1) % PIPESIZE]]]
        /\ nread' = (nread + k) % UINT
        /\ state' = wakeup("nwrite")
        /\ pc' = [pc EXCEPT ![p] = "return"]
        /\ n' = [n EXCEPT ![p] = 0]
  /\ UNCHANGED <<tableVars, page, data, nwrite, readopen, writeopen, killed, out, ff, cut>>

(* The caller of read has its bytes. *)
ReadReturn(p) ==
  /\ InCall(p, "return")
  /\ pc' = [pc EXCEPT ![p] = "user"]
  /\ got' = [got EXCEPT ![p] = None]
  /\ UNCHANGED <<tableVars, pipeVars, procVars, out, n, ff, cut>>

-----------------------------------------------------------------------------
fork(p, q) ==
  /\ InUser(p)
  /\ state[q] = "UNUSED"
  /\ state' = [state EXCEPT ![q] = "RUNNING"]
  /\ ofile' = [ofile EXCEPT ![q] = ofile[p]]
  /\ ref' = [f \in File |-> ref[f] + Cardinality({d \in Fd : ofile[p][d] = f})]
  /\ UNCHANGED <<writable, pipeVars, killed, callVars, cut>>

kill(p, q) ==
  /\ InUser(p)
  /\ state[q] # "UNUSED"
  /\ killed' = [killed EXCEPT ![q] = TRUE]
  /\ state' = [state EXCEPT ![q] = "RUNNING"]
  /\ UNCHANGED <<tableVars, pipeVars, callVars, cut>>

(* exit; a killed process calls it on its way to user space. *)
ExitCall(p) ==
  /\ InCall(p, "user")
  /\ pc' = [pc EXCEPT ![p] = "exit"]
  /\ UNCHANGED <<tableVars, pipeVars, procVars, out, n, got, ff, cut>>

ExitClose(p, d) ==
  /\ InCall(p, "exit")
  /\ IsFirst(d, Fd \ FreeFd(p))
  /\ Close(p, d, "exitclose")

(* The end of exit, and the wait that frees the slot. *)
ExitDone(p) ==
  /\ InCall(p, "exit")
  /\ FreeFd(p) = Fd
  /\ state' = [state EXCEPT ![p] = "UNUSED"]
  /\ killed' = [killed EXCEPT ![p] = FALSE]
  /\ pc' = [pc EXCEPT ![p] = "user"]
  /\ UNCHANGED <<tableVars, pipeVars, out, n, got, ff, cut>>

(* Steps a process takes once it is in the kernel. *)
Kernel(p) ==
  \/ pipeclose(p) \/ pipewrite(p) \/ piperead(p) \/ ReadReturn(p)
  \/ (\E d \in Fd : ExitClose(p, d)) \/ ExitDone(p)

Next ==
  \E p \in Proc :
    \/ Kernel(p) \/ sys_pipe(p) \/ ExitCall(p)
    \/ \E d \in Fd : \/ sys_dup(p, d) \/ sys_close(p, d)
                     \/ \E s \in Writes : WriteCall(p, d, s)
                     \/ \E m \in 1..MAXREAD : ReadCall(p, d, m)
    \/ \E q \in Proc \ {p} : fork(p, q) \/ (q \in Killable /\ kill(p, q))

Spec == Init /\ [][Next]_vars /\ \A p \in Proc : WF_vars(Kernel(p))
-----------------------------------------------------------------------------
Open(w) == {f \in File : ref[f] > 0 /\ writable[f] = w}

Closing(w) == {p \in Proc : pc[p] \in {"close", "exitclose"} /\ ff[p] = w}

(* EndsAreExact: an end of the pipe is open exactly as long as some        *)
(* process can reach it through a descriptor or is about to close it,      *)
(* whatever mixture of dup, fork, close, exit and kill came before; so the *)
(* page is not freed while a process is in pipewrite, piperead or          *)
(* pipeclose, asleep or not.                                               *)
EndsAreExact ==
  /\ readopen <=> (\E p \in Proc, d \in Fd : ofile[p][d] \in Open(FALSE)) \/ Closing(FALSE) # {}
  /\ writeopen <=> (\E p \in Proc, d \in Fd : ofile[p][d] \in Open(TRUE)) \/ Closing(TRUE) # {}
  /\ \A p \in Proc : pc[p] \in {"write", "read", "close", "exitclose"} => page

(* SleepersHaveReason: a reader sleeps only while the pipe is empty and    *)
(* can be written, a writer only while it is full and can be read; neither *)
(* misses the wakeup of the other side, or of the close of the other end.  *)
(* The one exception is the code's: a killed writer that has filled the    *)
(* pipe leaves (pipe.c:86) without waking the readers.                     *)
SleepersHaveReason ==
  \A p \in Proc :
    /\ state[p] = "nread" /\ ~cut => nread = nwrite /\ writeopen
    /\ state[p] = "nwrite" => Room = 0 /\ readopen

(* The bytes in the pipe, in the order in which they are read. *)
Queue == [i \in 1..Count |-> data[(nread + i - 1) % PIPESIZE]]

BS == INSTANCE ByteStream WITH Capacity <- PIPESIZE, queue <- Queue, wopen <- writeopen

(* PipeIsStream: pipes implement ByteStream: bytes are neither lost,       *)
(* doubled nor reordered when writes are split by a full pipe, when        *)
(* several processes read and write, and when the counters wrap around.    *)
PipeIsStream == BS!BSSpec

(* ReadersFinish: a read returns once no write end is left, although the   *)
(* last one may be closed by an exit or after a fork.                      *)
ReadersFinish ==
  \A p \in Proc : pc[p] = "read" /\ ~writeopen ~> pc[p] # "read"
=============================================================================
