----------------------------- MODULE PipeProofs -----------------------------
(***************************************************************************)
(* Proofs about pipes, for any number of processes, descriptors and files  *)
(* and any size of the pipe: the invariants of module Pipe, and that every *)
(* step is a step of ByteStream or is not seen, although the counters wrap *)
(* around.  Most of it uses of the reference counts only that a file with  *)
(* a count is one that some descriptor refers to (CountsTell); the counts  *)
(* themselves come at the end.                                             *)
(***************************************************************************)
EXTENDS Pipe, TLAPS

Place == {"user", "close", "exitclose", "write", "read", "return", "exit"}

TypeOK ==
  /\ ofile \in [Proc -> [Fd -> File \cup {None}]]
  /\ ref \in [File -> Int] /\ writable \in [File -> BOOLEAN]
  /\ page \in BOOLEAN /\ readopen \in BOOLEAN /\ writeopen \in BOOLEAN
  /\ data \in [0..(PIPESIZE - 1) -> Byte \cup {None}]
  /\ nread \in 0..(UINT - 1) /\ nwrite \in 0..(UINT - 1)
  /\ state \in [Proc -> {"UNUSED", "RUNNING", "nread", "nwrite"}]
  /\ killed \in [Proc -> BOOLEAN] /\ pc \in [Proc -> Place]
  /\ out \in [Proc -> Seq(Byte)] /\ n \in [Proc -> 0..MAXREAD]
  /\ ff \in [Proc -> BOOLEAN] /\ cut \in BOOLEAN

Refs(f) == {x \in Proc \X Fd : ofile[x[1]][x[2]] = f}

(* ref counts the descriptors of a file. *)
RefsAreCounted == \A f \in File : ref[f] = Cardinality(Refs(f))

(* A slot that is not in use has no descriptors; who sleeps is in the      *)
(* call it sleeps in, with what the call was made for.                     *)
Held(p) ==
  /\ state[p] = "UNUSED" => pc[p] = "user" /\ \A d \in Fd : ofile[p][d] = None
  /\ state[p] = "nread" => pc[p] = "read"
  /\ state[p] = "nwrite" => pc[p] = "write"
  /\ pc[p] = "write" => \E d \in Fd : ofile[p][d] # None /\ writable[ofile[p][d]]
  /\ pc[p] = "read" => n[p] > 0 /\ \E d \in Fd : ofile[p][d] # None /\ ~writable[ofile[p][d]]
  /\ out[p] # <<>> => pc[p] = "write"

CallsAreHeld == \A p \in Proc : Held(p)

(* There is one pipe: each end has one file, or one process that closes    *)
(* it, or is closed.                                                       *)
OnePipe ==
  /\ \A f, g \in File : ref[f] > 0 /\ ref[g] > 0 /\ writable[f] = writable[g] => f = g
  /\ \A w \in BOOLEAN : \A p \in Closing(w) : Open(w) = {} /\ Closing(w) = {p}
  /\ readopen <=> Open(FALSE) # {} \/ Closing(FALSE) # {}
  /\ writeopen <=> Open(TRUE) # {} \/ Closing(TRUE) # {}
  /\ page <=> readopen \/ writeopen

(* The pipe holds at most PIPESIZE bytes, and none when there is no pipe.  *)
RingFits ==
  /\ Count <= PIPESIZE
  /\ ~page => nread = nwrite

(* What the counts tell of the files: a file is in use when it has a        *)
(* descriptor, and fork adds nothing to a file that p does not have open.   *)
(* It follows from RefsAreCounted (lemma UsedFiles); most lemmas use no     *)
(* more of it.                                                              *)
CountsTell ==
  /\ \A f \in File : ref[f] \in Nat /\ (ref[f] > 0 <=> \E p \in Proc, d \in Fd : ofile[p][d] = f)
  /\ \A p \in Proc, f \in File :
       /\ Cardinality({d \in Fd : ofile[p][d] = f}) \in Nat
       /\ Cardinality({d \in Fd : ofile[p][d] = f}) = 0 <=> {d \in Fd : ofile[p][d] = f} = {}

(* The parts of the invariant that are not about the counts. *)
Rest == TypeOK /\ CallsAreHeld /\ OnePipe /\ RingFits /\ SleepersHaveReason

(* The inductive invariant. *)
PInv == Rest /\ RefsAreCounted

-----------------------------------------------------------------------------
(* What the steps do to the tables, entry by entry. *)

(* The constants, spelled out. *)
LEMMA Constants ==
  /\ IsFiniteSet(Proc) /\ First \in Proc /\ NOFILE \in Nat /\ NFILE \in Nat
  /\ PIPESIZE \in Nat /\ PIPESIZE > 0 /\ UINT \in Nat /\ UINT > 0 /\ PIPESIZE < UINT
  /\ UINT % PIPESIZE = 0 /\ MAXREAD \in Nat
  /\ None \notin File /\ Writes \subseteq Seq(Byte)
BY PipeAssumption

(* What a descriptor can be. *)
LEMMA FdType ==
  ASSUME TypeOK, NEW p \in Proc, NEW d \in Fd
  PROVE  /\ ofile[p][d] \in File \cup {None}
         /\ ofile[p][d] # None => ofile[p][d] \in File
BY DEF TypeOK

(* wakeup only makes processes run. *)
LEMMA WakeupType ==
  ASSUME TypeOK, NEW c
  PROVE  wakeup(c) \in [Proc -> {"UNUSED", "RUNNING", "nread", "nwrite"}]
BY Zenon DEF TypeOK, wakeup

(* A file that is not in use has no descriptor. *)
LEMMA NewFile ==
  ASSUME CountsTell, NEW f \in File, ref[f] = 0
  PROVE  \A q \in Proc, e \in Fd : ofile[q][e] # f
<1>1. ~(ref[f] > 0)
  OBVIOUS
<1>2. QED
  BY <1>1, ZenonT(40) DEF CountsTell

(* pipe takes two free files and two free descriptors. *)
LEMMA PipeFacts ==
  ASSUME TypeOK, NEW p \in Proc, sys_pipe(p)
  PROVE  \E f0 \in File, f1 \in File, d0 \in Fd, d1 \in Fd :
           /\ f0 # f1 /\ d0 # d1 /\ ref[f0] = 0 /\ ref[f1] = 0
           /\ ofile[p][d0] = None /\ ofile[p][d1] = None
           /\ ofile'[p][d0] = f0 /\ ofile'[p][d1] = f1
           /\ \A q \in Proc, e \in Fd :
                q # p \/ (e # d0 /\ e # d1) => ofile'[q][e] = ofile[q][e]
           /\ ref'[f0] = 1 /\ ref'[f1] = 1
           /\ ~writable'[f0] /\ writable'[f1]
           /\ \A f \in File : f # f0 /\ f # f1 => ref'[f] = ref[f] /\ writable'[f] = writable[f]
<1>1. PICK f0 \in File, f1 \in File, d0 \in Fd, d1 \in Fd :
        /\ FirstTwo(FreeFile, f0, f1) /\ FirstTwo(FreeFd(p), d0, d1)
        /\ ofile' = [ofile EXCEPT ![p][d0] = f0, ![p][d1] = f1]
        /\ ref' = [ref EXCEPT ![f0] = 1, ![f1] = 1]
        /\ writable' = [writable EXCEPT ![f0] = FALSE, ![f1] = TRUE]
  BY Zenon DEF sys_pipe
<1>2. {f0, f1} \subseteq FreeFile /\ {d0, d1} \subseteq FreeFd(p) /\ f0 < f1 /\ d0 < d1
  BY <1>1, Zenon DEF FirstTwo
<1>3. f0 # f1 /\ d0 # d1
  BY <1>2 DEF File, Fd
<1>4. ref[f0] = 0 /\ ref[f1] = 0 /\ ofile[p][d0] = None /\ ofile[p][d1] = None
  BY <1>2, Zenon DEF FreeFile, FreeFd
<1>5. PICK o : o = [ofile EXCEPT ![p][d0] = f0]
  BY Zenon
<1>6. /\ o \in [Proc -> [Fd -> File \cup {None}]] /\ o[p][d0] = f0
      /\ \A q \in Proc, e \in Fd : q # p \/ e # d0 => o[q][e] = ofile[q][e]
  BY <1>5, Zenon DEF TypeOK
<1>7. ofile' = [o EXCEPT ![p][d1] = f1]
  BY <1>1, <1>5, Zenon
<1>8. /\ ofile'[p][d1] = f1
      /\ \A q \in Proc, e \in Fd : q # p \/ e # d1 => ofile'[q][e] = o[q][e]
  BY <1>6, <1>7, Zenon
<1>9. /\ ofile'[p][d0] = f0
      /\ \A q \in Proc, e \in Fd : q # p \/ (e # d0 /\ e # d1) => ofile'[q][e] = ofile[q][e]
  BY <1>3, <1>6, <1>8
<1>10. /\ ref'[f0] = 1 /\ ref'[f1] = 1
       /\ \A f \in File : f # f0 /\ f # f1 => ref'[f] = ref[f]
  BY <1>1, <1>3, Zenon DEF TypeOK
<1>11. /\ ~writable'[f0] /\ writable'[f1]
       /\ \A f \in File : f # f0 /\ f # f1 => writable'[f] = writable[f]
  BY <1>1, <1>3, Zenon DEF TypeOK
<1>12. QED
  BY <1>3, <1>4, <1>8, <1>9, <1>10, <1>11

(* dup takes a free descriptor. *)
LEMMA DupFacts ==
  ASSUME TypeOK, NEW p \in Proc, NEW d \in Fd, sys_dup(p, d)
  PROVE  /\ ofile[p][d] \in File
         /\ \E e \in Fd :
              /\ ofile[p][e] = None /\ ofile'[p][e] = ofile[p][d]
              /\ \A q \in Proc, c \in Fd : q # p \/ c # e => ofile'[q][c] = ofile[q][c]
         /\ ref'[ofile[p][d]] = ref[ofile[p][d]] + 1
         /\ \A f \in File : f # ofile[p][d] => ref'[f] = ref[f]
<1>1. ofile[p][d] \in File
  BY FdType, Zenon DEF sys_dup
<1>2. PICK e \in Fd : IsFirst(e, FreeFd(p)) /\ ofile' = [ofile EXCEPT ![p][e] = ofile[p][d]]
  BY Zenon DEF sys_dup
<1>3. ofile[p][e] = None
  BY <1>2, Zenon DEF IsFirst, FreeFd
<1>4. /\ ofile'[p][e] = ofile[p][d]
      /\ \A q \in Proc, c \in Fd : q # p \/ c # e => ofile'[q][c] = ofile[q][c]
  BY <1>2, Zenon DEF TypeOK
<1>5. /\ ref'[ofile[p][d]] = ref[ofile[p][d]] + 1
      /\ \A f \in File : f # ofile[p][d] => ref'[f] = ref[f]
  BY <1>1, Zenon DEF sys_dup, TypeOK
<1>6. QED
  BY <1>1, <1>3, <1>4, <1>5, Zenon

(* close gives one up. *)
LEMMA CloseFacts ==
  ASSUME TypeOK, NEW p \in Proc, NEW d \in Fd, ofile[p][d] # None, NEW then, Close(p, d, then)
  PROVE  /\ ofile[p][d] \in File
         /\ ofile'[p][d] = None
         /\ \A q \in Proc, e \in Fd : q # p \/ e # d => ofile'[q][e] = ofile[q][e]
         /\ ref'[ofile[p][d]] = ref[ofile[p][d]] - 1
         /\ \A f \in File : f # ofile[p][d] => ref'[f] = ref[f]
         /\ ref[ofile[p][d]] = 1
              => pc' = [pc EXCEPT ![p] = then] /\ ff' = [ff EXCEPT ![p] = writable[ofile[p][d]]]
         /\ ref[ofile[p][d]] # 1 => pc' = pc /\ ff' = ff
         /\ UNCHANGED <<writable, page, data, nread, nwrite, readopen, writeopen, state, killed,
                        out, n, got, cut>>
<1>1. ofile[p][d] \in File
  BY FdType, Zenon
<1>2. /\ ofile'[p][d] = None
      /\ \A q \in Proc, e \in Fd : q # p \/ e # d => ofile'[q][e] = ofile[q][e]
  BY Zenon DEF Close, TypeOK
<1>3. /\ ref'[ofile[p][d]] = ref[ofile[p][d]] - 1
      /\ \A f \in File : f # ofile[p][d] => ref'[f] = ref[f]
  BY <1>1, Zenon DEF Close, TypeOK
<1>4. /\ ref[ofile[p][d]] = 1
           => pc' = [pc EXCEPT ![p] = then] /\ ff' = [ff EXCEPT ![p] = writable[ofile[p][d]]]
      /\ ref[ofile[p][d]] # 1 => pc' = pc /\ ff' = ff
  BY Zenon DEF Close, fileclose
<1>5. UNCHANGED <<writable, page, data, nread, nwrite, readopen, writeopen, state, killed,
                  out, n, got, cut>>
  BY Zenon DEF Close, pipeVars, procVars
<1>6. QED
  BY <1>1, <1>2, <1>3, <1>4, <1>5, Zenon

(* fork gives the child, whose table is empty, the parent's descriptors. *)
LEMMA ForkFacts ==
  ASSUME TypeOK, CallsAreHeld, NEW p \in Proc, NEW q \in Proc, fork(p, q)
  PROVE  /\ p # q /\ pc[q] = "user" /\ state[p] = "RUNNING" /\ state[q] = "UNUSED"
         /\ \A e \in Fd : ofile[q][e] = None /\ ofile'[q][e] = ofile[p][e]
         /\ \A r \in Proc, e \in Fd : r # q => ofile'[r][e] = ofile[r][e]
         /\ \A f \in File : ref'[f] = ref[f] + Cardinality({d \in Fd : ofile[p][d] = f})
         /\ UNCHANGED <<writable, page, data, nread, nwrite, readopen, writeopen, killed,
                        pc, out, n, got, ff, cut>>
<1>1. state[p] = "RUNNING" /\ state[q] = "UNUSED"
  BY Zenon DEF fork, InUser
<1>2. pc[q] = "user" /\ \A e \in Fd : ofile[q][e] = None
  BY <1>1, Zenon DEF CallsAreHeld, Held
<1>3. /\ \A e \in Fd : ofile'[q][e] = ofile[p][e]
      /\ \A r \in Proc, e \in Fd : r # q => ofile'[r][e] = ofile[r][e]
  BY Zenon DEF fork, TypeOK
<1>4. \A f \in File : ref'[f] = ref[f] + Cardinality({d \in Fd : ofile[p][d] = f})
  BY Zenon DEF fork
<1>5. UNCHANGED <<writable, page, data, nread, nwrite, readopen, writeopen, killed,
                  pc, out, n, got, ff, cut>>
  BY Zenon DEF fork, pipeVars, callVars
<1>6. QED
  BY <1>1, <1>2, <1>3, <1>4, <1>5

(* What pipeclose does. *)
LEMMA PipecloseFacts ==
  ASSUME NEW p \in Proc, pipeclose(p)
  PROVE  /\ state[p] = "RUNNING" /\ pc[p] \in {"close", "exitclose"}
         /\ \E then \in {"user", "exit"} : pc' = [pc EXCEPT ![p] = then]
         /\ ff[p] => writeopen' = FALSE /\ readopen' = readopen /\ state' = wakeup("nread")
         /\ ~ff[p] => readopen' = FALSE /\ writeopen' = writeopen /\ state' = wakeup("nwrite")
         /\ ~readopen' /\ ~writeopen'
              => page' = FALSE /\ data' = Junk /\ nread' = 0 /\ nwrite' = 0 /\ cut' = FALSE
         /\ readopen' \/ writeopen'
              => UNCHANGED <<page, data, nread, nwrite, cut>>
         /\ ff' = [ff EXCEPT ![p] = FALSE]
         /\ UNCHANGED <<ofile, ref, writable, killed, out, n, got>>
<1>1. /\ state[p] = "RUNNING" /\ pc[p] \in {"close", "exitclose"}
      /\ \E then \in {"user", "exit"} : pc' = [pc EXCEPT ![p] = then]
  BY Zenon DEF pipeclose, InCall
<1>2. /\ ff[p] => writeopen' = FALSE /\ readopen' = readopen /\ state' = wakeup("nread")
      /\ ~ff[p] => readopen' = FALSE /\ writeopen' = writeopen /\ state' = wakeup("nwrite")
  BY Zenon DEF pipeclose
<1>3. /\ ~readopen' /\ ~writeopen'
           => page' = FALSE /\ data' = Junk /\ nread' = 0 /\ nwrite' = 0 /\ cut' = FALSE
      /\ readopen' \/ writeopen'
           => UNCHANGED <<page, data, nread, nwrite, cut>>
  BY Zenon DEF pipeclose, pipefree
<1>4. ff' = [ff EXCEPT ![p] = FALSE] /\ UNCHANGED <<ofile, ref, writable, killed, out, n, got>>
  BY Zenon DEF pipeclose, tableVars
<1>5. QED
  BY <1>1, <1>2, <1>3, <1>4, Zenon

-----------------------------------------------------------------------------
(* Types are preserved by the steps that leave the ring alone. *)

(* ... by close ... *)
LEMMA TypeClose ==
  ASSUME TypeOK, NEW p \in Proc, NEW d \in Fd, ofile[p][d] # None, NEW then \in Place,
         Close(p, d, then)
  PROVE  TypeOK'
<1>1. UNCHANGED <<writable, page, data, nread, nwrite, readopen, writeopen, state, killed, out, n, got, cut>>
  BY Zenon DEF Close, pipeVars, procVars
<1>2. ofile[p][d] \in File
  BY FdType, Zenon
<1>3. ofile' \in [Proc -> [Fd -> File \cup {None}]] /\ ref' \in [File -> Int]
  BY <1>2 DEF TypeOK, Close
<1>4. pc' \in [Proc -> Place] /\ ff' \in [Proc -> BOOLEAN]
  <2>1. pc \in [Proc -> Place] /\ ff \in [Proc -> BOOLEAN] /\ writable[ofile[p][d]] \in BOOLEAN
    BY <1>2, Zenon DEF TypeOK
  <2>2. CASE fileclose(ofile[p][d])
    <3>1. pc' = [pc EXCEPT ![p] = then] /\ ff' = [ff EXCEPT ![p] = writable[ofile[p][d]]]
      BY <2>2, Zenon DEF Close
    <3>2. QED
      BY <2>1, <3>1, Zenon
  <2>3. CASE ~fileclose(ofile[p][d])
    BY <2>1, <2>3, Zenon DEF Close
  <2>4. QED
    BY <2>2, <2>3, Zenon
<1>5. QED
  BY <1>1, <1>3, <1>4, Zenon DEF TypeOK

(* ... by pipeclose ... *)
LEMMA TypePipeclose ==
  ASSUME TypeOK, NEW p \in Proc, pipeclose(p)
  PROVE  TypeOK'
<1>1. UNCHANGED <<ofile, ref, writable, killed, out, n, got>> /\ ff' = [ff EXCEPT ![p] = FALSE]
  BY PipecloseFacts, Zenon
<1>2. pc' \in [Proc -> Place] /\ ff' \in [Proc -> BOOLEAN]
  <2>1. PICK then \in {"user", "exit"} : pc' = [pc EXCEPT ![p] = then]
    BY PipecloseFacts, Zenon
  <2>2. QED
    BY <1>1, <2>1, Zenon DEF TypeOK, Place
<1>3. readopen \in BOOLEAN /\ writeopen \in BOOLEAN /\ ff[p] \in BOOLEAN
  BY Zenon DEF TypeOK
<1>4. readopen' \in BOOLEAN /\ writeopen' \in BOOLEAN
  BY <1>3, PipecloseFacts, Zenon
<1>5. state' \in [Proc -> {"UNUSED", "RUNNING", "nread", "nwrite"}]
  <2>1. state' = wakeup("nread") \/ state' = wakeup("nwrite")
    BY <1>3, PipecloseFacts, Zenon
  <2>2. QED
    BY <2>1, WakeupType, Zenon
<1>6. /\ page' \in BOOLEAN /\ data' \in [0..(PIPESIZE - 1) -> Byte \cup {None}]
      /\ nread' \in 0..(UINT - 1) /\ nwrite' \in 0..(UINT - 1) /\ cut' \in BOOLEAN
  <2>1. CASE ~readopen' /\ ~writeopen'
    <3>1. page' = FALSE /\ data' = Junk /\ nread' = 0 /\ nwrite' = 0 /\ cut' = FALSE
      BY <2>1, PipecloseFacts, Zenon
    <3>2. 0 \in 0..(UINT - 1)
      BY Constants
    <3>3. Junk \in [0..(PIPESIZE - 1) -> Byte \cup {None}]
      BY Zenon DEF Junk
    <3>4. QED
      BY <3>1, <3>2, <3>3, Zenon
  <2>2. CASE readopen' \/ writeopen'
    <3>1. UNCHANGED <<page, data, nread, nwrite, cut>>
      BY <2>2, PipecloseFacts, Zenon
    <3>2. QED
      BY <3>1, Zenon DEF TypeOK
  <2>3. QED
    BY <1>4, <2>1, <2>2, Zenon
<1>7. QED
  BY <1>1, <1>2, <1>4, <1>5, <1>6, Zenon DEF TypeOK

(* ... by pipe ... *)
LEMMA TypePipe ==
  ASSUME TypeOK, NEW p \in Proc, sys_pipe(p)
  PROVE  TypeOK'
<1>1. UNCHANGED <<data, state, killed, pc, out, n, got, ff>>
  BY Zenon DEF sys_pipe, procVars, callVars
<1>2. PICK f0 \in File, f1 \in File, d0 \in Fd, d1 \in Fd :
        /\ ofile' = [ofile EXCEPT ![p][d0] = f0, ![p][d1] = f1]
        /\ ref' = [ref EXCEPT ![f0] = 1, ![f1] = 1]
        /\ writable' = [writable EXCEPT ![f0] = FALSE, ![f1] = TRUE]
  BY Zenon DEF sys_pipe
<1>3. ofile' \in [Proc -> [Fd -> File \cup {None}]]
  <2>1. PICK o : o = [ofile EXCEPT ![p][d0] = f0]
    BY Zenon
  <2>2. o \in [Proc -> [Fd -> File \cup {None}]]
    BY <2>1, Zenon DEF TypeOK
  <2>3. [o EXCEPT ![p][d1] = f1] \in [Proc -> [Fd -> File \cup {None}]]
    BY <2>2, Zenon
  <2>4. ofile' = [o EXCEPT ![p][d1] = f1]
    BY <1>2, <2>1, Zenon
  <2>5. QED
    BY <2>3, <2>4, Zenon
<1>4. ref' \in [File -> Int]
  BY <1>2 DEF TypeOK
<1>8. writable' \in [File -> BOOLEAN]
  BY <1>2, Zenon DEF TypeOK
<1>5. /\ page' \in BOOLEAN /\ readopen' \in BOOLEAN /\ writeopen' \in BOOLEAN /\ cut' \in BOOLEAN
      /\ nread' = 0 /\ nwrite' = 0
  BY Zenon DEF sys_pipe
<1>6. 0 \in 0..(UINT - 1)
  BY Constants
<1>7. QED
  BY <1>1, <1>3, <1>4, <1>8, <1>5, <1>6, Zenon DEF TypeOK

(* ... and by the other steps. *)
LEMMA TypeOther ==
  ASSUME TypeOK, CountsTell, NEW p \in Proc,
         \/ ReadReturn(p) \/ ExitDone(p) \/ ExitCall(p)
         \/ \E d \in Fd : \/ sys_dup(p, d) \/ \E s \in Writes : WriteCall(p, d, s)
                          \/ \E m \in 1..MAXREAD : ReadCall(p, d, m)
         \/ \E q \in Proc : fork(p, q) \/ kill(p, q)
  PROVE  TypeOK'
<1> USE DEF tableVars, pipeVars, procVars, callVars
<1>1. CASE ReadReturn(p)
  <2>1. pc' \in [Proc -> Place]
    BY <1>1, Zenon DEF TypeOK, ReadReturn, Place
  <2>2. UNCHANGED <<ofile, ref, writable, page, data, nread, nwrite, readopen, writeopen, state,
                    killed, out, n, ff, cut>>
    BY <1>1, Zenon DEF ReadReturn
  <2>3. QED
    BY <2>1, <2>2, Zenon DEF TypeOK
<1>2. CASE ExitDone(p)
  <2>1. /\ pc' \in [Proc -> Place] /\ killed' \in [Proc -> BOOLEAN]
        /\ state' \in [Proc -> {"UNUSED", "RUNNING", "nread", "nwrite"}]
    BY <1>2, Zenon DEF TypeOK, ExitDone, Place
  <2>2. UNCHANGED <<ofile, ref, writable, page, data, nread, nwrite, readopen, writeopen, out, n,
                    ff, cut>>
    BY <1>2, Zenon DEF ExitDone
  <2>3. QED
    BY <2>1, <2>2, Zenon DEF TypeOK
<1>3. CASE ExitCall(p)
  <2>1. pc' \in [Proc -> Place]
    BY <1>3, Zenon DEF TypeOK, ExitCall, Place
  <2>2. UNCHANGED <<ofile, ref, writable, page, data, nread, nwrite, readopen, writeopen, state,
                    killed, out, n, ff, cut>>
    BY <1>3, Zenon DEF ExitCall
  <2>3. QED
    BY <2>1, <2>2 DEF TypeOK
<1>4. ASSUME NEW d \in Fd, sys_dup(p, d) PROVE TypeOK'
  <2>1. ofile[p][d] \in File
    BY <1>4, FdType, Zenon DEF sys_dup
  <2>2. ofile' \in [Proc -> [Fd -> File \cup {None}]]
    <3>1. PICK e \in Fd : ofile' = [ofile EXCEPT ![p][e] = ofile[p][d]]
      BY <1>4, Zenon DEF sys_dup
    <3>2. QED
      BY <2>1, <3>1, Zenon DEF TypeOK
  <2>3. ref' \in [File -> Int]
    BY <1>4, <2>1 DEF TypeOK, sys_dup
  <2>4. UNCHANGED <<writable, page, data, nread, nwrite, readopen, writeopen, state,
                    killed, pc, out, n, ff, cut>>
    BY <1>4, Zenon DEF sys_dup
  <2>5. QED
    BY <2>2, <2>3, <2>4, Zenon DEF TypeOK
<1>5. ASSUME NEW d \in Fd, NEW s \in Writes, WriteCall(p, d, s) PROVE TypeOK'
  <2>1. s \in Seq(Byte)
    BY Constants, Zenon
  <2>2. pc' \in [Proc -> Place] /\ out' \in [Proc -> Seq(Byte)]
    BY <1>5, <2>1, Zenon DEF TypeOK, WriteCall, Place
  <2>3. UNCHANGED <<ofile, ref, writable, page, data, nread, nwrite, readopen, writeopen, state,
                    killed, n, ff, cut>>
    BY <1>5, Zenon DEF WriteCall
  <2>4. QED
    BY <2>2, <2>3, Zenon DEF TypeOK
<1>6. ASSUME NEW d \in Fd, NEW m \in 1..MAXREAD, ReadCall(p, d, m) PROVE TypeOK'
  <2>1. m \in 0..MAXREAD
    BY Constants
  <2>2. pc' \in [Proc -> Place] /\ n' \in [Proc -> 0..MAXREAD]
    BY <1>6, <2>1, Zenon DEF TypeOK, ReadCall, Place
  <2>3. UNCHANGED <<ofile, ref, writable, page, data, nread, nwrite, readopen, writeopen, state,
                    killed, out, ff, cut>>
    BY <1>6, Zenon DEF ReadCall
  <2>4. QED
    BY <2>2, <2>3, Zenon DEF TypeOK
<1>7. ASSUME NEW q \in Proc, fork(p, q) PROVE TypeOK'
  <2>1. ofile' \in [Proc -> [Fd -> File \cup {None}]]
    <3>1. ofile[p] \in [Fd -> File \cup {None}] /\ ofile' = [ofile EXCEPT ![q] = ofile[p]]
      BY <1>7, Zenon DEF TypeOK, fork
    <3>2. QED
      BY <3>1, Zenon DEF TypeOK
  <2>2. ref' \in [File -> Int]
    <3>1. \A f \in File : Cardinality({d \in Fd : ofile[p][d] = f}) \in Nat
      BY Zenon DEF CountsTell
    <3>2. \A f \in File : ref[f] + Cardinality({d \in Fd : ofile[p][d] = f}) \in Int
      <4>1. \A f \in File, c \in Nat : ref[f] + c \in Int
        BY DEF TypeOK
      <4>2. QED
        BY <3>1, <4>1, Zenon
    <3>3. QED
      BY <1>7, <3>2, Zenon DEF fork
  <2>3. state' \in [Proc -> {"UNUSED", "RUNNING", "nread", "nwrite"}]
    BY <1>7, Zenon DEF TypeOK, fork
  <2>4. UNCHANGED <<writable, page, data, nread, nwrite, readopen, writeopen,
                    killed, pc, out, n, ff, cut>>
    BY <1>7, Zenon DEF fork
  <2>5. QED
    BY <2>1, <2>2, <2>3, <2>4, Zenon DEF TypeOK
<1>8. ASSUME NEW q \in Proc, kill(p, q) PROVE TypeOK'
  <2>1. /\ state' \in [Proc -> {"UNUSED", "RUNNING", "nread", "nwrite"}]
        /\ killed' \in [Proc -> BOOLEAN]
    BY <1>8, Zenon DEF TypeOK, kill
  <2>2. UNCHANGED <<ofile, ref, writable, page, data, nread, nwrite, readopen, writeopen,
                    pc, out, n, ff, cut>>
    BY <1>8, Zenon DEF kill
  <2>3. QED
    BY <2>1, <2>2, Zenon DEF TypeOK
<1>9. QED
  BY <1>1, <1>2, <1>3, <1>4, <1>5, <1>6, <1>7, <1>8

-----------------------------------------------------------------------------
(* Calls stay held. *)

(* Nothing changes for a process whose state, call and descriptors stay. *)
LEMMA HeldSame ==
  ASSUME NEW p \in Proc, Held(p), state'[p] = state[p], pc'[p] = pc[p], n'[p] = n[p], out'[p] = out[p],
         \A d \in Fd : ofile'[p][d] = ofile[p][d],
         \A d \in Fd : ofile[p][d] # None => writable'[ofile[p][d]] = writable[ofile[p][d]]
  PROVE  Held(p)'
<1>1. /\ state'[p] = "UNUSED" => pc'[p] = "user" /\ \A d \in Fd : ofile'[p][d] = None
      /\ state'[p] = "nread" => pc'[p] = "read"
      /\ state'[p] = "nwrite" => pc'[p] = "write"
      /\ out'[p] # <<>> => pc'[p] = "write"
  BY Zenon DEF Held
<1>2. pc'[p] = "write" => \E d \in Fd : ofile'[p][d] # None /\ writable'[ofile'[p][d]]
  BY Zenon DEF Held
<1>3. pc'[p] = "read" => n'[p] > 0 /\ \E d \in Fd : ofile'[p][d] # None /\ ~writable'[ofile'[p][d]]
  BY Zenon DEF Held
<1>4. QED
  BY <1>1, <1>2, <1>3, Zenon DEF Held

(* The descriptors of one process, the kind of the files left alone. *)
LEMMA HeldIdle ==
  ASSUME NEW p \in Proc, Held(p), pc'[p] \notin {"read", "write"}, state'[p] = "RUNNING", out'[p] = <<>>
  PROVE  Held(p)'
BY Zenon DEF Held

(* A process that is woken up keeps its call. *)
LEMMA HeldWoken ==
  ASSUME NEW p \in Proc, Held(p), state'[p] \in {state[p], "RUNNING"}, pc'[p] = pc[p], n'[p] = n[p],
         out'[p] = out[p], \A d \in Fd : ofile'[p][d] = ofile[p][d], writable' = writable
  PROVE  Held(p)'
BY Zenon DEF Held

(* Files in use are not changed by pipe. *)
LEMMA HeldPipe ==
  ASSUME TypeOK, CountsTell, CallsAreHeld, NEW p \in Proc, sys_pipe(p)
  PROVE  CallsAreHeld'
<1>1. PICK f0 \in File, f1 \in File, d0 \in Fd, d1 \in Fd :
        /\ ref[f0] = 0 /\ ref[f1] = 0
        /\ ofile[p][d0] = None /\ ofile[p][d1] = None
        /\ \A q \in Proc, e \in Fd :
             q # p \/ (e # d0 /\ e # d1) => ofile'[q][e] = ofile[q][e]
        /\ \A f \in File : f # f0 /\ f # f1 => ref'[f] = ref[f] /\ writable'[f] = writable[f]
  BY PipeFacts
<1>2. UNCHANGED <<state, pc, out, n>> /\ state[p] = "RUNNING" /\ pc[p] = "user"
  BY Zenon DEF sys_pipe, procVars, callVars, InUser
<1>3. ASSUME NEW q \in Proc PROVE Held(q)'
  <2>1. Held(q)
    BY Zenon DEF CallsAreHeld
  <2>2. CASE q = p
    <3>1. out[p] = <<>>
      BY <1>2, <2>1, <2>2, Zenon DEF Held
    <3>2. QED
      BY <1>2, <2>1, <2>2, <3>1, HeldIdle
  <2>3. CASE q # p
    <3>1. ASSUME NEW d \in Fd, ofile[q][d] # None
          PROVE  writable'[ofile[q][d]] = writable[ofile[q][d]]
      <4>1. ofile[q][d] \in File
        BY <3>1, FdType, Zenon
      <4>2. ofile[q][d] # f0 /\ ofile[q][d] # f1
        BY <1>1, NewFile
      <4>3. QED
        BY <1>1, <4>1, <4>2, Zenon
    <3>2. QED
      BY <1>1, <1>2, <2>1, <2>3, <3>1, HeldSame
  <2>4. QED
    BY <2>2, <2>3, Zenon
<1>4. QED
  BY <1>3, Zenon DEF CallsAreHeld

(* Calls are held after dup ... *)
LEMMA HeldDup ==
  ASSUME TypeOK, CallsAreHeld, NEW p \in Proc, NEW d \in Fd, sys_dup(p, d)
  PROVE  CallsAreHeld'
<1>1. PICK e \in Fd : \A q \in Proc, c \in Fd : q # p \/ c # e => ofile'[q][c] = ofile[q][c]
  BY DupFacts
<1>2. UNCHANGED <<state, pc, out, n, writable>> /\ state[p] = "RUNNING" /\ pc[p] = "user"
  BY Zenon DEF sys_dup, procVars, callVars, InUser
<1>3. ASSUME NEW q \in Proc PROVE Held(q)'
  <2>1. Held(q)
    BY Zenon DEF CallsAreHeld
  <2>2. CASE q = p
    <3>1. out[p] = <<>>
      BY <1>2, <2>1, <2>2, Zenon DEF Held
    <3>2. QED
      BY <1>2, <2>1, <2>2, <3>1, HeldIdle, Zenon
  <2>3. CASE q # p
    BY <1>1, <1>2, <2>1, <2>3, HeldSame
  <2>4. QED
    BY <2>2, <2>3, Zenon
<1>4. QED
  BY <1>3, Zenon DEF CallsAreHeld

(* ... after close ... *)
LEMMA HeldClose ==
  ASSUME TypeOK, CallsAreHeld, NEW p \in Proc, NEW d \in Fd, ofile[p][d] # None,
         NEW then \in {"close", "exitclose"}, state[p] = "RUNNING", pc[p] \in {"user", "exit"},
         Close(p, d, then)
  PROVE  CallsAreHeld'
<1>1. /\ \A q \in Proc, e \in Fd : q # p \/ e # d => ofile'[q][e] = ofile[q][e]
      /\ UNCHANGED <<state, out, n, writable>>
      /\ pc' = pc \/ pc' = [pc EXCEPT ![p] = then]
  BY CloseFacts
<1>2. pc'[p] \notin {"read", "write"} /\ \A q \in Proc : q # p => pc'[q] = pc[q]
  BY <1>1, Zenon DEF TypeOK
<1>3. ASSUME NEW q \in Proc PROVE Held(q)'
  <2>1. Held(q)
    BY Zenon DEF CallsAreHeld
  <2>2. CASE q = p
    <3>1. out[p] = <<>>
      BY <2>1, <2>2, Zenon DEF Held
    <3>2. QED
      BY <1>1, <1>2, <2>1, <2>2, <3>1, HeldIdle
  <2>3. CASE q # p
    BY <1>1, <1>2, <2>1, <2>3, HeldSame
  <2>4. QED
    BY <2>2, <2>3, Zenon
<1>4. QED
  BY <1>3, Zenon DEF CallsAreHeld

(* ... after pipeclose ... *)
LEMMA HeldPipeclose ==
  ASSUME TypeOK, CallsAreHeld, NEW p \in Proc, pipeclose(p)
  PROVE  CallsAreHeld'
<1>1. /\ state[p] = "RUNNING" /\ pc[p] \in {"close", "exitclose"}
      /\ UNCHANGED <<ofile, writable, out, n>>
  BY PipecloseFacts, Zenon
<1>2. PICK then \in {"user", "exit"} : pc' = [pc EXCEPT ![p] = then]
  BY PipecloseFacts, Zenon
<1>3. pc'[p] \notin {"read", "write"} /\ \A q \in Proc : q # p => pc'[q] = pc[q]
  BY <1>2, Zenon DEF TypeOK
<1>4. \A q \in Proc : state'[q] \in {state[q], "RUNNING"}
  <2>1. state' = wakeup("nread") \/ state' = wakeup("nwrite")
    BY PipecloseFacts, Zenon
  <2>2. QED
    BY <2>1, Zenon DEF wakeup
<1>5. ASSUME NEW q \in Proc PROVE Held(q)'
  <2>1. Held(q)
    BY Zenon DEF CallsAreHeld
  <2>2. CASE q = p
    <3>1. out[p] = <<>>
      BY <1>1, <2>1, <2>2, Zenon DEF Held
    <3>2. QED
      BY <1>1, <1>3, <1>4, <2>1, <2>2, <3>1, HeldIdle
  <2>3. CASE q # p
    BY <1>1, <1>3, <1>4, <2>1, <2>3, HeldWoken
  <2>4. QED
    BY <2>2, <2>3, Zenon
<1>6. QED
  BY <1>5, Zenon DEF CallsAreHeld

(* ... after fork and kill ... *)
LEMMA HeldFork ==
  ASSUME TypeOK, CallsAreHeld, NEW p \in Proc, NEW q \in Proc, fork(p, q) \/ kill(p, q)
  PROVE  CallsAreHeld'
<1>1. CASE fork(p, q)
  <2>1. /\ pc[q] = "user" /\ state[q] = "UNUSED"
        /\ \A r \in Proc, e \in Fd : r # q => ofile'[r][e] = ofile[r][e]
        /\ UNCHANGED <<writable, pc, out, n>>
    BY <1>1, ForkFacts
  <2>2. state'[q] = "RUNNING" /\ \A r \in Proc : r # q => state'[r] = state[r]
    BY <1>1, Zenon DEF fork, TypeOK
  <2>3. ASSUME NEW r \in Proc PROVE Held(r)'
    <3>1. Held(r)
      BY Zenon DEF CallsAreHeld
    <3>2. CASE r = q
      <4>1. out[q] = <<>>
        BY <2>1, <3>1, <3>2, Zenon DEF Held
      <4>2. QED
        BY <2>1, <2>2, <3>1, <3>2, <4>1, HeldIdle
    <3>3. CASE r # q
      BY <2>1, <2>2, <3>1, <3>3, HeldSame
    <3>4. QED
      BY <3>2, <3>3, Zenon
  <2>4. QED
    BY <2>3, Zenon DEF CallsAreHeld
<1>2. CASE kill(p, q)
  <2>1. UNCHANGED <<ofile, writable, pc, out, n>>
    BY <1>2, Zenon DEF kill, tableVars, callVars
  <2>2. \A r \in Proc : state'[r] \in {state[r], "RUNNING"}
    BY <1>2, Zenon DEF kill, TypeOK
  <2>3. ASSUME NEW r \in Proc PROVE Held(r)'
    BY <2>1, <2>2, HeldWoken, Zenon DEF CallsAreHeld
  <2>4. QED
    BY <2>3 DEF CallsAreHeld
<1>3. QED
  BY <1>1, <1>2, Zenon

(* ... and after the other steps. *)
LEMMA HeldOther ==
  ASSUME TypeOK, CallsAreHeld, NEW p \in Proc,
         \/ ReadReturn(p) \/ ExitDone(p) \/ ExitCall(p)
         \/ \E d \in Fd : \/ \E s \in Writes : WriteCall(p, d, s)
                          \/ \E m \in 1..MAXREAD : ReadCall(p, d, m)
  PROVE  CallsAreHeld'
<1>1. UNCHANGED <<ofile, writable>> /\ state[p] = "RUNNING" /\ pc[p] \in {"user", "return", "exit"}
  BY Zenon DEF ReadReturn, ExitDone, ExitCall, WriteCall, ReadCall, tableVars, InCall, InUser
<1>2. \A q \in Proc : q # p =>
        pc'[q] = pc[q] /\ n'[q] = n[q] /\ out'[q] = out[q] /\ state'[q] = state[q]
  <2>1. CASE ReadReturn(p) \/ ExitDone(p) \/ ExitCall(p)
    BY <2>1, Zenon DEF ReadReturn, ExitDone, ExitCall, procVars, TypeOK
  <2>2. ASSUME NEW d \in Fd, NEW s \in Writes, WriteCall(p, d, s)
        PROVE  \A q \in Proc : q # p =>
                 pc'[q] = pc[q] /\ n'[q] = n[q] /\ out'[q] = out[q] /\ state'[q] = state[q]
    BY <2>2, Zenon DEF WriteCall, procVars, TypeOK
  <2>3. ASSUME NEW d \in Fd, NEW m \in 1..MAXREAD, ReadCall(p, d, m)
        PROVE  \A q \in Proc : q # p =>
                 pc'[q] = pc[q] /\ n'[q] = n[q] /\ out'[q] = out[q] /\ state'[q] = state[q]
    BY <2>3 DEF ReadCall, procVars, TypeOK
  <2>4. QED
    BY <2>1, <2>2, <2>3, Zenon
<1>3. Held(p) /\ out[p] = <<>>
  BY <1>1, Zenon DEF CallsAreHeld, Held
<1>4. Held(p)'
  <2>1. CASE ReadReturn(p) \/ ExitCall(p)
    <3>1. pc'[p] \in {"user", "exit"} /\ state'[p] = "RUNNING" /\ out'[p] = <<>>
      BY <1>1, <1>3, <2>1, Zenon DEF ReadReturn, ExitCall, procVars, TypeOK
    <3>2. QED
      BY <1>3, <3>1, HeldIdle, Zenon
  <2>2. CASE ExitDone(p)
    <3>1. pc'[p] = "user" /\ state'[p] = "UNUSED" /\ out'[p] = <<>>
      BY <1>3, <2>2, Zenon DEF ExitDone, TypeOK
    <3>2. \A d \in Fd : ofile'[p][d] = None
      BY <1>1, <2>2, Zenon DEF ExitDone, FreeFd
    <3>3. QED
      BY <3>1, <3>2, Zenon DEF Held
  <2>3. ASSUME NEW d \in Fd, NEW s \in Writes, WriteCall(p, d, s) PROVE Held(p)'
    <3>1. pc'[p] = "write" /\ state'[p] = "RUNNING"
      BY <1>1, <2>3, Zenon DEF WriteCall, procVars, TypeOK
    <3>2. ofile'[p][d] # None /\ writable'[ofile'[p][d]]
      BY <1>1, <2>3, Zenon DEF WriteCall
    <3>3. QED
      BY <3>1, <3>2, Zenon DEF Held
  <2>4. ASSUME NEW d \in Fd, NEW m \in 1..MAXREAD, ReadCall(p, d, m) PROVE Held(p)'
    <3>1. pc'[p] = "read" /\ state'[p] = "RUNNING" /\ n'[p] > 0 /\ out'[p] = <<>>
      BY <1>1, <1>3, <2>4, Constants DEF ReadCall, procVars, TypeOK
    <3>2. ofile'[p][d] # None /\ ~writable'[ofile'[p][d]]
      BY <1>1, <2>4, Zenon DEF ReadCall
    <3>3. QED
      BY <3>1, <3>2, Zenon DEF Held
  <2>5. QED
    BY <2>1, <2>2, <2>3, <2>4, Zenon
<1>5. ASSUME NEW q \in Proc, q # p PROVE Held(q)'
  BY <1>1, <1>2, <1>5, HeldSame DEF CallsAreHeld
<1>6. QED
  BY <1>4, <1>5, Zenon DEF CallsAreHeld

-----------------------------------------------------------------------------
(* There stays one pipe. *)

(* Who is closing an end, and which files are open. *)
LEMMA EndDefs ==
  ASSUME NEW w
  PROVE  /\ \A f : f \in Open(w) <=> f \in File /\ ref[f] > 0 /\ writable[f] = w
         /\ \A f : f \in Open(w)' <=> f \in File /\ ref'[f] > 0 /\ writable'[f] = w
         /\ \A p : p \in Closing(w) <=> p \in Proc /\ pc[p] \in {"close", "exitclose"} /\ ff[p] = w
         /\ \A p : p \in Closing(w)' <=> p \in Proc /\ pc'[p] \in {"close", "exitclose"} /\ ff'[p] = w
BY Zenon DEF Open, Closing

(* A step that changes neither what is open nor what is being closed. *)
LEMMA OneSame ==
  ASSUME OnePipe, UNCHANGED <<readopen, writeopen, page>>,
         \A f \in File : (ref'[f] > 0 <=> ref[f] > 0) /\ writable'[f] = writable[f],
         \A p \in Proc : /\ pc'[p] \in {"close", "exitclose"} <=> pc[p] \in {"close", "exitclose"}
                         /\ ff'[p] = ff[p]
  PROVE  OnePipe'
<1>1. ASSUME NEW w PROVE Open(w)' = Open(w) /\ Closing(w)' = Closing(w)
  <2>1. \A f : f \in Open(w)' <=> f \in Open(w)
    BY EndDefs
  <2>2. \A p : p \in Closing(w)' <=> p \in Closing(w)
    BY EndDefs
  <2>3. QED
    BY <2>1, <2>2, Zenon
<1>2. \A f, g \in File : ref'[f] > 0 /\ ref'[g] > 0 /\ writable'[f] = writable'[g] => f = g
  BY Zenon DEF OnePipe
<1>3. \A w \in BOOLEAN : \A p \in Closing(w)' : Open(w)' = {} /\ Closing(w)' = {p}
  BY <1>1 DEF OnePipe
<1>4. /\ readopen' <=> Open(FALSE)' # {} \/ Closing(FALSE)' # {}
      /\ writeopen' <=> Open(TRUE)' # {} \/ Closing(TRUE)' # {}
      /\ page' <=> readopen' \/ writeopen'
  BY <1>1, Zenon DEF OnePipe
<1>5. QED
  BY <1>2, <1>3, <1>4, Zenon DEF OnePipe

(* Without a pipe nothing is open and nothing is being closed. *)
LEMMA NoPipe ==
  ASSUME TypeOK, OnePipe, ~page
  PROVE  /\ ~readopen /\ ~writeopen
         /\ \A w \in BOOLEAN : Open(w) = {} /\ Closing(w) = {}
         /\ \A f \in File : ~(ref[f] > 0)
<1>1. ~readopen /\ ~writeopen
  BY Zenon DEF OnePipe
<1>2. \A w \in BOOLEAN : Open(w) = {} /\ Closing(w) = {}
  BY <1>1, Zenon DEF OnePipe
<1>3. ASSUME NEW f \in File, ref[f] > 0 PROVE FALSE
  <2>1. PICK w \in BOOLEAN : w = writable[f]
    BY Zenon DEF TypeOK
  <2>2. f \in Open(w)
    BY <1>3, <2>1, EndDefs
  <2>3. QED
    BY <1>2, <2>2, Zenon
<1>4. QED
  BY <1>1, <1>2, <1>3, Zenon

(* One pipe after pipe ... *)
LEMMA OnePipeMade ==
  ASSUME TypeOK, OnePipe, NEW p \in Proc, sys_pipe(p)
  PROVE  OnePipe'
<1>1. PICK f0 \in File, f1 \in File, d0 \in Fd, d1 \in Fd :
        /\ f0 # f1 /\ ref'[f0] = 1 /\ ref'[f1] = 1
        /\ ~writable'[f0] /\ writable'[f1]
        /\ \A f \in File : f # f0 /\ f # f1 => ref'[f] = ref[f] /\ writable'[f] = writable[f]
  BY PipeFacts
<1>2. ~page /\ page' = TRUE /\ readopen' = TRUE /\ writeopen' = TRUE /\ pc' = pc /\ ff' = ff
  BY Zenon DEF sys_pipe, callVars
<1>3. /\ \A w \in BOOLEAN : Open(w) = {} /\ Closing(w) = {}
      /\ \A f \in File : ~(ref[f] > 0)
  BY <1>2, NoPipe, Zenon
<1>4. \A f \in File : ref'[f] > 0 <=> f = f0 \/ f = f1
  BY <1>1, <1>3
<1>5. \A f, g \in File : ref'[f] > 0 /\ ref'[g] > 0 /\ writable'[f] = writable'[g] => f = g
  BY <1>1, <1>4, Zenon
<1>6. \A w \in BOOLEAN : Closing(w)' = {}
  BY <1>2, <1>3, Zenon DEF Closing
<1>7. writable' \in [File -> BOOLEAN]
  BY TypePipe, Zenon DEF TypeOK
<1>8. f0 \in Open(FALSE)' /\ f1 \in Open(TRUE)'
  BY <1>1, <1>4, <1>7, EndDefs, Zenon
<1>9. QED
  BY <1>2, <1>5, <1>6, <1>8, Zenon DEF OnePipe

(* ... after dup and fork ... *)
LEMMA OneDup ==
  ASSUME TypeOK, CountsTell, CallsAreHeld, OnePipe, NEW p \in Proc,
         \/ \E d \in Fd : sys_dup(p, d)
         \/ \E q \in Proc : fork(p, q)
  PROVE  OnePipe'
<1>1. UNCHANGED <<writable, readopen, writeopen, page, pc, ff>>
  BY Zenon DEF sys_dup, fork, pipeVars, callVars
<1>2. ASSUME NEW f \in File PROVE ref'[f] > 0 <=> ref[f] > 0
  <2>1. ref[f] \in Nat /\ (ref[f] > 0 <=> \E r \in Proc, e \in Fd : ofile[r][e] = f)
    BY Zenon DEF CountsTell
  <2>2. ASSUME NEW d \in Fd, sys_dup(p, d) PROVE ref'[f] > 0 <=> ref[f] > 0
    BY <2>1, <2>2, DupFacts
  <2>3. ASSUME NEW q \in Proc, fork(p, q) PROVE ref'[f] > 0 <=> ref[f] > 0
    <3>1. PICK D : D = {d \in Fd : ofile[p][d] = f}
      BY Zenon
    <3>2. ref'[f] = ref[f] + Cardinality(D)
      BY <2>3, <3>1, ForkFacts, Zenon
    <3>4. Cardinality(D) \in Nat /\ (Cardinality(D) = 0 <=> D = {})
      BY <3>1, ZenonT(40) DEF CountsTell
    <3>5. D # {} => ref[f] > 0
      BY <2>1, <3>1, Zenon
    <3>6. QED
      BY <2>1, <3>2, <3>4, <3>5
  <2>4. QED
    BY <2>2, <2>3, Zenon
<1>3. QED
  BY <1>1, <1>2, OneSame

(* ... after close: the last reference moves the end from the table to     *)
(* the process that closes it ...                                          *)
LEMMA OneClose ==
  ASSUME TypeOK, CountsTell, OnePipe, NEW p \in Proc, NEW d \in Fd, ofile[p][d] # None,
         NEW then \in {"close", "exitclose"}, pc[p] \in {"user", "exit"}, Close(p, d, then)
  PROVE  OnePipe'
<1> DEFINE f == ofile[p][d]
<1>1. /\ f \in File /\ ref'[f] = ref[f] - 1
      /\ \A g \in File : g # f => ref'[g] = ref[g]
      /\ UNCHANGED <<writable, readopen, writeopen, page>>
      /\ ref[f] = 1 => pc' = [pc EXCEPT ![p] = then] /\ ff' = [ff EXCEPT ![p] = writable[f]]
      /\ ref[f] # 1 => pc' = pc /\ ff' = ff
  BY CloseFacts, Zenon
<1>2. ref[f] \in Nat /\ ref[f] > 0
  BY <1>1, Zenon DEF CountsTell
<1>3. CASE ref[f] # 1
  <2>1. \A g \in File : ref'[g] > 0 <=> ref[g] > 0
    BY <1>1, <1>2, <1>3
  <2>2. QED
    BY <1>1, <1>3, <2>1, OneSame
<1>4. CASE ref[f] = 1
  <2>1. PICK w \in BOOLEAN : w = writable[f]
    BY <1>1 DEF TypeOK
  <2>2. f \in Open(w)
    BY <1>1, <1>2, <2>1, EndDefs, Zenon
  <2>3. Closing(w) = {} /\ \A g \in Open(w) : g = f
    BY <1>1, <1>2, <2>1, <2>2, EndDefs DEF OnePipe
  <2>4. Open(w)' = {}
    BY <1>1, <1>4, <2>3, EndDefs
  <2>5. pc'[p] = then /\ ff'[p] = w /\ \A q \in Proc : q # p => pc'[q] = pc[q] /\ ff'[q] = ff[q]
    BY <1>1, <1>4, <2>1 DEF TypeOK
  <2>6. Closing(w)' = {p}
    <3>1. \A q : q \in Closing(w)' <=> q = p
      BY <2>3, <2>5, EndDefs
    <3>2. QED
      BY <3>1, Zenon
  <2>7. ASSUME NEW v \in BOOLEAN, v # w PROVE Open(v)' = Open(v) /\ Closing(v)' = Closing(v)
    <3>1. \A g : g \in Open(v)' <=> g \in Open(v)
      BY <1>1, <2>1, <2>7, EndDefs
    <3>2. \A q : q \in Closing(v)' <=> q \in Closing(v)
      BY <2>5, <2>7, EndDefs
    <3>3. QED
      BY <3>1, <3>2, Zenon
  <2>8. \A g, h \in File : ref'[g] > 0 /\ ref'[h] > 0 /\ writable'[g] = writable'[h] => g = h
    <3>1. \A g \in File : ref'[g] > 0 => ref[g] > 0
      BY <1>1, <1>2, <1>4, Zenon
    <3>2. QED
      BY <1>1, <3>1, Zenon DEF OnePipe
  <2>9. \A v \in BOOLEAN : \A q \in Closing(v)' : Open(v)' = {} /\ Closing(v)' = {q}
    BY <2>4, <2>6, <2>7 DEF OnePipe
  <2>10. \A v \in BOOLEAN : Open(v)' # {} \/ Closing(v)' # {} <=> Open(v) # {} \/ Closing(v) # {}
    BY <2>2, <2>6, <2>7, Zenon
  <2>11. /\ readopen' <=> Open(FALSE)' # {} \/ Closing(FALSE)' # {}
         /\ writeopen' <=> Open(TRUE)' # {} \/ Closing(TRUE)' # {}
         /\ page' <=> readopen' \/ writeopen'
    BY <1>1, <2>10, Zenon DEF OnePipe
  <2>12. QED
    BY <2>8, <2>9, <2>11, Zenon DEF OnePipe
<1>5. QED
  BY <1>3, <1>4, Zenon

(* ... and after pipeclose. *)
LEMMA OnePipeclose ==
  ASSUME TypeOK, OnePipe, NEW p \in Proc, pipeclose(p)
  PROVE  OnePipe'
<1>1. UNCHANGED <<ref, writable>> /\ ff' = [ff EXCEPT ![p] = FALSE] /\ pc[p] \in {"close", "exitclose"}
  BY PipecloseFacts, Zenon
<1>2. PICK then \in {"user", "exit"} : pc' = [pc EXCEPT ![p] = then]
  BY PipecloseFacts, Zenon
<1>3. pc'[p] \notin {"close", "exitclose"}
      /\ \A q \in Proc : q # p => pc'[q] = pc[q] /\ ff'[q] = ff[q]
  BY <1>1, <1>2 DEF TypeOK
<1>4. PICK w \in BOOLEAN : w = ff[p]
  BY Zenon DEF TypeOK
<1>5. Open(w) = {} /\ Closing(w) = {p}
  BY <1>1, <1>4, EndDefs, Zenon DEF OnePipe
<1>6. \A v \in BOOLEAN : Open(v)' = Open(v)
  BY <1>1, Zenon DEF Open
<1>7. Closing(w)' = {}
  BY <1>3, <1>5, EndDefs
<1>8. \A v \in BOOLEAN : v # w => Closing(v)' = Closing(v)
  <2>1. \A v \in BOOLEAN : v # w => \A q : q \in Closing(v)' <=> q \in Closing(v)
    BY <1>3, <1>4, EndDefs
  <2>2. QED
    BY <2>1, Zenon
<1>9. \A g, h \in File : ref'[g] > 0 /\ ref'[h] > 0 /\ writable'[g] = writable'[h] => g = h
  BY <1>1, Zenon DEF OnePipe
<1>10. \A v \in BOOLEAN : \A q \in Closing(v)' : Open(v)' = {} /\ Closing(v)' = {q}
  BY <1>6, <1>7, <1>8 DEF OnePipe
<1>11. /\ readopen' <=> Open(FALSE)' # {} \/ Closing(FALSE)' # {}
       /\ writeopen' <=> Open(TRUE)' # {} \/ Closing(TRUE)' # {}
  <2>1. CASE w = TRUE
    <3>1. writeopen' = FALSE /\ readopen' = readopen
      BY <1>4, <2>1, PipecloseFacts, Zenon
    <3>2. QED
      BY <1>5, <1>6, <1>7, <1>8, <2>1, <3>1, Zenon DEF OnePipe
  <2>2. CASE w = FALSE
    <3>1. readopen' = FALSE /\ writeopen' = writeopen
      BY <1>4, <2>2, PipecloseFacts, Zenon
    <3>2. QED
      BY <1>5, <1>6, <1>7, <1>8, <2>2, <3>1, Zenon DEF OnePipe
  <2>3. QED
    BY <2>1, <2>2, Zenon
<1>12. page' <=> readopen' \/ writeopen'
  <2>1. p \in Closing(w)
    BY <1>5, Zenon
  <2>2. page
    BY <2>1, Zenon DEF OnePipe
  <2>3. QED
    BY <2>2, PipecloseFacts, Zenon
<1>13. QED
  BY <1>9, <1>10, <1>11, <1>12, Zenon DEF OnePipe

(* Who is in a call of the pipe finds it there. *)
LEMMA InPipe ==
  ASSUME TypeOK, CountsTell, CallsAreHeld, OnePipe, NEW p \in Proc
  PROVE  /\ \A d \in Fd : ofile[p][d] # None =>
              /\ ofile[p][d] \in Open(writable[ofile[p][d]])
              /\ writable[ofile[p][d]] => writeopen
              /\ ~writable[ofile[p][d]] => readopen
         /\ pc[p] = "write" => writeopen
         /\ pc[p] = "read" => readopen
         /\ pc[p] \in {"write", "read", "close", "exitclose"} => page
<1>1. ASSUME NEW d \in Fd, ofile[p][d] # None
      PROVE  /\ ofile[p][d] \in Open(writable[ofile[p][d]])
             /\ writable[ofile[p][d]] => writeopen
             /\ ~writable[ofile[p][d]] => readopen
  <2>1. ofile[p][d] \in File
    BY <1>1, FdType, Zenon
  <2>2. ref[ofile[p][d]] > 0 /\ writable[ofile[p][d]] \in BOOLEAN
    BY <2>1 DEF CountsTell, TypeOK
  <2>3. ofile[p][d] \in Open(writable[ofile[p][d]])
    BY <2>1, <2>2, EndDefs
  <2>4. QED
    BY <2>2, <2>3, Zenon DEF OnePipe
<1>2. /\ pc[p] = "write" => writeopen
      /\ pc[p] = "read" => readopen
  BY <1>1, Zenon DEF CallsAreHeld, Held
<1>3. ASSUME pc[p] \in {"close", "exitclose"} PROVE page
  <2>1. PICK w \in BOOLEAN : w = ff[p]
    BY Zenon DEF TypeOK
  <2>2. p \in Closing(w)
    BY <1>3, <2>1, EndDefs
  <2>3. QED
    BY <2>2, Zenon DEF OnePipe
<1>4. QED
  BY <1>1, <1>2, <1>3 DEF OnePipe

-----------------------------------------------------------------------------
(* Sleepers. *)

(* A pipe that is not touched, a process that does not go to sleep. *)
LEMMA SleepSame ==
  ASSUME SleepersHaveReason, UNCHANGED <<nread, nwrite, readopen, writeopen, cut>>,
         \A q \in Proc : state'[q] \in {"nread", "nwrite"} => state'[q] = state[q]
  PROVE  SleepersHaveReason'
<1>1. Room' = Room
  BY Zenon DEF Room, Count
<1>2. QED
  BY <1>1, Zenon DEF SleepersHaveReason

(* Sleepers have a reason after pipe, as nobody can sleep without one ... *)
LEMMA SleepPipe ==
  ASSUME Rest, CountsTell, NEW p \in Proc, sys_pipe(p)
  PROVE  SleepersHaveReason'
<1>1. ~page /\ state' = state
  BY Zenon DEF sys_pipe, procVars
<1>2. ASSUME NEW q \in Proc PROVE state[q] # "nread" /\ state[q] # "nwrite"
  <2>1. /\ state[q] = "nread" => pc[q] = "read"
        /\ state[q] = "nwrite" => pc[q] = "write"
    BY Zenon DEF Rest, CallsAreHeld, Held
  <2>2. QED
    BY <1>1, <2>1, InPipe DEF Rest
<1>3. QED
  BY <1>1, <1>2, Zenon DEF SleepersHaveReason

(* ... after pipeclose, which wakes the other end ... *)
LEMMA SleepPipeclose ==
  ASSUME Rest, CountsTell, NEW p \in Proc, pipeclose(p)
  PROVE  SleepersHaveReason'
<1>1. ff[p] \in BOOLEAN /\ readopen \in BOOLEAN /\ writeopen \in BOOLEAN
  BY Zenon DEF Rest, TypeOK
<1>2. CASE ff[p]
  <2>1. readopen' = readopen /\ state' = wakeup("nread")
    BY <1>2, PipecloseFacts, Zenon
  <2>2. \A q \in Proc : state'[q] # "nread" /\ (state'[q] = "nwrite" => state[q] = "nwrite")
    BY <2>1, Zenon DEF wakeup
  <2>3. ASSUME NEW q \in Proc, state'[q] = "nwrite" PROVE Room' = 0 /\ readopen'
    <3>1. Room = 0 /\ readopen
      BY <2>2, <2>3, Zenon DEF Rest, SleepersHaveReason
    <3>2. UNCHANGED <<nread, nwrite>>
      BY <2>1, <3>1, PipecloseFacts, Zenon
    <3>3. QED
      BY <2>1, <3>1, <3>2 DEF Room, Count
  <2>4. QED
    BY <2>2, <2>3, Zenon DEF SleepersHaveReason
<1>3. CASE ~ff[p]
  <2>1. state' = wakeup("nwrite")
    BY <1>3, PipecloseFacts, Zenon
  <2>2. \A q \in Proc : state'[q] # "nwrite" /\ (state'[q] = "nread" => state[q] = "nread")
    BY <2>1, Zenon DEF wakeup
  <2>3. p \in Closing(FALSE)
    BY <1>1, <1>3, PipecloseFacts, EndDefs, Zenon
  <2>4. Open(FALSE) = {}
    BY <2>3, Zenon DEF Rest, OnePipe
  <2>5. ASSUME NEW q \in Proc, state[q] = "nread" PROVE FALSE
    <3>1. PICK d \in Fd : ofile[q][d] # None /\ ~writable[ofile[q][d]]
      BY <2>5, Zenon DEF Rest, CallsAreHeld, Held
    <3>2. ofile[q][d] \in File /\ writable[ofile[q][d]] = FALSE
      BY <3>1, FdType DEF Rest, TypeOK
    <3>3. ofile[q][d] \in Open(FALSE)
      BY <3>1, <3>2, InPipe, Zenon DEF Rest
    <3>4. QED
      BY <2>4, <3>3, Zenon
  <2>6. QED
    BY <2>2, <2>5, Zenon DEF SleepersHaveReason
<1>4. QED
  BY <1>2, <1>3, Zenon

-----------------------------------------------------------------------------
(* Arithmetic with remainders. *)

(* A remainder is in its range. *)
LEMMA ModRange ==
  ASSUME NEW a \in Int, NEW m \in Nat, m > 0
  PROVE  a % m \in Nat /\ a % m < m
OBVIOUS

(* The quotient that belongs to a remainder. *)
LEMMA DivMod ==
  ASSUME NEW a \in Int, NEW m \in Nat, m > 0
  PROVE  \E q \in Int : a = q * m + (a % m)
OBVIOUS

(* A number has one remainder. *)
LEMMA ModIs ==
  ASSUME NEW a \in Int, NEW q \in Int, NEW r \in Int, NEW m \in Nat, m > 0,
         0 <= r, r < m, a = q * m + r
  PROVE  a % m = r
OBVIOUS

(* Small numbers are their own remainders. *)
LEMMA ModSmall ==
  ASSUME NEW a \in Nat, NEW m \in Nat, a < m
  PROVE  a % m = a
OBVIOUS

(* A multiple of the modulus does not change the remainder. *)
LEMMA ModShift ==
  ASSUME NEW a \in Int, NEW c \in Int, NEW m \in Nat, m > 0
  PROVE  (a + c * m) % m = a % m
<1>1. PICK q \in Int : a = q * m + (a % m)
  BY DivMod, Zenon
<1>2. a + c * m = (q + c) * m + (a % m)
  BY <1>1, ModRange
<1>3. /\ a + c * m \in Int /\ q + c \in Int /\ a % m \in Int /\ 0 <= a % m /\ a % m < m
  BY ModRange
<1>4. QED
  BY <1>2, <1>3, ModIs

(* A remainder differs from its number by a multiple of the modulus. *)
LEMMA ModOf ==
  ASSUME NEW a \in Int, NEW m \in Nat, m > 0
  PROVE  \E c \in Int : a % m = a + c * m
<1>1. PICK q \in Int : a = q * m + (a % m)
  BY DivMod, Zenon
<1>2. a % m = a + (-q) * m /\ -q \in Int
  BY <1>1, ModRange
<1>3. QED
  BY <1>2, Zenon

(* Remainders of sums and differences. *)
LEMMA ModSum ==
  ASSUME NEW a \in Int, NEW k \in Int, NEW m \in Nat, m > 0
  PROVE  ((a % m) + k) % m = (a + k) % m
<1>1. PICK c \in Int : a % m = a + c * m
  BY ModOf, Zenon
<1>2. (a % m) + k = (a + k) + c * m
  BY <1>1
<1>3. a + k \in Int
  OBVIOUS
<1>4. ((a + k) + c * m) % m = (a + k) % m
  BY <1>3, ModShift, Zenon
<1>5. QED
  BY <1>2, <1>4, Zenon

(* ... nor in a difference. *)
LEMMA ModDifference ==
  ASSUME NEW a \in Int, NEW b \in Int, NEW m \in Nat, m > 0
  PROVE  (b - (a % m)) % m = (b - a) % m
<1>1. PICK c \in Int : a % m = a + c * m
  BY ModOf
<1>2. b - (a % m) = (b - a) + (-c) * m
  <2>1. \A r \in Int : r = a + c * m => b - r = (b - a) + (-c) * m
    OBVIOUS
  <2>2. a % m \in Int
    BY ModRange
  <2>3. QED
    BY <1>1, <2>1, <2>2, Zenon
<1>3. b - a \in Int /\ -c \in Int
  OBVIOUS
<1>4. ((b - a) + (-c) * m) % m = (b - a) % m
  BY <1>3, ModShift, Zenon
<1>5. QED
  BY <1>2, <1>4, Zenon

(* Numbers less than the modulus apart with the same remainder are equal. *)
LEMMA ModSame ==
  ASSUME NEW a \in Int, NEW b \in Int, NEW m \in Nat, m > 0,
         a % m = b % m, a - b < m, b - a < m
  PROVE  a = b
<1>1. PICK q \in Int : a = q * m + (a % m)
  BY DivMod, Zenon
<1>2. PICK r \in Int : b = r * m + (b % m)
  BY DivMod, Zenon
<1>3. a % m \in Int
  BY ModRange
<1>4. a - b = (q - r) * m
  BY <1>1, <1>2, <1>3
<1>5. q - r = 0
  <2>1. ASSUME q - r >= 1 PROVE FALSE
    BY <1>4, <2>1
  <2>2. ASSUME q - r <= -1 PROVE FALSE
    <3>1. b - a = (r - q) * m /\ r - q >= 1
      BY <1>4, <2>2
    <3>2. QED
      BY <3>1
  <2>3. QED
    BY <2>1, <2>2
<1>6. QED
  BY <1>4, <1>5

-----------------------------------------------------------------------------
(* The ring, and the calls that work on it. *)

(* Count is small, and 0 when the counters are equal. *)
LEMMA CountRange ==
  ASSUME TypeOK, RingFits
  PROVE  /\ Count \in Nat /\ Count <= PIPESIZE /\ Count < UINT
         /\ Count = 0 <=> nread = nwrite
         /\ Room \in Nat /\ Room = PIPESIZE - Count
<1>1. nread \in Int /\ nwrite \in Int /\ nwrite - nread \in Int
  BY Constants DEF TypeOK
<1>2. Count \in Nat /\ Count <= PIPESIZE
  BY <1>1, Constants, ModRange, Zenon DEF RingFits, Count
<1>3. ASSUME Count = 0 PROVE nread = nwrite
  <2>1. PICK c \in Int : nwrite - nread = c * UINT + ((nwrite - nread) % UINT)
    BY <1>1, Constants, DivMod, Zenon
  <2>2. nwrite - nread = c * UINT
    BY <1>1, <1>3, <2>1, Constants DEF Count
  <2>3. nwrite - nread < UINT /\ nread - nwrite < UINT
    BY Constants DEF TypeOK
  <2>4. nwrite % UINT = nread % UINT
    BY <1>1, <2>2, Constants, ModShift
  <2>5. QED
    BY <1>1, <2>3, <2>4, Constants, ModSame, Zenon
<1>4. ASSUME nread = nwrite PROVE Count = 0
  BY <1>1, <1>4, Constants, ModSmall DEF Count
<1>5. QED
  BY <1>2, <1>3, <1>4, Constants DEF Room

(* What k more bytes do to Count ... *)
LEMMA CountPut ==
  ASSUME TypeOK, RingFits, NEW k \in Nat, k <= Room, nwrite' = (nwrite + k) % UINT,
         nread' = nread
  PROVE  Count' = Count + k /\ nwrite' \in 0..(UINT - 1)
<1>1. nread \in Int /\ nwrite \in Int /\ k \in Int /\ nwrite + k \in Int /\ nwrite - nread \in Int
  BY Constants DEF TypeOK
<1>2. Count' = (((nwrite + k) % UINT) + (-nread)) % UINT
  BY <1>1, ModRange, Constants, Zenon DEF Count
<1>3. Count' = ((nwrite + k) + (-nread)) % UINT
  <2>1. -nread \in Int /\ UINT \in Nat /\ UINT > 0
    BY <1>1, Constants
  <2>2. QED
    BY <1>1, <1>2, <2>1, ModSum, Zenon
<1>4. (nwrite + k) + (-nread) = (nwrite - nread) + k
  BY <1>1
<1>5. Count' = (Count + k) % UINT
  BY <1>1, <1>3, <1>4, ModSum, Constants DEF Count
<1>6. Count + k \in Nat /\ Count + k < UINT
  BY CountRange, Constants
<1>7. QED
  BY <1>1, <1>5, <1>6, ModSmall, ModRange, Constants

(* ... and what taking k bytes does. *)
LEMMA CountGet ==
  ASSUME TypeOK, RingFits, NEW k \in Nat, k <= Count, nread' = (nread + k) % UINT,
         nwrite' = nwrite
  PROVE  Count' = Count - k /\ nread' \in 0..(UINT - 1)
<1>1. nread \in Int /\ nwrite \in Int /\ k \in Int /\ nread + k \in Int /\ nwrite - nread \in Int
  BY Constants DEF TypeOK
<1>2. Count' = (nwrite - ((nread + k) % UINT)) % UINT
  BY Zenon DEF Count
<1>3. Count' = (nwrite - (nread + k)) % UINT
  BY <1>1, <1>2, ModDifference, Constants
<1>4. nwrite - (nread + k) = (nwrite - nread) + (-k) /\ -k \in Int
  BY <1>1
<1>5. Count' = (Count + (-k)) % UINT
  BY <1>1, <1>3, <1>4, ModSum, Constants DEF Count
<1>6. Count + (-k) \in Nat /\ Count + (-k) < UINT /\ Count + (-k) = Count - k
  BY CountRange, Constants
<1>7. Count' = Count - k
  <2>1. (Count + (-k)) % UINT = Count + (-k)
    BY <1>6, ModSmall, Constants, Zenon
  <2>2. QED
    BY <1>5, <1>6, <2>1, Zenon
<1>8. QED
  BY <1>1, <1>7, ModRange, Constants

(* A sequence is its first k elements and the rest. *)
LEMMA SubSeqFacts ==
  ASSUME NEW S, NEW s \in Seq(S), NEW k \in 0..Len(s)
  PROVE  /\ SubSeq(s, 1, k) = [i \in 1..k |-> s[i]]
         /\ SubSeq(s, k + 1, Len(s)) = [i \in 1..(Len(s) - k) |-> s[i + k]]
         /\ SubSeq(s, k + 1, Len(s)) \in Seq(S)
         /\ SubSeq(s, k + 1, Len(s)) = <<>> <=> k = Len(s)
<1>1. Len(s) \in Nat /\ k \in Nat /\ k <= Len(s)
  OBVIOUS
<1>2. SubSeq(s, k + 1, Len(s)) \in Seq(S)
  BY <1>1
<1>3. Len(SubSeq(s, k + 1, Len(s))) = Len(s) - k
  BY <1>1
<1>4. SubSeq(s, k + 1, Len(s)) = <<>> <=> k = Len(s)
  <2>1. \A t \in Seq(S) : t = <<>> <=> Len(t) = 0
    OBVIOUS
  <2>2. Len(s) - k = 0 <=> k = Len(s)
    BY <1>1
  <2>3. QED
    BY <1>2, <1>3, <2>1, <2>2, Zenon
<1>5. SubSeq(s, 1, k) = [i \in 1..k |-> s[i]]
  BY <1>1
<1>6. SubSeq(s, k + 1, Len(s)) = [i \in 1..(Len(s) - k) |-> s[i + k]]
  BY <1>1
<1>7. QED
  BY <1>2, <1>4, <1>5, <1>6, Zenon

(* What pipewrite does, for the number k of bytes it copies. *)
PutSome(p, k) ==
  /\ k \in 0..Len(out[p]) /\ k <= Room
  /\ k < Len(out[p]) => k = Room
  /\ data' = [j \in DOMAIN data |->
                IF \E i \in 1..k : slot(i) = j
                THEN out[p][CHOOSE i \in 1..k : slot(i) = j] ELSE data[j]]
  /\ nwrite' = (nwrite + k) % UINT
  /\ UNCHANGED <<tableVars, page, nread, readopen, writeopen, killed, n, got, ff>>

(* The three ways in which pipewrite goes on. *)
PutDone(p, k) ==
  /\ k = Len(out[p])
  /\ pc' = [pc EXCEPT ![p] = "user"] /\ out' = [out EXCEPT ![p] = <<>>]
  /\ state' = wakeup("nread") /\ UNCHANGED cut

PutGaveUp(p, k) ==
  /\ k < Len(out[p]) /\ (~readopen \/ killed[p])
  /\ pc' = [pc EXCEPT ![p] = "user"] /\ out' = [out EXCEPT ![p] = <<>>]
  /\ cut' = (cut \/ readopen) /\ UNCHANGED state

PutSleeps(p, k) ==
  /\ k < Len(out[p]) /\ readopen /\ ~killed[p]
  /\ state' = [wakeup("nread") EXCEPT ![p] = "nwrite"]
  /\ out' = [out EXCEPT ![p] = SubSeq(out[p], k + 1, Len(out[p]))]
  /\ UNCHANGED <<pc, cut>>

(* pipewrite copies what fits and returns, gives up or sleeps. *)
LEMMA WriteFacts ==
  ASSUME TypeOK, RingFits, NEW p \in Proc, pipewrite(p)
  PROVE  /\ InCall(p, "write")
         /\ \E k \in Nat : PutSome(p, k) /\ (PutDone(p, k) \/ PutGaveUp(p, k) \/ PutSleeps(p, k))
<1> DEFINE k == IF Len(out[p]) <= Room THEN Len(out[p]) ELSE Room
           rest == SubSeq(out[p], k + 1, Len(out[p]))
<1>1. out[p] \in Seq(Byte) /\ Len(out[p]) \in Nat /\ Room \in Nat
  BY CountRange DEF TypeOK
<1>2. k \in Nat /\ k \in 0..Len(out[p]) /\ k <= Room /\ (k < Len(out[p]) => k = Room)
  BY <1>1
<1>3. rest = <<>> <=> k = Len(out[p])
  BY <1>1, <1>2, SubSeqFacts, Zenon
<1>4. k # Len(out[p]) <=> k < Len(out[p])
  BY <1>1, <1>2
<1>5. InCall(p, "write") /\ PutSome(p, k)
  BY <1>2, Zenon DEF pipewrite, PutSome
<1>6. PutDone(p, k) \/ PutGaveUp(p, k) \/ PutSleeps(p, k)
  BY <1>3, <1>4, Zenon DEF pipewrite, PutDone, PutGaveUp, PutSleeps
<1>7. QED
  BY <1>2, <1>5, <1>6, Zenon

(* What piperead does when it has bytes or the end of the stream. *)
GetSome(p, k) ==
  /\ k \in 0..MAXREAD /\ k <= Count
  /\ k = 0 => Count = 0 /\ ~writeopen
  /\ got' = [got EXCEPT ![p] = [i \in 1..k |-> data[(nread + i - 1) % PIPESIZE]]]
  /\ nread' = (nread + k) % UINT
  /\ k < Count => k = n[p]
  /\ state' = wakeup("nwrite")
  /\ pc' = [pc EXCEPT ![p] = "return"]
  /\ n' = [n EXCEPT ![p] = 0]

(* The two other ways in which piperead goes on. *)
GetGaveUp(p) ==
  /\ nread = nwrite /\ writeopen /\ killed[p]
  /\ pc' = [pc EXCEPT ![p] = "user"]
  /\ n' = [n EXCEPT ![p] = 0]
  /\ UNCHANGED <<nread, state, got>>

GetSleeps(p) ==
  /\ nread = nwrite /\ writeopen /\ ~killed[p]
  /\ state' = [state EXCEPT ![p] = "nread"]
  /\ UNCHANGED <<nread, pc, n, got>>

(* piperead takes what there is, gives up or sleeps. *)
LEMMA ReadFacts ==
  ASSUME TypeOK, RingFits, CallsAreHeld, NEW p \in Proc, piperead(p)
  PROVE  /\ InCall(p, "read")
         /\ UNCHANGED <<tableVars, page, data, nwrite, readopen, writeopen, killed, out, ff, cut>>
         /\ GetGaveUp(p) \/ GetSleeps(p) \/ \E k \in Nat : GetSome(p, k)
<1> DEFINE k == IF n[p] <= Count THEN n[p] ELSE Count
<1>1. InCall(p, "read")
      /\ UNCHANGED <<tableVars, page, data, nwrite, readopen, writeopen, killed, out, ff, cut>>
  BY Zenon DEF piperead
<1>2. n[p] \in 0..MAXREAD /\ n[p] > 0
  BY <1>1, Zenon DEF TypeOK, CallsAreHeld, Held, InCall
<1>3. k \in Nat /\ k \in 0..MAXREAD /\ k <= Count /\ (k = 0 => Count = 0) /\ (k < Count => k = n[p])
  BY <1>2, CountRange, Constants
<1>4. CASE nread = nwrite /\ writeopen
  BY <1>1, <1>4, Zenon DEF piperead, GetGaveUp, GetSleeps
<1>5. CASE ~(nread = nwrite /\ writeopen)
  <2>1. k = 0 => ~writeopen
    BY <1>3, <1>5, CountRange, Zenon
  <2>2. GetSome(p, k)
    BY <1>3, <1>5, <2>1, Zenon DEF piperead, GetSome
  <2>3. QED
    BY <1>1, <1>3, <2>2, Zenon
<1>6. QED
  BY <1>4, <1>5, Zenon

(* The new contents of data have its type. *)
LEMMA PutType ==
  ASSUME TypeOK, RingFits, NEW p \in Proc, NEW k \in Nat, PutSome(p, k)
  PROVE  /\ data' \in [0..(PIPESIZE - 1) -> Byte \cup {None}]
         /\ nwrite' \in 0..(UINT - 1)
<1>1. out[p] \in Seq(Byte) /\ k \in 0..Len(out[p]) /\ k <= Room
  BY Zenon DEF TypeOK, PutSome
<1>2. \A i \in 1..k : out[p][i] \in Byte
  BY <1>1
<1>3. ASSUME NEW j \in 0..(PIPESIZE - 1), \E i \in 1..k : slot(i) = j
      PROVE  out[p][CHOOSE i \in 1..k : slot(i) = j] \in Byte
  <2>1. (CHOOSE i \in 1..k : slot(i) = j) \in 1..k
    BY <1>3, Zenon
  <2>2. QED
    BY <1>2, <2>1, Zenon
<1>4. DOMAIN data = 0..(PIPESIZE - 1)
      /\ \A j \in 0..(PIPESIZE - 1) : data[j] \in Byte \cup {None}
  BY Zenon DEF TypeOK
<1>5. data' = [j \in 0..(PIPESIZE - 1) |->
                 IF \E i \in 1..k : slot(i) = j
                 THEN out[p][CHOOSE i \in 1..k : slot(i) = j] ELSE data[j]]
  BY <1>4, Zenon DEF PutSome
<1>6. \A j \in 0..(PIPESIZE - 1) :
        (IF \E i \in 1..k : slot(i) = j
         THEN out[p][CHOOSE i \in 1..k : slot(i) = j] ELSE data[j]) \in Byte \cup {None}
  BY <1>3, <1>4, Zenon
<1>7. data' \in [0..(PIPESIZE - 1) -> Byte \cup {None}]
  BY <1>5, <1>6, Zenon
<1>8. nwrite' \in 0..(UINT - 1)
  <2>1. nread' = nread /\ nwrite' = (nwrite + k) % UINT
    BY Zenon DEF PutSome
  <2>2. QED
    BY <1>1, <2>1, CountPut, Zenon
<1>9. QED
  BY <1>7, <1>8, Zenon

(* Types are preserved by pipewrite ... *)
LEMMA TypeWrite ==
  ASSUME TypeOK, RingFits, NEW p \in Proc, pipewrite(p)
  PROVE  TypeOK'
<1>1. PICK k \in Nat : PutSome(p, k) /\ (PutDone(p, k) \/ PutGaveUp(p, k) \/ PutSleeps(p, k))
  BY WriteFacts, Zenon
<1>2. /\ data' \in [0..(PIPESIZE - 1) -> Byte \cup {None}]
      /\ nwrite' \in 0..(UINT - 1)
  BY <1>1, PutType, Zenon
<1>3. UNCHANGED <<ofile, ref, writable, page, nread, readopen, writeopen, killed, n, got, ff>>
  BY <1>1, Zenon DEF PutSome, tableVars
<1>4. wakeup("nread") \in [Proc -> {"UNUSED", "RUNNING", "nread", "nwrite"}]
  BY WakeupType, Zenon
<1>5. <<>> \in Seq(Byte)
  OBVIOUS
<1>6. CASE PutDone(p, k)
  <2>1. /\ state' \in [Proc -> {"UNUSED", "RUNNING", "nread", "nwrite"}]
        /\ pc' \in [Proc -> Place] /\ out' \in [Proc -> Seq(Byte)] /\ cut' \in BOOLEAN
    BY <1>4, <1>5, <1>6 DEF TypeOK, PutDone, Place
  <2>2. QED
    BY <1>2, <1>3, <2>1, Zenon DEF TypeOK
<1>7. CASE PutGaveUp(p, k)
  <2>1. /\ state' \in [Proc -> {"UNUSED", "RUNNING", "nread", "nwrite"}]
        /\ pc' \in [Proc -> Place] /\ out' \in [Proc -> Seq(Byte)] /\ cut' \in BOOLEAN
    BY <1>5, <1>7, Zenon DEF TypeOK, PutGaveUp, Place
  <2>2. QED
    BY <1>2, <1>3, <2>1 DEF TypeOK
<1>8. CASE PutSleeps(p, k)
  <2>1. SubSeq(out[p], k + 1, Len(out[p])) \in Seq(Byte)
    BY <1>1, SubSeqFacts, Zenon DEF TypeOK, PutSome
  <2>2. /\ state' \in [Proc -> {"UNUSED", "RUNNING", "nread", "nwrite"}]
        /\ pc' \in [Proc -> Place] /\ out' \in [Proc -> Seq(Byte)] /\ cut' \in BOOLEAN
    BY <1>4, <1>8, <2>1, Zenon DEF TypeOK, PutSleeps, Place
  <2>3. QED
    BY <1>2, <1>3, <2>2 DEF TypeOK
<1>9. QED
  BY <1>1, <1>6, <1>7, <1>8, Zenon

(* ... and by piperead ... *)
LEMMA TypeRead ==
  ASSUME TypeOK, RingFits, CallsAreHeld, NEW p \in Proc, piperead(p)
  PROVE  TypeOK'
<1>1. UNCHANGED <<ofile, ref, writable, page, data, nwrite, readopen, writeopen, killed, out, ff, cut>>
  BY ReadFacts, Zenon DEF tableVars
<1>2. GetGaveUp(p) \/ GetSleeps(p) \/ \E k \in Nat : GetSome(p, k)
  BY ReadFacts, Zenon
<1>3. /\ nread' \in 0..(UINT - 1)
      /\ state' \in [Proc -> {"UNUSED", "RUNNING", "nread", "nwrite"}]
      /\ pc' \in [Proc -> Place] /\ n' \in [Proc -> 0..MAXREAD]
  <2>1. CASE GetGaveUp(p)
    BY <2>1, Constants DEF TypeOK, GetGaveUp, Place
  <2>2. CASE GetSleeps(p)
    BY <2>2, Zenon DEF TypeOK, GetSleeps
  <2>3. ASSUME NEW k \in Nat, GetSome(p, k)
        PROVE  /\ nread' \in 0..(UINT - 1)
               /\ state' \in [Proc -> {"UNUSED", "RUNNING", "nread", "nwrite"}]
               /\ pc' \in [Proc -> Place] /\ n' \in [Proc -> 0..MAXREAD]
    <3>1. nread' \in 0..(UINT - 1)
      BY <1>1, <2>3, CountGet, Zenon DEF GetSome
    <3>2. state' \in [Proc -> {"UNUSED", "RUNNING", "nread", "nwrite"}]
      BY <2>3, WakeupType, Zenon DEF GetSome
    <3>3. pc' \in [Proc -> Place] /\ n' \in [Proc -> 0..MAXREAD]
      BY <2>3, Constants DEF TypeOK, GetSome, Place
    <3>4. QED
      BY <3>1, <3>2, <3>3, Zenon
  <2>4. QED
    BY <1>2, <2>1, <2>2, <2>3, Zenon
<1>4. QED
  BY <1>1, <1>3, Zenon DEF TypeOK

(* ... after pipewrite ... *)
LEMMA HeldWrite ==
  ASSUME TypeOK, RingFits, CallsAreHeld, NEW p \in Proc, pipewrite(p)
  PROVE  CallsAreHeld'
<1>1. PICK k \in Nat : PutSome(p, k) /\ (PutDone(p, k) \/ PutGaveUp(p, k) \/ PutSleeps(p, k))
  BY WriteFacts, Zenon
<1>2. UNCHANGED <<ofile, writable, n>> /\ state[p] = "RUNNING" /\ pc[p] = "write"
  BY <1>1, WriteFacts, ZenonT(40) DEF PutSome, tableVars, InCall
<1>3. \A q \in Proc : q # p =>
        pc'[q] = pc[q] /\ out'[q] = out[q] /\ state'[q] \in {state[q], "RUNNING"}
  <2>1. CASE PutDone(p, k)
    BY <2>1, Zenon DEF PutDone, wakeup, TypeOK
  <2>2. CASE PutGaveUp(p, k)
    BY <2>2, Zenon DEF PutGaveUp, TypeOK
  <2>3. CASE PutSleeps(p, k)
    BY <2>3, Zenon DEF PutSleeps, wakeup, TypeOK
  <2>4. QED
    BY <1>1, <2>1, <2>2, <2>3
<1>4. \/ pc'[p] = "user" /\ state'[p] = "RUNNING" /\ out'[p] = <<>>
      \/ pc'[p] = "write" /\ state'[p] = "nwrite"
  <2>1. CASE PutDone(p, k)
    BY <1>2, <2>1, Zenon DEF PutDone, wakeup, TypeOK
  <2>2. CASE PutGaveUp(p, k)
    BY <1>2, <2>2, Zenon DEF PutGaveUp, TypeOK
  <2>3. CASE PutSleeps(p, k)
    <3>1. state' = [wakeup("nread") EXCEPT ![p] = "nwrite"] /\ pc' = pc
      BY <2>3, Zenon DEF PutSleeps
    <3>2. QED
      BY <1>2, <3>1, WakeupType, Zenon
  <2>4. QED
    BY <1>1, <2>1, <2>2, <2>3
<1>5. ASSUME NEW q \in Proc PROVE Held(q)'
  <2>1. Held(q)
    BY Zenon DEF CallsAreHeld
  <2>2. CASE q = p /\ pc'[p] = "user" /\ state'[p] = "RUNNING" /\ out'[p] = <<>>
    BY <2>1, <2>2, HeldIdle, Zenon
  <2>3. CASE q = p /\ pc'[p] = "write" /\ state'[p] = "nwrite"
    BY <1>2, <2>1, <2>3, ZenonT(40) DEF Held
  <2>4. CASE q # p
    BY <1>2, <1>3, <2>1, <2>4, HeldWoken
  <2>5. QED
    BY <1>4, <2>2, <2>3, <2>4
<1>6. QED
  BY <1>5, Zenon DEF CallsAreHeld

(* ... after piperead ... *)
LEMMA HeldRead ==
  ASSUME TypeOK, RingFits, CallsAreHeld, NEW p \in Proc, piperead(p)
  PROVE  CallsAreHeld'
<1>1. UNCHANGED <<ofile, writable, out>> /\ state[p] = "RUNNING" /\ pc[p] = "read"
  BY ReadFacts, Zenon DEF tableVars, InCall
<1>2. GetGaveUp(p) \/ GetSleeps(p) \/ \E k \in Nat : GetSome(p, k)
  BY ReadFacts
<1>3. \A q \in Proc : q # p =>
        pc'[q] = pc[q] /\ n'[q] = n[q] /\ state'[q] \in {state[q], "RUNNING"}
  <2>1. CASE GetGaveUp(p)
    BY <2>1, Zenon DEF GetGaveUp, TypeOK
  <2>2. CASE GetSleeps(p)
    BY <2>2, Zenon DEF GetSleeps, TypeOK
  <2>3. ASSUME NEW k \in Nat, GetSome(p, k)
        PROVE  \A q \in Proc : q # p =>
                 pc'[q] = pc[q] /\ n'[q] = n[q] /\ state'[q] \in {state[q], "RUNNING"}
    BY <2>3, Zenon DEF GetSome, wakeup, TypeOK
  <2>4. QED
    BY <1>2, <2>1, <2>2, <2>3
<1>4. \/ pc'[p] \in {"user", "return"} /\ state'[p] = "RUNNING"
      \/ pc'[p] = "read" /\ state'[p] = "nread" /\ n'[p] = n[p]
  <2>1. CASE GetGaveUp(p)
    BY <1>1, <2>1, Zenon DEF GetGaveUp, TypeOK
  <2>2. CASE GetSleeps(p)
    BY <1>1, <2>2, Zenon DEF GetSleeps, TypeOK
  <2>3. ASSUME NEW k \in Nat, GetSome(p, k)
        PROVE  pc'[p] = "return" /\ state'[p] = "RUNNING"
    BY <1>1, <2>3, Zenon DEF GetSome, wakeup, TypeOK
  <2>4. QED
    BY <1>2, <2>1, <2>2, <2>3
<1>5. ASSUME NEW q \in Proc PROVE Held(q)'
  <2>1. Held(q)
    BY Zenon DEF CallsAreHeld
  <2>2. CASE q = p /\ pc'[p] \in {"user", "return"} /\ state'[p] = "RUNNING"
    <3>1. out'[p] = <<>>
      BY <1>1, <2>1, <2>2, Zenon DEF Held
    <3>2. QED
      BY <2>1, <2>2, <3>1, HeldIdle
  <2>3. CASE q = p /\ pc'[p] = "read" /\ state'[p] = "nread" /\ n'[p] = n[p]
    BY <1>1, <2>1, <2>3, Zenon DEF Held
  <2>4. CASE q # p
    BY <1>1, <1>3, <2>1, <2>4, HeldWoken
  <2>5. QED
    BY <1>4, <2>2, <2>3, <2>4
<1>6. QED
  BY <1>5, Zenon DEF CallsAreHeld

(* The ring of an empty pipe. *)
LEMMA EmptyRing ==
  ASSUME nread' = 0, nwrite' = 0
  PROVE  RingFits'
<1>1. 0 - 0 = 0 /\ 0 \in Nat /\ UINT \in Nat /\ 0 < UINT /\ 0 <= PIPESIZE
  BY Constants
<1>2. 0 % UINT = 0
  BY <1>1, ModSmall, Zenon
<1>3. Count' = 0
  BY <1>1, <1>2, Zenon DEF Count
<1>4. QED
  BY <1>1, <1>3, Zenon DEF RingFits

(* The ring after a write ... *)
LEMMA RingWrite ==
  ASSUME Rest, CountsTell, NEW p \in Proc, pipewrite(p)
  PROVE  RingFits'
<1>1. PICK k \in Nat : PutSome(p, k)
  BY WriteFacts, Zenon DEF Rest
<1>2. Count' = Count + k /\ k <= Room /\ page' = page
  BY <1>1, CountPut, Zenon DEF Rest, PutSome
<1>3. page
  BY WriteFacts, InPipe, Zenon DEF Rest, InCall
<1>4. QED
  BY <1>2, <1>3, CountRange, Constants DEF Rest, RingFits

(* ... and after a read. *)
LEMMA RingRead ==
  ASSUME Rest, CountsTell, NEW p \in Proc, piperead(p)
  PROVE  RingFits'
<1>1. page /\ page' = page /\ nwrite' = nwrite
  BY ReadFacts, InPipe, Zenon DEF Rest, InCall
<1>2. GetGaveUp(p) \/ GetSleeps(p) \/ \E k \in Nat : GetSome(p, k)
  BY ReadFacts, Zenon DEF Rest
<1>3. ASSUME NEW k \in Nat, GetSome(p, k) PROVE Count' <= PIPESIZE
  <2>1. Count' = Count - k
    BY <1>1, <1>3, CountGet DEF Rest, GetSome
  <2>2. QED
    BY <2>1, CountRange, Constants DEF Rest
<1>4. CASE GetGaveUp(p) \/ GetSleeps(p)
  BY <1>1, <1>4, Zenon DEF Rest, RingFits, GetGaveUp, GetSleeps, Count
<1>5. QED
  BY <1>1, <1>2, <1>3, <1>4 DEF RingFits

(* ... after pipewrite, which fills the pipe before it sleeps ... *)
LEMMA SleepWrite ==
  ASSUME Rest, CountsTell, NEW p \in Proc, pipewrite(p)
  PROVE  SleepersHaveReason'
<1>1. PICK k \in Nat : PutSome(p, k) /\ (PutDone(p, k) \/ PutGaveUp(p, k) \/ PutSleeps(p, k))
  BY WriteFacts, Zenon DEF Rest
<1>2. k <= Room /\ (k < Len(out[p]) => k = Room) /\ UNCHANGED <<nread, readopen, writeopen>>
  BY <1>1, ZenonT(40) DEF PutSome
<1>3. Count' = Count + k /\ Room \in Nat /\ Count \in Nat /\ Room = PIPESIZE - Count
  BY <1>1, <1>2, CountPut, CountRange DEF Rest, PutSome
<1>4. Room' = Room - k
  BY <1>3, Constants DEF Room
<1>5. ASSUME NEW q \in Proc, state[q] = "nwrite" PROVE Room' = 0 /\ readopen'
  BY <1>2, <1>3, <1>4, <1>5 DEF Rest, SleepersHaveReason
<1>6. CASE PutDone(p, k)
  <2>1. \A q \in Proc : state'[q] # "nread" /\ (state'[q] = "nwrite" => state[q] = "nwrite")
    BY <1>6, Zenon DEF PutDone, wakeup
  <2>2. QED
    BY <1>5, <2>1, Zenon DEF SleepersHaveReason
<1>7. CASE PutGaveUp(p, k)
  <2>1. state' = state /\ (~cut' => ~readopen)
    BY <1>7, ZenonT(40) DEF PutGaveUp
  <2>2. ASSUME NEW q \in Proc, state[q] = "nread" PROVE readopen
    BY <2>2, InPipe DEF Rest, CallsAreHeld, Held
  <2>3. QED
    BY <1>5, <2>1, <2>2 DEF SleepersHaveReason
<1>8. CASE PutSleeps(p, k)
  <2>1. /\ state' = [wakeup("nread") EXCEPT ![p] = "nwrite"]
        /\ k < Len(out[p]) /\ readopen
    BY <1>8, Zenon DEF PutSleeps
  <2>2. \A q \in Proc : state'[q] # "nread" /\ (q # p /\ state'[q] = "nwrite" => state[q] = "nwrite")
    BY <2>1, Zenon DEF wakeup
  <2>3. Room' = 0 /\ readopen'
    BY <1>2, <1>3, <1>4, <2>1
  <2>4. QED
    BY <2>2, <2>3, Zenon DEF SleepersHaveReason
<1>9. QED
  BY <1>1, <1>6, <1>7, <1>8

(* ... and after piperead. *)
LEMMA SleepRead ==
  ASSUME Rest, CountsTell, NEW p \in Proc, piperead(p)
  PROVE  SleepersHaveReason'
<1>1. UNCHANGED <<nwrite, readopen, writeopen, cut>>
  BY ReadFacts DEF Rest
<1>2. GetGaveUp(p) \/ GetSleeps(p) \/ \E k \in Nat : GetSome(p, k)
  BY ReadFacts DEF Rest
<1>3. CASE GetGaveUp(p)
  <2>1. nread' = nread /\ state' = state
    BY <1>3, Zenon DEF GetGaveUp
  <2>2. QED
    BY <1>1, <2>1, SleepSame DEF Rest
<1>4. CASE GetSleeps(p)
  <2>1. nread' = nread /\ nread = nwrite /\ writeopen /\ state' = [state EXCEPT ![p] = "nread"]
    BY <1>4, Zenon DEF GetSleeps
  <2>2. Room' = Room
    BY <1>1, <2>1, Zenon DEF Room, Count
  <2>3. state'[p] = "nread" /\ \A q \in Proc : q # p => state'[q] = state[q]
    BY <2>1, Zenon DEF Rest, TypeOK
  <2>4. QED
    BY <1>1, <2>1, <2>2, <2>3 DEF Rest, SleepersHaveReason
<1>5. ASSUME NEW k \in Nat, GetSome(p, k) PROVE SleepersHaveReason'
  <2>1. \A q \in Proc : state'[q] # "nwrite" /\ (state'[q] = "nread" => state[q] = "nread")
    BY <1>5, Zenon DEF GetSome, wakeup
  <2>2. ASSUME NEW q \in Proc, state[q] = "nread", ~cut PROVE FALSE
    <3>1. nread = nwrite /\ writeopen
      BY <2>2, Zenon DEF Rest, SleepersHaveReason
    <3>2. Count = 0
      BY <3>1, CountRange, Zenon DEF Rest
    <3>3. k = 0
      BY <1>5, <3>2 DEF GetSome
    <3>4. QED
      BY <1>5, <3>1, <3>3 DEF GetSome
  <2>3. QED
    BY <1>1, <2>1, <2>2 DEF SleepersHaveReason
<1>6. QED
  BY <1>2, <1>3, <1>4, <1>5

-----------------------------------------------------------------------------
(* The invariant, but for the counts. *)

(* What the steps that touch neither the tables nor the pipe keep. *)
LEMMA QuietStep ==
  ASSUME Rest, CountsTell, TypeOK', CallsAreHeld', UNCHANGED <<tableVars, pipeVars, ff, cut>>,
         \A p \in Proc : pc'[p] \in {"close", "exitclose"} <=> pc[p] \in {"close", "exitclose"},
         \A q \in Proc : state'[q] \in {"nread", "nwrite"} => state'[q] = state[q]
  PROVE  Rest'
<1>1. UNCHANGED <<ofile, ref, writable, page, nread, nwrite, readopen, writeopen>>
  BY Zenon DEF tableVars, pipeVars
<1>3. OnePipe'
  BY <1>1, OneSame, Zenon DEF Rest
<1>4. RingFits'
  BY <1>1, Zenon DEF Rest, RingFits, Count
<1>5. SleepersHaveReason'
  BY <1>1, SleepSame, Zenon DEF Rest
<1>6. QED
  BY <1>3, <1>4, <1>5, Zenon DEF Rest

(* A close of either kind. *)
LEMMA StepClose ==
  ASSUME Rest, CountsTell, NEW p \in Proc, NEW d \in Fd, sys_close(p, d) \/ ExitClose(p, d)
  PROVE  Rest'
<1>1. /\ state[p] = "RUNNING" /\ pc[p] \in {"user", "exit"} /\ ofile[p][d] # None
      /\ \E then \in {"close", "exitclose"} : Close(p, d, then)
  BY Zenon DEF sys_close, ExitClose, InUser, InCall, IsFirst, FreeFd
<1>2. PICK then \in {"close", "exitclose"} : Close(p, d, then)
  BY <1>1, ZenonT(40)
<1>3. UNCHANGED <<page, nread, nwrite, readopen, writeopen, state, cut>>
  BY <1>1, <1>2, CloseFacts DEF Rest
<1>4. TypeOK'
  BY <1>1, <1>2, TypeClose DEF Rest, Place
<1>6. CallsAreHeld'
  BY <1>1, <1>2, HeldClose DEF Rest
<1>7. OnePipe'
  BY <1>1, <1>2, OneClose DEF Rest
<1>8. RingFits'
  BY <1>3, Zenon DEF Rest, RingFits, Count
<1>9. SleepersHaveReason'
  BY <1>3, SleepSame DEF Rest
<1>10. QED
  BY <1>4, <1>6, <1>7, <1>8, <1>9, Zenon DEF Rest

(* These parts of the invariant are kept by every step. *)
LEMMA StepRest ==
  ASSUME Rest, CountsTell, Next
  PROVE  Rest'
<1>1. PICK p \in Proc :
        \/ Kernel(p) \/ sys_pipe(p) \/ ExitCall(p)
        \/ \E d \in Fd : \/ sys_dup(p, d) \/ sys_close(p, d)
                         \/ \E s \in Writes : WriteCall(p, d, s)
                         \/ \E m \in 1..MAXREAD : ReadCall(p, d, m)
        \/ \E q \in Proc \ {p} : fork(p, q) \/ (q \in Killable /\ kill(p, q))
  BY Zenon DEF Next
<1>2. TypeOK /\ CallsAreHeld /\ OnePipe /\ RingFits /\ SleepersHaveReason
  BY Zenon DEF Rest
<1>3. CASE pipeclose(p)
  <2>1. TypeOK' /\ CallsAreHeld' /\ OnePipe' /\ SleepersHaveReason'
    BY <1>2, <1>3, TypePipeclose, HeldPipeclose, OnePipeclose, SleepPipeclose, Zenon
  <2>3. RingFits'
    <3>1. CASE ~readopen' /\ ~writeopen'
      <4>1. nread' = 0 /\ nwrite' = 0
        BY <1>3, <3>1, PipecloseFacts, Zenon
      <4>2. QED
        BY <4>1, EmptyRing
    <3>2. CASE readopen' \/ writeopen'
      <4>1. UNCHANGED <<page, nread, nwrite>>
        BY <1>3, <3>2, PipecloseFacts, Zenon
      <4>2. QED
        BY <1>2, <4>1, Zenon DEF RingFits, Count
    <3>3. QED
      BY <3>1, <3>2, <2>1 DEF TypeOK
  <2>4. QED
    BY <2>1, <2>3, Zenon DEF Rest
<1>4. CASE pipewrite(p)
  <2>1. TypeOK' /\ CallsAreHeld' /\ RingFits' /\ SleepersHaveReason'
    BY <1>2, <1>4, TypeWrite, HeldWrite, RingWrite, SleepWrite, Zenon
  <2>2. PICK k \in Nat : PutSome(p, k) /\ (PutDone(p, k) \/ PutGaveUp(p, k) \/ PutSleeps(p, k))
    BY <1>2, <1>4, WriteFacts
  <2>3. UNCHANGED <<ofile, ref, writable, page, readopen, writeopen, ff>>
    BY <2>2, Zenon DEF PutSome, tableVars
  <2>5. pc[p] = "write"
    BY <1>2, <1>4, WriteFacts DEF InCall
  <2>6. pc' = pc \/ pc' = [pc EXCEPT ![p] = "user"]
    BY <2>2, Zenon DEF PutDone, PutGaveUp, PutSleeps
  <2>7. \A q \in Proc : pc'[q] \in {"close", "exitclose"} <=> pc[q] \in {"close", "exitclose"}
    BY <1>2, <2>5, <2>6 DEF TypeOK
  <2>8. OnePipe'
    BY <1>2, <2>3, <2>7, OneSame
  <2>9. QED
    BY <2>1, <2>8, Zenon DEF Rest
<1>5. CASE piperead(p)
  <2>1. TypeOK' /\ CallsAreHeld' /\ RingFits' /\ SleepersHaveReason'
    BY <1>2, <1>5, TypeRead, HeldRead, RingRead, SleepRead, Zenon
  <2>2. UNCHANGED <<ofile, ref, writable, page, readopen, writeopen, ff>> /\ pc[p] = "read"
    BY <1>2, <1>5, ReadFacts DEF tableVars, InCall
  <2>4. pc' = pc \/ pc' = [pc EXCEPT ![p] = "user"] \/ pc' = [pc EXCEPT ![p] = "return"]
    BY <1>2, <1>5, ReadFacts DEF GetGaveUp, GetSleeps, GetSome
  <2>5. \A q \in Proc : pc'[q] \in {"close", "exitclose"} <=> pc[q] \in {"close", "exitclose"}
    BY <1>2, <2>2, <2>4 DEF TypeOK
  <2>6. OnePipe'
    BY <1>2, <2>2, <2>5, OneSame
  <2>7. QED
    BY <2>1, <2>6, Zenon DEF Rest
<1>6. CASE sys_pipe(p)
  <2>1. nread' = 0 /\ nwrite' = 0
    BY <1>6, Zenon DEF sys_pipe
  <2>2. TypeOK' /\ CallsAreHeld' /\ OnePipe' /\ SleepersHaveReason'
    BY <1>2, <1>6, TypePipe, HeldPipe, OnePipeMade, SleepPipe, Zenon
  <2>3. QED
    BY <2>1, <2>2, EmptyRing, Zenon DEF Rest
<1>7. ASSUME NEW d \in Fd, sys_dup(p, d) PROVE Rest'
  <2>1. UNCHANGED <<page, nread, nwrite, readopen, writeopen, cut, state>>
    BY <1>7, Zenon DEF sys_dup, pipeVars, procVars
  <2>2. TypeOK' /\ CallsAreHeld' /\ OnePipe'
    BY <1>2, <1>7, TypeOther, HeldDup, OneDup, Zenon
  <2>3. RingFits' /\ SleepersHaveReason'
    BY <1>2, <2>1, SleepSame DEF RingFits, Count
  <2>4. QED
    BY <2>2, <2>3, Zenon DEF Rest
<1>8. ASSUME NEW q \in Proc, fork(p, q) PROVE Rest'
  <2>1. UNCHANGED <<page, nread, nwrite, readopen, writeopen, cut>>
    BY <1>2, <1>8, ForkFacts
  <2>2. \A r \in Proc : state'[r] \in {"nread", "nwrite"} => state'[r] = state[r]
    BY <1>2, <1>8 DEF fork, TypeOK
  <2>3. TypeOK' /\ CallsAreHeld' /\ OnePipe'
    BY <1>2, <1>8, TypeOther, HeldFork, OneDup, ZenonT(40)
  <2>4. RingFits' /\ SleepersHaveReason'
    BY <1>2, <2>1, <2>2, SleepSame DEF RingFits, Count
  <2>5. QED
    BY <2>3, <2>4, Zenon DEF Rest
<1>9. ASSUME NEW q \in Proc, kill(p, q) PROVE Rest'
  <2>1. UNCHANGED <<tableVars, pipeVars, ff, cut, pc>>
    BY <1>9, Zenon DEF kill, callVars
  <2>2. \A r \in Proc : state'[r] \in {"nread", "nwrite"} => state'[r] = state[r]
    BY <1>2, <1>9 DEF kill, TypeOK
  <2>3. TypeOK' /\ CallsAreHeld'
    BY <1>2, <1>9, TypeOther, HeldFork, Zenon
  <2>4. QED
    BY <2>1, <2>2, <2>3, QuietStep
<1>10. CASE \/ ReadReturn(p) \/ ExitDone(p) \/ ExitCall(p)
            \/ \E d \in Fd : \/ \E s \in Writes : WriteCall(p, d, s)
                             \/ \E m \in 1..MAXREAD : ReadCall(p, d, m)
  <2>1. UNCHANGED <<tableVars, pipeVars, ff, cut>>
    BY <1>10 DEF ReadReturn, ExitDone, ExitCall, WriteCall, ReadCall
  <2>2. pc[p] \in {"user", "return", "exit"}
    BY <1>10, Zenon DEF ReadReturn, ExitDone, ExitCall, WriteCall, ReadCall, InCall, InUser
  <2>3. \E there \in {"user", "exit", "write", "read"} : pc' = [pc EXCEPT ![p] = there]
    BY <1>10, Zenon DEF ReadReturn, ExitDone, ExitCall, WriteCall, ReadCall
  <2>4. \A q \in Proc : pc'[q] \in {"close", "exitclose"} <=> pc[q] \in {"close", "exitclose"}
    BY <1>2, <2>2, <2>3 DEF TypeOK
  <2>5. state' = state \/ state' = [state EXCEPT ![p] = "UNUSED"]
    BY <1>10, Zenon DEF ReadReturn, ExitDone, ExitCall, WriteCall, ReadCall, procVars
  <2>6. \A r \in Proc : state'[r] \in {"nread", "nwrite"} => state'[r] = state[r]
    BY <1>2, <2>5, Zenon DEF TypeOK
  <2>7. CallsAreHeld'
    BY <1>2, <1>10, HeldOther, Zenon
  <2>8. TypeOK'
    BY <1>2, <1>10, TypeOther, Zenon
  <2>9. QED
    BY <2>1, <2>4, <2>6, <2>7, <2>8, QuietStep, ZenonT(40)
<1>11. QED
  BY <1>1, <1>3, <1>4, <1>5, <1>6, <1>7, <1>8, <1>9, <1>10, StepClose, Zenon DEF Kernel

(* They hold at the start: the First process runs, with an empty *)
(* table.                                                                  *)
LEMMA InitRest ==
  ASSUME Init
  PROVE  Rest
<1>1. TypeOK
  <2>1. 0 \in 0..(UINT - 1) /\ 0 \in 0..MAXREAD /\ 0 \in Int
    BY Constants
  <2>2. <<>> \in Seq(Byte)
    OBVIOUS
  <2>3. /\ ofile \in [Proc -> [Fd -> File \cup {None}]] /\ ref \in [File -> Int]
        /\ writable \in [File -> BOOLEAN]
    BY <2>1, Zenon DEF Init
  <2>4. page \in BOOLEAN /\ readopen \in BOOLEAN /\ writeopen \in BOOLEAN /\ cut \in BOOLEAN
    BY Zenon DEF Init
  <2>5. data \in [0..(PIPESIZE - 1) -> Byte \cup {None}]
    BY Zenon DEF Init, Junk
  <2>6. nread \in 0..(UINT - 1) /\ nwrite \in 0..(UINT - 1) /\ n \in [Proc -> 0..MAXREAD]
    BY <2>1, Zenon DEF Init
  <2>7. /\ state \in [Proc -> {"UNUSED", "RUNNING", "nread", "nwrite"}]
        /\ killed \in [Proc -> BOOLEAN] /\ pc \in [Proc -> Place] /\ ff \in [Proc -> BOOLEAN]
    BY Zenon DEF Init, Place
  <2>8. out \in [Proc -> Seq(Byte)]
    BY <2>2, Zenon DEF Init
  <2>9. QED
    BY <2>3, <2>4, <2>5, <2>6, <2>7, <2>8 DEF TypeOK
<1>3. CallsAreHeld
  BY Zenon DEF Init, CallsAreHeld, Held
<1>4. OnePipe
  <2>1. \A w : Open(w) = {} /\ Closing(w) = {}
    BY EndDefs DEF Init
  <2>2. /\ ~page /\ ~readopen /\ ~writeopen
        /\ \A f, g \in File : ref[f] > 0 /\ ref[g] > 0 /\ writable[f] = writable[g] => f = g
    BY DEF Init
  <2>3. QED
    BY <2>1, <2>2, Zenon DEF OnePipe
<1>5. RingFits
  <2>1. nread = 0 /\ nwrite = 0
    BY Zenon DEF Init
  <2>2. 0 - 0 = 0 /\ 0 \in Nat /\ UINT \in Nat /\ 0 < UINT /\ 0 <= PIPESIZE
    BY Constants
  <2>3. 0 % UINT = 0
    BY <2>2, ModSmall
  <2>4. Count = 0
    BY <2>1, <2>2, <2>3 DEF Count
  <2>5. QED
    BY <2>1, <2>2, <2>4, Zenon DEF RingFits
<1>6. SleepersHaveReason
  BY Zenon DEF Init, SleepersHaveReason
<1>7. QED
  BY <1>1, <1>3, <1>4, <1>5, <1>6 DEF Rest

(* Steps that change nothing. *)
LEMMA StutterRest ==
  ASSUME Rest, CountsTell, UNCHANGED vars
  PROVE  Rest'
<1>1. /\ UNCHANGED <<tableVars, pipeVars, ff, cut, pc>>
      /\ UNCHANGED <<state, killed, out, n>>
  BY Zenon DEF vars, procVars, callVars
<1>2. UNCHANGED <<ofile, ref, writable, page, data, nread, nwrite, readopen, writeopen>>
  BY <1>1, Zenon DEF tableVars, pipeVars
<1>3. TypeOK'
  BY <1>1, <1>2, ZenonT(40) DEF Rest, TypeOK
<1>4. CallsAreHeld'
  BY <1>1, <1>2 DEF Rest, CallsAreHeld, Held
<1>5. QED
  BY <1>1, <1>3, <1>4, QuietStep

-----------------------------------------------------------------------------
(* A pipe implements ByteStream. *)

(* A remainder for a multiple of the modulus leaves the same remainder. *)
LEMMA ModMod ==
  ASSUME NEW a \in Int, NEW m \in Nat, m > 0, NEW u \in Nat, u > 0, u % m = 0
  PROVE  (a % u) % m = a % m
<1>1. PICK c \in Int : u = c * m
  <2>1. PICK c \in Int : u = c * m + (u % m)
    BY DivMod
  <2>2. QED
    BY <2>1
<1>2. PICK q \in Int : a % u = a + q * u
  BY ModOf, Zenon
<1>3. a % u = a + (q * c) * m
  BY <1>1, <1>2
<1>4. q * c \in Int
  OBVIOUS
<1>5. (a + (q * c) * m) % m = a % m
  BY <1>4, ModShift, Zenon
<1>6. QED
  BY <1>3, <1>5, Zenon

(* The slot of a byte, counted from nread. *)
LEMMA SlotIs ==
  ASSUME TypeOK, RingFits, NEW i \in Int
  PROVE  slot(i) = (nread + (Count + i) - 1) % PIPESIZE
<1>1. nread \in Int /\ nwrite \in Int /\ nwrite - nread \in Int /\ Count \in Int
  BY CountRange, Constants DEF TypeOK
<1>2. PICK c \in Int : nwrite - nread = c * UINT + Count
  BY <1>1, DivMod, Constants, Zenon DEF Count
<1>3. PICK e \in Int : UINT = e * PIPESIZE
  <2>1. UINT \in Int /\ PIPESIZE \in Nat /\ PIPESIZE > 0 /\ UINT % PIPESIZE = 0
    BY Constants
  <2>2. PICK e \in Int : UINT = e * PIPESIZE + (UINT % PIPESIZE)
    BY <2>1, DivMod, Zenon
  <2>3. QED
    BY <2>1, <2>2
<1>4. nwrite = nread + Count + (c * e) * PIPESIZE
  <2>1. c * UINT = (c * e) * PIPESIZE
    BY <1>3, Constants
  <2>2. \A x \in Int : nwrite - nread = x + Count => nwrite = nread + Count + x
    BY <1>1
  <2>3. (c * e) * PIPESIZE \in Int
    BY Constants
  <2>4. QED
    BY <1>2, <2>1, <2>2, <2>3, Zenon
<1>5. nwrite + i - 1 = (nread + (Count + i) - 1) + (c * e) * PIPESIZE
  <2>1. \A x \in Int : nwrite = nread + Count + x
                         => nwrite + i - 1 = (nread + (Count + i) - 1) + x
    BY <1>1
  <2>2. (c * e) * PIPESIZE \in Int
    BY Constants
  <2>3. QED
    BY <1>4, <2>1, <2>2, Zenon
<1>6. nread + (Count + i) - 1 \in Int /\ c * e \in Int /\ PIPESIZE \in Nat /\ PIPESIZE > 0
  BY <1>1, Constants
<1>7. ((nread + (Count + i) - 1) + (c * e) * PIPESIZE) % PIPESIZE = (nread + (Count + i) - 1) % PIPESIZE
  BY <1>6, ModShift, Zenon
<1>8. QED
  BY <1>5, <1>7, Zenon DEF slot

(* Bytes less than PIPESIZE apart have different slots. *)
LEMMA SlotApart ==
  ASSUME TypeOK, NEW a \in Int, NEW b \in Int, a - b < PIPESIZE, b - a < PIPESIZE,
         (nread + a - 1) % PIPESIZE = (nread + b - 1) % PIPESIZE
  PROVE  a = b
<1>1. /\ nread \in Int /\ nread + a - 1 \in Int /\ nread + b - 1 \in Int
      /\ (nread + a - 1) - (nread + b - 1) < PIPESIZE
      /\ (nread + b - 1) - (nread + a - 1) < PIPESIZE
      /\ PIPESIZE \in Nat /\ PIPESIZE > 0
  BY Constants DEF TypeOK
<1>2. nread + a - 1 = nread + b - 1
  BY <1>1, ModSame, Zenon
<1>3. QED
  BY <1>1, <1>2

(* Slots are indices of data. *)
LEMMA SlotRange ==
  ASSUME NEW a \in Int
  PROVE  a % PIPESIZE \in 0..(PIPESIZE - 1)
BY ModRange, Constants

(* Queue is a sequence as long as Count. *)
LEMMA QueueSeq ==
  ASSUME TypeOK, RingFits
  PROVE  /\ Queue \in Seq(Byte \cup {None}) /\ Len(Queue) = Count
         /\ \A i \in 1..Count : Queue[i] = data[(nread + i - 1) % PIPESIZE]
<1>1. Count \in Nat /\ nread \in Int
  BY CountRange, Constants DEF TypeOK
<1>2. ASSUME NEW i \in 1..Count PROVE data[(nread + i - 1) % PIPESIZE] \in Byte \cup {None}
  <2>1. nread + i - 1 \in Int
    BY <1>1
  <2>2. (nread + i - 1) % PIPESIZE \in 0..(PIPESIZE - 1)
    BY <2>1, SlotRange, Zenon
  <2>3. QED
    BY <2>2, Zenon DEF TypeOK
<1>3. Queue \in [1..Count -> Byte \cup {None}]
  BY <1>2, Zenon DEF Queue
<1>4. \A i \in 1..Count : Queue[i] = data[(nread + i - 1) % PIPESIZE]
  BY Zenon DEF Queue
<1>5. QED
  BY <1>1, <1>3, <1>4

(* pipewrite does not overwrite a byte that is to be read ... *)
LEMMA PutKeeps ==
  ASSUME TypeOK, RingFits, NEW p \in Proc, NEW k \in Nat, PutSome(p, k), NEW i \in 1..Count
  PROVE  data'[(nread + i - 1) % PIPESIZE] = data[(nread + i - 1) % PIPESIZE]
<1>1. Count \in Nat /\ nread \in Int /\ Room = PIPESIZE - Count /\ k <= Room
  <2>1. k <= Room
    BY Zenon DEF PutSome
  <2>2. nread \in Int
    BY Constants DEF TypeOK
  <2>3. QED
    BY <2>1, <2>2, CountRange, Zenon
<1>2. PICK j \in 0..(PIPESIZE - 1) : j = (nread + i - 1) % PIPESIZE
  <2>1. nread + i - 1 \in Int
    BY <1>1
  <2>2. QED
    BY <2>1, SlotRange, Zenon
<1>3. ASSUME NEW h \in 1..k, slot(h) = j PROVE FALSE
  <2>1. /\ h \in Int /\ i \in Int /\ Count + h \in Int
        /\ (Count + h) - i < PIPESIZE /\ i - (Count + h) < PIPESIZE /\ Count + h # i
    BY <1>1, Constants
  <2>2. (nread + (Count + h) - 1) % PIPESIZE = (nread + i - 1) % PIPESIZE
    BY <1>2, <1>3, <2>1, SlotIs, Zenon
  <2>3. QED
    BY <2>1, <2>2, SlotApart, Zenon
<1>4. j \in DOMAIN data
  BY Zenon DEF TypeOK
<1>5. data'[j] = data[j]
  BY <1>3, <1>4, Zenon DEF PutSome
<1>6. QED
  BY <1>2, <1>5

(* ... and puts its own bytes behind them. *)
LEMMA PutAppends ==
  ASSUME TypeOK, RingFits, NEW p \in Proc, NEW k \in Nat, PutSome(p, k), NEW h \in 1..k
  PROVE  data'[(nread + (Count + h) - 1) % PIPESIZE] = out[p][h]
<1>1. Count \in Nat /\ nread \in Int /\ Room = PIPESIZE - Count /\ k <= Room /\ h \in Int
  <2>1. k <= Room
    BY Zenon DEF PutSome
  <2>2. nread \in Int /\ h \in Int
    BY Constants DEF TypeOK
  <2>3. QED
    BY <2>1, <2>2, CountRange, Zenon
<1>2. PICK j \in 0..(PIPESIZE - 1) : j = (nread + (Count + h) - 1) % PIPESIZE
  <2>1. nread + (Count + h) - 1 \in Int
    BY <1>1
  <2>2. QED
    BY <2>1, SlotRange, Zenon
<1>3. slot(h) = j
  BY <1>1, <1>2, SlotIs, Zenon
<1>4. ASSUME NEW g \in 1..k, slot(g) = j PROVE g = h
  <2>1. /\ g \in Int /\ Count + h \in Int /\ Count + g \in Int
        /\ (Count + h) - (Count + g) < PIPESIZE /\ (Count + g) - (Count + h) < PIPESIZE
    BY <1>1, Constants
  <2>2. (nread + (Count + g) - 1) % PIPESIZE = (nread + (Count + h) - 1) % PIPESIZE
    BY <1>2, <1>4, <2>1, SlotIs, Zenon
  <2>3. Count + g = Count + h
    BY <2>1, <2>2, SlotApart, Zenon
  <2>4. QED
    BY <1>1, <2>1, <2>3
<1>5. (CHOOSE g \in 1..k : slot(g) = j) = h
  BY <1>3, <1>4, Zenon
<1>6. j \in DOMAIN data
  BY Zenon DEF TypeOK
<1>7. data'[j] = out[p][CHOOSE g \in 1..k : slot(g) = j]
  BY <1>3, <1>6, Zenon DEF PutSome
<1>8. QED
  BY <1>2, <1>5, <1>7, Zenon

(* So a write appends to the queue ... *)
LEMMA QueuePut ==
  ASSUME TypeOK, RingFits, NEW p \in Proc, NEW k \in Nat, PutSome(p, k)
  PROVE  Queue' = Queue \o SubSeq(out[p], 1, k)
<1>1. out[p] \in Seq(Byte) /\ k \in 0..Len(out[p]) /\ k <= Room /\ nread' = nread
      /\ nwrite' = (nwrite + k) % UINT
  BY Zenon DEF TypeOK, PutSome
<1>2. Count' = Count + k /\ Count \in Nat
  BY <1>1, CountPut, CountRange
<1>3. Queue \in Seq(Byte \cup {None}) /\ Len(Queue) = Count
  BY QueueSeq, Zenon
<1>4. PICK s : s = SubSeq(out[p], 1, k)
  BY Zenon
<1>5. s \in Seq(Byte \cup {None}) /\ Len(s) = k /\ \A h \in 1..k : s[h] = out[p][h]
  BY <1>1, <1>4
<1>6. /\ Queue \o s \in Seq(Byte \cup {None}) /\ Len(Queue \o s) = Count + k
      /\ \A i \in 1..Count : (Queue \o s)[i] = Queue[i]
      /\ \A i \in (Count + 1)..(Count + k) : (Queue \o s)[i] = s[i - Count]
  BY <1>2, <1>3, <1>5
<1>7. Queue' = [i \in 1..(Count + k) |-> data'[(nread + i - 1) % PIPESIZE]]
  BY <1>1, <1>2, Zenon DEF Queue
<1>8. ASSUME NEW i \in 1..(Count + k)
      PROVE  data'[(nread + i - 1) % PIPESIZE] = (Queue \o s)[i]
  <2>1. CASE i <= Count
    <3>1. i \in 1..Count
      BY <1>2, <2>1
    <3>2. Queue[i] = data[(nread + i - 1) % PIPESIZE]
      BY <3>1, QueueSeq, Zenon
    <3>3. data'[(nread + i - 1) % PIPESIZE] = data[(nread + i - 1) % PIPESIZE]
      BY <3>1, PutKeeps, Zenon
    <3>4. QED
      BY <1>6, <3>1, <3>2, <3>3, Zenon
  <2>2. CASE i > Count
    <3>1. PICK h \in 1..k : i = Count + h
      BY <1>2, <2>2
    <3>2. data'[(nread + (Count + h) - 1) % PIPESIZE] = out[p][h]
      BY PutAppends, Zenon
    <3>3. (Queue \o s)[i] = s[h]
      <4>1. i \in (Count + 1)..(Count + k) /\ i - Count = h
        BY <1>2, <2>2, <3>1
      <4>2. QED
        BY <1>6, <4>1, Zenon
    <3>4. QED
      BY <1>5, <3>1, <3>2, <3>3, Zenon
  <2>3. i <= Count \/ i > Count
    BY <1>2
  <2>4. QED
    BY <2>1, <2>2, <2>3, Zenon
<1>9. Queue \o s = [i \in 1..(Count + k) |-> (Queue \o s)[i]]
  <2>1. \A t \in Seq(Byte \cup {None}) : t = [i \in 1..Len(t) |-> t[i]]
    OBVIOUS
  <2>2. QED
    BY <1>6, <2>1, Zenon
<1>10. Queue' = Queue \o s
  BY <1>7, <1>8, <1>9, Zenon
<1>11. QED
  BY <1>4, <1>10

(* ... and a read takes its front. *)
LEMMA QueueGet ==
  ASSUME TypeOK, RingFits, NEW p \in Proc, NEW k \in Nat, GetSome(p, k),
         UNCHANGED <<nwrite, data>>
  PROVE  /\ got' = [got EXCEPT ![p] = SubSeq(Queue, 1, k)]
         /\ Queue' = SubSeq(Queue, k + 1, Len(Queue))
<1>1. /\ k <= Count /\ nread' = (nread + k) % UINT
      /\ got' = [got EXCEPT ![p] = [i \in 1..k |-> data[(nread + i - 1) % PIPESIZE]]]
  BY Zenon DEF GetSome
<1>2. Count' = Count - k /\ Count \in Nat /\ nread \in Int /\ nread + k \in Int
  <2>1. Count' = Count - k
    BY <1>1, CountGet
  <2>2. Count \in Nat
    BY CountRange
  <2>3. nread \in Int /\ nread + k \in Int
    BY Constants DEF TypeOK
  <2>4. QED
    BY <2>1, <2>2, <2>3
<1>3. /\ Queue \in Seq(Byte \cup {None}) /\ Len(Queue) = Count /\ k \in 0..Len(Queue)
      /\ \A i \in 1..Count : Queue[i] = data[(nread + i - 1) % PIPESIZE]
  BY <1>1, <1>2, QueueSeq
<1>4. /\ SubSeq(Queue, 1, k) = [i \in 1..k |-> Queue[i]]
      /\ SubSeq(Queue, k + 1, Len(Queue)) = [i \in 1..(Count - k) |-> Queue[i + k]]
  BY <1>3, SubSeqFacts
<1>5. [i \in 1..k |-> Queue[i]] = [i \in 1..k |-> data[(nread + i - 1) % PIPESIZE]]
  <2>1. \A i \in 1..k : i \in 1..Count
    BY <1>1, <1>2
  <2>2. \A i \in 1..k : Queue[i] = data[(nread + i - 1) % PIPESIZE]
    BY <1>3, <2>1, Zenon
  <2>3. QED
    BY <2>2, Zenon
<1>6. ASSUME NEW i \in 1..(Count - k)
      PROVE  data[(nread' + i - 1) % PIPESIZE] = Queue[i + k]
  <2>1. i + k \in 1..Count /\ i - 1 \in Int /\ (nread + k) + (i - 1) \in Int
    BY <1>1, <1>2
  <2>2. ((nread + k) % UINT) \in Int
    BY <1>2, ModRange, Constants
  <2>3. nread' + i - 1 = ((nread + k) % UINT) + (i - 1)
    BY <1>1, <2>2, Zenon
  <2>4. /\ UINT \in Nat /\ UINT > 0 /\ PIPESIZE \in Nat /\ PIPESIZE > 0 /\ UINT % PIPESIZE = 0
    BY Constants, Zenon
  <2>5. (((nread + k) % UINT) + (i - 1)) % PIPESIZE = ((nread + k) + (i - 1)) % PIPESIZE
    <3>1. ((nread + k) % UINT) % PIPESIZE = (nread + k) % PIPESIZE
      BY <1>2, <2>4, ModMod, Zenon
    <3>2. ((((nread + k) % UINT) % PIPESIZE) + (i - 1)) % PIPESIZE
            = (((nread + k) % UINT) + (i - 1)) % PIPESIZE
      BY <2>1, <2>2, <2>4, ModSum, Zenon
    <3>3. (((nread + k) % PIPESIZE) + (i - 1)) % PIPESIZE = ((nread + k) + (i - 1)) % PIPESIZE
      BY <1>2, <2>1, <2>4, ModSum, Zenon
    <3>4. QED
      BY <3>1, <3>2, <3>3, Zenon
  <2>6. (nread + k) + (i - 1) = nread + (i + k) - 1
    BY <1>2
  <2>7. QED
    BY <1>3, <2>1, <2>3, <2>5, <2>6, Zenon
<1>7. Queue' = SubSeq(Queue, k + 1, Len(Queue))
  <2>1. Queue' = [i \in 1..(Count - k) |-> data[(nread' + i - 1) % PIPESIZE]]
    BY <1>2, Zenon DEF Queue
  <2>2. QED
    BY <1>4, <1>6, <2>1, Zenon
<1>8. QED
  BY <1>1, <1>4, <1>5, <1>7, Zenon

(* A step that a user of the stream does not see. *)
bsUnchanged == UNCHANGED <<Queue, out, got, writeopen>>

(* pipewrite is part of a write of the stream. *)
LEMMA WriteRefines ==
  ASSUME TypeOK, RingFits, NEW p \in Proc, pipewrite(p)
  PROVE  BS!BSPut(p)
<1>1. PICK k \in Nat : PutSome(p, k) /\ (PutDone(p, k) \/ PutGaveUp(p, k) \/ PutSleeps(p, k))
  BY WriteFacts
<1>2. /\ out[p] \in Seq(Byte) /\ k \in 0..Len(out[p]) /\ k <= Room /\ (k < Len(out[p]) => k = Room)
      /\ UNCHANGED <<got, writeopen>>
  BY <1>1 DEF TypeOK, PutSome
<1>3. Queue' = Queue \o SubSeq(out[p], 1, k)
  BY <1>1, QueuePut
<1>4. Len(Queue) = Count /\ Room = PIPESIZE - Count /\ Count \in Nat
  BY QueueSeq, CountRange
<1>5. Len(Queue) + k <= PIPESIZE /\ (k < Len(out[p]) => Len(Queue) + k = PIPESIZE)
  BY <1>2, <1>4, Constants
<1>6. \/ out' = [out EXCEPT ![p] = SubSeq(@, k + 1, Len(@))]
      \/ out' = [out EXCEPT ![p] = <<>>] /\ Len(Queue) + k = PIPESIZE
  <2>1. CASE PutDone(p, k)
    <3>1. SubSeq(out[p], k + 1, Len(out[p])) = <<>>
      BY <1>2, <2>1, SubSeqFacts, Zenon DEF PutDone
    <3>2. QED
      BY <2>1, <3>1, Zenon DEF PutDone
  <2>2. CASE PutGaveUp(p, k)
    BY <1>5, <2>2, Zenon DEF PutGaveUp
  <2>3. CASE PutSleeps(p, k)
    BY <2>3, Zenon DEF PutSleeps
  <2>4. QED
    BY <1>1, <2>1, <2>2, <2>3
<1>7. QED
  BY <1>2, <1>3, <1>5, <1>6, Zenon DEF BS!BSPut

(* piperead takes bytes, finds the end of the stream, or is not seen. *)
LEMMA ReadRefines ==
  ASSUME TypeOK, RingFits, CallsAreHeld, NEW p \in Proc, piperead(p)
  PROVE  BS!BSGet(p) \/ BS!BSEnd(p) \/ bsUnchanged
<1>1. UNCHANGED <<data, nwrite, writeopen, out>>
  BY ReadFacts
<1>2. GetGaveUp(p) \/ GetSleeps(p) \/ \E k \in Nat : GetSome(p, k)
  BY ReadFacts
<1>3. CASE GetGaveUp(p) \/ GetSleeps(p)
  <2>1. UNCHANGED <<nread, got>>
    BY <1>3, Zenon DEF GetGaveUp, GetSleeps
  <2>2. Queue' = Queue
    BY <1>1, <2>1, Zenon DEF Queue, Count
  <2>3. QED
    BY <1>1, <2>1, <2>2 DEF bsUnchanged
<1>4. ASSUME NEW k \in Nat, GetSome(p, k) PROVE BS!BSGet(p) \/ BS!BSEnd(p)
  <2>1. /\ got' = [got EXCEPT ![p] = SubSeq(Queue, 1, k)]
        /\ Queue' = SubSeq(Queue, k + 1, Len(Queue))
    BY <1>1, <1>4, QueueGet, ZenonT(40)
  <2>2. /\ Queue \in Seq(Byte \cup {None}) /\ Len(Queue) = Count /\ Count \in Nat /\ k <= Count
        /\ k = 0 => Count = 0 /\ ~writeopen
    BY <1>4, QueueSeq, CountRange DEF GetSome
  <2>3. CASE k > 0
    <3>1. k \in 1..Len(Queue)
      BY <2>2, <2>3
    <3>2. QED
      BY <1>1, <2>1, <3>1, Zenon DEF BS!BSGet
  <2>4. CASE k = 0
    <3>1. Queue = <<>> /\ ~writeopen
      BY <2>2, <2>4
    <3>2. 0 \in 0..Len(Queue)
      BY <2>2
    <3>3. SubSeq(Queue, 1, 0) = <<>> /\ SubSeq(Queue, 0 + 1, Len(Queue)) = <<>>
      BY <2>2, <2>4
    <3>4. got' = [got EXCEPT ![p] = <<>>] /\ Queue' = Queue
      BY <2>1, <2>4, <3>1, <3>3, Zenon
    <3>5. QED
      BY <1>1, <3>1, <3>4, Zenon DEF BS!BSEnd
  <2>5. QED
    BY <2>3, <2>4
<1>5. QED
  BY <1>2, <1>3, <1>4

(* write starts a write of the stream. *)
LEMMA WriteCallRefines ==
  ASSUME Rest, CountsTell, NEW p \in Proc, NEW d \in Fd, NEW s \in Writes, WriteCall(p, d, s)
  PROVE  BS!BSWrite(p)
<1>1. /\ pc[p] = "user" /\ ofile[p][d] # None /\ writable[ofile[p][d]]
      /\ out' = [out EXCEPT ![p] = s] /\ UNCHANGED <<data, nread, nwrite, writeopen, got>>
  BY Zenon DEF WriteCall, pipeVars, InUser
<1>2. writeopen
  BY <1>1, InPipe DEF Rest
<1>3. out[p] = <<>>
  BY <1>1, Zenon DEF Rest, CallsAreHeld, Held
<1>4. Queue' = Queue
  BY <1>1, Zenon DEF Queue, Count
<1>5. out' = [out EXCEPT ![p] = out'[p]]
  BY <1>1, Zenon DEF Rest, TypeOK
<1>6. QED
  BY <1>1, <1>2, <1>3, <1>4, <1>5, Zenon DEF BS!BSWrite

(* pipeclose closes the stream when it closes its last end for writing, or *)
(* frees the page, and is not seen otherwise.                              *)
LEMMA PipecloseRefines ==
  ASSUME Rest, CountsTell, NEW p \in Proc, pipeclose(p)
  PROVE  BS!BSClose \/ bsUnchanged
<1>1. /\ UNCHANGED <<out, got>> /\ readopen' \in BOOLEAN /\ writeopen' \in BOOLEAN /\ ff[p] \in BOOLEAN
  BY PipecloseFacts, TypePipeclose, Zenon DEF Rest, TypeOK
<1>2. CASE ~readopen' /\ ~writeopen'
  <2>1. nread' = 0 /\ nwrite' = 0
    BY <1>2, PipecloseFacts, Zenon
  <2>2. 0 - 0 = 0 /\ 0 \in Nat /\ UINT \in Nat /\ 0 < UINT
    BY Constants
  <2>3. 0 % UINT = 0
    BY <2>2, ModSmall
  <2>4. Count' = 0
    BY <2>1, <2>2, <2>3 DEF Count
  <2>5. Queue' = <<>>
    <3>1. 1..0 = {}
      OBVIOUS
    <3>2. Queue' = [i \in {} |-> data'[(nread' + i - 1) % PIPESIZE]]
      BY <2>4, <3>1, Zenon DEF Queue
    <3>3. QED
      BY <3>2
  <2>6. writeopen' = FALSE
    BY <1>1, <1>2
  <2>7. QED
    BY <1>1, <2>5, <2>6, Zenon DEF BS!BSClose
<1>3. CASE readopen' \/ writeopen'
  <2>1. UNCHANGED <<data, nread, nwrite>>
    BY <1>3, PipecloseFacts, Zenon
  <2>2. Queue' = Queue
    BY <2>1, Zenon DEF Queue, Count
  <2>3. CASE ff[p]
    <3>1. writeopen' = FALSE
      BY <2>3, PipecloseFacts, Zenon
    <3>2. QED
      BY <1>1, <2>2, <3>1, Zenon DEF BS!BSClose
  <2>4. CASE ~ff[p]
    <3>1. writeopen' = writeopen
      BY <2>4, PipecloseFacts, Zenon
    <3>2. QED
      BY <1>1, <2>2, <3>1 DEF bsUnchanged
  <2>5. QED
    BY <1>1, <2>3, <2>4
<1>4. QED
  BY <1>1, <1>2, <1>3

(* The queue of an empty ring. *)
LEMMA EmptyQueue ==
  ASSUME TypeOK, RingFits, nread = nwrite
  PROVE  Queue = <<>>
<1>1. Count = 0
  BY CountRange, Zenon
<1>2. QED
  BY <1>1, QueueSeq

(* pipe opens the stream. *)
LEMMA PipeRefines ==
  ASSUME Rest, CountsTell, NEW p \in Proc, sys_pipe(p)
  PROVE  BS!BSOpen
<1>1. ~page /\ nread' = 0 /\ nwrite' = 0 /\ writeopen' = TRUE /\ UNCHANGED <<out, got>>
  BY Zenon DEF sys_pipe, callVars
<1>2. ~writeopen /\ nread = nwrite
  BY <1>1, NoPipe, Zenon DEF Rest, RingFits
<1>3. Queue = <<>>
  BY <1>2, EmptyQueue DEF Rest
<1>4. Queue' = <<>>
  <2>1. 0 - 0 = 0 /\ 0 \in Nat /\ UINT \in Nat /\ 0 < UINT /\ 1..0 = {}
    BY Constants
  <2>2. 0 % UINT = 0
    BY <2>1, ModSmall, Zenon
  <2>3. Count' = 0
    BY <1>1, <2>1, <2>2 DEF Count
  <2>4. Queue' = [i \in {} |-> data'[(nread' + i - 1) % PIPESIZE]]
    BY <2>1, <2>3, Zenon DEF Queue
  <2>5. QED
    BY <2>4
<1>5. QED
  BY <1>1, <1>2, <1>3, <1>4, Zenon DEF BS!BSOpen

(* Every step is one of the stream or is not seen. *)
LEMMA StepRefines ==
  ASSUME Rest, CountsTell, [Next]_vars
  PROVE  BS!BSNext \/ bsUnchanged
<1>1. CASE UNCHANGED vars
  <2>1. UNCHANGED <<data, nread, nwrite, out, got, writeopen>>
    BY <1>1, Zenon DEF vars, pipeVars, callVars
  <2>2. QED
    BY <2>1, Zenon DEF bsUnchanged, Queue, Count
<1>2. TypeOK /\ RingFits /\ CallsAreHeld
  BY Zenon DEF Rest
<1>3. ASSUME NEW p \in Proc, Kernel(p) PROVE BS!BSNext \/ bsUnchanged
  <2>1. CASE pipeclose(p)
    BY <2>1, PipecloseRefines, Zenon DEF BS!BSNext
  <2>2. CASE pipewrite(p)
    BY <1>2, <2>2, WriteRefines, Zenon DEF BS!BSNext
  <2>3. CASE piperead(p)
    BY <1>2, <2>3, ReadRefines, Zenon DEF BS!BSNext
  <2>4. CASE ReadReturn(p)
    <3>1. UNCHANGED <<data, nread, nwrite, out, writeopen>> /\ got' = [got EXCEPT ![p] = None]
      BY <2>4 DEF ReadReturn, pipeVars
    <3>2. BS!BSReturn(p)
      BY <3>1, Zenon DEF BS!BSReturn, Queue, Count
    <3>3. QED
      BY <3>2, Zenon DEF BS!BSNext
  <2>5. CASE (\E d \in Fd : ExitClose(p, d)) \/ ExitDone(p)
    <3>1. UNCHANGED <<data, nread, nwrite, out, got, writeopen>>
      BY <2>5, Zenon DEF ExitClose, Close, ExitDone, pipeVars
    <3>2. QED
      BY <3>1, Zenon DEF bsUnchanged, Queue, Count
  <2>6. QED
    BY <1>3, <2>1, <2>2, <2>3, <2>4, <2>5, Zenon DEF Kernel
<1>4. ASSUME NEW p \in Proc, sys_pipe(p) PROVE BS!BSNext
  BY <1>4, PipeRefines, Zenon DEF BS!BSNext
<1>5. ASSUME NEW p \in Proc, NEW d \in Fd, NEW s \in Writes, WriteCall(p, d, s) PROVE BS!BSNext
  BY <1>5, WriteCallRefines, Zenon DEF BS!BSNext
<1>6. ASSUME NEW p \in Proc,
             \/ ExitCall(p)
             \/ \E d \in Fd : \/ sys_dup(p, d) \/ sys_close(p, d)
                              \/ \E m \in 1..MAXREAD : ReadCall(p, d, m)
             \/ \E q \in Proc : fork(p, q) \/ kill(p, q)
      PROVE  bsUnchanged
  <2>1. UNCHANGED <<data, nread, nwrite, out, got, writeopen>>
    BY <1>6, Zenon
       DEF ExitCall, sys_dup, sys_close, Close, ReadCall, fork, kill, pipeVars, callVars
  <2>2. QED
    BY <2>1, Zenon DEF bsUnchanged, Queue, Count
<1>7. QED
  BY <1>1, <1>3, <1>4, <1>5, <1>6, Zenon DEF Next

-----------------------------------------------------------------------------
(* References stay counted. *)

(* T has the elements of S and, besides, descriptors D for process q. *)
Joins(S, T, q, D) == S \cap ({q} \X D) = {} /\ T = S \cup ({q} \X D)

(* What is used of the numbers of elements of sets; lemma Counting at the  *)
(* end of this part shows that it holds.                                   *)
SetsCount ==
  /\ \A S : S \subseteq Proc \X Fd => Cardinality(S) \in Nat /\ (Cardinality(S) = 0 <=> S = {})
  /\ \A D : D \subseteq Fd => Cardinality(D) \in Nat /\ (Cardinality(D) = 0 <=> D = {})
  /\ \A S, x : S \subseteq Proc \X Fd /\ x \notin S => Cardinality(S \cup {x}) = Cardinality(S) + 1
  /\ \A S, T, q, D : S \subseteq Proc \X Fd /\ q \in Proc /\ D \subseteq Fd /\ Joins(S, T, q, D)
                    => Cardinality(T) = Cardinality(S) + Cardinality(D)

(* The descriptors are an interval. *)
LEMMA FdInterval == 1 \in Int /\ NOFILE \in Int /\ Fd = 1 .. NOFILE
BY Constants DEF Fd

(* For the numbers of elements. *)
LEMMA ZeroPlusOne == 0 + 1 = 1
OBVIOUS

(* One more and one less. *)
LEMMA PlusMinus ==
  ASSUME NEW a \in Nat
  PROVE  (a + 1) - 1 = a
OBVIOUS

(* A product with 1, and a difference with 0. *)
LEMMA PlusOnce ==
  ASSUME NEW a \in Nat, NEW b \in Nat
  PROVE  a + 1 * b - 0 = a + b
OBVIOUS

(* The descriptors of a file. *)
LEMMA RefsDef ==
  ASSUME NEW f
  PROVE  /\ Refs(f) \subseteq Proc \X Fd
         /\ \A p \in Proc, d \in Fd : <<p, d>> \in Refs(f) <=> ofile[p][d] = f
BY Zenon DEF Refs

(* The same after a step. *)
LEMMA RefsDefNext ==
  ASSUME NEW f
  PROVE  /\ Refs(f)' \subseteq Proc \X Fd
         /\ \A p \in Proc, d \in Fd : <<p, d>> \in Refs(f)' <=> ofile'[p][d] = f
BY Zenon DEF Refs

(* The counts tell which files are in use. *)
LEMMA UsedFiles ==
  ASSUME SetsCount, RefsAreCounted
  PROVE  CountsTell
<1>1. ASSUME NEW f \in File
      PROVE  ref[f] \in Nat /\ (ref[f] > 0 <=> \E p \in Proc, d \in Fd : ofile[p][d] = f)
  <2>1. ref[f] = Cardinality(Refs(f)) /\ Cardinality(Refs(f)) \in Nat
        /\ (Cardinality(Refs(f)) = 0 <=> Refs(f) = {})
    BY RefsDef, Zenon DEF RefsAreCounted, SetsCount
  <2>2. Refs(f) # {} <=> \E p \in Proc, d \in Fd : ofile[p][d] = f
    <3>1. ASSUME NEW x \in Refs(f) PROVE \E p \in Proc, d \in Fd : ofile[p][d] = f
      <4>1. PICK p \in Proc, d \in Fd : x = <<p, d>>
        BY RefsDef
      <4>2. QED
        BY <4>1, RefsDef, ZenonT(40)
    <3>2. QED
      BY <3>1, RefsDef, Zenon
  <2>3. QED
    BY <2>1, <2>2
<1>2. ASSUME NEW p \in Proc, NEW f \in File
      PROVE  /\ Cardinality({d \in Fd : ofile[p][d] = f}) \in Nat
             /\ Cardinality({d \in Fd : ofile[p][d] = f}) = 0 <=> {d \in Fd : ofile[p][d] = f} = {}
  <2>1. PICK D : D = {d \in Fd : ofile[p][d] = f}
    BY Zenon
  <2>2. D \subseteq Fd
    BY <2>1
  <2>3. QED
    BY <2>1, <2>2, Zenon DEF SetsCount
<1>3. QED
  BY <1>1, <1>2, ZenonT(40) DEF CountsTell

(* The descriptors of a file are those of another when the tables agree. *)
LEMMA SameRefs ==
  ASSUME NEW f, \A q \in Proc, e \in Fd : ofile'[q][e] = f <=> ofile[q][e] = f
  PROVE  Refs(f)' = Refs(f)
<1>1. ASSUME NEW x PROVE x \in Refs(f)' <=> x \in Refs(f)
  <2>1. CASE x \in Proc \X Fd
    <3>1. PICK q \in Proc, e \in Fd : x = <<q, e>>
      BY <2>1
    <3>2. x \in Refs(f) <=> ofile[q][e] = f
      BY <3>1, RefsDef
    <3>3. x \in Refs(f)' <=> ofile'[q][e] = f
      BY <3>1, RefsDefNext
    <3>4. QED
      BY <3>2, <3>3, Zenon
  <2>2. CASE x \notin Proc \X Fd
    BY <2>2, RefsDef, RefsDefNext, Zenon
  <2>3. QED
    BY <2>1, <2>2, ZenonT(40)
<1>2. QED
  BY <1>1, Zenon

(* One descriptor more. *)
LEMMA OneMore ==
  ASSUME SetsCount, NEW S, NEW T, S \subseteq Proc \X Fd, NEW x, x \notin S, T = S \cup {x}
  PROVE  Cardinality(T) = Cardinality(S) + 1
BY Zenon DEF SetsCount

(* The descriptors D more, for process q. *)
LEMMA SomeMore ==
  ASSUME SetsCount, NEW S, NEW T, NEW q \in Proc, NEW D, S \subseteq Proc \X Fd, D \subseteq Fd,
         Joins(S, T, q, D)
  PROVE  Cardinality(T) = Cardinality(S) + Cardinality(D)
<1>1. \A A, B, r, E : A \subseteq Proc \X Fd /\ r \in Proc /\ E \subseteq Fd /\ Joins(A, B, r, E)
                    => Cardinality(B) = Cardinality(A) + Cardinality(E)
  BY Zenon DEF SetsCount
<1>2. QED
  BY <1>1, ZenonT(40)

(* Only descriptor q, e changes with respect to f. *)
OnlyAt(f, q, e) ==
  \A r \in Proc, c \in Fd : r # q \/ c # e => (ofile'[r][c] = f <=> ofile[r][c] = f)

(* One descriptor q, e more in the table. *)
LEMMA RefAdded ==
  ASSUME SetsCount, NEW f, NEW q \in Proc, NEW e \in Fd, ofile[q][e] # f, ofile'[q][e] = f,
         OnlyAt(f, q, e)
  PROVE  Cardinality(Refs(f)') = Cardinality(Refs(f)) + 1
<1>1. ASSUME NEW x PROVE x \in Refs(f)' <=> x \in Refs(f) \cup {<<q, e>>}
  <2>1. CASE x \in Proc \X Fd
    <3>1. PICK r \in Proc, c \in Fd : x = <<r, c>>
      BY <2>1
    <3>2. x = <<q, e>> <=> r = q /\ c = e
      BY <3>1, ZenonT(40)
    <3>3. x \in Refs(f) <=> ofile[r][c] = f
      BY <3>1, RefsDef
    <3>4. x \in Refs(f)' <=> ofile'[r][c] = f
      BY <3>1, RefsDefNext
    <3>5. r # q \/ c # e => (ofile'[r][c] = f <=> ofile[r][c] = f)
      BY ZenonT(40) DEF OnlyAt
    <3>6. QED
      BY <3>2, <3>3, <3>4, <3>5, ZenonT(40)
  <2>2. CASE x \notin Proc \X Fd
    <3>1. <<q, e>> \in Proc \X Fd
      BY Zenon
    <3>2. x # <<q, e>> /\ x \notin Refs(f) /\ x \notin Refs(f)'
      BY <2>2, <3>1, RefsDef, RefsDefNext, ZenonT(40)
    <3>3. QED
      BY <3>2, ZenonT(40)
  <2>3. QED
    BY <2>1, <2>2, ZenonT(40)
<1>2. Refs(f)' = Refs(f) \cup {<<q, e>>}
  BY <1>1, ZenonT(40)
<1>3. <<q, e>> \notin Refs(f)
  BY RefsDef, ZenonT(40)
<1>4. QED
  BY <1>2, <1>3, OneMore, RefsDef, ZenonT(40)

(* One descriptor q, e less. *)
LEMMA RefTaken ==
  ASSUME SetsCount, NEW f, NEW q \in Proc, NEW e \in Fd, ofile[q][e] = f, ofile'[q][e] # f,
         OnlyAt(f, q, e)
  PROVE  Cardinality(Refs(f)) = Cardinality(Refs(f)') + 1
<1>1. ASSUME NEW x PROVE x \in Refs(f) <=> x \in Refs(f)' \cup {<<q, e>>}
  <2>1. CASE x \in Proc \X Fd
    <3>1. PICK r \in Proc, c \in Fd : x = <<r, c>>
      BY <2>1
    <3>2. x = <<q, e>> <=> r = q /\ c = e
      BY <3>1, ZenonT(40)
    <3>3. x \in Refs(f) <=> ofile[r][c] = f
      BY <3>1, RefsDef
    <3>4. x \in Refs(f)' <=> ofile'[r][c] = f
      BY <3>1, RefsDefNext
    <3>5. r # q \/ c # e => (ofile'[r][c] = f <=> ofile[r][c] = f)
      BY ZenonT(40) DEF OnlyAt
    <3>6. QED
      BY <3>2, <3>3, <3>4, <3>5, ZenonT(40)
  <2>2. CASE x \notin Proc \X Fd
    <3>1. <<q, e>> \in Proc \X Fd
      BY Zenon
    <3>2. x # <<q, e>> /\ x \notin Refs(f) /\ x \notin Refs(f)'
      BY <2>2, <3>1, RefsDef, RefsDefNext, ZenonT(40)
    <3>3. QED
      BY <3>2, ZenonT(40)
  <2>3. QED
    BY <2>1, <2>2, ZenonT(40)
<1>2. Refs(f) = Refs(f)' \cup {<<q, e>>}
  BY <1>1, ZenonT(40)
<1>3. <<q, e>> \notin Refs(f)'
  BY RefsDefNext, ZenonT(40)
<1>4. QED
  BY <1>2, <1>3, OneMore, RefsDefNext, ZenonT(40)

(* The count of a new file. *)
LEMMA RefsOfNew ==
  ASSUME SetsCount, RefsAreCounted, NEW f \in File, ref[f] = 0
  PROVE  Cardinality(Refs(f)) = 0 /\ \A q \in Proc, e \in Fd : ofile[q][e] # f
<1>1. CountsTell
  BY UsedFiles, Zenon
<1>2. QED
  BY <1>1, NewFile, Zenon DEF RefsAreCounted

(* References are counted after pipe ... *)
LEMMA RefsPipe ==
  ASSUME SetsCount, TypeOK, RefsAreCounted, NEW p \in Proc, sys_pipe(p)
  PROVE  RefsAreCounted'
<1>1. PICK f0 \in File, f1 \in File, d0 \in Fd, d1 \in Fd :
        /\ f0 # f1 /\ d0 # d1 /\ ref[f0] = 0 /\ ref[f1] = 0
        /\ ofile[p][d0] = None /\ ofile[p][d1] = None
        /\ ofile'[p][d0] = f0 /\ ofile'[p][d1] = f1
        /\ \A q \in Proc, e \in Fd :
             q # p \/ (e # d0 /\ e # d1) => ofile'[q][e] = ofile[q][e]
        /\ ref'[f0] = 1 /\ ref'[f1] = 1
        /\ ~writable'[f0] /\ writable'[f1]
        /\ \A f \in File : f # f0 /\ f # f1 => ref'[f] = ref[f] /\ writable'[f] = writable[f]
  BY PipeFacts, ZenonT(30)
<1>2. ASSUME NEW f \in File PROVE ref'[f] = Cardinality(Refs(f)')
  <2>1. f # None
    BY Constants, ZenonT(40)
  <2>2. CASE f = f0
    <3>1. Cardinality(Refs(f)) = 0 /\ \A q \in Proc, e \in Fd : ofile[q][e] # f
      BY <1>1, <2>2, RefsOfNew, Zenon
    <3>2. OnlyAt(f, p, d0)
      BY <1>1, <2>2, <3>1, ZenonT(40) DEF OnlyAt
    <3>3. Cardinality(Refs(f)') = Cardinality(Refs(f)) + 1
      <4>1. ofile[p][d0] # f /\ ofile'[p][d0] = f
        BY <1>1, <2>2, <3>1, ZenonT(40)
      <4>2. QED
        BY <3>2, <4>1, RefAdded, ZenonT(40)
    <3>4. ref'[f] = 1
      BY <1>1, <2>2, Zenon
    <3>5. QED
      BY <3>1, <3>3, <3>4, ZeroPlusOne, ZenonT(40)
  <2>3. CASE f = f1
    <3>1. Cardinality(Refs(f)) = 0 /\ \A q \in Proc, e \in Fd : ofile[q][e] # f
      BY <1>1, <2>3, RefsOfNew, Zenon
    <3>2. OnlyAt(f, p, d1)
      BY <1>1, <2>3, <3>1, ZenonT(40) DEF OnlyAt
    <3>3. Cardinality(Refs(f)') = Cardinality(Refs(f)) + 1
      <4>1. ofile[p][d1] # f /\ ofile'[p][d1] = f
        BY <1>1, <2>3, <3>1, ZenonT(40)
      <4>2. QED
        BY <3>2, <4>1, RefAdded, ZenonT(40)
    <3>4. ref'[f] = 1
      BY <1>1, <2>3, Zenon
    <3>5. QED
      BY <3>1, <3>3, <3>4, ZeroPlusOne, ZenonT(40)
  <2>4. CASE f # f0 /\ f # f1
    <3>1. \A q \in Proc, e \in Fd : ofile'[q][e] = f <=> ofile[q][e] = f
      BY <1>1, <2>1, <2>4, ZenonT(40)
    <3>2. Refs(f)' = Refs(f)
      BY <3>1, SameRefs, ZenonT(40)
    <3>3. QED
      BY <1>1, <2>4, <3>2, ZenonT(40) DEF RefsAreCounted
  <2>5. QED
    BY <2>2, <2>3, <2>4, ZenonT(40)
<1>3. QED
  BY <1>2, Zenon DEF RefsAreCounted

(* ... after dup ... *)
LEMMA RefsDup ==
  ASSUME SetsCount, TypeOK, RefsAreCounted, NEW p \in Proc, NEW d \in Fd, sys_dup(p, d)
  PROVE  RefsAreCounted'
<1>1. PICK e \in Fd :
        /\ ofile[p][e] = None /\ ofile'[p][e] = ofile[p][d]
        /\ \A q \in Proc, c \in Fd : q # p \/ c # e => ofile'[q][c] = ofile[q][c]
  BY DupFacts, ZenonT(40)
<1>2. /\ ofile[p][d] \in File /\ ref'[ofile[p][d]] = ref[ofile[p][d]] + 1
      /\ \A f \in File : f # ofile[p][d] => ref'[f] = ref[f]
  BY DupFacts, ZenonT(40)
<1>3. ASSUME NEW f \in File PROVE ref'[f] = Cardinality(Refs(f)')
  <2>1. f # None /\ ref[f] = Cardinality(Refs(f))
    BY Constants, Zenon DEF RefsAreCounted
  <2>2. CASE f = ofile[p][d]
    <3>1. Cardinality(Refs(f)') = Cardinality(Refs(f)) + 1
      <4>1. ofile[p][e] # f /\ ofile'[p][e] = f
        BY <1>1, <2>1, <2>2, ZenonT(40)
      <4>2. OnlyAt(f, p, e)
        BY <1>1, ZenonT(40) DEF OnlyAt
      <4>3. QED
        BY <4>1, <4>2, RefAdded, ZenonT(40)
    <3>2. QED
      BY <1>2, <2>1, <2>2, <3>1, ZenonT(40)
  <2>3. CASE f # ofile[p][d]
    <3>1. \A q \in Proc, c \in Fd : ofile'[q][c] = f <=> ofile[q][c] = f
      BY <1>1, <2>1, <2>3, Zenon
    <3>2. Refs(f)' = Refs(f)
      BY <3>1, SameRefs, Zenon
    <3>3. QED
      BY <1>2, <2>1, <2>3, <3>2, ZenonT(40)
  <2>4. QED
    BY <2>2, <2>3, Zenon
<1>4. QED
  BY <1>3, Zenon DEF RefsAreCounted

(* ... after close ... *)
LEMMA RefsClose ==
  ASSUME SetsCount, TypeOK, RefsAreCounted, NEW p \in Proc, NEW d \in Fd, ofile[p][d] # None, NEW then,
         Close(p, d, then)
  PROVE  RefsAreCounted'
<1>1. /\ ofile[p][d] \in File /\ ofile'[p][d] = None
      /\ \A q \in Proc, e \in Fd : q # p \/ e # d => ofile'[q][e] = ofile[q][e]
      /\ ref'[ofile[p][d]] = ref[ofile[p][d]] - 1
      /\ \A f \in File : f # ofile[p][d] => ref'[f] = ref[f]
  BY CloseFacts, Zenon
<1>2. ASSUME NEW f \in File PROVE ref'[f] = Cardinality(Refs(f)')
  <2>1. f # None /\ ref[f] = Cardinality(Refs(f)) /\ Cardinality(Refs(f)') \in Nat
    BY Constants, RefsDefNext, Zenon DEF RefsAreCounted, SetsCount
  <2>2. CASE f = ofile[p][d]
    <3>1. Cardinality(Refs(f)) = Cardinality(Refs(f)') + 1
      <4>1. ofile[p][d] = f /\ ofile'[p][d] # f
        BY <1>1, <2>1, <2>2, ZenonT(40)
      <4>2. OnlyAt(f, p, d)
        BY <1>1, ZenonT(40) DEF OnlyAt
      <4>3. QED
        BY <4>1, <4>2, RefTaken, ZenonT(40)
    <3>2. ref'[f] = (Cardinality(Refs(f)') + 1) - 1
      BY <1>1, <2>1, <2>2, <3>1, ZenonT(40)
    <3>3. QED
      BY <2>1, <3>2, PlusMinus, ZenonT(40)
  <2>3. CASE f # ofile[p][d]
    <3>1. \A q \in Proc, e \in Fd : ofile'[q][e] = f <=> ofile[q][e] = f
      BY <1>1, <2>1, <2>3, ZenonT(40)
    <3>2. Refs(f)' = Refs(f)
      BY <3>1, SameRefs, ZenonT(40)
    <3>3. QED
      BY <1>1, <2>1, <2>3, <3>2, ZenonT(40)
  <2>4. QED
    BY <2>2, <2>3, Zenon
<1>3. QED
  BY <1>2, Zenon DEF RefsAreCounted

(* ... and after fork. *)
LEMMA RefsFork ==
  ASSUME SetsCount, TypeOK, RefsAreCounted, CallsAreHeld, NEW p \in Proc, NEW q \in Proc, fork(p, q)
  PROVE  RefsAreCounted'
<1>1. /\ p # q
      /\ \A e \in Fd : ofile[q][e] = None /\ ofile'[q][e] = ofile[p][e]
      /\ \A r \in Proc, e \in Fd : r # q => ofile'[r][e] = ofile[r][e]
      /\ \A f \in File : ref'[f] = ref[f] + Cardinality({d \in Fd : ofile[p][d] = f})
  BY ForkFacts, ZenonT(40)
<1>2. ASSUME NEW f \in File PROVE ref'[f] = Cardinality(Refs(f)')
  <2> DEFINE D == {d \in Fd : ofile[p][d] = f}
  <2>1. f # None /\ ref[f] = Cardinality(Refs(f)) /\ ref'[f] = ref[f] + Cardinality(D)
    BY <1>1, Constants, Zenon DEF RefsAreCounted
  <2>2. PICK E : E = D
    BY ZenonT(40)
  <2>3. \A e : e \in E <=> e \in Fd /\ ofile[p][e] = f
    BY <2>2, Zenon
  <2>4. ASSUME NEW x PROVE x \in Refs(f)' <=> x \in Refs(f) \cup ({q} \X E)
    <3>1. CASE x \in Proc \X Fd
      <4>1. PICK r \in Proc, c \in Fd : x = <<r, c>>
        BY <3>1
      <4>2. x \in {q} \X E <=> r = q /\ ofile[p][c] = f
        BY <4>1, <2>3, Zenon
      <4>3. x \in Refs(f)' <=> ofile'[r][c] = f
        BY <4>1, RefsDefNext, Zenon
      <4>4. x \in Refs(f) <=> ofile[r][c] = f
        BY <4>1, RefsDef, Zenon
      <4>5. CASE r = q
        <5>1. ofile[r][c] # f /\ ofile'[r][c] = ofile[p][c]
          BY <1>1, <2>1, <4>5, ZenonT(40)
        <5>2. QED
          BY <4>2, <4>3, <4>4, <4>5, <5>1, ZenonT(40)
      <4>6. CASE r # q
        <5>1. ofile'[r][c] = ofile[r][c]
          BY <1>1, <4>6, ZenonT(40)
        <5>2. QED
          BY <4>2, <4>3, <4>4, <4>6, <5>1, ZenonT(40)
      <4>7. QED
        BY <4>5, <4>6, Zenon
    <3>2. CASE x \notin Proc \X Fd
      <4>1. {q} \X E \subseteq Proc \X Fd
        BY <2>3, Zenon
      <4>2. QED
        BY <3>2, <4>1, RefsDef, RefsDefNext, ZenonT(40)
    <3>3. QED
      BY <3>1, <3>2, Zenon
  <2>5. Refs(f)' = Refs(f) \cup ({q} \X E)
    BY <2>4, Zenon
  <2>6. Refs(f) \cap ({q} \X E) = {}
    <3>1. SUFFICES ASSUME NEW x, x \in Refs(f), x \in {q} \X E PROVE FALSE
      BY Zenon
    <3>2. PICK e \in E : x = <<q, e>>
      BY <3>1, SMT
    <3>3. e \in Fd /\ ofile[q][e] = f
      BY <2>3, <3>1, <3>2, RefsDef, SMT
    <3>4. QED
      BY <1>1, <2>1, <3>3, Zenon
  <2>7. E \subseteq Fd
    BY <2>3, Zenon
  <2>8. Cardinality(Refs(f)') = Cardinality(Refs(f)) + Cardinality(E)
    <3>1. Joins(Refs(f), Refs(f)', q, E)
      BY <2>5, <2>6, Zenon DEF Joins
    <3>2. Refs(f) \subseteq Proc \X Fd
      BY RefsDef, Zenon
    <3>3. QED
      BY <2>7, <3>1, <3>2, SomeMore, ZenonT(40)
  <2>9. QED
    BY <2>1, <2>2, <2>8, Zenon
<1>3. QED
  BY <1>2, Zenon DEF RefsAreCounted

(* A step that leaves the tables alone. *)
LEMMA RefsSame ==
  ASSUME RefsAreCounted, UNCHANGED <<ofile, ref>>
  PROVE  RefsAreCounted'
BY Zenon DEF RefsAreCounted, Refs

(* References are counted after every step. *)
LEMMA RefsStep ==
  ASSUME SetsCount, PInv, [Next]_vars
  PROVE  RefsAreCounted'
<1>1. TypeOK /\ RefsAreCounted /\ CallsAreHeld
  BY Zenon DEF PInv, Rest
<1>2. ASSUME UNCHANGED <<ofile, ref>> PROVE RefsAreCounted'
  BY <1>1, <1>2, RefsSame, ZenonT(40)
<1>3. CASE UNCHANGED vars
  BY <1>2, <1>3, Zenon DEF vars, tableVars
<1>4. ASSUME NEW p \in Proc, Kernel(p) PROVE RefsAreCounted'
  <2>1. CASE \E d \in Fd : ExitClose(p, d)
    <3>1. PICK d \in Fd : ofile[p][d] # None /\ Close(p, d, "exitclose")
      BY <2>1, Zenon DEF ExitClose, IsFirst, FreeFd
    <3>2. QED
      BY <1>1, <3>1, RefsClose, ZenonT(40)
  <2>2. CASE pipeclose(p)
    BY <1>2, <2>2, PipecloseFacts, ZenonT(40)
  <2>3. CASE pipewrite(p) \/ piperead(p) \/ ReadReturn(p) \/ ExitDone(p)
    BY <1>2, <2>3, ZenonT(40) DEF pipewrite, piperead, ReadReturn, ExitDone, tableVars
  <2>4. QED
    BY <1>4, <2>1, <2>2, <2>3, ZenonT(40) DEF Kernel
<1>5. ASSUME NEW p \in Proc, NEW d \in Fd, sys_close(p, d) PROVE RefsAreCounted'
  <2>1. ofile[p][d] # None /\ Close(p, d, "close")
    BY <1>5, Zenon DEF sys_close
  <2>2. QED
    BY <1>1, <2>1, RefsClose, ZenonT(40)
<1>6. ASSUME NEW p \in Proc,
             \/ ExitCall(p)
             \/ \E d \in Fd : \/ \E s \in Writes : WriteCall(p, d, s)
                              \/ \E m \in 1..MAXREAD : ReadCall(p, d, m)
             \/ \E q \in Proc : kill(p, q)
      PROVE  RefsAreCounted'
  BY <1>2, <1>6, ZenonT(40) DEF ExitCall, WriteCall, ReadCall, kill, tableVars
<1>7. QED
  BY <1>1, <1>3, <1>4, <1>5, <1>6, RefsPipe, RefsDup, RefsFork, ZenonT(40) DEF Next

(* References are counted at the start. *)
LEMMA InitRefs ==
  ASSUME SetsCount, Init
  PROVE  RefsAreCounted
<1>1. ASSUME NEW f \in File PROVE ref[f] = Cardinality(Refs(f))
  <2>1. f # None
    BY Constants, Zenon
  <2>2. ASSUME NEW x \in Refs(f) PROVE FALSE
    <3>1. PICK q \in Proc, e \in Fd : x = <<q, e>>
      BY RefsDef
    <3>2. ofile[q][e] = f
      BY <3>1, RefsDef
    <3>3. QED
      BY <2>1, <3>2, Zenon DEF Init
  <2>3. Refs(f) = {}
    BY <2>2, Zenon
  <2>4. QED
    BY <2>3, RefsDef, Zenon DEF Init, SetsCount
<1>2. QED
  BY <1>1, Zenon DEF RefsAreCounted

-----------------------------------------------------------------------------
(* What is used of finite sets.  The library is instantiated here, not     *)
(* extended above, because only the proofs from here on count.             *)
F == INSTANCE FiniteSetTheorems

(* The instance counts as module FiniteSets does. *)
LEMMA SameCount ==
  /\ \A S : F!Cardinality(S) = Cardinality(S)
  /\ \A S : F!IsFiniteSet(S) <=> IsFiniteSet(S)
<1>1. \A S : F!Cardinality(S) = Cardinality(S)
  BY DEF F!Cardinality, Cardinality
<1>2. \A S : F!IsFiniteSet(S) <=> IsFiniteSet(S)
  BY DEF F!IsFiniteSet, IsFiniteSet
<1>3. QED
  BY <1>1, <1>2, Zenon

(* Intervals and single elements are finite, and so are products. *)
LEMMA FS_Interval ==
  ASSUME NEW a \in Int, NEW b \in Int
  PROVE  IsFiniteSet(a .. b)
BY F!FS_Interval, SameCount, Zenon

(* A set with one element. *)
LEMMA FS_Singleton ==
  ASSUME NEW x
  PROVE  IsFiniteSet({x}) /\ Cardinality({x}) = 1
BY F!FS_Singleton, SameCount, Zenon

(* The empty set is the one with no element. *)
LEMMA FS_EmptySet ==
  /\ IsFiniteSet({}) /\ Cardinality({}) = 0
  /\ \A S : IsFiniteSet(S) => (Cardinality(S) = 0 <=> S = {})
BY F!FS_EmptySet, SameCount, Zenon

(* A finite set has a natural number of elements. *)
LEMMA FS_CardinalityType ==
  ASSUME NEW S, IsFiniteSet(S)
  PROVE  Cardinality(S) \in Nat
BY F!FS_CardinalityType, SameCount, Zenon

(* Subsets of finite sets are finite. *)
LEMMA FS_Subset ==
  ASSUME NEW S, IsFiniteSet(S), NEW T \in SUBSET S
  PROVE  IsFiniteSet(T)
BY F!FS_Subset, SameCount, Zenon

(* An element more. *)
LEMMA FS_AddElement ==
  ASSUME NEW S, NEW x, IsFiniteSet(S)
  PROVE  /\ IsFiniteSet(S \cup {x})
         /\ Cardinality(S \cup {x}) =
              IF x \in S THEN Cardinality(S) ELSE Cardinality(S) + 1
BY F!FS_AddElement, SameCount, Zenon

(* The number of pairs. *)
LEMMA FS_Product ==
  ASSUME NEW S, IsFiniteSet(S), NEW T, IsFiniteSet(T)
  PROVE  IsFiniteSet(S \X T) /\ Cardinality(S \X T) = Cardinality(S) * Cardinality(T)
BY F!FS_Product, SameCount, Zenon

(* The number of elements of a union. *)
LEMMA FS_Union ==
  ASSUME NEW S, IsFiniteSet(S), NEW T, IsFiniteSet(T)
  PROVE  Cardinality(S \cup T) = Cardinality(S) + Cardinality(T) - Cardinality(S \cap T)
BY F!FS_Union, SameCount, ZenonT(40)

(* Sets of descriptors are finite. *)
LEMMA RefSets ==
  ASSUME NEW S, S \subseteq Proc \X Fd
  PROVE  /\ IsFiniteSet(S) /\ Cardinality(S) \in Nat
         /\ Cardinality(S) = 0 <=> S = {}
<1>1. IsFiniteSet(Fd)
  BY FdInterval, FS_Interval, ZenonT(40)
<1>2. IsFiniteSet(Proc \X Fd)
  BY <1>1, Constants, FS_Product, Zenon
<1>3. IsFiniteSet(S)
  BY <1>2, FS_Subset, Zenon
<1>4. QED
  BY <1>3, FS_CardinalityType, FS_EmptySet, ZenonT(40)

(* Sets of descriptors of one process are finite. *)
LEMMA FdSets ==
  ASSUME NEW D, D \subseteq Fd
  PROVE  IsFiniteSet(D) /\ Cardinality(D) \in Nat /\ (Cardinality(D) = 0 <=> D = {})
<1>1. IsFiniteSet(Fd)
  BY FdInterval, FS_Interval, ZenonT(40)
<1>2. QED
  BY <1>1, FS_Subset, FS_CardinalityType, FS_EmptySet, ZenonT(40)

(* The numbers of elements are what the proofs above use of them. *)
LEMMA Counting == SetsCount
<1>1. ASSUME NEW S, NEW x, S \subseteq Proc \X Fd, x \notin S
      PROVE  Cardinality(S \cup {x}) = Cardinality(S) + 1
  <2>1. IsFiniteSet(S)
    BY <1>1, RefSets, ZenonT(40)
  <2>2. QED
    BY <1>1, <2>1, FS_AddElement, ZenonT(40)
<1>2. ASSUME NEW S, NEW T, NEW q, NEW D, S \subseteq Proc \X Fd, q \in Proc, D \subseteq Fd,
             Joins(S, T, q, D)
      PROVE  Cardinality(T) = Cardinality(S) + Cardinality(D)
  <2>0. S \cap ({q} \X D) = {} /\ T = S \cup ({q} \X D)
    BY <1>2, ZenonT(40) DEF Joins
  <2>1. IsFiniteSet(S) /\ Cardinality(S) \in Nat /\ IsFiniteSet(D) /\ Cardinality(D) \in Nat
    BY <1>2, RefSets, FdSets, ZenonT(40)
  <2>2. IsFiniteSet({q}) /\ Cardinality({q}) = 1
    BY FS_Singleton, ZenonT(40)
  <2>3. IsFiniteSet({q} \X D) /\ Cardinality({q} \X D) = Cardinality({q}) * Cardinality(D)
    BY <2>1, <2>2, FS_Product, ZenonT(40)
  <2>4. Cardinality({q} \X D) = 1 * Cardinality(D)
    BY <2>2, <2>3, ZenonT(40)
  <2>5. Cardinality(S \cup ({q} \X D))
          = Cardinality(S) + Cardinality({q} \X D) - Cardinality(S \cap ({q} \X D))
    BY <2>1, <2>3, FS_Union, ZenonT(40)
  <2>6. Cardinality(S \cap ({q} \X D)) = 0
    BY <2>0, FS_EmptySet, ZenonT(40)
  <2>7. Cardinality(S \cup ({q} \X D)) = Cardinality(S) + 1 * Cardinality(D) - 0
    BY <2>4, <2>5, <2>6, ZenonT(40)
  <2>8. QED
    BY <2>0, <2>1, <2>7, PlusOnce, ZenonT(40)
<1>3. \A S : S \subseteq Proc \X Fd => Cardinality(S) \in Nat /\ (Cardinality(S) = 0 <=> S = {})
  BY RefSets, ZenonT(40)
<1>4. \A D : D \subseteq Fd => Cardinality(D) \in Nat /\ (Cardinality(D) = 0 <=> D = {})
  BY FdSets, ZenonT(40)
<1>5. \A S, x : S \subseteq Proc \X Fd /\ x \notin S => Cardinality(S \cup {x}) = Cardinality(S) + 1
  BY <1>1, ZenonT(40)
<1>6. \A S, T, q, D : S \subseteq Proc \X Fd /\ q \in Proc /\ D \subseteq Fd /\ Joins(S, T, q, D)
                    => Cardinality(T) = Cardinality(S) + Cardinality(D)
  BY <1>2, ZenonT(40)
<1>7. QED
  BY <1>3, <1>4, <1>5, <1>6, ZenonT(40) DEF SetsCount

-----------------------------------------------------------------------------
(* What holds of every state. *)

(* PInv holds of every state of the system. *)
THEOREM Invariant == Spec => []PInv
<1>1. Init => PInv
  BY InitRest, Counting, InitRefs, Zenon DEF PInv
<1>2. PInv /\ [Next]_vars => PInv'
  <2>1. SUFFICES ASSUME PInv, [Next]_vars PROVE PInv'
    BY Zenon
  <2>2. Rest /\ CountsTell
    BY <2>1, Counting, UsedFiles, Zenon DEF PInv
  <2>3. Rest'
    BY <2>1, <2>2, StepRest, StutterRest, ZenonT(40)
  <2>4. QED
    BY <2>1, <2>3, Counting, RefsStep, Zenon DEF PInv
<1>3. QED
  BY <1>1, <1>2, PTL DEF Spec

(* EndsAreExact holds of every state: an end of the pipe is open exactly   *)
(* as long as a descriptor refers to it or a process is about to close it, *)
(* and nobody works on a page that was freed.                              *)
THEOREM EndsAreAlwaysExact == Spec => []EndsAreExact
<1>1. ASSUME PInv PROVE EndsAreExact
  <2>1. TypeOK /\ CountsTell /\ CallsAreHeld /\ OnePipe
    BY <1>1, Counting, UsedFiles, Zenon DEF PInv, Rest
  <2>2. ASSUME NEW w \in BOOLEAN
        PROVE  (\E p \in Proc, d \in Fd : ofile[p][d] \in Open(w)) <=> Open(w) # {}
    <3>1. ASSUME NEW f \in Open(w) PROVE \E p \in Proc, d \in Fd : ofile[p][d] \in Open(w)
      <4>1. f \in File /\ ref[f] > 0
        BY EndDefs, Zenon
      <4>2. PICK p \in Proc, d \in Fd : ofile[p][d] = f
        BY <2>1, <4>1, Zenon DEF CountsTell
      <4>3. QED
        BY <4>2, Zenon
    <3>2. QED
      BY <3>1, Zenon
  <2>3. /\ readopen <=> Open(FALSE) # {} \/ Closing(FALSE) # {}
        /\ writeopen <=> Open(TRUE) # {} \/ Closing(TRUE) # {}
    BY <2>1, Zenon DEF OnePipe
  <2>4. \A p \in Proc : pc[p] \in {"write", "read", "close", "exitclose"} => page
    BY <2>1, InPipe, Zenon
  <2>5. QED
    BY <2>2, <2>3, <2>4, Zenon DEF EndsAreExact
<1>2. QED
  BY <1>1, Invariant, PTL

(* SleepersHaveReason holds of every state: no reader and no writer sleeps *)
(* through the event that it waits for.                                    *)
THEOREM SleepersAlwaysHaveReason == Spec => []SleepersHaveReason
<1>1. PInv => SleepersHaveReason
  BY Zenon DEF PInv, Rest
<1>2. QED
  BY <1>1, Invariant, PTL

(* PipesAreStreams: pipes implement ByteStream: whatever processes write,  *)
(* read, close and exit in whatever order, bytes are neither lost, doubled *)
(* nor reordered, although the counters wrap around at UINT.               *)
THEOREM PipesAreStreams == Spec => PipeIsStream
<1>1. Init => BS!BSInit
  <2>1. SUFFICES ASSUME Init PROVE BS!BSInit
    OBVIOUS
  <2>2. Queue = <<>>
    BY <2>1, InitRest, EmptyQueue, Zenon DEF Rest, Init
  <2>3. QED
    BY <2>1, <2>2, Zenon DEF Init, BS!BSInit
<1>2. PInv /\ [Next]_vars => [BS!BSNext]_<<Queue, out, got, writeopen>>
  BY Counting, UsedFiles, StepRefines, Zenon DEF PInv, bsUnchanged
<1>3. QED
  BY <1>1, <1>2, Invariant, PTL DEF Spec, PipeIsStream, BS!BSSpec, BS!bsVars
=============================================================================
