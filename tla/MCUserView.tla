----------------------------- MODULE MCUserView -----------------------------
(* CopyOnWrite as user programs see it.  It starts when init has executed  *)
(* a program of TextPages pages, and leaves out the kernel's own frames,   *)
(* which MCCopyOnWrite has.                                                *)
EXTENDS CopyOnWrite, TLC

Boot4 == <<1, 2, 3, 4>>

Used == TextPages + 1

ExecedInit == \E d \in Pgdir :
  /\ freelist = SubSeq(BootList, Used + 1, Len(BootList))
  /\ refCount = [g \in Frame |-> IF \E i \in 1..Used : g = BootList[i] THEN 1 ELSE 0]
  /\ PhysicalPageTotal = Used
  /\ kheld = {} /\ lost = {}
  /\ mem = [g \in Frame |-> IF \E i \in 1..TextPages : g = BootList[i]
                            THEN Text ELSE Zero]
  /\ pte = [e \in Pgdir |-> [a \in Page |->
              CASE e = d /\ a \in TextPage     -> BootList[a]
                [] e = d /\ a = USERTOP - 1    -> BootList[Used]
                [] OTHER                        -> None]]
  /\ writable = [e \in Pgdir |-> IF e = d THEN TextPage \cup {USERTOP - 1} ELSE {}]
  /\ state = [p \in Proc |-> IF p = InitProc THEN "RUNNABLE" ELSE "UNUSED"]
  /\ pgdir = [p \in Proc |-> IF p = InitProc THEN d ELSE None]
  /\ sz = [p \in Proc |-> IF p = InitProc THEN Used ELSE 0]
  /\ stackSize = [p \in Proc |-> IF p = InitProc THEN 1 ELSE 0]
  /\ killed = [p \in Proc |-> FALSE]
  /\ panicked = FALSE
  /\ pc = [p \in Proc |-> "user"]
  /\ va = [p \in Proc |-> 0]
  /\ cnt = [p \in Proc |-> 0]
  /\ fr = [p \in Proc |-> None]
  /\ dir = [p \in Proc |-> None]
  /\ child = [p \in Proc |-> None]
  /\ todo = [p \in Proc |-> {}]

(* Pages start blank and one store leaves a mark, so a mark where neither  *)
(* that store nor a copy of the page puts it is a store that leaked.       *)
UserNext ==
  /\ ~panicked
  /\ \E p \in Proc :
       \/ \E a \in Page, v \in Value \ {Zero} :
            (\A f \in Frame : mem[f] = Zero) /\ Store(p, a, v)
       \/ Fault(p) \/ SbrkGrow(p) \/ SbrkShrink(p) \/ SbrkFails(p)
       \/ Fork(p) \/ Exec(p) \/ Exit(p) \/ WaitFree(p)

UserSpec == ExecedInit /\ [][UserNext]_vars

Symmetry == Permutations(Pgdir)
=============================================================================
