-------------------------- MODULE MCVirtualMemory --------------------------
(* VirtualMemory with a memory table of three entries. *)
EXTENDS VirtualMemory, TLC

(* Pages are blank but for one, which a store has marked: enough to tell   *)
(* whether a page comes back with its own contents or another's.           *)
OneMark == Cardinality({a \in Page : View[Self][a] # Zero}) <= 1

(* A program with stray tables is followed while it is small and blank, as *)
(* far as the exec that gives it tables of its own again.                  *)
Strays == stray => sz + stackSize <= TextPages + 4 /\ View[Self] = [a \in Page |-> Zero]

(* No guard and none of the properties of the run looks at cow and shared. *)
Frameless == <<table, swapVars, pte, mem, sz, stackSize, stopped, stray>>
=============================================================================
