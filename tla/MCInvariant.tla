---------------------------- MODULE MCInvariant -----------------------------
(* The inductive invariant of the proofs on the machine of MCCopyOnWrite.  *)
EXTENDS CopyOnWriteInvariant, TLC

Boot4 == <<1, 2, 3, 4>>

Symmetry == Permutations(Pgdir)
=============================================================================
