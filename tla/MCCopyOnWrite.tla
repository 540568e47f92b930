--------------------------- MODULE MCCopyOnWrite ---------------------------
(* CopyOnWrite on a small machine: two process slots, four frames. *)
EXTENDS CopyOnWrite, TLC

Boot4 == <<1, 2, 3, 4>>

(* Directories are interchangeable. *)
Symmetry == Permutations(Pgdir)
=============================================================================
