--------------------------- MODULE MCSharedMemory ---------------------------
(* SharedMemory with a few processes, signatures and frames. *)
EXTENDS SharedMemory, TLC

Symmetry == Permutations(Proc) \cup Permutations(Frame)
=============================================================================
