---------------------------- MODULE MCScheduling ----------------------------
(* Scheduling with a few slots; the CPUs are interchangeable. *)
EXTENDS Scheduling, TLC

Symmetry == Permutations(Cpu)
=============================================================================
