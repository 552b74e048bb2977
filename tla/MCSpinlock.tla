----------------------------- MODULE MCSpinlock -----------------------------
(* Two CPUs, kernel threads of processes, one or two locks. *)
EXTENDS Spinlock, TLC

Symmetry == Permutations(Cpus) \cup Permutations(Procs)
=============================================================================
