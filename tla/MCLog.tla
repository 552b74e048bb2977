------------------------------- MODULE MCLog -------------------------------
(* Three processes, a log that holds what two system calls may write.        *)
EXTENDS Log, TLC

Symmetry == Permutations(Procs) \cup Permutations(Blocks)
=============================================================================
