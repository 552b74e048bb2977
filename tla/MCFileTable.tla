---------------------------- MODULE MCFileTable ----------------------------
(* Two processes; fewer files than the two can open.                        *)
EXTENDS FileTable, TLC

Symmetry == Permutations(Pipes)
=============================================================================
