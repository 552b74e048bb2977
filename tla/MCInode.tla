------------------------------ MODULE MCInode ------------------------------
(* Three inodes.  Two processes make, remove and enter files and            *)
(* directories of one name; or one makes every call with paths of two       *)
(* elements, ".." among them; or two link and unlink files of two names.    *)
EXTENDS Inode, TLC

Workload(P, C, L, k) == [procs |-> P, calls |-> C, lookups |-> L, maxpath |-> k]

MCWorkloads ==
    {Workload(Procs, {"create", "mkdir", "unlink", "chdir"}, {"a"}, 1),
     Workload(Procs, {"create", "unlink", "open", "link"}, {"a", "b"}, 1)}
    \cup {Workload({p}, {"create", "mkdir", "mknod", "unlink", "open", "chdir", "link"},
                  {"a", ".."}, 2)
             : p \in Procs}

Symmetry == Permutations(Procs)
=============================================================================
