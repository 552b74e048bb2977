------------------------------ MODULE MCFiles ------------------------------
(* A disk with one file, of one unit, whose blocks are numbered by two      *)
(* bitmap blocks.  With one directory entry in half a block, the number of  *)
(* entries is odd: mkfs would give a full root directory a hole.            *)
EXTENDS Console

MCHostFiles == <<<<7>>>>

Workload(o, ws, rs, ts, cs, n, ks, ser) ==
    [open |-> [f \in Files |-> o[f]], writes |-> ws, reads |-> rs, types |-> ts,
     calls |-> cs, left |-> n, keys |-> ks, serial |-> ser]

\* Files come and go; one file is open twice; the root directory is read;
\* the console is read, with editing on the serial line, and written; keys
\* are typed with all modifiers.
MCWorkloads ==
    {Workload(<<2, 0>>, {<<9>>, <<9, 9, 9, 9>>}, {}, {"file"}, {"iput"}, 6, {}, {}),
     Workload(<<2, 2>>, {<<8>>, <<9, 9, 9, 9>>}, {3}, {}, {}, 4, {}, {}),
     Workload(<<1, 1>>, {}, {2, 3}, {}, {"stat"}, 3, {}, {}),
     Workload(<<0, 0>>, {<<"x", NL, "x">>}, {1, 3}, {"dev"}, {}, 1,
              {"d", "ctl"}, {"^U", "^H", "d", "\r"}),
     Workload(<<0, 0>>, {}, {}, {}, {}, 0,
              {"E0", "shift", "ctl", "caps", "u", "p", "bs", "enter"}, {})}

Symmetry == Permutations(Procs)
=============================================================================
