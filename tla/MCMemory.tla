----------------------------- MODULE MCMemory -----------------------------
(* Programs of one page; too large with its stack; with a segment that does *)
(* not begin on a page.                                                     *)
EXTENDS Memory

Seg(a, n) == [vaddr |-> a, memsz |-> n]
MCPrograms == {<<Seg(0, 1)>>, <<Seg(0, 3)>>, <<Seg(0, 1), Seg(1, 1)>>}
MCIncrements == {-2, -1, 1, 3}
=============================================================================
