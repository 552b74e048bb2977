------------------------------- MODULE Stream -------------------------------
(***************************************************************************)
(* What a pipe promises: a bounded first-in first-out stream of bytes.  A  *)
(* read takes what there is, up to what it asks for, and finds the stream  *)
(* empty only at its end.                                                  *)
(***************************************************************************)
EXTENDS Integers, Sequences

CONSTANTS Procs, Bytes, Capacity, Sizes

VARIABLES
    queue,      \* the bytes written and not read
    n,          \* how many bytes a process's read asks for
    got,        \* what it has returned, {} before it does
    open        \* whether the write end is

vars == <<queue, n, got, open>>

Init ==
    /\ queue = <<>> /\ open = TRUE
    /\ n = [p \in Procs |-> 0] /\ got = [p \in Procs |-> {}]

Put ==
    /\ open
    /\ \E k \in 1..Capacity - Len(queue) : \E s \in [1..k -> Bytes] : queue' = queue \o s
    /\ UNCHANGED <<n, got, open>>

Ask(p) == (\E k \in Sizes : n' = [n EXCEPT ![p] = k]) /\ UNCHANGED <<queue, got, open>>

Get(p) ==
    /\ queue # <<>>
    /\ LET k == IF n[p] < Len(queue) THEN n[p] ELSE Len(queue) IN
           /\ got' = [got EXCEPT ![p] = {SubSeq(queue, 1, k)}]
           /\ queue' = SubSeq(queue, k + 1, Len(queue))
    /\ UNCHANGED <<n, open>>

EndOfFile(p) ==
    /\ queue = <<>> /\ ~open
    /\ got' = [got EXCEPT ![p] = {<<>>}]
    /\ UNCHANGED <<queue, n, open>>

\* The process goes on with the bytes.
Consume(p) ==
    /\ n' = [n EXCEPT ![p] = 0] /\ got' = [got EXCEPT ![p] = {}]
    /\ UNCHANGED <<queue, open>>

Close == open' = FALSE /\ UNCHANGED <<queue, n, got>>

Next == Put \/ Close \/ \E p \in Procs : Ask(p) \/ Get(p) \/ EndOfFile(p) \/ Consume(p)

Spec == Init /\ [][Next]_vars
=============================================================================
