----------------------------- MODULE AtomicDisk -----------------------------
(***************************************************************************)
(* What the log promises: the blocks on disk, as the file system finds     *)
(* them after a crash, change only by whole groups of completed system     *)
(* calls.                                                                  *)
(***************************************************************************)
CONSTANTS Procs, Blocks, Values

VARIABLES
    mem,       \* the blocks as running system calls see them
    durable,   \* the blocks as recovery leaves them
    active     \* processes inside an FS system call

vars == <<mem, durable, active>>

Init ==
    /\ mem \in [Blocks -> Values] /\ durable = mem
    /\ active = {}

Begin(p) == active' = active \cup {p} /\ UNCHANGED <<mem, durable>>

Write(p, b, v) ==
    /\ p \in active
    /\ mem' = [mem EXCEPT ![b] = v]
    /\ UNCHANGED <<durable, active>>

End(p) == active' = active \ {p} /\ UNCHANGED <<mem, durable>>

\* Only between system calls: no half of one is ever committed.
Commit == active = {} /\ durable' = mem /\ UNCHANGED <<mem, active>>

Crash == mem' = durable /\ active' = {} /\ UNCHANGED durable

Next ==
    \/ Commit \/ Crash
    \/ \E p \in Procs : Begin(p) \/ End(p)
    \/ \E p \in Procs, b \in Blocks, v \in Values : Write(p, b, v)

Spec == Init /\ [][Next]_vars
=============================================================================
