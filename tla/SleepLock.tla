----------------------------- MODULE SleepLock -----------------------------
(***************************************************************************)
(* Sleep locks: acquiresleep(), releasesleep() and holdingsleep() of       *)
(* sleeplock.c.  Their bodies run under the lock's own spin lock, which    *)
(* sleep() releases as it goes to sleep and reacquires (Spinlock.tla and   *)
(* Proc.tla have both), so a body is atomic from one sleep() to the next.  *)
(*                                                                         *)
(* The operators change the locks only; a module that uses sleep locks     *)
(* instantiates this one and adds its own control.  Here the users are     *)
(* processes that acquire locks in increasing order and release them.      *)
(***************************************************************************)
EXTENDS Integers

CONSTANTS
    Procs, NoProc,
    Lks     \* numbered from 1, in the order they are acquired

VARIABLES
    locked,   \* lk->locked
    pid,      \* lk->pid, the process that holds it
    chan,     \* the lock a process sleeps on, or 0
    want,     \* the lock a process is acquiring, or 0
    cs        \* the locks it has acquired

lkVars == <<locked, pid, chan>>
vars == <<lkVars, want, cs>>

-----------------------------------------------------------------------------
(* Mutants *)

\* The test of lk->locked is not repeated after sleep().
TakeWoken(p, l) ==
    /\ chan[p] = 0
    /\ locked' = [locked EXCEPT ![l] = TRUE]
    /\ pid' = [pid EXCEPT ![l] = p]
    /\ UNCHANGED chan

-----------------------------------------------------------------------------
\* acquiresleep() of a free lock, at once or after sleep().
Take(p, l) ==
    /\ chan[p] = 0 /\ ~locked[l]
    /\ locked' = [locked EXCEPT ![l] = TRUE]
    /\ pid' = [pid EXCEPT ![l] = p]
    /\ UNCHANGED chan

\* acquiresleep() finds the lock taken and sleeps.
Block(p, l) ==
    /\ chan[p] = 0 /\ locked[l]
    /\ chan' = [chan EXCEPT ![p] = l]
    /\ UNCHANGED <<locked, pid>>

\* releasesleep(): wakeup() makes every sleeper on the lock runnable.
Free(p, l) ==
    /\ locked' = [locked EXCEPT ![l] = FALSE]
    /\ pid' = [pid EXCEPT ![l] = NoProc]
    /\ chan' = [q \in Procs |-> IF chan[q] = l THEN 0 ELSE chan[q]]

\* The scheduler makes a killed process runnable that was about to sleep.
WokenByKill(p) ==
    /\ chan[p] # 0
    /\ chan' = [chan EXCEPT ![p] = 0]
    /\ UNCHANGED <<locked, pid>>

holdingsleep(p, l) == locked[l] /\ pid[l] = p

-----------------------------------------------------------------------------
(* Processes that use the locks *)

Init ==
    /\ locked = [l \in Lks |-> FALSE] /\ pid = [l \in Lks |-> NoProc]
    /\ chan = [p \in Procs |-> 0] /\ want = [p \in Procs |-> 0]
    /\ cs = [p \in Procs |-> {}]

Call(p, l) ==
    /\ want[p] = 0 /\ \A h \in cs[p] : h < l
    /\ want' = [want EXCEPT ![p] = l]
    /\ UNCHANGED <<lkVars, cs>>

Acquire(p) ==
    /\ want[p] # 0 /\ Take(p, want[p])
    /\ cs' = [cs EXCEPT ![p] = @ \cup {want[p]}]
    /\ want' = [want EXCEPT ![p] = 0]

Wait(p) == want[p] # 0 /\ Block(p, want[p]) /\ UNCHANGED <<want, cs>>

Release(p, l) ==
    /\ want[p] = 0 /\ l \in cs[p] /\ Free(p, l)
    /\ cs' = [cs EXCEPT ![p] = @ \ {l}]
    /\ UNCHANGED want

Killed(p) == WokenByKill(p) /\ UNCHANGED <<want, cs>>

Step(p) == Acquire(p) \/ Wait(p) \/ \E l \in Lks : Release(p, l)

Next == \E p \in Procs : Step(p) \/ Killed(p) \/ \E l \in Lks : Call(p, l)

Spec == Init /\ [][Next]_vars

-----------------------------------------------------------------------------
\* Types.
TypeOK ==
    /\ locked \in [Lks -> BOOLEAN] /\ pid \in [Lks -> Procs \cup {NoProc}]
    /\ {chan, want} \subseteq [Procs -> Lks \cup {0}]
    /\ cs \in [Procs -> SUBSET Lks]

\* A process is in the critical section of a lock exactly when holdingsleep()
\* says so, hence at most one is: sleepers that are woken together, or woken
\* by a kill, test the lock again.
Exclusive ==
    \A p \in Procs, l \in Lks : l \in cs[p] <=> holdingsleep(p, l)

\* No wakeup is lost: a process sleeps on a lock only while another holds it.
SleepersBlocked ==
    \A p \in Procs :
        chan[p] # 0 => /\ chan[p] = want[p] /\ locked[chan[p]]
                       /\ pid[chan[p]] # p
=============================================================================
