----------------------------- MODULE Spinlock -----------------------------
(***************************************************************************)
(* Spin locks and the interrupt flag: acquire(), release(), pushcli() and  *)
(* popcli() of spinlock.c, with what moves kernel threads between CPUs     *)
(* while they use them: interrupts, yield(), sleep(), sched() and          *)
(* scheduler() of proc.c.  ncli and intena belong to the CPU, held locks   *)
(* and the saved eflags to the thread.                                     *)
(*                                                                         *)
(* One action is one access to memory another CPU or an interrupt handler  *)
(* can observe.  The kernel code that uses the locks is any code that      *)
(* acquires them in increasing order and releases what it acquired.        *)
(***************************************************************************)
EXTENDS Integers, FiniteSets

CONSTANTS
    Cpus,    \* each is also the name of its scheduler() thread
    Procs,   \* kernel threads of processes
    Locks,   \* spin locks, numbered in the order they are acquired
    NoCpu    \* lk->cpu = 0

Threads == Cpus \cup Procs

ASSUME LocksAssumption == Locks \subseteq Nat \ {0}
ASSUME NamesAssumption == Cpus \cap Procs = {} /\ NoCpu \notin Threads

VARIABLES
    locked, lcpu,          \* struct spinlock: locked, cpu
    ncli, intena,          \* struct cpu
    flagIF,                \* FL_IF of the CPU's eflags
    cur,                   \* the thread a CPU executes
    pc, after,             \* a thread's control, and where it returns to
    arg,                   \* lock it is acquiring or releasing, or 0
    held,                  \* locks between its xchg and its store of 0
    eflags,                \* pushcli()'s local
    saved,                 \* sched()'s local intena
    irq, ret,              \* in an interrupt handler; locals it interrupted
    panicked

lockVars == <<locked, lcpu, held>>
cliVars == <<ncli, intena, flagIF>>
irqVars == <<irq, ret>>
vars == <<lockVars, cliVars, cur, pc, after, arg, eflags, saved, irqVars,
          panicked>>

-----------------------------------------------------------------------------
On(c, t) == cur[c] = t /\ ~panicked
At(c, t, l) == On(c, t) /\ pc[t] = l
Goto(t, l) == pc' = [pc EXCEPT ![t] = l]
Panic == panicked' = TRUE

NoFrame == [pc |-> "run", after |-> "run", arg |-> 0, eflags |-> FALSE]

\* What interrupts find: no lock operation under way, or pushcli() between
\* its readeflags() and its cli().
Interruptible == {"run", "cli", "sti", "push"}

-----------------------------------------------------------------------------
(* Mutants: the operations below with a plausible error.                   *)

\* The result of xchg is not tested.
XchgOnce(c, t) ==
    /\ At(c, t, "spin")
    /\ locked' = [locked EXCEPT ![arg[t]] = TRUE]
    /\ held' = [held EXCEPT ![t] = @ \cup {arg[t]}]
    /\ Goto(t, "setcpu")
    /\ UNCHANGED <<lcpu, cliVars, cur, after, arg, eflags, saved, irqVars,
                   panicked>>

\* acquire() without pushcli().
AcquireNoCli(c, t) ==
    /\ At(c, t, "cli") /\ after[t] = "run"
    /\ ncli' = [ncli EXCEPT ![c] = @ + 1]
    /\ intena' = [intena EXCEPT ![c] = IF ncli[c] = 0 THEN eflags[t] ELSE @]
    /\ Goto(t, "spin")
    /\ UNCHANGED <<lockVars, flagIF, cur, after, arg, eflags, saved, irqVars,
                   panicked>>

\* release() without popcli().
UnlockNoPop(c, t) ==
    /\ At(c, t, "store") /\ Goto(t, after[t])
    /\ locked' = [locked EXCEPT ![arg[t]] = FALSE]
    /\ held' = [held EXCEPT ![t] = @ \ {arg[t]}]
    /\ arg' = [arg EXCEPT ![t] = IF after[t] = "sched" THEN @ ELSE 0]
    /\ UNCHANGED <<lcpu, cliVars, cur, after, eflags, saved, irqVars, panicked>>

-----------------------------------------------------------------------------
(* acquire(lk) *)

AcquireCall(c, t, l) ==
    /\ At(c, t, "run") /\ \A h \in held[t] : h < l
    /\ Goto(t, "eflags")
    /\ arg' = [arg EXCEPT ![t] = l]
    /\ after' = [after EXCEPT ![t] = "run"]
    /\ UNCHANGED <<lockVars, cliVars, cur, eflags, saved, irqVars, panicked>>

ReadEflags(c, t) ==
    /\ At(c, t, "eflags") /\ Goto(t, "cli")
    /\ eflags' = [eflags EXCEPT ![t] = flagIF[c]]
    /\ UNCHANGED <<lockVars, cliVars, cur, after, arg, saved, irqVars, panicked>>

\* The rest of pushcli(), and holding(): only this CPU stores its own name
\* in lk->cpu.
Pushcli(c, t) ==
    /\ At(c, t, "cli")
    /\ flagIF' = [flagIF EXCEPT ![c] = FALSE]
    /\ intena' = [intena EXCEPT ![c] = IF ncli[c] = 0 THEN eflags[t] ELSE @]
    /\ ncli' = [ncli EXCEPT ![c] = @ + 1]
    /\ panicked' = (locked[arg[t]] /\ lcpu[arg[t]] = c)
    /\ Goto(t, "spin")
    /\ UNCHANGED <<lockVars, cur, after, arg, eflags, saved, irqVars>>

\* The xchg that finds 0; those that find 1 change nothing.
Xchg(c, t) ==
    /\ At(c, t, "spin") /\ ~locked[arg[t]]
    /\ locked' = [locked EXCEPT ![arg[t]] = TRUE]
    /\ held' = [held EXCEPT ![t] = @ \cup {arg[t]}]
    /\ Goto(t, "setcpu")
    /\ UNCHANGED <<lcpu, cliVars, cur, after, arg, eflags, saved, irqVars,
                   panicked>>

\* acquire() returns to its caller, or to sleep(), which calls popcli().
SetCpu(c, t) ==
    /\ At(c, t, "setcpu")
    /\ lcpu' = [lcpu EXCEPT ![arg[t]] = c]
    /\ Goto(t, IF after[t] = "sleep_pop" THEN "pop" ELSE "run")
    /\ after' = [after EXCEPT ![t] = "run"]
    /\ arg' = [arg EXCEPT ![t] = 0]
    /\ UNCHANGED <<locked, held, cliVars, cur, eflags, saved, irqVars, panicked>>

-----------------------------------------------------------------------------
(* release(lk) *)

ReleaseCall(c, t, l) ==
    /\ At(c, t, "run") /\ l \in held[t]
    /\ Goto(t, "clearcpu")
    /\ arg' = [arg EXCEPT ![t] = l]
    /\ after' = [after EXCEPT ![t] = "run"]
    /\ UNCHANGED <<lockVars, cliVars, cur, eflags, saved, irqVars, panicked>>

ClearCpu(c, t) ==
    /\ At(c, t, "clearcpu")
    /\ IF locked[arg[t]] /\ lcpu[arg[t]] = c
       THEN /\ lcpu' = [lcpu EXCEPT ![arg[t]] = NoCpu]
            /\ Goto(t, "store") /\ UNCHANGED panicked
       ELSE Panic /\ UNCHANGED <<lcpu, pc>>
    /\ UNCHANGED <<locked, held, cliVars, cur, after, arg, eflags, saved,
                   irqVars>>

\* A release in sleep() keeps its argument, to reacquire the lock.
Unlock(c, t) ==
    /\ At(c, t, "store") /\ Goto(t, "pop")
    /\ locked' = [locked EXCEPT ![arg[t]] = FALSE]
    /\ held' = [held EXCEPT ![t] = @ \ {arg[t]}]
    /\ arg' = [arg EXCEPT ![t] = IF after[t] = "sched" THEN @ ELSE 0]
    /\ UNCHANGED <<lcpu, cliVars, cur, after, eflags, saved, irqVars, panicked>>

Popcli(c, t) ==
    /\ At(c, t, "pop")
    /\ IF flagIF[c] \/ ncli[c] = 0
       THEN Panic /\ UNCHANGED <<ncli, flagIF, pc>>
       ELSE /\ ncli' = [ncli EXCEPT ![c] = @ - 1]
            /\ flagIF' = [flagIF EXCEPT ![c] = ncli[c] = 1 /\ intena[c]]
            /\ Goto(t, after[t]) /\ UNCHANGED panicked
    /\ UNCHANGED <<lockVars, intena, cur, after, arg, eflags, saved, irqVars>>

-----------------------------------------------------------------------------
(* Interrupts and the return to user mode *)

\* An interrupt gate clears FL_IF.
Interrupt(c, t) ==
    /\ On(c, t) /\ flagIF[c] /\ pc[t] \in Interruptible
    /\ flagIF' = [flagIF EXCEPT ![c] = FALSE]
    /\ irq' = [irq EXCEPT ![t] = TRUE]
    /\ ret' = [ret EXCEPT ![t] = [pc |-> pc[t], after |-> after[t],
                                  arg |-> arg[t], eflags |-> eflags[t]]]
    /\ Goto(t, "run")
    /\ arg' = [arg EXCEPT ![t] = 0]
    /\ UNCHANGED <<lockVars, ncli, intena, cur, after, eflags, saved, panicked>>

\* iret, from a handler that has released its locks; the frame has FL_IF set.
Iret(c, t) ==
    /\ At(c, t, "run") /\ irq[t] /\ held[t] = {}
    /\ flagIF' = [flagIF EXCEPT ![c] = TRUE]
    /\ irq' = [irq EXCEPT ![t] = FALSE]
    /\ ret' = [ret EXCEPT ![t] = NoFrame]
    /\ Goto(t, ret[t].pc)
    /\ arg' = [arg EXCEPT ![t] = ret[t].arg]
    /\ after' = [after EXCEPT ![t] = ret[t].after]
    /\ eflags' = [eflags EXCEPT ![t] = ret[t].eflags]
    /\ UNCHANGED <<lockVars, ncli, intena, cur, saved, panicked>>

\* A process in a system call goes back to user mode, where FL_IF is set.
UserMode(c, t) ==
    /\ At(c, t, "run") /\ t \in Procs /\ ~irq[t] /\ held[t] = {}
    /\ flagIF' = [flagIF EXCEPT ![c] = TRUE]
    /\ UNCHANGED <<lockVars, ncli, intena, cur, pc, after, arg, eflags, saved,
                   irqVars, panicked>>

-----------------------------------------------------------------------------
(* yield(), sleep(), sched() and scheduler() *)

\* pushcli() with FL_IF already clear.
PushcliOff(c) ==
    /\ intena' = [intena EXCEPT ![c] = IF ncli[c] = 0 THEN flagIF[c] ELSE @]
    /\ ncli' = [ncli EXCEPT ![c] = @ + 1]
    /\ flagIF' = [flagIF EXCEPT ![c] = FALSE]

\* trap() calls yield() for the timer interrupt of a running process.
Yield(c, t) ==
    /\ At(c, t, "run") /\ t \in Procs /\ irq[t] /\ held[t] = {}
    /\ PushcliOff(c) /\ Goto(t, "sched")
    /\ UNCHANGED <<lockVars, cur, after, arg, eflags, saved, irqVars, panicked>>

\* sleep(chan, lk): pushcli(), then release(lk).
Sleep(c, t, l) ==
    /\ At(c, t, "run") /\ t \in Procs /\ ~irq[t] /\ held[t] = {l}
    /\ PushcliOff(c) /\ Goto(t, "clearcpu")
    /\ arg' = [arg EXCEPT ![t] = l]
    /\ after' = [after EXCEPT ![t] = "sched"]
    /\ UNCHANGED <<lockVars, cur, eflags, saved, irqVars, panicked>>

Sched(c, t) ==
    /\ At(c, t, "sched")
    /\ IF ncli[c] # 1 \/ flagIF[c]
       THEN Panic /\ UNCHANGED <<cur, pc, saved>>
       ELSE /\ saved' = [saved EXCEPT ![t] = intena[c]]
            /\ cur' = [cur EXCEPT ![c] = c]
            /\ Goto(t, "resume") /\ UNCHANGED panicked
    /\ UNCHANGED <<lockVars, cliVars, after, arg, eflags, irqVars>>

\* sched() returns to yield(), or to sleep(), which reacquires its lock.
Resume(c, t) ==
    /\ At(c, t, "resume")
    /\ intena' = [intena EXCEPT ![c] = saved[t]]
    /\ Goto(t, IF arg[t] = 0 THEN "pop" ELSE "eflags")
    /\ after' = [after EXCEPT ![t] = IF arg[t] = 0 THEN "run" ELSE "sleep_pop"]
    /\ UNCHANGED <<lockVars, ncli, flagIF, cur, arg, eflags, saved, irqVars,
                   panicked>>

SchedulerSti(c) ==
    /\ At(c, c, "sti") /\ Goto(c, "push")
    /\ flagIF' = [flagIF EXCEPT ![c] = TRUE]
    /\ UNCHANGED <<lockVars, ncli, intena, cur, after, arg, eflags, saved,
                   irqVars, panicked>>

SchedulerPush(c) ==
    /\ At(c, c, "push") /\ PushcliOff(c) /\ Goto(c, "loop")
    /\ UNCHANGED <<lockVars, cur, after, arg, eflags, saved, irqVars, panicked>>

\* swtch() to a process no CPU runs; a new one starts in forkret(), which
\* calls popcli().
SchedulerRun(c, p) ==
    /\ At(c, c, "loop") /\ pc[p] \in {"new", "resume"}
    /\ \A d \in Cpus : cur[d] # p
    /\ cur' = [cur EXCEPT ![c] = p]
    /\ Goto(p, IF pc[p] = "new" THEN "pop" ELSE "resume")
    /\ UNCHANGED <<lockVars, cliVars, after, arg, eflags, saved, irqVars,
                   panicked>>

SchedulerEnd(c) ==
    /\ At(c, c, "loop") /\ Goto(c, "pop")
    /\ after' = [after EXCEPT ![c] = "sti"]
    /\ UNCHANGED <<lockVars, cliVars, cur, arg, eflags, saved, irqVars, panicked>>

-----------------------------------------------------------------------------
Init ==
    /\ locked = [l \in Locks |-> FALSE] /\ lcpu = [l \in Locks |-> NoCpu]
    /\ held = [t \in Threads |-> {}]
    /\ ncli = [c \in Cpus |-> 0] /\ intena = [c \in Cpus |-> FALSE]
    /\ flagIF = [c \in Cpus |-> FALSE]
    /\ cur = [c \in Cpus |-> c]
    /\ pc = [t \in Threads |-> IF t \in Cpus THEN "sti" ELSE "new"]
    /\ after = [t \in Threads |-> "run"]
    /\ arg = [t \in Threads |-> 0]
    /\ eflags = [t \in Threads |-> FALSE]
    /\ saved = [t \in Threads |-> FALSE]
    /\ irq = [t \in Threads |-> FALSE] /\ ret = [t \in Threads |-> NoFrame]
    /\ panicked = FALSE

ThreadStep(c, t) ==
    \/ \E l \in Locks : AcquireCall(c, t, l) \/ ReleaseCall(c, t, l)
                            \/ Sleep(c, t, l)
    \/ ReadEflags(c, t) \/ Pushcli(c, t) \/ Xchg(c, t) \/ SetCpu(c, t)
    \/ ClearCpu(c, t) \/ Unlock(c, t) \/ Popcli(c, t)
    \/ Interrupt(c, t) \/ Iret(c, t) \/ UserMode(c, t)
    \/ Yield(c, t) \/ Sched(c, t) \/ Resume(c, t)

SchedulerStep(c) ==
    \/ SchedulerSti(c) \/ SchedulerPush(c) \/ SchedulerEnd(c)
    \/ \E p \in Procs : SchedulerRun(c, p)

Next == \E c \in Cpus : SchedulerStep(c) \/ \E t \in Threads : ThreadStep(c, t)

Spec == Init /\ [][Next]_vars

-----------------------------------------------------------------------------
Pcs == {"new", "run", "eflags", "cli", "spin", "setcpu", "clearcpu", "store",
        "pop", "sched", "resume", "sti", "push", "loop"}
Frames == [pc : Pcs, after : {"run", "sched", "sti", "sleep_pop"},
           arg : Locks \cup {0}, eflags : BOOLEAN]

\* Types; a lock operation under way has a lock to work on.
TypeOK ==
    /\ locked \in [Locks -> BOOLEAN] /\ lcpu \in [Locks -> Cpus \cup {NoCpu}]
    /\ held \in [Threads -> SUBSET Locks]
    /\ ncli \in [Cpus -> Nat] /\ {intena, flagIF} \subseteq [Cpus -> BOOLEAN]
    /\ cur \in [Cpus -> Threads] /\ \A c \in Cpus : cur[c] \in Procs \cup {c}
    /\ pc \in [Threads -> Pcs]
    /\ after \in [Threads -> {"run", "sched", "sti", "sleep_pop"}]
    /\ arg \in [Threads -> Locks \cup {0}]
    /\ {eflags, saved, irq} \subseteq [Threads -> BOOLEAN]
    /\ ret \in [Threads -> Frames]
    /\ panicked \in BOOLEAN

\* Two threads never hold the same lock, and lk->locked tells whether one
\* does: xchg in acquire(), store of 0 in release().
MutualExclusion ==
    /\ \A t, u \in Threads : t # u => held[t] \cap held[u] = {}
    /\ \A l \in Locks : locked[l] <=> \E t \in Threads : l \in held[t]

\* A thread that holds a lock is on a CPU with interrupts off: it is neither
\* interrupted nor switched away before it releases the lock, so no interrupt
\* handler spins for a lock held by the code it interrupted.
HoldersRun ==
    \A t \in Threads :
        held[t] # {} => \E c \in Cpus : cur[c] = t /\ ~flagIF[c] /\ ncli[c] > 0

\* An interrupt handler runs with interrupts off from its gate to its iret,
\* though it may yield() and come back on another CPU: popcli() there enables
\* nothing, because intena is the thread's own again.
HandlersMasked ==
    \A c \in Cpus : irq[cur[c]] => ~flagIF[c]

\* A thread that holds a lock, or handles an interrupt, is not interrupted.
InterruptsOff == HoldersRun /\ HandlersMasked

\* pushcli() and popcli() "are matched" (spinlock.c:100), across interrupts and
\* across sleep() and yield(), which return on another CPU than they left:
\* wherever a thread runs its own code, the CPU's ncli counts its locks, and
\* acquire(), release(), popcli() and sched() never panic.
NcliMatched ==
    /\ TypeOK /\ ~panicked
    /\ \A c \in Cpus : pc[cur[c]] = "run" => ncli[c] = Cardinality(held[cur[c]])
=============================================================================
