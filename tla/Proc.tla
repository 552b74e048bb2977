-------------------------------- MODULE Proc --------------------------------
(***************************************************************************)
(* The process table of proc.c.  This xv6 has no ptable.lock: every change *)
(* of a process's state is a compare-and-swap, and the MINUS_ states mark  *)
(* a change in progress.  The actors are the processes' kernel threads and *)
(* the CPUs' scheduler() loops.  One action is one access to shared memory *)
(* (a CAS with the private work around it); code between pushcli() and     *)
(* popcli() is not preempted on its own CPU but interleaves with the       *)
(* others.                                                                 *)
(*                                                                         *)
(* Callers of sleep() and wakeup() are modelled by the pattern they all    *)
(* follow: a condition avail[ch] guarded by the spinlock lk[ch], consumed  *)
(* by a process that sleeps until it holds and produced by a process or an *)
(* interrupt handler that calls wakeup(ch).                                *)
(***************************************************************************)
EXTENDS Integers, FiniteSets

CONSTANTS
    NPROC,   \* slots of ptable.proc (param.h)
    Cpus,    \* the CPUs that run scheduler()
    Chans,   \* sleep channels other than the processes themselves
    Calls    \* the system calls user programs make, kill() by its signals:
             \* a bound on the workload

Procs == 1..NPROC
Threads == Procs \cup Cpus
initproc == 1

ASSUME NPROCAssumption == NPROC \in Nat \ {0}
ASSUME ThreadAssumption ==
    /\ Cpus \cap (0 .. NPROC + 1) = {}
    /\ Chans \cap (0 .. NPROC + 1) = {}

\* The signals whose default action is not to kill, and SIGKILL (types.h).
Sigs == {"SIGKILL", "SIGSTOP", "SIGCONT"}

VARIABLES
    state, chan, parent, killed, frozen, psignals,  \* struct proc
    pc,        \* where a thread's next step is
    cont,      \* where it continues after yield() or wakeup1()
    slot,      \* its loop variable p (np in fork)
    havekids,  \* wait()'s local
    wslot,     \* loop variable of wakeup1()
    wchan,     \* argument chan of sleep() and wakeup1()
    run,       \* c->proc, the process whose thread CPU c executes, or 0
    lk,        \* holder of the spinlock that guards avail[ch], or 0
    avail,     \* the condition waited for on ch
    panicked   \* panic() was called

sigs == <<killed, frozen, psignals>>
fields == <<chan, parent, sigs>>
procVars == <<state, fields>>
wake == <<wslot, wchan>>
locals == <<cont, havekids, wake>>
threadVars == <<pc, slot, locals>>
locks == <<lk, avail>>
envVars == <<run, locks, panicked>>
vars == <<procVars, threadVars, envVars>>

-----------------------------------------------------------------------------
ProcState == {"UNUSED", "MINUS_UNUSED", "EMBRYO", "SLEEPING",
              "MINUS_SLEEPING", "RUNNABLE", "MINUS_RUNNABLE", "RUNNING",
              "ZOMBIE", "MINUS_ZOMBIE"}

FreeStates == {"UNUSED", "MINUS_UNUSED", "EMBRYO"}  \* nothing to run

UserPc == {"user", "trapret", "fork", "closing"}    \* interrupts are enabled
ExitPc == {"exit", "exit_check"}
WaitPc == {"wait", "wait_chan", "wait_scan", "reap", "reap_run", "reap_free"}
SleepPc == {"slp_test", "slp_release", "slp_sched", "slp_acquire"}
WakePc == {"wk", "wk_chan", "wk_cas", "wk_run"}
ProcPc == UserPc \cup ExitPc \cup WaitPc \cup SleepPc \cup WakePc
              \cup {"sched", "dead"}
CpuPc == {"sti", "scan", "picked", "post_sleep", "post_killed", "post_run",
          "post_zombie", "post_chan", "post_wake"} \cup WakePc

\* cas(): x86.h, lock cmpxchg.
Cas(p, old, new) ==
    state' = [state EXCEPT ![p] = IF @ = old THEN new ELSE @]

\* Two CPUs on one kernel stack, or a CPU on a stack that was freed.
Corrupt ==
    \/ \E c1, c2 \in Cpus : c1 # c2 /\ run[c1] # 0 /\ run[c1] = run[c2]
    \/ \E c \in Cpus : run[c] # 0 /\ state[run[c]] \in FreeStates

\* A thread executes: a scheduler when it runs no process, a process when
\* some CPU runs it.  Nothing executes after panic(), and what the machine
\* does once Corrupt is undefined: the model stops there.
Executes(t) ==
    /\ ~panicked /\ ~Corrupt
    /\ IF t \in Cpus THEN run[t] = 0 ELSE \E c \in Cpus : run[c] = t

Goto(t, l) == pc' = [pc EXCEPT ![t] = l]

At(t, l) == pc[t] = l /\ Executes(t)

Step(t, l, m) == At(t, l) /\ Goto(t, m)

\* Where a thread continues once an interrupt or a system call is done.
Resume(t) == IF pc[t] = "user" THEN "trapret" ELSE pc[t]

\* sched(): swtch() to the scheduler of the CPU that runs p.
Swtch(p, l) ==
    \E c \in Cpus :
        /\ run[c] = p
        /\ run' = [run EXCEPT ![c] = 0]
        /\ pc' = [pc EXCEPT ![p] = l, ![c] = "post_sleep"]
        /\ panicked' = (state[p] = "RUNNING")

-----------------------------------------------------------------------------
(* Mutants: the operations below with a plausible error.                   *)

\* The result of the CAS on the slot's state is ignored.
ForkAllocTwice(p, np) ==
    /\ "fork" \in Calls
    /\ Step(p, "user", "fork") /\ ~killed[p]
    /\ state[np] \in {"UNUSED", "EMBRYO"}
    /\ Cas(np, "UNUSED", "EMBRYO")
    /\ psignals' = [psignals EXCEPT ![np] = {}]
    /\ slot' = [slot EXCEPT ![p] = np]
    /\ UNCHANGED <<chan, parent, killed, frozen, locals, envVars>>

\* A reparented zombie is not announced to initproc.
ExitCheckSilent(p) ==
    /\ Step(p, "exit_check", "exit")
    /\ slot' = [slot EXCEPT ![p] = @ + 1]
    /\ UNCHANGED <<procVars, locals, envVars>>

\* The children are not passed to initproc.
ExitSchedEarly(p) ==
    /\ At(p, "exit") /\ Swtch(p, "dead")
    /\ slot' = [slot EXCEPT ![p] = 1]
    /\ UNCHANGED <<procVars, locals, locks>>

\* wait() does not set p->chan.
WaitChanUnset(p) ==
    /\ Step(p, "wait_chan", "wait_scan")
    /\ slot' = [slot EXCEPT ![p] = 1]
    /\ havekids' = [havekids EXCEPT ![p] = FALSE]
    /\ UNCHANGED <<procVars, cont, wake, envVars>>

\* wait() returns in state MINUS_SLEEPING.
WaitReapNotRunning(p) ==
    /\ Step(p, "reap_run", "reap_free")
    /\ UNCHANGED <<procVars, locals, slot, envVars>>

\* wakeup1() tests one of the two states.
WakeStateOf(t, s) ==
    /\ At(t, "wk") /\ wslot[t] \in Procs
    /\ wslot' = [wslot EXCEPT ![t] = IF state[@] = s THEN @ ELSE @ + 1]
    /\ Goto(t, IF state[wslot[t]] = s THEN "wk_chan" ELSE "wk")
    /\ UNCHANGED <<procVars, cont, slot, havekids, wchan, envVars>>
WakeStateSleeping(t) == WakeStateOf(t, "SLEEPING")
WakeStateMinusSleeping(t) == WakeStateOf(t, "MINUS_SLEEPING")

CanRunIfKilled(p) == "SIGKILL" \in psignals[p]

\* scheduler() dispatches a slot whose CAS failed.
SchedPickAny(c) ==
    /\ At(c, "scan") /\ slot[c] \in Procs
    /\ Cas(slot[c], "RUNNABLE", "RUNNING")
    /\ Goto(c, "picked")
    /\ UNCHANGED <<fields, slot, locals, envVars>>

\* A process that yielded stays in MINUS_RUNNABLE.
PostRunNoCas(c) ==
    /\ Step(c, "post_run", "post_zombie")
    /\ UNCHANGED <<procVars, locals, slot, envVars>>

\* The loop variable is advanced twice.
PostZombieSkip(c) ==
    /\ At(c, "post_zombie")
    /\ LET zombie == state[slot[c]] = "MINUS_ZOMBIE"
       IN  /\ slot' = [slot EXCEPT ![c] = IF zombie THEN @ ELSE @ + 2]
           /\ Goto(c, IF zombie THEN "post_chan" ELSE "scan")
    /\ UNCHANGED <<procVars, locals, envVars>>

\* wakeup1(p) for wakeup1(p->parent).
PostWakeSelf(c) ==
    /\ Step(c, "post_wake", "wk")
    /\ wchan' = [wchan EXCEPT ![c] = slot[c]]
    /\ slot' = [slot EXCEPT ![c] = @ + 1]
    /\ cont' = [cont EXCEPT ![c] = "scan"]
    /\ UNCHANGED <<procVars, havekids, wslot, envVars>>

-----------------------------------------------------------------------------
(* fork() and allocproc() *)

\* The table scan is abstracted to the slot whose CAS succeeds.
ForkAlloc(p, np) ==
    /\ "fork" \in Calls
    /\ Step(p, "user", "fork") /\ ~killed[p]
    /\ state[np] = "UNUSED"
    /\ Cas(np, "UNUSED", "EMBRYO")
    /\ psignals' = [psignals EXCEPT ![np] = {}]
    /\ slot' = [slot EXCEPT ![p] = np]
    /\ UNCHANGED <<chan, parent, killed, frozen, locals, envVars>>

\* The table is full.
ForkNone(p) ==
    /\ "fork" \in Calls
    /\ Step(p, "user", "trapret") /\ ~killed[p]
    /\ \A np \in Procs : state[np] # "UNUSED"
    /\ UNCHANGED <<procVars, locals, slot, envVars>>

\* kalloc() of the kernel stack, or copyuvm(), found no memory.
ForkFail(p) ==
    /\ Step(p, "fork", "trapret")
    /\ state' = [state EXCEPT ![slot[p]] = "UNUSED"]
    /\ slot' = [slot EXCEPT ![p] = 1]
    /\ UNCHANGED <<fields, locals, envVars>>

\* The child starts in forkret(), which returns to trapret.
ForkRun(p) ==
    /\ At(p, "fork")
    /\ parent' = [parent EXCEPT ![slot[p]] = p]
    /\ Cas(slot[p], "EMBRYO", "RUNNABLE")
    /\ slot' = [slot EXCEPT ![p] = 1]
    /\ pc' = [pc EXCEPT ![p] = "trapret", ![slot[p]] = "trapret"]
    /\ UNCHANGED <<chan, sigs, locals, envVars>>

-----------------------------------------------------------------------------
(* yield() *)

\* yield() on a clock tick; trap() sends a killed process to exit() instead.
Yield(p) ==
    /\ pc[p] \in UserPc /\ Executes(p)
    /\ pc[p] = "user" => ~killed[p]
    /\ state[p] = "RUNNING"
    /\ Cas(p, "RUNNING", "MINUS_RUNNABLE")
    /\ cont' = [cont EXCEPT ![p] = Resume(p)]
    /\ Goto(p, "sched")
    /\ UNCHANGED <<fields, slot, havekids, wake, envVars>>

YieldSched(p) ==
    /\ At(p, "sched")
    /\ Swtch(p, cont[p])
    /\ cont' = [cont EXCEPT ![p] = "user"]
    /\ UNCHANGED <<procVars, slot, havekids, wake, locks>>

-----------------------------------------------------------------------------
(* exit() *)

\* The process calls exit(), or trap() finds it killed.
Exit(p) ==
    /\ Step(p, "user", "closing") /\ p # initproc
    /\ "exit" \in Calls \/ killed[p]
    /\ UNCHANGED <<procVars, locals, slot, envVars>>

\* A fault in user space: trap() marks the process killed and calls exit().
Fault(p) ==
    /\ "fault" \in Calls
    /\ Step(p, "user", "closing") /\ p # initproc
    /\ killed' = [killed EXCEPT ![p] = TRUE]
    /\ UNCHANGED <<state, chan, parent, frozen, psignals, locals, slot, envVars>>

\* Files and cwd are closed (these calls may sleep, see SleepStart).
ExitZombie(p) ==
    /\ Step(p, "closing", "exit")
    /\ Cas(p, "RUNNING", "MINUS_ZOMBIE")
    /\ panicked' = (state[p] # "RUNNING")
    /\ slot' = [slot EXCEPT ![p] = 1]
    /\ UNCHANGED <<fields, locals, run, locks>>

\* The loop over the table, slots that are not children skipped: only p
\* itself changes which slots name it as their parent.
ExitReparent(p) ==
    /\ Step(p, "exit", "exit_check")
    /\ \E j \in slot[p] .. NPROC :
        /\ parent[j] = p
        /\ \A k \in slot[p] .. (j - 1) : parent[k] # p
        /\ parent' = [parent EXCEPT ![j] = initproc]
        /\ slot' = [slot EXCEPT ![p] = j]
    /\ UNCHANGED <<state, chan, sigs, locals, envVars>>

ExitCheck(p) ==
    /\ At(p, "exit_check")
    /\ slot' = [slot EXCEPT ![p] = @ + 1]
    /\ IF state[slot[p]] = "ZOMBIE"
       THEN /\ Goto(p, "wk")
            /\ wchan' = [wchan EXCEPT ![p] = initproc]
            /\ cont' = [cont EXCEPT ![p] = "exit"]
       ELSE /\ Goto(p, "exit")
            /\ UNCHANGED <<wchan, cont>>
    /\ UNCHANGED <<procVars, havekids, wslot, envVars>>

ExitSched(p) ==
    /\ At(p, "exit")
    /\ \A j \in slot[p] .. NPROC : parent[j] # p
    /\ Swtch(p, "dead")
    /\ slot' = [slot EXCEPT ![p] = 1]
    /\ UNCHANGED <<procVars, locals, locks>>

-----------------------------------------------------------------------------
(* wait() *)

\* The head of wait()'s loop, entered from the system call and again after
\* each sched().
WaitSleeping(p, from) ==
    /\ Step(p, from, "wait_chan")
    /\ Cas(p, "RUNNING", "MINUS_SLEEPING")
    /\ panicked' = (state[p] # "RUNNING")
    /\ UNCHANGED <<fields, locals, slot, run, locks>>

WaitCall(p) ==
    /\ "wait" \in Calls /\ ~killed[p]
    /\ WaitSleeping(p, "user")

WaitChan(p) ==
    /\ Step(p, "wait_chan", "wait_scan")
    /\ chan' = [chan EXCEPT ![p] = p]
    /\ slot' = [slot EXCEPT ![p] = 1]
    /\ havekids' = [havekids EXCEPT ![p] = FALSE]
    /\ UNCHANGED <<state, parent, sigs, cont, wake, envVars>>

WaitScan(p) ==
    /\ At(p, "wait_scan") /\ slot[p] \in Procs
    /\ LET j == slot[p]
           zombie == parent[j] = p /\ state[j] = "ZOMBIE"
       IN  /\ havekids' = [havekids EXCEPT ![p] = @ \/ parent[j] = p]
           /\ state' = [state EXCEPT ![j] = IF zombie THEN "MINUS_UNUSED"
                                                      ELSE @]
           /\ slot' = [slot EXCEPT ![p] = IF zombie THEN j ELSE j + 1]
           /\ Goto(p, IF zombie THEN "reap" ELSE "wait_scan")
    /\ UNCHANGED <<fields, cont, wake, envVars>>

\* The child's stack and memory are freed and its fields reset; frozen is
\* not among them.
WaitReap(p) ==
    /\ Step(p, "reap", "reap_run")
    /\ parent' = [parent EXCEPT ![slot[p]] = 0]
    /\ killed' = [killed EXCEPT ![slot[p]] = FALSE]
    /\ chan' = [chan EXCEPT ![p] = 0]
    /\ UNCHANGED <<state, frozen, psignals, locals, slot, envVars>>

WaitReapRun(p) ==
    /\ Step(p, "reap_run", "reap_free")
    /\ Cas(p, "MINUS_SLEEPING", "RUNNING")
    /\ UNCHANGED <<fields, locals, slot, envVars>>

WaitReapFree(p) ==
    /\ Step(p, "reap_free", "trapret")
    /\ Cas(slot[p], "MINUS_UNUSED", "UNUSED")
    /\ slot' = [slot EXCEPT ![p] = 1]
    /\ havekids' = [havekids EXCEPT ![p] = FALSE]
    /\ UNCHANGED <<fields, cont, wake, envVars>>

WaitNoKids(p) ==
    /\ Step(p, "wait_scan", "trapret") /\ slot[p] = NPROC + 1
    /\ ~havekids[p] \/ killed[p]
    /\ chan' = [chan EXCEPT ![p] = 0]
    /\ Cas(p, "MINUS_SLEEPING", "RUNNING")
    /\ panicked' = (state[p] # "MINUS_SLEEPING")
    /\ slot' = [slot EXCEPT ![p] = 1]
    /\ havekids' = [havekids EXCEPT ![p] = FALSE]
    /\ UNCHANGED <<parent, sigs, cont, wake, run, locks>>

WaitSched(p) ==
    /\ At(p, "wait_scan") /\ slot[p] = NPROC + 1
    /\ havekids[p] /\ ~killed[p]
    /\ Swtch(p, "wait")
    /\ slot' = [slot EXCEPT ![p] = 1]
    /\ havekids' = [havekids EXCEPT ![p] = FALSE]
    /\ UNCHANGED <<procVars, cont, wake, locks>>

-----------------------------------------------------------------------------
(* sleep() and its callers *)

\* acquire(lk) in a system call, or in exit() closing files.
SleepStart(p, ch) ==
    /\ "sleep" \in Calls
    /\ pc[p] \in {"user", "closing"} /\ Executes(p)
    /\ pc[p] = "user" => ~killed[p]
    /\ lk[ch] = 0
    /\ lk' = [lk EXCEPT ![ch] = p]
    /\ wchan' = [wchan EXCEPT ![p] = ch]
    /\ cont' = [cont EXCEPT ![p] = Resume(p)]
    /\ Goto(p, "slp_test")
    /\ UNCHANGED <<procVars, slot, havekids, wslot, run, avail, panicked>>

\* The caller's loop found the condition true: it consumes it and releases.
SleepDone(p) ==
    /\ Step(p, "slp_test", cont[p]) /\ avail[wchan[p]]
    /\ avail' = [avail EXCEPT ![wchan[p]] = FALSE]
    /\ lk' = [lk EXCEPT ![wchan[p]] = 0]
    /\ wchan' = [wchan EXCEPT ![p] = 0]
    /\ cont' = [cont EXCEPT ![p] = "user"]
    /\ UNCHANGED <<procVars, slot, havekids, wslot, run, panicked>>

\* p->chan is set before the CAS; the wakers of the channel hold lk, as p does.
Sleep(p) ==
    /\ Step(p, "slp_test", "slp_release") /\ ~avail[wchan[p]]
    /\ chan' = [chan EXCEPT ![p] = wchan[p]]
    /\ Cas(p, "RUNNING", "MINUS_SLEEPING")
    /\ panicked' = (state[p] # "RUNNING")
    /\ UNCHANGED <<parent, sigs, locals, slot, run, locks>>

SleepRelease(p) ==
    /\ Step(p, "slp_release", "slp_sched")
    /\ lk' = [lk EXCEPT ![wchan[p]] = 0]
    /\ UNCHANGED <<procVars, locals, slot, run, avail, panicked>>

SleepSched(p) ==
    /\ At(p, "slp_sched")
    /\ Swtch(p, "slp_acquire")
    /\ UNCHANGED <<procVars, locals, slot, locks>>

SleepAcquire(p) ==
    /\ Step(p, "slp_acquire", "slp_test")
    /\ lk[wchan[p]] = 0
    /\ lk' = [lk EXCEPT ![wchan[p]] = p]
    /\ UNCHANGED <<procVars, locals, slot, run, avail, panicked>>

-----------------------------------------------------------------------------
(* wakeup() and wakeup1() *)

\* A system call or an interrupt handler makes the condition true and calls
\* wakeup(ch) with the lock held; the scheduler takes interrupts after sti().
WakeStart(t, ch) ==
    /\ "wakeup" \in Calls
    /\ pc[t] \in UserPc \cup {"sti"} /\ Executes(t)
    /\ lk[ch] = 0
    /\ lk' = [lk EXCEPT ![ch] = t]
    /\ avail' = [avail EXCEPT ![ch] = TRUE]
    /\ wchan' = [wchan EXCEPT ![t] = ch]
    /\ cont' = [cont EXCEPT ![t] = Resume(t)]
    /\ Goto(t, "wk")
    /\ UNCHANGED <<procVars, slot, havekids, wslot, run, panicked>>

\* p->state is read once for both comparisons, p->chan after it.
WakeState(t) ==
    /\ At(t, "wk") /\ wslot[t] \in Procs
    /\ LET asleep == state[wslot[t]] \in {"SLEEPING", "MINUS_SLEEPING"}
       IN  /\ wslot' = [wslot EXCEPT ![t] = IF asleep THEN @ ELSE @ + 1]
           /\ Goto(t, IF asleep THEN "wk_chan" ELSE "wk")
    /\ UNCHANGED <<procVars, cont, slot, havekids, wchan, envVars>>

WakeChan(t) ==
    /\ At(t, "wk_chan")
    /\ LET match == chan[wslot[t]] = wchan[t]
       IN  /\ wslot' = [wslot EXCEPT ![t] = IF match THEN @ ELSE @ + 1]
           /\ Goto(t, IF match THEN "wk_cas" ELSE "wk")
    /\ UNCHANGED <<procVars, cont, slot, havekids, wchan, envVars>>

\* The busy-wait loop: it ends when the CAS finds SLEEPING or the test finds
\* RUNNING, and turns (a stuttering step) in every other state.
WakeCas(t) ==
    /\ Step(t, "wk_cas", "wk_run")
    /\ state[wslot[t]] = "SLEEPING"
    /\ Cas(wslot[t], "SLEEPING", "MINUS_RUNNABLE")
    /\ UNCHANGED <<fields, locals, slot, envVars>>

WakeBreak(t) ==
    /\ Step(t, "wk_cas", "wk")
    /\ state[wslot[t]] = "RUNNING"
    /\ wslot' = [wslot EXCEPT ![t] = @ + 1]
    /\ UNCHANGED <<procVars, cont, slot, havekids, wchan, envVars>>

WakeRunnable(t) ==
    /\ Step(t, "wk_run", "wk")
    /\ Cas(wslot[t], "MINUS_RUNNABLE", "RUNNABLE")
    /\ wslot' = [wslot EXCEPT ![t] = @ + 1]
    /\ UNCHANGED <<fields, cont, slot, havekids, wchan, envVars>>

\* wakeup1() returns; the caller of wakeup(ch) releases its lock.
WakeReturn(t) ==
    /\ Step(t, "wk", cont[t]) /\ wslot[t] = NPROC + 1
    /\ lk' = [ch \in Chans |-> IF ch = wchan[t] THEN 0 ELSE lk[ch]]
    /\ wslot' = [wslot EXCEPT ![t] = 1]
    /\ wchan' = [wchan EXCEPT ![t] = 0]
    /\ cont' = [cont EXCEPT ![t] = "user"]
    /\ UNCHANGED <<procVars, slot, havekids, run, avail, panicked>>

-----------------------------------------------------------------------------
(* scheduler() *)

CanRunEvenIfFrozen(p) == psignals[p] \cap {"SIGCONT", "SIGKILL"} # {}

SchedLoop(c) ==
    /\ Step(c, "sti", "scan")
    /\ slot' = [slot EXCEPT ![c] = 1]
    /\ UNCHANGED <<procVars, locals, envVars>>

SchedPick(c) ==
    /\ At(c, "scan") /\ slot[c] \in Procs
    /\ Cas(slot[c], "RUNNABLE", "RUNNING")
    /\ LET picked == state[slot[c]] = "RUNNABLE"
       IN  /\ slot' = [slot EXCEPT ![c] = IF picked THEN @ ELSE @ + 1]
           /\ Goto(c, IF picked THEN "picked" ELSE "scan")
    /\ UNCHANGED <<fields, locals, envVars>>

SchedEnd(c) ==
    /\ Step(c, "scan", "sti") /\ slot[c] = NPROC + 1
    /\ slot' = [slot EXCEPT ![c] = 1]
    /\ UNCHANGED <<procVars, locals, envVars>>

SchedFrozen(c) ==
    /\ Step(c, "picked", "scan")
    /\ frozen[slot[c]] /\ ~CanRunEvenIfFrozen(slot[c])
    /\ Cas(slot[c], "RUNNING", "RUNNABLE")
    /\ slot' = [slot EXCEPT ![c] = @ + 1]
    /\ UNCHANGED <<fields, locals, envVars>>

SchedSwtch(c) ==
    /\ At(c, "picked")
    /\ frozen[slot[c]] => CanRunEvenIfFrozen(slot[c])
    /\ run' = [run EXCEPT ![c] = slot[c]]
    /\ UNCHANGED <<procVars, threadVars, locks, panicked>>

\* The process came back with its state changed.
PostSleep(c) ==
    /\ At(c, "post_sleep")
    /\ Cas(slot[c], "MINUS_SLEEPING", "SLEEPING")
    /\ Goto(c, IF state[slot[c]] = "MINUS_SLEEPING" THEN "post_killed"
                                                    ELSE "post_run")
    /\ UNCHANGED <<fields, locals, slot, envVars>>

PostKilled(c) ==
    /\ Step(c, "post_killed", "post_run")
    /\ IF killed[slot[c]] THEN Cas(slot[c], "SLEEPING", "RUNNABLE")
                          ELSE UNCHANGED state
    /\ UNCHANGED <<fields, locals, slot, envVars>>

PostRun(c) ==
    /\ Step(c, "post_run", "post_zombie")
    /\ Cas(slot[c], "MINUS_RUNNABLE", "RUNNABLE")
    /\ UNCHANGED <<fields, locals, slot, envVars>>

PostZombie(c) ==
    /\ At(c, "post_zombie")
    /\ LET zombie == state[slot[c]] = "MINUS_ZOMBIE"
       IN  /\ slot' = [slot EXCEPT ![c] = IF zombie THEN @ ELSE @ + 1]
           /\ Goto(c, IF zombie THEN "post_chan" ELSE "scan")
    /\ UNCHANGED <<procVars, locals, envVars>>

PostChan(c) ==
    /\ At(c, "post_chan")
    /\ chan' = [chan EXCEPT ![slot[c]] = 0]
    /\ Cas(slot[c], "MINUS_ZOMBIE", "ZOMBIE")
    /\ LET zombie == state[slot[c]] = "MINUS_ZOMBIE"
       IN  /\ slot' = [slot EXCEPT ![c] = IF zombie THEN @ ELSE @ + 1]
           /\ Goto(c, IF zombie THEN "post_wake" ELSE "scan")
    /\ UNCHANGED <<parent, sigs, locals, envVars>>

\* wakeup1(p->parent), p->parent read after p became ZOMBIE.
PostWake(c) ==
    /\ Step(c, "post_wake", "wk")
    /\ wchan' = [wchan EXCEPT ![c] = parent[slot[c]]]
    /\ slot' = [slot EXCEPT ![c] = @ + 1]
    /\ cont' = [cont EXCEPT ![c] = "scan"]
    /\ UNCHANGED <<procVars, havekids, wslot, envVars>>

-----------------------------------------------------------------------------
(* Signals with their default handlers; Signals.tla has the whole of them. *)

Kill(p, q, sig) ==
    /\ sig \in Calls
    /\ Step(p, "user", "trapret") /\ ~killed[p]
    /\ state[q] # "UNUSED" /\ q # initproc
    /\ psignals' = [psignals EXCEPT ![q] = @ \cup {sig}]
    /\ UNCHANGED <<state, chan, parent, killed, frozen, locals, slot, envVars>>

\* handle_signals() takes the pending signals in the order of their numbers:
\* SIGKILL, SIGSTOP, SIGCONT.
TrapRet(p) ==
    /\ Step(p, "trapret", "user")
    /\ killed' = [killed EXCEPT ![p] = @ \/ "SIGKILL" \in psignals[p]]
    /\ frozen' = [frozen EXCEPT ![p] = /\ "SIGCONT" \notin psignals[p]
                                       /\ @ \/ "SIGSTOP" \in psignals[p]]
    /\ psignals' = [psignals EXCEPT ![p] = {}]
    /\ UNCHANGED <<state, chan, parent, locals, slot, envVars>>

-----------------------------------------------------------------------------
\* userinit() has made initproc runnable; the other slots are free.  Some of
\* the CPUs exist and have started (mpinit(), startothers()).
Init ==
    /\ state = [p \in Procs |-> IF p = initproc THEN "RUNNABLE" ELSE "UNUSED"]
    /\ chan = [p \in Procs |-> 0]
    /\ parent = [p \in Procs |-> 0]
    /\ killed = [p \in Procs |-> FALSE]
    /\ frozen = [p \in Procs |-> FALSE]
    /\ psignals = [p \in Procs |-> {}]
    /\ \E started \in SUBSET Cpus :
           /\ started # {}
           /\ pc = [t \in Threads |-> IF t \in started THEN "sti"
                                      ELSE IF t \in Cpus THEN "off" ELSE "trapret"]
    /\ cont = [t \in Threads |-> "user"]
    /\ slot = [t \in Threads |-> 1]
    /\ havekids = [p \in Procs |-> FALSE]
    /\ wslot = [t \in Threads |-> 1]
    /\ wchan = [t \in Threads |-> 0]
    /\ run = [c \in Cpus |-> 0]
    /\ lk = [ch \in Chans |-> 0]
    /\ avail = [ch \in Chans |-> FALSE]
    /\ panicked = FALSE

\* What the kernel does once started, system calls under way included.
KernelStep(p) ==
    \/ TrapRet(p)
    \/ ForkFail(p) \/ ForkRun(p)
    \/ ExitZombie(p) \/ ExitReparent(p) \/ ExitCheck(p) \/ ExitSched(p)
    \/ WaitSleeping(p, "wait") \/ WaitChan(p) \/ WaitScan(p)
    \/ WaitReap(p) \/ WaitReapRun(p) \/ WaitReapFree(p)
    \/ WaitNoKids(p) \/ WaitSched(p)
    \/ SleepDone(p) \/ Sleep(p) \/ SleepRelease(p) \/ SleepSched(p)
    \/ SleepAcquire(p)

YieldStep(p) == Yield(p) \/ YieldSched(p)

WakeStep(t) ==
    \/ WakeState(t) \/ WakeChan(t) \/ WakeCas(t) \/ WakeBreak(t)
    \/ WakeRunnable(t) \/ WakeReturn(t)

CallStep(p) ==
    \/ \E np \in Procs : ForkAlloc(p, np)
    \/ ForkNone(p)
    \/ Exit(p) \/ Fault(p)
    \/ WaitCall(p)
    \/ \E ch \in Chans : SleepStart(p, ch)
    \/ \E q \in Procs, sig \in Sigs : Kill(p, q, sig)

SchedStep(c) ==
    \/ SchedLoop(c) \/ SchedPick(c) \/ SchedEnd(c) \/ SchedFrozen(c)
    \/ SchedSwtch(c) \/ PostSleep(c) \/ PostKilled(c) \/ PostRun(c)
    \/ PostZombie(c) \/ PostChan(c) \/ PostWake(c)

Next ==
    \/ \E p \in Procs : KernelStep(p) \/ CallStep(p) \/ YieldStep(p)
    \/ \E c \in Cpus : SchedStep(c)
    \/ \E t \in Threads : WakeStep(t) \/ \E ch \in Chans : WakeStart(t, ch)

Spec == Init /\ [][Next]_vars

\* A clock tick: trap() sends a killed process to exit(), others to yield().
Tick(p) == Yield(p) \/ (killed[p] /\ Exit(p))

\* CPUs execute; a process that is dispatched again and again makes progress
\* in the kernel (a clock tick is long) and gets ticks; init.c waits in a loop.
Fairness ==
    /\ \A c \in Cpus : SF_vars(SchedStep(c)) /\ SF_vars(WakeStep(c))
    /\ \A p \in Procs : /\ SF_vars(KernelStep(p)) /\ SF_vars(Tick(p))
                        /\ SF_vars(WakeStep(p) \/ YieldSched(p))
    /\ SF_vars(WaitCall(initproc))

FairSpec == Spec /\ Fairness

-----------------------------------------------------------------------------
\* Type correctness of the process table and of the threads' locals.
TypeOK ==
    /\ state \in [Procs -> ProcState]
    /\ chan \in [Procs -> {0} \cup Procs \cup Chans]
    /\ parent \in [Procs -> {0} \cup Procs]
    /\ killed \in [Procs -> BOOLEAN]
    /\ frozen \in [Procs -> BOOLEAN]
    /\ psignals \in [Procs -> SUBSET Sigs]
    /\ pc \in [Threads -> ProcPc \cup CpuPc \cup {"off"}]
    /\ cont \in [Threads -> ProcPc \cup CpuPc]
    /\ slot \in [Threads -> 1 .. NPROC + 1]
    /\ havekids \in [Procs -> BOOLEAN]
    /\ wslot \in [Threads -> 1 .. NPROC + 1]
    /\ wchan \in [Threads -> {0} \cup Procs \cup Chans]
    /\ run \in [Cpus -> {0} \cup Procs]
    /\ lk \in [Chans -> {0} \cup Threads]
    /\ avail \in [Chans -> BOOLEAN]
    /\ panicked \in BOOLEAN

\* The machine has one CPU.
Uniprocessor == \E c \in Cpus : {d \in Cpus : pc[d] # "off"} = {c}

\* On one CPU no CAS whose failure panics ever fails (exit, wait, sleep), and
\* sched() is never entered in state RUNNING.
NoPanic == Uniprocessor => ~panicked

\* On one CPU no process is executed whose slot, and kernel stack, was freed.
OneCpuUp == Uniprocessor => ~Corrupt

\* "this line elminate from 2 cpu's run the same process!": no two CPUs
\* execute one process, and none executes a process whose slot was freed.
OneCpuPerProcess == ~Corrupt

\* Process p works on slot j: fork() between claiming and publishing it,
\* wait() between claiming a zombie and freeing it.
Forking(p) == pc[p] = "fork" \/ cont[p] = "fork"
Reaping(p) == pc[p] \in {"reap", "reap_run", "reap_free"}

\* A slot in EMBRYO or MINUS_UNUSED belongs to exactly one process, which is
\* creating or reaping it: no slot is allocated twice, freed twice or leaked.
SlotOwner ==
    /\ \A p \in Procs : /\ (Forking(p) => state[slot[p]] = "EMBRYO")
                        /\ (Reaping(p) => state[slot[p]] = "MINUS_UNUSED")
    /\ \A p, q \in Procs :
        (p # q /\ (Forking(p) \/ Reaping(p)) /\ (Forking(q) \/ Reaping(q)))
            => slot[p] # slot[q]
    /\ \A j \in Procs :
        /\ (state[j] = "EMBRYO" => \E p \in Procs : Forking(p) /\ slot[p] = j)
        /\ (state[j] = "MINUS_UNUSED" =>
                \E p \in Procs : Reaping(p) /\ slot[p] = j)

\* No process names a free slot as its parent: exit() passes every child to
\* initproc before the exiting process's slot can be reused.
ParentAlive ==
    Corrupt \/
    \A j \in Procs : parent[j] # 0 =>
        state[parent[j]] \notin {"UNUSED", "MINUS_UNUSED", "EMBRYO"}

\* A thread is waking channel ch and has not yet passed process p.
Waking(t, ch, p) ==
    /\ pc[t] \in WakePc /\ wchan[t] = ch
    /\ \/ wslot[t] < p
       \/ wslot[t] = p /\ pc[t] # "wk_run"

\* Somebody completes every change in progress: a process in a MINUS_ state
\* or RUNNING is executed by a CPU, is in a scheduler's hands, or is being
\* woken.
NotStranded ==
    \A p \in Procs :
        /\ state[p] \in {"RUNNING", "MINUS_SLEEPING", "MINUS_RUNNABLE",
                         "MINUS_ZOMBIE"} =>
            \/ \E c \in Cpus : run[c] = p
            \/ \E c \in Cpus : slot[c] = p /\ pc[c] \in CpuPc \ {"sti", "scan"}
            \/ \E t \in Threads : pc[t] = "wk_run" /\ wslot[t] = p

\* No exit is missed: when a process sleeps in wait() and a child is a
\* zombie, a wakeup of that process is under way.
NoLostExit ==
    \A p, j \in Procs :
        (/\ state[p] = "SLEEPING" /\ pc[p] = "wait" /\ chan[p] = p
         /\ parent[j] = p /\ state[j] = "ZOMBIE")
        => \/ \E t \in Threads : Waking(t, p, p)
           \/ \E c \in Cpus : pc[c] = "post_wake" /\ slot[c] = j
           \/ \E q \in Procs : pc[q] = "exit_check" /\ slot[q] = j

\* No wakeup is lost: when a process sleeps on ch and the condition holds,
\* a wakeup(ch) that has yet to reach the process is under way.
NoLostWakeup ==
    \A p \in Procs, ch \in Chans :
        (/\ state[p] = "SLEEPING" /\ pc[p] = "slp_acquire" /\ chan[p] = ch
         /\ avail[ch])
        => \E t \in Threads : Waking(t, ch, p)

\* The channel a process sleeps on is cleared in its own exit only: "were
\* here from the exit situation, we delayed the channel change to this exact
\* moment" (proc.c:525), so a process that has switched away to sleep keeps
\* its channel and can be woken.
SleeperKeepsChan ==
    \A p \in Procs :
        state[p] = "SLEEPING" /\ pc[p] \in {"wait", "slp_acquire"} => chan[p] # 0

\* "If non-zero, sleeping on chan" (proc.h:47): a process that was woken and
\* is ready to run has no channel.
WokenHasNoChan == \A p \in Procs : state[p] = "RUNNABLE" => chan[p] = 0

\* allocproc() initialises the "state required to run in the kernel"
\* (proc.c:98-100): a process is not born stopped.
BornUnfrozen ==
    [][\A p \in Procs :
        state[p] = "EMBRYO" /\ state'[p] = "RUNNABLE" => ~frozen'[p]]_vars

\* A process waiting for its children returns once one of them has exited,
\* unless it is stopped.
WaitReturns ==
    \A p \in Procs :
        (pc[p] = "wait" /\ \E j \in Procs : parent[j] = p /\ state[j] = "ZOMBIE")
            ~> (pc[p] # "wait" \/ frozen[p])

\* Every zombie whose parent is init, orphans included, is reaped.
OrphansReaped ==
    \A j \in Procs \ {initproc} :
        (state[j] = "ZOMBIE" /\ parent[j] = initproc)
            ~> (state[j] # "ZOMBIE" \/ \E p \in Procs : pc[p] = "fork")

\* wakeup1() terminates: "withput this if, the process will be stuck at
\* busywaiting!" (proc.c:679).
WakeupReturns ==
    \A t \in Threads :
        pc[t] = "wk_cas" ~> (pc[t] # "wk_cas" \/ panicked \/ Corrupt)

\* A killed process exits: "Force process exit if it has been killed and is
\* in user space" (trap.c:97).
KilledExits ==
    \A p \in Procs : killed[p] ~> state[p] \in {"ZOMBIE"} \cup FreeStates
=============================================================================
