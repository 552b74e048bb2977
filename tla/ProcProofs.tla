----------------------------- MODULE ProcProofs -----------------------------
(***************************************************************************)
(* For every table size and every set of CPUs: the process table is type   *)
(* correct, a slot being allocated or freed has exactly one owner, a       *)
(* process's parent is never a free slot, and nobody is left in a          *)
(* transitional state.  First the steps that create, reap and reparent     *)
(* nobody, then each of the others.                                        *)
(***************************************************************************)
EXTENDS Proc, TLAPS

Live == ProcState \ (FreeStates \cup {"ZOMBIE", "MINUS_ZOMBIE"})
PostPc == {"post_sleep", "post_killed", "post_run", "post_zombie",
           "post_chan", "post_wake"}

OnCpu(p) == \E c \in Cpus : run[c] = p

\* Process p is in the loop of exit() that passes its children to initproc.
InExit(p) == pc[p] \in ExitPc \/ (pc[p] \in WakePc /\ cont[p] = "exit")

-----------------------------------------------------------------------------
(* The inductive invariant *)

\* The loop variables are in range where they are used.
LocalsOK ==
    /\ \A c \in Cpus : run[c] # 0 => run[c] = slot[c] /\ pc[c] = "picked"
    /\ \A c \in Cpus : pc[c] \in PostPc \cup {"picked"} => slot[c] \in Procs
    /\ \A p \in Procs : pc[p] = "exit_check" \/ Forking(p) \/ Reaping(p)
                            => slot[p] \in Procs
    /\ \A t \in Threads : pc[t] \in WakePc \ {"wk"} => wslot[t] \in Procs

\* Where threads return to from yield(), sleep() and wakeup1().
ContOK ==
    /\ \A c \in Cpus :
        /\ pc[c] \in CpuPc \cup {"off"} /\ cont[c] \in {"user", "sti", "scan"}
        /\ pc[c] \in WakePc => cont[c] # "user"
    /\ \A p \in Procs :
        /\ pc[p] \in ProcPc
        /\ cont[p] \in {"user", "trapret", "fork", "closing", "exit"}
        /\ cont[p] # "user" => pc[p] \in WakePc \cup SleepPc \cup {"sched"}
        /\ cont[p] = "exit" => pc[p] \in WakePc

\* A free slot has no thread under way.
FreeIdle == \A p \in Procs : state[p] \in FreeStates => pc[p] \in {"dead", "trapret"}

\* A process is a zombie when its thread is dead, or still on a CPU at the
\* end of exit().
ZombieExits ==
    \A p \in Procs :
        /\ state[p] \in {"ZOMBIE", "MINUS_ZOMBIE"} => pc[p] = "dead" \/ InExit(p)
        /\ InExit(p) => OnCpu(p) /\ (state[p] \in Live => panicked)

\* A dead thread has no children and does not run again.
DeadChildless ==
    \A p \in Procs : pc[p] = "dead" =>
        /\ state[p] \notin Live
        /\ \A j \in Procs : parent[j] # p

\* The loop of exit() leaves no child behind.
ExitPassed ==
    \A p \in Procs : InExit(p) =>
        \A j \in Procs : j < slot[p] \/ (j = slot[p] /\ pc[p] = "exit_check")
                            => parent[j] # p

\* initproc does not exit.
InitAlive ==
    /\ pc[initproc] \notin {"closing", "dead"} /\ cont[initproc] # "closing"
    /\ ~InExit(initproc)
    /\ state[initproc] \notin FreeStates

ParentsUsed ==
    \A j \in Procs : parent[j] # 0 => state[parent[j]] \notin FreeStates

Family ==
    /\ FreeIdle /\ ZombieExits /\ DeadChildless /\ ExitPassed /\ InitAlive
    /\ ParentsUsed

Typed == TypeOK /\ LocalsOK /\ ContOK

IInv == Typed /\ SlotOwner /\ (Corrupt \/ Family)

\* What a step of thread t does when it creates, reaps and reparents nobody
\* and neither enters nor leaves the end of exit().
Quiet(t) ==
    /\ parent' = parent
    /\ \A q \in Procs : \/ state'[q] = state[q]
                        \/ state[q] \in Live /\ state'[q] \in Live
                        \/ state[q] = "MINUS_ZOMBIE" /\ state'[q] = "ZOMBIE"
    /\ \A q \in Procs \ {t} :
        /\ pc'[q] = pc[q] /\ cont'[q] = cont[q] /\ slot'[q] = slot[q]
        /\ (OnCpu(q) => OnCpu(q)')
    /\ t \in Procs =>
        /\ pc[t] # "dead" /\ pc'[t] # "dead"
        /\ (Forking(t)' <=> Forking(t)) /\ (Reaping(t)' <=> Reaping(t))
        /\ (InExit(t)' <=> InExit(t))
        /\ (Forking(t) \/ Reaping(t) \/ InExit(t) => slot'[t] = slot[t])
        /\ (InExit(t) => /\ OnCpu(t)'
                         /\ (pc'[t] = "exit_check" => pc[t] = "exit_check"))
        /\ (t = initproc => pc'[t] # "closing" /\ cont'[t] # "closing")

-----------------------------------------------------------------------------
LEMMA Consts ==
    /\ NPROC \in Nat /\ initproc \in Procs /\ initproc = 1
    /\ Procs \subseteq Threads /\ Cpus \subseteq Threads
    /\ Threads = Procs \cup Cpus
    /\ \A p \in Procs : p \in Nat /\ p # 0 /\ p \notin Cpus
    /\ \A p \in Procs : p \in 1 .. NPROC + 1 /\ p + 1 \in 1 .. NPROC + 1
    /\ \A i \in 1 .. NPROC + 1 : i \in Nat /\ (i # NPROC + 1 => i \in Procs)
BY NPROCAssumption, ThreadAssumption DEF Procs, Threads, initproc

\* A thread that executes has a slot in use.
LEMMA Running ==
    ASSUME IInv, NEW t \in Threads, Executes(t)
    PROVE  /\ ~Corrupt /\ Family
           /\ t \in Procs => OnCpu(t) /\ state[t] \notin FreeStates
BY Consts, Zenon DEF Executes, Corrupt, IInv, OnCpu

\* Steps that neither allocate nor free a slot preserve its owner.
LEMMA OwnerFrame ==
    ASSUME SlotOwner, LocalsOK,
           \A q \in Procs :
             /\ (state'[q] = "EMBRYO" <=> state[q] = "EMBRYO")
             /\ (state'[q] = "MINUS_UNUSED" <=> state[q] = "MINUS_UNUSED")
             /\ (Forking(q)' <=> Forking(q)) /\ (Reaping(q)' <=> Reaping(q))
             /\ (Forking(q) \/ Reaping(q) => slot'[q] = slot[q])
    PROVE  SlotOwner'
<1>1. \A p \in Procs : Forking(p) \/ Reaping(p) => slot[p] \in Procs
  BY Zenon DEF LocalsOK
<1>2. \A p \in Procs : /\ (Forking(p)' => state'[slot'[p]] = "EMBRYO")
                       /\ (Reaping(p)' => state'[slot'[p]] = "MINUS_UNUSED")
  BY <1>1 DEF SlotOwner
<1>3. \A p, q \in Procs :
        (p # q /\ (Forking(p) \/ Reaping(p))' /\ (Forking(q) \/ Reaping(q))')
            => slot'[p] # slot'[q]
  BY <1>1 DEF SlotOwner
<1>4. \A j \in Procs :
        /\ (state'[j] = "EMBRYO" => \E p \in Procs : Forking(p)' /\ slot'[p] = j)
        /\ (state'[j] = "MINUS_UNUSED" =>
                \E p \in Procs : Reaping(p)' /\ slot'[p] = j)
  BY <1>1 DEF SlotOwner
<1> QED
  BY <1>2, <1>3, <1>4, Zenon DEF SlotOwner

\* Quiet steps preserve the parts of the invariant that are not types.
LEMMA QuietStep ==
    ASSUME IInv, NEW t \in Threads, Executes(t), Quiet(t)
    PROVE  SlotOwner' /\ Family'
<1> initproc \in Procs
  BY Consts, Zenon
<1>1. Family /\ (t \in Procs => state[t] \notin FreeStates)
  BY Running, Zenon
<1>2. \A q \in Procs :
        /\ (state'[q] \in FreeStates <=> state[q] \in FreeStates)
        /\ (state'[q] = "EMBRYO" <=> state[q] = "EMBRYO")
        /\ (state'[q] = "MINUS_UNUSED" <=> state[q] = "MINUS_UNUSED")
        /\ (state'[q] \in {"ZOMBIE", "MINUS_ZOMBIE"}
              <=> state[q] \in {"ZOMBIE", "MINUS_ZOMBIE"})
        /\ (state'[q] \in Live <=> state[q] \in Live)
  BY Zenon DEF Quiet, FreeStates, Live, IInv, Typed, TypeOK, ProcState
<1>3. \A q \in Procs :
        /\ (Forking(q)' <=> Forking(q)) /\ (Reaping(q)' <=> Reaping(q))
        /\ (InExit(q)' <=> InExit(q))
        /\ (Forking(q) \/ Reaping(q) \/ InExit(q) => slot'[q] = slot[q])
        /\ (pc'[q] = "dead" <=> pc[q] = "dead")
  BY DEF Quiet, Forking, Reaping, InExit
<1>4. SlotOwner'
  BY <1>2, <1>3, OwnerFrame, Zenon DEF IInv, Typed
<1>5. FreeIdle'
  BY <1>1, <1>2, Zenon DEF Family, FreeIdle, Quiet
<1>6. ZombieExits'
  BY <1>1, <1>2, <1>3, SMTT(40) DEF Family, ZombieExits, Quiet, InExit, OnCpu, Executes
<1>7. DeadChildless'
  BY <1>1, <1>2, <1>3, SMTT(40) DEF Family, DeadChildless, Quiet
<1>8. ExitPassed'
  BY <1>1, <1>3, SMTT(40) DEF Family, ExitPassed, Quiet, InExit
<1>9. InitAlive'
  BY <1>1, <1>2, <1>3 DEF Family, InitAlive, Quiet, InExit
<1>10. ParentsUsed'
  BY <1>1, <1>2, Zenon DEF Family, ParentsUsed, Quiet, IInv, Typed, TypeOK
<1> QED
  BY <1>4, <1>5, <1>6, <1>7, <1>8, <1>9, <1>10, Zenon DEF Family

\* The steps of a process that create, reap and reparent nobody.
ProcQuietStep(p) ==
    \/ TrapRet(p) \/ ForkNone(p) \/ Exit(p) \/ Fault(p)
    \/ WaitCall(p) \/ WaitSleeping(p, "wait") \/ WaitChan(p) \/ WaitReapRun(p)
    \/ WaitNoKids(p) \/ WaitSched(p)
    \/ \E ch \in Chans : SleepStart(p, ch)
    \/ SleepDone(p) \/ Sleep(p) \/ SleepRelease(p) \/ SleepSched(p)
    \/ SleepAcquire(p) \/ YieldStep(p)
    \/ \E q \in Procs, sig \in Sigs : Kill(p, q, sig)

\* The steps that do.
FamilyStep(p) ==
    \/ \E np \in Procs : ForkAlloc(p, np)
    \/ ForkFail(p) \/ ForkRun(p)
    \/ ExitZombie(p) \/ ExitReparent(p) \/ ExitCheck(p) \/ ExitSched(p)
    \/ WaitScan(p) \/ WaitReap(p) \/ WaitReapFree(p)

-----------------------------------------------------------------------------
(* Types *)

\* The steps of processes preserve the types; ForkRun is below.
LEMMA ProcTyped ==
    ASSUME Typed, NEW p \in Procs, ProcQuietStep(p) \/ (FamilyStep(p) /\ ~ForkRun(p))
    PROVE  Typed'
<1> USE Consts
    DEF Typed, TypeOK, LocalsOK, ContOK, Forking, Reaping, Cas, Step, At, Goto,
        Swtch, Resume, procVars, fields, sigs, locals, wake, envVars, locks,
        threadVars, ProcState, UserPc, ExitPc, WaitPc, SleepPc, WakePc, ProcPc,
        CpuPc, PostPc, Sigs
<1>1. CASE TrapRet(p)
  BY <1>1, SMTT(40) DEF TrapRet
<1>2. CASE ForkNone(p)
  BY <1>2, SMTT(40) DEF ForkNone
<1>3. CASE Exit(p)
  BY <1>3, SMTT(40) DEF Exit
<1>4. CASE Fault(p)
  BY <1>4, SMTT(40) DEF Fault
<1>5. CASE WaitCall(p)
  BY <1>5, SMTT(40) DEF WaitCall, WaitSleeping
<1>6. CASE WaitSleeping(p, "wait")
  BY <1>6, SMTT(40) DEF WaitSleeping
<1>7. CASE WaitChan(p)
  BY <1>7, SMTT(40) DEF WaitChan
<1>8. CASE WaitReapRun(p)
  BY <1>8, SMTT(40) DEF WaitReapRun
<1>9. CASE WaitNoKids(p)
  BY <1>9, SMTT(40) DEF WaitNoKids
<1>10. CASE WaitSched(p)
  BY <1>10, SMTT(30) DEF WaitSched
<1>11. CASE \E ch \in Chans : SleepStart(p, ch)
  BY <1>11 DEF SleepStart
<1>12. CASE SleepDone(p)
  BY <1>12, ZenonT(40) DEF SleepDone
<1>13. CASE Sleep(p)
  BY <1>13 DEF Sleep
<1>14. CASE SleepRelease(p)
  BY <1>14, ZenonT(40) DEF SleepRelease
<1>15. CASE SleepSched(p)
  BY <1>15, SMTT(40) DEF SleepSched
<1>16. CASE SleepAcquire(p)
  BY <1>16, ZenonT(40) DEF SleepAcquire
<1>17. CASE Yield(p)
  BY <1>17 DEF Yield
<1>18. CASE YieldSched(p)
  BY <1>18, SMTT(40) DEF YieldSched
<1>19. CASE \E q \in Procs, sig \in Sigs : Kill(p, q, sig)
  BY <1>19, SMTT(40) DEF Kill
<1>20. CASE \E np \in Procs : ForkAlloc(p, np)
  BY <1>20, SMTT(40) DEF ForkAlloc
<1>21. CASE ForkFail(p)
  BY <1>21, SMTT(40) DEF ForkFail
<1>22. CASE ExitZombie(p)
  BY <1>22, SMTT(40) DEF ExitZombie
<1>23. CASE ExitReparent(p)
  BY <1>23, SMTT(40) DEF ExitReparent
<1>24. CASE ExitCheck(p)
  BY <1>24, SMTT(30) DEF ExitCheck
<1>25. CASE ExitSched(p)
  BY <1>25, SMTT(30) DEF ExitSched
<1>26. CASE WaitScan(p)
  BY <1>26, SMTT(30) DEF WaitScan
<1>27. CASE WaitReap(p)
  BY <1>27, SMTT(30) DEF WaitReap
<1>28. CASE WaitReapFree(p)
  BY <1>28 DEF WaitReapFree
<1> QED
  BY ZenonT(40), <1>1, <1>2, <1>3, <1>4, <1>5, <1>6, <1>7, <1>8, <1>9, <1>10, <1>11,
     <1>12, <1>13, <1>14, <1>15, <1>16, <1>17, <1>18, <1>19, <1>20, <1>21,
     <1>22, <1>23, <1>24, <1>25, <1>26, <1>27, <1>28
  DEF ProcQuietStep, YieldStep, FamilyStep

\* wakeup1() preserves the types.
LEMMA WakeTyped ==
    ASSUME Typed, NEW t \in Threads, WakeStep(t) \/ \E ch \in Chans : WakeStart(t, ch)
    PROVE  Typed'
<1> USE Consts
    DEF Typed, TypeOK, LocalsOK, ContOK, Forking, Reaping, Cas, Step, At, Goto,
        Swtch, Resume, procVars, fields, sigs, locals, wake, envVars, locks,
        threadVars, ProcState, UserPc, ExitPc, WaitPc, SleepPc, WakePc, ProcPc,
        CpuPc, PostPc, Sigs
<1>1. CASE \E ch \in Chans : WakeStart(t, ch)
  <2> PICK ch \in Chans : WakeStart(t, ch)
    BY <1>1, Zenon
  <2>1. TypeOK'
    BY ZenonT(60) DEF WakeStart
  <2>2. LocalsOK'
    BY SMTT(30) DEF WakeStart
  <2>3. ContOK'
    BY SMTT(30) DEF WakeStart
  <2> QED BY <2>1, <2>2, <2>3, Zenon
<1>2. CASE WakeState(t)
  BY <1>2, SMTT(30) DEF WakeState
<1>3. CASE WakeChan(t)
  BY <1>3, SMTT(30) DEF WakeChan
<1>4. CASE WakeCas(t)
  BY <1>4, SMTT(30) DEF WakeCas
<1>5. CASE WakeBreak(t)
  BY <1>5, SMTT(30) DEF WakeBreak
<1>6. CASE WakeRunnable(t)
  BY <1>6, SMTT(30) DEF WakeRunnable
<1>7. CASE WakeReturn(t)
  BY <1>7 DEF WakeReturn
<1> QED
  BY <1>1, <1>2, <1>3, <1>4, <1>5, <1>6, <1>7, ZenonT(40)
  DEF WakeStep

\* scheduler() preserves the types.
LEMMA SchedTyped ==
    ASSUME Typed, NEW c \in Cpus, SchedStep(c)
    PROVE  Typed'
<1> USE Consts
    DEF Typed, TypeOK, LocalsOK, ContOK, Forking, Reaping, Cas, Step, At, Goto,
        Swtch, Resume, procVars, fields, sigs, locals, wake, envVars, locks,
        threadVars, ProcState, UserPc, ExitPc, WaitPc, SleepPc, WakePc, ProcPc,
        CpuPc, PostPc, Sigs
<1>1. CASE SchedLoop(c)
  BY <1>1, SMTT(30) DEF SchedLoop
<1>2. CASE SchedPick(c)
  BY <1>2, SMTT(30) DEF SchedPick
<1>3. CASE SchedEnd(c)
  BY <1>3, SMTT(30) DEF SchedEnd
<1>4. CASE SchedFrozen(c)
  <2>1. TypeOK'
    BY <1>4, SMTT(30) DEF SchedFrozen
  <2>2. LocalsOK'
    BY <1>4, SMTT(30) DEF SchedFrozen, Executes
  <2>3. ContOK'
    BY <1>4, SMTT(30) DEF SchedFrozen
  <2> QED BY <2>1, <2>2, <2>3, ZenonT(60)
<1>5. CASE SchedSwtch(c)
  BY <1>5, SMTT(30) DEF SchedSwtch
<1>6. CASE PostSleep(c)
  BY <1>6, SMTT(30) DEF PostSleep
<1>7. CASE PostKilled(c)
  BY <1>7, SMTT(30) DEF PostKilled
<1>8. CASE PostRun(c)
  BY <1>8, SMTT(30) DEF PostRun
<1>9. CASE PostZombie(c)
  BY <1>9, SMTT(30) DEF PostZombie
<1>10. CASE PostChan(c)
  BY <1>10, SMTT(30) DEF PostChan
<1>11. CASE PostWake(c)
  BY <1>11 DEF PostWake
<1> QED
  BY <1>1, <1>2, <1>3, <1>4, <1>5, <1>6, <1>7, <1>8, <1>9, <1>10, <1>11, ZenonT(40)
  DEF SchedStep

-----------------------------------------------------------------------------
(* Quiet steps *)

\* A process outside the end of exit().
LEMMA ProcQuiet ==
    ASSUME Typed, InitAlive, NEW p \in Procs, ProcQuietStep(p)
    PROVE  Quiet(p) /\ Executes(p)
<1>c. /\ initproc \in Procs /\ Procs \subseteq Threads /\ Cpus \subseteq Threads
      /\ \A q \in Procs : q \notin Cpus /\ q # 0
  BY Consts, Zenon
<1>t. /\ state \in [Procs -> ProcState] /\ pc \in [Threads -> ProcPc \cup CpuPc \cup {"off"}]
      /\ cont \in [Threads -> ProcPc \cup CpuPc] /\ slot \in [Threads -> 1 .. NPROC + 1]
      /\ run \in [Cpus -> {0} \cup Procs]
  BY Zenon DEF Typed, TypeOK
<1>l. /\ cont[p] \in {"user", "trapret", "fork", "closing", "exit"} /\ pc[p] \in ProcPc
      /\ cont[p] # "user" => pc[p] \in WakePc \cup SleepPc \cup {"sched"}
      /\ cont[p] = "exit" => pc[p] \in WakePc
  BY Zenon DEF Typed, ContOK, LocalsOK
<1>i. p = initproc => pc[p] \notin {"closing", "dead"} /\ cont[p] # "closing"
  BY Zenon DEF InitAlive
<1>x. Executes(p) => IF p \in Cpus THEN run[p] = 0 ELSE OnCpu(p)
  BY Zenon DEF Executes, OnCpu
<1> USE DEF Quiet, OnCpu, InExit, Live, ProcState, Forking, Reaping, FreeStates, Cas, Step, At,
        Goto, Swtch, Resume, procVars, fields, sigs, locals, wake, envVars, locks, threadVars,
        UserPc, ExitPc, SleepPc, WakePc, PostPc
<1>1. CASE TrapRet(p)
  BY <1>c, <1>t, <1>l, <1>i, <1>x, <1>1, SMTT(30) DEF TrapRet
<1>2. CASE ForkNone(p)
  BY <1>c, <1>t, <1>l, <1>i, <1>x, <1>2, SMTT(30) DEF ForkNone
<1>3. CASE Exit(p)
  BY <1>c, <1>t, <1>l, <1>i, <1>x, <1>3, SMTT(30) DEF Exit
<1>4. CASE Fault(p)
  BY <1>c, <1>t, <1>l, <1>i, <1>x, <1>4, SMTT(30) DEF Fault
<1>5. CASE WaitCall(p)
  BY <1>c, <1>t, <1>l, <1>i, <1>x, <1>5, SMTT(30) DEF WaitCall, WaitSleeping
<1>6. CASE WaitSleeping(p, "wait")
  BY <1>c, <1>t, <1>l, <1>i, <1>x, <1>6, SMTT(30) DEF WaitSleeping
<1>7. CASE WaitChan(p)
  BY <1>c, <1>t, <1>l, <1>i, <1>x, <1>7, SMTT(30) DEF WaitChan
<1>8. CASE WaitReapRun(p)
  BY <1>c, <1>t, <1>l, <1>i, <1>x, <1>8, SMTT(30) DEF WaitReapRun
<1>9. CASE WaitNoKids(p)
  BY <1>c, <1>t, <1>l, <1>i, <1>x, <1>9, SMTT(30) DEF WaitNoKids
<1>10. CASE WaitSched(p)
  BY <1>c, <1>t, <1>l, <1>i, <1>x, <1>10, SMTT(30) DEF WaitSched
<1>11. CASE \E ch \in Chans : SleepStart(p, ch)
  BY <1>c, <1>t, <1>l, <1>i, <1>x, <1>11, SMTT(30) DEF SleepStart
<1>12. CASE SleepDone(p)
  BY <1>c, <1>t, <1>l, <1>i, <1>x, <1>12, SMTT(60) DEF SleepDone
<1>13. CASE Sleep(p)
  BY <1>c, <1>t, <1>l, <1>i, <1>x, <1>13, SMTT(40) DEF Sleep
<1>14. CASE SleepRelease(p)
  BY <1>c, <1>t, <1>l, <1>i, <1>x, <1>14, SMTT(30) DEF SleepRelease
<1>15. CASE SleepSched(p)
  BY <1>c, <1>t, <1>l, <1>i, <1>x, <1>15, SMTT(30) DEF SleepSched
<1>16. CASE SleepAcquire(p)
  BY <1>c, <1>t, <1>l, <1>i, <1>x, <1>16, SMTT(30) DEF SleepAcquire
<1>17. CASE Yield(p)
  BY <1>c, <1>t, <1>l, <1>i, <1>x, <1>17, SMTT(30) DEF Yield
<1>18. CASE YieldSched(p)
  BY <1>c, <1>t, <1>l, <1>i, <1>x, <1>18, SMTT(60) DEF YieldSched
<1>19. CASE \E q \in Procs, sig \in Sigs : Kill(p, q, sig)
  BY <1>c, <1>t, <1>l, <1>i, <1>x, <1>19, SMTT(40) DEF Kill
<1> QED
  BY ZenonT(40), <1>1, <1>2, <1>3, <1>4, <1>5, <1>6, <1>7, <1>8, <1>9, <1>10, <1>11,
     <1>12, <1>13, <1>14, <1>15, <1>16, <1>17, <1>18, <1>19
  DEF ProcQuietStep, YieldStep

\* wakeup1(), also when exit() calls it.
LEMMA WakeQuiet ==
    ASSUME Typed, InitAlive, NEW t \in Threads, WakeStep(t) \/ \E ch \in Chans : WakeStart(t, ch)
    PROVE  Quiet(t) /\ Executes(t)
<1>c. /\ initproc \in Procs /\ Procs \subseteq Threads /\ Cpus \subseteq Threads
      /\ \A q \in Procs : q \notin Cpus /\ q # 0
  BY Consts, Zenon
<1>t. /\ state \in [Procs -> ProcState] /\ pc \in [Threads -> ProcPc \cup CpuPc \cup {"off"}]
      /\ cont \in [Threads -> ProcPc \cup CpuPc] /\ slot \in [Threads -> 1 .. NPROC + 1]
      /\ run \in [Cpus -> {0} \cup Procs]
  BY Zenon DEF Typed, TypeOK
<1>l. /\ t \in Procs =>
             /\ cont[t] \in {"user", "trapret", "fork", "closing", "exit"} /\ pc[t] \in ProcPc
             /\ cont[t] # "user" => pc[t] \in WakePc \cup SleepPc \cup {"sched"}
             /\ cont[t] = "exit" => pc[t] \in WakePc
      /\ t \in Cpus => cont[t] \in {"user", "sti", "scan"} /\ (pc[t] \in PostPc \cup {"picked"} => slot[t] \in Procs)
      /\ pc[t] \in WakePc \ {"wk"} => wslot[t] \in Procs
  BY Zenon DEF Typed, ContOK, LocalsOK
<1>i. t = initproc => pc[t] \notin {"closing", "dead"} /\ cont[t] # "closing"
  BY Zenon DEF InitAlive
<1>x. Executes(t) => IF t \in Cpus THEN run[t] = 0 ELSE OnCpu(t)
  BY Zenon DEF Executes, OnCpu
<1> USE DEF Quiet, OnCpu, InExit, Live, ProcState, Forking, Reaping, FreeStates, Cas, Step, At,
        Goto, Swtch, Resume, procVars, fields, sigs, locals, wake, envVars, locks, threadVars,
        UserPc, ExitPc, SleepPc, WakePc, PostPc
<1>1. CASE \E ch \in Chans : WakeStart(t, ch)
  BY <1>c, <1>t, <1>l, <1>i, <1>x, <1>1, SMTT(60) DEF WakeStart
<1>2. CASE WakeState(t)
  BY <1>c, <1>t, <1>l, <1>i, <1>x, <1>2, SMTT(40) DEF WakeState
<1>3. CASE WakeChan(t)
  BY <1>c, <1>t, <1>l, <1>i, <1>x, <1>3, SMTT(30) DEF WakeChan
<1>4. CASE WakeCas(t)
  BY <1>c, <1>t, <1>l, <1>i, <1>x, <1>4, SMTT(30) DEF WakeCas
<1>5. CASE WakeBreak(t)
  BY <1>c, <1>t, <1>l, <1>i, <1>x, <1>5, SMTT(30) DEF WakeBreak
<1>6. CASE WakeRunnable(t)
  BY <1>c, <1>t, <1>l, <1>i, <1>x, <1>6, SMTT(30) DEF WakeRunnable
<1>7. CASE WakeReturn(t)
  BY <1>c, <1>t, <1>l, <1>i, <1>x, <1>7, SMTT(40) DEF WakeReturn
<1> QED
  BY <1>1, <1>2, <1>3, <1>4, <1>5, <1>6, <1>7, ZenonT(40)
  DEF WakeStep

\* scheduler().
LEMMA SchedQuiet ==
    ASSUME Typed, InitAlive, NEW c \in Cpus, SchedStep(c)
    PROVE  Quiet(c) /\ Executes(c)
<1>c. /\ initproc \in Procs /\ Procs \subseteq Threads /\ Cpus \subseteq Threads
      /\ \A q \in Procs : q \notin Cpus /\ q # 0
  BY Consts, Zenon
<1>t. /\ state \in [Procs -> ProcState] /\ pc \in [Threads -> ProcPc \cup CpuPc \cup {"off"}]
      /\ cont \in [Threads -> ProcPc \cup CpuPc] /\ slot \in [Threads -> 1 .. NPROC + 1]
      /\ run \in [Cpus -> {0} \cup Procs]
  BY Zenon DEF Typed, TypeOK
<1>l. /\ cont[c] \in {"user", "sti", "scan"}
      /\ pc[c] \in PostPc \cup {"picked"} => slot[c] \in Procs
  BY Zenon DEF Typed, ContOK, LocalsOK
<1>i. c = initproc => pc[c] \notin {"closing", "dead"} /\ cont[c] # "closing"
  BY Zenon DEF InitAlive
<1>x. Executes(c) => IF c \in Cpus THEN run[c] = 0 ELSE OnCpu(c)
  BY Zenon DEF Executes, OnCpu
<1> USE DEF Quiet, OnCpu, InExit, Live, ProcState, Forking, Reaping, FreeStates, Cas, Step, At,
        Goto, Swtch, Resume, procVars, fields, sigs, locals, wake, envVars, locks, threadVars,
        UserPc, ExitPc, SleepPc, WakePc, PostPc
<1>1. CASE SchedLoop(c)
  BY <1>c, <1>t, <1>l, <1>i, <1>x, <1>1, SMTT(30) DEF SchedLoop
<1>2. CASE SchedPick(c)
  BY <1>c, <1>t, <1>l, <1>i, <1>x, <1>2, SMTT(30) DEF SchedPick
<1>3. CASE SchedEnd(c)
  BY <1>c, <1>t, <1>l, <1>i, <1>x, <1>3, SMTT(30) DEF SchedEnd
<1>4. CASE SchedFrozen(c)
  BY <1>c, <1>t, <1>l, <1>i, <1>x, <1>4, SMTT(30) DEF SchedFrozen
<1>5. CASE SchedSwtch(c)
  BY <1>c, <1>t, <1>l, <1>i, <1>x, <1>5, SMTT(30) DEF SchedSwtch
<1>6. CASE PostSleep(c)
  BY <1>c, <1>t, <1>l, <1>i, <1>x, <1>6, SMTT(30) DEF PostSleep
<1>7. CASE PostKilled(c)
  BY <1>c, <1>t, <1>l, <1>i, <1>x, <1>7, SMTT(30) DEF PostKilled
<1>8. CASE PostRun(c)
  BY <1>c, <1>t, <1>l, <1>i, <1>x, <1>8, SMTT(30) DEF PostRun
<1>9. CASE PostZombie(c)
  BY <1>c, <1>t, <1>l, <1>i, <1>x, <1>9, SMTT(30) DEF PostZombie
<1>10. CASE PostChan(c)
  BY <1>c, <1>t, <1>l, <1>i, <1>x, <1>10, SMTT(30) DEF PostChan
<1>11. CASE PostWake(c)
  BY <1>c, <1>t, <1>l, <1>i, <1>x, <1>11, SMTT(40) DEF PostWake
<1> QED
  BY <1>1, <1>2, <1>3, <1>4, <1>5, <1>6, <1>7, <1>8, <1>9, <1>10, <1>11, ZenonT(40)
  DEF SchedStep

-----------------------------------------------------------------------------
(* fork() *)

LEMMA ForkAllocStep ==
    ASSUME IInv, NEW p \in Procs, NEW np \in Procs, ForkAlloc(p, np)
    PROVE  SlotOwner' /\ Family'
<1> USE DEF ForkAlloc, Cas, Step, At, Goto, IInv, Typed, TypeOK, ContOK
<1>1. Family /\ p # np /\ pc[p] = "user" /\ cont[p] = "user"
  <2>1. Family /\ pc[p] = "user" /\ cont[p] = "user" /\ state[p] \notin FreeStates
    BY Running, Consts, ZenonT(60) DEF SleepPc, WakePc
  <2>2. state[np] = "UNUSED"
    BY ZenonT(60)
  <2>3. state[p] # "UNUSED"
    BY <2>1, ZenonT(60) DEF FreeStates
  <2> QED BY <2>1, <2>2, <2>3, ZenonT(60)
<1>2. /\ state' = [state EXCEPT ![np] = "EMBRYO"] /\ state[np] = "UNUSED"
      /\ pc' = [pc EXCEPT ![p] = "fork"] /\ slot' = [slot EXCEPT ![p] = np]
      /\ UNCHANGED <<parent, cont, run, panicked>>
  BY Zenon DEF locals, envVars
<1>3. p \in Threads
  BY Consts, ZenonT(60)
<1>4. SlotOwner'
  BY <1>1, <1>2, <1>3, SMTT(30) DEF SlotOwner, Forking, Reaping
<1>5. FreeIdle' /\ ParentsUsed' /\ InitAlive'
  BY <1>1, <1>2, <1>3, Consts DEF Family, FreeIdle, ParentsUsed, InitAlive, FreeStates, InExit, ExitPc, WakePc
<1>6. ZombieExits'
  BY <1>1, <1>2, <1>3, SMTT(40)
  DEF Family, ZombieExits, InExit, OnCpu, ExitPc, WakePc, Live, FreeStates
<1>7. DeadChildless'
  BY <1>1, <1>2, <1>3, SMTT(40) DEF Family, DeadChildless, Live, FreeStates
<1>8. ExitPassed'
  BY <1>1, <1>2, <1>3 DEF Family, ExitPassed, InExit, ExitPc, WakePc
<1> QED
  BY <1>4, <1>5, <1>6, <1>7, <1>8, Zenon DEF Family

LEMMA ForkFailStep ==
    ASSUME IInv, NEW p \in Procs, ForkFail(p)
    PROVE  SlotOwner' /\ Family'
<1> DEFINE np == slot[p]
<1> USE DEF ForkFail, Step, At, Goto, IInv, Typed, TypeOK, ContOK
<1>1. /\ Family /\ pc[p] = "fork" /\ cont[p] = "user" /\ p \in Threads
      /\ state[p] \notin FreeStates
  BY Running, Consts, ZenonT(60) DEF SleepPc, WakePc
<1>2. np \in Procs /\ state[np] = "EMBRYO" /\ np # p /\ np # initproc
  BY <1>1, Consts DEF LocalsOK, SlotOwner, Forking, FreeStates, Family, InitAlive
<1>3. /\ state' = [state EXCEPT ![np] = "UNUSED"]
      /\ pc' = [pc EXCEPT ![p] = "trapret"] /\ slot' = [slot EXCEPT ![p] = 1]
      /\ UNCHANGED <<parent, cont, run, panicked>>
  BY Zenon DEF locals, envVars, fields
<1> HIDE DEF np, ForkFail
<1>4. SlotOwner'
  BY <1>1, <1>2, <1>3, SMTT(30) DEF SlotOwner, Forking, Reaping, np
<1>5. FreeIdle' /\ ParentsUsed' /\ InitAlive'
  BY <1>1, <1>2, <1>3, Consts DEF Family, FreeIdle, ParentsUsed, InitAlive, FreeStates, InExit, ExitPc, WakePc
<1>6. ZombieExits'
  BY <1>1, <1>2, <1>3, SMTT(40)
  DEF Family, ZombieExits, InExit, OnCpu, ExitPc, WakePc, Live, FreeStates
<1>7. DeadChildless'
  BY <1>1, <1>2, <1>3, SMTT(40) DEF Family, DeadChildless, Live, FreeStates
<1>8. ExitPassed'
  BY <1>1, <1>2, <1>3 DEF Family, ExitPassed, InExit, ExitPc, WakePc
<1> QED
  BY <1>4, <1>5, <1>6, <1>7, <1>8, Zenon DEF Family

LEMMA ForkRunStep ==
    ASSUME IInv, NEW p \in Procs, ForkRun(p)
    PROVE  IInv'
<1> DEFINE np == slot[p]
<1> USE DEF ForkRun, At, Goto, IInv, Typed, TypeOK, ContOK
<1>1. /\ Family /\ pc[p] = "fork" /\ cont[p] = "user" /\ p \in Threads
      /\ state[p] \notin FreeStates
  BY Running, Consts, ZenonT(60) DEF SleepPc, WakePc
<1>2. np \in Procs /\ state[np] = "EMBRYO" /\ np # p /\ np # initproc /\ np \in Threads
  BY <1>1, Consts DEF LocalsOK, SlotOwner, Forking, FreeStates, Family, InitAlive
<1>3. pc[np] \in {"dead", "trapret"} /\ cont[np] = "user"
  BY <1>1, <1>2, Zenon DEF Family, FreeIdle, FreeStates, SleepPc, WakePc
<1>4. /\ state' = [state EXCEPT ![np] = "RUNNABLE"]
      /\ pc' = [pc EXCEPT ![p] = "trapret", ![np] = "trapret"]
      /\ slot' = [slot EXCEPT ![p] = 1] /\ parent' = [parent EXCEPT ![np] = p]
      /\ UNCHANGED <<chan, killed, frozen, psignals, cont, havekids, wslot, wchan, run, lk, avail, panicked>>
  BY <1>2, ZenonT(60) DEF locals, envVars, sigs, wake, locks, Cas
<1> HIDE DEF np, ForkRun
<1>5. Typed'
  BY <1>1, <1>2, <1>3, <1>4, Consts, SMTT(30)
  DEF LocalsOK, Forking, Reaping, ProcState, UserPc, ProcPc, PostPc, WakePc, SleepPc
<1>p. \A q \in Procs :
        /\ state'[q] = IF q = np THEN "RUNNABLE" ELSE state[q]
        /\ pc'[q] = IF q = p \/ q = np THEN "trapret" ELSE pc[q]
        /\ slot'[q] = IF q = p THEN 1 ELSE slot[q]
        /\ parent'[q] = IF q = np THEN p ELSE parent[q]
        /\ cont'[q] = cont[q] /\ (OnCpu(q)' <=> OnCpu(q))
  BY <1>1, <1>2, <1>4, Consts DEF OnCpu
<1> DEFINE Work(q) == Forking(q) \/ Reaping(q)
<1>6. SlotOwner'
  <2>1. SlotOwner /\ ~Work(np) /\ slot[p] = np /\ Forking(p) /\ ~Reaping(p)
    BY <1>1, <1>3, Zenon DEF Forking, Reaping, np
  <2>2. \A q \in Procs : /\ (Forking(q)' <=> q # p /\ Forking(q))
                         /\ (Reaping(q)' <=> q # p /\ Reaping(q))
    BY <1>1, <1>3, <1>p, SMTT(40) DEF Forking, Reaping
  <2>3. \A q \in Procs : q # p /\ Work(q) =>
            slot'[q] = slot[q] /\ slot[q] # np /\ slot[q] \in Procs
    BY <1>p, <2>1, SMTT(40) DEF SlotOwner, LocalsOK
  <2>4. \A q \in Procs : /\ (Forking(q)' => state'[slot'[q]] = "EMBRYO")
                         /\ (Reaping(q)' => state'[slot'[q]] = "MINUS_UNUSED")
    BY <1>p, <2>1, <2>2, <2>3, SMTT(40) DEF SlotOwner
  <2>5. \A q, r \in Procs :
          (q # r /\ (Forking(q) \/ Reaping(q))' /\ (Forking(r) \/ Reaping(r))')
              => slot'[q] # slot'[r]
    BY <2>1, <2>2, <2>3 DEF SlotOwner
  <2>6. \A j \in Procs :
          /\ (state'[j] = "EMBRYO" => \E q \in Procs : Forking(q)' /\ slot'[q] = j)
          /\ (state'[j] = "MINUS_UNUSED" =>
                  \E q \in Procs : Reaping(q)' /\ slot'[q] = j)
    <3> SUFFICES ASSUME NEW j \in Procs
                 PROVE  /\ (state'[j] = "EMBRYO" =>
                              \E q \in Procs : Forking(q)' /\ slot'[q] = j)
                        /\ (state'[j] = "MINUS_UNUSED" =>
                              \E q \in Procs : Reaping(q)' /\ slot'[q] = j)
      OBVIOUS
    <3>1. CASE state'[j] = "EMBRYO"
      <4> PICK q \in Procs : Forking(q) /\ slot[q] = j
        BY <1>p, <2>1, <3>1 DEF SlotOwner
      <4> QED BY <1>p, <2>1, <2>2, <2>3, <3>1, ZenonT(60)
    <3>2. CASE state'[j] = "MINUS_UNUSED"
      <4> PICK q \in Procs : Reaping(q) /\ slot[q] = j
        BY <1>p, <2>1, <3>2, SMTT(40) DEF SlotOwner
      <4> QED BY <1>p, <2>1, <2>2, <2>3, <3>2, ZenonT(60)
    <3> QED BY <3>1, <3>2, Zenon
  <2> QED BY <2>4, <2>5, <2>6, Zenon DEF SlotOwner
<1>7. FreeIdle' /\ ParentsUsed' /\ InitAlive'
  BY <1>1, <1>2, <1>3, <1>4, Consts
  DEF Family, FreeIdle, ParentsUsed, InitAlive, FreeStates, InExit, ExitPc, WakePc
<1>8. ZombieExits'
  <2>1. \A q \in Procs : /\ (InExit(q)' <=> InExit(q))
                         /\ (q = p \/ q = np => ~InExit(q))
    BY <1>1, <1>2, <1>3, <1>p DEF InExit, ExitPc, WakePc
  <2>2. ZombieExits /\ panicked' = panicked /\ pc[p] # "dead"
    BY <1>1, <1>4, Zenon DEF Family
  <2>3. \A q \in Procs : q # p /\ q # np => pc'[q] = pc[q] /\ state'[q] = state[q]
    BY <1>p, Zenon
  <2>4. state'[np] = "RUNNABLE" /\ state'[p] = state[p]
    BY <1>2, <1>p, Zenon
  <2>5. \A q \in Procs : OnCpu(q)' <=> OnCpu(q)
    BY <1>p, ZenonT(60)
  <2> HIDE DEF Work, IInv, Typed, TypeOK, ContOK
  <2> QED
    BY <1>2, <2>1, <2>2, <2>3, <2>4, <2>5, ZenonT(60) DEF ZombieExits
<1>9. DeadChildless'
  BY <1>1, <1>2, <1>3, <1>p, SMTT(40) DEF Family, DeadChildless, Live, FreeStates
<1>10. ExitPassed'
  BY <1>1, <1>2, <1>3, <1>p, SMTT(40)
  DEF Family, ExitPassed, InExit, ExitPc, WakePc
<1> QED
  BY <1>5, <1>6, <1>7, <1>8, <1>9, <1>10, Zenon DEF Family

-----------------------------------------------------------------------------
(* exit() *)

LEMMA ExitZombieStep ==
    ASSUME IInv, NEW p \in Procs, ExitZombie(p)
    PROVE  SlotOwner' /\ Family'
<1> USE DEF IInv, Typed, TypeOK, ContOK
<1>1. /\ Family /\ pc[p] = "closing" /\ cont[p] = "user" /\ p \in Threads
      /\ state[p] \notin FreeStates /\ OnCpu(p) /\ p # initproc /\ initproc \in Procs
  BY Running, Consts, ZenonT(60)
  DEF ExitZombie, Step, At, SleepPc, WakePc, Family, InitAlive
<1>2. \A q \in Procs :
        /\ state'[q] = IF q = p /\ state[p] = "RUNNING" THEN "MINUS_ZOMBIE"
                                                        ELSE state[q]
        /\ pc'[q] = (IF q = p THEN "exit" ELSE pc[q])
        /\ slot'[q] = (IF q = p THEN 1 ELSE slot[q])
        /\ parent'[q] = parent[q] /\ cont'[q] = cont[q]
        /\ (OnCpu(q)' <=> OnCpu(q))
  BY <1>1, Consts, SMTT(40) DEF ExitZombie, Step, At, Goto, Cas, fields, locals, OnCpu
<1>t. SlotOwner /\ LocalsOK /\ state \in [Procs -> ProcState]
      /\ parent \in [Procs -> {0} \cup Procs] /\ slot \in [Threads -> 1 .. NPROC + 1]
  OBVIOUS
<1> HIDE DEF IInv, Typed, TypeOK, ContOK
<1>3. SlotOwner'
  BY <1>1, <1>2, <1>t, OwnerFrame, ZenonT(60) DEF Forking, Reaping, FreeStates
<1>4. FreeIdle' /\ ParentsUsed' /\ InitAlive'
  BY <1>t, <1>1, <1>2 DEF Family, FreeIdle, ParentsUsed, InitAlive, FreeStates, InExit,
                    ExitPc, WakePc
<1>5. ZombieExits'
  <2>1. state'[p] \in Live => panicked'
    BY <1>1, <1>2, ZenonT(40) DEF ExitZombie, Live
  <2>2. OnCpu(p)' /\ InExit(p)' /\ \A q \in Procs \ {p} : InExit(q)' <=> InExit(q)
    BY <1>1, <1>2, Zenon DEF InExit, ExitPc, WakePc
  <2>3. \A q \in Procs : q # p => state'[q] = state[q] /\ pc'[q] = pc[q]
    BY <1>2, Zenon
  <2>4. ~panicked
    BY <1>1, Zenon DEF ExitZombie, Step, At, Executes
  <2>5. \A q \in Procs :
            /\ state[q] \in {"ZOMBIE", "MINUS_ZOMBIE"} => pc[q] = "dead" \/ InExit(q)
            /\ InExit(q) => OnCpu(q) /\ state[q] \notin Live
    BY <1>1, <2>4, Zenon DEF Family, ZombieExits
  <2>6. \A q \in Procs \ {p} : OnCpu(q)' <=> OnCpu(q)
    BY <1>2, ZenonT(60)
  <2> QED BY <2>1, <2>2, <2>3, <2>5, <2>6, Zenon DEF ZombieExits
<1>7. DeadChildless'
  BY <1>1, <1>2, SMTT(40) DEF Family, ZombieExits, DeadChildless, InExit, ExitPc, WakePc,
                    Live, FreeStates, ExitZombie, Step, At, Executes
<1>6. ExitPassed'
  BY <1>1, <1>2, Consts DEF Family, ExitPassed, InExit, ExitPc, WakePc
<1> QED
  BY <1>3, <1>4, <1>5, <1>6, <1>7, Zenon DEF Family

LEMMA ExitReparentStep ==
    ASSUME IInv, NEW p \in Procs, ExitReparent(p)
    PROVE  SlotOwner' /\ Family'
<1> USE DEF IInv, Typed, TypeOK, ContOK
<1>1. /\ Family /\ pc[p] = "exit" /\ cont[p] = "user" /\ p \in Threads
      /\ InExit(p) /\ p # initproc /\ initproc \in Procs
  BY Running, Consts, Zenon
  DEF ExitReparent, Step, At, SleepPc, WakePc, ExitPc, Family, InitAlive, InExit
<1>0. PICK j \in slot[p] .. NPROC :
        /\ parent[j] = p
        /\ \A k \in slot[p] .. (j - 1) : parent[k] # p
        /\ parent' = [parent EXCEPT ![j] = initproc]
        /\ slot' = [slot EXCEPT ![p] = j]
  BY ZenonT(40) DEF ExitReparent
<1>2. slot[p] \in 1 .. NPROC + 1 /\ j \in Procs /\ slot[p] <= j
  BY <1>1, Consts, SMTT(40) DEF Procs
<1>3. \A q \in Procs :
        /\ state'[q] = state[q] /\ cont'[q] = cont[q]
        /\ pc'[q] = (IF q = p THEN "exit_check" ELSE pc[q])
        /\ slot'[q] = (IF q = p THEN j ELSE slot[q])
        /\ parent'[q] = (IF q = j THEN initproc ELSE parent[q])
        /\ (OnCpu(q)' <=> OnCpu(q)) /\ (InExit(q)' <=> InExit(q))
  BY <1>0, <1>1, <1>2, Consts, SMTT(40)
  DEF ExitReparent, Step, At, Goto, locals, envVars, OnCpu, InExit, ExitPc, WakePc
<1>t. SlotOwner /\ LocalsOK /\ state \in [Procs -> ProcState]
      /\ parent \in [Procs -> {0} \cup Procs] /\ slot \in [Threads -> 1 .. NPROC + 1]
  OBVIOUS
<1> HIDE DEF IInv, Typed, TypeOK, ContOK
<1>4. SlotOwner'
  BY <1>1, <1>3, <1>t, OwnerFrame, ZenonT(60) DEF Forking, Reaping
<1>5. FreeIdle' /\ ParentsUsed' /\ InitAlive'
  BY <1>t, <1>1, <1>3, SMTT(40) DEF Family, FreeIdle, ParentsUsed, InitAlive, FreeStates, InExit,
                    ExitPc, WakePc
<1>6. ZombieExits' /\ DeadChildless'
  BY <1>1, <1>3, SMTT(40) DEF Family, ZombieExits, DeadChildless, InitAlive, ExitReparent, Step, At,
                    Executes
<1>7. ExitPassed'
  <2> SUFFICES ASSUME NEW q \in Procs, InExit(q), NEW i \in Procs,
                      i < slot'[q] \/ (i = slot'[q] /\ pc'[q] = "exit_check")
               PROVE  parent'[i] # q
    BY <1>3, Zenon DEF ExitPassed
  <2>1. q # initproc
    BY <1>1, ZenonT(60) DEF Family, InitAlive
  <2>2. CASE q # p
    BY <1>1, <1>3, <2>1, <2>2, SMTT(40) DEF Family, ExitPassed
  <2>3. CASE q = p /\ i < slot[p]
    BY <1>1, <1>3, <2>1, <2>3, SMTT(40) DEF Family, ExitPassed
  <2>4. CASE q = p /\ i >= slot[p] /\ i # j
    BY <1>0, <1>1, <1>2, <1>3, <2>4, Consts, SMTT(40) DEF Procs
  <2>5. CASE i = j
    BY <1>3, <2>1, <2>5, Zenon
  <2> QED BY <1>t, <1>1, <2>2, <2>3, <2>4, <2>5, Consts, SMTT(40)
<1> QED
  BY <1>4, <1>5, <1>6, <1>7, Zenon DEF Family

LEMMA ExitCheckStep ==
    ASSUME IInv, NEW p \in Procs, ExitCheck(p)
    PROVE  SlotOwner' /\ Family'
<1> USE DEF IInv, Typed, TypeOK, ContOK
<1>1. /\ Family /\ pc[p] = "exit_check" /\ cont[p] = "user" /\ p \in Threads
      /\ InExit(p) /\ p # initproc /\ initproc \in Procs /\ slot[p] \in Procs
  BY Running, Consts, Zenon
  DEF ExitCheck, At, SleepPc, WakePc, ExitPc, Family, InitAlive, InExit, LocalsOK
<1>2. \A q \in Procs :
        /\ state'[q] = state[q] /\ parent'[q] = parent[q]
        /\ (q # p => pc'[q] = pc[q] /\ cont'[q] = cont[q])
        /\ \/ pc'[p] = "exit" /\ cont'[p] = "user"
           \/ pc'[p] = "wk" /\ cont'[p] = "exit"
        /\ slot'[q] = (IF q = p THEN slot[p] + 1 ELSE slot[q])
        /\ (OnCpu(q)' <=> OnCpu(q))
  <2>1. CASE state[slot[p]] = "ZOMBIE"
    BY <1>1, <2>1, Consts, SMTT(40)
    DEF ExitCheck, At, Goto, envVars, procVars, fields, OnCpu
  <2>2. CASE state[slot[p]] # "ZOMBIE"
    BY <1>1, <2>2, Consts
    DEF ExitCheck, At, Goto, envVars, procVars, fields, locals, OnCpu
  <2> QED BY <2>1, <2>2, ZenonT(60)
<1>t. SlotOwner /\ LocalsOK /\ state \in [Procs -> ProcState]
      /\ parent \in [Procs -> {0} \cup Procs] /\ slot \in [Threads -> 1 .. NPROC + 1]
  OBVIOUS
<1> HIDE DEF IInv, Typed, TypeOK, ContOK
<1>3. \A q \in Procs : (InExit(q)' <=> InExit(q))
  BY <1>1, <1>2, Zenon DEF InExit, ExitPc, WakePc
<1>4. SlotOwner'
  BY <1>1, <1>2, <1>t, OwnerFrame, ZenonT(60) DEF Forking, Reaping
<1>5. FreeIdle' /\ ParentsUsed' /\ InitAlive'
  BY <1>t, <1>1, <1>2, <1>3, Running, SMTT(40)
  DEF Family, FreeIdle, ParentsUsed, InitAlive, ExitCheck, At
<1>6. ZombieExits' /\ DeadChildless'
  BY <1>1, <1>2, <1>3, SMTT(40) DEF Family, ZombieExits, DeadChildless, ExitCheck, At, Executes
<1>7. ExitPassed'
  BY <1>t, <1>1, <1>2, <1>3, Consts DEF Family, ExitPassed
<1> QED
  BY <1>4, <1>5, <1>6, <1>7, Zenon DEF Family

LEMMA ExitSchedStep ==
    ASSUME IInv, NEW p \in Procs, ExitSched(p)
    PROVE  SlotOwner' /\ Family'
<1> USE DEF IInv, Typed, TypeOK, ContOK
<1>1. /\ Family /\ pc[p] = "exit" /\ cont[p] = "user" /\ p \in Threads
      /\ InExit(p) /\ p # initproc /\ initproc \in Procs
      /\ state[p] \notin FreeStates \cup Live
  BY Running, Consts, ZenonT(60)
  DEF ExitSched, At, Executes, SleepPc, WakePc, ExitPc, Family, InitAlive, InExit,
      ZombieExits
<1>2. \A q \in Procs :
        /\ state'[q] = state[q] /\ parent'[q] = parent[q] /\ cont'[q] = cont[q]
        /\ pc'[q] = (IF q = p THEN "dead" ELSE pc[q])
        /\ slot'[q] = (IF q = p THEN 1 ELSE slot[q])
        /\ (q # p /\ OnCpu(q) => OnCpu(q)')
  <2>1. PICK c \in Cpus : /\ run[c] = p /\ run' = [run EXCEPT ![c] = 0]
                          /\ pc' = [pc EXCEPT ![p] = "dead", ![c] = "post_sleep"]
    BY ZenonT(40) DEF ExitSched, Swtch
  <2>2. \A q \in Procs : /\ q # c /\ q \in Threads
                         /\ (q # p /\ OnCpu(q) => OnCpu(q)')
    BY <2>1, Consts, SMTT(40) DEF OnCpu
  <2> QED
    BY <1>1, <2>1, <2>2 DEF ExitSched, procVars, fields, locals
<1>t. SlotOwner /\ LocalsOK /\ state \in [Procs -> ProcState]
      /\ parent \in [Procs -> {0} \cup Procs] /\ slot \in [Threads -> 1 .. NPROC + 1]
  OBVIOUS
<1> HIDE DEF IInv, Typed, TypeOK, ContOK
<1>3. \A j \in Procs : parent[j] # p
  BY <1>t, <1>1, Consts DEF ExitSched, Family, ExitPassed, Procs
<1>4. \A q \in Procs : (InExit(q)' <=> q # p /\ InExit(q))
  BY <1>1, <1>2, Zenon DEF InExit, ExitPc, WakePc
<1>5. SlotOwner'
  BY <1>1, <1>2, <1>t, OwnerFrame, Zenon DEF Forking, Reaping
<1>6. FreeIdle' /\ ParentsUsed' /\ InitAlive'
  BY <1>t, <1>1, <1>2, <1>4 DEF Family, FreeIdle, ParentsUsed, InitAlive
<1>7. ZombieExits'
  BY <1>1, <1>2, <1>4, ZenonT(60) DEF Family, ZombieExits, InExit, ExitSched, At, Executes
<1>8. DeadChildless'
  BY <1>t, <1>1, <1>2, <1>3, SMTT(30) DEF Family, DeadChildless
<1>9. ExitPassed'
  BY <1>1, <1>2, <1>4 DEF Family, ExitPassed
<1> QED
  BY <1>5, <1>6, <1>7, <1>8, <1>9, Zenon DEF Family

-----------------------------------------------------------------------------
(* wait() *)

\* A zombie that wait() reaps is off its CPU, hence dead and childless, or
\* else a CPU now runs on a freed stack.
LEMMA WaitScanStep ==
    ASSUME IInv, NEW p \in Procs, WaitScan(p)
    PROVE  SlotOwner' /\ (Corrupt' \/ Family')
<1> DEFINE j == slot[p]
           zombie == parent[j] = p /\ state[j] = "ZOMBIE"
<1> USE DEF IInv, Typed, TypeOK, ContOK
<1>1. /\ Family /\ pc[p] = "wait_scan" /\ cont[p] = "user" /\ p \in Threads
      /\ initproc \in Procs /\ j \in Procs /\ state[p] \notin FreeStates
  BY Running, Consts, ZenonT(60) DEF WaitScan, At, SleepPc, WakePc
<1>2. \A q \in Procs :
        /\ state'[q] = IF q = j /\ zombie THEN "MINUS_UNUSED" ELSE state[q]
        /\ pc'[q] = (IF q = p /\ zombie THEN "reap" ELSE pc[q])
        /\ (q # p => slot'[q] = slot[q]) /\ (zombie => slot'[p] = j)
        /\ parent'[q] = parent[q] /\ cont'[q] = cont[q]
        /\ (OnCpu(q)' <=> OnCpu(q))
  BY <1>1, Consts, SMTT(40) DEF WaitScan, At, Goto, fields, envVars, OnCpu
<1>t. SlotOwner /\ LocalsOK /\ state \in [Procs -> ProcState]
      /\ parent \in [Procs -> {0} \cup Procs] /\ slot \in [Threads -> 1 .. NPROC + 1]
  OBVIOUS
<1> HIDE DEF IInv, Typed, TypeOK, ContOK
<1>3. \A q \in Procs : /\ (InExit(q)' <=> InExit(q)) /\ (Forking(q)' <=> Forking(q))
                       /\ (Reaping(q)' <=> Reaping(q) \/ (q = p /\ zombie))
                       /\ (q = p => ~InExit(q) /\ ~Forking(q) /\ ~Reaping(q))
  BY <1>1, <1>2, ZenonT(60) DEF InExit, ExitPc, WakePc, Forking, Reaping
<1>u. panicked' = panicked /\ run' = run
  BY Zenon DEF WaitScan, envVars
<1>4. CASE ~zombie
  <2>1. SlotOwner'
    BY <1>2, <1>3, <1>4, <1>t, OwnerFrame, ZenonT(60)
  <2>2. FreeIdle' /\ ParentsUsed' /\ InitAlive' /\ DeadChildless'
    BY <1>t, <1>1, <1>2, <1>3, <1>4, SMTT(40)
    DEF Family, FreeIdle, ParentsUsed, InitAlive, DeadChildless
  <2>3. ZombieExits' /\ ExitPassed'
    BY <1>1, <1>2, <1>3, <1>4, <1>u, SMTT(40) DEF Family, ZombieExits, ExitPassed
  <2> QED BY <2>1, <2>2, <2>3, Zenon DEF Family
<1>5. CASE zombie
  <2>1. \A q \in Procs : Forking(q) \/ Reaping(q) => slot[q] \in Procs /\ slot[q] # j
    BY <1>t, <1>1, <1>5, Zenon DEF SlotOwner, LocalsOK
  <2>2. SlotOwner'
    <3>1. \A q \in Procs : /\ (Forking(q)' => state'[slot'[q]] = "EMBRYO")
                           /\ (Reaping(q)' => state'[slot'[q]] = "MINUS_UNUSED")
      BY <1>t, <1>1, <1>2, <1>3, <1>5, <2>1, SMTT(30) DEF SlotOwner
    <3>2. \A q, r \in Procs :
            (q # r /\ (Forking(q) \/ Reaping(q))' /\ (Forking(r) \/ Reaping(r))')
                => slot'[q] # slot'[r]
      <4>1. \A q, r \in Procs :
              (q # r /\ (Forking(q) \/ Reaping(q)) /\ (Forking(r) \/ Reaping(r)))
                  => slot[q] # slot[r]
        BY <1>t, Zenon DEF SlotOwner
      <4>2. \A q \in Procs : (Forking(q) \/ Reaping(q))' =>
              \/ q = p /\ slot'[q] = j
              \/ q # p /\ (Forking(q) \/ Reaping(q)) /\ slot'[q] = slot[q]
                 /\ slot'[q] # j
        BY <1>2, <1>3, <1>5, <2>1, ZenonT(40)
      <4> HIDE DEF j, zombie
      <4> QED BY <4>1, <4>2, Zenon
    <3>3. \A i \in Procs :
            /\ (state'[i] = "EMBRYO" => \E q \in Procs : Forking(q)' /\ slot'[q] = i)
            /\ (state'[i] = "MINUS_UNUSED" =>
                    \E q \in Procs : Reaping(q)' /\ slot'[q] = i)
      <4> TAKE i \in Procs
      <4>1. CASE i = j
        BY <1>1, <1>2, <1>3, <1>5, <4>1, Zenon
      <4>2. CASE i # j /\ state'[i] = "EMBRYO"
        <5> PICK q \in Procs : Forking(q) /\ slot[q] = i
          BY <1>t, <1>2, <4>2, ZenonT(60) DEF SlotOwner
        <5> QED BY <1>2, <1>3, <4>2, ZenonT(40)
      <4>3. CASE i # j /\ state'[i] = "MINUS_UNUSED"
        <5> PICK q \in Procs : Reaping(q) /\ slot[q] = i
          BY <1>t, <1>2, <4>3, SMTT(40) DEF SlotOwner
        <5> QED BY <1>2, <1>3, <4>3, ZenonT(40)
      <4> QED BY <4>1, <4>2, <4>3, ZenonT(60)
    <3> QED BY <3>1, <3>2, <3>3, ZenonT(60) DEF SlotOwner
  <2>3. CASE OnCpu(j)
    <3>1. PICK c \in Cpus : run[c] = j
      BY <2>3, Zenon DEF OnCpu
    <3>2. run'[c] # 0 /\ state'[run'[c]] = "MINUS_UNUSED"
      BY <1>1, <1>2, <1>5, <1>u, <3>1, Consts, ZenonT(40)
    <3>3. Corrupt'
      BY <3>2, Zenon DEF Corrupt, FreeStates
    <3> QED BY <2>2, <3>3, Zenon
  <2>4. CASE ~OnCpu(j)
    <3>1. pc[j] = "dead" /\ j # initproc /\ j # p /\ \A i \in Procs : parent[i] # j
      BY <1>1, <1>5, <2>4, ZenonT(60)
      DEF Family, ZombieExits, DeadChildless, InitAlive
    <3>2. FreeIdle' /\ ParentsUsed' /\ InitAlive' /\ DeadChildless'
      BY <1>t, <1>1, <1>2, <1>3, <1>5, <3>1, SMTT(40)
      DEF Family, FreeIdle, ParentsUsed, InitAlive, DeadChildless, FreeStates, Live
    <3>3. ZombieExits' /\ ExitPassed'
      BY <1>1, <1>2, <1>3, <1>5, <1>u, <3>1, SMTT(40)
      DEF Family, ZombieExits, ExitPassed, Live, FreeStates
    <3> QED BY <2>2, <3>2, <3>3, Zenon DEF Family
  <2> QED BY <2>2, <2>3, <2>4, Zenon
<1> QED BY <1>4, <1>5, Zenon

LEMMA WaitReapStep ==
    ASSUME IInv, NEW p \in Procs, WaitReap(p)
    PROVE  SlotOwner' /\ Family'
<1> USE DEF IInv, Typed, TypeOK, ContOK
<1>1. /\ Family /\ pc[p] = "reap" /\ cont[p] = "user" /\ p \in Threads
      /\ initproc \in Procs /\ slot[p] \in Procs
  BY Running, Consts, ZenonT(60) DEF WaitReap, Step, At, SleepPc, WakePc, LocalsOK, Reaping
<1>2. \A q \in Procs :
        /\ state'[q] = state[q] /\ slot'[q] = slot[q] /\ cont'[q] = cont[q]
        /\ pc'[q] = (IF q = p THEN "reap_run" ELSE pc[q])
        /\ parent'[q] = (IF q = slot[p] THEN 0 ELSE parent[q])
        /\ (OnCpu(q)' <=> OnCpu(q))
  BY <1>1, Consts DEF WaitReap, Step, At, Goto, locals, envVars, OnCpu
<1>t. SlotOwner /\ LocalsOK /\ state \in [Procs -> ProcState]
      /\ parent \in [Procs -> {0} \cup Procs] /\ slot \in [Threads -> 1 .. NPROC + 1]
  OBVIOUS
<1> HIDE DEF IInv, Typed, TypeOK, ContOK
<1>3. \A q \in Procs : /\ (InExit(q)' <=> InExit(q)) /\ (Forking(q)' <=> Forking(q))
                       /\ (Reaping(q)' <=> Reaping(q)) /\ (q = p => ~InExit(q))
  BY <1>1, <1>2, ZenonT(60) DEF InExit, ExitPc, WakePc, Forking, Reaping
<1>4. SlotOwner'
  BY <1>2, <1>3, <1>t, OwnerFrame, ZenonT(40)
<1>5. FreeIdle' /\ ParentsUsed' /\ InitAlive' /\ DeadChildless'
  BY <1>1, <1>2, <1>3, Running, Consts, SMTT(40)
  DEF Family, FreeIdle, ParentsUsed, InitAlive, DeadChildless, WaitReap, Step, At
<1>6. ZombieExits' /\ ExitPassed'
  BY <1>1, <1>2, <1>3, Consts, SMTT(40)
  DEF Family, ZombieExits, ExitPassed, WaitReap, envVars
<1> QED BY <1>4, <1>5, <1>6, Zenon DEF Family

LEMMA WaitReapFreeStep ==
    ASSUME IInv, NEW p \in Procs, WaitReapFree(p)
    PROVE  SlotOwner' /\ Family'
<1> DEFINE j == slot[p]
<1> USE DEF IInv, Typed, TypeOK, ContOK
<1>1. /\ Family /\ pc[p] = "reap_free" /\ cont[p] = "user" /\ p \in Threads
      /\ initproc \in Procs /\ j \in Procs /\ state[j] = "MINUS_UNUSED"
      /\ state[p] \notin FreeStates
  <2>1. /\ Family /\ pc[p] = "reap_free" /\ cont[p] = "user" /\ p \in Threads
        /\ initproc \in Procs /\ state[p] \notin FreeStates
    BY Running, Consts, ZenonT(60) DEF WaitReapFree, Step, At, SleepPc, WakePc
  <2>2. Reaping(p)
    BY <2>1, ZenonT(60) DEF Reaping
  <2>3. j \in Procs /\ state[j] = "MINUS_UNUSED"
    BY <2>2, ZenonT(60) DEF LocalsOK, SlotOwner
  <2> QED BY <2>1, <2>3, ZenonT(60)
<1>2. \A q \in Procs :
        /\ state'[q] = IF q = j THEN "UNUSED" ELSE state[q]
        /\ slot'[q] = (IF q = p THEN 1 ELSE slot[q]) /\ cont'[q] = cont[q]
        /\ pc'[q] = (IF q = p THEN "trapret" ELSE pc[q])
        /\ parent'[q] = parent[q]
        /\ (OnCpu(q)' <=> OnCpu(q))
  BY <1>1, Consts
  DEF WaitReapFree, Step, At, Goto, Cas, fields, envVars, OnCpu
<1>t. SlotOwner /\ LocalsOK /\ state \in [Procs -> ProcState]
      /\ parent \in [Procs -> {0} \cup Procs] /\ slot \in [Threads -> 1 .. NPROC + 1]
  OBVIOUS
<1> HIDE DEF IInv, Typed, TypeOK, ContOK
<1>3. \A q \in Procs : /\ (InExit(q)' <=> InExit(q)) /\ (Forking(q)' <=> Forking(q))
                       /\ (Reaping(q)' <=> q # p /\ Reaping(q))
                       /\ (q = p => ~InExit(q) /\ ~Forking(q) /\ Reaping(q))
  BY <1>1, <1>2, ZenonT(40) DEF InExit, ExitPc, WakePc, Forking, Reaping
<1>4. SlotOwner'
  <2>1. \A q \in Procs : q # p /\ (Forking(q) \/ Reaping(q)) =>
            slot[q] \in Procs /\ slot[q] # j
    BY <1>t, <1>1, <1>3, SMTT(40) DEF SlotOwner, LocalsOK
  <2>2. \A q \in Procs : /\ (Forking(q)' => state'[slot'[q]] = "EMBRYO")
                         /\ (Reaping(q)' => state'[slot'[q]] = "MINUS_UNUSED")
    BY <1>t, <1>1, <1>2, <1>3, <2>1, SMTT(30) DEF SlotOwner
  <2>3. \A q, r \in Procs :
          (q # r /\ (Forking(q) \/ Reaping(q))' /\ (Forking(r) \/ Reaping(r))')
              => slot'[q] # slot'[r]
    <3>1. \A q, r \in Procs :
            (q # r /\ (Forking(q) \/ Reaping(q)) /\ (Forking(r) \/ Reaping(r)))
                => slot[q] # slot[r]
      BY <1>t, Zenon DEF SlotOwner
    <3>2. \A q \in Procs : (Forking(q) \/ Reaping(q))' =>
            (Forking(q) \/ Reaping(q)) /\ slot'[q] = slot[q]
      BY <1>2, <1>3, ZenonT(60)
    <3> QED BY <3>1, <3>2, Zenon
  <2>4. \A i \in Procs :
          /\ (state'[i] = "EMBRYO" => \E q \in Procs : Forking(q)' /\ slot'[q] = i)
          /\ (state'[i] = "MINUS_UNUSED" =>
                  \E q \in Procs : Reaping(q)' /\ slot'[q] = i)
    BY <1>t, <1>1, <1>2, <1>3, SMTT(40) DEF SlotOwner
  <2> QED BY <2>2, <2>3, <2>4, Zenon DEF SlotOwner
<1>5. FreeIdle' /\ InitAlive' /\ DeadChildless'
  BY <1>1, <1>2, <1>3, Consts, SMTT(40)
  DEF Family, FreeIdle, InitAlive, DeadChildless, FreeStates, Live
<1>7. ParentsUsed'
  BY <1>t, <1>1, <1>2, SMTT(40) DEF Family, ParentsUsed, FreeStates
<1>6. ZombieExits' /\ ExitPassed'
  BY <1>1, <1>2, <1>3, Consts, SMTT(40)
  DEF Family, ZombieExits, ExitPassed, WaitReapFree, envVars, Live, FreeStates
<1> QED BY <1>4, <1>5, <1>6, <1>7, ZenonT(60) DEF Family

-----------------------------------------------------------------------------
LEMMA InitInv == Init => IInv
<1> SUFFICES ASSUME Init PROVE IInv
  OBVIOUS
<1> USE Consts DEF Init
<1>1. TypeOK
  BY ZenonT(40) DEF TypeOK, ProcState, ProcPc, UserPc, CpuPc
<1>2. LocalsOK /\ ContOK
  BY Zenon DEF LocalsOK, ContOK, Forking, Reaping, PostPc, WakePc, CpuPc, ProcPc, UserPc
<1>3. SlotOwner
  BY Zenon DEF SlotOwner, Forking, Reaping
<1>4. \A p \in Procs : ~InExit(p) /\ pc[p] = "trapret" /\ parent[p] = 0
  BY Zenon DEF InExit, ExitPc, WakePc
<1>5. Family
  BY <1>4, Zenon
  DEF Family, FreeIdle, ZombieExits, DeadChildless, ExitPassed, InitAlive,
      ParentsUsed, FreeStates
<1> QED
  BY <1>1, <1>2, <1>3, <1>5, Zenon DEF IInv, Typed

\* Every step of the kernel preserves the invariant.
LEMMA Inductive == IInv /\ [Next]_vars => IInv'
<1> SUFFICES ASSUME IInv, [Next]_vars PROVE IInv'
  OBVIOUS
<1>0. Typed
  BY Zenon DEF IInv
<1>1. ASSUME NEW p \in Procs, ProcQuietStep(p) PROVE IInv'
  <2>1. Executes(p) /\ InitAlive
    BY <1>1, Running, Consts, ZenonT(40)
    DEF ProcQuietStep, TrapRet, ForkNone, Exit, Fault, WaitCall, WaitSleeping,
        WaitChan, WaitReapRun, WaitNoKids, WaitSched, SleepStart, SleepDone,
        Sleep, SleepRelease, SleepSched, SleepAcquire, YieldStep, Yield,
        YieldSched, Kill, Step, At, Family
  <2>2. Typed'
    BY <1>0, <1>1, ProcTyped, Zenon
  <2>3. SlotOwner' /\ Family'
    BY <1>0, <1>1, <2>1, ProcQuiet, QuietStep, Consts, Zenon
  <2> QED BY <2>2, <2>3, Zenon DEF IInv
<1>2. ASSUME NEW p \in Procs, FamilyStep(p) PROVE IInv'
  <2>1. CASE ForkRun(p)
    BY <2>1, ForkRunStep, Zenon
  <2>2. CASE ~ForkRun(p)
    <3>1. Typed'
      BY <1>0, <1>2, <2>2, ProcTyped, Zenon
    <3>2. SlotOwner' /\ (Corrupt' \/ Family')
      BY <1>2, <2>2, ForkAllocStep, ForkFailStep, ExitZombieStep,
         ExitReparentStep, ExitCheckStep, ExitSchedStep, WaitScanStep,
         WaitReapStep, WaitReapFreeStep, ZenonT(60)
      DEF FamilyStep
    <3> QED BY <3>1, <3>2, Zenon DEF IInv
  <2> QED BY <2>1, <2>2, Zenon
<1>3. ASSUME NEW t \in Threads, WakeStep(t) \/ \E ch \in Chans : WakeStart(t, ch)
      PROVE  IInv'
  <2>1. Executes(t) /\ InitAlive
    BY <1>3, Running, Zenon
    DEF WakeStep, WakeState, WakeChan, WakeCas, WakeBreak, WakeRunnable,
        WakeReturn, WakeStart, Step, At, Family
  <2>2. Typed'
    BY <1>0, <1>3, WakeTyped, Zenon
  <2>3. SlotOwner' /\ Family'
    BY <1>0, <1>3, <2>1, WakeQuiet, QuietStep, Zenon
  <2> QED BY <2>2, <2>3, Zenon DEF IInv
<1>4. ASSUME NEW c \in Cpus, SchedStep(c) PROVE IInv'
  <2>1. Executes(c) /\ InitAlive
    BY <1>4, Running, Consts, Zenon
    DEF SchedStep, SchedLoop, SchedPick, SchedEnd, SchedFrozen, SchedSwtch,
        PostSleep, PostKilled, PostRun, PostZombie, PostChan, PostWake, Step, At,
        Family
  <2>2. Typed'
    BY <1>0, <1>4, SchedTyped, Zenon
  <2>3. SlotOwner' /\ Family'
    BY <1>0, <1>4, <2>1, SchedQuiet, QuietStep, Consts, Zenon
  <2> QED BY <2>2, <2>3, Zenon DEF IInv
<1>5. CASE UNCHANGED vars
  <2>1. UNCHANGED <<state, chan, parent, killed, frozen, psignals, pc, cont, slot,
                    havekids, wslot, wchan, run, lk, avail, panicked>>
    BY <1>5, Zenon
    DEF vars, procVars, fields, sigs, threadVars, locals, wake, envVars, locks
  <2>2. Typed'
    BY <1>0, <2>1, ZenonT(60)
    DEF Typed, TypeOK, LocalsOK, ContOK, Forking, Reaping
  <2>3. SlotOwner' /\ (Corrupt' <=> Corrupt)
    BY <2>1, SMTT(40) DEF IInv, SlotOwner, Forking, Reaping, Corrupt
  <2>4. Family => Family'
    BY <2>1
    DEF Family, FreeIdle, ZombieExits, DeadChildless, ExitPassed, InitAlive,
        ParentsUsed, InExit, OnCpu
  <2> QED BY <2>2, <2>3, <2>4, Zenon DEF IInv
<1>6. ASSUME NEW p \in Procs, KernelStep(p) \/ CallStep(p) \/ YieldStep(p)
      PROVE  ProcQuietStep(p) \/ FamilyStep(p)
  BY <1>6, Zenon DEF KernelStep, CallStep, ProcQuietStep, FamilyStep
<1> QED
  BY <1>1, <1>2, <1>3, <1>4, <1>5, <1>6, Zenon DEF Next

\* Spec keeps the inductive invariant.
THEOREM Invariance == Spec => []IInv
BY InitInv, Inductive, PTL DEF Spec

\* The process table and the threads' locals keep their types; in particular
\* no loop over the table leaves it.
THEOREM TypeCorrect == Spec => []TypeOK
<1>1. IInv => TypeOK
  BY Zenon DEF IInv, Typed
<1> QED BY <1>1, Invariance, PTL

\* fork()/allocproc() and wait() own the slots they fill and free.
THEOREM SlotsOwned == Spec => []SlotOwner
<1>1. IInv => SlotOwner
  BY Zenon DEF IInv
<1> QED BY <1>1, Invariance, PTL

\* exit() leaves no process whose parent is a free slot.
THEOREM ParentsAlive == Spec => []ParentAlive
<1>1. IInv => ParentAlive
  BY Zenon DEF IInv, Family, ParentsUsed, ParentAlive, FreeStates
<1> QED BY <1>1, Invariance, PTL


-----------------------------------------------------------------------------
(* Somebody completes every change of state in progress *)

\* Where the scheduler that has switched to a process, or back from it, still
\* has a CAS to do for a process in state s.
Completes(s) ==
    CASE s = "RUNNING" -> {"picked"} \cup (IF panicked THEN {"post_sleep"} ELSE {})
      [] s = "MINUS_SLEEPING" -> {"post_sleep"}
      [] s = "MINUS_RUNNABLE" -> {"post_sleep", "post_run"}
      [] s = "MINUS_ZOMBIE" -> {"post_sleep", "post_run", "post_zombie", "post_chan"}
      [] OTHER -> {}

Changing == {"RUNNING", "MINUS_SLEEPING", "MINUS_RUNNABLE", "MINUS_ZOMBIE"}

InHand(p) ==
    \/ OnCpu(p)
    \/ \E c \in Cpus : slot[c] = p /\ pc[c] \in Completes(state[p])
    \/ /\ state[p] = "MINUS_RUNNABLE"
       /\ \E t \in Threads : pc[t] = "wk_run" /\ wslot[t] = p

Hands == \A p \in Procs : state[p] \in Changing => InHand(p)

Holding == {"picked", "post_sleep", "post_run", "post_zombie", "post_chan"}

LEMMA CompletesFacts ==
    /\ \A s : Completes(s) \subseteq Holding
    /\ Completes("MINUS_SLEEPING") = {"post_sleep"}
    /\ Completes("MINUS_RUNNABLE") = {"post_sleep", "post_run"}
    /\ Completes("MINUS_ZOMBIE") = {"post_sleep", "post_run", "post_zombie", "post_chan"}
    /\ "picked" \in Completes("RUNNING") /\ (panicked => "post_sleep" \in Completes("RUNNING"))
    /\ ~panicked => Completes("RUNNING") = {"picked"}
  BY DEF Completes, Holding

\* With no panic before the step, the places only become more.
LEMMA CompletesGrows ==
    ASSUME ~panicked, NEW s, NEW z, z \in Completes(s)
    PROVE  z \in Completes(s)'
  BY DEF Completes

\* A step that leaves process q and the threads at work on it alone.
LEMMA HandKept ==
    ASSUME ~panicked, NEW q \in Procs, InHand(q), state'[q] = state[q],
           OnCpu(q) => OnCpu(q)',
           \A c \in Cpus : slot[c] = q /\ pc[c] \in Completes(state[q])
                               => slot'[c] = q /\ pc'[c] \in Completes(state[q]),
           \A t \in Threads : state[q] = "MINUS_RUNNABLE" /\ pc[t] = "wk_run" /\ wslot[t] = q
                               => pc'[t] = "wk_run" /\ wslot'[t] = q
    PROVE  InHand(q)'
  <1>1. \A z : z \in Completes(state[q]) => z \in Completes(state[q])'
    <2>1. \A s, z : z \in Completes(s) => z \in Completes(s)'
      BY CompletesGrows, Zenon
    <2> QED BY <2>1, Zenon DEF Completes
  <1>2. CASE OnCpu(q)
    BY <1>2, Zenon DEF InHand
  <1>3. CASE \E c \in Cpus : slot[c] = q /\ pc[c] \in Completes(state[q])
    BY <1>1, <1>3, Zenon DEF InHand
  <1>4. CASE state[q] = "MINUS_RUNNABLE" /\ \E t \in Threads : pc[t] = "wk_run" /\ wslot[t] = q
    BY <1>4, Zenon DEF InHand
  <1> QED BY <1>2, <1>3, <1>4, Zenon DEF InHand

\* What a step of process p does that does not switch to the scheduler.
Calm(p) ==
    /\ ~panicked /\ run' = run
    /\ \A c \in Cpus : pc'[c] = pc[c] /\ slot'[c] = slot[c]
    /\ \A t \in Threads : pc[t] = "wk_run" => pc'[t] = "wk_run" /\ wslot'[t] = wslot[t]
    /\ \A q \in Procs : q # p => state'[q] = state[q] \/ state'[q] \notin Changing

LEMMA CalmHands ==
    ASSUME Hands, NEW p \in Procs, OnCpu(p), Calm(p)
    PROVE  Hands'
  <1>1. \A q \in Procs : OnCpu(q)' <=> OnCpu(q)
    BY Zenon DEF Calm, OnCpu
  <1>2. ASSUME NEW q \in Procs, state'[q] \in Changing PROVE InHand(q)'
    <2>1. CASE q = p
      BY <1>1, <2>1, Zenon DEF InHand
    <2>2. CASE q # p
      <3>1. state'[q] = state[q] /\ InHand(q)
        BY <1>2, <2>2, Zenon DEF Calm, Hands
      <3> QED BY <1>1, <3>1, HandKept, Zenon DEF Calm
    <2> QED BY <2>1, <2>2, Zenon
  <1> QED BY <1>2, Zenon DEF Hands, Changing

\* A process that switches to the scheduler is in the hands of its CPU.
LEMMA SwtchHands ==
    ASSUME Hands, Typed, NEW p \in Procs, NEW l, Swtch(p, l), ~panicked, pc[p] # "wk_run",
           state' = state, wslot' = wslot, \A c \in Cpus : slot'[c] = slot[c]
    PROVE  Hands'
  <1> PICK c \in Cpus : /\ run[c] = p /\ run' = [run EXCEPT ![c] = 0]
                        /\ pc' = [pc EXCEPT ![p] = l, ![c] = "post_sleep"]
                        /\ panicked' = (state[p] = "RUNNING")
    BY ZenonT(60) DEF Swtch
  <1>1. /\ slot[c] = p /\ pc[c] = "picked" /\ p # c /\ p \in Threads /\ c \in Threads
        /\ pc'[c] = "post_sleep" /\ \A t \in Threads : t # c /\ t # p => pc'[t] = pc[t]
        /\ \A d \in Cpus : d # c => run'[d] = run[d] /\ d # p /\ d \in Threads
    BY Consts DEF Typed, TypeOK, LocalsOK
  <1>2. ASSUME NEW q \in Procs, state'[q] \in Changing PROVE InHand(q)'
    <2>0. InHand(q) /\ state[q] \in Changing
      BY <1>2, Zenon DEF Hands
    <2>1. CASE q = p
      <3>1. "post_sleep" \in Completes(state[q])'
        <4>1. panicked' <=> state[q] = "RUNNING"
          BY <2>1, Zenon
        <4>2. state'[q] \in {"RUNNING", "MINUS_SLEEPING", "MINUS_RUNNABLE", "MINUS_ZOMBIE"}
          BY <1>2, Zenon DEF Changing
        <4> QED BY <4>1, <4>2, Zenon DEF Completes
      <3> QED BY <1>1, <2>1, <3>1, Zenon DEF InHand
    <2>2. CASE q # p
      <3>1. OnCpu(q) => OnCpu(q)'
        BY <1>1, <2>2, Zenon DEF OnCpu
      <3>2. \A d \in Cpus : slot[d] = q => d # c /\ pc'[d] = pc[d] /\ slot'[d] = q
        BY <1>1, <2>2, Zenon
      <3>3. \A t \in Threads : pc[t] = "wk_run" => pc'[t] = "wk_run"
        <4>1. pc[c] # "wk_run"
          BY <1>1
        <4> QED BY <1>1, <4>1, Zenon
      <3> QED BY <2>0, <3>1, <3>2, <3>3, HandKept, Zenon
    <2> QED BY <2>1, <2>2, Zenon
  <1> QED BY <1>2, Zenon DEF Hands, Changing

\* The steps of processes that do not switch.
LEMMA ProcCalm ==
    ASSUME IInv, NEW p \in Procs, ProcQuietStep(p) \/ FamilyStep(p),
           ~WaitSched(p), ~SleepSched(p), ~YieldSched(p), ~ExitSched(p)
    PROVE  OnCpu(p) /\ Calm(p)
<1> USE DEF Calm, Cas, Step, At, Goto, procVars, fields, sigs, locals, wake, envVars, locks,
        Changing
<1>c. /\ Procs \subseteq Threads /\ Cpus \subseteq Threads
      /\ \A q \in Procs : q \notin Cpus /\ q # 0
  BY Consts, Zenon
<1>t. /\ state \in [Procs -> ProcState] /\ pc \in [Threads -> ProcPc \cup CpuPc \cup {"off"}]
      /\ slot \in [Threads -> 1 .. NPROC + 1] /\ wslot \in [Threads -> 1 .. NPROC + 1]
  BY Zenon DEF IInv, Typed, TypeOK
<1>x. Executes(p) => OnCpu(p) /\ ~panicked /\ FreeIdle /\ SlotOwner
  BY <1>c, Running, ZenonT(60) DEF Executes, Family, IInv
<1>1. CASE TrapRet(p)
  BY <1>c, <1>t, <1>x, <1>1, SMTT(40) DEF TrapRet
<1>2. CASE ForkNone(p)
  BY <1>c, <1>t, <1>x, <1>2, SMTT(40) DEF ForkNone
<1>3. CASE Exit(p)
  BY <1>c, <1>t, <1>x, <1>3, SMTT(40) DEF Exit
<1>4. CASE Fault(p)
  BY <1>c, <1>t, <1>x, <1>4, SMTT(40) DEF Fault
<1>5. CASE WaitCall(p)
  BY <1>c, <1>t, <1>x, <1>5, SMTT(40) DEF WaitCall, WaitSleeping
<1>6. CASE WaitSleeping(p, "wait")
  BY <1>c, <1>t, <1>x, <1>6, SMTT(40) DEF WaitSleeping
<1>7. CASE WaitChan(p)
  BY <1>c, <1>t, <1>x, <1>7, SMTT(40) DEF WaitChan
<1>8. CASE WaitReapRun(p)
  BY <1>c, <1>t, <1>x, <1>8, SMTT(40) DEF WaitReapRun
<1>9. CASE WaitNoKids(p)
  BY <1>c, <1>t, <1>x, <1>9, SMTT(40) DEF WaitNoKids
<1>11. CASE \E ch \in Chans : SleepStart(p, ch)
  BY <1>c, <1>t, <1>x, <1>11, SMTT(40) DEF SleepStart
<1>12. CASE SleepDone(p)
  BY <1>c, <1>t, <1>x, <1>12, SMTT(40) DEF SleepDone
<1>13. CASE Sleep(p)
  BY <1>c, <1>t, <1>x, <1>13, SMTT(40) DEF Sleep
<1>14. CASE SleepRelease(p)
  BY <1>c, <1>t, <1>x, <1>14, SMTT(40) DEF SleepRelease
<1>16. CASE SleepAcquire(p)
  BY <1>c, <1>t, <1>x, <1>16, SMTT(40) DEF SleepAcquire
<1>17. CASE Yield(p)
  BY <1>c, <1>t, <1>x, <1>17, SMTT(40) DEF Yield, UserPc
<1>19. CASE \E q \in Procs, sig \in Sigs : Kill(p, q, sig)
  BY <1>c, <1>t, <1>x, <1>19, SMTT(40) DEF Kill
<1>20. CASE \E np \in Procs : ForkAlloc(p, np)
  BY <1>c, <1>t, <1>x, <1>20, SMTT(40) DEF ForkAlloc
<1>21. CASE ForkFail(p)
  BY <1>c, <1>t, <1>x, <1>21, SMTT(40) DEF ForkFail
<1>22. CASE ForkRun(p)
  <2>1. pc[p] = "fork" /\ Executes(p)
    BY <1>22, Zenon DEF ForkRun
  <2>2. slot[p] \in Procs /\ state[slot[p]] = "EMBRYO"
    BY <1>x, <2>1, Zenon DEF IInv, Typed, LocalsOK, SlotOwner, Forking
  <2>3. pc[slot[p]] \in {"dead", "trapret"}
    BY <1>x, <2>1, <2>2, ZenonT(60) DEF FreeIdle, FreeStates
  <2> QED BY <1>c, <1>t, <1>x, <1>22, <2>1, <2>2, <2>3, SMTT(40) DEF ForkRun
<1>23. CASE ExitZombie(p)
  BY <1>c, <1>t, <1>x, <1>23, SMTT(40) DEF ExitZombie
<1>24. CASE ExitReparent(p)
  BY <1>c, <1>t, <1>x, <1>24, SMTT(40) DEF ExitReparent
<1>25. CASE ExitCheck(p)
  BY <1>c, <1>t, <1>x, <1>25, SMTT(40) DEF ExitCheck
<1>26. CASE WaitScan(p)
  BY <1>c, <1>t, <1>x, <1>26, SMTT(40) DEF WaitScan
<1>27. CASE WaitReap(p)
  BY <1>c, <1>t, <1>x, <1>27, SMTT(40) DEF WaitReap
<1>28. CASE WaitReapFree(p)
  BY <1>c, <1>t, <1>x, <1>28, SMTT(40) DEF WaitReapFree
<1> QED
  BY <1>1, <1>2, <1>3, <1>4, <1>5, <1>6, <1>7, <1>8, <1>9, <1>11, <1>12, <1>13, <1>14,
     <1>16, <1>17, <1>19, <1>20, <1>21, <1>22, <1>23, <1>24, <1>25, <1>26, <1>27, <1>28, ZenonT(40)
  DEF ProcQuietStep, YieldStep, FamilyStep

\* wakeup1() completes what it begins.
LEMMA WakeHands ==
    ASSUME IInv, Hands, NEW t \in Threads,
           WakeStep(t) \/ \E ch \in Chans : WakeStart(t, ch)
    PROVE  Hands'
<1> DEFINE w == wslot[t]
<1>t. /\ state \in [Procs -> ProcState] /\ pc \in [Threads -> ProcPc \cup CpuPc \cup {"off"}]
      /\ wslot \in [Threads -> 1 .. NPROC + 1] /\ Cpus \subseteq Threads
      /\ \A q \in Procs : q + 1 \in 1 .. NPROC + 1 /\ q # q + 1
  BY Consts DEF IInv, Typed, TypeOK
<1>0. /\ ~panicked /\ run' = run /\ slot' = slot
      /\ \A u \in Threads : u # t => pc'[u] = pc[u] /\ wslot'[u] = wslot[u]
  BY <1>t, ZenonT(60)
  DEF WakeStep, WakeState, WakeChan, WakeCas, WakeBreak, WakeRunnable, WakeReturn, WakeStart,
      Step, At, Goto, Executes, envVars, wake, locals
<1>1. pc[t] \in WakePc \cup UserPc \cup {"sti"}
  BY DEF WakeStep, WakeState, WakeChan, WakeCas, WakeBreak, WakeRunnable, WakeReturn, WakeStart,
         Step, At, WakePc
<1>2. \A q \in Procs : OnCpu(q)' <=> OnCpu(q)
  BY <1>0, Zenon DEF OnCpu
<1>3. \A s : \A c \in Cpus : pc[c] \in Completes(s) => slot'[c] = slot[c] /\ pc'[c] = pc[c]
  <2>1. pc[t] \notin Holding
    BY <1>1 DEF WakePc, UserPc, Holding
  <2> QED BY <1>0, <1>t, <2>1, CompletesFacts, Zenon
<1>4. CASE pc[t] # "wk_run" /\ state' = state
  <2>1. ASSUME NEW q \in Procs, state'[q] \in Changing PROVE InHand(q)'
    <3>1. InHand(q) /\ state'[q] = state[q]
      BY <1>4, <2>1, Zenon DEF Hands
    <3>2. \A u \in Threads : pc[u] = "wk_run" => pc'[u] = pc[u] /\ wslot'[u] = wslot[u]
      BY <1>0, <1>4, ZenonT(60)
    <3> QED BY <1>0, <1>2, <1>3, <3>1, <3>2, HandKept, Zenon
  <2> QED BY <2>1, Zenon DEF Hands, Changing
<1>5. CASE WakeCas(t)
  <2>1. /\ w \in Procs /\ state'[w] = "MINUS_RUNNABLE" /\ pc[t] = "wk_cas" /\ pc'[t] = "wk_run"
        /\ wslot'[t] = w /\ \A q \in Procs : q # w => state'[q] = state[q]
    BY <1>5, <1>t, SMTT(40) DEF WakeCas, Step, At, Goto, Cas, locals, wake, IInv, Typed, LocalsOK, WakePc
  <2>2. ASSUME NEW q \in Procs, state'[q] \in Changing PROVE InHand(q)'
    <3>1. CASE q = w
      BY <2>1, <3>1, Zenon DEF InHand
    <3>2. CASE q # w
      <4>1. InHand(q) /\ state'[q] = state[q]
        BY <2>1, <2>2, <3>2, Zenon DEF Hands
      <4>2. \A u \in Threads : pc[u] = "wk_run" => pc'[u] = pc[u] /\ wslot'[u] = wslot[u]
        <5>1. pc[t] # "wk_run"
          BY <2>1, ZenonT(60)
        <5> QED BY <1>0, <5>1, ZenonT(60)
      <4> QED BY <1>0, <1>2, <1>3, <4>1, <4>2, HandKept, Zenon
    <3> QED BY <3>1, <3>2, Zenon
  <2> QED BY <2>2, Zenon DEF Hands, Changing
<1>6. CASE WakeRunnable(t)
  <2>1. /\ w \in Procs /\ state'[w] # "MINUS_RUNNABLE" /\ pc[t] = "wk_run"
        /\ \A q \in Procs : \/ state'[q] = state[q]
                            \/ q = w /\ state'[q] = "RUNNABLE"
    BY <1>6, <1>t, SMTT(40) DEF WakeRunnable, Step, At, Cas, IInv, Typed, LocalsOK, WakePc
  <2>2. ASSUME NEW q \in Procs, state'[q] \in Changing PROVE InHand(q)'
    <3>1. InHand(q) /\ state'[q] = state[q]
      BY <2>1, <2>2 DEF Hands, Changing
    <3>2. \A u \in Threads : state[q] = "MINUS_RUNNABLE" /\ pc[u] = "wk_run" /\ wslot[u] = q
                                 => pc'[u] = pc[u] /\ wslot'[u] = wslot[u]
      BY <1>0, <2>1, <3>1, Zenon
    <3> QED BY <1>0, <1>2, <1>3, <3>1, <3>2, HandKept, ZenonT(60)
  <2> QED BY <2>2, Zenon DEF Hands, Changing
<1> QED
  <2>1. CASE \E ch \in Chans : WakeStart(t, ch)
    BY <1>4, <2>1, SMTT(40) DEF WakeStart, UserPc, procVars
  <2>2. CASE WakeState(t) \/ WakeChan(t) \/ WakeBreak(t) \/ WakeReturn(t)
    BY <1>4, <2>2, SMTT(40)
    DEF WakeState, WakeChan, WakeBreak, WakeReturn, Step, At, procVars
  <2> QED BY <1>5, <1>6, <2>1, <2>2, ZenonT(60) DEF WakeStep

\* scheduler() passes on what it is handed.
LEMMA SchedHands ==
    ASSUME IInv, Hands, NEW c \in Cpus, SchedStep(c)
    PROVE  Hands'
<1> DEFINE j == slot[c]
<1>t. /\ state \in [Procs -> ProcState] /\ pc \in [Threads -> ProcPc \cup CpuPc \cup {"off"}]
      /\ slot \in [Threads -> 1 .. NPROC + 1] /\ Cpus \subseteq Threads
      /\ run \in [Cpus -> {0} \cup Procs] /\ \A q \in Procs : q # 0
  BY Consts, Zenon DEF IInv, Typed, TypeOK
<1>0. /\ ~panicked /\ run[c] = 0 /\ wslot' = wslot
      /\ \A u \in Threads : u # c => pc'[u] = pc[u] /\ slot'[u] = slot[u]
      /\ \A d \in Cpus : d # c => run'[d] = run[d]
  BY <1>t, ZenonT(60)
  DEF SchedStep, SchedLoop, SchedPick, SchedEnd, SchedFrozen, SchedSwtch, PostSleep, PostKilled,
      PostRun, PostZombie, PostChan, PostWake, Step, At, Goto, Executes, envVars, wake, locals,
      threadVars
<1>1. \A q \in Procs : OnCpu(q) => OnCpu(q)'
  BY <1>0, <1>t, Zenon DEF OnCpu
<1>2. pc[c] # "wk_run" /\ (pc[c] \in Holding => j \in Procs)
  BY DEF SchedStep, SchedLoop, SchedPick, SchedEnd, SchedFrozen, SchedSwtch, PostSleep, PostKilled,
      PostRun, PostZombie, PostChan, PostWake, Step, At, Holding, PostPc, IInv, Typed, LocalsOK
\* A process keeps its state, and c does not drop it.
<1>3. ASSUME NEW q \in Procs, state'[q] = state[q], state[q] \in Changing,
             j = q /\ pc[c] \in Completes(state[q])
                 => OnCpu(q)' \/ (slot'[c] = q /\ pc'[c] \in Completes(state[q]))
      PROVE  InHand(q)'
  <2>1. InHand(q)
    BY <1>3, Zenon DEF Hands
  <2>2. CASE OnCpu(q)'
    BY <2>2, Zenon DEF InHand
  <2>3. CASE ~OnCpu(q)'
    <3>1. \A d \in Cpus : slot[d] = q /\ pc[d] \in Completes(state[q])
                              => slot'[d] = q /\ pc'[d] \in Completes(state[q])
      BY <1>0, <1>3, <1>t, <2>3, Zenon
    <3>2. \A u \in Threads : pc[u] = "wk_run" => pc'[u] = pc[u] /\ wslot'[u] = wslot[u]
      BY <1>0, <1>2, Zenon
    <3> QED BY <1>0, <1>1, <1>3, <2>1, <3>1, <3>2, HandKept, Zenon
  <2> QED BY <2>2, <2>3, Zenon
\* Where c does not drop its process, and changes no state to a new one.
<1>4. ASSUME \A q \in Procs : state'[q] = state[q] \/ state'[q] \notin Changing,
             \A q \in Procs, s \in Changing : q = j /\ state'[q] = s /\ pc[c] \in Completes(s)
                 => OnCpu(q)' \/ (slot'[c] = q /\ pc'[c] \in Completes(s))
      PROVE  Hands'
  <2>1. ASSUME NEW q \in Procs, state'[q] \in Changing PROVE InHand(q)'
    <3>1. state'[q] = state[q] /\ state[q] \in Changing
      BY <1>4, <2>1, Zenon
    <3>2. j = q /\ pc[c] \in Completes(state[q])
            => OnCpu(q)' \/ (slot'[c] = q /\ pc'[c] \in Completes(state[q]))
      BY <1>4, <3>1, Zenon
    <3> QED BY <1>3, <3>1, <3>2, Zenon
  <2> QED BY <2>1, Zenon DEF Hands, Changing
<1> USE DEF Cas, Step, At, Goto, procVars, fields
<1>5. CASE SchedLoop(c) \/ SchedEnd(c) \/ PostWake(c)
  <2>1. state' = state /\ pc[c] \notin Holding
    BY <1>5, SMTT(40) DEF SchedLoop, SchedEnd, PostWake, Holding
  <2> QED BY <1>4, <2>1, CompletesFacts, ZenonT(60)
<1>6. CASE SchedPick(c)
  <2>1. /\ j \in Procs /\ pc[c] = "scan" /\ \A q \in Procs : q # j => state'[q] = state[q]
        /\ state[j] = "RUNNABLE" => slot'[c] = j /\ pc'[c] = "picked" /\ state'[j] = "RUNNING"
        /\ state[j] # "RUNNABLE" => state'[j] = state[j]
    BY <1>6, <1>t, SMTT(40) DEF SchedPick
  <2>2. pc[c] \notin Holding
    BY <2>1 DEF Holding
  <2>3. ASSUME NEW q \in Procs, state'[q] \in Changing PROVE InHand(q)'
    <3>1. CASE q = j /\ state[j] = "RUNNABLE"
      <4>1. "picked" \in Completes("RUNNING")'
        BY DEF Completes
      <4> QED BY <2>1, <3>1, <4>1, Zenon DEF InHand
    <3>2. CASE ~(q = j /\ state[j] = "RUNNABLE")
      BY <1>3, <2>1, <2>2, <2>3, <3>2, CompletesFacts, Zenon
    <3> QED BY <3>1, <3>2, Zenon
  <2> QED BY <2>3, Zenon DEF Hands, Changing
<1>7. CASE SchedFrozen(c)
  <2>1. /\ pc[c] = "picked" /\ \A q \in Procs : \/ state'[q] = state[q]
                                               \/ state'[q] = "RUNNABLE"
        /\ j \in Procs => state'[j] # "RUNNING"
    BY <1>7, <1>t, SMTT(40) DEF SchedFrozen
  <2>2. \A s \in Changing : s # "RUNNING" => "picked" \notin Completes(s)
    BY CompletesFacts DEF Changing
  <2>3. "RUNNABLE" \notin Changing
    BY DEF Changing
  <2> QED BY <1>4, <2>1, <2>2, <2>3, ZenonT(60)
<1>8. CASE SchedSwtch(c)
  <2>1. state' = state /\ run'[c] = j
    BY <1>8, <1>t, Zenon DEF SchedSwtch
  <2>2. \A q \in Procs : q = j => OnCpu(q)'
    BY <2>1, Zenon DEF OnCpu
  <2> QED BY <1>4, <2>1, <2>2, Zenon
<1>9. CASE PostSleep(c)
  <2>1. /\ pc[c] = "post_sleep" /\ slot' = slot
        /\ \A q \in Procs : state'[q] = state[q] \/ state'[q] = "SLEEPING"
        /\ j \in Procs => /\ state'[j] # "MINUS_SLEEPING"
                          /\ state'[j] = "SLEEPING" \/ pc'[c] = "post_run"
    BY <1>9, <1>t, SMTT(40) DEF PostSleep
  <2>2. \A s \in Changing : s # "MINUS_SLEEPING" /\ "post_sleep" \in Completes(s)
                                => "post_run" \in Completes(s)
    BY <1>0, CompletesFacts, SMTT(40) DEF Changing
  <2>3. "SLEEPING" \notin Changing
    BY DEF Changing
  <2> QED BY <1>4, <2>1, <2>2, <2>3, ZenonT(60)
<1>10. CASE PostKilled(c)
  <2>1. /\ pc[c] = "post_killed" /\ \A q \in Procs : state'[q] = state[q] \/ state'[q] = "RUNNABLE"
    BY <1>10, <1>t, SMTT(40) DEF PostKilled
  <2>2. pc[c] \notin Holding /\ "RUNNABLE" \notin Changing
    BY <2>1 DEF Holding, Changing
  <2> QED BY <1>4, <2>1, <2>2, CompletesFacts, ZenonT(60)
<1>11. CASE PostRun(c)
  <2>1. /\ pc[c] = "post_run" /\ slot' = slot /\ pc'[c] = "post_zombie"
        /\ \A q \in Procs : state'[q] = state[q] \/ state'[q] = "RUNNABLE"
        /\ j \in Procs => state'[j] # "MINUS_RUNNABLE"
    BY <1>11, <1>t, SMTT(40) DEF PostRun
  <2>2. \A s \in Changing : s # "MINUS_RUNNABLE" /\ "post_run" \in Completes(s)
                                => "post_zombie" \in Completes(s)
    BY <1>0, CompletesFacts DEF Changing
  <2>3. "RUNNABLE" \notin Changing
    BY DEF Changing
  <2> QED BY <1>4, <2>1, <2>2, <2>3, ZenonT(60)
<1>12. CASE PostZombie(c)
  <2>1. /\ pc[c] = "post_zombie" /\ state' = state
        /\ state[j] = "MINUS_ZOMBIE" => slot'[c] = j /\ pc'[c] = "post_chan"
    BY <1>12, <1>t, SMTT(40) DEF PostZombie
  <2>2. \A s \in Changing : "post_zombie" \in Completes(s)
                                => s = "MINUS_ZOMBIE" /\ "post_chan" \in Completes(s)
    BY <1>0, CompletesFacts DEF Changing
  <2> QED BY <1>4, <2>1, <2>2, ZenonT(60)
<1>13. CASE PostChan(c)
  <2>1. /\ pc[c] = "post_chan"
        /\ \A q \in Procs : state'[q] = state[q] \/ state'[q] = "ZOMBIE"
        /\ j \in Procs => state'[j] # "MINUS_ZOMBIE"
    BY <1>13, <1>t, SMTT(40) DEF PostChan
  <2>2. \A s \in Changing : "post_chan" \in Completes(s) => s = "MINUS_ZOMBIE"
    BY <1>0, CompletesFacts, SMTT(40) DEF Changing
  <2>3. "ZOMBIE" \notin Changing
    BY DEF Changing
  <2> QED BY <1>4, <2>1, <2>2, <2>3, ZenonT(60)
<1> QED
  BY <1>5, <1>6, <1>7, <1>8, <1>9, <1>10, <1>11, <1>12, <1>13, Zenon DEF SchedStep

\* Every step keeps the processes in somebody's hands.
LEMMA HandsInductive == IInv /\ Hands /\ [Next]_vars => Hands'
<1> SUFFICES ASSUME IInv, Hands, [Next]_vars PROVE Hands'
  BY Zenon
<1>0. /\ \A q \in Procs : q \in Threads /\ q \notin Cpus
      /\ \A c \in Cpus : c \in Threads
  BY Consts, Zenon
<1>1. ASSUME NEW p \in Procs, ProcQuietStep(p) \/ FamilyStep(p) PROVE Hands'
  <2>t. Typed /\ slot \in [Threads -> 1 .. NPROC + 1]
    BY Zenon DEF IInv, Typed, TypeOK
  <2>1. CASE WaitSched(p)
    <3>1. /\ Swtch(p, "wait") /\ ~panicked /\ pc[p] = "wait_scan" /\ state' = state /\ wslot' = wslot
          /\ slot' = [slot EXCEPT ![p] = 1]
      BY <2>1, ZenonT(60) DEF WaitSched, At, Executes, procVars, wake
    <3>2. pc[p] # "wk_run" /\ \A c \in Cpus : slot'[c] = slot[c]
      BY <1>0, <2>t, <3>1
    <3> QED BY <2>t, <3>1, <3>2, SwtchHands, Zenon
  <2>2. CASE SleepSched(p)
    <3>1. /\ Swtch(p, "slp_acquire") /\ ~panicked /\ pc[p] = "slp_sched" /\ state' = state
          /\ wslot' = wslot /\ slot' = slot
      BY <2>2, Zenon DEF SleepSched, At, Executes, procVars, wake, locals
    <3>2. pc[p] # "wk_run"
      BY <3>1
    <3> QED BY <2>t, <3>1, <3>2, SwtchHands, Zenon
  <2>3. CASE YieldSched(p)
    <3>1. /\ Swtch(p, cont[p]) /\ ~panicked /\ pc[p] = "sched" /\ state' = state
          /\ wslot' = wslot /\ slot' = slot
      BY <2>3, Zenon DEF YieldSched, At, Executes, procVars, wake
    <3>2. pc[p] # "wk_run"
      BY <3>1
    <3> QED BY <2>t, <3>1, <3>2, SwtchHands, Zenon
  <2>4. CASE ExitSched(p)
    <3>1. /\ Swtch(p, "dead") /\ ~panicked /\ pc[p] = "exit" /\ state' = state /\ wslot' = wslot
          /\ slot' = [slot EXCEPT ![p] = 1]
      BY <2>4, ZenonT(60) DEF ExitSched, At, Executes, procVars, wake, locals
    <3>2. pc[p] # "wk_run" /\ \A c \in Cpus : slot'[c] = slot[c]
      BY <1>0, <2>t, <3>1
    <3> QED BY <2>t, <3>1, <3>2, SwtchHands, Zenon
  <2> QED BY <1>1, <2>1, <2>2, <2>3, <2>4, ProcCalm, CalmHands, Zenon
<1>2. CASE UNCHANGED vars
  BY <1>2, ZenonT(60)
  DEF vars, procVars, threadVars, locals, wake, envVars, Hands, InHand, OnCpu, Completes, Changing
<1>3. CASE Next
  <2>1. ASSUME NEW p \in Procs, KernelStep(p) \/ CallStep(p) \/ YieldStep(p) PROVE Hands'
    BY <1>1, <2>1, Zenon DEF KernelStep, CallStep, ProcQuietStep, FamilyStep
  <2> QED BY <1>3, <2>1, WakeHands, SchedHands, Zenon DEF Next
<1> QED BY <1>2, <1>3, Zenon

\* Nobody is left in the middle of a change of state: a process in a MINUS_
\* state, or RUNNING, is executed by a CPU, in the hands of the scheduler that
\* has a CAS to do for it (proc.c:474-541), or of wakeup1() (proc.c:672).
THEOREM NobodyStranded == Spec => []NotStranded
<1>1. Init => Hands
  BY DEF Init, Hands, Changing
<1>2. Hands => NotStranded
  <2>1. \A s : Completes(s) \subseteq CpuPc \ {"sti", "scan"}
    BY DEF Completes, CpuPc
  <2> QED BY <2>1, ZenonT(60) DEF Hands, Changing, NotStranded, InHand, OnCpu
<1>3. Init => IInv
  BY InitInv
<1>4. IInv /\ [Next]_vars => IInv'
  BY Inductive
<1>5. IInv /\ Hands /\ [Next]_vars => Hands'
  BY HandsInductive
<1> QED BY <1>1, <1>2, <1>3, <1>4, <1>5, PTL DEF Spec
=============================================================================
