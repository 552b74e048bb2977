----------------------------- MODULE ProcSafety -----------------------------
(***************************************************************************)
(* What the CAS protocol of proc.c guarantees, from the inductive          *)
(* invariant of ProcProofs: on one CPU the processes are kept apart, and on*)
(* any number of CPUs neither sleep() nor wait() misses what it waits for. *)
(***************************************************************************)
EXTENDS ProcProofs

-----------------------------------------------------------------------------
(* One CPU *)

Only(c) == \A d \in Cpus : d # c => pc[d] = "off"

\* Where a process that has switched in wait() or sleep() continues, and the
\* places in them before the switch where it is MINUS_SLEEPING.
Switched == {"wait", "slp_acquire"}
Midway == {"wait_chan", "wait_scan", "reap", "reap_run", "slp_release", "slp_sched"}

\* The state of the process that CPU c runs follows from where it is.
Dispatched(p) ==
    /\ pc[p] # "dead"
    /\ state[p] = IF InExit(p) THEN "MINUS_ZOMBIE"
                  ELSE IF pc[p] = "sched" THEN "MINUS_RUNNABLE"
                  ELSE IF pc[p] \in Midway THEN "MINUS_SLEEPING"
                  ELSE "RUNNING"

InHandOf(c, p, pcs) == run[c] = 0 /\ slot[c] = p /\ pc[c] \in pcs

\* The other processes rest, but for the one the scheduler is at work on or
\* wakeup1() is making runnable.
Parked(c, p) ==
    \/ state[p] \in FreeStates
    \/ state[p] = "RUNNABLE" /\ pc[p] \in UserPc \cup Switched
    \/ state[p] = "SLEEPING" /\ pc[p] \in Switched
    \/ state[p] = "ZOMBIE" /\ pc[p] = "dead"
    \/ state[p] = "RUNNING" /\ pc[p] \in UserPc \cup Switched /\ InHandOf(c, p, {"picked"})
    \/ state[p] = "MINUS_SLEEPING" /\ pc[p] \in Switched /\ InHandOf(c, p, {"post_sleep"})
    \/ state[p] = "MINUS_RUNNABLE" /\ pc[p] \in UserPc /\ InHandOf(c, p, {"post_sleep", "post_run"})
    \/ /\ state[p] = "MINUS_RUNNABLE" /\ pc[p] \in Switched
       /\ \E t \in Threads : pc[t] = "wk_run" /\ wslot[t] = p
    \/ /\ state[p] = "MINUS_ZOMBIE" /\ pc[p] = "dead"
       /\ InHandOf(c, p, {"post_sleep", "post_run", "post_zombie", "post_chan"})

Up(c) ==
    /\ ~panicked
    /\ run[c] # 0 => Dispatched(run[c])
    /\ run[c] = 0 /\ pc[c] = "picked" => state[slot[c]] = "RUNNING"
    /\ \A p \in Procs : p # run[c] => Parked(c, p)

UpInv == \A c \in Cpus : Only(c) => Up(c)

\* On one CPU one thread executes at a time.
LEMMA OneThread ==
    ASSUME IInv, NEW c \in Cpus, Only(c)
    PROVE  /\ \A p \in Procs : Executes(p) \/ OnCpu(p) => run[c] = p /\ p # 0 /\ pc[c] = "picked"
           /\ \A d \in Cpus : Executes(d) /\ pc[d] # "off" => d = c /\ run[c] = 0
  <1>1. \A d \in Cpus : run[d] # 0 => pc[d] = "picked"
    BY Zenon DEF IInv, Typed, LocalsOK
  <1>2. \A p \in Procs : p # 0 /\ p \notin Cpus
    BY Consts, Zenon
  <1>3. ASSUME NEW p \in Procs, Executes(p) \/ OnCpu(p) PROVE run[c] = p /\ p # 0 /\ pc[c] = "picked"
    <2>1. PICK d \in Cpus : run[d] = p
      BY <1>2, <1>3, Zenon DEF Executes, OnCpu
    <2>2. pc[d] = "picked" /\ "picked" # "off"
      BY <1>1, <1>2, <2>1, Zenon
    <2> QED BY <1>2, <2>1, <2>2, Zenon DEF Only
  <1> QED BY <1>3, Zenon DEF Executes, Only

\* What a step of the running process p does to itself and to the others.
Own(p) ==
    /\ ~panicked' /\ Dispatched(p)'
    /\ \A q \in Procs : q # p => \/ state'[q] = state[q] /\ pc'[q] = pc[q]
                                 \/ state'[q] \in FreeStates
                                 \/ state'[q] = "RUNNABLE" /\ pc'[q] = "trapret"

LEMMA OwnStep ==
    ASSUME NEW c \in Cpus, Up(c), NEW p \in Procs, run[c] = p, p # 0, Calm(p), Own(p)
    PROVE  Up(c)'
  <1>1. run'[c] = p /\ ~panicked'
    BY Zenon DEF Calm, Own
  <1>2. Dispatched(run[c])'
    BY <1>1, Zenon DEF Own, Dispatched, InExit
  <1>3. ASSUME NEW q \in Procs, q # p PROVE Parked(c, q)'
    <2>1. CASE state'[q] = state[q] /\ pc'[q] = pc[q]
      <3>1. Parked(c, q) /\ ~InHandOf(c, q, {"picked"}) /\ ~InHandOf(c, q, {"post_sleep"})
            /\ ~InHandOf(c, q, {"post_sleep", "post_run"})
            /\ ~InHandOf(c, q, {"post_sleep", "post_run", "post_zombie", "post_chan"})
        BY <1>3, Zenon DEF Up, InHandOf
      <3>2. \A t \in Threads : pc[t] = "wk_run" /\ wslot[t] = q => pc'[t] = "wk_run" /\ wslot'[t] = q
        BY Zenon DEF Calm
      <3> QED BY <2>1, <3>1, <3>2, Zenon DEF Parked
    <2>2. CASE state'[q] \in FreeStates
      BY <2>2, Zenon DEF Parked
    <2>3. CASE state'[q] = "RUNNABLE" /\ pc'[q] = "trapret"
      <3>1. "trapret" \in UserPc
        BY DEF UserPc
      <3> QED BY <2>3, <3>1, Zenon DEF Parked
    <2> QED BY <1>3, <2>1, <2>2, <2>3, Zenon DEF Own
  <1> QED BY <1>1, <1>2, <1>3, Zenon DEF Up

\* The CASes of the running process succeed, and those of others' slots leave
\* them free or runnable.
LEMMA ProcOwn ==
    ASSUME IInv, NEW p \in Procs, ProcQuietStep(p) \/ FamilyStep(p), Dispatched(p), ~panicked,
           ~WaitSched(p), ~SleepSched(p), ~YieldSched(p), ~ExitSched(p)
    PROVE  Own(p)
<1> USE DEF Own, Dispatched, InExit, ExitPc, Midway, WakePc, FreeStates, Cas, Step, At, Goto, procVars, fields,
        sigs, locals, wake, envVars, locks
<1>c. p \in Threads /\ Procs \subseteq Threads
  BY Consts, Zenon
<1>t. /\ state \in [Procs -> ProcState] /\ pc \in [Threads -> ProcPc \cup CpuPc \cup {"off"}]
      /\ cont \in [Threads -> ProcPc \cup CpuPc] /\ slot \in [Threads -> 1 .. NPROC + 1]
      /\ cont[p] \in {"user", "trapret", "fork", "closing", "exit"}
      /\ cont[p] = "exit" => pc[p] \in {"wk", "wk_chan", "wk_cas", "wk_run"}
  BY Zenon DEF IInv, Typed, TypeOK, ContOK, WakePc
<1>f. /\ pc[p] = "fork" => slot[p] \in Procs /\ state[slot[p]] = "EMBRYO"
      /\ pc[p] \in {"reap", "reap_run", "reap_free"} =>
             slot[p] \in Procs /\ state[slot[p]] = "MINUS_UNUSED"
  BY Zenon DEF IInv, Typed, LocalsOK, SlotOwner, Forking, Reaping
<1>1. CASE TrapRet(p)
  BY <1>c, <1>t, <1>f, <1>1, SMTT(40) DEF TrapRet
<1>2. CASE ForkNone(p)
  BY <1>c, <1>t, <1>f, <1>2, SMTT(40) DEF ForkNone
<1>3. CASE Exit(p)
  BY <1>c, <1>t, <1>f, <1>3, SMTT(40) DEF Exit
<1>4. CASE Fault(p)
  BY <1>c, <1>t, <1>f, <1>4, SMTT(40) DEF Fault
<1>5. CASE WaitCall(p)
  BY <1>c, <1>t, <1>f, <1>5, ZenonT(60) DEF WaitCall, WaitSleeping
<1>6. CASE WaitSleeping(p, "wait")
  BY <1>c, <1>t, <1>f, <1>6, ZenonT(60) DEF WaitSleeping
<1>7. CASE WaitChan(p)
  BY <1>c, <1>t, <1>f, <1>7, SMTT(40) DEF WaitChan
<1>8. CASE WaitReapRun(p)
  BY <1>c, <1>t, <1>f, <1>8, SMTT(40) DEF WaitReapRun
<1>9. CASE WaitNoKids(p)
  BY <1>c, <1>t, <1>f, <1>9, ZenonT(60) DEF WaitNoKids
<1>10. CASE \E ch \in Chans : SleepStart(p, ch)
  BY <1>c, <1>t, <1>f, <1>10 DEF SleepStart, Resume
<1>11. CASE SleepDone(p)
  BY <1>c, <1>t, <1>f, <1>11 DEF SleepDone
<1>12. CASE Sleep(p)
  BY <1>c, <1>t, <1>f, <1>12, ZenonT(60) DEF Sleep
<1>13. CASE SleepRelease(p)
  BY <1>c, <1>t, <1>f, <1>13 DEF SleepRelease
<1>14. CASE SleepAcquire(p)
  BY <1>c, <1>t, <1>f, <1>14 DEF SleepAcquire
<1>15. CASE Yield(p)
  BY <1>c, <1>t, <1>f, <1>15 DEF Yield, Resume, UserPc
<1>16. CASE \E q \in Procs, sig \in Sigs : Kill(p, q, sig)
  BY <1>c, <1>t, <1>f, <1>16, SMTT(40) DEF Kill
<1>17. CASE \E np \in Procs : ForkAlloc(p, np)
  BY <1>c, <1>t, <1>f, <1>17, SMTT(40) DEF ForkAlloc
<1>18. CASE ForkFail(p)
  BY <1>c, <1>t, <1>f, <1>18, SMTT(40) DEF ForkFail
<1>19. CASE ForkRun(p)
  BY <1>c, <1>t, <1>f, <1>19, SMTT(40) DEF ForkRun
<1>20. CASE ExitZombie(p)
  BY <1>c, <1>t, <1>f, <1>20, ZenonT(60) DEF ExitZombie
<1>21. CASE ExitReparent(p)
  BY <1>c, <1>t, <1>f, <1>21 DEF ExitReparent
<1>22. CASE ExitCheck(p)
  BY <1>c, <1>t, <1>f, <1>22 DEF ExitCheck
<1>23. CASE WaitScan(p)
  BY <1>c, <1>t, <1>f, <1>23, SMTT(40) DEF WaitScan
<1>24. CASE WaitReap(p)
  BY <1>c, <1>t, <1>f, <1>24, SMTT(40) DEF WaitReap
<1>25. CASE WaitReapFree(p)
  BY <1>c, <1>t, <1>f, <1>25, SMTT(40) DEF WaitReapFree
<1> QED
  BY <1>1, <1>2, <1>3, <1>4, <1>5, <1>6, <1>7, <1>8, <1>9, <1>10, <1>11, <1>12, <1>13, <1>14,
     <1>15, <1>16, <1>17, <1>18, <1>19, <1>20, <1>21, <1>22, <1>23, <1>24, <1>25, ZenonT(40)
  DEF ProcQuietStep, YieldStep, FamilyStep

\* A process that nobody works on stays as it is.
LEMMA ParkedKept ==
    ASSUME NEW c \in Cpus, NEW q \in Procs, Parked(c, q), state'[q] = state[q], pc'[q] = pc[q],
           ~(run[c] = 0 /\ slot[c] = q /\ pc[c] \in PostPc \cup {"picked"}),
           \A t \in Threads : state[q] = "MINUS_RUNNABLE" /\ pc[t] = "wk_run" /\ wslot[t] = q
                                 => pc'[t] = "wk_run" /\ wslot'[t] = q
    PROVE  Parked(c, q)'
  <1>1. /\ ~InHandOf(c, q, {"picked"}) /\ ~InHandOf(c, q, {"post_sleep"})
        /\ ~InHandOf(c, q, {"post_sleep", "post_run"})
        /\ ~InHandOf(c, q, {"post_sleep", "post_run", "post_zombie", "post_chan"})
    BY Zenon DEF InHandOf, PostPc
  <1> QED BY <1>1, Zenon DEF Parked

\* sched(): the process has left RUNNING, and its CPU's scheduler completes
\* the change.
LEMMA SwtchUp ==
    ASSUME IInv, NEW c \in Cpus, Only(c), Up(c), NEW p \in Procs, NEW l, Swtch(p, l),
           Executes(p), pc[p] # "wk_run", state' = state, wslot' = wslot, slot'[c] = slot[c],
           \/ state[p] = "MINUS_SLEEPING" /\ l \in Switched
           \/ state[p] = "MINUS_RUNNABLE" /\ l \in UserPc
           \/ state[p] = "MINUS_ZOMBIE" /\ l = "dead"
    PROVE  Up(c)'
  <1>c. /\ Procs \subseteq Threads /\ Cpus \subseteq Threads
        /\ \A q \in Procs : q # 0 /\ q \notin Cpus
    BY Consts, Zenon
  <1>1. run[c] = p /\ pc[c] = "picked" /\ slot[c] = p
    BY <1>c, OneThread, Zenon DEF IInv, Typed, LocalsOK
  <1>2. PICK d \in Cpus : /\ run[d] = p /\ run' = [run EXCEPT ![d] = 0]
                          /\ pc' = [pc EXCEPT ![p] = l, ![d] = "post_sleep"]
                          /\ panicked' = (state[p] = "RUNNING")
    BY Zenon DEF Swtch
  <1>3. d = c
    <2>1. pc[d] = "picked" /\ "picked" # "off"
      BY <1>c, <1>2, Zenon DEF IInv, Typed, LocalsOK
    <2> QED BY <2>1, Zenon DEF Only
  <1>4. /\ run'[c] = 0 /\ pc'[c] = "post_sleep" /\ pc'[p] = l
        /\ \A t \in Threads : t # p /\ t # c => pc'[t] = pc[t]
    BY <1>c, <1>2, <1>3, ZenonT(60) DEF IInv, Typed, TypeOK
  <1>5. ~panicked' /\ state[p] # "RUNNING"
    BY <1>2, ZenonT(60)
  <1>6. Parked(c, p)'
    <2>1. /\ InHandOf(c, p, {"post_sleep"})' /\ InHandOf(c, p, {"post_sleep", "post_run"})'
          /\ InHandOf(c, p, {"post_sleep", "post_run", "post_zombie", "post_chan"})'
      BY <1>1, <1>4, Zenon DEF InHandOf
    <2> QED BY <1>4, <2>1, Zenon DEF Parked
  <1>7. ASSUME NEW q \in Procs, q # p PROVE Parked(c, q)'
    <2>1. Parked(c, q) /\ state'[q] = state[q] /\ pc'[q] = pc[q] /\ run[c] # 0
      BY <1>7, <1>c, <1>1, <1>4, Zenon DEF Up
    <2>2. \A t \in Threads : pc[t] = "wk_run" => pc'[t] = "wk_run" /\ wslot'[t] = wslot[t]
      <3>1. pc[c] # "wk_run"
        BY <1>1
      <3> QED BY <1>4, <3>1, Zenon
    <2> QED BY <2>1, <2>2, ParkedKept, Zenon
  <1>8. "post_sleep" # "picked"
    OBVIOUS
  <1> QED BY <1>4, <1>5, <1>6, <1>7, <1>8, Zenon DEF Up

LEMMA SwtchStepsUp ==
    ASSUME IInv, NEW c \in Cpus, Only(c), Up(c), NEW p \in Procs,
           WaitSched(p) \/ SleepSched(p) \/ YieldSched(p) \/ ExitSched(p)
    PROVE  Up(c)'
  <1> USE DEF procVars, fields, locals, wake, At
  <1>c. p \in Threads /\ c \in Threads /\ p # c
    BY Consts, Zenon
  <1>t. /\ slot \in [Threads -> 1 .. NPROC + 1]
        /\ cont[p] \in {"user", "trapret", "fork", "closing", "exit"}
        /\ cont[p] = "exit" => pc[p] \in WakePc
    BY Zenon DEF IInv, Typed, TypeOK, ContOK
  <1>d. Executes(p) => Dispatched(p)
    BY OneThread, Zenon DEF Up
  <1>1. CASE WaitSched(p)
    <2>1. Executes(p) /\ pc[p] = "wait_scan" /\ Swtch(p, "wait") /\ UNCHANGED <<state, wslot>>
      BY <1>1, Zenon DEF WaitSched
    <2>2. state[p] = "MINUS_SLEEPING" /\ "wait" \in Switched /\ slot'[c] = slot[c]
      BY <1>c, <1>t, <1>d, <1>1, <2>1, SMTT(40)
         DEF WaitSched, Dispatched, InExit, ExitPc, WakePc, Midway, Switched
    <2> QED BY <2>1, <2>2, SwtchUp
  <1>2. CASE SleepSched(p)
    <2>1. Executes(p) /\ pc[p] = "slp_sched" /\ Swtch(p, "slp_acquire") /\ UNCHANGED <<state, wslot, slot>>
      BY <1>2, Zenon DEF SleepSched
    <2>2. state[p] = "MINUS_SLEEPING" /\ "slp_acquire" \in Switched
      BY <1>d, <2>1, SMTT(40) DEF Dispatched, InExit, ExitPc, WakePc, Midway, Switched
    <2> QED BY <2>1, <2>2, SwtchUp, SMTT(40)
  <1>3. CASE YieldSched(p)
    <2>1. Executes(p) /\ pc[p] = "sched" /\ Swtch(p, cont[p]) /\ UNCHANGED <<state, wslot, slot>>
      BY <1>3, ZenonT(60) DEF YieldSched
    <2>2. state[p] = "MINUS_RUNNABLE" /\ cont[p] \in UserPc
      BY <1>t, <1>d, <2>1, SMTT(40) DEF Dispatched, InExit, ExitPc, WakePc, UserPc
    <2>3. PICK l : l = cont[p]
      OBVIOUS
    <2>4. Swtch(p, l)
      BY <2>1, <2>3, Zenon DEF Swtch
    <2> QED BY <2>1, <2>2, <2>3, <2>4, SwtchUp, SMTT(40)
  <1>4. CASE ExitSched(p)
    <2>1. Executes(p) /\ pc[p] = "exit" /\ Swtch(p, "dead") /\ UNCHANGED <<state, wslot>>
      BY <1>4, Zenon DEF ExitSched
    <2>2. state[p] = "MINUS_ZOMBIE" /\ slot'[c] = slot[c]
      BY <1>c, <1>t, <1>d, <1>4, <2>1, SMTT(40) DEF ExitSched, Dispatched, InExit, ExitPc
    <2> QED BY <2>1, <2>2, SwtchUp
  <1> QED BY <1>1, <1>2, <1>3, <1>4, Zenon

\* A step of the scheduler works on the process in its hands only.
SchedFrame(c) ==
    /\ ~panicked' /\ pc[c] \notin {"off", "wk_run"} /\ pc'[c] # "off" 
    /\ wslot' = wslot
    /\ \A t \in Threads : t # c => pc'[t] = pc[t]
    /\ \A q \in Procs : q # slot[c] => state'[q] = state[q]

LEMMA SchedFrames ==
    ASSUME IInv, NEW c \in Cpus, SchedStep(c)
    PROVE  SchedFrame(c) /\ Executes(c)
  <1> USE DEF Cas, Step, At, Goto, procVars, fields, sigs, locals, wake, envVars, locks, threadVars
  <1>c. c \in Threads /\ c \notin Procs /\ Procs \subseteq Threads
    BY Consts, Zenon
  <1>t. /\ state \in [Procs -> ProcState] /\ pc \in [Threads -> ProcPc \cup CpuPc \cup {"off"}]
    BY Zenon DEF IInv, Typed, TypeOK
  <1>x. Executes(c) => ~panicked
    BY Zenon DEF Executes
  <1> USE DEF SchedFrame
  <1>1. CASE SchedLoop(c)
    BY <1>c, <1>t, <1>x, <1>1, SMTT(40) DEF SchedLoop
  <1>2. CASE SchedPick(c)
    BY <1>c, <1>t, <1>x, <1>2, SMTT(40) DEF SchedPick
  <1>3. CASE SchedEnd(c)
    BY <1>c, <1>t, <1>x, <1>3, SMTT(40) DEF SchedEnd
  <1>4. CASE SchedFrozen(c)
    BY <1>c, <1>t, <1>x, <1>4, SMTT(40) DEF SchedFrozen
  <1>5. CASE SchedSwtch(c)
    BY <1>c, <1>t, <1>x, <1>5, SMTT(40) DEF SchedSwtch
  <1>6. CASE PostSleep(c)
    BY <1>c, <1>t, <1>x, <1>6, SMTT(40) DEF PostSleep
  <1>7. CASE PostKilled(c)
    BY <1>c, <1>t, <1>x, <1>7, SMTT(40) DEF PostKilled
  <1>8. CASE PostRun(c)
    BY <1>c, <1>t, <1>x, <1>8, SMTT(40) DEF PostRun
  <1>9. CASE PostZombie(c)
    BY <1>c, <1>t, <1>x, <1>9, SMTT(40) DEF PostZombie
  <1>10. CASE PostChan(c)
    BY <1>c, <1>t, <1>x, <1>10, SMTT(40) DEF PostChan
  <1>11. CASE PostWake(c)
    BY <1>c, <1>t, <1>x, <1>11, SMTT(40) DEF PostWake
  <1> QED BY <1>1, <1>2, <1>3, <1>4, <1>5, <1>6, <1>7, <1>8, <1>9, <1>10, <1>11, ZenonT(60) DEF SchedStep

\* The process in the scheduler's hands is picked, dispatched, or has its
\* change of state completed.
LEMMA SchedHand ==
    ASSUME IInv, NEW c \in Cpus, Up(c), SchedStep(c), SchedFrame(c), run[c] = 0,
           NEW z, z = slot[c]
    PROVE  /\ run'[c] # 0 => run'[c] = z /\ Dispatched(z)'
           /\ run'[c] = 0 /\ pc'[c] = "picked" => state'[slot'[c]] = "RUNNING"
           /\ z \in Procs /\ z # run'[c] => Parked(c, z)'
  <1> USE DEF Cas, Step, At, Goto, procVars, fields, sigs, locals, wake, envVars, locks, threadVars
  <1>c. /\ c \in Threads /\ c \notin Procs /\ Procs \subseteq Threads
        /\ \A q \in Procs : q # 0
    BY Consts, Zenon
  <1>t. /\ state \in [Procs -> ProcState] /\ pc \in [Threads -> ProcPc \cup CpuPc \cup {"off"}]
        /\ slot \in [Threads -> 1 .. NPROC + 1] /\ run \in [Cpus -> Procs \cup {0}]
    BY Zenon DEF IInv, Typed, TypeOK
  <1>l. pc[c] \in PostPc \cup {"picked"} => slot[c] \in Procs
    BY Zenon DEF IInv, Typed, LocalsOK
  <1>z. z = slot[c]
    OBVIOUS
  <1>p. /\ z \in Procs => Parked(c, z) /\ pc'[z] = pc[z]
        /\ pc[c] = "picked" => state[z] = "RUNNING"
        /\ \A t \in Threads : pc[t] = "wk_run" /\ wslot[t] = z => pc'[t] = "wk_run" /\ wslot'[t] = z
    BY <1>c, <1>z, Zenon DEF Up, SchedFrame
  <1>e. z \in Procs /\ cont[z] = "exit" => pc[z] \in WakePc
    BY ZenonT(60) DEF IInv, Typed, ContOK
  <1> USE DEF Parked, InHandOf, UserPc, Switched, PostPc, FreeStates
  <1>1. CASE SchedLoop(c)
    BY <1>c, <1>t, <1>l, <1>z, <1>p, <1>1, SMTT(40) DEF SchedLoop
  <1>2. CASE SchedPick(c)
    BY <1>c, <1>t, <1>l, <1>z, <1>p, <1>2, SMTT(40) DEF SchedPick
  <1>3. CASE SchedEnd(c)
    BY <1>c, <1>t, <1>l, <1>z, <1>p, <1>3, SMTT(40) DEF SchedEnd
  <1>4. CASE SchedFrozen(c)
    BY <1>c, <1>t, <1>l, <1>z, <1>p, <1>4, SMTT(40) DEF SchedFrozen
  <1>5. CASE SchedSwtch(c)
    BY <1>c, <1>t, <1>l, <1>z, <1>p, <1>e, <1>5, SMTT(40) DEF SchedSwtch, Dispatched, InExit, ExitPc, WakePc, Midway
  <1>6. CASE PostSleep(c)
    BY <1>c, <1>t, <1>l, <1>z, <1>p, <1>6, SMTT(40) DEF PostSleep
  <1>7. CASE PostKilled(c)
    BY <1>c, <1>t, <1>l, <1>z, <1>p, <1>7, SMTT(40) DEF PostKilled
  <1>8. CASE PostRun(c)
    BY <1>c, <1>t, <1>l, <1>z, <1>p, <1>8, SMTT(40) DEF PostRun
  <1>9. CASE PostZombie(c)
    BY <1>c, <1>t, <1>l, <1>z, <1>p, <1>9, SMTT(40) DEF PostZombie
  <1>10. CASE PostChan(c)
    BY <1>c, <1>t, <1>l, <1>z, <1>p, <1>10, SMTT(40) DEF PostChan
  <1>11. CASE PostWake(c)
    BY <1>c, <1>t, <1>l, <1>z, <1>p, <1>11, SMTT(40) DEF PostWake
  <1> QED BY <1>1, <1>2, <1>3, <1>4, <1>5, <1>6, <1>7, <1>8, <1>9, <1>10, <1>11, ZenonT(60) DEF SchedStep

LEMMA SchedUp ==
    ASSUME IInv, NEW c \in Cpus, Only(c), Up(c), NEW d \in Cpus, SchedStep(d)
    PROVE  Up(c)'
  <1>1. SchedFrame(d) /\ Executes(d)
    BY SchedFrames
  <1>2. d = c /\ run[c] = 0
    BY <1>1, OneThread, Zenon DEF SchedFrame
  <1>c. /\ Procs \subseteq Threads /\ \A q \in Procs : q # 0 /\ q # c
    BY Consts, Zenon
  <1>3. PICK z : z = slot[c]
    BY SMTT(40)
  <1>h. /\ run'[c] # 0 => run'[c] = z /\ Dispatched(z)'
        /\ run'[c] = 0 /\ pc'[c] = "picked" => state'[slot'[c]] = "RUNNING"
        /\ z \in Procs /\ z # run'[c] => Parked(c, z)'
    BY <1>1, <1>2, <1>3, SchedHand
  <1>6. run'[c] # 0 => Dispatched(run[c])'
    BY <1>h, Zenon DEF Dispatched, InExit
  <1>7. ASSUME NEW q \in Procs, q # run'[c] PROVE Parked(c, q)'
    <2>1. CASE q = z
      BY <1>h, <1>7, <2>1, SMTT(40)
    <2>2. CASE q # z
      <3>1. Parked(c, q) /\ state'[q] = state[q] /\ pc'[q] = pc[q]
        BY <1>1, <1>2, <1>3, <1>c, <2>2, Zenon DEF Up, SchedFrame
      <3>2. \A t \in Threads : pc[t] = "wk_run" => pc'[t] = "wk_run" /\ wslot'[t] = wslot[t]
        BY <1>1, <1>2, Zenon DEF SchedFrame
      <3> QED BY <1>3, <2>2, <3>1, <3>2, ParkedKept, Zenon
    <2> QED BY <2>1, <2>2, SMTT(40)
  <1> QED BY <1>1, <1>2, <1>h, <1>6, <1>7, Zenon DEF Up, SchedFrame

\* A step of thread t into, in or out of wakeup1() changes the state of the
\* process it looks at only.
WakeFrame(t) ==
    /\ ~panicked' /\ run' = run /\ slot' = slot
    /\ pc[t] \notin PostPc \cup {"off", "picked"}
    /\ \A s \in Threads : s # t => pc'[s] = pc[s] /\ wslot'[s] = wslot[s]
    /\ \A q \in Procs :
        \/ /\ state'[q] = state[q]
           /\ pc[t] = "wk_run" /\ wslot[t] = q => state[q] # "MINUS_RUNNABLE"
        \/ state[q] = "SLEEPING" /\ state'[q] = "MINUS_RUNNABLE" /\ pc'[t] = "wk_run" /\ wslot'[t] = q
        \/ state[q] = "MINUS_RUNNABLE" /\ state'[q] = "RUNNABLE"

\* wakeup1() leaves the caller where it was: in exit() or not.
WakeSelf(t) ==
    /\ pc[t] \notin Midway \cup {"sched"}
    /\ pc'[t] \notin Midway \cup {"sched", "dead"}
    /\ InExit(t)' <=> InExit(t)

LEMMA WakeFrames ==
    ASSUME IInv, NEW t \in Threads, WakeStep(t) \/ \E ch \in Chans : WakeStart(t, ch)
    PROVE  WakeFrame(t) /\ Executes(t) /\ (t \in Procs => WakeSelf(t)) /\ (t \in Cpus => pc'[t] \notin {"picked", "off"})
  <1> USE DEF Cas, Step, At, Goto, Resume, procVars, fields, sigs, locals, wake, envVars, locks, threadVars
  <1>t. /\ state \in [Procs -> ProcState] /\ pc \in [Threads -> ProcPc \cup CpuPc \cup {"off"}]
        /\ wslot \in [Threads -> 1 .. NPROC + 1] /\ cont \in [Threads -> ProcPc \cup CpuPc]
    BY Zenon DEF IInv, Typed, TypeOK
  <1>l. pc[t] \in WakePc \ {"wk"} => wslot[t] \in Procs
    BY Zenon DEF IInv, Typed, LocalsOK
  <1>k. /\ t \in Cpus => cont[t] \in {"user", "sti", "scan"}
        /\ t \in Procs => cont[t] \in {"user", "trapret", "fork", "closing", "exit"} /\ pc[t] # "sti"
    <2>1. t \in Procs => pc[t] \in ProcPc
      BY Zenon DEF IInv, Typed, ContOK
    <2>2. "sti" \notin ProcPc
      BY DEF ProcPc, UserPc, ExitPc, WaitPc, SleepPc, WakePc
    <2> QED BY <2>1, <2>2, Zenon DEF IInv, Typed, ContOK
  <1>x. Executes(t) => ~panicked
    BY Zenon DEF Executes
  <1> USE DEF WakeFrame, WakeSelf, InExit, ExitPc, Midway, PostPc, WakePc, UserPc
  <1>1. CASE WakeState(t)
    BY <1>t, <1>l, <1>k, <1>x, <1>1, SMTT(40) DEF WakeState
  <1>2. CASE WakeChan(t)
    BY <1>t, <1>l, <1>k, <1>x, <1>2, SMTT(40) DEF WakeChan
  <1>3. CASE WakeCas(t)
    BY <1>t, <1>l, <1>k, <1>x, <1>3, SMTT(40) DEF WakeCas
  <1>4. CASE WakeBreak(t)
    BY <1>t, <1>l, <1>k, <1>x, <1>4, SMTT(40) DEF WakeBreak
  <1>5. CASE WakeRunnable(t)
    BY <1>t, <1>l, <1>k, <1>x, <1>5, SMTT(40) DEF WakeRunnable
  <1>6. CASE WakeReturn(t)
    BY <1>t, <1>l, <1>k, <1>x, <1>6, SMTT(40) DEF WakeReturn
  <1>7. ASSUME NEW ch \in Chans, WakeStart(t, ch)
        PROVE  WakeFrame(t) /\ Executes(t) /\ (t \in Procs => WakeSelf(t)) /\ (t \in Cpus => pc'[t] \notin {"picked", "off"})
    BY <1>t, <1>l, <1>k, <1>x, <1>7, SMTT(40) DEF WakeStart
  <1> QED BY <1>1, <1>2, <1>3, <1>4, <1>5, <1>6, <1>7, Zenon DEF WakeStep

LEMMA WakeUp ==
    ASSUME IInv, NEW c \in Cpus, Only(c), Up(c), NEW t \in Threads,
           WakeStep(t) \/ \E ch \in Chans : WakeStart(t, ch)
    PROVE  Up(c)'
  <1>1. WakeFrame(t) /\ Executes(t) /\ (t \in Procs => WakeSelf(t)) /\ (t \in Cpus => pc'[t] \notin {"picked", "off"})
    BY WakeFrames
  <1>2. \/ t \in Procs /\ t = run[c] /\ t # 0 /\ t # c
        \/ t = c /\ t \in Cpus /\ run[c] = 0
    <2>1. \A q \in Procs : q # 0 /\ q # c
      BY Consts, Zenon
    <2> QED BY <1>1, <2>1, OneThread, Zenon DEF Threads, WakeFrame
  <1>c. Procs \subseteq Threads /\ c \in Threads /\ (\A q \in Procs : q # 0 /\ q # c) /\ run'[c] = run[c]
    BY <1>1, Consts, Zenon DEF WakeFrame
  <1>3. run[c] # 0 => Dispatched(run[c])'
    <2>1. SUFFICES ASSUME t \in Procs, t = run[c] PROVE Dispatched(t)'
      BY <1>2, <1>c, Zenon DEF Dispatched, InExit
    <2>2. Dispatched(t) /\ WakeSelf(t) /\ t # 0
      BY <1>1, <1>2, <1>c, <2>1, Zenon DEF Up
    <2>3. state[t] \in {"MINUS_ZOMBIE", "RUNNING"}
      BY <2>2, Zenon DEF Dispatched, WakeSelf
    <2>4. state[t] # "SLEEPING" /\ state[t] # "MINUS_RUNNABLE"
      BY <2>3
    <2>5. state'[t] = state[t]
      BY <1>1, <2>1, <2>4, Zenon DEF WakeFrame
    <2> QED BY <2>2, <2>5, Zenon DEF Dispatched, WakeSelf
  <1>4. ASSUME NEW q \in Procs, q # run[c] PROVE Parked(c, q)'
    <2>1. Parked(c, q) /\ pc'[q] = pc[q]
      BY <1>1, <1>2, <1>4, <1>c, Zenon DEF Up, WakeFrame
    <2>2. ~(run[c] = 0 /\ slot[c] = q /\ pc[c] \in PostPc \cup {"picked"})
      BY <1>1, <1>2, Zenon DEF WakeFrame
    <2>3. /\ ~InHandOf(c, q, {"picked"}) /\ ~InHandOf(c, q, {"post_sleep"})
          /\ ~InHandOf(c, q, {"post_sleep", "post_run"})
          /\ ~InHandOf(c, q, {"post_sleep", "post_run", "post_zombie", "post_chan"})
      BY <2>2, Zenon DEF InHandOf, PostPc
    <2>4. CASE /\ state'[q] = state[q]
               /\ pc[t] = "wk_run" /\ wslot[t] = q => state[q] # "MINUS_RUNNABLE"
      <3>1. \A s \in Threads : state[q] = "MINUS_RUNNABLE" /\ pc[s] = "wk_run" /\ wslot[s] = q
                                  => pc'[s] = "wk_run" /\ wslot'[s] = q
        BY <1>1, <2>4, Zenon DEF WakeFrame
      <3> QED BY <2>1, <2>2, <2>4, <3>1, ParkedKept, Zenon
    <2>5. CASE state[q] = "SLEEPING" /\ state'[q] = "MINUS_RUNNABLE" /\ pc'[t] = "wk_run" /\ wslot'[t] = q
      <3>1. pc[q] \in Switched
        BY <2>1, <2>5 DEF Parked, FreeStates
      <3> QED BY <2>1, <2>5, <3>1, ZenonT(60) DEF Parked
    <2>6. CASE state[q] = "MINUS_RUNNABLE" /\ state'[q] = "RUNNABLE"
      <3>1. pc[q] \in Switched \cup UserPc
        BY <2>1, <2>6 DEF Parked, FreeStates
      <3> QED BY <2>1, <2>6, <3>1, ZenonT(60) DEF Parked
    <2> QED BY <1>1, <2>4, <2>5, <2>6, Zenon DEF WakeFrame
  <1>5. run[c] = 0 => pc'[c] # "picked"
    BY <1>1, <1>2, <1>c, Zenon
  <1> QED BY <1>1, <1>c, <1>3, <1>4, <1>5, ZenonT(60) DEF Up, WakeFrame

\* No CPU stops.
LEMMA CpusStay ==
    ASSUME IInv, [Next]_vars, NEW d \in Cpus, pc'[d] = "off"
    PROVE  pc[d] = "off"
  <1>c. Procs \subseteq Threads /\ d \in Threads /\ (\A p \in Procs : p # d)
    BY Consts, Zenon
  <1>s. ASSUME NEW p \in Procs, NEW l, Swtch(p, l) PROVE pc'[d] \in {pc[d], "post_sleep"}
    BY <1>c, <1>s, Zenon DEF Swtch, IInv, Typed, TypeOK
  <1>1. ASSUME NEW p \in Procs, ProcQuietStep(p) \/ FamilyStep(p) PROVE pc'[d] \in {pc[d], "post_sleep"}
    <2>1. CASE WaitSched(p) \/ SleepSched(p) \/ YieldSched(p) \/ ExitSched(p)
      <3>1. \E l : Swtch(p, l)
        BY <2>1, Zenon DEF WaitSched, SleepSched, YieldSched, ExitSched
      <3> QED BY <1>s, <3>1, Zenon
    <2>2. CASE ~(WaitSched(p) \/ SleepSched(p) \/ YieldSched(p) \/ ExitSched(p))
      <3>1. Calm(p)
        BY <1>1, <2>2, ProcCalm, Zenon
      <3> QED BY <3>1, Zenon DEF Calm
    <2> QED BY <2>1, <2>2, Zenon
  <1>2. ASSUME NEW p \in Procs, KernelStep(p) \/ CallStep(p) \/ YieldStep(p) PROVE pc'[d] \in {pc[d], "post_sleep"}
    <2>1. ProcQuietStep(p) \/ FamilyStep(p)
      BY <1>2, ZenonT(40) DEF KernelStep, CallStep, ProcQuietStep, FamilyStep
    <2> QED BY <1>1, <2>1, Zenon
  <1>3. ASSUME NEW c \in Cpus, SchedStep(c) PROVE pc'[d] = pc[d] \/ pc'[d] # "off"
    BY <1>c, <1>3, SchedFrames, Zenon DEF SchedFrame
  <1>4. ASSUME NEW t \in Threads, WakeStep(t) \/ \E ch \in Chans : WakeStart(t, ch)
        PROVE  pc'[d] = pc[d] \/ pc'[d] # "off"
    BY <1>c, <1>4, WakeFrames, Zenon DEF WakeFrame
  <1>5. CASE UNCHANGED vars
    BY <1>5, Zenon DEF vars, threadVars
  <1>6. "post_sleep" # "off"
    OBVIOUS
  <1> QED BY <1>2, <1>3, <1>4, <1>5, <1>6, Zenon DEF Next

LEMMA UpInductive == IInv /\ UpInv /\ [Next]_vars => UpInv'
  <1> SUFFICES ASSUME IInv, UpInv, [Next]_vars, NEW c \in Cpus, Only(c)' PROVE Up(c)'
    BY Zenon DEF UpInv
  <1>u. Only(c) /\ Up(c)
    BY CpusStay, Zenon DEF Only, UpInv
  <1>1. ASSUME NEW p \in Procs, ProcQuietStep(p) \/ FamilyStep(p) PROVE Up(c)'
    <2>1. CASE WaitSched(p) \/ SleepSched(p) \/ YieldSched(p) \/ ExitSched(p)
      BY <1>u, <2>1, SwtchStepsUp, Zenon
    <2>2. CASE ~(WaitSched(p) \/ SleepSched(p) \/ YieldSched(p) \/ ExitSched(p))
      <3>1. Calm(p) /\ OnCpu(p)
        BY <1>1, <2>2, ProcCalm, Zenon
      <3>2. run[c] = p /\ p # 0 /\ Dispatched(p) /\ ~panicked
        BY <1>u, <3>1, OneThread, Zenon DEF Up
      <3>3. Own(p)
        BY <1>1, <2>2, <3>2, ProcOwn, Zenon
      <3> QED BY <1>u, <3>1, <3>2, <3>3, OwnStep, Zenon
    <2> QED BY <2>1, <2>2, Zenon
  <1>2. ASSUME NEW p \in Procs, KernelStep(p) \/ CallStep(p) \/ YieldStep(p) PROVE Up(c)'
    <2>1. ProcQuietStep(p) \/ FamilyStep(p)
      BY <1>2, ZenonT(40) DEF KernelStep, CallStep, ProcQuietStep, FamilyStep
    <2> QED BY <1>1, <2>1, Zenon
  <1>3. ASSUME NEW d \in Cpus, SchedStep(d) PROVE Up(c)'
    BY <1>u, <1>3, SchedUp, Zenon
  <1>4. ASSUME NEW t \in Threads, WakeStep(t) \/ \E ch \in Chans : WakeStart(t, ch) PROVE Up(c)'
    BY <1>u, <1>4, WakeUp, Zenon
  <1>5. CASE UNCHANGED vars
    <2>1. UNCHANGED <<state, pc, cont, slot, wslot, run, panicked>>
      BY <1>5, Zenon DEF vars, procVars, threadVars, locals, wake, envVars
    <2>2. Dispatched(run[c]) => Dispatched(run[c])'
      BY <2>1, Zenon DEF Dispatched, InExit
    <2>3. \A q \in Procs : Parked(c, q) => Parked(c, q)'
      BY <2>1, Zenon DEF Parked, InHandOf
    <2> QED BY <1>u, <2>1, <2>2, <2>3, Zenon DEF Up
  <1> QED BY <1>2, <1>3, <1>4, <1>5, Zenon DEF Next

LEMMA UpInit == Init => UpInv
  <1> SUFFICES ASSUME Init, NEW c \in Cpus PROVE Up(c)
    BY Zenon DEF UpInv
  <1>c. c \in Threads /\ (\A p \in Procs : p \in Threads /\ p \notin Cpus)
    BY Consts, Zenon
  <1>1. /\ ~panicked /\ run[c] = 0 /\ pc[c] \in {"sti", "off"}
        /\ \A p \in Procs : state[p] \in {"UNUSED", "RUNNABLE"} /\ pc[p] = "trapret"
    BY <1>c, SMTT(40) DEF Init
  <1>2. pc[c] # "picked" /\ "trapret" \in UserPc /\ "UNUSED" \in FreeStates
    BY <1>1, SMTT(40) DEF UserPc, FreeStates
  <1>3. \A p \in Procs : state[p] = "UNUSED" \/ state[p] = "RUNNABLE"
    BY <1>1, Zenon
  <1> QED BY <1>1, <1>2, <1>3, Zenon DEF Up, Parked

\* The CPU that is up is the only one.
LEMMA OneUp == Uniprocessor => \E c \in Cpus : Only(c)
  <1> SUFFICES ASSUME NEW c \in Cpus, {d \in Cpus : pc[d] # "off"} = {c} PROVE Only(c)
    BY Zenon DEF Uniprocessor
  <1> QED BY Zenon DEF Only

\* The scheduler's sanity checks hold on one CPU: no process enters sched()
\* RUNNING, whatever the numbers of processes and channels.
THEOREM OneCpuNoPanic == Spec => []NoPanic
  <1>1. UpInv => NoPanic
    BY OneUp, Zenon DEF UpInv, Up, NoPanic
  <1> QED BY <1>1, UpInit, UpInductive, Invariance, PTL DEF Spec

\* On one CPU no kernel stack is freed while a process runs on it, and no
\* process runs twice.
THEOREM OneCpuSafe == Spec => []OneCpuUp
  <1>1. IInv /\ UpInv => OneCpuUp
    <2> SUFFICES ASSUME IInv, UpInv, NEW c \in Cpus, Only(c) PROVE ~Corrupt
      BY OneUp, Zenon DEF OneCpuUp
    <2>1. ASSUME NEW d \in Cpus, run[d] # 0 PROVE d = c
      <3>1. pc[d] = "picked" /\ "picked" # "off"
        BY <2>1, Zenon DEF IInv, Typed, LocalsOK
      <3> QED BY <3>1, Zenon DEF Only
    <2>2. run[c] # 0 => state[run[c]] \in {"MINUS_ZOMBIE", "MINUS_RUNNABLE", "MINUS_SLEEPING", "RUNNING"}
      BY Zenon DEF UpInv, Up, Dispatched
    <2>3. run[c] # 0 => state[run[c]] \notin FreeStates
      BY <2>2 DEF FreeStates
    <2> QED BY <2>1, <2>3, Zenon DEF Corrupt
  <1> QED BY <1>1, UpInit, UpInductive, Invariance, PTL DEF Spec

-----------------------------------------------------------------------------
(* No wakeup is lost *)

Asleep(p) == state[p] \in {"SLEEPING", "MINUS_SLEEPING"}

\* Process p is in sleep() after the CAS, its condition found false.
InSleep == {"slp_release", "slp_sched", "slp_acquire"}

\* A thread that is in no wakeup1() begins the next one at the first slot.
WakeIdle == \A t \in Threads : pc[t] \notin WakePc => wslot[t] = 1

\* NoLostWakeup from the CAS in sleep() on, before the process has switched.
Notified ==
    \A p \in Procs, ch \in Chans :
        Asleep(p) /\ pc[p] \in InSleep /\ chan[p] = ch /\ avail[ch]
            => \E t \in Threads : Waking(t, ch, p)

\* Process p, in wait(), has passed slot j.
Passed(p, j) == pc[p] = "wait" \/ (pc[p] = "wait_scan" /\ slot[p] > j)

\* NoLostExit's wakeups.  exit() of another process wakes initproc only: when
\* it looks at slot j late, j may have a new parent.
Announced(p, j) ==
    \/ \E t \in Threads : Waking(t, p, p)
    \/ \E c \in Cpus : pc[c] = "post_wake" /\ slot[c] = j
    \/ p = initproc /\ \E q \in Procs : pc[q] = "exit_check" /\ slot[q] = j

\* NoLostExit for the part of the table that wait() has scanned.
Missing(p, j) ==
    /\ Asleep(p) /\ Passed(p, j) /\ chan[p] = p
    /\ parent[j] = p /\ state[j] = "ZOMBIE"

ExitsSeen == \A p, j \in Procs : Missing(p, j) => Announced(p, j)

WakeInv == WakeIdle /\ Notified /\ ExitsSeen

\* Where a thread wakes others or sleeps.
Busy == WakePc \cup InSleep \cup {"post_wake", "exit_check", "wait", "wait_scan"}

\* A step of thread t that neither wakes anybody nor gives a reason to, unless
\* t itself has just found that there is none to wait.
NoNews(t) ==
    /\ wslot' = wslot
    /\ \A s \in Threads : s # t =>
        /\ pc'[s] = pc[s] \/ {pc[s], pc'[s]} \cap Busy = {}
        /\ slot'[s] = slot[s] /\ wchan'[s] = wchan[s]
    /\ pc[t] \notin WakePc \cup {"post_wake", "exit_check"} /\ pc'[t] \notin WakePc
    /\ \A ch \in Chans : avail'[ch] => avail[ch]
    /\ \A q \in Procs : /\ q # t => chan'[q] = chan[q] /\ (Asleep(q)' => Asleep(q))
                        /\ state'[q] = "ZOMBIE" => state[q] = "ZOMBIE"
                        /\ parent'[q] \in {parent[q], 0, t}
    /\ t \in Procs =>
        /\ Asleep(t)' /\ pc'[t] \in InSleep /\ chan'[t] \in Chans /\ avail[chan'[t]]
               => Asleep(t) /\ pc[t] \in InSleep /\ chan'[t] = chan[t]
        /\ \A j \in Procs : Missing(t, j)' => Missing(t, j)

LEMMA NoNewsStep ==
    ASSUME IInv, WakeInv, NEW t \in Threads, NoNews(t)
    PROVE  WakeInv'
  <1>c. /\ \A p \in Procs : p \in Threads /\ p # 0 /\ p \notin Cpus
        /\ \A c \in Cpus : c \in Threads
    BY Consts, Zenon
  <1>p. {"wk", "wk_chan", "wk_cas", "wk_run", "post_wake", "exit_check", "wait", "wait_scan"}
          \cup InSleep \subseteq Busy
    BY DEF Busy, WakePc
  <1>b. \A x : x \in WakePc => x \in Busy
    BY Zenon DEF Busy
  <1>1. WakeIdle'
    <2> SUFFICES ASSUME NEW s \in Threads, pc'[s] \notin WakePc PROVE wslot'[s] = 1
      BY Zenon DEF WakeIdle
    <2>1. pc[s] \notin WakePc
      BY <1>b, Zenon DEF NoNews
    <2> QED BY <2>1, Zenon DEF NoNews, WakeInv, WakeIdle
  <1>2. ASSUME NEW s \in Threads, NEW ch, NEW p, Waking(s, ch, p)
        PROVE  Waking(s, ch, p)'
    <2>1. pc[s] \in WakePc /\ s # t
      BY <1>2, Zenon DEF Waking, NoNews
    <2>2. pc'[s] = pc[s] /\ wchan'[s] = wchan[s] /\ wslot'[s] = wslot[s]
      BY <1>b, <2>1, Zenon DEF NoNews
    <2> QED BY <1>2, <2>2, Zenon DEF Waking
  <1>3. Notified'
    <2> SUFFICES ASSUME NEW p \in Procs, NEW ch \in Chans,
                        Asleep(p)', pc'[p] \in InSleep, chan'[p] = ch, avail'[ch]
                 PROVE  \E s \in Threads : Waking(s, ch, p)'
      BY Zenon DEF Notified
    <2>1. avail[ch]
      BY Zenon DEF NoNews
    <2>2. Asleep(p) /\ pc[p] \in InSleep /\ chan[p] = ch
      <3>1. CASE p = t
        BY <2>1, <3>1, Zenon DEF NoNews
      <3>2. CASE p # t
        BY <1>c, <1>p, <3>2, Zenon DEF NoNews
      <3> QED BY <3>1, <3>2, Zenon
    <2> QED BY <1>2, <2>1, <2>2, Zenon DEF WakeInv, Notified
  <1>4. ExitsSeen'
    <2> SUFFICES ASSUME NEW p \in Procs, NEW j \in Procs, Missing(p, j)'
                 PROVE  Announced(p, j)'
      BY Zenon DEF ExitsSeen
    <2>1. Missing(p, j)
      <3>1. CASE p = t
        BY <3>1, Zenon DEF NoNews
      <3>2. CASE p # t
        <4>1. Asleep(p) /\ chan[p] = p /\ parent[j] = p /\ state[j] = "ZOMBIE"
          BY <1>c, <3>2, Zenon DEF NoNews, Missing
        <4>2. slot'[p] = slot[p] /\ (pc'[p] = pc[p] \/ pc'[p] \notin Busy)
          BY <1>c, <3>2, Zenon DEF NoNews
        <4>3. pc'[p] = pc[p]
          BY <1>p, <4>2, Zenon DEF Missing, Passed
        <4> QED BY <4>1, <4>2, <4>3, Zenon DEF Missing, Passed
      <3> QED BY <3>1, <3>2, Zenon
    <2>2. Announced(p, j)
      BY <2>1, Zenon DEF WakeInv, ExitsSeen
    <2>3. CASE \E s \in Threads : Waking(s, p, p)
      BY <1>2, <2>3, Zenon DEF Announced
    <2>4. ASSUME NEW s \in Threads, pc[s] \in {"post_wake", "exit_check"}
          PROVE  pc'[s] = pc[s] /\ slot'[s] = slot[s]
      BY <1>p, <2>4, Zenon DEF NoNews
    <2>5. CASE \E c \in Cpus : pc[c] = "post_wake" /\ slot[c] = j
      BY <1>c, <2>4, <2>5, Zenon DEF Announced
    <2>6. CASE p = initproc /\ \E q \in Procs : pc[q] = "exit_check" /\ slot[q] = j
      BY <1>c, <2>4, <2>6, Zenon DEF Announced
    <2> QED BY <2>2, <2>3, <2>5, <2>6, Zenon DEF Announced
  <1> QED BY <1>1, <1>3, <1>4, Zenon DEF WakeInv

\* The steps of processes that do not switch, wake nobody and reparent nobody.
LEMMA ProcNoNews ==
    ASSUME IInv, NEW p \in Procs, ProcQuietStep(p) \/ FamilyStep(p),
           ~WaitSched(p), ~SleepSched(p), ~YieldSched(p), ~ExitSched(p),
           ~ExitReparent(p), ~ExitCheck(p)
    PROVE  NoNews(p)
<1> USE DEF NoNews, Asleep, Missing, Passed, InSleep, Busy, WakePc, Cas, Step, At, Goto, procVars, fields,
        sigs, locals, wake, envVars, locks
<1>c. p \in Threads /\ Procs \subseteq Threads /\ \A q \in Procs : q # 0
  BY Consts, Zenon
<1>t. /\ state \in [Procs -> ProcState] /\ pc \in [Threads -> ProcPc \cup CpuPc \cup {"off"}]
      /\ slot \in [Threads -> 1 .. NPROC + 1] /\ wslot \in [Threads -> 1 .. NPROC + 1]
      /\ chan \in [Procs -> {0} \cup Procs \cup Chans] /\ parent \in [Procs -> {0} \cup Procs]
      /\ wchan \in [Threads -> {0} \cup Procs \cup Chans] /\ avail \in [Chans -> BOOLEAN]
      /\ cont[p] \in {"user", "trapret", "fork", "closing", "exit"}
      /\ cont[p] = "exit" => pc[p] \in {"wk", "wk_chan", "wk_cas", "wk_run"}
  BY ZenonT(60) DEF IInv, Typed, TypeOK, ContOK, WakePc
<1>1. CASE TrapRet(p)
  BY <1>c, <1>t, <1>1, SMTT(40) DEF TrapRet
<1>2. CASE ForkNone(p)
  BY <1>c, <1>t, <1>2, SMTT(40) DEF ForkNone
<1>3. CASE Exit(p)
  BY <1>c, <1>t, <1>3, SMTT(40) DEF Exit
<1>4. CASE Fault(p)
  BY <1>c, <1>t, <1>4, SMTT(40) DEF Fault
<1>5. CASE WaitCall(p)
  BY <1>c, <1>t, <1>5, SMTT(40) DEF WaitCall, WaitSleeping
<1>6. CASE WaitSleeping(p, "wait")
  BY <1>c, <1>t, <1>6, SMTT(40) DEF WaitSleeping
<1>7. CASE WaitChan(p)
  <2>1. \A q \in Procs : ~(1 > q)
    BY SMTT(40) DEF Procs
  <2> QED BY <1>c, <1>t, <1>7, <2>1, SMTT(40) DEF WaitChan
<1>8. CASE WaitReapRun(p)
  BY <1>c, <1>t, <1>8, SMTT(40) DEF WaitReapRun
<1>9. CASE WaitNoKids(p)
  BY <1>c, <1>t, <1>9, SMTT(40) DEF WaitNoKids
<1>10. CASE \E ch \in Chans : SleepStart(p, ch)
  BY <1>c, <1>t, <1>10, SMTT(40) DEF SleepStart, Resume
<1>11. CASE SleepDone(p)
  BY <1>c, <1>t, <1>11, SMTT(40) DEF SleepDone
<1>12. CASE Sleep(p)
  BY <1>c, <1>t, <1>12, SMTT(40) DEF Sleep
<1>13. CASE SleepRelease(p)
  BY <1>c, <1>t, <1>13, SMTT(40) DEF SleepRelease
<1>14. CASE SleepAcquire(p)
  BY <1>c, <1>t, <1>14, SMTT(40) DEF SleepAcquire
<1>15. CASE Yield(p)
  BY <1>c, <1>t, <1>15, SMTT(40) DEF Yield, Resume, UserPc
<1>16. CASE \E q \in Procs, sig \in Sigs : Kill(p, q, sig)
  BY <1>c, <1>t, <1>16, SMTT(40) DEF Kill
<1>17. CASE \E np \in Procs : ForkAlloc(p, np)
  BY <1>c, <1>t, <1>17, SMTT(40) DEF ForkAlloc
<1>18. CASE ForkFail(p)
  BY <1>c, <1>t, <1>18, SMTT(40) DEF ForkFail
<1>19. CASE ExitZombie(p)
  BY <1>c, <1>t, <1>19, SMTT(40) DEF ExitZombie
<1>20. CASE WaitScan(p)
  <2> DEFINE j == slot[p]
  <2>1. /\ pc[p] = "wait_scan" /\ j \in Procs /\ UNCHANGED <<chan, parent, wslot, wchan, avail>>
        /\ \A s \in Threads : s # p => pc'[s] = pc[s] /\ slot'[s] = slot[s]
        /\ pc'[p] \in {"reap", "wait_scan"} /\ slot'[p] \in {j, j + 1}
        /\ \A q \in Procs : state'[q] = state[q] \/ state'[q] = "MINUS_UNUSED"
        /\ pc'[p] = "wait_scan" => state'[j] = state[j] /\ ~(parent[j] = p /\ state[j] = "ZOMBIE")
    BY <1>c, <1>t, <1>20, SMTT(40) DEF WaitScan
  <2>2. \A k \in Procs : j + 1 > k => j > k \/ j = k
    BY <2>1, SMTT(40) DEF Procs
  <2>3. \A k \in Procs : j > k => slot[p] > k
    BY SMTT(40)
  <2> HIDE DEF j
  <2>4. ASSUME NEW k \in Procs, Missing(p, k)' PROVE Missing(p, k)
    BY <2>1, <2>2, <2>3, <2>4, SMTT(40)
  <2> QED BY <1>c, <2>1, <2>4, SMTT(40)
<1>21. CASE WaitReap(p)
  BY <1>c, <1>t, <1>21, SMTT(40) DEF WaitReap
<1>22. CASE WaitReapFree(p)
  BY <1>c, <1>t, <1>22, SMTT(40) DEF WaitReapFree
<1>23. CASE ForkRun(p)
  <2>1. pc[p] = "fork" /\ Executes(p)
    BY <1>23, ZenonT(60) DEF ForkRun
  <2>2. slot[p] \in Procs /\ state[slot[p]] = "EMBRYO"
    BY <2>1, Zenon DEF IInv, Typed, LocalsOK, SlotOwner, Forking
  <2>3. pc[slot[p]] \in {"dead", "trapret"}
    BY <1>c, <2>1, <2>2, Running, ZenonT(60) DEF Family, FreeIdle, FreeStates
  <2> QED BY <1>c, <1>t, <1>23, <2>1, <2>2, <2>3, SMTT(40) DEF ForkRun
<1> QED
  BY <1>1, <1>2, <1>3, <1>4, <1>5, <1>6, <1>7, <1>8, <1>9, <1>10, <1>11, <1>12, <1>13, <1>14,
     <1>15, <1>16, <1>17, <1>18, <1>19, <1>20, <1>21, <1>22, <1>23, ZenonT(40)
  DEF ProcQuietStep, YieldStep, FamilyStep

\* sched(): a process switches, after the loop of wait() or of exit(), in
\* sleep() or in yield().
LEMMA SwtchNoNews ==
    ASSUME IInv, NEW p \in Procs, NEW l, Swtch(p, l),
           UNCHANGED <<state, chan, parent, avail, wslot, wchan>>,
           \A s \in Threads : s # p => slot'[s] = slot[s],
           l \notin WakePc, pc[p] \notin WakePc \cup {"exit_check"},
           l \in InSleep => pc[p] \in InSleep,
           l \in {"wait", "wait_scan"} =>
               l = "wait" /\ pc[p] = "wait_scan" /\ \A j \in Procs : slot[p] > j
    PROVE  NoNews(p)
  <1>c. p \in Threads /\ Procs \subseteq Threads /\ p \notin Cpus /\ Cpus \subseteq Threads
    BY Consts, Zenon
  <1> PICK c \in Cpus : run[c] = p /\ pc' = [pc EXCEPT ![p] = l, ![c] = "post_sleep"]
    BY Zenon DEF Swtch
  <1>1. pc[c] = "picked" /\ p # 0
    BY Consts, Zenon DEF IInv, Typed, LocalsOK
  <1>2. /\ pc'[p] = l /\ pc'[c] = "post_sleep"
        /\ \A s \in Threads : s # p /\ s # c => pc'[s] = pc[s]
    BY <1>c, Zenon DEF IInv, Typed, TypeOK
  <1>3. {"picked", "post_sleep"} \cap Busy = {}
    BY DEF Busy, WakePc, InSleep
  <1>4. pc[p] # "post_wake"
    BY Zenon DEF IInv, Typed, ContOK, ProcPc, UserPc, ExitPc, WaitPc, SleepPc, WakePc
  <1>5. \A s \in Threads : s # p => /\ pc'[s] = pc[s] \/ {pc[s], pc'[s]} \cap Busy = {}
                                    /\ slot'[s] = slot[s] /\ wchan'[s] = wchan[s]
    BY <1>1, <1>2, <1>3, ZenonT(60)
  <1>6. \A j \in Procs : Missing(p, j)' => Missing(p, j)
    BY <1>2, Zenon DEF Missing, Asleep, Passed
  <1>7. \A q \in Procs : Asleep(q)' <=> Asleep(q)
    BY Zenon DEF Asleep
  <1> QED BY <1>c, <1>2, <1>4, <1>5, <1>6, <1>7, ZenonT(60) DEF NoNews

LEMMA SwtchSteps ==
    ASSUME IInv, NEW p \in Procs, WaitSched(p) \/ SleepSched(p) \/ YieldSched(p) \/ ExitSched(p)
    PROVE  NoNews(p)
  <1> USE DEF procVars, fields, locals, wake, locks, At, WakePc, InSleep
  <1>t. /\ slot \in [Threads -> 1 .. NPROC + 1] /\ p \in Threads
        /\ cont[p] \in {"user", "trapret", "fork", "closing", "exit"}
        /\ cont[p] = "exit" => pc[p] \in {"wk", "wk_chan", "wk_cas", "wk_run"}
    BY Consts, Zenon DEF IInv, Typed, TypeOK, ContOK
  <1>1. CASE WaitSched(p)
    <2>1. \A j \in Procs : NPROC + 1 > j
      BY NPROCAssumption, SMTT(40) DEF Procs
    <2>2. /\ pc[p] = "wait_scan" /\ slot[p] = NPROC + 1 /\ Swtch(p, "wait")
          /\ UNCHANGED <<state, chan, parent, avail, wslot, wchan>>
          /\ \A s \in Threads : s # p => slot'[s] = slot[s]
      BY <1>t, <1>1 DEF WaitSched
    <2> QED BY <2>1, <2>2, SwtchNoNews, SMTT(40)
  <1>2. CASE SleepSched(p)
    BY <1>t, <1>2, SwtchNoNews, SMTT(40) DEF SleepSched
  <1>3. CASE YieldSched(p)
    BY <1>t, <1>3, SwtchNoNews, SMTT(40) DEF YieldSched
  <1>4. CASE ExitSched(p)
    BY <1>t, <1>4, SwtchNoNews, SMTT(40) DEF ExitSched
  <1> QED BY <1>1, <1>2, <1>3, <1>4, Zenon

\* The scheduler's, but for those that make a process a zombie and wake its
\* parent.
LEMMA SchedNoNews ==
    ASSUME IInv, NEW c \in Cpus, SchedStep(c), ~PostChan(c), ~PostWake(c)
    PROVE  NoNews(c)
  <1> USE DEF Cas, Step, At, Goto, procVars, fields, sigs, locals, wake, envVars, locks, threadVars
  <1>c. c \in Threads /\ c \notin Procs /\ Procs \subseteq Threads
    BY Consts, Zenon
  <1>t. /\ state \in [Procs -> ProcState] /\ pc \in [Threads -> ProcPc \cup CpuPc \cup {"off"}]
        /\ slot \in [Threads -> 1 .. NPROC + 1]
    BY Zenon DEF IInv, Typed, TypeOK
  <1>q. SUFFICES
        /\ UNCHANGED <<chan, parent, avail, wslot, wchan>>
        /\ \A s \in Threads : s # c => pc'[s] = pc[s] /\ slot'[s] = slot[s]
        /\ {pc[c], pc'[c]} \cap (WakePc \cup {"post_wake", "exit_check"}) = {}
        /\ \A q \in Procs : /\ Asleep(q)' => Asleep(q)
                            /\ state'[q] = "ZOMBIE" => state[q] = "ZOMBIE"
    BY <1>c, ZenonT(60) DEF NoNews
  <1> USE DEF WakePc, Asleep
  <1>1. CASE SchedLoop(c)
    BY <1>c, <1>t, <1>1, SMTT(40) DEF SchedLoop
  <1>2. CASE SchedPick(c)
    BY <1>c, <1>t, <1>2, SMTT(40) DEF SchedPick
  <1>3. CASE SchedEnd(c)
    BY <1>c, <1>t, <1>3, SMTT(40) DEF SchedEnd
  <1>4. CASE SchedFrozen(c)
    BY <1>c, <1>t, <1>4, SMTT(40) DEF SchedFrozen
  <1>5. CASE SchedSwtch(c)
    BY <1>c, <1>t, <1>5, SMTT(40) DEF SchedSwtch
  <1>6. CASE PostSleep(c)
    BY <1>c, <1>t, <1>6, SMTT(40) DEF PostSleep
  <1>7. CASE PostKilled(c)
    BY <1>c, <1>t, <1>7, SMTT(40) DEF PostKilled
  <1>8. CASE PostRun(c)
    BY <1>c, <1>t, <1>8, SMTT(40) DEF PostRun
  <1>9. CASE PostZombie(c)
    BY <1>c, <1>t, <1>9, SMTT(40) DEF PostZombie
  <1> QED BY <1>1, <1>2, <1>3, <1>4, <1>5, <1>6, <1>7, <1>8, <1>9, ZenonT(60) DEF SchedStep

\* A step of thread t that is not in wakeup1() before it leaves those that are
\* alone.
LEMMA WakersKept ==
    ASSUME NEW t \in Threads, pc[t] \notin WakePc, wslot' = wslot,
           \A s \in Threads : s # t => pc'[s] = pc[s] /\ wchan'[s] = wchan[s],
           NEW s \in Threads, NEW ch, NEW p, Waking(s, ch, p)
    PROVE  Waking(s, ch, p)'
  BY Zenon DEF Waking

\* A thread that enters wakeup1() begins at the first slot.
LEMMA WakeBegins ==
    ASSUME NEW t \in Threads, wslot[t] = 1, wslot' = wslot, pc'[t] = "wk",
           NEW ch, wchan'[t] = ch, NEW p \in Procs
    PROVE  Waking(t, ch, p)'
  <1>1. 1 < p \/ 1 = p
    BY SMTT(40) DEF Procs
  <1>2. "wk" \in WakePc /\ "wk" # "wk_run"
    BY DEF WakePc
  <1> QED BY <1>1, <1>2, Zenon DEF Waking

\* exit() passes a child to initproc and will look at its state.
LEMMA ReparentNews ==
    ASSUME IInv, WakeInv, NEW p \in Procs, ExitReparent(p)
    PROVE  WakeInv'
  <1>c. p \in Threads /\ p \notin Cpus /\ Procs \subseteq Threads /\ Cpus \subseteq Threads
    BY Consts, Zenon
  <1>1. PICK j \in Procs :
           /\ parent' = [parent EXCEPT ![j] = initproc]
           /\ slot' = [slot EXCEPT ![p] = j]
    <2>1. \A j \in slot[p] .. NPROC : j \in Procs
      BY <1>c, SMTT(40) DEF IInv, Typed, TypeOK, Procs
    <2> QED BY <2>1, Zenon DEF ExitReparent
  <1>u. /\ UNCHANGED <<state, chan, wslot, wchan, avail>> /\ pc[p] = "exit" /\ pc'[p] = "exit_check"
        /\ \A s \in Threads : s # p => pc'[s] = pc[s] /\ slot'[s] = slot[s]
        /\ slot'[p] = j
        /\ \A k \in Procs : k # j => parent'[k] = parent[k]
        /\ parent'[j] = initproc
    BY <1>c, <1>1, SMTT(40) DEF ExitReparent, Step, At, Goto, locals, wake, envVars, locks, IInv, Typed, TypeOK
  <1>p. /\ pc[p] \notin WakePc \cup InSleep \cup {"wait", "wait_scan"}
        /\ pc'[p] \notin WakePc \cup InSleep \cup {"wait", "wait_scan"}
    BY <1>u DEF WakePc, InSleep
  <1>w. \A s \in Threads : \A ch, q : Waking(s, ch, q) => Waking(s, ch, q)'
    BY <1>c, <1>u, <1>p, WakersKept, Zenon
  <1>a. \A q \in Procs : Asleep(q)' <=> Asleep(q)
    BY <1>u, Zenon DEF Asleep
  <1>2. WakeIdle'
    BY <1>u, <1>p, Zenon DEF WakeInv, WakeIdle
  <1>3. Notified'
    BY <1>c, <1>u, <1>p, <1>w, <1>a, ZenonT(60) DEF WakeInv, Notified
  <1>4. ASSUME NEW q \in Procs, NEW k \in Procs, Missing(q, k)' PROVE Announced(q, k)'
    <2>1. q # p
      BY <1>4, <1>p, Zenon DEF Missing, Passed
    <2>2. CASE k = j
      BY <1>4, <1>u, <2>2, Zenon DEF Missing, Announced
    <2>3. CASE k # j
      <3>1. Missing(q, k)
        BY <1>4, <1>c, <1>u, <1>a, <2>1, <2>3, ZenonT(60) DEF Missing, Passed
      <3>2. Announced(q, k)
        BY <3>1, ZenonT(60) DEF WakeInv, ExitsSeen
      <3>3. \A s \in Threads : pc[s] \in {"post_wake", "exit_check"}
                                 => pc'[s] = pc[s] /\ slot'[s] = slot[s]
        BY <1>u, SMTT(40)
      <3> QED BY <1>c, <1>w, <3>2, <3>3, Zenon DEF Announced
    <2> QED BY <2>2, <2>3, Zenon
  <1> QED BY <1>2, <1>3, <1>4, Zenon DEF WakeInv, ExitsSeen

\* exit() has seen a zombie, and wakes initproc.
LEMMA CheckNews ==
    ASSUME IInv, WakeInv, NEW p \in Procs, ExitCheck(p)
    PROVE  WakeInv'
  <1> DEFINE z == slot[p]
  <1>c. p \in Threads /\ p \notin Cpus /\ Procs \subseteq Threads /\ Cpus \subseteq Threads
    BY Consts, Zenon
  <1>u. /\ UNCHANGED <<state, chan, parent, wslot, avail>> /\ pc[p] = "exit_check"
        /\ \A s \in Threads : s # p => /\ pc'[s] = pc[s] /\ slot'[s] = slot[s]
                                       /\ wchan'[s] = wchan[s]
        /\ IF state[z] = "ZOMBIE" THEN pc'[p] = "wk" /\ wchan'[p] = initproc
           ELSE pc'[p] = "exit" /\ wchan'[p] = wchan[p]
    BY <1>c, SMTT(40) DEF ExitCheck, At, Goto, procVars, fields, sigs, envVars, locks, IInv, Typed, TypeOK
  <1>p. /\ pc[p] \notin WakePc \cup InSleep \cup {"wait", "wait_scan"}
        /\ pc'[p] \notin InSleep \cup {"wait", "wait_scan"}
        /\ pc'[p] \in WakePc => pc'[p] = "wk"
    BY <1>u DEF WakePc, InSleep
  <1>w. \A s \in Threads : \A ch, q : Waking(s, ch, q) => Waking(s, ch, q)'
    BY <1>c, <1>u, <1>p, WakersKept, Zenon
  <1>a. \A q \in Procs : Asleep(q)' <=> Asleep(q)
    BY <1>u, Zenon DEF Asleep
  <1>2. WakeIdle' /\ wslot[p] = 1
    BY <1>c, <1>u, <1>p, Zenon DEF WakeInv, WakeIdle
  <1>3. Notified'
    BY <1>c, <1>u, <1>p, <1>w, <1>a, Zenon DEF WakeInv, Notified
  <1>4. ASSUME NEW q \in Procs, NEW k \in Procs, Missing(q, k)' PROVE Announced(q, k)'
    <2>1. q # p
      BY <1>4, <1>p, Zenon DEF Missing, Passed
    <2>2. Missing(q, k)
      BY <1>4, <1>c, <1>u, <1>a, <2>1, Zenon DEF Missing, Passed
    <2>3. Announced(q, k)
      BY <2>2, Zenon DEF WakeInv, ExitsSeen
    <2>4. CASE \E s \in Threads : Waking(s, q, q)
      BY <1>w, <2>4, Zenon DEF Announced
    <2>5. CASE \E c \in Cpus : pc[c] = "post_wake" /\ slot[c] = k
      BY <1>c, <1>u, <2>5, Zenon DEF Announced
    <2>6. ASSUME q = initproc, NEW r \in Procs, pc[r] = "exit_check", slot[r] = k
          PROVE  Announced(q, k)'
      <3>1. CASE r # p
        BY <1>c, <1>u, <2>6, <3>1, Zenon DEF Announced
      <3>2. CASE r = p
        <4>1. state[z] = "ZOMBIE"
          BY <2>2, <2>6, <3>2, Zenon DEF Missing
        <4>2. pc'[p] = "wk" /\ wchan'[p] = q
          BY <1>u, <2>6, <4>1, Zenon
        <4>3. Waking(p, q, q)'
          BY <1>c, <1>u, <1>2, <4>2, WakeBegins, Zenon
        <4> QED BY <1>c, <4>3, Zenon DEF Announced
      <3> QED BY <3>1, <3>2, Zenon
    <2> QED BY <2>3, <2>4, <2>5, <2>6, ZenonT(60) DEF Announced
  <1> QED BY <1>2, <1>3, <1>4, ZenonT(60) DEF WakeInv, ExitsSeen

\* A process becomes a zombie; its scheduler will wake the parent.
LEMMA ZombieNews ==
    ASSUME IInv, WakeInv, NEW c \in Cpus, PostChan(c)
    PROVE  WakeInv'
  <1> DEFINE z == slot[c]
  <1>c. c \in Threads /\ c \notin Procs /\ Procs \subseteq Threads /\ Cpus \subseteq Threads
    BY Consts, ZenonT(60)
  <1>z. z \in Procs /\ 0 \notin Procs /\ 0 \notin Chans
    BY Consts, ThreadAssumption, NPROCAssumption, SMTT(40) DEF PostChan, At, IInv, Typed, LocalsOK, PostPc
  <1>u. /\ UNCHANGED <<parent, wslot, wchan, avail>> /\ pc[c] = "post_chan"
        /\ \A s \in Threads : s # c => pc'[s] = pc[s] /\ slot'[s] = slot[s]
        /\ \A q \in Procs : q # z => state'[q] = state[q] /\ chan'[q] = chan[q]
        /\ chan'[z] = 0
        /\ IF state[z] = "MINUS_ZOMBIE" THEN pc'[c] = "post_wake" /\ slot'[c] = z
           ELSE pc'[c] = "scan" /\ state'[z] = state[z]
    BY <1>c, <1>z, SMTT(40) DEF PostChan, At, Goto, Cas, sigs, locals, wake, envVars, locks, IInv, Typed, TypeOK
  <1> HIDE DEF z
  <1>p. {pc[c], pc'[c]} \cap (WakePc \cup {"exit_check"}) = {}
    BY <1>u, SMTT(40) DEF WakePc
  <1>w. \A s \in Threads : \A ch, q : Waking(s, ch, q) => Waking(s, ch, q)'
    BY <1>c, <1>u, <1>p, WakersKept, Zenon
  <1>2. WakeIdle'
    BY <1>u, <1>p, Zenon DEF WakeInv, WakeIdle
  <1>3. Notified'
    <2> SUFFICES ASSUME NEW q \in Procs, NEW ch \in Chans,
                        Asleep(q)', pc'[q] \in InSleep, chan'[q] = ch, avail'[ch]
                 PROVE  \E s \in Threads : Waking(s, ch, q)'
      BY Zenon DEF Notified
    <2>1. q # z /\ q # c
      BY <1>c, <1>z, <1>u, Zenon
    <2>2. Asleep(q) /\ pc[q] \in InSleep /\ chan[q] = ch /\ avail[ch]
      BY <1>c, <1>u, <2>1, Zenon DEF Asleep
    <2> QED BY <1>w, <2>2, Zenon DEF WakeInv, Notified
  <1>4. ASSUME NEW q \in Procs, NEW k \in Procs, Missing(q, k)' PROVE Announced(q, k)'
    <2>1. q # z /\ q # c
      BY <1>4, <1>c, <1>z, <1>u, Zenon DEF Missing
    <2>2. CASE k = z /\ state[z] = "MINUS_ZOMBIE"
      BY <1>u, <2>2, Zenon DEF Announced
    <2>3. CASE ~(k = z /\ state[z] = "MINUS_ZOMBIE")
      <3>1. Missing(q, k)
        BY <1>4, <1>c, <1>u, <2>1, <2>3, ZenonT(60) DEF Missing, Passed, Asleep
      <3>2. Announced(q, k)
        BY <3>1, ZenonT(60) DEF WakeInv, ExitsSeen
      <3>3. \A s \in Threads : pc[s] \in {"post_wake", "exit_check"}
                                 => pc'[s] = pc[s] /\ slot'[s] = slot[s]
        BY <1>u, SMTT(40)
      <3> QED BY <1>c, <1>w, <3>2, <3>3, ZenonT(60) DEF Announced
    <2> QED BY <2>2, <2>3, ZenonT(60)
  <1> QED BY <1>2, <1>3, <1>4, Zenon DEF WakeInv, ExitsSeen

\* The scheduler reads who the parent is now, and wakes it.
LEMMA ParentNews ==
    ASSUME IInv, WakeInv, NEW c \in Cpus, PostWake(c)
    PROVE  WakeInv'
  <1>c. c \in Threads /\ c \notin Procs /\ Procs \subseteq Threads /\ Cpus \subseteq Threads
    BY Consts, Zenon
  <1>u. /\ UNCHANGED <<state, chan, parent, wslot, avail>>
        /\ pc[c] = "post_wake" /\ pc'[c] = "wk" /\ wchan'[c] = parent[slot[c]]
        /\ \A s \in Threads : s # c => /\ pc'[s] = pc[s] /\ slot'[s] = slot[s]
                                       /\ wchan'[s] = wchan[s]
    BY <1>c, SMTT(40) DEF PostWake, Step, At, Goto, procVars, fields, sigs, envVars, locks, IInv, Typed, TypeOK
  <1>p. pc[c] \notin WakePc /\ pc'[c] \in WakePc
    BY <1>u, SMTT(40) DEF WakePc
  <1>w. \A s \in Threads : \A ch, q : Waking(s, ch, q) => Waking(s, ch, q)'
    BY <1>c, <1>u, <1>p, WakersKept, Zenon
  <1>a. \A q \in Procs : (Asleep(q)' <=> Asleep(q)) /\ q # c
    BY <1>c, <1>u, Zenon DEF Asleep
  <1>2. WakeIdle' /\ wslot[c] = 1
    BY <1>c, <1>u, <1>p, Zenon DEF WakeInv, WakeIdle
  <1>3. Notified'
    BY <1>c, <1>u, <1>w, <1>a, ZenonT(60) DEF WakeInv, Notified
  <1>4. ASSUME NEW q \in Procs, NEW k \in Procs, Missing(q, k)' PROVE Announced(q, k)'
    <2>2. Missing(q, k)
      BY <1>4, <1>c, <1>u, <1>a, ZenonT(60) DEF Missing, Passed
    <2>3. Announced(q, k)
      BY <2>2, Zenon DEF WakeInv, ExitsSeen
    <2>4. CASE \E s \in Threads : Waking(s, q, q)
      BY <1>w, <2>4, Zenon DEF Announced
    <2>5. ASSUME NEW d \in Cpus, pc[d] = "post_wake", slot[d] = k
          PROVE  Announced(q, k)'
      <3>1. CASE d # c
        BY <1>c, <1>u, <2>5, <3>1, Zenon DEF Announced
      <3>2. CASE d = c
        <4>1. wchan'[c] = q
          BY <1>u, <2>2, <2>5, <3>2, Zenon DEF Missing
        <4>2. Waking(c, q, q)'
          BY <1>c, <1>u, <1>2, <4>1, WakeBegins, Zenon
        <4> QED BY <1>c, <4>2, Zenon DEF Announced
      <3> QED BY <3>1, <3>2, Zenon
    <2>6. CASE q = initproc /\ \E r \in Procs : pc[r] = "exit_check" /\ slot[r] = k
      BY <1>c, <1>u, <2>6, Zenon DEF Announced
    <2> QED BY <2>3, <2>4, <2>5, <2>6, ZenonT(60) DEF Announced
  <1> QED BY <1>2, <1>3, <1>4, ZenonT(60) DEF WakeInv, ExitsSeen

\* wakeup() makes the condition true and starts with the first slot.
LEMMA StartNews ==
    ASSUME IInv, WakeInv, NEW t \in Threads, NEW ch \in Chans, WakeStart(t, ch)
    PROVE  WakeInv'
  <1>c. Procs \subseteq Threads /\ Cpus \subseteq Threads
    BY Consts, Zenon
  <1>u. /\ UNCHANGED <<state, chan, parent, wslot, slot>>
        /\ pc[t] \in UserPc \cup {"sti"} /\ pc'[t] = "wk" /\ wchan'[t] = ch
        /\ \A h \in Chans : h # ch => avail'[h] = avail[h]
        /\ \A s \in Threads : s # t => pc'[s] = pc[s] /\ wchan'[s] = wchan[s]
    BY SMTT(40) DEF WakeStart, Goto, procVars, fields, sigs, IInv, Typed, TypeOK
  <1>p. /\ pc[t] \notin WakePc \cup InSleep \cup {"wait", "wait_scan", "post_wake", "exit_check"}
        /\ pc'[t] \in WakePc /\ pc'[t] \notin InSleep \cup {"wait", "wait_scan"}
    BY <1>u DEF WakePc, InSleep, UserPc
  <1>w. \A s \in Threads : \A h, q : Waking(s, h, q) => Waking(s, h, q)'
    BY <1>u, <1>p, WakersKept, Zenon
  <1>a. \A q \in Procs : Asleep(q)' <=> Asleep(q)
    BY <1>u, Zenon DEF Asleep
  <1>2. WakeIdle' /\ wslot[t] = 1
    BY <1>u, <1>p, Zenon DEF WakeInv, WakeIdle
  <1>3. Notified'
    <2> SUFFICES ASSUME NEW q \in Procs, NEW h \in Chans,
                        Asleep(q)', pc'[q] \in InSleep, chan'[q] = h, avail'[h]
                 PROVE  \E s \in Threads : Waking(s, h, q)'
      BY Zenon DEF Notified
    <2>1. CASE h = ch
      BY <1>u, <1>2, <2>1, WakeBegins, Zenon
    <2>2. CASE h # ch
      BY <1>c, <1>u, <1>p, <1>w, <1>a, <2>2, Zenon DEF WakeInv, Notified
    <2> QED BY <2>1, <2>2, Zenon
  <1>4. ASSUME NEW q \in Procs, NEW k \in Procs, Missing(q, k)' PROVE Announced(q, k)'
    <2>1. Missing(q, k)
      BY <1>4, <1>c, <1>u, <1>p, <1>a, Zenon DEF Missing, Passed
    <2>2. Announced(q, k)
      BY <2>1, Zenon DEF WakeInv, ExitsSeen
    <2>3. \A s \in Threads : pc[s] \in {"post_wake", "exit_check"} => pc'[s] = pc[s]
      BY <1>u, <1>p, Zenon
    <2> QED BY <1>c, <1>u, <1>w, <2>2, <2>3, Zenon DEF Announced
  <1> QED BY <1>2, <1>3, <1>4, Zenon DEF WakeInv, ExitsSeen

\* wakeup1() does not pass a process that sleeps on its channel.
LEMMA WakeFacts ==
    ASSUME IInv, NEW t \in Threads, WakeStep(t)
    PROVE  /\ UNCHANGED <<chan, parent, slot, avail>> /\ pc[t] \in WakePc
           /\ \A s \in Threads : s # t => /\ pc'[s] = pc[s] /\ wslot'[s] = wslot[s]
                                          /\ wchan'[s] = wchan[s]
           /\ \A q \in Procs : state'[q] = state[q] \/ state'[q] \in {"MINUS_RUNNABLE", "RUNNABLE"}
           /\ pc'[t] \notin InSleep \cup {"wait", "wait_scan"}
           /\ pc'[t] \notin WakePc => wslot'[t] = 1
           /\ \A p \in Procs : Waking(t, chan[p], p) /\ Asleep(p)' => Waking(t, chan[p], p)'
  <1> USE DEF WakePc, Waking, InSleep, Asleep, Cas, Step, At, Goto, procVars, fields, sigs, envVars, locks,
          locals, wake
  <1>t. /\ state \in [Procs -> ProcState] /\ pc \in [Threads -> ProcPc \cup CpuPc \cup {"off"}]
        /\ wslot \in [Threads -> 1 .. NPROC + 1]
        /\ wchan \in [Threads -> {0} \cup Procs \cup Chans]
        /\ cont[t] \in {"user", "trapret", "fork", "closing", "exit", "sti", "scan"}
    BY Consts, Zenon DEF IInv, Typed, TypeOK, ContOK
  <1>a. /\ \A p \in Procs : p \in Nat /\ ~(NPROC + 1 < p) /\ NPROC + 1 # p
        /\ \A i \in 1 .. NPROC + 1 : i \in Nat
    BY NPROCAssumption, SMTT(40) DEF Procs
  <1>s. \A p \in Procs : \A i \in Nat : i < p => i + 1 < p \/ i + 1 = p
    BY <1>a, SMTT(40)
  <1>w. wslot[t] \in Nat
    BY <1>t, <1>a, ZenonT(60)
  <1>1. CASE WakeState(t)
    BY <1>t, <1>a, <1>s, <1>w, <1>1, SMTT(40) DEF WakeState
  <1>2. CASE WakeChan(t)
    BY <1>t, <1>a, <1>s, <1>w, <1>2, SMTT(40) DEF WakeChan
  <1>3. CASE WakeCas(t)
    BY <1>t, <1>a, <1>s, <1>w, <1>3, SMTT(40) DEF WakeCas
  <1>4. CASE WakeBreak(t)
    BY <1>t, <1>a, <1>s, <1>w, <1>4, SMTT(40) DEF WakeBreak
  <1>5. CASE WakeRunnable(t)
    BY <1>t, <1>a, <1>s, <1>w, <1>5, SMTT(40) DEF WakeRunnable
  <1>6. CASE WakeReturn(t)
    BY <1>t, <1>a, <1>s, <1>w, <1>6, SMTT(40) DEF WakeReturn
  <1> QED BY <1>1, <1>2, <1>3, <1>4, <1>5, <1>6, ZenonT(60) DEF WakeStep

LEMMA WakeNews ==
    ASSUME IInv, WakeInv, NEW t \in Threads, WakeStep(t)
    PROVE  WakeInv'
  <1>c. Procs \subseteq Threads /\ Cpus \subseteq Threads
    BY Consts, Zenon
  <1>u. /\ UNCHANGED <<chan, parent, slot, avail>> /\ pc[t] \in WakePc
        /\ \A s \in Threads : s # t => /\ pc'[s] = pc[s] /\ wslot'[s] = wslot[s]
                                       /\ wchan'[s] = wchan[s]
        /\ pc'[t] \notin InSleep \cup {"wait", "wait_scan"}
        /\ pc'[t] \notin WakePc => wslot'[t] = 1
    BY WakeFacts, Zenon
  <1>a. \A q \in Procs : /\ Asleep(q)' => Asleep(q)
                         /\ state'[q] = "ZOMBIE" => state[q] = "ZOMBIE"
    <2>1. \A q \in Procs : state'[q] = state[q] \/ state'[q] \in {"MINUS_RUNNABLE", "RUNNABLE"}
      BY WakeFacts, Zenon
    <2> QED BY <2>1, SMTT(40) DEF Asleep
  <1>w. \A q \in Procs : \A s \in Threads : Waking(s, chan[q], q) /\ Asleep(q)' => Waking(s, chan[q], q)'
    <2> SUFFICES ASSUME NEW q \in Procs, NEW s \in Threads, Waking(s, chan[q], q), Asleep(q)'
                 PROVE  Waking(s, chan[q], q)'
      BY Zenon
    <2>1. CASE s = t
      BY <2>1, WakeFacts, Zenon
    <2>2. CASE s # t
      BY <1>u, <2>2, Zenon DEF Waking
    <2> QED BY <2>1, <2>2, Zenon
  <1>2. WakeIdle'
    BY <1>u, Zenon DEF WakeInv, WakeIdle
  <1>3. Notified'
    <2> SUFFICES ASSUME NEW q \in Procs, NEW h \in Chans,
                        Asleep(q)', pc'[q] \in InSleep, chan'[q] = h, avail'[h]
                 PROVE  \E s \in Threads : Waking(s, h, q)'
      BY Zenon DEF Notified
    <2>1. Asleep(q) /\ pc[q] \in InSleep /\ chan[q] = h /\ avail[h]
      BY <1>c, <1>u, <1>a, Zenon
    <2>2. PICK s \in Threads : Waking(s, h, q)
      BY <2>1, Zenon DEF WakeInv, Notified
    <2>3. Waking(s, chan[q], q)'
      BY <1>w, <2>1, <2>2, Zenon
    <2> QED BY <1>u, <2>1, <2>3, Zenon DEF Waking
  <1>4. ASSUME NEW q \in Procs, NEW k \in Procs, Missing(q, k)' PROVE Announced(q, k)'
    <2>1. Missing(q, k)
      BY <1>4, <1>c, <1>u, <1>a, Zenon DEF Missing, Passed
    <2>2. Announced(q, k)
      BY <2>1, Zenon DEF WakeInv, ExitsSeen
    <2>3. \A s \in Threads : pc[s] \in {"post_wake", "exit_check"} => pc'[s] = pc[s]
      <3>1. pc[t] \notin {"post_wake", "exit_check"}
        BY <1>u DEF WakePc
      <3> QED BY <1>u, <3>1, ZenonT(60)
    <2>4. \A s \in Threads : Waking(s, q, q) => Waking(s, q, q)'
      <3>1. chan[q] = q /\ Asleep(q)' /\ chan'[q] = q
        BY <1>4, <2>1, Zenon DEF Missing
      <3>2. \A s \in Threads : Waking(s, q, q) => Waking(s, chan[q], q)
        BY <3>1, Zenon
      <3>3. \A s \in Threads : Waking(s, chan[q], q)' => Waking(s, q, q)'
        BY <3>1, Zenon DEF Waking
      <3> QED BY <1>w, <3>1, <3>2, <3>3, ZenonT(60)
    <2> QED BY <1>c, <1>u, <2>2, <2>3, <2>4, Zenon DEF Announced
  <1> QED BY <1>2, <1>3, <1>4, Zenon DEF WakeInv, ExitsSeen

LEMMA WakeInvInductive == IInv /\ WakeInv /\ [Next]_vars => WakeInv'
  <1> SUFFICES ASSUME IInv, WakeInv, [Next]_vars PROVE WakeInv'
    BY Zenon
  <1>c. Procs \subseteq Threads /\ Cpus \subseteq Threads
    BY Consts, Zenon
  <1>1. ASSUME NEW p \in Procs, ProcQuietStep(p) \/ FamilyStep(p) PROVE WakeInv'
    BY <1>c, <1>1, NoNewsStep, ProcNoNews, SwtchSteps, ReparentNews, CheckNews, ZenonT(60)
  <1>2. ASSUME NEW p \in Procs, KernelStep(p) \/ CallStep(p) \/ YieldStep(p) PROVE WakeInv'
    <2>1. ProcQuietStep(p) \/ FamilyStep(p)
      BY <1>2, ZenonT(40) DEF KernelStep, CallStep, ProcQuietStep, FamilyStep
    <2> QED BY <1>1, <2>1, Zenon
  <1>3. ASSUME NEW c \in Cpus, SchedStep(c) PROVE WakeInv'
    BY <1>c, <1>3, NoNewsStep, SchedNoNews, ZombieNews, ParentNews, Zenon
  <1>4. CASE UNCHANGED vars
    <2>1. UNCHANGED <<state, chan, parent, pc, slot, wslot, wchan, avail>>
      BY <1>4, Zenon DEF vars, procVars, fields, threadVars, locals, wake, envVars, locks
    <2>2. \A s \in Threads : \A ch, q : Waking(s, ch, q)' <=> Waking(s, ch, q)
      BY <2>1, Zenon DEF Waking
    <2>3. \A q \in Procs : Asleep(q)' <=> Asleep(q)
      BY <2>1, Zenon DEF Asleep
    <2>4. \A q, k \in Procs : (Missing(q, k)' <=> Missing(q, k)) /\ (Announced(q, k) => Announced(q, k)')
      BY <2>1, <2>2, <2>3, ZenonT(60) DEF Missing, Passed, Announced
    <2>5. WakeIdle' /\ ExitsSeen'
      BY <2>1, <2>4, Zenon DEF WakeInv, WakeIdle, ExitsSeen
    <2>6. Notified'
      BY <2>1, <2>2, <2>3, Zenon DEF WakeInv, Notified
    <2> QED BY <2>5, <2>6, Zenon DEF WakeInv
  <1> QED BY <1>2, <1>3, <1>4, WakeNews, StartNews, ZenonT(60) DEF Next

LEMMA WakeInvInit == Init => WakeInv
  <1> SUFFICES ASSUME Init PROVE WakeInv
    BY Zenon
  <1>1. WakeIdle
    BY DEF Init, WakeIdle
  <1>2. \A p \in Procs : ~Asleep(p)
    BY SMTT(40) DEF Init, Asleep
  <1> QED BY <1>1, <1>2, Zenon DEF WakeInv, Notified, ExitsSeen, Missing

\* sleep() loses no wakeup, for every number of CPUs, processes and channels:
\* when a process sleeps on a channel whose condition holds, a wakeup() that
\* has yet to reach it is under way.
THEOREM WakeupsArrive == Spec => []NoLostWakeup
  <1>1. WakeInv => NoLostWakeup
    <2>1. "SLEEPING" \in {"SLEEPING", "MINUS_SLEEPING"} /\ "slp_acquire" \in InSleep
      BY SMTT(40) DEF InSleep
    <2> QED BY <2>1, Zenon DEF WakeInv, Notified, NoLostWakeup, Asleep
  <1> QED BY <1>1, WakeInvInit, WakeInvInductive, Invariance, PTL DEF Spec

\* No exit is missed: when a process sleeps in wait() and has a zombie child,
\* the child's scheduler, or the exit() that passed the child to initproc, is
\* about to wake it.
THEOREM ExitsArrive == Spec => []NoLostExit
  <1>1. WakeInv => NoLostExit
    <2>1. "SLEEPING" \in {"SLEEPING", "MINUS_SLEEPING"}
      OBVIOUS
    <2> QED BY <2>1, Zenon DEF WakeInv, ExitsSeen, NoLostExit, Missing, Passed, Announced, Asleep
  <1> QED BY <1>1, WakeInvInit, WakeInvInductive, Invariance, PTL DEF Spec
=============================================================================
