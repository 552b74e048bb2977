--------------------------- MODULE SpinlockProofs ---------------------------
(***************************************************************************)
(* Spin locks exclude, their holders are not interrupted, and pushcli() is *)
(* matched by popcli(), for every set of CPUs, of processes and of locks.  *)
(* The inductive invariant says that ncli is the number of locks the CPU's *)
(* thread holds, with a correction for the places inside acquire(),        *)
(* release(), sleep() and scheduler().  The steps of the scheduler and     *)
(* most of the threads' come first, those that take and give up a lock     *)
(* after them.                                                             *)
(***************************************************************************)
EXTENDS Spinlock, FiniteSetTheorems, TLAPS


\* The calls of pushcli() without popcli() of a thread at p that returns to a,
\* beyond those for the locks it holds.
Extra(p, a) ==
    (IF p \in {"spin", "pop", "sched", "resume", "loop"} THEN 1 ELSE 0)
      + (IF \/ a = "sleep_pop" /\ p \in {"eflags", "cli", "spin", "setcpu"}
            \/ a = "sched" /\ p \in {"clearcpu", "store", "pop"}
         THEN 1 ELSE 0)

\* CPU c and the thread it executes: ncli counts, interrupts are off while it
\* is not 0, and popcli() in an interrupt handler will not enable them.
CpuInv(c) ==
    LET t == cur[c] IN
    /\ ncli[c] = Cardinality(held[t]) + Extra(pc[t], after[t])
    /\ flagIF[c] => ncli[c] = 0
    /\ irq[t] => ~flagIF[c]
    /\ irq[t] /\ ncli[c] > 0 /\ pc[t] # "resume" => ~intena[c]
    /\ t # c => pc[c] = "loop"
    /\ pc[t] # "new"

\* The locks of thread t can be counted.
CountOK(t) ==
    /\ IsFiniteSet(held[t]) /\ Cardinality(held[t]) \in Nat
    /\ Cardinality(held[t]) = 0 <=> held[t] = {}

\* The locals of thread t, where they are used.
ArgOK(t) ==
    /\ pc[t] \in {"eflags", "cli", "spin"} => arg[t] \in Locks \ held[t]
    /\ pc[t] \in {"setcpu", "clearcpu", "store"} => arg[t] \in held[t]
    /\ pc[t] \in {"new", "sched", "resume", "sti", "push", "loop"} => held[t] = {}
    /\ irq[t] /\ pc[t] = "cli" => ~eflags[t]
    /\ irq[t] /\ pc[t] = "resume" => ~saved[t]

\* Who is where, and returns where.
PlaceOK(t) ==
    /\ pc[t] \in {"sti", "push", "loop"} => t \in Cpus /\ ~irq[t]
    /\ pc[t] \in {"new", "sched", "resume"} => t \in Procs
    /\ pc[t] \in {"eflags", "cli", "spin", "setcpu"} => after[t] \in {"run", "sleep_pop"}
    /\ pc[t] \in {"clearcpu", "store"} => after[t] \in {"run", "sched"}
    /\ pc[t] = "pop" => after[t] \in {"run", "sched", "sti"}
    /\ pc[t] = "new" => after[t] = "run" /\ ~irq[t]
    /\ pc[t] \in {"clearcpu", "store"} /\ after[t] = "sched"
           => t \in Procs /\ held[t] = {arg[t]}
    /\ pc[t] = "pop" /\ after[t] = "sched" => t \in Procs /\ held[t] = {}
    /\ pc[t] = "pop" /\ after[t] = "sti" => t \in Cpus /\ ~irq[t] /\ held[t] = {}

\* What an interrupt handler returns to.
FrameOK(t) ==
    /\ ret[t].pc \in Interruptible
    /\ ret[t].pc = "cli" => ret[t].arg \in Locks /\ ret[t].after = "run"
    /\ ret[t].pc \in {"sti", "push"} => t \in Cpus

ThreadInv(t) == CountOK(t) /\ ArgOK(t) /\ PlaceOK(t) /\ FrameOK(t)

\* A CPU executes a thread no other executes; a process elsewhere is new or in
\* sched().
Scheduled ==
    /\ \A c, d \in Cpus : c # d => cur[c] # cur[d]
    /\ \A p \in Procs : pc[p] \notin {"new", "resume"} => \E c \in Cpus : cur[c] = p

\* lk->cpu is the CPU of the lock's holder, except between xchg and the store
\* of cpu, and between the stores of release().
OwnerCpu ==
    /\ \A c \in Cpus, l \in Locks : lcpu[l] = c => l \in held[cur[c]]
    /\ \A c \in Cpus : \A l \in held[cur[c]] :
           lcpu[l] = c \/ (pc[cur[c]] \in {"setcpu", "store"} /\ arg[cur[c]] = l)
    /\ \A t \in Threads : pc[t] = "store" => lcpu[arg[t]] = NoCpu

IInv ==
    /\ TypeOK /\ ~panicked
    /\ \A c \in Cpus : CpuInv(c)
    /\ \A t \in Threads : ThreadInv(t)
    /\ Scheduled /\ MutualExclusion /\ OwnerCpu

-----------------------------------------------------------------------------
\* What a step of thread t on CPU c leaves alone.
Local(c, t) ==
    /\ \A d \in Cpus \ {c} : /\ ncli'[d] = ncli[d] /\ intena'[d] = intena[d]
                             /\ flagIF'[d] = flagIF[d]
    /\ \A u \in Threads \ {t} :
           /\ pc'[u] = pc[u] /\ after'[u] = after[u] /\ arg'[u] = arg[u]
           /\ eflags'[u] = eflags[u] /\ saved'[u] = saved[u] /\ irq'[u] = irq[u]
           /\ ret'[u] = ret[u] /\ held'[u] = held[u]

\* A CPU is no process, and numbers of locks are not 0.
LEMMA Names == /\ \A c \in Cpus : c \in Threads /\ c \notin Procs
               /\ \A p \in Procs : p \in Threads
               /\ NoCpu \notin Cpus /\ 0 \notin Locks
  BY LocksAssumption, NamesAssumption, Zenon DEF Threads

\* A step of one thread on one CPU preserves what is known of the others.
LEMMA Elsewhere ==
    ASSUME IInv, NEW c \in Cpus, NEW t \in Threads, cur[c] = t, Local(c, t),
           cur' = cur, CpuInv(c)', ThreadInv(t)'
    PROVE  (\A d \in Cpus : CpuInv(d)') /\ (\A u \in Threads : ThreadInv(u)') /\ Scheduled'
  <1>1. ASSUME NEW d \in Cpus, d # c PROVE CpuInv(d)'
    <2> DEFINE u == cur[d]
    <2>1. u \in Threads /\ u # t /\ d \in Threads /\ cur' = cur
      BY <1>1, Names, Zenon DEF IInv, Scheduled, TypeOK
    <2>2. CpuInv(d)
      BY Zenon DEF IInv
    <2>3. d # t \/ u = d
      BY <1>1, Names, Zenon DEF IInv, TypeOK
    <2>4. /\ ncli'[d] = ncli[d] /\ intena'[d] = intena[d] /\ flagIF'[d] = flagIF[d]
          /\ pc'[u] = pc[u] /\ after'[u] = after[u] /\ irq'[u] = irq[u]
          /\ held'[u] = held[u]
          /\ cur'[d] = u
      BY <1>1, <2>1, Zenon DEF Local
    <2>5. u # d => pc'[d] = pc[d]
      BY <2>1, <2>3, ZenonT(60) DEF Local
    <2> QED BY <2>2, <2>4, <2>5, Zenon DEF CpuInv
  <1>2. ASSUME NEW u \in Threads, u # t PROVE ThreadInv(u)'
    <2>1. ThreadInv(u)
      BY Zenon DEF IInv
    <2>2. /\ pc'[u] = pc[u] /\ after'[u] = after[u] /\ arg'[u] = arg[u]
          /\ eflags'[u] = eflags[u] /\ saved'[u] = saved[u] /\ irq'[u] = irq[u]
          /\ ret'[u] = ret[u] /\ held'[u] = held[u]
      BY <1>2, Zenon DEF Local
    <2> QED BY <2>1, <2>2 DEF ThreadInv, CountOK, ArgOK, PlaceOK, FrameOK
  <1>3. Scheduled'
    <2>1. ASSUME NEW p \in Procs, pc'[p] \notin {"new", "resume"}
          PROVE  \E d \in Cpus : cur'[d] = p
      <3>1. CASE p = t
        BY <3>1, Zenon
      <3>2. CASE p # t
        BY <2>1, <3>2, Names, SMTT(40) DEF IInv, Scheduled, Local
      <3> QED BY <3>1, <3>2, Zenon
    <2> QED BY <2>1, Zenon DEF IInv, Scheduled
  <1> QED BY <1>1, <1>2, <1>3, Zenon

\* A step that leaves the locks alone, between places where lk->cpu is set.
LEMMA LocksAlone ==
    ASSUME IInv, NEW c \in Cpus, NEW t \in Threads, cur[c] = t, Local(c, t),
           cur' = cur, UNCHANGED lockVars, pc[t] \notin {"setcpu", "store"},
           pc'[t] \notin {"setcpu", "store"}
    PROVE  MutualExclusion' /\ OwnerCpu'
  <1>1. MutualExclusion'
    BY Zenon DEF IInv, MutualExclusion, lockVars
  <1>2. ASSUME NEW d \in Cpus, NEW l \in held'[cur'[d]]
        PROVE  lcpu'[l] = d \/ (pc'[cur'[d]] \in {"setcpu", "store"} /\ arg'[cur'[d]] = l)
    <2>1. cur[d] \in Threads /\ (d # c => cur[d] # t)
      BY Names, ZenonT(60) DEF IInv, Scheduled, TypeOK
    <2> QED BY <1>2, <2>1, SMTT(40) DEF IInv, OwnerCpu, lockVars, Local
  <1>3. ASSUME NEW u \in Threads, pc'[u] = "store" PROVE lcpu'[arg'[u]] = NoCpu
    BY <1>3, SMTT(40) DEF IInv, OwnerCpu, lockVars, Local
  <1>4. \A d \in Cpus, l \in Locks : lcpu'[l] = d => l \in held'[cur'[d]]
    BY Zenon DEF IInv, OwnerCpu, lockVars
  <1> QED BY <1>1, <1>2, <1>3, <1>4, Zenon DEF OwnerCpu

\* The invariant, of the thread that takes the step and its CPU.
Facts(c, t) ==
    /\ Cardinality(held[t]) \in Nat /\ (Cardinality(held[t]) = 0 <=> held[t] = {})
    /\ ncli[c] = Cardinality(held[t]) + Extra(pc[t], after[t])
    /\ Extra(pc[t], after[t]) \in Nat
    /\ flagIF[c] => ncli[c] = 0
    /\ irq[t] => ~flagIF[c]
    /\ irq[t] /\ ncli[c] > 0 /\ pc[t] # "resume" => ~intena[c]
    /\ t # c => pc[c] = "loop"
    /\ pc[t] # "new"
    /\ t \in Cpus => t = c
    /\ t \in Threads /\ c \in Threads /\ c \notin Procs

\* The correction to the count is never negative.
LEMMA ExtraNat == \A p, a : Extra(p, a) \in Nat
  BY DEF Extra

\* Its value where the caller of a function needs it.
LEMMA ExtraAt ==
    \A a : /\ Extra("run", a) = 0 /\ Extra("sched", a) = 1 /\ Extra("resume", a) = 1
          /\ Extra("loop", a) = 1 /\ Extra("cli", "sleep_pop") = 1
  BY SMTT(40) DEF Extra

LEMMA ExtraIdle ==
    ASSUME NEW p \in Interruptible, NEW a, p = "cli" => a = "run"
    PROVE  Extra(p, a) = 0
  BY DEF Extra, Interruptible

\* The count of the thread a CPU executes, from its value.
LEMMA FactsOne ==
    ASSUME NEW c, NEW t, Facts(c, t), Extra(pc[t], after[t]) = 1, held[t] = {}
    PROVE  ncli[c] = 1 /\ ~flagIF[c] /\ Cardinality(held[t]) = 0
  BY SMTT(40) DEF Facts

LEMMA FactsNone ==
    ASSUME NEW c, NEW t, Facts(c, t), Extra(pc[t], after[t]) = 0
    PROVE  ncli[c] = Cardinality(held[t]) /\ ncli[c] \in Nat
  BY DEF Facts

\* A sum with a positive part is positive.
LEMMA Positive ==
    ASSUME NEW m \in Nat \ {0}, NEW k \in Nat, NEW n, n = m + k
    PROVE  n > 0 /\ n # 0
  OBVIOUS

\* What the invariant says of the thread that takes the step and of its CPU.
LEMMA Here ==
    ASSUME IInv, NEW c \in Cpus, NEW t \in Threads, cur[c] = t
    PROVE  Facts(c, t) /\ ThreadInv(t) /\ TypeOK /\ ~panicked /\ c \in Threads
  <1>1. ThreadInv(t) /\ CpuInv(c) /\ TypeOK /\ ~panicked
    BY Zenon DEF IInv
  <1>2. Cardinality(held[t]) \in Nat /\ (Cardinality(held[t]) = 0 <=> held[t] = {})
    BY <1>1, Zenon DEF ThreadInv, CountOK
  <1>3. (t \in Cpus => t = c) /\ c \in Threads /\ c \notin Procs
    BY <1>1, Names, Zenon DEF TypeOK
  <1> QED BY <1>1, <1>2, <1>3, ExtraNat, Zenon DEF CpuInv, Facts

\* A step of thread t on CPU c, between places where lk->cpu is set and
\* without a change of the locks.
LEMMA OrdinaryStep ==
    ASSUME IInv, NEW c \in Cpus, NEW t \in Threads, cur[c] = t,
           TypeOK', ~panicked', cur' = cur, UNCHANGED lockVars, Local(c, t),
           CpuInv(c)', ArgOK(t)', PlaceOK(t)', FrameOK(t)',
           pc[t] \notin {"setcpu", "store"}, pc'[t] \notin {"setcpu", "store"}
    PROVE  IInv'
  <1>1. CountOK(t)'
    BY Zenon DEF lockVars, IInv, ThreadInv, CountOK
  <1> QED BY <1>1, Elsewhere, LocksAlone, Zenon DEF IInv, ThreadInv

\* What a thread that has a lock, or waits for one, knows of the others.
LEMMA Owners ==
    ASSUME IInv, NEW c \in Cpus, NEW t \in Threads, cur[c] = t
    PROVE  /\ \A d \in Cpus : cur[d] \in Threads /\ (d # c => cur[d] # t)
           /\ \A u \in Threads : pc[u] = "store" => arg[u] \in held[u]
           /\ \A u \in Threads \ {t} : held[u] \cap held[t] = {}
           /\ \A u \in Threads : \A l \in held[u] : locked[l]
  <1>1. \A u \in Threads : held[u] \in SUBSET Locks /\ ThreadInv(u)
    BY Zenon DEF IInv, TypeOK
  <1>2. \A d \in Cpus : cur[d] \in Threads /\ (d # c => cur[d] # t)
    BY Zenon DEF IInv, TypeOK, Scheduled
  <1>3. \A u \in Threads : pc[u] = "store" => arg[u] \in held[u]
    BY <1>1, Zenon DEF ThreadInv, ArgOK
  <1> QED BY <1>1, <1>2, <1>3, Zenon DEF IInv, MutualExclusion

\* A step that changes at most lock a, and the place where lk->cpu is set.
LockLocal(c, t, a) ==
    /\ Local(c, t) /\ cur' = cur /\ TypeOK'
    /\ \A u \in Threads \ {t} : a \notin held[u]
    /\ \A l \in Locks \ {a} : /\ lcpu'[l] = lcpu[l] /\ (locked'[l] <=> locked[l])
                              /\ l \in held'[t] <=> l \in held[t]
    /\ locked'[a] <=> a \in held'[t]
    /\ \A d \in Cpus : lcpu'[a] = d => d = c /\ a \in held'[t]
    /\ a \in held'[t] => lcpu'[a] = c \/ (pc'[t] \in {"setcpu", "store"} /\ arg'[t] = a)
    /\ pc'[t] = "store" => arg'[t] = a /\ lcpu'[a] = NoCpu
    /\ pc[t] \in {"setcpu", "store"} => arg[t] = a

\* A step that changes one lock keeps every lock exclusive and its owner known.
LEMMA LockStep ==
    ASSUME IInv, NEW c \in Cpus, NEW t \in Threads, cur[c] = t,
           NEW a \in Locks, LockLocal(c, t, a)
    PROVE  MutualExclusion' /\ OwnerCpu'
  <1>1. /\ \A d \in Cpus : cur[d] \in Threads /\ (d # c => cur[d] # t)
        /\ \A u \in Threads : pc[u] = "store" => arg[u] \in held[u]
    BY Owners, Zenon
  <1>2. /\ \A u \in Threads : held[u] \subseteq Locks /\ held'[u] \subseteq Locks
        /\ \A u \in Threads \ {t} : held'[u] = held[u] /\ pc'[u] = pc[u] /\ arg'[u] = arg[u]
    BY SMTT(40) DEF IInv, TypeOK, LockLocal, Local
  <1>3. \A u \in Threads : \A l \in Locks \ {a} : l \in held'[u] <=> l \in held[u]
    BY <1>2, SMTT(40) DEF LockLocal
  <1>4. \A u \in Threads \ {t} : a \notin held'[u]
    BY <1>2, ZenonT(60) DEF LockLocal
  <1>5. \A u, v \in Threads : u # v => held'[u] \cap held'[v] = {}
    BY <1>2, <1>3, <1>4, SMTT(40) DEF IInv, MutualExclusion
  <1>6. ASSUME NEW l \in Locks PROVE locked'[l] <=> \E u \in Threads : l \in held'[u]
    <2>1. CASE l = a
      BY <1>4, <2>1, Zenon DEF LockLocal
    <2>2. CASE l # a
      <3>1. locked'[l] <=> locked[l]
        BY <2>2, Zenon DEF LockLocal
      <3> QED BY <1>3, <2>2, <3>1, Zenon DEF IInv, MutualExclusion
    <2> QED BY <2>1, <2>2, Zenon
  <1>7. ASSUME NEW d \in Cpus, NEW l \in Locks, lcpu'[l] = d PROVE l \in held'[cur'[d]]
    <2>1. CASE l = a
      BY <1>7, <2>1, Zenon DEF LockLocal
    <2>2. CASE l # a
      BY <1>1, <1>3, <1>7, <2>2, SMTT(40) DEF LockLocal, IInv, OwnerCpu
    <2> QED BY <2>1, <2>2, Zenon
  <1>8. ASSUME NEW d \in Cpus, NEW l \in held'[cur'[d]]
        PROVE  lcpu'[l] = d \/ (pc'[cur'[d]] \in {"setcpu", "store"} /\ arg'[cur'[d]] = l)
    <2>1. cur'[d] = cur[d] /\ cur[d] \in Threads /\ l \in Locks
      BY <1>1, <1>2, <1>8, ZenonT(60) DEF LockLocal
    <2>2. CASE l = a
      BY <1>1, <1>4, <1>8, <2>1, <2>2, ZenonT(60) DEF LockLocal
    <2>3. CASE l # a
      <3>1. l \in held[cur[d]] /\ lcpu'[l] = lcpu[l]
        BY <1>3, <1>8, <2>1, <2>3, ZenonT(60) DEF LockLocal
      <3>2. CASE cur[d] = t
        BY <2>1, <2>3, <3>1, <3>2, SMTT(40) DEF LockLocal, IInv, OwnerCpu
      <3>3. CASE cur[d] # t
        BY <1>2, <2>1, <3>1, <3>3, SMTT(40) DEF IInv, OwnerCpu
      <3> QED BY <3>2, <3>3, Zenon
    <2> QED BY <2>2, <2>3, ZenonT(60)
  <1>9. ASSUME NEW u \in Threads, pc'[u] = "store" PROVE lcpu'[arg'[u]] = NoCpu
    <2>1. CASE u = t
      BY <1>9, <2>1, ZenonT(60) DEF LockLocal
    <2>2. CASE u # t
      <3>1. pc[u] = "store" /\ arg'[u] = arg[u] /\ arg[u] \in held[u] /\ arg[u] \in Locks \ {a}
        BY <1>1, <1>2, <1>9, <2>2, SMTT(40) DEF LockLocal
      <3> QED BY <3>1, SMTT(40) DEF LockLocal, IInv, OwnerCpu
    <2> QED BY <2>1, <2>2, Zenon
  <1> QED BY <1>5, <1>6, <1>7, <1>8, <1>9, ZenonT(60) DEF MutualExclusion, OwnerCpu

-----------------------------------------------------------------------------
(***************************************************************************)
(* The loop of scheduler(), and sched(), preserve the invariant: one lemma *)
(* per action.                                                             *)
(***************************************************************************)
LEMMA SchedulerStiStep ==
    ASSUME IInv, NEW c \in Cpus, SchedulerSti(c)
    PROVE  IInv'
  <1>1. cur[c] = c /\ Facts(c, c) /\ ThreadInv(c) /\ TypeOK /\ ~panicked /\ c \in Threads
    BY Here, Names, ZenonT(60) DEF SchedulerSti, At, On
  <1>2. /\ pc[c] = "sti" /\ held[c] = {} /\ Cardinality(held[c]) = 0
        /\ ~irq[c] /\ ncli[c] = 0
    <2>1. pc[c] = "sti" /\ held[c] = {} /\ ~irq[c]
      BY <1>1, Zenon DEF SchedulerSti, At, On, ThreadInv, ArgOK, PlaceOK
    <2>2. Extra("sti", after[c]) = 0
      BY DEF Extra
    <2> QED BY <1>1, <2>1, <2>2, SMTT(40) DEF Facts
  <1>3. /\ pc'[c] = "push" /\ after'[c] = after[c] /\ ncli'[c] = 0
        /\ held'[c] = held[c] /\ irq'[c] = irq[c] /\ ret'[c] = ret[c] /\ cur'[c] = c
    BY <1>1, <1>2, Zenon DEF SchedulerSti, At, On, Goto, lockVars, cliVars, irqVars, TypeOK
  <1>4. CpuInv(c)'
    BY <1>2, <1>3, SMTT(40) DEF CpuInv, Extra
  <1>5. ArgOK(c)' /\ PlaceOK(c)' /\ FrameOK(c)'
    BY <1>1, <1>2, <1>3, ZenonT(60) DEF ThreadInv, ArgOK, PlaceOK, FrameOK
  <1>6. TypeOK'
    BY <1>1, <1>2, SMTT(40) DEF SchedulerSti, At, On, Goto, lockVars, cliVars, irqVars, TypeOK, Pcs
  <1>7. Local(c, c) /\ cur' = cur /\ ~panicked' /\ UNCHANGED lockVars
    BY <1>1, <1>2, Zenon DEF SchedulerSti, At, On, Goto, lockVars, cliVars, irqVars,
       TypeOK, Local
  <1>8. pc[c] \notin {"setcpu", "store"} /\ pc'[c] \notin {"setcpu", "store"}
    BY <1>2, <1>3, ZenonT(60)
  <1> QED BY <1>1, <1>4, <1>5, <1>6, <1>7, <1>8, OrdinaryStep, ZenonT(60)

\* scheduler() calls pushcli() with ncli at 0.
LEMMA SchedulerPushStep ==
    ASSUME IInv, NEW c \in Cpus, SchedulerPush(c)
    PROVE  IInv'
  <1>1. cur[c] = c /\ Facts(c, c) /\ ThreadInv(c) /\ TypeOK /\ ~panicked /\ c \in Threads
    BY Here, Names, Zenon DEF SchedulerPush, At, On
  <1>2. /\ pc[c] = "push" /\ held[c] = {} /\ Cardinality(held[c]) = 0
        /\ ~irq[c] /\ ncli[c] = 0
    <2>1. pc[c] = "push" /\ held[c] = {} /\ ~irq[c]
      BY <1>1, ZenonT(60) DEF SchedulerPush, At, On, ThreadInv, ArgOK, PlaceOK
    <2>2. Extra("push", after[c]) = 0
      BY SMTT(40) DEF Extra
    <2> QED BY <1>1, <2>1, <2>2, SMTT(40) DEF Facts
  <1>3. /\ pc'[c] = "loop" /\ after'[c] = after[c] /\ ncli'[c] = 1 /\ ~flagIF'[c]
        /\ held'[c] = held[c] /\ irq'[c] = irq[c] /\ ret'[c] = ret[c] /\ cur'[c] = c
    BY <1>1, <1>2, SMTT(40) DEF SchedulerPush, PushcliOff, At, On, Goto, lockVars, cliVars,
       irqVars, TypeOK
  <1>4. CpuInv(c)'
    BY <1>2, <1>3, SMTT(40) DEF CpuInv, Extra
  <1>5. ArgOK(c)' /\ PlaceOK(c)' /\ FrameOK(c)'
    BY <1>1, <1>2, <1>3, Zenon DEF ThreadInv, ArgOK, PlaceOK, FrameOK
  <1>6. TypeOK'
    <2>1. /\ ncli' \in [Cpus -> Nat] /\ intena' \in [Cpus -> BOOLEAN]
          /\ flagIF' \in [Cpus -> BOOLEAN]
      BY <1>1, SMTT(40) DEF SchedulerPush, PushcliOff, TypeOK
    <2>2. pc' \in [Threads -> Pcs]
      BY <1>1, ZenonT(60) DEF SchedulerPush, Goto, TypeOK, Pcs
    <2> QED BY <1>1, <2>1, <2>2, ZenonT(60) DEF SchedulerPush, lockVars, irqVars, TypeOK
  <1>7. Local(c, c) /\ cur' = cur /\ ~panicked' /\ UNCHANGED lockVars
    BY <1>1, <1>2, SMTT(40) DEF SchedulerPush, PushcliOff, At, On, Goto, lockVars, cliVars,
       irqVars, TypeOK, Local
  <1>8. pc[c] \notin {"setcpu", "store"} /\ pc'[c] \notin {"setcpu", "store"}
    BY <1>2, <1>3, ZenonT(60)
  <1> QED BY <1>1, <1>4, <1>5, <1>6, <1>7, <1>8, OrdinaryStep, Zenon

\* The loop of scheduler() ends, and goes to its popcli().
LEMMA SchedulerEndStep ==
    ASSUME IInv, NEW c \in Cpus, SchedulerEnd(c)
    PROVE  IInv'
  <1>1. cur[c] = c /\ Facts(c, c) /\ ThreadInv(c) /\ TypeOK /\ ~panicked /\ c \in Threads
    BY Here, Names, ZenonT(60) DEF SchedulerEnd, At, On
  <1>2. /\ pc[c] = "loop" /\ held[c] = {} /\ Cardinality(held[c]) = 0
        /\ ~irq[c] /\ ncli[c] = 1 /\ ~flagIF[c]
    <2>1. pc[c] = "loop" /\ held[c] = {} /\ ~irq[c]
      BY <1>1, Zenon DEF SchedulerEnd, At, On, ThreadInv, ArgOK, PlaceOK
    <2>2. Extra("loop", after[c]) = 1
      BY SMTT(40) DEF Extra
    <2> QED BY <1>1, <2>1, <2>2, SMTT(40) DEF Facts
  <1>3. /\ pc'[c] = "pop" /\ after'[c] = "sti" /\ ncli'[c] = 1 /\ ~flagIF'[c]
        /\ held'[c] = held[c] /\ irq'[c] = irq[c] /\ ret'[c] = ret[c] /\ cur'[c] = c
    BY <1>1, <1>2, ZenonT(60) DEF SchedulerEnd, At, On, Goto, lockVars, cliVars, irqVars, TypeOK
  <1>4. CpuInv(c)'
    BY <1>2, <1>3, SMTT(40) DEF CpuInv, Extra
  <1>5. ArgOK(c)' /\ PlaceOK(c)' /\ FrameOK(c)'
    BY <1>1, <1>2, <1>3, ZenonT(60) DEF ThreadInv, ArgOK, PlaceOK, FrameOK
  <1>6. TypeOK'
    BY <1>1, <1>2, ZenonT(60) DEF SchedulerEnd, At, On, Goto, lockVars, cliVars, irqVars,
       TypeOK, Pcs
  <1>7. Local(c, c) /\ cur' = cur /\ ~panicked' /\ UNCHANGED lockVars
    BY <1>1, <1>2, SMTT(40) DEF SchedulerEnd, At, On, Goto, lockVars, cliVars, irqVars, TypeOK, Local
  <1>8. pc[c] \notin {"setcpu", "store"} /\ pc'[c] \notin {"setcpu", "store"}
    BY <1>2, <1>3, Zenon
  <1> QED BY <1>1, <1>4, <1>5, <1>6, <1>7, <1>8, OrdinaryStep, Zenon

\* What a CPU that goes from a process to its scheduler, or back, leaves alone.
Switched(c, p) ==
    /\ ncli' = ncli /\ flagIF' = flagIF /\ intena' = intena /\ UNCHANGED lockVars
    /\ after' = after /\ irq' = irq /\ ret' = ret /\ arg' = arg /\ eflags' = eflags
    /\ \A u \in Threads \ {p} : pc'[u] = pc[u] /\ saved'[u] = saved[u]
    /\ \A d \in Cpus \ {c} : cur'[d] = cur[d] /\ cur[d] # p

\* swtch() between a process that holds no lock and the scheduler of its CPU.
LEMMA Switch ==
    ASSUME IInv, NEW c \in Cpus, NEW p \in Procs, Switched(c, p),
           cur[c] \in {p, c}, cur'[c] \in {p, c}, held[p] = {}, held[c] = {},
           cur'[c] = p \/ pc'[p] = "resume", pc'[p] # "store"
    PROVE  /\ \A d \in Cpus : d # c => CpuInv(d)'
           /\ \A u \in Threads : u # p => ThreadInv(u)'
           /\ Scheduled' /\ MutualExclusion' /\ OwnerCpu'
  <1>0. /\ \A d \in Cpus : d \in Threads /\ d # p /\ cur[d] \in Threads
        /\ \A d \in Cpus \ {c} : cur[d] # c
    BY Names, SMTT(40) DEF IInv, TypeOK
  <1>1. ASSUME NEW d \in Cpus, d # c PROVE CpuInv(d)'
    <2>1. CpuInv(d) /\ cur'[d] = cur[d] /\ pc'[cur[d]] = pc[cur[d]] /\ pc'[d] = pc[d]
      BY <1>0, <1>1, Zenon DEF IInv, Switched
    <2>2. /\ ncli'[d] = ncli[d] /\ flagIF'[d] = flagIF[d] /\ intena'[d] = intena[d]
          /\ held'[cur[d]] = held[cur[d]] /\ after'[cur[d]] = after[cur[d]]
          /\ irq'[cur[d]] = irq[cur[d]]
      BY ZenonT(60) DEF Switched, lockVars
    <2> QED BY <2>1, <2>2, SMTT(40) DEF CpuInv
  <1>2. ASSUME NEW u \in Threads, u # p PROVE ThreadInv(u)'
    <2>1. ThreadInv(u) /\ pc'[u] = pc[u] /\ saved'[u] = saved[u]
      BY <1>2, Zenon DEF IInv, Switched
    <2>2. /\ held'[u] = held[u] /\ after'[u] = after[u] /\ irq'[u] = irq[u]
          /\ ret'[u] = ret[u] /\ arg'[u] = arg[u] /\ eflags'[u] = eflags[u]
      BY Zenon DEF Switched, lockVars
    <2> QED BY <2>1, <2>2, SMTT(40) DEF ThreadInv, CountOK, ArgOK, PlaceOK, FrameOK
  <1>3. Scheduled'
    <2>1. \A d, e \in Cpus : d # e => cur'[d] # cur'[e]
      BY <1>0, SMTT(40) DEF IInv, Scheduled, Switched
    <2>2. ASSUME NEW q \in Procs, pc'[q] \notin {"new", "resume"}
          PROVE  \E d \in Cpus : cur'[d] = q
      <3>1. CASE q = p
        BY <2>2, <3>1, Zenon
      <3>2. CASE q # p
        BY <1>0, <2>2, <3>2, Names, SMTT(40) DEF IInv, Scheduled, Switched
      <3> QED BY <3>1, <3>2, Zenon
    <2> QED BY <2>1, <2>2, ZenonT(60) DEF Scheduled
  <1>4. MutualExclusion'
    BY Zenon DEF IInv, MutualExclusion, Switched, lockVars
  <1>5. OwnerCpu'
    <2>0. held' = held /\ lcpu' = lcpu /\ arg' = arg /\ OwnerCpu
      BY Zenon DEF IInv, Switched, lockVars
    <2>1. ASSUME NEW d \in Cpus, NEW l \in Locks, lcpu'[l] = d PROVE l \in held'[cur'[d]]
      BY <2>0, <2>1, SMTT(40) DEF OwnerCpu, Switched
    <2>2. ASSUME NEW d \in Cpus, NEW l \in held'[cur'[d]]
          PROVE  lcpu'[l] = d \/ (pc'[cur'[d]] \in {"setcpu", "store"} /\ arg'[cur'[d]] = l)
      BY <1>0, <2>0, <2>2, SMTT(40) DEF OwnerCpu, Switched
    <2>3. ASSUME NEW u \in Threads, pc'[u] = "store" PROVE lcpu'[arg'[u]] = NoCpu
      BY <2>0, <2>3, ZenonT(60) DEF OwnerCpu, Switched
    <2> QED BY <2>1, <2>2, <2>3, Zenon DEF OwnerCpu
  <1> QED BY <1>1, <1>2, <1>3, <1>4, <1>5, ZenonT(60)

\* sched() is called with ncli = 1 and interrupts off.
LEMMA SchedStep ==
    ASSUME IInv, NEW c \in Cpus, NEW t \in Threads, Sched(c, t)
    PROVE  IInv'
  <1>1. /\ cur[c] = t /\ Facts(c, t) /\ ThreadInv(t) /\ TypeOK /\ ~panicked /\ c \in Threads
        /\ pc[t] = "sched"
    BY Here, ZenonT(60) DEF Sched, At, On
  <1>2. /\ t \in Procs /\ t # c /\ held[t] = {} /\ ncli[c] = 1 /\ ~flagIF[c]
        /\ pc[c] = "loop"
        /\ irq[t] => ~intena[c]
    <2>1. t \in Procs /\ held[t] = {}
      BY <1>1, Zenon DEF ThreadInv, ArgOK, PlaceOK
    <2>2. Extra("sched", after[t]) = 1
      BY DEF Extra
    <2> QED BY <1>1, <2>1, <2>2, SMTT(40) DEF Facts
  <1>3. ThreadInv(c) /\ held[c] = {} /\ Cardinality(held[c]) = 0 /\ ~irq[c]
    <2>1. ThreadInv(c)
      BY <1>1, Zenon DEF IInv
    <2> QED BY <1>2, <2>1, Zenon DEF ThreadInv, CountOK, ArgOK, PlaceOK
  <1>4. /\ saved' = [saved EXCEPT ![t] = intena[c]] /\ cur' = [cur EXCEPT ![c] = c]
        /\ pc' = [pc EXCEPT ![t] = "resume"] /\ ~panicked'
    BY <1>1, <1>2, Zenon DEF Sched, Goto
  <1>5. Switched(c, t) /\ cur'[c] = c /\ pc'[t] = "resume" /\ saved'[t] = intena[c]
    <2>1. \A d \in Cpus \ {c} : cur[d] # t
      BY <1>1, Zenon DEF IInv, Scheduled
    <2> QED BY <1>1, <1>4, <2>1, SMTT(40) DEF Sched, lockVars, cliVars, irqVars, TypeOK, Switched
  <1>6. /\ ncli'[c] = 1 /\ ~flagIF'[c] /\ pc'[c] = "loop" /\ held'[c] = {} /\ ~irq'[c]
        /\ held'[t] = held[t] /\ irq'[t] = irq[t] /\ ret'[t] = ret[t]
        /\ Cardinality(held'[c]) = 0
    BY <1>1, <1>2, <1>3, <1>5, ZenonT(60) DEF Switched, lockVars
  <1>7. TypeOK'
    <2>1. cur' \in [Cpus -> Threads] /\ \A d \in Cpus : cur'[d] \in Procs \cup {d}
      BY <1>1, <1>4, ZenonT(60) DEF TypeOK
    <2>2. pc' \in [Threads -> Pcs] /\ saved' \in [Threads -> BOOLEAN]
      BY <1>1, <1>4, SMTT(40) DEF TypeOK, Pcs
    <2> QED BY <1>1, <1>4, <2>1, <2>2, SMTT(40) DEF Sched, lockVars, cliVars, irqVars, TypeOK
  <1>8. CpuInv(c)'
    <2>1. Extra("loop", after'[c]) = 1
      BY DEF Extra
    <2> QED BY <1>5, <1>6, <2>1, SMTT(40) DEF CpuInv
  <1>9. ThreadInv(t)'
    <2>1. CountOK(t)'
      BY <1>1, <1>6, ZenonT(60) DEF ThreadInv, CountOK
    <2>2. ArgOK(t)' /\ PlaceOK(t)' /\ FrameOK(t)'
      BY <1>1, <1>2, <1>5, <1>6, SMTT(40) DEF ThreadInv, ArgOK, PlaceOK, FrameOK
    <2> QED BY <2>1, <2>2, Zenon DEF ThreadInv
  <1>10. /\ \A d \in Cpus : d # c => CpuInv(d)'
         /\ \A u \in Threads : u # t => ThreadInv(u)'
         /\ Scheduled' /\ MutualExclusion' /\ OwnerCpu'
    BY <1>1, <1>2, <1>3, <1>5, Switch, ZenonT(60)
  <1> QED BY <1>4, <1>7, <1>8, <1>9, <1>10, ZenonT(60) DEF IInv

\* A process returns from sched(), or starts, with the scheduler's ncli = 1.
LEMMA SchedulerRunStep ==
    ASSUME IInv, NEW c \in Cpus, NEW p \in Procs, SchedulerRun(c, p)
    PROVE  IInv'
  <1>1. /\ cur[c] = c /\ Facts(c, c) /\ ThreadInv(c) /\ TypeOK /\ c \in Threads
        /\ pc[c] = "loop"
    BY Here, Names, Zenon DEF SchedulerRun, At, On
  <1>2. /\ p \in Threads /\ p # c /\ ThreadInv(p) /\ pc[p] \in {"new", "resume"}
        /\ ~panicked'
        /\ \A d \in Cpus : cur[d] # p
    BY Names, Zenon DEF SchedulerRun, At, On, IInv
  <1>3. /\ held[c] = {} /\ held[p] = {} /\ Cardinality(held[p]) = 0
        /\ pc[p] = "new" => after[p] = "run" /\ ~irq[p]
    BY <1>1, <1>2, ZenonT(60) DEF ThreadInv, CountOK, ArgOK, PlaceOK
  <1>4. ncli[c] = 1 /\ ~flagIF[c]
    <2>1. Extra("loop", after[c]) = 1
      BY DEF Extra
    <2> QED BY <1>1, <1>3, <2>1, SMTT(40) DEF Facts
  <1>5. Switched(c, p) /\ cur'[c] = p /\ pc'[p] = IF pc[p] = "new" THEN "pop" ELSE "resume"
    BY <1>1, <1>2, ZenonT(60) DEF SchedulerRun, Goto, lockVars, cliVars, irqVars, TypeOK,
       Switched
  <1>6. /\ ncli'[c] = 1 /\ ~flagIF'[c] /\ pc'[c] = "loop" /\ Cardinality(held'[p]) = 0
        /\ held'[p] = held[p] /\ irq'[p] = irq[p] /\ ret'[p] = ret[p] /\ arg'[p] = arg[p]
        /\ after'[p] = after[p] /\ saved'[p] = saved[p]
    BY <1>1, <1>2, <1>3, <1>4, <1>5, Zenon DEF Switched, lockVars, SchedulerRun, irqVars
  <1>7. TypeOK'
    BY <1>1, <1>2, ZenonT(60) DEF SchedulerRun, Goto, lockVars, cliVars, irqVars, TypeOK, Pcs
  <1>8. CpuInv(c)'
    <2>1. Extra("pop", "run") = 1 /\ Extra("resume", after[p]) = 1
      BY DEF Extra
    <2>2. Extra(pc'[p], after'[p]) = 1
      BY <1>2, <1>3, <1>5, <1>6, <2>1, ZenonT(60)
    <2>3. irq'[p] => pc'[p] = "resume"
      BY <1>3, <1>5, <1>6, Zenon
    <2> QED BY <1>5, <1>6, <2>2, <2>3, SMTT(40) DEF CpuInv
  <1>9. ThreadInv(p)'
    <2>1. CountOK(p)'
      BY <1>2, <1>6, ZenonT(60) DEF ThreadInv, CountOK
    <2>2. ArgOK(p)' /\ PlaceOK(p)' /\ FrameOK(p)'
      BY <1>2, <1>3, <1>5, <1>6, SMTT(40) DEF ThreadInv, ArgOK, PlaceOK, FrameOK
    <2> QED BY <2>1, <2>2, Zenon DEF ThreadInv
  <1>10. /\ \A d \in Cpus : d # c => CpuInv(d)'
         /\ \A u \in Threads : u # p => ThreadInv(u)'
         /\ Scheduled' /\ MutualExclusion' /\ OwnerCpu'
    BY <1>1, <1>3, <1>5, Switch, Zenon
  <1> QED BY <1>2, <1>7, <1>8, <1>9, <1>10, Zenon DEF IInv

-----------------------------------------------------------------------------
(***************************************************************************)
(* acquire() and release() up to the instructions that take and give up    *)
(* the lock, popcli(), the return to user mode, interrupts, yield() and    *)
(* sleep() preserve the invariant: one lemma per action.                   *)
(***************************************************************************)

\* acquire() of a lock the thread does not hold.
LEMMA AcquireCallStep ==
    ASSUME IInv, NEW c \in Cpus, NEW t \in Threads, NEW l \in Locks,
           AcquireCall(c, t, l)
    PROVE  IInv'
  <1>1. cur[c] = t /\ Facts(c, t) /\ ThreadInv(t) /\ TypeOK /\ ~panicked /\ c \in Threads
    BY Here, ZenonT(60) DEF AcquireCall, At, On
  <1>2. pc[t] = "run" /\ l \notin held[t] /\ l \in Nat
    BY <1>1, LocksAssumption, SMTT(40) DEF AcquireCall, At, On, TypeOK
  <1>3. /\ pc'[t] = "eflags" /\ after'[t] = "run" /\ arg'[t] = l
        /\ held'[t] = held[t] /\ irq'[t] = irq[t] /\ ret'[t] = ret[t] /\ cur'[c] = t
        /\ ncli'[c] = ncli[c] /\ flagIF'[c] = flagIF[c] /\ intena'[c] = intena[c]
        /\ (t # c => pc'[c] = pc[c])
    BY <1>1, <1>2, SMTT(40) DEF AcquireCall, At, On, Goto, lockVars, cliVars, irqVars, TypeOK
  <1>4. CpuInv(c)'
    BY <1>1, <1>2, <1>3, Zenon DEF Facts, CpuInv, Extra
  <1>5. ArgOK(t)' /\ PlaceOK(t)' /\ FrameOK(t)'
    BY <1>1, <1>2, <1>3, Zenon DEF ThreadInv, ArgOK, PlaceOK, FrameOK
  <1>6. TypeOK'
    BY <1>1, <1>2, ZenonT(60) DEF AcquireCall, At, On, Goto, lockVars, cliVars, irqVars,
       TypeOK, Pcs
  <1>7. Local(c, t) /\ cur' = cur /\ ~panicked' /\ UNCHANGED lockVars
    BY <1>1, <1>2, SMTT(40) DEF AcquireCall, At, On, Goto, lockVars, cliVars, irqVars, TypeOK, Local
  <1>8. pc[t] \notin {"setcpu", "store"} /\ pc'[t] \notin {"setcpu", "store"}
    BY <1>2, <1>3, ZenonT(60)
  <1> QED BY <1>1, <1>4, <1>5, <1>6, <1>7, <1>8, OrdinaryStep, ZenonT(60)

\* release() of a lock the thread holds.
LEMMA ReleaseCallStep ==
    ASSUME IInv, NEW c \in Cpus, NEW t \in Threads, NEW l \in Locks,
           ReleaseCall(c, t, l)
    PROVE  IInv'
  <1>1. cur[c] = t /\ Facts(c, t) /\ ThreadInv(t) /\ TypeOK /\ ~panicked /\ c \in Threads
    BY Here, Zenon DEF ReleaseCall, At, On
  <1>2. pc[t] = "run" /\ l \in held[t]
    BY <1>1, Zenon DEF ReleaseCall, At, On
  <1>3. /\ pc'[t] = "clearcpu" /\ after'[t] = "run" /\ arg'[t] = l
        /\ held'[t] = held[t] /\ irq'[t] = irq[t] /\ ret'[t] = ret[t] /\ cur'[c] = t
        /\ ncli'[c] = ncli[c] /\ flagIF'[c] = flagIF[c] /\ intena'[c] = intena[c]
        /\ (t # c => pc'[c] = pc[c])
    BY <1>1, <1>2, ZenonT(60) DEF ReleaseCall, At, On, Goto, lockVars, cliVars, irqVars, TypeOK
  <1>4. CpuInv(c)'
    BY <1>1, <1>2, <1>3, ZenonT(60) DEF Facts, CpuInv, Extra
  <1>5. ArgOK(t)' /\ PlaceOK(t)' /\ FrameOK(t)'
    BY <1>1, <1>2, <1>3, ZenonT(60) DEF ThreadInv, ArgOK, PlaceOK, FrameOK
  <1>6. TypeOK'
    BY <1>1, <1>2, ZenonT(60) DEF ReleaseCall, At, On, Goto, lockVars, cliVars, irqVars,
       TypeOK, Pcs
  <1>7. Local(c, t) /\ cur' = cur /\ ~panicked' /\ UNCHANGED lockVars
    BY <1>1, <1>2, SMTT(40) DEF ReleaseCall, At, On, Goto, lockVars, cliVars, irqVars, TypeOK, Local
  <1>8. pc[t] \notin {"setcpu", "store"} /\ pc'[t] \notin {"setcpu", "store"}
    BY <1>2, <1>3, Zenon
  <1> QED BY <1>1, <1>4, <1>5, <1>6, <1>7, <1>8, OrdinaryStep, Zenon

\* readeflags() of pushcli(): an interrupt handler reads that interrupts are off.
LEMMA ReadEflagsStep ==
    ASSUME IInv, NEW c \in Cpus, NEW t \in Threads, ReadEflags(c, t)
    PROVE  IInv'
  <1>1. cur[c] = t /\ Facts(c, t) /\ ThreadInv(t) /\ TypeOK /\ ~panicked /\ c \in Threads
    BY Here, Zenon DEF ReadEflags, At, On
  <1>2. pc[t] = "eflags"
    BY <1>1, Zenon DEF ReadEflags, At, On
  <1>3. /\ pc'[t] = "cli" /\ eflags'[t] = flagIF[c] /\ after'[t] = after[t]
        /\ arg'[t] = arg[t]
        /\ held'[t] = held[t] /\ irq'[t] = irq[t] /\ ret'[t] = ret[t] /\ cur'[c] = t
        /\ ncli'[c] = ncli[c] /\ flagIF'[c] = flagIF[c] /\ intena'[c] = intena[c]
        /\ (t # c => pc'[c] = pc[c])
    BY <1>1, <1>2, ZenonT(60) DEF ReadEflags, At, On, Goto, lockVars, cliVars, irqVars, TypeOK
  <1>4. CpuInv(c)'
    BY <1>1, <1>2, <1>3, SMTT(40) DEF Facts, CpuInv, Extra
  <1>5. ArgOK(t)' /\ PlaceOK(t)' /\ FrameOK(t)'
    BY <1>1, <1>2, <1>3, ZenonT(60) DEF ThreadInv, ArgOK, PlaceOK, FrameOK, Facts
  <1>6. TypeOK'
    BY <1>1, <1>2, SMTT(40) DEF ReadEflags, At, On, Goto, lockVars, cliVars, irqVars, TypeOK, Pcs
  <1>7. Local(c, t) /\ cur' = cur /\ ~panicked' /\ UNCHANGED lockVars
    BY <1>1, <1>2, ZenonT(60) DEF ReadEflags, At, On, Goto, lockVars, cliVars, irqVars,
       TypeOK, Local
  <1>8. pc[t] \notin {"setcpu", "store"} /\ pc'[t] \notin {"setcpu", "store"}
    BY <1>2, <1>3, Zenon
  <1> QED BY <1>1, <1>4, <1>5, <1>6, <1>7, <1>8, OrdinaryStep, ZenonT(60)

\* holding() is false: lk->cpu names this CPU only when this thread has the lock.
LEMMA PushcliStep ==
    ASSUME IInv, NEW c \in Cpus, NEW t \in Threads, Pushcli(c, t)
    PROVE  IInv'
  <1>1. cur[c] = t /\ Facts(c, t) /\ ThreadInv(t) /\ TypeOK /\ ~panicked /\ c \in Threads
    BY Here, Zenon DEF Pushcli, At, On
  <1>2. /\ pc[t] = "cli" /\ arg[t] \in Locks /\ arg[t] \notin held[t]
        /\ lcpu[arg[t]] # c /\ ncli[c] \in Nat /\ (irq[t] => ~eflags[t])
    <2>1. /\ pc[t] = "cli" /\ arg[t] \in Locks /\ arg[t] \notin held[t] /\ ncli[c] \in Nat
          /\ irq[t] => ~eflags[t]
      BY <1>1, Zenon DEF Pushcli, At, On, ThreadInv, ArgOK, TypeOK
    <2> QED BY <1>1, <2>1, ZenonT(60) DEF IInv, OwnerCpu, Facts
  <1>3. /\ pc'[t] = "spin" /\ ncli'[c] = ncli[c] + 1 /\ ~flagIF'[c]
        /\ intena'[c] = IF ncli[c] = 0 THEN eflags[t] ELSE intena[c]
        /\ after'[t] = after[t] /\ arg'[t] = arg[t] /\ held'[t] = held[t]
        /\ irq'[t] = irq[t] /\ ret'[t] = ret[t]
        /\ cur'[c] = t /\ (t # c => pc'[c] = pc[c])
    BY <1>1, <1>2, ZenonT(60) DEF Pushcli, At, On, Goto, lockVars, cliVars, irqVars, TypeOK
  <1>4. CpuInv(c)'
    <2>1. Extra(pc'[t], after'[t]) = Extra(pc[t], after[t]) + 1
      BY <1>2, <1>3, SMTT(40) DEF Extra
    <2>2. ncli'[c] = Cardinality(held'[t]) + Extra(pc'[t], after'[t])
      BY <1>1, <1>2, <1>3, <2>1, SMTT(40) DEF Facts
    <2>3. /\ (flagIF'[c] => ncli'[c] = 0) /\ (irq'[t] => ~flagIF'[c])
          /\ irq'[t] /\ ncli'[c] > 0 /\ pc'[t] # "resume" => ~intena'[c]
      BY <1>1, <1>2, <1>3, SMTT(40) DEF Facts
    <2>4. (t # c => pc'[c] = "loop") /\ pc'[t] # "new" /\ cur'[c] = t
      BY <1>1, <1>2, <1>3, ZenonT(60) DEF Facts
    <2> QED BY <2>2, <2>3, <2>4, ZenonT(60) DEF CpuInv
  <1>5. ArgOK(t)' /\ PlaceOK(t)' /\ FrameOK(t)'
    BY <1>1, <1>2, <1>3, ZenonT(60) DEF ThreadInv, ArgOK, PlaceOK, FrameOK
  <1>6. TypeOK'
    BY <1>1, <1>2, SMTT(40) DEF Pushcli, At, On, Goto, lockVars, cliVars, irqVars, TypeOK, Pcs
  <1>7. Local(c, t) /\ cur' = cur /\ ~panicked' /\ UNCHANGED lockVars
    BY <1>1, <1>2, SMTT(40) DEF Pushcli, At, On, Goto, lockVars, cliVars, irqVars, TypeOK, Local
  <1>8. pc[t] \notin {"setcpu", "store"} /\ pc'[t] \notin {"setcpu", "store"}
    BY <1>2, <1>3, ZenonT(60)
  <1> QED BY <1>1, <1>4, <1>5, <1>6, <1>7, <1>8, OrdinaryStep, Zenon

\* popcli() finds interrupts off and ncli above 0, wherever it is called.
LEMMA PopcliStep ==
    ASSUME IInv, NEW c \in Cpus, NEW t \in Threads, Popcli(c, t)
    PROVE  IInv'
  <1>1. cur[c] = t /\ Facts(c, t) /\ ThreadInv(t) /\ TypeOK /\ ~panicked /\ c \in Threads
    BY Here, Zenon DEF Popcli, At, On
  <1>2. /\ pc[t] = "pop" /\ after[t] \in {"run", "sched", "sti"}
        /\ ~flagIF[c] /\ ncli[c] \in Nat \ {0}
        /\ after[t] \in {"sched", "sti"} => held[t] = {}
        /\ Extra("pop", after[t]) = Extra(after[t], after[t]) + 1
        /\ Extra(after[t], after[t]) \in Nat
    <2>1. pc[t] = "pop" /\ after[t] \in {"run", "sched", "sti"}
      BY <1>1, ZenonT(60) DEF Popcli, At, On, ThreadInv, PlaceOK
    <2>2. /\ Extra("pop", after[t]) = Extra(after[t], after[t]) + 1
          /\ Extra(after[t], after[t]) \in Nat
      BY <2>1, SMTT(40) DEF Extra
    <2>3. ~flagIF[c] /\ ncli[c] \in Nat \ {0}
      BY <1>1, <2>1, <2>2, SMTT(40) DEF Facts
    <2> QED BY <1>1, <2>1, <2>2, <2>3, ZenonT(60) DEF ThreadInv, ArgOK, PlaceOK
  <1>3. /\ pc'[t] = after[t] /\ ncli'[c] = ncli[c] - 1 /\ intena'[c] = intena[c]
        /\ flagIF'[c] => ncli[c] = 1 /\ intena[c]
        /\ after'[t] = after[t] /\ held'[t] = held[t] /\ irq'[t] = irq[t]
        /\ ret'[t] = ret[t]
        /\ cur'[c] = t /\ (t # c => pc'[c] = pc[c])
    BY <1>1, <1>2, SMTT(40) DEF Popcli, At, On, Goto, lockVars, cliVars, irqVars, TypeOK
  <1>4. CpuInv(c)'
    <2>1. ncli'[c] = Cardinality(held'[t]) + Extra(pc'[t], after'[t])
      BY <1>1, <1>2, <1>3, SMTT(40) DEF Facts
    <2>2. ncli[c] > 0 /\ (flagIF'[c] => ncli'[c] = 0)
      BY <1>2, <1>3, SMTT(40)
    <2>3. irq[t] => ~intena[c]
      BY <1>1, <1>2, <2>2, ZenonT(60) DEF Facts
    <2>4. (t # c => pc'[c] = "loop") /\ pc'[t] # "new" /\ cur'[c] = t
      BY <1>1, <1>2, <1>3, ZenonT(60) DEF Facts
    <2> QED BY <1>3, <2>1, <2>2, <2>3, <2>4, ZenonT(60) DEF CpuInv
  <1>5. ArgOK(t)' /\ PlaceOK(t)' /\ FrameOK(t)'
    BY <1>1, <1>2, <1>3, ZenonT(60) DEF ThreadInv, ArgOK, PlaceOK, FrameOK
  <1>6. TypeOK'
    <2>1. after[t] \in Pcs /\ ncli[c] - 1 \in Nat
      BY <1>2 DEF Pcs
    <2>2. pc' = [pc EXCEPT ![t] = after[t]] /\ ncli' = [ncli EXCEPT ![c] = ncli[c] - 1]
      BY <1>2, ZenonT(60) DEF Popcli, Goto
    <2>3. flagIF' \in [Cpus -> BOOLEAN] /\ panicked' = panicked
      BY <1>1, <1>2, SMTT(40) DEF Popcli, TypeOK
    <2> QED BY <1>1, <2>1, <2>2, <2>3, SMTT(40) DEF Popcli, lockVars, irqVars, TypeOK
  <1>7. Local(c, t) /\ cur' = cur /\ ~panicked' /\ UNCHANGED lockVars
    BY <1>1, <1>2, SMTT(40) DEF Popcli, At, On, Goto, lockVars, cliVars, irqVars, TypeOK, Local
  <1>8. pc[t] \notin {"setcpu", "store"} /\ pc'[t] \notin {"setcpu", "store"}
    BY <1>2, <1>3, ZenonT(60)
  <1> QED BY <1>1, <1>4, <1>5, <1>6, <1>7, <1>8, OrdinaryStep, Zenon

\* The return to user mode holds no lock and finds ncli at 0.
LEMMA UserModeStep ==
    ASSUME IInv, NEW c \in Cpus, NEW t \in Threads, UserMode(c, t)
    PROVE  IInv'
  <1>1. cur[c] = t /\ Facts(c, t) /\ ThreadInv(t) /\ TypeOK /\ ~panicked /\ c \in Threads
    BY Here, ZenonT(60) DEF UserMode, At, On
  <1>2. /\ pc[t] = "run" /\ ~irq[t] /\ ncli[c] = 0 /\ Cardinality(held[t]) = 0
        /\ t # c => pc[c] = "loop"
    BY <1>1, SMTT(40) DEF UserMode, At, On, Facts, Extra
  <1>3. /\ pc'[t] = "run" /\ (t # c => pc'[c] = pc[c]) /\ after'[t] = after[t]
        /\ held'[t] = held[t] /\ irq'[t] = irq[t] /\ ret'[t] = ret[t]
        /\ arg'[t] = arg[t] /\ cur'[c] = t /\ ncli'[c] = 0
    BY <1>1, <1>2, ZenonT(60) DEF UserMode, At, On, Goto, lockVars, cliVars, irqVars, TypeOK
  <1>4. CpuInv(c)'
    BY <1>2, <1>3, SMTT(40) DEF CpuInv, Extra
  <1>5. ArgOK(t)' /\ PlaceOK(t)' /\ FrameOK(t)'
    BY <1>1, <1>2, <1>3, ZenonT(60) DEF ThreadInv, ArgOK, PlaceOK, FrameOK
  <1>6. TypeOK'
    BY <1>1, <1>2, SMTT(40) DEF UserMode, At, On, Goto, lockVars, cliVars, irqVars, TypeOK, Pcs
  <1>7. Local(c, t) /\ cur' = cur /\ ~panicked' /\ UNCHANGED lockVars
    BY <1>1, <1>2, Zenon DEF UserMode, At, On, Goto, lockVars, cliVars, irqVars, TypeOK,
       Local
  <1>8. pc[t] \notin {"setcpu", "store"} /\ pc'[t] \notin {"setcpu", "store"}
    BY <1>2, <1>3, ZenonT(60)
  <1> QED BY <1>1, <1>4, <1>5, <1>6, <1>7, <1>8, OrdinaryStep, Zenon

\* An interrupt finds no lock held, and a handler is not interrupted.
LEMMA InterruptStep ==
    ASSUME IInv, NEW c \in Cpus, NEW t \in Threads, Interrupt(c, t)
    PROVE  IInv'
  <1>1. cur[c] = t /\ Facts(c, t) /\ ThreadInv(t) /\ TypeOK /\ ~panicked /\ c \in Threads
    BY Here, Zenon DEF Interrupt, At, On
  <1>2. /\ pc[t] \in Interruptible /\ ncli[c] = 0 /\ Cardinality(held[t]) = 0
        /\ held[t] = {}
        /\ pc[t] = "cli" => arg[t] \in Locks /\ after[t] = "run"
        /\ pc[t] \in {"sti", "push"} => t \in Cpus
        /\ t # c => pc[c] = "loop"
    <2>1. /\ pc[t] \in Interruptible /\ ncli[c] = 0 /\ Extra(pc[t], after[t]) = 0
          /\ Cardinality(held[t]) = 0 /\ held[t] = {} /\ (t # c => pc[c] = "loop")
      BY <1>1, SMTT(40) DEF Interrupt, Facts
    <2>2. pc[t] = "cli" => arg[t] \in Locks /\ after[t] = "run"
      BY <1>1, <2>1, ExtraAt, SMTT(40) DEF ThreadInv, ArgOK, PlaceOK
    <2> QED BY <1>1, <2>1, <2>2, ZenonT(60) DEF ThreadInv, PlaceOK
  <1>3. /\ pc'[t] = "run" /\ ~flagIF'[c] /\ ncli'[c] = 0
        /\ after'[t] = after[t] /\ held'[t] = held[t] /\ cur'[c] = t
        /\ (t # c => pc'[c] = pc[c])
        /\ ret'[t] = [pc |-> pc[t], after |-> after[t], arg |-> arg[t], eflags |-> eflags[t]]
    BY <1>1, <1>2, SMTT(40) DEF Interrupt, At, On, Goto, lockVars, cliVars, irqVars, TypeOK
  <1>4. CpuInv(c)'
    <2>1. Extra(pc'[t], after'[t]) = 0
      BY <1>2, <1>3, SMTT(40) DEF Extra, Interruptible
    <2>2. ncli'[c] = Cardinality(held'[t]) + Extra(pc'[t], after'[t])
      BY <1>2, <1>3, <2>1, SMTT(40)
    <2>3. /\ (flagIF'[c] => ncli'[c] = 0) /\ (irq'[t] => ~flagIF'[c])
          /\ irq'[t] /\ ncli'[c] > 0 /\ pc'[t] # "resume" => ~intena'[c]
      BY <1>2, <1>3, SMTT(40)
    <2>4. (t # c => pc'[c] = "loop") /\ pc'[t] # "new" /\ cur'[c] = t
      BY <1>2, <1>3, ZenonT(60) DEF Interruptible
    <2> QED BY <2>2, <2>3, <2>4, Zenon DEF CpuInv
  <1>5. ArgOK(t)' /\ PlaceOK(t)' /\ FrameOK(t)'
    BY <1>1, <1>2, <1>3, SMTT(40) DEF ThreadInv, ArgOK, PlaceOK, FrameOK, Interruptible
  <1>6. TypeOK'
    <2>1. [pc |-> pc[t], after |-> after[t], arg |-> arg[t], eflags |-> eflags[t]] \in Frames
      BY <1>1, SMTT(40) DEF TypeOK, Frames
    <2> QED BY <1>1, <2>1, SMTT(40) DEF Interrupt, Goto, lockVars, cliVars, irqVars, TypeOK, Pcs
  <1>7. Local(c, t) /\ cur' = cur /\ ~panicked' /\ UNCHANGED lockVars
    BY <1>1, <1>2, SMTT(40) DEF Interrupt, At, On, Goto, lockVars, cliVars, irqVars, TypeOK, Local
  <1>8. pc[t] \notin {"setcpu", "store"} /\ pc'[t] \notin {"setcpu", "store"}
    BY <1>2, <1>3, ZenonT(60) DEF Interruptible
  <1> QED BY <1>1, <1>4, <1>5, <1>6, <1>7, <1>8, OrdinaryStep, Zenon

\* iret restores the place that the interrupt left, which held no lock.
LEMMA IretStep ==
    ASSUME IInv, NEW c \in Cpus, NEW t \in Threads, Iret(c, t)
    PROVE  IInv'
  <1>1. cur[c] = t /\ Facts(c, t) /\ ThreadInv(t) /\ TypeOK /\ ~panicked /\ c \in Threads
    BY Here, Zenon DEF Iret, At, On
  <1>2. /\ pc[t] = "run" /\ ncli[c] = 0 /\ Cardinality(held[t]) = 0 /\ held[t] = {}
        /\ ret[t].pc \in Interruptible
        /\ ret[t].pc = "cli" => ret[t].arg \in Locks /\ ret[t].after = "run"
        /\ ret[t].pc \in {"sti", "push"} => t \in Cpus
        /\ t # c => pc[c] = "loop"
    <2>1. pc[t] = "run" /\ irq[t]
      BY <1>1, Zenon DEF Iret, At, On
    <2>2. /\ Cardinality(held[t]) = 0 /\ held[t] = {} /\ (t # c => pc[c] = "loop")
          /\ ncli[c] = 0 + 0
      BY <1>1, <2>1, ExtraAt, ZenonT(60) DEF Iret, Facts
    <2>3. ncli[c] = 0
      BY <2>2, SMTT(40)
    <2> QED BY <1>1, <2>1, <2>2, <2>3, Zenon DEF ThreadInv, FrameOK
  <1>3. /\ pc'[t] = ret[t].pc /\ after'[t] = ret[t].after /\ arg'[t] = ret[t].arg
        /\ ~irq'[t] /\ held'[t] = held[t] /\ ret'[t] = NoFrame
        /\ ncli'[c] = 0 /\ cur'[c] = t /\ (t # c => pc'[c] = pc[c])
    BY <1>1, <1>2, ZenonT(60) DEF Iret, At, On, Goto, lockVars, cliVars, irqVars, TypeOK
  <1>4. CpuInv(c)'
    <2>1. Extra(pc'[t], after'[t]) = 0
      <3>1. PICK z, w : z = pc'[t] /\ w = after'[t]
        BY Zenon
      <3>2. z \in Interruptible /\ (z = "cli" => w = "run")
        BY <1>2, <1>3, <3>1, ZenonT(60)
      <3>3. Extra(z, w) = 0
        BY <3>2, ExtraIdle, ZenonT(60)
      <3> QED BY <3>1, <3>3, Zenon
    <2>2. ncli'[c] = Cardinality(held'[t]) + Extra(pc'[t], after'[t])
      BY <1>2, <1>3, <2>1, SMTT(40)
    <2>3. /\ (flagIF'[c] => ncli'[c] = 0) /\ (irq'[t] => ~flagIF'[c])
          /\ irq'[t] /\ ncli'[c] > 0 /\ pc'[t] # "resume" => ~intena'[c]
      BY <1>2, <1>3, Zenon
    <2>4. (t # c => pc'[c] = "loop") /\ pc'[t] # "new" /\ cur'[c] = t
      BY <1>2, <1>3, ZenonT(60) DEF Interruptible
    <2> QED BY <2>2, <2>3, <2>4, Zenon DEF CpuInv
  <1>5. ArgOK(t)' /\ PlaceOK(t)' /\ FrameOK(t)'
    BY <1>1, <1>2, <1>3, SMTT(40) DEF ThreadInv, ArgOK, PlaceOK, FrameOK, Interruptible, NoFrame
  <1>6. TypeOK'
    <2>1. ret[t] \in Frames /\ NoFrame \in Frames
      BY <1>1, Zenon DEF TypeOK, Frames, NoFrame, Pcs
    <2>2. /\ ret[t].pc \in Pcs /\ ret[t].after \in {"run", "sched", "sti", "sleep_pop"}
          /\ ret[t].arg \in Locks \cup {0} /\ ret[t].eflags \in BOOLEAN
      BY <2>1, ZenonT(60) DEF Frames
    <2> QED BY <1>1, <2>1, <2>2, SMTT(40) DEF Iret, Goto, lockVars, cliVars, irqVars, TypeOK
  <1>7. Local(c, t) /\ cur' = cur /\ ~panicked' /\ UNCHANGED lockVars
    BY <1>1, <1>2, SMTT(40) DEF Iret, At, On, Goto, lockVars, cliVars, irqVars, TypeOK, Local
  <1>8. pc[t] \notin {"setcpu", "store"} /\ pc'[t] \notin {"setcpu", "store"}
    BY <1>2, <1>3, ZenonT(60) DEF Interruptible
  <1> QED BY <1>1, <1>4, <1>5, <1>6, <1>7, <1>8, OrdinaryStep, Zenon

\* yield() of a timer interrupt reaches sched() with ncli = 1.
LEMMA YieldStep ==
    ASSUME IInv, NEW c \in Cpus, NEW t \in Threads, Yield(c, t)
    PROVE  IInv'
  <1>1. cur[c] = t /\ Facts(c, t) /\ ThreadInv(t) /\ TypeOK /\ ~panicked /\ c \in Threads
    BY Here, ZenonT(60) DEF Yield, At, On
  <1>2. /\ pc[t] = "run" /\ irq[t] /\ t \in Procs /\ ncli[c] = 0 /\ ~flagIF[c]
        /\ Cardinality(held[t]) = 0 /\ held[t] = {} /\ (t # c => pc[c] = "loop")
    BY <1>1 DEF Yield, At, On, Facts, Extra
  <1>3. /\ pc'[t] = "sched" /\ ncli'[c] = 1 /\ ~flagIF'[c] /\ ~intena'[c]
        /\ after'[t] = after[t] /\ held'[t] = held[t] /\ ret'[t] = ret[t]
        /\ cur'[c] = t /\ (t # c => pc'[c] = pc[c])
    <2>1. ncli'[c] = 1 /\ ~flagIF'[c] /\ ~intena'[c]
      BY <1>1, <1>2, SMTT(40) DEF Yield, PushcliOff, TypeOK
    <2> QED BY <1>1, <1>2, <2>1, ZenonT(60) DEF Yield, Goto, lockVars, irqVars, TypeOK
  <1>4. CpuInv(c)'
    <2>1. Extra(pc'[t], after'[t]) = 1
      BY <1>2, <1>3, SMTT(40) DEF Extra
    <2>2. ncli'[c] = Cardinality(held'[t]) + Extra(pc'[t], after'[t])
      BY <1>2, <1>3, <2>1, SMTT(40)
    <2>3. /\ (flagIF'[c] => ncli'[c] = 0) /\ (irq'[t] => ~flagIF'[c])
          /\ irq'[t] /\ ncli'[c] > 0 /\ pc'[t] # "resume" => ~intena'[c]
      BY <1>2, <1>3, ZenonT(60)
    <2>4. (t # c => pc'[c] = "loop") /\ pc'[t] # "new" /\ cur'[c] = t
      BY <1>2, <1>3, Zenon
    <2> QED BY <2>2, <2>3, <2>4, Zenon DEF CpuInv
  <1>5. ArgOK(t)' /\ PlaceOK(t)' /\ FrameOK(t)'
    BY <1>1, <1>2, <1>3, Zenon DEF ThreadInv, ArgOK, PlaceOK, FrameOK
  <1>6. TypeOK'
    <2>1. /\ ncli' \in [Cpus -> Nat] /\ intena' \in [Cpus -> BOOLEAN]
          /\ flagIF' \in [Cpus -> BOOLEAN]
      BY <1>1, SMTT(40) DEF Yield, PushcliOff, TypeOK
    <2>2. pc' \in [Threads -> Pcs]
      BY <1>1, ZenonT(60) DEF Yield, Goto, TypeOK, Pcs
    <2> QED BY <1>1, <2>1, <2>2, ZenonT(60) DEF Yield, lockVars, irqVars, TypeOK
  <1>7. Local(c, t) /\ cur' = cur /\ ~panicked' /\ UNCHANGED lockVars
    BY <1>1, <1>2, SMTT(40) DEF Yield, PushcliOff, At, On, Goto, lockVars, cliVars, irqVars,
       TypeOK, Local
  <1>8. pc[t] \notin {"setcpu", "store"} /\ pc'[t] \notin {"setcpu", "store"}
    BY <1>2, <1>3, ZenonT(60)
  <1> QED BY <1>1, <1>4, <1>5, <1>6, <1>7, <1>8, OrdinaryStep, Zenon

-----------------------------------------------------------------------------

\* intena is the thread's own again, whichever CPU it returns on.
LEMMA ResumeStep ==
    ASSUME IInv, NEW c \in Cpus, NEW t \in Threads, Resume(c, t)
    PROVE  IInv'
  <1>1. cur[c] = t /\ Facts(c, t) /\ ThreadInv(t) /\ TypeOK /\ ~panicked /\ c \in Threads
    BY Here, Zenon DEF Resume, At, On
  <1>2. /\ pc[t] = "resume" /\ held[t] = {} /\ Cardinality(held[t]) = 0
        /\ arg[t] \in Locks \cup {0} /\ (irq[t] => ~saved[t]) /\ ncli[c] = 1 /\ ~flagIF[c]
        /\ t # c => pc[c] = "loop"
    <2>1. /\ pc[t] = "resume" /\ held[t] = {} /\ arg[t] \in Locks \cup {0}
          /\ irq[t] => ~saved[t]
      BY <1>1, Zenon DEF Resume, At, On, TypeOK, ThreadInv, ArgOK
    <2>2. Extra(pc[t], after[t]) = 1
      BY <2>1, ExtraAt, Zenon
    <2> QED BY <1>1, <2>1, <2>2, FactsOne, Zenon DEF Facts
  <1>3. /\ pc'[t] = IF arg[t] = 0 THEN "pop" ELSE "eflags"
        /\ after'[t] = IF arg[t] = 0 THEN "run" ELSE "sleep_pop"
        /\ ncli'[c] = 1 /\ ~flagIF'[c] /\ intena'[c] = saved[t]
        /\ arg'[t] = arg[t] /\ held'[t] = held[t] /\ irq'[t] = irq[t] /\ ret'[t] = ret[t]
        /\ cur'[c] = t /\ (t # c => pc'[c] = "loop")
    BY <1>1, <1>2, ZenonT(60) DEF Resume, At, On, Goto, lockVars, cliVars, irqVars, TypeOK
  <1>4. CpuInv(c)'
    <2>1. Extra(pc'[t], after'[t]) = 1
      <3>1. \/ pc'[t] = "pop" /\ after'[t] = "run"
            \/ pc'[t] = "eflags" /\ after'[t] = "sleep_pop"
        BY <1>3, Zenon
      <3> QED BY <3>1 DEF Extra
    <2>2. ncli'[c] = Cardinality(held'[t]) + Extra(pc'[t], after'[t])
      <3>1. 1 = 0 + 1
        OBVIOUS
      <3> QED BY <1>2, <1>3, <2>1, <3>1, Zenon
    <2>3. /\ (flagIF'[c] => ncli'[c] = 0) /\ (irq'[t] => ~flagIF'[c])
          /\ irq'[t] /\ ncli'[c] > 0 /\ pc'[t] # "resume" => ~intena'[c]
      BY <1>2, <1>3, Zenon
    <2>4. (t # c => pc'[c] = "loop") /\ pc'[t] # "new" /\ cur'[c] = t
      BY <1>2, <1>3, Zenon
    <2> QED BY <2>2, <2>3, <2>4, Zenon DEF CpuInv
  <1>5. ArgOK(t)' /\ PlaceOK(t)' /\ FrameOK(t)'
    BY <1>1, <1>2, <1>3, ZenonT(60) DEF ThreadInv, ArgOK, PlaceOK, FrameOK
  <1>6. TypeOK'
    BY <1>1, <1>2, SMTT(40) DEF Resume, At, On, Goto, lockVars, cliVars, irqVars, TypeOK, Pcs
  <1>7. Local(c, t) /\ cur' = cur /\ ~panicked' /\ UNCHANGED lockVars
    BY <1>1, <1>2, SMTT(40) DEF Resume, At, On, Goto, lockVars, cliVars, irqVars, TypeOK, Local
  <1>8. pc[t] \notin {"setcpu", "store"} /\ pc'[t] \notin {"setcpu", "store"}
    BY <1>2, <1>3, ZenonT(60)
  <1> QED BY <1>1, <1>4, <1>5, <1>6, <1>7, <1>8, OrdinaryStep, Zenon

\* sleep() calls pushcli() and gives up its lock before sched().
LEMMA SleepStep ==
    ASSUME IInv, NEW c \in Cpus, NEW t \in Threads, NEW l \in Locks,
           Sleep(c, t, l)
    PROVE  IInv'
  <1>1. cur[c] = t /\ Facts(c, t) /\ ThreadInv(t) /\ TypeOK /\ ~panicked /\ c \in Threads
    BY Here, Zenon DEF Sleep, At, On
  <1>2. /\ pc[t] = "run" /\ held[t] = {l} /\ ~irq[t] /\ t \in Procs
        /\ ncli[c] \in Nat /\ ncli[c] = Cardinality(held[t]) /\ (t # c => pc[c] = "loop")
    <2>1. pc[t] = "run" /\ held[t] = {l} /\ ~irq[t] /\ t \in Procs /\ Extra("run", after[t]) = 0
      BY ExtraAt, ZenonT(60) DEF Sleep, At, On
    <2> QED BY <1>1, <2>1, FactsNone, Zenon DEF Facts
  <1>3. /\ pc'[t] = "clearcpu" /\ after'[t] = "sched" /\ arg'[t] = l
        /\ ncli'[c] = ncli[c] + 1 /\ ~flagIF'[c] /\ held'[t] = held[t] /\ irq'[t] = irq[t]
        /\ ret'[t] = ret[t]
        /\ cur'[c] = t /\ (t # c => pc'[c] = pc[c])
    BY <1>1, <1>2, SMTT(40) DEF Sleep, PushcliOff, At, On, Goto, lockVars, cliVars, irqVars, TypeOK
  <1>4. CpuInv(c)'
    <2>1. Extra(pc'[t], after'[t]) = 1
      BY <1>2, <1>3, SMTT(40) DEF Extra
    <2>2. ncli'[c] = Cardinality(held'[t]) + Extra(pc'[t], after'[t])
      BY <1>2, <1>3, <2>1, Zenon
    <2>3. /\ (flagIF'[c] => ncli'[c] = 0) /\ (irq'[t] => ~flagIF'[c])
          /\ irq'[t] /\ ncli'[c] > 0 /\ pc'[t] # "resume" => ~intena'[c]
      BY <1>2, <1>3, Zenon
    <2>4. (t # c => pc'[c] = "loop") /\ pc'[t] # "new" /\ cur'[c] = t
      BY <1>2, <1>3, Zenon
    <2> QED BY <2>2, <2>3, <2>4, ZenonT(60) DEF CpuInv
  <1>5. ArgOK(t)' /\ PlaceOK(t)' /\ FrameOK(t)'
    BY <1>1, <1>2, <1>3, ZenonT(60) DEF ThreadInv, ArgOK, PlaceOK, FrameOK
  <1>6. TypeOK'
    BY <1>1, <1>2, SMTT(40) DEF Sleep, PushcliOff, At, On, Goto, lockVars, cliVars, irqVars,
       TypeOK, Pcs
  <1>7. Local(c, t) /\ cur' = cur /\ ~panicked' /\ UNCHANGED lockVars
    BY <1>1, <1>2, SMTT(40) DEF Sleep, PushcliOff, At, On, Goto, lockVars, cliVars, irqVars,
       TypeOK, Local
  <1>8. pc[t] \notin {"setcpu", "store"} /\ pc'[t] \notin {"setcpu", "store"}
    BY <1>2, <1>3, Zenon
  <1> QED BY <1>1, <1>4, <1>5, <1>6, <1>7, <1>8, OrdinaryStep, Zenon

\* An xchg that finds 0: nobody has the lock.
LEMMA XchgStep ==
    ASSUME IInv, NEW c \in Cpus, NEW t \in Threads, Xchg(c, t)
    PROVE  IInv'
  <1> DEFINE a == arg[t]
  <1>1. cur[c] = t /\ Facts(c, t) /\ ThreadInv(t) /\ TypeOK /\ ~panicked /\ c \in Threads
    BY Here, Zenon DEF Xchg, At, On
  <1>2. /\ pc[t] = "spin" /\ a \in Locks /\ a \notin held[t] /\ IsFiniteSet(held[t])
        /\ ~locked[a] /\ \A u \in Threads : a \notin held[u]
    <2>1. /\ pc[t] = "spin" /\ a \in Locks /\ a \notin held[t]
          /\ IsFiniteSet(held[t]) /\ ~locked[a]
      BY <1>1, Zenon DEF Xchg, At, On, ThreadInv, CountOK, ArgOK
    <2> QED BY <2>1, Zenon DEF IInv, MutualExclusion
  <1>3. /\ pc'[t] = "setcpu" /\ after'[t] = after[t] /\ arg'[t] = a
        /\ held'[t] = held[t] \cup {a}
        /\ irq'[t] = irq[t] /\ ret'[t] = ret[t]
        /\ cur'[c] = t /\ ncli'[c] = ncli[c] /\ intena'[c] = intena[c]
        /\ flagIF'[c] = flagIF[c]
        /\ t # c => pc'[c] = pc[c]
    BY <1>1, <1>2, Zenon DEF Xchg, Goto, cliVars, irqVars, TypeOK
  <1>4. /\ IsFiniteSet(held'[t])
        /\ Cardinality(held'[t]) = Cardinality(held[t]) + 1 /\ Cardinality(held'[t]) \in Nat
        /\ Cardinality(held'[t]) = 0 <=> held'[t] = {}
    <2>1. held'[t] = held[t] \cup {a} /\ IsFiniteSet(held[t]) /\ a \notin held[t]
      BY <1>2, <1>3, Zenon
    <2>2. IsFiniteSet(held'[t])
      BY <2>1, FS_AddElement, SMTT(40)
    <2>3. Cardinality(held'[t]) = Cardinality(held[t]) + 1
      BY <2>1, FS_AddElement, Zenon
    <2>4. Cardinality(held'[t]) \in Nat
      BY <2>2, FS_CardinalityType, Zenon
    <2> QED BY <2>2, <2>3, <2>4, FS_EmptySet, Zenon
  <1>5. CpuInv(c)' /\ ThreadInv(t)'
    <2>1. Extra(pc'[t], after'[t]) = Extra(pc[t], after[t]) - 1
      <3>1. pc[t] = "spin" /\ pc'[t] = "setcpu" /\ after'[t] = after[t]
        BY <1>2, <1>3, Zenon
      <3> QED BY <3>1, SMTT(40) DEF Extra
    <2>2. CpuInv(c)'
      <3>1. ncli'[c] = Cardinality(held'[t]) + Extra(pc'[t], after'[t])
        <4>1. ncli[c] = (Cardinality(held[t]) + 1) + (Extra(pc[t], after[t]) - 1)
          <5>1. /\ ncli[c] = Cardinality(held[t]) + Extra(pc[t], after[t])
                /\ Cardinality(held[t]) \in Nat /\ Extra(pc[t], after[t]) \in Nat
            BY <1>1, Zenon DEF Facts
          <5> QED BY <5>1, SMTT(40)
        <4> QED BY <1>3, <1>4, <2>1, <4>1, ZenonT(60)
      <3>2. (flagIF'[c] => ncli'[c] = 0) /\ (irq'[t] => ~flagIF'[c])
        BY <1>1, <1>3, Zenon DEF Facts
      <3>3. irq'[t] /\ ncli'[c] > 0 => ~intena'[c]
        BY <1>1, <1>2, <1>3, Zenon DEF Facts
      <3>4. (t # c => pc'[c] = "loop") /\ pc'[t] # "new" /\ cur'[c] = t
        BY <1>1, <1>3, Zenon DEF Facts
      <3> QED BY <3>1, <3>2, <3>3, <3>4, Zenon DEF CpuInv
    <2>3. CountOK(t)'
      BY <1>1, <1>4, Zenon DEF Facts, CountOK
    <2>4. ArgOK(t)' /\ PlaceOK(t)' /\ FrameOK(t)'
      BY <1>1, <1>2, <1>3, ZenonT(60) DEF ThreadInv, ArgOK, PlaceOK, FrameOK
    <2> QED BY <2>2, <2>3, <2>4, ZenonT(60) DEF ThreadInv
  <1>6. TypeOK' /\ Local(c, t) /\ cur' = cur /\ ~panicked'
    BY <1>1, <1>2, SMTT(40) DEF Xchg, Goto, cliVars, irqVars, TypeOK, Local, Pcs
  <1>7. LockLocal(c, t, a)
    <2>1. lcpu' = lcpu /\ \A l \in Locks : locked'[l] <=> l = a \/ locked[l]
      BY <1>1, <1>2, ZenonT(60) DEF Xchg, TypeOK
    <2>2. \A d \in Cpus : lcpu[a] # d
      BY <1>1, <1>2, SMTT(40) DEF IInv, OwnerCpu, TypeOK
    <2> QED BY <1>2, <1>3, <1>6, <2>1, <2>2, ZenonT(60) DEF LockLocal
  <1> QED BY <1>1, <1>2, <1>5, <1>6, <1>7, Elsewhere, LockStep, ZenonT(60) DEF IInv, Facts

\* acquire() stores the CPU in the lock that it has.
LEMMA SetCpuStep ==
    ASSUME IInv, NEW c \in Cpus, NEW t \in Threads, SetCpu(c, t)
    PROVE  IInv'
  <1> DEFINE a == arg[t]
  <1>1. cur[c] = t /\ Facts(c, t) /\ ThreadInv(t) /\ TypeOK /\ ~panicked /\ c \in Threads
    BY Here, Zenon DEF SetCpu, At, On
  <1>2. /\ pc[t] = "setcpu" /\ a \in Locks /\ a \in held[t]
        /\ after[t] \in {"run", "sleep_pop"}
        /\ locked[a] /\ \A u \in Threads \ {t} : a \notin held[u]
    <2>1. pc[t] = "setcpu" /\ a \in Locks /\ a \in held[t] /\ after[t] \in {"run", "sleep_pop"}
      BY <1>1, Zenon DEF SetCpu, At, On, ThreadInv, ArgOK, PlaceOK, TypeOK
    <2> QED BY <1>1, <2>1, Owners, Zenon DEF Facts
  <1>3. /\ pc'[t] = IF after[t] = "sleep_pop" THEN "pop" ELSE "run"
        /\ after'[t] = "run" /\ held'[t] = held[t]
        /\ irq'[t] = irq[t] /\ ret'[t] = ret[t]
        /\ cur'[c] = t /\ ncli'[c] = ncli[c] /\ intena'[c] = intena[c]
        /\ flagIF'[c] = flagIF[c]
        /\ t # c => pc'[c] = pc[c]
    BY <1>1, <1>2, ZenonT(60) DEF SetCpu, Goto, cliVars, irqVars, TypeOK
  <1>5. CpuInv(c)' /\ ThreadInv(t)'
    <2>1. CpuInv(c)'
      BY <1>1, <1>2, <1>3, SMTT(40) DEF Facts, CpuInv, Extra
    <2>2. CountOK(t)'
      BY <1>1, <1>3, Zenon DEF ThreadInv, CountOK
    <2>3. ArgOK(t)' /\ PlaceOK(t)' /\ FrameOK(t)'
      BY <1>1, <1>2, <1>3, ZenonT(60) DEF ThreadInv, ArgOK, PlaceOK, FrameOK
    <2> QED BY <2>1, <2>2, <2>3, Zenon DEF ThreadInv
  <1>6. TypeOK' /\ Local(c, t) /\ cur' = cur /\ ~panicked'
    BY <1>1, <1>2, SMTT(40) DEF SetCpu, Goto, cliVars, irqVars, TypeOK, Local, Pcs
  <1>7. LockLocal(c, t, a)
    <2>1. locked' = locked /\ \A l \in Locks : lcpu'[l] = IF l = a THEN c ELSE lcpu[l]
      BY <1>1, <1>2, SMTT(40) DEF SetCpu, TypeOK
    <2> QED BY <1>2, <1>3, <1>6, <2>1, SMTT(40) DEF LockLocal
  <1> QED BY <1>1, <1>2, <1>5, <1>6, <1>7, Elsewhere, LockStep, ZenonT(60) DEF IInv, Facts

\* release() finds that this CPU holds the lock.
LEMMA ClearCpuStep ==
    ASSUME IInv, NEW c \in Cpus, NEW t \in Threads, ClearCpu(c, t)
    PROVE  IInv'
  <1> DEFINE a == arg[t]
  <1>1. cur[c] = t /\ Facts(c, t) /\ ThreadInv(t) /\ TypeOK /\ ~panicked /\ c \in Threads
    BY Here, Zenon DEF ClearCpu, At, On
  <1>2. /\ pc[t] = "clearcpu" /\ a \in Locks /\ a \in held[t]
        /\ locked[a] /\ lcpu[a] = c /\ \A u \in Threads \ {t} : a \notin held[u]
    <2>1. pc[t] = "clearcpu" /\ a \in Locks /\ a \in held[t]
      BY <1>1, Zenon DEF ClearCpu, At, On, ThreadInv, ArgOK, TypeOK
    <2>2. locked[a] /\ \A u \in Threads \ {t} : a \notin held[u]
      BY <1>1, <2>1, Owners, Zenon DEF Facts
    <2>3. lcpu[a] = c
      BY <1>1, <2>1, ZenonT(60) DEF Facts, IInv, OwnerCpu
    <2> QED BY <2>1, <2>2, <2>3, Zenon
  <1>3. /\ pc'[t] = "store" /\ after'[t] = after[t] /\ arg'[t] = a /\ held'[t] = held[t]
        /\ irq'[t] = irq[t] /\ ret'[t] = ret[t]
        /\ cur'[c] = t /\ ncli'[c] = ncli[c] /\ intena'[c] = intena[c]
        /\ flagIF'[c] = flagIF[c]
        /\ t # c => pc'[c] = pc[c]
    BY <1>1, <1>2, SMTT(40) DEF ClearCpu, Goto, cliVars, irqVars, TypeOK
  <1>5. CpuInv(c)' /\ ThreadInv(t)'
    <2>1. CpuInv(c)'
      BY <1>1, <1>2, <1>3, SMTT(40) DEF Facts, CpuInv, Extra
    <2>2. CountOK(t)'
      BY <1>1, <1>3, Zenon DEF ThreadInv, CountOK
    <2>3. ArgOK(t)' /\ PlaceOK(t)' /\ FrameOK(t)'
      BY <1>1, <1>2, <1>3, ZenonT(60) DEF ThreadInv, ArgOK, PlaceOK, FrameOK
    <2> QED BY <2>1, <2>2, <2>3, Zenon DEF ThreadInv
  <1>6. TypeOK' /\ Local(c, t) /\ cur' = cur /\ ~panicked'
    BY <1>1, <1>2, SMTT(40) DEF ClearCpu, Goto, cliVars, irqVars, TypeOK, Local, Pcs
  <1>7. LockLocal(c, t, a)
    <2>1. locked' = locked /\ \A l \in Locks : lcpu'[l] = IF l = a THEN NoCpu ELSE lcpu[l]
      BY <1>1, <1>2, SMTT(40) DEF ClearCpu, TypeOK
    <2> QED BY <1>2, <1>3, <1>6, <2>1, Names, SMTT(40) DEF LockLocal
  <1> QED BY <1>1, <1>2, <1>5, <1>6, <1>7, Elsewhere, LockStep, ZenonT(60) DEF IInv, Facts

\* The store that frees the lock: one lock and one count less.
LEMMA UnlockStep ==
    ASSUME IInv, NEW c \in Cpus, NEW t \in Threads, Unlock(c, t)
    PROVE  IInv'
  <1> DEFINE a == arg[t]
  <1>1. cur[c] = t /\ Facts(c, t) /\ ThreadInv(t) /\ TypeOK /\ ~panicked /\ c \in Threads
    BY Here, Zenon DEF Unlock, At, On
  <1>2. /\ pc[t] = "store" /\ a \in Locks /\ a \in held[t] /\ IsFiniteSet(held[t])
        /\ after[t] \in {"run", "sched"} /\ lcpu[a] = NoCpu
        /\ \A u \in Threads \ {t} : a \notin held[u]
    <2>1. /\ pc[t] = "store" /\ a \in Locks /\ a \in held[t] /\ IsFiniteSet(held[t])
          /\ after[t] \in {"run", "sched"}
      BY <1>1, Zenon DEF Unlock, At, On, ThreadInv, CountOK, ArgOK, PlaceOK, TypeOK
    <2>2. \A u \in Threads \ {t} : a \notin held[u]
      BY <1>1, <2>1, Owners, ZenonT(60) DEF Facts
    <2> QED BY <2>1, <2>2, Zenon DEF IInv, OwnerCpu
  <1>3. /\ pc'[t] = "pop" /\ after'[t] = after[t] /\ held'[t] = held[t] \ {a}
        /\ irq'[t] = irq[t] /\ ret'[t] = ret[t]
        /\ cur'[c] = t /\ ncli'[c] = ncli[c] /\ intena'[c] = intena[c]
        /\ flagIF'[c] = flagIF[c]
        /\ t # c => pc'[c] = pc[c]
    BY <1>1, <1>2, SMTT(40) DEF Unlock, Goto, cliVars, irqVars, TypeOK
  <1>4. /\ IsFiniteSet(held'[t])
        /\ Cardinality(held'[t]) = Cardinality(held[t]) - 1 /\ Cardinality(held'[t]) \in Nat
        /\ Cardinality(held'[t]) = 0 <=> held'[t] = {}
    <2>1. held'[t] = held[t] \ {a} /\ IsFiniteSet(held[t]) /\ a \in held[t]
      BY <1>2, <1>3, Zenon
    <2>2. IsFiniteSet(held'[t])
      BY <2>1, FS_RemoveElement, Zenon
    <2>3. Cardinality(held'[t]) = Cardinality(held[t]) - 1
      BY <2>1, FS_RemoveElement, ZenonT(60)
    <2>4. Cardinality(held'[t]) \in Nat
      BY <2>2, FS_CardinalityType, Zenon
    <2> QED BY <2>2, <2>3, <2>4, FS_EmptySet, ZenonT(60)
  <1>5. CpuInv(c)' /\ ThreadInv(t)'
    <2>1. Extra(pc'[t], after'[t]) = Extra(pc[t], after[t]) + 1
      <3>1. /\ pc[t] = "store" /\ pc'[t] = "pop" /\ after'[t] = after[t]
            /\ after[t] \in {"run", "sched"}
        BY <1>2, <1>3, ZenonT(60)
      <3> QED BY <3>1, SMTT(40) DEF Extra
    <2>2. CpuInv(c)'
      <3>1. ncli'[c] = Cardinality(held'[t]) + Extra(pc'[t], after'[t])
        <4>1. ncli[c] = (Cardinality(held[t]) - 1) + (Extra(pc[t], after[t]) + 1)
          <5>1. /\ ncli[c] = Cardinality(held[t]) + Extra(pc[t], after[t])
                /\ Cardinality(held[t]) \in Nat /\ Extra(pc[t], after[t]) \in Nat
            BY <1>1, Zenon DEF Facts
          <5> QED BY <5>1, SMTT(40)
        <4> QED BY <1>3, <1>4, <2>1, <4>1, ZenonT(60)
      <3>2. (flagIF'[c] => ncli'[c] = 0) /\ (irq'[t] => ~flagIF'[c])
        BY <1>1, <1>3, Zenon DEF Facts
      <3>3. irq'[t] /\ ncli'[c] > 0 => ~intena'[c]
        BY <1>1, <1>2, <1>3, Zenon DEF Facts
      <3>4. (t # c => pc'[c] = "loop") /\ pc'[t] # "new" /\ cur'[c] = t
        BY <1>1, <1>3, Zenon DEF Facts
      <3> QED BY <3>1, <3>2, <3>3, <3>4, Zenon DEF CpuInv
    <2>3. CountOK(t)'
      BY <1>1, <1>4, Zenon DEF Facts, CountOK
    <2>4. ArgOK(t)' /\ PlaceOK(t)' /\ FrameOK(t)'
      BY <1>1, <1>2, <1>3, ZenonT(60) DEF ThreadInv, ArgOK, PlaceOK, FrameOK
    <2> QED BY <2>2, <2>3, <2>4, Zenon DEF ThreadInv
  <1>6. TypeOK' /\ Local(c, t) /\ cur' = cur /\ ~panicked'
    BY <1>1, <1>2, SMTT(40) DEF Unlock, Goto, cliVars, irqVars, TypeOK, Local, Pcs
  <1>7. LockLocal(c, t, a)
    <2>1. lcpu' = lcpu /\ \A l \in Locks : locked'[l] <=> l # a /\ locked[l]
      BY <1>1, <1>2, SMTT(40) DEF Unlock, TypeOK
    <2> QED BY <1>2, <1>3, <1>6, <2>1, Names, ZenonT(60) DEF LockLocal
  <1> QED BY <1>1, <1>2, <1>5, <1>6, <1>7, Elsewhere, LockStep, ZenonT(60) DEF IInv, Facts

-----------------------------------------------------------------------------
\* The processors boot with every lock free and interrupts off.
LEMMA InitIInv == Init => IInv
  <1> SUFFICES ASSUME Init PROVE IInv
    OBVIOUS
  <1> USE DEF Init
  <1>0. IsFiniteSet({}) /\ Cardinality({}) = 0
    BY FS_EmptySet, Zenon
  <1>1. TypeOK
    <2>1. NoFrame \in Frames
      BY Zenon DEF Frames, NoFrame, Pcs
    <2>2. pc \in [Threads -> Pcs]
      BY Zenon DEF Pcs
    <2>3. cur \in [Cpus -> Threads] /\ \A c \in Cpus : cur[c] \in Procs \cup {c}
      BY Names, ZenonT(60)
    <2> QED BY <2>1, <2>2, <2>3, Zenon DEF TypeOK
  <1>2. \A c \in Cpus : CpuInv(c)
    BY <1>0, Names, SMTT(40) DEF CpuInv, Extra
  <1>3. \A t \in Threads : ThreadInv(t)
    BY <1>0, SMTT(40) DEF ThreadInv, CountOK, ArgOK, PlaceOK, FrameOK, NoFrame, Interruptible, Threads
  <1>4. Scheduled
    BY Names, Zenon DEF Scheduled
  <1>5. MutualExclusion
    BY Zenon DEF MutualExclusion
  <1>6. OwnerCpu
    BY Names, Zenon DEF OwnerCpu, Threads
  <1> QED BY <1>1, <1>2, <1>3, <1>4, <1>5, <1>6, ZenonT(60) DEF IInv

\* Every step of every thread and of every scheduler preserves the invariant.
LEMMA NextIInv == IInv /\ [Next]_vars => IInv'
  <1> SUFFICES ASSUME IInv, [Next]_vars PROVE IInv'
    BY SMTT(40)
  <1>1. ASSUME NEW c \in Cpus, NEW t \in Threads, ThreadStep(c, t) PROVE IInv'
    BY <1>1, AcquireCallStep, ReleaseCallStep, SleepStep, ReadEflagsStep, PushcliStep,
       XchgStep, SetCpuStep, ClearCpuStep, UnlockStep, PopcliStep, InterruptStep,
       IretStep, UserModeStep, YieldStep, SchedStep, ResumeStep, SMTT(40) DEF ThreadStep
  <1>2. ASSUME NEW c \in Cpus, SchedulerStep(c) PROVE IInv'
    BY <1>2, SchedulerStiStep, SchedulerPushStep, SchedulerEndStep, SchedulerRunStep, ZenonT(60)
       DEF SchedulerStep
  <1>3. CASE UNCHANGED vars
    <2> USE <1>3 DEF vars, lockVars, cliVars, irqVars
    <2>1. TypeOK' /\ ~panicked'
      BY Zenon DEF IInv, TypeOK
    <2>2. \A c \in Cpus : CpuInv(c)'
      BY Zenon DEF IInv, CpuInv
    <2>3. ASSUME NEW t \in Threads PROVE ThreadInv(t)'
      <3>1. CountOK(t) /\ ArgOK(t) /\ PlaceOK(t) /\ FrameOK(t)
        BY Zenon DEF IInv, ThreadInv
      <3>2. CountOK(t)' /\ ArgOK(t)'
        BY <3>1, Zenon DEF CountOK, ArgOK
      <3>3. PlaceOK(t)'
        BY <3>1, Zenon DEF PlaceOK
      <3>4. FrameOK(t)'
        BY <3>1, Zenon DEF FrameOK
      <3> QED BY <3>2, <3>3, <3>4, Zenon DEF ThreadInv
    <2>4. Scheduled' /\ MutualExclusion' /\ OwnerCpu'
      BY ZenonT(60) DEF IInv, Scheduled, MutualExclusion, OwnerCpu
    <2> QED BY <2>1, <2>2, <2>3, <2>4, ZenonT(60) DEF IInv
  <1> QED BY <1>1, <1>2, <1>3, ZenonT(60) DEF Next

\* Two threads never hold the same lock, and lk->locked tells whether one
\* does: acquire() and release(), on any number of CPUs.
THEOREM SpinlockExcludes == Spec => []MutualExclusion
  <1>1. IInv => MutualExclusion
    BY Zenon DEF IInv
  <1> QED BY <1>1, InitIInv, NextIInv, PTL DEF Spec

\* A thread that holds a lock, or handles an interrupt, is not interrupted:
\* pushcli() before acquire()'s xchg, and intena restored by sched().
THEOREM HoldersUninterrupted == Spec => []InterruptsOff
  <1>1. ASSUME IInv, NEW t \in Threads, held[t] # {}
        PROVE  \E c \in Cpus : cur[c] = t /\ ~flagIF[c] /\ ncli[c] > 0
    <2>1. \E c \in Cpus : cur[c] = t
      <3>1. ThreadInv(t)
        BY <1>1, Zenon DEF IInv
      <3>2. pc[t] \notin {"new", "resume", "loop"}
        BY <1>1, <3>1, Zenon DEF ThreadInv, ArgOK
      <3>3. CASE t \in Procs
        BY <1>1, <3>2, <3>3, Zenon DEF IInv, Scheduled
      <3>4. CASE t \in Cpus
        BY <1>1, <3>2, <3>4, Zenon DEF IInv, CpuInv
      <3> QED BY <3>3, <3>4, Zenon DEF Threads
    <2>2. PICK c \in Cpus : cur[c] = t
      BY <2>1, Zenon
    <2>3. /\ Cardinality(held[t]) \in Nat \ {0} /\ (flagIF[c] => ncli[c] = 0)
          /\ ncli[c] = Cardinality(held[t]) + Extra(pc[t], after[t])
      BY <1>1, <2>2, Here, Zenon DEF Facts
    <2>4. Extra(pc[t], after[t]) \in Nat
      BY ExtraNat, Zenon
    <2>5. ncli[c] > 0 /\ ncli[c] # 0
      BY <2>3, <2>4, Positive, Zenon
    <2> QED BY <2>2, <2>3, <2>5, Zenon
  <1>2. IInv => HandlersMasked
    BY Zenon DEF IInv, CpuInv, HandlersMasked
  <1>3. IInv => InterruptsOff
    BY <1>1, <1>2, ZenonT(60) DEF InterruptsOff, HoldersRun
  <1> QED BY <1>3, InitIInv, NextIInv, PTL DEF Spec

\* pushcli() and popcli() are matched, and no panic of acquire(), release(),
\* popcli() or sched() is reached.
THEOREM PushcliMatched == Spec => []NcliMatched
  <1>1. ASSUME IInv, NEW c \in Cpus, pc[cur[c]] = "run"
        PROVE  ncli[c] = Cardinality(held[cur[c]])
    <2>1. cur[c] \in Threads
      BY <1>1, Zenon DEF IInv, TypeOK
    <2>2. /\ Cardinality(held[cur[c]]) \in Nat
          /\ ncli[c] = Cardinality(held[cur[c]]) + Extra("run", after[cur[c]])
      <3>1. Facts(c, cur[c])
        BY <1>1, <2>1, Here, Zenon
      <3> QED BY <1>1, <3>1, Zenon DEF Facts
    <2>3. Extra("run", after[cur[c]]) = 0
      BY DEF Extra
    <2> QED BY <2>2, <2>3, SMTT(40)
  <1>2. IInv => NcliMatched
    BY <1>1, Zenon DEF IInv, NcliMatched
  <1> QED BY <1>2, InitIInv, NextIInv, PTL DEF Spec
=============================================================================
