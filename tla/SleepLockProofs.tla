-------------------------- MODULE SleepLockProofs --------------------------
(***************************************************************************)
(* Sleep locks exclude, and no sleeper misses its wakeup, for every set of *)
(* processes and of locks.  A user of the locks that implements            *)
(* SleepLock!Spec (Bio's UsesSleepLocks) inherits both.                    *)
(***************************************************************************)
EXTENDS SleepLock, TLAPS

\* What is assumed of the constants.
LksOK == Lks \subseteq Nat \ {0} /\ NoProc \notin Procs

\* A process never waits for a lock it has: it acquires them in order.
WantsOther == \A p \in Procs : want[p] # 0 => want[p] \notin cs[p]

IInv == TypeOK /\ Exclusive /\ SleepersBlocked /\ WantsOther

\* The invariant holds initially, with every lock free.
LEMMA InitIInv == LksOK /\ Init => IInv
  BY DEF LksOK, Init, IInv, TypeOK, Exclusive, SleepersBlocked, WantsOther, holdingsleep

\* Every step of acquiresleep(), releasesleep() and of a kill preserves it.
LEMMA NextIInv == LksOK /\ IInv /\ [Next]_vars => IInv'
  <1> SUFFICES ASSUME LksOK, IInv, [Next]_vars PROVE IInv'
    OBVIOUS
  <1> USE DEF LksOK, IInv, TypeOK
  <1>1. ASSUME NEW p \in Procs, Acquire(p) PROVE IInv'
    <2> DEFINE l == want[p]
    <2>1. l \in Lks /\ ~locked[l] /\ chan[p] = 0
      BY <1>1 DEF Acquire, Take
    <2>2. TypeOK'
      BY <1>1, <2>1 DEF Acquire, Take
    <2>3. Exclusive'
      BY <1>1, <2>1 DEF Acquire, Take, Exclusive, holdingsleep
    <2>4. SleepersBlocked'
      BY <1>1, <2>1 DEF Acquire, Take, SleepersBlocked
    <2>5. WantsOther'
      BY <1>1, <2>1 DEF Acquire, Take, WantsOther
    <2> QED BY <2>2, <2>3, <2>4, <2>5
  <1>2. ASSUME NEW p \in Procs, Wait(p) PROVE IInv'
    <2>1. want[p] \in Lks /\ locked[want[p]] /\ pid[want[p]] # p
      BY <1>2 DEF Wait, Block, Exclusive, holdingsleep, WantsOther
    <2>2. TypeOK'
      BY <1>2, <2>1 DEF Wait, Block
    <2>3. Exclusive' /\ WantsOther'
      BY <1>2 DEF Wait, Block, Exclusive, holdingsleep, WantsOther
    <2>4. SleepersBlocked'
      BY <1>2, <2>1 DEF Wait, Block, SleepersBlocked
    <2> QED BY <2>2, <2>3, <2>4
  <1>3. ASSUME NEW p \in Procs, NEW l \in Lks, Release(p, l) PROVE IInv'
    <2>1. locked[l] /\ pid[l] = p /\ want[p] = 0
      BY <1>3 DEF Release, Exclusive, holdingsleep
    <2>2. TypeOK'
      BY <1>3 DEF Release, Free
    <2>3. Exclusive'
      BY <1>3, <2>1 DEF Release, Free, Exclusive, holdingsleep
    <2>4. SleepersBlocked'
      BY <1>3 DEF Release, Free, SleepersBlocked
    <2>5. WantsOther'
      BY <1>3 DEF Release, Free, WantsOther
    <2> QED BY <2>2, <2>3, <2>4, <2>5
  <1>4. ASSUME NEW p \in Procs, Killed(p) PROVE IInv'
    BY <1>4 DEF Killed, WokenByKill, Exclusive, holdingsleep, SleepersBlocked, WantsOther
  <1>5. ASSUME NEW p \in Procs, NEW l \in Lks, Call(p, l) PROVE IInv'
    <2>1. l \notin cs[p] /\ chan[p] = 0
      BY <1>5 DEF Call, SleepersBlocked
    <2> QED BY <1>5, <2>1 DEF Call, lkVars, Exclusive, holdingsleep, SleepersBlocked, WantsOther
  <1>6. CASE UNCHANGED vars
    BY <1>6 DEF vars, lkVars, Exclusive, holdingsleep, SleepersBlocked, WantsOther
  <1> QED BY <1>1, <1>2, <1>3, <1>4, <1>5, <1>6 DEF Next, Step

\* A process is in the critical section of a lock exactly when holdingsleep()
\* says so, and none sleeps on a lock that is free or its own.
THEOREM SleepLockSafe == LksOK /\ Spec => [](Exclusive /\ SleepersBlocked)
  <1>1. IInv => Exclusive /\ SleepersBlocked
    BY DEF IInv
  <1>2. LksOK => LksOK'
    BY DEF LksOK
  <1> QED BY InitIInv, NextIInv, <1>1, <1>2, PTL DEF Spec
=============================================================================
