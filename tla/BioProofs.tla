----------------------------- MODULE BioProofs -----------------------------
(***************************************************************************)
(* The buffer cache is coherent, its counts are right and its locks are    *)
(* used as sleep locks are meant to be, for every number of processes,     *)
(* blocks, values and buffers.                                             *)
(***************************************************************************)
EXTENDS Bio, FiniteSetTheorems, WellFoundedInduction, TLAPS

-----------------------------------------------------------------------------
(* The inductive invariant *)

\* Types, the bound on refcnt aside; the list has every buffer once.
Typed ==
    /\ blockno \in [Bufs -> Blocks \cup {NoBlock}] /\ refcnt \in [Bufs -> Nat]
    /\ valid \in [Bufs -> BOOLEAN] /\ dirty \in [Bufs -> BOOLEAN]
    /\ locked \in [Bufs -> BOOLEAN] /\ data \in [Bufs -> Values]
    /\ disk \in [Blocks -> Values] /\ latest \in [Blocks -> Values]
    /\ lru \in [Bufs -> Bufs] /\ \A i, j \in Bufs : lru[i] = lru[j] => i = j
    /\ pid \in [Bufs -> Procs \cup {NoProc}]
    /\ chan \in [Procs -> 0..NBUF] /\ b \in [Procs -> 0..NBUF]
    /\ idequeue \in Seq(Bufs) /\ panicked \in BOOLEAN
    /\ pc \in [Procs -> {"idle", "lock", "iderw", "wait", "have", "put"}]

\* From bget() to brelse() a process has a buffer that stands for a block.
Having == \A p \in Procs : pc[p] # "idle" => b[p] \in Bufs /\ blockno[b[p]] \in Blocks

Users(r) == {p \in Procs : pc[p] # "idle" /\ b[p] = r}

Refs == \A r \in Bufs : refcnt[r] = Cardinality(Users(r))

\* The holder of a buffer's lock is the process that bread() gave it to.
Owned == \A p \in Procs, r \in Bufs : (Holds(p) /\ b[p] = r) <=> (locked[r] /\ pid[r] = p)

Queued(r) == \E i \in 1..Len(idequeue) : idequeue[i] = r

Awaited(r) == \E p \in Procs : pc[p] = "wait" /\ b[p] = r

\* The driver's queue has the buffers processes wait for, once each.
Queue ==
    /\ \A i, j \in 1..Len(idequeue) : idequeue[i] = idequeue[j] => i = j
    /\ \A r \in Bufs : Queued(r) <=> Awaited(r)

\* What B_VALID and B_DIRTY say of a buffer, and where its holder relies on it.
Flags ==
    /\ \A r \in Bufs : dirty[r] => valid[r]
    /\ \A r \in Bufs : valid[r] => blockno[r] \in Blocks /\ data[r] = latest[blockno[r]]
    /\ \A p \in Procs : pc[p] = "have" => valid[b[p]]
    /\ \A p \in Procs : pc[p] = "iderw" => ~valid[b[p]] \/ dirty[b[p]]

\* The device was given the data of the first request, if it is a write.
Started ==
    idequeue # <<>> /\ dirty[idequeue[1]]
        => disk[blockno[idequeue[1]]] = data[idequeue[1]]

Kept == OneBufferPerBlock /\ PinnedKept

IInv ==
    /\ Typed /\ Having /\ Refs /\ Owned /\ Queue /\ Flags /\ Started /\ Kept
    /\ NoPanic

-----------------------------------------------------------------------------
(* Numbers and sets *)

LEMMA Consts ==
    /\ NBUF \in Nat \ {0} /\ IsFiniteSet(Procs) /\ Values # {} /\ NoProc \notin Procs
    /\ NoBlock \notin Blocks /\ Bufs = 1..NBUF /\ 0 \notin Bufs
    /\ Bufs \subseteq 0..NBUF /\ 0 \in 0..NBUF
    /\ IsFiniteSet(Bufs) /\ Cardinality(Bufs) = NBUF
  <1>1. IsFiniteSet(Bufs) /\ Cardinality(Bufs) = NBUF
    BY BioAssumption, FS_Interval DEF Bufs
  <1> QED BY <1>1, BioAssumption DEF Bufs

\* A nonempty set of naturals has a least element.
LEMMA Least ==
    ASSUME NEW S, S \subseteq Nat, S # {}
    PROVE  \E x \in S : \A y \in S : x <= y
  <1> DEFINE R == OpToRel(<, Nat)
  <1>1. \E x \in S : \A y \in S : ~(<<y, x>> \in R)
    <2>1. IsWellFoundedOn(R, Nat)
      BY NatLessThanWellFounded, Zenon
    <2> HIDE DEF R
    <2> QED BY <2>1, WFMin, Zenon
  <1>2. ASSUME NEW x \in S, NEW y \in S, ~(<<y, x>> \in R) PROVE x <= y
    BY <1>2 DEF OpToRel
  <1> HIDE DEF R
  <1> QED BY <1>1, <1>2, Zenon

\* The last of some places in the list is one of them.
LEMMA MaxIn ==
    ASSUME NEW S, S \subseteq Bufs, S # {}
    PROVE  Max(S) \in S
  <1> DEFINE T == {NBUF - i : i \in S}
  <1>0. NBUF \in Nat /\ \A i \in S : i \in 1..NBUF /\ NBUF - i \in Nat
    BY BioAssumption DEF Bufs
  <1>1. T \subseteq Nat /\ T # {}
    BY <1>0, Zenon
  <1> PICK t \in T : \A u \in T : t <= u
    BY <1>1, Least, Zenon
  <1> PICK x \in S : t = NBUF - x
    OBVIOUS
  <1>2. ASSUME NEW y \in S PROVE x >= y
    <2>1. NBUF - x <= NBUF - y
      OBVIOUS
    <2> QED BY <1>0, <2>1
  <1> QED BY <1>2, Zenon DEF Max

\* Every buffer is in the list.
LEMMA InList ==
    ASSUME Typed, NEW r \in Bufs
    PROVE  \E i \in Bufs : lru[i] = r
  <1>1. lru \in Injection(Bufs, Bufs)
    BY Zenon DEF Typed, Injection, IsInjective
  <1>2. lru \in Surjection(Bufs, Bufs)
    BY <1>1, Consts, FS_Injection, Zenon
  <1> QED BY <1>2, Zenon DEF Surjection

\* What brelse() does to the list leaves every buffer in it once.
LEMMA MoveFirstList ==
    ASSUME Typed, NEW r \in Bufs
    PROVE  /\ MoveFirst(r) \in [Bufs -> Bufs]
           /\ \A i, j \in Bufs : MoveFirst(r)[i] = MoveFirst(r)[j] => i = j
  <1> DEFINE k == CHOOSE i \in Bufs : lru[i] = r
  <1>1. k \in Bufs /\ lru[k] = r
    BY InList, Zenon
  <1> HIDE DEF k
  <1> DEFINE f == [i \in Bufs |-> IF i = 1 THEN r ELSE IF i <= k THEN lru[i - 1] ELSE lru[i]]
  <1>2. f = MoveFirst(r)
    BY Zenon DEF MoveFirst, k
  <1>3. /\ \A i \in Bufs : i # 1 => i - 1 \in Bufs
        /\ \A i, j \in Bufs : i - 1 = j - 1 => i = j
    BY Consts
  <1>4. f \in [Bufs -> Bufs]
    BY <1>3, Zenon DEF Typed
  <1>5. \A i, j \in Bufs : f[i] = f[j] => i = j
    <2> SUFFICES ASSUME NEW i \in Bufs, NEW j \in Bufs, f[i] = f[j] PROVE i = j
      BY Zenon
    <2>0. \A x, y \in Bufs : x \in Int /\ (lru[x] = lru[y] => x = y)
      BY Consts DEF Typed
    <2>1. \A x \in Bufs : x = 1 => f[x] = r
      BY Zenon
    <2>2. \A x \in Bufs : x # 1 /\ x <= k => f[x] = lru[x - 1] /\ x - 1 \in Bufs /\ x - 1 < k
      BY <1>1, <1>3, <2>0
    <2>3. \A x \in Bufs : x # 1 /\ ~(x <= k) => f[x] = lru[x] /\ x > k
      BY <1>1, <2>0
    <2> HIDE DEF f
    <2>4. \A x \in Bufs : x # 1 => f[x] # r
      BY <1>1, <2>0, <2>2, <2>3
    <2>5. CASE i = 1 \/ j = 1
      BY <2>1, <2>4, <2>5, Zenon
    <2>6. CASE i # 1 /\ j # 1
      BY <1>1, <1>3, <2>0, <2>2, <2>3, <2>6, SMTT(40)
    <2> QED BY <2>5, <2>6, Zenon
  <1> QED BY <1>2, <1>4, <1>5, Zenon

\* A set of processes with one more, or one less.
LEMMA Counting ==
    ASSUME NEW S, S \subseteq Procs, NEW p \in Procs
    PROVE  /\ Cardinality(S) \in Nat
           /\ p \notin S => Cardinality(S \cup {p}) = Cardinality(S) + 1
           /\ p \in S => /\ Cardinality(S \ {p}) = Cardinality(S) - 1
                         /\ Cardinality(S) > 0
  <1>1. IsFiniteSet(S) /\ Cardinality(S) \in Nat
    BY Consts, FS_Subset, FS_CardinalityType, Zenon
  <1>2. IsFiniteSet(S \ {p}) /\ Cardinality(S \ {p}) \in Nat
    BY <1>1, FS_RemoveElement, FS_CardinalityType, Zenon
  <1>3. p \notin S => Cardinality(S \cup {p}) = Cardinality(S) + 1
    BY <1>1, FS_AddElement, Zenon
  <1>4. p \in S => Cardinality(S \ {p}) = Cardinality(S) - 1
    BY <1>1, FS_RemoveElement, Zenon
  <1> QED BY <1>1, <1>2, <1>3, <1>4

\* A buffer that a process has, or waits for, has a reference.
LEMMA Referenced ==
    ASSUME Refs, NEW p \in Procs, NEW r \in Bufs, pc[p] # "idle", b[p] = r
    PROVE  refcnt[r] > 0
  BY Counting, Zenon DEF Refs, Users

-----------------------------------------------------------------------------
(* Steps *)

\* References move with the processes' buffers only.
LEMMA RefsSame ==
    ASSUME Refs, refcnt' = refcnt, b' = b,
           \A q \in Procs : pc'[q] # "idle" <=> pc[q] # "idle"
    PROVE  Refs'
  <1>1. \A r \in Bufs : Users(r)' = Users(r)
    BY Zenon DEF Users
  <1> QED BY <1>1, Zenon DEF Refs

\* Two processes do not hold one buffer.
LEMMA OneHolder ==
    ASSUME Owned, NEW p \in Procs, NEW q \in Procs, Holds(p), Holds(q), b[p] \in Bufs,
           b[p] = b[q]
    PROVE  p = q
  BY DEF Owned

\* bget() finds the block.
LEMMA HitStep ==
    ASSUME IInv, ~panicked, NEW p \in Procs, NEW r \in Bufs, pc[p] = "idle",
           blockno[r] \in Blocks, Hit(p, r), UNCHANGED <<lkVars, ideVars, latest>>
    PROVE  IInv'
  <1> USE DEF Hit, Goto, lkVars, ideVars
  <1>t. Typed /\ Typed'
    <2>1. Typed
      BY Zenon DEF IInv
    <2>2. refcnt[r] + 1 \in Nat /\ r \in 0..NBUF
      <3>1. refcnt[r] \in Nat /\ r \in 0..NBUF
        BY <2>1, Consts, Zenon DEF Typed
      <3> QED BY <3>1
    <2> QED BY <2>1, <2>2, Zenon DEF Typed
  <1>0. /\ b'[p] = r /\ pc'[p] = "lock"
        /\ \A q \in Procs : q # p => b'[q] = b[q] /\ pc'[q] = pc[q]
    BY <1>t DEF Typed
  <1>1. Having'
    BY <1>0, Zenon DEF IInv, Having
  <1>2. Refs'
    <2>1. ASSUME NEW s \in Bufs PROVE refcnt'[s] = Cardinality(Users(s)')
      <3>1. CASE s = r
        <4>1. Users(s)' = Users(s) \cup {p} /\ p \notin Users(s)
          BY <1>0, <3>1, Zenon DEF Users
        <4>2. Users(s) \subseteq Procs
          BY Zenon DEF Users
        <4>3. Cardinality(Users(s)') = Cardinality(Users(s)) + 1
          BY <4>1, <4>2, Counting, Zenon
        <4>4. refcnt'[s] = refcnt[s] + 1
          BY <1>t, <3>1, Zenon DEF Typed
        <4> QED BY <4>3, <4>4, Zenon DEF IInv, Refs
      <3>2. CASE s # r
        <4>1. Users(s)' = Users(s)
          BY <1>0, <3>2, Zenon DEF Users
        <4>2. refcnt'[s] = refcnt[s]
          BY <1>t, <3>2, Zenon DEF Typed
        <4> QED BY <4>1, <4>2, Zenon DEF IInv, Refs
      <3> QED BY <3>1, <3>2, Zenon
    <2> QED BY <2>1, Zenon DEF Refs
  <1>3. Owned'
    BY <1>0 DEF IInv, Owned, Holds
  <1>4. Queue'
    BY <1>0 DEF IInv, Queue, Queued, Awaited
  <1>5. Flags'
    BY <1>0, Zenon DEF IInv, Flags
  <1>6. Started' /\ Kept' /\ NoPanic'
    BY ZenonT(60) DEF IInv, Started, Kept, OneBufferPerBlock, PinnedKept, NoPanic
  <1> QED BY <1>t, <1>1, <1>2, <1>3, <1>4, <1>5, <1>6, Zenon DEF IInv

\* bget() gives a free buffer to the block.
LEMMA RecycleStep ==
    ASSUME IInv, ~panicked, NEW p \in Procs, NEW n \in Blocks, NEW r \in Bufs, pc[p] = "idle",
           Cached(n) = {}, Recyclable(r), Recycle(p, n, r), UNCHANGED <<lkVars, ideVars, latest>>
    PROVE  IInv'
  <1> USE DEF Recycle, Goto, lkVars, ideVars
  <1>t. Typed /\ Typed'
    BY Consts, Zenon DEF IInv, Typed
  <1>0. /\ b'[p] = r /\ pc'[p] = "lock"
        /\ \A q \in Procs : q # p => b'[q] = b[q] /\ pc'[q] = pc[q]
        /\ blockno'[r] = n /\ ~valid'[r] /\ ~dirty'[r] /\ ~dirty[r]
        /\ \A s \in Bufs : s # r => blockno'[s] = blockno[s] /\ valid'[s] = valid[s]
                                    /\ dirty'[s] = dirty[s]
    BY <1>t DEF Typed, Recyclable
  <1>a. \A q \in Procs : pc[q] # "idle" => b[q] \in Bufs /\ b[q] # r
    <2>1. ASSUME NEW q \in Procs, pc[q] # "idle", b[q] = r PROVE FALSE
      <3>1. refcnt[r] > 0
        BY <2>1, Referenced, Zenon DEF IInv
      <3> QED BY <3>1 DEF Recyclable
    <2> QED BY <2>1, Zenon DEF IInv, Having
  <1>b. \A s \in Bufs : blockno[s] # n
    BY Zenon DEF Cached
  <1>1. Having'
    BY <1>0, <1>a DEF IInv, Having
  <1>2. Refs'
    <2>1. ASSUME NEW s \in Bufs PROVE refcnt'[s] = Cardinality(Users(s)')
      <3>1. CASE s = r
        <4>1. Users(s)' = {p}
          BY <1>0, <1>a, <3>1 DEF Users
        <4>2. Cardinality(Users(s)') = 1
          BY <4>1, FS_Singleton, Zenon
        <4>3. refcnt'[s] = 1
          BY <1>t, <3>1, Zenon DEF Typed
        <4> QED BY <4>2, <4>3, Zenon
      <3>2. CASE s # r
        <4>1. Users(s)' = Users(s)
          BY <1>0, <3>2, Zenon DEF Users
        <4>2. refcnt'[s] = refcnt[s]
          BY <1>t, <3>2, Zenon DEF Typed
        <4> QED BY <4>1, <4>2, Zenon DEF IInv, Refs
      <3> QED BY <3>1, <3>2, Zenon
    <2> QED BY <2>1, Zenon DEF Refs
  <1>3. Owned'
    BY <1>0 DEF IInv, Owned, Holds
  <1>4. Queue'
    BY <1>0, SMTT(40) DEF IInv, Queue, Queued, Awaited
  <1>5. Flags'
    BY <1>0, <1>a DEF IInv, Flags
  <1>6. Started'
    <2> SUFFICES ASSUME idequeue # <<>>, dirty'[idequeue[1]]
                 PROVE  disk[blockno'[idequeue[1]]] = data[idequeue[1]]
      BY Zenon DEF Started
    <2>1. idequeue[1] \in Bufs /\ idequeue[1] # r
      BY <1>t, <1>0 DEF Typed
    <2> QED BY <1>0, <2>1, Zenon DEF IInv, Started
  <1>7. Kept'
    <2>1. OneBufferPerBlock'
      BY <1>0, <1>b, SMTT(40) DEF IInv, Kept, OneBufferPerBlock
    <2>2. PinnedKept'
      BY <1>0 DEF IInv, Kept, PinnedKept
    <2> QED BY <2>1, <2>2, Zenon DEF Kept
  <1>8. NoPanic'
    BY Zenon DEF NoPanic
  <1> QED BY <1>t, <1>1, <1>2, <1>3, <1>4, <1>5, <1>6, <1>7, <1>8, Zenon DEF IInv

\* bget() finds no buffer: the references and the log have them all.
LEMMA NoBufferStep ==
    ASSUME IInv, NEW p \in Procs, pc[p] = "idle",
           \A i \in Bufs : ~Recyclable(lru[i]), panicked' = TRUE,
           UNCHANGED <<bufVars, pc, b, lkVars, ideVars, latest>>
    PROVE  IInv'
  <1> USE DEF bufVars, lkVars, ideVars
  <1> DEFINE A == {r \in Bufs : dirty[r] /\ refcnt[r] = 0}
             U == {r \in Bufs : refcnt[r] # 0}
             Q == {q \in Procs : pc[q] # "idle"}
  <1>t. Typed
    BY Zenon DEF IInv
  <1>1. \A r \in Bufs : refcnt[r] # 0 \/ dirty[r]
    BY <1>t, InList, Zenon DEF Recyclable
  <1>2. Bufs = A \cup U /\ A \cap U = {}
    BY <1>1, Zenon
  <1>3. IsFiniteSet(A) /\ IsFiniteSet(U)
    BY Consts, FS_Subset, Zenon
  <1>4. NBUF = Cardinality(A) + Cardinality(U)
    <2>1. Cardinality(A \cup U) = Cardinality(A) + Cardinality(U) - Cardinality(A \cap U)
      BY <1>3, FS_Union, Zenon
    <2>2. Cardinality(A \cap U) = 0 /\ Cardinality(A \cup U) = NBUF
      BY <1>2, FS_EmptySet, Consts, Zenon
    <2>3. Cardinality(A) \in Nat /\ Cardinality(U) \in Nat
      BY <1>3, FS_CardinalityType, Zenon
    <2> HIDE DEF A, U
    <2> QED BY <2>1, <2>2, <2>3
  <1>5. Cardinality(U) <= Cardinality(Q) /\ IsFiniteSet(Q)
    <2> DEFINE f == [q \in Q |-> b[q]]
    <2>1. \A r \in U : \E q \in Q : b[q] = r
      <3> SUFFICES ASSUME NEW r \in U, Users(r) = {} PROVE FALSE
        BY Zenon DEF Users
      <3>1. refcnt[r] = 0
        BY FS_EmptySet, Zenon DEF IInv, Refs
      <3> QED BY <3>1, Zenon
    <2>2. \A q \in Q : b[q] \in U
      <3> SUFFICES ASSUME NEW q \in Q PROVE b[q] \in U
        BY Zenon
      <3>1. b[q] \in Bufs
        BY Zenon DEF IInv, Having
      <3>2. refcnt[b[q]] > 0
        BY <3>1, Referenced, Zenon DEF IInv
      <3> QED BY <3>1, <3>2
    <2>3. f \in Surjection(Q, U)
      BY <2>1, <2>2, Zenon DEF Surjection
    <2>4. IsFiniteSet(Q)
      BY Consts, FS_Subset, Zenon
    <2> HIDE DEF f, Q, U
    <2> QED BY <2>3, <2>4, FS_Surjection, Zenon
  <1>6. Cardinality(Q) < Cardinality(Procs)
    <2>1. Q \subseteq Procs /\ Q # Procs
      BY Zenon
    <2>2. Cardinality(Q) <= Cardinality(Procs) /\ (Cardinality(Procs) = Cardinality(Q) => Procs = Q)
      BY <2>1, Consts, FS_Subset, Zenon
    <2>3. Cardinality(Q) \in Nat /\ Cardinality(Procs) \in Nat
      BY <1>5, Consts, FS_CardinalityType, Zenon
    <2> HIDE DEF Q
    <2> QED BY <2>1, <2>2, <2>3
  <1>7. Cardinality(A) + Cardinality(Procs) > NBUF
    <2>1. /\ Cardinality(A) \in Nat /\ Cardinality(U) \in Nat
          /\ Cardinality(Q) \in Nat /\ Cardinality(Procs) \in Nat
      BY <1>3, <1>5, Consts, FS_CardinalityType, Zenon
    <2> HIDE DEF A, U, Q
    <2> QED BY <1>4, <1>5, <1>6, <2>1
  <1>8. NoPanic'
    BY <1>7, Zenon DEF NoPanic
  <1>9. Typed' /\ Having' /\ Owned' /\ Queue' /\ Flags' /\ Started' /\ Kept'
    <2>0. panicked' \in BOOLEAN
      OBVIOUS
    <2>1. Typed'
      BY <1>t, <2>0, Zenon DEF Typed
    <2>5. Having' /\ Owned'
      <3>1. \A q \in Procs : Holds(q)' <=> Holds(q)
        BY Zenon DEF Holds
      <3> QED BY <3>1, ZenonT(60) DEF IInv, Having, Owned
    <2>2. Queue'
      BY ZenonT(60) DEF IInv, Queue, Queued, Awaited
    <2>3. Flags' /\ Started'
      BY Zenon DEF IInv, Flags, Started
    <2>4. Kept'
      BY Zenon DEF IInv, Kept, OneBufferPerBlock, PinnedKept
    <2> QED BY <2>1, <2>2, <2>3, <2>4, <2>5, ZenonT(60)
  <1>10. Refs'
    BY RefsSame, Zenon DEF IInv
  <1> QED BY <1>8, <1>9, <1>10, Zenon DEF IInv

\* acquiresleep() in bget(), and the test of B_VALID.
LEMMA LockStep ==
    ASSUME IInv, ~panicked, NEW p \in Procs, Lock(p)
    PROVE  IInv'
  <1> USE DEF Goto, bufVars, ideVars
  <1>t. Typed
    BY Zenon DEF IInv
  <1> DEFINE r == b[p]
  <1>r. r \in Bufs
    BY Zenon DEF Lock, IInv, Having
  <1>0. /\ pc[p] = "lock" /\ ~locked[r] /\ locked'[r] /\ pid'[r] = p /\ chan' = chan
        /\ pc'[p] = IF valid[r] THEN "have" ELSE "iderw"
        /\ \A q \in Procs : q # p => pc'[q] = pc[q]
        /\ \A s \in Bufs : s # r => locked'[s] = locked[s] /\ pid'[s] = pid[s]
    BY <1>t, <1>r, Zenon DEF Typed, Lock, SL!Take
  <1>u. UNCHANGED <<blockno, valid, dirty, refcnt, data, lru, idequeue, disk, b, latest, panicked>>
    BY Zenon DEF Lock
  <1>1. Typed'
    BY <1>t, <1>r, Zenon DEF Typed, Lock, SL!Take
  <1> HIDE DEF r
  <1>2. Having'
    BY <1>0, <1>u, Zenon DEF IInv, Having
  <1>3. Refs'
    <2>1. \A q \in Procs : pc'[q] # "idle" <=> pc[q] # "idle"
      BY <1>0, Zenon
    <2> QED BY <1>u, <2>1, RefsSame, Zenon DEF IInv
  <1>4. Owned'
    <2>1. \A q \in Procs : q # p => (Holds(q)' <=> Holds(q))
      BY <1>0, Zenon DEF Holds
    <2>2. Holds(p)' /\ ~Holds(p)
      BY <1>0, Zenon DEF Holds
    <2>3. ASSUME NEW q \in Procs, NEW s \in Bufs
          PROVE  (Holds(q)' /\ b[q] = s) <=> (locked'[s] /\ pid'[s] = q)
      <3>1. CASE s = r
        <4>1. ~(Holds(q) /\ b[q] = s)
          BY <1>0, <3>1, Zenon DEF IInv, Owned
        <4> QED BY <1>0, <2>1, <2>2, <3>1, <4>1, Zenon DEF r
      <3>2. CASE s # r
        BY <1>0, <2>1, <2>2, <3>2, SMTT(40) DEF IInv, Owned, r
      <3> QED BY <3>1, <3>2, Zenon
    <2> QED BY <1>u, <2>3, Zenon DEF Owned
  <1>5. Queue'
    BY <1>0, <1>u, SMTT(40) DEF IInv, Queue, Queued, Awaited
  <1>6. Flags'
    BY <1>0, <1>u DEF IInv, Flags, r
  <1>7. Started' /\ Kept' /\ NoPanic'
    BY <1>u, Zenon DEF IInv, Started, Kept, OneBufferPerBlock, PinnedKept, NoPanic
  <1> QED BY <1>1, <1>2, <1>3, <1>4, <1>5, <1>6, <1>7, Zenon DEF IInv

\* Sleeping on the lock, and being woken by a kill, leave the rest alone.
LEMMA SleepStep ==
    ASSUME IInv, ~panicked, NEW p \in Procs, LockWait(p) \/ Killed(p)
    PROVE  IInv'
  <1>u. UNCHANGED <<bufVars, locked, pid, ideVars, pc, b, latest, panicked>>
    BY Zenon DEF LockWait, Killed, SL!Block, SL!WokenByKill
  <1> USE DEF bufVars, ideVars
  <1>1. Typed'
    <2>1. chan' \in [Procs -> 0..NBUF]
      <3>1. chan \in [Procs -> 0..NBUF] /\ b \in [Procs -> 0..NBUF] /\ 0 \in 0..NBUF
        BY Consts, Zenon DEF IInv, Typed
      <3> QED BY <3>1, Zenon DEF LockWait, Killed, SL!Block, SL!WokenByKill
    <2> QED BY <1>u, <2>1, Zenon DEF IInv, Typed
  <1>2. Having' /\ Owned' /\ Queue'
    BY <1>u, ZenonT(60) DEF IInv, Having, Owned, Holds, Queue, Queued, Awaited
  <1>3. Refs'
    BY <1>u, RefsSame, Zenon DEF IInv
  <1>4. Flags' /\ Started'
    BY <1>u, Zenon DEF IInv, Flags, Started
  <1>5. Kept' /\ NoPanic'
    BY <1>u, Zenon DEF IInv, Kept, OneBufferPerBlock, PinnedKept, NoPanic
  <1> QED BY <1>1, <1>2, <1>3, <1>4, <1>5, Zenon DEF IInv

\* The holder writes the block, for the disk (bwrite) or for the log.
LEMMA ModifyStep ==
    ASSUME IInv, ~panicked, NEW p \in Procs, NEW v \in Values, pc[p] = "have", Modify(p, v),
           pc' = pc \/ Goto(p, "iderw")
    PROVE  IInv'
  <1> DEFINE r == b[p]
             n == blockno[r]
  <1>t. Typed
    BY Zenon DEF IInv
  <1>r. r \in Bufs /\ n \in Blocks /\ Holds(p) /\ valid[r] /\ locked[r] /\ pid[r] = p
    BY DEF IInv, Having, Holds, Owned, Flags
  <1>u. UNCHANGED <<blockno, valid, refcnt, lru, locked, pid, chan, idequeue, disk, b>>
    BY Zenon DEF Modify, lkVars, ideVars
  <1>0. /\ panicked' = FALSE /\ data'[r] = v /\ dirty'[r] /\ latest'[n] = v
        /\ \A s \in Bufs : s # r => data'[s] = data[s] /\ dirty'[s] = dirty[s]
        /\ \A m \in Blocks : m # n => latest'[m] = latest[m]
        /\ pc'[p] \in {"have", "iderw"}
        /\ \A q \in Procs : q # p => pc'[q] = pc[q]
    BY <1>t, <1>r, SMTT(40) DEF Typed, Modify, Goto, SL!holdingsleep
  <1>1. Typed'
    BY <1>t, <1>r, <1>0 DEF Typed, Modify, Goto, lkVars, ideVars
  <1>a. \A s \in Bufs : blockno[s] = n => s = r
    BY <1>r, Consts, Zenon DEF IInv, Kept, OneBufferPerBlock
  <1>b. \A q \in Procs : q # p /\ Holds(q) => b[q] # r
    BY <1>r, OneHolder, ZenonT(60) DEF IInv
  <1> HIDE DEF r, n
  <1>2. Having' /\ Owned'
    BY <1>0, <1>u, <1>r DEF IInv, Having, Owned, Holds
  <1>3. Refs'
    <2>1. \A q \in Procs : pc'[q] # "idle" <=> pc[q] # "idle"
      BY <1>0, Zenon
    <2> QED BY <1>u, <2>1, RefsSame, Zenon DEF IInv
  <1>5. Queue'
    <2>1. \A q \in Procs : pc'[q] = "wait" <=> pc[q] = "wait"
      BY <1>0, Zenon
    <2> QED BY <1>u, <2>1, ZenonT(60) DEF IInv, Queue, Queued, Awaited
  <1>6. Flags'
    <2>1. \A s \in Bufs : valid'[s] =>
            blockno'[s] \in Blocks /\ data'[s] = latest'[blockno'[s]]
      <3> SUFFICES ASSUME NEW s \in Bufs, valid[s]
                   PROVE  blockno[s] \in Blocks /\ data'[s] = latest'[blockno[s]]
        BY <1>u, Zenon
      <3>1. CASE s = r
        BY <1>0, <1>r, <3>1, Zenon DEF n
      <3>2. CASE s # r
        <4>1. blockno[s] \in Blocks /\ data[s] = latest[blockno[s]] /\ blockno[s] # n
          BY <1>a, <3>2, Zenon DEF IInv, Flags
        <4> QED BY <1>0, <3>2, <4>1, Zenon
      <3> QED BY <3>1, <3>2, Zenon
    <2>2. \A s \in Bufs : dirty'[s] => valid'[s]
      BY <1>0, <1>u, <1>r, Zenon DEF IInv, Flags
    <2>3. \A q \in Procs : pc'[q] = "have" => valid'[b'[q]]
      BY <1>0, <1>u, <1>r, ZenonT(60) DEF IInv, Flags, r
    <2>4. \A q \in Procs : pc'[q] = "iderw" => ~valid'[b'[q]] \/ dirty'[b'[q]]
      <3> SUFFICES ASSUME NEW q \in Procs, pc'[q] = "iderw", q # p
                   PROVE  ~valid[b[q]] \/ dirty'[b[q]]
        BY <1>0, <1>u, Zenon DEF r
      <3>1. pc[q] = "iderw" /\ b[q] \in Bufs
        BY <1>0, Zenon DEF IInv, Having
      <3>2. b[q] # r
        BY <1>b, <3>1, Zenon DEF Holds
      <3> QED BY <1>0, <3>1, <3>2, Zenon DEF IInv, Flags
    <2> QED BY <2>1, <2>2, <2>3, <2>4, Zenon DEF Flags
  <1>7. Started'
    <2> SUFFICES ASSUME idequeue # <<>>, dirty'[idequeue[1]]
                 PROVE  disk[blockno[idequeue[1]]] = data'[idequeue[1]]
      BY <1>u, Zenon DEF Started
    <2>1. idequeue[1] \in Bufs /\ Queued(idequeue[1])
      BY <1>t DEF Typed, Queued
    <2>2. PICK q \in Procs : pc[q] = "wait" /\ b[q] = idequeue[1]
      BY <2>1, Zenon DEF IInv, Queue, Awaited
    <2>3. idequeue[1] # r
      BY <1>b, <2>2, Zenon DEF Holds
    <2> QED BY <1>0, <2>1, <2>3, Zenon DEF IInv, Started
  <1>8. Kept'
    <2>1. OneBufferPerBlock'
      BY <1>u, Zenon DEF IInv, Kept, OneBufferPerBlock
    <2>2. ASSUME NEW m \in Blocks, disk'[m] # latest'[m]
          PROVE  \E s \in Bufs : blockno'[s] = m /\ dirty'[s] /\ data'[s] = latest'[m]
      <3>1. CASE m = n
        BY <1>0, <1>u, <1>r, <3>1, Zenon DEF n
      <3>2. CASE m # n
        <4>1. PICK s \in Bufs : blockno[s] = m /\ dirty[s] /\ data[s] = latest[m]
          BY <1>0, <1>u, <2>2, <3>2, Zenon DEF IInv, Kept, PinnedKept
        <4>2. s # r
          BY <3>2, <4>1, Zenon DEF n
        <4> QED BY <1>0, <1>u, <3>2, <4>1, <4>2, Zenon
      <3> QED BY <3>1, <3>2, Zenon
    <2> QED BY <2>1, <2>2, Zenon DEF Kept, PinnedKept
  <1>9. NoPanic'
    BY <1>0, Zenon DEF NoPanic
  <1> QED BY <1>1, <1>2, <1>3, <1>5, <1>6, <1>7, <1>8, <1>9, Zenon DEF IInv

\* brelse() releases the buffer's lock.
LEMMA ReleaseStep ==
    ASSUME IInv, ~panicked, NEW p \in Procs, brelse(p)
    PROVE  IInv'
  <1> DEFINE r == b[p]
  <1>t. Typed
    BY Zenon DEF IInv
  <1>r. pc[p] = "have" /\ r \in Bufs /\ Holds(p) /\ locked[r] /\ pid[r] = p
    BY DEF brelse, IInv, Having, Holds, Owned
  <1>u. UNCHANGED <<blockno, valid, dirty, refcnt, data, lru, idequeue, disk, b, latest>>
    BY Zenon DEF brelse, bufVars, ideVars
  <1>0. /\ panicked' = FALSE /\ ~locked'[r] /\ pc'[p] = "put"
        /\ \A s \in Bufs : s # r => locked'[s] = locked[s] /\ pid'[s] = pid[s]
        /\ \A q \in Procs : q # p => pc'[q] = pc[q]
    BY <1>t, <1>r, Zenon DEF Typed, brelse, Goto, SL!holdingsleep, SL!Free
  <1>1. Typed'
    <2>1. chan' \in [Procs -> 0..NBUF]
      <3>1. chan \in [Procs -> 0..NBUF] /\ 0 \in 0..NBUF
        BY <1>t, Consts, Zenon DEF Typed
      <3> QED BY <3>1, Zenon DEF brelse, SL!Free
    <2>2. pc' \in [Procs -> {"idle", "lock", "iderw", "wait", "have", "put"}]
      BY <1>t, Zenon DEF Typed, brelse, Goto
    <2>3. locked' \in [Bufs -> BOOLEAN] /\ pid' \in [Bufs -> Procs \cup {NoProc}]
      BY <1>t, <1>r, Zenon DEF Typed, brelse, SL!Free
    <2>4. panicked' \in BOOLEAN
      BY <1>0, Zenon
    <2> QED BY <1>t, <1>u, <2>1, <2>2, <2>3, <2>4, Zenon DEF Typed
  <1>a. Holds(p) /\ ~Holds(p)' /\ \A q \in Procs : q # p => (Holds(q)' <=> Holds(q))
    BY <1>r, <1>0, Zenon DEF Holds
  <1> HIDE DEF r
  <1>2. Having'
    <2>1. \A q \in Procs : pc'[q] # "idle" => pc[q] # "idle"
      BY <1>0, <1>r, Zenon
    <2> QED BY <1>u, <2>1, Zenon DEF IInv, Having
  <1>3. Refs'
    <2>1. \A q \in Procs : pc'[q] # "idle" <=> pc[q] # "idle"
      BY <1>0, <1>r, Zenon
    <2> QED BY <1>u, <2>1, RefsSame, Zenon DEF IInv
  <1>4. Owned'
    <2>1. ASSUME NEW q \in Procs, NEW s \in Bufs
          PROVE  (Holds(q)' /\ b[q] = s) <=> (locked'[s] /\ pid'[s] = q)
      <3>1. CASE s = r
        <4>1. q # p => ~(Holds(q) /\ b[q] = s)
          BY <1>r, <3>1, Zenon DEF IInv, Owned
        <4> QED BY <1>0, <1>a, <3>1, <4>1, Zenon
      <3>2. CASE s # r
        BY <1>0, <1>a, <3>2 DEF IInv, Owned, r
      <3> QED BY <3>1, <3>2, Zenon
    <2> QED BY <1>u, <2>1, Zenon DEF Owned
  <1>5. Queue'
    <2>1. \A q \in Procs : pc'[q] = "wait" <=> pc[q] = "wait"
      BY <1>0, <1>r, Zenon
    <2> QED BY <1>u, <2>1, Zenon DEF IInv, Queue, Queued, Awaited
  <1>6. Flags'
    <2>1. \A q \in Procs : /\ pc'[q] = "have" => pc[q] = "have"
                           /\ pc'[q] = "iderw" => pc[q] = "iderw"
      BY <1>0, <1>r, Zenon
    <2> QED BY <1>u, <2>1, Zenon DEF IInv, Flags
  <1>7. Started' /\ Kept' /\ NoPanic'
    BY <1>u, <1>0, Zenon DEF IInv, Started, Kept, OneBufferPerBlock, PinnedKept, NoPanic
  <1> QED BY <1>1, <1>2, <1>3, <1>4, <1>5, <1>6, <1>7, Zenon DEF IInv

\* The rest of brelse(): the reference is dropped and the list changed.
LEMMA PutStep ==
    ASSUME IInv, ~panicked, NEW p \in Procs, brelsePut(p)
    PROVE  IInv'
  <1> DEFINE r == b[p]
  <1>t. Typed
    BY Zenon DEF IInv
  <1>r. pc[p] = "put" /\ pc[p] # "idle" /\ r \in Bufs
    BY Zenon DEF brelsePut, IInv, Having
  <1>u. UNCHANGED <<blockno, valid, dirty, data, locked, pid, chan, idequeue, disk, b, latest,
                    panicked>>
    BY Zenon DEF brelsePut, lkVars, ideVars
  <1>0. /\ pc'[p] = "idle" /\ \A q \in Procs : q # p => pc'[q] = pc[q]
        /\ refcnt'[r] = refcnt[r] - 1 /\ \A s \in Bufs : s # r => refcnt'[s] = refcnt[s]
    BY <1>t, <1>r, Zenon DEF Typed, brelsePut, Goto
  <1>1. Typed'
    <2>1. lru' \in [Bufs -> Bufs] /\ \A i, j \in Bufs : lru'[i] = lru'[j] => i = j
      <3>1. lru' = lru \/ lru' = MoveFirst(r)
        BY Zenon DEF brelsePut
      <3>2. lru' = lru => lru' \in [Bufs -> Bufs] /\ \A i, j \in Bufs : lru'[i] = lru'[j] => i = j
        BY <1>t, Zenon DEF Typed
      <3> HIDE DEF r
      <3> QED BY <1>t, <1>r, <3>1, <3>2, MoveFirstList, Zenon
    <2>2. refcnt' \in [Bufs -> Nat]
      <3>1. refcnt[r] > 0 /\ refcnt[r] \in Nat
        BY <1>t, <1>r, Referenced, Zenon DEF IInv, Typed
      <3>2. refcnt[r] - 1 \in Nat
        BY <3>1
      <3> QED BY <1>t, <1>r, <3>2, Zenon DEF brelsePut, Typed
    <2>3. pc' \in [Procs -> {"idle", "lock", "iderw", "wait", "have", "put"}]
      BY <1>t, Zenon DEF Typed, brelsePut, Goto
    <2> QED BY <1>t, <1>u, <2>1, <2>2, <2>3, Zenon DEF Typed
  <1>a. \A q \in Procs : Holds(q)' <=> Holds(q)
    BY <1>0, <1>r, Zenon DEF Holds
  <1> HIDE DEF r
  <1>2. Having'
    BY <1>0, <1>u, Zenon DEF IInv, Having
  <1>3. Refs'
    <2>1. ASSUME NEW s \in Bufs PROVE refcnt'[s] = Cardinality(Users(s)')
      <3>1. CASE s = r
        <4>1. Users(s)' = Users(s) \ {p} /\ p \in Users(s)
          BY <1>0, <1>u, <1>r, <3>1, Zenon DEF Users, r
        <4>2. Users(s) \subseteq Procs
          BY Zenon DEF Users
        <4>3. Cardinality(Users(s)') = Cardinality(Users(s)) - 1
          BY <4>1, <4>2, Counting, Zenon
        <4> QED BY <1>0, <3>1, <4>3, Zenon DEF IInv, Refs
      <3>2. CASE s # r
        <4>1. Users(s)' = Users(s)
          BY <1>0, <1>u, <3>2, Zenon DEF Users, r
        <4> QED BY <1>0, <3>2, <4>1, Zenon DEF IInv, Refs
      <3> QED BY <3>1, <3>2, Zenon
    <2> QED BY <2>1, Zenon DEF Refs
  <1>4. Owned'
    BY <1>a, <1>u, ZenonT(60) DEF IInv, Owned
  <1>5. Queue'
    <2>1. \A q \in Procs : pc'[q] = "wait" <=> pc[q] = "wait"
      BY <1>0, <1>r, Zenon
    <2> QED BY <1>u, <2>1, ZenonT(60) DEF IInv, Queue, Queued, Awaited
  <1>6. Flags'
    <2>1. \A q \in Procs : /\ pc'[q] = "have" => pc[q] = "have"
                           /\ pc'[q] = "iderw" => pc[q] = "iderw"
      BY <1>0, <1>r, Zenon
    <2> QED BY <1>u, <2>1, Zenon DEF IInv, Flags
  <1>7. Started' /\ Kept' /\ NoPanic'
    BY <1>u, Zenon DEF IInv, Started, Kept, OneBufferPerBlock, PinnedKept, NoPanic
  <1> QED BY <1>1, <1>2, <1>3, <1>4, <1>5, <1>6, <1>7, Zenon DEF IInv

\* What idestart() does to the disk.
LEMMA StartFacts ==
    ASSUME Typed, Flags, NEW r \in Bufs, idestart(r)
    PROVE  /\ disk' \in [Blocks -> Values]
           /\ dirty[r] => disk'[blockno[r]] = data[r]
           /\ \A m \in Blocks : disk'[m] = disk[m] \/ disk'[m] = latest[m]
           /\ \A m \in Blocks : m # blockno[r] => disk'[m] = disk[m]
  <1>1. disk \in [Blocks -> Values] /\ data[r] \in Values
    BY Zenon DEF Typed
  <1>2. dirty[r] => blockno[r] \in Blocks /\ data[r] = latest[blockno[r]]
    BY Zenon DEF Flags
  <1>3. disk' = IF dirty[r] THEN [disk EXCEPT ![blockno[r]] = data[r]] ELSE disk
    BY Zenon DEF idestart
  <1> QED BY <1>1, <1>2, <1>3, Zenon

\* The device finds a block in one buffer.
LEMMA FirstWaited ==
    ASSUME Typed, Queue, Having, idequeue # <<>>
    PROVE  /\ idequeue[1] \in Bufs /\ Queued(idequeue[1]) /\ blockno[idequeue[1]] \in Blocks
           /\ \E p \in Procs : pc[p] = "wait" /\ b[p] = idequeue[1]
  <1>1. idequeue[1] \in Bufs /\ Queued(idequeue[1])
    BY DEF Typed, Queued
  <1>2. PICK p \in Procs : pc[p] = "wait" /\ b[p] = idequeue[1]
    BY <1>1, Zenon DEF Queue, Awaited
  <1>3. blockno[idequeue[1]] \in Blocks
    BY <1>2, Zenon DEF Having
  <1> QED BY <1>1, <1>2, <1>3, Zenon

\* iderw() queues a request and starts it when it is the only one.
LEMMA IderwStep ==
    ASSUME IInv, ~panicked, NEW p \in Procs, iderw(p)
    PROVE  IInv'
  <1> DEFINE r == b[p]
             k == Len(idequeue) + 1
  <1>t. Typed /\ idequeue \in Seq(Bufs)
    BY Zenon DEF IInv, Typed
  <1>r. /\ pc[p] = "iderw" /\ pc[p] # "idle" /\ pc[p] # "wait" /\ Holds(p)
        /\ r \in Bufs /\ blockno[r] \in Blocks
    BY Zenon DEF iderw, IInv, Having, Holds
  <1>h. locked[r] /\ pid[r] = p /\ (~valid[r] \/ dirty[r])
    BY <1>r, Zenon DEF IInv, Owned, Flags
  <1>u. UNCHANGED <<blockno, valid, dirty, refcnt, data, lru, locked, pid, chan, b, latest, panicked>>
    BY <1>h, Zenon DEF iderw, bufVars, lkVars, SL!holdingsleep
  <1>s. /\ idequeue' = Append(idequeue, r) /\ Goto(p, "wait")
        /\ IF Head(idequeue') = r THEN idestart(r) ELSE disk' = disk
    BY <1>h, Zenon DEF iderw, SL!holdingsleep
  <1>0. pc'[p] = "wait" /\ \A q \in Procs : q # p => pc'[q] = pc[q]
    BY <1>t, <1>s, Zenon DEF Typed, Goto
  <1> HIDE DEF r
  <1>q. /\ k \in Nat /\ 1..Len(idequeue') = 1..k /\ idequeue'[k] = r
        /\ \A i \in 1..Len(idequeue) : i \in 1..k /\ i # k /\ idequeue'[i] = idequeue[i]
        /\ \A i \in 1..k : i # k => i \in 1..Len(idequeue)
        /\ idequeue' \in Seq(Bufs) /\ idequeue' # <<>> /\ Head(idequeue') = idequeue'[1]
        /\ idequeue = <<>> => idequeue'[1] = r
        /\ idequeue # <<>> => idequeue'[1] = idequeue[1]
    BY <1>t, <1>s, <1>r, SMTT(40)
  <1>n. ~Awaited(r) /\ ~Queued(r)
    <2>1. ASSUME NEW q \in Procs, pc[q] = "wait", b[q] = r PROVE FALSE
      <3>1. Holds(q)
        BY <2>1, Zenon DEF Holds
      <3>2. q = p
        BY <1>r, <2>1, <3>1, OneHolder, Zenon DEF IInv, r
      <3> QED BY <1>r, <2>1, <3>2, Zenon
    <2> QED BY <1>r, <2>1, Zenon DEF IInv, Queue, Awaited
  <1>d. /\ disk' \in [Blocks -> Values]
        /\ idequeue = <<>> /\ dirty[r] => disk'[blockno[r]] = data[r]
        /\ idequeue # <<>> => disk' = disk
        /\ \A m \in Blocks : disk'[m] = disk[m] \/ disk'[m] = latest[m]
    <2>1. CASE idequeue = <<>>
      <3>1. idestart(r)
        BY <1>s, <1>q, <2>1, Zenon
      <3> QED BY <1>t, <1>r, <2>1, <3>1, StartFacts, Zenon DEF IInv
    <2>2. CASE idequeue # <<>>
      <3>1. idequeue[1] # r
        BY <1>n, <1>t, <2>2 DEF Queued
      <3>2. disk' = disk
        BY <1>s, <1>q, <2>2, <3>1, Zenon
      <3> QED BY <1>t, <2>2, <3>2, Zenon DEF Typed
    <2> QED BY <2>1, <2>2, Zenon
  <1>1. Typed'
    <2>1. pc' \in [Procs -> {"idle", "lock", "iderw", "wait", "have", "put"}]
      BY <1>t, <1>s, Zenon DEF Typed, Goto
    <2> QED BY <1>t, <1>u, <1>q, <1>d, <2>1, Zenon DEF Typed
  <1>2. Having'
    BY <1>0, <1>u, <1>r, Zenon DEF IInv, Having, r
  <1>3. Refs'
    <2>1. \A q \in Procs : pc'[q] # "idle" <=> pc[q] # "idle"
      BY <1>0, <1>r, Zenon
    <2> QED BY <1>u, <2>1, RefsSame, Zenon DEF IInv
  <1>4. Owned'
    <2>1. \A q \in Procs : Holds(q)' <=> Holds(q)
      BY <1>0, <1>r, Zenon DEF Holds
    <2> QED BY <1>u, <2>1, ZenonT(60) DEF IInv, Owned
  <1>5. Queue'
    <2>0. \A i, j \in 1..Len(idequeue) : idequeue[i] = idequeue[j] => i = j
      BY Zenon DEF IInv, Queue
    <2>1. \A i, j \in 1..k : idequeue'[i] = idequeue'[j] => i = j
      <3> SUFFICES ASSUME NEW i \in 1..k, NEW j \in 1..k, idequeue'[i] = idequeue'[j] PROVE i = j
        BY Zenon
      <3>1. \A h \in 1..Len(idequeue) : idequeue[h] # r
        BY <1>n, Zenon DEF Queued
      <3> HIDE DEF k
      <3>2. \A h \in 1..k : h = k \/ (h \in 1..Len(idequeue) /\ idequeue'[h] = idequeue[h]
                                        /\ idequeue'[h] # r)
        BY <1>q, <3>1, Zenon
      <3>3. idequeue'[k] = r
        BY <1>q, Zenon
      <3>4. CASE i = k \/ j = k
        BY <3>2, <3>3, <3>4, Zenon
      <3>5. CASE i # k /\ j # k
        BY <2>0, <3>2, <3>5, Zenon
      <3> QED BY <3>4, <3>5, Zenon
    <2>2. ASSUME NEW s \in Bufs PROVE Queued(s)' <=> Awaited(s)'
      <3>1. Queued(s)' <=> Queued(s) \/ s = r
        <4> HIDE DEF k
        <4>1. k \in 1..k
          BY <1>q
        <4> QED BY <1>q, <4>1, Zenon DEF Queued
      <3>2. Awaited(s)' <=> Awaited(s) \/ s = r
        BY <1>0, <1>u, <1>r, Zenon DEF Awaited, r
      <3> QED BY <3>1, <3>2, Zenon DEF IInv, Queue
    <2> HIDE DEF k
    <2> QED BY <1>q, <2>1, <2>2, Zenon DEF Queue
  <1>6. Flags'
    <2>1. \A q \in Procs : /\ pc'[q] = "have" => pc[q] = "have"
                           /\ pc'[q] = "iderw" => pc[q] = "iderw"
      BY <1>0, <1>r, Zenon
    <2> QED BY <1>u, <2>1, Zenon DEF IInv, Flags
  <1>7. Started'
    BY <1>d, <1>q, <1>u, Zenon DEF IInv, Started
  <1>8. Kept'
    BY <1>d, <1>u, Zenon DEF IInv, Kept, OneBufferPerBlock, PinnedKept
  <1>9. NoPanic'
    BY <1>u, Zenon DEF NoPanic
  <1> QED BY <1>1, <1>2, <1>3, <1>4, <1>5, <1>6, <1>7, <1>8, <1>9, ZenonT(60) DEF IInv

\* ideintr() completes the first request and starts the next.
LEMMA IntrStep ==
    ASSUME IInv, ~panicked, ideintr
    PROVE  IInv'
  <1> DEFINE r == idequeue[1]
  <1>t. Typed /\ idequeue \in Seq(Bufs) /\ idequeue # <<>>
    BY Zenon DEF IInv, Typed, ideintr
  <1>r. r \in Bufs /\ blockno[r] \in Blocks /\ \E p \in Procs : pc[p] = "wait" /\ b[p] = r
    BY <1>t, FirstWaited, Zenon DEF IInv
  <1>u. UNCHANGED <<blockno, refcnt, lru, locked, pid, chan, b, latest, panicked>>
    BY Zenon DEF ideintr, lkVars
  <1>s. /\ idequeue' = Tail(idequeue)
        /\ data' = IF dirty[r] THEN data ELSE [data EXCEPT ![r] = disk[blockno[r]]]
        /\ valid' = [valid EXCEPT ![r] = TRUE] /\ dirty' = [dirty EXCEPT ![r] = FALSE]
        /\ pc' = [p \in Procs |-> IF pc[p] = "wait" /\ b[p] = r THEN "have" ELSE pc[p]]
        /\ IF idequeue' # <<>> THEN idestart(Head(idequeue')) ELSE disk' = disk
    <2>1. Head(idequeue) = r
      BY <1>t
    <2> QED BY <2>1, Zenon DEF ideintr
  <1> HIDE DEF r
  <1>q. /\ idequeue' \in Seq(Bufs) /\ Len(idequeue') = Len(idequeue) - 1 /\ Len(idequeue) \in Nat
        /\ \A i \in 1..Len(idequeue') : i + 1 \in 1..Len(idequeue) /\ i + 1 # 1
                                        /\ idequeue'[i] = idequeue[i + 1]
        /\ \A i \in 1..Len(idequeue) : i # 1 => i - 1 \in 1..Len(idequeue') /\ idequeue'[i - 1] = idequeue[i]
        /\ \A i, j \in 1..Len(idequeue') : i + 1 = j + 1 => i = j
        /\ 1 \in 1..Len(idequeue)
        /\ idequeue' # <<>> => Head(idequeue') = idequeue'[1] /\ 1 \in 1..Len(idequeue')
    BY <1>t, <1>s
  <1>o. \A i \in 1..Len(idequeue) : idequeue[i] = r <=> i = 1
    BY <1>q, Zenon DEF IInv, Queue, r
  <1>0. /\ \A s \in Bufs : s # r => data'[s] = data[s] /\ valid'[s] = valid[s] /\ dirty'[s] = dirty[s]
        /\ valid'[r] /\ ~dirty'[r] /\ data'[r] = (IF dirty[r] THEN data[r] ELSE disk[blockno[r]])
        /\ \A p \in Procs : pc'[p] = IF pc[p] = "wait" /\ b[p] = r THEN "have" ELSE pc[p]
    BY <1>t, <1>s, <1>r, Zenon DEF Typed
  <1>l. disk[blockno[r]] = latest[blockno[r]] /\ data'[r] = latest[blockno[r]]
    <2>1. CASE dirty[r]
      BY <1>0, <1>r, <1>t, <2>1, Zenon DEF IInv, Started, Flags, r
    <2>2. CASE ~dirty[r]
      <3>1. \A s \in Bufs : blockno[s] = blockno[r] => s = r
        BY <1>r, Consts, Zenon DEF IInv, Kept, OneBufferPerBlock
      <3>2. disk[blockno[r]] = latest[blockno[r]]
        BY <1>r, <2>2, <3>1, Zenon DEF IInv, Kept, PinnedKept
      <3> QED BY <1>0, <2>2, <3>2, Zenon
    <2> QED BY <2>1, <2>2, Zenon
  <1>n. idequeue' # <<>> => idequeue'[1] \in Bufs /\ idequeue'[1] # r
    <2> SUFFICES ASSUME idequeue' # <<>> PROVE idequeue'[1] \in Bufs /\ idequeue'[1] # r
      OBVIOUS
    <2>1. idequeue'[1] \in Bufs
      BY <1>q
    <2>2. 1 + 1 \in 1..Len(idequeue) /\ 1 + 1 # 1 /\ idequeue'[1] = idequeue[1 + 1]
      BY <1>q, Zenon
    <2> QED BY <1>o, <2>1, <2>2, Zenon
  <1>d. /\ disk' \in [Blocks -> Values]
        /\ idequeue' # <<>> /\ dirty[idequeue'[1]]
               => disk'[blockno[idequeue'[1]]] = data[idequeue'[1]]
        /\ \A m \in Blocks : disk'[m] = disk[m] \/ disk'[m] = latest[m]
    <2>1. CASE idequeue' = <<>>
      BY <1>t, <1>s, <2>1, Zenon DEF Typed
    <2>2. CASE idequeue' # <<>>
      <3>1. idestart(idequeue'[1])
        BY <1>s, <1>q, <2>2, Zenon
      <3> QED BY <1>t, <1>n, <2>2, <3>1, StartFacts, Zenon DEF IInv
    <2> QED BY <2>1, <2>2, Zenon
  <1>h. /\ \A p \in Procs : Holds(p)' <=> Holds(p)
        /\ \A p \in Procs : pc'[p] # "idle" <=> pc[p] # "idle"
        /\ \A p \in Procs : pc'[p] = "wait" <=> pc[p] = "wait" /\ b[p] # r
        /\ \A p \in Procs : pc'[p] = "have" => pc[p] = "have" \/ b[p] = r
        /\ \A p \in Procs : pc'[p] = "iderw" => pc[p] = "iderw"
    BY <1>0, Zenon DEF Holds
  <1>1. Typed'
    <2>1. pc' \in [Procs -> {"idle", "lock", "iderw", "wait", "have", "put"}]
      BY <1>t, <1>s, Zenon DEF Typed
    <2>2. data' \in [Bufs -> Values] /\ valid' \in [Bufs -> BOOLEAN] /\ dirty' \in [Bufs -> BOOLEAN]
      BY <1>t, <1>s, <1>r, Zenon DEF Typed
    <2> QED BY <1>t, <1>u, <1>q, <1>d, <2>1, <2>2, Zenon DEF Typed
  <1>2. Having' /\ Owned'
    BY <1>h, <1>u, ZenonT(60) DEF IInv, Having, Owned
  <1>3. Refs'
    BY <1>h, <1>u, RefsSame, Zenon DEF IInv
  <1>4. Queue'
    <2>1. \A i, j \in 1..Len(idequeue') : idequeue'[i] = idequeue'[j] => i = j
      <3> SUFFICES ASSUME NEW i \in 1..Len(idequeue'), NEW j \in 1..Len(idequeue'),
                          idequeue'[i] = idequeue'[j]
                   PROVE  i = j
        BY Zenon
      <3>1. /\ i + 1 \in 1..Len(idequeue) /\ idequeue'[i] = idequeue[i + 1]
            /\ j + 1 \in 1..Len(idequeue) /\ idequeue'[j] = idequeue[j + 1]
        BY <1>q, Zenon
      <3>2. i + 1 = j + 1
        BY <3>1, Zenon DEF IInv, Queue
      <3> QED BY <1>q, <3>2, Zenon
    <2>2. ASSUME NEW s \in Bufs PROVE Queued(s)' <=> Awaited(s)'
      <3>1. Queued(s)' <=> Queued(s) /\ s # r
        <4>1. ASSUME NEW i \in 1..Len(idequeue'), idequeue'[i] = s PROVE Queued(s) /\ s # r
          <5>1. i + 1 \in 1..Len(idequeue) /\ i + 1 # 1 /\ idequeue[i + 1] = s
            BY <1>q, <4>1, Zenon
          <5> QED BY <1>o, <5>1, Zenon DEF Queued
        <4>2. ASSUME NEW i \in 1..Len(idequeue), idequeue[i] = s, s # r PROVE Queued(s)'
          <5>1. i # 1
            BY <1>o, <4>2, Zenon
          <5>2. i - 1 \in 1..Len(idequeue') /\ idequeue'[i - 1] = s
            BY <1>q, <4>2, <5>1, Zenon
          <5> QED BY <5>2, Zenon DEF Queued
        <4> QED BY <4>1, <4>2, Zenon DEF Queued
      <3>2. Awaited(s)' <=> Awaited(s) /\ s # r
        BY <1>h, <1>u, Zenon DEF Awaited
      <3> QED BY <3>1, <3>2, Zenon DEF IInv, Queue
    <2> QED BY <2>1, <2>2, Zenon DEF Queue
  <1>5. Flags'
    <2>1. \A s \in Bufs : dirty'[s] => valid'[s]
      BY <1>0, Zenon DEF IInv, Flags
    <2>2. \A s \in Bufs : valid'[s] => blockno[s] \in Blocks /\ data'[s] = latest[blockno[s]]
      BY <1>0, <1>l, <1>r, ZenonT(60) DEF IInv, Flags
    <2>3. ASSUME NEW p \in Procs, pc'[p] = "have" PROVE valid'[b[p]]
      <3>1. pc'[p] # "idle"
        BY <2>3, Zenon
      <3>2. b[p] \in Bufs
        BY <1>h, <3>1, Zenon DEF IInv, Having
      <3> QED BY <1>0, <1>h, <2>3, <3>2, ZenonT(60) DEF IInv, Flags
    <2>4. ASSUME NEW p \in Procs, pc'[p] = "iderw" PROVE ~valid'[b[p]] \/ dirty'[b[p]]
      <3>1. pc[p] = "iderw" /\ pc[p] # "idle" /\ pc[p] # "wait" /\ Holds(p)
        BY <1>h, <2>4, Zenon DEF Holds
      <3>2. b[p] \in Bufs
        BY <3>1, Zenon DEF IInv, Having
      <3>3. PICK q \in Procs : pc[q] = "wait" /\ b[q] = r
        BY <1>r, Zenon
      <3>4. Holds(q) /\ p # q
        BY <3>1, <3>3, Zenon DEF Holds
      <3>5. b[p] # r
        BY <3>1, <3>2, <3>3, <3>4, OneHolder, Zenon DEF IInv
      <3> QED BY <1>0, <3>1, <3>2, <3>5, Zenon DEF IInv, Flags
    <2> QED BY <1>u, <2>1, <2>2, <2>3, <2>4, Zenon DEF Flags
  <1>6. Started'
    BY <1>0, <1>d, <1>n, <1>u, Zenon DEF Started
  <1>7. Kept'
    <2>1. OneBufferPerBlock'
      BY <1>u, Zenon DEF IInv, Kept, OneBufferPerBlock
    <2>2. ASSUME NEW m \in Blocks, disk'[m] # latest[m]
          PROVE  \E s \in Bufs : blockno[s] = m /\ dirty'[s] /\ data'[s] = latest[m]
      <3>1. PICK s \in Bufs : blockno[s] = m /\ dirty[s] /\ data[s] = latest[m]
        BY <1>d, <2>2, Zenon DEF IInv, Kept, PinnedKept
      <3>2. s # r
        BY <1>d, <1>l, <2>2, <3>1, Zenon
      <3> QED BY <1>0, <3>1, <3>2, Zenon
    <2> QED BY <1>u, <2>1, <2>2, Zenon DEF Kept, PinnedKept
  <1>8. NoPanic'
    BY <1>u, Zenon DEF NoPanic
  <1> QED BY <1>1, <1>2, <1>3, <1>4, <1>5, <1>6, <1>7, <1>8, Zenon DEF IInv

-----------------------------------------------------------------------------
(* The theorems *)

LEMMA InitIInv == Init => IInv
  <1> SUFFICES ASSUME Init PROVE IInv
    BY Zenon
  <1> USE DEF Init
  <1>0. /\ \A p \in Procs : pc[p] = "idle" /\ pc[p] # "wait" /\ ~Holds(p)
        /\ \A p \in Procs : pc[p] # "have" /\ pc[p] # "iderw"
    BY Zenon DEF Holds
  <1>1. Typed
    <2>1. lru \in [Bufs -> Bufs] /\ \A i, j \in Bufs : lru[i] = lru[j] => i = j
      BY BioAssumption DEF Bufs
    <2>2. data \in [Bufs -> Values]
      BY BioAssumption, Zenon
    <2>3. /\ idequeue \in Seq(Bufs) /\ panicked \in BOOLEAN
          /\ refcnt = [r \in Bufs |-> 0] /\ refcnt \in [Bufs -> Nat]
      <3>1. <<>> \in Seq(Bufs) /\ 0 \in Nat /\ FALSE \in BOOLEAN
        OBVIOUS
      <3> QED BY <3>1, Zenon
    <2>4. pc \in [Procs -> {"idle", "lock", "iderw", "wait", "have", "put"}]
      BY Zenon
    <2>5. chan \in [Procs -> 0..NBUF] /\ b \in [Procs -> 0..NBUF]
      BY Consts, Zenon
    <2> QED BY <2>1, <2>2, <2>3, <2>4, <2>5, Zenon DEF Typed
  <1>2. Having
    BY <1>0, Zenon DEF Having
  <1>3. Refs
    <2>1. \A r \in Bufs : Users(r) = {}
      BY <1>0, Zenon DEF Users
    <2> QED BY <2>1, FS_EmptySet, Zenon DEF Refs
  <1>4. Owned
    BY <1>0, Zenon DEF Owned
  <1>5. Queue
    <2>1. 1..Len(idequeue) = {}
      OBVIOUS
    <2> QED BY <1>0, <2>1, Zenon DEF Queue, Queued, Awaited
  <1>6. Flags
    BY <1>0, Zenon DEF Flags
  <1>7. Started /\ Kept /\ NoPanic
    BY Consts, Zenon DEF Started, Kept, OneBufferPerBlock, PinnedKept, NoPanic
  <1> QED BY <1>1, <1>2, <1>3, <1>4, <1>5, <1>6, <1>7, ZenonT(60) DEF IInv

\* bget() as a whole.
LEMMA GetStep ==
    ASSUME IInv, ~panicked, NEW p \in Procs, NEW n \in Blocks, bget(p, n)
    PROVE  IInv'
  <1> DEFINE free == {i \in 1..NBUF : Recyclable(lru[i])}
  <1>0. pc[p] = "idle" /\ UNCHANGED <<lkVars, ideVars, latest>>
    BY Zenon DEF bget
  <1>1. CASE \E r \in Cached(n) : Hit(p, r)
    BY <1>0, <1>1, HitStep, Zenon DEF Cached
  <1>2. CASE Cached(n) = {} /\ free # {} /\ Recycle(p, n, lru[Max(free)])
    <2> DEFINE m == Max(free)
    <2>1. m \in free
      BY <1>2, MaxIn, Consts, Zenon
    <2> HIDE DEF m
    <2>2. m \in Bufs /\ Recyclable(lru[m])
      BY <2>1, Consts, Zenon
    <2>3. lru[m] \in Bufs
      BY <2>2, Zenon DEF IInv, Typed
    <2>4. Recycle(p, n, lru[m])
      BY <1>2, Zenon DEF m
    <2> QED BY <1>0, <1>2, <2>2, <2>3, <2>4, RecycleStep, Zenon
  <1>3. CASE /\ Cached(n) = {} /\ free = {} /\ panicked' = TRUE
             /\ UNCHANGED <<bufVars, pc, b>>
    <2>1. \A i \in Bufs : ~Recyclable(lru[i])
      BY <1>3, Consts, Zenon
    <2> QED BY <1>0, <1>3, <2>1, NoBufferStep, Zenon
  <1> QED BY <1>1, <1>2, <1>3, Zenon DEF bget

\* Every step of bread(), bwrite(), log_write(), brelse() and of the driver
\* preserves the invariant.
LEMMA NextIInv == IInv /\ [Next]_vars => IInv'
  <1> SUFFICES ASSUME IInv, [Next]_vars PROVE IInv'
    BY Zenon
  <1>1. ASSUME ~panicked, NEW p \in Procs, Step(p) PROVE IInv'
    <2>1. ASSUME NEW v \in Values, bwrite(p, v) \/ log_write(p, v) PROVE IInv'
      BY <1>1, <2>1, ModifyStep, Zenon DEF bwrite, log_write
    <2> QED BY <1>1, <2>1, GetStep, LockStep, SleepStep, ReleaseStep, PutStep, IderwStep, Zenon
            DEF Step
  <1>2. CASE UNCHANGED vars
    <2>u. UNCHANGED <<blockno, valid, dirty, refcnt, data, lru, locked, pid, chan, idequeue, disk,
                      pc, b, latest, panicked>>
      BY <1>2, Zenon DEF vars, bufVars, lkVars, ideVars
    <2>1. Typed'
      BY <2>u, Zenon DEF IInv, Typed
    <2>2. Having' /\ Owned'
      <3>1. \A q \in Procs : Holds(q)' <=> Holds(q)
        BY <2>u, Zenon DEF Holds
      <3> QED BY <2>u, <3>1, ZenonT(60) DEF IInv, Having, Owned
    <2>3. Queue' /\ Refs'
      BY <2>u, RefsSame, Zenon DEF IInv, Queue, Queued, Awaited
    <2>4. Flags' /\ Started'
      BY <2>u, Zenon DEF IInv, Flags, Started
    <2>5. Kept' /\ NoPanic'
      BY <2>u, Zenon DEF IInv, Kept, OneBufferPerBlock, PinnedKept, NoPanic
    <2> QED BY <2>1, <2>2, <2>3, <2>4, <2>5, Zenon DEF IInv
  <1> QED BY <1>1, <1>2, IntrStep, Zenon DEF Next

\* The invariant holds in every state of the cache.
THEOREM BioInductive == Spec => []IInv
  BY InitIInv, NextIInv, PTL DEF Spec

\* bread() returns what was last written to the block, by whichever process:
\* there is one buffer for a block (bget, bio.c:60), and a buffer that has
\* what the disk lacks is neither recycled nor overwritten.
THEOREM CacheCoherent == Spec => []Coherent
  <1>1. IInv => Coherent
    <2> SUFFICES ASSUME IInv PROVE Coherent
      BY Zenon
    <2>1. OneBufferPerBlock /\ PinnedKept
      BY Zenon DEF IInv, Kept
    <2>2. ReadsLatest
      <3> SUFFICES ASSUME NEW p \in Procs, pc[p] = "have"
                   PROVE  valid[b[p]] /\ data[b[p]] = latest[blockno[b[p]]]
        BY Zenon DEF ReadsLatest
      <3>1. pc[p] # "idle"
        OBVIOUS
      <3> QED BY <3>1, Zenon DEF IInv, Having, Flags
    <2> QED BY <2>1, <2>2, Zenon DEF Coherent
  <1> QED BY <1>1, BioInductive, PTL

\* refcnt counts the processes between bget() and the end of brelse(), the
\* driver's queue has the buffers processes wait for, once each, and the
\* panics of bwrite(), brelse() and iderw() are not reached; bget() panics
\* only when the log has pinned so many buffers that there is not one left
\* for every process.
THEOREM CacheCounted == Spec => []BuffersCounted
  <1>1. IInv => BuffersCounted
    <2> SUFFICES ASSUME IInv PROVE BuffersCounted
      BY Zenon
    <2>t. Typed
      BY Zenon DEF IInv
    <2>1. TypeOK
      <3>1. ASSUME NEW r \in Bufs PROVE refcnt[r] \in 0..Cardinality(Procs)
        <4>1. Users(r) \in SUBSET Procs /\ refcnt[r] = Cardinality(Users(r))
          BY Zenon DEF Users, IInv, Refs
        <4>2. Cardinality(Users(r)) <= Cardinality(Procs) /\ IsFiniteSet(Users(r))
          BY <4>1, Consts, FS_Subset, Zenon
        <4>3. Cardinality(Users(r)) \in Nat /\ Cardinality(Procs) \in Nat
          BY <4>2, Consts, FS_CardinalityType, Zenon
        <4> QED BY <4>1, <4>2, <4>3
      <3>2. refcnt \in [Bufs -> 0..Cardinality(Procs)]
        BY <2>t, <3>1, Zenon DEF Typed
      <3> QED BY <2>t, <3>2, Zenon DEF Typed, TypeOK
    <2>2. RefsCounted
      <3> SUFFICES ASSUME NEW r \in Bufs
                   PROVE  Cardinality({i \in 1..Len(idequeue) : idequeue[i] = r})
                            = Cardinality({p \in Procs : pc[p] = "wait" /\ b[p] = r})
        BY Zenon DEF IInv, Refs, Users, RefsCounted
      <3> DEFINE I == {i \in 1..Len(idequeue) : idequeue[i] = r}
                 W == {p \in Procs : pc[p] = "wait" /\ b[p] = r}
      <3>1. CASE ~Queued(r)
        <4>1. I = {} /\ W = {}
          BY <3>1, ZenonT(60) DEF IInv, Queue, Queued, Awaited
        <4> QED BY <4>1, Zenon
      <3>2. CASE Queued(r)
        <4>1. PICK i \in 1..Len(idequeue) : idequeue[i] = r
          BY <3>2, Zenon DEF Queued
        <4>2. PICK p \in Procs : pc[p] = "wait" /\ b[p] = r
          BY <3>2, Zenon DEF IInv, Queue, Awaited
        <4>3. \A j \in I : j = i
          BY <4>1, Zenon DEF IInv, Queue
        <4>4. \A q \in W : Holds(q) /\ Holds(p) /\ b[q] = r
          BY <4>2, Zenon DEF Holds
        <4>5. \A q \in W : q = p
          BY <4>2, <4>4, OneHolder, Zenon DEF IInv
        <4>6. I = {i} /\ W = {p}
          BY <4>1, <4>2, <4>3, <4>5, Zenon
        <4> QED BY <4>6, FS_Singleton, Zenon
      <3> QED BY <3>1, <3>2, Zenon
    <2> QED BY <2>1, <2>2, Zenon DEF IInv, BuffersCounted
  <1> QED BY <1>1, BioInductive, PTL

-----------------------------------------------------------------------------
(* The buffers' locks and SleepLock's client *)

\* The lock a process acquires and the locks it has, as SL instantiates them.
Wants == [p \in Procs |-> IF pc[p] = "lock" THEN b[p] ELSE 0]

Mine == [p \in Procs |-> IF Holds(p) THEN {b[p]} ELSE {}]

LEMMA OnlyOne ==
    ASSUME NEW p \in Procs, \A q \in Procs \ {p} : pc'[q] = pc[q] /\ b'[q] = b[q]
    PROVE  /\ Wants' = [Wants EXCEPT ![p] = IF pc'[p] = "lock" THEN b'[p] ELSE 0]
           /\ Mine' = [Mine EXCEPT ![p] = IF Holds(p)' THEN {b'[p]} ELSE {}]
  <1>1. \A q \in Procs \ {p} : Holds(q)' <=> Holds(q)
    BY Zenon DEF Holds
  <1>2. Wants' = [Wants EXCEPT ![p] = IF pc'[p] = "lock" THEN b'[p] ELSE 0]
    BY Zenon DEF Wants
  <1>3. Mine' = [Mine EXCEPT ![p] = IF Holds(p)' THEN {b'[p]} ELSE {}]
    BY <1>1, Zenon DEF Mine
  <1> QED BY <1>2, <1>3, Zenon

LEMMA LocksCalm ==
    ASSUME UNCHANGED <<lkVars, b>>,
           \A q \in Procs : pc'[q] # pc[q] =>
               \/ {pc[q], pc'[q]} \subseteq {"have", "iderw", "wait"}
               \/ {pc[q], pc'[q]} \subseteq {"idle", "put"}
    PROVE  UNCHANGED SL!vars
  <1>1. \A q \in Procs : (pc'[q] = "lock" <=> pc[q] = "lock") /\ (Holds(q)' <=> Holds(q))
    BY Zenon DEF Holds
  <1>2. Wants' = Wants /\ Mine' = Mine
    BY <1>1, Zenon DEF Wants, Mine
  <1> QED BY <1>2, Zenon DEF SL!vars, SL!lkVars, lkVars, Wants, Mine

LEMMA LocksStep ==
    ASSUME IInv, NEW p \in Procs, ~panicked, Step(p)
    PROVE  [SL!Next]_(SL!vars)
  <1>0. /\ pc \in [Procs -> {"idle", "lock", "iderw", "wait", "have", "put"}]
        /\ b \in [Procs -> 0..NBUF] /\ lru \in [Bufs -> Bufs]
        /\ \A q \in Procs : pc[q] # "idle" => b[q] \in Bufs
    BY Zenon DEF IInv, Typed, Having
  <1>z. 0 \notin Bufs
    BY DEF Bufs
  <1>v. SL!vars = <<SL!lkVars, Wants, Mine>> /\ SL!lkVars = lkVars
    BY Zenon DEF SL!vars, SL!lkVars, lkVars, Wants, Mine
  <1>1. CASE Lock(p)
    <2>1. /\ pc[p] = "lock" /\ SL!Take(p, b[p]) /\ UNCHANGED b
          /\ \A q \in Procs \ {p} : pc'[q] = pc[q]
          /\ pc'[p] \in {"have", "iderw"}
      BY <1>0, <1>1, Zenon DEF Lock, Goto
    <2>2. pc'[p] # "lock" /\ Holds(p)' /\ ~Holds(p) /\ b[p] # 0
      BY <1>0, <1>z, <2>1, Zenon DEF Holds
    <2>3. Wants[p] = b[p] /\ Mine[p] = {}
      BY <2>1, <2>2, Zenon DEF Wants, Mine
    <2>4. /\ Wants' = [Wants EXCEPT ![p] = IF pc'[p] = "lock" THEN b'[p] ELSE 0]
          /\ Mine' = [Mine EXCEPT ![p] = IF Holds(p)' THEN {b'[p]} ELSE {}]
      BY <2>1, OnlyOne, Zenon
    <2>5. Wants' = [Wants EXCEPT ![p] = 0] /\ Mine' = [Mine EXCEPT ![p] = {b[p]}]
      BY <2>1, <2>2, <2>4, Zenon
    <2>6. Mine' = [Mine EXCEPT ![p] = @ \cup {Wants[p]}]
      <3>1. Mine[p] \cup {Wants[p]} = {b[p]}
        BY <2>3, Zenon
      <3> QED BY <2>5, <3>1, Zenon
    <2>7. Wants[p] # 0 /\ SL!Take(p, Wants[p])
      BY <2>1, <2>2, <2>3, Zenon
    <2>8. SL!Acquire(p)
      BY <2>5, <2>6, <2>7, Zenon DEF SL!Acquire, Wants, Mine
    <2> QED BY <2>8, Zenon DEF SL!Next, SL!Step
  <1>2. CASE LockWait(p)
    <2>1. pc[p] = "lock" /\ SL!Block(p, b[p]) /\ UNCHANGED <<pc, b>>
      BY <1>2, Zenon DEF LockWait
    <2>2. Wants[p] = b[p] /\ b[p] # 0
      BY <1>0, <1>z, <2>1, Zenon DEF Wants
    <2>3. UNCHANGED <<Wants, Mine>>
      BY <2>1, Zenon DEF Wants, Mine, Holds
    <2>4. Wants[p] # 0 /\ SL!Block(p, Wants[p])
      BY <2>1, <2>2, Zenon
    <2>5. SL!Wait(p)
      BY <2>3, <2>4, Zenon DEF SL!Wait, Wants, Mine
    <2> QED BY <2>5, Zenon DEF SL!Next, SL!Step
  <1>3. CASE Killed(p)
    <2>1. SL!WokenByKill(p) /\ UNCHANGED <<pc, b>>
      BY <1>3, Zenon DEF Killed
    <2>2. UNCHANGED <<Wants, Mine>>
      BY <2>1, Zenon DEF Wants, Mine, Holds
    <2>3. SL!Killed(p)
      BY <2>1, <2>2, Zenon DEF SL!Killed, Wants, Mine
    <2> QED BY <2>3, Zenon DEF SL!Next
  <1>4. CASE brelse(p)
    <2>1. /\ pc[p] = "have" /\ pc'[p] = "put" /\ SL!Free(p, b[p]) /\ UNCHANGED b
          /\ \A q \in Procs \ {p} : pc'[q] = pc[q]
      BY <1>0, <1>4, Zenon DEF brelse, Goto
    <2>2. pc[p] # "lock" /\ pc'[p] # "lock" /\ ~Holds(p)' /\ Holds(p) /\ b[p] \in Bufs
      BY <1>0, <2>1, Zenon DEF Holds
    <2>3. Wants[p] = 0 /\ Mine[p] = {b[p]}
      BY <2>2, Zenon DEF Wants, Mine
    <2>4. /\ Wants' = [Wants EXCEPT ![p] = IF pc'[p] = "lock" THEN b'[p] ELSE 0]
          /\ Mine' = [Mine EXCEPT ![p] = IF Holds(p)' THEN {b'[p]} ELSE {}]
      BY <2>1, OnlyOne, Zenon
    <2>5. Wants' = Wants
      BY <2>2, <2>3, <2>4, Zenon DEF Wants
    <2>l. PICK l \in Bufs : l = b[p]
      BY <2>2, Zenon
    <2>6. Mine' = [Mine EXCEPT ![p] = @ \ {l}]
      <3>1. Mine[p] \ {l} = {} /\ Mine' = [Mine EXCEPT ![p] = {}]
        BY <2>2, <2>3, <2>4, <2>l, Zenon
      <3> QED BY <3>1, Zenon
    <2>7. l \in Mine[p] /\ SL!Free(p, l)
      BY <2>1, <2>3, <2>l, Zenon DEF SL!Free
    <2>8. SL!Release(p, l)
      BY <2>3, <2>5, <2>6, <2>7, Zenon DEF SL!Release, Wants, Mine
    <2>9. \E h \in Bufs : SL!Release(p, h)
      BY <2>8, Zenon
    <2> QED BY <2>9, Zenon DEF SL!Next, SL!Step
  <1>5. ASSUME NEW n \in Blocks, bget(p, n) PROVE [SL!Next]_(SL!vars)
    <2> DEFINE free == {i \in 1..NBUF : Recyclable(lru[i])}
    <2>1. pc[p] = "idle" /\ UNCHANGED lkVars
      BY <1>5, Zenon DEF bget
    <2>2. ASSUME NEW r \in Bufs, Goto(p, "lock"), b' = [b EXCEPT ![p] = r]
          PROVE  SL!Next
      <3>1. pc'[p] = "lock" /\ b'[p] = r /\ \A q \in Procs \ {p} : pc'[q] = pc[q] /\ b'[q] = b[q]
        BY <1>0, <2>2, Zenon DEF Goto
      <3>2. pc[p] # "lock" /\ ~Holds(p)' /\ ~Holds(p)
        BY <2>1, <3>1, Zenon DEF Holds
      <3>3. Wants[p] = 0 /\ Mine[p] = {}
        BY <3>2, Zenon DEF Wants, Mine
      <3>4. /\ Wants' = [Wants EXCEPT ![p] = IF pc'[p] = "lock" THEN b'[p] ELSE 0]
            /\ Mine' = [Mine EXCEPT ![p] = IF Holds(p)' THEN {b'[p]} ELSE {}]
        BY <3>1, OnlyOne, Zenon
      <3>5. Wants' = [Wants EXCEPT ![p] = r]
        BY <3>1, <3>4, Zenon
      <3>6. Mine' = Mine
        BY <3>2, <3>3, <3>4, Zenon DEF Mine
      <3>7. SL!Call(p, r)
        <4>1. Wants[p] = 0 /\ \A h \in Mine[p] : h < r
          BY <3>3, Zenon
        <4>2. UNCHANGED <<SL!lkVars, Mine>>
          BY <2>1, <3>6, Zenon DEF SL!lkVars, lkVars
        <4> QED BY <3>5, <4>1, <4>2, Zenon DEF SL!Call, Wants, Mine
      <3> QED BY <3>7, Zenon DEF SL!Next
    <2>3. CASE \E r \in Cached(n) : Hit(p, r)
      BY <2>2, <2>3, Zenon DEF Cached, Hit
    <2>4. CASE Cached(n) = {} /\ free # {} /\ Recycle(p, n, lru[Max(free)])
      <3>1. Max(free) \in free
        BY <2>4, MaxIn, Consts, Zenon
      <3>2. lru[Max(free)] \in Bufs
        BY <1>0, <3>1, Consts, Zenon
      <3>3. Goto(p, "lock") /\ b' = [b EXCEPT ![p] = lru[Max(free)]]
        BY <2>4, Zenon DEF Recycle
      <3> QED BY <2>2, <3>2, <3>3, Zenon
    <2>5. CASE UNCHANGED <<bufVars, pc, b>>
      BY <2>1, <2>5, LocksCalm, Zenon
    <2> QED BY <1>5, <2>3, <2>4, <2>5, Zenon DEF bget
  <1>6. CASE brelsePut(p)
    <2>1. /\ pc[p] = "put" /\ pc'[p] = "idle" /\ UNCHANGED <<lkVars, b>>
          /\ \A q \in Procs \ {p} : pc'[q] = pc[q]
      BY <1>0, <1>6, Zenon DEF brelsePut, Goto
    <2> QED BY <2>1, LocksCalm, Zenon
  <1>7. CASE iderw(p)
    <2>1. /\ pc[p] = "iderw" /\ pc'[p] \in {"iderw", "wait"} /\ UNCHANGED <<lkVars, b>>
          /\ \A q \in Procs \ {p} : pc'[q] = pc[q]
      BY <1>0, <1>7, Zenon DEF iderw, Goto
    <2> QED BY <2>1, LocksCalm, Zenon
  <1>8. ASSUME NEW v \in Values, bwrite(p, v) \/ log_write(p, v) PROVE UNCHANGED SL!vars
    <2>1. UNCHANGED <<lkVars, b>> /\ pc[p] = "have" /\ (Goto(p, "iderw") \/ UNCHANGED pc)
      BY <1>8, Zenon DEF bwrite, log_write, Modify
    <2>2. /\ pc'[p] \in {"have", "iderw"}
          /\ \A q \in Procs \ {p} : pc'[q] = pc[q]
      BY <1>0, <2>1, Zenon DEF Goto
    <2> QED BY <2>1, <2>2, LocksCalm, Zenon
  <1> QED BY <1>1, <1>2, <1>3, <1>4, <1>5, <1>6, <1>7, <1>8, Zenon DEF Step

\* bread(), bwrite() and brelse() use a buffer's lock as any client of
\* sleeplock.c does: one lock at a time, released by its holder.  What
\* SleepLockProofs proves of the locks holds of the buffers'.
THEOREM CacheUsesSleepLocks == Spec => UsesSleepLocks
  <1>1. Init => SL!Init
    <2> SUFFICES ASSUME Init PROVE SL!Init
      BY Zenon
    <2>1. \A p \in Procs : pc[p] # "lock" /\ ~Holds(p)
      BY Zenon DEF Init, Holds
    <2> QED BY <2>1, Zenon DEF Init, SL!Init
  <1>2. IInv /\ [Next]_vars => [SL!Next]_(SL!vars)
    <2> SUFFICES ASSUME IInv, [Next]_vars PROVE [SL!Next]_(SL!vars)
      BY Zenon
    <2>1. CASE ideintr
      <3>1. /\ UNCHANGED <<lkVars, b>>
            /\ \A q \in Procs : pc'[q] # pc[q] => pc[q] = "wait" /\ pc'[q] = "have"
        BY <2>1, Zenon DEF ideintr
      <3> QED BY <3>1, LocksCalm, Zenon
    <2>2. CASE UNCHANGED vars
      <3>1. UNCHANGED <<lkVars, b, pc>>
        BY <2>2, Zenon DEF vars
      <3> QED BY <3>1, LocksCalm, Zenon
    <2> QED BY <2>1, <2>2, LocksStep, Zenon DEF Next
  <1> QED BY <1>1, <1>2, BioInductive, PTL DEF Spec, UsesSleepLocks, SL!Spec
=============================================================================
