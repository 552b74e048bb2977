----------------------------- MODULE LogProofs -----------------------------
(***************************************************************************)
(* What the log keeps, for every number of processes and blocks, every     *)
(* size of the log and every number of crashes.  The inductive invariant   *)
(* says who commits, what the disk has at each block write of commit() and *)
(* of recover_from_log(), and how many blocks the running system calls may *)
(* still append.  Every step keeps what it says of the disk and is a step  *)
(* of AtomicDisk.tla or none; then the counts, and the theorems.           *)
(***************************************************************************)
EXTENDS Log, FiniteSetTheorems, TLAPS


Committer == {"write_log", "write_head", "install", "erase", "commit_done"}
At(l) == \E p \in Procs : pc[p] = l
Logged(b) == \E i \in 1..Len(lh) : lh[i] = b

\* One process at most is in commit(), and nobody is in a system call then.
ControlInv ==
    /\ committing <=> \E p \in Procs : pc[p] \in Committer
    /\ \A p, q \in Procs : pc[p] \in Committer /\ pc[q] \in Committer => p = q
    /\ committing => \A p \in Procs : ~InOp(p)
    /\ boot # "up" => \A p \in Procs : pc[p] = "idle"
    /\ boot = "up" /\ ~committing /\ (\A p \in Procs : ~InOp(p)) => lh = <<>>
    /\ SleepersBlocked

\* The header on disk is empty except between the commit and the erasure.
HeadInv ==
    /\ boot = "up" /\ ~At("install") /\ ~At("erase") => dhead = <<>>
    /\ At("install") \/ boot = "install" => dhead = lh
    /\ At("erase") \/ At("commit_done") \/ boot \in {"read_head", "erase"} => lh = <<>>
    /\ tail # 0 => At("write_log") \/ At("install") \/ boot = "install"
    /\ tail <= Len(lh)

\* A block differs from its home only while it is in the log, and the log
\* blocks written so far are the blocks as the system calls left them.
BlockInv ==
    /\ \A b \in Blocks : boot = "up" /\ ~Logged(b) => cache[b] = home[b]
    /\ boot # "up" => cache = home
    /\ At("write_log") => \A i \in 1..tail : dlog[i] = cache[lh[i]]
    /\ At("write_head") \/ At("install") => \A i \in 1..Len(lh) : dlog[i] = cache[lh[i]]
    /\ At("install") \/ boot = "install" => \A i \in 1..tail : home[lh[i]] = dlog[i]
    /\ At("erase") \/ boot = "erase" =>
           \A i \in 1..Len(dhead) : home[dhead[i]] = dlog[i]

\* The system calls under way, and the blocks they may still add to the log.
Active == {p \in Procs : InOp(p)}
Room == {r \in Procs \X (1..OpBlocks) : InOp(r[1]) /\ r[2] > Cardinality(wrote[r[1]])}

\* outstanding tells whether another system call runs.
Tally ==
    /\ outstanding = 0 => \A p \in Procs : ~InOp(p)
    /\ outstanding # 0 => \E p \in Procs : InOp(p)
    /\ outstanding = 1 => \A p, q \in Procs : InOp(p) /\ InOp(q) => p = q
    /\ outstanding # 1 => \A p \in Procs : InOp(p) => \E q \in Procs : InOp(q) /\ q # p

\* The entries of the log and those that may still come leave two blocks of
\* the log's area free: its header, and one for the strict test of log_write().
CountInv ==
    /\ IsFiniteSet(Active) /\ outstanding = Cardinality(Active) /\ Tally
    /\ IsFiniteSet(Room) /\ Cardinality(Room) \in Nat
    /\ Len(lh) + Cardinality(Room) + 2 <= LOGSIZE
    /\ Len(dhead) + 2 <= LOGSIZE
    /\ \A p \in Procs : /\ IsFiniteSet(wrote[p]) /\ Cardinality(wrote[p]) <= OpBlocks
                        /\ InOp(p) => \A b \in wrote[p] : Logged(b)

\* The types again, header by header.
Header(h) ==
    /\ h \in Seq(Blocks) /\ Len(h) <= LOGSIZE
    /\ \A i, j \in 1..Len(h) : h[i] = h[j] => i = j

Places == {"idle", "begin", "sleep", "op", "log_write"} \cup Committer

TypeInv ==
    /\ home \in [Blocks -> Values] /\ cache \in [Blocks -> Values]
    /\ dlog \in [1..LOGSIZE -> Values] /\ Header(lh) /\ Header(dhead)
    /\ outstanding \in Nat /\ committing \in BOOLEAN /\ panicked \in BOOLEAN
    /\ tail \in Nat /\ pc \in [Procs -> Places] /\ wrote \in [Procs -> SUBSET Blocks]
    /\ boot \in {"read_head", "install", "erase", "up"}

\* What the steps on the disk need and keep, apart from the counting.
DiskInv == TypeInv /\ ~panicked /\ ControlInv /\ HeadInv /\ BlockInv

IInv == DiskInv /\ CountInv

-----------------------------------------------------------------------------
\* A step that moves nobody into, within or out of commit().
LEMMA SamePhase ==
    ASSUME \A q \in Procs : pc[q] \in Committer \/ pc'[q] \in Committer => pc'[q] = pc[q]
    PROVE  /\ At("write_log")' <=> At("write_log") 
           /\ At("write_head")' <=> At("write_head")
           /\ At("install")' <=> At("install") 
           /\ At("erase")' <=> At("erase")
           /\ At("commit_done")' <=> At("commit_done")
           /\ (\E q \in Procs : pc'[q] \in Committer) <=> \E q \in Procs : pc[q] \in Committer
  BY Zenon DEF At, Committer

\* A step that leaves the disk, the cache and the log alone.
LEMMA DiskKept ==
    ASSUME HeadInv, BlockInv, UNCHANGED <<disk, cache, lh, tail, boot>>,
           \A q \in Procs : pc[q] \in Committer \/ pc'[q] \in Committer => pc'[q] = pc[q]
    PROVE  HeadInv' /\ BlockInv'
  <1>1. HeadInv'
    BY SamePhase, Zenon DEF HeadInv, disk
  <1>2. BlockInv'
    BY SamePhase, Zenon DEF BlockInv, Logged, disk
  <1> QED BY <1>1, <1>2, Zenon

\* The process in commit() is at one place.
LEMMA OnePhase ==
    ASSUME ControlInv, NEW p \in Procs, pc[p] \in Committer
    PROVE  /\ At("write_log") <=> pc[p] = "write_log"
           /\ At("write_head") <=> pc[p] = "write_head"
           /\ At("install") <=> pc[p] = "install"
           /\ At("erase") <=> pc[p] = "erase"
           /\ At("commit_done") <=> pc[p] = "commit_done"
           /\ committing /\ boot = "up"
           /\ \A q \in Procs : q # p => pc[q] \notin Committer
  BY Zenon DEF ControlInv, At, Committer
-----------------------------------------------------------------------------
(* begin_op(), log_write(), end_op() *)

LEMMA SyscallStep ==
    ASSUME DiskInv, NEW p \in Procs, Syscall(p)
    PROVE  DiskInv'
  <1>1. /\ pc[p] = "idle" /\ pc'[p] = "begin" /\ \A q \in Procs : q # p => pc'[q] = pc[q]
        /\ pc' \in [Procs -> Places]
        /\ UNCHANGED <<disk, cache, logVars, wrote, tail, boot, panicked>>
        /\ boot = "up"
    BY Zenon DEF Syscall, Runs, Goto, DiskInv, TypeInv, Places
  <1>2. \A q \in Procs : pc[q] \in Committer \/ pc'[q] \in Committer => pc'[q] = pc[q]
    BY <1>1, Zenon DEF Committer
  <1>3. \A q \in Procs : InOp(q)' <=> InOp(q)
    BY <1>1, Zenon DEF InOp
  <1>4. SleepersBlocked'
    BY <1>1, <1>3, Zenon DEF DiskInv, ControlInv, SleepersBlocked, MustWait, logVars
  <1>5. ControlInv'
    BY <1>1, <1>2, <1>3, <1>4, SamePhase, Zenon DEF DiskInv, ControlInv, logVars
  <1>6. TypeInv' /\ ~panicked'
    BY <1>1 DEF DiskInv, TypeInv, Header, disk, logVars
  <1>7. HeadInv' /\ BlockInv'
    BY <1>1, <1>2, DiskKept, Zenon DEF DiskInv, logVars
  <1> QED BY <1>5, <1>6, <1>7, Zenon DEF DiskInv

\* A system call begins only while nobody sleeps or commits.
LEMMA BeginOpStep ==
    ASSUME DiskInv, NEW p \in Procs, BeginOp(p)
    PROVE  DiskInv'
  <1>1. /\ pc[p] = "begin" /\ pc'[p] = "op" /\ \A q \in Procs : q # p => pc'[q] = pc[q]
        /\ pc' \in [Procs -> Places] /\ wrote' \in [Procs -> SUBSET Blocks]
        /\ outstanding' \in Nat /\ ~MustWait /\ ~committing
        /\ UNCHANGED <<disk, cache, lh, committing, tail, boot, panicked>>
        /\ boot = "up" /\ ~panicked
    BY DEF BeginOp, Runs, Goto, MustWait, DiskInv, TypeInv, Places
  <1>2. \A q \in Procs : pc[q] \in Committer \/ pc'[q] \in Committer => pc'[q] = pc[q]
    BY <1>1, Zenon DEF Committer
  <1>3. \A q \in Procs : pc[q] # "sleep" /\ pc'[q] # "sleep"
    BY <1>1, Zenon DEF DiskInv, ControlInv, SleepersBlocked
  <1>4. InOp(p)'
    BY <1>1, Zenon DEF InOp
  <1>5. ControlInv'
    BY <1>1, <1>2, <1>3, <1>4, SamePhase, Zenon DEF DiskInv, ControlInv, SleepersBlocked
  <1>6. TypeInv' /\ ~panicked'
    BY <1>1 DEF DiskInv, TypeInv, Header, disk
  <1>7. HeadInv' /\ BlockInv'
    BY <1>1, <1>2, DiskKept, Zenon DEF DiskInv
  <1> QED BY <1>5, <1>6, <1>7, Zenon DEF DiskInv

\* A process that has to wait finds a commit or a system call under way: the
\* log is empty otherwise, and has room for one.
LEMMA BeginSleepStep ==
    ASSUME DiskInv, Tally, NEW p \in Procs, BeginSleep(p)
    PROVE  DiskInv'
  <1>1. /\ pc[p] = "begin" /\ pc'[p] = "sleep" /\ \A q \in Procs : q # p => pc'[q] = pc[q]
        /\ pc' \in [Procs -> Places] /\ MustWait
        /\ UNCHANGED <<disk, cache, logVars, wrote, tail, boot, panicked>>
        /\ boot = "up"
    BY Zenon DEF BeginSleep, Runs, Goto, DiskInv, TypeInv, Places
  <1>2. \A q \in Procs : pc[q] \in Committer \/ pc'[q] \in Committer => pc'[q] = pc[q]
    BY <1>1, Zenon DEF Committer
  <1>3. \A q \in Procs : InOp(q)' <=> InOp(q)
    BY <1>1, Zenon DEF InOp
  <1>4. committing \/ \E q \in Procs : InOp(q)
    <2> SUFFICES ASSUME ~committing, \A q \in Procs : ~InOp(q) PROVE FALSE
      OBVIOUS
    <2>1. lh = <<>> /\ outstanding = 0
      BY <1>1, Zenon DEF DiskInv, ControlInv, Tally
    <2>2. Len(lh) + (outstanding + 1) * MAXOPBLOCKS = MAXOPBLOCKS
      BY <2>1, LogAssumption
    <2> QED BY <1>1, <2>2, LogAssumption DEF MustWait
  <1>5. MustWait'
    BY <1>1, Zenon DEF MustWait, logVars
  <1>6. SleepersBlocked'
    BY <1>1, <1>3, <1>4, <1>5, Zenon DEF SleepersBlocked, logVars
  <1>7. ControlInv'
    BY <1>1, <1>2, <1>3, <1>6, SamePhase, Zenon DEF DiskInv, ControlInv, logVars
  <1>8. TypeInv' /\ ~panicked'
    BY <1>1 DEF DiskInv, TypeInv, Header, disk, logVars
  <1>9. HeadInv' /\ BlockInv'
    BY <1>1, <1>2, DiskKept, Zenon DEF DiskInv, logVars
  <1> QED BY <1>7, <1>8, <1>9, Zenon DEF DiskInv

\* log_write() never panics: the log keeps two blocks free.
LEMMA LogCheckStep ==
    ASSUME DiskInv, CountInv, NEW p \in Procs, LogCheck(p)
    PROVE  DiskInv'
  <1>0. Len(lh) + 2 <= LOGSIZE /\ Len(lh) \in Nat
    BY LogAssumption, SMTT(40) DEF CountInv, DiskInv, TypeInv, Header
  <1>00. InOp(p) /\ outstanding # 0 /\ outstanding \in Nat
    BY Zenon DEF LogCheck, Runs, InOp, CountInv, Tally, DiskInv, TypeInv
  <1>01. ~(Len(lh) >= LOGSIZE \/ Len(lh) >= size - 1 \/ outstanding < 1)
    BY <1>0, <1>00, LogAssumption DEF size
  <1>1. /\ pc[p] = "op" /\ pc'[p] = "log_write" /\ \A q \in Procs : q # p => pc'[q] = pc[q]
        /\ pc' \in [Procs -> Places]
        /\ UNCHANGED <<disk, cache, logVars, wrote, tail, boot, panicked>>
        /\ boot = "up"
    BY <1>01, Zenon DEF LogCheck, Runs, Goto, DiskInv, TypeInv, Places
  <1>2. \A q \in Procs : pc[q] \in Committer \/ pc'[q] \in Committer => pc'[q] = pc[q]
    BY <1>1, Zenon DEF Committer
  <1>3. \A q \in Procs : InOp(q)' <=> InOp(q)
    BY <1>1, Zenon DEF InOp
  <1>4. SleepersBlocked'
    BY <1>1, <1>3, Zenon DEF DiskInv, ControlInv, SleepersBlocked, MustWait, logVars
  <1>5. ControlInv'
    BY <1>1, <1>2, <1>3, <1>4, SamePhase, Zenon DEF DiskInv, ControlInv, logVars
  <1>6. TypeInv' /\ ~panicked'
    BY <1>1 DEF DiskInv, TypeInv, Header, disk, logVars
  <1>7. HeadInv' /\ BlockInv'
    BY <1>1, <1>2, DiskKept, Zenon DEF DiskInv, logVars
  <1> QED BY <1>5, <1>6, <1>7, Zenon DEF DiskInv

\* log_write() appends a block that the log does not have.
LEMMA AppendHeader ==
    ASSUME NEW h, Header(h), NEW b \in Blocks, Len(h) < LOGSIZE, LOGSIZE \in Nat,
           \A i \in 1..Len(h) : h[i] # b
    PROVE  /\ Header(Append(h, b)) /\ Len(Append(h, b)) = Len(h) + 1
           /\ Append(h, b)[Len(h) + 1] = b
           /\ \A i \in 1..Len(h) : Append(h, b)[i] = h[i]
  BY DEF Header

\* Nobody commits while a system call runs.
LEMMA NoCommit ==
    ASSUME DiskInv, NEW p \in Procs, InOp(p), boot = "up"
    PROVE  /\ ~committing /\ \A q \in Procs : pc[q] \notin Committer
           /\ ~At("write_log") /\ ~At("write_head") /\ ~At("install")
           /\ ~At("erase") /\ ~At("commit_done")
           /\ tail = 0 /\ dhead = <<>>
  <1>1. ~committing /\ \A q \in Procs : pc[q] \notin Committer
    BY Zenon DEF DiskInv, ControlInv
  <1>2. /\ ~At("write_log") /\ ~At("write_head") /\ ~At("install")
        /\ ~At("erase") /\ ~At("commit_done")
    BY <1>1, Zenon DEF At, Committer
  <1> QED BY <1>1, <1>2, Zenon DEF DiskInv, HeadInv

LEMMA LogAppendStep ==
    ASSUME DiskInv, CountInv, NEW p \in Procs, NEW b \in Blocks, NEW v \in Values,
           LogAppend(p, b, v)
    PROVE  /\ DiskInv'
           /\ Logged(b) => lh' = lh
           /\ ~Logged(b) => Len(lh') = Len(lh) + 1
           /\ \A c : Logged(c)' <=> Logged(c) \/ c = b
  <1>1. /\ pc[p] = "log_write" /\ pc'[p] = "op" /\ \A q \in Procs : q # p => pc'[q] = pc[q]
        /\ pc' \in [Procs -> Places] /\ boot = "up"
        /\ UNCHANGED <<disk, outstanding, committing, tail, boot, panicked>>
        /\ wrote' \in [Procs -> SUBSET Blocks]
        /\ cache' \in [Blocks -> Values] /\ \A c \in Blocks : c # b => cache'[c] = cache[c]
    BY Zenon DEF LogAppend, Runs, Goto, DiskInv, TypeInv, Places
  <1>2. InOp(p) /\ InOp(p)' /\ \A q \in Procs : InOp(q)' <=> InOp(q)
    BY <1>1, Zenon DEF InOp
  <1>3. Len(lh) < LOGSIZE /\ Len(lh) \in Nat /\ LOGSIZE \in Nat
    BY LogAssumption, SMTT(40) DEF CountInv, DiskInv, TypeInv, Header
  <1>4. /\ Header(lh') /\ Len(lh') \in Nat /\ Len(lh') >= Len(lh)
        /\ Logged(b) => lh' = lh
        /\ ~Logged(b) => Len(lh') = Len(lh) + 1
        /\ \A c : Logged(c)' <=> Logged(c) \/ c = b
    <2>1. CASE Logged(b)
      <3>1. lh' = lh
        BY <2>1, Zenon DEF LogAppend, Logged
      <3> QED BY <2>1, <3>1, <1>3 DEF DiskInv, TypeInv, Logged
    <2>2. CASE ~Logged(b)
      <3>1. lh' = Append(lh, b)
        BY <2>2, Zenon DEF LogAppend, Logged
      <3>2. /\ Header(lh') /\ Len(lh') = Len(lh) + 1 /\ lh'[Len(lh) + 1] = b
            /\ \A i \in 1..Len(lh) : lh'[i] = lh[i]
        BY <2>2, <3>1, <1>3, AppendHeader, Zenon DEF DiskInv, TypeInv, Logged
      <3>3. ASSUME NEW c PROVE Logged(c)' <=> Logged(c) \/ c = b
        <4>1. Logged(c)' => Logged(c) \/ c = b
          BY <3>2, <1>3 DEF Logged
        <4>2. c = b => Logged(c)'
          BY <3>2, <1>3 DEF Logged
        <4>3. Logged(c) => Logged(c)'
          BY <3>2, <1>3 DEF Logged
        <4> QED BY <4>1, <4>2, <4>3, Zenon
      <3> QED BY <2>2, <3>2, <3>3, <1>3, SMTT(40)
    <2> QED BY <2>1, <2>2, Zenon
  <1>5. /\ ~committing /\ \A q \in Procs : pc[q] \notin Committer
        /\ ~At("write_log") /\ ~At("write_head") /\ ~At("install")
        /\ ~At("erase") /\ ~At("commit_done")
        /\ tail = 0 /\ dhead = <<>>
    BY <1>1, <1>2, NoCommit, Zenon
  <1>6. \A q \in Procs : pc[q] \in Committer \/ pc'[q] \in Committer => pc'[q] = pc[q]
    BY <1>1, Zenon DEF Committer
  <1>7. ASSUME NEW q \in Procs, pc'[q] = "sleep"
        PROVE  MustWait'
    <2>1. MustWait
      BY <1>1, <1>7, Zenon DEF DiskInv, ControlInv, SleepersBlocked
    <2>2. (outstanding + 1) * MAXOPBLOCKS \in Int
      BY LogAssumption DEF DiskInv, TypeInv
    <2>3. (outstanding' + 1) * MAXOPBLOCKS = (outstanding + 1) * MAXOPBLOCKS
      BY <1>1, Zenon
    <2> QED BY <2>1, <2>2, <2>3, <1>1, <1>3, <1>4, <1>5, SMTT(40) DEF MustWait
  <1>8. ControlInv'
    <2>1. SleepersBlocked'
      BY <1>2, <1>7, Zenon DEF SleepersBlocked
    <2> QED BY <1>1, <1>2, <1>6, <2>1, SamePhase, Zenon DEF DiskInv, ControlInv
  <1>9. TypeInv' /\ ~panicked'
    BY <1>1, <1>4 DEF DiskInv, TypeInv, disk, Header
  <1>10. HeadInv'
    BY <1>1, <1>3, <1>4, <1>5, <1>6, SamePhase, SMTT(40) DEF HeadInv, disk
  <1>11. BlockInv'
    BY <1>1, <1>4, <1>5, <1>6, SamePhase, SMTT(40) DEF DiskInv, BlockInv, disk
  <1> QED BY <1>4, <1>8, <1>9, <1>10, <1>11, Zenon DEF DiskInv

\* The last system call to end commits; another one finds nobody asleep.
LEMMA EndOpStep ==
    ASSUME DiskInv, Tally, NEW p \in Procs, EndOp(p)
    PROVE  DiskInv'
  <1>1. /\ pc[p] = "op" /\ pc' \in [Procs -> Places] /\ boot = "up"
        /\ UNCHANGED <<disk, cache, lh, wrote, tail, boot>>
        /\ committing' \in BOOLEAN /\ outstanding \in Nat
    BY Zenon DEF EndOp, Runs, Goto, WakeupGoto, DiskInv, TypeInv, Places, Committer
  <1>2. InOp(p)
    BY <1>1, Zenon DEF InOp
  <1>3. /\ ~committing /\ \A q \in Procs : pc[q] \notin Committer
        /\ ~At("write_log") /\ ~At("write_head") /\ ~At("install")
        /\ ~At("erase") /\ ~At("commit_done")
        /\ tail = 0 /\ dhead = <<>>
    BY <1>1, <1>2, NoCommit, Zenon
  <1>4. outstanding' \in Nat
    <2>1. outstanding # 0
      BY <1>2, Zenon DEF Tally
    <2>2. outstanding' = outstanding - 1
      BY Zenon DEF EndOp
    <2> QED BY <1>1, <2>1, <2>2
  <1>5. TypeInv' /\ ~panicked'
    BY <1>1, <1>3, <1>4 DEF EndOp, DiskInv, TypeInv, disk, Header
  <1>6. CASE outstanding = 1
    <2>1. /\ committing' /\ pc'[p] = (IF lh = <<>> THEN "commit_done" ELSE "write_log")
          /\ \A q \in Procs : q # p => pc'[q] = pc[q] /\ ~InOp(q)
      BY <1>2, <1>6, Zenon DEF EndOp, Goto, DiskInv, TypeInv, Tally
    <2>2. \A q \in Procs : ~InOp(q)' /\ (pc'[q] \in Committer <=> q = p)
      BY <2>1, <1>3, Zenon DEF InOp, Committer
    <2>3. ControlInv'
      BY <1>1, <2>1, <2>2, Zenon DEF ControlInv, SleepersBlocked, MustWait
    <2>4. /\ ~At("write_head")' /\ ~At("install")' /\ ~At("erase")'
          /\ At("commit_done")' => lh = <<>>
      BY <2>1, <2>2, Zenon DEF At, Committer
    <2>5. HeadInv'
      BY <1>1, <1>3, <2>4, Zenon DEF DiskInv, HeadInv, disk
    <2>6. BlockInv'
      BY <1>1, <1>3, <2>4 DEF DiskInv, BlockInv, disk, Logged
    <2> QED BY <1>5, <2>3, <2>5, <2>6, Zenon DEF DiskInv
  <1>7. CASE outstanding # 1
    <2>1. /\ UNCHANGED committing /\ pc'[p] = "idle"
          /\ \A q \in Procs : q # p => pc'[q] = IF pc[q] = "sleep" THEN "begin" ELSE pc[q]
      BY <1>7, Zenon DEF EndOp, WakeupGoto
    <2>2. PICK r \in Procs : InOp(r) /\ r # p
      BY <1>2, <1>7, Zenon DEF Tally
    <2>3. InOp(r)'
      BY <2>1, <2>2, Zenon DEF InOp
    <2>4. \A q \in Procs : pc'[q] # "sleep" /\ pc'[q] \notin Committer
      BY <1>3, <2>1, Zenon DEF Committer
    <2>5. ControlInv'
      BY <1>1, <1>3, <2>1, <2>3, <2>4, Zenon DEF ControlInv, SleepersBlocked
    <2>6. HeadInv' /\ BlockInv'
      BY <1>1, <1>3, <2>4, DiskKept, Zenon DEF DiskInv
    <2> QED BY <1>5, <2>5, <2>6, Zenon DEF DiskInv
  <1> QED BY <1>6, <1>7, Zenon

-----------------------------------------------------------------------------
(* commit() *)

\* A step from one place of commit() to another.
LEMMA CommitMove ==
    ASSUME DiskInv, NEW p \in Procs, pc[p] \in Committer, boot = "up",
           NEW l \in Committer, pc' = [pc EXCEPT ![p] = l],
           UNCHANGED <<committing, boot, panicked>>
    PROVE  /\ ControlInv' /\ pc' \in [Procs -> Places]
           /\ At("write_log")' <=> l = "write_log"
           /\ At("write_head")' <=> l = "write_head"
           /\ At("install")' <=> l = "install"
           /\ At("erase")' <=> l = "erase"
           /\ At("commit_done")' <=> l = "commit_done"
  <1>1. /\ pc'[p] = l /\ \A q \in Procs : q # p => pc'[q] = pc[q]
        /\ pc' \in [Procs -> Places]
    BY Zenon DEF DiskInv, TypeInv, Places
  <1>2. committing /\ \A q \in Procs : q # p => pc[q] \notin Committer
    BY OnePhase, Zenon DEF DiskInv
  <1>3. \A q \in Procs : ~InOp(q)'
    <2>1. \A q \in Procs : ~InOp(q)
      BY <1>2, Zenon DEF DiskInv, ControlInv
    <2> QED BY <1>1, <2>1, Zenon DEF InOp, Committer
  <1>4. ControlInv'
    BY <1>1, <1>2, <1>3, Zenon DEF ControlInv, SleepersBlocked, MustWait
  <1> QED BY <1>1, <1>2, <1>4, Zenon DEF At, Committer

LEMMA WriteLogStep ==
    ASSUME DiskInv, NEW p \in Procs, WriteLog(p)
    PROVE  DiskInv'
  <1>1. /\ pc[p] = "write_log" /\ pc[p] \in Committer /\ boot = "up"
        /\ UNCHANGED <<home, dhead, cache, logVars, wrote, boot, panicked>>
    BY Zenon DEF WriteLog, Runs, Committer
  <1>2. /\ At("write_log") /\ ~At("write_head") /\ ~At("install")
        /\ ~At("erase") /\ ~At("commit_done")
    BY <1>1, OnePhase, Zenon DEF DiskInv
  <1>3. Len(lh) \in Nat /\ Len(lh) <= LOGSIZE /\ tail \in Nat /\ tail <= Len(lh)
    BY DEF DiskInv, TypeInv, Header, HeadInv
  <1>4. CASE tail < Len(lh)
    <2>1. /\ dlog' = [dlog EXCEPT ![tail + 1] = cache[lh[tail + 1]]]
          /\ tail' = tail + 1 /\ UNCHANGED pc
      BY <1>4, Zenon DEF WriteLog
    <2>2. tail + 1 \in 1..Len(lh) /\ tail + 1 \in 1..LOGSIZE
      BY <1>3, <1>4, LogAssumption, SMTT(40)
    <2>3. lh[tail + 1] \in Blocks
      BY <2>2 DEF DiskInv, TypeInv, Header
    <2>4. /\ dlog' \in [1..LOGSIZE -> Values] /\ dlog'[tail + 1] = cache[lh[tail + 1]]
          /\ \A i \in 1..LOGSIZE : i # tail + 1 => dlog'[i] = dlog[i]
      BY <2>1, <2>2, <2>3, ZenonT(60) DEF DiskInv, TypeInv
    <2>5. TypeInv' /\ ~panicked'
      BY <1>1, <1>3, <2>1, <2>4, SMTT(40) DEF DiskInv, TypeInv, Header, logVars
    <2>6. ControlInv'
      BY <1>1, <2>1, Zenon DEF DiskInv, ControlInv, SleepersBlocked, MustWait, InOp, logVars
    <2>7. /\ At("write_log")' /\ ~At("write_head")' /\ ~At("install")'
          /\ ~At("erase")' /\ ~At("commit_done")'
      BY <1>2, <2>1, Zenon DEF At
    <2>8. HeadInv'
      BY <1>1, <1>2, <1>3, <1>4, <2>1, <2>7, SMTT(40) DEF DiskInv, HeadInv, logVars
    <2>9. \A i \in 1..tail' : dlog'[i] = cache[lh[i]]
      BY <1>1, <1>2, <1>3, <2>1, <2>2, <2>4, SMTT(40) DEF DiskInv, BlockInv
    <2>10. BlockInv'
      BY <1>1, <2>7, <2>9, Zenon DEF DiskInv, BlockInv, Logged, logVars
    <2> QED BY <2>5, <2>6, <2>8, <2>10, Zenon DEF DiskInv
  <1>5. CASE ~(tail < Len(lh))
    <2>1. tail' = 0 /\ pc' = [pc EXCEPT ![p] = "write_head"] /\ UNCHANGED dlog
      BY <1>5, Zenon DEF WriteLog, Goto
    <2>2. /\ ControlInv' /\ pc' \in [Procs -> Places]
          /\ ~At("write_log")' /\ At("write_head")' /\ ~At("install")'
          /\ ~At("erase")' /\ ~At("commit_done")'
      BY <1>1, <2>1, CommitMove, Zenon DEF Committer, logVars
    <2>3. TypeInv' /\ ~panicked'
      BY <1>1, <2>1, <2>2, SMTT(40) DEF DiskInv, TypeInv, Header, logVars
    <2>4. HeadInv'
      BY <1>1, <1>2, <1>3, <2>1, <2>2, SMTT(40) DEF DiskInv, HeadInv, logVars
    <2>5. tail = Len(lh)
      BY <1>3, <1>5
    <2>6. BlockInv'
      BY <1>1, <1>2, <2>1, <2>2, <2>5, Zenon DEF DiskInv, BlockInv, Logged, logVars
    <2> QED BY <2>2, <2>3, <2>4, <2>6, Zenon DEF DiskInv
  <1> QED BY <1>4, <1>5, Zenon

LEMMA WriteHeadStep ==
    ASSUME DiskInv, NEW p \in Procs, WriteHead(p)
    PROVE  DiskInv'
  <1>1. /\ pc[p] = "write_head" /\ pc[p] \in Committer /\ boot = "up"
        /\ UNCHANGED <<home, dlog, cache, logVars, wrote, tail, boot, panicked>>
        /\ dhead' = lh /\ pc' = [pc EXCEPT ![p] = "install"]
    BY Zenon DEF WriteHead, Runs, Goto, Committer
  <1>2. /\ ~At("write_log") /\ At("write_head") /\ ~At("install")
        /\ ~At("erase") /\ ~At("commit_done")
    BY <1>1, OnePhase, Zenon DEF DiskInv
  <1>3. /\ ControlInv' /\ pc' \in [Procs -> Places]
        /\ ~At("write_log")' /\ ~At("write_head")' /\ At("install")'
        /\ ~At("erase")' /\ ~At("commit_done")'
    BY <1>1, CommitMove, Zenon DEF Committer, logVars
  <1>4. TypeInv' /\ ~panicked'
    BY <1>1, <1>3 DEF DiskInv, TypeInv, Header, logVars
  <1>5. tail = 0
    BY <1>1, <1>2, Zenon DEF DiskInv, HeadInv
  <1>6. HeadInv'
    BY <1>1, <1>3, <1>5, ZenonT(60) DEF DiskInv, HeadInv, logVars
  <1>7. BlockInv'
    BY <1>1, <1>2, <1>3, <1>5, SMTT(40) DEF DiskInv, BlockInv, Logged, logVars
  <1> QED BY <1>3, <1>4, <1>6, <1>7, Zenon DEF DiskInv

\* install_trans() copies one block of the log to its home.
LEMMA InstallBlock ==
    ASSUME DiskInv, tail < Len(lh), tail' = tail + 1, UNCHANGED <<dlog, lh>>,
           home' = [home EXCEPT ![lh[tail + 1]] = dlog[tail + 1]],
           cache' = [cache EXCEPT ![lh[tail + 1]] = dlog[tail + 1]],
           \A i \in 1..tail : home[lh[i]] = dlog[i]
    PROVE  /\ home' \in [Blocks -> Values] /\ cache' \in [Blocks -> Values]
           /\ tail' \in Nat /\ tail' <= Len(lh)
           /\ \A i \in 1..tail' : home'[lh[i]] = dlog[i]
           /\ \A b \in Blocks : cache[b] = home[b] => cache'[b] = home'[b]
           /\ lh[tail + 1] \in Blocks /\ tail + 1 \in 1..Len(lh)
           /\ \A b \in Blocks : b # lh[tail + 1] => cache'[b] = cache[b] /\ home'[b] = home[b]
           /\ cache'[lh[tail + 1]] = dlog[tail + 1] /\ home'[lh[tail + 1]] = dlog[tail + 1]
  <1>1. /\ Len(lh) \in Nat /\ Len(lh) <= LOGSIZE /\ tail \in Nat
        /\ home \in [Blocks -> Values] /\ cache \in [Blocks -> Values]
        /\ dlog \in [1..LOGSIZE -> Values]
        /\ \A i \in 1..Len(lh) : lh[i] \in Blocks
        /\ \A i, j \in 1..Len(lh) : lh[i] = lh[j] => i = j
    BY DEF DiskInv, TypeInv, Header
  <1>2. tail + 1 \in 1..Len(lh) /\ tail + 1 \in 1..LOGSIZE
    BY <1>1, LogAssumption
  <1>3. lh[tail + 1] \in Blocks /\ dlog[tail + 1] \in Values
    BY <1>1, <1>2, Zenon
  <1>4. /\ home' \in [Blocks -> Values] /\ cache' \in [Blocks -> Values]
        /\ home'[lh[tail + 1]] = dlog[tail + 1] /\ cache'[lh[tail + 1]] = dlog[tail + 1]
        /\ \A b \in Blocks : b # lh[tail + 1] => home'[b] = home[b] /\ cache'[b] = cache[b]
    BY <1>1, <1>3, Zenon
  <1>5. \A i \in 1..tail : i \in 1..Len(lh) /\ i # tail + 1
    BY <1>1
  <1>6. \A i \in 1..tail : lh[i] \in Blocks /\ lh[i] # lh[tail + 1]
    BY <1>1, <1>2, <1>5, Zenon
  <1>7. \A i \in 1..tail' : i \in 1..tail \/ i = tail + 1
    BY <1>1
  <1>8. \A i \in 1..tail' : home'[lh[i]] = dlog[i]
    BY <1>4, <1>6, <1>7, SMTT(40)
  <1>9. tail' \in Nat /\ tail' <= Len(lh)
    BY <1>1, SMTT(40)
  <1> QED BY <1>2, <1>3, <1>4, <1>8, <1>9, Zenon

LEMMA InstallTransStep ==
    ASSUME DiskInv, NEW p \in Procs, InstallTrans(p)
    PROVE  DiskInv'
  <1>1. /\ pc[p] = "install" /\ pc[p] \in Committer /\ boot = "up"
        /\ UNCHANGED <<dlog, dhead, outstanding, committing, wrote, boot, panicked>>
    BY Zenon DEF InstallTrans, Runs, Committer
  <1>2. /\ ~At("write_log") /\ ~At("write_head") /\ At("install")
        /\ ~At("erase") /\ ~At("commit_done")
    BY <1>1, OnePhase, Zenon DEF DiskInv
  <1>3. /\ Len(lh) \in Nat /\ tail \in Nat /\ tail <= Len(lh) /\ dhead = lh
        /\ \A i \in 1..tail : home[lh[i]] = dlog[i]
        /\ \A i \in 1..Len(lh) : dlog[i] = cache[lh[i]]
    BY <1>2, SMTT(40) DEF DiskInv, TypeInv, Header, HeadInv, BlockInv
  <1>4. CASE tail < Len(lh)
    <2>1. /\ home' = [home EXCEPT ![lh[tail + 1]] = dlog[tail + 1]]
          /\ cache' = [cache EXCEPT ![lh[tail + 1]] = dlog[tail + 1]]
          /\ tail' = tail + 1 /\ UNCHANGED <<pc, lh>>
      BY <1>4, Zenon DEF InstallTrans
    <2>2. /\ home' \in [Blocks -> Values] /\ cache' \in [Blocks -> Values]
          /\ tail' \in Nat /\ tail' <= Len(lh)
          /\ \A i \in 1..tail' : home'[lh[i]] = dlog[i]
          /\ \A b \in Blocks : cache[b] = home[b] => cache'[b] = home'[b]
          /\ lh[tail + 1] \in Blocks /\ tail + 1 \in 1..Len(lh)
          /\ \A b \in Blocks : b # lh[tail + 1] => cache'[b] = cache[b]
          /\ cache'[lh[tail + 1]] = dlog[tail + 1]
      BY <1>1, <1>3, <1>4, <2>1, InstallBlock, ZenonT(60)
    <2>3. TypeInv' /\ ~panicked'
      BY <1>1, <2>1, <2>2, SMTT(40) DEF DiskInv, TypeInv, Header
    <2>4. ControlInv'
      BY <1>1, <2>1, Zenon DEF DiskInv, ControlInv, SleepersBlocked, MustWait, InOp
    <2>5. /\ ~At("write_log")' /\ ~At("write_head")' /\ At("install")'
          /\ ~At("erase")' /\ ~At("commit_done")'
      BY <1>2, <2>1, Zenon DEF At
    <2>6. HeadInv'
      BY <1>1, <1>3, <2>1, <2>2, <2>5, Zenon DEF HeadInv
    <2>7. \A i \in 1..Len(lh) : lh[i] \in Blocks
      BY DEF DiskInv, TypeInv, Header
    <2>8. \A b \in Blocks : cache'[b] = cache[b]
      BY <1>3, <2>2
    <2>9. \A i \in 1..Len(lh) : dlog[i] = cache'[lh[i]]
      BY <1>3, <2>7, <2>8, Zenon
    <2>10. \A b \in Blocks : ~Logged(b) => cache'[b] = home'[b]
      BY <1>1, <2>2, Zenon DEF DiskInv, BlockInv
    <2>11. BlockInv'
      BY <1>1, <2>1, <2>2, <2>5, <2>9, <2>10, SMTT(40) DEF BlockInv, Logged
    <2> QED BY <2>3, <2>4, <2>6, <2>11, Zenon DEF DiskInv
  <1>5. CASE ~(tail < Len(lh))
    <2>1. /\ tail' = 0 /\ lh' = <<>> /\ UNCHANGED <<home, cache>>
          /\ pc' = [pc EXCEPT ![p] = "erase"]
      BY <1>5, Zenon DEF InstallTrans, Goto
    <2>2. /\ ControlInv' /\ pc' \in [Procs -> Places]
          /\ ~At("write_log")' /\ ~At("write_head")' /\ ~At("install")'
          /\ At("erase")' /\ ~At("commit_done")'
      BY <1>1, <2>1, CommitMove, Zenon DEF Committer
    <2>3. Header(<<>>)
      BY LogAssumption, SMTT(40) DEF Header
    <2>4. TypeInv' /\ ~panicked'
      BY <1>1, <2>1, <2>2, <2>3, SMTT(40) DEF DiskInv, TypeInv, Header
    <2>5. HeadInv'
      BY <1>1, <2>1, <2>2 DEF HeadInv
    <2>6. tail = Len(lh)
      BY <1>3, <1>5, SMTT(40)
    <2>7. \A i \in 1..Len(lh) : home[lh[i]] = cache[lh[i]] /\ home[lh[i]] = dlog[i]
      BY <1>3, <2>6, SMTT(40)
    <2>8. \A b \in Blocks : cache[b] = home[b]
      BY <1>1, <2>7 DEF DiskInv, BlockInv, Logged
    <2>9. BlockInv'
      BY <1>1, <1>3, <2>1, <2>2, <2>7, <2>8, Zenon DEF BlockInv
    <2> QED BY <2>2, <2>4, <2>5, <2>9, Zenon DEF DiskInv
  <1> QED BY <1>4, <1>5, Zenon

LEMMA EraseStep ==
    ASSUME DiskInv, NEW p \in Procs, Erase(p)
    PROVE  DiskInv'
  <1>1. /\ pc[p] = "erase" /\ pc[p] \in Committer /\ boot = "up"
        /\ UNCHANGED <<home, dlog, cache, logVars, wrote, tail, boot, panicked>>
        /\ dhead' = lh /\ pc' = [pc EXCEPT ![p] = "commit_done"]
    BY Zenon DEF Erase, Runs, Goto, Committer
  <1>2. /\ ~At("write_log") /\ ~At("write_head") /\ ~At("install")
        /\ At("erase") /\ ~At("commit_done")
    BY <1>1, OnePhase, Zenon DEF DiskInv
  <1>3. /\ ControlInv' /\ pc' \in [Procs -> Places]
        /\ ~At("write_log")' /\ ~At("write_head")' /\ ~At("install")'
        /\ ~At("erase")' /\ At("commit_done")'
    BY <1>1, CommitMove, Zenon DEF Committer, logVars
  <1>4. TypeInv' /\ ~panicked'
    BY <1>1, <1>3 DEF DiskInv, TypeInv, Header, logVars
  <1>5. tail = 0 /\ lh = <<>>
    BY <1>1, <1>2, Zenon DEF DiskInv, HeadInv
  <1>6. HeadInv'
    BY <1>1, <1>3, <1>5, Zenon DEF DiskInv, HeadInv, logVars
  <1>7. BlockInv'
    BY <1>1, <1>3, Zenon DEF DiskInv, BlockInv, Logged, logVars
  <1> QED BY <1>3, <1>4, <1>6, <1>7, Zenon DEF DiskInv

LEMMA CommitDoneStep ==
    ASSUME DiskInv, NEW p \in Procs, CommitDone(p)
    PROVE  DiskInv'
  <1>1. /\ pc[p] = "commit_done" /\ pc[p] \in Committer /\ boot = "up" /\ committing' = FALSE
        /\ UNCHANGED <<disk, cache, lh, outstanding, wrote, tail, boot, panicked>>
        /\ pc' \in [Procs -> Places] /\ pc'[p] = "idle"
        /\ \A q \in Procs : q # p => pc'[q] = IF pc[q] = "sleep" THEN "begin" ELSE pc[q]
    BY Zenon DEF CommitDone, Runs, WakeupGoto, Committer, DiskInv, TypeInv, Places
  <1>2. /\ ~At("write_log") /\ ~At("write_head") /\ ~At("install")
        /\ ~At("erase") /\ At("commit_done")
        /\ committing /\ \A q \in Procs : q # p => pc[q] \notin Committer
    BY <1>1, OnePhase, Zenon DEF DiskInv
  <1>3. lh = <<>> /\ tail = 0 /\ dhead = <<>>
    BY <1>1, <1>2, Zenon DEF DiskInv, HeadInv
  <1>4. \A q \in Procs : pc'[q] \notin Committer /\ pc'[q] # "sleep"
    BY <1>1, <1>2, Zenon DEF Committer
  <1>5. /\ ~At("write_log")' /\ ~At("write_head")' /\ ~At("install")'
        /\ ~At("erase")' /\ ~At("commit_done")'
    BY <1>4, Zenon DEF At, Committer
  <1>6. ControlInv'
    BY <1>1, <1>3, <1>4, Zenon DEF ControlInv, SleepersBlocked
  <1>7. TypeInv' /\ ~panicked'
    BY <1>1, ZenonT(60) DEF DiskInv, TypeInv, Header, disk
  <1>8. HeadInv'
    BY <1>1, <1>3, <1>5, Zenon DEF DiskInv, HeadInv, disk
  <1>9. BlockInv'
    BY <1>1, <1>5, Zenon DEF DiskInv, BlockInv, Logged, disk
  <1> QED BY <1>6, <1>7, <1>8, <1>9, Zenon DEF DiskInv

-----------------------------------------------------------------------------
(* Crash and recover_from_log() *)

LEMMA CrashStep ==
    ASSUME DiskInv, Crash
    PROVE  DiskInv'
  <1>1. /\ cache' = home /\ lh' = <<>> /\ outstanding' = 0 /\ committing' = FALSE
        /\ pc' = [p \in Procs |-> "idle"] /\ wrote' = [p \in Procs |-> {}]
        /\ tail' = 0 /\ boot' = "read_head" /\ panicked' = FALSE /\ UNCHANGED disk
    BY Zenon DEF Crash
  <1>2. \A q \in Procs : pc'[q] = "idle"
    BY <1>1, Zenon
  <1>3. \A q \in Procs : pc'[q] \notin Committer /\ ~InOp(q)'
    BY <1>2, Zenon DEF Committer, InOp
  <1>4. /\ ~At("write_log")' /\ ~At("write_head")' /\ ~At("install")'
        /\ ~At("erase")' /\ ~At("commit_done")'
    BY <1>2, Zenon DEF At
  <1>5. ControlInv'
    BY <1>1, <1>2, <1>3, Zenon DEF ControlInv, SleepersBlocked
  <1>6. Header(<<>>)
    BY LogAssumption, SMTT(40) DEF Header
  <1>7. TypeInv' /\ ~panicked'
    BY <1>1, <1>6, ZenonT(60) DEF DiskInv, TypeInv, Places, disk, Header
  <1>8. HeadInv'
    BY <1>1, <1>4 DEF HeadInv
  <1>9. BlockInv'
    BY <1>1, <1>4, Zenon DEF BlockInv, disk
  <1> QED BY <1>5, <1>7, <1>8, <1>9, Zenon DEF DiskInv

\* During recovery every process is at rest.
LEMMA Recovering ==
    ASSUME DiskInv, boot # "up"
    PROVE  /\ ~committing /\ \A q \in Procs : pc[q] = "idle" /\ ~InOp(q)
           /\ ~At("write_log") /\ ~At("write_head") /\ ~At("install")
           /\ ~At("erase") /\ ~At("commit_done") /\ cache = home
  <1>1. \A q \in Procs : pc[q] = "idle"
    BY Zenon DEF DiskInv, ControlInv
  <1>2. ~committing
    BY <1>1, Zenon DEF DiskInv, ControlInv, Committer
  <1> QED BY <1>1, <1>2, Zenon DEF DiskInv, BlockInv, At, InOp

\* A step of recovery that moves no process.
LEMMA RecoveryControl ==
    ASSUME DiskInv, boot # "up", UNCHANGED <<pc, committing>>, boot' = "up" => lh' = <<>>
    PROVE  /\ ControlInv'
           /\ ~At("write_log")' /\ ~At("write_head")' /\ ~At("install")'
           /\ ~At("erase")' /\ ~At("commit_done")'
  <1>1. ~committing /\ \A q \in Procs : pc[q] = "idle"
    BY Recovering, Zenon
  <1>2. ~committing' /\ \A q \in Procs : pc'[q] = "idle"
    BY <1>1, Zenon
  <1> QED BY <1>2, Zenon DEF ControlInv, SleepersBlocked, Committer, At

LEMMA ReadHeadStep ==
    ASSUME DiskInv, ReadHead
    PROVE  DiskInv'
  <1>1. /\ boot = "read_head" /\ boot' = "install" /\ lh' = dhead
        /\ UNCHANGED <<disk, cache, outstanding, committing, pc, wrote, tail, panicked>>
    BY Zenon DEF ReadHead
  <1>2. /\ ControlInv'
        /\ ~At("write_log")' /\ ~At("write_head")' /\ ~At("install")'
        /\ ~At("erase")' /\ ~At("commit_done")'
    BY <1>1, RecoveryControl, Zenon
  <1>3. cache = home /\ tail = 0 /\ Len(dhead) \in Nat
    BY <1>1, Recovering, SMTT(40) DEF DiskInv, HeadInv, TypeInv, Header
  <1>4. TypeInv' /\ ~panicked'
    BY <1>1 DEF DiskInv, TypeInv, disk, Header
  <1>5. HeadInv'
    BY <1>1, <1>2, <1>3, SMTT(40) DEF HeadInv, disk
  <1>6. BlockInv'
    BY <1>1, <1>2, <1>3, SMTT(40) DEF BlockInv, disk
  <1> QED BY <1>2, <1>4, <1>5, <1>6, Zenon DEF DiskInv

LEMMA RecoverInstallStep ==
    ASSUME DiskInv, RecoverInstall
    PROVE  DiskInv'
  <1>1. /\ boot = "install"
        /\ UNCHANGED <<dlog, dhead, outstanding, committing, pc, wrote, panicked>>
    BY Zenon DEF RecoverInstall
  <1>2. /\ Len(lh) \in Nat /\ tail \in Nat /\ tail <= Len(lh) /\ dhead = lh
        /\ \A i \in 1..tail : home[lh[i]] = dlog[i]
        /\ cache = home
    BY <1>1, SMTT(40) DEF DiskInv, TypeInv, Header, HeadInv, BlockInv
  <1>3. CASE tail < Len(lh)
    <2>1. /\ home' = [home EXCEPT ![lh[tail + 1]] = dlog[tail + 1]]
          /\ cache' = [cache EXCEPT ![lh[tail + 1]] = dlog[tail + 1]]
          /\ tail' = tail + 1 /\ UNCHANGED <<boot, lh>>
      BY <1>3, Zenon DEF RecoverInstall
    <2>2. /\ home' \in [Blocks -> Values] /\ cache' \in [Blocks -> Values]
          /\ tail' \in Nat /\ tail' <= Len(lh)
          /\ \A i \in 1..tail' : home'[lh[i]] = dlog[i]
      BY <1>1, <1>2, <1>3, <2>1, InstallBlock, Zenon
    <2>3. /\ ControlInv'
          /\ ~At("write_log")' /\ ~At("write_head")' /\ ~At("install")'
          /\ ~At("erase")' /\ ~At("commit_done")'
      BY <1>1, <2>1, RecoveryControl, Zenon
    <2>4. TypeInv' /\ ~panicked'
      BY <1>1, <2>1, <2>2 DEF DiskInv, TypeInv, Header
    <2>5. HeadInv'
      BY <1>1, <1>2, <2>1, <2>2, <2>3, Zenon DEF HeadInv
    <2>6. BlockInv'
      BY <1>1, <1>2, <2>1, <2>2, <2>3, Zenon DEF BlockInv
    <2> QED BY <2>3, <2>4, <2>5, <2>6, Zenon DEF DiskInv
  <1>4. CASE ~(tail < Len(lh))
    <2>1. tail' = 0 /\ lh' = <<>> /\ boot' = "erase" /\ UNCHANGED <<home, cache>>
      BY <1>4, Zenon DEF RecoverInstall
    <2>2. /\ ControlInv'
          /\ ~At("write_log")' /\ ~At("write_head")' /\ ~At("install")'
          /\ ~At("erase")' /\ ~At("commit_done")'
      BY <1>1, <2>1, RecoveryControl, Zenon
    <2>3. Header(<<>>)
      BY LogAssumption DEF Header
    <2>4. TypeInv' /\ ~panicked'
      BY <1>1, <2>1, <2>3 DEF DiskInv, TypeInv, Header
    <2>5. HeadInv'
      BY <1>1, <2>1, <2>2, SMTT(40) DEF HeadInv
    <2>6. tail = Len(lh)
      BY <1>2, <1>4
    <2>7. BlockInv'
      BY <1>1, <1>2, <2>1, <2>2, <2>6, Zenon DEF BlockInv
    <2> QED BY <2>2, <2>4, <2>5, <2>7, Zenon DEF DiskInv
  <1> QED BY <1>3, <1>4, Zenon

LEMMA RecoverEraseStep ==
    ASSUME DiskInv, RecoverErase
    PROVE  DiskInv'
  <1>1. /\ boot = "erase" /\ boot' = "up" /\ dhead' = lh
        /\ UNCHANGED <<home, dlog, cache, logVars, pc, wrote, tail, panicked>>
    BY Zenon DEF RecoverErase
  <1>2. /\ lh = <<>> /\ tail = 0 /\ cache = home
    BY <1>1, Recovering, Zenon DEF DiskInv, HeadInv, At
  <1>3. /\ ControlInv'
        /\ ~At("write_log")' /\ ~At("write_head")' /\ ~At("install")'
        /\ ~At("erase")' /\ ~At("commit_done")'
    BY <1>1, <1>2, RecoveryControl, Zenon DEF logVars
  <1>4. TypeInv' /\ ~panicked'
    BY <1>1, SMTT(40) DEF DiskInv, TypeInv, Header, logVars
  <1>5. HeadInv'
    BY <1>1, <1>2, <1>3, SMTT(40) DEF HeadInv, logVars
  <1>6. BlockInv'
    BY <1>1, <1>2, <1>3, Zenon DEF BlockInv, logVars
  <1> QED BY <1>3, <1>4, <1>5, <1>6, Zenon DEF DiskInv

-----------------------------------------------------------------------------
(* The log implements AtomicDisk.tla *)

Mem == IF boot = "up" THEN cache ELSE durable

\* What recovery makes of header h, log blocks d and home blocks m.
Redo(h, d, m) ==
    [b \in Blocks |-> IF \E i \in 1..Len(h) : h[i] = b
                      THEN d[CHOOSE i \in 1..Len(h) : h[i] = b]
                      ELSE m[b]]

\* A logged block is recovered from its one place in the log.
LEMMA RedoIs ==
    ASSUME NEW h, NEW d, NEW m, Header(h), NEW f \in [Blocks -> Values],
           \A b \in Blocks : (\A i \in 1..Len(h) : h[i] # b) => f[b] = m[b],
           \A i \in 1..Len(h) : f[h[i]] = d[i]
    PROVE  Redo(h, d, m) = f
  <1>1. ASSUME NEW b \in Blocks PROVE Redo(h, d, m)[b] = f[b]
    <2>1. CASE \E i \in 1..Len(h) : h[i] = b
      <3> DEFINE c == CHOOSE i \in 1..Len(h) : h[i] = b
      <3>1. c \in 1..Len(h) /\ h[c] = b
        BY <2>1, Zenon
      <3>2. Redo(h, d, m)[b] = d[c]
        BY <2>1, Zenon DEF Redo
      <3> QED BY <3>1, <3>2, Zenon
    <2>2. CASE ~\E i \in 1..Len(h) : h[i] = b
      <3>1. Redo(h, d, m)[b] = m[b]
        BY <2>2, Zenon DEF Redo
      <3> QED BY <2>2, <3>1, Zenon
    <2> QED BY <2>1, <2>2, Zenon
  <1> QED BY <1>1 DEF Redo

LEMMA DurableRedo ==
    durable = Redo(dhead, dlog, home) /\ durable' = Redo(dhead', dlog', home')
  BY Zenon DEF durable, Redo

\* With an empty header the disk is as it stands.
LEMMA RedoEmpty ==
    ASSUME NEW d, NEW m \in [Blocks -> Values]
    PROVE  Redo(<<>>, d, m) = m
  BY DEF Redo

\* Recovery of installed blocks changes nothing.
LEMMA RedoInstalled ==
    ASSUME NEW h, NEW d, NEW m \in [Blocks -> Values], Header(h),
           \A i \in 1..Len(h) : m[h[i]] = d[i]
    PROVE  Redo(h, d, m) = m
  BY RedoIs

\* The abstract steps.
LEMMA Stutters ==
    ASSUME Mem' = Mem, durable' = durable, Active' = Active
    PROVE  [AD!Next]_(AD!vars)
  BY Zenon DEF AD!vars, Mem, Active

LEMMA Begins ==
    ASSUME NEW p \in Procs, Mem' = Mem, durable' = durable, Active' = Active \cup {p}
    PROVE  [AD!Next]_(AD!vars)
  <1>1. AD!Begin(p)
    BY Zenon DEF AD!Begin, Mem, Active
  <1> QED BY <1>1, Zenon DEF AD!Next

LEMMA Ends ==
    ASSUME NEW p \in Procs, Mem' = Mem, durable' = durable, Active' = Active \ {p}
    PROVE  [AD!Next]_(AD!vars)
  <1>1. AD!End(p)
    BY Zenon DEF AD!End, Mem, Active
  <1> QED BY <1>1, Zenon DEF AD!Next

LEMMA Writes ==
    ASSUME NEW p \in Procs, NEW b \in Blocks, NEW v \in Values, p \in Active,
           Mem' = [Mem EXCEPT ![b] = v], durable' = durable, Active' = Active
    PROVE  [AD!Next]_(AD!vars)
  <1>1. AD!Write(p, b, v)
    BY Zenon DEF AD!Write, Mem, Active
  <1> QED BY <1>1, Zenon DEF AD!Next

LEMMA Commits ==
    ASSUME Active = {}, durable' = Mem, Mem' = Mem, Active' = Active
    PROVE  [AD!Next]_(AD!vars)
  <1>1. AD!Commit
    BY Zenon DEF AD!Commit, Mem, Active
  <1> QED BY <1>1, Zenon DEF AD!Next

LEMMA Crashes ==
    ASSUME Mem' = durable, Active' = {}, durable' = durable
    PROVE  [AD!Next]_(AD!vars)
  <1>1. AD!Crash
    BY Zenon DEF AD!Crash, Mem, Active
  <1> QED BY <1>1, Zenon DEF AD!Next

LEMMA OpRefines ==
    ASSUME DiskInv, NEW p \in Procs, OpStep(p)
    PROVE  [AD!Next]_(AD!vars)
  <1>0. UNCHANGED <<home, dlog, dhead, boot>> /\ boot = "up" /\ pc \in [Procs -> Places]
    BY Zenon DEF OpStep, Syscall, BeginOp, BeginSleep, LogCheck, LogAppend, EndOp, Runs, disk,
                 DiskInv, TypeInv
  <1>1. durable' = durable /\ Mem = cache /\ Mem' = cache'
    BY <1>0, Zenon DEF durable, Mem
  <1>2. CASE Syscall(p) \/ BeginSleep(p) \/ LogCheck(p)
    <2>1. \A q \in Procs : InOp(q)' <=> InOp(q)
      BY <1>0, <1>2 DEF Syscall, BeginSleep, LogCheck, Runs, Goto, InOp
    <2>2. cache' = cache
      BY <1>2, Zenon DEF Syscall, BeginSleep, LogCheck
    <2>3. Active' = Active
      BY <2>1, Zenon DEF Active
    <2> QED BY <1>1, <2>2, <2>3, Stutters, Zenon
  <1>3. CASE BeginOp(p)
    <2>1. InOp(p)' /\ \A q \in Procs : q # p => (InOp(q)' <=> InOp(q))
      BY <1>0, <1>3, SMTT(40) DEF BeginOp, Goto, InOp
    <2>2. Active' = Active \cup {p}
      BY <2>1, Zenon DEF Active
    <2> QED BY <1>1, <1>3, <2>2, Begins, Zenon DEF BeginOp
  <1>4. CASE EndOp(p)
    <2>1. ~InOp(p)' /\ \A q \in Procs : q # p => (InOp(q)' <=> InOp(q))
      BY <1>0, <1>4 DEF EndOp, Goto, WakeupGoto, InOp
    <2>2. Active' = Active \ {p}
      BY <2>1, Zenon DEF Active
    <2> QED BY <1>1, <1>4, <2>2, Ends, Zenon DEF EndOp
  <1>5. ASSUME NEW b \in Blocks, NEW v \in Values, LogAppend(p, b, v)
        PROVE  [AD!Next]_(AD!vars)
    <2>1. InOp(p) /\ \A q \in Procs : InOp(q)' <=> InOp(q)
      BY <1>0, <1>5 DEF LogAppend, Runs, Goto, InOp
    <2>2. Active' = Active /\ p \in Active
      BY <2>1, Zenon DEF Active
    <2>3. cache' = [cache EXCEPT ![b] = v]
      BY <1>5, Zenon DEF LogAppend
    <2> QED BY <1>1, <2>2, <2>3, Writes, Zenon
  <1> QED BY <1>2, <1>3, <1>4, <1>5, Zenon DEF OpStep

\* install_trans() changes only blocks that recovery would change alike.
LEMMA InstallRefines ==
    ASSUME DiskInv, tail < Len(lh), dhead = lh, UNCHANGED <<dlog, dhead>>,
           home' = [home EXCEPT ![lh[tail + 1]] = dlog[tail + 1]]
    PROVE  durable' = durable
  <1>1. /\ Header(dhead) /\ Len(dhead) \in Nat /\ tail \in Nat /\ home \in [Blocks -> Values]
    BY DEF DiskInv, TypeInv, Header
  <1>2. tail + 1 \in 1..Len(dhead)
    BY <1>1
  <1>3. /\ \A b \in Blocks : (\A i \in 1..Len(dhead) : dhead[i] # b) => home'[b] = home[b]
    BY <1>1, <1>2
  <1>4. durable = Redo(dhead, dlog, home) /\ durable' = Redo(dhead, dlog, home')
    BY DurableRedo, Zenon
  <1> QED BY <1>3, <1>4, Zenon DEF Redo

LEMMA CommitRefines ==
    ASSUME DiskInv, NEW p \in Procs, CommitStep(p)
    PROVE  [AD!Next]_(AD!vars)
  <1>0. /\ pc[p] \in Committer /\ boot = "up" /\ boot' = "up" /\ pc \in [Procs -> Places]
        /\ home \in [Blocks -> Values] /\ cache \in [Blocks -> Values]
        /\ Header(lh) /\ Header(dhead)
    BY DEF CommitStep, WriteLog, WriteHead, InstallTrans, Erase, CommitDone, Runs, Committer,
           DiskInv, TypeInv
  <1>1. Mem = cache /\ Mem' = cache'
    BY <1>0, Zenon DEF Mem
  <1>2. Active = {} /\ Active' = {}
    <2>1. \A q \in Procs : ~InOp(q)
      BY <1>0, Zenon DEF DiskInv, ControlInv
    <2>2. pc'[p] \in Committer \/ pc'[p] = "idle"
      BY <1>0, SMTT(40) DEF CommitStep, WriteLog, WriteHead, InstallTrans, Erase, CommitDone, Goto,
                  WakeupGoto, Committer
    <2>3. \A q \in Procs : q # p => pc'[q] = pc[q] \/ pc'[q] = "begin"
      BY <1>0 DEF CommitStep, WriteLog, WriteHead, InstallTrans, Erase, CommitDone, Goto,
                  WakeupGoto
    <2>4. \A q \in Procs : ~InOp(q)'
      BY <2>1, <2>2, <2>3, SMTT(40) DEF InOp, Committer
    <2> QED BY <2>1, <2>4, Zenon DEF Active
  <1>3. CASE WriteLog(p)
    <2>1. pc[p] = "write_log" /\ UNCHANGED <<home, dhead, cache>>
      BY <1>3, Zenon DEF WriteLog, Runs
    <2>2. ~At("install") /\ ~At("erase")
      BY <1>0, <2>1, OnePhase DEF DiskInv
    <2>3. dhead = <<>>
      BY <1>0, <2>2, Zenon DEF DiskInv, HeadInv
    <2>4. durable = home /\ durable' = home
      BY <1>0, <2>1, <2>3, DurableRedo, RedoEmpty, Zenon
    <2> QED BY <1>1, <1>2, <2>1, <2>4, Stutters, Zenon
  <1>4. CASE WriteHead(p)
    <2>1. /\ pc[p] = "write_head" /\ UNCHANGED <<home, dlog, cache>> /\ dhead' = lh
      BY <1>4, Zenon DEF WriteHead, Runs
    <2>2. At("write_head")
      BY <2>1, Zenon DEF At
    <2>3. \A i \in 1..Len(lh) : cache[lh[i]] = dlog[i]
      BY <2>2, Zenon DEF DiskInv, BlockInv
    <2>4. \A b \in Blocks : (\A i \in 1..Len(lh) : lh[i] # b) => cache[b] = home[b]
      BY <1>0, Zenon DEF DiskInv, BlockInv, Logged
    <2>5. Redo(lh, dlog, home) = cache
      BY <1>0, <2>3, <2>4, RedoIs, SMTT(40)
    <2>6. durable' = cache
      BY <2>1, <2>5, DurableRedo, ZenonT(60)
    <2> QED BY <1>1, <1>2, <2>1, <2>6, Commits, Zenon
  <1>5. CASE InstallTrans(p)
    <2>1. pc[p] = "install" /\ UNCHANGED <<dlog, dhead>>
      BY <1>5, Zenon DEF InstallTrans, Runs
    <2>2. At("install")
      BY <2>1, Zenon DEF At
    <2>3. dhead = lh /\ \A i \in 1..Len(lh) : dlog[i] = cache[lh[i]]
      BY <2>2, Zenon DEF DiskInv, HeadInv, BlockInv
    <2>4. CASE tail < Len(lh)
      <3>1. /\ home' = [home EXCEPT ![lh[tail + 1]] = dlog[tail + 1]]
            /\ cache' = [cache EXCEPT ![lh[tail + 1]] = dlog[tail + 1]]
        BY <1>5, <2>4, Zenon DEF InstallTrans
      <3>2. tail + 1 \in 1..Len(lh)
        BY <1>0, <2>4, SMTT(40) DEF DiskInv, TypeInv, Header
      <3>3. cache' = cache
        BY <1>0, <2>3, <3>1, <3>2, SMTT(40)
      <3>4. durable' = durable
        BY <2>1, <2>3, <2>4, <3>1, InstallRefines, Zenon
      <3> QED BY <1>1, <1>2, <3>3, <3>4, Stutters, Zenon
    <2>5. CASE ~(tail < Len(lh))
      <3>1. UNCHANGED <<home, cache>>
        BY <1>5, <2>5, Zenon DEF InstallTrans
      <3>2. durable' = durable
        BY <2>1, <3>1, Zenon DEF durable
      <3> QED BY <1>1, <1>2, <3>1, <3>2, Stutters, ZenonT(60)
    <2> QED BY <2>4, <2>5, Zenon
  <1>6. CASE Erase(p)
    <2>1. pc[p] = "erase" /\ UNCHANGED <<home, dlog, cache>> /\ dhead' = lh
      BY <1>6, Zenon DEF Erase, Runs
    <2>2. At("erase")
      BY <2>1, Zenon DEF At
    <2>3. lh = <<>> /\ \A i \in 1..Len(dhead) : home[dhead[i]] = dlog[i]
      BY <2>2, Zenon DEF DiskInv, HeadInv, BlockInv
    <2>4. durable = home
      BY <1>0, <2>3, RedoInstalled, DurableRedo, Zenon
    <2>5. durable' = home
      BY <1>0, <2>1, <2>3, RedoEmpty, DurableRedo, ZenonT(60)
    <2> QED BY <1>1, <1>2, <2>1, <2>4, <2>5, Stutters, ZenonT(60)
  <1>7. CASE CommitDone(p)
    <2>1. UNCHANGED <<home, dlog, dhead, cache>>
      BY <1>7, Zenon DEF CommitDone, disk
    <2>2. durable' = durable
      BY <2>1, Zenon DEF durable
    <2> QED BY <1>1, <1>2, <2>1, <2>2, Stutters, Zenon
  <1> QED BY <1>3, <1>4, <1>5, <1>6, <1>7, Zenon DEF CommitStep

LEMMA RecoveryRefines ==
    ASSUME DiskInv, Recovery
    PROVE  [AD!Next]_(AD!vars)
  <1>0. /\ boot # "up" /\ UNCHANGED pc /\ home \in [Blocks -> Values]
        /\ Header(lh) /\ Header(dhead)
    BY DEF Recovery, ReadHead, RecoverInstall, RecoverErase, DiskInv, TypeInv
  <1>1. Active' = Active
    BY <1>0, Zenon DEF Active, InOp
  <1>2. Mem = durable
    BY <1>0, Zenon DEF Mem
  <1>3. CASE ReadHead
    <2>1. UNCHANGED <<home, dlog, dhead>> /\ boot' # "up"
      BY <1>3, SMTT(40) DEF ReadHead, disk
    <2>2. durable' = durable /\ Mem' = durable'
      BY <2>1, Zenon DEF durable, Mem
    <2> QED BY <1>1, <1>2, <2>2, Stutters, Zenon
  <1>4. CASE RecoverInstall
    <2>1. boot = "install" /\ UNCHANGED <<dlog, dhead>> /\ boot' # "up"
      BY <1>4 DEF RecoverInstall
    <2>2. dhead = lh
      BY <2>1, Zenon DEF DiskInv, HeadInv
    <2>3. CASE tail < Len(lh)
      <3>1. home' = [home EXCEPT ![lh[tail + 1]] = dlog[tail + 1]]
        BY <1>4, <2>3, Zenon DEF RecoverInstall
      <3>2. durable' = durable
        BY <2>1, <2>2, <2>3, <3>1, InstallRefines, Zenon
      <3> QED BY <1>1, <1>2, <2>1, <3>2, Stutters, Zenon DEF Mem
    <2>4. CASE ~(tail < Len(lh))
      <3>1. home' = home
        BY <1>4, <2>4, Zenon DEF RecoverInstall
      <3>2. durable' = durable
        BY <2>1, <3>1, Zenon DEF durable
      <3> QED BY <1>1, <1>2, <2>1, <3>2, Stutters, Zenon DEF Mem
    <2> QED BY <2>3, <2>4, Zenon
  <1>5. CASE RecoverErase
    <2>1. boot = "erase" /\ boot' = "up" /\ UNCHANGED <<home, dlog, cache>> /\ dhead' = lh
      BY <1>5, Zenon DEF RecoverErase
    <2>2. lh = <<>> /\ \A i \in 1..Len(dhead) : home[dhead[i]] = dlog[i]
      BY <2>1, Zenon DEF DiskInv, HeadInv, BlockInv
    <2>3. durable = home
      BY <1>0, <2>2, RedoInstalled, DurableRedo, Zenon
    <2>4. durable' = home
      BY <1>0, <2>1, <2>2, RedoEmpty, DurableRedo, Zenon
    <2>5. cache = home
      BY <1>0, Zenon DEF DiskInv, BlockInv
    <2>6. Mem' = home
      BY <2>1, <2>5, Zenon DEF Mem
    <2> QED BY <1>1, <1>2, <2>3, <2>4, <2>6, Stutters, ZenonT(60)
  <1> QED BY <1>3, <1>4, <1>5, ZenonT(60) DEF Recovery

LEMMA NextRefines ==
    ASSUME DiskInv, [Next]_vars
    PROVE  [AD!Next]_(AD!vars)
  <1>1. CASE Crash
    <2>1. boot' # "up" /\ UNCHANGED <<home, dlog, dhead>> /\ \A q \in Procs : pc'[q] = "idle"
      BY <1>1, SMTT(40) DEF Crash, disk
    <2>2. durable' = durable /\ Mem' = durable'
      BY <2>1, Zenon DEF durable, Mem
    <2>3. Active' = {}
      BY <2>1, SMTT(40) DEF Active, InOp
    <2> QED BY <2>2, <2>3, Crashes, Zenon
  <1>2. CASE UNCHANGED vars
    <2>1. UNCHANGED <<home, dlog, dhead, cache, boot, pc>>
      BY <1>2, Zenon DEF vars, disk
    <2>2. durable' = durable /\ Mem' = Mem /\ Active' = Active
      BY <2>1, Zenon DEF durable, Mem, Active, InOp
    <2> QED BY <2>2, Stutters, Zenon
  <1> QED BY <1>1, <1>2, OpRefines, CommitRefines, RecoveryRefines, Zenon DEF Next

LEMMA InitRefines ==
    ASSUME Init
    PROVE  AD!Init
  <1>1. /\ home \in [Blocks -> Values] /\ cache = home /\ dhead = <<>> /\ boot = "up"
        /\ \A q \in Procs : pc[q] = "idle"
    BY DEF Init
  <1>2. durable = home /\ Mem = home
    BY <1>1, RedoEmpty, DurableRedo, Zenon DEF Mem
  <1>3. Active = {}
    BY <1>1 DEF Active, InOp
  <1> QED BY <1>1, <1>2, <1>3, Zenon DEF AD!Init, Mem, Active

-----------------------------------------------------------------------------

\* What the cardinality of a set says about its members.
LEMMA CardFacts ==
    ASSUME NEW S, IsFiniteSet(S)
    PROVE  /\ Cardinality(S) \in Nat
           /\ Cardinality(S) = 0 => \A x : x \notin S
           /\ Cardinality(S) # 0 => \E x : x \in S
           /\ Cardinality(S) = 1 => \A x, y \in S : x = y
           /\ Cardinality(S) # 1 => \A x \in S : \E y \in S : y # x
  <1>1. Cardinality(S) \in Nat
    BY FS_CardinalityType, Zenon
  <1>2. Cardinality(S) = 0 <=> S = {}
    BY FS_EmptySet, Zenon
  <1>3. Cardinality(S) = 1 <=> \E x : S = {x}
    BY FS_Singleton, Zenon
  <1>4. ASSUME NEW x \in S, \A y \in S : y = x PROVE Cardinality(S) = 1
    <2>1. S = {x}
      BY <1>4, Zenon
    <2> QED BY <1>3, <2>1, Zenon
  <1> QED BY <1>1, <1>2, <1>3, <1>4, Zenon

\* outstanding, as the number of system calls under way.
LEMMA TallyOfCount ==
    ASSUME NEW S, S = Active', IsFiniteSet(S), outstanding' = Cardinality(S)
    PROVE  Tally'
  <1>1. /\ outstanding' = 0 => \A x : x \notin S
        /\ outstanding' # 0 => \E x : x \in S
        /\ outstanding' = 1 => \A x, y \in S : x = y
        /\ outstanding' # 1 => \A x \in S : \E y \in S : y # x
    BY CardFacts, Zenon
  <1>2. \A x : x \in S <=> x \in Procs /\ InOp(x)'
    BY Zenon DEF Active
  <1>3. outstanding' # 0 => \E p \in Procs : InOp(p)'
    BY <1>1, <1>2, Zenon
  <1>4. outstanding' # 1 => \A p \in Procs : InOp(p)' => \E q \in Procs : InOp(q)' /\ q # p
    BY <1>1, <1>2, Zenon
  <1>5. outstanding' = 1 => \A p, q \in Procs : InOp(p)' /\ InOp(q)' => p = q
    BY <1>1, <1>2, Zenon
  <1>6. outstanding' = 0 => \A p \in Procs : ~InOp(p)'
    BY <1>1, <1>2, Zenon
  <1> QED BY <1>3, <1>4, <1>5, <1>6, Zenon DEF Tally

\* A step that neither begins nor ends a system call nor logs a block for one.
LEMMA CountKept ==
    ASSUME CountInv, UNCHANGED <<outstanding, wrote>>,
           \A q \in Procs : InOp(q)' <=> InOp(q),
           Len(lh') + Cardinality(Room) + 2 <= LOGSIZE, Len(dhead') + 2 <= LOGSIZE,
           lh' = lh \/ \A q \in Procs : ~InOp(q)
    PROVE  CountInv'
  <1>1. Active' = Active
    BY Zenon DEF Active
  <1>2. Room' = Room
    <2>1. \A r \in Procs \X (1..OpBlocks) : r[1] \in Procs
      OBVIOUS
    <2> QED BY <2>1, Zenon DEF Room
  <1>3. Tally'
    BY Zenon DEF Tally, CountInv
  <1>4. \A q \in Procs : InOp(q)' => \A b \in wrote'[q] : Logged(b)'
    BY Zenon DEF CountInv, Logged
  <1> QED BY <1>1, <1>2, <1>3, <1>4, Zenon DEF CountInv

LEMMA Nonneg ==
    ASSUME DiskInv, CountInv
    PROVE  /\ Len(lh) \in Nat /\ Len(dhead) \in Nat /\ Cardinality(Room) \in Nat
           /\ LOGSIZE \in Nat /\ Len(lh) + 2 <= LOGSIZE
  <1>1. Len(lh) \in Nat /\ Len(dhead) \in Nat
    BY DEF DiskInv, TypeInv, Header
  <1>2. Cardinality(Room) \in Nat /\ Len(lh) + Cardinality(Room) + 2 <= LOGSIZE
    BY Zenon DEF CountInv
  <1> QED BY <1>1, <1>2, LogAssumption, SMTT(40)

\* Nobody is in a system call during a commit or a recovery.
LEMMA NoRoom ==
    ASSUME \A q \in Procs : ~InOp(q)
    PROVE  Cardinality(Room) = 0
  <1>1. \A r \in Procs \X (1..OpBlocks) : r[1] \in Procs
    BY SMTT(40)
  <1>2. Room = {}
    BY <1>1, Zenon DEF Room
  <1> QED BY <1>2, FS_EmptySet, Zenon

\* The steps that change neither the log nor the header on disk.
LEMMA IdleCount ==
    ASSUME DiskInv, CountInv, UNCHANGED <<outstanding, wrote, lh, dhead>>,
           \A q \in Procs : InOp(q)' <=> InOp(q)
    PROVE  CountInv'
  <1>1. Len(lh') + Cardinality(Room) + 2 <= LOGSIZE /\ Len(dhead') + 2 <= LOGSIZE
    BY Zenon DEF CountInv
  <1> QED BY <1>1, CountKept, Zenon

\* The reservation of begin_op() covers what its system call may log.
LEMMA Reservation ==
    ASSUME NEW n \in Nat, NEW l \in Nat, NEW r \in Nat, OpBlocks < MAXOPBLOCKS,
           MAXOPBLOCKS \in Nat, OpBlocks \in Nat, LOGSIZE \in Nat,
           l + (n + 1) * MAXOPBLOCKS <= LOGSIZE, r <= (n + 1) * OpBlocks, n # 0
    PROVE  l + r + 2 <= LOGSIZE
  <1>1. (n + 1) * OpBlocks + (n + 1) <= (n + 1) * MAXOPBLOCKS
    <2>1. PICK d \in Nat : MAXOPBLOCKS = OpBlocks + 1 + d
      <3>1. MAXOPBLOCKS - OpBlocks - 1 \in Nat
        OBVIOUS
      <3> QED BY <3>1, SMTT(40)
    <2>2. (n + 1) * (OpBlocks + 1 + d) = (n + 1) * OpBlocks + (n + 1) + (n + 1) * d
      OBVIOUS
    <2>3. (n + 1) * d \in Nat
      OBVIOUS
    <2>4. (n + 1) * OpBlocks \in Nat
      BY SMTT(40)
    <2> QED BY <2>1, <2>2, <2>3, <2>4, SMTT(40)
  <1>2. (n + 1) * OpBlocks \in Nat /\ (n + 1) * MAXOPBLOCKS \in Nat
    OBVIOUS
  <1> QED BY <1>1, <1>2, SMTT(40)

LEMMA BeginOpCount ==
    ASSUME DiskInv, CountInv, NEW p \in Procs, BeginOp(p)
    PROVE  CountInv'
  <1>1. /\ ~InOp(p) /\ InOp(p)' /\ \A q \in Procs : q # p => (InOp(q)' <=> InOp(q))
        /\ UNCHANGED <<lh, dhead>> /\ ~MustWait /\ boot = "up"
        /\ wrote'[p] = {} /\ \A q \in Procs : q # p => wrote'[q] = wrote[q]
    BY Zenon DEF BeginOp, Runs, Goto, DiskInv, TypeInv, InOp, disk
  <1>2. outstanding' = outstanding + 1 /\ outstanding \in Nat
    BY Zenon DEF BeginOp, DiskInv, TypeInv
  <1>3. Active' = Active \cup {p} /\ p \notin Active
    BY <1>1, Zenon DEF Active
  <1>4. IsFiniteSet(Active) /\ outstanding = Cardinality(Active)
    BY Zenon DEF CountInv
  <1>5. IsFiniteSet(Active') /\ outstanding' = Cardinality(Active')
    BY <1>2, <1>3, <1>4, FS_AddElement, Zenon
  <1>6. Tally'
    BY <1>5, TallyOfCount, Zenon
  <1>7. IsFiniteSet(1..OpBlocks) /\ Cardinality(1..OpBlocks) = OpBlocks
    BY FS_Interval, LogAssumption
  <1>8. Room' \in SUBSET (Active' \X (1..OpBlocks))
    BY Zenon DEF Room, Active
  <1>9. /\ IsFiniteSet(Active' \X (1..OpBlocks))
        /\ Cardinality(Active' \X (1..OpBlocks)) = (outstanding + 1) * OpBlocks
    <2>1. Cardinality(Active') = outstanding + 1
      BY <1>2, <1>5, Zenon
    <2>2. IsFiniteSet(Active') /\ IsFiniteSet(1..OpBlocks)
      BY <1>5, <1>7, Zenon
    <2>3. /\ IsFiniteSet(Active' \X (1..OpBlocks))
          /\ Cardinality(Active' \X (1..OpBlocks)) = Cardinality(Active') * Cardinality(1..OpBlocks)
      BY <2>2, FS_Product, ZenonT(60)
    <2> QED BY <1>7, <2>1, <2>3, ZenonT(60)
  <1>10. IsFiniteSet(Room') /\ Cardinality(Room') <= (outstanding + 1) * OpBlocks
    <2>1. IsFiniteSet(Room') /\ Cardinality(Room') <= Cardinality(Active' \X (1..OpBlocks))
      BY <1>8, <1>9, FS_Subset, Zenon
    <2> QED BY <2>1, <1>9, Zenon
  <1>11. Cardinality(Room') \in Nat
    BY <1>10, FS_CardinalityType, Zenon
  <1>12. Len(lh) + Cardinality(Room') + 2 <= LOGSIZE
    <2>1. Len(lh) \in Nat
      BY Nonneg, Zenon
    <2>2. CASE outstanding # 0
      <3>1. Len(lh) + (outstanding + 1) * MAXOPBLOCKS <= LOGSIZE
        BY <1>1, <1>2, <2>1, LogAssumption, SMTT(40) DEF MustWait
      <3>2. /\ OpBlocks < MAXOPBLOCKS /\ MAXOPBLOCKS \in Nat /\ OpBlocks \in Nat
            /\ LOGSIZE \in Nat
        BY LogAssumption, OpAssumption, Zenon
      <3> QED BY <1>2, <1>10, <1>11, <2>1, <2>2, <3>1, <3>2, Reservation, ZenonT(60)
    <2>3. CASE outstanding = 0
      <3>1. lh = <<>>
        <4>1. \A q \in Procs : ~InOp(q)
          BY <2>3, Zenon DEF CountInv, Tally
        <4>2. ~committing
          BY <1>1, Zenon DEF MustWait
        <4> QED BY <1>1, <4>1, <4>2, Zenon DEF DiskInv, ControlInv
      <3>2. (outstanding + 1) * OpBlocks = OpBlocks
        BY <2>3, LogAssumption
      <3>3. Len(lh) = 0
        BY <3>1, Zenon
      <3> QED BY <1>10, <1>11, <3>2, <3>3, LogAssumption, OpAssumption, SMTT(40)
    <2> QED BY <2>2, <2>3, ZenonT(60)
  <1>13. ASSUME NEW q \in Procs
         PROVE  /\ IsFiniteSet(wrote'[q]) /\ Cardinality(wrote'[q]) <= OpBlocks
                /\ InOp(q)' => \A b \in wrote'[q] : Logged(b)'
    <2>1. CASE q = p
      <3>1. IsFiniteSet(wrote'[q]) /\ Cardinality(wrote'[q]) = 0
        BY <1>1, <2>1, FS_EmptySet, Zenon
      <3>2. Cardinality(wrote'[q]) <= OpBlocks
        BY <3>1, LogAssumption
      <3> QED BY <1>1, <2>1, <3>1, <3>2, Zenon
    <2>2. CASE q # p
      BY <1>1, <2>2, Zenon DEF CountInv, Logged
    <2> QED BY <2>1, <2>2, Zenon
  <1>14. Len(dhead') + 2 <= LOGSIZE /\ Len(lh') + Cardinality(Room') + 2 <= LOGSIZE
    BY <1>1, <1>12, Zenon DEF CountInv
  <1> QED BY <1>5, <1>6, <1>10, <1>11, <1>13, <1>14, ZenonT(60) DEF CountInv

\* A block that its system call had logged takes no further room.
LEMMA LogAppendCount ==
    ASSUME DiskInv, CountInv, NEW p \in Procs, NEW b \in Blocks, NEW v \in Values,
           LogAppend(p, b, v)
    PROVE  CountInv'
  <1>1. /\ InOp(p) /\ \A q \in Procs : InOp(q)' <=> InOp(q)
        /\ UNCHANGED <<outstanding, dhead>>
        /\ wrote'[p] = wrote[p] \cup {b} /\ \A q \in Procs : q # p => wrote'[q] = wrote[q]
    BY Zenon DEF LogAppend, Runs, Goto, DiskInv, TypeInv, InOp, disk
  <1>2. /\ Logged(b) => lh' = lh
        /\ ~Logged(b) => Len(lh') = Len(lh) + 1
        /\ \A c : Logged(c)' <=> Logged(c) \/ c = b
    BY LogAppendStep, Zenon
  <1>3. CASE b \in wrote[p]
    <2>1. lh' = lh
      BY <1>1, <1>2, <1>3, Zenon DEF CountInv
    <2>2. wrote'[p] = wrote[p]
      BY <1>1, <1>3, Zenon
    <2>3. wrote' = wrote
      BY <1>1, <2>2, Zenon DEF LogAppend, DiskInv, TypeInv
    <2> QED BY <1>1, <2>1, <2>3, IdleCount, Zenon
  <1>4. CASE b \notin wrote[p]
    <2> DEFINE n == Cardinality(wrote[p])
               e == <<p, n + 1>>
    <2>1. IsFiniteSet(wrote[p]) /\ n \in Nat
      BY FS_CardinalityType, Zenon DEF CountInv
    <2>2. /\ IsFiniteSet(wrote'[p]) /\ Cardinality(wrote'[p]) = n + 1
      <3>1. /\ IsFiniteSet(wrote[p] \cup {b})
            /\ Cardinality(wrote[p] \cup {b}) = Cardinality(wrote[p]) + 1
        BY <1>4, <2>1, FS_AddElement, Zenon
      <3> QED BY <1>1, <3>1, Zenon
    <2>3. n + 1 <= OpBlocks
      BY <1>1, <2>2, Zenon DEF LogAppend
    <2>4. e \in Room
      <3>1. n + 1 \in 1..OpBlocks /\ n + 1 > n
        BY <2>1, <2>3, LogAssumption, SMTT(40)
      <3>2. e \in Procs \X (1..OpBlocks) /\ e[1] = p /\ e[2] = n + 1
        BY <3>1, Zenon
      <3> HIDE DEF e
      <3> QED BY <1>1, <3>1, <3>2, Zenon DEF Room
    <2>5. Room' = Room \ {e}
      <3>1. ASSUME NEW r \in Procs \X (1..OpBlocks)
            PROVE  r \in Room' <=> r \in Room /\ r # e
        <4>1. /\ r[1] \in Procs /\ r[2] \in 1..OpBlocks /\ r = <<r[1], r[2]>>
              /\ r[2] \in Int
          OBVIOUS
        <4>2. r \in Room' <=> InOp(r[1]) /\ r[2] > Cardinality(wrote'[r[1]])
          BY <1>1, <4>1, Zenon DEF Room
        <4>3. r \in Room <=> InOp(r[1]) /\ r[2] > Cardinality(wrote[r[1]])
          BY <4>1, Zenon DEF Room
        <4>4. CASE r[1] = p
          <5>1. r # e <=> r[2] # n + 1
            BY <4>1, <4>4, SMTT(40)
          <5>2. r[2] > n + 1 <=> r[2] > n /\ r[2] # n + 1
            BY <2>1, <4>1
          <5> QED BY <2>2, <4>2, <4>3, <4>4, <5>1, <5>2, Zenon
        <4>5. CASE r[1] # p
          <5>1. r # e
            BY <4>1, <4>5
          <5> QED BY <1>1, <4>1, <4>2, <4>3, <4>5, <5>1, Zenon
        <4> QED BY <4>4, <4>5, Zenon
      <3>2. Room' \subseteq Procs \X (1..OpBlocks) /\ Room \subseteq Procs \X (1..OpBlocks)
        BY Zenon DEF Room
      <3> HIDE DEF e
      <3> QED BY <3>1, <3>2, Zenon
    <2>6. IsFiniteSet(Room) /\ Cardinality(Room) \in Nat
      BY Zenon DEF CountInv
    <2>7. IsFiniteSet(Room') /\ Cardinality(Room') = Cardinality(Room) - 1
      <3> HIDE DEF e
      <3> QED BY <2>4, <2>5, <2>6, FS_RemoveElement, Zenon
    <2>8. Cardinality(Room') \in Nat
      BY <2>7, FS_CardinalityType, Zenon
    <2>9. Len(lh') + Cardinality(Room') + 2 <= LOGSIZE
      <3>1. Len(lh) + Cardinality(Room) + 2 <= LOGSIZE
        BY Zenon DEF CountInv
      <3>2. Len(lh) \in Nat /\ LOGSIZE \in Nat
        BY Nonneg, Zenon
      <3>3. Len(lh') = Len(lh) \/ Len(lh') = Len(lh) + 1
        BY <1>2, Zenon
      <3> QED BY <2>6, <2>7, <3>1, <3>2, <3>3, SMTT(40)
    <2>10. Active' = Active
      BY <1>1, Zenon DEF Active
    <2>11. Tally'
      BY <1>1, Zenon DEF Tally, CountInv
    <2>12. ASSUME NEW q \in Procs
           PROVE  /\ IsFiniteSet(wrote'[q]) /\ Cardinality(wrote'[q]) <= OpBlocks
                  /\ InOp(q)' => \A c \in wrote'[q] : Logged(c)'
      <3>1. CASE q = p
        BY <1>1, <1>2, <2>2, <2>3, <3>1, Zenon DEF CountInv
      <3>2. CASE q # p
        BY <1>1, <1>2, <3>2, Zenon DEF CountInv
      <3> QED BY <3>1, <3>2, Zenon
    <2> QED BY <1>1, <2>7, <2>8, <2>9, <2>10, <2>11, <2>12, ZenonT(60) DEF CountInv
  <1> QED BY <1>3, <1>4, Zenon

LEMMA EndOpCount ==
    ASSUME DiskInv, CountInv, NEW p \in Procs, EndOp(p)
    PROVE  CountInv'
  <1>1. /\ InOp(p) /\ ~InOp(p)' /\ \A q \in Procs : q # p => (InOp(q)' <=> InOp(q))
        /\ UNCHANGED <<wrote, lh, dhead>>
    BY Zenon DEF EndOp, Runs, Goto, WakeupGoto, DiskInv, TypeInv, InOp, disk
  <1>2. outstanding' = outstanding - 1
    BY Zenon DEF EndOp
  <1>3. Active' = Active \ {p} /\ p \in Active
    BY <1>1, Zenon DEF Active
  <1>4. IsFiniteSet(Active) /\ outstanding = Cardinality(Active)
    BY Zenon DEF CountInv
  <1>5. IsFiniteSet(Active') /\ outstanding' = Cardinality(Active')
    BY <1>2, <1>3, <1>4, FS_RemoveElement, Zenon
  <1>6. Tally'
    BY <1>5, TallyOfCount, Zenon
  <1>7. Room' \in SUBSET Room
    <2>1. \A r \in Procs \X (1..OpBlocks) : r[1] \in Procs
      OBVIOUS
    <2> QED BY <1>1, <2>1, Zenon DEF Room
  <1>8. /\ IsFiniteSet(Room) /\ Cardinality(Room) \in Nat
        /\ Len(lh) + Cardinality(Room) + 2 <= LOGSIZE
    BY Zenon DEF CountInv
  <1>9. IsFiniteSet(Room') /\ Cardinality(Room') <= Cardinality(Room)
    BY <1>7, <1>8, FS_Subset, Zenon
  <1>10. Cardinality(Room') \in Nat
    BY <1>9, FS_CardinalityType, Zenon
  <1>11. Len(lh') + Cardinality(Room') + 2 <= LOGSIZE
    <2>1. Len(lh) \in Nat /\ LOGSIZE \in Nat
      BY Nonneg, Zenon
    <2> QED BY <1>1, <1>8, <1>9, <1>10, <2>1, SMTT(40)
  <1>12. \A q \in Procs : InOp(q)' => \A c \in wrote'[q] : Logged(c)'
    BY <1>1, Zenon DEF CountInv, Logged
  <1> QED BY <1>1, <1>5, <1>6, <1>9, <1>10, <1>11, <1>12, ZenonT(60) DEF CountInv

\* After a crash no system call is under way.
LEMMA CrashCount ==
    ASSUME DiskInv, CountInv, Crash
    PROVE  CountInv'
  <1>1. \A q \in Procs : ~InOp(q)' /\ wrote'[q] = {}
    BY Zenon DEF Crash, InOp
  <1>2. outstanding' = 0 /\ lh' = <<>> /\ UNCHANGED dhead
    BY Zenon DEF Crash, disk
  <1>3. Active' = {} /\ Room' = {}
    <2>1. \A r \in Procs \X (1..OpBlocks) : r[1] \in Procs
      OBVIOUS
    <2> QED BY <1>1, <2>1, Zenon DEF Active, Room
  <1>4. IsFiniteSet({}) /\ Cardinality({}) = 0
    BY FS_EmptySet, Zenon
  <1>5. Tally'
    BY <1>2, <1>3, <1>4, TallyOfCount, Zenon
  <1>6. Len(lh') + Cardinality(Room') + 2 <= LOGSIZE /\ Cardinality(Room') \in Nat
    BY <1>2, <1>3, <1>4, LogAssumption, OpAssumption, SMTT(40)
  <1>7. \A q \in Procs : IsFiniteSet(wrote'[q]) /\ Cardinality(wrote'[q]) <= OpBlocks
    BY <1>1, <1>4, LogAssumption, SMTT(40)
  <1>8. Len(dhead') + 2 <= LOGSIZE
    BY <1>2, Zenon DEF CountInv
  <1> QED BY <1>1, <1>2, <1>3, <1>4, <1>5, <1>6, <1>7, <1>8, ZenonT(60) DEF CountInv

\* A process at rest or asleep, or in commit(), is in no system call.
LEMMA QuietCount ==
    ASSUME DiskInv, CountInv, UNCHANGED <<outstanding, wrote>>,
           \A q \in Procs : InOp(q)' <=> InOp(q), \A q \in Procs : ~InOp(q),
           lh' = <<>> \/ lh' = lh \/ lh' = dhead, dhead' = dhead \/ dhead' = lh
    PROVE  CountInv'
  <1>1. /\ Cardinality(Room) = 0 /\ Len(lh) + 2 <= LOGSIZE
        /\ Len(lh) \in Nat /\ Len(dhead) \in Nat /\ LOGSIZE \in Nat
    BY NoRoom, Nonneg, Zenon
  <1>2. Len(dhead) + 2 <= LOGSIZE
    BY Zenon DEF CountInv
  <1>3. Len(<<>>) = 0
    OBVIOUS
  <1>4. Len(lh') \in Nat /\ Len(lh') + 2 <= LOGSIZE /\ Len(dhead') + 2 <= LOGSIZE
    BY <1>1, <1>2, <1>3, SMTT(40)
  <1>5. Len(lh') + Cardinality(Room) + 2 <= LOGSIZE
    BY <1>1, <1>4, SMTT(40)
  <1> QED BY <1>4, <1>5, CountKept, Zenon

LEMMA OpStepIInv ==
    ASSUME IInv, NEW p \in Procs, OpStep(p)
    PROVE  IInv'
  <1>0. DiskInv /\ CountInv /\ Tally
    BY Zenon DEF IInv, CountInv
  <1>1. CASE Syscall(p) \/ BeginSleep(p) \/ LogCheck(p)
    <2>1. DiskInv'
      BY <1>0, <1>1, SyscallStep, BeginSleepStep, LogCheckStep, Zenon
    <2>2. UNCHANGED <<outstanding, wrote, lh, dhead>>
      BY <1>1, Zenon DEF Syscall, BeginSleep, LogCheck, logVars, disk
    <2>3. \A q \in Procs : InOp(q)' <=> InOp(q)
      BY <1>0, <1>1, Zenon DEF Syscall, BeginSleep, LogCheck, Runs, Goto, InOp, DiskInv, TypeInv
    <2> QED BY <1>0, <2>1, <2>2, <2>3, IdleCount, Zenon DEF IInv
  <1>2. CASE BeginOp(p)
    BY <1>0, <1>2, BeginOpStep, BeginOpCount, Zenon DEF IInv
  <1>3. CASE EndOp(p)
    BY <1>0, <1>3, EndOpStep, EndOpCount, Zenon DEF IInv
  <1>4. ASSUME NEW b \in Blocks, NEW v \in Values, LogAppend(p, b, v)
        PROVE  IInv'
    BY <1>0, <1>4, LogAppendStep, LogAppendCount, Zenon DEF IInv
  <1> QED BY <1>1, <1>2, <1>3, <1>4, Zenon DEF OpStep

LEMMA CommitStepIInv ==
    ASSUME IInv, NEW p \in Procs, CommitStep(p)
    PROVE  IInv'
  <1>0. DiskInv /\ CountInv
    BY Zenon DEF IInv
  <1>1. DiskInv'
    BY <1>0, WriteLogStep, WriteHeadStep, InstallTransStep, EraseStep, CommitDoneStep, Zenon
       DEF CommitStep
  <1>2. pc[p] \in Committer /\ boot = "up"
    BY Zenon DEF CommitStep, WriteLog, WriteHead, InstallTrans, Erase, CommitDone, Runs, Committer
  <1>3. \A q \in Procs : ~InOp(q)
    BY <1>0, <1>2, ZenonT(60) DEF DiskInv, ControlInv
  <1>4. \A q \in Procs : q = p => pc'[q] \in Committer \/ pc'[q] = "idle"
    BY <1>0, <1>2, SMTT(40) DEF CommitStep, WriteLog, WriteHead, InstallTrans, Erase, CommitDone, Goto,
                      WakeupGoto, Committer, DiskInv, TypeInv
  <1>5. \A q \in Procs : q # p => pc'[q] = pc[q] \/ pc'[q] = "begin"
    BY <1>0 DEF CommitStep, WriteLog, WriteHead, InstallTrans, Erase, CommitDone, Goto,
                WakeupGoto, DiskInv, TypeInv
  <1>6. \A q \in Procs : InOp(q)' <=> InOp(q)
    BY <1>3, <1>4, <1>5, Zenon DEF InOp, Committer
  <1>7. UNCHANGED <<outstanding, wrote>>
    BY Zenon DEF CommitStep, WriteLog, WriteHead, InstallTrans, Erase, CommitDone, logVars, disk
  <1>8. (lh' = <<>> \/ lh' = lh) /\ (dhead' = dhead \/ dhead' = lh)
    BY Zenon DEF CommitStep, WriteLog, WriteHead, InstallTrans, Erase, CommitDone, logVars, disk
  <1> QED BY <1>0, <1>1, <1>3, <1>6, <1>7, <1>8, QuietCount, Zenon DEF IInv

LEMMA RecoveryIInv ==
    ASSUME IInv, Recovery
    PROVE  IInv'
  <1>0. DiskInv /\ CountInv
    BY Zenon DEF IInv
  <1>1. DiskInv'
    BY <1>0, ReadHeadStep, RecoverInstallStep, RecoverEraseStep, Zenon DEF Recovery
  <1>2. boot # "up" /\ UNCHANGED <<outstanding, wrote, pc>>
    BY Zenon DEF Recovery, ReadHead, RecoverInstall, RecoverErase, logVars
  <1>3. \A q \in Procs : ~InOp(q)
    BY <1>0, <1>2, Recovering, Zenon
  <1>4. \A q \in Procs : InOp(q)' <=> InOp(q)
    BY <1>2, Zenon DEF InOp
  <1>5. (lh' = <<>> \/ lh' = lh \/ lh' = dhead) /\ (dhead' = dhead \/ dhead' = lh)
    BY Zenon DEF Recovery, ReadHead, RecoverInstall, RecoverErase, logVars, disk
  <1> QED BY <1>0, <1>1, <1>2, <1>3, <1>4, <1>5, QuietCount, Zenon DEF IInv

LEMMA InitIInv ==
    ASSUME Init
    PROVE  IInv
  <1>1. \A q \in Procs : pc[q] = "idle" /\ wrote[q] = {}
    BY Zenon DEF Init
  <1>2. \A q \in Procs : ~InOp(q) /\ pc[q] \notin Committer
    BY <1>1, Zenon DEF InOp, Committer
  <1>3. /\ ~At("write_log") /\ ~At("write_head") /\ ~At("install")
        /\ ~At("erase") /\ ~At("commit_done")
    BY <1>1, Zenon DEF At
  <1>4. TypeInv /\ ~panicked
    <2>1. Header(<<>>)
      BY LogAssumption DEF Header
    <2> QED BY <2>1, Zenon DEF Init, TypeInv, Places
  <1>5. ControlInv
    BY <1>1, <1>2, Zenon DEF Init, ControlInv, SleepersBlocked
  <1>6. HeadInv /\ BlockInv
    BY <1>3 DEF Init, HeadInv, BlockInv
  <1>7. Active = {} /\ Room = {}
    <2>1. \A r \in Procs \X (1..OpBlocks) : r[1] \in Procs
      OBVIOUS
    <2> QED BY <1>2, <2>1, Zenon DEF Active, Room
  <1>8. IsFiniteSet({}) /\ Cardinality({}) = 0
    BY FS_EmptySet, Zenon
  <1>9. Tally
    BY <1>2, Zenon DEF Tally, Init
  <1>10. /\ Len(lh) + Cardinality(Room) + 2 <= LOGSIZE /\ Cardinality(Room) \in Nat
         /\ Len(dhead) + 2 <= LOGSIZE
    BY <1>7, <1>8, LogAssumption, OpAssumption, SMTT(40) DEF Init
  <1>11. \A q \in Procs : IsFiniteSet(wrote[q]) /\ Cardinality(wrote[q]) <= OpBlocks
    BY <1>1, <1>8, LogAssumption, SMTT(40)
  <1>12. outstanding = 0
    BY Zenon DEF Init
  <1>13. CountInv
    BY <1>2, <1>7, <1>8, <1>9, <1>10, <1>11, <1>12, Zenon DEF CountInv
  <1> QED BY <1>4, <1>5, <1>6, <1>13, Zenon DEF IInv, DiskInv

LEMMA NextIInv ==
    ASSUME IInv, [Next]_vars
    PROVE  IInv'
  <1>1. CASE Crash
    BY <1>1, CrashStep, CrashCount, Zenon DEF IInv
  <1>2. CASE UNCHANGED vars
    <2>1. /\ UNCHANGED <<home, dlog, dhead, cache, lh, outstanding, committing>>
          /\ UNCHANGED <<pc, wrote, tail, boot, panicked>>
      BY <1>2, Zenon DEF vars, disk, logVars
    <2>2. \A q \in Procs : InOp(q)' <=> InOp(q)
      BY <2>1, Zenon DEF InOp
    <2>3. CountInv'
      BY <2>1, <2>2, IdleCount, Zenon DEF IInv
    <2>4. HeadInv' /\ BlockInv'
      BY <2>1, DiskKept, Zenon DEF IInv, DiskInv, disk
    <2>5. TypeInv' /\ ~panicked'
      BY <2>1, Zenon DEF IInv, DiskInv, TypeInv, Header
    <2>6. ControlInv'
      BY <2>1, Zenon DEF IInv, DiskInv, ControlInv, SleepersBlocked, MustWait, InOp
    <2> QED BY <2>3, <2>4, <2>5, <2>6, Zenon DEF IInv, DiskInv
  <1> QED BY <1>1, <1>2, OpStepIInv, CommitStepIInv, RecoveryIInv, Zenon DEF Next

\* The inductive invariant of begin_op(), log_write(), end_op(), commit() and
\* recover_from_log().
THEOREM LogInductive == Spec => []IInv
  <1>1. Init => IInv
    BY InitIInv, Zenon
  <1>2. IInv /\ [Next]_vars => IInv'
    BY NextIInv, Zenon
  <1> QED BY <1>1, <1>2, PTL DEF Spec

LEMMA IInvReserved ==
    ASSUME IInv
    PROVE  Reserved
  <1>0. DiskInv /\ CountInv
    BY Zenon DEF IInv
  <1>1. TypeOK
    <2>1. tail \in 0..LOGSIZE
      BY <1>0, LogAssumption, SMTT(40) DEF DiskInv, TypeInv, Header, HeadInv
    <2> QED BY <1>0, <2>1, ZenonT(60) DEF DiskInv, TypeInv, Header, TypeOK, Places, Committer
  <1>2. NoPanic
    BY <1>0, Zenon DEF DiskInv, NoPanic
  <1>3. FitsTheLog
    BY <1>0, Nonneg DEF FitsTheLog, size
  <1>4. Counted
    <2> DEFINE C == {p \in Procs : ~InOp(p) /\ pc[p] \notin {"idle", "begin", "sleep"}}
    <2> SUFFICES ASSUME boot = "up"
                 PROVE  /\ outstanding = Cardinality({p \in Procs : InOp(p)})
                        /\ committing => outstanding = 0
                        /\ Cardinality(C) = IF committing THEN 1 ELSE 0
      BY Zenon DEF Counted
    <2>1. outstanding = Cardinality({p \in Procs : InOp(p)})
      BY <1>0, Zenon DEF CountInv, Active
    <2>2. committing => outstanding = 0
      BY <1>0, Zenon DEF CountInv, Tally, DiskInv, ControlInv
    <2>3. C = {p \in Procs : pc[p] \in Committer}
      BY <1>0, Zenon DEF DiskInv, TypeInv, Places, Committer, InOp
    <2>4. CASE committing
      <3>1. PICK p \in Procs : pc[p] \in Committer
        BY <1>0, <2>4, Zenon DEF DiskInv, ControlInv
      <3>2. C = {p}
        BY <1>0, <2>3, <3>1, Zenon DEF DiskInv, ControlInv
      <3>3. Cardinality(C) = 1
        BY <3>2, FS_Singleton, Zenon
      <3> QED BY <2>1, <2>2, <2>4, <3>3, Zenon
    <2>5. CASE ~committing
      <3>1. C = {}
        BY <1>0, <2>3, <2>5, Zenon DEF DiskInv, ControlInv
      <3>2. Cardinality(C) = 0
        BY <3>1, FS_EmptySet, Zenon
      <3> QED BY <2>1, <2>2, <2>5, <3>2, Zenon
    <2> QED BY <2>4, <2>5, Zenon
  <1> QED BY <1>1, <1>2, <1>3, <1>4, Zenon DEF Reserved

\* What begin_op() reserves suffices: whatever the interleaving of system
\* calls, commits and crashes, log_write() never panics, the transaction fits
\* the log's blocks, `outstanding' counts the system calls under way, and the
\* one that commits runs alone.
THEOREM ReservationSuffices == Spec => []Reserved
  BY LogInductive, IInvReserved, PTL

\* No wakeup of begin_op() is lost: a process asleep there still has to wait,
\* and a commit or a system call is under way whose end_op() wakes it.
THEOREM BeginOpWoken == Spec => []SleepersBlocked
  <1>1. IInv => SleepersBlocked
    BY Zenon DEF IInv, DiskInv, ControlInv
  <1> QED BY LogInductive, <1>1, PTL

\* When the last end_op() has returned, everything that system calls wrote is
\* what a recovery would find on disk.
THEOREM CommittedAtRest == Spec => []QuiescentDurable
  <1>1. ASSUME IInv, boot = "up", ~committing, outstanding = 0
        PROVE  durable = cache
    <2>1. \A p \in Procs : ~InOp(p) /\ pc[p] \notin Committer
      BY <1>1, Zenon DEF IInv, DiskInv, ControlInv, CountInv, Tally
    <2>2. ~At("install") /\ ~At("erase")
      BY <2>1, Zenon DEF At, Committer
    <2>3. lh = <<>> /\ dhead = <<>>
      BY <1>1, <2>1, <2>2, Zenon DEF IInv, DiskInv, ControlInv, HeadInv
    <2>4. \A b \in Blocks : cache[b] = home[b]
      BY <1>1, <2>3, SMTT(40) DEF IInv, DiskInv, BlockInv, Logged
    <2> QED BY <1>1, <2>3, <2>4, SMTT(40) DEF IInv, DiskInv, TypeInv, durable
  <1>2. IInv => QuiescentDurable
    BY <1>1, Zenon DEF QuiescentDurable
  <1> QED BY LogInductive, <1>2, PTL

\* Crash-safety: with a crash between any two block writes, of commit() and of
\* recover_from_log() too, what a recovery finds on disk changes only by whole
\* groups of completed system calls.
THEOREM LogIsAtomic == Spec => ImplementsAtomicDisk
  <1>1. Init => AD!Init
    BY InitRefines, Zenon
  <1>2. IInv /\ [Next]_vars => [AD!Next]_(AD!vars)
    BY NextRefines, Zenon DEF IInv
  <1> QED BY <1>1, <1>2, LogInductive, PTL DEF Spec, ImplementsAtomicDisk, AD!Spec
============================================================================
