-------------------------------- MODULE Log --------------------------------
(***************************************************************************)
(* The redo log of log.c.  Processes run FS system calls between begin_op  *)
(* and end_op; the last one to end commits for all.  The machine may crash *)
(* between any two block writes, also during recovery.                     *)
(*                                                                         *)
(* A block's contents are a value.  cache is what bread() returns: the     *)
(* pinned buffer of a logged block, else what the disk has (Bio.tla).      *)
(* Code under log.lock is atomic; commit() runs without it, one block      *)
(* write per action.                                                       *)
(***************************************************************************)
EXTENDS Integers, Sequences, FiniteSets

CONSTANTS
    Procs, Blocks, Values,
    MAXOPBLOCKS, LOGSIZE,  \* param.h
    OpBlocks,              \* blocks a system call writes at most
    MaxCrashes             \* bound on crashes

ASSUME LogAssumption ==
    /\ MAXOPBLOCKS \in Nat \ {0} /\ LOGSIZE \in Nat /\ OpBlocks \in Nat
    /\ LOGSIZE >= MAXOPBLOCKS

\* System calls write fewer blocks than begin_op() reserves for them: a chunk
\* of filewrite() at most 4 data blocks, an indirect block, the inode's block
\* and one of the bitmap, of MAXOPBLOCKS = 10 and LOGSIZE = 30.
ASSUME OpAssumption == OpBlocks < MAXOPBLOCKS /\ OpBlocks + 2 <= LOGSIZE

VARIABLES
    home, dlog, dhead,       \* disk: blocks, log blocks, header's block list
    cache, lh, outstanding, committing,
    pc, wrote,               \* a process's control; the blocks its call wrote
    tail,                    \* loop variable of the three block loops
    boot,                    \* recovery's control, "up" once it is done
    panicked, crashes

disk == <<home, dlog, dhead>>
logVars == <<lh, outstanding, committing>>
vars == <<disk, cache, logVars, pc, wrote, tail, boot, panicked, crashes>>

\* mkfs gives the log, header included, LOGSIZE blocks (sb.nlog).
size == LOGSIZE

Runs(p, l) == boot = "up" /\ ~panicked /\ pc[p] = l
Goto(p, l) == pc' = [pc EXCEPT ![p] = l]

\* wakeup(&log), by a process that goes on at l.
WakeupGoto(p, l) ==
    pc' = [q \in Procs |-> IF q = p THEN l
                           ELSE IF pc[q] = "sleep" THEN "begin" ELSE pc[q]]

-----------------------------------------------------------------------------
(* Mutants: the operations below with a plausible error.                   *)

\* begin_op() counts the blocks logged, not those reserved.
BeginOpUnreserved(p) ==
    /\ Runs(p, "begin") /\ Goto(p, "op")
    /\ ~committing /\ Len(lh) + MAXOPBLOCKS <= LOGSIZE
    /\ outstanding' = outstanding + 1
    /\ wrote' = [wrote EXCEPT ![p] = {}]
    /\ UNCHANGED <<disk, cache, lh, committing, tail, boot, panicked, crashes>>

\* The header is written before the last log block.
WriteLogShort(p) ==
    /\ Runs(p, "write_log")
    /\ IF tail < Len(lh) - 1
       THEN /\ dlog' = [dlog EXCEPT ![tail + 1] = cache[lh[tail + 1]]]
            /\ tail' = tail + 1 /\ UNCHANGED pc
       ELSE tail' = 0 /\ Goto(p, "write_head") /\ UNCHANGED dlog
    /\ UNCHANGED <<home, dhead, cache, logVars, wrote, boot, panicked, crashes>>

\* The last end_op() leaves the commit to a later one.
EndOpNoCommit(p) ==
    /\ Runs(p, "op") /\ WakeupGoto(p, "idle")
    /\ outstanding' = outstanding - 1
    /\ UNCHANGED <<disk, cache, lh, committing, wrote, tail, boot, panicked,
                   crashes>>

\* end_op() wakes nobody after its commit.
CommitDoneSilent(p) ==
    /\ Runs(p, "commit_done") /\ Goto(p, "idle")
    /\ committing' = FALSE
    /\ UNCHANGED <<disk, cache, lh, outstanding, wrote, tail, boot, panicked,
                   crashes>>

-----------------------------------------------------------------------------
(* begin_op(), log_write(), end_op() *)

Syscall(p) ==
    /\ Runs(p, "idle") /\ Goto(p, "begin")
    /\ UNCHANGED <<disk, cache, logVars, wrote, tail, boot, panicked, crashes>>

MustWait == committing \/ Len(lh) + (outstanding + 1) * MAXOPBLOCKS > LOGSIZE

BeginOp(p) ==
    /\ Runs(p, "begin") /\ ~MustWait /\ Goto(p, "op")
    /\ outstanding' = outstanding + 1
    /\ wrote' = [wrote EXCEPT ![p] = {}]
    /\ UNCHANGED <<disk, cache, lh, committing, tail, boot, panicked, crashes>>

BeginSleep(p) ==
    /\ Runs(p, "begin") /\ MustWait /\ Goto(p, "sleep")
    /\ UNCHANGED <<disk, cache, logVars, wrote, tail, boot, panicked, crashes>>

\* log_write() tests the length of the log before it takes log.lock.
LogCheck(p) ==
    /\ Runs(p, "op")
    /\ IF Len(lh) >= LOGSIZE \/ Len(lh) >= size - 1 \/ outstanding < 1
       THEN panicked' = TRUE /\ UNCHANGED pc
       ELSE Goto(p, "log_write") /\ UNCHANGED panicked
    /\ UNCHANGED <<disk, cache, logVars, wrote, tail, boot, crashes>>

\* The caller has given the locked buffer of block b the contents v.
LogAppend(p, b, v) ==
    /\ Runs(p, "log_write") /\ Goto(p, "op")
    /\ Cardinality(wrote[p] \cup {b}) <= OpBlocks
    /\ wrote' = [wrote EXCEPT ![p] = @ \cup {b}]
    /\ cache' = [cache EXCEPT ![b] = v]
    /\ lh' = IF \E i \in 1..Len(lh) : lh[i] = b THEN lh ELSE Append(lh, b)
    /\ UNCHANGED <<disk, outstanding, committing, tail, boot, panicked, crashes>>

EndOp(p) ==
    /\ Runs(p, "op")
    /\ outstanding' = outstanding - 1
    /\ panicked' = committing
    /\ IF outstanding = 1
       THEN /\ committing' = TRUE
            /\ Goto(p, IF lh = <<>> THEN "commit_done" ELSE "write_log")
       ELSE WakeupGoto(p, "idle") /\ UNCHANGED committing
    /\ UNCHANGED <<disk, cache, lh, wrote, tail, boot, crashes>>

-----------------------------------------------------------------------------
(* commit() *)

WriteLog(p) ==
    /\ Runs(p, "write_log")
    /\ IF tail < Len(lh)
       THEN /\ dlog' = [dlog EXCEPT ![tail + 1] = cache[lh[tail + 1]]]
            /\ tail' = tail + 1 /\ UNCHANGED pc
       ELSE tail' = 0 /\ Goto(p, "write_head") /\ UNCHANGED dlog
    /\ UNCHANGED <<home, dhead, cache, logVars, wrote, boot, panicked, crashes>>

\* "the real commit"
WriteHead(p) ==
    /\ Runs(p, "write_head") /\ Goto(p, "install")
    /\ dhead' = lh
    /\ UNCHANGED <<home, dlog, cache, logVars, wrote, tail, boot, panicked,
                   crashes>>

InstallTrans(p) ==
    /\ Runs(p, "install")
    /\ IF tail < Len(lh)
       THEN /\ home' = [home EXCEPT ![lh[tail + 1]] = dlog[tail + 1]]
            /\ cache' = [cache EXCEPT ![lh[tail + 1]] = dlog[tail + 1]]
            /\ tail' = tail + 1 /\ UNCHANGED <<pc, lh>>
       ELSE tail' = 0 /\ lh' = <<>> /\ Goto(p, "erase") /\ UNCHANGED <<home, cache>>
    /\ UNCHANGED <<dlog, dhead, outstanding, committing, wrote, boot, panicked,
                   crashes>>

Erase(p) ==
    /\ Runs(p, "erase") /\ Goto(p, "commit_done")
    /\ dhead' = lh
    /\ UNCHANGED <<home, dlog, cache, logVars, wrote, tail, boot, panicked,
                   crashes>>

CommitDone(p) ==
    /\ Runs(p, "commit_done") /\ WakeupGoto(p, "idle")
    /\ committing' = FALSE
    /\ UNCHANGED <<disk, cache, lh, outstanding, wrote, tail, boot, panicked,
                   crashes>>

-----------------------------------------------------------------------------
(* Crash and recover_from_log() *)

Crash ==
    /\ crashes < MaxCrashes /\ crashes' = crashes + 1
    /\ cache' = home /\ lh' = <<>> /\ outstanding' = 0 /\ committing' = FALSE
    /\ pc' = [p \in Procs |-> "idle"] /\ wrote' = [p \in Procs |-> {}]
    /\ tail' = 0 /\ boot' = "read_head" /\ panicked' = FALSE
    /\ UNCHANGED disk

ReadHead ==
    /\ boot = "read_head" /\ boot' = "install"
    /\ lh' = dhead
    /\ UNCHANGED <<disk, cache, outstanding, committing, pc, wrote, tail,
                   panicked, crashes>>

RecoverInstall ==
    /\ boot = "install"
    /\ IF tail < Len(lh)
       THEN /\ home' = [home EXCEPT ![lh[tail + 1]] = dlog[tail + 1]]
            /\ cache' = [cache EXCEPT ![lh[tail + 1]] = dlog[tail + 1]]
            /\ tail' = tail + 1 /\ UNCHANGED <<boot, lh>>
       ELSE tail' = 0 /\ lh' = <<>> /\ boot' = "erase" /\ UNCHANGED <<home, cache>>
    /\ UNCHANGED <<dlog, dhead, outstanding, committing, pc, wrote, panicked,
                   crashes>>

RecoverErase ==
    /\ boot = "erase" /\ boot' = "up"
    /\ dhead' = lh
    /\ UNCHANGED <<home, dlog, cache, logVars, pc, wrote, tail, panicked,
                   crashes>>

-----------------------------------------------------------------------------
\* A booted system on a disk made by mkfs, which clears the log.
Init ==
    /\ home \in [Blocks -> Values] /\ cache = home
    /\ (\E zero \in Values : dlog = [i \in 1..LOGSIZE |-> zero]) /\ dhead = <<>>
    /\ lh = <<>> /\ outstanding = 0 /\ committing = FALSE
    /\ pc = [p \in Procs |-> "idle"] /\ wrote = [p \in Procs |-> {}]
    /\ tail = 0 /\ boot = "up" /\ panicked = FALSE /\ crashes = 0

CommitStep(p) ==
    WriteLog(p) \/ WriteHead(p) \/ InstallTrans(p) \/ Erase(p) \/ CommitDone(p)

OpStep(p) ==
    \/ Syscall(p) \/ BeginOp(p) \/ BeginSleep(p) \/ LogCheck(p) \/ EndOp(p)
    \/ \E b \in Blocks, v \in Values : LogAppend(p, b, v)

Recovery == ReadHead \/ RecoverInstall \/ RecoverErase

Next == Crash \/ Recovery \/ \E p \in Procs : OpStep(p) \/ CommitStep(p)

Spec == Init /\ [][Next]_vars

-----------------------------------------------------------------------------
\* The disk as recovery would leave it.
durable ==
    [b \in Blocks |-> IF \E i \in 1..Len(dhead) : dhead[i] = b
                      THEN dlog[CHOOSE i \in 1..Len(dhead) : dhead[i] = b]
                      ELSE home[b]]

InOp(p) == pc[p] \in {"op", "log_write"}

AD == INSTANCE AtomicDisk WITH
          mem <- IF boot = "up" THEN cache ELSE durable,
          active <- {p \in Procs : InOp(p)}

\* Types; the header never has more entries than block[LOGSIZE].
TypeOK ==
    /\ {home, cache} \subseteq [Blocks -> Values]
    /\ dlog \in [1..LOGSIZE -> Values]
    /\ \A h \in {lh, dhead} :
           /\ h \in Seq(Blocks) /\ Len(h) <= LOGSIZE
           /\ \A i, j \in 1..Len(h) : h[i] = h[j] => i = j
    /\ outstanding \in Nat /\ committing \in BOOLEAN /\ panicked \in BOOLEAN
    /\ tail \in 0..LOGSIZE
    /\ pc \in [Procs -> {"idle", "begin", "sleep", "op", "log_write",
                         "write_log", "write_head", "install", "erase", "commit_done"}]
    /\ wrote \in [Procs -> SUBSET Blocks]
    /\ boot \in {"read_head", "install", "erase", "up"}

\* Crash-safety: with crashes between any two writes, commit() and
\* recover_from_log() implement a disk that changes by whole groups of
\* completed system calls.
ImplementsAtomicDisk == AD!Spec

\* When no system call runs and no commit is under way, everything the
\* processes see is on disk: end_op() of the last one returns after its commit.
QuiescentDurable ==
    (boot = "up" /\ ~committing /\ outstanding = 0) => durable = cache

\* outstanding counts the system calls under way, and commit() runs alone:
\* nobody changes the log or a logged block under it.
Counted ==
    boot = "up" =>
        /\ outstanding = Cardinality({p \in Procs : InOp(p)})
        /\ committing => outstanding = 0
        /\ Cardinality({p \in Procs : ~InOp(p) /\ pc[p] \notin {"idle", "begin", "sleep"}})
               = IF committing THEN 1 ELSE 0

\* log_write() never finds the log full.
NoPanic == ~panicked

\* The transaction fits the log's blocks after the header, as the test in
\* log_write() is there to ensure.
FitsTheLog == Len(lh) <= size - 1

\* What begin_op() reserves suffices: with system calls that keep below
\* MAXOPBLOCKS, log_write() neither panics nor runs past the log's last block;
\* the reservations are counted by `outstanding'.
Reserved == TypeOK /\ Counted /\ NoPanic /\ FitsTheLog

\* No lost wakeup: a process sleeps in begin_op() only while it has to, and
\* then a commit or a system call is under way whose end_op() wakes it.
SleepersBlocked ==
    \A p \in Procs : (pc[p] = "sleep" /\ ~panicked)
        => MustWait /\ (committing \/ \E q \in Procs : InOp(q))
=============================================================================
