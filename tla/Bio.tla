-------------------------------- MODULE Bio --------------------------------
(***************************************************************************)
(* The buffer cache (bio.c) over the IDE driver (ide.c).  Code under       *)
(* bcache.lock or idelock is atomic; a buffer's sleep lock is SleepLock's, *)
(* held by a process from acquiresleep() in bget() to brelse().            *)
(*                                                                         *)
(* The processes are the callers of bread(): each takes a block, writes it *)
(* through (bwrite) or hands it to the log (log_write, which pins the      *)
(* buffer with B_DIRTY until a later bwrite), and releases it.  `latest',  *)
(* a history variable, has what was last written to every block.           *)
(***************************************************************************)
EXTENDS Integers, Sequences, FiniteSets, FiniteSetsExt

CONSTANTS
    Procs, NoProc, Blocks, NoBlock, Values,
    NBUF,
    MaxPins   \* buffers the log keeps dirty at most

ASSUME BioAssumption ==
    /\ NBUF \in Nat \ {0} /\ MaxPins \in Nat /\ IsFiniteSet(Procs) /\ Values # {}
    /\ NoProc \notin Procs /\ NoBlock \notin Blocks

Bufs == 1..NBUF

VARIABLES
    blockno, valid, dirty, refcnt, data,   \* struct buf
    lru,                                   \* bcache.head, most recent first
    locked, pid, chan,                     \* b->lock
    idequeue, disk,
    pc, b,                                 \* a process's control; its buffer
    latest, panicked

bufVars == <<blockno, valid, dirty, refcnt, data, lru>>
lkVars == <<locked, pid, chan>>
ideVars == <<idequeue, disk>>
vars == <<bufVars, lkVars, ideVars, pc, b, latest, panicked>>

\* A process acquires the buffer's lock at "lock" and holds it at these.
Holds(p) == pc[p] \in {"have", "iderw", "wait"}

SL == INSTANCE SleepLock WITH
          Lks <- Bufs,
          want <- [p \in Procs |-> IF pc[p] = "lock" THEN b[p] ELSE 0],
          cs <- [p \in Procs |-> IF Holds(p) THEN {b[p]} ELSE {}]

Goto(p, l) == pc' = [pc EXCEPT ![p] = l]

\* idestart(r), with the interrupt handler's or iderw()'s queue already set: a
\* write gives the device the data now, a read gets it in ideintr().
idestart(r) == disk' = IF dirty[r] THEN [disk EXCEPT ![blockno[r]] = data[r]] ELSE disk

\* The list with buffer r unlinked and put after bcache.head.
MoveFirst(r) ==
    LET k == CHOOSE i \in Bufs : lru[i] = r
    IN  [i \in Bufs |-> IF i = 1 THEN r ELSE IF i <= k THEN lru[i - 1] ELSE lru[i]]

-----------------------------------------------------------------------------
(* Mutants *)

\* The flags of the recycled buffer are kept.
RecycleFlags(p, n, r) ==
    /\ blockno' = [blockno EXCEPT ![r] = n]
    /\ refcnt' = [refcnt EXCEPT ![r] = 1]
    /\ b' = [b EXCEPT ![p] = r] /\ Goto(p, "lock")
    /\ UNCHANGED <<valid, dirty, data, lru, panicked>>

\* brelse() drops the reference only when nobody else has one.
brelsePutOnce(p) ==
    /\ pc[p] = "put" /\ Goto(p, "idle")
    /\ refcnt' = IF refcnt[b[p]] = 1 THEN [refcnt EXCEPT ![b[p]] = 0] ELSE refcnt
    /\ lru' = IF refcnt[b[p]] > 1 THEN lru ELSE MoveFirst(b[p])
    /\ UNCHANGED <<blockno, valid, dirty, data, lkVars, ideVars, b, latest, panicked>>

\* acquiresleep() does not test the lock again.
LockWoken(p) ==
    /\ pc[p] = "lock" /\ SL!TakeWoken(p, b[p])
    /\ Goto(p, IF valid[b[p]] THEN "have" ELSE "iderw")
    /\ UNCHANGED <<bufVars, ideVars, b, latest, panicked>>

\* iderw() puts its request first.
iderwFirst(p) ==
    /\ pc[p] = "iderw"
    /\ idequeue' = <<b[p]>> \o idequeue
    /\ idestart(b[p]) /\ Goto(p, "wait")
    /\ UNCHANGED <<bufVars, lkVars, b, latest, panicked>>

-----------------------------------------------------------------------------
(* bget() *)

Cached(n) == {r \in Bufs : blockno[r] = n}

Recyclable(r) == refcnt[r] = 0 /\ ~dirty[r]

Hit(p, r) ==
    /\ refcnt' = [refcnt EXCEPT ![r] = @ + 1]
    /\ b' = [b EXCEPT ![p] = r] /\ Goto(p, "lock")
    /\ UNCHANGED <<blockno, valid, dirty, data, lru, panicked>>

Recycle(p, n, r) ==
    /\ blockno' = [blockno EXCEPT ![r] = n]
    /\ valid' = [valid EXCEPT ![r] = FALSE] /\ dirty' = [dirty EXCEPT ![r] = FALSE]
    /\ refcnt' = [refcnt EXCEPT ![r] = 1]
    /\ b' = [b EXCEPT ![p] = r] /\ Goto(p, "lock")
    /\ UNCHANGED <<data, lru, panicked>>

bget(p, n) ==
    /\ pc[p] = "idle"
    /\ LET free == {i \in 1..NBUF : Recyclable(lru[i])} IN
           \/ \E r \in Cached(n) : Hit(p, r)
           \/ Cached(n) = {} /\ free # {} /\ Recycle(p, n, lru[Max(free)])
           \/ /\ Cached(n) = {} /\ free = {} /\ panicked' = TRUE
              /\ UNCHANGED <<bufVars, pc, b>>
    /\ UNCHANGED <<lkVars, ideVars, latest>>

\* acquiresleep(&b->lock), then bread()'s test of B_VALID under it.
Lock(p) ==
    /\ pc[p] = "lock" /\ SL!Take(p, b[p])
    /\ Goto(p, IF valid[b[p]] THEN "have" ELSE "iderw")
    /\ UNCHANGED <<bufVars, ideVars, b, latest, panicked>>

LockWait(p) ==
    /\ pc[p] = "lock" /\ SL!Block(p, b[p])
    /\ UNCHANGED <<bufVars, ideVars, pc, b, latest, panicked>>

Killed(p) ==
    SL!WokenByKill(p) /\ UNCHANGED <<bufVars, ideVars, pc, b, latest, panicked>>

-----------------------------------------------------------------------------
(* The holder of the buffer *)

Modify(p, v) ==
    /\ data' = [data EXCEPT ![b[p]] = v] /\ dirty' = [dirty EXCEPT ![b[p]] = TRUE]
    /\ latest' = [latest EXCEPT ![blockno[b[p]]] = v]
    /\ panicked' = ~SL!holdingsleep(p, b[p])
    /\ UNCHANGED <<blockno, valid, refcnt, lru, lkVars, ideVars, b>>

bwrite(p, v) == pc[p] = "have" /\ Modify(p, v) /\ Goto(p, "iderw")

\* The log pins the buffer.
log_write(p, v) ==
    /\ pc[p] = "have" /\ Modify(p, v)
    /\ Cardinality({r \in Bufs : dirty'[r]}) <= MaxPins
    /\ UNCHANGED pc

\* brelse() up to releasesleep(), and the rest, under bcache.lock.
brelse(p) ==
    /\ pc[p] = "have" /\ Goto(p, "put")
    /\ SL!Free(p, b[p])
    /\ panicked' = ~SL!holdingsleep(p, b[p])
    /\ UNCHANGED <<bufVars, ideVars, b, latest>>

brelsePut(p) ==
    /\ pc[p] = "put" /\ Goto(p, "idle")
    /\ refcnt' = [refcnt EXCEPT ![b[p]] = @ - 1]
    /\ lru' = IF refcnt[b[p]] > 1 THEN lru ELSE MoveFirst(b[p])
    /\ UNCHANGED <<blockno, valid, dirty, data, lkVars, ideVars, b, latest, panicked>>

-----------------------------------------------------------------------------
(* The driver *)

iderw(p) ==
    /\ pc[p] = "iderw"
    /\ IF ~SL!holdingsleep(p, b[p]) \/ (valid[b[p]] /\ ~dirty[b[p]])
       THEN panicked' = TRUE /\ UNCHANGED <<ideVars, pc>>
       ELSE /\ idequeue' = Append(idequeue, b[p])
            /\ IF Head(idequeue') = b[p] THEN idestart(b[p]) ELSE UNCHANGED disk
            /\ Goto(p, "wait") /\ UNCHANGED panicked
    /\ UNCHANGED <<bufVars, lkVars, b, latest>>

\* The device has finished the first request.
ideintr ==
    /\ idequeue # <<>>
    /\ LET r == Head(idequeue) IN
           /\ idequeue' = Tail(idequeue)
           /\ data' = IF dirty[r] THEN data ELSE [data EXCEPT ![r] = disk[blockno[r]]]
           /\ valid' = [valid EXCEPT ![r] = TRUE]
           /\ dirty' = [dirty EXCEPT ![r] = FALSE]
           /\ pc' = [p \in Procs |-> IF pc[p] = "wait" /\ b[p] = r THEN "have" ELSE pc[p]]
    /\ IF idequeue' # <<>> THEN idestart(Head(idequeue')) ELSE UNCHANGED disk
    /\ UNCHANGED <<blockno, refcnt, lru, lkVars, b, latest, panicked>>

-----------------------------------------------------------------------------
\* binit(): the list is built backwards; no buffer has a block of the disk.
Init ==
    /\ blockno = [r \in Bufs |-> NoBlock] /\ refcnt = [r \in Bufs |-> 0]
    /\ valid = [r \in Bufs |-> FALSE] /\ dirty = [r \in Bufs |-> FALSE]
    /\ disk \in [Blocks -> Values] /\ latest = disk
    /\ data = [r \in Bufs |-> CHOOSE v \in Values : TRUE]
    /\ lru = [i \in Bufs |-> NBUF + 1 - i]
    /\ locked = [r \in Bufs |-> FALSE] /\ pid = [r \in Bufs |-> NoProc]
    /\ chan = [p \in Procs |-> 0] /\ idequeue = <<>>
    /\ pc = [p \in Procs |-> "idle"] /\ b = [p \in Procs |-> 0]
    /\ panicked = FALSE

Step(p) ==
    \/ Lock(p) \/ LockWait(p) \/ brelse(p) \/ brelsePut(p) \/ iderw(p) \/ Killed(p)
    \/ \E n \in Blocks : bget(p, n)
    \/ \E v \in Values : bwrite(p, v) \/ log_write(p, v)

Next == ~panicked /\ (ideintr \/ \E p \in Procs : Step(p))

Spec == Init /\ [][Next]_vars

\* The device answers.
FairSpec == Spec /\ WF_vars(~panicked /\ ideintr)

-----------------------------------------------------------------------------
\* Types; the list has every buffer once.
TypeOK ==
    /\ blockno \in [Bufs -> Blocks \cup {NoBlock}] /\ refcnt \in [Bufs -> 0..Cardinality(Procs)]
    /\ {valid, dirty, locked} \subseteq [Bufs -> BOOLEAN]
    /\ data \in [Bufs -> Values] /\ {disk, latest} \subseteq [Blocks -> Values]
    /\ lru \in [Bufs -> Bufs] /\ \A i, j \in Bufs : lru[i] = lru[j] => i = j
    /\ pid \in [Bufs -> Procs \cup {NoProc}] /\ {chan, b} \subseteq [Procs -> 0..NBUF]
    /\ idequeue \in Seq(Bufs) /\ panicked \in BOOLEAN
    /\ pc \in [Procs -> {"idle", "lock", "iderw", "wait", "have", "put"}]

\* No block is in two buffers: what bget() does under bcache.lock suffices.
OneBufferPerBlock ==
    \A r, s \in Bufs : blockno[r] = blockno[s] /\ blockno[r] # NoBlock => r = s

\* bread() returns what was last written to the block, by whichever process.
ReadsLatest ==
    \A p \in Procs : pc[p] = "have" =>
        valid[b[p]] /\ data[b[p]] = latest[blockno[b[p]]]

\* What the disk does not have yet is in the cache: a buffer the log pinned
\* is not recycled.
PinnedKept ==
    \A n \in Blocks : disk[n] # latest[n] =>
        \E r \in Bufs : blockno[r] = n /\ dirty[r] /\ data[r] = latest[n]

\* The cache is coherent: one buffer for a block, bread() returns what was
\* last written to it by whichever process, and no buffer that has what the
\* disk lacks is recycled.
Coherent == OneBufferPerBlock /\ ReadsLatest /\ PinnedKept

\* A buffer has as many references as processes between bget() and the end of
\* brelse(), so none is recycled under a process that waits for it; and the
\* driver's queue has exactly the buffers processes wait for, once each.
RefsCounted ==
    \A r \in Bufs :
        /\ refcnt[r] = Cardinality({p \in Procs : pc[p] # "idle" /\ b[p] = r})
        /\ Cardinality({i \in 1..Len(idequeue) : idequeue[i] = r})
               = Cardinality({p \in Procs : pc[p] = "wait" /\ b[p] = r})

\* The holder is the one that releases and writes, iderw() has something to
\* do, and bget() finds a buffer unless the log pins so many that there is
\* not one for every process.
NoPanic ==
    panicked => Cardinality({r \in Bufs : dirty[r] /\ refcnt[r] = 0})
                    + Cardinality(Procs) > NBUF

\* Counts, types and the list of buffers are right, and no panic is reached.
BuffersCounted == TypeOK /\ RefsCounted /\ NoPanic

\* The buffers' locks are used as SleepLock's client uses them.
UsesSleepLocks == SL!Spec

\* A process that waits for the disk gets its buffer, unless the kernel panics.
IoCompletes == \A p \in Procs : pc[p] = "wait" ~> (pc[p] = "have" \/ panicked)
=============================================================================
