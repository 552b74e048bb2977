-------------------------------- MODULE Pipe --------------------------------
(***************************************************************************)
(* One pipe (pipe.c) between processes that hold its ends.  The code from  *)
(* acquire(&p->lock) to the next sleep() or return is one action.  nread   *)
(* and nwrite are unsigned counters of width `Wrap'.                       *)
(*                                                                         *)
(* A process's end is closed by sys_close() or exit(); pipeclose() runs    *)
(* when the last descriptor of an end goes (fileclose()).  kill() leaves a *)
(* signal that the process finds when it returns to user mode; only then   *)
(* is p->killed set (Signals.tla).                                         *)
(***************************************************************************)
EXTENDS Integers, Sequences, FiniteSetsExt

CONSTANTS
    Procs, Bytes,
    PIPESIZE,
    Wrap,      \* 2^32 in the code
    Sizes,     \* bytes one read asks for
    Payloads   \* what one write passes

ASSUME PipeAssumption ==
    /\ PIPESIZE \in Nat \ {0} /\ Wrap \in Nat /\ Sizes \subseteq Nat
    /\ \A s \in Payloads : s \in Seq(Bytes)
    /\ Wrap % PIPESIZE = 0 /\ Wrap > PIPESIZE

VARIABLES
    data, nread, nwrite, readopen, writeopen, freed,   \* struct pipe
    fds,         \* the ends a process has descriptors of
    pc,
    left,        \* a writer's bytes not yet written
    n,           \* bytes a reader asked for
    got,         \* what the read that returns has read, {} otherwise
    sigkill, killed

pipeVars == <<data, nread, nwrite, readopen, writeopen, freed>>
vars == <<pipeVars, fds, pc, left, n, got, sigkill, killed>>

count == (nwrite - nread) % Wrap
contents == [i \in 1..count |-> data[(nread + i - 1) % PIPESIZE]]

\* Process p goes on at l and wakes those asleep at `chan', who go on at `back'.
WakeupGoto(p, l, chan, back) ==
    pc' = [q \in Procs |-> IF q = p THEN l ELSE IF pc[q] = chan THEN back ELSE pc[q]]

Goto(p, l) == pc' = [pc EXCEPT ![p] = l]

-----------------------------------------------------------------------------
(* Mutants *)

\* The ring's index is not reduced when the counter is.
FillShifted(s) ==
    /\ data' = [j \in 0..PIPESIZE - 1 |->
                   LET I == {i \in 1..Len(s) : (count + i - 1) % PIPESIZE = j}
                   IN  IF I = {} THEN data[j] ELSE s[Max(I)]]
    /\ nwrite' = (nwrite + Len(s)) % Wrap

\* pipewrite() fills the ring without telling the readers before it sleeps.
pipewriteSilent(p) ==
    /\ pc[p] = "write"
    /\ LET k == Min({Len(left[p]), PIPESIZE - count}) IN
           /\ data' = [j \in 0..PIPESIZE - 1 |->
                          LET I == {i \in 1..k : (nwrite + i - 1) % PIPESIZE = j}
                          IN  IF I = {} THEN data[j] ELSE left[p][Max(I)]]
           /\ nwrite' = (nwrite + k) % Wrap
           /\ left' = [left EXCEPT ![p] = SubSeq(@, k + 1, Len(@))]
    /\ IF left'[p] = <<>> THEN WakeupGoto(p, "ret", "rsleep", "read")
       ELSE Goto(p, IF readopen /\ ~killed[p] THEN "wsleep" ELSE "ret")
    /\ UNCHANGED <<nread, readopen, writeopen, freed, fds, n, got, sigkill, killed>>

\* piperead() goes on only when there is something to read.
pipereadNoEof(p) ==
    /\ pc[p] = "read" /\ count > 0
    /\ LET k == Min({n[p], count}) IN
           /\ got' = [got EXCEPT ![p] = {SubSeq(contents, 1, k)}]
           /\ nread' = (nread + k) % Wrap
    /\ WakeupGoto(p, "ret", "wsleep", "write")
    /\ UNCHANGED <<data, nwrite, readopen, writeopen, freed, fds, left, n, sigkill, killed>>

-----------------------------------------------------------------------------
\* The bytes s go into the ring.
Fill(s) ==
    /\ data' = [j \in 0..PIPESIZE - 1 |->
                   LET I == {i \in 1..Len(s) : (nwrite + i - 1) % PIPESIZE = j}
                   IN  IF I = {} THEN data[j] ELSE s[Max(I)]]
    /\ nwrite' = (nwrite + Len(s)) % Wrap

CallWrite(p, s) ==
    /\ pc[p] = "user" /\ ~killed[p] /\ "w" \in fds[p]
    /\ left' = [left EXCEPT ![p] = s]
    /\ Goto(p, "write")
    /\ UNCHANGED <<pipeVars, fds, n, got, sigkill, killed>>

\* From the start of pipewrite(), or from its sleep(), to a sleep or return.
pipewrite(p) ==
    /\ pc[p] = "write"
    /\ LET k == Min({Len(left[p]), PIPESIZE - count}) IN
           /\ Fill(SubSeq(left[p], 1, k))
           /\ left' = [left EXCEPT ![p] = SubSeq(@, k + 1, Len(@))]
    /\ IF left'[p] = <<>> THEN WakeupGoto(p, "ret", "rsleep", "read")
       ELSE IF readopen /\ ~killed[p] THEN WakeupGoto(p, "wsleep", "rsleep", "read")
       ELSE Goto(p, "ret")
    /\ UNCHANGED <<nread, readopen, writeopen, freed, fds, n, got, sigkill, killed>>

CallRead(p, k) ==
    /\ pc[p] = "user" /\ ~killed[p] /\ "r" \in fds[p]
    /\ n' = [n EXCEPT ![p] = k]
    /\ Goto(p, "read")
    /\ UNCHANGED <<pipeVars, fds, left, got, sigkill, killed>>

piperead(p) ==
    /\ pc[p] = "read"
    /\ count = 0 => ~writeopen
    /\ LET k == Min({n[p], count}) IN
           /\ got' = [got EXCEPT ![p] = {SubSeq(contents, 1, k)}]
           /\ nread' = (nread + k) % Wrap
    /\ WakeupGoto(p, "ret", "wsleep", "write")
    /\ UNCHANGED <<data, nwrite, readopen, writeopen, freed, fds, left, n, sigkill, killed>>

pipereadSleep(p) ==
    /\ pc[p] = "read" /\ count = 0 /\ writeopen
    /\ Goto(p, IF killed[p] THEN "ret" ELSE "rsleep")
    /\ UNCHANGED <<pipeVars, fds, left, n, got, sigkill, killed>>

pipeclose(p, e) ==
    /\ readopen' = (readopen /\ e # "r") /\ writeopen' = (writeopen /\ e # "w")
    /\ WakeupGoto(p, pc[p], IF e = "w" THEN "rsleep" ELSE "wsleep",
                            IF e = "w" THEN "read" ELSE "write")
    /\ freed' = ~(readopen' \/ writeopen')
    /\ UNCHANGED <<data, nread, nwrite>>

\* fileclose(): the last descriptor of an end closes it.
Close(p, e) ==
    /\ pc[p] = "user" /\ e \in fds[p]
    /\ fds' = [fds EXCEPT ![p] = @ \ {e}]
    /\ IF \E q \in Procs : e \in fds'[q] THEN UNCHANGED <<pipeVars, pc>>
                                         ELSE pipeclose(p, e)
    /\ UNCHANGED <<left, n, got, sigkill, killed>>

\* fork(): the child q, new to the pipe, has the parent's descriptors.
Fork(p, q) ==
    /\ pc[p] = "user" /\ pc[q] = "user" /\ fds[p] # {} /\ fds[q] = {}
    /\ ~killed[p] /\ ~killed[q] /\ ~sigkill[q]
    /\ fds' = [fds EXCEPT ![q] = fds[p]]
    /\ UNCHANGED <<pipeVars, pc, left, n, got, sigkill, killed>>

\* kill(p, SIGKILL) changes nothing else: no wakeup.
Kill(p) ==
    /\ ~sigkill[p] /\ sigkill' = [sigkill EXCEPT ![p] = TRUE]
    /\ UNCHANGED <<pipeVars, fds, pc, left, n, got, killed>>

\* handle_signals() on the way to user mode, from a system call or from a
\* clock interrupt; once killed, the next trap calls exit().
handle_signals(p) ==
    /\ pc[p] = "ret" \/ (pc[p] = "user" /\ sigkill[p] /\ ~killed[p])
    /\ killed' = [killed EXCEPT ![p] = sigkill[p]]
    /\ Goto(p, "user")
    /\ left' = [left EXCEPT ![p] = <<>>] /\ n' = [n EXCEPT ![p] = 0]
    /\ got' = [got EXCEPT ![p] = {}]
    /\ UNCHANGED <<pipeVars, fds, sigkill>>

-----------------------------------------------------------------------------
\* After sys_pipe() by one process; kfree() has filled the page with junk.
Init ==
    /\ \E junk \in Bytes : data = [j \in 0..PIPESIZE - 1 |-> junk]
    /\ nread = 0 /\ nwrite = 0
    /\ readopen = TRUE /\ writeopen = TRUE /\ freed = FALSE
    /\ \E p \in Procs : fds = [q \in Procs |-> IF q = p THEN {"r", "w"} ELSE {}]
    /\ pc = [p \in Procs |-> "user"]
    /\ left = [p \in Procs |-> <<>>] /\ n = [p \in Procs |-> 0]
    /\ got = [p \in Procs |-> {}]
    /\ sigkill = [p \in Procs |-> FALSE] /\ killed = [p \in Procs |-> FALSE]

Kernel(p) == pipewrite(p) \/ piperead(p) \/ pipereadSleep(p) \/ handle_signals(p)

User(p) ==
    \/ \E k \in Sizes : CallRead(p, k)
    \/ \E s \in Payloads : CallWrite(p, s)
    \/ \E e \in {"r", "w"} : Close(p, e)
    \/ \E q \in Procs : Fork(p, q)

Next == \E p \in Procs : Kernel(p) \/ User(p) \/ Kill(p)

Spec == Init /\ [][Next]_vars

\* A process in the kernel runs, and one that was killed exits.
FairSpec ==
    Spec /\ \A p \in Procs :
                /\ WF_vars(Kernel(p))
                /\ WF_vars(killed[p] /\ \E e \in {"r", "w"} : Close(p, e))

-----------------------------------------------------------------------------
\* Types; the counters differ by at most the ring's size, also when they wrap.
TypeOK ==
    /\ data \in [0..PIPESIZE - 1 -> Bytes] /\ {nread, nwrite} \subseteq 0..Wrap - 1
    /\ count <= PIPESIZE
    /\ {readopen, writeopen, freed} \subseteq BOOLEAN
    /\ fds \in [Procs -> SUBSET {"r", "w"}]
    /\ pc \in [Procs -> {"user", "ret", "read", "write", "rsleep", "wsleep"}]
    /\ \A p \in Procs : left[p] \in Seq(Bytes)
    /\ \A p \in Procs : \A s \in got[p] : s \in Seq(Bytes) /\ Len(s) <= n[p]
    /\ n \in [Procs -> Sizes \cup {0}] /\ {sigkill, killed} \subseteq [Procs -> BOOLEAN]

ST == INSTANCE Stream WITH Capacity <- PIPESIZE, queue <- contents, open <- writeopen

\* The ring with its wrapping counters is a first-in first-out stream, and a
\* read finds it empty and returns only after the last writer has closed.
ImplementsStream == ST!Spec

\* No lost wakeup: a reader sleeps only while the pipe is empty and can still
\* be written, a writer only while it is full and can still be read.
SleepersBlocked ==
    \A p \in Procs :
        /\ pc[p] = "rsleep" => count = 0 /\ writeopen
        /\ pc[p] = "wsleep" => count = PIPESIZE /\ readopen

\* The pipe is freed when its last descriptor is closed, never earlier.
FreedAtLastClose == freed <=> \A p \in Procs : fds[p] = {}

\* The pipe's invariant: its types, nobody asleep without cause, freed once.
Inv == TypeOK /\ SleepersBlocked /\ FreedAtLastClose

\* Closing an end returns every process blocked at the other.
CloseUnblocks ==
    \A p \in Procs :
        /\ (pc[p] \in {"read", "rsleep"} /\ ~writeopen) ~> pc[p] = "ret"
        /\ (pc[p] \in {"write", "wsleep"} /\ ~readopen) ~> pc[p] = "ret"

\* SIGKILL ends a process that is blocked on the pipe.
KillUnblocks == \A p \in Procs : sigkill[p] ~> killed[p]
=============================================================================
