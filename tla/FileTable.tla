----------------------------- MODULE FileTable -----------------------------
(***************************************************************************)
(* Open files: the table of file.c, the descriptors of every process, and  *)
(* the system calls that change them, with their failures.  A file stands  *)
(* for an inode or one end of a pipe.  Code under ftable.lock, or under    *)
(* the lock of the pipe or of the inode cache, is atomic; what a process   *)
(* does with its own descriptors goes with the next such step.             *)
(***************************************************************************)
EXTENDS Integers, Sequences, FiniteSets, FiniteSetsExt

CONSTANTS Procs, InitProc, Inodes, Root, Pipes, Nil, NFILE, NOFILE

Files == 1..NFILE
Fds == 1..NOFILE
Ends == Pipes \X {"r", "w"}

ASSUME FileAssumption ==
    /\ InitProc \in Procs /\ Root \in Inodes /\ IsFiniteSet(Procs)
    /\ NFILE \in Nat \ {0} /\ NOFILE \in Nat \ {0}
    /\ Nil \notin Inodes \cup Ends /\ Inodes \cap Ends = {}

VARIABLES
    ref, obj,     \* struct file: count; inode or pipe end, Nil for FD_NONE
    ofile, cwd,   \* struct proc; 0 is no file
    iref,         \* references to an inode (ip->ref)
    open,         \* pipe ends that are open (readopen, writeopen)
    pages,        \* pipes that are allocated
    pc,
    mine,         \* files the running call still has to install or close
    ff,           \* what fileclose() has still to release
    ip,           \* inode the running call has a reference to
    panicked

tab == <<ref, obj>>
objs == <<iref, open, pages>>
locals == <<mine, ff, ip>>
vars == <<tab, ofile, cwd, objs, pc, locals, panicked>>

Goto(p, l) == pc' = [pc EXCEPT ![p] = l]
Closing(p) == pc[p] \in {"close", "exit_close"}
FreeFds(p) == {fd \in Fds : ofile[p][fd] = 0}

\* A call begins: no other is running in this process.
Call(p, l) == pc[p] = "user" /\ Goto(p, l)

-----------------------------------------------------------------------------
(* Mutants *)

\* fileclose() looks at the file again after it has released the lock.
filecloseLate(p) ==
    /\ Closing(p) /\ ff[p] = Nil /\ mine[p] # <<>>
    /\ LET f == Head(mine[p]) IN
           /\ panicked' = (ref[f] < 1)
           /\ ref' = [ref EXCEPT ![f] = @ - 1]
           /\ obj' = IF ref[f] > 1 THEN obj ELSE [obj EXCEPT ![f] = Nil]
           /\ ff' = [ff EXCEPT ![p] = IF ref[f] > 1 THEN Nil ELSE obj'[f]]
    /\ mine' = [mine EXCEPT ![p] = Tail(@)]
    /\ UNCHANGED <<ofile, cwd, objs, pc, ip>>

-----------------------------------------------------------------------------
(* file.c *)

\* filealloc() returns f.
filealloc(f) == f = Min({g \in Files : ref[g] = 0}) /\ ref' = [ref EXCEPT ![f] = 1]

NoFile == \A f \in Files : ref[f] # 0

\* fileclose() of the next file, up to release(&ftable.lock).
fileclose(p) ==
    /\ Closing(p) /\ ff[p] = Nil /\ mine[p] # <<>>
    /\ LET f == Head(mine[p]) IN
           /\ panicked' = (ref[f] < 1)
           /\ ref' = [ref EXCEPT ![f] = @ - 1]
           /\ ff' = [ff EXCEPT ![p] = IF ref[f] > 1 THEN Nil ELSE obj[f]]
           /\ obj' = IF ref[f] > 1 THEN obj ELSE [obj EXCEPT ![f] = Nil]
    /\ mine' = [mine EXCEPT ![p] = Tail(@)]
    /\ UNCHANGED <<ofile, cwd, objs, pc, ip>>

\* The rest of it: iput(), or pipeclose(), which frees the pipe with its
\* second end.
Release(p) ==
    /\ Closing(p) /\ ff[p] # Nil /\ ff' = [ff EXCEPT ![p] = Nil]
    /\ IF ff[p] \in Inodes
       THEN iref' = [iref EXCEPT ![ff[p]] = @ - 1] /\ UNCHANGED <<open, pages>>
       ELSE /\ open' = open \ {ff[p]}
            /\ pages' = IF \E e \in open' : e[1] = ff[p][1] THEN pages
                        ELSE pages \ {ff[p][1]}
            /\ UNCHANGED iref
    /\ UNCHANGED <<tab, ofile, cwd, pc, mine, ip, panicked>>

\* A call that failed, or sys_close(), is through with its files: it puts the
\* inode it has, if any, and returns.
Done(p) ==
    /\ Closing(p) /\ ff[p] = Nil /\ mine[p] = <<>>
    /\ iref' = IF ip[p] = Nil THEN iref ELSE [iref EXCEPT ![ip[p]] = @ - 1]
    /\ ip' = [ip EXCEPT ![p] = Nil]
    /\ Goto(p, IF pc[p] = "close" THEN "user" ELSE "exit")
    /\ UNCHANGED <<tab, ofile, cwd, open, pages, mine, ff, panicked>>

-----------------------------------------------------------------------------
(* sys_pipe(), pipealloc() *)

sys_pipe(p) ==
    /\ Call(p, "pipe_w") /\ ~NoFile
    /\ \E f \in Files : filealloc(f) /\ mine' = [mine EXCEPT ![p] = <<f>>]
    /\ UNCHANGED <<obj, ofile, cwd, objs, ff, ip, panicked>>

PipeW(p) ==
    /\ pc[p] = "pipe_w"
    /\ IF NoFile THEN Goto(p, "close") /\ UNCHANGED <<ref, mine>>
       ELSE /\ Goto(p, "pipe_k")
            /\ \E f \in Files : filealloc(f) /\ mine' = [mine EXCEPT ![p] = Append(@, f)]
    /\ UNCHANGED <<obj, ofile, cwd, objs, ff, ip, panicked>>

\* The two fdalloc() of sys_pipe(); without a second one the first is undone.
pipeFds(p) ==
    IF Cardinality(FreeFds(p)) < 2
    THEN Goto(p, "close") /\ UNCHANGED <<ofile, mine>>
    ELSE /\ \E a, b \in FreeFds(p) :
                /\ a < b /\ \A c \in FreeFds(p) : c = a \/ c >= b
                /\ ofile' = [ofile EXCEPT ![p][a] = mine[p][1], ![p][b] = mine[p][2]]
         /\ mine' = [mine EXCEPT ![p] = <<>>]
         /\ Goto(p, "user")

\* kalloc() may fail at any time.
PipeK(p) ==
    /\ pc[p] = "pipe_k"
    /\ \/ Goto(p, "close") /\ UNCHANGED <<obj, ofile, mine, open, pages>>
       \/ \E k \in Pipes \ pages :
                /\ pages' = pages \cup {k} /\ open' = open \cup {<<k, "r">>, <<k, "w">>}
                /\ obj' = [obj EXCEPT ![mine[p][1]] = <<k, "r">>, ![mine[p][2]] = <<k, "w">>]
                /\ pipeFds(p)
    /\ UNCHANGED <<ref, cwd, iref, ff, ip, panicked>>

-----------------------------------------------------------------------------
(* sys_open(), sys_dup(), sys_close(), sys_chdir() *)

\* namei() or create() has found inode i.
sys_open(p, i) ==
    /\ Call(p, "open") /\ iref' = [iref EXCEPT ![i] = @ + 1]
    /\ ip' = [ip EXCEPT ![p] = i]
    /\ UNCHANGED <<tab, ofile, cwd, open, pages, mine, ff, panicked>>

OpenFail(p, fs) ==
    /\ mine' = [mine EXCEPT ![p] = fs] /\ Goto(p, "close") /\ UNCHANGED <<ip, ofile, obj>>

OpenFile(p) ==
    /\ pc[p] = "open"
    /\ IF NoFile THEN OpenFail(p, <<>>) /\ UNCHANGED ref
       ELSE \E f \in Files :
                /\ filealloc(f)
                /\ IF FreeFds(p) = {} THEN OpenFail(p, <<f>>)
                   ELSE /\ ofile' = [ofile EXCEPT ![p][Min(FreeFds(p))] = f]
                        /\ obj' = [obj EXCEPT ![f] = ip[p]]
                        /\ ip' = [ip EXCEPT ![p] = Nil] /\ Goto(p, "user")
                        /\ UNCHANGED mine
    /\ UNCHANGED <<cwd, objs, ff, panicked>>

sys_dup(p, fd) ==
    /\ pc[p] = "user" /\ ofile[p][fd] # 0 /\ FreeFds(p) # {}
    /\ LET f == ofile[p][fd] IN
           /\ ofile' = [ofile EXCEPT ![p][Min(FreeFds(p))] = f]
           /\ ref' = [ref EXCEPT ![f] = @ + 1] /\ panicked' = (ref[f] < 1)
    /\ UNCHANGED <<obj, cwd, objs, pc, locals>>

sys_close(p, fd) ==
    /\ Call(p, "close") /\ ofile[p][fd] # 0
    /\ ofile' = [ofile EXCEPT ![p][fd] = 0]
    /\ mine' = [mine EXCEPT ![p] = <<ofile[p][fd]>>]
    /\ UNCHANGED <<tab, cwd, objs, ff, ip, panicked>>

sys_chdir(p, i) ==
    /\ Call(p, "chdir") /\ iref' = [iref EXCEPT ![i] = @ + 1]
    /\ ip' = [ip EXCEPT ![p] = i]
    /\ UNCHANGED <<tab, ofile, cwd, open, pages, mine, ff, panicked>>

\* If it is a directory, the old one is put; otherwise it is itself.
Chdir(p) ==
    /\ pc[p] = "chdir" /\ Goto(p, "user") /\ ip' = [ip EXCEPT ![p] = Nil]
    /\ \E c \in {cwd[p], ip[p]} :
           /\ iref' = [iref EXCEPT ![IF c = cwd[p] THEN ip[p] ELSE cwd[p]] = @ - 1]
           /\ cwd' = [cwd EXCEPT ![p] = c]
    /\ UNCHANGED <<tab, ofile, open, pages, mine, ff, panicked>>

-----------------------------------------------------------------------------
(* fork() and exit() *)

fork(p, q) ==
    /\ pc[p] = "user" /\ pc[q] = "dead" /\ Goto(q, "user")
    /\ ofile' = [ofile EXCEPT ![q] = ofile[p]]
    /\ ref' = [f \in Files |-> ref[f] + Cardinality({fd \in Fds : ofile[p][fd] = f})]
    /\ panicked' = \E fd \in Fds : ofile[p][fd] # 0 /\ ref[ofile[p][fd]] < 1
    /\ cwd' = [cwd EXCEPT ![q] = cwd[p]] /\ iref' = [iref EXCEPT ![cwd[p]] = @ + 1]
    /\ UNCHANGED <<obj, open, pages, locals>>

exit(p) ==
    /\ p # InitProc /\ Call(p, "exit")
    /\ UNCHANGED <<tab, ofile, cwd, objs, locals, panicked>>

ExitFile(p) ==
    /\ pc[p] = "exit" /\ FreeFds(p) # Fds /\ Goto(p, "exit_close")
    /\ LET fd == Min(Fds \ FreeFds(p)) IN
           /\ ofile' = [ofile EXCEPT ![p][fd] = 0]
           /\ mine' = [mine EXCEPT ![p] = <<ofile[p][fd]>>]
    /\ UNCHANGED <<tab, cwd, objs, ff, ip, panicked>>

ExitCwd(p) ==
    /\ pc[p] = "exit" /\ FreeFds(p) = Fds /\ Goto(p, "dead")
    /\ iref' = [iref EXCEPT ![cwd[p]] = @ - 1] /\ cwd' = [cwd EXCEPT ![p] = Nil]
    /\ UNCHANGED <<tab, ofile, open, pages, locals, panicked>>

-----------------------------------------------------------------------------
Init ==
    /\ ref = [f \in Files |-> 0] /\ obj = [f \in Files |-> Nil]
    /\ ofile = [p \in Procs |-> [fd \in Fds |-> 0]]
    /\ cwd = [p \in Procs |-> IF p = InitProc THEN Root ELSE Nil]
    /\ iref = [i \in Inodes |-> IF i = Root THEN 1 ELSE 0]
    /\ open = {} /\ pages = {}
    /\ pc = [p \in Procs |-> IF p = InitProc THEN "user" ELSE "dead"]
    /\ mine = [p \in Procs |-> <<>>] /\ ff = [p \in Procs |-> Nil]
    /\ ip = [p \in Procs |-> Nil] /\ panicked = FALSE

Step(p) ==
    \/ fileclose(p) \/ Release(p) \/ Done(p) \/ sys_pipe(p) \/ PipeW(p) \/ PipeK(p)
    \/ OpenFile(p) \/ Chdir(p) \/ exit(p) \/ ExitFile(p) \/ ExitCwd(p)
    \/ \E i \in Inodes : sys_open(p, i) \/ sys_chdir(p, i)
    \/ \E fd \in Fds : sys_dup(p, fd) \/ sys_close(p, fd)
    \/ \E q \in Procs : fork(p, q)

Next == ~panicked /\ \E p \in Procs : Step(p)

Spec == Init /\ [][Next]_vars

-----------------------------------------------------------------------------
\* Types; a live process has a working directory.
TypeOK ==
    /\ \A p \in Procs : cwd[p] = Nil <=> pc[p] = "dead"
    /\ ref \in [Files -> Nat] /\ obj \in [Files -> Inodes \cup Ends \cup {Nil}]
    /\ ofile \in [Procs -> [Fds -> 0..NFILE]]
    /\ {cwd, ip} \subseteq [Procs -> Inodes \cup {Nil}] /\ iref \in [Inodes -> Nat]
    /\ open \subseteq Ends /\ pages \subseteq Pipes
    /\ mine \in [Procs -> Seq(Files)] /\ ff \in [Procs -> Inodes \cup Ends \cup {Nil}]
    /\ pc \in [Procs -> {"user", "dead", "close", "pipe_w", "pipe_k", "open", "chdir",
                         "exit", "exit_close"}]

\* The descriptors and unfinished calls that refer to file f.
Users(f) ==
    {u \in Procs \X Fds : ofile[u[1]][u[2]] = f}
        \cup {<<p, 0>> : p \in {q \in Procs : \E i \in 1..Len(mine[q]) : mine[q][i] = f}}

\* ref counts the descriptors of a file in all processes and the calls that
\* still have to install or close it: files are neither leaked nor reused
\* while open, whichever call fails half-way, and filedup() and fileclose()
\* do not panic.
RefsCounted == ~panicked /\ \A f \in Files : ref[f] = Cardinality(Users(f))

\* A pipe end is open, and an inode referenced, exactly while an open file, a
\* working directory or an unfinished call refers to it; a pipe's memory lasts
\* as long as one of its ends.
ObjectsCounted ==
    /\ open = {e \in Ends : \/ \E f \in Files : ref[f] > 0 /\ obj[f] = e
                            \/ \E p \in Procs : ff[p] = e}
    /\ pages = {e[1] : e \in open}
    /\ \A i \in Inodes :
           iref[i] = Cardinality({f \in Files : ref[f] > 0 /\ obj[f] = i})
                       + Cardinality({p \in Procs : cwd[p] = i})
                       + Cardinality({p \in Procs : ip[p] = i})
                       + Cardinality({p \in Procs : ff[p] = i})

\* Every reference is counted and every count has its references, for files,
\* pipe ends and inodes alike.
UsesCounted == TypeOK /\ RefsCounted /\ ObjectsCounted
=============================================================================
