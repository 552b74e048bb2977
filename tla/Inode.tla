------------------------------- MODULE Inode -------------------------------
(***************************************************************************)
(* Inodes and directories: the inode cache of fs.c (iget, ilock, iput,     *)
(* ialloc), path lookup, and the system calls of sysfile.c that change the *)
(* directory tree.  What a process does while it holds an inode's sleep    *)
(* lock and waits for nothing is one action; it waits for one lock at a    *)
(* time.  A cache entry is named by its inode number: iget() finds an      *)
(* entry in use by number under icache.lock, and any other entry it takes  *)
(* is recycled, so an entry without references holds nothing.              *)
(*                                                                         *)
(* A path is a sequence of names or ".."; a directory is a function from   *)
(* names to inode numbers, 0 for none.  A process has a working directory  *)
(* and at most one open file.  File contents are left out, and a           *)
(* transaction (Log.tla) is never cut short.                               *)
(***************************************************************************)
EXTENDS Integers, Sequences, FiniteSets, FiniteSetsExt

CONSTANTS
    Procs, NoProc, Names,
    NInum,     \* inodes on the disk
    Workloads  \* what is run: the processes at work, the system calls they
               \* make, the elements of their paths, the elements in a path

ASSUME InodeAssumption ==
    /\ NInum \in Nat \ {0} /\ NoProc \notin Procs /\ ".." \notin Names
    /\ \A w \in Workloads : w.procs \subseteq Procs /\ w.lookups \subseteq Names \cup {".."}

Inums == 1..NInum
Root == 1
Elems == Names \cup {".."}

VARIABLES
    dino,              \* inodes on disk: type, nlink
    ents,              \* directory contents
    ref, valid, mem,   \* struct inode; mem is its copy of type and nlink
    holder,            \* who holds ip->lock
    cwd, fp,           \* a process's directory and open file
    me,                \* its call: control, arguments, local inodes
    panicked,          \* "no", or with what message
    work               \* the workload

icache == <<ref, valid, mem, holder>>
vars == <<dino, ents, icache, cwd, fp, me, panicked, work>>

Idle == [pc |-> "user", op |-> "none", path |-> <<>>, ip |-> 0, dp |-> 0, name |-> "..",
         lip |-> 0, put |-> 0, ret |-> "user"]

NoEnts == [n \in Elems |-> 0]
Free == [type |-> "free", nlink |-> 0]

At(p, l) == panicked = "no" /\ me[p].pc = l

\* The process goes on as described by r.
Become(p, r) == me' = [me EXCEPT ![p] = IF r.pc = "user" THEN Idle ELSE r]

\* iput() of i, or of the local ip, dp or lip, then on to label l.
Iput(r, i, l) == [r EXCEPT !.pc = "iput", !.put = i, !.ret = l]
PutIp(r, l) == Iput([r EXCEPT !.ip = 0], r.ip, l)
PutDp(r, l) == Iput([r EXCEPT !.dp = 0, !.name = ".."], r.dp, l)
PutLip(r, l) == Iput([r EXCEPT !.lip = 0], r.lip, l)

\* The inode whose lock the process acquires next, 0 if none.
Wants(p) ==
    LET m == me[p] IN
    CASE m.pc = "walk" /\ m.path # <<>>                            -> m.ip
      [] m.pc \in {"create", "mkdir", "mknod", "unlink", "link_to"} -> m.dp
      [] m.pc \in {"new", "exists", "victim", "open", "chdir"}     -> m.ip
      [] m.pc \in {"link", "link_bad"}                             -> m.lip
      [] m.pc = "iput"                                             -> m.put
      [] OTHER                                                     -> 0

\* The in-memory inode once ilock() has read it.
Copy(i) == IF valid[i] THEN mem[i] ELSE dino[i]

-----------------------------------------------------------------------------
(* Mutants *)

\* create() gives a new directory no link but that of its subdirectories.
NewInodeUnlinked(i) == [Copy(i) EXCEPT !.nlink = IF Copy(i).type = "dir" THEN 0 ELSE 1]

\* iget() does not count a further reference.
igetOnce(i) == ref' = [ref EXCEPT ![i] = 1]

\* sys_link() does not undo its count when the name exists.
LinkUndoForgets(p) ==
    /\ At(p, "link_bad") /\ Become(p, PutLip(me[p], "user"))
    /\ UNCHANGED <<dino, ents, icache, cwd, fp, panicked>>

-----------------------------------------------------------------------------
(* The inode cache *)

\* iget() or idup().
iget(i) == ref' = [ref EXCEPT ![i] = @ + 1]

\* ilock(i) of a free lock, with an iget(j) under it (0 for none).
ilockGet(i, j) ==
    /\ holder[i] = NoProc /\ Copy(i).type # "free"
    /\ valid' = [valid EXCEPT ![i] = TRUE]
    /\ IF j = 0 THEN UNCHANGED ref ELSE iget(j)
ilock(i) == ilockGet(i, 0)

\* ilock() panics: "no type".
ilockPanic(p) ==
    /\ panicked = "no" /\ Wants(p) # 0 /\ me[p].pc # "iput"
    /\ holder[Wants(p)] = NoProc /\ Copy(Wants(p)).type = "free"
    /\ panicked' = "ilock: no type"
    /\ UNCHANGED <<dino, ents, icache, cwd, fp, me>>

Load(i) == mem' = [mem EXCEPT ![i] = Copy(i)] /\ UNCHANGED dino

\* The caller changes its locked inode to d and calls iupdate().
iupdate(i, d) == mem' = [mem EXCEPT ![i] = d] /\ dino' = [dino EXCEPT ![i] = d]

AddLinks(i, n) == [Copy(i) EXCEPT !.nlink = @ + n]

\* iput(): "no links and no other references".
LastRef(i) == valid[i] /\ mem[i].nlink = 0 /\ ref[i] = 1

iput(p) ==
    /\ At(p, "iput")
    /\ LET i == me[p].put IN
           /\ holder[i] = NoProc
           /\ IF LastRef(i)
              THEN holder' = [holder EXCEPT ![i] = p] /\ Become(p, [me[p] EXCEPT !.pc = "ifree"])
              ELSE Become(p, [me[p] EXCEPT !.pc = "idrop"]) /\ UNCHANGED holder
    /\ UNCHANGED <<dino, ents, ref, valid, mem, cwd, fp, panicked>>

\* itrunc(), type 0, iupdate().
IputFree(p) ==
    /\ At(p, "ifree") /\ Become(p, [me[p] EXCEPT !.pc = "idrop"])
    /\ LET i == me[p].put IN
           /\ iupdate(i, Free) /\ ents' = [ents EXCEPT ![i] = NoEnts]
           /\ valid' = [valid EXCEPT ![i] = FALSE]
           /\ holder' = [holder EXCEPT ![i] = NoProc]
    /\ UNCHANGED <<ref, cwd, fp, panicked>>

IputDrop(p) ==
    LET i == me[p].put IN
    /\ At(p, "idrop") /\ ref' = [ref EXCEPT ![i] = @ - 1]
    /\ valid' = [valid EXCEPT ![i] = @ /\ ref[i] > 1]
    /\ mem' = [mem EXCEPT ![i] = IF ref[i] > 1 THEN @ ELSE Free]
    /\ Become(p, [me[p] EXCEPT !.pc = me[p].ret, !.put = 0, !.ret = "user"])
    /\ UNCHANGED <<dino, ents, holder, cwd, fp, panicked>>

-----------------------------------------------------------------------------
(* Paths *)

Parent(o) == o \in {"create", "mkdir", "mknod", "unlink", "link_to"}
Failed(r) == IF r.op = "link_to" THEN "link_bad" ELSE "user"

\* namex() begins at the root or at the working directory.
StartWalk(p, r, o, s, i) ==
    /\ i \in {Root, cwd[p]}
    /\ iget(i)
    /\ Become(p, [r EXCEPT !.pc = "walk", !.op = o, !.path = s, !.ip = i])

\* One element of the path: ilock(), dirlookup(), iunlock(); iput() follows.
Walk(p) ==
    LET m == me[p]
        e == Head(m.path)
        next == ents[m.ip][e]
    IN  /\ At(p, "walk") /\ m.path # <<>>
        /\ \/ /\ Copy(m.ip).type # "dir" \/ (next = 0 /\ ~(Parent(m.op) /\ Len(m.path) = 1))
              /\ ilock(m.ip) /\ Become(p, PutIp(m, Failed(m)))
           \/ /\ Copy(m.ip).type = "dir" /\ Parent(m.op) /\ Len(m.path) = 1
              /\ ilock(m.ip)
              /\ Become(p, [m EXCEPT !.pc = m.op, !.dp = m.ip, !.ip = 0, !.name = e, !.path = <<>>])
           \/ /\ Copy(m.ip).type = "dir" /\ next # 0 /\ ~(Parent(m.op) /\ Len(m.path) = 1)
              /\ ilockGet(m.ip, next)
              /\ Become(p, Iput([m EXCEPT !.ip = next, !.path = Tail(@)], m.ip, "walk"))
        /\ Load(m.ip)
        /\ UNCHANGED <<ents, holder, cwd, fp, panicked>>

\* namei() has the inode.
WalkEnd(p) ==
    /\ At(p, "walk") /\ me[p].path = <<>>
    /\ Become(p, IF me[p].op = "link" THEN [me[p] EXCEPT !.pc = "link", !.lip = me[p].ip, !.ip = 0]
                                      ELSE [me[p] EXCEPT !.pc = me[p].op])
    /\ UNCHANGED <<dino, ents, icache, cwd, fp, panicked>>

Call(p, o, s, i) ==
    /\ At(p, "user") /\ StartWalk(p, Idle, o, s, i)
    /\ o = "open" \/ o = "create" => fp[p] = 0
    /\ UNCHANGED <<dino, ents, valid, mem, holder, cwd, fp, panicked>>

-----------------------------------------------------------------------------
(* create(), for sys_open(O_CREATE), sys_mkdir() and sys_mknod() *)

NewType(o) == CASE o = "create" -> "file" [] o = "mkdir" -> "dir" [] o = "mknod" -> "dev"

\* dp is locked and searched; a free inode is allocated if the name is new.
Create(p) ==
    LET m == me[p]
        old == ents[m.dp][m.name]
        free == {i \in Inums : dino[i].type = "free"}
    IN  /\ \E o \in {"create", "mkdir", "mknod"} : At(p, o)
        /\ \/ /\ old # 0 /\ ilockGet(m.dp, old) /\ Load(m.dp)
              /\ Become(p, PutDp([m EXCEPT !.ip = old], "exists"))
              /\ UNCHANGED <<ents, holder, panicked>>
           \/ /\ old = 0 /\ free # {} /\ ilockGet(m.dp, Min(free))
              /\ holder' = [holder EXCEPT ![m.dp] = p]
              /\ dino' = [dino EXCEPT ![Min(free)] =
                             [type |-> NewType(m.op), nlink |-> 0]]
              /\ mem' = [mem EXCEPT ![m.dp] = Copy(m.dp)]
              /\ Become(p, [m EXCEPT !.pc = "new", !.ip = Min(free)])
              /\ UNCHANGED <<ents, panicked>>
           \/ /\ old = 0 /\ free = {} /\ ilock(m.dp) /\ Load(m.dp)
              /\ panicked' = "ialloc: no inodes" /\ UNCHANGED <<ents, holder, me>>
        /\ UNCHANGED <<cwd, fp>>

NewInode(i) == [Copy(i) EXCEPT !.nlink = 1]

\* The new inode is locked and entered; dp is unlocked and put with ip locked.
CreateNew(p) ==
    LET m == me[p]
        isdir == m.op = "mkdir"
        new == NewInode(m.ip)
        parent == AddLinks(m.dp, IF isdir THEN 1 ELSE 0)
    IN  /\ At(p, "new") /\ ilock(m.ip)
        /\ mem' = [mem EXCEPT ![m.ip] = new, ![m.dp] = parent]
        /\ dino' = [dino EXCEPT ![m.ip] = new, ![m.dp] = parent]
        /\ ents' = [ents EXCEPT ![m.dp][m.name] = m.ip,
                                ![m.ip][".."] = IF isdir THEN m.dp ELSE 0]
        /\ holder' = [holder EXCEPT ![m.dp] = NoProc, ![m.ip] = p]
        /\ Become(p, PutDp(m, "created"))
        /\ UNCHANGED <<cwd, fp, panicked>>

\* sys_open() goes on to filealloc() and fdalloc(), which may fail.
OpenFile(p) ==
    \/ fp' = [fp EXCEPT ![p] = me[p].ip] /\ Become(p, Idle)
    \/ UNCHANGED fp /\ Become(p, PutIp(me[p], "user"))

Created(p) ==
    /\ At(p, "created") /\ holder' = [holder EXCEPT ![me[p].ip] = NoProc]
    /\ IF me[p].op = "create" THEN OpenFile(p)
       ELSE Become(p, PutIp(me[p], "user")) /\ UNCHANGED fp
    /\ UNCHANGED <<dino, ents, ref, valid, mem, cwd, panicked>>

\* The name exists: an open of a file succeeds, everything else fails.
Exists(p) ==
    LET i == me[p].ip IN
    /\ At(p, "exists") /\ ilock(i) /\ Load(i)
    /\ IF me[p].op = "create" /\ Copy(i).type = "file"
       THEN OpenFile(p)
       ELSE Become(p, PutIp(me[p], "user")) /\ UNCHANGED fp
    /\ UNCHANGED <<ents, holder, cwd, panicked>>

-----------------------------------------------------------------------------
(* sys_unlink() *)

Unlink(p) ==
    LET m == me[p]
        i == ents[m.dp][m.name]
    IN  /\ At(p, "unlink") /\ Load(m.dp)
        /\ IF m.name = ".." \/ i = 0
           THEN ilock(m.dp) /\ Become(p, PutDp(m, "user")) /\ UNCHANGED holder
           ELSE /\ ilockGet(m.dp, i) /\ holder' = [holder EXCEPT ![m.dp] = p]
                /\ Become(p, [m EXCEPT !.pc = "victim", !.ip = i])
        /\ UNCHANGED <<ents, cwd, fp, panicked>>

isdirempty(i) == \A n \in Names : ents[i][n] = 0

\* ip is locked under dp.  If it goes, dp is unlocked and put with ip locked.
UnlinkVictim(p) ==
    LET m == me[p]
        isdir == Copy(m.ip).type = "dir"
    IN  /\ At(p, "victim") /\ ilock(m.ip)
        /\ panicked' = IF Copy(m.ip).nlink < 1 THEN "unlink: nlink < 1" ELSE "no"
        /\ IF isdir /\ ~isdirempty(m.ip)
           THEN /\ Load(m.ip) /\ Become(p, PutIp(m, "unlink_bad"))
                /\ UNCHANGED <<ents, holder>>
           ELSE /\ ents' = [ents EXCEPT ![m.dp][m.name] = 0]
                /\ LET parent == AddLinks(m.dp, IF isdir THEN -1 ELSE 0) IN
                       /\ mem' = [mem EXCEPT ![m.ip] = Copy(m.ip), ![m.dp] = parent]
                       /\ dino' = [dino EXCEPT ![m.dp] = parent]
                /\ holder' = [holder EXCEPT ![m.dp] = NoProc, ![m.ip] = p]
                /\ Become(p, PutDp(m, "unlinked"))
        /\ UNCHANGED <<cwd, fp>>

UnlinkBad(p) ==
    /\ At(p, "unlink_bad") /\ holder' = [holder EXCEPT ![me[p].dp] = NoProc]
    /\ Become(p, PutDp(me[p], "user"))
    /\ UNCHANGED <<dino, ents, ref, valid, mem, cwd, fp, panicked>>

Unlinked(p) ==
    LET i == me[p].ip IN
    /\ At(p, "unlinked") /\ iupdate(i, AddLinks(i, -1))
    /\ holder' = [holder EXCEPT ![i] = NoProc]
    /\ Become(p, PutIp(me[p], "user"))
    /\ UNCHANGED <<ents, ref, valid, cwd, fp, panicked>>

-----------------------------------------------------------------------------
(* sys_link() *)

\* The count of the old inode goes up before the new name is looked up.
Link(p, s, i) ==
    LET l == me[p].lip IN
    /\ At(p, "link") /\ Copy(l).type # "free" /\ holder[l] = NoProc
    /\ IF Copy(l).type = "dir"
       THEN ilock(l) /\ Load(l) /\ Become(p, PutLip(me[p], "user"))
       ELSE /\ iupdate(l, AddLinks(l, 1)) /\ i \in {Root, cwd[p]}
            /\ ilockGet(l, i)
            /\ Become(p, [me[p] EXCEPT !.pc = "walk", !.op = "link_to", !.path = s, !.ip = i])
    /\ UNCHANGED <<ents, holder, cwd, fp, panicked>>

\* dirlink(); the entry that has the name already is put with dp locked.
LinkTo(p) ==
    LET m == me[p]
        old == ents[m.dp][m.name]
    IN  /\ At(p, "link_to") /\ Load(m.dp)
        /\ IF old = 0
           THEN /\ ilock(m.dp) /\ ents' = [ents EXCEPT ![m.dp][m.name] = m.lip]
                /\ Become(p, PutDp(m, "linked")) /\ UNCHANGED holder
           ELSE /\ ilockGet(m.dp, old) /\ holder' = [holder EXCEPT ![m.dp] = p]
                /\ Become(p, Iput(m, old, "link_exists")) /\ UNCHANGED ents
        /\ UNCHANGED <<cwd, fp, panicked>>

LinkExists(p) ==
    /\ At(p, "link_exists") /\ holder' = [holder EXCEPT ![me[p].dp] = NoProc]
    /\ Become(p, PutDp(me[p], "link_bad"))
    /\ UNCHANGED <<dino, ents, ref, valid, mem, cwd, fp, panicked>>

LinkUndo(p) ==
    LET l == me[p].lip IN
    /\ At(p, "link_bad") /\ ilock(l) /\ iupdate(l, AddLinks(l, -1))
    /\ Become(p, PutLip(me[p], "user"))
    /\ UNCHANGED <<ents, holder, cwd, fp, panicked>>

Linked(p) ==
    /\ At(p, "linked") /\ Become(p, PutLip(me[p], "user"))
    /\ UNCHANGED <<dino, ents, icache, cwd, fp, panicked>>

-----------------------------------------------------------------------------
(* sys_open() of an existing file, sys_chdir(), sys_close() *)

\* It also fails for a directory that is to be written.
Open(p) ==
    /\ At(p, "open") /\ ilock(me[p].ip) /\ Load(me[p].ip) /\ OpenFile(p)
    /\ UNCHANGED <<ents, holder, cwd, panicked>>

Chdir(p) ==
    LET i == me[p].ip IN
    /\ At(p, "chdir") /\ ilock(i) /\ Load(i)
    /\ IF Copy(i).type = "dir"
       THEN cwd' = [cwd EXCEPT ![p] = i] /\ Become(p, Iput([me[p] EXCEPT !.ip = 0], cwd[p], "user"))
       ELSE Become(p, PutIp(me[p], "user")) /\ UNCHANGED cwd
    /\ UNCHANGED <<ents, holder, fp, panicked>>

Close(p) ==
    /\ At(p, "user") /\ fp[p] # 0 /\ fp' = [fp EXCEPT ![p] = 0]
    /\ Become(p, Iput(Idle, fp[p], "user"))
    /\ UNCHANGED <<dino, ents, icache, cwd, panicked>>

-----------------------------------------------------------------------------
\* mkfs makes the root, its own parent; processes start there.
Init ==
    /\ dino = [i \in Inums |-> IF i = Root THEN [type |-> "dir", nlink |-> 1] ELSE Free]
    /\ ents = [i \in Inums |-> IF i = Root THEN [NoEnts EXCEPT ![".."] = Root] ELSE NoEnts]
    /\ ref = [i \in Inums |-> IF i = Root THEN Cardinality(Procs) ELSE 0]
    /\ valid = [i \in Inums |-> FALSE] /\ mem = [i \in Inums |-> Free]
    /\ holder = [i \in Inums |-> NoProc]
    /\ cwd = [p \in Procs |-> Root] /\ fp = [p \in Procs |-> 0]
    /\ me = [p \in Procs |-> Idle] /\ panicked = "no" /\ work \in Workloads

Paths == UNION {[1..k -> work.lookups] : k \in 1..work.maxpath}

Step(p) ==
    \/ ilockPanic(p) \/ iput(p) \/ IputFree(p) \/ IputDrop(p) \/ Walk(p) \/ WalkEnd(p)
    \/ Create(p) \/ CreateNew(p) \/ Created(p) \/ Exists(p)
    \/ Unlink(p) \/ UnlinkVictim(p) \/ UnlinkBad(p) \/ Unlinked(p)
    \/ LinkTo(p) \/ LinkExists(p) \/ LinkUndo(p) \/ Linked(p)
    \/ Open(p) \/ Chdir(p) \/ Close(p)

Next ==
    /\ \E p \in work.procs :
           \/ Step(p)
           \/ \E s \in Paths, i \in Inums :
                  Link(p, s, i) \/ \E o \in work.calls : Call(p, o, s, i)
    /\ UNCHANGED work

Spec == Init /\ [][Next]_vars

-----------------------------------------------------------------------------
Dinodes == [type : {"free", "file", "dir", "dev"}, nlink : Nat]

\* Types.
TypeOK ==
    /\ dino \in [Inums -> Dinodes] /\ ents \in [Inums -> [Elems -> 0..NInum]]
    /\ ref \in [Inums -> Nat] /\ valid \in [Inums -> BOOLEAN] /\ mem \in [Inums -> Dinodes]
    /\ holder \in [Inums -> Procs \cup {NoProc}]
    /\ cwd \in [Procs -> Inums] /\ fp \in [Procs -> 0..NInum]
    /\ \A p \in Procs : {me[p].ip, me[p].dp, me[p].lip, me[p].put} \subseteq 0..NInum

\* ref counts the open files, working directories and unfinished calls that
\* point to an inode: no entry is recycled under a process, none is leaked.
RefsCounted ==
    \A i \in Inums :
        ref[i] = Cardinality({p \in Procs : cwd[p] = i})
                   + Cardinality({p \in Procs : fp[p] = i})
                   + Cardinality({<<p, f>> \in Procs \X {"ip", "dp", "lip", "put"} : me[p][f] = i})

\* A file that is open, and a directory somebody works in, stay allocated
\* after their last link is gone.
InUseAllocated ==
    \A p \in Procs : /\ dino[cwd[p]].type = "dir"
                     /\ fp[p] # 0 => dino[fp[p]].type # "free"

\* A name never leads to a free inode, unless paths go through "..": the
\* entry of a removed directory may outlive its parent.
NamesLead ==
    ".." \notin work.lookups =>
    \A d \in Inums, n \in Names :
        ents[d][n] # 0 => dino[d].type = "dir" /\ dino[ents[d][n]].type # "free"

\* Nothing a process or a name refers to is freed.
NothingDangles == InUseAllocated /\ NamesLead

\* The cache is write-through: what an unlocked valid entry says, the disk
\* says.
WriteThrough ==
    \A i \in Inums : valid[i] /\ holder[i] = NoProc => mem[i] = dino[i]

\* The cache is exact: its counts and its copies.
CacheExact == TypeOK /\ RefsCounted /\ WriteThrough

\* The names of an inode, and the subdirectories of a directory.
Links(i) ==
    {<<d, n>> \in Inums \X Elems :
        ents[d][n] = i /\ (n = ".." => dino[d].nlink > 0)}

\* nlink counts the directory entries that refer to an inode whenever no call
\* works on it, so that iput() frees exactly what has no name.  A file made in
\* a directory that is being removed breaks it.
LinksCounted ==
    "mkdir" \notin work.calls =>
    \A i \in Inums :
        (dino[i].type # "free" /\ \A p \in Procs : me[p].pc = "user")
            => dino[i].nlink = Cardinality(Links(i))

\* Locks are acquired in an order: no two processes wait for each other.
NoLockCycle ==
    \A p, q \in Procs :
        Wants(p) # 0 /\ Wants(q) # 0 /\ p # q => ~(holder[Wants(p)] = q /\ holder[Wants(q)] = p)

\* Path lookup does not lead to a free inode.
NoTypePanic == panicked # "ilock: no type"
=============================================================================
