------------------------------- MODULE Blocks -------------------------------
(***************************************************************************)
(* The contents of inodes: the free bitmap, the block map of an inode,     *)
(* reading, writing and truncating (fs.c), the calls of file.c that lead   *)
(* there, and the image mkfs.c starts from.                                *)
(*                                                                         *)
(* The unit of data is one directory entry or block number; BSIZE of them  *)
(* make a block, and the same block may in turn hold either.  Blocks are   *)
(* read and written through the coherent cache (Bio.tla) and `wrote'       *)
(* collects what a transaction passes to log_write() (Log.tla).  What a    *)
(* process does to the blocks of an inode that it has locked is one step   *)
(* per allocation, per block copied and per block freed.  Names and links  *)
(* are left to Inode.tla.                                                  *)
(***************************************************************************)
EXTENDS Integers, SequencesExt

CONSTANTS
    Procs, NoProc,
    NFILE,                   \* entries of the file table
    NINODES, IPB,            \* inodes, inodes in a block
    FSSIZE, BSIZE, BPB,      \* blocks, units in a block, bits in a bitmap block
    LOGSIZE, MAXOPBLOCKS,
    NDIRECT,
    HostFiles,               \* what mkfs copies: a sequence of contents
    Workloads                \* which calls are made, see BlocksInit

NINDIRECT == BSIZE
MAXFILE == NDIRECT + NINDIRECT
Inums == 1..NINODES - 1
Blks == 0..FSSIZE - 1
Files == 1..NFILE

\* mkfs.c: boot block, super block, log, inodes, bitmap.
ninodeblocks == NINODES \div IPB + 1
nbitmap == FSSIZE \div BPB + 1
inodestart == 2 + LOGSIZE
bmapstart == inodestart + ninodeblocks
nmeta == bmapstart + nbitmap

IBLOCK(i) == i \div IPB + inodestart
BBLOCK(b) == b \div BPB + bmapstart

ASSUME BlocksAssumption ==
    /\ {NFILE, NINODES, IPB, FSSIZE, BSIZE, BPB, LOGSIZE, NDIRECT} \subseteq Nat \ {0}
    /\ MAXOPBLOCKS \in Nat /\ MAXOPBLOCKS >= 6 /\ nmeta < FSSIZE

VARIABLES
    bitmap,           \* the blocks marked in use
    data,             \* what a block holds
    dinode, inode,    \* inodes on disk and in memory
    lock,             \* who holds ilock()
    file,             \* struct file: inode, 0 if closed, and offset
    me,               \* a process's call
    content,          \* what a file should hold: a sequence of units
    work,             \* the workload, and how many calls it may still make
    panicked

diskVars == <<bitmap, data, dinode, inode>>
vars == <<diskVars, lock, file, me, content, work, panicked>>

Zeroes == [k \in 0..BSIZE - 1 |-> 0]
FreeInode == [type |-> "free", size |-> 0, addrs |-> [k \in 0..NDIRECT |-> 0]]
Closed == [ip |-> 0, off |-> 0]

\* src: still to be written, n: left of this readi(), writei() or of the
\* indirect block, ip: the inode it has locked, off: where, got: read so far,
\* wrote: blocks written.
Idle == [pc |-> "user", op |-> "none", f |-> 0, ip |-> 0, src |-> <<>>, n |-> 0, off |-> 0,
         got |-> <<>>, wrote |-> {}]

Ino(p) == me[p].ip
At(p, l) == ~panicked /\ me[p].pc = l
Become(p, r) == me' = [me EXCEPT ![p] = r]
Unlock(i) == lock' = [lock EXCEPT ![i] = NoProc]

-----------------------------------------------------------------------------
(* mkfs *)

\* The image s with block number s.free at slot k of inode i, if it has none.
mkfsSlot(s, i, k) ==
    IF s.inode[i].addrs[k] # 0 THEN s
    ELSE [s EXCEPT !.inode[i].addrs[k] = s.free, !.free = @ + 1]

mkfsIndirect(s, b, k) ==
    IF s.data[b][k] # 0 THEN s ELSE [s EXCEPT !.data[b][k] = s.free, !.free = @ + 1]

\* iappend() of one unit.
iappendUnit(s, i, x) ==
    LET off == s.inode[i].size
        fbn == off \div BSIZE
        direct == fbn < NDIRECT
        s1 == mkfsSlot(s, i, IF direct THEN fbn ELSE NDIRECT)
        s2 == IF direct THEN s1
              ELSE mkfsIndirect(s1, s1.inode[i].addrs[NDIRECT], fbn - NDIRECT)
        b == IF direct THEN s2.inode[i].addrs[fbn]
             ELSE s2.data[s2.inode[i].addrs[NDIRECT]][fbn - NDIRECT]
    IN  [s2 EXCEPT !.data[b][off % BSIZE] = x, !.inode[i].size = off + 1]

iappend(s, i, xs) == FoldLeft(LAMBDA t, x : iappendUnit(t, i, x), s, xs)

mkfsIalloc(s, i, t) == [s EXCEPT !.inode[i].type = t]

mkfsFile(s, k) ==
    iappend(iappend(mkfsIalloc(s, k + 1, "file"), 1, <<k + 1>>), k + 1, HostFiles[k])

\* The root directory with "." and "..", the files, and the root's size made
\* a multiple of a block; balloc() marks all blocks below `free'.
mkfs ==
    LET empty == [inode |-> [i \in Inums |-> FreeInode], data |-> [b \in Blks |-> Zeroes],
                  free |-> nmeta]
        root == iappend(mkfsIalloc(empty, 1, "dir"), 1, <<1, 1>>)
        full == FoldLeft(mkfsFile, root, [k \in 1..Len(HostFiles) |-> k])
    IN  [full EXCEPT !.inode[1].size = (@ \div BSIZE + 1) * BSIZE]

-----------------------------------------------------------------------------
(* Blocks *)

Free == Blks \ bitmap

\* bmap(): the address of block bn of inode i, 0 if it has none.
Address(i, bn) ==
    LET a == inode[i].addrs IN
    IF bn < NDIRECT THEN a[bn]
    ELSE IF a[NDIRECT] = 0 THEN 0 ELSE data[a[NDIRECT]][bn - NDIRECT]

\* Mutant of Zeroed: balloc() does not zero the block.
ZeroedNot(b) == data

\* bzero().
Zeroed(b) == [data EXCEPT ![b] = Zeroes]

\* bmap() lacks a block, the one asked for or the indirect one: balloc()
\* marks the first free block and zeroes it.
bmapAlloc(p) ==
    LET m == me[p]
        i == Ino(p)
        bn == m.off \div BSIZE
        b == Min(Free)
        ind == inode[i].addrs[NDIRECT]
    IN  /\ At(p, "bmap") /\ m.n > 0 /\ Address(i, bn) = 0
        /\ IF Free = {} THEN panicked' = TRUE /\ UNCHANGED <<diskVars, me>>
           ELSE /\ bitmap' = bitmap \cup {b}
                /\ IF bn < NDIRECT \/ ind = 0
                   THEN /\ inode' = [inode EXCEPT ![i].addrs[Min({bn, NDIRECT})] = b]
                        /\ data' = Zeroed(b)
                        /\ Become(p, [m EXCEPT !.wrote = @ \cup {BBLOCK(b), b}])
                   ELSE /\ data' = [Zeroed(b) EXCEPT ![ind][bn - NDIRECT] = b]
                        /\ Become(p, [m EXCEPT !.wrote = @ \cup {BBLOCK(b), b, ind}])
                        /\ UNCHANGED inode
                /\ UNCHANGED <<dinode, panicked>>
        /\ UNCHANGED <<lock, file, content>>

\* Mutant of Span: a copy starts at the beginning of its block.
SpanAligned(off, n) == 0..Min({n, BSIZE}) - 1

\* The part of a block that n units from off on reach.
Span(off, n) == off % BSIZE..Min({(off % BSIZE) + n, BSIZE}) - 1

\* One round of the loop of readi() or writei(): up to the end of a block.
CopyBlock(p) ==
    LET m == me[p]
        b == Address(Ino(p), m.off \div BSIZE)
        span == Span(m.off, m.n)
        k == Cardinality(span)
        moved == [m EXCEPT !.n = @ - k, !.off = @ + k]
    IN  /\ At(p, "bmap") /\ m.n > 0 /\ b # 0
        /\ \/ /\ m.op = "write"
              /\ data' = [data EXCEPT ![b] = [j \in 0..BSIZE - 1 |->
                              IF j \in span THEN m.src[j - Min(span) + 1] ELSE @[j]]]
              /\ Become(p, [moved EXCEPT !.src = SubSeq(@, k + 1, Len(@)),
                                         !.wrote = @ \cup {b}])
           \/ /\ m.op = "read"
              /\ Become(p, [moved EXCEPT !.got = @ \o [j \in 1..k |-> data[b][Min(span) + j - 1]]])
              /\ UNCHANGED data
        /\ UNCHANGED <<bitmap, dinode, inode, lock, file, content, panicked>>

-----------------------------------------------------------------------------
(* System calls *)

Type(f) == IF file[f].ip = 0 THEN "closed" ELSE dinode[file[f].ip].type

\* What a file holds after a write of t at offset o.
Overwrite(s, o, t) == SubSeq(s, 1, o) \o t \o SubSeq(s, o + Len(t) + 1, Len(s))

\* filewrite() of an inode on the disk; directories are not open for writing.
filewrite(p, f, s) ==
    /\ At(p, "user") /\ Type(f) = "file"
    /\ Become(p, [Idle EXCEPT !.pc = "chunk", !.op = "write", !.f = f, !.src = s])
    /\ UNCHANGED <<diskVars, lock, file, content, panicked>>

\* Mutant of ChunkMax: no slop for a write that is not aligned.
ChunkMaxUnaligned == ((MAXOPBLOCKS - 1 - 1) \div 2) * BSIZE

\* What one transaction of filewrite() writes at most.
ChunkMax == ((MAXOPBLOCKS - 1 - 1 - 2) \div 2) * BSIZE

\* writei() fails beyond the end, and for a file that would be too large.
CannotWrite(i, off, n) == off > inode[i].size \/ off + n > MAXFILE * BSIZE

\* begin_op(), ilock() and the tests of writei().
WriteChunk(p) ==
    LET m == me[p]
        i == file[m.f].ip
        off == file[m.f].off
        n == Min({Len(m.src), ChunkMax})
    IN  /\ At(p, "chunk") /\ lock[i] = NoProc
        /\ IF CannotWrite(i, off, n)
           THEN Become(p, Idle) /\ UNCHANGED <<lock, content>>
           ELSE /\ lock' = [lock EXCEPT ![i] = p]
                /\ content' = [content EXCEPT ![i] = Overwrite(@, off, SubSeq(m.src, 1, n))]
                /\ Become(p, [m EXCEPT !.pc = "bmap", !.ip = i, !.n = n, !.off = off])
        /\ UNCHANGED <<diskVars, file, panicked>>

\* writei() records a new size with iupdate(); iunlock(), end_op().
WriteDone(p) ==
    LET m == me[p]
        i == Ino(p)
    IN  /\ At(p, "bmap") /\ m.op = "write" /\ m.n = 0
        /\ IF m.off > inode[i].size
           THEN /\ inode' = [inode EXCEPT ![i].size = m.off]
                /\ dinode' = [dinode EXCEPT ![i] = inode'[i]]
                /\ Become(p, [m EXCEPT !.pc = "written", !.wrote = @ \cup {IBLOCK(i)}])
           ELSE Become(p, [m EXCEPT !.pc = "written"]) /\ UNCHANGED <<inode, dinode>>
        /\ file' = [file EXCEPT ![m.f].off = m.off]
        /\ Unlock(i) /\ UNCHANGED <<bitmap, data, content, panicked>>

WriteNext(p) ==
    /\ At(p, "written")
    /\ Become(p, IF me[p].src = <<>> THEN Idle ELSE [me[p] EXCEPT !.pc = "chunk", !.wrote = {}])
    /\ UNCHANGED <<diskVars, lock, file, content, panicked>>

\* readi() reads to the end of the file at most.
ReadLength(i, off, n) == IF off > inode[i].size THEN 0 ELSE Min({n, inode[i].size - off})

stati(i) == <<inode[i].size>>

fileread(p, f, n) ==
    LET i == file[f].ip
        off == file[f].off
    IN  /\ At(p, "user") /\ Type(f) \in {"file", "dir"} /\ lock[i] = NoProc
        /\ lock' = [lock EXCEPT ![i] = p]
        /\ Become(p, [Idle EXCEPT !.pc = "bmap", !.op = "read", !.f = f, !.ip = i, !.off = off,
                          !.n = ReadLength(i, off, n)])
        /\ UNCHANGED <<diskVars, file, content, panicked>>

filestat(p, f) ==
    LET i == file[f].ip IN
    /\ At(p, "user") /\ Type(f) # "closed" /\ lock[i] = NoProc
    /\ lock' = [lock EXCEPT ![i] = p]
    /\ Become(p, [Idle EXCEPT !.pc = "bmap", !.op = "stat", !.f = f, !.ip = i,
                              !.off = file[f].off, !.got = stati(i)])
    /\ UNCHANGED <<diskVars, file, content, panicked>>

\* fileread() advances the offset; filestat() leaves it.
ReadDone(p) ==
    /\ At(p, "bmap") /\ me[p].op \in {"read", "stat"} /\ me[p].n = 0
    /\ file' = [file EXCEPT ![me[p].f].off = me[p].off]
    /\ Unlock(Ino(p)) /\ Become(p, Idle)
    /\ UNCHANGED <<diskVars, content, panicked>>

\* iput() of the last reference to an inode without links: itrunc() begins.
\* No other process is in a call with the same file.
iput(p, f) ==
    LET i == file[f].ip IN
    /\ At(p, "user") /\ Type(f) = "file" /\ lock[i] = NoProc
    /\ \A g \in Files \ {f} : file[g].ip # i
    /\ \A q \in Procs : me[q].pc # "user" => me[q].f # f
    /\ lock' = [lock EXCEPT ![i] = p] /\ file' = [file EXCEPT ![f] = Closed]
    /\ Become(p, [Idle EXCEPT !.pc = "itrunc", !.op = "iput", !.ip = i])
    /\ UNCHANGED <<diskVars, content, panicked>>

bfree(b) ==
    /\ panicked' = (b \notin bitmap)
    /\ bitmap' = bitmap \ {b}

\* itrunc() frees the direct blocks, those of the indirect block from me.n
\* on, and the indirect block; iput() then frees the inode.
itrunc(p) ==
    LET m == me[p]
        i == Ino(p)
        a == inode[i].addrs
        D == {k \in 0..NDIRECT - 1 : a[k] # 0}
        J == {j \in m.n..NINDIRECT - 1 : a[NDIRECT] # 0 /\ data[a[NDIRECT]][j] # 0}
        slot == IF D # {} THEN Min(D) ELSE NDIRECT
    IN  /\ At(p, "itrunc")
        /\ IF D = {} /\ J # {}
           THEN /\ bfree(data[a[NDIRECT]][Min(J)])
                /\ Become(p, [m EXCEPT !.n = Min(J) + 1])
                /\ UNCHANGED <<inode, dinode, lock, content>>
           ELSE IF a[slot] # 0
           THEN /\ bfree(a[slot]) /\ inode' = [inode EXCEPT ![i].addrs[slot] = 0]
                /\ UNCHANGED <<me, dinode, lock, content>>
           ELSE /\ inode' = [inode EXCEPT ![i].size = 0, ![i].type = "free"]
                /\ dinode' = [dinode EXCEPT ![i] = inode'[i]]
                /\ content' = [content EXCEPT ![i] = <<>>]
                /\ Unlock(i) /\ Become(p, Idle) /\ UNCHANGED <<bitmap, panicked>>
        /\ UNCHANGED <<data, file>>

\* create() and open(): ialloc() takes the first free inode, filealloc() the
\* first free file.
ialloc(p, f, t) ==
    LET I == {i \in Inums : dinode[i].type = "free"} IN
    /\ At(p, "user") /\ f = Min({g \in Files : file[g].ip = 0} \cup {f}) /\ Type(f) = "closed"
    /\ IF I = {} THEN panicked' = TRUE /\ UNCHANGED <<dinode, inode, file>>
       ELSE /\ dinode' = [dinode EXCEPT ![Min(I)] = [FreeInode EXCEPT !.type = t]]
            /\ inode' = [inode EXCEPT ![Min(I)] = dinode'[Min(I)]]
            /\ file' = [file EXCEPT ![f] = [ip |-> Min(I), off |-> 0]]
            /\ UNCHANGED panicked
    /\ UNCHANGED <<bitmap, data, lock, me, content>>

-----------------------------------------------------------------------------
\* A workload says which inodes are open, what is written, how much is read,
\* which types of inode are made, and which other calls are made,
\* `left' of them at most.
BlocksInit ==
    /\ work \in Workloads
    /\ inode = mkfs.inode /\ dinode = mkfs.inode /\ data = mkfs.data
    /\ bitmap = 0..mkfs.free - 1
    /\ lock = [i \in Inums |-> NoProc]
    /\ file = [f \in Files |-> [ip |-> work.open[f], off |-> 0]]
    /\ me = [p \in Procs |-> Idle]
    /\ content = [i \in Inums |->
                     IF i = 1 THEN <<1, 1>> \o [k \in 1..Len(HostFiles) |-> k + 1]
                                  \o [k \in 1..mkfs.inode[1].size - 2 - Len(HostFiles) |-> 0]
                     ELSE IF i - 1 \in 1..Len(HostFiles) THEN HostFiles[i - 1] ELSE <<>>]
    /\ panicked = FALSE

Kernel(p) ==
    bmapAlloc(p) \/ CopyBlock(p) \/ WriteChunk(p) \/ WriteDone(p) \/ WriteNext(p)
        \/ ReadDone(p) \/ itrunc(p)

Calls(p, f) ==
    \/ \E s \in work.writes : filewrite(p, f, s)
    \/ \E n \in work.reads : fileread(p, f, n)
    \/ \E t \in work.types : ialloc(p, f, t)
    \/ "stat" \in work.calls /\ filestat(p, f)
    \/ "iput" \in work.calls /\ iput(p, f)

BlocksNext ==
    \E p \in Procs :
        \/ Kernel(p) /\ UNCHANGED work
        \/ \E f \in Files : /\ work.left > 0 /\ Calls(p, f)
                            /\ work' = [work EXCEPT !.left = @ - 1]

-----------------------------------------------------------------------------
\* How often block b is in inode i; itrunc() leaves freed blocks in the
\* indirect block.
Uses(i, b) ==
    LET a == inode[i].addrs
        freed == {j \in 0..NINDIRECT - 1 : \E p \in Procs :
                      me[p].pc = "itrunc" /\ Ino(p) = i /\ j < me[p].n}
    IN  Cardinality({k \in 0..NDIRECT : a[k] = b})
        + IF a[NDIRECT] = 0 THEN 0
          ELSE Cardinality({j \in 0..NINDIRECT - 1 \ freed : data[a[NDIRECT]][j] = b})

\* Every block is in use once or free: the bitmap marks exactly the blocks
\* before the data blocks and those of the inodes, each of which is in one
\* place of one inode, at every step of every call.
Accounted ==
    \A b \in Blks : (IF b \in bitmap THEN 1 ELSE 0)
                    = (IF b < nmeta THEN 1 ELSE MapThenSumSet(LAMBDA i : Uses(i, b), Inums))

\* An inode that nobody has locked has exactly the blocks of its size, and is
\* the same on the disk.
NoHoles ==
    \A i \in Inums : lock[i] = NoProc =>
        /\ inode[i] = dinode[i]
        /\ \A bn \in 0..MAXFILE - 1 : Address(i, bn) # 0 <=> bn * BSIZE < inode[i].size

\* Blocks are neither lost nor shared.
BlocksOnce == panicked \/ (Accounted /\ NoHoles)

\* What inode i holds, through its block map.
Bytes(i) == [k \in 1..inode[i].size |-> data[Address(i, (k - 1) \div BSIZE)][(k - 1) % BSIZE]]

\* A file is a sequence of units: the calls together behave as if each chunk
\* of a write and each read were done at once, whatever blocks were used
\* before by whom; reads and stat return what the sequence holds.
FileExact ==
    panicked \/
    /\ \A i \in Inums : (lock[i] = NoProc /\ dinode[i].type # "free") => Bytes(i) = content[i]
    /\ \A p \in Procs : (me[p].pc = "bmap" /\ me[p].n = 0) =>
        /\ me[p].op = "read" => me[p].got = SubSeq(content[Ino(p)], file[me[p].f].off + 1, me[p].off)
        /\ me[p].op = "stat" => me[p].got = <<Len(content[Ino(p)])>>

\* No transaction of filewrite() writes more blocks than begin_op() reserves,
\* even if each block it allocates is in another bitmap block.
TransactionFits == \A p \in Procs : Cardinality(me[p].wrote) <= MAXOPBLOCKS
=============================================================================
