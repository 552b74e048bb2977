-------------------------- MODULE FileTableProofs --------------------------
(***************************************************************************)
(* Every count of the file table, the inode references of open files and   *)
(* the ends of pipes is right at every step of every call, for every       *)
(* number of processes, files, descriptors, inodes and pipes.              *)
(***************************************************************************)
EXTENDS FileTable, FiniteSetTheorems, WellFoundedInduction, TLAPS

-----------------------------------------------------------------------------
(* The inductive invariant *)

\* In how many places of S the function h has value v.
Hits(h, S, v) == Cardinality({x \in S : h[x] = v})

B(b) == IF b THEN 1 ELSE 0

In(s, f) == \E i \in 1..Len(s) : s[i] = f

Flat(o) == [u \in Procs \X Fds |-> o[u[1]][u[2]]]
Has(m, f) == [p \in Procs |-> B(In(m[p], f))]

\* The descriptors of file f, and the calls that have still to do with it.
Descs(o, f) == Hits(Flat(o), Procs \X Fds, f)
Calls(m, f) == Hits(Has(m, f), Procs, 1)

FileRefs == \A f \in Files : ref[f] = Descs(ofile, f) + Calls(mine, f)

InodeRefs ==
    \A i \in Inodes :
        iref[i] = Hits(obj, Files, i) + Hits(cwd, Procs, i) + Hits(ip, Procs, i) + Hits(ff, Procs, i)

Held(e) == (\E f \in Files : obj[f] = e) \/ (\E p \in Procs : ff[p] = e)

\* A pipe end belongs to one file, or to the fileclose() that closes it.
HeldOnce ==
    \A e \in Ends :
        /\ \A f, g \in Files : obj[f] = e /\ obj[g] = e => f = g
        /\ \A p, q \in Procs : ff[p] = e /\ ff[q] = e => p = q
        /\ \A f \in Files, p \in Procs : ~(obj[f] = e /\ ff[p] = e)

EndsInv == (\A e \in Ends : e \in open <=> Held(e)) /\ pages = {e[1] : e \in open} /\ HeldOnce

\* What a process has in hand, by where it is.
PlaceOK(p) ==
    /\ \A i, j \in 1..Len(mine[p]) : mine[p][i] = mine[p][j] => i = j
    /\ pc[p] \in {"user", "dead", "exit"} => mine[p] = <<>> /\ ff[p] = Nil /\ ip[p] = Nil
    /\ pc[p] \in {"open", "chdir"} => mine[p] = <<>> /\ ff[p] = Nil /\ ip[p] \in Inodes
    /\ pc[p] = "pipe_w" => Len(mine[p]) = 1 /\ ff[p] = Nil /\ ip[p] = Nil
    /\ pc[p] = "pipe_k" => Len(mine[p]) = 2 /\ ff[p] = Nil /\ ip[p] = Nil
    /\ pc[p] = "dead" => \A fd \in Fds : ofile[p][fd] = 0

\* The files of an unfinished pipe() are nobody else's.
Fresh ==
    \A p \in Procs, f \in Files :
        pc[p] \in {"pipe_w", "pipe_k"} /\ In(mine[p], f) => ref[f] = 1 /\ obj[f] = Nil

Unused == \A f \in Files : ref[f] = 0 => obj[f] = Nil

IInv ==
    /\ TypeOK /\ ~panicked /\ FileRefs /\ InodeRefs /\ EndsInv
    /\ (\A p \in Procs : PlaceOK(p)) /\ Fresh /\ Unused

-----------------------------------------------------------------------------
(* Counting *)

LEMMA Finite == IsFiniteSet(Procs) /\ IsFiniteSet(Files) /\ IsFiniteSet(Fds) /\ IsFiniteSet(Procs \X Fds)
  <1>1. IsFiniteSet(Files) /\ IsFiniteSet(Fds)
    BY FileAssumption, FS_Interval DEF Files, Fds
  <1> QED BY <1>1, FileAssumption, FS_Product, Zenon

LEMMA HitsNat ==
    ASSUME NEW S, IsFiniteSet(S), NEW h, NEW v
    PROVE  Hits(h, S, v) \in Nat /\ IsFiniteSet({x \in S : h[x] = v})
  <1>1. {x \in S : h[x] = v} \in SUBSET S
    OBVIOUS
  <1> QED BY <1>1, FS_Subset, FS_CardinalityType, Zenon DEF Hits

LEMMA HitsSame ==
    ASSUME NEW S, NEW h, NEW g, NEW v, \A x \in S : g[x] = v <=> h[x] = v
    PROVE  Hits(g, S, v) = Hits(h, S, v)
  <1>1. {x \in S : g[x] = v} = {x \in S : h[x] = v}
    OBVIOUS
  <1> QED BY <1>1, Zenon DEF Hits

\* Count m is n with a gained and b lost.
Diff(m, n, a, b) == m = n + a - b

\* g is h but for its value at x.
Differ(g, h, S, x) == \A y \in S : y # x => g[y] = h[y]

LEMMA HitsChange ==
    ASSUME NEW S, IsFiniteSet(S), NEW h, NEW g, NEW v, NEW x \in S, Differ(g, h, S, x)
    PROVE  Diff(Hits(g, S, v), Hits(h, S, v), B(g[x] = v), B(h[x] = v))
  <1> DEFINE H == {y \in S : h[y] = v}
             G == {y \in S : g[y] = v}
  <1>0. Hits(h, S, v) = Cardinality(H) /\ Hits(g, S, v) = Cardinality(G)
    BY DEF Hits
  <1>1. IsFiniteSet(H) /\ IsFiniteSet(G) /\ Cardinality(H) \in Nat /\ Cardinality(G) \in Nat
    BY FS_Subset, FS_CardinalityType, Zenon
  <1>2. G \ {x} = H \ {x} /\ (x \in G <=> g[x] = v) /\ (x \in H <=> h[x] = v)
    BY DEF Differ
  <1>3. /\ Cardinality(G \ {x}) = IF x \in G THEN Cardinality(G) - 1 ELSE Cardinality(G)
        /\ Cardinality(H \ {x}) = IF x \in H THEN Cardinality(H) - 1 ELSE Cardinality(H)
    BY <1>1, FS_RemoveElement, Zenon
  <1> HIDE DEF G, H
  <1> QED BY <1>0, <1>1, <1>2, <1>3 DEF B, Diff

LEMMA HitsPos ==
    ASSUME NEW S, IsFiniteSet(S), NEW h, NEW v, NEW x \in S, h[x] = v
    PROVE  Hits(h, S, v) >= 1
  <1> DEFINE H == {y \in S : h[y] = v}
  <1>0. Hits(h, S, v) = Cardinality(H)
    BY DEF Hits
  <1>1. IsFiniteSet(H) /\ Cardinality(H) \in Nat /\ H # {}
    BY FS_Subset, FS_CardinalityType, Zenon
  <1>2. Cardinality(H) # 0
    BY <1>1, FS_EmptySet, Zenon
  <1> HIDE DEF H
  <1> QED BY <1>0, <1>1, <1>2

LEMMA HitsTwo ==
    ASSUME NEW S, IsFiniteSet(S), NEW h, NEW v, NEW x \in S, NEW y \in S, x # y, h[x] = v, h[y] = v
    PROVE  Hits(h, S, v) >= 2
  <1> DEFINE H == {z \in S : h[z] = v}
  <1>0. Hits(h, S, v) = Cardinality(H)
    BY DEF Hits
  <1>1. IsFiniteSet(H) /\ Cardinality(H) \in Nat /\ x \in H /\ y \in H \ {x}
    BY FS_Subset, FS_CardinalityType, Zenon
  <1>2. IsFiniteSet(H \ {x}) /\ Cardinality(H \ {x}) = IF x \in H THEN Cardinality(H) - 1 ELSE Cardinality(H)
    BY <1>1, FS_RemoveElement, Zenon
  <1>3. Cardinality(H \ {x}) # 0 /\ Cardinality(H \ {x}) \in Nat
    <2>1. H \ {x} # {}
      BY <1>1, Zenon
    <2> QED BY <1>2, <2>1, FS_EmptySet, FS_CardinalityType, Zenon
  <1> HIDE DEF H
  <1> QED BY <1>0, <1>1, <1>2, <1>3, SMTT(40)

LEMMA HitsExcept ==
    ASSUME NEW S, IsFiniteSet(S), NEW T, NEW h \in [S -> T], NEW x \in S, NEW w, NEW v,
           NEW g, g = [h EXCEPT ![x] = w]
    PROVE  Diff(Hits(g, S, v), Hits(h, S, v), B(w = v), B(h[x] = v))
  <1>1. g[x] = w /\ \A y \in S : y # x => g[y] = h[y]
    OBVIOUS
  <1>2. Differ(g, h, S, x)
    BY <1>1, Zenon DEF Differ
  <1>3. Diff(Hits(g, S, v), Hits(h, S, v), B(g[x] = v), B(h[x] = v))
    BY <1>2, HitsChange, Zenon
  <1> QED BY <1>1, <1>3, Zenon

\* A nonempty set of naturals has a least element.
LEMMA MinIn ==
    ASSUME NEW S, S \subseteq Nat, S # {}
    PROVE  Min(S) \in S
  <1> DEFINE R == OpToRel(<, Nat)
  <1>1. \E x \in S : \A y \in S : ~(<<y, x>> \in R)
    <2>1. IsWellFoundedOn(R, Nat)
      BY NatLessThanWellFounded, Zenon
    <2> HIDE DEF R
    <2> QED BY <2>1, WFMin, Zenon
  <1>2. ASSUME NEW x \in S, NEW y \in S, ~(<<y, x>> \in R) PROVE x <= y
    BY <1>2 DEF OpToRel
  <1> HIDE DEF R
  <1>3. \E x \in S : \A y \in S : x <= y
    BY <1>1, <1>2, Zenon
  <1> QED BY <1>3, Zenon DEF Min

-----------------------------------------------------------------------------
(* The files a call has in hand *)

Distinct(s) == \A i, j \in 1..Len(s) : s[i] = s[j] => i = j

LEMMA InShort ==
    ASSUME NEW f \in Files
    PROVE  /\ <<>> \in Seq(Files) /\ <<f>> \in Seq(Files) /\ Distinct(<<>>) /\ Distinct(<<f>>)
           /\ Len(<<f>>) = 1 /\ Len(<<>>) = 0
           /\ \A g : ~In(<<>>, g) /\ (In(<<f>>, g) <=> f = g)
  BY DEF In, Distinct

LEMMA InPair ==
    ASSUME NEW s \in Seq(Files), Len(s) = 2
    PROVE  s[1] \in Files /\ s[2] \in Files
  BY SMTT(40)

LEMMA InAppend ==
    ASSUME NEW s \in Seq(Files), NEW f \in Files
    PROVE  /\ Append(s, f) \in Seq(Files) /\ Len(Append(s, f)) = Len(s) + 1
           /\ \A g : In(Append(s, f), g) <=> In(s, g) \/ f = g
           /\ Distinct(s) /\ ~In(s, f) => Distinct(Append(s, f))
  <1> DEFINE t == Append(s, f)
  <1>1. /\ t \in Seq(Files) /\ Len(t) = Len(s) + 1 /\ Len(s) \in Nat
        /\ t[Len(s) + 1] = f /\ \A i \in 1..Len(s) : t[i] = s[i]
    OBVIOUS
  <1> HIDE DEF t
  <1>2. \A g : In(t, g) <=> In(s, g) \/ f = g
    BY <1>1 DEF In
  <1>3. Distinct(s) /\ ~In(s, f) => Distinct(t)
    BY <1>1 DEF In, Distinct
  <1> QED BY <1>1, <1>2, <1>3 DEF t

LEMMA InTail ==
    ASSUME NEW s \in Seq(Files), s # <<>>, Distinct(s)
    PROVE  /\ Tail(s) \in Seq(Files) /\ Distinct(Tail(s)) /\ Head(s) \in Files /\ In(s, Head(s))
           /\ \A g : In(Tail(s), g) <=> In(s, g) /\ g # Head(s)
  <1> DEFINE t == Tail(s)
             f == Head(s)
  <1>1. /\ t \in Seq(Files) /\ Len(t) = Len(s) - 1 /\ Len(s) \in Nat /\ Len(s) >= 1
        /\ f = s[1] /\ f \in Files /\ \A i \in 1..Len(t) : t[i] = s[i + 1]
    OBVIOUS
  <1> HIDE DEF t, f
  <1>2. In(s, f)
    BY <1>1 DEF In
  <1>3. Distinct(t)
    BY <1>1 DEF Distinct
  <1>4. ASSUME NEW g PROVE In(t, g) <=> In(s, g) /\ g # f
    <2>1. ASSUME In(t, g) PROVE In(s, g) /\ g # f
      BY <1>1, <2>1 DEF In, Distinct
    <2>2. ASSUME In(s, g), g # f PROVE In(t, g)
      <3>1. PICK i \in 1..Len(s) : s[i] = g
        BY <2>2 DEF In
      <3>2. i # 1
        BY <1>1, <2>2, <3>1
      <3>3. i - 1 \in 1..Len(t) /\ t[i - 1] = g
        BY <1>1, <3>1, <3>2
      <3> QED BY <3>3 DEF In
    <2> QED BY <2>1, <2>2
  <1> QED BY <1>1, <1>2, <1>3, <1>4 DEF t, f

-----------------------------------------------------------------------------
(* What a step does to the counts *)

DescTable == [Procs -> [Fds -> 0..NFILE]]

LEMMA DescType ==
    ASSUME NEW o \in DescTable, NEW p \in Procs, NEW fd \in Fds, NEW g \in 0..NFILE
    PROVE  [o EXCEPT ![p][fd] = g] \in DescTable
  BY DEF DescTable

LEMMA DescChange ==
    ASSUME NEW o \in DescTable, NEW p \in Procs, NEW fd \in Fds, NEW g \in 0..NFILE, NEW f,
           NEW n, n = [o EXCEPT ![p][fd] = g]
    PROVE  Diff(Descs(n, f), Descs(o, f), B(g = f), B(o[p][fd] = f))
  <1> DEFINE S == Procs \X Fds
             u == <<p, fd>>
  <1>1. /\ n[p][fd] = g
        /\ \A q \in Procs, d \in Fds : q # p \/ d # fd => n[q][d] = o[q][d]
    BY DEF DescTable
  <1>2. /\ u \in S /\ Flat(n)[u] = g /\ Flat(o)[u] = o[p][fd]
        /\ \A v \in S : v # u => Flat(n)[v] = Flat(o)[v]
    BY <1>1 DEF Flat
  <1> HIDE DEF u
  <1>3. Differ(Flat(n), Flat(o), S, u)
    BY <1>2, Zenon DEF Differ
  <1>4. Diff(Hits(Flat(n), S, f), Hits(Flat(o), S, f), B(Flat(n)[u] = f), B(Flat(o)[u] = f))
    BY <1>2, <1>3, Finite, HitsChange, Zenon
  <1> QED BY <1>1, <1>2, <1>4, Zenon DEF Descs

LEMMA CallChange ==
    ASSUME NEW m \in [Procs -> Seq(Files)], NEW p \in Procs, NEW s, NEW f, NEW n, n = [m EXCEPT ![p] = s]
    PROVE  Diff(Calls(n, f), Calls(m, f), B(In(s, f)), B(In(m[p], f)))
  <1> DEFINE g == Has(n, f)
             h == Has(m, f)
  <1>1. n[p] = s /\ \A q \in Procs : q # p => n[q] = m[q]
    OBVIOUS
  <1>2. g[p] = B(In(s, f)) /\ h[p] = B(In(m[p], f)) /\ \A q \in Procs : q # p => g[q] = h[q]
    BY <1>1, Zenon DEF Has
  <1>3. Calls(n, f) = Hits(g, Procs, 1) /\ Calls(m, f) = Hits(h, Procs, 1)
    BY Zenon DEF Calls
  <1> HIDE DEF g, h
  <1>4. Differ(g, h, Procs, p)
    BY <1>2, Zenon DEF Differ
  <1>5. Diff(Hits(g, Procs, 1), Hits(h, Procs, 1), B(g[p] = 1), B(h[p] = 1))
    BY <1>4, Finite, HitsChange, Zenon
  <1>6. B(g[p] = 1) = B(In(s, f)) /\ B(h[p] = 1) = B(In(m[p], f))
    BY <1>2 DEF B
  <1> QED BY <1>3, <1>5, <1>6, Zenon

LEMMA CountsNat ==
    ASSUME NEW o, NEW m, NEW f
    PROVE  Descs(o, f) \in Nat /\ Calls(m, f) \in Nat
  BY Finite, HitsNat, Zenon DEF Descs, Calls

\* A file that somebody refers to is counted, and a count of one is one user.
LEMMA Referred ==
    ASSUME TypeOK, FileRefs, NEW f \in Files, NEW p \in Procs
    PROVE  /\ In(mine[p], f) => ref[f] >= 1
           /\ \A fd \in Fds : ofile[p][fd] = f => ref[f] >= 1
           /\ In(mine[p], f) => \A q \in Procs, fd \in Fds : ofile[q][fd] = f => ref[f] >= 2
           /\ \A q \in Procs : In(mine[p], f) /\ In(mine[q], f) /\ q # p => ref[f] >= 2
  <1>1. Descs(ofile, f) \in Nat /\ Calls(mine, f) \in Nat /\ ref[f] = Descs(ofile, f) + Calls(mine, f)
    BY CountsNat, Zenon DEF FileRefs
  <1>2. ASSUME NEW q \in Procs, In(mine[q], f) PROVE Calls(mine, f) >= 1 /\ Has(mine, f)[q] = 1
    <2>1. Has(mine, f)[q] = 1
      BY <1>2, Zenon DEF Has, B
    <2> QED BY <2>1, Finite, HitsPos, Zenon DEF Calls
  <1>3. ASSUME NEW q \in Procs, NEW fd \in Fds, ofile[q][fd] = f PROVE Descs(ofile, f) >= 1
    <2>1. <<q, fd>> \in Procs \X Fds /\ Flat(ofile)[<<q, fd>>] = f
      BY <1>3 DEF Flat
    <2> QED BY <2>1, Finite, HitsPos, Zenon DEF Descs
  <1>4. ASSUME NEW q \in Procs, In(mine[p], f), In(mine[q], f), q # p PROVE Calls(mine, f) >= 2
    BY <1>2, <1>4, Finite, HitsTwo, Zenon DEF Calls
  <1>5. In(mine[p], f) => ref[f] >= 1
    BY <1>1, <1>2
  <1>6. ASSUME NEW fd \in Fds, NEW q \in Procs, ofile[q][fd] = f
        PROVE  ref[f] >= 1 /\ (In(mine[p], f) => ref[f] >= 2)
    BY <1>1, <1>2, <1>3, <1>6, SMTT(40)
  <1>7. ASSUME NEW q \in Procs, In(mine[p], f), In(mine[q], f), q # p PROVE ref[f] >= 2
    BY <1>1, <1>4, <1>7
  <1> QED BY <1>5, <1>6, <1>7, Zenon

-----------------------------------------------------------------------------
(* Steps that change no file *)

Objects == Inodes \cup Ends \cup {Nil}
Pcs == {"user", "dead", "close", "pipe_w", "pipe_k", "open", "chdir", "exit", "exit_close"}

LEMMA Types ==
    ASSUME TypeOK
    PROVE  /\ ref \in [Files -> Nat] /\ obj \in [Files -> Objects] /\ ofile \in DescTable
           /\ cwd \in [Procs -> Inodes \cup {Nil}] /\ ip \in [Procs -> Inodes \cup {Nil}]
           /\ iref \in [Inodes -> Nat] /\ open \subseteq Ends /\ pages \subseteq Pipes
           /\ mine \in [Procs -> Seq(Files)] /\ ff \in [Procs -> Objects] /\ pc \in [Procs -> Pcs]
           /\ \A p \in Procs : cwd[p] = Nil <=> pc[p] = "dead"
  BY Zenon DEF TypeOK, Objects, DescTable, Pcs

LEMMA TypesNext ==
    ASSUME ref' \in [Files -> Nat], obj' \in [Files -> Objects], ofile' \in DescTable,
           cwd' \in [Procs -> Inodes \cup {Nil}], ip' \in [Procs -> Inodes \cup {Nil}],
           iref' \in [Inodes -> Nat], open' \subseteq Ends, pages' \subseteq Pipes,
           mine' \in [Procs -> Seq(Files)], ff' \in [Procs -> Objects], pc' \in [Procs -> Pcs],
           \A p \in Procs : cwd'[p] = Nil <=> pc'[p] = "dead"
    PROVE  TypeOK'
  BY Zenon DEF TypeOK, Objects, DescTable, Pcs

LEMMA Names == Nil \notin Inodes /\ Nil \notin Ends /\ Inodes \cap Ends = {}
  BY FileAssumption, Zenon

\* A step of p is nobody else's business.
Others(p) ==
    \A q \in Procs : q # p =>
        /\ mine'[q] = mine[q] /\ pc'[q] = pc[q] /\ ff'[q] = ff[q] /\ ip'[q] = ip[q]
        /\ ofile'[q] = ofile[q]

LEMMA PlaceFrame ==
    ASSUME \A q \in Procs : PlaceOK(q), NEW p \in Procs, Others(p), PlaceOK(p)'
    PROVE  \A q \in Procs : PlaceOK(q)'
  <1> SUFFICES ASSUME NEW q \in Procs, q # p PROVE PlaceOK(q)'
    BY Zenon
  <1>1. /\ mine'[q] = mine[q] /\ pc'[q] = pc[q] /\ ff'[q] = ff[q] /\ ip'[q] = ip[q]
        /\ ofile'[q] = ofile[q] /\ PlaceOK(q)
    BY Zenon DEF Others
  <1> QED BY <1>1 DEF PlaceOK

LEMMA FreshFrame ==
    ASSUME Fresh, NEW p \in Procs, Others(p), pc'[p] \notin {"pipe_w", "pipe_k"},
           \A q \in Procs, f \in Files :
               q # p /\ In(mine[q], f) /\ ref[f] = 1 /\ obj[f] = Nil => ref'[f] = 1 /\ obj'[f] = Nil
    PROVE  Fresh'
  <1> SUFFICES ASSUME NEW q \in Procs, NEW f \in Files, pc'[q] \in {"pipe_w", "pipe_k"}, In(mine'[q], f)
               PROVE  ref'[f] = 1 /\ obj'[f] = Nil
    BY Zenon DEF Fresh
  <1>1. q # p /\ mine'[q] = mine[q] /\ pc'[q] = pc[q]
    BY Zenon DEF Others
  <1> QED BY <1>1, Zenon DEF Fresh

\* The number of places that refer to an inode is a number.
LEMMA InodeSum ==
    ASSUME NEW i
    PROVE  /\ Hits(obj, Files, i) \in Nat /\ Hits(cwd, Procs, i) \in Nat /\ Hits(ip, Procs, i) \in Nat
           /\ Hits(ff, Procs, i) \in Nat
  BY Finite, HitsNat, Zenon

LEMMA InodeSumNext ==
    ASSUME NEW i
    PROVE  /\ Hits(obj', Files, i) \in Nat /\ Hits(cwd', Procs, i) \in Nat /\ Hits(ip', Procs, i) \in Nat
           /\ Hits(ff', Procs, i) \in Nat
  BY Finite, HitsNat, Zenon

\* An inode's count is changed at one place, and is a number if it is right.
LEMMA IrefType ==
    ASSUME iref \in [Inodes -> Nat], NEW j \in Inodes, NEW w, iref' = [iref EXCEPT ![j] = w], InodeRefs'
    PROVE  iref' \in [Inodes -> Nat]
  <1>1. iref'[j] = w
    OBVIOUS
  <1>2. w = Hits(obj', Files, j) + Hits(cwd', Procs, j) + Hits(ip', Procs, j) + Hits(ff', Procs, j)
    BY <1>1, Zenon DEF InodeRefs
  <1>3. w \in Nat
    BY <1>2, InodeSumNext
  <1> QED BY <1>3

LEMMA RefType ==
    ASSUME ref \in [Files -> Nat], NEW j \in Files, NEW w, ref' = [ref EXCEPT ![j] = w], FileRefs'
    PROVE  ref' \in [Files -> Nat]
  <1>1. ref'[j] = w
    OBVIOUS
  <1>2. w = Descs(ofile', j) + Calls(mine', j)
    BY <1>1, Zenon DEF FileRefs
  <1>3. Descs(ofile', j) \in Nat /\ Calls(mine', j) \in Nat
    BY CountsNat, Zenon
  <1>4. w \in Nat
    BY <1>2, <1>3
  <1> QED BY <1>4

LEMMA InodeOnly ==
    ASSUME IInv, UNCHANGED <<tab, ofile, open, pages, mine, ff, panicked>>, NEW p \in Procs,
           Others(p), PlaceOK(p)', pc'[p] \notin {"pipe_w", "pipe_k"}, TypeOK', InodeRefs'
    PROVE  IInv'
  <1>1. FileRefs' /\ Unused' /\ ~panicked'
    BY Zenon DEF IInv, FileRefs, Unused, tab
  <1>2. EndsInv'
    BY Zenon DEF IInv, EndsInv, Held, HeldOnce, tab
  <1>3. Fresh'
    BY FreshFrame, Zenon DEF IInv, tab
  <1>4. \A q \in Procs : PlaceOK(q)'
    BY PlaceFrame, Zenon DEF IInv
  <1> QED BY <1>1, <1>2, <1>3, <1>4, Zenon DEF IInv

\* The inode a failed call has is put.
LEMMA DoneStep ==
    ASSUME IInv, NEW p \in Procs, Done(p)
    PROVE  IInv'
  <1>1. TypeOK /\ InodeRefs /\ PlaceOK(p)
    BY Zenon DEF IInv
  <1>2. /\ pc[p] \in {"close", "exit_close"} /\ mine[p] = <<>> /\ ff[p] = Nil
        /\ ip' = [ip EXCEPT ![p] = Nil] /\ iref' = IF ip[p] = Nil THEN iref ELSE [iref EXCEPT ![ip[p]] = @ - 1]
        /\ pc' = [pc EXCEPT ![p] = IF pc[p] = "close" THEN "user" ELSE "exit"]
        /\ UNCHANGED <<tab, ofile, cwd, open, pages, mine, ff, panicked>>
    BY Zenon DEF Done, Goto, Closing
  <1>3. InodeRefs'
    <2> SUFFICES ASSUME NEW i \in Inodes
                 PROVE  iref'[i] = Hits(obj', Files, i) + Hits(cwd', Procs, i) + Hits(ip', Procs, i) + Hits(ff', Procs, i)
      BY Zenon DEF InodeRefs
    <2>1. Diff(Hits(ip', Procs, i), Hits(ip, Procs, i), B(Nil = i), B(ip[p] = i))
      BY <1>1, <1>2, Types, Finite, HitsExcept, ZenonT(60)
    <2>2. iref'[i] = iref[i] - B(ip[p] = i)
      BY <1>1, <1>2, Types, Names DEF B
    <2>3. /\ iref[i] = Hits(obj, Files, i) + Hits(cwd, Procs, i) + Hits(ip, Procs, i) + Hits(ff, Procs, i)
          /\ B(Nil = i) = 0 /\ obj' = obj /\ cwd' = cwd /\ ff' = ff
      BY <1>1, <1>2, Names, Zenon DEF InodeRefs, tab, B
    <2> QED BY <2>1, <2>2, <2>3, InodeSum, SMTT(40) DEF Diff, B
  <1>4. TypeOK'
    <2>1. iref' \in [Inodes -> Nat]
      <3>1. CASE ip[p] = Nil
        BY <1>1, <1>2, <3>1, Types, Zenon
      <3>2. CASE ip[p] # Nil
        <4>1. ip[p] \in Inodes /\ iref' = [iref EXCEPT ![ip[p]] = iref[ip[p]] - 1]
          BY <1>1, <1>2, <3>2, Types, SMTT(40)
        <4> QED BY <1>1, <1>3, <4>1, Types, IrefType, Zenon
      <3> QED BY <3>1, <3>2, Zenon
    <2>2. /\ ip' \in [Procs -> Inodes \cup {Nil}] /\ pc' \in [Procs -> Pcs]
          /\ \A q \in Procs : cwd'[q] = Nil <=> pc'[q] = "dead"
      BY <1>1, <1>2, Types, SMTT(40) DEF Pcs
    <2> QED BY <1>1, <1>2, <2>1, <2>2, Types, TypesNext, Zenon DEF tab
  <1>5. Others(p) /\ pc'[p] \in {"user", "exit"} /\ ip'[p] = Nil
    BY <1>1, <1>2, Types, SMTT(40) DEF Others
  <1>6. PlaceOK(p)'
    BY <1>1, <1>2, <1>5, SMTT(40) DEF PlaceOK
  <1> QED BY <1>2, <1>3, <1>4, <1>5, <1>6, InodeOnly, SMTT(40)

\* open() and chdir() get a reference to the inode they look up.
LEMMA LookupStep ==
    ASSUME IInv, NEW p \in Procs, NEW j \in Inodes, sys_open(p, j) \/ sys_chdir(p, j)
    PROVE  IInv'
  <1>1. TypeOK /\ InodeRefs /\ PlaceOK(p)
    BY Zenon DEF IInv
  <1>2. /\ pc[p] = "user" /\ ip' = [ip EXCEPT ![p] = j] /\ iref' = [iref EXCEPT ![j] = @ + 1]
        /\ pc' = [pc EXCEPT ![p] = "open"] \/ pc' = [pc EXCEPT ![p] = "chdir"]
        /\ UNCHANGED <<tab, ofile, cwd, open, pages, mine, ff, panicked>>
    BY Zenon DEF sys_open, sys_chdir, Call, Goto
  <1>3. mine[p] = <<>> /\ ff[p] = Nil /\ ip[p] = Nil
    BY <1>1, <1>2, Zenon DEF PlaceOK
  <1>4. InodeRefs'
    <2> SUFFICES ASSUME NEW i \in Inodes
                 PROVE  iref'[i] = Hits(obj', Files, i) + Hits(cwd', Procs, i) + Hits(ip', Procs, i) + Hits(ff', Procs, i)
      BY Zenon DEF InodeRefs
    <2>1. Diff(Hits(ip', Procs, i), Hits(ip, Procs, i), B(j = i), B(ip[p] = i))
      BY <1>1, <1>2, Types, Finite, HitsExcept, Zenon
    <2>2. iref'[i] = iref[i] + B(j = i)
      BY <1>1, <1>2, Types DEF B
    <2>3. /\ iref[i] = Hits(obj, Files, i) + Hits(cwd, Procs, i) + Hits(ip, Procs, i) + Hits(ff, Procs, i)
          /\ B(ip[p] = i) = 0 /\ obj' = obj /\ cwd' = cwd /\ ff' = ff
      BY <1>1, <1>2, <1>3, Names, Zenon DEF InodeRefs, tab, B
    <2> QED BY <2>1, <2>2, <2>3, InodeSum, SMTT(40) DEF Diff, B
  <1>5. TypeOK'
    <2>1. iref' \in [Inodes -> Nat] /\ ip' \in [Procs -> Inodes \cup {Nil}] /\ pc' \in [Procs -> Pcs]
      <3>1. /\ iref \in [Inodes -> Nat] /\ ip \in [Procs -> Inodes \cup {Nil}]
            /\ pc \in [Procs -> Pcs] /\ {"open", "chdir"} \subseteq Pcs
        BY <1>1, Types DEF Pcs
      <3>2. iref' \in [Inodes -> Nat] /\ ip' \in [Procs -> Inodes \cup {Nil}]
        BY <1>2, <3>1
      <3>3. pc' \in [Procs -> Pcs]
        BY <1>2, <3>1, SMTT(40)
      <3> QED BY <3>2, <3>3, Zenon
    <2>2. \A q \in Procs : cwd'[q] = Nil <=> pc'[q] = "dead"
      BY <1>1, <1>2, Types, SMTT(40)
    <2> QED BY <1>1, <1>2, <2>1, <2>2, Types, TypesNext, Zenon DEF tab
  <1>6. Others(p) /\ pc'[p] \in {"open", "chdir"} /\ ip'[p] = j
    <2>1. pc \in [Procs -> Pcs] /\ ip \in [Procs -> Inodes \cup {Nil}]
      BY <1>1, Types, Zenon
    <2> QED BY <1>2, <2>1 DEF Others
  <1>7. PlaceOK(p)'
    BY <1>1, <1>2, <1>3, <1>6, SMTT(40) DEF PlaceOK
  <1> QED BY <1>2, <1>4, <1>5, <1>6, <1>7, InodeOnly, SMTT(40)

\* chdir() puts the old directory, or the inode that is none.
LEMMA ChdirStep ==
    ASSUME IInv, NEW p \in Procs, Chdir(p)
    PROVE  IInv'
  <1>1. TypeOK /\ InodeRefs /\ PlaceOK(p)
    BY Zenon DEF IInv
  <1>2. PICK c \in {cwd[p], ip[p]} :
            /\ pc[p] = "chdir" /\ pc' = [pc EXCEPT ![p] = "user"] /\ ip' = [ip EXCEPT ![p] = Nil]
            /\ iref' = [iref EXCEPT ![IF c = cwd[p] THEN ip[p] ELSE cwd[p]] = @ - 1]
            /\ cwd' = [cwd EXCEPT ![p] = c]
            /\ UNCHANGED <<tab, ofile, open, pages, mine, ff, panicked>>
    BY Zenon DEF Chdir, Goto
  <1>3. mine[p] = <<>> /\ ff[p] = Nil /\ ip[p] \in Inodes /\ cwd[p] \in Inodes
    BY <1>1, <1>2, Types, SMTT(40) DEF PlaceOK
  <1> DEFINE d == IF c = cwd[p] THEN ip[p] ELSE cwd[p]
  <1>4. d \in Inodes /\ c \in Inodes /\ iref' = [iref EXCEPT ![d] = iref[d] - 1]
    BY <1>2, <1>3, SMTT(40)
  <1>5. InodeRefs'
    <2> SUFFICES ASSUME NEW i \in Inodes
                 PROVE  iref'[i] = Hits(obj', Files, i) + Hits(cwd', Procs, i) + Hits(ip', Procs, i) + Hits(ff', Procs, i)
      BY Zenon DEF InodeRefs
    <2>1. /\ Diff(Hits(ip', Procs, i), Hits(ip, Procs, i), B(Nil = i), B(ip[p] = i))
          /\ Diff(Hits(cwd', Procs, i), Hits(cwd, Procs, i), B(c = i), B(cwd[p] = i))
      BY <1>1, <1>2, Types, Finite, HitsExcept, Zenon
    <2>2. iref'[i] = iref[i] - B(d = i)
      BY <1>1, <1>4, Types DEF B
    <2>3. /\ iref[i] = Hits(obj, Files, i) + Hits(cwd, Procs, i) + Hits(ip, Procs, i) + Hits(ff, Procs, i)
          /\ B(Nil = i) = 0 /\ obj' = obj /\ ff' = ff
      BY <1>1, <1>2, Names, Zenon DEF InodeRefs, tab, B
    <2>4. B(c = i) - B(cwd[p] = i) - B(ip[p] = i) = 0 - B(d = i)
      BY <1>2 DEF B
    <2> QED BY <2>1, <2>2, <2>3, <2>4, InodeSum, SMTT(40) DEF Diff, B
  <1> HIDE DEF d
  <1>6. TypeOK'
    <2>1. iref' \in [Inodes -> Nat]
      BY <1>1, <1>4, <1>5, Types, IrefType, Zenon
    <2>2. /\ ip' \in [Procs -> Inodes \cup {Nil}] /\ cwd' \in [Procs -> Inodes \cup {Nil}]
          /\ pc' \in [Procs -> Pcs] /\ \A q \in Procs : cwd'[q] = Nil <=> pc'[q] = "dead"
      BY <1>1, <1>2, <1>4, Types, Names, SMTT(40) DEF Pcs
    <2> QED BY <1>1, <1>2, <2>1, <2>2, Types, TypesNext, Zenon DEF tab
  <1>7. Others(p) /\ pc'[p] = "user" /\ ip'[p] = Nil
    BY <1>1, <1>2, Types, SMTT(40) DEF Others
  <1>8. PlaceOK(p)'
    BY <1>1, <1>2, <1>3, <1>7, SMTT(40) DEF PlaceOK
  <1> QED BY <1>2, <1>5, <1>6, <1>7, <1>8, InodeOnly, SMTT(40)

\* exit(): it begins, and at the end it puts the working directory.
LEMMA ExitStep ==
    ASSUME IInv, NEW p \in Procs, exit(p) \/ ExitCwd(p)
    PROVE  IInv'
  <1>1. TypeOK /\ InodeRefs /\ PlaceOK(p)
    BY Zenon DEF IInv
  <1>2. CASE exit(p)
    <2>1. pc[p] = "user" /\ pc' = [pc EXCEPT ![p] = "exit"]
          /\ UNCHANGED <<tab, ofile, cwd, iref, open, pages, mine, ff, ip, panicked>>
      BY <1>2, Zenon DEF exit, Call, Goto, objs, locals
    <2>2. Others(p) /\ pc'[p] = "exit" /\ pc' \in [Procs -> Pcs] /\ \A q \in Procs : cwd'[q] = Nil <=> pc'[q] = "dead"
      BY <1>1, <2>1, Types DEF Others, Pcs
    <2>3. TypeOK'
      BY <1>1, <2>1, <2>2, Types, TypesNext, Zenon DEF tab
    <2>4. InodeRefs'
      BY <1>1, <2>1, Zenon DEF InodeRefs, tab
    <2>5. PlaceOK(p)'
      BY <1>1, <2>1, <2>2, SMTT(40) DEF PlaceOK
    <2> QED BY <2>1, <2>2, <2>3, <2>4, <2>5, InodeOnly, SMTT(40)
  <1>3. CASE ExitCwd(p)
    <2>1. /\ pc[p] = "exit" /\ pc' = [pc EXCEPT ![p] = "dead"] /\ FreeFds(p) = Fds
          /\ iref' = [iref EXCEPT ![cwd[p]] = @ - 1] /\ cwd' = [cwd EXCEPT ![p] = Nil]
          /\ UNCHANGED <<tab, ofile, open, pages, mine, ff, ip, panicked>>
      BY <1>3, Zenon DEF ExitCwd, Goto, locals
    <2>2. cwd[p] \in Inodes /\ iref' = [iref EXCEPT ![cwd[p]] = iref[cwd[p]] - 1]
      BY <1>1, <2>1, Types, SMTT(40)
    <2>3. InodeRefs'
      <3> SUFFICES ASSUME NEW i \in Inodes
                   PROVE  iref'[i] = Hits(obj', Files, i) + Hits(cwd', Procs, i) + Hits(ip', Procs, i) + Hits(ff', Procs, i)
        BY Zenon DEF InodeRefs
      <3>1. Diff(Hits(cwd', Procs, i), Hits(cwd, Procs, i), B(Nil = i), B(cwd[p] = i))
        BY <1>1, <2>1, Types, Finite, HitsExcept, Zenon
      <3>2. iref'[i] = iref[i] - B(cwd[p] = i)
        BY <1>1, <2>2, Types, SMTT(40) DEF B
      <3>3. /\ iref[i] = Hits(obj, Files, i) + Hits(cwd, Procs, i) + Hits(ip, Procs, i) + Hits(ff, Procs, i)
            /\ B(Nil = i) = 0 /\ obj' = obj /\ ip' = ip /\ ff' = ff
        BY <1>1, <2>1, Names, Zenon DEF InodeRefs, tab, B
      <3> QED BY <3>1, <3>2, <3>3, InodeSum, SMTT(40) DEF Diff, B
    <2>4. TypeOK'
      <3>1. iref' \in [Inodes -> Nat]
        BY <1>1, <2>2, <2>3, Types, IrefType, Zenon
      <3>2. /\ cwd' \in [Procs -> Inodes \cup {Nil}] /\ pc' \in [Procs -> Pcs]
            /\ \A q \in Procs : cwd'[q] = Nil <=> pc'[q] = "dead"
        BY <1>1, <2>1, Types, SMTT(40) DEF Pcs
      <3> QED BY <1>1, <2>1, <3>1, <3>2, Types, TypesNext, Zenon DEF tab
    <2>5. Others(p) /\ pc'[p] = "dead"
      BY <1>1, <2>1, Types, SMTT(40) DEF Others
    <2>6. \A fd \in Fds : ofile[p][fd] = 0
      BY <2>1, Zenon DEF FreeFds
    <2>7. PlaceOK(p)'
      BY <1>1, <2>1, <2>5, <2>6, SMTT(40) DEF PlaceOK
    <2> QED BY <2>1, <2>3, <2>4, <2>5, <2>7, InodeOnly, SMTT(40)
  <1> QED BY <1>2, <1>3, Zenon

\* fileclose() puts the inode.
LEMMA ReleaseInode ==
    ASSUME IInv, NEW p \in Procs, Release(p), ff[p] \in Inodes
    PROVE  InodeRefs' /\ EndsInv' /\ TypeOK'
  <1>1. TypeOK /\ InodeRefs /\ EndsInv
    BY Zenon DEF IInv
  <1>2. /\ ff' = [ff EXCEPT ![p] = Nil] /\ iref' = [iref EXCEPT ![ff[p]] = @ - 1]
        /\ UNCHANGED <<tab, ofile, cwd, open, pages, pc, mine, ip, panicked>>
    BY Zenon DEF Release
  <1>3. InodeRefs'
    <2> SUFFICES ASSUME NEW i \in Inodes
                 PROVE  iref'[i] = Hits(obj', Files, i) + Hits(cwd', Procs, i) + Hits(ip', Procs, i) + Hits(ff', Procs, i)
      BY Zenon DEF InodeRefs
    <2>1. Diff(Hits(ff', Procs, i), Hits(ff, Procs, i), B(Nil = i), B(ff[p] = i))
      BY <1>1, <1>2, Types, Finite, HitsExcept, Zenon
    <2>2. iref'[i] = iref[i] - B(ff[p] = i)
      BY <1>1, <1>2, Types, SMTT(40) DEF B
    <2>3. /\ iref[i] = Hits(obj, Files, i) + Hits(cwd, Procs, i) + Hits(ip, Procs, i) + Hits(ff, Procs, i)
          /\ B(Nil = i) = 0 /\ obj' = obj /\ ip' = ip /\ cwd' = cwd
      BY <1>1, <1>2, Names, Zenon DEF InodeRefs, tab, B
    <2> QED BY <2>1, <2>2, <2>3, InodeSum, SMTT(40) DEF Diff, B
  <1>4. ff' \in [Procs -> Objects] /\ \A q \in Procs : ff'[q] = IF q = p THEN Nil ELSE ff[q]
    BY <1>1, <1>2, Types, SMTT(40) DEF Objects
  <1>5. TypeOK'
    <2>1. iref' = [iref EXCEPT ![ff[p]] = iref[ff[p]] - 1]
      BY <1>1, <1>2, Types, SMTT(40)
    <2>2. iref' \in [Inodes -> Nat]
      BY <1>1, <1>3, <2>1, Types, IrefType, Zenon
    <2> QED BY <1>1, <1>2, <1>4, <2>2, Types, TypesNext, Zenon DEF tab
  <1>6. EndsInv'
    <2>1. \A e \in Ends, q \in Procs : ff'[q] = e <=> ff[q] = e
      BY <1>4, Names, Zenon
    <2>2. \A e \in Ends : Held(e)' <=> Held(e)
      BY <1>2, <2>1, Zenon DEF Held, tab
    <2>3. HeldOnce'
      <3>1. HeldOnce /\ obj' = obj /\ \A e \in Ends, q \in Procs : ff'[q] = e => ff[q] = e
        BY <1>1, <1>2, <2>1, Zenon DEF EndsInv, tab
      <3> QED BY <3>1, Zenon DEF HeldOnce
    <2> QED BY <1>1, <1>2, <2>2, <2>3, Zenon DEF EndsInv
  <1> QED BY <1>3, <1>5, <1>6, Zenon

\* pipeclose() closes the end, and frees the pipe after the second one.
LEMMA ReleaseEnd ==
    ASSUME IInv, NEW p \in Procs, Release(p), ff[p] \notin Inodes
    PROVE  InodeRefs' /\ EndsInv' /\ TypeOK'
  <1>0. PICK e0 : e0 = ff[p]
    BY Zenon
  <1>1. TypeOK /\ InodeRefs /\ EndsInv
    BY Zenon DEF IInv
  <1>2. /\ ff' = [ff EXCEPT ![p] = Nil] /\ open' = open \ {e0}
        /\ pages' = IF \E e \in open' : e[1] = e0[1] THEN pages ELSE pages \ {e0[1]}
        /\ UNCHANGED <<tab, ofile, cwd, iref, pc, mine, ip, panicked>> /\ e0 # Nil
    BY <1>0, Zenon DEF Release
  <1>3. e0 \in Ends
    BY <1>0, <1>1, <1>2, Types, Zenon DEF Objects
  <1>4. ff' \in [Procs -> Objects] /\ \A q \in Procs : ff'[q] = IF q = p THEN Nil ELSE ff[q]
    BY <1>1, <1>2, Types, SMTT(40) DEF Objects
  <1>5. InodeRefs'
    <2> SUFFICES ASSUME NEW i \in Inodes
                 PROVE  iref'[i] = Hits(obj', Files, i) + Hits(cwd', Procs, i) + Hits(ip', Procs, i) + Hits(ff', Procs, i)
      BY Zenon DEF InodeRefs
    <2>1. \A q \in Procs : ff'[q] = i <=> ff[q] = i
      BY <1>0, <1>3, <1>4, Names, Zenon
    <2>2. Hits(ff', Procs, i) = Hits(ff, Procs, i)
      BY <2>1, HitsSame
    <2> QED BY <1>1, <1>2, <2>2, Zenon DEF InodeRefs, tab
  <1>6. TypeOK'
    <2>1. open' \subseteq Ends /\ pages' \subseteq Pipes
      BY <1>1, <1>2, Types, Zenon
    <2> QED BY <1>1, <1>2, <1>4, <2>1, Types, TypesNext, Zenon DEF tab
  <1>7. EndsInv'
    <2>1. \A e \in Ends, q \in Procs : ff'[q] = e => ff[q] = e /\ q # p
      BY <1>4, Names, Zenon
    <2>2. ASSUME NEW e \in Ends, e # e0 PROVE Held(e)' <=> Held(e)
      BY <1>0, <1>2, <1>4, <2>1, <2>2, Zenon DEF Held, tab
    <2>3. ~Held(e0)'
      BY <1>0, <1>1, <1>2, <1>3, <2>1, Zenon DEF EndsInv, HeldOnce, Held, tab
    <2>4. HeldOnce'
      BY <1>1, <1>2, <2>1, Zenon DEF EndsInv, HeldOnce, tab
    <2>5. e0 \in open /\ pages = {e[1] : e \in open}
      BY <1>0, <1>1, <1>3, Zenon DEF EndsInv, Held
    <2>6. pages' = {e[1] : e \in open'}
      <3>1. CASE \E e \in open' : e[1] = e0[1]
        BY <1>2, <2>5, <3>1, Zenon
      <3>2. CASE ~ \E e \in open' : e[1] = e0[1]
        BY <1>2, <2>5, <3>2, Zenon
      <3> QED BY <3>1, <3>2, Zenon
    <2>7. \A e \in Ends : e \in open' <=> Held(e)'
      BY <1>1, <1>2, <1>3, <2>2, <2>3, Zenon DEF EndsInv
    <2> QED BY <2>4, <2>6, <2>7, Zenon DEF EndsInv
  <1> QED BY <1>5, <1>6, <1>7, Zenon

LEMMA ReleaseStep ==
    ASSUME IInv, NEW p \in Procs, Release(p)
    PROVE  IInv'
  <1>1. InodeRefs' /\ EndsInv' /\ TypeOK'
    BY ReleaseInode, ReleaseEnd, Zenon
  <1>2. /\ pc[p] \in {"close", "exit_close"} /\ ff' = [ff EXCEPT ![p] = Nil]
        /\ UNCHANGED <<tab, ofile, cwd, pc, mine, ip, panicked>> /\ ff \in [Procs -> Objects] /\ PlaceOK(p)
    BY Types, Zenon DEF IInv, Release, Closing
  <1>3. FileRefs' /\ Unused' /\ ~panicked'
    BY <1>2, Zenon DEF IInv, FileRefs, Unused, tab
  <1>4. Others(p)
    BY <1>2, SMTT(40) DEF Others
  <1>5. PlaceOK(p)'
    BY <1>2, SMTT(40) DEF PlaceOK
  <1>6. Fresh'
    BY <1>2, <1>4, FreshFrame DEF IInv, tab
  <1>7. \A q \in Procs : PlaceOK(q)'
    BY <1>4, <1>5, PlaceFrame, Zenon DEF IInv
  <1> QED BY <1>1, <1>3, <1>6, <1>7, Zenon DEF IInv

-----------------------------------------------------------------------------
(* Steps that change references to files, and not what the files refer to *)

LEMMA FileOnly ==
    ASSUME IInv, UNCHANGED <<obj, cwd, objs, ff, ip>>, NEW p \in Procs, Others(p), PlaceOK(p)',
           TypeOK', FileRefs', Fresh', Unused', ~panicked'
    PROVE  IInv'
  <1>1. InodeRefs'
    BY Zenon DEF IInv, InodeRefs, objs
  <1>2. EndsInv'
    BY Zenon DEF IInv, EndsInv, Held, HeldOnce, objs
  <1>3. \A q \in Procs : PlaceOK(q)'
    BY PlaceFrame, Zenon DEF IInv
  <1> QED BY <1>1, <1>2, <1>3, Zenon DEF IInv

\* A descriptor passes to the call that closes it.
LEMMA TakeStep ==
    ASSUME IInv, NEW p \in Procs, NEW fd \in Fds, ofile[p][fd] # 0, pc[p] \in {"user", "exit"},
           NEW l \in {"close", "exit_close"}, pc' = [pc EXCEPT ![p] = l],
           ofile' = [ofile EXCEPT ![p][fd] = 0], mine' = [mine EXCEPT ![p] = <<ofile[p][fd]>>],
           UNCHANGED <<tab, cwd, objs, ff, ip, panicked>>
    PROVE  IInv'
  <1>1. TypeOK /\ FileRefs /\ PlaceOK(p) /\ Fresh
    BY Zenon DEF IInv
  <1>2. PICK g : g = ofile[p][fd]
    BY Zenon
  <1>3. g \in Files /\ mine[p] = <<>> /\ mine' = [mine EXCEPT ![p] = <<g>>]
    BY <1>1, <1>2, Types, FileAssumption, SMTT(40) DEF DescTable, Files, PlaceOK
  <1>4. ofile' \in DescTable /\ mine' \in [Procs -> Seq(Files)] /\ pc' \in [Procs -> Pcs]
    <2>1. pc' \in [Procs -> Pcs]
      BY <1>1, Types, SMTT(40) DEF Pcs
    <2>2. mine' \in [Procs -> Seq(Files)]
      BY <1>1, <1>3, Types, SMTT(40)
    <2>3. 0 \in 0..NFILE
      BY FileAssumption, SMTT(40)
    <2> QED BY <1>1, <2>1, <2>2, <2>3, Types, DescType, Zenon
  <1>5. /\ pc'[p] = l /\ mine'[p] = <<g>> /\ ofile'[p] = [ofile[p] EXCEPT ![fd] = 0]
        /\ \A q \in Procs : q # p => pc'[q] = pc[q] /\ mine'[q] = mine[q] /\ ofile'[q] = ofile[q]
    BY <1>1, <1>3, Types, SMTT(40) DEF DescTable
  <1>6. FileRefs'
    <2> SUFFICES ASSUME NEW f \in Files PROVE ref'[f] = Descs(ofile', f) + Calls(mine', f)
      BY Zenon DEF FileRefs
    <2>1. 0 \in 0..NFILE /\ B(0 = f) = 0
      BY FileAssumption DEF Files, B
    <2>2. Diff(Descs(ofile', f), Descs(ofile, f), B(0 = f), B(g = f))
      BY <1>1, <1>2, <2>1, Types, DescChange, ZenonT(60)
    <2>3. Diff(Calls(mine', f), Calls(mine, f), B(In(<<g>>, f)), B(In(mine[p], f)))
      BY <1>1, <1>3, Types, CallChange, Zenon
    <2>4. B(In(<<g>>, f)) = B(g = f) /\ B(In(mine[p], f)) = 0
      BY <1>3, InShort, ZenonT(60) DEF B
    <2>5. ref'[f] = ref[f] /\ ref[f] = Descs(ofile, f) + Calls(mine, f)
      BY <1>1, Zenon DEF FileRefs, tab
    <2>6. Descs(ofile, f) \in Nat /\ Calls(mine, f) \in Nat
      BY CountsNat, Zenon
    <2> QED BY <2>1, <2>2, <2>3, <2>4, <2>5, <2>6, SMTT(40) DEF Diff, B
  <1>7. Others(p)
    BY <1>5, Zenon DEF Others
  <1>8. PlaceOK(p)'
    <2>1. Distinct(<<g>>)
      BY <1>3, InShort, Zenon
    <2> QED BY <1>5, <2>1 DEF PlaceOK, Distinct
  <1>9. TypeOK'
    <2>1. \A q \in Procs : cwd'[q] = Nil <=> pc'[q] = "dead"
      BY <1>1, <1>5, Types, SMTT(40)
    <2> QED BY <1>1, <1>4, <2>1, Types, TypesNext, Zenon DEF tab, objs
  <1>10. Fresh'
    <2>1. pc'[p] \notin {"pipe_w", "pipe_k"}
      BY <1>5
    <2> QED BY <1>1, <1>7, <2>1, FreshFrame, Zenon DEF tab
  <1>11. Unused' /\ ~panicked'
    BY Zenon DEF IInv, Unused, tab
  <1> QED BY <1>6, <1>7, <1>8, <1>9, <1>10, <1>11, FileOnly, Zenon DEF tab

LEMMA CloseStep ==
    ASSUME IInv, NEW p \in Procs, (\E fd \in Fds : sys_close(p, fd)) \/ ExitFile(p)
    PROVE  IInv'
  <1>1. ASSUME NEW fd \in Fds, sys_close(p, fd) PROVE IInv'
    BY <1>1, TakeStep, Zenon DEF sys_close, Call, Goto
  <1>2. CASE ExitFile(p)
    <2>1. Fds \ FreeFds(p) \subseteq Nat /\ Fds \ FreeFds(p) # {}
      BY <1>2, FileAssumption DEF ExitFile, FreeFds, Fds
    <2>2. PICK fd : fd = Min(Fds \ FreeFds(p))
      BY Zenon
    <2>3. fd \in Fds \ FreeFds(p)
      BY <2>1, <2>2, MinIn, Zenon
    <2>4. fd \in Fds /\ ofile[p][fd] # 0
      BY <2>3, Zenon DEF FreeFds
    <2> QED BY <1>2, <2>2, <2>4, TakeStep, Zenon DEF ExitFile, Goto
  <1> QED BY <1>1, <1>2, Zenon

LEMMA DupStep ==
    ASSUME IInv, NEW p \in Procs, NEW d \in Fds, sys_dup(p, d)
    PROVE  IInv'
  <1>1. TypeOK /\ FileRefs /\ PlaceOK(p) /\ Fresh
    BY Zenon DEF IInv
  <1>2. PICK g, fd : g = ofile[p][d] /\ fd = Min(FreeFds(p))
    BY Zenon
  <1>3. /\ pc[p] = "user" /\ g # 0 /\ FreeFds(p) # {} /\ ofile' = [ofile EXCEPT ![p][fd] = g]
        /\ ref' = [ref EXCEPT ![g] = @ + 1] /\ panicked' = (ref[g] < 1)
        /\ UNCHANGED <<obj, cwd, objs, pc, mine, ff, ip>>
    BY <1>2, Zenon DEF sys_dup, locals
  <1>4. g \in Files /\ g \in 0..NFILE
    BY <1>1, <1>2, <1>3, Types, FileAssumption, SMTT(40) DEF DescTable, Files
  <1>5. fd \in Fds /\ ofile[p][fd] = 0
    <2>1. FreeFds(p) \subseteq Nat
      BY FileAssumption DEF FreeFds, Fds
    <2>2. fd \in FreeFds(p)
      BY <1>2, <1>3, <2>1, MinIn, Zenon
    <2> QED BY <2>2, Zenon DEF FreeFds
  <1>6. /\ ofile' \in DescTable /\ ref' \in [Files -> Nat]
        /\ \A f \in Files : ref'[f] = IF f = g THEN ref[f] + 1 ELSE ref[f]
        /\ \A q \in Procs : q # p => ofile'[q] = ofile[q]
    <2>1. ofile \in DescTable /\ ref \in [Files -> Nat]
      BY <1>1, Types, Zenon
    <2>2. ofile' \in DescTable
      BY <1>3, <1>4, <1>5, <2>1, DescType, Zenon
    <2> QED BY <1>3, <1>4, <2>1, <2>2, SMTT(40) DEF DescTable
  <1>7. FileRefs'
    <2> SUFFICES ASSUME NEW f \in Files PROVE ref'[f] = Descs(ofile', f) + Calls(mine', f)
      BY Zenon DEF FileRefs
    <2>1. B(0 = f) = 0
      BY FileAssumption DEF Files, B
    <2>2. Diff(Descs(ofile', f), Descs(ofile, f), B(g = f), B(ofile[p][fd] = f))
      BY <1>1, <1>3, <1>4, <1>5, Types, DescChange, Zenon
    <2>3. ref[f] = Descs(ofile, f) + Calls(mine, f) /\ mine' = mine /\ B(ofile[p][fd] = f) = 0
      BY <1>1, <1>3, <1>5, <2>1, Zenon DEF FileRefs
    <2>4. Descs(ofile, f) \in Nat /\ Calls(mine, f) \in Nat
      BY CountsNat, Zenon
    <2> QED BY <1>6, <2>2, <2>3, <2>4, SMTT(40) DEF Diff, B
  <1>8. Others(p) /\ PlaceOK(p)'
    <2>1. Others(p)
      BY <1>3, <1>6, Zenon DEF Others
    <2> QED BY <1>1, <1>3, <2>1, SMTT(40) DEF PlaceOK
  <1>9. TypeOK'
    BY <1>1, <1>3, <1>6, Types, TypesNext, Zenon DEF objs
  <1>10. Fresh'
    <2>1. ASSUME NEW q \in Procs, NEW f \in Files, In(mine[q], f), ref[f] = 1 PROVE ref'[f] = 1
      <3>1. f = g => ref[f] >= 2
        BY <1>1, <1>2, <2>1, Referred, Zenon
      <3> QED BY <1>6, <2>1, <3>1, SMTT(40)
    <2>2. pc'[p] \notin {"pipe_w", "pipe_k"}
      BY <1>3
    <2> QED BY <1>1, <1>3, <1>8, <2>1, <2>2, FreshFrame, Zenon
  <1>11. Unused' /\ ~panicked'
    <2>1. ref[g] >= 1
      BY <1>1, <1>2, <1>4, Referred, Zenon
    <2>2. ref \in [Files -> Nat]
      BY <1>1, Types, Zenon
    <2>3. \A f \in Files : ref'[f] = 0 => ref[f] = 0
      BY <1>6, <2>2, SMTT(40)
    <2>4. ~(ref[g] < 1)
      BY <1>4, <2>1, <2>2, SMTT(40)
    <2> QED BY <1>3, <2>3, <2>4, Zenon DEF IInv, Unused
  <1> QED BY <1>3, <1>7, <1>8, <1>9, <1>10, <1>11, FileOnly, Zenon

\* filealloc() returns a file that nobody refers to.
LEMMA Alloc ==
    ASSUME IInv, ~NoFile, NEW f, filealloc(f)
    PROVE  /\ f \in Files /\ ref[f] = 0 /\ obj[f] = Nil /\ ref' \in [Files -> Nat]
           /\ \A g \in Files : ref'[g] = IF f = g THEN 1 ELSE ref[g]
           /\ \A q \in Procs : ~In(mine[q], f)
           /\ \A q \in Procs, fd \in Fds : ofile[q][fd] # f
  <1>1. TypeOK /\ FileRefs /\ ref \in [Files -> Nat]
    BY Types, Zenon DEF IInv
  <1>2. f \in Files /\ ref[f] = 0
    <2>1. {g \in Files : ref[g] = 0} \subseteq Nat /\ {g \in Files : ref[g] = 0} # {}
      BY FileAssumption DEF NoFile, Files
    <2> QED BY <2>1, MinIn, SMTT(40) DEF filealloc
  <1>3. ref' = [ref EXCEPT ![f] = 1]
    BY Zenon DEF filealloc
  <1>4. ref' \in [Files -> Nat] /\ \A g \in Files : ref'[g] = IF f = g THEN 1 ELSE ref[g]
    BY <1>1, <1>2, <1>3, SMTT(40)
  <1>5. ~(ref[f] >= 1)
    BY <1>2
  <1>6. ASSUME NEW q \in Procs PROVE ~In(mine[q], f) /\ \A fd \in Fds : ofile[q][fd] # f
    BY <1>1, <1>2, <1>5, Referred, Zenon
  <1> QED BY <1>2, <1>4, <1>6, Zenon DEF IInv, Unused

LEMMA AllocStep ==
    ASSUME IInv, NEW p \in Procs, NEW f, ~NoFile, filealloc(f), NEW l,
           mine' = [mine EXCEPT ![p] = Append(mine[p], f)], pc' = [pc EXCEPT ![p] = l],
           \/ pc[p] = "user" /\ l = "pipe_w"
           \/ pc[p] = "pipe_w" /\ l = "pipe_k"
           \/ pc[p] = "open" /\ l = "close",
           UNCHANGED <<obj, ofile, cwd, objs, ff, ip, panicked>>
    PROVE  IInv'
  <1> DEFINE s == mine[p]
  <1>1. TypeOK /\ FileRefs /\ PlaceOK(p) /\ Fresh
    BY Zenon DEF IInv
  <1>2. /\ f \in Files /\ ref[f] = 0 /\ obj[f] = Nil /\ ref' \in [Files -> Nat]
        /\ \A g \in Files : ref'[g] = IF f = g THEN 1 ELSE ref[g]
        /\ \A q \in Procs : ~In(mine[q], f)
    BY Alloc, Zenon
  <1>3. /\ s \in Seq(Files) /\ Distinct(s) /\ ff[p] = Nil /\ (pc[p] # "open" => ip[p] = Nil)
        /\ pc[p] \in {"user", "open"} => s = <<>>
        /\ pc[p] = "pipe_w" => Len(s) = 1
    BY <1>1, Types, SMTT(40) DEF PlaceOK, Distinct
  <1>4. /\ mine' \in [Procs -> Seq(Files)] /\ mine'[p] = Append(s, f) /\ Distinct(mine'[p])
        /\ Len(mine'[p]) = Len(s) + 1 /\ \A g : In(mine'[p], g) <=> In(s, g) \/ f = g
        /\ \A q \in Procs : q # p => mine'[q] = mine[q]
    <2>1. mine \in [Procs -> Seq(Files)] /\ Append(s, f) \in Seq(Files)
      BY <1>1, <1>2, <1>3, Types, InAppend, Zenon
    <2>2. mine' \in [Procs -> Seq(Files)] /\ mine'[p] = Append(s, f) /\ \A q \in Procs : q # p => mine'[q] = mine[q]
      BY <2>1
    <2>3. Distinct(Append(s, f)) /\ Len(Append(s, f)) = Len(s) + 1 /\ \A g : In(Append(s, f), g) <=> In(s, g) \/ f = g
      BY <1>2, <1>3, InAppend, Zenon
    <2> QED BY <2>2, <2>3, Zenon
  <1>5. pc' \in [Procs -> Pcs] /\ pc'[p] = l /\ \A q \in Procs : q # p => pc'[q] = pc[q]
    <2>1. pc \in [Procs -> Pcs] /\ l \in Pcs
      BY <1>1, Types, SMTT(40) DEF Pcs
    <2> QED BY <2>1, SMTT(40)
  <1>6. FileRefs'
    <2> SUFFICES ASSUME NEW g \in Files PROVE ref'[g] = Descs(ofile', g) + Calls(mine', g)
      BY Zenon DEF FileRefs
    <2>1. Diff(Calls(mine', g), Calls(mine, g), B(In(Append(s, f), g)), B(In(s, g)))
      BY <1>1, Types, CallChange, Zenon
    <2>2. B(In(Append(s, f), g)) = B(In(s, g)) + B(f = g)
      <3>1. (In(Append(s, f), g) <=> In(s, g) \/ f = g) /\ ~(In(s, g) /\ f = g)
        BY <1>2, <1>4, Zenon
      <3>2. CASE In(s, g)
        BY <3>1, <3>2, SMTT(40) DEF B
      <3>3. CASE ~In(s, g)
        BY <3>1, <3>3, SMTT(40) DEF B
      <3> QED BY <3>2, <3>3, Zenon
    <2>3. ref'[g] = ref[g] + B(f = g)
      BY <1>1, <1>2, Types, SMTT(40) DEF B
    <2>4. ref[g] = Descs(ofile, g) + Calls(mine, g) /\ ofile' = ofile
      BY <1>1, Zenon DEF FileRefs
    <2>5. Descs(ofile, g) \in Nat /\ Calls(mine, g) \in Nat /\ B(In(s, g)) \in Nat /\ B(f = g) \in Nat
      BY CountsNat DEF B
    <2> QED BY <2>1, <2>2, <2>3, <2>4, <2>5, SMTT(40) DEF Diff
  <1>7. Others(p)
    BY <1>4, <1>5, Zenon DEF Others
  <1>8. PlaceOK(p)'
    <2>1. CASE pc[p] = "user"
      <3>1. /\ Len(s) = 0 /\ Len(mine'[p]) = Len(s) + 1 /\ pc'[p] = "pipe_w"
            /\ ff'[p] = Nil /\ ip'[p] = Nil
        BY <1>2, <1>3, <1>4, <1>5, <2>1, InShort, ZenonT(60)
      <3> QED BY <1>4, <3>1, SMTT(40) DEF PlaceOK, Distinct
    <2>2. CASE pc[p] = "pipe_w"
      <3>1. /\ Len(s) = 1 /\ Len(mine'[p]) = Len(s) + 1 /\ pc'[p] = "pipe_k"
            /\ ff'[p] = Nil /\ ip'[p] = Nil
        BY <1>3, <1>4, <1>5, <2>2, Zenon
      <3> QED BY <1>4, <3>1, SMTT(40) DEF PlaceOK, Distinct
    <2>3. CASE l = "close"
      BY <1>4, <1>5, <2>3, SMTT(40) DEF PlaceOK, Distinct
    <2> QED BY <2>1, <2>2, <2>3, Zenon
  <1>9. TypeOK'
    <2>1. \A q \in Procs : cwd'[q] = Nil <=> pc'[q] = "dead"
      BY <1>1, <1>5, Types, SMTT(40)
    <2> QED BY <1>1, <1>2, <1>4, <1>5, <2>1, Types, TypesNext, ZenonT(60) DEF objs
  <1>10. Fresh'
    <2> SUFFICES ASSUME NEW q \in Procs, NEW g \in Files, pc'[q] \in {"pipe_w", "pipe_k"}, In(mine'[q], g)
                 PROVE  ref'[g] = 1 /\ obj'[g] = Nil
      BY Zenon DEF Fresh
    <2>1. CASE g = f
      BY <1>2, <2>1, Zenon
    <2>2. CASE g # f
      <3>1. In(mine[q], g)
        BY <1>4, <2>2, Zenon
      <3>2. pc[q] \in {"pipe_w", "pipe_k"}
        <4>1. CASE q # p
          BY <1>5, <4>1, Zenon
        <4>2. CASE q = p
          <5>1. ~In(<<>>, g) /\ In(s, g)
            BY <1>2, <3>1, <4>2, InShort, Zenon
          <5> QED BY <1>3, <4>2, <5>1, Zenon
        <4> QED BY <4>1, <4>2, Zenon
      <3> QED BY <1>1, <1>2, <2>2, <3>1, <3>2, Zenon DEF Fresh
    <2> QED BY <2>1, <2>2, Zenon
  <1>11. Unused' /\ ~panicked'
    <2>1. \A g \in Files : ref'[g] = 0 => ref[g] = 0
      BY <1>2
    <2> QED BY <2>1, Zenon DEF IInv, Unused
  <1> QED BY <1>6, <1>7, <1>8, <1>9, <1>10, <1>11, FileOnly, Zenon

\* A call that cannot go on closes what it has.
LEMMA GiveUp ==
    ASSUME IInv, NEW p \in Procs, pc[p] \in {"pipe_w", "pipe_k", "open"}, pc' = [pc EXCEPT ![p] = "close"],
           UNCHANGED <<ref, mine, obj, ofile, cwd, objs, ff, ip, panicked>>
    PROVE  IInv'
  <1>1. TypeOK /\ FileRefs /\ PlaceOK(p) /\ Fresh
    BY Zenon DEF IInv
  <1>2. pc' \in [Procs -> Pcs] /\ pc'[p] = "close" /\ \A q \in Procs : q # p => pc'[q] = pc[q]
    BY <1>1, Types DEF Pcs
  <1>3. TypeOK'
    <2>1. \A q \in Procs : cwd'[q] = Nil <=> pc'[q] = "dead"
      BY <1>1, <1>2, Types, SMTT(40)
    <2> QED BY <1>1, <1>2, <2>1, Types, TypesNext, Zenon DEF objs
  <1>4. Others(p)
    BY <1>2, Zenon DEF Others
  <1>5. PlaceOK(p)'
    BY <1>1, <1>2 DEF PlaceOK
  <1>6. FileRefs' /\ Unused' /\ ~panicked'
    BY Zenon DEF IInv, FileRefs, Unused
  <1>7. Fresh'
    <2>1. pc'[p] \notin {"pipe_w", "pipe_k"}
      BY <1>2
    <2> QED BY <1>1, <1>4, <2>1, FreshFrame, Zenon
  <1> QED BY <1>3, <1>4, <1>5, <1>6, <1>7, FileOnly, Zenon

\* pipealloc() gets one file, then the other, or gives up.
LEMMA PipeFileStep ==
    ASSUME IInv, NEW p \in Procs, sys_pipe(p) \/ PipeW(p)
    PROVE  IInv'
  <1>1. PlaceOK(p)
    BY Zenon DEF IInv
  <1>2. CASE sys_pipe(p)
    <2>1. PICK f \in Files : filealloc(f) /\ mine' = [mine EXCEPT ![p] = <<f>>]
      BY <1>2, ZenonT(60) DEF sys_pipe
    <2>2. mine[p] = <<>> /\ <<f>> = Append(<<>>, f)
      BY <1>1, <1>2, SMTT(40) DEF sys_pipe, Call, PlaceOK
    <2> QED BY <1>2, <2>1, <2>2, AllocStep, Zenon DEF sys_pipe, Call, Goto
  <1>3. CASE PipeW(p) /\ ~NoFile
    <2>1. PICK f \in Files : filealloc(f) /\ mine' = [mine EXCEPT ![p] = Append(@, f)]
      BY <1>3, Zenon DEF PipeW
    <2> QED BY <1>3, <2>1, AllocStep, Zenon DEF PipeW, Goto
  <1>4. CASE PipeW(p) /\ NoFile
    BY <1>4, GiveUp, Zenon DEF PipeW, Goto
  <1> QED BY <1>2, <1>3, <1>4, Zenon

-----------------------------------------------------------------------------
(* fileclose() *)

\* The reference is given up; what the file referred to is the closer's.
LEMMA FilecloseRefs ==
    ASSUME IInv, NEW p \in Procs, fileclose(p), NEW f, f = Head(mine[p])
    PROVE  /\ f \in Files /\ ref[f] >= 1 /\ ~panicked' /\ FileRefs' /\ ref' \in [Files -> Nat]
           /\ mine' \in [Procs -> Seq(Files)] /\ Others(p) /\ PlaceOK(p)' /\ pc' = pc
           /\ \A g \in Files : ref'[g] = IF f = g THEN ref[g] - 1 ELSE ref[g]
           /\ \A q \in Procs : q # p /\ In(mine[q], f) => ref[f] >= 2
  <1> DEFINE s == mine[p]
  <1>1. TypeOK /\ FileRefs /\ PlaceOK(p)
    BY Zenon DEF IInv
  <1>2. /\ pc[p] \in {"close", "exit_close"} /\ ff[p] = Nil /\ s # <<>>
        /\ panicked' = (ref[f] < 1) /\ ref' = [ref EXCEPT ![f] = @ - 1]
        /\ ff' = [ff EXCEPT ![p] = IF ref[f] > 1 THEN Nil ELSE obj[f]]
        /\ mine' = [mine EXCEPT ![p] = Tail(s)] /\ UNCHANGED <<ofile, cwd, objs, pc, ip>>
    BY Zenon DEF fileclose, Closing
  <1>3. s \in Seq(Files) /\ Distinct(s)
    BY <1>1, Types, SMTT(40) DEF PlaceOK, Distinct
  <1>4. /\ Tail(s) \in Seq(Files) /\ Distinct(Tail(s)) /\ f \in Files /\ In(s, f)
        /\ \A g : In(Tail(s), g) <=> In(s, g) /\ g # f
    BY <1>2, <1>3, InTail, Zenon
  <1>5. ref[f] >= 1 /\ \A q \in Procs : q # p /\ In(mine[q], f) => ref[f] >= 2
    BY <1>1, <1>4, Referred, Zenon
  <1>6. /\ mine \in [Procs -> Seq(Files)] /\ ref \in [Files -> Nat] /\ ofile \in DescTable
        /\ pc \in [Procs -> Pcs] /\ ff \in [Procs -> Objects] /\ ip \in [Procs -> Inodes \cup {Nil}]
    BY <1>1, Types, Zenon
  <1>7. ref[f] \in Nat /\ ~(ref[f] < 1)
    BY <1>4, <1>5, <1>6, SMTT(40)
  <1>8. ref' \in [Files -> Nat] /\ \A g \in Files : ref'[g] = IF f = g THEN ref[g] - 1 ELSE ref[g]
    BY <1>2, <1>4, <1>5, <1>6, SMTT(40)
  <1>9. mine' \in [Procs -> Seq(Files)] /\ mine'[p] = Tail(s) /\ \A q \in Procs : q # p => mine'[q] = mine[q]
    BY <1>2, <1>4, <1>6, SMTT(40)
  <1>10. FileRefs'
    <2> SUFFICES ASSUME NEW g \in Files PROVE ref'[g] = Descs(ofile', g) + Calls(mine', g)
      BY Zenon DEF FileRefs
    <2>1. Diff(Calls(mine', g), Calls(mine, g), B(In(Tail(s), g)), B(In(s, g)))
      BY <1>2, <1>6, CallChange, Zenon
    <2>2. B(In(Tail(s), g)) = B(In(s, g)) - B(f = g)
      <3>1. (In(Tail(s), g) <=> In(s, g) /\ g # f) /\ (f = g => In(s, g))
        BY <1>4, Zenon
      <3>2. CASE In(s, g)
        BY <3>1, <3>2, SMTT(40) DEF B
      <3>3. CASE ~In(s, g)
        BY <3>1, <3>3, SMTT(40) DEF B
      <3> QED BY <3>2, <3>3, Zenon
    <2>3. ref'[g] = ref[g] - B(f = g)
      BY <1>6, <1>8, SMTT(40) DEF B
    <2>4. ref[g] = Descs(ofile, g) + Calls(mine, g) /\ ofile' = ofile
      BY <1>1, <1>2, Zenon DEF FileRefs
    <2>5. Descs(ofile, g) \in Nat /\ Calls(mine, g) \in Nat /\ B(In(s, g)) \in Nat /\ B(f = g) \in Nat
      BY CountsNat DEF B
    <2> QED BY <2>1, <2>2, <2>3, <2>4, <2>5, SMTT(40) DEF Diff
  <1>11. Others(p)
    <2>1. \A q \in Procs : q # p => ff'[q] = ff[q]
      BY <1>2, <1>6, SMTT(40)
    <2> QED BY <1>2, <1>9, <2>1, Zenon DEF Others
  <1>12. PlaceOK(p)'
    BY <1>2, <1>4, <1>9, SMTT(40) DEF PlaceOK, Distinct
  <1> QED BY <1>2, <1>4, <1>5, <1>7, <1>8, <1>9, <1>10, <1>11, <1>12, ZenonT(60)

LEMMA FilecloseStep ==
    ASSUME IInv, NEW p \in Procs, fileclose(p)
    PROVE  IInv'
  <1>1. TypeOK /\ InodeRefs /\ EndsInv /\ Fresh /\ Unused
    BY Zenon DEF IInv
  <1>2. PICK f, o : f = Head(mine[p]) /\ o = obj[f]
    BY Zenon
  <1>3. /\ f \in Files /\ ref[f] >= 1 /\ ~panicked' /\ FileRefs' /\ ref' \in [Files -> Nat]
        /\ mine' \in [Procs -> Seq(Files)] /\ Others(p) /\ PlaceOK(p)' /\ pc' = pc
        /\ \A g \in Files : ref'[g] = IF f = g THEN ref[g] - 1 ELSE ref[g]
        /\ \A q \in Procs : q # p /\ In(mine[q], f) => ref[f] >= 2
    BY <1>2, FilecloseRefs, Zenon
  <1>4. /\ pc[p] \in {"close", "exit_close"} /\ ff[p] = Nil
        /\ ff' = [ff EXCEPT ![p] = IF ref[f] > 1 THEN Nil ELSE o]
        /\ obj' = IF ref[f] > 1 THEN obj ELSE [obj EXCEPT ![f] = Nil]
        /\ UNCHANGED <<ofile, cwd, iref, open, pages, ip>>
    BY <1>2, Zenon DEF fileclose, Closing, objs
  <1>5. /\ ref \in [Files -> Nat] /\ obj \in [Files -> Objects] /\ ff \in [Procs -> Objects]
        /\ Nil \in Objects /\ o \in Objects
    BY <1>1, <1>2, <1>3, Types, SMTT(40) DEF Objects
  <1>6. ff' \in [Procs -> Objects] /\ obj' \in [Files -> Objects]
    BY <1>4, <1>5, ZenonT(60)
  <1>7. TypeOK'
    BY <1>1, <1>3, <1>4, <1>6, Types, TypesNext, ZenonT(60)
  <1>8. \A g \in Files : obj'[g] = obj[g] \/ obj'[g] = Nil
    BY <1>3, <1>4, <1>5, SMTT(40)
  <1>9. Fresh'
    <2>1. ASSUME NEW q \in Procs, q # p, NEW g \in Files, In(mine[q], g), ref[g] = 1 PROVE ref'[g] = 1
      <3>1. f # g
        <4>1. f = g => ref[g] >= 2
          BY <1>3, <2>1, Zenon
        <4> QED BY <2>1, <4>1
      <3> QED BY <1>3, <2>1, <3>1, Zenon
    <2>2. pc'[p] \notin {"pipe_w", "pipe_k"}
      BY <1>3, <1>4, SMTT(40)
    <2> QED BY <1>1, <1>3, <1>8, <2>1, <2>2, FreshFrame, Zenon
  <1>10. CASE ref[f] > 1
    <2>1. ff' = ff /\ obj' = obj
      BY <1>4, <1>5, <1>10, SMTT(40)
    <2>2. \A g \in Files : ref'[g] = 0 => ref[g] = 0
      BY <1>3, <1>5, <1>10, SMTT(40)
    <2>3. Unused'
      BY <1>1, <2>1, <2>2, Zenon DEF Unused
    <2> QED BY <1>3, <1>4, <1>7, <1>9, <2>1, <2>3, FileOnly, ZenonT(60) DEF objs
  <1>11. CASE ~(ref[f] > 1)
    <2>1. /\ ff' = [ff EXCEPT ![p] = o] /\ obj' = [obj EXCEPT ![f] = Nil]
          /\ obj'[f] = Nil /\ \A g \in Files : g # f => obj'[g] = obj[g]
          /\ ff'[p] = o /\ \A q \in Procs : q # p => ff'[q] = ff[q]
      BY <1>3, <1>4, <1>5, <1>11, SMTT(40)
    <2>2. Unused'
      <3>1. \A g \in Files : ref'[g] = 0 => g = f \/ ref[g] = 0
        BY <1>3, ZenonT(60)
      <3> QED BY <1>1, <2>1, <3>1, Zenon DEF Unused
    <2>3. InodeRefs'
      <3> SUFFICES ASSUME NEW i \in Inodes
                   PROVE  iref'[i] = Hits(obj', Files, i) + Hits(cwd', Procs, i) + Hits(ip', Procs, i) + Hits(ff', Procs, i)
        BY Zenon DEF InodeRefs
      <3>1. Diff(Hits(obj', Files, i), Hits(obj, Files, i), B(Nil = i), B(o = i))
        BY <1>2, <1>3, <1>5, <2>1, Finite, HitsExcept, ZenonT(60)
      <3>2. Diff(Hits(ff', Procs, i), Hits(ff, Procs, i), B(o = i), B(ff[p] = i))
        BY <1>5, <2>1, Finite, HitsExcept, Zenon
      <3>3. /\ iref[i] = Hits(obj, Files, i) + Hits(cwd, Procs, i) + Hits(ip, Procs, i) + Hits(ff, Procs, i)
            /\ B(Nil = i) = 0 /\ B(ff[p] = i) = 0 /\ iref' = iref /\ cwd' = cwd /\ ip' = ip
        BY <1>1, <1>4, Names, Zenon DEF InodeRefs, B
      <3> QED BY <3>1, <3>2, <3>3, InodeSum, SMTT(40) DEF Diff, B
    <2>4. \A e \in Ends : /\ \A g \in Files : obj'[g] = e <=> g # f /\ obj[g] = e
                          /\ \A q \in Procs : ff'[q] = e <=> (q = p /\ obj[f] = e) \/ ff[q] = e
      BY <1>2, <1>4, <2>1, Names, ZenonT(60)
    <2>5. \A e \in Ends : Held(e)' <=> Held(e)
      BY <1>3, <2>4, Zenon DEF Held
    <2>6. HeldOnce'
      <3> SUFFICES ASSUME NEW e \in Ends
                   PROVE  /\ \A g, h \in Files : obj'[g] = e /\ obj'[h] = e => g = h
                          /\ \A q, r \in Procs : ff'[q] = e /\ ff'[r] = e => q = r
                          /\ \A g \in Files, q \in Procs : ~(obj'[g] = e /\ ff'[q] = e)
        BY Zenon DEF HeldOnce
      <3>1. /\ \A g, h \in Files : obj[g] = e /\ obj[h] = e => g = h
            /\ \A q, r \in Procs : ff[q] = e /\ ff[r] = e => q = r
            /\ \A g \in Files, q \in Procs : ~(obj[g] = e /\ ff[q] = e)
        BY <1>1, Zenon DEF EndsInv, HeldOnce
      <3>2. /\ \A g \in Files : obj'[g] = e => g # f /\ obj[g] = e
            /\ \A q \in Procs : ff'[q] = e => (q = p /\ obj[f] = e) \/ ff[q] = e
        BY <2>4, Zenon
      <3>3. \A g, h \in Files : obj'[g] = e /\ obj'[h] = e => g = h
        BY <3>1, <3>2, Zenon
      <3>4. \A q, r \in Procs : ff'[q] = e /\ ff'[r] = e => q = r
        BY <1>3, <3>1, <3>2, Zenon
      <3>5. \A g \in Files, q \in Procs : ~(obj'[g] = e /\ ff'[q] = e)
        BY <1>3, <3>1, <3>2, Zenon
      <3> QED BY <3>3, <3>4, <3>5, Zenon
    <2>7. EndsInv'
      BY <1>1, <1>4, <2>5, <2>6, Zenon DEF EndsInv
    <2>8. \A q \in Procs : PlaceOK(q)'
      BY <1>3, PlaceFrame, Zenon DEF IInv
    <2> QED BY <1>3, <1>7, <1>9, <2>2, <2>3, <2>7, <2>8, ZenonT(60) DEF IInv
  <1> QED BY <1>10, <1>11, Zenon

-----------------------------------------------------------------------------
(* Steps that make a file refer to something *)

\* open() gives the inode it has to the file, and the file to a descriptor.
LEMMA InstallStep ==
    ASSUME IInv, NEW p \in Procs, NEW f, ~NoFile, filealloc(f), pc[p] = "open", NEW fd \in FreeFds(p),
           ofile' = [ofile EXCEPT ![p][fd] = f], obj' = [obj EXCEPT ![f] = ip[p]],
           ip' = [ip EXCEPT ![p] = Nil], pc' = [pc EXCEPT ![p] = "user"],
           UNCHANGED <<mine, cwd, objs, ff, panicked>>
    PROVE  IInv'
  <1>1. TypeOK /\ FileRefs /\ InodeRefs /\ EndsInv /\ PlaceOK(p) /\ Fresh /\ Unused
    BY Zenon DEF IInv
  <1>2. /\ f \in Files /\ ref[f] = 0 /\ obj[f] = Nil /\ ref' \in [Files -> Nat]
        /\ \A g \in Files : ref'[g] = IF f = g THEN 1 ELSE ref[g]
        /\ \A q \in Procs : ~In(mine[q], f)
    BY Alloc, Zenon
  <1>3. PICK j : j = ip[p]
    BY Zenon
  <1>4. /\ mine[p] = <<>> /\ ff[p] = Nil /\ j \in Inodes /\ fd \in Fds /\ ofile[p][fd] = 0
        /\ f \in 0..NFILE
    BY <1>1, <1>2, <1>3, FileAssumption, SMTT(40) DEF PlaceOK, FreeFds, Files
  <1>5. /\ ref \in [Files -> Nat] /\ obj \in [Files -> Objects] /\ ip \in [Procs -> Inodes \cup {Nil}]
        /\ pc \in [Procs -> Pcs] /\ ofile \in DescTable /\ j \in Objects /\ "user" \in Pcs
    BY <1>1, <1>4, Types, SMTT(40) DEF Objects, Pcs
  <1>6. /\ obj' \in [Files -> Objects] /\ obj'[f] = j /\ \A g \in Files : g # f => obj'[g] = obj[g]
        /\ ip' \in [Procs -> Inodes \cup {Nil}] /\ ip'[p] = Nil /\ \A q \in Procs : q # p => ip'[q] = ip[q]
    BY <1>2, <1>3, <1>5, SMTT(40)
  <1>7. /\ pc' \in [Procs -> Pcs] /\ pc'[p] = "user" /\ \A q \in Procs : q # p => pc'[q] = pc[q]
        /\ ofile' \in DescTable /\ \A q \in Procs : q # p => ofile'[q] = ofile[q]
    <2>1. ofile' \in DescTable
      BY <1>4, <1>5, DescType, Zenon
    <2> QED BY <1>5, <2>1, SMTT(40) DEF DescTable
  <1>8. TypeOK'
    <2>1. \A q \in Procs : cwd'[q] = Nil <=> pc'[q] = "dead"
      BY <1>1, <1>7, Types, SMTT(40)
    <2> QED BY <1>1, <1>2, <1>6, <1>7, <2>1, Types, TypesNext, ZenonT(60) DEF objs
  <1>9. FileRefs'
    <2> SUFFICES ASSUME NEW g \in Files PROVE ref'[g] = Descs(ofile', g) + Calls(mine', g)
      BY Zenon DEF FileRefs
    <2>1. B(0 = g) = 0
      BY FileAssumption DEF Files, B
    <2>2. Diff(Descs(ofile', g), Descs(ofile, g), B(f = g), B(ofile[p][fd] = g))
      BY <1>4, <1>5, DescChange, Zenon
    <2>3. ref[g] = Descs(ofile, g) + Calls(mine, g) /\ mine' = mine /\ B(ofile[p][fd] = g) = 0
      BY <1>1, <1>4, <2>1, Zenon DEF FileRefs
    <2>4. Descs(ofile, g) \in Nat /\ Calls(mine, g) \in Nat
      BY CountsNat, Zenon
    <2>5. ref'[g] = ref[g] + B(f = g)
      BY <1>2, <1>5, SMTT(40) DEF B
    <2> QED BY <2>2, <2>3, <2>4, <2>5, SMTT(40) DEF Diff, B
  <1>10. InodeRefs'
    <2> SUFFICES ASSUME NEW i \in Inodes
                 PROVE  iref'[i] = Hits(obj', Files, i) + Hits(cwd', Procs, i) + Hits(ip', Procs, i) + Hits(ff', Procs, i)
      BY Zenon DEF InodeRefs
    <2>1. Diff(Hits(obj', Files, i), Hits(obj, Files, i), B(j = i), B(obj[f] = i))
      BY <1>2, <1>3, <1>5, Finite, HitsExcept, ZenonT(60)
    <2>2. Diff(Hits(ip', Procs, i), Hits(ip, Procs, i), B(Nil = i), B(ip[p] = i))
      BY <1>5, Finite, HitsExcept, Zenon
    <2>3. /\ iref[i] = Hits(obj, Files, i) + Hits(cwd, Procs, i) + Hits(ip, Procs, i) + Hits(ff, Procs, i)
          /\ B(Nil = i) = 0 /\ B(obj[f] = i) = 0 /\ B(ip[p] = i) = B(j = i)
          /\ iref' = iref /\ cwd' = cwd /\ ff' = ff
      BY <1>1, <1>2, <1>3, Names, Zenon DEF InodeRefs, B, objs
    <2> QED BY <2>1, <2>2, <2>3, InodeSum, SMTT(40) DEF Diff, B
  <1>11. EndsInv'
    <2>1. \A e \in Ends, g \in Files : obj'[g] = e <=> obj[g] = e
      BY <1>2, <1>4, <1>6, Names, ZenonT(60)
    <2>2. \A e \in Ends : Held(e)' <=> Held(e)
      BY <2>1, Zenon DEF Held
    <2>3. HeldOnce'
      <3>1. HeldOnce /\ ff' = ff /\ \A e \in Ends, g \in Files : obj'[g] = e => obj[g] = e
        BY <1>1, <2>1, Zenon DEF EndsInv
      <3> QED BY <3>1, Zenon DEF HeldOnce
    <2> QED BY <1>1, <2>2, <2>3, Zenon DEF EndsInv, objs
  <1>12. Others(p)
    BY <1>6, <1>7, Zenon DEF Others
  <1>13. PlaceOK(p)'
    <2>1. mine'[p] = <<>> /\ ff'[p] = Nil
      BY <1>4, Zenon
    <2> QED BY <1>6, <1>7, <2>1, SMTT(40) DEF PlaceOK
  <1>14. Fresh'
    <2>1. ASSUME NEW q \in Procs, NEW g \in Files, In(mine[q], g) PROVE ref'[g] = ref[g] /\ obj'[g] = obj[g]
      BY <1>2, <1>6, <2>1, ZenonT(60)
    <2>2. pc'[p] \notin {"pipe_w", "pipe_k"}
      BY <1>7
    <2> QED BY <1>1, <1>12, <2>1, <2>2, FreshFrame, Zenon
  <1>15. Unused' /\ ~panicked'
    <2>1. \A g \in Files : ref'[g] = 0 => ref[g] = 0 /\ g # f
      BY <1>2
    <2> QED BY <1>1, <1>6, <2>1, Zenon DEF IInv, Unused
  <1>16. \A q \in Procs : PlaceOK(q)'
    BY <1>12, <1>13, PlaceFrame, Zenon DEF IInv
  <1> QED BY <1>8, <1>9, <1>10, <1>11, <1>14, <1>15, <1>16, Zenon DEF IInv

LEMMA OpenFileStep ==
    ASSUME IInv, NEW p \in Procs, OpenFile(p)
    PROVE  IInv'
  <1>1. PlaceOK(p) /\ pc[p] = "open" /\ mine \in [Procs -> Seq(Files)]
    BY Types, ZenonT(60) DEF IInv, OpenFile
  <1>2. mine[p] = <<>>
    BY <1>1 DEF PlaceOK
  <1>3. CASE NoFile
    <2>1. pc' = [pc EXCEPT ![p] = "close"] /\ mine' = [mine EXCEPT ![p] = <<>>]
          /\ UNCHANGED <<ref, obj, ofile, cwd, objs, ff, ip, panicked>>
      BY <1>3, Zenon DEF OpenFile, OpenFail, Goto
    <2>2. mine' = mine
      BY <1>1, <1>2, <2>1, SMTT(40)
    <2> QED BY <1>1, <2>1, <2>2, GiveUp, Zenon
  <1>4. CASE ~NoFile
    <2>1. PICK f \in Files :
              /\ filealloc(f)
              /\ IF FreeFds(p) = {} THEN OpenFail(p, <<f>>)
                 ELSE /\ ofile' = [ofile EXCEPT ![p][Min(FreeFds(p))] = f]
                      /\ obj' = [obj EXCEPT ![f] = ip[p]]
                      /\ ip' = [ip EXCEPT ![p] = Nil] /\ Goto(p, "user")
                      /\ UNCHANGED mine
      BY <1>4, Zenon DEF OpenFile
    <2>2. UNCHANGED <<cwd, objs, ff, panicked>>
      BY Zenon DEF OpenFile
    <2>3. CASE FreeFds(p) = {}
      <3>1. <<f>> = Append(<<>>, f)
        OBVIOUS
      <3>2. OpenFail(p, <<f>>)
        BY <2>1, <2>3, Zenon
      <3> QED BY <1>1, <1>2, <1>4, <2>1, <2>2, <3>1, <3>2, AllocStep, ZenonT(60) DEF OpenFail, Goto
    <2>4. CASE FreeFds(p) # {}
      <3>1. FreeFds(p) \subseteq Nat
        BY FileAssumption, SMTT(40) DEF FreeFds, Fds
      <3>2. PICK fd : fd = Min(FreeFds(p))
        BY Zenon
      <3>3. fd \in FreeFds(p)
        BY <2>4, <3>1, <3>2, MinIn, Zenon
      <3> QED BY <1>1, <1>4, <2>1, <2>2, <2>4, <3>2, <3>3, InstallStep, ZenonT(60) DEF Goto
    <2> QED BY <2>3, <2>4, Zenon
  <1> QED BY <1>3, <1>4, Zenon

\* pipealloc() gives the two ends of a new pipe to the two files.
NewPipe(f, g, k) ==
    /\ k \in Pipes \ pages /\ pages' = pages \cup {k} /\ open' = open \cup {<<k, "r">>, <<k, "w">>}
    /\ obj' = [obj EXCEPT ![f] = <<k, "r">>, ![g] = <<k, "w">>]
    /\ UNCHANGED <<ref, cwd, iref, ff, ip, panicked>>

LEMMA NewPipeStep ==
    ASSUME IInv, NEW f \in Files, NEW g \in Files, NEW k, f # g, NewPipe(f, g, k),
           ref[f] = 1, ref[g] = 1, obj[f] = Nil, obj[g] = Nil
    PROVE  /\ InodeRefs' /\ EndsInv' /\ Unused' /\ ~panicked' /\ obj' \in [Files -> Objects]
           /\ open' \subseteq Ends /\ pages' \subseteq Pipes
           /\ \A h \in Files : h # f /\ h # g => obj'[h] = obj[h]
  <1>1. TypeOK /\ InodeRefs /\ EndsInv /\ Unused /\ k \in Pipes /\ k \notin pages
    BY Zenon DEF IInv, NewPipe
  <1>2. PICK r, w : r = <<k, "r">> /\ w = <<k, "w">>
    BY Zenon
  <1>3. r \in Ends /\ w \in Ends /\ r # w /\ r[1] = k /\ w[1] = k
    BY <1>1, <1>2, SMTT(40) DEF Ends
  <1>4. obj \in [Files -> Objects] /\ open \subseteq Ends /\ pages \subseteq Pipes
    BY <1>1, Types, Zenon
  <1>5. pages' = pages \cup {k} /\ open' = open \cup {r, w} /\ obj' = [obj EXCEPT ![f] = r, ![g] = w]
    BY <1>2, Zenon DEF NewPipe
  <1>6. /\ obj' \in [Files -> Objects] /\ obj'[f] = r /\ obj'[g] = w
        /\ \A h \in Files : h # f /\ h # g => obj'[h] = obj[h]
    BY <1>3, <1>4, <1>5, SMTT(40) DEF Objects
  <1>7. open' \subseteq Ends /\ pages' \subseteq Pipes
    BY <1>1, <1>3, <1>4, <1>5, Zenon
  <1>8. ~Held(r) /\ ~Held(w)
    <2>1. r \notin open /\ w \notin open
      BY <1>1, <1>3, Zenon DEF EndsInv
    <2> QED BY <1>1, <1>3, <2>1, Zenon DEF EndsInv
  <1>9. InodeRefs'
    <2> SUFFICES ASSUME NEW i \in Inodes
                 PROVE  iref'[i] = Hits(obj', Files, i) + Hits(cwd', Procs, i) + Hits(ip', Procs, i) + Hits(ff', Procs, i)
      BY Zenon DEF InodeRefs
    <2>1. \A h \in Files : obj'[h] = i <=> obj[h] = i
      BY <1>3, <1>6, Names, ZenonT(60)
    <2>2. Hits(obj', Files, i) = Hits(obj, Files, i)
      BY <2>1, HitsSame, SMTT(40)
    <2> QED BY <1>1, <2>2, Zenon DEF InodeRefs, NewPipe
  <1>10. EndsInv'
    <2>0. ff' = ff
      BY Zenon DEF NewPipe
    <2>1. \A e \in Ends, h \in Files : obj'[h] = e <=> (obj[h] = e \/ (h = f /\ e = r) \/ (h = g /\ e = w))
      BY <1>6, Names, Zenon
    <2>2. \A e \in Ends : Held(e)' <=> (Held(e) \/ e = r \/ e = w)
      BY <2>0, <2>1, Zenon DEF Held
    <2>3. \A e \in Ends : e \in open' <=> Held(e)'
      <3>1. \A e \in Ends : e \in open <=> Held(e)
        BY <1>1, Zenon DEF EndsInv
      <3>2. \A e \in Ends : e \in open' <=> e \in open \/ e = r \/ e = w
        BY <1>5, Zenon
      <3> QED BY <2>2, <3>1, <3>2, Zenon
    <2>4. pages' = {e[1] : e \in open'}
      <3>1. pages = {e[1] : e \in open}
        BY <1>1, Zenon DEF EndsInv
      <3>2. \A e \in open' : e[1] \in pages'
        BY <1>3, <1>5, <3>1, Zenon
      <3>3. \A x \in pages' : \E e \in open' : x = e[1]
        BY <1>3, <1>5, <3>1, Zenon
      <3> QED BY <3>2, <3>3, Zenon
    <2>5. HeldOnce'
      <3>1. HeldOnce
        BY <1>1, Zenon DEF EndsInv
      <3>2. \A h \in Files : obj[h] # r /\ obj[h] # w
        BY <1>8, Zenon DEF Held
      <3>3. \A q \in Procs : ff[q] # r /\ ff[q] # w
        BY <1>8, Zenon DEF Held
      <3> SUFFICES ASSUME NEW e \in Ends
                   PROVE  /\ \A h, i \in Files : obj'[h] = e /\ obj'[i] = e => h = i
                          /\ \A q, u \in Procs : ff'[q] = e /\ ff'[u] = e => q = u
                          /\ \A h \in Files, q \in Procs : ~(obj'[h] = e /\ ff'[q] = e)
        BY Zenon DEF HeldOnce
      <3>4. \A q, u \in Procs : ff'[q] = e /\ ff'[u] = e => q = u
        BY <2>0, <3>1, Zenon DEF HeldOnce
      <3>5. CASE e = r
        <4>1. \A h \in Files : obj'[h] = e => h = f
          <5> SUFFICES ASSUME NEW h \in Files, obj'[h] = r PROVE h = f
            BY <3>5, Zenon
          <5>1. obj[h] # r
            BY <3>2, Zenon
          <5> QED BY <1>3, <1>6, <5>1, Zenon
        <4>2. \A q \in Procs : ff'[q] # e
          BY <2>0, <3>3, <3>5, Zenon
        <4> QED BY <3>4, <4>1, <4>2, Zenon
      <3>6. CASE e = w
        <4>1. \A h \in Files : obj'[h] = e => h = g
          <5> SUFFICES ASSUME NEW h \in Files, obj'[h] = w PROVE h = g
            BY <3>6, Zenon
          <5>1. obj[h] # w
            BY <3>2, Zenon
          <5> QED BY <1>3, <1>6, <5>1, Zenon
        <4>2. \A q \in Procs : ff'[q] # e
          BY <2>0, <3>3, <3>6, Zenon
        <4> QED BY <3>4, <4>1, <4>2, Zenon
      <3>7. CASE e # r /\ e # w
        <4>1. \A h \in Files : obj'[h] = e => obj[h] = e
          BY <2>1, <3>7, Zenon
        <4> QED BY <2>0, <3>1, <4>1, Zenon DEF HeldOnce
      <3> QED BY <3>5, <3>6, <3>7, Zenon
    <2> QED BY <2>3, <2>4, <2>5, Zenon DEF EndsInv
  <1>11. Unused' /\ ~panicked'
    <2>1. ref[f] # 0 /\ ref[g] # 0
      OBVIOUS
    <2>2. ref' = ref /\ panicked' = panicked
      BY Zenon DEF NewPipe
    <2> QED BY <1>1, <1>6, <2>1, <2>2, ZenonT(60) DEF IInv, Unused
  <1> QED BY <1>6, <1>7, <1>9, <1>10, <1>11, Zenon

\* The files of a pipe() that is about to have its pipe.
LEMMA PipeFiles ==
    ASSUME IInv, NEW p \in Procs, pc[p] = "pipe_k"
    PROVE  /\ mine[p][1] \in Files /\ mine[p][2] \in Files /\ mine[p][1] # mine[p][2]
           /\ \A h : In(mine[p], h) <=> mine[p][1] = h \/ mine[p][2] = h
           /\ \A h \in {mine[p][1], mine[p][2]} :
                  /\ ref[h] = 1 /\ obj[h] = Nil
                  /\ \A q \in Procs : q # p => ~In(mine[q], h)
           /\ ff[p] = Nil /\ ip[p] = Nil
  <1>1. TypeOK /\ FileRefs /\ PlaceOK(p) /\ Fresh /\ mine \in [Procs -> Seq(Files)]
    BY Types, Zenon DEF IInv
  <1>2. PICK s : s = mine[p]
    BY Zenon
  <1>3. /\ s \in Seq(Files) /\ Len(s) = 2 /\ ff[p] = Nil /\ ip[p] = Nil
        /\ \A i, j \in 1..Len(s) : s[i] = s[j] => i = j
    BY <1>1, <1>2, SMTT(40) DEF PlaceOK
  <1>4. s[1] \in Files /\ s[2] \in Files /\ s[1] # s[2]
    <2>1. 1 \in 1..Len(s) /\ 2 \in 1..Len(s) /\ 1 # 2
      BY <1>3, SMTT(40)
    <2>2. s[1] \in Files /\ s[2] \in Files
      BY <1>3, InPair, Zenon
    <2> QED BY <1>3, <2>1, <2>2, Zenon
  <1>5. \A h : In(s, h) <=> s[1] = h \/ s[2] = h
    <2>1. \A i : i \in 1..Len(s) <=> i = 1 \/ i = 2
      BY <1>3
    <2> QED BY <2>1, Zenon DEF In
  <1>6. ASSUME NEW h \in {s[1], s[2]}
        PROVE  ref[h] = 1 /\ obj[h] = Nil /\ \A q \in Procs : q # p => ~In(mine[q], h)
    <2>1. h \in Files /\ In(mine[p], h)
      BY <1>2, <1>4, <1>5, Zenon
    <2>2. ref[h] = 1 /\ obj[h] = Nil
      BY <1>1, <2>1, Zenon DEF Fresh
    <2>3. ~(ref[h] >= 2)
      BY <2>2
    <2> QED BY <1>1, <2>1, <2>2, <2>3, Referred, Zenon
  <1> QED BY <1>2, <1>3, <1>4, <1>5, <1>6, Zenon

\* sys_pipe() has no two descriptors: it closes both files.
LEMMA PipeFullStep ==
    ASSUME IInv, NEW p \in Procs, pc[p] = "pipe_k", NEW k, NewPipe(mine[p][1], mine[p][2], k),
           pc' = [pc EXCEPT ![p] = "close"], UNCHANGED <<ofile, mine>>
    PROVE  IInv'
  <1> DEFINE f == mine[p][1]
             g == mine[p][2]
  <1>1. TypeOK /\ FileRefs /\ PlaceOK(p) /\ Fresh
    BY Zenon DEF IInv
  <1>2. /\ f \in Files /\ g \in Files /\ f # g /\ ref[f] = 1 /\ ref[g] = 1 /\ obj[f] = Nil /\ obj[g] = Nil
        /\ \A q \in Procs : q # p => ~In(mine[q], f) /\ ~In(mine[q], g)
    BY PipeFiles, Zenon
  <1>3. /\ InodeRefs' /\ EndsInv' /\ Unused' /\ ~panicked' /\ obj' \in [Files -> Objects]
        /\ open' \subseteq Ends /\ pages' \subseteq Pipes
        /\ \A h \in Files : h # f /\ h # g => obj'[h] = obj[h]
    BY <1>2, NewPipeStep, Zenon
  <1>4. UNCHANGED <<ref, cwd, iref, ff, ip>>
    BY Zenon DEF NewPipe
  <1> HIDE DEF f, g
  <1>5. pc' \in [Procs -> Pcs] /\ pc'[p] = "close" /\ \A q \in Procs : q # p => pc'[q] = pc[q]
    BY <1>1, Types, SMTT(40) DEF Pcs
  <1>6. TypeOK'
    <2>1. \A q \in Procs : cwd'[q] = Nil <=> pc'[q] = "dead"
      BY <1>1, <1>4, <1>5, Types, SMTT(40)
    <2> QED BY <1>1, <1>3, <1>4, <1>5, <2>1, Types, TypesNext, ZenonT(60)
  <1>7. Others(p)
    BY <1>4, <1>5, ZenonT(60) DEF Others
  <1>8. PlaceOK(p)'
    BY <1>1, <1>4, <1>5, SMTT(40) DEF PlaceOK
  <1>9. FileRefs'
    BY <1>1, <1>4, Zenon DEF FileRefs
  <1>10. Fresh'
    <2>1. pc'[p] \notin {"pipe_w", "pipe_k"}
      BY <1>5
    <2> QED BY <1>1, <1>2, <1>3, <1>4, <1>7, <2>1, FreshFrame, ZenonT(60)
  <1>11. \A q \in Procs : PlaceOK(q)'
    BY <1>7, <1>8, PlaceFrame, Zenon DEF IInv
  <1> QED BY <1>3, <1>6, <1>9, <1>10, <1>11, Zenon DEF IInv

\* It has two: it installs both.
LEMMA PipeFdsStep ==
    ASSUME IInv, NEW p \in Procs, pc[p] = "pipe_k", NEW k, NewPipe(mine[p][1], mine[p][2], k),
           NEW a \in FreeFds(p), NEW b \in FreeFds(p), a # b,
           ofile' = [ofile EXCEPT ![p][a] = mine[p][1], ![p][b] = mine[p][2]],
           mine' = [mine EXCEPT ![p] = <<>>], pc' = [pc EXCEPT ![p] = "user"]
    PROVE  IInv'
  <1>1. TypeOK /\ FileRefs /\ PlaceOK(p) /\ Fresh
    BY Zenon DEF IInv
  <1>0. PICK f, g : f = mine[p][1] /\ g = mine[p][2]
    BY Zenon
  <1>2. /\ f \in Files /\ g \in Files /\ f # g /\ ref[f] = 1 /\ ref[g] = 1 /\ obj[f] = Nil /\ obj[g] = Nil
        /\ \A q \in Procs : q # p => ~In(mine[q], f) /\ ~In(mine[q], g)
        /\ \A h : In(mine[p], h) <=> f = h \/ g = h
        /\ ff[p] = Nil /\ ip[p] = Nil
    BY <1>0, PipeFiles, Zenon
  <1>3. /\ InodeRefs' /\ EndsInv' /\ Unused' /\ ~panicked' /\ obj' \in [Files -> Objects]
        /\ open' \subseteq Ends /\ pages' \subseteq Pipes
        /\ \A h \in Files : h # f /\ h # g => obj'[h] = obj[h]
    BY <1>0, <1>2, NewPipeStep, Zenon
  <1>4. UNCHANGED <<ref, cwd, iref, ff, ip>>
    BY Zenon DEF NewPipe
  <1>5. /\ pc' \in [Procs -> Pcs] /\ pc'[p] = "user" /\ \A q \in Procs : q # p => pc'[q] = pc[q]
        /\ mine' \in [Procs -> Seq(Files)] /\ mine'[p] = <<>> /\ \A q \in Procs : q # p => mine'[q] = mine[q]
    <2>1. mine \in [Procs -> Seq(Files)] /\ <<>> \in Seq(Files) /\ pc \in [Procs -> Pcs] /\ "user" \in Pcs
      BY <1>1, <1>2, Types, InShort, SMTT(40) DEF Pcs
    <2> QED BY <2>1, SMTT(40)
  <1>6. /\ a \in Fds /\ b \in Fds /\ ofile[p][a] = 0 /\ ofile[p][b] = 0 /\ ofile \in DescTable
        /\ f \in 0..NFILE /\ g \in 0..NFILE
    BY <1>1, <1>2, Types, FileAssumption, SMTT(40) DEF FreeFds, Files
  <1>7. PICK o : o = [ofile EXCEPT ![p][a] = f]
    BY Zenon
  <1>7a. PICK n : n = [o EXCEPT ![p][b] = g]
    BY Zenon
  <1>8. o \in DescTable /\ n \in DescTable /\ ofile' = n /\ o[p][b] = 0
    <2>1. o \in DescTable
      BY <1>6, <1>7, DescType, Zenon
    <2>2. ofile' = [ofile EXCEPT ![p][a] = f, ![p][b] = g]
      BY <1>0, Zenon
    <2>3. ofile' = n
      BY <1>7, <1>7a, <2>2, Zenon
    <2>4. o[p][b] = 0
      BY <1>6, <1>7, SMTT(40) DEF DescTable
    <2>5. n \in DescTable
      BY <1>6, <1>7a, <2>1, DescType, Zenon
    <2> QED BY <2>1, <2>3, <2>4, <2>5, Zenon
  <1>9. ofile' \in DescTable /\ \A q \in Procs : q # p => ofile'[q] = ofile[q]
    <2>1. ofile' \in DescTable
      BY <1>8, Zenon
    <2>2. \A q \in Procs : q # p => o[q] = ofile[q]
      BY <1>6, <1>7, SMTT(40) DEF DescTable
    <2>3. \A q \in Procs : q # p => ofile'[q] = o[q]
      BY <1>8, <1>7a, SMTT(40) DEF DescTable
    <2> QED BY <2>1, <2>2, <2>3, Zenon
  <1>10. FileRefs'
    <2> SUFFICES ASSUME NEW h \in Files PROVE ref'[h] = Descs(ofile', h) + Calls(mine', h)
      BY Zenon DEF FileRefs
    <2>1. Diff(Descs(o, h), Descs(ofile, h), B(f = h), B(ofile[p][a] = h))
      BY <1>6, <1>7, DescChange, Zenon
    <2>2. Diff(Descs(ofile', h), Descs(o, h), B(g = h), B(o[p][b] = h))
      <3>1. Diff(Descs(n, h), Descs(o, h), B(g = h), B(o[p][b] = h))
        BY <1>6, <1>8, <1>7a, DescChange, Zenon
      <3> QED BY <1>8, <3>1, Zenon
    <2>3. Diff(Calls(mine', h), Calls(mine, h), B(In(<<>>, h)), B(In(mine[p], h)))
      BY <1>1, Types, CallChange, Zenon
    <2>4. B(0 = h) = 0
      BY FileAssumption DEF Files, B
    <2>5. B(ofile[p][a] = h) = 0 /\ B(o[p][b] = h) = 0 /\ B(In(<<>>, h)) = 0
      <3>1. ~In(<<>>, h)
        BY <1>2, InShort, Zenon
      <3> QED BY <1>6, <1>8, <2>4, <3>1, Zenon DEF B
    <2>6. B(In(mine[p], h)) = B(f = h) + B(g = h)
      <3>1. (In(mine[p], h) <=> f = h \/ g = h) /\ ~(f = h /\ g = h)
        BY <1>2, Zenon
      <3>2. CASE In(mine[p], h)
        BY <3>1, <3>2, SMTT(40) DEF B
      <3>3. CASE ~In(mine[p], h)
        BY <3>1, <3>3, SMTT(40) DEF B
      <3> QED BY <3>2, <3>3, Zenon
    <2>7. ref'[h] = Descs(ofile, h) + Calls(mine, h)
      BY <1>1, <1>4, Zenon DEF FileRefs
    <2>8. /\ Descs(ofile, h) \in Nat /\ Calls(mine, h) \in Nat
          /\ B(f = h) \in Nat /\ B(g = h) \in Nat
      BY CountsNat, SMTT(40) DEF B
    <2> QED BY <2>1, <2>2, <2>3, <2>5, <2>6, <2>7, <2>8, SMTT(40) DEF Diff
  <1>11. TypeOK'
    <2>1. \A q \in Procs : cwd'[q] = Nil <=> pc'[q] = "dead"
      BY <1>1, <1>4, <1>5, Types, SMTT(40)
    <2> QED BY <1>1, <1>3, <1>4, <1>5, <1>9, <2>1, Types, TypesNext, ZenonT(60)
  <1>12. Others(p)
    BY <1>4, <1>5, <1>9, ZenonT(60) DEF Others
  <1>13. PlaceOK(p)'
    <2>1. ff'[p] = Nil /\ ip'[p] = Nil
      BY <1>2, <1>4, Zenon
    <2> QED BY <1>5, <2>1, SMTT(40) DEF PlaceOK
  <1>14. Fresh'
    <2>1. pc'[p] \notin {"pipe_w", "pipe_k"}
      BY <1>5, SMTT(40)
    <2> QED BY <1>1, <1>2, <1>3, <1>4, <1>12, <2>1, FreshFrame, ZenonT(60)
  <1>15. \A q \in Procs : PlaceOK(q)'
    BY <1>12, <1>13, PlaceFrame, Zenon DEF IInv
  <1> QED BY <1>3, <1>10, <1>11, <1>14, <1>15, Zenon DEF IInv

LEMMA PipeKStep ==
    ASSUME IInv, NEW p \in Procs, PipeK(p)
    PROVE  IInv'
  <1>1. pc[p] = "pipe_k" /\ UNCHANGED <<ref, cwd, iref, ff, ip, panicked>>
    BY Zenon DEF PipeK
  <1>2. CASE Goto(p, "close") /\ UNCHANGED <<obj, ofile, mine, open, pages>>
    BY <1>1, <1>2, GiveUp, Zenon DEF Goto, objs
  <1>3. ASSUME NEW k \in Pipes \ pages, pages' = pages \cup {k}, open' = open \cup {<<k, "r">>, <<k, "w">>},
               obj' = [obj EXCEPT ![mine[p][1]] = <<k, "r">>, ![mine[p][2]] = <<k, "w">>], pipeFds(p)
        PROVE  IInv'
    <2>1. NewPipe(mine[p][1], mine[p][2], k)
      BY <1>1, <1>3, Zenon DEF NewPipe
    <2>2. CASE Cardinality(FreeFds(p)) < 2
      BY <1>1, <1>3, <2>1, <2>2, PipeFullStep, Zenon DEF pipeFds, Goto
    <2>3. CASE ~(Cardinality(FreeFds(p)) < 2)
      <3>1. PICK a, b \in FreeFds(p) :
                /\ a < b /\ \A c \in FreeFds(p) : c = a \/ c >= b
                /\ ofile' = [ofile EXCEPT ![p][a] = mine[p][1], ![p][b] = mine[p][2]]
        BY <1>3, <2>3, Zenon DEF pipeFds
      <3>2. a # b
        BY <3>1, FileAssumption, SMTT(40) DEF FreeFds, Fds
      <3> QED BY <1>1, <1>3, <2>1, <2>3, <3>1, <3>2, PipeFdsStep, ZenonT(60) DEF pipeFds, Goto
    <2> QED BY <2>2, <2>3, Zenon
  <1> QED BY <1>1, <1>2, <1>3, Zenon DEF PipeK

-----------------------------------------------------------------------------
(* fork() *)

\* What p's descriptors hold, q's hold as well; they held nothing.
LEMMA DescCopy ==
    ASSUME NEW o \in DescTable, NEW p \in Procs, NEW q \in Procs, NEW f \in Files,
           \A fd \in Fds : o[q][fd] = 0, NEW n, n = [o EXCEPT ![q] = o[p]]
    PROVE  Diff(Descs(n, f), Descs(o, f), Cardinality({fd \in Fds : o[p][fd] = f}), 0)
  <1> DEFINE S == Procs \X Fds
             O == {u \in S : Flat(o)[u] = f}
             N == {u \in S : Flat(n)[u] = f}
             T == {fd \in Fds : o[p][fd] = f}
             Q == {q} \X T
  <1>1. n[q] = o[p] /\ (\A r \in Procs : r # q => n[r] = o[r]) /\ f # 0
    BY FileAssumption DEF DescTable, Files
  <1>2. /\ \A u \in S : u \in O <=> o[u[1]][u[2]] = f
        /\ \A u \in S : u \in N <=> n[u[1]][u[2]] = f
    BY Zenon DEF Flat
  <1>3. N = O \cup Q
    <2>1. N \subseteq S /\ O \subseteq S
      OBVIOUS
    <2>2. \A u : u \in Q <=> u \in S /\ u[1] = q /\ o[p][u[2]] = f
      OBVIOUS
    <2>3. \A u \in S : u[1] \in Procs /\ u[2] \in Fds
      OBVIOUS
    <2> HIDE DEF N, O, Q, S
    <2>4. \A u \in S : u \in N <=> u \in O \/ u \in Q
      <3> SUFFICES ASSUME NEW u \in S PROVE u \in N <=> u \in O \/ u \in Q
        BY Zenon
      <3>1. CASE u[1] = q
        <4>1. o[u[1]][u[2]] = 0
          BY <2>3, <3>1, Zenon
        <4>2. u \notin O
          BY <1>1, <1>2, <4>1, Zenon
        <4>3. n[u[1]][u[2]] = o[p][u[2]]
          BY <1>1, <3>1, Zenon
        <4>4. (u \in N <=> n[u[1]][u[2]] = f) /\ (u \in Q <=> o[p][u[2]] = f)
          BY <1>2, <2>2, <3>1, Zenon
        <4> QED BY <4>2, <4>3, <4>4, Zenon
      <3>2. CASE u[1] # q
        <4>1. n[u[1]] = o[u[1]] /\ u \notin Q
          BY <1>1, <2>2, <2>3, <3>2, Zenon
        <4> QED BY <1>2, <4>1, Zenon
      <3> QED BY <3>1, <3>2, Zenon
    <2> QED BY <2>1, <2>2, <2>4, Zenon
  <1>4. O \cap Q = {}
    <2> SUFFICES ASSUME NEW r \in Procs, NEW fd \in Fds, <<r, fd>> \in O, <<r, fd>> \in Q PROVE FALSE
      BY SMTT(40)
    <2>1. o[r][fd] = f /\ r = q
      BY <1>2
    <2> QED BY <1>1, <2>1, SMTT(40)
  <1>5. IsFiniteSet(O) /\ IsFiniteSet(T) /\ Cardinality(O) \in Nat /\ Cardinality(T) \in Nat
    <2>1. O \in SUBSET S /\ T \in SUBSET Fds
      BY SMTT(40)
    <2> HIDE DEF O, T
    <2> QED BY <2>1, Finite, FS_Subset, FS_CardinalityType, Zenon
  <1>6. IsFiniteSet(Q) /\ Cardinality(Q) = Cardinality(T)
    <2>1. IsFiniteSet({q}) /\ Cardinality({q}) = 1
      BY FS_Singleton, Zenon
    <2> HIDE DEF T
    <2>2. IsFiniteSet(Q) /\ Cardinality(Q) = Cardinality({q}) * Cardinality(T)
      BY <1>5, <2>1, FS_Product, Zenon
    <2> HIDE DEF Q
    <2> QED BY <1>5, <2>1, <2>2, SMTT(40)
  <1>7. Descs(n, f) = Cardinality(N) /\ Descs(o, f) = Cardinality(O)
    BY Zenon DEF Descs, Hits
  <1> HIDE DEF O, N, T, Q
  <1>8. Cardinality(O \cup Q) = Cardinality(O) + Cardinality(Q) - Cardinality(O \cap Q)
    BY <1>5, <1>6, FS_Union, Zenon
  <1>9. Cardinality(O \cap Q) = 0
    BY <1>4, FS_EmptySet, Zenon
  <1>10. Descs(n, f) = Descs(o, f) + Cardinality(T)
    BY <1>3, <1>5, <1>6, <1>7, <1>8, <1>9, SMTT(40)
  <1> QED BY <1>5, <1>7, <1>10, SMTT(40) DEF Diff, T

LEMMA ForkStep ==
    ASSUME IInv, NEW p \in Procs, NEW q \in Procs, fork(p, q)
    PROVE  IInv'
  <1>1. TypeOK /\ FileRefs /\ InodeRefs /\ EndsInv /\ PlaceOK(p) /\ PlaceOK(q) /\ Fresh /\ Unused
    BY Zenon DEF IInv
  <1>2. /\ pc[p] = "user" /\ pc[q] = "dead" /\ pc' = [pc EXCEPT ![q] = "user"]
        /\ ofile' = [ofile EXCEPT ![q] = ofile[p]]
        /\ ref' = [f \in Files |-> ref[f] + Cardinality({fd \in Fds : ofile[p][fd] = f})]
        /\ panicked' = \E fd \in Fds : ofile[p][fd] # 0 /\ ref[ofile[p][fd]] < 1
        /\ cwd' = [cwd EXCEPT ![q] = cwd[p]] /\ iref' = [iref EXCEPT ![cwd[p]] = @ + 1]
        /\ UNCHANGED <<obj, open, pages, mine, ff, ip>>
    BY Zenon DEF fork, Goto, locals
  <1>3. PICK j : j = cwd[p]
    BY Zenon
  <1>4. /\ p # q /\ j \in Inodes /\ cwd[q] = Nil /\ iref' = [iref EXCEPT ![j] = iref[j] + 1]
        /\ \A fd \in Fds : ofile[q][fd] = 0
        /\ mine[q] = <<>> /\ ff[q] = Nil /\ ip[q] = Nil
    BY <1>1, <1>2, <1>3, Types, SMTT(40) DEF PlaceOK
  <1>5. /\ ofile' \in DescTable /\ \A r \in Procs : r # q => ofile'[r] = ofile[r]
        /\ cwd' \in [Procs -> Inodes \cup {Nil}] /\ cwd'[q] = j /\ \A r \in Procs : r # q => cwd'[r] = cwd[r]
        /\ pc' \in [Procs -> Pcs] /\ pc'[q] = "user" /\ \A r \in Procs : r # q => pc'[r] = pc[r]
    BY <1>1, <1>2, <1>3, <1>4, Types, SMTT(40) DEF DescTable, Pcs
  <1>6. FileRefs'
    <2> SUFFICES ASSUME NEW f \in Files PROVE ref'[f] = Descs(ofile', f) + Calls(mine', f)
      BY Zenon DEF FileRefs
    <2>1. PICK n : n = Cardinality({fd \in Fds : ofile[p][fd] = f})
      BY Zenon
    <2>2. Diff(Descs(ofile', f), Descs(ofile, f), n, 0)
      BY <1>1, <1>2, <1>4, <2>1, Types, DescCopy, ZenonT(60)
    <2>3. ref'[f] = ref[f] + n /\ ref[f] = Descs(ofile, f) + Calls(mine, f) /\ mine' = mine
      BY <1>1, <1>2, <2>1, Zenon DEF FileRefs
    <2>4. Descs(ofile, f) \in Nat /\ Calls(mine, f) \in Nat /\ n \in Nat
      <3>1. {fd \in Fds : ofile[p][fd] = f} \in SUBSET Fds
        BY Zenon
      <3> QED BY <2>1, <3>1, CountsNat, Finite, FS_Subset, FS_CardinalityType, Zenon
    <2> QED BY <2>2, <2>3, <2>4, SMTT(40) DEF Diff
  <1>7. ref' \in [Files -> Nat]
    <2>1. ASSUME NEW f \in Files PROVE ref'[f] \in Nat
      <3>1. ref'[f] = Descs(ofile', f) + Calls(mine', f) /\ Descs(ofile', f) \in Nat /\ Calls(mine', f) \in Nat
        BY <1>6, CountsNat, ZenonT(60) DEF FileRefs
      <3> QED BY <3>1
    <2> QED BY <1>2, <2>1, Zenon
  <1>8. InodeRefs'
    <2> SUFFICES ASSUME NEW i \in Inodes
                 PROVE  iref'[i] = Hits(obj', Files, i) + Hits(cwd', Procs, i) + Hits(ip', Procs, i) + Hits(ff', Procs, i)
      BY Zenon DEF InodeRefs
    <2>1. Diff(Hits(cwd', Procs, i), Hits(cwd, Procs, i), B(j = i), B(cwd[q] = i))
      BY <1>1, <1>2, <1>3, Types, Finite, HitsExcept, ZenonT(60)
    <2>2. iref'[i] = iref[i] + B(j = i)
      BY <1>1, <1>4, Types, SMTT(40) DEF B
    <2>3. /\ iref[i] = Hits(obj, Files, i) + Hits(cwd, Procs, i) + Hits(ip, Procs, i) + Hits(ff, Procs, i)
          /\ B(cwd[q] = i) = 0 /\ obj' = obj /\ ip' = ip /\ ff' = ff
      BY <1>1, <1>2, <1>4, Names, Zenon DEF InodeRefs, B
    <2> QED BY <2>1, <2>2, <2>3, InodeSum, SMTT(40) DEF Diff, B
  <1>9. TypeOK'
    <2>1. iref' \in [Inodes -> Nat]
      BY <1>1, <1>4, <1>8, Types, IrefType, Zenon
    <2>2. \A r \in Procs : cwd'[r] = Nil <=> pc'[r] = "dead"
      <3>1. cwd'[q] # Nil /\ pc'[q] # "dead"
        BY <1>4, <1>5, Names, SMTT(40)
      <3>2. \A r \in Procs : cwd[r] = Nil <=> pc[r] = "dead"
        BY <1>1, Types, Zenon
      <3> QED BY <1>5, <3>1, <3>2, ZenonT(60)
    <2> QED BY <1>1, <1>2, <1>5, <1>7, <2>1, <2>2, Types, TypesNext, ZenonT(60)
  <1>10. EndsInv'
    BY <1>1, <1>2, ZenonT(60) DEF EndsInv, Held, HeldOnce
  <1>11. Others(q)
    BY <1>2, <1>5, Zenon DEF Others
  <1>12. PlaceOK(q)'
    <2>1. mine'[q] = <<>> /\ ff'[q] = Nil /\ ip'[q] = Nil
      BY <1>2, <1>4, Zenon
    <2> QED BY <1>5, <2>1, SMTT(40) DEF PlaceOK
  <1>13. \A r \in Procs : PlaceOK(r)'
    BY <1>11, <1>12, PlaceFrame, ZenonT(60) DEF IInv
  <1>14. ASSUME NEW f \in Files
         PROVE  ref'[f] = 0 => ref[f] = 0
    <2>1. PICK n : n = Cardinality({fd \in Fds : ofile[p][fd] = f})
      BY Zenon
    <2>2. {fd \in Fds : ofile[p][fd] = f} \in SUBSET Fds
      BY Zenon
    <2>3. n \in Nat /\ ref'[f] = ref[f] + n /\ ref[f] \in Nat
      BY <1>1, <1>2, <2>1, <2>2, Types, Finite, FS_Subset, FS_CardinalityType, ZenonT(60)
    <2> QED BY <2>3, SMTT(40)
  <1>15. ASSUME NEW f \in Files, \A fd \in Fds : ofile[p][fd] # f
         PROVE  ref'[f] = ref[f]
    <2>1. {fd \in Fds : ofile[p][fd] = f} = {}
      BY <1>15, Zenon
    <2>2. ref'[f] = ref[f] + 0 /\ ref[f] \in Nat
      BY <1>1, <1>2, <2>1, Types, FS_EmptySet, Zenon
    <2> QED BY <2>2
  <1>16. Fresh'
    <2>1. ASSUME NEW r \in Procs, NEW f \in Files, In(mine[r], f), ref[f] = 1, obj[f] = Nil
          PROVE  ref'[f] = 1 /\ obj'[f] = Nil
      <3>1. ~(ref[f] >= 2)
        BY <2>1
      <3>2. \A fd \in Fds : ofile[p][fd] # f
        BY <1>1, <2>1, <3>1, Referred, Zenon
      <3> QED BY <1>2, <1>15, <2>1, <3>2, Zenon
    <2>2. pc'[q] \notin {"pipe_w", "pipe_k"}
      BY <1>5, SMTT(40)
    <2> QED BY <1>1, <1>11, <2>1, <2>2, FreshFrame, Zenon
  <1>17. Unused'
    BY <1>1, <1>2, <1>14, Zenon DEF Unused
  <1>18. ~panicked'
    <2>1. ASSUME NEW fd \in Fds, ofile[p][fd] # 0 PROVE ~(ref[ofile[p][fd]] < 1)
      <3>1. PICK f : f = ofile[p][fd]
        BY Zenon
      <3>2. f \in Files
        BY <1>1, <2>1, <3>1, Types, FileAssumption, SMTT(40) DEF DescTable, Files
      <3>3. ref[f] >= 1
        BY <1>1, <3>1, <3>2, Referred, Zenon
      <3>4. ref[f] \in Nat
        BY <1>1, <3>2, Types, Zenon
      <3>5. ~(ref[f] < 1)
        BY <3>3, <3>4, SMTT(40)
      <3> QED BY <3>1, <3>5, Zenon
    <2> QED BY <1>2, <2>1, Zenon
  <1> QED BY <1>6, <1>8, <1>9, <1>10, <1>13, <1>16, <1>17, <1>18, ZenonT(60) DEF IInv

-----------------------------------------------------------------------------
(* The invariant holds *)

\* Nothing is open; init is in the root directory.
LEMMA InitIInv == Init => IInv
  <1> SUFFICES ASSUME Init PROVE IInv
    OBVIOUS
  <1>1. /\ ref = [f \in Files |-> 0] /\ obj = [f \in Files |-> Nil]
        /\ ofile = [p \in Procs |-> [fd \in Fds |-> 0]]
        /\ cwd = [p \in Procs |-> IF p = InitProc THEN Root ELSE Nil]
        /\ iref = [i \in Inodes |-> IF i = Root THEN 1 ELSE 0]
        /\ open = {} /\ pages = {}
        /\ pc = [p \in Procs |-> IF p = InitProc THEN "user" ELSE "dead"]
        /\ mine = [p \in Procs |-> <<>>] /\ ff = [p \in Procs |-> Nil]
        /\ ip = [p \in Procs |-> Nil] /\ ~panicked
    BY Zenon DEF Init
  <1>2. InitProc \in Procs /\ Root \in Inodes /\ 0 \in 0..NFILE
    BY FileAssumption, SMTT(40)
  <1>3. TypeOK
    <2>1. <<>> \in Seq(Files) /\ 0 \in Nat /\ 1 \in Nat
      BY SMTT(40)
    <2>2. \A p \in Procs : cwd[p] = Nil <=> pc[p] = "dead"
      BY <1>1, <1>2, Names, SMTT(40)
    <2> QED BY <1>1, <1>2, <2>1, <2>2, Zenon DEF TypeOK
  <1>4. FileRefs
    <2> SUFFICES ASSUME NEW f \in Files PROVE ref[f] = Descs(ofile, f) + Calls(mine, f)
      BY Zenon DEF FileRefs
    <2>1. f # 0
      BY FileAssumption, SMTT(40) DEF Files
    <2>2. {u \in Procs \X Fds : Flat(ofile)[u] = f} = {}
      <3>1. \A u \in Procs \X Fds : Flat(ofile)[u] = 0
        BY <1>1, SMTT(40) DEF Flat
      <3> QED BY <2>1, <3>1, Zenon
    <2>3. {p \in Procs : Has(mine, f)[p] = 1} = {}
      <3>1. ASSUME NEW p \in Procs PROVE Has(mine, f)[p] = 0
        <4>1. ~In(mine[p], f)
          BY <1>1, InShort, Zenon
        <4> QED BY <4>1, Zenon DEF Has, B
      <3> QED BY <3>1, SMTT(40)
    <2>4. Descs(ofile, f) = 0 /\ Calls(mine, f) = 0
      BY <2>2, <2>3, FS_EmptySet, Zenon DEF Descs, Calls, Hits
    <2> QED BY <1>1, <2>4, SMTT(40)
  <1>5. InodeRefs
    <2> SUFFICES ASSUME NEW i \in Inodes
                 PROVE  iref[i] = Hits(obj, Files, i) + Hits(cwd, Procs, i) + Hits(ip, Procs, i) + Hits(ff, Procs, i)
      BY Zenon DEF InodeRefs
    <2>1. /\ {f \in Files : obj[f] = i} = {} /\ {p \in Procs : ip[p] = i} = {}
          /\ {p \in Procs : ff[p] = i} = {}
          /\ {p \in Procs : cwd[p] = i} = IF i = Root THEN {InitProc} ELSE {}
      BY <1>1, <1>2, Names, SMTT(40)
    <2>2. Hits(obj, Files, i) = 0 /\ Hits(ip, Procs, i) = 0 /\ Hits(ff, Procs, i) = 0
      BY <2>1, FS_EmptySet, Zenon DEF Hits
    <2>3. Hits(cwd, Procs, i) = IF i = Root THEN 1 ELSE 0
      BY <2>1, FS_EmptySet, FS_Singleton, Zenon DEF Hits
    <2> QED BY <1>1, <2>2, <2>3, SMTT(40)
  <1>6. EndsInv
    <2>1. \A e \in Ends : (\A f \in Files : obj[f] # e) /\ (\A p \in Procs : ff[p] # e)
      BY <1>1, Names, Zenon
    <2>2. pages = {e[1] : e \in open}
      BY <1>1, Zenon
    <2> QED BY <1>1, <2>1, <2>2, Zenon DEF EndsInv, Held, HeldOnce
  <1>7. \A p \in Procs : PlaceOK(p)
    BY <1>1 DEF PlaceOK
  <1>8. Fresh /\ Unused
    <2>1. \A p \in Procs : pc[p] \notin {"pipe_w", "pipe_k"}
      BY <1>1
    <2> QED BY <1>1, <2>1, Zenon DEF Fresh, Unused
  <1> QED BY <1>1, <1>3, <1>4, <1>5, <1>6, <1>7, <1>8, ZenonT(60) DEF IInv

LEMMA NextIInv == IInv /\ [Next]_vars => IInv'
  <1>1. ASSUME IInv, NEW p \in Procs, Step(p) PROVE IInv'
    <2>1. CASE fileclose(p) \/ Release(p) \/ Done(p)
      BY <1>1, <2>1, FilecloseStep, ReleaseStep, DoneStep, Zenon
    <2>2. CASE sys_pipe(p) \/ PipeW(p) \/ PipeK(p) \/ OpenFile(p) \/ Chdir(p)
      BY <1>1, <2>2, PipeFileStep, PipeKStep, OpenFileStep, ChdirStep, Zenon
    <2>3. CASE exit(p) \/ ExitFile(p) \/ ExitCwd(p)
      BY <1>1, <2>3, ExitStep, CloseStep, Zenon
    <2>4. CASE \E i \in Inodes : sys_open(p, i) \/ sys_chdir(p, i)
      BY <1>1, <2>4, LookupStep, Zenon
    <2>5. CASE \E fd \in Fds : sys_dup(p, fd) \/ sys_close(p, fd)
      BY <1>1, <2>5, DupStep, CloseStep, Zenon
    <2>6. CASE \E q \in Procs : fork(p, q)
      BY <1>1, <2>6, ForkStep, Zenon
    <2> QED BY <1>1, <2>1, <2>2, <2>3, <2>4, <2>5, <2>6, ZenonT(60) DEF Step
  <1>2. ASSUME IInv, UNCHANGED vars PROVE IInv'
    <2>1. UNCHANGED <<ref, obj, ofile, cwd, iref, open, pages, pc, mine, ff, ip, panicked>>
      BY <1>2, Zenon DEF vars, tab, objs, locals
    <2>2. TypeOK' /\ ~panicked'
      BY <1>2, <2>1, ZenonT(60) DEF IInv, TypeOK
    <2>3. FileRefs' /\ InodeRefs'
      BY <1>2, <2>1, Zenon DEF IInv, FileRefs, InodeRefs
    <2>4. EndsInv'
      BY <1>2, <2>1, Zenon DEF IInv, EndsInv, Held, HeldOnce
    <2>5. \A p \in Procs : PlaceOK(p)'
      BY <1>2, <2>1, ZenonT(60) DEF IInv, PlaceOK
    <2>6. Fresh' /\ Unused'
      BY <1>2, <2>1, Zenon DEF IInv, Fresh, Unused
    <2> QED BY <2>2, <2>3, <2>4, <2>5, <2>6, Zenon DEF IInv
  <1> QED BY <1>1, <1>2, Zenon DEF Next

\* The users of a file are its descriptors and the calls that have it.
LEMMA UsersCount ==
    ASSUME NEW f
    PROVE  Cardinality(Users(f)) = Descs(ofile, f) + Calls(mine, f)
  <1> DEFINE D == {u \in Procs \X Fds : ofile[u[1]][u[2]] = f}
             C == {q \in Procs : In(mine[q], f)}
             P == {<<p, 0>> : p \in C}
  <1>1. Users(f) = D \cup P
    BY Zenon DEF Users, In
  <1>2. Descs(ofile, f) = Cardinality(D)
    <2>1. {u \in Procs \X Fds : Flat(ofile)[u] = f} = D
      BY DEF Flat
    <2> QED BY <2>1, ZenonT(60) DEF Descs, Hits
  <1>3. Calls(mine, f) = Cardinality(C)
    <2>1. \A p \in Procs : Has(mine, f)[p] = 1 <=> In(mine[p], f)
      <3> SUFFICES ASSUME NEW p \in Procs PROVE Has(mine, f)[p] = 1 <=> In(mine[p], f)
        BY Zenon
      <3>1. Has(mine, f)[p] = B(In(mine[p], f))
        BY Zenon DEF Has
      <3> QED BY <3>1, SMTT(40) DEF B
    <2>2. {p \in Procs : Has(mine, f)[p] = 1} = C
      BY <2>1, Zenon
    <2> QED BY <2>2, ZenonT(60) DEF Calls, Hits
  <1>4. IsFiniteSet(D) /\ IsFiniteSet(C) /\ Cardinality(D) \in Nat /\ Cardinality(C) \in Nat
    <2>1. D \in SUBSET (Procs \X Fds) /\ C \in SUBSET Procs
      BY SMTT(40)
    <2> HIDE DEF C, D
    <2> QED BY <2>1, Finite, FS_Subset, FS_CardinalityType, ZenonT(60)
  <1>5. IsFiniteSet(P) /\ Cardinality(P) = Cardinality(C)
    <2>1. P = C \X {0}
      OBVIOUS
    <2>2. IsFiniteSet({0}) /\ Cardinality({0}) = 1
      BY FS_Singleton, Zenon
    <2> HIDE DEF P, C
    <2>3. IsFiniteSet(C \X {0}) /\ Cardinality(C \X {0}) = Cardinality(C) * Cardinality({0})
      BY <1>4, <2>2, FS_Product, Zenon
    <2> QED BY <1>4, <2>1, <2>2, <2>3, SMTT(40)
  <1>6. D \cap P = {}
    <2>1. \A u \in D : u[2] \in Fds
      OBVIOUS
    <2>2. \A u \in P : u[2] = 0
      OBVIOUS
    <2>3. 0 \notin Fds
      BY FileAssumption, SMTT(40) DEF Fds
    <2> HIDE DEF D, P
    <2> QED BY <2>1, <2>2, <2>3, Zenon
  <1> HIDE DEF D, C, P
  <1>7. Cardinality(D \cup P) = Cardinality(D) + Cardinality(P) - Cardinality(D \cap P)
    BY <1>4, <1>5, FS_Union, Zenon
  <1>8. Cardinality(D \cap P) = 0
    BY <1>6, FS_EmptySet, Zenon
  <1> QED BY <1>1, <1>2, <1>3, <1>4, <1>5, <1>7, <1>8, SMTT(40)

LEMMA IInvUses == IInv => UsesCounted
  <1> SUFFICES ASSUME IInv PROVE UsesCounted
    OBVIOUS
  <1>1. TypeOK /\ ~panicked /\ FileRefs /\ InodeRefs /\ EndsInv /\ Unused
    BY Zenon DEF IInv
  <1>2. RefsCounted
    <2>1. ASSUME NEW f \in Files PROVE ref[f] = Cardinality(Users(f))
      BY <1>1, UsersCount, SMTT(40) DEF FileRefs
    <2> QED BY <1>1, <2>1, Zenon DEF RefsCounted
  \* Only a file in use refers to something.
  <1>3. ASSUME NEW f \in Files, NEW x, x # Nil, obj[f] = x PROVE ref[f] > 0
    <2>1. ref[f] # 0 /\ ref[f] \in Nat
      BY <1>1, <1>3, Types, Zenon DEF Unused
    <2> QED BY <2>1
  <1>4. open = {e \in Ends : \/ \E f \in Files : ref[f] > 0 /\ obj[f] = e
                             \/ \E p \in Procs : ff[p] = e}
    <2>1. open \subseteq Ends
      BY <1>1, Types, Zenon
    <2>2. ASSUME NEW e \in Ends
          PROVE  e \in open <=> ((\E f \in Files : ref[f] > 0 /\ obj[f] = e) \/ (\E p \in Procs : ff[p] = e))
      <3>1. e # Nil
        BY Names, Zenon
      <3> QED BY <1>1, <1>3, <3>1, Zenon DEF EndsInv, Held
    <2> QED BY <2>1, <2>2, Zenon
  <1>5. ASSUME NEW i \in Inodes
        PROVE  iref[i] = Cardinality({f \in Files : ref[f] > 0 /\ obj[f] = i})
                           + Cardinality({p \in Procs : cwd[p] = i})
                           + Cardinality({p \in Procs : ip[p] = i})
                           + Cardinality({p \in Procs : ff[p] = i})
    <2>1. {f \in Files : ref[f] > 0 /\ obj[f] = i} = {f \in Files : obj[f] = i}
      <3>1. i # Nil
        BY Names, Zenon
      <3> QED BY <1>3, <3>1, Zenon
    <2> QED BY <1>1, <2>1, Zenon DEF InodeRefs, Hits
  <1>6. pages = {e[1] : e \in open}
    BY <1>1, Zenon DEF EndsInv
  <1>7. ObjectsCounted
    BY <1>4, <1>5, <1>6, Zenon DEF ObjectsCounted
  <1> QED BY <1>1, <1>2, <1>7, Zenon DEF UsesCounted

\* Whatever calls run at the same time and whichever of them fails half-way,
\* the count of every file is the number of descriptors and unfinished calls
\* that refer to it, the count of every inode the number of open files,
\* working directories and calls that do, and a pipe end is open exactly while
\* a file or its fileclose() has it; so filedup() and fileclose() never panic.
THEOREM UsesAreCounted == Spec => []UsesCounted
  <1>1. Init => IInv
    BY InitIInv, SMTT(40)
  <1>2. IInv /\ [Next]_vars => IInv'
    BY NextIInv, SMTT(40)
  <1>3. IInv => UsesCounted
    BY IInvUses
  <1> QED BY <1>1, <1>2, <1>3, PTL DEF Spec
=============================================================================
