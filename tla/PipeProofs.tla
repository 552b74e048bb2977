----------------------------- MODULE PipeProofs -----------------------------
(***************************************************************************)
(* Proofs about Pipe.tla: the ring with its wrapping counters holds a      *)
(* first-in first-out stream, and nobody sleeps on it without cause.       *)
(*                                                                         *)
(* The arithmetic comes first: Wrap is a multiple of PIPESIZE, so that the *)
(* slot of a byte is the same seen from nread and from nwrite, and at most *)
(* PIPESIZE consecutive slots are distinct.  FillRing and DrainRing turn   *)
(* that into what a write and a read do to the contents.  Each action then *)
(* has one lemma: it preserves IInv and is a step of Stream or none.       *)
(***************************************************************************)
EXTENDS Pipe, TLAPS

Reading(p) == pc[p] \in {"read", "rsleep"}
Writing(p) == pc[p] \in {"write", "wsleep"}

\* The ring and its counters.
RingInv ==
    /\ data \in [0..PIPESIZE - 1 -> Bytes]
    /\ nread \in 0..Wrap - 1 /\ nwrite \in 0..Wrap - 1 /\ count <= PIPESIZE

\* The processes' variables.
CallInv ==
    /\ fds \in [Procs -> SUBSET {"r", "w"}]
    /\ pc \in [Procs -> {"user", "ret", "read", "write", "rsleep", "wsleep"}]
    /\ left \in [Procs -> Seq(Bytes)] /\ n \in [Procs -> Sizes \cup {0}]
    /\ got \in [Procs -> SUBSET Seq(Bytes)] /\ \A p \in Procs : \A s \in got[p] : Len(s) <= n[p]
    /\ \A p \in Procs : pc[p] # "ret" => got[p] = {}
    /\ sigkill \in [Procs -> BOOLEAN] /\ killed \in [Procs -> BOOLEAN]

\* An end is open while somebody has a descriptor of it.
EndsInv ==
    /\ readopen \in BOOLEAN /\ writeopen \in BOOLEAN /\ freed \in BOOLEAN
    /\ readopen <=> \E p \in Procs : "r" \in fds[p]
    /\ writeopen <=> \E p \in Procs : "w" \in fds[p]
    /\ freed <=> ~readopen /\ ~writeopen

\* A process in piperead() or pipewrite() has the end it uses, and has not
\* found the signal that kills it.
UseInv ==
    \A p \in Procs :
        /\ Reading(p) => "r" \in fds[p] /\ ~killed[p]
        /\ Writing(p) => "w" \in fds[p] /\ ~killed[p]

IInv == RingInv /\ CallInv /\ EndsInv /\ UseInv /\ SleepersBlocked

-----------------------------------------------------------------------------
(* Remainders *)

LEMMA Remainder ==
    ASSUME NEW m \in Nat \ {0}, NEW x \in Int, NEW k \in Int, NEW r \in Int,
           0 <= r, r < m, x = m * k + r
    PROVE  x % m = r
  OBVIOUS

LEMMA Quotient ==
    ASSUME NEW m \in Nat \ {0}, NEW x \in Int
    PROVE  /\ x % m \in Int /\ 0 <= x % m /\ x % m < m
           /\ x \div m \in Int /\ x = m * (x \div m) + (x % m)
  OBVIOUS

LEMMA Small ==
    ASSUME NEW m \in Nat \ {0}, NEW x \in Int
    PROVE  /\ 0 <= x /\ x < m => x % m = x
           /\ -m <= x /\ x < 0 => x % m = x + m
           /\ m <= x /\ x - m < m => x % m = x - m
  <1>1. 0 <= x /\ x < m => x % m = x
    OBVIOUS
  <1>2. -m <= x /\ x < 0 => x % m = x + m
    OBVIOUS
  <1>3. m <= x /\ x - m < m => x % m = x - m
    OBVIOUS
  <1> QED BY <1>1, <1>2, <1>3, Zenon

\* The ring's index does not see the counters wrap.
LEMMA AddMultiple ==
    ASSUME NEW m \in Nat \ {0}, NEW w \in Nat, w % m = 0, NEW x \in Int
    PROVE  (x + w) % m = x % m /\ (x - w) % m = x % m
  <1> DEFINE k == x \div m
             r == x % m
             j == w \div m
  <1>1. k \in Int /\ r \in Int /\ 0 <= r /\ r < m /\ x = m * k + r
    BY Quotient, Zenon
  <1>2. j \in Int /\ w = m * j
    <2>1. j \in Int /\ w = m * j + (w % m)
      BY Quotient
    <2>2. m * j \in Int
      BY <2>1
    <2> HIDE DEF j
    <2> QED BY <2>1, <2>2
  <1> HIDE DEF k, r, j
  <1>3. x + w = m * (k + j) + r /\ x - w = m * (k - j) + r
    BY <1>1, <1>2
  <1>4. (x + w) % m = r
    <2>1. k + j \in Int /\ x + w \in Int
      BY <1>1, <1>2
    <2> QED BY <1>1, <1>3, <2>1, Remainder, Zenon
  <1>5. (x - w) % m = r
    <2>1. k - j \in Int /\ x - w \in Int
      BY <1>1, <1>2
    <2> QED BY <1>1, <1>3, <2>1, Remainder, Zenon
  <1> QED BY <1>4, <1>5, Zenon DEF r

\* Two places less than a ring apart are different.
LEMMA Apart ==
    ASSUME NEW m \in Nat \ {0}, NEW x \in Int, NEW d \in Int, 0 < d, d < m
    PROVE  x % m # (x + d) % m
  <1> DEFINE k == x \div m
             r == x % m
  <1>1. k \in Int /\ r \in Int /\ 0 <= r /\ r < m /\ x = m * k + r
    BY Quotient, Zenon
  <1> HIDE DEF k, r
  <1>2. CASE r + d < m
    <2>1. x + d = m * k + (r + d) /\ r + d \in Int /\ 0 <= r + d /\ x + d \in Int
      BY <1>1
    <2>2. (x + d) % m = r + d
      BY <1>1, <1>2, <2>1, Remainder, Zenon
    <2> QED BY <1>1, <2>2 DEF r
  <1>3. CASE r + d >= m
    <2>1. /\ x + d = m * (k + 1) + (r + d - m) /\ r + d - m \in Int /\ 0 <= r + d - m
          /\ r + d - m < m /\ x + d \in Int /\ k + 1 \in Int
      BY <1>1, <1>3
    <2>2. (x + d) % m = r + d - m
      BY <2>1, Remainder, Zenon
    <2> QED BY <1>1, <2>2 DEF r
  <1> QED BY <1>1, <1>2, <1>3

-----------------------------------------------------------------------------
(* The ring *)

Constants ==
    /\ PIPESIZE \in Nat \ {0} /\ Wrap \in Nat \ {0}
    /\ Wrap > PIPESIZE /\ Wrap % PIPESIZE = 0

LEMMA ConstantsOK == Constants
  BY PipeAssumption DEF Constants

\* The difference of the wrapping counters, and the place of the ith byte.
Gap(r, w) == (w - r) % Wrap
Slot(r, i) == (r + i - 1) % PIPESIZE

\* Counter w is k steps ahead of counter r.
Ahead(r, k, w) == w = r + k \/ w = r + k - Wrap

LEMMA GapValue ==
    ASSUME NEW r \in 0..Wrap - 1, NEW w \in 0..Wrap - 1
    PROVE  /\ Gap(r, w) \in 0..Wrap - 1
           /\ Ahead(r, Gap(r, w), w)
  <1>1. w - r \in Int /\ -Wrap <= w - r /\ w - r < Wrap /\ Wrap \in Nat \ {0}
    BY ConstantsOK DEF Constants
  <1>2. CASE w >= r
    <2>1. 0 <= w - r
      BY <1>1, <1>2
    <2>2. Gap(r, w) = w - r
      BY <1>1, <2>1, Small, Zenon DEF Gap
    <2> QED BY <1>1, <2>1, <2>2 DEF Ahead
  <1>3. CASE w < r
    <2>1. w - r < 0
      BY <1>1, <1>3
    <2>2. Gap(r, w) = w - r + Wrap
      BY <1>1, <2>1, Small, Zenon DEF Gap
    <2> QED BY <1>1, <2>1, <2>2 DEF Ahead
  <1> QED BY <1>2, <1>3

\* A counter moved on by at most the ring's size.
LEMMA Advance ==
    ASSUME NEW c \in 0..Wrap - 1, NEW k \in 0..PIPESIZE
    PROVE  /\ (c + k) % Wrap \in 0..Wrap - 1
           /\ Ahead(c, k, (c + k) % Wrap)
  <1>1. /\ c + k \in Int /\ 0 <= c + k /\ (c + k) - Wrap < Wrap /\ Wrap \in Nat \ {0}
    BY ConstantsOK DEF Constants
  <1>2. CASE c + k < Wrap
    <2>1. (c + k) % Wrap = c + k
      BY <1>1, <1>2, Small, Zenon
    <2> QED BY <1>1, <1>2, <2>1 DEF Ahead
  <1>3. CASE Wrap <= c + k
    <2>1. (c + k) % Wrap = (c + k) - Wrap
      BY <1>1, <1>3, Small, Zenon
    <2> QED BY <1>1, <1>3, <2>1 DEF Ahead
  <1> QED BY <1>1, <1>2, <1>3

\* A gap below Wrap is the one that its counters have.
LEMMA GapIs ==
    ASSUME NEW r \in 0..Wrap - 1, NEW w \in 0..Wrap - 1, NEW g \in 0..Wrap - 1,
           w = r + g \/ w = r + g - Wrap \/ w = r + g + Wrap
    PROVE  Gap(r, w) = g
  <1>1. Wrap \in Nat \ {0}
    BY ConstantsOK, Zenon DEF Constants
  <1>2. Gap(r, w) \in 0..Wrap - 1 /\ (w = r + Gap(r, w) \/ w = r + Gap(r, w) - Wrap)
    BY GapValue, Zenon DEF Ahead
  <1> QED BY <1>1, <1>2

\* The slots as seen from either counter.
LEMMA SlotFrom ==
    ASSUME NEW r \in 0..Wrap - 1, NEW c \in 0..Wrap - 1, NEW k \in Int,
           Ahead(r, k, c), NEW i \in Int
    PROVE  Slot(c, i) = Slot(r, k + i) /\ Slot(c, i) \in 0..PIPESIZE - 1
  <1>1. /\ PIPESIZE \in Nat \ {0} /\ Wrap \in Nat /\ Wrap % PIPESIZE = 0
    BY ConstantsOK, Zenon DEF Constants
  <1>2. r + (k + i) - 1 \in Int /\ c + i - 1 \in Int
    BY <1>1
  <1>3. ((r + (k + i) - 1) - Wrap) % PIPESIZE = (r + (k + i) - 1) % PIPESIZE
    BY <1>1, <1>2, AddMultiple, Zenon
  <1>4. c + i - 1 = r + (k + i) - 1 \/ c + i - 1 = (r + (k + i) - 1) - Wrap
    BY <1>1 DEF Ahead
  <1>5. Slot(c, i) = Slot(r, k + i)
    BY <1>3, <1>4, Zenon DEF Slot
  <1>6. Slot(c, i) \in 0..PIPESIZE - 1
    BY <1>1, <1>2, Quotient DEF Slot
  <1> QED BY <1>5, <1>6, Zenon

LEMMA SlotsApart ==
    ASSUME NEW r \in Int, NEW i \in Int, NEW j \in Int, i < j, j - i < PIPESIZE
    PROVE  Slot(r, i) # Slot(r, j)
  <1>1. PIPESIZE \in Nat \ {0}
    BY ConstantsOK, Zenon DEF Constants
  <1>2. r + i - 1 \in Int /\ j - i \in Int /\ 0 < j - i /\ r + j - 1 = (r + i - 1) + (j - i)
    OBVIOUS
  <1> QED BY <1>1, <1>2, Apart, Zenon DEF Slot

LEMMA RingView ==
    /\ count = Gap(nread, nwrite) /\ count' = Gap(nread', nwrite')
    /\ contents = [i \in 1..count |-> data[Slot(nread, i)]]
    /\ contents' = [i \in 1..count' |-> data'[Slot(nread', i)]]
  BY Zenon DEF count, contents, Gap, Slot

\* What the pipe holds, as a sequence.
LEMMA ContentsSeq ==
    ASSUME RingInv
    PROVE  /\ count \in 0..Wrap - 1 /\ contents \in Seq(Bytes) /\ Len(contents) = count
           /\ \A i \in 1..count : contents[i] = data[Slot(nread, i)]
  <1>1. count \in 0..Wrap - 1
    BY RingView, GapValue, Zenon DEF RingInv
  <1>2. count \in Nat
    BY <1>1, ConstantsOK DEF Constants
  <1>3. \A i \in 1..count : Slot(nread, i) \in 0..PIPESIZE - 1
    BY Quotient, ConstantsOK DEF Slot, RingInv, Constants
  <1>4. \A i \in 1..count : data[Slot(nread, i)] \in Bytes
    BY <1>3, Zenon DEF RingInv
  <1>5. contents \in Seq(Bytes) /\ Len(contents) = count
    BY <1>2, <1>4, RingView
  <1> QED BY <1>1, <1>5, RingView, Zenon

LEMMA SeqIsFunction ==
    ASSUME NEW S, NEW q \in Seq(S), NEW m, Len(q) = m
    PROVE  q = [i \in 1..m |-> q[i]]
  OBVIOUS

\* The bytes of a write go behind what the pipe holds, and over nothing of it.
LEMMA FillRing ==
    ASSUME RingInv, NEW s \in Seq(Bytes), Len(s) <= PIPESIZE - count, Fill(s), UNCHANGED nread
    PROVE  /\ RingInv' /\ count' = count + Len(s) /\ contents' = contents \o s
  <1> DEFINE k == Len(s)
  <1>0. /\ nread \in 0..Wrap - 1 /\ nwrite \in 0..Wrap - 1 /\ count \in 0..Wrap - 1
        /\ count \in Nat /\ k \in Nat /\ k \in 0..PIPESIZE /\ count + k <= PIPESIZE
        /\ count + k \in 0..Wrap - 1 /\ PIPESIZE \in Nat \ {0} /\ Wrap \in Nat
    <2>1. count \in 0..Wrap - 1 /\ k \in Nat
      BY ContentsSeq
    <2>2. PIPESIZE \in Nat \ {0} /\ Wrap \in Nat /\ Wrap > PIPESIZE
      BY ConstantsOK, Zenon DEF Constants
    <2>3. nread \in 0..Wrap - 1 /\ nwrite \in 0..Wrap - 1
      BY Zenon DEF RingInv
    <2> QED BY <2>1, <2>2, <2>3
  <1>1. Ahead(nread, count, nwrite)
    BY <1>0, GapValue, RingView, Zenon
  <1>2. /\ nwrite' \in 0..Wrap - 1
        /\ Ahead(nwrite, k, nwrite')
    BY <1>0, Advance, Zenon DEF Fill
  <1> HIDE DEF k
  <1>3. count' = count + k
    <2>1. \/ nwrite' = nread + (count + k) \/ nwrite' = nread + (count + k) - Wrap
          \/ nwrite' = nread + (count + k) + Wrap
      BY <1>0, <1>1, <1>2 DEF Ahead
    <2>2. Gap(nread, nwrite') = count + k
      BY <1>0, <1>2, <2>1, GapIs, Zenon
    <2> QED BY <2>2, RingView, Zenon
  <1>4. \A i \in 1..k : /\ Slot(nwrite, i) = Slot(nread, count + i)
                        /\ Slot(nwrite, i) \in 0..PIPESIZE - 1
    <2>1. /\ nread \in 0..Wrap - 1 /\ nwrite \in 0..Wrap - 1
          /\ count \in Int /\ \A i \in 1..k : i \in Int
      BY <1>0
    <2> QED BY <1>1, <2>1, SlotFrom, Zenon
  <1>5. ASSUME NEW i \in 1..(count + k), NEW j \in 1..(count + k), i # j
        PROVE  Slot(nread, i) # Slot(nread, j)
    <2>1. CASE i < j
      <3>1. nread \in Int /\ i \in Int /\ j \in Int /\ j - i < PIPESIZE
        BY <1>0
      <3> QED BY <2>1, <3>1, SlotsApart, Zenon
    <2>2. CASE j < i
      <3>1. nread \in Int /\ i \in Int /\ j \in Int /\ i - j < PIPESIZE
        BY <1>0
      <3> QED BY <2>2, <3>1, SlotsApart, Zenon
    <2> QED BY <1>5, <2>1, <2>2
  <1> DEFINE I(j) == {i \in 1..k : Slot(nwrite, i) = j}
  <1>6. data' = [j \in 0..PIPESIZE - 1 |-> IF I(j) = {} THEN data[j] ELSE s[Max(I(j))]]
    BY Zenon DEF Fill, Slot, k
  <1>7. ASSUME NEW i \in 1..k
        PROVE  data'[Slot(nwrite, i)] = s[i] /\ s[i] \in Bytes
    <2>1. \A j \in 1..k : j # i => Slot(nwrite, j) # Slot(nwrite, i)
      <3>1. \A j \in 1..k : count + j \in 1..(count + k) /\ (j # i => count + j # count + i)
        BY <1>0
      <3> QED BY <1>4, <1>5, <3>1, Zenon
    <2>2. I(Slot(nwrite, i)) = {i}
      BY <2>1, Zenon
    <2>3. Max({i}) = i
      <3>1. i >= i
        BY <1>0
      <3> QED BY <3>1, Zenon DEF Max
    <2>4. s[i] \in Bytes
      BY DEF k
    <2> HIDE DEF I
    <2>5. data'[Slot(nwrite, i)] = s[Max(I(Slot(nwrite, i)))]
      BY <1>4, <1>6, <2>2, Zenon
    <2> QED BY <2>2, <2>3, <2>4, <2>5, Zenon
  <1>8. ASSUME NEW j \in 0..PIPESIZE - 1, \A i \in 1..k : Slot(nwrite, i) # j
        PROVE  data'[j] = data[j]
    <2>1. I(j) = {}
      BY <1>8, Zenon
    <2> HIDE DEF I
    <2> QED BY <1>6, <2>1, Zenon
  <1>9. data' \in [0..PIPESIZE - 1 -> Bytes]
    <2>1. ASSUME NEW j \in 0..PIPESIZE - 1 PROVE data'[j] \in Bytes
      <3>1. CASE \E i \in 1..k : Slot(nwrite, i) = j
        BY <1>7, <3>1, Zenon
      <3>2. CASE ~\E i \in 1..k : Slot(nwrite, i) = j
        BY <1>8, <3>2, Zenon DEF RingInv
      <3> QED BY <3>1, <3>2, Zenon
    <2> HIDE DEF I
    <2> QED BY <1>6, <2>1, Zenon
  <1>10. RingInv'
    BY <1>0, <1>2, <1>3, <1>9, Zenon DEF RingInv
  <1>11. ASSUME NEW i \in 1..count
         PROVE  data'[Slot(nread, i)] = contents[i]
    <2>1. Slot(nread, i) \in 0..PIPESIZE - 1
      BY <1>0, Quotient DEF Slot
    <2>2. \A j \in 1..k : i \in 1..(count + k) /\ count + j \in 1..(count + k) /\ i # count + j
      BY <1>0
    <2>3. \A j \in 1..k : Slot(nwrite, j) # Slot(nread, i)
      BY <1>4, <1>5, <2>2, Zenon
    <2>4. data'[Slot(nread, i)] = data[Slot(nread, i)]
      BY <1>8, <2>1, <2>3, Zenon
    <2> QED BY <2>4, ContentsSeq, Zenon
  <1>12. \A i \in 1..k : data'[Slot(nread, count + i)] = s[i]
    BY <1>4, <1>7, Zenon
  <1>13. contents' = [i \in 1..(count + k) |-> data'[Slot(nread, i)]]
    BY <1>3, RingView, Zenon
  <1>14. contents \in Seq(Bytes) /\ Len(contents) = count
    BY ContentsSeq, Zenon
  <1>15. \A i \in 1..(count + k) :
             data'[Slot(nread, i)] = IF i <= count THEN contents[i] ELSE s[i - count]
    <2>1. ASSUME NEW i \in 1..(count + k)
          PROVE  data'[Slot(nread, i)] = IF i <= count THEN contents[i] ELSE s[i - count]
      <3>1. CASE i \in 1..count
        BY <1>0, <1>11, <3>1
      <3>2. CASE i \notin 1..count
        <4>1. i - count \in 1..k /\ i = count + (i - count) /\ ~(i <= count)
          BY <1>0, <3>2
        <4> QED BY <1>12, <4>1, Zenon
      <3> QED BY <3>1, <3>2, Zenon
    <2> QED BY <2>1, Zenon
  <1>16. contents' = [i \in 1..(count + k) |-> IF i <= count THEN contents[i] ELSE s[i - count]]
    BY <1>13, <1>15, Zenon
  <1>17. contents \o s
             = [i \in 1..(count + k) |-> IF i <= count THEN contents[i] ELSE s[i - count]]
    <2>1. contents \o s \in Seq(Bytes) /\ Len(contents \o s) = count + k
      BY <1>0, <1>14, SMTT(40) DEF k
    <2>2. \A i \in 1..(count + k) :
              (contents \o s)[i] = IF i <= count THEN contents[i] ELSE s[i - count]
      BY <1>0, <1>14, SMTT(40) DEF k
    <2>3. contents \o s = [i \in 1..(count + k) |-> (contents \o s)[i]]
      BY <2>1, SeqIsFunction, Zenon
    <2> QED BY <2>2, <2>3, Zenon
  <1> QED BY <1>3, <1>10, <1>16, <1>17, Zenon DEF k

\* The reader's counter moved on by k.
LEMMA Taken ==
    ASSUME NEW a \in 0..Wrap - 1, NEW w \in 0..Wrap - 1, NEW c \in 0..PIPESIZE,
           Ahead(a, c, w), NEW k \in 0..c, NEW r \in 0..Wrap - 1,
           Ahead(a, k, r)
    PROVE  Gap(r, w) = c - k /\ \A i \in 1..(c - k) : Slot(r, i) = Slot(a, k + i)
  <1>1. PIPESIZE \in Nat \ {0} /\ Wrap \in Nat /\ Wrap > PIPESIZE
    BY ConstantsOK, Zenon DEF Constants
  <1>2. /\ c - k \in 0..Wrap - 1 /\ k \in Int
        /\ w = r + (c - k) \/ w = r + (c - k) - Wrap \/ w = r + (c - k) + Wrap
    BY <1>1 DEF Ahead
  <1>3. Gap(r, w) = c - k
    BY <1>2, GapIs, Zenon
  <1>4. ASSUME NEW i \in 1..(c - k) PROVE Slot(r, i) = Slot(a, k + i)
    <2>1. i \in Int
      BY <1>1
    <2> QED BY <1>2, <2>1, SlotFrom, ZenonT(60)
  <1> QED BY <1>3, <1>4, Zenon

\* A read takes the first bytes.
LEMMA DrainRing ==
    ASSUME RingInv, UNCHANGED <<data, nwrite>>, NEW k \in 0..count,
           nread' \in 0..Wrap - 1, Ahead(nread, k, nread')
    PROVE  /\ RingInv' /\ count' = count - k
           /\ contents' = SubSeq(contents, k + 1, Len(contents))
  <1>0. /\ nread \in 0..Wrap - 1 /\ nwrite \in 0..Wrap - 1 /\ count \in 0..PIPESIZE
        /\ count \in Nat /\ k \in Nat /\ k \in 0..PIPESIZE
        /\ PIPESIZE \in Nat \ {0} /\ Wrap \in Nat
        /\ contents \in Seq(Bytes) /\ Len(contents) = count
        /\ \A i \in 1..count : contents[i] = data[Slot(nread, i)]
    <2>1. /\ count \in 0..Wrap - 1 /\ contents \in Seq(Bytes) /\ Len(contents) = count
          /\ \A i \in 1..count : contents[i] = data[Slot(nread, i)]
      BY ContentsSeq, Zenon
    <2>2. PIPESIZE \in Nat \ {0} /\ Wrap \in Nat /\ Wrap > PIPESIZE
      BY ConstantsOK, Zenon DEF Constants
    <2>3. nread \in 0..Wrap - 1 /\ nwrite \in 0..Wrap - 1 /\ count <= PIPESIZE
      BY Zenon DEF RingInv
    <2>4. count \in Nat /\ count \in 0..PIPESIZE /\ k \in Nat /\ k \in 0..PIPESIZE
      BY <2>1, <2>2, <2>3
    <2> QED BY <2>1, <2>2, <2>3, <2>4, Zenon
  <1>1. Ahead(nread, count, nwrite)
    BY <1>0, GapValue, RingView, Zenon
  <1>4. /\ Gap(nread', nwrite) = count - k
        /\ \A i \in 1..(count - k) : Slot(nread', i) = Slot(nread, k + i)
    <2>1. nread \in 0..Wrap - 1 /\ nwrite \in 0..Wrap - 1 /\ count \in 0..PIPESIZE
      BY <1>0, Zenon
    <2> QED BY <1>1, <2>1, Taken
  <1>5. count' = count - k
    BY <1>4, RingView, Zenon
  <1>6. RingInv'
    <2>1. count - k <= PIPESIZE
      BY <1>0
    <2> QED BY <1>5, <2>1, Zenon DEF RingInv
  <1>7. \A i \in 1..(count - k) : data[Slot(nread', i)] = contents[k + i]
    <2>1. \A i \in 1..(count - k) : k + i \in 1..count
      BY <1>0
    <2> QED BY <1>0, <1>4, <2>1, Zenon
  <1>8. contents' = [i \in 1..(count - k) |-> contents[k + i]]
    BY <1>5, <1>7, RingView, Zenon
  <1>9. SubSeq(contents, k + 1, count) = [i \in 1..(count - k) |-> contents[k + i]]
    BY <1>0
  <1> QED BY <1>0, <1>5, <1>6, <1>8, <1>9, Zenon

-----------------------------------------------------------------------------
(* The steps *)

\* A step that leaves the ring alone.
LEMMA RingKept ==
    ASSUME RingInv, UNCHANGED <<data, nread, nwrite>>
    PROVE  RingInv' /\ count' = count /\ contents' = contents
  <1>1. count' = count
    BY Zenon DEF count
  <1>2. contents' = contents
    BY <1>1, Zenon DEF contents
  <1> QED BY <1>1, <1>2, Zenon DEF RingInv

LEMMA Stutters ==
    ASSUME contents' = contents, UNCHANGED <<n, got, writeopen>>
    PROVE  [ST!Next]_(ST!vars)
  BY Zenon DEF ST!vars

\* No end is opened or closed and no process starts to read or write.
LEMMA UsesKept ==
    ASSUME EndsInv, UseInv, UNCHANGED <<readopen, writeopen, freed, fds, killed>>,
           \A q \in Procs : Reading(q)' => Reading(q),
           \A q \in Procs : Writing(q)' => Writing(q)
    PROVE  EndsInv' /\ UseInv'
  BY Zenon DEF EndsInv, UseInv

LEMMA MinOfTwo ==
    ASSUME NEW a \in Nat, NEW c \in Nat
    PROVE  Min({a, c}) = IF a <= c THEN a ELSE c
  <1>1. CASE a <= c
    <2>1. a \in {a, c} /\ \A y \in {a, c} : a <= y
      BY <1>1
    <2>2. \A x \in {a, c} : (\A y \in {a, c} : x <= y) => x = a
      BY <1>1
    <2>3. Min({a, c}) \in {a, c} /\ \A y \in {a, c} : Min({a, c}) <= y
      BY <2>1, Zenon DEF Min
    <2> QED BY <1>1, <2>2, <2>3, Zenon
  <1>2. CASE ~(a <= c)
    <2>1. c \in {a, c} /\ \A y \in {a, c} : c <= y
      BY <1>2
    <2>2. \A x \in {a, c} : (\A y \in {a, c} : x <= y) => x = c
      BY <1>2, Zenon
    <2>3. Min({a, c}) \in {a, c} /\ \A y \in {a, c} : Min({a, c}) <= y
      BY <2>1, Zenon DEF Min
    <2> QED BY <1>2, <2>2, <2>3, Zenon
  <1> QED BY <1>1, <1>2, Zenon

LEMMA CallWriteStep ==
    ASSUME IInv, NEW p \in Procs, NEW s \in Payloads, CallWrite(p, s)
    PROVE  IInv' /\ [ST!Next]_(ST!vars)
  <1>1. /\ pc[p] = "user" /\ pc'[p] = "write" /\ \A q \in Procs : q # p => pc'[q] = pc[q]
        /\ "w" \in fds[p] /\ ~killed[p] /\ s \in Seq(Bytes)
        /\ UNCHANGED <<pipeVars, fds, n, got, sigkill, killed>>
        /\ pc' \in [Procs -> {"user", "ret", "read", "write", "rsleep", "wsleep"}]
    BY PipeAssumption, Zenon DEF CallWrite, Goto, IInv, CallInv
  <1>2. RingInv' /\ count' = count /\ contents' = contents
    BY <1>1, RingKept, Zenon DEF IInv, pipeVars
  <1>3. CallInv'
    <2>1. left' \in [Procs -> Seq(Bytes)]
      BY <1>1, Zenon DEF CallWrite, IInv, CallInv
    <2>2. \A q \in Procs : pc'[q] # "ret" => got'[q] = {}
      BY <1>1, Zenon DEF IInv, CallInv
    <2> QED BY <1>1, <2>1, <2>2, Zenon DEF IInv, CallInv
  <1>4. EndsInv'
    BY <1>1, Zenon DEF IInv, EndsInv, pipeVars
  <1>5. UseInv'
    BY <1>1, Zenon DEF IInv, UseInv, Reading, Writing
  <1>6. SleepersBlocked'
    BY <1>1, <1>2, Zenon DEF IInv, SleepersBlocked, pipeVars
  <1> QED BY <1>1, <1>2, <1>3, <1>4, <1>5, <1>6, Stutters, Zenon DEF IInv, pipeVars

LEMMA CallReadStep ==
    ASSUME IInv, NEW p \in Procs, NEW k \in Sizes, CallRead(p, k)
    PROVE  IInv' /\ [ST!Next]_(ST!vars)
  <1>1. /\ pc[p] = "user" /\ pc'[p] = "read" /\ \A q \in Procs : q # p => pc'[q] = pc[q]
        /\ "r" \in fds[p] /\ ~killed[p] /\ n' = [n EXCEPT ![p] = k]
        /\ UNCHANGED <<pipeVars, fds, left, got, sigkill, killed>>
        /\ pc' \in [Procs -> {"user", "ret", "read", "write", "rsleep", "wsleep"}]
    BY Zenon DEF CallRead, Goto, IInv, CallInv
  <1>2. RingInv' /\ count' = count /\ contents' = contents
    BY <1>1, RingKept, Zenon DEF IInv, pipeVars
  <1>3. CallInv'
    <2>1. n' \in [Procs -> Sizes \cup {0}] /\ \A q \in Procs : q # p => n'[q] = n[q]
      BY <1>1, Zenon DEF IInv, CallInv
    <2>2. \A q \in Procs : pc'[q] # "ret" => got'[q] = {}
      BY <1>1, Zenon DEF IInv, CallInv
    <2>3. \A q \in Procs : \A s \in got'[q] : Len(s) <= n'[q]
      BY <1>1, <2>1, <2>2, Zenon DEF IInv, CallInv
    <2> QED BY <1>1, <2>1, <2>2, <2>3, Zenon DEF IInv, CallInv
  <1>4. EndsInv'
    BY <1>1, Zenon DEF IInv, EndsInv, pipeVars
  <1>5. UseInv'
    BY <1>1, Zenon DEF IInv, UseInv, Reading, Writing
  <1>6. SleepersBlocked'
    BY <1>1, <1>2, Zenon DEF IInv, SleepersBlocked, pipeVars
  <1>7. ST!Ask(p)
    BY <1>1, <1>2, Zenon DEF ST!Ask, pipeVars
  <1>8. [ST!Next]_(ST!vars)
    BY <1>7, Zenon DEF ST!Next
  <1> QED BY <1>2, <1>3, <1>4, <1>5, <1>6, <1>8, Zenon DEF IInv

LEMMA pipereadSleepStep ==
    ASSUME IInv, NEW p \in Procs, pipereadSleep(p)
    PROVE  IInv' /\ [ST!Next]_(ST!vars)
  <1>0. pc[p] = "read" /\ ~killed[p]
    BY Zenon DEF IInv, UseInv, Reading, pipereadSleep
  <1>1. /\ pc'[p] = "rsleep" /\ \A q \in Procs : q # p => pc'[q] = pc[q]
        /\ count = 0 /\ writeopen
        /\ UNCHANGED <<pipeVars, fds, left, n, got, sigkill, killed>>
        /\ pc' \in [Procs -> {"user", "ret", "read", "write", "rsleep", "wsleep"}]
    BY <1>0, Zenon DEF pipereadSleep, Goto, IInv, CallInv
  <1>2. RingInv' /\ count' = count /\ contents' = contents
    BY <1>1, RingKept, Zenon DEF IInv, pipeVars
  <1>3. CallInv'
    <2>1. \A q \in Procs : pc'[q] # "ret" => got'[q] = {}
      BY <1>0, <1>1, Zenon DEF IInv, CallInv
    <2> QED BY <1>1, <2>1, Zenon DEF IInv, CallInv
  <1>4. EndsInv' /\ UseInv'
    BY <1>0, <1>1, UsesKept, Zenon DEF IInv, pipeVars, Reading, Writing
  <1>5. SleepersBlocked'
    BY <1>1, <1>2, Zenon DEF IInv, SleepersBlocked, pipeVars
  <1> QED BY <1>1, <1>2, <1>3, <1>4, <1>5, Stutters, Zenon DEF IInv, pipeVars

LEMMA KillStep ==
    ASSUME IInv, NEW p \in Procs, Kill(p)
    PROVE  IInv' /\ [ST!Next]_(ST!vars)
  <1>1. /\ UNCHANGED <<pipeVars, fds, pc, left, n, got, killed>>
        /\ sigkill' \in [Procs -> BOOLEAN]
    BY Zenon DEF Kill, IInv, CallInv
  <1>2. RingInv' /\ count' = count /\ contents' = contents
    BY <1>1, RingKept, Zenon DEF IInv, pipeVars
  <1>3. CallInv'
    BY <1>1, Zenon DEF IInv, CallInv
  <1>4. EndsInv' /\ UseInv'
    BY <1>1, UsesKept, Zenon DEF IInv, pipeVars, Reading, Writing
  <1>5. SleepersBlocked'
    BY <1>1, <1>2, Zenon DEF IInv, SleepersBlocked, pipeVars
  <1> QED BY <1>1, <1>2, <1>3, <1>4, <1>5, Stutters, Zenon DEF IInv, pipeVars

LEMMA handle_signalsStep ==
    ASSUME IInv, NEW p \in Procs, handle_signals(p)
    PROVE  IInv' /\ [ST!Next]_(ST!vars)
  <1>1. /\ pc'[p] = "user" /\ \A q \in Procs : q # p => pc'[q] = pc[q] /\ killed'[q] = killed[q]
        /\ UNCHANGED <<pipeVars, fds, sigkill>>
        /\ n' = [n EXCEPT ![p] = 0] /\ got' = [got EXCEPT ![p] = {}]
        /\ pc' \in [Procs -> {"user", "ret", "read", "write", "rsleep", "wsleep"}]
        /\ killed' \in [Procs -> BOOLEAN]
    BY Zenon DEF handle_signals, Goto, IInv, CallInv
  <1>2. RingInv' /\ count' = count /\ contents' = contents
    BY <1>1, RingKept, Zenon DEF IInv, pipeVars
  <1>3. CallInv'
    <2>1. left' \in [Procs -> Seq(Bytes)]
      BY DEF handle_signals, IInv, CallInv
    <2>2. /\ n' \in [Procs -> Sizes \cup {0}] /\ \A q \in Procs : q # p => n'[q] = n[q]
          /\ got' \in [Procs -> SUBSET Seq(Bytes)] /\ got'[p] = {}
          /\ \A q \in Procs : q # p => got'[q] = got[q]
      BY <1>1, Zenon DEF IInv, CallInv
    <2>3. \A q \in Procs : \A s \in got'[q] : Len(s) <= n'[q]
      BY <2>2, Zenon DEF IInv, CallInv
    <2>4. \A q \in Procs : pc'[q] # "ret" => got'[q] = {}
      BY <1>1, <2>2, ZenonT(60) DEF IInv, CallInv
    <2> QED BY <1>1, <2>1, <2>2, <2>3, <2>4, Zenon DEF IInv, CallInv
  <1>4. EndsInv'
    BY <1>1, Zenon DEF IInv, EndsInv, pipeVars
  <1>5. UseInv'
    BY <1>1, Zenon DEF IInv, UseInv, Reading, Writing
  <1>6. SleepersBlocked'
    BY <1>1, <1>2, Zenon DEF IInv, SleepersBlocked, pipeVars
  <1>7. ST!Consume(p)
    BY <1>1, <1>2, Zenon DEF ST!Consume, pipeVars
  <1>8. [ST!Next]_(ST!vars)
    BY <1>7, Zenon DEF ST!Next
  <1> QED BY <1>2, <1>3, <1>4, <1>5, <1>6, <1>8, Zenon DEF IInv

\* A writer that goes to sleep has filled the ring, and every reader is awake.
LEMMA pipewriteStep ==
    ASSUME IInv, NEW p \in Procs, pipewrite(p)
    PROVE  IInv' /\ [ST!Next]_(ST!vars)
  <1> DEFINE m == Len(left[p])
             k == Min({m, PIPESIZE - count})
             s == SubSeq(left[p], 1, k)
  <1>0. /\ pc[p] = "write" /\ ~killed[p] /\ writeopen
        /\ UNCHANGED <<nread, readopen, writeopen, freed, fds, n, got, sigkill, killed>>
        /\ pc \in [Procs -> {"user", "ret", "read", "write", "rsleep", "wsleep"}]
    BY Zenon DEF pipewrite, IInv, CallInv, UseInv, Writing, EndsInv
  <1>1. /\ left[p] \in Seq(Bytes) /\ m \in Nat /\ PIPESIZE - count \in Nat
        /\ count \in Nat /\ Len(contents) = count /\ contents \in Seq(Bytes) /\ PIPESIZE \in Nat
    <2>1. count \in 0..Wrap - 1 /\ contents \in Seq(Bytes) /\ Len(contents) = count
      BY ContentsSeq, Zenon DEF IInv
    <2>2. left[p] \in Seq(Bytes) /\ m \in Nat
      BY DEF IInv, CallInv
    <2>3. count <= PIPESIZE
      BY Zenon DEF IInv, RingInv
    <2>4. PIPESIZE \in Nat /\ Wrap \in Nat
      BY ConstantsOK, Zenon DEF Constants
    <2> QED BY <2>1, <2>2, <2>3, <2>4
  <1>2. k = IF m <= PIPESIZE - count THEN m ELSE PIPESIZE - count
    BY <1>1, MinOfTwo, Zenon
  <1>3. Fill(s) /\ left' = [left EXCEPT ![p] = SubSeq(left[p], k + 1, m)]
    BY Zenon DEF pipewrite
  <1> HIDE DEF k
  <1>4. k \in Nat /\ k <= PIPESIZE - count /\ k <= m /\ (k # m => k = PIPESIZE - count)
    BY <1>1, <1>2
  <1>5. s \in Seq(Bytes) /\ Len(s) = k
    BY <1>1, <1>4
  <1>6. /\ SubSeq(left[p], k + 1, m) \in Seq(Bytes)
        /\ Len(SubSeq(left[p], k + 1, m)) = m - k
    BY <1>1, <1>4, SMTT(40)
  <1> HIDE DEF s
  <1>7. RingInv' /\ count' = count + k /\ contents' = contents \o s
    BY <1>0, <1>3, <1>4, <1>5, FillRing, Zenon DEF IInv
  <1>8. left' \in [Procs -> Seq(Bytes)] /\ left'[p] = SubSeq(left[p], k + 1, m)
    BY <1>3, <1>6, Zenon DEF IInv, CallInv
  <1>9. left'[p] # <<>> => count' = PIPESIZE
    <2>1. left'[p] # <<>> => k # m
      BY <1>1, <1>4, <1>6, <1>8
    <2> QED BY <1>1, <1>4, <1>7, <2>1, SMTT(40)
  <1>10. /\ pc' \in [Procs -> {"user", "ret", "read", "write", "rsleep", "wsleep"}]
         /\ \/ pc'[p] = "ret"
            \/ (pc'[p] = "wsleep" /\ left'[p] # <<>> /\ readopen)
         /\ \A q \in Procs : q # p => pc'[q] = pc[q] \/ (pc[q] = "rsleep" /\ pc'[q] = "read")
    BY <1>0, Zenon DEF pipewrite, WakeupGoto, Goto
  <1>11. \A q \in Procs : pc'[q] # "rsleep"
    <2>1. CASE left'[p] = <<>> \/ readopen
      BY <1>0, <2>1, Zenon DEF pipewrite, WakeupGoto
    <2>2. CASE ~readopen
      <3>1. \A q \in Procs : pc[q] # "rsleep"
        BY <2>2, Zenon DEF IInv, EndsInv, UseInv, Reading
      <3> QED BY <1>10, <3>1, Zenon
    <2> QED BY <2>1, <2>2, Zenon
  <1>12. CallInv'
    <2>1. \A q \in Procs : pc'[q] # "ret" => got'[q] = {}
      BY <1>0, <1>10, Zenon DEF IInv, CallInv
    <2> QED BY <1>0, <1>8, <1>10, <2>1, Zenon DEF IInv, CallInv
  <1>13. EndsInv' /\ UseInv'
    BY <1>0, <1>10, UsesKept, Zenon DEF IInv, Reading, Writing
  <1>14. SleepersBlocked'
    <2>1. ASSUME NEW q \in Procs, pc'[q] = "wsleep" PROVE count' = PIPESIZE /\ readopen'
      <3>1. CASE q = p
        BY <1>0, <1>9, <1>10, <2>1, <3>1, Zenon
      <3>2. CASE q # p
        <4>1. pc[q] = "wsleep"
          BY <1>10, <2>1, <3>2, Zenon
        <4>2. count = PIPESIZE /\ readopen
          BY <4>1, Zenon DEF IInv, SleepersBlocked
        <4>3. k = 0
          BY <1>1, <1>4, <4>2
        <4> QED BY <1>0, <1>1, <1>7, <4>2, <4>3
      <3> QED BY <3>1, <3>2, Zenon
    <2> QED BY <1>11, <2>1, Zenon DEF SleepersBlocked
  <1>15. [ST!Next]_(ST!vars)
    <2>1. CASE k = 0
      <3>1. contents' = contents
        BY <1>1, <1>5, <1>7, <2>1
      <3> QED BY <1>0, <3>1, Stutters, Zenon
    <2>2. CASE k # 0
      <3>1. k \in 1..PIPESIZE - Len(contents) /\ s \in [1..k -> Bytes]
        BY <1>1, <1>4, <1>5, <2>2, SMTT(40)
      <3>2. ST!Put
        BY <1>0, <1>7, <3>1, Zenon DEF ST!Put
      <3> QED BY <3>2, Zenon DEF ST!Next
    <2> QED BY <2>1, <2>2, Zenon
  <1> QED BY <1>7, <1>12, <1>13, <1>14, <1>15, Zenon DEF IInv

\* A read leaves no writer asleep, and finds no reader asleep.
LEMMA pipereadStep ==
    ASSUME IInv, NEW p \in Procs, piperead(p)
    PROVE  IInv' /\ [ST!Next]_(ST!vars)
  <1> DEFINE k == Min({n[p], count})
  <1>0. /\ pc[p] = "read" /\ (count = 0 => ~writeopen)
        /\ UNCHANGED <<data, nwrite, readopen, writeopen, freed, fds, left, n, sigkill, killed>>
        /\ pc' \in [Procs -> {"user", "ret", "read", "write", "rsleep", "wsleep"}]
        /\ pc'[p] = "ret"
        /\ \A q \in Procs : q # p => \/ (pc'[q] = pc[q] /\ pc[q] # "wsleep")
                                     \/ (pc[q] = "wsleep" /\ pc'[q] = "write")
    BY Zenon DEF piperead, WakeupGoto, IInv, CallInv
  <1>1. /\ count \in Nat /\ count <= PIPESIZE /\ Len(contents) = count
        /\ contents \in Seq(Bytes) /\ n[p] \in Nat /\ nread \in 0..Wrap - 1
    <2>1. count \in 0..Wrap - 1 /\ contents \in Seq(Bytes) /\ Len(contents) = count
      BY ContentsSeq, Zenon DEF IInv
    <2>2. count <= PIPESIZE /\ nread \in 0..Wrap - 1
      BY Zenon DEF IInv, RingInv
    <2>3. n[p] \in Nat
      <3>1. Sizes \cup {0} \subseteq Nat
        BY PipeAssumption
      <3>2. n[p] \in Sizes \cup {0}
        BY Zenon DEF IInv, CallInv
      <3> QED BY <3>1, <3>2, Zenon
    <2>4. Wrap \in Nat
      BY ConstantsOK, Zenon DEF Constants
    <2> QED BY <2>1, <2>2, <2>3, <2>4
  <1>2. k = IF n[p] <= count THEN n[p] ELSE count
    BY <1>1, MinOfTwo, Zenon
  <1>3. nread' = (nread + k) % Wrap /\ got' = [got EXCEPT ![p] = {SubSeq(contents, 1, k)}]
    BY Zenon DEF piperead
  <1> HIDE DEF k
  <1>4. k \in Nat /\ k \in 0..count /\ k <= n[p] /\ k \in 0..PIPESIZE
    <2>1. PIPESIZE \in Nat
      BY ConstantsOK, Zenon DEF Constants
    <2> QED BY <1>1, <1>2, <2>1
  <1>5. nread' \in 0..Wrap - 1 /\ Ahead(nread, k, nread')
    BY <1>1, <1>3, <1>4, Advance, Zenon
  <1>6. /\ RingInv' /\ count' = count - k
        /\ contents' = SubSeq(contents, k + 1, Len(contents))
    BY <1>0, <1>4, <1>5, DrainRing, Zenon DEF IInv
  <1>7. SubSeq(contents, 1, k) \in Seq(Bytes) /\ Len(SubSeq(contents, 1, k)) = k
    BY <1>1, <1>4
  <1>8. CallInv'
    <2>1. /\ got' \in [Procs -> SUBSET Seq(Bytes)] /\ got'[p] = {SubSeq(contents, 1, k)}
          /\ \A q \in Procs : q # p => got'[q] = got[q]
      BY <1>3, <1>7, Zenon DEF IInv, CallInv
    <2>2. \A q \in Procs : \A s \in got'[q] : Len(s) <= n'[q]
      <3>1. \A s \in got'[p] : Len(s) <= n'[p]
        BY <1>0, <1>4, <1>7, <2>1, Zenon
      <3>2. \A q \in Procs : q # p => \A s \in got'[q] : Len(s) <= n'[q]
        BY <1>0, <2>1, Zenon DEF IInv, CallInv
      <3> QED BY <3>1, <3>2, Zenon
    <2>3. \A q \in Procs : pc'[q] # "ret" => got'[q] = {}
      BY <1>0, <2>1, ZenonT(60) DEF IInv, CallInv
    <2> QED BY <1>0, <2>1, <2>2, <2>3, Zenon DEF IInv, CallInv
  <1>9. EndsInv' /\ UseInv'
    BY <1>0, UsesKept, Zenon DEF IInv, Reading, Writing
  <1>10. SleepersBlocked'
    <2>1. \A q \in Procs : pc[q] # "rsleep"
      BY <1>0, Zenon DEF IInv, SleepersBlocked
    <2>2. \A q \in Procs : pc'[q] # "rsleep" /\ pc'[q] # "wsleep"
      BY <1>0, <2>1, Zenon
    <2> QED BY <2>2, Zenon DEF SleepersBlocked
  <1>11. [ST!Next]_(ST!vars)
    <2>1. CASE count = 0
      <3>1. contents = <<>> /\ contents' = contents /\ SubSeq(contents, 1, k) = <<>>
        BY <1>1, <1>4, <1>6, <2>1
      <3>2. ST!EndOfFile(p)
        BY <1>0, <1>3, <2>1, <3>1, Zenon DEF ST!EndOfFile
      <3> QED BY <3>2, Zenon DEF ST!Next
    <2>2. CASE count # 0
      <3>1. contents # <<>> /\ k = IF n[p] < Len(contents) THEN n[p] ELSE Len(contents)
        BY <1>1, <1>2, <2>2
      <3>2. ST!Get(p)
        BY <1>0, <1>3, <1>6, <3>1, Zenon DEF ST!Get
      <3> QED BY <3>2, Zenon DEF ST!Next
    <2> QED BY <2>1, <2>2, Zenon
  <1> QED BY <1>6, <1>8, <1>9, <1>10, <1>11, Zenon DEF IInv

\* Whoever sleeps at an end has a descriptor of it: the last close of an end
\* finds sleepers at the other end only, and wakes them.
LEMMA CloseStep ==
    ASSUME IInv, NEW p \in Procs, NEW e \in {"r", "w"}, Close(p, e)
    PROVE  IInv' /\ [ST!Next]_(ST!vars)
  <1>0. /\ UNCHANGED <<data, nread, nwrite, left, n, got, sigkill, killed>>
        /\ pc[p] = "user" /\ e \in fds[p]
        /\ fds \in [Procs -> SUBSET {"r", "w"}] /\ fds' = [fds EXCEPT ![p] = fds[p] \ {e}]
        /\ pc \in [Procs -> {"user", "ret", "read", "write", "rsleep", "wsleep"}]
    BY Zenon DEF Close, pipeclose, pipeVars, IInv, CallInv
  <1>1. /\ fds' \in [Procs -> SUBSET {"r", "w"}]
        /\ \A q \in Procs : q # p => fds'[q] = fds[q]
        /\ \A f \in {"r", "w"} : f # e => (f \in fds'[p] <=> f \in fds[p])
    BY <1>0, Zenon
  <1>2. RingInv' /\ count' = count /\ contents' = contents
    BY <1>0, RingKept, Zenon DEF IInv
  <1>3. CASE \E q \in Procs : e \in fds'[q]
    <2>1. UNCHANGED <<readopen, writeopen, freed, pc>>
      BY <1>3, Zenon DEF Close, pipeVars
    <2>2. CallInv'
      BY <1>0, <1>1, <2>1, Zenon DEF IInv, CallInv
    <2>3. \A f \in {"r", "w"} : (\E q \in Procs : f \in fds'[q]) <=> \E q \in Procs : f \in fds[q]
      BY <1>0, <1>1, <1>3, ZenonT(60)
    <2>4. EndsInv'
      BY <2>1, <2>3, Zenon DEF IInv, EndsInv
    <2>5. UseInv'
      BY <1>0, <1>1, <2>1, Zenon DEF IInv, UseInv, Reading, Writing
    <2>6. SleepersBlocked'
      BY <1>2, <2>1, Zenon DEF IInv, SleepersBlocked
    <2> QED BY <1>0, <1>2, <2>1, <2>2, <2>4, <2>5, <2>6, Stutters, Zenon DEF IInv
  <1>4. CASE ~\E q \in Procs : e \in fds'[q]
    <2>1. /\ readopen' = (readopen /\ e # "r") /\ writeopen' = (writeopen /\ e # "w")
          /\ freed' = ~(readopen' \/ writeopen')
          /\ WakeupGoto(p, pc[p], IF e = "w" THEN "rsleep" ELSE "wsleep",
                                  IF e = "w" THEN "read" ELSE "write")
      BY <1>4, Zenon DEF Close, pipeclose
    <2>2. /\ pc' \in [Procs -> {"user", "ret", "read", "write", "rsleep", "wsleep"}]
          /\ pc'[p] = "user"
          /\ \A q \in Procs : \/ pc'[q] = pc[q]
                              \/ (pc[q] = "rsleep" /\ pc'[q] = "read")
                              \/ (pc[q] = "wsleep" /\ pc'[q] = "write")
          /\ e = "w" => \A q \in Procs : pc'[q] # "rsleep"
          /\ e = "r" => \A q \in Procs : pc'[q] # "wsleep"
      BY <1>0, <2>1, Zenon DEF WakeupGoto
    <2>3. CallInv'
      <3>1. \A q \in Procs : pc'[q] # "ret" => got'[q] = {}
        BY <1>0, <2>2, Zenon DEF IInv, CallInv
      <3> QED BY <1>0, <1>1, <2>2, <3>1, Zenon DEF IInv, CallInv
    <2>4. \A f \in {"r", "w"} : (\E q \in Procs : f \in fds'[q])
                                    <=> f # e /\ \E q \in Procs : f \in fds[q]
      BY <1>0, <1>1, <1>4, ZenonT(60)
    <2>5. EndsInv'
      BY <2>1, <2>4, Zenon DEF IInv, EndsInv
    <2>6. UseInv'
      BY <1>0, <1>1, <2>2, Zenon DEF IInv, UseInv, Reading, Writing
    <2>7. SleepersBlocked'
      <3>1. \A q \in Procs : /\ pc'[q] = "rsleep" => e # "w" /\ pc[q] = "rsleep"
                             /\ pc'[q] = "wsleep" => e # "r" /\ pc[q] = "wsleep"
        BY <2>2, Zenon
      <3>2. \A q \in Procs : /\ pc[q] = "rsleep" => count = 0 /\ writeopen
                             /\ pc[q] = "wsleep" => count = PIPESIZE /\ readopen
        BY Zenon DEF IInv, SleepersBlocked
      <3> QED BY <1>2, <2>1, <3>1, <3>2, Zenon DEF SleepersBlocked
    <2>8. [ST!Next]_(ST!vars)
      <3>1. CASE e = "w"
        <4>1. ST!Close
          BY <1>0, <1>2, <2>1, <3>1, Zenon DEF ST!Close
        <4> QED BY <4>1, Zenon DEF ST!Next
      <3>2. CASE e = "r"
        <4>1. writeopen' = writeopen
          BY <2>1, <3>2, Zenon DEF IInv, EndsInv
        <4> QED BY <1>0, <1>2, <4>1, Stutters, Zenon
      <3> QED BY <3>1, <3>2, Zenon
    <2> QED BY <1>2, <2>3, <2>5, <2>6, <2>7, <2>8, Zenon DEF IInv
  <1> QED BY <1>3, <1>4, Zenon

LEMMA ForkStep ==
    ASSUME IInv, NEW p \in Procs, NEW q \in Procs, Fork(p, q)
    PROVE  IInv' /\ [ST!Next]_(ST!vars)
  <1>1. /\ pc[q] = "user" /\ fds[q] = {}
        /\ fds \in [Procs -> SUBSET {"r", "w"}] /\ fds' = [fds EXCEPT ![q] = fds[p]]
        /\ UNCHANGED <<data, nread, nwrite, readopen, writeopen, freed, pc, left, n, got,
                       sigkill, killed>>
    BY Zenon DEF Fork, IInv, CallInv, pipeVars
  <1>2. /\ fds' \in [Procs -> SUBSET {"r", "w"}] /\ fds'[q] = fds[p]
        /\ \A z \in Procs : z # q => fds'[z] = fds[z]
    BY <1>1, Zenon
  <1>3. RingInv' /\ count' = count /\ contents' = contents
    BY <1>1, RingKept, Zenon DEF IInv
  <1>4. CallInv'
    BY <1>1, <1>2, Zenon DEF IInv, CallInv
  <1>5. \A f : (\E z \in Procs : f \in fds'[z]) <=> \E z \in Procs : f \in fds[z]
    BY <1>1, <1>2, Zenon
  <1>6. EndsInv'
    BY <1>1, <1>5, Zenon DEF IInv, EndsInv
  <1>7. UseInv'
    BY <1>1, <1>2, Zenon DEF IInv, UseInv, Reading, Writing
  <1>8. SleepersBlocked'
    BY <1>1, <1>3, Zenon DEF IInv, SleepersBlocked
  <1> QED BY <1>1, <1>3, <1>4, <1>6, <1>7, <1>8, Stutters, Zenon DEF IInv

-----------------------------------------------------------------------------
(* The theorems *)

LEMMA InitHolds ==
    ASSUME Init PROVE IInv /\ ST!Init
  <1>0. PIPESIZE \in Nat \ {0} /\ Wrap \in Nat \ {0}
    BY ConstantsOK, Zenon DEF Constants
  <1>1. nread = 0 /\ nwrite = 0 /\ 0 \in 0..Wrap - 1
    BY <1>0 DEF Init
  <1>2. count = 0
    <2>1. 0 = 0 + 0
      OBVIOUS
    <2> QED BY <1>1, <2>1, GapIs, RingView, Zenon
  <1>3. RingInv
    BY <1>0, <1>1, <1>2 DEF Init, RingInv
  <1>4. CallInv
    <2>1. fds \in [Procs -> SUBSET {"r", "w"}]
      BY Zenon DEF Init
    <2>2. /\ pc \in [Procs -> {"user", "ret", "read", "write", "rsleep", "wsleep"}]
          /\ n \in [Procs -> Sizes \cup {0}] /\ got \in [Procs -> SUBSET Seq(Bytes)]
          /\ \A p \in Procs : got[p] = {}
          /\ sigkill \in [Procs -> BOOLEAN] /\ killed \in [Procs -> BOOLEAN]
      BY Zenon DEF Init
    <2>3. left \in [Procs -> Seq(Bytes)]
      BY DEF Init
    <2> QED BY <2>1, <2>2, <2>3, Zenon DEF CallInv
  <1>5. EndsInv
    <2>1. \E p \in Procs : "r" \in fds[p] /\ "w" \in fds[p]
      BY Zenon DEF Init
    <2>2. readopen = TRUE /\ writeopen = TRUE /\ freed = FALSE
      BY Zenon DEF Init
    <2> QED BY <2>1, <2>2, Zenon DEF EndsInv
  <1>6. UseInv /\ SleepersBlocked
    <2>1. \A p \in Procs : pc[p] = "user"
      BY Zenon DEF Init
    <2> QED BY <2>1, Zenon DEF UseInv, SleepersBlocked, Reading, Writing
  <1>7. contents = <<>>
    BY <1>2, <1>3, ContentsSeq
  <1>8. ST!Init
    BY <1>7, Zenon DEF Init, ST!Init
  <1> QED BY <1>3, <1>4, <1>5, <1>6, <1>8, Zenon DEF IInv

LEMMA NextHolds ==
    ASSUME IInv, [Next]_vars PROVE IInv' /\ [ST!Next]_(ST!vars)
  <1>1. CASE Next
    <2> PICK p \in Procs : Kernel(p) \/ User(p) \/ Kill(p)
      BY <1>1, Zenon DEF Next
    <2>1. CASE Kernel(p)
      BY <2>1, pipewriteStep, pipereadStep, pipereadSleepStep, handle_signalsStep, Zenon DEF Kernel
    <2>2. CASE User(p)
      BY <2>2, CallReadStep, CallWriteStep, CloseStep, ForkStep, Zenon DEF User
    <2>3. CASE Kill(p)
      BY <2>3, KillStep, Zenon
    <2> QED BY <2>1, <2>2, <2>3, Zenon
  <1>2. CASE UNCHANGED vars
    <2>1. /\ UNCHANGED <<data, nread, nwrite, readopen, writeopen, freed>>
          /\ UNCHANGED <<fds, pc, left, n, got, sigkill, killed>>
      BY <1>2, Zenon DEF vars, pipeVars
    <2>2. RingInv' /\ count' = count /\ contents' = contents
      BY <2>1, RingKept, Zenon DEF IInv
    <2>3. CallInv'
      BY <2>1, Zenon DEF IInv, CallInv
    <2>4. EndsInv' /\ UseInv'
      BY <2>1, UsesKept, Zenon DEF IInv, Reading, Writing
    <2>5. SleepersBlocked'
      BY <2>1, <2>2, Zenon DEF IInv, SleepersBlocked
    <2> QED BY <2>1, <2>2, <2>3, <2>4, <2>5, Stutters, Zenon DEF IInv
  <1> QED BY <1>1, <1>2, Zenon

\* Every reachable state of the pipe satisfies the inductive invariant.
THEOREM PipeInductive == Spec => []IInv
  <1>1. Init => IInv
    BY InitHolds, Zenon
  <1>2. IInv /\ [Next]_vars => IInv'
    BY NextHolds, Zenon
  <1> QED BY <1>1, <1>2, PTL DEF Spec

\* For any number of processes, any ring size that divides the counters' range
\* and any reads and writes: the counters never differ by more than the ring's
\* size; a reader sleeps in piperead() only while the pipe is empty and a
\* writer holds it, a writer in pipewrite() only while it is full and a reader
\* holds it; and pipeclose() frees the page at the last close, never earlier.
THEOREM PipeSafe == Spec => []Inv
  <1>1. IInv => Inv
    <2> SUFFICES ASSUME IInv PROVE Inv
      OBVIOUS
    <2>1. TypeOK
      <3>1. /\ data \in [0..PIPESIZE - 1 -> Bytes] /\ {nread, nwrite} \subseteq 0..Wrap - 1
            /\ count <= PIPESIZE
        BY Zenon DEF IInv, RingInv
      <3>2. {readopen, writeopen, freed} \subseteq BOOLEAN
        BY Zenon DEF IInv, EndsInv
      <3>3. \A p \in Procs : left[p] \in Seq(Bytes)
        BY Zenon DEF IInv, CallInv
      <3>4. \A p \in Procs : \A s \in got[p] : s \in Seq(Bytes) /\ Len(s) <= n[p]
        BY Zenon DEF IInv, CallInv
      <3>5. {sigkill, killed} \subseteq [Procs -> BOOLEAN]
        BY Zenon DEF IInv, CallInv
      <3> QED BY <3>1, <3>2, <3>3, <3>4, <3>5, Zenon DEF IInv, CallInv, TypeOK
    <2>2. FreedAtLastClose
      BY SMTT(40) DEF IInv, CallInv, EndsInv, FreedAtLastClose
    <2> QED BY <2>1, <2>2, Zenon DEF IInv, Inv
  <1> QED BY <1>1, PipeInductive, PTL

\* The ring in `data' with its wrapping counters is a first-in first-out stream:
\* no byte is lost, overwritten, duplicated or reordered, a read returns what it
\* asked for or all there is, and piperead() finds the pipe empty and returns
\* only after the last writer has closed.
THEOREM PipeIsStream == Spec => ImplementsStream
  <1>1. Init => ST!Init
    BY InitHolds, Zenon
  <1>2. IInv /\ [Next]_vars => [ST!Next]_(ST!vars)
    BY NextHolds, Zenon
  <1> QED BY <1>1, <1>2, PipeInductive, PTL DEF Spec, ImplementsStream, ST!Spec
=============================================================================
