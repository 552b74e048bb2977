------------------------------ MODULE Console ------------------------------
(***************************************************************************)
(* The console: the device behind readi() and writei() of an inode of type *)
(* T_DEV (console.c), and the interrupts of the keyboard (kbd.c) and of    *)
(* the serial line (uart.c) that feed it.  The processes, the file table   *)
(* and the inode locks are those of Blocks.tla.                            *)
(*                                                                         *)
(* The indices of the input ring are unsigned words that wrap at `Wrap'.   *)
(* Of the screen only the cursor is kept.  p->killed is never set while a  *)
(* process is in a system call (Signals.tla), so consoleread() never finds *)
(* it set; the offset of a device file is not used.                        *)
(***************************************************************************)
EXTENDS Blocks

CONSTANTS
    INPUT_BUF,
    Wrap,          \* 2^32 in the code
    ROWS, COLS     \* 25 and 80 in the code

ASSUME ConsoleAssumption ==
    /\ INPUT_BUF \in Nat \ {0} /\ Wrap \in Nat
    /\ Wrap % INPUT_BUF = 0 /\ Wrap > INPUT_BUF
    /\ ROWS \in Nat /\ COLS \in Nat /\ ROWS > 1 /\ COLS > 0

VARIABLES
    buf, r, w, e,    \* input
    cons,            \* who holds cons.lock
    shift,           \* kbdgetc()'s modifiers
    pos,             \* the cursor
    ready, line      \* what readers should get, and the line being typed

inputVars == <<buf, r, w, e, ready, line>>
consVars == <<inputVars, cons, shift, pos>>
allVars == <<vars, consVars>>

NL == "\n"
EOT == "^D"
NO == "none"
BACKSPACE == "BACKSPACE"

-----------------------------------------------------------------------------
(* Output *)

\* The cursor after a character; the screen scrolls before its last row.
cgaputc(at, c) ==
    LET n == IF c = NL THEN at + COLS - (at % COLS)
             ELSE IF c = BACKSPACE THEN IF at > 0 THEN at - 1 ELSE at
             ELSE at + 1
    IN  IF n \div COLS >= ROWS - 1 THEN n - COLS ELSE n

consputs(cs) == pos' = FoldLeft(cgaputc, pos, cs)

-----------------------------------------------------------------------------
(* Input: the keyboard *)

\* Scan codes: the E0 prefix, or a key pressed or released.
normalmap == [d |-> "d", u |-> "u", p |-> "p", bs |-> "^H", enter |-> NL]
shiftmap == [d |-> "D", u |-> "U", p |-> "P", bs |-> "^H", enter |-> NL]
ctlmap == [d |-> EOT, u |-> "^U", p |-> "^P", bs |-> NO, enter |-> "\r"]
shiftcode == [ctl |-> {"CTL"}, shift |-> {"SHIFT"}]
togglecode == [caps |-> {"CAPSLOCK"}]
capital == [d |-> "D", u |-> "U", p |-> "P", D |-> "d", U |-> "u", P |-> "p"]

Code(map, k) == IF k \in DOMAIN map THEN map[k] ELSE {}
Toggle(S, T) == (S \ T) \cup (T \ S)

\* kbdgetc(): the modifiers after key k, and its character, NO for none.
Shifted(k, released) ==
    IF k = "E0" THEN shift \cup {"E0ESC"}
    ELSE IF released THEN shift \ (Code(shiftcode, k) \cup {"E0ESC"})
    ELSE Toggle((shift \ {"E0ESC"}) \cup Code(shiftcode, k), Code(togglecode, k))

Char(k, mods) ==
    LET map == IF "CTL" \in mods THEN ctlmap ELSE IF "SHIFT" \in mods THEN shiftmap ELSE normalmap
        c == IF k \in DOMAIN map THEN map[k] ELSE NO
    IN  IF "CAPSLOCK" \in mods /\ c \in DOMAIN capital THEN capital[c] ELSE c

-----------------------------------------------------------------------------
(* Input: the line being edited *)

Typed == (e - w) % Wrap
InRing(from, n) == [j \in 1..n |-> buf[(from + j - 1) % INPUT_BUF]]

\* Process q is woken if it sleeps in consoleread().
wakeup(q) == IF me[q].pc = "csleep" THEN [me[q] EXCEPT !.pc = "cread"] ELSE me[q]

\* Mutant of Insert: a full ring does not hand the line to the readers.
InsertUnlessFull(c0) ==
    LET c == IF c0 = "\r" THEN NL ELSE c0
    IN  /\ (e - r) % Wrap < INPUT_BUF
        /\ buf' = [buf EXCEPT ![e % INPUT_BUF] = c] /\ e' = (e + 1) % Wrap
        /\ consputs(<<c>>)
        /\ IF c \in {NL, EOT}
           THEN /\ w' = e' /\ me' = [q \in Procs |-> wakeup(q)]
                /\ ready' = ready \o line \o <<c>> /\ line' = <<>>
           ELSE line' = Append(line, c) /\ UNCHANGED <<w, me, ready>>
        /\ UNCHANGED r

\* Characters go into the ring and are echoed; the end of a line, ^D and a
\* full ring hand the line to the readers.
Insert(c0) ==
    LET c == IF c0 = "\r" THEN NL ELSE c0
        commit == c \in {NL, EOT} \/ (e + 1 - r) % Wrap = INPUT_BUF
    IN  /\ (e - r) % Wrap < INPUT_BUF
        /\ buf' = [buf EXCEPT ![e % INPUT_BUF] = c] /\ e' = (e + 1) % Wrap
        /\ consputs(<<c>>)
        /\ IF commit THEN /\ w' = e' /\ me' = [q \in Procs |-> wakeup(q)]
                          /\ ready' = ready \o line \o <<c>> /\ line' = <<>>
           ELSE line' = Append(line, c) /\ UNCHANGED <<w, me, ready>>
        /\ UNCHANGED r

\* k characters of the line go: one, or all up to the one before a newline.
Erase(k) ==
    /\ e' = (e - k) % Wrap /\ consputs([j \in 1..k |-> BACKSPACE])
    /\ line' = SubSeq(line, 1, Len(line) - k)
    /\ UNCHANGED <<buf, r, w, ready, me>>

KillLength ==
    Max({k \in 0..Typed : \A j \in 1..k : buf[(e - j) % INPUT_BUF] # NL})

\* The body of consoleintr() for one character; ^P lists the processes.
consoleintr(c) ==
    \/ c = "^U" /\ Erase(KillLength)
    \/ c = "^H" /\ Erase(Min({1, Typed}))
    \/ c \notin {"^U", "^H", "^P", NO} /\ Insert(c)
    \/ /\ c \in {"^P", NO} \/ (c \notin {"^U", "^H"} /\ (e - r) % Wrap >= INPUT_BUF)
       /\ UNCHANGED <<inputVars, pos, me>>

kbdintr(k, released) ==
    /\ ~panicked /\ cons = NoProc
    /\ shift' = Shifted(k, released)
    /\ consoleintr(IF released \/ k = "E0" THEN NO ELSE Char(k, shift'))
    /\ UNCHANGED <<cons, diskVars, lock, file, content, work, panicked>>

uartintr(c) ==
    /\ ~panicked /\ cons = NoProc /\ consoleintr(c)
    /\ UNCHANGED <<shift, cons, diskVars, lock, file, content, work, panicked>>

-----------------------------------------------------------------------------
(* The device *)

blockVars == <<diskVars, file, content, work, panicked>>

\* fileread() or filewrite() of the console: ilock(), and consoleread() or
\* consolewrite() gives the inode up at once.
DevCall(p, f, r0) ==
    /\ At(p, "user") /\ Type(f) = "dev" /\ lock[file[f].ip] = NoProc
    /\ Become(p, [r0 EXCEPT !.f = f, !.ip = file[f].ip])
    /\ UNCHANGED <<lock, blockVars, consVars>>

devread(p, f, n) == DevCall(p, f, [Idle EXCEPT !.pc = "cread", !.op = "cread", !.n = n])
devwrite(p, f, s) == DevCall(p, f, [Idle EXCEPT !.pc = "cwrite", !.op = "cwrite", !.src = s])

acquire(p) ==
    /\ At(p, "cread") /\ cons = NoProc /\ cons' = p
    /\ Become(p, [me[p] EXCEPT !.pc = "cloop"])
    /\ UNCHANGED <<inputVars, shift, pos, lock, blockVars>>

\* One round of consoleread()'s loop: sleep(), the next character, or a ^D,
\* which stays in the ring if it ends a read that has characters.
consoleread(p) ==
    LET m == me[p]
        c == buf[r % INPUT_BUF]
        last == m.n = 1 \/ c = NL
        taken == [m EXCEPT !.n = @ - 1, !.got = Append(@, c), !.pc = IF last THEN "cdone" ELSE @]
        eaten == c # EOT \/ m.got = <<>>
    IN  /\ At(p, "cloop")
        /\ IF r = w
           THEN /\ Become(p, [m EXCEPT !.pc = "csleep"]) /\ cons' = NoProc
                /\ UNCHANGED inputVars
           ELSE /\ Become(p, IF c = EOT THEN [m EXCEPT !.pc = "cdone"] ELSE taken)
                /\ cons' = IF c = EOT \/ last THEN NoProc ELSE p
                /\ r' = IF eaten THEN (r + 1) % Wrap ELSE r
                /\ ready' = IF eaten THEN Tail(ready) ELSE ready
                /\ UNCHANGED <<buf, w, e, line>>
        /\ UNCHANGED <<shift, pos, lock, blockVars>>

\* A chunk of filewrite() is printed with cons.lock held.
consolewrite(p) ==
    LET m == me[p]
        n == Min({Len(m.src), ChunkMax})
    IN  /\ At(p, "cwrite") /\ cons = NoProc
        /\ consputs(SubSeq(m.src, 1, n))
        /\ Become(p, [m EXCEPT !.pc = "cdone", !.src = SubSeq(@, n + 1, Len(@))])
        /\ UNCHANGED <<inputVars, cons, shift, lock, blockVars>>

\* ilock() again, return to fileread() or filewrite(), iunlock().
DevDone(p) ==
    /\ At(p, "cdone") /\ lock[me[p].ip] = NoProc
    /\ Become(p, IF me[p].src = <<>> THEN Idle ELSE [me[p] EXCEPT !.pc = "cwrite"])
    /\ UNCHANGED <<lock, blockVars, consVars>>

-----------------------------------------------------------------------------
ConsoleInit ==
    /\ buf = [j \in 0..INPUT_BUF - 1 |-> NO] /\ r = 0 /\ w = 0 /\ e = 0
    /\ cons = NoProc /\ shift = {} /\ ready = <<>> /\ line = <<>>
    /\ pos = 0

Device(p) ==
    \/ acquire(p) \/ consoleread(p) \/ consolewrite(p) \/ DevDone(p)
    \/ \E f \in Files : \/ \E n \in work.reads : devread(p, f, n)
                        \/ \E s \in work.writes : devwrite(p, f, s)

Interrupt ==
    \/ \E k \in work.keys : \E released \in BOOLEAN : kbdintr(k, released)
    \/ \E c \in work.serial : uartintr(c)

Init == BlocksInit /\ ConsoleInit

Next ==
    \/ BlocksNext /\ UNCHANGED consVars
    \/ \E p \in Procs : Device(p)
    \/ Interrupt

Spec == Init /\ [][Next]_allVars

-----------------------------------------------------------------------------
\* The ring holds what was typed: finished lines that nobody has read, in
\* order, then the line being edited; and a line that fills it is finished,
\* so that there is always something to read or room to type.
RingExact ==
    /\ InRing(r, (w - r) % Wrap) = ready /\ InRing(w, Typed) = line
    /\ (e - r) % Wrap <= INPUT_BUF /\ ((e - r) % Wrap = INPUT_BUF => line = <<>>)

\* No lost wakeup: a process sleeps in consoleread() only while there is
\* nothing to read, and holds up no other user of the console.
ReadersWoken ==
    \A p \in Procs : me[p].pc = "csleep" =>
        ready = <<>> /\ cons # p /\ \A i \in Inums : lock[i] # p

\* A read returns at most one line, and ^D only ends it.
ReadsLine ==
    \A p \in Procs : me[p].op = "cread" =>
        \A j \in 1..Len(me[p].got) :
            me[p].got[j] # EOT /\ (me[p].got[j] = NL => j = Len(me[p].got))

\* The console's line discipline; and the cursor stays on the screen, so that
\* cgaputc() does not panic.
ConsoleExact ==
    panicked \/ (RingExact /\ ReadersWoken /\ ReadsLine /\ pos \in 0..(ROWS - 1) * COLS - 1)
=============================================================================
