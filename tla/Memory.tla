------------------------------- MODULE Memory -------------------------------
(***************************************************************************)
(* Physical memory and address spaces: the page allocator (kalloc.c), page *)
(* tables (vm.c), and their users: boot (main.c, userinit), fork, exec,    *)
(* sbrk, exit and wait.  Every kalloc() and every kfree() is a step of its *)
(* own, so that processes compete for the last pages, and everything that  *)
(* can fail for want of memory does so at every point.                     *)
(*                                                                         *)
(* A frame is a physical page number; frame 0 belongs to the kernel and    *)
(* stands for a null pointer.  The free list is a bag of frames, so that a *)
(* double kfree() shows; the order of the list is left out: kalloc() takes *)
(* the least frame.  A page table is a record of the frames it consists of *)
(* and maps.  Sizes and addresses are counted in units of which a page has *)
(* PGSIZE, and are unsigned words below 2 * KERNBASE, as in the code.      *)
(***************************************************************************)
EXTENDS Integers, Sequences, FiniteSetsExt

CONSTANTS
    NPROC, NCPU, PGSIZE,
    NPTENTRIES,        \* pages that one page table maps
    UTABS, KTABS,      \* page tables for user and for kernel addresses
    End, Low, PHYSTOP, \* the kernel's end, the end of entrypgdir, of memory
    Programs,          \* for exec(): sequences of segments [vaddr, memsz]
    ArgSizes,          \* what exec() pushes on the new stack
    Increments         \* arguments of sbrk()

KERNBASE == UTABS * NPTENTRIES * PGSIZE
Wrap == 2 * KERNBASE

ASSUME MemoryAssumption ==
    /\ {NPROC, NCPU, PGSIZE, NPTENTRIES, UTABS, KTABS} \subseteq Nat \ {0}
    /\ {End, Low, PHYSTOP} \subseteq Nat /\ 0 < End /\ End <= Low /\ Low <= PHYSTOP
    /\ Increments \subseteq -KERNBASE..KERNBASE - 1

PGROUNDUP(x) == ((x + PGSIZE - 1) \div PGSIZE) * PGSIZE
VPages == 0..UTABS * NPTENTRIES - 1
Tables == 0..UTABS + KTABS - 1
Frames == PGROUNDUP(End) \div PGSIZE .. PHYSTOP \div PGSIZE - 1
Slots == 1..NPROC
Boot == 0               \* the boot processor before it enters scheduler()
Threads == {Boot} \cup Slots

VARIABLES
    freelist,
    state, parent, kstack, vm, sz,  \* of a slot; vm is its page table
    kpgdir, cpustack,               \* of the kernel, of the other CPUs
    me,                             \* control and locals of a thread
    new,                            \* the page table it makes or frees
    panicked

slotVars == <<state, parent, kstack, vm, sz>>
bootVars == <<kpgdir, cpustack>>
vars == <<freelist, slotVars, bootVars, me, new, panicked>>

NoVm == [dir |-> 0, tab |-> [i \in Tables |-> 0], pte |-> [v \in VPages |-> 0], nouser |-> {}]

\* lo and hi bound what allocuvm() adds or deallocuvm() removes, np is the
\* slot being made or reaped, mem a page not yet mapped, seg and size count
\* exec()'s progress; `was' is the image at the call, for FailuresUndone.
Idle == [pc |-> "user", op |-> "none", lo |-> 0, hi |-> 0, np |-> 0, mem |-> 0,
         prog |-> <<>>, seg |-> 0, size |-> 0, was |-> <<>>]

At(t, l) == ~panicked /\ me[t].pc = l
Become(t, r) == me' = [me EXCEPT ![t] = r]
Goto(t, l) == Become(t, [me[t] EXCEPT !.pc = l])

Available == {f \in Frames : freelist[f] > 0}
OutOfMemory == Available = {}
Page == Min(Available)

\* The page table thread t works on: its own for sbrk().
Vm(t) == IF me[t].op = "sbrk" THEN vm[t] ELSE new[t]
SetVm(t, v) ==
    IF me[t].op = "sbrk" THEN vm' = [vm EXCEPT ![t] = v] /\ UNCHANGED new
                         ELSE new' = [new EXCEPT ![t] = v] /\ UNCHANGED vm

Image(p) == <<vm[p].pte, vm[p].nouser, sz[p]>>

-----------------------------------------------------------------------------
(* Physical pages *)

kalloc == ~OutOfMemory /\ freelist' = [freelist EXCEPT ![Page] = @ - 1]

\* It panics for what is not a page of free memory.
kfree(f) ==
    /\ panicked' = (f \notin Frames)
    /\ freelist' = [g \in Frames |-> freelist[g] + IF g = f THEN 1 ELSE 0]

freerange(from, to) ==
    freelist' = [f \in Frames |-> freelist[f] +
                    IF f * PGSIZE >= PGROUNDUP(from) /\ (f + 1) * PGSIZE <= to THEN 1 ELSE 0]

-----------------------------------------------------------------------------
(* Boot *)

kinit1 ==
    /\ At(Boot, "kinit1") /\ freerange(End, Low)
    /\ Become(Boot, [Idle EXCEPT !.pc = "pgdir", !.op = "kvmalloc"])
    /\ UNCHANGED <<slotVars, bootVars, new, panicked>>

kvmalloc ==
    /\ At(Boot, "kvm")
    /\ kpgdir' = new[Boot] /\ new' = [new EXCEPT ![Boot] = NoVm]
    /\ Goto(Boot, "startothers")
    /\ UNCHANGED <<freelist, slotVars, cpustack, panicked>>

\* A stack for each other CPU; kalloc()'s result is not tested.
startothers ==
    /\ At(Boot, "startothers") /\ Cardinality(cpustack) < NCPU - 1
    /\ IF OutOfMemory THEN panicked' = TRUE /\ UNCHANGED <<freelist, cpustack>>
       ELSE kalloc /\ cpustack' = cpustack \cup {Page} /\ UNCHANGED panicked
    /\ UNCHANGED <<slotVars, kpgdir, me, new>>

\* The rest of memory; userinit() begins with allocproc().
kinit2 ==
    /\ At(Boot, "startothers") /\ Cardinality(cpustack) = NCPU - 1
    /\ freerange(Low, PHYSTOP)
    /\ state' = [state EXCEPT ![1] = "EMBRYO"]
    /\ Become(Boot, [Idle EXCEPT !.pc = "kstack", !.op = "userinit", !.np = 1, !.hi = PGSIZE])
    /\ UNCHANGED <<parent, kstack, vm, sz, bootVars, new, panicked>>

-----------------------------------------------------------------------------
(* Page tables *)

\* allocproc(): the kernel stack of the new slot.
AllocKstack(t) ==
    /\ At(t, "kstack")
    /\ \/ /\ kalloc /\ kstack' = [kstack EXCEPT ![me[t].np] = Page]
          /\ Goto(t, "pgdir") /\ UNCHANGED <<state, panicked>>
       \/ /\ OutOfMemory /\ state' = [state EXCEPT ![me[t].np] = "UNUSED"]
          /\ Goto(t, "fail") /\ panicked' = (t = Boot) /\ UNCHANGED <<freelist, kstack>>
    /\ UNCHANGED <<parent, vm, sz, bootVars, new>>

setupkvm(t) ==
    /\ At(t, "pgdir")
    /\ \/ kalloc /\ new' = [new EXCEPT ![t].dir = Page] /\ Goto(t, "kmap")
       \/ OutOfMemory /\ Goto(t, "freed") /\ UNCHANGED <<freelist, new>>
    /\ UNCHANGED <<slotVars, bootVars, panicked>>

\* mappages() of the kernel's addresses.
AfterKmap(t) == CASE me[t].op = "kvmalloc" -> "kvm"
                  [] me[t].op \in {"fork", "userinit"} -> "page"
                  [] me[t].op = "exec" -> "seg"

kmap(t) ==
    LET missing == {i \in UTABS..UTABS + KTABS - 1 : new[t].tab[i] = 0} IN
    /\ At(t, "kmap")
    /\ \/ /\ kalloc /\ new' = [new EXCEPT ![t].tab[Min(missing)] = Page]
          /\ Goto(t, IF Cardinality(missing) = 1 THEN AfterKmap(t) ELSE "kmap")
       \/ OutOfMemory /\ Goto(t, "freevm") /\ UNCHANGED <<freelist, new>>
    /\ UNCHANGED <<slotVars, bootVars, panicked>>

\* Mutant of Undo: allocuvm() forgets the page it could not map.
UndoLeaks(t) ==
    [me[t] EXCEPT !.pc = "dealloc", !.mem = 0,
                  !.lo = IF me[t].op = "sbrk" THEN sz[t] ELSE me[t].size]

\* What allocuvm() undoes when it fails: from the size before.
Undo(t) == [me[t] EXCEPT !.pc = "dealloc", !.lo = IF me[t].op = "sbrk" THEN sz[t] ELSE me[t].size]

\* The next page of allocuvm(), copyuvm() or inituvm(), which does not test
\* the result; copyuvm() panics if the parent has no such page.
uvmPage(t) ==
    LET m == me[t] IN
    /\ At(t, "page") /\ m.lo < m.hi
    /\ IF m.op = "fork" /\ vm[t].pte[m.lo \div PGSIZE] = 0
       THEN panicked' = TRUE /\ UNCHANGED <<freelist, me>>
       ELSE \/ /\ kalloc /\ Become(t, [m EXCEPT !.pc = "map", !.mem = Page])
               /\ UNCHANGED panicked
            \/ /\ OutOfMemory /\ panicked' = (m.op = "userinit")
               /\ Become(t, IF m.op = "fork" THEN [m EXCEPT !.pc = "freevm"] ELSE Undo(t))
               /\ UNCHANGED freelist
    /\ UNCHANGED <<slotVars, bootVars, new>>

\* The page table with frame f mapped at page v, with the parent's flags.
Mapped(t, f, v) ==
    [Vm(t) EXCEPT !.pte[v] = f,
                  !.nouser = @ \cup IF me[t].op = "fork" THEN vm[t].nouser \cap {v} ELSE {}]

\* mappages() of one page; walkpgdir() allocates the page table it lacks.
mappages(t) ==
    LET m == me[t]
        v == m.lo \div PGSIZE
        i == v \div NPTENTRIES
        done == [m EXCEPT !.pc = "page", !.lo = @ + PGSIZE, !.mem = 0]
    IN  /\ At(t, "map")
        /\ \/ /\ Vm(t).tab[i] # 0 /\ SetVm(t, Mapped(t, m.mem, v)) /\ Become(t, done)
              /\ panicked' = (Vm(t).pte[v] # 0) /\ UNCHANGED freelist
           \/ /\ Vm(t).tab[i] = 0 /\ kalloc
              /\ SetVm(t, [Mapped(t, m.mem, v) EXCEPT !.tab[i] = Page]) /\ Become(t, done)
              /\ UNCHANGED panicked
           \/ /\ Vm(t).tab[i] = 0 /\ OutOfMemory /\ m.op = "fork"
              /\ kfree(m.mem) /\ Become(t, [m EXCEPT !.pc = "freevm", !.mem = 0])
              /\ UNCHANGED <<vm, new>>
           \/ /\ Vm(t).tab[i] = 0 /\ OutOfMemory /\ m.op # "fork"
              /\ Become(t, Undo(t)) /\ panicked' = (m.op = "userinit")
              /\ UNCHANGED <<freelist, vm, new>>
        /\ UNCHANGED <<state, parent, kstack, sz, bootVars>>

\* The next mapped page from lo to hi goes, then the page that was not mapped.
deallocuvm(t) ==
    LET m == me[t]
        R == {v \in VPages : /\ v * PGSIZE >= PGROUNDUP(m.lo) /\ v * PGSIZE < m.hi
                             /\ Vm(t).pte[v] # 0}
        v == Min(R)
    IN  /\ At(t, "dealloc")
        /\ \/ /\ R # {} /\ kfree(Vm(t).pte[v])
              /\ SetVm(t, [Vm(t) EXCEPT !.pte[v] = 0, !.nouser = @ \ {v}])
              /\ UNCHANGED <<me, sz>>
           \/ /\ R = {} /\ m.mem # 0 /\ kfree(m.mem) /\ Become(t, [m EXCEPT !.mem = 0])
              /\ UNCHANGED <<vm, new, sz>>
           \/ /\ R = {} /\ m.mem = 0
              /\ IF m.op = "sbrk" /\ m.hi = sz[t] /\ m.lo > 0
                 THEN sz' = [sz EXCEPT ![t] = m.lo] /\ Become(t, Idle)
                 ELSE Goto(t, IF m.op = "exec" THEN "freevm" ELSE "fail") /\ UNCHANGED sz
              /\ UNCHANGED <<freelist, vm, new, panicked>>
        /\ UNCHANGED <<state, parent, kstack, bootVars>>

\* freevm(): user pages, page tables, the directory.
freevm(t) ==
    LET v == new[t]
        U == {i \in VPages : v.pte[i] # 0}
        T == {i \in Tables : v.tab[i] # 0}
    IN  /\ At(t, "freevm")
        /\ IF U # {}
           THEN kfree(v.pte[Min(U)]) /\ new' = [new EXCEPT ![t].pte[Min(U)] = 0] /\ UNCHANGED me
           ELSE IF T # {}
           THEN kfree(v.tab[Min(T)]) /\ new' = [new EXCEPT ![t].tab[Min(T)] = 0] /\ UNCHANGED me
           ELSE kfree(v.dir) /\ new' = [new EXCEPT ![t] = NoVm] /\ Goto(t, "freed")
        /\ UNCHANGED <<slotVars, bootVars>>

\* What the caller does when the page table is gone: fork() gives the slot
\* back, wait() too, exec() returns; boot cannot go on.
Freed(t) ==
    LET m == me[t] IN
    /\ At(t, "freed")
    /\ IF m.op = "fork"
       THEN kfree(kstack[m.np]) /\ kstack' = [kstack EXCEPT ![m.np] = 0]
       ELSE panicked' = (t = Boot) /\ UNCHANGED <<freelist, kstack>>
    /\ state' = [q \in Slots |-> IF q = m.np THEN "UNUSED" ELSE state[q]]
    /\ Become(t, IF m.op \in {"fork", "exec"} THEN [m EXCEPT !.pc = "fail"] ELSE Idle)
    /\ UNCHANGED <<parent, vm, sz, bootVars, new>>

-----------------------------------------------------------------------------
(* System calls *)

\* Process p runs user code; one without its first page faults at once.
User(p) == At(p, "user") /\ state[p] = "USED" /\ vm[p].pte[0] # 0
Call(p, o) == [Idle EXCEPT !.op = o, !.was = Image(p)]

fork(p) ==
    LET unused == {q \in Slots : state[q] = "UNUSED"} IN
    /\ User(p) /\ unused # {}
    /\ state' = [state EXCEPT ![Min(unused)] = "EMBRYO"]
    /\ Become(p, [Call(p, "fork") EXCEPT !.pc = "kstack", !.np = Min(unused), !.hi = sz[p]])
    /\ UNCHANGED <<freelist, parent, kstack, vm, sz, bootVars, new, panicked>>

\* Mutant of Forked: the child's size is not set.
ForkedNoSize(t) ==
    LET q == me[t].np IN
    /\ At(t, "page") /\ me[t].lo >= me[t].hi /\ me[t].op \in {"fork", "userinit"}
    /\ vm' = [vm EXCEPT ![q] = new[t]] /\ new' = [new EXCEPT ![t] = NoVm]
    /\ parent' = [parent EXCEPT ![q] = t]
    /\ state' = [state EXCEPT ![q] = "USED"]
    /\ Become(t, IF t = Boot THEN [Idle EXCEPT !.pc = "scheduler"] ELSE Idle)
    /\ UNCHANGED <<freelist, kstack, sz, bootVars, panicked>>

\* fork(), or userinit(), has the new process complete.
Forked(t) ==
    LET q == me[t].np IN
    /\ At(t, "page") /\ me[t].lo >= me[t].hi /\ me[t].op \in {"fork", "userinit"}
    /\ vm' = [vm EXCEPT ![q] = new[t]] /\ new' = [new EXCEPT ![t] = NoVm]
    /\ sz' = [sz EXCEPT ![q] = me[t].hi]
    /\ parent' = [parent EXCEPT ![q] = t]
    /\ state' = [state EXCEPT ![q] = "USED"]
    /\ Become(t, IF t = Boot THEN [Idle EXCEPT !.pc = "scheduler"] ELSE Idle)
    /\ UNCHANGED <<freelist, kstack, bootVars, panicked>>

\* sys_sbrk(), growproc(): the calls that fail or succeed at once are left
\* out.  init does not call it.
sbrk(p, n) ==
    LET r == (sz[p] + n) % Wrap IN
    /\ User(p) /\ p # 1
    /\ \/ n > 0 /\ r < KERNBASE
          /\ Become(p, [Call(p, "sbrk") EXCEPT !.pc = "page", !.lo = PGROUNDUP(sz[p]), !.hi = r])
       \/ n < 0 /\ r < sz[p]
          /\ Become(p, [Call(p, "sbrk") EXCEPT !.pc = "dealloc", !.lo = r, !.hi = sz[p]])
    /\ UNCHANGED <<freelist, slotVars, bootVars, new, panicked>>

Grown(p) ==
    /\ At(p, "page") /\ me[p].lo >= me[p].hi /\ me[p].op = "sbrk"
    /\ sz' = [sz EXCEPT ![p] = me[p].hi] /\ Become(p, Idle)
    /\ UNCHANGED <<freelist, state, parent, kstack, vm, bootVars, new, panicked>>

\* From setupkvm() on; before it exec() may fail and has changed nothing.
exec(p, g) ==
    /\ User(p) /\ Become(p, [Call(p, "exec") EXCEPT !.pc = "pgdir", !.prog = g])
    /\ UNCHANGED <<freelist, slotVars, bootVars, new, panicked>>

\* The calls of allocuvm() for a segment, and after the last for two pages of
\* stack.  A header may be bad, and allocuvm() returns 0 for its errors.
Segment(p) ==
    LET m == me[p]
        stack == m.seg = Len(m.prog)
        old == IF stack THEN PGROUNDUP(m.size) ELSE m.size
        top == IF stack THEN old + 2 * PGSIZE
                        ELSE m.prog[m.seg + 1].vaddr + m.prog[m.seg + 1].memsz
    IN  /\ At(p, "seg")
        /\ \/ Goto(p, "freevm") /\ (~stack \/ top >= KERNBASE)
           \/ /\ 0 < top /\ top < KERNBASE
              /\ Become(p, [m EXCEPT !.pc = "page", !.seg = @ + 1, !.size = old,
                                     !.lo = PGROUNDUP(old), !.hi = Max({top, old})])
        /\ UNCHANGED <<freelist, slotVars, bootVars, new, panicked>>

\* allocuvm() has returned, loaduvm() reads the segment: it may fail, and
\* panics if there is no page for it.
Load(p) ==
    LET m == me[p]
        s == m.prog[m.seg]
    IN  /\ At(p, "page") /\ m.lo >= m.hi /\ m.op = "exec" /\ m.seg <= Len(m.prog)
        /\ panicked' = (s.vaddr % PGSIZE = 0 /\ \E a \in s.vaddr..s.vaddr + s.memsz - 1 :
                                                   new[p].pte[a \div PGSIZE] = 0)
        /\ \/ s.vaddr % PGSIZE = 0 /\ Become(p, [m EXCEPT !.pc = "seg", !.size = m.hi])
           \/ Goto(p, "freevm")
        /\ UNCHANGED <<freelist, slotVars, bootVars, new>>

\* clearpteu() of the page below the new stack.
clearpteu(v, top) == [v EXCEPT !.nouser = @ \cup {top \div PGSIZE - 2}]

\* copyout() of n units below the top of page table v: user pages only.
copyout(v, top, n) ==
    n <= top /\ \A a \in top - n..top - 1 : v.pte[a \div PGSIZE] # 0 /\ a \div PGSIZE \notin v.nouser

\* The guard page, the arguments, and the new image instead of the old.
Commit(p, n) ==
    LET m == me[p]
        v == clearpteu(new[p], m.hi)
    IN  /\ At(p, "page") /\ m.lo >= m.hi /\ m.op = "exec" /\ m.seg > Len(m.prog)
        /\ IF copyout(v, m.hi, n)
           THEN /\ vm' = [vm EXCEPT ![p] = v] /\ sz' = [sz EXCEPT ![p] = m.hi]
                /\ new' = [new EXCEPT ![p] = vm[p]]
                /\ Become(p, [Idle EXCEPT !.pc = "freevm", !.op = "exec_done"])
           ELSE /\ new' = [new EXCEPT ![p] = v] /\ Goto(p, "freevm")
                /\ UNCHANGED <<vm, sz>>
        /\ UNCHANGED <<freelist, state, parent, kstack, bootVars, panicked>>

Return(p) ==
    /\ At(p, "fail") /\ Become(p, Idle)
    /\ UNCHANGED <<freelist, slotVars, bootVars, new, panicked>>

\* Of its own or by a fault; the memory stays until wait().
exit(p) ==
    /\ At(p, "user") /\ state[p] = "USED" /\ p # 1
    /\ state' = [state EXCEPT ![p] = "ZOMBIE"]
    /\ parent' = [q \in Slots |-> IF parent[q] = p THEN 1 ELSE parent[q]]
    /\ UNCHANGED <<freelist, kstack, vm, sz, bootVars, me, new, panicked>>

wait(p) ==
    \E q \in Slots :
        /\ User(p) /\ state[q] = "ZOMBIE" /\ parent[q] = p
        /\ state' = [state EXCEPT ![q] = "MINUS_UNUSED"] /\ parent' = [parent EXCEPT ![q] = 0]
        /\ kfree(kstack[q]) /\ kstack' = [kstack EXCEPT ![q] = 0]
        /\ new' = [new EXCEPT ![p] = vm[q]] /\ vm' = [vm EXCEPT ![q] = NoVm]
        /\ Become(p, [Idle EXCEPT !.pc = "freevm", !.op = "wait", !.np = q])
        /\ UNCHANGED <<sz, bootVars>>

-----------------------------------------------------------------------------
Init ==
    /\ freelist = [f \in Frames |-> 0]
    /\ state = [p \in Slots |-> "UNUSED"] /\ parent = [p \in Slots |-> 0]
    /\ kstack = [p \in Slots |-> 0] /\ vm = [p \in Slots |-> NoVm]
    /\ sz = [p \in Slots |-> 0]
    /\ kpgdir = NoVm /\ cpustack = {}
    /\ me = [t \in Threads |-> [Idle EXCEPT !.pc = IF t = Boot THEN "kinit1" ELSE "user"]]
    /\ new = [t \in Threads |-> NoVm] /\ panicked = FALSE

Kernel(t) ==
    \/ AllocKstack(t) \/ setupkvm(t) \/ kmap(t) \/ uvmPage(t) \/ mappages(t)
    \/ deallocuvm(t) \/ freevm(t) \/ Freed(t) \/ Forked(t)

Process(p) ==
    \/ fork(p) \/ exit(p) \/ wait(p) \/ Return(p) \/ Grown(p)
    \/ Segment(p) \/ Load(p)
    \/ \E g \in Programs : exec(p, g)
    \/ \E n \in ArgSizes : Commit(p, n)
    \/ \E n \in Increments : sbrk(p, n)

Next ==
    \/ kinit1 \/ kvmalloc \/ startothers \/ kinit2
    \/ \E t \in Threads : Kernel(t)
    \/ \E p \in Slots : Process(p)

Spec == Init /\ [][Next]_vars

-----------------------------------------------------------------------------
\* How often frame f is in page table v.
Uses(v, f) ==
    (IF v.dir = f THEN 1 ELSE 0) + Cardinality({i \in Tables : v.tab[i] = f})
                                 + Cardinality({i \in VPages : v.pte[i] = f})

Booted == me[Boot].pc \notin {"kinit1", "pgdir", "kmap", "kvm", "startothers"}
              \/ me[Boot].op = "userinit"

\* No page is lost and none has two users, at no step of any call, successful
\* or not: it is on the free list once, or a kernel stack, or in one place of
\* one page table, or in the hands of one call.
PagesOnce ==
    \A f \in Frames :
        freelist[f] + Uses(kpgdir, f) + (IF f \in cpustack THEN 1 ELSE 0)
            + Cardinality({p \in Slots : kstack[p] = f})
            + Cardinality({t \in Threads : me[t].mem = f})
            + MapThenSumSet(LAMBDA p : Uses(vm[p], f), Slots)
            + MapThenSumSet(LAMBDA t : Uses(new[t], f), Threads)
          = IF Booted \/ (f + 1) * PGSIZE <= Low THEN (IF At(Boot, "kinit1") THEN 0 ELSE 1) ELSE 0

\* A process that can run has exactly the pages below its size.
SizeMapped ==
    \A p \in Slots : (User(p) \/ (state[p] = "ZOMBIE" /\ vm[p].pte[0] # 0)) =>
        /\ kstack[p] # 0 /\ vm[p].dir # 0
        /\ \A v \in VPages : vm[p].pte[v] # 0 <=> v * PGSIZE < sz[p]

\* A call that fails for want of memory, or because of a bad program, leaves
\* the caller's memory as it was.  (sbrk() to size 0 fails after it has freed
\* everything.)
FailuresUndone ==
    \A p \in Slots : (me[p].pc = "fail" /\ ~(me[p].op = "sbrk" /\ me[p].lo = 0))
        => Image(p) = me[p].was

\* With memory enough to boot, no panic of kfree(), mappages(), copyuvm(),
\* loaduvm() or userinit() is reached.
NoPanic == ~panicked

\* Address spaces stay whole, and no step of any call panics.
ImagesWhole == NoPanic /\ SizeMapped /\ FailuresUndone
=============================================================================
