------------------------------ MODULE Signals ------------------------------
(***************************************************************************)
(* Signals: kill(), handle_signals(), sigaction(), sigprocmask() and       *)
(* sigret() of proc.c, for one slot of the process table.  The actors are  *)
(* the process in the slot and the Senders, other processes inside kill(). *)
(* One action is one access to p->psignals, the only word both write, with *)
(* the private work around it.                                             *)
(*                                                                         *)
(* A 32-bit word is the set of its bits: a mask is a set of signals,       *)
(* SIG_DFL the empty word and SIG_IGN the word with bit 0.  A user context *)
(* is the stack of the handlers it is in, each with the mask that was in   *)
(* force when it was entered.  Every word used as the address of a handler *)
(* is taken to be a mapped user address.                                   *)
(***************************************************************************)
EXTENDS Integers, Sequences

CONSTANTS
    SIG_MAX, SIGKILL, SIGSTOP, SIGCONT,  \* types.h, with fewer signals
    Senders,     \* processes that call kill()
    KillSigs,    \* the signals they send
    Acts,        \* arguments of the program's calls of sigaction()
    Masks,       \* arguments of sigprocmask()
    CodeMasks,   \* what the word after a handler's first may contain
    Smps,        \* whether the machine may have two CPUs, or one
    MaxKills,    \* bound on the calls of kill()
    MaxPid       \* bound on the processes that use the slot

Sigs == 0..SIG_MAX
Word == SUBSET Sigs
SIG_DFL == {}
SIG_IGN == {0}

ASSUME SigsAssumption ==
    /\ SIG_MAX \in Nat /\ {SIGKILL, SIGSTOP, SIGCONT} \subseteq Sigs
    /\ SIGKILL # SIGSTOP /\ SIGSTOP # SIGCONT /\ SIGCONT # SIGKILL
    /\ KillSigs \subseteq Sigs
    /\ Acts \subseteq [signum : Int, sa_handler : Word, sigmask : Word]
    /\ Masks \cup CodeMasks \subseteq Word
    /\ Smps \subseteq BOOLEAN

VARIABLES
    pid, psignals, sigmask, sigmask_backup, sig_handlers,  \* struct proc
    tf, tf_backup, killed, frozen,
    nextpid,   \* ptable's pid counter
    pc,        \* where the process is, or that the slot has none
    on,        \* a CPU runs it
    insys,     \* in a system call: interrupts are enabled in the kernel
    insigret,  \* handle_signals() was called by sigret()
    sig, expected,      \* locals of handle_signals()
    kpc, karg, kold,    \* kill(): control, arguments, psignals as read
    kills,     \* calls of kill() so far
    nested,    \* a handler was entered inside another one
    smp        \* two CPUs: the read and the write of |= are separate

frame == <<tf, tf_backup, sigmask_backup, nested>>
local == <<insys, insigret, sig, expected>>
slotVars == <<pid, nextpid, killed, frozen>>
killVars == <<kpc, karg, kold, kills>>
vars == <<pid, psignals, sigmask, sig_handlers, frame, killed, frozen,
          nextpid, pc, on, local, killVars, smp>>

Main == [stack |-> <<>>, eax |-> "kept"]
NoProc == {"unused", "embryo", "inited", "zombie"}
Live == pc \notin NoProc
Runs(l) == pc = l /\ on

\* kill() spares nobody's signal but this one (735).
Dropped == 1

-----------------------------------------------------------------------------
\* Mutant: only SIGCONT lets a stopped process run.
CanRunIfCont == SIGCONT \in psignals /\ sig_handlers[SIGCONT] = SIG_DFL

\* Mutant: only SIGKILL does.
CanRunIfKilled == SIGKILL \in psignals /\ sig_handlers[SIGKILL] = SIG_DFL

(* canRunEvenIfFrozen(); a handler word that equals the number SIGCONT or  *)
(* SIGKILL (442) is not among the words the programs install.              *)
CanRunEvenIfFrozen ==
    \E s \in psignals : s \in {SIGCONT, SIGKILL} /\ sig_handlers[s] = SIG_DFL

\* Mutant: the mask blocks every signal.
BlocksAll(s) == s \in sigmask

\* The signals the mask can block (964).
Blocks(s) == s \in sigmask /\ s \notin {SIGSTOP, SIGKILL}

-----------------------------------------------------------------------------
(* Mutants: the operations below with a plausible error.                   *)

\* The bit is cleared by a plain store.
HsCas2Store ==
    /\ Runs("cas2")
    /\ psignals' = expected \ {sig}
    /\ sig' = sig + 1 /\ pc' = "hs" /\ expected' = {}
    /\ killed' = (killed \/ (sig \in psignals /\ sig = SIGKILL))
    /\ UNCHANGED <<frame, pid, nextpid, frozen, sigmask, sig_handlers, on,
                   insys, insigret, killVars>>

\* sigret() does not restore the mask.
SigretKeepsMask ==
    /\ Runs("user") /\ ~killed /\ tf.stack # <<>>
    /\ tf' = tf_backup
    /\ pc' = "hs" /\ sig' = 0 /\ insys' = TRUE /\ insigret' = TRUE
    /\ UNCHANGED <<slotVars, psignals, sigmask, sig_handlers, tf_backup,
                   sigmask_backup, nested, on, expected, killVars>>

\* The loop runs past SIG_MAX.
HsReadPast ==
    /\ Runs("hs") /\ sig <= SIG_MAX + 1
    /\ expected' = psignals \cup {sig}
    /\ pc' = IF Blocks(sig) THEN "cas1" ELSE "cas2"
    /\ UNCHANGED <<slotVars, psignals, sigmask, sig_handlers, frame, on,
                   insys, insigret, sig, killVars>>

-----------------------------------------------------------------------------
(* The slot: allocproc(), fork(), exit() and wait() *)

\* allocproc() up to the pid; kalloc() follows.
AllocPid ==
    /\ pc = "unused" /\ nextpid <= MaxPid
    /\ pc' = "embryo" /\ pid' = nextpid /\ nextpid' = nextpid + 1
    /\ UNCHANGED <<psignals, sigmask, sig_handlers, frame, killed, frozen, on,
                   local, killVars>>

\* kalloc() or copyuvm() failed: the slot is free again, its pid stays.
AllocFail ==
    /\ pc \in {"embryo", "inited"} /\ pc' = "unused"
    /\ UNCHANGED <<slotVars, psignals, sigmask, sig_handlers, frame, on, local,
                   killVars>>

AllocInit ==
    /\ pc = "embryo" /\ pc' = "inited"
    /\ psignals' = {} /\ sigmask' = {}
    /\ sig_handlers' = [s \in Sigs |-> SIG_DFL]
    /\ UNCHANGED <<slotVars, frame, on, local, killVars>>

\* fork() copies the parent's mask; here the parent has default handlers.
\* The child starts at forkret() and trapret.
ForkRun(mask) ==
    /\ pc = "inited" /\ pc' = "hs" /\ sig' = 0
    /\ sigmask' = mask /\ tf' = Main /\ nested' = FALSE
    /\ insys' = TRUE /\ insigret' = FALSE
    /\ UNCHANGED <<slotVars, psignals, sig_handlers, tf_backup, sigmask_backup,
                   on, expected, killVars>>

\* wait() frees the slot.
Reap ==
    /\ pc = "zombie" /\ pc' = "unused"
    /\ pid' = 0 /\ killed' = FALSE
    /\ UNCHANGED <<nextpid, frozen, psignals, sigmask, sig_handlers, frame, on,
                   local, killVars>>

\* exit(), called by the program or by trap() for a killed process.
Die == pc' = "zombie" /\ on' = FALSE

Exit ==
    /\ Runs("user") /\ Die
    /\ UNCHANGED <<slotVars, psignals, sigmask, sig_handlers, frame, local,
                   killVars>>

-----------------------------------------------------------------------------
(* trap() and scheduler() *)

\* A system call of the program, up to its return to trapret.
Syscall ==
    /\ Runs("user") /\ ~killed
    /\ pc' = "hs" /\ sig' = 0 /\ insys' = TRUE

\* The clock interrupts user code: exit() if killed, else yield().
Tick ==
    /\ Runs("user") /\ on' = FALSE
    /\ pc' = IF killed THEN "zombie" ELSE "resched"
    /\ insys' = FALSE
    /\ UNCHANGED <<slotVars, psignals, sigmask, sig_handlers, frame, insigret,
                   sig, expected, killVars>>

\* The clock interrupts the kernel, which a system call enters with
\* interrupts enabled.
Preempt ==
    /\ on /\ insys /\ pc \in {"hs", "cas1", "cas2"} /\ on' = FALSE
    /\ UNCHANGED <<slotVars, psignals, sigmask, sig_handlers, frame, pc, local,
                   killVars>>

\* scheduler() dispatches the process unless it is stopped.
Dispatch ==
    /\ Live /\ ~on /\ (frozen => CanRunEvenIfFrozen)
    /\ IF pc = "resched" /\ killed THEN Die ELSE
           on' = TRUE /\ pc' = (IF pc = "resched" THEN "hs" ELSE pc)
    /\ sig' = IF pc = "resched" THEN 0 ELSE sig
    /\ UNCHANGED <<slotVars, psignals, sigmask, sig_handlers, frame, insys,
                   insigret, expected, killVars>>

-----------------------------------------------------------------------------
(* The system calls of the process *)

Sigprocmask(mask) ==
    /\ Syscall /\ sigmask' = mask
    /\ UNCHANGED <<slotVars, psignals, sig_handlers, frame, on, insigret,
                   expected, killVars>>

\* The word after sig_handlers[signum] gets the mask; after the last one
\* comes tf_backup.
Sigaction(act) ==
    /\ Syscall
    /\ LET s == act.signum
       IN  IF s \in {SIGSTOP, SIGKILL} \/ s \notin Sigs
           THEN UNCHANGED <<sig_handlers, tf_backup>>
           ELSE /\ sig_handlers' =
                     [x \in Sigs |-> CASE x = s     -> act.sa_handler
                                       [] x = s + 1 -> act.sigmask
                                       [] OTHER     -> sig_handlers[x]]
                /\ tf_backup' = IF s = SIG_MAX
                                THEN [stack |-> <<>>, eax |-> "lost"]
                                ELSE tf_backup
    /\ UNCHANGED <<slotVars, psignals, sigmask, tf, sigmask_backup, nested, on,
                   insigret, expected, killVars>>

\* exec(): a new image, default_sighandlers().
Exec ==
    /\ Syscall
    /\ tf' = Main /\ nested' = FALSE
    /\ sig_handlers' = [s \in Sigs |-> IF sig_handlers[s] = SIG_IGN
                                       THEN SIG_IGN ELSE SIG_DFL]
    /\ UNCHANGED <<slotVars, psignals, sigmask, tf_backup, sigmask_backup, on,
                   insigret, expected, killVars>>

\* A handler returns into the code user_handler() put on its stack.
Sigret ==
    /\ Syscall /\ tf.stack # <<>>
    /\ tf' = tf_backup /\ sigmask' = sigmask_backup
    /\ insigret' = TRUE
    /\ UNCHANGED <<slotVars, psignals, sig_handlers, tf_backup, sigmask_backup,
                   nested, on, expected, killVars>>

-----------------------------------------------------------------------------
(* handle_signals() and handleSignal() *)

sigkill_handler == killed' = TRUE /\ UNCHANGED <<frozen, sigmask, frame>>

sigstop_handler == frozen' = TRUE /\ UNCHANGED <<killed, sigmask, frame>>

sigcont_handler == frozen' = FALSE /\ UNCHANGED <<killed, sigmask, frame>>

\* The mask is read from the second word of the handler's code (890).
user_handler(s) ==
    /\ tf_backup' = tf /\ sigmask_backup' = sigmask
    /\ sigmask' \in CodeMasks
    /\ tf' = [stack |-> Append(tf.stack, [sig |-> s, mask |-> sigmask]),
              eax |-> "kept"]
    /\ nested' = (nested \/ tf.stack # <<>>)
    /\ UNCHANGED <<killed, frozen>>

handleSignal(s) ==
    CASE sig_handlers[s] = SIG_IGN -> UNCHANGED <<killed, frozen, sigmask, frame>>
      [] sig_handlers[s] = SIG_DFL ->
             (CASE s = SIGCONT -> sigcont_handler
                [] s = SIGSTOP -> sigstop_handler
                [] OTHER       -> sigkill_handler)
      [] OTHER -> user_handler(s)

HsRead ==
    /\ Runs("hs") /\ sig <= SIG_MAX
    /\ expected' = psignals \cup {sig}
    /\ pc' = IF Blocks(sig) THEN "cas1" ELSE "cas2"
    /\ UNCHANGED <<slotVars, psignals, sigmask, sig_handlers, frame, on,
                   insys, insigret, sig, killVars>>

\* A blocked signal is discarded; if it is not pending, or the word has
\* changed, the code goes on to the second CAS.
HsCas1 ==
    /\ Runs("cas1")
    /\ IF psignals = expected
       THEN /\ psignals' = expected \ {sig}
            /\ sig' = sig + 1 /\ pc' = "hs" /\ expected' = {}
       ELSE pc' = "cas2" /\ UNCHANGED <<psignals, sig, expected>>
    /\ UNCHANGED <<slotVars, sigmask, sig_handlers, frame, on, insys, insigret,
                   killVars>>

HsCas2 ==
    /\ Runs("cas2")
    /\ IF psignals = expected
       THEN psignals' = expected \ {sig} /\ handleSignal(sig)
       ELSE UNCHANGED <<psignals, killed, frozen, sigmask, frame>>
    /\ sig' = sig + 1 /\ pc' = "hs" /\ expected' = {}
    /\ UNCHANGED <<pid, nextpid, sig_handlers, on, insys, insigret, killVars>>

\* Back to user mode, or to sigret(): syscall() stores its result in eax and
\* trap() tests killed before trapret calls handle_signals() once more.
HsReturn ==
    /\ Runs("hs") /\ sig > SIG_MAX
    /\ sig' = 0 /\ insigret' = FALSE
    /\ IF ~insigret THEN pc' = "user" /\ UNCHANGED <<tf, on>>
       ELSE /\ tf' = [tf EXCEPT !.eax = "lost"]
            /\ IF killed THEN Die ELSE UNCHANGED <<pc, on>>
    /\ UNCHANGED <<slotVars, psignals, sigmask, sig_handlers, tf_backup,
                   sigmask_backup, nested, insys, expected, killVars>>

-----------------------------------------------------------------------------
(* kill(pid, signum), by another process *)

\* The slot matches pid: psignals is read for the first time.
KillFind(s, signum) ==
    /\ kpc[s] = "idle" /\ kills < MaxKills /\ kills' = kills + 1
    /\ pid # 0
    /\ karg' = [karg EXCEPT ![s] = [pid |-> pid, signum |-> signum]]
    /\ kold' = [kold EXCEPT ![s] = psignals \cup {signum}]
    /\ kpc' = [kpc EXCEPT ![s] = "cas"]
    /\ UNCHANGED <<slotVars, psignals, sigmask, sig_handlers, frame, pc, on,
                   local>>

\* The CAS changes nothing; it succeeds when the signal is pending.
KillCas(s) ==
    /\ kpc[s] = "cas"
    /\ kpc' = [kpc EXCEPT ![s] =
                  IF psignals = kold[s] \/ karg[s].signum = Dropped
                  THEN "idle" ELSE "or"]
    /\ kold' = [kold EXCEPT ![s] = {}]
    /\ UNCHANGED <<slotVars, psignals, sigmask, sig_handlers, frame, pc, on,
                   local, karg, kills>>

\* p->psignals |= (1 << signum): one instruction, atomic on one CPU.
KillOr(s) ==
    /\ ~smp /\ kpc[s] = "or"
    /\ psignals' = psignals \cup {karg[s].signum}
    /\ kpc' = [kpc EXCEPT ![s] = "idle"]
    /\ UNCHANGED <<slotVars, sigmask, sig_handlers, frame, pc, on, local, karg,
                   kold, kills>>

KillLoad(s) ==
    /\ smp /\ kpc[s] = "or"
    /\ kold' = [kold EXCEPT ![s] = psignals \cup {karg[s].signum}]
    /\ kpc' = [kpc EXCEPT ![s] = "store"]
    /\ UNCHANGED <<slotVars, psignals, sigmask, sig_handlers, frame, pc, on,
                   local, karg, kills>>

KillStore(s) ==
    /\ kpc[s] = "store"
    /\ psignals' = kold[s]
    /\ kold' = [kold EXCEPT ![s] = {}]
    /\ kpc' = [kpc EXCEPT ![s] = "idle"]
    /\ UNCHANGED <<slotVars, sigmask, sig_handlers, frame, pc, on, local, karg,
                   kills>>

-----------------------------------------------------------------------------
Init ==
    /\ pid = 1 /\ nextpid = 2
    /\ psignals = {} /\ sigmask = {} /\ sigmask_backup = {}
    /\ sig_handlers = [s \in Sigs |-> SIG_DFL]
    /\ tf = Main /\ tf_backup = Main /\ nested = FALSE
    /\ killed = FALSE /\ frozen = FALSE
    /\ pc = "user" /\ on = TRUE /\ insys = FALSE /\ insigret = FALSE
    /\ sig = 0 /\ expected = {}
    /\ kpc = [s \in Senders |-> "idle"]
    /\ karg = [s \in Senders |-> [pid |-> 0, signum |-> 0]]
    /\ kold = [s \in Senders |-> {}]
    /\ kills = 0 /\ smp \in Smps

SlotStep == AllocPid \/ AllocFail \/ AllocInit \/ Reap
                \/ \E mask \in Masks : ForkRun(mask)

HsStep == HsRead \/ HsCas1 \/ HsCas2 \/ HsReturn

ProgramStep ==
    \/ Exit \/ Exec \/ Sigret
    \/ \E mask \in Masks : Sigprocmask(mask)
    \/ \E act \in Acts : Sigaction(act)

KillStep(s) ==
    \/ \E signum \in KillSigs : KillFind(s, signum)
    \/ KillCas(s) \/ KillOr(s) \/ KillLoad(s) \/ KillStore(s)

Next ==
    /\ \/ SlotStep \/ HsStep \/ ProgramStep \/ Tick \/ Preempt \/ Dispatch
       \/ \E s \in Senders : KillStep(s)
    /\ UNCHANGED smp

Spec == Init /\ [][Next]_vars

\* The clock ticks, the scheduler runs what it may run, and a process that
\* is dispatched again and again gets on with its system call.
FairSpec ==
    Spec /\ WF_vars(Tick /\ UNCHANGED smp) /\ WF_vars(Dispatch /\ UNCHANGED smp)
         /\ SF_vars(HsStep /\ UNCHANGED smp)

-----------------------------------------------------------------------------
IsContext(c) == /\ c.eax \in {"kept", "lost"}
                /\ \A i \in 1..Len(c.stack) :
                       c.stack[i] \in [sig : Sigs, mask : Word]

\* Types and ranges; handle_signals() indexes sig_handlers within its 32
\* entries and never has more than the word it read.
TypeOK ==
    /\ pid \in 0..MaxPid /\ nextpid \in 1..(MaxPid + 1)
    /\ {psignals, sigmask, sigmask_backup, expected} \subseteq Word
    /\ sig_handlers \in [Sigs -> Word]
    /\ IsContext(tf) /\ IsContext(tf_backup)
    /\ {killed, frozen, on, insys, insigret, nested, smp} \subseteq BOOLEAN
    /\ pc \in NoProc \cup {"user", "resched", "hs", "cas1", "cas2"}
    /\ sig \in 0..(SIG_MAX + 1)
    /\ kpc \in [Senders -> {"idle", "cas", "or", "store"}]
    /\ \A s \in Senders : kold[s] \in Word

\* A CAS of handle_signals() succeeds.
TakesSignal == pc \in {"cas1", "cas2"} /\ pc' = "hs" /\ sig \in psignals \ psignals'

KeepsSignals ==
    \/ psignals \subseteq psignals'
    \/ TakesSignal /\ psignals \ psignals' = {sig}
    \/ pc = "embryo" /\ pc' = "inited"

\* No pending signal disappears but by a CAS of handle_signals() that takes
\* exactly that signal, or with the process it was for: concurrent calls of
\* kill() and handle_signals() do not overwrite each other's bits.
NoLostSignal == [][KeepsSignals]_vars

InventsNone ==
    \A x \in psignals' \ psignals :
        \E s \in Senders : kpc[s] = "or" /\ kpc'[s] = "idle" /\ karg[s].signum = x

\* The same on a machine with one CPU, where |= is one instruction; and no
\* signal becomes pending but by a kill() of it: one that was taken is not
\* taken a second time.
NoLostSignalUp == [][smp \/ (KeepsSignals /\ InventsNone)]_vars

\* handle_signals() acts on every SIGKILL and SIGSTOP it takes from psignals,
\* whatever the mask; their handlers are the default ones.
KernelSignalsActed ==
    [][TakesSignal =>
          /\ (SIGKILL \in psignals \ psignals' => killed')
          /\ (SIGSTOP \in psignals \ psignals' => frozen')]_vars

\* As long as no handler was entered inside another, sigret() resumes the
\* interrupted context with the mask it had.
SigretRestores ==
    [][insigret' /\ ~insigret /\ ~nested =>
          /\ tf'.stack = SubSeq(tf.stack, 1, Len(tf.stack) - 1)
          /\ sigmask' = tf.stack[Len(tf.stack)].mask]_vars

\* On one CPU a process with SIGKILL pending ends, though it be stopped or block every
\* signal.  The exception is a SIGSTOP taken after the SIGKILL: the process is
\* then both killed and frozen and may never be dispatched (Proc!KilledExits).
SigkillTerminates ==
    (~smp /\ Live /\ SIGKILL \in psignals) ~> (~Live \/ (killed /\ frozen))

\* On one CPU a process stopped by its clock tick that gets SIGCONT, with the
\* default handler and not blocked, is continued unless it exits.
ContResumes ==
    (/\ ~smp /\ pc = "resched" /\ frozen /\ SIGCONT \in psignals \ sigmask
     /\ sig_handlers[SIGCONT] = SIG_DFL) ~> (~frozen \/ ~Live)

\* "signal sig is pending and is not blocked" (proc.c:963): the second CAS
\* takes no signal the mask blocks.
BlockedNotHandled ==
    [][pc = "cas2" /\ TakesSignal => ~Blocks(sig)]_vars

\* SIGKILL and SIGSTOP "cannot be modified" (proc.c:860).
KernelSignalsDefault ==
    sig_handlers[SIGKILL] = SIG_DFL /\ sig_handlers[SIGSTOP] = SIG_DFL

\* sigret() brings "the process to its original workflow" (proc.c:764): the
\* context the returning handler had interrupted.
SigretResumes ==
    [][insigret' /\ ~insigret =>
          tf'.stack = SubSeq(tf.stack, 1, Len(tf.stack) - 1)]_vars

\* "trapframe restore" (proc.c:986): what resumes in user mode has the
\* registers it was interrupted with.
RegistersRestored == pc = "user" => tf.eax = "kept"

\* "Kill the process with the given pid" (proc.c:716): the process whose
\* psignals kill() writes is the one with the pid it was called for.
KillsThePid == \A s \in Senders : kpc[s] \in {"or", "store"} => pid = karg[s].pid
=============================================================================
