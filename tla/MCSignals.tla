----------------------------- MODULE MCSignals -----------------------------
(* Instances of Signals: signals 0 and 1 (the one kill() drops), SIGKILL,  *)
(* SIGSTOP and SIGCONT; a handler is an address, a word with several bits. *)
EXTENDS Signals

H == {3, 4}
Act(s, h, m) == [signum |-> s, sa_handler |-> h, sigmask |-> m]

\* A handler for 0, signal 0 ignored, and a call that is refused.
ActsPlain == {Act(0, H, {}), Act(0, SIG_IGN, {}), Act(2, H, {})}

MasksAll == {{}, Sigs}
MasksCode == {{}, {0}}
=============================================================================
