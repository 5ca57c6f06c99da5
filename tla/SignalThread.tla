---------------------------- MODULE SignalThread ----------------------------
(***************************************************************************)
(* Programs of 9.signal that take blocked signals when it suits them:      *)
(* pthread_sigwait.c in a thread of its own with sigwait, sig_pending.c in *)
(* a loop that looks with sigpending.                                      *)
(***************************************************************************)
EXTENDS Naturals, FiniteSets

Signals == {"USR1", "USR2", "TERM"}

VARIABLES style,    \* "sigwait" or "pending"
          pc,       \* pthread_sigwait.c: "mask", "create", "wait", "handler"
                    \* sig_pending.c: "mask", "sleep", "look", "scan", "restore"
          masked,   \* the signals are blocked in every thread
          pending,  \* signals of the process that wait
          found,    \* sigset_pend
          fate,     \* "alive", "exit", "killed"
          owed,     \* history: signals that came and were not handled since
          late      \* history: SIGUSR2 came after sig_pending.c had looked

vars == <<style, pc, masked, pending, found, fate, owed, late>>

Init == /\ style \in {"sigwait", "pending"} /\ pc = "mask"
        /\ masked = FALSE /\ pending = {} /\ found = {}
        /\ fate = "alive" /\ owed = {} /\ late = FALSE

Step(kind, from, to) == style = kind /\ pc = from /\ pc' = to
----------------------------------------------------------------------------
(* Somebody sends a signal.  In sig_pending.c SIGUSR1 has a handler and    *)
(* SIGUSR2 is ignored, yet both wait while they are blocked; SIGTERM is    *)
(* left to its default there.                                              *)

Default(s) == style = "sigwait" \/ s = "TERM"

Raise(s) ==
  /\ IF masked
     THEN pending' = pending \cup {s} /\ owed' = owed \cup {s} /\ UNCHANGED fate
     ELSE /\ fate' = IF Default(s) THEN "killed" ELSE fate
          /\ UNCHANGED <<pending, owed>>
  /\ late' = (late \/ (s = "USR2" /\ pc \in {"scan", "restore"}))
  /\ UNCHANGED <<style, pc, masked, found>>
----------------------------------------------------------------------------
(* pthread_sigwait.c                                                       *)

\* Slip: only start_sigthread blocks the signals, and the other threads do not.
SigMask_Late == /\ Step("sigwait", "mask", "create")
                /\ UNCHANGED <<style, masked, pending, found, fate, owed, late>>

SigMask == /\ Step("sigwait", "mask", "create") /\ masked' = TRUE
           /\ UNCHANGED <<style, pending, found, fate, owed, late>>

\* The threads inherit the mask; main() returns when one cannot be created.
SigCreate == /\ Step("sigwait", "create", "wait")
             /\ fate' \in {"alive", "exit"}
             /\ UNCHANGED <<style, masked, pending, found, owed, late>>

SigWait(s) == /\ s \in pending
              /\ Step("sigwait", "wait", IF s = "TERM" THEN "wait" ELSE "handler")
              /\ pending' = pending \ {s} /\ owed' = owed \ {s}
              /\ fate' = IF s = "TERM" THEN "exit" ELSE fate
              /\ UNCHANGED <<style, masked, found, late>>

\* sa_handler_usr, in the same thread: what comes meanwhile waits.
SigHandled == /\ Step("sigwait", "handler", "wait")
              /\ UNCHANGED <<style, masked, pending, found, fate, owed, late>>
----------------------------------------------------------------------------
(* sig_pending.c                                                           *)

Block == /\ Step("pending", "mask", "sleep") /\ masked' = TRUE
         /\ late' = FALSE
         /\ UNCHANGED <<style, pending, found, fate, owed>>

Sleep == /\ Step("pending", "sleep", "look")
         /\ UNCHANGED <<style, masked, pending, found, fate, owed, late>>

Look == /\ Step("pending", "look", "scan") /\ found' = pending
        /\ UNCHANGED <<style, masked, pending, fate, owed, late>>

\* Slip: the signals that were pending at the last look.
Scan_Stale == /\ Step("pending", "scan", "restore")
              /\ UNCHANGED <<style, masked, pending, found, fate, owed, late>>

\* sa_handler_usr(SIGUSR2) by hand: it stays pending.
Scan == /\ Step("pending", "scan", "restore")
        /\ owed' = owed \ (found \cap {"USR2"})
        /\ UNCHANGED <<style, masked, pending, found, fate, late>>

\* What is pending is delivered: the handler, nothing, or the end.
Restore == /\ Step("pending", "restore", "mask")
           /\ masked' = FALSE /\ pending' = {} /\ found' = {}
           /\ fate' = IF "TERM" \in pending THEN "killed" ELSE fate
           /\ owed' = owed \ ({"USR1", "TERM"} \cup {s \in {"USR2"} : late})
           /\ UNCHANGED <<style, late>>
----------------------------------------------------------------------------
Program == \/ SigMask \/ SigCreate \/ SigHandled \/ (\E s \in Signals : SigWait(s))
           \/ Block \/ Sleep \/ Look \/ Scan \/ Restore
Next == fate = "alive" /\ (Program \/ \E s \in Signals : Raise(s))
Spec == Init /\ [][Next]_vars
----------------------------------------------------------------------------
\* pthread_sigwait.c does not die of a signal once main() has blocked it, since
\* no thread is created before (main, pthread_sigmask).
SigNotKilled == style = "sigwait" /\ pc # "mask" => fate # "killed"

\* A signal that came is pending until it is handled, however many are one and
\* however long the handler takes.  sig_pending.c handles SIGUSR2 by hand and
\* drops the one that came after it had looked (sig_pending.c:38-52).
SignalsKept ==
  fate = "alive" => /\ owed \ {"USR2"} \subseteq pending
                    /\ ~late => owed \subseteq pending
============================================================================
