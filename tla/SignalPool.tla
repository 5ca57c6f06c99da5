----------------------------- MODULE SignalPool -----------------------------
(***************************************************************************)
(* 11.linux_specific/io_signalfd_chld.c: the parent keeps a pool of        *)
(* children.  It reads SIGCHLD, of which one may stand for several, from a *)
(* signalfd, waits without blocking for whatever has a report, and forks a *)
(* child for one that has ended.                                           *)
(***************************************************************************)
EXTENDS Naturals, FiniteSets

CONSTANTS MaxPool,  \* MAX_POOL
          Pids      \* bound: the children the user may have, RLIMIT_NPROC

VARIABLES pcP,       \* the parent: "start", "read", "wait", "exit"
          started,   \* i, the children forked at the start
          is_refork,
          child,     \* of each pid: "free", "run", "stopped", "zombie"
          report,    \* pids of which a stop or a continue is to be reported
          sigchld,   \* SIGCHLD is pending
          surplus    \* history: reports of a stop or a continue that came
                     \* behind the report of an end
vars == <<pcP, started, is_refork, child, report, sigchld, surplus>>

Used == {p \in Pids : child[p] # "free"}
Zombies == {p \in Pids : child[p] = "zombie"}

Init == /\ pcP = "start" /\ started = 0 /\ is_refork = FALSE
        /\ child = [p \in Pids |-> "free"] /\ report = {}
        /\ sigchld = FALSE /\ surplus = 0
----------------------------------------------------------------------------
(* start_child, and the signals a child gets                               *)

Fork(table) == /\ \E q \in Pids : /\ table[q] = "free"
                                  /\ child' = [table EXCEPT ![q] = "run"]

NoFork(table) == \A q \in Pids : table[q] # "free"

Becomes(p, state) == /\ child' = [child EXCEPT ![p] = state]
                     /\ sigchld' = TRUE
                     /\ UNCHANGED <<pcP, started, is_refork, surplus>>

\* SIGTERM, read from sfd, or SIGKILL; what was to be reported is lost.
Ends(p) == /\ child[p] \in {"run", "stopped"} /\ Becomes(p, "zombie")
           /\ report' = report \ {p}

Stops(p) == /\ child[p] = "run" /\ Becomes(p, "stopped")
            /\ report' = report \cup {p}

Continues(p) == /\ child[p] = "stopped" /\ Becomes(p, "run")
                /\ report' = report \cup {p}

Outside == \E p \in Pids : Ends(p) \/ Stops(p) \/ Continues(p)
----------------------------------------------------------------------------
(* main                                                                    *)

Start == /\ pcP = "start" /\ started < MaxPool /\ Fork(child)
         /\ started' = started + 1
         /\ UNCHANGED <<pcP, is_refork, report, sigchld, surplus>>

Started == /\ pcP = "start" /\ started = MaxPool /\ pcP' = "read"
           /\ UNCHANGED <<started, is_refork, child, report, sigchld, surplus>>

Read == /\ pcP = "read" /\ sigchld /\ sigchld' = FALSE
        /\ is_refork' = FALSE /\ pcP' = "wait"
        /\ UNCHANGED <<started, child, report, surplus>>

\* Slip: one waitid for each SIGCHLD.
WaitEnded_One(p) == /\ pcP = "wait" /\ child[p] = "zombie"
                    /\ Fork([child EXCEPT ![p] = "free"])
                    /\ is_refork' = TRUE /\ pcP' = "read"
                    /\ UNCHANGED <<started, report, sigchld, surplus>>

\* CLD_EXITED, CLD_KILLED or CLD_DUMPED
WaitEnded(p) == /\ pcP = "wait" /\ child[p] = "zombie"
                /\ Fork([child EXCEPT ![p] = "free"])
                /\ is_refork' = TRUE
                /\ UNCHANGED <<pcP, started, report, sigchld, surplus>>

\* CLD_STOPPED or CLD_CONTINUED: is_refork is as the reports before left it.
WaitReport(p) == /\ pcP = "wait" /\ p \in report /\ report' = report \ {p}
                 /\ IF is_refork
                    THEN Fork(child) /\ surplus' = surplus + 1
                    ELSE UNCHANGED <<child, surplus>>
                 /\ UNCHANGED <<pcP, started, is_refork, sigchld>>

WaitNone == /\ pcP = "wait" /\ Zombies = {} /\ report = {} /\ pcP' = "read"
            /\ UNCHANGED <<started, is_refork, child, report, sigchld, surplus>>

\* fork fails: handle_error.
ForkFails == /\ pcP' = "exit" /\ NoFork(child)
             /\ \/ pcP = "start" /\ started < MaxPool
                \/ pcP = "wait" /\ is_refork /\ report # {}
             /\ UNCHANGED <<started, is_refork, child, report, sigchld, surplus>>

Parent == \/ Start \/ Started \/ Read \/ WaitNone \/ ForkFails
          \/ \E p \in Pids : WaitEnded(p) \/ WaitReport(p)

Next == Parent \/ (pcP # "exit" /\ Outside)
Spec == Init /\ [][Next]_vars
FairSpec == Spec /\ WF_vars(Parent)
----------------------------------------------------------------------------
\* Whatever ends, in whatever order and however many ends one SIGCHLD stands
\* for, when the parent sleeps no child is left unreaped and the pool is as
\* large as at the start, but for one child more for each stop or continue
\* that was reported behind an end (is_refork is not reset between reports).
PoolExact ==
  /\ pcP \in {"start", "read", "wait"} => Cardinality(Used) = started + surplus
  /\ pcP = "read" /\ ~sigchld => Zombies = {} /\ report = {}
============================================================================
