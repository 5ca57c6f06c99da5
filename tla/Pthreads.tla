------------------------------ MODULE Pthreads ------------------------------
(***************************************************************************)
(* The frame that the thread programs of 8.pthread share: main() creates   *)
(* NumThreads threads, joins them in order and returns, which ends the     *)
(* process.  What a thread does is left to the programs.                   *)
(***************************************************************************)
EXTENDS Naturals, FiniteSets

CONSTANT NumThreads  \* NUM_THREADS

ThereAreThreads == NumThreads \in Nat \ {0}

Idx == 0 .. NumThreads - 1

VARIABLES main,  \* "create", "join", "ended", or "failed": left early
          next,  \* i of the loops of main() and clean_thread
          th     \* place of each thread: "none", "start", ..., "gone", "joined"

threads == <<main, next, th>>

ThreadsInit == main = "create" /\ next = 0 /\ th = [t \in Idx |-> "none"]

ThreadsTypeOK(places) ==
  /\ main \in {"create", "join", "ended", "failed"} /\ next \in Idx
  /\ th \in [Idx -> {"none", "start", "gone", "joined"} \cup places]

At(t, place) == th[t] = place
Goto(t, place) == /\ th' = [th EXCEPT ![t] = place]
                  /\ UNCHANGED <<main, next>>

\* The process ends, and its threads with it.
ProcessEnds == /\ main' = "failed"
               /\ th' = [t \in Idx |-> "gone"]
               /\ UNCHANGED next

\* Slip: i is not set back for the second loop.
CreateThread_NoReset(t) == /\ main = "create"
                           /\ th' = [th EXCEPT ![t] = "start"]
                           /\ next' = next + 1
                           /\ main' = IF next' = NumThreads THEN "join" ELSE "create"

CreateThread(t) == /\ main = "create"
                   /\ th' = [th EXCEPT ![t] = "start"]
                   /\ next' = (next + 1) % NumThreads
                   /\ main' = IF next' = 0 THEN "join" ELSE "create"

CreateFails == main = "create" /\ ProcessEnds

JoinThread(t) == /\ main = "join" /\ At(t, "gone")
                 /\ next' = (next + 1) % NumThreads
                 /\ main' = IF next' = 0 THEN "ended" ELSE "join"
                 /\ th' = [th EXCEPT ![t] = "joined"]

Left == main \in {"ended", "failed"}
============================================================================
