---------------------------- MODULE SysvPrograms ----------------------------
(***************************************************************************)
(* The programs on System V semaphores, one of them (program), with the    *)
(* variables of the others at rest: sysv_sem_counting.c, sysv_sem_graph.c, *)
(* and sysv_sem.c with sysv_sem_waitforzero.c.                             *)
(***************************************************************************)
EXTENDS Integers, Sequences, FiniteSets

CONSTANTS Programs,                                  \* those that are looked at
          Main, MaxRestarts,
          MaxChild, AbortIdx, NCount,                \* SysvCounting
          A, B, C, D, E,                             \* SysvGraph
          Mains, ForkOrder, Aborters, ZeroWaiters, SemValue  \* SysvCritical

VARIABLES program,
          setid, lastid, semval, semadj, pwait, zwait,  \* SysvSem
          pcM, restarts, created,                       \* of a main() that is
                                                        \* started again
          semid, pc, i,                                 \* SysvCounting
          ip, calling, gone,                            \* SysvGraph
          value                                         \* SysvCritical

ChildrenAndMain == (0 .. MaxChild - 1) \cup {Main}
GraphProcs == {Main, A, B, C, D, E}
Families == UNION {{ForkOrder[m][k] : k \in DOMAIN ForkOrder[m]} : m \in Mains}
RunProcs == Mains \cup Families

Counting == INSTANCE SysvCounting WITH Procs <- ChildrenAndMain, Sems <- {0}
Graph == INSTANCE SysvGraph WITH Procs <- GraphProcs, Sems <- 0 .. 3
Critical == INSTANCE SysvCritical WITH Procs <- RunProcs, Sems <- {0}

ASSUME ProgramsAssumption ==
  /\ Programs \subseteq {"counting", "graph", "critical"}
  /\ Counting!CountingFits /\ Graph!GraphFits /\ Critical!CriticalFits

kernel == <<setid, lastid, semval, semadj, pwait, zwait>>
criticalVars == <<kernel, semid, pc, value>>
graphOnly == <<ip, calling, gone>>
restarting == <<pcM, restarts, created>>
vars == <<program, kernel, restarting, semid, pc, i, graphOnly, value>>

Rest == 0

Init ==
  /\ program \in Programs
  /\ \/ /\ program = "counting" /\ Counting!Init
        /\ ip = Rest /\ calling = Rest /\ gone = Rest /\ value = Rest
     \/ /\ program = "graph" /\ Graph!Init
        /\ i = Rest /\ pc = Rest /\ value = Rest
     \/ /\ program = "critical" /\ Critical!Init
        /\ pcM = Rest /\ restarts = Rest /\ created = Rest /\ i = Rest
        /\ ip = Rest /\ calling = Rest /\ gone = Rest

InCounting == program = "counting" /\ UNCHANGED <<program, graphOnly, value>>
InGraph == program = "graph" /\ UNCHANGED <<program, pc, i, value>>
InCritical == program = "critical" /\ UNCHANGED <<program, restarting, i, graphOnly>>

Next == \/ InCounting /\ Counting!Next
        \/ InGraph /\ Graph!Next
        \/ InCritical /\ Critical!Next

Spec == Init /\ [][Next]_vars

\* In the runs of sysv_sem.c the scheduler runs every process that is not
\* asleep; nobody promises a signal or a failed fork.
FairSpec ==
  /\ Spec
  /\ \A m \in Mains : WF_criticalVars(program = "critical" /\ Critical!MainStep(m))
  /\ \A p \in Families : WF_criticalVars(program = "critical" /\ Critical!ChildStep(p))
-----------------------------------------------------------------------------
\* The processes of each program and the kernel keep their values in range:
\* nobody takes a permit that is not there.
TypeOK == /\ program = "counting" => Counting!TypeOK
          /\ program = "graph" => Graph!TypeOK
          /\ program = "critical" => Critical!TypeOK

\* process_child of sysv_sem_counting.c: no more than n_count at a time, and no
\* permit too many, in a run that created its semaphore.
PermitsBounded ==
  program = "counting" => Counting!OwnBounded /\ Counting!NoExtraPermit

\* proc_a ... proc_e of sysv_sem_graph.c enter in the order of the graph in a
\* run that created its set.
GraphOrder == program = "graph" => Graph!GraphOrder

\* Permits of sysv_sem.c and sysv_sem_waitforzero.c are neither lost nor made,
\* and so no more children are in the section than there were permits: see
\* SysvCritical.
PermitsConserved == program = "critical" => Critical!PermitsConserved

\* The zero waiter of sysv_sem_waitforzero.c gets through only when all permits
\* are held: see SysvCritical.
ZeroMeansFull == [][program = "critical" => Critical!PassesWhenFull]_vars

\* Every run of sysv_sem.c and sysv_sem_waitforzero.c ends: see SysvCritical.
RunEnds ==
  \A m \in Mains : \/ <>(program = "critical" => Critical!Over(m))
                   \/ <>[](program = "critical" /\ Critical!Forsaken(m))
=============================================================================
