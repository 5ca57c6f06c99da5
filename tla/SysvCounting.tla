---------------------------- MODULE SysvCounting ----------------------------
(***************************************************************************)
(* sysv_sem_counting.c: main() takes a permit of a counting semaphore of   *)
(* value NCount before each fork, the child gives it back when its work is *)
(* done.  Wait and post are made by different processes, both with         *)
(* SEM_UNDO.  One child aborts; a signal may kill any process, and the     *)
(* program may be run again on the semaphore a killed run left.            *)
(***************************************************************************)
EXTENDS SysvSem, FiniteSets

CONSTANTS Main,         \* the process of main()
          MaxChild,     \* max_child
          AbortIdx,     \* the child that aborts in process_child
          NCount,       \* n_count
          MaxRestarts   \* bound: runs after the first one

Idx == 0 .. MaxChild - 1

\* What the constants have to be.
CountingFits == /\ Procs = Idx \cup {Main} /\ Main \notin Idx /\ Sems = {0}
                /\ MaxChild \in Nat /\ NCount \in Nat \ {0}
                /\ MaxRestarts \in Nat

VARIABLES pcM, semid,  \* main(): what it does next, and sem_id
          i,           \* main(): the children it has forked
          pc,          \* each child: what it does next
          restarts,
          created      \* history: this run of main() made the semaphore

vars == <<sysv, pcM, semid, i, pc, restarts, created>>

Init == /\ SysvInit
        /\ pcM = "get" /\ semid = 0 /\ i = 0
        /\ pc = [c \in Idx |-> "unborn"]
        /\ restarts = 0 /\ created = FALSE
----------------------------------------------------------------------------
MainGet == /\ pcM = "get"
           /\ \/ SemCreate /\ pcM' = "set" /\ created' = TRUE
              \/ setid # 0 /\ pcM' = "loop" /\ UNCHANGED <<sysv, created>>
           /\ semid' = setid'
           /\ UNCHANGED <<i, pc, restarts>>

MainSetAll == /\ pcM = "set"
              /\ SemSetAll(semid, NCount)
              /\ pcM' = "loop"
              /\ UNCHANGED <<semid, i, pc, restarts, created>>

\* Slip: the permit is not taken.
MainWait_None == /\ pcM = "loop" /\ i < MaxChild
                 /\ pcM' = "waiting"
                 /\ UNCHANGED <<sysv, semid, i, pc, restarts, created>>

MainWait == /\ pcM = "loop" /\ i < MaxChild
            /\ sysv_semwait(Main, semid, 0)
            /\ pcM' = "waiting"
            /\ UNCHANGED <<semid, i, pc, restarts, created>>

MainFork == /\ pcM = "waiting" /\ ~Asleep(Main)
            /\ pc' = [pc EXCEPT ![i] = "work"]
            /\ i' = i + 1
            /\ pcM' = "loop"
            /\ UNCHANGED <<sysv, semid, restarts, created>>

MainForkFail == /\ pcM = "waiting" /\ ~Asleep(Main)
                /\ SemExit(Main)
                /\ pcM' = "gone"
                /\ UNCHANGED <<semid, i, pc, restarts, created>>

MainReap == /\ pcM = "loop" /\ i = MaxChild
            /\ \A c \in Idx : pc[c] = "done"
            /\ sysv_semrm(semid)
            /\ pcM' = "end"
            /\ UNCHANGED <<semid, i, pc, restarts, created>>
----------------------------------------------------------------------------
\* process_child returns, or aborts; the post; the exit.
Work(c) == /\ pc[c] = "work"
           /\ IF c = AbortIdx
              THEN SemExit(c) /\ pc' = [pc EXCEPT ![c] = "done"]
              ELSE UNCHANGED sysv /\ pc' = [pc EXCEPT ![c] = "post"]
           /\ UNCHANGED <<pcM, semid, i, restarts, created>>

Post(c) == /\ pc[c] = "post"
           /\ sysv_sempost(c, semid, 0)
           /\ pc' = [pc EXCEPT ![c] = "exit"]
           /\ UNCHANGED <<pcM, semid, i, restarts, created>>

Exit(c) == /\ pc[c] = "exit"
           /\ SemExit(c)
           /\ pc' = [pc EXCEPT ![c] = "done"]
           /\ UNCHANGED <<pcM, semid, i, restarts, created>>
----------------------------------------------------------------------------
KillChild(c) == /\ pc[c] \in {"work", "post", "exit"}
                /\ SemExit(c)
                /\ pc' = [pc EXCEPT ![c] = "done"]
                /\ UNCHANGED <<pcM, semid, i, restarts, created>>

KillMain == /\ pcM \notin {"end", "gone"}
            /\ SemExit(Main)
            /\ pcM' = "gone"
            /\ UNCHANGED <<semid, i, pc, restarts, created>>

Restart == /\ restarts < MaxRestarts
           /\ pcM \in {"end", "gone"}
           /\ \A c \in Idx : pc[c] \in {"unborn", "done"}
           /\ restarts' = restarts + 1
           /\ pcM' = "get" /\ semid' = 0 /\ i' = 0
           /\ pc' = [c \in Idx |-> "unborn"]
           /\ created' = FALSE
           /\ UNCHANGED sysv

MainStep == MainGet \/ MainSetAll \/ MainWait \/ MainFork \/ MainReap
ChildStep(c) == Work(c) \/ Post(c) \/ Exit(c)
Failure == MainForkFail \/ KillMain \/ (\E c \in Idx : KillChild(c))

Next == MainStep \/ (\E c \in Idx : ChildStep(c)) \/ Failure \/ Restart

Spec == Init /\ [][Next]_vars
----------------------------------------------------------------------------
\* The processes and the kernel keep their values in range.
TypeOK ==
  /\ SysvTypeOK
  /\ pcM \in {"get", "set", "loop", "waiting", "end", "gone"}
  /\ semid \in 0 .. lastid /\ i \in 0 .. MaxChild
  /\ pc \in [Idx -> {"unborn", "work", "post", "exit", "done"}]
  /\ restarts \in 0 .. MaxRestarts /\ created \in BOOLEAN

Active == {c \in Idx : pc[c] \in {"work", "post"}}

\* "[Counting semaphore] (n_count)" (sysv_sem_counting.c:27): no more than
\* n_count children work at a time.
CountBounded == Cardinality(Active) <= NCount

\* In a run that created its semaphore no more than n_count children work at a
\* time, whoever aborted or was killed (main, process_child).
OwnBounded == created => CountBounded

\* In such a run there is never a permit too many: each is with the semaphore,
\* with main() between its wait and its fork, or with a child at work, although
\* the kernel undoes the wait and the post of different processes at different
\* times.
NoExtraPermit ==
  created /\ pcM \in {"loop", "waiting"} =>
    semval[0] + Cardinality(Active)
      + (IF pcM = "waiting" /\ ~Asleep(Main) THEN 1 ELSE 0) <= NCount
==============================================================================
