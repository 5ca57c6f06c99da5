---------------------------- MODULE SysvCritical ----------------------------
(***************************************************************************)
(* sysv_sem.c and sysv_sem_waitforzero.c: main() creates a semaphore or    *)
(* attaches to the one under the key, forks children that pass through a   *)
(* critical section, waits for them and removes the semaphore.  The third  *)
(* child aborts inside the section, and a signal may kill any child        *)
(* anywhere: SEM_UNDO gives back what it held.  The second program forks,  *)
(* first, a process that waits until the value is zero.                    *)
(*                                                                         *)
(* A run of one of the programs is named by its main process.  The two     *)
(* programs use the same key, so that runs may share a semaphore.          *)
(***************************************************************************)
EXTENDS SysvSem, FiniteSets

CONSTANTS Mains,       \* the main processes
          ForkOrder,   \* the processes each of them forks, in order
          Aborters,    \* the children with idx_child = 2
          ZeroWaiters, \* the processes that run handle_waitforzero
          SemValue     \* each run's sem_value: 1, or 2 with a zero waiter

Family(m) == ToSet(ForkOrder[m])
Forked == UNION {Family(m) : m \in Mains}
Children == Forked \ ZeroWaiters     \* they run handle_criticalsect

\* What the constants have to be.
CriticalFits ==
  /\ Sems = {0} /\ Procs = Mains \cup Forked /\ Mains \cap Forked = {}
  /\ Aborters \subseteq Children /\ ZeroWaiters \subseteq Forked
  /\ \A m, n \in Mains : m # n => Family(m) \cap Family(n) = {}
  /\ SemValue \in [Mains -> Nat \ {0}]

VARIABLES pc,     \* what each process does next
          semid,  \* sem_id, which a run's processes share since the fork
          value   \* history: the sem_value of the run that created the set

vars == <<sysv, pc, semid, value>>

Goto(p, l) == pc' = [pc EXCEPT ![p] = l]

Init == /\ SysvInit
        /\ pc = [p \in Procs |-> IF p \in Mains THEN "create" ELSE "unborn"]
        /\ semid = [p \in Procs |-> 0]
        /\ value = 0
----------------------------------------------------------------------------
(* main() and sysv_semget.                                                 *)

\* Slip: a new semaphore is not initialised.
MainCreate_NoInit(m) == /\ pc[m] = "create" /\ SemCreate
                        /\ semid' = [semid EXCEPT ![m] = setid']
                        /\ value' = SemValue[m]
                        /\ Goto(m, "fork")

MainCreate(m) == /\ pc[m] = "create"
                 /\ \/ /\ SemCreate
                       /\ semid' = [semid EXCEPT ![m] = setid']
                       /\ value' = SemValue[m]
                       /\ Goto(m, "setall")
                    \/ /\ setid # 0
                       /\ Goto(m, "attach")
                       /\ UNCHANGED <<sysv, semid, value>>

\* semget(key, 0, 0) fails, and sem_id is -1, when the set has gone again.
MainAttach(m) ==
  /\ pc[m] = "attach"
  /\ semid' = [semid EXCEPT ![m] = IF setid = 0 THEN -1 ELSE setid]
  /\ Goto(m, "fork")
  /\ UNCHANGED <<sysv, value>>

MainSetAll(m) == /\ pc[m] = "setall"
                 /\ SemSetAll(semid[m], SemValue[m])
                 /\ Goto(m, "fork")
                 /\ UNCHANGED <<semid, value>>

\* The process of a family that main() forks next.
IsNext(m, p) == \E k \in DOMAIN ForkOrder[m] :
                 /\ p = ForkOrder[m][k] /\ pc[p] = "unborn"
                 /\ \A n \in 1 .. k - 1 : pc[ForkOrder[m][n]] # "unborn"

MainFork(m) == /\ pc[m] = "fork"
               /\ \E p \in Family(m) :
                    /\ IsNext(m, p)
                    /\ Goto(p, "start")
                    /\ semid' = [semid EXCEPT ![p] = semid[m]]
               /\ UNCHANGED <<sysv, value>>

\* A failed fork ends the program, but for that of the zero waiter, which
\* nobody looks at.
MainForkFail(m) == /\ pc[m] = "fork"
                   /\ \E p \in Family(m) :
                        /\ IsNext(m, p)
                        /\ IF p \in ZeroWaiters
                           THEN Goto(p, "done") /\ UNCHANGED sysv
                           ELSE Goto(m, "failed") /\ SemExit(m)
                   /\ UNCHANGED <<semid, value>>

MainReap(m) == /\ pc[m] = "fork"
               /\ \A p \in Family(m) : pc[p] = "done"
               /\ sysv_semrm(semid[m])
               /\ Goto(m, "end")
               /\ UNCHANGED <<semid, value>>
----------------------------------------------------------------------------
(* handle_criticalsect and handle_waitforzero.                             *)

SectionWait(p) == /\ pc[p] = "start" /\ p \in Children
                  /\ sysv_semwait(p, semid[p], 0)
                  /\ Goto(p, "waiting")
                  /\ UNCHANGED <<semid, value>>

SectionEnter(p) == /\ pc[p] = "waiting" /\ p \in Children /\ ~Asleep(p)
                   /\ Goto(p, "section")
                   /\ UNCHANGED <<sysv, semid, value>>

SectionAbort(p) == /\ pc[p] = "section" /\ p \in Aborters
                   /\ SemExit(p)
                   /\ Goto(p, "done")
                   /\ UNCHANGED <<semid, value>>

SectionPost(p) == /\ pc[p] = "section" /\ p \notin Aborters
                  /\ sysv_sempost(p, semid[p], 0)
                  /\ Goto(p, "exit")
                  /\ UNCHANGED <<semid, value>>

ZeroWait(p) == /\ pc[p] = "start" /\ p \in ZeroWaiters
               /\ sysv_semzwait(p, semid[p], 0)
               /\ Goto(p, "waiting")
               /\ UNCHANGED <<semid, value>>

ZeroReturn(p) == /\ pc[p] = "waiting" /\ p \in ZeroWaiters /\ ~Asleep(p)
                 /\ Goto(p, "exit")
                 /\ UNCHANGED <<sysv, semid, value>>

Exit(p) == /\ pc[p] = "exit"
           /\ SemExit(p)
           /\ Goto(p, "done")
           /\ UNCHANGED <<semid, value>>

\* A signal from outside ends a child, asleep or not.
Kill(p) == /\ pc[p] \in {"start", "waiting", "section", "exit"}
           /\ SemExit(p)
           /\ Goto(p, "done")
           /\ UNCHANGED <<semid, value>>
----------------------------------------------------------------------------
MainStep(m) == \/ MainCreate(m) \/ MainAttach(m) \/ MainSetAll(m)
               \/ MainFork(m) \/ MainReap(m)

ChildStep(p) == \/ SectionWait(p) \/ SectionEnter(p) \/ SectionAbort(p)
                \/ SectionPost(p) \/ ZeroWait(p) \/ ZeroReturn(p) \/ Exit(p)

Ended == /\ \A m \in Mains : pc[m] \in {"end", "failed"}
         /\ \A p \in Forked : pc[p] \in {"done", "unborn"}
         /\ UNCHANGED vars

Next == \/ \E m \in Mains : MainStep(m) \/ MainForkFail(m)
        \/ \E p \in Forked : ChildStep(p) \/ Kill(p)
        \/ Ended

Spec == Init /\ [][Next]_vars

\* The scheduler runs every process that is not asleep; nobody promises a
\* signal or a failed fork.
FairSpec == /\ Spec
            /\ \A m \in Mains : WF_vars(MainStep(m))
            /\ \A p \in Forked : WF_vars(ChildStep(p))
----------------------------------------------------------------------------
\* Every process is in a state of its function, the kernel's values are in
\* range: nobody takes a permit that is not there.
TypeOK ==
  /\ SysvTypeOK
  /\ pc \in [Procs ->
               {"create", "attach", "setall", "fork", "failed", "end",
                "unborn", "start", "waiting", "section", "exit", "done"}]
  /\ semid \in [Procs -> -1 .. lastid]
  /\ value \in Nat

\* The semaphore exists and the run that created it has set its value.
Ready == /\ setid # 0
         /\ \A m \in Mains : semid[m] = setid => pc[m] # "setall"

Holders == {p \in Procs : semadj[p][0] = 1}

\* The children in the section that came in through the semaphore that exists.
Inside == {p \in Children : pc[p] = "section" /\ semid[p] = setid}

\* Permits are neither lost nor made: the value of an initialised semaphore
\* and the processes that hold a permit make the value it was created with,
\* whoever aborted or was killed, before the section, inside or after the post
\* (SEM_UNDO in sysv_semwait and sysv_sempost).  So no more children are in the
\* section of handle_criticalsect than the semaphore was created for, also when
\* a second run has attached to it; those whose wait failed because a run
\* removed the semaphore are not counted.
PermitsConserved ==
  Ready => /\ semval[0] + Cardinality(Holders) = value
           /\ Inside \subseteq Holders

\* "semval becomes 0" (handle_waitforzero): the zero waiter gets through only
\* when all permits of the semaphore are held at that moment, once it has been
\* initialised.
PassesWhenFull ==
  \A z \in ZeroWaiters :
    /\ pc[z] = "start" \/ Asleep(z)
    /\ pc'[z] = "waiting" /\ ~Asleep(z)'
    /\ semid[z] = setid' /\ Ready
    => Cardinality(Holders') = value'

\* A run ends: every child gets its turn although others abort and are killed,
\* and main() removes the semaphore, unless fork fails, or the run's zero
\* waiter sleeps for ever because the permits are never all held again.
Over(m) == pc[m] \in {"end", "failed"}
Forsaken(m) == \E z \in ZeroWaiters \cap Family(m) : Asleep(z)

RunEnds == \A m \in Mains : <>Over(m) \/ <>[]Forsaken(m)
============================================================================
