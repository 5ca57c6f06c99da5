----------------------------- MODULE SysvGraph -----------------------------
(***************************************************************************)
(* sysv_sem_graph.c: five processes that start work in the order of a      *)
(* graph, A before B and C, C before D, B and D before E, by waits and     *)
(* posts on four semaphores that start at zero.  A signal may kill any     *)
(* process, and the program may be run again on the set a killed run left. *)
(***************************************************************************)
EXTENDS SysvSem

CONSTANTS Main, A, B, C, D, E,  \* main() and the processes of funclist[]
          MaxRestarts           \* bound: runs after the first one; signals
                                \* arrive in the runs before the last one

Workers == {A, B, C, D, E}

VARIABLES pcM, semid,  \* main(): what it does next, and sem_id
          ip,          \* each process: the number of its next call, 0: unborn
          calling,     \* processes inside a call, or killed there
          gone,        \* processes that have ended
          restarts,
          created      \* history: this run of main() made the set

vars == <<sysv, pcM, semid, ip, calling, gone, restarts, created>>

\* funclist[]: the order of the forks.
FuncList == <<E, D, C, B, A>>

\* What the constants have to be.
GraphFits == /\ Procs = Workers \cup {Main} /\ Main \notin Workers
             /\ IsInjective(FuncList)
             /\ Sems = 0 .. 3      \* cnt_sem_proc
             /\ MaxRestarts \in Nat

\* The calls of proc_a ... proc_e, in order.
Call(op, s) == [op |-> op, sem |-> s]
Script == [p \in Workers |->
  CASE p = A -> <<Call("post", 0), Call("post", 0)>>
    [] p = B -> <<Call("wait", 0), Call("post", 1)>>
    [] p = C -> <<Call("wait", 0), Call("post", 2)>>
    [] p = D -> <<Call("wait", 2), Call("post", 3)>>
    [] p = E -> <<Call("wait", 1), Call("wait", 3)>>]
----------------------------------------------------------------------------
Init == /\ SysvInit
        /\ pcM = "get" /\ semid = 0
        /\ ip = [p \in Workers |-> 0]
        /\ calling = {} /\ gone = {}
        /\ restarts = 0 /\ created = FALSE

\* The first or, when the set exists, the second semget.
MainGet == /\ pcM = "get"
           /\ \/ SemCreate /\ pcM' = "set" /\ created' = TRUE
              \/ setid # 0 /\ pcM' = "fork" /\ UNCHANGED <<sysv, created>>
           /\ semid' = setid'
           /\ UNCHANGED <<ip, calling, gone, restarts>>

MainSetAll == /\ pcM = "set"
              /\ SemSetAll(semid, 0)
              /\ pcM' = "fork"
              /\ UNCHANGED <<semid, ip, calling, gone, restarts, created>>

MainFork == /\ pcM = "fork"
            /\ \E k \in 1 .. Len(FuncList) :
                 /\ \A n \in 1 .. Len(FuncList) :
                      ip[FuncList[n]] = 0 <=> n >= k
                 /\ ip' = [ip EXCEPT ![FuncList[k]] = 1]
                 /\ pcM' = IF k = Len(FuncList) THEN "reap" ELSE "fork"
            /\ UNCHANGED <<sysv, semid, calling, gone, restarts, created>>

\* fork() fails: the program ends, the processes that exist go on.
MainForkFail == /\ pcM = "fork"
                /\ SemExit(Main)
                /\ pcM' = "gone"
                /\ gone' = gone \cup {Main}
                /\ UNCHANGED <<semid, ip, calling, restarts, created>>

MainReap == /\ pcM = "reap" /\ Workers \subseteq gone
            /\ sysv_semrm(semid)
            /\ pcM' = "end"
            /\ UNCHANGED <<semid, ip, calling, gone, restarts, created>>
----------------------------------------------------------------------------
Running(p) == ip[p] > 0 /\ p \notin gone /\ p \notin calling

WorkerCall(p) ==
  /\ Running(p) /\ ip[p] <= Len(Script[p])
  /\ LET call == Script[p][ip[p]]
     IN  \/ call.op = "wait" /\ sysv_semwait(p, semid, call.sem)
         \/ call.op = "post" /\ sysv_sempost(p, semid, call.sem)
  /\ calling' = calling \cup {p}
  /\ UNCHANGED <<pcM, semid, ip, gone, restarts, created>>

\* Slip: a call returns although its process was put to sleep.
WorkerReturn_Early(p) ==
  /\ p \in calling \ gone
  /\ calling' = calling \ {p}
  /\ ip' = [ip EXCEPT ![p] = @ + 1]
  /\ UNCHANGED <<sysv, pcM, semid, gone, restarts, created>>

WorkerReturn(p) ==
  /\ p \in calling \ gone /\ ~Asleep(p)
  /\ calling' = calling \ {p}
  /\ ip' = [ip EXCEPT ![p] = @ + 1]
  /\ UNCHANGED <<sysv, pcM, semid, gone, restarts, created>>

\* Slip: no exit() after func(), the child goes on behind the call.
WorkerExit_Missing(p) ==
  /\ Running(p) /\ ip[p] > Len(Script[p])
  /\ ip' = [ip EXCEPT ![p] = @ + 1]
  /\ UNCHANGED <<sysv, pcM, semid, calling, gone, restarts, created>>

WorkerExit(p) ==
  /\ Running(p) /\ ip[p] > Len(Script[p])
  /\ SemExit(p)
  /\ gone' = gone \cup {p}
  /\ UNCHANGED <<pcM, semid, ip, calling, restarts, created>>
----------------------------------------------------------------------------
KillMain == /\ restarts < MaxRestarts
            /\ pcM \notin {"end", "gone"}
            /\ SemExit(Main)
            /\ pcM' = "gone"
            /\ gone' = gone \cup {Main}
            /\ UNCHANGED <<semid, ip, calling, restarts, created>>

KillWorker(p) == /\ restarts < MaxRestarts
                 /\ ip[p] > 0 /\ p \notin gone
                 /\ SemExit(p)
                 /\ gone' = gone \cup {p}
                 /\ UNCHANGED <<pcM, semid, ip, calling, restarts, created>>

\* Once nothing of the last run is left.
Restart == /\ restarts < MaxRestarts
           /\ pcM \in {"end", "gone"}
           /\ \A p \in Workers : ip[p] = 0 \/ p \in gone
           /\ restarts' = restarts + 1
           /\ pcM' = "get" /\ semid' = 0
           /\ ip' = [p \in Workers |-> 0]
           /\ calling' = {} /\ gone' = {}
           /\ created' = FALSE
           /\ UNCHANGED sysv

MainStep == MainGet \/ MainSetAll \/ MainFork \/ MainReap
Worker(p) == WorkerCall(p) \/ WorkerReturn(p) \/ WorkerExit(p)
Failure == MainForkFail \/ KillMain \/ (\E p \in Workers : KillWorker(p))

Next == MainStep \/ (\E p \in Workers : Worker(p)) \/ Failure \/ Restart

Spec == Init /\ [][Next]_vars

\* Without failures from outside; the scheduler runs who is not asleep.
QuietSpec == /\ Init /\ [][MainStep \/ \E p \in Workers : Worker(p)]_vars
             /\ WF_vars(MainStep)
             /\ \A p \in Workers : WF_vars(Worker(p))
----------------------------------------------------------------------------
\* The processes keep their bookkeeping and the kernel's in range.
TypeOK == /\ SysvTypeOK
          /\ pcM \in {"get", "set", "fork", "reap", "end", "gone"}
          /\ semid \in 0 .. lastid
          /\ \A p \in Workers : ip[p] \in 0 .. Len(Script[p]) + 1
          /\ calling \subseteq Workers
          /\ gone \subseteq Workers \cup {Main}
          /\ restarts \in 0 .. MaxRestarts /\ created \in BOOLEAN

Entered(p) == ip[p] > 1                         \* "Enter: prev(...)"
Posted(p) == ip[p] > 2 \/ (p \in calling /\ ip[p] = 2)

\* "Enter: prev(A)", "prev(C)", "prev(B)", "prev(D)" (sysv_sem_graph.c:77-106):
\* no process enters before its predecessors in the graph have posted.
OrderKept ==
  /\ Entered(B) \/ Entered(C) => Entered(A) \/ A \in calling
  /\ Entered(D) => Posted(C)
  /\ Entered(E) => Posted(B)
  /\ ip[E] > 2 => Posted(B) /\ Posted(D)

\* In a run that created the set the order of the graph is kept, although the
\* end of a process takes its posts back and gives what it waited for to the
\* next, and any process may be killed anywhere (proc_a ... proc_e).
GraphOrder == created => OrderKept

\* "All Processes Completed!" (sysv_sem_graph.c:109): once all five are
\* created, process E completes.
Completes == pcM = "reap" ~> ip[E] > 2
============================================================================
