------------------------------ MODULE SysvSem ------------------------------
(***************************************************************************)
(* Semaphore sets of System V as the functions of lib_sysv_sem.c use them. *)
(* The kernel's side is external: at most one set exists under the key at  *)
(* a time, a removed set's identifier is never used again.  Every          *)
(* operation of the library carries SEM_UNDO.                              *)
(*                                                                         *)
(* A call that cannot go on puts its process to sleep on the semaphore;    *)
(* the process returns from the call once it no longer sleeps (Asleep).    *)
(* No caller looks at what a call returns, so a failed call is a return.   *)
(***************************************************************************)
EXTENDS Integers, Sequences, SequencesExt

CONSTANTS Procs,  \* processes
          Sems    \* the numbers of the semaphores of the set

VARIABLES setid,   \* identifier of the set that exists, or 0
          lastid,  \* identifiers used so far: 1 .. lastid
          semval,  \* value of each semaphore
          semadj,  \* what the exit of a process adds to a semaphore
          pwait,   \* processes asleep until a semaphore is positive, in order
          zwait    \* processes asleep until a semaphore is zero

sysv == <<setid, lastid, semval, semadj, pwait, zwait>>

NoAdj == [p \in Procs |-> [s \in Sems |-> 0]]

SysvInit == /\ setid = 0 /\ lastid = 0
            /\ semval = [s \in Sems |-> 0]
            /\ semadj = NoAdj
            /\ pwait = [s \in Sems |-> <<>>]
            /\ zwait = [s \in Sems |-> {}]

Asleep(p) == \E s \in Sems : p \in ToSet(pwait[s]) \cup zwait[s]

Least(a, b) == IF a <= b THEN a ELSE b

\* The kernel stores the values val and the adjustments adj, then completes,
\* in one step and in order, every sleeping operation that can go on; those
\* that wait for zero go on whenever a value passes through zero.
Settle(val, adj, asleep, zasleep) ==
  LET Served(s) == Least(val[s], Len(asleep[s]))
      IsServed(p, s) == \E k \in 1 .. Served(s) : asleep[s][k] = p
  IN  /\ semval' = [s \in Sems |-> val[s] - Served(s)]
      /\ pwait' = [s \in Sems |->
                     SubSeq(asleep[s], Served(s) + 1, Len(asleep[s]))]
      /\ zwait' = [s \in Sems |->
                     IF val[s] = Served(s) THEN {} ELSE zasleep[s]]
      /\ semadj' = [p \in Procs |-> [s \in Sems |->
                      adj[p][s] + IF IsServed(p, s) THEN 1 ELSE 0]]
----------------------------------------------------------------------------
(* sysv_semget: the exclusive creation, the attachment to a set that exists*)
(* and the initialisation of a new set are three system calls.             *)

SemCreate == /\ setid = 0
             /\ lastid' = lastid + 1
             /\ setid' = lastid + 1
             /\ semval' = [s \in Sems |-> 0]
             /\ semadj' = NoAdj
             /\ UNCHANGED <<pwait, zwait>>

SemSetAll(id, v) ==
  /\ IF id = setid THEN Settle([s \in Sems |-> v], NoAdj, pwait, zwait)
                   ELSE UNCHANGED <<semval, semadj, pwait, zwait>>
  /\ UNCHANGED <<setid, lastid>>

\* IPC_RMID: the sleepers return with an error, the adjustments are void.
sysv_semrm(id) ==
  /\ IF id = setid
     THEN /\ setid' = 0
          /\ semval' = [s \in Sems |-> 0]
          /\ semadj' = NoAdj
          /\ pwait' = [s \in Sems |-> <<>>]
          /\ zwait' = [s \in Sems |-> {}]
     ELSE UNCHANGED <<setid, semval, semadj, pwait, zwait>>
  /\ UNCHANGED lastid

\* Slip: a wait without SEM_UNDO.
sysv_semwait_NoUndo(p, id, s) ==
  /\ CASE id # setid -> UNCHANGED <<semval, semadj, pwait, zwait>>
       [] id = setid /\ semval[s] > 0 ->
            Settle([semval EXCEPT ![s] = @ - 1], semadj, pwait, zwait)
       [] id = setid /\ semval[s] = 0 ->
            /\ pwait' = [pwait EXCEPT ![s] = Append(@, p)]
            /\ UNCHANGED <<semval, semadj, zwait>>
  /\ UNCHANGED <<setid, lastid>>

\* Slip: a wait that takes what is not there.
sysv_semwait_NoBlock(p, id, s) ==
  /\ semval' = [semval EXCEPT ![s] = @ - 1]
  /\ semadj' = [semadj EXCEPT ![p][s] = @ + 1]
  /\ UNCHANGED <<setid, lastid, pwait, zwait>>

sysv_semwait(p, id, s) ==
  /\ CASE id # setid -> UNCHANGED <<semval, semadj, pwait, zwait>>
       [] id = setid /\ semval[s] > 0 ->
            Settle([semval EXCEPT ![s] = @ - 1],
                   [semadj EXCEPT ![p][s] = @ + 1], pwait, zwait)
       [] id = setid /\ semval[s] = 0 ->
            /\ pwait' = [pwait EXCEPT ![s] = Append(@, p)]
            /\ UNCHANGED <<semval, semadj, zwait>>
  /\ UNCHANGED <<setid, lastid>>

sysv_semzwait(p, id, s) ==
  /\ zwait' = IF id = setid /\ semval[s] # 0
              THEN [zwait EXCEPT ![s] = @ \cup {p}] ELSE zwait
  /\ UNCHANGED <<setid, lastid, semval, semadj, pwait>>

\* Slip: a post without SEM_UNDO.
sysv_sempost_NoUndo(p, id, s) ==
  /\ IF id = setid
     THEN Settle([semval EXCEPT ![s] = @ + 1], semadj, pwait, zwait)
     ELSE UNCHANGED <<semval, semadj, pwait, zwait>>
  /\ UNCHANGED <<setid, lastid>>

sysv_sempost(p, id, s) ==
  /\ IF id = setid
     THEN Settle([semval EXCEPT ![s] = @ + 1],
                 [semadj EXCEPT ![p][s] = @ - 1], pwait, zwait)
     ELSE UNCHANGED <<semval, semadj, pwait, zwait>>
  /\ UNCHANGED <<setid, lastid>>

\* The end of a process, by exit, abort or a signal, also while it sleeps:
\* its adjustments are made, no value goes below zero.
SemExit(p) ==
  LET val == [s \in Sems |-> IF semval[s] + semadj[p][s] < 0 THEN 0
                             ELSE semval[s] + semadj[p][s]]
      adj == [semadj EXCEPT ![p] = [s \in Sems |-> 0]]
      asleep == [s \in Sems |-> RemoveFirst(pwait[s], p)]
  IN  /\ Settle(val, adj, asleep, [s \in Sems |-> zwait[s] \ {p}])
      /\ UNCHANGED <<setid, lastid>>
----------------------------------------------------------------------------
SysvTypeOK == /\ lastid \in Nat /\ setid \in 0 .. lastid
              /\ semval \in [Sems -> Nat]
              /\ semadj \in [Procs -> [Sems -> Int]]
              /\ pwait \in [Sems -> Seq(Procs)]
              /\ zwait \in [Sems -> SUBSET Procs]
============================================================================
