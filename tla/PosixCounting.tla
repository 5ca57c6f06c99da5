--------------------------- MODULE PosixCounting ---------------------------
(***************************************************************************)
(* posix_named_sem_cnt.c and posix_nameless_sem.c of 5.ipc/posix: main()   *)
(* takes a permit for each child before it creates it, and the child gives *)
(* it back.  Nothing undoes what a dead child has not given back.  The     *)
(* named semaphore outlives a program that is killed.                      *)
(***************************************************************************)
EXTENDS Naturals, FiniteSets

CONSTANTS Permits,   \* n_count
          MaxChild,  \* max_child, MAX_CHILD_THREAD
          Faulty,    \* the child that ends without giving its permit back: 11
          MaxRuns    \* bound: runs of the program

VARIABLES nameless,  \* posix_nameless_sem.c, whose children are threads
          exists,    \* the name of the semaphore
          value,     \* of the semaphore
          run, i,    \* the run, and the child it creates next
          pcM,       \* main(): "open", "wait", "create", "end", "gone"
          child,     \* "none", "work", "post", "done"
          lost       \* history: permits nobody will give back

vars == <<nameless, exists, value, run, i, pcM, child, lost>>

Kids == (1 .. MaxRuns) \X (0 .. MaxChild - 1)
Holders == {k \in Kids : child[k] \in {"work", "post"}}

Init == /\ nameless \in BOOLEAN /\ exists = FALSE /\ value = 0
        /\ run = 1 /\ i = 0 /\ pcM = "open"
        /\ child = [k \in Kids |-> "none"] /\ lost = 0
----------------------------------------------------------------------------
(* main                                                                    *)

\* Slip: the semaphore that exists gets its first value again.
MainOpen_Anew == /\ pcM = "open" /\ pcM' = "wait"
                 /\ exists' = TRUE /\ value' = Permits
                 /\ lost' = IF exists THEN lost ELSE 0
                 /\ UNCHANGED <<nameless, run, i, child>>

\* sem_open with O_EXCL, then without; sem_init.
MainOpen == /\ pcM = "open" /\ pcM' = "wait" /\ exists' = TRUE
            /\ IF exists THEN UNCHANGED <<value, lost>>
                         ELSE value' = Permits /\ lost' = 0
            /\ UNCHANGED <<nameless, run, i, child>>

MainWait == /\ pcM = "wait" /\ i < MaxChild /\ value > 0
            /\ pcM' = "create" /\ value' = value - 1
            /\ UNCHANGED <<nameless, exists, run, i, child, lost>>

MainCreate == /\ pcM = "create" /\ pcM' = "wait" /\ i' = i + 1
              /\ child' = [child EXCEPT ![<<run, i>>] = "work"]
              /\ UNCHANGED <<nameless, exists, value, run, lost>>

\* The end of main() without sem_unlink; the threads end with it.
Gone == /\ pcM' = "gone"
        /\ IF nameless
           THEN exists' = FALSE /\ child' = [k \in Kids |-> "none"]
           ELSE UNCHANGED <<exists, child>>
        /\ lost' = lost + (IF pcM = "create" THEN 1 ELSE 0)
        /\ UNCHANGED <<nameless, value, run, i>>

CreateFails == pcM = "create" /\ Gone

\* Every child is waited for, and the semaphore is removed.
MainReap == /\ pcM = "wait" /\ i = MaxChild /\ pcM' = "end"
            /\ \A k \in Holders : k[1] # run
            /\ exists' = FALSE
            /\ UNCHANGED <<nameless, value, run, i, child, lost>>

Main == MainOpen \/ MainWait \/ MainCreate \/ CreateFails \/ MainReap
----------------------------------------------------------------------------
(* process_child, start_child                                              *)

Ends(k) == /\ child' = [child EXCEPT ![k] = "done"]
           /\ UNCHANGED <<nameless, exists, run, i, pcM>>

Work(k) == /\ child[k] = "work" /\ k[2] # Faulty
           /\ child' = [child EXCEPT ![k] = "post"]
           /\ UNCHANGED <<nameless, exists, value, run, i, pcM, lost>>

\* abort() in the one program, return NULL in the other.
EndsEarly(k) == /\ child[k] = "work" /\ k[2] = Faulty /\ Ends(k)
                /\ lost' = lost + 1 /\ UNCHANGED value

Post(k) == /\ child[k] = "post" /\ Ends(k)
           /\ value' = value + 1 /\ UNCHANGED lost

Child(k) == Work(k) \/ EndsEarly(k) \/ Post(k)
----------------------------------------------------------------------------
(* From outside.                                                           *)

KillMain == pcM \in {"wait", "create"} /\ Gone

KillChild(k) == /\ k \in Holders /\ ~nameless /\ Ends(k)
                /\ lost' = lost + 1 /\ UNCHANGED value

\* The semaphore of a run that ended by itself is gone: what is left of its
\* predecessor's children is no matter of the next run.
Restart == /\ pcM = "gone" /\ run < MaxRuns
           /\ run' = run + 1 /\ i' = 0 /\ pcM' = "open"
           /\ UNCHANGED <<nameless, exists, value, child, lost>>

Failure == KillMain \/ Restart \/ \E k \in Kids : KillChild(k)

Running == Main \/ \E k \in Kids : Child(k)
Next == Running \/ Failure
Spec == Init /\ [][Next]_vars
FairSpec == Spec /\ WF_vars(Running)
----------------------------------------------------------------------------
\* A permit is free, held by a child or in main()'s hand, or lost with a child
\* that died or a main() that was killed between sem_wait and fork: none comes
\* twice, also when a run attaches to the semaphore of a killed one whose
\* children still hold permits (sem_open, sem_post).
PermitsKept ==
  exists => value + Cardinality(Holders)
              + (IF pcM = "create" THEN 1 ELSE 0) + lost = Permits

\* main() ends, unless all permits are lost and it waits for ever.
AllLost == pcM = "wait" /\ i < MaxChild /\ exists /\ lost = Permits
CountingOver == pcM \in {"end", "gone"} \/ AllLost
CountingEnds == <>[]CountingOver
============================================================================
