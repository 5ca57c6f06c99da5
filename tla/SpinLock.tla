------------------------------ MODULE SpinLock ------------------------------
(***************************************************************************)
(* spinlock.c: each thread adds one to flag_spin under a spin lock.        *)
(***************************************************************************)
EXTENDS Pthreads

VARIABLES spinlock,   \* the threads that are past pthread_spin_lock
          flag_spin,
          seen        \* the value a thread adds one to

vars == <<threads, spinlock, flag_spin, seen>>

First == 101

Init == /\ ThreadsInit /\ spinlock = {} /\ flag_spin = First
        /\ seen = [t \in Idx |-> 0]
----------------------------------------------------------------------------
Create == /\ CreateThread(next) \/ CreateFails
          /\ UNCHANGED <<spinlock, flag_spin, seen>>

clean_thread == JoinThread(next) /\ UNCHANGED <<spinlock, flag_spin, seen>>

\* Slip: the lock is not looked at.
Acquire_Free(t) == /\ At(t, "start") /\ Goto(t, "locked")
                   /\ spinlock' = spinlock \cup {t}
                   /\ UNCHANGED <<flag_spin, seen>>

Acquire(t) == /\ At(t, "start") /\ spinlock = {} /\ Goto(t, "locked")
              /\ spinlock' = {t}
              /\ UNCHANGED <<flag_spin, seen>>

\* flag_spin++ is a read and a write.
Read(t) == /\ At(t, "locked") /\ Goto(t, "read")
           /\ seen' = [seen EXCEPT ![t] = flag_spin]
           /\ UNCHANGED <<spinlock, flag_spin>>

Write(t) == /\ At(t, "read") /\ Goto(t, "written")
            /\ flag_spin' = seen[t] + 1
            /\ UNCHANGED <<spinlock, seen>>

Release(t) == /\ At(t, "written") /\ Goto(t, "gone")
              /\ spinlock' = spinlock \ {t}
              /\ UNCHANGED <<flag_spin, seen>>

Thread(t) == Acquire(t) \/ Read(t) \/ Write(t) \/ Release(t)

Next == Create \/ clean_thread \/ \E t \in Idx : Thread(t)

Spec == Init /\ [][Next]_vars
----------------------------------------------------------------------------
\* No increment is lost: flag_spin has counted every thread that is past it.
FlagCounts ==
  main # "failed" =>
    flag_spin = First + Cardinality({t \in Idx :
                                       th[t] \in {"written", "gone", "joined"}})
============================================================================
