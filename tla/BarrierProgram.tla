--------------------------- MODULE BarrierProgram ---------------------------
(***************************************************************************)
(* barrier.c: NumThreads threads meet at a barrier made for one less.      *)
(***************************************************************************)
EXTENDS Pthreads

Init == ThreadsInit

\* Slip: the barrier is made for all threads.
Count_All == NumThreads

\* pthread_barrier_init.
Count == NumThreads - 1

Waiting == {t \in Idx : At(t, "wait")}
----------------------------------------------------------------------------
Create == CreateThread(next) \/ CreateFails

clean_thread == JoinThread(next)

\* The thread that completes the round wakes the others, and one of them, or
\* it, is told so (PTHREAD_BARRIER_SERIAL_THREAD).
Arrive(t) ==
  /\ At(t, "start")
  /\ LET round == Waiting \cup {t}
     IN  IF Cardinality(round) = Count
         THEN \E serial \in round :
                th' = [u \in Idx |-> IF u = serial THEN "serial"
                                     ELSE IF u \in round THEN "woken" ELSE th[u]]
         ELSE th' = [th EXCEPT ![t] = "wait"]
  /\ UNCHANGED <<main, next>>

Exit(t) == th[t] \in {"woken", "serial"} /\ Goto(t, "gone")

Next == Create \/ clean_thread \/ \E t \in Idx : Arrive(t) \/ Exit(t)

Spec == Init /\ [][Next]_threads
----------------------------------------------------------------------------
\* The barrier counts one thread less than there are (barrier.c:33): once all
\* have been created the last one waits for ever, and main() for it.
LastOneWaits == main = "failed" \/ (main = "join" /\ Waiting # {})
============================================================================
