---------------------------- MODULE MutexPrograms ----------------------------
(***************************************************************************)
(* mutex_type.c (a thread locks twice), mutex_robust.c and cleanup_mutex.c *)
(* (a thread is cancelled while it holds the mutex).  The three differ in  *)
(* the kind of the mutex and in what surrounds the critical section.       *)
(***************************************************************************)
EXTENDS Pthreads, PthreadMutex

VARIABLES kind,       \* the type of the mutex in mutex_type.c, or "robust"
                      \* (mutex_robust.c) or "cleanup" (cleanup_mutex.c)
          cancelled   \* threads named in pthread_cancel

vars == <<threads, mutex, kind, cancelled>>

Types == {"normal", "recursive", "errorcheck"}
Cancels == kind \in {"robust", "cleanup"}

\* The threads that lock a second time.
Twice == IF kind \in Types THEN {t \in Idx : t > 1} ELSE {}

Init == /\ ThreadsInit /\ mutex = NewMutex
        /\ kind \in Types \cup {"robust", "cleanup"} /\ cancelled = {}
----------------------------------------------------------------------------
\* main() of mutex_robust.c; the others are the same.
Create == /\ CreateThread(next) \/ CreateFails
          /\ UNCHANGED <<mutex, cancelled>>

\* Slip: the threads are joined in the reverse order.
clean_thread_Reverse == /\ JoinThread(NumThreads - 1 - next)
                        /\ UNCHANGED <<mutex, cancelled>>

clean_thread == /\ JoinThread(next)
                /\ UNCHANGED <<mutex, cancelled>>

\* The thread has slept and calls pthread_mutex_lock.
CallLock(t) == /\ At(t, "start") /\ Goto(t, "lock")
               /\ UNCHANGED <<mutex, cancelled>>

\* Whatever lock returns, the thread goes on into the section.
Enter(t) == /\ At(t, "lock") /\ Goto(t, "in")
            /\ \E r \in {"ok", "EDEADLK", "ENOTRECOVERABLE"} :
                 mutex_lock(t, kind, r)
            /\ UNCHANGED cancelled

\* Slip: without pthread_mutex_consistent.
EnterDead_Inconsistent(t) == /\ At(t, "lock") /\ Goto(t, "in")
                             /\ mutex_lock(t, kind, "EOWNERDEAD")
                             /\ UNCHANGED cancelled

\* EOWNERDEAD: the thread holds the mutex and makes it consistent.
EnterDead(t) == /\ At(t, "lock") /\ Goto(t, "in")
                /\ mutex.holder = {} /\ mutex.state = "ownerdead"
                /\ mutex' = [Taken(t) EXCEPT !.state = "usable"]
                /\ UNCHANGED cancelled

\* mutex_type.c: the thread asks for what it has.
CallAgain(t) == /\ At(t, "in") /\ t \in Twice
                /\ Goto(t, "relock")
                /\ UNCHANGED <<mutex, cancelled>>

EnterAgain(t) == /\ At(t, "relock") /\ Goto(t, "twice")
                 /\ \E r \in {"ok", "EDEADLK"} : mutex_lock(t, kind, r)
                 /\ UNCHANGED cancelled

\* The last unlock of the thread; one remains to be done in a recursive mutex.
Leave(t) == /\ IF t \in Twice THEN At(t, "twice") ELSE At(t, "in")
            /\ mutex_unlock(t)
            /\ Goto(t, IF Cancels /\ t = 1 THEN "cancel" ELSE "gone")
            /\ UNCHANGED cancelled

\* Thread 1 cancels thread 2.  The identifier of a thread that has not been
\* created is null, and pthread_cancel follows it.
Cancel(t) == /\ At(t, "cancel")
             /\ IF At(2, "none")
                THEN ProcessEnds /\ UNCHANGED cancelled
                ELSE Goto(t, "gone") /\ cancelled' = cancelled \cup {2}
             /\ UNCHANGED mutex

\* Slip: the handler is not registered.
Cancelled_NoHandler(t) ==
  /\ t \in cancelled /\ th[t] \in {"start", "in"}
  /\ Goto(t, "gone")
  /\ IF kind = "robust" THEN owner_dies(t) ELSE UNCHANGED mutex
  /\ UNCHANGED cancelled

\* sleep() and output are cancellation points, pthread_mutex_lock is none.  In
\* the section cleanup_mutex gives the mutex back; the owner of the robust one
\* dies with it.
Cancelled(t) ==
  /\ t \in cancelled /\ th[t] \in {"start", "in"}
  /\ Goto(t, "gone")
  /\ IF kind = "robust" THEN owner_dies(t) ELSE mutex_unlock(t)
  /\ UNCHANGED cancelled
----------------------------------------------------------------------------
Thread(t) == \/ CallLock(t) \/ Enter(t) \/ EnterDead(t)
             \/ CallAgain(t) \/ EnterAgain(t) \/ Leave(t)
             \/ Cancel(t) \/ Cancelled(t)

Next == /\ Create \/ clean_thread \/ \E t \in Idx : Thread(t)
        /\ UNCHANGED kind

Spec == Init /\ [][Next]_vars
----------------------------------------------------------------------------
Inside == {t \in Idx : th[t] \in {"in", "relock", "twice"}}

\* The sections exclude each other, also after an owner was cancelled in the
\* middle (mutex_robust.c: pthread_mutex_consistent; cleanup_mutex.c).
MutexExclusive ==
  /\ Cardinality(Inside) <= 1
  /\ mutex.state # "lost"

\* pthread_cancel is not called on a thread whose identifier main() has given
\* back by joining it (clean_thread joins in the order of creation).
CancelBeforeJoin == At(1, "cancel") => ~At(2, "joined")

\* "register cleanup handler to avoid deadlock" (cleanup_mutex.c:3): main()
\* returns, and so it does in mutex_robust.c and with PTHREAD_MUTEX_ERRORCHECK.
\* With the other types it does not once a thread has locked twice
\* (mutex_type.c:76): the thread waits for itself, or it ends as the owner.
SelfLocked == \E t \in Twice : \/ kind = "normal" /\ At(t, "relock")
                               \/ kind = "recursive" /\ Held(t) /\ ~At(t, "twice")

RunOver == Left \/ SelfLocked
============================================================================
