----------------------------- MODULE MutexShared -----------------------------
(***************************************************************************)
(* mutex_pshared.c: the threads of several processes share a mutex, and    *)
(* the index and process of its last owner, in a memory object.  A process *)
(* started with "c" clears the object and initialises the mutex.  One that *)
(* was never initialised is all zero: it works as a mutex with default     *)
(* attributes, for which only threads of one process wake each other.      *)
(***************************************************************************)
EXTENDS PthreadMutex, FiniteSets

CONSTANTS Procs,      \* processes that run the program
          PerProcess  \* NUM_THREADS

Tids == Procs \X (1 .. PerProcess)

VARIABLES shm,        \* "none", "clear" (no mutex in it yet), "ready"
          withC,      \* the processes started with "c"
          at,         \* place of main() in each process
          place,      \* place of each thread; "private" and "shared": asleep
                      \* in pthread_mutex_lock, "again": woken there
          contended,  \* the lock word says that somebody may sleep
          prev,       \* <<prev_pid, prev_idx>>
          disturbed,  \* history: the mutex was initialised under its users, or
                      \* its owner died
          unwoken     \* history: the unlock of a mutex that was never initialised
                      \* reached none of the sleepers, or a wake-up died with
                      \* the thread that had it

vars == <<mutex, shm, withC, at, place, contended, prev, disturbed, unwoken>>

Nobody == "nobody"

Init == /\ mutex = NewMutex /\ shm = "none" /\ withC \in SUBSET Procs
        /\ at = [p \in Procs |-> "open"]
        /\ place = [t \in Tids |-> "none"]
        /\ prev = <<Nobody, 0>> /\ contended = FALSE
        /\ disturbed = FALSE /\ unwoken = FALSE

Move(t, from, to) == /\ place[t] = from
                     /\ place' = [place EXCEPT ![t] = to]
                     /\ UNCHANGED <<shm, at>>

\* Slip: pthread_mutexattr_setpshared is not called.
ProcessShared_Unset == FALSE

\* PTHREAD_PROCESS_SHARED, which only pthread_mutex_init of a process with "c" sets.
ProcessShared == shm = "ready"

Users == {t \in Tids : place[t] \notin {"none", "gone"}}
----------------------------------------------------------------------------
\* shm_open, ftruncate, mmap: new memory is zero.
Open(p) == /\ at[p] = "open"
           /\ at' = [at EXCEPT ![p] = IF p \in withC THEN "init" ELSE "create"]
           /\ shm' = IF shm = "none" THEN "clear" ELSE shm
           /\ UNCHANGED <<mutex, place, contended, prev, disturbed, unwoken>>

\* memset and pthread_mutex_init, whoever uses the object.
InitMutex(p) == /\ at[p] = "init"
                /\ at' = [at EXCEPT ![p] = "create"]
                /\ shm' = "ready" /\ mutex' = NewMutex /\ prev' = <<Nobody, 0>>
                /\ contended' = FALSE
                /\ disturbed' = (disturbed \/ Users # {})
                /\ UNCHANGED <<place, unwoken>>

\* The threads wait in sleep() before they do anything.
Create(p) == /\ at[p] = "create"
             /\ at' = [at EXCEPT ![p] = "join"]
             /\ place' = [t \in Tids |-> IF t[1] = p THEN "start" ELSE place[t]]
             /\ UNCHANGED <<mutex, shm, contended, prev, disturbed, unwoken>>

clean_thread(p) == /\ at[p] = "join"
                   /\ \A t \in Tids : t[1] = p => place[t] = "gone"
                   /\ at' = [at EXCEPT ![p] = "gone"]
                   /\ UNCHANGED <<mutex, shm, place, contended, prev, disturbed,
                                  unwoken>>

\* A thread cannot be created, or the process is killed: the mutex is not
\* robust and stays as it is.
Dies(p) == /\ at[p] \notin {"open", "gone"}
           /\ at' = [at EXCEPT ![p] = "gone"]
           /\ place' = [t \in Tids |-> IF t[1] = p THEN "gone" ELSE place[t]]
           /\ disturbed' = (disturbed \/ \E t \in mutex.holder : t[1] = p)
           /\ unwoken' = (unwoken \/ \E t \in Tids : t[1] = p /\ place[t] = "again")
           /\ UNCHANGED <<mutex, shm, contended, prev>>
----------------------------------------------------------------------------
\* Slip: the result of pthread_mutex_trylock is ignored like that of lock.
Lock_Try(t) == /\ Move(t, "start", "in")
               /\ \/ mutex_lock(t, "errorcheck", "ok")
                  \/ mutex.holder # {} /\ UNCHANGED mutex
               /\ UNCHANGED <<contended, prev, disturbed, unwoken>>

\* A thread that has slept cannot know whether others still do; one whose first
\* try has failed by a hair says the same.
Lock(t) == /\ place[t] \in {"start", "again"} /\ Move(t, place[t], "in")
           /\ mutex_lock(t, "errorcheck", "ok")
           /\ contended' \in BOOLEAN /\ (place[t] = "again" => contended')
           /\ UNCHANGED <<prev, disturbed, unwoken>>

Sleep(t) == /\ place[t] \in {"start", "again"} /\ mutex.holder # {}
            /\ Move(t, place[t], IF ProcessShared THEN "shared" ELSE "private")
            /\ contended' = TRUE
            /\ UNCHANGED <<mutex, prev, disturbed, unwoken>>

WritePid(t) == /\ Move(t, "in", "pid")
               /\ prev' = <<t[1], prev[2]>>
               /\ UNCHANGED <<mutex, contended, disturbed, unwoken>>

WriteIdx(t) == /\ Move(t, "pid", "idx")
               /\ prev' = <<prev[1], t[2]>>
               /\ UNCHANGED <<mutex, contended, disturbed, unwoken>>

Asleep == {t \in Tids : place[t] \in {"private", "shared"}}

\* Whom the owner's unlock may wake, one of them.
Wakes(t) == {s \in Asleep :
               /\ Held(t) /\ contended
               /\ IF ProcessShared THEN place[s] = "shared"
                                   ELSE place[s] = "private" /\ s[1] = t[1]}

Unlock(t) == /\ place[t] = "idx" /\ mutex_unlock(t)
             /\ \/ \E s \in Wakes(t) :
                     place' = [place EXCEPT ![t] = "gone", ![s] = "again"]
                \/ Wakes(t) = {} /\ place' = [place EXCEPT ![t] = "gone"]
             /\ contended' = (contended /\ ~Held(t))
             /\ unwoken' = (unwoken \/ (/\ shm = "clear" /\ contended
                                       /\ Wakes(t) = {} /\ Asleep # {}))
             /\ UNCHANGED <<shm, at, prev, disturbed>>

Process(p) == Open(p) \/ InitMutex(p) \/ Create(p) \/ clean_thread(p)
Thread(t) == Lock(t) \/ Sleep(t) \/ WritePid(t) \/ WriteIdx(t) \/ Unlock(t)

Running == /\ (\E p \in Procs : Process(p)) \/ (\E t \in Tids : Thread(t))
           /\ UNCHANGED withC

Next == Running \/ \E p \in Procs : Dies(p) /\ UNCHANGED withC

Spec == Init /\ [][Next]_vars
----------------------------------------------------------------------------
\* What a thread of any process finds under the mutex was written by one
\* thread, unless the object was initialised while threads were there
\* (mutex_pshared.c:67-75) or an owner died.
PairWhole ==
  ~disturbed /\ (\A t \in Tids : place[t] # "pid")
    => prev = <<Nobody, 0>> \/ (prev \in Tids /\ place[prev] \in {"idx", "gone"})

\* All processes end, unless their mutex was disturbed (the dead owner of one
\* that is not robust keeps the others waiting for ever), or a wake-up went astray:
\* without "c" the unlock in one process wakes nobody in another
\* (mutex_pshared.c:67-75).
AllOver == disturbed \/ unwoken \/ \A p \in Procs : at[p] = "gone"
============================================================================
