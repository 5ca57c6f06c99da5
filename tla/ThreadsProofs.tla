--------------------------- MODULE ThreadsProofs ---------------------------
(***************************************************************************)
(* Theorems about the programs of 8.pthread, for every value of the        *)
(* constants that ProgramsAssumption allows: any number of threads, of     *)
(* processes and of steps of the integration.  Frame says how far main()   *)
(* is with creating and joining; to it each program adds what its threads  *)
(* share.                                                                  *)
(***************************************************************************)
EXTENDS MCPrograms, FiniteSetTheorems, TLAPS

\* While one of these programs is checked the steps are its own.
LEMMA ThreadsOnly ==
  ASSUME program \in ThreadNames, [Next]_vars
  PROVE  /\ program' = program
         /\ Threads!Next \/ UNCHANGED threadVars
BY DEF Next, Running, PoolStep, Outside, Only, vars, Threads!Next, ThreadNames

\* The index of the next thread goes round.
LEMMA NextIndex ==
  ASSUME NEW n \in Nat \ {0}, NEW k \in 0 .. n - 1
  PROVE  (k + 1) % n = IF k + 1 = n THEN 0 ELSE k + 1
OBVIOUS

\* How far main() is, and the threads it has created and joined in their order.
Frame(places) ==
  /\ main \in {"create", "join", "ended", "failed"}
  /\ next \in Threads!Idx
  /\ th \in [Threads!Idx -> {"none", "start", "gone", "joined"} \cup places]
  /\ main = "create" => /\ \A t \in Threads!Idx : t >= next => th[t] = "none"
                        /\ \A t \in Threads!Idx : t < next => th[t] # "none"
                        /\ \A t \in Threads!Idx : th[t] # "joined"
  /\ main = "join" => /\ \A t \in Threads!Idx : th[t] # "none"
                      /\ \A t \in Threads!Idx : t < next <=> th[t] = "joined"
  /\ main = "ended" => \A t \in Threads!Idx : th[t] = "joined"
  /\ main = "failed" => \A t \in Threads!Idx : th[t] = "gone"

\* The places of threads between their creation and their join.
Lives(where) == where \notin {"none", "joined"}

\* No thread is there before main() creates the first.
LEMMA FrameInit ==
  ASSUME NEW places, main = "create", next = 0, th = [t \in Threads!Idx |-> "none"]
  PROVE  Frame(places)
BY ProgramsAssumption DEF Frame, Threads!Idx, Threads!ThereAreThreads

\* pthread_create starts the next thread; after the last main() goes to join.
LEMMA FrameCreate ==
  ASSUME NEW places, Frame(places), Threads!CreateThread(next)
  PROVE  /\ Frame(places)' /\ next \in Threads!Idx /\ th[next] = "none"
         /\ main = "create" /\ main' \in {"create", "join"}
         /\ th' = [th EXCEPT ![next] = "start"]
<1>n. NumThreads \in Nat \ {0}
  BY ProgramsAssumption DEF Threads!ThereAreThreads
<1>1. /\ main = "create" /\ th' = [th EXCEPT ![next] = "start"]
      /\ next \in 0 .. NumThreads - 1
      /\ next' = (next + 1) % NumThreads
      /\ main' = IF next' = 0 THEN "join" ELSE "create"
  BY DEF Frame, Threads!CreateThread, Threads!Idx
<1>2. next' = IF next + 1 = NumThreads THEN 0 ELSE next + 1
  BY <1>n, <1>1, NextIndex
<1>3. /\ th[next] = "none" /\ th'[next] = "start"
      /\ \A t \in Threads!Idx : t # next => th'[t] = th[t]
      /\ th' \in [Threads!Idx -> {"none", "start", "gone", "joined"} \cup places]
  BY <1>1 DEF Frame, Threads!Idx
<1>4. \A t \in Threads!Idx : t \in Nat /\ t < NumThreads
  BY <1>n DEF Threads!Idx
<1>5. CASE next + 1 = NumThreads
  <2>1. next' = 0 /\ main' = "join" /\ next' \in Threads!Idx
    BY <1>n, <1>1, <1>2, <1>5 DEF Threads!Idx
  <2>2. \A t \in Threads!Idx : t < next \/ t = next
    BY <1>1, <1>4, <1>5
  <2> QED
    <3>1. \A t \in Threads!Idx : th'[t] # "none"
      BY <1>1, <1>3, <2>2 DEF Frame
    <3>2. \A t \in Threads!Idx : th'[t] # "joined" /\ ~(t < next')
      BY <1>1, <1>3, <1>4, <2>1 DEF Frame
    <3> QED
      BY <1>3, <2>1, <3>1, <3>2 DEF Frame
<1>6. CASE next + 1 # NumThreads
  <2>1. next' = next + 1 /\ main' = "create" /\ next' \in Threads!Idx
    BY <1>n, <1>1, <1>2, <1>6 DEF Threads!Idx
  <2>2. \A t \in Threads!Idx : /\ t >= next' => t >= next /\ t # next
                               /\ t < next' => t < next \/ t = next
    BY <1>1, <1>4, <2>1
  <2> QED
    BY <1>1, <1>3, <2>1, <2>2 DEF Frame
<1> QED
  BY <1>1, <1>3, <1>5, <1>6

\* pthread_join returns for a thread that is gone; after the last main() ends.
LEMMA FrameJoin ==
  ASSUME NEW places, Frame(places), Threads!JoinThread(next)
  PROVE  /\ Frame(places)' /\ next \in Threads!Idx /\ th[next] = "gone"
         /\ main = "join" /\ main' \in {"join", "ended"}
         /\ th' = [th EXCEPT ![next] = "joined"]
<1>n. NumThreads \in Nat \ {0}
  BY ProgramsAssumption DEF Threads!ThereAreThreads
<1>1. /\ main = "join" /\ th' = [th EXCEPT ![next] = "joined"] /\ th[next] = "gone"
      /\ next \in 0 .. NumThreads - 1
      /\ next' = (next + 1) % NumThreads
      /\ main' = IF next' = 0 THEN "ended" ELSE "join"
  BY DEF Frame, Threads!JoinThread, Threads!Idx, Threads!At
<1>2. next' = IF next + 1 = NumThreads THEN 0 ELSE next + 1
  BY <1>n, <1>1, NextIndex
<1>3. /\ th'[next] = "joined" /\ \A t \in Threads!Idx : t # next => th'[t] = th[t]
      /\ th' \in [Threads!Idx -> {"none", "start", "gone", "joined"} \cup places]
  BY <1>1 DEF Frame, Threads!Idx
<1>4. \A t \in Threads!Idx : t \in Nat /\ t < NumThreads
  BY <1>n DEF Threads!Idx
<1>5. CASE next + 1 = NumThreads
  <2>1. next' = 0 /\ main' = "ended" /\ next' \in Threads!Idx
    BY <1>n, <1>1, <1>2, <1>5 DEF Threads!Idx
  <2>2. \A t \in Threads!Idx : t < next \/ t = next
    BY <1>1, <1>4, <1>5
  <2> QED
    BY <1>1, <1>3, <2>1, <2>2 DEF Frame
<1>6. CASE next + 1 # NumThreads
  <2>1. next' = next + 1 /\ main' = "join" /\ next' \in Threads!Idx
    BY <1>n, <1>1, <1>2, <1>6 DEF Threads!Idx
  <2>2. \A t \in Threads!Idx : t < next' <=> (t < next \/ t = next)
    BY <1>1, <1>4, <2>1
  <2> QED
    BY <1>1, <1>3, <2>1, <2>2 DEF Frame
<1> QED
  BY <1>1, <1>3, <1>5, <1>6 DEF Threads!Idx

\* What a thread does between its start and its end.
LEMMA FrameMoves ==
  ASSUME NEW places, Frame(places), UNCHANGED <<main, next>>,
         th' \in [Threads!Idx -> {"none", "start", "gone", "joined"} \cup places],
         \A t \in Threads!Idx : \/ th'[t] = th[t]
                                \/ Lives(th[t]) /\ Lives(th'[t]) /\ th[t] # "gone"
  PROVE  Frame(places)'
BY DEF Frame, Lives

\* exit() in one thread is the end of all.
LEMMA FrameEnds ==
  ASSUME NEW places, Frame(places), Threads!ProcessEnds
  PROVE  Frame(places)' /\ main' = "failed" /\ \A t \in Threads!Idx : th'[t] = "gone"
BY DEF Frame, Threads!ProcessEnds
----------------------------------------------------------------------------
(* barrier.c                                                               *)

\* Where a thread of barrier.c can be between its start and its end.
BarrierPlaces == {"wait", "woken", "serial"}

\* The barrier moves threads between these places and nothing else.
LEMMA BarrierStep ==
  ASSUME Frame(BarrierPlaces), Threads!Barrier!Next \/ UNCHANGED <<main, next, th>>
  PROVE  Frame(BarrierPlaces)'
<1>0. /\ next \in Threads!Idx
      /\ th \in [Threads!Idx -> {"none", "start", "gone", "joined"} \cup BarrierPlaces]
  BY DEF Frame
<1>1. CASE Threads!Barrier!Create
  BY <1>1, FrameCreate, FrameEnds
  DEF Threads!Barrier!Create, Threads!Barrier!CreateThread, Threads!CreateThread,
      Threads!Barrier!CreateFails, Threads!Barrier!ProcessEnds, Threads!ProcessEnds,
      Threads!Barrier!Idx, Threads!Idx
<1>2. CASE Threads!Barrier!clean_thread
  BY <1>2, FrameJoin
  DEF Threads!Barrier!clean_thread, Threads!Barrier!JoinThread, Threads!JoinThread,
      Threads!Barrier!At, Threads!At
<1>3. ASSUME NEW t \in Threads!Idx, Threads!Barrier!Arrive(t)
      PROVE  Frame(BarrierPlaces)'
  <2> DEFINE round == Threads!Barrier!Waiting \cup {t}
  <2>1. th[t] = "start" /\ UNCHANGED <<main, next>>
    BY <1>3 DEF Threads!Barrier!Arrive, Threads!Barrier!At
  <2>2. \A u \in round : u \in Threads!Idx /\ th[u] \in {"start", "wait"}
    BY <2>1 DEF Threads!Barrier!Waiting, Threads!Barrier!At, Threads!Barrier!Idx,
                Threads!Idx
  <2>3. \/ \E serial \in round :
              th' = [u \in Threads!Idx |-> IF u = serial THEN "serial"
                                          ELSE IF u \in round THEN "woken" ELSE th[u]]
        \/ th' = [th EXCEPT ![t] = "wait"]
    BY <1>3 DEF Threads!Barrier!Arrive, Threads!Barrier!Idx, Threads!Idx
  <2> HIDE DEF round
  <2>4. /\ th' \in [Threads!Idx -> {"none", "start", "gone", "joined"}
                                    \cup BarrierPlaces]
        /\ \A u \in Threads!Idx : \/ th'[u] = th[u]
                                  \/ Lives(th[u]) /\ Lives(th'[u]) /\ th[u] # "gone"
    BY <1>0, <2>1, <2>2, <2>3 DEF BarrierPlaces, Lives
  <2> QED
    BY <2>1, <2>4, FrameMoves
<1>4. ASSUME NEW t \in Threads!Idx, Threads!Barrier!Exit(t)
      PROVE  Frame(BarrierPlaces)'
  <2>1. /\ th[t] \in {"woken", "serial"} /\ th' = [th EXCEPT ![t] = "gone"]
        /\ UNCHANGED <<main, next>>
    BY <1>4 DEF Threads!Barrier!Exit, Threads!Barrier!Goto
  <2>2. /\ th' \in [Threads!Idx -> {"none", "start", "gone", "joined"}
                                    \cup BarrierPlaces]
        /\ \A u \in Threads!Idx : \/ th'[u] = th[u]
                                  \/ Lives(th[u]) /\ Lives(th'[u]) /\ th[u] # "gone"
    BY <1>0, <2>1 DEF BarrierPlaces, Lives
  <2> QED
    BY <2>1, <2>2, FrameMoves
<1>5. CASE UNCHANGED <<main, next, th>>
  BY <1>5 DEF Frame
<1>6. Threads!Barrier!Idx = Threads!Idx
  BY DEF Threads!Barrier!Idx, Threads!Idx
<1> QED
  BY <1>1, <1>2, <1>3, <1>4, <1>5, <1>6 DEF Threads!Barrier!Next
----------------------------------------------------------------------------
(* spinlock.c                                                              *)

\* Where a thread of spinlock.c can be while it holds the lock, or has released it.
SpinPlaces == {"locked", "read", "written"}
\* The threads that have made their increment.
Counted == {t \in Threads!Idx : th[t] \in {"written", "gone", "joined"}}

\* The lock has one holder, who read the present value: the counter is exact.
SpinInv ==
  /\ Frame(SpinPlaces)
  /\ flag_spin \in Nat /\ seen \in [Threads!Idx -> Nat]
  /\ \A t \in Threads!Idx : th[t] \in SpinPlaces => spinlock = {t}
  /\ \A t \in Threads!Idx : th[t] = "read" => seen[t] = flag_spin
  /\ main # "failed" => flag_spin = 101 + Cardinality(Counted)

\* A set of threads is finite.
LEMMA IdxFinite == \A S \in SUBSET Threads!Idx : IsFiniteSet(S) /\ Cardinality(S) \in Nat
<1>1. IsFiniteSet(Threads!Idx)
  BY FS_Interval, ProgramsAssumption DEF Threads!Idx, Threads!ThereAreThreads
<1> QED
  BY <1>1, FS_Subset, FS_CardinalityType

\* No thread has counted yet.
LEMMA SpinInit == Threads!Spin!Init => SpinInv
<1> SUFFICES ASSUME Threads!Spin!Init PROVE SpinInv
  OBVIOUS
<1>1. main = "create" /\ next = 0 /\ th = [t \in Threads!Idx |-> "none"]
      /\ flag_spin = 101 /\ seen = [t \in Threads!Idx |-> 0]
  BY DEF Threads!Spin!Init, Threads!Spin!ThreadsInit, Threads!Spin!Idx, Threads!Idx,
         Threads!Spin!First
<1>2. Counted = {}
  BY <1>1 DEF Counted
<1>3. flag_spin = 101 + Cardinality(Counted)
  BY <1>1, <1>2, FS_EmptySet
<1> QED
  BY <1>1, <1>3, FrameInit DEF SpinInv, SpinPlaces

\* A step of main() or a thread keeps the count.
LEMMA SpinStep ==
  ASSUME SpinInv, Threads!Spin!Next \/ UNCHANGED <<main, next, th, spinlock, flag_spin, seen>>
  PROVE  SpinInv'
<1>0. /\ Frame(SpinPlaces) /\ flag_spin \in Nat /\ seen \in [Threads!Idx -> Nat]
      /\ th \in [Threads!Idx -> {"none", "start", "gone", "joined"} \cup SpinPlaces]
      /\ Threads!Spin!Idx = Threads!Idx
  BY DEF SpinInv, Frame, Threads!Spin!Idx, Threads!Idx
<1>a. ASSUME UNCHANGED <<spinlock, flag_spin, seen>>, Frame(SpinPlaces)',
             main' = main \/ main # "failed", main' # "failed",
             NEW t \in Threads!Idx, NEW to, th' = [th EXCEPT ![t] = to],
             th[t] \notin SpinPlaces, to \notin SpinPlaces,
             th[t] \in {"gone", "joined"} <=> to \in {"gone", "joined"}
      PROVE  SpinInv'
  <2>1. Counted' = Counted
    BY <1>0, <1>a DEF Counted, SpinPlaces
  <2>2. \A u \in Threads!Idx : th'[u] = th[u] \/ th'[u] \notin SpinPlaces
    BY <1>0, <1>a
  <2>3. /\ \A u \in Threads!Idx : th'[u] \in SpinPlaces => spinlock' = {u}
        /\ \A u \in Threads!Idx : th'[u] = "read" => seen'[u] = flag_spin'
    BY <1>a, <2>2 DEF SpinInv, SpinPlaces
  <2>4. main # "failed"
    BY <1>a
  <2> QED
    BY <1>0, <1>a, <2>1, <2>3, <2>4 DEF SpinInv
<1>1. CASE Threads!Spin!Create
  <2>1. UNCHANGED <<spinlock, flag_spin, seen>>
        /\ (Threads!CreateThread(next) \/ Threads!ProcessEnds)
    BY <1>1
    DEF Threads!Spin!Create, Threads!Spin!CreateThread, Threads!CreateThread,
        Threads!Spin!CreateFails, Threads!Spin!ProcessEnds, Threads!ProcessEnds,
        Threads!Spin!Idx, Threads!Idx
  <2>2. CASE Threads!CreateThread(next)
    BY <1>0, <1>a, <2>1, <2>2, FrameCreate DEF SpinPlaces
  <2>3. CASE Threads!ProcessEnds
    BY <1>0, <2>1, <2>3, FrameEnds DEF SpinInv, SpinPlaces
  <2> QED
    BY <2>1, <2>2, <2>3
<1>2. CASE Threads!Spin!clean_thread
  <2>1. UNCHANGED <<spinlock, flag_spin, seen>> /\ Threads!JoinThread(next)
    BY <1>2
    DEF Threads!Spin!clean_thread, Threads!Spin!JoinThread, Threads!JoinThread,
        Threads!Spin!At, Threads!At
  <2> QED
    BY <1>0, <1>a, <2>1, FrameJoin DEF SpinPlaces
<1>3. ASSUME NEW t \in Threads!Idx, NEW to, th' = [th EXCEPT ![t] = to],
             UNCHANGED <<main, next>>, to \in SpinPlaces \cup {"gone"},
             th[t] \in SpinPlaces \cup {"start"}
      PROVE  /\ Frame(SpinPlaces)' /\ th'[t] = to /\ main # "failed" /\ main' # "failed"
             /\ \A u \in Threads!Idx : u # t => th'[u] = th[u]
  <2>1. /\ th' \in [Threads!Idx -> {"none", "start", "gone", "joined"} \cup SpinPlaces]
        /\ th'[t] = to /\ \A u \in Threads!Idx : u # t => th'[u] = th[u]
    BY <1>0, <1>3
  <2>2. Lives(th[t]) /\ Lives(to) /\ th[t] # "gone"
    BY <1>3 DEF Lives, SpinPlaces
  <2>3. Frame(SpinPlaces)'
    BY <1>0, <1>3, <2>1, <2>2, FrameMoves
  <2> QED
    BY <1>0, <1>3, <2>1, <2>2, <2>3 DEF Frame
<1>4. ASSUME NEW t \in Threads!Idx, Threads!Spin!Acquire(t) PROVE SpinInv'
  <2>1. /\ th[t] = "start" /\ spinlock = {} /\ spinlock' = {t}
        /\ th' = [th EXCEPT ![t] = "locked"] /\ UNCHANGED <<main, next, flag_spin, seen>>
    BY <1>4 DEF Threads!Spin!Acquire, Threads!Spin!At, Threads!Spin!Goto
  <2>2. /\ Frame(SpinPlaces)' /\ th'[t] = "locked" /\ main' = main
        /\ \A u \in Threads!Idx : u # t => th'[u] = th[u]
    BY <1>3, <2>1 DEF SpinPlaces
  <2>3. Counted' = Counted
    BY <2>1, <2>2 DEF Counted
  <2>4. \A u \in Threads!Idx : th[u] \notin SpinPlaces
    BY <2>1 DEF SpinInv
  <2> QED
    BY <1>0, <2>1, <2>2, <2>3, <2>4 DEF SpinInv, SpinPlaces
<1>5. ASSUME NEW t \in Threads!Idx, Threads!Spin!Read(t) PROVE SpinInv'
  <2>1. /\ th[t] = "locked" /\ th' = [th EXCEPT ![t] = "read"]
        /\ seen' = [seen EXCEPT ![t] = flag_spin]
        /\ UNCHANGED <<main, next, flag_spin, spinlock>>
    BY <1>5 DEF Threads!Spin!Read, Threads!Spin!At, Threads!Spin!Goto
  <2>2. /\ Frame(SpinPlaces)' /\ th'[t] = "read" /\ main' = main
        /\ \A u \in Threads!Idx : u # t => th'[u] = th[u]
    BY <1>3, <2>1 DEF SpinPlaces
  <2>3. Counted' = Counted
    BY <2>1, <2>2 DEF Counted
  <2>4. /\ seen' \in [Threads!Idx -> Nat] /\ seen'[t] = flag_spin
        /\ \A u \in Threads!Idx : u # t => seen'[u] = seen[u]
    BY <1>0, <2>1
  <2> QED
    BY <1>0, <2>1, <2>2, <2>3, <2>4 DEF SpinInv, SpinPlaces
<1>6. ASSUME NEW t \in Threads!Idx, Threads!Spin!Write(t) PROVE SpinInv'
  <2>1. /\ th[t] = "read" /\ th' = [th EXCEPT ![t] = "written"]
        /\ flag_spin' = seen[t] + 1
        /\ UNCHANGED <<main, next, seen, spinlock>>
    BY <1>6 DEF Threads!Spin!Write, Threads!Spin!At, Threads!Spin!Goto
  <2>2. /\ Frame(SpinPlaces)' /\ th'[t] = "written" /\ main # "failed"
        /\ \A u \in Threads!Idx : u # t => th'[u] = th[u]
    BY <1>3, <2>1 DEF SpinPlaces
  <2>3. Counted' = Counted \cup {t} /\ t \notin Counted
    BY <2>1, <2>2 DEF Counted
  <2>4. IsFiniteSet(Counted) /\ Cardinality(Counted) \in Nat
    BY IdxFinite DEF Counted
  <2>5. Cardinality(Counted') = Cardinality(Counted) + 1
    BY <2>3, <2>4, FS_AddElement
  <2>6. flag_spin' = flag_spin + 1
    BY <2>1 DEF SpinInv
  <2>7. flag_spin' = 101 + Cardinality(Counted')
    BY <1>0, <2>2, <2>4, <2>5, <2>6 DEF SpinInv
  <2>8. \A u \in Threads!Idx : u # t => th[u] \notin SpinPlaces
    BY <2>1 DEF SpinInv, SpinPlaces
  <2>9. flag_spin' \in Nat
    BY <1>0, <2>6
  <2> QED
    BY <1>0, <2>1, <2>2, <2>7, <2>8, <2>9 DEF SpinInv, SpinPlaces
<1>7. ASSUME NEW t \in Threads!Idx, Threads!Spin!Release(t) PROVE SpinInv'
  <2>1. /\ th[t] = "written" /\ th' = [th EXCEPT ![t] = "gone"]
        /\ UNCHANGED <<main, next, flag_spin, seen>>
    BY <1>7 DEF Threads!Spin!Release, Threads!Spin!At, Threads!Spin!Goto
  <2>2. /\ Frame(SpinPlaces)' /\ th'[t] = "gone" /\ main' = main
        /\ \A u \in Threads!Idx : u # t => th'[u] = th[u]
    BY <1>3, <2>1 DEF SpinPlaces
  <2>3. Counted' = Counted
    BY <2>1, <2>2 DEF Counted
  <2>4. \A u \in Threads!Idx : u # t => th[u] \notin SpinPlaces
    BY <2>1 DEF SpinInv, SpinPlaces
  <2> QED
    BY <1>0, <2>1, <2>2, <2>3, <2>4 DEF SpinInv, SpinPlaces
<1>8. CASE UNCHANGED <<main, next, th, spinlock, flag_spin, seen>>
  BY <1>8 DEF SpinInv, Frame, Counted
<1> QED
  BY <1>0, <1>1, <1>2, <1>4, <1>5, <1>6, <1>7, <1>8
  DEF Threads!Spin!Next, Threads!Spin!Thread

\* What the run checks of spinlock.c.
LEMMA SpinPromise ==
  ASSUME SpinInv PROVE Threads!Spin!FlagCounts
<1>1. \A S : Threads!Spin!Cardinality(S) = Cardinality(S)
  BY DEF Threads!Spin!Cardinality, Cardinality
<1> QED
  BY <1>1 DEF SpinInv, Counted, Threads!Spin!FlagCounts, Threads!Spin!First,
     Threads!Spin!Idx, Threads!Idx
----------------------------------------------------------------------------
(* mutex_type.c, mutex_robust.c and cleanup_mutex.c                        *)

\* Where a thread can be between its start and its end.
MutexPlaces == {"lock", "in", "relock", "twice", "cancel"}

\* The mutex is recursive or plain, and an owner that died leaves it in doubt.
MutexRecords == [holder : SUBSET Threads!Idx, depth : {0, 1, 2},
                 state : {"usable", "ownerdead"}]

\* Who is in the critical section holds the mutex, and no one else does.
HeldByInside ==
  /\ \A t \in Threads!Idx :
       th[t] \in {"in", "relock", "twice"} => mutex.holder = {t}
  /\ \A t \in Threads!Idx : th[t] \in {"in", "relock"} => mutex.depth = 1
  /\ \A t \in Threads!Idx : t \in mutex.holder => th[t] \notin {"none", "start", "lock"}

\* The mutex has at most one holder, and is in doubt only when it has none.
HoldersMutex ==
  /\ mutex.holder = {} => mutex.depth = 0
  /\ mutex.holder # {} => mutex.state = "usable" /\ mutex.depth # 0
  /\ \A t, u \in mutex.holder : t = u

\* These make mutual exclusion inductive.
MutexInv ==
  /\ Frame(MutexPlaces)
  /\ mutex \in MutexRecords
  /\ HeldByInside /\ HoldersMutex

\* The mutex is free before the first thread starts.
LEMMA MutexInit == Threads!Mutexes!Init => MutexInv
<1> SUFFICES ASSUME Threads!Mutexes!Init PROVE MutexInv
  OBVIOUS
<1>1. /\ main = "create" /\ next = 0 /\ th = [t \in Threads!Idx |-> "none"]
      /\ mutex = [holder |-> {}, depth |-> 0, state |-> "usable"]
  BY DEF Threads!Mutexes!Init, Threads!Mutexes!ThreadsInit, Threads!Mutexes!Idx,
         Threads!Idx, Threads!Mutexes!NewMutex
<1> QED
  BY <1>1, FrameInit DEF MutexInv, MutexRecords, HeldByInside, HoldersMutex

\* A step of main() or a thread of the three programs keeps it.
LEMMA MutexStep ==
  ASSUME MutexInv, Threads!Mutexes!Next \/ UNCHANGED <<main, next, th, mutex>>
  PROVE  MutexInv'
<1>0. /\ Frame(MutexPlaces) /\ mutex \in MutexRecords /\ HeldByInside /\ HoldersMutex
      /\ th \in [Threads!Idx -> {"none", "start", "gone", "joined"} \cup MutexPlaces]
      /\ Threads!Mutexes!Idx = Threads!Idx
  BY DEF MutexInv, Frame, Threads!Mutexes!Idx, Threads!Idx
\* A thread moves outside the section.
<1>a. ASSUME UNCHANGED mutex, Frame(MutexPlaces)',
             NEW t \in Threads!Idx, NEW to, th' = [th EXCEPT ![t] = to],
             to \notin {"in", "relock", "twice"},
             t \notin mutex.holder \/ to \notin {"none", "start", "lock"}
      PROVE  MutexInv'
  <2>1. th'[t] = to /\ \A u \in Threads!Idx : u # t => th'[u] = th[u]
    BY <1>0, <1>a
  <2> QED
    BY <1>0, <1>a, <2>1 DEF MutexInv, HeldByInside, HoldersMutex
<1>b. ASSUME Threads!ProcessEnds, UNCHANGED mutex
      PROVE  MutexInv'
  BY <1>0, <1>b, FrameEnds DEF MutexInv, HeldByInside, HoldersMutex
<1>1. CASE Threads!Mutexes!Create
  <2>1. UNCHANGED mutex /\ (Threads!CreateThread(next) \/ Threads!ProcessEnds)
    BY <1>1
    DEF Threads!Mutexes!Create, Threads!Mutexes!CreateThread, Threads!CreateThread,
        Threads!Mutexes!CreateFails, Threads!Mutexes!ProcessEnds, Threads!ProcessEnds,
        Threads!Mutexes!Idx, Threads!Idx
  <2>2. CASE Threads!CreateThread(next)
    <3>1. /\ Frame(MutexPlaces)' /\ next \in Threads!Idx /\ th[next] = "none"
          /\ th' = [th EXCEPT ![next] = "start"]
      BY <1>0, <2>2, FrameCreate
    <3>2. next \notin mutex.holder
      BY <1>0, <3>1 DEF HeldByInside
    <3> QED
      BY <1>a, <2>1, <3>1, <3>2
  <2> QED
    BY <1>b, <2>1, <2>2
<1>2. CASE Threads!Mutexes!clean_thread
  <2>1. UNCHANGED mutex /\ Threads!JoinThread(next)
    BY <1>2
    DEF Threads!Mutexes!clean_thread, Threads!Mutexes!JoinThread, Threads!JoinThread,
        Threads!Mutexes!At, Threads!At
  <2> QED
    BY <1>0, <1>a, <2>1, FrameJoin
<1>3. ASSUME NEW t \in Threads!Idx, NEW to, th' = [th EXCEPT ![t] = to],
             UNCHANGED <<main, next>>, to \in MutexPlaces \cup {"gone"},
             th[t] \in MutexPlaces \cup {"start"}
      PROVE  /\ Frame(MutexPlaces)' /\ th'[t] = to
             /\ \A u \in Threads!Idx : u # t => th'[u] = th[u]
  <2>1. /\ th' \in [Threads!Idx -> {"none", "start", "gone", "joined"} \cup MutexPlaces]
        /\ th'[t] = to /\ \A u \in Threads!Idx : u # t => th'[u] = th[u]
    BY <1>0, <1>3
  <2>2. Lives(th[t]) /\ Lives(to) /\ th[t] # "gone"
    BY <1>3 DEF Lives, MutexPlaces
  <2>3. Frame(MutexPlaces)'
    BY <1>0, <1>3, <2>1, <2>2, FrameMoves
  <2> QED
    BY <1>0, <1>3, <2>1, <2>2, <2>3
<1>4. ASSUME NEW t \in Threads!Idx, Threads!Mutexes!CallLock(t) PROVE MutexInv'
  <2>1. /\ th[t] = "start" /\ th' = [th EXCEPT ![t] = "lock"]
        /\ UNCHANGED <<main, next, mutex>>
    BY <1>4 DEF Threads!Mutexes!CallLock, Threads!Mutexes!At, Threads!Mutexes!Goto
  <2>2. Frame(MutexPlaces)' /\ t \notin mutex.holder
    BY <1>0, <1>3, <2>1 DEF MutexPlaces, HeldByInside
  <2> QED
    BY <1>a, <2>1, <2>2
\* The section is entered with the mutex free.
<1>c. ASSUME NEW t \in Threads!Idx, th[t] = "lock", th' = [th EXCEPT ![t] = "in"],
             UNCHANGED <<main, next>>, mutex.holder = {},
             mutex' = [holder |-> {t}, depth |-> 1, state |-> "usable"]
      PROVE  MutexInv'
  <2>1. /\ Frame(MutexPlaces)' /\ th'[t] = "in"
        /\ \A u \in Threads!Idx : u # t => th'[u] = th[u]
    BY <1>3, <1>c DEF MutexPlaces
  <2>2. \A u \in Threads!Idx : th[u] \notin {"in", "relock", "twice"}
    BY <1>0, <1>c DEF HeldByInside
  <2>3. mutex' \in MutexRecords
    BY <1>c DEF MutexRecords
  <2>4. HeldByInside'
    BY <1>c, <2>1, <2>2 DEF HeldByInside
  <2>5. HoldersMutex'
    BY <1>c DEF HoldersMutex
  <2> QED
    BY <2>1, <2>3, <2>4, <2>5 DEF MutexInv
<1>5. ASSUME NEW t \in Threads!Idx, Threads!Mutexes!Enter(t) PROVE MutexInv'
  <2>1. /\ th[t] = "lock" /\ th' = [th EXCEPT ![t] = "in"] /\ UNCHANGED <<main, next>>
        /\ \/ mutex.holder = {} /\ mutex.state = "usable"
              /\ mutex' = [mutex EXCEPT !.holder = {t}, !.depth = 1]
           \/ mutex.state = "lost"
           \/ t \in mutex.holder
    BY <1>5 DEF Threads!Mutexes!Enter, Threads!Mutexes!At, Threads!Mutexes!Goto,
                Threads!Mutexes!mutex_lock, Threads!Mutexes!Taken, Threads!Mutexes!Held
  <2>2. mutex.holder = {} /\ mutex' = [holder |-> {t}, depth |-> 1, state |-> "usable"]
    BY <1>0, <2>1 DEF MutexRecords, HeldByInside
  <2> QED
    BY <1>c, <2>1, <2>2
<1>6. ASSUME NEW t \in Threads!Idx, Threads!Mutexes!EnterDead(t) PROVE MutexInv'
  <2>1. /\ th[t] = "lock" /\ th' = [th EXCEPT ![t] = "in"] /\ UNCHANGED <<main, next>>
        /\ mutex.holder = {}
        /\ mutex' = [[mutex EXCEPT !.holder = {t}, !.depth = 1] EXCEPT !.state = "usable"]
    BY <1>6 DEF Threads!Mutexes!EnterDead, Threads!Mutexes!At, Threads!Mutexes!Goto,
                Threads!Mutexes!Taken
  <2>2. mutex' = [holder |-> {t}, depth |-> 1, state |-> "usable"]
    BY <1>0, <2>1 DEF MutexRecords
  <2> QED
    BY <1>c, <2>1, <2>2
\* The holder goes on inside.
<1>d. ASSUME NEW t \in Threads!Idx, th[t] \in {"in", "relock"},
             NEW to, th' = [th EXCEPT ![t] = to], UNCHANGED <<main, next>>,
             \/ to = "relock" /\ mutex' = mutex
             \/ to = "twice" /\ mutex' = mutex
             \/ to = "twice" /\ mutex' = [mutex EXCEPT !.depth = 2]
      PROVE  MutexInv'
  <2>1. /\ Frame(MutexPlaces)' /\ th'[t] = to
        /\ \A u \in Threads!Idx : u # t => th'[u] = th[u]
    BY <1>3, <1>d DEF MutexPlaces
  <2>2. /\ mutex.holder = {t} /\ mutex.depth = 1 /\ mutex.state = "usable"
        /\ \A u \in Threads!Idx : u # t => th[u] \notin {"in", "relock", "twice"}
    BY <1>0, <1>d DEF HeldByInside, HoldersMutex
  <2>3. /\ mutex' \in MutexRecords /\ mutex'.holder = {t} /\ mutex'.state = "usable"
        /\ mutex'.depth # 0 /\ (to = "relock" => mutex'.depth = 1)
    BY <1>0, <1>d, <2>2 DEF MutexRecords
  <2>4. HeldByInside'
    BY <1>d, <2>1, <2>2, <2>3 DEF HeldByInside
  <2>5. HoldersMutex'
    BY <2>3 DEF HoldersMutex
  <2> QED
    BY <2>1, <2>3, <2>4, <2>5 DEF MutexInv
<1>7. ASSUME NEW t \in Threads!Idx, Threads!Mutexes!CallAgain(t) PROVE MutexInv'
  <2>1. /\ th[t] = "in" /\ th' = [th EXCEPT ![t] = "relock"]
        /\ UNCHANGED <<main, next, mutex>>
    BY <1>7 DEF Threads!Mutexes!CallAgain, Threads!Mutexes!At, Threads!Mutexes!Goto
  <2> QED
    BY <1>d, <2>1
<1>8. ASSUME NEW t \in Threads!Idx, Threads!Mutexes!EnterAgain(t) PROVE MutexInv'
  <2>1. /\ th[t] = "relock" /\ th' = [th EXCEPT ![t] = "twice"]
        /\ UNCHANGED <<main, next>>
        /\ \/ mutex.holder = {}
           \/ mutex' = [mutex EXCEPT !.depth = mutex.depth + 1]
           \/ mutex' = mutex
    BY <1>8 DEF Threads!Mutexes!EnterAgain, Threads!Mutexes!At, Threads!Mutexes!Goto,
                Threads!Mutexes!mutex_lock
  <2>2. mutex.holder = {t} /\ mutex.depth = 1
    BY <1>0, <2>1 DEF HeldByInside
  <2>3. mutex' = [mutex EXCEPT !.depth = 2] \/ mutex' = mutex
    BY <2>1, <2>2
  <2> QED
    BY <1>d, <2>1, <2>3
\* The mutex is given back, or what is left of it.
<1>e. ASSUME NEW t \in Threads!Idx, th[t] \in {"start", "in", "twice"},
             NEW to \in {"gone", "cancel"}, th' = [th EXCEPT ![t] = to],
             UNCHANGED <<main, next>>,
             \/ mutex' = mutex
             \/ t \in mutex.holder /\ mutex' = [mutex EXCEPT !.depth = 1]
             \/ \E s \in {"usable", "ownerdead"} :
                  t \in mutex.holder /\ mutex' = [holder |-> {}, depth |-> 0, state |-> s]
      PROVE  MutexInv'
  <2>1. /\ Frame(MutexPlaces)' /\ th'[t] = to
        /\ \A u \in Threads!Idx : u # t => th'[u] = th[u]
    BY <1>3, <1>e DEF MutexPlaces
  <2>2. CASE mutex' = mutex
    BY <1>a, <1>e, <2>1, <2>2
  <2>3. CASE t \in mutex.holder
    <3>1. /\ mutex.holder = {t} /\ mutex.state = "usable"
          /\ \A u \in Threads!Idx : u # t => th[u] \notin {"in", "relock", "twice"}
      BY <1>0, <2>3 DEF HeldByInside, HoldersMutex
    <3>2. /\ mutex' \in MutexRecords
          /\ \/ mutex'.holder = {} /\ mutex'.depth = 0
             \/ mutex'.holder = {t} /\ mutex'.state = "usable" /\ mutex'.depth # 0
      BY <1>0, <1>e, <3>1 DEF MutexRecords, HoldersMutex
    <3>3. HeldByInside' /\ HoldersMutex'
      BY <1>e, <2>1, <3>1, <3>2 DEF HeldByInside, HoldersMutex
    <3> QED
      BY <2>1, <3>2, <3>3 DEF MutexInv
  <2> QED
    BY <1>e, <2>2, <2>3
\* What an unlock does.
<1>f. ASSUME NEW t \in Threads!Idx, Threads!Mutexes!mutex_unlock(t)
      PROVE  \/ mutex' = mutex
             \/ t \in mutex.holder /\ mutex' = [mutex EXCEPT !.depth = 1]
             \/ /\ t \in mutex.holder
                /\ mutex' = [holder |-> {}, depth |-> 0, state |-> "usable"]
  <2>1. CASE t \notin mutex.holder
    BY <1>f, <2>1 DEF Threads!Mutexes!mutex_unlock, Threads!Mutexes!Held
  <2>2. CASE t \in mutex.holder
    <3>1. mutex.state = "usable" /\ mutex.depth \in {1, 2}
      BY <1>0, <2>2 DEF MutexRecords, HoldersMutex
    <3>2. IF mutex.depth > 1 THEN mutex' = [mutex EXCEPT !.depth = mutex.depth - 1]
          ELSE mutex' = [Threads!Mutexes!NewMutex EXCEPT !.state = "usable"]
      BY <1>f, <2>2, <3>1 DEF Threads!Mutexes!mutex_unlock, Threads!Mutexes!Held
    <3>3. CASE mutex.depth = 2
      BY <2>2, <3>2, <3>3
    <3>4. CASE mutex.depth = 1
      BY <2>2, <3>2, <3>4 DEF Threads!Mutexes!NewMutex
    <3> QED
      BY <3>1, <3>3, <3>4
  <2> QED
    BY <2>1, <2>2
<1>9. ASSUME NEW t \in Threads!Idx, Threads!Mutexes!Leave(t) PROVE MutexInv'
  <2>1. /\ th[t] \in {"in", "twice"} /\ UNCHANGED <<main, next>>
        /\ Threads!Mutexes!mutex_unlock(t)
        /\ \E to \in {"gone", "cancel"} : th' = [th EXCEPT ![t] = to]
    BY <1>9 DEF Threads!Mutexes!Leave, Threads!Mutexes!At, Threads!Mutexes!Goto
  <2> QED
    BY <1>e, <1>f, <2>1
<1>10. ASSUME NEW t \in Threads!Idx, Threads!Mutexes!Cancel(t) PROVE MutexInv'
  <2>1. /\ th[t] = "cancel" /\ UNCHANGED mutex
        /\ \/ Threads!ProcessEnds
           \/ UNCHANGED <<main, next>> /\ th' = [th EXCEPT ![t] = "gone"]
    BY <1>10 DEF Threads!Mutexes!Cancel, Threads!Mutexes!At, Threads!Mutexes!Goto,
                 Threads!Mutexes!ProcessEnds, Threads!ProcessEnds,
                 Threads!Mutexes!Idx, Threads!Idx
  <2>2. CASE UNCHANGED <<main, next>> /\ th' = [th EXCEPT ![t] = "gone"]
    <3>1. Frame(MutexPlaces)'
      BY <1>3, <2>1, <2>2 DEF MutexPlaces
    <3> QED
      BY <1>a, <2>1, <2>2, <3>1
  <2> QED
    BY <1>b, <2>1, <2>2
<1>11. ASSUME NEW t \in Threads!Idx, Threads!Mutexes!Cancelled(t) PROVE MutexInv'
  <2>1. /\ th[t] \in {"start", "in"} /\ UNCHANGED <<main, next>>
        /\ th' = [th EXCEPT ![t] = "gone"]
        /\ \/ Threads!Mutexes!mutex_unlock(t)
           \/ mutex' = mutex
           \/ /\ t \in mutex.holder
              /\ mutex' = [Threads!Mutexes!NewMutex EXCEPT !.state = "ownerdead"]
    BY <1>11 DEF Threads!Mutexes!Cancelled, Threads!Mutexes!At, Threads!Mutexes!Goto,
                 Threads!Mutexes!owner_dies, Threads!Mutexes!Held
  <2>2. [Threads!Mutexes!NewMutex EXCEPT !.state = "ownerdead"]
          = [holder |-> {}, depth |-> 0, state |-> "ownerdead"]
    BY DEF Threads!Mutexes!NewMutex
  <2> QED
    BY <1>e, <1>f, <2>1, <2>2
<1>12. CASE UNCHANGED <<main, next, th, mutex>>
  BY <1>0, <1>12 DEF MutexInv, Frame, HeldByInside, HoldersMutex
<1> QED
  BY <1>0, <1>1, <1>2, <1>4, <1>5, <1>6, <1>7, <1>8, <1>9, <1>10, <1>11, <1>12
  DEF Threads!Mutexes!Next, Threads!Mutexes!Thread

\* What the run checks of the three programs.
LEMMA MutexPromises ==
  ASSUME MutexInv
  PROVE  /\ Threads!Mutexes!MutexExclusive /\ Threads!Mutexes!CancelBeforeJoin
         /\ mutex.depth \in 0 .. 2 /\ Cardinality(mutex.holder) <= 1
         /\ mutex.state \in {"usable", "ownerdead", "lost"}
<1>0. \A S : Threads!Mutexes!Cardinality(S) = Cardinality(S)
  BY DEF Threads!Mutexes!Cardinality, Cardinality
<1>1. \A S \in SUBSET Threads!Idx :
        (\A t, u \in S : t = u) => Cardinality(S) <= 1
  <2> TAKE S \in SUBSET Threads!Idx
  <2> HAVE \A t, u \in S : t = u
  <2>1. S = {} \/ \E t \in S : S = {t}
    OBVIOUS
  <2>2. CASE S = {}
    BY <2>2, FS_EmptySet
  <2>3. ASSUME NEW t, S = {t} PROVE Cardinality(S) <= 1
    <3>1. Cardinality({t}) = 1
      BY FS_Singleton
    <3> QED
      BY <2>3, <3>1
  <2> QED
    BY <2>1, <2>2, <2>3
<1>2. mutex.holder \in SUBSET Threads!Idx /\ mutex.depth \in {0, 1, 2}
      /\ mutex.state \in {"usable", "ownerdead"}
  BY DEF MutexInv, MutexRecords
<1>3. /\ Threads!Mutexes!Inside \in SUBSET Threads!Idx
      /\ \A t, u \in Threads!Mutexes!Inside : t = u
  BY DEF MutexInv, HeldByInside, Threads!Mutexes!Inside, Threads!Mutexes!Idx, Threads!Idx
<1>4. Threads!Mutexes!CancelBeforeJoin
  <2>1. 1 \in Threads!Idx /\ 2 \in Threads!Idx
    BY ProgramsAssumption DEF Threads!Idx, Threads!ThereAreThreads
  <2>2. th[2] = "joined" => th[1] \in {"joined", "gone"}
    BY <2>1 DEF MutexInv, Frame, Threads!Idx
  <2> QED
    BY <2>2 DEF Threads!Mutexes!CancelBeforeJoin, Threads!Mutexes!At
<1>5. Cardinality(mutex.holder) <= 1
  BY <1>1, <1>2 DEF MutexInv, HoldersMutex
<1>6. Cardinality(Threads!Mutexes!Inside) <= 1
  BY <1>1, <1>3
<1> QED
  BY <1>0, <1>2, <1>4, <1>5, <1>6 DEF Threads!Mutexes!MutexExclusive
----------------------------------------------------------------------------
(* sum_strnum_mutex.c, sum_strnum_tls.c and sum_strnum_tls_gcc.c           *)

\* Where a thread of the string sums can be between its start and its end.
StrnumPlaces == {"call", "return", "exit"}

\* What the buffers and the output hold.
OwnSums ==
  /\ variant \in {"mutex", "key", "gcc"}
  /\ buf \in [Threads!Idx -> 0 .. NumThreads]
  /\ out \in [Threads!Idx -> 0 .. NumThreads]
  /\ variant # "mutex" => \A t \in Threads!Idx : th[t] = "return" => buf[t] = t
  /\ variant # "mutex" => \A t \in Threads!Idx : out[t] # NumThreads => out[t] = t

\* A buffer is in the heap while its thread can still free it.
HeapLives ==
  main # "failed" =>
    /\ heap \subseteq Threads!Idx
    /\ \A t \in heap : th[t] \in StrnumPlaces
    /\ heap # {} => variant = "key" /\ key = TRUE

\* With the frame they are inductive.
StrnumInv == Frame(StrnumPlaces) /\ OwnSums /\ HeapLives

\* Nothing is allocated and nothing printed.
LEMMA StrnumInit == Threads!Strnum!Init => StrnumInv
<1> SUFFICES ASSUME Threads!Strnum!Init PROVE StrnumInv
  OBVIOUS
<1>n. NumThreads \in Nat
  BY ProgramsAssumption DEF Threads!ThereAreThreads
<1>1. /\ main = "create" /\ next = 0 /\ th = [t \in Threads!Idx |-> "none"]
      /\ variant \in {"mutex", "key", "gcc"} /\ heap = {}
      /\ buf = [t \in Threads!Idx |-> NumThreads]
      /\ out = [t \in Threads!Idx |-> NumThreads]
  BY DEF Threads!Strnum!Init, Threads!Strnum!ThreadsInit, Threads!Strnum!Idx,
         Threads!Idx, Threads!Strnum!NoSum
<1>2. Frame(StrnumPlaces)
  BY <1>1, FrameInit
<1> QED
  BY <1>n, <1>1, <1>2 DEF StrnumInv, OwnSums, HeapLives

\* A thread writes the buffer it owns, and its destructor frees it.
LEMMA StrnumStep ==
  ASSUME StrnumInv,
         \/ Threads!Strnum!Next
         \/ UNCHANGED <<main, next, th, variant, key, heap, buf, out>>
  PROVE  StrnumInv'
<1>n. NumThreads \in Nat
  BY ProgramsAssumption DEF Threads!ThereAreThreads
<1>0. /\ Frame(StrnumPlaces) /\ OwnSums /\ HeapLives
      /\ th \in [Threads!Idx -> {"none", "start", "gone", "joined"} \cup StrnumPlaces]
      /\ Threads!Strnum!Idx = Threads!Idx /\ Threads!Strnum!NoSum = NumThreads
  BY DEF StrnumInv, Frame, Threads!Strnum!Idx, Threads!Idx, Threads!Strnum!NoSum
<1>i. \A t \in Threads!Idx : t \in 0 .. NumThreads
  BY <1>n DEF Threads!Idx
<1>3. ASSUME NEW t \in Threads!Idx, NEW to, th' = [th EXCEPT ![t] = to],
             UNCHANGED <<main, next>>, to \in StrnumPlaces \cup {"gone"},
             th[t] \in StrnumPlaces \cup {"start"}
      PROVE  /\ Frame(StrnumPlaces)' /\ th'[t] = to
             /\ \A u \in Threads!Idx : u # t => th'[u] = th[u]
  <2>1. /\ th' \in [Threads!Idx -> {"none", "start", "gone", "joined"}
                                    \cup StrnumPlaces]
        /\ th'[t] = to /\ \A u \in Threads!Idx : u # t => th'[u] = th[u]
    BY <1>0, <1>3
  <2>2. Lives(th[t]) /\ Lives(to) /\ th[t] # "gone"
    BY <1>3 DEF Lives, StrnumPlaces
  <2>3. Frame(StrnumPlaces)'
    BY <1>0, <1>3, <2>1, <2>2, FrameMoves
  <2> QED
    BY <1>0, <1>3, <2>1, <2>2, <2>3
<1>1. CASE Threads!Strnum!Create /\ UNCHANGED variant
  <2>1. UNCHANGED <<variant, key, heap, buf, out>>
        /\ (Threads!CreateThread(next) \/ Threads!ProcessEnds)
    BY <1>1
    DEF Threads!Strnum!Create, Threads!Strnum!CreateThread, Threads!CreateThread,
        Threads!Strnum!CreateFails, Threads!Strnum!ProcessEnds, Threads!ProcessEnds,
        Threads!Strnum!Idx, Threads!Idx
  <2>2. CASE Threads!CreateThread(next)
    <3>1. /\ Frame(StrnumPlaces)' /\ next \in Threads!Idx /\ th[next] = "none"
          /\ th' = [th EXCEPT ![next] = "start"] /\ main = "create"
      BY <1>0, <2>2, FrameCreate
    <3>2. /\ th'[next] = "start"
          /\ \A u \in Threads!Idx : u # next => th'[u] = th[u]
      BY <1>0, <3>1
    <3>3. OwnSums'
      BY <1>0, <2>1, <3>2 DEF OwnSums
    <3>4. HeapLives'
      BY <1>0, <2>1, <3>1, <3>2 DEF HeapLives, StrnumPlaces
    <3> QED
      BY <3>1, <3>3, <3>4 DEF StrnumInv
  <2>3. CASE Threads!ProcessEnds
    <3>1. /\ Frame(StrnumPlaces)' /\ main' = "failed"
          /\ \A t \in Threads!Idx : th'[t] = "gone"
      BY <1>0, <2>3, FrameEnds
    <3> QED
      BY <1>0, <2>1, <3>1 DEF StrnumInv, OwnSums, HeapLives
  <2> QED
    BY <2>1, <2>2, <2>3
<1>2. CASE Threads!Strnum!clean_thread /\ UNCHANGED variant
  <2>1. UNCHANGED <<variant, heap, buf, out>> /\ Threads!JoinThread(next)
    BY <1>2
    DEF Threads!Strnum!clean_thread, Threads!Strnum!JoinThread, Threads!JoinThread,
        Threads!Strnum!At, Threads!At
  <2>8. key' = (key /\ main' = "join")
    BY <1>2 DEF Threads!Strnum!clean_thread
  <2>9. key = TRUE /\ main' = "join" => key' = TRUE
    BY <2>8
  <2>2. /\ Frame(StrnumPlaces)' /\ next \in Threads!Idx /\ th[next] = "gone"
        /\ th' = [th EXCEPT ![next] = "joined"] /\ main = "join"
        /\ main' \in {"join", "ended"}
    BY <1>0, <2>1, FrameJoin
  <2>3. /\ th'[next] = "joined"
        /\ \A u \in Threads!Idx : u # next => th'[u] = th[u]
    BY <1>0, <2>2
  <2>4. OwnSums'
    BY <1>0, <2>1, <2>3 DEF OwnSums
  <2>5. heap' \subseteq Threads!Idx /\ \A t \in heap' : th'[t] \in StrnumPlaces
    BY <1>0, <2>1, <2>2, <2>3 DEF HeapLives, StrnumPlaces
  <2>6. CASE main' = "join"
    BY <1>0, <2>1, <2>2, <2>4, <2>5, <2>6, <2>9 DEF HeapLives, StrnumInv
  <2>7. CASE main' = "ended"
    <3>1. heap' = {}
      BY <2>2, <2>5, <2>7 DEF Frame, StrnumPlaces
    <3> QED
      BY <2>2, <2>4, <3>1 DEF HeapLives, StrnumInv
  <2> QED
    BY <2>2, <2>6, <2>7
<1>4. ASSUME NEW t \in Threads!Idx, Threads!Strnum!Call(t), UNCHANGED variant
      PROVE  StrnumInv'
  <2>1. /\ th[t] = "start" /\ th' = [th EXCEPT ![t] = "call"]
        /\ UNCHANGED <<main, next, variant, buf, out>>
        /\ \/ variant = "mutex" /\ UNCHANGED <<key, heap>>
           \/ variant = "key" /\ key' = TRUE /\ heap' = heap \cup {t}
           \/ variant = "gcc" /\ UNCHANGED heap
    BY <1>0, <1>4 DEF Threads!Strnum!Call, Threads!Strnum!At, Threads!Strnum!Goto, OwnSums
  <2>2. /\ Frame(StrnumPlaces)' /\ th'[t] = "call"
        /\ \A u \in Threads!Idx : u # t => th'[u] = th[u]
    BY <1>3, <2>1 DEF StrnumPlaces
  <2>3. OwnSums'
    BY <1>0, <2>1, <2>2 DEF OwnSums
  <2>4. HeapLives'
    BY <1>0, <2>1, <2>2 DEF HeapLives, StrnumPlaces
  <2> QED
    BY <2>2, <2>3, <2>4 DEF StrnumInv
<1>5. ASSUME NEW t \in Threads!Idx, Threads!Strnum!Return(t), UNCHANGED variant
      PROVE  StrnumInv'
  <2> DEFINE b == IF variant = "mutex" THEN 0 ELSE t
  <2>1. /\ th[t] = "call" /\ th' = [th EXCEPT ![t] = "return"]
        /\ UNCHANGED <<main, next, variant, key, heap, out>>
        /\ buf' = [buf EXCEPT ![b] = t]
    BY <1>5 DEF Threads!Strnum!Return, Threads!Strnum!At, Threads!Strnum!Goto,
                Threads!Strnum!Buffer
  <2>2. /\ Frame(StrnumPlaces)' /\ th'[t] = "return"
        /\ \A u \in Threads!Idx : u # t => th'[u] = th[u]
    BY <1>3, <2>1 DEF StrnumPlaces
  <2>3. 0 \in Threads!Idx /\ b \in Threads!Idx /\ (variant # "mutex" => b = t)
    BY ProgramsAssumption DEF Threads!Idx, Threads!ThereAreThreads
  <2> HIDE DEF b
  <2>4. /\ buf' \in [Threads!Idx -> 0 .. NumThreads] /\ buf'[b] = t
        /\ \A u \in Threads!Idx : u # b => buf'[u] = buf[u]
    BY <1>0, <1>i, <2>1, <2>3 DEF OwnSums
  <2>5. variant # "mutex" => \A u \in Threads!Idx : th'[u] = "return" => buf'[u] = u
    BY <1>0, <2>2, <2>3, <2>4 DEF OwnSums
  <2>6. OwnSums'
    BY <1>0, <2>1, <2>4, <2>5 DEF OwnSums
  <2>7. HeapLives'
    BY <1>0, <2>1, <2>2 DEF HeapLives, StrnumPlaces
  <2> QED
    BY <2>2, <2>6, <2>7 DEF StrnumInv
<1>6. ASSUME NEW t \in Threads!Idx, Threads!Strnum!Output(t), UNCHANGED variant
      PROVE  StrnumInv'
  <2> DEFINE b == IF variant = "mutex" THEN 0 ELSE t
  <2>1. /\ th[t] = "return" /\ th' = [th EXCEPT ![t] = "exit"]
        /\ UNCHANGED <<main, next, variant, key, heap, buf>>
        /\ out' = [out EXCEPT ![t] = buf[b]]
    BY <1>6 DEF Threads!Strnum!Output, Threads!Strnum!At, Threads!Strnum!Goto,
                Threads!Strnum!Buffer
  <2>2. /\ Frame(StrnumPlaces)' /\ th'[t] = "exit"
        /\ \A u \in Threads!Idx : u # t => th'[u] = th[u]
    BY <1>3, <2>1 DEF StrnumPlaces
  <2>3. 0 \in Threads!Idx /\ b \in Threads!Idx /\ (variant # "mutex" => b = t)
    BY ProgramsAssumption DEF Threads!Idx, Threads!ThereAreThreads
  <2> HIDE DEF b
  <2>4. /\ out' \in [Threads!Idx -> 0 .. NumThreads] /\ out'[t] = buf[b]
        /\ \A u \in Threads!Idx : u # t => out'[u] = out[u]
    BY <1>0, <2>1, <2>3 DEF OwnSums
  <2>5. variant # "mutex" => \A u \in Threads!Idx : out'[u] # NumThreads => out'[u] = u
    BY <1>0, <2>1, <2>3, <2>4 DEF OwnSums
  <2>6. variant # "mutex" => \A u \in Threads!Idx : th'[u] = "return" => buf'[u] = u
    BY <1>0, <2>1, <2>2 DEF OwnSums
  <2>7. OwnSums'
    BY <1>0, <2>1, <2>4, <2>5, <2>6 DEF OwnSums
  <2>8. HeapLives'
    BY <1>0, <2>1, <2>2 DEF HeapLives, StrnumPlaces
  <2> QED
    BY <2>2, <2>7, <2>8 DEF StrnumInv
<1>7. ASSUME NEW t \in Threads!Idx, Threads!Strnum!Exit(t), UNCHANGED variant
      PROVE  StrnumInv'
  <2>1. /\ th[t] = "exit" /\ th' = [th EXCEPT ![t] = "gone"]
        /\ UNCHANGED <<main, next, variant, key, buf, out>>
        /\ heap' = IF key THEN heap \ {t} ELSE heap
    BY <1>7 DEF Threads!Strnum!Exit, Threads!Strnum!At, Threads!Strnum!Goto
  <2>2. /\ Frame(StrnumPlaces)' /\ th'[t] = "gone"
        /\ \A u \in Threads!Idx : u # t => th'[u] = th[u]
    BY <1>3, <2>1 DEF StrnumPlaces
  <2>3. OwnSums'
    BY <1>0, <2>1, <2>2 DEF OwnSums
  <2>4. main # "failed" => heap' = heap \ {t}
    BY <1>0, <2>1 DEF HeapLives
  <2>5. HeapLives'
    BY <1>0, <2>1, <2>2, <2>4 DEF HeapLives, StrnumPlaces
  <2> QED
    BY <2>2, <2>3, <2>5 DEF StrnumInv
<1>8. CASE UNCHANGED <<main, next, th, variant, key, heap, buf, out>>
  BY <1>0, <1>8 DEF StrnumInv, Frame, OwnSums, HeapLives
<1> QED
  BY <1>0, <1>1, <1>2, <1>4, <1>5, <1>6, <1>7, <1>8
  DEF Threads!Strnum!Next, Threads!Strnum!Thread

\* What the run checks of the string sums.
LEMMA StrnumPromises ==
  ASSUME StrnumInv
  PROVE  /\ Threads!Strnum!PrintsOwn /\ Threads!Strnum!BuffersFreed
         /\ buf \in [Threads!Idx -> 0 .. NumThreads]
<1>1. main = "ended" => heap = {}
  BY DEF StrnumInv, HeapLives, Frame, StrnumPlaces
<1> QED
  BY <1>1 DEF StrnumInv, OwnSums, Threads!Strnum!PrintsOwn, Threads!Strnum!BuffersFreed,
     Threads!Strnum!NoSum, Threads!Strnum!Idx, Threads!Idx
----------------------------------------------------------------------------
(* pthread_pi_cputime.c and pthread_pi_cputime_sched.c                     *)

\* What a thread that has ended has added up.
SumsDone ==
  main # "failed" =>
    \A t \in 0 .. 2 : th[t] \in {"gone", "joined"} =>
      sum[t] = IF t \in clock THEN Threads!Pi!Range(t) ELSE {}

\* The frame of a program that starts and joins its threads in the reversed order.
PiInv ==
  /\ main \in {"create", "join", "ended", "failed"} /\ next \in 0 .. 2
  /\ th \in [0 .. 2 -> {"none", "start", "gone", "joined"}]
  /\ num_steps \in Nat \ {0} /\ clock \subseteq 0 .. 2
  /\ DOMAIN sum = 0 .. 2
  /\ main = "join" => \A t \in 0 .. 2 : 2 - t < next => th[t] = "joined"
  /\ main = "ended" => \A t \in 0 .. 2 : th[t] = "joined"
  /\ SumsDone

\* There are three threads.
LEMMA PiIdx == Threads!Pi!Idx = 0 .. 2
BY DEF Threads!Pi!Idx

\* Nothing has been added up.
LEMMA PiInit == Threads!Pi!Init => PiInv
<1> SUFFICES ASSUME Threads!Pi!Init PROVE PiInv
  OBVIOUS
<1>1. /\ main = "create" /\ next = 0 /\ th = [t \in 0 .. 2 |-> "none"]
      /\ num_steps \in 1 .. MaxSteps /\ clock \in SUBSET (0 .. 2)
      /\ sum = [t \in 0 .. 2 |-> {}]
  BY PiIdx DEF Threads!Pi!Init, Threads!Pi!ThreadsInit
<1>2. num_steps \in Nat \ {0}
  BY <1>1, ProgramsAssumption
<1>3. SumsDone
  BY <1>1 DEF SumsDone
<1> QED
  BY <1>1, <1>2, <1>3 DEF PiInv

\* Creating and joining the thread that the reversed loop has come to.
LEMMA PiNext ==
  ASSUME next \in 0 .. 2, next' = (next + 1) % 3
  PROVE  /\ next' = IF next = 2 THEN 0 ELSE next + 1
         /\ next' \in 0 .. 2 /\ 2 - next \in 0 .. 2
<1>1. next = 0 \/ next = 1 \/ next = 2
  OBVIOUS
<1>2. 1 % 3 = 1 /\ 2 % 3 = 2 /\ 3 % 3 = 0
  OBVIOUS
<1> QED
  BY <1>1, <1>2

\* A thread adds up its own range, if it has a clock.
LEMMA PiStep ==
  ASSUME PiInv,
         Threads!Pi!Next \/ UNCHANGED <<main, next, th, num_steps, clock, sum>>
  PROVE  PiInv'
<1>0. /\ main \in {"create", "join", "ended", "failed"} /\ next \in 0 .. 2
      /\ th \in [0 .. 2 -> {"none", "start", "gone", "joined"}] /\ DOMAIN sum = 0 .. 2
      /\ num_steps \in Nat \ {0} /\ clock \subseteq 0 .. 2 /\ SumsDone
  BY DEF PiInv
<1>r. ASSUME UNCHANGED num_steps PROVE \A t : Threads!Pi!Range(t)' = Threads!Pi!Range(t)
  BY <1>r DEF Threads!Pi!Range, Threads!Pi!i_end0, Threads!Pi!i_start1, Threads!Pi!i_end1
<1>e. ASSUME main' = "failed", th' = [t \in 0 .. 2 |-> "gone"],
             UNCHANGED <<next, sum, num_steps, clock>>
      PROVE  PiInv'
  BY <1>0, <1>e DEF PiInv, SumsDone
<1>1. CASE Threads!Pi!Create /\ UNCHANGED <<num_steps, clock>>
  <2>1. CASE Threads!Pi!CreateThread(2 - next)
    <3>1. /\ main = "create" /\ th' = [th EXCEPT ![2 - next] = "start"]
          /\ next' = (next + 1) % 3 /\ main' = IF next' = 0 THEN "join" ELSE "create"
          /\ UNCHANGED <<sum, num_steps, clock>>
      BY <1>1, <2>1 DEF Threads!Pi!Create, Threads!Pi!CreateThread
    <3>2. 2 - next \in 0 .. 2 /\ next' \in 0 .. 2
      BY <1>0, <3>1, PiNext
    <3>3. /\ th' \in [0 .. 2 -> {"none", "start", "gone", "joined"}]
          /\ th'[2 - next] = "start"
          /\ \A t \in 0 .. 2 : t # 2 - next => th'[t] = th[t]
      BY <1>0, <3>1, <3>2
    <3>4. SumsDone'
      BY <1>0, <1>r, <3>1, <3>3 DEF SumsDone
    <3>5. main' = "join" => next' = 0
      BY <3>1
    <3>6. main' \in {"create", "join"}
      BY <3>1
    <3>7. main' = "join" => \A t \in 0 .. 2 : ~(2 - t < next')
      BY <3>5
    <3> QED
      BY <1>0, <3>1, <3>2, <3>3, <3>4, <3>6, <3>7 DEF PiInv
  <2>2. CASE Threads!Pi!CreateFails
    BY <1>1, <1>e, <2>2, PiIdx
    DEF Threads!Pi!Create, Threads!Pi!CreateFails, Threads!Pi!ProcessEnds
  <2> QED
    BY <1>1, <2>1, <2>2 DEF Threads!Pi!Create
<1>2. CASE Threads!Pi!Overrun /\ UNCHANGED <<num_steps, clock>>
  BY <1>2, <1>e, PiIdx DEF Threads!Pi!Overrun, Threads!Pi!ProcessEnds
<1>3. CASE Threads!Pi!Join /\ UNCHANGED <<num_steps, clock>>
  <2>1. /\ main = "join" /\ th[2 - next] = "gone" /\ next' = (next + 1) % 3
        /\ main' = IF next' = 0 THEN "ended" ELSE "join"
        /\ th' = [th EXCEPT ![2 - next] = "joined"]
        /\ UNCHANGED <<sum, num_steps, clock>>
    BY <1>3 DEF Threads!Pi!Join, Threads!Pi!JoinThread, Threads!Pi!At
  <2>2. /\ 2 - next \in 0 .. 2 /\ next' \in 0 .. 2
        /\ next' = IF next = 2 THEN 0 ELSE next + 1
    BY <1>0, <2>1, PiNext
  <2>3. /\ th' \in [0 .. 2 -> {"none", "start", "gone", "joined"}]
        /\ th'[2 - next] = "joined"
        /\ \A t \in 0 .. 2 : t # 2 - next => th'[t] = th[t]
    BY <1>0, <2>1, <2>2
  <2>4. SumsDone'
    BY <1>0, <1>r, <2>1, <2>2, <2>3 DEF SumsDone
  <2>5. \A t \in 0 .. 2 : 2 - t <= next => th'[t] = "joined"
    <3> TAKE t \in 0 .. 2
    <3> HAVE 2 - t <= next
    <3>1. t = 2 - next \/ 2 - t < next
      BY <1>0
    <3> QED
      BY <2>1, <2>3, <3>1 DEF PiInv
  <2>6. \A t \in 0 .. 2 : /\ next = 2 => 2 - t <= next
                          /\ next # 2 /\ 2 - t < next' => 2 - t <= next
    BY <1>0, <2>2
  <2>7. /\ main' = "join" => next # 2
        /\ main' = "ended" => next = 2
        /\ main' \in {"join", "ended"}
    BY <1>0, <2>1, <2>2
  <2> QED
    BY <1>0, <2>1, <2>2, <2>3, <2>4, <2>5, <2>6, <2>7 DEF PiInv
<1>4. ASSUME NEW t \in 0 .. 2, Threads!Pi!Sum(t), UNCHANGED <<num_steps, clock>>
      PROVE  PiInv'
  <2>1. /\ th[t] = "start" /\ th' = [th EXCEPT ![t] = "gone"] /\ UNCHANGED <<main, next>>
        /\ sum' = [sum EXCEPT ![t] = IF t \in clock THEN Threads!Pi!Range(t) ELSE {}]
    BY <1>4 DEF Threads!Pi!Sum, Threads!Pi!At, Threads!Pi!Goto
  <2>2. /\ th' \in [0 .. 2 -> {"none", "start", "gone", "joined"}] /\ th'[t] = "gone"
        /\ \A u \in 0 .. 2 : u # t => th'[u] = th[u]
    BY <1>0, <2>1
  <2>3. /\ DOMAIN sum' = 0 .. 2
        /\ sum'[t] = IF t \in clock THEN Threads!Pi!Range(t) ELSE {}
        /\ \A u \in 0 .. 2 : u # t => sum'[u] = sum[u]
    BY <1>0, <2>1
  <2>4. SumsDone'
    <3> SUFFICES ASSUME main' # "failed", NEW u \in 0 .. 2, th'[u] \in {"gone", "joined"}
        PROVE  sum'[u] = IF u \in clock' THEN Threads!Pi!Range(u)' ELSE {}
      BY DEF SumsDone
    <3>1. main' = main /\ clock' = clock /\ Threads!Pi!Range(u)' = Threads!Pi!Range(u)
      BY <1>4, <1>r, <2>1
    <3>2. CASE u = t
      BY <2>3, <3>1, <3>2
    <3>3. CASE u # t
      <4>1. sum[u] = IF u \in clock THEN Threads!Pi!Range(u) ELSE {}
        BY <1>0, <2>2, <3>1, <3>3 DEF SumsDone
      <4> QED
        BY <2>3, <3>1, <3>3, <4>1
    <3> QED
      BY <3>2, <3>3
  <2>5. main' = "join" => \A u \in 0 .. 2 : 2 - u < next' => th'[u] = "joined"
    BY <2>1, <2>2 DEF PiInv
  <2>6. main' = "ended" => \A u \in 0 .. 2 : th'[u] = "joined"
    BY <2>1, <2>2 DEF PiInv
  <2> QED
    BY <1>0, <1>4, <2>1, <2>2, <2>3, <2>4, <2>5, <2>6 DEF PiInv
<1>5. CASE UNCHANGED <<main, next, th, num_steps, clock, sum>>
  BY <1>0, <1>5, <1>r DEF PiInv, SumsDone
<1> QED
  BY <1>1, <1>2, <1>3, <1>4, <1>5, PiIdx DEF Threads!Pi!Next

\* The ranges of the three threads cover all steps but two.
LEMMA PiPromises ==
  ASSUME PiInv
  PROVE  Threads!Pi!StepsCounted /\ Threads!Pi!ThreadsTypeOK({"exit"})
<1>1. ASSUME main = "ended", clock = 0 .. 2
      PROVE  /\ UNION {sum[t] : t \in 0 .. 2} =
                  (0 .. num_steps - 1) \ {Threads!Pi!i_end0, Threads!Pi!i_end1}
             /\ \A t, u \in 0 .. 2 : t # u => sum[t] \cap sum[u] = {}
  <2> DEFINE n == num_steps
             h == num_steps \div 2
             q == num_steps \div 4
  <2>1. n \in Nat \ {0}
    BY DEF PiInv
  <2>2. /\ h \in Nat /\ 2 * h <= n /\ n < 2 * h + 2
        /\ q \in Nat /\ 4 * q <= n /\ n < 4 * q + 4
    BY <2>1
  <2>3. /\ Threads!Pi!i_end0 = h /\ Threads!Pi!i_start1 = h + 1
        /\ Threads!Pi!i_end1 = h + 1 + q
    BY DEF Threads!Pi!i_end0, Threads!Pi!i_start1, Threads!Pi!i_end1
  <2> HIDE DEF h, q
  <2>4. \A t \in 0 .. 2 : sum[t] = Threads!Pi!Range(t)
    BY <1>1 DEF PiInv, SumsDone
  <2>5. /\ sum[0] = 0 .. h - 1
        /\ sum[1] = h + 1 .. h + 1 + q - 1
        /\ sum[2] = h + 1 + q + 1 .. n - 1
    <3>1. /\ Threads!Pi!Range(0) = 0 .. Threads!Pi!i_end0 - 1
          /\ Threads!Pi!Range(1) = Threads!Pi!i_start1 .. Threads!Pi!i_end1 - 1
          /\ Threads!Pi!Range(2) = Threads!Pi!i_end1 + 1 .. n - 1
      BY DEF Threads!Pi!Range
    <3>2. 0 \in 0 .. 2 /\ 1 \in 0 .. 2 /\ 2 \in 0 .. 2
      OBVIOUS
    <3>3. sum[0] = Threads!Pi!Range(0) /\ sum[1] = Threads!Pi!Range(1)
          /\ sum[2] = Threads!Pi!Range(2)
      BY <2>4, <3>2
    <3> QED
      BY <2>2, <2>3, <3>1, <3>3
  <2>6. UNION {sum[t] : t \in 0 .. 2} = sum[0] \cup sum[1] \cup sum[2]
    <3>1. \A t \in 0 .. 2 : t = 0 \/ t = 1 \/ t = 2
      OBVIOUS
    <3> QED
      BY <3>1
  <2>7. (0 .. h - 1) \cup (h + 1 .. h + 1 + q - 1) \cup (h + 1 + q + 1 .. n - 1)
          = (0 .. n - 1) \ {h, h + 1 + q}
    BY <2>1, <2>2
  <2>8. /\ sum[0] \cap sum[1] = {} /\ sum[0] \cap sum[2] = {}
        /\ sum[1] \cap sum[2] = {}
    BY <2>1, <2>2, <2>5
  <2>9. ASSUME NEW t \in 0 .. 2, NEW u \in 0 .. 2, t # u
        PROVE  sum[t] \cap sum[u] = {}
    <3>1. (t = 0 \/ t = 1 \/ t = 2) /\ (u = 0 \/ u = 1 \/ u = 2)
      OBVIOUS
    <3> QED
      BY <2>8, <2>9, <3>1
  <2> QED
    BY <2>3, <2>5, <2>6, <2>7, <2>9
<1>2. Threads!Pi!StepsCounted
  BY <1>1, PiIdx DEF Threads!Pi!StepsCounted
<1>3. Threads!Pi!ThreadsTypeOK({"exit"})
  BY PiIdx DEF PiInv, Threads!Pi!ThreadsTypeOK
<1> QED
  BY <1>2, <1>3
----------------------------------------------------------------------------
(* mutex_pshared.c                                                         *)

\* The threads of all processes.
SharedTids == Threads!Shared!Tids
\* The places between lock and unlock, those before them, and all of them.
Section == {"in", "pid", "idx"}
Before == {"start", "again", "private", "shared"}
Place == {"none", "gone"} \cup Before \cup Section

\* The ranges; the mutex has at most one holder.
SharedTyped ==
  /\ mutex \in [holder : SUBSET SharedTids, depth : {0, 1}, state : {"usable"}]
  /\ \A t, u \in mutex.holder : t = u
  /\ place \in [SharedTids -> Place]
  /\ at \in [Procs -> {"open", "init", "create", "join", "gone"}]
  /\ \A t \in SharedTids : at[t[1]] \in {"open", "init", "create"} => place[t] = "none"

\* What the threads find while nobody has disturbed them.
Undisturbed ==
  /\ \A t \in SharedTids : place[t] \in Section => mutex.holder = {t}
  /\ \A t \in SharedTids : place[t] = "pid" => prev[1] = t[1]
  /\ \/ \E t \in SharedTids : place[t] = "pid"
     \/ prev = <<Threads!Shared!Nobody, 0>>
     \/ prev \in SharedTids /\ place[prev] \in {"idx", "gone"}

\* The pair is whole until the mutex is initialised anew or goes with its owner.
SharedInv == SharedTyped /\ (~disturbed => Undisturbed)

\* A thread is named by its process and its number.
LEMMA TidsArePairs ==
  \A t \in SharedTids : t = <<t[1], t[2]>> /\ t[1] \in Procs
BY DEF SharedTids, Threads!Shared!Tids

\* No process has opened the shared memory.
LEMMA SharedInit == Threads!Shared!Init => SharedInv
<1> SUFFICES ASSUME Threads!Shared!Init PROVE SharedInv
  OBVIOUS
<1>1. /\ mutex = [holder |-> {}, depth |-> 0, state |-> "usable"]
      /\ at = [p \in Procs |-> "open"] /\ place = [t \in SharedTids |-> "none"]
      /\ prev = <<Threads!Shared!Nobody, 0>>
  BY DEF Threads!Shared!Init, Threads!Shared!NewMutex, SharedTids
<1>2. SharedTyped
  BY <1>1, TidsArePairs DEF SharedTyped, Place
<1>3. Undisturbed
  BY <1>1 DEF Undisturbed, Section
<1> QED
  BY <1>2, <1>3 DEF SharedInv

\* A step of a process or of a thread keeps it.
LEMMA SharedStep ==
  ASSUME SharedInv,
         \/ Threads!Shared!Next
         \/ UNCHANGED <<mutex, shm, withC, at, place, contended, prev, disturbed,
                        unwoken>>
  PROVE  SharedInv'
<1>0. /\ SharedTyped /\ (~disturbed => Undisturbed)
      /\ mutex \in [holder : SUBSET SharedTids, depth : {0, 1}, state : {"usable"}]
      /\ place \in [SharedTids -> Place]
      /\ at \in [Procs -> {"open", "init", "create", "join", "gone"}]
      /\ Threads!Shared!Tids = SharedTids
  BY DEF SharedInv, SharedTyped, SharedTids
<1>1. ASSUME NEW p \in Procs, Threads!Shared!Open(p) PROVE SharedInv'
  <2>1. /\ at[p] = "open" /\ UNCHANGED <<mutex, place, prev, disturbed>>
        /\ at' = [at EXCEPT ![p] = IF p \in withC THEN "init" ELSE "create"]
    BY <1>1 DEF Threads!Shared!Open
  <2>2. /\ at' \in [Procs -> {"open", "init", "create", "join", "gone"}]
        /\ at'[p] \in {"init", "create"}
        /\ \A o \in Procs : o # p => at'[o] = at[o]
    BY <1>0, <2>1
  <2>3. SharedTyped'
    BY <1>0, <2>1, <2>2, TidsArePairs DEF SharedTyped
  <2>4. Undisturbed' <=> Undisturbed
    BY <2>1 DEF Undisturbed
  <2> QED
    BY <1>0, <2>1, <2>3, <2>4 DEF SharedInv
<1>2. ASSUME NEW p \in Procs, Threads!Shared!InitMutex(p) PROVE SharedInv'
  <2>1. /\ at[p] = "init" /\ UNCHANGED place
        /\ at' = [at EXCEPT ![p] = "create"]
        /\ mutex' = [holder |-> {}, depth |-> 0, state |-> "usable"]
        /\ prev' = <<Threads!Shared!Nobody, 0>>
    BY <1>2 DEF Threads!Shared!InitMutex, Threads!Shared!NewMutex
  <2>2. disturbed' = (disturbed \/ Threads!Shared!Users # {})
    BY <1>2 DEF Threads!Shared!InitMutex
  <2>3. /\ at' \in [Procs -> {"open", "init", "create", "join", "gone"}]
        /\ at'[p] = "create"
        /\ \A o \in Procs : o # p => at'[o] = at[o]
    BY <1>0, <2>1
  <2>4. SharedTyped'
    BY <1>0, <2>1, <2>3, TidsArePairs DEF SharedTyped
  <2>5. ASSUME ~disturbed' PROVE Undisturbed'
    <3>1. Threads!Shared!Users = {}
      BY <2>2, <2>5
    <3>2. \A t \in SharedTids : place[t] \in {"none", "gone"}
      BY <1>0, <3>1 DEF Threads!Shared!Users
    <3> QED
      BY <2>1, <3>2 DEF Undisturbed, Section
  <2> QED
    BY <2>4, <2>5 DEF SharedInv
<1>3. ASSUME NEW p \in Procs, Threads!Shared!Create(p) PROVE SharedInv'
  <2>1. /\ at[p] = "create" /\ at' = [at EXCEPT ![p] = "join"]
        /\ place' = [t \in SharedTids |-> IF t[1] = p THEN "start" ELSE place[t]]
        /\ UNCHANGED <<mutex, prev, disturbed>>
    BY <1>0, <1>3 DEF Threads!Shared!Create
  <2>2. /\ at' \in [Procs -> {"open", "init", "create", "join", "gone"}]
        /\ at'[p] = "join"
        /\ \A o \in Procs : o # p => at'[o] = at[o]
    BY <1>0, <2>1
  <2>3. /\ place' \in [SharedTids -> Place]
        /\ \A t \in SharedTids :
             place'[t] = IF t[1] = p THEN "start" ELSE place[t]
    BY <1>0, <2>1 DEF Place, Before
  <2>4. SharedTyped'
    BY <1>0, <2>1, <2>2, <2>3, TidsArePairs DEF SharedTyped
  <2>5. \A t \in SharedTids : t[1] = p => place[t] = "none"
    BY <1>0, <2>1 DEF SharedTyped
  <2>6. ASSUME Undisturbed PROVE Undisturbed'
    <3>1. \A t \in SharedTids : place'[t] # place[t] => place[t] = "none" /\ place'[t] = "start"
      BY <2>3, <2>5
    <3> QED
      BY <2>1, <2>6, <3>1 DEF Undisturbed, Section
  <2> QED
    BY <1>0, <2>1, <2>4, <2>6 DEF SharedInv
<1>4. ASSUME NEW p \in Procs, Threads!Shared!clean_thread(p) PROVE SharedInv'
  <2>1. /\ at' = [at EXCEPT ![p] = "gone"]
        /\ UNCHANGED <<mutex, place, prev, disturbed>>
    BY <1>4 DEF Threads!Shared!clean_thread
  <2>2. /\ at' \in [Procs -> {"open", "init", "create", "join", "gone"}]
        /\ at'[p] = "gone"
        /\ \A o \in Procs : o # p => at'[o] = at[o]
    BY <1>0, <2>1
  <2>3. SharedTyped'
    BY <1>0, <2>1, <2>2, TidsArePairs DEF SharedTyped
  <2>4. Undisturbed' <=> Undisturbed
    BY <2>1 DEF Undisturbed
  <2> QED
    BY <1>0, <2>1, <2>3, <2>4 DEF SharedInv
<1>5. ASSUME NEW p \in Procs, Threads!Shared!Dies(p) PROVE SharedInv'
  <2>1. /\ at' = [at EXCEPT ![p] = "gone"] /\ UNCHANGED <<mutex, prev>>
        /\ place' = [t \in SharedTids |-> IF t[1] = p THEN "gone" ELSE place[t]]
    BY <1>0, <1>5 DEF Threads!Shared!Dies
  <2>2. disturbed' = (disturbed \/ \E t \in mutex.holder : t[1] = p)
    BY <1>5 DEF Threads!Shared!Dies
  <2>3. /\ at' \in [Procs -> {"open", "init", "create", "join", "gone"}]
        /\ at'[p] = "gone"
        /\ \A o \in Procs : o # p => at'[o] = at[o]
    BY <1>0, <2>1
  <2>4. /\ place' \in [SharedTids -> Place]
        /\ \A t \in SharedTids :
             place'[t] = IF t[1] = p THEN "gone" ELSE place[t]
    BY <1>0, <2>1 DEF Place
  <2>5. SharedTyped'
    BY <1>0, <2>1, <2>3, <2>4, TidsArePairs DEF SharedTyped
  <2>6. ASSUME ~disturbed' PROVE Undisturbed'
    <3>1. Undisturbed /\ \A t \in mutex.holder : t[1] # p
      BY <1>0, <2>2, <2>6
    <3>2. \A t \in SharedTids : place[t] \in Section => t[1] # p
      BY <3>1 DEF Undisturbed
    <3>3. \A t \in SharedTids : \/ place'[t] = place[t]
                                \/ place[t] \notin Section /\ place'[t] = "gone"
      BY <2>4, <3>2
    <3> QED
      BY <2>1, <3>1, <3>3 DEF Undisturbed, Section
  <2> QED
    BY <2>5, <2>6 DEF SharedInv
\* A thread moves on, and its process does not.
<1>6. ASSUME NEW t \in SharedTids, NEW old, NEW to, Threads!Shared!Move(t, old, to),
             old \in Before \cup Section, to \in Before \cup Section
      PROVE  /\ place[t] = old /\ UNCHANGED at
             /\ place' \in [SharedTids -> Place]
             /\ place'[t] = to /\ \A u \in SharedTids : u # t => place'[u] = place[u]
             /\ \A u \in SharedTids :
                  at'[u[1]] \in {"open", "init", "create"} => place'[u] = "none"
  <2>1. place[t] = old /\ place' = [place EXCEPT ![t] = to] /\ UNCHANGED at
    BY <1>6 DEF Threads!Shared!Move
  <2>2. /\ place' \in [SharedTids -> Place]
        /\ place'[t] = to /\ \A u \in SharedTids : u # t => place'[u] = place[u]
    BY <1>0, <1>6, <2>1 DEF Place
  <2>3. place[t] # "none"
    BY <1>6, <2>1 DEF Section, Before
  <2> QED
    BY <1>0, <2>1, <2>2, <2>3 DEF SharedTyped
<1>7. ASSUME NEW t \in SharedTids, Threads!Shared!Lock(t) PROVE SharedInv'
  <2>1. /\ Threads!Shared!Move(t, place[t], "in") /\ UNCHANGED <<prev, disturbed>>
        /\ place[t] \in Before
        /\ mutex.holder = {} /\ mutex' = [mutex EXCEPT !.holder = {t}, !.depth = 1]
    BY <1>7 DEF Threads!Shared!Lock, Threads!Shared!mutex_lock, Threads!Shared!Taken, Before
  <2>2. /\ place[t] \in Before /\ place'[t] = "in" /\ UNCHANGED at
        /\ \A u \in SharedTids : u # t => place'[u] = place[u]
    BY <1>6, <2>1 DEF Section
  <2>3. /\ mutex' \in [holder : SUBSET SharedTids, depth : {0, 1}, state : {"usable"}]
        /\ mutex'.holder = {t}
    BY <1>0, <2>1
  <2>4. SharedTyped'
    BY <1>0, <1>6, <2>1, <2>3 DEF SharedTyped, Section
  <2>5. ASSUME Undisturbed PROVE Undisturbed'
    <3>1. \A u \in SharedTids : place[u] \notin Section
      BY <2>1, <2>5 DEF Undisturbed
    <3>2. \/ prev = <<Threads!Shared!Nobody, 0>>
          \/ prev \in SharedTids /\ place[prev] \in {"idx", "gone"}
      BY <2>5, <3>1 DEF Undisturbed, Section
    <3> QED
      BY <2>1, <2>2, <2>3, <3>1, <3>2 DEF Undisturbed, Section, Before
  <2> QED
    BY <1>0, <2>1, <2>4, <2>5 DEF SharedInv
<1>8. ASSUME NEW t \in SharedTids, Threads!Shared!WritePid(t) PROVE SharedInv'
  <2>1. /\ Threads!Shared!Move(t, "in", "pid") /\ UNCHANGED <<mutex, disturbed>>
        /\ prev' = <<t[1], prev[2]>>
    BY <1>8 DEF Threads!Shared!WritePid
  <2>2. /\ place[t] = "in" /\ place'[t] = "pid" /\ prev'[1] = t[1]
        /\ \A u \in SharedTids : u # t => place'[u] = place[u]
    BY <1>6, <2>1 DEF Section
  <2>3. SharedTyped'
    BY <1>0, <1>6, <2>1 DEF SharedTyped, Section
  <2>4. ASSUME Undisturbed PROVE Undisturbed'
    <3>1. mutex.holder = {t} /\ \A u \in SharedTids : u # t => place[u] \notin Section
      BY <2>2, <2>4 DEF Undisturbed, Section
    <3> QED
      BY <2>1, <2>2, <3>1 DEF Undisturbed, Section
  <2> QED
    BY <1>0, <2>1, <2>3, <2>4 DEF SharedInv
<1>9. ASSUME NEW t \in SharedTids, Threads!Shared!WriteIdx(t) PROVE SharedInv'
  <2>1. /\ Threads!Shared!Move(t, "pid", "idx") /\ UNCHANGED <<mutex, disturbed>>
        /\ prev' = <<prev[1], t[2]>>
    BY <1>9 DEF Threads!Shared!WriteIdx
  <2>2. /\ place[t] = "pid" /\ place'[t] = "idx"
        /\ \A u \in SharedTids : u # t => place'[u] = place[u]
    BY <1>6, <2>1 DEF Section
  <2>3. SharedTyped'
    BY <1>0, <1>6, <2>1 DEF SharedTyped, Section
  <2>4. ASSUME Undisturbed PROVE Undisturbed'
    <3>1. mutex.holder = {t} /\ \A u \in SharedTids : u # t => place[u] \notin Section
      BY <2>2, <2>4 DEF Undisturbed, Section
    <3>2. prev[1] = t[1]
      BY <2>2, <2>4 DEF Undisturbed
    <3>3. prev' = t
      BY <2>1, <3>2, TidsArePairs
    <3> QED
      BY <2>1, <2>2, <3>1, <3>3 DEF Undisturbed, Section
  <2> QED
    BY <1>0, <2>1, <2>3, <2>4 DEF SharedInv
<1>10. ASSUME NEW t \in SharedTids, Threads!Shared!Unlock(t) PROVE SharedInv'
  <2>1. /\ place[t] = "idx" /\ UNCHANGED <<at, prev, disturbed>>
        /\ Threads!Shared!mutex_unlock(t)
        /\ \/ \E s \in Threads!Shared!Wakes(t) :
                place' = [place EXCEPT ![t] = "gone", ![s] = "again"]
           \/ place' = [place EXCEPT ![t] = "gone"]
    BY <1>10 DEF Threads!Shared!Unlock
  <2>w. \A s \in Threads!Shared!Wakes(t) : s \in SharedTids /\ place[s] \in Before
    BY <1>0 DEF Threads!Shared!Wakes, Threads!Shared!Asleep, Before
  <2>2. /\ place' \in [SharedTids -> Place] /\ place'[t] = "gone"
        /\ \A u \in SharedTids : u # t =>
             \/ place'[u] = place[u]
             \/ place[u] \in Before /\ place'[u] \in Before
    <3>1. CASE place' = [place EXCEPT ![t] = "gone"]
      BY <1>0, <3>1 DEF Place
    <3>2. ASSUME NEW s \in Threads!Shared!Wakes(t),
                 place' = [place EXCEPT ![t] = "gone", ![s] = "again"]
          PROVE  /\ place' \in [SharedTids -> Place] /\ place'[t] = "gone"
                 /\ \A u \in SharedTids : u # t =>
                      \/ place'[u] = place[u]
                      \/ place[u] \in Before /\ place'[u] \in Before
      BY <1>0, <2>1, <2>w, <3>2 DEF Place, Before
    <3> QED
      BY <2>1, <3>1, <3>2
  <2>3. \/ t \notin mutex.holder /\ mutex' = mutex
        \/ mutex' = [holder |-> {}, depth |-> 0, state |-> "usable"]
    <3>1. mutex.state = "usable" /\ ~(mutex.depth > 1)
      BY <1>0
    <3> QED
      BY <2>1, <3>1 DEF Threads!Shared!mutex_unlock, Threads!Shared!Held,
         Threads!Shared!NewMutex
  <2>4. SharedTyped'
    <3>1. \A u \in SharedTids : place[u] = "none" => place'[u] = "none"
      BY <2>1, <2>2 DEF Before
    <3>2. \A u \in SharedTids :
            at'[u[1]] \in {"open", "init", "create"} => place'[u] = "none"
      BY <2>1, <3>1 DEF SharedInv, SharedTyped
    <3> QED
      BY <1>0, <2>2, <2>1, <2>3, <3>2 DEF SharedTyped
  <2>5. ASSUME Undisturbed PROVE Undisturbed'
    <3>1. mutex.holder = {t} /\ \A u \in SharedTids : u # t => place[u] \notin Section
      BY <2>1, <2>5 DEF Undisturbed, Section
    <3>2. \A u \in SharedTids : place'[u] \notin Section
      BY <2>2, <3>1 DEF Section, Before
    <3>3. \A u \in SharedTids : place[u] \in {"idx", "gone"} => place'[u] = "gone"
      BY <2>2, <3>1 DEF Section, Before
    <3>4. \/ prev = <<Threads!Shared!Nobody, 0>>
          \/ prev \in SharedTids /\ place[prev] \in {"idx", "gone"}
      BY <2>1, <2>5, <3>1 DEF Undisturbed, Section
    <3> QED
      BY <2>1, <3>2, <3>3, <3>4 DEF Undisturbed, Section
  <2> QED
    BY <1>0, <2>1, <2>4, <2>5 DEF SharedInv
\* Going to sleep in pthread_mutex_lock.
<1>11. ASSUME NEW t \in SharedTids, Threads!Shared!Sleep(t) PROVE SharedInv'
  <2>1. PICK to \in {"private", "shared"} : Threads!Shared!Move(t, place[t], to)
    BY <1>11 DEF Threads!Shared!Sleep
  <2>2. /\ UNCHANGED <<mutex, prev, disturbed>>
        /\ place[t] \in Before /\ to \in Before
    BY <1>11 DEF Threads!Shared!Sleep, Before
  <2>3. SharedTyped'
    BY <1>0, <1>6, <2>1, <2>2 DEF SharedTyped
  <2>4. /\ place'[t] \in Before
        /\ \A u \in SharedTids : u # t => place'[u] = place[u]
    BY <1>6, <2>1, <2>2
  <2>5. ASSUME Undisturbed PROVE Undisturbed'
    <3>1. \A u \in SharedTids : \/ place'[u] = place[u]
                                \/ place[u] \in Before /\ place'[u] \in Before
      BY <2>2, <2>4
    <3> QED
      BY <2>2, <2>5, <3>1 DEF Undisturbed, Section, Before
  <2> QED
    BY <1>0, <2>2, <2>3, <2>5 DEF SharedInv
<1>12. CASE UNCHANGED <<mutex, shm, withC, at, place, contended, prev, disturbed, unwoken>>
  BY <1>0, <1>12 DEF SharedInv, SharedTyped, Undisturbed
<1> QED
  BY <1>0, <1>1, <1>2, <1>3, <1>4, <1>5, <1>7, <1>8, <1>9, <1>10, <1>11, <1>12
  DEF Threads!Shared!Next, Threads!Shared!Running, Threads!Shared!Process,
      Threads!Shared!Thread

\* What the run checks of mutex_pshared.c.
LEMMA SharedPromises ==
  ASSUME SharedInv
  PROVE  /\ Threads!Shared!PairWhole
         /\ mutex.depth \in 0 .. 2 /\ Cardinality(mutex.holder) <= 1
         /\ mutex.state \in {"usable", "ownerdead", "lost"}
<1>1. /\ mutex.depth \in {0, 1} /\ mutex.state = "usable"
      /\ mutex.holder = {} \/ \E t \in mutex.holder : mutex.holder = {t}
  BY DEF SharedInv, SharedTyped
<1>2. Cardinality(mutex.holder) <= 1
  <2>1. CASE mutex.holder = {}
    BY <2>1, FS_EmptySet
  <2>2. ASSUME NEW t, mutex.holder = {t} PROVE Cardinality(mutex.holder) <= 1
    <3>1. Cardinality({t}) = 1
      BY FS_Singleton
    <3> QED
      BY <2>2, <3>1
  <2> QED
    BY <1>1, <2>1, <2>2
<1>3. Threads!Shared!PairWhole
  <2> SUFFICES ASSUME ~disturbed, \A t \in SharedTids : place[t] # "pid"
               PROVE  \/ prev = <<Threads!Shared!Nobody, 0>>
                      \/ prev \in SharedTids /\ place[prev] \in {"idx", "gone"}
    BY DEF Threads!Shared!PairWhole, SharedTids
  <2> QED
    BY DEF SharedInv, Undisturbed
<1> QED
  BY <1>1, <1>2, <1>3
----------------------------------------------------------------------------
(* Whatever the thread program is                                          *)

\* The inductive invariant: that of the program which is checked.
ThreadsInv ==
  /\ program = "mutex" => MutexInv
  /\ program = "barrier" => Frame(BarrierPlaces)
  /\ program = "spinlock" => SpinInv
  /\ program = "sum_strnum" => StrnumInv
  /\ program = "pi" => PiInv
  /\ program = "pshared" => SharedInv

\* Every reachable state of the programs with threads satisfies ThreadsInv.
THEOREM ThreadsAreInvariant == Spec => []ThreadsInv
<1>1. Init => ThreadsInv
  <2> SUFFICES ASSUME Init PROVE ThreadsInv
    OBVIOUS
  <2>1. CASE program \in ThreadNames
    <3>1. Threads!Init
      BY <2>1 DEF Init
    <3>2. program = "mutex" => MutexInv
      BY <3>1, MutexInit DEF Threads!Init
    <3>3. program = "barrier" => Frame(BarrierPlaces)
      BY <3>1, FrameInit
      DEF Threads!Init, Threads!Barrier!Init, Threads!Barrier!ThreadsInit,
          Threads!Barrier!Idx, Threads!Idx
    <3>4. program = "spinlock" => SpinInv
      BY <3>1, SpinInit DEF Threads!Init
    <3>5. program = "sum_strnum" => StrnumInv
      BY <3>1, StrnumInit DEF Threads!Init
    <3>6. program = "pi" => PiInv
      BY <3>1, PiInit DEF Threads!Init
    <3>7. program = "pshared" => SharedInv
      BY <3>1, SharedInit DEF Threads!Init
    <3> QED
      BY <3>2, <3>3, <3>4, <3>5, <3>6, <3>7 DEF ThreadsInv
  <2> QED
    BY <2>1 DEF ThreadsInv, ThreadNames
<1>2. ThreadsInv /\ [Next]_vars => ThreadsInv'
  <2> SUFFICES ASSUME ThreadsInv, [Next]_vars, program' \in ThreadNames PROVE ThreadsInv'
    BY DEF ThreadsInv, ThreadNames
  <2>1. program' = program
    BY DEF Next, Running, PoolStep, Outside, Only, vars
  <2>2. Threads!Next \/ UNCHANGED threadVars
    BY <2>1, ThreadsOnly
  <2>3. CASE program = "mutex"
    <3>1. Threads!Mutexes!Next \/ UNCHANGED <<main, next, th, mutex>>
      BY <2>2, <2>3 DEF Threads!Next, Threads!Running, Threads!Killed, threadVars
    <3> QED
      BY <2>1, <2>3, <3>1, MutexStep DEF ThreadsInv
  <2>4. CASE program = "barrier"
    <3>1. Threads!Barrier!Next \/ UNCHANGED <<main, next, th>>
      BY <2>2, <2>4 DEF Threads!Next, Threads!Running, Threads!Killed, threadVars
    <3> QED
      BY <2>1, <2>4, <3>1, BarrierStep DEF ThreadsInv
  <2>5. CASE program = "spinlock"
    <3>1. \/ Threads!Spin!Next
          \/ UNCHANGED <<main, next, th, spinlock, flag_spin, seen>>
      BY <2>2, <2>5 DEF Threads!Next, Threads!Running, Threads!Killed, threadVars
    <3> QED
      BY <2>1, <2>5, <3>1, SpinStep DEF ThreadsInv
  <2>6. CASE program = "sum_strnum"
    <3>1. \/ Threads!Strnum!Next
          \/ UNCHANGED <<main, next, th, variant, key, heap, buf, out>>
      BY <2>2, <2>6 DEF Threads!Next, Threads!Running, Threads!Killed, threadVars
    <3> QED
      BY <2>1, <2>6, <3>1, StrnumStep DEF ThreadsInv
  <2>7. CASE program = "pi"
    <3>1. Threads!Pi!Next \/ UNCHANGED <<main, next, th, num_steps, clock, sum>>
      BY <2>2, <2>7 DEF Threads!Next, Threads!Running, Threads!Killed, threadVars
    <3> QED
      BY <2>1, <2>7, <3>1, PiStep DEF ThreadsInv
  <2>8. CASE program = "pshared"
    <3>1. \/ Threads!Shared!Next
          \/ UNCHANGED <<mutex, shm, withC, at, place, contended, prev, disturbed, unwoken>>
      BY <2>2, <2>8
      DEF Threads!Next, Threads!Running, Threads!Killed, Threads!Shared!Next, threadVars
    <3> QED
      BY <2>1, <2>8, <3>1, SharedStep DEF ThreadsInv
  <2> QED
    BY <2>1, <2>3, <2>4, <2>5, <2>6, <2>7, <2>8 DEF ThreadNames
<1> QED
  BY <1>1, <1>2, PTL DEF Spec

\* At most one thread is in the critical section of mutex_type.c, mutex_robust.c
\* and cleanup_mutex.c, in whatever order they lock, end and are cancelled.
THEOREM MutexExcludes == Spec => []MutexExclusive
<1>1. ThreadsInv => MutexExclusive
  BY MutexPromises DEF ThreadsInv, MutexExclusive, Threads!MutexExclusive
<1> QED
  BY <1>1, ThreadsAreInvariant, PTL

\* mutex_robust.c cancels no thread that main() has already joined.
THEOREM CancelsComeBeforeJoins == Spec => []CancelBeforeJoin
<1>1. ThreadsInv => CancelBeforeJoin
  BY MutexPromises DEF ThreadsInv, CancelBeforeJoin, Threads!CancelBeforeJoin
<1> QED
  BY <1>1, ThreadsAreInvariant, PTL

\* No increment of spinlock.c is lost, every string sum printed is the thread's
\* own, and the integration leaves out exactly two steps.
THEOREM ThreadsComputeRight == Spec => []ThreadResults
<1>1. ThreadsInv => ThreadResults
  BY SpinPromise, StrnumPromises, PiPromises
  DEF ThreadsInv, ThreadResults, Threads!FlagCounts, Threads!PrintsOwn,
      Threads!StepsCounted
<1> QED
  BY <1>1, ThreadsAreInvariant, PTL

\* sum_strnum_tls.c leaves no buffer behind when main() returns.
THEOREM BuffersAreFreed == Spec => []BuffersFreed
<1>1. ThreadsInv => BuffersFreed
  BY StrnumPromises DEF ThreadsInv, BuffersFreed, Threads!BuffersFreed
<1> QED
  BY <1>1, ThreadsAreInvariant, PTL

\* Every process of mutex_pshared.c sees the pid and the index of one owner.
THEOREM PairIsWhole == Spec => []PairWhole
<1>1. ThreadsInv => PairWhole
  BY SharedPromises DEF ThreadsInv, PairWhole, Threads!PairWhole
<1> QED
  BY <1>1, ThreadsAreInvariant, PTL

\* The ranges of the variables follow from ThreadsInv.
LEMMA ThreadsTyped == ThreadsInv => (program \in ThreadNames => Threads!TypeOK)
<1> DEFINE All == {"lock", "in", "relock", "twice", "cancel", "wait", "woken",
                   "serial", "locked", "read", "written", "call", "return", "exit"}
<1> SUFFICES ASSUME ThreadsInv PROVE Threads!TypeOK
  OBVIOUS
<1>1. ASSUME NEW places \in SUBSET All, Frame(places) PROVE Threads!ThreadsTypeOK(All)
  BY <1>1 DEF Frame, Threads!ThreadsTypeOK
<1>2. /\ MutexPlaces \in SUBSET All /\ BarrierPlaces \in SUBSET All
      /\ SpinPlaces \in SUBSET All /\ StrnumPlaces \in SUBSET All
  BY DEF MutexPlaces, BarrierPlaces, SpinPlaces, StrnumPlaces
<1>3. program \in {"mutex", "barrier", "spinlock", "sum_strnum"} =>
        Threads!ThreadsTypeOK(All)
  BY <1>1, <1>2 DEF ThreadsInv, MutexInv, SpinInv, StrnumInv
<1>4. program = "pi" => Threads!Pi!ThreadsTypeOK({"exit"})
  BY PiPromises DEF ThreadsInv
<1>5. program \in {"mutex", "pshared"} =>
       /\ mutex.depth \in 0 .. 2 /\ Cardinality(mutex.holder) <= 1
       /\ mutex.state \in {"usable", "ownerdead", "lost"}
  BY MutexPromises, SharedPromises DEF ThreadsInv
<1>6. program = "sum_strnum" => buf \in [Threads!Idx -> 0 .. NumThreads]
  BY StrnumPromises DEF ThreadsInv
<1>7. \A S : Threads!Cardinality(S) = Cardinality(S)
  BY DEF Threads!Cardinality, Cardinality
<1> QED
  BY <1>3, <1>4, <1>5, <1>6, <1>7 DEF Threads!TypeOK
============================================================================
