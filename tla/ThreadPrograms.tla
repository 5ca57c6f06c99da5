--------------------------- MODULE ThreadPrograms ---------------------------
(***************************************************************************)
(* The thread programs of 8.pthread and 10.realtime, one of them at a time *)
(* (program), with the variables of the others at rest.                    *)
(***************************************************************************)
EXTENDS Pthreads, PthreadMutex

CONSTANTS MaxSteps, Procs, PerProcess

VARIABLES program,
          kind, cancelled,                          \* MutexPrograms
          spinlock, flag_spin, seen,                \* SpinLock
          variant, owner, key, heap, buf, out,      \* SumStrnum
          num_steps, clock, sum,                    \* PiThreads
          shm, withC, at, place, contended, prev, disturbed, unwoken  \* MutexShared

Mutexes == INSTANCE MutexPrograms
Barrier == INSTANCE BarrierProgram
Spin == INSTANCE SpinLock
Strnum == INSTANCE SumStrnum
Pi == INSTANCE PiThreads WITH NumThreads <- 3
Shared == INSTANCE MutexShared

mutexVars == <<mutex, kind, cancelled>>
spinVars == <<spinlock, flag_spin, seen>>
strnumVars == <<variant, owner, key, heap, buf, out>>
piVars == <<num_steps, clock, sum>>
sharedVars == <<shm, withC, at, place, contended, prev, disturbed, unwoken>>
vars == <<threads, mutexVars, spinVars, strnumVars, piVars, sharedVars>>

Rest == 0
ThreadsRest == main = Rest /\ next = Rest /\ th = Rest
MutexRest == mutex = Rest /\ kind = Rest /\ cancelled = Rest
SpinRest == spinlock = Rest /\ flag_spin = Rest /\ seen = Rest
StrnumRest == /\ variant = Rest /\ owner = Rest /\ key = Rest
              /\ heap = Rest /\ buf = Rest /\ out = Rest
PiRest == num_steps = Rest /\ clock = Rest /\ sum = Rest
SharedRest == /\ shm = Rest /\ withC = Rest /\ at = Rest
              /\ place = Rest /\ contended = Rest /\ prev = Rest
              /\ disturbed = Rest /\ unwoken = Rest

AtRest == /\ ThreadsRest /\ MutexRest /\ SpinRest /\ StrnumRest /\ PiRest
          /\ SharedRest

Init ==
  \/ /\ program = "mutex" /\ Mutexes!Init
     /\ SpinRest /\ StrnumRest /\ PiRest /\ SharedRest
  \/ /\ program = "barrier" /\ Barrier!Init
     /\ MutexRest /\ SpinRest /\ StrnumRest /\ PiRest /\ SharedRest
  \/ /\ program = "spinlock" /\ Spin!Init
     /\ MutexRest /\ StrnumRest /\ PiRest /\ SharedRest
  \/ /\ program = "sum_strnum" /\ Strnum!Init
     /\ MutexRest /\ SpinRest /\ PiRest /\ SharedRest
  \/ /\ program = "pi" /\ Pi!Init
     /\ MutexRest /\ SpinRest /\ StrnumRest /\ SharedRest
  \/ /\ program = "pshared" /\ Shared!Init
     /\ ThreadsRest /\ kind = Rest /\ cancelled = Rest
     /\ SpinRest /\ StrnumRest /\ PiRest

\* A step of the program that is not a failure from outside.
Running ==
  \/ /\ program = "mutex" /\ Mutexes!Next
     /\ UNCHANGED <<spinVars, strnumVars, piVars, sharedVars>>
  \/ /\ program = "barrier" /\ Barrier!Next
     /\ UNCHANGED <<mutexVars, spinVars, strnumVars, piVars, sharedVars>>
  \/ /\ program = "spinlock" /\ Spin!Next
     /\ UNCHANGED <<mutexVars, strnumVars, piVars, sharedVars>>
  \/ /\ program = "sum_strnum" /\ Strnum!Next
     /\ UNCHANGED <<mutexVars, spinVars, piVars, sharedVars>>
  \/ /\ program = "pi" /\ Pi!Next
     /\ UNCHANGED <<mutexVars, spinVars, strnumVars, sharedVars>>
  \/ /\ program = "pshared" /\ Shared!Running
     /\ UNCHANGED <<threads, kind, cancelled, spinVars, strnumVars, piVars>>

Killed == /\ program = "pshared" /\ \E p \in Procs : Shared!Dies(p)
          /\ UNCHANGED <<threads, kind, cancelled, withC, spinVars, strnumVars,
                         piVars>>

Next == Running \/ Killed
----------------------------------------------------------------------------
\* Every program keeps its variables in their ranges; the index of the thread
\* that is created or joined next stays among them.
TypeOK ==
  /\ program \in {"mutex", "barrier", "spinlock", "sum_strnum"} =>
       ThreadsTypeOK({"lock", "in", "relock", "twice", "cancel", "wait", "woken",
                      "serial", "locked", "read", "written", "call", "return",
                      "exit"})
  /\ program = "pi" => Pi!ThreadsTypeOK({"exit"})
  /\ program \in {"mutex", "pshared"} =>
       /\ mutex.depth \in 0 .. 2 /\ Cardinality(mutex.holder) <= 1
       /\ mutex.state \in {"usable", "ownerdead", "lost"}
  /\ program = "sum_strnum" => buf \in [Idx -> 0 .. NumThreads]

\* The critical sections of mutex_type.c, mutex_robust.c and cleanup_mutex.c.
MutexExclusive == program = "mutex" => Mutexes!MutexExclusive

\* No thread is cancelled that main() has joined.
CancelBeforeJoin == program = "mutex" => Mutexes!CancelBeforeJoin

\* No increment of spinlock.c is lost.
FlagCounts == program = "spinlock" => Spin!FlagCounts

\* sum_strnum_tls.c and sum_strnum_tls_gcc.c: every thread prints its own sum.
PrintsOwn == program = "sum_strnum" => Strnum!PrintsOwn

\* sum_strnum_tls.c: no buffer is left when main() returns.
BuffersFreed == program = "sum_strnum" => Strnum!BuffersFreed

\* The integration leaves two steps out, and no others.
StepsCounted == program = "pi" => Pi!StepsCounted

\* mutex_pshared.c: the last owner is seen whole by every process.
PairWhole == program = "pshared" => Shared!PairWhole

\* The programs end, or stand still where the code says they must.
Over == /\ program = "mutex" => Mutexes!RunOver
        /\ program = "barrier" => Barrier!LastOneWaits
        /\ program = "pshared" => Shared!AllOver
        /\ program \in {"spinlock", "sum_strnum", "pi"} => Left

============================================================================
