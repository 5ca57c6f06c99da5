----------------------------- MODULE RtsNotify -----------------------------
(***************************************************************************)
(* What 10.realtime/cond_var_rts.c adds to the work queue: after each job  *)
(* a thread (B) queues a real-time signal, and a thread of its own waits   *)
(* for them.  Which jobs there are is the business of WorkQueue.           *)
(***************************************************************************)
EXTENDS Naturals, Sequences, FiniteSets

CONSTANTS Workers,    \* the threads that run tfunc_b
          MaxSignals, \* RLIMIT_SIGPENDING
          MaxJobs     \* bound: the jobs a thread does

VARIABLES pcM,      \* main(): "mask", "create"
          masked,   \* main() has blocked SIGRTMIN, for the threads to come too
          born,     \* the threads (B) that exist
          waiter,   \* start_sigthread: "none", "wait", "print"
          pc,       \* each thread (B): "pop", "job", "notify"
          jobs,     \* history: the jobs each thread (B) has notified
          queued,   \* queued signals: the thread (B) of each
          from,     \* info of start_sigthread
          printed,  \* history: the notifications printed of each thread (B)
          fate      \* "alive", "returned", "exit", "full", "killed"

vars == <<pcM, masked, born, waiter, pc, jobs, queued, from, printed, fate>>

NoneYet == [w \in Workers |-> 0]

Init == /\ pcM = "mask" /\ masked = FALSE /\ born = {} /\ waiter = "none"
        /\ pc = [w \in Workers |-> "pop"] /\ jobs = NoneYet
        /\ queued = <<>> /\ from \in Workers /\ printed = NoneYet
        /\ fate = "alive"
----------------------------------------------------------------------------
(* main                                                                    *)

\* Slip: only start_sigthread blocks the signals.
Mask_Late == /\ pcM = "mask" /\ pcM' = "create"
             /\ UNCHANGED <<masked, born, waiter, pc, jobs, queued, from,
                            printed, fate>>

Mask == /\ pcM = "mask" /\ pcM' = "create" /\ masked' = TRUE
        /\ UNCHANGED <<born, waiter, pc, jobs, queued, from, printed, fate>>

\* The threads (B) are created before the one that waits for the signals.
Create == /\ pcM = "create" /\ waiter = "none"
          /\ \/ \E w \in Workers \ born : born' = born \cup {w}
                                           /\ UNCHANGED waiter
             \/ born = Workers /\ waiter' = "wait" /\ UNCHANGED born
          /\ UNCHANGED <<pcM, masked, pc, jobs, queued, from, printed, fate>>

\* pthread_create fails: main() returns.
CreateFails == /\ pcM = "create" /\ waiter = "none" /\ fate' = "returned"
               /\ UNCHANGED <<pcM, masked, born, waiter, pc, jobs, queued,
                              from, printed>>

\* Thread (A) ends the process when its FIFO is closed.
AExit == /\ pcM = "create" /\ fate' = "exit"
         /\ UNCHANGED <<pcM, masked, born, waiter, pc, jobs, queued, from,
                        printed>>

Main == Mask \/ Create \/ CreateFails \/ AExit
----------------------------------------------------------------------------
(* tfunc_b                                                                 *)

Job(w) == /\ w \in born /\ pc[w] = "pop" /\ jobs[w] < MaxJobs
          /\ pc' = [pc EXCEPT ![w] = "notify"]
          /\ UNCHANGED <<pcM, masked, born, waiter, jobs, queued, from, printed,
                         fate>>

Sent(w) == /\ pc[w] = "notify" /\ pc' = [pc EXCEPT ![w] = "pop"]
           /\ jobs' = [jobs EXCEPT ![w] = @ + 1]
           /\ UNCHANGED <<pcM, masked, born, waiter, from, printed>>

\* Slip: a signal that does not queue: one that is pending is enough.
Notify_Merged(w) ==
  /\ Sent(w) /\ UNCHANGED fate
  /\ queued' = IF queued = <<>> THEN <<w>> ELSE queued

\* sigqueue.  A thread that does not block the signal dies of it, and the
\* process with it.
Notify(w) == /\ Sent(w) /\ Len(queued) < MaxSignals
             /\ queued' = Append(queued, w)
             /\ fate' = IF masked THEN fate ELSE "killed"

\* The queue is full: exit.
NotifyFails(w) ==
  /\ pc[w] = "notify" /\ Len(queued) = MaxSignals /\ fate' = "full"
  /\ UNCHANGED <<pcM, masked, born, waiter, pc, jobs, queued, from, printed>>

ThreadB(w) == Job(w) \/ Notify(w) \/ NotifyFails(w)
----------------------------------------------------------------------------
(* start_sigthread                                                         *)

SigWait == /\ waiter = "wait" /\ queued # <<>> /\ waiter' = "print"
           /\ from' = Head(queued) /\ queued' = Tail(queued)
           /\ UNCHANGED <<pcM, masked, born, pc, jobs, printed, fate>>

SigPrint == /\ waiter = "print" /\ waiter' = "wait"
            /\ printed' = [printed EXCEPT ![from] = @ + 1]
            /\ UNCHANGED <<pcM, masked, born, pc, jobs, queued, from, fate>>
----------------------------------------------------------------------------
Running == Main \/ SigWait \/ SigPrint \/ \E w \in Workers : ThreadB(w)
Next == fate = "alive" /\ Running
Spec == Init /\ [][Next]_vars
----------------------------------------------------------------------------
Pending(w) == Cardinality({k \in 1 .. Len(queued) : queued[k] = w})
                + (IF waiter = "print" /\ from = w THEN 1 ELSE 0)

\* Every job is announced once: a notification a thread (B) has queued is
\* pending, in start_sigthread's hand or printed, also when it came before
\* start_sigthread ran, or several came while it printed.
NotifiedOnce == \A w \in Workers : jobs[w] = printed[w] + Pending(w)

\* The process does not die of its own signal: it is blocked in every thread
\* that exists when the first job is done (main, pthread_sigmask).
NotKilled == fate # "killed"
============================================================================
