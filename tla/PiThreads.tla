------------------------------ MODULE PiThreads ------------------------------
(***************************************************************************)
(* pthread_pi_cputime.c and pthread_pi_cputime_sched.c: three threads sum  *)
(* the steps of an integration, each from i_start up to i_end.             *)
(***************************************************************************)
EXTENDS Pthreads

CONSTANT MaxSteps  \* the largest num_steps that is looked at

VARIABLES num_steps,
          clock,    \* the threads that have a clock to read
          sum       \* the steps in the sum of each thread

vars == <<threads, num_steps, clock, sum>>

Init == /\ ThreadsInit /\ num_steps \in 1 .. MaxSteps /\ clock \in SUBSET Idx
        /\ sum = [t \in Idx |-> {}]

\* The bounds main() computes; the division is the shift of the code.
i_end0 == num_steps \div 2
i_start1 == i_end0 + 1
i_end1 == i_start1 + num_steps \div 4

\* for (i=p_arg->i_start; i<p_arg->i_end; i++)
Range(t) == CASE t = 0 -> 0 .. i_end0 - 1
               [] t = 1 -> i_start1 .. i_end1 - 1
               [] t = 2 -> i_end1 + 1 .. num_steps - 1
----------------------------------------------------------------------------
\* The threads are created and joined in the reverse order.
Create == /\ CreateThread(NumThreads - 1 - next) \/ CreateFails
          /\ UNCHANGED sum

\* pt_id has room for two of the three identifiers, and the first that is
\* written lies behind it: the program may not survive this.
Overrun == main = "create" /\ next = 1 /\ ProcessEnds /\ UNCHANGED sum

\* Slip: main() does not wait for the last thread.
Join_TwoOnly == /\ \/ JoinThread(NumThreads - 1 - next)
                   \/ next = 2 /\ main' = "ended" /\ UNCHANGED <<next, th>>
                /\ UNCHANGED sum

Join == /\ JoinThread(NumThreads - 1 - next)
        /\ UNCHANGED sum

\* The loop, whose result goes to p_arg->sum.  A thread without a clock to
\* read returns before it.
Sum(t) == /\ At(t, "start") /\ Goto(t, "gone")
          /\ sum' = [sum EXCEPT ![t] = IF t \in clock THEN Range(t) ELSE {}]

Next == /\ Create \/ Overrun \/ Join \/ \E t \in Idx : Sum(t)
        /\ UNCHANGED <<num_steps, clock>>

Spec == Init /\ [][Next]_vars
----------------------------------------------------------------------------
\* What main() adds up is every step but two, each once: the two are those at the
\* ends of the first two ranges, which the next ranges do not start with
\* (pthread_pi_cputime_sched.c:96-98).  It adds when the threads have ended.
StepsCounted ==
  main = "ended" /\ clock = Idx =>
    /\ UNION {sum[t] : t \in Idx} = (0 .. num_steps - 1) \ {i_end0, i_end1}
    /\ \A t, u \in Idx : t # u => sum[t] \cap sum[u] = {}
============================================================================
