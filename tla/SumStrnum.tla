------------------------------ MODULE SumStrnum ------------------------------
(***************************************************************************)
(* sum_strnum_mutex.c, sum_strnum_tls.c and sum_strnum_tls_gcc.c: each     *)
(* thread calls sum_strnum, which returns a pointer into a buffer, and     *)
(* prints what it points to.  A sum is named by the thread it belongs to.  *)
(***************************************************************************)
EXTENDS Pthreads

VARIABLES variant,  \* "mutex": one static buffer; "key": one for each thread,
                    \* allocated; "gcc": one for each thread
          owner,    \* the threads that hold the mutex
          key,      \* tls_key exists
          heap,     \* the threads whose buffer is allocated
          buf,      \* the sum in each buffer
          out       \* what each thread has printed

vars == <<threads, variant, owner, key, heap, buf, out>>

NoSum == NumThreads

Init == /\ ThreadsInit /\ variant \in {"mutex", "key", "gcc"}
        /\ owner = {} /\ key = FALSE /\ heap = {}
        /\ buf = [t \in Idx |-> NoSum] /\ out = [t \in Idx |-> NoSum]

\* Slip: the buffer of sum_strnum is not __thread.
Buffer_Shared(t) == 0

\* The buffer tls_str or buf_sum is.
Buffer(t) == IF variant = "mutex" THEN 0 ELSE t
----------------------------------------------------------------------------
Create == /\ CreateThread(next) \/ CreateFails
          /\ UNCHANGED <<owner, key, heap, buf, out>>

\* With the last thread joined, main() of sum_strnum_tls.c deletes the key.
clean_thread == /\ JoinThread(next)
                /\ key' = (key /\ main' = "join")
                /\ UNCHANGED <<owner, heap, buf, out>>

\* pthread_once, pthread_getspecific and malloc, or pthread_mutex_lock.
Call(t) == /\ At(t, "start") /\ Goto(t, "call")
           /\ IF variant = "mutex"
              THEN owner = {} /\ owner' = {t} /\ UNCHANGED <<key, heap>>
              ELSE /\ key' = (variant = "key")
                   /\ heap' = IF variant = "key" THEN heap \cup {t} ELSE heap
                   /\ UNCHANGED owner
           /\ UNCHANGED <<buf, out>>

\* snprintf, unlock and return.
Return(t) == /\ At(t, "call") /\ Goto(t, "return")
             /\ buf' = [buf EXCEPT ![Buffer(t)] = t]
             /\ owner' = owner \ {t}
             /\ UNCHANGED <<key, heap, out>>

Output(t) == /\ At(t, "return") /\ Goto(t, "exit")
            /\ out' = [out EXCEPT ![t] = buf[Buffer(t)]]
            /\ UNCHANGED <<owner, key, heap, buf>>

\* Slip: the key has no destructor.
Exit_NoDestructor(t) == /\ At(t, "exit") /\ Goto(t, "gone")
                        /\ UNCHANGED <<owner, key, heap, buf, out>>

\* pthread_exit calls destroy_tls while the key exists.
Exit(t) == /\ At(t, "exit") /\ Goto(t, "gone")
           /\ heap' = IF key THEN heap \ {t} ELSE heap
           /\ UNCHANGED <<owner, key, buf, out>>

Thread(t) == Call(t) \/ Return(t) \/ Output(t) \/ Exit(t)

Next == /\ Create \/ clean_thread \/ \E t \in Idx : Thread(t)
        /\ UNCHANGED variant

Spec == Init /\ [][Next]_vars
----------------------------------------------------------------------------
\* With a buffer of its own a thread prints its own sum, whatever the others
\* do between its call and its output.  (With the static one it prints a sum,
\* but it may be another thread's: sum_strnum_mutex.c:90.)
PrintsOwn ==
  \A t \in Idx : out[t] # NoSum => variant = "mutex" \/ out[t] = t

\* Every buffer is freed: the key is deleted after the last thread has ended
\* (sum_strnum_tls.c:53).
BuffersFreed == main = "ended" => heap = {}
============================================================================
