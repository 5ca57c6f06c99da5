----------------------------- MODULE WorkQueue -----------------------------
(***************************************************************************)
(* The work queue of 8.pthread/cond_var.c (its copy cond_var_fd.c, and     *)
(* 10.realtime/cond_var_rts.c but for its signal thread): thread (A) reads *)
(* batches from a FIFO and pushes them into a ring of MaxItems slots;      *)
(* threads (B) pop one item at a time and sleep on a condition variable    *)
(* while the ring is empty.                                                *)
(*                                                                         *)
(* A step is what a thread does between two points where another thread    *)
(* can see a difference: taking the mutex, one turn of a loop, giving the  *)
(* mutex up, waking the sleepers.                                          *)
(***************************************************************************)
EXTENDS Naturals, Sequences

CONSTANTS Producer,   \* the thread that runs tfunc_a
          Consumers,  \* the threads that run tfunc_b
          Free,       \* the owner of a mutex nobody holds
          Items,      \* the values of a byte of the FIFO
          NoItem,     \* content of a slot or of a local variable never written
          MaxItems,   \* MAX_ITEMS
          Broadcast   \* MULTI_THREAD: push wakes all sleepers, not one

ReadSize == MaxItems \div 2     \* sizeof(buf): the longest batch of one read

ASSUME SizeAssumption == MaxItems \in Nat /\ ReadSize \in Nat \ {0}
ASSUME ThreadAssumption == /\ Producer \notin Consumers
                           /\ Free \notin Consumers \cup {Producer}
                           /\ Consumers # {}
\* t_arg[] has one thread (B) unless MULTI_THREAD is defined.
ASSUME NotifyAssumption == Broadcast \in BOOLEAN /\
                           (Broadcast \/ \E c \in Consumers : Consumers = {c})

Slots == 0 .. MaxItems - 1
Batches == UNION {[1 .. n -> Items] : n \in 1 .. ReadSize}

VARIABLES item,     \* wq->item
          idx,      \* wq->idx
          cnt,      \* wq->cnt
          mutex,    \* the thread that holds wq->mutex, or Free
          waitset,  \* the threads asleep on wq->cv
          pcA, buf, i, j,   \* thread (A): what it does next, and its locals
          pcB, out,         \* each thread (B): what it does next, and its item
          alive     \* nobody called exit() and main() has not returned

ring == <<item, idx, cnt>>
locals == <<buf, i, j>>
vars == <<item, idx, cnt, mutex, waitset, pcA, buf, i, j, pcB, out, alive>>
----------------------------------------------------------------------------
Init == /\ item = [s \in Slots |-> NoItem]
        /\ idx = 0 /\ cnt = 0
        /\ mutex = Free /\ waitset = {}
        /\ pcA = "unborn" /\ buf = <<>> /\ i = 0 /\ j = 0
        /\ pcB = [c \in Consumers |-> "unborn"]
        /\ out = [c \in Consumers |-> NoItem]
        /\ alive = TRUE

\* main() starts the threads of t_arg[] in order, thread (A) first ...
CreateA == /\ alive /\ pcA = "unborn"
           /\ pcA' = "open"
           /\ UNCHANGED <<ring, mutex, waitset, locals, pcB, out, alive>>

CreateB(c) == /\ alive /\ pcA # "unborn" /\ pcB[c] = "unborn"
              /\ pcB' = [pcB EXCEPT ![c] = "lock"]
              /\ UNCHANGED <<ring, mutex, waitset, pcA, locals, out, alive>>

\* ... and returns, which ends the process, when one cannot be created.
CreateFail == /\ alive
              /\ pcA = "unborn" \/ \E c \in Consumers : pcB[c] = "unborn"
              /\ alive' = FALSE
              /\ UNCHANGED <<ring, mutex, waitset, pcA, locals, pcB, out>>
----------------------------------------------------------------------------
(* Thread (A): tfunc_a and push_item.                                      *)

AOpen == /\ alive /\ pcA = "open"
         /\ pcA' = "read"
         /\ UNCHANGED <<ring, mutex, waitset, locals, pcB, out, alive>>

ARead(b) == /\ alive /\ pcA = "read"
            /\ buf' = b
            /\ pcA' = "push_lock"
            /\ UNCHANGED <<ring, mutex, waitset, i, j, pcB, out, alive>>

\* mkfifo, open or read fails, or the writer closed the FIFO.
AExit == /\ alive /\ pcA \in {"open", "read"}
         /\ alive' = FALSE
         /\ UNCHANGED <<ring, mutex, waitset, pcA, locals, pcB, out>>

\* Slip: the batch is stored from the oldest item on, not after the newest.
APushLock_AtHead == /\ alive /\ pcA = "push_lock" /\ mutex = Free
                    /\ mutex' = Producer
                    /\ i' = 0
                    /\ j' = idx % MaxItems
                    /\ pcA' = "push"
                    /\ UNCHANGED <<ring, waitset, buf, pcB, out, alive>>

APushLock == /\ alive /\ pcA = "push_lock" /\ mutex = Free
             /\ mutex' = Producer
             /\ i' = 0
             /\ j' = (idx + cnt) % MaxItems
             /\ pcA' = "push"
             /\ UNCHANGED <<ring, waitset, buf, pcB, out, alive>>

APushItem == /\ alive /\ pcA = "push"
             /\ i < Len(buf) /\ cnt # MaxItems
             /\ LET slot == IF j = MaxItems THEN 0 ELSE j
                IN  /\ item' = [item EXCEPT ![slot] = buf[i + 1]]
                    /\ j' = slot + 1
             /\ i' = i + 1
             /\ cnt' = cnt + 1
             /\ UNCHANGED <<idx, mutex, waitset, pcA, buf, pcB, out, alive>>

\* The batch is in, or the ring is full and the rest is thrown away.
APushUnlock == /\ alive /\ pcA = "push"
               /\ i = Len(buf) \/ cnt = MaxItems
               /\ mutex' = Free
               /\ pcA' = "notify"
               /\ UNCHANGED <<ring, waitset, locals, pcB, out, alive>>

\* Slip: nobody is told.
ANotify_Silent == /\ alive /\ pcA = "notify"
                  /\ pcA' = "read"
                  /\ UNCHANGED <<ring, mutex, waitset, locals,
                                 pcB, out, alive>>

\* Slip: one of several sleepers is told.
ANotify_One == /\ alive /\ pcA = "notify"
               /\ \/ waitset = {} /\ UNCHANGED waitset
                  \/ \E c \in waitset : waitset' = waitset \ {c}
               /\ pcA' = "read"
               /\ UNCHANGED <<ring, mutex, locals, pcB, out, alive>>

\* pthread_cond_broadcast or pthread_cond_signal, after the mutex is free.
ANotify == /\ alive /\ pcA = "notify"
           /\ IF Broadcast \/ waitset = {}
              THEN waitset' = {}
              ELSE \E c \in waitset : waitset' = waitset \ {c}
           /\ pcA' = "read"
           /\ UNCHANGED <<ring, mutex, locals, pcB, out, alive>>
----------------------------------------------------------------------------
(* A thread (B): tfunc_b and pop_item.                                     *)

BLock(c) == /\ alive /\ pcB[c] = "lock" /\ mutex = Free
            /\ mutex' = c
            /\ pcB' = [pcB EXCEPT ![c] = "check"]
            /\ UNCHANGED <<ring, waitset, pcA, locals, out, alive>>

\* Slip: "if" for "while", the count is not looked at again.
BPop_Unchecked(c) == /\ alive /\ pcB[c] = "check"
                     /\ LET slot == IF idx = MaxItems THEN 0 ELSE idx
                        IN  /\ out' = [out EXCEPT ![c] = item[slot]]
                            /\ idx' = slot + 1
                     /\ cnt' = cnt - 1
                     /\ pcB' = [pcB EXCEPT ![c] = "unlock"]
                     /\ UNCHANGED <<item, mutex, waitset, pcA, locals, alive>>

BPop(c) == /\ alive /\ pcB[c] = "check"
           /\ cnt > 0
           /\ LET slot == IF idx = MaxItems THEN 0 ELSE idx
              IN  /\ out' = [out EXCEPT ![c] = item[slot]]
                  /\ idx' = slot + 1
           /\ cnt' = cnt - 1
           /\ pcB' = [pcB EXCEPT ![c] = "unlock"]
           /\ UNCHANGED <<item, mutex, waitset, pcA, locals, alive>>

\* pthread_cond_wait gives up the mutex and falls asleep in one step.
BWait(c) == /\ alive /\ pcB[c] = "check"
            /\ cnt = 0
            /\ mutex' = Free
            /\ waitset' = waitset \cup {c}
            /\ pcB' = [pcB EXCEPT ![c] = "wait"]
            /\ UNCHANGED <<ring, pcA, locals, out, alive>>

\* A sleeper may wake up although nobody notified it.
BSpurious(c) == /\ alive /\ c \in waitset
                /\ waitset' = waitset \ {c}
                /\ UNCHANGED <<ring, mutex, pcA, locals, pcB, out, alive>>

\* Slip: the sleeper goes on without the mutex.
BRelock_Unlocked(c) == /\ alive /\ pcB[c] = "wait" /\ c \notin waitset
                       /\ pcB' = [pcB EXCEPT ![c] = "check"]
                       /\ UNCHANGED <<ring, mutex, waitset, pcA, locals, out,
                                      alive>>

\* Awake again, pthread_cond_wait takes the mutex before it returns.
BRelock(c) == /\ alive /\ pcB[c] = "wait" /\ c \notin waitset /\ mutex = Free
              /\ mutex' = c
              /\ pcB' = [pcB EXCEPT ![c] = "check"]
              /\ UNCHANGED <<ring, waitset, pcA, locals, out, alive>>

BUnlock(c) == /\ alive /\ pcB[c] = "unlock"
              /\ mutex' = Free
              /\ pcB' = [pcB EXCEPT ![c] = "job"]
              /\ UNCHANGED <<ring, waitset, pcA, locals, out, alive>>

\* process_job sleeps for a while and returns.
BJob(c) == /\ alive /\ pcB[c] = "job"
           /\ pcB' = [pcB EXCEPT ![c] = "lock"]
           /\ UNCHANGED <<ring, mutex, waitset, pcA, locals, out, alive>>
----------------------------------------------------------------------------
Ended == ~alive /\ UNCHANGED vars

Main == CreateA \/ (\E c \in Consumers : CreateB(c)) \/ CreateFail
Push == APushLock \/ APushItem \/ APushUnlock \/ ANotify
ThreadA == AOpen \/ (\E b \in Batches : ARead(b)) \/ AExit \/ Push
Pop(c) == BLock(c) \/ BPop(c) \/ BWait(c) \/ BRelock(c) \/ BUnlock(c)
ThreadB(c) == Pop(c) \/ BSpurious(c) \/ BJob(c)

Next == Main \/ ThreadA \/ (\E c \in Consumers : ThreadB(c)) \/ Ended

Spec == Init /\ [][Next]_vars

\* The scheduler runs every thread that can run, and a free mutex that a
\* thread waits for without a rival is taken.  Nothing is promised about
\* input, spurious wake-ups or failures.
Fairness == /\ WF_vars(CreateA \/ \E c \in Consumers : CreateB(c))
            /\ WF_vars(AOpen) /\ WF_vars(Push)
            /\ \A c \in Consumers : WF_vars(Pop(c)) /\ WF_vars(BJob(c))

FairSpec == Spec /\ Fairness
----------------------------------------------------------------------------
\* Every variable stays in the range its C type and the ring's size give it;
\* an index is written past the last slot by one at most, and only used
\* after it was wrapped (item[j], item[idx] of push_item and pop_item).
TypeOK ==
  /\ item \in [Slots -> Items \cup {NoItem}]
  /\ idx \in 0 .. MaxItems /\ cnt \in 0 .. MaxItems
  /\ mutex \in Consumers \cup {Producer, Free}
  /\ waitset \subseteq Consumers
  /\ pcA \in {"unborn", "open", "read", "push_lock", "push", "notify"}
  /\ buf \in Batches \cup {<<>>}
  /\ i \in 0 .. ReadSize /\ j \in 0 .. MaxItems
  /\ pcB \in [Consumers ->
                {"unborn", "lock", "check", "wait", "unlock", "job"}]
  /\ out \in [Consumers -> Items \cup {NoItem}]
  /\ alive \in BOOLEAN

Inside(t) == IF t = Producer THEN pcA = "push"
             ELSE pcB[t] \in {"check", "unlock"}

\* The ring is touched by the owner of the mutex alone, also after a return
\* from pthread_cond_wait: push_item and the loop body of pop_item exclude
\* each other.
MutualExclusion ==
  \A t \in Consumers \cup {Producer} : Inside(t) <=> mutex = t

\* Once thread (A) has announced what it pushed, no thread (B) sleeps on the
\* condition variable while there is an item to pop, although the notification
\* comes after the unlock (tfunc_a) and may find no sleeper.
NoLostWakeup ==
  cnt > 0 /\ pcA \notin {"push", "notify"} => waitset = {}

\* The items in the ring, oldest first: item[idx], item[idx + 1], ... wrapped.
\* What thread (A) is still pushing is not in the queue until it unlocks.
Contents ==
  LET visible == IF pcA = "push" THEN cnt - i ELSE cnt
  IN  [k \in 1 .. visible |-> item[(idx + k - 1) % MaxItems]]

\* The ring, its wrap-around and its overflow rule behave as a bounded
\* first-in first-out queue with an atomic Put and Take (push_item, pop_item).
Fifo == INSTANCE BoundedFifo WITH queue <- Contents,
                                  Capacity <- MaxItems, BatchSize <- ReadSize
RefinesFifo == Fifo!Spec

\* If thread (A) waits in read() for ever, the threads (B) empty the queue and
\* it stays empty: no item is stranded behind a notification that came too
\* early or woke too few (tfunc_a, pop_item).
Drain == <>[](alive /\ pcA = "read") => <>[](cnt = 0)

============================================================================
