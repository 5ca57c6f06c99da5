---------------------------- MODULE PthreadMutex ----------------------------
(***************************************************************************)
(* A mutex as the programs of 8.pthread use it: its type and whether it is *)
(* robust decide what a second lock and the death of the owner do.         *)
(***************************************************************************)
EXTENDS Naturals

VARIABLE mutex  \* who holds it, how often, and what became of its owner

NewMutex == [holder |-> {}, depth |-> 0, state |-> "usable"]

Held(t) == t \in mutex.holder
Taken(t) == [mutex EXCEPT !.holder = {t}, !.depth = 1]

\* pthread_mutex_lock returns to thread t with result r, if it returns.
mutex_lock(t, type, r) ==
  \/ /\ r = "ok" /\ mutex.holder = {} /\ mutex.state = "usable"
     /\ mutex' = Taken(t)
  \/ /\ r = "EOWNERDEAD" /\ mutex.holder = {} /\ mutex.state = "ownerdead"
     /\ mutex' = Taken(t)
  \/ /\ r = "ENOTRECOVERABLE" /\ mutex.state = "lost"
     /\ UNCHANGED mutex
  \/ /\ r = "ok" /\ type = "recursive" /\ Held(t)
     /\ mutex' = [mutex EXCEPT !.depth = @ + 1]
  \/ /\ r = "EDEADLK" /\ type = "errorcheck" /\ Held(t)
     /\ UNCHANGED mutex

\* Whoever does not hold it gets an error.  A mutex whose owner died, and that
\* nobody made consistent, is lost with the unlock.
mutex_unlock(t) ==
  mutex' = IF ~Held(t) THEN mutex
           ELSE IF mutex.depth > 1 THEN [mutex EXCEPT !.depth = @ - 1]
           ELSE [NewMutex EXCEPT !.state =
                   IF mutex.state = "usable" THEN "usable" ELSE "lost"]

\* The owner of a robust mutex ends.
owner_dies(t) ==
  mutex' = IF Held(t) THEN [NewMutex EXCEPT !.state = "ownerdead"] ELSE mutex
============================================================================
