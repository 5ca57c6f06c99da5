---------------------------- MODULE BoundedFifo ----------------------------
(***************************************************************************)
(* What the work queue of cond_var.c promises its threads: a first-in      *)
(* first-out queue of at most Capacity items.  A producer offers a batch,  *)
(* which enters the queue in order and in one step up to the free space;   *)
(* what does not fit is thrown away.  A consumer removes the oldest item.  *)
(***************************************************************************)
EXTENDS Naturals, Sequences

CONSTANTS Consumers,  \* threads that take items
          Items,      \* the items
          NoItem,     \* value of a local variable no item was stored in yet
          Capacity,   \* items the queue can hold
          BatchSize   \* items of the longest batch

VARIABLES queue,      \* the items in the queue, oldest first
          out         \* the item each consumer took last

vars == <<queue, out>>

Batches == UNION {[1 .. n -> Items] : n \in 1 .. BatchSize}

Init == /\ queue = <<>>
        /\ out = [c \in Consumers |-> NoItem]

Fitting(b) == IF Len(b) <= Capacity - Len(queue)
              THEN Len(b) ELSE Capacity - Len(queue)

Put(b) == /\ queue' = queue \o SubSeq(b, 1, Fitting(b))
          /\ UNCHANGED out

Take(c) == /\ queue # <<>>
           /\ queue' = Tail(queue)
           /\ out' = [out EXCEPT ![c] = Head(queue)]

Next == \/ \E b \in Batches : Put(b)
        \/ \E c \in Consumers : Take(c)

Spec == Init /\ [][Next]_vars
============================================================================
