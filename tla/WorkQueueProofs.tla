-------------------------- MODULE WorkQueueProofs --------------------------
(***************************************************************************)
(* Theorems about WorkQueue, for every number of threads (B), every ring   *)
(* size and every set of items: its invariants, and that it implements     *)
(* BoundedFifo.                                                            *)
(***************************************************************************)
EXTENDS WorkQueue, SequenceTheorems, TLAPS

\* The ring has at least two slots, since a batch holds at least one byte.
LEMMA RingSize == MaxItems \in Nat /\ MaxItems >= 2
BY SizeAssumption DEF ReadSize

\* A wrapped index is the index of a slot.
LEMMA WrapIsSlot ==
  ASSUME NEW n \in 0 .. MaxItems
  PROVE  (IF n = MaxItems THEN 0 ELSE n) \in Slots
BY RingSize DEF Slots

\* The first free slot push_item computes is the index of a slot.
LEMMA ModIsSlot ==
  ASSUME NEW n \in Nat
  PROVE  n % MaxItems \in Slots
BY RingSize DEF Slots

LEMMA SlotBounds ==
  ASSUME NEW s \in Slots
  PROVE  s + 1 \in 0 .. MaxItems /\ s \in 0 .. MaxItems
BY RingSize DEF Slots

LEMMA BatchLength ==
  ASSUME NEW b \in Batches \cup {<<>>}
  PROVE  /\ Len(b) \in 0 .. ReadSize
         /\ \A k \in Nat : k < Len(b) => b[k + 1] \in Items
<1>1. CASE b = <<>>
  BY <1>1, SizeAssumption
<1>2. CASE b \in Batches
  <2>1. PICK n \in 1 .. ReadSize : b \in [1 .. n -> Items]
    BY <1>2 DEF Batches
  <2>2. Len(b) = n
    BY <2>1, SizeAssumption
  <2> QED
    BY <2>1, <2>2, SizeAssumption
<1> QED
  BY <1>1, <1>2
----------------------------------------------------------------------------
LEMMA TypeInit == Init => TypeOK
<1> SUFFICES ASSUME Init PROVE TypeOK
  OBVIOUS
<1> QED
  BY RingSize, SizeAssumption DEF Init, TypeOK, Batches

\* Every step keeps every variable in its range.
LEMMA TypeStep == TypeOK /\ [Next]_vars => TypeOK'
<1> SUFFICES ASSUME TypeOK, [Next]_vars PROVE TypeOK'
  OBVIOUS
<1> USE DEF TypeOK, ring, locals
<1>1. CASE CreateA
  BY <1>1 DEF CreateA
<1>2. ASSUME NEW c \in Consumers, CreateB(c) PROVE TypeOK'
  BY <1>2 DEF CreateB
<1>3. CASE CreateFail
  BY <1>3 DEF CreateFail
<1>4. CASE AOpen
  BY <1>4 DEF AOpen
<1>5. ASSUME NEW b \in Batches, ARead(b) PROVE TypeOK'
  BY <1>5 DEF ARead
<1>6. CASE AExit
  BY <1>6 DEF AExit
<1>7. CASE APushLock
  <2>1. idx + cnt \in Nat
    BY RingSize
  <2>2. (idx + cnt) % MaxItems \in Slots
    BY <2>1, ModIsSlot
  <2>3. (idx + cnt) % MaxItems \in 0 .. MaxItems
    BY <2>2, SlotBounds
  <2> QED
    BY <1>7, <2>3, SizeAssumption DEF APushLock
<1>8. CASE APushItem
  <2> DEFINE slot == IF j = MaxItems THEN 0 ELSE j
  <2>1. slot \in Slots /\ slot + 1 \in 0 .. MaxItems
    BY WrapIsSlot, SlotBounds
  <2>2. buf[i + 1] \in Items /\ i + 1 \in 0 .. ReadSize
    BY <1>8, BatchLength, SizeAssumption DEF APushItem
  <2>3. item' \in [Slots -> Items \cup {NoItem}]
    BY <1>8, <2>1, <2>2 DEF APushItem
  <2>4. cnt' \in 0 .. MaxItems
    BY <1>8, RingSize DEF APushItem
  <2>5. i' \in 0 .. ReadSize /\ j' \in 0 .. MaxItems
    BY <1>8, <2>1, <2>2 DEF APushItem
  <2> QED
    BY <1>8, <2>3, <2>4, <2>5 DEF APushItem
<1>9. CASE APushUnlock
  BY <1>9 DEF APushUnlock
<1>10. CASE ANotify
  BY <1>10 DEF ANotify
<1>11. ASSUME NEW c \in Consumers, BLock(c) PROVE TypeOK'
  BY <1>11 DEF BLock
<1>12. ASSUME NEW c \in Consumers, BPop(c) PROVE TypeOK'
  <2> DEFINE slot == IF idx = MaxItems THEN 0 ELSE idx
  <2>1. slot \in Slots /\ slot + 1 \in 0 .. MaxItems
    BY WrapIsSlot, SlotBounds
  <2>2. idx' \in 0 .. MaxItems /\ cnt' \in 0 .. MaxItems
    BY <1>12, <2>1, RingSize DEF BPop
  <2>3. out' \in [Consumers -> Items \cup {NoItem}]
    BY <1>12, <2>1 DEF BPop
  <2> QED
    BY <1>12, <2>2, <2>3 DEF BPop
<1>13. ASSUME NEW c \in Consumers, BWait(c) PROVE TypeOK'
  BY <1>13 DEF BWait
<1>14. ASSUME NEW c \in Consumers, BSpurious(c) PROVE TypeOK'
  BY <1>14 DEF BSpurious
<1>15. ASSUME NEW c \in Consumers, BRelock(c) PROVE TypeOK'
  BY <1>15 DEF BRelock
<1>16. ASSUME NEW c \in Consumers, BUnlock(c) PROVE TypeOK'
  BY <1>16 DEF BUnlock
<1>17. ASSUME NEW c \in Consumers, BJob(c) PROVE TypeOK'
  BY <1>17 DEF BJob
<1>18. CASE UNCHANGED vars
  BY <1>18 DEF vars
<1> QED
  BY <1>1, <1>2, <1>3, <1>4, <1>5, <1>6, <1>7, <1>8, <1>9, <1>10, <1>11,
     <1>12, <1>13, <1>14, <1>15, <1>16, <1>17, <1>18
  DEF Next, Main, ThreadA, Push, ThreadB, Pop, Ended

\* The variables of the work queue and its threads keep their ranges: no
\* index leaves item[], whatever the interleaving of push_item and pop_item.
THEOREM TypeCorrect == Spec => []TypeOK
BY TypeInit, TypeStep, PTL DEF Spec
----------------------------------------------------------------------------
\* Who is inside a critical section of push_item or pop_item owns the mutex:
\* each lock is taken while it is free, each unlock made by its owner.
LEMMA MutexInit == Init => MutualExclusion
BY ThreadAssumption DEF Init, MutualExclusion, Inside

LEMMA MutexStep ==
  TypeOK /\ MutualExclusion /\ [Next]_vars => MutualExclusion'
<1> SUFFICES ASSUME TypeOK, MutualExclusion, [Next]_vars,
                    NEW t \in Consumers \cup {Producer}
             PROVE  (Inside(t) <=> mutex = t)'
  BY DEF MutualExclusion
<1> USE ThreadAssumption DEF TypeOK, Inside, MutualExclusion, ring, locals
<1>1. CASE CreateA
  BY <1>1 DEF CreateA
<1>2. ASSUME NEW c \in Consumers, CreateB(c)
      PROVE  (Inside(t) <=> mutex = t)'
  BY <1>2 DEF CreateB
<1>3. CASE CreateFail \/ AOpen \/ AExit \/ ANotify
  BY <1>3 DEF CreateFail, AOpen, AExit, ANotify
<1>4. ASSUME NEW b \in Batches, ARead(b)
      PROVE  (Inside(t) <=> mutex = t)'
  BY <1>4 DEF ARead
<1>5. CASE APushLock
  BY <1>5 DEF APushLock
<1>6. CASE APushItem
  BY <1>6 DEF APushItem
<1>7. CASE APushUnlock
  BY <1>7 DEF APushUnlock
<1>8. ASSUME NEW c \in Consumers, BLock(c) \/ BRelock(c)
      PROVE  (Inside(t) <=> mutex = t)'
  BY <1>8 DEF BLock, BRelock
<1>9. ASSUME NEW c \in Consumers, BPop(c)
      PROVE  (Inside(t) <=> mutex = t)'
  BY <1>9 DEF BPop
<1>10. ASSUME NEW c \in Consumers, BWait(c) \/ BUnlock(c)
       PROVE  (Inside(t) <=> mutex = t)'
  BY <1>10 DEF BWait, BUnlock
<1>11. ASSUME NEW c \in Consumers, BSpurious(c) \/ BJob(c)
       PROVE  (Inside(t) <=> mutex = t)'
  BY <1>11 DEF BSpurious, BJob
<1>12. CASE UNCHANGED vars
  BY <1>12 DEF vars
<1> QED
  BY <1>1, <1>2, <1>3, <1>4, <1>5, <1>6, <1>7, <1>8, <1>9, <1>10, <1>11,
     <1>12
  DEF Next, Main, ThreadA, Push, ThreadB, Pop, Ended

\* Thread (A) in the loop of push_item and the threads (B) in the loop of
\* pop_item, also those that come back from pthread_cond_wait, exclude each
\* other.
THEOREM MutexCorrect == Spec => []MutualExclusion
BY TypeInit, TypeStep, MutexInit, MutexStep, PTL DEF Spec
----------------------------------------------------------------------------
LEMMA WakeupInit == Init => NoLostWakeup
BY DEF Init, NoLostWakeup

\* The count leaves zero only while pcA = "push"; the one step that ends
\* "notify" empties the wait set, because it wakes all or there is one thread
\* (B); and a thread falls asleep only while the count is zero.
LEMMA WakeupStep == TypeOK /\ NoLostWakeup /\ [Next]_vars => NoLostWakeup'
<1> SUFFICES ASSUME TypeOK, NoLostWakeup, [Next]_vars PROVE NoLostWakeup'
  OBVIOUS
<1> USE DEF TypeOK, NoLostWakeup, ring, locals
<1>1. CASE CreateA \/ CreateFail \/ AOpen \/ AExit
  BY <1>1 DEF CreateA, CreateFail, AOpen, AExit
<1>2. ASSUME NEW b \in Batches, ARead(b) PROVE NoLostWakeup'
  BY <1>2 DEF ARead
<1>3. CASE APushLock \/ APushItem \/ APushUnlock
  BY <1>3 DEF APushLock, APushItem, APushUnlock
<1>4. CASE ANotify
  <2>1. waitset' = {}
    BY <1>4, NotifyAssumption DEF ANotify
  <2> QED
    BY <2>1
<1>5. ASSUME NEW c \in Consumers,
             CreateB(c) \/ BLock(c) \/ BRelock(c) \/ BUnlock(c) \/ BJob(c)
      PROVE  NoLostWakeup'
  BY <1>5 DEF CreateB, BLock, BRelock, BUnlock, BJob
<1>6. ASSUME NEW c \in Consumers, BPop(c) PROVE NoLostWakeup'
  BY <1>6, RingSize DEF BPop
<1>7. ASSUME NEW c \in Consumers, BWait(c) PROVE NoLostWakeup'
  BY <1>7 DEF BWait
<1>8. ASSUME NEW c \in Consumers, BSpurious(c) PROVE NoLostWakeup'
  BY <1>8 DEF BSpurious
<1>9. CASE UNCHANGED vars
  BY <1>9 DEF vars
<1> QED
  BY <1>1, <1>2, <1>3, <1>4, <1>5, <1>6, <1>7, <1>8, <1>9
  DEF Next, Main, ThreadA, Push, ThreadB, Pop, Ended

\* The notification after the unlock never misses a sleeper that has an item
\* to pop, with any number of threads (B) and a broadcast, or with one thread
\* (B) and a signal.
THEOREM WakeupCorrect == Spec => []NoLostWakeup
BY TypeInit, TypeStep, WakeupInit, WakeupStep, PTL DEF Spec
-----------------------------------------------------------------------------
(* WorkQueue implements BoundedFifo.                                      *)

\* The slot of the item at distance a from slot 0, for the distances that
\* occur: an index of the ring plus a number of items.
Pos(a) == a % MaxItems

\* The distances that occur.
LEMMA PosArgument ==
  ASSUME NEW n \in 0 .. MaxItems, NEW k \in 1 .. MaxItems
  PROVE  n + k - 1 \in 0 .. 2 * MaxItems
BY RingSize

\* Pos in the form of the comparisons the code makes.
LEMMA PosValue ==
  ASSUME NEW a \in 0 .. 2 * MaxItems
  PROVE  /\ a < MaxItems => Pos(a) = a
         /\ MaxItems <= a /\ a < 2 * MaxItems => Pos(a) = a - MaxItems
         /\ a = 2 * MaxItems => Pos(a) = 0
BY RingSize DEF Pos

LEMMA PosIsSlot ==
  ASSUME NEW a \in 0 .. 2 * MaxItems
  PROVE  Pos(a) \in Slots
BY RingSize, PosValue DEF Slots

\* Fewer than MaxItems apart, two items are in different slots.
LEMMA PosDistinct ==
  ASSUME NEW a \in 0 .. 2 * MaxItems, NEW b \in 0 .. 2 * MaxItems,
         a < b, b < a + MaxItems
  PROVE  Pos(a) # Pos(b)
<1>1. a < 2 * MaxItems
  BY RingSize
<1>2. CASE b < MaxItems
  BY <1>2, RingSize, PosValue
<1>3. CASE MaxItems <= b /\ b < 2 * MaxItems
  BY <1>1, <1>3, RingSize, PosValue
<1>4. CASE b = 2 * MaxItems
  BY <1>1, <1>4, RingSize, PosValue
<1> QED
  BY <1>2, <1>3, <1>4, RingSize

\* pop_item wraps its index before it moves it on; nothing else changes place.
LEMMA PosWrapped ==
  ASSUME NEW n \in 0 .. MaxItems, NEW a \in 0 .. MaxItems - 1
  PROVE  LET slot == IF n = MaxItems THEN 0 ELSE n
         IN  Pos(n) = slot /\ Pos(slot + 1 + a) = Pos(n + 1 + a)
<1>1. CASE n = MaxItems
  BY <1>1, RingSize, PosValue
<1>2. CASE n < MaxItems
  BY <1>2, RingSize, PosValue
<1> QED
  BY <1>1, <1>2, RingSize

\* push_item wraps its index before it moves it on, which agrees with the
\* division it started from.
LEMMA PosNext ==
  ASSUME NEW a \in 0 .. 2 * MaxItems - 1
  PROVE  (IF Pos(a) + 1 = MaxItems THEN 0 ELSE Pos(a) + 1) = Pos(a + 1)
<1>1. CASE a + 1 < MaxItems
  BY <1>1, RingSize, PosValue
<1>2. CASE a + 1 = MaxItems
  BY <1>2, RingSize, PosValue
<1>3. CASE MaxItems < a + 1
  BY <1>3, RingSize, PosValue
<1> QED
  BY <1>1, <1>2, <1>3, RingSize
----------------------------------------------------------------------------
\* What push_item has done so far: its index, wrapped, is the first free slot,
\* and its first i bytes are the newest i items of the ring.
FreeSlotNext == (IF j = MaxItems THEN 0 ELSE j) = Pos(idx + cnt)
Stored == \A k \in 1 .. i : item[Pos(idx + (cnt - i) + (k - 1))] = buf[k]

PushInv ==
  /\ pcA \in {"push_lock", "push"} => buf \in Batches
  /\ pcA = "push" => i <= Len(buf) /\ i <= cnt /\ FreeSlotNext /\ Stored

LEMMA PushInit == Init => PushInv
BY DEF Init, PushInv

\* A step that moves neither thread (A) nor the ring keeps it.
LEMMA PushKept ==
  ASSUME PushInv, UNCHANGED <<ring, locals>>,
         pcA' # "push" \/ UNCHANGED pcA,
         pcA' # "push_lock" \/ UNCHANGED pcA
  PROVE  PushInv'
BY DEF PushInv, FreeSlotNext, Stored, ring, locals, Pos

LEMMA PushStep ==
  TypeOK /\ MutualExclusion /\ PushInv /\ [Next]_vars => PushInv'
<1> SUFFICES ASSUME TypeOK, MutualExclusion, PushInv, [Next]_vars
             PROVE  PushInv'
  OBVIOUS
<1>1. CASE Main
  BY <1>1, PushKept DEF Main, CreateA, CreateB, CreateFail
<1>2. CASE AOpen \/ AExit \/ APushUnlock \/ ANotify
  BY <1>2, PushKept DEF AOpen, AExit, APushUnlock, ANotify
<1>3. ASSUME NEW b \in Batches, ARead(b) PROVE PushInv'
  BY <1>3 DEF ARead, PushInv
<1>4. CASE APushLock
  <2>1. j' = Pos(idx + cnt)
    BY <1>4 DEF APushLock, Pos
  <2>2. j' # MaxItems
    <3>1. idx + cnt \in 0 .. 2 * MaxItems
      BY RingSize DEF TypeOK
    <3>2. j' \in Slots
      BY <2>1, <3>1, PosIsSlot
    <3> QED
      BY <3>2, RingSize DEF Slots
  <2>3. /\ pcA' = "push" /\ i' = 0
        /\ UNCHANGED <<idx, cnt, item, buf>> /\ buf \in Batches
    BY <1>4 DEF APushLock, PushInv, ring
  <2>4. 0 <= Len(buf)
    BY <2>3, BatchLength, SizeAssumption
  <2>5. FreeSlotNext'
    BY <2>1, <2>2, <2>3 DEF FreeSlotNext, Pos
  <2>6. i' <= Len(buf') /\ i' <= cnt' /\ Stored'
    BY <2>3, <2>4 DEF TypeOK, Stored
  <2> QED
    BY <2>3, <2>5, <2>6 DEF PushInv
<1>5. CASE APushItem
  <2> DEFINE a == idx + cnt
             slot == IF j = MaxItems THEN 0 ELSE j
  <2>1. /\ pcA = "push" /\ pcA' = "push" /\ i < Len(buf) /\ cnt # MaxItems
        /\ item' = [item EXCEPT ![slot] = buf[i + 1]] /\ j' = slot + 1
        /\ i' = i + 1 /\ cnt' = cnt + 1 /\ idx' = idx /\ buf' = buf
    BY <1>5 DEF APushItem
  <2>2. /\ a \in 0 .. 2 * MaxItems - 1 /\ a + 1 = idx' + cnt'
        /\ i \in Nat /\ cnt \in Nat /\ i <= cnt /\ cnt < MaxItems
        /\ Len(buf) \in Nat
        /\ buf \in Batches
    BY <2>1, RingSize, SizeAssumption, BatchLength DEF TypeOK, PushInv
  <2>3. slot = Pos(a) /\ slot \in Slots
    BY <2>1, <2>2, PosIsSlot, RingSize DEF PushInv, FreeSlotNext
  <2>4. FreeSlotNext'
    <3>1. (IF j' = MaxItems THEN 0 ELSE j') = Pos(idx' + cnt')
      BY <2>1, <2>2, <2>3, PosNext
    <3> QED
      BY <3>1 DEF FreeSlotNext, Pos
  <2>5. ASSUME NEW k \in 1 .. i'
        PROVE  item'[Pos(idx' + (cnt' - i') + (k - 1))] = buf'[k]
    <3> DEFINE b == idx + (cnt - i) + (k - 1)
    <3>1. /\ b = idx' + (cnt' - i') + (k - 1) /\ b \in 0 .. 2 * MaxItems
          /\ k \in 1 .. i + 1
      BY <2>1, <2>2, RingSize DEF TypeOK
    <3>2. CASE k = i + 1
      BY <2>1, <2>2, <2>3, <3>1, <3>2 DEF TypeOK
    <3>3. CASE k \in 1 .. i
      <4>1. b < a /\ a < b + MaxItems
        BY <2>2, <3>3, RingSize DEF TypeOK
      <4>2. Pos(b) # slot
        BY <2>2, <2>3, <3>1, <4>1, PosDistinct, RingSize
      <4>3. item'[Pos(b)] = item[Pos(b)]
        BY <2>1, <3>1, <4>2, PosIsSlot DEF TypeOK
      <4> QED
        BY <2>1, <3>1, <3>3, <4>3 DEF PushInv, Stored
    <3> QED
      BY <2>2, <3>1, <3>2, <3>3
  <2>6. Stored'
    BY <2>5 DEF Stored, Pos
  <2> QED
    BY <2>1, <2>2, <2>4, <2>6 DEF PushInv
<1>6. ASSUME NEW c \in Consumers, BPop(c) PROVE PushInv'
  <2>1. mutex = c /\ pcA # "push"
    BY <1>6, ThreadAssumption DEF BPop, MutualExclusion, Inside
  <2> QED
    BY <1>6, <2>1 DEF BPop, PushInv, locals
<1>7. ASSUME NEW c \in Consumers,
             BLock(c) \/ BWait(c) \/ BRelock(c) \/ BUnlock(c)
               \/ BSpurious(c) \/ BJob(c)
      PROVE  PushInv'
  BY <1>7, PushKept DEF BLock, BWait, BRelock, BUnlock, BSpurious, BJob
<1>8. CASE UNCHANGED vars
  BY <1>8, PushKept DEF vars, ring, locals
<1> QED
  BY <1>1, <1>2, <1>3, <1>4, <1>5, <1>6, <1>7, <1>8
  DEF Next, ThreadA, Push, ThreadB, Pop, Ended
----------------------------------------------------------------------------
Visible == IF pcA = "push" THEN cnt - i ELSE cnt

LEMMA ContentsAre ==
  ASSUME TypeOK, PushInv
  PROVE  /\ Visible \in 0 .. MaxItems
         /\ Contents = [k \in 1 .. Visible |-> item[Pos(idx + k - 1)]]
         /\ Contents \in Seq(Items \cup {NoItem})
         /\ Len(Contents) = Visible
<1>1. Visible \in 0 .. MaxItems
  BY RingSize, SizeAssumption DEF TypeOK, PushInv, Visible
<1>2. Contents = [k \in 1 .. Visible |-> item[Pos(idx + k - 1)]]
  BY DEF Contents, Visible, Pos
<1>3. \A k \in 1 .. Visible : idx + k - 1 \in 0 .. 2 * MaxItems
  BY <1>1, RingSize DEF TypeOK
<1>4. \A k \in 1 .. Visible : item[Pos(idx + k - 1)] \in Items \cup {NoItem}
  BY <1>3, PosIsSlot DEF TypeOK
<1> QED
  BY <1>1, <1>2, <1>4

\* A step that leaves the ring alone, and thread (A) on its side of the lock,
\* leaves the queue as it is.
LEMMA ContentsKept ==
  ASSUME TypeOK, UNCHANGED ring,
         \/ UNCHANGED <<pcA, i>>
         \/ pcA # "push" /\ (pcA' # "push" \/ i' = 0)
  PROVE  Contents' = Contents
<1>1. Visible' = Visible
  BY DEF Visible, TypeOK, ring
<1>2. UNCHANGED <<item, idx>>
  BY DEF ring
<1> QED
  BY <1>1, <1>2 DEF Contents, Visible

LEMMA PushItemKeeps ==
  ASSUME TypeOK, PushInv, TypeOK', PushInv', APushItem
  PROVE  Contents' = Contents
<1> DEFINE a == idx + cnt
           slot == IF j = MaxItems THEN 0 ELSE j
<1>1. /\ pcA = "push" /\ pcA' = "push" /\ cnt # MaxItems
      /\ item' = [item EXCEPT ![slot] = buf[i + 1]]
      /\ i' = i + 1 /\ cnt' = cnt + 1 /\ idx' = idx
  BY DEF APushItem
<1>2. Visible' = Visible /\ Visible = cnt - i
  BY <1>1 DEF Visible, TypeOK
<1>3. a \in 0 .. 2 * MaxItems /\ slot = Pos(a) /\ cnt < MaxItems
  BY <1>1, RingSize DEF TypeOK, PushInv, FreeSlotNext
<1>4. ASSUME NEW k \in 1 .. Visible
      PROVE  item'[Pos(idx + k - 1)] = item[Pos(idx + k - 1)]
  <2> DEFINE b == idx + k - 1
  <2>1. b \in 0 .. 2 * MaxItems /\ b < a /\ a < b + MaxItems
    BY <1>2, <1>3, RingSize DEF TypeOK, PushInv
  <2>2. Pos(b) # slot /\ Pos(b) \in Slots
    BY <1>3, <2>1, PosDistinct, PosIsSlot
  <2> QED
    BY <1>1, <2>2 DEF TypeOK
<1>5. Contents' = [k \in 1 .. Visible |-> item'[Pos(idx + k - 1)]]
  BY <1>1, <1>2 DEF Contents, Visible, Pos
<1> QED
  BY <1>4, <1>5, ContentsAre

\* The unlock of push_item puts the bytes that fitted into the queue at once.
LEMMA UnlockPuts ==
  ASSUME TypeOK, PushInv, TypeOK', PushInv', APushUnlock
  PROVE  Fifo!Put(buf) /\ buf \in Batches
<1> DEFINE S == Items \cup {NoItem}
           part == SubSeq(buf, 1, i)
           longer == Contents \o part
<1>1. /\ pcA = "push" /\ pcA' # "push" /\ UNCHANGED <<item, idx, cnt, out>>
      /\ i = Len(buf) \/ cnt = MaxItems
  BY DEF APushUnlock, ring
<1>2. /\ Visible = cnt - i /\ Visible' = cnt
      /\ i \in Nat /\ cnt \in 0 .. MaxItems /\ i <= cnt /\ i <= Len(buf)
      /\ buf \in Batches /\ Len(buf) \in Nat
  BY <1>1, RingSize, SizeAssumption, BatchLength
  DEF Visible, TypeOK, PushInv
<1>3. Fifo!Fitting(buf) = i
  BY <1>1, <1>2, RingSize, ContentsAre DEF Fifo!Fitting
<1>4. \A k \in 1 .. i : buf[k] \in S
  <2> SUFFICES ASSUME NEW k \in 1 .. i PROVE buf[k] \in Items
    OBVIOUS
  <2>1. k - 1 \in Nat /\ k - 1 < Len(buf) /\ (k - 1) + 1 = k
    BY <1>2
  <2> QED
    BY <1>2, <2>1, BatchLength
<1>5. /\ part \in Seq(S) /\ Len(part) = i
      /\ \A k \in 1 .. i : part[k] = buf[k]
  BY <1>2, <1>4, SubSeqProperties, Z3
<1>6. /\ longer \in Seq(S) /\ Len(longer) = cnt
      /\ \A k \in 1 .. cnt :
           longer[k] = IF k <= cnt - i THEN Contents[k]
                        ELSE part[k - (cnt - i)]
  <2> HIDE DEF part
  <2>1. Contents \in Seq(S) /\ Len(Contents) = cnt - i
    BY <1>2, ContentsAre
  <2>2. /\ longer \in Seq(S) /\ Len(longer) = Len(Contents) + Len(part)
        /\ \A k \in 1 .. Len(Contents) + Len(part) :
             longer[k] = IF k <= Len(Contents) THEN Contents[k]
                         ELSE part[k - Len(Contents)]
    BY <1>5, <2>1, ConcatProperties
  <2>3. Len(Contents) + Len(part) = cnt
    BY <1>2, <1>5, <2>1
  <2> QED
    BY <2>1, <2>2, <2>3
<1>7. /\ Contents' \in Seq(S) /\ Len(Contents') = cnt
      /\ \A k \in 1 .. cnt : Contents'[k] = item[Pos(idx + k - 1)]
  <2>1. Contents' = [k \in 1 .. cnt |-> item[Pos(idx + k - 1)]]
    BY <1>1, <1>2 DEF Contents, Visible, Pos
  <2>2. \A k \in 1 .. cnt : idx + k - 1 \in 0 .. 2 * MaxItems
    BY <1>2, RingSize DEF TypeOK
  <2>3. \A k \in 1 .. cnt : item[Pos(idx + k - 1)] \in S
    BY <2>2, PosIsSlot DEF TypeOK
  <2> QED
    BY <1>2, <2>1, <2>3
<1> HIDE DEF part, longer, S
<1>8. ASSUME NEW k \in 1 .. cnt
      PROVE  Contents'[k] = longer[k]
  <2>1. CASE k <= cnt - i
    <3>1. k \in 1 .. Visible
      BY <1>2, <2>1
    <3>2. Contents[k] = item[Pos(idx + k - 1)]
      BY <3>1, ContentsAre
    <3>3. longer[k] = Contents[k]
      BY <1>6, <2>1
    <3> QED
      BY <1>7, <3>2, <3>3
  <2>2. CASE k > cnt - i
    <3> DEFINE l == k - (cnt - i)
    <3>1. l \in 1 .. i /\ idx + (cnt - i) + (l - 1) = idx + k - 1
      BY <1>2, <2>2 DEF TypeOK
    <3>2. item[Pos(idx + k - 1)] = buf[l]
      BY <1>1, <3>1 DEF PushInv, Stored
    <3>3. longer[k] = part[l]
      BY <1>2, <1>6, <2>2
    <3> HIDE DEF l
    <3>4. part[l] = buf[l]
      BY <1>5, <3>1
    <3> QED
      BY <1>7, <3>2, <3>3, <3>4
  <2> QED
    BY <1>2, <2>1, <2>2
<1>9. Contents' = longer
  BY <1>6, <1>7, <1>8, SeqEqual
<1> QED
  BY <1>1, <1>2, <1>3, <1>9 DEF Fifo!Put, longer, part

\* pop_item takes the oldest item.
LEMMA PopTakes ==
  ASSUME TypeOK, MutualExclusion, PushInv, TypeOK', PushInv',
         NEW c \in Consumers, BPop(c)
  PROVE  Fifo!Take(c)
<1> DEFINE S == Items \cup {NoItem}
           slot == IF idx = MaxItems THEN 0 ELSE idx
<1>1. /\ cnt > 0 /\ out' = [out EXCEPT ![c] = item[slot]]
      /\ idx' = slot + 1 /\ cnt' = cnt - 1 /\ UNCHANGED <<item, pcA>>
      /\ mutex = c
  BY ThreadAssumption DEF BPop, MutualExclusion, Inside
<1>2. pcA # "push" /\ Visible = cnt /\ Visible' = cnt - 1
  BY <1>1, ThreadAssumption DEF MutualExclusion, Inside, Visible
<1>3. cnt \in 1 .. MaxItems /\ idx \in 0 .. MaxItems
  BY <1>1, RingSize DEF TypeOK
<1>4. Contents \in Seq(S) /\ Len(Contents) = cnt /\ Contents # <<>>
  BY <1>2, <1>3, ContentsAre
<1>5. Head(Contents) = item[slot]
  <2>1. Contents[1] = item[Pos(idx + 1 - 1)]
    BY <1>2, <1>3, ContentsAre
  <2>2. Pos(idx) = slot /\ idx + 1 - 1 = idx
    BY <1>3, PosWrapped, RingSize
  <2> QED
    BY <1>4, <2>1, <2>2
<1>6. /\ Tail(Contents) \in Seq(S) /\ Len(Tail(Contents)) = cnt - 1
      /\ \A k \in 1 .. cnt - 1 : Tail(Contents)[k] = Contents[k + 1]
  BY <1>4, HeadTailProperties
<1>7. /\ Contents' \in Seq(S) /\ Len(Contents') = cnt - 1
      /\ \A k \in 1 .. cnt - 1 : Contents'[k] = item[Pos(idx' + k - 1)]
  <2>1. Contents' = [k \in 1 .. cnt - 1 |-> item[Pos(idx' + k - 1)]]
    BY <1>1, <1>2 DEF Contents, Visible, Pos
  <2>2. idx' \in 0 .. MaxItems
    BY DEF TypeOK
  <2>3. ASSUME NEW k \in 1 .. cnt - 1
        PROVE  idx' + k - 1 \in 0 .. 2 * MaxItems
    <3>1. k \in 1 .. MaxItems
      BY <1>3, RingSize
    <3> QED
      BY <2>2, <3>1, PosArgument
  <2>4. \A k \in 1 .. cnt - 1 : item[Pos(idx' + k - 1)] \in S
    BY <2>3, PosIsSlot DEF TypeOK
  <2> QED
    BY <1>3, <2>1, <2>4
<1>8. ASSUME NEW k \in 1 .. cnt - 1
      PROVE  Contents'[k] = Tail(Contents)[k]
  <2>1. Pos(slot + 1 + (k - 1)) = Pos(idx + 1 + (k - 1))
    BY <1>3, PosWrapped, RingSize
  <2>2. idx' + k - 1 = slot + 1 + (k - 1)
    BY <1>1, <1>3
  <2>3. idx + (k + 1) - 1 = idx + 1 + (k - 1) /\ k + 1 \in 1 .. cnt
    BY <1>3
  <2>4. Contents[k + 1] = item[Pos(idx + (k + 1) - 1)]
    BY <1>2, <2>3, ContentsAre
  <2> QED
    BY <1>6, <1>7, <2>1, <2>2, <2>3, <2>4
<1>9. Contents' = Tail(Contents)
  BY <1>3, <1>6, <1>7, <1>8, SeqEqual
<1> QED
  BY <1>1, <1>4, <1>5, <1>9 DEF Fifo!Take
----------------------------------------------------------------------------
LEMMA FifoInit == Init => Fifo!Init
<1> SUFFICES ASSUME Init PROVE Fifo!Init
  OBVIOUS
<1>1. Contents = <<>>
  BY DEF Init, Contents
<1> QED
  BY <1>1 DEF Init, Fifo!Init

\* The unlock of push_item is the Put, the pop is the Take, all other steps
\* leave the queue alone.
LEMMA FifoStep ==
  ASSUME TypeOK, MutualExclusion, PushInv, TypeOK', PushInv', [Next]_vars
  PROVE  [Fifo!Next]_(Fifo!vars)
<1> SUFFICES ASSUME ~(Contents' = Contents /\ out' = out)
             PROVE  Fifo!Next
  BY DEF Fifo!vars
<1>1. CASE Main
  BY <1>1, ContentsKept DEF Main, CreateA, CreateB, CreateFail, locals
<1>2. CASE AOpen \/ AExit \/ ANotify \/ \E b \in Batches : ARead(b)
  BY <1>2, ContentsKept DEF AOpen, AExit, ANotify, ARead, ring
<1>3. CASE APushLock
  BY <1>3, ContentsKept DEF APushLock
<1>4. CASE APushItem
  BY <1>4, PushItemKeeps DEF APushItem
<1>5. CASE APushUnlock
  <2>1. buf \in Fifo!Batches
    BY <1>5, UnlockPuts DEF Fifo!Batches, Batches
  <2> QED
    BY <1>5, <2>1, UnlockPuts DEF Fifo!Next
<1>6. ASSUME NEW c \in Consumers, BPop(c) PROVE Fifo!Next
  BY <1>6, PopTakes DEF Fifo!Next
<1>7. ASSUME NEW c \in Consumers,
             BLock(c) \/ BWait(c) \/ BRelock(c) \/ BUnlock(c)
               \/ BSpurious(c) \/ BJob(c)
      PROVE  FALSE
  BY <1>7, ContentsKept
  DEF BLock, BWait, BRelock, BUnlock, BSpurious, BJob, locals
<1>8. CASE UNCHANGED vars
  BY <1>8, ContentsKept DEF vars, ring
<1> QED
  BY <1>1, <1>2, <1>3, <1>4, <1>5, <1>6, <1>7, <1>8
  DEF Next, ThreadA, Push, ThreadB, Pop, Ended

\* The ring of push_item and pop_item, with its wrap-around, its overflow in
\* the middle of a batch and its unlocked notification, implements the bounded
\* first-in first-out queue.
THEOREM FifoCorrect == Spec => RefinesFifo
<1>1. Spec => [](TypeOK /\ MutualExclusion /\ PushInv)
  BY TypeInit, TypeStep, MutexInit, MutexStep, PushInit, PushStep, PTL
  DEF Spec
<1>2. Spec => Fifo!Init
  BY FifoInit DEF Spec
<1>3. TypeOK /\ MutualExclusion /\ PushInv /\ (TypeOK /\ PushInv)'
        /\ [Next]_vars => [Fifo!Next]_(Fifo!vars)
  BY FifoStep
<1> QED
  BY <1>1, <1>2, <1>3, PTL DEF Spec, RefinesFifo, Fifo!Spec
=============================================================================
