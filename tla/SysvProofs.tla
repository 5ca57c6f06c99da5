----------------------------- MODULE SysvProofs -----------------------------
(***************************************************************************)
(* Theorems about the programs on System V semaphores, for every number of *)
(* children, permits, runs and processes that ProgramsAssumption allows.   *)
(* Each program has an inductive invariant of its own; while one program   *)
(* is looked at the others rest, so that its steps are the only ones.      *)
(***************************************************************************)
EXTENDS SysvPrograms, SequencesExt, FiniteSetTheorems, SequenceTheorems,
        WellFoundedInduction, TLAPS

(* Operators on sequences.                                                 *)

\* Min of a set of positive numbers that is not empty is one of them.
LEMMA MinIsIn ==
  ASSUME NEW S \in SUBSET Nat, S # {}
  PROVE  Min(S) \in S
<1> DEFINE R == OpToRel(<, Nat)
<1>1. IsWellFoundedOn(R, Nat)
  BY NatLessThanWellFounded
<1>2. \A x, y \in Nat : x < y => <<x, y>> \in R
  BY DEF OpToRel
<1> HIDE DEF R
<1>3. PICK x \in S : \A y \in S : ~ (<<y, x>> \in R)
  BY <1>1, WFMin
<1>4. \A y \in S : ~(y < x) /\ x \in Nat /\ y \in Nat
  BY <1>2, <1>3
<1>5. \E z \in S : \A y \in S : z <= y
  BY <1>4
<1> QED
  BY <1>5 DEF Min

\* No process is in s more than once.
Once(s) == \A j, k \in DOMAIN s : s[j] = s[k] => j = k

\* The part of s behind its first n elements.
LEMMA BehindFacts ==
  ASSUME NEW T, NEW s \in Seq(T), NEW n \in 0 .. Len(s)
  PROVE  LET b == SubSeq(s, n + 1, Len(s))
         IN  /\ b \in Seq(T) /\ Len(b) = Len(s) - n
             /\ \A k \in 1 .. Len(s) - n : b[k] = s[n + k]
             /\ n = 0 => b = s
             /\ n = Len(s) => b = <<>>
             /\ ToSet(s) = {s[k] : k \in 1 .. n} \cup ToSet(b)
             /\ Once(s) => Once(b) /\ {s[k] : k \in 1 .. n} \cap ToSet(b) = {}
<1> DEFINE b == SubSeq(s, n + 1, Len(s))
<1>1. /\ Len(s) \in Nat /\ DOMAIN s = 1 .. Len(s)
      /\ \A k \in 1 .. Len(s) : s[k] \in T
  BY LenProperties, ElementOfSeq
<1>0. Len(s) \in Nat /\ n \in Int /\ 0 <= n /\ n <= Len(s)
  BY <1>1
<1>2. /\ b \in Seq(T) /\ Len(b) = Len(s) - n
      /\ \A k \in 1 .. Len(s) - n : b[k] = s[n + k]
  <2>1. n + 1 \in Int /\ Len(s) \in Int /\ \A k \in n + 1 .. Len(s) : s[k] \in T
    BY <1>1
  <2>2. /\ b \in Seq(T)
        /\ Len(b) = IF n + 1 <= Len(s) THEN Len(s) - (n + 1) + 1 ELSE 0
        /\ \A k \in 1 .. Len(s) - (n + 1) + 1 : b[k] = s[(n + 1) + k - 1]
    BY <2>1, SubSeqProperties
  <2> HIDE DEF b
  <2>3. /\ (IF n + 1 <= Len(s) THEN Len(s) - (n + 1) + 1 ELSE 0) = Len(s) - n
        /\ Len(s) - (n + 1) + 1 = Len(s) - n
        /\ \A k \in Int : (n + 1) + k - 1 = n + k
    BY <1>0
  <2>4. ASSUME NEW k \in 1 .. Len(s) - n PROVE b[k] = s[n + k]
    <3>1. k \in 1 .. Len(s) - (n + 1) + 1 /\ (n + 1) + k - 1 = n + k
      <4>1. k \in Int /\ 1 <= k /\ k <= Len(s) - n
        BY <1>0
      <4>2. k <= Len(s) - (n + 1) + 1
        BY <4>1, <1>0
      <4> QED
        BY <4>1, <4>2, <1>0
    <3>2. b[k] = s[(n + 1) + k - 1]
      BY <3>1, <2>2
    <3> QED
      BY <3>1, <3>2
  <2> QED
    BY <2>2, <2>3, <2>4
<1>3. n = 0 => b = s
  BY SubSeqFull
<1>4. n = Len(s) => b = <<>>
  <2>1. n + 1 \in Int /\ Len(s) \in Int /\ (n = Len(s) => Len(s) < n + 1)
    BY <1>0
  <2> QED
    BY <2>1, SubSeqEmpty
<1> HIDE DEF b
<1>5. DOMAIN b = 1 .. Len(s) - n
  BY <1>2, LenProperties
<1>6. ToSet(s) = {s[k] : k \in 1 .. n} \cup ToSet(b)
  <2>1. ASSUME NEW k \in 1 .. Len(s), ~(k \in 1 .. n) PROVE s[k] \in ToSet(b)
    <3>1. k - n \in 1 .. Len(s) - n /\ n + (k - n) = k
      BY <2>1, <1>1
    <3> QED
      BY <3>1, <1>2, <1>5 DEF ToSet
  <2>2. ASSUME NEW k \in 1 .. Len(s) - n PROVE b[k] \in ToSet(s)
    <3>1. n + k \in 1 .. Len(s)
      BY <2>2, <1>1
    <3> QED
      BY <3>1, <1>1, <1>2 DEF ToSet
  <2>3. 1 .. n \subseteq 1 .. Len(s)
    BY <1>1
  <2> QED
    BY <2>1, <2>2, <2>3, <1>1, <1>5 DEF ToSet
<1>7. ASSUME Once(s) PROVE Once(b) /\ {s[k] : k \in 1 .. n} \cap ToSet(b) = {}
  <2>1. \A k \in 1 .. Len(s) - n : n + k \in 1 .. Len(s) /\ ~(n + k \in 1 .. n)
    BY <1>1
  <2>2. \A j, k \in 1 .. Len(s) - n : n + j = n + k => j = k
    BY <1>1
  <2>3. 1 .. n \subseteq 1 .. Len(s)
    BY <1>1
  <2>4. Once(b)
    BY <2>1, <2>2, <1>1, <1>2, <1>5, <1>7 DEF Once
  <2>5. \A k \in 1 .. n, j \in 1 .. Len(s) - n : s[k] # b[j]
    BY <2>1, <2>3, <1>1, <1>2, <1>7 DEF Once
  <2> QED
    BY <2>4, <2>5, <1>5 DEF ToSet
<1> QED
  BY <1>2, <1>3, <1>4, <1>6, <1>7 DEF b

\* RemoveFirst leaves out one occurrence of e and nothing else.
LEMMA RemoveFacts ==
  ASSUME NEW T, NEW s \in Seq(T), NEW e
  PROVE  /\ RemoveFirst(s, e) \in Seq(T)
         /\ ToSet(RemoveFirst(s, e)) \subseteq ToSet(s)
         /\ ToSet(s) \ {e} \subseteq ToSet(RemoveFirst(s, e))
         /\ e \notin ToSet(s) => RemoveFirst(s, e) = s
         /\ Once(s) => Once(RemoveFirst(s, e)) /\ e \notin ToSet(RemoveFirst(s, e))
<1>1. Len(s) \in Nat /\ DOMAIN s = 1 .. Len(s)
  BY LenProperties
<1>2. CASE e \notin ToSet(s)
  <2>1. RemoveFirst(s, e) = s
    BY <1>1, <1>2 DEF RemoveFirst, ToSet
  <2> QED
    BY <1>2, <2>1
<1>3. CASE e \in ToSet(s)
  <2> DEFINE I == {k \in 1 .. Len(s) : s[k] = e}
             m == Min(I)
             before == SubSeq(s, 1, m - 1)
             behind == SubSeq(s, m + 1, Len(s))
  <2>1. I # {} /\ I \in SUBSET Nat
    BY <1>1, <1>3 DEF ToSet
  <2>2. m \in 1 .. Len(s) /\ s[m] = e
    <3> HIDE DEF I
    <3>1. m \in I
      BY <2>1, MinIsIn
    <3> QED
      BY <3>1 DEF I
  <2>3. RemoveFirst(s, e) = before \o behind
    <3>1. SelectInSeq(s, LAMBDA v : v = e) = m
      BY <2>1 DEF SelectInSeq
    <3> QED
      BY <1>1, <1>3, <3>1 DEF RemoveFirst, RemoveAt, ToSet
  <2> HIDE DEF I, m
  <2>4. \A k \in 1 .. Len(s) : s[k] \in T
    BY ElementOfSeq
  <2>5. /\ before \in Seq(T) /\ Len(before) = m - 1
        /\ \A k \in 1 .. m - 1 : before[k] = s[k]
    <3>1. 1 \in Int /\ m - 1 \in Int /\ \A k \in 1 .. m - 1 : s[k] \in T
      BY <1>1, <2>2, <2>4
    <3>2. /\ before \in Seq(T)
          /\ Len(before) = IF 1 <= m - 1 THEN (m - 1) - 1 + 1 ELSE 0
          /\ \A k \in 1 .. (m - 1) - 1 + 1 : before[k] = s[1 + k - 1]
      BY <3>1, SubSeqProperties
    <3> HIDE DEF before
    <3> QED
      BY <3>2, <2>2, <1>1
  <2>6. /\ behind \in Seq(T) /\ Len(behind) = Len(s) - m
        /\ \A k \in 1 .. Len(s) - m : behind[k] = s[m + k]
    <3>1. m \in 0 .. Len(s)
      BY <1>1, <2>2
    <3> QED
      BY <3>1, BehindFacts
  <2> HIDE DEF before, behind
  <2> DEFINE r == before \o behind
             at(k) == IF k < m THEN k ELSE k + 1
  <2>7. /\ r \in Seq(T) /\ Len(r) = Len(s) - 1
    <3>1. r \in Seq(T) /\ Len(r) = Len(before) + Len(behind)
      BY <2>5, <2>6, ConcatProperties
    <3> HIDE DEF r
    <3> QED
      BY <3>1, <2>5, <2>6, <2>2, <1>1
  <2>8. \A k \in 1 .. Len(s) - 1 : r[k] = s[at(k)]
    <3>1. \A k \in 1 .. Len(before) + Len(behind) :
            r[k] = IF k <= Len(before) THEN before[k] ELSE behind[k - Len(before)]
      BY <2>5, <2>6, ConcatProperties
    <3> HIDE DEF r
    <3>2. ASSUME NEW k \in 1 .. Len(s) - 1 PROVE r[k] = s[at(k)]
      <4>1. CASE k < m
        <5>1. k <= Len(before) /\ k \in 1 .. m - 1 /\ k \in 1 .. Len(before) + Len(behind)
          BY <4>1, <2>2, <1>1, <2>5, <2>6
        <5> QED
          BY <4>1, <5>1, <3>1, <2>5
      <4>2. CASE ~(k < m)
        <5>1. /\ ~(k <= Len(before)) /\ k \in 1 .. Len(before) + Len(behind)
              /\ k - Len(before) \in 1 .. Len(s) - m /\ m + (k - Len(before)) = k + 1
          BY <4>2, <2>2, <1>1, <2>5, <2>6
        <5>2. r[k] = behind[k - Len(before)]
          BY <5>1, <3>1
        <5>3. behind[k - Len(before)] = s[m + (k - Len(before))]
          BY <5>1, <2>6
        <5> QED
          BY <5>1, <5>2, <5>3, <4>2
      <4> QED
        BY <4>1, <4>2
    <3> QED
      BY <3>2
  <2> HIDE DEF r
  <2>9. DOMAIN r = 1 .. Len(s) - 1
    BY <2>7, LenProperties
  <2>10. ToSet(r) \subseteq ToSet(s)
    <3>1. \A k \in 1 .. Len(s) - 1 : at(k) \in 1 .. Len(s)
      BY <1>1, <2>2
    <3> QED
      BY <3>1, <2>8, <2>9, <1>1 DEF ToSet
  <2>11. ASSUME NEW p \in ToSet(s) \ {e} PROVE p \in ToSet(r)
    <3>1. PICK k \in 1 .. Len(s) : s[k] = p
      BY <1>1, <2>11 DEF ToSet
    <3>2. k # m
      BY <3>1, <2>2
    <3>3. CASE k < m
      <4>1. k \in 1 .. Len(s) - 1 /\ at(k) = k
        BY <3>3, <2>2, <1>1
      <4> QED
        BY <4>1, <3>1, <2>8, <2>9 DEF ToSet
    <3>4. CASE k > m
      <4>1. k - 1 \in 1 .. Len(s) - 1 /\ at(k - 1) = k
        BY <3>4, <2>2, <1>1
      <4> QED
        BY <4>1, <3>1, <2>8, <2>9 DEF ToSet
    <3> QED
      BY <3>2, <3>3, <3>4, <2>2, <1>1
  <2>12. ASSUME Once(s) PROVE Once(r) /\ e \notin ToSet(r)
    <3>1. \A k \in 1 .. Len(s) - 1 : at(k) \in 1 .. Len(s) /\ at(k) # m
      BY <1>1, <2>2
    <3>2. \A j, k \in 1 .. Len(s) - 1 : at(j) = at(k) => j = k
      BY <1>1, <2>2
    <3> HIDE DEF at
    <3>3. Once(r)
      BY <3>1, <3>2, <2>8, <2>9, <2>12, <1>1 DEF Once
    <3>4. e \notin ToSet(r)
      BY <3>1, <2>2, <2>8, <2>9, <2>12, <1>1 DEF Once, ToSet
    <3> QED
      BY <3>3, <3>4
  <2> QED
    <3>1. RemoveFirst(s, e) = r
      BY <2>3 DEF r
    <3> QED
      BY <3>1, <2>7, <2>10, <2>11, <2>12, <1>3
<1> QED
  BY <1>2, <1>3

\* A process that goes to the end of a queue.
LEMMA AppendFacts ==
  ASSUME NEW T, NEW q \in Seq(T), NEW e \in T
  PROVE  /\ Append(q, e) \in Seq(T)
         /\ ToSet(Append(q, e)) = ToSet(q) \cup {e}
         /\ Once(q) /\ e \notin ToSet(q) => Once(Append(q, e))
<1> DEFINE a == Append(q, e)
<1>1. Len(q) \in Nat /\ DOMAIN q = 1 .. Len(q)
  BY LenProperties
<1>2. /\ a \in Seq(T) /\ Len(a) = Len(q) + 1
      /\ \A k \in 1 .. Len(q) : a[k] = q[k]
      /\ a[Len(q) + 1] = e
  BY AppendProperties
<1> HIDE DEF a
<1>3. DOMAIN a = 1 .. Len(q) + 1
  BY <1>2, LenProperties
<1>4. 1 .. Len(q) + 1 = (1 .. Len(q)) \cup {Len(q) + 1}
  BY <1>1
<1>5. ToSet(a) = ToSet(q) \cup {e}
  BY <1>1, <1>2, <1>3, <1>4 DEF ToSet
<1>6. Once(q) /\ e \notin ToSet(q) => Once(a)
  <2>1. SUFFICES ASSUME Once(q), \A k \in 1 .. Len(q) : q[k] # e PROVE Once(a)
    BY <1>1 DEF ToSet
  <2> QED
    BY <2>1, <1>1, <1>2, <1>3, <1>4 DEF Once
<1> QED
  BY <1>2, <1>5, <1>6 DEF a

-----------------------------------------------------------------------------
(* sysv_sem_counting.c                                                     *)

\* Only main() ever waits, and children only give back.
CountingKernel == /\ lastid \in Nat /\ setid \in {0, lastid}
                  /\ semval \in [{0} -> Nat]
                  /\ semadj \in [ChildrenAndMain -> [{0} -> Int]]
                  /\ pwait \in [{0} -> {<<>>, <<Main>>}]
                  /\ zwait = [s \in {0} |-> {}]
                  /\ pwait[0] = <<Main>> => semval[0] = 0
                  /\ \A c \in Counting!Idx : semadj[c][0] <= 0

\* Where main() and a child of sysv_sem_counting.c can be.
CountingPcs == {"get", "set", "loop", "waiting", "end", "gone"}
CountingChildPcs == {"unborn", "work", "post", "exit", "done"}

\* A run has its semaphore before it makes its children, in order.
CountingState ==
  /\ pcM \in CountingPcs /\ semid \in 0 .. lastid /\ i \in 0 .. MaxChild
  /\ pc \in [Counting!Idx -> CountingChildPcs]
  /\ restarts \in 0 .. MaxRestarts /\ created \in BOOLEAN
  /\ pcM = "get" => ~created
  /\ pcM \in {"set", "loop", "waiting"} => semid = setid /\ setid # 0
  /\ pcM = "waiting" => i < MaxChild
  /\ pwait[0] = <<Main>> => pcM = "waiting"
  /\ pcM \in {"get", "set"} => i = 0
  /\ \A c \in Counting!Idx : c >= i => pc[c] = "unborn"

\* What main() has of the permit it waits for.
Taken == IF pcM = "waiting" /\ pwait[0] = <<>> THEN 1 ELSE 0

\* No permit too many, as long as there is a main() that could use it.
CountingPermits ==
  created =>
    /\ Cardinality(Counting!Active) <= NCount
    /\ pcM \in {"loop", "waiting"} =>
         semval[0] + Cardinality(Counting!Active) + Taken <= NCount

\* The invariant of sysv_sem_counting.c.
CountingInv == CountingKernel /\ CountingState /\ CountingPermits

\* What the constants of sysv_sem_counting.c are.
LEMMA CountingConstants ==
  program = "counting" =>
  /\ ChildrenAndMain = Counting!Idx \cup {Main} /\ Main \notin Counting!Idx
  /\ MaxChild \in Nat /\ NCount \in Nat /\ NCount # 0 /\ MaxRestarts \in Nat
  /\ IsFiniteSet(Counting!Idx) /\ Counting!Idx \subseteq Nat
  /\ \A S : Counting!Cardinality(S) = Cardinality(S)
<1>1. Counting!CountingFits
  BY ProgramsAssumption
<1>2. MaxChild \in Nat /\ IsFiniteSet(0 .. MaxChild - 1)
  BY <1>1, FS_Interval DEF Counting!CountingFits
<1>3. \A S : Counting!Cardinality(S) = Cardinality(S)
  BY DEF Counting!Cardinality, Cardinality
<1> QED
  BY <1>1, <1>2, <1>3 DEF Counting!CountingFits, Counting!Idx, ChildrenAndMain

\* main() sleeps when the queue holds it.
LEMMA CountingSleep ==
  ASSUME CountingKernel
  PROVE  Counting!Asleep(Main) <=> pwait[0] = <<Main>>
<1>1. Counting!ToSet(<<>>) = {} /\ Counting!ToSet(<<Main>>) = {Main}
  BY DEF Counting!ToSet
<1> QED
  BY <1>1 DEF CountingKernel, Counting!Asleep

\* The queue of the semaphore is empty or main().
LEMMA MainOrNobody ==
  ASSUME NEW q \in {<<>>, <<Main>>}
  PROVE  /\ q \in Seq({Main}) /\ Len(q) \in Nat /\ ToSet(q) \subseteq {Main} /\ Once(q)
         /\ q = <<>> => Len(q) = 0
         /\ q = <<Main>> => Len(q) = 1 /\ q[1] = Main
<1>1. CASE q = <<>>
  <2>1. <<>> \in Seq({Main}) /\ Len(<<>>) = 0 /\ <<>> # <<Main>>
    BY EmptySeq
  <2> QED
    BY <1>1, <2>1 DEF ToSet, Once
<1>2. CASE q = <<Main>>
  <2>1. <<Main>> \in Seq({Main}) /\ Len(<<Main>>) = 1 /\ <<>> # <<Main>>
    OBVIOUS
  <2> QED
    BY <1>2, <2>1 DEF ToSet, Once
<1> QED
  BY <1>1, <1>2

\* The number of sleepers that are served.
LEMMA CountingLeast ==
  ASSUME NEW a \in Nat, NEW b \in Nat
  PROVE  /\ Counting!Least(a, b) \in 0 .. b /\ Counting!Least(a, b) <= a
         /\ Counting!Least(a, b) \in Nat
         /\ a = 0 \/ b = 0 => Counting!Least(a, b) = 0
         /\ a > 0 /\ b = 1 => Counting!Least(a, b) = 1
BY DEF Counting!Least

\* Settle gives main() a permit if it is asleep and there is one.
LEMMA CountingSettles ==
  ASSUME NEW val \in [{0} -> Nat], NEW adj \in [ChildrenAndMain -> [{0} -> Int]],
         NEW asleep \in [{0} -> {<<>>, <<Main>>}], NEW zasleep, zasleep[0] = {},
         Main \notin Counting!Idx, ChildrenAndMain = Counting!Idx \cup {Main},
         \A c \in Counting!Idx : adj[c][0] <= 0,
         Counting!Settle(val, adj, asleep, zasleep)
  PROVE  /\ semval' \in [{0} -> Nat]
         /\ semadj' \in [ChildrenAndMain -> [{0} -> Int]]
         /\ pwait' \in [{0} -> {<<>>, <<Main>>}]
         /\ zwait' = [s \in {0} |-> {}]
         /\ \A c \in Counting!Idx : semadj'[c][0] = adj[c][0]
         /\ asleep[0] = <<>> => semval'[0] = val[0] /\ pwait'[0] = <<>>
         /\ asleep[0] = <<Main>> /\ val[0] = 0 =>
              semval'[0] = 0 /\ pwait'[0] = <<Main>>
         /\ asleep[0] = <<Main>> /\ val[0] > 0 =>
              semval'[0] = val[0] - 1 /\ pwait'[0] = <<>>
<1> DEFINE n == Counting!Least(val[0], Len(asleep[0]))
<1>1. /\ asleep[0] \in Seq({Main}) /\ Len(asleep[0]) \in Nat
      /\ asleep[0] = <<>> => Len(asleep[0]) = 0
      /\ asleep[0] = <<Main>> => Len(asleep[0]) = 1 /\ asleep[0][1] = Main
  <2>1. asleep[0] \in {<<>>, <<Main>>}
    OBVIOUS
  <2> QED
    BY <2>1, MainOrNobody
<1>2. /\ n \in 0 .. Len(asleep[0]) /\ n <= val[0] /\ n \in Nat
      /\ asleep[0] = <<>> => n = 0
      /\ asleep[0] = <<Main>> /\ val[0] = 0 => n = 0
      /\ asleep[0] = <<Main>> /\ val[0] > 0 => n = 1
  <2>1. val[0] \in Nat
    OBVIOUS
  <2>2. /\ n \in 0 .. Len(asleep[0]) /\ n <= val[0] /\ n \in Nat
        /\ val[0] = 0 \/ Len(asleep[0]) = 0 => n = 0
        /\ val[0] > 0 /\ Len(asleep[0]) = 1 => n = 1
    BY <1>1, <2>1, CountingLeast
  <2> HIDE DEF n
  <2> QED
    BY <1>1, <2>2
<1>3. /\ semval' = [s \in {0} |-> val[s] - Counting!Least(val[s], Len(asleep[s]))]
      /\ pwait' = [s \in {0} |->
           SubSeq(asleep[s], Counting!Least(val[s], Len(asleep[s])) + 1, Len(asleep[s]))]
      /\ zwait' = [s \in {0} |->
           IF val[s] = Counting!Least(val[s], Len(asleep[s])) THEN {} ELSE zasleep[s]]
      /\ semadj' = [p \in ChildrenAndMain |-> [s \in {0} |->
           adj[p][s] + IF \E k \in 1 .. Counting!Least(val[s], Len(asleep[s])) :
                            asleep[s][k] = p
                       THEN 1 ELSE 0]]
  BY DEF Counting!Settle
<1>4. /\ semval'[0] = val[0] - n
      /\ pwait'[0] = SubSeq(asleep[0], n + 1, Len(asleep[0]))
      /\ zwait'[0] = IF val[0] = n THEN {} ELSE zasleep[0]
      /\ \A c \in ChildrenAndMain :
           semadj'[c][0] = adj[c][0] + IF \E k \in 1 .. n : asleep[0][k] = c THEN 1 ELSE 0
      /\ DOMAIN semval' = {0} /\ DOMAIN pwait' = {0} /\ DOMAIN zwait' = {0}
  BY <1>3
<1>5. semadj' \in [ChildrenAndMain -> [{0} -> Int]]
  BY <1>3
<1>6. semval' \in [{0} -> Nat] /\ zwait' = [s \in {0} |-> {}]
  BY <1>3, <1>4, <1>2
<1>7. \A c \in Counting!Idx : semadj'[c][0] = adj[c][0]
  <2>1. ASSUME NEW c \in Counting!Idx PROVE ~ \E k \in 1 .. n : asleep[0][k] = c
    BY <1>1, <1>2
  <2>2. \A c \in Counting!Idx : c \in ChildrenAndMain /\ adj[c][0] \in Int
    OBVIOUS
  <2> HIDE DEF n
  <2> QED
    BY <2>1, <2>2, <1>4
<1>8. /\ n = 0 => pwait'[0] = asleep[0]
      /\ n = Len(asleep[0]) => pwait'[0] = <<>>
  <2>1. asleep[0] \in Seq({Main}) /\ n \in 0 .. Len(asleep[0])
    BY <1>1, <1>2
  <2> HIDE DEF n
  <2> QED
    BY <2>1, <1>4, BehindFacts
<1> HIDE DEF n
<1>9. pwait' \in [{0} -> {<<>>, <<Main>>}]
  <2>1. pwait'[0] \in {<<>>, <<Main>>}
    BY <1>8, <1>2, <1>1
  <2> QED
    BY <2>1, <1>3, <1>4
<1>10. val[0] \in Nat
  OBVIOUS
<1>11. asleep[0] = <<>> => semval'[0] = val[0] /\ pwait'[0] = <<>>
  BY <1>2, <1>4, <1>8, <1>10
<1>12. asleep[0] = <<Main>> /\ val[0] = 0 => semval'[0] = 0 /\ pwait'[0] = <<Main>>
  <2>1. SUFFICES ASSUME asleep[0] = <<Main>>, val[0] = 0
                 PROVE  semval'[0] = 0 /\ pwait'[0] = asleep[0]
    OBVIOUS
  <2>2. n = 0
    BY <2>1, <1>2
  <2> QED
    BY <2>1, <2>2, <1>4, <1>8
<1>13. asleep[0] = <<Main>> /\ val[0] > 0 =>
         semval'[0] = val[0] - 1 /\ pwait'[0] = <<>>
  BY <1>1, <1>2, <1>4, <1>8, <1>10
<1> QED
  BY <1>5, <1>6, <1>7, <1>9, <1>11, <1>12, <1>13

\* The exit of a child adds no permit and wakes nobody, that of main() leaves
\* nobody asleep.
LEMMA CountingExits ==
  ASSUME CountingKernel, program = "counting",
         NEW p \in ChildrenAndMain, Counting!SemExit(p)
  PROVE  /\ CountingKernel'
         /\ p \in Counting!Idx => semval'[0] <= semval[0] /\ pwait' = pwait
         /\ p = Main => pwait'[0] = <<>>
         /\ UNCHANGED <<setid, lastid>>
<1> DEFINE val == [s \in {0} |-> IF semval[s] + semadj[p][s] < 0 THEN 0
                                 ELSE semval[s] + semadj[p][s]]
           adj == [semadj EXCEPT ![p] = [s \in {0} |-> 0]]
           asleep == [s \in {0} |-> Counting!RemoveFirst(pwait[s], p)]
           zasleep == [s \in {0} |-> zwait[s] \ {p}]
<1>1. Counting!Settle(val, adj, asleep, zasleep) /\ UNCHANGED <<setid, lastid>>
  BY DEF Counting!SemExit
<1>2. /\ ChildrenAndMain = Counting!Idx \cup {Main} /\ Main \notin Counting!Idx
  BY CountingConstants
<1>3. /\ val \in [{0} -> Nat] /\ adj \in [ChildrenAndMain -> [{0} -> Int]]
      /\ zasleep[0] = {} /\ \A c \in Counting!Idx : adj[c][0] <= 0
      /\ p \in Counting!Idx => val[0] <= semval[0]
  <2>1. semadj[p][0] \in Int /\ semval[0] \in Nat
    BY DEF CountingKernel
  <2>2. val[0] \in Nat /\ (p \in Counting!Idx => val[0] <= semval[0])
    BY <2>1 DEF CountingKernel
  <2>3. val \in [{0} -> Nat]
    BY <2>2
  <2>4. adj \in [ChildrenAndMain -> [{0} -> Int]]
    BY DEF CountingKernel
  <2>5. ASSUME NEW c \in Counting!Idx PROVE adj[c][0] <= 0
    <3>1. c \in ChildrenAndMain /\ semadj[c][0] <= 0
      BY <1>2 DEF CountingKernel
    <3> QED
      BY <3>1
  <2>6. zasleep[0] = {}
    BY DEF CountingKernel
  <2> QED
    BY <2>2, <2>3, <2>4, <2>5, <2>6
<1>4. /\ p \in Counting!Idx => asleep[0] = pwait[0]
      /\ p = Main => asleep[0] = <<>>
  <2>1. pwait[0] \in {<<>>, <<Main>>}
    BY DEF CountingKernel
  <2>0. pwait[0] \in Seq({Main}) /\ ToSet(pwait[0]) \subseteq {Main} /\ Once(pwait[0])
    BY <2>1, MainOrNobody
  <2>2. \A s \in Seq({Main}) : Counting!RemoveFirst(s, p) = RemoveFirst(s, p)
    BY DEF Counting!RemoveFirst, RemoveFirst, Counting!RemoveAt, RemoveAt,
           Counting!SelectInSeq, SelectInSeq, Counting!Min, Min
  <2>3. asleep[0] = RemoveFirst(pwait[0], p)
    BY <2>0, <2>2
  <2>5. CASE p \in Counting!Idx
    <3>1. p \notin ToSet(pwait[0])
      BY <2>0, <2>5, <1>2
    <3> QED
      BY <3>1, <2>0, <2>3, <2>5, <1>2, RemoveFacts
  <2>6. CASE p = Main
    <3>1. /\ asleep[0] \in Seq({Main})
          /\ ToSet(asleep[0]) \subseteq ToSet(pwait[0]) /\ p \notin ToSet(asleep[0])
      BY <2>0, <2>3, RemoveFacts
    <3> HIDE DEF asleep
    <3>2. ToSet(asleep[0]) = {}
      BY <3>1, <2>0, <2>6
    <3>3. DOMAIN asleep[0] = 1 .. Len(asleep[0]) /\ Len(asleep[0]) \in Nat
      BY <3>1, LenProperties
    <3>4. Len(asleep[0]) = 0
      <4>1. SUFFICES ASSUME Len(asleep[0]) # 0 PROVE FALSE
        OBVIOUS
      <4>2. 1 \in DOMAIN asleep[0]
        BY <4>1, <3>3
      <4> QED
        BY <4>2, <3>2 DEF ToSet
    <3> QED
      BY <3>1, <3>4, EmptySeq, <2>6, <1>2
  <2> QED
    BY <2>5, <2>6, <1>2
<1>5. asleep \in [{0} -> {<<>>, <<Main>>}]
  <2>1. asleep[0] \in {<<>>, <<Main>>}
    BY <1>2, <1>4 DEF CountingKernel
  <2> QED
    BY <2>1
<1> HIDE DEF val, adj, asleep, zasleep
<1>6. /\ semval' \in [{0} -> Nat]
      /\ semadj' \in [ChildrenAndMain -> [{0} -> Int]]
      /\ pwait' \in [{0} -> {<<>>, <<Main>>}]
      /\ zwait' = [s \in {0} |-> {}]
      /\ \A c \in Counting!Idx : semadj'[c][0] = adj[c][0]
      /\ asleep[0] = <<>> => semval'[0] = val[0] /\ pwait'[0] = <<>>
      /\ asleep[0] = <<Main>> /\ val[0] = 0 =>
           semval'[0] = 0 /\ pwait'[0] = <<Main>>
      /\ asleep[0] = <<Main>> /\ val[0] > 0 =>
           semval'[0] = val[0] - 1 /\ pwait'[0] = <<>>
  BY <1>1, <1>2, <1>3, <1>5, CountingSettles
<1>7. val[0] \in Nat /\ semval[0] \in Nat /\ pwait[0] \in {<<>>, <<Main>>}
      /\ asleep[0] \in {<<>>, <<Main>>}
  BY <1>3, <1>5 DEF CountingKernel
<1>8. CountingKernel'
  <2>1. pwait'[0] = <<Main>> => semval'[0] = 0
    BY <1>6, <1>7
  <2>2. \A c \in Counting!Idx : semadj'[c][0] <= 0
    BY <1>3, <1>6
  <2> QED
    BY <2>1, <2>2, <1>1, <1>6 DEF CountingKernel
<1>9. ASSUME p \in Counting!Idx PROVE semval'[0] <= semval[0] /\ pwait' = pwait
  <2>1. pwait[0] = <<Main>> => val[0] = 0
    BY <1>3, <1>7, <1>9 DEF CountingKernel
  <2>2. semval'[0] <= semval[0]
    BY <2>1, <1>3, <1>4, <1>6, <1>7, <1>9
  <2>3. pwait'[0] = pwait[0]
    BY <2>1, <1>4, <1>6, <1>7, <1>9
  <2>4. pwait' = pwait
    BY <2>3, <1>6 DEF CountingKernel
  <2> QED
    BY <2>2, <2>4
<1> QED
  BY <1>1, <1>4, <1>6, <1>8, <1>9

\* The children at work are finitely many, and none before the first fork.
LEMMA CountingActive ==
  ASSUME program = "counting"
  PROVE  /\ IsFiniteSet(Counting!Active) /\ Cardinality(Counting!Active) \in Nat
         /\ (\A c \in Counting!Idx : pc[c] = "unborn") => Cardinality(Counting!Active) = 0
<1>1. Counting!Active \subseteq Counting!Idx /\ IsFiniteSet(Counting!Idx)
  BY CountingConstants DEF Counting!Active
<1>2. IsFiniteSet(Counting!Active) /\ Cardinality(Counting!Active) \in Nat
  BY <1>1, FS_Subset, FS_CardinalityType
<1>3. (\A c \in Counting!Idx : pc[c] = "unborn") => Counting!Active = {}
  BY DEF Counting!Active
<1> QED
  BY <1>2, <1>3, FS_EmptySet

\* At the start nobody has a permit.
LEMMA CountingInit == program = "counting" /\ Counting!Init => CountingInv
<1> SUFFICES ASSUME program = "counting", Counting!Init PROVE CountingInv
  OBVIOUS
<1>1. /\ ChildrenAndMain = Counting!Idx \cup {Main}
      /\ MaxChild \in Nat /\ NCount \in Nat /\ MaxRestarts \in Nat
  BY CountingConstants
<1>2. CountingKernel
  BY <1>1 DEF CountingKernel, Counting!Init, Counting!SysvInit, Counting!NoAdj
<1>3. CountingState
  BY <1>1 DEF CountingState, CountingPcs, CountingChildPcs, Counting!Init, Counting!SysvInit
<1>4. CountingPermits
  BY DEF CountingPermits, Counting!Init, Counting!SysvInit
<1> QED
  BY <1>2, <1>3, <1>4 DEF CountingInv

\* main() makes the semaphore or finds one.
LEMMA CountingMakes ==
  ASSUME CountingInv, program = "counting", program' = program,
         Counting!MainGet \/ Counting!MainSetAll
  PROVE  CountingInv'
<1> USE DEF CountingInv
<1>0. /\ ChildrenAndMain = Counting!Idx \cup {Main} /\ Main \notin Counting!Idx
      /\ MaxChild \in Nat /\ NCount \in Nat /\ MaxRestarts \in Nat
  BY CountingConstants
<1>1. /\ lastid \in Nat /\ restarts \in Nat
  BY <1>0 DEF CountingKernel, CountingState
<1>2. /\ pcM \in {"get", "set"} /\ \A c \in Counting!Idx : pc[c] = "unborn"
      /\ i = 0 /\ pwait[0] = <<>> /\ UNCHANGED <<i, pc, restarts>>
      /\ pcM = "get" => ~created
  <2>1. pcM \in {"get", "set"} /\ UNCHANGED <<i, pc, restarts>>
    BY DEF Counting!MainGet, Counting!MainSetAll
  <2>2. i = 0 /\ pwait[0] # <<Main>>
    BY <2>1 DEF CountingState
  <2>3. \A c \in Counting!Idx : c >= i
    BY <2>2, <1>0 DEF Counting!Idx
  <2> QED
    BY <2>1, <2>2, <2>3 DEF CountingState, CountingKernel
<1>3. Cardinality(Counting!Active)' = 0
  <2>1. Counting!Active' = Counting!Active
    BY <1>2 DEF Counting!Active
  <2> QED
    BY <1>2, <2>1, CountingActive
<1>4. CASE Counting!MainGet /\ Counting!SemCreate
  <2>1. /\ setid = 0 /\ lastid' = lastid + 1 /\ setid' = lastid + 1 /\ semid' = setid'
        /\ semval' = [s \in {0} |-> 0]
        /\ semadj' = [p \in ChildrenAndMain |-> [s \in {0} |-> 0]]
        /\ UNCHANGED <<pwait, zwait>> /\ pcM = "get"
    BY <1>4 DEF Counting!MainGet, Counting!SemCreate, Counting!NoAdj
  <2>3. pcM' = "set" /\ created'
    BY <1>4, <2>1, <1>1 DEF Counting!MainGet
  <2>4. CountingKernel'
    BY <2>1, <1>0, <1>1, <1>2 DEF CountingKernel
  <2>5. CountingState'
    <3>1. lastid + 1 # 0 /\ lastid + 1 \in Nat /\ created' \in BOOLEAN
      BY <1>1, <1>4, <2>1 DEF Counting!MainGet
    <3> QED
      BY <2>1, <2>3, <3>1, <1>1, <1>2
      DEF CountingState, CountingPcs, CountingChildPcs, CountingKernel
  <2>6. CountingPermits'
    BY <2>3, <1>0, <1>3 DEF CountingPermits
  <2> QED
    BY <2>4, <2>5, <2>6
<1>5. CASE /\ Counting!MainGet /\ setid # 0 /\ UNCHANGED <<Counting!sysv, created>>
           /\ pcM' = "loop"
  <2>1. /\ semid' = setid' /\ setid # 0 /\ pcM = "get" /\ pcM' = "loop"
        /\ UNCHANGED <<setid, lastid, semval, semadj, pwait, zwait, created>>
    BY <1>5 DEF Counting!MainGet, Counting!sysv
  <2>2. CountingKernel'
    BY <2>1 DEF CountingKernel
  <2>3. CountingState'
    BY <2>1, <1>1, <1>2 DEF CountingState, CountingPcs, CountingChildPcs, CountingKernel
  <2>4. ~created'
    BY <2>1, <1>2
  <2>5. CountingPermits'
    BY <2>4 DEF CountingPermits
  <2> QED
    BY <2>2, <2>3, <2>5
<1>6. CASE Counting!MainSetAll
  <2> DEFINE val == [s \in {0} |-> NCount]
             adj == [p \in ChildrenAndMain |-> [s \in {0} |-> 0]]
  <2>1. /\ pcM = "set" /\ pcM' = "loop" /\ semid = setid /\ setid # 0
        /\ UNCHANGED <<setid, lastid, semid, created>>
        /\ Counting!Settle(val, adj, pwait, zwait)
    BY <1>6 DEF Counting!MainSetAll, Counting!SemSetAll, CountingState, Counting!NoAdj
  <2>2. /\ val \in [{0} -> Nat] /\ adj \in [ChildrenAndMain -> [{0} -> Int]]
        /\ \A c \in Counting!Idx : adj[c][0] <= 0
        /\ pwait \in [{0} -> {<<>>, <<Main>>}] /\ zwait[0] = {}
    BY <1>0 DEF CountingKernel
  <2> HIDE DEF val, adj
  <2>3. /\ semval' \in [{0} -> Nat] /\ semadj' \in [ChildrenAndMain -> [{0} -> Int]]
        /\ pwait' \in [{0} -> {<<>>, <<Main>>}] /\ zwait' = [s \in {0} |-> {}]
        /\ \A c \in Counting!Idx : semadj'[c][0] = adj[c][0]
        /\ semval'[0] = val[0] /\ pwait'[0] = <<>>
    <3>1. /\ semval' \in [{0} -> Nat]
          /\ semadj' \in [ChildrenAndMain -> [{0} -> Int]]
          /\ pwait' \in [{0} -> {<<>>, <<Main>>}]
          /\ zwait' = [s \in {0} |-> {}]
          /\ \A c \in Counting!Idx : semadj'[c][0] = adj[c][0]
          /\ pwait[0] = <<>> => semval'[0] = val[0] /\ pwait'[0] = <<>>
          /\ pwait[0] = <<Main>> /\ val[0] = 0 =>
               semval'[0] = 0 /\ pwait'[0] = <<Main>>
          /\ pwait[0] = <<Main>> /\ val[0] > 0 =>
               semval'[0] = val[0] - 1 /\ pwait'[0] = <<>>
      BY <2>1, <2>2, <1>0, CountingSettles
    <3>2. pwait[0] = <<>>
      BY <1>2
    <3> QED
      BY <3>1, <3>2
  <2>4. CountingKernel'
    BY <2>1, <2>2, <2>3 DEF CountingKernel
  <2>5. CountingState'
    BY <2>1, <2>3, <1>2 DEF CountingState, CountingPcs, CountingChildPcs
  <2>6. CountingPermits'
    <3>1. Taken' = 0
      BY <2>1 DEF Taken
    <3>2. semval'[0] = NCount
      BY <2>3 DEF val
    <3> QED
      BY <3>1, <3>2, <1>3, <1>0 DEF CountingPermits
  <2> QED
    BY <2>4, <2>5, <2>6
<1> QED
  BY <1>4, <1>5, <1>6 DEF Counting!MainGet

\* main() waits for a permit, and forks with it.
LEMMA CountingForks ==
  ASSUME CountingInv, program = "counting", program' = program,
         Counting!MainWait \/ Counting!MainFork
  PROVE  CountingInv'
<1> USE DEF CountingInv
<1>0. /\ ChildrenAndMain = Counting!Idx \cup {Main} /\ Main \notin Counting!Idx
      /\ MaxChild \in Nat /\ NCount \in Nat /\ MaxRestarts \in Nat
      /\ Counting!Idx \subseteq Nat
  BY CountingConstants
<1>1. CASE Counting!MainWait
  <2>1. /\ pcM = "loop" /\ pcM' = "waiting" /\ i < MaxChild /\ semid = setid /\ setid # 0
        /\ UNCHANGED <<setid, lastid, semid, i, pc, restarts, created>>
        /\ Counting!sysv_semwait(Main, semid, 0) /\ pwait[0] = <<>>
    BY <1>1 DEF Counting!MainWait, Counting!sysv_semwait, CountingState, CountingKernel
  <2>2. Counting!Active' = Counting!Active
    BY <2>1 DEF Counting!Active
  <2>3. semval[0] \in Nat /\ Taken = 0 /\ Cardinality(Counting!Active) \in Nat
    BY <2>1, CountingActive DEF Taken, CountingKernel
  <2>4. CASE semval[0] > 0
    <3> DEFINE val == [semval EXCEPT ![0] = @ - 1]
               adj == [semadj EXCEPT ![Main][0] = @ + 1]
    <3>1. Counting!Settle(val, adj, pwait, zwait)
      <4>1. semid = setid /\ semval[0] > 0 /\ ~(semid # setid) /\ semval[0] # 0
        BY <2>1, <2>3, <2>4
      <4> QED
        BY <4>1, <2>1 DEF Counting!sysv_semwait
    <3>2. val \in [{0} -> Nat] /\ val[0] = semval[0] - 1
      BY <2>3, <2>4 DEF CountingKernel
    <3>3. /\ adj \in [ChildrenAndMain -> [{0} -> Int]]
          /\ \A c \in Counting!Idx : adj[c][0] <= 0
      BY <1>0 DEF CountingKernel
    <3>4. pwait \in [{0} -> {<<>>, <<Main>>}] /\ zwait[0] = {}
      BY DEF CountingKernel
    <3> HIDE DEF val, adj
    <3>5. /\ semval' \in [{0} -> Nat] /\ semadj' \in [ChildrenAndMain -> [{0} -> Int]]
          /\ pwait' \in [{0} -> {<<>>, <<Main>>}] /\ zwait' = [s \in {0} |-> {}]
          /\ \A c \in Counting!Idx : semadj'[c][0] = adj[c][0]
          /\ semval'[0] = val[0] /\ pwait'[0] = <<>>
      <4>1. pwait[0] = <<>>
        BY <2>1
      <4>2. /\ semval' \in [{0} -> Nat]
            /\ semadj' \in [ChildrenAndMain -> [{0} -> Int]]
            /\ pwait' \in [{0} -> {<<>>, <<Main>>}]
            /\ zwait' = [s \in {0} |-> {}]
            /\ \A c \in Counting!Idx : semadj'[c][0] = adj[c][0]
            /\ pwait[0] = <<>> => semval'[0] = val[0] /\ pwait'[0] = <<>>
            /\ pwait[0] = <<Main>> /\ val[0] = 0 =>
                 semval'[0] = 0 /\ pwait'[0] = <<Main>>
            /\ pwait[0] = <<Main>> /\ val[0] > 0 =>
                 semval'[0] = val[0] - 1 /\ pwait'[0] = <<>>
        BY <3>1, <3>2, <3>3, <3>4, <1>0, CountingSettles
      <4> QED
        BY <4>1, <4>2
    <3>6. CountingKernel'
      <4>1. pwait'[0] # <<Main>>
        BY <3>5
      <4> QED
        BY <4>1, <3>3, <3>5, <2>1 DEF CountingKernel
    <3>7. CountingState'
      BY <3>5, <2>1 DEF CountingState, CountingPcs, CountingChildPcs
    <3>8. CountingPermits'
      <4>1. Taken' = 1
        BY <3>5, <2>1 DEF Taken
      <4> QED
        BY <4>1, <3>2, <3>5, <2>1, <2>2, <2>3, <1>0 DEF CountingPermits
    <3> QED
      BY <3>6, <3>7, <3>8
  <2>5. CASE semval[0] = 0
    <3>1. /\ pwait' = [pwait EXCEPT ![0] = Append(@, Main)]
          /\ UNCHANGED <<semval, semadj, zwait>>
      BY <2>1, <2>5 DEF Counting!sysv_semwait
    <3>2. Append(<<>>, Main) = <<Main>> /\ <<Main>> # <<>>
      OBVIOUS
    <3>3. pwait' \in [{0} -> {<<>>, <<Main>>}] /\ pwait'[0] = <<Main>>
      BY <3>1, <3>2, <2>1 DEF CountingKernel
    <3>4. CountingKernel'
      BY <3>1, <3>3, <2>1, <2>5 DEF CountingKernel
    <3>5. CountingState'
      BY <3>3, <2>1 DEF CountingState, CountingPcs, CountingChildPcs
    <3>6. CountingPermits'
      <4>1. Taken' = 0
        BY <3>2, <3>3 DEF Taken
      <4> QED
        BY <4>1, <3>1, <2>1, <2>2, <2>3 DEF CountingPermits
    <3> QED
      BY <3>4, <3>5, <3>6
  <2> QED
    BY <2>3, <2>4, <2>5
<1>2. CASE Counting!MainFork
  <2>1. /\ pcM = "waiting" /\ pcM' = "loop" /\ pc' = [pc EXCEPT ![i] = "work"] /\ i' = i + 1
        /\ UNCHANGED <<setid, lastid, semval, semadj, pwait, zwait, semid, restarts, created>>
        /\ pwait[0] # <<Main>>
    BY <1>2, CountingSleep DEF Counting!MainFork, Counting!sysv
  <2>2. i \in Counting!Idx /\ i \in Nat /\ i < MaxChild /\ pc[i] = "unborn"
    <3>1. i \in Nat /\ i < MaxChild
      BY <2>1, <1>0 DEF CountingState
    <3>2. i \in Counting!Idx
      BY <3>1, <1>0 DEF Counting!Idx
    <3> QED
      BY <3>1, <3>2 DEF CountingState
  <2>3. CountingKernel'
    BY <2>1 DEF CountingKernel
  <2>4. CountingState'
    <3>1. i + 1 \in 0 .. MaxChild /\ \A c \in Counting!Idx : c >= i + 1 => c >= i /\ c # i
      BY <2>2, <1>0
    <3> QED
      BY <3>1, <2>1, <2>2 DEF CountingState, CountingPcs, CountingChildPcs
  <2>5. CountingPermits'
    <3>1. Counting!Active' = Counting!Active \cup {i} /\ i \notin Counting!Active
      BY <2>1, <2>2 DEF Counting!Active, CountingState
    <3>2. Cardinality(Counting!Active') = Cardinality(Counting!Active) + 1
      BY <3>1, CountingActive, FS_AddElement
    <3>3. pwait[0] = <<>> /\ Taken = 1 /\ Taken' = 0
      BY <2>1 DEF Taken, CountingKernel
    <3>4. semval[0] \in Nat /\ Cardinality(Counting!Active) \in Nat
      BY CountingActive DEF CountingKernel
    <3> QED
      BY <3>2, <3>3, <3>4, <2>1, <1>0 DEF CountingPermits
  <2> QED
    BY <2>3, <2>4, <2>5
<1> QED
  BY <1>1, <1>2

\* When nobody is added to those at work.
LEMMA CountingFewer ==
  ASSUME program = "counting", Counting!Active' \subseteq Counting!Active
  PROVE  /\ Cardinality(Counting!Active') <= Cardinality(Counting!Active)
         /\ Cardinality(Counting!Active') \in Nat
BY CountingActive, FS_Subset, FS_CardinalityType

\* main() ends: there is nobody any more to use a permit.
LEMMA CountingEnds ==
  ASSUME CountingInv, program = "counting", program' = program,
         Counting!MainForkFail \/ Counting!KillMain \/ Counting!MainReap
  PROVE  CountingInv'
<1> USE DEF CountingInv
<1>0. /\ ChildrenAndMain = Counting!Idx \cup {Main} /\ NCount \in Nat
  BY CountingConstants
<1>1. /\ pcM' \in {"gone", "end"} /\ UNCHANGED <<semid, i, pc, restarts, created, lastid>>
      /\ CountingKernel' /\ pwait'[0] = <<>>
  <2>1. CASE Counting!MainForkFail \/ Counting!KillMain
    <3>1. /\ pcM' = "gone" /\ UNCHANGED <<semid, i, pc, restarts, created>>
          /\ Counting!SemExit(Main)
      BY <2>1 DEF Counting!MainForkFail, Counting!KillMain
    <3> QED
      BY <3>1, <1>0, CountingExits
  <2>2. CASE Counting!MainReap
    <3>1. /\ pcM = "loop" /\ pcM' = "end"
          /\ UNCHANGED <<semid, i, pc, restarts, created, lastid>>
          /\ semid = setid
          /\ setid' = 0 /\ semval' = [s \in {0} |-> 0]
          /\ semadj' = [p \in ChildrenAndMain |-> [s \in {0} |-> 0]]
          /\ pwait' = [s \in {0} |-> <<>>] /\ zwait' = [s \in {0} |-> {}]
      BY <2>2 DEF Counting!MainReap, Counting!sysv_semrm, Counting!NoAdj, CountingState
    <3> QED
      BY <3>1, <1>0 DEF CountingKernel
  <2> QED
    BY <2>1, <2>2
<1>2. CountingState'
  BY <1>1 DEF CountingState, CountingPcs, CountingChildPcs
<1>3. CountingPermits'
  <2>1. Counting!Active' = Counting!Active
    BY <1>1 DEF Counting!Active
  <2> QED
    BY <1>1, <2>1 DEF CountingPermits
<1> QED
  BY <1>1, <1>2, <1>3

\* A child posts, or ends in one way or another.
LEMMA CountingChild ==
  ASSUME CountingInv, program = "counting", program' = program,
         NEW c \in Counting!Idx, Counting!ChildStep(c) \/ Counting!KillChild(c)
  PROVE  CountingInv'
<1> USE DEF CountingInv
<1>0. /\ ChildrenAndMain = Counting!Idx \cup {Main} /\ Main \notin Counting!Idx
      /\ NCount \in Nat
  BY CountingConstants
<1>1. /\ UNCHANGED <<pcM, semid, i, restarts, created>>
      /\ pc[c] \in {"work", "post", "exit"}
      /\ \E l \in {"post", "exit", "done"} : pc' = [pc EXCEPT ![c] = l]
  BY DEF Counting!ChildStep, Counting!Work, Counting!Post, Counting!Exit, Counting!KillChild
<1>2. pc' \in [Counting!Idx -> CountingChildPcs] /\ pc'[c] # "unborn"
      /\ \A b \in Counting!Idx : b # c => pc'[b] = pc[b]
  BY <1>1 DEF CountingState, CountingChildPcs
<1>3. Counting!Active' \subseteq Counting!Active
  BY <1>1, <1>2 DEF Counting!Active, CountingState, Counting!ChildStep, Counting!Work,
     Counting!Post, Counting!Exit, Counting!KillChild
<1>4. /\ Cardinality(Counting!Active') <= Cardinality(Counting!Active)
      /\ Cardinality(Counting!Active') \in Nat /\ Cardinality(Counting!Active) \in Nat
  BY <1>3, CountingFewer, CountingActive
<1>5. CASE Counting!SemExit(c)
  <2>1. /\ CountingKernel' /\ semval'[0] <= semval[0] /\ pwait' = pwait
        /\ UNCHANGED <<setid, lastid>>
    BY <1>5, <1>0, CountingExits
  <2>2. CountingState'
    BY <2>1, <1>1, <1>2 DEF CountingState
  <2>3. CountingPermits'
    <3>1. Taken' = Taken /\ Taken \in Nat
      BY <2>1, <1>1 DEF Taken
    <3>2. semval[0] \in Nat /\ semval'[0] \in Nat
      BY <2>1 DEF CountingKernel
    <3> QED
      BY <3>1, <3>2, <2>1, <1>0, <1>1, <1>4 DEF CountingPermits
  <2> QED
    BY <2>1, <2>2, <2>3
<1>6. CASE Counting!Work(c) /\ UNCHANGED Counting!sysv
  <2>1. UNCHANGED <<setid, lastid, semval, semadj, pwait, zwait>>
    BY <1>6 DEF Counting!sysv
  <2>2. CountingKernel'
    BY <2>1 DEF CountingKernel
  <2>3. CountingState'
    BY <2>1, <1>1, <1>2 DEF CountingState
  <2>4. CountingPermits'
    <3>1. Taken' = Taken /\ Taken \in Nat /\ semval[0] \in Nat
      BY <2>1, <1>1 DEF Taken, CountingKernel
    <3> QED
      BY <3>1, <2>1, <1>0, <1>1, <1>4 DEF CountingPermits
  <2> QED
    BY <2>2, <2>3, <2>4
<1>7. CASE Counting!Post(c)
  <2>1. /\ pc[c] = "post" /\ pc' = [pc EXCEPT ![c] = "exit"]
        /\ Counting!sysv_sempost(c, semid, 0) /\ UNCHANGED <<setid, lastid>>
    BY <1>7 DEF Counting!Post, Counting!sysv_sempost
  <2>2. /\ Counting!Active = Counting!Active' \cup {c} /\ c \notin Counting!Active'
    BY <2>1, <1>2 DEF Counting!Active, CountingState
  <2>3. Cardinality(Counting!Active) = Cardinality(Counting!Active') + 1
    <3>1. IsFiniteSet(Counting!Active')
      BY <1>3, CountingActive, FS_Subset
    <3> QED
      BY <2>2, <3>1, FS_AddElement
  <2>4. semval[0] \in Nat /\ semadj[c][0] \in Int /\ semadj[c][0] <= 0
    BY <1>0 DEF CountingKernel
  <2>5. CASE semid = setid
    <3> DEFINE val == [semval EXCEPT ![0] = @ + 1]
               adj == [semadj EXCEPT ![c][0] = @ - 1]
    <3>1. Counting!Settle(val, adj, pwait, zwait)
      BY <2>1, <2>5 DEF Counting!sysv_sempost
    <3>2. val \in [{0} -> Nat] /\ val[0] = semval[0] + 1
      BY <2>4 DEF CountingKernel
    <3>3. /\ adj \in [ChildrenAndMain -> [{0} -> Int]]
          /\ \A b \in Counting!Idx : adj[b][0] <= 0
      BY <2>4, <1>0 DEF CountingKernel
    <3>4. pwait \in [{0} -> {<<>>, <<Main>>}] /\ zwait[0] = {} /\ pwait[0] \in {<<>>, <<Main>>}
      BY DEF CountingKernel
    <3> HIDE DEF val, adj
    <3>5. /\ semval' \in [{0} -> Nat] /\ semadj' \in [ChildrenAndMain -> [{0} -> Int]]
          /\ pwait' \in [{0} -> {<<>>, <<Main>>}] /\ zwait' = [s \in {0} |-> {}]
          /\ \A b \in Counting!Idx : semadj'[b][0] = adj[b][0]
          /\ pwait[0] = <<>> => semval'[0] = val[0] /\ pwait'[0] = <<>>
          /\ pwait[0] = <<Main>> /\ val[0] > 0 =>
               semval'[0] = val[0] - 1 /\ pwait'[0] = <<>>
      BY <3>1, <3>2, <3>3, <3>4, <1>0, CountingSettles
    <3>6. /\ pwait'[0] = <<>> /\ val[0] > 0
          /\ pwait[0] = <<>> => semval'[0] = semval[0] + 1
          /\ pwait[0] # <<>> => semval'[0] = semval[0]
      BY <3>2, <3>4, <3>5, <2>4
    <3>7. CountingKernel'
      <4>1. pwait'[0] # <<Main>>
        BY <3>6
      <4> QED
        BY <4>1, <3>3, <3>5, <2>1 DEF CountingKernel
    <3>8. CountingState'
      BY <3>6, <2>1, <1>1, <1>2 DEF CountingState
    <3>9. CountingPermits'
      <4>1. /\ Taken \in Nat /\ Taken' \in Nat
            /\ pwait[0] = <<>> => Taken' = Taken
            /\ pwait[0] # <<>> /\ pcM = "waiting" => Taken' = 1 /\ Taken = 0
            /\ pcM # "waiting" => Taken' = 0 /\ Taken = 0
        BY <3>6, <1>1 DEF Taken
      <4>2. pcM \in {"loop", "waiting"} =>
              semval'[0] + Taken' <= semval[0] + Taken + 1
        <5>1. pwait[0] # <<>> => pcM = "waiting"
          BY <3>4 DEF CountingState
        <5> QED
          BY <4>1, <5>1, <3>6, <2>4
      <4>3. semval'[0] \in Nat
        BY <3>5
      <4>4. ASSUME created
            PROVE  /\ Cardinality(Counting!Active) <= NCount
                   /\ pcM \in {"loop", "waiting"} =>
                        semval[0] + Cardinality(Counting!Active) + Taken <= NCount
        BY <4>4 DEF CountingPermits
      <4>5. ASSUME created, pcM \in {"loop", "waiting"}
            PROVE  semval'[0] + Cardinality(Counting!Active') + Taken' <= NCount
        <5>1. semval'[0] + Taken' <= semval[0] + Taken + 1
          BY <4>2, <4>5
        <5>2. semval[0] + Cardinality(Counting!Active) + Taken <= NCount
          BY <4>4, <4>5
        <5>3. \A v, w, t, u, b, n \in Nat :
                w + u <= v + t + 1 /\ v + (b + 1) + t <= n => w + b + u <= n
          OBVIOUS
        <5>4. semval[0] \in Nat /\ semval'[0] \in Nat /\ Taken \in Nat /\ Taken' \in Nat
          BY <2>4, <4>1, <4>3
        <5>5. Cardinality(Counting!Active') \in Nat /\ NCount \in Nat
          BY <1>0, <1>4
        <5> QED
          BY <5>1, <5>2, <5>3, <5>4, <5>5, <2>3
      <4>6. pcM' = pcM /\ created' = created
        BY <1>1
      <4> QED
        BY <4>4, <4>5, <4>6, <2>3, <1>0, <1>4 DEF CountingPermits
    <3> QED
      BY <3>7, <3>8, <3>9
  <2>6. CASE semid # setid
    <3>1. UNCHANGED <<semval, semadj, pwait, zwait>>
      BY <2>1, <2>6 DEF Counting!sysv_sempost
    <3>2. CountingKernel'
      BY <3>1, <2>1 DEF CountingKernel
    <3>3. CountingState'
      BY <3>1, <2>1, <1>1, <1>2 DEF CountingState
    <3>4. CountingPermits'
      <4>1. Taken' = Taken /\ Taken \in Nat
        BY <3>1, <1>1 DEF Taken
      <4> QED
        BY <4>1, <3>1, <2>1, <2>4, <1>0, <1>1, <1>4 DEF CountingPermits
    <3> QED
      BY <3>2, <3>3, <3>4
  <2> QED
    BY <2>5, <2>6
<1> QED
  BY <1>5, <1>6, <1>7 DEF Counting!ChildStep, Counting!Work, Counting!Exit, Counting!KillChild

\* The program is run again: the run has no semaphore of its own yet.
LEMMA CountingAgain ==
  ASSUME CountingInv, program = "counting", Counting!Restart
  PROVE  CountingInv'
<1> USE DEF CountingInv
<1>0. MaxChild \in Nat /\ MaxRestarts \in Nat /\ restarts \in Nat /\ lastid \in Nat
  BY CountingConstants DEF CountingState, CountingKernel
<1>1. /\ restarts < MaxRestarts /\ pcM \in {"end", "gone"}
      /\ restarts' = restarts + 1 /\ pcM' = "get" /\ semid' = 0 /\ i' = 0
      /\ pc' = [c \in Counting!Idx |-> "unborn"] /\ created' = FALSE
      /\ UNCHANGED <<setid, lastid, semval, semadj, pwait, zwait>>
  BY DEF Counting!Restart, Counting!sysv
<1>2. CountingKernel'
  BY <1>1 DEF CountingKernel
<1>3. pwait[0] # <<Main>>
  BY <1>1 DEF CountingState
<1>4. CountingState'
  <2>1. /\ pc' \in [Counting!Idx -> CountingChildPcs]
        /\ \A c \in Counting!Idx : pc'[c] = "unborn"
    BY <1>1 DEF CountingChildPcs
  <2>2. /\ restarts' \in 0 .. MaxRestarts /\ semid' \in 0 .. lastid'
        /\ i' \in 0 .. MaxChild
    BY <1>0, <1>1
  <2>3. created' \in BOOLEAN
    BY <1>1
  <2> QED
    BY <1>1, <1>3, <2>1, <2>2, <2>3 DEF CountingState, CountingPcs
<1> QED
  BY <1>1, <1>2, <1>4 DEF CountingPermits

\* Every step of sysv_sem_counting.c keeps its invariant.
LEMMA CountingStep ==
  CountingInv /\ InCounting /\ Counting!Next => CountingInv'
<1> SUFFICES ASSUME CountingInv, InCounting, Counting!Next PROVE CountingInv'
  OBVIOUS
<1>1. program = "counting" /\ program' = program
  BY DEF InCounting
<1>2. \/ Counting!MainGet \/ Counting!MainSetAll
      \/ Counting!MainWait \/ Counting!MainFork
      \/ Counting!MainForkFail \/ Counting!KillMain \/ Counting!MainReap
      \/ \E c \in Counting!Idx : Counting!ChildStep(c) \/ Counting!KillChild(c)
      \/ Counting!Restart
  BY DEF Counting!Next, Counting!MainStep, Counting!Failure
<1> QED
  BY <1>1, <1>2, CountingMakes, CountingForks, CountingEnds, CountingChild, CountingAgain

\* What the invariant says of the properties.
LEMMA CountingRight ==
  CountingInv /\ program = "counting" =>
    Counting!TypeOK /\ Counting!OwnBounded /\ Counting!NoExtraPermit
<1> SUFFICES ASSUME CountingInv, program = "counting"
             PROVE  Counting!TypeOK /\ Counting!OwnBounded /\ Counting!NoExtraPermit
  OBVIOUS
<1> USE DEF CountingInv
<1>0. /\ ChildrenAndMain = Counting!Idx \cup {Main}
      /\ \A S : Counting!Cardinality(S) = Cardinality(S)
  BY CountingConstants
<1>1. Counting!TypeOK
  <2>1. \A q \in {<<>>, <<Main>>} : q \in Seq(ChildrenAndMain)
    <3>1. \A q \in {<<>>, <<Main>>} : q \in Seq({Main}) /\ {Main} \subseteq ChildrenAndMain
      BY <1>0, MainOrNobody
    <3> QED
      BY <3>1, SeqMonotonic
  <2>2. pwait \in [{0} -> Seq(ChildrenAndMain)]
    BY <2>1 DEF CountingKernel
  <2>3. Counting!SysvTypeOK
    BY <2>2 DEF CountingKernel, Counting!SysvTypeOK
  <2> QED
    BY <2>3 DEF Counting!TypeOK, CountingState, CountingPcs, CountingChildPcs
<1>2. Counting!OwnBounded
  BY <1>0 DEF CountingPermits, Counting!OwnBounded, Counting!CountBounded
<1>3. Counting!NoExtraPermit
  <2>1. Taken = IF pcM = "waiting" /\ ~Counting!Asleep(Main) THEN 1 ELSE 0
    <3>1. Counting!Asleep(Main) <=> pwait[0] # <<>>
      <4>1. pwait[0] \in {<<>>, <<Main>>} /\ <<>> # <<Main>>
        BY DEF CountingKernel
      <4> QED
        BY <4>1, CountingSleep
    <3> QED
      BY <3>1 DEF Taken
  <2> QED
    BY <2>1, <1>0 DEF CountingPermits, Counting!NoExtraPermit
<1> QED
  BY <1>1, <1>2, <1>3

-----------------------------------------------------------------------------
(* sysv_sem_graph.c                                                        *)

\* The processes of funclist[].
Workers == {A, B, C, D, E}

\* What the constants of sysv_sem_graph.c are: the processes are different.
LEMMA GraphConstants ==
  program = "graph" =>
  /\ Graph!Workers = Workers /\ GraphProcs = Workers \cup {Main} /\ Main \notin Workers
  /\ /\ A # B /\ A # C /\ A # D /\ A # E /\ B # C /\ B # D /\ B # E
     /\ C # D /\ C # E /\ D # E
  /\ MaxRestarts \in Nat
<1>1. Graph!GraphFits
  BY ProgramsAssumption
<1>2. A # B /\ A # C /\ A # D /\ A # E /\ B # C /\ B # D /\ B # E /\ C # D /\ C # E /\ D # E
  <2> DEFINE f == <<E, D, C, B, A>>
  <2>1. \A j, k \in DOMAIN f : f[j] = f[k] => j = k
    BY <1>1 DEF Graph!GraphFits, Graph!FuncList, Graph!IsInjective, IsInjective
  <2>2. /\ f[1] = E /\ f[2] = D /\ f[3] = C /\ f[4] = B /\ f[5] = A
        /\ DOMAIN f = 1 .. 5
    OBVIOUS
  <2> HIDE DEF f
  <2>3. 1 \in DOMAIN f /\ 2 \in DOMAIN f /\ 3 \in DOMAIN f /\ 4 \in DOMAIN f /\ 5 \in DOMAIN f
    BY <2>2
  <2> QED
    BY <2>1, <2>2, <2>3
<1> QED
  BY <1>1, <1>2 DEF Graph!GraphFits, Graph!Workers, Workers, GraphProcs

\* The calls of the processes, all of which make two.
LEMMA GraphScript ==
  program = "graph" =>
  LET Calls(p, op, s, op2, s2) ==
        /\ Len(Graph!Script[p]) = 2
        /\ Graph!Script[p][1].op = op /\ Graph!Script[p][1].sem = s
        /\ Graph!Script[p][2].op = op2 /\ Graph!Script[p][2].sem = s2
  IN  /\ Calls(A, "post", 0, "post", 0)
      /\ Calls(B, "wait", 0, "post", 1)
      /\ Calls(C, "wait", 0, "post", 2)
      /\ Calls(D, "wait", 2, "post", 3)
      /\ Calls(E, "wait", 1, "wait", 3)
<1> DEFINE Calls(op, s, op2, s2) == <<[op |-> op, sem |-> s], [op |-> op2, sem |-> s2]>>
<1> SUFFICES ASSUME program = "graph"
             PROVE  /\ Graph!Script[A] = Calls("post", 0, "post", 0)
                    /\ Graph!Script[B] = Calls("wait", 0, "post", 1)
                    /\ Graph!Script[C] = Calls("wait", 0, "post", 2)
                    /\ Graph!Script[D] = Calls("wait", 2, "post", 3)
                    /\ Graph!Script[E] = Calls("wait", 1, "wait", 3)
  OBVIOUS
<1>1. /\ A # B /\ A # C /\ A # D /\ A # E /\ B # C /\ B # D /\ B # E
      /\ C # D /\ C # E /\ D # E
  BY GraphConstants
<1>2. A \in Graph!Workers /\ B \in Graph!Workers /\ C \in Graph!Workers
      /\ D \in Graph!Workers /\ E \in Graph!Workers
  BY DEF Graph!Workers
<1> QED
  BY <1>1, <1>2 DEF Graph!Script, Graph!Call

\* The number of sleepers that are served.
LEMMA GraphLeast ==
  ASSUME NEW a \in Nat, NEW b \in Nat
  PROVE  /\ Graph!Least(a, b) \in 0 .. b /\ Graph!Least(a, b) <= a
         /\ Graph!Least(a, b) \in Nat
         /\ a = 0 => Graph!Least(a, b) = 0
BY DEF Graph!Least

\* The kernel's values, adjustments, queues and waits for zero.
Vals == [0 .. 3 -> Nat]
Adjs == [GraphProcs -> [0 .. 3 -> Int]]
Queues == [0 .. 3 -> Seq(Workers)]
NoZeros == [0 .. 3 -> {{}}]

\* Settle does nothing to a semaphore that has no permit.
LEMMA GraphSettles ==
  ASSUME NEW val \in Vals, NEW adj \in Adjs, NEW asleep \in Queues, NEW zasleep \in NoZeros,
         Graph!Settle(val, adj, asleep, zasleep)
  PROVE  /\ semval' \in Vals /\ semadj' \in Adjs /\ pwait' \in Queues /\ zwait' \in NoZeros
         /\ \A s \in 0 .. 3 : val[s] = 0 =>
              /\ semval'[s] = 0 /\ pwait'[s] = asleep[s]
              /\ \A p \in GraphProcs : semadj'[p][s] = adj[p][s]
<1> USE DEF Vals, Adjs, Queues, NoZeros
<1> DEFINE n(s) == Graph!Least(val[s], Len(asleep[s]))
           g(p, s) == IF \E k \in 1 .. n(s) : asleep[s][k] = p THEN 1 ELSE 0
<1>1. \A s \in 0 .. 3 : /\ n(s) \in 0 .. Len(asleep[s]) /\ n(s) \in Nat /\ n(s) <= val[s]
                        /\ val[s] = 0 => n(s) = 0
                        /\ val[s] \in Nat /\ asleep[s] \in Seq(Workers)
                        /\ Len(asleep[s]) \in Nat
  <2> TAKE s \in 0 .. 3
  <2>1. val[s] \in Nat /\ asleep[s] \in Seq(Workers)
    OBVIOUS
  <2>2. Len(asleep[s]) \in Nat
    BY <2>1, LenProperties
  <2> QED
    BY <2>1, <2>2, GraphLeast
<1>2. /\ semval' = [s \in 0 .. 3 |-> val[s] - n(s)]
      /\ pwait' = [s \in 0 .. 3 |-> SubSeq(asleep[s], n(s) + 1, Len(asleep[s]))]
      /\ zwait' = [s \in 0 .. 3 |-> IF val[s] = n(s) THEN {} ELSE zasleep[s]]
      /\ semadj' = [p \in GraphProcs |-> [s \in 0 .. 3 |->
           adj[p][s] + g(p, s)]]
  BY DEF Graph!Settle
<1>3. \A s \in 0 .. 3 : /\ SubSeq(asleep[s], n(s) + 1, Len(asleep[s])) \in Seq(Workers)
                        /\ n(s) = 0 => SubSeq(asleep[s], n(s) + 1, Len(asleep[s])) = asleep[s]
  <2> TAKE s \in 0 .. 3
  <2>1. asleep[s] \in Seq(Workers) /\ n(s) \in 0 .. Len(asleep[s])
    BY <1>1
  <2> HIDE DEF n
  <2> QED
    BY <2>1, BehindFacts
<1>0. \A p, s : g(p, s) \in {0, 1} /\ (s \in 0 .. 3 /\ n(s) = 0 => g(p, s) = 0)
  OBVIOUS
<1> HIDE DEF n, g
<1>4. pwait' \in [0 .. 3 -> Seq(Workers)]
  BY <1>2, <1>3
<1>5. \A s \in 0 .. 3 : val[s] - n(s) \in Nat
  BY <1>1
<1>6. semval' \in [0 .. 3 -> Nat]
  BY <1>2, <1>5
<1>7. zwait' \in [0 .. 3 -> {{}}]
  BY <1>2
<1>i. \A x, y \in Int : x + y \in Int
  OBVIOUS
<1>8. semadj' \in [GraphProcs -> [0 .. 3 -> Int]]
  <2>1. \A p \in GraphProcs : \A s \in 0 .. 3 : adj[p][s] + g(p, s) \in Int
    <3> TAKE p \in GraphProcs
    <3>1. adj[p] \in [0 .. 3 -> Int]
      OBVIOUS
    <3> TAKE s \in 0 .. 3
    <3>2. adj[p][s] \in Int /\ g(p, s) \in Int
      BY <1>0, <3>1
    <3> QED
      BY <3>2, <1>i
  <2> QED
    BY <1>2, <2>1
<1>9. ASSUME NEW s \in 0 .. 3, val[s] = 0
      PROVE  /\ semval'[s] = 0 /\ pwait'[s] = asleep[s]
             /\ \A p \in GraphProcs : semadj'[p][s] = adj[p][s]
  <2>1. n(s) = 0
    BY <1>1, <1>9
  <2>2. semval'[s] = 0 /\ pwait'[s] = asleep[s]
    <3>1. semval'[s] = val[s] - n(s) /\ pwait'[s] = SubSeq(asleep[s], n(s) + 1, Len(asleep[s]))
      BY <1>2
    <3>2. pwait'[s] = asleep[s]
      BY <1>3, <2>1, <3>1
    <3>3. semval'[s] = 0
      BY <1>9, <2>1, <3>1
    <3> QED
      BY <3>2, <3>3
  <2>3. ASSUME NEW p \in GraphProcs PROVE semadj'[p][s] = adj[p][s]
    <3>1. semadj'[p][s] = adj[p][s] + g(p, s) /\ g(p, s) = 0
      BY <1>0, <1>2, <2>1
    <3>2. adj[p] \in [0 .. 3 -> Int]
      OBVIOUS
    <3>3. adj[p][s] \in Int
      BY <3>2
    <3> QED
      BY <3>1, <3>3
  <2> QED
    BY <2>2, <2>3
<1> QED
  BY <1>4, <1>6, <1>7, <1>8, <1>9

\* The calls of the processes: each makes two.
Makes(p, k, op, s) == /\ p \in Workers /\ k \in 1 .. 2
                      /\ Graph!Script[p][k].op = op /\ Graph!Script[p][k].sem = s

\* p has begun its k-th call; it has got through this call, a wait on s.
Begun(p, k) == ip[p] > k \/ (ip[p] = k /\ p \in calling)
Passed(p, k, s) == \/ ip[p] > k
                   \/ ip[p] = k /\ p \in calling \ gone /\ p \notin ToSet(pwait[s])

\* A process has begun to post on s; s and the adjustments of it are zero.
Opened(s) == \E p \in Workers : \E k \in 1 .. 2 : Makes(p, k, "post", s) /\ Begun(p, k)
Closed(s) == semval[s] = 0 /\ \A p \in GraphProcs : semadj[p][s] = 0

\* The kernel's state; a set that does not exist has no values and no queues.
GraphKernel ==
  /\ lastid \in Nat /\ setid \in 0 .. lastid
  /\ semval \in Vals /\ semadj \in Adjs /\ pwait \in Queues /\ zwait \in NoZeros
  /\ setid = 0 => \A s \in 0 .. 3 : Closed(s) /\ pwait[s] = <<>>

\* Each process is at one of its two calls; main() has the set before it forks,
\* and the set goes when all have ended.
GraphState ==
  /\ pcM \in {"get", "set", "fork", "reap", "end", "gone"}
  /\ semid \in 0 .. lastid
  /\ ip \in [Workers -> 0 .. 3]
  /\ calling \subseteq Workers /\ gone \subseteq GraphProcs
  /\ \A p \in calling : ip[p] \in 1 .. 2
  /\ restarts \in 0 .. MaxRestarts /\ created \in BOOLEAN
  /\ pcM \in {"get", "set"} => \A p \in Workers : ip[p] = 0
  /\ pcM \in {"set", "fork", "reap"} \/ (\E p \in Workers : ip[p] > 0) => semid # 0
  /\ created => pcM # "get" /\ (setid = semid \/ Workers \subseteq gone)

\* In a run that created the set a semaphore stays closed until a process
\* posts, and nobody gets through a wait on a closed one.
GraphPermits ==
  created => \A s \in 0 .. 3 :
    /\ Opened(s) \/ Closed(s)
    /\ \A p \in Workers : \A k \in 1 .. 2 :
         Makes(p, k, "wait", s) /\ Passed(p, k, s) => Opened(s)

\* The invariant of sysv_sem_graph.c.
GraphInv == GraphKernel /\ GraphState /\ GraphPermits

\* Each process makes two calls, waits or posts on one of four semaphores.
LEMMA GraphCalls ==
  program = "graph" =>
  \A p \in Workers : /\ Len(Graph!Script[p]) = 2
                     /\ \A k \in 1 .. 2 : /\ Graph!Script[p][k].op \in {"wait", "post"}
                                          /\ Graph!Script[p][k].sem \in 0 .. 3
<1> SUFFICES ASSUME program = "graph", NEW p \in Workers
             PROVE  /\ Len(Graph!Script[p]) = 2
                    /\ Graph!Script[p][1].op \in {"wait", "post"}
                    /\ Graph!Script[p][2].op \in {"wait", "post"}
                    /\ Graph!Script[p][1].sem \in 0 .. 3 /\ Graph!Script[p][2].sem \in 0 .. 3
  <2>1. 1 .. 2 = {1, 2}
    OBVIOUS
  <2> QED
    BY <2>1
<1>1. p = A \/ p = B \/ p = C \/ p = D \/ p = E
  BY DEF Workers
<1> QED
  BY <1>1, GraphScript

\* At the start nobody exists and every semaphore is closed.
LEMMA GraphInit == program = "graph" /\ Graph!Init => GraphInv
<1> SUFFICES ASSUME program = "graph", Graph!Init PROVE GraphInv
  OBVIOUS
<1>1. Graph!Workers = Workers /\ GraphProcs = Workers \cup {Main} /\ MaxRestarts \in Nat
  BY GraphConstants
<1>2. /\ setid = 0 /\ lastid = 0 /\ pcM = "get" /\ semid = 0
      /\ semval = [s \in 0 .. 3 |-> 0]
      /\ semadj = [p \in GraphProcs |-> [s \in 0 .. 3 |-> 0]]
      /\ pwait = [s \in 0 .. 3 |-> <<>>] /\ zwait = [s \in 0 .. 3 |-> {}]
      /\ ip = [p \in Workers |-> 0] /\ calling = {} /\ gone = {}
      /\ restarts = 0 /\ created = FALSE
  BY <1>1 DEF Graph!Init, Graph!SysvInit, Graph!NoAdj
<1>3. <<>> \in Seq(Workers)
  BY EmptySeq
<1>4. GraphKernel
  BY <1>2, <1>3 DEF GraphKernel, Closed, Vals, Adjs, Queues, NoZeros
<1>5. GraphState
  <2>1. ip \in [Workers -> 0 .. 3] /\ ~ \E p \in Workers : ip[p] > 0
    BY <1>2
  <2>2. restarts \in 0 .. MaxRestarts /\ semid \in 0 .. lastid
    BY <1>1, <1>2
  <2> QED
    BY <1>2, <2>1, <2>2 DEF GraphState
<1> QED
  BY <1>2, <1>4, <1>5 DEF GraphInv, GraphPermits

\* What a process has begun it has begun, so what is open stays open.
LEMMA OpenedStays ==
  ASSUME \A p \in Workers : \A k \in 1 .. 2 : Begun(p, k) => Begun(p, k)'
  PROVE  \A s : Opened(s) => Opened(s)'
BY DEF Opened, Makes

\* The order is kept as long as a semaphore that is not opened stays closed,
\* and nobody gets through a wait on it.
LEMMA GraphKeeps ==
  ASSUME GraphPermits,
         \A p \in Workers : \A k \in 1 .. 2 : Begun(p, k) => Begun(p, k)',
         created' = created,
         created => \A s \in 0 .. 3 : Closed(s) /\ ~Opened(s)' =>
           /\ Closed(s)'
           /\ \A p \in Workers : \A k \in 1 .. 2 :
                Makes(p, k, "wait", s) /\ Passed(p, k, s)' => Passed(p, k, s)
  PROVE  GraphPermits'
<1> SUFFICES ASSUME created, NEW s \in 0 .. 3, ~Opened(s)'
             PROVE  /\ Closed(s)'
                    /\ \A p \in Workers : \A k \in 1 .. 2 :
                         ~(Makes(p, k, "wait", s) /\ Passed(p, k, s)')
  BY DEF GraphPermits, Makes
<1>1. ~Opened(s)
  BY OpenedStays
<1> QED
  BY <1>1 DEF GraphPermits

\* The end of a process does nothing to a semaphore that is closed, but that
\* the process does not sleep on it any more.
LEMMA GraphExits ==
  ASSUME GraphInv, program = "graph", NEW p \in GraphProcs, Graph!SemExit(p),
         gone' = gone \cup {p}, pcM' = pcM \/ pcM' = "gone",
         UNCHANGED <<semid, ip, calling, restarts, created>>
  PROVE  GraphInv'
<1> USE DEF GraphInv
<1> DEFINE val == [s \in 0 .. 3 |-> IF semval[s] + semadj[p][s] < 0 THEN 0
                                    ELSE semval[s] + semadj[p][s]]
           adj == [semadj EXCEPT ![p] = [s \in 0 .. 3 |-> 0]]
           asleep == [s \in 0 .. 3 |-> Graph!RemoveFirst(pwait[s], p)]
           zasleep == [s \in 0 .. 3 |-> zwait[s] \ {p}]
<1>1. Graph!Settle(val, adj, asleep, zasleep) /\ UNCHANGED <<setid, lastid>>
  BY DEF Graph!SemExit
<1>2. \A s \in 0 .. 3 : semval[s] \in Nat /\ \A q \in GraphProcs : semadj[q][s] \in Int
  <2> TAKE s \in 0 .. 3
  <2>1. \A q \in GraphProcs : semadj[q] \in [0 .. 3 -> Int]
    BY DEF GraphKernel, Adjs
  <2> QED
    BY <2>1 DEF GraphKernel, Vals
<1>3. val \in Vals
  BY <1>2 DEF Vals
<1>4. adj \in Adjs
  BY DEF GraphKernel, Adjs
<1>5. \A s \in 0 .. 3 :
        /\ asleep[s] \in Seq(Workers)
        /\ ToSet(pwait[s]) \ {p} \subseteq ToSet(asleep[s])
        /\ pwait[s] = <<>> => asleep[s] = <<>>
  <2> TAKE s \in 0 .. 3
  <2>1. asleep[s] = RemoveFirst(pwait[s], p)
    BY DEF Graph!RemoveFirst, RemoveFirst, Graph!RemoveAt, RemoveAt,
           Graph!SelectInSeq, SelectInSeq, Graph!Min, Min
  <2>2. pwait[s] \in Seq(Workers)
    BY DEF GraphKernel, Queues
  <2>3. pwait[s] = <<>> => ToSet(pwait[s]) = {}
    BY DEF ToSet
  <2> HIDE DEF asleep
  <2> QED
    BY <2>1, <2>2, <2>3, RemoveFacts
<1>6. asleep \in Queues
  BY <1>5 DEF Queues
<1>7. zasleep \in NoZeros
  BY DEF GraphKernel, NoZeros
<1>8. \A s \in 0 .. 3 : Closed(s) => val[s] = 0 /\ \A q \in GraphProcs : adj[q][s] = 0
  <2> SUFFICES ASSUME NEW s \in 0 .. 3, Closed(s)
               PROVE  val[s] = 0 /\ \A q \in GraphProcs : adj[q][s] = 0
    OBVIOUS
  <2>1. semval[s] = 0 /\ \A q \in GraphProcs : semadj[q][s] = 0
    BY DEF Closed
  <2> QED
    BY <2>1 DEF GraphKernel, Adjs
<1> HIDE DEF val, adj, asleep, zasleep
<1>9. /\ semval' \in Vals /\ semadj' \in Adjs /\ pwait' \in Queues /\ zwait' \in NoZeros
      /\ \A s \in 0 .. 3 : val[s] = 0 =>
           /\ semval'[s] = 0 /\ pwait'[s] = asleep[s]
           /\ \A q \in GraphProcs : semadj'[q][s] = adj[q][s]
  BY <1>1, <1>3, <1>4, <1>6, <1>7, GraphSettles
<1>10. \A s \in 0 .. 3 : Closed(s) => Closed(s)' /\ pwait'[s] = asleep[s]
  BY <1>8, <1>9 DEF Closed
<1>11. GraphKernel'
  BY <1>1, <1>5, <1>9, <1>10 DEF GraphKernel
<1>12. GraphState'
  BY <1>1 DEF GraphState
<1>13. GraphPermits'
  <2>1. ASSUME NEW s \in 0 .. 3, Closed(s), NEW q \in Workers, NEW k \in 1 .. 2,
               Passed(q, k, s)'
        PROVE  Passed(q, k, s)
    <3>1. q \in ToSet(pwait[s]) /\ q # p => q \in ToSet(pwait'[s])
      BY <1>5, <1>10, <2>1
    <3> QED
      BY <2>1, <3>1 DEF Passed
  <2>2. \A q \in Workers : \A k \in 1 .. 2 : Begun(q, k) => Begun(q, k)'
    BY DEF Begun
  <2> QED
    BY <1>10, <2>1, <2>2, GraphKeeps
<1> QED
  BY <1>11, <1>12, <1>13

\* A process begins a call.
LEMMA GraphCall ==
  ASSUME GraphInv, program = "graph", NEW p \in Workers, Graph!WorkerCall(p)
  PROVE  GraphInv'
<1> USE DEF GraphInv
<1>0. Len(Graph!Script[p]) = 2 /\ ip[p] \in 1 .. 2
  <2>1. Len(Graph!Script[p]) = 2 /\ ip[p] \in 0 .. 3
    BY GraphCalls DEF GraphState
  <2>2. ip[p] > 0 /\ ip[p] <= 2
    BY <2>1 DEF Graph!WorkerCall, Graph!Running
  <2> QED
    BY <2>1, <2>2
<1> PICK k \in 1 .. 2 : k = ip[p]
  BY <1>0
<1> PICK s \in 0 .. 3 : s = Graph!Script[p][k].sem
  BY GraphCalls
<1>1. /\ k = ip[p] /\ p \notin gone /\ p \notin calling
      /\ calling' = calling \cup {p}
      /\ UNCHANGED <<pcM, semid, ip, gone, restarts, created, setid, lastid>>
      /\ \/ Makes(p, k, "wait", s) /\ Graph!sysv_semwait(p, semid, s)
         \/ Makes(p, k, "post", s) /\ Graph!sysv_sempost(p, semid, s)
  <2>1. /\ p \notin gone /\ p \notin calling /\ calling' = calling \cup {p}
        /\ UNCHANGED <<pcM, semid, ip, gone, restarts, created>>
        /\ \/ Graph!Script[p][k].op = "wait" /\ Graph!sysv_semwait(p, semid, s)
           \/ Graph!Script[p][k].op = "post" /\ Graph!sysv_sempost(p, semid, s)
    BY DEF Graph!WorkerCall, Graph!Running
  <2>2. UNCHANGED <<setid, lastid>>
    BY <2>1 DEF Graph!sysv_semwait, Graph!sysv_sempost
  <2> QED
    BY <2>1, <2>2 DEF Makes
<1>2. /\ semid # 0 /\ (created => setid = semid) /\ p \in GraphProcs
      /\ \A j : Makes(p, j, "wait", s) \/ Makes(p, j, "post", s) => j \in 1 .. 2
      /\ \A t : Makes(p, k, "wait", t) \/ Makes(p, k, "post", t) => t = s
  <2>1. ip[p] > 0
    BY <1>1
  <2> QED
    BY <1>1, <2>1, GraphConstants DEF GraphState, Makes
<1>3. GraphState'
  <2>1. ip[p] \in 1 .. 2
    BY <1>1
  <2> QED
    BY <1>1, <2>1 DEF GraphState
<1>4. \A q \in Workers : \A j \in 1 .. 2 : Begun(q, j) => Begun(q, j)'
  BY <1>1 DEF Begun
<1>5. Begun(p, k)'
  BY <1>1 DEF Begun
<1>6. \A q \in Workers : \A j \in 1 .. 2 : \A t \in 0 .. 3 :
        /\ Passed(q, j, t)' /\ ~(q = p /\ j = k)
        /\ ToSet(pwait[t]) \subseteq ToSet(pwait'[t])
        => Passed(q, j, t)
  BY <1>1, <1>5 DEF Passed
<1>7. CASE UNCHANGED <<semval, semadj, pwait, zwait>> /\ semid # setid
  <2>1. ~created
    BY <1>2, <1>7
  <2>2. GraphKernel'
    BY <1>1, <1>7 DEF GraphKernel, Closed
  <2> QED
    BY <1>1, <1>3, <1>7, <2>1, <2>2 DEF GraphPermits
<1>8. ASSUME NEW val \in Vals, NEW adj \in Adjs, semid = setid,
             Graph!Settle(val, adj, pwait, zwait),
             \A t \in 0 .. 3 : Closed(t) /\ ~Opened(t)' =>
               t # s /\ val[t] = 0 /\ \A q \in GraphProcs : adj[q][t] = 0
      PROVE  GraphInv'
  <2>1. pwait \in Queues /\ zwait \in NoZeros
    BY DEF GraphKernel
  <2>2. /\ semval' \in Vals /\ semadj' \in Adjs /\ pwait' \in Queues /\ zwait' \in NoZeros
        /\ \A t \in 0 .. 3 : val[t] = 0 =>
             /\ semval'[t] = 0 /\ pwait'[t] = pwait[t]
             /\ \A q \in GraphProcs : semadj'[q][t] = adj[q][t]
    BY <1>8, <2>1, GraphSettles
  <2>3. GraphKernel'
    BY <1>1, <1>2, <1>8, <2>2 DEF GraphKernel
  <2>4. ASSUME NEW t \in 0 .. 3, Closed(t), ~Opened(t)'
        PROVE  /\ Closed(t)'
               /\ \A q \in Workers : \A j \in 1 .. 2 :
                    Makes(q, j, "wait", t) /\ Passed(q, j, t)' => Passed(q, j, t)
    <3>1. t # s /\ val[t] = 0 /\ \A q \in GraphProcs : adj[q][t] = 0
      BY <1>8, <2>4
    <3>2. Closed(t)' /\ pwait'[t] = pwait[t]
      BY <2>2, <3>1 DEF Closed
    <3> QED
      BY <1>2, <1>6, <3>1, <3>2
  <2>5. GraphPermits'
    BY <1>1, <1>4, <2>4, GraphKeeps
  <2> QED
    BY <1>3, <2>3, <2>5
<1>9. /\ semval[s] \in Nat /\ semadj[p] \in [0 .. 3 -> Int] /\ semadj[p][s] \in Int
      /\ semval \in Vals /\ semadj \in Adjs
  <2>1. semadj[p] \in [0 .. 3 -> Int]
    BY <1>2 DEF GraphKernel, Adjs
  <2> QED
    BY <1>1, <2>1 DEF GraphKernel, Vals
<1>10. ASSUME NEW a \in Int
       PROVE  /\ [semadj EXCEPT ![p][s] = a] \in Adjs
              /\ \A t \in 0 .. 3 : t # s /\ Closed(t) =>
                   \A q \in GraphProcs : [semadj EXCEPT ![p][s] = a][q][t] = 0
  <2>1. [semadj[p] EXCEPT ![s] = a] \in [0 .. 3 -> Int]
    BY <1>1, <1>9
  <2>2. \A q \in GraphProcs : [semadj EXCEPT ![p][s] = a][q] =
          IF q = p THEN [semadj[p] EXCEPT ![s] = a] ELSE semadj[q]
    BY <1>2, <1>9 DEF Adjs
  <2>3. \A t \in 0 .. 3 : t # s => [semadj[p] EXCEPT ![s] = a][t] = semadj[p][t]
    BY <1>9
  <2>4. [semadj EXCEPT ![p][s] = a] \in Adjs
    BY <1>2, <1>9, <2>1 DEF Adjs
  <2> QED
    BY <1>2, <2>2, <2>3, <2>4 DEF Closed
<1>11. CASE Makes(p, k, "wait", s) /\ Graph!sysv_semwait(p, semid, s)
  <2>1. CASE semid # setid
    BY <1>7, <1>11, <2>1 DEF Graph!sysv_semwait
  <2>2. CASE semid = setid /\ semval[s] > 0
    <3>1. ~(semid # setid) /\ ~(semid = setid /\ semval[s] = 0)
      BY <1>9, <2>2
    <3>2. Graph!Settle([semval EXCEPT ![s] = semval[s] - 1],
                       [semadj EXCEPT ![p][s] = semadj[p][s] + 1], pwait, zwait)
      BY <1>11, <2>2, <3>1 DEF Graph!sysv_semwait
    <3>3. [semval EXCEPT ![s] = semval[s] - 1] \in Vals
      <4>1. semval[s] - 1 \in Nat
        BY <1>9, <2>2
      <4> QED
        BY <1>9, <4>1 DEF Vals
    <3>4. semadj[p][s] + 1 \in Int
      BY <1>9
    <3>5. ASSUME NEW t \in 0 .. 3, Closed(t), ~Opened(t)'
          PROVE  t # s /\ [semval EXCEPT ![s] = semval[s] - 1][t] = 0
      BY <1>1, <1>9, <2>2, <3>5 DEF Closed, Vals
    <3> DEFINE val == [semval EXCEPT ![s] = semval[s] - 1]
               adj == [semadj EXCEPT ![p][s] = semadj[p][s] + 1]
    <3>6. /\ adj \in Adjs
          /\ \A t \in 0 .. 3 : t # s /\ Closed(t) => \A q \in GraphProcs : adj[q][t] = 0
      BY <1>10, <3>4
    <3>7. val \in Vals /\ Graph!Settle(val, adj, pwait, zwait)
      BY <3>2, <3>3
    <3>8. \A t \in 0 .. 3 : Closed(t) /\ ~Opened(t)' =>
            t # s /\ val[t] = 0 /\ \A q \in GraphProcs : adj[q][t] = 0
      BY <3>5, <3>6
    <3> HIDE DEF val, adj
    <3> QED
      BY <1>8, <2>2, <3>6, <3>7, <3>8
  <2>3. CASE semid = setid /\ semval[s] = 0
    <3>1. ~(semid # setid) /\ ~(semid = setid /\ semval[s] > 0)
      BY <2>3
    <3>2. pwait' = [pwait EXCEPT ![s] = Append(pwait[s], p)]
          /\ UNCHANGED <<semval, semadj, zwait>>
      BY <1>11, <2>3, <3>1 DEF Graph!sysv_semwait
    <3>3. pwait[s] \in Seq(Workers)
      BY <1>1 DEF GraphKernel, Queues
    <3>4. /\ Append(pwait[s], p) \in Seq(Workers)
          /\ ToSet(Append(pwait[s], p)) = ToSet(pwait[s]) \cup {p}
      BY <3>3, AppendFacts
    <3>5. /\ pwait' \in Queues
          /\ \A t \in 0 .. 3 : pwait'[t] = IF t = s THEN Append(pwait[s], p) ELSE pwait[t]
      BY <1>1, <3>2, <3>4 DEF GraphKernel, Queues
    <3>6. GraphKernel'
      BY <1>1, <1>2, <2>3, <3>2, <3>5 DEF GraphKernel
    <3>7. ASSUME NEW t \in 0 .. 3, Closed(t), ~Opened(t)'
          PROVE  /\ Closed(t)'
                 /\ \A q \in Workers : \A j \in 1 .. 2 :
                      Makes(q, j, "wait", t) /\ Passed(q, j, t)' => Passed(q, j, t)
      <4>1. Closed(t)'
        BY <3>2, <3>7 DEF Closed
      <4>2. ToSet(pwait[t]) \subseteq ToSet(pwait'[t]) /\ p \in ToSet(pwait'[s])
        BY <1>1, <3>4, <3>5
      <4>3. ~Passed(p, k, s)'
        <5>1. ip'[p] = k /\ k \in Int
          BY <1>1, <1>5
        <5> QED
          BY <4>2, <5>1 DEF Passed
      <4> QED
        BY <1>2, <1>6, <4>1, <4>2, <4>3
    <3>8. GraphPermits'
      BY <1>1, <1>4, <3>7, GraphKeeps
    <3> QED
      BY <1>3, <3>6, <3>8
  <2> QED
    BY <1>9, <2>1, <2>2, <2>3
<1>12. CASE Makes(p, k, "post", s) /\ Graph!sysv_sempost(p, semid, s)
  <2>1. CASE semid # setid
    BY <1>7, <1>12, <2>1 DEF Graph!sysv_sempost
  <2>2. CASE semid = setid
    <3>1. Graph!Settle([semval EXCEPT ![s] = semval[s] + 1],
                       [semadj EXCEPT ![p][s] = semadj[p][s] - 1], pwait, zwait)
      BY <1>12, <2>2 DEF Graph!sysv_sempost
    <3>2. [semval EXCEPT ![s] = semval[s] + 1] \in Vals
      <4>1. semval[s] + 1 \in Nat
        BY <1>9
      <4> QED
        BY <1>9, <4>1 DEF Vals
    <3>3. semadj[p][s] - 1 \in Int
      BY <1>9
    <3>4. Opened(s)'
      BY <1>1, <1>5, <1>12 DEF Opened, Makes
    <3>5. ASSUME NEW t \in 0 .. 3, Closed(t), ~Opened(t)'
          PROVE  t # s /\ [semval EXCEPT ![s] = semval[s] + 1][t] = 0
      BY <1>1, <1>9, <3>4, <3>5 DEF Closed, Vals
    <3> DEFINE val == [semval EXCEPT ![s] = semval[s] + 1]
               adj == [semadj EXCEPT ![p][s] = semadj[p][s] - 1]
    <3>6. /\ adj \in Adjs
          /\ \A t \in 0 .. 3 : t # s /\ Closed(t) => \A q \in GraphProcs : adj[q][t] = 0
      BY <1>10, <3>3
    <3>7. val \in Vals /\ Graph!Settle(val, adj, pwait, zwait)
      BY <3>1, <3>2
    <3>8. \A t \in 0 .. 3 : Closed(t) /\ ~Opened(t)' =>
            t # s /\ val[t] = 0 /\ \A q \in GraphProcs : adj[q][t] = 0
      BY <3>5, <3>6
    <3> HIDE DEF val, adj
    <3> QED
      BY <1>8, <2>2, <3>6, <3>7, <3>8
  <2> QED
    BY <2>1, <2>2
<1> QED
  BY <1>1, <1>11, <1>12

\* A process that does not sleep has got through its call.
LEMMA GraphReturn ==
  ASSUME GraphInv, program = "graph", NEW p \in Workers, Graph!WorkerReturn(p)
  PROVE  GraphInv'
<1> USE DEF GraphInv
<1>1. /\ p \in calling \ gone /\ calling' = calling \ {p}
      /\ ip' = [ip EXCEPT ![p] = ip[p] + 1]
      /\ UNCHANGED <<setid, lastid, semval, semadj, pwait, zwait, pcM, semid, gone, restarts,
                     created>>
  BY DEF Graph!WorkerReturn, Graph!sysv
<1>2. \A s \in 0 .. 3 : p \notin ToSet(pwait[s])
  BY DEF Graph!WorkerReturn, Graph!Asleep, Graph!ToSet, ToSet
<1>3. /\ ip[p] \in 1 .. 2 /\ ip'[p] = ip[p] + 1 /\ ip[p] + 1 \in 0 .. 3
      /\ \A q \in Workers : q # p => ip'[q] = ip[q]
      /\ ip' \in [Workers -> 0 .. 3] /\ \A q \in Workers : ip[q] \in 0 .. 3
  <2>1. ip[p] \in 1 .. 2 /\ ip \in [Workers -> 0 .. 3]
    BY <1>1 DEF GraphState
  <2>2. ip[p] + 1 \in 0 .. 3
    BY <2>1
  <2> QED
    BY <1>1, <2>1, <2>2
<1>4. GraphKernel'
  BY <1>1 DEF GraphKernel, Closed
<1>5. GraphState'
  <2>1. ip[p] > 0 /\ pcM \notin {"get", "set"} /\ semid # 0
    BY <1>3 DEF GraphState
  <2> QED
    BY <1>1, <1>3, <2>1 DEF GraphState
<1>6. \A q \in Workers : \A k \in 1 .. 2 : Begun(q, k) => Begun(q, k)'
  BY <1>1, <1>3 DEF Begun
<1>7. \A q \in Workers : \A k \in 1 .. 2 : \A s \in 0 .. 3 :
        Passed(q, k, s)' => Passed(q, k, s)
  <2> TAKE q \in Workers
  <2> TAKE k \in 1 .. 2
  <2> TAKE s \in 0 .. 3
  <2>1. CASE q # p
    BY <1>1, <1>3, <2>1 DEF Passed
  <2>2. CASE q = p
    BY <1>1, <1>2, <1>3, <2>2 DEF Passed
  <2> QED
    BY <2>1, <2>2
<1>8. \A s \in 0 .. 3 : Closed(s) => Closed(s)'
  BY <1>1 DEF Closed
<1>9. GraphPermits'
  BY <1>1, <1>6, <1>7, <1>8, GraphKeeps
<1> QED
  BY <1>4, <1>5, <1>9

\* main() makes the set or finds it; nobody exists yet.
LEMMA GraphGet ==
  ASSUME GraphInv, program = "graph", Graph!MainGet
  PROVE  GraphInv'
<1> USE DEF GraphInv
<1>1. /\ pcM = "get" /\ semid' = setid' /\ UNCHANGED <<ip, calling, gone, restarts>>
      /\ \A p \in Workers : ip[p] = 0
  BY DEF Graph!MainGet, GraphState
<1>2. CASE Graph!SemCreate /\ pcM' = "set" /\ created' = TRUE
  <2>1. /\ setid = 0 /\ lastid' = lastid + 1 /\ setid' = lastid + 1
        /\ semval' = [s \in 0 .. 3 |-> 0]
        /\ semadj' = [p \in GraphProcs |-> [s \in 0 .. 3 |-> 0]]
        /\ UNCHANGED <<pwait, zwait>>
    BY <1>2 DEF Graph!SemCreate, Graph!NoAdj
  <2>2. lastid + 1 \in Nat /\ lastid + 1 # 0 /\ lastid + 1 \in 0 .. lastid + 1
    BY DEF GraphKernel
  <2>3. \A s \in 0 .. 3 : Closed(s)'
    BY <2>1 DEF Closed
  <2>4. semval' \in Vals /\ semadj' \in Adjs
    BY <2>1 DEF Vals, Adjs
  <2>5. GraphKernel'
    BY <2>1, <2>2, <2>4 DEF GraphKernel
  <2>6. GraphState'
    BY <1>1, <1>2, <2>1, <2>2 DEF GraphState
  <2>7. \A p \in Workers : \A k \in 1 .. 2 : \A s : ~Passed(p, k, s)'
    BY <1>1 DEF Passed
  <2> QED
    BY <2>3, <2>5, <2>6, <2>7 DEF GraphPermits
<1>3. CASE setid # 0 /\ pcM' = "fork"
           /\ UNCHANGED <<setid, lastid, semval, semadj, pwait, zwait, created>>
  <2>1. ~created
    BY <1>1 DEF GraphState
  <2>2. GraphKernel'
    BY <1>3 DEF GraphKernel, Closed
  <2>3. GraphState'
    BY <1>1, <1>3, <2>1 DEF GraphState, GraphKernel
  <2> QED
    BY <1>3, <2>1, <2>2, <2>3 DEF GraphPermits
<1> QED
  BY <1>2, <1>3 DEF Graph!MainGet, Graph!sysv

\* main() makes all values zero.
LEMMA GraphSetAll ==
  ASSUME GraphInv, program = "graph", Graph!MainSetAll
  PROVE  GraphInv'
<1> USE DEF GraphInv
<1>1. /\ pcM = "set" /\ pcM' = "fork"
      /\ UNCHANGED <<semid, ip, calling, gone, restarts, created, setid, lastid>>
      /\ \A p \in Workers : ip[p] = 0
  BY DEF Graph!MainSetAll, Graph!SemSetAll, GraphState
<1> DEFINE val == [s \in 0 .. 3 |-> 0]
           adj == [p \in GraphProcs |-> [s \in 0 .. 3 |-> 0]]
<1>2. CASE semid = setid
  <2>1. /\ Graph!Settle(val, adj, pwait, zwait) /\ val \in Vals /\ adj \in Adjs
        /\ pwait \in Queues /\ zwait \in NoZeros
    BY <1>2 DEF Graph!MainSetAll, Graph!SemSetAll, Graph!NoAdj, Vals, Adjs, GraphKernel
  <2>2. \A s \in 0 .. 3 : val[s] = 0 /\ \A p \in GraphProcs : adj[p][s] = 0
    OBVIOUS
  <2> HIDE DEF val, adj
  <2>3. /\ semval' \in Vals /\ semadj' \in Adjs /\ pwait' \in Queues /\ zwait' \in NoZeros
        /\ \A s \in 0 .. 3 : val[s] = 0 =>
             /\ semval'[s] = 0 /\ pwait'[s] = pwait[s]
             /\ \A p \in GraphProcs : semadj'[p][s] = adj[p][s]
    BY <2>1, GraphSettles
  <2>4. \A s \in 0 .. 3 : Closed(s)' /\ pwait'[s] = pwait[s]
    BY <2>2, <2>3 DEF Closed
  <2>5. GraphKernel'
    BY <1>1, <2>3, <2>4 DEF GraphKernel
  <2>6. GraphState'
    BY <1>1 DEF GraphState
  <2>7. \A p \in Workers : \A k \in 1 .. 2 : \A s : ~Passed(p, k, s)'
    BY <1>1 DEF Passed
  <2> QED
    BY <2>4, <2>5, <2>6, <2>7 DEF GraphPermits
<1>3. CASE semid # setid
  <2>1. UNCHANGED <<semval, semadj, pwait, zwait>>
    BY <1>3 DEF Graph!MainSetAll, Graph!SemSetAll
  <2>2. GraphKernel'
    BY <1>1, <2>1 DEF GraphKernel, Closed
  <2>3. GraphState'
    BY <1>1 DEF GraphState
  <2>4. (\A s : Closed(s)' = Closed(s)) /\ \A p \in Workers : \A k \in 1 .. 2 : \A s :
           ~Passed(p, k, s)' /\ ~Begun(p, k)
    BY <1>1, <2>1 DEF Passed, Closed, Begun, GraphState
  <2>5. GraphPermits'
    BY <1>1, <2>4, GraphKeeps
  <2> QED
    BY <2>2, <2>3, <2>5
<1> QED
  BY <1>2, <1>3

\* main() creates the next process.
LEMMA GraphFork ==
  ASSUME GraphInv, program = "graph", Graph!MainFork
  PROVE  GraphInv'
<1> USE DEF GraphInv
<1>1. PICK k \in 1 .. Len(Graph!FuncList) :
        /\ \A n \in 1 .. Len(Graph!FuncList) : ip[Graph!FuncList[n]] = 0 <=> n >= k
        /\ ip' = [ip EXCEPT ![Graph!FuncList[k]] = 1]
        /\ pcM' = IF k = Len(Graph!FuncList) THEN "reap" ELSE "fork"
  BY DEF Graph!MainFork
<1>2. PICK p \in Workers : ip[p] = 0 /\ ip' = [ip EXCEPT ![p] = 1]
  <2>1. ip[Graph!FuncList[k]] = 0
    <3>1. k \in Nat
      BY DEF Graph!FuncList
    <3>2. k >= k
      BY <3>1
    <3> QED
      BY <1>1, <3>2
  <2>2. Graph!FuncList[k] \in Workers
    <3>1. k \in 1 .. 5
      BY DEF Graph!FuncList
    <3>2. k = 1 \/ k = 2 \/ k = 3 \/ k = 4 \/ k = 5
      BY <3>1
    <3> QED
      BY <3>2 DEF Graph!FuncList, Workers
  <2> QED
    BY <1>1, <2>1, <2>2
<1>3. /\ pcM = "fork" /\ pcM' \in {"fork", "reap"}
      /\ UNCHANGED <<setid, lastid, semval, semadj, pwait, zwait, semid, calling, gone,
                     restarts, created>>
  BY <1>1 DEF Graph!MainFork, Graph!sysv
<1>4. /\ ip' \in [Workers -> 0 .. 3] /\ ip'[p] = 1 /\ p \notin calling
      /\ \A q \in Workers : q # p => ip'[q] = ip[q]
  <2>1. ip \in [Workers -> 0 .. 3] /\ \A q \in calling : ip[q] \in 1 .. 2
    BY DEF GraphState
  <2>2. p \notin calling
    BY <1>2, <2>1
  <2> QED
    BY <1>2, <2>1, <2>2
<1>5. GraphKernel'
  BY <1>3 DEF GraphKernel, Closed
<1>6. GraphState'
  BY <1>3, <1>4 DEF GraphState
<1>7. \A q \in Workers : \A j \in 1 .. 2 :
        /\ Begun(q, j) => Begun(q, j)'
        /\ \A s : Passed(q, j, s)' => Passed(q, j, s)
  <2> TAKE q \in Workers
  <2> TAKE j \in 1 .. 2
  <2>1. CASE q # p
    BY <1>3, <1>4, <2>1 DEF Begun, Passed
  <2>2. CASE q = p
    BY <1>2, <1>3, <1>4, <2>2 DEF Begun, Passed
  <2> QED
    BY <2>1, <2>2
<1>8. \A s : Closed(s)' = Closed(s)
  BY <1>3 DEF Closed
<1>9. GraphPermits'
  BY <1>3, <1>7, <1>8, GraphKeeps
<1> QED
  BY <1>5, <1>6, <1>9

\* main() removes the set when all processes have ended.
LEMMA GraphReap ==
  ASSUME GraphInv, program = "graph", Graph!MainReap
  PROVE  GraphInv'
<1> USE DEF GraphInv
<1>1. /\ pcM = "reap" /\ pcM' = "end" /\ Workers \subseteq gone /\ lastid' = lastid
      /\ UNCHANGED <<semid, ip, calling, gone, restarts, created>>
      /\ setid' = setid \/ setid' = 0
  BY GraphConstants DEF Graph!MainReap, Graph!sysv_semrm
<1>2. GraphState'
  BY <1>1 DEF GraphState
<1>3. \A p \in Workers : \A k \in 1 .. 2 :
        /\ Begun(p, k) => Begun(p, k)'
        /\ \A s : Passed(p, k, s)' => Passed(p, k, s)
  BY <1>1 DEF Begun, Passed
<1>4. CASE semid = setid
  <2>1. /\ setid' = 0 /\ semval' = [s \in 0 .. 3 |-> 0]
        /\ semadj' = [p \in GraphProcs |-> [s \in 0 .. 3 |-> 0]]
        /\ pwait' = [s \in 0 .. 3 |-> <<>>] /\ zwait' = [s \in 0 .. 3 |-> {}]
    BY <1>4 DEF Graph!MainReap, Graph!sysv_semrm, Graph!NoAdj
  <2>2. <<>> \in Seq(Workers)
    BY EmptySeq
  <2>3. semval' \in Vals /\ semadj' \in Adjs /\ pwait' \in Queues /\ zwait' \in NoZeros
    BY <2>1, <2>2 DEF Vals, Adjs, Queues, NoZeros
  <2>4. \A s \in 0 .. 3 : Closed(s)' /\ pwait'[s] = <<>>
    BY <2>1 DEF Closed
  <2>5. 0 \in 0 .. lastid
    BY DEF GraphKernel
  <2>6. GraphKernel'
    BY <1>1, <2>1, <2>3, <2>4, <2>5 DEF GraphKernel
  <2>7. GraphPermits'
    BY <1>1, <1>3, <2>4, GraphKeeps
  <2> QED
    BY <1>2, <2>1, <2>6, <2>7
<1>5. CASE semid # setid
  <2>1. UNCHANGED <<setid, semval, semadj, pwait, zwait>>
    BY <1>5 DEF Graph!MainReap, Graph!sysv_semrm
  <2>2. GraphKernel'
    BY <1>1, <2>1 DEF GraphKernel, Closed
  <2>3. \A s : Closed(s)' = Closed(s)
    BY <2>1 DEF Closed
  <2>4. GraphPermits'
    BY <1>1, <1>3, <2>3, GraphKeeps
  <2> QED
    BY <1>2, <2>1, <2>2, <2>4
<1> QED
  BY <1>4, <1>5

\* The program is run again.
LEMMA GraphAgain ==
  ASSUME GraphInv, program = "graph", Graph!Restart
  PROVE  GraphInv'
<1> USE DEF GraphInv
<1>1. /\ restarts < MaxRestarts /\ restarts' = restarts + 1 /\ pcM' = "get" /\ semid' = 0
      /\ ip' = [p \in Workers |-> 0] /\ calling' = {} /\ gone' = {} /\ created' = FALSE
      /\ UNCHANGED <<setid, lastid, semval, semadj, pwait, zwait>>
  BY GraphConstants DEF Graph!Restart, Graph!sysv
<1>2. restarts' \in 0 .. MaxRestarts /\ 0 \in 0 .. lastid'
  BY <1>1, GraphConstants DEF GraphState, GraphKernel
<1>3. GraphKernel'
  BY <1>1 DEF GraphKernel, Closed
<1>4. GraphState'
  <2>1. ip' \in [Workers -> 0 .. 3] /\ \A p \in Workers : ip'[p] = 0
    BY <1>1
  <2>2. ~ \E p \in Workers : ip'[p] > 0
    BY <2>1
  <2>3. /\ calling' \subseteq Workers /\ gone' \subseteq GraphProcs
        /\ \A p \in calling' : ip'[p] \in 1 .. 2
    BY <1>1
  <2> QED
    BY <1>1, <1>2, <2>1, <2>2, <2>3 DEF GraphState
<1> QED
  BY <1>1, <1>3, <1>4 DEF GraphPermits

\* Every step of sysv_sem_graph.c keeps its invariant.
LEMMA GraphStep == GraphInv /\ InGraph /\ Graph!Next => GraphInv'
<1> SUFFICES ASSUME GraphInv, InGraph, Graph!Next PROVE GraphInv'
  OBVIOUS
<1>1. /\ program = "graph" /\ Graph!Workers = Workers /\ GraphProcs = Workers \cup {Main}
  BY GraphConstants DEF InGraph
<1>2. CASE Graph!MainStep
  BY <1>1, <1>2, GraphGet, GraphSetAll, GraphFork, GraphReap DEF Graph!MainStep
<1>3. ASSUME NEW p \in Workers, Graph!Worker(p) PROVE GraphInv'
  <2>1. CASE Graph!WorkerExit(p)
    BY <1>1, <2>1, GraphExits DEF Graph!WorkerExit
  <2> QED
    BY <1>1, <1>3, <2>1, GraphCall, GraphReturn DEF Graph!Worker
<1>4. CASE Graph!Failure
  <2>1. CASE Graph!MainForkFail \/ Graph!KillMain
    BY <1>1, <2>1, GraphExits DEF Graph!MainForkFail, Graph!KillMain
  <2>2. CASE \E p \in Workers : Graph!KillWorker(p)
    BY <1>1, <2>2, GraphExits DEF Graph!KillWorker
  <2> QED
    BY <1>1, <1>4, <2>1, <2>2 DEF Graph!Failure
<1> QED
  BY <1>1, <1>2, <1>3, <1>4, GraphAgain DEF Graph!Next

\* What the invariant says of the properties.
LEMMA GraphRight ==
  GraphInv /\ program = "graph" => Graph!TypeOK /\ Graph!GraphOrder
<1> SUFFICES ASSUME GraphInv, program = "graph" PROVE Graph!TypeOK /\ Graph!GraphOrder
  OBVIOUS
<1> USE DEF GraphInv
<1>1. Graph!Workers = Workers /\ GraphProcs = Workers \cup {Main}
  BY GraphConstants
<1>2. Graph!TypeOK
  <2>1. pwait \in [0 .. 3 -> Seq(GraphProcs)]
    <3>1. \A s \in 0 .. 3 : pwait[s] \in Seq(Workers)
      BY DEF GraphKernel, Queues
    <3>2. \A s \in 0 .. 3 : pwait[s] \in Seq(GraphProcs)
      BY <1>1, <3>1, SeqMonotonic
    <3> QED
      BY <3>2 DEF GraphKernel, Queues
  <2>2. zwait \in [0 .. 3 -> SUBSET GraphProcs]
    BY DEF GraphKernel, NoZeros
  <2>3. Graph!SysvTypeOK
    BY <2>1, <2>2 DEF Graph!SysvTypeOK, GraphKernel, Vals, Adjs
  <2>4. \A p \in Workers : ip[p] \in 0 .. Len(Graph!Script[p]) + 1
    <3> TAKE p \in Workers
    <3>1. Len(Graph!Script[p]) = 2 /\ ip[p] \in 0 .. 3
      BY GraphCalls DEF GraphState
    <3> QED
      BY <3>1
  <2> QED
    BY <1>1, <2>3, <2>4 DEF Graph!TypeOK, GraphState
<1>3. ASSUME created PROVE Graph!OrderKept
  <2>1. /\ Makes(B, 1, "wait", 0) /\ Makes(C, 1, "wait", 0) /\ Makes(D, 1, "wait", 2)
        /\ Makes(E, 1, "wait", 1) /\ Makes(E, 2, "wait", 3)
    BY GraphScript DEF Makes, Workers
  <2>2. \A p \in Workers : ip[p] \in 0 .. 3
    BY DEF GraphState
  <2>3. /\ A \in Workers /\ B \in Workers /\ C \in Workers /\ D \in Workers /\ E \in Workers
    BY DEF Workers
  <2>4. ASSUME NEW p \in Workers, NEW k \in 1 .. 2, NEW s \in 0 .. 3,
               Makes(p, k, "wait", s), ip[p] > k
        PROVE  Opened(s)
    BY <1>3, <2>4 DEF GraphPermits, Passed
  <2>5. ASSUME NEW p \in Workers, NEW k \in 1 .. 2, NEW s, Makes(p, k, "post", s)
        PROVE  \/ s = 0 /\ p = A
               \/ s = 1 /\ p = B /\ k = 2
               \/ s = 2 /\ p = C /\ k = 2
               \/ s = 3 /\ p = D /\ k = 2
    <3>1. (p = A \/ p = B \/ p = C \/ p = D \/ p = E) /\ (k = 1 \/ k = 2)
      BY DEF Workers
    <3> QED
      BY <2>5, <3>1, GraphScript DEF Makes
  <2>6. Opened(0) => ip[A] > 1 \/ A \in calling
    BY <2>2, <2>5 DEF Opened, Begun
  <2>7. /\ Opened(1) => Begun(B, 2)
        /\ Opened(2) => Begun(C, 2)
        /\ Opened(3) => Begun(D, 2)
    BY <2>5 DEF Opened
  <2>8. Graph!Entered(B) \/ Graph!Entered(C) => Opened(0)
    BY <2>1, <2>3, <2>4 DEF Graph!Entered
  <2>9. Graph!Entered(D) => Opened(2)
    BY <2>1, <2>3, <2>4 DEF Graph!Entered
  <2>10. Graph!Entered(E) => Opened(1)
    BY <2>1, <2>3, <2>4 DEF Graph!Entered
  <2>11. ip[E] > 2 => Opened(1) /\ Opened(3)
    BY <2>1, <2>2, <2>3, <2>4
  <2> QED
    BY <2>6, <2>7, <2>8, <2>9, <2>10, <2>11
    DEF Graph!OrderKept, Graph!Posted, Graph!Entered, Begun
<1> QED
  BY <1>2, <1>3 DEF Graph!GraphOrder

-----------------------------------------------------------------------------
(* sysv_sem.c and sysv_sem_waitforzero.c                                   *)

\* What the constants of sysv_sem.c and sysv_sem_waitforzero.c are.
LEMMA CriticalConstants ==
  program = "critical" =>
  /\ Critical!Forked = Families /\ RunProcs = Mains \cup Families
  /\ Mains \cap Families = {} /\ Critical!Children = Families \ ZeroWaiters
  /\ Aborters \subseteq Critical!Children /\ ZeroWaiters \subseteq Families
  /\ SemValue \in [Mains -> Nat \ {0}]
  /\ \A m \in Mains : Critical!Family(m) \subseteq Families
  /\ \A S : Critical!Cardinality(S) = Cardinality(S)
  /\ \A s : Critical!ToSet(s) = ToSet(s)
<1>1. Critical!CriticalFits
  BY ProgramsAssumption
<1>2. Critical!Forked = Families
  BY DEF Critical!Forked, Critical!Family, Critical!ToSet, Families
<1>3. \A m \in Mains : Critical!Family(m) \subseteq Critical!Forked
  BY DEF Critical!Forked
<1>4. \A S : Critical!Cardinality(S) = Cardinality(S)
  BY DEF Critical!Cardinality, Cardinality
<1>5. \A s : Critical!ToSet(s) = ToSet(s)
  BY DEF Critical!ToSet, ToSet
<1> QED
  BY <1>1, <1>2, <1>3, <1>4, <1>5 DEF Critical!CriticalFits, Critical!Children, RunProcs

\* Who has an adjustment of one permit.
HoldersIn(adj) == {p \in RunProcs : adj[p][0] = 1}

\* As many processes are served as there are permits and sleepers.
LEMMA CriticalLeast ==
  ASSUME NEW a \in Nat, NEW b \in Nat
  PROVE  /\ Critical!Least(a, b) \in 0 .. b /\ Critical!Least(a, b) <= a
         /\ Critical!Least(a, b) \in Nat
         /\ Critical!Least(a, b) = a \/ Critical!Least(a, b) = b
BY DEF Critical!Least

\* The first n processes of a queue.
FirstOf(s, n) == {s[k] : k \in 1 .. n}

\* The first n of an injective sequence are n members of it.
LEMMA FirstAreMany ==
  ASSUME NEW T, NEW s \in Seq(T), Once(s), NEW n \in 0 .. Len(s)
  PROVE  IsFiniteSet(FirstOf(s, n)) /\ Cardinality(FirstOf(s, n)) = n
<1> DEFINE S == FirstOf(s, n)
           f == [k \in 1 .. n |-> s[k]]
<1>1. Len(s) \in Nat /\ DOMAIN s = 1 .. Len(s)
  BY LenProperties
<1>2. n \in Nat /\ 1 .. n \subseteq 1 .. Len(s)
  BY <1>1
<1>3. f \in [1 .. n -> S] /\ f \in Surjection(1 .. n, S)
  BY DEF Surjection, FirstOf
<1>4. f \in Injection(1 .. n, S)
  BY <1>1, <1>2, <1>3 DEF Injection, IsInjective, Once
<1>5. IsFiniteSet(1 .. n) /\ Cardinality(1 .. n) = n
  <2>1. 1 \in Int /\ n \in Int /\ (IF 1 > n THEN 0 ELSE n - 1 + 1) = n
    BY <1>2
  <2> QED
    BY <2>1, FS_Interval
<1> HIDE DEF f, S
<1>6. IsFiniteSet(S) /\ Cardinality(S) = n
  BY <1>3, <1>4, <1>5, FS_Surjection
<1> QED
  BY <1>6 DEF S

\* Settle hands permits to the first sleepers: permits and holders together
\* stay as many.
LEMMA CriticalSettles ==
  ASSUME program = "critical",
         NEW val \in [{0} -> Nat], NEW adj \in [RunProcs -> [{0} -> {0, 1}]],
         NEW asleep \in [{0} -> Seq(Critical!Children)],
         NEW zasleep \in [{0} -> SUBSET Families],
         Once(asleep[0]), \A p \in ToSet(asleep[0]) : adj[p][0] = 0,
         IsFiniteSet(HoldersIn(adj)),
         Critical!Settle(val, adj, asleep, zasleep)
  PROVE  /\ semval' \in [{0} -> Nat]
         /\ semadj' \in [RunProcs -> [{0} -> {0, 1}]]
         /\ pwait' \in [{0} -> Seq(Critical!Children)]
         /\ zwait' \in [{0} -> SUBSET Families]
         /\ Once(pwait'[0])
         /\ semval'[0] > 0 => pwait'[0] = <<>>
         /\ ToSet(pwait'[0]) \subseteq ToSet(asleep[0])
         /\ \A p \in RunProcs :
              semadj'[p][0] = IF p \in ToSet(asleep[0]) \ ToSet(pwait'[0])
                              THEN 1 ELSE adj[p][0]
         /\ zwait'[0] \subseteq zasleep[0]
         /\ zwait'[0] # zasleep[0] => semval'[0] = 0
         /\ IsFiniteSet(HoldersIn(semadj'))
         /\ semval'[0] + Cardinality(HoldersIn(semadj'))
              = val[0] + Cardinality(HoldersIn(adj))
<1> DEFINE q == asleep[0]
           n == Critical!Least(val[0], Len(q))
           S == {q[k] : k \in 1 .. n}
           b == SubSeq(q, n + 1, Len(q))
           H == HoldersIn(adj)
<1>1. val[0] \in Nat /\ q \in Seq(Critical!Children) /\ Len(q) \in Nat
  <2>1. val[0] \in Nat /\ q \in Seq(Critical!Children)
    OBVIOUS
  <2> QED
    BY <2>1, LenProperties
<1>2. /\ n \in 0 .. Len(q) /\ n <= val[0] /\ n \in Nat
      /\ n = val[0] \/ n = Len(q)
  BY <1>1, CriticalLeast
<1>3. /\ semval' = [s \in {0} |-> val[s] - Critical!Least(val[s], Len(asleep[s]))]
      /\ pwait' = [s \in {0} |->
           SubSeq(asleep[s], Critical!Least(val[s], Len(asleep[s])) + 1, Len(asleep[s]))]
      /\ zwait' = [s \in {0} |->
           IF val[s] = Critical!Least(val[s], Len(asleep[s])) THEN {} ELSE zasleep[s]]
      /\ semadj' = [p \in RunProcs |-> [s \in {0} |->
           adj[p][s] + IF \E k \in 1 .. Critical!Least(val[s], Len(asleep[s])) :
                            asleep[s][k] = p
                       THEN 1 ELSE 0]]
  BY DEF Critical!Settle
<1>4. /\ semval'[0] = val[0] - n
      /\ pwait'[0] = b
      /\ zwait'[0] = IF val[0] = n THEN {} ELSE zasleep[0]
      /\ \A p \in RunProcs :
           semadj'[p][0] = adj[p][0] + IF \E k \in 1 .. n : q[k] = p THEN 1 ELSE 0
  BY <1>3
<1>5. /\ b \in Seq(Critical!Children) /\ Once(b)
      /\ n = Len(q) => b = <<>>
      /\ ToSet(q) = S \cup ToSet(b) /\ S \cap ToSet(b) = {}
  <2> HIDE DEF q, n
  <2> QED
    BY <1>1, <1>2, BehindFacts DEF q
<1>6. IsFiniteSet(S) /\ Cardinality(S) = n
  <2>1. Once(q) /\ S = FirstOf(q, n)
    BY DEF FirstOf
  <2> HIDE DEF n, q, S
  <2>2. q \in Seq(Critical!Children) /\ n \in 0 .. Len(q)
    BY <1>1, <1>2
  <2>3. IsFiniteSet(FirstOf(q, n)) /\ Cardinality(FirstOf(q, n)) = n
    BY <2>1, <2>2, FirstAreMany
  <2> QED
    BY <2>1, <2>3
<1>7. ToSet(q) \subseteq Families /\ ToSet(q) \subseteq RunProcs
  <2>1. ToSet(q) \subseteq Critical!Children
    BY <1>1, LenProperties, ElementOfSeq DEF ToSet
  <2> QED
    BY <2>1, CriticalConstants
<1>8. S \cap H = {} /\ S \subseteq RunProcs
  BY <1>5, <1>7 DEF HoldersIn
<1>9. /\ \A p \in RunProcs : semadj'[p][0] = IF p \in S THEN 1 ELSE adj[p][0]
      /\ \A p \in RunProcs : adj[p][0] \in {0, 1}
  <2>1. \A p \in RunProcs : adj[p][0] \in {0, 1}
    OBVIOUS
  <2>2. \A p \in S : adj[p][0] = 0
    BY <1>5
  <2>3. \A p : p \in S <=> \E k \in 1 .. n : q[k] = p
    OBVIOUS
  <2> HIDE DEF S, n, q
  <2>4. ASSUME NEW p \in RunProcs
        PROVE  semadj'[p][0] = IF p \in S THEN 1 ELSE adj[p][0]
    <3>1. semadj'[p][0] = adj[p][0] + IF p \in S THEN 1 ELSE 0
      BY <1>4, <2>3
    <3> QED
      BY <3>1, <2>1, <2>2
  <2> QED
    BY <2>1, <2>4
<1>10. semadj' \in [RunProcs -> [{0} -> {0, 1}]]
  <2>1. semadj' = [p \in RunProcs |-> [s \in {0} |-> semadj'[p][s]]]
    BY <1>3
  <2>2. \A p \in RunProcs : semadj'[p][0] \in {0, 1}
    BY <1>9
  <2> QED
    BY <2>1, <2>2
<1>11. semval' \in [{0} -> Nat] /\ semval'[0] = val[0] - n
  <2>1. semval' = [s \in {0} |-> semval'[s]]
    BY <1>3
  <2>2. val[0] - n \in Nat
    BY <1>1, <1>2
  <2> HIDE DEF n
  <2> QED
    BY <2>1, <2>2, <1>4
<1>12. pwait' \in [{0} -> Seq(Critical!Children)] /\ pwait'[0] = b
  <2>1. pwait' = [s \in {0} |-> pwait'[s]]
    BY <1>3
  <2> HIDE DEF b
  <2> QED
    BY <2>1, <1>4, <1>5
<1>13. /\ zwait' \in [{0} -> SUBSET Families] /\ zwait'[0] \subseteq zasleep[0]
       /\ zwait'[0] # zasleep[0] => val[0] = n
  <2>1. zwait' = [s \in {0} |-> zwait'[s]]
    BY <1>3
  <2> HIDE DEF n
  <2> QED
    BY <2>1, <1>4
<1> HIDE DEF n, b, S
<1>14. HoldersIn(semadj') = H \cup S
  BY <1>8, <1>9 DEF HoldersIn
<1>15. /\ IsFiniteSet(HoldersIn(semadj'))
       /\ Cardinality(HoldersIn(semadj')) = Cardinality(H) + n
       /\ Cardinality(H) \in Nat
  <2> HIDE DEF H
  <2>1. IsFiniteSet(H)
    BY DEF H
  <2>2. /\ IsFiniteSet(H \cup S)
        /\ Cardinality(H \cup S) = Cardinality(H) + Cardinality(S) - Cardinality(H \cap S)
    BY <2>1, <1>6, FS_Union
  <2>3. Cardinality(H \cap S) = 0
    BY <1>8, FS_EmptySet
  <2>4. Cardinality(H) \in Nat
    BY <2>1, FS_CardinalityType
  <2> QED
    <3>1. Cardinality(H \cup S) = Cardinality(H) + n
      BY <2>2, <2>3, <2>4, <1>6, <1>2
    <3> QED
      BY <3>1, <2>2, <2>4, <1>14
<1>16. semval'[0] + Cardinality(HoldersIn(semadj')) = val[0] + Cardinality(H)
  <2> HIDE DEF H
  <2> QED
    BY <1>1, <1>2, <1>11, <1>15
<1>17. semval'[0] > 0 => pwait'[0] = <<>>
  <2>1. semval'[0] > 0 => n = Len(q)
    BY <1>1, <1>2, <1>11
  <2> QED
    BY <2>1, <1>5, <1>12
<1>18. zwait'[0] # zasleep[0] => semval'[0] = 0
  BY <1>1, <1>2, <1>11, <1>13
<1>19. \A p : p \in S <=> p \in ToSet(q) \ ToSet(pwait'[0])
  BY <1>5, <1>12
<1>20. \A p \in RunProcs :
         semadj'[p][0] = IF p \in ToSet(asleep[0]) \ ToSet(pwait'[0]) THEN 1 ELSE adj[p][0]
  BY <1>9, <1>19
<1>21. Once(pwait'[0]) /\ ToSet(pwait'[0]) \subseteq ToSet(asleep[0])
  BY <1>5, <1>12
<1> QED
  BY <1>10, <1>11, <1>12, <1>13, <1>15, <1>16, <1>17, <1>18, <1>20, <1>21

\* Where the main() of a run and a child can be, and where they have sem_id.
MainPcs == {"create", "attach", "setall", "fork", "failed", "end"}
ChildPcs == {"unborn", "start", "waiting", "section", "exit", "done"}
HaveId == {"setall", "fork", "start", "waiting", "section", "exit"}

\* Nobody sleeps twice, or while there is a permit, or on no semaphore.
CriticalKernel ==
  /\ lastid \in Nat /\ setid \in 0 .. lastid
  /\ semval \in [{0} -> Nat]
  /\ semadj \in [RunProcs -> [{0} -> {0, 1}]]
  /\ pwait \in [{0} -> Seq(Critical!Children)]
  /\ zwait \in [{0} -> SUBSET Families]
  /\ Once(pwait[0])
  /\ semval[0] > 0 => pwait[0] = <<>>
  /\ IsFiniteSet(HoldersIn(semadj))
  /\ setid = 0 => pwait[0] = <<>> /\ zwait[0] = {}

\* Each process is in a state of its function, and knows a semaphore once it
\* needs one.
CriticalState ==
  /\ pc \in [RunProcs -> MainPcs \cup ChildPcs]
  /\ \A m \in Mains : pc[m] \in MainPcs
  /\ \A p \in Families : pc[p] \in ChildPcs
  /\ \A p \in Families : pc[p] = "section" => p \in Critical!Children
  /\ semid \in [RunProcs -> -1 .. lastid]
  /\ value \in Nat
  /\ \A p \in RunProcs : pc[p] \in HaveId => semid[p] # 0

\* Who sleeps and who holds a permit came through the semaphore that exists,
\* and who has got through its wait on it holds a permit.
CriticalHeld ==
  /\ \A p \in ToSet(pwait[0]) :
       pc[p] = "waiting" /\ semid[p] = setid /\ semadj[p][0] = 0
  /\ \A z \in zwait[0] : pc[z] = "waiting" /\ semid[z] = setid /\ z \in ZeroWaiters
  /\ \A p \in RunProcs : semadj[p][0] = 1 =>
       p \in Critical!Children /\ semid[p] = setid /\ pc[p] \in {"waiting", "section"}
  /\ \A p \in Critical!Children :
       /\ semid[p] = setid /\ pc[p] \in {"waiting", "section"}
       /\ p \notin ToSet(pwait[0])
       => semadj[p][0] = 1

\* One main() at most is to set the values of a set, and there is no permit
\* before.
CriticalSum ==
  /\ Critical!Ready => semval[0] + Cardinality(HoldersIn(semadj)) = value
  /\ ~Critical!Ready => semval[0] = 0 /\ HoldersIn(semadj) = {}
  /\ \A m \in Mains : pc[m] = "setall" /\ semid[m] = setid => value = SemValue[m]
  /\ \A m, n \in Mains :
       pc[m] = "setall" /\ pc[n] = "setall" /\ semid[m] = semid[n] => m = n

\* The invariant of the runs of sysv_sem.c and sysv_sem_waitforzero.c.
CriticalInv == CriticalKernel /\ CriticalState /\ CriticalHeld /\ CriticalSum

\* Who waits for zero goes on waiting, or the value is zero, or its process
\* does not get through.
ZeroKept == \A z \in zwait[0] :
              z \in zwait'[0] \/ semval'[0] = 0 \/ pc'[z] # "waiting"

\* At the start there is no semaphore.
LEMMA CriticalInit == program = "critical" /\ Critical!Init => CriticalInv
<1> SUFFICES ASSUME program = "critical", Critical!Init PROVE CriticalInv
  OBVIOUS
<1>1. RunProcs = Mains \cup Families /\ Mains \cap Families = {}
  BY CriticalConstants
<1>2. /\ setid = 0 /\ lastid = 0 /\ value = 0
      /\ semval = [s \in {0} |-> 0] /\ semadj = [p \in RunProcs |-> [s \in {0} |-> 0]]
      /\ pwait = [s \in {0} |-> <<>>] /\ zwait = [s \in {0} |-> {}]
      /\ pc = [p \in RunProcs |-> IF p \in Mains THEN "create" ELSE "unborn"]
      /\ semid = [p \in RunProcs |-> 0]
  BY DEF Critical!Init, Critical!SysvInit, Critical!NoAdj
<1>3. HoldersIn(semadj) = {} /\ IsFiniteSet(HoldersIn(semadj))
  <2>1. HoldersIn(semadj) = {}
    BY <1>2 DEF HoldersIn
  <2> QED
    BY <2>1, FS_EmptySet
<1>4. ToSet(<<>>) = {} /\ Once(<<>>) /\ <<>> \in Seq(Critical!Children)
  BY EmptySeq DEF ToSet, Once
<1>5. CriticalKernel
  BY <1>2, <1>3, <1>4 DEF CriticalKernel
<1>6. CriticalState
  BY <1>1, <1>2 DEF CriticalState, MainPcs, ChildPcs, HaveId
<1>7. CriticalHeld
  <2>1. pwait[0] = <<>> /\ zwait[0] = {} /\ \A p \in RunProcs : semadj[p][0] = 0
    BY <1>2
  <2>2. Critical!Children \subseteq RunProcs
    BY CriticalConstants
  <2>3. \A p \in RunProcs : ~(pc[p] \in {"waiting", "section"})
    BY <1>2
  <2> QED
    BY <2>1, <2>2, <2>3, <1>4 DEF CriticalHeld
<1>8. CriticalSum
  <2>1. ~Critical!Ready /\ \A m \in Mains : pc[m] # "setall"
    BY <1>1, <1>2 DEF Critical!Ready
  <2> QED
    BY <2>1, <1>2, <1>3 DEF CriticalSum
<1> QED
  BY <1>5, <1>6, <1>7, <1>8 DEF CriticalInv

\* A set stays ready or not if nobody begins or ends the initialisation.
LEMMA ReadyStays ==
  ASSUME setid' = setid,
         \A m \in Mains : (pc'[m] = "setall" /\ semid'[m] = setid) <=>
                          (pc[m] = "setall" /\ semid[m] = setid)
  PROVE  Critical!Ready' <=> Critical!Ready
BY DEF Critical!Ready

\* A process goes on, the kernel does nothing.
LEMMA CriticalMoves ==
  ASSUME CriticalInv, program = "critical",
         UNCHANGED <<lastid, setid, semval, semadj, pwait, zwait, value>>,
         NEW p \in RunProcs, NEW l, NEW id \in -1 .. lastid,
         pc' = [pc EXCEPT ![p] = l], semid' = [semid EXCEPT ![p] = id],
         p \in Mains => l \in MainPcs, p \in Families => l \in ChildPcs,
         l = "section" => p \in Critical!Children,
         l # "setall", pc[p] = "setall" => semid[p] # setid,
         l \in HaveId => id # 0,
         p \notin ToSet(pwait[0]), p \notin zwait[0],
         p \in Critical!Children /\ l \in {"waiting", "section"} /\ id = setid =>
           pc[p] = "waiting" /\ id = semid[p],
         semadj[p][0] = 1 => l \in {"waiting", "section"} /\ id = semid[p]
  PROVE  CriticalInv' /\ ZeroKept
<1> USE DEF CriticalInv
<1>1. RunProcs = Mains \cup Families /\ Mains \cap Families = {}
      /\ Critical!Children = Families \ ZeroWaiters
  BY CriticalConstants
<1>2. /\ pc'[p] = l /\ semid'[p] = id
      /\ \A q \in RunProcs : q # p => pc'[q] = pc[q] /\ semid'[q] = semid[q]
      /\ pc' \in [RunProcs -> MainPcs \cup ChildPcs]
      /\ semid' \in [RunProcs -> -1 .. lastid]
  BY <1>1 DEF CriticalState
<1>3. CriticalKernel'
  BY DEF CriticalKernel
<1>4. CriticalState'
  BY <1>1, <1>2 DEF CriticalState
<1>5. CriticalHeld'
  <2>1. /\ \A q \in ToSet(pwait[0]) : q # p /\ q \in RunProcs
        /\ \A q \in zwait[0] : q # p /\ q \in RunProcs
    <3>1. ToSet(pwait[0]) \subseteq Critical!Children /\ zwait[0] \subseteq Families
      BY ElementOfSeq, LenProperties DEF CriticalKernel, ToSet
    <3> QED
      BY <3>1, <1>1
  <2>2. /\ \A q \in ToSet(pwait'[0]) :
             pc'[q] = "waiting" /\ semid'[q] = setid' /\ semadj'[q][0] = 0
        /\ \A z \in zwait'[0] : pc'[z] = "waiting" /\ semid'[z] = setid' /\ z \in ZeroWaiters
    BY <2>1, <1>2 DEF CriticalHeld
  <2>3. \A q \in RunProcs : semadj'[q][0] = 1 =>
          q \in Critical!Children /\ semid'[q] = setid' /\ pc'[q] \in {"waiting", "section"}
    BY <1>2 DEF CriticalHeld
  <2>4. ASSUME NEW q \in Critical!Children, semid'[q] = setid',
               pc'[q] \in {"waiting", "section"}, q \notin ToSet(pwait'[0])
        PROVE  semadj'[q][0] = 1
    BY <2>4, <1>1, <1>2 DEF CriticalHeld
  <2> QED
    BY <2>2, <2>3, <2>4 DEF CriticalHeld
<1>6. \A m \in Mains : /\ pc'[m] = "setall" => pc[m] = "setall" /\ semid'[m] = semid[m]
                       /\ pc[m] = "setall" /\ semid[m] = setid =>
                            pc'[m] = "setall" /\ semid'[m] = semid[m]
  BY <1>1, <1>2
<1>7. CriticalSum'
  <2>1. Critical!Ready' <=> Critical!Ready
    BY <1>6, ReadyStays
  <2> QED
    BY <2>1, <1>6 DEF CriticalSum
<1> QED
  BY <1>3, <1>4, <1>5, <1>7 DEF ZeroKept

\* A sequence of nobody is empty.
LEMMA NobodyInside ==
  ASSUME NEW T, NEW s \in Seq(T), ToSet(s) = {}
  PROVE  s = <<>>
<1>1. Len(s) \in Nat /\ DOMAIN s = 1 .. Len(s)
  BY LenProperties
<1>2. Len(s) = 0
  <2>1. SUFFICES ASSUME Len(s) # 0 PROVE FALSE
    OBVIOUS
  <2>2. 1 \in DOMAIN s
    BY <1>1, <2>1
  <2> QED
    BY <2>2 DEF ToSet
<1> QED
  BY <1>2, EmptySeq

\* The sleepers are children.
LEMMA CriticalSleepers ==
  ASSUME CriticalKernel, program = "critical"
  PROVE  /\ pwait[0] \in Seq(Critical!Children) /\ ToSet(pwait[0]) \subseteq Critical!Children
         /\ Critical!Children \subseteq RunProcs /\ zwait[0] \subseteq Families
         /\ Families \subseteq RunProcs /\ Mains \subseteq RunProcs
         /\ \A p \in RunProcs :
              Critical!Asleep(p) <=> p \in ToSet(pwait[0]) \cup zwait[0]
<1>1. pwait[0] \in Seq(Critical!Children) /\ zwait[0] \subseteq Families
  BY DEF CriticalKernel
<1>2. ToSet(pwait[0]) \subseteq Critical!Children
  BY <1>1, ElementOfSeq, LenProperties DEF ToSet
<1>3. \A p : Critical!Asleep(p) <=> p \in ToSet(pwait[0]) \cup zwait[0]
  BY CriticalConstants DEF Critical!Asleep
<1> QED
  BY <1>1, <1>2, <1>3, CriticalConstants

\* p gives its permit back, if it has one, and does not sleep any more.
LEMMA CriticalReleases ==
  ASSUME CriticalInv, program = "critical", NEW p \in RunProcs, NEW l,
         NEW val \in [{0} -> Nat], NEW adj \in [RunProcs -> [{0} -> {0, 1}]],
         NEW asleep \in [{0} -> Seq(Critical!Children)],
         NEW zasleep \in [{0} -> SUBSET Families],
         val[0] = semval[0] + semadj[p][0],
         \A q \in RunProcs : adj[q][0] = IF q = p THEN 0 ELSE semadj[q][0],
         Once(asleep[0]), ToSet(asleep[0]) = ToSet(pwait[0]) \ {p},
         zasleep[0] = zwait[0] \ {p},
         Critical!Settle(val, adj, asleep, zasleep),
         pc' = [pc EXCEPT ![p] = l], UNCHANGED <<setid, lastid, semid, value>>,
         p \in Mains => l \in MainPcs, p \in Families => l \in ChildPcs,
         pc[p] # "setall", l \notin {"setall", "waiting", "section"},
         l \in HaveId => semid[p] # 0
  PROVE  CriticalInv' /\ ZeroKept
<1> USE DEF CriticalInv
<1> DEFINE H == HoldersIn(semadj)
<1>1. /\ RunProcs = Mains \cup Families /\ Mains \cap Families = {}
      /\ Critical!Children = Families \ ZeroWaiters
  BY CriticalConstants
<1>2. /\ semval[0] \in Nat /\ semadj[p][0] \in {0, 1} /\ IsFiniteSet(H)
      /\ Cardinality(H) \in Nat
  <2>1. IsFiniteSet(H)
    BY DEF CriticalKernel
  <2>2. semval[0] \in Nat /\ semadj[p][0] \in {0, 1}
    BY DEF CriticalKernel
  <2> QED
    BY <2>1, <2>2, FS_CardinalityType
<1>3. /\ HoldersIn(adj) = H \ {p} /\ IsFiniteSet(HoldersIn(adj))
      /\ val[0] + Cardinality(HoldersIn(adj)) = semval[0] + Cardinality(H)
  <2>1. HoldersIn(adj) = H \ {p} /\ (p \in H <=> semadj[p][0] = 1)
    BY DEF HoldersIn
  <2> HIDE DEF H
  <2>2. /\ IsFiniteSet(H \ {p})
        /\ Cardinality(H \ {p}) = IF p \in H THEN Cardinality(H) - 1 ELSE Cardinality(H)
    BY <1>2, FS_RemoveElement
  <2>3. Cardinality(HoldersIn(adj)) + semadj[p][0] = Cardinality(H)
    <3>1. CASE p \in H
      BY <3>1, <2>1, <2>2, <1>2
    <3>2. CASE p \notin H
      <4>1. semadj[p][0] = 0 /\ Cardinality(HoldersIn(adj)) = Cardinality(H)
        BY <3>2, <2>1, <2>2, <1>2
      <4> QED
        BY <4>1, <1>2
    <3> QED
      BY <3>1, <3>2
  <2>4. Cardinality(HoldersIn(adj)) \in Nat
    BY <2>1, <2>2, FS_CardinalityType
  <2> QED
    BY <2>1, <2>2, <2>3, <2>4, <1>2
<1>4. /\ ToSet(asleep[0]) \subseteq RunProcs
      /\ \A q \in ToSet(asleep[0]) : adj[q][0] = 0
  BY CriticalSleepers DEF CriticalHeld
<1>5. /\ semval' \in [{0} -> Nat]
      /\ semadj' \in [RunProcs -> [{0} -> {0, 1}]]
      /\ pwait' \in [{0} -> Seq(Critical!Children)]
      /\ zwait' \in [{0} -> SUBSET Families]
      /\ Once(pwait'[0])
      /\ semval'[0] > 0 => pwait'[0] = <<>>
      /\ ToSet(pwait'[0]) \subseteq ToSet(asleep[0])
      /\ \A q \in RunProcs :
           semadj'[q][0] = IF q \in ToSet(asleep[0]) \ ToSet(pwait'[0])
                           THEN 1 ELSE adj[q][0]
      /\ zwait'[0] \subseteq zasleep[0]
      /\ zwait'[0] # zasleep[0] => semval'[0] = 0
      /\ IsFiniteSet(HoldersIn(semadj'))
      /\ semval'[0] + Cardinality(HoldersIn(semadj'))
           = val[0] + Cardinality(HoldersIn(adj))
  BY <1>3, <1>4, CriticalSettles
<1>6. /\ pc'[p] = l /\ \A q \in RunProcs : q # p => pc'[q] = pc[q]
      /\ pc' \in [RunProcs -> MainPcs \cup ChildPcs]
  BY <1>1 DEF CriticalState
<1>7. CriticalKernel'
  <2>1. setid' = 0 => pwait'[0] = <<>> /\ zwait'[0] = {}
    <3>1. SUFFICES ASSUME setid = 0 PROVE pwait'[0] = <<>> /\ zwait'[0] = {}
      OBVIOUS
    <3>2. ToSet(<<>>) = {}
      BY DEF ToSet
    <3>3. ToSet(pwait'[0]) = {} /\ zwait'[0] = {}
      BY <3>1, <3>2, <1>5 DEF CriticalKernel
    <3> QED
      BY <3>3, <1>5, NobodyInside
  <2>2. HoldersIn(semadj)' = HoldersIn(semadj')
    BY DEF HoldersIn
  <2> QED
    BY <2>1, <2>2, <1>5 DEF CriticalKernel
<1>8. CriticalState'
  BY <1>1, <1>6 DEF CriticalState
<1>9. CriticalHeld'
  <2>1. ASSUME NEW q \in ToSet(pwait'[0])
        PROVE  pc'[q] = "waiting" /\ semid'[q] = setid' /\ semadj'[q][0] = 0
    <3>1. q \in ToSet(pwait[0]) /\ q # p /\ q \in RunProcs
      BY <2>1, <1>4, <1>5
    <3> QED
      BY <2>1, <3>1, <1>5, <1>6 DEF CriticalHeld
  <2>2. ASSUME NEW z \in zwait'[0]
        PROVE  pc'[z] = "waiting" /\ semid'[z] = setid' /\ z \in ZeroWaiters
    <3>1. z \in zwait[0] /\ z # p /\ z \in RunProcs
      BY <2>2, <1>5, CriticalSleepers
    <3> QED
      BY <3>1, <1>6 DEF CriticalHeld
  <2>3. ASSUME NEW q \in RunProcs, semadj'[q][0] = 1
        PROVE  /\ q \in Critical!Children /\ semid'[q] = setid'
               /\ pc'[q] \in {"waiting", "section"}
    <3>1. CASE q \in ToSet(asleep[0])
      <4>1. q \in ToSet(pwait[0]) /\ q # p /\ q \in Critical!Children
        BY <3>1, CriticalSleepers
      <4> QED
        BY <4>1, <1>6 DEF CriticalHeld
    <3>2. CASE q \notin ToSet(asleep[0])
      <4>1. q # p /\ semadj[q][0] = 1
        BY <2>3, <3>2, <1>5
      <4> QED
        BY <4>1, <1>6 DEF CriticalHeld
    <3> QED
      BY <3>1, <3>2
  <2>4. ASSUME NEW q \in Critical!Children, semid'[q] = setid',
               pc'[q] \in {"waiting", "section"}, q \notin ToSet(pwait'[0])
        PROVE  semadj'[q][0] = 1
    <3>1. q \in RunProcs /\ q # p
      BY <2>4, <1>6, CriticalSleepers
    <3>2. CASE q \in ToSet(pwait[0])
      BY <2>4, <3>1, <3>2, <1>5
    <3>3. CASE q \notin ToSet(pwait[0])
      <4>1. semadj[q][0] = 1
        BY <2>4, <3>1, <3>3, <1>6 DEF CriticalHeld
      <4> QED
        BY <4>1, <3>1, <3>3, <1>5
    <3> QED
      BY <3>2, <3>3
  <2> QED
    BY <2>1, <2>2, <2>3, <2>4 DEF CriticalHeld
<1>10. CriticalSum'
  <2>1. \A m \in Mains : /\ pc'[m] = "setall" => pc[m] = "setall"
                         /\ pc[m] = "setall" => pc'[m] = "setall"
    BY <1>1, <1>6
  <2>2. Critical!Ready' <=> Critical!Ready
    BY <2>1, ReadyStays
  <2>3. HoldersIn(semadj)' = HoldersIn(semadj')
    BY DEF HoldersIn
  <2>4. semval'[0] + Cardinality(HoldersIn(semadj')) = semval[0] + Cardinality(H)
    BY <1>3, <1>5
  <2>5. ASSUME ~Critical!Ready PROVE semval'[0] = 0 /\ HoldersIn(semadj') = {}
    <3>1. semval[0] = 0 /\ Cardinality(H) = 0
      BY <2>5, FS_EmptySet DEF CriticalSum
    <3>2. semval'[0] \in Nat /\ Cardinality(HoldersIn(semadj')) \in Nat
      BY <1>5, FS_CardinalityType
    <3> HIDE DEF H
    <3>3. semval'[0] = 0 /\ Cardinality(HoldersIn(semadj')) = 0
      BY <2>4, <3>1, <3>2
    <3> QED
      BY <3>3, <1>5, FS_EmptySet
  <2> QED
    BY <2>1, <2>2, <2>3, <2>4, <2>5 DEF CriticalSum
<1>11. ZeroKept
  BY <1>5, <1>6, CriticalSleepers DEF ZeroKept
<1> QED
  BY <1>7, <1>8, <1>9, <1>10, <1>11

\* The end of a process, however it comes.
LEMMA CriticalExits ==
  ASSUME CriticalInv, program = "critical", NEW p \in RunProcs, NEW l,
         Critical!SemExit(p),
         pc' = [pc EXCEPT ![p] = l], UNCHANGED <<semid, value>>,
         p \in Mains => l \in MainPcs, p \in Families => l \in ChildPcs,
         pc[p] # "setall", l \notin HaveId
  PROVE  CriticalInv' /\ ZeroKept
<1> USE DEF CriticalInv
<1> DEFINE val == [s \in {0} |-> IF semval[s] + semadj[p][s] < 0 THEN 0
                                 ELSE semval[s] + semadj[p][s]]
           adj == [semadj EXCEPT ![p] = [s \in {0} |-> 0]]
           asleep == [s \in {0} |-> Critical!RemoveFirst(pwait[s], p)]
           zasleep == [s \in {0} |-> zwait[s] \ {p}]
<1>1. Critical!Settle(val, adj, asleep, zasleep) /\ UNCHANGED <<setid, lastid>>
  BY DEF Critical!SemExit
<1>2. val \in [{0} -> Nat] /\ val[0] = semval[0] + semadj[p][0]
  <2>1. semval[0] \in Nat /\ semadj[p][0] \in {0, 1}
    BY DEF CriticalKernel
  <2>2. val[0] \in Nat /\ val[0] = semval[0] + semadj[p][0]
    BY <2>1
  <2> QED
    BY <2>2
<1>3. /\ adj \in [RunProcs -> [{0} -> {0, 1}]]
      /\ \A q \in RunProcs : adj[q][0] = IF q = p THEN 0 ELSE semadj[q][0]
  BY DEF CriticalKernel
<1>4. /\ asleep \in [{0} -> Seq(Critical!Children)]
      /\ Once(asleep[0]) /\ ToSet(asleep[0]) = ToSet(pwait[0]) \ {p}
  <2>1. pwait[0] \in Seq(Critical!Children) /\ Once(pwait[0])
    BY DEF CriticalKernel
  <2>2. \A s : Critical!RemoveFirst(s, p) = RemoveFirst(s, p)
    BY DEF Critical!RemoveFirst, RemoveFirst, Critical!RemoveAt, RemoveAt,
           Critical!SelectInSeq, SelectInSeq, Critical!Min, Min
  <2>3. asleep[0] = RemoveFirst(pwait[0], p)
    BY <2>2
  <2>4. /\ RemoveFirst(pwait[0], p) \in Seq(Critical!Children)
        /\ ToSet(RemoveFirst(pwait[0], p)) \subseteq ToSet(pwait[0])
        /\ ToSet(pwait[0]) \ {p} \subseteq ToSet(RemoveFirst(pwait[0], p))
        /\ Once(RemoveFirst(pwait[0], p)) /\ p \notin ToSet(RemoveFirst(pwait[0], p))
    BY <2>1, RemoveFacts
  <2>5. asleep \in [{0} -> Seq(Critical!Children)]
    BY <2>2, <2>4
  <2> HIDE DEF asleep
  <2> QED
    BY <2>3, <2>4, <2>5
<1>5. zasleep \in [{0} -> SUBSET Families] /\ zasleep[0] = zwait[0] \ {p}
  BY DEF CriticalKernel
<1>6. l \notin {"setall", "waiting", "section"} /\ (l \in HaveId => semid[p] # 0)
  BY DEF HaveId
<1> HIDE DEF val, adj, asleep, zasleep
<1> QED
  BY <1>1, <1>2, <1>3, <1>4, <1>5, <1>6, CriticalReleases

\* The post of a child that came through the semaphore that exists does the
\* same to it.
LEMMA CriticalPosts ==
  ASSUME CriticalInv, program = "critical", NEW p \in Families, Critical!SectionPost(p),
         p \in Critical!Children
  PROVE  CriticalInv' /\ ZeroKept
<1> USE DEF CriticalInv
<1>1. /\ pc[p] = "section" /\ pc' = [pc EXCEPT ![p] = "exit"]
      /\ UNCHANGED <<semid, value, setid, lastid>>
      /\ Critical!sysv_sempost(p, semid[p], 0)
  BY DEF Critical!SectionPost, Critical!Goto, Critical!sysv_sempost
<1>2. /\ p \in RunProcs /\ p \notin Mains /\ p \notin ToSet(pwait[0]) /\ p \notin zwait[0]
      /\ semid[p] # 0 /\ semid[p] \in -1 .. lastid
  BY <1>1, CriticalConstants DEF CriticalHeld, CriticalState, HaveId
<1>3. CASE semid[p] = setid
  <2> DEFINE val == [semval EXCEPT ![0] = @ + 1]
             adj == [semadj EXCEPT ![p][0] = @ - 1]
  <2>1. Critical!Settle(val, adj, pwait, zwait)
    BY <1>1, <1>3 DEF Critical!sysv_sempost
  <2>2. semadj[p][0] = 1 /\ semval[0] \in Nat
    BY <1>1, <1>2, <1>3 DEF CriticalHeld, CriticalKernel
  <2>3. val \in [{0} -> Nat] /\ val[0] = semval[0] + semadj[p][0]
    BY <2>2 DEF CriticalKernel
  <2>4. /\ adj \in [RunProcs -> [{0} -> {0, 1}]]
        /\ \A q \in RunProcs : adj[q][0] = IF q = p THEN 0 ELSE semadj[q][0]
    <3>1. semadj[p][0] - 1 = 0
      BY <2>2
    <3> QED
      BY <3>1, <1>2 DEF CriticalKernel
  <2>5. /\ pwait \in [{0} -> Seq(Critical!Children)] /\ Once(pwait[0])
        /\ zwait \in [{0} -> SUBSET Families]
        /\ ToSet(pwait[0]) = ToSet(pwait[0]) \ {p} /\ zwait[0] = zwait[0] \ {p}
    BY <1>2 DEF CriticalKernel
  <2>6. "exit" \notin {"setall", "waiting", "section"} /\ "exit" \in ChildPcs
    BY DEF ChildPcs
  <2> HIDE DEF val, adj
  <2> QED
    BY <1>1, <1>2, <2>1, <2>3, <2>4, <2>5, <2>6, CriticalReleases
<1>4. CASE semid[p] # setid
  <2>1. UNCHANGED <<semval, semadj, pwait, zwait>>
    BY <1>1, <1>4 DEF Critical!sysv_sempost
  <2>2. semadj[p][0] # 1
    BY <1>2, <1>4 DEF CriticalHeld
  <2>3. semid' = [semid EXCEPT ![p] = semid[p]]
    BY <1>1, <1>2 DEF CriticalState
  <2>4. "exit" \in ChildPcs
    BY DEF ChildPcs
  <2> QED
    BY <1>1, <1>2, <1>4, <2>1, <2>2, <2>3, <2>4, CriticalMoves
<1> QED
  BY <1>3, <1>4

\* The first run makes the set: nobody has its identifier yet.
LEMMA CriticalCreates ==
  ASSUME CriticalInv, program = "critical", NEW m \in Mains, pc[m] = "create",
         Critical!SemCreate, semid' = [semid EXCEPT ![m] = setid'],
         value' = SemValue[m], pc' = [pc EXCEPT ![m] = "setall"]
  PROVE  CriticalInv' /\ ZeroKept
<1> USE DEF CriticalInv
<1>1. /\ RunProcs = Mains \cup Families /\ Mains \cap Families = {}
      /\ Critical!Children = Families \ ZeroWaiters /\ SemValue[m] \in Nat
  BY CriticalConstants
<1>2. /\ setid = 0 /\ lastid' = lastid + 1 /\ setid' = lastid + 1 /\ lastid \in Nat
      /\ semval' = [s \in {0} |-> 0]
      /\ semadj' = [p \in RunProcs |-> [s \in {0} |-> 0]]
      /\ UNCHANGED <<pwait, zwait>> /\ pwait[0] = <<>> /\ zwait[0] = {}
  BY DEF Critical!SemCreate, Critical!NoAdj, CriticalKernel
<1>3. /\ semid' \in [RunProcs -> -1 .. lastid + 1] /\ semid'[m] = setid'
      /\ \A q \in RunProcs : q # m => semid'[q] = semid[q] /\ semid'[q] # setid'
      /\ pc'[m] = "setall" /\ \A q \in RunProcs : q # m => pc'[q] = pc[q]
      /\ pc' \in [RunProcs -> MainPcs \cup ChildPcs]
  <2>1. \A q \in RunProcs : semid[q] \in -1 .. lastid + 1 /\ semid[q] # lastid + 1
    BY <1>2 DEF CriticalState
  <2>2. lastid + 1 \in -1 .. lastid + 1
    BY <1>2
  <2> QED
    BY <2>1, <2>2, <1>1, <1>2 DEF CriticalState, MainPcs
<1>4. HoldersIn(semadj') = {} /\ HoldersIn(semadj)' = HoldersIn(semadj')
  BY <1>2 DEF HoldersIn
<1>5. ToSet(pwait'[0]) = {} /\ Once(pwait'[0])
  BY <1>2 DEF ToSet, Once
<1>6. CriticalKernel'
  <2>1. lastid + 1 \in Nat /\ setid' \in 0 .. lastid + 1 /\ setid' # 0
    BY <1>2
  <2> QED
    BY <2>1, <1>2, <1>4, <1>5, FS_EmptySet DEF CriticalKernel
<1>7. CriticalState'
  <2>1. setid' # 0
    BY <1>2
  <2> QED
    BY <2>1, <1>1, <1>2, <1>3 DEF CriticalState, MainPcs
<1>8. CriticalHeld'
  <2>1. \A q \in RunProcs : semadj'[q][0] = 0
    BY <1>2
  <2>2. zwait'[0] = {}
    BY <1>2
  <2>3. \A q \in Critical!Children : q \in RunProcs /\ q # m
    BY <1>1
  <2> QED
    BY <2>1, <2>2, <2>3, <1>3, <1>5 DEF CriticalHeld
<1>9. CriticalSum'
  <2>1. ~Critical!Ready'
    BY <1>3 DEF Critical!Ready
  <2>2. semval'[0] = 0
    BY <1>2
  <2>3. \A a, b \in Mains : /\ pc'[a] = "setall" /\ semid'[a] = setid' => a = m
                            /\ pc'[a] = "setall" /\ pc'[b] = "setall"
                                 /\ semid'[a] = semid'[b] => a = b
    BY <1>1, <1>3 DEF CriticalSum
  <2> QED
    BY <2>1, <2>2, <2>3, <1>4 DEF CriticalSum
<1> QED
  BY <1>2, <1>6, <1>7, <1>8, <1>9 DEF ZeroKept

\* The run that made the set gives it its permits; some may be waited for.
LEMMA CriticalSets ==
  ASSUME CriticalInv, program = "critical", NEW m \in Mains, Critical!MainSetAll(m)
  PROVE  CriticalInv' /\ ZeroKept
<1> USE DEF CriticalInv
<1>1. /\ RunProcs = Mains \cup Families /\ Mains \cap Families = {}
      /\ Critical!Children = Families \ ZeroWaiters /\ SemValue[m] \in Nat
  BY CriticalConstants
<1>2. /\ pc[m] = "setall" /\ pc' = [pc EXCEPT ![m] = "fork"]
      /\ UNCHANGED <<semid, value, setid, lastid>>
      /\ Critical!SemSetAll(semid[m], SemValue[m])
      /\ semid[m] # 0 /\ semid[m] \in -1 .. lastid /\ m \in RunProcs
  BY <1>1 DEF Critical!MainSetAll, Critical!Goto, Critical!SemSetAll, CriticalState, HaveId
<1>3. CASE semid[m] # setid
  <2>1. UNCHANGED <<semval, semadj, pwait, zwait>>
    BY <1>2, <1>3 DEF Critical!SemSetAll
  <2>2. semid' = [semid EXCEPT ![m] = semid[m]]
    BY <1>2 DEF CriticalState
  <2>3. m \notin ToSet(pwait[0]) /\ m \notin zwait[0] /\ semadj[m][0] # 1
        /\ m \notin Critical!Children /\ m \notin Families
    BY <1>1, <1>2, CriticalSleepers DEF CriticalHeld
  <2>4. "fork" \in MainPcs
    BY DEF MainPcs
  <2> QED
    BY <1>2, <1>3, <2>1, <2>2, <2>3, <2>4, CriticalMoves
<1>4. CASE semid[m] = setid
  <2> DEFINE val == [s \in {0} |-> SemValue[m]]
             adj == [p \in RunProcs |-> [s \in {0} |-> 0]]
  <2>1. Critical!Settle(val, adj, pwait, zwait)
    BY <1>2, <1>4 DEF Critical!SemSetAll, Critical!NoAdj
  <2>2. /\ val \in [{0} -> Nat] /\ adj \in [RunProcs -> [{0} -> {0, 1}]]
        /\ val[0] = SemValue[m] /\ \A p \in RunProcs : adj[p][0] = 0
    BY <1>1
  <2>3. /\ pwait \in [{0} -> Seq(Critical!Children)] /\ zwait \in [{0} -> SUBSET Families]
        /\ Once(pwait[0])
    BY DEF CriticalKernel
  <2> HIDE DEF val, adj
  <2>4. HoldersIn(adj) = {} /\ IsFiniteSet(HoldersIn(adj)) /\ Cardinality(HoldersIn(adj)) = 0
    <3>1. HoldersIn(adj) = {}
      BY <2>2 DEF HoldersIn
    <3> QED
      BY <3>1, FS_EmptySet
  <2>5. \A p \in ToSet(pwait[0]) : p \in RunProcs /\ adj[p][0] = 0
    BY <2>2, CriticalSleepers
  <2>6. ~Critical!Ready /\ \A p \in RunProcs : semadj[p][0] # 1
    <3>1. ~Critical!Ready
      BY <1>2, <1>4 DEF Critical!Ready
    <3>2. HoldersIn(semadj) = {}
      BY <3>1 DEF CriticalSum
    <3> QED
      BY <3>1, <3>2 DEF HoldersIn
  <2>7. /\ semval' \in [{0} -> Nat]
        /\ semadj' \in [RunProcs -> [{0} -> {0, 1}]]
        /\ pwait' \in [{0} -> Seq(Critical!Children)]
        /\ zwait' \in [{0} -> SUBSET Families]
        /\ Once(pwait'[0])
        /\ semval'[0] > 0 => pwait'[0] = <<>>
        /\ ToSet(pwait'[0]) \subseteq ToSet(pwait[0])
        /\ \A p \in RunProcs :
             semadj'[p][0] = IF p \in ToSet(pwait[0]) \ ToSet(pwait'[0])
                             THEN 1 ELSE adj[p][0]
        /\ zwait'[0] \subseteq zwait[0]
        /\ zwait'[0] # zwait[0] => semval'[0] = 0
        /\ IsFiniteSet(HoldersIn(semadj'))
        /\ semval'[0] + Cardinality(HoldersIn(semadj'))
             = val[0] + Cardinality(HoldersIn(adj))
    <3>1. \A p \in ToSet(pwait[0]) : adj[p][0] = 0
      BY <2>5
    <3> QED
      BY <2>1, <2>2, <2>3, <2>4, <3>1, CriticalSettles
  <2>8. /\ pc'[m] = "fork" /\ \A q \in RunProcs : q # m => pc'[q] = pc[q]
        /\ pc' \in [RunProcs -> MainPcs \cup ChildPcs]
    BY <1>1, <1>2 DEF CriticalState, MainPcs
  <2>9. /\ \A p \in Critical!Children : p # m /\ p \in RunProcs
        /\ ToSet(pwait[0]) \subseteq Critical!Children
        /\ \A z \in zwait[0] : z # m /\ z \in RunProcs
    BY <1>1, CriticalSleepers
  <2>10. HoldersIn(semadj)' = HoldersIn(semadj')
    BY DEF HoldersIn
  <2>11. CriticalKernel'
    <3>1. setid' # 0
      BY <1>2, <1>4
    <3> QED
      BY <3>1, <1>2, <2>7, <2>10 DEF CriticalKernel
  <2>12. CriticalState'
    BY <1>1, <1>2, <2>8 DEF CriticalState, MainPcs
  <2>13. CriticalHeld'
    <3>1. ASSUME NEW q \in ToSet(pwait'[0])
          PROVE  pc'[q] = "waiting" /\ semid'[q] = setid' /\ semadj'[q][0] = 0
      <4>1. q \in ToSet(pwait[0]) /\ q # m /\ q \in RunProcs
        BY <3>1, <2>7, <2>9
      <4> QED
        BY <3>1, <4>1, <1>2, <2>2, <2>7, <2>8 DEF CriticalHeld
    <3>2. ASSUME NEW z \in zwait'[0]
          PROVE  pc'[z] = "waiting" /\ semid'[z] = setid' /\ z \in ZeroWaiters
      BY <3>2, <1>2, <2>7, <2>8, <2>9 DEF CriticalHeld
    <3>3. ASSUME NEW q \in RunProcs, semadj'[q][0] = 1
          PROVE  /\ q \in Critical!Children /\ semid'[q] = setid'
                 /\ pc'[q] \in {"waiting", "section"}
      <4>1. q \in ToSet(pwait[0])
        BY <3>3, <2>2, <2>7
      <4> QED
        BY <4>1, <1>2, <2>8, <2>9 DEF CriticalHeld
    <3>4. ASSUME NEW q \in Critical!Children, semid'[q] = setid',
                 pc'[q] \in {"waiting", "section"}, q \notin ToSet(pwait'[0])
          PROVE  semadj'[q][0] = 1
      <4>1. q \in RunProcs /\ q # m
        BY <2>9
      <4>2. q \in ToSet(pwait[0])
        BY <3>4, <4>1, <1>2, <2>6, <2>8 DEF CriticalHeld
      <4> QED
        BY <3>4, <4>1, <4>2, <2>7
    <3> QED
      BY <3>1, <3>2, <3>3, <3>4 DEF CriticalHeld
  <2>14. CriticalSum'
    <3>1. value' = SemValue[m] /\ value' \in Nat
      BY <1>1, <1>2, <1>4 DEF CriticalSum
    <3>2. semval'[0] + Cardinality(HoldersIn(semadj')) = value'
      BY <3>1, <2>2, <2>4, <2>7
    <3>3. \A a \in Mains : pc'[a] = "setall" => a # m /\ pc[a] = "setall"
      BY <1>1, <2>8
    <3>4. \A a \in Mains : ~(pc'[a] = "setall" /\ semid'[a] = setid')
      BY <3>3, <1>2, <1>4 DEF CriticalSum
    <3>5. Critical!Ready'
      BY <3>4, <1>2, <1>4 DEF Critical!Ready
    <3>6. \A a, b \in Mains :
            pc'[a] = "setall" /\ pc'[b] = "setall" /\ semid'[a] = semid'[b] => a = b
      BY <3>3, <1>2 DEF CriticalSum
    <3> QED
      BY <3>2, <3>4, <3>5, <3>6, <2>10 DEF CriticalSum
  <2>15. ZeroKept
    BY <2>7 DEF ZeroKept
  <2> QED
    BY <2>11, <2>12, <2>13, <2>14, <2>15
<1> QED
  BY <1>3, <1>4

\* A run removes the set, or one that is gone already.
LEMMA CriticalRemoves ==
  ASSUME CriticalInv, program = "critical", NEW m \in Mains, Critical!MainReap(m)
  PROVE  CriticalInv' /\ ZeroKept
<1> USE DEF CriticalInv
<1>1. /\ RunProcs = Mains \cup Families /\ Mains \cap Families = {}
      /\ Critical!Children = Families \ ZeroWaiters
  BY CriticalConstants
<1>2. /\ pc[m] = "fork" /\ pc' = [pc EXCEPT ![m] = "end"]
      /\ UNCHANGED <<semid, value, lastid>>
      /\ Critical!sysv_semrm(semid[m])
      /\ semid[m] # 0 /\ semid[m] \in -1 .. lastid /\ m \in RunProcs
  BY <1>1 DEF Critical!MainReap, Critical!Goto, Critical!sysv_semrm, CriticalState, HaveId
<1>3. "end" \in MainPcs /\ "end" \notin HaveId
  BY DEF MainPcs, HaveId
<1>4. CASE semid[m] # setid
  <2>1. UNCHANGED <<setid, semval, semadj, pwait, zwait>>
    BY <1>2, <1>4 DEF Critical!sysv_semrm
  <2>2. semid' = [semid EXCEPT ![m] = semid[m]]
    BY <1>2 DEF CriticalState
  <2>3. m \notin ToSet(pwait[0]) /\ m \notin zwait[0] /\ semadj[m][0] # 1
        /\ m \notin Critical!Children /\ m \notin Families
    BY <1>1, <1>2, CriticalSleepers DEF CriticalHeld
  <2> QED
    BY <1>2, <1>3, <1>4, <2>1, <2>2, <2>3, CriticalMoves
<1>5. CASE semid[m] = setid
  <2>1. /\ setid' = 0 /\ semval' = [s \in {0} |-> 0]
        /\ semadj' = [p \in RunProcs |-> [s \in {0} |-> 0]]
        /\ pwait' = [s \in {0} |-> <<>>] /\ zwait' = [s \in {0} |-> {}]
    BY <1>2, <1>5 DEF Critical!sysv_semrm, Critical!NoAdj
  <2>2. /\ pc'[m] = "end" /\ \A q \in RunProcs : q # m => pc'[q] = pc[q]
        /\ pc' \in [RunProcs -> MainPcs \cup ChildPcs]
    BY <1>1, <1>2, <1>3 DEF CriticalState
  <2>3. HoldersIn(semadj') = {} /\ HoldersIn(semadj)' = HoldersIn(semadj')
    BY <2>1 DEF HoldersIn
  <2>4. ToSet(<<>>) = {} /\ Once(<<>>) /\ <<>> \in Seq(Critical!Children)
    BY EmptySeq DEF ToSet, Once
  <2>5. CriticalKernel'
    <3>1. /\ lastid' \in Nat /\ setid' \in 0 .. lastid' /\ semval'[0] = 0
          /\ pwait'[0] = <<>> /\ zwait'[0] = {}
      BY <1>2, <2>1 DEF CriticalKernel
    <3>2. semval' \in [{0} -> Nat] /\ semadj' \in [RunProcs -> [{0} -> {0, 1}]]
      BY <2>1
    <3>3. /\ pwait' \in [{0} -> Seq(Critical!Children)]
          /\ zwait' \in [{0} -> SUBSET Families]
      BY <2>1, <2>4
    <3>4. IsFiniteSet(HoldersIn(semadj)')
      BY <2>3, FS_EmptySet
    <3> QED
      BY <3>1, <3>2, <3>3, <3>4, <2>4 DEF CriticalKernel
  <2>6. CriticalState'
    BY <1>1, <1>2, <1>3, <2>2 DEF CriticalState
  <2>7. CriticalHeld'
    <3>1. pwait'[0] = <<>> /\ zwait'[0] = {} /\ \A q \in RunProcs : semadj'[q][0] = 0
      BY <2>1
    <3>2. ASSUME NEW q \in Critical!Children, pc'[q] \in {"waiting", "section"}
          PROVE  semid'[q] # setid'
      <4>1. q \in RunProcs /\ q # m
        BY <1>1
      <4> QED
        BY <3>2, <4>1, <1>2, <2>1, <2>2 DEF CriticalState, HaveId
    <3> QED
      BY <3>1, <3>2, <2>4 DEF CriticalHeld
  <2>8. CriticalSum'
    <3>1. ~Critical!Ready' /\ semval'[0] = 0
      BY <2>1 DEF Critical!Ready
    <3>2. \A a \in Mains : pc'[a] = "setall" =>
            pc[a] = "setall" /\ semid'[a] = semid[a] /\ semid[a] # 0
      BY <1>1, <1>2, <2>2 DEF CriticalState, HaveId
    <3>3. \A a \in Mains : ~(pc'[a] = "setall" /\ semid'[a] = setid')
      BY <3>2, <2>1
    <3>4. \A a, b \in Mains :
            pc'[a] = "setall" /\ pc'[b] = "setall" /\ semid'[a] = semid'[b] => a = b
      BY <3>2 DEF CriticalSum
    <3> QED
      BY <3>1, <3>3, <3>4, <2>3 DEF CriticalSum
  <2> QED
    BY <2>1, <2>5, <2>6, <2>7, <2>8 DEF ZeroKept
<1> QED
  BY <1>4, <1>5

\* A child takes a permit, sleeps until there is one, or its semaphore is gone.
LEMMA CriticalWaits ==
  ASSUME CriticalInv, program = "critical", NEW p \in Families, Critical!SectionWait(p)
  PROVE  CriticalInv' /\ ZeroKept
<1> USE DEF CriticalInv
<1>1. /\ RunProcs = Mains \cup Families /\ Mains \cap Families = {}
      /\ Critical!Children = Families \ ZeroWaiters
  BY CriticalConstants
<1>2. /\ pc[p] = "start" /\ pc' = [pc EXCEPT ![p] = "waiting"] /\ p \in Critical!Children
      /\ UNCHANGED <<semid, value, setid, lastid>>
      /\ Critical!sysv_semwait(p, semid[p], 0)
      /\ semid[p] # 0 /\ semid[p] \in -1 .. lastid /\ p \in RunProcs
  BY <1>1 DEF Critical!SectionWait, Critical!Goto, Critical!sysv_semwait, CriticalState, HaveId
<1>3. /\ p \notin ToSet(pwait[0]) /\ p \notin zwait[0] /\ semadj[p][0] = 0
      /\ semval[0] \in Nat /\ p \notin Mains /\ "waiting" \in ChildPcs
  <2>1. semadj[p][0] \in {0, 1} /\ semadj[p][0] # 1
    BY <1>2 DEF CriticalKernel, CriticalHeld
  <2>2. semval[0] \in Nat
    BY DEF CriticalKernel
  <2> QED
    BY <2>1, <2>2, <1>1, <1>2 DEF CriticalHeld, ChildPcs
<1>4. /\ pc'[p] = "waiting" /\ \A q \in RunProcs : q # p => pc'[q] = pc[q]
      /\ pc' \in [RunProcs -> MainPcs \cup ChildPcs]
  BY <1>1, <1>2, <1>3 DEF CriticalState
<1>5. CriticalState'
  BY <1>1, <1>2, <1>3, <1>4 DEF CriticalState
<1>6. CASE semid[p] # setid
  <2>1. UNCHANGED <<semval, semadj, pwait, zwait>>
    BY <1>2, <1>6 DEF Critical!sysv_semwait
  <2>2. semid' = [semid EXCEPT ![p] = semid[p]]
    BY <1>2 DEF CriticalState
  <2>3. semadj[p][0] # 1
    BY <1>3
  <2> QED
    BY <1>2, <1>3, <1>6, <2>1, <2>2, <2>3, CriticalMoves
<1>7. CASE semid[p] = setid /\ semval[0] > 0
  <2> DEFINE val == [semval EXCEPT ![0] = @ - 1]
             adj == [semadj EXCEPT ![p][0] = @ + 1]
             H == HoldersIn(semadj)
  <2>1. Critical!Settle(val, adj, pwait, zwait)
    <3>1. semid[p] = setid /\ semval[0] > 0 /\ ~(semid[p] # setid) /\ semval[0] # 0
      BY <1>7, <1>3
    <3> QED
      BY <3>1, <1>2 DEF Critical!sysv_semwait
  <2>2. /\ val \in [{0} -> Nat] /\ val[0] = semval[0] - 1
        /\ pwait[0] = <<>>
    BY <1>3, <1>7 DEF CriticalKernel
  <2>3. /\ adj \in [RunProcs -> [{0} -> {0, 1}]]
        /\ \A q \in RunProcs : adj[q][0] = IF q = p THEN 1 ELSE semadj[q][0]
    <3>1. semadj[p][0] + 1 = 1
      BY <1>3
    <3> QED
      BY <3>1, <1>2 DEF CriticalKernel
  <2>4. /\ pwait \in [{0} -> Seq(Critical!Children)] /\ zwait \in [{0} -> SUBSET Families]
        /\ Once(pwait[0]) /\ IsFiniteSet(H)
    BY DEF CriticalKernel
  <2>5. ToSet(pwait[0]) = {}
    BY <2>2 DEF ToSet
  <2> HIDE DEF val, adj
  <2>6. HoldersIn(adj) = H \cup {p} /\ p \notin H
    BY <2>3, <1>2, <1>3 DEF HoldersIn
  <2>7. /\ IsFiniteSet(HoldersIn(adj)) /\ Cardinality(H) \in Nat
        /\ Cardinality(HoldersIn(adj)) = Cardinality(H) + 1
    <3> HIDE DEF H
    <3> QED
      BY <2>4, <2>6, FS_AddElement, FS_CardinalityType
  <2>8. \A q \in ToSet(pwait[0]) : adj[q][0] = 0
    BY <2>5
  <2>9. /\ semval' \in [{0} -> Nat]
        /\ semadj' \in [RunProcs -> [{0} -> {0, 1}]]
        /\ pwait' \in [{0} -> Seq(Critical!Children)]
        /\ zwait' \in [{0} -> SUBSET Families]
        /\ Once(pwait'[0])
        /\ semval'[0] > 0 => pwait'[0] = <<>>
        /\ ToSet(pwait'[0]) \subseteq ToSet(pwait[0])
        /\ \A q \in RunProcs :
             semadj'[q][0] = IF q \in ToSet(pwait[0]) \ ToSet(pwait'[0])
                             THEN 1 ELSE adj[q][0]
        /\ zwait'[0] \subseteq zwait[0]
        /\ zwait'[0] # zwait[0] => semval'[0] = 0
        /\ IsFiniteSet(HoldersIn(semadj'))
        /\ semval'[0] + Cardinality(HoldersIn(semadj'))
             = val[0] + Cardinality(HoldersIn(adj))
    BY <2>1, <2>2, <2>3, <2>4, <2>7, <2>8, CriticalSettles
  <2>10. HoldersIn(semadj)' = HoldersIn(semadj')
    BY DEF HoldersIn
  <2>11. ToSet(pwait'[0]) = {} /\ \A q \in RunProcs : semadj'[q][0] = adj[q][0]
    BY <2>5, <2>9
  <2>12. CriticalKernel'
    <3>1. setid' # 0
      BY <1>2, <1>7
    <3> QED
      BY <3>1, <1>2, <2>9, <2>10 DEF CriticalKernel
  <2>13. CriticalHeld'
    <3>1. ASSUME NEW z \in zwait'[0]
          PROVE  pc'[z] = "waiting" /\ semid'[z] = setid' /\ z \in ZeroWaiters
      <4>1. z \in zwait[0] /\ z # p /\ z \in RunProcs
        BY <3>1, <2>9, <1>3, CriticalSleepers
      <4> QED
        BY <4>1, <1>2, <1>4 DEF CriticalHeld
    <3>2. ASSUME NEW q \in RunProcs, semadj'[q][0] = 1
          PROVE  /\ q \in Critical!Children /\ semid'[q] = setid'
                 /\ pc'[q] \in {"waiting", "section"}
      <4>1. CASE q = p
        BY <4>1, <1>2, <1>4, <1>7
      <4>2. CASE q # p
        <5>1. semadj[q][0] = 1
          BY <3>2, <4>2, <2>3, <2>11
        <5> QED
          BY <5>1, <4>2, <1>2, <1>4 DEF CriticalHeld
      <4> QED
        BY <4>1, <4>2
    <3>3. ASSUME NEW q \in Critical!Children, semid'[q] = setid',
                 pc'[q] \in {"waiting", "section"}
          PROVE  semadj'[q][0] = 1
      <4>1. q \in RunProcs
        BY <1>1
      <4>2. CASE q # p
        <5>1. semadj[q][0] = 1
          BY <3>3, <4>1, <4>2, <1>2, <1>4, <2>5 DEF CriticalHeld
        <5> QED
          BY <5>1, <4>1, <4>2, <2>3, <2>11
      <4> QED
        BY <4>1, <4>2, <2>3, <2>11
    <3> QED
      BY <2>11, <3>1, <3>2, <3>3 DEF CriticalHeld
  <2>14. CriticalSum'
    <3>1. \A m \in Mains : pc'[m] = pc[m]
      BY <1>1, <1>3, <1>4
    <3>2. Critical!Ready' <=> Critical!Ready
      BY <3>1, <1>2, ReadyStays
    <3>3. Critical!Ready
      BY <1>3, <1>7 DEF CriticalSum
    <3>4. semval'[0] + Cardinality(HoldersIn(semadj')) = semval[0] + Cardinality(H)
      <4> HIDE DEF H
      <4>1. val[0] + Cardinality(HoldersIn(adj)) = semval[0] + Cardinality(H)
        BY <1>3, <2>2, <2>7
      <4> QED
        BY <4>1, <2>9
    <3> QED
      BY <3>1, <3>2, <3>3, <3>4, <2>10, <1>2 DEF CriticalSum
  <2> QED
    BY <1>5, <2>9, <2>12, <2>13, <2>14 DEF ZeroKept
<1>8. CASE semid[p] = setid /\ semval[0] = 0
  <2>1. /\ pwait' = [pwait EXCEPT ![0] = Append(@, p)]
        /\ UNCHANGED <<semval, semadj, zwait>>
    <3>1. semid[p] = setid /\ semval[0] = 0 /\ ~(semid[p] # setid) /\ ~(semval[0] > 0)
      BY <1>8
    <3> QED
      BY <3>1, <1>2 DEF Critical!sysv_semwait
  <2> DEFINE q == pwait[0]
             a == Append(q, p)
  <2>2. q \in Seq(Critical!Children) /\ Once(q) /\ Len(q) \in Nat /\ DOMAIN q = 1 .. Len(q)
    <3>1. q \in Seq(Critical!Children) /\ Once(q)
      BY DEF CriticalKernel
    <3> QED
      BY <3>1, LenProperties
  <2> HIDE DEF q
  <2>3. a \in Seq(Critical!Children) /\ ToSet(a) = ToSet(q) \cup {p} /\ Once(a)
    <3>1. p \notin ToSet(q)
      BY <1>3 DEF q
    <3> QED
      BY <3>1, <1>2, <2>2, AppendFacts
  <2> HIDE DEF a
  <2>8. pwait' \in [{0} -> Seq(Critical!Children)] /\ pwait'[0] = a
    <3>1. pwait'[0] = a
      BY <2>1 DEF a, q, CriticalKernel
    <3> QED
      BY <3>1, <2>1, <2>3 DEF CriticalKernel
  <2>9. CriticalKernel'
    <3>1. setid' # 0 /\ ~(semval'[0] > 0)
      BY <1>2, <1>8, <2>1
    <3> QED
      BY <3>1, <1>2, <2>1, <2>3, <2>8 DEF CriticalKernel
  <2>10. CriticalHeld'
    <3>1. ASSUME NEW r \in ToSet(pwait'[0])
          PROVE  pc'[r] = "waiting" /\ semid'[r] = setid' /\ semadj'[r][0] = 0
      <4>1. CASE r = p
        BY <4>1, <1>2, <1>3, <1>4, <1>8, <2>1
      <4>2. CASE r # p
        <5>1. r \in ToSet(pwait[0]) /\ r \in RunProcs
          BY <3>1, <4>2, <2>3, <2>8, CriticalSleepers DEF q
        <5> QED
          BY <5>1, <4>2, <1>2, <1>4, <2>1 DEF CriticalHeld
      <4> QED
        BY <4>1, <4>2
    <3>2. ASSUME NEW z \in zwait'[0]
          PROVE  pc'[z] = "waiting" /\ semid'[z] = setid' /\ z \in ZeroWaiters
      <4>1. z \in zwait[0] /\ z # p /\ z \in RunProcs
        BY <3>2, <2>1, <1>3, CriticalSleepers
      <4> QED
        BY <4>1, <1>2, <1>4 DEF CriticalHeld
    <3>3. ASSUME NEW r \in RunProcs, semadj'[r][0] = 1
          PROVE  /\ r \in Critical!Children /\ semid'[r] = setid'
                 /\ pc'[r] \in {"waiting", "section"}
      <4>1. r # p /\ semadj[r][0] = 1
        BY <3>3, <1>3, <2>1
      <4> QED
        BY <4>1, <1>2, <1>4 DEF CriticalHeld
    <3>4. ASSUME NEW r \in Critical!Children, semid'[r] = setid',
                 pc'[r] \in {"waiting", "section"}, r \notin ToSet(pwait'[0])
          PROVE  semadj'[r][0] = 1
      <4>1. r # p /\ r \notin ToSet(pwait[0]) /\ r \in RunProcs
        BY <3>4, <2>3, <2>8, <1>1 DEF q
      <4> QED
        BY <3>4, <4>1, <1>2, <1>4, <2>1 DEF CriticalHeld
    <3> QED
      BY <3>1, <3>2, <3>3, <3>4 DEF CriticalHeld
  <2>11. CriticalSum'
    <3>1. \A m \in Mains : pc'[m] = pc[m]
      BY <1>1, <1>3, <1>4
    <3>2. Critical!Ready' <=> Critical!Ready
      BY <3>1, <1>2, ReadyStays
    <3> QED
      BY <3>1, <3>2, <2>1, <1>2 DEF CriticalSum
  <2> QED
    BY <1>5, <2>1, <2>9, <2>10, <2>11 DEF ZeroKept
<1> QED
  BY <1>3, <1>6, <1>7, <1>8

\* The zero waiter goes on, or sleeps as long as there is a permit.
LEMMA CriticalZero ==
  ASSUME CriticalInv, program = "critical", NEW p \in Families, Critical!ZeroWait(p)
  PROVE  CriticalInv' /\ ZeroKept
<1> USE DEF CriticalInv
<1>1. /\ RunProcs = Mains \cup Families /\ Mains \cap Families = {}
      /\ Critical!Children = Families \ ZeroWaiters
  BY CriticalConstants
<1>2. /\ pc[p] = "start" /\ pc' = [pc EXCEPT ![p] = "waiting"] /\ p \in ZeroWaiters
      /\ UNCHANGED <<semid, value, setid, lastid, semval, semadj, pwait>>
      /\ zwait' = IF semid[p] = setid /\ semval[0] # 0
                  THEN [zwait EXCEPT ![0] = @ \cup {p}] ELSE zwait
      /\ semid[p] # 0 /\ semid[p] \in -1 .. lastid /\ p \in RunProcs
  BY <1>1 DEF Critical!ZeroWait, Critical!Goto, Critical!sysv_semzwait, CriticalState, HaveId
<1>3. /\ p \notin ToSet(pwait[0]) /\ p \notin zwait[0] /\ semadj[p][0] # 1
      /\ p \notin Mains /\ p \notin Critical!Children /\ "waiting" \in ChildPcs
  BY <1>1, <1>2 DEF CriticalHeld, ChildPcs
<1>4. CASE zwait' = zwait
  <2>1. semid' = [semid EXCEPT ![p] = semid[p]]
    BY <1>2 DEF CriticalState
  <2> QED
    BY <1>2, <1>3, <1>4, <2>1, CriticalMoves
<1>5. CASE semid[p] = setid /\ semval[0] # 0
  <2>1. zwait' \in [{0} -> SUBSET Families] /\ zwait'[0] = zwait[0] \cup {p}
    BY <1>2, <1>5 DEF CriticalKernel
  <2>2. /\ pc'[p] = "waiting" /\ \A q \in RunProcs : q # p => pc'[q] = pc[q]
        /\ pc' \in [RunProcs -> MainPcs \cup ChildPcs]
    BY <1>1, <1>2, <1>3 DEF CriticalState
  <2>3. CriticalKernel'
    <3>1. setid' # 0
      BY <1>2, <1>5
    <3> QED
      BY <3>1, <1>2, <2>1 DEF CriticalKernel
  <2>4. CriticalState'
    BY <1>1, <1>2, <1>3, <2>2 DEF CriticalState
  <2>5. CriticalHeld'
    <3>1. ASSUME NEW q \in ToSet(pwait'[0])
          PROVE  pc'[q] = "waiting" /\ semid'[q] = setid' /\ semadj'[q][0] = 0
      <4>1. q \in ToSet(pwait[0]) /\ q # p /\ q \in RunProcs
        BY <3>1, <1>2, <1>3, CriticalSleepers
      <4> QED
        BY <4>1, <1>2, <2>2 DEF CriticalHeld
    <3>2. ASSUME NEW z \in zwait'[0]
          PROVE  pc'[z] = "waiting" /\ semid'[z] = setid' /\ z \in ZeroWaiters
      <4>1. CASE z = p
        BY <4>1, <1>2, <1>5, <2>2
      <4>2. CASE z # p
        <5>1. z \in zwait[0] /\ z \in RunProcs
          BY <3>2, <4>2, <2>1, CriticalSleepers
        <5> QED
          BY <5>1, <4>2, <1>2, <2>2 DEF CriticalHeld
      <4> QED
        BY <4>1, <4>2
    <3>3. \A q \in RunProcs : semadj'[q][0] = 1 =>
            q \in Critical!Children /\ semid'[q] = setid' /\ pc'[q] \in {"waiting", "section"}
      BY <1>2, <1>3, <2>2 DEF CriticalHeld
    <3>4. ASSUME NEW q \in Critical!Children, semid'[q] = setid',
                 pc'[q] \in {"waiting", "section"}, q \notin ToSet(pwait'[0])
          PROVE  semadj'[q][0] = 1
      <4>1. q # p /\ q \in RunProcs
        BY <1>1, <1>3
      <4> QED
        BY <3>4, <4>1, <1>2, <2>2 DEF CriticalHeld
    <3> QED
      BY <3>1, <3>2, <3>3, <3>4 DEF CriticalHeld
  <2>6. CriticalSum'
    <3>1. \A m \in Mains : pc'[m] = pc[m]
      BY <1>1, <1>3, <2>2
    <3>2. Critical!Ready' <=> Critical!Ready
      BY <3>1, <1>2, ReadyStays
    <3> QED
      BY <3>1, <3>2, <1>2 DEF CriticalSum
  <2>7. ZeroKept
    BY <2>1 DEF ZeroKept
  <2> QED
    BY <2>3, <2>4, <2>5, <2>6, <2>7
<1> QED
  BY <1>2, <1>4, <1>5

\* Every step of a main() keeps the invariant.
LEMMA CriticalMain ==
  ASSUME CriticalInv, program = "critical", NEW m \in Mains,
         Critical!MainStep(m) \/ Critical!MainForkFail(m)
  PROVE  CriticalInv' /\ ZeroKept
<1> USE DEF CriticalInv
<1>1. /\ RunProcs = Mains \cup Families /\ Mains \cap Families = {}
      /\ Critical!Children = Families \ ZeroWaiters
      /\ Critical!Family(m) \subseteq Families
  BY CriticalConstants
<1>2. /\ m \in RunProcs /\ m \notin Families /\ m \notin Critical!Children
      /\ m \notin ToSet(pwait[0]) /\ m \notin zwait[0] /\ semadj[m][0] # 1
      /\ semid[m] \in -1 .. lastid /\ semid = [semid EXCEPT ![m] = semid[m]]
      /\ setid \in -1 .. lastid /\ -1 \in -1 .. lastid
  <2>1. setid \in -1 .. lastid /\ -1 \in -1 .. lastid
    BY DEF CriticalKernel
  <2>2. semid[m] \in -1 .. lastid /\ semid = [semid EXCEPT ![m] = semid[m]]
    BY <1>1 DEF CriticalState
  <2> QED
    BY <2>1, <2>2, <1>1, CriticalSleepers DEF CriticalHeld
<1>3. "attach" \in MainPcs /\ "fork" \in MainPcs /\ "failed" \in MainPcs
      /\ "attach" \notin HaveId /\ "failed" \notin HaveId
      /\ "start" \in ChildPcs /\ "done" \in ChildPcs /\ "done" \notin HaveId
  BY DEF MainPcs, ChildPcs, HaveId
<1>4. CASE Critical!MainCreate(m)
  <2>1. pc[m] = "create"
    BY <1>4 DEF Critical!MainCreate
  <2>2. CASE /\ Critical!SemCreate /\ semid' = [semid EXCEPT ![m] = setid']
             /\ value' = SemValue[m] /\ Critical!Goto(m, "setall")
    BY <2>1, <2>2, CriticalCreates DEF Critical!Goto
  <2>3. CASE Critical!Goto(m, "attach") /\ UNCHANGED <<Critical!sysv, semid, value>>
    <3>1. /\ UNCHANGED <<lastid, setid, semval, semadj, pwait, zwait, value>>
          /\ pc' = [pc EXCEPT ![m] = "attach"] /\ semid' = [semid EXCEPT ![m] = semid[m]]
      BY <2>3, <1>2 DEF Critical!Goto, Critical!sysv
    <3> QED
      BY <1>2, <1>3, <2>1, <3>1, CriticalMoves
  <2> QED
    BY <1>4, <2>2, <2>3 DEF Critical!MainCreate
<1>5. CASE Critical!MainAttach(m)
  <2> DEFINE id == IF setid = 0 THEN -1 ELSE setid
  <2>1. /\ UNCHANGED <<lastid, setid, semval, semadj, pwait, zwait, value>>
        /\ pc[m] = "attach" /\ pc' = [pc EXCEPT ![m] = "fork"]
        /\ semid' = [semid EXCEPT ![m] = id]
    BY <1>5 DEF Critical!MainAttach, Critical!Goto, Critical!sysv
  <2>2. id \in -1 .. lastid /\ id # 0
    BY <1>2
  <2> HIDE DEF id
  <2> QED
    BY <1>2, <1>3, <2>1, <2>2, CriticalMoves
<1>6. CASE Critical!MainSetAll(m)
  BY <1>6, CriticalSets
<1>7. CASE Critical!MainReap(m)
  BY <1>7, CriticalRemoves
<1>8. CASE Critical!MainFork(m)
  <2>1. PICK p \in Critical!Family(m) :
          /\ pc[p] = "unborn" /\ pc' = [pc EXCEPT ![p] = "start"]
          /\ semid' = [semid EXCEPT ![p] = semid[m]]
    BY <1>8 DEF Critical!MainFork, Critical!Goto, Critical!IsNext
  <2>2. /\ UNCHANGED <<lastid, setid, semval, semadj, pwait, zwait, value>>
        /\ pc[m] = "fork" /\ semid[m] # 0
    BY <1>8, <1>2 DEF Critical!MainFork, Critical!sysv, CriticalState, HaveId
  <2>3. /\ p \in RunProcs /\ p \in Families /\ p \notin Mains
        /\ p \notin ToSet(pwait[0]) /\ p \notin zwait[0] /\ semadj[p][0] # 1
    BY <1>1, <2>1 DEF CriticalHeld
  <2> QED
    BY <1>2, <1>3, <2>1, <2>2, <2>3, CriticalMoves
<1>9. CASE Critical!MainForkFail(m)
  <2>1. PICK p \in Critical!Family(m) :
          /\ pc[p] = "unborn"
          /\ IF p \in ZeroWaiters
             THEN Critical!Goto(p, "done") /\ UNCHANGED Critical!sysv
             ELSE Critical!Goto(m, "failed") /\ Critical!SemExit(m)
    BY <1>9 DEF Critical!MainForkFail, Critical!IsNext
  <2>2. pc[m] = "fork" /\ UNCHANGED <<semid, value>>
    BY <1>9 DEF Critical!MainForkFail
  <2>3. CASE p \in ZeroWaiters
    <3>1. /\ UNCHANGED <<lastid, setid, semval, semadj, pwait, zwait, value>>
          /\ pc' = [pc EXCEPT ![p] = "done"]
      BY <2>1, <2>2, <2>3 DEF Critical!Goto, Critical!sysv
    <3>2. /\ p \in RunProcs /\ p \in Families /\ p \notin Mains
          /\ p \notin ToSet(pwait[0]) /\ p \notin zwait[0] /\ semadj[p][0] # 1
      BY <1>1, <2>1 DEF CriticalHeld
    <3>3. semid[p] \in -1 .. lastid /\ semid' = [semid EXCEPT ![p] = semid[p]]
      BY <2>2, <3>2 DEF CriticalState
    <3> QED
      BY <1>3, <2>1, <3>1, <3>2, <3>3, CriticalMoves
  <2>4. CASE p \notin ZeroWaiters
    <3>1. Critical!SemExit(m) /\ pc' = [pc EXCEPT ![m] = "failed"]
      BY <2>1, <2>4 DEF Critical!Goto
    <3> QED
      BY <1>2, <1>3, <2>2, <3>1, CriticalExits
  <2> QED
    BY <2>3, <2>4
<1> QED
  BY <1>4, <1>5, <1>6, <1>7, <1>8, <1>9 DEF Critical!MainStep

\* Every step of a child keeps the invariant.
LEMMA CriticalChild ==
  ASSUME CriticalInv, program = "critical", NEW p \in Families,
         Critical!ChildStep(p) \/ Critical!Kill(p)
  PROVE  CriticalInv' /\ ZeroKept
<1> USE DEF CriticalInv
<1>1. /\ RunProcs = Mains \cup Families /\ Mains \cap Families = {}
      /\ Critical!Children = Families \ ZeroWaiters
      /\ Aborters \subseteq Critical!Children
  BY CriticalConstants
<1>2. /\ p \in RunProcs /\ p \notin Mains /\ semid[p] \in -1 .. lastid
      /\ semid = [semid EXCEPT ![p] = semid[p]]
      /\ Critical!Asleep(p) <=> p \in ToSet(pwait[0]) \cup zwait[0]
  <2>1. semid[p] \in -1 .. lastid /\ semid = [semid EXCEPT ![p] = semid[p]]
    BY <1>1 DEF CriticalState
  <2> QED
    BY <2>1, <1>1, CriticalSleepers
<1>3. "section" \in ChildPcs /\ "exit" \in ChildPcs /\ "done" \in ChildPcs
      /\ "done" \notin HaveId
  BY DEF ChildPcs, HaveId
<1>4. CASE Critical!SectionWait(p)
  BY <1>4, CriticalWaits
<1>5. CASE Critical!ZeroWait(p)
  BY <1>5, CriticalZero
<1>6. CASE Critical!SectionEnter(p)
  <2>1. /\ pc[p] = "waiting" /\ p \in Critical!Children
        /\ p \notin ToSet(pwait[0]) /\ p \notin zwait[0]
        /\ pc' = [pc EXCEPT ![p] = "section"] /\ semid' = [semid EXCEPT ![p] = semid[p]]
        /\ UNCHANGED <<lastid, setid, semval, semadj, pwait, zwait, value>>
    BY <1>6, <1>2 DEF Critical!SectionEnter, Critical!Goto, Critical!sysv
  <2>2. semid[p] # 0
    BY <1>2, <2>1 DEF CriticalState, HaveId
  <2> QED
    BY <1>2, <1>3, <2>1, <2>2, CriticalMoves
<1>7. CASE Critical!ZeroReturn(p)
  <2>1. /\ pc[p] = "waiting" /\ p \in ZeroWaiters
        /\ p \notin ToSet(pwait[0]) /\ p \notin zwait[0]
        /\ pc' = [pc EXCEPT ![p] = "exit"] /\ semid' = [semid EXCEPT ![p] = semid[p]]
        /\ UNCHANGED <<lastid, setid, semval, semadj, pwait, zwait, value>>
    BY <1>7, <1>2 DEF Critical!ZeroReturn, Critical!Goto, Critical!sysv
  <2>2. semid[p] # 0 /\ p \notin Critical!Children
    BY <1>1, <1>2, <2>1 DEF CriticalState, HaveId
  <2>3. semadj[p][0] # 1
    BY <1>2, <2>2 DEF CriticalHeld
  <2> QED
    BY <1>2, <1>3, <2>1, <2>2, <2>3, CriticalMoves
<1>8. CASE Critical!SectionPost(p)
  <2>1. p \in Critical!Children
    <3>1. pc[p] = "section" /\ p \notin Aborters
      BY <1>8 DEF Critical!SectionPost
    <3> QED
      BY <3>1 DEF CriticalState
  <2> QED
    BY <1>8, <2>1, CriticalPosts
<1>9. CASE Critical!SectionAbort(p) \/ Critical!Exit(p) \/ Critical!Kill(p)
  <2>1. /\ Critical!SemExit(p) /\ pc' = [pc EXCEPT ![p] = "done"]
        /\ UNCHANGED <<semid, value>> /\ pc[p] # "setall"
    BY <1>9 DEF Critical!SectionAbort, Critical!Exit, Critical!Kill, Critical!Goto
  <2> QED
    BY <1>2, <1>3, <2>1, CriticalExits
<1> QED
  BY <1>4, <1>5, <1>6, <1>7, <1>8, <1>9 DEF Critical!ChildStep

\* Every step of a run keeps the invariant.
LEMMA CriticalStep ==
  CriticalInv /\ InCritical /\ Critical!Next => CriticalInv' /\ ZeroKept
<1> SUFFICES ASSUME CriticalInv, InCritical, Critical!Next PROVE CriticalInv' /\ ZeroKept
  OBVIOUS
<1>1. program = "critical" /\ Critical!Forked = Families
  BY CriticalConstants DEF InCritical
<1>2. CASE Critical!Ended
  <2>1. UNCHANGED <<setid, lastid, semval, semadj, pwait, zwait, pc, semid, value>>
    BY <1>2 DEF Critical!Ended, Critical!vars, Critical!sysv
  <2> QED
    BY <2>1 DEF CriticalInv, CriticalKernel, CriticalState, CriticalHeld, CriticalSum,
                HoldersIn, Critical!Ready, ZeroKept
<1> QED
  BY <1>1, <1>2, CriticalMain, CriticalChild DEF Critical!Next

\* What the invariant says of the properties.
LEMMA CriticalRight ==
  CriticalInv /\ program = "critical" => Critical!TypeOK /\ Critical!PermitsConserved
<1> SUFFICES ASSUME CriticalInv, program = "critical"
             PROVE  Critical!TypeOK /\ Critical!PermitsConserved
  OBVIOUS
<1> USE DEF CriticalInv
<1>1. /\ RunProcs = Mains \cup Families /\ Critical!Children \subseteq RunProcs
      /\ Critical!Children \subseteq Families
      /\ \A S : Critical!Cardinality(S) = Cardinality(S)
  BY CriticalConstants
<1>2. Critical!TypeOK
  <2>1. semadj \in [RunProcs -> [{0} -> Int]]
    <3>1. \A p \in RunProcs : semadj[p] \in [{0} -> Int]
      BY DEF CriticalKernel
    <3> QED
      BY <3>1 DEF CriticalKernel
  <2>2. pwait \in [{0} -> Seq(RunProcs)]
    <3>1. pwait[0] \in Seq(RunProcs)
      BY <1>1, SeqMonotonic DEF CriticalKernel
    <3> QED
      BY <3>1 DEF CriticalKernel
  <2>3. zwait \in [{0} -> SUBSET RunProcs]
    BY <1>1 DEF CriticalKernel
  <2>4. Critical!SysvTypeOK
    BY <2>1, <2>2, <2>3 DEF Critical!SysvTypeOK, CriticalKernel
  <2>5. MainPcs \cup ChildPcs = {"create", "attach", "setall", "fork", "failed", "end",
          "unborn", "start", "waiting", "section", "exit", "done"}
    BY DEF MainPcs, ChildPcs
  <2> QED
    BY <2>4, <2>5 DEF Critical!TypeOK, CriticalState
<1>3. Critical!Holders = HoldersIn(semadj)
  BY DEF Critical!Holders, HoldersIn
<1>4. Critical!Inside \subseteq Critical!Holders
  <2>1. ASSUME NEW p \in Critical!Inside PROVE p \in RunProcs /\ semadj[p][0] = 1
    <3>1. p \in Critical!Children /\ pc[p] = "section" /\ semid[p] = setid
      BY <2>1 DEF Critical!Inside
    <3>2. p \notin ToSet(pwait[0])
      BY <3>1 DEF CriticalHeld
    <3> QED
      BY <3>1, <3>2, <1>1 DEF CriticalHeld
  <2> QED
    BY <2>1 DEF Critical!Holders
<1> QED
  BY <1>1, <1>2, <1>3, <1>4 DEF Critical!PermitsConserved, CriticalSum

\* A step moves one process on, if the set exists.
LEMMA CriticalGoes ==
  ASSUME InCritical, Critical!Next, setid # 0, ~Critical!Ended
  PROVE  \E q \in RunProcs, l \in MainPcs \cup ChildPcs :
           /\ pc' = [pc EXCEPT ![q] = l]
           /\ semid' = semid \/ \E id : semid' = [semid EXCEPT ![q] = id]
           /\ l # "setall"
           /\ l = "waiting" => Critical!SectionWait(q) \/ Critical!ZeroWait(q)
           /\ setid' = setid \/ setid' = 0
<1>0. program = "critical"
  BY DEF InCritical
<1>1. /\ RunProcs = Mains \cup Families /\ Critical!Forked = Families
      /\ \A m \in Mains : Critical!Family(m) \subseteq Families
  BY <1>0, CriticalConstants
<1> USE DEF MainPcs, ChildPcs, Critical!Goto
<1>2. CASE \E m \in Mains : Critical!MainStep(m)
  <2> PICK m \in Mains : Critical!MainStep(m)
    BY <1>2
  <2>1. CASE Critical!MainCreate(m)
    BY <1>1, <2>1 DEF Critical!MainCreate, Critical!SemCreate, Critical!sysv
  <2>2. CASE Critical!MainAttach(m)
    BY <1>1, <2>2 DEF Critical!MainAttach, Critical!sysv
  <2>3. CASE Critical!MainSetAll(m)
    BY <1>1, <2>3 DEF Critical!MainSetAll, Critical!SemSetAll
  <2>4. CASE Critical!MainFork(m)
    BY <1>1, <2>4 DEF Critical!MainFork, Critical!sysv
  <2>5. CASE Critical!MainReap(m)
    BY <1>1, <2>5 DEF Critical!MainReap, Critical!sysv_semrm
  <2> QED
    BY <2>1, <2>2, <2>3, <2>4, <2>5 DEF Critical!MainStep
<1>3. CASE \E m \in Mains : Critical!MainForkFail(m)
  <2> PICK m \in Mains : Critical!MainForkFail(m)
    BY <1>3
  <2>1. PICK p \in Critical!Family(m) :
          IF p \in ZeroWaiters
          THEN Critical!Goto(p, "done") /\ UNCHANGED <<setid>>
          ELSE Critical!Goto(m, "failed") /\ UNCHANGED <<setid>>
    BY DEF Critical!MainForkFail, Critical!SemExit, Critical!sysv
  <2>2. UNCHANGED semid
    BY DEF Critical!MainForkFail
  <2> QED
    BY <1>1, <2>1, <2>2
<1>4. CASE \E p \in Families : Critical!ChildStep(p) \/ Critical!Kill(p)
  <2> PICK p \in Families : Critical!ChildStep(p) \/ Critical!Kill(p)
    BY <1>4
  <2>1. CASE Critical!SectionWait(p) \/ Critical!ZeroWait(p)
    BY <1>1, <2>1 DEF Critical!SectionWait, Critical!ZeroWait, Critical!sysv_semwait,
                      Critical!sysv_semzwait
  <2>2. CASE Critical!SectionEnter(p) \/ Critical!ZeroReturn(p)
    BY <1>1, <2>2 DEF Critical!SectionEnter, Critical!ZeroReturn, Critical!sysv
  <2>3. CASE Critical!SectionAbort(p) \/ Critical!Exit(p) \/ Critical!Kill(p)
    BY <1>1, <2>3 DEF Critical!SectionAbort, Critical!Exit, Critical!Kill, Critical!SemExit
  <2>4. CASE Critical!SectionPost(p)
    BY <1>1, <2>4 DEF Critical!SectionPost, Critical!sysv_sempost
  <2> QED
    BY <2>1, <2>2, <2>3, <2>4 DEF Critical!ChildStep
<1> QED
  BY <1>1, <1>2, <1>3, <1>4 DEF Critical!Next

\* Who gets through its wait for zero finds no permit left, and those that are
\* held are all there are.
LEMMA CriticalPasses ==
  ASSUME CriticalInv, CriticalInv', ZeroKept, InCritical, Critical!Next
  PROVE  Critical!PassesWhenFull
<1> USE DEF CriticalInv
<1>0. program = "critical" /\ program' = program
  BY DEF InCritical
<1>1. /\ RunProcs = Mains \cup Families /\ Mains \cap Families = {}
      /\ Critical!Children = Families \ ZeroWaiters /\ ZeroWaiters \subseteq Families
      /\ \A S : Critical!Cardinality(S) = Cardinality(S)
      /\ \A s : Critical!ToSet(s) = ToSet(s)
  BY <1>0, CriticalConstants
<1> SUFFICES ASSUME NEW z \in ZeroWaiters,
                    pc[z] = "start" \/ Critical!Asleep(z),
                    pc'[z] = "waiting", ~Critical!Asleep(z)',
                    semid[z] = setid', Critical!Ready
             PROVE  Critical!Cardinality(Critical!Holders') = value'
  BY DEF Critical!PassesWhenFull
<1>2. /\ z \notin zwait'[0] /\ z \in RunProcs /\ z \notin Critical!Children
      /\ Critical!Asleep(z) => z \in zwait[0]
  <2>1. z \notin ToSet(pwait[0])
    BY <1>0, <1>1, CriticalSleepers
  <2> QED
    BY <1>1, <2>1 DEF Critical!Asleep
<1>3. setid # 0 /\ semid[z] # 0
  BY <1>1, <1>2 DEF Critical!Ready, CriticalHeld, CriticalState, HaveId
<1>4. CASE Critical!Ended
  <2>1. UNCHANGED <<setid, lastid, semval, semadj, pwait, zwait, pc, semid, value>>
    BY <1>4 DEF Critical!Ended, Critical!vars, Critical!sysv
  <2>2. pc[z] \in {"done", "unborn"}
    BY <1>0, <1>1, <1>4, CriticalConstants DEF Critical!Ended
  <2> QED
    BY <2>1, <2>2
<1>5. CASE ~Critical!Ended
  <2>1. PICK q \in RunProcs, l \in MainPcs \cup ChildPcs :
           /\ pc' = [pc EXCEPT ![q] = l]
           /\ semid' = semid \/ \E id : semid' = [semid EXCEPT ![q] = id]
           /\ l # "setall"
           /\ l = "waiting" => Critical!SectionWait(q) \/ Critical!ZeroWait(q)
           /\ setid' = setid \/ setid' = 0
    BY <1>3, <1>5, CriticalGoes
  <2>2. /\ pc'[q] = l /\ \A p \in RunProcs : p # q => pc'[p] = pc[p] /\ semid'[p] = semid[p]
    BY <2>1 DEF CriticalState
  <2>3. setid' = setid
    BY <1>3, <2>1
  <2>4. Critical!Ready'
    BY <1>1, <1>3, <2>1, <2>2, <2>3 DEF Critical!Ready
  <2>5. semval'[0] = 0
    <3>1. CASE z \in zwait[0]
      BY <1>2, <3>1 DEF ZeroKept
    <3>2. CASE z \notin zwait[0]
      <4>1. pc[z] = "start" /\ z = q /\ l = "waiting"
        BY <1>2, <3>2, <2>2
      <4>2. Critical!ZeroWait(z)
        BY <1>2, <2>1, <4>1 DEF Critical!SectionWait
      <4>3. /\ UNCHANGED semval
            /\ zwait' = IF semid[z] = setid /\ semval[0] # 0
                        THEN [zwait EXCEPT ![0] = @ \cup {z}] ELSE zwait
        BY <4>2 DEF Critical!ZeroWait, Critical!sysv_semzwait
      <4> QED
        BY <1>2, <2>3, <4>3 DEF CriticalKernel
    <3> QED
      BY <3>1, <3>2
  <2>6. /\ semval'[0] + Cardinality(HoldersIn(semadj)') = value'
        /\ value' \in Nat /\ IsFiniteSet(HoldersIn(semadj)')
    BY <2>4 DEF CriticalSum, CriticalState, CriticalKernel
  <2>7. Critical!Holders' = HoldersIn(semadj)'
    BY DEF Critical!Holders, HoldersIn
  <2>8. Cardinality(HoldersIn(semadj)') \in Nat
    BY <2>6, FS_CardinalityType
  <2> QED
    BY <1>1, <2>5, <2>6, <2>7, <2>8
<1> QED
  BY <1>4, <1>5

----------------------------------------------------------------------------
(* The programs together.                                                  *)

\* The program that is looked at keeps its invariant.
SysvInv == /\ program = "counting" => CountingInv
           /\ program = "graph" => GraphInv
           /\ program = "critical" => CriticalInv

\* Nothing happens, and the invariants stay.
LEMMA SysvStutters == SysvInv /\ UNCHANGED vars => SysvInv'
<1> SUFFICES ASSUME SysvInv, UNCHANGED vars PROVE SysvInv'
  OBVIOUS
<1>1. UNCHANGED <<program, setid, lastid, semval, semadj, pwait, zwait, pcM, restarts, created,
                  semid, pc, i, ip, calling, gone, value>>
  BY DEF vars, kernel, restarting, graphOnly
<1>2. CountingInv => CountingInv'
  BY <1>1 DEF CountingInv, CountingKernel, CountingState, CountingPermits, Taken,
              Counting!Active
<1>3. GraphInv => GraphInv'
  BY <1>1 DEF GraphInv, GraphKernel, GraphState, GraphPermits, Opened, Closed, Passed, Begun
<1>4. CriticalInv => CriticalInv'
  BY <1>1 DEF CriticalInv, CriticalKernel, CriticalState, CriticalHeld, CriticalSum,
              HoldersIn, Critical!Ready
<1> QED
  BY <1>1, <1>2, <1>3, <1>4 DEF SysvInv

\* Every step of a program keeps its invariant.
LEMMA SysvStep == SysvInv /\ [Next]_vars => SysvInv'
<1> SUFFICES ASSUME SysvInv, [Next]_vars PROVE SysvInv'
  OBVIOUS
<1>1. CASE InCounting /\ Counting!Next
  BY <1>1, CountingStep DEF SysvInv, InCounting
<1>2. CASE InGraph /\ Graph!Next
  BY <1>2, GraphStep DEF SysvInv, InGraph
<1>3. CASE InCritical /\ Critical!Next
  BY <1>3, CriticalStep DEF SysvInv, InCritical
<1> QED
  BY <1>1, <1>2, <1>3, SysvStutters DEF Next

\* The inductive invariant: where the permits of a semaphore are, program by
\* program.
THEOREM SysvAreInvariant == Spec => []SysvInv
<1>1. Init => SysvInv
  <2>1. program = "counting" /\ Counting!Init => SysvInv
    BY CountingInit DEF SysvInv
  <2>2. program = "graph" /\ Graph!Init => SysvInv
    BY GraphInit DEF SysvInv
  <2>3. program = "critical" /\ Critical!Init => SysvInv
    BY CriticalInit DEF SysvInv
  <2> QED
    BY <2>1, <2>2, <2>3 DEF Init
<1> QED
  BY <1>1, SysvStep, PTL DEF Spec

\* The processes of the three programs and the kernel keep their values in
\* range: nobody takes a permit that is not there.
THEOREM SysvTyped == Spec => []TypeOK
<1>1. SysvInv => TypeOK
  BY CountingRight, GraphRight, CriticalRight DEF SysvInv, TypeOK
<1> QED
  BY <1>1, SysvAreInvariant, PTL

\* No more children of sysv_sem_counting.c work than n_count, and there is no
\* permit too many, in a run that created its semaphore, whoever aborts or is
\* killed.
THEOREM CountIsBounded == Spec => []PermitsBounded
<1>1. SysvInv => PermitsBounded
  BY CountingRight DEF SysvInv, PermitsBounded
<1> QED
  BY <1>1, SysvAreInvariant, PTL

\* The processes of sysv_sem_graph.c enter in the order of the graph in a run
\* that created its set, whoever is killed.
THEOREM OrderIsKept == Spec => []GraphOrder
<1>1. SysvInv => GraphOrder
  BY GraphRight DEF SysvInv, GraphOrder
<1> QED
  BY <1>1, SysvAreInvariant, PTL

\* The permits of sysv_sem.c and sysv_sem_waitforzero.c are neither lost nor
\* made, and everybody inside holds one, for any number of runs that share the
\* semaphore.
THEOREM PermitsAreConserved == Spec => []PermitsConserved
<1>1. SysvInv => PermitsConserved
  BY CriticalRight DEF SysvInv, PermitsConserved
<1> QED
  BY <1>1, SysvAreInvariant, PTL

\* The zero waiter of sysv_sem_waitforzero.c gets through only at a moment when
\* all permits are held.
THEOREM ZeroIsFull == Spec => ZeroMeansFull
<1>1. SysvInv /\ SysvInv' /\ [Next]_vars =>
        [program = "critical" => Critical!PassesWhenFull]_vars
  <2> SUFFICES ASSUME SysvInv, SysvInv', Next, program = "critical"
               PROVE  Critical!PassesWhenFull
    OBVIOUS
  <2>1. InCritical /\ Critical!Next /\ program' = "critical"
    BY DEF Next, InCounting, InGraph, InCritical
  <2>2. CriticalInv /\ CriticalInv'
    BY <2>1 DEF SysvInv
  <2>3. ZeroKept
    BY <2>1, <2>2, CriticalStep
  <2> QED
    BY <2>1, <2>2, <2>3, CriticalPasses
<1> QED
  BY <1>1, SysvAreInvariant, PTL DEF Spec, ZeroMeansFull
=============================================================================
