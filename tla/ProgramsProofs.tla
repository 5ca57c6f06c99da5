--------------------------- MODULE ProgramsProofs ---------------------------
(***************************************************************************)
(* Theorems about the other programs of MCPrograms, for every value of the *)
(* constants that ProgramsAssumption allows.  Each program has an          *)
(* inductive invariant; while it is the one that is checked the others     *)
(* rest, so that its steps are the only ones.                              *)
(***************************************************************************)
EXTENDS ThreadsProofs, SequenceTheorems, FunctionTheorems

(* Finite sets, and how often a value occurs in a sequence.                *)

\* A finite set that gains or loses one element.
LEMMA OneMore ==
  ASSUME NEW S, NEW x, IsFiniteSet(S), x \notin S
  PROVE  /\ IsFiniteSet(S \cup {x}) /\ Cardinality(S) \in Nat
         /\ Cardinality(S \cup {x}) = Cardinality(S) + 1
BY FS_AddElement, FS_CardinalityType

\* A finite set that loses an element has one less.
LEMMA OneLess ==
  ASSUME NEW S, NEW x, IsFiniteSet(S), x \in S
  PROVE  /\ IsFiniteSet(S \ {x}) /\ Cardinality(S) \in Nat \ {0}
         /\ Cardinality(S \ {x}) = Cardinality(S) - 1
<1>1. Cardinality(S) \in Nat /\ Cardinality(S) # 0
  BY FS_CardinalityType, FS_EmptySet
<1> QED
  BY <1>1, FS_RemoveElement

\* How often a value occurs in a sequence.
Times(s, v) == Cardinality({k \in 1 .. Len(s) : s[k] = v})

\* The places of a value in a sequence are finitely many.
LEMMA TimesIsNat ==
  ASSUME NEW S, NEW s \in Seq(S), NEW v
  PROVE  /\ IsFiniteSet({k \in 1 .. Len(s) : s[k] = v})
         /\ Times(s, v) \in Nat
<1>1. IsFiniteSet(1 .. Len(s))
  BY FS_Interval
<1>2. IsFiniteSet({k \in 1 .. Len(s) : s[k] = v})
  BY <1>1, FS_Subset
<1> QED
  BY <1>2, FS_CardinalityType DEF Times

\* An element at the end is one occurrence more of its value.
LEMMA TimesAppend ==
  ASSUME NEW S, NEW s \in Seq(S), NEW x \in S, NEW v
  PROVE  Times(Append(s, x), v) = Times(s, v) + (IF x = v THEN 1 ELSE 0)
<1> DEFINE P == {k \in 1 .. Len(s) : s[k] = v}
           Q == {k \in 1 .. Len(Append(s, x)) : Append(s, x)[k] = v}
<1>1. IsFiniteSet(P) /\ Len(s) + 1 \notin P /\ Cardinality(P) \in Nat
  <2>1. Len(s) \in Nat
    BY LenProperties
  <2>2. IsFiniteSet(P)
    BY TimesIsNat
  <2>3. Cardinality(P) \in Nat
    BY <2>2, FS_CardinalityType
  <2> QED
    BY <2>1, <2>2, <2>3
<1>2. Q = P \cup (IF x = v THEN {Len(s) + 1} ELSE {})
  BY AppendProperties
<1>a. Times(s, v) = Cardinality(P) /\ Times(Append(s, x), v) = Cardinality(Q)
  BY DEF Times
<1> HIDE DEF P, Q
<1>3. CASE x = v
  <2>1. Q = P \cup {Len(s) + 1}
    BY <1>2, <1>3
  <2> QED
    BY <1>1, <1>a, <1>3, <2>1, OneMore
<1>4. CASE x # v
  <2>1. Q = P
    BY <1>2, <1>4
  <2> QED
    BY <1>1, <1>a, <1>4, <2>1
<1> QED
  BY <1>3, <1>4

\* Without its head a sequence has one occurrence less of that value.
LEMMA TimesTail ==
  ASSUME NEW S, NEW s \in Seq(S), s # <<>>, NEW v
  PROVE  Times(s, v) = Times(Tail(s), v) + (IF Head(s) = v THEN 1 ELSE 0)
<1> DEFINE P == {k \in 1 .. Len(s) : s[k] = v}
           R == {k \in 2 .. Len(s) : s[k] = v}
           Q == {k \in 1 .. Len(Tail(s)) : Tail(s)[k] = v}
           f == [k \in Q |-> k + 1]
<1>1. /\ Tail(s) \in Seq(S) /\ Len(Tail(s)) = Len(s) - 1 /\ Len(s) \in Nat \ {0}
      /\ Head(s) = s[1]
      /\ \A k \in 1 .. Len(s) - 1 : Tail(s)[k] = s[k + 1]
  BY HeadTailProperties, LenProperties, EmptySeq
<1>2. IsFiniteSet(Q) /\ IsFiniteSet(P)
  BY <1>1, TimesIsNat
<1>3. f \in Bijection(Q, R)
  <2>1. \A k \in Q : k + 1 \in R
    BY <1>1
  <2>2. \A l \in R : l - 1 \in Q /\ (l - 1) + 1 = l
    BY <1>1
  <2>3. \A k, l \in Q : k + 1 = l + 1 => k = l
    BY <1>1
  <2> HIDE DEF Q, R
  <2>4. /\ f \in [Q -> R] /\ \A k, l \in Q : f[k] = f[l] => k = l
        /\ \A l \in R : \E k \in Q : f[k] = l
    BY <2>1, <2>2, <2>3
  <2> HIDE DEF f
  <2> QED
    BY <2>4, Fun_IsBij
<1>4. IsFiniteSet(R) /\ Cardinality(R) = Cardinality(Q)
  <2> HIDE DEF Q, R, f
  <2>1. ExistsBijection(Q, R)
    BY <1>3 DEF ExistsBijection
  <2> QED
    BY <1>2, <2>1, FS_Bijection
<1>5. 1 \notin R /\ P = R \cup (IF s[1] = v THEN {1} ELSE {})
  <2>1. /\ 1 \in 1 .. Len(s) /\ 1 \notin 2 .. Len(s)
        /\ \A k : k \in 1 .. Len(s) <=> k = 1 \/ k \in 2 .. Len(s)
    BY <1>1
  <2>2. \A k : k \in P <=> k \in R \/ (k = 1 /\ s[1] = v)
    BY <2>1
  <2>3. 1 \notin R
    BY <2>1
  <2> HIDE DEF P, R
  <2> QED
    BY <2>2, <2>3
<1>a. Times(s, v) = Cardinality(P) /\ Times(Tail(s), v) = Cardinality(Q)
  BY DEF Times
<1> HIDE DEF P, Q, R
<1>6. CASE s[1] = v
  <2>1. P = R \cup {1}
    BY <1>5, <1>6
  <2> QED
    BY <1>a, <1>1, <1>4, <1>5, <1>6, <2>1, OneMore
<1>7. CASE s[1] # v
  <2>1. P = R
    BY <1>5, <1>7
  <2>2. Cardinality(Q) \in Nat
    BY <1>2, FS_CardinalityType
  <2> QED
    BY <1>a, <1>1, <1>4, <1>7, <2>1, <2>2
<1> QED
  BY <1>6, <1>7

\* Which program is checked does not change.
LEMMA SameProgram == [Next]_vars => program' = program
BY DEF Next, Running, PoolStep, Outside, Only, vars

----------------------------------------------------------------------------
(* PosixCounting                                                           *)

\* The instance counts as the standard module does.
LEMMA CountingCardinality ==
  ASSUME NEW S PROVE Counting!Cardinality(S) = Cardinality(S)
BY DEF Counting!Cardinality, Cardinality

\* While this program is checked the steps are its own.
LEMMA CountingOnly ==
  ASSUME program = "counting", [Next]_vars
  PROVE  /\ program' = "counting"
         /\ Counting!Next \/ UNCHANGED countingVars
BY DEF Next, Running, PoolStep, Outside, Only, vars, Counting!Next, ThreadNames

\* The ranges of the variables of PosixCounting.
CountingTypeOK ==
  /\ value \in Nat /\ lost \in Nat
  /\ run \in 1 .. MaxRuns /\ i \in 0 .. MaxChild
  /\ pcM \in {"open", "wait", "create", "end", "gone"}
  /\ child \in [Counting!Kids -> {"none", "work", "post", "done"}]

\* The children that main() has not created are not there, and the semaphore is
\* there when main() uses it; without one nobody holds a permit.
CountingInv ==
  /\ \A k \in Counting!Kids :
       child[k] # "none" => k[1] < run \/ (k[1] = run /\ k[2] < i)
  /\ pcM = "create" => i < MaxChild
  /\ pcM \in {"wait", "create"} => exists
  /\ pcM = "end" => ~exists
  /\ pcM \in {"open", "gone"} /\ ~exists => Counting!Holders = {}
  /\ Counting!PermitsKept

\* There are finitely many children.
LEMMA KidsFinite ==
  IsFiniteSet(Counting!Kids) /\ IsFiniteSet(Counting!Holders)
<1>1. IsFiniteSet(1 .. MaxRuns) /\ IsFiniteSet(0 .. MaxChild - 1)
  BY FS_Interval, ProgramsAssumption DEF CountingFits
<1>2. IsFiniteSet(Counting!Kids)
  BY <1>1, FS_Product DEF Counting!Kids
<1> QED
  BY <1>2, FS_Subset DEF Counting!Holders

\* No child is there before main() starts.
LEMMA CountingInit ==
  ASSUME Counting!Init
  PROVE  CountingTypeOK /\ CountingInv
<1>1. Counting!Holders = {}
  BY DEF Counting!Init, Counting!Holders
<1>2. CountingTypeOK
  BY ProgramsAssumption DEF Counting!Init, CountingTypeOK, CountingFits
<1> QED
  BY <1>1, <1>2 DEF Counting!Init, CountingInv, Counting!PermitsKept

\* A step of main(), of a child or of whoever kills them keeps the ranges.
LEMMA CountingTypeStep ==
  ASSUME CountingTypeOK, CountingInv, Counting!Next \/ UNCHANGED countingVars
  PROVE  CountingTypeOK'
<1> USE DEF CountingTypeOK
<1>1. CASE Counting!MainOpen
  BY <1>1, ProgramsAssumption DEF Counting!MainOpen, CountingFits
<1>2. CASE Counting!MainWait
  BY <1>2 DEF Counting!MainWait
<1>3. CASE Counting!MainCreate
  <2>1. i + 1 \in 0 .. MaxChild
    BY <1>3, ProgramsAssumption DEF Counting!MainCreate, CountingInv, CountingFits
  <2> QED
    BY <1>3, <2>1 DEF Counting!MainCreate
<1>4. CASE Counting!Gone
  BY <1>4 DEF Counting!Gone
<1>5. CASE Counting!MainReap
  BY <1>5 DEF Counting!MainReap
<1>6. ASSUME NEW k \in Counting!Kids, Counting!Child(k) PROVE CountingTypeOK'
  BY <1>6 DEF Counting!Child, Counting!Work, Counting!EndsEarly,
              Counting!Post, Counting!Ends
<1>7. ASSUME NEW k \in Counting!Kids, Counting!KillChild(k)
      PROVE  CountingTypeOK'
  BY <1>7 DEF Counting!KillChild, Counting!Ends
<1>8. CASE Counting!Restart
  <2>1. run + 1 \in 1 .. MaxRuns
    BY <1>8, ProgramsAssumption DEF Counting!Restart, CountingFits
  <2>2. 0 \in 0 .. MaxChild
    BY ProgramsAssumption DEF CountingFits
  <2> QED
    BY <1>8, <2>1, <2>2 DEF Counting!Restart
<1>9. CASE UNCHANGED countingVars
  BY <1>9 DEF countingVars
<1> QED
  BY <1>1, <1>2, <1>3, <1>4, <1>5, <1>6, <1>7, <1>8, <1>9
  DEF Counting!Next, Counting!Running, Counting!Main, Counting!CreateFails,
      Counting!Failure, Counting!KillMain

\* A permit moves from the semaphore into main()'s hand, from there to a child,
\* and back or away.
LEMMA CountingStep ==
  ASSUME CountingTypeOK, CountingInv, CountingTypeOK',
         Counting!Next \/ UNCHANGED countingVars
  PROVE  CountingInv'
<1> DEFINE n == Cardinality(Counting!Holders)
<1>0. IsFiniteSet(Counting!Holders) /\ n \in Nat
  BY KidsFinite, FS_CardinalityType
<1>a. exists => value + n + (IF pcM = "create" THEN 1 ELSE 0) + lost = Permits
  BY CountingCardinality DEF CountingInv, Counting!PermitsKept
<1>b. ASSUME exists' => value' + Cardinality(Counting!Holders')
             + (IF pcM' = "create" THEN 1 ELSE 0) + lost' = Permits
      PROVE  Counting!PermitsKept'
  BY <1>b, CountingCardinality DEF Counting!PermitsKept
<1>1. CASE Counting!MainOpen
  <2>1. Counting!Holders' = Counting!Holders
    BY <1>1 DEF Counting!MainOpen, Counting!Holders
  <2>2. ~exists => n = 0
    BY <1>1, FS_EmptySet DEF Counting!MainOpen, CountingInv
  <2> QED
    BY <1>0, <1>a, <1>b, <1>1, <2>1, <2>2, ProgramsAssumption
    DEF Counting!MainOpen, CountingInv, CountingTypeOK,
        CountingFits
<1>2. CASE Counting!MainWait
  <2>1. Counting!Holders' = Counting!Holders
    BY <1>2 DEF Counting!MainWait, Counting!Holders
  <2> QED
    BY <1>0, <1>a, <1>b, <1>2, <2>1
    DEF Counting!MainWait, CountingInv, CountingTypeOK
<1>3. CASE Counting!MainCreate
  <2>1. <<run, i>> \in Counting!Kids /\ child[<<run, i>>] = "none"
    BY <1>3, ProgramsAssumption
    DEF Counting!MainCreate, CountingInv, CountingTypeOK, Counting!Kids,
        CountingFits
  <2>2. Counting!Holders' = Counting!Holders \cup {<<run, i>>} /\ <<run, i>> \notin Counting!Holders
    BY <1>3, <2>1 DEF Counting!MainCreate, Counting!Holders, CountingTypeOK
  <2>3. Cardinality(Counting!Holders') = n + 1
    BY <1>0, <2>2, OneMore
  <2>4. \A k \in Counting!Kids :
          child'[k] # "none" => k[1] < run \/ (k[1] = run /\ k[2] < i + 1)
    BY <1>3, <2>1
    DEF Counting!MainCreate, CountingInv, CountingTypeOK, Counting!Kids
  <2> QED
    BY <1>0, <1>a, <1>b, <1>3, <2>3, <2>4
    DEF Counting!MainCreate, CountingInv, CountingTypeOK
<1>4. CASE Counting!Gone /\ pcM \in {"wait", "create"}
  <2>1. CASE nameless
    BY <1>b, <1>4, <2>1
    DEF Counting!Gone, CountingInv, CountingTypeOK, Counting!Holders
  <2>2. CASE ~nameless
    <3>1. Counting!Holders' = Counting!Holders /\ exists' = exists
      BY <1>4, <2>2 DEF Counting!Gone, Counting!Holders
    <3> QED
      BY <1>0, <1>a, <1>b, <1>4, <2>2, <3>1
      DEF Counting!Gone, CountingInv, CountingTypeOK
  <2> QED
    BY <2>1, <2>2
<1>5. CASE Counting!MainReap
  BY <1>b, <1>5 DEF Counting!MainReap, CountingInv
<1>6. ASSUME NEW k \in Counting!Kids, Counting!Work(k) PROVE CountingInv'
  <2>1. Counting!Holders' = Counting!Holders
    BY <1>6 DEF Counting!Work, Counting!Holders, CountingTypeOK
  <2> QED
    BY <1>0, <1>a, <1>b, <1>6, <2>1
    DEF Counting!Work, CountingInv, CountingTypeOK
<1>7. ASSUME NEW k \in Counting!Kids,
             Counting!EndsEarly(k) \/ Counting!Post(k) \/ Counting!KillChild(k)
      PROVE  CountingInv'
  <2>1. /\ k \in Counting!Holders /\ Counting!Ends(k)
        /\ \/ value' = value + 1 /\ lost' = lost
           \/ value' = value /\ lost' = lost + 1
    BY <1>7
    DEF Counting!EndsEarly, Counting!Post, Counting!KillChild, Counting!Holders
  <2>2. Counting!Holders' = Counting!Holders \ {k}
    BY <2>1 DEF Counting!Ends, Counting!Holders, CountingTypeOK
  <2>3. Cardinality(Counting!Holders') = n - 1
    BY <1>0, <2>1, <2>2, OneLess
  <2>4. /\ \A l \in Counting!Kids : child'[l] # "none" => child[l] # "none"
        /\ UNCHANGED <<nameless, exists, run, i, pcM>>
    BY <2>1 DEF Counting!Ends, Counting!Holders, CountingTypeOK
  <2>5. Counting!PermitsKept'
    <3>1. exists' => value' + Cardinality(Counting!Holders')
             + (IF pcM' = "create" THEN 1 ELSE 0) + lost' = Permits
      BY <1>0, <1>a, <1>b, <2>1, <2>3, <2>4 DEF CountingTypeOK
    <3> QED
      BY <3>1, <1>b
  <2> QED
    BY <2>1, <2>2, <2>4, <2>5 DEF CountingInv
<1>8. CASE Counting!Restart
  <2>1. Counting!Holders' = Counting!Holders
    BY <1>8 DEF Counting!Restart, Counting!Holders
  <2> QED
    BY <1>0, <1>a, <1>b, <1>8, <2>1
    DEF Counting!Restart, CountingInv, CountingTypeOK, Counting!Kids
<1>9. CASE UNCHANGED countingVars
  BY <1>a, <1>b, <1>9 DEF countingVars, CountingInv, Counting!Holders
<1> QED
  BY <1>1, <1>2, <1>3, <1>4, <1>5, <1>6, <1>7, <1>8, <1>9
  DEF Counting!Next, Counting!Running, Counting!Main, Counting!CreateFails,
      Counting!Failure, Counting!KillMain, Counting!Child

\* It holds of every state of the program.
LEMMA CountingIsInvariant == Spec => [](program = "counting" => CountingTypeOK /\ CountingInv)
<1> DEFINE Inv == program = "counting" => CountingTypeOK /\ CountingInv
<1>1. Init => Inv
  BY CountingInit DEF Init
<1>2. Inv /\ [Next]_vars => Inv'
  BY SameProgram, CountingOnly, CountingTypeStep, CountingStep
<1> QED
  BY <1>1, <1>2, PTL DEF Spec

\* Every permit of posix_named_sem_cnt.c and posix_nameless_sem.c is free,
\* held by a child, in main()'s hand or lost with its holder.
THEOREM PermitsAreKept == Spec => []PermitsKept
<1>1. (program = "counting" => CountingTypeOK /\ CountingInv) => PermitsKept
  BY DEF CountingInv, PermitsKept
<1> QED
  BY <1>1, CountingIsInvariant, PTL

----------------------------------------------------------------------------
(* SignalPool                                                              *)

\* While this program is checked the steps are its own.
LEMMA PoolOnly ==
  ASSUME program = "pool", [Next]_vars
  PROVE  Pool!Next \/ UNCHANGED sigPoolVars
BY DEF Next, Running, PoolStep, Outside, Only, vars, Pool!Next, ThreadNames

\* The instance counts as the standard module does.
LEMMA PoolCardinality ==
  ASSUME NEW S PROVE Pool!Cardinality(S) = Cardinality(S)
BY DEF Pool!Cardinality, Cardinality

\* What is still to be looked at has its SIGCHLD, also from before the first
\* read.
PoolInv ==
  /\ pcP \in {"start", "read", "wait", "exit"}
  /\ started \in Nat /\ surplus \in Nat
  /\ sp_child \in [Pids -> {"free", "run", "stopped", "zombie"}]
  /\ pcP \in {"start", "read"} /\ ~sigchld => Pool!Zombies = {} /\ report = {}
  /\ pcP # "exit" => Cardinality(Pool!Used) = started + surplus

\* There are finitely many pids.
LEMMA UsedFinite ==
  IsFiniteSet(Pool!Used) /\ Cardinality(Pool!Used) \in Nat
<1>1. IsFiniteSet(Pool!Used)
  BY FS_Subset, ProgramsAssumption DEF Pool!Used
<1> QED
  BY <1>1, FS_CardinalityType

\* A fork takes one pid more.
LEMMA ForkUses ==
  ASSUME NEW table \in [Pids -> {"free", "run", "stopped", "zombie"}],
         Pool!Fork(table)
  PROVE  /\ sp_child' \in [Pids -> {"free", "run", "stopped", "zombie"}]
         /\ Cardinality(Pool!Used') =
              Cardinality({p \in Pids : table[p] # "free"}) + 1
         /\ Pool!Zombies' = {p \in Pids : table[p] = "zombie"}
<1> DEFINE U == {p \in Pids : table[p] # "free"}
<1>1. PICK q \in Pids : table[q] = "free"
                        /\ sp_child' = [table EXCEPT ![q] = "run"]
  BY DEF Pool!Fork
<1>2. IsFiniteSet(U) /\ q \notin U
  BY <1>1, FS_Subset, ProgramsAssumption
<1>3. Pool!Used' = U \cup {q}
  BY <1>1 DEF Pool!Used
<1>4. Cardinality(Pool!Used') = Cardinality(U) + 1
  BY <1>2, <1>3, OneMore
<1> QED
  BY <1>1, <1>4 DEF Pool!Zombies

\* No pid is taken before the first fork.
LEMMA PoolInit == Pool!Init => PoolInv
<1> SUFFICES ASSUME Pool!Init PROVE PoolInv
  OBVIOUS
<1>1. Pool!Used = {} /\ Pool!Zombies = {}
  BY DEF Pool!Init, Pool!Used, Pool!Zombies
<1> QED
  BY <1>1, FS_EmptySet DEF Pool!Init, PoolInv

\* What the children do and what the parent does about it keeps the count.
LEMMA PoolStepKeeps ==
  ASSUME PoolInv, Pool!Next \/ UNCHANGED sigPoolVars
  PROVE  PoolInv'
<1> USE DEF PoolInv
<1>1. ASSUME NEW p \in Pids, pcP # "exit",
             Pool!Ends(p) \/ Pool!Stops(p) \/ Pool!Continues(p)
      PROVE  PoolInv'
  <2>1. Pool!Used' = Pool!Used
    BY <1>1 DEF Pool!Ends, Pool!Stops, Pool!Continues, Pool!Becomes, Pool!Used
  <2> QED
    BY <1>1, <2>1 DEF Pool!Ends, Pool!Stops, Pool!Continues, Pool!Becomes
<1>2. CASE Pool!Start
  <2>1. /\ Cardinality(Pool!Used') = Cardinality(Pool!Used) + 1
        /\ Pool!Zombies' = Pool!Zombies
        /\ sp_child' \in [Pids -> {"free", "run", "stopped", "zombie"}]
    BY <1>2, ForkUses DEF Pool!Start, Pool!Used, Pool!Zombies
  <2> QED
    BY <1>2, <2>1, UsedFinite DEF Pool!Start
<1>3. CASE Pool!Started \/ Pool!Read \/ Pool!WaitNone \/ Pool!ForkFails
  <2>1. Pool!Used' = Pool!Used /\ Pool!Zombies' = Pool!Zombies
    BY <1>3 DEF Pool!Started, Pool!Read, Pool!WaitNone, Pool!ForkFails,
                Pool!Used, Pool!Zombies
  <2> QED
    BY <1>3, <2>1
    DEF Pool!Started, Pool!Read, Pool!WaitNone, Pool!ForkFails
<1>4. ASSUME NEW p \in Pids, Pool!WaitEnded(p) PROVE PoolInv'
  <2> DEFINE table == [sp_child EXCEPT ![p] = "free"]
             U == {q \in Pids : table[q] # "free"}
  <2>1. U = Pool!Used \ {p} /\ p \in Pool!Used
    BY <1>4 DEF Pool!WaitEnded, Pool!Used
  <2>2. Cardinality(U) + 1 = Cardinality(Pool!Used)
    BY <2>1, UsedFinite, OneLess
  <2>3. /\ Cardinality(Pool!Used') = Cardinality(U) + 1
        /\ sp_child' \in [Pids -> {"free", "run", "stopped", "zombie"}]
    BY <1>4, ForkUses DEF Pool!WaitEnded
  <2> HIDE DEF U
  <2> QED
    BY <1>4, <2>2, <2>3 DEF Pool!WaitEnded
<1>5. ASSUME NEW p \in Pids, Pool!WaitReport(p) PROVE PoolInv'
  <2>1. CASE is_refork
    <3>1. /\ Cardinality(Pool!Used') = Cardinality(Pool!Used) + 1
          /\ sp_child' \in [Pids -> {"free", "run", "stopped", "zombie"}]
      BY <1>5, <2>1, ForkUses DEF Pool!WaitReport, Pool!Used
    <3> QED
      BY <1>5, <2>1, <3>1, UsedFinite DEF Pool!WaitReport
  <2>2. CASE ~is_refork
    BY <1>5, <2>2 DEF Pool!WaitReport, Pool!Used
  <2> QED
    BY <2>1, <2>2
<1>6. CASE UNCHANGED sigPoolVars
  BY <1>6 DEF sigPoolVars, Pool!Used, Pool!Zombies
<1> QED
  BY <1>1, <1>2, <1>3, <1>4, <1>5, <1>6
  DEF Pool!Next, Pool!Parent, Pool!Outside

\* PoolInv holds of every state of the program.
LEMMA PoolIsInvariant == Spec => [](program = "pool" => PoolInv)
<1> DEFINE Inv == program = "pool" => PoolInv
<1>1. Init => Inv
  BY PoolInit DEF Init
<1>2. Inv /\ [Next]_vars => Inv'
  BY SameProgram, PoolOnly, PoolStepKeeps
<1> QED
  BY <1>1, <1>2, PTL DEF Spec

\* io_signalfd_chld.c keeps as many children as it started, and those it counts
\* too often.
THEOREM PoolIsExact == Spec => []PoolExact
<1>1. (program = "pool" => PoolInv) => PoolExact
  BY PoolCardinality DEF PoolInv, PoolExact, Pool!PoolExact
<1> QED
  BY <1>1, PoolIsInvariant, PTL

----------------------------------------------------------------------------
(* SignalThread                                                            *)

\* While this program is checked the steps are its own.
LEMMA SignalOnly ==
  ASSUME program = "signal", [Next]_vars
  PROVE  Signal!Next \/ UNCHANGED signalVars
BY DEF Next, Running, PoolStep, Outside, Only, vars, Signal!Next, ThreadNames

\* pthread_sigwait.c has the signals blocked from its first step on.
\* sig_pending.c owes nothing when it is back at the mask, has looked for all
\* it owes, and owes no SIGUSR2 behind the scan, but for the one that was late.
SignalInv ==
  /\ owed \subseteq Signal!Signals
  /\ style = "sigwait" =>
       /\ sg_pc \in {"mask", "create", "wait", "handler"} /\ ~sg_late
       /\ sg_pc # "mask" => sg_masked /\ sg_fate # "killed"
  /\ style = "pending" =>
       /\ sg_pc \in {"mask", "sleep", "look", "scan", "restore"}
       /\ sg_pc \in {"sleep", "look"} => ~sg_late
       /\ sg_fate = "alive" /\ sg_pc = "mask" => owed = {} /\ ~sg_masked
       /\ sg_pc = "scan" /\ ~sg_late /\ "USR2" \in owed => "USR2" \in found
       /\ sg_pc = "restore" /\ ~sg_late => "USR2" \notin owed
  /\ style \in {"sigwait", "pending"}
  /\ Signal!SignalsKept

\* Both programs start with nothing blocked and nothing owed.
LEMMA SignalInit == Signal!Init => SignalInv
BY DEF Signal!Init, SignalInv, Signal!SignalsKept

\* No step of either program, and no signal that is raised, breaks this.
LEMMA SignalStep ==
  ASSUME SignalInv, Signal!Next \/ UNCHANGED signalVars
  PROVE  SignalInv'
<1> USE DEF SignalInv, Signal!SignalsKept, Signal!Step
<1>1. ASSUME sg_fate = "alive", NEW s \in Signal!Signals, Signal!Raise(s)
      PROVE  SignalInv'
  BY <1>1 DEF Signal!Raise, Signal!Default, Signal!Signals
<1>2. CASE /\ sg_fate = "alive"
           /\ Signal!SigMask \/ Signal!SigCreate \/ Signal!SigHandled
  BY <1>2 DEF Signal!SigMask, Signal!SigCreate, Signal!SigHandled
<1>3. ASSUME sg_fate = "alive", NEW s \in Signal!Signals, Signal!SigWait(s)
      PROVE  SignalInv'
  BY <1>3 DEF Signal!SigWait, Signal!Signals
<1>4. CASE sg_fate = "alive" /\ (Signal!Block \/ Signal!Sleep \/ Signal!Look)
  BY <1>4 DEF Signal!Block, Signal!Sleep, Signal!Look
<1>5. CASE sg_fate = "alive" /\ Signal!Scan
  BY <1>5 DEF Signal!Scan
<1>6. CASE sg_fate = "alive" /\ Signal!Restore
  BY <1>6 DEF Signal!Restore, Signal!Signals
<1>7. CASE UNCHANGED signalVars
  BY <1>7 DEF signalVars
<1> QED
  BY <1>1, <1>2, <1>3, <1>4, <1>5, <1>6, <1>7
  DEF Signal!Next, Signal!Program

\* SignalInv holds of every state of the program.
LEMMA SignalIsInvariant == Spec => [](program = "signal" => SignalInv)
<1> DEFINE Inv == program = "signal" => SignalInv
<1>1. Init => Inv
  BY SignalInit DEF Init
<1>2. Inv /\ [Next]_vars => Inv'
  BY SameProgram, SignalOnly, SignalStep
<1> QED
  BY <1>1, <1>2, PTL DEF Spec

----------------------------------------------------------------------------
(* UdpPrograms                                                             *)

\* While this program is checked the steps are its own.
LEMMA UdpOnly ==
  ASSUME program = "udp", [Next]_vars
  PROVE  Udp!Next \/ UNCHANGED udpVars
BY DEF Next, Running, PoolStep, Outside, Only, vars, Udp!Next, ThreadNames

\* The ranges of the variables of UdpPrograms.
UdpTypeOK ==
  /\ pcR \in {"bind", "recv", "send", "exit"} /\ saddr_c \in Udp!Sources
  /\ asked \in [Udp!Sources -> Nat] /\ answers \in [Udp!Sources -> Nat]
  /\ sends \in [Udp!Sources -> Nat] /\ gone \in [Udp!Sources -> Nat]
  /\ heard \in [Udp!Sources -> Nat]

\* They are inductive with the counts of AnswerComes.
UdpInv == UdpTypeOK /\ Udp!AnswerComes

\* Nothing has been sent.
LEMMA UdpInit == Udp!Init => UdpInv
BY DEF Udp!Init, UdpInv, UdpTypeOK, Udp!AnswerComes, Udp!Zero

\* A datagram is counted where it is sent, kept, answered and heard.
LEMMA UdpStep ==
  ASSUME UdpInv, Udp!Next \/ UNCHANGED udpVars
  PROVE  UdpInv'
<1> USE DEF UdpInv, UdpTypeOK, Udp!AnswerComes
<1>1. CASE Udp!Bind
  BY <1>1 DEF Udp!Bind
<1>2. CASE Udp!Sendto
  BY <1>2 DEF Udp!Sendto
<1>3. ASSUME NEW s \in Udp!Sources, Udp!Recvfrom(s) PROVE UdpInv'
  BY <1>3 DEF Udp!Recvfrom
<1>4. ASSUME NEW s \in Udp!Sources, NEW to, Udp!Datagram(s, to)
      PROVE  UdpInv'
  BY <1>4 DEF Udp!Datagram
<1>5. ASSUME NEW s \in Udp!Sources, Udp!Answer(s) PROVE UdpInv'
  BY <1>5 DEF Udp!Answer
<1>6. CASE UNCHANGED udpVars
  BY <1>6 DEF udpVars
<1>7. Broadcaster \in Udp!Sources /\ UdpSenders \subseteq Udp!Sources
  BY DEF Udp!Sources
<1> QED
  BY <1>1, <1>2, <1>3, <1>4, <1>5, <1>6, <1>7
  DEF Udp!Next, Udp!Receiver, Udp!Broadcast, Udp!Send

\* UdpInv holds of every state of the program.
LEMMA UdpIsInvariant == Spec => [](program = "udp" => UdpInv)
<1> DEFINE Inv == program = "udp" => UdpInv
<1>1. Init => Inv
  BY UdpInit DEF Init
<1>2. Inv /\ [Next]_vars => Inv'
  BY SameProgram, UdpOnly, UdpStep
<1> QED
  BY <1>1, <1>2, PTL DEF Spec

----------------------------------------------------------------------------
(* FifoPrograms                                                            *)

\* While these programs are checked the steps are their own.
LEMMA FifoOnly ==
  ASSUME program = "fifo", [Next]_vars
  PROVE  Fifo!Next \/ UNCHANGED fifoVars
BY DEF Next, Running, PoolStep, Outside, Only, vars, Fifo!Next, Fifo!Running, ThreadNames

\* The ranges of the variables of FifoPrograms: readers read, writers write.
FifoTypeOK ==
  /\ ff_pc \in [Fifo!Programs -> {"open", "read", "eof", "getline", "write",
                                  "again", "end", "killed"}]
  /\ \A r \in FifoReaders : ff_pc[r] \in {"open", "read", "eof", "end"}
  /\ \A w \in Fifo!Writers :
       ff_pc[w] \in {"open", "getline", "write", "again", "end", "killed"}
  /\ pipe \in Nat /\ dropped \in Nat /\ late \in Nat
  /\ lines \in [Fifo!Writers -> Nat]

\* No reader will read what is in the pipe.
NobodyReads == \A r \in FifoReaders : ff_pc[r] # "read"

\* What is in the pipe when nobody reads any more came late.
FifoInv == /\ FifoTypeOK /\ dropped = 0 /\ late <= pipe
           /\ NobodyReads => pipe = late

\* The FIFO is empty before it is opened.
LEMMA FifoInit == Fifo!Init => FifoInv
BY ProgramsAssumption
DEF Fifo!Init, FifoInv, FifoTypeOK, Fifo!Programs, Fifo!Writers

\* The last one that leaves is not a reader that still reads.
LEMMA LeaveKeeps ==
  ASSUME FifoInv, NEW p \in Fifo!Programs, NEW old, NEW to,
         Fifo!Leave(p, old, to),
         \/ p \in FifoReaders /\ old = "eof" /\ to = "end"
         \/ p \in Fifo!Writers /\ old = "getline" /\ to = "end"
         \/ p \in Fifo!Writers /\ old = "write" /\ to = "killed"
  PROVE  FifoInv'
<1> USE DEF FifoInv
<1>1. /\ ff_pc[p] = old /\ ff_pc' = [ff_pc EXCEPT ![p] = to]
      /\ UNCHANGED lines
  BY DEF Fifo!Leave, Fifo!Goto
<1>2. FifoReaders \subseteq Fifo!Programs /\ Fifo!Writers \subseteq Fifo!Programs
      /\ FifoReaders \cap Fifo!Writers = {}
  BY ProgramsAssumption DEF Fifo!Programs, Fifo!Writers
<1>3. NobodyReads' <=> NobodyReads
  BY <1>1, <1>2 DEF NobodyReads, FifoTypeOK
<1>4. CASE Fifo!Open(Fifo!Programs) = {p}
  <2>1. NobodyReads
    BY <1>1, <1>2, <1>4 DEF Fifo!Open, NobodyReads
  <2>2. pipe' = 0 /\ late' = 0 /\ dropped' = dropped + (pipe - late)
    BY <1>4 DEF Fifo!Leave
  <2> QED
    BY <1>1, <1>2, <2>1, <2>2 DEF FifoTypeOK
<1>5. CASE Fifo!Open(Fifo!Programs) # {p}
  <2>1. UNCHANGED <<pipe, dropped, late>>
    BY <1>5 DEF Fifo!Leave
  <2> QED
    BY <1>1, <1>2, <1>3, <2>1 DEF FifoTypeOK
<1> QED
  BY <1>4, <1>5

\* Whatever a reader or a writer does, only what came late is dropped.
LEMMA FifoStep ==
  ASSUME FifoInv, Fifo!Next \/ UNCHANGED fifoVars
  PROVE  FifoInv'
<1> USE DEF FifoInv
<1>0. /\ FifoReaders \subseteq Fifo!Programs
      /\ Fifo!Writers \subseteq Fifo!Programs
      /\ PlainWriters \subseteq Fifo!Writers
      /\ HandlingWriters \subseteq Fifo!Writers
      /\ FifoReaders \cap Fifo!Writers = {}
  BY ProgramsAssumption DEF Fifo!Programs, Fifo!Writers
<1>1. ASSUME NEW r \in FifoReaders, NEW w \in Fifo!Writers, Fifo!Meet(r, w)
      PROVE  FifoInv'
  BY <1>0, <1>1 DEF Fifo!Meet, Fifo!Open, FifoTypeOK, NobodyReads
<1>2. ASSUME NEW r \in FifoReaders, Fifo!Read(r) \/ Fifo!ReadZero(r)
      PROVE  FifoInv'
  BY <1>0, <1>2 DEF Fifo!Read, Fifo!ReadZero, Fifo!Goto, FifoTypeOK, NobodyReads
<1>3. ASSUME NEW r \in FifoReaders, Fifo!ReaderExit(r) PROVE FifoInv'
  BY <1>0, <1>3, LeaveKeeps DEF Fifo!ReaderExit
<1>4. ASSUME NEW w \in Fifo!Writers,
             Fifo!WriterExit(w) \/ Fifo!WriterKilled(w)
      PROVE  FifoInv'
  BY <1>0, <1>4, LeaveKeeps DEF Fifo!WriterExit, Fifo!WriterKilled
<1>5. ASSUME NEW w \in Fifo!Writers, Fifo!Getline(w) \/ Fifo!WriteFails(w)
      PROVE  FifoInv'
  BY <1>0, <1>5 DEF Fifo!Getline, Fifo!WriteFails, Fifo!Goto, Fifo!NextWrite,
                    FifoTypeOK, NobodyReads
<1>6. ASSUME NEW w \in Fifo!Writers, Fifo!Write(w) PROVE FifoInv'
  <2>1. /\ pipe' = pipe + 1 /\ UNCHANGED <<lines, dropped>>
        /\ ff_pc' = [ff_pc EXCEPT ![w] = Fifo!NextWrite(w)]
        /\ late' \in {late, late + 1}
        /\ (\A r \in Fifo!Open(FifoReaders) : ff_pc[r] = "eof")
             => late' = late + 1
    BY <1>6 DEF Fifo!Write, Fifo!Goto, FifoTypeOK
  <2>2. NobodyReads => \A r \in Fifo!Open(FifoReaders) : ff_pc[r] = "eof"
    BY DEF NobodyReads, Fifo!Open, FifoTypeOK
  <2>3. FifoTypeOK' /\ (NobodyReads' => NobodyReads)
    BY <1>0, <2>1 DEF Fifo!NextWrite, FifoTypeOK, NobodyReads
  <2> QED
    BY <2>1, <2>2, <2>3 DEF FifoTypeOK
<1>7. CASE UNCHANGED fifoVars
  BY <1>7 DEF fifoVars, FifoTypeOK, NobodyReads
<1> QED
  BY <1>0, <1>1, <1>2, <1>3, <1>4, <1>5, <1>6, <1>7
  DEF Fifo!Next, Fifo!Running, Fifo!Reader, Fifo!Writer, Fifo!Typed

\* FifoInv holds of every state of the program.
LEMMA FifoIsInvariant == Spec => [](program = "fifo" => FifoInv)
<1> DEFINE Inv == program = "fifo" => FifoInv
<1>1. Init => Inv
  BY FifoInit DEF Init
<1>2. Inv /\ [Next]_vars => Inv'
  BY SameProgram, FifoOnly, FifoStep
<1> QED
  BY <1>1, <1>2, PTL DEF Spec

----------------------------------------------------------------------------
(* OobServer                                                               *)

\* While this program is checked the steps are its own.
LEMMA OobOnly ==
  ASSUME program = "oob", [Next]_vars
  PROVE  Oob!Next \/ UNCHANGED oobVars
BY DEF Next, Running, PoolStep, Outside, Only, vars, Oob!Next, ThreadNames

\* A normal byte, and the urgent one.
Bytes == {"n", "u"}

\* recv of normal bytes starts at the mark only when the mark came meanwhile.
OobInv ==
  /\ strm \in Seq(Bytes)
  /\ Oob!TypeOK
  /\ oob_pc = "normal" /\ urgent /\ Oob!AtMark => missed

\* The stream is empty.
LEMMA OobInit == Oob!Init => OobInv
BY ProgramsAssumption DEF Oob!Init, OobInv, Oob!TypeOK, Oob!AtMark, Bytes

\* The bytes that are left of a stream whose mark moves on are normal ones.
LEMMA UnmarkedBytes ==
  ASSUME strm \in Seq(Bytes)
  PROVE  Oob!Unmarked \in Seq({"n"})
<1> DEFINE rest == IF Oob!AtMark THEN Tail(strm) ELSE strm
<1>1. rest \in Seq(Bytes)
  BY HeadTailProperties DEF Oob!AtMark
<1>2. Oob!Unmarked = [k \in 1 .. Len(rest) |-> "n"] /\ Len(rest) \in Nat
  BY <1>1, LenProperties DEF Oob!Unmarked
<1> HIDE DEF rest
<1> QED
  BY <1>2, IsASeq

\* What recv leaves of the stream.
LEMMA StreamBytes ==
  ASSUME strm \in Seq(Bytes), NEW n \in 1 .. Len(Oob!Stream)
  PROVE  SubSeq(Oob!Stream, n + 1, Len(Oob!Stream)) \in Seq(Bytes)
<1>1. Oob!Stream \in Seq(Bytes)
  BY HeadTailProperties DEF Oob!Stream, Oob!AtMark
<1>2. Len(Oob!Stream) \in Nat
  BY <1>1, LenProperties
<1>3. \A k \in n + 1 .. Len(Oob!Stream) : Oob!Stream[k] \in Bytes
  BY <1>1, <1>2, ElementOfSeq
<1> QED
  BY <1>1, <1>2, <1>3, SubSeqProperties

\* What the client sends and what the child receives keeps the mark at the head.
LEMMA OobStep ==
  ASSUME OobInv, Oob!Next \/ UNCHANGED oobVars
  PROVE  OobInv'
<1>0. strm \in Seq(Bytes) /\ Oob!TypeOK
  BY DEF OobInv
<1>1. CASE Oob!Connect
  BY <1>1 DEF Oob!Connect, OobInv, Oob!TypeOK, Oob!AtMark
<1>2. CASE Oob!Send /\ Oob!SendNormal
  <2>1. strm' = Append(strm, "n") /\ "n" \in Bytes
    BY <1>2 DEF Oob!Send, Oob!SendNormal, Bytes
  <2>2. strm' \in Seq(Bytes) /\ (Oob!AtMark' => Oob!AtMark)
    BY <1>0, <2>1, AppendProperties, EmptySeq DEF Oob!AtMark
  <2> QED
    BY <1>2, <2>2 DEF Oob!Send, Oob!SendNormal, OobInv, Oob!TypeOK
<1>3. CASE Oob!Send /\ Oob!SendUrgent
  <2>1. /\ strm' = Append(Oob!Unmarked, "u")
        /\ missed' = (Oob!Unmarked = <<>> /\ oob_pc = "normal")
        /\ UNCHANGED <<link, cum, oob_pc>>
    BY <1>3 DEF Oob!Send, Oob!SendUrgent
  <2>2. Oob!Unmarked \in Seq({"n"}) /\ Oob!Unmarked \in Seq(Bytes)
    BY <1>0, UnmarkedBytes, SeqMonotonic DEF Bytes
  <2>3. strm' \in Seq(Bytes)
    BY <2>1, <2>2, AppendProperties DEF Bytes
  <2>4. Oob!AtMark' => Oob!Unmarked = <<>>
    <3> SUFFICES ASSUME Oob!Unmarked # <<>> PROVE Head(strm') # "u"
      BY DEF Oob!AtMark
    <3>1. Head(strm') = Head(Oob!Unmarked) /\ Head(Oob!Unmarked) \in {"n"}
      BY <2>1, <2>2, AppendProperties, HeadTailProperties, HeadTailAppend
    <3> QED
      BY <3>1
  <2> QED
    BY <1>0, <2>1, <2>3, <2>4 DEF OobInv, Oob!TypeOK
<1>4. CASE Oob!Leave
  BY <1>4 DEF Oob!Leave, OobInv, Oob!TypeOK, Oob!AtMark
<1>5. CASE Oob!Accept
  BY <1>5, ProgramsAssumption DEF Oob!Accept, OobInv, Oob!TypeOK
<1>6. CASE Oob!SockAtMark
  BY <1>6 DEF Oob!SockAtMark, OobInv, Oob!TypeOK, Oob!AtMark
<1>7. CASE Oob!RecvNormal
  <2>1. PICK n \in Oob!Upto :
             /\ n <= BufSize - cum /\ cum' = cum + n
             /\ strm' = SubSeq(Oob!Stream, n + 1, Len(Oob!Stream))
    BY <1>7 DEF Oob!RecvNormal
  <2>2. n \in 1 .. Len(Oob!Stream) /\ n \in Nat \ {0}
    BY DEF Oob!Upto
  <2>3. strm' \in Seq(Bytes)
    BY <1>0, <2>1, <2>2, StreamBytes
  <2>4. cum' \in 0 .. BufSize
    BY <1>0, <2>1, <2>2, ProgramsAssumption DEF Oob!TypeOK
  <2> QED
    BY <1>7, <2>3, <2>4, ProgramsAssumption
    DEF Oob!RecvNormal, OobInv, Oob!TypeOK
<1>8. CASE Oob!RecvFails
  BY <1>8, ProgramsAssumption DEF Oob!RecvFails, OobInv, Oob!TypeOK
<1>9. CASE Oob!RecvZero
  BY <1>9 DEF Oob!RecvZero, OobInv, Oob!TypeOK
<1>10. CASE Oob!RecvUrgent
  BY <1>10, ProgramsAssumption DEF Oob!RecvUrgent, OobInv, Oob!TypeOK
<1>11. CASE Oob!RecvAgain \/ Oob!RecvUrgentFails
  BY <1>11 DEF Oob!RecvAgain, Oob!RecvUrgentFails, OobInv, Oob!TypeOK
<1>12. CASE UNCHANGED oobVars
  BY <1>12 DEF oobVars, OobInv, Oob!TypeOK, Oob!AtMark
<1> QED
  BY <1>1, <1>2, <1>3, <1>4, <1>5, <1>6, <1>7, <1>8, <1>9, <1>10, <1>11, <1>12
  DEF Oob!Next, Oob!Client, Oob!Child, Oob!Send

\* OobInv holds of every state of the program.
LEMMA OobIsInvariant == Spec => [](program = "oob" => OobInv)
<1> DEFINE Inv == program = "oob" => OobInv
<1>1. Init => Inv
  BY OobInit DEF Init
<1>2. Inv /\ [Next]_vars => Inv'
  BY SameProgram, OobOnly, OobStep
<1> QED
  BY <1>1, <1>2, PTL DEF Spec

\* inet_tcp_serv1_OOB.c: recv of normal bytes passes over an urgent byte only if
\* it came after the mark was looked for.
THEOREM UrgentIsKept == Spec => UrgentKept
<1> DEFINE Inv == program = "oob" => OobInv
           Kept == program = "oob" /\ oob_pc = "normal" /\ oob_pc' = "mark"
                     /\ urgent /\ ~urgent' => missed
<1>1. Inv /\ [Next]_vars => [Kept]_vars
  <2> SUFFICES ASSUME Inv, [Next]_vars, program = "oob", oob_pc = "normal",
                      oob_pc' = "mark", urgent, ~urgent'
               PROVE  missed
    OBVIOUS
  <2>1. Oob!RecvNormal
    BY OobOnly
    DEF Oob!Next, Oob!Client, Oob!Child, Oob!Connect, Oob!Send, Oob!Leave,
        Oob!Accept, Oob!SockAtMark, Oob!RecvFails, Oob!RecvZero, Oob!RecvUrgent,
        Oob!RecvAgain, Oob!RecvUrgentFails, oobVars
  <2> QED
    BY <2>1 DEF Oob!RecvNormal, OobInv
<1> QED
  BY <1>1, OobIsInvariant, PTL DEF Spec, UrgentKept

----------------------------------------------------------------------------
(* RtsNotify                                                               *)

\* While this program is checked the steps are its own.
LEMMA NotifyOnly ==
  ASSUME program = "notify", [Next]_vars
  PROVE  Notify!Next \/ UNCHANGED notifyVars
BY DEF Next, Running, PoolStep, Outside, Only, vars, Notify!Next, ThreadNames

\* The instance counts as the standard module does.
LEMMA NotifyCardinality ==
  ASSUME NEW S PROVE Notify!Cardinality(S) = Cardinality(S)
BY DEF Notify!Cardinality, Cardinality

\* The ranges of the variables of RtsNotify.
NotifyTypeOK ==
  /\ rn_main \in {"mask", "create"} /\ born \subseteq Workers
  /\ waiter \in {"none", "wait", "print"}
  /\ rn_pc \in [Workers -> {"pop", "notify"}]
  /\ jobs \in [Workers -> Nat] /\ printed \in [Workers -> Nat]
  /\ rn_queued \in Seq(Workers) /\ from \in Workers

\* A job is a signal in the queue, one that a thread has taken, or printed.
Announced == \A w \in Workers :
  jobs[w] = printed[w] + Times(rn_queued, w)
              + (IF waiter = "print" /\ from = w THEN 1 ELSE 0)

\* No thread runs before the signals are blocked.
NotifyInv ==
  /\ NotifyTypeOK
  /\ rn_main = "mask" => born = {} /\ waiter = "none"
  /\ rn_main # "mask" => rn_masked
  /\ \A w \in Workers : rn_pc[w] = "notify" => w \in born
  /\ fate # "killed"
  /\ Announced

\* No thread runs, and no signal is queued.
LEMMA NotifyInit == Notify!Init => NotifyInv
<1> SUFFICES ASSUME Notify!Init PROVE NotifyInv
  OBVIOUS
<1>1. \A w \in Workers : Times(<<>>, w) = 0
  <2>1. \A w : {k \in 1 .. Len(<<>>) : <<>>[k] = w} = {}
    BY EmptySeq
  <2> QED
    BY <2>1, FS_EmptySet DEF Times
<1> QED
  BY <1>1, EmptySeq DEF Notify!Init, NotifyInv, NotifyTypeOK, Announced, Notify!NoneYet

\* A job queued is one signal more for its waiter; one taken is one less.
LEMMA NotifyStep ==
  ASSUME NotifyInv, Notify!Next \/ UNCHANGED notifyVars
  PROVE  NotifyInv'
<1>0. /\ NotifyTypeOK /\ Announced
      /\ \A w \in Workers : Times(rn_queued, w) \in Nat
  BY TimesIsNat DEF NotifyInv, NotifyTypeOK
<1> USE DEF NotifyTypeOK
<1>1. CASE Notify!Mask
  BY <1>1 DEF Notify!Mask, NotifyInv, Announced
<1>2. CASE Notify!Create
  BY <1>2 DEF Notify!Create, NotifyInv, Announced
<1>3. CASE Notify!CreateFails \/ Notify!AExit
  BY <1>3 DEF Notify!CreateFails, Notify!AExit, NotifyInv, Announced
<1>4. ASSUME NEW w \in Workers, Notify!Job(w) \/ Notify!NotifyFails(w)
      PROVE  NotifyInv'
  BY <1>4 DEF Notify!Job, Notify!NotifyFails, NotifyInv, Announced
<1>5. ASSUME NEW w \in Workers, Notify!Notify(w) PROVE NotifyInv'
  <2>1. /\ rn_queued' = Append(rn_queued, w) /\ jobs' = [jobs EXCEPT ![w] = @ + 1]
        /\ rn_pc' = [rn_pc EXCEPT ![w] = "pop"] /\ rn_main # "mask" /\ rn_masked
        /\ fate' # "killed"
        /\ UNCHANGED <<rn_main, rn_masked, born, waiter, from, printed>>
    BY <1>5 DEF NotifyInv, Notify!Notify, Notify!Sent
  <2>2. \A v \in Workers : Times(rn_queued', v)
                             = Times(rn_queued, v) + (IF w = v THEN 1 ELSE 0)
    BY <1>0, <2>1, TimesAppend
  <2>3. rn_queued' \in Seq(Workers)
    BY <1>0, <2>1, AppendProperties
  <2>4. Announced'
    <3> SUFFICES ASSUME NEW v \in Workers
        PROVE  jobs'[v] = printed'[v] + Times(rn_queued', v)
                            + (IF waiter' = "print" /\ from' = v THEN 1 ELSE 0)
      BY DEF Announced
    <3>1. /\ jobs'[v] = jobs[v] + (IF w = v THEN 1 ELSE 0)
          /\ jobs[v] \in Nat /\ printed[v] \in Nat
      BY <1>0, <2>1
    <3>2. UNCHANGED <<printed, waiter, from>>
      BY <2>1
    <3>3. jobs[v] = printed[v] + Times(rn_queued, v)
                      + (IF waiter = "print" /\ from = v THEN 1 ELSE 0)
      BY <1>0 DEF Announced
    <3>4. Times(rn_queued', v) = Times(rn_queued, v) + (IF w = v THEN 1 ELSE 0)
      BY <2>2
    <3>5. Times(rn_queued, v) \in Nat
      BY <1>0
    <3> QED
      BY <3>1, <3>2, <3>3, <3>4, <3>5
  <2> QED
    BY <2>1, <2>3, <2>4 DEF NotifyInv
<1>6. CASE Notify!SigWait
  <2>1. /\ waiter = "wait" /\ waiter' = "print" /\ rn_queued # <<>>
        /\ from' = Head(rn_queued) /\ rn_queued' = Tail(rn_queued)
        /\ UNCHANGED <<rn_main, rn_masked, born, rn_pc, jobs, printed, fate>>
    BY <1>6 DEF Notify!SigWait
  <2>2. rn_queued' \in Seq(Workers) /\ from' \in Workers
    BY <1>0, <2>1, HeadTailProperties
  <2>3. \A v \in Workers : Times(rn_queued, v)
                    = Times(rn_queued', v) + (IF from' = v THEN 1 ELSE 0)
    BY <1>0, <2>1, TimesTail
  <2>4. \A v \in Workers : Times(rn_queued', v) \in Nat
    BY <2>2, TimesIsNat
  <2>5. Announced'
    <3>1. waiter = "wait" /\ waiter' = "print" /\ UNCHANGED <<jobs, printed>>
      BY <2>1
    <3> QED
      BY <1>0, <2>3, <2>4, <3>1 DEF Announced
  <2> QED
    BY <2>1, <2>2, <2>5 DEF NotifyInv
<1>7. CASE Notify!SigPrint
  <2>1. Announced'
    BY <1>0, <1>7 DEF Notify!SigPrint, Announced
  <2> QED
    BY <1>7, <2>1 DEF NotifyInv, Notify!SigPrint
<1>8. CASE UNCHANGED notifyVars
  BY <1>8 DEF notifyVars, NotifyInv, Announced
<1> QED
  BY <1>1, <1>2, <1>3, <1>4, <1>5, <1>6, <1>7, <1>8
  DEF Notify!Next, Notify!Running, Notify!Main, Notify!ThreadB

\* What the run checks of cond_var_rts.c.
LEMMA NotifyPromises ==
  ASSUME NotifyInv PROVE Notify!NotKilled /\ Notify!NotifiedOnce
<1>1. \A w \in Workers : Notify!Pending(w) = Times(rn_queued, w)
                   + (IF waiter = "print" /\ from = w THEN 1 ELSE 0)
  BY NotifyCardinality DEF Notify!Pending, Times
<1>2. \A w \in Workers : Times(rn_queued, w) \in Nat
  BY TimesIsNat DEF NotifyInv, NotifyTypeOK
<1> QED
  BY <1>1, <1>2 DEF NotifyInv, NotifyTypeOK, Notify!NotKilled,
      Notify!NotifiedOnce, Announced

\* NotifyInv holds of every state of the program.
LEMMA NotifyIsInvariant == Spec => [](program = "notify" => NotifyInv)
<1> DEFINE Inv == program = "notify" => NotifyInv
<1>1. Init => Inv
  BY NotifyInit DEF Init
<1>2. Inv /\ [Next]_vars => Inv'
  BY SameProgram, NotifyOnly, NotifyStep
<1> QED
  BY <1>1, <1>2, PTL DEF Spec

----------------------------------------------------------------------------
(* SysvMsg                                                                 *)

\* While this program is checked the steps are its own.
LEMMA MsgOnly ==
  ASSUME program = "msg", [Next]_vars
  PROVE  /\ program' = "msg"
         /\ Msg!Next \/ UNCHANGED msgVars
BY DEF Next, Running, PoolStep, Outside, Only, vars, Msg!Next, ThreadNames

\* A line of a sender, numbered, with its type and the queue it went to.
Message == [from : MsgSenders, number : Nat, type : MsgTypes, at : Msg!Ids]

\* The ranges of the variables of SysvMsg.
MsgTyped ==
  /\ mtype \in [MsgReceivers -> MsgTypes] /\ named \in Nat /\ sm_made \in Nat
  /\ queue \in [Msg!Ids -> Seq(Message)]
  /\ sm_pc \in [Msg!Users -> {"get", "attach", "send", "getchar", "receive",
                              "asleep", "remove", "end"}]
  /\ msg_id \in [Msg!Users -> Nat] /\ line \in [MsgSenders -> Nat]
  /\ taken \subseteq Message /\ sm_dropped \subseteq Message

\* A queue a program works with, or the key names, is one of those made.
QueuesMade ==
  /\ sm_made <= MaxQueues /\ named <= sm_made
  /\ \A p \in Msg!Users : /\ msg_id[p] <= sm_made
                          /\ sm_pc[p] \notin {"get", "attach", "end"} => msg_id[p] # 0

\* The messages of a sender stand in a queue in the order of their lines.
SeqNumbered(s, q) ==
  /\ \A k \in 1 .. Len(s) : s[k].at = q /\ s[k].number <= line[s[k].from]
  /\ \A k, l \in 1 .. Len(s) :
       k < l /\ s[k].from = s[l].from => s[k].number < s[l].number

\* Every queue is in order, and no message is older than its sender's last line.
Numbered ==
  /\ \A q \in Msg!Ids : SeqNumbered(queue[q], q)
  /\ \A m \in taken \cup sm_dropped : m.number <= line[m.from]

\* A program that sends or receives has a queue that was made.
LEMMA HasQueue ==
  ASSUME MsgTyped, QueuesMade,
         NEW p \in Msg!Users, sm_pc[p] \notin {"get", "attach", "end"}
  PROVE  msg_id[p] \in Msg!Ids
<1>1. MaxQueues \in Nat
  BY ProgramsAssumption
<1>2. /\ msg_id[p] \in Nat /\ msg_id[p] # 0 /\ msg_id[p] <= sm_made
      /\ sm_made \in Nat /\ sm_made <= MaxQueues
  BY DEF MsgTyped, QueuesMade
<1> QED
  BY <1>1, <1>2 DEF Msg!Ids

\* These make MessagesMeet inductive.
MsgInv == MsgTyped /\ QueuesMade /\ Numbered /\ Msg!MessagesMeet

\* There is no queue and no message.
LEMMA MsgInit ==
  ASSUME Msg!Init
  PROVE  MsgInv
<1>1. MsgTyped /\ QueuesMade
  BY ProgramsAssumption DEF Msg!Init, MsgTyped, QueuesMade
<1>2. Numbered
  BY DEF Msg!Init, Numbered, SeqNumbered
<1>3. Msg!MessagesMeet
  <2>1. Msg!Queued = {}
    BY DEF Msg!Init, Msg!Queued, Msg!ToSet
  <2> QED
    BY <2>1 DEF Msg!Init, Msg!MessagesMeet, Msg!Users
<1> QED
  BY <1>1, <1>2, <1>3 DEF MsgInv

\* What is left of a sequence when one element is taken out.
LEMMA Removed ==
  ASSUME NEW S, NEW s \in Seq(S), NEW k \in 1 .. Len(s)
  PROVE  /\ Msg!RemoveAt(s, k) \in Seq(S)
         /\ Len(Msg!RemoveAt(s, k)) = Len(s) - 1
         /\ \A j \in 1 .. Len(s) - 1 :
              Msg!RemoveAt(s, k)[j] = IF j < k THEN s[j] ELSE s[j + 1]
<1> DEFINE front == SubSeq(s, 1, k - 1)
           back == SubSeq(s, k + 1, Len(s))
<1>1. front \in Seq(S) /\ Len(front) = k - 1
      /\ \A j \in 1 .. k - 1 : front[j] = s[j]
  BY SubSeqProperties
<1>2. back \in Seq(S) /\ Len(back) = Len(s) - k
      /\ \A j \in 1 .. Len(s) - k : back[j] = s[k + j]
  BY SubSeqProperties
<1>3. Msg!RemoveAt(s, k) = front \o back
  BY DEF Msg!RemoveAt
<1> HIDE DEF front, back
<1>4. /\ front \o back \in Seq(S) /\ Len(front \o back) = Len(s) - 1
      /\ \A j \in 1 .. Len(s) - 1 :
           (front \o back)[j] = IF j <= Len(front) THEN front[j]
                                ELSE back[j - Len(front)]
  <2>1. /\ front \o back \in Seq(S)
        /\ Len(front \o back) = Len(front) + Len(back)
        /\ \A j \in 1 .. Len(front) + Len(back) :
             (front \o back)[j] = IF j <= Len(front) THEN front[j]
                                  ELSE back[j - Len(front)]
    BY <1>1, <1>2, ConcatProperties
  <2>2. Len(front) + Len(back) = Len(s) - 1
    BY <1>1, <1>2, LenProperties
  <2> QED
    BY <2>1, <2>2
<1>5. ASSUME NEW j \in 1 .. Len(s) - 1, j >= k
      PROVE  back[j - Len(front)] = s[j + 1]
  <2>0. Len(front) = k - 1 /\ k \in Nat /\ Len(s) \in Nat
    BY <1>1, LenProperties
  <2>1. j - Len(front) \in 1 .. Len(s) - k /\ k + (j - Len(front)) = j + 1
    BY <2>0, <1>5
  <2> QED
    BY <2>1, <1>2
<1> QED
  BY <1>1, <1>3, <1>4, <1>5

\* What is in the queues, by place.
LEMMA InQueue ==
  ASSUME MsgTyped
  PROVE  \A m : m \in Msg!Queued <=>
           \E q \in Msg!Ids : \E k \in 1 .. Len(queue[q]) : m = queue[q][k]
<1> \A q \in Msg!Ids : DOMAIN queue[q] = 1 .. Len(queue[q])
  BY DEF MsgTyped
<1> QED
  BY DEF Msg!Queued, Msg!ToSet

\* MessagesMeet with the places of the messages.
Meet ==
  /\ \A q \in Msg!Ids \ {named} : queue[q] = <<>>
  /\ taken \cap sm_dropped = {}
  /\ \A q \in Msg!Ids : \A k \in 1 .. Len(queue[q]) :
       /\ queue[q][k] \notin taken \cup sm_dropped
       /\ \A t \in taken :
            queue[q][k].from = t.from /\ queue[q][k].type = t.type /\ q = t.at
              => t.number < queue[q][k].number
  /\ \A r \in MsgReceivers : sm_pc[r] = "asleep" =>
       /\ msg_id[r] = named
       /\ \A k \in 1 .. Len(queue[msg_id[r]]) :
            ~Msg!Wants(r, queue[msg_id[r]][k].type)

\* The two say the same.
LEMMA MeetIs ==
  ASSUME MsgTyped, QueuesMade, Numbered
  PROVE  Meet <=> Msg!MessagesMeet
<1>1. \A r \in MsgReceivers : sm_pc[r] = "asleep" =>
        /\ msg_id[r] \in Msg!Ids
        /\ Msg!Matches(r) = {} <=>
             \A k \in 1 .. Len(queue[msg_id[r]]) :
               ~Msg!Wants(r, queue[msg_id[r]][k].type)
  <2> SUFFICES ASSUME NEW r \in MsgReceivers, sm_pc[r] = "asleep"
      PROVE  /\ msg_id[r] \in Msg!Ids
             /\ Msg!Matches(r) = {} <=>
                  \A k \in 1 .. Len(queue[msg_id[r]]) :
                    ~Msg!Wants(r, queue[msg_id[r]][k].type)
    OBVIOUS
  <2>1. msg_id[r] \in Msg!Ids
    BY HasQueue DEF Msg!Users
  <2>2. queue[msg_id[r]] \in Seq(Message)
    BY <2>1 DEF MsgTyped
  <2>3. DOMAIN queue[msg_id[r]] = 1 .. Len(queue[msg_id[r]])
    BY <2>2, LenProperties
  <2> QED
    BY <2>1, <2>3 DEF Msg!Matches
<1>2. \A q \in Msg!Ids : \A k \in 1 .. Len(queue[q]) : queue[q][k].at = q
  BY DEF Numbered, SeqNumbered
<1>3. (Msg!Queued \cap (taken \cup sm_dropped) = {}) <=>
        \A q \in Msg!Ids : \A k \in 1 .. Len(queue[q]) :
           queue[q][k] \notin taken \cup sm_dropped
  BY InQueue
<1>4. (\A m \in Msg!Queued, t \in taken :
         m.from = t.from /\ m.type = t.type /\ m.at = t.at => t.number < m.number)
      <=> \A q \in Msg!Ids : \A k \in 1 .. Len(queue[q]) : \A t \in taken :
            queue[q][k].from = t.from /\ queue[q][k].type = t.type /\ q = t.at
              => t.number < queue[q][k].number
  <2>1. \A q \in Msg!Ids : \A k \in 1 .. Len(queue[q]) : queue[q][k] \in Msg!Queued
    BY InQueue
  <2>2. \A m \in Msg!Queued : \E q \in Msg!Ids : \E k \in 1 .. Len(queue[q]) :
          m = queue[q][k] /\ m.at = q
    BY <1>2, InQueue
  <2> DEFINE later(m, t) == m.from = t.from /\ m.type = t.type => t.number < m.number
  <2>3. (\A m \in Msg!Queued, t \in taken : m.at = t.at => later(m, t)) <=>
          \A q \in Msg!Ids : \A k \in 1 .. Len(queue[q]) : \A t \in taken :
            q = t.at => later(queue[q][k], t)
    <3> HIDE DEF later
    <3>1. ASSUME \A m \in Msg!Queued, t \in taken : m.at = t.at => later(m, t),
                 NEW q \in Msg!Ids, NEW k \in 1 .. Len(queue[q]), NEW t \in taken,
                 q = t.at
          PROVE  later(queue[q][k], t)
      <4>1. queue[q][k] \in Msg!Queued /\ queue[q][k].at = t.at
        BY <1>2, <2>1, <3>1
      <4> QED
        BY <3>1, <4>1
    <3>2. ASSUME \A q \in Msg!Ids : \A k \in 1 .. Len(queue[q]) : \A t \in taken :
                   q = t.at => later(queue[q][k], t),
                 NEW m \in Msg!Queued, NEW t \in taken, m.at = t.at
          PROVE  later(m, t)
      BY <2>2, <3>2
    <3> QED
      BY <3>1, <3>2
  <2> QED
    BY <2>3
<1>5. (\A r \in MsgReceivers :
         sm_pc[r] = "asleep" => Msg!Matches(r) = {} /\ msg_id[r] = named)
      <=> \A r \in MsgReceivers : sm_pc[r] = "asleep" =>
            /\ msg_id[r] = named
            /\ \A k \in 1 .. Len(queue[msg_id[r]]) :
                 ~Msg!Wants(r, queue[msg_id[r]][k].type)
  BY <1>1
<1>6. (Msg!Queued \cap (taken \cup sm_dropped) = {}) /\ taken \cap sm_dropped = {}
      /\ (\A m \in Msg!Queued, t \in taken :
            m.from = t.from /\ m.type = t.type /\ m.at = t.at => t.number < m.number)
      <=> /\ taken \cap sm_dropped = {}
          /\ \A q \in Msg!Ids : \A k \in 1 .. Len(queue[q]) :
               /\ queue[q][k] \notin taken \cup sm_dropped
               /\ \A t \in taken :
                    queue[q][k].from = t.from /\ queue[q][k].type = t.type /\ q = t.at
                      => t.number < queue[q][k].number
  BY <1>3, <1>4
<1> QED
  BY <1>5, <1>6 DEF Meet, Msg!MessagesMeet

\* What Send does, apart from the rest of the step.
LEMMA SendTyped ==
  ASSUME MsgInv, NEW s \in MsgSenders, NEW t \in MsgTypes, Msg!Send(s, t)
  PROVE  /\ msg_id[s] \in Msg!Ids
         /\ line[s] \in Nat /\ line' \in [MsgSenders -> Nat]
         /\ line'[s] = line[s] + 1
         /\ \A u \in MsgSenders : line[u] <= line'[u]
         /\ [from |-> s, number |-> line'[s], type |-> t, at |-> msg_id[s]] \in Message
<1>1. msg_id[s] \in Msg!Ids
  BY HasQueue DEF Msg!Send, Msg!Users, MsgInv
<1>2. line \in [MsgSenders -> Nat] /\ line' = [line EXCEPT ![s] = @ + 1]
  BY DEF Msg!Send, Msg!ReadLine, MsgInv, MsgTyped
<1> QED
  BY <1>1, <1>2 DEF Message

\* A sender that reads a line gives it the next number.
LEMMA LineGrows ==
  ASSUME MsgTyped, NEW s \in MsgSenders, Msg!ReadLine(s)
  PROVE  /\ line' \in [MsgSenders -> Nat]
         /\ \A u \in MsgSenders : line[u] <= line'[u]
BY DEF Msg!ReadLine, MsgTyped

\* A step of a sender or a receiver keeps the ranges.
LEMMA MsgTypedStep ==
  ASSUME MsgInv, Msg!Next
  PROVE  MsgTyped' /\ QueuesMade'
<1> USE DEF MsgTyped, QueuesMade, Msg!Goto, Msg!Users
<1>1. ASSUME NEW p \in Msg!Users, Msg!Make(p) PROVE MsgTyped' /\ QueuesMade'
  <2>1. sm_made + 1 <= MaxQueues /\ sm_made' = sm_made + 1 /\ named' = sm_made + 1
    BY <1>1, ProgramsAssumption DEF Msg!Make, MsgInv
  <2> QED
    BY <1>1, <2>1 DEF Msg!Make, Msg!Role, MsgInv
<1>2. ASSUME NEW p \in Msg!Users, Msg!Exists(p) PROVE MsgTyped' /\ QueuesMade'
  BY <1>2 DEF Msg!Exists, MsgInv
<1>a. ASSUME NEW p \in Msg!Users, Msg!Attach(p) PROVE MsgTyped' /\ QueuesMade'
  <2>1. CASE named = 0
    BY <1>a, <2>1 DEF Msg!Attach, MsgInv
  <2>2. CASE named # 0
    BY <1>a, <2>2 DEF Msg!Attach, Msg!Role, MsgInv
  <2> QED
    BY <2>1, <2>2
<1>3. ASSUME NEW p \in Msg!Users, Msg!sysv_msgrm(p)
      PROVE  MsgTyped' /\ QueuesMade'
  <2>1. msg_id[p] \in Msg!Ids
    BY <1>3, HasQueue DEF Msg!sysv_msgrm, MsgInv
  <2>2. Msg!ToSet(queue[msg_id[p]]) \subseteq Message /\ <<>> \in Seq(Message)
    BY <2>1, LenProperties, EmptySeq DEF Msg!ToSet, MsgInv
  <2>3. QueuesMade'
    BY <1>3 DEF Msg!sysv_msgrm, MsgInv
  <2>4. sm_pc' \in [Msg!Users -> {"get", "attach", "send", "getchar", "receive",
                                  "asleep", "remove", "end"}]
    BY <1>3 DEF Msg!sysv_msgrm, MsgInv
  <2>5. CASE named = msg_id[p]
    <3>1. /\ queue' \in [Msg!Ids -> Seq(Message)] /\ named' \in Nat
          /\ sm_dropped' \subseteq Message
      <4>1. /\ queue' = [queue EXCEPT ![msg_id[p]] = <<>>] /\ named' = 0
            /\ sm_dropped' = sm_dropped \cup Msg!ToSet(queue[msg_id[p]])
        BY <1>3, <2>5 DEF Msg!sysv_msgrm
      <4>2. /\ queue \in [Msg!Ids -> Seq(Message)]
            /\ sm_dropped \subseteq Message
        BY DEF MsgInv
      <4> QED
        BY <2>1, <2>2, <4>1, <4>2
    <3> QED
      BY <1>3, <2>3, <2>4, <3>1 DEF Msg!sysv_msgrm, MsgInv
  <2>6. CASE named # msg_id[p]
    BY <1>3, <2>3, <2>4, <2>6 DEF Msg!sysv_msgrm, MsgInv
  <2> QED
    BY <2>5, <2>6
<1>4. ASSUME NEW s \in MsgSenders, NEW t \in MsgTypes, Msg!Send(s, t)
      PROVE  MsgTyped' /\ QueuesMade'
  <2> DEFINE message == [from |-> s, number |-> line'[s], type |-> t,
                         at |-> msg_id[s]]
  <2>1. /\ msg_id[s] \in Msg!Ids /\ message \in Message
        /\ line' \in [MsgSenders -> Nat]
    BY <1>4, SendTyped
  <2>2. /\ \/ /\ \E r \in MsgReceivers : sm_pc[r] = "asleep" /\ sm_pc' = [sm_pc EXCEPT ![r] = "receive"]
              /\ taken' = taken \cup {message} /\ UNCHANGED queue
           \/ /\ queue' = [queue EXCEPT ![msg_id[s]] = Append(@, message)]
              /\ UNCHANGED <<sm_pc, taken>>
        /\ UNCHANGED <<regex, mtype, named, sm_made, msg_id, sm_dropped>>
    BY <1>4 DEF Msg!Send, Msg!Asleep
  <2>3. Append(queue[msg_id[s]], message) \in Seq(Message)
    BY <2>1, AppendProperties DEF MsgInv
  <2> HIDE DEF message
  <2> QED
    BY <2>1, <2>2, <2>3 DEF MsgInv
<1>5. ASSUME NEW s \in MsgSenders, NEW t \in MsgTypes, Msg!SendFails(s, t)
      PROVE  MsgTyped' /\ QueuesMade'
  BY <1>5, LineGrows DEF Msg!SendFails, MsgInv
<1>6. ASSUME NEW s \in MsgSenders,
             Msg!Skip(s) \/ Msg!FileEnd(s) \/ Msg!Getchar(s)
      PROVE  MsgTyped' /\ QueuesMade'
  BY <1>6, LineGrows DEF Msg!Skip, Msg!FileEnd, Msg!Getchar, MsgInv
<1>7. ASSUME NEW r \in MsgReceivers, Msg!Receive(r) PROVE MsgTyped' /\ QueuesMade'
  <2>1. msg_id[r] \in Msg!Ids
    BY <1>7, HasQueue DEF Msg!Receive, MsgInv
  <2>2. PICK k \in 1 .. Len(queue[msg_id[r]]) :
          /\ queue' = [queue EXCEPT ![msg_id[r]] = Msg!RemoveAt(@, k)]
          /\ taken' = taken \cup {queue[msg_id[r]][k]}
    <3>1. DOMAIN queue[msg_id[r]] = 1 .. Len(queue[msg_id[r]])
      BY <2>1, LenProperties DEF MsgInv
    <3> QED
      BY <1>7, <3>1 DEF Msg!Receive, Msg!Matches
  <2>3. /\ Msg!RemoveAt(queue[msg_id[r]], k) \in Seq(Message)
        /\ queue[msg_id[r]][k] \in Message
    BY <2>1, Removed, ElementOfSeq DEF MsgInv
  <2> QED
    BY <1>7, <2>1, <2>2, <2>3 DEF Msg!Receive, MsgInv
<1>8. ASSUME NEW r \in MsgReceivers, Msg!ReceiveSleeps(r) \/ Msg!ReceiveFails(r)
      PROVE  MsgTyped' /\ QueuesMade'
  BY <1>8 DEF Msg!ReceiveSleeps, Msg!ReceiveFails, MsgInv
<1> QED
  BY <1>1, <1>2, <1>a, <1>3, <1>4, <1>5, <1>6, <1>7, <1>8
  DEF Msg!Next, Msg!Running, Msg!Program, Msg!Create, Msg!Sender, Msg!Receiver

\* A queue that is left alone stays numbered when lines are read.
LEMMA KeepsNumbers ==
  ASSUME MsgTyped, NEW q \in Msg!Ids, SeqNumbered(queue[q], q),
         \A u \in MsgSenders : line[u] <= line'[u],
         line' \in [MsgSenders -> Nat], queue'[q] = queue[q]
  PROVE  SeqNumbered(queue[q], q)'
<1> DEFINE s == queue[q]
<1>1. s \in Seq(Message) /\ s' = s
  BY DEF MsgTyped
<1>2. ASSUME NEW k \in 1 .. Len(s) PROVE s[k].number <= line'[s[k].from]
  <2>1. s[k] \in Message
    BY <1>1, ElementOfSeq
  <2>2. s[k].from \in MsgSenders /\ s[k].number \in Nat
    BY <2>1 DEF Message
  <2>3. s[k].number <= line[s[k].from]
    BY DEF SeqNumbered
  <2> QED
    BY <2>2, <2>3 DEF MsgTyped
<1> QED
  BY <1>1, <1>2 DEF SeqNumbered

\* Sending puts the newest line last; receiving takes one out and keeps the order.
LEMMA MsgNumberedStep ==
  ASSUME MsgInv, Msg!Next
  PROVE  Numbered'
<1>t. MsgTyped /\ Numbered
  BY DEF MsgInv
<1>m. ASSUME line' \in [MsgSenders -> Nat],
             \A u \in MsgSenders : line[u] <= line'[u]
      PROVE  \A m \in taken \cup sm_dropped : m.number <= line'[m.from]
  <2> SUFFICES ASSUME NEW m \in taken \cup sm_dropped
      PROVE  m.number <= line'[m.from]
    OBVIOUS
  <2>1. m.from \in MsgSenders /\ m.number \in Nat /\ m.number <= line[m.from]
    BY <1>t DEF MsgTyped, Message, Numbered
  <2> QED
    BY <1>m, <1>t, <2>1 DEF MsgTyped
<1>q. ASSUME UNCHANGED <<queue, taken, sm_dropped>>,
             line' \in [MsgSenders -> Nat],
             \A u \in MsgSenders : line[u] <= line'[u]
      PROVE  Numbered'
  BY <1>q, <1>t, <1>m, KeepsNumbers DEF Numbered
<1>s. ASSUME UNCHANGED line
      PROVE  line' \in [MsgSenders -> Nat] /\ \A u \in MsgSenders : line[u] <= line'[u]
  BY <1>s, <1>t DEF MsgTyped
<1>1. ASSUME NEW p \in Msg!Users, Msg!Make(p) \/ Msg!Exists(p) \/ Msg!Attach(p)
      PROVE  Numbered'
  BY <1>1, <1>q, <1>s DEF Msg!Make, Msg!Exists, Msg!Attach
<1>2. ASSUME NEW p \in Msg!Users, Msg!sysv_msgrm(p) PROVE Numbered'
  <2>1. msg_id[p] \in Msg!Ids
    BY <1>2, HasQueue DEF Msg!sysv_msgrm, MsgInv
  <2>2. CASE named # msg_id[p]
    BY <1>2, <2>2, <1>q, <1>s DEF Msg!sysv_msgrm
  <2>3. CASE named = msg_id[p]
    <3> DEFINE q == msg_id[p]
    <3>1. /\ queue' = [queue EXCEPT ![q] = <<>>] /\ UNCHANGED <<taken, line>>
          /\ sm_dropped' = sm_dropped \cup Msg!ToSet(queue[q])
      BY <1>2, <2>3 DEF Msg!sysv_msgrm
    <3>2. queue[q] \in Seq(Message) /\ SeqNumbered(queue[q], q)
      BY <1>t, <2>1 DEF MsgTyped, Numbered
    <3>3. \A m \in Msg!ToSet(queue[q]) : m.number <= line[m.from]
      BY <3>2, LenProperties DEF Msg!ToSet, SeqNumbered
    <3>4. \A m \in (taken \cup sm_dropped)' : m.number <= line'[m.from]
      BY <1>t, <3>1, <3>3 DEF Numbered
    <3>5. ASSUME NEW x \in Msg!Ids PROVE SeqNumbered(queue[x], x)'
      <4>1. CASE x = q
        BY <4>1, <3>1, <2>1, <1>t DEF SeqNumbered, MsgTyped
      <4>2. CASE x # q
        <5>1. queue'[x] = queue[x]
          BY <4>2, <3>1, <1>t DEF MsgTyped
        <5> QED
          BY <5>1, <3>1, <1>t, <1>s, KeepsNumbers DEF Numbered
      <4> QED
        BY <4>1, <4>2
    <3> QED
      BY <3>4, <3>5 DEF Numbered
  <2> QED
    BY <2>2, <2>3
<1>3. ASSUME NEW s \in MsgSenders, NEW t \in MsgTypes, Msg!Send(s, t)
      PROVE  Numbered'
  <2> DEFINE q == msg_id[s]
             message == [from |-> s, number |-> line'[s], type |-> t, at |-> q]
  <2>1. /\ q \in Msg!Ids /\ message \in Message
        /\ line' \in [MsgSenders -> Nat] /\ \A u \in MsgSenders : line[u] <= line'[u]
        /\ line[s] \in Nat /\ line'[s] = line[s] + 1
    BY <1>3, SendTyped
  <2>2. message.from = s /\ message.number = line'[s] /\ message.at = q
    OBVIOUS
  <2>3. \/ /\ taken' = taken \cup {message} /\ UNCHANGED <<queue, sm_dropped>>
        \/ /\ queue' = [queue EXCEPT ![q] = Append(@, message)]
           /\ UNCHANGED <<taken, sm_dropped>>
    BY <1>3 DEF Msg!Send
  <2>4. line'[s] <= line'[s]
    BY <2>1
  <2> HIDE DEF message
  <2>5. CASE taken' = taken \cup {message} /\ UNCHANGED <<queue, sm_dropped>>
    <3>1. \A m \in (taken \cup sm_dropped)' : m.number <= line'[m.from]
      BY <1>m, <2>1, <2>2, <2>4, <2>5
    <3> QED
      BY <3>1, <2>1, <2>5, <1>t, KeepsNumbers DEF Numbered
  <2>6. CASE queue' = [queue EXCEPT ![q] = Append(@, message)]
             /\ UNCHANGED <<taken, sm_dropped>>
    <3>1. ASSUME NEW x \in Msg!Ids PROVE SeqNumbered(queue[x], x)'
      <4>1. CASE x # q
        <5>1. queue'[x] = queue[x]
          BY <4>1, <2>6, <1>t DEF MsgTyped
        <5> QED
          BY <5>1, <2>1, <1>t, KeepsNumbers DEF Numbered
      <4>2. CASE x = q
        <5> DEFINE old == queue[q]
                   new == Append(old, message)
        <5>1. /\ old \in Seq(Message) /\ Len(old) \in Nat /\ SeqNumbered(old, q)
              /\ queue'[x] = new
          BY <4>2, <2>6, <1>t, LenProperties DEF MsgTyped, Numbered
        <5>2. /\ Len(new) = Len(old) + 1 /\ new[Len(old) + 1] = message
              /\ \A k \in 1 .. Len(old) : new[k] = old[k] /\ old[k] \in Message
          BY <5>1, <2>1, AppendProperties, ElementOfSeq
        <5> HIDE DEF old, new
        <5>3. \A k \in 1 .. Len(old) :
                /\ old[k].from \in MsgSenders /\ old[k].number \in Nat
                /\ old[k].number <= line[old[k].from]
          BY <5>1, <5>2 DEF SeqNumbered, Message
        <5>4. \A k \in 1 .. Len(old) :
                /\ old[k].number <= line'[old[k].from]
                /\ old[k].from = s => old[k].number < line'[s]
          BY <5>3, <2>1, <1>t DEF MsgTyped
        <5>5. \A k \in 1 .. Len(new) : k \in 1 .. Len(old) \/ k = Len(old) + 1
          BY <5>1, <5>2
        <5>6. \A k \in 1 .. Len(new) : new[k].at = q /\ new[k].number <= line'[new[k].from]
          BY <5>1, <5>2, <5>4, <5>5, <2>2, <2>4 DEF SeqNumbered
        <5>7. \A k, l \in 1 .. Len(new) : k < l /\ new[k].from = new[l].from
                => new[k].number < new[l].number
          <6> SUFFICES ASSUME NEW k \in 1 .. Len(new), NEW l \in 1 .. Len(new),
                              k < l, new[k].from = new[l].from
                       PROVE  new[k].number < new[l].number
            OBVIOUS
          <6>1. k \in 1 .. Len(old)
            BY <5>1, <5>2
          <6>2. CASE l \in 1 .. Len(old)
            BY <6>1, <6>2, <5>1, <5>2 DEF SeqNumbered
          <6>3. CASE l = Len(old) + 1
            BY <6>1, <6>3, <5>2, <5>4, <2>2
          <6> QED
            BY <6>2, <6>3, <5>5
        <5> QED
          BY <4>2, <5>1, <5>6, <5>7 DEF SeqNumbered
      <4> QED
        BY <4>1, <4>2
    <3>2. \A m \in (taken \cup sm_dropped)' : m.number <= line'[m.from]
      BY <1>m, <2>1, <2>6
    <3> QED
      BY <3>1, <3>2 DEF Numbered
  <2> QED
    BY <2>3, <2>5, <2>6
<1>4. ASSUME NEW s \in MsgSenders, NEW t \in MsgTypes, Msg!SendFails(s, t)
      PROVE  Numbered'
  BY <1>4, <1>q, <1>t, LineGrows DEF Msg!SendFails
<1>5. ASSUME NEW s \in MsgSenders,
             Msg!Skip(s) \/ Msg!FileEnd(s) \/ Msg!Getchar(s)
      PROVE  Numbered'
  BY <1>5, <1>q, <1>s, <1>t, LineGrows DEF Msg!Skip, Msg!FileEnd, Msg!Getchar
<1>6. ASSUME NEW r \in MsgReceivers, Msg!Receive(r) PROVE Numbered'
  <2> DEFINE q == msg_id[r]
             old == queue[q]
  <2>1. q \in Msg!Ids
    BY <1>6, HasQueue DEF Msg!Receive, MsgInv, Msg!Goto, Msg!Users
  <2>2. old \in Seq(Message) /\ SeqNumbered(old, q) /\ Len(old) \in Nat
    BY <2>1, <1>t, LenProperties DEF MsgTyped, Numbered
  <2>3. PICK k \in 1 .. Len(old) :
          /\ queue' = [queue EXCEPT ![q] = Msg!RemoveAt(@, k)]
          /\ taken' = taken \cup {old[k]}
    <3>1. DOMAIN old = 1 .. Len(old)
      BY <2>2, LenProperties
    <3> QED
      BY <1>6, <3>1 DEF Msg!Receive, Msg!Matches
  <2> DEFINE new == Msg!RemoveAt(old, k)
  <2>4. /\ Len(new) = Len(old) - 1
        /\ \A j \in 1 .. Len(old) - 1 : new[j] = IF j < k THEN old[j] ELSE old[j + 1]
    BY <2>2, Removed
  <2>5. queue'[q] = new /\ UNCHANGED <<line, sm_dropped>>
    BY <1>6, <1>t, <2>1, <2>3 DEF Msg!Receive, MsgTyped
  <2>6. \A x \in Msg!Ids : x # q => queue'[x] = queue[x]
    BY <1>t, <2>3 DEF MsgTyped
  <2>7. old[k].number <= line[old[k].from]
    BY <2>2 DEF SeqNumbered
  <2> HIDE DEF old, new
  <2>8. SeqNumbered(new, q)
    <3> DEFINE o(j) == IF j < k THEN j ELSE j + 1
    <3>1. \A j \in 1 .. Len(new) : o(j) \in 1 .. Len(old) /\ new[j] = old[o(j)]
      BY <2>2, <2>4
    <3>2. \A j, l \in 1 .. Len(new) : j < l => o(j) < o(l)
      BY <2>2, <2>4
    <3> HIDE DEF o
    <3>3. \A j \in 1 .. Len(new) : new[j].at = q /\ new[j].number <= line[new[j].from]
      BY <2>2, <3>1 DEF SeqNumbered
    <3>4. ASSUME NEW j \in 1 .. Len(new), NEW l \in 1 .. Len(new),
                 j < l, new[j].from = new[l].from
          PROVE  new[j].number < new[l].number
      <4>1. /\ o(j) \in 1 .. Len(old) /\ o(l) \in 1 .. Len(old) /\ o(j) < o(l)
            /\ new[j] = old[o(j)] /\ new[l] = old[o(l)]
        BY <3>1, <3>2, <3>4
      <4> QED
        BY <4>1, <3>4, <2>2 DEF SeqNumbered
    <3> QED
      BY <3>3, <3>4 DEF SeqNumbered
  <2>9. ASSUME NEW x \in Msg!Ids PROVE SeqNumbered(queue[x], x)'
    <3>1. CASE x = q
      BY <3>1, <2>5, <2>8 DEF SeqNumbered
    <3>2. CASE x # q
      BY <3>2, <2>5, <2>6, <1>s, <1>t, KeepsNumbers DEF Numbered
    <3> QED
      BY <3>1, <3>2
  <2> QED
    BY <2>3, <2>5, <2>7, <2>9, <1>t DEF Numbered
<1>7. ASSUME NEW r \in MsgReceivers, Msg!ReceiveSleeps(r) \/ Msg!ReceiveFails(r)
      PROVE  Numbered'
  BY <1>7, <1>q, <1>s DEF Msg!ReceiveSleeps, Msg!ReceiveFails
<1> QED
  BY <1>1, <1>2, <1>3, <1>4, <1>5, <1>6, <1>7
  DEF Msg!Next, Msg!Running, Msg!Program, Msg!Create, Msg!Sender, Msg!Receiver

\* Whoever is asleep has been offered every message that was sent since.
LEMMA MsgMeetStep ==
  ASSUME MsgInv, MsgTyped', QueuesMade', Numbered', Msg!Next
  PROVE  Meet'
<1>t. MsgTyped /\ QueuesMade /\ Numbered /\ Meet
  BY MeetIs DEF MsgInv
<1>a. ASSUME UNCHANGED <<mtype, named, queue, taken, sm_dropped>>,
             \A r \in MsgReceivers : sm_pc'[r] = "asleep" =>
               sm_pc[r] = "asleep" /\ msg_id'[r] = msg_id[r]
      PROVE  Meet'
  BY <1>a, <1>t DEF Meet, Msg!Wants
<1>1. ASSUME NEW p \in Msg!Users, Msg!Create(p) PROVE Meet'
  <2>1. \A q \in Msg!Ids : queue[q] = <<>>
    <3>1. named = 0 /\ 0 \notin Msg!Ids
      BY <1>1 DEF Msg!Create, Msg!Ids
    <3> QED
      BY <3>1, <1>t DEF Meet
  <2>2. \A r \in MsgReceivers : sm_pc[r] # "asleep"
    <3>1. named = 0 /\ 0 \notin Msg!Ids
      BY <1>1 DEF Msg!Create, Msg!Ids
    <3> QED
      BY <3>1, <1>t, HasQueue DEF Meet, Msg!Users
  <2>3. /\ UNCHANGED <<queue, taken, sm_dropped, mtype>>
        /\ sm_pc' = [sm_pc EXCEPT ![p] = Msg!Role(p)]
    BY <1>1 DEF Msg!Create, Msg!Make, Msg!Goto
  <2>4. \A r \in MsgReceivers : sm_pc'[r] # "asleep"
    BY <2>2, <2>3, <1>t DEF Msg!Role, MsgTyped, Msg!Users
  <2> QED
    BY <2>1, <2>3, <2>4, <1>t DEF Meet
<1>2. ASSUME NEW p \in Msg!Users, Msg!Exists(p) \/ Msg!Attach(p) PROVE Meet'
  <2>1. \A r \in MsgReceivers : sm_pc'[r] = "asleep" =>
          sm_pc[r] = "asleep" /\ msg_id'[r] = msg_id[r]
    BY <1>2, <1>t DEF Msg!Exists, Msg!Attach, Msg!Goto, Msg!Role, MsgTyped, Msg!Users
  <2> QED
    BY <1>2, <1>a, <2>1 DEF Msg!Exists, Msg!Attach, Msg!Goto
<1>3. ASSUME NEW p \in Msg!Users, Msg!sysv_msgrm(p) PROVE Meet'
  <2> DEFINE q == msg_id[p]
  <2>1. q \in Msg!Ids
    BY <1>3, HasQueue DEF Msg!sysv_msgrm, MsgInv
  <2>2. \A r \in MsgReceivers : sm_pc'[r] = "asleep" =>
          sm_pc[r] = "asleep" /\ msg_id'[r] = msg_id[r] /\ msg_id[r] # q
    BY <1>3 DEF Msg!sysv_msgrm, Msg!Users
  <2>3. CASE named # q
    <3>1. UNCHANGED <<mtype, named, queue, taken, sm_dropped>>
      BY <1>3, <2>3 DEF Msg!sysv_msgrm
    <3> QED
      BY <1>a, <2>2, <3>1
  <2>4. CASE named = q
    <3>1. /\ queue' = [queue EXCEPT ![q] = <<>>] /\ named' = 0
          /\ sm_dropped' = sm_dropped \cup Msg!ToSet(queue[q])
          /\ UNCHANGED <<mtype, taken>>
      BY <1>3, <2>4 DEF Msg!sysv_msgrm
    <3>2. \A x \in Msg!Ids : queue'[x] = <<>>
      BY <1>t, <2>4, <3>1 DEF Meet, MsgTyped
    <3>3. \A r \in MsgReceivers : sm_pc'[r] # "asleep"
      BY <1>t, <2>2, <2>4 DEF Meet
    <3>4. \A m \in Msg!ToSet(queue[q]) : m \notin taken
      <4>1. DOMAIN queue[q] = 1 .. Len(queue[q])
        BY <1>t, <2>1, LenProperties DEF MsgTyped
      <4> QED
        BY <1>t, <2>1, <4>1 DEF Meet, Msg!ToSet
    <3>5. taken' \cap sm_dropped' = {}
      BY <1>t, <3>1, <3>4 DEF Meet
    <3>6. \A x \in Msg!Ids : 1 .. Len(queue'[x]) = {}
      BY <3>2, EmptySeq
    <3> QED
      BY <3>2, <3>3, <3>5, <3>6 DEF Meet
  <2> QED
    BY <2>3, <2>4
<1>4. ASSUME NEW s \in MsgSenders, NEW t \in MsgTypes, Msg!Send(s, t) PROVE Meet'
  <2> DEFINE q == msg_id[s]
             message == [from |-> s, number |-> line'[s], type |-> t, at |-> q]
  <2>1. /\ q \in Msg!Ids /\ message \in Message
        /\ line[s] \in Nat /\ line'[s] = line[s] + 1
    BY <1>4, SendTyped
  <2>2. /\ message.from = s /\ message.number = line'[s] /\ message.at = q
        /\ message.type = t
    OBVIOUS
  <2>3. \A m \in Message : m.from = s /\ m.number <= line[m.from]
          => m.number < line'[s] /\ m # message
    BY <2>1, <2>2 DEF Message
  <2>4. UNCHANGED <<mtype, named, msg_id, sm_dropped>> /\ named = q
    BY <1>4 DEF Msg!Send
  <2>5. message \notin taken \cup sm_dropped
    BY <1>t, <2>2, <2>3 DEF Numbered, MsgTyped
  <2>6. \A x \in Msg!Ids : \A k \in 1 .. Len(queue[x]) :
          /\ queue[x][k] \in Message
          /\ queue[x][k].number <= line[queue[x][k].from] /\ queue[x][k].at = x
    BY <1>t, ElementOfSeq DEF MsgTyped, Numbered, SeqNumbered
  <2>7. CASE /\ \E r \in Msg!Asleep(q, t) : sm_pc' = [sm_pc EXCEPT ![r] = "receive"]
             /\ taken' = taken \cup {message} /\ UNCHANGED queue
    <3>1. PICK r \in MsgReceivers :
            /\ sm_pc[r] = "asleep" /\ msg_id[r] = q /\ Msg!Wants(r, t)
            /\ sm_pc' = [sm_pc EXCEPT ![r] = "receive"]
      BY <2>7 DEF Msg!Asleep
    <3>2. \A k \in 1 .. Len(queue[q]) : queue[q][k].type # t
      BY <1>t, <3>1 DEF Meet
    <3>3. \A x \in Msg!Ids : \A k \in 1 .. Len(queue[x]) : queue[x][k] # message
      BY <2>2, <2>3, <2>6
    <3>4. \A u \in MsgReceivers : sm_pc'[u] = "asleep" => sm_pc[u] = "asleep"
      BY <3>1, <1>t DEF MsgTyped, Msg!Users
    <3> HIDE DEF message
    <3>5. taken' \cap sm_dropped' = {}
      BY <1>t, <2>4, <2>5, <2>7 DEF Meet
    <3>6. \A x \in Msg!Ids : \A k \in 1 .. Len(queue[x]) :
            queue[x][k] \notin taken' \cup sm_dropped'
      BY <1>t, <2>4, <2>7, <3>3 DEF Meet
    <3>7. \A x \in Msg!Ids : \A k \in 1 .. Len(queue[x]) : \A m \in taken' :
            queue[x][k].from = m.from /\ queue[x][k].type = m.type /\ x = m.at
              => m.number < queue[x][k].number
      BY <1>t, <2>2, <2>7, <3>2 DEF Meet
    <3>8. \A x \in Msg!Ids \ {named'} : queue'[x] = <<>>
      BY <1>t, <2>4, <2>7 DEF Meet
    <3>9. \A u \in MsgReceivers : sm_pc'[u] = "asleep" =>
            /\ msg_id'[u] = named'
            /\ \A k \in 1 .. Len(queue'[msg_id'[u]]) :
                 ~Msg!Wants(u, queue[msg_id[u]][k].type)
      BY <1>t, <2>4, <2>7, <3>4 DEF Meet
    <3> QED
      BY <2>4, <2>7, <3>5, <3>6, <3>7, <3>8, <3>9 DEF Meet, Msg!Wants
  <2>8. CASE /\ Msg!Asleep(q, t) = {}
             /\ queue' = [queue EXCEPT ![q] = Append(@, message)]
             /\ UNCHANGED <<sm_pc, taken>>
    <3> DEFINE old == queue[q]
    <3>1. old \in Seq(Message) /\ Len(old) \in Nat
      BY <1>t, <2>1, LenProperties DEF MsgTyped
    <3>2. queue'[q] = Append(old, message)
          /\ \A x \in Msg!Ids : x # q => queue'[x] = queue[x]
      BY <1>t, <2>1, <2>8 DEF MsgTyped
    <3>3. /\ Len(queue'[q]) = Len(old) + 1 /\ queue'[q][Len(old) + 1] = message
          /\ \A k \in 1 .. Len(old) : queue'[q][k] = old[k]
      BY <2>1, <3>1, <3>2, AppendProperties
    <3>4. \A x \in Msg!Ids : \A k \in 1 .. Len(queue'[x]) :
            \/ queue'[x][k] = message /\ x = q
            \/ k \in 1 .. Len(queue[x]) /\ queue'[x][k] = queue[x][k]
      <4> SUFFICES ASSUME NEW x \in Msg!Ids, NEW k \in 1 .. Len(queue'[x])
          PROVE  \/ queue'[x][k] = message /\ x = q
                 \/ k \in 1 .. Len(queue[x]) /\ queue'[x][k] = queue[x][k]
        OBVIOUS
      <4>1. CASE x # q
        BY <4>1, <3>2
      <4>2. CASE x = q
        <5>1. k \in 1 .. Len(old) + 1
          BY <4>2, <3>3
        <5>2. k = Len(old) + 1 \/ k \in 1 .. Len(old)
          BY <5>1, <3>1
        <5> QED
          BY <5>2, <4>2, <3>3
      <4> QED
        BY <4>1, <4>2
    <3>5. \A m \in taken : m.from = s => m.number < line'[s]
      BY <1>t, <2>3 DEF MsgTyped, Numbered
    <3>6. \A u \in MsgReceivers :
            sm_pc[u] = "asleep" /\ msg_id[u] = q => ~Msg!Wants(u, t)
      BY <2>8 DEF Msg!Asleep
    <3> HIDE DEF message, old
    <3>7. \A x \in Msg!Ids : \A k \in 1 .. Len(queue'[x]) :
            queue'[x][k] \notin taken' \cup sm_dropped'
      BY <1>t, <2>4, <2>5, <2>8, <3>4 DEF Meet
    <3>8. \A x \in Msg!Ids : \A k \in 1 .. Len(queue'[x]) : \A m \in taken' :
            queue'[x][k].from = m.from /\ queue'[x][k].type = m.type /\ x = m.at
              => m.number < queue'[x][k].number
      BY <1>t, <2>2, <2>8, <3>4, <3>5 DEF Meet
    <3>9. \A x \in Msg!Ids \ {named'} : queue'[x] = <<>>
      BY <1>t, <2>4, <3>2 DEF Meet
    <3>10. ASSUME NEW u \in MsgReceivers, sm_pc'[u] = "asleep"
           PROVE  /\ msg_id'[u] = named'
                  /\ \A k \in 1 .. Len(queue'[msg_id'[u]]) :
                       ~Msg!Wants(u, queue'[msg_id'[u]][k].type)
      <4>1. sm_pc[u] = "asleep" /\ msg_id[u] = q /\ msg_id'[u] = q /\ named' = q
        BY <1>t, <2>4, <2>8, <3>10 DEF Meet
      <4>2. \A k \in 1 .. Len(queue[q]) : ~Msg!Wants(u, queue[q][k].type)
        BY <1>t, <4>1 DEF Meet
      <4> QED
        BY <2>1, <2>2, <3>4, <3>6, <4>1, <4>2
    <3>11. taken' \cap sm_dropped' = {}
      BY <1>t, <2>4, <2>8 DEF Meet
    <3> QED
      BY <2>4, <3>7, <3>8, <3>9, <3>10, <3>11 DEF Meet, Msg!Wants
  <2> QED
    BY <1>4, <2>7, <2>8 DEF Msg!Send
<1>5. ASSUME NEW s \in MsgSenders, NEW t \in MsgTypes, Msg!SendFails(s, t)
      PROVE  Meet'
  BY <1>5, <1>a, <1>t DEF Msg!SendFails, Msg!Goto, MsgTyped, Msg!Users
<1>6. ASSUME NEW s \in MsgSenders,
             Msg!Skip(s) \/ Msg!FileEnd(s) \/ Msg!Getchar(s)
      PROVE  Meet'
  BY <1>6, <1>a, <1>t DEF Msg!Skip, Msg!FileEnd, Msg!Getchar, Msg!Goto, MsgTyped,
                          Msg!Users
<1>7. ASSUME NEW r \in MsgReceivers, Msg!Receive(r) PROVE Meet'
  <2> DEFINE q == msg_id[r]
             old == queue[q]
  <2>1. q \in Msg!Ids
    BY <1>7, HasQueue DEF Msg!Receive, MsgInv, Msg!Goto, Msg!Users
  <2>2. /\ old \in Seq(Message) /\ SeqNumbered(old, q) /\ Len(old) \in Nat
        /\ DOMAIN old = 1 .. Len(old)
    BY <2>1, <1>t, LenProperties DEF MsgTyped, Numbered
  <2>3. PICK k \in 1 .. Len(old) :
          /\ Msg!Wants(r, old[k].type)
          /\ \A l \in 1 .. Len(old) : Msg!Wants(r, old[l].type) => k <= l
          /\ queue' = [queue EXCEPT ![q] = Msg!RemoveAt(@, k)]
          /\ taken' = taken \cup {old[k]}
    BY <1>7, <2>2 DEF Msg!Receive, Msg!Matches
  <2> DEFINE new == Msg!RemoveAt(old, k)
             o(j) == IF j < k THEN j ELSE j + 1
  <2>4. /\ Len(new) = Len(old) - 1
        /\ \A j \in 1 .. Len(old) - 1 : new[j] = IF j < k THEN old[j] ELSE old[j + 1]
    BY <2>2, Removed
  <2>5. /\ UNCHANGED <<mtype, named, msg_id, sm_dropped>>
        /\ sm_pc' = [sm_pc EXCEPT ![r] = "receive"] /\ queue'[q] = new
    BY <1>7, <1>t, <2>1, <2>3 DEF Msg!Receive, Msg!Goto, MsgTyped
  <2>6. \A x \in Msg!Ids : x # q => queue'[x] = queue[x]
    BY <1>t, <2>3 DEF MsgTyped
  <2>7. \A j \in 1 .. Len(new) :
          o(j) \in 1 .. Len(old) /\ o(j) # k /\ new[j] = old[o(j)]
    BY <2>2, <2>4
  <2> HIDE DEF old, new, o
  <2>8. \A x \in Msg!Ids : \A j \in 1 .. Len(queue'[x]) :
          \E l \in 1 .. Len(queue[x]) :
            queue'[x][j] = queue[x][l] /\ (x = q => l # k)
    <3> SUFFICES ASSUME NEW x \in Msg!Ids, NEW j \in 1 .. Len(queue'[x])
        PROVE  \E l \in 1 .. Len(queue[x]) :
                 queue'[x][j] = queue[x][l] /\ (x = q => l # k)
      OBVIOUS
    <3>1. CASE x = q
      BY <3>1, <2>5, <2>7 DEF old
    <3>2. CASE x # q
      BY <3>2, <2>6
    <3> QED
      BY <3>1, <3>2
  <2>9. /\ old[k] \in Message
        /\ \A x \in Msg!Ids : \A l \in 1 .. Len(queue[x]) :
             queue[x][l] \in Message /\ queue[x][l].at = x
    BY <1>t, <2>2, ElementOfSeq DEF MsgTyped, Numbered, SeqNumbered
  <2>10. \A l \in 1 .. Len(old) : l # k /\ old[l].from = old[k].from =>
           /\ old[l] # old[k]
           /\ old[l].type = old[k].type => old[k].number < old[l].number
    <3> SUFFICES ASSUME NEW l \in 1 .. Len(old), l # k, old[l].from = old[k].from
        PROVE  /\ old[l] # old[k]
               /\ old[l].type = old[k].type => old[k].number < old[l].number
      OBVIOUS
    <3>1. l < k \/ k < l
      BY <2>2
    <3>2. old[l].number < old[k].number \/ old[k].number < old[l].number
      BY <3>1, <2>2 DEF SeqNumbered
    <3>3. old[l].number \in Nat /\ old[k].number \in Nat
      <4>1. old[l] \in Message /\ old[k] \in Message
        BY <2>2, ElementOfSeq
      <4> QED
        BY <4>1 DEF Message
    <3>4. old[l].type = old[k].type => k < l
      BY <2>2, <2>3, <3>1
    <3> QED
      BY <2>2, <3>2, <3>3, <3>4 DEF SeqNumbered
  <2>11. \A x \in Msg!Ids : \A l \in 1 .. Len(queue[x]) :
           (x = q => l # k) => queue[x][l] # old[k]
    BY <2>1, <2>2, <2>9, <2>10 DEF old, SeqNumbered
  <2>12. old[k] \notin taken \cup sm_dropped
    BY <1>t, <2>1 DEF Meet, old
  <2>13. taken' \cap sm_dropped' = {}
    BY <1>t, <2>3, <2>5, <2>12 DEF Meet
  <2>14. \A x \in Msg!Ids : \A j \in 1 .. Len(queue'[x]) :
           queue'[x][j] \notin taken' \cup sm_dropped'
    BY <1>t, <2>3, <2>5, <2>8, <2>11 DEF Meet
  <2>15. \A x \in Msg!Ids : \A l \in 1 .. Len(queue[x]) :
           (x = q => l # k) =>
             \A m \in taken' :
               queue[x][l].from = m.from /\ queue[x][l].type = m.type /\ x = m.at
                 => m.number < queue[x][l].number
    <3>1. old[k].at = q
      BY <2>2 DEF SeqNumbered
    <3> QED
      BY <1>t, <2>3, <2>10, <3>1 DEF Meet, old
  <2>16. \A x \in Msg!Ids : \A j \in 1 .. Len(queue'[x]) : \A m \in taken' :
           queue'[x][j].from = m.from /\ queue'[x][j].type = m.type /\ x = m.at
             => m.number < queue'[x][j].number
    BY <2>8, <2>15
  <2>17. q = named
    <3>1. old # <<>>
      BY <2>2, EmptySeq
    <3> QED
      BY <1>t, <2>1, <3>1 DEF Meet, old
  <2>18. \A x \in Msg!Ids \ {named'} : queue'[x] = <<>>
    BY <1>t, <2>5, <2>6, <2>17 DEF Meet
  <2>19. ASSUME NEW u \in MsgReceivers, sm_pc'[u] = "asleep"
         PROVE  /\ msg_id'[u] = named'
                /\ \A j \in 1 .. Len(queue'[msg_id'[u]]) :
                     ~Msg!Wants(u, queue'[msg_id'[u]][j].type)
    <3>1. sm_pc[u] = "asleep" /\ msg_id'[u] = msg_id[u]
      BY <1>t, <2>5, <2>19 DEF MsgTyped, Msg!Users
    <3>2. msg_id[u] = named /\ named' = named
      BY <1>t, <2>5, <3>1 DEF Meet
    <3>3. \A l \in 1 .. Len(queue[q]) : ~Msg!Wants(u, queue[q][l].type)
      BY <1>t, <2>17, <3>1, <3>2 DEF Meet
    <3>4. msg_id'[u] = q /\ msg_id'[u] = named'
      BY <2>17, <3>1, <3>2
    <3>5. \A j \in 1 .. Len(queue'[q]) : \E l \in 1 .. Len(queue[q]) :
            queue'[q][j] = queue[q][l]
      BY <2>1, <2>8
    <3>6. \A j \in 1 .. Len(queue'[q]) : ~Msg!Wants(u, queue'[q][j].type)
      BY <3>3, <3>5
    <3> QED
      BY <3>4, <3>6
  <2> QED
    <3>1. UNCHANGED mtype
      BY <2>5
    <3>2. \A u \in MsgReceivers : sm_pc'[u] = "asleep" =>
            /\ msg_id'[u] = named'
            /\ \A j \in 1 .. Len(queue'[msg_id'[u]]) :
                 mtype'[u] \notin {0, queue'[msg_id'[u]][j].type}
      BY <2>19, <3>1 DEF Msg!Wants
    <3> QED
      BY <2>13, <2>14, <2>16, <2>18, <3>2 DEF Meet, Msg!Wants
<1>8. ASSUME NEW r \in MsgReceivers, Msg!ReceiveSleeps(r) PROVE Meet'
  <2>1. /\ Msg!Matches(r) = {} /\ named = msg_id[r] /\ sm_pc[r] = "receive"
        /\ sm_pc' = [sm_pc EXCEPT ![r] = "asleep"]
        /\ UNCHANGED <<mtype, named, queue, msg_id, taken, sm_dropped>>
    BY <1>8 DEF Msg!ReceiveSleeps, Msg!Goto
  <2>2. msg_id[r] \in Msg!Ids
    BY <1>t, <2>1, HasQueue DEF Msg!Users
  <2>3. DOMAIN queue[msg_id[r]] = 1 .. Len(queue[msg_id[r]])
    BY <1>t, <2>2, LenProperties DEF MsgTyped
  <2>4. \A k \in 1 .. Len(queue[msg_id[r]]) :
          ~Msg!Wants(r, queue[msg_id[r]][k].type)
    BY <2>1, <2>3 DEF Msg!Matches
  <2>5. \A u \in MsgReceivers : sm_pc'[u] = "asleep" => u = r \/ sm_pc[u] = "asleep"
    BY <1>t, <2>1 DEF MsgTyped, Msg!Users
  <2> QED
    BY <1>t, <2>1, <2>4, <2>5 DEF Meet, Msg!Wants
<1>9. ASSUME NEW r \in MsgReceivers, Msg!ReceiveFails(r) PROVE Meet'
  BY <1>9, <1>a, <1>t DEF Msg!ReceiveFails, Msg!Goto, MsgTyped, Msg!Users
<1> QED
  BY <1>1, <1>2, <1>3, <1>4, <1>5, <1>6, <1>7, <1>8, <1>9
  DEF Msg!Next, Msg!Running, Msg!Program, Msg!Sender, Msg!Receiver

\* A step of sysv_msg.c keeps all of it.
LEMMA MsgStep ==
  ASSUME MsgInv, Msg!Next \/ UNCHANGED msgVars
  PROVE  MsgInv'
<1>1. CASE Msg!Next
  <2>1. MsgTyped' /\ QueuesMade' /\ Numbered'
    BY <1>1, MsgTypedStep, MsgNumberedStep
  <2>2. Meet'
    BY <1>1, <2>1, MsgMeetStep
  <2>3. (Meet <=> Msg!MessagesMeet)'
    BY <2>1, MeetIs, PTL
  <2> QED
    BY <2>1, <2>2, <2>3 DEF MsgInv
<1>2. CASE UNCHANGED msgVars
  <2>1. UNCHANGED <<mtype, named, sm_made, queue, sm_pc, msg_id, line, taken,
                    sm_dropped>>
    BY <1>2 DEF msgVars
  <2>2. MsgTyped' /\ QueuesMade'
    BY <2>1 DEF MsgInv, MsgTyped, QueuesMade
  <2>3. Numbered'
    BY <2>1 DEF MsgInv, Numbered, SeqNumbered
  <2>4. Meet
    BY MeetIs DEF MsgInv
  <2>5. Meet'
    BY <2>1, <2>4 DEF Meet, Msg!Wants
  <2>6. (Meet <=> Msg!MessagesMeet)'
    BY <2>2, <2>3, MeetIs, PTL
  <2> QED
    BY <2>2, <2>3, <2>5, <2>6 DEF MsgInv
<1> QED
  BY <1>1, <1>2

\* MsgInv holds of every state of the program.
LEMMA MsgIsInvariant == Spec => [](program = "msg" => MsgInv)
<1> DEFINE Inv == program = "msg" => MsgInv
<1>1. Init => Inv
  BY MsgInit DEF Init
<1>2. Inv /\ [Next]_vars => Inv'
  BY SameProgram, MsgOnly, MsgStep
<1> QED
  BY <1>1, <1>2, PTL DEF Spec

----------------------------------------------------------------------------
(* RtsServer                                                               *)

\* The clients in the queue wait in it once and have not been accepted.
QueueSound ==
  /\ \A k \in 1 .. Len(backlog) : sock[backlog[k]] = "queued"
  /\ \A k, l \in 1 .. Len(backlog) : backlog[k] = backlog[l] => k = l

\* The ranges of the sockets and of the queue of connections.
NetTyped ==
  /\ sock \in [Clients -> {"none", "queued", "open"}]
  /\ rx \in [Clients -> SUBSET {"data", "err", "eof"}]
  /\ backlog \in Seq(Clients)

\* A client that connects waits at the end of the queue.
LEMMA QueueGrows ==
  ASSUME NetTyped, QueueSound, NEW c \in Clients, sock[c] = "none",
         sock' = [sock EXCEPT ![c] = "queued"], backlog' = Append(backlog, c)
  PROVE  /\ QueueSound' /\ Len(backlog') = Len(backlog) + 1
         /\ sock' \in [Clients -> {"none", "queued", "open"}]
         /\ backlog' \in Seq(Clients)
<1>1. /\ backlog \in Seq(Clients) /\ Len(backlog) \in Nat
      /\ sock \in [Clients -> {"none", "queued", "open"}]
  BY LenProperties DEF NetTyped
<1>2. /\ Len(backlog') = Len(backlog) + 1 /\ backlog'[Len(backlog) + 1] = c
      /\ \A k \in 1 .. Len(backlog) : backlog'[k] = backlog[k] /\ backlog[k] \in Clients
  BY <1>1, AppendProperties, ElementOfSeq
<1>3. \A k \in 1 .. Len(backlog') : k \in 1 .. Len(backlog) \/ k = Len(backlog) + 1
  BY <1>1, <1>2
<1>4. \A k \in 1 .. Len(backlog) : backlog[k] # c /\ sock'[backlog[k]] = "queued"
  BY <1>1, <1>2 DEF QueueSound
<1>5. sock'[c] = "queued"
  BY <1>1
<1>6. QueueSound'
  <2>1. \A k \in 1 .. Len(backlog') : sock'[backlog'[k]] = "queued"
    BY <1>2, <1>3, <1>4, <1>5
  <2>2. \A k, l \in 1 .. Len(backlog') : backlog'[k] = backlog'[l] => k = l
    BY <1>2, <1>3, <1>4 DEF QueueSound
  <2> QED
    BY <2>1, <2>2 DEF QueueSound
<1>7. backlog' \in Seq(Clients)
  BY <1>1, AppendProperties
<1> QED
  BY <1>1, <1>2, <1>6, <1>7

\* Whoever takes the head of the queue takes a client that waited in it.
LEMMA QueueShrinks ==
  ASSUME NetTyped, QueueSound, backlog # <<>>, NEW x \in {"none", "queued", "open"},
         sock' = [sock EXCEPT ![Head(backlog)] = x], backlog' = Tail(backlog)
  PROVE  /\ Head(backlog) \in Clients /\ sock[Head(backlog)] = "queued"
         /\ QueueSound' /\ Len(backlog') = Len(backlog) - 1
         /\ sock' \in [Clients -> {"none", "queued", "open"}]
         /\ backlog' \in Seq(Clients)
<1> DEFINE c == Head(backlog)
<1>1. /\ backlog \in Seq(Clients) /\ Len(backlog) \in Nat
      /\ sock \in [Clients -> {"none", "queued", "open"}]
  BY LenProperties DEF NetTyped
<1>2. /\ c = backlog[1] /\ 1 \in 1 .. Len(backlog) /\ c \in Clients
      /\ backlog' \in Seq(Clients) /\ Len(backlog') = Len(backlog) - 1
      /\ \A k \in 1 .. Len(backlog') : backlog'[k] = backlog[k + 1]
  BY <1>1, HeadTailProperties, EmptySeq
<1>3. sock[c] = "queued"
  BY <1>2 DEF QueueSound
<1>4. \A k \in 1 .. Len(backlog') : k + 1 \in 2 .. Len(backlog) /\ k + 1 \in 1 .. Len(backlog)
  BY <1>1, <1>2
<1>5. \A k \in 2 .. Len(backlog) : backlog[k] # c /\ backlog[k] \in Clients
  <2>1. \A k \in 2 .. Len(backlog) : k \in 1 .. Len(backlog) /\ k # 1
    BY <1>1
  <2> QED
    BY <1>1, <1>2, <2>1, ElementOfSeq DEF QueueSound
<1>6. \A k \in 1 .. Len(backlog') : sock'[backlog'[k]] = "queued"
  BY <1>1, <1>2, <1>4, <1>5 DEF QueueSound
<1>7. ASSUME NEW k \in 1 .. Len(backlog'), NEW l \in 1 .. Len(backlog'),
             backlog'[k] = backlog'[l]
      PROVE  k = l
  <2>1. k + 1 = l + 1
    BY <1>2, <1>4, <1>7 DEF QueueSound
  <2> QED
    BY <2>1
<1> QED
  BY <1>1, <1>2, <1>3, <1>6, <1>7 DEF QueueSound

\* What happens to a client that is not in the queue leaves the queue alone.
LEMMA QueueStays ==
  ASSUME NetTyped, QueueSound, UNCHANGED backlog,
         \A d \in Clients : sock[d] = "queued" => sock'[d] = "queued"
  PROVE  QueueSound'
<1>1. \A k \in 1 .. Len(backlog) : backlog[k] \in Clients
  BY ElementOfSeq DEF NetTyped
<1> QED
  BY <1>1 DEF QueueSound

\* While this program is checked the steps are its own.
LEMMA RtsOnly ==
  ASSUME program = "rts", [Next]_vars
  PROVE  Rts!Next \/ UNCHANGED <<netVars, rtsVars>>
BY DEF Next, Running, PoolStep, Outside, Only, vars, Rts!Next, ThreadNames

\* The instance counts as the standard module does.
LEMMA RtsCardinality ==
  ASSUME NEW S PROVE Rts!Cardinality(S) = Cardinality(S)
BY DEF Rts!Cardinality, Cardinality

\* The sockets of io_rts.c.
RtsNet ==
  /\ NetTyped /\ QueueSound /\ IsFiniteSet(Rts!Open) /\ maxFiles \in RtsFiles

\* The ranges of the other variables of RtsServer.
RtsTyped ==
  /\ fd \in Clients /\ async \subseteq Clients /\ unsignalled \subseteq Clients
  /\ rts_pc \in {"mask", "async", "wait", "accept", "own", "recv"} \cup Rts!Gone
  /\ queued \in Seq(Clients \X {"POLLIN", "POLLERR"})
  /\ atListener \in Nat /\ early \in Nat

\* No socket raises a signal before the two signals are blocked.
MaskedFirst ==
  /\ rts_pc = "mask" => ~listening /\ async = {}
  /\ rts_pc \notin {"mask"} \cup Rts!Gone => masked
  /\ masked \in BOOLEAN /\ listening \in BOOLEAN
  /\ rts_pc # "killed"

\* The room in the queue of signals, and a connection for each signal of the
\* listener.
SignalsFit ==
  /\ atListener + Len(queued) <= MaxSignals + 1
  /\ rts_pc \notin Rts!Gone =>
       /\ atListener + Len(queued) <= MaxSignals
       /\ Len(backlog) = early + atListener + (IF rts_pc = "accept" THEN 1 ELSE 0)
  /\ rts_pc = "broke" => Cardinality(Rts!Open) >= maxFiles

\* What has an owner is open, and what arrived without one is marked so.
Owned ==
  /\ async \subseteq Rts!Open
  /\ rts_pc = "own" => fd \in Rts!Open
  /\ \A c \in Clients \ async : rx[c] # {} => c \in unsignalled

\* The things that wait at a socket, and the signals that are on their way to it.
Load(s) == (IF "data" \in s THEN 1 ELSE 0) + (IF "eof" \in s THEN 1 ELSE 0)
OnTheWay(c) == Times(queued, <<c, "POLLIN">>)
Signals(c) == OnTheWay(c)
                + (IF rts_pc = "recv" /\ fd = c THEN 1 ELSE 0)
Signalled == rts_pc \notin Rts!Gone =>
  \A c \in Clients \ unsignalled : "err" \notin rx[c] /\ Load(rx[c]) <= Signals(c)

\* These make the promises of RtsServer inductive.
RtsInv == RtsNet /\ RtsTyped /\ MaskedFirst /\ SignalsFit /\ Owned /\ Signalled

\* No signal is queued and nothing is open.
LEMMA RtsInit == Rts!Init => RtsInv
<1> SUFFICES ASSUME Rts!Init PROVE RtsInv
  OBVIOUS
<1>1. Rts!Open = {}
  BY DEF Rts!Init, Rts!NetInit, Rts!Open
<1>2. RtsNet
  BY <1>1, FS_EmptySet, EmptySeq
  DEF RtsNet, NetTyped, QueueSound, Rts!Init, Rts!NetInit
<1>3. RtsTyped
  BY ProgramsAssumption, EmptySeq DEF RtsTyped, Rts!Init, Rts!Anyone
<1>4. MaskedFirst
  BY DEF MaskedFirst, Rts!Init, Rts!Gone
<1>5. SignalsFit
  BY ProgramsAssumption DEF SignalsFit, Rts!Init, Rts!NetInit, Rts!Gone
<1>6. Owned
  BY DEF Owned, Rts!Init, Rts!NetInit
<1>7. Signalled
  <2>1. \A c \in Clients : OnTheWay(c) \in Nat
    BY <1>3, TimesIsNat DEF RtsTyped, OnTheWay
  <2>2. \A c \in Clients : rx[c] = {}
    BY DEF Rts!Init, Rts!NetInit
  <2>3. Load({}) = 0
    BY DEF Load
  <2>4. \A c \in Clients : Load(rx[c]) <= Signals(c)
    <3> SUFFICES ASSUME NEW c \in Clients PROVE Load(rx[c]) <= Signals(c)
      OBVIOUS
    <3>1. Load(rx[c]) = 0
      BY <2>2, <2>3
    <3>2. Signals(c) \in Nat
      BY <2>1 DEF Signals
    <3> QED
      BY <3>1, <3>2
  <2> QED
    BY <2>2, <2>4 DEF Signalled
<1> QED
  BY <1>2, <1>3, <1>4, <1>5, <1>6, <1>7 DEF RtsInv

\* What the parts of the step do to the sockets.
LEMMA RtsSend ==
  ASSUME RtsNet, NEW c \in Clients, Rts!Send(c) \/ Rts!Shutdown(c)
  PROVE  /\ NetTyped' /\ QueueSound' /\ UNCHANGED <<sock, backlog>>
         /\ "eof" \notin rx[c]
         /\ \A d \in Clients : d # c => rx'[d] = rx[d]
         /\ \/ rx'[c] = rx[c] \cup {"data"}
            \/ rx'[c] = rx[c] \cup {"eof"}
            \/ rx'[c] = rx[c] \cup {"err", "eof"}
<1>1. UNCHANGED <<sock, backlog>> /\ "eof" \notin rx[c]
  BY DEF Rts!Send, Rts!Shutdown
<1>2. PICK more \in {{"data"}, {"eof"}, {"err", "eof"}} :
        rx' = [rx EXCEPT ![c] = @ \cup more]
  BY DEF Rts!Send, Rts!Shutdown
<1>3. QueueSound'
  BY <1>1, QueueStays DEF RtsNet
<1>4. NetTyped'
  BY <1>1, <1>2 DEF RtsNet, NetTyped
<1> QED
  BY <1>1, <1>2, <1>3, <1>4 DEF RtsNet, NetTyped

\* accept takes the head of the queue, which was not open.
LEMMA RtsAccept ==
  ASSUME RtsNet, Rts!SockAccept
  PROVE  /\ Head(backlog) \in Clients /\ Head(backlog) \notin Rts!Open
         /\ NetTyped' /\ QueueSound' /\ UNCHANGED rx
         /\ Rts!Open' = Rts!Open \cup {Head(backlog)}
         /\ Len(backlog') = Len(backlog) - 1
<1>1. /\ backlog # <<>> /\ backlog' = Tail(backlog) /\ UNCHANGED rx
      /\ sock' = [sock EXCEPT ![Head(backlog)] = "open"]
  BY DEF Rts!SockAccept, Rts!MayAccept
<1>2. /\ Head(backlog) \in Clients /\ sock[Head(backlog)] = "queued"
      /\ QueueSound' /\ Len(backlog') = Len(backlog) - 1
      /\ sock' \in [Clients -> {"none", "queued", "open"}]
      /\ backlog' \in Seq(Clients)
  BY <1>1, QueueShrinks DEF RtsNet
<1> QED
  BY <1>1, <1>2 DEF RtsNet, NetTyped, Rts!Open

\* A step of the server or of a client keeps the sockets.
LEMMA RtsNetStep ==
  ASSUME RtsInv, Rts!Next
  PROVE  RtsNet'
<1>t. RtsNet /\ fd \in Clients
  BY DEF RtsInv, RtsTyped
<1>1. ASSUME NEW c \in Clients, Rts!Connect(c), UNCHANGED maxFiles PROVE RtsNet'
  <2>1. /\ sock[c] = "none" /\ sock' = [sock EXCEPT ![c] = "queued"]
        /\ backlog' = Append(backlog, c) /\ UNCHANGED rx
    BY <1>1 DEF Rts!Connect
  <2>2. /\ QueueSound' /\ sock' \in [Clients -> {"none", "queued", "open"}]
        /\ backlog' \in Seq(Clients)
    BY <1>t, <2>1, QueueGrows DEF RtsNet
  <2>3. Rts!Open' = Rts!Open
    BY <1>t, <2>1 DEF RtsNet, NetTyped, Rts!Open
  <2> QED
    BY <1>t, <1>1, <2>1, <2>2, <2>3 DEF RtsNet, NetTyped
<1>2. ASSUME NEW c \in Clients, Rts!Send(c) \/ Rts!Shutdown(c), UNCHANGED maxFiles
      PROVE  RtsNet'
  <2>1. NetTyped' /\ QueueSound' /\ UNCHANGED sock
    BY <1>t, <1>2, RtsSend
  <2>2. Rts!Open' = Rts!Open
    BY <2>1 DEF Rts!Open
  <2> QED
    BY <1>t, <1>2, <2>1, <2>2 DEF RtsNet
<1>3. ASSUME UNCHANGED <<Rts!net, maxFiles>> PROVE RtsNet'
  BY <1>t, <1>3 DEF RtsNet, NetTyped, QueueSound, Rts!Open, Rts!net
<1>4. CASE Rts!Accept
  <2>1. Rts!SockAccept /\ UNCHANGED maxFiles
    BY <1>4 DEF Rts!Accept, Rts!Goto
  <2>2. IsFiniteSet(Rts!Open')
    BY <1>t, <2>1, RtsAccept, FS_AddElement DEF RtsNet
  <2> QED
    BY <1>t, <2>1, <2>2, RtsAccept DEF RtsNet
<1>5. ASSUME Rts!RecvSome PROVE RtsNet'
  <2>1. /\ UNCHANGED <<sock, backlog, maxFiles>>
        /\ \E x \in {"data", "err"} : rx' = [rx EXCEPT ![fd] = @ \ {x}]
    BY <1>5 DEF Rts!RecvSome, Rts!RecvData, Rts!RecvError, Rts!Goto
  <2>2. Rts!Open' = Rts!Open
    BY <2>1 DEF Rts!Open
  <2>3. QueueSound'
    BY <1>t, <2>1, QueueStays DEF RtsNet
  <2>4. NetTyped'
    BY <1>t, <2>1 DEF RtsNet, NetTyped
  <2> QED
    BY <1>t, <2>1, <2>2, <2>3, <2>4 DEF RtsNet
<1>6. ASSUME Rts!RecvClosed PROVE RtsNet'
  <2>1. /\ sock[fd] = "open" /\ UNCHANGED <<backlog, maxFiles>>
        /\ sock' = [sock EXCEPT ![fd] = "none"] /\ rx' = [rx EXCEPT ![fd] = {}]
    BY <1>6 DEF Rts!RecvClosed, Rts!SockClose, Rts!Goto
  <2>2. Rts!Open' \subseteq Rts!Open
    BY <1>t, <2>1 DEF RtsNet, NetTyped, Rts!Open
  <2>3. IsFiniteSet(Rts!Open')
    BY <1>t, <2>2, FS_Subset DEF RtsNet
  <2>4. \A d \in Clients : sock[d] = "queued" => sock'[d] = "queued"
    BY <1>t, <2>1 DEF RtsNet, NetTyped
  <2>5. QueueSound'
    BY <1>t, <2>1, <2>4, QueueStays DEF RtsNet
  <2>6. NetTyped'
    BY <1>t, <2>1 DEF RtsNet, NetTyped
  <2> QED
    BY <1>t, <2>1, <2>3, <2>5, <2>6 DEF RtsNet
<1>7. CASE \/ Rts!Mask \/ Rts!Listen \/ Rts!WaitListener \/ Rts!WaitNorm
           \/ Rts!WaitError \/ Rts!AcceptFails \/ Rts!Own \/ Rts!RecvPart
           \/ Rts!RecvNothing
  BY <1>3, <1>7
  DEF Rts!Mask, Rts!Listen, Rts!WaitListener, Rts!WaitNorm, Rts!WaitError,
      Rts!AcceptFails, Rts!Own, Rts!RecvPart, Rts!RecvNothing, Rts!Goto, Rts!net
<1> QED
  BY <1>1, <1>2, <1>4, <1>5, <1>6, <1>7 DEF Rts!Next, Rts!Server, Rts!Client

\* What a signal does to the process that gets it.
LEMMA RtsDelivery ==
  ASSUME RtsInv, rts_pc \notin Rts!Gone, Rts!Delivery,
         rts_pc # "mask"
  PROVE  \/ /\ rts_pc' = rts_pc /\ atListener + Len(queued) < MaxSignals
         \/ rts_pc' = "overflow"
BY DEF RtsInv, MaskedFirst, Rts!Delivery, Rts!RoomForSignal

\* A connection that arrives is announced if the listener has its signal.
LEMMA RtsKnock ==
  ASSUME RtsInv, rts_pc \notin Rts!Gone, Rts!Knock
  PROVE  \/ UNCHANGED <<atListener, rts_pc>> /\ early' = early + 1
         \/ /\ atListener' = atListener + 1 /\ UNCHANGED early
            /\ \/ rts_pc' = rts_pc /\ atListener + Len(queued) < MaxSignals
               \/ rts_pc' = "overflow"
<1>1. CASE listening
  <2>1. rts_pc # "mask"
    BY <1>1 DEF RtsInv, MaskedFirst
  <2> QED
    BY <1>1, <2>1, RtsDelivery DEF Rts!Knock
<1>2. CASE ~listening
  BY <1>2 DEF Rts!Knock
<1> QED
  BY <1>1, <1>2

\* A signal is queued, or the queue is full and the process gets SIGIO.
LEMMA RtsSignal ==
  ASSUME RtsInv, rts_pc \notin Rts!Gone, NEW c \in Clients, Rts!Signal(c)
  PROVE  \/ /\ UNCHANGED <<queued, rts_pc>> /\ c \notin async
            /\ unsignalled' = unsignalled \cup {c}
         \/ /\ c \in async /\ "err" \notin rx'[c] /\ UNCHANGED unsignalled
            /\ queued' = Append(queued, <<c, "POLLIN">>)
            /\ \/ rts_pc' = rts_pc /\ atListener + Len(queued) < MaxSignals
               \/ rts_pc' = "overflow"
         \/ /\ c \in async /\ "err" \in rx'[c]
            /\ unsignalled' = unsignalled \cup {c}
            /\ queued' = Append(queued, <<c, "POLLERR">>)
            /\ \/ rts_pc' = rts_pc /\ atListener + Len(queued) < MaxSignals
               \/ rts_pc' = "overflow"
<1>1. CASE c \in async
  <2>1. rts_pc # "mask"
    BY <1>1 DEF RtsInv, MaskedFirst
  <2>2. Rts!Delivery
    BY <1>1 DEF Rts!Signal
  <2>3. \/ rts_pc' = rts_pc /\ atListener + Len(queued) < MaxSignals
        \/ rts_pc' = "overflow"
    BY <2>1, <2>2, RtsDelivery
  <2> QED
    BY <1>1, <2>3 DEF Rts!Signal
<1>2. CASE c \notin async
  BY <1>2 DEF Rts!Signal
<1> QED
  BY <1>1, <1>2

\* A step keeps the ranges.
LEMMA RtsTypedStep ==
  ASSUME RtsInv, Rts!Next
  PROVE  RtsTyped'
<1>t. RtsTyped
  BY DEF RtsInv
<1>1. ASSUME NEW c \in Clients, rts_pc \notin Rts!Gone, Rts!Knock,
             UNCHANGED <<fd, async, queued, unsignalled>>
      PROVE  RtsTyped'
  BY <1>1, <1>t, RtsKnock DEF RtsTyped, Rts!Gone
<1>2. ASSUME NEW c \in Clients, rts_pc \notin Rts!Gone, Rts!Signal(c),
             UNCHANGED <<fd, async, atListener, early>>
      PROVE  RtsTyped'
  <2>1. \A band \in {"POLLIN", "POLLERR"} :
          Append(queued, <<c, band>>) \in Seq(Clients \X {"POLLIN", "POLLERR"})
    BY <1>t, AppendProperties DEF RtsTyped
  <2>2. unsignalled' \subseteq Clients /\ rts_pc' \in {rts_pc, "overflow"}
        /\ queued' \in Seq(Clients \X {"POLLIN", "POLLERR"})
    BY <1>2, <1>t, <2>1, RtsSignal DEF RtsTyped
  <2> QED
    BY <1>2, <1>t, <2>2 DEF RtsTyped, Rts!Gone
<1>3. CASE Rts!Client
  BY <1>1, <1>2, <1>3 DEF Rts!Client, Rts!main
<1>4. CASE Rts!Mask \/ Rts!Listen \/ Rts!AcceptFails
  BY <1>4, <1>t DEF RtsTyped, Rts!Mask, Rts!Listen, Rts!AcceptFails, Rts!Goto,
     Rts!main, Rts!Gone
<1>5. CASE Rts!WaitListener
  <2>1. atListener \in Nat /\ atListener > 0 /\ atListener' = atListener - 1
    BY <1>5, <1>t DEF RtsTyped, Rts!WaitListener
  <2>2. atListener' \in Nat
    BY <2>1
  <2> QED
    BY <1>5, <1>t, <2>2 DEF RtsTyped, Rts!WaitListener, Rts!Goto, Rts!main
<1>6. CASE Rts!WaitNorm \/ Rts!WaitError
  <2>1. /\ queued # <<>> /\ queued' = Tail(queued)
        /\ fd' = fd \/ fd' = Head(queued)[1]
        /\ UNCHANGED <<async, unsignalled, atListener, early>>
        /\ rts_pc' \in {"recv", "wait"}
    BY <1>6 DEF Rts!WaitNorm, Rts!WaitError, Rts!Goto, Rts!main
  <2>2. /\ Head(queued) \in Clients \X {"POLLIN", "POLLERR"}
        /\ Tail(queued) \in Seq(Clients \X {"POLLIN", "POLLERR"})
    BY <1>t, <2>1, HeadTailProperties DEF RtsTyped
  <2>3. fd' \in Clients
    BY <1>t, <2>1, <2>2 DEF RtsTyped
  <2> QED
    BY <1>t, <2>1, <2>2, <2>3 DEF RtsTyped
<1>7. CASE Rts!Accept
  <2>1. Head(backlog) \in Clients
    BY <1>7, RtsAccept DEF Rts!Accept, RtsInv
  <2> QED
    BY <1>7, <1>t, <2>1 DEF RtsTyped, Rts!Accept, Rts!Goto
<1>8. CASE \/ Rts!Own \/ Rts!RecvSome \/ Rts!RecvPart \/ Rts!RecvClosed
           \/ Rts!RecvNothing
  BY <1>8, <1>t
  DEF RtsTyped, Rts!Own, Rts!RecvSome, Rts!RecvPart, Rts!RecvClosed, Rts!RecvNothing,
      Rts!Goto, Rts!main
<1> QED
  BY <1>3, <1>4, <1>5, <1>6, <1>7, <1>8 DEF Rts!Next, Rts!Server

\* main() blocks the signals before it sets the first owner.
LEMMA MaskedFirstStep ==
  ASSUME RtsInv, Rts!Next
  PROVE  MaskedFirst'
<1>t. MaskedFirst
  BY DEF RtsInv
<1>1. CASE Rts!Client
  <2>1. rts_pc' \in {rts_pc, "overflow"} /\ UNCHANGED <<masked, listening, async>>
        /\ rts_pc \notin Rts!Gone
    BY <1>1, RtsKnock, RtsSignal DEF Rts!Client, Rts!main
  <2> QED
    BY <1>t, <2>1 DEF MaskedFirst, Rts!Gone
<1>2. CASE Rts!Mask
  BY <1>2, <1>t DEF MaskedFirst, Rts!Mask, Rts!Goto, Rts!Gone
<1>3. CASE Rts!Listen \/ Rts!Own
  BY <1>3, <1>t DEF MaskedFirst, Rts!Listen, Rts!Own, Rts!Goto, Rts!Gone
<1>4. CASE \/ Rts!WaitListener \/ Rts!WaitNorm \/ Rts!WaitError \/ Rts!Accept
           \/ Rts!AcceptFails \/ Rts!RecvSome \/ Rts!RecvPart \/ Rts!RecvClosed
           \/ Rts!RecvNothing
  <2>1. /\ UNCHANGED <<masked, listening>>
        /\ rts_pc \in {"wait", "accept", "recv"}
        /\ rts_pc' \in {"wait", "accept", "own", "recv", "broke"}
    BY <1>4
    DEF Rts!WaitListener, Rts!WaitNorm, Rts!WaitError, Rts!Accept, Rts!AcceptFails,
        Rts!RecvSome, Rts!RecvPart, Rts!RecvClosed, Rts!RecvNothing, Rts!Goto, Rts!main
  <2> QED
    BY <1>t, <2>1 DEF MaskedFirst, Rts!Gone
<1> QED
  BY <1>1, <1>2, <1>3, <1>4 DEF Rts!Next, Rts!Server

\* A connection comes with a signal of the listener, and leaves with it.
LEMMA SignalsFitStep ==
  ASSUME RtsInv, Rts!Next
  PROVE  SignalsFit'
<1>t. SignalsFit
  BY DEF RtsInv
<1>n. /\ atListener \in Nat /\ early \in Nat /\ Len(queued) \in Nat
      /\ Len(backlog) \in Nat /\ MaxSignals \in Nat /\ maxFiles \in Nat
      /\ Cardinality(Rts!Open) \in Nat
  BY ProgramsAssumption, LenProperties, FS_CardinalityType
  DEF RtsInv, RtsNet, NetTyped, RtsTyped
<1>1. ASSUME NEW c \in Clients, rts_pc \notin Rts!Gone, Rts!Connect(c), Rts!Knock,
             UNCHANGED queued
      PROVE  SignalsFit'
  <2>1. Len(backlog') = Len(backlog) + 1
    BY <1>1, QueueGrows DEF RtsInv, RtsNet, Rts!Connect
  <2>2. rts_pc' # "broke"
    BY <1>1, RtsKnock DEF Rts!Gone
  <2>3. CASE rts_pc' = "overflow"
    BY <1>1, <1>t, <1>n, <2>2, <2>3, RtsKnock DEF SignalsFit, Rts!Gone
  <2>4. CASE rts_pc' = rts_pc
    <3>1. \/ atListener' = atListener /\ early' = early + 1
          \/ /\ atListener' = atListener + 1 /\ early' = early
             /\ atListener + Len(queued) < MaxSignals
      BY <1>1, <2>4, RtsKnock DEF Rts!Gone
    <3>2. /\ atListener + Len(queued) <= MaxSignals
          /\ Len(backlog) = early + atListener + (IF rts_pc = "accept" THEN 1 ELSE 0)
      BY <1>1, <1>t DEF SignalsFit
    <3>3. /\ atListener' + Len(queued) <= MaxSignals
          /\ Len(backlog') = early' + atListener' + (IF rts_pc = "accept" THEN 1 ELSE 0)
      BY <1>n, <2>1, <3>1, <3>2
    <3>4. atListener' \in Nat
      BY <1>n, <3>1
    <3> QED
      BY <1>1, <1>n, <2>2, <2>4, <3>3, <3>4 DEF SignalsFit
  <2> QED
    BY <1>1, <2>3, <2>4, RtsKnock
<1>2. ASSUME NEW c \in Clients, rts_pc \notin Rts!Gone, Rts!Send(c) \/ Rts!Shutdown(c),
             Rts!Signal(c), UNCHANGED <<atListener, early>>
      PROVE  SignalsFit'
  <2>1. UNCHANGED backlog
    BY <1>2 DEF Rts!Send, Rts!Shutdown
  <2>2. rts_pc' \in {rts_pc, "overflow"} /\ rts_pc' # "broke"
    BY <1>2, RtsSignal DEF Rts!Gone
  <2>3. \/ queued' = queued /\ rts_pc' = rts_pc
        \/ /\ Len(queued') = Len(queued) + 1
           /\ rts_pc' = "overflow" \/ atListener + Len(queued) < MaxSignals
    <3>1. \A band \in {"POLLIN", "POLLERR"} : Len(Append(queued, <<c, band>>)) = Len(queued) + 1
      BY AppendProperties DEF RtsInv, RtsTyped
    <3> QED
      BY <1>2, <3>1, RtsSignal
  <2> QED
    BY <1>2, <1>t, <1>n, <2>1, <2>2, <2>3 DEF SignalsFit, Rts!Gone
<1>3. CASE Rts!Client
  BY <1>1, <1>2, <1>3 DEF Rts!Client, Rts!main
<1>4. CASE Rts!Mask \/ Rts!Listen \/ Rts!Own \/ Rts!RecvPart \/ Rts!RecvNothing
  BY <1>4, <1>t DEF SignalsFit, Rts!Mask, Rts!Listen, Rts!Own, Rts!RecvPart,
     Rts!RecvNothing, Rts!Goto, Rts!main, Rts!Gone, Rts!net
<1>5. CASE Rts!WaitListener
  BY <1>5, <1>t, <1>n DEF SignalsFit, Rts!WaitListener, Rts!Goto, Rts!main, Rts!Gone,
     Rts!net
<1>6. CASE Rts!WaitNorm \/ Rts!WaitError
  <2>1. /\ queued # <<>> /\ queued' = Tail(queued) /\ rts_pc = "wait"
        /\ UNCHANGED <<atListener, early, backlog>> /\ rts_pc' \in {"recv", "wait"}
    BY <1>6 DEF Rts!WaitNorm, Rts!WaitError, Rts!Goto, Rts!main, Rts!net
  <2>2. Len(queued') = Len(queued) - 1
    BY <2>1, HeadTailProperties DEF RtsInv, RtsTyped
  <2> QED
    BY <1>t, <1>n, <2>1, <2>2 DEF SignalsFit, Rts!Gone
<1>7. CASE Rts!Accept
  <2>1. Len(backlog') = Len(backlog) - 1
    BY <1>7, RtsAccept DEF Rts!Accept, RtsInv
  <2> QED
    BY <1>7, <1>t, <1>n, <2>1 DEF SignalsFit, Rts!Accept, Rts!Goto, Rts!Gone
<1>8. CASE Rts!AcceptFails
  <2>1. /\ rts_pc = "accept" /\ rts_pc' = "broke"
        /\ UNCHANGED <<backlog, sock, queued, atListener, maxFiles>>
        /\ ~(backlog # <<>> /\ Cardinality(Rts!Open) < maxFiles)
    BY <1>8, RtsCardinality
    DEF Rts!AcceptFails, Rts!Goto, Rts!MayAccept, Rts!net, Rts!main
  <2>2. Len(backlog) > 0
    BY <1>t, <1>n, <2>1 DEF SignalsFit, Rts!Gone
  <2>3. backlog # <<>>
    BY <2>2, EmptySeq
  <2>4. Rts!Open' = Rts!Open
    BY <2>1 DEF Rts!Open
  <2>5. Cardinality(Rts!Open) >= maxFiles
    BY <1>n, <2>1, <2>3
  <2> QED
    BY <1>t, <2>1, <2>4, <2>5 DEF SignalsFit, Rts!Gone
<1>9. CASE Rts!RecvSome \/ Rts!RecvClosed
  <2>1. /\ UNCHANGED <<atListener, queued, early, backlog>>
        /\ rts_pc = "recv" /\ rts_pc' = "wait"
    BY <1>9 DEF Rts!RecvSome, Rts!RecvClosed, Rts!Goto, Rts!main, Rts!RecvData,
                Rts!RecvError, Rts!SockClose
  <2> QED
    BY <1>t, <2>1 DEF SignalsFit, Rts!Gone
<1> QED
  BY <1>3, <1>4, <1>5, <1>6, <1>7, <1>8, <1>9 DEF Rts!Next, Rts!Server

\* Whoever is accepted gets an owner, or what it sent before is marked.
LEMMA OwnedStep ==
  ASSUME RtsInv, Rts!Next
  PROVE  Owned'
<1>t. Owned /\ RtsNet /\ RtsTyped
  BY DEF RtsInv
<1> USE DEF Owned
<1>1. ASSUME NEW c \in Clients, Rts!Connect(c), rts_pc \notin Rts!Gone, Rts!Knock,
             UNCHANGED <<fd, async, unsignalled>>
      PROVE  Owned'
  <2>1. Rts!Open' = Rts!Open /\ UNCHANGED rx
    BY <1>1, <1>t DEF Rts!Connect, Rts!Open, RtsNet, NetTyped
  <2>2. rts_pc' = "own" => rts_pc = "own"
    BY <1>1, RtsKnock
  <2> QED
    BY <1>1, <1>t, <2>1, <2>2
<1>2. ASSUME NEW c \in Clients, rts_pc \notin Rts!Gone, Rts!Send(c) \/ Rts!Shutdown(c),
             Rts!Signal(c), UNCHANGED <<fd, async>>
      PROVE  Owned'
  <2>1. /\ UNCHANGED sock
        /\ \A d \in Clients : d # c => rx'[d] = rx[d]
    BY <1>2, <1>t, RtsSend
  <2>2. Rts!Open' = Rts!Open
    BY <2>1 DEF Rts!Open
  <2>3. /\ rts_pc' = "own" => rts_pc = "own"
        /\ unsignalled \subseteq unsignalled' /\ (c \in async \/ c \in unsignalled')
    BY <1>2, RtsSignal
  <2>4. ASSUME NEW d \in Clients \ async', rx'[d] # {} PROVE d \in unsignalled'
    <3>1. CASE d = c
      BY <1>2, <2>3, <2>4, <3>1
    <3>2. CASE d # c
      <4>1. rx'[d] = rx[d] /\ d \in Clients \ async /\ unsignalled \subseteq unsignalled'
        BY <1>2, <2>1, <2>3, <2>4, <3>2
      <4>2. d \in unsignalled
        BY <1>t, <2>4, <4>1
      <4> QED
        BY <4>1, <4>2
    <3> QED
      BY <3>1, <3>2
  <2>5. async' \subseteq Rts!Open' /\ (rts_pc' = "own" => fd' \in Rts!Open')
    BY <1>2, <1>t, <2>2, <2>3
  <2> QED
    BY <2>4, <2>5
<1>3. CASE Rts!Client
  BY <1>1, <1>2, <1>3 DEF Rts!Client, Rts!main
<1>4. CASE \/ Rts!Mask \/ Rts!Listen \/ Rts!WaitListener \/ Rts!WaitNorm
           \/ Rts!WaitError \/ Rts!AcceptFails \/ Rts!RecvNothing
  <2>1. UNCHANGED <<sock, rx, async, unsignalled>> /\ rts_pc' # "own"
    BY <1>4
    DEF Rts!Mask, Rts!Listen, Rts!WaitListener, Rts!WaitNorm, Rts!WaitError,
        Rts!AcceptFails, Rts!RecvNothing, Rts!Goto, Rts!net, Rts!main
  <2> QED
    BY <2>1, <1>t DEF Rts!Open
<1>5. CASE Rts!Accept
  <2>1. /\ Rts!SockAccept /\ fd' = Head(backlog) /\ UNCHANGED <<async, unsignalled>>
    BY <1>5 DEF Rts!Accept, Rts!Goto
  <2>2. Rts!Open' = Rts!Open \cup {fd'} /\ UNCHANGED rx
    BY <1>t, <2>1, RtsAccept
  <2> QED
    BY <1>t, <2>1, <2>2
<1>6. CASE Rts!Own
  <2>1. /\ UNCHANGED <<sock, rx, unsignalled>> /\ async' = async \cup {fd}
        /\ rts_pc = "own" /\ rts_pc' = "wait"
    BY <1>6 DEF Rts!Own, Rts!Goto, Rts!net
  <2> QED
    BY <2>1, <1>t DEF Rts!Open
<1>7. CASE Rts!RecvSome \/ Rts!RecvPart
  <2>1. /\ UNCHANGED <<sock, async>> /\ rts_pc' = "wait"
        /\ \A c \in Clients : rx'[c] \subseteq rx[c]
        /\ \A c \in Clients : c \in unsignalled /\ rx'[c] # {} => c \in unsignalled'
    BY <1>7, <1>t
    DEF Rts!RecvSome, Rts!RecvPart, Rts!RecvData, Rts!RecvError, Rts!Goto, Rts!main,
        Rts!net, RtsNet, NetTyped
  <2> QED
    BY <2>1, <1>t DEF Rts!Open
<1>8. CASE Rts!RecvClosed
  <2>1. /\ fd \in Clients /\ rts_pc' = "wait"
        /\ async' = async \ {fd} /\ unsignalled' = unsignalled \ {fd}
        /\ sock' = [sock EXCEPT ![fd] = "none"] /\ rx' = [rx EXCEPT ![fd] = {}]
    BY <1>8, <1>t DEF Rts!RecvClosed, Rts!SockClose, Rts!Goto, RtsTyped
  <2>2. /\ \A c \in Clients : c # fd => rx'[c] = rx[c] /\ sock'[c] = sock[c]
        /\ rx'[fd] = {}
    BY <2>1, <1>t DEF RtsNet, NetTyped
  <2> QED
    BY <2>1, <2>2, <1>t DEF Rts!Open
<1> QED
  BY <1>3, <1>4, <1>5, <1>6, <1>7, <1>8 DEF Rts!Next, Rts!Server

\* What waits at a socket is one thing or two.
LEMMA LoadIs ==
  /\ \A s : Load(s) \in 0 .. 2
  /\ \A s : Load(s \cup {"data"}) <= Load(s) + 1
  /\ \A s : Load(s \cup {"eof"}) <= Load(s) + 1
  /\ \A s : "data" \in s => Load(s \ {"data"}) = Load(s) - 1
  /\ Load({}) = 0
<1>1. \A s : Load(s) \in 0 .. 2
  BY DEF Load
<1>2. \A s : Load(s \cup {"data"}) <= Load(s) + 1
  BY DEF Load
<1>3. \A s : Load(s \cup {"eof"}) <= Load(s) + 1
  BY DEF Load
<1>4. \A s : "data" \in s => Load(s \ {"data"}) = Load(s) - 1
  <2> SUFFICES ASSUME NEW s, "data" \in s PROVE Load(s \ {"data"}) = Load(s) - 1
    OBVIOUS
  <2>1. "data" \notin s \ {"data"} /\ ("eof" \in s \ {"data"} <=> "eof" \in s)
    OBVIOUS
  <2> QED
    BY <2>1 DEF Load
<1>5. Load({}) = 0
  BY DEF Load
<1> QED
  BY <1>1, <1>2, <1>3, <1>4, <1>5

\* Every thing that arrives at a socket with an owner sends a signal.
LEMMA SignalledStep ==
  ASSUME RtsInv, Rts!Next
  PROVE  Signalled'
<1>t. Signalled /\ Owned /\ RtsNet /\ RtsTyped
  BY DEF RtsInv
<1>n. \A c \in Clients : OnTheWay(c) \in Nat /\ Signals(c) \in Nat
  <2>1. \A c \in Clients : OnTheWay(c) \in Nat
    BY TimesIsNat DEF RtsInv, RtsTyped, OnTheWay
  <2> QED
    BY <2>1 DEF Signals
<1>a. ASSUME UNCHANGED <<rx, unsignalled, queued, fd>>,
             rts_pc' = rts_pc \/ (rts_pc \notin Rts!Gone \cup {"recv"} /\ rts_pc' # "recv")
      PROVE  Signalled'
  <2>0. \A c \in Clients : OnTheWay(c)' = OnTheWay(c)
    BY <1>a DEF OnTheWay
  <2>1. \A c \in Clients : Signals(c)' = Signals(c)
    BY <1>a, <2>0 DEF Signals
  <2> QED
    BY <1>t, <1>a, <2>1 DEF Signalled
<1>1. ASSUME NEW c \in Clients, rts_pc \notin Rts!Gone, Rts!Connect(c), Rts!Knock,
             UNCHANGED <<queued, unsignalled, fd>>
      PROVE  Signalled'
  <2>1. CASE rts_pc' = "overflow"
    BY <2>1 DEF Signalled, Rts!Gone
  <2>2. CASE rts_pc' = rts_pc
    BY <1>1, <1>a, <2>2 DEF Rts!Connect
  <2> QED
    BY <1>1, <2>1, <2>2, RtsKnock
<1>2. ASSUME NEW c \in Clients, rts_pc \notin Rts!Gone, Rts!Send(c) \/ Rts!Shutdown(c),
             Rts!Signal(c), UNCHANGED fd
      PROVE  Signalled'
  <2>1. /\ "eof" \notin rx[c]
        /\ \A d \in Clients : d # c => rx'[d] = rx[d]
        /\ \/ rx'[c] = rx[c] \cup {"data"}
           \/ rx'[c] = rx[c] \cup {"eof"}
           \/ rx'[c] = rx[c] \cup {"err", "eof"}
    BY <1>2, <1>t, RtsSend
  <2>2. CASE rts_pc' = "overflow"
    BY <2>2 DEF Signalled, Rts!Gone
  <2>3. CASE rts_pc' = rts_pc
    <3>0. ASSUME NEW d \in Clients, NEW band \in {"POLLIN", "POLLERR"},
                 queued' = Append(queued, <<c, band>>)
          PROVE  OnTheWay(d)' = OnTheWay(d)
                                  + (IF d = c /\ band = "POLLIN" THEN 1 ELSE 0)
      <4>1. Times(Append(queued, <<c, band>>), <<d, "POLLIN">>)
              = Times(queued, <<d, "POLLIN">>)
                  + (IF <<c, band>> = <<d, "POLLIN">> THEN 1 ELSE 0)
        BY <1>t, TimesAppend DEF RtsTyped
      <4>2. (<<c, band>> = <<d, "POLLIN">>) <=> (d = c /\ band = "POLLIN")
        OBVIOUS
      <4> QED
        BY <4>1, <4>2, <3>0 DEF OnTheWay
    <3>1. /\ \A d \in Clients : d # c => OnTheWay(d)' = OnTheWay(d)
          /\ OnTheWay(c)' = IF queued' = Append(queued, <<c, "POLLIN">>)
                            THEN OnTheWay(c) + 1 ELSE OnTheWay(c)
      <4>1. CASE queued' = queued
        <5>1. \A d \in Clients : OnTheWay(d)' = OnTheWay(d)
          BY <4>1 DEF OnTheWay
        <5>2. queued # Append(queued, <<c, "POLLIN">>)
          <6>1. Len(Append(queued, <<c, "POLLIN">>)) = Len(queued) + 1 /\ Len(queued) \in Nat
            BY <1>t, AppendProperties, LenProperties DEF RtsTyped
          <6> QED
            BY <6>1
        <5> QED
          BY <4>1, <5>1, <5>2
      <4>2. CASE queued' = Append(queued, <<c, "POLLIN">>)
        <5>1. \A d \in Clients : OnTheWay(d)' = OnTheWay(d)
                 + (IF d = c /\ "POLLIN" = "POLLIN" THEN 1 ELSE 0)
          BY <4>2, <3>0
        <5> QED
          BY <4>2, <5>1, <1>n
      <4>3. CASE queued' = Append(queued, <<c, "POLLERR">>)
        <5>1. \A d \in Clients : OnTheWay(d)' = OnTheWay(d)
                 + (IF d = c /\ "POLLERR" = "POLLIN" THEN 1 ELSE 0)
          BY <4>3, <3>0
        <5>2. Append(queued, <<c, "POLLERR">>) # Append(queued, <<c, "POLLIN">>)
          <6>1. /\ Append(queued, <<c, "POLLIN">>)[Len(queued) + 1] = <<c, "POLLIN">>
                /\ Append(queued, <<c, "POLLERR">>)[Len(queued) + 1] = <<c, "POLLERR">>
            BY <1>t, AppendProperties DEF RtsTyped
          <6> QED
            BY <6>1
        <5> QED
          BY <4>3, <5>1, <5>2, <1>n
      <4> QED
        BY <4>1, <4>2, <4>3, <1>2, RtsSignal
    <3>2. \A d \in Clients : d # c => Signals(d)' = Signals(d)
      BY <1>2, <2>3, <3>1, <1>n DEF Signals
    <3>3. \A d \in Clients \ unsignalled' : d # c =>
            "err" \notin rx'[d] /\ Load(rx'[d]) <= Signals(d)'
      BY <1>2, <1>t, <2>1, <3>2, RtsSignal DEF Signalled
    <3>4. ASSUME c \notin unsignalled'
          PROVE  "err" \notin rx'[c] /\ Load(rx'[c]) <= Signals(c)'
      <4>1. /\ "err" \notin rx'[c] /\ c \notin unsignalled
            /\ queued' = Append(queued, <<c, "POLLIN">>)
        BY <1>2, <3>4, RtsSignal
      <4>2. Signals(c)' = Signals(c) + 1
        BY <1>2, <2>3, <3>1, <4>1, <1>n DEF Signals
      <4>3. Load(rx'[c]) <= Load(rx[c]) + 1
        BY <2>1, <4>1, LoadIs
      <4>4. Load(rx[c]) <= Signals(c)
        BY <1>2, <1>t, <4>1 DEF Signalled
      <4>5. Load(rx[c]) \in Nat /\ Load(rx'[c]) \in Nat
        BY LoadIs
      <4> QED
        BY <1>n, <4>1, <4>2, <4>3, <4>4, <4>5
    <3> QED
      BY <3>3, <3>4 DEF Signalled
  <2> QED
    BY <1>2, <2>2, <2>3, RtsSignal
<1>3. CASE Rts!Client
  BY <1>1, <1>2, <1>3 DEF Rts!Client, Rts!main
<1>4. CASE Rts!Mask \/ Rts!Listen \/ Rts!WaitListener \/ Rts!Own
  BY <1>4, <1>a
  DEF Rts!Mask, Rts!Listen, Rts!WaitListener, Rts!Own, Rts!Goto, Rts!net, Rts!main,
      Rts!Gone
<1>5. CASE Rts!AcceptFails
  BY <1>5 DEF Rts!AcceptFails, Rts!Goto, Signalled, Rts!Gone
<1>6. CASE Rts!WaitNorm \/ Rts!WaitError
  <2>1. /\ UNCHANGED <<rx, unsignalled>> /\ queued # <<>> /\ queued' = Tail(queued)
        /\ rts_pc = "wait"
        /\ \/ /\ Head(queued)[2] = "POLLIN" /\ fd' = Head(queued)[1]
              /\ rts_pc' = "recv"
           \/ Head(queued)[2] = "POLLERR" /\ rts_pc' = "wait"
    BY <1>6 DEF Rts!WaitNorm, Rts!WaitError, Rts!Goto, Rts!net, Rts!main
  <2>2. Head(queued) \in Clients \X {"POLLIN", "POLLERR"}
    BY <1>t, <2>1, HeadTailProperties DEF RtsTyped
  <2>3. \A c \in Clients : OnTheWay(c)
          = OnTheWay(c)' + (IF Head(queued) = <<c, "POLLIN">> THEN 1 ELSE 0)
    BY <1>t, <2>1, TimesTail DEF RtsTyped, OnTheWay
  <2>4. \A c \in Clients : OnTheWay(c)' \in Nat
    <3>1. queued' \in Seq(Clients \X {"POLLIN", "POLLERR"})
      BY <1>t, <2>1, HeadTailProperties DEF RtsTyped
    <3> QED
      BY <3>1, TimesIsNat DEF OnTheWay
  <2>5. \A c \in Clients : Head(queued) = <<c, "POLLIN">> => rts_pc' = "recv" /\ fd' = c
    BY <2>1, <2>2
  <2>6. \A c \in Clients : Signals(c) <= Signals(c)'
    <3> SUFFICES ASSUME NEW c \in Clients PROVE Signals(c) <= Signals(c)'
      OBVIOUS
    <3>1. CASE Head(queued) = <<c, "POLLIN">>
      BY <2>1, <2>3, <2>4, <2>5, <3>1, <1>n DEF Signals
    <3>2. CASE Head(queued) # <<c, "POLLIN">>
      BY <2>1, <2>3, <2>4, <3>2, <1>n DEF Signals
    <3> QED
      BY <3>1, <3>2
  <2>7. \A c \in Clients : Signals(c)' \in Nat
    BY <2>4 DEF Signals
  <2>8. rts_pc \notin Rts!Gone
    BY <2>1 DEF Rts!Gone
  <2> QED
    BY <1>n, <1>t, <2>1, <2>6, <2>7, <2>8, LoadIs DEF Signalled
<1>7. CASE Rts!Accept
  <2>1. /\ UNCHANGED <<rx, queued, unsignalled>> /\ rts_pc = "accept" /\ rts_pc' = "own"
    BY <1>7 DEF Rts!Accept, Rts!Goto, Rts!SockAccept
  <2>2. \A c \in Clients : OnTheWay(c)' = OnTheWay(c)
    BY <2>1 DEF OnTheWay
  <2>3. \A c \in Clients : Signals(c)' = Signals(c)
    BY <2>1, <2>2 DEF Signals
  <2> QED
    BY <1>t, <2>1, <2>3 DEF Signalled, Rts!Gone
<1>8. CASE Rts!RecvSome \/ Rts!RecvPart \/ Rts!RecvClosed \/ Rts!RecvNothing
  <2>1. /\ rts_pc = "recv" /\ rts_pc' = "wait" /\ UNCHANGED <<queued, fd>>
        /\ fd \in Clients /\ rts_pc \notin Rts!Gone
    BY <1>8, <1>t
    DEF Rts!RecvSome, Rts!RecvPart, Rts!RecvClosed, Rts!RecvNothing, Rts!Goto,
        Rts!main, RtsTyped, Rts!Gone
  <2>2. /\ \A c \in Clients : c # fd => rx'[c] = rx[c]
        /\ \A c \in Clients : c # fd => (c \in unsignalled' <=> c \in unsignalled)
    BY <1>8, <1>t
    DEF Rts!RecvSome, Rts!RecvPart, Rts!RecvClosed, Rts!RecvNothing, Rts!RecvData,
        Rts!RecvError, Rts!SockClose, RtsNet, NetTyped, Rts!main, Rts!net
  <2>0. \A c \in Clients : OnTheWay(c)' = OnTheWay(c)
    BY <2>1 DEF OnTheWay
  <2>3. \A c \in Clients : c # fd => Signals(c)' = Signals(c)
    BY <2>0, <2>1, <1>n DEF Signals
  <2>4. Signals(fd)' = Signals(fd) - 1 /\ Signals(fd)' \in Nat
    BY <1>n, <2>0, <2>1 DEF Signals
  <2>5. ASSUME fd \notin unsignalled'
        PROVE  "err" \notin rx'[fd] /\ Load(rx'[fd]) <= Signals(fd)'
    <3>1. CASE rx'[fd] = {}
      BY <2>4, <3>1, LoadIs
    <3>2. CASE rx'[fd] # {}
      <4>1. UNCHANGED unsignalled /\ ~Rts!RecvPart
        BY <1>8, <1>t, <2>1, <2>5, <3>2
        DEF Rts!RecvSome, Rts!RecvPart, Rts!RecvClosed, Rts!RecvNothing, Rts!SockClose,
            RtsNet, NetTyped
      <4>2. "err" \notin rx[fd] /\ Load(rx[fd]) <= Signals(fd)
        BY <1>t, <2>1, <2>5, <4>1 DEF Signalled
      <4>3. fd \in async \/ rx[fd] = {}
        BY <1>t, <2>1, <2>5, <4>1 DEF Owned
      <4>4. CASE Rts!RecvSome
        <5>1. "data" \in rx[fd] /\ rx'[fd] = rx[fd] \ {"data"}
          BY <1>t, <2>1, <4>2, <4>4 DEF Rts!RecvSome, Rts!RecvData, Rts!RecvError, RtsNet, NetTyped
        <5>2. Load(rx'[fd]) = Load(rx[fd]) - 1 /\ Load(rx[fd]) \in Nat
          BY <5>1, LoadIs
        <5> QED
          BY <1>n, <2>1, <2>4, <4>2, <5>1, <5>2
      <4>5. CASE Rts!RecvNothing
        <5>1. rx'[fd] = rx[fd] /\ (sock[fd] # "open" \/ rx[fd] = {})
          BY <4>5 DEF Rts!RecvNothing, Rts!net
        <5>2. sock[fd] = "open"
          BY <1>t, <3>2, <4>3, <5>1 DEF Owned, Rts!Open
        <5> QED
          BY <3>2, <5>1, <5>2
      <4>6. CASE Rts!RecvClosed
        BY <1>t, <2>1, <3>2, <4>6 DEF Rts!RecvClosed, Rts!SockClose, RtsNet, NetTyped
      <4> QED
        BY <1>8, <4>1, <4>4, <4>5, <4>6
    <3> QED
      BY <3>1, <3>2
  <2>6. ASSUME NEW c \in Clients, c \notin unsignalled'
        PROVE  "err" \notin rx'[c] /\ Load(rx'[c]) <= Signals(c)'
    <3>1. CASE c = fd
      <4>1. Signals(c)' = Signals(fd)'
        BY <2>1, <3>1 DEF Signals, OnTheWay
      <4> QED
        BY <2>5, <2>6, <3>1, <4>1
    <3>2. CASE c # fd
      BY <1>t, <2>1, <2>2, <2>3, <2>6, <3>2 DEF Signalled
    <3> QED
      BY <3>1, <3>2
  <2> QED
    BY <2>6 DEF Signalled
<1> QED
  BY <1>3, <1>4, <1>5, <1>6, <1>7, <1>8 DEF Rts!Next, Rts!Server

\* A step of io_rts.c keeps all of it.
LEMMA RtsStep ==
  ASSUME RtsInv, Rts!Next \/ UNCHANGED <<netVars, rtsVars>>
  PROVE  RtsInv'
<1>1. CASE Rts!Next
  BY <1>1, RtsNetStep, RtsTypedStep, MaskedFirstStep, SignalsFitStep, OwnedStep,
     SignalledStep
  DEF RtsInv
<1>2. CASE UNCHANGED <<netVars, rtsVars>>
  <2>1. UNCHANGED <<maxFiles, sock, rx, backlog, rts_pc, fd, masked, async, listening,
                    atListener, queued, unsignalled, early>>
    BY <1>2 DEF netVars, rtsVars
  <2>0. \A c : OnTheWay(c)' = OnTheWay(c)
    BY <2>1 DEF OnTheWay
  <2>2. Rts!Open' = Rts!Open /\ \A c : Signals(c)' = Signals(c)
    BY <2>0, <2>1 DEF Rts!Open, Signals
  <2> QED
    BY <2>1, <2>2
    DEF RtsInv, RtsNet, NetTyped, QueueSound, RtsTyped, MaskedFirst, SignalsFit, Owned,
        Signalled
<1> QED
  BY <1>1, <1>2

\* What the run checks of io_rts.c.
LEMMA RtsPromises ==
  ASSUME RtsInv
  PROVE  Rts!RtsTypeOK /\ Rts!ServerLives /\ Rts!OnItsWay
<1>t. RtsNet /\ RtsTyped /\ MaskedFirst /\ SignalsFit /\ Signalled
  BY DEF RtsInv
<1>n. /\ atListener \in Nat /\ early \in Nat /\ Len(queued) \in Nat
      /\ Len(backlog) \in Nat /\ MaxSignals \in Nat
  BY <1>t, ProgramsAssumption, LenProperties DEF RtsNet, NetTyped, RtsTyped
<1>1. Rts!RtsTypeOK
  <2>1. atListener + Len(queued) \in 0 .. MaxSignals + 1
    BY <1>t, <1>n DEF SignalsFit
  <2>2. Rts!NetTypeOK
    BY <1>t DEF RtsNet, NetTyped, Rts!NetTypeOK
  <2> QED
    BY <1>t, <2>1, <2>2 DEF RtsTyped, MaskedFirst, Rts!RtsTypeOK
<1>2. Rts!ServerLives
  <2>1. rts_pc = "accept" => Len(backlog) > 0
    BY <1>t, <1>n DEF SignalsFit, Rts!Gone
  <2>2. rts_pc = "accept" => backlog # <<>>
    BY <2>1, EmptySeq
  <2> QED
    BY <1>t, <2>2, RtsCardinality DEF MaskedFirst, SignalsFit, Rts!ServerLives
<1>3. ASSUME rts_pc \notin Rts!Gone, NEW c \in Clients, Rts!Readable(c),
             c \notin unsignalled
      PROVE  \/ \E k \in DOMAIN queued : queued[k] = <<c, "POLLIN">>
             \/ rts_pc = "recv" /\ fd = c
  <2>1. "err" \notin rx[c] /\ Load(rx[c]) <= Signals(c) /\ rx[c] # {}
    BY <1>t, <1>3 DEF Signalled, Rts!Readable
  <2>2. Load(rx[c]) >= 1
    BY <1>t, <2>1 DEF Load, RtsNet, NetTyped
  <2>3. CASE rts_pc = "recv" /\ fd = c
    BY <2>3
  <2>4. CASE ~(rts_pc = "recv" /\ fd = c)
    <3>1. OnTheWay(c) \in Nat /\ Load(rx[c]) \in Nat
      <4>1. OnTheWay(c) \in Nat
        BY <1>t, TimesIsNat DEF RtsTyped, OnTheWay
      <4> QED
        BY <4>1, LoadIs
    <3>2. OnTheWay(c) # 0
      BY <2>1, <2>2, <2>4, <3>1 DEF Signals
    <3>3. {k \in 1 .. Len(queued) : queued[k] = <<c, "POLLIN">>} # {}
      BY <3>2, FS_EmptySet DEF OnTheWay, Times
    <3>4. DOMAIN queued = 1 .. Len(queued)
      BY <1>t, LenProperties DEF RtsTyped
    <3> QED
      BY <3>3, <3>4
  <2> QED
    BY <2>3, <2>4
<1>4. Rts!OnItsWay
  BY <1>3, <1>t DEF SignalsFit, Rts!OnItsWay
<1> QED
  BY <1>1, <1>2, <1>4

\* RtsInv holds of every state of the program.
LEMMA RtsIsInvariant == Spec => [](program = "rts" => RtsInv)
<1> DEFINE Inv == program = "rts" => RtsInv
<1>1. Init => Inv
  BY RtsInit DEF Init
<1>2. Inv /\ [Next]_vars => Inv'
  BY SameProgram, RtsOnly, RtsStep
<1> QED
  BY <1>1, <1>2, PTL DEF Spec

\* io_rts.c: a signal is on its way, or in the hand of main(), for whatever waits
\* at a socket; only what came before the socket had an owner, a reset, and what
\* a recv of 16384 bytes left, until the socket is empty once, have none.  The
\* listener's signals are as many as its connections, but for those that came first.
THEOREM SignalIsOnItsWay == Spec => []OnItsWay
<1>1. (program = "rts" => RtsInv) => OnItsWay
  BY RtsPromises DEF OnItsWay
<1> QED
  BY <1>1, RtsIsInvariant, PTL

----------------------------------------------------------------------------
(* PreforkServer                                                           *)

\* While this program is checked the steps are its own.
LEMMA PreforkOnly ==
  ASSUME program = "prefork", [Next]_vars
  PROVE  Prefork!Next \/ UNCHANGED <<netVars, preforkVars>>
BY DEF Next, Running, PoolStep, Outside, Only, vars, Prefork!Next, ThreadNames

\* The children that have a client.
Busy == {"recv", "echo"}

\* The ranges of the variables of PreforkServer.
PreforkTyped ==
  /\ NetTyped /\ QueueSound /\ maxFiles \in PoolFiles
  /\ family \in Prefork!Variants
  /\ pf_main \in {"socket", "option", "bind", "fork", "pause", "exit", "inuse"}
  /\ pf_i \in 0 .. MaxPool
  /\ pf_pc \in [Prefork!Idx -> {"none", "accept", "recv", "echo", "closed"}]
  /\ conn \in [Prefork!Idx -> Clients \cup {NoClient}]
  /\ leaked \in [Prefork!Idx -> Nat]

\* main() has a child to fork as long as it forks, and who has not been forked
\* does nothing.
ForksInTurn ==
  /\ pf_main \in {"socket", "option", "bind", "fork"} => pf_i < MaxPool
  /\ \A k \in Prefork!Idx : k >= pf_i => pf_pc[k] = "none"

\* A child that may leave a socket open has a descriptor for it.
LeaksFit == \A k \in Prefork!Idx :
  /\ leaked[k] <= maxFiles
  /\ pf_pc[k] \in Busy => leaked[k] < maxFiles

\* HeldOnce, and no child that is not served by a loop has a client left.
Held ==
  /\ \A c \in Prefork!Open : \E k \in Prefork!Idx : conn[k] = c
  /\ \A k \in Prefork!Idx : conn[k] # NoClient => conn[k] \in Prefork!Open
  /\ \A k, l \in Prefork!Idx : conn[k] = conn[l] /\ conn[k] # NoClient => k = l
  /\ \A k \in Prefork!Idx : pf_pc[k] \in Busy <=> conn[k] # NoClient

\* These make HeldOnce inductive.
PreforkInv == /\ PreforkTyped /\ reuse \in BOOLEAN
              /\ ForksInTurn /\ LeaksFit /\ Held

\* No child has been forked.
LEMMA PreforkInit == Prefork!Init => PreforkInv
<1> SUFFICES ASSUME Prefork!Init PROVE PreforkInv
  OBVIOUS
<1>1. PreforkTyped /\ reuse \in BOOLEAN
  <2>1. NetTyped /\ QueueSound /\ maxFiles \in PoolFiles
    BY EmptySeq DEF Prefork!Init, Prefork!NetInit, NetTyped, QueueSound
  <2>2. pf_i \in 0 .. MaxPool
    BY ProgramsAssumption DEF Prefork!Init
  <2> QED
    BY <2>1, <2>2 DEF Prefork!Init, PreforkTyped, Prefork!None, Prefork!NoConn,
       Prefork!NoLeak
<1>2. ForksInTurn /\ LeaksFit
  BY ProgramsAssumption
  DEF Prefork!Init, Prefork!NetInit, ForksInTurn, LeaksFit, Prefork!None,
      Prefork!NoLeak, Busy
<1>3. Held
  BY DEF Prefork!Init, Prefork!NetInit, Held, Busy, Prefork!None, Prefork!NoConn,
     Prefork!Open
<1> QED
  BY <1>1, <1>2, <1>3 DEF PreforkInv

\* What the steps of a child do, apart old what they send and receive.
Takes(k, goes) ==   \* accept
  /\ pf_pc[k] = "accept" /\ backlog # <<>> /\ leaked[k] < maxFiles
  /\ backlog' = Tail(backlog)
  /\ sock' = [sock EXCEPT ![Head(backlog)] = IF goes THEN "none" ELSE "open"]
  /\ conn' = IF goes THEN conn ELSE [conn EXCEPT ![k] = Head(backlog)]
  /\ pf_pc' = [pf_pc EXCEPT ![k] = IF goes THEN "none" ELSE "recv"]
  /\ rx' \in [Clients -> SUBSET {"data", "err", "eof"}]
  /\ UNCHANGED <<leaked, maxFiles>>

Stays(k) ==         \* the same clients
  /\ UNCHANGED <<sock, backlog, conn, leaked, maxFiles>>
  /\ rx' \in [Clients -> SUBSET {"data", "err", "eof"}]
  /\ \E old, to \in {"none", "accept", "recv", "echo", "closed"} :
       /\ pf_pc[k] = old /\ pf_pc' = [pf_pc EXCEPT ![k] = to]
       /\ old \in Busy <=> to \in Busy
       /\ old = "none" => to = "none"

Releases(k) ==      \* close
  /\ pf_pc[k] \in Busy /\ UNCHANGED <<backlog, maxFiles>>
  /\ conn[k] \in Clients
  /\ sock' = [sock EXCEPT ![conn[k]] = "none"]
  /\ rx' \in [Clients -> SUBSET {"data", "err", "eof"}]
  /\ conn' = [conn EXCEPT ![k] = NoClient]
  /\ \E to \in {"none", "accept", "closed"} : pf_pc' = [pf_pc EXCEPT ![k] = to]
  /\ \E n \in {0, leaked[k], leaked[k] + 1} : leaked' = [leaked EXCEPT ![k] = n]

Ends(k) ==          \* the end of a child without a client
  /\ pf_pc[k] \notin Busy /\ UNCHANGED <<sock, rx, backlog, conn, maxFiles>>
  /\ pf_pc' = [pf_pc EXCEPT ![k] = "none"] /\ leaked' = [leaked EXCEPT ![k] = 0]

\* Every step of a child is one of these four.
LEMMA ChildSteps ==
  ASSUME PreforkInv, NEW k \in Prefork!Idx,
         Prefork!Child(k) \/ Prefork!ChildDies(k)
  PROVE  /\ UNCHANGED <<family, pf_main, reuse, pf_i>>
         /\ (\E goes \in BOOLEAN : Takes(k, goes)) \/ Stays(k) \/ Releases(k) \/ Ends(k)
<1>u. UNCHANGED <<family, pf_main, reuse, pf_i>> /\ UNCHANGED maxFiles
  BY DEF Prefork!Child, Prefork!ChildDies, Prefork!mainVars
<1>h. pf_pc[k] \in Busy <=> conn[k] # NoClient
  BY DEF PreforkInv, Held
<1>t. /\ rx \in [Clients -> SUBSET {"data", "err", "eof"}]
      /\ pf_pc[k] \in {"none", "accept", "recv", "echo", "closed"}
      /\ conn[k] \in Clients \cup {NoClient} /\ NoClient \notin Clients
      /\ leaked = [leaked EXCEPT ![k] = leaked[k]]
  BY ProgramsAssumption DEF PreforkInv, PreforkTyped, NetTyped
<1>r. /\ \A c : [rx EXCEPT ![c] = {}] \in [Clients -> SUBSET {"data", "err", "eof"}]
      /\ \A c, x : [rx EXCEPT ![c] = @ \ {x}] \in [Clients -> SUBSET {"data", "err", "eof"}]
  BY <1>t
<1>1. ASSUME Prefork!Accept(k) PROVE Takes(k, FALSE)
  BY <1>1, <1>u, <1>t DEF Prefork!Accept, Prefork!ChildGoes, Prefork!Room, Takes
<1>2. ASSUME Prefork!AcceptExits(k) PROVE Takes(k, TRUE)
  BY <1>2, <1>u, <1>r DEF Prefork!AcceptExits, Prefork!ChildGoes, Prefork!Room, Takes,
     Prefork!Close
<1>3. ASSUME Prefork!RecvEcho(k) PROVE Stays(k)
  <2>1. UNCHANGED <<sock, backlog, conn, leaked>>
    BY <1>3 DEF Prefork!RecvEcho, Prefork!RecvData
  <2>2. rx' \in [Clients -> SUBSET {"data", "err", "eof"}]
    BY <1>3, <1>r, <1>t DEF Prefork!RecvEcho, Prefork!RecvData
  <2> QED
    BY <1>3, <1>u, <2>1, <2>2 DEF Prefork!RecvEcho, Prefork!ChildGoes, Stays, Busy
<1>4. ASSUME Prefork!RecvFails(k) PROVE Releases(k)
  BY <1>4, <1>u, <1>r, <1>t, <1>h
  DEF Prefork!RecvFails, Prefork!ChildGoes, Prefork!Done, Prefork!Close, Releases, Busy
<1>5. ASSUME Prefork!RecvClosed(k) PROVE Releases(k)
  BY <1>5, <1>u, <1>r, <1>t, <1>h
  DEF Prefork!RecvClosed, Prefork!ChildGoes, Prefork!Done, Prefork!Close, Releases, Busy
<1>6. ASSUME Prefork!EchoSent(k) PROVE Stays(k)
  BY <1>6, <1>u, <1>t DEF Prefork!EchoSent, Prefork!ChildGoes, Prefork!net, Stays, Busy
<1>7. ASSUME Prefork!EchoFails(k) PROVE Releases(k)
  BY <1>7, <1>u, <1>r, <1>t, <1>h
  DEF Prefork!EchoFails, Prefork!ChildGoes, Prefork!Done, Prefork!Close, Releases, Busy
<1>8. ASSUME Prefork!RecvOnClosed(k) PROVE Stays(k)
  BY <1>8, <1>u, <1>t DEF Prefork!RecvOnClosed, Prefork!ChildGoes, Prefork!net, Stays, Busy
<1>9. ASSUME Prefork!ChildEnds(k) PROVE Releases(k) \/ Ends(k)
  <2>1. CASE conn[k] \in Clients
    BY <1>9, <1>u, <1>r, <1>t, <1>h, <2>1
    DEF Prefork!ChildEnds, Prefork!Done, Prefork!Close, Releases
  <2>2. CASE conn[k] \notin Clients
    BY <1>9, <1>u, <1>t, <1>h, <2>2 DEF Prefork!ChildEnds, Ends
  <2> QED
    BY <2>1, <2>2
<1> QED
  BY <1>u, <1>1, <1>2, <1>3, <1>4, <1>5, <1>6, <1>7, <1>8, <1>9
  DEF Prefork!Child, Prefork!ChildDies, Prefork!EchoKilled

\* What the rest of the program and the clients do.
LEMMA OtherSteps ==
  ASSUME PreforkInv, Prefork!Main \/ Prefork!Client
  PROVE  /\ NetTyped' /\ QueueSound' /\ Prefork!Open' = Prefork!Open
         /\ UNCHANGED <<conn, leaked, maxFiles, family>>
<1>t. NetTyped /\ QueueSound
  BY DEF PreforkInv, PreforkTyped
<1>1. ASSUME NEW c \in Clients, Prefork!Connect(c)
      PROVE  NetTyped' /\ QueueSound' /\ Prefork!Open' = Prefork!Open
  <2>1. /\ sock[c] = "none" /\ sock' = [sock EXCEPT ![c] = "queued"]
        /\ backlog' = Append(backlog, c) /\ UNCHANGED rx
    BY <1>1 DEF Prefork!Connect
  <2>2. /\ QueueSound' /\ sock' \in [Clients -> {"none", "queued", "open"}]
        /\ backlog' \in Seq(Clients)
    BY <1>t, <2>1, QueueGrows
  <2>3. Prefork!Open' = Prefork!Open
    BY <1>t, <2>1 DEF NetTyped, Prefork!Open
  <2> QED
    BY <1>t, <2>1, <2>2, <2>3 DEF NetTyped
<1>2. ASSUME UNCHANGED <<sock, backlog>>,
             rx' \in [Clients -> SUBSET {"data", "err", "eof"}]
      PROVE  NetTyped' /\ QueueSound' /\ Prefork!Open' = Prefork!Open
  BY <1>t, <1>2 DEF NetTyped, QueueSound, Prefork!Open
<1>3. ASSUME NEW c \in Clients, Prefork!ClientSend(c) \/ Prefork!ClientExit(c)
      PROVE  NetTyped' /\ QueueSound' /\ Prefork!Open' = Prefork!Open
  <2>1. UNCHANGED <<sock, backlog>>
    BY <1>3 DEF Prefork!ClientSend, Prefork!ClientExit, Prefork!Send
  <2>2. rx' \in [Clients -> SUBSET {"data", "err", "eof"}]
    BY <1>3, <1>t DEF Prefork!ClientSend, Prefork!ClientExit, Prefork!Send, NetTyped
  <2> QED
    BY <1>2, <2>1, <2>2
<1>4. CASE Prefork!Client
  BY <1>1, <1>3, <1>4
  DEF Prefork!Client, Prefork!ClientConnect, Prefork!mainVars, Prefork!sessions
<1>5. CASE Prefork!Main
  <2>1. UNCHANGED <<sock, backlog, rx, conn, leaked, maxFiles, family>>
    BY <1>5 DEF Prefork!Main, Prefork!Socket, Prefork!SetOption, Prefork!Bind,
                Prefork!Fork, Prefork!ForkFails, Prefork!MainStep, Prefork!net
  <2> QED
    BY <1>2, <1>t, <2>1 DEF NetTyped
<1> QED
  BY <1>4, <1>5

\* main() forks the next child, or moves towards it.
LEMMA MainSteps ==
  ASSUME PreforkInv, Prefork!Main
  PROVE  /\ reuse' \in BOOLEAN
         /\ pf_main' \in {"socket", "option", "bind", "fork", "pause", "exit", "inuse"}
         /\ pf_i' \in 0 .. MaxPool /\ ForksInTurn'
         /\ pf_pc' \in [Prefork!Idx -> {"none", "accept", "recv", "echo", "closed"}]
         /\ \A k \in Prefork!Idx : (pf_pc'[k] \in Busy) <=> (pf_pc[k] \in Busy)
<1>t. /\ pf_i \in 0 .. MaxPool /\ MaxPool \in Nat \ {0} /\ ForksInTurn
      /\ pf_pc \in [Prefork!Idx -> {"none", "accept", "recv", "echo", "closed"}]
  BY ProgramsAssumption DEF PreforkInv, PreforkTyped
<1>b. reuse' \in BOOLEAN
  BY DEF Prefork!Main, Prefork!Socket, Prefork!SetOption, Prefork!Bind,
         Prefork!Fork, Prefork!ForkFails, PreforkInv
<1>1. CASE Prefork!Socket \/ Prefork!SetOption \/ Prefork!Bind
  <2>1. /\ UNCHANGED <<pf_i, pf_pc>> /\ pf_main \in {"socket", "option", "bind"}
        /\ pf_main' \in {"option", "exit", "bind", "fork", "inuse"}
    BY <1>1 DEF Prefork!Socket, Prefork!SetOption, Prefork!Bind, Prefork!MainStep
  <2> QED
    BY <1>b, <1>t, <2>1 DEF ForksInTurn
<1>2. CASE Prefork!Fork \/ Prefork!ForkFails
  <2>1. /\ pf_main = "fork" /\ pf_i' = pf_i + 1
        /\ pf_main' = IF pf_i + 1 = MaxPool THEN "pause" ELSE "fork"
        /\ \/ pf_pc' = [pf_pc EXCEPT ![pf_i] = "accept"]
           \/ pf_pc' = pf_pc
    BY <1>2 DEF Prefork!Fork, Prefork!ForkFails, Prefork!MainStep, Prefork!NextFork
  <2>2. pf_i \in Prefork!Idx /\ pf_i + 1 \in 0 .. MaxPool /\ pf_pc[pf_i] = "none"
    BY <1>t, <2>1 DEF ForksInTurn, Prefork!Idx
  <2>3. \A k \in Prefork!Idx : k \in Nat
    BY DEF Prefork!Idx
  <2>4. /\ pf_pc' \in [Prefork!Idx -> {"none", "accept", "recv", "echo", "closed"}]
        /\ \A k \in Prefork!Idx : k # pf_i => pf_pc'[k] = pf_pc[k]
        /\ pf_pc'[pf_i] \in {"none", "accept"}
    BY <1>t, <2>1, <2>2
  <2>5. \A k \in Prefork!Idx : k >= pf_i + 1 => k # pf_i /\ k >= pf_i
    BY <1>t, <2>3
  <2>6. pf_i + 1 # MaxPool => pf_i + 1 < MaxPool
    BY <1>t, <2>2
  <2>7. ForksInTurn'
    BY <1>t, <2>1, <2>4, <2>5, <2>6 DEF ForksInTurn
  <2> QED
    BY <1>b, <2>1, <2>2, <2>4, <2>7 DEF Busy
<1> QED
  BY <1>1, <1>2 DEF Prefork!Main

\* A step of main(), of a child or of a client keeps all of it.
LEMMA PreforkStep ==
  ASSUME PreforkInv, Prefork!Next \/ UNCHANGED <<netVars, preforkVars>>
  PROVE  PreforkInv'
<1>t. PreforkTyped /\ ForksInTurn /\ LeaksFit /\ Held /\ NetTyped /\ QueueSound
  BY DEF PreforkInv, PreforkTyped
<1>n. maxFiles \in Nat /\ NoClient \notin Clients
  BY <1>t, ProgramsAssumption DEF PreforkTyped
<1>1. CASE Prefork!Main
  <2>1. LeaksFit'
    BY <1>1, <1>t, OtherSteps, MainSteps DEF LeaksFit
  <2>2. Held'
    BY <1>1, <1>t, OtherSteps, MainSteps DEF Held
  <2>3. PreforkTyped'
    BY <1>1, <1>t, OtherSteps, MainSteps DEF PreforkTyped
  <2> QED
    BY <1>1, <2>1, <2>2, <2>3, MainSteps DEF PreforkInv
<1>2. CASE Prefork!Client
  <2>0. UNCHANGED <<family, pf_main, reuse, pf_i, pf_pc, conn, leaked, maxFiles>>
    BY <1>2 DEF Prefork!Client, Prefork!mainVars, Prefork!sessions
  <2>1. LeaksFit' /\ ForksInTurn'
    BY <2>0, <1>t DEF LeaksFit, ForksInTurn
  <2>2. Held'
    BY <1>2, <1>t, <2>0, OtherSteps DEF Held
  <2>3. PreforkTyped'
    BY <1>2, <1>t, <2>0, OtherSteps DEF PreforkTyped
  <2> QED
    BY <2>0, <2>1, <2>2, <2>3 DEF PreforkInv
<1>3. ASSUME NEW k \in Prefork!Idx, UNCHANGED <<family, pf_main, reuse, pf_i>>,
             NEW goes \in BOOLEAN, Takes(k, goes)
      PROVE  PreforkInv'
  <2> DEFINE c == Head(backlog)
  <2>1. /\ c \in Clients /\ sock[c] = "queued" /\ QueueSound'
        /\ sock' \in [Clients -> {"none", "queued", "open"}]
        /\ backlog' \in Seq(Clients)
    <3>1. (IF goes THEN "none" ELSE "open") \in {"none", "queued", "open"}
      OBVIOUS
    <3> QED
      BY <1>3, <1>t, <3>1, QueueShrinks DEF Takes
  <2>2. NetTyped'
    BY <1>3, <2>1 DEF NetTyped, Takes
  <2>3. c \notin Prefork!Open
    BY <2>1 DEF Prefork!Open
  <2>4. conn[k] = NoClient
    BY <1>3, <1>t DEF Held, Takes, Busy
  <2>5. /\ pf_pc[k] = "accept" /\ \A j \in Prefork!Idx : j # k => pf_pc'[j] = pf_pc[j]
        /\ pf_pc'[k] = (IF goes THEN "none" ELSE "recv")
        /\ pf_pc' \in [Prefork!Idx -> {"none", "accept", "recv", "echo", "closed"}]
    BY <1>3, <1>t DEF Takes, PreforkTyped
  <2>6. LeaksFit'
    BY <1>3, <1>t, <2>5 DEF LeaksFit, Takes
  <2>7. ForksInTurn'
    BY <1>3, <1>t, <2>5 DEF ForksInTurn
  <2>8. CASE goes
    <3>1. Prefork!Open' = Prefork!Open /\ UNCHANGED conn
      BY <1>3, <1>t, <2>1, <2>8 DEF Takes, Prefork!Open, NetTyped
    <3>2. Held'
      BY <1>t, <2>4, <2>5, <2>8, <3>1 DEF Held, Busy
    <3>3. PreforkTyped'
      BY <1>3, <1>t, <2>1, <2>2, <2>5, <3>1 DEF PreforkTyped, Takes
    <3> QED
      BY <1>3, <2>6, <2>7, <3>2, <3>3 DEF PreforkInv
  <2>9. CASE ~goes
    <3>1. /\ Prefork!Open' = Prefork!Open \cup {c}
          /\ conn' = [conn EXCEPT ![k] = c]
      BY <1>3, <1>t, <2>1, <2>9 DEF Takes, Prefork!Open, NetTyped
    <3>2. conn' \in [Prefork!Idx -> Clients \cup {NoClient}] /\ conn'[k] = c
          /\ \A j \in Prefork!Idx : j # k => conn'[j] = conn[j]
      BY <1>3, <1>t, <2>1, <3>1 DEF PreforkTyped
    <3>3. \A j \in Prefork!Idx : conn[j] # c
      BY <1>t, <1>n, <2>1, <2>3 DEF Held
    <3>4. Held'
      <4>1. \A d \in Prefork!Open' : \E j \in Prefork!Idx : conn'[j] = d
        BY <1>t, <1>n, <2>4, <3>1, <3>2 DEF Held, Prefork!Open
      <4>2. \A j \in Prefork!Idx : conn'[j] # NoClient => conn'[j] \in Prefork!Open'
        BY <1>t, <3>1, <3>2 DEF Held
      <4>3. \A j, l \in Prefork!Idx : conn'[j] = conn'[l] /\ conn'[j] # NoClient => j = l
        BY <1>t, <3>2, <3>3 DEF Held
      <4>4. \A j \in Prefork!Idx : pf_pc'[j] \in Busy <=> conn'[j] # NoClient
        BY <1>t, <1>n, <2>1, <2>5, <2>9, <3>2 DEF Held, Busy
      <4> QED
        BY <4>1, <4>2, <4>3, <4>4 DEF Held
    <3>5. PreforkTyped'
      BY <1>3, <1>t, <2>1, <2>2, <2>5, <3>2 DEF PreforkTyped, Takes
    <3> QED
      BY <1>3, <2>6, <2>7, <3>4, <3>5 DEF PreforkInv
  <2> QED
    BY <2>8, <2>9
<1>4. ASSUME NEW k \in Prefork!Idx, UNCHANGED <<family, pf_main, reuse, pf_i>>, Stays(k)
      PROVE  PreforkInv'
  <2>1. NetTyped' /\ QueueSound' /\ Prefork!Open' = Prefork!Open
    BY <1>4, <1>t DEF Stays, NetTyped, QueueSound, Prefork!Open
  <2>2. /\ pf_pc' \in [Prefork!Idx -> {"none", "accept", "recv", "echo", "closed"}]
        /\ \A j \in Prefork!Idx : /\ pf_pc'[j] \in Busy <=> pf_pc[j] \in Busy
                                  /\ pf_pc[j] = "none" => pf_pc'[j] = "none"
    BY <1>4, <1>t DEF Stays, PreforkTyped
  <2>3. LeaksFit' /\ ForksInTurn'
    BY <1>4, <1>t, <2>2 DEF Stays, LeaksFit, ForksInTurn
  <2>4. Held'
    BY <1>4, <1>t, <2>1, <2>2 DEF Stays, Held
  <2>5. PreforkTyped'
    BY <1>4, <1>t, <2>1, <2>2 DEF Stays, PreforkTyped
  <2> QED
    BY <1>4, <2>3, <2>4, <2>5 DEF PreforkInv
<1>5. ASSUME NEW k \in Prefork!Idx, UNCHANGED <<family, pf_main, reuse, pf_i>>, Releases(k)
      PROVE  PreforkInv'
  <2> DEFINE c == conn[k]
  <2>1. /\ c \in Clients /\ c \in Prefork!Open
        /\ sock' = [sock EXCEPT ![c] = "none"] /\ UNCHANGED <<backlog, maxFiles>>
        /\ conn' = [conn EXCEPT ![k] = NoClient]
    BY <1>5, <1>t, <1>n DEF Releases, Held
  <2>2. \A d \in Clients : sock[d] = "queued" => sock'[d] = "queued"
    BY <1>t, <2>1 DEF NetTyped, Prefork!Open
  <2>3. QueueSound' /\ NetTyped'
    <3>1. QueueSound'
      BY <1>t, <2>1, <2>2, QueueStays
    <3> QED
      BY <1>5, <1>t, <2>1, <3>1 DEF NetTyped, Releases
  <2>4. Prefork!Open' = Prefork!Open \ {c}
    BY <1>t, <2>1 DEF Prefork!Open, NetTyped
  <2>5. /\ pf_pc' \in [Prefork!Idx -> {"none", "accept", "recv", "echo", "closed"}]
        /\ pf_pc[k] \in Busy /\ pf_pc'[k] \notin Busy
        /\ \A j \in Prefork!Idx : j # k => pf_pc'[j] = pf_pc[j]
    BY <1>5, <1>t DEF Releases, PreforkTyped, Busy
  <2>6. /\ conn' \in [Prefork!Idx -> Clients \cup {NoClient}] /\ conn'[k] = NoClient
        /\ \A j \in Prefork!Idx : j # k => conn'[j] = conn[j]
    BY <1>t, <2>1 DEF PreforkTyped
  <2>7. \A j \in Prefork!Idx : j # k => conn[j] # c
    BY <1>t, <1>n, <2>1 DEF Held
  <2>8. Held'
    <3>1. \A d \in Prefork!Open' : \E j \in Prefork!Idx : conn'[j] = d
      BY <1>t, <2>4, <2>6 DEF Held
    <3>2. \A j \in Prefork!Idx : conn'[j] # NoClient => conn'[j] \in Prefork!Open'
      BY <1>t, <2>4, <2>6, <2>7 DEF Held
    <3>3. \A j, l \in Prefork!Idx : conn'[j] = conn'[l] /\ conn'[j] # NoClient => j = l
      BY <1>t, <2>6 DEF Held
    <3>4. \A j \in Prefork!Idx : pf_pc'[j] \in Busy <=> conn'[j] # NoClient
      BY <1>t, <2>5, <2>6 DEF Held
    <3> QED
      BY <3>1, <3>2, <3>3, <3>4 DEF Held
  <2>9. leaked' \in [Prefork!Idx -> Nat] /\ LeaksFit'
    <3>1. leaked[k] \in Nat /\ leaked[k] < maxFiles
      BY <1>t, <2>5 DEF LeaksFit, PreforkTyped
    <3>2. PICK n \in {0, leaked[k], leaked[k] + 1} : leaked' = [leaked EXCEPT ![k] = n]
      BY <1>5 DEF Releases
    <3>3. n \in Nat /\ n <= maxFiles
      BY <1>n, <3>1
    <3>4. /\ leaked' \in [Prefork!Idx -> Nat] /\ leaked'[k] = n
          /\ \A j \in Prefork!Idx : j # k => leaked'[j] = leaked[j]
      BY <1>t, <3>2, <3>3 DEF PreforkTyped
    <3> QED
      BY <1>t, <2>1, <2>5, <3>3, <3>4 DEF LeaksFit
  <2>10. ForksInTurn'
    BY <1>5, <1>t, <2>5 DEF ForksInTurn, Busy
  <2>11. PreforkTyped'
    BY <1>5, <1>t, <2>1, <2>3, <2>5, <2>6, <2>9 DEF PreforkTyped
  <2> QED
    BY <1>5, <2>8, <2>9, <2>10, <2>11 DEF PreforkInv
<1>6. ASSUME NEW k \in Prefork!Idx, UNCHANGED <<family, pf_main, reuse, pf_i>>, Ends(k)
      PROVE  PreforkInv'
  <2>1. NetTyped' /\ QueueSound' /\ Prefork!Open' = Prefork!Open
    BY <1>6, <1>t DEF Ends, NetTyped, QueueSound, Prefork!Open
  <2>2. /\ pf_pc' \in [Prefork!Idx -> {"none", "accept", "recv", "echo", "closed"}]
        /\ \A j \in Prefork!Idx : /\ pf_pc'[j] \in Busy <=> pf_pc[j] \in Busy
                                  /\ pf_pc[j] = "none" => pf_pc'[j] = "none"
    BY <1>6, <1>t DEF Ends, PreforkTyped, Busy
  <2>3. leaked' \in [Prefork!Idx -> Nat] /\ LeaksFit'
    BY <1>6, <1>t, <1>n, <2>2 DEF Ends, LeaksFit, PreforkTyped
  <2>4. ForksInTurn'
    BY <1>6, <1>t, <2>2 DEF ForksInTurn
  <2>5. Held'
    BY <1>6, <1>t, <2>1, <2>2 DEF Ends, Held
  <2>6. PreforkTyped'
    BY <1>6, <1>t, <2>1, <2>2, <2>3 DEF Ends, PreforkTyped
  <2> QED
    BY <1>6, <2>3, <2>4, <2>5, <2>6 DEF PreforkInv
<1>7. CASE UNCHANGED <<netVars, preforkVars>>
  <2>1. UNCHANGED <<maxFiles, sock, rx, backlog, family, pf_main, reuse, pf_i, pf_pc,
                    conn, leaked>>
    BY <1>7 DEF netVars, preforkVars
  <2>2. Prefork!Open' = Prefork!Open
    BY <2>1 DEF Prefork!Open
  <2>3. LeaksFit' /\ ForksInTurn' /\ Held'
    BY <2>1, <2>2, <1>t DEF LeaksFit, ForksInTurn, Held
  <2>4. PreforkTyped'
    BY <2>1, <1>t DEF PreforkTyped, NetTyped, QueueSound
  <2> QED
    BY <2>1, <2>3, <2>4 DEF PreforkInv
<1> QED
  BY <1>1, <1>2, <1>3, <1>4, <1>5, <1>6, <1>7, ChildSteps DEF Prefork!Next, Prefork!Server

\* What the run checks of the pre-forked servers.
LEMMA PreforkPromises ==
  ASSUME PreforkInv
  PROVE  Prefork!PreforkTypeOK /\ Prefork!HeldOnce
<1>1. Prefork!HeldOnce
  BY ProgramsAssumption DEF PreforkInv, Held, Busy, Prefork!HeldOnce, Prefork!Open
<1>2. leaked \in [Prefork!Idx -> 0 .. maxFiles]
  BY ProgramsAssumption DEF PreforkInv, PreforkTyped, LeaksFit
<1>3. Prefork!NetTypeOK
  BY DEF PreforkInv, PreforkTyped, NetTyped, Prefork!NetTypeOK
<1> QED
  BY <1>1, <1>2, <1>3 DEF PreforkInv, PreforkTyped, Prefork!PreforkTypeOK

\* PreforkInv holds of every state of the program.
LEMMA PreforkIsInvariant == Spec => [](program = "prefork" => PreforkInv)
<1> DEFINE Inv == program = "prefork" => PreforkInv
<1>1. Init => Inv
  BY PreforkInit DEF Init
<1>2. Inv /\ [Next]_vars => Inv'
  BY SameProgram, PreforkOnly, PreforkStep
<1> QED
  BY <1>1, <1>2, PTL DEF Spec

\* A connection of the pre-forked servers is held by one child, and a child holds
\* one that is open.
THEOREM ConnectionHeldOnce == Spec => []HeldOnce
<1>1. (program = "prefork" => PreforkInv) => HeldOnce
  BY PreforkPromises DEF HeldOnce
<1> QED
  BY <1>1, PreforkIsInvariant, PTL

----------------------------------------------------------------------------
(* Promises of several programs                                            *)

\* No program dies of a signal it waits for: io_rts.c, cond_var_rts.c and
\* pthread_sigwait.c block it before the first one can come, and each signal of
\* the listener of io_rts.c finds a connection to accept.
THEOREM NobodyIsKilled == Spec => []NotKilled
<1> DEFINE Inv == /\ program = "rts" => RtsInv
                  /\ program = "notify" => NotifyInv
                  /\ program = "signal" => SignalInv
<1>1. Inv => NotKilled
  <2>1. program = "rts" /\ Inv => Rts!ServerLives
    BY RtsPromises
  <2>2. program = "notify" /\ Inv => Notify!NotKilled
    BY NotifyPromises
  <2>3. program = "signal" /\ Inv => Signal!SigNotKilled
    BY DEF SignalInv, Signal!SigNotKilled
  <2> QED
    BY <2>1, <2>2, <2>3 DEF NotKilled
<1> QED
  BY <1>1, RtsIsInvariant, NotifyIsInvariant, SignalIsInvariant, PTL

\* What passes from one process or thread to another is neither lost nor doubled:
\* notifications, lines in the FIFO, datagrams and their answers, messages of
\* System V queues, and signals that are blocked.
THEOREM NothingIsLost == Spec => []NothingLost
<1> DEFINE Inv == /\ program = "notify" => NotifyInv
                  /\ program = "fifo" => FifoInv
                  /\ program = "udp" => UdpInv
                  /\ program = "msg" => MsgInv
                  /\ program = "signal" => SignalInv
<1>1. Inv => NothingLost
  <2>1. program = "notify" /\ Inv => Notify!NotifiedOnce
    BY NotifyPromises
  <2>2. program = "fifo" /\ Inv => Fifo!LinesRead
    BY DEF FifoInv, Fifo!LinesRead
  <2>3. program = "udp" /\ Inv => Udp!AnswerComes
    BY DEF UdpInv
  <2>4. program = "msg" /\ Inv => Msg!MessagesMeet
    BY DEF MsgInv
  <2>5. program = "signal" /\ Inv => Signal!SignalsKept
    BY DEF SignalInv
  <2> QED
    BY <2>1, <2>2, <2>3, <2>4, <2>5 DEF NothingLost
<1> QED
  BY <1>1, NotifyIsInvariant, FifoIsInvariant, UdpIsInvariant, MsgIsInvariant,
     SignalIsInvariant, PTL

\* Every program keeps its variables in their ranges.
THEOREM ProgramsTyped == Spec => []TypeOK
<1> DEFINE Inv == /\ ThreadsInv
                  /\ program = "prefork" => PreforkInv
                  /\ program = "rts" => RtsInv
                  /\ program = "oob" => OobInv
<1>1. Inv => TypeOK
  <2>1. Inv /\ program \in ThreadNames => Threads!TypeOK
    BY ThreadsTyped
  <2>2. program = "prefork" /\ Inv => Prefork!PreforkTypeOK
    BY PreforkPromises
  <2>3. program = "rts" /\ Inv => Rts!RtsTypeOK
    BY RtsPromises
  <2>4. program = "oob" /\ Inv => Oob!TypeOK
    BY DEF OobInv
  <2> QED
    BY <2>1, <2>2, <2>3, <2>4 DEF TypeOK
<1> QED
  BY <1>1, ThreadsAreInvariant, PreforkIsInvariant, RtsIsInvariant, OobIsInvariant,
     PTL
=============================================================================
