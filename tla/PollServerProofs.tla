-------------------------- MODULE PollServerProofs --------------------------
(***************************************************************************)
(* Theorems about PollServer, for every size of the array, every limit on  *)
(* open files and every set of clients.                                    *)
(***************************************************************************)
EXTENDS PollServer, NetClientsProofs, FiniteSetTheorems, TLAPS

\* poll() reports at most the entries it looks at.
LEMMA ReadyCount ==
  ASSUME NEW n \in Nat \ {0}, NEW R \in SUBSET (0 .. n - 1)
  PROVE  Cardinality(R) \in 0 .. n
<1>1. IsFiniteSet(0 .. n - 1) /\ Cardinality(0 .. n - 1) = n
  BY FS_Interval
<1>2. IsFiniteSet(R) /\ Cardinality(R) <= n
  BY <1>1, FS_Subset
<1> QED
  BY <1>2, FS_CardinalityType
----------------------------------------------------------------------------
LEMMA TypeInit == Init => TypeOK
BY PollAssumption DEF Init, TypeOK, NetInit, NetTypeOK, Slots

\* An entry the loop looks at is a client's.
LEMMA EntryIsClient ==
  ASSUME TypeOK, TableSound, Scanning
  PROVE  /\ i \in 1 .. cnt - 1 /\ i \in Slots /\ cnt - 1 \in Slots
         /\ fd[i] \in Clients /\ fd[i] \in Open /\ ret \in 1 .. MaxSockets
BY PollAssumption DEF TypeOK, TableSound, Scanning, Slots, Open

LEMMA TypeStep == TypeOK /\ TableSound /\ [Next]_vars => TypeOK'
<1> SUFFICES ASSUME TypeOK, TableSound, [Next]_vars PROVE TypeOK'
  OBVIOUS
<1> USE PollAssumption
<1>1. CASE Poll /\ UNCHANGED <<maxFiles, nonBlocking>>
  <2> DEFINE ready == {s \in 0 .. cnt - 1 : Ready(s)}
  <2>1. ret' \in 0 .. cnt
    <3>1. ret' = Cardinality(ready)
      BY <1>1 DEF Poll
    <3>2. ready \in SUBSET (0 .. cnt - 1) /\ cnt \in Nat \ {0}
      BY DEF TypeOK
    <3> HIDE DEF ready
    <3>3. Cardinality(ready) \in 0 .. cnt
      BY <3>2, ReadyCount
    <3> QED
      BY <3>1, <3>3
  <2>2. revents' \subseteq Slots
    <3>1. revents' = ready \cup {s \in revents : s >= cnt}
      BY <1>1 DEF Poll
    <3>2. 0 .. cnt - 1 \subseteq Slots /\ revents \subseteq Slots
      BY DEF TypeOK, Slots
    <3> HIDE DEF Slots
    <3> QED
      BY <3>1, <3>2
  <2>3. NetTypeOK'
    BY <1>1, NetType DEF Poll, TypeOK
  <2> QED
    BY <1>1, <2>1, <2>2, <2>3 DEF Poll, TypeOK
<1>2. CASE Accept /\ UNCHANGED <<maxFiles, nonBlocking>>
  <2>1. NetTypeOK' /\ Head(backlog) \in Clients
    BY <1>2, NetType DEF Accept, TypeOK, SockAccept, MayAccept, NetTypeOK
  <2>2. CASE cnt < MaxSockets
    <3>1. cnt \in Slots /\ cnt + 1 \in 1 .. MaxSockets
      BY <2>2 DEF TypeOK, Slots
    <3> QED
      BY <1>2, <2>1, <2>2, <3>1 DEF Accept, TypeOK
  <2>3. CASE ~(cnt < MaxSockets)
    BY <1>2, <2>1, <2>3 DEF Accept, TypeOK
  <2> QED
    BY <2>2, <2>3
<1>3. CASE (AcceptFails \/ ScanEnd) /\ UNCHANGED <<maxFiles, nonBlocking>>
  <2>1. NetTypeOK'
    BY <1>3, NetType DEF AcceptFails, ScanEnd, TypeOK
  <2> QED
    BY <1>3, <2>1 DEF AcceptFails, ScanEnd, TypeOK
<1>4. CASE ScanSkip /\ UNCHANGED <<maxFiles, nonBlocking>>
  <2>1. NetTypeOK'
    BY <1>4, NetType DEF ScanSkip, TypeOK
  <2> QED
    BY <1>4, <2>1 DEF ScanSkip, Scanning, TypeOK
<1>5. CASE ScanRecv /\ UNCHANGED <<maxFiles, nonBlocking>>
  <2>1. NetTypeOK'
    BY <1>5, NetType, EntryIsClient DEF ScanRecv, TypeOK
  <2> QED
    BY <1>5, <2>1, EntryIsClient DEF ScanRecv, TypeOK
<1>6. CASE ScanClose /\ UNCHANGED <<maxFiles, nonBlocking>>
  <2>1. NetTypeOK'
    BY <1>6, NetType, EntryIsClient DEF ScanClose, TypeOK
  <2>2. /\ fd' \in [Slots -> Clients \cup {Listener, NoFd}]
        /\ revents' \subseteq Slots /\ cnt' \in 1 .. MaxSockets
    BY <1>6, EntryIsClient DEF ScanClose, del_socket, TypeOK
  <2> QED
    BY <1>6, <2>1, <2>2, EntryIsClient DEF ScanClose, TypeOK
<1>7. CASE Client
  <2>1. NetTypeOK'
    BY <1>7, NetType DEF Client, TypeOK
  <2> QED
    BY <1>7, <2>1 DEF Client, TypeOK
<1>8. CASE UNCHANGED vars
  <2>1. NetTypeOK'
    BY <1>8, NetType DEF vars, TypeOK
  <2> QED
    BY <1>8, <2>1 DEF vars, TypeOK
<1> QED
  BY <1>1, <1>2, <1>3, <1>4, <1>5, <1>6, <1>7, <1>8 DEF Next, Server

----------------------------------------------------------------------------
LEMMA SoundInit == Init => QueueSound /\ TableSound
BY PollAssumption DEF Init, NetInit, QueueSound, TableSound, Slots

LEMMA ClientSound ==
  ASSUME TypeOK, QueueSound, TableSound, Client
  PROVE  QueueSound' /\ TableSound'
<1>1. QueueSound' /\ Open' = Open
  BY ClientNet DEF Client, TypeOK
<1> QED
  BY <1>1 DEF TableSound, Client

\* accept: the head of the queue was not open and becomes so.
LEMMA AcceptSound ==
  ASSUME TypeOK, QueueSound, TableSound, Accept
  PROVE  QueueSound' /\ TableSound'
<1> DEFINE c == Head(backlog)
<1> USE PollAssumption
<1>1. c \in Clients /\ c \notin Open /\ Open' = Open \cup {c} /\ QueueSound'
  BY AcceptNet DEF Accept, TypeOK
<1>2. CASE cnt < MaxSockets
  <2>1. cnt \in Slots /\ cnt \in Nat \ {0} /\ 0 \in Slots
    BY <1>2 DEF TypeOK, Slots
  <2>2. fd' = [fd EXCEPT ![cnt] = c] /\ cnt' = cnt + 1
    BY <1>2 DEF Accept
  <2>3. \A s \in Slots : fd'[s] = IF s = cnt THEN c ELSE fd[s]
    BY <2>1, <2>2 DEF TypeOK
  <2>4. \A s \in 1 .. cnt : s \in Slots /\ (s # cnt => s \in 1 .. cnt - 1)
    BY <1>2 DEF TypeOK, Slots
  <2>5. fd'[0] = Listener
    BY <2>1, <2>3 DEF TableSound
  <2>6. 1 .. cnt' - 1 = 1 .. cnt
    BY <2>1, <2>2
  <2>7. \A s \in 1 .. cnt : fd'[s] \in Open'
    BY <1>1, <2>3, <2>4 DEF TableSound
  <2>8. \A s, t \in 1 .. cnt : fd'[s] = fd'[t] => s = t
    BY <1>1, <2>3, <2>4 DEF TableSound
  <2>9. \A s \in Slots : s >= cnt' => fd'[s] = NoFd
    BY <2>1, <2>2, <2>3 DEF TableSound, Slots
  <2> QED
    BY <1>1, <2>5, <2>6, <2>7, <2>8, <2>9 DEF TableSound
<1>3. CASE ~(cnt < MaxSockets)
  BY <1>1, <1>3 DEF Accept, TableSound
<1> QED
  BY <1>2, <1>3

\* close and del_socket: the entry that leaves is the only one of its client.
LEMMA CloseSound ==
  ASSUME TypeOK, QueueSound, TableSound, ScanClose
  PROVE  QueueSound' /\ TableSound'
<1> DEFINE c == fd[i]
<1> USE PollAssumption
<1>1. /\ i \in 1 .. cnt - 1 /\ i \in Slots /\ cnt - 1 \in Slots
      /\ c \in Clients /\ sock[c] = "open"
  BY EntryIsClient DEF ScanClose, Open
<1>2. /\ sock' = [sock EXCEPT ![c] = "none"] /\ backlog' = backlog
      /\ fd' = [fd EXCEPT ![i] = fd[cnt - 1], ![cnt - 1] = NoFd]
      /\ cnt' = cnt - 1
  BY DEF ScanClose, SockClose, del_socket
<1>3. QueueSound' /\ Open' = Open \ {c}
  BY <1>1, CloseNet DEF ScanClose, TypeOK, Open
<1>4. \A s \in Slots : fd'[s] = IF s = cnt - 1 THEN NoFd
                                ELSE IF s = i THEN fd[cnt - 1] ELSE fd[s]
  BY <1>1, <1>2 DEF TypeOK
<1>5. /\ cnt - 1 \in 1 .. cnt - 1
      /\ \A s \in 1 .. cnt' - 1 : /\ s \in Slots /\ s \in 1 .. cnt - 1
                                 /\ s # cnt - 1
  BY <1>1, <1>2 DEF TypeOK, Slots
<1>6. fd'[0] = Listener
  BY <1>1, <1>4 DEF TableSound, TypeOK, Slots
<1>7. \A s \in 1 .. cnt' - 1 : fd'[s] \in Open'
  BY <1>1, <1>3, <1>4, <1>5 DEF TableSound
<1>8. \A s, t \in 1 .. cnt' - 1 : fd'[s] = fd'[t] => s = t
  BY <1>4, <1>5 DEF TableSound
<1>9. \A s \in Slots : s >= cnt' => fd'[s] = NoFd
  <2>1. \A s \in Slots : s >= cnt' => (s # i /\ s >= cnt) \/ s = cnt - 1
    BY <1>1, <1>2 DEF TypeOK, Slots
  <2> QED
    BY <1>4, <2>1 DEF TableSound
<1> QED
  BY <1>3, <1>6, <1>7, <1>8, <1>9 DEF TableSound

LEMMA SoundStep ==
  TypeOK /\ QueueSound /\ TableSound /\ [Next]_vars
    => QueueSound' /\ TableSound'
<1> SUFFICES ASSUME TypeOK, QueueSound, TableSound, [Next]_vars
             PROVE  QueueSound' /\ TableSound'
  OBVIOUS
<1>1. CASE Poll \/ AcceptFails \/ ScanEnd \/ ScanSkip \/ UNCHANGED vars
  BY <1>1 DEF Poll, AcceptFails, ScanEnd, ScanSkip, vars, net, QueueSound,
              TableSound, Open
<1>2. CASE ScanRecv
  BY <1>2 DEF ScanRecv, RecvData, RecvError, QueueSound, TableSound, Open
<1> QED
  BY <1>1, <1>2, AcceptSound, CloseSound, ClientSound DEF Next, Server

LEMMA Sound == Spec => [](TypeOK /\ QueueSound /\ TableSound)
BY TypeInit, SoundInit, TypeStep, SoundStep, PTL DEF Spec

(* The array, its counters and the loop's index keep their ranges (io_poll.c, *)
(* io_poll_nb.c, io_poll_LT.c).                                            *)
THEOREM TypeCorrect == Spec => []TypeOK
BY Sound, PTL

(* add_socket and del_socket keep the array dense and without doubles, and *)
(* all its entries open, wherever the loop stands.                         *)
THEOREM TableCorrect == Spec => []TableSound
BY Sound, PTL

\* A step puts no open socket outside the array unless the array is full.
LEMMA ForgetStep ==
  TypeOK /\ QueueSound /\ TableSound /\ [Next]_vars
    => [Forgotten' \subseteq Forgotten \/ cnt = MaxSockets]_vars
<1> SUFFICES ASSUME TypeOK, QueueSound, TableSound, [Next]_vars,
                    cnt # MaxSockets
             PROVE  Forgotten' \subseteq Forgotten
  OBVIOUS
<1> USE PollAssumption
<1>1. CASE Open' = Open /\ UNCHANGED <<fd, cnt>>
  BY <1>1 DEF Forgotten, Listed
<1>2. CASE Accept
  <2> DEFINE c == Head(backlog)
  <2>1. /\ fd' = [fd EXCEPT ![cnt] = c] /\ cnt' = cnt + 1
        /\ cnt \in Slots /\ cnt \in Nat \ {0}
    BY <1>2 DEF Accept, TypeOK, Slots
  <2>2. Open' = Open \cup {c}
    BY <1>2, AcceptNet DEF Accept, TypeOK
  <2>3. \A s \in 1 .. cnt - 1 : s \in Slots /\ s # cnt /\ s \in 1 .. cnt' - 1
    BY <2>1 DEF Slots, TypeOK
  <2>4. cnt \in 1 .. cnt' - 1
    BY <2>1
  <2>5. fd'[cnt] = c /\ \A s \in 1 .. cnt - 1 : fd'[s] = fd[s]
    BY <2>1, <2>3 DEF TypeOK
  <2>6. Listed \cup {c} \subseteq Listed'
    BY <2>3, <2>4, <2>5 DEF Listed
  <2> QED
    BY <2>2, <2>6 DEF Forgotten
<1>3. CASE ScanClose
  <2> DEFINE c == fd[i]
  <2>1. /\ i \in 1 .. cnt - 1 /\ i \in Slots /\ cnt - 1 \in Slots
        /\ fd' = [fd EXCEPT ![i] = fd[cnt - 1], ![cnt - 1] = NoFd]
        /\ cnt' = cnt - 1
    BY <1>3, EntryIsClient DEF ScanClose, del_socket
  <2>2. Open' = Open \ {c}
    BY <1>3, EntryIsClient, CloseNet DEF ScanClose, TypeOK
  <2>3. \A s \in 1 .. cnt - 1 : s \in Slots
    BY DEF Slots, TypeOK
  <2>4. ASSUME NEW s \in 1 .. cnt - 1, s # i
        PROVE  \E t \in 1 .. cnt' - 1 : fd'[t] = fd[s]
    <3>1. CASE s = cnt - 1
      <4>1. i \in 1 .. cnt' - 1 /\ i # cnt - 1
        BY <2>1, <2>4, <3>1 DEF TypeOK
      <4>2. fd'[i] = fd[s]
        BY <2>1, <3>1, <4>1 DEF TypeOK
      <4> QED
        BY <4>1, <4>2
    <3>2. CASE s # cnt - 1
      <4>1. s \in 1 .. cnt' - 1
        BY <2>1, <3>2 DEF TypeOK
      <4>2. fd'[s] = fd[s]
        BY <2>1, <2>3, <2>4, <3>2 DEF TypeOK
      <4> QED
        BY <4>1, <4>2
    <3> QED
      BY <3>1, <3>2
  <2>5. Listed \ {c} \subseteq Listed'
    BY <2>4 DEF Listed
  <2> QED
    BY <2>2, <2>5 DEF Forgotten
<1>4. CASE \/ Poll \/ AcceptFails \/ ScanEnd \/ ScanSkip \/ ScanRecv
           \/ UNCHANGED vars
  BY <1>1, <1>4 DEF Poll, AcceptFails, ScanEnd, ScanSkip, ScanRecv, RecvData,
                    RecvError, vars, net, Open
<1>5. CASE Client
  <2>1. Open' = Open
    BY <1>5, ClientNet DEF Client, TypeOK
  <2> QED
    BY <1>1, <1>5, <2>1 DEF Client
<1> QED
  BY <1>2, <1>3, <1>4, <1>5 DEF Next, Server

(* A client is connected without being watched only when it was accepted   *)
(* into a full array: no deletion loses one (io_poll_nb.c:118).            *)
THEOREM ForgetCorrect == Spec => OnlyFullForgets
<1>1. TypeOK /\ QueueSound /\ TableSound /\ [Next]_vars
        => [Forgotten' \subseteq Forgotten \/ cnt = MaxSockets]_vars
  BY ForgetStep
<1>2. Spec => [][Next]_vars
  BY PTL DEF Spec
<1> QED
  BY <1>1, <1>2, Sound, PTL DEF OnlyFullForgets
=============================================================================
