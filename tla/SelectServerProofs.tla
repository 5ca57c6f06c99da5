------------------------- MODULE SelectServerProofs -------------------------
(***************************************************************************)
(* Theorems about SelectServer, for every size of the array, every limit   *)
(* on open files and every set of clients.                                 *)
(***************************************************************************)
EXTENDS SelectServer, NetClientsProofs

\* What is left to be handled: after select() every client of the set has
\* something to receive, and during the scan those from entry i on still do.
ReadySound ==
  /\ pc = "accept" => i = 1 /\ fdsRead \cap Clients \subseteq ReadyClients
  /\ pc = "scan" => \A k \in i .. Len(list) :
                      list[k] \in fdsRead => list[k] \in ReadyClients

Inv == TableSound /\ QueueSound /\ ReadySound

----------------------------------------------------------------------------
LEMMA InvInit == Init => Inv
<1> SUFFICES ASSUME Init PROVE Inv
  OBVIOUS
<1>1. NetTypeOK /\ QueueSound
  BY DEF Init, NetInit, NetTypeOK, QueueSound
<1>2. TypeOK
  BY <1>1, SelectAssumption DEF Init, TypeOK
<1>3. Len(list) = 0 /\ Listed = {} /\ pc = "select"
  BY DEF Init, Listed, ToSet
<1> QED
  BY <1>1, <1>2, <1>3 DEF Inv, TableSound, ReadySound

\* The entry the loop looks at is a client's when the set holds it.
LEMMA EntryIsClient ==
  ASSUME TableSound, Scanning, list[i] \in fdsRead
  PROVE  /\ i \in 1 .. Len(list) /\ i + 1 \in 1 .. MaxSockets
         /\ list[i] \in Clients /\ list[i] \in Open /\ Len(list) \in Nat
<1>1. i \in 1 .. Len(list) /\ i + 1 \in 1 .. MaxSockets /\ Len(list) \in Nat
  BY SelectAssumption DEF TableSound, TypeOK, Scanning
<1>2. list[i] \in Clients \cup {NoFd}
  BY <1>1 DEF TableSound, TypeOK
<1>3. list[i] # NoFd
  BY SelectAssumption DEF TableSound, TypeOK
<1>4. list[i] \in Listed
  BY <1>1, <1>3 DEF Listed, ToSet, TableSound, TypeOK
<1> QED
  BY <1>1, <1>2, <1>3, <1>4 DEF TableSound

LEMMA SelectStep ==
  ASSUME Inv, Select, UNCHANGED <<maxFiles, nonBlocking>>
  PROVE  Inv'
<1>1. TypeOK /\ QueueSound /\ UNCHANGED <<net, maxFiles, nonBlocking, list>>
  BY DEF Inv, TableSound, Select
<1>2. NetTypeOK' /\ QueueSound' /\ Open' = Open
  BY <1>1, NetType DEF TypeOK, net, QueueSound, Open
<1>3. /\ fdsRead' = ReadySet /\ i' = 1 /\ pc' \in {"accept", "scan"}
      /\ fdsRead' \subseteq Clients \cup {Listener}
  BY DEF Select, ReadySet
<1>4. TypeOK'
  BY <1>1, <1>2, <1>3, SelectAssumption DEF TypeOK
<1>5. fdsRead' \cap Clients \subseteq ReadyClients'
  BY <1>1, <1>3, SelectAssumption DEF ReadySet, ReadyClients, Readable, net
<1>6. ASSUME NEW k \in 1 .. Len(list), list[k] \in fdsRead'
      PROVE  list[k] \in ReadyClients'
  <2>1. list[k] \in Clients \cup {NoFd}
    BY <1>1, <1>6 DEF TypeOK
  <2> QED
    BY <1>3, <1>5, <1>6, <2>1, SelectAssumption
<1>7. TableSound'
  BY <1>1, <1>2, <1>4 DEF Inv, TableSound, Listed
<1> QED
  BY <1>1, <1>2, <1>3, <1>5, <1>6, <1>7 DEF Inv, ReadySound

\* accept: the new client has not been there when select() looked.
LEMMA AcceptStep ==
  ASSUME Inv, Accept, UNCHANGED <<maxFiles, nonBlocking>>
  PROVE  Inv'
<1> DEFINE c == Head(backlog)
<1>1. /\ TypeOK /\ NetTypeOK /\ TableSound /\ QueueSound /\ SockAccept
      /\ pc = "accept" /\ i = 1 /\ i' = 1 /\ fdsRead' = fdsRead /\ rx' = rx
      /\ pc' \in {"accept", "scan"}
      /\ fdsRead \cap Clients \subseteq ReadyClients
  BY DEF Inv, TableSound, ReadySound, TypeOK, Accept, SockAccept
<1>2. /\ c \in Clients /\ c \notin Open /\ Open' = Open \cup {c}
      /\ QueueSound'
  BY <1>1, AcceptNet
<1>3. NetTypeOK'
  BY <1>1, NetType
<1>4. c \notin fdsRead
  BY <1>1, <1>2 DEF ReadyClients, Readable, Open
<1>5. fdsRead' \cap Clients \subseteq ReadyClients'
  BY <1>1, <1>2 DEF ReadyClients, Readable, Open
<1>6. /\ list' \in Seq(Clients \cup {NoFd}) /\ Len(list') < MaxSockets
      /\ Len(list') \in Nat /\ Len(list) \in Nat
      /\ \A k \in 1 .. Len(list') :
           \/ k \in 1 .. Len(list) /\ list'[k] = list[k]
           \/ k = Len(list) + 1 /\ list'[k] = c
  <2>1. CASE Full
    BY <1>1, <2>1 DEF Accept, TypeOK
  <2>2. CASE ~Full
    <3>1. list' = Append(list, c) /\ list \in Seq(Clients \cup {NoFd})
      BY <1>1, <2>2 DEF Accept, TypeOK
    <3>2. Len(list') = Len(list) + 1 /\ Len(list) + 1 < MaxSockets
      BY <1>1, <2>2, <3>1, SelectAssumption DEF TypeOK, Full
    <3> QED
      BY <1>2, <3>1, <3>2
  <2> QED
    BY <2>1, <2>2
<1>7. TypeOK'
  BY <1>1, <1>3, <1>6 DEF TypeOK
<1>8. \A k \in 1 .. Len(list) : list[k] # c
  BY <1>1, <1>2, SelectAssumption DEF TableSound, Listed, ToSet, TypeOK
<1>9. Listed' \subseteq Open'
  BY <1>1, <1>2, <1>6 DEF TableSound, Listed, ToSet, TypeOK
<1>10. \A k, l \in 1 .. Len(list') :
         list'[k] = list'[l] /\ list'[k] # NoFd => k = l
  BY <1>1, <1>6, <1>8 DEF TableSound
<1>11. ASSUME NEW k \in 1 .. Len(list'), list'[k] \in fdsRead'
       PROVE  list'[k] \in ReadyClients'
  <2>1. list'[k] \in Clients
    BY <1>1, <1>6, <1>7, <1>11, SelectAssumption DEF TypeOK
  <2> QED
    BY <1>5, <1>11, <2>1
<1> QED
  BY <1>1, <1>2, <1>5, <1>7, <1>9, <1>10, <1>11
     DEF Inv, TableSound, ReadySound

\* io_select2.c adds -1, which the set never holds.
LEMMA AcceptFailsStep ==
  ASSUME Inv, AcceptFailsAgain, UNCHANGED <<maxFiles, nonBlocking>>
  PROVE  Inv'
<1>1. /\ TypeOK /\ NetTypeOK /\ TableSound /\ QueueSound
      /\ UNCHANGED net /\ pc = "accept" /\ i = 1 /\ i' = 1
      /\ fdsRead' = fdsRead /\ pc' \in {"accept", "exit"}
      /\ fdsRead \cap Clients \subseteq ReadyClients
  BY DEF Inv, TableSound, ReadySound, TypeOK, AcceptFailsAgain
<1>2. NetTypeOK' /\ QueueSound' /\ Open' = Open /\ ReadyClients' = ReadyClients
  BY <1>1, NetType DEF net, QueueSound, Open, ReadyClients, Readable
<1>3. /\ list' \in Seq(Clients \cup {NoFd}) /\ Len(list') < MaxSockets
      /\ Len(list') \in Nat /\ Len(list) \in Nat
      /\ \A k \in 1 .. Len(list') :
           list'[k] = NoFd \/ (k \in 1 .. Len(list) /\ list'[k] = list[k])
  <2>1. CASE Full
    BY <1>1, <2>1 DEF AcceptFailsAgain, TypeOK
  <2>2. CASE ~Full
    <3>1. list' = Append(list, NoFd) /\ list \in Seq(Clients \cup {NoFd})
      BY <1>1, <2>2 DEF AcceptFailsAgain, TypeOK
    <3>2. Len(list') = Len(list) + 1 /\ Len(list) + 1 < MaxSockets
      BY <1>1, <2>2, <3>1, SelectAssumption DEF TypeOK, Full
    <3> QED
      BY <3>1, <3>2
  <2> QED
    BY <2>1, <2>2
<1>4. TypeOK'
  BY <1>1, <1>2, <1>3 DEF TypeOK
<1>5. Listed' \subseteq Open'
  BY <1>1, <1>2, <1>3 DEF TableSound, Listed, ToSet, TypeOK
<1>6. \A k, l \in 1 .. Len(list') :
        list'[k] = list'[l] /\ list'[k] # NoFd => k = l
  BY <1>1, <1>3 DEF TableSound
<1> QED
  BY <1>1, <1>2, <1>4, <1>5, <1>6 DEF Inv, TableSound, ReadySound

\* Steps that leave the array, the set and the sockets alone.
LEMMA SteadyStep ==
  ASSUME Inv, AcceptNone \/ AcceptFails \/ ScanEnd \/ ScanSkip,
         UNCHANGED <<maxFiles, nonBlocking>>
  PROVE  Inv'
<1>1. /\ TypeOK /\ TableSound /\ QueueSound /\ ReadySound
      /\ UNCHANGED <<net, maxFiles, nonBlocking, list, fdsRead>>
  BY DEF Inv, TableSound, AcceptNone, AcceptFails, ScanEnd, ScanSkip
<1>2. NetTypeOK' /\ QueueSound' /\ Open' = Open /\ ReadyClients' = ReadyClients
  BY <1>1, NetType DEF TypeOK, net, QueueSound, Open, ReadyClients, Readable
<1>3. \A k \in 1 .. Len(list) : list[k] \in fdsRead => list[k] \in Clients
  BY <1>1, SelectAssumption DEF TypeOK
<1>4. /\ i' \in 1 .. MaxSockets /\ pc' \in {"select", "scan"}
      /\ pc' = "scan" => pc = "accept" \/ (pc = "scan" /\ i' = i + 1)
      /\ i' \in {i, i + 1}
  BY <1>1, SelectAssumption
     DEF AcceptNone, AcceptFails, ScanEnd, ScanSkip, Scanning, TypeOK
<1>5. TableSound'
  BY <1>1, <1>2, <1>4 DEF TableSound, TypeOK, Listed
<1>6. ASSUME pc' = "scan", NEW k \in i' .. Len(list), list[k] \in fdsRead
      PROVE  list[k] \in ReadyClients
  <2>1. k \in i .. Len(list) /\ k \in 1 .. Len(list)
    BY <1>1, <1>4, <1>6 DEF TypeOK
  <2> QED
    BY <1>1, <1>3, <1>4, <1>6, <2>1 DEF ReadySound
<1> QED
  BY <1>1, <1>2, <1>4, <1>5, <1>6 DEF Inv, ReadySound

\* recv: no later entry is the same client's.
LEMMA RecvStep ==
  ASSUME Inv, ScanRecv, UNCHANGED <<maxFiles, nonBlocking>>
  PROVE  Inv'
<1> DEFINE c == list[i]
<1>1. /\ TypeOK /\ TableSound /\ QueueSound /\ Scanning /\ c \in fdsRead
      /\ UNCHANGED <<maxFiles, nonBlocking, list, fdsRead, pc>> /\ i' = i + 1
  BY DEF Inv, TableSound, ScanRecv
<1>2. i \in 1 .. Len(list) /\ i + 1 \in 1 .. MaxSockets /\ c \in Clients
  BY <1>1, EntryIsClient
<1>3. RecvData(c) \/ RecvError(c)
  BY DEF ScanRecv
<1>4. /\ NetTypeOK' /\ QueueSound' /\ Open' = Open
      /\ ReadyClients \ {c} \subseteq ReadyClients'
  BY <1>1, <1>2, <1>3, NetType, RecvNet DEF TypeOK
<1>5. TableSound'
  BY <1>1, <1>2, <1>4 DEF TableSound, TypeOK, Listed
<1>6. ASSUME NEW k \in i + 1 .. Len(list), list[k] \in fdsRead
      PROVE  list[k] \in ReadyClients'
  <2>1. k \in i .. Len(list) /\ k \in 1 .. Len(list) /\ k # i
    BY <1>2, <1>6
  <2>2. list[k] \in ReadyClients
    BY <1>1, <1>6, <2>1 DEF Inv, ReadySound, Scanning
  <2>3. list[k] # c
    BY <1>1, <1>2, <2>1, SelectAssumption DEF TableSound
  <2> QED
    BY <1>4, <2>2, <2>3
<1> QED
  BY <1>1, <1>4, <1>5, <1>6 DEF Inv, ReadySound, Scanning

\* close and del_socket: the last entry moves to the place that has been
\* handled, and the others stay where they were.
LEMMA CloseStep ==
  ASSUME Inv, ScanClose, UNCHANGED <<maxFiles, nonBlocking>>
  PROVE  Inv'
<1> DEFINE c == list[i]
           n == Len(list)
<1>1. /\ TypeOK /\ TableSound /\ QueueSound /\ Scanning /\ c \in fdsRead
      /\ UNCHANGED <<maxFiles, nonBlocking, fdsRead, pc>> /\ i' = i + 1
      /\ SockClose(c) /\ list' = del_socket(i)
  BY DEF Inv, TableSound, ScanClose
<1>2. /\ i \in 1 .. n /\ i + 1 \in 1 .. MaxSockets /\ n \in Nat
      /\ c \in Clients /\ c \in Open
  BY <1>1, EntryIsClient
<1>3. /\ NetTypeOK' /\ QueueSound' /\ Open' = Open \ {c}
      /\ ReadyClients \ {c} \subseteq ReadyClients'
  BY <1>1, <1>2, NetType, CloseNet DEF TypeOK
<1>4. /\ list' \in Seq(Clients \cup {NoFd}) /\ Len(list') = n - 1
      /\ \A k \in 1 .. n - 1 :
           list'[k] = IF k = i THEN list[n] ELSE list[k]
  <2> DEFINE moved == [list EXCEPT ![i] = list[n]]
  <2>1. /\ moved \in Seq(Clients \cup {NoFd}) /\ Len(moved) = n
        /\ \A k \in 1 .. n : moved[k] = IF k = i THEN list[n] ELSE list[k]
    BY <1>1, <1>2 DEF TypeOK
  <2>2. list' = SubSeq(moved, 1, n - 1)
    BY <1>1, <2>1 DEF del_socket, Front, Last
  <2> HIDE DEF moved
  <2> QED
    BY <1>2, <2>1, <2>2
<1>5. TypeOK'
  BY <1>1, <1>2, <1>3, <1>4, SelectAssumption DEF TypeOK
<1>6. \A k \in 1 .. n : list[k] = c => k = i
  BY <1>1, <1>2, SelectAssumption DEF TableSound
<1>7. Listed' \subseteq Open'
  <2>1. ASSUME NEW k \in 1 .. n - 1, list'[k] # NoFd
        PROVE  list'[k] \in Open'
    <3>1. PICK l \in 1 .. n : l # i /\ list'[k] = list[l]
      BY <1>2, <1>4
    <3>2. list[l] \in Open /\ list[l] # c
      BY <1>1, <1>6, <2>1, <3>1 DEF TableSound, Listed, ToSet, TypeOK
    <3> QED
      BY <1>3, <3>1, <3>2
  <2> QED
    BY <1>4, <2>1 DEF Listed, ToSet
<1>8. ASSUME NEW k \in 1 .. n - 1, NEW l \in 1 .. n - 1,
             list'[k] = list'[l], list'[k] # NoFd
      PROVE  k = l
  BY <1>1, <1>2, <1>4, <1>8 DEF TableSound
<1>9. ASSUME NEW k \in i + 1 .. n - 1, list'[k] \in fdsRead
      PROVE  list'[k] \in ReadyClients'
  <2>1. /\ k \in i .. n /\ k \in 1 .. n /\ k # i /\ k \in 1 .. n - 1
        /\ list'[k] = list[k]
    BY <1>2, <1>4, <1>9
  <2>2. list[k] \in ReadyClients
    BY <1>1, <1>9, <2>1 DEF Inv, ReadySound, Scanning
  <2> QED
    BY <1>3, <1>6, <2>1, <2>2
<1>10. TableSound'
  BY <1>4, <1>5, <1>7, <1>8 DEF TableSound
<1> QED
  BY <1>1, <1>3, <1>4, <1>9, <1>10 DEF Inv, ReadySound, Scanning

LEMMA ClientSteps == Inv /\ Client => Inv'
<1> SUFFICES ASSUME Inv, Client PROVE Inv'
  OBVIOUS
<1>1. /\ NetTypeOK' /\ QueueSound' /\ Open' = Open
      /\ ReadyClients \subseteq ReadyClients'
  BY NetType, ClientNet DEF Client, Inv, TableSound, TypeOK
<1>2. UNCHANGED <<maxFiles, nonBlocking, list, fdsRead, i, pc>>
  BY DEF Client
<1>3. TableSound'
  BY <1>1, <1>2 DEF Inv, TableSound, TypeOK, Listed
<1> QED
  BY <1>1, <1>2, <1>3 DEF Inv, ReadySound

LEMMA InvStep == Inv /\ [Next]_vars => Inv'
<1> SUFFICES ASSUME Inv, [Next]_vars PROVE Inv'
  OBVIOUS
<1>1. ASSUME UNCHANGED vars PROVE Inv'
  <2>1. /\ NetTypeOK' /\ QueueSound' /\ Open' = Open
        /\ ReadyClients' = ReadyClients
    BY <1>1, NetType DEF Inv, TableSound, TypeOK, vars, net, QueueSound, Open,
                         ReadyClients, Readable
  <2>2. TableSound'
    BY <1>1, <2>1 DEF Inv, TableSound, TypeOK, Listed, vars
  <2> QED
    BY <1>1, <2>1, <2>2 DEF Inv, ReadySound, vars
<1>2. CASE Server
  BY <1>2, SelectStep, AcceptStep, AcceptFailsStep, SteadyStep, RecvStep,
     CloseStep DEF Server
<1> QED
  BY <1>1, <1>2, ClientSteps DEF Next, Ended

LEMMA Sound == Spec => []Inv
BY InvInit, InvStep, PTL DEF Spec

(* fd_socket keeps within its limit and holds open sockets, none of them   *)
(* twice, wherever the loop stands (add_socket, del_socket).               *)
THEOREM TableCorrect == Spec => []TableSound
<1>1. Inv => TableSound
  BY DEF Inv
<1> QED
  BY <1>1, Sound, PTL

(* The server never calls recv on a socket that has nothing to receive:    *)
(* what select() reported is still there when the loop comes to it, and    *)
(* nothing else has taken its place in the array (main, mk_fds).           *)
THEOREM RecvCorrect == Spec => []NeverBlocks
<1>1. Inv => NeverBlocks
  <2> SUFFICES ASSUME Inv, Scanning, list[i] \in fdsRead
               PROVE  Readable(list[i])
    BY DEF NeverBlocks
  <2>1. i \in 1 .. Len(list) /\ Len(list) \in Nat
    BY EntryIsClient DEF Inv
  <2>2. list[i] \in ReadyClients
    BY <2>1 DEF Inv, ReadySound, Scanning
  <2> QED
    BY <2>2 DEF ReadyClients
<1> QED
  BY <1>1, Sound, PTL
=============================================================================
