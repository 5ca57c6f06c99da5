--------------------------- MODULE ServersProofs ---------------------------
(***************************************************************************)
(* Theorems about the epoll servers and the server with session timers,    *)
(* for every set of clients and every limit on descriptors.                *)
(***************************************************************************)
EXTENDS MCServers, FiniteSetTheorems, SequenceTheorems, WellFoundedInduction, TLAPS

(* Least and greatest elements.                                            *)

\* A set of natural numbers that is not empty has a least element.
LEMMA LeastNat ==
  ASSUME NEW S \in SUBSET Nat, S # {}
  PROVE  \E x \in S : \A y \in S : x <= y
<1> DEFINE R == OpToRel(<, Nat)
<1>1. IsWellFoundedOn(R, Nat)
  BY NatLessThanWellFounded
<1>2. \A x, y \in Nat : x < y => <<x, y>> \in R
  BY DEF OpToRel
<1> HIDE DEF R
<1>3. PICK x \in S : \A y \in S : ~ (<<y, x>> \in R)
  BY <1>1, WFMin
<1>4. \A y \in S : ~(y < x) /\ x \in Nat /\ y \in Nat
  BY <1>2, <1>3
<1> QED
  BY <1>4

\* A finite set of natural numbers has an upper bound: otherwise, of those that
\* have none take one with the least number of elements, and remove an element.
LEMMA FiniteIsBounded ==
  ASSUME NEW S \in SUBSET Nat, IsFiniteSet(S)
  PROVE  \E b \in Nat : \A y \in S : y <= b
<1> DEFINE Unbounded(n) ==
             \E T \in SUBSET Nat :
               /\ IsFiniteSet(T) /\ Cardinality(T) = n
               /\ \A b \in Nat : \E y \in T : ~(y <= b)
           Sizes == {n \in Nat : Unbounded(n)}
<1> SUFFICES Sizes = {}
  <2>1. Cardinality(S) \in Nat
    BY FS_CardinalityType
  <2> QED
    BY <2>1
<1>1. ASSUME NEW n \in Sizes
      PROVE  n - 1 \in Sizes /\ n # 0
  <2>1. PICK T \in SUBSET Nat : /\ IsFiniteSet(T) /\ Cardinality(T) = n
                                /\ \A b \in Nat : \E y \in T : ~(y <= b)
    OBVIOUS
  <2>2. T # {} /\ 0 \in Nat
    BY <2>1
  <2>3. PICK x \in T : TRUE
    BY <2>2
  <2>4. /\ IsFiniteSet(T \ {x}) /\ Cardinality(T \ {x}) = n - 1
        /\ n \in Nat /\ n # 0
    BY <2>1, <2>3, FS_RemoveElement, FS_EmptySet, FS_CardinalityType
  <2>5. ASSUME NEW b \in Nat PROVE \E y \in T \ {x} : ~(y <= b)
    <3>1. x \in Nat /\ \E c \in Nat : x <= c /\ b <= c
      BY <2>3
    <3>2. PICK c \in Nat : x <= c /\ b <= c
      BY <3>1
    <3>3. PICK y \in T : ~(y <= c)
      BY <2>1
    <3>4. y # x /\ ~(y <= b)
      BY <3>1, <3>2, <3>3
    <3> QED
      BY <3>4
  <2>6. Unbounded(n - 1)
    BY <2>4, <2>5
  <2>7. n - 1 \in Nat
    BY <2>4
  <2> QED
    BY <2>4, <2>6, <2>7
<1>2. Sizes \subseteq Nat
  OBVIOUS
<1> HIDE DEF Sizes
<1> QED
  BY <1>1, <1>2, LeastNat

\* Max of a finite set of natural numbers is one of them.
LEMMA MaxIsIn ==
  ASSUME NEW S \in SUBSET Nat, IsFiniteSet(S), S # {}
  PROVE  Timer!Max(S) \in S
<1> DEFINE Bounds == {b \in Nat : \A y \in S : y <= b}
<1>1. Bounds # {} /\ Bounds \in SUBSET Nat
  BY FiniteIsBounded
<1>2. PICK b \in Bounds : \A c \in Bounds : b <= c
  BY <1>1, LeastNat
<1>3. b \in S
  <2>1. SUFFICES ASSUME b \notin S PROVE FALSE
    OBVIOUS
  <2>2. PICK x \in S : TRUE
    OBVIOUS
  <2>3. \A y \in S : y \in Nat /\ y <= b /\ y # b
    BY <2>1
  <2>4. b - 1 \in Nat /\ \A y \in S : y <= b - 1
    BY <2>2, <2>3
  <2>5. b - 1 \in Bounds
    BY <2>4
  <2> QED
    BY <1>2, <2>5
<1>4. \E x \in S : \A y \in S : x >= y
  BY <1>3
<1> HIDE DEF Bounds
<1> QED
  BY <1>4 DEF Timer!Max

\* Min of a set of natural numbers is one of them.
LEMMA MinIsIn ==
  ASSUME NEW S \in SUBSET Nat, S # {}
  PROVE  Timer!Min(S) \in S
BY LeastNat DEF Timer!Min
----------------------------------------------------------------------------
(* io_epoll.c and io_epoll_trigger.c                                       *)

\* The ranges of the variables; each event still to be handled is for a socket
\* that has something to read.
EpollInv ==
  /\ Epoll!NetTypeOK /\ pc \in {"wait", "event", "accept", "exit"}
  /\ batch \cup risen \subseteq Clients \cup {Listener}
  /\ big \subseteq Clients
  /\ \A c \in Clients : c \in batch => Epoll!Readable(c)

\* No event is there before the first epoll_wait.
LEMMA EpollInit == Epoll!Init => EpollInv
BY DEF Epoll!Init, Epoll!NetInit, EpollInv, Epoll!NetTypeOK, Epoll!Readable

\* A client that acts leaves its socket readable if it was.
LEMMA EpollClient == EpollInv /\ Epoll!Client => EpollInv'
<1> SUFFICES ASSUME EpollInv, Epoll!Client PROVE EpollInv'
  OBVIOUS
<1> USE DEF EpollInv, Epoll!NetTypeOK, Epoll!Readable
<1>1. /\ UNCHANGED <<maxFiles, edge, watches, batch, ranOut, pc>>
      /\ \E c \in Clients :
           \/ Epoll!Connect(c) /\ Epoll!Arrival(Listener) /\ UNCHANGED big
           \/ Epoll!Send(c) /\ Epoll!Arrival(c) /\ Epoll!Amount(c)
           \/ Epoll!Shutdown(c) /\ Epoll!Arrival(c) /\ UNCHANGED big
  BY DEF Epoll!Client
<1>2. PICK c \in Clients :
        \/ Epoll!Connect(c) /\ Epoll!Arrival(Listener) /\ UNCHANGED big
        \/ Epoll!Send(c) /\ Epoll!Arrival(c) /\ Epoll!Amount(c)
        \/ Epoll!Shutdown(c) /\ Epoll!Arrival(c) /\ UNCHANGED big
  BY <1>1
<1>3. CASE Epoll!Connect(c) /\ Epoll!Arrival(Listener) /\ UNCHANGED big
  BY <1>1, <1>3 DEF Epoll!Connect, Epoll!Arrival
<1>4. CASE Epoll!Send(c) /\ Epoll!Arrival(c) /\ Epoll!Amount(c)
  BY <1>1, <1>4 DEF Epoll!Send, Epoll!Arrival, Epoll!Amount
<1>5. CASE Epoll!Shutdown(c) /\ Epoll!Arrival(c) /\ UNCHANGED big
  BY <1>1, <1>5 DEF Epoll!Shutdown, Epoll!Arrival
<1> QED
  BY <1>2, <1>3, <1>4, <1>5

\* The server takes an event from the batch before it closes the socket.
LEMMA EpollStep == EpollInv /\ Epoll!Server => EpollInv'
<1> SUFFICES ASSUME EpollInv, Epoll!Server PROVE EpollInv'
  OBVIOUS
<1> USE DEF EpollInv, Epoll!NetTypeOK, Epoll!Readable
<1>0. UNCHANGED <<maxFiles, edge, watches>>
  BY DEF Epoll!Server
<1>1. CASE Epoll!EpollWait
  <2>1. /\ batch' \subseteq Epoll!ReadyFds /\ risen' = {} /\ pc' = "event"
        /\ UNCHANGED <<sock, rx, backlog, big>>
    BY <1>1 DEF Epoll!EpollWait, Epoll!net
  <2>2. /\ batch' \subseteq Clients \cup {Listener}
        /\ \A c \in Clients : c \in batch' => Epoll!Readable(c)
    BY <2>1, ProgramsAssumption DEF Epoll!ReadyFds
  <2> QED
    BY <1>0, <2>1, <2>2
<1>2. CASE Epoll!BatchEnd \/ Epoll!EventListener \/ Epoll!AcceptFails
  BY <1>0, <1>2 DEF Epoll!BatchEnd, Epoll!EventListener, Epoll!AcceptFails, Epoll!net
<1>3. CASE Epoll!Accept
  <2>1. /\ Head(backlog) \in Clients /\ backlog' \in Seq(Clients)
        /\ sock' = [sock EXCEPT ![Head(backlog)] = "open"] /\ UNCHANGED rx
    BY <1>3 DEF Epoll!Accept, Epoll!SockAccept, Epoll!MayAccept
  <2>2. risen' \subseteq Clients \cup {Listener}
    BY <1>3, <2>1 DEF Epoll!Accept, Epoll!Arrival
  <2>3. pc' \in {"accept", "exit"} /\ UNCHANGED <<big, batch>>
    BY <1>3 DEF Epoll!Accept
  <2> QED
    BY <1>0, <2>1, <2>2, <2>3
<1>4. ASSUME NEW c \in Clients, Epoll!EventData(c) PROVE EpollInv'
  BY <1>0, <1>4 DEF Epoll!EventData, Epoll!On, Epoll!Handled, Epoll!RecvData, Epoll!net
<1>5. ASSUME NEW c \in Clients, Epoll!EventError(c) PROVE EpollInv'
  BY <1>0, <1>5 DEF Epoll!EventError, Epoll!On, Epoll!Handled, Epoll!RecvError
<1>6. ASSUME NEW c \in Clients, Epoll!EventClosed(c) PROVE EpollInv'
  BY <1>0, <1>6 DEF Epoll!EventClosed, Epoll!On, Epoll!Handled, Epoll!SockClose
<1> QED
  BY <1>1, <1>2, <1>3, <1>4, <1>5, <1>6 DEF Epoll!Server, Epoll!Event
----------------------------------------------------------------------------
(* epoll_timerfd.c                                                         *)

\* The descriptors are numbers, none of them the listener's, and finitely many.
LEMMA FdsAreNumbers ==
  /\ Timer!Fds \subseteq Nat /\ Timer!TcpListener \notin Timer!Fds
  /\ \A S \in SUBSET Timer!Fds : IsFiniteSet(S) /\ Cardinality(S) \in Nat
<1>1. FdLimits \in SUBSET Nat /\ IsFiniteSet(FdLimits) /\ FdLimits # {}
  BY ProgramsAssumption DEF Timer!LimitsFit, Timer!IsFiniteSet, IsFiniteSet
<1>2. Timer!Max(FdLimits) \in Nat
  BY <1>1, MaxIsIn
<1>3. IsFiniteSet(Timer!Fds)
  BY <1>2, FS_Interval DEF Timer!Fds
<1>4. Timer!Fds \subseteq Nat /\ 0 \notin Timer!Fds
  BY <1>2 DEF Timer!Fds
<1> QED
  BY <1>3, <1>4, FS_Subset, FS_CardinalityType DEF Timer!TcpListener

\* What an entry of fds_list holds.
Sessions == [socket : Timer!Fds, timer : Timer!Fds]
Entries == 1 .. Len(list)

\* The descriptors below the limit of the process.
Usable == {f \in Timer!Fds : kind[f] # "none"}

\* Every entry owns an open socket and an open timer, every timer is owned.
Owned ==
  /\ \A m \in Entries :
       list[m].socket \in Timer!Sockets /\ list[m].timer \in Timer!Timers
  /\ \A m, n \in Entries :
       m # n => list[m].socket # list[n].socket /\ list[m].timer # list[n].timer
  /\ \A t \in Timer!Timers : \E m \in Entries : list[m].timer = t

\* Descriptors are taken and given back in pairs: with an even number of them
\* no socket is ever left without a timer, and so without an entry.
InPairs ==
  Timer!RoomForPairs =>
    /\ pc # "exit" /\ Cardinality(Timer!FreeFds) % 2 = 0
    /\ \A s \in Timer!Sockets : \E m \in Entries : list[m].socket = s

TimerInv ==
  /\ Timer!TypeOK /\ (pc = "accept" => batch # <<>>)
  /\ Owned /\ InPairs

\* The list holds what its type says.
LEMMA ListTyped ==
  ASSUME Timer!TypeOK
  PROVE  /\ list \in Seq(Sessions) /\ Len(list) \in Nat
         /\ \A m \in Entries : list[m] \in Sessions
<1>1. list \in Seq(Sessions)
  BY DEF Timer!TypeOK, Sessions
<1> QED
  BY <1>1, LenProperties, ElementOfSeq DEF Entries

\* The search finds an entry if there is one.
LEMMA FindByFinds ==
  ASSUME Timer!TypeOK, NEW field, NEW f
  PROVE  \/ /\ Timer!FindBy(field, f) = 0
            /\ \A m \in Entries : list[m][field] # f
         \/ /\ Timer!FindBy(field, f) \in Entries
            /\ list[Timer!FindBy(field, f)][field] = f
<1> DEFINE found == {n \in 1 .. Len(list) : list[n][field] = f}
<1>1. Timer!FindBy(field, f) = IF found = {} THEN 0 ELSE Timer!Min(found)
  BY DEF Timer!FindBy
<1>2. found \in SUBSET Nat
  BY ListTyped
<1>3. CASE found = {}
  BY <1>1, <1>3 DEF Entries
<1>4. CASE found # {}
  <2> HIDE DEF found
  <2>1. Timer!Min(found) \in found
    BY <1>2, <1>4, MinIsIn
  <2> QED
    BY <1>1, <1>4, <2>1 DEF found, Entries
<1> QED
  BY <1>3, <1>4

\* The last entry takes the place of the deleted one.
LEMMA DeleteMoves ==
  ASSUME Timer!TypeOK, NEW n \in Entries, list' = Timer!fds_deletebytimerfd(n)
  PROVE  /\ list' \in Seq(Sessions) /\ Len(list') = Len(list) - 1
         /\ \A m \in Entries' : list'[m] = list[IF m = n THEN Len(list) ELSE m]
<1> DEFINE moved == [list EXCEPT ![n] = list[Len(list)]]
           k == Len(list)
<1>1. list \in Seq(Sessions) /\ k \in Nat /\ n \in 1 .. k /\ k \in 1 .. k
  BY ListTyped DEF Entries
<1>2. list[k] \in Sessions
  BY <1>1, ElementOfSeq
<1>3. /\ moved \in Seq(Sessions) /\ Len(moved) = k
      /\ \A m \in 1 .. k : moved[m] = IF m = n THEN list[k] ELSE list[m]
  BY <1>1, <1>2, ExceptSeq
<1>4. list' = SubSeq(moved, 1, k - 1)
  BY <1>3 DEF Timer!fds_deletebytimerfd, Timer!Front, Timer!Last
<1> HIDE DEF moved
<1>5. \A m \in 1 .. k - 1 : moved[m] \in Sessions /\ m \in 1 .. k
  BY <1>1, <1>3, ElementOfSeq
<1>6. /\ SubSeq(moved, 1, k - 1) \in Seq(Sessions)
      /\ Len(SubSeq(moved, 1, k - 1)) = IF 1 <= k - 1 THEN k - 1 - 1 + 1 ELSE 0
      /\ \A m \in 1 .. k - 1 - 1 + 1 : SubSeq(moved, 1, k - 1)[m] = moved[1 + m - 1]
  BY <1>1, <1>5, SubSeqProperties
<1>7. Len(list') = k - 1 /\ \A m \in 1 .. k - 1 : list'[m] = moved[m]
  <2>1. k >= 1 /\ k - 1 - 1 + 1 = k - 1 /\ \A m \in Int : 1 + m - 1 = m
    BY <1>1
  <2>2. Len(list') = k - 1
    BY <1>1, <1>4, <1>6, <2>1
  <2> QED
    BY <1>4, <1>6, <2>1, <2>2
<1> QED
  BY <1>1, <1>3, <1>4, <1>5, <1>6, <1>7 DEF Entries

\* The instance counts as the standard module does.
LEMMA TimerCardinality == \A S : Timer!Cardinality(S) = Cardinality(S)
BY DEF Timer!Cardinality, Cardinality

\* Nothing is open before the first accept.
LEMMA TimerInit == Timer!Init => TimerInv
<1> SUFFICES ASSUME Timer!Init PROVE TimerInv
  OBVIOUS
<1>1. PICK n \in FdLimits : kind = [f \in Timer!Fds |-> IF f <= n THEN "free" ELSE "none"]
  BY DEF Timer!Init
<1>2. /\ rx = [f \in Timer!Fds |-> {}] /\ expired = {} /\ list = <<>>
      /\ backlog = 0 /\ batch = <<>> /\ pc = "wait"
  BY DEF Timer!Init
<1>3. /\ Timer!Sockets = {} /\ Timer!Timers = {} /\ Timer!FreeFds = Usable
      /\ kind \in [Timer!Fds -> {"free", "socket", "timer", "none"}]
  BY <1>1 DEF Timer!Sockets, Timer!Timers, Timer!FreeFds, Usable
<1>4. list \in Seq(Sessions) /\ batch \in Seq(Timer!Fds \cup {Timer!TcpListener})
  BY <1>2, EmptySeq
<1>5. Entries = {}
  BY <1>2, EmptySeq DEF Entries
<1>6. 0 \in 0 .. MaxPending
  BY ProgramsAssumption DEF Timer!LimitsFit
<1>7. Timer!TypeOK
  BY <1>2, <1>3, <1>4, <1>6 DEF Timer!TypeOK, Sessions
<1>8. InPairs
  BY <1>2, <1>3, TimerCardinality DEF InPairs, Timer!RoomForPairs, Usable
<1> QED
  BY <1>2, <1>3, <1>5, <1>7, <1>8 DEF TimerInv, Owned

\* epoll_wait returns the ready descriptors in some order.
LEMMA ReadySeqs ==
  ASSUME Timer!TypeOK
  PROVE  Timer!SetToSeqs(Timer!Ready) \subseteq Seq(Timer!Fds \cup {Timer!TcpListener})
<1> DEFINE All == Timer!Fds \cup {Timer!TcpListener}
           n == Timer!Cardinality(Timer!Ready)
<1>1. Timer!Ready \subseteq All
  BY DEF Timer!Ready, Timer!TypeOK, Timer!Sockets, Timer!Timers
<1>2. IsFiniteSet(All)
  BY FdsAreNumbers, FS_AddElement
<1>3. n \in Nat
  BY <1>1, <1>2, FS_Subset, FS_CardinalityType, TimerCardinality
<1>4. Timer!SetToSeqs(Timer!Ready) \subseteq [1 .. n -> Timer!Ready]
  BY DEF Timer!SetToSeqs
<1>5. [1 .. n -> Timer!Ready] \subseteq [1 .. n -> All]
  BY <1>1
<1>6. [1 .. n -> All] \subseteq Seq(All)
  BY <1>3, SeqDef
<1> QED
  BY <1>4, <1>5, <1>6

\* A step that opens and closes nothing, and leaves the list as it is.
LEMMA TablesStay ==
  ASSUME TimerInv, UNCHANGED <<kind, list>>, pc' # "exit", Timer!TypeOK',
         pc' = "accept" => batch' # <<>>
  PROVE  TimerInv'
BY DEF TimerInv, Owned, InPairs, Entries, Timer!Sockets, Timer!Timers, Timer!FreeFds,
       Timer!RoomForPairs

\* accept takes a descriptor for the socket, and another for its timer if it can.
LEMMA AcceptStep == TimerInv /\ Timer!Accept => TimerInv'
<1> SUFFICES ASSUME TimerInv, Timer!Accept PROVE TimerInv'
  OBVIOUS
<1> DEFINE free == Timer!FreeFds
           s == Timer!Min(free)
           t == Timer!Min(free \ {s})
<1>1. /\ pc = "accept" /\ backlog > 0 /\ free # {} /\ backlog' = backlog - 1
      /\ UNCHANGED <<rx, expired, batch, pc>>
  BY DEF Timer!Accept
<1>2. free \subseteq Timer!Fds /\ free \in SUBSET Nat /\ IsFiniteSet(free)
  BY FdsAreNumbers DEF Timer!FreeFds
<1>3. s \in free
  BY <1>1, <1>2, MinIsIn
<1>4. backlog' \in 0 .. MaxPending /\ batch # <<>>
  BY <1>1, ProgramsAssumption DEF TimerInv, Timer!TypeOK, Timer!LimitsFit
<1>5. kind \in [Timer!Fds -> {"free", "socket", "timer", "none"}] /\ kind[s] = "free"
  BY <1>3 DEF TimerInv, Timer!TypeOK, Timer!FreeFds
<1>6. CASE free = {s}
  <2>1. kind' = [kind EXCEPT ![s] = "socket"] /\ list' = list
    BY <1>6 DEF Timer!Accept
  <2>2. /\ Timer!Sockets' = Timer!Sockets \cup {s} /\ Timer!Timers' = Timer!Timers
        /\ Usable' = Usable /\ kind' \in [Timer!Fds -> {"free", "socket", "timer", "none"}]
    BY <1>2, <1>3, <1>5, <2>1 DEF Timer!Sockets, Timer!Timers, Usable
  <2>3. Timer!TypeOK'
    BY <1>1, <1>4, <2>1, <2>2 DEF TimerInv, Timer!TypeOK
  <2>4. Owned'
    BY <2>1, <2>2 DEF TimerInv, Owned, Entries
  <2>5. Cardinality(free) = 1
    BY <1>6, FS_Singleton
  <2>6. ~Timer!RoomForPairs
    BY <2>5 DEF TimerInv, InPairs
  <2>7. ~Timer!RoomForPairs'
    BY <2>2, <2>6 DEF Timer!RoomForPairs, Usable
  <2> QED
    BY <1>1, <1>4, <2>3, <2>4, <2>7 DEF TimerInv, InPairs
<1>7. CASE free # {s}
  <2>1. free \ {s} \in SUBSET Nat /\ free \ {s} # {}
    BY <1>2, <1>3, <1>7
  <2>2. t \in free /\ t # s
    BY <2>1, MinIsIn
  <2>3. /\ kind' = [kind EXCEPT ![s] = "socket", ![t] = "timer"]
        /\ list' = Append(list, [socket |-> s, timer |-> t])
    BY <1>7 DEF Timer!Accept
  <2>4. kind[t] = "free" /\ s \in Timer!Fds /\ t \in Timer!Fds
    BY <1>2, <1>3, <2>2 DEF Timer!FreeFds
  <2>5. /\ Timer!Sockets' = Timer!Sockets \cup {s}
        /\ Timer!Timers' = Timer!Timers \cup {t}
        /\ s \notin Timer!Sockets /\ t \notin Timer!Timers
        /\ Timer!FreeFds' = (free \ {s}) \ {t} /\ Usable' = Usable
        /\ kind' \in [Timer!Fds -> {"free", "socket", "timer", "none"}]
    BY <1>5, <2>2, <2>3, <2>4 DEF Timer!Sockets, Timer!Timers, Timer!FreeFds, Usable
  <2> DEFINE e == [socket |-> s, timer |-> t]
             k == Len(list)
  <2>6. /\ list' \in Seq(Sessions) /\ Len(list') = k + 1 /\ k \in Nat
        /\ \A m \in 1 .. k : list'[m] = list[m]
        /\ list'[k + 1] = e
    <3>1. list \in Seq(Sessions) /\ e \in Sessions /\ k \in Nat
      BY <2>4, ListTyped DEF Sessions, TimerInv
    <3> HIDE DEF e
    <3> QED
      BY <2>3, <3>1, AppendProperties DEF e
  <2> HIDE DEF s, t
  <2>7. e.socket = s /\ e.timer = t
    OBVIOUS
  <2> HIDE DEF e
  <2>8. /\ Entries' = Entries \cup {k + 1} /\ k + 1 \notin Entries
        /\ \A m \in Entries : list'[m] = list[m]
    BY <2>6 DEF Entries
  <2>9. Timer!TypeOK'
    BY <1>1, <1>4, <2>5, <2>6 DEF TimerInv, Timer!TypeOK, Sessions
  <2>10. Owned'
    <3>1. \A m \in Entries' : list'[m].socket \in Timer!Sockets'
                              /\ list'[m].timer \in Timer!Timers'
      BY <2>5, <2>6, <2>7, <2>8 DEF TimerInv, Owned
    <3>2. \A m, n \in Entries' :
            m # n => /\ list'[m].socket # list'[n].socket
                     /\ list'[m].timer # list'[n].timer
      BY <2>5, <2>6, <2>7, <2>8 DEF TimerInv, Owned
    <3>3. \A u \in Timer!Timers' : \E m \in Entries' : list'[m].timer = u
      BY <2>5, <2>6, <2>7, <2>8 DEF TimerInv, Owned
    <3> QED
      BY <3>1, <3>2, <3>3 DEF Owned
  <2>11. InPairs'
    <3>1. SUFFICES ASSUME Timer!RoomForPairs'
                   PROVE  /\ Cardinality(Timer!FreeFds') % 2 = 0
                          /\ \A u \in Timer!Sockets' :
                               \E m \in Entries' : list'[m].socket = u
      BY <1>1 DEF InPairs
    <3>2. Timer!RoomForPairs
      BY <2>5, <3>1 DEF Timer!RoomForPairs, Usable
    <3>3. Cardinality(free) \in Nat /\ Cardinality(free) % 2 = 0
      BY <1>2, <3>2, FdsAreNumbers DEF TimerInv, InPairs
    <3>4. /\ IsFiniteSet(free \ {s}) /\ Cardinality(free \ {s}) = Cardinality(free) - 1
          /\ Cardinality((free \ {s}) \ {t}) = Cardinality(free \ {s}) - 1
      BY <1>2, <1>3, <2>2, FS_RemoveElement
    <3>5. Cardinality(Timer!FreeFds') = Cardinality(free) - 2
      BY <2>5, <3>3, <3>4
    <3>6. Cardinality(Timer!FreeFds') % 2 = 0
      BY <3>3, <3>5
    <3>7. \A u \in Timer!Sockets : \E m \in Entries : list[m].socket = u
      BY <3>2 DEF TimerInv, InPairs
    <3> QED
      BY <2>5, <2>6, <2>7, <2>8, <3>6, <3>7
  <2> QED
    BY <1>1, <1>4, <2>9, <2>10, <2>11 DEF TimerInv
<1> QED
  BY <1>6, <1>7

\* del_ev gives back the socket, the timer and the entry; a socket that has no
\* entry can only be there when the limit leaves an odd number of descriptors.
LEMMA DelEvStep ==
  ASSUME TimerInv, NEW s \in Timer!Sockets, Timer!DelEv(s),
         pc = "event", batch # <<>>, batch' = Tail(batch), UNCHANGED backlog
  PROVE  TimerInv'
<1> DEFINE n == Timer!FindBy("socket", s)
           Kinds == {"free", "socket", "timer", "none"}
<1>1. /\ kind \in [Timer!Fds -> Kinds] /\ s \in Timer!Fds /\ kind[s] = "socket"
      /\ rx' = [rx EXCEPT ![s] = {}] /\ rx \in [Timer!Fds -> SUBSET {"data", "eof"}]
      /\ expired \subseteq Timer!Timers
  BY DEF TimerInv, Timer!TypeOK, Timer!Sockets, Timer!DelEv
<1>2. /\ rx' \in [Timer!Fds -> SUBSET {"data", "eof"}] /\ backlog' \in 0 .. MaxPending
      /\ batch' \in Seq(Timer!Fds \cup {Timer!TcpListener})
  BY <1>1, HeadTailProperties DEF TimerInv, Timer!TypeOK
<1>3. CASE n = 0
  <2>1. /\ kind' = [kind EXCEPT ![s] = "free"] /\ pc' = "exit" /\ UNCHANGED <<expired, list>>
    BY <1>3 DEF Timer!DelEv
  <2>2. \A m \in Entries : list[m].socket # s
    <3>1. 0 \notin Entries
      BY DEF Entries
    <3> QED
      BY <1>3, <3>1, FindByFinds DEF TimerInv
  <2>3. /\ Timer!Sockets' = Timer!Sockets \ {s} /\ Timer!Timers' = Timer!Timers
        /\ Usable' = Usable /\ kind' \in [Timer!Fds -> Kinds]
    BY <1>1, <2>1 DEF Timer!Sockets, Timer!Timers, Usable
  <2>4. Timer!TypeOK'
    BY <1>1, <1>2, <2>1, <2>3 DEF TimerInv, Timer!TypeOK
  <2>5. Owned'
    BY <2>1, <2>2, <2>3 DEF TimerInv, Owned, Entries
  <2>6. ~Timer!RoomForPairs
    BY <2>2 DEF TimerInv, InPairs
  <2>7. ~Timer!RoomForPairs'
    BY <2>3, <2>6 DEF Timer!RoomForPairs, Usable
  <2> QED
    BY <2>1, <2>4, <2>5, <2>7 DEF TimerInv, InPairs
<1>4. CASE n # 0
  <2> DEFINE t == list[n].timer
             k == Len(list)
             from(m) == IF m = n THEN k ELSE m
  <2>1. n \in Entries /\ list[n].socket = s
    BY <1>4, FindByFinds DEF TimerInv
  <2>2. /\ kind' = [kind EXCEPT ![s] = "free", ![t] = "free"]
        /\ expired' = expired \ {t} /\ list' = Timer!fds_deletebytimerfd(n) /\ pc' = pc
    BY <1>4 DEF Timer!DelEv
  <2>3. t \in Timer!Fds /\ kind[t] = "timer" /\ t # s
    BY <1>1, <2>1 DEF TimerInv, Owned, Timer!Timers
  <2>4. /\ list' \in Seq(Sessions) /\ Len(list') = k - 1 /\ k \in Nat
        /\ \A m \in Entries' : list'[m] = list[from(m)]
    BY <2>1, <2>2, DeleteMoves, ListTyped DEF TimerInv
  <2> HIDE DEF n, t
  <2>5. /\ Timer!Sockets' = Timer!Sockets \ {s} /\ Timer!Timers' = Timer!Timers \ {t}
        /\ Timer!FreeFds' = Timer!FreeFds \cup {s, t}
        /\ s \notin Timer!FreeFds /\ t \notin Timer!FreeFds
        /\ Usable' = Usable /\ kind' \in [Timer!Fds -> Kinds]
    BY <1>1, <2>2, <2>3 DEF Timer!Sockets, Timer!Timers, Timer!FreeFds, Usable
  <2>6. /\ \A m \in Entries' : from(m) \in Entries /\ from(m) # n
        /\ \A m, l \in Entries' : m # l => from(m) # from(l)
        /\ \A j \in Entries : j # n => \E m \in Entries' : from(m) = j
    <3>1. n \in 1 .. k /\ k \in Nat /\ Entries = 1 .. k /\ Entries' = 1 .. k - 1
      BY <2>1, <2>4 DEF Entries
    <3>2. \A m \in Entries' : from(m) \in Entries /\ from(m) # n
      BY <3>1
    <3>3. \A m, l \in Entries' : m # l => from(m) # from(l)
      BY <3>1
    <3>4. ASSUME NEW j \in Entries, j # n PROVE \E m \in Entries' : from(m) = j
      <4>1. CASE j = k
        <5>1. n \in Entries'
          BY <3>1, <3>4, <4>1
        <5> QED
          BY <4>1, <5>1
      <4>2. CASE j # k
        <5>1. j \in Entries'
          BY <3>1, <4>2
        <5> QED
          BY <3>4, <5>1
      <4> QED
        BY <4>1, <4>2
    <3> QED
      BY <3>2, <3>3, <3>4
  <2>7. \A j \in Entries : j # n => list[j].socket # s /\ list[j].timer # t
    BY <2>1 DEF TimerInv, Owned, t
  <2> HIDE DEF from
  <2>8. Timer!TypeOK'
    BY <1>1, <1>2, <2>2, <2>4, <2>5 DEF TimerInv, Timer!TypeOK, Sessions
  <2>9. Owned'
    <3>1. \A m \in Entries' : list'[m].socket \in Timer!Sockets'
                              /\ list'[m].timer \in Timer!Timers'
      BY <2>4, <2>5, <2>6, <2>7 DEF TimerInv, Owned
    <3>2. \A m, l \in Entries' :
            m # l => /\ list'[m].socket # list'[l].socket
                     /\ list'[m].timer # list'[l].timer
      BY <2>4, <2>6 DEF TimerInv, Owned
    <3>3. ASSUME NEW u \in Timer!Timers' PROVE \E m \in Entries' : list'[m].timer = u
      <4>1. PICK j \in Entries : list[j].timer = u
        BY <2>5, <3>3 DEF TimerInv, Owned
      <4>2. j # n
        BY <2>5, <3>3, <4>1 DEF t
      <4> QED
        BY <2>4, <2>6, <4>1, <4>2
    <3> QED
      BY <3>1, <3>2, <3>3 DEF Owned
  <2>10. InPairs'
    <3>1. SUFFICES ASSUME Timer!RoomForPairs'
                   PROVE  /\ pc' # "exit" /\ Cardinality(Timer!FreeFds') % 2 = 0
                          /\ \A u \in Timer!Sockets' :
                               \E m \in Entries' : list'[m].socket = u
      BY DEF InPairs
    <3>2. Timer!RoomForPairs
      BY <2>5, <3>1 DEF Timer!RoomForPairs, Usable
    <3>3. /\ IsFiniteSet(Timer!FreeFds) /\ Cardinality(Timer!FreeFds) \in Nat
          /\ Cardinality(Timer!FreeFds) % 2 = 0
      BY <3>2, FdsAreNumbers DEF TimerInv, InPairs, Timer!FreeFds
    <3>4. /\ IsFiniteSet(Timer!FreeFds \cup {s})
          /\ Cardinality(Timer!FreeFds \cup {s}) = Cardinality(Timer!FreeFds) + 1
          /\ Cardinality((Timer!FreeFds \cup {s}) \cup {t})
               = Cardinality(Timer!FreeFds \cup {s}) + 1
      BY <2>3, <2>5, <3>3, FS_AddElement
    <3>5. Cardinality(Timer!FreeFds') = Cardinality(Timer!FreeFds) + 2
      <4>1. Timer!FreeFds' = (Timer!FreeFds \cup {s}) \cup {t}
        BY <2>5
      <4> QED
        BY <3>3, <3>4, <4>1
    <3>6. Cardinality(Timer!FreeFds') % 2 = 0
      BY <3>3, <3>5
    <3>7. ASSUME NEW u \in Timer!Sockets'
          PROVE  \E m \in Entries' : list'[m].socket = u
      <4>1. PICK j \in Entries : list[j].socket = u
        BY <2>5, <3>2, <3>7 DEF TimerInv, InPairs
      <4>2. j # n
        BY <2>1, <2>5, <3>7, <4>1
      <4> QED
        BY <2>4, <2>6, <4>1, <4>2
    <3> QED
      BY <2>2, <3>2, <3>6, <3>7 DEF TimerInv, InPairs
  <2> QED
    BY <2>2, <2>8, <2>9, <2>10 DEF TimerInv
<1> QED
  BY <1>3, <1>4

\* The clients and the clock open and close nothing.
LEMMA TimerOutside == TimerInv /\ Timer!Outside => TimerInv'
<1> SUFFICES ASSUME TimerInv, Timer!Outside PROVE TimerInv'
  OBVIOUS
<1>1. pc # "exit" /\ UNCHANGED <<kind, list, batch, pc>>
  BY DEF Timer!Outside, Timer!Connect, Timer!Send, Timer!Expire
<1>2. CASE Timer!Connect
  <2>1. backlog' \in 0 .. MaxPending
    BY <1>2, ProgramsAssumption DEF Timer!Connect, TimerInv, Timer!TypeOK, Timer!LimitsFit
  <2> QED
    BY <1>1, <1>2, <2>1, TablesStay DEF Timer!Connect, TimerInv, Timer!TypeOK, Timer!Timers
<1>3. ASSUME NEW f \in Timer!Fds, Timer!Send(f) PROVE TimerInv'
  BY <1>1, <1>3, TablesStay DEF Timer!Send, TimerInv, Timer!TypeOK, Timer!Timers
<1>4. ASSUME NEW f \in Timer!Fds, Timer!Expire(f) PROVE TimerInv'
  BY <1>1, <1>4, TablesStay DEF Timer!Expire, TimerInv, Timer!TypeOK, Timer!Timers
<1> QED
  BY <1>2, <1>3, <1>4 DEF Timer!Outside

\* A step of the server keeps descriptors and entries together.
LEMMA TimerStep == TimerInv /\ Timer!Server => TimerInv'
<1> SUFFICES ASSUME TimerInv, Timer!Server PROVE TimerInv'
  OBVIOUS
<1>1. CASE Timer!EpollWait
  <2>1. batch' \in Seq(Timer!Fds \cup {Timer!TcpListener})
    BY <1>1, ReadySeqs DEF Timer!EpollWait, TimerInv
  <2> QED
    BY <1>1, <2>1, TablesStay DEF Timer!EpollWait, TimerInv, Timer!TypeOK, Timer!Timers
<1>2. CASE Timer!BatchEnd
  BY <1>2, TablesStay DEF Timer!BatchEnd, TimerInv, Timer!TypeOK, Timer!Timers
<1>3. CASE Timer!EventListener
  BY <1>3, TablesStay DEF Timer!EventListener, Timer!On, TimerInv, Timer!TypeOK, Timer!Timers
<1>4. CASE Timer!AcceptEnd
  <2>1. batch # <<>>
    BY <1>4 DEF Timer!AcceptEnd, TimerInv
  <2>2. batch' \in Seq(Timer!Fds \cup {Timer!TcpListener})
    BY <1>4, <2>1, HeadTailProperties DEF Timer!AcceptEnd, TimerInv, Timer!TypeOK
  <2> QED
    BY <1>4, <2>2, TablesStay DEF Timer!AcceptEnd, TimerInv, Timer!TypeOK, Timer!Timers
<1>5. ASSUME NEW f \in Timer!Fds, Timer!Event(f) PROVE TimerInv'
  <2>1. /\ pc = "event" /\ batch # <<>>
        /\ Tail(batch) \in Seq(Timer!Fds \cup {Timer!TcpListener})
        /\ <<>> \in Seq(Timer!Fds \cup {Timer!TcpListener})
    <3>1. pc = "event" /\ batch # <<>>
      BY <1>5 DEF Timer!Event, Timer!EventTimer, Timer!EventRecvFails, Timer!EventClosed,
                  Timer!EventData, Timer!NotTimer, Timer!On
    <3> QED
      BY <3>1, HeadTailProperties, EmptySeq DEF TimerInv, Timer!TypeOK
  <2>2. CASE Timer!EventTimer(f)
    <3> DEFINE n == Timer!FindBy("timer", f)
    <3>1. n \in Entries
      BY <2>2, FindByFinds DEF Timer!EventTimer, TimerInv
    <3>2. list[n].socket \in Timer!Sockets
      BY <3>1 DEF TimerInv, Owned
    <3> QED
      BY <2>1, <2>2, <3>2, DelEvStep DEF Timer!EventTimer
  <2>3. CASE Timer!EventRecvFails(f)
    BY <2>1, <2>3, TablesStay DEF Timer!EventRecvFails, TimerInv, Timer!TypeOK, Timer!Timers
  <2>4. CASE Timer!EventClosed(f)
    BY <2>1, <2>4, DelEvStep DEF Timer!EventClosed
  <2>5. CASE Timer!EventData(f)
    <3>1. /\ rx' = [rx EXCEPT ![f] = @ \ {"data"}] /\ expired' \subseteq expired
          /\ batch' \in {<<>>, Tail(batch)} /\ UNCHANGED <<kind, list, backlog, pc>>
      BY <2>5 DEF Timer!EventData
    <3> QED
      BY <2>1, <3>1, TablesStay DEF TimerInv, Timer!TypeOK, Timer!Timers
  <2> QED
    BY <1>5, <2>2, <2>3, <2>4, <2>5 DEF Timer!Event
<1> QED
  BY <1>1, <1>2, <1>3, <1>4, <1>5, AcceptStep DEF Timer!Server
----------------------------------------------------------------------------
\* The inductive invariant: that of the program which is checked.
ServersInv ==
  /\ program \in {"epoll", "timer"}
  /\ program = "epoll" => EpollInv
  /\ program = "timer" => TimerInv

\* Every reachable state of the servers satisfies ServersInv.
THEOREM ServersAreInvariant == Spec => []ServersInv
<1>1. Init => ServersInv
  BY EpollInit, TimerInit DEF Init, ServersInv
<1>2. ServersInv /\ [Next]_vars => ServersInv'
  <2> SUFFICES ASSUME ServersInv, [Next]_vars PROVE ServersInv'
    OBVIOUS
  <2>1. CASE program = "epoll" /\ (Epoll!Server \/ Epoll!Client) /\ EpollStays
    BY <2>1, EpollStep, EpollClient DEF EpollStays, ServersInv
  <2>2. CASE program = "timer" /\ (Timer!Server \/ Timer!Outside) /\ TimerStays
    BY <2>2, TimerStep, TimerOutside DEF TimerStays, ServersInv
  <2>3. CASE UNCHANGED vars
    <3>1. EpollInv => EpollInv'
      BY <2>3 DEF vars, epollOnly, EpollInv, Epoll!NetTypeOK, Epoll!Readable
    <3>2. TimerInv => TimerInv'
      BY <2>3, TablesStay DEF vars, timerOnly, TimerInv, Timer!TypeOK, Timer!Timers, InPairs,
         Owned, Entries, Timer!Sockets, Timer!FreeFds, Timer!RoomForPairs
    <3> QED
      BY <2>3, <3>1, <3>2 DEF vars, ServersInv
  <2> QED
    BY <2>1, <2>2, <2>3 DEF Next, Server, Outside
<1> QED
  BY <1>1, <1>2, PTL DEF Spec

\* recv of io_epoll_trigger.c never blocks: no event of a batch is stale.
THEOREM EventsAreFresh == Spec => []EpollNeverBlocks
<1>1. ServersInv => EpollNeverBlocks
  BY DEF ServersInv, EpollInv, EpollNeverBlocks, Epoll!EpollNeverBlocks, Epoll!On
<1> QED
  BY <1>1, ServersAreInvariant, PTL

\* The tables keep their ranges, and fds_list of epoll_timerfd.c agrees with the
\* descriptors after any mix of timeouts, disconnects and stale events.
THEOREM ListIsRight == Spec => []ListAgrees
<1>1. TimerInv => Timer!ListAgrees
  <2> SUFFICES ASSUME TimerInv PROVE Timer!ListAgrees
    OBVIOUS
  <2>1. \A t \in Timer!Timers : Timer!FindBy("timer", t) # 0
    <3> TAKE t \in Timer!Timers
    <3>1. PICK m \in Entries : list[m].timer = t
      BY DEF TimerInv, Owned
    <3>2. 0 \notin Entries
      BY DEF Entries
    <3> QED
      BY <3>1, <3>2, FindByFinds DEF TimerInv
  <2> QED
    BY <2>1 DEF TimerInv, Owned, Entries, Timer!ListAgrees
<1>2. ServersInv => ListAgrees
  BY <1>1 DEF ServersInv, EpollInv, TimerInv, ListAgrees, TypeOK
<1> QED
  BY <1>2, ServersAreInvariant, PTL

\* With an even number of descriptors every socket of epoll_timerfd.c has a
\* session, and no client makes the server end.
THEOREM NoClientEndsIt == Spec => []ServerStays
<1>1. TimerInv => Timer!ServerStays
  <2> SUFFICES ASSUME TimerInv, Timer!RoomForPairs
               PROVE  pc # "exit" /\ \A s \in Timer!Sockets : Timer!FindBy("socket", s) # 0
    BY DEF Timer!ServerStays
  <2>1. \A s \in Timer!Sockets : Timer!FindBy("socket", s) # 0
    <3> TAKE s \in Timer!Sockets
    <3>1. PICK m \in Entries : list[m].socket = s
      BY DEF TimerInv, InPairs
    <3>2. 0 \notin Entries
      BY DEF Entries
    <3> QED
      BY <3>1, <3>2, FindByFinds DEF TimerInv
  <2> QED
    BY <2>1 DEF TimerInv, InPairs
<1>2. ServersInv => ServerStays
  BY <1>1 DEF ServersInv, ServerStays
<1> QED
  BY <1>2, ServersAreInvariant, PTL
=============================================================================
