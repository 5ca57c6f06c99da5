----------------------------- MODULE MCServers -----------------------------
(***************************************************************************)
(* The epoll servers and the server with session timers, one of them at a  *)
(* time (program), with the variables of the other at rest.                *)
(***************************************************************************)
EXTENDS Naturals, FiniteSets

CONSTANTS Clients, Listener, EpollFiles, WatchLimits, FdLimits, MaxPending

VARIABLES program,
          maxFiles, sock, rx, backlog, batch, pc,   \* of both
          edge, watches, big, risen, ranOut,        \* EpollServer
          kind, expired, list                       \* TimerSession

Epoll == INSTANCE EpollServer WITH FileLimits <- EpollFiles
Timer == INSTANCE TimerSession

ASSUME ProgramsAssumption ==
  /\ Timer!LimitsFit
  /\ EpollFiles \subseteq Nat \ {0} /\ WatchLimits \subseteq Nat
  /\ Listener \notin Clients

epollOnly == <<maxFiles, sock, edge, watches, big, risen, ranOut>>
timerOnly == <<kind, expired, list>>
vars == <<program, rx, backlog, batch, pc, epollOnly, timerOnly>>

Rest == 0

Init == \/ /\ program = "epoll" /\ Epoll!Init
           /\ kind = Rest /\ expired = Rest /\ list = Rest
        \/ /\ program = "timer" /\ Timer!Init
           /\ maxFiles = Rest /\ sock = Rest /\ edge = Rest /\ watches = Rest
           /\ big = Rest /\ risen = Rest /\ ranOut = Rest

EpollStays == UNCHANGED <<program, timerOnly>>
TimerStays == UNCHANGED <<program, epollOnly>>

Server == \/ program = "epoll" /\ Epoll!Server /\ EpollStays
          \/ program = "timer" /\ Timer!Server /\ TimerStays

Outside == \/ program = "epoll" /\ Epoll!Client /\ EpollStays
           \/ program = "timer" /\ Timer!Outside /\ TimerStays

Next == Server \/ Outside

Spec == Init /\ [][Next]_vars

\* A server runs whenever its system calls return; neither the clients nor the
\* clock are promised.
FairSpec == Spec /\ WF_vars(Server)
----------------------------------------------------------------------------
\* Each program's tables and counters keep their ranges; every entry of
\* fds_list names descriptors, and none is -1 (add_ev).
TypeOK ==
  /\ program \in {"epoll", "timer"}
  /\ program = "epoll" =>
       /\ Epoll!NetTypeOK /\ pc \in {"wait", "event", "accept", "exit"}
       /\ batch \cup risen \subseteq Clients \cup {Listener}
       /\ big \subseteq Clients
  /\ program = "timer" => Timer!TypeOK

\* recv of io_epoll_trigger.c never waits: see EpollServer.
EpollNeverBlocks == program = "epoll" => Epoll!EpollNeverBlocks

\* The tables keep their ranges, and fds_list agrees with the descriptors of
\* epoll_timerfd.c: see TimerSession.
ListAgrees == TypeOK /\ (program = "timer" => Timer!ListAgrees)

\* No client of epoll_timerfd.c ends the server: see TimerSession.
ServerStays == program = "timer" => Timer!ServerStays

\* What a client of the epoll servers sends is received, but for what the edge
\* trigger leaves (io_epoll_trigger.c:147).
EpollServed == \A c \in Clients :
  (program = "epoll" /\ sock[c] = "open" /\ rx[c] # {})
    ~> (program # "epoll" \/ rx[c] = {} \/ Epoll!Forsaken(c) \/ pc = "exit")

\* Who waits to be accepted is, but for what the edge trigger leaves
\* (io_epoll_trigger.c:131-137).
Admitted == \A c \in Clients :
  (program = "epoll" /\ sock[c] = "queued")
    ~> (\/ program # "epoll" \/ sock[c] # "queued" \/ ~Epoll!MayAccept
        \/ (edge /\ ranOut) \/ pc = "exit")

\* A session of epoll_timerfd.c that is due is closed, or given another period.
NeverLingers == \A f \in Timer!Fds :
  (program = "timer" /\ Timer!RoomForPairs /\ Timer!Due(f))
    ~> (program # "timer" \/ ~Timer!Due(f))
============================================================================
