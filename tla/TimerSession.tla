---------------------------- MODULE TimerSession ----------------------------
(***************************************************************************)
(* epoll_timerfd.c: a server with a list of sessions, each a socket and a  *)
(* timer, both watched by one level-triggered epoll.  Data on the socket   *)
(* starts the timer anew, its expiry closes the session.                   *)
(*                                                                         *)
(* The server is one thread; what interleaves with it are the clients and  *)
(* the clock, between any two events of the batch epoll_wait returned.  A  *)
(* descriptor is a small number that is used again as soon as it is free,  *)
(* an event of the batch names a descriptor and may have become stale.     *)
(***************************************************************************)
EXTENDS Naturals, Sequences, SequencesExt, FiniteSetsExt

CONSTANTS FdLimits,   \* the limits on descriptors that are looked at
          MaxPending  \* bound: connections that wait to be accepted

LimitsFit == /\ FdLimits \subseteq Nat \ {0} /\ FdLimits # {}
             /\ IsFiniteSet(FdLimits) /\ MaxPending \in Nat \ {0}

TcpListener == 0          \* fd_listener
Fds == 1 .. Max(FdLimits) \* those for sockets and timers

VARIABLES kind,     \* each descriptor: "free", "socket", "timer", or "none"
                    \* beyond the limit of the process
          rx,       \* each socket: what recv will find, "data" before "eof"
          expired,  \* timers that have expired since they were set
          list,     \* fds_list: the sessions, in its order
          backlog,  \* connections that wait to be accepted
          batch,    \* descriptors of the events still to be handled
          pc        \* "wait" in epoll_wait, "event", "accept", "exit"

vars == <<kind, rx, expired, list, backlog, batch, pc>>

Init == /\ \E n \in FdLimits :
             kind = [f \in Fds |-> IF f <= n THEN "free" ELSE "none"]
        /\ rx = [f \in Fds |-> {}]
        /\ expired = {} /\ list = <<>> /\ backlog = 0
        /\ batch = <<>> /\ pc = "wait"

FreeFds == {f \in Fds : kind[f] = "free"}
Sockets == {f \in Fds : kind[f] = "socket"}
Timers == {f \in Fds : kind[f] = "timer"}

\* fds_findbysocketfd, fds_findbytimerfd: the first match, or 0.
FindBy(field, f) ==
  LET found == {n \in 1 .. Len(list) : list[n][field] = f}
  IN  IF found = {} THEN 0 ELSE Min(found)

\* Slip: the entry is dropped, the last one is not moved into its place.
fds_deletebytimerfd_NoMove(n) == Front(list)

\* fds_deletebytimerfd: the last entry takes the place of the deleted one.
fds_deletebytimerfd(n) == Front([list EXCEPT ![n] = Last(list)])
----------------------------------------------------------------------------
(* The clients and the clock.                                              *)

Connect == /\ backlog < MaxPending
           /\ backlog' = backlog + 1
           /\ UNCHANGED <<kind, rx, expired, list, batch, pc>>

\* A client sends, or closes its side.
Send(f) == /\ f \in Sockets /\ "eof" \notin rx[f]
           /\ \E what \in {"data", "eof"} :
                rx' = [rx EXCEPT ![f] = @ \cup {what}]
           /\ UNCHANGED <<kind, expired, list, backlog, batch, pc>>

Expire(t) == /\ t \in Timers \ expired
             /\ expired' = expired \cup {t}
             /\ UNCHANGED <<kind, rx, list, backlog, batch, pc>>
----------------------------------------------------------------------------
(* main() and get_epollevent.                                              *)

Ready == {f \in Sockets : rx[f] # {}} \cup expired
           \cup (IF backlog > 0 THEN {TcpListener} ELSE {})

\* epoll_wait returns the ready descriptors, in any order.
EpollWait == /\ pc = "wait" /\ Ready # {}
             /\ batch' \in SetToSeqs(Ready)
             /\ pc' = "event"
             /\ UNCHANGED <<kind, rx, expired, list, backlog>>

BatchEnd == /\ pc = "event" /\ batch = <<>>
            /\ pc' = "wait"
            /\ UNCHANGED <<kind, rx, expired, list, backlog, batch>>

On(f) == pc = "event" /\ batch # <<>> /\ Head(batch) = f

EventListener == /\ On(TcpListener)
                 /\ pc' = "accept"
                 /\ UNCHANGED <<kind, rx, expired, list, backlog, batch>>

\* Slip: what accept returns is not looked at.
Accept_Unchecked ==
  /\ pc = "accept" /\ FreeFds # {}
  /\ backlog' = backlog - 1
  /\ kind' = [kind EXCEPT ![Min(FreeFds)] = "socket"]
  /\ UNCHANGED <<rx, expired, list, batch, pc>>

\* accept and add_ev: the socket and, if a descriptor is left, the timer get
\* the lowest free numbers.  Without a timer there is no entry in the list:
\* the value fds_new_timerfd returns is not the one ADD_EV looks for.
Accept ==
  /\ pc = "accept" /\ backlog > 0 /\ FreeFds # {}
  /\ backlog' = backlog - 1
  /\ LET s == Min(FreeFds)
         t == Min(FreeFds \ {s})
     IN  IF FreeFds = {s}
         THEN /\ kind' = [kind EXCEPT ![s] = "socket"]
              /\ UNCHANGED list
         ELSE /\ kind' = [kind EXCEPT ![s] = "socket", ![t] = "timer"]
              /\ list' = Append(list, [socket |-> s, timer |-> t])
  /\ UNCHANGED <<rx, expired, batch, pc>>

\* EAGAIN, or no descriptor is left.
AcceptEnd == /\ pc = "accept" /\ (backlog = 0 \/ FreeFds = {})
             /\ batch' = Tail(batch)
             /\ pc' = "event"
             /\ UNCHANGED <<kind, rx, expired, list, backlog>>

\* Slip: the timer of the session stays open.
DelEv_TimerLeft(s) ==
  LET n == FindBy("socket", s)
  IN  /\ n # 0
      /\ kind' = [kind EXCEPT ![s] = "free"]
      /\ rx' = [rx EXCEPT ![s] = {}]
      /\ list' = fds_deletebytimerfd(n)
      /\ UNCHANGED <<expired, pc>>

\* del_ev: closes the socket and its timer and deletes their entry of the
\* list.  A socket without an entry makes DEL_EV end the program.
DelEv(s) ==
  LET n == FindBy("socket", s)
  IN  /\ rx' = [rx EXCEPT ![s] = {}]
      /\ IF n = 0
         THEN /\ kind' = [kind EXCEPT ![s] = "free"]
              /\ pc' = "exit"
              /\ UNCHANGED <<expired, list>>
         ELSE /\ kind' = [kind EXCEPT ![s] = "free", ![list[n].timer] = "free"]
              /\ expired' = expired \ {list[n].timer}
              /\ list' = fds_deletebytimerfd(n)
              /\ UNCHANGED pc

\* The descriptor is the timer of an entry of the list.
EventTimer(f) == /\ On(f) /\ FindBy("timer", f) # 0
                 /\ DelEv(list[FindBy("timer", f)].socket)
                 /\ batch' = Tail(batch)
                 /\ UNCHANGED backlog

NotTimer(f) == On(f) /\ f # TcpListener /\ FindBy("timer", f) = 0

\* recv fails: the event is stale, its descriptor closed or used again.
EventRecvFails(f) == /\ NotTimer(f)
                     /\ f \in Sockets => rx[f] = {}
                     /\ batch' = Tail(batch)
                     /\ UNCHANGED <<kind, rx, expired, list, backlog, pc>>

\* Slip: a return of zero from recv counts as no data.
EventClosed_Kept(f) == /\ NotTimer(f) /\ f \in Sockets /\ rx[f] = {"eof"}
                       /\ batch' = Tail(batch)
                       /\ UNCHANGED <<kind, rx, expired, list, backlog, pc>>

EventClosed(f) == /\ NotTimer(f) /\ f \in Sockets /\ rx[f] = {"eof"}
                  /\ DelEv(f)
                  /\ batch' = Tail(batch)
                  /\ UNCHANGED backlog

\* The timer starts anew.  Without an entry the rest of the batch is dropped.
EventData(f) ==
  /\ NotTimer(f) /\ f \in Sockets /\ "data" \in rx[f]
  /\ rx' = [rx EXCEPT ![f] = @ \ {"data"}]
  /\ LET n == FindBy("socket", f)
     IN  IF n = 0
         THEN batch' = <<>> /\ UNCHANGED expired
         ELSE /\ batch' = Tail(batch)
              /\ expired' = expired \ {list[n].timer}
  /\ UNCHANGED <<kind, list, backlog, pc>>
----------------------------------------------------------------------------
Event(f) == \/ EventTimer(f) \/ EventRecvFails(f)
            \/ EventClosed(f) \/ EventData(f)

Server == \/ EpollWait \/ BatchEnd \/ EventListener \/ Accept \/ AcceptEnd
          \/ \E f \in Fds : Event(f)
Outside == pc # "exit" /\ (Connect \/ \E f \in Fds : Send(f) \/ Expire(f))
Ended == pc = "exit" /\ UNCHANGED vars

Next == Server \/ Outside \/ Ended

Spec == Init /\ [][Next]_vars

\* The server runs whenever it can; neither clients nor clock are promised.
FairSpec == Spec /\ WF_vars(Server)
----------------------------------------------------------------------------
\* Descriptors, events and entries are of their kinds.
TypeOK == /\ kind \in [Fds -> {"free", "socket", "timer", "none"}]
          /\ rx \in [Fds -> SUBSET {"data", "eof"}]
          /\ expired \subseteq Timers
          /\ list \in Seq([socket : Fds, timer : Fds])
          /\ backlog \in 0 .. MaxPending
          /\ batch \in Seq(Fds \cup {TcpListener})
          /\ pc \in {"wait", "event", "accept", "exit"}

\* fds_list and the open descriptors agree: every entry owns an open socket
\* and an open timer that no other entry owns, and no timer is left without
\* an entry, after any mix of timeouts, disconnects and stale events (add_ev,
\* del_ev, fds_deletebytimerfd).
ListAgrees ==
  /\ \A m \in 1 .. Len(list) :
       list[m].socket \in Sockets /\ list[m].timer \in Timers
  /\ \A m, n \in 1 .. Len(list) :
       m # n => /\ list[m].socket # list[n].socket
                /\ list[m].timer # list[n].timer
  /\ \A t \in Timers : FindBy("timer", t) # 0

\* The limit leaves room for a timer beside every socket.
RoomForPairs == Cardinality({f \in Fds : kind[f] # "none"}) % 2 = 0

\* Every socket then has a session, and no client makes the server end (DEL_EV
\* ends it when a socket without a session is closed).
ServerStays ==
  RoomForPairs => pc # "exit" /\ \A s \in Sockets : FindBy("socket", s) # 0

\* A session whose timer expired or whose client went is closed, or has been
\* given another period because data came: it never lingers, although its
\* event may be handled late or be stale.  (A socket without a session makes
\* the loop drop its batch each time it has data, hence RoomForPairs.)
Due(f) == f \in expired \/ rx[f] = {"eof"}

NeverLingers ==
  \A f \in Fds : (RoomForPairs /\ Due(f)) ~> ~Due(f)

\* "timeout expired/closed": a session closed by a timer event is one whose
\* timer has expired (epoll_timerfd.c:169, "If the event has been received by
\* timerfd, the timerfd and the socketfd in this session will be removed").
TimeoutMeansExpired ==
  [][\A f \in Fds : EventTimer(f) => f \in expired]_vars
============================================================================
