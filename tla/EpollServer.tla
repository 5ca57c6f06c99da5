----------------------------- MODULE EpollServer -----------------------------
(***************************************************************************)
(* io_epoll.c and io_epoll_trigger.c: one thread serves all clients with   *)
(* epoll.  The second program takes two bytes at a time and, with          *)
(* ENABLE_EPOLLET, registers its descriptors edge-triggered; its accepted  *)
(* sockets block.                                                          *)
(***************************************************************************)
EXTENDS NetClients

CONSTANTS Listener,   \* fd_listener
          WatchLimits \* descriptors the kernel lets the user watch, as looked at

VARIABLES edge,      \* ENABLE_EPOLLET
          watches,   \* sockets the kernel lets the user watch
          big,       \* clients whose data does not fit into one recv
          risen,     \* descriptors with an edge since epoll_wait returned
          batch,     \* events of ep_events still to be handled
          ranOut,    \* accept has failed for want of a descriptor
          pc         \* "wait", "event", "accept", "exit"

vars == <<maxFiles, edge, watches, net, big, risen, batch, ranOut, pc>>

Init == /\ NetInit /\ edge \in BOOLEAN /\ watches \in WatchLimits
        /\ big = {} /\ risen = {} /\ batch = {}
        /\ ranOut = FALSE /\ pc = "wait"
----------------------------------------------------------------------------
(* The clients.  What arrives at a watched socket is an edge.              *)

Arrival(fd) == risen' = IF edge THEN risen \cup {fd} ELSE {}

\* What is sent on top of data that waits counts with it.
Amount(c) == big' \in {big, IF "data" \in rx[c] THEN big ELSE big \cup {c}}

Client ==
  /\ pc # "exit"
  /\ \E c \in Clients :
       \/ Connect(c) /\ Arrival(Listener) /\ UNCHANGED big
       \/ Send(c) /\ Arrival(c) /\ Amount(c)
       \/ Shutdown(c) /\ Arrival(c) /\ UNCHANGED big
  /\ UNCHANGED <<maxFiles, edge, watches, batch, ranOut, pc>>
----------------------------------------------------------------------------
ReadyFds == {c \in Clients : Readable(c)}
              \cup (IF backlog # <<>> THEN {Listener} ELSE {})

\* An edge is reported once, and only while there is something to read.
EpollWait ==
  LET events == IF edge THEN ReadyFds \cap risen ELSE ReadyFds
  IN  /\ pc = "wait" /\ events # {}
      /\ batch' = events /\ risen' = {}
      /\ pc' = "event"
      /\ UNCHANGED <<net, big>>

BatchEnd == /\ pc = "event" /\ batch = {}
            /\ pc' = "wait"
            /\ UNCHANGED <<net, big, risen, batch>>

EventListener == /\ pc = "event" /\ Listener \in batch
                 /\ batch' = batch \ {Listener} /\ pc' = "accept"
                 /\ UNCHANGED <<net, big, risen>>

\* Slip: one connection is accepted for each event.
Accept_One == /\ pc = "accept" /\ SockAccept
              /\ Arrival(Head(backlog)) /\ pc' = "event"
              /\ UNCHANGED <<big, batch>>

\* accept and ADD_EV, until accept fails.  A socket that has something to read
\* when it is added is reported.  ADD_EV ends the program when the kernel
\* watches no more.
Accept == /\ pc = "accept" /\ SockAccept
          /\ Arrival(Head(backlog))
          /\ pc' = IF Cardinality(Open) < watches THEN "accept" ELSE "exit"
          /\ UNCHANGED <<big, batch>>

\* EAGAIN, or no descriptor is left: both leave the loop.
AcceptFails == /\ pc = "accept" /\ ~MayAccept
               /\ pc' = "event" /\ ranOut' = (ranOut \/ backlog # <<>>)
               /\ UNCHANGED <<net, big, risen, batch>>

On(c) == pc = "event" /\ c \in batch \ {Listener}
Handled(c) == batch' = batch \ {c} /\ UNCHANGED pc

\* Slip: the loop of a non-blocking server, recv until it fails, in a program
\* whose sockets block.
EventData_Again(c) == /\ On(c) /\ RecvData(c)
                      /\ UNCHANGED <<big, risen, batch, pc>>

\* recv returns what its buffer holds; the rest stays in the socket.
EventData(c) == /\ On(c) /\ Handled(c)
                /\ IF c \in big /\ "data" \in rx[c]
                   THEN big' = big \ {c} /\ UNCHANGED net
                   ELSE RecvData(c) /\ UNCHANGED big
                /\ UNCHANGED risen

\* recv fails: nothing is done about it.
EventError(c) == /\ On(c) /\ Handled(c)
                 /\ "data" \notin rx[c] /\ RecvError(c)
                 /\ UNCHANGED <<big, risen>>

\* Slip: the socket is closed but stays in the program's books: no DEL_EV.
EventClosed_Kept(c) == /\ On(c) /\ Handled(c) /\ rx[c] = {"eof"}
                       /\ UNCHANGED <<net, big, risen>>

\* recv returns zero: DEL_EV.
EventClosed(c) == /\ On(c) /\ Handled(c)
                  /\ SockClose(c)
                  /\ big' = big \ {c} /\ risen' = risen \ {c}
----------------------------------------------------------------------------
Event(c) == EventData(c) \/ EventError(c) \/ EventClosed(c)

Server == /\ \/ AcceptFails
             \/ /\ \/ EpollWait \/ BatchEnd \/ EventListener \/ Accept
                   \/ \E c \in Clients : Event(c)
                /\ UNCHANGED ranOut
          /\ UNCHANGED <<maxFiles, edge, watches>>

Next == Server \/ Client

Spec == Init /\ [][Next]_vars
FairSpec == Spec /\ WF_vars(Server)
----------------------------------------------------------------------------
\* An event is for a socket that has something to read: recv does not block,
\* although the sockets of io_epoll_trigger.c do, and a descriptor that was
\* closed and given to another client in the same batch has no event left.
EpollNeverBlocks == \A c \in Clients : On(c) => Readable(c)

\* With the edge trigger a socket is left with data, or with its end, after a
\* recv that did not take everything (two bytes, or an error): nothing
\* happens to it until its client sends again (io_epoll_trigger.c:147).
Forsaken(c) == edge /\ c \in Open /\ Readable(c) /\ c \notin risen \cup batch

\* Whatever else a client sends is read.
EpollServed ==
  \A c \in Clients : (sock[c] = "open" /\ rx[c] # {})
                       ~> (rx[c] = {} \/ Forsaken(c) \/ pc = "exit")

\* Who waits to be accepted is accepted.  When the descriptors ran out the
\* level trigger reports the listener until there is one; with the edge trigger
\* the listener is not reported again (io_epoll_trigger.c:131-137).
Admitted == \A c \in Clients :
  (sock[c] = "queued")
    ~> (sock[c] # "queued" \/ ~MayAccept \/ (edge /\ ranOut) \/ pc = "exit")
============================================================================
