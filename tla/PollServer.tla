----------------------------- MODULE PollServer -----------------------------
(***************************************************************************)
(* io_poll.c, io_poll_nb.c and io_poll_LT.c: one thread serves all clients *)
(* with poll() over the array pollfds, entry 0 of which is the listener.   *)
(* Accepted sockets block in recv.                                         *)
(***************************************************************************)
EXTENDS NetClients

CONSTANTS Listener,    \* fd_listener
          NoFd,        \* the descriptor -1
          MaxSockets   \* MAX_FD_SOCKET

ASSUME PollAssumption == /\ MaxSockets \in Nat \ {0}
                         /\ Listener \notin Clients /\ NoFd \notin Clients

Slots == 0 .. MaxSockets - 1

VARIABLES nonBlocking,  \* the listener does not block: io_poll_nb.c and
                        \* io_poll_LT.c, not io_poll.c
          fd,       \* pollfds[].fd
          revents,  \* slots with POLLIN in pollfds[].revents
          cnt,      \* cnt_fd_socket
          ret,      \* ret_poll
          i,        \* the slot the loop looks at
          pc        \* "poll", "accept", "scan"

vars == <<maxFiles, nonBlocking, net, fd, revents, cnt, ret, i, pc>>

Init == /\ NetInit /\ nonBlocking \in BOOLEAN
        /\ fd = [s \in Slots |-> IF s = 0 THEN Listener ELSE NoFd]
        /\ revents = {} /\ cnt = 1 /\ ret = 0 /\ i = 1
        /\ pc = "poll"
----------------------------------------------------------------------------
Ready(s) == IF fd[s] = Listener THEN backlog # <<>>
            ELSE fd[s] \in Clients /\ Readable(fd[s])

\* poll() writes the revents of the first cnt entries and no other.
Poll == /\ pc = "poll"
        /\ LET ready == {s \in 0 .. cnt - 1 : Ready(s)}
           IN  /\ ready # {}
               /\ revents' = ready \cup {s \in revents : s >= cnt}
               /\ ret' = Cardinality(ready)
               /\ pc' = IF 0 \in ready THEN "accept" ELSE "scan"
        /\ i' = 1
        /\ UNCHANGED <<net, fd, cnt>>

\* Slip: add_socket does not look at MAX_FD_SOCKET.
Accept_NoLimit == /\ pc = "accept"
                  /\ SockAccept
                  /\ fd' = [fd EXCEPT ![cnt] = Head(backlog)]
                  /\ cnt' = cnt + 1
                  /\ pc' = IF nonBlocking THEN "accept" ELSE "scan"
                  /\ UNCHANGED <<revents, ret, i>>

\* Slip: add_socket keeps the last entry free.
Accept_EntryFree ==
  /\ pc = "accept"
  /\ SockAccept
  /\ IF cnt < MaxSockets - 1
     THEN /\ fd' = [fd EXCEPT ![cnt] = Head(backlog)]
          /\ cnt' = cnt + 1
     ELSE UNCHANGED <<fd, cnt>>
  /\ pc' = IF nonBlocking THEN "accept" ELSE "scan"
  /\ UNCHANGED <<revents, ret, i>>

\* accept and add_socket: revents of the new entry stays what it was.  When
\* the array is full the socket stays open and is in no entry.
Accept == /\ pc = "accept"
          /\ SockAccept
          /\ IF cnt < MaxSockets
             THEN /\ fd' = [fd EXCEPT ![cnt] = Head(backlog)]
                  /\ cnt' = cnt + 1
             ELSE UNCHANGED <<fd, cnt>>
          /\ pc' = IF nonBlocking THEN "accept" ELSE "scan"
          /\ UNCHANGED <<revents, ret, i>>

\* accept fails: EAGAIN once the queue is empty, or no descriptor is left.
\* The blocking server then goes back to poll(), the other one goes on.
AcceptFails == /\ pc = "accept"
               /\ ~MayAccept
               /\ pc' = IF nonBlocking THEN "scan" ELSE "poll"
               /\ UNCHANGED <<net, fd, revents, cnt, ret, i>>
----------------------------------------------------------------------------
\* for (i = 1; i < cnt_fd_socket && ret_poll > 0; i++)
Scanning == pc = "scan" /\ i < cnt /\ ret > 0

ScanEnd == /\ pc = "scan" /\ ~Scanning
           /\ pc' = "poll"
           /\ UNCHANGED <<net, fd, revents, cnt, ret, i>>

ScanSkip == /\ Scanning /\ i \notin revents
            /\ i' = i + 1
            /\ UNCHANGED <<net, fd, revents, cnt, ret, pc>>

\* recv returns data or an error; while there is nothing it does not return.
ScanRecv == /\ Scanning /\ i \in revents
            /\ RecvData(fd[i]) \/ ("data" \notin rx[fd[i]] /\ RecvError(fd[i]))
            /\ i' = i + 1
            /\ ret' = ret - 1
            /\ UNCHANGED <<fd, revents, cnt, pc>>

\* Slip: del_socket counts one entry less and moves none.
del_socket_NoMove(s) == /\ fd' = [fd EXCEPT ![cnt - 1] = NoFd]
                        /\ cnt' = cnt - 1
                        /\ UNCHANGED revents

\* The last entry, with its revents, takes the place of entry s.
del_socket(s) ==
  /\ fd' = [fd EXCEPT ![s] = fd[cnt - 1], ![cnt - 1] = NoFd]
  /\ revents' = IF cnt - 1 \in revents THEN revents \cup {s} ELSE revents \ {s}
  /\ cnt' = cnt - 1

\* recv returns zero: del_socket, and i-- for the entry that was moved here.
ScanClose == /\ Scanning /\ i \in revents
             /\ SockClose(fd[i])
             /\ del_socket(i)
             /\ ret' = ret - 1
             /\ UNCHANGED <<i, pc>>
----------------------------------------------------------------------------
Server == /\ \/ Poll \/ Accept \/ AcceptFails
             \/ ScanEnd \/ ScanSkip \/ ScanRecv \/ ScanClose
          /\ UNCHANGED <<maxFiles, nonBlocking>>

Client == /\ ClientStep
          /\ UNCHANGED <<maxFiles, nonBlocking, fd, revents, cnt, ret, i, pc>>

Next == Server \/ Client

Spec == Init /\ [][Next]_vars
----------------------------------------------------------------------------
\* The array and its counters keep their ranges.
TypeOK == /\ NetTypeOK /\ nonBlocking \in BOOLEAN
          /\ fd \in [Slots -> Clients \cup {Listener, NoFd}]
          /\ revents \subseteq Slots
          /\ cnt \in 1 .. MaxSockets /\ i \in 1 .. MaxSockets
          /\ ret \in 0 .. MaxSockets
          /\ pc \in {"poll", "accept", "scan"}

\* The first cnt entries are the listener and open sockets, none of them
\* twice, and the rest is empty, whatever was deleted in the middle of the
\* loop (add_socket, del_socket).
TableSound ==
  /\ fd[0] = Listener
  /\ \A s \in 1 .. cnt - 1 : fd[s] \in Open
  /\ \A s, t \in 1 .. cnt - 1 : fd[s] = fd[t] => s = t
  /\ \A s \in Slots : s >= cnt => fd[s] = NoFd

\* A client that was accepted is connected without being watched only when the
\* array was full: neither a deletion nor a failed accept loses one.  (In the
\* full array add_socket fails, and main does not look: "error : force to
\* disconnect.", io_poll_nb.c:118.)
Listed == {fd[s] : s \in 1 .. cnt - 1}
Forgotten == Open \ Listed

OnlyFullForgets ==
  [][Forgotten' \subseteq Forgotten \/ cnt = MaxSockets]_vars

\* "POLLIN : normal-inband" (io_poll_nb.c:143) is only acted upon when poll()
\* has reported data: the server never calls recv on a socket that has none,
\* where it would block while the other clients wait.
NeverBlocks == Scanning /\ i \in revents => Readable(fd[i])
============================================================================
