---------------------------- MODULE SelectServer ----------------------------
(***************************************************************************)
(* io_select.c and io_select2.c: one thread serves all clients with        *)
(* select() over the descriptors of fd_socket, entry 0 of which is the     *)
(* listener.                                                               *)
(***************************************************************************)
EXTENDS NetClients, SequencesExt

CONSTANTS Listener,    \* fd_listener
          NoFd,        \* the descriptor -1
          MaxSockets   \* MAX_FD_SOCKET

ASSUME SelectAssumption == /\ MaxSockets \in Nat \ {0}
                           /\ Listener \notin Clients /\ NoFd \notin Clients
                           /\ NoFd # Listener

VARIABLES nonBlocking,  \* the listener does not block: io_select2.c, not
                        \* io_select.c
          list,     \* fd_socket[1], fd_socket[2], ... up to cnt_fd_socket
          fdsRead,  \* fds_read
          i,        \* the entry the loop looks at
          pc        \* "select", "accept", "scan", "exit"

vars == <<maxFiles, nonBlocking, net, list, fdsRead, i, pc>>

Init == /\ NetInit /\ nonBlocking \in BOOLEAN
        /\ list = <<>> /\ fdsRead = {} /\ i = 1
        /\ pc = "select"

Full == Len(list) + 1 = MaxSockets
----------------------------------------------------------------------------
\* mk_fds and select(): the watched descriptors that are ready.
ReadySet == {c \in ToSet(list) : c \in Clients /\ Readable(c)}
              \cup (IF backlog # <<>> THEN {Listener} ELSE {})

\* Slip: mk_fds without FD_ZERO, and select() given a copy.
Select_Stale == /\ pc = "select" /\ ReadySet # {}
                /\ fdsRead' = fdsRead \cup ReadySet
                /\ pc' = IF Listener \in fdsRead' THEN "accept" ELSE "scan"
                /\ i' = 1
                /\ UNCHANGED <<net, list>>

Select == /\ pc = "select" /\ ReadySet # {}
          /\ fdsRead' = ReadySet
          /\ pc' = IF Listener \in ReadySet THEN "accept" ELSE "scan"
          /\ i' = 1
          /\ UNCHANGED <<net, list>>

\* Slip: add_socket does not look at MAX_FD_SOCKET.
Accept_NoLimit == /\ pc = "accept"
                  /\ SockAccept
                  /\ list' = Append(list, Head(backlog))
                  /\ pc' = IF nonBlocking THEN "accept" ELSE "scan"
                  /\ UNCHANGED <<fdsRead, i>>

\* accept and add_socket: when the array is full the socket stays open and
\* is in no entry.
Accept == /\ pc = "accept"
          /\ SockAccept
          /\ list' = IF Full THEN list ELSE Append(list, Head(backlog))
          /\ pc' = IF nonBlocking THEN "accept" ELSE "scan"
          /\ UNCHANGED <<fdsRead, i>>

\* EAGAIN: io_select2.c accepts until the queue is empty.
AcceptNone == /\ pc = "accept" /\ backlog = <<>>
              /\ pc' = "scan"
              /\ UNCHANGED <<net, list, fdsRead, i>>

\* No descriptor is left: io_select.c goes back to select().
AcceptFails == /\ pc = "accept" /\ ~nonBlocking
               /\ backlog # <<>> /\ ~MayAccept
               /\ pc' = "select"
               /\ UNCHANGED <<net, list, fdsRead, i>>

\* io_select2.c adds -1 and tries again; getnameinfo sees whatever saddr_c
\* holds and may end the program.
AcceptFailsAgain == /\ pc = "accept" /\ nonBlocking
                    /\ backlog # <<>> /\ ~MayAccept
                    /\ list' = IF Full THEN list ELSE Append(list, NoFd)
                    /\ pc' \in {"accept", "exit"}
                    /\ UNCHANGED <<net, fdsRead, i>>
----------------------------------------------------------------------------
\* Slip: the loop ends before the last entry.
Scanning_Short == pc = "scan" /\ i < Len(list)

\* for (i = 1; i < cnt_fd_socket; i++)
Scanning == pc = "scan" /\ i <= Len(list)

ScanEnd == /\ pc = "scan" /\ ~Scanning
           /\ pc' = "select"
           /\ UNCHANGED <<net, list, fdsRead, i>>

ScanSkip == /\ Scanning /\ list[i] \notin fdsRead
            /\ i' = i + 1
            /\ UNCHANGED <<net, list, fdsRead, pc>>

ScanRecv == /\ Scanning /\ list[i] \in fdsRead
            /\ \/ RecvData(list[i])
               \/ "data" \notin rx[list[i]] /\ RecvError(list[i])
            /\ i' = i + 1
            /\ UNCHANGED <<list, fdsRead, pc>>

\* Slip: the last entry is dropped, it does not take the place of entry k.
del_socket_NoMove(k) == Front(list)

\* The last entry takes the place of entry k.
del_socket(k) == Front([list EXCEPT ![k] = Last(list)])

\* recv returns zero; the entry moved to i is looked at in the next cycle.
ScanClose == /\ Scanning /\ list[i] \in fdsRead
             /\ SockClose(list[i])
             /\ list' = del_socket(i)
             /\ i' = i + 1
             /\ UNCHANGED <<fdsRead, pc>>
----------------------------------------------------------------------------
Server == /\ \/ Select \/ Accept \/ AcceptNone \/ AcceptFails
             \/ AcceptFailsAgain
             \/ ScanEnd \/ ScanSkip \/ ScanRecv \/ ScanClose
          /\ UNCHANGED <<maxFiles, nonBlocking>>

Client == /\ pc # "exit" /\ ClientStep
          /\ UNCHANGED <<maxFiles, nonBlocking, list, fdsRead, i, pc>>

Ended == pc = "exit" /\ UNCHANGED vars

Next == Server \/ Client \/ Ended

Spec == Init /\ [][Next]_vars

\* The server runs whenever its system calls return.
FairSpec == Spec /\ WF_vars(Server)
----------------------------------------------------------------------------
Listed == ToSet(list) \ {NoFd}

\* The array, the set and the loop counter keep their ranges.
TypeOK == /\ NetTypeOK /\ nonBlocking \in BOOLEAN
          /\ list \in Seq(Clients \cup {NoFd}) /\ Len(list) < MaxSockets
          /\ fdsRead \subseteq Clients \cup {Listener}
          /\ i \in 1 .. MaxSockets
          /\ pc \in {"select", "accept", "scan", "exit"}

\* fd_socket keeps within its limit and holds open sockets, none of them twice,
\* also while entries are deleted in the middle of the loop (add_socket,
\* del_socket).
TableSound == /\ TypeOK
              /\ Listed \subseteq Open
              /\ \A k, l \in 1 .. Len(list) :
                   list[k] = list[l] /\ list[k] # NoFd => k = l

\* The server calls recv only on a socket that has something to receive: it
\* never blocks on one client while others wait (main, mk_fds).
NeverBlocks == Scanning /\ list[i] \in fdsRead => Readable(list[i])

\* What a client that is watched sends, and its end, is received, although the
\* loop skips the entry del_socket moves (main), as long as the server has a
\* descriptor left for a connection that waits: without one io_select.c goes
\* back to select() before it looks at its clients.
Stuck == backlog # <<>> /\ ~MayAccept

Served == \A c \in Clients :
  (c \in Listed /\ rx[c] # {}) ~> (rx[c] = {} \/ Stuck \/ pc = "exit")
============================================================================
