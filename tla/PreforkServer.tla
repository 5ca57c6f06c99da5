--------------------------- MODULE PreforkServer ---------------------------
(***************************************************************************)
(* The echo servers of 6.io_interface that fork their children before they *)
(* accept: socket/inet_tcp_serv1.c, inet6_tcp_serv1.c, unix_tcp_serv.c and *)
(* sockopt/ipv6_v6only.c, so_keepalive.c, so_oobinline.c, so_rcvtimeo.c,   *)
(* so_reuse_rcvbuf.c, so_reuseaddr.c.  Their client is socket/tcp_cli.c,   *)
(* which sends and never receives.                                         *)
(***************************************************************************)
EXTENDS NetClients

CONSTANTS MaxPool,  \* MAX_POOL
          NoClient

Idx == 0 .. MaxPool - 1

VARIABLES variant,   \* what kind of program it is
          pcM,       \* main(): "socket", "option", "bind", "fork", "pause";
                     \* "exit" and "inuse" after a failure
          reuse,     \* SO_REUSEADDR of the listener
          i,         \* main(): the next child
          pc,        \* each child: "none", "accept", "recv", "echo", "closed"
          conn,      \* each child: the client whose socket cfd is
          leaked,    \* each child: sockets it has left open
          big,       \* clients whose data does not fit into buf
          echoed,    \* clients with an echo they have not received
          refused    \* clients that have answered an echo with a reset

mainVars == <<variant, pcM, reuse, i>>
sessions == <<pc, conn, leaked>>
remote == <<big, echoed, refused>>
vars == <<net, maxFiles, mainVars, sessions, remote>>

\* Where the programs differ in what they do.
Variants == {"unix",   \* unix_tcp_serv.c: no address lingers, and a send to
                       \* a closed socket is known at once
             "reuse",  \* so_reuseaddr.c, so_reuse_rcvbuf.c: SO_REUSEADDR
             "inet"}   \* the others; in all but inet_tcp_serv1.c and
                       \* ipv6_v6only.c a call after accept may end a child

None == [k \in Idx |-> "none"]
NoConn == [k \in Idx |-> NoClient]
NoLeak == [k \in Idx |-> 0]

Init == /\ NetInit
        /\ pcM = "socket" /\ reuse = FALSE /\ i = 0
        /\ pc = None /\ conn = NoConn /\ leaked = NoLeak
        /\ big = {} /\ echoed = {} /\ refused = {}
        /\ variant \in Variants
----------------------------------------------------------------------------
(* tcp_cli.c                                                               *)

ClientConnect(c) == /\ pcM \in {"fork", "pause"} /\ Connect(c)
                    /\ UNCHANGED remote

\* What is sent on top of data that waits counts with it.
ClientSend(c) ==
  /\ Send(c)
  /\ big' \in {big, IF "data" \in rx[c] THEN big \cup {c} ELSE big}
  /\ UNCHANGED <<echoed, refused>>

\* The exit with an echo unread resets the connection.
ClientExit(c) ==
  /\ sock[c] # "none" /\ "eof" \notin rx[c]
  /\ rx' = [rx EXCEPT ![c] = @ \cup IF c \in echoed THEN {"err", "eof"}
                                                    ELSE {"eof"}]
  /\ UNCHANGED <<sock, backlog, remote>>

Client ==
  /\ \E c \in Clients : ClientConnect(c) \/ ClientSend(c) \/ ClientExit(c)
  /\ UNCHANGED <<maxFiles, mainVars, sessions>>
----------------------------------------------------------------------------
(* main                                                                    *)

MainStep(from, to) == /\ pcM = from /\ pcM' = to
                      /\ UNCHANGED <<net, maxFiles, variant, conn, leaked, remote>>

Socket == /\ MainStep("socket", "option") \/ MainStep("socket", "exit")
          /\ UNCHANGED <<reuse, i, pc>>

\* SO_REUSEADDR in two of the programs.
SetOption == /\ MainStep("option", "bind")
             /\ reuse' = (variant = "reuse")
             /\ UNCHANGED <<i, pc>>

\* bind and listen.  Connections of an earlier run may linger at the address;
\* unix_tcp_serv.c has removed the path of the earlier run.
Bind == /\ \/ MainStep("bind", "fork")
           \/ ~reuse /\ variant # "unix" /\ MainStep("bind", "inuse")
        /\ UNCHANGED <<reuse, i, pc>>

NextFork == IF i + 1 = MaxPool THEN "pause" ELSE "fork"

Fork == /\ MainStep("fork", NextFork)
        /\ i' = i + 1 /\ pc' = [pc EXCEPT ![i] = "accept"]
        /\ UNCHANGED reuse

\* main() goes on with the next child.
ForkFails == /\ MainStep("fork", NextFork)
             /\ i' = i + 1 /\ UNCHANGED <<reuse, pc>>

Main == Socket \/ SetOption \/ Bind \/ Fork \/ ForkFails
----------------------------------------------------------------------------
(* start_child                                                             *)

\* The server's end of a client's connection is closed.
Close(c) == /\ sock' = [sock EXCEPT ![c] = "none"]
            /\ rx' = [rx EXCEPT ![c] = {}]
            /\ big' = big \ {c} /\ echoed' = echoed \ {c}
            /\ refused' = refused \ {c}

Room(k) == leaked[k] < maxFiles

ChildGoes(k, from, to) == pc[k] = from /\ pc' = [pc EXCEPT ![k] = to]

\* Slip: a recv that fails closes sfd instead of cfd, and accept fails ever
\* after.
Accept_ListenerClosed(k) ==
  /\ ChildGoes(k, "accept", "recv")
  /\ backlog # <<>> /\ leaked[k] = 0
  /\ conn' = [conn EXCEPT ![k] = Head(backlog)]
  /\ sock' = [sock EXCEPT ![Head(backlog)] = "open"]
  /\ backlog' = Tail(backlog)
  /\ UNCHANGED <<rx, leaked, remote>>

\* Without a descriptor accept fails, and is called again.
Accept(k) == /\ ChildGoes(k, "accept", "recv")
             /\ backlog # <<>> /\ Room(k)
             /\ conn' = [conn EXCEPT ![k] = Head(backlog)]
             /\ sock' = [sock EXCEPT ![Head(backlog)] = "open"]
             /\ backlog' = Tail(backlog)
             /\ UNCHANGED <<rx, leaked, remote>>

\* getnameinfo or setsockopt fails: the child exits, its new socket with it.
AcceptExits(k) == /\ variant = "inet"
                  /\ ChildGoes(k, "accept", "none")
                  /\ backlog # <<>> /\ Room(k)
                  /\ Close(Head(backlog))
                  /\ backlog' = Tail(backlog)
                  /\ UNCHANGED <<conn, leaked>>

\* A timeout of recv, EAGAIN, is tried again like EINTR.
RecvEcho(k) == LET c == conn[k]
               IN  /\ ChildGoes(k, "recv", "echo")
                   /\ IF c \in big /\ "data" \in rx[c]
                      THEN big' = big \ {c} /\ UNCHANGED <<sock, rx, backlog>>
                      ELSE RecvData(c) /\ UNCHANGED big
                   /\ UNCHANGED <<conn, leaked, echoed, refused>>

Done(k) == conn' = [conn EXCEPT ![k] = NoClient]

\* recv fails: the loop is left without close(cfd).
RecvFails(k) == LET c == conn[k]
                IN  /\ ChildGoes(k, "recv", "accept") /\ Done(k)
                    /\ "data" \notin rx[c] /\ "err" \in rx[c]
                    /\ Close(c)
                    /\ leaked' = [leaked EXCEPT ![k] = @ + 1]
                    /\ UNCHANGED backlog

RecvClosed(k) == /\ ChildGoes(k, "recv", "accept") /\ Done(k)
                 /\ rx[conn[k]] = {"eof"} /\ Close(conn[k])
                 /\ UNCHANGED <<leaked, backlog>>

\* An echo to a client that has exited comes back as a reset.
EchoSent(k) == LET c == conn[k]
               IN  /\ ChildGoes(k, "echo", "recv")
                   /\ "err" \notin rx[c] /\ c \notin refused
                   /\ "eof" \in rx[c] => variant # "unix"
                   /\ echoed' = echoed \cup {c}
                   /\ refused' = IF "eof" \in rx[c] THEN refused \cup {c}
                                                    ELSE refused
                   /\ UNCHANGED <<net, conn, leaked, big>>

\* Slip: the loop is left, as after a recv that fails.
EchoFails_Break(k) == /\ ChildGoes(k, "echo", "accept") /\ Done(k)
                      /\ "err" \in rx[conn[k]]
                      /\ UNCHANGED <<net, leaked, remote>>

\* send fails: close(cfd), and recv on it.
EchoFails(k) == /\ ChildGoes(k, "echo", "closed") /\ Done(k)
                /\ "err" \in rx[conn[k]] /\ Close(conn[k])
                /\ UNCHANGED <<leaked, backlog>>

RecvOnClosed(k) == /\ ChildGoes(k, "closed", "accept")
                   /\ UNCHANGED <<net, conn, leaked, remote>>

\* The end of a child closes what it has open.
ChildEnds(k) == /\ pc' = [pc EXCEPT ![k] = "none"]
                /\ leaked' = [leaked EXCEPT ![k] = 0]
                /\ UNCHANGED backlog
                /\ IF conn[k] \in Clients THEN Close(conn[k]) /\ Done(k)
                   ELSE UNCHANGED <<sock, rx, conn, remote>>

\* SIGPIPE: the client's end is gone.
EchoKilled(k) == LET c == conn[k]
                 IN  /\ pc[k] = "echo" /\ "eof" \in rx[c]
                     /\ c \in refused \/ variant = "unix"
                     /\ ChildEnds(k)

Child(k) == /\ \/ Accept(k) \/ RecvEcho(k) \/ RecvFails(k) \/ RecvClosed(k)
               \/ EchoSent(k) \/ EchoFails(k) \/ EchoKilled(k)
               \/ RecvOnClosed(k)
            /\ UNCHANGED <<maxFiles, mainVars>>
----------------------------------------------------------------------------
ChildDies(k) == /\ AcceptExits(k) \/ (pc[k] # "none" /\ ChildEnds(k))
                /\ UNCHANGED <<maxFiles, mainVars>>

Server == Main \/ \E k \in Idx : Child(k)

Next == Server \/ Client \/ \E k \in Idx : ChildDies(k)

Spec == Init /\ [][Next]_vars

FairSpec == Spec /\ WF_vars(Main) /\ \A k \in Idx : WF_vars(Child(k))
----------------------------------------------------------------------------
PreforkTypeOK ==
  /\ NetTypeOK /\ variant \in Variants
  /\ pcM \in {"socket", "option", "bind", "fork", "pause", "exit", "inuse"}
  /\ reuse \in BOOLEAN /\ i \in 0 .. MaxPool
  /\ pc \in [Idx -> {"none", "accept", "recv", "echo", "closed"}]
  /\ conn \in [Idx -> Clients \cup {NoClient}]
  /\ leaked \in [Idx -> 0 .. maxFiles]

\* A connection that is open is held by one child, which is in the loop that
\* receives from it, and no child holds any other: close, break and the way
\* back to accept keep cfd and the loop together on every path of start_child.
HeldOnce ==
  /\ \A c \in Open : \E k \in Idx : conn[k] = c /\ pc[k] \in {"recv", "echo"}
  /\ \A k \in Idx : pc[k] \in {"recv", "echo"} => conn[k] \in Open
  /\ \A k, l \in Idx : conn[k] = conn[l] /\ conn[k] # NoClient => k = l

\* What a client that is served sends is received and answered, also when
\* other children die and other clients go away (start_child).
Answered(c) == \E k \in Idx : pc[k] = "echo" /\ conn[k] = c
PoolReceives ==
  \A c \in Clients :
    (sock[c] = "open" /\ rx[c] # {}) ~> (sock[c] # "open" \/ Answered(c))

\* While a child with a descriptor left comes back to accept again and again,
\* nobody waits in the backlog for ever.  Children that die are not replaced
\* and sockets of reset connections stay open, so this may stop to be so.
Free == \E k \in Idx : pc[k] = "accept" /\ Room(k)
PoolAdmits ==
  []<>Free => \A c \in Clients : (sock[c] = "queued") ~> (sock[c] # "queued")
============================================================================
