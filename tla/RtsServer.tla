----------------------------- MODULE RtsServer -----------------------------
(***************************************************************************)
(* 10.realtime/io_rts.c: the kernel queues a real-time signal for every    *)
(* arrival at a socket that has an owner, and one thread takes them with   *)
(* sigwaitinfo.  When the queue is full the kernel sends SIGIO, which is   *)
(* not blocked and kills the process.                                      *)
(***************************************************************************)
EXTENDS NetClients

CONSTANT MaxSignals  \* RLIMIT_SIGPENDING

VARIABLES pc,        \* "mask", "async", "wait", "accept", "own", "recv"; the
                     \* process is gone: "broke" after accept has failed,
                     \* "overflow" and "killed" by a signal
          fd,        \* si_fd, and the socket that accept has returned
          masked,    \* the two signals are blocked
          async,     \* clients whose socket has an owner and a signal
          listening, \* the listener has
          atListener,\* queued SIGRT_LISTEN_IO, which come before the others
          queued,    \* queued SIGRT_NORM_IO: si_fd and si_band of each
          unsignalled, \* history: clients at whose socket an arrival raised no
                       \* signal with POLLIN, or recv left a rest, since it
                       \* was empty
          early      \* history: connections that raised none at the listener

main == <<fd, masked, async, listening>>
vars == <<net, maxFiles, pc, main, atListener, queued, unsignalled, early>>

Gone == {"broke", "overflow", "killed"}
Anyone == CHOOSE c \in Clients : TRUE

Init == /\ NetInit
        /\ pc = "mask" /\ fd = Anyone /\ masked = FALSE
        /\ async = {} /\ listening = FALSE
        /\ atListener = 0 /\ queued = <<>>
        /\ unsignalled = {} /\ early = 0
----------------------------------------------------------------------------
(* The clients, and the signals of what arrives.                           *)

RoomForSignal == atListener + Len(queued) < MaxSignals

Delivery == pc' = IF ~masked THEN "killed"
                  ELSE IF RoomForSignal THEN pc ELSE "overflow"

Knock == IF listening
         THEN /\ atListener' = atListener + 1 /\ Delivery
              /\ UNCHANGED early
         ELSE early' = early + 1 /\ UNCHANGED <<atListener, pc>>

Signal(c) == LET reset == "err" \in rx'[c]
                 band == IF reset THEN "POLLERR" ELSE "POLLIN"
             IN  /\ IF c \in async
                    THEN queued' = Append(queued, <<c, band>>) /\ Delivery
                    ELSE UNCHANGED <<queued, pc>>
                 /\ unsignalled' = IF c \in async /\ ~reset THEN unsignalled
                                   ELSE unsignalled \cup {c}

Client ==
  /\ pc \notin Gone
  /\ \E c \in Clients :
       \/ Connect(c) /\ Knock /\ UNCHANGED <<queued, unsignalled>>
       \/ /\ Send(c) \/ Shutdown(c)
          /\ Signal(c) /\ UNCHANGED <<atListener, early>>
  /\ UNCHANGED <<maxFiles, main>>
----------------------------------------------------------------------------
(* main: the signals are blocked before the listener raises any.           *)

Goto(from, to) == /\ pc = from /\ pc' = to
                  /\ UNCHANGED <<maxFiles, early>>

\* Slip: sigprocmask comes after start_sigrt has made the listener asynchronous.
Mask_Late == /\ Goto("mask", "async")
             /\ UNCHANGED <<net, main, atListener, queued, unsignalled>>

Mask == /\ Goto("mask", "async") /\ masked' = TRUE
        /\ UNCHANGED <<net, fd, async, listening, atListener, queued, unsignalled>>

\* add_rts_socket(fd_listener, ...)
Listen == /\ Goto("async", "wait") /\ listening' = TRUE
          /\ UNCHANGED <<net, fd, masked, async, atListener, queued, unsignalled>>

\* Slip: a signal that does not queue, so that several are one.
WaitListener_Merged == /\ Goto("wait", "accept") /\ atListener > 0
                       /\ atListener' = 0
                       /\ UNCHANGED <<net, main, queued, unsignalled>>

\* sigwaitinfo: the lower number first, each number in the order it was queued.
WaitListener == /\ Goto("wait", "accept") /\ atListener > 0
                /\ atListener' = atListener - 1
                /\ UNCHANGED <<net, main, queued, unsignalled>>

WaitNorm == /\ Goto("wait", "recv") /\ atListener = 0 /\ queued # <<>>
            /\ Head(queued)[2] = "POLLIN"
            /\ fd' = Head(queued)[1] /\ queued' = Tail(queued)
            /\ UNCHANGED <<net, masked, async, listening, atListener, unsignalled>>

\* The connection was reset: nothing is done about it.
WaitError == /\ Goto("wait", "wait") /\ atListener = 0 /\ queued # <<>>
             /\ Head(queued)[2] = "POLLERR"
             /\ queued' = Tail(queued)
             /\ UNCHANGED <<net, main, atListener, unsignalled>>

Accept == /\ Goto("accept", "own") /\ SockAccept
          /\ fd' = Head(backlog)
          /\ UNCHANGED <<masked, async, listening, atListener, queued, unsignalled>>

\* No descriptor is left: break, and the end of main.
AcceptFails == /\ Goto("accept", "broke") /\ ~MayAccept
               /\ UNCHANGED <<net, main, atListener, queued, unsignalled>>

\* add_rts_socket(fd_client, ...)
Own == /\ Goto("own", "wait") /\ async' = async \cup {fd}
       /\ UNCHANGED <<net, fd, masked, listening, atListener, queued, unsignalled>>

RecvSome == /\ Goto("recv", "wait") /\ sock[fd] = "open"
            /\ \/ RecvData(fd)
               \/ "data" \notin rx[fd] /\ RecvError(fd)
            /\ unsignalled' = IF rx'[fd] = {} THEN unsignalled \ {fd}
                                             ELSE unsignalled
            /\ UNCHANGED <<main, atListener, queued>>

\* More has arrived than rbuf holds, and there is one recv for a signal.
RecvPart == /\ Goto("recv", "wait") /\ sock[fd] = "open" /\ "data" \in rx[fd]
            /\ unsignalled' = unsignalled \cup {fd}
            /\ UNCHANGED <<net, main, atListener, queued>>

RecvClosed == /\ Goto("recv", "wait") /\ sock[fd] = "open" /\ SockClose(fd)
              /\ async' = async \ {fd} /\ unsignalled' = unsignalled \ {fd}
              /\ UNCHANGED <<fd, masked, listening, atListener, queued>>

\* EAGAIN, or EBADF: an earlier signal has led to what this one is about.
RecvNothing == /\ Goto("recv", "wait")
               /\ sock[fd] # "open" \/ rx[fd] = {}
               /\ UNCHANGED <<net, main, atListener, queued, unsignalled>>

Server == \/ Mask \/ Listen \/ WaitListener \/ WaitNorm \/ WaitError
          \/ Accept \/ AcceptFails \/ Own \/ RecvSome \/ RecvPart
          \/ RecvClosed \/ RecvNothing
----------------------------------------------------------------------------
Next == Server \/ Client
Spec == Init /\ [][Next]_vars
FairSpec == Spec /\ WF_vars(Server)
----------------------------------------------------------------------------
RtsTypeOK ==
  /\ NetTypeOK /\ fd \in Clients /\ masked \in BOOLEAN /\ listening \in BOOLEAN
  /\ pc \in {"mask", "async", "wait", "accept", "own", "recv"} \cup Gone
  /\ async \cup unsignalled \subseteq Clients
  /\ atListener + Len(queued) \in 0 .. MaxSignals + 1
  /\ queued \in Seq(Clients \X {"POLLIN", "POLLERR"}) /\ early \in Nat

\* Nothing but a full queue of signals, or accept without a descriptor, ends the
\* server: no signal meets it unblocked, and each signal of the listener has a
\* connection that accept returns (main, start_sigrt).
ServerLives ==
  /\ pc # "killed"
  /\ pc = "accept" => backlog # <<>>
  /\ pc = "broke" => Cardinality(Open) >= maxFiles

\* A signal is on its way for whatever waits at a socket, although one recv
\* takes what several signals are about, others are about a connection that was
\* closed, and a descriptor is used again.  Only these wait for the next arrival:
\* what came before the socket had an owner, or the listener a signal; the reset of
\* a connection, of which POLLERR is all that is said; and what a recv of 16384
\* bytes left (io_rts.c:26,106), with whatever follows it until the socket is
\* empty once.
OnItsWay ==
  pc \notin Gone =>
  /\ \A c \in Clients : Readable(c) /\ c \notin unsignalled =>
       \/ \E k \in DOMAIN queued : queued[k] = <<c, "POLLIN">>
       \/ pc = "recv" /\ fd = c
  /\ Len(backlog) = early + atListener + (IF pc = "accept" THEN 1 ELSE 0)
============================================================================
