----------------------------- MODULE NetClients -----------------------------
(***************************************************************************)
(* What the servers of 7.io_multiplexing see of their clients and of the   *)
(* kernel's sockets: a queue of connections to accept, and on each         *)
(* accepted socket what recv will return.  A client that was closed may    *)
(* connect again.  The descriptor of a client's socket is named by the     *)
(* client.                                                                 *)
(***************************************************************************)
EXTENDS Naturals, Sequences, FiniteSets

CONSTANTS Clients,    \* client programs
          FileLimits  \* the limits on open files that are looked at

ASSUME FilesAssumption == FileLimits \subseteq Nat \ {0}

VARIABLES maxFiles, \* sockets the process may have open, the listener aside
          sock,     \* each client's socket: "none", "queued", "open"
          rx,       \* what is to be received: "data", then "err", then "eof"
          backlog   \* connections to accept, oldest first

net == <<sock, rx, backlog>>

NetInit == /\ maxFiles \in FileLimits
           /\ sock = [c \in Clients |-> "none"]
           /\ rx = [c \in Clients |-> {}]
           /\ backlog = <<>>

NetTypeOK == /\ maxFiles \in FileLimits
             /\ sock \in [Clients -> {"none", "queued", "open"}]
             /\ rx \in [Clients -> SUBSET {"data", "err", "eof"}]
             /\ backlog \in Seq(Clients)

Open == {c \in Clients : sock[c] = "open"}
Readable(c) == sock[c] = "open" /\ rx[c] # {}
----------------------------------------------------------------------------
(* The clients.                                                            *)

Connect(c) == /\ sock[c] = "none"
              /\ sock' = [sock EXCEPT ![c] = "queued"]
              /\ backlog' = Append(backlog, c)
              /\ UNCHANGED rx

Send(c) == /\ sock[c] # "none" /\ "eof" \notin rx[c]
           /\ rx' = [rx EXCEPT ![c] = @ \cup {"data"}]
           /\ UNCHANGED <<sock, backlog>>

\* The client closes, or resets the connection; what has arrived can
\* still be received.
Shutdown(c) == /\ sock[c] # "none" /\ "eof" \notin rx[c]
               /\ \E last \in {{"eof"}, {"err", "eof"}} :
                    rx' = [rx EXCEPT ![c] = @ \cup last]
               /\ UNCHANGED <<sock, backlog>>

ClientStep == \E c \in Clients : Connect(c) \/ Send(c) \/ Shutdown(c)
----------------------------------------------------------------------------
(* The server's system calls.                                              *)

MayAccept == backlog # <<>> /\ Cardinality(Open) < maxFiles

SockAccept == /\ MayAccept
              /\ sock' = [sock EXCEPT ![Head(backlog)] = "open"]
              /\ backlog' = Tail(backlog)
              /\ UNCHANGED rx

RecvData(c) == /\ "data" \in rx[c]
               /\ rx' = [rx EXCEPT ![c] = @ \ {"data"}]
               /\ UNCHANGED <<sock, backlog>>

RecvError(c) == /\ "err" \in rx[c]
                /\ rx' = [rx EXCEPT ![c] = @ \ {"err"}]
                /\ UNCHANGED <<sock, backlog>>

\* recv returns zero and the server closes the socket.
SockClose(c) == /\ rx[c] = {"eof"}
                /\ sock' = [sock EXCEPT ![c] = "none"]
                /\ rx' = [rx EXCEPT ![c] = {}]
                /\ UNCHANGED backlog
============================================================================
