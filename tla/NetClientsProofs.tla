-------------------------- MODULE NetClientsProofs --------------------------
(***************************************************************************)
(* What the proofs about the servers need to know of their clients and of  *)
(* the system calls.                                                       *)
(***************************************************************************)
EXTENDS NetClients, TLAPS

\* The clients in the queue wait in it once and have not been accepted.
QueueSound ==
  /\ \A k \in 1 .. Len(backlog) : sock[backlog[k]] = "queued"
  /\ \A k, l \in 1 .. Len(backlog) : backlog[k] = backlog[l] => k = l

ReadyClients == {c \in Clients : Readable(c)}

\* What the clients and the system calls do to the sockets keeps their types.
LEMMA NetType ==
  ASSUME NetTypeOK, UNCHANGED maxFiles,
         \/ ClientStep \/ SockAccept \/ UNCHANGED net
         \/ \E c \in Clients : RecvData(c) \/ RecvError(c) \/ SockClose(c)
  PROVE  NetTypeOK'
<1> USE DEF NetTypeOK
<1>1. ASSUME NEW c \in Clients, Connect(c) \/ Send(c) \/ Shutdown(c)
      PROVE  NetTypeOK'
  BY <1>1 DEF Connect, Send, Shutdown
<1>2. CASE SockAccept
  BY <1>2 DEF SockAccept, MayAccept
<1>3. ASSUME NEW c \in Clients, RecvData(c) \/ RecvError(c) \/ SockClose(c)
      PROVE  NetTypeOK'
  BY <1>3 DEF RecvData, RecvError, SockClose
<1>4. CASE UNCHANGED net
  BY <1>4 DEF net
<1> QED
  BY <1>1, <1>2, <1>3, <1>4 DEF ClientStep

----------------------------------------------------------------------------
\* A client step leaves the sockets that are open, and what they have to
\* receive, and puts at most one more client at the end of the queue.
LEMMA ClientNet ==
  ASSUME NetTypeOK, QueueSound, ClientStep
  PROVE  /\ QueueSound' /\ Open' = Open
         /\ ReadyClients \subseteq ReadyClients'
<1>1. ASSUME NEW c \in Clients, Connect(c)
      PROVE  /\ QueueSound' /\ Open' = Open
             /\ ReadyClients \subseteq ReadyClients'
  BY <1>1 DEF Connect, QueueSound, Open, ReadyClients, Readable, NetTypeOK
<1>2. ASSUME NEW c \in Clients, Send(c) \/ Shutdown(c)
      PROVE  /\ QueueSound' /\ Open' = Open
             /\ ReadyClients \subseteq ReadyClients'
  BY <1>2 DEF Send, Shutdown, QueueSound, Open, ReadyClients, Readable,
              NetTypeOK
<1> QED
  BY <1>1, <1>2 DEF ClientStep

\* accept: the head of the queue was not open and becomes so.
LEMMA AcceptNet ==
  ASSUME NetTypeOK, QueueSound, SockAccept
  PROVE  /\ Head(backlog) \in Clients /\ Head(backlog) \notin Open
         /\ Open' = Open \cup {Head(backlog)} /\ QueueSound'
<1> DEFINE c == Head(backlog)
<1>1. /\ backlog \in Seq(Clients) /\ backlog # <<>> /\ c = backlog[1]
      /\ sock' = [sock EXCEPT ![c] = "open"] /\ backlog' = Tail(backlog)
      /\ sock \in [Clients -> {"none", "queued", "open"}]
  BY DEF SockAccept, MayAccept, NetTypeOK
<1>2. c \in Clients /\ sock[c] = "queued" /\ c \notin Open
  BY <1>1 DEF QueueSound, Open
<1>3. /\ Len(backlog') = Len(backlog) - 1
      /\ \A k \in 1 .. Len(backlog') : /\ backlog'[k] = backlog[k + 1]
                                       /\ k + 1 \in 2 .. Len(backlog)
  BY <1>1
<1>4. \A k \in 2 .. Len(backlog) : backlog[k] # c /\ backlog[k] \in Clients
  BY <1>1 DEF QueueSound
<1>5. \A k \in 1 .. Len(backlog') : sock'[backlog'[k]] = "queued"
  BY <1>1, <1>3, <1>4 DEF QueueSound
<1>6. ASSUME NEW k \in 1 .. Len(backlog'), NEW l \in 1 .. Len(backlog'),
             backlog'[k] = backlog'[l]
      PROVE  k = l
  <2>1. k + 1 = l + 1
    BY <1>3, <1>6 DEF QueueSound
  <2> QED
    BY <2>1
<1>7. Open' = Open \cup {c}
  BY <1>1, <1>2 DEF Open
<1> QED
  BY <1>2, <1>5, <1>6, <1>7 DEF QueueSound

\* recv takes what it returns from one socket only.
LEMMA RecvNet ==
  ASSUME NetTypeOK, QueueSound,
         NEW c \in Clients, RecvData(c) \/ RecvError(c)
  PROVE  /\ QueueSound' /\ Open' = Open
         /\ ReadyClients \ {c} \subseteq ReadyClients'
BY DEF RecvData, RecvError, QueueSound, Open, ReadyClients, Readable, NetTypeOK

\* close: the socket was open, and so its client is not in the queue.
LEMMA CloseNet ==
  ASSUME NetTypeOK, QueueSound, NEW c \in Open, SockClose(c)
  PROVE  /\ QueueSound' /\ Open' = Open \ {c}
         /\ ReadyClients \ {c} \subseteq ReadyClients'
<1>1. c \in Clients /\ sock[c] = "open"
  BY DEF Open
<1>2. \A k \in 1 .. Len(backlog) : backlog[k] \in Clients /\ backlog[k] # c
  BY <1>1 DEF QueueSound, NetTypeOK
<1>3. QueueSound'
  BY <1>1, <1>2 DEF SockClose, QueueSound, NetTypeOK
<1> QED
  BY <1>1, <1>3 DEF SockClose, Open, ReadyClients, Readable, NetTypeOK
=============================================================================
