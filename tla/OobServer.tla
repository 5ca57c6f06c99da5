----------------------------- MODULE OobServer -----------------------------
(***************************************************************************)
(* A child of socket/inet_tcp_serv1_OOB.c and the client it serves: bytes  *)
(* that arrive are gathered in buf until an urgent one ends the message.   *)
(***************************************************************************)
EXTENDS Integers, Sequences

CONSTANTS BufSize,  \* sizeof(buf)
          MaxBytes  \* bound: bytes a client sends

VARIABLES strm,     \* what is to be received: "n" bytes, and "u" at the mark
          urgent,   \* the byte at the mark has not been received
          link,     \* "none", "live", "closed" or "reset" by the client
          sent,     \* bytes the client has sent
          cum,      \* cum_recv
          missed,   \* history: the mark came while recv waited for it
          pc        \* "accept", "mark", "normal", "oob", "smashed"

vars == <<strm, urgent, link, sent, cum, missed, pc>>

Init == /\ strm = <<>> /\ urgent = FALSE /\ link = "none" /\ sent = 0
        /\ cum = 0 /\ missed = FALSE /\ pc = "accept"
----------------------------------------------------------------------------
(* The client, and what TCP makes of a second urgent byte: the first one   *)
(* becomes a byte of the stream, or is dropped when the reader stands at   *)
(* it.                                                                     *)
AtMark == strm # <<>> /\ Head(strm) = "u"
Unmarked == LET rest == IF AtMark THEN Tail(strm) ELSE strm
            IN  [k \in DOMAIN rest |-> "n"]

Connect == /\ link = "none" /\ link' = "live" /\ sent' = 0
           /\ UNCHANGED <<strm, urgent, cum, missed, pc>>

SendNormal == /\ strm' = Append(strm, "n")
              /\ UNCHANGED <<urgent, missed>>
SendUrgent == /\ strm' = Append(Unmarked, "u") /\ urgent' = TRUE
              /\ missed' = (Unmarked = <<>> /\ pc = "normal")

Send == /\ link = "live" /\ sent < MaxBytes /\ sent' = sent + 1
        /\ SendNormal \/ SendUrgent
        /\ UNCHANGED <<link, cum, pc>>

Leave == /\ link = "live" /\ link' \in {"closed", "reset"}
         /\ UNCHANGED <<strm, urgent, sent, cum, missed, pc>>

Client == Connect \/ Send \/ Leave
----------------------------------------------------------------------------
(* start_child                                                             *)
Accept == /\ pc = "accept" /\ link # "none"
          /\ pc' = "mark" /\ cum' = 0 /\ missed' = FALSE
          /\ UNCHANGED <<strm, urgent, link, sent>>

\* Slip: the result of sockatmark is not looked at.
SockAtMark_Ignored == /\ pc = "mark" /\ pc' = "normal"
                      /\ UNCHANGED <<strm, urgent, link, sent, cum, missed>>

SockAtMark == /\ pc = "mark" /\ pc' = IF AtMark THEN "oob" ELSE "normal"
              /\ UNCHANGED <<strm, urgent, link, sent, cum, missed>>

\* recv passes over the byte at the mark and stops before a mark.
Stream == IF AtMark THEN Tail(strm) ELSE strm
Upto == {n \in 1 .. Len(Stream) : \A k \in 1 .. n : Stream[k] = "n"}

RecvNormal == /\ pc = "normal" /\ pc' = "mark"
              /\ \E n \in Upto :
                   /\ n <= BufSize - cum
                   /\ n + 1 \in Upto => n = BufSize - cum
                   /\ cum' = cum + n
                   /\ strm' = SubSeq(Stream, n + 1, Len(Stream))
              /\ urgent' = (urgent /\ ~AtMark)
              /\ UNCHANGED <<link, sent, missed>>

\* The connection is reset: -1 is added to cum_recv.
RecvFails == /\ pc = "normal" /\ pc' = "mark"
             /\ Stream = <<>> /\ link = "reset"
             /\ link' = "closed" /\ cum' = cum - 1
             /\ UNCHANGED <<strm, urgent, sent, missed>>

\* recv returns zero: there is no more to come, or no room in buf.
RecvZero == /\ pc = "normal" /\ pc' = "accept"
            /\ \/ Stream = <<>> /\ link = "closed"
               \/ cum = BufSize /\ (Stream # <<>> \/ link # "live")
            /\ strm' = <<>> /\ urgent' = FALSE
            /\ link' = "none" /\ sent' = 0
            /\ UNCHANGED <<cum, missed>>

\* Slip: the counter goes on counting.
RecvUrgent_NoReset == /\ pc = "oob" /\ urgent /\ link # "reset"
                      /\ pc' = IF cum = BufSize THEN "smashed" ELSE "mark"
                      /\ urgent' = FALSE /\ cum' = cum + 1
                      /\ UNCHANGED <<strm, link, sent, missed>>

\* The byte is written behind buf when buf is full.
RecvUrgent == /\ pc = "oob" /\ urgent /\ link # "reset"
              /\ pc' = IF cum = BufSize THEN "smashed" ELSE "mark"
              /\ urgent' = FALSE /\ cum' = 0
              /\ UNCHANGED <<strm, link, sent, missed>>

\* EINVAL: it was received before; goto WAIT_RECV.
RecvAgain == /\ pc = "oob" /\ ~urgent /\ pc' = "normal"
             /\ UNCHANGED <<strm, urgent, link, sent, cum, missed>>

\* Another error: continue, and so for ever on a connection that was reset.
RecvUrgentFails == /\ pc = "oob" /\ urgent /\ link = "reset" /\ pc' = "mark"
                   /\ UNCHANGED <<strm, urgent, link, sent, cum, missed>>

Child == \/ Accept \/ SockAtMark \/ RecvNormal \/ RecvFails \/ RecvZero
         \/ RecvUrgent \/ RecvAgain \/ RecvUrgentFails
----------------------------------------------------------------------------
Next == Client \/ Child
Spec == Init /\ [][Next]_vars
----------------------------------------------------------------------------
\* cum_recv counts what is in buf, through every goto, continue and break of
\* start_child, and is below zero for a connection that was reset at most.
TypeOK == /\ cum \in -1 .. BufSize
          /\ cum < 0 => link = "closed" \/ pc = "accept"

\* An urgent byte that was not received as such is passed over only when it came
\* while recv waited for normal bytes and nothing was before it: what stands
\* before the mark is received up to the mark, and sockatmark sees it then.
UrgentKept ==
  [][pc = "normal" /\ pc' = "mark" /\ urgent /\ ~urgent' => missed]_vars
============================================================================
