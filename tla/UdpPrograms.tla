----------------------------- MODULE UdpPrograms -----------------------------
(***************************************************************************)
(* The datagram programs of 6.io_interface/socket: inet_udp_rcver.c sends  *)
(* back what it receives, inet_udp_snder.c sends and waits for the answer, *)
(* inet_udp_bcast.c sends to everybody and receives nothing.               *)
(***************************************************************************)
EXTENDS Naturals
LOCAL INSTANCE Functions

CONSTANTS UdpSenders,  \* inet_udp_snder.c
          Broadcaster, \* inet_udp_bcast.c
          Rounds,      \* bound: datagrams of each sender
          Buffer       \* datagrams a socket holds

Sources == UdpSenders \cup {Broadcaster}

VARIABLES pcR,      \* inet_udp_rcver.c: "bind", "recv", "send", "exit"
          saddr_c,  \* where the datagram came from
          asked,    \* datagrams at the receiver, by source
          answers,  \* datagrams at each source
          pcS,      \* each source: "send", "recv"
          sends,    \* datagrams each source has sent
          gone,     \* history: datagrams lost, of each source or its answers
          heard     \* history: answers each source has received

vars == <<pcR, saddr_c, asked, answers, pcS, sends, gone, heard>>

Zero == [s \in Sources |-> 0]
Total(f) == FoldFunction(+, 0, f)

Init == /\ pcR = "bind" /\ saddr_c \in Sources
        /\ asked = Zero /\ answers = Zero
        /\ pcS = [s \in Sources |-> "send"] /\ sends = Zero
        /\ gone = Zero /\ heard = Zero
----------------------------------------------------------------------------
(* inet_udp_rcver.c                                                        *)

Bind == /\ pcR = "bind" /\ pcR' \in {"recv", "exit"}
        /\ UNCHANGED <<saddr_c, asked, answers, pcS, sends, gone, heard>>

\* Slip: the address of an earlier datagram stays.
Recvfrom_OldAddress(s) ==
  /\ pcR = "recv" /\ pcR' = "send" /\ asked[s] > 0
  /\ asked' = [asked EXCEPT ![s] = @ - 1]
  /\ UNCHANGED <<saddr_c, answers, pcS, sends, gone, heard>>

Recvfrom(s) == /\ pcR = "recv" /\ pcR' = "send" /\ asked[s] > 0
               /\ asked' = [asked EXCEPT ![s] = @ - 1] /\ saddr_c' = s
               /\ UNCHANGED <<answers, pcS, sends, gone, heard>>

\* The answer arrives, or is lost on the way or in a full buffer.
Sendto == /\ pcR = "send" /\ pcR' = "recv"
          /\ \/ /\ answers[saddr_c] < Buffer
                /\ answers' = [answers EXCEPT ![saddr_c] = @ + 1]
                /\ UNCHANGED gone
             \/ /\ gone' = [gone EXCEPT ![saddr_c] = @ + 1]
                /\ UNCHANGED answers
          /\ UNCHANGED <<saddr_c, asked, pcS, sends, heard>>

Receiver == Bind \/ Sendto \/ \E s \in Sources : Recvfrom(s)
----------------------------------------------------------------------------
(* inet_udp_snder.c, inet_udp_bcast.c                                      *)

Datagram(s, next) ==
  /\ pcS[s] = "send" /\ sends[s] < Rounds
  /\ pcS' = [pcS EXCEPT ![s] = next]
  /\ sends' = [sends EXCEPT ![s] = @ + 1]
  /\ \/ /\ pcR \in {"recv", "send"} /\ Total(asked) < Buffer
        /\ asked' = [asked EXCEPT ![s] = @ + 1] /\ UNCHANGED gone
     \/ gone' = [gone EXCEPT ![s] = @ + 1] /\ UNCHANGED asked
  /\ UNCHANGED <<pcR, saddr_c, answers, heard>>

Send(s) == Datagram(s, "recv")
Broadcast == Datagram(Broadcaster, "send")

\* recvfrom waits for ever when the datagram or its answer is lost.
Answer(s) == /\ pcS[s] = "recv" /\ answers[s] > 0
             /\ pcS' = [pcS EXCEPT ![s] = "send"]
             /\ answers' = [answers EXCEPT ![s] = @ - 1]
             /\ heard' = [heard EXCEPT ![s] = @ + 1]
             /\ UNCHANGED <<pcR, saddr_c, asked, sends, gone>>

----------------------------------------------------------------------------
Next == \/ Receiver \/ Broadcast
        \/ \E s \in UdpSenders : Send(s) \/ Answer(s)
Spec == Init /\ [][Next]_vars
----------------------------------------------------------------------------
\* Every datagram is at the receiver, in its hand, lost, or answered to whom it
\* came from: a sender that waits for an answer that will not come has lost one,
\* whatever other senders and the broadcaster do (recvfrom, sendto).
AnswerComes ==
  \A s \in Sources :
    sends[s] = asked[s] + (IF pcR = "send" /\ saddr_c = s THEN 1 ELSE 0)
                 + answers[s] + gone[s] + heard[s]
============================================================================
