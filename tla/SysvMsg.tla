------------------------------ MODULE SysvMsg ------------------------------
(***************************************************************************)
(* 5.ipc/xsi_sysv/sysv_msg.c and sysv_msg_regex.c over lib_sysv_msg.c:     *)
(* senders that send the lines of a file as messages with a type, receivers*)
(* that receive those of one type, on the queue that a key names.  Whoever *)
(* comes to the end of main() removes the queue.                           *)
(***************************************************************************)
EXTENDS Naturals, SequencesExt

CONSTANTS MsgSenders, MsgReceivers,
          Types,       \* types of messages; 0 stands for those msgsnd refuses
          Capacity,    \* messages in a queue
          MaxLines,    \* bound: lines of a file
          MaxQueues    \* bound: queues that are made

Users == MsgSenders \cup MsgReceivers
Ids == 1 .. MaxQueues

VARIABLES regex,    \* which of the two programs
          mtype,    \* the type each receiver asks for, 0 for all
          named,    \* the queue the key names, or 0
          made,     \* queues that have been made
          queue,    \* the messages in each queue
          pc,       \* "get", "attach", "send", "getchar", "receive", "asleep",
                    \* "remove", "end"
          msg_id,   \* the queue each program has got
          line,     \* lines each sender has read
          taken,    \* history: messages received
          dropped   \* history: messages removed with their queue

vars == <<regex, mtype, named, made, queue, pc, msg_id, line, taken, dropped>>

Init == /\ regex \in BOOLEAN /\ mtype \in [MsgReceivers -> Types]
        /\ named = 0 /\ made = 0 /\ queue = [q \in Ids |-> <<>>]
        /\ pc = [p \in Users |-> "get"] /\ msg_id = [p \in Users |-> 0]
        /\ line = [s \in MsgSenders |-> 0]
        /\ taken = {} /\ dropped = {}

Goto(p, from, to) == /\ pc[p] = from /\ pc' = [pc EXCEPT ![p] = to]
                     /\ UNCHANGED <<regex, mtype>>
----------------------------------------------------------------------------
(* sysv_msgget                                                             *)

Role(p) == IF p \in MsgSenders THEN "send" ELSE "receive"

Make(p) == /\ made < MaxQueues /\ Goto(p, "get", Role(p))
           /\ made' = made + 1 /\ named' = made'
           /\ msg_id' = [msg_id EXCEPT ![p] = made']
           /\ UNCHANGED <<queue, line, taken, dropped>>

\* Slip: a new queue for every program.
Create_Private(p) == Make(p)

Create(p) == named = 0 /\ Make(p)

Exists(p) == /\ named # 0 /\ Goto(p, "get", "attach")
             /\ UNCHANGED <<named, made, queue, msg_id, line, taken, dropped>>

\* The queue may be gone again: the program ends.
Attach(p) == /\ Goto(p, "attach", IF named = 0 THEN "end" ELSE Role(p))
             /\ msg_id' = [msg_id EXCEPT ![p] = named]
             /\ UNCHANGED <<named, made, queue, line, taken, dropped>>
----------------------------------------------------------------------------
(* start_msq_sender                                                        *)

Wants(r, t) == mtype[r] \in {0, t}
Asleep(q, t) == {r \in MsgReceivers :
                   pc[r] = "asleep" /\ msg_id[r] = q /\ Wants(r, t)}

ReadLine(s) == line[s] < MaxLines /\ line' = [line EXCEPT ![s] = @ + 1]

\* The kernel looks for room first, and then for a receiver that sleeps for this
\* type, which gets the message at once.
Send(s, t) ==
  LET q == msg_id[s]
      message == [from |-> s, number |-> line'[s], type |-> t, at |-> q]
  IN  /\ pc[s] = "send" /\ ReadLine(s) /\ t # 0 /\ named = q
      /\ Len(queue[q]) < Capacity
      /\ \/ /\ \E r \in Asleep(q, t) : pc' = [pc EXCEPT ![r] = "receive"]
            /\ taken' = taken \cup {message} /\ UNCHANGED queue
         \/ /\ Asleep(q, t) = {}
            /\ queue' = [queue EXCEPT ![q] = Append(@, message)]
            /\ UNCHANGED <<pc, taken>>
      /\ UNCHANGED <<regex, mtype, named, made, msg_id, dropped>>

\* A type that is not positive, a full queue (IPC_NOWAIT) or none: break.
SendFails(s, t) ==
  LET q == msg_id[s]
  IN  /\ Goto(s, "send", "getchar") /\ ReadLine(s)
      /\ t = 0 \/ named # q \/ Len(queue[q]) = Capacity
      /\ UNCHANGED <<named, made, queue, msg_id, taken, dropped>>

\* A line without a match (sysv_msg_regex.c).
Skip(s) == /\ regex /\ Goto(s, "send", "send") /\ ReadLine(s)
           /\ UNCHANGED <<named, made, queue, msg_id, taken, dropped>>

\* The file ends, or cannot be opened.
FileEnd(s) == /\ Goto(s, "send", "getchar")
              /\ UNCHANGED <<named, made, queue, msg_id, line, taken, dropped>>

\* A key, or Ctrl-C.
Getchar(s) == /\ Goto(s, "getchar", "remove") \/ Goto(s, "getchar", "end")
              /\ UNCHANGED <<named, made, queue, msg_id, line, taken, dropped>>
----------------------------------------------------------------------------
(* start_msq_receiver                                                      *)

Matches(r) == {k \in DOMAIN queue[msg_id[r]] :
                 Wants(r, queue[msg_id[r]][k].type)}

\* The first message of the type.
Receive(r) ==
  LET q == msg_id[r]
  IN  /\ Goto(r, "receive", "receive")
      /\ \E k \in Matches(r) :
           /\ \A l \in Matches(r) : k <= l
           /\ queue' = [queue EXCEPT ![q] = RemoveAt(@, k)]
           /\ taken' = taken \cup {queue[q][k]}
      /\ UNCHANGED <<named, made, msg_id, line, dropped>>

ReceiveSleeps(r) ==
  /\ Goto(r, "receive", "asleep") /\ Matches(r) = {} /\ named = msg_id[r]
  /\ UNCHANGED <<named, made, queue, msg_id, line, taken, dropped>>

\* The queue is gone, EINVAL, or it went while the receiver slept, EIDRM.
ReceiveFails(r) ==
  /\ Goto(r, "receive", "remove") /\ named # msg_id[r]
  /\ UNCHANGED <<named, made, queue, msg_id, line, taken, dropped>>
----------------------------------------------------------------------------
\* sysv_msgrm, and the sleepers on the queue return with an error.  An
\* identifier that another program has removed is refused.
sysv_msgrm(p) ==
  LET q == msg_id[p]
  IN  /\ pc[p] = "remove"
      /\ pc' = [u \in Users |->
                  IF u = p THEN "end"
                  ELSE IF pc[u] = "asleep" /\ msg_id[u] = q THEN "receive"
                  ELSE pc[u]]
      /\ IF named = q THEN /\ named' = 0 /\ dropped' = dropped \cup ToSet(queue[q])
                           /\ queue' = [queue EXCEPT ![q] = <<>>]
                      ELSE UNCHANGED <<named, queue, dropped>>
      /\ UNCHANGED <<regex, mtype, made, msg_id, line, taken>>

Program(p) == Create(p) \/ Exists(p) \/ Attach(p) \/ sysv_msgrm(p)
Sender(s) == \/ \E t \in Types : Send(s, t) \/ SendFails(s, t)
             \/ Skip(s) \/ FileEnd(s)
Receiver(r) == Receive(r) \/ ReceiveSleeps(r) \/ ReceiveFails(r)

Running == \/ \E p \in Users : Program(p)
           \/ \E s \in MsgSenders : Sender(s)
           \/ \E r \in MsgReceivers : Receiver(r)
Next == Running \/ \E s \in MsgSenders : Getchar(s)
Spec == Init /\ [][Next]_vars
----------------------------------------------------------------------------
Queued == UNION {ToSet(queue[q]) : q \in Ids}

\* Senders and receivers that still have a queue have the same one, no message
\* is in two places or received twice, none overtakes another one of its type
\* from the same sender, and nobody sleeps beside a message it waits for
\* (sysv_msgget, msgsnd, msgrcv, sysv_msgrm).
MessagesMeet ==
  /\ \A q \in Ids \ {named} : queue[q] = <<>>
  /\ Queued \cap (taken \cup dropped) = {} /\ taken \cap dropped = {}
  /\ \A m \in Queued, t \in taken :
       m.from = t.from /\ m.type = t.type /\ m.at = t.at => t.number < m.number
  /\ \A r \in MsgReceivers :
       pc[r] = "asleep" => Matches(r) = {} /\ msg_id[r] = named

\* In the end a receiver sleeps on a queue that nobody has removed, or it and
\* everybody else has seen that the queue is gone.
MsgOver == \A p \in Users : \/ pc[p] \in {"end", "getchar"}
                            \/ pc[p] = "asleep" /\ msg_id[p] = named
                            \/ pc[p] = "get" /\ made = MaxQueues
============================================================================
