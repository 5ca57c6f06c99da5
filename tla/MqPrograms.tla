----------------------------- MODULE MqPrograms -----------------------------
(***************************************************************************)
(* posix_msg.c and posix_msg_sigev.c of 5.ipc/posix: programs started as   *)
(* sender, receiver or unlink on one POSIX message queue.  The receiver of *)
(* the second asks for a signal before it receives.                        *)
(***************************************************************************)
EXTENDS Naturals

CONSTANTS Senders, Receivers,
          MaxMsg,    \* mq_maxmsg
          Lines,     \* bound: lines of a sender's file
          MaxQueues, \* bound: queues that get the name, one after the other
          NoProc

Programs == Senders \cup Receivers
Ids == 1 .. MaxQueues

VARIABLES notifies,   \* posix_msg_sigev.c
          name,       \* the queue that has the name, 0 for none
          made,       \* queues that have been made
          curmsgs,    \* messages in each queue
          registered, \* who is to be notified of a message, for each queue
          pc,         \* "open", "attach", "send", "notify", "receive",
                      \* "asleep", "print", "end"
          mq_fd,      \* the queue each program has opened
          sent        \* lines each sender has sent

vars == <<notifies, name, made, curmsgs, registered, pc, mq_fd, sent>>

Init == /\ notifies \in BOOLEAN /\ name = 0 /\ made = 0
        /\ curmsgs = [q \in Ids |-> 0]
        /\ registered = [q \in Ids |-> NoProc]
        /\ pc = [p \in Programs |-> "open"] /\ mq_fd = [p \in Programs |-> 0]
        /\ sent = [s \in Senders |-> 0]

Goto(p, from, to) == pc[p] = from /\ pc' = [pc EXCEPT ![p] = to]
----------------------------------------------------------------------------
(* main                                                                    *)

Role(p) == IF p \in Senders THEN "send"
           ELSE IF notifies THEN "notify" ELSE "receive"

Create(p) == /\ name = 0 /\ made < MaxQueues /\ Goto(p, "open", Role(p))
             /\ made' = made + 1 /\ name' = made'
             /\ mq_fd' = [mq_fd EXCEPT ![p] = made']
             /\ UNCHANGED <<notifies, curmsgs, registered, sent>>

Exists(p) == /\ name # 0 /\ Goto(p, "open", "attach")
             /\ UNCHANGED <<notifies, name, made, curmsgs, registered, mq_fd,
                            sent>>

\* The name may be gone again: the program ends.
Attach(p) == /\ Goto(p, "attach", IF name = 0 THEN "end" ELSE Role(p))
             /\ mq_fd' = [mq_fd EXCEPT ![p] = name]
             /\ UNCHANGED <<notifies, name, made, curmsgs, registered, sent>>

Unlink == /\ name # 0 /\ name' = 0
          /\ UNCHANGED <<notifies, made, curmsgs, registered, pc, mq_fd, sent>>
----------------------------------------------------------------------------
(* start_msq_sender                                                        *)

Asleep(q) == {r \in Receivers : pc[r] = "asleep" /\ mq_fd[r] = q}

\* A receiver that sleeps gets the message.  In an empty queue it notifies whom
\* it may, once.
Send(s) ==
  LET q == mq_fd[s]
  IN  /\ pc[s] = "send" /\ sent[s] < Lines
      /\ sent' = [sent EXCEPT ![s] = @ + 1]
      /\ \/ /\ \E r \in Asleep(q) : pc' = [pc EXCEPT ![r] = "print"]
            /\ UNCHANGED <<curmsgs, registered>>
         \/ /\ Asleep(q) = {} /\ curmsgs[q] < MaxMsg
            /\ curmsgs' = [curmsgs EXCEPT ![q] = @ + 1]
            /\ registered' = IF curmsgs[q] = 0
                             THEN [registered EXCEPT ![q] = NoProc]
                             ELSE registered
            /\ UNCHANGED pc
      /\ UNCHANGED <<notifies, name, made, mq_fd>>

\* The end of the file.  The key press and mq_close behind it change nothing here.
SendEnd(s) == /\ sent[s] = Lines /\ Goto(s, "send", "end")
              /\ UNCHANGED <<notifies, name, made, curmsgs, registered, mq_fd,
                             sent>>
----------------------------------------------------------------------------
(* start_msq_receiver                                                      *)

\* Slip: EBUSY ends the receiver as other errors do.
Notify_BusyEnds(r) ==
  LET q == mq_fd[r]
      free == registered[q] = NoProc
  IN  /\ Goto(r, "notify", IF free THEN "receive" ELSE "end")
      /\ registered' = IF free THEN [registered EXCEPT ![q] = r] ELSE registered
      /\ UNCHANGED <<notifies, name, made, curmsgs, mq_fd, sent>>

\* mq_notify; EBUSY is no reason not to receive.
Notify(r) == LET q == mq_fd[r]
             IN  /\ Goto(r, "notify", "receive")
                 /\ registered' = IF registered[q] = NoProc
                                  THEN [registered EXCEPT ![q] = r]
                                  ELSE registered
                 /\ UNCHANGED <<notifies, name, made, curmsgs, mq_fd, sent>>

Receive(r) == LET q == mq_fd[r]
              IN  /\ Goto(r, "receive", "print") /\ curmsgs[q] > 0
                  /\ curmsgs' = [curmsgs EXCEPT ![q] = @ - 1]
                  /\ UNCHANGED <<notifies, name, made, registered, mq_fd, sent>>

ReceiveSleeps(r) == /\ Goto(r, "receive", "asleep") /\ curmsgs[mq_fd[r]] = 0
                    /\ UNCHANGED <<notifies, name, made, curmsgs, registered,
                                   mq_fd, sent>>

\* The message is printed, and the loop goes on.
Printed(r) == /\ Goto(r, "print", Role(r))
              /\ UNCHANGED <<notifies, name, made, curmsgs, registered, mq_fd,
                             sent>>
----------------------------------------------------------------------------
Program(p) == Create(p) \/ Exists(p) \/ Attach(p)
Sender(s) == Send(s) \/ SendEnd(s)
Receiver(r) == Notify(r) \/ Receive(r) \/ ReceiveSleeps(r) \/ Printed(r)

Running == \/ \E p \in Programs : Program(p)
           \/ \E s \in Senders : Sender(s)
           \/ \E r \in Receivers : Receiver(r)
Next == Running \/ Unlink
Spec == Init /\ [][Next]_vars
FairSpec == Spec /\ WF_vars(Running)
----------------------------------------------------------------------------
\* In the end every receiver that has a queue sleeps beside an empty one, and a
\* sender is left only at a full queue that nobody receives from: programs that
\* opened the name before and behind an unlink never meet.
MqOver ==
  /\ \A r \in Receivers : \/ pc[r] = "end"
                          \/ pc[r] = "asleep" /\ curmsgs[mq_fd[r]] = 0
                          \/ pc[r] = "open" /\ made = MaxQueues
  /\ \A s \in Senders :
       pc[s] = "send" => \A r \in Receivers : mq_fd[r] # mq_fd[s]
MqEnds == <>[]MqOver
============================================================================
