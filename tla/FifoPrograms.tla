---------------------------- MODULE FifoPrograms ----------------------------
(***************************************************************************)
(* fifo_read.c, fifo_write.c and fifo_write_sigpipe.c of 6.io_interface:   *)
(* programs that are started in any order on one FIFO.  The last one       *)
(* installs a handler for SIGPIPE and writes every line twice.             *)
(***************************************************************************)
EXTENDS Naturals, FiniteSets

CONSTANTS FifoReaders, PlainWriters, HandlingWriters,
          Capacity,   \* lines the pipe holds
          MaxLines    \* bound: lines typed into a writer

Writers == PlainWriters \cup HandlingWriters

VARIABLES pc,        \* "open"; "read", "eof"; "getline", "write", "again";
                     \* "end", "killed"
          pipe,      \* lines in the pipe
          lines,     \* lines each writer has been given
          late,      \* of these, the ones written when all readers had seen
                     \* the end
          dropped    \* history: other lines lost with the pipe

vars == <<pc, pipe, lines, dropped, late>>

Programs == FifoReaders \cup Writers
Open(set) == {p \in set : pc[p] \notin {"open", "end", "killed"}}

Init == /\ pc = [p \in Programs |-> "open"] /\ pipe = 0
        /\ lines = [w \in Writers |-> 0] /\ dropped = 0 /\ late = 0

Goto(p, from, to) == pc[p] = from /\ pc' = [pc EXCEPT ![p] = to]
----------------------------------------------------------------------------
(* open waits for the other side.  What is in the pipe goes with the last  *)
(* program that has it open.                                               *)

Meet(r, w) == /\ pc[r] = "open" \/ r \in Open(FifoReaders)
              /\ pc[w] = "open" \/ w \in Open(Writers)
              /\ pc[r] = "open" \/ pc[w] = "open"
              /\ pc' = [pc EXCEPT ![r] = IF @ = "open" THEN "read" ELSE @,
                                  ![w] = IF @ = "open" THEN "getline" ELSE @]
              /\ UNCHANGED <<pipe, lines, dropped, late>>

Leave(p, from, to) ==
  /\ Goto(p, from, to)
  /\ IF Open(Programs) = {p} THEN /\ pipe' = 0 /\ late' = 0
                               /\ dropped' = dropped + (pipe - late)
                          ELSE UNCHANGED <<pipe, dropped, late>>
  /\ UNCHANGED lines
----------------------------------------------------------------------------
(* fifo_read.c                                                             *)

Read(r) == /\ Goto(r, "read", "read") /\ pipe > 0 /\ pipe' = 0 /\ late' = 0
           /\ UNCHANGED <<lines, dropped>>

\* Slip: that the writers have gone is looked at before what they left.
ReadZero_Early(r) == /\ Goto(r, "read", "eof") /\ Open(Writers) = {}
                     /\ UNCHANGED <<pipe, lines, dropped, late>>

ReadZero(r) == /\ Goto(r, "read", "eof") /\ pipe = 0 /\ Open(Writers) = {}
               /\ UNCHANGED <<pipe, lines, dropped, late>>

ReaderExit(r) == Leave(r, "eof", "end")

Reader(r) == Read(r) \/ ReadZero(r) \/ ReaderExit(r)
----------------------------------------------------------------------------
(* fifo_write.c, fifo_write_sigpipe.c                                      *)

Getline(w) == /\ Goto(w, "getline", "write") /\ lines[w] < MaxLines
              /\ lines' = [lines EXCEPT ![w] = @ + 1]
              /\ UNCHANGED <<pipe, dropped, late>>

WriterExit(w) == Leave(w, "getline", "end")

NextWrite(w) == IF pc[w] = "write" /\ w \in HandlingWriters THEN "again"
                                                            ELSE "getline"

Write(w) == /\ pc[w] \in {"write", "again"} /\ Goto(w, pc[w], NextWrite(w))
            /\ Open(FifoReaders) # {} /\ pipe < Capacity
            /\ pipe' = pipe + 1
            /\ late' = late + IF \A r \in Open(FifoReaders) : pc[r] = "eof"
                              THEN 1 ELSE 0
            /\ UNCHANGED <<lines, dropped>>

\* SIGPIPE: the handler returns, and write fails, which nobody looks at.
WriteFails(w) == /\ w \in HandlingWriters /\ pc[w] \in {"write", "again"}
                 /\ Open(FifoReaders) = {} /\ Goto(w, pc[w], NextWrite(w))
                 /\ UNCHANGED <<pipe, lines, dropped, late>>

WriterKilled(w) == /\ w \in PlainWriters /\ Open(FifoReaders) = {}
                   /\ Leave(w, "write", "killed")

Writer(w) == Write(w) \/ WriteFails(w) \/ WriterKilled(w)

\* What whoever sits at the terminal of a writer does, or does not.
Typed(w) == Getline(w) \/ WriterExit(w)
----------------------------------------------------------------------------
Running == \/ \E r \in FifoReaders, w \in Writers : Meet(r, w)
           \/ \E r \in FifoReaders : Reader(r)
           \/ \E w \in Writers : Writer(w)
Next == Running \/ \E w \in Writers : Typed(w)
Spec == Init /\ [][Next]_vars
FairSpec == Spec /\ WF_vars(Running)
----------------------------------------------------------------------------
\* A line that was written is read, unless a reader that has seen the end of the
\* writers before closes the FIFO over it (fifo_read.c:39-42): readers and
\* writers may come and go in any order.
LinesRead == dropped = 0

\* No program is left but one that waits in open for the other side, a writer
\* that waits for a line, and beside it readers that have read all there is.
FifoOver ==
  \A p \in Programs :
    \/ pc[p] \in {"open", "end", "killed", "getline"}
    \/ (pc[p] = "read" /\ pipe = 0 /\ Open(Writers) # {})
FifoEnds == <>[]FifoOver
============================================================================
