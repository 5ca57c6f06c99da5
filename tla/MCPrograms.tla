----------------------------- MODULE MCPrograms -----------------------------
(***************************************************************************)
(* The programs that are small enough to be checked together, one of them  *)
(* at a time (program), with the variables of the others at rest.          *)
(***************************************************************************)
EXTENDS Naturals, FiniteSets

CONSTANTS
  NumThreads, MaxSteps, Procs, PerProcess,                \* ThreadPrograms
  Clients, NoClient, PoolFiles, MaxPool,                  \* PreforkServer
  RtsFiles, MaxSignals,                                   \* RtsServer
  BufSize, MaxBytes,                                      \* OobServer
  Workers, MaxJobs,                                       \* RtsNotify
  Pids,                                                   \* SignalPool
  Permits, MaxChild, Faulty, MaxRuns,                     \* PosixCounting
  Senders, Receivers, MaxMsg, Lines, MaxQueues,           \* MqPrograms
  FifoReaders, PlainWriters, HandlingWriters, Capacity, MaxLines,
                                                          \* FifoPrograms
  UdpSenders, Broadcaster, Rounds, UdpBuffer,             \* UdpPrograms
  MsgSenders, MsgReceivers, MsgTypes                      \* SysvMsg

VARIABLES
  program,
  main, next, th, mutex, kind, cancelled, spinlock, flag_spin, seen, variant,
  owner, key, heap, buf, out, num_steps, clock, sum, shm, withC, at, place,
  contended, prev, disturbed, unwoken,                    \* ThreadPrograms
  maxFiles, sock, rx, backlog,                            \* NetClients
  family, pf_main, reuse, pf_i, pf_pc, conn, leaked, big, echoed, refused,
                                                          \* PreforkServer
  rts_pc, fd, masked, async, listening, atListener, queued, unsignalled,
  early,                                                  \* RtsServer
  strm, urgent, link, oob_sent, cum, missed, oob_pc,      \* OobServer
  rn_main, rn_masked, born, waiter, rn_pc, jobs, rn_queued, from, printed,
  fate,                                                   \* RtsNotify
  pcP, started, is_refork, sp_child, report, sigchld, surplus, \* SignalPool
  nameless, exists, value, run, i, pcM, child, lost,      \* PosixCounting
  notifies, name, made, curmsgs, registered, mq_pc, mq_fd, sent, \* MqPrograms
  ff_pc, pipe, lines, dropped, late,                      \* FifoPrograms
  pcR, saddr_c, asked, answers, pcS, sends, gone, heard,  \* UdpPrograms
  regex, mtype, named, sm_made, queue, sm_pc, msg_id, line, taken, sm_dropped,
                                                          \* SysvMsg
  style, sg_pc, sg_masked, pending, found, sg_fate, owed, sg_late
                                                          \* SignalThread

Threads == INSTANCE ThreadPrograms
Prefork == INSTANCE PreforkServer WITH
             FileLimits <- PoolFiles, variant <- family,
             pcM <- pf_main, i <- pf_i, pc <- pf_pc
Rts == INSTANCE RtsServer WITH FileLimits <- RtsFiles, pc <- rts_pc
Oob == INSTANCE OobServer WITH pc <- oob_pc, sent <- oob_sent
Notify == INSTANCE RtsNotify WITH
            pc <- rn_pc, pcM <- rn_main, masked <- rn_masked,
            queued <- rn_queued
Pool == INSTANCE SignalPool WITH child <- sp_child
Counting == INSTANCE PosixCounting
Mq == INSTANCE MqPrograms WITH NoProc <- NoClient, pc <- mq_pc
Fifo == INSTANCE FifoPrograms WITH pc <- ff_pc
Udp == INSTANCE UdpPrograms WITH Buffer <- UdpBuffer
Msg == INSTANCE SysvMsg WITH
         made <- sm_made, pc <- sm_pc, dropped <- sm_dropped, Types <- MsgTypes
Signal == INSTANCE SignalThread WITH
            pc <- sg_pc, masked <- sg_masked, fate <- sg_fate, late <- sg_late

\* What the constants have to be.
CountingFits == /\ Permits \in Nat \ {0} /\ MaxChild \in Nat \ {0}
                /\ MaxRuns \in Nat \ {0}
ASSUME ProgramsAssumption ==
  /\ Threads!ThereAreThreads /\ NumThreads > 2  \* thread 1 cancels thread 2
  /\ MaxSteps \in Nat
  /\ Clients # {} /\ NoClient \notin Clients
  /\ PoolFiles \subseteq Nat /\ MaxPool \in Nat \ {0}
  /\ RtsFiles \subseteq Nat /\ MaxSignals \in Nat
  /\ BufSize \in Nat \ {0}
  /\ IsFiniteSet(Pids)
  /\ CountingFits
  /\ MaxQueues \in Nat
  /\ FifoReaders \cap (PlainWriters \cup HandlingWriters) = {}

threadVars == <<main, next, th, mutex, kind, cancelled, spinlock, flag_spin,
                seen, variant, owner, key, heap, buf, out, num_steps, clock,
                sum, shm, withC, at, place, contended, prev, disturbed,
                unwoken>>
netVars == <<maxFiles, sock, rx, backlog>>
preforkVars == <<family, pf_main, reuse, pf_i, pf_pc, conn, leaked, big,
                 echoed, refused>>
rtsVars == <<rts_pc, fd, masked, async, listening, atListener, queued,
             unsignalled, early>>
oobVars == <<strm, urgent, link, oob_sent, cum, missed, oob_pc>>
notifyVars == <<rn_main, rn_masked, born, waiter, rn_pc, jobs, rn_queued, from,
                printed, fate>>
sigPoolVars == <<pcP, started, is_refork, sp_child, report, sigchld, surplus>>
countingVars == <<nameless, exists, value, run, i, pcM, child, lost>>
mqVars == <<notifies, name, made, curmsgs, registered, mq_pc, mq_fd, sent>>
fifoVars == <<ff_pc, pipe, lines, dropped, late>>
udpVars == <<pcR, saddr_c, asked, answers, pcS, sends, gone, heard>>
msgVars == <<regex, mtype, named, sm_made, queue, sm_pc, msg_id, line, taken,
             sm_dropped>>
signalVars == <<style, sg_pc, sg_masked, pending, found, sg_fate, owed, sg_late>>
vars == <<program, threadVars, netVars, preforkVars, rtsVars, oobVars,
          notifyVars, sigPoolVars, countingVars, mqVars, fifoVars, udpVars,
          msgVars, signalVars>>
----------------------------------------------------------------------------
ThreadNames == {"mutex", "barrier", "spinlock", "sum_strnum", "pi", "pshared"}
Others == {"prefork", "rts", "oob", "notify", "pool", "counting", "mq", "fifo",
           "udp", "msg", "signal"}

Rest == 0

RestOfNet == maxFiles = Rest /\ sock = Rest /\ rx = Rest /\ backlog = Rest
RestOfPrefork ==
  /\ family = Rest /\ pf_main = Rest /\ reuse = Rest /\ pf_i = Rest
  /\ pf_pc = Rest /\ conn = Rest /\ leaked = Rest /\ big = Rest
  /\ echoed = Rest /\ refused = Rest
RestOfRts ==
  /\ rts_pc = Rest /\ fd = Rest /\ masked = Rest /\ async = Rest
  /\ listening = Rest /\ atListener = Rest /\ queued = Rest
  /\ unsignalled = Rest /\ early = Rest
RestOfOob ==
  /\ strm = Rest /\ urgent = Rest /\ link = Rest /\ oob_sent = Rest
  /\ cum = Rest /\ missed = Rest /\ oob_pc = Rest
RestOfNotify ==
  /\ rn_main = Rest /\ rn_masked = Rest /\ born = Rest /\ waiter = Rest
  /\ rn_pc = Rest /\ jobs = Rest /\ rn_queued = Rest /\ from = Rest
  /\ printed = Rest /\ fate = Rest
RestOfPool ==
  /\ pcP = Rest /\ started = Rest /\ is_refork = Rest /\ sp_child = Rest
  /\ report = Rest /\ sigchld = Rest /\ surplus = Rest
RestOfCounting ==
  /\ nameless = Rest /\ exists = Rest /\ value = Rest /\ run = Rest /\ i = Rest
  /\ pcM = Rest /\ child = Rest /\ lost = Rest
RestOfMq ==
  /\ notifies = Rest /\ name = Rest /\ made = Rest /\ curmsgs = Rest
  /\ registered = Rest /\ mq_pc = Rest /\ mq_fd = Rest /\ sent = Rest
RestOfFifo ==
  /\ ff_pc = Rest /\ pipe = Rest /\ lines = Rest /\ dropped = Rest /\ late = Rest
RestOfUdp ==
  /\ pcR = Rest /\ saddr_c = Rest /\ asked = Rest /\ answers = Rest
  /\ pcS = Rest /\ sends = Rest /\ gone = Rest /\ heard = Rest
RestOfMsg ==
  /\ regex = Rest /\ mtype = Rest /\ named = Rest /\ sm_made = Rest
  /\ queue = Rest /\ sm_pc = Rest /\ msg_id = Rest /\ line = Rest
  /\ taken = Rest /\ sm_dropped = Rest
RestOfSignal ==
  /\ style = Rest /\ sg_pc = Rest /\ sg_masked = Rest /\ pending = Rest
  /\ found = Rest /\ sg_fate = Rest /\ owed = Rest /\ sg_late = Rest

Init ==
  /\ program \in ThreadNames \cup Others
  /\ IF program \in ThreadNames THEN Threads!Init ELSE Threads!AtRest
  /\ CASE program = "prefork" -> Prefork!Init /\ RestOfRts
       [] program = "rts"     -> Rts!Init /\ RestOfPrefork
       [] OTHER               -> RestOfNet /\ RestOfPrefork /\ RestOfRts
  /\ IF program = "oob" THEN Oob!Init ELSE RestOfOob
  /\ IF program = "notify" THEN Notify!Init ELSE RestOfNotify
  /\ IF program = "pool" THEN Pool!Init ELSE RestOfPool
  /\ IF program = "counting" THEN Counting!Init ELSE RestOfCounting
  /\ IF program = "mq" THEN Mq!Init ELSE RestOfMq
  /\ IF program = "fifo" THEN Fifo!Init ELSE RestOfFifo
  /\ IF program = "udp" THEN Udp!Init ELSE RestOfUdp
  /\ IF program = "msg" THEN Msg!Init ELSE RestOfMsg
  /\ IF program = "signal" THEN Signal!Init ELSE RestOfSignal
----------------------------------------------------------------------------
\* The steps of one program, with those of the others at rest.
Only(p) ==
  /\ program = p /\ UNCHANGED program
  /\ IF p \in ThreadNames THEN TRUE ELSE UNCHANGED threadVars
  /\ IF p \in {"prefork", "rts"} THEN TRUE ELSE UNCHANGED netVars
  /\ IF p = "prefork" THEN TRUE ELSE UNCHANGED preforkVars
  /\ IF p = "rts" THEN TRUE ELSE UNCHANGED rtsVars
  /\ IF p = "oob" THEN TRUE ELSE UNCHANGED oobVars
  /\ IF p = "notify" THEN TRUE ELSE UNCHANGED notifyVars
  /\ IF p = "pool" THEN TRUE ELSE UNCHANGED sigPoolVars
  /\ IF p = "counting" THEN TRUE ELSE UNCHANGED countingVars
  /\ IF p = "mq" THEN TRUE ELSE UNCHANGED mqVars
  /\ IF p = "fifo" THEN TRUE ELSE UNCHANGED fifoVars
  /\ IF p = "udp" THEN TRUE ELSE UNCHANGED udpVars
  /\ IF p = "msg" THEN TRUE ELSE UNCHANGED msgVars
  /\ IF p = "signal" THEN TRUE ELSE UNCHANGED signalVars

\* What a program does by itself when it must come to an end.
Running ==
  \/ program \in ThreadNames /\ Only(program) /\ Threads!Running
  \/ Only("counting") /\ Counting!Running
  \/ Only("mq") /\ Mq!Running
  \/ Only("fifo") /\ Fifo!Running
  \/ Only("msg") /\ Msg!Running

PoolStep == Only("prefork") /\ Prefork!Server

\* What nobody is promised, and the servers of which no end is asked.
Outside ==
  \/ Only("pshared") /\ Threads!Killed
  \/ Only("counting") /\ Counting!Failure
  \/ Only("mq") /\ Mq!Unlink
  \/ /\ Only("prefork")
     /\ Prefork!Client \/ \E k \in Prefork!Idx : Prefork!ChildDies(k)
  \/ Only("rts") /\ Rts!Next
  \/ Only("oob") /\ Oob!Next
  \/ Only("notify") /\ Notify!Next
  \/ Only("pool") /\ Pool!Next
  \/ Only("udp") /\ Udp!Next
  \/ Only("fifo") /\ \E w \in Fifo!Writers : Fifo!Typed(w)
  \/ Only("msg") /\ \E s \in MsgSenders : Msg!Getchar(s)
  \/ Only("signal") /\ Signal!Next

Next == Running \/ PoolStep \/ Outside

\* The children of the pool run, each for itself, and so does main().
poolVars == <<netVars, preforkVars>>
Spec == Init /\ [][Next]_vars
FairSpec ==
  /\ Spec /\ WF_vars(Running)
  /\ WF_poolVars(program = "prefork" /\ Prefork!Main)
  /\ \A k \in Prefork!Idx : WF_poolVars(program = "prefork" /\ Prefork!Child(k))
----------------------------------------------------------------------------
\* Every program keeps its variables in their ranges: among them the index of
\* the thread that is created or joined next, the children of the servers and
\* what they hold, cum_recv, and the signals of io_rts.c.
TypeOK ==
  /\ program \in ThreadNames => Threads!TypeOK
  /\ program = "prefork" => Prefork!PreforkTypeOK
  /\ program = "rts" => Rts!RtsTypeOK
  /\ program = "oob" => Oob!TypeOK

\* The critical sections of mutex_type.c, mutex_robust.c and cleanup_mutex.c.
MutexExclusive == program \in ThreadNames => Threads!MutexExclusive

\* No thread is cancelled that main() has joined (mutex_robust.c).
CancelBeforeJoin == program \in ThreadNames => Threads!CancelBeforeJoin

\* What threads compute beside each other comes out right: no increment of
\* spinlock.c is lost, every thread of sum_strnum_tls.c and
\* sum_strnum_tls_gcc.c prints its own sum, and the integration leaves two steps
\* out, and no others (pthread_pi_cputime.c).
ThreadResults == program \in ThreadNames =>
  Threads!FlagCounts /\ Threads!PrintsOwn /\ Threads!StepsCounted

\* sum_strnum_tls.c: no buffer is left when main() returns.
BuffersFreed == program \in ThreadNames => Threads!BuffersFreed

\* mutex_pshared.c: the last owner is seen whole by every process.
PairWhole == program \in ThreadNames => Threads!PairWhole

\* The pre-forked servers: a connection is held by one child, see PreforkServer.
HeldOnce == program = "prefork" => Prefork!HeldOnce

\* No program dies of a signal it waits for: each is blocked before the first
\* one comes, and each signal of the listener of io_rts.c has a connection
\* (io_rts.c:55-63, cond_var_rts.c:68-74, pthread_sigwait.c:38-40).
NotKilled == /\ program = "rts" => Rts!ServerLives
             /\ program = "notify" => Notify!NotKilled
             /\ program = "signal" => Signal!SigNotKilled

\* io_rts.c: a signal is on its way for whatever waits, see RtsServer.
OnItsWay == program = "rts" => Rts!OnItsWay

\* What passes from one process or thread to another is neither lost nor
\* doubled: the notifications of cond_var_rts.c, the lines in the FIFO but for
\* those that a reader which has seen the end before closes it over, the datagrams
\* of inet_udp_rcver.c with their answers, the messages of sysv_msg.c, and the
\* signals that sig_pending.c and pthread_sigwait.c block.
NothingLost == /\ program = "notify" => Notify!NotifiedOnce
               /\ program = "fifo" => Fifo!LinesRead
               /\ program = "udp" => Udp!AnswerComes
               /\ program = "msg" => Msg!MessagesMeet
               /\ program = "signal" => Signal!SignalsKept

\* io_signalfd_chld.c: see SignalPool.
PoolExact == program = "pool" => Pool!PoolExact

\* posix_named_sem_cnt.c and posix_nameless_sem.c: see PosixCounting.
PermitsKept == program = "counting" => Counting!PermitsKept

\* inet_tcp_serv1_OOB.c: see OobServer.
UrgentKept ==
  [][program = "oob" /\ oob_pc = "normal" /\ oob_pc' = "mark" /\ urgent
       /\ ~urgent' => missed]_vars

\* What a client that is served sends is received and answered, also when
\* other children die and other clients go away (start_child).
PoolReceives == \A c \in Clients :
  (program = "prefork" /\ sock[c] = "open" /\ rx[c] # {})
    ~> (program # "prefork" \/ sock[c] # "open" \/ Prefork!Answered(c))

\* While a child of the pool with a descriptor left comes back to accept again
\* and again, nobody waits in the backlog for ever: see PreforkServer.
PoolAdmits ==
  []<>(program # "prefork" \/ Prefork!Free) =>
    \A c \in Clients : (program = "prefork" /\ sock[c] = "queued")
                         ~> (program # "prefork" \/ sock[c] # "queued")

\* The programs that have an end come to it, or stand still where the code says
\* they must: a thread too many at the barrier, a mutex locked twice, permits
\* that died with their holders, a queue nobody receives from, a FIFO nobody
\* opens from the other side or whose writers wait for a line to be typed, a mutex
\* that died with its owner or, never initialised, does not wake other processes.
Over == /\ program \in ThreadNames => Threads!Over
        /\ program = "counting" => Counting!CountingOver
        /\ program = "mq" => Mq!MqOver
        /\ program = "fifo" => Fifo!FifoOver
        /\ program = "msg" => Msg!MsgOver
ProgramsEnd == <>[]Over
============================================================================
