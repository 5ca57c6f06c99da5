# Verification of the ALSNP sample programs

The repository holds the sample programs of a textbook on Linux system and
network programming (`src/ALSNP_3rd/src`, one directory per chapter), with notes
and small exercises around them. It is not one system but many small ones. This
directory models, in TLA+, those in which several processes, threads or peers
meet: what can go wrong in them lies in the order of their steps, and a run of
the program by hand shows one order only.

Paths below are relative to `src/ALSNP_3rd/src`.

## 1. Inventory

### Modelled

| Part | State | Operations | Meets | Correct when |
|---|---|---|---|---|
| Work queue, `8.pthread/cond_var.c`, `cond_var_fd.c` | ring `item`, `idx`, `cnt`; mutex; condition variable | `push_item`, `pop_item`, broadcast or signal, creation of the threads | thread (A) and the threads (B) through shared memory | ring is a FIFO that drops what does not fit, critical sections exclude each other, no wake-up is lost, queue is emptied |
| Its signal thread, `10.realtime/cond_var_rts.c` | mask, queue of real-time signals, place of each thread | `sigqueue` after each job, `sigwaitinfo` | threads (B) and the thread that prints | each job is announced once, the process survives its own signals |
| System V semaphores, `5.ipc/xsi_sysv/lib_sysv_sem.c` | set in the kernel: values, sleepers, adjustments per process | get, remove, wait, wait for zero, post, the undo at exit | all processes that use the key | permits neither lost nor made |
| `sysv_sem.c`, `sysv_sem_waitforzero.c` | place of `main()` and of each child | fork, section, abort, reap and remove | children through the semaphore; runs through the key | permits conserved, every run ends, the zero waiter wakes only when all permits are out |
| `sysv_sem_counting.c`, `sysv_sem_graph.c` | the same; count of forks, scripts `proc_a` to `proc_e` | wait in `main()`, post in the child; waits and posts along the graph | a killed run and the next one | no permit too many, order of the graph kept |
| `5.ipc/posix/posix_named_sem_cnt.c`, `posix_nameless_sem.c` | semaphore, children | the same without undo | children or threads; a killed run and the next one | permits free, held or lost with their holder |
| POSIX queues, `posix_msg.c`, `posix_msg_sigev.c` | queues behind one name, the registered receiver | create or attach, unlink, send, receive, `mq_notify` | senders and receivers | who shares a queue empties it |
| System V queues, `sysv_msg.c`, `sysv_msg_regex.c`, `lib_sysv_msg.c` | queues behind one key, typed messages | `sysv_msgget`, `sysv_msgrm`, `msgsnd` without waiting, `msgrcv` by type | senders and receivers, and whoever removes the queue | no message lost, doubled or overtaken but with its queue; nobody sleeps beside its message |
| Thread programs, `8.pthread/mutex_type.c`, `mutex_robust.c`, `cleanup_mutex.c`, `mutex_pshared.c`, `spinlock.c`, `barrier.c`, `sum_strnum_mutex.c`, `sum_strnum_tls.c`, `sum_strnum_tls_gcc.c`, `pthread_pi_cputime.c` (and the two of `10.realtime`) | `main()`, threads, mutex, lock, barrier, key, sums | create, join, cancel, lock, destructor | threads of one process, or of several | sections exclude each other across cancellation and death, results come out right, the program ends |
| Poll servers, `7.io_multiplexing/io_poll.c`, `io_poll_nb.c`, `io_poll_LT.c` | `pollfds`, `cnt_fd_socket`, `ret_poll`, `i` | accept, receive, `add_socket`, `del_socket` | clients through sockets | array holds exactly open sockets, nobody forgotten, `recv` never blocks |
| Select servers, `io_select.c`, `io_select2.c` | `fd_socket`, `fds_read` | the same, `mk_fds` | clients | the same, every watched client is served |
| Epoll servers, `io_epoll.c`, `io_epoll_trigger.c` | watches, batch of events, edges | accept, `add_ev`, receive, `del_ev` | clients | every client is admitted and served, `recv` never blocks |
| Timer sessions, `11.linux_specific/epoll_timerfd.c` | `fds_list`, descriptors, batch of events | accept, receive, timeout, close | clients, timers, the kernel's descriptor numbers | list and descriptors agree, a session closes when its timer expired, none lingers |
| Pre-forked servers, `6.io_interface/socket/inet_tcp_serv1.c`, `inet6_tcp_serv1.c`, `unix_tcp_serv.c` and six of `sockopt` | pool, each child's connection, sockets left open | bind, fork, accept, receive, echo, close | children on one listener; clients (`tcp_cli.c`) | a connection is held by one child, who is served is answered, who waits is accepted |
| Urgent data, `inet_tcp_serv1_OOB.c` | `cum_recv`, the mark | `sockatmark`, the two kinds of recv | a client | the urgent byte is received as such |
| UDP, `inet_udp_rcver.c`, `inet_udp_snder.c`, `inet_udp_bcast.c` | `saddr_c`, datagrams | receive and answer, send and wait | senders and a broadcaster through a network that loses | an answer goes to whom it belongs |
| FIFOs, `fifo_read.c`, `fifo_write.c`, `fifo_write_sigpipe.c` | lines in the pipe | open, read, write, SIGPIPE | readers and writers that come and go | what is written is read |
| Real-time signal server, `10.realtime/io_rts.c` | mask, owned sockets, queue of signals | `sigwaitinfo`, accept, own, recv | clients, the kernel's signals | a signal is on its way for whatever waits |
| Child pool, `11.linux_specific/io_signalfd_chld.c` | pool, SIGCHLD, `is_refork` | read the signal, `waitid` in a loop, fork | children that end, stop and continue | the pool keeps its size, no zombie is left |
| Blocked signals, `9.signal/pthread_sigwait.c`, `sig_pending.c` | mask, pending signals | `sigwait` in a thread; `sigpending` in a loop | whoever sends signals | a signal waits until it is handled |

### Not modelled

| Part | Why |
|---|---|
| shared-memory programs (`posix_shm.c`, `sysv_shm.c`, `lib_sysv_shm.c`) | one process writes, another reads, on the user's key press: there is no protocol between them to be right or wrong |
| OpenMP samples, `pi_num_integration.c` | what happens is up to the compiler's run-time; of the integration with threads the split of the steps is modelled, the floating-point values, clocks and scheduling policies are not |
| asynchronous I/O, `rt_timer.c`, `io_eventfd.c`, `io_timerfd.c`, `io_signalfd.c` | one request and its completion, or one descriptor read in a loop |
| `sig_basic.c`, `sig_waitid.c`, `sig_nocldstop.c` and the other signal samples | a handler and a pause, or one child |
| `unix_udp.c`, `send_nbyte.c`, `recv_nbyte.c` | one message, or bytes counted on one connection |
| `sum_strnum.c`, `sum_strnum_tls_single.c` | no threads |
| urgent data in the poll and epoll servers (`ENABLE_MSG_OOB`) | `OobServer` has the protocol; the loops of the others only print it |
| `sysv_msg_info.c`, `sysv_sem_info.c`, `sysv_semval`, `sysv_semwait_timeo` | read only, or called by no program |
| fork, exec, spawn, files, text, memory, feature tests | sequential calls of the library without state of their own |
| `include`, `lib`, makefiles, notes, `concurrency_and_asyncio`, `logging`, `linux_basic`, `pthread`, `socket_programming` | output macros, exercises |

The hazards, each at its line, are in `PROJECT.json`.

## 2. Modules

A step of a model is what a thread or process does between two points where
another one can see a difference: a system call, or one turn of a loop. History
variables are marked so where they are declared; no guard of the code reads
them. Definitions headed "Slip" are plausible mistakes in the definition that
follows them and belong to no specification: each is there to show that a
property notices when the code makes that mistake.

### WorkQueue, BoundedFifo, RtsNotify

`WorkQueue` has the fields of `struct workqueue` and the locals of `push_item`
and `pop_item` as variables, a program counter for each thread, the owner of the
mutex and the set of threads asleep on the condition variable. Steps are taking
the mutex, one turn of the loop of `push_item`, giving the mutex up, notifying
(which the code does after the unlock), and in `pop_item` one pop, one entry
into `pthread_cond_wait`, one return from it. A sleeper may wake spuriously.
Creation of a thread and the calls of thread (A) on its FIFO may fail and end
the process.

`BoundedFifo` says what the queue promises: a batch is put in one step as far as
it fits, an item is taken from the head. `RefinesFifo` maps the ring to a
sequence (`Contents`); items that thread (A) is still pushing do not belong to
the queue until it unlocks, so that a whole `push_item` is one `Put`.

`RtsNotify` is what `cond_var_rts.c` adds: the mask that `main()` sets, the
threads born after it, one queued signal for each job, and the limit at which
`sigqueue` fails and the program ends. The queue itself is `WorkQueue`'s.

### SysvSem, SysvCritical, SysvCounting, SysvGraph

`SysvSem` has the library's functions as operators that the three programs use
in their actions. The kernel's side is external and written from how the code
uses it: values, sleepers in order of arrival, the adjustments that `SEM_UNDO`
collects for each process and that its end applies (never below zero), and the
rule that a change completes, at once and in order, the sleeping operations that
can go on. `sysv_semget` is three calls in the code and three steps here. No
program looks at what a call returns; a failed call is a return.

`SysvCritical` covers `sysv_sem.c` and `sysv_sem_waitforzero.c`, which differ
in a constant and in the zero waiter. Several runs of the programs share the
key, each may find the semaphore missing, new, not yet initialised or removed
under its children. `SysvCounting` and `SysvGraph` have one run at a time and
let it be killed and started again; their history variable `created` says
whether the present run made the set or found it. `SysvPrograms` has the three
side by side, `program` says which one is looked at and the variables of the
others rest; `MCSysv` gives it its constants.

### PosixCounting, MqPrograms, SysvMsg

`PosixCounting` covers the named semaphore with processes and the nameless one
with threads. There is no undo: `lost` counts what died with its holder.

`MqPrograms` and `SysvMsg` have queues that a name or key leads to, so that a
program may still hold one that was removed while another makes a new one. In
`MqPrograms` creation and attachment are two calls, and the notification is
registered once, for one receiver, and spent by one message to an empty queue.
In `SysvMsg` a full queue refuses a message whoever sleeps on it, because the
kernel looks for room first. A message that arrives while a receiver of its type
sleeps goes to it at once; otherwise it waits, and the first of the wanted type
is taken.
Whoever comes to the end of `main()` removes the queue under the others.

### Pthreads, PthreadMutex and the thread programs

`Pthreads` is the frame that the programs of `8.pthread` share: create
`NumThreads` threads, join them in order, return. `PthreadMutex` is the mutex by
its type and robustness. Over them: `MutexPrograms` (`mutex_type.c`,
`mutex_robust.c`, `cleanup_mutex.c`), `MutexShared` (processes that share a
mutex in memory, which those started with "c" initialise), `SpinLock`, `BarrierProgram`,
`SumStrnum` (three ways to return a pointer to a result), `PiThreads` (the
ranges of the steps as operators, and the array `pt_id` that is one too short).
`ThreadPrograms` puts them side by side.

In `MutexShared` a lock that finds the mutex held is a step of its own (`Sleep`),
and an unlock wakes one sleeper, because whom it reaches depends on how the
mutex came to be. `PTHREAD_PROCESS_SHARED` is set only by a process with "c"
(`mutex_pshared.c:67-75`); without one the memory is all zero, which the library
takes for a default mutex, and an unlock wakes sleepers of its own process only.
`unwoken` records that it reached none although somebody slept.

### NetClients, PollServer, SelectServer, EpollServer, PreforkServer, RtsServer

`NetClients` is the servers' surroundings: clients that connect, send, close and
reset, the queue of the listener, and the effect of accept, recv and close. A
reset client leaves an error and an end to receive. The servers extend it with
their tables and loops, and clients may act between any two steps. What differs
between the programs is a variable that never changes and is chosen at the
start: `nonBlocking` (the listener is drained in a loop), `edge`, `variant`
(socket family and options), `maxFiles` and `watches` (the limits).

`EpollServer` has edges as a set of descriptors to which something has come
since the last `epoll_wait`, and a recv that may leave data. `PreforkServer` has
the children's loops with both ways out, the one that closes the socket and the
one that leaves it open, and echoes that the client never reads, so that it ends
with a reset. `RtsServer` queues a signal for each arrival, up to the limit, and
has a recv that takes all that waits and one that leaves a rest, since `rbuf`
holds 16384 bytes and there is one recv for a signal.

### TimerSession

`TimerSession` has descriptors as numbers, because the program's difficulty is
that a number is used again: accept and `timerfd_create` take the lowest free
ones, and an event of the batch that `epoll_wait` returned names a number, not
what it stood for. Clients and timers act between any two events. The state of
`fds_list` is the sequence `list`; its growth by 16 entries is not visible in
the model. The limit on descriptors is chosen at the start from `FdLimits`:
with an odd number left for sockets and timers, the last socket gets no timer.
`MCServers` checks it together with `EpollServer`, one at a time.

### OobServer, UdpPrograms, FifoPrograms, SignalPool, SignalThread

`OobServer` is one child and one connection after the other, with the stream as
a sequence of normal bytes and at most one mark; a second urgent byte moves the
mark. `UdpPrograms` counts datagrams in each place they can be and loses them
when a buffer is full. `FifoPrograms` has readers and writers that open the FIFO
only when the other side is there; what the writers get from the terminal
(`Typed`) is the user's doing. `late` counts the lines in the pipe that were
written after every reader had seen the end, `dropped` all others that were lost. `SignalPool` has children that end, stop and
continue, and one pending SIGCHLD that stands for any number of them.
`SignalThread` has the mask and the pending signals of two programs.

### MCPrograms

The small programs are checked in one run, one program at a time: `program` is
chosen at the start, the variables of the others stay at rest, and each property
names the program it speaks of. They do not interact, and nothing in the code
says they do; they share a run because each alone has some hundred to some ten
thousand states, and because several of them must keep the same promise (what
is sent is not lost, nobody dies of a signal it waits for, the program ends).
Its constants get their values in `Programs.cfg`; `ProgramsAssumption` says what
they have to be.

### The theorems

`WorkQueueProofs`, `NetClientsProofs`, `PollServerProofs`, `SelectServerProofs`,
`ThreadsProofs`, `ProgramsProofs` (both about `MCPrograms`), `ServersProofs`
(about `MCServers`) and `SysvProofs` (about `SysvPrograms`): see section 5.

## 3. Runs

Every run finishes within about three minutes on two cores.

| Run | Shows | Bounds |
|---|---|---|
| `workqueue_broadcast` | `TypeOK`, `MutualExclusion`, `NoLostWakeup`, `RefinesFifo` | two threads (B), ring of 4, batches up to 2 of two values: every wrap, overflow in the middle of a batch, both threads asleep |
| `workqueue_signal` | `Drain` | one thread (B), as without MULTI_THREAD; ring of 5, which the batches do not divide; fairness |
| `sysv_critical` | `TypeOK`, `PermitsConserved`, `ZeroMeansFull`, `RunEnds` | a run of `sysv_sem.c` with three children, the third aborts, and one of `sysv_sem_waitforzero.c` with two and the zero waiter, on the same key; any child is killed, any fork fails; fairness |
| `sysv` | `TypeOK`, `PermitsBounded`, `GraphOrder` | five children and two permits, or the five processes of the graph; kills, one restart |
| `sysv_graph_completes` | `Completes` **fails** | no failure, fairness |
| `sysv_graph_restart` | `OrderKept` **fails** | as `sysv` |
| `servers` | `EpollNeverBlocks`, `ListAgrees`, `ServerStays`, `EpollServed`, `Admitted`, `NeverLingers` | two clients; one or two sockets and watches for the epoll servers; three or four descriptors and two waiting clients for the timer sessions; fairness |
| `timer_stale` | `TimeoutMeansExpired` **fails** | four descriptors, one waiting client |
| `poll` | `TypeOK`, `TableSound`, `OnlyFullForgets` | four clients, array of 3, descriptors for two or three clients: full array, exhausted descriptors, both listeners |
| `poll_blocks` | `NeverBlocks` **fails** | two clients, array of 3 |
| `select` | `TableSound` (with the types), `NeverBlocks`, `Served` | three clients, array of 3, descriptors for two or three, both listeners; fairness |
| `programs` | `TypeOK`; threads: `MutexExclusive`, `CancelBeforeJoin`, `ThreadResults`, `BuffersFreed`, `PairWhole`; pool of servers: `HeldOnce`, `PoolReceives`, `PoolAdmits`; signals: `NotKilled`, `OnItsWay`, `UrgentKept`, `PoolExact`; messages: `NothingLost`; semaphores: `PermitsKept`; all that end: `ProgramsEnd` | four threads (three for the integration, up to 13 steps); two processes of two threads with a shared mutex; two children and two clients with two descriptors each; two signals in the queue; buffer of two, four bytes; two workers and three jobs; pool of two and four process numbers; three children with two permits, two runs; one sender and two receivers, two queues, three POSIX or two System V messages; two readers, two writers, two lines each; two senders and a broadcaster, two datagrams each; fairness |

Why the bounds are enough. The programs treat all threads, clients and children
alike, so two or three of them give every pattern of interference (one acts, one
is affected, one more fills the queue). A ring of four slots wraps in every
position. Two queues are one that was removed and its successor. Bounds that
only cut off growth are named where they are declared: `MaxPending` (connections
waiting), `MaxRestarts` and `MaxRuns` (runs after the first one; in `SysvGraph`
signals arrive in the runs before the last one), `MaxBytes`, `MaxLines`,
`Lines`, `Rounds`, `MaxJobs`, `MaxQueues`. Deadlock is checked except where a
program ends or, as the findings say, may wait for ever.

Symmetry is used in runs without liveness only, over the threads (B), the bytes
of the FIFO and over clients.

### What the failing runs found

* `SEM_UNDO` on a post (`lib_sysv_sem.c:153`) is taken back when the process
  that posted exits. In `sysv_sem_graph.c` process E may therefore never
  complete (`sysv_graph_completes`).
* A set that a killed run left is used as it is (`lib_sysv_sem.c:44-48`): the
  next run of `sysv_sem_graph.c` starts processes out of order
  (`sysv_graph_restart`).
* `epoll_timerfd.c` closes a session on a stale event of its timer, although
  data has just set the timer anew (`timer_stale`).
* The poll servers act on the `revents` a deleted entry left in the array, and
  call `recv` on a client that has sent nothing (`poll_blocks`).

### What the passing properties leave room for

Some properties carry a condition because the code does less than one might
expect; the condition says exactly where it stops.

* `ZeroMeansFull` holds from the initialisation of the semaphore on: between
  creation and `SETALL` (`lib_sysv_sem.c:44-63`) the value is zero, and the zero
  waiter of a run that attached in between passes.
* `PermitsConserved` counts the children that came in through the semaphore that
  exists. When a run removes it, the waits of the other run's children fail,
  nobody looks, and they enter unprotected (`sysv_sem.c:56`).
* `RunEnds` excepts a run whose zero waiter sleeps for ever: nothing brings the
  value to zero when the children never overlap (`n_child` of one, or kills).
* `PermitsBounded` speaks of runs that created their semaphore. One that
  attached to what a killed run left may have too many permits, since the kernel
  gives back what `main()` took although the children post it too. In the other
  direction nothing is claimed: a post made by a child is undone when the child
  exits (`sysv_sem_counting.c:34`), and the permits run out.
* `PermitsKept` counts the permits that are lost with a child that aborts
  (`posix_named_sem_cnt.c:75-80`) or returns early, and with a killed run.
* `ServerStays` and `NeverLingers` hold when there is room for a timer beside
  every socket. Otherwise `add_ev` returns a value that `ADD_EV` does not take
  for a failure, the socket has no session, and closing it ends the program.
* `OnlyFullForgets`: a full array does forget clients; the branch that should
  disconnect them is empty (`io_poll_nb.c:117-119`).
* `Served` excepts `Stuck`, a connection waiting with no descriptor left:
  `io_select.c:121` then continues to `select()`, which reports the listener
  again, and no client is served until one gives a descriptor back, which
  needs the server itself. `README.txt:115-118` says of that file that the
  `continue` after accept has gone.
* `EpollServed` excepts what the edge trigger leaves: `io_epoll_trigger.c:147`
  takes two bytes for an edge, and nothing happens to the rest, or to the end
  behind an error, until the client sends again. `Admitted` excepts the listener
  that was at its limit once: its edge has gone.
* `PoolAdmits` has a premise, a child that comes back to accept with a
  descriptor left. A child that dies is not replaced, and `break` after an error
  of recv leaves the socket open, so a pool may stop to accept.
* `OnItsWay` excepts what arrived before the socket had an owner
  (`io_rts.c:94`), resets, of which only `POLLERR` is said, and what a recv left:
  there is one recv of 16384 bytes for a signal (`io_rts.c:26,106`), and one
  segment may hold more. The rest waits for the next arrival, and so does what
  that arrival in turn leaves, until a recv has emptied the socket. A full queue
  of signals ends the server by SIGIO.
* `UrgentKept` excepts an urgent byte that comes while recv waits for normal
  ones.
* `PoolExact` counts the surplus children: `is_refork` is not reset between two
  reports behind one SIGCHLD, and a child that only stopped is replaced too.
* `NothingLost`: a reader that has seen the end of the writers closes the FIFO
  over lines of a writer that came since (`fifo_read.c:39-42`); datagrams are
  lost with full buffers; messages go with the queue somebody removes;
  `sig_pending.c` handles a SIGUSR2 that came after its look at the pending
  signals not at all, because it is ignored when it is let through.
* `ThreadResults` says nothing of the sum a thread prints from the static buffer
  (`sum_strnum_mutex.c:63`), and says that two steps are in no sum
  (`pthread_pi_cputime_sched.c:96-98`), and each of the others in one.
* `PairWhole` ends where a process is started with "c" while others hold the
  mutex (`mutex_pshared.c:67-75`).
* `ProgramsEnd` names the states in which a program stands still: the last
  thread at the barrier (`barrier.c:33`), a thread that locked twice, permits
  that are all lost, a FIFO that nobody opens from the other side, writers of it
  that wait for a line from the terminal and readers that wait for those writers,
  a sender at a full queue nobody has, and receivers, which sleep on. In
  `mutex_pshared.c` it excepts a mutex that was initialised under its users or
  whose owner died, a wake-up that died with its thread, and an unlock that
  reached no sleeper because nobody was started with "c".

## 4. Fairness

Weak fairness is assumed of what a thread or process does next, because the
scheduler runs whoever can run. It is not assumed of clients, input (the lines
that FIFO writers get, and its end, `Typed`), key presses (`Getchar`), signals,
timers, spurious wake-ups or failures. In `WorkQueue` fairness on `Push` and on each `Pop(c)` includes taking the mutex: it says that a free
mutex which nobody else takes is taken in the end, no more. In the servers with
one thread fairness is on the server as a whole, whose steps are disabled while
a call blocks. In the pre-forked servers `main()` and each child has its own,
since they are processes. In the programs that come to an end fairness is on
their steps together (`Running`): each of them takes a bounded number of steps,
so that progress of any leads to the end of all. Nothing is assumed about who
wins a mutex, a semaphore, a message or a connection.

## 5. Proofs

The theorems state for every value of the constants what the runs check on small
ones. Constants are restricted only by the `ASSUME`s named below, which every run
evaluates. In the modules that put several programs side by side, each program
has an inductive invariant of its own, and while it is the one that is looked at
its steps are the only ones.

All safety properties of the passing runs, invariants and action properties, are
stated by a theorem, with the refinement `RefinesFifo`. Only model-checked is
what the proof system does not cover: liveness under fairness (`Drain`,
`Served`, `EpollServed`, `Admitted`, `NeverLingers`, `PoolReceives`,
`PoolAdmits`, `RunEnds`, `ProgramsEnd`), and the four properties that fail. No
module uses a RECURSIVE operator.

### The work queue

`WorkQueueProofs` holds for every ring size (at least two slots), every set of
bytes and every number of threads (B), under the assumptions `SizeAssumption`,
`ThreadAssumption` and `NotifyAssumption` of `WorkQueue`:

* `TypeCorrect`: `Spec => []TypeOK`. `TypeOK` is inductive by itself. Its
  difficult part is the ring: an index may stand one past the last slot and is
  wrapped before it is used.
* `MutexCorrect`: `Spec => []MutualExclusion`, inductive beside `TypeOK`; the
  equivalence "inside if and only if owner" is what makes it so.
* `WakeupCorrect`: `Spec => []NoLostWakeup`. It needs both others: a thread goes
  to sleep only with the mutex and only when the counter is zero, so while it
  sleeps the counter rises only in `push_item`, which is followed by the
  notification; without MULTI_THREAD the one thread (B) is the only sleeper and
  one signal is enough (`NotifyAssumption`).
* `FifoCorrect`: `Spec => RefinesFifo`, every step of the ring is a step of the
  FIFO or none. `PushInv` says what `push_item` has done when it is half-way: its
  index, once wrapped, is the first free slot (`FreeSlotNext`), and the slots
  before that one hold what it has read from the batch (`Stored`). Without it the
  unlock could not be shown to be a `Put` of what fits. The rest is arithmetic:
  the code wraps by comparing with `MAX_ITEM` in one place and by division in
  another, and the lemmas on `Pos` show that the two agree and that items less
  than a ring apart are in different slots.

### The poll and select servers

`PollServerProofs` holds for every size of `pollfds`, every limit on descriptors
and every set of clients, under `PollAssumption` (what it needs of the clients
and the system calls is in `NetClientsProofs`):

* `TypeCorrect`: `Spec => []TypeOK`. It needs `TableSound`, since `recv` and
  `close` act on what the array holds.
* `TableCorrect`: `Spec => []TableSound`, inductive together with `TypeOK` and
  `QueueSound` (who waits in the listener's queue waits there once and is not
  open, so that accept never adds what the array already has). Deletion is the
  difficult step: the moved entry may be the deleted one itself.
* `ForgetCorrect`: `Spec => OnlyFullForgets`, an action property from the same
  invariant: what a deletion takes from the array is what it closed.

`SelectServerProofs`, from the same facts and `SelectAssumption`:

* `TableCorrect`: `Spec => []TableSound`, with the types in it.
* `RecvCorrect`: `Spec => []NeverBlocks`, which the poll servers do not satisfy.
  The invariant it needs is `ReadySound`: until the loop starts, every client in
  the set has something to receive, and during the loop those from entry `i` on
  still do. It holds because a new client was not open when `select()` looked,
  no client has two entries, and `del_socket` moves the last entry to a place
  the loop has passed. (The poll servers keep the results in the array itself,
  where a new entry finds those of a deleted one.)

### The epoll servers and the timer sessions

`ServersProofs` holds for any clients, limits, numbers of watches and of
descriptors, under `ProgramsAssumption` of `MCServers` (a program has at least
one descriptor, the listener is not a client):

* `EventsAreFresh`: `EpollNeverBlocks`. `EpollInv` says that whatever is left of
  a batch is readable; a client cannot take back what it sent, and the server
  reads a socket only for its own event, which is then gone.
* `ListIsRight`: `ListAgrees`. `TimerInv` adds `Owned`: every entry has an open
  socket and an open timer, no two entries share one, and every timer has an
  entry. A socket without entry may exist (its timer could not be had), which is
  why the statement cannot be an equivalence.
* `NoClientEndsIt`: `ServerStays`, from `InPairs`. With an even number of
  descriptors left, those are taken and given back in pairs, so that accept finds
  a second one whenever it found the first.

### The programs of 8.pthread

`ThreadsProofs` holds for any number of threads above two (thread 1 of
`mutex_robust.c` cancels thread 2), of processes, of indices and of steps of the
integration. `Frame` is what the programs share: how far `main()` has come with
creating and joining, and that a thread which is not created has not run. With
it:

* `MutexExcludes` (`MutexExclusive`): who is in the section is the holder, the
  depth is one there, and an owner leaves the mutex in doubt only by dying.
* `CancelsComeBeforeJoins` (`CancelBeforeJoin`): while thread 1 has yet to
  cancel thread 2 it has not ended, and `main()` joins in the order of creation.
* `ThreadsComputeRight` (`ThreadResults`): `flag_spin` is its start and the
  number of threads that wrote it, and a thread between its read and its write
  has read the present value; `out` of a thread that has printed is its own; the
  sums are sets of steps, disjoint because the ranges of the threads are, that
  together are all but two.
* `BuffersAreFreed` (`BuffersFreed`): a buffer belongs to a thread that is alive.
* `PairIsWhole` (`PairWhole`): as long as nobody has initialised the mutex under
  its holder, only the holder is between the two writes.

### The other small programs

`ProgramsProofs` holds under `ProgramsAssumption` of `MCPrograms`. Several of the
promises are sums over sets that change in one place at a time; `OneMore`,
`OneLess` and the lemmas on `Times` (how often a value occurs in a sequence) do
that once for all of them.

* `PermitsAreKept` (`PermitsKept`): it needs that children of the present run
  exist only up to `i`, and that nobody holds a permit of a name that is not
  there.
* `PoolIsExact` (`PoolExact`): children that ended or stopped and were not
  reported have a SIGCHLD pending, or the parent is in its loop of `waitid`.
* `UrgentIsKept` (`UrgentKept`): `recv` of normal data starts at the mark only
  when the mark came while it was blocked.
* `SignalIsOnItsWay` (`OnItsWay`): a socket that was given its owner in time has
  at least as many signals on the way as it has things to read; the number, not
  the existence of a signal, is what is inductive, since one `recv` takes one
  signal and may take what several were about. A socket that a `recv` left
  something in is out of this count until it is empty, as one that had data
  before its owner is.
* `ConnectionHeldOnce` (`HeldOnce`): a child has a connection exactly in the
  places of its loop where it receives or echoes (`Held`); who waits in the
  backlog is not open yet, and a child that may leave its socket open has a
  descriptor for it (`LeaksFit`).
* `NobodyIsKilled` (`NotKilled`): every thread and loop that can meet a signal
  comes after the step that blocks it; a connection in the queue stands behind
  each signal of the listener.
* `NothingIsLost` (`NothingLost`): notifications are printed, queued or in the
  printing thread's hands; lines that remain when nobody reads came late; the
  datagram counts of `AnswerComes` are inductive with their types; for the
  messages, queues are made in order, and a sleeper finds no message of its type
  (`MessagesMeet`); what `sig_pending.c` owes it has not passed.
* `ProgramsTyped` (`TypeOK`).

### The System V semaphores

`SysvProofs` holds for any number of children, permits, runs and restarts, under
`ProgramsAssumption` of `SysvPrograms` (`CountingFits`, `GraphFits`,
`CriticalFits`: processes of different kinds and of different runs are
different, the numbers are natural). The kernel's `Settle`, which completes
sleeping operations in order after a change, is dealt with in lemmas once for
each program: what it leaves asleep, whom it gives a permit, and that the value
is what it was less the permits given.

* `CountIsBounded` (`PermitsBounded`): the bound on the children alone is not
  inductive. In a run that created its semaphore the value, the children at work
  and the permit that `main()` took for the child it is about to fork are
  together at most `n_count`. The undo of a child that has posted only lowers the
  value, which is why it is a bound and not an equation.
* `OrderIsKept` (`GraphOrder`): a semaphore is closed, with value and adjustments
  zero, until one of the processes that post on it has begun to; and nobody has
  passed a wait on a closed one. Adjustments belong to it because the kernel
  would add them at the end of a process. It holds while `created` does: the set
  that is there is then the run's own, or all its processes are gone.
* `PermitsAreConserved` (`PermitsConserved`): value and holders add up to what
  the semaphore was created with (`CriticalSum`). To carry this over kills and
  removal `CriticalHeld` says that whoever holds a permit or sleeps came through
  the set that exists, and that whoever went through a wait on it holds one; and
  `CriticalSum` that at most one `main()` is about to set the value.
* `ZeroIsFull` (`ZeroMeansFull`): an action property. The zero waiter is let
  through only by `Settle` at value zero or by an immediate look at it, or the
  set is gone (`ZeroKept`); with the sum above, zero means that all permits are
  held.
* `SysvTyped` (`TypeOK`): no change takes a value below zero.

## 6. Plan

What remains is to state what the components promise as specifications of their
own, as `BoundedFifo` does for the work queue. Abstract specifications worth
stating: a counting semaphore that `SysvCritical` implements while its set
exists (the sum of `CriticalInv` is the heart of it), and a set of sessions that
`TimerSession` implements (`Owned` and `ListAgrees` give the mapping). Both would
be refinements with their own run, proved in `SysvProofs` and `ServersProofs`,
which have the invariants they need.
