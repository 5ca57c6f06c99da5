SPECIFICATION FairSpec
CONSTANTS
  NumThreads = 4
  Procs = {p1, p2}
  Clients = {c1, c2}
  NoClient = NoClient
  MaxSteps = 13
  PerProcess = 2
  PoolFiles = {2}
  MaxPool = 2
  RtsFiles = {1, 2}
  MaxSignals = 2
  BufSize = 2
  MaxBytes = 4
  Workers = {p1, p2}
  MaxJobs = 3
  Pids = {1, 2, 3, 4}
  Permits = 2
  MaxChild = 3
  Faulty = 1
  MaxRuns = 2
  Senders = {p1}
  Receivers = {p2, p3}
  MaxMsg = 1
  Lines = 3
  MaxQueues = 2
  FifoReaders = {r1, r2}
  PlainWriters = {w1}
  HandlingWriters = {w2}
  Capacity = 2
  MaxLines = 2
  UdpSenders = {p1, p2}
  Broadcaster = p3
  Rounds = 2
  UdpBuffer = 2
  MsgSenders = {p1}
  MsgReceivers = {p2, p3}
  MsgTypes = {0, 1, 2}
INVARIANTS TypeOK MutexExclusive CancelBeforeJoin ThreadResults BuffersFreed PairWhole
  HeldOnce NotKilled OnItsWay NothingLost PoolExact PermitsKept
PROPERTIES UrgentKept PoolReceives PoolAdmits ProgramsEnd
\* Some programs end, others stand still: see Over.
CHECK_DEADLOCK FALSE
