SPECIFICATION FairSpec
CONSTANTS
  Clients = {k1, k2}
  Listener = Listener
  EpollFiles = {1, 2}
  WatchLimits = {1, 2}
  FdLimits = {3, 4}
  MaxPending = 2
INVARIANTS EpollNeverBlocks ListAgrees ServerStays
PROPERTIES EpollServed Admitted NeverLingers
\* The epoll servers end when a socket cannot be watched.
CHECK_DEADLOCK FALSE
