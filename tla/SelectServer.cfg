SPECIFICATION FairSpec
CONSTANTS
  Clients = {c1, c2, c3}
  FileLimits = {2, 3}
  MaxSockets = 3
  Listener = Listener
  NoFd = NoFd
INVARIANTS TableSound NeverBlocks
PROPERTIES Served
