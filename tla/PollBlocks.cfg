SPECIFICATION Spec
CONSTANTS
  Clients = {c1, c2}
  FileLimits = {2}
  MaxSockets = 3
  Listener = Listener
  NoFd = NoFd
INVARIANTS NeverBlocks
