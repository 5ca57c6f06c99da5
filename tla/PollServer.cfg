SPECIFICATION Spec
CONSTANTS
  Clients = {c1, c2, c3, c4}
  FileLimits = {2, 3}
  MaxSockets = 3
  Listener = Listener
  NoFd = NoFd
SYMMETRY Symmetry
INVARIANTS TypeOK TableSound
PROPERTIES OnlyFullForgets
