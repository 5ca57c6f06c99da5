SPECIFICATION Spec
\* Both programs end, or wait for ever: see SysvGraphCompletes.cfg and the
\* permits of sysv_sem_counting.c that are lost.
CHECK_DEADLOCK FALSE
CONSTANTS
  Programs = {"counting", "graph"}
  Main = Main
  MaxRestarts = 1
  MaxChild = 5
  AbortIdx = 2
  NCount = 2
  A = A
  B = B
  C = C
  D = D
  E = E
  m1 = m1
  m2 = m2
  c0 = c0
  c1 = c1
  c2 = c2
  c3 = c3
  c4 = c4
  w = w
  Mains = {m1, m2}
  ForkOrder <- TwoRuns
  Aborters = {c2}
  ZeroWaiters = {w}
  SemValue <- TwoValues
INVARIANTS TypeOK PermitsBounded GraphOrder
