SPECIFICATION FairSpec
CONSTANTS
  Programs = {"critical"}
  Main = Main
  MaxRestarts = 1
  MaxChild = 5
  AbortIdx = 2
  NCount = 2
  A = A
  B = B
  C = C
  D = D
  E = E
  m1 = m1
  m2 = m2
  c0 = c0
  c1 = c1
  c2 = c2
  c3 = c3
  c4 = c4
  w = w
  Mains = {m1, m2}
  ForkOrder <- TwoRuns
  Aborters = {c2}
  ZeroWaiters = {w}
  SemValue <- TwoValues
CHECK_DEADLOCK FALSE
INVARIANTS TypeOK PermitsConserved
PROPERTIES ZeroMeansFull RunEnds
