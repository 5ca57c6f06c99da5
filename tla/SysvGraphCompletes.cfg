SPECIFICATION QuietSpec
CHECK_DEADLOCK FALSE
CONSTANTS
  Main = Main
  A = A
  B = B
  C = C
  D = D
  E = E
  MaxRestarts = 0
  Procs = {Main, A, B, C, D, E}
  Sems = {0, 1, 2, 3}
PROPERTIES Completes
