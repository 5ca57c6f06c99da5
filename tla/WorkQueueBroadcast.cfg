SPECIFICATION Spec
CONSTANTS
  Producer = A
  Consumers = {b1, b2}
  Free = Free
  Items = {x, y}
  NoItem = NoItem
  MaxItems = 4
  Broadcast = TRUE
SYMMETRY Symmetry
INVARIANTS TypeOK MutualExclusion NoLostWakeup
PROPERTIES RefinesFifo
