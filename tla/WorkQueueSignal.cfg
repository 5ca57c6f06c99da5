SPECIFICATION FairSpec
CONSTANTS
  Producer = A
  Consumers = {b1}
  Free = Free
  Items = {x, y}
  NoItem = NoItem
  MaxItems = 5
  Broadcast = FALSE
PROPERTY Drain
