SPECIFICATION Spec
CONSTANTS
  FdLimits = {4}
  MaxPending = 1
PROPERTIES TimeoutMeansExpired
