SPECIFICATION Spec
CONSTANTS
  Workers = {w1, w2}
  OpenCash = 1
  OpenPos = 1
  OpenRecv = 0
  Sessions = 1
  ReleaseChecks = 2
  MaxOrders = 1
  MaxEvents = 2
INVARIANT LatchBlocksBuys
