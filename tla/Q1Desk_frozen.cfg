SPECIFICATION Spec
CONSTANTS
  Workers = {w1}
  OpenCash = 1
  OpenPos = 1
  OpenRecv = 0
  Sessions = 2
  ReleaseChecks = 2
  MaxOrders = 1
  MaxEvents = 2
PROPERTY ReleaseRestsOnFreshQuotes
