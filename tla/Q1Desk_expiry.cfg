SPECIFICATION Spec
CONSTANTS
  Workers = {w1, w2}
  OpenCash = 1
  OpenPos = 0
  OpenRecv = 0
  Sessions = 2
  ReleaseChecks = 2
  MaxOrders = 1
  MaxEvents = 2
PROPERTY OrdersExpireWhenDue
