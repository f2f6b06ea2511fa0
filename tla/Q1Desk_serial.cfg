SPECIFICATION Spec
CONSTANTS
  Workers = {w1}
  OpenCash = 0
  OpenPos = 1
  OpenRecv = 1
  Sessions = 2
  ReleaseChecks = 2
  MaxOrders = 3
  MaxEvents = 2
INVARIANTS
  LatchBlocksBuys
  
  SettledOnceWhenDue
PROPERTIES
  LatchOnlyTightens
  
  
