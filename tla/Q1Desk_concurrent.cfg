SPECIFICATION Spec
CONSTANTS
  Workers = {w1, w2}
  OpenCash = 0
  OpenPos = 1
  OpenRecv = 1
  Sessions = 1
  ReleaseChecks = 2
  MaxOrders = 2
  MaxEvents = 2
SYMMETRY WorkerSymmetry
INVARIANTS
  TypeOK
  LedgersExplainState
  FillsMatchOrders
PROPERTIES
  TerminalOrdersStay
