SPECIFICATION FairSpec
CONSTANTS
  d1 = d1
  d2 = d2
  c1 = c1
  c2 = c2
  daily = daily
  operator = operator
  weekly = weekly
  evidence = evidence
  None = None
  Order <- ReuseOrder
  Kind <- ReuseKind
  Dispatchers = {d1}
  Consumers = {c1}
  Contexts = {x1}
  MaxAttempts = 1
  MaxSelections = 1
  MaxBusy = 2
  MaxFaults = 0
PROPERTIES
  ExecutionsEnd
CHECK_DEADLOCK FALSE
