SPECIFICATION Spec
CONSTANTS
  d1 = d1
  d2 = d2
  c1 = c1
  c2 = c2
  daily = daily
  operator = operator
  weekly = weekly
  evidence = evidence
  None = None
  Order <- SafetyOrder
  Kind <- SafetyKind
  Dispatchers = {d1, d2}
  Consumers = {c1, c2}
  Contexts = {x1}
  MaxAttempts = 2
  MaxSelections = 2
  MaxBusy = 2
  MaxFaults = 1
SYMMETRY ProcessSymmetry
INVARIANTS
  TypeOK
  DependentsFollowSuccess
PROPERTIES
  OutcomesOnOwnLease
  AttemptsAdvance
CHECK_DEADLOCK FALSE
