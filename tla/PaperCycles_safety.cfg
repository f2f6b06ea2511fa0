SPECIFICATION Spec
CONSTANTS
  boot = boot
  nav = nav
  t1 = t1
  t2 = t2
  other = other
  Cycles <- MCCycles
  Kind <- MCKind
  Sched <- MCSched
  Workers = {t1, t2, other}
  OwnerOf <- MCOwnerOf
  Grace <- MCGrace
  Lease = 2
  MaxTime = 5
  MaxFaults = 2
  NoOne = NoOne
INVARIANTS
  TypeOK
  AppliedOnce
  AppliedIffCompleted
  OnlyNewestClaimApplies
  SoleHolder
PROPERTIES
  ClosedRowsStay
  ImplementsCycleOnce
CHECK_DEADLOCK FALSE
