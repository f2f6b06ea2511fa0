SPECIFICATION Spec
CONSTANTS
  c1 = c1
  c2 = c2
  h1 = h1
  h2 = h2
  Base = base
  None = None
  Challenger = {c1, c2}
  Family <- OneFamily
  Contract <- BothContracts
  Host = {h1, h2}
  Key = {k1, k2}
  MaxSubmissions = 2
  MaxCycles = 1
SYMMETRY HostSymmetry
INVARIANTS
  TypeOK
  
  OosPaidFor
  JudgedOnce
  
PROPERTIES
  ImplementsChampionChain
CHECK_DEADLOCK FALSE
