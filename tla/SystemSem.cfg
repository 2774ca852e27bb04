SPECIFICATION Spec
CONSTANTS
  Procs = {p1, p2}
  Names = {name}
  MaxFiles = 2
  MaxSems = 2
  MaxDeaths = 1
INVARIANTS MutualExclusion TokenConserved
PROPERTIES AcquireReturns
CHECK_DEADLOCK FALSE
