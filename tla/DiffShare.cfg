SPECIFICATION Spec
CONSTANTS
  Size = 17
  UnitSize = 2
  Values = {0, 1}
  Initial = 0
  Setters = {p1, p2}
  Drainer = d
  Touched = {0, 1, 2, 16}
  MaxSets = 3
  MaxTroubles = 2
INVARIANTS NoLostUpdate StaleIsAnnounced
PROPERTIES Converges
CHECK_DEADLOCK FALSE
