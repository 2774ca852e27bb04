SPECIFICATION ShmSpec
CONSTANTS
  Users = {p1, p2}
  Sizes = {0, 1}
  MaxSegs = 2
  MaxCalls = 3
  MaxFaults = 1
INVARIANTS OneSegment
PROPERTIES CallsReturn
CHECK_DEADLOCK FALSE
