SPECIFICATION Spec
CONSTANTS
  Procs = {p1, p2, p3}
  Keys = {1, 2}
  Sizes = {1}
  OpenSizes = {0, 2}
  MaxSegs = 2
  MaxCalls = 3
SYMMETRY Symmetry
INVARIANTS OneSegment CreatorRecovers WritersExclude AccessMapped
CHECK_DEADLOCK FALSE
