SPECIFICATION Spec
CONSTANTS
  MaxStarts = 2
  Writers = {w1, w2}
  Times = {1, 2}
  MaxLines = 3
  MaxSignals = 1
INVARIANTS LinesAccounted WakeUpsExact
PROPERTIES NetProgress
CHECK_DEADLOCK FALSE
