SPECIFICATION Spec
CONSTANTS
  N = 2
  Producers = {p1, p2}
  Consumer = c
  SEMAEM = 2
  MaxWrites = 4
  MaxEnds = 2
INVARIANTS TokensCoverRing DeliveredInOrder
PROPERTIES RingIsDrained StopReturns
CHECK_DEADLOCK FALSE
