SPECIFICATION Spec
CONSTANTS
  empty = empty
  log = log
  huge = huge
  N = 2
  SIZE = 2
  Messages = {empty, log, huge}
  SizeOf <- MCSizeOf
  Classes = {"TwoBufT", "Z_Buf_T"}
  Writers = {w1, w2}
  MaxWrites = 3
  MaxStarts = 2
INVARIANTS TokensCoverRing NoWorkerInBaseDtor
PROPERTIES ImplementsQueue RingIsDrained DestructorReturns
CHECK_DEADLOCK FALSE
