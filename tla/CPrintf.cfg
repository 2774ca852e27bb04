SPECIFICATION CSpec
CONSTANTS
  line = line
  long = long
  N = 1
  SIZE = 2
  Messages = {line, long}
  SizeOf <- MCSizeOf
  Classes = {"TwoBufT"}
  Writers = {w1}
  MaxWrites = 1
  MaxStarts = 1
  Loggers = {l1, l2}
  Level = 4
  MaxLines = 2
  MaxFiles = 2
INVARIANTS LogWhole NoUseAfterClose
PROPERTIES LogReturns
CHECK_DEADLOCK FALSE
