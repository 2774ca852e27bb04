SPECIFICATION MsgSpec
CONSTANTS
  Peers = {p1}
  Me = me
  Types = {1, 2}
  m_msgType = 1
  Capacity = 2
  MaxSends = 3
  MaxQueues = 2
  MaxStarts = 2
INVARIANTS EveryMessageAccounted QueueHasCreator
PROPERTIES QueueIsServed StopReturns
CHECK_DEADLOCK FALSE
