SPECIFICATION Spec
CONSTANTS
  Users = {u1, u2}
  Fds = {f1, f2}
  m_epSize = 1
  MaxTimers = 2
  MaxStarts = 2
INVARIANTS MapAgrees
PROPERTIES CallbackIsDue ExpiryIsServed DestructorReturns
CHECK_DEADLOCK FALSE
