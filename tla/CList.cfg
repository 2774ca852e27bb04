SPECIFICATION ListSpec
CONSTANTS
  N = 3
  Elements = {"a", "b"}
  Conditions = {{"a"}, {"a", "b"}}
  Threads = {t1, t2}
INVARIANTS NodesPartitioned
PROPERTIES ImplementsStore
CHECK_DEADLOCK FALSE
