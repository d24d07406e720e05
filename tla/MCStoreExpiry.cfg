\* One fact with an expiry, a server and its pruner.
CONSTANTS
  Keys = {k1}
  Workers = {w1}
  Null = Null
  MaxId = 1
  MaxClock = 2
  MaxFacts = 1
  MaxFaults = 0
  Lifetimes = {0}
  InactiveKeeps = {0}
  MaxAges = {2}
  EventLoop = TRUE
  Faults = {}
  Callers = {}
SPECIFICATION Spec
SYMMETRY Symmetric
CHECK_DEADLOCK FALSE
INVARIANT PurgedNotRecalled
