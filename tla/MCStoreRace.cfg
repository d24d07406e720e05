\* Two threads that store a value of the same key, nothing else.
CONSTANTS
  Keys = {k1}
  Workers = {w1, w2}
  Null = Null
  MaxId = 2
  MaxClock = 0
  MaxFacts = 1
  MaxFaults = 0
  Lifetimes = {Null}
  InactiveKeeps = {0}
  MaxAges = {1}
  EventLoop = FALSE
  Faults = {}
  Callers = {}
SPECIFICATION Spec
SYMMETRY Symmetric
CHECK_DEADLOCK FALSE
INVARIANT LiveVectorOwned
