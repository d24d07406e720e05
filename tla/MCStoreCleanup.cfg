\* A fact grows old between two server processes, then the cleanup command runs.
CONSTANTS
  Keys = {k1}
  Workers = {w1}
  Null = Null
  MaxId = 1
  MaxClock = 2
  MaxFacts = 1
  MaxFaults = 0
  Lifetimes = {Null}
  InactiveKeeps = {0}
  MaxAges = {1}
  EventLoop = TRUE
  Faults = {}
  Callers = {"cleanup"}
SPECIFICATION Spec
SYMMETRY Symmetric
CHECK_DEADLOCK FALSE
INVARIANT CleanupDurable
