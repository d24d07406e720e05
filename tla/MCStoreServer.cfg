\* The server: one event loop, a failing embedder, failing commits, a failing
\* LanceDB delete, crashes and restarts.
CONSTANTS
  Keys = {k1, k2}
  Workers = {w1, w2}
  Null = Null
  MaxId = 3
  MaxClock = 2
  MaxFacts = 2
  MaxFaults = 2
  Lifetimes = {0, Null}
  InactiveKeeps = {0}
  MaxAges = {1}
  EventLoop = TRUE
  Faults = {"embed", "delete", "commit", "crash"}
  Callers = {"resolve", "profile", "cleanup", "set_expiry"}
SPECIFICATION Spec
SYMMETRY Symmetric
CHECK_DEADLOCK FALSE
INVARIANT TypeOK
INVARIANT LiveVectorOwned
PROPERTY NoOlderOverwrite
PROPERTY KeepsPromise
