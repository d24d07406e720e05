\* Threads sharing one store, a LanceDB that may refuse an
\* update, a pruner and a shutdown.
CONSTANTS
  Keys = {k1, k2}
  Workers = {w1, w2}
  Null = Null
  MaxId = 2
  MaxClock = 2
  MaxFacts = 2
  MaxFaults = 1
  Lifetimes = {0, Null}
  InactiveKeeps = {0}
  MaxAges = {1}
  EventLoop = FALSE
  Faults = {"update"}
  Callers = {"cleanup", "profile"}
SPECIFICATION FairSpec
CHECK_DEADLOCK FALSE
INVARIANT RecallComplete
INVARIANT CrashLosesOnlyPrunes
PROPERTY IngestEnds
PROPERTY AgedOut
