\* One scenario that expects a hit and one that expects a miss after the TTL.
\* Punctual, and with nothing left from an earlier run.
CONSTANTS
  Null = Null
  Scenarios = {1, 2}
  Kinds <- HitAndMiss
  Users = {"ann", "bob"}
  Instants = {0, 4, 8, 12}
  Duration = 12
  Configured = {Null, 2, 4}
  EngineTtls = {2, 4}
  Leftovers <- NoneLeft
  Margin = 2
  MaxLag = 0
SPECIFICATION Spec
CHECK_DEADLOCK FALSE
INVARIANT UnmarkedHit
