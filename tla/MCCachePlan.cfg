\* Two scenarios of three kinds at any times, sharing a user or not, with and
\* without a configured TTL, rows left by an earlier run, late by one unit.
CONSTANTS
  Null = Null
  Scenarios = {1, 2}
  Kinds <- AllKinds
  Users = {"ann", "bob"}
  Instants = {0, 4, 8, 12}
  Duration = 12
  Configured = {Null, 2, 4}
  EngineTtls = {2, 4}
  Leftovers <- OneLeft
  Margin = 2
  MaxLag = 1
SPECIFICATION Spec
CHECK_DEADLOCK FALSE
INVARIANT TypeOK
INVARIANT PlannedHold
INVARIANT BoundedStaleness
