CONSTANTS
  Null = Null
  Users = {"ann", "bob"}
  Runs = {1, 2}
  Events = {1, 2, 3}
  Script <- Pair
  Chosen <- Twice
  Silent = {2}
  Duration = 2
  MaxFaults = 0
SPECIFICATION Spec
CHECK_DEADLOCK FALSE
INVARIANT TrailIsOwn
