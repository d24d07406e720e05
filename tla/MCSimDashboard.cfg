\* Two runs of a chain of three facts, a read and a late event; one audit write
\* that may fail; stops, shutdowns and crashes anywhere.
CONSTANTS
  Null = Null
  Users = {"ann", "bob"}
  Runs = {1, 2}
  Events = {1, 2, 3, 4, 5}
  Script <- Played
  Chosen <- BothRuns
  Silent = {2}
  Duration = 2
  MaxFaults = 1
SPECIFICATION FairSpec
CHECK_DEADLOCK FALSE
INVARIANT TypeOK
INVARIANT StatusRecorded
INVARIANT CountsAddUp
INVARIANT TrailTellsStates
PROPERTY SupersedesActive
PROPERTY KeepsLifecycle
PROPERTY RunsEnd
