CONSTANTS
  Batches <- AllBatches
  Users = {"ann", "bob"}
  NoUser = "nobody"
  Defects = {"none", "keeps_old", "loses", "leaks"}
  TopK = 3
  MaxFaults = 2
  Hit = 3
  Of = 5
  Strict = FALSE
  Legacies <- OneLegacy
  Leftover <- OldEvents
SPECIFICATION Spec
CHECK_DEADLOCK FALSE
INVARIANTS
  Accounted
  CollisionsUnseen
PROPERTIES
  NoFalseAlarm
  PassMeansSo
  NoFalseLeak
  Ends
