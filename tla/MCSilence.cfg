CONSTANTS
  Batches <- UnheardMoves
  Users = {"ann", "bob"}
  NoUser = "nobody"
  Defects = {"none"}
  TopK = 3
  MaxFaults = 0
  Hit = 3
  Of = 5
  Strict = FALSE
  Legacies <- NoLegacy
  Leftover <- NoLeftover
SPECIFICATION Spec
CHECK_DEADLOCK FALSE
INVARIANT SilenceForgiven
