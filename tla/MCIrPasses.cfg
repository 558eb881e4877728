CONSTANTS
  Functions <- MCFunctions
  Width = 3
  maxDistance = 5
  Cells = 2
  MaxBlocks = 10
SPECIFICATION FairSpec
INVARIANTS SameEffects NothingLeft
PROPERTY PassesEnd
CHECK_DEADLOCK FALSE
