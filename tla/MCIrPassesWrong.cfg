CONSTANTS
  Cases = {"call", "alias", "layout"}
  Functions <- MCFunctions
  Width = 3
  maxDistance = 10
  Cells = 2
  MaxBlocks = 10
SPECIFICATION RunSpec
INVARIANT SameEffects
CHECK_DEADLOCK FALSE
