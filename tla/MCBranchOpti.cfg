CONSTANTS
  N <- MCN
  Functions <- MCFunctions
SPECIFICATION FairSpec
INVARIANTS ReachableKept FlowPreserved PhiMatchesPreds LeftoverIsLoop
PROPERTY Settles
CHECK_DEADLOCK FALSE
