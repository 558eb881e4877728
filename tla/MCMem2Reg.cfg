CONSTANTS
  x = x
  y = y
  t = t
  N <- MCN
  Var <- MCVar
  Functions <- MCFunctions
SPECIFICATION FairSpec
INVARIANTS MovesTypeOK LoadsSeeLastStore PhiPerEdge DefsDominateUses RegistersHoldVariables
PROPERTIES EndsUnlessSelf
