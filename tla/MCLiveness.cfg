CONSTANTS
  r1 = r1
  r2 = r2
  N <- MCN
  Reg <- MCReg
  Funcs <- MCFuncs
SPECIFICATION FairSpec
INVARIANTS LiveExact NeverTooLive
PROPERTY Stops
