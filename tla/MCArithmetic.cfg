CONSTANTS
  WordBits = 5
  RegBits = 10
  ImmBits = 3
  Problems <- MCProblems
SPECIFICATION Spec
INVARIANTS ResultRight JumpGoesRight ImmediatesFit
CHECK_DEADLOCK FALSE
