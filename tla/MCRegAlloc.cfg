CONSTANTS
  a0 = a0
  s0 = s0
  s1 = s1
  zero = zero
  N <- MCN
  iRegs <- MCiRegs
  iCallerRegs <- MCiCallerRegs
  Functions <- MCFunctions
  Orders <- MCOrders
  MaxReg = 150
  MaxSlots = 8
SPECIFICATION FairSpec
INVARIANTS ColoursApart OperandsSurvive
PROPERTIES Allocates
