CONSTANTS
  a0 = a0
  s0 = s0
  s1 = s1
  s2 = s2
  zero = zero
  Cases = {"lea", "return"}
  N = 1
  iRegs <- MCiRegs
  iCallerRegs <- MCiCallerRegs
  Functions <- MCFunctions
  Orders <- MCOrders
  MaxReg = 100
  MaxSlots = 8
SPECIFICATION Spec
INVARIANT OperandsSurvive
