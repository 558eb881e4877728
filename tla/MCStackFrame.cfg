CONSTANTS
  main = main
  g = g
  h = h
  s0 = s0
  s1 = s1
  Funcs = {main, g, h}
  Main = main
  Saved = {s0, s1}
  Calls <- MCCalls
  Params <- MCParams
  Floats <- MCFloats
  MaxParams <- MCMaxParams
  Locals <- MCLocals
  Spills <- MCSpills
  Used <- MCUsed
  RegArgs = 1
  SmallLimit = 24
  ImmLimit = 56
  u = u
  v = v
  Garbage = Garbage
  Data = {u, v}
  MaxDepth = 3
  StackSize = 136
SPECIFICATION Spec
INVARIANTS FramesAbut SpAligned CallerKept ImmediatesFit
PROPERTY KeepsCalls
SYMMETRY Values
