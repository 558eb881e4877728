CONSTANTS
  x = x
  y = y
  c = c
  Names = {x, y, c}
  ConstNames = {c}
  MaxDecls = 6
  MaxScopes = 4
  Programs <- MCPrograms
SPECIFICATION DeclSpec
INVARIANTS NamesHaveMemory InitialisedRight
PROPERTY KeepsScopes
SYMMETRY Alike
CHECK_DEADLOCK FALSE
