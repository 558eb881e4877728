CONSTANT Programs <- MCPrograms
SPECIFICATION Spec
INVARIANTS FlowMatchesSource OpenOnlyAtEnd LayoutFitsBranchOpti
