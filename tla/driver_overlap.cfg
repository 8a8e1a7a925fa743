SPECIFICATION Spec
CONSTANTS
  p1 = p1
  p2 = p2
  Procs = {p1, p2}
  CommandLines <- Pair
  Blocks = 2
  CcRoom = 3
  ClangRoom = 2
  MayFail = FALSE
INVARIANTS
  AlwaysOwnProgram
