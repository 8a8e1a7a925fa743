SPECIFICATION PointersSpec
CONSTANTS
  Codes <- CoreCodes
  Targets <- WrapOnly
  Sizes = {1, 2}
  Inputs <- NoInput
  CellMod = 3
  WordSize = 2
  ExecSize = 4
  MapMayFail = FALSE
  MaxSize = 8
  MaxOutput = 2
  Bases = {0}
  MaxCore = 3
  MaxExtended = 0
INVARIANTS
  WrapNeverStrays
