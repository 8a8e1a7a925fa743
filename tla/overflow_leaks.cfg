SPECIFICATION PointersSpec
CONSTANTS
  Inputs <- NoInput
  CellMod = 4
  WordSize = 2
  ExecSize = 4
  MapMayFail = FALSE
  MaxSize = 8
  MaxOutput = 2
  Bases = {0, 1}
  MaxCore = 0
  MaxExtended = 4
  Codes <- IntrinsicCodes
  Targets <- NoWrapOnly
  Sizes = {2}
INVARIANTS
  NoWrapReleases
