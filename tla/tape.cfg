SPECIFICATION PointersSpec
CONSTANTS
  Inputs <- Words
  CellMod = 4
  WordSize = 2
  ExecSize = 4
  MapMayFail = TRUE
  MaxSize = 8
  MaxOutput = 2
  Bases = {0, 1}
  MaxCore = 4
  MaxExtended = 4
  Codes <- AllCodes
  Targets <- AnyMode
  Sizes = {2, 3, 9}
INVARIANTS
  InBounds
  NoWrapDrift
  IntrinsicsBounded
  ExitsRelease
PROPERTIES
  CircularTapeSpec
  JumpLands
