SPECIFICATION Spec
CONSTANTS
  Files <- AllFiles
  OptionSets <- AllModes
  InitialCap = 1
  MaxWarnings = 2
  MayFail = TRUE
  MaxText = 6
  MaxMixed = 3
  MaxFragments = 4
INVARIANTS
  PrevLive
  FoldSound
  VerdictMatchesSource
  WarningsInOrder
  LexedForm
  Settled
  BufferFits
PROPERTIES
  Terminates
