SPECIFICATION Spec
CONSTANTS
  Sources <- CopyTexts
  Modes = {"wrap"}
  OptLevels = {1}
  StackSize = 2
  InitialCap = 2
  CellMod = 3
  MaxSize = 12
  MaxOutput = 2
  Inputs <- NoInput
  Fuel = 60
  MaxText = 0
  MaxFragments = 4
INVARIANTS
  CopyBehaves
