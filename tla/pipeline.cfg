SPECIFICATION Spec
CONSTANTS
  Sources <- AllTexts
  Modes = {"wrap", "heap"}
  OptLevels = {0, 1}
  StackSize = 2
  InitialCap = 2
  CellMod = 3
  MaxSize = 12
  MaxOutput = 2
  Inputs <- Words
  Fuel = 60
  MaxText = 5
  MaxFragments = 3
INVARIANTS
  SameBehaviour
PROPERTIES
  SourceEndsProgramEnds
