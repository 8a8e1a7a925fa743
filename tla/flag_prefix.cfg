SPECIFICATION Spec
CONSTANTS
  Widths <- WordBytes
  FillWidths <- FillBytes
  SsizeBytes = 8
  IntBytes = 4
  Space <- Addresses
  Spare = 110
  BufferSize = 16
  Cases <- Arguments
INVARIANTS
  PrefixRecognised
CHECK_DEADLOCK FALSE
