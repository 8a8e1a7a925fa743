SPECIFICATION LibrarySpec
CONSTANTS
  Values <- TwoValues
  MaxBatch = 2
  MaxSlots = 6
  MayFail = TRUE
  Align = 8
  Header = 2
  DefaultPool = 24
  Requests = {1, 6, 8, 13}
  Tabs = {0, 2, 7}
  MaxGrants = 4
  MaxRefusals = 1
  MallocMayFail = TRUE
  Chars = {1, 2}
  Slack = 2
  MaxText = 4
  MaxAlloc = 8
  MaxRefused = 1
  MaxFile = 5
  Files <- LibraryFiles
  BUFSIZE = 2
  MaxCalls = 4
  MaxErrors = 1
INVARIANTS
  TypesOK
  SoundUse
  NoStaleSlots
  GrantsApart
  GrantsFit
  ArenaAccounts
  TextKept
  LinesExact
  EndReleases
PROPERTIES
  SequenceSpec
  CallsReturn
CHECK_DEADLOCK FALSE
