SPECIFICATION Spec
CONSTANTS
  Programs <- Both
  Levels = {0, 1}
  Slack = 1
  MaxTokens = 5
INVARIANTS
  TypeOK
  DepthKept
  RewritesExact
PROPERTIES
  Terminates
