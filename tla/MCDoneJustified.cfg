\* An edit that is denied, in a project whose tests pass.
SPECIFICATION Spec
CONSTANTS
  Calls <- EditCalls
  Registered = {"read", "edit", "shell", "run_tests"}
  ReadOnly = {"read"}
  LocalWrite = {"edit", "run_tests"}
  DenyList = {"shell"}
  AllowList = {"read"}
  Permitted = {}
  Interactive = TRUE
  MaxSteps = 6
  TokenLimit = 6
  CompactAt = 100
  MaxCalls = 1
  MaxTokens = 1
  MaxTurns = 1
PROPERTIES DoneJustified
CHECK_DEADLOCK FALSE
