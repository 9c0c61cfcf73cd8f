\* Two turns of a CLI session over one history, long enough for loop
\* detection; nobody answers prompts.
SPECIFICATION Spec
CONSTANTS
  Calls <- ReplCalls
  Registered = {"read", "edit", "glob", "grep", "shell"}
  ReadOnly = {"read", "glob", "grep"}
  LocalWrite = {"edit"}
  DenyList = {"shell"}
  AllowList = {"read", "glob", "grep"}
  Permitted = {"edit"}
  Interactive = FALSE
  MaxSteps = 4
  TokenLimit = 4
  CompactAt = 5
  MaxCalls = 1
  MaxTokens = 1
  MaxTurns = 2
INVARIANTS HistoryPaired BudgetEnforced
PROPERTIES StuckStops
CHECK_DEADLOCK FALSE
