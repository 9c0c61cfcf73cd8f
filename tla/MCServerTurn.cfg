\* One turn of a server session: the client answers prompts and may stop it.
\* "web" and "run_tests" come from an MCP endpoint.
SPECIFICATION FairSpec
CONSTANTS
  Calls <- ServerCalls
  Registered = {"read", "edit", "glob", "grep", "shell", "web", "run_tests"}
  ReadOnly = {"read", "glob", "grep"}
  LocalWrite = {"edit", "run_tests"}
  DenyList = {"shell"}
  AllowList = {"read", "glob", "grep"}
  Permitted = {}
  Interactive = TRUE
  MaxSteps = 3
  TokenLimit = 3
  CompactAt = 5
  MaxCalls = 2
  MaxTokens = 1
  MaxTurns = 1
INVARIANTS TypeOK ToolsAuthorised
PROPERTIES TurnEnds TurnProtocol
CHECK_DEADLOCK FALSE
