SPECIFICATION Spec
CONSTANTS
    Lang <- MCLang
    Trees <- MCTrees
    CountTrees = TRUE
    MAX_LINK_COUNT = 2
    MAX_ITERATOR_COUNT = 3
    Pushed <- MCPushed
    Token <- Extra
    MaxStatus = 1
    FirstState = 2
    MaxNodes = 6
    MaxCalls = 3
    MaxVersions = 3
INVARIANTS RefsExact PathsAgree
PROPERTIES PopsComplete MergeKeepsHistories
CHECK_DEADLOCK FALSE
