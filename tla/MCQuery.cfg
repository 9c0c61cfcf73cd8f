SPECIFICATION Spec
CONSTANTS
    Lang <- MCLang
    CaptureIds <- MCCaptures
    OP_COUNT_PER_QUERY_TIMEOUT_CHECK = 5
    Tasks <- MCTasks
    MaxChecks = 1
INVARIANTS ListsOwned CapturesInOrder QuantifiersTrue MatchesSound MatchesComplete
CHECK_DEADLOCK FALSE
