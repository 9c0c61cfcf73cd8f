SPECIFICATION Spec
CONSTANTS
    Lang <- MCLang
    Documents <- MCDocuments
    EditsOf <- MCEditsOf
    MAX_LINK_COUNT = 8
    MAX_ITERATOR_COUNT = 64
    CountTrees = FALSE
    MAX_VERSION_COUNT = 6
    MAX_VERSION_COUNT_OVERFLOW = 4
    MAX_SUMMARY_DEPTH = 16
    MAX_COST_DIFFERENCE = 1600
    ScannerHasPayload = FALSE
    MaxCancels = 1
    OP_COUNT_PER_PARSER_TIMEOUT_CHECK = 3
INVARIANTS AssertionsHold TreesMatchText UnmarkedLeavesUnchanged IncrementalEqualsFresh ChangesReported RoundsBounded
