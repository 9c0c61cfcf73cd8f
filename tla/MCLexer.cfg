SPECIFICATION Spec
CONSTANTS
    ChunkSize = 3
    Texts <- MCTexts
    MaxRanges = 2
    MaxEdited = 3
    MaxCalls = 4
INVARIANTS StandsOnText LookaheadCovers DifferencesExact RangesFollowEdit
PROPERTIES ColumnQueryHarmless
CHECK_DEADLOCK FALSE
