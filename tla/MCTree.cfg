SPECIFICATION Spec
CONSTANTS
    Lang <- MCLang
    ReaderTrees <- MCTrees
    MaxBack = 2
    ReaderEdits <- MCEdits
INVARIANTS CursorExact CursorMovesExact NodesExact StatusExact DescendantSmallest NodeEditAgrees
CHECK_DEADLOCK FALSE
