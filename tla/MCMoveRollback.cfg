SPECIFICATION Spec
CONSTANTS
    N = 2
    Strategy <- CopyBoth
    MaxPieces = 2
    MaxCancels = 1
    MaxCrashes = 1
    Recreates = FALSE
    RollbackBreaks = TRUE
INVARIANTS
    NothingLost
CHECK_DEADLOCK FALSE
