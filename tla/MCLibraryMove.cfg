SPECIFICATION LiveSpec
CONSTANTS
    N = 2
    Strategy <- CopyOne
    MaxPieces = 3
    MaxCancels = 2
    MaxCrashes = 2
    Recreates = TRUE
    RollbackBreaks = FALSE
INVARIANTS
    NothingLost
    LibraryIsWhole
    GateHeld
PROPERTIES
    ImplementsSafeMove
    MoveEnds
CHECK_DEADLOCK FALSE
