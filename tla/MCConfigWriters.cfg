SPECIFICATION Spec
CONSTANTS
    settings = settings
    sync = sync
    install = install
    NoWriter = NoWriter
    Writers <- AllWriters
    Locked <- LockedWriters
    MaxSaves = 1
SYMMETRY Alike
PROPERTIES
    OnlyRivalsTear
    SavesAreAtomic
CHECK_DEADLOCK FALSE
