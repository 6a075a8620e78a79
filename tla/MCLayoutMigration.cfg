SPECIFICATION LiveSpec
CONSTANTS
    Dirs = {"ps2", "ps3"}
    Probed = "ps3"
    Entries <- MCEntries
    Profile <- MCProfile
    UserData <- MCUserData
    Nested = {"b"}
    Hollow = {"h"}
    TextAt <- MCTextAt
    Stale = {"a1"}
    Fresh = {"a2"}
    Players = {"a1"}
    MaxStops = 1
INVARIANTS
    SavesSurvive
    ReferencesResolve
    OwnersLinked
PROPERTIES
    MigrationEnds
CHECK_DEADLOCK FALSE
