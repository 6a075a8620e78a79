SPECIFICATION LiveSpec
CONSTANTS
    Caller <- ThreeCallers
    Account <- TwoAccounts
    NoAccount = "none"
INVARIANTS
    OnePass
    DisconnectEmpties
PROPERTIES
    FlagFreed
