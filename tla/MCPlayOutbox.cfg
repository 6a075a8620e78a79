SPECIFICATION Spec
CONSTANTS
    Account <- TwoAccounts
    Caller <- OneCaller
    Game <- TwoGames
    NoAccount = "nobody"
    NoTask = "free"
    MaxGen = 2
    BatchSize = 1
    MaxRestarts = 1
INVARIANTS
    ToldOnce
    KeptUntilSettled
    NoForgottenRow
PROPERTIES
    EndsByItsOwnHand
    GoesByItsVerdict
    PassesEnd
CHECK_DEADLOCK FALSE
