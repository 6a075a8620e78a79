SPECIFICATION LiveSpec
CONSTANTS
    Game <- OneGame
    Install <- OneInstall
    Manual <- OneManual
    Pass <- PlanPasses
    Kind <- PlanKind
    Key <- PlanKey
INVARIANTS
    MoveAlone
    PassesApart
PROPERTIES
    GateReopens
    UploadGoesOn
