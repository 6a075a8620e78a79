SPECIFICATION Spec
CONSTANTS
    Game <- OneGame
    Install <- OneInstall
    Manual <- OneManual
    Pass <- PlanPasses
    Kind <- PlanKind
    Key <- PlanKey
INVARIANTS
    NoUploadUnderMove
