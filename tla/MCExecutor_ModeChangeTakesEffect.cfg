CONSTANTS
    Idle = Idle
    Auto = Auto
    Teleop = Teleop
    IDLE <- Idle
    AUTO <- Auto
    TELEOP <- Teleop
    MaxModeChanges = 2
    SetupBehaviours <- SetupFunctions
    MainBehaviours <- SpinningMain
SPECIFICATION Spec
PROPERTY ModeChangeTakesEffect
