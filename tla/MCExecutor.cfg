CONSTANTS
    Idle = Idle
    Auto = Auto
    Teleop = Teleop
    IDLE <- Idle
    AUTO <- Auto
    TELEOP <- Teleop
    MaxModeChanges = 2
    SetupBehaviours <- SetupFunctions
    MainBehaviours <- CancellableMain
SPECIFICATION Spec
INVARIANTS
    OneModeThread
PROPERTIES
    ModeChangeTakesEffect
    StopTerminates
    ImplementsModeSwitching
