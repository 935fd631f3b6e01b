SPECIFICATION FairSpec
CONSTANTS
    SensorValues <- DrivingValues
    MaxOwn = 2
INVARIANTS
    StandingRequestSeen
    TriggerOnlyWhileOff
    InhibitionReported
    IInv
    AbortOnlyOnLowBattery
PROPERTIES
    StopLeavesRestartPossible
    StopsAsRequired
    ImplementsStartStop
    ServedOnBusyBus
    AbortDisables
