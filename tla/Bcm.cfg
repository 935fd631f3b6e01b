SPECIFICATION FairSpec
CONSTANTS
    DataSize = 4
    SafetyTimeout = 2
    CheckDelays = {1, 2}
    MaxSem = 2
INVARIANTS
    StepInBounds
    OneSampleAfterStop
    FaultIsContinuous
    DisabledOnTimeout
    IInv
PROPERTIES
    SampleHasControls
    Stops
