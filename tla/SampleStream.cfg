SPECIFICATION Spec
CONSTANTS
    CsvRows <- StandAndDrive
    NoRow = NoRow
    StartSoc <- LowSoc
    MaxSamples = 4
    MaxTicks = 1
    MaxLag = 2
INVARIANTS
    IInv
    BatteryJudged
    PanelShowsDecision
PROPERTIES
    StopsStanding
