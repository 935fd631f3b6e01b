SPECIFICATION FairSpec
CONSTANTS
    SensorValues <- PedalValues
    MaxOwn = 2
PROPERTIES
    RestartServed
