SPECIFICATION FairSpec
CONSTANTS
    SensorValues <- PulseValues
    MaxOwn = 1
PROPERTIES
    RequestDetected
