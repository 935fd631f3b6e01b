SPECIFICATION Spec
CONSTANTS
    MaxBus = 3
    MaxStops = 2
INVARIANTS
    IInv
    AgreeUnlessParted
    EngineRowFollows
    SystemRowFollows
    StopsCounted
