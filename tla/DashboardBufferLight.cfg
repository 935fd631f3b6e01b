SPECIFICATION FairSpec
CONSTANTS
    N = 6
    Msgs = {press, speed, gear}
    LongMsgs = {press}
    Blank = Blank
    MaxPending = 4
INVARIANTS
    IInv
PROPERTIES
    LoneMessageWhole
    ImplementsQueue
    Drained
