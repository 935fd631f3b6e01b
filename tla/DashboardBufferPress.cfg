SPECIFICATION Spec
CONSTANTS
    N = 5
    Msgs = {press, speed}
    LongMsgs = {press}
    Blank = Blank
    MaxPending = 1
INVARIANTS
    PressRecognised
