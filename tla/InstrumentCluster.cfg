SPECIFICATION FairSpec
CONSTANTS
    Writers = {w1, w2}
    MaxPipe = 3
INVARIANTS
    TypeOK
    LoneTextKept
PROPERTIES
    LoneObeyed
    RoundEnds
CHECK_DEADLOCK FALSE
