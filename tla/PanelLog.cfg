SPECIFICATION Spec
CONSTANTS
    MAX_LOG_LINES = 3
    Heights = {4, 5, 6}
    Threads = {receiver, processor}
    NoThread = NoThread
    Blank = Blank
    Texts = {"a", "b"}
INVARIANTS
    IInv
PROPERTIES
    ImplementsLogView
