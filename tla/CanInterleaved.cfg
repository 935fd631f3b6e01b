SPECIFICATION Spec
CONSTANT Lossy = FALSE
PROPERTY EveryMessageArrives
