SPECIFICATION Spec
CONSTANT Lossy = TRUE
INVARIANTS IInv Alignment
PROPERTY AloneArrives
