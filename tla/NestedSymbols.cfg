SPECIFICATION Spec
CONSTANTS
    Protos <- Nested
    Encoded <- BothFiles
    MaxBad = 1
INVARIANTS
    NoSymbolInsideAnother
CHECK_DEADLOCK FALSE
