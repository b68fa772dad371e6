SPECIFICATION Spec
CONSTANTS
    Kinds = {"copying"}
    Blocks = {1, 2, 3}
    ArraySize = 4
    MinimumSize = 3
    Base = 2
    MaxVarintBytes = 3
    Numbers = {1, 2, 5}
    Raws <- SomeRaws
    Junk = 9
    MaxBytes = 4
PROPERTIES
    ErrorsArePermanent
CHECK_DEADLOCK FALSE
