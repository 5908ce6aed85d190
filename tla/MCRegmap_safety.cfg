CONSTANTS
    MaxRegs = 4
    None = None
    Undef = Undef
    RegVal = RegVal
    Vals = {a, b}
    Files <- MCFiles
    Args <- MCArgs
SPECIFICATION FairSpec
INVARIANT TypeOK
INVARIANT DevClosedOnReturn
PROPERTY Termination
CHECK_DEADLOCK FALSE
