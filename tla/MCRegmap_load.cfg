CONSTANTS
    MaxRegs = 4
    None = None
    Undef = Undef
    RegVal = RegVal
    Vals = {a, b}
    Files <- MCFiles
    Args <- MCLoads
SPECIFICATION Spec
INVARIANT LoadSendsFile
CHECK_DEADLOCK FALSE
