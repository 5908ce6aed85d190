CONSTANTS
    MaxRegs = 4
    None = None
    Undef = Undef
    RegVal = RegVal
    Vals = {a, b}
    Files <- MCFiles
    Args <- MCArgs
SPECIFICATION Spec
INVARIANT StoreSavesRequested
CHECK_DEADLOCK FALSE
