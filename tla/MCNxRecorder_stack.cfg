CONSTANTS
    BufLen = 64
    Inputs <- MCInputs
SPECIFICATION Spec
INVARIANT StackSafe
CHECK_DEADLOCK FALSE
