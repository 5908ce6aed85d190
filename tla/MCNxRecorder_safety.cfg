CONSTANTS
    BufLen = 64
    Inputs <- MCAllInputs
SPECIFICATION FairSpec
INVARIANT TypeOK
PROPERTY StoppedOnRelease
PROPERTY QuitEndsSession
CHECK_DEADLOCK FALSE
