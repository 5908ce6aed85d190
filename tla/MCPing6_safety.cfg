CONSTANTS
    Count = 2
    Timeout = 2
    Delay = 3
    MaxExtra = 2
    Noise <- MCNoise6
SPECIFICATION FairSpec
INVARIANT TypeOK
INVARIANT WaitInv
PROPERTY NoEarlyNoResponse
PROPERTY Termination
CHECK_DEADLOCK FALSE
