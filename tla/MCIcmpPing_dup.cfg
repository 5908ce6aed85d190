CONSTANTS
    Count = 1
    Timeout = 2
    Delay = 1
    MaxExtra = 1
    Noise <- MCNoise
SPECIFICATION Spec
INVARIANT VerifiedLeRequests
CHECK_DEADLOCK FALSE
