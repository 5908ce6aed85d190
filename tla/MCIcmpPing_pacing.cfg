CONSTANTS
    Count = 2
    Timeout = 1
    Delay = 3
    MaxExtra = 0
    Noise <- MCNoise
SPECIFICATION Spec
PROPERTY PacedSends
CHECK_DEADLOCK FALSE
