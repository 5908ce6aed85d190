CONSTANTS
    Count = 2
    Timeout = 2
    Delay = 1
    MaxExtra = 1
    Noise <- MCNoise6
SPECIFICATION Spec
INVARIANT LossInRange
CHECK_DEADLOCK FALSE
