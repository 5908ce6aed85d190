CONSTANTS
    Count = 1
    Timeout = 2
    Delay = 2
    MaxExtra = 1
    Noise <- MCNoise6
SPECIFICATION Spec
PROPERTY WaitEndsOnReplyOrTimeout
CHECK_DEADLOCK FALSE
