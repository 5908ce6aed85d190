CONSTANTS
    Count = 2
    Timeout = 2
    Delay = 1
    MaxExtra = 2
    Noise <- MCNoise
SPECIFICATION FairSpec
INVARIANT TypeOK
INVARIANT MarkerMeansRoundTrip
INVARIANT RoundTripInv
INVARIANT TimeoutInv
PROPERTY NoTimeoutAfterRoundTrip
PROPERTY NoEarlyTimeout
PROPERTY Termination
PROPERTY ImplementsPingSession
CHECK_DEADLOCK FALSE
