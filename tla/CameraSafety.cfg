CONSTANTS
    Ticks = 10
    FpsValues = {0, 5}
    RateValues <- MCRateValues
    NumFrames = 5
    Jitter = 2
    ClockBound = 60
SPECIFICATION Spec
INVARIANTS TypeOK FullRateKeepsEveryFrame
