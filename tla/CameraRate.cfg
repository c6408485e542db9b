CONSTANTS
    Ticks = 10
    FpsValues = {5}
    RateValues = {2}
    NumFrames = 5
    Jitter = 1
    ClockBound = 40
SPECIFICATION Spec
INVARIANT SamplingRateRespected
