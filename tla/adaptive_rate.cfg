SPECIFICATION Spec
CONSTANTS
    Responders = {r1, r2}
    Rtts <- MCRtts
    AdjustEvery = 2
    WindowReset = 4
    HighDen = 2
    LowDen = 4
    Floor = 2
    One = 20
    StartRate = 40
    MaxRate = 42
    SetRates = {0, 50}
    MaxCalls = 7
INVARIANTS RateInRange SrttWithinSamples LossesAccounted AdjustmentsSpaced
CHECK_DEADLOCK FALSE
