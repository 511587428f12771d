SPECIFICATION Spec
CONSTANTS
    low = low
    high = high
    m1 = m1
    mson = mson
    b1 = b1
    bson = bson
    Code = {low, high}
    Highest <- MCHighest
    Maker = {m1, mson}
    Breaker = {b1}
    shared <- MakerShared
    Arg = {4}
    NUM_TURNS = 1
    MaxRound = 1
    MaxDebt = 1
    AllocSleeps = FALSE
    PageFaults = TRUE
    OddCounts = FALSE
SYMMETRY Symmetry
PROPERTY PasswordNotInRound
