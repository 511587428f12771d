SPECIFICATION Spec
CONSTANTS
    low = low
    high = high
    m1 = m1
    mson = mson
    b1 = b1
    bson = bson
    Code = {low, high}
    Highest <- MCHighest
    Maker = {m1}
    Breaker = {b1, b2}
    shared <- Unshared
    Arg = {4}
    NUM_TURNS = 1
    MaxRound = 2
    MaxDebt = 1
    AllocSleeps = FALSE
    PageFaults = FALSE
    OddCounts = FALSE
SYMMETRY Symmetry
PROPERTY EOFOnlyWithoutPlayers
