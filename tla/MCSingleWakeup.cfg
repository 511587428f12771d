SPECIFICATION Spec
CONSTANTS
    low = low
    high = high
    b1 = b1
    bson = bson
    Code = {low, high}
    Highest <- MCHighest
    Maker = {m1}
    Breaker = {b1}
    shared <- Unshared
    Arg = {4}
    NUM_TURNS = 1
    MaxCount = 2
    MaxRound = 1
    MaxDebt = 1
    AllocSleeps = FALSE
    PageFaults = FALSE
    OddCounts = FALSE
SYMMETRY Symmetry
INVARIANT NoLostWakeupInRead
