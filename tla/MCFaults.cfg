SPECIFICATION Spec
CONSTANTS
    low = low
    high = high
    m1 = m1
    mson = mson
    b1 = b1
    bson = bson
    Code = {low, high}
    Highest <- MCHighest
    Maker = {m1, m2}
    Breaker = {b1, b2, bson}
    shared <- BreakerShared
    Arg = {4}
    NUM_TURNS = 1
    MaxRound = 1
    MaxDebt = 1
    AllocSleeps = FALSE
    PageFaults = TRUE
    OddCounts = TRUE
SYMMETRY Symmetry
VIEW ButReturns
INVARIANT TypeOK
INVARIANT BreakersCounted
INVARIANT PlayingExact
INVARIANT NoLostWakeupInRead
INVARIANT AtMostOneMaker
PROPERTY PasswordFrozen
