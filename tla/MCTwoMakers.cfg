SPECIFICATION Spec
CONSTANTS
    low = low
    high = high
    m1 = m1
    mson = mson
    b1 = b1
    bson = bson
    Code = {low, high}
    Highest <- MCHighest
    Maker = {m1, m2}
    Breaker = {b1, b2}
    shared <- Unshared
    Arg = {3, 4}
    NUM_TURNS = 2
    MaxRound = 2
    MaxDebt = 1
    AllocSleeps = TRUE
    PageFaults = FALSE
    OddCounts = FALSE
SYMMETRY Symmetry
VIEW ButReturns
INVARIANT MakersCounted
INVARIANT RoundHasPassword
INVARIANT TurnInHand
INVARIANT PlayingExact
INVARIANT PlayingBound
