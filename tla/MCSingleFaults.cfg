SPECIFICATION Spec
CONSTANTS
    low = low
    high = high
    b1 = b1
    bson = bson
    Code = {low, high}
    Highest <- MCHighest
    Maker = {m1}
    Breaker = {b1, b2, bson}
    shared <- BreakerShared
    Arg = {4}
    NUM_TURNS = 1
    MaxCount = 2
    MaxRound = 1
    MaxDebt = 1
    AllocSleeps = TRUE
    PageFaults = TRUE
    OddCounts = FALSE
SYMMETRY Symmetry
VIEW ButResults
INVARIANT TypeOK
INVARIANT BreakersNotForgotten
INVARIANT PlayersNotForgotten
INVARIANT TurnInHand
PROPERTY GuessKept
