SPECIFICATION ThreadsSpec
CONSTANTS
    maker = maker
    game1 = game1
    game2 = game2
    game3 = game3
    right = right
    first = first
    third = third
    Code = {right, first, third}
    Highest <- MCHighest
    Maker = {maker}
    Breaker = {game1, game2, game3}
    shared <- Unshared
    Arg = {4}
    NUM_TURNS = 10
    MaxRound = 1
    MaxDebt = 1
    AllocSleeps = FALSE
    PageFaults = FALSE
    OddCounts = FALSE
    Answers = 3
CHECK_DEADLOCK FALSE
INVARIANT AssertionsHold
