SPECIFICATION GameSpec
CONSTANTS
    right = right
    wrong = wrong
    maker = maker
    Code = {right, wrong}
    Highest <- MCHighest
    Maker = {maker}
    Breaker = {b1, b2}
    shared <- Unshared
    Arg = {10}
    NUM_TURNS = 1
    MaxRound = 1
    MaxDebt = 1
    AllocSleeps = FALSE
    PageFaults = FALSE
    OddCounts = FALSE
    num_of_rounds = 1
CHECK_DEADLOCK FALSE
PROPERTY FeedbackIsRead
