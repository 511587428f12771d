SPECIFICATION ScriptsSpec
CONSTANTS
    right = right
    wrong = wrong
    illegal = illegal
    m1 = m1
    m2 = m2
    b1 = b1
    b2 = b2
    b3 = b3
    Code = {right, wrong, illegal}
    Highest <- MCHighest
    Maker = {m1, m2}
    Breaker = {b1, b2, b3}
    shared <- Unshared
    Arg = {}
    NUM_TURNS = 10
    MaxRound = 9
    MaxDebt = 1
    AllocSleeps = FALSE
    PageFaults = FALSE
    OddCounts = FALSE
    Orders <- MCMainFirst
CHECK_DEADLOCK FALSE
PROPERTY ChecksPass
