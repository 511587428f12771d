SPECIFICATION PlayersSafe
CONSTANTS
    right = right
    wrong = wrong
    Code = {right, wrong}
    Highest <- MCHighest
    Maker = {m1}
    Breaker = {b1, b2}
    shared <- Unshared
    Arg = {4}
    NUM_TURNS = 2
    MaxRound = 3
    MaxDebt = 1
    AllocSleeps = FALSE
    PageFaults = FALSE
    OddCounts = FALSE
    LeavesEarly = FALSE
    Quits = FALSE
CHECK_DEADLOCK FALSE
INVARIANT NoLostWakeupInWrite
