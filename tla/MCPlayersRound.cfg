SPECIFICATION PlayersSpec
CONSTANTS
    right = right
    wrong = wrong
    Code = {right, wrong}
    Highest <- MCHighest
    Maker = {m1}
    Breaker = {b1, b2, b3}
    shared <- Unshared
    Arg = {4}
    NUM_TURNS = 2
    MaxRound = 1
    MaxDebt = 1
    AllocSleeps = FALSE
    PageFaults = FALSE
    OddCounts = FALSE
    LeavesEarly = FALSE
    Quits = FALSE
INVARIANT PlayersTypeOK
PROPERTY FeedbackIsOwn
PROPERTY GuessIsAnswered
PROPERTY WriterIsServed
PROPERTY ImplementsSlot
