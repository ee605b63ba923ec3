SPECIFICATION FairSpec
CONSTANTS
    Threads = {1, 2}
    Rounds = 2
    Scenarios <- Combines
INVARIANTS AppliedOnce PeekedIsNotNull OneCombiner
PROPERTIES CommittedGrows AllReturn
CHECK_DEADLOCK FALSE
