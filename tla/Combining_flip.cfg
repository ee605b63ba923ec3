SPECIFICATION Spec
CONSTANTS
    Threads = {1, 2}
    Rounds = 2
    Scenarios <- DiesTwice
INVARIANTS AppliedOnce
CHECK_DEADLOCK FALSE
