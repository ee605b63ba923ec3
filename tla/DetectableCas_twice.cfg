SPECIFICATION Spec
CONSTANTS
    Threads = {1, 2}
    Locs = {1}
    Scenarios <- TwiceOnce
    Initial = 10
    Skew <- NoSkew
    Offset = 0
    Reopen = 0
INVARIANTS ExactlyOnce
CHECK_DEADLOCK FALSE
