SPECIFICATION FairSpec
CONSTANTS
    Threads = {1, 2}
    Locs = {1}
    Scenarios <- ThreadsDie
    Initial = 10
    Skew <- NoSkew
    Offset = 0
    Reopen = 0
INVARIANTS LocationFollowsLog
PROPERTIES ObjectSpec AllReturn
CHECK_DEADLOCK FALSE
