SPECIFICATION FairSpec
CONSTANTS
    Threads = {1, 2}
    Scenarios <- Crashes
INVARIANTS QueueFollowsLinks RetiredUnreachable
PROPERTIES FifoSpec AllReturn
CHECK_DEADLOCK FALSE
