SPECIFICATION FairSpec
CONSTANTS
    Threads = {1, 2}
    Nodes = {1, 2}
    MaxObjects = 2
    PinsPerCollect = 2
    CollectSteps = 1
    Scenarios <- All
INVARIANTS NotWhileHeld DestroyedOnce RunsPinned WholeMemento
PROPERTIES PinKept EpochNeverBack AllFinish
CHECK_DEADLOCK FALSE
