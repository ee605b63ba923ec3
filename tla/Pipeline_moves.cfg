SPECIFICATION FairSpec
CONSTANTS
    Threads = {1, 2}
    Progs <- All
    Mortal = {1}
    MaxCrashes = 1
INVARIANTS ContentsFollowLinks RetiredUnreachable AllRetired
PROPERTIES ContainerSpec AllReturn
CHECK_DEADLOCK FALSE
