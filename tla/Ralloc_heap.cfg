SPECIFICATION FairSpec
CONSTANTS
    Threads = {1, 2}
    Scenarios <- All
    BlockNum <- OneAndTwo
    Expand = 3
    LargeSize = 2
    Region = 9
INVARIANTS OneOwner NothingForgotten PartialListSound CodeAssertions
PROPERTIES AllocatorSpec OperationsReturn
CHECK_DEADLOCK FALSE
