SPECIFICATION Spec
CONSTANTS
    Threads = {1, 2}
    Locs = {1}
    Scenarios <- PowerFails
    Initial = 10
    Skew <- NoSkew
    Offset = 0
    Reopen = 9
INVARIANTS DescriptorIntact LoadedIsDurable
PROPERTIES ObjectSpec
CHECK_DEADLOCK FALSE
