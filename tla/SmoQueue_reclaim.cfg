SPECIFICATION Spec
CONSTANTS
    Threads = {1, 2}
    Scenarios <- PowerFails
INVARIANTS RetiredOffTheList
CHECK_DEADLOCK FALSE
