SPECIFICATION Spec
CONSTANTS
    N = 2
    Loop = 2
    Vals = {v, w, x}
    Exit = {x}
    NoVal = NoVal
    OneLine = {1, 2}
    MaxTime = 3
    MaxThreadCrashes = 1
    MaxSystemCrashes = 1
    Mixed = TRUE
INVARIANTS
    PrologueRunsOnce
CHECK_DEADLOCK FALSE
