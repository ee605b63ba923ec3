SPECIFICATION FairSpec
CONSTANTS
    N = 3
    Loop = 2
    Vals = {v, w, x}
    Exit = {x}
    NoVal = NoVal
    OneLine = {1, 3}
    MaxTime = 5
    MaxThreadCrashes = 2
    MaxSystemCrashes = 1
    Mixed = FALSE
INVARIANTS
    TypeOK
    RecordsReplay
    ResumesWhereItStopped
    ReplayRebuildsLocals
    ClockAheadOfSlots
PROPERTIES
    ReplaySpec
    RecoveryEnds
CHECK_DEADLOCK FALSE
