SPECIFICATION FairSpec
CONSTANTS
    Preemptible = FALSE
    MaxQueued = 5
INVARIANTS NothingLeftBehind CalendarInUse
PROPERTY UnloadFinishes
CHECK_DEADLOCK FALSE
