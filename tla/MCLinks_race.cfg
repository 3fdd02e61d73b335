SPECIFICATION LinksSpec
CONSTANTS
    idle = idle  a = a  b = b  hi = hi
    NULL = NULL  WILD = WILD  sem = sem
    Task <- TasksABH
    Idle = idle
    MaxPriorities = 3
    BasePriority <- PrioABH
    TickMod = 4
    InitialCount = 0
    MaxCount = 1
    TimeoutArgs = {0, 1, 3}
    DelayArgs = {1}
    IsrDuringSwitch = TRUE
INVARIANT BitmapTrue
