SPECIFICATION SemSpec
CONSTANTS
    idle = idle  a = a  b = b  c = c  sem = sem
    NULL = NULL  WILD = WILD
    Task <- TasksABC
    Idle = idle
    MaxPriorities = 3
    BasePriority <- PrioABC
    WaitList = {sem}
    TickMod = 4
    Managed = {}
    DelayArgs = {}
    InitialCount = 0
    MaxCount = 1
    TimeoutArgs = {0, 1, 3}
INVARIANTS SemTypeOK ListsConsistent NoIdleUnits HighestReadyRuns
PROPERTIES ImplementsSemaphore ServedInOrder
