SPECIFICATION FairTaskSpec
CONSTANTS
    idle = idle  a = a  b = b  c = c
    NULL = NULL  WILD = WILD
    Task <- TasksABC
    Idle = idle
    MaxPriorities = 3
    BasePriority <- PrioABC
    WaitList <- NoWaitList
    TickMod = 4
    Managed = {b}
    DelayArgs = {1, 3}
INVARIANTS TypeOK ListsConsistent DeadlineAhead HighestReadyRuns
PROPERTIES WakesOnTime RoundRobin
