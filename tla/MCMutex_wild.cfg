SPECIFICATION MutexSpec
CONSTANTS
    idle = idle  lo = lo  mid = mid  hi = hi  m1 = m1  m2 = m2
    NULL = NULL  WILD = WILD
    Task <- TasksLMH
    Idle = idle
    MaxPriorities = 4
    BasePriority <- PrioLMH
    WaitList = {m1}
    mutexes = {m1}
    TickMod = 4
    Managed = {}
    DelayArgs = {1}
    TimeoutArgs = {0, 1, 3}
    MaxDepth = 2
INVARIANT SelectsRealTask
