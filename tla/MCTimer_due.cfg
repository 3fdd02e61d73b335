SPECIFICATION FairTimerSpec
CONSTANTS
    idle = idle  lo = lo  hi = hi  svc = svc  x = x  y = y
    NULL = NULL  WILD = WILD  sem = sem
    Task <- TasksLS
    Idle = idle
    MaxPriorities = 4
    BasePriority <- PrioLS
    WaitList = {sem}
    TickMod = 10
    Managed = {}
    DelayArgs = {}
    InitialCount = 0
    MaxCount = 1
    TimeoutArgs = {}
    timer_task_tcb = svc
    Timer <- TimerX
    Periodic = {x}
    InitialPeriod <- PeriodX
    ResetPeriods = {}
    Clients = {lo}
    MaxLag = 2
    MaxGap = 1
INVARIANT SleepBounded
PROPERTY DueServed
