SPECIFICATION TimerSpec
CONSTANTS
    idle = idle  lo = lo  hi = hi  svc = svc  x = x  y = y
    NULL = NULL  WILD = WILD  sem = sem
    Task <- TasksSH
    Idle = idle
    MaxPriorities = 4
    BasePriority <- PrioSH
    WaitList = {sem}
    TickMod = 10
    Managed = {}
    DelayArgs = {1}
    InitialCount = 0
    MaxCount = 1
    TimeoutArgs = {}
    timer_task_tcb = svc
    Timer <- TimersXY
    Periodic = {x}
    InitialPeriod <- PeriodXY
    ResetPeriods = {2}
    Clients = {hi}
    MaxLag = 2
    MaxGap = 1
INVARIANTS TimerTypeOK ActiveListed SoonestFirst SleepBounded
