SPECIFICATION QueueSpec
CONSTANTS
    idle = idle  a = a  b = b  c = c  x = x  y = y
    NULL = NULL  WILD = WILD  RECEIVE = RECEIVE
    receivers_waiting = receivers_waiting  senders_waiting = senders_waiting
    WaitList = {receivers_waiting, senders_waiting}
    Task <- TasksABC
    Idle = idle
    MaxPriorities = 3
    BasePriority <- PrioABC
    TickMod = 4
    Managed = {}
    DelayArgs = {}
    Item = {x, y}
    Capacity = 2
    Senders = {a, c}
    Receivers = {b, c}
    SendTimeouts = {3}
    ReceiveTimeouts = {1}
INVARIANTS QueueTypeOK ListsConsistent
PROPERTY ImplementsQueue
