SPECIFICATION AppSpec
CONSTANTS
    idle = idle  protection = protection  control = control  comms = comms  logger = logger
    NULL = NULL  WILD = WILD  RECEIVE = RECEIVE
    Task <- AppTasks
    Idle = idle
    protection_tcb = protection  control_tcb = control  comms_tcb = comms  logger_tcb = logger
    MaxPriorities = 5
    BasePriority <- AppPriorities
    g_status_mutex = status_mutex  g_fault_semaphore = fault_semaphore
    adc_rx = adc_rx  adc_tx = adc_tx  uart_rx = uart_rx  uart_tx = uart_tx
    WaitList = {status_mutex, fault_semaphore, adc_rx, adc_tx, uart_rx, uart_tx}
    mutexes = {status_mutex}
    TickMod = 4
    Managed = {}
    DelayArgs = {}
    TimeoutArgs = {}
    MaxDepth = 1
    ADC_QUEUE_DEPTH = 2
    UART_RX_QUEUE_DEPTH = 1
    SOFT_START_RAMP_STEPS = 2
    CLI_LINE_BUF_LEN = 2
    LOGGER_PERIOD_TICKS = 1
VIEW ShiftedTicks
INVARIANTS AppTypeOK SelectsRealTask TripPending ReceiverServed ReceiveFindsItem WokenPreempts
PROPERTY FaultSticks
