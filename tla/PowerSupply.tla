---------------------------- MODULE PowerSupply ----------------------------
(***************************************************************************)
(* The power-supply application (app/power_supply) on the kernel: four     *)
(* tasks of four priorities, the ADC and the USART interrupt, and the      *)
(* status they share, composed from the mutex, the semaphore and two       *)
(* queues of the kernel.                                                   *)
(*                                                                         *)
(* at[t] is the call t comes to next:                                      *)
(*   "init"     CommsTask: uart_bridge_init                                *)
(*   "wait"     the blocking call at the top (LoggerTask: end) of its loop *)
(*   "measure", "set", "get", "note"   ps_status_set_measurement,          *)
(*              _set_state, _get and _note_fault: a lock of g_status_mutex *)
(*              and, once it is held, the access and the unlock            *)
(* A task touches the status, and its own variables, only while it holds   *)
(* the mutex or where no other task looks, so such code is part of the     *)
(* kernel call behind it.                                                  *)
(*                                                                         *)
(* Measurements, the texts that are printed and fault_count are left out:  *)
(* no decision of the program depends on them.  The timer service sleeps   *)
(* for ever here, for the application starts no timer.                     *)
(***************************************************************************)
EXTENDS Mutex

CONSTANTS
    protection_tcb, control_tcb, comms_tcb, logger_tcb,
    g_status_mutex, g_fault_semaphore,  \* also name their wait lists
    adc_rx, adc_tx, uart_rx, uart_tx,   \* the wait lists of the two queues
    ADC_QUEUE_DEPTH, UART_RX_QUEUE_DEPTH,
    SOFT_START_RAMP_STEPS,
    CLI_LINE_BUF_LEN,
    LOGGER_PERIOD_TICKS,
    RECEIVE         \* see Queue

ASSUME PowerSupplyAssumption ==
    /\ Task = {Idle, protection_tcb, control_tcb, comms_tcb, logger_tcb}
    /\ BasePriority[logger_tcb] < BasePriority[comms_tcb]
    /\ BasePriority[comms_tcb] < BasePriority[control_tcb]
    /\ BasePriority[control_tcb] < BasePriority[protection_tcb]
    /\ mutexes = {g_status_mutex} /\ Managed = {}
    /\ Cardinality({g_status_mutex, g_fault_semaphore,
                    adc_rx, adc_tx, uart_rx, uart_tx}) = 6
    /\ {g_fault_semaphore, adc_rx, adc_tx, uart_rx, uart_tx} \subseteq WaitList
    /\ {ADC_QUEUE_DEPTH, UART_RX_QUEUE_DEPTH, SOFT_START_RAMP_STEPS,
        CLI_LINE_BUF_LEN, LOGGER_PERIOD_TICKS} \subseteq Nat \ {0}
    /\ LOGGER_PERIOD_TICKS \in TickCount

VARIABLES
    at,             \* see above
    state,          \* g_status.state
    fault_units,    \* g_fault_semaphore.count
    got,            \* what ProtectionTask's last take returned
    adc, uart,      \* g_adc_sample_queue and g_uart_rx_queue
    arg, out,       \* see Queue
    local_state, soft_start_step,   \* ControlTask's statics
    line_len,       \* CommsTask's local
    tripped         \* not in the code: a fault was detected and not yet noted
semState == <<fault_units, got>>
queues == <<adc, uart, arg, out>>
locals == <<local_state, soft_start_step, line_len>>
appVars == <<mvars, at, state, semState, queues, locals, tripped>>

Fault == INSTANCE Semaphore WITH sem <- g_fault_semaphore, InitialCount <- 0,
                                 MaxCount <- 1, count <- fault_units
Adc == INSTANCE Queue WITH q <- adc, receivers_waiting <- adc_rx,
                           senders_waiting <- adc_tx, Capacity <- ADC_QUEUE_DEPTH,
                           Item <- {"sample"}, Senders <- {}, Receivers <- {control_tcb},
                           SendTimeouts <- {}, ReceiveTimeouts <- {WAIT_FOREVER}
Uart == INSTANCE Queue WITH q <- uart, receivers_waiting <- uart_rx,
                            senders_waiting <- uart_tx, Capacity <- UART_RX_QUEUE_DEPTH,
                            Item <- {"byte"}, Senders <- {}, Receivers <- {comms_tcb},
                            SendTimeouts <- {}, ReceiveTimeouts <- {WAIT_FOREVER}

\* main, ps_shared_init and the statics' initial values.
AppInit ==
    /\ MutexInit
    /\ at = [t \in Task |-> CASE t = comms_tcb -> "init"
                              [] t = logger_tcb -> "get"
                              [] OTHER -> "wait"]
    /\ state = "IDLE"
    /\ Fault!SemInit /\ Adc!QueueInit /\ Uart!QueueInit
    /\ local_state = "IDLE" /\ soft_start_step = 0 /\ line_len = 0
    /\ tripped = FALSE

Goto(t, place) == at' = [at EXCEPT ![t] = place]

\* Where t is after the first part of a blocking call: in it, or behind it.
AfterCall(t, place) == Goto(t, IF pc'[t] = "block" THEN "wait" ELSE place)

-----------------------------------------------------------------------------
(* The status: power_supply.c. *)

Holds(t) == held[t][g_status_mutex] > 0
InStatusCall(t) == at[t] \in {"measure", "set", "get", "note"}

lock_status(t) ==
    /\ InStatusCall(t) /\ ~Holds(t)
    /\ \/ lock_now(t, g_status_mutex)
       \/ lock_block(t, g_status_mutex, WAIT_FOREVER)
       \/ lock_resumed(t)
    /\ UNCHANGED <<at, state, semState, queues, locals, tripped>>

\* The end of the access and of the call at[t].
Accesses(t, place) ==
    /\ at[t] = place /\ Holds(t)
    /\ unlock(t, g_status_mutex)
    /\ UNCHANGED <<semState, queues>>

-----------------------------------------------------------------------------
(* ProtectionTask. *)

wait_for_fault ==
    /\ at[protection_tcb] = "wait"
    /\ \/ Fault!semaphore_take(protection_tcb, WAIT_FOREVER)
       \/ Fault!semaphore_take_resumed(protection_tcb)
    /\ AfterCall(protection_tcb, IF got'[protection_tcb] = "OK" THEN "note" ELSE "wait")
    /\ UNCHANGED <<mutexState, state, queues, locals, tripped>>

ps_status_note_fault ==
    /\ Accesses(protection_tcb, "note")
    /\ state' = "FAULT"
    /\ tripped' = FALSE
    /\ Goto(protection_tcb, "wait")
    /\ UNCHANGED locals

-----------------------------------------------------------------------------
(* ControlTask. *)

\* A receive that finds nothing is repeated.
receive_sample ==
    /\ at[control_tcb] = "wait"
    /\ \/ Adc!queue_receive(control_tcb, WAIT_FOREVER)
       \/ Adc!queue_receive_resumed(control_tcb)
    /\ AfterCall(control_tcb, IF adc' # adc THEN "measure" ELSE "wait")
    /\ UNCHANGED <<mutexState, state, semState, uart, locals, tripped>>

\* Mutant: the machine starts again after a fault.
Bug_run_state_machine_restart ==
    /\ Accesses(control_tcb, "measure")
    /\ local_state' = IF local_state \in {"IDLE", "FAULT"} THEN "SOFT_START" ELSE "RUNNING"
    /\ Goto(control_tcb, IF local_state' = local_state THEN "get" ELSE "set")
    /\ UNCHANGED <<state, soft_start_step, line_len, tripped>>

\* ps_status_set_measurement, then the switch of run_state_machine: it moves
\* ControlTask's own copy of the state, which is to be written if it changed.
run_state_machine ==
    /\ Accesses(control_tcb, "measure")
    /\ \/ /\ local_state = "IDLE"
          /\ local_state' = "SOFT_START" /\ soft_start_step' = 0
          /\ Goto(control_tcb, "set")
       \/ /\ local_state = "SOFT_START"
          /\ soft_start_step' = soft_start_step + 1
          /\ IF soft_start_step' >= SOFT_START_RAMP_STEPS
             THEN local_state' = "RUNNING" /\ Goto(control_tcb, "set")
             ELSE UNCHANGED local_state /\ Goto(control_tcb, "get")
       \/ /\ local_state \in {"RUNNING", "FAULT"}
          /\ Goto(control_tcb, "get")
          /\ UNCHANGED <<local_state, soft_start_step>>
    /\ UNCHANGED <<state, line_len, tripped>>

ps_status_set_state ==
    /\ Accesses(control_tcb, "set")
    /\ state' = local_state
    /\ Goto(control_tcb, "get")
    /\ UNCHANGED <<locals, tripped>>

\* The end of run_state_machine: a fault someone noted stops the machine.
resync ==
    /\ Accesses(control_tcb, "get")
    /\ local_state' = IF state = "FAULT" THEN "FAULT" ELSE local_state
    /\ Goto(control_tcb, "wait")
    /\ UNCHANGED <<state, soft_start_step, line_len, tripped>>

-----------------------------------------------------------------------------
(* CommsTask and LoggerTask. *)

\* Until then the queue has capacity 0 and the interrupt finds it full.
uart_bridge_init ==
    /\ Calls(comms_tcb) /\ at[comms_tcb] = "init"
    /\ Goto(comms_tcb, "wait")
    /\ UNCHANGED <<mvars, state, semState, queues, locals, tripped>>

\* Mutant: the length is not bounded.
Bug_handle_byte_unbounded ==
    /\ line_len' \in {0, line_len + 1}
    /\ Goto(comms_tcb, "wait")

\* A byte of the line, or the end of one, which may be the command "status".
\* What a byte is makes no difference before CommsTask looks at it.
handle_byte ==
    \/ /\ line_len' = IF line_len < CLI_LINE_BUF_LEN - 1 THEN line_len + 1 ELSE line_len
       /\ Goto(comms_tcb, "wait")
    \/ line_len' = 0 /\ Goto(comms_tcb, "wait")
    \/ line_len > 0 /\ line_len' = 0 /\ Goto(comms_tcb, "get")

receive_byte ==
    /\ at[comms_tcb] = "wait"
    /\ \/ Uart!queue_receive(comms_tcb, WAIT_FOREVER)
       \/ Uart!queue_receive_resumed(comms_tcb)
    /\ IF uart' # uart THEN handle_byte ELSE UNCHANGED <<at, line_len>>
    /\ UNCHANGED <<mutexState, state, semState, adc, local_state, soft_start_step, tripped>>

\* ps_status_get, by CommsTask for a command and by LoggerTask in every round.
read_status(t) ==
    /\ t \in {comms_tcb, logger_tcb}
    /\ Accesses(t, "get")
    /\ Goto(t, "wait")
    /\ UNCHANGED <<state, locals, tripped>>

logger_delay ==
    /\ at[logger_tcb] = "wait"
    /\ task_delay(logger_tcb, LOGGER_PERIOD_TICKS)
    /\ Goto(logger_tcb, "get")
    /\ UNCHANGED <<mutexState, state, semState, queues, locals, tripped>>

-----------------------------------------------------------------------------
(* The interrupts, isr_bridge.c. *)

\* Mutants: a sample that finds the queue full is not looked at; only the fault's
\* flag leads to a switch.
Bug_ADC_full_returns(over) ==
    LET full == adc.count = ADC_QUEUE_DEPTH
        fault == over /\ ~full
        k1 == IF full THEN k ELSE wake_waiter(k, adc_rx)
        k2 == IF fault THEN wake_waiter(k1, g_fault_semaphore) ELSE k1
    IN  /\ k.current # NULL
        /\ k' = IF k2 # k THEN request_context_switch(k2) ELSE k
        /\ IF full THEN UNCHANGED adc ELSE Adc!copy_in("sample")
        /\ IF fault THEN Fault!give_unit ELSE UNCHANGED fault_units
        /\ tripped' = (tripped \/ over)
        /\ UNCHANGED <<pc, mutexState, at, state, got, uart, arg, out, locals>>

Bug_ADC_flag_dropped(over) ==
    LET k1 == wake_waiter(k, adc_rx)
        k2 == IF over THEN wake_waiter(k1, g_fault_semaphore) ELSE k1
        needs_yield == over /\ k.waiters[g_fault_semaphore] # << >>
    IN  /\ k.current # NULL /\ adc.count < ADC_QUEUE_DEPTH
        /\ k' = IF needs_yield THEN request_context_switch(k2) ELSE k2
        /\ Adc!copy_in("sample")
        /\ IF over THEN Fault!give_unit /\ tripped' = TRUE
                   ELSE UNCHANGED <<fault_units, tripped>>
        /\ UNCHANGED <<pc, mutexState, at, state, got, uart, arg, out, locals>>

\* A sample is queued if there is room; one over a limit also gives a fault.
ADC_IRQHandler(over) ==
    LET sent == adc.count < ADC_QUEUE_DEPTH
        k1 == IF sent THEN wake_waiter(k, adc_rx) ELSE k
        k2 == IF over THEN wake_waiter(k1, g_fault_semaphore) ELSE k1
        needs_yield == \/ sent /\ k.waiters[adc_rx] # << >>
                       \/ over /\ k1.waiters[g_fault_semaphore] # << >>
    IN  /\ k.current # NULL
        /\ k' = IF needs_yield THEN request_context_switch(k2) ELSE k2
        /\ IF sent THEN Adc!copy_in("sample") ELSE UNCHANGED adc
        /\ IF over THEN Fault!give_unit /\ tripped' = TRUE
                   ELSE UNCHANGED <<fault_units, tripped>>
        /\ UNCHANGED <<pc, mutexState, at, state, got, uart, arg, out, locals>>

\* A byte that finds the queue full, or not initialised, is dropped.
USART1_IRQHandler ==
    /\ at[comms_tcb] # "init"
    /\ Uart!queue_send_from_isr("byte")
    /\ UNCHANGED <<mutexState, at, state, semState, adc, locals, tripped>>

-----------------------------------------------------------------------------
PortAppStep ==
    /\ BootStep \/ PortStep
    /\ UNCHANGED <<mutexState, at, state, semState, queues, locals, tripped>>

ProtectionStep == wait_for_fault \/ ps_status_note_fault \/ lock_status(protection_tcb)
ControlStep == \/ receive_sample \/ run_state_machine \/ ps_status_set_state \/ resync
               \/ lock_status(control_tcb)
CommsStep == \/ uart_bridge_init \/ receive_byte \/ read_status(comms_tcb)
             \/ lock_status(comms_tcb)
LoggerStep == read_status(logger_tcb) \/ logger_delay \/ lock_status(logger_tcb)

IrqStep == \/ \E over \in BOOLEAN : ADC_IRQHandler(over)
           \/ USART1_IRQHandler

AppNext == ProtectionStep \/ ControlStep \/ CommsStep \/ LoggerStep \/ IrqStep \/ PortAppStep

AppSpec == AppInit /\ [][AppNext]_appVars

-----------------------------------------------------------------------------
(* Properties. *)

Place == {"init", "wait", "measure", "set", "get", "note"}
PsState == {"IDLE", "SOFT_START", "RUNNING", "FAULT"}

\* AppTypeOK: the types of the kernel, the mutex and the application; a line of
\* any length leaves CommsTask an index inside line_buf.
AppTypeOK ==
    /\ MutexTypeOK
    /\ at \in [Task -> Place]
    /\ {state, local_state} \subseteq PsState
    /\ fault_units \in 0 .. 1 /\ soft_start_step \in 0 .. SOFT_START_RAMP_STEPS
    /\ adc.count \in 0 .. ADC_QUEUE_DEPTH /\ uart.count \in 0 .. UART_RX_QUEUE_DEPTH
    /\ line_len \in 0 .. CLI_LINE_BUF_LEN - 1

\* TripPending: a fault an interrupt detected is not lost until ProtectionTask
\* notes it, whether or not the sample it was in found room in the queue and
\* however many faults come meanwhile: the semaphore has a unit, or the task is
\* on its way to ps_status_note_fault.
TripPending ==
    tripped => \/ fault_units = 1
               \/ at[protection_tcb] = "note"
               \/ /\ at[protection_tcb] = "wait" /\ InLock(protection_tcb)
                  /\ k.state[protection_tcb] # "BLOCKED"
                  /\ k.last_wait_result[protection_tcb] = "OK"

\* ReceiverServed: with one receiver and no blocking senders, neither task is left
\* blocked in nimble_queue_receive beside a sample or a byte.
ReceiverServed ==
    /\ k.waiters[adc_rx] # << >> => adc.count = 0
    /\ k.waiters[uart_rx] # << >> => uart.count = 0

\* ReceiveFindsItem: a receive that was woken finds an item, so the `continue`
\* for a failed receive in both loops is "defensive only".
ReceiveFindsItem ==
    LET Resuming(t) == Executes(t) /\ at[t] = "wait" /\ pc[t] = "wake"
    IN  /\ Resuming(control_tcb) => adc.count > 0
        /\ Resuming(comms_tcb) => uart.count > 0

\* WokenPreempts: a task an interrupt, an unlock or a tick puts in a ready list
\* above the running task's priority runs before that task goes on, also when
\* one interrupt wakes two tasks.  (Inheritance does not move tasks between
\* lists, so an owner boosted in a lower list is not meant here.)
WokenPreempts ==
    \A t \in Task : Executes(t) /\ pc[t] \in {"app", "wake"} =>
        \A p \in Prio : p > k.priority[t] => k.ready[p] = << >>

\* FaultSticks: once ControlTask has seen a fault, it stays: the state machine
\* does not start again and the status is FAULT for good.
FaultSticks ==
    [][local_state = "FAULT" => local_state' = "FAULT" /\ state' = "FAULT"]_appVars

\* FaultTerminal: FAULT "is a terminal state until an external command clears it",
\* and there is no such command.
FaultTerminal == [][state = "FAULT" => state' = "FAULT"]_appVars
=============================================================================
