----------------------------- MODULE LogPort -----------------------------
(***************************************************************************)
(* ALT_LOG: messages written to the JTAG UART's transmit FIFO by polling,  *)
(* by main() (boot messages, the driver's start, the echo of write()) and  *)
(* by handlers (the clock's heartbeat, the periodic status, the UART's own *)
(* interrupt), beside the UART driver, which fills the same FIFO.  A       *)
(* handler may come between any two steps of main(); messages are MsgLen   *)
(* characters.                                                             *)
(***************************************************************************)
EXTENDS Integers, Sequences

CONSTANTS
  Levels,    \* the settings of ALT_LOG_FLAGS looked at, 4 for -1
  Depth,     \* characters the FIFO holds
  MsgLen,    \* characters of a message
  Interval,  \* ALT_LOG_SYS_CLK_INTERVAL, in ticks
  Ticks      \* ALT_LOG_JTAG_UART_TICKS

LogAssumption ==
  /\ Levels \subseteq 0 .. 4 /\ Depth \in Nat \ {0} /\ MsgLen \in Nat \ {0}
  /\ Interval \in Nat /\ Ticks \in Nat \ {0}

Who == {"main", "isr"}

VARIABLES
  level,        \* ALT_LOG_FLAGS
  stage,        \* main(): before, in and after alt_sys_init
  running,      \* who runs
  at, left,     \* each writer: idle, testing or putting; characters to go
  todo,         \* what the handler has still to do
  fifo,         \* characters in the FIFO
  lost,         \* whose characters met a full FIFO
  filled,       \* a handler has written since main() last found space
  sysClkCount,  \* alt_log_sys_clk_count
  alarm,        \* ticks to the next status report
  since, late   \* ticks since the heartbeat before; one came at another tick

clock == <<sysClkCount, alarm, since, late>>
vars  == <<level, stage, running, at, left, todo, fifo, lost, filled, clock>>

(***************************************************************************)
(* The flags.                                                              *)
(***************************************************************************)
BootOn    == level # 4
SysClkOn  == level \in {1, 2, 3}
WriteOn   == level \in {2, 3}
AlarmOn   == level \in {2, 3}
StartupOn == level \in {1, 2, 3}
IsrOn     == level = 3

Init ==
  /\ level \in Levels /\ stage = "boot" /\ running = "main"
  /\ at = [w \in Who |-> "idle"] /\ left = [w \in Who |-> 0] /\ todo = <<>>
  /\ fifo = 0 /\ lost = {} /\ filled = FALSE
  /\ sysClkCount = 0 /\ alarm = Ticks /\ since = 0 /\ late = FALSE

(***************************************************************************)
(* alt_log_txchar, two steps for each character.                           *)
(***************************************************************************)
Starts(w) == at' = [at EXCEPT ![w] = "test"] /\ left' = [left EXCEPT ![w] = MsgLen]

Test(w) ==
  /\ running = w /\ at[w] = "test" /\ fifo < Depth /\ at' = [at EXCEPT ![w] = "put"]
  /\ filled' = (w = "isr" /\ filled)
  /\ UNCHANGED <<level, stage, running, left, todo, fifo, lost, clock>>

Put(w) ==
  /\ running = w /\ at[w] = "put"
  /\ IF fifo < Depth THEN fifo' = fifo + 1 /\ UNCHANGED lost
     ELSE lost' = lost \cup {w} /\ UNCHANGED fifo
  /\ filled' = (w = "isr" \/ filled)
  /\ left' = [left EXCEPT ![w] = @ - 1]
  /\ at' = [at EXCEPT ![w] = IF left[w] = 1 THEN "idle" ELSE "test"]
  /\ UNCHANGED <<level, stage, running, todo, clock>>

HostReads ==
  /\ fifo > 0 /\ fifo' = fifo - 1
  /\ UNCHANGED <<level, stage, running, at, left, todo, lost, filled, clock>>

(***************************************************************************)
(* main().                                                                 *)
(***************************************************************************)
\* ALT_LOG_PUTS and ALT_LOG_PRINT_BOOT, before the drivers are there and after.
Boot ==
  /\ running = "main" /\ at["main"] = "idle" /\ BootOn /\ Starts("main")
  /\ UNCHANGED <<level, stage, running, todo, fifo, lost, filled, clock>>

\* altera_avalon_jtag_uart_init: the handler is registered, then the status.
SysInit ==
  /\ running = "main" /\ at["main"] = "idle" /\ stage = "boot" /\ stage' = "up"
  /\ IF StartupOn THEN Starts("main") ELSE UNCHANGED <<at, left>>
  /\ UNCHANGED <<level, running, todo, fifo, lost, filled, clock>>

\* alt_write's echo.
Write ==
  /\ running = "main" /\ at["main"] = "idle" /\ stage = "up" /\ WriteOn /\ Starts("main")
  /\ UNCHANGED <<level, stage, running, todo, fifo, lost, filled, clock>>

(***************************************************************************)
(* The handlers.                                                           *)
(***************************************************************************)
If(b) == IF b THEN <<"print">> ELSE <<>>

\* alt_log_system_clock counts a tick.
Beat ==
  LET n == sysClkCount + 1 IN
  IF SysClkOn THEN sysClkCount' = (IF n > Interval THEN 0 ELSE n) ELSE UNCHANGED sysClkCount

Beats == SysClkOn /\ sysClkCount + 1 > Interval

\* altera_avalon_jtag_uart_report_log's return value.
Rearm == IF AlarmOn THEN Ticks ELSE 0

\* alt_avalon_timer_sc_irq: the heartbeat, then alt_tick with the report's alarm.
TimerIrq ==
  LET reports == AlarmOn /\ alarm = 1 IN
  /\ running = "main" /\ stage = "up" /\ running' = "isr"
  /\ Beat /\ todo' = If(Beats) \o If(reports)
  /\ alarm' = (IF ~AlarmOn \/ alarm = 0 THEN alarm ELSE IF reports THEN Rearm ELSE alarm - 1)
  /\ since' = (IF Beats THEN 0 ELSE IF since > Interval THEN since ELSE since + 1)
  /\ late' = (late \/ (Beats /\ since + 1 # Interval))
  /\ UNCHANGED <<level, stage, at, left, fifo, lost, filled>>

\* altera_avalon_jtag_uart_irq: its log, then what the driver has to send.
UartIrq ==
  /\ running = "main" /\ stage = "up" /\ running' = "isr"
  /\ todo' = If(IsrOn) \o <<"send">>
  /\ UNCHANGED <<level, stage, at, left, fifo, lost, filled, clock>>

Report ==
  /\ running = "isr" /\ at["isr"] = "idle" /\ todo # <<>> /\ Head(todo) = "print"
  /\ Starts("isr") /\ todo' = Tail(todo)
  /\ UNCHANGED <<level, stage, running, fifo, lost, filled, clock>>

\* The driver writes what there is space for.
Send ==
  /\ running = "isr" /\ at["isr"] = "idle" /\ todo # <<>> /\ Head(todo) = "send"
  /\ fifo' \in fifo .. Depth /\ todo' = Tail(todo)
  /\ filled' = (filled \/ fifo' # fifo)
  /\ UNCHANGED <<level, stage, running, at, left, lost, clock>>

Return ==
  /\ running = "isr" /\ at["isr"] = "idle" /\ todo = <<>> /\ running' = "main"
  /\ UNCHANGED <<level, stage, at, left, todo, fifo, lost, filled, clock>>

Isr == Report \/ Send \/ Return \/ Test("isr") \/ Put("isr")
Main == SysInit \/ Test("main") \/ Put("main")

Next == Isr \/ Main \/ Boot \/ Write \/ TimerIrq \/ UartIrq \/ HostReads

Spec == Init /\ [][Next]_vars

--------------------------------------------------------------------------
\* The type invariant.
TypeOK ==
  /\ level \in Levels /\ stage \in {"boot", "up"} /\ running \in Who
  /\ at \in [Who -> {"idle", "test", "put"}] /\ left \in [Who -> 0 .. MsgLen]
  /\ fifo \in 0 .. Depth /\ lost \subseteq Who /\ filled \in BOOLEAN
  /\ sysClkCount \in 0 .. Interval /\ alarm \in 0 .. Ticks
  /\ since \in 0 .. Interval + 1 /\ late \in BOOLEAN

\* Nothing said before the drivers are started is lost, and nothing a handler
\* says: both are alone between the test for space and the write.  And main()
\* never writes into a full FIFO unless a handler has written after main()'s test.
LossNeedsAnInterrupt ==
  /\ stage = "boot" => lost = {}
  /\ "isr" \notin lost
  /\ at["main"] = "put" /\ ~filled => fifo < Depth

\* "Wait until the device is ready for a character / And pop the character
\* into the register" (alt_log_printf.c:97): no character meets a full FIFO.
NothingLost == lost = {}

\* The heartbeat comes "every ALT_LOG_SYS_CLK_INTERVAL (in ticks)"
\* (alt_log_printf.c:466).
BeatsEveryInterval == ~late
=============================================================================
