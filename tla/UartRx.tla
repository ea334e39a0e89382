------------------------------- MODULE UartRx -------------------------------
(***************************************************************************)
(* The receive half of bsp/src/uart.c: the UARTs, each with its hardware   *)
(* FIFO and receive buffer, and the one idle timer they share.  A receive  *)
(* interrupt or a timer interrupt drains the FIFO into the buffer; when    *)
(* the timer has counted the idle window of a UART down, its buffer goes   *)
(* to the callback.                                                        *)
(*                                                                         *)
(* Interrupt handlers do not nest (one NVIC priority), but bytes arrive    *)
(* while they run, so a handler is a sequence of steps between which a     *)
(* byte may come in.  A task-level critical section delays handlers.       *)
(*                                                                         *)
(* Time advances in units, Period of them to a run of the idle timer, and  *)
(* only between handlers: the driver asks callbacks to be short.  A byte   *)
(* is the number of its arrival.                                           *)
(***************************************************************************)
EXTENDS Naturals, Sequences, FiniteSets

CONSTANTS
  DeviceCount,    \* BSP_UART_DEVICE_COUNT
  FifoDepth,      \* entries of the hardware receive FIFO (4)
  HalfLevel,      \* DL_UART_RX_FIFO_LEVEL_1_2_FULL, in entries (2)
  RxBufferSize,   \* BSP_UART_RX_BUFFER_SIZE
  Bauds,          \* the rates in use
  IdleUnits,      \* two frames at each rate, in units: idle_us of the code
  Period,         \* UART_IDLE_TICK_US, in units
  Boards          \* what the driver may find itself running on, see board

Devices == 0 .. DeviceCount - 1

ASSUME UartRxAssumption ==
  /\ DeviceCount \in Nat \ {0}
  /\ FifoDepth \in Nat \ {0} /\ HalfLevel \in 1 .. FifoDepth
  /\ RxBufferSize \in Nat \ {0}
  /\ Period \in Nat \ {0}
  /\ IsFiniteSet(Bauds) /\ IdleUnits \in [Bauds -> Nat \ {0}]
  /\ Boards \subseteq [level : BOOLEAN, masked : BOOLEAN, errors : BOOLEAN,
                       bauds : SUBSET Bauds, bytes : [Devices -> Nat]]

VARIABLES
  board,        \* the board and its tasks, which do not change:
                \* level: the receive interrupt looks at the level of the
                \*   FIFO; if FALSE, only at the passing of the level;
                \* masked: tasks may mask interrupts while time passes;
                \* errors: bytes may come with a framing, parity, ... error;
                \* bauds: the rates the UARTs are set to;
                \* bytes: bound: the bytes that arrive at each UART in one
                \*   behaviour; one that none arrive at is not used
  initialized,  \* bsp_uart_init succeeded
  callback,     \* a callback is registered
  baud,         \* the configured rate
  rx_data,      \* the bytes buffered; rx_length is their number
  rx_ticks,     \* timer runs until they are delivered
  rx_pending,   \* a message is being received
  uart_idle_timer_ready,
  uart_idle_timer_running,
  cpu,          \* the handler running, where it is, and its local variable
  threshold,    \* hardware: entries that raise the receive interrupt
  fifo,         \* hardware: bytes not read yet
  rx_irq,       \* hardware: DL_UART_INTERRUPT_RX is pending
  error_irq,    \* hardware: an overrun, framing, parity, break or noise error
  timer,        \* hardware: units until the idle timer is at zero, 0: stopped
  timer_irq,    \* hardware: DL_TIMERG_INTERRUPT_ZERO_EVENT is pending
  since,        \* time since the last byte, counted up to MaxSince
  line,         \* history: the bytes that arrived, good or not, and their gap
  floor,        \* history: bytes up to this one are delivered or discarded
  drained,      \* history: bytes up to this one have been read or lost
  last          \* history: the last message delivered

swVars   == <<initialized, callback, baud, rx_data, rx_ticks, rx_pending,
              uart_idle_timer_ready, uart_idle_timer_running>>
hwVars   == <<threshold, fifo, rx_irq, error_irq, timer, timer_irq>>
histVars == <<since, line, floor, drained, last>>
vars     == <<board, swVars, cpu, hwVars, histVars>>

AtTask  == [isr |-> "none", dev |-> 0, step |-> "none", pending |-> FALSE]
Chained == [AtTask EXCEPT !.step = "chained"]
NoMessage == [bytes |-> <<>>, start |-> 0, upto |-> 0]

-----------------------------------------------------------------------------
(* Helpers. *)

(* Mutants: the idle window rounded up, without the extra run; with two.   *)
IdleTicksExact(b) == (IdleUnits[b] + Period - 1) \div Period
IdleTicksMore(b)  == (IdleUnits[b] + Period - 1) \div Period + 2

(* uart_idle_ticks: the idle window rounded up to runs of the timer, and   *)
(* one more because the first run may be nearly over.                      *)
IdleTicks(b) == (IdleUnits[b] + Period - 1) \div Period + 1

(* What tells bytes apart: a gap shorter than the idle window, a longer    *)
(* one, and one longer by two runs of the timer, when the receive before   *)
(* it must be over.                                                        *)
GapClass(d, t) ==
  IF t < IdleUnits[baud[d]] THEN "close"
  ELSE IF t < IdleUnits[baud[d]] + 2 * Period THEN "idle" ELSE "apart"

MaxSince ==
  2 * Period + IdleUnits[CHOOSE b \in board.bauds :
                           \A c \in board.bauds : IdleUnits[c] <= IdleUnits[b]]

Least(a, b) == IF a <= b THEN a ELSE b

(* DL_UART_setRXFIFOThreshold, with content f in the FIFO. *)
SetThreshold(d, level, f) ==
  /\ threshold' = [threshold EXCEPT ![d] = level]
  /\ rx_irq' = [rx_irq EXCEPT ![d] =
                  @ \/ (board.level /\ Len(f) >= level)]

(* Mutant: the timer is started, but not marked as running. *)
StartTimerUnmarked ==
  IF uart_idle_timer_running
  THEN UNCHANGED <<uart_idle_timer_running, timer, timer_irq>>
  ELSE /\ timer' = Period
       /\ timer_irq' = FALSE
       /\ UNCHANGED uart_idle_timer_running

(* uart_idle_timer_start, from handler or task level. *)
StartTimer ==
  IF uart_idle_timer_running
  THEN UNCHANGED <<uart_idle_timer_running, timer, timer_irq>>
  ELSE /\ uart_idle_timer_running' = TRUE
       /\ timer' = Period
       /\ timer_irq' = FALSE

(* Mutants: keep everything; start over when the buffer is full. *)
StoreAll(d)     == rx_data[d] \o fifo[d]
StoreWrapped(d) ==
  LET all == IF Len(rx_data[d]) = RxBufferSize /\ fifo[d] # <<>> THEN fifo[d]
             ELSE rx_data[d] \o fifo[d]
  IN  SubSeq(all, 1, Least(Len(all), RxBufferSize))

(* The buffer with what fits of the FIFO behind it. *)
Store(d) ==
  LET all == rx_data[d] \o fifo[d]
  IN  SubSeq(all, 1, Least(Len(all), RxBufferSize))

(* uart_drain_rx, first half: read until the FIFO is empty, keep what fits. *)
(* The step is the read that finds it empty.                               *)
Read(d) ==
  /\ rx_data' = [rx_data EXCEPT ![d] = Store(d)]
  /\ fifo' = [fifo EXCEPT ![d] = <<>>]

(* Second half, if anything was read: restart the idle window. *)
Arm(d) ==
  /\ IF rx_pending[d] THEN UNCHANGED <<threshold, rx_irq>>
     ELSE SetThreshold(d, HalfLevel, fifo[d])
  /\ rx_pending' = [rx_pending EXCEPT ![d] = TRUE]
  /\ rx_ticks' = [rx_ticks EXCEPT ![d] = IdleTicks(baud[d])]
  /\ StartTimer

(* Mutant: the threshold stays at half the FIFO. *)
EndReceptionHalf(d, f) ==
  /\ rx_data' = [rx_data EXCEPT ![d] = <<>>]
  /\ rx_ticks' = [rx_ticks EXCEPT ![d] = 0]
  /\ rx_pending' = [rx_pending EXCEPT ![d] = FALSE]
  /\ UNCHANGED <<threshold, rx_irq>>

(* A message is over, delivered or dropped: bsp_uart_set_baudrate, the     *)
(* error cases of uart_irq_proc and the timer handler end it alike.        *)
EndReception(d, f) ==
  /\ rx_data' = [rx_data EXCEPT ![d] = <<>>]
  /\ rx_ticks' = [rx_ticks EXCEPT ![d] = 0]
  /\ rx_pending' = [rx_pending EXCEPT ![d] = FALSE]
  /\ SetThreshold(d, 1, f)

(* Every byte that has arrived is read or lost. *)
MarkDrained(d) == drained' = [drained EXCEPT ![d] = Len(line[d])]

UartPending(d) == initialized[d] /\ (rx_irq[d] \/ error_irq[d])
IrqPending     == timer_irq \/ \E d \in Devices : UartPending(d)

(* Leave a handler; another one follows at once if its interrupt waits. *)
Return(waiting) == cpu' = IF waiting THEN Chained ELSE AtTask

Init ==
  /\ board \in Boards
  /\ initialized = [d \in Devices |-> FALSE]
  /\ callback = [d \in Devices |-> FALSE]
  /\ baud \in [Devices -> board.bauds]
  /\ rx_data = [d \in Devices |-> <<>>]
  /\ rx_ticks = [d \in Devices |-> 0]
  /\ rx_pending = [d \in Devices |-> FALSE]
  /\ uart_idle_timer_ready = FALSE /\ uart_idle_timer_running = FALSE
  /\ cpu = AtTask
  /\ threshold = [d \in Devices |-> 1]
  /\ fifo = [d \in Devices |-> <<>>]
  /\ rx_irq = [d \in Devices |-> FALSE]
  /\ error_irq = [d \in Devices |-> FALSE]
  /\ timer = 0 /\ timer_irq = FALSE
  /\ since = [d \in Devices |-> MaxSince]
  /\ line = [d \in Devices |-> <<>>]
  /\ floor = [d \in Devices |-> 0]
  /\ drained = [d \in Devices |-> 0]
  /\ last = [d \in Devices |-> NoMessage]

-----------------------------------------------------------------------------
(* Calls of tasks: each is one critical section. *)

(* bsp_uart_init.  The flag of the receive interrupt is cleared before the *)
(* FIFO is drained: a byte between the two may leave it set.               *)
UartInit(d) ==
  /\ cpu = AtTask /\ ~initialized[d] /\ board.bytes[d] > 0
  /\ initialized' = [initialized EXCEPT ![d] = TRUE]
  /\ callback' = [callback EXCEPT ![d] = FALSE]
  /\ rx_data' = [rx_data EXCEPT ![d] = <<>>]
  /\ rx_ticks' = [rx_ticks EXCEPT ![d] = 0]
  /\ rx_pending' = [rx_pending EXCEPT ![d] = FALSE]
  /\ threshold' = [threshold EXCEPT ![d] = 1]
  /\ fifo' = [fifo EXCEPT ![d] = <<>>]
  /\ \E raised \in BOOLEAN : rx_irq' = [rx_irq EXCEPT ![d] = raised]
  /\ error_irq' = [error_irq EXCEPT ![d] = FALSE]
  /\ uart_idle_timer_ready' = TRUE
  /\ IF uart_idle_timer_ready
     THEN UNCHANGED <<uart_idle_timer_running, timer, timer_irq>>
     ELSE uart_idle_timer_running' = FALSE /\ timer' = 0 /\ timer_irq' = FALSE
  /\ MarkDrained(d)
  /\ floor' = [floor EXCEPT ![d] = Len(line[d])]
  /\ UNCHANGED <<baud, cpu, since, line, last>>

(* bsp_uart_set_callback. *)
SetCallback(d, registered) ==
  /\ cpu = AtTask /\ initialized[d]
  /\ callback' = [callback EXCEPT ![d] = registered]
  /\ UNCHANGED <<initialized, baud, rx_data, rx_ticks, rx_pending,
                 uart_idle_timer_ready, uart_idle_timer_running, cpu, hwVars,
                 histVars>>

(* bsp_uart_set_baudrate, its critical section: the message being received *)
(* is dropped.  The UART is disabled meanwhile and its FIFOs are switched  *)
(* off and on, which may or may not empty them.                            *)
SetBaud(d, b) ==
  /\ cpu = AtTask /\ initialized[d]
  /\ baud' = [baud EXCEPT ![d] = b]
  /\ \/ /\ fifo' = [fifo EXCEPT ![d] = <<>>]
        /\ MarkDrained(d)
     \/ UNCHANGED <<fifo, drained>>
  /\ EndReception(d, fifo'[d])
  /\ floor' = [floor EXCEPT ![d] = drained'[d]]
  /\ UNCHANGED <<initialized, callback, uart_idle_timer_ready,
                 uart_idle_timer_running, cpu, error_irq, timer, timer_irq,
                 since, line, last>>

-----------------------------------------------------------------------------
(* uart_irq_proc. *)

(* The interrupt of a UART is taken; the idle timer's outranks it. *)
UartEnter(d) ==
  /\ cpu.isr = "none" /\ UartPending(d) /\ ~timer_irq
  /\ cpu' = [isr |-> "uart", dev |-> d, step |-> "next", pending |-> FALSE]
  /\ UNCHANGED <<swVars, hwVars, histVars>>

(* DL_UART_getPendingInterrupt: reading the index clears the flag.  The    *)
(* receive interrupt ranks below most errors, but above a noise error, so  *)
(* of the two either may come first.                                       *)
UartNext(d) ==
  /\ cpu.isr = "uart" /\ cpu.dev = d /\ cpu.step = "next"
  /\ \/ /\ error_irq[d]
        /\ error_irq' = [error_irq EXCEPT ![d] = FALSE]
        /\ cpu' = [cpu EXCEPT !.step = "error"]
        /\ UNCHANGED rx_irq
     \/ /\ rx_irq[d]
        /\ rx_irq' = [rx_irq EXCEPT ![d] = FALSE]
        /\ cpu' = [cpu EXCEPT !.step = "drain"]
        /\ UNCHANGED error_irq
     \/ /\ ~error_irq[d] /\ ~rx_irq[d]
        /\ Return(IrqPending)
        /\ UNCHANGED <<rx_irq, error_irq>>
  /\ UNCHANGED <<swVars, threshold, fifo, timer, timer_irq, histVars>>

(* The receive case, and the first call of the error cases. *)
UartRead(d) ==
  /\ cpu.isr = "uart" /\ cpu.dev = d /\ cpu.step \in {"drain", "error"}
  /\ Read(d)
  /\ MarkDrained(d)
  /\ cpu' = [cpu EXCEPT !.step =
                IF @ = "drain"
                THEN IF fifo[d] # <<>> THEN "arm" ELSE "next"
                ELSE IF fifo[d] # <<>> THEN "error arm" ELSE "reset"]
  /\ UNCHANGED <<initialized, callback, baud, rx_ticks, rx_pending,
                 uart_idle_timer_ready, uart_idle_timer_running, threshold,
                 rx_irq, error_irq, timer, timer_irq, since, line, floor,
                 last>>

UartArm(d) ==
  /\ cpu.isr = "uart" /\ cpu.dev = d /\ cpu.step \in {"arm", "error arm"}
  /\ Arm(d)
  /\ cpu' = [cpu EXCEPT !.step = IF @ = "arm" THEN "next" ELSE "reset"]
  /\ UNCHANGED <<initialized, callback, baud, rx_data, uart_idle_timer_ready,
                 fifo, error_irq, histVars>>

(* The rest of the error cases: what was received is dropped. *)
UartReset(d) ==
  /\ cpu.isr = "uart" /\ cpu.dev = d /\ cpu.step = "reset"
  /\ EndReception(d, fifo[d])
  /\ floor' = [floor EXCEPT ![d] = drained[d]]
  /\ cpu' = [cpu EXCEPT !.step = "next"]
  /\ UNCHANGED <<initialized, callback, baud, uart_idle_timer_ready,
                 uart_idle_timer_running, fifo, error_irq, timer, timer_irq,
                 since, line, drained, last>>

-----------------------------------------------------------------------------
(* UART_RX_IDLE_INST_IRQHandler. *)

TimerEnter ==
  /\ cpu.isr = "none" /\ timer_irq
  /\ timer_irq' = FALSE
  /\ uart_idle_timer_running' = FALSE
  /\ cpu' = [isr |-> "timer", dev |-> 0, step |-> "drain", pending |-> FALSE]
  /\ UNCHANGED <<initialized, callback, baud, rx_data, rx_ticks, rx_pending,
                 uart_idle_timer_ready, threshold, fifo, rx_irq, error_irq,
                 timer, histVars>>

(* The next device of a loop, or the next loop. *)
NextDevice(step, after) ==
  IF cpu.dev + 1 < DeviceCount
  THEN [cpu EXCEPT !.dev = cpu.dev + 1, !.step = step]
  ELSE [cpu EXCEPT !.dev = 0, !.step = after]

(* Its first loop drains every UART. *)
TimerRead(d) ==
  /\ cpu.isr = "timer" /\ cpu.step = "drain" /\ cpu.dev = d
  /\ IF initialized[d] THEN Read(d) /\ MarkDrained(d)
     ELSE UNCHANGED <<rx_data, fifo, drained>>
  /\ cpu' = IF initialized[d] /\ fifo[d] # <<>>
            THEN [cpu EXCEPT !.step = "arm"] ELSE NextDevice("drain", "scan")
  /\ UNCHANGED <<initialized, callback, baud, rx_ticks, rx_pending,
                 uart_idle_timer_ready, uart_idle_timer_running, threshold,
                 rx_irq, error_irq, timer, timer_irq, since, line, floor,
                 last>>

TimerArm(d) ==
  /\ cpu.isr = "timer" /\ cpu.step = "arm" /\ cpu.dev = d
  /\ Arm(d)
  /\ cpu' = NextDevice("drain", "scan")
  /\ UNCHANGED <<initialized, callback, baud, rx_data, uart_idle_timer_ready,
                 fifo, error_irq, histVars>>

(* Its second loop counts the idle windows down ... *)
TimerCount(d) ==
  /\ cpu.isr = "timer" /\ cpu.step = "scan" /\ cpu.dev = d
  /\ ~(initialized[d] /\ rx_pending[d] /\ rx_ticks[d] <= 1)
  /\ IF initialized[d] /\ rx_pending[d]
     THEN /\ rx_ticks' = [rx_ticks EXCEPT ![d] = @ - 1]
          /\ cpu' = [NextDevice("scan", "restart") EXCEPT !.pending = TRUE]
     ELSE /\ cpu' = NextDevice("scan", "restart")
          /\ UNCHANGED rx_ticks
  /\ UNCHANGED <<initialized, callback, baud, rx_data, rx_pending,
                 uart_idle_timer_ready, uart_idle_timer_running, hwVars,
                 histVars>>

(* What a callback, once it runs, may do to the callbacks: set one, its    *)
(* own or another, or none.                                                *)
CallbacksAfter ==
  {callback} \union
  {[callback EXCEPT ![e] = registered] :
     e \in {d \in Devices : initialized[d]}, registered \in BOOLEAN}

(* ... and delivers what has been quiet for its window. *)
TimerDeliver(d) ==
  /\ cpu.isr = "timer" /\ cpu.step = "scan" /\ cpu.dev = d
  /\ initialized[d] /\ rx_pending[d] /\ rx_ticks[d] <= 1
  /\ EndReception(d, fifo[d])
  /\ IF callback[d] /\ rx_data[d] # <<>>
     THEN /\ last' = [last EXCEPT ![d] =
                        [bytes |-> rx_data[d], start |-> floor[d],
                         upto |-> drained[d]]]
          /\ callback' \in CallbacksAfter
     ELSE UNCHANGED <<last, callback>>
  /\ floor' = [floor EXCEPT ![d] = drained[d]]
  /\ cpu' = NextDevice("scan", "restart")
  /\ UNCHANGED <<initialized, baud, uart_idle_timer_ready,
                 uart_idle_timer_running, fifo, error_irq, timer, timer_irq,
                 since, line, drained>>

(* Mutant: the timer is left to the drains. *)
TimerRestartNever ==
  /\ cpu.isr = "timer" /\ cpu.step = "restart"
  /\ Return(IrqPending)
  /\ UNCHANGED <<swVars, hwVars, histVars>>

(* The timer runs again while a message is being received. *)
TimerRestart ==
  /\ cpu.isr = "timer" /\ cpu.step = "restart"
  /\ IF cpu.pending THEN StartTimer
     ELSE UNCHANGED <<uart_idle_timer_running, timer, timer_irq>>
  /\ Return(timer_irq' \/ \E d \in Devices : UartPending(d))
  /\ UNCHANGED <<initialized, callback, baud, rx_data, rx_ticks, rx_pending,
                 uart_idle_timer_ready, threshold, fifo, rx_irq, error_irq,
                 histVars>>

-----------------------------------------------------------------------------
(* The hardware and the line. *)

(* A byte arrives, good or with an error; if the FIFO is full it is lost.  *)
(* The receive interrupt is raised as the FIFO fills up to the threshold.  *)
Arrive(d, good) ==
  LET n     == Len(line[d]) + 1
      room  == Len(fifo[d]) < FifoDepth
      level == Len(fifo[d]) + 1
  IN
  /\ n <= board.bytes[d]
  /\ good \/ board.errors
  /\ line' = [line EXCEPT ![d] =
                Append(@, [good |-> good, gap |-> GapClass(d, since[d])])]
  /\ since' = [since EXCEPT ![d] = 0]
  /\ fifo' = IF room THEN [fifo EXCEPT ![d] = Append(@, n)] ELSE fifo
  /\ rx_irq' = [rx_irq EXCEPT ![d] =
                  \/ @
                  \/ room /\ level = threshold[d]
                  \/ room /\ board.level /\ level >= threshold[d]]
  /\ error_irq' = [error_irq EXCEPT ![d] = @ \/ ~good \/ ~room]
  /\ UNCHANGED <<swVars, cpu, threshold, timer, timer_irq, floor, drained,
                 last>>

(* A unit of time passes at task level.  A handler that waits delays it    *)
(* unless a task has masked it.                                            *)
Tick ==
  /\ cpu = AtTask
  /\ IrqPending => board.masked
  /\ since' = [d \in Devices |-> Least(since[d] + 1, MaxSince)]
  /\ timer' = IF timer = 0 THEN 0 ELSE timer - 1
  /\ timer_irq' = (timer_irq \/ timer = 1)
  /\ UNCHANGED <<board, swVars, cpu, threshold, fifo, rx_irq, error_irq, line,
                 floor, drained, last>>

-----------------------------------------------------------------------------

TimerStep ==
  /\ \/ TimerEnter \/ TimerRestart
     \/ \E d \in Devices :
          TimerRead(d) \/ TimerArm(d) \/ TimerCount(d) \/ TimerDeliver(d)
  /\ UNCHANGED board

UartStep(d) ==
  /\ UartEnter(d) \/ UartNext(d) \/ UartRead(d) \/ UartArm(d) \/ UartReset(d)
  /\ UNCHANGED board

TaskStep(d) ==
  /\ \/ UartInit(d)
     \/ \E registered \in BOOLEAN : SetCallback(d, registered)
     \/ \E b \in board.bauds : SetBaud(d, b)
  /\ UNCHANGED board

LineStep(d) == (\E good \in BOOLEAN : Arrive(d, good)) /\ UNCHANGED board

Next ==
  \/ \E d \in Devices : TaskStep(d) \/ UartStep(d) \/ LineStep(d)
  \/ TimerStep
  \/ Tick

Spec == Init /\ [][Next]_vars

(* Handlers run and time passes. *)
Fairness ==
  /\ WF_vars(TimerStep)
  /\ \A d \in Devices : WF_vars(UartStep(d))
  /\ WF_vars(Tick)

FairSpec == Spec /\ Fairness

-----------------------------------------------------------------------------
(* Properties. *)

(* Every variable has its type: uart_drain_rx never fills a buffer beyond  *)
(* its end.                                                                *)
TypeOK ==
  /\ board \in Boards
  /\ initialized \in [Devices -> BOOLEAN] /\ callback \in [Devices -> BOOLEAN]
  /\ baud \in [Devices -> Bauds]
  /\ rx_data \in [Devices -> Seq(Nat)]
  /\ \A d \in Devices : Len(rx_data[d]) <= RxBufferSize
  /\ rx_ticks \in [Devices -> Nat] /\ rx_pending \in [Devices -> BOOLEAN]
  /\ uart_idle_timer_ready \in BOOLEAN /\ uart_idle_timer_running \in BOOLEAN
  /\ cpu \in [isr : {"none", "uart", "timer"}, dev : Devices,
              step : {"none", "chained", "next", "drain", "arm", "error",
                      "error arm", "reset", "scan", "restart"},
              pending : BOOLEAN]
  /\ threshold \in [Devices -> {1, HalfLevel}]
  /\ fifo \in [Devices -> Seq(Nat)]
  /\ \A d \in Devices : Len(fifo[d]) <= FifoDepth
  /\ rx_irq \in [Devices -> BOOLEAN] /\ error_irq \in [Devices -> BOOLEAN]
  /\ timer \in 0 .. Period /\ timer_irq \in BOOLEAN
  /\ since \in [Devices -> 0 .. MaxSince]
  /\ line \in [Devices -> Seq([good : BOOLEAN,
                               gap : {"close", "idle", "apart"}])]
  /\ floor \in [Devices -> Nat]
  /\ drained \in [Devices -> Nat]
  /\ last \in [Devices -> [bytes : Seq(Nat), start : Nat,
                           upto : Nat]]

(* The flag of the shared timer tells the truth: while it is set the timer *)
(* counts or its interrupt is pending, so that uart_idle_timer_start may   *)
(* return early without losing a start.                                    *)
TimerFlagIsTrue ==
  uart_idle_timer_running <=> (timer > 0 \/ timer_irq)

(* A message being received has a timer that will deliver it: the timer    *)
(* runs, or its handler has not yet decided to restart it.                 *)
PendingHasTimer ==
  \A d \in Devices : rx_pending[d] =>
    \/ uart_idle_timer_running
    \/ /\ cpu.isr = "timer"
       /\ \/ cpu.step \in {"drain", "arm"} \/ cpu.pending
          \/ cpu.step = "scan" /\ cpu.dev <= d

(* The receive interrupt waits for half a FIFO only while the timer        *)
(* fetches what is less.                                                   *)
ThresholdFollowsPending ==
  \A d \in Devices :
    /\ rx_pending[d] => threshold[d] = HalfLevel /\ rx_data[d] # <<>>
    /\ threshold[d] = HalfLevel => rx_pending[d] \/ HalfLevel = 1
    /\ rx_ticks[d] > 0 <=> rx_pending[d]

(* The shared timer serves every UART that receives (uart.c starts and     *)
(* stops it from tasks, from the UARTs' handlers and from its own).        *)
IdleTimerServes ==
  TimerFlagIsTrue /\ PendingHasTimer /\ ThresholdFollowsPending

(* A delivered message is what was received since the one before was       *)
(* delivered or dropped, as far as the buffer holds it: no byte is lost,   *)
(* repeated or exchanged, and none came with an error.                     *)
DeliversPrefix ==
  \A d \in Devices : last[d] # NoMessage =>
    LET m == last[d] IN
    /\ m.bytes = [i \in 1 .. Least(m.upto - m.start, RxBufferSize) |->
                    m.start + i]
    /\ \A i \in 1 .. Len(m.bytes) : line[d][m.bytes[i]].good

(* A receive is delivered once: when a message is delivered, its last byte *)
(* (kept or ignored) is two frames old at least, and so is what came next. *)
QuietAfter(d, n) ==
  IF n < Len(line[d]) THEN line[d][n + 1].gap # "close"
  ELSE GapClass(d, since[d]) # "close"

DeliversAfterIdle ==
  [][\A d \in Devices :
       last'[d] # last[d] => QuietAfter(d, last'[d].upto)]_vars

(* If no handler is kept waiting and the receive interrupt looks at the    *)
(* level of the FIFO, bytes further apart than the idle window and the     *)
(* runs of the timer that measure it are never in one message.             *)
NeverMerges ==
  board.level /\ ~ board.masked =>
    \A d \in Devices : \A i \in 2 .. Len(last[d].bytes) :
      line[d][last[d].bytes[i]].gap # "apart"

(* Every byte a UART in use has received is read: its callback cannot run  *)
(* after the idle window otherwise.                                        *)
ReceivedIsRead ==
  \A d \in Devices : initialized[d] /\ fifo[d] # <<>> ~> fifo[d] = <<>>

(* The same if the receive interrupt looks at the level of the FIFO.       *)
ReceivedIsReadByLevel ==
  \A d \in Devices :
    board.level /\ initialized[d] /\ fifo[d] # <<>> ~> fifo[d] = <<>>

(* Whatever is being received is delivered or dropped.                     *)
ReceptionEnds == \A d \in Devices : rx_pending[d] ~> ~rx_pending[d]

=============================================================================
