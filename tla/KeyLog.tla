------------------------------- MODULE KeyLog -------------------------------
(***************************************************************************)
(* The application of app/main/main.cc: app_entrance brings the board up   *)
(* (bsp_hw_init with the identification of the flash, then the UART),      *)
(* enables the key interrupt and from then on logs the presses that the    *)
(* interrupt handler leaves for it in key_log_pending and key_log_ts.      *)
(*                                                                         *)
(* Time is the kernel's tick count, one tick to a millisecond, which wraps *)
(* at Word.  An interrupt handler is one step; with interrupts masked, a   *)
(* tick or an edge of the key waits.                                       *)
(***************************************************************************)
EXTENDS Integers, Sequences, SequencesExt

CONSTANTS
  Word,        \* the range of the tick count, a uint32_t
  Debounce,    \* 100 in GROUP1_IRQHandler
  SleepTime,   \* 50 in app_entrance
  ResetTime,   \* what the delays of bsp_lcd_init add up to
  RetryTime,   \* 10 in w25q128_init
  MaxReads,    \* 10 in w25q128_init
  MaxPresses   \* bound: the presses that are accepted

KeyLogConstants ==
  /\ {Word, Debounce, SleepTime, ResetTime, RetryTime} \subseteq Nat \ {0}
  /\ {MaxReads, MaxPresses} \subseteq Nat \ {0}
  /\ Debounce < Word
  /\ Debounce < ResetTime /\ ResetTime + MaxReads * RetryTime < Word

VARIABLES
  tick,             \* the tick count
  since,            \* history: ticks since the last accepted press or the
                    \* start, as far as they matter
  key, edge,        \* the key's pin; its edge is pending in the NVIC
  enabled, masked,  \* the interrupt is enabled; the task masks interrupts
  lst_key_ts, key_log_pending, key_log_ts,
  pc, delay,        \* where app_entrance is, and the ticks it still sleeps
  cnt,              \* w25q128_init's
  log_key, key_ts,  \* app_entrance's
  reads,            \* history: how often the identifier was read
  accepted, log     \* history: the time stamps of the presses accepted, and
                    \* of those handed to bsp_uart_printf_async

board == <<key, edge, enabled>>
press == <<lst_key_ts, key_log_pending, key_log_ts, accepted>>
local == <<cnt, log_key, key_ts, reads, log>>
vars == <<tick, since, board, masked, press, pc, delay, local>>

Forever == Word + Debounce

Init ==
  /\ tick = 0 /\ since = 0
  /\ key \in {"up", "down"} /\ edge = FALSE
  /\ enabled = FALSE /\ masked = FALSE
  /\ lst_key_ts = 0 /\ key_log_pending = FALSE /\ key_log_ts = 0
  /\ pc = "reset" /\ delay = ResetTime /\ cnt = 0
  /\ log_key = FALSE /\ key_ts = 0
  /\ reads = 0 /\ accepted = <<>> /\ log = <<>>

-----------------------------------------------------------------------------
(* The world: time, and the key, which may bounce. *)

Tick ==
  /\ ~ masked
  /\ tick' = (tick + 1) % Word
  /\ since' = IF since < Forever THEN since + 1 ELSE since
  /\ delay' = IF delay > 0 THEN delay - 1 ELSE 0
  /\ UNCHANGED <<board, masked, press, pc, local>>

(* Only a falling edge raises the interrupt. *)
Press ==
  /\ key = "up" /\ Len(accepted) < MaxPresses
  /\ key' = "down" /\ edge' = TRUE
  /\ UNCHANGED <<tick, since, enabled, masked, press, pc, delay, local>>

Release ==
  /\ key = "down"
  /\ key' = "up"
  /\ UNCHANGED <<tick, since, edge, enabled, masked, press, pc, delay, local>>

-----------------------------------------------------------------------------
(* GROUP1_IRQHandler. *)

(* Mutant: the comparison does not wrap around. *)
FarEnoughNoWrap(ts) == ts > lst_key_ts + Debounce

(* The press at ts is none that another one's bouncing makes. *)
FarEnough(ts) == (ts - lst_key_ts) % Word > Debounce

Accept(ts) ==
  /\ lst_key_ts' = ts
  /\ key_log_ts' = ts /\ key_log_pending' = TRUE
  /\ accepted' = Append(accepted, ts) /\ since' = 0

(* The edge is taken back when the handler reads which port raised it, and *)
(* by the NVIC; no code clears it.                                         *)
KeyIsr ==
  /\ enabled /\ edge /\ ~ masked
  /\ edge' = FALSE
  /\ IF key = "down" /\ FarEnough(tick) THEN Accept(tick)
     ELSE UNCHANGED <<press, since>>
  /\ UNCHANGED <<tick, key, enabled, masked, pc, delay, local>>

-----------------------------------------------------------------------------
(* app_entrance. *)

Sleep(step, ticks) == pc' = step /\ delay' = ticks

(* The next count, ++ cnt, is the last. *)
GivesUp == cnt + 1 >= MaxReads

(* w25q128_init: the flash answers, or it is asked again after a delay, or *)
(* the assertion fails and the processor stops.                            *)
ReadId ==
  /\ pc = "reset" /\ delay = 0
  /\ reads' = reads + 1
  /\ \/ pc' = "uart" /\ UNCHANGED <<cnt, delay>>
     \/ /\ cnt' = cnt + 1
        /\ IF GivesUp THEN pc' = "halted" /\ UNCHANGED delay
           ELSE Sleep("reset", RetryTime)
  /\ masked' = (pc' = "halted")
  /\ UNCHANGED <<tick, since, board, press, log_key, key_ts, log>>

(* bsp_uart_init, NVIC_EnableIRQ; an edge that is pending is not lost. *)
EnableKey ==
  /\ pc = "uart"
  /\ enabled' = TRUE /\ pc' = "loop"
  /\ UNCHANGED <<tick, since, key, edge, masked, press, delay, local>>

(* Mutant: no critical section. *)
EnterNot ==
  /\ pc = "loop"
  /\ pc' = "pending"
  /\ UNCHANGED <<tick, since, board, masked, press, delay, local>>

EnterCritical ==
  /\ pc = "loop"
  /\ masked' = TRUE /\ pc' = "pending"
  /\ UNCHANGED <<tick, since, board, press, delay, local>>

ReadPending ==
  /\ pc = "pending"
  /\ log_key' = key_log_pending /\ pc' = "stamp"
  /\ UNCHANGED <<tick, since, board, masked, press, delay, cnt, key_ts, reads,
                 log>>

ReadStamp ==
  /\ pc = "stamp"
  /\ key_ts' = key_log_ts /\ pc' = "clear"
  /\ UNCHANGED <<tick, since, board, masked, press, delay, cnt, log_key, reads,
                 log>>

(* key_log_pending = false, bsp_sys_exit_critical. *)
ClearPending ==
  /\ pc = "clear"
  /\ key_log_pending' = FALSE
  /\ masked' = FALSE /\ pc' = "log"
  /\ UNCHANGED <<tick, since, board, lst_key_ts, key_log_ts, accepted, delay,
                 local>>

(* bsp_uart_printf_async, whose result is ignored; then the task sleeps. *)
Log ==
  /\ pc = "log"
  /\ log' = IF log_key THEN Append(log, key_ts) ELSE log
  /\ log_key' = FALSE
  /\ Sleep("sleep", SleepTime)
  /\ UNCHANGED <<tick, since, board, masked, press, cnt, key_ts, reads>>

Wake ==
  /\ pc = "sleep" /\ delay = 0
  /\ pc' = "loop"
  /\ UNCHANGED <<tick, since, board, masked, press, delay, local>>

Entrance ==
  \/ ReadId \/ EnableKey \/ EnterCritical \/ ReadPending \/ ReadStamp
  \/ ClearPending \/ Log \/ Wake

Next == Tick \/ Press \/ Release \/ KeyIsr \/ Entrance

(* The task has the lowest priority but the idle task's: it runs because   *)
(* the display task sleeps a tick between any two of its rounds.           *)
Fairness == WF_vars(Tick) /\ WF_vars(Entrance)

Spec == Init /\ [][Next]_vars /\ Fairness

-----------------------------------------------------------------------------
(* Properties. *)

Ticks == 0 .. Word - 1

(* Every variable has its type; no identifier is read more than MaxReads   *)
(* times (w25q128.c:31).                                                   *)
TypeOK ==
  /\ tick \in Ticks /\ since \in 0 .. Forever
  /\ key \in {"up", "down"} /\ {edge, enabled, masked} \subseteq BOOLEAN
  /\ lst_key_ts \in Ticks /\ key_log_ts \in Ticks
  /\ key_log_pending \in BOOLEAN
  /\ pc \in {"reset", "halted", "uart", "loop", "pending", "stamp", "clear",
             "log", "sleep"}
  /\ delay \in Nat /\ cnt \in 0 .. MaxReads /\ reads \in 0 .. MaxReads
  /\ log_key \in BOOLEAN /\ key_ts \in Ticks
  /\ accepted \in Seq(Ticks) /\ log \in Seq(Ticks)

(* The processor stops for want of a flash only when all the reads it may  *)
(* make have failed (w25q128.c:28-35).                                     *)
HaltsAfterAllReads == pc = "halted" => reads = MaxReads

(* The log is the accepted presses in their order, each at most once and   *)
(* with its own time stamp (main.cc:22-26, 48-55).                         *)
LogFollowsPresses ==
  \E f \in [DOMAIN log -> DOMAIN accepted] :
    /\ \A i, j \in DOMAIN log : i < j => f[i] < f[j]
    /\ \A i \in DOMAIN log : log[i] = accepted[f[i]]

(* The newest press is never lost between handler and task: it is logged,  *)
(* waits to be taken over, or is in the task's hands.                      *)
NewestIsKept ==
  accepted # <<>> =>
    \/ log # <<>> /\ Last(log) = Last(accepted)
    \/ key_log_pending /\ key_log_ts = Last(accepted)
    \/ log_key /\ pc = "log" /\ key_ts = Last(accepted)

Accepts == Len(accepted') > Len(accepted)

(* Two accepted presses are more than Debounce ticks apart, though the     *)
(* tick count wraps around (main.cc:23).                                   *)
PressesAreApart == [][Accepts => accepted = <<>> \/ since > Debounce]_vars

(* A press is accepted if the last one is longer ago than Debounce, and so *)
(* is the first one after the start, since by then the board has been      *)
(* brought up; only after a whole turn of the tick count may one be missed *)
(* (main.cc:23, 38-41).                                                    *)
PressesAreAccepted ==
  [][(/\ edge /\ ~ edge' /\ key = "down"
      /\ accepted = <<>> \/ since > Debounce
      /\ since < Word) => Accepts]_vars

(* A press that is accepted is logged, unless another one replaces it.     *)
PressIsLogged ==
  accepted # <<>> ~> log # <<>> /\ Last(log) = Last(accepted)

=============================================================================
