# Specifications of the trobot_m0 firmware

TLA+ models, TLC checks and TLAPS proofs of the board support package (`bsp/`),
the application (`app/`) and the parts of the FreeRTOS kernel they rest on of
trobot_m0, a firmware for the MSPM0G3507. Paths are relative to the repository; the modules lie beside this
file.

## 1. The system

| Part | State it keeps | Operations |
|---|---|---|
| UART transmit path, `bsp/src/uart.c` | per UART: `initialized`, `dma_channel`, `tx_busy`, `tx_exclusive`, a ring of two slots (`tx_head`, `tx_tail`, `tx_count`; each slot a length, a ready flag and 256 bytes) | `bsp_uart_init`, `bsp_uart_send`, `bsp_uart_send_async`, `bsp_uart_printf`, `bsp_uart_printf_async`, `bsp_uart_set_baudrate`, DMA-done interrupt |
| UART receive path, `bsp/src/uart.c` | per UART: a buffer of 128 bytes, `rx_length`, `rx_ticks`, `rx_pending`, `idle_ticks`, `callback`; shared by all: `uart_idle_timer_ready`, `uart_idle_timer_running` | `bsp_uart_init`, `bsp_uart_set_callback`, `bsp_uart_set_baudrate`, receive and error interrupts, idle-timer interrupt |
| SPI bus, `bsp/src/spi.c` | per bus: a recursive mutex created on first use, `selected`, `select_depth`; the chip-select pins | lock/unlock, select/deselect, byte transfers |
| LCD driver, `bsp/src/lcd.c` | `lcd_config` (direction, size, offsets), `lcd_tx_buffer`; the data/command pin; the display's address window | initialization, direction, drawing, the pixel-stream calls |
| Text renderer, `bsp/include/bsp/lcd_font.h` | a cursor of 16 bits per call | characters, text with line breaks, formatted text; rows at once at scale 1 |
| Flash driver, `bsp/src/w25q128.c` | none | reads the identifier at start-up, up to ten times |
| Byte ring queue, `bsp/src/ds.c` | buffer, `left`, `right` | init, size, avail, push, pop |
| Critical sections, `bsp/src/sys.c` | PRIMASK or the kernel's nesting count | enter, exit |
| Time, GPIO, assertions: `bsp/src/time.c`, `io.c`, `bsp.c` | the words an assertion leaves for a debugger | delays, tick conversion, pins, halt |
| Application, `app/main/main.cc`, `app/task/example_task.cc` | `lst_key_ts`, `key_log_pending`, `key_log_ts` | key interrupt with debounce, log task, display task |
| FreeRTOS mutexes and scheduler, `core/src/freertos/queue.c`, `tasks.c` | ready lists, priorities, per mutex a holder, a count and an event list | take and give of recursive mutexes, with time-outs and inheritance |
| FreeRTOS time, `tasks.c`, `port.c` | tick count and overflows, two delayed lists, pended ticks, pending ready list | tick, delay, block times, suspend and resume, tickless idle |
| FreeRTOS heap, `heap_4.c` | list of free blocks, counts | malloc, calloc, free |
| TI driver library, CMSIS, generated start-up code (`core/`) | - | vendored or generated; `components/utils` is an empty submodule |

### How the parts interact

* Tasks are preempted by tasks of higher priority and by interrupts. Interrupt
  handlers all have the same NVIC priority: they do not nest, and a handler runs
  to its end while the hardware goes on - bytes arrive, DMA transfers complete,
  timers run down.
* `uart.c` brackets its shared state with `bsp_sys_enter_critical`; between two
  such sections of one call anything may happen. The copy of a message into its
  slot is outside, on purpose.
* The DMA controller reads slots and writes the UART's FIFO on its own; it
  reports by one interrupt per message.
* One hardware timer serves the idle windows of all UARTs. Receive callbacks
  run inside its handler and may call `bsp_uart_send_async`.
* The LCD and the flash share SPI1. A drawing call locks the bus, selects the
  display and streams commands and pixels.
* The bus lock is a recursive FreeRTOS mutex: the tasks of `bsp/` share its
  priority inheritance; delays and block times count kernel ticks, and mutexes
  and tasks are made in the kernel's heap.
* The key interrupt hands a time stamp to the entrance task through a flag.

### What is hard here

Interleavings of tasks, handlers, DMA and the line; the two-step publication of
a message; flags that survive the reuse of a slot; a single shared timer and a
flag that says whether it runs; thresholds changed while bytes arrive; windows
measured in runs of a timer that is already running; decisions made before a
lock is taken. Nothing is persisted and nothing restarts except by reset, so
there is no crash recovery to speak of. `PROJECT.json` lists each hazard at its line.

### What makes each part correct

* Transmit: every accepted message leaves whole, once, in the order of
  acceptance, and eventually; a slot is never written by two or while it is
  read; no filled slot is left behind; blocking sends and baud changes are alone.
* Receive: a message is what came in between two idle windows, as far as the
  buffer holds it; it is delivered once, not before the line was quiet for the
  window; every byte is read without the help of a later one.
* SPI: the bytes of one transaction go to the selected device and to no other,
  with nothing of another task in between; locks and selections balance.
* LCD: what a drawing call sends lies within the panel in the direction in
  force; commands and data are told apart at the display.
* Text: the layout is the same, row by row or character by character, lies on
  the display and the call returns.
* Kernel: the most urgent task gets a mutex in spite of tasks in between; no
  waiter is forgotten; delays and block times last what was asked for, across
  wraps of the tick count.
* Heap: memory is given out once, none is lost, and refused only for want of room.
* Ring queue: a bounded FIFO of bytes.
* Critical sections: nobody else runs in one, and an exit undoes what its enter
  did.
* Key log: of presses more than 100 ms apart each is logged unless a later one
  replaces it; none is logged twice.

## 2. Plan

Modules, in the order of their importance, and what is done:

| Step | Modules | State |
|---|---|---|
| 1 | `UartTx`, the abstract `TxLink`, their refinement | written, checked |
| 2 | `UartTxProofs`: the inductive invariant of the transmit path; it implements the safety of `TxLink` | proved |
| 3 | `UartRx`: reception and the shared idle timer | written, checked |
| 4 | `SpiBus`: lock, selections, bytes on the bus | written, checked |
| 5 | `LcdDraw`, `LcdWire`: the display driver, in and below a drawing call | written, checked |
| 6 | `LcdText`; the text calls in `LcdDraw` | written, checked |
| 7 | `KeyLog`; `RingQueue` and the abstract `BoundedFifo` | written, checked |
| 8 | `KernelMutex` and the abstract `RecursiveLocks`; `KernelTime`; `Heap4` | written, checked |
| 9 | `CriticalSection` | written, checked |
| 10 | `UartRxProofs`: types, `IdleTimerServes`, `DeliversPrefix` | proved |
| 11 | `SpiBusProofs`: all of its safety properties; the critical sections | proved |
| 12 | `ListProofs`; `KernelMutexProofs`: `NoLostWakeup`, `ImplementsLocks`, `InheritsPriority` for one mutex | proved |
| 13 | `LcdProofs`: `DrawsVisiblePart`, `StreamsVisiblePart`, `PanelFollowsConfig` | proved |
| 14 | `LcdProofs`: `DmaReadsItsChunk`, `DisplayUnderstands` for calls with one command | proved |
| 15 | `KernelTimeProofs`: `ListsAreSound`, `TimesAreKept`, `TimeoutIsExact` | proved |
| 16 | `NeverMerges`: which boards' handlers are prompt enough; with `DeliversAfterIdle` | proved |
| 17 | `PartsProofs`: `SectionsAreAtomic`, `HeapIsSound`, `QueueIsFifo`; the safety parts of `KeyIsLogged` and `TextIsDrawn` | proved |
| 18 | `UartEcho`: one UART's two halves composed - a receive callback that sends, `bsp_uart_set_baudrate` across both | to do |
| 19 | `UartTiming`: idle ticks and tick conversion with their widths | to do |

What composes what: `UartTxRefinement` extends `UartTx` and instantiates
`TxLink` with a mapping; every `MC` module extends the module it instantiates;
`LcdDraw` and `LcdWire` take from `SpiBus` that a lock has one owner, and
`LcdWire` refines the sending of a window and of pixels that `LcdDraw` takes as
single steps. `KernelMutex` implements `RecursiveLocks`, which is what `SpiBus`
and `LcdDraw` take a lock to be. `MCParts` puts five modules that share nothing
side by side, so that one run checks them: a behaviour is one of the part it
starts with. `Lists` has what both kernel modules need of lists kept in order.
Each `...Proofs` module extends the module it is about; `LcdProofs` extends
`LcdDraw` and `LcdWire`, whose names differ for that, and `PartsProofs` extends
`MCParts`, which has its parts as instances; `ListProofs` holds the lemmas about
`Lists`. No module declares a recursive operator.

Abstract specifications: `TxLink`, `BoundedFifo`, `RecursiveLocks`; one of
reception, a link that delivers each message between two silences, would be
worth stating.

## 3. The modules and the code

### `UartTx`: sending

One UART. The variables are the fields of `uart_state_t` with the code's names,
the hardware (`dma`, `dma_done`, `fifo`, `baud`) and two histories (`accepted`,
`wire`). `caller[t]` says where task `t` is inside the API.

| Code | Actions |
|---|---|
| `bsp_uart_init` | `UartInit` |
| `bsp_uart_send_async` in a task | `Reserve` (first critical section), `CopyByte` (`memcpy`), `StoreLength`, `Publish` (second critical section, with `uart_try_start_dma`) |
| `bsp_uart_send_async` in a handler or callback | `IsrSendAsync`, one step |
| DMA-done interrupt, `uart_tx_complete` | `TxComplete` |
| `bsp_uart_send` | `SendLock`, `SendByte`, `SendUnlock` |
| `bsp_uart_set_baudrate` | `BaudLock`, `BaudDrained`, `BaudApply`, `BaudUnlock` |
| DMA channel, transmit FIFO (external) | `DmaMove`, `ShiftOut` |

A step is what runs without interruption: a critical section, a whole handler,
or one access outside. A message is the number of its acceptance. Code whose
calls only test a length before they send (`bsp_uart_printf` and its sibling)
is the choice of a length.

`TxLink` is the promise of `uart.h`: messages are accepted, and their bytes
leave in order. `UartTxRefinement` maps the driver's state to it: what is
unsent is the FIFO's contents, what each used slot still has to send - a slot
that is being filled stands for the message its task was called with - and what
a blocking send still has to send. These bytes are `TxLink`'s `pending`, listed
in the order of acceptance. The mapping puts them in order, not the driver; that
the driver does too is what the refinement says, since each byte that leaves
must be the first of the list and be gone from it afterwards, and `wire` and
`accepted` are mapped to themselves.

### `UartRx`: receiving

All UARTs and the timer they share. Handlers do not nest, but bytes come in
while they run, so each handler is a sequence of steps: `cpu` says which
handler runs, where it is and the value of its local variable.

| Code | Actions |
|---|---|
| `UARTn_IRQHandler`, `uart_irq_proc` | `UartEnter`, `UartNext` (a pending interrupt; of a byte and an error either may come first), `UartRead`, `UartArm` (the two halves of `uart_drain_rx`), `UartReset` (the error cases) |
| `UART_RX_IDLE_INST_IRQHandler` | `TimerEnter`, `TimerRead`, `TimerArm`, `TimerCount`, `TimerDeliver`, `TimerRestart` for one UART after the other |
| `bsp_uart_init`, `bsp_uart_set_callback`, `bsp_uart_set_baudrate` | `UartInit`, `SetCallback`, `SetBaud` |
| line, FIFO, interrupt flags, timer (external) | `Arrive`, `Tick` |

Time is counted in units, `Period` of them to a run of the timer, and passes
only while no handler runs; a task may mask interrupts while it passes. A
callback may set or remove callbacks itself (`CallbacksAfter`). Whether the receive interrupt looks at the FIFO's level or at
its passing of the level is left open, since the driver library documents the
latter and hardware of this kind often does the former. In the model a `board`,
chosen at the start, says so, and with it whether tasks mask interrupts, the
rates, whether the line has errors and how many bytes come. `MaxSince` caps the time since the last
byte at a value past which no decision depends on it.

### `SpiBus`: sharing SPI1

One bus. `created`, `owner` and `count` are the recursive mutex; `selected`,
`select_depth` and `low` the selection and the chip selects; `tx` and `rx` the
FIFOs. `pc`, `target` and `open` are each task's place in the API and what it
holds. The actions follow the calls: `Call`, `MutexGet`, `Take`, `SelectCheck`,
`AssertCs`, `SelectDepth`, `Opened`; `Unlock` or `Deselect`, `ReleaseCs`,
`Give`; `Stream`, `Transmit`, `Sent`, `Answer` for bytes; `Shift` is the
hardware and `StartScheduler` the end of `main`. Tasks nest calls as `spi.h`
allows; one device's driver streams like the LCD's, the other exchanges bytes
like the flash's, so the flash driver is covered as a client.

### `LcdDraw`: clipping, windows and directions

Each task draws, clears, streams or turns the display. A drawing call is
`Draw` or `Clear` and `ReadSize`, then `ClipCheck` and `ClipFit` per axis
outside the lock, `Lock`, `BeginWindow`, `FillBuffer`, `SendBuffer` until all
pixels are sent, `Unlock`. A stream locks first (`Stream`, `Lock`,
`SetAddress`); it is asked for by its corners, which are words, where a drawing
call is asked for by its length. `bsp_lcd_set_direction` is `Turn`, `Lock`, `CopyWidth`,
`CopyRest` (the structure is copied in words), `Madctl`. `panel` is the
display's own memory of direction, window and pixels. Colours are the tasks
that send them. The text calls (`Text`, `TextFits`, `TextAddress`) check the fit
of a cell outside the lock and send all its pixels whatever became of the
window. `stale` is a history of the calls under which the display was turned
before they had the lock: what is promised of drawing is promised to the others.

### `LcdWire`: commands, data and the FIFO

One call at a time, as the sequence of steps it consists of: changes of the
D/C pin, bytes, waits, chunks through `lcd_tx_buffer`. The SPI shifts bytes out
in its own time and the display reads the pin at a byte's last bit, so how far
the pin runs ahead of the bytes is left open.

### `LcdText`: text

One call of `bsp_lcd_print` or `bsp_lcd_printf`: `text` and `next` are its
string, `cursor` its `cursor_x` and `cursor_y`, `cells` what was drawn where.
`EndOfText`, `Newline`, `Wrapped`, `Full`, `DrawLine` (scale 1, a row at once,
`bsp_lcd_print_line_1x`) and `DrawChar` (`bsp_lcd_draw_char`) are the branches
of its loop. `Layout` is the reference: it has no cursor, and tells a
character's line by counting those that begin up to it (`BeginsLine`), and its
column by its distance from the paragraph's beginning. The text ends at the height
the display has in its present direction, as the code has it; `lcd_font.h:31`
says `BSP_LCD_HEIGHT`, which is the height in only two of the four directions.

### `KeyLog`: the application

`app_entrance` from the identification of the flash (`ReadId`, up to `MaxReads`
times) over `EnableKey` to its loop (`EnterCritical`, `ReadPending`,
`ReadStamp`, `ClearPending`, `Log`, `Sleep`, `Wake`), one access a step, and
`GROUP1_IRQHandler` as `KeyIsr` with `FarEnough` and `Accept`. The tick count
wraps at `Word`. The key's edges and the tick are external.

### `RingQueue` and `BoundedFifo`

`ds_rq_init`, `ds_rq_push` and `ds_rq_pop`, a step each, with `ds_rq_size` and
`ds_rq_avail`; `BoundedFifo` is a sequence of at most so many bytes that takes a
chunk whole or not at all.

### `CriticalSection`

`bsp_sys_enter_critical` and `bsp_sys_exit_critical` with the choice they both
make (`ByMask`), PRIMASK, the port's `ulCriticalNesting` and whether the
scheduler runs. `open` is what each context still has to close. Kernel calls
(`KernelCall`, `vTaskSuspendAll`, `xTaskResumeAll`) use the nesting count
themselves; before the scheduler's start they leave interrupts masked.
`Switch`, `Interrupt` and `InterruptEnd` are who runs next. Nobody calls the
kernel from within a section.

### `KernelMutex` and `RecursiveLocks`

The scheduler (`Switch`, `Tick`, `Yield`), `xQueueTakeMutexRecursive` and
`xQueueSemaphoreTake` (`TakeRecursive`, `Take`, `TakeNot`, `Block`, `TimedOut`,
`DisinheritAfterTimeout`), `xQueueGiveMutexRecursive` (`GiveRecursive`, with
`Free` for `xQueueGenericSend`), and `Delay`. Lists, priorities and counts have
the code's names. A step is a critical section or what runs with the scheduler
suspended; between the failed take and the suspension anything may happen, and
a block time may be over at any tick. `RecursiveLocks` has a holder and a depth
for each mutex and nothing else.

### `KernelTime`

`Tick` is `SysTick_Handler` with `xTaskIncrementTick` (`Ticked`, `Switched`,
`Unblocked`), `Event` is `xTaskRemoveFromEventList`, `vTaskDelay` and `Wait`,
`Block`, `Return` the two kinds of waiting, `Resume` is `xTaskResumeAll`, and
`IdleSuspend`, `IdleSleep`, `IdleWake` are `prvIdleTask` with
`vPortSuppressTicksAndSleep`. `clock` holds the kernel's variables that the tick
changes. Histories: `real` counts the tick interrupts there should have been,
`age` how long each call has lasted.

### `Heap4`

`pvPortMalloc`, `pvPortCalloc`, `vPortFree` (marking, `MarkFree`, before the
scheduler is suspended; `InsertFree` after) and the reset of the minimum. The
list of free blocks is a sequence of addresses and sizes; the walk to the first
that is long enough is `FirstFit`, that to the place of a block which is given
back is `Before`. `Heap4Constants` asks for a heap with room for a block, whose
end is an address, and that is smaller than the bit which marks a block: here
10 KiB in 32 bits.

## 4. What is checked

| Run | Instance | What it shows |
|---|---|---|
| `uart_tx` | 3 tasks, 2 slots of 2 bytes, FIFO of 2, 4 messages, fair | the ring's fillers, the DMA and the blocking path never collide; no start is lost; the rate changes on a quiet line; `UartTx` implements `TxLink`: whole, once, in order, eventually |
| `uart_rx` | three boards: 1 UART, 4 bytes, edge interrupt, masking; 1 UART, 3 bytes with errors, two rates; 2 UARTs, 3 bytes, masking. FIFO of 3, buffer of 2, fair | what is delivered is a prefix of what came since the last delivery or error, after a quiet line; bytes further apart than a window and two runs of the timer are not merged if handlers are prompt; the timer serves who needs it; receptions end, and with a level interrupt every byte is read |
| `uart_rx_stranded` | 2 UARTs, edge interrupt, fair | *violated*: see 7 |
| `spi_bus_safety` | boot and 3 tasks, 2 devices, nesting 3, FIFOs of 2 | exclusion, balance, bytes to their device, answers to their byte; no deadlock |
| `lcd_draw` | 2 tasks that draw, write text, stream and turn a 2x3 display; 4 rectangles | calls fill the visible part of their rectangle with their own pixels; streams even if the display was turned; `lcd_config` and the display agree |
| `lcd_draw_turned` | the same | *violated*: see 7 |
| `lcd_wire_single` | 1 to 3 data bytes, FIFO of 2, DMA chunk of 3, fair | commands and data are told apart; the buffer is free when refilled; calls end |
| `lcd_wire_window` | an address window | *violated*: see 7 |
| `kernel_mutex` | idle and 3 tasks of different priority, 1 mutex taken up to twice, no, limited and unlimited waits, fair | priorities are inherited and given back; no waiter is forgotten; `KernelMutex` implements `RecursiveLocks`; the urgent task gets the mutex |
| `kernel_mutex_yield` | the same with 2 mutexes and unlimited waits | *violated*: see 7 |
| `kernel_time` | 2 tasks, tick count of 6, overflow count of 2, block times 1, 3, 5, 2 pended ticks, sleeps up to 3 | lists and block times across wraps; no tick is lost; time-outs are exact |
| `parts` | heap of 22 bytes in `size_t` of 6 bits; queues of 1 to 5 bytes; all texts up to 6 characters, scales 0 to 3; 2 presses, tick count of 9; sections of 2 tasks and a handler, 4 deep; fair | the heap is sound; the queue implements `BoundedFifo`; texts are laid out as `Layout` says; presses are debounced and logged; sections are atomic and leave the mask as it was |

Properties that a run checks together are conjunctions of named parts:
`IdleTimerServes` (the flag that the timer runs is right; what is pending has
the timer; the threshold is half a FIFO only during a reception),
`InheritsPriority` (a holder is as urgent as its waiters; nobody is urgent
without reason; event lists are sorted), `ListsAreSound`, `TimesAreKept`,
`IsSound` in `Heap4`, and those of `parts`.

Why the bounds are enough. Two slots are the code's number, and with them the
ring is empty, half full and full; four messages take it round twice
while stale flags are about, and three tasks let two fill while one
blocks. Two bytes are the shortest copy that can be torn. In reception the FIFO
of 3 with a half level of 2 has a state below, at and above each
threshold; the buffer is shorter than the longest reception, so the excess is
dropped; the idle windows of the two rates are less and more than one run of
the timer. On the bus, nesting of 3 holds a lock around two
selections; FIFOs of 2 overflow. The rectangles lie inside, stick out, lie where only one
direction has a display, and are empty; a `uint16_t` of 16 values wraps like
one of 65536, as sizes and offsets stay far below both. Three tasks above the
idle task are the least for an inversion, and for a waiter that joins or times
out while another waits. A tick count of 6 and an overflow count of 2 wrap many
times in every combination, and block times of 1, 3 and 5 are the shortest, one
in the middle and `portMAX_DELAY`, which means no end. Every size of rest is met
when the heap splits a block, and sizes of 61 and products like 33 * 4 overflow.
Texts of 6 on a display of 7x7 with cells of 2x2 fill a row, wrap, meet the
bottom and start off the display.

Runs of the UARTs say `CHECK_DEADLOCK FALSE` because their messages and bytes
are bounded: when all are sent or received nothing remains to be done. `parts`
does because a text ends, and presses and queues' contents are bounded. The
other passing runs check deadlock.

Fairness. `uart_tx` assumes that a task inside a call goes on (the
priorities of this program let every task run), that a pending completion is
served, and that DMA and UART do not stop. `uart_rx` and
`uart_rx_stranded` assume that handlers run and time passes. In `lcd_wire_single`
the task that holds the bus goes on, and so do the DMA and the SPI. In
`kernel_mutex` pending switches happen, kernel code goes on, time passes, and a
task that holds a mutex gives it back however often it is preempted (strong
fairness of each give: it is the running task again and again, not for good).
Nothing is assumed about tasks that hold nothing: they may run for ever.
`UrgentIsServed` speaks of behaviours where no task waits for the mutex with a
time-out: a time-out that races a give ends in the same missed switch as
`kernel_mutex_yield`. In `parts` the ticks and the entrance task go on, and a
text call runs. Safety properties assume no fairness. Nobody is assumed to
start a call.

`PROJECT.json` gives for each property a plausible bug (`Mutant` in the
modules) that makes it fail under the same configuration.

## 5. What is proved

Each theorem holds for every value of the constants that the module's assumption
admits; the runs check those same assumptions on their instances.

### Sending

`UartTxProofs` proves, for any number of tasks, slots, bytes and messages, that
`Spec` keeps `TypeOK`, `RingConsistent`, `FillersOwnSlots`,
`UnfilledSlotsAreReady`, `NoTornRead`, `NoLostStart`, `ExclusiveIsAlone` and the
action property `BaudChangesWhenQuiet`. The only assumption is
`UartTxAssumption`: the sizes are positive numbers.

The argument is the inductive invariant `Inv` of `UartTx`. The safety
properties are not inductive without three more facts. A caller past its checks
has an initialized UART and a legal length, and stores the length before it
publishes (`CallsWellFormed`). A ready slot in use holds at least one byte
(`ReadySlotsHaveLength`): otherwise a transfer of size zero would never end in
a completion. And nothing is in the ring before initialization
(`QuietUntilInit`), or `bsp_uart_init` would abandon a transfer. The key pair is
`FillersOwnSlots` and `UnfilledSlotsAreReady`: together they say that a slot in
use is ready exactly if nobody fills it, though ready flags go stale when
a slot is retired; so `uart_try_start_dma` never starts a half-filled slot
(`NoTornRead`) and never passes over a filled one (`NoLostStart`).

The lemmas, in order: the modulus of the indices as one subtraction
(`ModSmall`, `SlotAtSmall`, `NextSlotSmall`); a push adds the tail slot to
the set of used slots, and a pop takes the head slot away (`SlotsPush`,
`SlotsPop`), where most of the arithmetic is; one lemma per action, with
what several share factored out (`BlockingPathInv`, `UnlockInv`, `BaudStepInv`,
`FillSlotInv`, `StartInv`). `BaudChangesWhenQuiet` needs `DrainedBeforeApply`
besides: a task about to change the rate sees an empty FIFO until it does,
because it alone has the transmitter.

`LinkIsImplemented` proves the safety of `TxLink`, its initial states and its
steps: every message that a call accepts leaves the UART whole, once, unmixed
and in the order of acceptance. The invariant it needs, `LinkInv`, adds three
facts to `Inv`. The slots in use hold the messages accepted last, one each, from
the head on (`SlotsHoldMessages`): the slot at place j of the ring is for
message `accepted - tx_count + j + 1`, whether that is copied or still being
copied, and a blocking send, alone with the transmitter, is about the last
message of all. The FIFO is in order and goes before all that waits
(`FifoGoesFirst`). And the unsent bytes can be listed in order (`Lists`), which
makes them finite, so that `Listed` is that list (`ListedIs`). Then four lemmas
say when a step is one of `TxLink`'s: a step that changes nothing unsent is none
(`LinkStutters`), nor is one that moves the first waiting byte into the FIFO
(`LinkMoves`); a message whose bytes begin to wait is accepted (`LinkAccepts`);
the FIFO's first byte is shifted out (`LinkShifts`). One lemma per action shows
which of the four it is. The delicate ones are the publication of a slot, which
must not change what the slot is to send though it changes where that is read
from, and the completion, which retires the head slot only when all of it is in
the FIFO.

`RingConsistent` and `UnfilledSlotsAreReady` are proved and no longer listed in
a run: `NoLostStart` and `FillersOwnSlots`, which rest on them, are.

### Reception

`UartRxProofs` proves, for any number of UARTs, FIFO and buffer sizes, rates,
boards and bytes, that `Spec` keeps `TypeOK`, `IdleTimerServes`,
`DeliversPrefix` and `NeverMerges`, and the action property
`DeliversAfterIdle`. `UartRxAssumption` says that sizes and rates are positive and
the rates finitely many. The invariant (`ReceiveInvariant`) says where every
byte is that came and was not delivered: what is in the buffer, in the FIFO and
in the handler's hand is what came since the last delivery or drop, in order,
with the excess left out. It is not inductive without two facts about the
handlers. What a handler has found out stays true while bytes arrive between its
steps: the timer handler has passed over the UARTs before the one it is at, and
those it has still to visit are as the last run of the timer left them. And a
buffer with a bad or lost byte is pending to be dropped: the error interrupt is
raised and the FIFO cannot be drained into the buffer before it is served.

`TimingInvariant` adds the times. From it `DeliveredAfterIdle` proves the action
property `DeliversAfterIdle` on every board: no message is delivered before its
UART's idle window has passed. `NeverMerged` proves `NeverMerges`: on a
board with prompt handlers, two bytes that came further apart than a window and
two runs of the timer are never delivered in one message. `NeverMerges` is stated of boards on which no task masks interrupts for
long (`masked`) and whose receive interrupt looks at the level of the FIFO
(`level`). Without the second it is false as soon as two UARTs share the timer:
an interrupt that only notices the passing of the level can miss a byte (finding
`uart_rx_stranded`), which then counts for the next message.

The timing part of the invariant (`TimingInv`) compares two clocks, the time
since a UART's last byte and the runs of the shared timer that its window still
has, and is stated at every step of the handlers, since a handler that has
looked at a UART goes on to others while bytes arrive. `RunIsWhole`: while its
handler runs, the timer has not counted yet. `NotEarly`: what has passed and what
is left of the window are together a window at least; a byte that has come in
between and is unread came within it only if somebody will read it before the
window is counted down. `BufferIsTimed`: what is in the buffer is being timed.
These hold on any board. On prompt ones, `LevelIsNoted` (a full FIFO has its
interrupt pending or in progress) and `NotLate` (a byte is looked at within a run
of the timer, and a window ends a run late at most) give `Together` and
`MessageIsTogether`: neither what is being received nor the last message has a
byte in it that came apart from the one before.

### The SPI bus

`SpiBusProofs` proves all five safety properties of `spi_bus_safety` for any
tasks, devices, nesting and FIFO sizes. Either the bus is free and everything
rests, or one task holds it, and then the depth, the selection, the chip select
and the bytes under way are what that task's place in the API says. That the
mutex is made on the first use, before the scheduler runs, is part of it.

### The five parts of `MCParts`

`PartsProofs` is about the parts that `MCParts` puts side by side. What is
proved of a part has the assumption on its constants as a hypothesis and is about
the part alone. `PartsRunAlone` shows, of the sections, the heap and the queue,
that a behaviour of `MCParts` is one of each of them; `KeyLogStaysSafe` and
`TextStaysDrawn` show it of the other two as far as safety goes. The theorems
about `Spec` follow with `PartsAssumption`.

`SectionsStayAtomic`: no task or handler runs in another's section, interrupts
come back after the last one, and an exit leaves the mask as its enter found it,
for any tasks and nesting. The invariant (`SectionInv`) says which contexts may
be in the middle of something - at most the running one and the one it
interrupted - what each of them has open (`Stack`: suspensions of the scheduler,
then sections, of which only the outermost found interrupts on), that the
kernel's count is that of the sections it counts, and that interrupts are off
just in a section.

`HeapStaysSound`: `HeapIsSound` for every heap, alignment, header and any sizes
asked for. `HeapInv` says, once the heap is set up, of the list, the blocks
taken and the count (`HeapHolds`): free blocks lie in the heap, aligned, each
ending before the next begins; blocks taken have room for what was asked and do
not overlap; none of the former overlaps one of the latter; every byte is in one
or the other; and the count is the number of bytes in free blocks. Two descriptions of
what a call does to the list carry the proof. `Shrunk`: a block or its beginning
is given away, and the others keep their order (`TakingShrinks`, `ShrunkHolds`).
`Grown` and `Joined`: one block takes the place of what lay between two others,
has their bytes and those given back and nothing else, and touches no neighbour
(`InsertedJoins`, `GrownHolds`). That nothing is refused for want of joining
rests on this: a row of free bytes is within one block, since free blocks do not
touch (`NoRowFits`); and a size that overflows, in a sum, in rounding or in
`pvPortCalloc`'s product, is more than the heap (`WantedSize`, `NoLongRow`).

`QueueStaysFifo`: the ring implements `BoundedFifo`. The refinement reads the
queued bytes off the ring (`Queued`). `RingSteps` is where the arithmetic is:
an index `k` steps from another, around the end or not, is `k` steps from it by
the code's count, and the bytes between them keep their places when more are
written. `PushAppends`, `PopTakes` and `InitCreates` show each call to be the
FIFO's. The invariant has that all queued bytes have been pushed, so nothing
that nobody wrote is ever popped.

`KeyLogStaysSafe`: all of `KeyIsLogged` but its eventual part, for any range of
the tick count, debounce time and number of presses. `KeyInv` has that the
reads of the identifier are counted and the mask is on just in the critical
section or at a halt (`StartIsCounted`); what the task has taken over in the
section is what the handler left (`StampIsTaken`); the stamp and the tick count
tell how long ago the last press was (`PressIsTimed`); and there is a mapping of
the log into the accepted presses, strictly in order, which stops short of what
is pending (`Handed`). The stamp is 0 before the first press, so that the
debounce test is right then only because the board takes longer than `Debounce`
to come up: `PressIsTimed` carries that through the start-up's delays.

`TextStaysDrawn`: all of `TextIsDrawn` but that the call returns, for any
display, character and buffer sizes, texts, starts and scales. Types and the
size of the row buffer hold without condition. Order and layout are shown under
the hypothesis `TextIsShort`: the text's lines, had it nothing but line feeds,
end before the cursor runs past `uint16_t`, and so does a character put where
the text starts. Every text of the run is short; so is every one of
`bsp_lcd_printf`, which has at most 127 characters of 6 by 8 pixels, that starts
on the display at a scale of up to 64. Without it the layout is not kept, see
section 6. `TextInv` says that the cursor, wrapped as the loop is about to wrap it, is where the layout has
the next character (`CursorIsSet`), and that what is drawn is what the layout
shows of the characters before it, in their order (`DrawnTo`). The cursor moves
by additions modulo `CursorWord`, the layout divides the distance from the
paragraph's beginning by the characters of a line; `BehindCharacter`,
`BehindNewline` and `RowPlaces` show that they go together, in a row of many as
for a single character. `BelowBottom` shows that a text can be cut at the first
character below the display: nothing behind it is shown.

### Mutexes

`KernelMutexProofs` proves, for any tasks, priorities and mutexes, `TypeOK`,
`NoLostWakeup` and the refinement `ImplementsLocks`: each step of the kernel is
one of the abstract recursive locks or none. `PrioritiesAreInherited` proves
`InheritsPriority` under the hypothesis `Alone`, that there is one mutex; with
two it is false, see section 6. The invariant has the counts (who holds what, how
often), the places (which list each task is on at each step of a call) and the
wake-ups (whoever was woken and has not yet looked is ready, and while the mutex
is free somebody has been woken unless nobody waits). The assumption adds that
priorities, tasks and mutexes are finitely many. Lists in order of priority are
`Kept` in `Lists`; `ListProofs` shows that such an order exists for every list
and what remains of it after an insertion or a removal. These are inductions;
the prover's induction theorems cannot be used (they are about all operators at
once), so the lemmas argue with a least counterexample, whose existence
`MinOfNats` states.

### The kernel's time

`KernelTimeProofs` proves, for any tasks and block times, any ranges of the tick
count and of its overflows and any bounds, `ListsAreSound`, `TimesAreKept` and
the action property `TimeoutIsExact`. `KernelTimeAssumption` asks for a tick count
of more than two values, an overflow count of more than one, and block times that
fit the tick count. That a call takes part for at most one wrap of the tick count
is in the model (`MayTick`): `TimeOut_t` tells no more than one wrap apart.

The invariant (`ClockInvariant`) is mostly about the clock alone (`Sound`), and is
stated of any clock, so that it can be followed through the ticks that
`xTaskResumeAll` makes up for, one after the other. Its parts: both lists are
ordered and hold a task once (`ListsHaveForm`); an entry has the time that is left
of what its task asked for, on the list which that time belongs to (`TimeIsLeft`),
and is late only in the middle of a tick (`NobodyIsLate`); the next unblock time is
the head's, or the greatest when the list is empty (`FirstIsNoted`); and the time-out state of a
wait tells when it was set, with at most one wrap since, and what was left then
(`TimeOutsAreTrue`). The last is what `TimeoutIsExact` needs: the comparison in
`xTaskCheckForTimeOut` is right because the overflow count has moved by one at most,
and by one exactly if the tick count has wrapped (`TimedOutIsExact`). `PutOff` ties
the tick count and the pended ticks to the ticks that there were, `SleepIsShort`
the idle task's sleep to the next unblock time.

The lists are switched only when the delayed list is empty, since at the last value
of the tick count every entry of it would have to be later than that
(`WrappedIsNearlySound`). A tick that finds nobody late need not look further
than the head, because the list is ordered (`UnblockedIsSound`, `FirstIsLeast`).
That any number of pended ticks can be made up for is again an induction, argued
with the least number of ticks for which it fails (`MadeUpIsSound`).

### Drawing

`LcdProofs` proves `TypeOK`, `DrawsVisiblePart`, `StreamsVisiblePart` and
`PanelFollowsConfig` for any tasks, directions, display sizes, offsets, buffer
size and rectangles. `LcdDrawAssumption` asks of the display what its table in
`lcd.c:39` satisfies: size and offset together stay within `uint16_t`; and of
the bound `MaxCounted` that it is not smaller than the display. The invariant
says what each call has settled by each of its steps: up to the lock, which axes
are known to begin on the display and how far the length is cut, against the
`lcd_config` in force (a call for which that is no longer so is `stale`); behind
it, that the window is the visible part of what was asked for (`Placed`), and
that the pixels in it and those still to come are as many as it holds
(`Filling`). Only the owner of the lock changes the window, and `lcd_config` and
the display differ only while a task that has the lock copies the one and has
not told the other. That `WindowOfVisible`, the two clippings in 16 bits,
yields the visible part is where the arithmetic is.

### Bytes on the wire

`LcdProofs` proves of `LcdWire`, for any calls, FIFO and chunk, `WireTypeOK` and
`DmaReadsItsChunk`: while the DMA runs, the program is at the wait for it, so
nobody fills the buffer. `SingleCommandsUnderstood` proves `DisplayUnderstands`
under the hypothesis that each call is a command, a byte of data, a command with
any number of bytes of data, or pixels with any rest. The hypothesis is needed:
`SetWindow` puts commands after data without a wait, and `lcd_wire_window`
shows what comes of it.

In between stands `Orderly`, about a call as a sequence of steps: each byte is
sent after a change of the pin to what the byte is, and between a byte that the
processor writes and a later change to the other level there is a wait for the
SPI. `PinInvariant` holds for any orderly calls, and the calls above are shown
orderly whatever their length. The invariant (`PinIsRight`) says that
the bytes in the FIFO and in the shift register are what the pin says, that the
rest of the call is in order, and that while a byte is under way the rest of the
call waits before the pin changes.

### Only model-checked

* Liveness and whatever rests on fairness: beyond the prover.
* That a call of `bsp_lcd_print` returns and that a press is logged
  (`PrintReturns`, `PressIsLogged`): the parts of `TextIsDrawn` and `KeyIsLogged`
  that rest on fairness.
* `DisplayUnderstands` is false for calls that set a window, and proved for the
  others.
* `ReceivedIsReadByLevel`, `UrgentIsServed`, `CallsEnd`, and of `TxLink` that
  every accepted byte eventually leaves: liveness.

## 6. What is not modelled

* Time inside a handler. A callback slower than a run of the timer, against
  which `uart.h` warns, is therefore not covered.
* The arithmetic of rates in `uart.c` and its widths (planned, step 19). At 1000
  ticks a second the conversions of `time.c` change nothing.
* The texts `bsp_uart_printf` and its sibling format, and truncation there.
* The display's initialization table and its on/off commands: fixed sequences,
  of the form `LcdWire` checks. The row-wise sending of an image that is
  clipped on the right: only its number of pixels is modelled.
* Text drawn while the display is turned: `lcd_draw` promises nothing to a call
  whose fit was checked before the turn, and its pixels may then run around a
  smaller window. In `LcdText` enough line feeds carry the 16-bit `cursor_y`
  past its end, and the text goes on at the top; the texts of the run are short of
  that, which is `TextIsShort` in `PartsProofs`.
* A switch of devices while bytes are under way outside any selection.
* `io.c`, `tim.c`: one register access per call. `bsp.c`: an
  assertion stops the processor.
* Of the kernel: creation and deletion of tasks, data queues, notifications,
  event groups, software timers, stream buffers and the SMP branches. The program
  creates its tasks once and uses nothing of the rest, though `FreeRTOSConfig.h`
  (261, 291, 302) has timers, event groups and stream buffers compiled in. Two mutexes at once are
  in `kernel_mutex_yield` only: a holder that itself waits does not pass its
  priority on, and keeps its place in the event list it is on
  (`tasks.c:6660`), so that `InheritsPriority` is claimed for one mutex. That a
  delay ends is a matter of `TimesAreKept` and of ticks that go on.
* Failures that only refuse a call and change nothing: `bsp_uart_init` with a bad
  DMA channel or without FIFOs (`uart.c:158`, `175`), null pointers given to the
  ring queue (`ds.c:9`, `32`, `45`).
* Errors of the line are one flag, not five: the handler does the same for each. If
  two kinds are pending it drops what it received twice, the model once;
  bytes that arrive between the two are dropped in the code and kept in the model.
  No property says which bytes behind an error are kept.
* Assertions of the kernel about its callers' errors, such as freeing a block
  twice (`heap_4.c:369`), and the clearing of memory that is given back. That
  `xNextTaskUnblockTime` is not in the past (`tasks.c:5890`) follows from
  `ListsAreSound` and `TimesAreKept` while a task is delayed.
* The pending yield that keeps the processor awake (`tasks.c:5955`): the model may
  sleep where the kernel does not. `vTaskStepTick` never steps right to the
  next unblock time (`tasks.c:4571`), since this port stops a tick short of it.
  A semaphore that is given between the failed take and the suspension
  (`queue.c:1813`) sends the task round the loop; `KernelMutex` has that, and
  `KernelTime` reaches the same states by an event that wakes the task at once.
* The acknowledgement of the key's edge: the handler clears no flag itself, and
  reading the group's index (`main.cc:19`) is taken to do so.
* Tickless idle is modelled as the kernel has it, though the display task of
  this tree never lets the processor sleep two ticks.
* The driver library, CMSIS, start-up code: vendored or generated;
  hardware is modelled from how `bsp/` uses it. They are some 97 in 100 lines of
  the tree, so that the modules cover a small share of all lines but most of
  those of `bsp/src` and `app`. `components/utils` is empty here.

## 7. Findings

* `uart_rx_stranded`, `uart.c:502`. The idle-timer handler drains the FIFOs and
  then lowers the threshold. A byte that arrives in between raises no interrupt
  if the hardware looks for the passing of the level, as `dl_uart.h:1871` says:
  it stays unread. The next byte does not help by itself, since the FIFO then
  passes from one entry to two and not the threshold of one: both wait until the
  timer runs for another UART, the baud rate is set, or an error or an overrun
  of the FIFO has everything read and dropped.
* `lcd_draw_turned`, `lcd.c:457`, `469`, `486`. Drawing calls clip before they
  lock. If another task turns the display in between, the window goes out
  unclipped and without the panel's offsets.
* `lcd_wire_window`, `lcd.c:225`. The D/C pin is lowered for the next command
  while data may still be in the FIFO. Only the speed of the program decides
  whether the display takes the last bytes of a window for commands.
* `kernel_mutex_yield`, `queue.c:1055`. A task that gives its last mutex falls
  back to its base priority, and `xTaskPriorityDisinherit` asks for a switch
  (`tasks.c:6805`). `xQueueGenericSend` looks at this only if no task waits for
  the mutex: with a waiter that is not more urgent than the giver, a ready task
  that is more urgent than both does not run until the next switch.
