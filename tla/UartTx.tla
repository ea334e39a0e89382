------------------------------- MODULE UartTx -------------------------------
(***************************************************************************)
(* The transmit half of one UART of bsp/src/uart.c: the ring of transmit   *)
(* slots filled by bsp_uart_send_async and emptied by the DMA channel, the *)
(* exclusive blocking path of bsp_uart_send, and the quiescing done by     *)
(* bsp_uart_set_baudrate.                                                  *)
(*                                                                         *)
(* Who runs.  Any number of tasks, preempted at every step that is not in  *)
(* a critical section; interrupt handlers, which all have the same NVIC    *)
(* priority and so run to completion, as one step; and the hardware: the   *)
(* DMA channel, the transmit FIFO and the line, which never wait for       *)
(* software.                                                               *)
(*                                                                         *)
(* A message is the number of its acceptance, 1, 2, 3, ...; its k-th byte  *)
(* is <<message, k>>.                                                      *)
(***************************************************************************)
EXTENDS Naturals, Sequences

CONSTANTS
  Tasks,        \* the tasks that call the transmit API of this UART
  Bauds,        \* the rates bsp_uart_set_baudrate is called with
  SlotCount,    \* BSP_UART_TX_SLOT_COUNT
  MaxLength,    \* BSP_UART_TX_BUFFER_SIZE; bounds a blocking send as well
  FifoDepth,    \* bytes the transmit FIFO and its shift register hold
  MaxMessages   \* bound: messages accepted in one behaviour

ASSUME UartTxAssumption ==
  /\ SlotCount \in Nat \ {0}
  /\ MaxLength \in Nat \ {0}
  /\ FifoDepth \in Nat \ {0}
  /\ MaxMessages \in Nat

VARIABLES
  initialized,  \* bsp_uart_init succeeded
  dma_channel,  \* it was given a channel, not BSP_UART_DMA_CHANNEL_NONE
  tx_busy,      \* a slot was handed to the DMA channel
  tx_exclusive, \* a blocking send or a reconfiguration owns the transmitter
  tx_head,      \* the oldest slot in use
  tx_tail,      \* the next slot to reserve
  tx_count,     \* slots in use
  tx_slots,     \* their length, ready flag and data
  caller,       \* what each task is doing inside the API
  dma,          \* the DMA channel: source slot, bytes moved, transfer size
  dma_done,     \* DL_UART_DMA_DONE_INTERRUPT_TX is pending
  baud,         \* the configured rate
  fifo,         \* bytes the UART still has to shift out
  wire,         \* history: every byte shifted out
  accepted      \* history: messages accepted so far

ringVars == <<tx_head, tx_tail, tx_count, tx_slots>>
hwVars   == <<dma, dma_done, fifo, wire>>
vars     == <<initialized, dma_channel, tx_busy, tx_exclusive, ringVars,
              caller, hwVars, baud, accepted>>

SlotIds  == 0 .. SlotCount - 1
Messages == 0 .. MaxMessages
Lengths  == 1 .. MaxLength

EmptySlot == [length |-> 0, ready |-> FALSE, data |-> [k \in Lengths |-> 0]]
Idle      == [pc |-> "idle", msg |-> 0, length |-> 0, slot |-> 0, done |-> 0]

Init ==
  /\ initialized = FALSE /\ dma_channel = FALSE
  /\ tx_busy = FALSE     /\ tx_exclusive = FALSE
  /\ tx_head = 0 /\ tx_tail = 0 /\ tx_count = 0
  /\ tx_slots = [i \in SlotIds |-> EmptySlot]
  /\ caller = [t \in Tasks |-> Idle]
  /\ dma = [enabled |-> FALSE, src |-> 0, moved |-> 0, size |-> 0]
  /\ dma_done = FALSE
  /\ baud \in Bauds
  /\ fifo = <<>> /\ wire = <<>>
  /\ accepted = 0

-----------------------------------------------------------------------------
(* Helpers. *)

(* Mutant: the ring index does not wrap. *)
NextSlotNoWrap(i) == i + 1

(* The slot after i in the ring. *)
NextSlot(i) == (i + 1) % SlotCount

(* Mutants: start a slot that is not filled; start only a single slot. *)
TryStartDmaUnfilled(busy, head, count, slots) ==
  IF ~busy /\ count > 0
  THEN /\ tx_busy' = TRUE
       /\ dma' = [enabled |-> TRUE, src |-> head, moved |-> 0,
                  size |-> slots[head].length]
  ELSE tx_busy' = busy /\ UNCHANGED dma
TryStartDmaSingle(busy, head, count, slots) ==
  IF ~busy /\ count = 1 /\ slots[head].ready
  THEN /\ tx_busy' = TRUE
       /\ dma' = [enabled |-> TRUE, src |-> head, moved |-> 0,
                  size |-> slots[head].length]
  ELSE tx_busy' = busy /\ UNCHANGED dma

(* uart_try_start_dma, on the new values of the ring: hand the head slot   *)
(* to the DMA channel if the channel is free and the slot is filled.       *)
TryStartDma(busy, head, count, slots) ==
  IF ~busy /\ count > 0 /\ slots[head].ready
  THEN /\ tx_busy' = TRUE
       /\ dma' = [enabled |-> TRUE, src |-> head, moved |-> 0,
                  size |-> slots[head].length]
  ELSE /\ tx_busy' = busy
       /\ UNCHANGED dma

(* Mutant: take the transmitter while messages are queued. *)
TxLockWhileQueued == ~tx_exclusive /\ tx_exclusive' = TRUE

(* uart_tx_lock: the blocking path needs the transmitter to itself. *)
TxLock ==
  /\ ~tx_exclusive
  /\ tx_count = 0
  /\ tx_exclusive' = TRUE

(* Mutant: a blocking path does not keep messages out. *)
MayReserveAlways == tx_count # SlotCount

(* bsp_uart_send_async takes a slot only if one is free and no blocking    *)
(* path owns the transmitter.                                              *)
MayReserve == ~tx_exclusive /\ tx_count # SlotCount

(* Mutant: leave the ready flag as the previous message left it. *)
ClaimStale(i)    == tx_slots

(* slot->ready = false, when a slot is reserved; = true, when published. *)
Claim(i)     == [tx_slots EXCEPT ![i].ready = FALSE]
MarkReady(i) == [tx_slots EXCEPT ![i].ready = TRUE]

Goto(t, pc) == caller' = [caller EXCEPT ![t].pc = pc]

-----------------------------------------------------------------------------
(* bsp_uart_init: one critical section; a second call returns false, and   *)
(* one that fails leaves the UART uninitialized: no step.                  *)
UartInit(with_dma) ==
  /\ ~initialized
  /\ initialized' = TRUE
  /\ dma_channel' = with_dma
  /\ tx_busy' = FALSE /\ tx_exclusive' = FALSE
  /\ tx_head' = 0 /\ tx_tail' = 0 /\ tx_count' = 0
  /\ tx_slots' = [i \in SlotIds |-> EmptySlot]
  /\ dma_done' = FALSE
  /\ UNCHANGED <<caller, dma, baud, fifo, wire, accepted>>

(* bsp_uart_send_async, first critical section: reserve the tail slot. *)
Reserve(t, n) ==
  /\ caller[t].pc = "idle"
  /\ initialized /\ dma_channel
  /\ accepted < MaxMessages
  /\ MayReserve
  /\ tx_slots' = Claim(tx_tail)
  /\ tx_tail' = NextSlot(tx_tail)
  /\ tx_count' = tx_count + 1
  /\ accepted' = accepted + 1
  /\ caller' = [caller EXCEPT ![t] =
                  [pc |-> "copy", msg |-> accepted + 1, length |-> n,
                   slot |-> tx_tail, done |-> 0]]
  /\ UNCHANGED <<initialized, dma_channel, tx_busy, tx_exclusive, tx_head,
                 hwVars, baud>>

(* Its memcpy, with interrupts enabled: one byte of the copy. *)
CopyByte(t) ==
  LET c == caller[t] IN
  /\ c.pc = "copy" /\ c.done < c.length
  /\ tx_slots' = [tx_slots EXCEPT ![c.slot].data[c.done + 1] = c.msg]
  /\ caller' = [caller EXCEPT ![t].done = c.done + 1]
  /\ UNCHANGED <<initialized, dma_channel, tx_busy, tx_exclusive, tx_head,
                 tx_tail, tx_count, hwVars, baud, accepted>>

(* slot->length = length, still outside any critical section. *)
StoreLength(t) ==
  LET c == caller[t] IN
  /\ c.pc = "copy" /\ c.done = c.length
  /\ tx_slots' = [tx_slots EXCEPT ![c.slot].length = c.length]
  /\ Goto(t, "publish")
  /\ UNCHANGED <<initialized, dma_channel, tx_busy, tx_exclusive, tx_head,
                 tx_tail, tx_count, hwVars, baud, accepted>>

(* Its second critical section: mark the slot ready, start the DMA if the  *)
(* head slot can go.                                                       *)
Publish(t) ==
  LET slots == MarkReady(caller[t].slot) IN
  /\ caller[t].pc = "publish"
  /\ tx_slots' = slots
  /\ TryStartDma(tx_busy, tx_head, tx_count, slots)
  /\ caller' = [caller EXCEPT ![t] = Idle]
  /\ UNCHANGED <<initialized, dma_channel, tx_exclusive, tx_head, tx_tail,
                 tx_count, dma_done, fifo, wire, baud, accepted>>

(* bsp_uart_send_async called by an interrupt handler (a receive callback, *)
(* for instance): no task runs between its two critical sections.          *)
IsrSendAsync(n) ==
  LET filled == [length |-> n, ready |-> TRUE,
                 data |-> [k \in Lengths |-> IF k <= n THEN accepted + 1
                                             ELSE tx_slots[tx_tail].data[k]]]
      slots  == [tx_slots EXCEPT ![tx_tail] = filled]
  IN
  /\ initialized /\ dma_channel
  /\ accepted < MaxMessages
  /\ MayReserve
  /\ tx_slots' = slots
  /\ tx_tail' = NextSlot(tx_tail)
  /\ tx_count' = tx_count + 1
  /\ accepted' = accepted + 1
  /\ TryStartDma(tx_busy, tx_head, tx_count + 1, slots)
  /\ UNCHANGED <<initialized, dma_channel, tx_exclusive, tx_head, caller,
                 dma_done, fifo, wire, baud>>

(* uart_tx_complete, from uart_irq_proc: reading the interrupt index       *)
(* clears the pending flag; the head slot is retired and the next filled   *)
(* one is started.                                                         *)
TxComplete ==
  /\ initialized /\ dma_done
  /\ dma_done' = FALSE
  /\ IF tx_count = 0
     THEN /\ tx_busy' = FALSE
          /\ UNCHANGED <<tx_head, tx_count, dma>>
     ELSE /\ tx_head' = NextSlot(tx_head)
          /\ tx_count' = tx_count - 1
          /\ TryStartDma(FALSE, tx_head', tx_count', tx_slots)
  /\ UNCHANGED <<initialized, dma_channel, tx_exclusive, tx_tail, tx_slots,
                 caller, fifo, wire, baud, accepted>>

(* bsp_uart_send: take the transmitter ... *)
SendLock(t, n) ==
  /\ caller[t].pc = "idle"
  /\ initialized
  /\ accepted < MaxMessages
  /\ TxLock
  /\ accepted' = accepted + 1
  /\ caller' = [caller EXCEPT ![t] =
                  [pc |-> "send", msg |-> accepted + 1, length |-> n,
                   slot |-> 0, done |-> 0]]
  /\ UNCHANGED <<initialized, dma_channel, tx_busy, ringVars, hwVars, baud>>

(* ... DL_UART_transmitDataBlocking each byte once the FIFO has room ... *)
SendByte(t) ==
  LET c == caller[t] IN
  /\ c.pc = "send" /\ c.done < c.length
  /\ Len(fifo) < FifoDepth
  /\ fifo' = Append(fifo, <<c.msg, c.done + 1>>)
  /\ caller' = [caller EXCEPT ![t].done = c.done + 1]
  /\ UNCHANGED <<initialized, dma_channel, tx_busy, tx_exclusive, ringVars,
                 dma, dma_done, wire, baud, accepted>>

(* ... and release it. *)
SendUnlock(t) ==
  /\ caller[t].pc = "send" /\ caller[t].done = caller[t].length
  /\ tx_exclusive' = FALSE
  /\ caller' = [caller EXCEPT ![t] = Idle]
  /\ UNCHANGED <<initialized, dma_channel, tx_busy, ringVars, hwVars, baud,
                 accepted>>

(* bsp_uart_set_baudrate: take the transmitter ... *)
BaudLock(t) ==
  /\ caller[t].pc = "idle"
  /\ initialized
  /\ TxLock
  /\ Goto(t, "drain")
  /\ UNCHANGED <<initialized, dma_channel, tx_busy, ringVars, hwVars, baud,
                 accepted>>

(* Mutant: do not wait for the last byte. *)
BaudNotDrained(t) ==
  /\ caller[t].pc = "drain"
  /\ Goto(t, "apply")
  /\ UNCHANGED <<initialized, dma_channel, tx_busy, tx_exclusive, ringVars,
                 hwVars, baud, accepted>>

(* ... spin on DL_UART_isBusy until the last byte has left ... *)
BaudDrained(t) ==
  /\ caller[t].pc = "drain"
  /\ fifo = <<>>
  /\ Goto(t, "apply")
  /\ UNCHANGED <<initialized, dma_channel, tx_busy, tx_exclusive, ringVars,
                 hwVars, baud, accepted>>

(* ... disable, reprogram and enable the UART in a critical section ... *)
BaudApply(t, b) ==
  /\ caller[t].pc = "apply"
  /\ baud' = b
  /\ Goto(t, "unlock")
  /\ UNCHANGED <<initialized, dma_channel, tx_busy, tx_exclusive, ringVars,
                 hwVars, accepted>>

(* ... and release the transmitter. *)
BaudUnlock(t) ==
  /\ caller[t].pc = "unlock"
  /\ tx_exclusive' = FALSE
  /\ caller' = [caller EXCEPT ![t] = Idle]
  /\ UNCHANGED <<initialized, dma_channel, tx_busy, ringVars, hwVars, baud,
                 accepted>>

-----------------------------------------------------------------------------
(* The hardware. *)

(* One DMA transfer from the source slot into the FIFO; the last one       *)
(* disables the channel and raises the UART's DMA-done flag.               *)
DmaMove ==
  LET k == dma.moved + 1 IN
  /\ dma.enabled
  /\ Len(fifo) < FifoDepth
  /\ fifo' = Append(fifo, <<tx_slots[dma.src].data[k], k>>)
  /\ dma' = [dma EXCEPT !.moved = k, !.enabled = k < dma.size]
  /\ dma_done' = (dma_done \/ k = dma.size)
  /\ UNCHANGED <<initialized, dma_channel, tx_busy, tx_exclusive, ringVars,
                 caller, wire, baud, accepted>>

(* The UART shifts out the oldest byte. *)
ShiftOut ==
  /\ fifo # <<>>
  /\ wire' = Append(wire, Head(fifo))
  /\ fifo' = Tail(fifo)
  /\ UNCHANGED <<initialized, dma_channel, tx_busy, tx_exclusive, ringVars,
                 caller, dma, dma_done, baud, accepted>>

-----------------------------------------------------------------------------

(* What a task does once its call has been accepted. *)
Continue(t) ==
  \/ CopyByte(t) \/ StoreLength(t) \/ Publish(t)
  \/ SendByte(t) \/ SendUnlock(t)
  \/ BaudDrained(t) \/ (\E b \in Bauds : BaudApply(t, b)) \/ BaudUnlock(t)

TaskStep(t) ==
  \/ \E n \in Lengths : Reserve(t, n) \/ SendLock(t, n)
  \/ BaudLock(t)
  \/ Continue(t)

Next ==
  \/ \E d \in BOOLEAN : UartInit(d)
  \/ \E t \in Tasks : TaskStep(t)
  \/ \E n \in Lengths : IsrSendAsync(n)
  \/ TxComplete
  \/ DmaMove
  \/ ShiftOut

Spec == Init /\ [][Next]_vars

(* A task inside the API is eventually scheduled again (no API call waits  *)
(* with interrupts masked or the scheduler suspended, and the tasks above  *)
(* it sleep); a pending interrupt is taken; the hardware does not stop.    *)
Fairness ==
  /\ \A t \in Tasks : WF_vars(Continue(t))
  /\ WF_vars(TxComplete)
  /\ WF_vars(DmaMove)
  /\ WF_vars(ShiftOut)

FairSpec == Spec /\ Fairness

-----------------------------------------------------------------------------
(* Properties. *)

Filling(t)   == caller[t].pc \in {"copy", "publish"}
Exclusive(t) == caller[t].pc \in {"send", "drain", "apply", "unlock"}

(* The slots in use: tx_count of them, from tx_head on. *)
SlotAt(head, j)    == (head + j) % SlotCount
Slots(head, count) == {SlotAt(head, j) : j \in 0 .. count - 1}
Window             == Slots(tx_head, tx_count)

Slot == [length : 0 .. MaxLength, ready : BOOLEAN,
         data : [Lengths -> Messages]]
Call == [pc : {"idle", "copy", "publish", "send", "drain", "apply", "unlock"},
         msg : Messages, length : 0 .. MaxLength, slot : SlotIds,
         done : 0 .. MaxLength]
Transfer == [enabled : BOOLEAN, src : SlotIds, moved : 0 .. MaxLength,
             size : 0 .. MaxLength]
Byte == Messages \X Lengths

(* Every variable has its type: the ring's indices and counts stay in      *)
(* range, and transfers and calls stay within a slot.                      *)
TypeOK ==
  /\ initialized \in BOOLEAN /\ dma_channel \in BOOLEAN
  /\ tx_busy \in BOOLEAN /\ tx_exclusive \in BOOLEAN
  /\ tx_head \in SlotIds /\ tx_tail \in SlotIds /\ tx_count \in 0 .. SlotCount
  /\ tx_slots \in [SlotIds -> Slot]
  /\ caller \in [Tasks -> Call]
  /\ dma \in Transfer
  /\ dma_done \in BOOLEAN
  /\ baud \in Bauds
  /\ fifo \in Seq(Byte) /\ wire \in Seq(Byte)
  /\ accepted \in Messages

(* The ring indices agree: uart.c updates tx_tail, tx_head and tx_count in *)
(* three different functions, at task and at interrupt level.              *)
RingConsistent == tx_tail = SlotAt(tx_head, tx_count)

(* A task fills a slot that is in use, not ready, and its own: no other    *)
(* task fills it although the memcpy runs outside the critical sections.   *)
FillersOwnSlots ==
  \A t \in Tasks : Filling(t) =>
    /\ caller[t].slot \in Window
    /\ ~tx_slots[caller[t].slot].ready
    /\ \A u \in Tasks \ {t} : Filling(u) => caller[u].slot # caller[t].slot

(* A slot in use that nobody fills is ready, whatever its ready flag was   *)
(* the last time round the ring: uart_tx_complete never clears it.         *)
UnfilledSlotsAreReady ==
  \A i \in Window :
    tx_slots[i].ready \/ \E t \in Tasks : Filling(t) /\ caller[t].slot = i

(* The DMA reads only the head slot, which is ready, in use, and holds one *)
(* complete message: a transfer never overlaps a memcpy into its slot.     *)
NoTornRead ==
  dma.enabled =>
    /\ tx_busy /\ ~dma_done /\ tx_count > 0
    /\ dma.src = tx_head
    /\ tx_slots[tx_head].ready
    /\ dma.size = tx_slots[tx_head].length /\ dma.moved < dma.size
    /\ \A t \in Tasks : Filling(t) => caller[t].slot # dma.src

(* No lost start: a filled head slot, and no other, is with the DMA or its *)
(* completion is pending.  Were it neither, nothing would ever start it,   *)
(* since uart_try_start_dma runs only on a publication or a completion.    *)
NoLostStart ==
  /\ tx_busy <=> (dma.enabled \/ dma_done)
  /\ tx_busy <=> (tx_count > 0 /\ tx_slots[tx_head].ready)

(* The exclusive path has one owner, and while it lasts the ring is empty  *)
(* and the DMA is at rest.                                                 *)
ExclusiveIsAlone ==
  /\ \A t \in Tasks : Exclusive(t) => tx_exclusive
  /\ \A t, u \in Tasks : Exclusive(t) /\ Exclusive(u) => t = u
  /\ tx_exclusive => tx_count = 0 /\ ~tx_busy

(* What the inductive invariant adds: a caller past its checks has an      *)
(* initialized UART and a legal length; it stores the length before it     *)
(* publishes; a ready slot holds at least one byte, so that a transfer     *)
(* always ends in a completion.  DrainedBeforeApply is inductive with it.  *)
CallsWellFormed ==
  \A t \in Tasks :
    /\ caller[t].pc # "idle" => initialized
    /\ caller[t].pc \in {"copy", "publish", "send"} =>
         caller[t].length \in Lengths /\ caller[t].done <= caller[t].length
    /\ caller[t].pc = "publish" =>
         tx_slots[caller[t].slot].length = caller[t].length

ReadySlotsHaveLength ==
  \A i \in Window : tx_slots[i].ready => tx_slots[i].length \in Lengths

DrainedBeforeApply ==
  \A t \in Tasks : caller[t].pc = "apply" => fifo = <<>>

QuietUntilInit == ~initialized => tx_count = 0

Inv ==
  /\ TypeOK /\ RingConsistent /\ FillersOwnSlots /\ UnfilledSlotsAreReady
  /\ NoTornRead /\ NoLostStart /\ ExclusiveIsAlone
  /\ CallsWellFormed /\ ReadySlotsHaveLength /\ QuietUntilInit

(* The rate is changed only when every byte accepted before has left the   *)
(* UART at the old rate: nothing refills the FIFO between the spin of      *)
(* bsp_uart_set_baudrate and its critical section.                         *)
BaudChangesWhenQuiet ==
  [][baud' # baud => fifo = <<>> /\ tx_count = 0 /\ ~dma.enabled]_vars

=============================================================================
