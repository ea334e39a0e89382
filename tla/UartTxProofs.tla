---------------------------- MODULE UartTxProofs ----------------------------
(***************************************************************************)
(* Proofs about the transmit half of the UART driver, for any number of    *)
(* tasks and slots, any message length and any FIFO depth: its invariants, *)
(* and that it implements the safety of TxLink.                            *)
(***************************************************************************)
EXTENDS UartTxRefinement, FiniteSetTheorems, SequenceTheorems, TLAPS

-----------------------------------------------------------------------------
(* The slots in use, as the ring moves. *)

(* One subtraction replaces the modulus of uart.c's index updates. *)
LEMMA ModSmall ==
  ASSUME NEW n \in Nat \ {0}, NEW a \in Nat, a < 2 * n
  PROVE  a % n = IF a < n THEN a ELSE a - n
<1>1. CASE a < n
  BY <1>1
<1>2. CASE a >= n
  <2>1. a = 1 * n + (a - n) /\ a - n \in 0 .. n - 1
    BY <1>2
  <2>2. QED
    BY <2>1, <1>2
<1>3. QED
  BY <1>1, <1>2

(* The place of a slot in the ring, without the modulus. *)
LEMMA SlotAtSmall ==
  ASSUME NEW h \in SlotIds, NEW j \in 0 .. SlotCount
  PROVE  SlotAt(h, j) = IF h + j < SlotCount THEN h + j
                        ELSE (h + j) - SlotCount
<1>1. SlotCount \in Nat \ {0} /\ h + j \in Nat /\ h + j < 2 * SlotCount
  BY UartTxAssumption DEF SlotIds
<1>2. (h + j) % SlotCount
        = IF h + j < SlotCount THEN h + j ELSE (h + j) - SlotCount
  BY <1>1, ModSmall
<1>3. QED
  BY <1>2 DEF SlotAt

(* The next slot, without the modulus. *)
LEMMA NextSlotSmall ==
  ASSUME NEW h \in SlotIds
  PROVE  /\ NextSlot(h) = IF h + 1 < SlotCount THEN h + 1 ELSE 0
         /\ NextSlot(h) \in SlotIds
<1>1. SlotCount \in Nat \ {0} /\ h + 1 \in Nat /\ h + 1 < 2 * SlotCount
  BY UartTxAssumption DEF SlotIds
<1>2. (h + 1) % SlotCount
        = IF h + 1 < SlotCount THEN h + 1 ELSE (h + 1) - SlotCount
  BY <1>1, ModSmall
<1>3. h + 1 <= SlotCount
  BY UartTxAssumption DEF SlotIds
<1>4. QED
  BY <1>1, <1>2, <1>3 DEF NextSlot, SlotIds

(* Reserving the tail slot adds it, and only it, to the slots in use: it   *)
(* was free before.                                                        *)
LEMMA SlotsPush ==
  ASSUME NEW h \in SlotIds, NEW c \in 0 .. SlotCount - 1
  PROVE  /\ SlotAt(h, c) \in SlotIds
         /\ SlotAt(h, c) \notin Slots(h, c)
         /\ Slots(h, c + 1) = Slots(h, c) \cup {SlotAt(h, c)}
         /\ NextSlot(SlotAt(h, c)) = SlotAt(h, c + 1)
<1>0. /\ c \in 0 .. SlotCount /\ c + 1 \in 0 .. SlotCount
      /\ SlotAt(h, c) = IF h + c < SlotCount THEN h + c
                        ELSE (h + c) - SlotCount
      /\ SlotAt(h, c + 1) = IF h + (c + 1) < SlotCount THEN h + (c + 1)
                            ELSE (h + (c + 1)) - SlotCount
  <2>1. c \in 0 .. SlotCount /\ c + 1 \in 0 .. SlotCount
    BY UartTxAssumption
  <2>2. QED
    BY <2>1, SlotAtSmall
<1>1. SlotAt(h, c) \in SlotIds
  BY <1>0, UartTxAssumption DEF SlotIds
<1>2. SlotAt(h, c) \notin Slots(h, c)
  <2>1. ASSUME NEW j \in 0 .. c - 1
        PROVE  SlotAt(h, j) # SlotAt(h, c)
    BY UartTxAssumption, SlotAtSmall DEF SlotIds
  <2>2. QED
    BY <2>1 DEF Slots
<1>3. Slots(h, c + 1) = Slots(h, c) \cup {SlotAt(h, c)}
  <2>1. 0 .. (c + 1) - 1 = (0 .. c - 1) \cup {c}
    BY UartTxAssumption
  <2>2. QED
    BY <2>1 DEF Slots
<1>4. NextSlot(SlotAt(h, c)) = SlotAt(h, c + 1)
  <2>1. NextSlot(SlotAt(h, c)) = IF SlotAt(h, c) + 1 < SlotCount
                                 THEN SlotAt(h, c) + 1 ELSE 0
    BY <1>1, NextSlotSmall
  <2>2. QED
    BY <2>1, <1>0, UartTxAssumption DEF SlotIds
<1>5. QED
  BY <1>1, <1>2, <1>3, <1>4

(* The place of a slot seen from the next head. *)
LEMMA PlaceFromNext ==
  ASSUME NEW h \in SlotIds, NEW j \in 0 .. SlotCount - 1
  PROVE  SlotAt(NextSlot(h), j) = SlotAt(h, j + 1)
<1>1. j \in 0 .. SlotCount /\ j + 1 \in 0 .. SlotCount
  BY UartTxAssumption
<1>2. NextSlot(h) = IF h + 1 < SlotCount THEN h + 1 ELSE 0
  BY NextSlotSmall
<1>3. SlotAt(NextSlot(h), j)
        = IF NextSlot(h) + j < SlotCount THEN NextSlot(h) + j
          ELSE (NextSlot(h) + j) - SlotCount
  BY <1>1, NextSlotSmall, SlotAtSmall
<1>4. SlotAt(h, j + 1) = IF h + (j + 1) < SlotCount THEN h + (j + 1)
                         ELSE (h + (j + 1)) - SlotCount
  BY <1>1, SlotAtSmall
<1>5. QED
  BY <1>1, <1>2, <1>3, <1>4, UartTxAssumption DEF SlotIds

(* Retiring the head slot removes it, and only it. *)
LEMMA SlotsPop ==
  ASSUME NEW h \in SlotIds, NEW c \in 1 .. SlotCount
  PROVE  /\ NextSlot(h) \in SlotIds
         /\ h \in Slots(h, c)
         /\ Slots(NextSlot(h), c - 1) = Slots(h, c) \ {h}
         /\ SlotAt(NextSlot(h), c - 1) = SlotAt(h, c)
         /\ c # 1 => NextSlot(h) \in Slots(h, c) \ {h}
<1>1. NextSlot(h) \in SlotIds
  BY NextSlotSmall
<1>2. \A j \in 0 .. SlotCount - 1 : SlotAt(NextSlot(h), j) = SlotAt(h, j + 1)
  BY PlaceFromNext
<1>3. SlotAt(h, 0) = h
  BY UartTxAssumption, SlotAtSmall DEF SlotIds
<1>4. \A j \in 1 .. c - 1 : SlotAt(h, j) # h
  BY UartTxAssumption, SlotAtSmall DEF SlotIds
<1>5. h \in Slots(h, c)
  BY <1>3, UartTxAssumption DEF Slots
<1>6. Slots(NextSlot(h), c - 1) = Slots(h, c) \ {h}
  <2>1. ASSUME NEW i \in Slots(NextSlot(h), c - 1)
        PROVE  i \in Slots(h, c) \ {h}
    <3>1. PICK j \in 0 .. (c - 1) - 1 : i = SlotAt(NextSlot(h), j)
      BY <2>1 DEF Slots
    <3>2. i = SlotAt(h, j + 1) /\ j + 1 \in 1 .. c - 1
      BY <3>1, <1>2, UartTxAssumption
    <3>3. QED
      BY <3>2, <1>4 DEF Slots
  <2>2. ASSUME NEW i \in Slots(h, c) \ {h}
        PROVE  i \in Slots(NextSlot(h), c - 1)
    <3>1. PICK j \in 0 .. c - 1 : i = SlotAt(h, j)
      BY <2>2 DEF Slots
    <3>2. j # 0
      BY <3>1, <2>2, <1>3
    <3>3. /\ j - 1 \in 0 .. (c - 1) - 1 /\ j - 1 \in 0 .. SlotCount - 1
          /\ (j - 1) + 1 = j
      BY <3>2, UartTxAssumption
    <3>4. i = SlotAt(NextSlot(h), j - 1)
      BY <3>1, <3>3, <1>2
    <3>5. QED
      BY <3>3, <3>4 DEF Slots
  <2>3. QED
    BY <2>1, <2>2
<1>7. SlotAt(NextSlot(h), c - 1) = SlotAt(h, c)
  BY <1>2, UartTxAssumption
<1>8. c # 1 => NextSlot(h) \in Slots(h, c) \ {h}
  <2>1. SUFFICES ASSUME c # 1
                 PROVE  NextSlot(h) \in Slots(NextSlot(h), c - 1)
    BY <1>6
  <2>2. SlotAt(NextSlot(h), 0) = NextSlot(h)
    BY <1>1, UartTxAssumption, SlotAtSmall DEF SlotIds
  <2>3. QED
    BY <2>1, <2>2, UartTxAssumption DEF Slots
<1>9. QED
  BY <1>1, <1>5, <1>6, <1>7, <1>8

-----------------------------------------------------------------------------
(* Records keep their type. *)

(* A legal length fits the field of a slot. *)
LEMMA LengthsAreSizes == Lengths \subseteq 0 .. MaxLength
BY UartTxAssumption DEF Lengths

(* A call that has made progress is still a call. *)
LEMMA CallDone ==
  ASSUME NEW c \in Call, NEW d \in Lengths
  PROVE  [c EXCEPT !.done = d] \in Call
BY LengthsAreSizes DEF Call

(* A slot with one more byte copied into it is still a slot. *)
LEMMA SlotData ==
  ASSUME NEW s \in Slot, NEW k \in Lengths, NEW m \in Messages
  PROVE  /\ [s EXCEPT !.data[k] = m] \in Slot
         /\ [s EXCEPT !.data[k] = m].ready = s.ready
         /\ [s EXCEPT !.data[k] = m].length = s.length
BY DEF Slot

(* The slots in use are slots of the ring. *)
LEMMA WindowInSlots ==
  ASSUME TypeOK
  PROVE  Window \subseteq SlotIds
<1>1. SUFFICES ASSUME NEW j \in 0 .. tx_count - 1
               PROVE  SlotAt(tx_head, j) \in SlotIds
  BY DEF Window, Slots
<1>2. j \in 0 .. SlotCount - 1 /\ tx_head \in SlotIds
  BY UartTxAssumption DEF TypeOK
<1>3. QED
  BY <1>2, SlotsPush

-----------------------------------------------------------------------------
(* Every action preserves the inductive invariant. *)

(* The state before bsp_uart_init. *)
LEMMA InitInv == Init => Inv
<1> SUFFICES ASSUME Init PROVE Inv
  OBVIOUS
<1>1. SlotAt(0, 0) = 0 /\ 0 \in SlotIds /\ Slots(0, 0) = {}
  BY UartTxAssumption, SlotAtSmall DEF SlotIds, Slots
<1>2. TypeOK
  <2>1. EmptySlot \in Slot
    BY UartTxAssumption DEF EmptySlot, Slot, Messages, Lengths
  <2>2. Idle \in Call
    BY <1>1, UartTxAssumption DEF Idle, Call, Messages
  <2>3. dma \in Transfer
    BY <1>1, UartTxAssumption DEF Init, Transfer
  <2>4. tx_slots \in [SlotIds -> Slot] /\ caller \in [Tasks -> Call]
    BY <2>1, <2>2 DEF Init
  <2>5. 0 \in 0 .. SlotCount /\ 0 \in Messages
    BY UartTxAssumption DEF Messages
  <2>6. <<>> \in Seq(Byte)
    OBVIOUS
  <2>7. QED
    BY <1>1, <2>3, <2>4, <2>5, <2>6 DEF Init, TypeOK
<1>3. QED
  BY <1>1, <1>2, UartTxAssumption
  DEF Init, Inv, RingConsistent, FillersOwnSlots, UnfilledSlotsAreReady,
      NoTornRead, NoLostStart, ExclusiveIsAlone, CallsWellFormed,
      ReadySlotsHaveLength, QuietUntilInit, Filling, Exclusive, Window, Idle

(* Shifting a byte out touches nothing the invariant speaks of. *)
LEMMA ShiftOutInv == Inv /\ ShiftOut => Inv'
BY DEF Inv, ShiftOut, TypeOK, RingConsistent, FillersOwnSlots,
      UnfilledSlotsAreReady,
      NoTornRead, NoLostStart, ExclusiveIsAlone, CallsWellFormed,
      ReadySlotsHaveLength, QuietUntilInit, Filling, Exclusive, Window,
      ringVars

(* A DMA transfer moves within the message; the last one trades the        *)
(* running channel for the pending completion.                             *)
LEMMA DmaMoveInv == Inv /\ DmaMove => Inv'
<1> SUFFICES ASSUME Inv, DmaMove PROVE Inv'
  OBVIOUS
<1>1. dma.moved + 1 \in Lengths /\ dma.moved + 1 <= dma.size
  BY UartTxAssumption
  DEF Inv, TypeOK, Transfer, DmaMove, NoTornRead, Lengths
<1>2. TypeOK'
  <2>1. dma' \in Transfer
    <3>1. dma' = [dma EXCEPT !.moved = dma.moved + 1,
                             !.enabled = dma.moved + 1 < dma.size]
      BY DEF DmaMove
    <3>2. (dma.moved + 1 < dma.size) \in BOOLEAN
      OBVIOUS
    <3>3. dma.moved + 1 \in 0 .. MaxLength
      BY <1>1, UartTxAssumption DEF Lengths
    <3>4. dma \in Transfer
      BY DEF Inv, TypeOK
    <3>5. QED
      BY <3>1, <3>2, <3>3, <3>4, Zenon DEF Transfer
  <2>2. <<tx_slots[dma.src].data[dma.moved + 1], dma.moved + 1>> \in Byte
    BY <1>1 DEF Inv, TypeOK, Transfer, Slot, Byte
  <2>3. QED
    BY <2>1, <2>2 DEF Inv, TypeOK, DmaMove, ringVars
<1>3. NoTornRead'
  BY <1>1 DEF Inv, TypeOK, Transfer, DmaMove, NoTornRead, NoLostStart,
      Lengths, ringVars, Filling
<1>4. NoLostStart'
  BY <1>1 DEF Inv, TypeOK, Transfer, DmaMove, NoTornRead, NoLostStart,
      Lengths, ringVars
<1>5. QED
  BY <1>2, <1>3, <1>4 DEF Inv, DmaMove, ringVars, RingConsistent,
      FillersOwnSlots, UnfilledSlotsAreReady,
      ExclusiveIsAlone, CallsWellFormed,
      ReadySlotsHaveLength, QuietUntilInit, Filling, Exclusive, Window

(* The steps of the blocking paths touch neither the ring, nor the DMA,    *)
(* nor a task that fills a slot.                                           *)
LEMMA BlockingPathInv ==
  ASSUME Inv, TypeOK', CallsWellFormed', ExclusiveIsAlone',
         UNCHANGED <<initialized, tx_busy, ringVars, dma, dma_done>>,
         \A u \in Tasks : /\ Filling(u)' <=> Filling(u)
                          /\ Filling(u) => caller'[u] = caller[u]
  PROVE  Inv'
<1>1. /\ UNCHANGED <<initialized, tx_busy, tx_head, tx_tail, tx_count,
                     tx_slots, dma, dma_done>>
      /\ Window' = Window
  BY DEF ringVars, Window
<1>2. FillersOwnSlots' /\ UnfilledSlotsAreReady' /\ NoTornRead'
  BY <1>1 DEF Inv, FillersOwnSlots, UnfilledSlotsAreReady, NoTornRead
<1>3. /\ RingConsistent' /\ NoLostStart' /\ ReadySlotsHaveLength'
      /\ QuietUntilInit'
  BY <1>1 DEF Inv, RingConsistent, NoLostStart, ReadySlotsHaveLength,
              QuietUntilInit
<1>4. QED
  BY <1>2, <1>3 DEF Inv

(* bsp_uart_send takes the transmitter: the ring is empty, so no slot is   *)
(* with the DMA.                                                           *)
LEMMA SendLockInv ==
  ASSUME Inv, NEW t \in Tasks, NEW n \in Lengths, SendLock(t, n)
  PROVE  Inv'
<1> DEFINE c == [pc |-> "send", msg |-> accepted + 1, length |-> n,
                 slot |-> 0, done |-> 0]
<1>1. accepted + 1 \in Messages
  BY UartTxAssumption DEF Inv, TypeOK, SendLock, Messages
<1>2. c \in Call
  BY <1>1, LengthsAreSizes, UartTxAssumption DEF Call, SlotIds
<1>3. /\ caller \in [Tasks -> Call] /\ caller' = [caller EXCEPT ![t] = c]
      /\ caller[t].pc = "idle" /\ initialized /\ ~tx_exclusive /\ tx_exclusive'
      /\ tx_count = 0 /\ ~tx_busy
      /\ UNCHANGED <<initialized, dma_channel, tx_busy, ringVars, hwVars,
                     baud>>
  BY DEF Inv, TypeOK, SendLock, TxLock, NoLostStart
<1>4. c.pc = "send" /\ c.length = n /\ c.done = 0 /\ 0 <= n
  BY DEF Lengths
<1>5. TypeOK'
  BY <1>1, <1>2, <1>3 DEF Inv, TypeOK, SendLock, TxLock, ringVars, hwVars
<1> HIDE DEF c
<1>6. CallsWellFormed'
  BY <1>3, <1>4 DEF Inv, CallsWellFormed, ringVars
<1>7. ExclusiveIsAlone'
  BY <1>3, <1>4 DEF Inv, ExclusiveIsAlone, Exclusive, ringVars
<1>8. \A u \in Tasks : /\ Filling(u)' <=> Filling(u)
                       /\ Filling(u) => caller'[u] = caller[u]
  BY <1>3, <1>4 DEF Filling
<1>9. QED
  BY <1>3, <1>5, <1>6, <1>7, <1>8, BlockingPathInv DEF hwVars

(* A blocking byte goes behind those in the FIFO; the ring is not touched. *)
LEMMA SendByteInv ==
  ASSUME Inv, NEW t \in Tasks, SendByte(t)
  PROVE  Inv'
<1> DEFINE c == [caller[t] EXCEPT !.done = caller[t].done + 1]
<1>1. caller[t] \in Call /\ caller[t].done + 1 \in Lengths
  BY UartTxAssumption DEF Inv, TypeOK, SendByte, Call, CallsWellFormed, Lengths
<1>2. c \in Call
  BY <1>1, CallDone
<1>3. /\ caller \in [Tasks -> Call] /\ caller' = [caller EXCEPT ![t] = c]
      /\ caller[t].pc = "send"
      /\ UNCHANGED <<initialized, dma_channel, tx_busy, tx_exclusive, ringVars,
                     dma, dma_done, wire, baud, accepted>>
  BY DEF Inv, TypeOK, SendByte
<1>4. /\ c.pc = "send" /\ c.length = caller[t].length
      /\ c.length \in Lengths /\ c.done <= c.length
  BY <1>1 DEF Inv, Call, SendByte, CallsWellFormed, Lengths
<1>5. <<caller[t].msg, caller[t].done + 1>> \in Byte
  BY <1>1 DEF Call, Byte
<1>6. TypeOK'
  BY <1>2, <1>3, <1>5 DEF Inv, TypeOK, SendByte, ringVars
<1> HIDE DEF c
<1>7. CallsWellFormed'
  BY <1>3, <1>4 DEF Inv, CallsWellFormed, ringVars
<1>8. ExclusiveIsAlone'
  BY <1>3, <1>4 DEF Inv, ExclusiveIsAlone, Exclusive, ringVars
<1>9. \A u \in Tasks : /\ Filling(u)' <=> Filling(u)
                       /\ Filling(u) => caller'[u] = caller[u]
  BY <1>3, <1>4 DEF Filling
<1>10. QED
  BY <1>3, <1>6, <1>7, <1>8, <1>9, BlockingPathInv

(* bsp_uart_send and bsp_uart_set_baudrate release the transmitter: they   *)
(* alone held it.                                                          *)
LEMMA UnlockInv ==
  ASSUME Inv, NEW t \in Tasks, Exclusive(t),
         tx_exclusive' = FALSE, caller' = [caller EXCEPT ![t] = Idle],
         UNCHANGED <<initialized, dma_channel, tx_busy, ringVars, hwVars, baud,
                     accepted>>
  PROVE  Inv'
<1>1. Idle \in Call /\ Idle.pc = "idle"
  BY UartTxAssumption DEF Idle, Call, Messages, SlotIds
<1>2. caller \in [Tasks -> Call]
  BY DEF Inv, TypeOK
<1>3. TypeOK'
  BY <1>1, <1>2 DEF Inv, TypeOK, ringVars, hwVars
<1>4. CallsWellFormed'
  BY <1>1, <1>2 DEF Inv, CallsWellFormed, ringVars
<1>5. \A u \in Tasks : ~Exclusive(u)'
  BY <1>1, <1>2 DEF Inv, ExclusiveIsAlone, Exclusive
<1>6. ExclusiveIsAlone'
  BY <1>5 DEF ExclusiveIsAlone
<1>7. \A u \in Tasks : /\ Filling(u)' <=> Filling(u)
                       /\ Filling(u) => caller'[u] = caller[u]
  BY <1>1, <1>2 DEF Filling, Exclusive
<1>8. QED
  BY <1>3, <1>4, <1>6, <1>7, BlockingPathInv DEF hwVars

(* The end of bsp_uart_send. *)
LEMMA SendUnlockInv ==
  ASSUME Inv, NEW t \in Tasks, SendUnlock(t)
  PROVE  Inv'
BY UnlockInv DEF SendUnlock, Exclusive

(* The end of bsp_uart_set_baudrate. *)
LEMMA BaudUnlockInv ==
  ASSUME Inv, NEW t \in Tasks, BaudUnlock(t)
  PROVE  Inv'
BY UnlockInv DEF BaudUnlock, Exclusive

(* The steps of bsp_uart_set_baudrate that move its caller on. *)
LEMMA BaudStepInv ==
  ASSUME Inv, NEW t \in Tasks, NEW pc \in {"drain", "apply", "unlock"},
         BaudLock(t) \/ BaudDrained(t) \/ \E b \in Bauds : BaudApply(t, b),
         Goto(t, pc)
  PROVE  Inv'
<1> DEFINE c == [caller[t] EXCEPT !.pc = pc]
<1>1. /\ caller \in [Tasks -> Call] /\ caller' = [caller EXCEPT ![t] = c]
      /\ caller[t].pc \in {"idle", "drain", "apply"} /\ initialized
      /\ UNCHANGED <<initialized, dma_channel, tx_busy, ringVars, hwVars,
                     accepted>>
  BY DEF Inv, TypeOK, CallsWellFormed, BaudLock, BaudDrained, BaudApply, Goto
<1>2. c \in Call /\ c.pc = pc
  BY <1>1 DEF Call
<1>3. tx_exclusive' \in BOOLEAN /\ baud' \in Bauds
  BY DEF Inv, TypeOK, BaudLock, TxLock, BaudDrained, BaudApply
<1>4. /\ tx_exclusive' /\ tx_count = 0 /\ ~tx_busy
      /\ \A u \in Tasks \ {t} : ~Exclusive(u)
  BY DEF Inv, ExclusiveIsAlone, Exclusive, NoLostStart, BaudLock, TxLock,
         BaudDrained, BaudApply
<1> HIDE DEF c
<1>5. TypeOK'
  BY <1>1, <1>2, <1>3 DEF Inv, TypeOK, ringVars, hwVars
<1>6. CallsWellFormed'
  BY <1>1, <1>2 DEF Inv, CallsWellFormed, ringVars
<1>7. ExclusiveIsAlone'
  BY <1>1, <1>2, <1>4 DEF ExclusiveIsAlone, Exclusive, ringVars
<1>8. \A u \in Tasks : /\ Filling(u)' <=> Filling(u)
                       /\ Filling(u) => caller'[u] = caller[u]
  BY <1>1, <1>2 DEF Filling
<1>9. QED
  BY <1>1, <1>5, <1>6, <1>7, <1>8, BlockingPathInv DEF hwVars

(* bsp_uart_set_baudrate takes the transmitter. *)
LEMMA BaudLockInv ==
  ASSUME Inv, NEW t \in Tasks, BaudLock(t)
  PROVE  Inv'
BY BaudStepInv DEF BaudLock

(* Its wait for the last byte ends. *)
LEMMA BaudDrainedInv ==
  ASSUME Inv, NEW t \in Tasks, BaudDrained(t)
  PROVE  Inv'
BY BaudStepInv DEF BaudDrained

(* It reprograms the UART. *)
LEMMA BaudApplyInv ==
  ASSUME Inv, NEW t \in Tasks, NEW b \in Bauds, BaudApply(t, b)
  PROVE  Inv'
BY BaudStepInv DEF BaudApply

(* bsp_uart_init finds an untouched ring, since nothing is accepted before *)
(* it.                                                                     *)
LEMMA UartInitInv ==
  ASSUME Inv, NEW d \in BOOLEAN, UartInit(d)
  PROVE  Inv'
<1>1. EmptySlot \in Slot /\ 0 \in SlotIds
  BY UartTxAssumption DEF EmptySlot, Slot, Messages, Lengths, SlotIds
<1>2. tx_slots' \in [SlotIds -> Slot]
  BY <1>1 DEF UartInit
<1>3. SlotAt(0, 0) = 0 /\ Slots(0, 0) = {} /\ 0 \in 0 .. SlotCount
  BY <1>1, UartTxAssumption, SlotAtSmall DEF SlotIds, Slots
<1>4. TypeOK'
  BY <1>1, <1>2, <1>3 DEF Inv, UartInit, TypeOK
<1>5. ~tx_busy /\ ~dma.enabled /\ \A t \in Tasks : caller[t].pc = "idle"
  BY DEF Inv, UartInit, QuietUntilInit, NoLostStart, CallsWellFormed
<1>6. Window' = {} /\ RingConsistent'
  BY <1>3 DEF UartInit, Window, RingConsistent
<1>7. FillersOwnSlots' /\ ExclusiveIsAlone' /\ CallsWellFormed'
  BY <1>5 DEF UartInit, FillersOwnSlots, ExclusiveIsAlone, CallsWellFormed,
              Filling, Exclusive
<1>8. NoTornRead' /\ NoLostStart'
  BY <1>5 DEF UartInit, NoTornRead, NoLostStart
<1>9. UnfilledSlotsAreReady' /\ ReadySlotsHaveLength'
  BY <1>6, Zenon DEF UnfilledSlotsAreReady, ReadySlotsHaveLength
<1>10. QuietUntilInit'
  BY DEF UartInit, QuietUntilInit
<1>11. QED
  BY <1>4, <1>6, <1>7, <1>8, <1>9, <1>10 DEF Inv

(* The copy and the store of the length change the caller's slot, which is *)
(* neither ready nor anybody else's.                                       *)
LEMMA FillSlotInv ==
  ASSUME Inv, NEW t \in Tasks, NEW c \in Call, NEW s \in Slot,
         Filling(t), c.pc \in {"copy", "publish"},
         c.slot = caller[t].slot, c.length = caller[t].length,
         c.done \in 0 .. c.length,
         c.pc = "publish" => s.length = c.length,
         ~s.ready,
         caller' = [caller EXCEPT ![t] = c],
         tx_slots' = [tx_slots EXCEPT ![c.slot] = s],
         UNCHANGED <<initialized, dma_channel, tx_busy, tx_exclusive, tx_head,
                     tx_tail, tx_count, hwVars, baud, accepted>>
  PROVE  Inv'
<1>1. /\ tx_slots \in [SlotIds -> Slot] /\ caller \in [Tasks -> Call]
      /\ c.slot \in SlotIds
  BY DEF Inv, TypeOK, Call
<1>2. TypeOK'
  BY <1>1 DEF Inv, TypeOK, hwVars
<1>3. /\ \A i \in SlotIds : tx_slots'[i].ready <=> tx_slots[i].ready
      /\ \A i \in SlotIds \ {c.slot} : tx_slots'[i] = tx_slots[i]
      /\ tx_slots'[c.slot] = s /\ ~tx_slots[c.slot].ready
  BY <1>1 DEF Inv, FillersOwnSlots
<1>4. /\ caller'[t] = c
      /\ \A u \in Tasks \ {t} : caller'[u] = caller[u]
      /\ \A u \in Tasks : /\ Filling(u)' <=> Filling(u)
                          /\ Exclusive(u)' <=> Exclusive(u)
                          /\ caller'[u].slot = caller[u].slot
  BY <1>1 DEF Filling, Exclusive
<1>5. Window \subseteq SlotIds /\ Window' = Window
  BY WindowInSlots DEF Inv, Window
<1>6. \A u \in Tasks : caller[u].slot \in SlotIds
  BY <1>1 DEF Call
<1>7. FillersOwnSlots'
  BY <1>3, <1>4, <1>5, <1>6 DEF Inv, FillersOwnSlots
<1>8. UnfilledSlotsAreReady'
  BY <1>3, <1>4, <1>5 DEF Inv, UnfilledSlotsAreReady
<1>9. NoTornRead' /\ NoLostStart'
  <2>1. tx_head \in SlotIds
    BY DEF Inv, TypeOK
  <2>2. QED
    BY <1>3, <1>4, <2>1 DEF Inv, NoTornRead, NoLostStart, hwVars
<1>10. ExclusiveIsAlone'
  BY <1>4 DEF Inv, ExclusiveIsAlone
<1>11. CallsWellFormed'
  <2>1. ASSUME NEW u \in Tasks, u # t, caller[u].pc = "publish"
        PROVE  caller[u].slot # c.slot
    BY <2>1 DEF Inv, FillersOwnSlots, Filling
  <2>2. c.length \in Lengths /\ c.done <= c.length /\ initialized
    BY DEF Inv, CallsWellFormed, Filling, Lengths
  <2>3. QED
    BY <1>3, <1>4, <1>6, <2>1, <2>2 DEF Inv, CallsWellFormed
<1>12. ReadySlotsHaveLength'
  BY <1>3, <1>5 DEF Inv, ReadySlotsHaveLength
<1>13. RingConsistent' /\ QuietUntilInit'
  BY DEF Inv, RingConsistent, QuietUntilInit
<1>14. QED
  BY <1>2, <1>7, <1>8, <1>9, <1>10, <1>11, <1>12, <1>13 DEF Inv

(* One byte of the memcpy. *)
LEMMA CopyByteInv ==
  ASSUME Inv, NEW t \in Tasks, CopyByte(t)
  PROVE  Inv'
<1> DEFINE o == caller[t]
           c == [o EXCEPT !.done = o.done + 1]
           s == [tx_slots[o.slot] EXCEPT !.data[o.done + 1] = o.msg]
<1>1. o \in Call /\ o.done + 1 \in Lengths /\ o.done + 1 \in 0 .. o.length
  BY UartTxAssumption DEF Inv, TypeOK, CopyByte, Call, CallsWellFormed, Lengths
<1>2. /\ c \in Call /\ c.pc = "copy" /\ c.slot = o.slot
      /\ c.length = o.length /\ c.done = o.done + 1
  BY <1>1, CallDone DEF CopyByte, Call
<1>3. tx_slots[o.slot] \in Slot /\ o.msg \in Messages /\ Filling(t)
  BY <1>1 DEF Inv, TypeOK, Call, CopyByte, Filling
<1>4. s \in Slot /\ (s.ready <=> tx_slots[o.slot].ready)
  BY <1>1, <1>3, SlotData
<1>5. ~s.ready
  BY <1>3, <1>4 DEF Inv, FillersOwnSlots
<1>6. /\ caller' = [caller EXCEPT ![t] = c]
      /\ tx_slots' = [tx_slots EXCEPT ![c.slot] = s]
  BY <1>2 DEF Inv, TypeOK, CopyByte
<1> HIDE DEF c, s
<1>7. QED
  BY <1>1, <1>2, <1>3, <1>4, <1>5, <1>6, FillSlotInv DEF CopyByte

(* The store of the length. *)
LEMMA StoreLengthInv ==
  ASSUME Inv, NEW t \in Tasks, StoreLength(t)
  PROVE  Inv'
<1> DEFINE o == caller[t]
           c == [o EXCEPT !.pc = "publish"]
           s == [tx_slots[o.slot] EXCEPT !.length = o.length]
<1>1. o \in Call /\ o.done = o.length /\ o.length \in Lengths
  BY DEF Inv, TypeOK, StoreLength, CallsWellFormed
<1>2. /\ c \in Call /\ c.pc = "publish" /\ c.slot = o.slot
      /\ c.length = o.length /\ c.done \in 0 .. c.length
  BY <1>1 DEF Call, Lengths
<1>3. tx_slots[o.slot] \in Slot /\ Filling(t)
  BY <1>1 DEF Inv, TypeOK, Call, StoreLength, Filling
<1>4. s \in Slot /\ s.length = o.length /\ (s.ready <=> tx_slots[o.slot].ready)
  BY <1>1, <1>3, LengthsAreSizes DEF Slot
<1>5. ~s.ready
  BY <1>3, <1>4 DEF Inv, FillersOwnSlots
<1>6. /\ caller' = [caller EXCEPT ![t] = c]
      /\ tx_slots' = [tx_slots EXCEPT ![c.slot] = s]
  BY <1>2 DEF Inv, TypeOK, StoreLength, Goto
<1> HIDE DEF c, s
<1>7. QED
  BY <1>2, <1>3, <1>4, <1>5, <1>6, FillSlotInv DEF StoreLength

(* The reservation: the tail slot was free, so that no filler and no       *)
(* transfer has it.                                                        *)
LEMMA ReserveInv ==
  ASSUME Inv, NEW t \in Tasks, NEW n \in Lengths, Reserve(t, n)
  PROVE  Inv'
<1> DEFINE c == [pc |-> "copy", msg |-> accepted + 1, length |-> n,
                 slot |-> tx_tail, done |-> 0]
<1>1. /\ tx_head \in SlotIds /\ tx_count \in 0 .. SlotCount - 1
      /\ tx_tail = SlotAt(tx_head, tx_count)
      /\ tx_count + 1 \in 1 .. SlotCount
  BY UartTxAssumption DEF Inv, TypeOK, Reserve, MayReserve, RingConsistent
<1>2. /\ tx_tail \in SlotIds /\ tx_tail \notin Window
      /\ Window' = Window \cup {tx_tail}
      /\ NextSlot(tx_tail) = SlotAt(tx_head, tx_count + 1)
      /\ NextSlot(tx_tail) \in SlotIds
  BY <1>1, SlotsPush, NextSlotSmall DEF Window, Reserve
<1>3. /\ tx_slots' \in [SlotIds -> Slot]
      /\ \A i \in SlotIds : tx_slots'[i].length = tx_slots[i].length
      /\ \A i \in SlotIds \ {tx_tail} : tx_slots'[i] = tx_slots[i]
      /\ ~tx_slots'[tx_tail].ready
  BY <1>2 DEF Inv, TypeOK, Reserve, Claim, Slot
<1>4. accepted + 1 \in Messages
  BY UartTxAssumption DEF Inv, TypeOK, Reserve, Messages
<1>5. c \in Call
  BY <1>2, <1>4, LengthsAreSizes, UartTxAssumption DEF Call
<1>6. /\ c.pc = "copy" /\ c.slot = tx_tail /\ c.length = n
      /\ c.done = 0 /\ 0 <= n
  BY DEF Lengths
<1>7. /\ caller \in [Tasks -> Call] /\ caller' = [caller EXCEPT ![t] = c]
      /\ caller[t].pc = "idle"
  BY DEF Inv, TypeOK, Reserve
<1>8. TypeOK'
  BY <1>1, <1>2, <1>3, <1>4, <1>5, <1>7, UartTxAssumption
  DEF Inv, TypeOK, Reserve, hwVars
<1> HIDE DEF c
<1>9. /\ \A u \in Tasks \ {t} : caller'[u] = caller[u]
      /\ caller'[t] = c
      /\ \A u \in Tasks : caller[u].slot \in SlotIds
  BY <1>7 DEF Call
<1>10. Window \subseteq SlotIds
  BY WindowInSlots DEF Inv
<1>11. tx_head \in Window'
  BY <1>1, SlotsPop DEF Window, Reserve
<1>12. FillersOwnSlots' /\ UnfilledSlotsAreReady'
  BY <1>2, <1>3, <1>6, <1>7, <1>9, <1>10
  DEF Inv, FillersOwnSlots, UnfilledSlotsAreReady, Filling
<1>13. tx_busy => tx_head # tx_tail
  <2>1. SUFFICES ASSUME tx_busy PROVE tx_head \in Window
    BY <1>2
  <2>2. tx_count \in 1 .. SlotCount
    BY <1>1, <2>1, UartTxAssumption DEF Inv, NoLostStart
  <2>3. QED
    BY <1>1, <2>2, SlotsPop DEF Window
<1>14. NoTornRead'
  BY <1>1, <1>3, <1>6, <1>7, <1>9, <1>13
  DEF Inv, Reserve, NoTornRead, Filling, hwVars
<1>15. NoLostStart'
  <2>1. CASE tx_busy
    BY <1>1, <1>3, <1>13, <2>1 DEF Inv, Reserve, NoLostStart, hwVars
  <2>2. CASE ~tx_busy
    <3>1. ~tx_slots'[tx_head].ready
      <4>1. CASE tx_head = tx_tail
        BY <1>3, <4>1
      <4>2. CASE tx_head # tx_tail
        <5>1. tx_head \in Window
          BY <1>2, <1>11, <4>2
        <5>2. tx_count > 0
          BY <1>1, <5>1 DEF Window, Slots
        <5>3. QED
          BY <1>1, <1>3, <2>2, <4>2, <5>2 DEF Inv, NoLostStart
      <4>3. QED
        BY <4>1, <4>2
    <3>2. QED
      BY <2>2, <3>1 DEF Inv, Reserve, NoLostStart, hwVars
  <2>3. QED
    BY <2>1, <2>2
<1>16. ExclusiveIsAlone'
  BY <1>6, <1>7, <1>9
  DEF Inv, Reserve, MayReserve, ExclusiveIsAlone, Exclusive
<1>17. CallsWellFormed'
  BY <1>3, <1>6, <1>7, <1>9 DEF Inv, Reserve, CallsWellFormed
<1>18. ReadySlotsHaveLength'
  BY <1>2, <1>3, <1>10 DEF Inv, ReadySlotsHaveLength
<1>19. RingConsistent' /\ QuietUntilInit'
  BY <1>2 DEF Reserve, RingConsistent, QuietUntilInit
<1>20. QED
  BY <1>8, <1>12, <1>14, <1>15, <1>16, <1>17, <1>18, <1>19 DEF Inv

(* uart_try_start_dma, called with the channel as busy as it was (b) or    *)
(* just freed: a running transfer goes on, or the head slot starts exactly *)
(* when it is filled, and what starts is a whole message.                  *)
LEMMA StartInv ==
  ASSUME Inv, NEW b \in BOOLEAN,
         TryStartDma(b, tx_head', tx_count', tx_slots'),
         tx_head' \in SlotIds, tx_count' \in 0 .. SlotCount,
         tx_slots' \in [SlotIds -> Slot],
         b => /\ tx_busy /\ dma_done' = dma_done /\ tx_head' = tx_head
              /\ tx_count' > 0 /\ tx_slots'[tx_head] = tx_slots[tx_head],
         ~b => ~dma.enabled /\ ~dma_done',
         FillersOwnSlots', ReadySlotsHaveLength'
  PROVE  /\ dma' \in Transfer /\ tx_busy' \in BOOLEAN
         /\ NoTornRead' /\ NoLostStart'
<1> DEFINE d == [enabled |-> TRUE, src |-> tx_head', moved |-> 0,
                 size |-> tx_slots'[tx_head'].length]
<1>1. IF ~b /\ tx_count' > 0 /\ tx_slots'[tx_head'].ready
      THEN tx_busy' = TRUE /\ dma' = d
      ELSE tx_busy' = b /\ dma' = dma
  BY DEF TryStartDma
<1>2. tx_slots'[tx_head'].ready =>
        \A u \in Tasks : Filling(u)' => caller'[u].slot # tx_head'
  BY DEF FillersOwnSlots
<1>3. CASE b
  <2>1. tx_busy /\ tx_busy' /\ dma' = dma
    BY <1>1, <1>3
  <2>2. dma \in Transfer
    BY DEF Inv, TypeOK
  <2>3. QED
    BY <1>2, <1>3, <2>1, <2>2 DEF Inv, NoTornRead, NoLostStart
<1>4. CASE ~b /\ tx_count' > 0 /\ tx_slots'[tx_head'].ready
  <2>1. tx_busy' = TRUE /\ dma' = d
    BY <1>1, <1>4
  <2>2. tx_head' \in Window'
    <3>1. tx_count' \in 1 .. SlotCount
      BY <1>4, UartTxAssumption
    <3>2. QED
      BY <3>1, SlotsPop DEF Window
  <2>3. tx_slots'[tx_head'].length \in Lengths
    BY <1>4, <2>2 DEF ReadySlotsHaveLength
  <2>4. d \in Transfer
    <3>1. /\ tx_slots'[tx_head'].length \in 0 .. MaxLength
          /\ 0 \in 0 .. MaxLength
      BY <2>3, UartTxAssumption DEF Lengths
    <3>2. QED
      BY <3>1 DEF Transfer
  <2>5. /\ dma'.enabled /\ dma'.src = tx_head' /\ dma'.moved = 0
        /\ dma'.size = tx_slots'[tx_head'].length /\ 0 < dma'.size
    BY <2>1, <2>3 DEF Lengths
  <2>6. QED
    BY <1>2, <1>4, <2>1, <2>4, <2>5 DEF NoTornRead, NoLostStart
<1>5. CASE ~b /\ ~(tx_count' > 0 /\ tx_slots'[tx_head'].ready)
  <2>1. ~tx_busy' /\ tx_busy' \in BOOLEAN /\ dma' = dma /\ dma \in Transfer
    BY <1>1, <1>5 DEF Inv, TypeOK
  <2>2. QED
    BY <1>5, <2>1 DEF NoTornRead, NoLostStart
<1>6. QED
  BY <1>3, <1>4, <1>5

(* The publication: if the caller's slot is at the head and the channel is *)
(* free, it starts.                                                        *)
LEMMA PublishInv ==
  ASSUME Inv, NEW t \in Tasks, Publish(t)
  PROVE  Inv'
<1> DEFINE o == caller[t]
           s == [tx_slots[o.slot] EXCEPT !.ready = TRUE]
<1>1. /\ o \in Call /\ o.pc = "publish" /\ Filling(t) /\ o.slot \in SlotIds
      /\ tx_slots[o.slot] \in Slot /\ tx_slots[o.slot].length \in Lengths
      /\ initialized /\ tx_head \in SlotIds /\ tx_busy \in BOOLEAN
  BY DEF Inv, TypeOK, Publish, Call, Filling, CallsWellFormed
<1>2. /\ s \in Slot /\ s.ready /\ s.length = tx_slots[o.slot].length
  BY <1>1 DEF Slot
<1>3. /\ tx_slots' = [tx_slots EXCEPT ![o.slot] = s]
      /\ tx_slots \in [SlotIds -> Slot] /\ caller \in [Tasks -> Call]
      /\ caller' = [caller EXCEPT ![t] = Idle]
      /\ Idle \in Call /\ Idle.pc = "idle"
  BY UartTxAssumption
  DEF Inv, TypeOK, Publish, MarkReady, Idle, Call, Messages, SlotIds
<1>4. /\ UNCHANGED <<initialized, dma_channel, tx_exclusive, tx_head, tx_tail,
                     tx_count, dma_done, fifo, wire, baud, accepted>>
      /\ TryStartDma(tx_busy, tx_head, tx_count, tx_slots')
  BY DEF Publish
<1> HIDE DEF s
<1>5. /\ tx_slots' \in [SlotIds -> Slot]
      /\ tx_slots'[o.slot] = s
      /\ \A i \in SlotIds \ {o.slot} : tx_slots'[i] = tx_slots[i]
      /\ \A i \in SlotIds : tx_slots'[i].length = tx_slots[i].length
  BY <1>1, <1>2, <1>3
<1>6. /\ \A u \in Tasks \ {t} : caller'[u] = caller[u]
      /\ ~Filling(t)' /\ ~Exclusive(t)'
      /\ \A u \in Tasks : /\ Filling(u)' => Filling(u) /\ u # t
                          /\ Exclusive(u)' => Exclusive(u)
  BY <1>3 DEF Filling, Exclusive
<1>7. Window \subseteq SlotIds /\ Window' = Window
  BY <1>4, WindowInSlots DEF Inv, Window
<1>8. o.slot \in Window /\ ~tx_slots[o.slot].ready
  BY <1>1 DEF Inv, FillersOwnSlots
<1>9. \A u \in Tasks \ {t} : Filling(u) => /\ caller[u].slot # o.slot
                                           /\ caller[u].slot \in Window
  BY <1>1 DEF Inv, FillersOwnSlots
<1>10. FillersOwnSlots'
  BY <1>5, <1>6, <1>7, <1>9 DEF Inv, FillersOwnSlots
<1>11. UnfilledSlotsAreReady'
  BY <1>1, <1>2, <1>5, <1>6, <1>7, <1>8
  DEF Inv, UnfilledSlotsAreReady, Filling
<1>12. ReadySlotsHaveLength'
  BY <1>1, <1>2, <1>5, <1>7 DEF Inv, ReadySlotsHaveLength
<1>13. tx_count \in 0 .. SlotCount /\ tx_count > 0
  <2>1. tx_count \in 0 .. SlotCount /\ SlotCount \in Nat
    BY UartTxAssumption DEF Inv, TypeOK
  <2>2. QED
    BY <2>1, <1>8 DEF Window, Slots
<1>14. tx_busy => tx_slots'[tx_head] = tx_slots[tx_head]
  BY <1>1, <1>5, <1>8 DEF Inv, NoLostStart
<1>15. ~tx_busy => ~dma.enabled /\ ~dma_done
  BY DEF Inv, NoLostStart
<1>16. /\ dma' \in Transfer /\ tx_busy' \in BOOLEAN
       /\ NoTornRead' /\ NoLostStart'
  BY <1>1, <1>4, <1>5, <1>10, <1>12, <1>13, <1>14, <1>15, StartInv
<1>17. TypeOK'
  BY <1>3, <1>4, <1>5, <1>16 DEF Inv, TypeOK
<1>18. ExclusiveIsAlone'
  <2>1. ~tx_exclusive
    BY <1>13 DEF Inv, ExclusiveIsAlone
  <2>2. QED
    BY <1>4, <1>6, <2>1 DEF Inv, ExclusiveIsAlone
<1>19. CallsWellFormed'
  BY <1>3, <1>4, <1>5 DEF Inv, TypeOK, Call, CallsWellFormed
<1>20. RingConsistent' /\ QuietUntilInit'
  BY <1>4 DEF Inv, RingConsistent, QuietUntilInit
<1>21. QED
  BY <1>10, <1>11, <1>12, <1>16, <1>17, <1>18, <1>19, <1>20 DEF Inv

(* A whole bsp_uart_send_async in an interrupt handler. *)
LEMMA IsrSendAsyncInv ==
  ASSUME Inv, NEW n \in Lengths, IsrSendAsync(n)
  PROVE  Inv'
<1> DEFINE s == [length |-> n, ready |-> TRUE,
                 data |-> [k \in Lengths |->
                             IF k <= n THEN accepted + 1
                             ELSE tx_slots[tx_tail].data[k]]]
<1>1. /\ tx_head \in SlotIds /\ tx_count \in 0 .. SlotCount - 1
      /\ tx_tail = SlotAt(tx_head, tx_count)
      /\ tx_count + 1 \in 0 .. SlotCount /\ tx_count + 1 > 0
      /\ tx_busy \in BOOLEAN /\ initialized /\ ~tx_exclusive
  BY UartTxAssumption
  DEF Inv, TypeOK, IsrSendAsync, MayReserve, RingConsistent
<1>2. /\ tx_tail \in SlotIds /\ tx_tail \notin Window
      /\ Window' = Window \cup {tx_tail}
      /\ NextSlot(tx_tail) = SlotAt(tx_head, tx_count + 1)
      /\ NextSlot(tx_tail) \in SlotIds
  BY <1>1, SlotsPush, NextSlotSmall DEF Window, IsrSendAsync
<1>3. accepted + 1 \in Messages
  BY UartTxAssumption DEF Inv, TypeOK, IsrSendAsync, Messages
<1>4. s \in Slot
  <2>1. tx_slots[tx_tail].data \in [Lengths -> Messages]
    BY <1>2 DEF Inv, TypeOK, Slot
  <2>2. s.data \in [Lengths -> Messages]
    BY <1>3, <2>1
  <2>3. QED
    BY <2>2, LengthsAreSizes DEF Slot
<1>5. /\ tx_slots' = [tx_slots EXCEPT ![tx_tail] = s]
      /\ tx_slots \in [SlotIds -> Slot]
      /\ tx_tail' = NextSlot(tx_tail) /\ tx_count' = tx_count + 1
      /\ accepted' = accepted + 1
      /\ TryStartDma(tx_busy, tx_head, tx_count + 1, tx_slots')
      /\ UNCHANGED <<initialized, dma_channel, tx_exclusive, tx_head, caller,
                     dma_done, fifo, wire, baud>>
  BY DEF Inv, TypeOK, IsrSendAsync
<1>6. s.ready /\ s.length = n
  OBVIOUS
<1> HIDE DEF s
<1>7. /\ tx_slots' \in [SlotIds -> Slot]
      /\ tx_slots'[tx_tail] = s
      /\ \A i \in SlotIds \ {tx_tail} : tx_slots'[i] = tx_slots[i]
  BY <1>2, <1>4, <1>5
<1>8. Window \subseteq SlotIds
  BY WindowInSlots DEF Inv
<1>9. \A u \in Tasks : /\ Filling(u)' <=> Filling(u)
                       /\ Exclusive(u)' <=> Exclusive(u)
  BY <1>5 DEF Filling, Exclusive
<1>10. FillersOwnSlots'
  BY <1>2, <1>5, <1>7, <1>8, <1>9 DEF Inv, FillersOwnSlots
<1>11. UnfilledSlotsAreReady' /\ ReadySlotsHaveLength'
  BY <1>2, <1>5, <1>6, <1>7, <1>8, <1>9
  DEF Inv, UnfilledSlotsAreReady, ReadySlotsHaveLength
<1>12. tx_busy => tx_slots'[tx_head] = tx_slots[tx_head]
  <2>1. SUFFICES ASSUME tx_busy PROVE tx_head \in Window
    BY <1>1, <1>2, <1>7
  <2>2. tx_count \in 1 .. SlotCount
    BY <1>1, <2>1, UartTxAssumption DEF Inv, NoLostStart
  <2>3. QED
    BY <1>1, <2>2, SlotsPop DEF Window
<1>13. ~tx_busy => ~dma.enabled /\ ~dma_done
  BY DEF Inv, NoLostStart
<1>14. /\ dma' \in Transfer /\ tx_busy' \in BOOLEAN
       /\ NoTornRead' /\ NoLostStart'
  BY <1>1, <1>5, <1>7, <1>10, <1>11, <1>12, <1>13, StartInv
<1>15. TypeOK'
  BY <1>1, <1>2, <1>3, <1>5, <1>7, <1>14 DEF Inv, TypeOK
<1>16. ExclusiveIsAlone'
  BY <1>1, <1>5, <1>9 DEF Inv, ExclusiveIsAlone
<1>17. CallsWellFormed'
  <2>1. ASSUME NEW u \in Tasks, caller[u].pc = "publish"
        PROVE  caller[u].slot \in SlotIds \ {tx_tail}
    BY <1>2, <1>8, <2>1 DEF Inv, FillersOwnSlots, Filling
  <2>2. QED
    BY <1>5, <1>7, <2>1 DEF Inv, CallsWellFormed
<1>18. RingConsistent' /\ QuietUntilInit'
  BY <1>1, <1>2, <1>5 DEF RingConsistent, QuietUntilInit
<1>19. QED
  BY <1>10, <1>11, <1>14, <1>15, <1>16, <1>17, <1>18 DEF Inv

(* A completion: the head slot leaves the ring and the next one starts if  *)
(* it is filled.                                                           *)
LEMMA TxCompleteInv ==
  ASSUME Inv, TxComplete
  PROVE  Inv'
<1>1. /\ tx_head \in SlotIds /\ tx_count \in 1 .. SlotCount
      /\ tx_slots[tx_head].ready /\ tx_busy /\ ~dma.enabled
      /\ tx_tail = SlotAt(tx_head, tx_count)
      /\ tx_count - 1 \in 0 .. SlotCount
  BY UartTxAssumption
  DEF Inv, TypeOK, TxComplete, NoLostStart, NoTornRead, RingConsistent
<1>2. /\ UNCHANGED <<initialized, dma_channel, tx_exclusive, tx_tail, tx_slots,
                     caller, fifo, wire, baud, accepted>>
      /\ tx_head' = NextSlot(tx_head) /\ tx_count' = tx_count - 1
      /\ dma_done' = FALSE
      /\ TryStartDma(FALSE, tx_head', tx_count', tx_slots')
  <2>1. /\ dma_done' = FALSE
        /\ tx_head' = NextSlot(tx_head) /\ tx_count' = tx_count - 1
        /\ TryStartDma(FALSE, tx_head', tx_count', tx_slots)
        /\ UNCHANGED <<initialized, dma_channel, tx_exclusive, tx_tail,
                       tx_slots, caller, fifo, wire, baud, accepted>>
    <3>1. tx_count # 0
      BY <1>1
    <3>2. QED
      BY <3>1, Zenon DEF TxComplete
  <2>2. QED
    BY <2>1 DEF TryStartDma
<1>3. /\ tx_head' \in SlotIds
      /\ Window' = Window \ {tx_head}
      /\ SlotAt(tx_head', tx_count') = tx_tail
  BY <1>1, <1>2, SlotsPop DEF Window
<1>4. \A u \in Tasks : /\ Filling(u)' <=> Filling(u)
                       /\ Exclusive(u)' <=> Exclusive(u)
  BY <1>2 DEF Filling, Exclusive
<1>5. FillersOwnSlots'
  BY <1>1, <1>2, <1>3, <1>4 DEF Inv, FillersOwnSlots
<1>6. UnfilledSlotsAreReady' /\ ReadySlotsHaveLength'
  BY <1>2, <1>3, <1>4 DEF Inv, UnfilledSlotsAreReady, ReadySlotsHaveLength
<1>7. tx_slots' \in [SlotIds -> Slot]
  BY <1>2 DEF Inv, TypeOK
<1>8. /\ dma' \in Transfer /\ tx_busy' \in BOOLEAN
      /\ NoTornRead' /\ NoLostStart'
  BY <1>1, <1>2, <1>3, <1>5, <1>6, <1>7, StartInv
<1>9. TypeOK'
  BY <1>1, <1>2, <1>3, <1>7, <1>8 DEF Inv, TypeOK
<1>10. ExclusiveIsAlone'
  <2>1. ~tx_exclusive
    BY <1>1 DEF Inv, ExclusiveIsAlone
  <2>2. QED
    BY <1>2, <1>4, <2>1 DEF Inv, ExclusiveIsAlone
<1>11. CallsWellFormed'
  BY <1>2 DEF Inv, CallsWellFormed
<1>12. RingConsistent' /\ QuietUntilInit'
  BY <1>1, <1>2, <1>3 DEF Inv, RingConsistent, QuietUntilInit, TxComplete
<1>13. QED
  BY <1>5, <1>6, <1>8, <1>9, <1>10, <1>11, <1>12 DEF Inv

(* A stuttering step. *)
LEMMA StutterInv ==
  ASSUME Inv, UNCHANGED vars
  PROVE  Inv'
<1>1. UNCHANGED <<initialized, tx_busy, ringVars, dma, dma_done>>
  BY DEF vars, hwVars
<1>2. TypeOK' /\ CallsWellFormed' /\ ExclusiveIsAlone'
  BY DEF Inv, TypeOK, CallsWellFormed, ExclusiveIsAlone, Exclusive, vars,
         ringVars, hwVars
<1>3. \A u \in Tasks : /\ Filling(u)' <=> Filling(u)
                       /\ Filling(u) => caller'[u] = caller[u]
  BY DEF Filling, vars
<1>4. QED
  BY <1>1, <1>2, <1>3, BlockingPathInv

(* The inductive step: one lemma for each action. *)
LEMMA NextInv ==
  ASSUME Inv, [Next]_vars
  PROVE  Inv'
<1>1. CASE \E d \in BOOLEAN : UartInit(d)
  BY <1>1, UartInitInv
<1>2. ASSUME NEW t \in Tasks, TaskStep(t)
      PROVE  Inv'
  <2>1. CASE \E n \in Lengths : Reserve(t, n)
    BY <2>1, ReserveInv
  <2>2. CASE \E n \in Lengths : SendLock(t, n)
    BY <2>2, SendLockInv
  <2>3. CASE BaudLock(t)
    BY <2>3, BaudLockInv
  <2>4. CASE Continue(t)
    BY <2>4, CopyByteInv, StoreLengthInv, PublishInv, SendByteInv,
       SendUnlockInv, BaudDrainedInv, BaudApplyInv, BaudUnlockInv
    DEF Continue
  <2>5. QED
    BY <1>2, <2>1, <2>2, <2>3, <2>4 DEF TaskStep
<1>3. CASE \E n \in Lengths : IsrSendAsync(n)
  BY <1>3, IsrSendAsyncInv
<1>4. CASE TxComplete
  BY <1>4, TxCompleteInv
<1>5. CASE DmaMove
  BY <1>5, DmaMoveInv
<1>6. CASE ShiftOut
  BY <1>6, ShiftOutInv
<1>7. CASE UNCHANGED vars
  BY <1>7, StutterInv
<1>8. QED
  BY <1>1, <1>2, <1>3, <1>4, <1>5, <1>6, <1>7 DEF Next

-----------------------------------------------------------------------------
(* The theorems. *)

(* The inductive invariant holds in every reachable state, whatever the    *)
(* interleaving of tasks, interrupt handlers and DMA of uart.c.            *)
THEOREM Invariance == Spec => []Inv
<1>1. Init => Inv
  BY InitInv
<1>2. Inv /\ [Next]_vars => Inv'
  BY NextInv
<1>3. QED
  BY <1>1, <1>2, PTL DEF Spec

(* Type correctness: uart.c never indexes outside its ring of slots, and   *)
(* no slot, transfer or call holds a length beyond the buffer.             *)
THEOREM TypeCorrect == Spec => []TypeOK
<1>1. Inv => TypeOK
  BY DEF Inv
<1>2. QED
  BY <1>1, Invariance, PTL

(* The indices that bsp_uart_send_async and uart_tx_complete update agree. *)
THEOREM RingIsConsistent == Spec => []RingConsistent
<1>1. Inv => RingConsistent
  BY DEF Inv
<1>2. QED
  BY <1>1, Invariance, PTL

(* The memcpy of bsp_uart_send_async, outside the critical sections, never *)
(* writes a slot that another task fills or that the DMA may read.         *)
THEOREM NoConcurrentFill ==
  Spec => [](FillersOwnSlots /\ UnfilledSlotsAreReady)
<1>1. Inv => FillersOwnSlots /\ UnfilledSlotsAreReady
  BY DEF Inv
<1>2. QED
  BY <1>1, Invariance, PTL

(* The DMA only ever reads the head slot, and only when it holds one whole *)
(* message.                                                                *)
THEOREM DmaReadsWholeMessages == Spec => []NoTornRead
<1>1. Inv => NoTornRead
  BY DEF Inv
<1>2. QED
  BY <1>1, Invariance, PTL

(* A filled head slot is never left behind: uart_try_start_dma is called   *)
(* at every moment at which one may appear.                                *)
THEOREM NoStartIsLost == Spec => []NoLostStart
<1>1. Inv => NoLostStart
  BY DEF Inv
<1>2. QED
  BY <1>1, Invariance, PTL

(* bsp_uart_send and bsp_uart_set_baudrate exclude each other and every    *)
(* queued transmission.                                                    *)
THEOREM BlockingPathIsExclusive == Spec => []ExclusiveIsAlone
<1>1. Inv => ExclusiveIsAlone
  BY DEF Inv
<1>2. QED
  BY <1>1, Invariance, PTL

(* The FIFO stays empty between the wait of bsp_uart_set_baudrate and its  *)
(* critical section: only the DMA and another blocking send could refill   *)
(* it.                                                                     *)
LEMMA DrainedNext ==
  ASSUME Inv, DrainedBeforeApply, [Next]_vars
  PROVE  DrainedBeforeApply'
<1> SUFFICES ASSUME NEW t \in Tasks, caller'[t].pc = "apply"
             PROVE  fifo' = <<>>
  BY DEF DrainedBeforeApply
<1>1. caller \in [Tasks -> Call]
  BY DEF Inv, TypeOK
<1>2. CASE BaudDrained(t)
  BY <1>2 DEF BaudDrained, hwVars
<1>3. CASE caller[t].pc = "apply" /\ fifo' = fifo
  BY <1>3 DEF DrainedBeforeApply
<1>4. CASE caller[t].pc = "apply" /\ fifo' # fifo
  <2>1. fifo = <<>> /\ tx_exclusive /\ ~dma.enabled
    BY <1>4 DEF Inv, DrainedBeforeApply, ExclusiveIsAlone, Exclusive,
                NoLostStart
  <2>2. \A u \in Tasks : caller[u].pc # "send"
    BY <1>4 DEF Inv, ExclusiveIsAlone, Exclusive
  <2>3. \/ DmaMove \/ ShiftOut \/ \E u \in Tasks : SendByte(u)
    BY <1>4
    DEF Next, TaskStep, Continue, UartInit, Reserve, SendLock, BaudLock,
        CopyByte, StoreLength, Publish, SendUnlock, BaudDrained, BaudApply,
        BaudUnlock, IsrSendAsync, TxComplete, vars, hwVars
  <2>4. QED
    BY <2>1, <2>2, <2>3 DEF DmaMove, ShiftOut, SendByte
<1>5. CASE caller[t].pc # "apply" /\ ~BaudDrained(t)
  <2>1. Idle.pc = "idle"
    BY DEF Idle
  <2>2. caller'[t].pc # "apply"
    <3>1. CASE \E u \in Tasks : TaskStep(u)
      <4>1. PICK u \in Tasks : TaskStep(u)
        BY <3>1
      <4>2. CASE u # t
        BY <1>1, <1>5, <4>1, <4>2
        DEF TaskStep, Continue, Reserve, SendLock, BaudLock, CopyByte,
            StoreLength, Publish, SendByte, SendUnlock, BaudDrained,
            BaudApply, BaudUnlock, Goto
      <4>3. CASE u = t
        BY <1>1, <1>5, <2>1, <4>1, <4>3
        DEF TaskStep, Continue, Reserve, SendLock, BaudLock, CopyByte,
            StoreLength, Publish, SendByte, SendUnlock, BaudDrained,
            BaudApply, BaudUnlock, Goto, Call
      <4>4. QED
        BY <4>2, <4>3
    <3>2. CASE UNCHANGED caller
      BY <1>5, <3>2
    <3>3. QED
      BY <3>1, <3>2
      DEF Next, UartInit, IsrSendAsync, TxComplete, DmaMove, ShiftOut, vars
  <2>3. QED
    BY <2>2
<1>6. QED
  BY <1>2, <1>3, <1>4, <1>5

(* bsp_uart_set_baudrate reprograms the UART only when every byte accepted *)
(* before has left it at the old rate.                                     *)
THEOREM BaudChangeIsQuiet == Spec => BaudChangesWhenQuiet
<1>1. Init => DrainedBeforeApply
  BY DEF Init, Idle, DrainedBeforeApply
<1>2. Inv /\ DrainedBeforeApply /\ [Next]_vars => DrainedBeforeApply'
  BY DrainedNext
<1>3. Inv /\ DrainedBeforeApply /\ [Next]_vars
        => [baud' # baud => fifo = <<>> /\ tx_count = 0 /\ ~dma.enabled]_vars
  <2> SUFFICES ASSUME Inv, DrainedBeforeApply, Next, baud' # baud
               PROVE  fifo = <<>> /\ tx_count = 0 /\ ~dma.enabled
    OBVIOUS
  <2>1. PICK t \in Tasks : caller[t].pc = "apply"
    BY DEF Next, TaskStep, Continue, UartInit, Reserve, SendLock, BaudLock,
           CopyByte, StoreLength, Publish, SendByte, SendUnlock, BaudDrained,
           BaudApply, BaudUnlock, IsrSendAsync, TxComplete, DmaMove, ShiftOut
  <2>2. QED
    BY <2>1 DEF Inv, DrainedBeforeApply, ExclusiveIsAlone, Exclusive,
                NoLostStart
<1>4. QED
  BY <1>1, <1>2, <1>3, Invariance, PTL DEF Spec, BaudChangesWhenQuiet

-----------------------------------------------------------------------------
(* The refinement of TxLink. *)

(* The message that the slot at place j of the ring is for: the ring has   *)
(* the messages accepted last.                                             *)
MessageAt(j) == (accepted - tx_count) + (j + 1)

(* Slot i is for message m: it holds it, or it is being copied there.      *)
IsFor(i, m) ==
  /\ tx_slots[i].ready =>
       \A k \in 1 .. tx_slots[i].length : tx_slots[i].data[k] = m
  /\ \A t \in Tasks : Filling(t) /\ caller[t].slot = i =>
       /\ caller[t].msg = m
       /\ \A k \in 1 .. caller[t].done : tx_slots[i].data[k] = m
       /\ caller[t].pc = "publish" => caller[t].done = caller[t].length

SlotsHoldMessages ==
  /\ tx_count <= accepted
  /\ \A j \in 0 .. tx_count - 1 : IsFor(SlotAt(tx_head, j), MessageAt(j))
  /\ \A t \in Tasks : caller[t].pc = "send" => caller[t].msg = accepted

(* The FIFO is in order, and before all that waits for it. *)
FifoGoesFirst ==
  /\ \A i, j \in 1 .. Len(fifo) : i < j => Precedes(fifo[i], fifo[j])
  /\ \A i \in 1 .. Len(fifo) : fifo[i][1] <= accepted
  /\ \A i \in 1 .. Len(fifo) : \A b \in Waiting : Precedes(fifo[i], b)

(* The sequence s has the members of S, in order. *)
Lists(s, S) ==
  /\ s \in Seq(Byte)
  /\ \A i, j \in 1 .. Len(s) : i < j => Precedes(s[i], s[j])
  /\ {s[i] : i \in 1 .. Len(s)} = S

(* The inductive invariant of the refinement. *)
LinkInv == Inv /\ SlotsHoldMessages /\ FifoGoesFirst /\ \E s : Lists(s, Unsent)

-----------------------------------------------------------------------------
(* Bytes in the order of acceptance, and the list of a set of them. *)

(* Bytes are accepted one after the other. *)
LEMMA PrecedesOrders ==
  ASSUME NEW a \in Byte, NEW b \in Byte
  PROVE  /\ ~ Precedes(a, a)
         /\ ~ (Precedes(a, b) /\ Precedes(b, a))
<1>1. a[1] \in Nat /\ a[2] \in Nat /\ b[1] \in Nat /\ b[2] \in Nat
  BY UartTxAssumption DEF Byte, Messages, Lengths
<1>2. QED
  BY <1>1 DEF Precedes

(* In a list every byte occurs once, so that its beginning of length k has *)
(* k bytes.                                                                *)
LEMMA ListedOnce ==
  ASSUME NEW S, NEW s, Lists(s, S), NEW k \in 0 .. Len(s)
  PROVE  Cardinality({s[i] : i \in 1 .. k}) = k
<1> DEFINE T == {s[i] : i \in 1 .. k}
           f == [i \in 1 .. k |-> s[i]]
<1>1. s \in Seq(Byte) /\ Len(s) \in Nat /\ k \in Nat
  BY DEF Lists
<1>2. \A i \in 1 .. Len(s) : s[i] \in Byte
  BY <1>1, ElementOfSeq
<1>3. ASSUME NEW i \in 1 .. k, NEW j \in 1 .. k, s[i] = s[j] PROVE i = j
  <2>1. i \in 1 .. Len(s) /\ j \in 1 .. Len(s)
    BY <1>1
  <2>2. ~ Precedes(s[i], s[j]) /\ ~ Precedes(s[j], s[i])
    BY <1>2, <1>3, <2>1, PrecedesOrders
  <2>3. ~ (i < j) /\ ~ (j < i)
    BY <2>1, <2>2 DEF Lists
  <2>4. QED
    BY <2>3
<1>4. f \in [1 .. k -> T] /\ \A i \in 1 .. k : f[i] = s[i]
  OBVIOUS
<1>5. \A t \in T : \E i \in 1 .. k : f[i] = t
  BY <1>4
<1> HIDE DEF f, T
<1>6. f \in Bijection(1 .. k, T)
  <2>1. \A i, j \in 1 .. k : f[i] = f[j] => i = j
    BY <1>3, <1>4
  <2>2. QED
    BY <1>4, <1>5, <2>1
       DEF Bijection, Injection, Surjection, IsInjective
<1>7. ExistsBijection(1 .. k, T)
  BY <1>6 DEF ExistsBijection
<1>8. Cardinality(T) = k
  BY <1>1, <1>7, FS_CountingElements
<1>9. QED
  BY <1>8 DEF T

(* Whatever lists a set is what Listed makes of it. *)
LEMMA ListedIs ==
  ASSUME NEW S, NEW s, Lists(s, S)
  PROVE  Listed(S) = s
<1>1. s \in Seq(Byte) /\ Len(s) \in Nat /\ s \in [1 .. Len(s) -> Byte]
  BY LenProperties DEF Lists
<1>2. \A i \in 1 .. Len(s) : s[i] \in Byte /\ s[i] \in S
  BY <1>1, ElementOfSeq DEF Lists
<1>3. Cardinality(S) = Len(s)
  <2>1. Len(s) \in 0 .. Len(s)
    BY <1>1
  <2>2. {s[i] : i \in 1 .. Len(s)} = S
    BY DEF Lists
  <2>3. QED
    BY <2>1, <2>2, ListedOnce
<1>4. ASSUME NEW i \in 1 .. Len(s)
      PROVE  Cardinality(Before(S, s[i])) = i - 1
  <2> DEFINE k == i - 1
  <2>1. k \in 0 .. Len(s)
    BY <1>1
  <2>2. Before(S, s[i]) \subseteq {s[j] : j \in 1 .. k}
    <3>1. ASSUME NEW a \in S, Precedes(a, s[i])
          PROVE  a \in {s[j] : j \in 1 .. k}
      <4>1. PICK j \in 1 .. Len(s) : a = s[j]
        BY DEF Lists
      <4>2. s[j] \in Byte /\ s[i] \in Byte
        BY <1>2
      <4>3. j # i /\ ~ (i < j)
        BY <3>1, <4>1, <4>2, PrecedesOrders DEF Lists
      <4>4. j \in 1 .. k
        BY <1>1, <4>3
      <4>5. QED
        BY <4>1, <4>4
    <3>2. QED
      BY <3>1 DEF Before
  <2>3. ASSUME NEW j \in 1 .. k PROVE s[j] \in Before(S, s[i])
    <3>1. j \in 1 .. Len(s) /\ j < i
      BY <1>1
    <3>2. QED
      BY <1>2, <3>1 DEF Before, Lists
  <2>4. Before(S, s[i]) = {s[j] : j \in 1 .. k}
    BY <2>2, <2>3
  <2> HIDE DEF k
  <2>5. Cardinality(Before(S, s[i])) = k
    BY <2>1, <2>4, ListedOnce
  <2>6. QED
    BY <2>5 DEF k
<1>5. ASSUME NEW i \in 1 .. Len(s)
      PROVE  (CHOOSE b \in S : Cardinality(Before(S, b)) = i - 1) = s[i]
  <2> DEFINE c == CHOOSE b \in S : Cardinality(Before(S, b)) = i - 1
  <2>1. c \in S /\ Cardinality(Before(S, c)) = i - 1
    BY <1>2, <1>4
  <2> HIDE DEF c
  <2>2. PICK j \in 1 .. Len(s) : c = s[j]
    BY <2>1 DEF Lists
  <2>3. j - 1 = i - 1
    BY <1>4, <2>1, <2>2
  <2>4. c = s[i]
    BY <1>1, <2>2, <2>3
  <2>5. QED
    BY <2>4 DEF c
<1>6. Listed(S) = [i \in 1 .. Len(s) |-> s[i]]
  BY <1>3, <1>5 DEF Listed
<1>7. QED
  BY <1>1, <1>6

(* A message behind all that is listed goes to the list's end. *)
LEMMA ListedAccept ==
  ASSUME NEW S, NEW s, Lists(s, S), NEW m \in Messages, NEW n \in Lengths,
         \A b \in S : b[1] < m,
         NEW T, T = {<<m, k>> : k \in 1 .. n}
  PROVE  Lists(s \o Link!Bytes(m, n), S \cup T)
<1> DEFINE e == Link!Bytes(m, n)
           z == s \o e
<1>1. /\ s \in Seq(Byte) /\ Len(s) \in Nat /\ n \in Nat
      /\ {s[i] : i \in 1 .. Len(s)} = S
  BY UartTxAssumption DEF Lists, Lengths
<1>2. e \in [1 .. n -> Byte] /\ \A k \in 1 .. n : e[k] = <<m, k>>
  BY UartTxAssumption DEF Link!Bytes, Byte, Lengths
<1> HIDE DEF e
<1>3. e \in Seq(Byte) /\ Len(e) = n
  BY <1>1, <1>2
<1>4. /\ z \in Seq(Byte) /\ Len(z) = Len(s) + n
      /\ \A i \in 1 .. Len(s) + n :
           z[i] = IF i <= Len(s) THEN s[i] ELSE e[i - Len(s)]
  BY <1>1, <1>3, ConcatProperties
<1> HIDE DEF z
<1>5. \A i \in 1 .. Len(s) : z[i] = s[i]
  BY <1>1, <1>4
<1>6. ASSUME NEW i \in 1 .. Len(z), ~ (i <= Len(s))
      PROVE  i - Len(s) \in 1 .. n /\ z[i] = <<m, i - Len(s)>>
  <2>1. i - Len(s) \in 1 .. n
    BY <1>1, <1>4, <1>6
  <2>2. QED
    BY <1>2, <1>4, <1>6, <2>1
<1>7. ASSUME NEW i \in 1 .. Len(z), NEW j \in 1 .. Len(z), i < j
      PROVE  Precedes(z[i], z[j])
  <2>1. CASE j <= Len(s)
    <3>1. i \in 1 .. Len(s) /\ j \in 1 .. Len(s)
      BY <1>1, <1>7, <2>1
    <3>2. QED
      BY <1>5, <1>7, <3>1 DEF Lists
  <2>2. CASE ~ (j <= Len(s)) /\ i <= Len(s)
    <3>1. z[j][1] = m
      BY <1>6, <2>2
    <3>2. i \in 1 .. Len(s)
      BY <1>1, <2>2
    <3>3. z[i] \in S
      BY <1>1, <1>5, <3>2
    <3>4. QED
      BY <3>1, <3>3 DEF Precedes
  <2>3. CASE ~ (j <= Len(s)) /\ ~ (i <= Len(s))
    <3>1. z[i] = <<m, i - Len(s)>> /\ z[j] = <<m, j - Len(s)>>
      BY <1>6, <2>3
    <3>2. i - Len(s) < j - Len(s)
      BY <1>1, <1>7
    <3>3. QED
      BY <3>1, <3>2 DEF Precedes
  <2>4. QED
    BY <2>1, <2>2, <2>3
<1>8. {z[i] : i \in 1 .. Len(z)} = S \cup T
  <2>1. ASSUME NEW i \in 1 .. Len(z) PROVE z[i] \in S \cup T
    <3>1. CASE i <= Len(s)
      <4>1. i \in 1 .. Len(s)
        BY <1>1, <3>1
      <4>2. QED
        BY <1>1, <1>5, <4>1
    <3>2. CASE ~ (i <= Len(s))
      BY <1>6, <3>2
    <3>3. QED
      BY <3>1, <3>2
  <2>2. ASSUME NEW b \in S PROVE b \in {z[i] : i \in 1 .. Len(z)}
    <3>1. PICK i \in 1 .. Len(s) : b = s[i]
      BY <1>1
    <3>2. i \in 1 .. Len(z) /\ z[i] = b
      BY <1>1, <1>4, <1>5, <3>1
    <3>3. QED
      BY <3>2
  <2>3. ASSUME NEW k \in 1 .. n PROVE <<m, k>> \in {z[i] : i \in 1 .. Len(z)}
    <3> DEFINE i == Len(s) + k
    <3>1. i \in 1 .. Len(z) /\ ~ (i <= Len(s)) /\ i - Len(s) = k
      BY <1>1, <1>4
    <3> HIDE DEF i
    <3>2. z[i] = <<m, k>>
      BY <1>6, <3>1
    <3>3. QED
      BY <3>1, <3>2
  <2>4. QED
    BY <2>1, <2>2, <2>3
<1>9. Lists(z, S \cup T)
  BY <1>4, <1>7, <1>8 DEF Lists
<1>10. QED
  BY <1>9 DEF z, e

(* Without its first byte, the rest of a list is listed. *)
LEMMA ListedShift ==
  ASSUME NEW S, NEW s, Lists(s, S), NEW a \in S,
         \A b \in S \ {a} : Precedes(a, b)
  PROVE  /\ s # <<>> /\ Head(s) = a
         /\ Lists(Tail(s), S \ {a})
<1>1. /\ s \in Seq(Byte) /\ Len(s) \in Nat
      /\ {s[i] : i \in 1 .. Len(s)} = S
  BY DEF Lists
<1>2. PICK j \in 1 .. Len(s) : a = s[j]
  BY <1>1
<1>3. \A i \in 1 .. Len(s) : s[i] \in Byte /\ s[i] \in S
  BY <1>1, ElementOfSeq
<1>4. Len(s) > 0 /\ 1 \in 1 .. Len(s)
  BY <1>1, <1>2
<1>5. s[1] = a
  <2>1. SUFFICES ASSUME s[1] # a PROVE FALSE
    OBVIOUS
  <2>2. Precedes(a, s[1])
    BY <1>3, <1>4, <2>1
  <2>3. j # 1
    BY <1>2, <2>1
  <2>4. 1 < j
    BY <1>1, <2>3
  <2>5. Precedes(s[1], a)
    BY <1>2, <1>4, <2>4 DEF Lists
  <2>6. QED
    BY <1>2, <1>3, <1>4, <2>2, <2>5, PrecedesOrders
<1>6. s # <<>> /\ Head(s) = a
  BY <1>1, <1>4, <1>5
<1> DEFINE z == Tail(s)
<1>7. /\ z \in Seq(Byte) /\ Len(z) = Len(s) - 1
      /\ \A i \in 1 .. Len(z) : z[i] = s[i + 1]
  BY <1>1, <1>6, HeadTailProperties
<1> HIDE DEF z
<1>8. ASSUME NEW i \in 1 .. Len(z)
      PROVE  i + 1 \in 1 .. Len(s) /\ 1 < i + 1 /\ z[i] = s[i + 1]
  BY <1>1, <1>7
<1>9. ASSUME NEW i \in 1 .. Len(z), NEW k \in 1 .. Len(z), i < k
      PROVE  Precedes(z[i], z[k])
  <2>1. i + 1 < k + 1
    BY <1>9
  <2>2. QED
    BY <1>8, <2>1 DEF Lists
<1>10. {z[i] : i \in 1 .. Len(z)} = S \ {a}
  <2>1. ASSUME NEW i \in 1 .. Len(z) PROVE z[i] \in S \ {a}
    <3>1. z[i] \in S
      BY <1>3, <1>8
    <3>2. Precedes(a, z[i])
      BY <1>4, <1>5, <1>8 DEF Lists
    <3>3. a # z[i]
      BY <1>3, <1>4, <1>5, <3>2, PrecedesOrders
    <3>4. QED
      BY <3>1, <3>3
  <2>2. ASSUME NEW b \in S \ {a} PROVE b \in {z[i] : i \in 1 .. Len(z)}
    <3>1. PICK k \in 1 .. Len(s) : b = s[k]
      BY <1>1
    <3>2. k # 1
      BY <1>5, <3>1
    <3>3. k - 1 \in 1 .. Len(z) /\ (k - 1) + 1 = k
      BY <1>1, <1>7, <3>2
    <3>4. z[k - 1] = b
      BY <1>7, <3>1, <3>3
    <3>5. QED
      BY <3>3, <3>4
  <2>3. QED
    BY <2>1, <2>2
<1>11. Lists(z, S \ {a})
  BY <1>7, <1>9, <1>10 DEF Lists
<1>12. QED
  BY <1>6, <1>11 DEF z

-----------------------------------------------------------------------------
(* What a slot will send. *)

(* A slot in use has its place in the ring, and the slots at two places    *)
(* are two.                                                                *)
LEMMA WindowPlaces ==
  ASSUME TypeOK
  PROVE  /\ \A j \in 0 .. tx_count - 1 : SlotAt(tx_head, j) \in Window
         /\ \A i \in Window : \E j \in 0 .. tx_count - 1 :
              i = SlotAt(tx_head, j)
         /\ SlotAt(tx_head, 0) = tx_head
         /\ tx_count > 0 => tx_head \in Window
<1>1. tx_head \in SlotIds /\ tx_count \in 0 .. SlotCount
  BY DEF TypeOK
<1>2. SlotAt(tx_head, 0) = tx_head
  <2>1. 0 \in 0 .. SlotCount /\ tx_head + 0 = tx_head /\ tx_head < SlotCount
    BY <1>1, UartTxAssumption DEF SlotIds
  <2>2. QED
    BY <1>1, <2>1, SlotAtSmall
<1>3. tx_count > 0 => 0 \in 0 .. tx_count - 1
  BY <1>1
<1>4. QED
  BY <1>2, <1>3 DEF Window, Slots

(* The bytes that a slot will send depend on the slot, once it is ready,   *)
(* and on the call that fills it before.                                   *)
LEMMA BytesStay ==
  ASSUME NEW i,
         tx_slots'[i].ready = tx_slots[i].ready,
         tx_slots[i].ready => tx_slots'[i] = tx_slots[i],
         \A u \in Tasks :
           /\ (Filling(u) /\ caller[u].slot = i)' <=>
                Filling(u) /\ caller[u].slot = i
           /\ Filling(u) /\ caller[u].slot = i =>
                /\ caller'[u].msg = caller[u].msg
                /\ caller'[u].length = caller[u].length
  PROVE  SlotBytes(i)' = SlotBytes(i)
<1>1. CASE tx_slots[i].ready
  BY <1>1 DEF SlotBytes
<1>2. CASE ~ tx_slots[i].ready
  <2> DEFINE F == {u \in Tasks : Filling(u) /\ caller[u].slot = i}
  <2>1. F' = F
    OBVIOUS
  <2>2. \A t \in F : /\ caller'[t].msg = caller[t].msg
                     /\ caller'[t].length = caller[t].length
    OBVIOUS
  <2>3. /\ SlotBytes(i) = UNION {{<<caller[t].msg, k>> :
                                    k \in 1 .. caller[t].length} : t \in F}
        /\ SlotBytes(i)' = UNION {{<<caller'[t].msg, k>> :
                                    k \in 1 .. caller'[t].length} : t \in F'}
    BY <1>2 DEF SlotBytes
  <2> HIDE DEF F
  <2>4. QED
    BY <2>1, <2>2, <2>3
<1>3. QED
  BY <1>1, <1>2

(* A slot stays for its message. *)
LEMMA IsForStays ==
  ASSUME NEW i, NEW m, IsFor(i, m), tx_slots'[i] = tx_slots[i],
         \A u \in Tasks : (Filling(u) /\ caller[u].slot = i)' =>
           Filling(u) /\ caller'[u] = caller[u]
  PROVE  IsFor(i, m)'
BY DEF IsFor

(* What a slot sends is of its message. *)
LEMMA BytesOfMessage ==
  ASSUME NEW i, NEW m, IsFor(i, m), NEW b \in SlotBytes(i)
  PROVE  b[1] = m
<1>1. CASE tx_slots[i].ready
  <2>1. PICK k \in 1 .. tx_slots[i].length :
          b = <<tx_slots[i].data[k], k>>
    BY <1>1 DEF SlotBytes
  <2>2. tx_slots[i].data[k] = m
    BY <1>1 DEF IsFor
  <2>3. QED
    BY <2>1, <2>2
<1>2. CASE ~ tx_slots[i].ready
  <2>1. PICK t \in {u \in Tasks : Filling(u) /\ caller[u].slot = i} :
          b \in {<<caller[t].msg, k>> : k \in 1 .. caller[t].length}
    BY <1>2 DEF SlotBytes
  <2>2. caller[t].msg = m
    BY <2>1 DEF IsFor
  <2>3. QED
    BY <2>1, <2>2
<1>3. QED
  BY <1>1, <1>2

(* Bytes are counted from 1. *)
LEMMA BytesAreCounted ==
  ASSUME NEW i, NEW b \in SlotBytes(i)
  PROVE  b[2] \in Nat \ {0}
<1>1. CASE tx_slots[i].ready
  <2>1. PICK k \in 1 .. tx_slots[i].length :
          b = <<tx_slots[i].data[k], k>>
    BY <1>1 DEF SlotBytes
  <2>2. QED
    BY <2>1
<1>2. CASE ~ tx_slots[i].ready
  <2>1. PICK t \in {u \in Tasks : Filling(u) /\ caller[u].slot = i} :
          b \in {<<caller[t].msg, k>> : k \in 1 .. caller[t].length}
    BY <1>2 DEF SlotBytes
  <2>2. PICK k \in 1 .. caller[t].length : b = <<caller[t].msg, k>>
    BY <2>1
  <2>3. QED
    BY <2>2
<1>3. QED
  BY <1>1, <1>2

(* Nothing of a slot is gone unless it is with the DMA, and nothing then   *)
(* until the DMA has moved a byte.                                         *)
LEMMA WholeSlot ==
  ASSUME NEW i, i = tx_head /\ tx_busy => dma.enabled /\ dma.moved = 0
  PROVE  SlotRest(i) = SlotBytes(i)
<1>1. \A b \in SlotBytes(i) : b[2] > 0
  BY BytesAreCounted
<1>2. QED
  BY <1>1 DEF SlotRest

LEMMA WholeSlotNext ==
  ASSUME NEW i,
         (i = tx_head /\ tx_busy)' => dma'.enabled /\ dma'.moved = 0
  PROVE  SlotRest(i)' = SlotBytes(i)'
<1>1. ASSUME NEW b \in SlotBytes(i)' PROVE b[2] > 0
  <2>1. CASE tx_slots'[i].ready
    <3>1. PICK k \in 1 .. tx_slots'[i].length :
            b = <<tx_slots'[i].data[k], k>>
      BY <2>1 DEF SlotBytes
    <3>2. QED
      BY <3>1
  <2>2. CASE ~ tx_slots'[i].ready
    <3>1. PICK t \in {u \in Tasks : Filling(u)' /\ caller'[u].slot = i} :
            b \in {<<caller'[t].msg, k>> : k \in 1 .. caller'[t].length}
      BY <2>2 DEF SlotBytes
    <3>2. PICK k \in 1 .. caller'[t].length : b = <<caller'[t].msg, k>>
      BY <3>1
    <3>3. QED
      BY <3>2
  <2>3. QED
    BY <2>1, <2>2
<1>2. QED
  BY <1>1 DEF SlotRest

(* What waits is in a slot in use, or in the hands of a blocking send.     *)
LEMMA WaitingIs ==
  ASSUME NEW b
  PROVE  b \in Waiting <=>
           \/ \E i \in Window : b \in SlotRest(i)
           \/ \E t \in Tasks : b \in SenderRest(t)
BY DEF Waiting, InSlots, InCalls

(* All that waits has been accepted. *)
LEMMA WaitingIsAccepted ==
  ASSUME Inv, SlotsHoldMessages, NEW b \in Waiting
  PROVE  b[1] <= accepted
<1>1. TypeOK /\ accepted \in Nat /\ tx_count \in Nat
  BY UartTxAssumption DEF Inv, TypeOK, Messages
<1>2. ASSUME NEW i \in Window, b \in SlotRest(i) PROVE b[1] <= accepted
  <2>1. PICK j \in 0 .. tx_count - 1 : i = SlotAt(tx_head, j)
    BY <1>1, WindowPlaces
  <2>2. IsFor(i, MessageAt(j))
    BY <2>1 DEF SlotsHoldMessages
  <2>3. b \in SlotBytes(i)
    BY <1>2 DEF SlotRest
  <2>4. b[1] = MessageAt(j)
    BY <2>2, <2>3, BytesOfMessage
  <2>5. QED
    BY <1>1, <2>1, <2>4 DEF MessageAt
<1>3. ASSUME NEW t \in Tasks, b \in SenderRest(t) PROVE b[1] <= accepted
  <2>1. caller[t].pc = "send" /\ b[1] = caller[t].msg
    BY <1>3 DEF SenderRest
  <2>2. caller[t].msg = accepted
    BY <2>1 DEF SlotsHoldMessages
  <2>3. QED
    BY <1>1, <2>1, <2>2
<1>4. QED
  BY <1>2, <1>3, WaitingIs

-----------------------------------------------------------------------------
(* What the steps do to the bytes that are unsent, and so to TxLink. *)

(* A step that changes nothing of what is unsent is none of TxLink's. *)
LEMMA LinkStutters ==
  ASSUME LinkInv, Inv', SlotsHoldMessages', Waiting' = Waiting,
         UNCHANGED <<fifo, wire, accepted>>
  PROVE  LinkInv' /\ UNCHANGED Link!vars
<1>1. Unsent' = Unsent
  BY DEF Unsent
<1>2. (\E s : Lists(s, Unsent))'
  <2>1. PICK s : Lists(s, Unsent)
    BY DEF LinkInv
  <2>2. Lists(s, Unsent')
    BY <1>1, <2>1
  <2>3. QED
    BY <2>2 DEF Lists
<1>3. FifoGoesFirst'
  BY DEF FifoGoesFirst, LinkInv
<1>4. UNCHANGED Link!vars
  BY <1>1 DEF Link!vars, Listed, Before
<1>5. QED
  BY <1>2, <1>3, <1>4 DEF LinkInv

(* A message whose bytes begin to wait is one that TxLink accepts. *)
LEMMA LinkAccepts ==
  ASSUME LinkInv, Inv', SlotsHoldMessages', NEW n \in Lengths,
         Waiting' = Waiting \cup {<<accepted + 1, k>> : k \in 1 .. n},
         UNCHANGED <<fifo, wire>>, accepted < MaxMessages,
         accepted' = accepted + 1
  PROVE  LinkInv' /\ Link!Next
<1> DEFINE T == {<<accepted + 1, k>> : k \in 1 .. n}
<1>1. /\ Inv /\ SlotsHoldMessages /\ FifoGoesFirst /\ accepted \in Nat
      /\ accepted + 1 \in Messages
  BY UartTxAssumption DEF LinkInv, Inv, TypeOK, Messages
<1>2. PICK s : Lists(s, Unsent)
  BY DEF LinkInv
<1>3. \A b \in Unsent : b[1] \in Nat
  <2>1. ASSUME NEW b \in Unsent PROVE b[1] \in Nat
    <3>1. PICK i \in 1 .. Len(s) : b = s[i]
      BY <1>2 DEF Lists
    <3>2. b \in Byte
      BY <1>2, <3>1, ElementOfSeq DEF Lists
    <3>3. QED
      BY <3>2, UartTxAssumption DEF Byte, Messages
  <2>2. QED
    BY <2>1
<1>4. \A b \in Unsent : b[1] < accepted + 1
  <2>1. ASSUME NEW b \in Unsent PROVE b[1] <= accepted
    <3>1. CASE b \in Waiting
      BY <1>1, <3>1, WaitingIsAccepted
    <3>2. CASE \E i \in 1 .. Len(fifo) : b = fifo[i]
      BY <1>1, <3>2 DEF FifoGoesFirst
    <3>3. QED
      BY <3>1, <3>2 DEF Unsent
  <2>2. QED
    BY <1>1, <1>3, <2>1
<1>5. Unsent' = Unsent \cup T
  BY DEF Unsent
<1>6. Lists(s \o Link!Bytes(accepted + 1, n), Unsent \cup T)
  BY <1>1, <1>2, <1>4, ListedAccept
<1>7. Listed(Unsent) = s
  BY <1>2, ListedIs
<1>8. Listed(Unsent)' = Listed(Unsent) \o Link!Bytes(accepted + 1, n)
  <2>1. Listed(Unsent \cup T) = s \o Link!Bytes(accepted + 1, n)
    BY <1>6, ListedIs
  <2>2. Listed(Unsent)' = Listed(Unsent \cup T)
    BY <1>5 DEF Listed, Before
  <2>3. QED
    BY <1>7, <2>1, <2>2
<1>9. Link!Accept(n)
  BY <1>8 DEF Link!Accept
<1>10. (\E z : Lists(z, Unsent))'
  BY <1>5, <1>6 DEF Lists
<1>11. FifoGoesFirst'
  <2>1. \A i \in 1 .. Len(fifo) : fifo[i][1] \in Nat /\ fifo[i][1] <= accepted
    <3>1. \A i \in 1 .. Len(fifo) : fifo[i] \in Unsent
      BY DEF Unsent
    <3>2. QED
      BY <1>1, <1>3, <3>1 DEF FifoGoesFirst
  <2>2. ASSUME NEW i \in 1 .. Len(fifo), NEW b \in Waiting'
        PROVE  Precedes(fifo[i], b)
    <3>1. CASE b \in Waiting
      BY <1>1, <3>1 DEF FifoGoesFirst
    <3>2. CASE b \in T
      <4>1. b[1] = accepted + 1
        BY <3>2
      <4>2. QED
        BY <1>1, <2>1, <4>1 DEF Precedes
    <3>3. QED
      BY <2>2, <3>1, <3>2
  <2>3. \A i \in 1 .. Len(fifo) : fifo[i][1] <= accepted + 1
    BY <1>1, <2>1
  <2>4. fifo' = fifo /\ accepted' = accepted + 1
    OBVIOUS
  <2>5. QED
    BY <1>1, <2>2, <2>3, <2>4 DEF FifoGoesFirst
<1>12. Link!Next
  BY <1>9 DEF Link!Next, Lengths
<1>13. QED
  BY <1>10, <1>11, <1>12 DEF LinkInv

(* A byte that goes into the FIFO before all that waits is still unsent. *)
LEMMA LinkMoves ==
  ASSUME LinkInv, Inv', SlotsHoldMessages', NEW a \in Waiting,
         Waiting' = Waiting \ {a}, fifo' = Append(fifo, a),
         \A b \in Waiting \ {a} : Precedes(a, b),
         UNCHANGED <<wire, accepted>>
  PROVE  LinkInv' /\ UNCHANGED Link!vars
<1>1. Inv /\ SlotsHoldMessages /\ FifoGoesFirst /\ fifo \in Seq(Byte)
  BY DEF LinkInv, Inv, TypeOK
<1>2. PICK s : Lists(s, Unsent)
  BY DEF LinkInv
<1>3. a \in Byte
  <2>1. a \in Unsent
    BY DEF Unsent
  <2>2. PICK i \in 1 .. Len(s) : a = s[i]
    BY <1>2, <2>1 DEF Lists
  <2>3. QED
    BY <1>2, <2>2, ElementOfSeq DEF Lists
<1> DEFINE n == Len(fifo)
<1>4. /\ n \in Nat /\ Len(fifo') = n + 1
      /\ \A i \in 1 .. n : fifo'[i] = fifo[i]
      /\ fifo'[n + 1] = a
  BY <1>1, <1>3, AppendProperties
<1> HIDE DEF n
<1>5. {fifo'[i] : i \in 1 .. Len(fifo')} = {fifo[i] : i \in 1 .. n} \cup {a}
  <2>1. ASSUME NEW i \in 1 .. Len(fifo')
        PROVE  fifo'[i] \in {fifo[k] : k \in 1 .. n} \cup {a}
    <3>1. i \in 1 .. n \/ i = n + 1
      BY <1>4
    <3>2. QED
      BY <1>4, <3>1
  <2>2. ASSUME NEW i \in 1 .. n
        PROVE  fifo[i] \in {fifo'[k] : k \in 1 .. Len(fifo')}
    <3>1. i \in 1 .. Len(fifo')
      BY <1>4
    <3>2. QED
      BY <1>4, <3>1
  <2>3. a \in {fifo'[k] : k \in 1 .. Len(fifo')}
    <3>1. n + 1 \in 1 .. Len(fifo')
      BY <1>4
    <3>2. QED
      BY <1>4, <3>1
  <2>4. QED
    BY <2>1, <2>2, <2>3
<1>6. Unsent' = Unsent
  BY <1>5 DEF Unsent, n
<1>7. (\E z : Lists(z, Unsent))'
  <2>1. Lists(s, Unsent')
    BY <1>2, <1>6
  <2>2. QED
    BY <2>1 DEF Lists
<1>8. ASSUME NEW i \in 1 .. Len(fifo')
      PROVE  /\ fifo'[i][1] <= accepted
             /\ \A b \in Waiting' : Precedes(fifo'[i], b)
             /\ \A j \in 1 .. Len(fifo') :
                  i < j => Precedes(fifo'[i], fifo'[j])
  <2>1. CASE i \in 1 .. n
    <3>1. fifo'[i] = fifo[i] /\ i \in 1 .. Len(fifo)
      BY <1>4, <2>1 DEF n
    <3>2. /\ fifo[i][1] <= accepted
          /\ \A b \in Waiting : Precedes(fifo[i], b)
      BY <1>1, <3>1 DEF FifoGoesFirst
    <3>3. ASSUME NEW j \in 1 .. Len(fifo'), i < j
          PROVE  Precedes(fifo[i], fifo'[j])
      <4>1. CASE j \in 1 .. n
        BY <1>1, <1>4, <3>1, <3>3, <4>1 DEF FifoGoesFirst, n
      <4>2. CASE j = n + 1
        BY <1>4, <3>2, <4>2
      <4>3. QED
        BY <1>4, <4>1, <4>2
    <3>4. QED
      BY <3>1, <3>2, <3>3
  <2>2. CASE i = n + 1
    <3>1. fifo'[i] = a
      BY <1>4, <2>2
    <3>2. a[1] <= accepted
      BY <1>1, WaitingIsAccepted
    <3>3. ASSUME NEW j \in 1 .. Len(fifo') PROVE ~ (i < j)
      BY <1>4, <2>2
    <3>4. QED
      BY <3>1, <3>2, <3>3
  <2>3. QED
    BY <1>4, <2>1, <2>2
<1>9. FifoGoesFirst'
  BY <1>8 DEF FifoGoesFirst
<1>10. UNCHANGED Link!vars
  BY <1>6 DEF Link!vars, Listed, Before
<1>11. QED
  BY <1>7, <1>9, <1>10 DEF LinkInv

(* The byte that leaves the FIFO is the next that TxLink shifts out. *)
LEMMA LinkShifts ==
  ASSUME LinkInv, Inv', SlotsHoldMessages', Waiting' = Waiting, fifo # <<>>,
         fifo' = Tail(fifo), wire' = Append(wire, Head(fifo)),
         UNCHANGED accepted
  PROVE  LinkInv' /\ Link!Next
<1> DEFINE a == Head(fifo)
<1>1. Inv /\ SlotsHoldMessages /\ FifoGoesFirst /\ fifo \in Seq(Byte)
  BY DEF LinkInv, Inv, TypeOK
<1>2. PICK s : Lists(s, Unsent)
  BY DEF LinkInv
<1>3. /\ Len(fifo) \in Nat /\ Len(fifo) > 0 /\ a = fifo[1] /\ a \in Byte
      /\ fifo' \in Seq(Byte) /\ Len(fifo') = Len(fifo) - 1
      /\ \A i \in 1 .. Len(fifo') : fifo'[i] = fifo[i + 1]
  <2>1. Len(fifo) \in Nat /\ Len(fifo) > 0 /\ a = fifo[1]
    BY <1>1
  <2>2. QED
    BY <1>1, <2>1, HeadTailProperties
<1> HIDE DEF a
<1>4. a \in Unsent
  <2>1. 1 \in 1 .. Len(fifo)
    BY <1>3
  <2>2. QED
    BY <1>3, <2>1 DEF Unsent
<1>5. \A b \in Unsent \ {a} : Precedes(a, b)
  <2>1. ASSUME NEW b \in Unsent, b # a PROVE Precedes(a, b)
    <3>1. CASE b \in Waiting
      <4>1. 1 \in 1 .. Len(fifo)
        BY <1>3
      <4>2. QED
        BY <1>1, <1>3, <3>1, <4>1 DEF FifoGoesFirst
    <3>2. CASE \E i \in 1 .. Len(fifo) : b = fifo[i]
      <4>1. PICK i \in 1 .. Len(fifo) : b = fifo[i]
        BY <3>2
      <4>2. 1 \in 1 .. Len(fifo) /\ 1 < i
        BY <1>3, <2>1, <4>1
      <4>3. QED
        BY <1>1, <1>3, <4>1, <4>2 DEF FifoGoesFirst
    <3>3. QED
      BY <3>1, <3>2 DEF Unsent
  <2>2. QED
    BY <2>1
<1>6. Unsent' = Unsent \ {a}
  <2>1. ASSUME NEW i \in 1 .. Len(fifo')
        PROVE  fifo'[i] \in Unsent /\ fifo'[i] # a
    <3>1. i + 1 \in 1 .. Len(fifo) /\ 1 \in 1 .. Len(fifo) /\ 1 < i + 1
      BY <1>3
    <3>2. Precedes(a, fifo[i + 1])
      BY <1>1, <1>3, <3>1 DEF FifoGoesFirst
    <3>3. a # fifo[i + 1]
      BY <1>3, <3>2, PrecedesOrders
    <3>4. QED
      BY <1>3, <3>1, <3>3 DEF Unsent
  <2>2. ASSUME NEW b \in Waiting PROVE b \in Unsent /\ b # a
    <3>1. 1 \in 1 .. Len(fifo)
      BY <1>3
    <3>2. Precedes(a, b)
      BY <1>1, <1>3, <3>1 DEF FifoGoesFirst
    <3>3. QED
      BY <1>3, <3>2, PrecedesOrders DEF Unsent
  <2>3. ASSUME NEW i \in 1 .. Len(fifo), fifo[i] # a
        PROVE  fifo[i] \in {fifo'[k] : k \in 1 .. Len(fifo')}
    <3>1. i - 1 \in 1 .. Len(fifo') /\ (i - 1) + 1 = i
      BY <1>3, <2>3
    <3>2. fifo'[i - 1] = fifo[i]
      BY <1>3, <3>1
    <3>3. QED
      BY <3>1, <3>2
  <2>4. QED
    BY <2>1, <2>2, <2>3 DEF Unsent
<1>7. s # <<>> /\ Head(s) = a /\ Lists(Tail(s), Unsent \ {a})
  BY <1>2, <1>4, <1>5, ListedShift
<1>8. Listed(Unsent) = s
  BY <1>2, ListedIs
<1>9. Listed(Unsent)' = Tail(s)
  <2>1. Listed(Unsent \ {a}) = Tail(s)
    BY <1>7, ListedIs
  <2>2. Listed(Unsent)' = Listed(Unsent \ {a})
    BY <1>6 DEF Listed, Before
  <2>3. QED
    BY <2>1, <2>2
<1>10. Link!Shift
  BY <1>7, <1>8, <1>9 DEF Link!Shift, a
<1>11. (\E z : Lists(z, Unsent))'
  BY <1>6, <1>7 DEF Lists
<1>12. FifoGoesFirst'
  <2>1. ASSUME NEW i \in 1 .. Len(fifo')
        PROVE  i + 1 \in 1 .. Len(fifo) /\ fifo'[i] = fifo[i + 1]
    BY <1>3
  <2>2. ASSUME NEW i \in 1 .. Len(fifo')
        PROVE  /\ fifo'[i][1] <= accepted
               /\ \A b \in Waiting : Precedes(fifo'[i], b)
               /\ \A j \in 1 .. Len(fifo') :
                    i < j => Precedes(fifo'[i], fifo'[j])
    <3>1. \A j \in 1 .. Len(fifo') : i < j => i + 1 < j + 1
      OBVIOUS
    <3>2. QED
      BY <1>1, <2>1, <3>1 DEF FifoGoesFirst
  <2>3. QED
    BY <2>2 DEF FifoGoesFirst
<1>13. QED
  BY <1>10, <1>11, <1>12 DEF LinkInv, Link!Next

-----------------------------------------------------------------------------
(* The calls. *)

(* A step that leaves the ring alone, and the messages in it. *)
LEMMA RingStays ==
  ASSUME Inv, SlotsHoldMessages, UNCHANGED <<ringVars, tx_busy, dma>>,
         accepted' \in Nat, tx_count > 0 => accepted' = accepted,
         \A u \in Tasks : /\ Filling(u)' <=> Filling(u)
                          /\ Filling(u) => caller'[u] = caller[u],
         \A u \in Tasks : caller'[u].pc = "send" => caller'[u].msg = accepted'
  PROVE  /\ SlotsHoldMessages' /\ InSlots' = InSlots /\ Window' = Window
         /\ \A i \in Window : SlotBytes(i)' = SlotBytes(i)
<1>1. UNCHANGED <<tx_head, tx_count, tx_slots>>
  BY DEF ringVars
<1>2. TypeOK /\ tx_count \in Nat
  BY UartTxAssumption DEF Inv, TypeOK
<1>3. \A i : SlotBytes(i)' = SlotBytes(i)
  BY <1>1, BytesStay
<1>4. Window' = Window
  BY <1>1 DEF Window
<1>5. InSlots' = InSlots
  <2>1. \A i : SlotRest(i)' = SlotRest(i)
    BY <1>1, <1>3 DEF SlotRest
  <2>2. QED
    BY <1>4, <2>1 DEF InSlots
<1>6. tx_count' <= accepted'
  BY <1>1, <1>2 DEF SlotsHoldMessages
<1>7. ASSUME NEW j \in 0 .. tx_count - 1
      PROVE  IsFor(SlotAt(tx_head, j), MessageAt(j))'
  <2>1. PICK i, m : i = SlotAt(tx_head, j) /\ m = MessageAt(j)
    OBVIOUS
  <2>2. IsFor(i, m)
    BY <2>1 DEF SlotsHoldMessages
  <2>3. IsFor(i, m)'
    BY <1>1, <2>2, IsForStays
  <2>4. MessageAt(j)' = m
    BY <1>1, <1>2, <2>1 DEF MessageAt
  <2>5. QED
    BY <1>1, <2>1, <2>3, <2>4 DEF IsFor
<1>8. SlotsHoldMessages'
  BY <1>1, <1>6, <1>7 DEF SlotsHoldMessages
<1>9. QED
  BY <1>3, <1>4, <1>5, <1>8

(* While a blocking path owns the transmitter, or nobody has sent          *)
(* anything, no slot is in use.                                            *)
LEMMA RingIsEmpty ==
  ASSUME Inv, tx_count = 0
  PROVE  Window = {} /\ InSlots = {} /\ \A t \in Tasks : ~ Filling(t)
<1>1. Window = {}
  BY DEF Window, Slots
<1>2. InSlots = {}
  BY <1>1 DEF InSlots
<1>3. \A t \in Tasks : ~ Filling(t)
  BY <1>1 DEF Inv, FillersOwnSlots
<1>4. QED
  BY <1>1, <1>2, <1>3

(* A call in hand only waits if it is bsp_uart_send's. *)
LEMMA CallsStay ==
  ASSUME NEW t \in Tasks, \A u \in Tasks \ {t} : caller'[u] = caller[u],
         SenderRest(t)' = SenderRest(t)
  PROVE  InCalls' = InCalls
<1>1. \A u \in Tasks : SenderRest(u)' = SenderRest(u)
  <2>1. \A u \in Tasks \ {t} : SenderRest(u)' = SenderRest(u)
    BY DEF SenderRest
  <2>2. QED
    BY <2>1
<1>2. QED
  BY <1>1 DEF InCalls

(* bsp_uart_set_baudrate, and the end of bsp_uart_send, send nothing. *)
LEMMA BlockingStepLinks ==
  ASSUME LinkInv, Inv', NEW t \in Tasks, NEW c,
         caller' = [caller EXCEPT ![t] = c],
         caller[t].pc \in {"idle", "send", "drain", "apply", "unlock"},
         caller[t].pc = "send" => caller[t].done = caller[t].length,
         c.pc \in {"idle", "drain", "apply", "unlock"},
         UNCHANGED <<tx_busy, ringVars, hwVars, accepted>>
  PROVE  LinkInv' /\ UNCHANGED Link!vars
<1>1. /\ Inv /\ SlotsHoldMessages /\ caller \in [Tasks -> Call]
      /\ accepted \in Nat
  BY UartTxAssumption DEF LinkInv, Inv, TypeOK, Messages
<1>2. /\ caller'[t] = c /\ \A u \in Tasks \ {t} : caller'[u] = caller[u]
      /\ UNCHANGED <<dma, fifo, wire>>
  BY <1>1 DEF hwVars
<1>3. SenderRest(t) = {} /\ SenderRest(t)' = {}
  <2>1. SenderRest(t)' = {}
    BY <1>2 DEF SenderRest
  <2>2. SenderRest(t) = {}
    <3>1. CASE caller[t].pc = "send"
      <4>1. caller[t].done + 1 .. caller[t].length = {}
        BY <1>1, <3>1 DEF Call
      <4>2. QED
        BY <3>1, <4>1 DEF SenderRest
    <3>2. CASE caller[t].pc # "send"
      BY <3>2 DEF SenderRest
    <3>3. QED
      BY <3>1, <3>2
  <2>3. QED
    BY <2>1, <2>2
<1>4. InCalls' = InCalls
  BY <1>2, <1>3, CallsStay
<1>5. \A u \in Tasks : /\ Filling(u)' <=> Filling(u)
                       /\ Filling(u) => caller'[u] = caller[u]
  BY <1>2 DEF Filling
<1>6. \A u \in Tasks : caller'[u].pc = "send" => caller'[u].msg = accepted'
  BY <1>1, <1>2 DEF SlotsHoldMessages
<1>7. SlotsHoldMessages' /\ InSlots' = InSlots
  BY <1>1, <1>2, <1>5, <1>6, RingStays
<1>8. Waiting' = Waiting
  BY <1>4, <1>7 DEF Waiting
<1>9. QED
  BY <1>2, <1>7, <1>8, LinkStutters

(* bsp_uart_set_baudrate and the end of bsp_uart_send. *)
LEMMA BaudLinks ==
  ASSUME LinkInv, Inv', NEW t \in Tasks,
         \/ SendUnlock(t) \/ BaudLock(t) \/ BaudDrained(t) \/ BaudUnlock(t)
         \/ \E b \in Bauds : BaudApply(t, b)
  PROVE  LinkInv' /\ UNCHANGED Link!vars
<1>1. caller \in [Tasks -> Call]
  BY DEF LinkInv, Inv, TypeOK
<1>2. \E c : /\ caller' = [caller EXCEPT ![t] = c]
             /\ c.pc \in {"idle", "drain", "apply", "unlock"}
  <2>1. CASE SendUnlock(t) \/ BaudUnlock(t)
    <3>1. caller' = [caller EXCEPT ![t] = Idle] /\ Idle.pc = "idle"
      BY <2>1 DEF SendUnlock, BaudUnlock, Idle
    <3>2. QED
      BY <3>1
  <2>2. ASSUME NEW p \in {"drain", "apply", "unlock"}, Goto(t, p)
        PROVE  \E c : /\ caller' = [caller EXCEPT ![t] = c]
                      /\ c.pc \in {"idle", "drain", "apply", "unlock"}
    <3> DEFINE c == [caller[t] EXCEPT !.pc = p]
    <3>1. caller' = [caller EXCEPT ![t] = c]
      BY <2>2 DEF Goto
    <3>2. c.pc = p
      BY <1>1 DEF Call
    <3>3. QED
      BY <3>1, <3>2
  <2>3. CASE BaudLock(t)
    BY <2>2, <2>3 DEF BaudLock
  <2>4. CASE BaudDrained(t)
    BY <2>2, <2>4 DEF BaudDrained
  <2>5. CASE \E b \in Bauds : BaudApply(t, b)
    BY <2>2, <2>5 DEF BaudApply
  <2>6. QED
    BY <2>1, <2>3, <2>4, <2>5
<1>3. /\ caller[t].pc \in {"idle", "send", "drain", "apply", "unlock"}
      /\ caller[t].pc = "send" => caller[t].done = caller[t].length
      /\ UNCHANGED <<tx_busy, ringVars, hwVars, accepted>>
  BY DEF SendUnlock, BaudLock, BaudDrained, BaudUnlock, BaudApply
<1>4. QED
  BY <1>2, <1>3, BlockingStepLinks

(* bsp_uart_send's bytes begin to wait. *)
LEMMA SendLockLinks ==
  ASSUME LinkInv, Inv', NEW t \in Tasks, NEW n \in Lengths, SendLock(t, n)
  PROVE  LinkInv' /\ Link!Next
<1>1. /\ Inv /\ SlotsHoldMessages /\ caller \in [Tasks -> Call]
      /\ accepted \in Nat
  BY UartTxAssumption DEF LinkInv, Inv, TypeOK, Messages
<1>2. /\ tx_count = 0 /\ ~ tx_exclusive /\ accepted < MaxMessages
      /\ accepted' = accepted + 1
      /\ caller[t].pc = "idle"
      /\ caller' = [caller EXCEPT ![t] =
                      [pc |-> "send", msg |-> accepted + 1, length |-> n,
                       slot |-> 0, done |-> 0]]
      /\ UNCHANGED <<tx_busy, ringVars, dma, fifo, wire>>
  BY DEF SendLock, TxLock, hwVars
<1>3. /\ caller'[t] = [pc |-> "send", msg |-> accepted + 1, length |-> n,
                       slot |-> 0, done |-> 0]
      /\ \A u \in Tasks \ {t} : caller'[u] = caller[u]
  BY <1>1, <1>2
<1>4. \A u \in Tasks : caller[u].pc # "send"
  BY <1>1, <1>2 DEF Inv, ExclusiveIsAlone, Exclusive
<1>5. \A u \in Tasks : ~ Filling(u) /\ ~ Filling(u)'
  <2>1. \A u \in Tasks : ~ Filling(u)
    BY <1>1, <1>2, RingIsEmpty
  <2>2. QED
    BY <1>3, <2>1 DEF Filling
<1>6. \A u \in Tasks : caller'[u].pc = "send" => caller'[u].msg = accepted'
  BY <1>2, <1>3, <1>4
<1>7. SlotsHoldMessages' /\ InSlots' = InSlots
  BY <1>1, <1>2, <1>5, <1>6, RingStays
<1>8. InCalls = {}
  BY <1>4 DEF InCalls, SenderRest
<1>9. InCalls' = {<<accepted + 1, k>> : k \in 1 .. n}
  <2>1. SenderRest(t)' = {<<accepted + 1, k>> : k \in 1 .. n}
    BY <1>3 DEF SenderRest
  <2>2. \A u \in Tasks \ {t} : SenderRest(u)' = {}
    BY <1>3, <1>4 DEF SenderRest
  <2>3. QED
    BY <2>1, <2>2 DEF InCalls
<1>10. Waiting' = Waiting \cup {<<accepted + 1, k>> : k \in 1 .. n}
  BY <1>7, <1>8, <1>9 DEF Waiting
<1>11. QED
  BY <1>2, <1>7, <1>10, LinkAccepts

(* A blocking send puts its next byte into the FIFO. *)
LEMMA SendByteLinks ==
  ASSUME LinkInv, Inv', NEW t \in Tasks, SendByte(t)
  PROVE  LinkInv' /\ UNCHANGED Link!vars
<1> DEFINE m == caller[t].msg
           l == caller[t].length
           d == caller[t].done
           a == <<m, d + 1>>
           T == {<<m, k>> : k \in d + 1 .. l}
<1>1. /\ Inv /\ SlotsHoldMessages /\ caller \in [Tasks -> Call]
      /\ accepted \in Nat
  BY UartTxAssumption DEF LinkInv, Inv, TypeOK, Messages
<1>2. /\ caller[t].pc = "send" /\ d < l
      /\ fifo' = Append(fifo, a)
      /\ caller' = [caller EXCEPT ![t].done = d + 1]
      /\ UNCHANGED <<tx_busy, ringVars, dma, wire, accepted>>
  BY DEF SendByte
<1>3. /\ d \in Nat /\ l \in Nat /\ caller[t] \in Call
      /\ caller'[t] = [caller[t] EXCEPT !.done = d + 1]
      /\ caller'[t].pc = "send" /\ caller'[t].msg = m
      /\ caller'[t].length = l /\ caller'[t].done = d + 1
      /\ \A u \in Tasks \ {t} : caller'[u] = caller[u]
  BY <1>1, <1>2, UartTxAssumption DEF Call
<1>4. tx_count = 0 /\ \A u \in Tasks \ {t} : caller[u].pc # "send"
  BY <1>1, <1>2 DEF Inv, ExclusiveIsAlone, Exclusive
<1>5. \A u \in Tasks : ~ Filling(u) /\ ~ Filling(u)'
  <2>1. \A u \in Tasks : ~ Filling(u)
    BY <1>1, <1>4, RingIsEmpty
  <2>2. QED
    BY <1>3, <2>1 DEF Filling
<1>6. \A u \in Tasks : caller'[u].pc = "send" => caller'[u].msg = accepted'
  BY <1>1, <1>2, <1>3, <1>4 DEF SlotsHoldMessages
<1>7. SlotsHoldMessages' /\ InSlots' = InSlots /\ InSlots = {}
  <2>1. InSlots = {}
    BY <1>1, <1>4, RingIsEmpty
  <2>2. QED
    BY <1>1, <1>2, <1>5, <1>6, <2>1, RingStays
<1>8. InCalls = T
  <2>1. SenderRest(t) = T
    BY <1>2 DEF SenderRest
  <2>2. \A u \in Tasks \ {t} : SenderRest(u) = {}
    BY <1>4 DEF SenderRest
  <2> HIDE DEF T
  <2>3. QED
    BY <2>1, <2>2 DEF InCalls
<1>9. InCalls' = {<<m, k>> : k \in (d + 1) + 1 .. l}
  <2>1. SenderRest(t)' = {<<m, k>> : k \in (d + 1) + 1 .. l}
    BY <1>3 DEF SenderRest
  <2>2. \A u \in Tasks \ {t} : SenderRest(u)' = {}
    BY <1>3, <1>4 DEF SenderRest
  <2>3. QED
    BY <2>1, <2>2 DEF InCalls
<1>10. a \in T /\ {<<m, k>> : k \in (d + 1) + 1 .. l} = T \ {a}
  <2>1. d + 1 \in d + 1 .. l
    BY <1>2, <1>3
  <2>2. (d + 1) + 1 .. l = (d + 1 .. l) \ {d + 1}
    BY <1>3
  <2>3. QED
    BY <2>1, <2>2
<1>11. \A b \in T \ {a} : Precedes(a, b)
  <2>1. ASSUME NEW k \in d + 1 .. l, k # d + 1
        PROVE  Precedes(<<m, d + 1>>, <<m, k>>)
    BY <1>3, <2>1 DEF Precedes
  <2>2. QED
    BY <2>1
<1>12. Waiting = T /\ Waiting' = T \ {a}
  BY <1>7, <1>8, <1>9, <1>10 DEF Waiting
<1> HIDE DEF T, a
<1>13. QED
  BY <1>2, <1>7, <1>10, <1>11, <1>12, LinkMoves

-----------------------------------------------------------------------------
(* The hardware, and the steps that send nothing. *)

(* A byte that leaves goes unnoticed by the ring and the calls. *)
LEMMA ShiftOutLinks ==
  ASSUME LinkInv, Inv', ShiftOut
  PROVE  LinkInv' /\ Link!Next
<1>1. Inv /\ SlotsHoldMessages /\ accepted \in Nat
  BY UartTxAssumption DEF LinkInv, Inv, TypeOK, Messages
<1>2. /\ fifo # <<>> /\ fifo' = Tail(fifo) /\ wire' = Append(wire, Head(fifo))
      /\ UNCHANGED <<tx_busy, ringVars, dma, caller, accepted>>
  BY DEF ShiftOut
<1>3. \A u \in Tasks : Filling(u)' <=> Filling(u)
  BY <1>2 DEF Filling
<1>4. \A u \in Tasks : caller'[u].pc = "send" => caller'[u].msg = accepted'
  BY <1>1, <1>2 DEF SlotsHoldMessages
<1>5. SlotsHoldMessages' /\ InSlots' = InSlots
  BY <1>1, <1>2, <1>3, <1>4, RingStays
<1>6. InCalls' = InCalls
  BY <1>2 DEF InCalls, SenderRest
<1>7. QED
  BY <1>2, <1>5, <1>6, LinkShifts DEF Waiting

(* Nothing happens. *)
LEMMA StutterLinks ==
  ASSUME LinkInv, Inv', UNCHANGED vars
  PROVE  LinkInv' /\ UNCHANGED Link!vars
<1>1. Inv /\ SlotsHoldMessages /\ accepted \in Nat
  BY UartTxAssumption DEF LinkInv, Inv, TypeOK, Messages
<1>2. UNCHANGED <<tx_busy, ringVars, dma, caller, accepted, fifo, wire>>
  BY DEF vars, hwVars
<1>3. \A u \in Tasks : Filling(u)' <=> Filling(u)
  BY <1>2 DEF Filling
<1>4. \A u \in Tasks : caller'[u].pc = "send" => caller'[u].msg = accepted'
  BY <1>1, <1>2 DEF SlotsHoldMessages
<1>5. SlotsHoldMessages' /\ InSlots' = InSlots
  BY <1>1, <1>2, <1>3, <1>4, RingStays
<1>6. InCalls' = InCalls
  BY <1>2 DEF InCalls, SenderRest
<1>7. QED
  BY <1>2, <1>5, <1>6, LinkStutters DEF Waiting

(* Before bsp_uart_init nothing waits, and nothing does after it. *)
LEMMA UartInitLinks ==
  ASSUME LinkInv, Inv', NEW d \in BOOLEAN, UartInit(d)
  PROVE  LinkInv' /\ UNCHANGED Link!vars
<1>1. Inv /\ SlotsHoldMessages /\ accepted \in Nat
  BY UartTxAssumption DEF LinkInv, Inv, TypeOK, Messages
<1>2. /\ ~ initialized /\ tx_count' = 0
      /\ UNCHANGED <<caller, accepted, fifo, wire>>
  BY DEF UartInit
<1>3. tx_count = 0 /\ \A u \in Tasks : caller[u].pc = "idle"
  BY <1>1, <1>2 DEF Inv, QuietUntilInit, CallsWellFormed
<1>4. InSlots = {} /\ InSlots' = {}
  <2>1. InSlots = {}
    BY <1>1, <1>3, RingIsEmpty
  <2>2. Window' = {}
    BY <1>2 DEF Window, Slots
  <2>3. QED
    BY <2>1, <2>2 DEF InSlots
<1>5. InCalls' = InCalls
  BY <1>2 DEF InCalls, SenderRest
<1>6. SlotsHoldMessages'
  BY <1>1, <1>2, <1>3 DEF SlotsHoldMessages
<1>7. QED
  BY <1>2, <1>4, <1>5, <1>6, LinkStutters DEF Waiting

(* No two slots in use are for the same message, and the head's comes      *)
(* first.                                                                  *)
LEMMA HeadGoesFirst ==
  ASSUME Inv, SlotsHoldMessages, NEW i \in Window, i # tx_head,
         NEW b \in SlotBytes(i)
  PROVE  b[1] \in Nat /\ MessageAt(0) < b[1]
<1>1. TypeOK /\ accepted \in Nat /\ tx_count \in Nat
  BY UartTxAssumption DEF Inv, TypeOK, Messages
<1>2. PICK j \in 0 .. tx_count - 1 : i = SlotAt(tx_head, j)
  BY <1>1, WindowPlaces
<1>3. j # 0
  BY <1>1, <1>2, WindowPlaces
<1>4. b[1] = MessageAt(j)
  BY <1>2, BytesOfMessage DEF SlotsHoldMessages
<1>5. tx_count <= accepted
  BY DEF SlotsHoldMessages
<1>6. MessageAt(j) \in Nat /\ MessageAt(0) < MessageAt(j)
  BY <1>1, <1>2, <1>3, <1>5 DEF MessageAt
<1>7. QED
  BY <1>4, <1>6

(* While the DMA runs, no blocking send has anything to put into the FIFO. *)
LEMMA NobodySends ==
  ASSUME Inv, tx_count > 0
  PROVE  InCalls = {}
<1>1. ASSUME NEW t \in Tasks PROVE caller[t].pc # "send"
  <2>1. tx_count # 0
    BY UartTxAssumption DEF Inv, TypeOK
  <2>2. QED
    BY <2>1 DEF Inv, ExclusiveIsAlone, Exclusive
<1>2. QED
  BY <1>1 DEF InCalls, SenderRest

(* The DMA puts the head slot's next byte into the FIFO. *)
LEMMA DmaMoveLinks ==
  ASSUME LinkInv, Inv', DmaMove
  PROVE  LinkInv' /\ UNCHANGED Link!vars
<1> DEFINE k == dma.moved + 1
           l == tx_slots[tx_head].length
           m == MessageAt(0)
           a == <<tx_slots[dma.src].data[k], k>>
           B == SlotBytes(tx_head)
           O == UNION {SlotRest(i) : i \in Window \ {tx_head}}
<1>1. /\ Inv /\ SlotsHoldMessages /\ TypeOK /\ accepted \in Nat
      /\ tx_count \in Nat
  BY UartTxAssumption DEF LinkInv, Inv, TypeOK, Messages
<1>2. /\ dma.enabled
      /\ fifo' = Append(fifo, a)
      /\ dma' = [dma EXCEPT !.moved = k, !.enabled = k < dma.size]
      /\ UNCHANGED <<tx_busy, ringVars, caller, wire, accepted>>
  BY DEF DmaMove
<1>3. /\ tx_busy /\ tx_count > 0 /\ dma.src = tx_head
      /\ tx_slots[tx_head].ready /\ dma.size = l /\ dma.moved < dma.size
  BY <1>1, <1>2 DEF Inv, NoTornRead
<1>4. /\ k \in Nat \ {0} /\ l \in Nat /\ k <= l /\ dma.moved \in Nat
      /\ dma'.moved = k /\ dma'.enabled = (k < l)
  BY <1>1, <1>2, <1>3, UartTxAssumption
     DEF TypeOK, Transfer, Slot
<1>5. IsFor(tx_head, m) /\ tx_head \in Window
  <2>1. 0 \in 0 .. tx_count - 1
    BY <1>1, <1>3
  <2>2. IsFor(SlotAt(tx_head, 0), m)
    BY <1>1, <2>1 DEF SlotsHoldMessages
  <2>3. QED
    BY <1>1, <1>3, <2>2, WindowPlaces
<1>6. \A q \in 1 .. l : tx_slots[tx_head].data[q] = m
  BY <1>3, <1>5 DEF IsFor
<1> HIDE DEF m
<1>7. a = <<m, k>>
  BY <1>3, <1>4, <1>6
<1>8. B = {<<m, q>> : q \in 1 .. l}
  BY <1>3, <1>6 DEF SlotBytes
<1> HIDE DEF k, l, a
<1>9. SlotRest(tx_head) = {<<m, q>> : q \in k .. l}
  <2>1. SlotRest(tx_head) = {b \in B : b[2] > dma.moved}
    BY <1>2, <1>3 DEF SlotRest
  <2>2. \A q \in 1 .. l : q > dma.moved <=> q \in k .. l
    BY <1>4 DEF k
  <2>3. \A q \in k .. l : q \in 1 .. l
    BY <1>4
  <2> HIDE DEF B
  <2>4. QED
    BY <1>8, <2>1, <2>2, <2>3
<1>10. SlotRest(tx_head)' = {<<m, q>> : q \in k + 1 .. l}
  <2>1. SlotBytes(tx_head)' = B /\ tx_head' = tx_head /\ tx_busy'
    BY <1>2, <1>3 DEF SlotBytes, ringVars, Filling
  <2>2. SlotRest(tx_head)' = {b \in B : k < l /\ b[2] > k}
    BY <1>4, <2>1 DEF SlotRest
  <2>3. \A q \in 1 .. l : (k < l /\ q > k) <=> q \in k + 1 .. l
    BY <1>4
  <2>4. \A q \in k + 1 .. l : q \in 1 .. l
    BY <1>4
  <2> HIDE DEF B
  <2>5. QED
    BY <1>8, <2>2, <2>3, <2>4
<1>11. InSlots = SlotRest(tx_head) \cup O
  BY <1>5 DEF InSlots
<1>12. O' = O /\ InSlots' = SlotRest(tx_head)' \cup O
  <2>1. \A i \in Window \ {tx_head} : SlotRest(i)' = SlotRest(i)
    BY <1>2 DEF SlotRest, SlotBytes, ringVars, Filling
  <2>2. Window' = Window /\ tx_head' = tx_head
    BY <1>2 DEF Window, ringVars
  <2>3. QED
    BY <1>5, <2>1, <2>2 DEF InSlots
<1>13. ASSUME NEW b \in O PROVE b[1] \in Nat /\ m < b[1]
  <2>1. PICK i \in Window \ {tx_head} : b \in SlotRest(i)
    OBVIOUS
  <2>2. b \in SlotBytes(i)
    BY <2>1 DEF SlotRest
  <2>3. QED
    BY <1>1, <2>1, <2>2, HeadGoesFirst DEF m
<1>14. m \in Nat
  BY <1>1 DEF m, MessageAt, SlotsHoldMessages
<1> HIDE DEF B, O
<1>15. InCalls = {} /\ InCalls' = {}
  <2>1. InCalls = {}
    BY <1>1, <1>3, NobodySends
  <2>2. QED
    BY <1>2, <2>1 DEF InCalls, SenderRest
<1>16. a \in SlotRest(tx_head) /\ a \notin O
  <2>1. k \in k .. l
    BY <1>4
  <2>2. a \notin O
    BY <1>7, <1>13, <1>14
  <2>3. QED
    BY <1>7, <1>9, <2>1, <2>2
<1>17. SlotRest(tx_head)' = SlotRest(tx_head) \ {a}
  <2>1. k + 1 .. l = (k .. l) \ {k}
    BY <1>4
  <2>2. QED
    BY <1>7, <1>9, <1>10, <2>1
<1>18. Waiting = InSlots /\ Waiting' = InSlots'
  BY <1>15 DEF Waiting
<1>19. a \in Waiting /\ Waiting' = Waiting \ {a}
  BY <1>11, <1>12, <1>16, <1>17, <1>18
<1>20. \A b \in Waiting \ {a} : Precedes(a, b)
  <2>1. ASSUME NEW q \in k .. l, q # k PROVE Precedes(a, <<m, q>>)
    <3>1. k < q
      BY <1>4, <2>1
    <3>2. QED
      BY <1>7, <3>1 DEF Precedes
  <2>2. ASSUME NEW b \in O PROVE Precedes(a, b)
    BY <1>7, <1>13, <2>2 DEF Precedes
  <2>3. QED
    BY <1>7, <1>9, <1>11, <1>18, <2>1, <2>2
<1>21. SlotsHoldMessages'
  <2>1. ASSUME NEW i, NEW n, IsFor(i, n) PROVE IsFor(i, n)'
    BY <1>2, <2>1 DEF IsFor, ringVars, Filling
  <2>2. UNCHANGED <<tx_count, tx_head, accepted, caller>>
    BY <1>2 DEF ringVars
  <2>3. ASSUME NEW j \in 0 .. tx_count - 1
        PROVE  IsFor(SlotAt(tx_head, j), MessageAt(j))'
    <3>1. PICK i, n : i = SlotAt(tx_head, j) /\ n = MessageAt(j)
      OBVIOUS
    <3>2. IsFor(i, n)'
      BY <1>1, <2>1, <3>1 DEF SlotsHoldMessages
    <3>3. MessageAt(j)' = n
      BY <2>2, <3>1 DEF MessageAt
    <3>4. QED
      BY <2>2, <3>1, <3>2, <3>3 DEF IsFor
  <2>4. QED
    BY <1>1, <2>2, <2>3 DEF SlotsHoldMessages
<1>22. QED
  BY <1>2, <1>19, <1>20, <1>21, LinkMoves

-----------------------------------------------------------------------------
(* The filling of a slot. *)

(* A step of the memcpy, or the store of the length: the slot waits as     *)
(* before.                                                                 *)
LEMMA FillingLinks ==
  ASSUME LinkInv, Inv', NEW t \in Tasks, NEW c, NEW s, Filling(t),
         c.pc \in {"copy", "publish"}, c.slot = caller[t].slot,
         c.msg = caller[t].msg, c.length = caller[t].length,
         \A k \in 1 .. c.done : s.data[k] = c.msg,
         c.pc = "publish" => c.done = c.length,
         s.ready = FALSE,
         caller' = [caller EXCEPT ![t] = c],
         tx_slots' = [tx_slots EXCEPT ![c.slot] = s],
         UNCHANGED <<tx_busy, tx_head, tx_count, hwVars, accepted>>
  PROVE  LinkInv' /\ UNCHANGED Link!vars
<1>1. /\ Inv /\ SlotsHoldMessages /\ TypeOK /\ FillersOwnSlots
      /\ accepted \in Nat /\ tx_count \in Nat
      /\ caller \in [Tasks -> Call] /\ tx_slots \in [SlotIds -> Slot]
      /\ Window \subseteq SlotIds
  BY UartTxAssumption, WindowInSlots DEF LinkInv, Inv, TypeOK, Messages
<1>2. /\ UNCHANGED <<dma, fifo, wire>>
      /\ caller'[t] = c /\ \A u \in Tasks \ {t} : caller'[u] = caller[u]
  BY <1>1 DEF hwVars
<1>3. /\ c.slot \in Window /\ tx_slots[c.slot].ready = FALSE
      /\ tx_slots'[c.slot] = s
      /\ \A i \in Window \ {c.slot} : tx_slots'[i] = tx_slots[i]
      /\ \A u \in Tasks \ {t} : Filling(u) => caller[u].slot # c.slot
  <2>1. c.slot \in Window /\ ~ tx_slots[c.slot].ready
    BY <1>1 DEF FillersOwnSlots
  <2>2. tx_slots[c.slot].ready \in BOOLEAN
    BY <1>1, <2>1 DEF Slot
  <2>3. /\ tx_slots'[c.slot] = s
        /\ \A i \in Window \ {c.slot} : tx_slots'[i] = tx_slots[i]
    BY <1>1, <2>1
  <2>4. \A u \in Tasks \ {t} : Filling(u) => caller[u].slot # c.slot
    BY <1>1 DEF FillersOwnSlots
  <2>5. QED
    BY <2>1, <2>2, <2>3, <2>4
<1>4. \A u \in Tasks : /\ Filling(u)' <=> Filling(u)
                       /\ Filling(u) => /\ caller'[u].slot = caller[u].slot
                                        /\ caller'[u].msg = caller[u].msg
                                        /\ caller'[u].length = caller[u].length
  BY <1>2 DEF Filling
<1>5. ASSUME NEW i \in Window PROVE SlotBytes(i)' = SlotBytes(i)
  <2>1. /\ tx_slots'[i].ready = tx_slots[i].ready
        /\ tx_slots[i].ready => tx_slots'[i] = tx_slots[i]
    BY <1>3
  <2>2. QED
    BY <1>4, <2>1, BytesStay
<1>6. Window' = Window
  BY DEF Window
<1>7. InSlots' = InSlots
  <2>1. \A i \in Window : SlotRest(i)' = SlotRest(i)
    BY <1>2, <1>5 DEF SlotRest
  <2>2. QED
    BY <1>6, <2>1 DEF InSlots
<1>8. InCalls' = InCalls
  <2>1. caller[t].pc # "send" /\ caller'[t].pc # "send"
    BY <1>2 DEF Filling
  <2>2. SenderRest(t)' = SenderRest(t)
    BY <2>1 DEF SenderRest
  <2>3. QED
    BY <1>2, <2>2, CallsStay
<1>9. ASSUME NEW i \in Window, NEW m, IsFor(i, m) PROVE IsFor(i, m)'
  <2>1. CASE i # c.slot
    <3>1. tx_slots'[i] = tx_slots[i]
      BY <1>3, <2>1
    <3>2. \A u \in Tasks : (Filling(u) /\ caller[u].slot = i)' =>
            Filling(u) /\ caller'[u] = caller[u]
      BY <1>2, <1>4, <2>1
    <3>3. QED
      BY <1>9, <3>1, <3>2, IsForStays
  <2>2. CASE i = c.slot
    <3>1. c.msg = m
      BY <1>9, <2>2 DEF IsFor
    <3>2. ASSUME NEW u \in Tasks, Filling(u)', caller'[u].slot = i
          PROVE  u = t
      BY <1>2, <1>3, <1>4, <2>2, <3>2
    <3>3. QED
      BY <1>2, <1>3, <2>2, <3>1, <3>2 DEF IsFor
  <2>3. QED
    BY <2>1, <2>2
<1>10. SlotsHoldMessages'
  <2>1. ASSUME NEW j \in 0 .. tx_count - 1
        PROVE  IsFor(SlotAt(tx_head, j), MessageAt(j))'
    <3>1. PICK i, m : i = SlotAt(tx_head, j) /\ m = MessageAt(j)
      OBVIOUS
    <3>2. i \in Window
      BY <1>1, <3>1, WindowPlaces
    <3>3. IsFor(i, m)'
      BY <1>1, <1>9, <3>1, <3>2 DEF SlotsHoldMessages
    <3>4. MessageAt(j)' = m
      BY <3>1 DEF MessageAt
    <3>5. QED
      BY <3>1, <3>3, <3>4 DEF IsFor
  <2>2. \A u \in Tasks : caller'[u].pc = "send" => caller'[u].msg = accepted
    BY <1>1, <1>2 DEF SlotsHoldMessages
  <2>3. QED
    BY <1>1, <2>1, <2>2 DEF SlotsHoldMessages
<1>11. QED
  BY <1>2, <1>7, <1>8, <1>10, LinkStutters DEF Waiting

(* One byte of the memcpy. *)
LEMMA CopyByteLinks ==
  ASSUME LinkInv, Inv', NEW t \in Tasks, CopyByte(t)
  PROVE  LinkInv' /\ UNCHANGED Link!vars
<1> DEFINE i == caller[t].slot
           d == caller[t].done + 1
           c == [caller[t] EXCEPT !.done = d]
           s == [tx_slots[i] EXCEPT !.data[d] = caller[t].msg]
<1>1. /\ caller \in [Tasks -> Call] /\ tx_slots \in [SlotIds -> Slot]
      /\ Inv /\ SlotsHoldMessages /\ TypeOK
  BY DEF LinkInv, Inv, TypeOK
<1>2. /\ caller[t].pc = "copy" /\ caller[t].done < caller[t].length
      /\ tx_slots' = [tx_slots EXCEPT ![i] = s]
      /\ caller' = [caller EXCEPT ![t] = c]
      /\ UNCHANGED <<tx_busy, tx_head, tx_count, hwVars, accepted>>
  BY DEF CopyByte
<1>3. Filling(t) /\ i \in Window /\ i \in SlotIds /\ ~ tx_slots[i].ready
  BY <1>1, <1>2, WindowInSlots DEF Inv, FillersOwnSlots, Filling
<1>4. /\ caller[t] \in Call /\ tx_slots[i] \in Slot
      /\ d \in Lengths /\ caller[t].msg \in Messages
  BY <1>1, <1>2, <1>3, UartTxAssumption DEF Call, Lengths
<1>5. /\ c.pc = "copy" /\ c.slot = i /\ c.msg = caller[t].msg
      /\ c.length = caller[t].length /\ c.done = d
  BY <1>2, <1>4 DEF Call
<1>6. s.ready = FALSE
  BY <1>3, <1>4, SlotData DEF Slot
<1>7. PICK m : IsFor(i, m)
  <2>1. PICK j \in 0 .. tx_count - 1 : i = SlotAt(tx_head, j)
    BY <1>1, <1>3, WindowPlaces
  <2>2. IsFor(i, MessageAt(j))
    BY <1>1, <2>1 DEF SlotsHoldMessages
  <2>3. QED
    BY <2>2
<1>8. /\ caller[t].msg = m
      /\ \A k \in 1 .. caller[t].done : tx_slots[i].data[k] = m
  BY <1>3, <1>7 DEF IsFor
<1>9. \A k \in 1 .. c.done : s.data[k] = c.msg
  <2>1. \A k \in Lengths :
          s.data[k] = IF k = d THEN caller[t].msg ELSE tx_slots[i].data[k]
    BY <1>4 DEF Slot
  <2>2. ASSUME NEW k \in 1 .. d PROVE s.data[k] = caller[t].msg
    <3>1. k \in Lengths /\ (k = d \/ k \in 1 .. caller[t].done)
      BY <1>4, UartTxAssumption DEF Lengths, Call
    <3>2. QED
      BY <1>8, <2>1, <3>1
  <2>3. QED
    BY <1>5, <2>2
<1> HIDE DEF c, s
<1>10. QED
  BY <1>2, <1>3, <1>5, <1>6, <1>9, FillingLinks

(* The store of the length. *)
LEMMA StoreLengthLinks ==
  ASSUME LinkInv, Inv', NEW t \in Tasks, StoreLength(t)
  PROVE  LinkInv' /\ UNCHANGED Link!vars
<1> DEFINE i == caller[t].slot
           c == [caller[t] EXCEPT !.pc = "publish"]
           s == [tx_slots[i] EXCEPT !.length = caller[t].length]
<1>1. /\ caller \in [Tasks -> Call] /\ tx_slots \in [SlotIds -> Slot]
      /\ Inv /\ SlotsHoldMessages /\ TypeOK
  BY DEF LinkInv, Inv, TypeOK
<1>2. /\ caller[t].pc = "copy" /\ caller[t].done = caller[t].length
      /\ tx_slots' = [tx_slots EXCEPT ![i] = s]
      /\ caller' = [caller EXCEPT ![t] = c]
      /\ UNCHANGED <<tx_busy, tx_head, tx_count, hwVars, accepted>>
  BY DEF StoreLength, Goto
<1>3. Filling(t) /\ i \in Window /\ i \in SlotIds /\ ~ tx_slots[i].ready
  BY <1>1, <1>2, WindowInSlots DEF Inv, FillersOwnSlots, Filling
<1>4. caller[t] \in Call /\ tx_slots[i] \in Slot
  BY <1>1, <1>3
<1>5. /\ c.pc = "publish" /\ c.slot = i /\ c.msg = caller[t].msg
      /\ c.length = caller[t].length /\ c.done = caller[t].done
  BY <1>4 DEF Call
<1>6. s.ready = FALSE /\ s.data = tx_slots[i].data
  BY <1>3, <1>4 DEF Slot
<1>7. PICK m : IsFor(i, m)
  <2>1. PICK j \in 0 .. tx_count - 1 : i = SlotAt(tx_head, j)
    BY <1>1, <1>3, WindowPlaces
  <2>2. IsFor(i, MessageAt(j))
    BY <1>1, <2>1 DEF SlotsHoldMessages
  <2>3. QED
    BY <2>2
<1>8. /\ caller[t].msg = m
      /\ \A k \in 1 .. caller[t].done : tx_slots[i].data[k] = m
  BY <1>3, <1>7 DEF IsFor
<1>9. \A k \in 1 .. c.done : s.data[k] = c.msg
  BY <1>5, <1>6, <1>8
<1> HIDE DEF c, s
<1>10. QED
  BY <1>2, <1>3, <1>5, <1>6, <1>9, FillingLinks

(* uart_try_start_dma hands slots over whole, and leaves one that is       *)
(* already handed over alone.                                              *)
LEMMA RestStays ==
  ASSUME NEW i, NEW count, NEW slots, SlotBytes(i)' = SlotBytes(i),
         tx_head' = tx_head, TryStartDma(tx_busy, tx_head, count, slots)
  PROVE  SlotRest(i)' = SlotRest(i)
<1>1. CASE ~ tx_busy /\ count > 0 /\ slots[tx_head].ready
  <2>1. dma'.enabled /\ dma'.moved = 0
    BY <1>1 DEF TryStartDma
  <2>2. SlotRest(i) = SlotBytes(i)
    BY <1>1, WholeSlot
  <2>3. SlotRest(i)' = SlotBytes(i)'
    BY <2>1, WholeSlotNext
  <2>4. QED
    BY <2>2, <2>3
<1>2. CASE ~ (~ tx_busy /\ count > 0 /\ slots[tx_head].ready)
  <2>1. tx_busy' = tx_busy /\ dma' = dma
    BY <1>2 DEF TryStartDma
  <2>2. QED
    BY <2>1 DEF SlotRest
<1>3. QED
  BY <1>1, <1>2

(* A filled slot is published: what it will send is what was to be copied  *)
(* into it.                                                                *)
LEMMA PublishLinks ==
  ASSUME LinkInv, Inv', NEW t \in Tasks, Publish(t)
  PROVE  LinkInv' /\ UNCHANGED Link!vars
<1> DEFINE o == caller[t]
           s == [tx_slots[o.slot] EXCEPT !.ready = TRUE]
<1>1. /\ Inv /\ SlotsHoldMessages /\ TypeOK /\ FillersOwnSlots
      /\ caller \in [Tasks -> Call] /\ tx_slots \in [SlotIds -> Slot]
      /\ Window \subseteq SlotIds
  BY WindowInSlots DEF LinkInv, Inv, TypeOK
<1>2. /\ o.pc = "publish" /\ Filling(t)
      /\ caller' = [caller EXCEPT ![t] = Idle]
      /\ tx_slots' = [tx_slots EXCEPT ![o.slot] = s]
      /\ TryStartDma(tx_busy, tx_head, tx_count, tx_slots')
      /\ UNCHANGED <<tx_head, tx_count, fifo, wire, accepted>>
  BY DEF Publish, MarkReady, Filling
<1>3. /\ o.slot \in Window /\ ~ tx_slots[o.slot].ready
      /\ \A u \in Tasks \ {t} : Filling(u) => caller[u].slot # o.slot
  BY <1>1, <1>2 DEF FillersOwnSlots
<1>4. /\ o \in Call /\ o.length \in Nat
      /\ tx_slots[o.slot] \in Slot /\ tx_slots[o.slot].length = o.length
  <2>1. o \in Call /\ tx_slots[o.slot] \in Slot
    BY <1>1, <1>3
  <2>2. tx_slots[o.slot].length = o.length
    BY <1>1, <1>2 DEF Inv, CallsWellFormed
  <2>3. QED
    BY <2>1, <2>2, UartTxAssumption DEF Call
<1>5. /\ tx_slots'[o.slot] = s
      /\ \A i \in Window \ {o.slot} : tx_slots'[i] = tx_slots[i]
  BY <1>1, <1>2, <1>3
<1>6. s.ready /\ s.length = o.length /\ s.data = tx_slots[o.slot].data
  BY <1>4 DEF Slot
<1>7. /\ ~ Filling(t)' /\ caller'[t].pc # "send"
      /\ \A u \in Tasks \ {t} : caller'[u] = caller[u]
      /\ \A u \in Tasks \ {t} : Filling(u)' <=> Filling(u)
  BY <1>1, <1>2 DEF Filling, Idle
<1>8. PICK m : IsFor(o.slot, m)
  <2>1. PICK j \in 0 .. tx_count - 1 : o.slot = SlotAt(tx_head, j)
    BY <1>1, <1>3, WindowPlaces
  <2>2. IsFor(o.slot, MessageAt(j))
    BY <1>1, <2>1 DEF SlotsHoldMessages
  <2>3. QED
    BY <2>2
<1>9. /\ o.msg = m
      /\ \A k \in 1 .. o.length : tx_slots[o.slot].data[k] = m
  BY <1>2, <1>8 DEF IsFor
<1> HIDE DEF s
<1>10. PICK i0 : i0 = o.slot
  OBVIOUS
<1>11. SlotBytes(i0)' = SlotBytes(i0)
  <2>1. SlotBytes(i0) = {<<m, k>> : k \in 1 .. o.length}
    <3>1. {u \in Tasks : Filling(u) /\ caller[u].slot = i0} = {t}
      BY <1>2, <1>3, <1>10
    <3>2. QED
      BY <1>3, <1>9, <1>10, <3>1 DEF SlotBytes
  <2>2. SlotBytes(i0)' = {<<m, k>> : k \in 1 .. o.length}
    <3>1. /\ tx_slots'[i0].ready /\ tx_slots'[i0].length = o.length
          /\ \A k \in 1 .. o.length : tx_slots'[i0].data[k] = m
      BY <1>5, <1>6, <1>9, <1>10
    <3>2. QED
      BY <3>1 DEF SlotBytes
  <2>3. QED
    BY <2>1, <2>2
<1>12. ASSUME NEW i \in Window PROVE SlotBytes(i)' = SlotBytes(i)
  <2>1. CASE i = i0
    BY <1>11, <2>1
  <2>2. CASE i # i0
    <3>1. tx_slots'[i] = tx_slots[i]
      BY <1>5, <1>10, <2>2
    <3>2. \A u \in Tasks :
            /\ (Filling(u) /\ caller[u].slot = i)' <=>
                 Filling(u) /\ caller[u].slot = i
            /\ Filling(u) /\ caller[u].slot = i =>
                 /\ caller'[u].msg = caller[u].msg
                 /\ caller'[u].length = caller[u].length
      BY <1>7, <1>10, <2>2
    <3>3. QED
      BY <3>1, <3>2, BytesStay
  <2>3. QED
    BY <2>1, <2>2
<1>13. InSlots' = InSlots
  <2>1. \A i \in Window : SlotRest(i)' = SlotRest(i)
    BY <1>2, <1>12, RestStays
  <2>2. Window' = Window
    BY <1>2 DEF Window
  <2>3. QED
    BY <2>1, <2>2 DEF InSlots
<1>14. InCalls' = InCalls
  <2>1. SenderRest(t)' = SenderRest(t)
    BY <1>2, <1>7 DEF SenderRest
  <2>2. QED
    BY <1>7, <2>1, CallsStay
<1>15. ASSUME NEW i \in Window, NEW n, IsFor(i, n) PROVE IsFor(i, n)'
  <2>1. CASE i = i0
    <3>1. n = m
      BY <1>2, <1>9, <1>10, <1>15, <2>1 DEF IsFor
    <3>2. \A u \in Tasks : ~ (Filling(u)' /\ caller'[u].slot = i)
      BY <1>3, <1>7, <1>10, <2>1
    <3>3. QED
      BY <1>5, <1>6, <1>9, <1>10, <2>1, <3>1, <3>2 DEF IsFor
  <2>2. CASE i # i0
    <3>1. tx_slots'[i] = tx_slots[i]
      BY <1>5, <1>10, <2>2
    <3>2. \A u \in Tasks : (Filling(u) /\ caller[u].slot = i)' =>
            Filling(u) /\ caller'[u] = caller[u]
      BY <1>7
    <3>3. QED
      BY <1>15, <3>1, <3>2, IsForStays
  <2>3. QED
    BY <2>1, <2>2
<1>16. SlotsHoldMessages'
  <2>1. ASSUME NEW j \in 0 .. tx_count - 1
        PROVE  IsFor(SlotAt(tx_head, j), MessageAt(j))'
    <3>1. PICK i, n : i = SlotAt(tx_head, j) /\ n = MessageAt(j)
      OBVIOUS
    <3>2. i \in Window
      BY <1>1, <3>1, WindowPlaces
    <3>3. IsFor(i, n)'
      BY <1>1, <1>15, <3>1, <3>2 DEF SlotsHoldMessages
    <3>4. MessageAt(j)' = n
      BY <1>2, <3>1 DEF MessageAt
    <3>5. QED
      BY <1>2, <3>1, <3>3, <3>4 DEF IsFor
  <2>2. \A u \in Tasks : caller'[u].pc = "send" => caller'[u].msg = accepted
    BY <1>1, <1>7 DEF SlotsHoldMessages
  <2>3. QED
    BY <1>1, <1>2, <2>1, <2>2 DEF SlotsHoldMessages
<1>17. QED
  BY <1>2, <1>13, <1>14, <1>16, LinkStutters DEF Waiting

-----------------------------------------------------------------------------
(* The ends of a transfer and of the ring. *)

(* The completion of a transfer: the head slot has nothing left, and the   *)
(* next one is started whole.                                              *)
LEMMA TxCompleteLinks ==
  ASSUME LinkInv, Inv', TxComplete
  PROVE  LinkInv' /\ UNCHANGED Link!vars
<1>1. /\ Inv /\ SlotsHoldMessages /\ TypeOK /\ accepted \in Nat
      /\ tx_head \in SlotIds /\ tx_count \in 1 .. SlotCount
      /\ tx_busy /\ ~ dma.enabled
  <2>1. /\ Inv /\ SlotsHoldMessages /\ TypeOK /\ accepted \in Nat
    BY UartTxAssumption DEF LinkInv, Inv, TypeOK, Messages
  <2>2. tx_busy /\ ~ dma.enabled /\ tx_count > 0
    BY <2>1 DEF Inv, NoLostStart, NoTornRead, TxComplete
  <2>3. QED
    BY <2>1, <2>2, UartTxAssumption DEF TypeOK
<1>2. PICK h, c : h = tx_head /\ c = tx_count
  OBVIOUS
<1>3. /\ tx_head' = NextSlot(h) /\ tx_count' = c - 1
      /\ TryStartDma(FALSE, tx_head', tx_count', tx_slots)
      /\ UNCHANGED <<tx_slots, caller, fifo, wire, accepted>>
  <2>1. tx_count # 0
    BY <1>1
  <2>2. QED
    BY <1>2, <2>1, Zenon DEF TxComplete
<1>4. Window' = Window \ {h} /\ h \in Window
  BY <1>1, <1>2, <1>3, SlotsPop DEF Window
<1>5. \A u \in Tasks : Filling(u)' <=> Filling(u)
  BY <1>3 DEF Filling
<1>6. SlotRest(h) = {}
  BY <1>1, <1>2 DEF SlotRest
<1>7. ASSUME NEW i \in Window \ {h} PROVE SlotRest(i)' = SlotRest(i)
  <2>1. SlotRest(i) = SlotBytes(i)
    BY <1>2, WholeSlot
  <2>2. SlotBytes(i)' = SlotBytes(i)
    BY <1>3, <1>5, BytesStay
  <2>3. tx_busy' => dma'.enabled /\ dma'.moved = 0
    BY <1>3 DEF TryStartDma
  <2>4. SlotRest(i)' = SlotBytes(i)'
    BY <2>3, WholeSlotNext
  <2>5. QED
    BY <2>1, <2>2, <2>4
<1>8. InSlots' = InSlots
  <2>1. ASSUME NEW b PROVE b \in InSlots' <=> b \in InSlots
    <3>1. b \in InSlots' <=> \E i \in Window \ {h} : b \in SlotRest(i)'
      BY <1>4 DEF InSlots
    <3>2. b \in InSlots <=> \E i \in Window \ {h} : b \in SlotRest(i)
      BY <1>4, <1>6 DEF InSlots
    <3>3. QED
      BY <1>7, <3>1, <3>2
  <2>2. InSlots' \subseteq InSlots /\ InSlots \subseteq InSlots'
    BY <2>1
  <2>3. QED
    BY <2>2
<1>9. InCalls' = InCalls
  BY <1>3 DEF InCalls, SenderRest
<1>10. SlotsHoldMessages'
  <2>1. ASSUME NEW j \in 0 .. tx_count' - 1
        PROVE  IsFor(SlotAt(tx_head, j), MessageAt(j))'
    <3>1. j \in Nat /\ j + 1 \in 0 .. tx_count - 1 /\ j \in 0 .. SlotCount - 1
      BY <1>1, <1>2, <1>3, UartTxAssumption
    <3>2. PICK i, n : i = SlotAt(tx_head, j + 1) /\ n = MessageAt(j + 1)
      OBVIOUS
    <3>3. IsFor(i, n)
      BY <1>1, <3>1, <3>2 DEF SlotsHoldMessages
    <3>4. IsFor(i, n)'
      BY <1>3, <1>5, <3>3, IsForStays
    <3>5. SlotAt(tx_head', j) = i
      BY <1>1, <1>2, <1>3, <3>1, <3>2, PlaceFromNext
    <3>6. MessageAt(j)' = n
      BY <1>1, <1>2, <1>3, <3>1, <3>2 DEF MessageAt
    <3>7. QED
      BY <3>4, <3>5, <3>6 DEF IsFor
  <2>2. \A u \in Tasks : caller'[u].pc = "send" => caller'[u].msg = accepted'
    BY <1>1, <1>3 DEF SlotsHoldMessages
  <2>3. tx_count' <= accepted'
    BY <1>1, <1>2, <1>3 DEF SlotsHoldMessages
  <2>4. QED
    BY <2>1, <2>2, <2>3 DEF SlotsHoldMessages
<1>11. QED
  BY <1>3, <1>8, <1>9, <1>10, LinkStutters DEF Waiting

(* A free slot is taken for the next message, and nothing else changes.    *)
LEMMA NewSlotLinks ==
  ASSUME LinkInv, Inv', NEW n \in Lengths, NEW i0, NEW m,
         i0 = tx_tail, m = accepted + 1, MayReserve, accepted < MaxMessages,
         accepted' = m, tx_count' = tx_count + 1,
         UNCHANGED <<tx_head, fifo, wire>>,
         \A i \in SlotIds \ {i0} : tx_slots'[i] = tx_slots[i],
         \A u \in Tasks : Filling(u) => caller'[u] = caller[u],
         \A u \in Tasks : (Filling(u) /\ caller[u].slot # i0)' => Filling(u),
         \A u \in Tasks : caller'[u].pc = "send" => caller[u].pc = "send",
         \A i \in Window \ {i0} :
           SlotBytes(i)' = SlotBytes(i) => SlotRest(i)' = SlotRest(i),
         SlotRest(i0)' = {<<m, k>> : k \in 1 .. n},
         IsFor(i0, m)'
  PROVE  LinkInv' /\ Link!Next
<1>1. /\ Inv /\ SlotsHoldMessages /\ TypeOK /\ accepted \in Nat
      /\ tx_head \in SlotIds /\ tx_count \in 0 .. SlotCount - 1
      /\ i0 = SlotAt(tx_head, tx_count) /\ Window \subseteq SlotIds
  <2>1. /\ Inv /\ SlotsHoldMessages /\ TypeOK /\ accepted \in Nat
    BY UartTxAssumption DEF LinkInv, Inv, TypeOK, Messages
  <2>2. QED
    BY <2>1, UartTxAssumption, WindowInSlots
       DEF Inv, TypeOK, RingConsistent, MayReserve
<1>2. Window' = Window \cup {i0} /\ i0 \notin Window
  BY <1>1, SlotsPush DEF Window
<1>3. \A u \in Tasks : caller[u].pc # "send" /\ caller'[u].pc # "send"
  BY <1>1 DEF Inv, ExclusiveIsAlone, Exclusive, MayReserve
<1>4. InCalls = {} /\ InCalls' = {}
  BY <1>3 DEF InCalls, SenderRest
<1>5. ASSUME NEW i \in Window
      PROVE  /\ tx_slots'[i] = tx_slots[i]
             /\ \A u \in Tasks : (Filling(u) /\ caller[u].slot = i)' =>
                  Filling(u) /\ caller'[u] = caller[u]
             /\ \A u \in Tasks : Filling(u) => Filling(u)'
  <2>1. i \in SlotIds \ {i0}
    BY <1>1, <1>2
  <2>2. \A u \in Tasks : Filling(u) => Filling(u)'
    BY DEF Filling
  <2>3. QED
    BY <2>1, <2>2
<1>6. ASSUME NEW i \in Window PROVE SlotRest(i)' = SlotRest(i)
  <2>1. \A u \in Tasks :
          /\ (Filling(u) /\ caller[u].slot = i)' <=>
               Filling(u) /\ caller[u].slot = i
          /\ Filling(u) /\ caller[u].slot = i =>
               /\ caller'[u].msg = caller[u].msg
               /\ caller'[u].length = caller[u].length
    BY <1>5
  <2>2. SlotBytes(i)' = SlotBytes(i)
    BY <1>5, <2>1, BytesStay
  <2>3. QED
    BY <1>2, <2>2
<1> DEFINE T == {<<m, k>> : k \in 1 .. n}
<1>7. InSlots' = InSlots \cup T
  <2>1. ASSUME NEW b PROVE b \in InSlots' <=> b \in InSlots \/ b \in T
    <3>1. b \in InSlots' <=> \E i \in Window \cup {i0} : b \in SlotRest(i)'
      BY <1>2 DEF InSlots
    <3>2. b \in InSlots <=> \E i \in Window : b \in SlotRest(i)
      BY DEF InSlots
    <3>3. b \in SlotRest(i0)' <=> b \in T
      OBVIOUS
    <3> HIDE DEF T
    <3>4. QED
      BY <1>6, <3>1, <3>2, <3>3
  <2> HIDE DEF T
  <2>2. InSlots' \subseteq InSlots \cup T /\ InSlots \cup T \subseteq InSlots'
    BY <2>1
  <2>3. QED
    BY <2>2
<1>8. SlotsHoldMessages'
  <2>1. ASSUME NEW j \in 0 .. tx_count' - 1
        PROVE  IsFor(SlotAt(tx_head, j), MessageAt(j))'
    <3>1. j \in Nat /\ (j \in 0 .. tx_count - 1 \/ j = tx_count)
      BY <1>1
    <3>2. PICK i, q : i = SlotAt(tx_head, j) /\ q = MessageAt(j)
      OBVIOUS
    <3>3. MessageAt(j)' = q
      BY <1>1, <3>1, <3>2 DEF MessageAt
    <3>4. IsFor(i, q)'
      <4>1. CASE j \in 0 .. tx_count - 1
        <5>1. i \in Window
          BY <1>1, <3>2, <4>1, WindowPlaces
        <5>2. IsFor(i, q)
          BY <1>1, <3>2, <4>1 DEF SlotsHoldMessages
        <5>3. QED
          BY <1>5, <5>1, <5>2, IsForStays
      <4>2. CASE j = tx_count
        <5>1. i = i0 /\ q = m
          BY <1>1, <3>1, <3>2, <4>2 DEF MessageAt
        <5>2. QED
          BY <5>1
      <4>3. QED
        BY <3>1, <4>1, <4>2
    <3>5. QED
      BY <3>2, <3>3, <3>4 DEF IsFor
  <2>2. tx_count' <= accepted'
    BY <1>1 DEF SlotsHoldMessages
  <2>3. QED
    BY <1>3, <2>1, <2>2 DEF SlotsHoldMessages
<1>9. Waiting' = Waiting \cup {<<accepted + 1, k>> : k \in 1 .. n}
  BY <1>4, <1>7 DEF Waiting
<1>10. QED
  BY <1>8, <1>9, LinkAccepts

(* bsp_uart_send_async takes a slot: its message is accepted. *)
LEMMA ReserveLinks ==
  ASSUME LinkInv, Inv', NEW t \in Tasks, NEW n \in Lengths, Reserve(t, n)
  PROVE  LinkInv' /\ Link!Next
<1>1. /\ Inv /\ TypeOK /\ FillersOwnSlots /\ FillersOwnSlots'
      /\ caller \in [Tasks -> Call] /\ tx_slots \in [SlotIds -> Slot]
      /\ tx_tail \in SlotIds /\ tx_head \in SlotIds
      /\ tx_count \in 0 .. SlotCount - 1
  <2>1. /\ Inv /\ TypeOK /\ FillersOwnSlots /\ FillersOwnSlots'
    BY DEF LinkInv, Inv
  <2>2. QED
    BY <2>1, UartTxAssumption DEF TypeOK, Reserve, MayReserve
<1>2. PICK i0, m : i0 = tx_tail /\ m = accepted + 1
  OBVIOUS
<1>3. /\ caller[t].pc = "idle" /\ MayReserve /\ accepted < MaxMessages
      /\ tx_slots' = [tx_slots EXCEPT ![i0].ready = FALSE]
      /\ tx_count' = tx_count + 1 /\ accepted' = m
      /\ caller' = [caller EXCEPT ![t] =
                      [pc |-> "copy", msg |-> m, length |-> n,
                       slot |-> i0, done |-> 0]]
      /\ UNCHANGED <<tx_busy, tx_head, dma, fifo, wire>>
  BY <1>2 DEF Reserve, Claim, hwVars
<1>4. /\ caller'[t] = [pc |-> "copy", msg |-> m, length |-> n,
                       slot |-> i0, done |-> 0]
      /\ \A u \in Tasks \ {t} : caller'[u] = caller[u]
      /\ Filling(t)' /\ ~ Filling(t)
  BY <1>1, <1>3 DEF Filling
<1>5. /\ tx_slots'[i0].ready = FALSE
      /\ \A i \in SlotIds \ {i0} : tx_slots'[i] = tx_slots[i]
  <2>1. tx_slots[i0] \in Slot
    BY <1>1, <1>2
  <2>2. [tx_slots[i0] EXCEPT !.ready = FALSE].ready = FALSE
    BY <2>1 DEF Slot
  <2>3. QED
    BY <1>1, <1>2, <1>3, <2>2
<1>6. /\ \A u \in Tasks \ {t} : Filling(u)' <=> Filling(u)
      /\ \A u \in Tasks : Filling(u)' /\ caller'[u].slot = i0 => u = t
  <2>1. \A u \in Tasks \ {t} : Filling(u)' <=> Filling(u)
    BY <1>4 DEF Filling
  <2>2. ASSUME NEW u \in Tasks, Filling(u)', caller'[u].slot = i0
        PROVE  u = t
    <3>1. caller'[t].slot = i0
      BY <1>4
    <3>2. QED
      BY <1>1, <1>4, <2>2, <3>1 DEF FillersOwnSlots
  <2>3. QED
    BY <2>1, <2>2
<1>7. /\ \A u \in Tasks : Filling(u) => caller'[u] = caller[u]
      /\ \A u \in Tasks : (Filling(u) /\ caller[u].slot # i0)' => Filling(u)
      /\ \A u \in Tasks : caller'[u].pc = "send" => caller[u].pc = "send"
  BY <1>4, <1>6
<1>8. SlotRest(i0)' = {<<m, k>> : k \in 1 .. n}
  <2>1. SlotBytes(i0)' = {<<m, k>> : k \in 1 .. n}
    <3>1. {u \in Tasks : Filling(u)' /\ caller'[u].slot = i0} = {t}
      BY <1>4, <1>6
    <3>2. caller'[t].msg = m /\ caller'[t].length = n
      BY <1>4
    <3>3. QED
      BY <1>5, <3>1, <3>2 DEF SlotBytes
  <2>2. ~ (i0 = tx_head /\ tx_busy)
    <3>1. SUFFICES ASSUME tx_busy PROVE tx_head \in Window /\ i0 \notin Window
      OBVIOUS
    <3>2. tx_count \in 1 .. SlotCount
      BY <1>1, <3>1, UartTxAssumption DEF Inv, NoLostStart
    <3>3. tx_head \in Window
      BY <1>1, <3>2, SlotsPop DEF Window
    <3>4. i0 \notin Window
      BY <1>1, <1>2, SlotsPush DEF Inv, RingConsistent, Window
    <3>5. QED
      BY <3>3, <3>4
  <2>3. QED
    BY <1>3, <2>1, <2>2 DEF SlotRest
<1>9. \A i \in Window \ {i0} :
        SlotBytes(i)' = SlotBytes(i) => SlotRest(i)' = SlotRest(i)
  BY <1>3 DEF SlotRest
<1>10. IsFor(i0, m)'
  <2>1. caller'[t].msg = m /\ caller'[t].done = 0 /\ caller'[t].pc = "copy"
    BY <1>4
  <2>2. QED
    BY <1>5, <1>6, <2>1 DEF IsFor
<1>11. QED
  BY <1>2, <1>3, <1>5, <1>7, <1>8, <1>9, <1>10, NewSlotLinks

(* An interrupt handler's bsp_uart_send_async: accepted and filled in one. *)
LEMMA IsrSendAsyncLinks ==
  ASSUME LinkInv, Inv', NEW n \in Lengths, IsrSendAsync(n)
  PROVE  LinkInv' /\ Link!Next
<1> DEFINE s == [length |-> n, ready |-> TRUE,
                 data |-> [k \in Lengths |->
                             IF k <= n THEN accepted + 1
                             ELSE tx_slots[tx_tail].data[k]]]
<1>1. /\ Inv /\ TypeOK /\ FillersOwnSlots
      /\ tx_slots \in [SlotIds -> Slot]
      /\ tx_tail \in SlotIds /\ tx_head \in SlotIds
      /\ tx_count \in 0 .. SlotCount - 1
  <2>1. Inv /\ TypeOK /\ FillersOwnSlots
    BY DEF LinkInv, Inv
  <2>2. QED
    BY <2>1, UartTxAssumption DEF TypeOK, IsrSendAsync, MayReserve
<1>2. PICK i0, m : i0 = tx_tail /\ m = accepted + 1
  OBVIOUS
<1>3. /\ MayReserve /\ accepted < MaxMessages
      /\ tx_slots' = [tx_slots EXCEPT ![i0] = s]
      /\ tx_count' = tx_count + 1 /\ accepted' = m
      /\ TryStartDma(tx_busy, tx_head, tx_count + 1, tx_slots')
      /\ UNCHANGED <<tx_head, caller, fifo, wire>>
  BY <1>2 DEF IsrSendAsync
<1>4. /\ s.ready /\ s.length = n
      /\ \A k \in 1 .. n : s.data[k] = m
  <2>1. \A k \in 1 .. n : k \in Lengths /\ k <= n
    BY UartTxAssumption DEF Lengths
  <2>2. QED
    BY <1>2, <2>1
<1> HIDE DEF s
<1>5. /\ tx_slots'[i0] = s
      /\ \A i \in SlotIds \ {i0} : tx_slots'[i] = tx_slots[i]
  BY <1>1, <1>2, <1>3
<1>6. i0 \notin Window /\ (tx_busy => tx_head \in Window)
  <2>1. i0 \notin Window
    BY <1>1, <1>2, SlotsPush DEF Inv, RingConsistent, Window
  <2>2. ASSUME tx_busy PROVE tx_head \in Window
    <3>1. tx_count \in 1 .. SlotCount
      BY <1>1, <2>2, UartTxAssumption DEF Inv, NoLostStart
    <3>2. QED
      BY <1>1, <3>1, SlotsPop DEF Window
  <2>3. QED
    BY <2>1, <2>2
<1>7. \A u \in Tasks : /\ caller'[u] = caller[u]
                       /\ Filling(u)' <=> Filling(u)
                       /\ ~ (Filling(u) /\ caller[u].slot = i0)
  BY <1>1, <1>3, <1>6 DEF Filling, FillersOwnSlots
<1>8. SlotRest(i0)' = {<<m, k>> : k \in 1 .. n}
  <2>1. SlotBytes(i0)' = {<<m, k>> : k \in 1 .. n}
    BY <1>4, <1>5 DEF SlotBytes
  <2>2. (i0 = tx_head /\ tx_busy)' => dma'.enabled /\ dma'.moved = 0
    <3>1. CASE ~ tx_busy /\ tx_count + 1 > 0 /\ tx_slots'[tx_head].ready
      <4>1. dma' = [enabled |-> TRUE, src |-> tx_head, moved |-> 0,
                    size |-> tx_slots'[tx_head].length]
        BY <1>3, <3>1 DEF TryStartDma
      <4>2. QED
        BY <4>1
    <3>2. CASE ~ (~ tx_busy /\ tx_count + 1 > 0 /\ tx_slots'[tx_head].ready)
      <4>1. tx_busy' = tx_busy /\ tx_head' = tx_head
        BY <1>3, <3>2 DEF TryStartDma
      <4>2. QED
        BY <1>6, <4>1
    <3>3. QED
      BY <3>1, <3>2
  <2>3. SlotRest(i0)' = SlotBytes(i0)'
    BY <2>2, WholeSlotNext
  <2>4. QED
    BY <2>1, <2>3
<1>9. \A i \in Window \ {i0} :
        SlotBytes(i)' = SlotBytes(i) => SlotRest(i)' = SlotRest(i)
  BY <1>3, RestStays
<1>10. IsFor(i0, m)'
  BY <1>4, <1>5, <1>7 DEF IsFor
<1>11. QED
  BY <1>2, <1>3, <1>5, <1>7, <1>8, <1>9, <1>10, NewSlotLinks

-----------------------------------------------------------------------------
(* Before any message, nothing is unsent. *)
LEMMA LinkAtStart ==
  ASSUME Init
  PROVE  LinkInv /\ Link!Init
<1>1. Inv
  BY InitInv
<1>2. /\ tx_count = 0 /\ accepted = 0 /\ fifo = <<>> /\ wire = <<>>
      /\ \A t \in Tasks : caller[t].pc = "idle"
  BY DEF Init, Idle
<1>3. Waiting = {}
  <2>1. InSlots = {}
    BY <1>1, <1>2, RingIsEmpty
  <2>2. InCalls = {}
    BY <1>2 DEF InCalls, SenderRest
  <2>3. QED
    BY <2>1, <2>2 DEF Waiting
<1>4. Len(fifo) = 0 /\ 1 .. Len(fifo) = {}
  BY <1>2
<1>5. Unsent = {}
  BY <1>3, <1>4 DEF Unsent
<1>6. Lists(<<>>, Unsent)
  BY <1>5 DEF Lists
<1>7. Listed(Unsent) = <<>>
  BY <1>6, ListedIs
<1>8. SlotsHoldMessages /\ FifoGoesFirst
  BY <1>2, <1>4 DEF SlotsHoldMessages, FifoGoesFirst
<1>9. QED
  BY <1>1, <1>2, <1>6, <1>7, <1>8 DEF LinkInv, Link!Init

(* Every step of the driver is a step of TxLink, or none. *)
LEMMA LinkStep ==
  ASSUME LinkInv, [Next]_vars
  PROVE  LinkInv' /\ [Link!Next]_(Link!vars)
<1>1. Inv'
  BY NextInv DEF LinkInv
<1>2. ASSUME NEW t \in Tasks, TaskStep(t)
      PROVE  LinkInv' /\ [Link!Next]_(Link!vars)
  <2>1. ASSUME NEW n \in Lengths, Reserve(t, n) \/ SendLock(t, n)
        PROVE  LinkInv' /\ Link!Next
    BY <1>1, <2>1, ReserveLinks, SendLockLinks
  <2>2. CASE BaudLock(t)
    BY <1>1, <2>2, BaudLinks
  <2>3. CASE CopyByte(t) \/ StoreLength(t) \/ Publish(t) \/ SendByte(t)
    BY <1>1, <2>3, CopyByteLinks, StoreLengthLinks, PublishLinks,
       SendByteLinks
  <2>4. CASE \/ SendUnlock(t) \/ BaudDrained(t) \/ BaudUnlock(t)
             \/ \E b \in Bauds : BaudApply(t, b)
    BY <1>1, <2>4, BaudLinks
  <2>5. QED
    BY <1>2, <2>1, <2>2, <2>3, <2>4 DEF TaskStep, Continue
<1>3. CASE \E d \in BOOLEAN : UartInit(d)
  BY <1>1, <1>3, UartInitLinks
<1>4. CASE \E n \in Lengths : IsrSendAsync(n)
  BY <1>1, <1>4, IsrSendAsyncLinks
<1>5. CASE TxComplete
  BY <1>1, <1>5, TxCompleteLinks
<1>6. CASE DmaMove
  BY <1>1, <1>6, DmaMoveLinks
<1>7. CASE ShiftOut
  BY <1>1, <1>7, ShiftOutLinks
<1>8. CASE UNCHANGED vars
  BY <1>1, <1>8, StutterLinks
<1>9. QED
  BY <1>2, <1>3, <1>4, <1>5, <1>6, <1>7, <1>8 DEF Next

(* The messages that bsp_uart_send and bsp_uart_send_async accept leave    *)
(* the UART whole, once, unmixed and in the order of acceptance, whatever  *)
(* the interleaving: the safety of TxLink.                                 *)
THEOREM LinkIsImplemented == Spec => Link!Init /\ [][Link!Next]_(Link!vars)
<1>1. Init => LinkInv /\ Link!Init
  BY LinkAtStart
<1>2. LinkInv /\ [Next]_vars => LinkInv' /\ [Link!Next]_(Link!vars)
  BY LinkStep
<1>3. QED
  BY <1>1, <1>2, PTL DEF Spec

=============================================================================
