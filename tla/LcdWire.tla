------------------------------ MODULE LcdWire ------------------------------
(***************************************************************************)
(* The bytes bsp/src/lcd.c sends to the display, and the pin that tells it *)
(* whether a byte is a command or data.  The program changes the pin and   *)
(* fills the SPI's FIFO; the SPI shifts the bytes out in its own time; the *)
(* display looks at the pin when a byte's last bit arrives.  Pixels go     *)
(* through lcd_tx_buffer, in chunks: long ones are moved by the DMA, short *)
(* ones by the processor.                                                  *)
(*                                                                         *)
(* A call of the driver is a sequence of steps, taken one by one, with the *)
(* bus locked (module SpiBus).  How fast the program is compared with the  *)
(* SPI is left open.  No name is one of module LcdDraw's, so that a module *)
(* may extend both.                                                        *)
(***************************************************************************)
EXTENDS Naturals, Sequences

CONSTANTS
  Calls,       \* the calls made, each the sequence of its steps
  FifoDepth,   \* entries of the transmit FIFO
  ChunkBytes   \* how many bytes the DMA moves for a long chunk

Kinds == {"command", "data"}
WireSteps == {"dc 0", "dc 1", "idle", "fill", "dma"} \cup Kinds

ASSUME LcdWireAssumption ==
  /\ \A call \in Calls : call \in Seq(WireSteps) /\ call # <<>>
  /\ FifoDepth \in Nat \ {0} /\ ChunkBytes \in Nat \ {0}

VARIABLES
  todo,      \* the steps of the call in progress still to be taken
  dc,        \* the pin: what a byte is said to be
  tx,        \* the transmit FIFO: what each byte is meant to be
  shifting,  \* the byte in the shift register
  dma,       \* bytes the DMA has still to move
  read,      \* the contents of lcd_tx_buffer that the DMA was started for
  buffer,    \* the contents of lcd_tx_buffer, numbered modulo 2
  misread    \* bytes the display took for the other kind

spi      == <<tx, shifting, misread>>
wireVars == <<todo, dc, spi, dma, read, buffer>>

NoByte == "none"

WireInit ==
  /\ todo = <<>> /\ dc = "data"
  /\ tx = <<>> /\ shifting = NoByte /\ misread = {}
  /\ dma = 0 /\ read = 0 /\ buffer = 0

-----------------------------------------------------------------------------
(* The calls. *)

Data(n) == [i \in 1 .. n |-> "data"]

(* lcd_write_command and lcd_write_data. *)
Command   == <<"dc 0", "command">>
WriteData == <<"dc 1", "data">>

(* Mutant: the pin is changed while the command is on its way. *)
CommandDataNoWait(n) == Command \o <<"dc 1">> \o Data(n)

(* lcd_write_command_data. *)
CommandData(n) == Command \o <<"idle", "dc 1">> \o Data(n)

(* lcd_set_address_raw: columns, rows, and the command for the pixels. *)
SetWindow(n) ==
  CommandData(n) \o CommandData(n) \o Command \o <<"idle", "dc 1">>

(* bsp_lcd_write_begin and bsp_lcd_write_rgb565: a long chunk and a rest. *)
Pixels(rest) == <<"dc 1", "fill", "dma", "fill">> \o Data(rest)

-----------------------------------------------------------------------------
(* The program. *)

(* ~DL_SPI_isBusy. *)
Idle == tx = <<>> /\ shifting = NoByte

(* The call before has ended with lcd_deselect, which waits likewise. *)
Begin ==
  /\ todo = <<>> /\ Idle
  /\ todo' \in Calls
  /\ UNCHANGED <<dc, spi, dma, read, buffer>>

(* The next step of the call. *)
Step(step) ==
  /\ todo # <<>> /\ Head(todo) = step
  /\ todo' = Tail(todo)

SetDc(kind, step) ==
  /\ Step(step)
  /\ dc' = kind
  /\ UNCHANGED <<spi, dma, read, buffer>>

(* Mutant: the byte is written without looking for room. *)
WriteByteNoWait(kind) ==
  /\ Step(kind)
  /\ tx' = Append(tx, kind)
  /\ UNCHANGED <<dc, shifting, misread, dma, read, buffer>>

(* lcd_write_byte. *)
WriteByte(kind) ==
  /\ Len(tx) < FifoDepth
  /\ Step(kind)
  /\ tx' = Append(tx, kind)
  /\ UNCHANGED <<dc, shifting, misread, dma, read, buffer>>

(* lcd_wait_idle. *)
WaitIdle ==
  /\ Step("idle") /\ Idle
  /\ UNCHANGED <<dc, spi, dma, read, buffer>>

(* Pixels are put into the buffer, high byte first. *)
FillChunk ==
  /\ Step("fill")
  /\ buffer' = 1 - buffer
  /\ UNCHANGED <<dc, spi, dma, read>>

(* lcd_write_bytes_dma starts the DMA ... *)
StartDma ==
  /\ todo # <<>> /\ Head(todo) = "dma" /\ dma = 0
  /\ dma' = ChunkBytes /\ read' = buffer
  /\ todo' = <<"dma end">> \o Tail(todo)
  /\ UNCHANGED <<dc, spi, buffer>>

(* Mutant: the call goes on while the DMA reads. *)
EndDmaAtOnce ==
  /\ Step("dma end")
  /\ UNCHANGED <<dc, spi, dma, read, buffer>>

(* Mutant: the length is not reduced by what was sent. *)
EndDmaRepeat ==
  /\ todo # <<>> /\ Head(todo) = "dma end" /\ dma = 0 /\ Idle
  /\ todo' = <<"dma">> \o Tail(todo)
  /\ UNCHANGED <<dc, spi, dma, read, buffer>>

(* ... and waits until the channel is disabled and the SPI idle. *)
EndDma ==
  /\ Step("dma end") /\ dma = 0 /\ Idle
  /\ UNCHANGED <<dc, spi, dma, read, buffer>>

-----------------------------------------------------------------------------
(* The hardware. *)

DmaMove ==
  /\ dma > 0 /\ Len(tx) < FifoDepth
  /\ dma' = dma - 1
  /\ tx' = Append(tx, "data")
  /\ UNCHANGED <<todo, dc, shifting, misread, read, buffer>>

Load ==
  /\ shifting = NoByte /\ tx # <<>>
  /\ shifting' = Head(tx) /\ tx' = Tail(tx)
  /\ UNCHANGED <<todo, dc, misread, dma, read, buffer>>

(* The last bit is out, and the display looks at the pin. *)
Shift ==
  /\ shifting # NoByte
  /\ misread' = misread \cup ({shifting} \ {dc})
  /\ shifting' = NoByte
  /\ UNCHANGED <<todo, dc, tx, dma, read, buffer>>

-----------------------------------------------------------------------------

Program ==
  \/ Begin
  \/ SetDc("command", "dc 0") \/ SetDc("data", "dc 1")
  \/ \E kind \in Kinds : WriteByte(kind)
  \/ WaitIdle \/ FillChunk \/ StartDma \/ EndDma

Hardware == DmaMove \/ Load \/ Shift

WireNext == Program \/ Hardware

(* The task with the bus goes on, and so do the DMA and the SPI. *)
WireSpec ==
  /\ WireInit /\ [][WireNext]_wireVars
  /\ WF_wireVars(Program) /\ WF_wireVars(DmaMove)
  /\ WF_wireVars(Load) /\ WF_wireVars(Shift)

-----------------------------------------------------------------------------
(* Properties. *)

(* Every variable has its type; the FIFO is never written while full. *)
WireTypeOK ==
  /\ \A i \in 1 .. Len(todo) : todo[i] \in WireSteps \cup {"dma end"}
  /\ dc \in Kinds /\ misread \subseteq Kinds
  /\ Len(tx) <= FifoDepth /\ \A i \in 1 .. Len(tx) : tx[i] \in Kinds
  /\ shifting \in Kinds \cup {NoByte}
  /\ dma \in 0 .. ChunkBytes /\ {read, buffer} \subseteq {0, 1}

(* The display takes commands for commands and data for data, although the *)
(* pin overtakes the bytes in the FIFO (lcd.c:207-241, lcd.c:314-329).     *)
DisplayUnderstands == misread = {}

(* lcd_tx_buffer is not filled again before the DMA has read it            *)
(* (lcd.c:428-451, lcd.c:163-205).                                         *)
DmaReadsItsChunk == dma > 0 => read = buffer

(* Every call ends: what one party waits for another one does.             *)
CallsEnd == []<>(todo = <<>>)

=============================================================================
