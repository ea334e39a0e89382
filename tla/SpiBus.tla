------------------------------- MODULE SpiBus -------------------------------
(***************************************************************************)
(* One bus of bsp/src/spi.c and the tasks that share it: the recursive     *)
(* mutex created at the first use, the nested selections counted by        *)
(* select_depth, the chip selects, and the SPI's two FIFOs.                *)
(*                                                                         *)
(* Tasks are preempted between any two steps.  Before the scheduler runs   *)
(* there is only the boot context, and the code takes no lock.             *)
(*                                                                         *)
(* The clients follow the interface: what was opened last is closed first, *)
(* and while a device is selected its task selects no other one.  One kind *)
(* of driver streams bytes and ignores the answers (the LCD), the other    *)
(* exchanges them one by one and uses the answers (the flash).             *)
(***************************************************************************)
EXTENDS Naturals, Sequences, FiniteSets

CONSTANTS
  Tasks,      \* the contexts that use the bus, Boot among them
  Boot,       \* main, before vTaskStartScheduler
  Devices,    \* the devices on the bus
  Streaming,  \* those whose driver streams
  None,       \* no task, no device
  FifoDepth,  \* entries of each FIFO of the SPI
  MaxNest     \* bound: locks and selections one task holds at a time

ASSUME SpiBusAssumption ==
  /\ Boot \in Tasks /\ Streaming \subseteq Devices
  /\ None \notin Tasks \cup Devices
  /\ FifoDepth \in Nat \ {0} /\ MaxNest \in Nat

VARIABLES
  running,      \* the scheduler runs
  created,      \* bus->mutex is not NULL
  owner,        \* external: the task that holds the mutex
  count,        \* external: how many times it does
  selected,     \* bus->selected
  select_depth, \* bus->select_depth
  low,          \* hardware: the devices whose chip select is asserted
  tx,           \* hardware: bytes to shift out, each with task and device
  rx,           \* hardware: answers not read, each with its byte's task
  pc,           \* where each task is inside the API
  target,       \* the device of that call; None: bsp_spi_lock or _unlock
  open          \* what each task has open: devices, and None for a lock

busVars == <<created, owner, count>>
selVars == <<selected, select_depth, low>>
hwVars  == <<tx, rx>>
vars    == <<running, busVars, selVars, hwVars, pc, target, open>>

Init ==
  /\ running = FALSE
  /\ created = FALSE /\ owner = None /\ count = 0
  /\ selected = None /\ select_depth = 0 /\ low = {}
  /\ tx = <<>> /\ rx = <<>>
  /\ pc = [t \in Tasks |-> "idle"]
  /\ target = [t \in Tasks |-> None]
  /\ open = [t \in Tasks |-> <<>>]

-----------------------------------------------------------------------------
(* Helpers. *)

Runs(t) == running <=> (t # Boot)
At(t, step) == Runs(t) /\ pc[t] = step
Goto(t, step) == pc' = [pc EXCEPT ![t] = step]

(* The device t has selected; None if it has none. *)
Current(t) ==
  IF \E i \in DOMAIN open[t] : open[t][i] # None THEN selected ELSE None

(* What t opened last. *)
Top(t) == open[t][Len(open[t])]

Byte(t, d) == [task |-> t, dev |-> d]

-----------------------------------------------------------------------------
(* The scheduler starts once main has finished with the bus. *)
StartScheduler ==
  /\ ~running /\ running' = TRUE
  /\ pc[Boot] = "idle" /\ open[Boot] = <<>>
  /\ UNCHANGED <<busVars, selVars, hwVars, pc, target, open>>

(* bsp_spi_lock (d = None) or bsp_spi_device_select is called. *)
Call(t, d) ==
  /\ At(t, "idle") /\ Len(open[t]) < MaxNest
  /\ d # None => Current(t) \in {None, d}
  /\ target' = [target EXCEPT ![t] = d]
  /\ Goto(t, IF running THEN "mutex"
             ELSE IF d = None THEN "opened" ELSE "select")
  /\ UNCHANGED <<running, busVars, selVars, hwVars, open>>

(* Mutant: the mutex is created without looking whether it exists. *)
MutexGetAnew(t) ==
  /\ At(t, "mutex")
  /\ created' = TRUE /\ owner' = None /\ count' = 0
  /\ Goto(t, "take")
  /\ UNCHANGED <<running, selVars, hwVars, target, open>>

(* spi_bus_mutex_get, one critical section. *)
MutexGet(t) ==
  /\ At(t, "mutex")
  /\ created' = TRUE
  /\ IF created THEN UNCHANGED <<owner, count>>
     ELSE owner' = None /\ count' = 0
  /\ Goto(t, "take")
  /\ UNCHANGED <<running, selVars, hwVars, target, open>>

(* xSemaphoreTakeRecursive returns. *)
Take(t) ==
  /\ At(t, "take") /\ owner \in {None, t}
  /\ owner' = t /\ count' = count + 1
  /\ Goto(t, IF target[t] = None THEN "opened" ELSE "select")
  /\ UNCHANGED <<running, created, selVars, hwVars, target, open>>

(* Mutant: the receive FIFO is left as it is. *)
SelectCheckNoFlush(t) ==
  /\ At(t, "select")
  /\ IF select_depth = 0
     THEN selected' = target[t] /\ Goto(t, "assert_cs")
     ELSE Goto(t, "depth") /\ UNCHANGED selected
  /\ UNCHANGED <<running, busVars, select_depth, low, hwVars, target, open>>

(* bsp_spi_device_select: the first selection flushes the receive FIFO ... *)
SelectCheck(t) ==
  /\ At(t, "select")
  /\ IF select_depth = 0
     THEN selected' = target[t] /\ rx' = <<>> /\ Goto(t, "assert_cs")
     ELSE Goto(t, "depth") /\ UNCHANGED <<selected, rx>>
  /\ UNCHANGED <<running, busVars, select_depth, low, tx, target, open>>

(* ... and asserts the chip select; ... *)
AssertCs(t) ==
  /\ At(t, "assert_cs")
  /\ low' = low \cup {target[t]}
  /\ Goto(t, "depth")
  /\ UNCHANGED <<running, busVars, selected, select_depth, hwVars, target,
                 open>>

(* Mutant: only the first selection is counted. *)
SelectDepthOnce(t) ==
  /\ At(t, "depth")
  /\ select_depth' = 1
  /\ Goto(t, "opened")
  /\ UNCHANGED <<running, busVars, selected, low, hwVars, target, open>>

(* ... every selection is counted. *)
SelectDepth(t) ==
  /\ At(t, "depth")
  /\ select_depth' = select_depth + 1
  /\ Goto(t, "opened")
  /\ UNCHANGED <<running, busVars, selected, low, hwVars, target, open>>

(* bsp_spi_lock or bsp_spi_device_select returns. *)
Opened(t) ==
  /\ At(t, "opened")
  /\ open' = [open EXCEPT ![t] = Append(@, target[t])]
  /\ Goto(t, "idle")
  /\ UNCHANGED <<running, busVars, selVars, hwVars, target>>

(* bsp_spi_unlock is called. *)
Unlock(t) ==
  /\ At(t, "idle") /\ open[t] # <<>> /\ Top(t) = None
  /\ target' = [target EXCEPT ![t] = None]
  /\ Goto(t, "give")
  /\ UNCHANGED <<running, busVars, selVars, hwVars, open>>

(* Mutant: the chip select is released by every deselection. *)
DeselectAll(t) ==
  /\ At(t, "idle") /\ open[t] # <<>> /\ Top(t) # None
  /\ target' = [target EXCEPT ![t] = Top(t)]
  /\ select_depth' = select_depth - 1
  /\ Goto(t, "release_cs")
  /\ UNCHANGED <<running, busVars, selected, low, hwVars, open>>

(* bsp_spi_device_deselect is called: one selection less. *)
Deselect(t) ==
  /\ At(t, "idle") /\ open[t] # <<>> /\ Top(t) # None
  /\ target' = [target EXCEPT ![t] = Top(t)]
  /\ select_depth' = select_depth - 1
  /\ Goto(t, IF select_depth = 1 THEN "release_cs" ELSE "give")
  /\ UNCHANGED <<running, busVars, selected, low, hwVars, open>>

(* Mutant: the last byte may still be on its way. *)
ReleaseCsBusy(t) ==
  /\ At(t, "release_cs")
  /\ rx' = <<>>
  /\ low' = low \ {target[t]}
  /\ selected' = None
  /\ Goto(t, "give")
  /\ UNCHANGED <<running, busVars, select_depth, tx, target, open>>

(* The last one waits until the SPI is idle, flushes the receive FIFO and  *)
(* releases the chip select; then nothing is selected.                     *)
ReleaseCs(t) ==
  /\ At(t, "release_cs") /\ tx = <<>>
  /\ rx' = <<>>
  /\ low' = low \ {target[t]}
  /\ selected' = None
  /\ Goto(t, "give")
  /\ UNCHANGED <<running, busVars, select_depth, tx, target, open>>

(* spi_bus_unlock_if_running, and the call returns. *)
Give(t) ==
  /\ At(t, "give")
  /\ IF running
     THEN /\ count' = count - 1
          /\ owner' = IF count = 1 THEN None ELSE owner
     ELSE UNCHANGED <<owner, count>>
  /\ open' = [open EXCEPT ![t] = SubSeq(@, 1, Len(@) - 1)]
  /\ Goto(t, "idle")
  /\ UNCHANGED <<running, created, selVars, hwVars, target>>

(* A streaming driver puts a byte into the transmit FIFO and goes on; it   *)
(* flushes the receive FIFO when that is full.                             *)
Stream(t) ==
  /\ At(t, "idle") /\ Current(t) \in Streaming
  /\ Len(tx) < FifoDepth
  /\ tx' = Append(tx, Byte(t, selected))
  /\ rx' = IF Len(rx) = FifoDepth THEN <<>> ELSE rx
  /\ UNCHANGED <<running, busVars, selVars, pc, target, open>>

(* bsp_spi_transmit or bsp_spi_transfer puts a byte into the FIFO ...  The *)
(* former is also used with no device selected.                            *)
Transmit(t, answer) ==
  /\ At(t, "idle") /\ open[t] # <<>>
  /\ IF answer THEN Current(t) \in Devices \ Streaming
     ELSE Current(t) \in Streaming \cup {None}
  /\ Len(tx) < FifoDepth
  /\ tx' = Append(tx, Byte(t, Current(t)))
  /\ Goto(t, IF answer THEN "answer" ELSE "sent")
  /\ UNCHANGED <<running, busVars, selVars, rx, target, open>>

(* ... and waits until the SPI is idle.  bsp_spi_transmit only sees to it  *)
(* that the answers do not overrun ...                                     *)
Sent(t) ==
  /\ At(t, "sent") /\ tx = <<>>
  /\ rx' = IF Len(rx) = FifoDepth THEN <<>> ELSE rx
  /\ Goto(t, "idle")
  /\ UNCHANGED <<running, busVars, selVars, tx, target, open>>

(* ... and bsp_spi_transfer returns the oldest one. *)
Answer(t) ==
  /\ At(t, "answer") /\ tx = <<>>
  /\ rx' = IF rx = <<>> THEN rx ELSE Tail(rx)
  /\ Goto(t, "idle")
  /\ UNCHANGED <<running, busVars, selVars, tx, target, open>>

(* The SPI shifts a byte out, and the answer in if there is room for it. *)
Shift ==
  /\ tx # <<>>
  /\ tx' = Tail(tx)
  /\ rx' = IF Len(rx) < FifoDepth THEN Append(rx, Head(tx).task) ELSE rx
  /\ UNCHANGED <<running, busVars, selVars, pc, target, open>>

-----------------------------------------------------------------------------

TaskStep(t) ==
  \/ \E d \in Devices \cup {None} : Call(t, d)
  \/ MutexGet(t) \/ Take(t)
  \/ SelectCheck(t) \/ AssertCs(t) \/ SelectDepth(t) \/ Opened(t)
  \/ Unlock(t) \/ Deselect(t) \/ ReleaseCs(t) \/ Give(t)
  \/ Stream(t) \/ (\E answer \in BOOLEAN : Transmit(t, answer))
  \/ Sent(t) \/ Answer(t)

Next == StartScheduler \/ Shift \/ \E t \in Tasks : TaskStep(t)

Spec == Init /\ [][Next]_vars

-----------------------------------------------------------------------------
(* Properties. *)

Steps == {"idle", "mutex", "take", "select", "assert_cs", "depth", "opened",
          "release_cs", "give", "sent", "answer"}

(* Every variable has its type: no count goes below zero, whatever closes. *)
TypeOK ==
  /\ running \in BOOLEAN /\ created \in BOOLEAN
  /\ owner \in Tasks \cup {None} /\ count \in Nat
  /\ selected \in Devices \cup {None} /\ select_depth \in Nat
  /\ low \subseteq Devices
  /\ tx \in Seq([task : Tasks, dev : Devices \cup {None}])
  /\ rx \in Seq(Tasks) /\ Len(rx) <= FifoDepth
  /\ pc \in [Tasks -> Steps]
  /\ target \in [Tasks -> Devices \cup {None}]
  /\ open \in [Tasks -> Seq(Devices \cup {None})]

(* How many times t holds the bus, opening and closing calls included, and *)
(* how many of these are selections counted in select_depth.               *)
Opening(t) == pc[t] \in {"select", "assert_cs", "depth", "opened"}
Closing(t) == pc[t] \in {"release_cs", "give"}
Holds(t)   == Len(open[t]) + (IF Opening(t) THEN 1 ELSE 0)

Marks(s) == {i \in DOMAIN s : s[i] # None}

Selections(t) ==
  LET n == Cardinality(Marks(open[t]))
  IN  IF target[t] = None THEN n
      ELSE IF pc[t] = "opened" THEN n + 1
      ELSE IF Closing(t) THEN n - 1 ELSE n

(* Whoever is between the opening and the closing of a lock or selection   *)
(* has the bus for itself: it alone, and it owns the mutex as many times   *)
(* as it opened.  Locks that the nesting lost or gave twice would show.    *)
BusIsExclusive ==
  /\ \A t, u \in Tasks : Holds(t) > 0 /\ Holds(u) > 0 => t = u
  /\ \A t \in Tasks \ {Boot} : Holds(t) > 0 => owner = t /\ count = Holds(t)
  /\ (\A t \in Tasks \ {Boot} : Holds(t) = 0) => owner = None /\ count = 0

(* The depth counts the selections of the task that has the bus, and the   *)
(* chip select is low exactly from the first selection to the last         *)
(* deselection: the assertions of bsp_spi_device_select and _deselect.     *)
SelectionsBalance ==
  /\ \A t \in Tasks : Holds(t) > 0 => select_depth = Selections(t)
  /\ (\A t \in Tasks : Holds(t) = 0) =>
       select_depth = 0 /\ selected = None /\ low = {}
  /\ \A t \in Tasks :
       /\ pc[t] = "select" => selected \in {None, target[t]}
       /\ pc[t] = "release_cs" => selected = target[t] /\ low = {selected}
       /\ pc[t] = "idle" /\ select_depth > 0 /\ Holds(t) > 0 =>
            selected # None /\ low = {selected}

(* A byte is shifted out while its device, and no other one, is selected,  *)
(* and before anybody else gets the bus.                                   *)
BytesReachTheirDevice ==
  \A i \in DOMAIN tx :
    /\ low = {tx[i].dev} \ {None}
    /\ Holds(tx[i].task) > 0

(* bsp_spi_transfer returns the answer to its own byte: neither an answer  *)
(* ignored by a driver that had the bus before, nor one of its own.        *)
AnswersAreOwn ==
  \A t \in Tasks : pc[t] = "answer" /\ tx = <<>> => rx = <<t>>

=============================================================================
