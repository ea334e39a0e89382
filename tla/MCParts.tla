------------------------------ MODULE MCParts -------------------------------
(***************************************************************************)
(* Instances for TLC of five parts that share no state with one another:   *)
(* the application with its key log, the text renderer, the byte queue,    *)
(* the kernel's heap and the critical sections.  They are checked side by  *)
(* side in one run; a behaviour is one of the part it starts with, and the *)
(* others rest.                                                            *)
(***************************************************************************)
EXTENDS Integers, Sequences

CONSTANTS
  Parts,
  Word, Debounce, SleepTime, ResetTime, RetryTime, MaxReads, MaxPresses,
  Width, Height, MaxWidth, CellWidth, CellHeight, BufferSize, CursorWord,
  MaxText, Near, Scales,
  Bytes, Unset, QueueSizes, MaxMessage,
  ucHeap, configTOTAL_HEAP_SIZE, portBYTE_ALIGNMENT, xHeapStructSize, SizeT,
  HeapSizes, Nums,
  Tasks, Isr, InitialNesting, MaxNest

VARIABLES
  part,
  tick, since, key, edge, enabled, masked, lst_key_ts, key_log_pending,
  key_log_ts, pc, delay, cnt, log_key, key_ts, reads, accepted, log,
  text, x, y, scale, cursor, next, cells,
  buf, size, left, right, answer,
  pxEnd, free, taken, freeing, xFreeBytesRemaining,
  xMinimumEverFreeBytesRemaining, refused,
  primask, ulCriticalNesting, xSchedulerRunning, uxSchedulerSuspended,
  current, in_isr, open

keyVars == <<tick, since, key, edge, enabled, masked, lst_key_ts,
             key_log_pending, key_log_ts, pc, delay, cnt, log_key, key_ts,
             reads, accepted, log>>
textVars == <<text, x, y, scale, cursor, next, cells>>
queueVars == <<buf, size, left, right, answer>>
heapVars == <<pxEnd, free, taken, freeing, xFreeBytesRemaining,
              xMinimumEverFreeBytesRemaining, refused>>
sectionVars == <<primask, ulCriticalNesting, xSchedulerRunning,
                 uxSchedulerSuspended, current, in_isr, open>>

(* Every text up to a length; starts on the display and off its right and  *)
(* lower edges; every message up to a length.                              *)
AllTexts == UNION {[1 .. n -> {"char", "newline"}] : n \in 0 .. MaxText}
NearStarts == [x : 0 .. Near, y : 0 .. Near]
ShortMessages == UNION {[1 .. n -> Bytes] : n \in 0 .. MaxMessage}

Key   == INSTANCE KeyLog
Text  == INSTANCE LcdText WITH
           Word <- CursorWord, Texts <- AllTexts, Starts <- NearStarts
Queue == INSTANCE RingQueue WITH Sizes <- QueueSizes, Messages <- ShortMessages
Heap  == INSTANCE Heap4 WITH Sizes <- HeapSizes
Critical == INSTANCE CriticalSection

ASSUME PartsAssumption ==
  /\ Parts \subseteq {"key", "text", "queue", "heap", "sections"}
  /\ Key!KeyLogConstants /\ Text!LcdTextConstants
  /\ Queue!RingQueueConstants /\ Heap!Heap4Constants
  /\ Critical!CriticalSectionConstants

(* What a part that is not looked at begins with is no choice. *)
Init ==
  /\ part \in Parts
  /\ Key!Init /\ (part # "key" => key = "up")
  /\ Text!Init
  /\ part # "text" => text = <<>> /\ x = 0 /\ y = 0 /\ scale = 0
  /\ Queue!Init /\ Heap!Init /\ Critical!Init
  /\ part # "sections" => current = CHOOSE t \in Tasks : TRUE

Next ==
  \/ /\ part = "key" /\ Key!Next
     /\ UNCHANGED <<part, textVars, queueVars, heapVars, sectionVars>>
  \/ /\ part = "text" /\ Text!Next
     /\ UNCHANGED <<part, keyVars, queueVars, heapVars, sectionVars>>
  \/ /\ part = "queue" /\ Queue!Next
     /\ UNCHANGED <<part, keyVars, textVars, heapVars, sectionVars>>
  \/ /\ part = "heap" /\ Heap!Next
     /\ UNCHANGED <<part, keyVars, textVars, queueVars, sectionVars>>
  \/ /\ part = "sections" /\ Critical!Next
     /\ UNCHANGED <<part, keyVars, textVars, queueVars, heapVars>>

Spec ==
  /\ Init
  /\ [][Next]_<<part, keyVars, textVars, queueVars, heapVars, sectionVars>>
  /\ WF_keyVars(part = "key" /\ Key!Tick)
  /\ WF_keyVars(part = "key" /\ Key!Entrance)
  /\ WF_textVars(part = "text" /\ Text!Next)

-----------------------------------------------------------------------------
(* Properties: those of the modules.  They also hold of a part at rest.    *)

(* The heap is one: nothing is given out twice or lost, free neighbours    *)
(* are joined, and a request is refused only for want of room.             *)
HeapIsSound == Heap!IsSound

(* A critical section is atomic, whichever of its two mechanisms it uses,  *)
(* and ends as it began.                                                   *)
SectionsAreAtomic ==
  /\ [](/\ Critical!TypeOK /\ Critical!SectionsExclude
        /\ Critical!InterruptsComeBack)
  /\ Critical!ExitUndoesEnter

(* The byte queue is a bounded FIFO. *)
QueueIsFifo == Queue!ImplementsFifo

(* Every text is laid out alike, whichever way it is drawn, and the call   *)
(* returns.                                                                *)
TextIsDrawn ==
  /\ [](/\ Text!TypeOK /\ Text!RowFitsBuffer
        /\ Text!CellsInOrder /\ Text!DrawsLayout)
  /\ Text!PrintReturns

(* Presses of the key are told apart, and logged. *)
KeyIsLogged ==
  /\ [](/\ Key!TypeOK /\ Key!HaltsAfterAllReads
        /\ Key!LogFollowsPresses /\ Key!NewestIsKept)
  /\ Key!PressesAreApart /\ Key!PressesAreAccepted
  /\ Key!PressIsLogged

=============================================================================
