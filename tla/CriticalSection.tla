-------------------------- MODULE CriticalSection --------------------------
(***************************************************************************)
(* The critical sections of bsp/sys.h, which every other part takes for    *)
(* atomic.  Entering picks one of two mechanisms, the processor's mask or  *)
(* the kernel's nesting count, by who asks and whether the scheduler runs; *)
(* leaving picks again.  Tasks, a handler, and kernel calls that use the   *)
(* nesting count themselves, before and after the scheduler's start.       *)
(*                                                                         *)
(* Handlers do not nest.  Nobody calls the kernel from within a section,   *)
(* which FreeRTOS forbids; a task may suspend the scheduler around one.    *)
(***************************************************************************)
EXTENDS Naturals, Sequences, SequencesExt

CONSTANTS
  Tasks, Isr,      \* who runs: a task (one of them stands for main) or Isr
  InitialNesting,  \* ulCriticalNesting before the start, 0xaaaaaaaa
  MaxNest          \* bound: sections and suspensions open at once

CriticalSectionConstants ==
  /\ Tasks # {} /\ Isr \notin Tasks
  /\ MaxNest \in Nat /\ InitialNesting \in Nat /\ InitialNesting > MaxNest

VARIABLES
  primask,               \* interrupts are masked
  ulCriticalNesting, xSchedulerRunning, uxSchedulerSuspended,
  current, in_isr,
  open                   \* per context, what it has to close, last in first
                         \* out; masked: primask when it was opened

vars == <<primask, ulCriticalNesting, xSchedulerRunning,
          uxSchedulerSuspended, current, in_isr, open>>

Init ==
  /\ primask = FALSE /\ ulCriticalNesting = InitialNesting
  /\ xSchedulerRunning = FALSE /\ uxSchedulerSuspended = 0
  /\ current \in Tasks /\ in_isr = FALSE
  /\ open = [c \in Tasks \cup {Isr} |-> <<>>]

-----------------------------------------------------------------------------

Runner == IF in_isr THEN Isr ELSE current

Has(c, kind) == \E i \in DOMAIN open[c] : open[c][i].kind = kind

Opens(kind, state) ==
  /\ Len(open[Runner]) < MaxNest
  /\ open' = [open EXCEPT ![Runner] =
       Append(@, [kind |-> kind, state |-> state, masked |-> primask])]

Closes(kind) ==
  /\ open[Runner] # <<>> /\ Last(open[Runner]).kind = kind
  /\ open' = [open EXCEPT ![Runner] = Front(@)]

(* Mutant: only handlers are thought of. *)
ByMaskInIsr == in_isr

(* The kernel's count is only good in a task while the scheduler runs.     *)
ByMask ==
  in_isr \/ ~ (xSchedulerRunning /\ uxSchedulerSuspended = 0)

bsp_sys_enter_critical ==
  /\ primask' = TRUE
  /\ ulCriticalNesting' = ulCriticalNesting + (IF ByMask THEN 0 ELSE 1)
  /\ Opens("section", ByMask /\ primask)
  /\ UNCHANGED <<xSchedulerRunning, uxSchedulerSuspended, current, in_isr>>

bsp_sys_exit_critical ==
  /\ Closes("section")
  /\ IF ByMask
     THEN primask' = Last(open[Runner]).state /\ UNCHANGED ulCriticalNesting
     ELSE /\ ulCriticalNesting' = ulCriticalNesting - 1
          /\ primask' = (primask /\ ulCriticalNesting # 1)
  /\ UNCHANGED <<xSchedulerRunning, uxSchedulerSuspended, current, in_isr>>

-----------------------------------------------------------------------------
(* The kernel and the processor. *)

(* taskENTER_CRITICAL up to taskEXIT_CRITICAL within a call: interrupts    *)
(* are on after it unless the count was not zero before.                   *)
CountedInCall ==
  /\ ~ in_isr /\ ~ Has(current, "section")
  /\ primask' = (ulCriticalNesting # 0)
  /\ UNCHANGED <<ulCriticalNesting, xSchedulerRunning, current, in_isr>>

KernelCall == CountedInCall /\ UNCHANGED <<uxSchedulerSuspended, open>>

vTaskSuspendAll ==
  /\ ~ in_isr /\ ~ Has(current, "section")
  /\ uxSchedulerSuspended' = uxSchedulerSuspended + 1
  /\ Opens("suspension", FALSE)
  /\ UNCHANGED <<primask, ulCriticalNesting, xSchedulerRunning, current,
                 in_isr>>

xTaskResumeAll ==
  /\ CountedInCall /\ Closes("suspension")
  /\ uxSchedulerSuspended' = uxSchedulerSuspended - 1

(* vTaskStartScheduler up to the first task. *)
StartScheduler ==
  /\ ~ xSchedulerRunning /\ ~ in_isr /\ open[current] = <<>>
  /\ xSchedulerRunning' = TRUE /\ ulCriticalNesting' = 0
  /\ primask' = FALSE /\ current' \in Tasks
  /\ UNCHANGED <<uxSchedulerSuspended, in_isr, open>>

Switch ==
  /\ xSchedulerRunning /\ uxSchedulerSuspended = 0
  /\ ~ primask /\ ~ in_isr
  /\ current' \in Tasks \ {current}
  /\ UNCHANGED <<primask, ulCriticalNesting, xSchedulerRunning,
                 uxSchedulerSuspended, in_isr, open>>

Interrupt ==
  /\ ~ primask /\ ~ in_isr /\ in_isr' = TRUE
  /\ UNCHANGED <<primask, ulCriticalNesting, xSchedulerRunning,
                 uxSchedulerSuspended, current, open>>

InterruptEnd ==
  /\ in_isr /\ open[Isr] = <<>> /\ in_isr' = FALSE
  /\ UNCHANGED <<primask, ulCriticalNesting, xSchedulerRunning,
                 uxSchedulerSuspended, current, open>>

Next ==
  \/ bsp_sys_enter_critical \/ bsp_sys_exit_critical
  \/ KernelCall \/ vTaskSuspendAll \/ xTaskResumeAll
  \/ StartScheduler \/ Switch \/ Interrupt \/ InterruptEnd

Spec == Init /\ [][Next]_vars

-----------------------------------------------------------------------------

(* Every variable keeps its type. *)
TypeOK ==
  /\ {primask, xSchedulerRunning, in_isr} \subseteq BOOLEAN
  /\ ulCriticalNesting \in 0 .. InitialNesting
  /\ uxSchedulerSuspended \in 0 .. MaxNest /\ current \in Tasks
  /\ open \in [Tasks \cup {Isr} ->
                 Seq([kind : {"section", "suspension"}, state : BOOLEAN,
                      masked : BOOLEAN])]

(* While anybody has a section open nobody else runs, no handler and no    *)
(* other task: this is what the other modules take a section to be.        *)
SectionsExclude ==
  \A c \in DOMAIN open : Has(c, "section") => primask /\ c = Runner

(* Once the scheduler runs, interrupts are off in sections only: no mix of *)
(* the two mechanisms leaves them off for good.                            *)
InterruptsComeBack ==
  xSchedulerRunning /\ primask => \E c \in DOMAIN open : Has(c, "section")

(* Leaving a section puts the mask back to what it was at its beginning,   *)
(* before the scheduler's start too, when kernel calls leave it set.       *)
ExitUndoesEnter ==
  [][\A c \in DOMAIN open :
       Len(open'[c]) < Len(open[c]) /\ Last(open[c]).kind = "section" =>
         primask' = Last(open[c]).masked]_vars

=============================================================================
