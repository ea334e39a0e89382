----------------------------- MODULE KernelTime -----------------------------
(***************************************************************************)
(* The kernel's time (tasks.c): the tick count and its wrap, the two lists *)
(* of delayed tasks, block times that are split by wake-ups, ticks that    *)
(* come while the scheduler is suspended, and tickless idle.               *)
(*                                                                         *)
(* Which of the ready tasks runs is left open.  A step is a critical       *)
(* section, an interrupt handler, or what a task does with the scheduler   *)
(* suspended up to the next point where a handler matters to it.           *)
(***************************************************************************)
EXTENDS Integers, Sequences, FiniteSets, SequencesExt, Lists

CONSTANTS
  Tasks, Idle, None,
  Word,          \* the range of TickType_t
  OverflowWord,  \* the range of xNumOfOverflows
  Times,         \* the block times that are asked for
  MaxPended,     \* bound: ticks while the scheduler is suspended
  MaxSuppressed  \* xMaximumPossibleSuppressedTicks

portMAX_DELAY == Word - 1

ASSUME KernelTimeAssumption ==
  /\ Idle \notin Tasks /\ None \notin Tasks \cup {Idle}
  /\ Word \in Nat /\ Word > 2 /\ OverflowWord \in Nat /\ OverflowWord > 1
  /\ Times \subseteq 1 .. portMAX_DELAY
  /\ MaxPended \in Nat \ {0} /\ MaxSuppressed \in Nat \ {0, 1}

VARIABLES
  clock,         \* see Start; with the history of the times that pass
  xPendedTicks,
  xPendingReadyList,
  suspender,     \* who has the scheduler suspended
  pc,            \* per task: where it is in its call
  asked,         \* per task: the block time of its call, Word for no end
  xTimeOut,      \* per task: TimeOut_t and xTicksToWait of the call
  sleep,         \* what the idle task expects to sleep; 0 before, -1 after
  real           \* history: the tick interrupts that there should have been

vars == <<clock, xPendedTicks, xPendingReadyList, suspender, pc, asked,
          xTimeOut, sleep, real>>

(* age: the ticks since the task's call; exact: so far the tick woke each  *)
(* task when its block time was over; asserted: no assertion failed.       *)
Start ==
  [xTickCount |-> 0, xNumOfOverflows |-> 0,
   xNextTaskUnblockTime |-> portMAX_DELAY,
   pxDelayedTaskList |-> <<>>, pxOverflowDelayedTaskList |-> <<>>,
   age |-> [t \in Tasks |-> 0], exact |-> TRUE, asserted |-> TRUE]

NoTimeOut ==
  [xOverflowCount |-> 0, xTimeOnEntering |-> 0, xTicksToWait |-> 0]

Init ==
  /\ clock = Start /\ real = 0
  /\ xPendedTicks = 0 /\ xPendingReadyList = <<>> /\ suspender = None
  /\ pc = [t \in Tasks |-> "run"]
  /\ asked = [t \in Tasks |-> 0]
  /\ xTimeOut = [t \in Tasks |-> NoTimeOut]
  /\ sleep = 0

-----------------------------------------------------------------------------
(* The lists. *)

(* vListInsert, by wake time: behind those with the same. *)
Inserted(list, e) ==
  LET earlier == {i \in DOMAIN list : list[i].value <= e.value} IN
  InsertAt(list, Cardinality(earlier) + 1, e)

Without(list, S) == Kept(list, {i \in DOMAIN list : list[i].task \notin S})

Listed(k) == {e.task : e \in ToSet(k.pxDelayedTaskList) \cup
                             ToSet(k.pxOverflowDelayedTaskList)}

(* prvResetNextTaskUnblockTime. *)
Reset(k) ==
  [k EXCEPT !.xNextTaskUnblockTime =
     IF k.pxDelayedTaskList = <<>> THEN portMAX_DELAY
     ELSE Head(k.pxDelayedTaskList).value]

(* MUTANT of Switched: the next unblock time is left as it is. *)
SwitchedStale(k) ==
  [k EXCEPT !.asserted = @ /\ k.pxDelayedTaskList = <<>>,
            !.pxDelayedTaskList = k.pxOverflowDelayedTaskList,
            !.pxOverflowDelayedTaskList = k.pxDelayedTaskList,
            !.xNumOfOverflows = (@ + 1) % OverflowWord]

(* taskSWITCH_DELAYED_LISTS. *)
Switched(k) ==
  Reset([k EXCEPT !.asserted = @ /\ k.pxDelayedTaskList = <<>>,
                  !.pxDelayedTaskList = k.pxOverflowDelayedTaskList,
                  !.pxOverflowDelayedTaskList = k.pxDelayedTaskList,
                  !.xNumOfOverflows = (@ + 1) % OverflowWord])

(* The tasks at the head of the delayed list whose time has come. *)
Unblocked(k) ==
  IF k.xTickCount < k.xNextTaskUnblockTime THEN k
  ELSE LET late == {e \in ToSet(k.pxDelayedTaskList) :
                      e.value <= k.xTickCount} IN
       Reset([k EXCEPT
                !.pxDelayedTaskList = Without(@, {e.task : e \in late}),
                !.exact = @ /\ \A e \in late : k.age[e.task] = asked[e.task]])

(* The ages n ticks later; that of a wait without end does not matter. *)
Aged(k, n) == [t \in Tasks |-> IF pc[t] = "run" \/ asked[t] = Word THEN 0
                               ELSE k.age[t] + n]

(* xTaskIncrementTick, the scheduler running. *)
Ticked(k) ==
  LET n == (k.xTickCount + 1) % Word
      j == [k EXCEPT !.xTickCount = n, !.age = Aged(k, 1)]
  IN  Unblocked(IF n = 0 THEN Switched(j) ELSE j)

(* prvAddCurrentTaskToDelayedList: the suspended list takes those that     *)
(* wait for an event without end.                                          *)
AddCurrentTask(k, t, ticks, indefinite) ==
  LET wake == (k.xTickCount + ticks) % Word
      e == [task |-> t, value |-> wake] IN
  IF ticks = portMAX_DELAY /\ indefinite THEN k
  ELSE IF wake < k.xTickCount
  THEN [k EXCEPT !.pxOverflowDelayedTaskList = Inserted(@, e)]
  ELSE [k EXCEPT !.pxDelayedTaskList = Inserted(@, e),
                 !.xNextTaskUnblockTime = IF wake < @ THEN wake ELSE @]

-----------------------------------------------------------------------------
(* Interrupts. *)

(* A task takes part in a call for at most one wrap of the tick count.     *)
MayTick == /\ \A t \in Tasks : clock.age[t] + xPendedTicks < Word
           /\ sleep <= 0

(* SysTick_Handler. *)
Tick ==
  /\ MayTick
  /\ real' = (real + 1) % Word
  /\ IF suspender = None
     THEN clock' = Ticked(clock) /\ UNCHANGED xPendedTicks
     ELSE /\ xPendedTicks < MaxPended
          /\ xPendedTicks' = xPendedTicks + 1 /\ UNCHANGED clock
  /\ UNCHANGED <<xPendingReadyList, suspender, pc, asked, xTimeOut, sleep>>

(* xTaskRemoveFromEventList, from a handler that has what t waits for. *)
Event(t) ==
  /\ pc[t] \in {"blocking", "blocked"}
  /\ t \notin ToSet(xPendingReadyList)
  /\ t \in Listed(clock) \/ xTimeOut[t].xTicksToWait = portMAX_DELAY
  /\ IF suspender = None
     THEN /\ clock' = Reset([clock EXCEPT
               !.pxDelayedTaskList = Without(@, {t}),
               !.pxOverflowDelayedTaskList = Without(@, {t})])
          /\ pc' = [pc EXCEPT ![t] = "woken"]
          /\ UNCHANGED xPendingReadyList
     ELSE /\ xPendingReadyList' = Append(xPendingReadyList, t)
          /\ UNCHANGED <<clock, pc>>
  /\ UNCHANGED <<xPendedTicks, suspender, asked, xTimeOut, sleep, real>>

-----------------------------------------------------------------------------
(* vTaskDelay, and a wait for an event with a block time as queue.c and    *)
(* others do it.                                                           *)

vTaskDelay(t, n) ==
  /\ pc[t] = "run" /\ suspender = None
  /\ suspender' = t
  /\ asked' = [asked EXCEPT ![t] = n]
  /\ clock' = AddCurrentTask(clock, t, n, FALSE)
  /\ pc' = [pc EXCEPT ![t] = "delaying"]
  /\ UNCHANGED <<xPendedTicks, xPendingReadyList, xTimeOut, sleep, real>>

(* vTaskInternalSetTimeOutState. *)
TimeOutState(n) == [xOverflowCount |-> clock.xNumOfOverflows,
                    xTimeOnEntering |-> clock.xTickCount,
                    xTicksToWait |-> n]

Wait(t, n) ==
  /\ pc[t] = "run" /\ suspender = None
  /\ asked' = [asked EXCEPT ![t] = IF n = portMAX_DELAY THEN Word ELSE n]
  /\ xTimeOut' = [xTimeOut EXCEPT ![t] = TimeOutState(n)]
  /\ pc' = [pc EXCEPT ![t] = "entered"]
  /\ UNCHANGED <<clock, xPendedTicks, xPendingReadyList, suspender, sleep,
                 real>>

Elapsed(t) ==
  (clock.xTickCount + Word - xTimeOut[t].xTimeOnEntering) % Word

(* MUTANT of TimedOut: the overflows are not looked at. *)
TimedOutNoOverflow(t) ==
  /\ xTimeOut[t].xTicksToWait # portMAX_DELAY
  /\ Elapsed(t) >= xTimeOut[t].xTicksToWait

(* xTaskCheckForTimeOut. *)
TimedOut(t) ==
  /\ xTimeOut[t].xTicksToWait # portMAX_DELAY
  /\ \/ /\ clock.xNumOfOverflows # xTimeOut[t].xOverflowCount
        /\ clock.xTickCount >= xTimeOut[t].xTimeOnEntering
     \/ Elapsed(t) >= xTimeOut[t].xTicksToWait

Remaining(t) == IF xTimeOut[t].xTicksToWait = portMAX_DELAY THEN xTimeOut[t]
                ELSE TimeOutState(xTimeOut[t].xTicksToWait - Elapsed(t))

(* What is waited for is not there: suspend the scheduler and block for    *)
(* the rest of the time, or give up.  A task that finds it there by then   *)
(* goes round the loop, as one does that Event wakes at once.              *)
Block(t) ==
  /\ pc[t] = "entered" /\ suspender = None
  /\ suspender' = t
  /\ IF TimedOut(t)
     THEN /\ pc' = [pc EXCEPT ![t] = "giving up"]
          /\ UNCHANGED <<clock, xTimeOut>>
     ELSE /\ xTimeOut' = [xTimeOut EXCEPT ![t] = Remaining(t)]
          /\ clock' = AddCurrentTask(clock, t, Remaining(t).xTicksToWait, TRUE)
          /\ pc' = [pc EXCEPT ![t] = "blocking"]
  /\ UNCHANGED <<xPendedTicks, xPendingReadyList, asked, sleep, real>>

(* The task has its time up or its event: it goes on, returns, or, if      *)
(* another was faster, waits for the rest of the time.                     *)
Return(t) ==
  /\ suspender = None
  /\ \/ pc[t] \in {"delayed", "blocked"} /\ t \notin Listed(clock)
        /\ (pc[t] = "blocked" => xTimeOut[t].xTicksToWait # portMAX_DELAY)
     \/ pc[t] = "woken"
  /\ \/ /\ pc' = [pc EXCEPT ![t] = "run"]
        /\ clock' = [clock EXCEPT !.age[t] = 0]
        /\ xTimeOut' = [xTimeOut EXCEPT ![t] = NoTimeOut]
        /\ asked' = [asked EXCEPT ![t] = 0]
     \/ /\ pc[t] # "delayed"
        /\ pc' = [pc EXCEPT ![t] = "entered"]
        /\ UNCHANGED <<clock, xTimeOut, asked>>
  /\ UNCHANGED <<xPendedTicks, xPendingReadyList, suspender, sleep, real>>

-----------------------------------------------------------------------------
(* xTaskResumeAll. *)

(* MUTANT of Resumed: the ticks are made up for in one. *)
ResumedAtOnce ==
  LET moved == ToSet(xPendingReadyList)
      j == IF moved = {} THEN clock
           ELSE Reset([clock EXCEPT
                  !.pxDelayedTaskList = Without(@, moved),
                  !.pxOverflowDelayedTaskList = Without(@, moved)])
  IN  IF xPendedTicks = 0 THEN j ELSE Ticked(j)

(* The tasks of the pending list are ready; then the ticks are made up     *)
(* for.                                                                    *)
Resumed ==
  LET moved == ToSet(xPendingReadyList)
      j == IF moved = {} THEN clock
           ELSE Reset([clock EXCEPT
                  !.pxDelayedTaskList = Without(@, moved),
                  !.pxOverflowDelayedTaskList = Without(@, moved)])
      made[i \in 0 .. xPendedTicks] ==
        IF i = 0 THEN j ELSE Ticked(made[i - 1])
  IN  made[xPendedTicks]

Resume ==
  LET gaveUp == {t \in Tasks \cap {suspender} : pc[t] = "giving up"} IN
  /\ suspender # None /\ sleep <= 0
  /\ clock' = [Resumed EXCEPT !.age =
                 [t \in Tasks |-> IF t \in gaveUp THEN 0 ELSE @[t]]]
  /\ xPendedTicks' = 0 /\ xPendingReadyList' = <<>> /\ suspender' = None
  /\ pc' = [t \in Tasks |->
       IF t \in ToSet(xPendingReadyList) THEN "woken"
       ELSE IF t # suspender THEN pc[t]
       ELSE CASE pc[t] = "delaying"  -> "delayed"
              [] pc[t] = "blocking"  -> "blocked"
              [] pc[t] = "giving up" -> "run"]
  /\ asked' = [t \in Tasks |-> IF t \in gaveUp THEN 0 ELSE asked[t]]
  /\ xTimeOut' =
       [t \in Tasks |-> IF t \in gaveUp THEN NoTimeOut ELSE xTimeOut[t]]
  /\ sleep' = 0
  /\ UNCHANGED real

-----------------------------------------------------------------------------
(* The idle task, when no other is ready (prvIdleTask). *)

Blocked(t) == \/ pc[t] = "delayed" /\ t \in Listed(clock)
              \/ pc[t] = "blocked" /\
                 (t \in Listed(clock) \/
                  xTimeOut[t].xTicksToWait = portMAX_DELAY)

(* prvGetExpectedIdleTime. *)
ExpectedIdleTime == clock.xNextTaskUnblockTime - clock.xTickCount

IdleSuspend ==
  /\ suspender = None /\ \A t \in Tasks : Blocked(t)
  /\ clock.xNextTaskUnblockTime >= clock.xTickCount + 2
  /\ suspender' = Idle
  /\ UNCHANGED <<clock, xPendedTicks, xPendingReadyList, pc, asked, xTimeOut,
                 sleep, real>>

(* vPortSuppressTicksAndSleep: no tick interrupts from here on, unless     *)
(* something happened since the scheduler was suspended.  A pending yield, *)
(* which also keeps the processor awake, is not looked at: it may sleep    *)
(* more often here.                                                        *)
IdleSleep ==
  /\ suspender = Idle /\ sleep = 0
  /\ xPendingReadyList = <<>> /\ xPendedTicks = 0
  /\ sleep' = IF ExpectedIdleTime > MaxSuppressed THEN MaxSuppressed
                                                  ELSE ExpectedIdleTime
  /\ UNCHANGED <<clock, xPendedTicks, xPendingReadyList, suspender, pc, asked,
                 xTimeOut, real>>

(* vTaskStepTick, with the ages of those who wait.  This port steps        *)
(* short of the next unblock time, to which the kernel could also step.    *)
StepTick(n) ==
  LET updated == clock.xTickCount + n
      jump == IF updated = clock.xNextTaskUnblockTime THEN n - 1 ELSE n IN
  /\ clock' = [clock EXCEPT
       !.xTickCount = @ + jump,
       !.age = Aged(clock, jump),
       !.asserted = @ /\ updated <= clock.xNextTaskUnblockTime]
  /\ xPendedTicks' = xPendedTicks + (n - jump)

(* The timer ends the sleep after all of it: its interrupt stays pending   *)
(* for the last tick.  Or another interrupt, after n ticks.                *)
IdleWake(n) ==
  /\ sleep > 0 /\ n \in 0 .. sleep - 1
  /\ \A t \in Tasks : clock.age[t] + n < Word
  /\ StepTick(n)
  /\ real' = (real + n) % Word
  /\ sleep' = -1
  /\ UNCHANGED <<xPendingReadyList, suspender, pc, asked, xTimeOut>>

-----------------------------------------------------------------------------

Next ==
  \/ Tick \/ Resume \/ IdleSuspend \/ IdleSleep
  \/ \E n \in 0 .. portMAX_DELAY : IdleWake(n)
  \/ \E t \in Tasks :
       \/ Event(t) \/ Block(t) \/ Return(t)
       \/ \E n \in Times : vTaskDelay(t, n) \/ Wait(t, n)

Spec == Init /\ [][Next]_vars

-----------------------------------------------------------------------------

Lists == {clock.pxDelayedTaskList, clock.pxOverflowDelayedTaskList}

(* Every variable keeps its type; a task is on one list at most, and no    *)
(* task is on one that is not in a call that blocks.                       *)
TypeOK ==
  /\ clock.xTickCount \in 0 .. Word - 1
  /\ clock.xNumOfOverflows \in 0 .. OverflowWord - 1
  /\ clock.xNextTaskUnblockTime \in 0 .. portMAX_DELAY
  /\ clock.age \in [Tasks -> 0 .. Word]
  /\ \A list \in Lists :
       list \in Seq([task : Tasks, value : 0 .. Word - 1])
  /\ LET both == clock.pxDelayedTaskList \o clock.pxOverflowDelayedTaskList IN
     \A i, j \in DOMAIN both : both[i].task = both[j].task => i = j
  /\ \A t \in Listed(clock) :
       pc[t] \in {"delaying", "delayed", "blocking", "blocked"}
  /\ xPendedTicks \in 0 .. MaxPended
  /\ ToSet(xPendingReadyList) \subseteq
       {t \in Tasks : pc[t] \in {"blocking", "blocked"}}
  /\ suspender \in Tasks \cup {Idle, None}
  /\ asked \in [Tasks -> 0 .. Word]
  /\ sleep \in -1 .. MaxSuppressed /\ real \in 0 .. Word - 1

(* No assertion of the kernel fails: the delayed list is empty when the    *)
(* lists are switched, and the idle task steps over no task's time.        *)
AssertionsHold == clock.asserted

(* The tick that wakes a task is the one that its call asked for, through  *)
(* wraps of the tick count, ticks that were pended, block times taken up   *)
(* again and sleeps of the processor.                                      *)
WakesOnTime == clock.exact

(* A task on a list still has time to go, just what is left of what it     *)
(* asked for, and is on the list that its time belongs to.                 *)
BlockTimeIsLeft ==
  LET left(t) == asked[t] - clock.age[t] IN
  /\ \A e \in ToSet(clock.pxDelayedTaskList) :
       e.value > clock.xTickCount /\ e.value = clock.xTickCount + left(e.task)
  /\ \A e \in ToSet(clock.pxOverflowDelayedTaskList) :
       e.value + Word = clock.xTickCount + left(e.task)

(* xNextTaskUnblockTime is the first time at which a task on the delayed   *)
(* list has to be woken; one that waits on the pending list to be made     *)
(* ready is still on it.  So the tick need not look at the list, and the   *)
(* idle task may sleep until then.                                         *)
NextUnblockIsFirst ==
  clock.pxDelayedTaskList # <<>> =>
    LET first == Head(clock.pxDelayedTaskList).value IN
    /\ \A e \in ToSet(clock.pxDelayedTaskList) : first <= e.value
    /\ clock.xNextTaskUnblockTime = first

(* What the tick and the idle task rely on when they look at one list, and *)
(* at the head of it only.                                                 *)
ListsAreSound == TypeOK /\ AssertionsHold /\ NextUnblockIsFirst

(* No tick is lost or counted twice, whether it came while the scheduler   *)
(* was suspended or was slept through.                                     *)
TicksDoNotSlip ==
  (clock.xTickCount + xPendedTicks) % Word = real

(* Every delay and block time lasts the ticks that were asked for, and no  *)
(* tick goes missing.                                                      *)
TimesAreKept == WakesOnTime /\ BlockTimeIsLeft /\ TicksDoNotSlip

(* A wait gives up when its block time is over and not before, however     *)
(* long the task was kept from running and whatever the tick count and its *)
(* overflows did meanwhile.                                                *)
TimeoutIsExact ==
  [][\A t \in Tasks : pc[t] = "entered" /\ pc'[t] # "entered" =>
       (pc'[t] = "giving up" <=> asked[t] # Word /\
                                 clock.age[t] >= asked[t])]_vars

=============================================================================
