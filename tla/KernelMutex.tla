---------------------------- MODULE KernelMutex -----------------------------
(***************************************************************************)
(* The kernel's recursive mutexes with priority inheritance and the        *)
(* scheduler beneath them (queue.c, tasks.c), on one core, preemptive,     *)
(* without time slicing, as FreeRTOSConfig.h says.                         *)
(*                                                                         *)
(* A step is a critical section, an interrupt handler, or what a task does *)
(* while it has the scheduler suspended.  Ticks that come while it is      *)
(* suspended are those that follow its resumption.  How many ticks a time  *)
(* out or a delay takes is left open: a time that runs may be up at any    *)
(* tick.  Only interrupt handlers ready a task while the scheduler is      *)
(* suspended, and none gives a mutex: the list of pending ready tasks and  *)
(* the locks of a queue are not needed here.                               *)
(***************************************************************************)
EXTENDS Naturals, Sequences, FiniteSets, FiniteSetsExt, SequencesExt,
        Functions, Lists

CONSTANTS
  Tasks, Idle,     \* the tasks; the idle task, which calls nothing
  uxBasePriority,  \* the priority each was created with
  Mutexes, None,
  Waits,           \* the block times tasks ask for, of those below
  MaxDepth         \* bound: how often a mutex is taken by its holder

ASSUME KernelMutexAssumption ==
  /\ Idle \in Tasks /\ None \notin Tasks \cup Mutexes
  /\ uxBasePriority \in [Tasks -> Nat]
  /\ \A t \in Tasks \ {Idle} : uxBasePriority[t] > uxBasePriority[Idle]
  /\ Waits \subseteq {"none", "ticks", "forever"}
  /\ IsFiniteSet(Mutexes) /\ MaxDepth \in Nat \ {0}

VARIABLES
  current,                \* pxCurrentTCB
  ready,                  \* the tasks in the ready lists
  xYieldPending,          \* a context switch is pending
  uxPriority, uxMutexesHeld,
  xMutexHolder, uxRecursiveCallCount,
  xTasksWaitingToReceive, \* per mutex, the tasks on its event list
  pc, wanted, wait, due,  \* per task: where it is in the kernel, the mutex it
                          \* asked for, its block time, whether that is over
  xInheritanceOccurred,   \* a variable of xQueueSemaphoreTake
  failed                  \* history: the task's last take timed out

mutex == <<uxMutexesHeld, xMutexHolder, uxRecursiveCallCount>>
call == <<wanted, wait, due, xInheritanceOccurred, failed>>
vars == <<current, ready, xYieldPending, uxPriority, mutex,
          xTasksWaitingToReceive, pc, call>>

Init ==
  /\ ready = Tasks
  /\ current \in {t \in Tasks : \A u \in Tasks :
                                  uxBasePriority[t] >= uxBasePriority[u]}
  /\ xYieldPending = FALSE
  /\ uxPriority = uxBasePriority
  /\ uxMutexesHeld = [t \in Tasks |-> 0]
  /\ xMutexHolder = [m \in Mutexes |-> None]
  /\ uxRecursiveCallCount = [m \in Mutexes |-> 0]
  /\ xTasksWaitingToReceive = [m \in Mutexes |-> <<>>]
  /\ pc = [t \in Tasks |-> "run"]
  /\ wanted = [t \in Tasks |-> None]
  /\ wait = [t \in Tasks |-> "none"]
  /\ due = [t \in Tasks |-> FALSE]
  /\ xInheritanceOccurred = [t \in Tasks |-> FALSE]
  /\ failed = [t \in Tasks |-> FALSE]

-----------------------------------------------------------------------------
(* The scheduler. *)

(* vTaskSwitchContext: one of the ready tasks of highest priority. *)
Switch ==
  /\ xYieldPending
  /\ xYieldPending' = FALSE
  /\ current' \in {t \in ready : \A u \in ready :
                                   uxPriority[t] >= uxPriority[u]}
  /\ UNCHANGED <<ready, uxPriority, mutex, xTasksWaitingToReceive, pc, call>>

(* listREMOVE_ITEM, of those in D that are on the list. *)
Without(list, D) == Kept(list, {i \in DOMAIN list : list[i] \notin D})

(* xTaskIncrementTick: the time of the tasks in D is up.  Those that are   *)
(* blocked leave the delayed list and their event list.                    *)
Tick(D) ==
  /\ D # {} /\ \A t \in D : wait[t] = "ticks" /\ ~ due[t]
  /\ due' = [t \in Tasks |-> due[t] \/ t \in D]
  /\ ready' = ready \cup D
  /\ xTasksWaitingToReceive' =
       [m \in Mutexes |-> Without(xTasksWaitingToReceive[m], D)]
  /\ xYieldPending' = (xYieldPending \/
       \E t \in D \ ready : uxPriority[t] > uxPriority[current])
  /\ UNCHANGED <<current, uxPriority, mutex, pc, wanted, wait,
                 xInheritanceOccurred, failed>>

(* A task goes on if it is the running one and no switch is pending. *)
At(t, step) == current = t /\ ~ xYieldPending /\ pc[t] = step

Goto(t, step) == pc' = [pc EXCEPT ![t] = step]

(* Back in the task: its call is over. *)
Return(t, timed_out) ==
  /\ Goto(t, "run")
  /\ wanted' = [wanted EXCEPT ![t] = None]
  /\ wait' = [wait EXCEPT ![t] = "none"]
  /\ due' = [due EXCEPT ![t] = FALSE]
  /\ xInheritanceOccurred' = [xInheritanceOccurred EXCEPT ![t] = FALSE]
  /\ failed' = [failed EXCEPT ![t] = timed_out]

(* vTaskDelay. *)
Delay(t) ==
  /\ At(t, "run") /\ t # Idle
  /\ ready' = ready \ {t}
  /\ wait' = [wait EXCEPT ![t] = "ticks"]
  /\ Goto(t, "yield")
  /\ UNCHANGED <<current, xYieldPending, uxPriority, mutex,
                 xTasksWaitingToReceive, wanted, due, xInheritanceOccurred,
                 failed>>

(* taskYIELD_WITHIN_API; the task comes back with its time up or, if it    *)
(* waits for a mutex, to try again.                                        *)
Yield(t) ==
  /\ At(t, "yield")
  /\ xYieldPending' = TRUE
  /\ Goto(t, IF wanted[t] = None THEN "awake" ELSE "take")
  /\ UNCHANGED <<current, ready, uxPriority, mutex, xTasksWaitingToReceive,
                 call>>

Awake(t) ==
  /\ At(t, "awake") /\ Return(t, FALSE)
  /\ UNCHANGED <<current, ready, xYieldPending, uxPriority, mutex,
                 xTasksWaitingToReceive>>

-----------------------------------------------------------------------------
(* xQueueTakeMutexRecursive. *)

TakeRecursive(t, m, w) ==
  /\ At(t, "run") /\ t # Idle
  /\ IF xMutexHolder[m] = t
     THEN /\ uxRecursiveCallCount[m] < MaxDepth
          /\ uxRecursiveCallCount' = [uxRecursiveCallCount EXCEPT ![m] = @ + 1]
          /\ UNCHANGED <<pc, call>>
     ELSE /\ Goto(t, "take")
          /\ wanted' = [wanted EXCEPT ![t] = m]
          /\ wait' = [wait EXCEPT ![t] = w]
          /\ UNCHANGED <<uxRecursiveCallCount, due, xInheritanceOccurred,
                         failed>>
  /\ UNCHANGED <<current, ready, xYieldPending, uxPriority, uxMutexesHeld,
                 xMutexHolder, xTasksWaitingToReceive>>

(* xQueueSemaphoreTake, the mutex is free: take it. *)
Take(t) ==
  LET m == wanted[t] IN
  /\ At(t, "take") /\ xMutexHolder[m] = None
  /\ xMutexHolder' = [xMutexHolder EXCEPT ![m] = t]
  /\ uxMutexesHeld' = [uxMutexesHeld EXCEPT ![t] = @ + 1]
  /\ uxRecursiveCallCount' = [uxRecursiveCallCount EXCEPT ![m] = @ + 1]
  /\ Return(t, FALSE)
  /\ UNCHANGED <<current, ready, xYieldPending, uxPriority,
                 xTasksWaitingToReceive>>

(* It is not: give up at once, or prepare to block. *)
TakeNot(t) ==
  /\ At(t, "take") /\ xMutexHolder[wanted[t]] # None
  /\ IF wait[t] = "none"
     THEN Return(t, TRUE)
     ELSE Goto(t, "block") /\ UNCHANGED call
  /\ UNCHANGED <<current, ready, xYieldPending, uxPriority, mutex,
                 xTasksWaitingToReceive>>

(* Mutant: priorities are not inherited. *)
InheritedNot(holder, t) == uxPriority

(* xTaskPriorityInherit. *)
Inherited(holder, t) ==
  [uxPriority EXCEPT ![holder] = IF @ < uxPriority[t] THEN uxPriority[t]
                                                      ELSE @]

(* vListInsert, into an event list: behind those of no lower priority. *)
Inserted(list, t) ==
  LET lower == {i \in DOMAIN list : uxPriority[list[i]] < uxPriority[t]} IN
  InsertAt(list, Min(lower \cup {Len(list) + 1}), t)

(* Mutant: the mutex is not looked at again. *)
BlockUnchecked(t) ==
  LET m == wanted[t]
      holder == xMutexHolder[m] IN
  /\ At(t, "block")
  /\ uxPriority' = IF holder = None THEN uxPriority ELSE Inherited(holder, t)
  /\ xTasksWaitingToReceive' =
       [xTasksWaitingToReceive EXCEPT ![m] = Inserted(@, t)]
  /\ ready' = ready \ {t}
  /\ Goto(t, "yield")
  /\ UNCHANGED <<current, xYieldPending, mutex, call>>

(* With the scheduler suspended: unless the time is up or the mutex has    *)
(* been given meanwhile, pass the priority on and join the event list.     *)
Block(t) ==
  LET m == wanted[t]
      holder == xMutexHolder[m] IN
  /\ At(t, "block")
  /\ IF due[t]
     THEN /\ Goto(t, "timed out")
          /\ UNCHANGED <<ready, uxPriority, xTasksWaitingToReceive,
                         xInheritanceOccurred>>
     ELSE IF holder = None
     THEN /\ Goto(t, "take")
          /\ UNCHANGED <<ready, uxPriority, xTasksWaitingToReceive,
                         xInheritanceOccurred>>
     ELSE /\ xInheritanceOccurred' = [xInheritanceOccurred EXCEPT ![t] =
               uxPriority[holder] < uxPriority[t] \/
               uxBasePriority[holder] < uxPriority[t]]
          /\ uxPriority' = Inherited(holder, t)
          /\ xTasksWaitingToReceive' =
               [xTasksWaitingToReceive EXCEPT ![m] = Inserted(@, t)]
          /\ ready' = ready \ {t}
          /\ Goto(t, "yield")
  /\ UNCHANGED <<current, xYieldPending, mutex, wanted, wait, due, failed>>

(* The time is up.  If the mutex is free after all, take it; if not, the   *)
(* holder may have a priority too many.                                    *)
TimedOut(t) ==
  /\ At(t, "timed out")
  /\ IF xMutexHolder[wanted[t]] = None THEN Goto(t, "take") /\ UNCHANGED call
     ELSE IF xInheritanceOccurred[t]
     THEN Goto(t, "disinherit") /\ UNCHANGED call
     ELSE Return(t, TRUE)
  /\ UNCHANGED <<current, ready, xYieldPending, uxPriority, mutex,
                 xTasksWaitingToReceive>>

(* Mutant: nobody else is thought to wait. *)
HighestNone(m) == uxBasePriority[Idle]

(* prvGetHighestPriorityOfWaitToReceiveList: the head's. *)
Highest(m) == IF xTasksWaitingToReceive[m] = <<>> THEN uxBasePriority[Idle]
              ELSE uxPriority[Head(xTasksWaitingToReceive[m])]

(* vTaskPriorityDisinheritAfterTimeout, if somebody still holds the mutex. *)
DisinheritAfterTimeout(t) ==
  LET m == wanted[t]
      holder == xMutexHolder[m] IN
  /\ At(t, "disinherit")
  /\ uxPriority' =
       IF holder = None \/ uxMutexesHeld[holder] # 1 THEN uxPriority
       ELSE [uxPriority EXCEPT ![holder] =
               Max({uxBasePriority[holder], Highest(m)})]
  /\ Return(t, TRUE)
  /\ UNCHANGED <<current, ready, xYieldPending, mutex,
                 xTasksWaitingToReceive>>

-----------------------------------------------------------------------------
(* xQueueGiveMutexRecursive, xQueueGenericSend. *)

(* xTaskPriorityDisinherit. *)
Disinherited(t) ==
  [uxPriority EXCEPT ![t] = IF uxMutexesHeld[t] = 1 THEN uxBasePriority[t]
                                                    ELSE @]

(* Mutant: the mutex still counts as held by the task. *)
FreeUncounted(t, m) ==
  /\ xMutexHolder' = [xMutexHolder EXCEPT ![m] = None]
  /\ UNCHANGED uxMutexesHeld
  /\ uxPriority' = Disinherited(t)
  /\ ready' = ready \cup ToSet(xTasksWaitingToReceive[m])
  /\ xTasksWaitingToReceive' = [xTasksWaitingToReceive EXCEPT ![m] = <<>>]
  /\ xYieldPending' = TRUE

(* The last give frees the mutex and readies the head of the event list.   *)
Free(t, m) ==
  LET list == xTasksWaitingToReceive[m] IN
  /\ xMutexHolder' = [xMutexHolder EXCEPT ![m] = None]
  /\ uxMutexesHeld' = [uxMutexesHeld EXCEPT ![t] = @ - 1]
  /\ uxPriority' = Disinherited(t)
  /\ IF list # <<>>
     THEN /\ xTasksWaitingToReceive' =
               [xTasksWaitingToReceive EXCEPT ![m] = Tail(@)]
          /\ ready' = ready \cup {Head(list)}
          /\ xYieldPending' = (uxPriority'[Head(list)] > uxPriority'[t])
     ELSE /\ UNCHANGED <<xTasksWaitingToReceive, ready>>
          /\ xYieldPending' = (uxPriority'[t] # uxPriority[t])

(* Mutant: the first give frees the mutex. *)
GiveAtOnce(t, m) ==
  /\ At(t, "run") /\ xMutexHolder[m] = t
  /\ uxRecursiveCallCount' = [uxRecursiveCallCount EXCEPT ![m] = @ - 1]
  /\ Free(t, m)
  /\ UNCHANGED <<current, pc, call>>

GiveRecursive(t, m) ==
  /\ At(t, "run") /\ xMutexHolder[m] = t
  /\ uxRecursiveCallCount' = [uxRecursiveCallCount EXCEPT ![m] = @ - 1]
  /\ IF uxRecursiveCallCount[m] = 1
     THEN Free(t, m)
     ELSE UNCHANGED <<xMutexHolder, uxMutexesHeld, uxPriority, ready,
                      xTasksWaitingToReceive, xYieldPending>>
  /\ UNCHANGED <<current, pc, call>>

-----------------------------------------------------------------------------

(* What a task does inside the kernel, once called. *)
Kernel(t) == \/ Yield(t) \/ Awake(t) \/ Take(t) \/ TakeNot(t) \/ Block(t)
             \/ TimedOut(t) \/ DisinheritAfterTimeout(t)

Next ==
  \/ Switch
  \/ \E D \in SUBSET Tasks : Tick(D)
  \/ \E t \in Tasks :
       \/ Delay(t) \/ Kernel(t)
       \/ \E m \in Mutexes, w \in Waits : TakeRecursive(t, m, w)
       \/ \E m \in Mutexes : GiveRecursive(t, m)

Spec == Init /\ [][Next]_vars

(* The processor goes on, time passes, and a task that holds a mutex gives *)
(* it back, however often it is preempted.                                 *)
Fairness ==
  /\ WF_vars(Switch)
  /\ \A t \in Tasks :
       /\ WF_vars(Kernel(t))
       /\ WF_vars(\E D \in SUBSET Tasks : t \in D /\ Tick(D))
       /\ \A m \in Mutexes : \A n \in 1 .. MaxDepth :
            SF_vars(uxRecursiveCallCount[m] = n /\ GiveRecursive(t, m))

FairSpec == Spec /\ Fairness

-----------------------------------------------------------------------------

(* Every variable keeps its type; the lists hold no task twice, tasks on   *)
(* them are not ready, and uxMutexesHeld counts a task's mutexes.          *)
TypeOK ==
  /\ current \in Tasks /\ ready \subseteq Tasks /\ Idle \in ready
  /\ xYieldPending \in BOOLEAN
  /\ uxPriority \in [Tasks -> Nat]
  /\ uxMutexesHeld = [t \in Tasks |->
                       Cardinality({m \in Mutexes : xMutexHolder[m] = t})]
  /\ xMutexHolder \in [Mutexes -> Tasks \cup {None}]
  /\ uxRecursiveCallCount \in [Mutexes -> 0 .. MaxDepth]
  /\ \A m \in Mutexes :
       /\ IsInjective(xTasksWaitingToReceive[m])
       /\ ToSet(xTasksWaitingToReceive[m]) \subseteq
            {t \in Tasks \ ready : wanted[t] = m}
  /\ pc \in [Tasks -> {"run", "take", "block", "yield", "awake", "timed out",
                       "disinherit"}]
  /\ wanted \in [Tasks -> Mutexes \cup {None}]
  /\ wait \in [Tasks -> {"none", "ticks", "forever"}]
  /\ due \in [Tasks -> BOOLEAN]
  /\ xInheritanceOccurred \in [Tasks -> BOOLEAN]
  /\ failed \in [Tasks -> BOOLEAN]

(* A task that has been switched to and is not about to give the processor *)
(* away has the highest priority of those that could have it: no call      *)
(* forgets to ask for a context switch.  tasks.c says so of the give that  *)
(* follows others: a context switch should occur when the last mutex is    *)
(* returned whether a task is waiting on it or not.                        *)
HighestRuns ==
  xYieldPending \/ pc[current] = "yield" \/
  \A t \in ready : uxPriority[current] >= uxPriority[t]

(* No task waits for a task of lower priority: whoever holds a mutex has   *)
(* at least the priority of each task on its event list, whatever order    *)
(* they came in, were woken in or gave up in.                              *)
HolderIsUrgent ==
  \A m \in Mutexes : xMutexHolder[m] # None =>
    \A t \in ToSet(xTasksWaitingToReceive[m]) :
      uxPriority[xMutexHolder[m]] >= uxPriority[t]

(* A priority is inherited for a reason: another task of that priority     *)
(* waits for the mutex or has just given up waiting and will take the      *)
(* priority back.  (With several mutexes held the kernel only promises     *)
(* that the priority goes with the last of them.)                          *)
PriorityIsJustified ==
  \A t \in Tasks : uxPriority[t] # uxBasePriority[t] =>
    \E u \in Tasks \ {t} :
      /\ wanted[u] # None /\ xMutexHolder[wanted[u]] = t
      /\ xInheritanceOccurred[u]
      /\ uxPriority[u] = uxPriority[t]

(* The event list is sorted in priority order, as xTaskRemoveFromEventList *)
(* assumes when it readies the head of it.                                 *)
EventListIsSorted ==
  \A m \in Mutexes : LET list == xTasksWaitingToReceive[m] IN
    \A i, j \in DOMAIN list :
      i < j => uxPriority[list[i]] >= uxPriority[list[j]]

(* Priority inheritance with one mutex: a holder has the priority of its   *)
(* most urgent waiter, and not longer than that one waits                  *)
(* (tasks.c:6639-6949).                                                    *)
InheritsPriority == HolderIsUrgent /\ PriorityIsJustified /\ EventListIsSorted

(* A mutex that is free while tasks are on its event list has a task on    *)
(* its way to take it: the wakeup of a give is never lost, though another  *)
(* task may take the mutex first, and the woken one may time out.          *)
NoLostWakeup ==
  \A m \in Mutexes :
    xMutexHolder[m] = None /\ xTasksWaitingToReceive[m] # <<>> =>
      \E t \in ready : wanted[t] = m

(* The mutexes are recursive locks: one owner at a time, rid of the lock   *)
(* with the last of its gives.                                             *)
Locks == INSTANCE RecursiveLocks WITH
  Locks <- Mutexes, owner <- xMutexHolder, depth <- uxRecursiveCallCount

ImplementsLocks == Locks!Spec

Urgent == CHOOSE t \in Tasks : \A u \in Tasks \ {t} :
            uxBasePriority[t] > uxBasePriority[u]

(* The task of highest priority gets the mutex it asks for: those in its  *)
(* way inherit its priority and go on until they give, though a task of    *)
(* middle priority never rests.  As long as nobody's time-out meets a give *)
(* (see HighestRuns for what it may cause).                                *)
UrgentIsServed ==
  [](\A t \in Tasks : wanted[t] # None => wait[t] # "ticks") =>
    [](wanted[Urgent] # None => <>(pc[Urgent] = "run"))

=============================================================================
