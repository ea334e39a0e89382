-------------------------- MODULE KernelTimeProofs --------------------------
(***************************************************************************)
(* Proofs about the kernel's time, for any tasks, block times, ranges of   *)
(* the tick count and of its overflows, and bounds.                        *)
(***************************************************************************)
EXTENDS KernelTime, ListProofs, FiniteSetTheorems

-----------------------------------------------------------------------------
(* The inductive invariant.  Most of it is about the clock, and is stated  *)
(* of any, so that it can also be followed through the ticks that are made *)
(* up for when the scheduler is resumed.                                   *)

(* A clock has the fields of Start. *)
Fields == {"xTickCount", "xNumOfOverflows", "xNextTaskUnblockTime",
           "pxDelayedTaskList", "pxOverflowDelayedTaskList", "age", "exact",
           "asserted"}
IsClock(k) == k = [f \in Fields |-> k[f]]

(* A task whose age stands still. *)
Rests(t) == pc[t] = "run" \/ asked[t] = Word

Numbers(k) ==
  /\ k.xTickCount \in 0 .. Word - 1
  /\ k.xNumOfOverflows \in 0 .. OverflowWord - 1
  /\ k.age \in [Tasks -> 0 .. Word]
  /\ \A t \in Tasks : Rests(t) => k.age[t] = 0
  /\ k.exact = TRUE /\ k.asserted = TRUE

(* What the lists hold. *)
Entry == [task : Tasks, value : 0 .. Word - 1]

(* By wake time. *)
Ordered(list) ==
  \A i, j \in DOMAIN list : i < j => list[i].value <= list[j].value

(* A task is on a list once ... *)
Once(list) ==
  \A i, j \in DOMAIN list : list[i].task = list[j].task => i = j

(* ... and on one list at most. *)
Disjoint(one, other) ==
  \A i \in DOMAIN one, j \in DOMAIN other : one[i].task # other[j].task

ListIsSound(list) == list \in Seq(Entry) /\ Ordered(list) /\ Once(list)

ListsHaveForm(k) ==
  /\ ListIsSound(k.pxDelayedTaskList)
  /\ ListIsSound(k.pxOverflowDelayedTaskList)
  /\ Disjoint(k.pxDelayedTaskList, k.pxOverflowDelayedTaskList)

(* Only a task in a call that blocks, for a time, is on a list ... *)
MayBeListed(t) ==
  /\ pc[t] \in {"delaying", "delayed", "blocking", "blocked"}
  /\ asked[t] \in 1 .. portMAX_DELAY

(* ... with the time that it has left, on the list its time belongs to. *)
TimeIsLeft(k) ==
  /\ \A i \in DOMAIN k.pxDelayedTaskList :
       LET e == k.pxDelayedTaskList[i] IN
       /\ MayBeListed(e.task)
       /\ e.value >= k.xTickCount
       /\ e.value = k.xTickCount + (asked[e.task] - k.age[e.task])
  /\ \A i \in DOMAIN k.pxOverflowDelayedTaskList :
       LET e == k.pxOverflowDelayedTaskList[i] IN
       /\ MayBeListed(e.task)
       /\ e.value + Word = k.xTickCount + (asked[e.task] - k.age[e.task])

(* Between two ticks nobody's time is over. *)
NobodyIsLate(k) ==
  \A i \in DOMAIN k.pxDelayedTaskList :
    k.pxDelayedTaskList[i].value > k.xTickCount

(* The next unblock time is what prvResetNextTaskUnblockTime makes it. *)
FirstIsNoted(k) ==
  k.xNextTaskUnblockTime = IF k.pxDelayedTaskList = <<>> THEN portMAX_DELAY
                           ELSE k.pxDelayedTaskList[1].value

Waiting == {"entered", "blocking", "blocked", "woken"}

(* What passed since the time-out state was set. *)
Passed(k, t) == k.age[t] - (asked[t] - xTimeOut[t].xTicksToWait)

(* The time-out state of a wait says when it was set, at most a wrap of    *)
(* the tick count ago, and how much of the block time was left then.       *)
TimeOutIsTrue(k, t) ==
  LET o == xTimeOut[t] IN
  IF asked[t] = Word THEN o.xTicksToWait = portMAX_DELAY
  ELSE /\ o.xTicksToWait \in 1 .. portMAX_DELAY - 1
       /\ o.xTicksToWait <= asked[t]
       /\ o.xTimeOnEntering \in 0 .. Word - 1
       /\ o.xOverflowCount \in 0 .. OverflowWord - 1
       /\ Passed(k, t) >= 0
       /\ \/ /\ o.xTimeOnEntering + Passed(k, t) = k.xTickCount
             /\ k.xNumOfOverflows = o.xOverflowCount
          \/ /\ o.xTimeOnEntering + Passed(k, t) = k.xTickCount + Word
             /\ k.xNumOfOverflows = (o.xOverflowCount + 1) % OverflowWord

TimeOutsAreTrue(k) == \A t \in Tasks : pc[t] \in Waiting => TimeOutIsTrue(k, t)

(* A clock in the middle of a tick, and between two. *)
NearlySound(k) ==
  /\ IsClock(k) /\ Numbers(k) /\ ListsHaveForm(k) /\ TimeIsLeft(k)
  /\ FirstIsNoted(k) /\ TimeOutsAreTrue(k)
Sound(k) == NearlySound(k) /\ NobodyIsLate(k)

(* Where the tasks are. *)
Calls ==
  /\ pc \in [Tasks -> Waiting \cup {"run", "delaying", "delayed", "giving up"}]
  /\ asked \in [Tasks -> 0 .. Word]
  /\ \A t \in Tasks : pc[t] # "run" => asked[t] # 0
  /\ DOMAIN xTimeOut = Tasks
  /\ \A t \in Tasks :
       pc[t] \in {"delaying", "blocking", "giving up"} <=> suspender = t

(* What is put off until the scheduler is resumed. *)
PutOff ==
  /\ xPendedTicks \in 0 .. MaxPended
  /\ xPendingReadyList \in Seq(Tasks)
  /\ \A i \in DOMAIN xPendingReadyList :
       pc[xPendingReadyList[i]] \in {"blocking", "blocked"}
  /\ suspender \in Tasks \cup {Idle, None}
  /\ suspender = None => xPendedTicks = 0 /\ xPendingReadyList = <<>>
  /\ \A t \in Tasks : clock.age[t] + xPendedTicks <= Word
  /\ real \in 0 .. Word - 1
  /\ (clock.xTickCount + xPendedTicks) % Word = real

(* The idle task sleeps no longer than until the next unblock time. *)
SleepIsShort ==
  /\ sleep \in -1 .. MaxSuppressed
  /\ sleep # 0 => suspender = Idle
  /\ sleep > 0 => /\ xPendedTicks = 0
                  /\ clock.xTickCount + sleep <= clock.xNextTaskUnblockTime
  /\ suspender = Idle /\ sleep = 0 =>
       clock.xNextTaskUnblockTime >= clock.xTickCount + 2

IInv == Sound(clock) /\ Calls /\ PutOff /\ SleepIsShort

-----------------------------------------------------------------------------
(* The lists. *)

(* r is what is left of list, in its order. *)
PartOf(r, list) ==
  \E at \in [DOMAIN r -> DOMAIN list] :
    /\ \A i \in DOMAIN r : r[i] = list[at[i]]
    /\ \A i, j \in DOMAIN r : i < j => at[i] < at[j]

(* The places of a list. *)
LEMMA Places ==
  ASSUME NEW S, NEW list \in Seq(S)
  PROVE  /\ DOMAIN list = 1 .. Len(list) /\ Len(list) \in Nat
         /\ \A i \in DOMAIN list : list[i] \in S /\ i \in Nat
         /\ list = <<>> <=> Len(list) = 0
         /\ list # <<>> => 1 \in DOMAIN list /\ Head(list) = list[1]
BY EmptySeq, LenProperties, HeadTailProperties, ElementOfSeq

(* An entry has a task and a wake time. *)
LEMMA EntryParts ==
  ASSUME NEW e \in Entry
  PROVE  e.task \in Tasks /\ e.value \in 0 .. Word - 1
BY DEF Entry

(* What is left of a sound list is sound. *)
LEMMA PartIsSound ==
  ASSUME NEW list, ListIsSound(list), NEW r \in Seq(Entry), PartOf(r, list)
  PROVE  ListIsSound(r)
<1>1. PICK at \in [DOMAIN r -> DOMAIN list] :
        /\ \A i \in DOMAIN r : r[i] = list[at[i]]
        /\ \A i, j \in DOMAIN r : i < j => at[i] < at[j]
  BY DEF PartOf
<1>2. /\ \A i \in DOMAIN r : i \in Nat
      /\ \A i \in DOMAIN list : i \in Nat
  BY Places DEF ListIsSound
<1>3. Ordered(r)
  BY <1>1 DEF ListIsSound, Ordered
<1>4. Once(r)
  <2> SUFFICES ASSUME NEW i \in DOMAIN r, NEW j \in DOMAIN r,
                      r[i].task = r[j].task, i # j
               PROVE  FALSE
    BY DEF Once
  <2>1. at[i] = at[j]
    BY <1>1 DEF ListIsSound, Once
  <2>2. i < j \/ j < i
    BY <1>2
  <2>3. at[i] < at[j] \/ at[j] < at[i]
    BY <1>1, <2>2
  <2>4. at[i] \in Nat
    BY <1>1, <1>2
  <2>5. QED
    BY <2>1, <2>3, <2>4
<1>5. QED
  BY <1>3, <1>4 DEF ListIsSound

(* Without keeps the entries of the others. *)
LEMMA WithoutIsPart ==
  ASSUME NEW list \in Seq(Entry), NEW S
  PROVE  /\ Without(list, S) \in Seq(Entry)
         /\ PartOf(Without(list, S), list)
         /\ \A i \in DOMAIN Without(list, S) :
              Without(list, S)[i].task \notin S
<1> DEFINE keep == {i \in DOMAIN list : list[i].task \notin S}
           r == Kept(list, keep)
<1>1. r = Without(list, S)
  BY DEF Without
<1>2. r \in Seq(Entry) /\ Remains(r, list, keep, Len(list))
  BY KeptRemains
<1>3. DOMAIN r = 1 .. Len(r) /\ DOMAIN list = 1 .. Len(list)
  BY <1>2, Places
<1>4. keep \subseteq DOMAIN list /\ \A i \in keep : list[i].task \notin S
  OBVIOUS
<1> HIDE DEF r, keep
<1>5. PICK at \in [1 .. Len(r) -> (1 .. Len(list)) \cap keep] :
        /\ \A i \in 1 .. Len(r) : r[i] = list[at[i]]
        /\ \A i, j \in 1 .. Len(r) : i < j => at[i] < at[j]
  BY <1>2 DEF Remains
<1>6. at \in [DOMAIN r -> DOMAIN list]
  BY <1>3, <1>5
<1>7. PartOf(r, list)
  BY <1>3, <1>5, <1>6 DEF PartOf
<1>8. \A i \in DOMAIN r : r[i].task \notin S
  BY <1>3, <1>4, <1>5
<1>9. QED
  BY <1>1, <1>2, <1>7, <1>8

(* An entry goes behind those that are not later. *)
LEMMA InsertedAt ==
  ASSUME NEW list, ListIsSound(list), NEW e \in Entry
  PROVE  \E n \in 1 .. Len(list) + 1 :
           /\ Inserted(list, e) = InsertAt(list, n, e)
           /\ \A i \in DOMAIN list : i < n <=> list[i].value <= e.value
<1> DEFINE T == {i \in 1 .. Len(list) + 1 :
                   i = Len(list) + 1 \/ list[i].value > e.value}
           earlier == {i \in DOMAIN list : list[i].value <= e.value}
<1>1. /\ DOMAIN list = 1 .. Len(list) /\ Len(list) \in Nat
      /\ \A i \in DOMAIN list : list[i].value \in Int /\ i \in Nat
      /\ e.value \in Int
  BY Places, EntryParts DEF ListIsSound
<1>2. T \in SUBSET Nat /\ Len(list) + 1 \in T
  BY <1>1
<1>3. PICK n \in T : \A m \in T : n <= m
  BY <1>2, NatMin
<1>4. n \in 1 .. Len(list) + 1 /\ n \in Nat \ {0}
  OBVIOUS
<1>5. ASSUME NEW i \in DOMAIN list
      PROVE  i < n <=> list[i].value <= e.value
  <2>1. i < n => list[i].value <= e.value
    <3> SUFFICES ASSUME i < n, ~ (list[i].value <= e.value)
                 PROVE  FALSE
      OBVIOUS
    <3>1. i \in T
      BY <1>1
    <3>2. QED
      BY <1>1, <1>3, <1>4, <3>1
  <2>2. i >= n => list[i].value > e.value
    <3> SUFFICES ASSUME i >= n
                 PROVE  list[i].value > e.value
      OBVIOUS
    <3>1. n \in DOMAIN list /\ n # Len(list) + 1
      BY <1>1, <1>4
    <3>2. list[n].value > e.value
      BY <3>1
    <3>3. list[n].value <= list[i].value
      <4>1. CASE n = i
        BY <1>1, <4>1
      <4>2. CASE n < i
        BY <3>1, <4>2 DEF ListIsSound, Ordered
      <4>3. QED
        BY <1>1, <1>4, <4>1, <4>2
    <3>4. QED
      BY <1>1, <3>1, <3>2, <3>3
  <2>3. QED
    BY <1>1, <1>4, <2>1, <2>2
<1> HIDE DEF T
<1>6. earlier = 1 .. n - 1
  <2>1. \A i \in 1 .. n - 1 : i \in DOMAIN list /\ i < n
    BY <1>1, <1>4
  <2>2. \A i \in DOMAIN list : i < n => i \in 1 .. n - 1
    BY <1>1, <1>4
  <2>3. QED
    BY <1>5, <2>1, <2>2
<1>7. Cardinality(earlier) + 1 = n
  <2>1. Cardinality(1 .. n - 1) = n - 1
    <3>1. 1 \in Int /\ n - 1 \in Int /\ n - 1 - 1 + 1 = n - 1 /\ n - 1 >= 0
      BY <1>4
    <3>2. Cardinality(1 .. n - 1) =
            IF 1 > n - 1 THEN 0 ELSE n - 1 - 1 + 1
      BY <3>1, FS_Interval
    <3>3. QED
      BY <3>1, <3>2
  <2> HIDE DEF earlier
  <2>2. Cardinality(earlier) = n - 1
    BY <1>6, <2>1, Zenon
  <2>3. QED
    BY <1>4, <2>2
<1>8. Inserted(list, e) = InsertAt(list, Cardinality(earlier) + 1, e)
  BY DEF Inserted
<1> HIDE DEF earlier
<1>9. Inserted(list, e) = InsertAt(list, n, e)
  BY <1>7, <1>8, Zenon
<1>10. QED
  BY <1>4, <1>5, <1>9

(* A sound list stays so, if the task is on none. *)
LEMMA InsertedIsSound ==
  ASSUME NEW list, ListIsSound(list), NEW e \in Entry,
         \A i \in DOMAIN list : list[i].task # e.task
  PROVE  /\ ListIsSound(Inserted(list, e))
         /\ Inserted(list, e) # <<>>
         /\ \A i \in DOMAIN Inserted(list, e) :
              \/ Inserted(list, e)[i] = e
              \/ \E j \in DOMAIN list : Inserted(list, e)[i] = list[j]
         /\ Inserted(list, e)[1] =
              IF list = <<>> \/ e.value < list[1].value THEN e ELSE list[1]
<1> DEFINE r == Inserted(list, e)
           l == Len(list)
<1>1. /\ DOMAIN list = 1 .. l /\ l \in Nat
      /\ \A i \in DOMAIN list : list[i].value \in Int /\ i \in Nat
      /\ e.value \in Int
      /\ list = <<>> <=> l = 0
  BY Places, EntryParts DEF ListIsSound
<1>2. PICK n \in 1 .. l + 1 :
        /\ r = InsertAt(list, n, e)
        /\ \A i \in DOMAIN list : i < n <=> list[i].value <= e.value
  BY InsertedAt
<1>3. /\ r \in Seq(Entry) /\ Len(r) = l + 1
      /\ \A i \in 1 .. l + 1 :
           r[i] = IF i < n THEN list[i] ELSE IF i = n THEN e ELSE list[i - 1]
  BY <1>2, InsertAtPlace DEF ListIsSound
<1>4. DOMAIN r = 1 .. l + 1 /\ r # <<>>
  <2>1. DOMAIN r = 1 .. Len(r) /\ (r = <<>> <=> Len(r) = 0)
    BY <1>3, Places
  <2>2. QED
    BY <1>1, <1>3, <2>1
<1> HIDE DEF r, l
<1>5. n \in Nat \ {0} /\ n <= l + 1
  BY <1>1
<1> DEFINE at(i) == IF i < n THEN i ELSE i - 1
<1>6. ASSUME NEW i \in 1 .. l + 1
      PROVE  /\ i \in Nat
             /\ i # n => at(i) \in 1 .. l /\ r[i] = list[at(i)]
             /\ i = n => r[i] = e
  <2>1. CASE i < n
    <3>1. i \in 1 .. l
      BY <1>1, <1>5, <2>1
    <3>2. QED
      BY <1>3, <1>5, <2>1, <3>1
  <2>2. CASE i = n
    BY <1>3, <1>5, <2>2
  <2>3. CASE i > n
    <3>1. i - 1 \in 1 .. l /\ ~ (i < n) /\ i # n
      BY <1>1, <1>5, <2>3
    <3>2. QED
      BY <1>3, <2>3, <3>1
  <2>4. QED
    BY <1>5, <2>1, <2>2, <2>3
<1>7. \A i, j \in 1 .. l + 1 :
        i < j /\ i # n /\ j # n => at(i) < at(j) /\ at(i) \in Nat
  BY <1>5
<1>8. Ordered(r)
  <2> SUFFICES ASSUME NEW i \in 1 .. l + 1, NEW j \in 1 .. l + 1, i < j
               PROVE  r[i].value <= r[j].value
    BY <1>4 DEF Ordered
  <2>1. CASE i # n /\ j # n
    <3>1. at(i) < at(j) /\ at(i) \in DOMAIN list /\ at(j) \in DOMAIN list
      BY <1>1, <1>6, <1>7, <2>1
    <3> HIDE DEF at
    <3>2. list[at(i)].value <= list[at(j)].value
      BY <3>1 DEF ListIsSound, Ordered
    <3>3. QED
      BY <1>6, <2>1, <3>2
  <2>2. CASE i = n
    <3>1. j # n /\ at(j) \in DOMAIN list /\ ~ (at(j) < n) /\ r[j] = list[at(j)]
      BY <1>1, <1>5, <1>6, <2>2
    <3>2. ~ (list[at(j)].value <= e.value) /\ list[at(j)].value \in Int
      BY <1>1, <1>2, <3>1
    <3> HIDE DEF at
    <3>3. r[i] = e
      BY <1>6, <2>2
    <3>4. QED
      BY <1>1, <3>1, <3>2, <3>3
  <2>3. CASE j = n
    <3>1. i # n /\ at(i) \in DOMAIN list /\ at(i) < n /\ r[i] = list[at(i)]
      BY <1>1, <1>5, <1>6, <2>3
    <3>2. list[at(i)].value <= e.value
      BY <1>2, <3>1
    <3> HIDE DEF at
    <3>3. r[j] = e
      BY <1>6, <2>3
    <3>4. QED
      BY <3>1, <3>2, <3>3
  <2>4. QED
    BY <2>1, <2>2, <2>3
<1>9. Once(r)
  <2> SUFFICES ASSUME NEW i \in 1 .. l + 1, NEW j \in 1 .. l + 1,
                      r[i].task = r[j].task, i # j
               PROVE  FALSE
    BY <1>4 DEF Once
  <2>1. CASE i # n /\ j # n
    <3>1. at(i) # at(j) /\ at(i) \in DOMAIN list /\ at(j) \in DOMAIN list
      <4>1. i < j \/ j < i
        BY <1>6
      <4>2. \/ at(i) < at(j) /\ at(i) \in Nat
            \/ at(j) < at(i) /\ at(j) \in Nat
        BY <1>7, <2>1, <4>1
      <4>3. QED
        BY <1>1, <1>6, <2>1, <4>2
    <3> HIDE DEF at
    <3>2. r[i] = list[at(i)] /\ r[j] = list[at(j)]
      BY <1>6, <2>1
    <3>3. QED
      BY <3>1, <3>2 DEF ListIsSound, Once
  <2>2. CASE i = n
    <3>1. j # n /\ at(j) \in DOMAIN list
      BY <1>1, <1>6, <2>2
    <3> HIDE DEF at
    <3>2. r[i] = e /\ r[j] = list[at(j)]
      BY <1>6, <2>2, <3>1
    <3>3. QED
      BY <3>1, <3>2
  <2>3. CASE j = n
    <3>1. i # n /\ at(i) \in DOMAIN list
      BY <1>1, <1>6, <2>3
    <3> HIDE DEF at
    <3>2. r[j] = e /\ r[i] = list[at(i)]
      BY <1>6, <2>3, <3>1
    <3>3. QED
      BY <3>1, <3>2
  <2>4. QED
    BY <2>1, <2>2, <2>3
<1>10. \A i \in DOMAIN r : r[i] = e \/ \E j \in DOMAIN list : r[i] = list[j]
  BY <1>1, <1>4, <1>6
<1>11. r[1] = IF list = <<>> \/ e.value < list[1].value THEN e ELSE list[1]
  <2>1. CASE n = 1
    <3>1. r[1] = e
      BY <1>1, <1>3, <2>1
    <3>2. ASSUME list # <<>>
          PROVE  e.value < list[1].value
      <4>1. 1 \in DOMAIN list /\ ~ (1 < n)
        BY <1>1, <2>1, <3>2
      <4>2. ~ (list[1].value <= e.value) /\ list[1].value \in Int
        BY <1>1, <1>2, <4>1
      <4>3. QED
        BY <1>1, <4>2
    <3>3. QED
      BY <3>1, <3>2
  <2>2. CASE n # 1
    <3>1. 1 < n /\ 1 \in DOMAIN list /\ l # 0 /\ 1 \in 1 .. l + 1
      BY <1>1, <1>5, <2>2
    <3>2. r[1] = list[1]
      BY <1>3, <3>1
    <3>3. list[1].value <= e.value /\ list[1].value \in Int
      BY <1>1, <1>2, <3>1
    <3>4. list # <<>> /\ ~ (e.value < list[1].value)
      BY <1>1, <3>1, <3>3
    <3>5. QED
      BY <3>2, <3>4
  <2>3. QED
    BY <2>1, <2>2
<1>12. ListIsSound(r)
  BY <1>3, <1>8, <1>9 DEF ListIsSound
<1>13. QED
  BY <1>4, <1>10, <1>11, <1>12 DEF r

-----------------------------------------------------------------------------
(* What the parts of a tick leave and change of a clock. *)

(* j has the numbers of k, its overflows and tests included. *)
SameNumbers(j, k) ==
  /\ j.xTickCount = k.xTickCount /\ j.age = k.age
  /\ j.xNumOfOverflows = k.xNumOfOverflows
  /\ j.exact = k.exact /\ j.asserted = k.asserted

SameLists(j, k) ==
  /\ j.pxDelayedTaskList = k.pxDelayedTaskList
  /\ j.pxOverflowDelayedTaskList = k.pxOverflowDelayedTaskList

(* prvResetNextTaskUnblockTime. *)
LEMMA ResetParts ==
  ASSUME NEW k, IsClock(k), k.pxDelayedTaskList \in Seq(Entry)
  PROVE  /\ IsClock(Reset(k)) /\ FirstIsNoted(Reset(k))
         /\ SameNumbers(Reset(k), k) /\ SameLists(Reset(k), k)
<1> DEFINE list == k.pxDelayedTaskList
           next == IF list = <<>> THEN portMAX_DELAY ELSE Head(list).value
<1>1. Reset(k) = [k EXCEPT !.xNextTaskUnblockTime = next]
  BY DEF Reset
<1>2. /\ IsClock(Reset(k)) /\ Reset(k).xNextTaskUnblockTime = next
      /\ SameNumbers(Reset(k), k) /\ SameLists(Reset(k), k)
  <2> HIDE DEF next
  <2>1. k = [f \in Fields |-> k[f]]
    BY DEF IsClock
  <2>2. Reset(k) = [f \in Fields |->
                      IF f = "xNextTaskUnblockTime" THEN next ELSE k[f]]
    BY <1>1, <2>1 DEF Fields
  <2>3. QED
    BY <2>2 DEF IsClock, Fields, SameNumbers, SameLists
<1>3. next = IF list = <<>> THEN portMAX_DELAY ELSE list[1].value
  BY Places
<1>4. FirstIsNoted(Reset(k))
  <2> HIDE DEF next
  <2>1. Reset(k).pxDelayedTaskList = list
    BY <1>2 DEF SameLists
  <2>2. QED
    BY <1>2, <1>3, <2>1 DEF FirstIsNoted
<1>5. QED
  BY <1>2, <1>4

(* taskSWITCH_DELAYED_LISTS. *)
LEMMA SwitchedParts ==
  ASSUME NEW k, IsClock(k), k.pxOverflowDelayedTaskList \in Seq(Entry)
  PROVE  LET r == Switched(k) IN
         /\ IsClock(r) /\ FirstIsNoted(r)
         /\ r.xTickCount = k.xTickCount /\ r.age = k.age
         /\ r.xNumOfOverflows = (k.xNumOfOverflows + 1) % OverflowWord
         /\ r.exact = k.exact
         /\ r.asserted = (k.asserted /\ k.pxDelayedTaskList = <<>>)
         /\ r.pxDelayedTaskList = k.pxOverflowDelayedTaskList
         /\ r.pxOverflowDelayedTaskList = k.pxDelayedTaskList
<1> DEFINE ok == k.asserted /\ k.pxDelayedTaskList = <<>>
           ov == (k.xNumOfOverflows + 1) % OverflowWord
           m == [k EXCEPT !.asserted = ok,
                          !.pxDelayedTaskList = k.pxOverflowDelayedTaskList,
                          !.pxOverflowDelayedTaskList = k.pxDelayedTaskList,
                          !.xNumOfOverflows = ov]
<1>1. Switched(k) = Reset(m)
  BY DEF Switched
<1> HIDE DEF ok, ov
<1>2. m = [f \in Fields |->
             IF f = "asserted" THEN ok
             ELSE IF f = "pxDelayedTaskList" THEN k.pxOverflowDelayedTaskList
             ELSE IF f = "pxOverflowDelayedTaskList" THEN k.pxDelayedTaskList
             ELSE IF f = "xNumOfOverflows" THEN ov
             ELSE k[f]]
  <2>1. k = [f \in Fields |-> k[f]]
    BY DEF IsClock
  <2>2. QED
    BY <2>1 DEF Fields
<1>3. /\ IsClock(m)
      /\ m.xTickCount = k.xTickCount /\ m.age = k.age
      /\ m.xNumOfOverflows = ov /\ m.exact = k.exact /\ m.asserted = ok
      /\ m.pxDelayedTaskList = k.pxOverflowDelayedTaskList
      /\ m.pxOverflowDelayedTaskList = k.pxDelayedTaskList
  BY <1>2 DEF IsClock, Fields
<1> HIDE DEF m
<1>4. /\ IsClock(Reset(m)) /\ FirstIsNoted(Reset(m))
      /\ SameNumbers(Reset(m), m) /\ SameLists(Reset(m), m)
  BY <1>3, ResetParts
<1>5. QED
  BY <1>1, <1>3, <1>4 DEF SameNumbers, SameLists, ok, ov

(* The tasks whose time has come, taken from the list. *)
LateEntries(k) ==
  {e \in ToSet(k.pxDelayedTaskList) : e.value <= k.xTickCount}

LEMMA UnblockedParts ==
  ASSUME NEW k, IsClock(k), k.pxDelayedTaskList \in Seq(Entry),
         ~ (k.xTickCount < k.xNextTaskUnblockTime)
  PROVE  LET r == Unblocked(k) IN
         /\ IsClock(r) /\ FirstIsNoted(r)
         /\ r.xTickCount = k.xTickCount /\ r.age = k.age
         /\ r.xNumOfOverflows = k.xNumOfOverflows
         /\ r.asserted = k.asserted
         /\ r.exact = (k.exact /\ \A e \in LateEntries(k) :
                                    k.age[e.task] = asked[e.task])
         /\ r.pxDelayedTaskList =
              Without(k.pxDelayedTaskList, {e.task : e \in LateEntries(k)})
         /\ r.pxOverflowDelayedTaskList = k.pxOverflowDelayedTaskList
<1> DEFINE ok == k.exact /\ \A e \in LateEntries(k) :
                              k.age[e.task] = asked[e.task]
           left == Without(k.pxDelayedTaskList,
                           {e.task : e \in LateEntries(k)})
           m == [k EXCEPT !.pxDelayedTaskList = left, !.exact = ok]
<1>1. Unblocked(k) = Reset(m)
  BY DEF Unblocked, LateEntries
<1>2. left \in Seq(Entry)
  BY WithoutIsPart
<1> HIDE DEF ok, left
<1>3. m = [f \in Fields |-> IF f = "pxDelayedTaskList" THEN left
                            ELSE IF f = "exact" THEN ok ELSE k[f]]
  <2>1. k = [f \in Fields |-> k[f]]
    BY DEF IsClock
  <2>2. QED
    BY <2>1 DEF Fields
<1>4. /\ IsClock(m)
      /\ m.xTickCount = k.xTickCount /\ m.age = k.age
      /\ m.xNumOfOverflows = k.xNumOfOverflows /\ m.exact = ok
      /\ m.asserted = k.asserted /\ m.pxDelayedTaskList = left
      /\ m.pxOverflowDelayedTaskList = k.pxOverflowDelayedTaskList
  BY <1>3 DEF IsClock, Fields
<1> HIDE DEF m
<1>5. /\ IsClock(Reset(m)) /\ FirstIsNoted(Reset(m))
      /\ SameNumbers(Reset(m), m) /\ SameLists(Reset(m), m)
  BY <1>2, <1>4, ResetParts
<1>6. QED
  BY <1>1, <1>4, <1>5 DEF SameNumbers, SameLists, ok, left

-----------------------------------------------------------------------------
(* A tick. *)

(* What is left of a list was there before. *)
LEMMA PartWasThere ==
  ASSUME NEW r, NEW list, PartOf(r, list)
  PROVE  \A i \in DOMAIN r : \E j \in DOMAIN list : r[i] = list[j]
BY DEF PartOf

(* Of two disjoint lists parts are left that are disjoint. *)
LEMMA PartsAreDisjoint ==
  ASSUME NEW r, NEW q, NEW list, NEW other,
         \A i \in DOMAIN r : \E j \in DOMAIN list : r[i] = list[j],
         \A i \in DOMAIN q : \E j \in DOMAIN other : q[i] = other[j],
         Disjoint(list, other)
  PROVE  Disjoint(r, q)
BY DEF Disjoint

(* Who is on a list. *)
LEMMA WhoIsListed ==
  ASSUME NEW k, NEW t
  PROVE  t \in Listed(k) <=>
           \/ \E i \in DOMAIN k.pxDelayedTaskList :
                k.pxDelayedTaskList[i].task = t
           \/ \E i \in DOMAIN k.pxOverflowDelayedTaskList :
                k.pxOverflowDelayedTaskList[i].task = t
BY DEF Listed, ToSet

(* An entry on the delayed list of a clock in the middle of a tick. *)
LEMMA EntryIsTimely ==
  ASSUME KernelTimeAssumption, NEW k, Numbers(k), ListsHaveForm(k),
         TimeIsLeft(k), NEW i \in DOMAIN k.pxDelayedTaskList
  PROVE  LET e == k.pxDelayedTaskList[i] IN
         /\ e.task \in Tasks /\ e.value \in 0 .. Word - 1
         /\ asked[e.task] \in 1 .. portMAX_DELAY
         /\ k.age[e.task] \in 0 .. Word
         /\ k.xTickCount \in Nat /\ e.value >= k.xTickCount
         /\ e.value = k.xTickCount + (asked[e.task] - k.age[e.task])
<1> DEFINE e == k.pxDelayedTaskList[i]
<1>1. e \in Entry
  BY Places DEF ListsHaveForm, ListIsSound
<1>2. e.task \in Tasks /\ e.value \in 0 .. Word - 1
  BY <1>1, EntryParts
<1>3. k.age[e.task] \in 0 .. Word /\ k.xTickCount \in Nat
  BY <1>2 DEF Numbers
<1>4. /\ asked[e.task] \in 1 .. portMAX_DELAY /\ e.value >= k.xTickCount
      /\ e.value = k.xTickCount + (asked[e.task] - k.age[e.task])
  BY DEF TimeIsLeft, MayBeListed
<1>5. QED
  BY <1>2, <1>3, <1>4

(* The tasks that the tick wakes are those whose block time is over. *)
LEMMA LateIsExact ==
  ASSUME KernelTimeAssumption, NEW k, Numbers(k), ListsHaveForm(k),
         TimeIsLeft(k), NEW e \in LateEntries(k)
  PROVE  k.age[e.task] = asked[e.task]
<1>1. PICK i \in DOMAIN k.pxDelayedTaskList : e = k.pxDelayedTaskList[i]
  BY DEF LateEntries, ToSet
<1>2. e.value <= k.xTickCount
  BY DEF LateEntries
<1>3. /\ e.value \in 0 .. Word - 1 /\ asked[e.task] \in 1 .. portMAX_DELAY
      /\ k.age[e.task] \in 0 .. Word
      /\ k.xTickCount \in Nat /\ e.value >= k.xTickCount
      /\ e.value = k.xTickCount + (asked[e.task] - k.age[e.task])
  BY <1>1, EntryIsTimely
<1> HIDE DEF LateEntries
<1>4. QED
  BY <1>2, <1>3 DEF KernelTimeAssumption, portMAX_DELAY

(* Nobody is late before the next unblock time. *)
LEMMA FirstIsLeast ==
  ASSUME KernelTimeAssumption, NEW k, Numbers(k), ListsHaveForm(k),
         TimeIsLeft(k), FirstIsNoted(k),
         NEW i \in DOMAIN k.pxDelayedTaskList
  PROVE  /\ k.xNextTaskUnblockTime <= k.pxDelayedTaskList[i].value
         /\ k.xNextTaskUnblockTime \in Nat
<1> DEFINE list == k.pxDelayedTaskList
<1>1. list \in Seq(Entry) /\ Ordered(list)
  BY DEF ListsHaveForm, ListIsSound
<1>2. list # <<>> /\ 1 \in DOMAIN list /\ i \in Nat /\ i >= 1
  BY <1>1, Places
<1>3. k.xNextTaskUnblockTime = list[1].value
  BY <1>2 DEF FirstIsNoted
<1>4. list[i].value \in Nat /\ list[1].value \in Nat
  BY <1>1, <1>2, Places, EntryParts
<1>5. list[1].value <= list[i].value
  <2>1. CASE i = 1
    BY <1>4, <2>1
  <2>2. CASE 1 < i
    BY <1>1, <1>2, <2>2 DEF Ordered
  <2>3. QED
    BY <1>2, <2>1, <2>2
<1>6. QED
  BY <1>3, <1>4, <1>5

(* Removing entries from the lists leaves what the lists and the times     *)
(* have to be.                                                             *)
LEMMA RemovalKeepsTimes ==
  ASSUME NEW k, NEW j,
         Numbers(k), ListsHaveForm(k), TimeIsLeft(k),
         j.xTickCount = k.xTickCount, j.age = k.age,
         j.pxDelayedTaskList \in Seq(Entry),
         PartOf(j.pxDelayedTaskList, k.pxDelayedTaskList),
         j.pxOverflowDelayedTaskList \in Seq(Entry),
         PartOf(j.pxOverflowDelayedTaskList, k.pxOverflowDelayedTaskList)
  PROVE  /\ ListsHaveForm(j) /\ TimeIsLeft(j)
         /\ NobodyIsLate(k) => NobodyIsLate(j)
         /\ Listed(j) \subseteq Listed(k)
<1>1. /\ \A i \in DOMAIN j.pxDelayedTaskList :
           \E n \in DOMAIN k.pxDelayedTaskList :
             j.pxDelayedTaskList[i] = k.pxDelayedTaskList[n]
      /\ \A i \in DOMAIN j.pxOverflowDelayedTaskList :
           \E n \in DOMAIN k.pxOverflowDelayedTaskList :
             j.pxOverflowDelayedTaskList[i] = k.pxOverflowDelayedTaskList[n]
  BY PartWasThere
<1>2. Disjoint(j.pxDelayedTaskList, j.pxOverflowDelayedTaskList)
  BY <1>1, PartsAreDisjoint DEF ListsHaveForm
<1>3. ListsHaveForm(j)
  BY <1>2, PartIsSound DEF ListsHaveForm
<1>4. TimeIsLeft(j)
  <2>1. ASSUME NEW i \in DOMAIN j.pxDelayedTaskList
        PROVE  LET e == j.pxDelayedTaskList[i] IN
               /\ MayBeListed(e.task)
               /\ e.value >= j.xTickCount
               /\ e.value = j.xTickCount + (asked[e.task] - j.age[e.task])
    BY <1>1 DEF TimeIsLeft
  <2>2. ASSUME NEW i \in DOMAIN j.pxOverflowDelayedTaskList
        PROVE  LET e == j.pxOverflowDelayedTaskList[i] IN
               /\ MayBeListed(e.task)
               /\ e.value + Word =
                    j.xTickCount + (asked[e.task] - j.age[e.task])
    BY <1>1 DEF TimeIsLeft
  <2>3. QED
    BY <2>1, <2>2 DEF TimeIsLeft
<1>5. NobodyIsLate(k) => NobodyIsLate(j)
  BY <1>1 DEF NobodyIsLate
<1>6. Listed(j) \subseteq Listed(k)
  BY <1>1, WhoIsListed
<1>7. QED
  BY <1>3, <1>4, <1>5, <1>6

(* A list is a part of itself. *)
LEMMA WholeIsPart ==
  ASSUME NEW list \in Seq(Entry)
  PROVE  PartOf(list, list)
<1> DEFINE at == [i \in DOMAIN list |-> i]
<1>1. at \in [DOMAIN list -> DOMAIN list]
  OBVIOUS
<1>2. \A i \in DOMAIN list : list[i] = list[at[i]] /\ at[i] = i
  OBVIOUS
<1>3. QED
  BY <1>1, <1>2 DEF PartOf

(* The end of a tick. *)
LEMMA UnblockedIsSound ==
  ASSUME KernelTimeAssumption, NEW k, NearlySound(k)
  PROVE  /\ Sound(Unblocked(k))
         /\ Unblocked(k).xTickCount = k.xTickCount
         /\ Unblocked(k).age = k.age
         /\ Listed(Unblocked(k)) \subseteq Listed(k)
<1>1. /\ IsClock(k) /\ Numbers(k) /\ ListsHaveForm(k) /\ TimeIsLeft(k)
      /\ FirstIsNoted(k) /\ TimeOutsAreTrue(k)
  BY DEF NearlySound
<1>2. CASE k.xTickCount < k.xNextTaskUnblockTime
  <2>1. Unblocked(k) = k
    BY <1>2 DEF Unblocked
  <2>2. NobodyIsLate(k)
    <3> SUFFICES ASSUME NEW i \in DOMAIN k.pxDelayedTaskList
                 PROVE  k.pxDelayedTaskList[i].value > k.xTickCount
      BY DEF NobodyIsLate
    <3>1. /\ k.xNextTaskUnblockTime <= k.pxDelayedTaskList[i].value
          /\ k.xNextTaskUnblockTime \in Nat
      BY <1>1, FirstIsLeast
    <3>2. k.pxDelayedTaskList[i].value \in 0 .. Word - 1
          /\ k.xTickCount \in Nat
      BY <1>1, EntryIsTimely
    <3>3. QED
      BY <1>2, <3>1, <3>2
  <2>3. QED
    BY <2>1, <2>2 DEF Sound
<1>3. CASE ~ (k.xTickCount < k.xNextTaskUnblockTime)
  <2> DEFINE r == Unblocked(k)
             woken == {e.task : e \in LateEntries(k)}
  <2>1. /\ k.pxDelayedTaskList \in Seq(Entry)
        /\ k.pxOverflowDelayedTaskList \in Seq(Entry)
    BY <1>1 DEF ListsHaveForm, ListIsSound
  <2>2. /\ IsClock(r) /\ FirstIsNoted(r)
        /\ r.xTickCount = k.xTickCount /\ r.age = k.age
        /\ r.xNumOfOverflows = k.xNumOfOverflows
        /\ r.asserted = k.asserted
        /\ r.exact = (k.exact /\ \A e \in LateEntries(k) :
                                   k.age[e.task] = asked[e.task])
        /\ r.pxDelayedTaskList = Without(k.pxDelayedTaskList, woken)
        /\ r.pxOverflowDelayedTaskList = k.pxOverflowDelayedTaskList
    BY <1>1, <1>3, <2>1, UnblockedParts
  <2> HIDE DEF r
  <2>3. Numbers(r)
    <3>1. \A e \in LateEntries(k) : k.age[e.task] = asked[e.task]
      BY <1>1, LateIsExact
    <3>2. r.exact = TRUE /\ r.asserted = TRUE
      BY <1>1, <2>2, <3>1 DEF Numbers
    <3>3. QED
      BY <1>1, <2>2, <3>2 DEF Numbers
  <2>4. /\ r.pxDelayedTaskList \in Seq(Entry)
        /\ PartOf(r.pxDelayedTaskList, k.pxDelayedTaskList)
        /\ \A i \in DOMAIN r.pxDelayedTaskList :
             r.pxDelayedTaskList[i].task \notin woken
    <3> HIDE DEF woken
    <3>1. /\ Without(k.pxDelayedTaskList, woken) \in Seq(Entry)
          /\ PartOf(Without(k.pxDelayedTaskList, woken), k.pxDelayedTaskList)
          /\ \A i \in DOMAIN Without(k.pxDelayedTaskList, woken) :
               Without(k.pxDelayedTaskList, woken)[i].task \notin woken
      BY <2>1, WithoutIsPart
    <3>2. QED
      BY <2>2, <3>1
  <2>5. /\ r.pxOverflowDelayedTaskList \in Seq(Entry)
        /\ PartOf(r.pxOverflowDelayedTaskList, k.pxOverflowDelayedTaskList)
    BY <2>1, <2>2, WholeIsPart
  <2>6. /\ ListsHaveForm(r) /\ TimeIsLeft(r)
        /\ Listed(r) \subseteq Listed(k)
    BY <1>1, <2>2, <2>4, <2>5, RemovalKeepsTimes
  <2>7. NobodyIsLate(r)
    <3> SUFFICES ASSUME NEW i \in DOMAIN r.pxDelayedTaskList
                 PROVE  r.pxDelayedTaskList[i].value > r.xTickCount
      BY DEF NobodyIsLate
    <3> DEFINE e == r.pxDelayedTaskList[i]
    <3>1. PICK n \in DOMAIN k.pxDelayedTaskList :
            e = k.pxDelayedTaskList[n]
      BY <2>4, PartWasThere
    <3>2. e \notin LateEntries(k)
      BY <2>4
    <3>3. ~ (e.value <= k.xTickCount)
      BY <3>1, <3>2 DEF LateEntries, ToSet
    <3>4. e.value \in 0 .. Word - 1 /\ k.xTickCount \in Nat
      BY <1>1, <3>1, EntryIsTimely
    <3> HIDE DEF e
    <3>5. e.value > k.xTickCount
      BY <3>3, <3>4 DEF KernelTimeAssumption
    <3>6. QED
      BY <2>2, <3>5 DEF e
  <2>8. TimeOutsAreTrue(r)
    BY <1>1, <2>2 DEF TimeOutsAreTrue, TimeOutIsTrue, Passed
  <2>9. QED
    BY <2>2, <2>3, <2>6, <2>7, <2>8 DEF Sound, NearlySound, r
<1>4. QED
  BY <1>2, <1>3

(* Remainders. *)
LEMMA ModSmall ==
  ASSUME NEW w \in Nat \ {0}, NEW a \in 0 .. w - 1
  PROVE  a % w = a
OBVIOUS

LEMMA ModOnce ==
  ASSUME NEW w \in Nat \ {0}, NEW a \in 0 .. w - 1
  PROVE  (a + w) % w = a
OBVIOUS

LEMMA ModRange ==
  ASSUME NEW w \in Nat \ {0}, NEW a \in Nat
  PROVE  a % w \in 0 .. w - 1
OBVIOUS

LEMMA ModStep ==
  ASSUME NEW w \in Nat \ {0}, NEW a \in Nat
  PROVE  ((a % w) + 1) % w = (a + 1) % w
<1> DEFINE q == a \div w
           r == a % w
<1>1. a = q * w + r /\ q \in Nat /\ r \in 0 .. w - 1
  OBVIOUS
<1> HIDE DEF q
<1>2. ASSUME NEW m \in Nat, NEW s \in 0 .. w - 1
      PROVE  (m * w + s) % w = s
  OBVIOUS
<1>3. CASE r + 1 < w
  <2>1. a + 1 = q * w + (r + 1) /\ r + 1 \in 0 .. w - 1
    BY <1>1, <1>3
  <2>2. (a + 1) % w = r + 1
    BY <1>1, <1>2, <2>1
  <2>3. QED
    BY <1>1, <2>1, <2>2, ModSmall
<1>4. CASE r + 1 = w
  <2>1. a + 1 = (q + 1) * w + 0
    BY <1>1, <1>4
  <2>2. (a + 1) % w = 0
    BY <1>1, <1>2, <2>1
  <2>3. w % w = 0
    BY ModOnce
  <2>4. QED
    BY <1>4, <2>2, <2>3
<1>5. QED
  BY <1>1, <1>3, <1>4

(* The count after a tick. *)
LEMMA NextCount ==
  ASSUME KernelTimeAssumption, NEW c \in 0 .. Word - 1
  PROVE  (c + 1) % Word = IF c = Word - 1 THEN 0 ELSE c + 1
<1>1. Word \in Nat \ {0} /\ c \in Nat
  BY DEF KernelTimeAssumption
<1>2. CASE c = Word - 1
  <2>1. c + 1 = 0 + Word /\ 0 \in 0 .. Word - 1
    BY <1>1, <1>2
  <2>2. QED
    BY <1>1, <1>2, <2>1, ModOnce
<1>3. CASE c # Word - 1
  <2>1. c + 1 \in 0 .. Word - 1
    BY <1>1, <1>3
  <2>2. QED
    BY <1>1, <1>3, <2>1, ModSmall
<1>4. QED
  BY <1>2, <1>3

(* The clock n ticks later, before anybody is woken. *)
Later(k, c, ages) == [k EXCEPT !.xTickCount = c, !.age = ages]

LEMMA LaterParts ==
  ASSUME NEW k, IsClock(k), NEW c, NEW ages
  PROVE  LET j == Later(k, c, ages) IN
         /\ IsClock(j) /\ SameLists(j, k)
         /\ j.xTickCount = c /\ j.age = ages
         /\ j.xNumOfOverflows = k.xNumOfOverflows
         /\ j.xNextTaskUnblockTime = k.xNextTaskUnblockTime
         /\ j.exact = k.exact /\ j.asserted = k.asserted
<1>1. Later(k, c, ages) =
        [f \in Fields |-> IF f = "xTickCount" THEN c
                          ELSE IF f = "age" THEN ages ELSE k[f]]
  <2>1. k = [f \in Fields |-> k[f]]
    BY DEF IsClock
  <2>2. QED
    BY <2>1 DEF Later, Fields
<1>2. QED
  BY <1>1 DEF IsClock, Fields, SameLists

(* The ages go on but for those that rest. *)
LEMMA AgedParts ==
  ASSUME KernelTimeAssumption, NEW k, Numbers(k), NEW n \in Nat,
         \A t \in Tasks : k.age[t] + n <= Word
  PROVE  /\ Aged(k, n) \in [Tasks -> 0 .. Word]
         /\ \A t \in Tasks :
              Aged(k, n)[t] = IF Rests(t) THEN 0 ELSE k.age[t] + n
<1>1. \A t \in Tasks :
        Aged(k, n)[t] = IF Rests(t) THEN 0 ELSE k.age[t] + n
  BY DEF Aged, Rests
<1>2. \A t \in Tasks : k.age[t] \in 0 .. Word
  BY DEF Numbers
<1>3. \A t \in Tasks : Aged(k, n)[t] \in 0 .. Word
  <2> TAKE t \in Tasks
  <2>1. k.age[t] \in Nat /\ k.age[t] + n <= Word /\ Word \in Nat
    BY <1>2 DEF KernelTimeAssumption
  <2>2. 0 \in 0 .. Word /\ k.age[t] + n \in 0 .. Word
    BY <2>1
  <2>3. QED
    BY <1>1, <2>2
<1>4. Aged(k, n) = [t \in Tasks |-> Aged(k, n)[t]]
  BY DEF Aged
<1>5. QED
  BY <1>1, <1>3, <1>4

(* A task on a list is no one that rests. *)
LEMMA ListedDoesNotRest ==
  ASSUME KernelTimeAssumption, NEW t, MayBeListed(t)
  PROVE  ~ Rests(t)
<1>1. asked[t] # Word
  <2>1. asked[t] \in 1 .. Word - 1
    BY DEF MayBeListed, portMAX_DELAY
  <2>2. QED
    BY <2>1 DEF KernelTimeAssumption
<1>2. pc[t] # "run"
  BY DEF MayBeListed
<1>3. QED
  BY <1>1, <1>2 DEF Rests

(* An entry on the overflow list. *)
LEMMA OverflowEntryIsTimely ==
  ASSUME KernelTimeAssumption, NEW k, Numbers(k), ListsHaveForm(k),
         TimeIsLeft(k), NEW i \in DOMAIN k.pxOverflowDelayedTaskList
  PROVE  LET e == k.pxOverflowDelayedTaskList[i] IN
         /\ e.task \in Tasks /\ e.value \in 0 .. Word - 1
         /\ asked[e.task] \in 1 .. portMAX_DELAY
         /\ k.age[e.task] \in 0 .. Word
         /\ MayBeListed(e.task)
         /\ e.value + Word = k.xTickCount + (asked[e.task] - k.age[e.task])
<1> DEFINE e == k.pxOverflowDelayedTaskList[i]
<1>1. e \in Entry
  BY Places DEF ListsHaveForm, ListIsSound
<1>2. e.task \in Tasks /\ e.value \in 0 .. Word - 1
  BY <1>1, EntryParts
<1>3. k.age[e.task] \in 0 .. Word
  BY <1>2 DEF Numbers
<1>4. /\ MayBeListed(e.task)
      /\ e.value + Word = k.xTickCount + (asked[e.task] - k.age[e.task])
  BY DEF TimeIsLeft
<1>5. asked[e.task] \in 1 .. portMAX_DELAY
  BY <1>4 DEF MayBeListed
<1>6. QED
  BY <1>2, <1>3, <1>4, <1>5

(* Ticks without a wrap take from the time that is left, and add to what   *)
(* passed of the waits, as long as nobody's time is stepped over.          *)
LEMMA LaterIsNearlySound ==
  ASSUME KernelTimeAssumption, asked \in [Tasks -> 0 .. Word],
         NEW k, Sound(k), NEW n \in Nat,
         \A t \in Tasks : k.age[t] + n <= Word,
         k.xTickCount + n < Word,
         \A i \in DOMAIN k.pxDelayedTaskList :
           k.pxDelayedTaskList[i].value >= k.xTickCount + n
  PROVE  NearlySound(Later(k, k.xTickCount + n, Aged(k, n)))
<1> DEFINE j == Later(k, k.xTickCount + n, Aged(k, n))
<1>1. /\ IsClock(k) /\ Numbers(k) /\ ListsHaveForm(k) /\ TimeIsLeft(k)
      /\ FirstIsNoted(k) /\ TimeOutsAreTrue(k)
  BY DEF Sound, NearlySound
<1>2. /\ IsClock(j) /\ SameLists(j, k)
      /\ j.xTickCount = k.xTickCount + n /\ j.age = Aged(k, n)
      /\ j.xNumOfOverflows = k.xNumOfOverflows
      /\ j.xNextTaskUnblockTime = k.xNextTaskUnblockTime
      /\ j.exact = k.exact /\ j.asserted = k.asserted
  BY <1>1, LaterParts
<1>3. /\ Aged(k, n) \in [Tasks -> 0 .. Word]
      /\ \A t \in Tasks :
           Aged(k, n)[t] = IF Rests(t) THEN 0 ELSE k.age[t] + n
  BY <1>1, AgedParts
<1>4. k.xTickCount \in Nat /\ k.xTickCount + n \in 0 .. Word - 1
  <2>1. k.xTickCount \in 0 .. Word - 1 /\ Word \in Nat
    BY <1>1 DEF Numbers, KernelTimeAssumption
  <2>2. QED
    BY <2>1
<1> HIDE DEF j
<1>5. Numbers(j)
  BY <1>1, <1>2, <1>3, <1>4 DEF Numbers
<1>6. ListsHaveForm(j)
  BY <1>1, <1>2 DEF SameLists, ListsHaveForm
<1>7. FirstIsNoted(j)
  BY <1>1, <1>2 DEF SameLists, FirstIsNoted
<1>8. TimeIsLeft(j)
  <2>1. ASSUME NEW i \in DOMAIN j.pxDelayedTaskList
        PROVE  LET e == j.pxDelayedTaskList[i] IN
               /\ MayBeListed(e.task)
               /\ e.value >= j.xTickCount
               /\ e.value = j.xTickCount + (asked[e.task] - j.age[e.task])
    <3> DEFINE e == j.pxDelayedTaskList[i]
    <3>1. i \in DOMAIN k.pxDelayedTaskList /\ e = k.pxDelayedTaskList[i]
      BY <1>2 DEF SameLists
    <3>2. MayBeListed(e.task)
      BY <1>1, <3>1 DEF TimeIsLeft
    <3>3. /\ e.task \in Tasks /\ e.value \in 0 .. Word - 1
          /\ asked[e.task] \in 1 .. portMAX_DELAY
          /\ k.age[e.task] \in 0 .. Word
          /\ e.value = k.xTickCount + (asked[e.task] - k.age[e.task])
      BY <1>1, <3>1, EntryIsTimely
    <3>4. j.age[e.task] = k.age[e.task] + n
      BY <1>2, <1>3, <3>2, <3>3, ListedDoesNotRest
    <3>5. e.value >= j.xTickCount
      BY <1>2, <3>1
    <3> HIDE DEF e
    <3>6. /\ k.age[e.task] \in Int /\ asked[e.task] \in Int
      BY <3>3
    <3>7. e.value = j.xTickCount + (asked[e.task] - j.age[e.task])
      BY <1>2, <1>4, <3>3, <3>4, <3>6
    <3>8. QED
      BY <3>2, <3>5, <3>7 DEF e
  <2>2. ASSUME NEW i \in DOMAIN j.pxOverflowDelayedTaskList
        PROVE  LET e == j.pxOverflowDelayedTaskList[i] IN
               /\ MayBeListed(e.task)
               /\ e.value + Word =
                    j.xTickCount + (asked[e.task] - j.age[e.task])
    <3> DEFINE e == j.pxOverflowDelayedTaskList[i]
    <3>1. /\ i \in DOMAIN k.pxOverflowDelayedTaskList
          /\ e = k.pxOverflowDelayedTaskList[i]
      BY <1>2 DEF SameLists
    <3>2. /\ e.task \in Tasks
          /\ asked[e.task] \in 1 .. portMAX_DELAY
          /\ k.age[e.task] \in 0 .. Word
          /\ MayBeListed(e.task)
          /\ e.value + Word = k.xTickCount + (asked[e.task] - k.age[e.task])
      BY <1>1, <3>1, OverflowEntryIsTimely
    <3>3. j.age[e.task] = k.age[e.task] + n
      BY <1>2, <1>3, <3>2, ListedDoesNotRest
    <3> HIDE DEF e
    <3>4. /\ k.age[e.task] \in Int /\ asked[e.task] \in Int
      BY <3>2
    <3>5. e.value + Word = j.xTickCount + (asked[e.task] - j.age[e.task])
      BY <1>2, <1>4, <3>2, <3>3, <3>4
    <3>6. QED
      BY <3>2, <3>5 DEF e
  <2>3. QED
    BY <2>1, <2>2 DEF TimeIsLeft
<1>9. TimeOutsAreTrue(j)
  <2> SUFFICES ASSUME NEW t \in Tasks, pc[t] \in Waiting
               PROVE  TimeOutIsTrue(j, t)
    BY DEF TimeOutsAreTrue
  <2>1. TimeOutIsTrue(k, t)
    BY <1>1 DEF TimeOutsAreTrue
  <2>2. CASE asked[t] = Word
    BY <2>1, <2>2 DEF TimeOutIsTrue
  <2>3. CASE asked[t] # Word
    <3> DEFINE o == xTimeOut[t]
    <3>1. ~ Rests(t)
      BY <2>3 DEF Rests, Waiting
    <3>2. j.age[t] = k.age[t] + n /\ k.age[t] \in 0 .. Word
      BY <1>1, <1>2, <1>3, <3>1 DEF Numbers
    <3>3. /\ o.xTicksToWait \in 1 .. portMAX_DELAY - 1
          /\ o.xTicksToWait <= asked[t]
          /\ o.xTimeOnEntering \in 0 .. Word - 1
          /\ o.xOverflowCount \in 0 .. OverflowWord - 1
          /\ Passed(k, t) >= 0
          /\ \/ /\ o.xTimeOnEntering + Passed(k, t) = k.xTickCount
                /\ k.xNumOfOverflows = o.xOverflowCount
             \/ /\ o.xTimeOnEntering + Passed(k, t) = k.xTickCount + Word
                /\ k.xNumOfOverflows = (o.xOverflowCount + 1) % OverflowWord
      BY <2>1, <2>3 DEF TimeOutIsTrue
    <3>4. asked[t] \in 0 .. Word
      OBVIOUS
    <3>5. Passed(j, t) = Passed(k, t) + n
      BY <3>2, <3>3, <3>4 DEF Passed
    <3>6. Passed(k, t) \in Int
      BY <3>2, <3>3, <3>4 DEF Passed
    <3> HIDE DEF o
    <3>7. Passed(j, t) >= 0
      BY <3>3, <3>5, <3>6
    <3>8. ASSUME o.xTimeOnEntering + Passed(k, t) = k.xTickCount
          PROVE  o.xTimeOnEntering + Passed(j, t) = j.xTickCount
      BY <1>2, <1>4, <3>3, <3>5, <3>6, <3>8
    <3>9. ASSUME o.xTimeOnEntering + Passed(k, t) = k.xTickCount + Word
          PROVE  o.xTimeOnEntering + Passed(j, t) = j.xTickCount + Word
      <4>1. Word \in Nat
        BY DEF KernelTimeAssumption
      <4>2. QED
        BY <1>2, <1>4, <3>3, <3>5, <3>6, <3>9, <4>1
    <3>10. QED
      BY <1>2, <2>3, <3>3, <3>7, <3>8, <3>9 DEF TimeOutIsTrue, o
  <2>4. QED
    BY <2>2, <2>3
<1>10. QED
  BY <1>2, <1>5, <1>6, <1>7, <1>8, <1>9 DEF NearlySound, j

(* When the tick count wraps, nobody is left on the delayed list, and the  *)
(* other takes its place.                                                  *)
LEMMA WrappedIsNearlySound ==
  ASSUME KernelTimeAssumption, asked \in [Tasks -> 0 .. Word],
         NEW k, Sound(k), \A t \in Tasks : k.age[t] + 1 <= Word,
         k.xTickCount = Word - 1
  PROVE  /\ NearlySound(Switched(Later(k, 0, Aged(k, 1))))
         /\ Switched(Later(k, 0, Aged(k, 1))).xTickCount = 0
         /\ Switched(Later(k, 0, Aged(k, 1))).age = Aged(k, 1)
         /\ Listed(Switched(Later(k, 0, Aged(k, 1)))) \subseteq Listed(k)
<1> DEFINE j == Later(k, 0, Aged(k, 1))
           r == Switched(j)
<1>1. /\ IsClock(k) /\ Numbers(k) /\ ListsHaveForm(k) /\ TimeIsLeft(k)
      /\ FirstIsNoted(k) /\ TimeOutsAreTrue(k) /\ NobodyIsLate(k)
  BY DEF Sound, NearlySound
<1>2. /\ IsClock(j) /\ SameLists(j, k)
      /\ j.xTickCount = 0 /\ j.age = Aged(k, 1)
      /\ j.xNumOfOverflows = k.xNumOfOverflows
      /\ j.xNextTaskUnblockTime = k.xNextTaskUnblockTime
      /\ j.exact = k.exact /\ j.asserted = k.asserted
  BY <1>1, LaterParts
<1>3. /\ Aged(k, 1) \in [Tasks -> 0 .. Word]
      /\ \A t \in Tasks :
           Aged(k, 1)[t] = IF Rests(t) THEN 0 ELSE k.age[t] + 1
  BY <1>1, AgedParts
<1>4. Word \in Nat /\ Word > 2 /\ OverflowWord \in Nat \ {0}
  BY DEF KernelTimeAssumption
<1>5. k.pxDelayedTaskList = <<>>
  <2> SUFFICES ASSUME k.pxDelayedTaskList # <<>>
               PROVE  FALSE
    OBVIOUS
  <2>1. 1 \in DOMAIN k.pxDelayedTaskList
    BY <1>1, Places DEF ListsHaveForm, ListIsSound
  <2>2. k.pxDelayedTaskList[1].value \in 0 .. Word - 1
    BY <1>1, <2>1, EntryIsTimely
  <2>3. k.pxDelayedTaskList[1].value > Word - 1
    BY <1>1, <2>1 DEF NobodyIsLate
  <2>4. QED
    BY <1>4, <2>2, <2>3
<1> HIDE DEF j
<1>6. /\ IsClock(r) /\ FirstIsNoted(r)
      /\ r.xTickCount = 0 /\ r.age = Aged(k, 1)
      /\ r.xNumOfOverflows = (k.xNumOfOverflows + 1) % OverflowWord
      /\ r.exact = k.exact /\ r.asserted = (k.asserted /\ TRUE)
      /\ r.pxDelayedTaskList = k.pxOverflowDelayedTaskList
      /\ r.pxOverflowDelayedTaskList = <<>>
  <2>1. j.pxOverflowDelayedTaskList \in Seq(Entry)
    BY <1>1, <1>2 DEF SameLists, ListsHaveForm, ListIsSound
  <2>2. /\ IsClock(r) /\ FirstIsNoted(r)
        /\ r.xTickCount = j.xTickCount /\ r.age = j.age
        /\ r.xNumOfOverflows = (j.xNumOfOverflows + 1) % OverflowWord
        /\ r.exact = j.exact
        /\ r.asserted = (j.asserted /\ j.pxDelayedTaskList = <<>>)
        /\ r.pxDelayedTaskList = j.pxOverflowDelayedTaskList
        /\ r.pxOverflowDelayedTaskList = j.pxDelayedTaskList
    BY <1>2, <2>1, SwitchedParts
  <2> HIDE DEF r
  <2>3. j.pxDelayedTaskList = <<>>
    BY <1>2, <1>5 DEF SameLists
  <2>4. QED
    BY <1>2, <2>2, <2>3 DEF SameLists
<1> HIDE DEF r
<1>7. Numbers(r)
  <2>1. (k.xNumOfOverflows + 1) % OverflowWord \in 0 .. OverflowWord - 1
    <3>1. k.xNumOfOverflows + 1 \in Nat
      BY <1>1, <1>4 DEF Numbers
    <3>2. QED
      BY <1>4, <3>1, ModRange
  <2>2. 0 \in 0 .. Word - 1
    BY <1>4
  <2>3. r.exact = TRUE /\ r.asserted = TRUE
    BY <1>1, <1>6 DEF Numbers
  <2>4. QED
    BY <1>3, <1>6, <2>1, <2>2, <2>3 DEF Numbers
<1>8. DOMAIN r.pxOverflowDelayedTaskList = {}
  BY <1>6
<1>9. ListsHaveForm(r)
  <2>1. ListIsSound(r.pxOverflowDelayedTaskList)
    <3>1. <<>> \in Seq(Entry)
      OBVIOUS
    <3>2. QED
      BY <1>6, <1>8, <3>1 DEF ListIsSound, Ordered, Once
  <2>2. Disjoint(r.pxDelayedTaskList, r.pxOverflowDelayedTaskList)
    BY <1>8 DEF Disjoint
  <2>3. QED
    BY <1>1, <1>6, <2>1, <2>2 DEF ListsHaveForm
<1>10. TimeIsLeft(r)
  <2>1. ASSUME NEW i \in DOMAIN r.pxDelayedTaskList
        PROVE  LET e == r.pxDelayedTaskList[i] IN
               /\ MayBeListed(e.task)
               /\ e.value >= r.xTickCount
               /\ e.value = r.xTickCount + (asked[e.task] - r.age[e.task])
    <3> DEFINE e == r.pxDelayedTaskList[i]
    <3>1. /\ i \in DOMAIN k.pxOverflowDelayedTaskList
          /\ e = k.pxOverflowDelayedTaskList[i]
      BY <1>6
    <3>2. /\ e.task \in Tasks /\ e.value \in 0 .. Word - 1
          /\ asked[e.task] \in 1 .. portMAX_DELAY
          /\ k.age[e.task] \in 0 .. Word
          /\ MayBeListed(e.task)
          /\ e.value + Word = k.xTickCount + (asked[e.task] - k.age[e.task])
      BY <1>1, <3>1, OverflowEntryIsTimely
    <3>3. r.age[e.task] = k.age[e.task] + 1
      BY <1>3, <1>6, <3>2, ListedDoesNotRest
    <3> HIDE DEF e
    <3>4. /\ k.age[e.task] \in Int /\ asked[e.task] \in Int
          /\ e.value \in Int /\ e.value >= 0
      BY <1>4, <3>2
    <3>5. e.value >= r.xTickCount
      BY <1>6, <3>4
    <3>6. e.value + Word = Word - 1 + (asked[e.task] - k.age[e.task])
      BY <3>2
    <3>7. e.value = 0 + (asked[e.task] - r.age[e.task])
      BY <1>4, <3>3, <3>4, <3>6
    <3>8. QED
      BY <1>6, <3>2, <3>5, <3>7 DEF e
  <2>2. QED
    BY <1>8, <2>1 DEF TimeIsLeft
<1>11. TimeOutsAreTrue(r)
  <2> SUFFICES ASSUME NEW t \in Tasks, pc[t] \in Waiting
               PROVE  TimeOutIsTrue(r, t)
    BY DEF TimeOutsAreTrue
  <2>1. TimeOutIsTrue(k, t)
    BY <1>1 DEF TimeOutsAreTrue
  <2>2. CASE asked[t] = Word
    BY <2>1, <2>2 DEF TimeOutIsTrue
  <2>3. CASE asked[t] # Word
    <3> DEFINE o == xTimeOut[t]
    <3>1. ~ Rests(t)
      BY <2>3 DEF Rests, Waiting
    <3>2. r.age[t] = k.age[t] + 1 /\ k.age[t] \in 0 .. Word
      BY <1>1, <1>3, <1>6, <3>1 DEF Numbers
    <3>3. /\ o.xTicksToWait \in 1 .. portMAX_DELAY - 1
          /\ o.xTicksToWait <= asked[t]
          /\ o.xTimeOnEntering \in 0 .. Word - 1
          /\ o.xOverflowCount \in 0 .. OverflowWord - 1
          /\ Passed(k, t) >= 0
          /\ \/ /\ o.xTimeOnEntering + Passed(k, t) = k.xTickCount
                /\ k.xNumOfOverflows = o.xOverflowCount
             \/ o.xTimeOnEntering + Passed(k, t) = k.xTickCount + Word
      BY <2>1, <2>3 DEF TimeOutIsTrue
    <3>4. asked[t] \in 0 .. Word
      OBVIOUS
    <3>5. Passed(r, t) = Passed(k, t) + 1
      BY <3>2, <3>3, <3>4 DEF Passed
    <3>6. Passed(k, t) \in Int /\ Passed(k, t) <= k.age[t]
      BY <3>2, <3>3, <3>4 DEF Passed
    <3> HIDE DEF o
    <3>7. Passed(r, t) >= 0
      BY <3>3, <3>5, <3>6
    <3>8. k.age[t] + 1 <= Word /\ k.age[t] \in Int
      BY <3>2
    <3>9. ~ (o.xTimeOnEntering + Passed(k, t) = k.xTickCount + Word)
      BY <1>4, <3>3, <3>6, <3>8
    <3>10. /\ o.xTimeOnEntering + Passed(k, t) = Word - 1
           /\ k.xNumOfOverflows = o.xOverflowCount
      BY <3>3, <3>9
    <3>11. o.xTimeOnEntering + Passed(r, t) = r.xTickCount + Word
      <4>1. r.xTickCount + Word = Word
        BY <1>4, <1>6
      <4>2. o.xTimeOnEntering + (Passed(k, t) + 1) = Word
        <5>1. o.xTimeOnEntering + Passed(k, t) = Word - 1
          BY <3>10
        <5>2. o.xTimeOnEntering \in Int
          BY <3>3
        <5>3. QED
          BY <1>4, <3>6, <5>1, <5>2
      <4>3. QED
        BY <3>5, <4>1, <4>2
    <3>12. r.xNumOfOverflows = (o.xOverflowCount + 1) % OverflowWord
      BY <1>6, <3>10
    <3>13. QED
      BY <2>3, <3>3, <3>7, <3>11, <3>12 DEF TimeOutIsTrue, o
  <2>4. QED
    BY <2>2, <2>3
<1>12. Listed(r) \subseteq Listed(k)
  BY <1>6, WhoIsListed
<1>13. QED
  BY <1>6, <1>7, <1>9, <1>10, <1>11, <1>12 DEF NearlySound, r, j

(* A tick: the count goes on, everybody who waits ages, and those whose    *)
(* time is over are woken.                                                 *)
LEMMA TickedIsSound ==
  ASSUME KernelTimeAssumption, asked \in [Tasks -> 0 .. Word],
         NEW k, Sound(k), \A t \in Tasks : k.age[t] + 1 <= Word
  PROVE  /\ Sound(Ticked(k))
         /\ Ticked(k).xTickCount = (k.xTickCount + 1) % Word
         /\ Ticked(k).age = Aged(k, 1)
         /\ Listed(Ticked(k)) \subseteq Listed(k)
<1> DEFINE n == (k.xTickCount + 1) % Word
           j == Later(k, n, Aged(k, 1))
<1>1. Ticked(k) = Unblocked(IF n = 0 THEN Switched(j) ELSE j)
  BY DEF Ticked, Later
<1>2. /\ IsClock(k) /\ Numbers(k) /\ ListsHaveForm(k) /\ TimeIsLeft(k)
      /\ NobodyIsLate(k)
  BY DEF Sound, NearlySound
<1>3. k.xTickCount \in 0 .. Word - 1 /\ Word \in Nat
  BY <1>2 DEF Numbers, KernelTimeAssumption
<1>4. n = IF k.xTickCount = Word - 1 THEN 0 ELSE k.xTickCount + 1
  BY <1>3, NextCount
<1>5. CASE k.xTickCount = Word - 1
  <2> DEFINE s == Switched(Later(k, 0, Aged(k, 1)))
  <2>1. n = 0
    BY <1>4, <1>5
  <2>2. NearlySound(s) /\ s.xTickCount = 0 /\ s.age = Aged(k, 1)
        /\ Listed(s) \subseteq Listed(k)
    BY <1>5, WrappedIsNearlySound
  <2>3. Ticked(k) = Unblocked(s)
    BY <1>1, <2>1
  <2> HIDE DEF s, n, j
  <2>4. QED
    BY <2>1, <2>2, <2>3, UnblockedIsSound DEF n
<1>6. CASE k.xTickCount # Word - 1
  <2>1. n = k.xTickCount + 1 /\ n # 0 /\ n < Word
    BY <1>3, <1>4, <1>6
  <2>2. \A i \in DOMAIN k.pxDelayedTaskList :
          k.pxDelayedTaskList[i].value >= k.xTickCount + 1
    <3> TAKE i \in DOMAIN k.pxDelayedTaskList
    <3>1. k.pxDelayedTaskList[i].value > k.xTickCount
      BY <1>2 DEF NobodyIsLate
    <3>2. k.pxDelayedTaskList[i].value \in 0 .. Word - 1
      BY <1>2, EntryIsTimely
    <3>3. QED
      BY <1>3, <3>1, <3>2
  <2>3. NearlySound(Later(k, k.xTickCount + 1, Aged(k, 1)))
    BY <2>1, <2>2, LaterIsNearlySound
  <2>4. j = Later(k, k.xTickCount + 1, Aged(k, 1))
    BY <2>1
  <2>5. j.xTickCount = n /\ j.age = Aged(k, 1) /\ SameLists(j, k)
    BY <1>2, LaterParts
  <2>6. Ticked(k) = Unblocked(j)
    BY <1>1, <2>1
  <2>7. Listed(j) = Listed(k)
    BY <2>5 DEF SameLists, Listed
  <2> HIDE DEF j
  <2>8. /\ Sound(Ticked(k)) /\ Ticked(k).xTickCount = n
        /\ Ticked(k).age = Aged(k, 1)
        /\ Listed(Ticked(k)) \subseteq Listed(k)
    BY <2>3, <2>4, <2>5, <2>6, <2>7, UnblockedIsSound
  <2>9. QED
    BY <2>8
<1>7. QED
  BY <1>5, <1>6

-----------------------------------------------------------------------------
(* Steps of the tasks. *)

(* A task's call may go on if the clock knows of it what it has to. *)
LEMMA CallsGoOn ==
  ASSUME NEW k, Sound(k),
         IsClock(clock'), SameLists(clock', k),
         clock'.xTickCount = k.xTickCount,
         clock'.xNumOfOverflows = k.xNumOfOverflows,
         clock'.xNextTaskUnblockTime = k.xNextTaskUnblockTime,
         clock'.exact = k.exact, clock'.asserted = k.asserted,
         clock'.age \in [Tasks -> 0 .. Word],
         \A t \in Tasks : Rests(t)' => clock'.age[t] = 0,
         \A t \in Listed(k) : /\ MayBeListed(t)' /\ asked'[t] = asked[t]
                              /\ clock'.age[t] = k.age[t],
         \A t \in Tasks : pc'[t] \in Waiting =>
           \/ TimeOutIsTrue(clock, t)'
           \/ /\ pc[t] \in Waiting /\ asked'[t] = asked[t]
              /\ xTimeOut'[t] = xTimeOut[t] /\ clock'.age[t] = k.age[t]
  PROVE  Sound(clock)'
<1>1. /\ IsClock(k) /\ Numbers(k) /\ ListsHaveForm(k) /\ TimeIsLeft(k)
      /\ FirstIsNoted(k) /\ TimeOutsAreTrue(k) /\ NobodyIsLate(k)
  BY DEF Sound, NearlySound
<1>2. IsClock(clock)'
  BY DEF IsClock
<1>3. Numbers(clock)'
  BY <1>1 DEF Numbers
<1>4. ListsHaveForm(clock)'
  BY <1>1 DEF ListsHaveForm, SameLists, ListIsSound, Ordered, Once, Disjoint,
              Entry
<1>5. TimeIsLeft(clock)'
  <2>1. \A i \in DOMAIN k.pxDelayedTaskList :
          LET e == k.pxDelayedTaskList[i] IN
          /\ e.task \in Listed(k)
          /\ e.value >= clock'.xTickCount
          /\ e.value = clock'.xTickCount + (asked[e.task] - k.age[e.task])
    BY <1>1, WhoIsListed DEF TimeIsLeft
  <2>2. \A i \in DOMAIN k.pxOverflowDelayedTaskList :
          LET e == k.pxOverflowDelayedTaskList[i] IN
          /\ e.task \in Listed(k)
          /\ e.value + Word =
               clock'.xTickCount + (asked[e.task] - k.age[e.task])
    BY <1>1, WhoIsListed DEF TimeIsLeft
  <2>3. ASSUME NEW i \in DOMAIN clock'.pxDelayedTaskList
        PROVE  LET e == clock'.pxDelayedTaskList[i] IN
               /\ pc'[e.task] \in
                    {"delaying", "delayed", "blocking", "blocked"}
               /\ asked'[e.task] \in 1 .. portMAX_DELAY
               /\ e.value >= clock'.xTickCount
               /\ e.value = clock'.xTickCount +
                              (asked'[e.task] - clock'.age[e.task])
    <3> DEFINE e == k.pxDelayedTaskList[i]
    <3>1. /\ i \in DOMAIN k.pxDelayedTaskList
          /\ clock'.pxDelayedTaskList[i] = e
      BY DEF SameLists
    <3>2. /\ e.task \in Listed(k) /\ e.value >= clock'.xTickCount
          /\ e.value = clock'.xTickCount + (asked[e.task] - k.age[e.task])
      BY <2>1, <3>1
    <3> HIDE DEF e
    <3>3. /\ pc'[e.task] \in {"delaying", "delayed", "blocking", "blocked"}
          /\ asked'[e.task] \in 1 .. portMAX_DELAY
          /\ asked'[e.task] = asked[e.task]
          /\ clock'.age[e.task] = k.age[e.task]
      BY <3>2 DEF MayBeListed, portMAX_DELAY
    <3>4. QED
      BY <3>1, <3>2, <3>3
  <2>4. ASSUME NEW i \in DOMAIN clock'.pxOverflowDelayedTaskList
        PROVE  LET e == clock'.pxOverflowDelayedTaskList[i] IN
               /\ pc'[e.task] \in
                    {"delaying", "delayed", "blocking", "blocked"}
               /\ asked'[e.task] \in 1 .. portMAX_DELAY
               /\ e.value + Word = clock'.xTickCount +
                                     (asked'[e.task] - clock'.age[e.task])
    <3> DEFINE e == k.pxOverflowDelayedTaskList[i]
    <3>1. /\ i \in DOMAIN k.pxOverflowDelayedTaskList
          /\ clock'.pxOverflowDelayedTaskList[i] = e
      BY DEF SameLists
    <3>2. /\ e.task \in Listed(k)
          /\ e.value + Word =
               clock'.xTickCount + (asked[e.task] - k.age[e.task])
      BY <2>2, <3>1
    <3> HIDE DEF e
    <3>3. /\ pc'[e.task] \in {"delaying", "delayed", "blocking", "blocked"}
          /\ asked'[e.task] \in 1 .. portMAX_DELAY
          /\ asked'[e.task] = asked[e.task]
          /\ clock'.age[e.task] = k.age[e.task]
      BY <3>2 DEF MayBeListed, portMAX_DELAY
    <3>4. QED
      BY <3>1, <3>2, <3>3
  <2>5. QED
    BY <2>3, <2>4 DEF TimeIsLeft, MayBeListed, portMAX_DELAY
<1>6. FirstIsNoted(clock)'
  BY <1>1 DEF FirstIsNoted, SameLists, portMAX_DELAY
<1>7. NobodyIsLate(clock)'
  BY <1>1 DEF NobodyIsLate, SameLists
<1>8. TimeOutsAreTrue(clock)'
  <2> SUFFICES ASSUME NEW t \in Tasks, pc'[t] \in Waiting,
                      pc[t] \in Waiting, asked'[t] = asked[t],
                      xTimeOut'[t] = xTimeOut[t],
                      clock'.age[t] = k.age[t]
               PROVE  TimeOutIsTrue(clock, t)'
    BY DEF TimeOutsAreTrue, Waiting
  <2>1. TimeOutIsTrue(k, t)
    BY <1>1 DEF TimeOutsAreTrue
  <2>2. QED
    BY <2>1 DEF TimeOutIsTrue, Passed, portMAX_DELAY
<1>9. QED
  BY <1>2, <1>3, <1>4, <1>5, <1>6, <1>7, <1>8 DEF Sound, NearlySound

(* What prvAddCurrentTaskToDelayedList changes of the clock. *)
LEMMA AddCurrentTaskParts ==
  ASSUME NEW k, IsClock(k), NEW t, NEW ticks, NEW indefinite \in BOOLEAN,
         ~ (ticks = portMAX_DELAY /\ indefinite),
         NEW wake, wake = (k.xTickCount + ticks) % Word,
         NEW e, e = [task |-> t, value |-> wake],
         NEW r, r = AddCurrentTask(k, t, ticks, indefinite)
  PROVE  /\ IsClock(r) /\ SameNumbers(r, k)
         /\ wake < k.xTickCount =>
              /\ r.pxDelayedTaskList = k.pxDelayedTaskList
              /\ r.pxOverflowDelayedTaskList =
                   Inserted(k.pxOverflowDelayedTaskList, e)
              /\ r.xNextTaskUnblockTime = k.xNextTaskUnblockTime
         /\ ~ (wake < k.xTickCount) =>
              /\ r.pxDelayedTaskList = Inserted(k.pxDelayedTaskList, e)
              /\ r.pxOverflowDelayedTaskList = k.pxOverflowDelayedTaskList
              /\ r.xNextTaskUnblockTime =
                   IF wake < k.xNextTaskUnblockTime THEN wake
                   ELSE k.xNextTaskUnblockTime
<1> DEFINE first == IF wake < k.xNextTaskUnblockTime THEN wake
                    ELSE k.xNextTaskUnblockTime
           one == Inserted(k.pxDelayedTaskList, e)
           other == Inserted(k.pxOverflowDelayedTaskList, e)
<1>1. k = [f \in Fields |-> k[f]]
  BY DEF IsClock
<1>2. CASE wake < k.xTickCount
  <2>1. r = [k EXCEPT !.pxOverflowDelayedTaskList = other]
    BY <1>2 DEF AddCurrentTask
  <2> HIDE DEF other
  <2>2. r = [f \in Fields |->
               IF f = "pxOverflowDelayedTaskList" THEN other ELSE k[f]]
    BY <1>1, <2>1 DEF Fields
  <2>3. /\ IsClock(r) /\ SameNumbers(r, k)
        /\ r.pxDelayedTaskList = k.pxDelayedTaskList
        /\ r.pxOverflowDelayedTaskList = other
        /\ r.xNextTaskUnblockTime = k.xNextTaskUnblockTime
    BY <2>2 DEF IsClock, Fields, SameNumbers
  <2>4. QED
    BY <1>2, <2>3 DEF other
<1>3. CASE ~ (wake < k.xTickCount)
  <2>1. r = [k EXCEPT !.pxDelayedTaskList = one,
                      !.xNextTaskUnblockTime = first]
    BY <1>3 DEF AddCurrentTask
  <2> HIDE DEF one, first
  <2>2. r = [f \in Fields |->
               IF f = "pxDelayedTaskList" THEN one
               ELSE IF f = "xNextTaskUnblockTime" THEN first ELSE k[f]]
    BY <1>1, <2>1 DEF Fields
  <2>3. /\ IsClock(r) /\ SameNumbers(r, k)
        /\ r.pxDelayedTaskList = one
        /\ r.pxOverflowDelayedTaskList = k.pxOverflowDelayedTaskList
        /\ r.xNextTaskUnblockTime = first
    BY <2>2 DEF IsClock, Fields, SameNumbers
  <2>4. QED
    BY <1>3, <2>3 DEF one, first
<1>4. QED
  BY <1>2, <1>3

(* The wake time, and the list that it is for. *)
LEMMA WakeTime ==
  ASSUME KernelTimeAssumption, NEW c \in 0 .. Word - 1,
         NEW ticks \in 1 .. portMAX_DELAY
  PROVE  LET wake == (c + ticks) % Word IN
         /\ wake \in 0 .. Word - 1
         /\ wake < c => wake + Word = c + ticks
         /\ ~ (wake < c) => wake > c /\ wake = c + ticks
<1>1. Word \in Nat \ {0} /\ c \in Nat /\ ticks \in 1 .. Word - 1
  BY DEF KernelTimeAssumption, portMAX_DELAY
<1>2. CASE c + ticks < Word
  <2>1. c + ticks \in 0 .. Word - 1
    BY <1>1, <1>2
  <2>2. (c + ticks) % Word = c + ticks
    BY <1>1, <2>1, ModSmall
  <2>3. QED
    BY <1>1, <2>1, <2>2
<1>3. CASE c + ticks >= Word
  <2>1. c + ticks - Word \in 0 .. Word - 1 /\ c + ticks - Word < c
    BY <1>1, <1>3
  <2>2. (c + ticks - Word) + Word = c + ticks
    BY <1>1
  <2>3. ((c + ticks - Word) + Word) % Word = c + ticks - Word
    BY <1>1, <2>1, ModOnce
  <2>4. (c + ticks) % Word = c + ticks - Word
    BY <2>2, <2>3
  <2>5. QED
    BY <1>1, <2>1, <2>2, <2>4
<1>4. QED
  BY <1>1, <1>2, <1>3

(* The next unblock time follows the head of the delayed list. *)
LEMMA FirstAfterInsertion ==
  ASSUME KernelTimeAssumption, NEW k, FirstIsNoted(k),
         ListIsSound(k.pxDelayedTaskList), NEW e \in Entry,
         NEW r, NEW one, r.pxDelayedTaskList = one, one # <<>>,
         one[1] = IF \/ k.pxDelayedTaskList = <<>>
                     \/ e.value < k.pxDelayedTaskList[1].value
                  THEN e ELSE k.pxDelayedTaskList[1],
         r.xNextTaskUnblockTime =
           IF e.value < k.xNextTaskUnblockTime THEN e.value
           ELSE k.xNextTaskUnblockTime
  PROVE  FirstIsNoted(r)
<1>1. e.value \in 0 .. Word - 1 /\ Word \in Nat
  BY EntryParts DEF KernelTimeAssumption
<1>2. CASE k.pxDelayedTaskList = <<>>
  <2>1. k.xNextTaskUnblockTime = Word - 1 /\ one[1] = e
    BY <1>2 DEF FirstIsNoted, portMAX_DELAY
  <2>2. r.xNextTaskUnblockTime = e.value
    BY <1>1, <2>1
  <2>3. QED
    BY <2>1, <2>2 DEF FirstIsNoted
<1>3. CASE k.pxDelayedTaskList # <<>>
  <2>1. k.xNextTaskUnblockTime = k.pxDelayedTaskList[1].value
    BY <1>3 DEF FirstIsNoted
  <2>2. r.xNextTaskUnblockTime = one[1].value
    BY <1>3, <2>1
  <2>3. QED
    BY <2>2 DEF FirstIsNoted
<1>4. QED
  BY <1>2, <1>3

(* A task that goes to sleep for the rest of its block time. *)
LEMMA AddedIsSound ==
  ASSUME KernelTimeAssumption, Sound(clock),
         NEW t \in Tasks, t \notin Listed(clock),
         NEW ticks \in 1 .. portMAX_DELAY, NEW indefinite \in BOOLEAN,
         ~ (ticks = portMAX_DELAY /\ indefinite),
         clock' = AddCurrentTask(clock, t, ticks, indefinite),
         MayBeListed(t)', asked'[t] - clock.age[t] = ticks,
         \A u \in Tasks \ {t} : pc'[u] = pc[u] /\ asked'[u] = asked[u],
         \A u \in Tasks : Rests(u)' => clock.age[u] = 0,
         \A u \in Tasks : pc'[u] \in Waiting =>
           \/ TimeOutIsTrue(clock, u)'
           \/ /\ pc[u] \in Waiting /\ asked'[u] = asked[u]
              /\ xTimeOut'[u] = xTimeOut[u]
  PROVE  Sound(clock)'
<1> DEFINE c == clock.xTickCount
           wake == (c + ticks) % Word
           e == [task |-> t, value |-> wake]
           D == clock.pxDelayedTaskList
           O == clock.pxOverflowDelayedTaskList
           DD == clock'.pxDelayedTaskList
           OO == clock'.pxOverflowDelayedTaskList
<1>1. /\ IsClock(clock) /\ Numbers(clock) /\ ListsHaveForm(clock)
      /\ TimeIsLeft(clock) /\ FirstIsNoted(clock) /\ TimeOutsAreTrue(clock)
      /\ NobodyIsLate(clock)
  BY DEF Sound, NearlySound
<1>2. c \in 0 .. Word - 1
  BY <1>1 DEF Numbers
<1>3. /\ wake \in 0 .. Word - 1
      /\ wake < c => wake + Word = c + ticks
      /\ ~ (wake < c) => wake > c /\ wake = c + ticks
  BY <1>2, WakeTime
<1>4. /\ IsClock(clock') /\ SameNumbers(clock', clock)
      /\ wake < c =>
           /\ DD = D /\ OO = Inserted(O, e)
           /\ clock'.xNextTaskUnblockTime = clock.xNextTaskUnblockTime
      /\ ~ (wake < c) =>
           /\ DD = Inserted(D, e) /\ OO = O
           /\ clock'.xNextTaskUnblockTime =
                IF wake < clock.xNextTaskUnblockTime THEN wake
                ELSE clock.xNextTaskUnblockTime
  <2> DEFINE r == AddCurrentTask(clock, t, ticks, indefinite)
  <2> HIDE DEF r, wake, e
  <2>1. /\ IsClock(r) /\ SameNumbers(r, clock)
        /\ wake < c =>
             /\ r.pxDelayedTaskList = D
             /\ r.pxOverflowDelayedTaskList = Inserted(O, e)
             /\ r.xNextTaskUnblockTime = clock.xNextTaskUnblockTime
        /\ ~ (wake < c) =>
             /\ r.pxDelayedTaskList = Inserted(D, e)
             /\ r.pxOverflowDelayedTaskList = O
             /\ r.xNextTaskUnblockTime =
                  IF wake < clock.xNextTaskUnblockTime THEN wake
                  ELSE clock.xNextTaskUnblockTime
    <3>1. /\ wake = (clock.xTickCount + ticks) % Word
          /\ e = [task |-> t, value |-> wake]
          /\ r = AddCurrentTask(clock, t, ticks, indefinite)
      BY DEF wake, e, r
    <3>2. QED
      BY <1>1, <3>1, AddCurrentTaskParts
  <2>2. clock' = r
    BY DEF r
  <2>3. QED
    BY <2>1, <2>2
<1> HIDE DEF wake
<1>5. e \in Entry /\ e.task = t /\ e.value = wake
  BY <1>3 DEF Entry
<1> HIDE DEF e
<1>6. /\ \A i \in DOMAIN D : D[i].task # e.task
      /\ \A i \in DOMAIN O : O[i].task # e.task
  BY <1>5, WhoIsListed
<1>7. ListIsSound(D) /\ ListIsSound(O) /\ Disjoint(D, O)
  BY <1>1 DEF ListsHaveForm
<1>8. /\ ListIsSound(Inserted(D, e)) /\ Inserted(D, e) # <<>>
      /\ \A i \in DOMAIN Inserted(D, e) :
           \/ Inserted(D, e)[i] = e
           \/ \E j \in DOMAIN D : Inserted(D, e)[i] = D[j]
      /\ Inserted(D, e)[1] =
           IF D = <<>> \/ e.value < D[1].value THEN e ELSE D[1]
  BY <1>5, <1>6, <1>7, InsertedIsSound
<1>9. /\ ListIsSound(Inserted(O, e))
      /\ \A i \in DOMAIN Inserted(O, e) :
           \/ Inserted(O, e)[i] = e
           \/ \E j \in DOMAIN O : Inserted(O, e)[i] = O[j]
  BY <1>5, <1>6, <1>7, InsertedIsSound
<1>10. /\ \A i \in DOMAIN DD : \/ DD[i] = e /\ ~ (wake < c)
                               \/ \E j \in DOMAIN D : DD[i] = D[j]
       /\ \A i \in DOMAIN OO : \/ OO[i] = e /\ wake < c
                               \/ \E j \in DOMAIN O : OO[i] = O[j]
  <2> HIDE DEF D, O, DD, OO, c
  <2>1. CASE wake < c
    BY <1>4, <1>9, <2>1
  <2>2. CASE ~ (wake < c)
    BY <1>4, <1>8, <2>2
  <2>3. QED
    BY <2>1, <2>2
<1>11. IsClock(clock)'
  BY <1>4 DEF IsClock
<1>12. Numbers(clock)'
  BY <1>1, <1>4 DEF Numbers, SameNumbers
<1>13. ListsHaveForm(clock)'
  <2>1. ListIsSound(DD) /\ ListIsSound(OO)
    <3> HIDE DEF D, O, DD, OO, c
    <3>1. QED
      BY <1>4, <1>7, <1>8, <1>9
  <2>2. Disjoint(DD, OO)
    <3> HIDE DEF D, O, DD, OO, c
    <3>1. CASE wake < c
      BY <1>4, <1>6, <1>7, <1>9, <3>1 DEF Disjoint
    <3>2. CASE ~ (wake < c)
      BY <1>4, <1>6, <1>7, <1>8, <3>2 DEF Disjoint
    <3>3. QED
      BY <3>1, <3>2
  <2>3. QED
    BY <2>1, <2>2 DEF ListsHaveForm, ListIsSound, Ordered, Once, Disjoint,
                      Entry
<1>14. /\ asked'[t] \in 1 .. portMAX_DELAY /\ clock.age[t] \in 0 .. Word
       /\ pc'[t] \in {"delaying", "delayed", "blocking", "blocked"}
       /\ clock'.xTickCount = c /\ clock'.age = clock.age
  BY <1>1, <1>4 DEF Numbers, MayBeListed, portMAX_DELAY, SameNumbers
<1>15. ASSUME NEW u \in Tasks, MayBeListed(u), u # t
       PROVE  /\ asked'[u] = asked[u] /\ asked'[u] \in 1 .. portMAX_DELAY
              /\ pc'[u] \in {"delaying", "delayed", "blocking", "blocked"}
  BY <1>15 DEF MayBeListed
<1>16. ASSUME NEW i \in DOMAIN DD
       PROVE  /\ pc'[DD[i].task] \in
                   {"delaying", "delayed", "blocking", "blocked"}
              /\ asked'[DD[i].task] \in 1 .. portMAX_DELAY
              /\ DD[i].value > c
              /\ DD[i].value =
                   c + (asked'[DD[i].task] - clock.age[DD[i].task])
  <2> HIDE DEF DD
  <2>1. CASE DD[i] = e /\ ~ (wake < c)
    <3>1. DD[i].task = t /\ DD[i].value = wake
      BY <1>5, <2>1
    <3>2. wake > c /\ wake = c + (asked'[t] - clock.age[t])
      BY <1>3, <2>1
    <3>3. QED
      BY <1>14, <3>1, <3>2
  <2>2. CASE \E j \in DOMAIN D : DD[i] = D[j]
    <3>1. PICK j \in DOMAIN D : DD[i] = D[j]
      BY <2>2
    <3>2. /\ D[j].task \in Tasks
          /\ D[j].value = c + (asked[D[j].task] - clock.age[D[j].task])
      BY <1>1, EntryIsTimely
    <3>3. D[j].value > c /\ MayBeListed(D[j].task) /\ D[j].task # t
      BY <1>1, <1>5, <1>6 DEF NobodyIsLate, TimeIsLeft
    <3> HIDE DEF D, c
    <3>4. QED
      BY <1>15, <3>1, <3>2, <3>3
  <2>3. QED
    BY <1>10, <2>1, <2>2
<1>17. ASSUME NEW i \in DOMAIN OO
       PROVE  /\ pc'[OO[i].task] \in
                   {"delaying", "delayed", "blocking", "blocked"}
              /\ asked'[OO[i].task] \in 1 .. portMAX_DELAY
              /\ OO[i].value + Word =
                   c + (asked'[OO[i].task] - clock.age[OO[i].task])
  <2> HIDE DEF OO
  <2>1. CASE OO[i] = e /\ wake < c
    <3>1. OO[i].task = t /\ OO[i].value = wake
      BY <1>5, <2>1
    <3>2. wake + Word = c + (asked'[t] - clock.age[t])
      BY <1>3, <2>1
    <3>3. QED
      BY <1>14, <3>1, <3>2
  <2>2. CASE \E j \in DOMAIN O : OO[i] = O[j]
    <3>1. PICK j \in DOMAIN O : OO[i] = O[j]
      BY <2>2
    <3>2. /\ O[j].task \in Tasks /\ MayBeListed(O[j].task)
          /\ O[j].value + Word =
               c + (asked[O[j].task] - clock.age[O[j].task])
      BY <1>1, OverflowEntryIsTimely
    <3>3. O[j].task # t
      BY <1>5, <1>6
    <3> HIDE DEF O, c
    <3>4. QED
      BY <1>15, <3>1, <3>2, <3>3
  <2>3. QED
    BY <1>10, <2>1, <2>2
<1>18. TimeIsLeft(clock)'
  <2>1. ASSUME NEW i \in DOMAIN DD
        PROVE  DD[i].value >= c
    <3>1. i \in DOMAIN DD /\ DD \in Seq(Entry)
      BY <1>4, <1>7, <1>8 DEF ListIsSound
    <3>2. DD[i].value \in 0 .. Word - 1
      BY <3>1, Places, EntryParts
    <3>3. DD[i].value > c
      BY <1>16
    <3> HIDE DEF DD, c
    <3>4. QED
      BY <1>2, <3>2, <3>3 DEF KernelTimeAssumption
  <2>2. QED
    BY <1>14, <1>16, <1>17, <2>1 DEF TimeIsLeft, MayBeListed, portMAX_DELAY
<1>19. NobodyIsLate(clock)'
  BY <1>14, <1>16 DEF NobodyIsLate
<1>20. FirstIsNoted(clock)'
  <2>1. CASE wake < c
    <3>1. DD = D /\ clock'.xNextTaskUnblockTime = clock.xNextTaskUnblockTime
      BY <1>4, <2>1
    <3>2. QED
      BY <1>1, <3>1 DEF FirstIsNoted, portMAX_DELAY
  <2>2. CASE ~ (wake < c)
    <3>1. /\ DD = Inserted(D, e)
          /\ clock'.xNextTaskUnblockTime =
               IF e.value < clock.xNextTaskUnblockTime THEN e.value
               ELSE clock.xNextTaskUnblockTime
      BY <1>4, <1>5, <2>2
    <3>2. FirstIsNoted(clock')
      BY <1>1, <1>5, <1>7, <1>8, <3>1, FirstAfterInsertion
    <3>3. QED
      BY <3>2 DEF FirstIsNoted, portMAX_DELAY
  <2>3. QED
    BY <2>1, <2>2
<1>21. TimeOutsAreTrue(clock)'
  <2> SUFFICES ASSUME NEW u \in Tasks, pc'[u] \in Waiting,
                      pc[u] \in Waiting, asked'[u] = asked[u],
                      xTimeOut'[u] = xTimeOut[u]
               PROVE  TimeOutIsTrue(clock, u)'
    BY DEF TimeOutsAreTrue, Waiting
  <2>1. TimeOutIsTrue(clock, u)
    BY <1>1 DEF TimeOutsAreTrue
  <2>2. QED
    BY <1>4, <2>1 DEF TimeOutIsTrue, Passed, portMAX_DELAY, SameNumbers
<1>22. QED
  BY <1>11, <1>12, <1>13, <1>18, <1>19, <1>20, <1>21 DEF Sound, NearlySound

(* Who is on a list is in a call that blocks, for a time. *)
LEMMA ListedMayBe ==
  ASSUME NEW k, NearlySound(k), NEW t \in Listed(k)
  PROVE  t \in Tasks /\ MayBeListed(t)
<1>1. ListsHaveForm(k) /\ TimeIsLeft(k)
  BY DEF NearlySound
<1>2. CASE \E i \in DOMAIN k.pxDelayedTaskList :
             k.pxDelayedTaskList[i].task = t
  <2>1. PICK i \in DOMAIN k.pxDelayedTaskList :
          k.pxDelayedTaskList[i].task = t
    BY <1>2
  <2>2. k.pxDelayedTaskList[i] \in Entry
    BY <1>1, Places DEF ListsHaveForm, ListIsSound
  <2>3. MayBeListed(t)
    BY <1>1, <2>1 DEF TimeIsLeft
  <2>4. QED
    BY <2>1, <2>2, <2>3, EntryParts
<1>3. CASE \E i \in DOMAIN k.pxOverflowDelayedTaskList :
             k.pxOverflowDelayedTaskList[i].task = t
  <2>1. PICK i \in DOMAIN k.pxOverflowDelayedTaskList :
          k.pxOverflowDelayedTaskList[i].task = t
    BY <1>3
  <2>2. k.pxOverflowDelayedTaskList[i] \in Entry
    BY <1>1, Places DEF ListsHaveForm, ListIsSound
  <2>3. MayBeListed(t)
    BY <1>1, <2>1 DEF TimeIsLeft
  <2>4. QED
    BY <2>1, <2>2, <2>3, EntryParts
<1>4. QED
  BY <1>2, <1>3, WhoIsListed

(* A clock that is sound stays so while the calls do. *)
LEMMA SoundGoesOn ==
  ASSUME Sound(clock'), UNCHANGED <<pc, asked, xTimeOut>>
  PROVE  Sound(clock)'
<1>1. /\ IsClock(clock') /\ Numbers(clock') /\ NearlySound(clock')
  BY DEF Sound, NearlySound
<1>2. \A t \in Listed(clock') : MayBeListed(t)'
  <2> TAKE t \in Listed(clock')
  <2>1. MayBeListed(t)
    BY <1>1, ListedMayBe
  <2>2. QED
    BY <2>1 DEF MayBeListed, portMAX_DELAY
<1>3. \A t \in Tasks : Rests(t)' => clock'.age[t] = 0
  BY <1>1 DEF Numbers, Rests
<1>4. clock'.age \in [Tasks -> 0 .. Word]
  BY <1>1 DEF Numbers
<1>5. SameLists(clock', clock')
  BY DEF SameLists
<1>6. QED
  BY <1>1, <1>2, <1>3, <1>4, <1>5, CallsGoOn

(* The same while the clock stands still. *)
LEMMA SoundRests ==
  ASSUME Sound(clock), UNCHANGED <<clock, pc, asked, xTimeOut>>
  PROVE  Sound(clock)'
<1>1. clock' = clock
  OBVIOUS
<1>2. Sound(clock')
  BY <1>1
<1>3. QED
  BY <1>2, SoundGoesOn

(* Who is not there does not matter. *)
LEMMA NoneIsNobody ==
  ASSUME KernelTimeAssumption
  PROVE  None # Idle /\ None \notin Tasks /\ Idle \notin Tasks
BY DEF KernelTimeAssumption

(* SysTick_Handler. *)
LEMMA TickInv ==
  ASSUME KernelTimeAssumption, IInv, Tick
  PROVE  IInv'
<1>1. /\ Sound(clock) /\ Calls /\ PutOff /\ SleepIsShort
      /\ clock.xTickCount \in 0 .. Word - 1
  BY DEF IInv, Sound, NearlySound, Numbers
<1>2. Word \in Nat \ {0} /\ Word > 2 /\ MaxPended \in Nat
  BY DEF KernelTimeAssumption
<1>3. Calls'
  BY <1>1 DEF Tick, Calls, Waiting
<1>4. /\ \A t \in Tasks : clock.age[t] + xPendedTicks < Word
      /\ \A t \in Tasks : clock.age[t] \in 0 .. Word
      /\ sleep <= 0 /\ sleep' = sleep /\ suspender' = suspender
      /\ real' = (real + 1) % Word
      /\ xPendingReadyList' = xPendingReadyList /\ pc' = pc
      /\ UNCHANGED <<pc, asked, xTimeOut>>
  BY <1>1 DEF Tick, MayTick, Sound, NearlySound, Numbers
<1>5. CASE suspender = None
  <2>1. clock' = Ticked(clock) /\ xPendedTicks' = 0 /\ xPendedTicks = 0
        /\ xPendingReadyList = <<>>
    BY <1>1, <1>5 DEF Tick, PutOff
  <2>2. \A t \in Tasks : clock.age[t] + 1 <= Word
    BY <1>2, <1>4, <2>1
  <2>3. /\ Sound(clock') /\ clock'.xTickCount = (clock.xTickCount + 1) % Word
    BY <1>1, <2>1, <2>2, TickedIsSound DEF Calls
  <2>4. Sound(clock)'
    BY <1>4, <2>3, SoundGoesOn
  <2>5. PutOff'
    <3>1. real = clock.xTickCount
      <4>1. (clock.xTickCount + 0) % Word = real
        BY <1>1, <2>1 DEF PutOff
      <4>2. clock.xTickCount + 0 = clock.xTickCount
        BY <1>1, <1>2
      <4>3. QED
        BY <1>1, <1>2, <4>1, <4>2, ModSmall
    <3>2. /\ clock'.xTickCount = real' /\ real' \in 0 .. Word - 1
      <4>1. real + 1 \in Nat
        BY <1>1, <1>2, <3>1
      <4>2. (real + 1) % Word \in 0 .. Word - 1
        BY <1>2, <4>1, ModRange
      <4>3. clock'.xTickCount = (real + 1) % Word
        BY <2>3, <3>1
      <4>4. QED
        BY <1>4, <4>2, <4>3
    <3>3. (clock'.xTickCount + xPendedTicks') % Word = real'
      <4>1. clock'.xTickCount + xPendedTicks' = real'
        <5>1. real' \in Int /\ xPendedTicks' = 0
          BY <1>2, <2>1, <3>2
        <5>2. \A m \in Int : m + 0 = m
          OBVIOUS
        <5>3. real' + 0 = real'
          BY <5>1, <5>2, Zenon
        <5>4. QED
          BY <3>2, <5>1, <5>3, Zenon
      <4>2. QED
        BY <1>2, <3>2, <4>1, ModSmall
    <3>4. \A t \in Tasks : clock'.age[t] + xPendedTicks' <= Word
      <4> TAKE t \in Tasks
      <4>1. clock'.age[t] \in 0 .. Word
        BY <2>3 DEF Sound, NearlySound, Numbers
      <4>2. QED
        BY <1>2, <2>1, <4>1
    <3>5. xPendedTicks' \in 0 .. MaxPended
      BY <1>2, <2>1
    <3>6. QED
      BY <1>1, <1>4, <1>5, <2>1, <3>2, <3>3, <3>4, <3>5 DEF PutOff
  <2>6. SleepIsShort'
    <3>1. sleep = 0 /\ suspender # Idle
      BY <1>1, <1>5, NoneIsNobody DEF SleepIsShort
    <3>2. sleep' = 0 /\ suspender' # Idle /\ 0 \in -1 .. MaxSuppressed
      BY <1>1, <1>4, <3>1 DEF SleepIsShort
    <3>3. QED
      BY <3>2 DEF SleepIsShort
  <2>7. QED
    BY <1>3, <2>4, <2>5, <2>6 DEF IInv
<1>6. CASE suspender # None
  <2>1. clock' = clock /\ xPendedTicks < MaxPended
        /\ xPendedTicks' = xPendedTicks + 1
    BY <1>6 DEF Tick
  <2>2. Sound(clock)'
    BY <1>1, <1>4, <2>1, SoundRests
  <2>3. PutOff'
    <3>1. xPendedTicks \in 0 .. MaxPended /\ real \in 0 .. Word - 1
          /\ (clock.xTickCount + xPendedTicks) % Word = real
      BY <1>1 DEF PutOff
    <3>2. xPendedTicks' \in 0 .. MaxPended /\ xPendedTicks \in Nat
      BY <1>2, <2>1, <3>1
    <3>3. (clock'.xTickCount + xPendedTicks') % Word = real'
          /\ real' \in 0 .. Word - 1
      <4>1. clock.xTickCount + xPendedTicks \in Nat
        BY <1>1, <1>2, <3>2
      <4>2. clock'.xTickCount + xPendedTicks' =
              (clock.xTickCount + xPendedTicks) + 1
        BY <1>1, <1>2, <2>1, <3>2
      <4>3. real + 1 \in Nat
        BY <1>2, <3>1
      <4>4. QED
        BY <1>2, <1>4, <3>1, <4>1, <4>2, <4>3, ModStep, ModRange
    <3>4. \A t \in Tasks : clock'.age[t] + xPendedTicks' <= Word
      <4> TAKE t \in Tasks
      <4>1. clock.age[t] + xPendedTicks < Word /\ clock.age[t] \in Int
        BY <1>4
      <4>2. QED
        BY <1>2, <2>1, <3>2, <4>1
    <3>5. QED
      BY <1>1, <1>4, <1>6, <3>2, <3>3, <3>4 DEF PutOff
  <2>4. SleepIsShort'
    <3>1. ~ (sleep > 0)
      BY <1>1, <1>4 DEF SleepIsShort
    <3>2. QED
      BY <1>1, <1>4, <2>1, <3>1 DEF SleepIsShort
  <2>5. QED
    BY <1>3, <2>2, <2>3, <2>4 DEF IInv
<1>7. QED
  BY <1>5, <1>6

(* A step that a task takes while the scheduler runs puts nothing off.     *)
LEMMA TaskStep ==
  ASSUME KernelTimeAssumption, PutOff, SleepIsShort, suspender = None,
         clock'.xTickCount = clock.xTickCount,
         clock'.age \in [Tasks -> 0 .. Word],
         UNCHANGED <<xPendedTicks, xPendingReadyList, sleep, real>>,
         suspender' \in Tasks \cup {None}
  PROVE  PutOff' /\ SleepIsShort'
<1>1. xPendedTicks = 0 /\ xPendingReadyList = <<>>
  BY DEF PutOff
<1>2. sleep = 0 /\ suspender' # Idle
  BY NoneIsNobody DEF SleepIsShort
<1>3. SleepIsShort'
  BY <1>2 DEF SleepIsShort
<1>4. \A t \in Tasks : clock'.age[t] + xPendedTicks' <= Word
  <2> TAKE t \in Tasks
  <2>1. clock'.age[t] \in 0 .. Word /\ xPendedTicks' = 0 /\ Word \in Nat
    BY <1>1 DEF KernelTimeAssumption
  <2>2. QED
    BY <2>1
<1>5. DOMAIN xPendingReadyList' = {}
  BY <1>1
<1>6. PutOff'
  BY <1>1, <1>4, <1>5 DEF PutOff
<1>7. QED
  BY <1>3, <1>6

(* Who is in no call that blocks is on no list. *)
LEMMA NotListed ==
  ASSUME NEW k, NearlySound(k), NEW t \in Tasks,
         pc[t] \notin {"delaying", "delayed", "blocking", "blocked"}
  PROVE  t \notin Listed(k)
BY ListedMayBe DEF MayBeListed

(* vTaskDelay. *)
LEMMA DelayInv ==
  ASSUME KernelTimeAssumption, IInv, NEW t \in Tasks, NEW n \in Times,
         vTaskDelay(t, n)
  PROVE  IInv'
<1>1. Sound(clock) /\ Calls /\ PutOff /\ SleepIsShort
  BY DEF IInv
<1>2. /\ pc[t] = "run" /\ suspender = None /\ suspender' = t
      /\ asked' = [asked EXCEPT ![t] = n]
      /\ clock' = AddCurrentTask(clock, t, n, FALSE)
      /\ pc' = [pc EXCEPT ![t] = "delaying"]
      /\ UNCHANGED <<xPendedTicks, xPendingReadyList, xTimeOut, sleep, real>>
  BY DEF vTaskDelay
<1>3. /\ pc'[t] = "delaying" /\ asked'[t] = n
      /\ \A u \in Tasks \ {t} : pc'[u] = pc[u] /\ asked'[u] = asked[u]
  BY <1>1, <1>2 DEF Calls
<1>4. NearlySound(clock) /\ Numbers(clock)
  BY <1>1 DEF Sound, NearlySound
<1>5. n \in 1 .. portMAX_DELAY /\ n \in Int /\ n # 0 /\ n \in 0 .. Word
  <2>1. n \in 1 .. portMAX_DELAY
    BY DEF KernelTimeAssumption
  <2>2. n \in 1 .. Word - 1 /\ Word \in Nat
    BY <2>1 DEF portMAX_DELAY, KernelTimeAssumption
  <2>3. QED
    BY <2>1, <2>2
<1>6. clock.age[t] = 0
  BY <1>2, <1>4 DEF Numbers, Rests
<1>7. Sound(clock)'
  <2>1. t \notin Listed(clock)
    BY <1>2, <1>4, NotListed
  <2>2. MayBeListed(t)'
    BY <1>3, <1>5 DEF MayBeListed, portMAX_DELAY
  <2>3. asked'[t] - clock.age[t] = n
    BY <1>3, <1>5, <1>6
  <2>4. \A u \in Tasks : Rests(u)' => clock.age[u] = 0
    BY <1>3, <1>4, <1>6 DEF Numbers, Rests
  <2>5. \A u \in Tasks : pc'[u] \in Waiting =>
          /\ pc[u] \in Waiting /\ asked'[u] = asked[u]
          /\ xTimeOut'[u] = xTimeOut[u]
    BY <1>2, <1>3 DEF Waiting
  <2>6. FALSE \in BOOLEAN /\ ~ (n = portMAX_DELAY /\ FALSE)
    OBVIOUS
  <2>7. QED
    BY <1>1, <1>2, <1>3, <1>5, <2>1, <2>2, <2>3, <2>4, <2>5, <2>6,
       AddedIsSound
<1>8. Calls'
  <2>1. \A u \in Tasks :
          pc'[u] \in {"delaying", "blocking", "giving up"} <=> suspender' = u
    BY <1>1, <1>2, <1>3, NoneIsNobody DEF Calls
  <2>2. asked' \in [Tasks -> 0 .. Word]
    BY <1>1, <1>2, <1>5 DEF Calls
  <2>3. \A u \in Tasks : pc'[u] # "run" => asked'[u] # 0
    BY <1>1, <1>3, <1>5 DEF Calls
  <2>4. pc' \in [Tasks -> Waiting \cup
                            {"run", "delaying", "delayed", "giving up"}]
    BY <1>1, <1>2 DEF Calls
  <2>5. QED
    BY <1>1, <1>2, <2>1, <2>2, <2>3, <2>4 DEF Calls, Waiting
<1>9. PutOff' /\ SleepIsShort'
  <2>1. SameNumbers(clock', clock)
    <3> DEFINE wake == (clock.xTickCount + n) % Word
               e == [task |-> t, value |-> wake]
    <3> HIDE DEF wake, e
    <3>1. wake = (clock.xTickCount + n) % Word
      BY DEF wake
    <3>2. e = [task |-> t, value |-> wake]
      BY DEF e
    <3>3. QED
      BY <1>2, <1>4, <3>1, <3>2, AddCurrentTaskParts DEF NearlySound
  <2>2. /\ clock'.xTickCount = clock.xTickCount
        /\ clock'.age \in [Tasks -> 0 .. Word]
    BY <1>4, <2>1 DEF SameNumbers, Numbers
  <2>3. QED
    BY <1>1, <1>2, <2>2, TaskStep
<1>10. QED
  BY <1>7, <1>8, <1>9 DEF IInv

(* The time-out state says that nothing has passed, and what is left.      *)
LEMMA FreshTimeOut ==
  ASSUME KernelTimeAssumption, Numbers(clock'), NEW t \in Tasks,
         NEW left \in 1 .. portMAX_DELAY - 1,
         asked'[t] \in 0 .. Word, asked'[t] # Word,
         asked'[t] - clock'.age[t] = left,
         xTimeOut'[t] = [xOverflowCount |-> clock'.xNumOfOverflows,
                         xTimeOnEntering |-> clock'.xTickCount,
                         xTicksToWait |-> left]
  PROVE  TimeOutIsTrue(clock, t)'
<1>1. /\ clock'.age[t] \in 0 .. Word /\ clock'.xTickCount \in 0 .. Word - 1
      /\ clock'.xNumOfOverflows \in 0 .. OverflowWord - 1
  BY DEF Numbers
<1>2. Word \in Nat /\ left \in 1 .. Word - 1 - 1
  BY DEF KernelTimeAssumption, portMAX_DELAY
<1>3. left <= asked'[t] /\ clock'.age[t] - (asked'[t] - left) = 0
  BY <1>1, <1>2
<1>4. /\ xTimeOut'[t].xOverflowCount = clock'.xNumOfOverflows
      /\ xTimeOut'[t].xTimeOnEntering = clock'.xTickCount
      /\ xTimeOut'[t].xTicksToWait = left
  OBVIOUS
<1>5. clock'.age[t] - (asked'[t] - xTimeOut'[t].xTicksToWait) = 0
  BY <1>3, <1>4
<1>6. \A m \in Int : m + 0 = m
  OBVIOUS
<1>7. clock'.xTickCount + 0 = clock'.xTickCount
  BY <1>1, <1>2, <1>6
<1>8. left \in 1 .. portMAX_DELAY - 1 /\ 0 >= 0
  OBVIOUS
<1>9. Passed(clock, t)' = 0
  BY <1>5 DEF Passed
<1>10. QED
  BY <1>1, <1>3, <1>4, <1>7, <1>8, <1>9 DEF TimeOutIsTrue, portMAX_DELAY

(* The beginning of a wait. *)
LEMMA WaitInv ==
  ASSUME KernelTimeAssumption, IInv, NEW t \in Tasks, NEW n \in Times,
         Wait(t, n)
  PROVE  IInv'
<1>1. Sound(clock) /\ Calls /\ PutOff /\ SleepIsShort
  BY DEF IInv
<1>2. /\ pc[t] = "run" /\ suspender = None /\ suspender' = suspender
      /\ asked' = [asked EXCEPT ![t] = IF n = portMAX_DELAY THEN Word ELSE n]
      /\ xTimeOut' = [xTimeOut EXCEPT ![t] = TimeOutState(n)]
      /\ pc' = [pc EXCEPT ![t] = "entered"] /\ clock' = clock
      /\ UNCHANGED <<xPendedTicks, xPendingReadyList, sleep, real>>
  BY DEF Wait
<1>3. /\ pc'[t] = "entered"
      /\ asked'[t] = IF n = portMAX_DELAY THEN Word ELSE n
      /\ xTimeOut'[t] = TimeOutState(n)
      /\ \A u \in Tasks \ {t} : /\ pc'[u] = pc[u] /\ asked'[u] = asked[u]
                               /\ xTimeOut'[u] = xTimeOut[u]
  BY <1>1, <1>2 DEF Calls
<1>4. NearlySound(clock) /\ Numbers(clock) /\ IsClock(clock)
  BY <1>1 DEF Sound, NearlySound
<1>5. /\ n \in 1 .. portMAX_DELAY /\ n \in Int /\ n # 0 /\ n \in 0 .. Word
      /\ Word \in Nat /\ Word # 0 /\ n # Word
      /\ n # portMAX_DELAY => n \in 1 .. portMAX_DELAY - 1
  <2>1. n \in 1 .. portMAX_DELAY
    BY DEF KernelTimeAssumption
  <2>2. n \in 1 .. Word - 1 /\ Word \in Nat /\ Word > 2
    BY <2>1 DEF portMAX_DELAY, KernelTimeAssumption
  <2>3. QED
    BY <2>1, <2>2 DEF portMAX_DELAY
<1>6. clock.age[t] = 0
  BY <1>2, <1>4 DEF Numbers, Rests
<1>7. t \notin Listed(clock)
  BY <1>2, <1>4, NotListed
<1>8. TimeOutIsTrue(clock, t)'
  <2>1. CASE n = portMAX_DELAY
    <3>1. asked'[t] = Word /\ xTimeOut'[t].xTicksToWait = portMAX_DELAY
      BY <1>3, <2>1 DEF TimeOutState
    <3>2. QED
      BY <3>1 DEF TimeOutIsTrue, portMAX_DELAY
  <2>2. CASE n # portMAX_DELAY
    <3>1. asked'[t] = n /\ n \in 1 .. portMAX_DELAY - 1
      BY <1>3, <1>5, <2>2
    <3>2. asked'[t] - clock'.age[t] = n
      BY <1>2, <1>5, <1>6, <3>1
    <3>3. asked'[t] \in 0 .. Word /\ asked'[t] # Word
      BY <1>5, <3>1
    <3>4. xTimeOut'[t] = [xOverflowCount |-> clock'.xNumOfOverflows,
                          xTimeOnEntering |-> clock'.xTickCount,
                          xTicksToWait |-> n]
      BY <1>2, <1>3 DEF TimeOutState
    <3>5. Numbers(clock')
      BY <1>2, <1>4
    <3>6. QED
      BY <3>1, <3>2, <3>3, <3>4, <3>5, FreshTimeOut
  <2>3. QED
    BY <2>1, <2>2
<1>9. Sound(clock)'
  <2>1. SameLists(clock', clock)
    BY <1>2 DEF SameLists
  <2>2. clock'.age \in [Tasks -> 0 .. Word]
    BY <1>2, <1>4 DEF Numbers
  <2>3. \A u \in Tasks : Rests(u)' => clock'.age[u] = 0
    BY <1>2, <1>3, <1>4, <1>6 DEF Numbers, Rests
  <2>4. \A u \in Listed(clock) : /\ MayBeListed(u)' /\ asked'[u] = asked[u]
                                 /\ clock'.age[u] = clock.age[u]
    <3> TAKE u \in Listed(clock)
    <3>1. u \in Tasks \ {t} /\ MayBeListed(u)
      BY <1>4, <1>7, ListedMayBe
    <3>2. QED
      BY <1>2, <1>3, <3>1 DEF MayBeListed, portMAX_DELAY
  <2>5. \A u \in Tasks : pc'[u] \in Waiting =>
          \/ TimeOutIsTrue(clock, u)'
          \/ /\ pc[u] \in Waiting /\ asked'[u] = asked[u]
             /\ xTimeOut'[u] = xTimeOut[u] /\ clock'.age[u] = clock.age[u]
    <3> TAKE u \in Tasks
    <3>1. CASE u = t
      BY <1>8, <3>1
    <3>2. CASE u # t
      BY <1>2, <1>3, <3>2
    <3>3. QED
      BY <3>1, <3>2
  <2>6. IsClock(clock')
    BY <1>2, <1>4
  <2>7. QED
    BY <1>1, <1>2, <2>1, <2>2, <2>3, <2>4, <2>5, <2>6, CallsGoOn
<1>10. Calls'
  <2>1. \A u \in Tasks :
          pc'[u] \in {"delaying", "blocking", "giving up"} <=> suspender' = u
    BY <1>1, <1>2, <1>3, NoneIsNobody DEF Calls
  <2>2. asked' \in [Tasks -> 0 .. Word]
    <3>1. Word \in 0 .. Word
      BY <1>5
    <3>2. QED
      BY <1>1, <1>2, <1>5, <3>1 DEF Calls
  <2>3. \A u \in Tasks : pc'[u] # "run" => asked'[u] # 0
    BY <1>1, <1>3, <1>5 DEF Calls
  <2>4. pc' \in [Tasks -> Waiting \cup
                            {"run", "delaying", "delayed", "giving up"}]
    BY <1>1, <1>2 DEF Calls, Waiting
  <2>5. DOMAIN xTimeOut' = Tasks
    BY <1>1, <1>2 DEF Calls
  <2>6. QED
    BY <2>1, <2>2, <2>3, <2>4, <2>5 DEF Calls, Waiting
<1>11. PutOff' /\ SleepIsShort'
  BY <1>1, <1>2, <1>4, TaskStep DEF Numbers
<1>12. QED
  BY <1>9, <1>10, <1>11 DEF IInv

(* The overflows tell a wrap from none. *)
LEMMA OverflowIsSeen ==
  ASSUME KernelTimeAssumption, NEW ov \in 0 .. OverflowWord - 1
  PROVE  (ov + 1) % OverflowWord # ov
<1>1. OverflowWord \in Nat \ {0} /\ OverflowWord > 1 /\ ov \in Nat
  BY DEF KernelTimeAssumption
<1>2. CASE ov + 1 < OverflowWord
  <2>1. ov + 1 \in 0 .. OverflowWord - 1
    BY <1>1, <1>2
  <2>2. (ov + 1) % OverflowWord = ov + 1
    BY <1>1, <2>1, ModSmall
  <2>3. QED
    BY <1>1, <2>2
<1>3. CASE ov + 1 >= OverflowWord
  <2>1. ov + 1 = 0 + OverflowWord /\ 0 \in 0 .. OverflowWord - 1 /\ ov # 0
    BY <1>1, <1>3
  <2>2. (0 + OverflowWord) % OverflowWord = 0
    BY <1>1, <2>1, ModOnce
  <2>3. QED
    BY <2>1, <2>2
<1>4. QED
  BY <1>1, <1>2, <1>3

(* The test of xTaskCheckForTimeOut, in numbers. *)
LEMMA TimeOutInNumbers ==
  ASSUME NEW w \in Nat \ {0}, NEW c \in 0 .. w - 1, NEW time \in 0 .. w - 1,
         NEW p \in 0 .. w, NEW x \in 1 .. w - 2, NEW wrapped \in BOOLEAN,
         time + p = IF wrapped THEN c + w ELSE c
  PROVE  /\ (wrapped /\ c >= time) \/ (c + w - time) % w >= x <=> p >= x
         /\ ~ (wrapped /\ c >= time) => (c + w - time) % w = p
<1>1. CASE ~ wrapped
  <2>1. p \in 0 .. w - 1 /\ c + w - time = p + w
    BY <1>1
  <2>2. (p + w) % w = p
    BY <2>1, ModOnce
  <2>3. QED
    BY <1>1, <2>1, <2>2
<1>2. CASE wrapped
  <2>1. c + w - time = p
    BY <1>2
  <2>2. CASE p < w
    <3>1. p \in 0 .. w - 1 /\ ~ (c >= time)
      BY <1>2, <2>2
    <3>2. p % w = p
      BY <3>1, ModSmall
    <3>3. QED
      BY <2>1, <3>1, <3>2
  <2>3. CASE p = w
    <3>1. c >= time /\ p >= x
      BY <1>2, <2>3
    <3>2. QED
      BY <1>2, <3>1
  <2>4. QED
    BY <2>2, <2>3
<1>3. QED
  BY <1>1, <1>2

(* xTaskCheckForTimeOut is right, and what it takes for passed has passed. *)
LEMMA TimedOutIsExact ==
  ASSUME KernelTimeAssumption, asked \in [Tasks -> 0 .. Word], Sound(clock),
         NEW t \in Tasks, pc[t] \in Waiting
  PROVE  /\ TimedOut(t) <=> asked[t] # Word /\ clock.age[t] >= asked[t]
         /\ asked[t] # Word /\ ~ TimedOut(t) =>
              xTimeOut[t].xTicksToWait - Elapsed(t) = asked[t] - clock.age[t]
<1> DEFINE o == xTimeOut[t]
           p == Passed(clock, t)
<1>1. TimeOutIsTrue(clock, t) /\ Numbers(clock)
  BY DEF Sound, NearlySound, TimeOutsAreTrue
<1>2. CASE asked[t] = Word
  <2>1. o.xTicksToWait = portMAX_DELAY
    BY <1>1, <1>2 DEF TimeOutIsTrue
  <2>2. QED
    BY <1>2, <2>1 DEF TimedOut
<1>3. CASE asked[t] # Word
  <2>1. /\ o.xTicksToWait \in 1 .. portMAX_DELAY - 1
        /\ o.xTicksToWait <= asked[t]
        /\ o.xTimeOnEntering \in 0 .. Word - 1
        /\ o.xOverflowCount \in 0 .. OverflowWord - 1
        /\ p >= 0
        /\ \/ /\ o.xTimeOnEntering + p = clock.xTickCount
              /\ clock.xNumOfOverflows = o.xOverflowCount
           \/ /\ o.xTimeOnEntering + p = clock.xTickCount + Word
              /\ clock.xNumOfOverflows = (o.xOverflowCount + 1) % OverflowWord
    BY <1>1, <1>3 DEF TimeOutIsTrue
  <2>2. /\ clock.age[t] \in 0 .. Word /\ clock.xTickCount \in 0 .. Word - 1
        /\ asked[t] \in 0 .. Word
    BY <1>1 DEF Numbers
  <2> DEFINE c == clock.xTickCount
             x == o.xTicksToWait
             time == o.xTimeOnEntering
             wrapped == clock.xNumOfOverflows # o.xOverflowCount
             g == clock.age[t]
             a == asked[t]
  <2>3. p = g - (a - x)
    BY DEF Passed
  <2>4. (o.xOverflowCount + 1) % OverflowWord # o.xOverflowCount
    BY <2>1, OverflowIsSeen
  <2>5. x # portMAX_DELAY /\ x \in 1 .. Word - 2
    <3>1. Word \in Nat
      BY DEF KernelTimeAssumption
    <3>2. QED
      BY <2>1, <3>1 DEF portMAX_DELAY
  <2>6. Elapsed(t) = (c + Word - time) % Word
    BY DEF Elapsed
  <2>7. TimedOut(t) <=>
          (wrapped /\ c >= time) \/ (c + Word - time) % Word >= x
    BY <2>5 DEF TimedOut, Elapsed
  <2>8. time + p = IF wrapped THEN c + Word ELSE c
    BY <2>1, <2>4
  <2>9. wrapped \in BOOLEAN
    OBVIOUS
  <2>10. /\ x <= a /\ time \in 0 .. Word - 1 /\ p >= 0 /\ g \in 0 .. Word
         /\ c \in 0 .. Word - 1 /\ a \in 0 .. Word /\ Word \in Nat \ {0}
    BY <2>1, <2>2 DEF KernelTimeAssumption
  <2> HIDE DEF o, p, c, x, time, wrapped, g, a
  <2>11. p \in 0 .. Word /\ (p >= x <=> g >= a) /\ x - p = a - g
    BY <2>3, <2>5, <2>10
  <2>12. /\ TimedOut(t) <=> p >= x
         /\ ~ TimedOut(t) => Elapsed(t) = p
    BY <2>5, <2>6, <2>7, <2>8, <2>9, <2>10, <2>11, TimeOutInNumbers
  <2>13. ~ TimedOut(t) => x - Elapsed(t) = a - g
    BY <2>11, <2>12
  <2>14. QED
    BY <1>3, <2>11, <2>12, <2>13 DEF x, a, g, o
<1>4. QED
  BY <1>2, <1>3

(* A step of one task that leaves the clock and the lists alone. *)
LEMMA OneCallGoesOn ==
  ASSUME KernelTimeAssumption, Sound(clock), Calls, NEW t \in Tasks,
         t \notin Listed(clock), UNCHANGED clock,
         \A u \in Tasks \ {t} : /\ pc'[u] = pc[u] /\ asked'[u] = asked[u]
                                /\ xTimeOut'[u] = xTimeOut[u],
         asked'[t] = asked[t], pc'[t] # "run",
         pc'[t] \in Waiting =>
           pc[t] \in Waiting /\ xTimeOut'[t] = xTimeOut[t],
         pc[t] # "run"
  PROVE  Sound(clock)'
<1>1. NearlySound(clock) /\ Numbers(clock) /\ IsClock(clock)
  BY DEF Sound, NearlySound
<1>2. SameLists(clock', clock)
  BY DEF SameLists
<1>3. clock'.age \in [Tasks -> 0 .. Word]
  BY <1>1 DEF Numbers
<1>4. \A u \in Tasks : Rests(u)' => clock'.age[u] = 0
  BY <1>1 DEF Numbers, Rests
<1>5. \A u \in Listed(clock) : /\ MayBeListed(u)' /\ asked'[u] = asked[u]
                               /\ clock'.age[u] = clock.age[u]
  <2> TAKE u \in Listed(clock)
  <2>1. u \in Tasks \ {t} /\ MayBeListed(u)
    BY <1>1, ListedMayBe
  <2>2. QED
    BY <2>1 DEF MayBeListed, portMAX_DELAY
<1>6. \A u \in Tasks : pc'[u] \in Waiting =>
        /\ pc[u] \in Waiting /\ asked'[u] = asked[u]
        /\ xTimeOut'[u] = xTimeOut[u] /\ clock'.age[u] = clock.age[u]
  OBVIOUS
<1>7. QED
  BY <1>1, <1>2, <1>3, <1>4, <1>5, <1>6, CallsGoOn

(* Blocking, or giving up. *)
LEMMA BlockInv ==
  ASSUME KernelTimeAssumption, IInv, NEW t \in Tasks, Block(t)
  PROVE  IInv'
<1>1. Sound(clock) /\ Calls /\ PutOff /\ SleepIsShort
  BY DEF IInv
<1>2. /\ pc[t] = "entered" /\ suspender = None /\ suspender' = t
      /\ UNCHANGED <<xPendedTicks, xPendingReadyList, asked, sleep, real>>
  BY DEF Block
<1>3. NearlySound(clock) /\ Numbers(clock) /\ IsClock(clock)
  BY <1>1 DEF Sound, NearlySound
<1>4. /\ asked \in [Tasks -> 0 .. Word] /\ asked[t] \in 0 .. Word
      /\ asked[t] # 0 /\ pc[t] \in Waiting
  BY <1>1, <1>2 DEF Calls, Waiting
<1>5. t \notin Listed(clock)
  BY <1>2, <1>3, NotListed
<1>6. /\ TimedOut(t) <=> asked[t] # Word /\ clock.age[t] >= asked[t]
      /\ asked[t] # Word /\ ~ TimedOut(t) =>
           xTimeOut[t].xTicksToWait - Elapsed(t) = asked[t] - clock.age[t]
  BY <1>1, <1>4, TimedOutIsExact
<1>7. TimeOutIsTrue(clock, t)
  BY <1>3, <1>4 DEF NearlySound, TimeOutsAreTrue
<1>8. CASE TimedOut(t)
  <2>1. pc' = [pc EXCEPT ![t] = "giving up"] /\ UNCHANGED <<clock, xTimeOut>>
    BY <1>8 DEF Block
  <2>2. pc'[t] = "giving up" /\ \A u \in Tasks \ {t} : pc'[u] = pc[u]
    BY <1>1, <2>1 DEF Calls
  <2>3. Sound(clock)'
    BY <1>1, <1>2, <1>5, <2>1, <2>2, OneCallGoesOn DEF Waiting
  <2>4. Calls'
    <3>1. \A u \in Tasks : pc'[u] \in {"delaying", "blocking", "giving up"}
                             <=> suspender' = u
      BY <1>1, <1>2, <2>2, NoneIsNobody DEF Calls
    <3>2. pc' \in [Tasks -> Waiting \cup
                              {"run", "delaying", "delayed", "giving up"}]
      BY <1>1, <2>1 DEF Calls
    <3>3. \A u \in Tasks : pc'[u] # "run" => asked'[u] # 0
      BY <1>1, <1>2, <1>4, <2>2 DEF Calls
    <3>4. QED
      BY <1>1, <1>2, <2>1, <3>1, <3>2, <3>3 DEF Calls, Waiting
  <2>5. PutOff' /\ SleepIsShort'
    BY <1>1, <1>2, <1>3, <2>1, TaskStep DEF Numbers
  <2>6. QED
    BY <2>3, <2>4, <2>5 DEF IInv
<1>9. CASE ~ TimedOut(t)
  <2>1. /\ xTimeOut' = [xTimeOut EXCEPT ![t] = Remaining(t)]
        /\ clock' = AddCurrentTask(clock, t, Remaining(t).xTicksToWait, TRUE)
        /\ pc' = [pc EXCEPT ![t] = "blocking"]
    BY <1>9 DEF Block
  <2>2. /\ pc'[t] = "blocking" /\ xTimeOut'[t] = Remaining(t)
        /\ \A u \in Tasks \ {t} : /\ pc'[u] = pc[u]
                                  /\ xTimeOut'[u] = xTimeOut[u]
    BY <1>1, <2>1 DEF Calls
  <2>3. Calls'
    <3>1. \A u \in Tasks : pc'[u] \in {"delaying", "blocking", "giving up"}
                             <=> suspender' = u
      BY <1>1, <1>2, <2>2, NoneIsNobody DEF Calls
    <3>2. pc' \in [Tasks -> Waiting \cup
                              {"run", "delaying", "delayed", "giving up"}]
      BY <1>1, <2>1 DEF Calls, Waiting
    <3>3. \A u \in Tasks : pc'[u] # "run" => asked'[u] # 0
      BY <1>1, <1>2, <1>4, <2>2 DEF Calls
    <3>4. QED
      BY <1>1, <1>2, <2>1, <3>1, <3>2, <3>3 DEF Calls, Waiting
  <2>4. CASE asked[t] = Word
    <3>1. xTimeOut[t].xTicksToWait = portMAX_DELAY
      BY <1>7, <2>4 DEF TimeOutIsTrue
    <3>2. Remaining(t) = xTimeOut[t]
      BY <3>1 DEF Remaining
    <3>3. clock' = clock
      BY <2>1, <3>1, <3>2 DEF AddCurrentTask
    <3>4. Sound(clock)'
      BY <1>1, <1>2, <1>4, <1>5, <2>2, <3>2, <3>3, OneCallGoesOn
    <3>5. PutOff' /\ SleepIsShort'
      BY <1>1, <1>2, <1>3, <3>3, TaskStep DEF Numbers
    <3>6. QED
      BY <2>3, <3>4, <3>5 DEF IInv
  <2>5. CASE asked[t] # Word
    <3> DEFINE left == asked[t] - clock.age[t]
    <3>1. /\ xTimeOut[t].xTicksToWait \in 1 .. portMAX_DELAY - 1
          /\ xTimeOut[t].xTicksToWait <= asked[t]
          /\ Passed(clock, t) >= 0
      BY <1>7, <2>5 DEF TimeOutIsTrue
    <3>2. /\ clock.age[t] \in 0 .. Word /\ Word \in Nat /\ Word > 2
          /\ portMAX_DELAY = Word - 1
      BY <1>3 DEF Numbers, KernelTimeAssumption, portMAX_DELAY
    <3>3. left \in 1 .. portMAX_DELAY - 1 /\ left # portMAX_DELAY
          /\ left \in 1 .. portMAX_DELAY
      <4>1. clock.age[t] < asked[t]
        BY <1>4, <1>6, <1>9, <2>5, <3>2
      <4>2. clock.age[t] - (asked[t] - xTimeOut[t].xTicksToWait) >= 0
        BY <3>1 DEF Passed
      <4>3. QED
        BY <1>4, <3>1, <3>2, <4>1, <4>2
    <3>4. Remaining(t) = TimeOutState(left)
      <4>1. xTimeOut[t].xTicksToWait # portMAX_DELAY
        BY <3>1, <3>2
      <4>2. xTimeOut[t].xTicksToWait - Elapsed(t) = left
        BY <1>6, <1>9, <2>5
      <4>3. QED
        BY <4>1, <4>2 DEF Remaining
    <3>5. Remaining(t).xTicksToWait = left
      BY <3>4 DEF TimeOutState
    <3>6. clock' = AddCurrentTask(clock, t, left, TRUE)
      BY <2>1, <3>5
    <3>7. SameNumbers(clock', clock)
      <4> DEFINE wake == (clock.xTickCount + left) % Word
                 e == [task |-> t, value |-> wake]
      <4> HIDE DEF wake, e, left
      <4>1. wake = (clock.xTickCount + left) % Word
        BY DEF wake
      <4>2. e = [task |-> t, value |-> wake]
        BY DEF e
      <4>3. ~ (left = portMAX_DELAY /\ TRUE) /\ TRUE \in BOOLEAN
        BY <3>3
      <4>4. QED
        BY <1>3, <3>6, <4>1, <4>2, <4>3, AddCurrentTaskParts
    <3>8. /\ clock'.xTickCount = clock.xTickCount /\ clock'.age = clock.age
          /\ clock'.xNumOfOverflows = clock.xNumOfOverflows
          /\ clock'.age \in [Tasks -> 0 .. Word]
          /\ Numbers(clock')
      BY <1>3, <3>7 DEF SameNumbers, Numbers
    <3>9. asked'[t] = asked[t] /\ asked'[t] - clock.age[t] = left
      BY <1>2
    <3> HIDE DEF left
    <3>10. TimeOutIsTrue(clock, t)'
      <4>1. xTimeOut'[t] = [xOverflowCount |-> clock'.xNumOfOverflows,
                            xTimeOnEntering |-> clock'.xTickCount,
                            xTicksToWait |-> left]
        BY <2>2, <3>4, <3>8 DEF TimeOutState
      <4>2. asked'[t] - clock'.age[t] = left
        BY <3>8, <3>9
      <4>3. QED
        BY <1>4, <2>5, <3>3, <3>8, <3>9, <4>1, <4>2, FreshTimeOut
    <3>11. MayBeListed(t)'
      <4>1. asked[t] \in 1 .. portMAX_DELAY
        BY <1>4, <2>5, <3>2
      <4>2. QED
        BY <2>2, <3>9, <4>1 DEF MayBeListed, portMAX_DELAY
    <3>12. \A u \in Tasks : Rests(u)' => clock.age[u] = 0
      BY <1>2, <1>3, <2>2, <2>5 DEF Numbers, Rests
    <3>13. \A u \in Tasks : pc'[u] \in Waiting =>
             \/ TimeOutIsTrue(clock, u)'
             \/ /\ pc[u] \in Waiting /\ asked'[u] = asked[u]
                /\ xTimeOut'[u] = xTimeOut[u]
      <4> TAKE u \in Tasks
      <4>1. CASE u = t
        BY <3>10, <4>1
      <4>2. CASE u # t
        BY <1>2, <2>2, <4>2
      <4>3. QED
        BY <4>1, <4>2
    <3>14. Sound(clock)'
      <4>1. TRUE \in BOOLEAN /\ ~ (left = portMAX_DELAY /\ TRUE)
        BY <3>3
      <4>2. \A u \in Tasks \ {t} : pc'[u] = pc[u] /\ asked'[u] = asked[u]
        BY <1>2, <2>2
      <4>3. QED
        BY <1>1, <1>5, <3>3, <3>6, <3>9, <3>11, <3>12, <3>13, <4>1, <4>2,
           AddedIsSound
    <3>15. PutOff' /\ SleepIsShort'
      BY <1>1, <1>2, <3>8, TaskStep
    <3>16. QED
      BY <2>3, <3>14, <3>15 DEF IInv
  <2>6. QED
    BY <2>4, <2>5
<1>10. QED
  BY <1>8, <1>9

(* A wait or delay that is over returns, or goes on waiting. *)
LEMMA ReturnInv ==
  ASSUME KernelTimeAssumption, IInv, NEW t \in Tasks, Return(t)
  PROVE  IInv'
<1>1. Sound(clock) /\ Calls /\ PutOff /\ SleepIsShort
  BY DEF IInv
<1>2. /\ pc[t] \in {"delayed", "blocked", "woken"}
      /\ pc[t] # "woken" => t \notin Listed(clock)
      /\ suspender = None
      /\ UNCHANGED <<xPendedTicks, xPendingReadyList, suspender, sleep, real>>
  BY DEF Return
<1>3. NearlySound(clock) /\ Numbers(clock) /\ IsClock(clock)
  BY <1>1 DEF Sound, NearlySound
<1>4. t \notin Listed(clock)
  BY <1>2, <1>3, NotListed
<1>5. CASE /\ pc' = [pc EXCEPT ![t] = "run"]
           /\ clock' = [clock EXCEPT !.age[t] = 0]
           /\ xTimeOut' = [xTimeOut EXCEPT ![t] = NoTimeOut]
           /\ asked' = [asked EXCEPT ![t] = 0]
  <2>1. /\ pc'[t] = "run" /\ asked'[t] = 0
        /\ \A u \in Tasks \ {t} : /\ pc'[u] = pc[u] /\ asked'[u] = asked[u]
                                  /\ xTimeOut'[u] = xTimeOut[u]
    BY <1>1, <1>5 DEF Calls
  <2>2. clock.age \in [Tasks -> 0 .. Word]
    BY <1>3 DEF Numbers
  <2>3. /\ IsClock(clock') /\ SameLists(clock', clock)
        /\ clock'.xTickCount = clock.xTickCount
        /\ clock'.xNumOfOverflows = clock.xNumOfOverflows
        /\ clock'.xNextTaskUnblockTime = clock.xNextTaskUnblockTime
        /\ clock'.exact = clock.exact /\ clock'.asserted = clock.asserted
        /\ clock'.age = [clock.age EXCEPT ![t] = 0]
    <3> DEFINE ages == [clock.age EXCEPT ![t] = 0]
    <3>1. clock = [f \in Fields |-> clock[f]]
      BY <1>3 DEF IsClock
    <3>2. clock' = [clock EXCEPT !.age = ages]
      BY <1>5
    <3> HIDE DEF ages
    <3>3. clock' = [f \in Fields |-> IF f = "age" THEN ages ELSE clock[f]]
      BY <3>1, <3>2 DEF Fields
    <3>4. QED
      BY <3>3 DEF IsClock, Fields, SameLists, ages
  <2>4. /\ clock'.age[t] = 0
        /\ \A u \in Tasks \ {t} : clock'.age[u] = clock.age[u]
    BY <2>2, <2>3
  <2>5. clock'.age \in [Tasks -> 0 .. Word]
    <3>1. 0 \in 0 .. Word
      BY DEF KernelTimeAssumption
    <3>2. QED
      BY <2>2, <2>3, <3>1
  <2>6. \A u \in Tasks : Rests(u)' => clock'.age[u] = 0
    BY <1>3, <2>1, <2>4 DEF Numbers, Rests
  <2>7. \A u \in Listed(clock) : /\ MayBeListed(u)' /\ asked'[u] = asked[u]
                                 /\ clock'.age[u] = clock.age[u]
    <3> TAKE u \in Listed(clock)
    <3>1. u \in Tasks \ {t} /\ MayBeListed(u)
      BY <1>3, <1>4, ListedMayBe
    <3>2. QED
      BY <2>1, <2>4, <3>1 DEF MayBeListed, portMAX_DELAY
  <2>8. \A u \in Tasks : pc'[u] \in Waiting =>
          /\ pc[u] \in Waiting /\ asked'[u] = asked[u]
          /\ xTimeOut'[u] = xTimeOut[u] /\ clock'.age[u] = clock.age[u]
    BY <2>1, <2>4 DEF Waiting
  <2>9. Sound(clock)'
    BY <1>1, <2>3, <2>5, <2>6, <2>7, <2>8, CallsGoOn
  <2>10. Calls'
    <3>1. \A u \in Tasks : pc'[u] \in {"delaying", "blocking", "giving up"}
                             <=> suspender' = u
      BY <1>1, <1>2, <2>1, NoneIsNobody DEF Calls
    <3>2. pc' \in [Tasks -> Waiting \cup
                              {"run", "delaying", "delayed", "giving up"}]
      BY <1>1, <1>5 DEF Calls
    <3>3. asked' \in [Tasks -> 0 .. Word]
      <4>1. 0 \in 0 .. Word
        BY DEF KernelTimeAssumption
      <4>2. QED
        BY <1>1, <1>5, <4>1 DEF Calls
    <3>4. \A u \in Tasks : pc'[u] # "run" => asked'[u] # 0
      BY <1>1, <2>1 DEF Calls
    <3>5. DOMAIN xTimeOut' = Tasks
      BY <1>1, <1>5 DEF Calls
    <3>6. QED
      BY <3>1, <3>2, <3>3, <3>4, <3>5 DEF Calls, Waiting
  <2>11. PutOff' /\ SleepIsShort'
    BY <1>1, <1>2, <2>3, <2>5, TaskStep
  <2>12. QED
    BY <2>9, <2>10, <2>11 DEF IInv
<1>6. CASE /\ pc[t] # "delayed"
           /\ pc' = [pc EXCEPT ![t] = "entered"]
           /\ UNCHANGED <<clock, xTimeOut, asked>>
  <2>1. /\ pc'[t] = "entered"
        /\ \A u \in Tasks \ {t} : pc'[u] = pc[u]
    BY <1>1, <1>6 DEF Calls
  <2>2. Sound(clock)'
    <3>1. pc[t] \in Waiting /\ pc[t] # "run" /\ pc'[t] # "run"
      BY <1>2, <1>6, <2>1 DEF Waiting
    <3>2. QED
      BY <1>1, <1>4, <1>6, <2>1, <3>1, OneCallGoesOn
  <2>3. Calls'
    <3>1. \A u \in Tasks : pc'[u] \in {"delaying", "blocking", "giving up"}
                             <=> suspender' = u
      BY <1>1, <1>2, <2>1, NoneIsNobody DEF Calls
    <3>2. pc' \in [Tasks -> Waiting \cup
                              {"run", "delaying", "delayed", "giving up"}]
      BY <1>1, <1>6 DEF Calls, Waiting
    <3>3. \A u \in Tasks : pc'[u] # "run" => asked'[u] # 0
      BY <1>1, <1>2, <1>6, <2>1 DEF Calls
    <3>4. QED
      BY <1>1, <1>6, <3>1, <3>2, <3>3 DEF Calls, Waiting
  <2>4. PutOff' /\ SleepIsShort'
    BY <1>1, <1>2, <1>3, <1>6, TaskStep DEF Numbers
  <2>5. QED
    BY <2>2, <2>3, <2>4 DEF IInv
<1>7. QED
  BY <1>5, <1>6 DEF Return

(* Entries are taken from both lists, and the next unblock time follows.   *)
Removed(k, S) ==
  [k EXCEPT !.pxDelayedTaskList = Without(@, S),
            !.pxOverflowDelayedTaskList = Without(@, S)]

LEMMA RemovedParts ==
  ASSUME NEW k, IsClock(k), NEW S
  PROVE  /\ IsClock(Removed(k, S)) /\ SameNumbers(Removed(k, S), k)
         /\ Removed(k, S).pxDelayedTaskList = Without(k.pxDelayedTaskList, S)
         /\ Removed(k, S).pxOverflowDelayedTaskList =
              Without(k.pxOverflowDelayedTaskList, S)
         /\ Removed(k, S).xNextTaskUnblockTime = k.xNextTaskUnblockTime
<1> DEFINE one == Without(k.pxDelayedTaskList, S)
           other == Without(k.pxOverflowDelayedTaskList, S)
<1>1. k = [f \in Fields |-> k[f]]
  BY DEF IsClock
<1>2. Removed(k, S) = [k EXCEPT !.pxDelayedTaskList = one,
                                !.pxOverflowDelayedTaskList = other]
  BY DEF Removed
<1> HIDE DEF one, other
<1>3. Removed(k, S) = [f \in Fields |->
                         IF f = "pxDelayedTaskList" THEN one
                         ELSE IF f = "pxOverflowDelayedTaskList" THEN other
                         ELSE k[f]]
  BY <1>1, <1>2 DEF Fields
<1>4. QED
  BY <1>3 DEF IsClock, Fields, SameNumbers, one, other

LEMMA RemovedIsSound ==
  ASSUME NEW k, Sound(k), NEW S
  PROVE  /\ Sound(Reset(Removed(k, S)))
         /\ SameNumbers(Reset(Removed(k, S)), k)
         /\ Listed(Reset(Removed(k, S))) \subseteq Listed(k) \ S
<1> DEFINE m == Removed(k, S)
           r == Reset(m)
<1>1. /\ IsClock(k) /\ Numbers(k) /\ ListsHaveForm(k) /\ TimeIsLeft(k)
      /\ NobodyIsLate(k) /\ TimeOutsAreTrue(k)
      /\ k.pxDelayedTaskList \in Seq(Entry)
      /\ k.pxOverflowDelayedTaskList \in Seq(Entry)
  BY DEF Sound, NearlySound, ListsHaveForm, ListIsSound
<1>2. /\ IsClock(m) /\ SameNumbers(m, k)
      /\ m.pxDelayedTaskList = Without(k.pxDelayedTaskList, S)
      /\ m.pxOverflowDelayedTaskList = Without(k.pxOverflowDelayedTaskList, S)
  BY <1>1, RemovedParts
<1> HIDE DEF m
<1>3. /\ m.pxDelayedTaskList \in Seq(Entry)
      /\ PartOf(m.pxDelayedTaskList, k.pxDelayedTaskList)
      /\ \A i \in DOMAIN m.pxDelayedTaskList :
           m.pxDelayedTaskList[i].task \notin S
      /\ m.pxOverflowDelayedTaskList \in Seq(Entry)
      /\ PartOf(m.pxOverflowDelayedTaskList, k.pxOverflowDelayedTaskList)
      /\ \A i \in DOMAIN m.pxOverflowDelayedTaskList :
           m.pxOverflowDelayedTaskList[i].task \notin S
  BY <1>1, <1>2, WithoutIsPart
<1>4. /\ IsClock(r) /\ FirstIsNoted(r) /\ SameNumbers(r, m) /\ SameLists(r, m)
  BY <1>2, <1>3, ResetParts
<1> HIDE DEF r
<1>5. SameNumbers(r, k)
  BY <1>2, <1>4 DEF SameNumbers
<1>6. /\ ListsHaveForm(r) /\ TimeIsLeft(r) /\ NobodyIsLate(r)
      /\ Listed(r) \subseteq Listed(k)
  BY <1>1, <1>3, <1>4, <1>5, RemovalKeepsTimes DEF SameLists, SameNumbers
<1>7. \A t \in S : t \notin Listed(r)
  BY <1>3, <1>4, WhoIsListed DEF SameLists
<1>8. Numbers(r) /\ TimeOutsAreTrue(r)
  BY <1>1, <1>5 DEF SameNumbers, Numbers, TimeOutsAreTrue, TimeOutIsTrue,
                    Passed
<1>9. QED
  BY <1>4, <1>5, <1>6, <1>7, <1>8 DEF Sound, NearlySound, r, m

(* xTaskRemoveFromEventList. *)
LEMMA EventInv ==
  ASSUME KernelTimeAssumption, IInv, NEW t \in Tasks, Event(t)
  PROVE  IInv'
<1>1. Sound(clock) /\ Calls /\ PutOff /\ SleepIsShort
  BY DEF IInv
<1>2. /\ pc[t] \in {"blocking", "blocked"} /\ pc[t] \in Waiting
      /\ UNCHANGED <<xPendedTicks, suspender, asked, xTimeOut, sleep, real>>
  BY DEF Event, Waiting
<1>3. CASE suspender = None
  <2>1. /\ clock' = Reset(Removed(clock, {t}))
        /\ pc' = [pc EXCEPT ![t] = "woken"]
        /\ UNCHANGED xPendingReadyList
    BY <1>3 DEF Event, Removed
  <2>2. /\ pc'[t] = "woken" /\ \A u \in Tasks \ {t} : pc'[u] = pc[u]
    BY <1>1, <2>1 DEF Calls
  <2>3. /\ Sound(clock') /\ SameNumbers(clock', clock)
        /\ Listed(clock') \subseteq Listed(clock) \ {t}
    BY <1>1, <2>1, RemovedIsSound
  <2>4. NearlySound(clock') /\ Numbers(clock') /\ IsClock(clock')
    BY <2>3 DEF Sound, NearlySound
  <2>5. Sound(clock)'
    <3>1. SameLists(clock', clock')
      BY DEF SameLists
    <3>2. clock'.age \in [Tasks -> 0 .. Word]
      BY <2>4 DEF Numbers
    <3>3. \A u \in Tasks : Rests(u)' => clock'.age[u] = 0
      BY <1>2, <2>2, <2>4 DEF Numbers, Rests
    <3>4. \A u \in Listed(clock') : MayBeListed(u)' /\ asked'[u] = asked[u]
      <4> TAKE u \in Listed(clock')
      <4>1. u \in Tasks /\ MayBeListed(u) /\ u # t
        BY <2>3, <2>4, ListedMayBe
      <4>2. QED
        BY <1>2, <2>2, <4>1 DEF MayBeListed, portMAX_DELAY
    <3>5. \A u \in Tasks : pc'[u] \in Waiting =>
            /\ pc[u] \in Waiting /\ asked'[u] = asked[u]
            /\ xTimeOut'[u] = xTimeOut[u]
      BY <1>2, <2>2
    <3>6. QED
      BY <2>3, <2>4, <3>1, <3>2, <3>3, <3>4, <3>5, CallsGoOn
  <2>6. Calls'
    <3>1. \A u \in Tasks : pc'[u] \in {"delaying", "blocking", "giving up"}
                             <=> suspender' = u
      BY <1>1, <1>2, <1>3, <2>2, NoneIsNobody DEF Calls
    <3>2. pc' \in [Tasks -> Waiting \cup
                              {"run", "delaying", "delayed", "giving up"}]
      BY <1>1, <2>1 DEF Calls, Waiting
    <3>3. \A u \in Tasks : pc'[u] # "run" => asked'[u] # 0
      BY <1>1, <1>2, <2>2 DEF Calls
    <3>4. QED
      BY <1>1, <1>2, <3>1, <3>2, <3>3 DEF Calls, Waiting
  <2>7. PutOff' /\ SleepIsShort'
    BY <1>1, <1>2, <1>3, <2>1, <2>3, <2>4, TaskStep DEF SameNumbers, Numbers
  <2>8. QED
    BY <2>5, <2>6, <2>7 DEF IInv
<1>4. CASE suspender # None
  <2>1. /\ xPendingReadyList' = Append(xPendingReadyList, t)
        /\ UNCHANGED <<clock, pc>>
    BY <1>4 DEF Event
  <2>2. Sound(clock)'
    BY <1>1, <1>2, <2>1, SoundRests
  <2>3. Calls'
    BY <1>1, <1>2, <2>1 DEF Calls, Waiting
  <2>4. PutOff'
    <3>1. xPendingReadyList \in Seq(Tasks)
      BY <1>1 DEF PutOff
    <3>2. /\ xPendingReadyList' \in Seq(Tasks)
          /\ \A i \in DOMAIN xPendingReadyList' :
               \/ xPendingReadyList'[i] = t
               \/ /\ i \in DOMAIN xPendingReadyList
                  /\ xPendingReadyList'[i] = xPendingReadyList[i]
      <4>1. /\ Append(xPendingReadyList, t) \in Seq(Tasks)
            /\ Len(Append(xPendingReadyList, t)) = Len(xPendingReadyList) + 1
            /\ \A i \in 1 .. Len(xPendingReadyList) :
                 Append(xPendingReadyList, t)[i] = xPendingReadyList[i]
            /\ Append(xPendingReadyList, t)[Len(xPendingReadyList) + 1] = t
        BY <3>1, AppendProperties
      <4>2. /\ DOMAIN xPendingReadyList = 1 .. Len(xPendingReadyList)
            /\ DOMAIN Append(xPendingReadyList, t) =
                 1 .. Len(Append(xPendingReadyList, t))
            /\ Len(xPendingReadyList) \in Nat
        BY <3>1, <4>1, Places
      <4>3. \A n \in Nat : \A i \in 1 .. n + 1 : i = n + 1 \/ i \in 1 .. n
        OBVIOUS
      <4>4. QED
        BY <2>1, <4>1, <4>2, <4>3
    <3>3. \A i \in DOMAIN xPendingReadyList' :
            pc'[xPendingReadyList'[i]] \in {"blocking", "blocked"}
      BY <1>1, <1>2, <2>1, <3>2 DEF PutOff
    <3>4. QED
      BY <1>1, <1>2, <1>4, <2>1, <3>2, <3>3 DEF PutOff
  <2>5. SleepIsShort'
    BY <1>1, <1>2, <2>1 DEF SleepIsShort
  <2>6. QED
    BY <2>2, <2>3, <2>4, <2>5 DEF IInv
<1>5. QED
  BY <1>3, <1>4

(* The idle task suspends the scheduler ... *)
LEMMA IdleSuspendInv ==
  ASSUME KernelTimeAssumption, IInv, IdleSuspend
  PROVE  IInv'
<1>1. Sound(clock) /\ Calls /\ PutOff /\ SleepIsShort
  BY DEF IInv
<1>2. /\ suspender = None /\ suspender' = Idle
      /\ clock.xNextTaskUnblockTime >= clock.xTickCount + 2
      /\ UNCHANGED <<clock, xPendedTicks, xPendingReadyList, pc, asked,
                     xTimeOut, sleep, real>>
  BY DEF IdleSuspend
<1>3. Sound(clock)'
  BY <1>1, <1>2, SoundRests
<1>4. Calls'
  BY <1>1, <1>2, NoneIsNobody DEF Calls, Waiting
<1>5. PutOff'
  BY <1>1, <1>2 DEF PutOff
<1>6. SleepIsShort'
  <2>1. sleep' = 0
    BY <1>1, <1>2, NoneIsNobody DEF SleepIsShort
  <2>2. sleep \in -1 .. MaxSuppressed
    BY <1>1 DEF SleepIsShort
  <2>3. QED
    BY <1>2, <2>1, <2>2 DEF SleepIsShort
<1>7. QED
  BY <1>3, <1>4, <1>5, <1>6 DEF IInv

(* ... and sleeps until the next unblock time at the latest. *)
LEMMA IdleSleepInv ==
  ASSUME KernelTimeAssumption, IInv, IdleSleep
  PROVE  IInv'
<1>1. Sound(clock) /\ Calls /\ PutOff /\ SleepIsShort
  BY DEF IInv
<1>2. /\ suspender = Idle /\ sleep = 0
      /\ xPendingReadyList = <<>> /\ xPendedTicks = 0
      /\ sleep' = IF ExpectedIdleTime > MaxSuppressed THEN MaxSuppressed
                                                      ELSE ExpectedIdleTime
      /\ UNCHANGED <<clock, xPendedTicks, xPendingReadyList, suspender, pc,
                     asked, xTimeOut, real>>
  BY DEF IdleSleep
<1>3. Sound(clock)'
  BY <1>1, <1>2, SoundRests
<1>4. Calls'
  BY <1>1, <1>2 DEF Calls, Waiting
<1>5. PutOff'
  BY <1>1, <1>2 DEF PutOff
<1>6. SleepIsShort'
  <2> DEFINE next == clock.xNextTaskUnblockTime
             c == clock.xTickCount
  <2>1. next >= c + 2
    BY <1>1, <1>2 DEF SleepIsShort
  <2>2. /\ c \in 0 .. Word - 1 /\ Word \in Nat /\ Word > 2
        /\ MaxSuppressed \in Nat \ {0}
    BY <1>1 DEF Sound, NearlySound, Numbers, KernelTimeAssumption
  <2>3. next \in Int
    <3>1. FirstIsNoted(clock) /\ ListsHaveForm(clock)
      BY <1>1 DEF Sound, NearlySound
    <3>2. CASE clock.pxDelayedTaskList = <<>>
      <4>1. next = Word - 1
        BY <3>1, <3>2 DEF FirstIsNoted, portMAX_DELAY
      <4>2. QED
        BY <2>2, <4>1
    <3>3. CASE clock.pxDelayedTaskList # <<>>
      <4>1. next = clock.pxDelayedTaskList[1].value
        BY <3>1, <3>3 DEF FirstIsNoted
      <4>2. clock.pxDelayedTaskList[1] \in Entry
        BY <3>1, <3>3, Places DEF ListsHaveForm, ListIsSound
      <4>3. QED
        BY <4>1, <4>2, EntryParts
    <3>4. QED
      BY <3>2, <3>3
  <2>4. sleep' = IF next - c > MaxSuppressed THEN MaxSuppressed ELSE next - c
    BY <1>2 DEF ExpectedIdleTime
  <2>5. sleep' \in 1 .. MaxSuppressed /\ c + sleep' <= next
    <3> HIDE DEF next, c
    <3>1. QED
      BY <2>1, <2>2, <2>3, <2>4
  <2>6. /\ sleep' \in -1 .. MaxSuppressed /\ sleep' # 0
        /\ clock'.xTickCount + sleep' <= clock'.xNextTaskUnblockTime
    BY <1>2, <2>2, <2>5
  <2>7. QED
    BY <1>2, <2>6 DEF SleepIsShort
<1>7. QED
  BY <1>3, <1>4, <1>5, <1>6 DEF IInv

(* The ticks slept through are made up for; nobody's time was among them. *)
LEMMA IdleWakeInv ==
  ASSUME KernelTimeAssumption, IInv, NEW n \in 0 .. portMAX_DELAY,
         IdleWake(n)
  PROVE  IInv'
<1> DEFINE c == clock.xTickCount
           next == clock.xNextTaskUnblockTime
<1>1. Sound(clock) /\ Calls /\ PutOff /\ SleepIsShort
  BY DEF IInv
<1>2. /\ sleep > 0 /\ n \in 0 .. sleep - 1
      /\ \A t \in Tasks : clock.age[t] + n < Word
      /\ StepTick(n)
      /\ real' = (real + n) % Word /\ sleep' = -1
      /\ UNCHANGED <<xPendingReadyList, suspender, pc, asked, xTimeOut>>
  BY DEF IdleWake
<1>3. /\ sleep \in -1 .. MaxSuppressed /\ MaxSuppressed \in Nat
      /\ suspender = Idle
      /\ xPendedTicks = 0 /\ c + sleep <= next
  BY <1>1, <1>2 DEF SleepIsShort, KernelTimeAssumption
<1>4. /\ NearlySound(clock) /\ Numbers(clock) /\ IsClock(clock)
      /\ ListsHaveForm(clock) /\ TimeIsLeft(clock) /\ FirstIsNoted(clock)
      /\ NobodyIsLate(clock)
  BY <1>1 DEF Sound, NearlySound
<1>5. /\ c \in 0 .. Word - 1 /\ Word \in Nat \ {0} /\ Word > 2
      /\ clock.asserted = TRUE
  BY <1>4 DEF Numbers, KernelTimeAssumption
<1>6. next \in Nat /\ next <= Word - 1
  <2>1. CASE clock.pxDelayedTaskList = <<>>
    <3>1. next = Word - 1
      BY <1>4, <2>1 DEF FirstIsNoted, portMAX_DELAY
    <3>2. QED
      BY <1>5, <3>1
  <2>2. CASE clock.pxDelayedTaskList # <<>>
    <3>1. next = clock.pxDelayedTaskList[1].value
      BY <1>4, <2>2 DEF FirstIsNoted
    <3>2. clock.pxDelayedTaskList[1] \in Entry
      BY <1>4, <2>2, Places DEF ListsHaveForm, ListIsSound
    <3>3. next \in 0 .. Word - 1
      BY <3>1, <3>2, EntryParts
    <3> HIDE DEF next
    <3>4. QED
      BY <1>5, <3>3
  <2>3. QED
    BY <2>1, <2>2
<1> HIDE DEF c, next
<1>7. /\ n \in Nat /\ c + n < next /\ c + n < Word /\ c + n \in 0 .. Word - 1
      /\ c + n <= next /\ c + n # next
  BY <1>2, <1>3, <1>5, <1>6
<1>8. /\ clock' = [clock EXCEPT !.xTickCount = c + n,
                                !.age = Aged(clock, n),
                                !.asserted = TRUE]
      /\ xPendedTicks' = 0
  <2>1. clock.xTickCount = c /\ clock.xNextTaskUnblockTime = next
    BY DEF c, next
  <2>2. /\ clock' = [clock EXCEPT
              !.xTickCount = @ + n, !.age = Aged(clock, n),
              !.asserted = @ /\ c + n <= next]
        /\ xPendedTicks' = xPendedTicks + (n - n)
    BY <1>2, <1>7, <2>1 DEF StepTick
  <2>3. n - n = 0 /\ xPendedTicks + 0 = 0
    BY <1>3, <1>7
  <2>4. xPendedTicks' = 0
    BY <2>2, <2>3
  <2>5. (clock.asserted /\ c + n <= next) = TRUE
    BY <1>5, <1>7
  <2>6. QED
    BY <2>1, <2>2, <2>4, <2>5
<1>9. clock' = Later(clock, c + n, Aged(clock, n))
  <2> DEFINE d == c + n
             ages == Aged(clock, n)
  <2>1. clock = [f \in Fields |-> clock[f]]
    BY <1>4 DEF IsClock
  <2>2. clock' = [clock EXCEPT !.xTickCount = d, !.age = ages,
                               !.asserted = TRUE]
    BY <1>8
  <2>3. Later(clock, d, ages) = [clock EXCEPT !.xTickCount = d, !.age = ages]
    BY DEF Later
  <2> HIDE DEF d, ages
  <2>4. clock' = [f \in Fields |-> IF f = "xTickCount" THEN d
                                   ELSE IF f = "age" THEN ages
                                   ELSE IF f = "asserted" THEN TRUE
                                   ELSE clock[f]]
    BY <2>1, <2>2 DEF Fields
  <2>5. Later(clock, d, ages) =
          [f \in Fields |-> IF f = "xTickCount" THEN d
                            ELSE IF f = "age" THEN ages ELSE clock[f]]
    BY <2>1, <2>3 DEF Fields
  <2>6. clock["asserted"] = TRUE
    BY <1>5
  <2>7. clock' = Later(clock, d, ages)
    BY <2>4, <2>5, <2>6
  <2>8. QED
    BY <2>7 DEF d, ages
<1>10. \A i \in DOMAIN clock.pxDelayedTaskList :
         clock.pxDelayedTaskList[i].value > c + n
  <2> TAKE i \in DOMAIN clock.pxDelayedTaskList
  <2>1. next <= clock.pxDelayedTaskList[i].value
    BY <1>4, FirstIsLeast DEF next
  <2>2. clock.pxDelayedTaskList[i].value \in 0 .. Word - 1
    BY <1>4, EntryIsTimely
  <2>3. QED
    BY <1>5, <1>6, <1>7, <2>1, <2>2
<1>11. /\ IsClock(clock') /\ SameLists(clock', clock)
       /\ clock'.xTickCount = c + n /\ clock'.age = Aged(clock, n)
       /\ clock'.xNextTaskUnblockTime = next
  BY <1>4, <1>9, LaterParts DEF next
<1>12. Sound(clock')
  <2>1. \A t \in Tasks : clock.age[t] + n <= Word
    <3> TAKE t \in Tasks
    <3>1. clock.age[t] + n < Word /\ clock.age[t] \in 0 .. Word
      BY <1>2, <1>4 DEF Numbers
    <3>2. QED
      BY <1>5, <1>7, <3>1
  <2>2. \A i \in DOMAIN clock.pxDelayedTaskList :
          clock.pxDelayedTaskList[i].value >= clock.xTickCount + n
    <3> TAKE i \in DOMAIN clock.pxDelayedTaskList
    <3>1. clock.pxDelayedTaskList[i].value > c + n
      BY <1>10
    <3>2. clock.pxDelayedTaskList[i].value \in 0 .. Word - 1
      BY <1>4, EntryIsTimely
    <3>3. clock.xTickCount = c
      BY DEF c
    <3>4. QED
      BY <1>5, <1>7, <3>1, <3>2, <3>3
  <2>3. clock.xTickCount + n < Word
    BY <1>7 DEF c
  <2>4. NearlySound(Later(clock, clock.xTickCount + n, Aged(clock, n)))
    BY <1>1, <1>7, <2>1, <2>2, <2>3, LaterIsNearlySound DEF Calls
  <2>5. NearlySound(clock')
    BY <1>9, <2>4 DEF c
  <2>6. NobodyIsLate(clock')
    BY <1>10, <1>11 DEF NobodyIsLate, SameLists
  <2>7. QED
    BY <2>5, <2>6 DEF Sound
<1>13. Sound(clock)'
  BY <1>2, <1>12, SoundGoesOn
<1>14. Calls'
  BY <1>1, <1>2 DEF Calls, Waiting
<1>15. PutOff'
  <2>1. real = c
    <3>1. (c + 0) % Word = real
      BY <1>1, <1>3 DEF PutOff, c
    <3>2. c + 0 = c
      BY <1>5
    <3>3. QED
      BY <1>5, <3>1, <3>2, ModSmall
  <2>2. (c + n) % Word = c + n
    BY <1>5, <1>7, ModSmall
  <2>3. real' = c + n
    BY <1>2, <2>1, <2>2
  <2>4. (clock'.xTickCount + xPendedTicks') % Word = real'
    <3>1. \A m \in Int : m + 0 = m
      OBVIOUS
    <3>2. (c + n) + 0 = c + n
      BY <1>5, <1>7, <3>1
    <3>3. clock'.xTickCount + xPendedTicks' = c + n
      BY <1>8, <1>11, <3>2
    <3>4. QED
      BY <2>2, <2>3, <3>3
  <2>5. \A t \in Tasks : clock'.age[t] + xPendedTicks' <= Word
    <3> TAKE t \in Tasks
    <3>1. clock'.age[t] \in 0 .. Word
      BY <1>12 DEF Sound, NearlySound, Numbers
    <3>2. QED
      BY <1>5, <1>8, <3>1
  <2>6. 0 \in 0 .. MaxPended
    BY DEF KernelTimeAssumption
  <2>7. suspender' # None
    BY <1>2, <1>3, NoneIsNobody
  <2>8. real' \in 0 .. Word - 1
    BY <1>7, <2>3
  <2>9. QED
    BY <1>1, <1>2, <1>8, <2>4, <2>5, <2>6, <2>7, <2>8 DEF PutOff
<1>16. SleepIsShort'
  <2>1. -1 \in -1 .. MaxSuppressed /\ ~ (-1 > 0) /\ -1 # 0
    BY <1>3
  <2>2. QED
    BY <1>2, <1>3, <2>1 DEF SleepIsShort
<1>17. QED
  BY <1>13, <1>14, <1>15, <1>16 DEF IInv

-----------------------------------------------------------------------------
(* The ticks that are made up for when the scheduler is resumed. *)

(* The recursive function of Resumed, up to n ticks. *)
MakesUp(f, j, n) ==
  f = [i \in 0 .. n |-> IF i = 0 THEN j ELSE Ticked(f[i - 1])]

(* There is such a function. *)
LEMMA MadeUpExists ==
  ASSUME NEW j
  PROVE  \A n \in Nat : \E f : MakesUp(f, j, n)
<1> DEFINE bad == {n \in Nat : ~ \E f : MakesUp(f, j, n)}
<1>1. SUFFICES ASSUME bad # {}
               PROVE  FALSE
  OBVIOUS
<1>2. PICK n \in bad : \A m \in bad : n <= m
  BY <1>1, NatMin
<1>3. n # 0
  <2> DEFINE f == [i \in 0 .. 0 |-> j]
  <2>1. MakesUp(f, j, 0)
    BY DEF MakesUp
  <2>2. QED
    BY <2>1
<1>4. n \in Nat /\ n - 1 \in Nat /\ ~ (n <= n - 1)
  BY <1>3
<1>5. PICK f : MakesUp(f, j, n - 1)
  BY <1>2, <1>4
<1> DEFINE last == Ticked(f[n - 1])
           g == [i \in 0 .. n |-> IF i = n THEN last ELSE f[i]]
<1>6. ASSUME NEW i \in 0 .. n
      PROVE  g[i] = IF i = 0 THEN j ELSE Ticked(g[i - 1])
  <2>1. CASE i = n
    <3>1. n - 1 \in 0 .. n /\ n - 1 # n /\ n # 0 /\ n \in 0 .. n
      BY <1>4, <1>3
    <3>2. g[n - 1] = f[n - 1] /\ g[n] = last
      BY <3>1
    <3>3. QED
      BY <2>1, <3>1, <3>2
  <2>2. CASE i # n /\ i # 0
    <3>1. i \in 0 .. n - 1 /\ i - 1 \in 0 .. n /\ i - 1 # n
      BY <1>4, <2>2
    <3>2. g[i] = f[i] /\ g[i - 1] = f[i - 1]
      BY <2>2, <3>1
    <3>3. f[i] = Ticked(f[i - 1])
      BY <1>5, <2>2, <3>1 DEF MakesUp
    <3>4. QED
      BY <2>2, <3>2, <3>3
  <2>3. CASE i # n /\ i = 0
    <3>1. 0 \in 0 .. n - 1
      BY <1>4
    <3>2. f[0] = j
      BY <1>5, <3>1 DEF MakesUp
    <3>3. QED
      BY <2>3, <3>2
  <2>4. QED
    BY <2>1, <2>2, <2>3
<1>7. MakesUp(g, j, n)
  BY <1>6 DEF MakesUp
<1>8. QED
  BY <1>7

(* The function, one tick after the other. *)
LEMMA MadeUpSteps ==
  ASSUME NEW f, NEW j, NEW n \in Nat, MakesUp(f, j, n)
  PROVE  /\ f[0] = j
         /\ \A i \in 1 .. n : f[i] = Ticked(f[i - 1])
<1>1. /\ 0 \in 0 .. n
      /\ \A i \in 1 .. n : i \in 0 .. n /\ i # 0
  OBVIOUS
<1>2. \A i \in 0 .. n : f[i] = IF i = 0 THEN j ELSE Ticked(f[i - 1])
  BY Zenon DEF MakesUp
<1>3. QED
  BY <1>1, <1>2

(* What n ticks make of a clock. *)
TicksLater(k, j, n) ==
  /\ Sound(k) /\ k.xTickCount = (j.xTickCount + n) % Word
  /\ Listed(k) \subseteq Listed(j)
  /\ \A t \in Tasks : k.age[t] = IF Rests(t) THEN 0 ELSE j.age[t] + n

(* One tick more. *)
LEMMA OneTickLater ==
  ASSUME KernelTimeAssumption, asked \in [Tasks -> 0 .. Word],
         NEW j, Sound(j), NEW n \in Nat, NEW k, TicksLater(k, j, n),
         \A t \in Tasks : j.age[t] + (n + 1) <= Word
  PROVE  TicksLater(Ticked(k), j, n + 1)
<1>1. /\ Numbers(j) /\ Numbers(k) /\ Sound(k)
      /\ k.xTickCount = (j.xTickCount + n) % Word
      /\ Listed(k) \subseteq Listed(j)
      /\ \A t \in Tasks : k.age[t] = IF Rests(t) THEN 0 ELSE j.age[t] + n
  BY DEF TicksLater, Sound, NearlySound
<1>2. Word \in Nat \ {0} /\ j.xTickCount \in 0 .. Word - 1
      /\ \A t \in Tasks : j.age[t] \in 0 .. Word
  BY <1>1 DEF KernelTimeAssumption, Numbers
<1>3. \A t \in Tasks : k.age[t] + 1 <= Word
  <2> TAKE t \in Tasks
  <2>1. /\ k.age[t] = 0 \/ k.age[t] = j.age[t] + n
        /\ j.age[t] + (n + 1) <= Word /\ j.age[t] \in 0 .. Word
    BY <1>1, <1>2
  <2>2. QED
    BY <1>2, <2>1
<1>4. /\ Sound(Ticked(k))
      /\ Ticked(k).xTickCount = (k.xTickCount + 1) % Word
      /\ Ticked(k).age = Aged(k, 1)
      /\ Listed(Ticked(k)) \subseteq Listed(k)
  BY <1>1, <1>3, TickedIsSound
<1>5. Ticked(k).xTickCount = (j.xTickCount + (n + 1)) % Word
  <2>1. j.xTickCount + n \in Nat
        /\ (j.xTickCount + n) + 1 = j.xTickCount + (n + 1)
    BY <1>2
  <2>2. (((j.xTickCount + n) % Word) + 1) % Word =
          ((j.xTickCount + n) + 1) % Word
    BY <1>2, <2>1, ModStep
  <2>3. QED
    BY <1>1, <1>4, <2>1, <2>2
<1>6. \A t \in Tasks :
        Ticked(k).age[t] = IF Rests(t) THEN 0 ELSE j.age[t] + (n + 1)
  <2> TAKE t \in Tasks
  <2>1. Ticked(k).age[t] = IF Rests(t) THEN 0 ELSE k.age[t] + 1
    BY <1>1, <1>3, <1>4, AgedParts
  <2>2. j.age[t] \in 0 .. Word
    BY <1>2
  <2>3. (j.age[t] + n) + 1 = j.age[t] + (n + 1)
    BY <1>2, <2>2
  <2>4. QED
    BY <1>1, <2>1, <2>3
<1>7. QED
  BY <1>1, <1>4, <1>5, <1>6 DEF TicksLater

(* All of them, by the least number of ticks for which it fails. *)
LEMMA MadeUpIsSound ==
  ASSUME KernelTimeAssumption, asked \in [Tasks -> 0 .. Word],
         NEW j, Sound(j), NEW n \in Nat,
         \A t \in Tasks : j.age[t] + n <= Word,
         NEW f, MakesUp(f, j, n)
  PROVE  TicksLater(f[n], j, n)
<1>1. f[0] = j /\ \A i \in 1 .. n : f[i] = Ticked(f[i - 1])
  BY MadeUpSteps
<1>2. Numbers(j) /\ j.xTickCount \in 0 .. Word - 1
      /\ \A t \in Tasks : j.age[t] \in 0 .. Word /\ j.age[t] \in Int
  <2>1. Numbers(j)
    BY DEF Sound, NearlySound
  <2>2. QED
    BY <2>1 DEF Numbers, KernelTimeAssumption
<1>3. TicksLater(f[0], j, 0)
  <2>1. \A m \in Int : m + 0 = m
    OBVIOUS
  <2>2. Word \in Nat \ {0} /\ j.xTickCount \in Int
    BY <1>2 DEF KernelTimeAssumption
  <2>3. (j.xTickCount + 0) % Word = j.xTickCount
    <3>1. j.xTickCount + 0 = j.xTickCount
      BY <2>1, <2>2
    <3>2. j.xTickCount % Word = j.xTickCount
      BY <1>2, <2>2, ModSmall
    <3>3. QED
      BY <3>1, <3>2
  <2>4. \A t \in Tasks : j.age[t] = IF Rests(t) THEN 0 ELSE j.age[t] + 0
    <3> TAKE t \in Tasks
    <3>1. j.age[t] + 0 = j.age[t]
      BY <1>2, <2>1
    <3>2. Rests(t) => j.age[t] = 0
      BY <1>2 DEF Numbers
    <3>3. QED
      BY <3>1, <3>2
  <2>5. QED
    BY <1>1, <2>3, <2>4 DEF TicksLater
<1> DEFINE bad == {i \in 0 .. n : ~ TicksLater(f[i], j, i)}
<1>4. bad = {}
  <2> SUFFICES ASSUME bad # {}
               PROVE  FALSE
    OBVIOUS
  <2>1. bad \in SUBSET Nat
    OBVIOUS
  <2>2. PICK i \in bad : \A m \in bad : i <= m
    BY <2>1, NatMin
  <2>3. i \in 0 .. n /\ i # 0
    BY <1>3, <2>2
  <2>4. /\ i \in 1 .. n /\ i - 1 \in 0 .. n /\ i - 1 \in Nat
        /\ ~ (i <= i - 1) /\ i - 1 + 1 = i
    BY <2>3
  <2>5. TicksLater(f[i - 1], j, i - 1)
    BY <2>2, <2>4
  <2>6. \A t \in Tasks : j.age[t] + (i - 1 + 1) <= Word
    <3> TAKE t \in Tasks
    <3>1. j.age[t] + n <= Word /\ j.age[t] \in Int /\ Word \in Nat
      BY <1>2 DEF KernelTimeAssumption
    <3>2. QED
      BY <2>3, <2>4, <3>1
  <2>7. TicksLater(Ticked(f[i - 1]), j, i - 1 + 1)
    BY <2>4, <2>5, <2>6, OneTickLater
  <2>8. TicksLater(f[i], j, i)
    BY <1>1, <2>4, <2>7
  <2>9. QED
    BY <2>2, <2>8
<1>5. n \in 0 .. n
  OBVIOUS
<1>6. QED
  BY <1>4, <1>5

(* The clock that xTaskResumeAll leaves. *)
LEMMA ResumedIsSound ==
  ASSUME KernelTimeAssumption, asked \in [Tasks -> 0 .. Word],
         Sound(clock), xPendedTicks \in Nat,
         \A t \in Tasks : clock.age[t] + xPendedTicks <= Word
  PROVE  /\ TicksLater(Resumed, clock, xPendedTicks)
         /\ Listed(Resumed) \cap ToSet(xPendingReadyList) = {}
<1> DEFINE moved == ToSet(xPendingReadyList)
           j == IF moved = {} THEN clock ELSE Reset(Removed(clock, moved))
           f == CHOOSE f : MakesUp(f, j, xPendedTicks)
<1>1. MakesUp(f, j, xPendedTicks)
  BY MadeUpExists
<1>2. Resumed = f[xPendedTicks]
  BY DEF Resumed, MakesUp, Removed
<1>3. /\ Sound(j) /\ j.xTickCount = clock.xTickCount /\ j.age = clock.age
      /\ Listed(j) \subseteq Listed(clock) \ moved
  <2>1. CASE moved = {}
    BY <2>1
  <2>2. CASE moved # {}
    <3>1. j = Reset(Removed(clock, moved))
      BY <2>2
    <3>2. QED
      BY <3>1, RemovedIsSound DEF SameNumbers
  <2>3. QED
    BY <2>1, <2>2
<1> HIDE DEF f, j
<1>4. \A t \in Tasks : j.age[t] + xPendedTicks <= Word
  BY <1>3
<1>5. TicksLater(f[xPendedTicks], j, xPendedTicks)
  BY <1>1, <1>3, <1>4, MadeUpIsSound
<1>6. TicksLater(Resumed, j, xPendedTicks)
  BY <1>2, <1>5
<1>7. QED
  BY <1>3, <1>6 DEF TicksLater

(* The calls that go on when the scheduler is resumed.  Who waited on the  *)
(* pending list is woken, who suspended the scheduler is blocked or gave   *)
(* up, and nothing changes for the others.                                 *)
GoesOn(t) == asked'[t] = asked[t] /\ xTimeOut'[t] = xTimeOut[t]

LEMMA ResumedCalls ==
  ASSUME KernelTimeAssumption, Calls, PutOff, Resume, NEW t \in Tasks
  PROVE  \/ /\ t \in ToSet(xPendingReadyList) /\ t \in Tasks
            /\ pc[t] \in {"blocking", "blocked"} /\ pc'[t] = "woken"
            /\ GoesOn(t)
         \/ /\ t \notin ToSet(xPendingReadyList) /\ t # suspender
            /\ pc[t] \notin {"delaying", "blocking", "giving up"}
            /\ pc'[t] = pc[t] /\ GoesOn(t)
         \/ /\ t \notin ToSet(xPendingReadyList) /\ t = suspender
            /\ \/ pc[t] = "delaying" /\ pc'[t] = "delayed"
               \/ pc[t] = "blocking" /\ pc'[t] = "blocked"
            /\ GoesOn(t)
         \/ /\ t \notin ToSet(xPendingReadyList) /\ t = suspender
            /\ pc[t] = "giving up" /\ pc'[t] = "run" /\ asked'[t] = 0
<1> DEFINE moved == ToSet(xPendingReadyList)
           gaveUp == {u \in Tasks \cap {suspender} : pc[u] = "giving up"}
<1>1. /\ pc' = [u \in Tasks |->
                  IF u \in moved THEN "woken"
                  ELSE IF u # suspender THEN pc[u]
                  ELSE CASE pc[u] = "delaying"  -> "delayed"
                         [] pc[u] = "blocking"  -> "blocked"
                         [] pc[u] = "giving up" -> "run"]
      /\ asked' = [u \in Tasks |-> IF u \in gaveUp THEN 0 ELSE asked[u]]
      /\ xTimeOut' =
           [u \in Tasks |-> IF u \in gaveUp THEN NoTimeOut ELSE xTimeOut[u]]
  BY DEF Resume
<1>2. t \in moved => pc[t] \in {"blocking", "blocked"}
  BY DEF PutOff, ToSet
<1>3. pc[t] \in {"delaying", "blocking", "giving up"} <=> suspender = t
  BY DEF Calls
<1>4. t \notin gaveUp => GoesOn(t)
  BY <1>1 DEF GoesOn
<1>5. t \in gaveUp <=> t = suspender /\ pc[t] = "giving up"
  OBVIOUS
<1> HIDE DEF moved, gaveUp
<1>6. CASE t \in moved
  <2>1. pc'[t] = "woken"
    BY <1>1, <1>6
  <2>2. QED
    BY <1>2, <1>4, <1>5, <1>6, <2>1 DEF moved
<1>7. CASE t \notin moved /\ t # suspender
  <2>1. pc'[t] = pc[t]
    BY <1>1, <1>7
  <2>2. QED
    BY <1>3, <1>4, <1>5, <1>7, <2>1 DEF moved
<1>8. CASE t \notin moved /\ t = suspender
  <2>1. pc'[t] = CASE pc[t] = "delaying"  -> "delayed"
                   [] pc[t] = "blocking"  -> "blocked"
                   [] pc[t] = "giving up" -> "run"
    BY <1>1, <1>8
  <2>2. CASE pc[t] = "delaying"
    BY <1>4, <1>5, <1>8, <2>1, <2>2 DEF moved
  <2>3. CASE pc[t] = "blocking"
    BY <1>4, <1>5, <1>8, <2>1, <2>3 DEF moved
  <2>4. CASE pc[t] = "giving up"
    <3>1. asked'[t] = 0
      BY <1>1, <1>5, <1>8, <2>4
    <3>2. QED
      BY <1>8, <2>1, <2>4, <3>1 DEF moved
  <2>5. QED
    BY <1>3, <1>8, <2>2, <2>3, <2>4
<1>9. QED
  BY <1>6, <1>7, <1>8

(* Its clock, whose ages are those of the calls that go on. *)
LEMMA ResumedClock ==
  ASSUME KernelTimeAssumption, Resume, Sound(Resumed)
  PROVE  /\ IsClock(clock') /\ SameLists(clock', Resumed)
         /\ clock'.xTickCount = Resumed.xTickCount
         /\ clock'.xNumOfOverflows = Resumed.xNumOfOverflows
         /\ clock'.xNextTaskUnblockTime = Resumed.xNextTaskUnblockTime
         /\ clock'.exact = Resumed.exact /\ clock'.asserted = Resumed.asserted
         /\ clock'.age \in [Tasks -> 0 .. Word]
         /\ \A t \in Tasks :
              clock'.age[t] = IF t = suspender /\ pc[t] = "giving up" THEN 0
                              ELSE Resumed.age[t]
<1> DEFINE k == Resumed
           gaveUp == {u \in Tasks \cap {suspender} : pc[u] = "giving up"}
           ages == [u \in Tasks |-> IF u \in gaveUp THEN 0 ELSE k.age[u]]
<1>1. clock' = [k EXCEPT !.age = ages]
  BY DEF Resume
<1>2. k = [f \in Fields |-> k[f]] /\ k.age \in [Tasks -> 0 .. Word]
  BY DEF Sound, NearlySound, IsClock, Numbers
<1>3. \A u \in Tasks : u \in gaveUp <=> u = suspender /\ pc[u] = "giving up"
  OBVIOUS
<1>4. 0 \in 0 .. Word
  BY DEF KernelTimeAssumption
<1> HIDE DEF k, gaveUp
<1>5. ages \in [Tasks -> 0 .. Word]
  BY <1>2, <1>4
<1>6. \A u \in Tasks : ages[u] = IF u = suspender /\ pc[u] = "giving up"
                                 THEN 0 ELSE k.age[u]
  BY <1>3
<1> HIDE DEF ages
<1>7. clock' = [f \in Fields |-> IF f = "age" THEN ages ELSE k[f]]
  BY <1>1, <1>2 DEF Fields
<1>8. /\ IsClock(clock') /\ SameLists(clock', k)
      /\ clock'.xTickCount = k.xTickCount
      /\ clock'.xNumOfOverflows = k.xNumOfOverflows
      /\ clock'.xNextTaskUnblockTime = k.xNextTaskUnblockTime
      /\ clock'.exact = k.exact /\ clock'.asserted = k.asserted
      /\ clock'.age = ages
  BY <1>7 DEF IsClock, Fields, SameLists
<1>9. QED
  BY <1>5, <1>6, <1>8 DEF k

(* xTaskResumeAll. *)
LEMMA ResumeInv ==
  ASSUME KernelTimeAssumption, IInv, Resume
  PROVE  IInv'
<1>1. Sound(clock) /\ Calls /\ PutOff /\ SleepIsShort
  BY DEF IInv
<1>2. /\ suspender # None /\ xPendedTicks' = 0 /\ xPendingReadyList' = <<>>
      /\ suspender' = None /\ sleep' = 0 /\ real' = real
  BY DEF Resume
<1> DEFINE k == Resumed
           P == xPendedTicks
           moved == ToSet(xPendingReadyList)
<1>3. /\ TicksLater(k, clock, P) /\ Listed(k) \cap moved = {}
      /\ Word \in Nat \ {0} /\ MaxPended \in Nat /\ P \in Nat
  <2>1. P \in Nat /\ Word \in Nat \ {0} /\ MaxPended \in Nat
    BY <1>1 DEF PutOff, KernelTimeAssumption
  <2>2. /\ asked \in [Tasks -> 0 .. Word]
        /\ \A t \in Tasks : clock.age[t] + xPendedTicks <= Word
    BY <1>1 DEF Calls, PutOff
  <2>3. QED
    BY <1>1, <2>1, <2>2, ResumedIsSound
<1>4. /\ Sound(k) /\ NearlySound(k) /\ Numbers(k)
      /\ k.xTickCount = (clock.xTickCount + P) % Word
  BY <1>3 DEF TicksLater, Sound, NearlySound
<1>5. /\ IsClock(clock') /\ SameLists(clock', k)
      /\ clock'.xTickCount = k.xTickCount
      /\ clock'.xNumOfOverflows = k.xNumOfOverflows
      /\ clock'.xNextTaskUnblockTime = k.xNextTaskUnblockTime
      /\ clock'.exact = k.exact /\ clock'.asserted = k.asserted
      /\ clock'.age \in [Tasks -> 0 .. Word]
      /\ \A t \in Tasks :
           clock'.age[t] = IF t = suspender /\ pc[t] = "giving up" THEN 0
                           ELSE k.age[t]
  BY <1>4, ResumedClock
<1> HIDE DEF k, P
<1>6. ASSUME NEW t \in Tasks
      PROVE  \/ /\ t \in moved /\ pc[t] \in {"blocking", "blocked"}
                /\ pc'[t] = "woken" /\ GoesOn(t)
             \/ /\ t \notin moved /\ t # suspender
                /\ pc[t] \notin {"delaying", "blocking", "giving up"}
                /\ pc'[t] = pc[t] /\ GoesOn(t)
             \/ /\ t \notin moved /\ t = suspender
                /\ \/ pc[t] = "delaying" /\ pc'[t] = "delayed"
                   \/ pc[t] = "blocking" /\ pc'[t] = "blocked"
                /\ GoesOn(t)
             \/ /\ t \notin moved /\ t = suspender
                /\ pc[t] = "giving up" /\ pc'[t] = "run" /\ asked'[t] = 0
  BY <1>1, ResumedCalls
<1> HIDE DEF moved
<1>7. Sound(clock)'
  <2>1. \A t \in Tasks : Rests(t)' => clock'.age[t] = 0
    <3> TAKE t \in Tasks
    <3>1. CASE pc[t] = "giving up" /\ t = suspender
      BY <1>5, <3>1
    <3>2. CASE ~ (pc[t] = "giving up" /\ t = suspender)
      <4>1. Rests(t)' => Rests(t)
        BY <1>6, <3>2 DEF Rests, GoesOn
      <4>2. clock'.age[t] = k.age[t]
        BY <1>5, <3>2
      <4>3. QED
        BY <1>4, <4>1, <4>2 DEF Numbers
    <3>3. QED
      BY <3>1, <3>2
  <2>2. \A t \in Listed(k) : /\ MayBeListed(t)' /\ asked'[t] = asked[t]
                             /\ clock'.age[t] = k.age[t]
    <3> TAKE t \in Listed(k)
    <3>1. t \in Tasks /\ MayBeListed(t) /\ t \notin moved
      BY <1>3, <1>4, ListedMayBe
    <3>2. pc[t] # "giving up"
      BY <3>1 DEF MayBeListed
    <3>3. asked'[t] = asked[t] /\ clock'.age[t] = k.age[t]
      BY <1>5, <1>6, <3>1, <3>2 DEF GoesOn
    <3>4. pc'[t] \in {"delaying", "delayed", "blocking", "blocked"}
      BY <1>6, <3>1, <3>2 DEF MayBeListed
    <3>5. QED
      BY <3>1, <3>3, <3>4 DEF MayBeListed, portMAX_DELAY
  <2>3. \A t \in Tasks : pc'[t] \in Waiting =>
          /\ pc[t] \in Waiting /\ asked'[t] = asked[t]
          /\ xTimeOut'[t] = xTimeOut[t] /\ clock'.age[t] = k.age[t]
    <3> TAKE t \in Tasks
    <3>1. pc'[t] \in Waiting => pc[t] \in Waiting /\ GoesOn(t)
                                /\ pc[t] # "giving up"
      BY <1>6 DEF Waiting
    <3>2. QED
      BY <1>5, <3>1 DEF GoesOn
  <2>4. QED
    BY <1>4, <1>5, <2>1, <2>2, <2>3, CallsGoOn
<1>8. Calls'
  <2>1. pc' \in [Tasks -> Waiting \cup
                            {"run", "delaying", "delayed", "giving up"}]
    <3>1. pc' = [t \in Tasks |-> pc'[t]]
      <4> DEFINE next(t) ==
            IF t \in ToSet(xPendingReadyList) THEN "woken"
            ELSE IF t # suspender THEN pc[t]
            ELSE CASE pc[t] = "delaying"  -> "delayed"
                   [] pc[t] = "blocking"  -> "blocked"
                   [] pc[t] = "giving up" -> "run"
      <4>1. pc' = [t \in Tasks |-> next(t)]
        BY DEF Resume
      <4> HIDE DEF next
      <4>2. QED
        BY <4>1
    <3>2. \A t \in Tasks : pc'[t] \in Waiting \cup
                             {"run", "delaying", "delayed", "giving up"}
      <4> TAKE t \in Tasks
      <4>1. pc[t] \in Waiting \cup {"run", "delaying", "delayed", "giving up"}
        BY <1>1 DEF Calls
      <4>2. QED
        BY <1>6, <4>1 DEF Waiting
    <3>3. QED
      BY <3>1, <3>2
  <2>2. asked' \in [Tasks -> 0 .. Word]
    <3>1. asked' = [t \in Tasks |-> asked'[t]]
      BY DEF Resume
    <3>2. 0 \in 0 .. Word
      BY <1>3
    <3>3. \A t \in Tasks : asked'[t] \in 0 .. Word
      BY <1>1, <1>6, <3>2 DEF Calls, GoesOn
    <3>4. QED
      BY <3>1, <3>3
  <2>3. \A t \in Tasks : pc'[t] # "run" => asked'[t] # 0
    <3> TAKE t \in Tasks
    <3>1. pc[t] # "run" => asked[t] # 0
      BY <1>1 DEF Calls
    <3>2. pc'[t] # "run" => pc[t] # "run" /\ GoesOn(t)
      BY <1>6
    <3>3. QED
      BY <3>1, <3>2 DEF GoesOn
  <2>4. DOMAIN xTimeOut' = Tasks
    BY DEF Resume
  <2>5. \A t \in Tasks :
          pc'[t] \in {"delaying", "blocking", "giving up"} <=> suspender' = t
    <3> TAKE t \in Tasks
    <3>1. pc'[t] \notin {"delaying", "blocking", "giving up"}
      BY <1>6
    <3>2. suspender' # t
      BY <1>2, NoneIsNobody
    <3>3. QED
      BY <3>1, <3>2
  <2>6. QED
    BY <2>1, <2>2, <2>3, <2>4, <2>5 DEF Calls, Waiting
<1>9. PutOff'
  <2>1. /\ 0 \in 0 .. MaxPended /\ <<>> \in Seq(Tasks) /\ DOMAIN <<>> = {}
    BY <1>3
  <2>2. k.xTickCount = real /\ real \in 0 .. Word - 1
    BY <1>1, <1>4 DEF PutOff, P
  <2>3. (clock'.xTickCount + xPendedTicks') % Word = real'
    <3>1. \A m \in Int : m + 0 = m
      OBVIOUS
    <3>2. real \in Int
      BY <1>3, <2>2
    <3>3. real + 0 = real
      BY <3>1, <3>2, Zenon
    <3>4. real % Word = real
      BY <1>3, <2>2, ModSmall
    <3>5. clock'.xTickCount = real
      BY <1>5, <2>2
    <3>6. clock'.xTickCount + xPendedTicks' = real
      BY <1>2, <3>3, <3>5, Zenon
    <3>7. QED
      BY <1>2, <3>4, <3>6, Zenon
  <2>4. \A t \in Tasks : clock'.age[t] + xPendedTicks' <= Word
    <3> TAKE t \in Tasks
    <3>1. clock'.age[t] \in 0 .. Word
      BY <1>5
    <3>2. QED
      BY <1>2, <1>3, <3>1
  <2>5. QED
    BY <1>2, <2>1, <2>2, <2>3, <2>4 DEF PutOff
<1>10. SleepIsShort'
  <2>1. sleep' = 0 /\ suspender' # Idle /\ 0 \in -1 .. MaxSuppressed
    BY <1>2, NoneIsNobody DEF KernelTimeAssumption
  <2>2. QED
    BY <2>1 DEF SleepIsShort
<1>11. QED
  BY <1>7, <1>8, <1>9, <1>10 DEF IInv

-----------------------------------------------------------------------------
(* The invariant. *)

(* At the start no one is in a call. *)
LEMMA InitInv ==
  ASSUME KernelTimeAssumption, Init
  PROVE  IInv
<1>1. clock = Start /\ real = 0 /\ xPendedTicks = 0
      /\ xPendingReadyList = <<>> /\ suspender = None /\ sleep = 0
      /\ pc = [t \in Tasks |-> "run"] /\ asked = [t \in Tasks |-> 0]
      /\ xTimeOut = [t \in Tasks |-> NoTimeOut]
  BY DEF Init
<1>2. /\ Word \in Nat /\ OverflowWord \in Nat /\ 0 \in 0 .. Word - 1
      /\ 0 \in 0 .. OverflowWord - 1 /\ 0 \in 0 .. Word
      /\ 0 \in 0 .. MaxPended /\ 0 \in -1 .. MaxSuppressed
      /\ Word \in Nat \ {0}
  BY DEF KernelTimeAssumption
<1>3. <<>> \in Seq(Entry) /\ <<>> \in Seq(Tasks) /\ DOMAIN <<>> = {}
  OBVIOUS
<1>4. /\ clock.xTickCount = 0 /\ clock.xNumOfOverflows = 0
      /\ clock.xNextTaskUnblockTime = portMAX_DELAY
      /\ clock.pxDelayedTaskList = <<>>
      /\ clock.pxOverflowDelayedTaskList = <<>>
      /\ clock.age = [t \in Tasks |-> 0]
      /\ clock.exact = TRUE /\ clock.asserted = TRUE
  BY <1>1 DEF Start
<1>5. IsClock(clock)
  BY <1>1 DEF IsClock, Start, Fields
<1>6. Numbers(clock)
  BY <1>2, <1>4 DEF Numbers
<1>7. ListsHaveForm(clock)
  BY <1>3, <1>4 DEF ListsHaveForm, ListIsSound, Ordered, Once, Disjoint
<1>8. TimeIsLeft(clock) /\ NobodyIsLate(clock) /\ FirstIsNoted(clock)
  BY <1>3, <1>4 DEF TimeIsLeft, NobodyIsLate, FirstIsNoted
<1>9. TimeOutsAreTrue(clock)
  BY <1>1 DEF TimeOutsAreTrue, Waiting
<1>10. Calls
  BY <1>1, <1>2, NoneIsNobody DEF Calls, Waiting
<1>11. PutOff
  <2>1. \A t \in Tasks : clock.age[t] + xPendedTicks <= Word
    BY <1>1, <1>2, <1>4
  <2>2. (clock.xTickCount + xPendedTicks) % Word = real
    <3>1. 0 + 0 = 0
      OBVIOUS
    <3>2. 0 % Word = 0
      BY <1>2, ModSmall
    <3>3. QED
      BY <1>1, <1>4, <3>1, <3>2
  <2>3. QED
    BY <1>1, <1>2, <1>3, <2>1, <2>2 DEF PutOff
<1>12. SleepIsShort
  BY <1>1, <1>2, NoneIsNobody DEF SleepIsShort
<1>13. QED
  BY <1>5, <1>6, <1>7, <1>8, <1>9, <1>10, <1>11, <1>12
     DEF IInv, Sound, NearlySound

(* Every step keeps it. *)
LEMMA NextInv ==
  ASSUME KernelTimeAssumption, IInv, [Next]_vars
  PROVE  IInv'
<1>1. CASE Tick
  BY <1>1, TickInv
<1>2. CASE Resume
  BY <1>2, ResumeInv
<1>3. CASE IdleSuspend
  BY <1>3, IdleSuspendInv
<1>4. CASE IdleSleep
  BY <1>4, IdleSleepInv
<1>5. CASE \E n \in 0 .. portMAX_DELAY : IdleWake(n)
  BY <1>5, IdleWakeInv
<1>6. CASE \E t \in Tasks : Event(t)
  BY <1>6, EventInv
<1>7. CASE \E t \in Tasks : Block(t)
  BY <1>7, BlockInv
<1>8. CASE \E t \in Tasks : Return(t)
  BY <1>8, ReturnInv
<1>9. CASE \E t \in Tasks : \E n \in Times : vTaskDelay(t, n)
  BY <1>9, DelayInv
<1>10. CASE \E t \in Tasks : \E n \in Times : Wait(t, n)
  BY <1>10, WaitInv
<1>11. CASE UNCHANGED vars
  <2>1. /\ UNCHANGED <<clock, pc, asked, xTimeOut>>
        /\ UNCHANGED <<xPendedTicks, xPendingReadyList, suspender>>
        /\ UNCHANGED <<sleep, real>>
    BY <1>11 DEF vars
  <2>2. Sound(clock)'
    BY <2>1, SoundRests DEF IInv
  <2>3. Calls' /\ PutOff' /\ SleepIsShort'
    BY <2>1 DEF IInv, Calls, PutOff, SleepIsShort, Waiting
  <2>4. QED
    BY <2>2, <2>3 DEF IInv
<1>12. QED
  BY <1>1, <1>2, <1>3, <1>4, <1>5, <1>6, <1>7, <1>8, <1>9, <1>10, <1>11
     DEF Next

(* The clock, the calls, what is put off and the sleep of the idle task    *)
(* fit together in every state.                                            *)
THEOREM ClockInvariant == Spec => []IInv
<1>1. KernelTimeAssumption
  BY KernelTimeAssumption
<1>2. Init => IInv
  BY <1>1, InitInv
<1>3. IInv /\ [Next]_vars => IInv'
  BY <1>1, NextInv
<1>4. QED
  BY <1>2, <1>3, PTL DEF Spec

-----------------------------------------------------------------------------
(* What the runs check. *)

(* No task is on the two lists twice. *)
LEMMA OnceOnBoth ==
  ASSUME NEW k, ListsHaveForm(k)
  PROVE  LET both == k.pxDelayedTaskList \o k.pxOverflowDelayedTaskList IN
         \A i, j \in DOMAIN both : both[i].task = both[j].task => i = j
<1> DEFINE one == k.pxDelayedTaskList
           two == k.pxOverflowDelayedTaskList
           both == one \o two
<1>1. one \in Seq(Entry) /\ two \in Seq(Entry)
  BY DEF ListsHaveForm, ListIsSound
<1>2. /\ \A i, j \in DOMAIN one : one[i].task = one[j].task => i = j
      /\ \A i, j \in DOMAIN two : two[i].task = two[j].task => i = j
      /\ \A i \in DOMAIN one, j \in DOMAIN two : one[i].task # two[j].task
  BY DEF ListsHaveForm, ListIsSound, Once, Disjoint
<1> HIDE DEF one, two
<1>3. /\ DOMAIN one = 1 .. Len(one) /\ Len(one) \in Nat
      /\ DOMAIN two = 1 .. Len(two) /\ Len(two) \in Nat
  BY <1>1, Places
<1>4. /\ both \in Seq(Entry) /\ Len(both) = Len(one) + Len(two)
      /\ \A i \in 1 .. Len(one) + Len(two) :
           both[i] = IF i <= Len(one) THEN one[i] ELSE two[i - Len(one)]
  BY <1>1, ConcatProperties
<1> HIDE DEF both
<1>5. DOMAIN both = 1 .. Len(one) + Len(two)
  BY <1>4, Places
<1>6. ASSUME NEW i \in DOMAIN both
      PROVE  \/ i \in DOMAIN one /\ i <= Len(one) /\ both[i] = one[i]
             \/ /\ ~ (i <= Len(one)) /\ i - Len(one) \in DOMAIN two
                /\ both[i] = two[i - Len(one)]
  <2>1. i \in 1 .. Len(one) + Len(two)
    BY <1>5
  <2>2. CASE i <= Len(one)
    BY <1>3, <1>4, <2>1, <2>2
  <2>3. CASE ~ (i <= Len(one))
    <3>1. i - Len(one) \in 1 .. Len(two)
      BY <1>3, <2>1, <2>3
    <3>2. QED
      BY <1>3, <1>4, <2>1, <2>3, <3>1
  <2>4. QED
    BY <2>2, <2>3
<1>7. ASSUME NEW i \in DOMAIN both, NEW j \in DOMAIN both,
             both[i].task = both[j].task
      PROVE  i = j
  <2>1. CASE i \in DOMAIN one /\ both[i] = one[i] /\ i <= Len(one)
    <3>1. CASE j \in DOMAIN one /\ both[j] = one[j]
      BY <1>2, <1>7, <2>1, <3>1
    <3>2. CASE /\ j - Len(one) \in DOMAIN two
               /\ both[j] = two[j - Len(one)]
      BY <1>2, <1>7, <2>1, <3>2
    <3>3. QED
      BY <1>6, <3>1, <3>2
  <2>2. CASE /\ i - Len(one) \in DOMAIN two
             /\ both[i] = two[i - Len(one)]
    <3>1. CASE j \in DOMAIN one /\ both[j] = one[j]
      BY <1>2, <1>7, <2>2, <3>1
    <3>2. CASE /\ j - Len(one) \in DOMAIN two
               /\ both[j] = two[j - Len(one)]
      <4>1. i - Len(one) = j - Len(one)
        BY <1>2, <1>7, <2>2, <3>2
      <4>2. i \in Int /\ j \in Int
        BY <1>3, <1>5
      <4>3. QED
        BY <1>3, <4>1, <4>2
    <3>3. QED
      BY <1>6, <3>1, <3>2
  <2>3. QED
    BY <1>6, <2>1, <2>2
<1>8. QED
  BY <1>7 DEF both, one, two

(* The next unblock time is a tick count. *)
LEMMA FirstIsACount ==
  ASSUME KernelTimeAssumption, NEW k, ListsHaveForm(k), FirstIsNoted(k)
  PROVE  k.xNextTaskUnblockTime \in 0 .. portMAX_DELAY
<1> DEFINE list == k.pxDelayedTaskList
<1>1. portMAX_DELAY = Word - 1 /\ Word \in Nat /\ Word > 2
  BY DEF portMAX_DELAY, KernelTimeAssumption
<1>2. list \in Seq(Entry)
  BY DEF ListsHaveForm, ListIsSound
<1>3. CASE list = <<>>
  <2>1. k.xNextTaskUnblockTime = portMAX_DELAY
    BY <1>3 DEF FirstIsNoted
  <2>2. QED
    BY <1>1, <2>1
<1>4. CASE list # <<>>
  <2>1. 1 \in DOMAIN list /\ list[1] \in Entry
    BY <1>2, <1>4, Places
  <2>2. list[1].value \in 0 .. Word - 1
    BY <2>1, EntryParts
  <2>3. k.xNextTaskUnblockTime = list[1].value
    BY <1>4 DEF FirstIsNoted
  <2>4. QED
    BY <1>1, <2>2, <2>3
<1>5. QED
  BY <1>3, <1>4

(* The invariant makes the lists sound. *)
LEMMA InvListsAreSound ==
  ASSUME KernelTimeAssumption, IInv
  PROVE  ListsAreSound
<1> DEFINE list == clock.pxDelayedTaskList
<1>1. /\ Sound(clock) /\ Calls /\ PutOff /\ SleepIsShort
      /\ NearlySound(clock) /\ Numbers(clock) /\ ListsHaveForm(clock)
      /\ TimeIsLeft(clock) /\ FirstIsNoted(clock)
  BY DEF IInv, Sound, NearlySound
<1>2. /\ clock.pxDelayedTaskList \in Seq(Entry)
      /\ clock.pxOverflowDelayedTaskList \in Seq(Entry)
  BY <1>1 DEF ListsHaveForm, ListIsSound
<1>3. TypeOK
  <2>1. clock.xNextTaskUnblockTime \in 0 .. portMAX_DELAY
    BY <1>1, FirstIsACount
  <2>2. \A l \in Lists : l \in Seq([task : Tasks, value : 0 .. Word - 1])
    BY <1>2 DEF Lists, Entry
  <2>3. LET both == clock.pxDelayedTaskList \o
                    clock.pxOverflowDelayedTaskList IN
        \A i, j \in DOMAIN both : both[i].task = both[j].task => i = j
    BY <1>1, OnceOnBoth
  <2>4. \A t \in Listed(clock) :
          pc[t] \in {"delaying", "delayed", "blocking", "blocked"}
    BY <1>1, ListedMayBe DEF MayBeListed
  <2>5. ToSet(xPendingReadyList) \subseteq
          {t \in Tasks : pc[t] \in {"blocking", "blocked"}}
    <3>1. \A i \in DOMAIN xPendingReadyList :
            /\ xPendingReadyList[i] \in Tasks
            /\ pc[xPendingReadyList[i]] \in {"blocking", "blocked"}
      <4>1. xPendingReadyList \in Seq(Tasks)
        BY <1>1 DEF PutOff
      <4>2. QED
        BY <1>1, <4>1, Places DEF PutOff
    <3>2. QED
      BY <3>1 DEF ToSet
  <2>6. /\ clock.xTickCount \in 0 .. Word - 1
        /\ clock.xNumOfOverflows \in 0 .. OverflowWord - 1
        /\ clock.age \in [Tasks -> 0 .. Word]
    BY <1>1 DEF Numbers
  <2>7. /\ xPendedTicks \in 0 .. MaxPended
        /\ suspender \in Tasks \cup {Idle, None}
        /\ asked \in [Tasks -> 0 .. Word]
        /\ sleep \in -1 .. MaxSuppressed /\ real \in 0 .. Word - 1
    BY <1>1 DEF PutOff, Calls, SleepIsShort
  <2>8. QED
    BY <2>1, <2>2, <2>3, <2>4, <2>5, <2>6, <2>7 DEF TypeOK
<1>4. AssertionsHold
  BY <1>1 DEF AssertionsHold, Numbers
<1>5. ASSUME list # <<>>
      PROVE  LET first == Head(list).value IN
             /\ \A e \in ToSet(list) : first <= e.value
             /\ clock.xNextTaskUnblockTime = first
  <2>1. Head(list) = list[1] /\ 1 \in DOMAIN list
    BY <1>2, <1>5, Places
  <2>2. clock.xNextTaskUnblockTime = list[1].value
    BY <1>1, <1>5 DEF FirstIsNoted
  <2>3. \A i \in DOMAIN list : clock.xNextTaskUnblockTime <= list[i].value
    BY <1>1, FirstIsLeast
  <2>4. QED
    BY <2>1, <2>2, <2>3 DEF ToSet
<1>6. NextUnblockIsFirst
  BY <1>5 DEF NextUnblockIsFirst
<1>7. QED
  BY <1>3, <1>4, <1>6 DEF ListsAreSound

(* A task is on one list at most, no assertion of the kernel fails, and    *)
(* the head of the delayed list and the next unblock time are the first    *)
(* time at which a task has to be woken: the tick and the idle task need   *)
(* not look further.                                                       *)
THEOREM KernelListsAreSound == Spec => []ListsAreSound
<1>1. KernelTimeAssumption
  BY KernelTimeAssumption
<1>2. IInv => ListsAreSound
  BY <1>1, InvListsAreSound
<1>3. QED
  BY <1>2, ClockInvariant, PTL

(* The invariant keeps the times. *)
LEMMA InvTimesAreKept ==
  ASSUME KernelTimeAssumption, IInv
  PROVE  TimesAreKept
<1>1. /\ Sound(clock) /\ PutOff /\ NobodyIsLate(clock)
      /\ Numbers(clock) /\ ListsHaveForm(clock) /\ TimeIsLeft(clock)
  BY DEF IInv, Sound, NearlySound
<1>2. WakesOnTime
  BY <1>1 DEF WakesOnTime, Numbers
<1>3. BlockTimeIsLeft
  <2>1. \A i \in DOMAIN clock.pxDelayedTaskList :
          LET e == clock.pxDelayedTaskList[i] IN
          /\ e.value > clock.xTickCount
          /\ e.value = clock.xTickCount +
                         (asked[e.task] - clock.age[e.task])
    BY <1>1 DEF NobodyIsLate, TimeIsLeft
  <2>2. \A i \in DOMAIN clock.pxOverflowDelayedTaskList :
          LET e == clock.pxOverflowDelayedTaskList[i] IN
          e.value + Word = clock.xTickCount +
                             (asked[e.task] - clock.age[e.task])
    BY <1>1 DEF TimeIsLeft
  <2>3. QED
    BY <2>1, <2>2 DEF BlockTimeIsLeft, ToSet
<1>4. TicksDoNotSlip
  BY <1>1 DEF TicksDoNotSlip, PutOff
<1>5. QED
  BY <1>2, <1>3, <1>4 DEF TimesAreKept

(* The tick that wakes a task is the one that its call asked for, and no   *)
(* tick is lost or counted twice: through wraps of the tick count, ticks   *)
(* that are made up for, waits that are taken up again and sleeps.         *)
THEOREM KernelTimesAreKept == Spec => []TimesAreKept
<1>1. KernelTimeAssumption
  BY KernelTimeAssumption
<1>2. IInv => TimesAreKept
  BY <1>1, InvTimesAreKept
<1>3. QED
  BY <1>2, ClockInvariant, PTL

(* What TimeoutIsExact says of a step. *)
GivesUpInTime ==
  \A t \in Tasks : pc[t] = "entered" /\ pc'[t] # "entered" =>
    (pc'[t] = "giving up" <=> asked[t] # Word /\ clock.age[t] >= asked[t])

(* Only Block decides whether a wait goes on. *)
LEMMA EnteredIsLeft ==
  ASSUME KernelTimeAssumption, IInv, [Next]_vars, NEW t \in Tasks,
         pc[t] = "entered", pc'[t] # "entered"
  PROVE  Block(t)
<1>1. Calls /\ PutOff
  BY DEF IInv
<1>2. CASE Tick
  BY <1>2 DEF Tick
<1>3. CASE Resume
  BY <1>1, <1>3, ResumedCalls
<1>4. CASE IdleSuspend
  BY <1>4 DEF IdleSuspend
<1>5. CASE IdleSleep
  BY <1>5 DEF IdleSleep
<1>6. CASE \E n \in 0 .. portMAX_DELAY : IdleWake(n)
  BY <1>6 DEF IdleWake
<1>7. CASE \E u \in Tasks : Event(u)
  <2>1. PICK u \in Tasks : Event(u)
    BY <1>7
  <2>2. pc[u] \in {"blocking", "blocked"}
        /\ (pc' = pc \/ pc' = [pc EXCEPT ![u] = "woken"])
    BY <2>1 DEF Event
  <2>3. QED
    BY <1>1, <2>2 DEF Calls
<1>8. CASE \E u \in Tasks : Block(u)
  <2>1. PICK u \in Tasks : Block(u)
    BY <1>8
  <2>2. pc' = [pc EXCEPT ![u] = "giving up"]
        \/ pc' = [pc EXCEPT ![u] = "blocking"]
    BY <2>1 DEF Block
  <2>3. u = t
    BY <1>1, <2>2 DEF Calls
  <2>4. QED
    BY <2>1, <2>3
<1>9. CASE \E u \in Tasks : Return(u)
  <2>1. PICK u \in Tasks : Return(u)
    BY <1>9
  <2>2. /\ pc[u] \in {"delayed", "blocked", "woken"}
        /\ \/ pc' = [pc EXCEPT ![u] = "run"]
           \/ pc' = [pc EXCEPT ![u] = "entered"]
    BY <2>1 DEF Return
  <2>3. QED
    BY <1>1, <2>2 DEF Calls
<1>10. CASE \E u \in Tasks : \E n \in Times : vTaskDelay(u, n) \/ Wait(u, n)
  <2>1. PICK u \in Tasks, n \in Times : vTaskDelay(u, n) \/ Wait(u, n)
    BY <1>10
  <2>2. /\ pc[u] = "run"
        /\ \/ pc' = [pc EXCEPT ![u] = "delaying"]
           \/ pc' = [pc EXCEPT ![u] = "entered"]
    BY <2>1 DEF vTaskDelay, Wait
  <2>3. QED
    BY <1>1, <2>2 DEF Calls
<1>11. CASE UNCHANGED vars
  BY <1>11 DEF vars
<1>12. QED
  BY <1>2, <1>3, <1>4, <1>5, <1>6, <1>7, <1>8, <1>9, <1>10, <1>11 DEF Next

(* xTaskCheckForTimeOut is exact in every state of the invariant. *)
LEMMA StepGivesUpInTime ==
  ASSUME KernelTimeAssumption, IInv, [Next]_vars
  PROVE  GivesUpInTime
<1>1. Sound(clock) /\ Calls
  BY DEF IInv
<1>2. SUFFICES ASSUME NEW t \in Tasks,
                      pc[t] = "entered", pc'[t] # "entered"
               PROVE  pc'[t] = "giving up" <=>
                        asked[t] # Word /\ clock.age[t] >= asked[t]
  BY DEF GivesUpInTime
<1>3. Block(t)
  BY <1>2, EnteredIsLeft
<1>4. pc'[t] = IF TimedOut(t) THEN "giving up" ELSE "blocking"
  BY <1>1, <1>3 DEF Block, Calls
<1>5. TimedOut(t) <=> asked[t] # Word /\ clock.age[t] >= asked[t]
  BY <1>1, <1>2, TimedOutIsExact DEF Waiting, Calls
<1>6. QED
  BY <1>4, <1>5

(* A wait gives up just when its block time is over, however long the task *)
(* was kept from running meanwhile.                                        *)
THEOREM KernelTimeoutIsExact == Spec => TimeoutIsExact
<1>1. KernelTimeAssumption
  BY KernelTimeAssumption
<1>2. IInv /\ [Next]_vars => GivesUpInTime
  BY <1>1, StepGivesUpInTime
<1>3. IInv /\ [Next]_vars => [GivesUpInTime]_vars
  BY <1>2
<1>4. Spec => [][GivesUpInTime]_vars
  BY <1>3, ClockInvariant, PTL DEF Spec
<1>5. QED
  BY <1>4, PTL DEF TimeoutIsExact, GivesUpInTime

=============================================================================
