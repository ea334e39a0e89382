------------------------- MODULE KernelMutexProofs --------------------------
(***************************************************************************)
(* Proofs about the kernel's mutexes, for any tasks, priorities, mutexes   *)
(* and block times.                                                        *)
(***************************************************************************)
EXTENDS KernelMutex, ListProofs, FiniteSetTheorems

-----------------------------------------------------------------------------
(* The inductive invariant. *)

Steps == {"run", "take", "block", "yield", "awake", "timed out", "disinherit"}

(* TypeOK, but for the lists and the count of mutexes. *)
Types ==
  /\ current \in Tasks /\ ready \subseteq Tasks /\ Idle \in ready
  /\ xYieldPending \in BOOLEAN
  /\ uxPriority \in [Tasks -> Nat]
  /\ xMutexHolder \in [Mutexes -> Tasks \cup {None}]
  /\ uxRecursiveCallCount \in [Mutexes -> 0 .. MaxDepth]
  /\ pc \in [Tasks -> Steps]
  /\ wanted \in [Tasks -> Mutexes \cup {None}]
  /\ wait \in [Tasks -> {"none", "ticks", "forever"}]
  /\ due \in [Tasks -> BOOLEAN]
  /\ xInheritanceOccurred \in [Tasks -> BOOLEAN]
  /\ failed \in [Tasks -> BOOLEAN]

HeldAreCounted ==
  uxMutexesHeld = [t \in Tasks |->
                     Cardinality({m \in Mutexes : xMutexHolder[m] = t})]

(* Who is on an event list waits for that mutex, and only once. *)
EventLists ==
  /\ xTasksWaitingToReceive \in [Mutexes -> Seq(Tasks)]
  /\ \A m \in Mutexes :
       /\ IsInjective(xTasksWaitingToReceive[m])
       /\ ToSet(xTasksWaitingToReceive[m]) \subseteq
            {t \in Tasks \ ready : wanted[t] = m}

(* Where a task can be in the kernel.  One that asks for a mutex does not  *)
(* hold it; one that is not ready has blocked and not been woken; the      *)
(* running task is ready but on its way to give the processor away.        *)
Places ==
  /\ pc[Idle] = "run"
  /\ \A t \in Tasks :
       /\ pc[t] \in {"take", "block", "timed out", "disinherit"} =>
            wanted[t] # None
       /\ pc[t] \in {"run", "awake"} => wanted[t] = None
       /\ t \notin ready => pc[t] \in {"take", "yield", "awake"}
       /\ wanted[t] # None => xMutexHolder[wanted[t]] # t
  /\ xYieldPending \/ current \in ready \/ pc[current] = "yield"

(* A mutex counts the calls of its holder. *)
CountsAgree ==
  \A m \in Mutexes : xMutexHolder[m] = None <=> uxRecursiveCallCount[m] = 0

(* The wakeup of a give is still under way: the task that was woken looks  *)
(* at the mutex once more before it goes back to its caller.               *)
WakeupIsKept ==
  \A m \in Mutexes :
    xMutexHolder[m] = None /\ xTasksWaitingToReceive[m] # <<>> =>
      \E t \in ready : wanted[t] = m /\ pc[t] # "disinherit"

IInv ==
  /\ Types /\ HeldAreCounted /\ EventLists
  /\ Places /\ CountsAgree /\ WakeupIsKept

-----------------------------------------------------------------------------
(* The inductive invariant of priority inheritance, with one mutex. *)

(* What a task notes of the priority it passes on: if its own is above the *)
(* holder's own, it has passed it on; a task that does not wait has not.   *)
Noted ==
  /\ \A t \in Tasks :
       /\ uxPriority[t] >= uxBasePriority[t]
       /\ pc[t] = "block" \/ xInheritanceOccurred[t] => wait[t] # "none"
       /\ xInheritanceOccurred[t] => wanted[t] # None
  /\ \A m \in Mutexes : xMutexHolder[m] # None =>
       \A t \in ToSet(xTasksWaitingToReceive[m]) :
         uxPriority[t] > uxBasePriority[xMutexHolder[m]] =>
           xInheritanceOccurred[t]

(* While the mutex is free nobody on its list is more urgent than the task *)
(* that was woken, nor than the one that runs and could take it first.     *)
TakersAreUrgent ==
  \A m \in Mutexes :
    xMutexHolder[m] = None /\ xTasksWaitingToReceive[m] # <<>> =>
      /\ \E t \in ready :
           /\ wanted[t] = m /\ pc[t] # "disinherit"
           /\ \A u \in ToSet(xTasksWaitingToReceive[m]) :
                uxPriority[t] >= uxPriority[u]
      /\ xYieldPending \/ pc[current] = "yield" \/
         \A u \in ToSet(xTasksWaitingToReceive[m]) :
           uxPriority[current] >= uxPriority[u]

(* As EventListIsSorted says of each list. *)
Sorted(list) ==
  \A i, j \in DOMAIN list : i < j => uxPriority[list[i]] >= uxPriority[list[j]]

(* There is one mutex. *)
Alone == \A m, n \in Mutexes : m = n

PInv == InheritsPriority /\ Noted /\ TakersAreUrgent

-----------------------------------------------------------------------------
(* Event lists, as tasks join and leave them. *)

(* The places of a list. *)
LEMMA ListFacts ==
  ASSUME NEW list \in Seq(Tasks)
  PROVE  /\ Len(list) \in Nat /\ DOMAIN list = 1 .. Len(list)
         /\ list = <<>> <=> Len(list) = 0
         /\ \A i \in 1 .. Len(list) : list[i] \in Tasks
BY LenProperties, EmptySeq, ElementOfSeq

(* A list stays sorted and free of doubles as tasks leave it. *)
LEMMA WithoutFacts ==
  ASSUME NEW list \in Seq(Tasks), NEW D, IsInjective(list)
  PROVE  /\ Without(list, D) \in Seq(Tasks) /\ IsInjective(Without(list, D))
         /\ ToSet(Without(list, D)) \subseteq ToSet(list) \ D
         /\ Without(list, D) # <<>> => list # <<>>
         /\ Sorted(list) => Sorted(Without(list, D))
<1> DEFINE keep == {i \in DOMAIN list : list[i] \notin D}
           r == Without(list, D)
<1>1. r \in Seq(Tasks) /\ Remains(r, list, keep, Len(list))
  BY KeptRemains DEF Without
<1>2. PICK at \in [1 .. Len(r) -> (1 .. Len(list)) \cap keep] :
        /\ \A i \in 1 .. Len(r) : r[i] = list[at[i]]
        /\ \A i, j \in 1 .. Len(r) : i < j => at[i] < at[j]
  BY <1>1 DEF Remains
<1>3. Len(r) \in Nat /\ DOMAIN r = 1 .. Len(r) /\ (r = <<>> <=> Len(r) = 0)
  BY <1>1, ListFacts
<1>4. \A i \in 1 .. Len(r) :
        /\ at[i] \in 1 .. Len(list) /\ at[i] \in DOMAIN list
        /\ r[i] = list[at[i]] /\ list[at[i]] \notin D
  BY <1>2
<1> HIDE DEF r, keep
<1>5. IsInjective(r)
  <2> SUFFICES ASSUME NEW i \in 1 .. Len(r), NEW j \in 1 .. Len(r),
                      r[i] = r[j]
               PROVE  i = j
    BY <1>3 DEF IsInjective
  <2>1. at[i] = at[j]
    BY <1>4 DEF IsInjective
  <2>2. ~ (at[i] < at[j]) /\ ~ (at[j] < at[i])
    BY <1>4, <2>1, ListFacts
  <2>3. ~ (i < j) /\ ~ (j < i)
    BY <1>2, <2>2
  <2>4. QED
    BY <1>3, <2>3
<1>6. ToSet(r) \subseteq ToSet(list) \ D
  BY <1>3, <1>4 DEF ToSet
<1>7. ASSUME r # <<>>
      PROVE  list # <<>>
  <2>1. 1 \in 1 .. Len(r)
    BY <1>3, <1>7
  <2>2. at[1] \in 1 .. Len(list)
    BY <1>4, <2>1
  <2>3. Len(list) # 0
    BY <2>2
  <2>4. QED
    BY <2>3, ListFacts
<1>8. ASSUME Sorted(list)
      PROVE  Sorted(r)
  BY <1>2, <1>3, <1>4, <1>8 DEF Sorted
<1>9. QED
  BY <1>1, <1>5, <1>6, <1>7, <1>8 DEF r

(* The head leaves; nobody behind it is more urgent. *)
LEMMA TailFacts ==
  ASSUME NEW list \in Seq(Tasks), IsInjective(list), list # <<>>
  PROVE  /\ Head(list) \in ToSet(list)
         /\ Tail(list) \in Seq(Tasks) /\ IsInjective(Tail(list))
         /\ ToSet(Tail(list)) \subseteq ToSet(list) \ {Head(list)}
         /\ Sorted(list) =>
              /\ Sorted(Tail(list))
              /\ \A u \in ToSet(Tail(list)) :
                   uxPriority[Head(list)] >= uxPriority[u]
<1> DEFINE r == Tail(list)
<1>1. /\ r \in Seq(Tasks) /\ Len(r) = Len(list) - 1
      /\ \A i \in 1 .. Len(r) : r[i] = list[i + 1]
  BY HeadTailProperties
<1>2. /\ Len(list) \in Nat \ {0} /\ DOMAIN list = 1 .. Len(list)
      /\ DOMAIN r = 1 .. Len(r)
  BY <1>1, ListFacts
<1>3. Head(list) = list[1] /\ 1 \in 1 .. Len(list)
  BY <1>2
<1> HIDE DEF r
<1>4. \A i \in 1 .. Len(r) :
        /\ i + 1 \in 1 .. Len(list) /\ i + 1 # 1 /\ 1 < i + 1
        /\ i \in Int
  BY <1>1, <1>2
<1>5. IsInjective(r)
  <2> SUFFICES ASSUME NEW i \in 1 .. Len(r), NEW j \in 1 .. Len(r),
                      r[i] = r[j]
               PROVE  i = j
    BY <1>2 DEF IsInjective
  <2>1. i + 1 = j + 1
    BY <1>1, <1>2, <1>4 DEF IsInjective
  <2>2. QED
    BY <1>4, <2>1
<1>6. ToSet(r) \subseteq ToSet(list) \ {Head(list)}
  <2>1. ASSUME NEW i \in 1 .. Len(r)
        PROVE  r[i] = list[i + 1] /\ list[i + 1] # list[1]
    BY <1>1, <1>2, <1>3, <1>4 DEF IsInjective
  <2>2. QED
    BY <1>2, <1>3, <1>4, <2>1 DEF ToSet
<1>7. ASSUME Sorted(list)
      PROVE  /\ Sorted(r)
             /\ \A u \in ToSet(r) : uxPriority[Head(list)] >= uxPriority[u]
  <2>1. Sorted(r)
    <3> SUFFICES ASSUME NEW i \in 1 .. Len(r), NEW j \in 1 .. Len(r), i < j
                 PROVE  uxPriority[r[i]] >= uxPriority[r[j]]
      BY <1>2 DEF Sorted
    <3>1. i + 1 < j + 1
      BY <1>4
    <3>2. uxPriority[list[i + 1]] >= uxPriority[list[j + 1]]
      BY <1>2, <1>4, <1>7, <3>1 DEF Sorted
    <3>3. QED
      BY <1>1, <3>2
  <2>2. ASSUME NEW i \in 1 .. Len(r)
        PROVE  uxPriority[Head(list)] >= uxPriority[r[i]]
    BY <1>1, <1>2, <1>3, <1>4, <1>7 DEF Sorted
  <2>3. QED
    BY <1>2, <2>1, <2>2 DEF ToSet
<1>8. QED
  BY <1>1, <1>2, <1>3, <1>5, <1>6, <1>7 DEF r, ToSet

(* A task joins a list it is not on. *)
LEMMA InsertedFacts ==
  ASSUME NEW list \in Seq(Tasks), IsInjective(list),
         NEW t \in Tasks, t \notin ToSet(list), uxPriority \in [Tasks -> Nat]
  PROVE  /\ Inserted(list, t) \in Seq(Tasks) /\ IsInjective(Inserted(list, t))
         /\ ToSet(Inserted(list, t)) = ToSet(list) \cup {t}
         /\ Sorted(list) => Sorted(Inserted(list, t))
<1> DEFINE n == Len(list)
           lower == {i \in DOMAIN list : uxPriority[list[i]] < uxPriority[t]}
           k == Min(lower \cup {n + 1})
           r == Inserted(list, t)
<1>1. /\ n \in Nat /\ DOMAIN list = 1 .. n
      /\ \A i \in 1 .. n : list[i] \in Tasks /\ uxPriority[list[i]] \in Nat
      /\ uxPriority[t] \in Nat
  BY ListFacts
<1>2. /\ k \in lower \cup {n + 1}
      /\ \A m \in lower \cup {n + 1} : k <= m
  <2>1. lower \cup {n + 1} \in SUBSET Nat
    BY <1>1
  <2>2. QED
    BY <2>1, MinOfNats
<1>3. k \in 1 .. n + 1
  BY <1>1, <1>2
<1>4. r = InsertAt(list, k, t)
  BY DEF Inserted
<1> HIDE DEF r, k
<1>5. /\ r \in Seq(Tasks) /\ Len(r) = n + 1
      /\ \A i \in 1 .. n + 1 :
           r[i] = IF i < k THEN list[i] ELSE IF i = k THEN t ELSE list[i - 1]
  <2>1. k \in 1 .. Len(list) + 1
    BY <1>3
  <2> HIDE DEF n
  <2>2. /\ InsertAt(list, k, t) \in Seq(Tasks)
        /\ Len(InsertAt(list, k, t)) = Len(list) + 1
        /\ \A i \in 1 .. Len(list) + 1 :
             InsertAt(list, k, t)[i] =
               IF i < k THEN list[i] ELSE IF i = k THEN t ELSE list[i - 1]
    BY <2>1, InsertAtPlace
  <2>3. QED
    BY <1>4, <2>2, Zenon DEF n
<1>6. DOMAIN r = 1 .. n + 1
  BY <1>5, ListFacts
<1> HIDE DEF n
<1>7. ASSUME NEW i \in 1 .. n + 1
      PROVE  \/ i < k /\ i \in 1 .. n /\ r[i] = list[i]
             \/ i = k /\ r[i] = t
             \/ i > k /\ i - 1 \in 1 .. n /\ r[i] = list[i - 1]
  <2>1. CASE i < k
    BY <1>1, <1>3, <1>5, <2>1
  <2>2. CASE i = k
    <3>1. ~ (i < k)
      BY <1>3, <2>2
    <3>2. QED
      BY <1>5, <2>2, <3>1
  <2>3. CASE i > k
    <3>1. ~ (i < k) /\ i # k /\ i - 1 \in 1 .. n
      BY <1>1, <1>3, <2>3
    <3>2. QED
      BY <1>5, <2>3, <3>1
  <2>4. i < k \/ i = k \/ i > k
    BY <1>1, <1>3
  <2>5. QED
    BY <2>1, <2>2, <2>3, <2>4
<1>8. IsInjective(r)
  <2> SUFFICES ASSUME NEW i \in 1 .. n + 1, NEW j \in 1 .. n + 1, r[i] = r[j]
               PROVE  i = j
    BY <1>6 DEF IsInjective
  <2>1. \A a, b \in 1 .. n : list[a] = list[b] => a = b
    BY <1>1 DEF IsInjective
  <2>2. \A a \in 1 .. n : list[a] # t
    BY <1>1 DEF ToSet
  <2>3. i \in Int /\ j \in Int /\ k \in Int
    BY <1>3
  <2>4. CASE i < k /\ i \in 1 .. n /\ r[i] = list[i]
    <3>1. ~ (j = k /\ r[j] = t)
      BY <2>2, <2>4
    <3>2. CASE j > k /\ j - 1 \in 1 .. n /\ r[j] = list[j - 1]
      <4>1. i = j - 1
        BY <2>1, <2>4, <3>2
      <4>2. QED
        BY <2>3, <2>4, <3>2, <4>1
    <3>3. CASE j < k /\ j \in 1 .. n /\ r[j] = list[j]
      BY <2>1, <2>4, <3>3
    <3>4. QED
      BY <1>7, <3>1, <3>2, <3>3
  <2>5. CASE i = k /\ r[i] = t
    <3>1. r[j] = t
      BY <2>5
    <3>2. QED
      BY <1>7, <2>2, <2>5, <3>1
  <2>6. CASE i > k /\ i - 1 \in 1 .. n /\ r[i] = list[i - 1]
    <3>1. ~ (j = k /\ r[j] = t)
      BY <2>2, <2>6
    <3>2. CASE j > k /\ j - 1 \in 1 .. n /\ r[j] = list[j - 1]
      <4>1. i - 1 = j - 1
        BY <2>1, <2>6, <3>2
      <4>2. QED
        BY <2>3, <4>1
    <3>3. CASE j < k /\ j \in 1 .. n /\ r[j] = list[j]
      <4>1. i - 1 = j
        BY <2>1, <2>6, <3>3
      <4>2. QED
        BY <2>3, <2>6, <3>3, <4>1
    <3>4. QED
      BY <1>7, <3>1, <3>2, <3>3
  <2>7. QED
    BY <1>7, <2>4, <2>5, <2>6
<1>9. ToSet(r) = ToSet(list) \cup {t}
  <2>1. ToSet(r) \subseteq ToSet(list) \cup {t}
    BY <1>1, <1>6, <1>7 DEF ToSet
  <2>2. t \in ToSet(r)
    <3>1. ~ (k < k) /\ r[k] = t
      BY <1>3, <1>5
    <3>2. QED
      BY <1>3, <1>6, <3>1 DEF ToSet
  <2>3. ASSUME NEW i \in 1 .. n
        PROVE  list[i] \in ToSet(r)
    <3>1. CASE i < k
      <4>1. i \in 1 .. n + 1 /\ r[i] = list[i]
        BY <1>1, <1>5, <3>1
      <4>2. QED
        BY <1>6, <4>1 DEF ToSet
    <3>2. CASE ~ (i < k)
      <4>1. /\ i + 1 \in 1 .. n + 1 /\ ~ (i + 1 < k) /\ i + 1 # k
            /\ i + 1 - 1 = i
        BY <1>1, <1>3, <3>2
      <4>2. r[i + 1] = list[i]
        BY <1>5, <4>1
      <4>3. QED
        BY <1>6, <4>1, <4>2 DEF ToSet
    <3>3. QED
      BY <3>1, <3>2
  <2>4. QED
    BY <1>1, <2>1, <2>2, <2>3 DEF ToSet
<1>10. ASSUME Sorted(list)
       PROVE  Sorted(r)
  <2> SUFFICES ASSUME NEW i \in 1 .. n + 1, NEW j \in 1 .. n + 1, i < j
               PROVE  uxPriority[r[i]] >= uxPriority[r[j]]
    BY <1>6 DEF Sorted
  <2>1. /\ \A a, b \in 1 .. n :
             a < b => uxPriority[list[a]] >= uxPriority[list[b]]
        /\ \A a \in 1 .. n : uxPriority[list[a]] \in Nat
    BY <1>1, <1>10 DEF Sorted
  <2>2. \A a \in 1 .. n : a < k => uxPriority[list[a]] >= uxPriority[t]
    <3> TAKE a \in 1 .. n
    <3>1. a < k => a \notin lower
      BY <1>2, <1>3
    <3>2. QED
      BY <1>1, <3>1
  <2>3. \A a \in 1 .. n : a >= k => uxPriority[list[a]] <= uxPriority[t]
    <3> SUFFICES ASSUME NEW a \in 1 .. n, a >= k
                 PROVE  uxPriority[list[a]] <= uxPriority[t]
      OBVIOUS
    <3>1. k # n + 1
      BY <1>1
    <3>2. k \in 1 .. n /\ uxPriority[list[k]] < uxPriority[t]
      BY <1>1, <1>2, <3>1
    <3>3. uxPriority[list[k]] >= uxPriority[list[a]]
      BY <1>1, <2>1, <3>2
    <3>4. QED
      BY <1>1, <3>2, <3>3
  <2>4. i \in Int /\ j \in Int /\ k \in Int /\ uxPriority[t] \in Nat
    BY <1>1, <1>3
  <2>5. CASE i < k /\ i \in 1 .. n /\ r[i] = list[i]
    <3>1. CASE j < k /\ j \in 1 .. n /\ r[j] = list[j]
      BY <2>1, <2>5, <3>1
    <3>2. CASE j = k /\ r[j] = t
      BY <2>2, <2>5, <3>2
    <3>3. CASE j > k /\ j - 1 \in 1 .. n /\ r[j] = list[j - 1]
      <4>1. i < j - 1
        BY <2>4, <2>5, <3>3
      <4>2. QED
        BY <2>1, <2>5, <3>3, <4>1
    <3>4. QED
      BY <1>7, <3>1, <3>2, <3>3
  <2>6. CASE i >= k
    <3>1. j > k
      BY <2>4, <2>6
    <3>2. j - 1 \in 1 .. n /\ r[j] = list[j - 1] /\ j - 1 >= k
      BY <1>7, <2>4, <3>1
    <3>3. CASE i = k /\ r[i] = t
      BY <2>3, <3>2, <3>3
    <3>4. CASE i > k /\ i - 1 \in 1 .. n /\ r[i] = list[i - 1]
      <4>1. i - 1 < j - 1
        BY <2>4
      <4>2. QED
        BY <2>1, <3>2, <3>4, <4>1
    <3>5. QED
      BY <1>7, <2>4, <2>6, <3>3, <3>4
  <2>7. QED
    BY <1>7, <2>4, <2>5, <2>6
<1>11. QED
  BY <1>5, <1>8, <1>9, <1>10 DEF r

-----------------------------------------------------------------------------
(* Steps of the running task that change no mutex and no event list. *)

(* What it is enough to know of such a step: where the task goes, and that *)
(* it does not turn away from a mutex that is free.                        *)
LEMMA CallerMoves ==
  ASSUME IInv, NEW t \in Tasks, current = t, t # Idle, Types',
         UNCHANGED <<current, uxMutexesHeld, xMutexHolder,
                     uxRecursiveCallCount, xTasksWaitingToReceive>>,
         \A u \in Tasks \ {t} : pc'[u] = pc[u] /\ wanted'[u] = wanted[u],
         ready' = ready \/ ready' = ready \ {t},
         pc'[t] \in {"take", "block", "timed out", "disinherit"} =>
           wanted'[t] # None,
         pc'[t] \in {"run", "awake"} => wanted'[t] = None,
         t \notin ready' => pc'[t] \in {"take", "yield", "awake"},
         wanted'[t] # None => xMutexHolder[wanted'[t]] # t,
         xYieldPending' \/ t \in ready' \/ pc'[t] = "yield",
         t \in ready \/ wanted'[t] = wanted[t],
         t \in ready /\ wanted[t] # None /\ pc[t] # "disinherit" /\
           xMutexHolder[wanted[t]] = None =>
             /\ t \in ready' /\ wanted'[t] = wanted[t]
             /\ pc'[t] # "disinherit"
  PROVE  IInv'
<1>1. HeldAreCounted' /\ CountsAgree'
  BY DEF IInv, HeldAreCounted, CountsAgree
<1>2. EventLists'
  <2>1. xTasksWaitingToReceive' \in [Mutexes -> Seq(Tasks)]
    BY DEF IInv, EventLists
  <2>2. ASSUME NEW m \in Mutexes
        PROVE  /\ IsInjective(xTasksWaitingToReceive'[m])
               /\ ToSet(xTasksWaitingToReceive'[m]) \subseteq
                    {u \in Tasks \ ready' : wanted'[u] = m}
    <3>1. /\ IsInjective(xTasksWaitingToReceive[m])
          /\ ToSet(xTasksWaitingToReceive[m]) \subseteq
               {u \in Tasks \ ready : wanted[u] = m}
      BY DEF IInv, EventLists
    <3>2. \A u \in Tasks \ ready : u \notin ready' /\ wanted'[u] = wanted[u]
      OBVIOUS
    <3> HIDE DEF EventLists
    <3>3. QED
      BY <3>1, <3>2
  <2>3. QED
    BY <2>1, <2>2 DEF EventLists
<1>3. Places'
  <2>1. pc'[Idle] = "run"
    BY KernelMutexAssumption DEF IInv, Places
  <2>2. ASSUME NEW u \in Tasks \ {t}
        PROVE  /\ pc'[u] = pc[u] /\ wanted'[u] = wanted[u]
               /\ u \notin ready' => u \notin ready
    OBVIOUS
  <2>3. QED
    BY <2>1, <2>2 DEF IInv, Places
<1>4. WakeupIsKept'
  <2> SUFFICES ASSUME NEW m \in Mutexes, xMutexHolder[m] = None,
                      xTasksWaitingToReceive[m] # <<>>
               PROVE  \E u \in ready' : wanted'[u] = m /\ pc'[u] # "disinherit"
    BY DEF WakeupIsKept
  <2>1. PICK u \in ready : wanted[u] = m /\ pc[u] # "disinherit"
    BY DEF IInv, WakeupIsKept
  <2>2. u \in Tasks /\ m # None
    BY KernelMutexAssumption DEF IInv, Types
  <2>3. CASE u = t
    BY <2>1, <2>2, <2>3
  <2>4. CASE u # t
    BY <2>1, <2>2, <2>4
  <2>5. QED
    BY <2>3, <2>4
<1>5. QED
  BY <1>1, <1>2, <1>3, <1>4 DEF IInv

(* What the running task knows of itself. *)
LEMMA Caller ==
  ASSUME IInv, NEW t \in Tasks, current = t, ~ xYieldPending
  PROVE  /\ pc[t] # "yield" => t \in ready
         /\ pc[t] # "run" => t # Idle
         /\ pc[t] \in {"run", "awake"} => wanted[t] = None
         /\ pc[t] \in {"take", "block", "timed out", "disinherit"} =>
              /\ wanted[t] \in Mutexes /\ wanted[t] # None
              /\ xMutexHolder[wanted[t]] # t
<1>1. wanted[t] \in Mutexes \cup {None}
  BY DEF IInv, Types
<1>2. QED
  BY <1>1 DEF IInv, Places

(* A step to another place. *)
LEMMA GotoFacts ==
  ASSUME IInv, NEW t \in Tasks, NEW s \in Steps, Goto(t, s)
  PROVE  /\ pc'[t] = s /\ \A u \in Tasks \ {t} : pc'[u] = pc[u]
         /\ pc' \in [Tasks -> Steps]
BY DEF IInv, Types, Goto

(* The end of a call. *)
LEMMA ReturnFacts ==
  ASSUME IInv, NEW t \in Tasks, NEW b \in BOOLEAN, Return(t, b)
  PROVE  /\ pc'[t] = "run" /\ wanted'[t] = None
         /\ wait'[t] = "none" /\ ~ xInheritanceOccurred'[t]
         /\ \A u \in Tasks \ {t} :
              /\ pc'[u] = pc[u] /\ wanted'[u] = wanted[u]
              /\ wait'[u] = wait[u]
              /\ xInheritanceOccurred'[u] = xInheritanceOccurred[u]
         /\ pc' \in [Tasks -> Steps]
         /\ wanted' \in [Tasks -> Mutexes \cup {None}]
         /\ wait' \in [Tasks -> {"none", "ticks", "forever"}]
         /\ due' \in [Tasks -> BOOLEAN]
         /\ xInheritanceOccurred' \in [Tasks -> BOOLEAN]
         /\ failed' \in [Tasks -> BOOLEAN]
<1>1. /\ pc' = [pc EXCEPT ![t] = "run"] /\ pc \in [Tasks -> Steps]
      /\ "run" \in Steps
  BY DEF IInv, Types, Return, Goto, Steps
<1>2. /\ wanted' = [wanted EXCEPT ![t] = None]
      /\ wanted \in [Tasks -> Mutexes \cup {None}]
  BY DEF IInv, Types, Return
<1>3. /\ wait' = [wait EXCEPT ![t] = "none"]
      /\ wait \in [Tasks -> {"none", "ticks", "forever"}]
  BY DEF IInv, Types, Return
<1>4. /\ xInheritanceOccurred' = [xInheritanceOccurred EXCEPT ![t] = FALSE]
      /\ xInheritanceOccurred \in [Tasks -> BOOLEAN]
  BY DEF IInv, Types, Return
<1>5. due' \in [Tasks -> BOOLEAN] /\ failed' \in [Tasks -> BOOLEAN]
  BY DEF IInv, Types, Return
<1>6. QED
  BY <1>1, <1>2, <1>3, <1>4, <1>5

(* A task that delays itself is no longer ready. *)
LEMMA DelayStep ==
  ASSUME IInv, NEW t \in Tasks, Delay(t)
  PROVE  IInv'
<1>1. /\ current = t /\ pc[t] = "run" /\ t \in ready /\ wanted[t] = None
      /\ t # Idle
  <2>1. current = t /\ pc[t] = "run" /\ ~ xYieldPending /\ t # Idle
    BY DEF Delay, At
  <2>2. QED
    BY <2>1, Caller
<1>2. /\ pc'[t] = "yield" /\ \A u \in Tasks \ {t} : pc'[u] = pc[u]
      /\ pc' \in [Tasks -> Steps]
  BY GotoFacts DEF Delay, Steps
<1>3. wait' \in [Tasks -> {"none", "ticks", "forever"}]
  BY DEF Delay, IInv, Types
<1>4. /\ ready' = ready \ {t}
      /\ UNCHANGED <<current, xYieldPending, uxPriority, uxMutexesHeld,
                     xMutexHolder, uxRecursiveCallCount,
                     xTasksWaitingToReceive, wanted, due,
                     xInheritanceOccurred, failed>>
  BY DEF Delay, mutex
<1>5. Types'
  BY <1>1, <1>2, <1>3, <1>4 DEF IInv, Types
<1>6. QED
  BY <1>1, <1>2, <1>4, <1>5, CallerMoves

(* A task that yields goes on later. *)
LEMMA YieldStep ==
  ASSUME IInv, NEW t \in Tasks, Yield(t)
  PROVE  IInv'
<1>1. current = t /\ pc[t] = "yield" /\ t # Idle
  <2>1. current = t /\ pc[t] = "yield" /\ ~ xYieldPending
    BY DEF Yield, At
  <2>2. QED
    BY <2>1, Caller
<1> DEFINE s == IF wanted[t] = None THEN "awake" ELSE "take"
<1>2. /\ pc'[t] = s /\ \A u \in Tasks \ {t} : pc'[u] = pc[u]
      /\ pc' \in [Tasks -> Steps]
  <2>1. s \in Steps /\ Goto(t, s)
    BY DEF Yield, Steps
  <2> HIDE DEF s
  <2>2. QED
    BY <2>1, GotoFacts
<1>3. /\ ready' = ready /\ wanted' = wanted /\ xYieldPending' = TRUE
      /\ UNCHANGED <<current, uxPriority, uxMutexesHeld, xMutexHolder,
                     uxRecursiveCallCount, xTasksWaitingToReceive, wait, due,
                     xInheritanceOccurred, failed>>
  BY DEF Yield, mutex, call
<1>4. Types'
  BY <1>2, <1>3 DEF IInv, Types
<1>5. wanted[t] # None => xMutexHolder[wanted[t]] # t
  BY DEF IInv, Places
<1>6. QED
  BY <1>1, <1>2, <1>3, <1>4, <1>5, CallerMoves

(* The end of a delay. *)
LEMMA AwakeStep ==
  ASSUME IInv, NEW t \in Tasks, Awake(t)
  PROVE  IInv'
<1>1. /\ current = t /\ pc[t] = "awake" /\ t # Idle /\ t \in ready
      /\ wanted[t] = None
  <2>1. current = t /\ pc[t] = "awake" /\ ~ xYieldPending
    BY DEF Awake, At
  <2>2. QED
    BY <2>1, Caller
<1>2. Return(t, FALSE)
  BY DEF Awake
<1>3. UNCHANGED <<current, ready, xYieldPending, uxPriority, uxMutexesHeld,
                  xMutexHolder, uxRecursiveCallCount, xTasksWaitingToReceive>>
  BY DEF Awake, mutex
<1>4. Types'
  BY <1>2, <1>3, ReturnFacts DEF IInv, Types
<1>5. QED
  BY <1>1, <1>2, <1>3, <1>4, ReturnFacts, CallerMoves

(* The mutex is held: the task gives up or goes on to block. *)
LEMMA TakeNotStep ==
  ASSUME IInv, NEW t \in Tasks, TakeNot(t)
  PROVE  IInv'
<1>1. /\ current = t /\ pc[t] = "take" /\ t # Idle /\ t \in ready
      /\ wanted[t] # None /\ xMutexHolder[wanted[t]] # t
      /\ xMutexHolder[wanted[t]] # None
  <2>1. /\ current = t /\ pc[t] = "take" /\ ~ xYieldPending
        /\ xMutexHolder[wanted[t]] # None
    BY DEF TakeNot, At
  <2>2. QED
    BY <2>1, Caller
<1>2. UNCHANGED <<current, ready, xYieldPending, uxPriority, uxMutexesHeld,
                  xMutexHolder, uxRecursiveCallCount, xTasksWaitingToReceive>>
  BY DEF TakeNot, mutex
<1>3. CASE Return(t, TRUE)
  <2>1. Types'
    BY <1>2, <1>3, ReturnFacts DEF IInv, Types
  <2>2. QED
    BY <1>1, <1>2, <1>3, <2>1, ReturnFacts, CallerMoves
<1>4. CASE Goto(t, "block") /\ UNCHANGED call
  <2>1. /\ pc'[t] = "block" /\ \A u \in Tasks \ {t} : pc'[u] = pc[u]
        /\ pc' \in [Tasks -> Steps]
    BY <1>4, GotoFacts DEF Steps
  <2>2. Types'
    BY <1>2, <1>4, <2>1 DEF IInv, Types, call
  <2>3. QED
    BY <1>1, <1>2, <1>4, <2>1, <2>2, CallerMoves DEF call
<1>5. QED
  BY <1>3, <1>4 DEF TakeNot

(* The time is up: the task tries again, gives up or has yet to take back  *)
(* the priority it passed on.                                              *)
LEMMA TimedOutStep ==
  ASSUME IInv, NEW t \in Tasks, TimedOut(t)
  PROVE  IInv'
<1>1. /\ current = t /\ pc[t] = "timed out" /\ t # Idle /\ t \in ready
      /\ wanted[t] # None /\ xMutexHolder[wanted[t]] # t
  <2>1. current = t /\ pc[t] = "timed out" /\ ~ xYieldPending
    BY DEF TimedOut, At
  <2>2. QED
    BY <2>1, Caller
<1>2. UNCHANGED <<current, ready, xYieldPending, uxPriority, uxMutexesHeld,
                  xMutexHolder, uxRecursiveCallCount, xTasksWaitingToReceive>>
  BY DEF TimedOut, mutex
<1>3. CASE xMutexHolder[wanted[t]] # None /\ Return(t, TRUE)
  <2>1. Types'
    BY <1>2, <1>3, ReturnFacts DEF IInv, Types
  <2>2. QED
    BY <1>1, <1>2, <1>3, <2>1, ReturnFacts, CallerMoves
<1>4. ASSUME NEW s \in {"take", "disinherit"}, Goto(t, s), UNCHANGED call,
             s = "disinherit" => xMutexHolder[wanted[t]] # None
      PROVE  IInv'
  <2>1. /\ pc'[t] = s /\ \A u \in Tasks \ {t} : pc'[u] = pc[u]
        /\ pc' \in [Tasks -> Steps]
    BY <1>4, GotoFacts DEF Steps
  <2>2. Types'
    BY <1>2, <1>4, <2>1 DEF IInv, Types, call
  <2>3. QED
    BY <1>1, <1>2, <1>4, <2>1, <2>2, CallerMoves DEF call
<1>5. QED
  BY <1>3, <1>4 DEF TimedOut

(* The priority of the head of the list, if there is one. *)
LEMMA HighestFacts ==
  ASSUME IInv, NEW m \in Mutexes
  PROVE  /\ Highest(m) \in Nat
         /\ xTasksWaitingToReceive[m] # <<>> =>
              /\ Head(xTasksWaitingToReceive[m]) \in
                   ToSet(xTasksWaitingToReceive[m])
              /\ Head(xTasksWaitingToReceive[m]) \in Tasks
<1> DEFINE list == xTasksWaitingToReceive[m]
<1>1. list \in Seq(Tasks) /\ IsInjective(list)
  BY DEF IInv, EventLists
<1>2. uxPriority \in [Tasks -> Nat] /\ uxBasePriority[Idle] \in Nat
  BY KernelMutexAssumption DEF IInv, Types
<1>3. CASE list = <<>>
  BY <1>2, <1>3 DEF Highest
<1>4. CASE list # <<>>
  <2>1. Head(list) \in Tasks /\ Head(list) \in ToSet(list)
    BY <1>1, <1>4, HeadTailProperties, TailFacts
  <2>2. QED
    BY <1>2, <1>4, <2>1 DEF Highest
<1>5. QED
  BY <1>3, <1>4

(* The greater of two numbers. *)
LEMMA MaxOfTwo ==
  ASSUME NEW a \in Nat, NEW b \in Nat
  PROVE  Max({a, b}) = IF a >= b THEN a ELSE b
<1> DEFINE c == IF a >= b THEN a ELSE b
<1>1. c \in {a, b} /\ \A y \in {a, b} : c >= y
  OBVIOUS
<1>2. Max({a, b}) \in {a, b} /\ \A y \in {a, b} : Max({a, b}) >= y
  BY <1>1 DEF Max
<1>3. QED
  BY <1>2

(* The priority passed on is taken back. *)
LEMMA DisinheritStep ==
  ASSUME IInv, NEW t \in Tasks, DisinheritAfterTimeout(t)
  PROVE  IInv'
<1> DEFINE m == wanted[t]
           holder == xMutexHolder[m]
<1>1. /\ current = t /\ pc[t] = "disinherit" /\ t # Idle /\ t \in ready
      /\ m \in Mutexes
  <2>1. current = t /\ pc[t] = "disinherit" /\ ~ xYieldPending
    BY DEF DisinheritAfterTimeout, At
  <2>2. QED
    BY <2>1, Caller
<1>2. UNCHANGED <<current, ready, xYieldPending, uxMutexesHeld, xMutexHolder,
                  uxRecursiveCallCount, xTasksWaitingToReceive>>
  BY DEF DisinheritAfterTimeout, mutex
<1>3. Return(t, TRUE)
  BY DEF DisinheritAfterTimeout
<1>4. uxPriority' \in [Tasks -> Nat]
  <2>1. /\ uxPriority \in [Tasks -> Nat] /\ holder \in Tasks \cup {None}
        /\ uxBasePriority \in [Tasks -> Nat]
    BY <1>1, KernelMutexAssumption DEF IInv, Types
  <2>2. CASE holder = None \/ uxMutexesHeld[holder] # 1
    BY <2>1, <2>2 DEF DisinheritAfterTimeout
  <2>3. CASE holder # None /\ uxMutexesHeld[holder] = 1
    <3> DEFINE p == Max({uxBasePriority[holder], Highest(m)})
    <3>1. uxBasePriority[holder] \in Nat /\ Highest(m) \in Nat
      BY <1>1, <2>1, <2>3, HighestFacts
    <3>2. p \in Nat
      BY <3>1, MaxOfTwo
    <3>3. uxPriority' = [uxPriority EXCEPT ![holder] = p]
      BY <2>3 DEF DisinheritAfterTimeout
    <3> HIDE DEF p
    <3>4. QED
      BY <2>1, <3>2, <3>3
  <2>4. QED
    BY <2>2, <2>3
<1>5. Types'
  BY <1>2, <1>3, <1>4, ReturnFacts DEF IInv, Types
<1>6. QED
  BY <1>1, <1>2, <1>3, <1>5, ReturnFacts, CallerMoves

-----------------------------------------------------------------------------
(* Mutexes taken and given. *)

(* One more. *)
LEMMA HeldTaken ==
  ASSUME HeldAreCounted, xMutexHolder \in [Mutexes -> Tasks \cup {None}],
         NEW m \in Mutexes, NEW t \in Tasks, xMutexHolder[m] = None,
         xMutexHolder' = [xMutexHolder EXCEPT ![m] = t],
         uxMutexesHeld' = [uxMutexesHeld EXCEPT ![t] = @ + 1]
  PROVE  HeldAreCounted'
<1> DEFINE held(u) == {n \in Mutexes : xMutexHolder[n] = u}
           now(u) == {n \in Mutexes : xMutexHolder'[n] = u}
<1>1. now(t) = held(t) \cup {m} /\ m \notin held(t)
  BY KernelMutexAssumption
<1>2. \A u \in Tasks \ {t} : now(u) = held(u)
  BY KernelMutexAssumption
<1>3. IsFiniteSet(held(t))
  BY KernelMutexAssumption, FS_Subset
<1>4. Cardinality(now(t)) = Cardinality(held(t)) + 1
  BY <1>1, <1>3, FS_AddElement
<1>5. /\ uxMutexesHeld = [u \in Tasks |-> Cardinality(held(u))]
      /\ uxMutexesHeld' = [uxMutexesHeld EXCEPT ![t] = @ + 1]
  BY DEF HeldAreCounted
<1> HIDE DEF held, now
<1>6. uxMutexesHeld' = [u \in Tasks |-> Cardinality(now(u))]
  BY <1>2, <1>4, <1>5
<1>7. QED
  BY <1>6 DEF HeldAreCounted, now

(* One less. *)
LEMMA HeldGiven ==
  ASSUME HeldAreCounted, xMutexHolder \in [Mutexes -> Tasks \cup {None}],
         NEW m \in Mutexes, NEW t \in Tasks, xMutexHolder[m] = t,
         xMutexHolder' = [xMutexHolder EXCEPT ![m] = None],
         uxMutexesHeld' = [uxMutexesHeld EXCEPT ![t] = @ - 1]
  PROVE  HeldAreCounted'
<1> DEFINE held(u) == {n \in Mutexes : xMutexHolder[n] = u}
           now(u) == {n \in Mutexes : xMutexHolder'[n] = u}
<1>1. now(t) = held(t) \ {m} /\ m \in held(t)
  BY KernelMutexAssumption
<1>2. \A u \in Tasks \ {t} : now(u) = held(u)
  BY KernelMutexAssumption
<1>3. IsFiniteSet(held(t))
  BY KernelMutexAssumption, FS_Subset
<1>4. Cardinality(now(t)) = Cardinality(held(t)) - 1
  BY <1>1, <1>3, FS_RemoveElement
<1>5. /\ uxMutexesHeld = [u \in Tasks |-> Cardinality(held(u))]
      /\ uxMutexesHeld' = [uxMutexesHeld EXCEPT ![t] = @ - 1]
  BY DEF HeldAreCounted
<1> HIDE DEF held, now
<1>6. uxMutexesHeld' = [u \in Tasks |-> Cardinality(now(u))]
  BY <1>2, <1>4, <1>5
<1>7. QED
  BY <1>6 DEF HeldAreCounted, now

(* The holder takes the mutex once more, or a task begins to ask for it. *)
LEMMA TakeRecursiveStep ==
  ASSUME IInv, NEW t \in Tasks, NEW m \in Mutexes, NEW w \in Waits,
         TakeRecursive(t, m, w)
  PROVE  IInv'
<1>1. /\ current = t /\ pc[t] = "run" /\ t \in ready /\ wanted[t] = None
      /\ t # Idle /\ m # None
  <2>1. current = t /\ pc[t] = "run" /\ ~ xYieldPending /\ t # Idle
    BY DEF TakeRecursive, At
  <2>2. QED
    BY <2>1, Caller, KernelMutexAssumption
<1>2. UNCHANGED <<current, ready, xYieldPending, uxPriority, uxMutexesHeld,
                  xMutexHolder, xTasksWaitingToReceive>>
  BY DEF TakeRecursive
<1>3. CASE xMutexHolder[m] = t
  <2>1. /\ uxRecursiveCallCount[m] < MaxDepth
        /\ uxRecursiveCallCount' =
             [uxRecursiveCallCount EXCEPT ![m] = @ + 1]
        /\ UNCHANGED <<pc, wanted, wait, due, xInheritanceOccurred, failed>>
    BY <1>3 DEF TakeRecursive, call
  <2>2. /\ uxRecursiveCallCount \in [Mutexes -> 0 .. MaxDepth]
        /\ MaxDepth \in Nat
    BY KernelMutexAssumption DEF IInv, Types
  <2>3. /\ uxRecursiveCallCount[m] + 1 \in 0 .. MaxDepth
        /\ uxRecursiveCallCount[m] + 1 # 0
    BY <2>1, <2>2
  <2>4. /\ uxRecursiveCallCount' \in [Mutexes -> 0 .. MaxDepth]
        /\ uxRecursiveCallCount'[m] # 0
        /\ \A n \in Mutexes \ {m} :
             uxRecursiveCallCount'[n] = uxRecursiveCallCount[n]
    BY <2>1, <2>2, <2>3
  <2>5. Types'
    BY <1>2, <2>1, <2>4 DEF IInv, Types
  <2>6. CountsAgree'
    BY <1>2, <1>3, <2>4, KernelMutexAssumption DEF IInv, CountsAgree
  <2>7. EventLists' /\ HeldAreCounted'
    BY <1>2, <2>1 DEF IInv, EventLists, HeldAreCounted
  <2>8. Places' /\ WakeupIsKept'
    BY <1>2, <2>1 DEF IInv, Places, WakeupIsKept
  <2>9. QED
    BY <2>5, <2>6, <2>7, <2>8 DEF IInv
<1>4. CASE xMutexHolder[m] # t
  <2>1. /\ Goto(t, "take")
        /\ wanted' = [wanted EXCEPT ![t] = m]
        /\ wait' = [wait EXCEPT ![t] = w]
        /\ UNCHANGED <<uxRecursiveCallCount, due, xInheritanceOccurred,
                       failed>>
    BY <1>4 DEF TakeRecursive
  <2>2. /\ pc'[t] = "take" /\ \A u \in Tasks \ {t} : pc'[u] = pc[u]
        /\ pc' \in [Tasks -> Steps]
    BY <2>1, GotoFacts DEF Steps
  <2>3. /\ wanted'[t] = m /\ \A u \in Tasks \ {t} : wanted'[u] = wanted[u]
        /\ wanted' \in [Tasks -> Mutexes \cup {None}]
        /\ wait' \in [Tasks -> {"none", "ticks", "forever"}]
    BY <2>1, KernelMutexAssumption DEF IInv, Types
  <2>4. Types'
    BY <1>2, <2>1, <2>2, <2>3 DEF IInv, Types
  <2>5. QED
    BY <1>1, <1>2, <1>4, <2>1, <2>2, <2>3, <2>4, CallerMoves
<1>5. QED
  BY <1>3, <1>4

(* A task takes the mutex. *)
LEMMA TakeStep ==
  ASSUME IInv, NEW t \in Tasks, Take(t)
  PROVE  IInv'
<1> DEFINE m == wanted[t]
<1>1. /\ current = t /\ pc[t] = "take" /\ t # Idle /\ t \in ready
      /\ m \in Mutexes /\ m # None /\ xMutexHolder[m] = None
  <2>1. /\ current = t /\ pc[t] = "take" /\ ~ xYieldPending
        /\ xMutexHolder[m] = None
    BY DEF Take, At
  <2>2. QED
    BY <2>1, Caller
<1>2. /\ xMutexHolder' = [xMutexHolder EXCEPT ![m] = t]
      /\ uxMutexesHeld' = [uxMutexesHeld EXCEPT ![t] = @ + 1]
      /\ uxRecursiveCallCount' = [uxRecursiveCallCount EXCEPT ![m] = @ + 1]
      /\ Return(t, FALSE)
      /\ UNCHANGED <<current, ready, xYieldPending, uxPriority,
                     xTasksWaitingToReceive>>
  BY DEF Take
<1>3. /\ pc'[t] = "run" /\ wanted'[t] = None
      /\ \A u \in Tasks \ {t} : pc'[u] = pc[u] /\ wanted'[u] = wanted[u]
  BY <1>2, ReturnFacts
<1> HIDE DEF m
<1>4. /\ xMutexHolder \in [Mutexes -> Tasks \cup {None}]
      /\ uxRecursiveCallCount \in [Mutexes -> 0 .. MaxDepth]
      /\ uxRecursiveCallCount[m] = 0 /\ MaxDepth \in Nat \ {0}
  BY <1>1, KernelMutexAssumption DEF IInv, Types, CountsAgree
<1>5. /\ xMutexHolder' \in [Mutexes -> Tasks \cup {None}]
      /\ xMutexHolder'[m] = t /\ t # None
      /\ \A n \in Mutexes \ {m} : xMutexHolder'[n] = xMutexHolder[n]
  BY <1>1, <1>2, <1>4, KernelMutexAssumption
<1>6. /\ uxRecursiveCallCount' \in [Mutexes -> 0 .. MaxDepth]
      /\ uxRecursiveCallCount'[m] = 1
      /\ \A n \in Mutexes \ {m} :
           uxRecursiveCallCount'[n] = uxRecursiveCallCount[n]
  <2>1. 0 + 1 \in 0 .. MaxDepth /\ 0 + 1 = 1
    BY <1>4
  <2>2. QED
    BY <1>1, <1>2, <1>4, <2>1
<1>7. Types'
  BY <1>2, <1>5, <1>6, ReturnFacts DEF IInv, Types
<1>8. HeldAreCounted'
  BY <1>1, <1>2, <1>4, HeldTaken DEF IInv
<1>9. CountsAgree'
  BY <1>5, <1>6 DEF IInv, CountsAgree
<1>10. EventLists'
  <2>1. UNCHANGED <<ready, xTasksWaitingToReceive>>
    BY <1>2
  <2>2. \A u \in Tasks \ ready : wanted'[u] = wanted[u]
    BY <1>1, <1>3
  <2>3. QED
    BY <2>1, <2>2 DEF IInv, EventLists
<1>11. Places'
  <2>1. \A u \in Tasks : wanted'[u] # None => xMutexHolder'[wanted'[u]] # u
    <3> SUFFICES ASSUME NEW u \in Tasks, wanted'[u] # None
                 PROVE  xMutexHolder'[wanted'[u]] # u
      OBVIOUS
    <3>1. u # t /\ wanted'[u] = wanted[u] /\ wanted[u] \in Mutexes
      BY <1>3 DEF IInv, Types
    <3>2. xMutexHolder[wanted[u]] # u
      BY <3>1 DEF IInv, Places
    <3>3. QED
      BY <1>5, <3>1, <3>2
  <2>2. QED
    BY <1>1, <1>2, <1>3, <2>1, KernelMutexAssumption DEF IInv, Places
<1>12. WakeupIsKept'
  <2> SUFFICES ASSUME NEW n \in Mutexes, xMutexHolder'[n] = None,
                      xTasksWaitingToReceive[n] # <<>>
               PROVE  \E u \in ready : wanted'[u] = n /\ pc'[u] # "disinherit"
    BY <1>2 DEF WakeupIsKept
  <2>1. n # m /\ xMutexHolder[n] = None
    BY <1>5
  <2>2. PICK u \in ready : wanted[u] = n /\ pc[u] # "disinherit"
    BY <2>1 DEF IInv, WakeupIsKept
  <2>3. u \in Tasks /\ u # t
    BY <2>1, <2>2 DEF IInv, Types, m
  <2>4. QED
    BY <1>3, <2>2, <2>3
<1>13. QED
  BY <1>7, <1>8, <1>9, <1>10, <1>11, <1>12 DEF IInv

(* A task joins the event list, unless there is no need to any more. *)
LEMMA BlockStep ==
  ASSUME IInv, NEW t \in Tasks, Block(t)
  PROVE  IInv'
<1> DEFINE m == wanted[t]
           holder == xMutexHolder[m]
           list == xTasksWaitingToReceive[m]
<1>1. /\ current = t /\ pc[t] = "block" /\ t # Idle /\ t \in ready
      /\ m \in Mutexes /\ m # None /\ holder # t
  <2>1. current = t /\ pc[t] = "block" /\ ~ xYieldPending
    BY DEF Block, At
  <2>2. QED
    BY <2>1, Caller
<1>2. UNCHANGED <<current, xYieldPending, uxMutexesHeld, xMutexHolder,
                  uxRecursiveCallCount, wanted, wait, due, failed>>
  BY DEF Block, mutex
<1>3. ASSUME NEW s \in {"take", "timed out"}, Goto(t, s),
             UNCHANGED <<ready, uxPriority, xTasksWaitingToReceive,
                         xInheritanceOccurred>>
      PROVE  IInv'
  <2>1. /\ pc'[t] = s /\ \A u \in Tasks \ {t} : pc'[u] = pc[u]
        /\ pc' \in [Tasks -> Steps]
    BY <1>3, GotoFacts DEF Steps
  <2>2. Types'
    BY <1>2, <1>3, <2>1 DEF IInv, Types
  <2>3. QED
    BY <1>1, <1>2, <1>3, <2>1, <2>2, CallerMoves
<1>4. CASE ~ due[t] /\ holder # None
  <2>1. /\ xInheritanceOccurred' = [xInheritanceOccurred EXCEPT ![t] =
               uxPriority[holder] < uxPriority[t] \/
               uxBasePriority[holder] < uxPriority[t]]
        /\ uxPriority' = Inherited(holder, t)
        /\ xTasksWaitingToReceive' =
             [xTasksWaitingToReceive EXCEPT ![m] = Inserted(list, t)]
        /\ ready' = ready \ {t}
        /\ Goto(t, "yield")
    BY <1>4 DEF Block
  <2>2. /\ pc'[t] = "yield" /\ \A u \in Tasks \ {t} : pc'[u] = pc[u]
        /\ pc' \in [Tasks -> Steps]
    BY <2>1, GotoFacts DEF Steps
  <2>3. /\ xTasksWaitingToReceive \in [Mutexes -> Seq(Tasks)]
        /\ list \in Seq(Tasks) /\ IsInjective(list) /\ t \notin ToSet(list)
        /\ ToSet(list) \subseteq {u \in Tasks \ ready : wanted[u] = m}
        /\ uxPriority \in [Tasks -> Nat] /\ holder \in Tasks
    BY <1>1, <1>4 DEF IInv, EventLists, Types
  <2>4. /\ Inserted(list, t) \in Seq(Tasks) /\ IsInjective(Inserted(list, t))
        /\ ToSet(Inserted(list, t)) = ToSet(list) \cup {t}
    BY <2>3, InsertedFacts
  <2>5. Types'
    <3>1. xInheritanceOccurred' \in [Tasks -> BOOLEAN]
      BY <2>1 DEF IInv, Types
    <3>2. uxPriority' \in [Tasks -> Nat]
      BY <2>1, <2>3 DEF Inherited
    <3>3. QED
      BY <1>1, <1>2, <2>1, <2>2, <3>1, <3>2 DEF IInv, Types
  <2> HIDE DEF list, holder
  <2>6. EventLists'
    <3>1. /\ xTasksWaitingToReceive' \in [Mutexes -> Seq(Tasks)]
          /\ xTasksWaitingToReceive'[m] = Inserted(list, t)
          /\ \A n \in Mutexes \ {m} :
               xTasksWaitingToReceive'[n] = xTasksWaitingToReceive[n]
      BY <1>1, <2>1, <2>3, <2>4
    <3>2. ASSUME NEW n \in Mutexes
          PROVE  /\ IsInjective(xTasksWaitingToReceive'[n])
                 /\ ToSet(xTasksWaitingToReceive'[n]) \subseteq
                      {u \in Tasks \ ready' : wanted'[u] = n}
      <4>1. CASE n = m
        BY <1>2, <2>1, <2>3, <2>4, <3>1, <4>1
      <4>2. CASE n # m
        BY <1>2, <2>1, <3>1, <4>2 DEF IInv, EventLists
      <4>3. QED
        BY <4>1, <4>2
    <3>3. QED
      BY <3>1, <3>2 DEF EventLists
  <2>7. HeldAreCounted' /\ CountsAgree'
    BY <1>2 DEF IInv, HeldAreCounted, CountsAgree
  <2>8. Places'
    BY <1>1, <1>2, <2>1, <2>2, KernelMutexAssumption DEF IInv, Places
  <2>9. WakeupIsKept'
    <3> SUFFICES ASSUME NEW n \in Mutexes, xMutexHolder[n] = None,
                        xTasksWaitingToReceive'[n] # <<>>
                 PROVE  \E u \in ready' :
                          wanted[u] = n /\ pc'[u] # "disinherit"
      BY <1>2 DEF WakeupIsKept
    <3>1. n # m
      BY <1>4 DEF holder
    <3>2. xTasksWaitingToReceive[n] # <<>>
      BY <2>1, <2>3, <3>1
    <3>3. PICK u \in ready : wanted[u] = n /\ pc[u] # "disinherit"
      BY <3>2 DEF IInv, WakeupIsKept
    <3>4. u \in Tasks /\ u # t
      BY <3>1, <3>3 DEF IInv, Types
    <3>5. QED
      BY <2>1, <2>2, <3>3, <3>4
  <2>10. QED
    BY <2>5, <2>6, <2>7, <2>8, <2>9 DEF IInv
<1>5. QED
  BY <1>3, <1>4 DEF Block

(* What the last give does to the event list. *)
LEMMA FreeFacts ==
  ASSUME IInv, NEW t \in Tasks, NEW m \in Mutexes, t \in ready, Free(t, m)
  PROVE  /\ xTasksWaitingToReceive' \in [Mutexes -> Seq(Tasks)]
         /\ \A n \in Mutexes \ {m} :
              xTasksWaitingToReceive'[n] = xTasksWaitingToReceive[n]
         /\ xYieldPending' \in BOOLEAN
         /\ \/ /\ xTasksWaitingToReceive[m] = <<>>
               /\ xTasksWaitingToReceive' = xTasksWaitingToReceive
               /\ ready' = ready
            \/ \E h \in ToSet(xTasksWaitingToReceive[m]) :
                 /\ xTasksWaitingToReceive[m] # <<>>
                 /\ h = Head(xTasksWaitingToReceive[m])
                 /\ h \in Tasks \ ready /\ h # t /\ wanted[h] = m
                 /\ xTasksWaitingToReceive'[m] =
                      Tail(xTasksWaitingToReceive[m])
                 /\ ready' = ready \cup {h}
                 /\ xYieldPending' = (uxPriority'[h] > uxPriority'[t])
<1> DEFINE list == xTasksWaitingToReceive[m]
<1>1. /\ xTasksWaitingToReceive \in [Mutexes -> Seq(Tasks)]
      /\ list \in Seq(Tasks) /\ IsInjective(list)
      /\ ToSet(list) \subseteq {u \in Tasks \ ready : wanted[u] = m}
  BY DEF IInv, EventLists
<1>2. CASE list = <<>>
  BY <1>1, <1>2 DEF Free
<1>3. CASE list # <<>>
  <2>1. /\ xTasksWaitingToReceive' =
             [xTasksWaitingToReceive EXCEPT ![m] = Tail(list)]
        /\ ready' = ready \cup {Head(list)}
        /\ xYieldPending' = (uxPriority'[Head(list)] > uxPriority'[t])
    BY <1>3 DEF Free
  <2>2. Tail(list) \in Seq(Tasks) /\ Head(list) \in ToSet(list)
    BY <1>1, <1>3, TailFacts
  <2> HIDE DEF list
  <2>3. /\ xTasksWaitingToReceive' \in [Mutexes -> Seq(Tasks)]
        /\ xTasksWaitingToReceive'[m] = Tail(list)
        /\ \A n \in Mutexes \ {m} :
             xTasksWaitingToReceive'[n] = xTasksWaitingToReceive[n]
    BY <1>1, <2>1, <2>2
  <2>4. xYieldPending' \in BOOLEAN
    BY <2>1
  <2>5. /\ Head(list) \in Tasks \ ready /\ Head(list) # t
        /\ wanted[Head(list)] = m
    BY <1>1, <2>2
  <2>6. QED
    BY <1>3, <2>1, <2>2, <2>3, <2>4, <2>5 DEF list
<1>4. QED
  BY <1>2, <1>3

(* The last give frees the mutex, the others only count. *)
LEMMA GiveRecursiveStep ==
  ASSUME IInv, NEW t \in Tasks, NEW m \in Mutexes, GiveRecursive(t, m)
  PROVE  IInv'
<1>1. /\ current = t /\ pc[t] = "run" /\ t \in ready /\ m # None
      /\ xMutexHolder[m] = t /\ t # None
  <2>1. /\ current = t /\ pc[t] = "run" /\ ~ xYieldPending
        /\ xMutexHolder[m] = t
    BY DEF GiveRecursive, At
  <2>2. QED
    BY <2>1, Caller, KernelMutexAssumption
<1>2. /\ uxRecursiveCallCount' = [uxRecursiveCallCount EXCEPT ![m] = @ - 1]
      /\ UNCHANGED <<current, pc, wanted, wait, due, xInheritanceOccurred,
                     failed>>
  BY DEF GiveRecursive, call
<1>3. /\ uxRecursiveCallCount \in [Mutexes -> 0 .. MaxDepth]
      /\ xMutexHolder \in [Mutexes -> Tasks \cup {None}]
      /\ uxPriority \in [Tasks -> Nat]
      /\ MaxDepth \in Nat /\ uxRecursiveCallCount[m] # 0
  BY <1>1, KernelMutexAssumption DEF IInv, Types, CountsAgree
<1>4. /\ uxRecursiveCallCount[m] - 1 \in 0 .. MaxDepth
      /\ uxRecursiveCallCount[m] - 1 = 0 <=> uxRecursiveCallCount[m] = 1
  BY <1>3
<1>5. /\ uxRecursiveCallCount' \in [Mutexes -> 0 .. MaxDepth]
      /\ uxRecursiveCallCount'[m] = 0 <=> uxRecursiveCallCount[m] = 1
      /\ \A n \in Mutexes \ {m} :
           uxRecursiveCallCount'[n] = uxRecursiveCallCount[n]
  BY <1>2, <1>3, <1>4
<1>6. CASE uxRecursiveCallCount[m] # 1
  <2>1. UNCHANGED <<xMutexHolder, uxMutexesHeld, uxPriority, ready,
                    xTasksWaitingToReceive, xYieldPending>>
    BY <1>6 DEF GiveRecursive
  <2>2. Types'
    BY <1>2, <1>5, <2>1 DEF IInv, Types
  <2>3. CountsAgree'
    BY <1>1, <1>5, <1>6, <2>1 DEF IInv, CountsAgree
  <2>4. EventLists' /\ HeldAreCounted'
    BY <1>2, <2>1 DEF IInv, EventLists, HeldAreCounted
  <2>5. Places' /\ WakeupIsKept'
    BY <1>2, <2>1 DEF IInv, Places, WakeupIsKept
  <2>6. QED
    BY <2>2, <2>3, <2>4, <2>5 DEF IInv
<1>7. CASE uxRecursiveCallCount[m] = 1
  <2>1. Free(t, m)
    BY <1>7 DEF GiveRecursive
  <2>2. /\ xMutexHolder' = [xMutexHolder EXCEPT ![m] = None]
        /\ uxMutexesHeld' = [uxMutexesHeld EXCEPT ![t] = @ - 1]
        /\ uxPriority' = Disinherited(t)
    BY <2>1 DEF Free
  <2>3. /\ xMutexHolder' \in [Mutexes -> Tasks \cup {None}]
        /\ xMutexHolder'[m] = None
        /\ \A n \in Mutexes \ {m} : xMutexHolder'[n] = xMutexHolder[n]
    BY <1>3, <2>2
  <2>4. uxPriority' \in [Tasks -> Nat]
    <3>1. uxBasePriority[t] \in Nat
      BY KernelMutexAssumption
    <3>2. QED
      BY <1>3, <2>2, <3>1 DEF Disinherited
  <2>5. /\ xTasksWaitingToReceive' \in [Mutexes -> Seq(Tasks)]
        /\ \A n \in Mutexes \ {m} :
             xTasksWaitingToReceive'[n] = xTasksWaitingToReceive[n]
        /\ xYieldPending' \in BOOLEAN
    BY <1>1, <2>1, FreeFacts
  <2>6. CASE /\ xTasksWaitingToReceive[m] = <<>>
             /\ xTasksWaitingToReceive' = xTasksWaitingToReceive
             /\ ready' = ready
    <3>1. Types'
      BY <1>2, <1>5, <2>3, <2>4, <2>5, <2>6 DEF IInv, Types
    <3>2. EventLists'
      BY <1>2, <2>6 DEF IInv, EventLists
    <3>3. HeldAreCounted'
      BY <1>1, <1>3, <2>2, HeldGiven DEF IInv
    <3>4. CountsAgree'
      BY <1>5, <1>7, <2>3 DEF IInv, CountsAgree
    <3>5. \A u \in Tasks : wanted[u] # None => xMutexHolder'[wanted[u]] # u
      <4> SUFFICES ASSUME NEW u \in Tasks, wanted[u] # None
                   PROVE  xMutexHolder'[wanted[u]] # u
        OBVIOUS
      <4>1. /\ wanted[u] \in Mutexes /\ xMutexHolder[wanted[u]] # u
            /\ u # None
        <5>1. wanted[u] \in Mutexes /\ u # None
          BY KernelMutexAssumption DEF IInv, Types
        <5>2. xMutexHolder[wanted[u]] # u
          BY DEF IInv, Places
        <5>3. QED
          BY <5>1, <5>2
      <4>2. CASE wanted[u] = m
        BY <2>3, <4>1, <4>2
      <4>3. CASE wanted[u] # m
        BY <2>3, <4>1, <4>3
      <4>4. QED
        BY <4>2, <4>3
    <3>6. Places'
      BY <1>1, <1>2, <2>6, <3>5 DEF IInv, Places
    <3>7. WakeupIsKept'
      BY <1>2, <2>3, <2>6 DEF IInv, WakeupIsKept
    <3>8. QED
      BY <3>1, <3>2, <3>3, <3>4, <3>6, <3>7 DEF IInv
  <2>7. CASE ~ (/\ xTasksWaitingToReceive[m] = <<>>
                /\ xTasksWaitingToReceive' = xTasksWaitingToReceive
                /\ ready' = ready)
    <3> DEFINE list == xTasksWaitingToReceive[m]
    <3>1. PICK h \in ToSet(list) :
            /\ list # <<>> /\ h = Head(list)
            /\ h \in Tasks \ ready /\ h # t /\ wanted[h] = m
            /\ xTasksWaitingToReceive'[m] = Tail(list)
            /\ ready' = ready \cup {h}
      BY <1>1, <2>1, <2>7, FreeFacts
    <3>2. /\ IsInjective(Tail(list))
          /\ ToSet(Tail(list)) \subseteq ToSet(list) \ {h}
          /\ ToSet(list) \subseteq {u \in Tasks \ ready : wanted[u] = m}
      <4>1. /\ list \in Seq(Tasks) /\ IsInjective(list)
            /\ ToSet(list) \subseteq {u \in Tasks \ ready : wanted[u] = m}
        BY DEF IInv, EventLists
      <4>2. QED
        BY <3>1, <4>1, TailFacts
    <3> HIDE DEF list
    <3>3. Types'
      BY <1>2, <1>5, <2>3, <2>4, <2>5, <3>1 DEF IInv, Types
    <3>4. EventLists'
      <4>1. ASSUME NEW n \in Mutexes
            PROVE  /\ IsInjective(xTasksWaitingToReceive'[n])
                   /\ ToSet(xTasksWaitingToReceive'[n]) \subseteq
                        {u \in Tasks \ ready' : wanted'[u] = n}
        <5>1. CASE n = m
          BY <1>2, <3>1, <3>2, <5>1
        <5>2. CASE n # m
          BY <1>2, <2>5, <3>1, <5>2 DEF IInv, EventLists
        <5>3. QED
          BY <5>1, <5>2
      <4>2. QED
        BY <2>5, <4>1 DEF EventLists
    <3>5. HeldAreCounted'
      BY <1>1, <1>3, <2>2, HeldGiven DEF IInv
    <3>6. CountsAgree'
      BY <1>5, <1>7, <2>3 DEF IInv, CountsAgree
    <3>7. \A u \in Tasks : wanted[u] # None => xMutexHolder'[wanted[u]] # u
      <4> SUFFICES ASSUME NEW u \in Tasks, wanted[u] # None
                   PROVE  xMutexHolder'[wanted[u]] # u
        OBVIOUS
      <4>1. /\ wanted[u] \in Mutexes /\ xMutexHolder[wanted[u]] # u
            /\ u # None
        <5>1. wanted[u] \in Mutexes /\ u # None
          BY KernelMutexAssumption DEF IInv, Types
        <5>2. xMutexHolder[wanted[u]] # u
          BY DEF IInv, Places
        <5>3. QED
          BY <5>1, <5>2
      <4>2. CASE wanted[u] = m
        BY <2>3, <4>1, <4>2
      <4>3. CASE wanted[u] # m
        BY <2>3, <4>1, <4>3
      <4>4. QED
        BY <4>2, <4>3
    <3>8. Places'
      BY <1>1, <1>2, <3>1, <3>7 DEF IInv, Places
    <3>9. WakeupIsKept'
      <4>1. h \in ready' /\ wanted[h] = m /\ pc[h] # "disinherit"
        BY <3>1 DEF IInv, Places
      <4>2. ASSUME NEW n \in Mutexes \ {m}, xMutexHolder'[n] = None,
                   xTasksWaitingToReceive'[n] # <<>>
            PROVE  \E u \in ready' : wanted[u] = n /\ pc[u] # "disinherit"
        BY <2>3, <2>5, <3>1, <4>2 DEF IInv, WakeupIsKept
      <4>3. QED
        BY <1>2, <4>1, <4>2 DEF WakeupIsKept
    <3>10. QED
      BY <3>3, <3>4, <3>5, <3>6, <3>8, <3>9 DEF IInv
  <2>8. QED
    BY <2>6, <2>7
<1>8. QED
  BY <1>6, <1>7

-----------------------------------------------------------------------------
(* Steps of the scheduler. *)

(* A context switch. *)
LEMMA SwitchStep ==
  ASSUME IInv, Switch
  PROVE  IInv'
<1>1. /\ current' \in ready /\ xYieldPending' = FALSE
      /\ UNCHANGED <<ready, uxPriority, uxMutexesHeld, xMutexHolder,
                     uxRecursiveCallCount, xTasksWaitingToReceive, pc, wanted,
                     wait, due, xInheritanceOccurred, failed>>
  BY DEF Switch, mutex, call
<1>2. Types'
  BY <1>1 DEF IInv, Types
<1>3. EventLists' /\ HeldAreCounted'
  BY <1>1 DEF IInv, EventLists, HeldAreCounted
<1>4. Places' /\ CountsAgree' /\ WakeupIsKept'
  BY <1>1 DEF IInv, Places, CountsAgree, WakeupIsKept
<1>5. QED
  BY <1>2, <1>3, <1>4 DEF IInv

(* A tick, at which the time of the tasks in D is up. *)
LEMMA TickStep ==
  ASSUME IInv, NEW D \in SUBSET Tasks, Tick(D)
  PROVE  IInv'
<1>1. /\ due' = [t \in Tasks |-> due[t] \/ t \in D]
      /\ ready' = ready \cup D
      /\ xTasksWaitingToReceive' =
           [m \in Mutexes |-> Without(xTasksWaitingToReceive[m], D)]
      /\ xYieldPending' = (xYieldPending \/
           \E t \in D \ ready : uxPriority[t] > uxPriority[current])
      /\ UNCHANGED <<current, uxPriority, uxMutexesHeld, xMutexHolder,
                     uxRecursiveCallCount, pc, wanted, wait,
                     xInheritanceOccurred, failed>>
  BY DEF Tick, mutex
<1>2. Types'
  <2>1. xYieldPending' \in BOOLEAN /\ due' \in [Tasks -> BOOLEAN]
    BY <1>1
  <2>2. ready' \subseteq Tasks /\ Idle \in ready'
    BY <1>1 DEF IInv, Types
  <2>3. QED
    BY <1>1, <2>1, <2>2 DEF IInv, Types
<1>3. ASSUME NEW m \in Mutexes
      PROVE  /\ xTasksWaitingToReceive'[m] \in Seq(Tasks)
             /\ IsInjective(xTasksWaitingToReceive'[m])
             /\ ToSet(xTasksWaitingToReceive'[m]) \subseteq
                  {t \in Tasks \ ready' : wanted'[t] = m}
             /\ xTasksWaitingToReceive'[m] # <<>> =>
                  xTasksWaitingToReceive[m] # <<>>
  <2> DEFINE list == xTasksWaitingToReceive[m]
  <2>1. /\ list \in Seq(Tasks) /\ IsInjective(list)
        /\ ToSet(list) \subseteq {t \in Tasks \ ready : wanted[t] = m}
    BY DEF IInv, EventLists
  <2>2. /\ Without(list, D) \in Seq(Tasks) /\ IsInjective(Without(list, D))
        /\ ToSet(Without(list, D)) \subseteq ToSet(list) \ D
        /\ Without(list, D) # <<>> => list # <<>>
    BY <2>1, WithoutFacts
  <2> HIDE DEF list
  <2>3. xTasksWaitingToReceive'[m] = Without(list, D)
    BY <1>1 DEF list
  <2>4. QED
    BY <1>1, <2>1, <2>2, <2>3 DEF list
<1>4. EventLists'
  <2>1. xTasksWaitingToReceive' \in [Mutexes -> Seq(Tasks)]
    BY <1>1, <1>3
  <2>2. QED
    BY <1>3, <2>1 DEF EventLists
<1>5. HeldAreCounted' /\ CountsAgree'
  BY <1>1 DEF IInv, HeldAreCounted, CountsAgree
<1>6. Places'
  <2>1. xYieldPending => xYieldPending'
    BY <1>1
  <2>2. QED
    BY <1>1, <2>1 DEF IInv, Places
<1>7. WakeupIsKept'
  BY <1>1, <1>3 DEF IInv, WakeupIsKept
<1>8. QED
  BY <1>2, <1>4, <1>5, <1>6, <1>7 DEF IInv

-----------------------------------------------------------------------------
(* The invariant, and what follows from it. *)

(* Nothing is open at first. *)
LEMMA InitFacts ==
  ASSUME Init
  PROVE  IInv
<1>1. <<>> \in Seq(Tasks) /\ DOMAIN <<>> = {}
  OBVIOUS
<1>2. IsInjective(<<>>) /\ ToSet(<<>>) = {}
  BY <1>1 DEF IsInjective, ToSet
<1>3. EventLists
  BY <1>1, <1>2 DEF Init, EventLists
<1>4. HeldAreCounted
  <2>1. \A t \in Tasks : {m \in Mutexes : xMutexHolder[m] = t} = {}
    BY KernelMutexAssumption DEF Init
  <2>2. QED
    BY <2>1, FS_EmptySet DEF Init, HeldAreCounted
<1>5. 0 \in 0 .. MaxDepth
  BY KernelMutexAssumption
<1>6. Types
  BY <1>5, KernelMutexAssumption DEF Init, Types, Steps
<1>7. Places
  BY <1>6, KernelMutexAssumption DEF Init, Places, Types
<1>8. CountsAgree /\ WakeupIsKept
  BY DEF Init, CountsAgree, WakeupIsKept
<1>9. QED
  BY <1>3, <1>4, <1>6, <1>7, <1>8 DEF IInv

(* Every step keeps the invariant. *)
LEMMA NextStep ==
  ASSUME IInv, [Next]_vars
  PROVE  IInv'
<1>1. CASE Switch \/ \E D \in SUBSET Tasks : Tick(D)
  BY <1>1, SwitchStep, TickStep
<1>2. ASSUME NEW t \in Tasks, Delay(t) \/ Kernel(t)
      PROVE  IInv'
  BY <1>2, DelayStep, YieldStep, AwakeStep, TakeStep, TakeNotStep, BlockStep,
     TimedOutStep, DisinheritStep DEF Kernel
<1>3. ASSUME NEW t \in Tasks,
             \/ \E m \in Mutexes, w \in Waits : TakeRecursive(t, m, w)
             \/ \E m \in Mutexes : GiveRecursive(t, m)
      PROVE  IInv'
  BY <1>3, TakeRecursiveStep, GiveRecursiveStep
<1>4. CASE UNCHANGED vars
  <2>1. UNCHANGED <<current, ready, xYieldPending, uxPriority, uxMutexesHeld,
                    xMutexHolder, uxRecursiveCallCount,
                    xTasksWaitingToReceive, pc, wanted, wait, due,
                    xInheritanceOccurred, failed>>
    BY <1>4 DEF vars, mutex, call
  <2>2. Types' /\ EventLists' /\ HeldAreCounted'
    BY <2>1 DEF IInv, Types, EventLists, HeldAreCounted
  <2>3. Places' /\ CountsAgree' /\ WakeupIsKept'
    BY <2>1 DEF IInv, Places, CountsAgree, WakeupIsKept
  <2>4. QED
    BY <2>2, <2>3 DEF IInv
<1>5. QED
  BY <1>1, <1>2, <1>3, <1>4 DEF Next

(* The invariant, for any number of mutexes. *)
THEOREM MutexInvariant == Spec => []IInv
<1>1. Init => IInv
  BY InitFacts
<1>2. IInv /\ [Next]_vars => IInv'
  BY NextStep
<1>3. QED
  BY <1>1, <1>2, PTL DEF Spec

(* Types; lists of blocked tasks, each once and for the mutex it wants;    *)
(* uxMutexesHeld counts what the task holds.                               *)
THEOREM TypeCorrect == Spec => []TypeOK
<1>1. IInv => TypeOK
  BY DEF IInv, Types, EventLists, HeldAreCounted, TypeOK, Steps
<1>2. QED
  BY <1>1, MutexInvariant, PTL

(* A free mutex that tasks wait for has one on its way to take it.         *)
THEOREM WakeupsReach == Spec => []NoLostWakeup
<1>1. IInv => NoLostWakeup
  BY DEF IInv, WakeupIsKept, NoLostWakeup
<1>2. QED
  BY <1>1, MutexInvariant, PTL

-----------------------------------------------------------------------------
(* The mutexes are recursive locks. *)

(* Taking a mutex, for the first time or once more, is taking the lock. *)
LEMMA TakesLock ==
  ASSUME IInv, NEW t \in Tasks,
         Take(t) \/ \E m \in Mutexes, w \in Waits : TakeRecursive(t, m, w)
  PROVE  \/ UNCHANGED <<xMutexHolder, uxRecursiveCallCount>>
         \/ \E m \in Mutexes : Locks!Take(t, m)
<1>1. xMutexHolder \in [Mutexes -> Tasks \cup {None}]
  BY DEF IInv, Types
<1>2. CASE Take(t)
  <2>1. /\ current = t /\ pc[t] = "take" /\ ~ xYieldPending
        /\ xMutexHolder[wanted[t]] = None
        /\ xMutexHolder' = [xMutexHolder EXCEPT ![wanted[t]] = t]
        /\ uxRecursiveCallCount' =
             [uxRecursiveCallCount EXCEPT ![wanted[t]] = @ + 1]
    BY <1>2 DEF Take, At
  <2>2. wanted[t] \in Mutexes
    BY <2>1, Caller
  <2>3. QED
    BY <2>1, <2>2 DEF Locks!Take
<1>3. ASSUME NEW m \in Mutexes, NEW w \in Waits, TakeRecursive(t, m, w)
      PROVE  \/ UNCHANGED <<xMutexHolder, uxRecursiveCallCount>>
             \/ Locks!Take(t, m)
  <2>1. CASE xMutexHolder[m] = t
    <3>1. /\ xMutexHolder' = xMutexHolder
          /\ uxRecursiveCallCount' =
               [uxRecursiveCallCount EXCEPT ![m] = @ + 1]
      BY <1>3, <2>1 DEF TakeRecursive
    <3>2. xMutexHolder = [xMutexHolder EXCEPT ![m] = t]
      BY <1>1, <2>1
    <3>3. QED
      BY <2>1, <3>1, <3>2 DEF Locks!Take
  <2>2. CASE xMutexHolder[m] # t
    BY <1>3, <2>2 DEF TakeRecursive
  <2>3. QED
    BY <2>1, <2>2
<1>4. QED
  BY <1>2, <1>3

(* Giving it is giving the lock, and the last time doing without it. *)
LEMMA GivesLock ==
  ASSUME IInv, NEW t \in Tasks, NEW m \in Mutexes, GiveRecursive(t, m)
  PROVE  Locks!Give(t, m)
<1>1. /\ xMutexHolder[m] = t
      /\ uxRecursiveCallCount' = [uxRecursiveCallCount EXCEPT ![m] = @ - 1]
      /\ xMutexHolder \in [Mutexes -> Tasks \cup {None}]
  BY DEF GiveRecursive, IInv, Types
<1>2. xMutexHolder' = [xMutexHolder EXCEPT ![m] =
                         IF uxRecursiveCallCount[m] = 1 THEN None ELSE @]
  <2>1. CASE uxRecursiveCallCount[m] = 1
    BY <2>1 DEF GiveRecursive, Free
  <2>2. CASE uxRecursiveCallCount[m] # 1
    BY <1>1, <2>2 DEF GiveRecursive
  <2>3. QED
    BY <2>1, <2>2
<1>3. QED
  BY <1>1, <1>2 DEF Locks!Give

(* The kernel's mutexes do what RecursiveLocks promises the tasks: every   *)
(* step of the kernel is a step of the locks or leaves them alone.         *)
THEOREM MutexesAreLocks == Spec => ImplementsLocks
<1>1. Init => Locks!Init
  BY DEF Init, Locks!Init
<1>2. IInv /\ [Next]_vars
        => [Locks!Next]_<<xMutexHolder, uxRecursiveCallCount>>
  <2> SUFFICES ASSUME IInv, [Next]_vars
               PROVE  \/ Locks!Next
                      \/ UNCHANGED <<xMutexHolder, uxRecursiveCallCount>>
    OBVIOUS
  <2>1. CASE Switch \/ \E D \in SUBSET Tasks : Tick(D)
    BY <2>1 DEF Switch, Tick, mutex
  <2>2. ASSUME NEW t \in Tasks,
               \/ Delay(t) \/ Yield(t) \/ Awake(t) \/ TakeNot(t) \/ Block(t)
               \/ TimedOut(t) \/ DisinheritAfterTimeout(t)
        PROVE  UNCHANGED <<xMutexHolder, uxRecursiveCallCount>>
    BY <2>2 DEF Delay, Yield, Awake, TakeNot, Block, TimedOut,
                DisinheritAfterTimeout, mutex
  <2>3. ASSUME NEW t \in Tasks,
               \/ Take(t)
               \/ \E m \in Mutexes, w \in Waits : TakeRecursive(t, m, w)
        PROVE  \/ Locks!Next
               \/ UNCHANGED <<xMutexHolder, uxRecursiveCallCount>>
    BY <2>3, TakesLock DEF Locks!Next
  <2>4. ASSUME NEW t \in Tasks, NEW m \in Mutexes, GiveRecursive(t, m)
        PROVE  Locks!Next
    BY <2>4, GivesLock DEF Locks!Next
  <2>5. CASE UNCHANGED vars
    BY <2>5 DEF vars, mutex
  <2>6. QED
    BY <2>1, <2>2, <2>3, <2>4, <2>5 DEF Next, Kernel
<1>3. QED
  BY <1>1, <1>2, MutexInvariant, PTL DEF Spec, ImplementsLocks, Locks!Spec

-----------------------------------------------------------------------------
(* Priority inheritance with one mutex. *)

(* What the steps below use of the invariants. *)
LEMMA PriorityFacts ==
  ASSUME IInv, PInv
  PROVE  /\ uxPriority \in [Tasks -> Nat] /\ uxBasePriority \in [Tasks -> Nat]
         /\ xMutexHolder \in [Mutexes -> Tasks \cup {None}]
         /\ \A t \in Tasks : uxPriority[t] >= uxBasePriority[t]
         /\ \A m \in Mutexes :
              /\ m # None
              /\ xTasksWaitingToReceive[m] \in Seq(Tasks)
              /\ IsInjective(xTasksWaitingToReceive[m])
              /\ Sorted(xTasksWaitingToReceive[m])
              /\ \A u \in ToSet(xTasksWaitingToReceive[m]) :
                   u \in Tasks \ ready /\ wanted[u] = m /\ xMutexHolder[m] # u
<1>1. /\ uxPriority \in [Tasks -> Nat] /\ uxBasePriority \in [Tasks -> Nat]
      /\ xMutexHolder \in [Mutexes -> Tasks \cup {None}]
      /\ \A m \in Mutexes : m # None
  BY KernelMutexAssumption DEF IInv, Types
<1>2. \A t \in Tasks : uxPriority[t] >= uxBasePriority[t]
  BY DEF PInv, Noted
<1>3. \A m \in Mutexes :
        /\ xTasksWaitingToReceive[m] \in Seq(Tasks)
        /\ IsInjective(xTasksWaitingToReceive[m])
        /\ \A u \in ToSet(xTasksWaitingToReceive[m]) :
             u \in Tasks \ ready /\ wanted[u] = m
  BY DEF IInv, EventLists
<1>4. \A m \in Mutexes : Sorted(xTasksWaitingToReceive[m])
  BY DEF PInv, InheritsPriority, EventListIsSorted, Sorted
<1>5. \A u \in Tasks : wanted[u] # None => xMutexHolder[wanted[u]] # u
  BY DEF IInv, Places
<1>6. QED
  BY <1>1, <1>2, <1>3, <1>4, <1>5

(* Only the holder of the mutex has another priority than its own. *)
LEMMA OwnPriorities ==
  ASSUME IInv, PInv, Alone, NEW m \in Mutexes, NEW t \in Tasks,
         uxPriority[t] # uxBasePriority[t]
  PROVE  xMutexHolder[m] = t
<1>1. PICK u \in Tasks : wanted[u] # None /\ xMutexHolder[wanted[u]] = t
  BY DEF PInv, InheritsPriority, PriorityIsJustified
<1>2. wanted[u] \in Mutexes
  BY <1>1 DEF IInv, Types
<1>3. QED
  BY <1>1, <1>2 DEF Alone

(* It holds one mutex then. *)
LEMMA HoldsOne ==
  ASSUME IInv, Alone, NEW m \in Mutexes, NEW t \in Tasks, xMutexHolder[m] = t
  PROVE  uxMutexesHeld[t] = 1
<1>1. {n \in Mutexes : xMutexHolder[n] = t} = {m}
  BY DEF Alone
<1>2. QED
  BY <1>1, FS_Singleton DEF IInv, HeldAreCounted

(* Nobody on a sorted list is more urgent than its head. *)
LEMMA HeadIsUrgent ==
  ASSUME NEW list \in Seq(Tasks), Sorted(list), NEW u \in ToSet(list),
         uxPriority \in [Tasks -> Nat]
  PROVE  list # <<>> /\ uxPriority[Head(list)] >= uxPriority[u]
<1>1. /\ Len(list) \in Nat /\ DOMAIN list = 1 .. Len(list)
      /\ list = <<>> <=> Len(list) = 0
      /\ \A i \in 1 .. Len(list) : list[i] \in Tasks
  BY ListFacts
<1>2. PICK i \in 1 .. Len(list) : u = list[i]
  BY <1>1 DEF ToSet
<1>3. list # <<>> /\ Head(list) = list[1] /\ 1 \in 1 .. Len(list)
  BY <1>1, <1>2
<1>4. CASE i = 1
  <2>1. uxPriority[list[1]] \in Nat
    BY <1>1, <1>3
  <2>2. QED
    BY <1>2, <1>3, <1>4, <2>1
<1>5. CASE i > 1
  BY <1>1, <1>2, <1>3, <1>5 DEF Sorted
<1>6. QED
  BY <1>2, <1>3, <1>4, <1>5

(* Sorting by priorities that are the same for those on the list. *)
LEMMA SortedStays ==
  ASSUME NEW list \in Seq(Tasks), Sorted(list),
         \A u \in ToSet(list) : uxPriority'[u] = uxPriority[u]
  PROVE  \A i, j \in DOMAIN list :
           i < j => uxPriority'[list[i]] >= uxPriority'[list[j]]
<1>1. \A i \in DOMAIN list : uxPriority'[list[i]] = uxPriority[list[i]]
  BY DEF ToSet
<1>2. QED
  BY <1>1 DEF Sorted

(* Steps of the running task that change no priority, mutex or list: it    *)
(* does not turn away from a free mutex, nor without taking the priority   *)
(* back that it has passed on.                                             *)
LEMMA CallerPasses ==
  ASSUME IInv, PInv, NEW t \in Tasks, current = t,
         UNCHANGED <<current, uxPriority, xMutexHolder,
                     xTasksWaitingToReceive>>,
         \A u \in Tasks \ {t} :
           /\ pc'[u] = pc[u] /\ wanted'[u] = wanted[u] /\ wait'[u] = wait[u]
           /\ xInheritanceOccurred'[u] = xInheritanceOccurred[u],
         ready' = ready \/ ready' = ready \ {t},
         pc'[t] = "block" \/ xInheritanceOccurred'[t] => wait'[t] # "none",
         xInheritanceOccurred'[t] => wanted'[t] # None,
         t \in ready \/ xInheritanceOccurred'[t] = xInheritanceOccurred[t],
         wanted[t] # None /\ xMutexHolder[wanted[t]] # None /\
           xInheritanceOccurred[t] =>
             wanted'[t] = wanted[t] /\ xInheritanceOccurred'[t],
         t \in ready /\ wanted[t] # None /\ pc[t] # "disinherit" /\
           xMutexHolder[wanted[t]] = None =>
             /\ t \in ready' /\ wanted'[t] = wanted[t]
             /\ pc'[t] # "disinherit",
         xYieldPending => xYieldPending',
         pc[t] = "yield" => xYieldPending'
  PROVE  PInv'
<1>1. HolderIsUrgent' /\ EventListIsSorted'
  BY DEF PInv, InheritsPriority, HolderIsUrgent, EventListIsSorted
<1>2. PriorityIsJustified'
  <2> SUFFICES ASSUME NEW x \in Tasks, uxPriority[x] # uxBasePriority[x]
               PROVE  \E u \in Tasks \ {x} :
                        /\ wanted'[u] # None /\ xMutexHolder[wanted'[u]] = x
                        /\ xInheritanceOccurred'[u]
                        /\ uxPriority[u] = uxPriority[x]
    BY DEF PriorityIsJustified
  <2>1. PICK u \in Tasks \ {x} :
          /\ wanted[u] # None /\ xMutexHolder[wanted[u]] = x
          /\ xInheritanceOccurred[u]
          /\ uxPriority[u] = uxPriority[x]
    BY DEF PInv, InheritsPriority, PriorityIsJustified
  <2>2. x # None
    BY KernelMutexAssumption
  <2>3. CASE u = t
    BY <2>1, <2>2, <2>3
  <2>4. CASE u # t
    BY <2>1, <2>4
  <2>5. QED
    BY <2>3, <2>4
<1>3. Noted'
  <2>1. ASSUME NEW u \in Tasks
        PROVE  /\ uxPriority'[u] >= uxBasePriority[u]
               /\ pc'[u] = "block" \/ xInheritanceOccurred'[u] =>
                    wait'[u] # "none"
               /\ xInheritanceOccurred'[u] => wanted'[u] # None
    <3>1. CASE u = t
      BY <3>1 DEF PInv, Noted
    <3>2. CASE u # t
      BY <3>2 DEF PInv, Noted
    <3>3. QED
      BY <3>1, <3>2
  <2>2. ASSUME NEW m \in Mutexes, xMutexHolder[m] # None,
               NEW u \in ToSet(xTasksWaitingToReceive[m]),
               uxPriority[u] > uxBasePriority[xMutexHolder[m]]
        PROVE  xInheritanceOccurred'[u]
    <3>1. xInheritanceOccurred[u]
      BY <2>2 DEF PInv, Noted
    <3>2. u \in Tasks \ ready
      BY PriorityFacts
    <3>3. QED
      BY <3>1, <3>2
  <2>3. QED
    BY <2>1, <2>2 DEF Noted
<1>4. TakersAreUrgent'
  <2> SUFFICES ASSUME NEW m \in Mutexes, xMutexHolder[m] = None,
                      xTasksWaitingToReceive[m] # <<>>
               PROVE  /\ \E u \in ready' :
                           /\ wanted'[u] = m /\ pc'[u] # "disinherit"
                           /\ \A v \in ToSet(xTasksWaitingToReceive[m]) :
                                uxPriority[u] >= uxPriority[v]
                      /\ xYieldPending' \/ pc'[current] = "yield" \/
                         \A v \in ToSet(xTasksWaitingToReceive[m]) :
                           uxPriority[current] >= uxPriority[v]
    BY DEF TakersAreUrgent
  <2>1. PICK u \in ready :
          /\ wanted[u] = m /\ pc[u] # "disinherit"
          /\ \A v \in ToSet(xTasksWaitingToReceive[m]) :
               uxPriority[u] >= uxPriority[v]
    BY DEF PInv, TakersAreUrgent
  <2>2. u \in Tasks /\ m # None
    BY KernelMutexAssumption DEF IInv, Types
  <2>3. u \in ready' /\ wanted'[u] = m /\ pc'[u] # "disinherit"
    <3>1. CASE u = t
      BY <2>1, <2>2, <3>1
    <3>2. CASE u # t
      BY <2>1, <2>2, <3>2
    <3>3. QED
      BY <3>1, <3>2
  <2>4. xYieldPending \/ pc[current] = "yield" \/
        \A v \in ToSet(xTasksWaitingToReceive[m]) :
          uxPriority[current] >= uxPriority[v]
    BY DEF PInv, TakersAreUrgent
  <2>5. QED
    BY <2>1, <2>3, <2>4
<1>5. QED
  BY <1>1, <1>2, <1>3, <1>4 DEF PInv, InheritsPriority

(* A call that goes on at another place. *)
LEMMA GoesOn ==
  ASSUME IInv, PInv, NEW t \in Tasks, current = t, ~ xYieldPending,
         NEW s \in Steps, Goto(t, s),
         UNCHANGED <<current, ready, xYieldPending, uxPriority, xMutexHolder,
                     xTasksWaitingToReceive, wanted, wait,
                     xInheritanceOccurred>>,
         pc[t] # "yield", s = "block" => wait[t] # "none",
         s = "disinherit" => xMutexHolder[wanted[t]] # None
  PROVE  PInv'
<1>1. pc'[t] = s /\ \A u \in Tasks \ {t} : pc'[u] = pc[u]
  BY GotoFacts
<1>2. t \in ready
  BY Caller
<1>3. /\ xInheritanceOccurred[t] => wait[t] # "none"
      /\ xInheritanceOccurred[t] => wanted[t] # None
  BY DEF PInv, Noted
<1>4. QED
  BY <1>1, <1>2, <1>3, CallerPasses

(* A call that ends though it has passed no priority on. *)
LEMMA GoesBack ==
  ASSUME IInv, PInv, NEW t \in Tasks, current = t, ~ xYieldPending,
         NEW b \in BOOLEAN, Return(t, b),
         UNCHANGED <<current, ready, xYieldPending, uxPriority, xMutexHolder,
                     xTasksWaitingToReceive>>,
         pc[t] # "yield",
         wanted[t] = None \/
           (xMutexHolder[wanted[t]] # None /\ ~ xInheritanceOccurred[t])
  PROVE  PInv'
<1>1. t \in ready
  BY Caller
<1>2. /\ pc'[t] = "run" /\ wanted'[t] = None
      /\ wait'[t] = "none" /\ ~ xInheritanceOccurred'[t]
      /\ \A u \in Tasks \ {t} :
           /\ pc'[u] = pc[u] /\ wanted'[u] = wanted[u]
           /\ wait'[u] = wait[u]
           /\ xInheritanceOccurred'[u] = xInheritanceOccurred[u]
  BY ReturnFacts
<1>3. QED
  BY <1>1, <1>2, CallerPasses

(* A task that yields, delays itself or comes back from a delay. *)
LEMMA RestUrgent ==
  ASSUME IInv, PInv, NEW t \in Tasks, Delay(t) \/ Yield(t) \/ Awake(t)
  PROVE  PInv'
<1>1. CASE Delay(t)
  <2>1. /\ current = t /\ pc[t] = "run" /\ ~ xYieldPending
        /\ Goto(t, "yield") /\ ready' = ready \ {t}
        /\ wait' = [wait EXCEPT ![t] = "ticks"]
        /\ UNCHANGED <<current, xYieldPending, uxPriority, xMutexHolder,
                       xTasksWaitingToReceive, wanted, xInheritanceOccurred>>
    BY <1>1 DEF Delay, At, mutex
  <2>2. t \in ready /\ wanted[t] = None
    BY <2>1, Caller
  <2>3. pc'[t] = "yield" /\ \A u \in Tasks \ {t} : pc'[u] = pc[u]
    BY <2>1, GotoFacts DEF Steps
  <2>4. wait'[t] = "ticks" /\ \A u \in Tasks \ {t} : wait'[u] = wait[u]
    BY <2>1 DEF IInv, Types
  <2>5. xInheritanceOccurred[t] => wanted[t] # None
    BY DEF PInv, Noted
  <2>6. QED
    BY <2>1, <2>2, <2>3, <2>4, <2>5, CallerPasses
<1>2. CASE Yield(t)
  <2> DEFINE s == IF wanted[t] = None THEN "awake" ELSE "take"
  <2>1. /\ current = t /\ pc[t] = "yield" /\ ~ xYieldPending
        /\ Goto(t, s) /\ xYieldPending' = TRUE
        /\ UNCHANGED <<current, ready, uxPriority, xMutexHolder,
                       xTasksWaitingToReceive, wanted, wait,
                       xInheritanceOccurred>>
    BY <1>2 DEF Yield, At, mutex, call
  <2>2. s \in Steps /\ s # "block" /\ s # "disinherit"
    BY DEF Steps
  <2> HIDE DEF s
  <2>3. pc'[t] = s /\ \A u \in Tasks \ {t} : pc'[u] = pc[u]
    BY <2>1, <2>2, GotoFacts
  <2>4. /\ xInheritanceOccurred[t] => wait[t] # "none"
        /\ xInheritanceOccurred[t] => wanted[t] # None
    BY DEF PInv, Noted
  <2>5. QED
    BY <2>1, <2>2, <2>3, <2>4, CallerPasses
<1>3. CASE Awake(t)
  <2>1. /\ current = t /\ pc[t] = "awake" /\ ~ xYieldPending
        /\ Return(t, FALSE)
        /\ UNCHANGED <<current, ready, xYieldPending, uxPriority,
                       xMutexHolder, xTasksWaitingToReceive>>
    BY <1>3 DEF Awake, At, mutex
  <2>2. wanted[t] = None
    BY <2>1, Caller
  <2>3. QED
    BY <2>1, <2>2, GoesBack
<1>4. QED
  BY <1>1, <1>2, <1>3

(* The mutex is held, or the time is up: the task gives up or goes on. *)
LEMMA TurnedAwayUrgent ==
  ASSUME IInv, PInv, NEW t \in Tasks, TakeNot(t) \/ TimedOut(t)
  PROVE  PInv'
<1>1. /\ current = t /\ pc[t] \in {"take", "timed out"} /\ ~ xYieldPending
      /\ UNCHANGED <<current, ready, xYieldPending, uxPriority, xMutexHolder,
                     xTasksWaitingToReceive>>
  BY DEF TakeNot, TimedOut, At, mutex
<1>2. xInheritanceOccurred[t] => wait[t] # "none"
  BY DEF PInv, Noted
<1>3. CASE TakeNot(t)
  <2>1. xMutexHolder[wanted[t]] # None
    BY <1>3 DEF TakeNot
  <2>2. CASE wait[t] = "none" /\ Return(t, TRUE)
    BY <1>1, <1>2, <2>1, <2>2, GoesBack
  <2>3. CASE wait[t] # "none" /\ Goto(t, "block") /\ UNCHANGED call
    BY <1>1, <2>1, <2>3, GoesOn DEF call, Steps
  <2>4. QED
    BY <1>3, <2>2, <2>3 DEF TakeNot
<1>4. CASE TimedOut(t)
  <2>1. CASE xMutexHolder[wanted[t]] = None
    <3>1. Goto(t, "take") /\ UNCHANGED call
      BY <1>4, <2>1 DEF TimedOut
    <3>2. QED
      BY <1>1, <3>1, GoesOn DEF call, Steps
  <2>2. CASE xMutexHolder[wanted[t]] # None /\ xInheritanceOccurred[t]
    <3>1. Goto(t, "disinherit") /\ UNCHANGED call
      BY <1>4, <2>2 DEF TimedOut
    <3>2. QED
      BY <1>1, <2>2, <3>1, GoesOn DEF call, Steps
  <2>3. CASE xMutexHolder[wanted[t]] # None /\ ~ xInheritanceOccurred[t]
    <3>1. Return(t, TRUE)
      BY <1>4, <2>3 DEF TimedOut
    <3>2. QED
      BY <1>1, <2>3, <3>1, GoesBack
  <2>4. QED
    BY <2>1, <2>2, <2>3
<1>5. QED
  BY <1>3, <1>4

(* A task asks for the mutex, or has it already. *)
LEMMA TakeRecursiveUrgent ==
  ASSUME IInv, PInv, NEW t \in Tasks, NEW m \in Mutexes, NEW w \in Waits,
         TakeRecursive(t, m, w)
  PROVE  PInv'
<1>1. /\ current = t /\ pc[t] = "run" /\ ~ xYieldPending
      /\ UNCHANGED <<current, ready, xYieldPending, uxPriority, xMutexHolder,
                     xTasksWaitingToReceive>>
  BY DEF TakeRecursive, At
<1>2. t \in ready /\ wanted[t] = None /\ m # None
  BY <1>1, Caller, KernelMutexAssumption
<1>3. ~ xInheritanceOccurred[t]
  BY <1>2 DEF PInv, Noted
<1>4. CASE xMutexHolder[m] = t
  <2>1. UNCHANGED <<pc, wanted, wait, xInheritanceOccurred>>
    BY <1>4 DEF TakeRecursive, call
  <2>2. QED
    BY <1>1, <1>2, <1>3, <2>1, CallerPasses
<1>5. CASE xMutexHolder[m] # t
  <2>1. /\ Goto(t, "take")
        /\ wanted' = [wanted EXCEPT ![t] = m]
        /\ wait' = [wait EXCEPT ![t] = w]
        /\ UNCHANGED xInheritanceOccurred
    BY <1>5 DEF TakeRecursive
  <2>2. pc'[t] = "take" /\ \A u \in Tasks \ {t} : pc'[u] = pc[u]
    BY <2>1, GotoFacts DEF Steps
  <2>3. \A u \in Tasks \ {t} : wanted'[u] = wanted[u] /\ wait'[u] = wait[u]
    BY <2>1 DEF IInv, Types
  <2>4. QED
    BY <1>1, <1>2, <1>3, <2>1, <2>2, <2>3, CallerPasses
<1>6. QED
  BY <1>4, <1>5

(* Who takes the mutex is at least as urgent as those who wait. *)
LEMMA TakeUrgent ==
  ASSUME IInv, PInv, Alone, NEW t \in Tasks, Take(t)
  PROVE  PInv'
<1> DEFINE m == wanted[t]
<1>1. /\ current = t /\ pc[t] = "take" /\ ~ xYieldPending
      /\ xMutexHolder[m] = None
      /\ xMutexHolder' = [xMutexHolder EXCEPT ![m] = t]
      /\ Return(t, FALSE)
      /\ UNCHANGED <<uxPriority, xTasksWaitingToReceive>>
  BY DEF Take, At
<1>2. m \in Mutexes /\ t \in ready
  BY <1>1, Caller
<1>3. /\ pc'[t] = "run" /\ wanted'[t] = None
      /\ wait'[t] = "none" /\ ~ xInheritanceOccurred'[t]
      /\ \A u \in Tasks \ {t} :
           /\ pc'[u] = pc[u] /\ wanted'[u] = wanted[u]
           /\ wait'[u] = wait[u]
           /\ xInheritanceOccurred'[u] = xInheritanceOccurred[u]
  BY <1>1, ReturnFacts
<1> HIDE DEF m
<1>4. /\ xMutexHolder'[m] = t /\ t # None
      /\ \A n \in Mutexes : n = m
  BY <1>1, <1>2, PriorityFacts, KernelMutexAssumption DEF Alone
<1>5. \A u \in Tasks : uxPriority[u] = uxBasePriority[u]
  BY <1>1, <1>2, OwnPriorities, KernelMutexAssumption
<1>6. \A u \in ToSet(xTasksWaitingToReceive[m]) :
        uxPriority[t] >= uxPriority[u]
  <2>1. CASE xTasksWaitingToReceive[m] = <<>>
    BY <2>1 DEF ToSet
  <2>2. CASE xTasksWaitingToReceive[m] # <<>>
    BY <1>1, <1>2, <2>2 DEF PInv, TakersAreUrgent
  <2>3. QED
    BY <2>1, <2>2
<1>7. HolderIsUrgent'
  BY <1>1, <1>4, <1>6 DEF HolderIsUrgent
<1>8. PriorityIsJustified'
  BY <1>1, <1>5 DEF PriorityIsJustified
<1>9. EventListIsSorted'
  BY <1>1 DEF PInv, InheritsPriority, EventListIsSorted
<1>10. Noted'
  <2>1. ASSUME NEW u \in Tasks
        PROVE  /\ uxPriority'[u] >= uxBasePriority[u]
               /\ pc'[u] = "block" \/ xInheritanceOccurred'[u] =>
                    wait'[u] # "none"
               /\ xInheritanceOccurred'[u] => wanted'[u] # None
    <3>1. CASE u = t
      BY <1>1, <1>3, <3>1 DEF PInv, Noted
    <3>2. CASE u # t
      BY <1>1, <1>3, <3>2 DEF PInv, Noted
    <3>3. QED
      BY <3>1, <3>2
  <2>2. ASSUME NEW u \in ToSet(xTasksWaitingToReceive[m])
        PROVE  ~ (uxPriority[u] > uxBasePriority[t])
    <3>1. u \in Tasks /\ uxPriority \in [Tasks -> Nat]
      BY <1>2, PriorityFacts
    <3>2. QED
      BY <1>5, <1>6, <3>1
  <2>3. QED
    BY <1>1, <1>4, <2>1, <2>2 DEF Noted
<1>11. TakersAreUrgent'
  BY <1>4 DEF TakersAreUrgent
<1>12. QED
  BY <1>7, <1>8, <1>9, <1>10, <1>11 DEF PInv, InheritsPriority

(* The holder inherits the priority of a task that joins the list. *)
LEMMA BlockUrgent ==
  ASSUME IInv, PInv, Alone, NEW t \in Tasks, Block(t)
  PROVE  PInv'
<1> DEFINE m == wanted[t]
           h == xMutexHolder[m]
           list == xTasksWaitingToReceive[m]
<1>1. /\ current = t /\ pc[t] = "block" /\ ~ xYieldPending
      /\ UNCHANGED <<current, xYieldPending, xMutexHolder, wanted, wait>>
  BY DEF Block, At, mutex
<1>2. /\ m \in Mutexes /\ m # None /\ t \in ready /\ h # t
      /\ wait[t] # "none"
  BY <1>1, Caller DEF PInv, Noted
<1>3. ASSUME NEW s \in {"take", "timed out"}, Goto(t, s),
             UNCHANGED <<ready, uxPriority, xTasksWaitingToReceive,
                         xInheritanceOccurred>>
      PROVE  PInv'
  BY <1>1, <1>3, GoesOn DEF Steps
<1>4. CASE ~ due[t] /\ h # None
  <2>1. /\ xInheritanceOccurred' = [xInheritanceOccurred EXCEPT ![t] =
               uxPriority[h] < uxPriority[t] \/
               uxBasePriority[h] < uxPriority[t]]
        /\ uxPriority' = Inherited(h, t)
        /\ xTasksWaitingToReceive' =
             [xTasksWaitingToReceive EXCEPT ![m] = Inserted(list, t)]
        /\ Goto(t, "yield")
    BY <1>4 DEF Block
  <2>2. pc'[t] = "yield" /\ \A u \in Tasks \ {t} : pc'[u] = pc[u]
    BY <2>1, GotoFacts DEF Steps
  <2>3. /\ uxPriority \in [Tasks -> Nat] /\ uxBasePriority \in [Tasks -> Nat]
        /\ h \in Tasks /\ list \in Seq(Tasks) /\ IsInjective(list)
        /\ Sorted(list) /\ uxPriority[h] >= uxBasePriority[h]
        /\ \A u \in ToSet(list) : u \in Tasks \ ready /\ u # h
    BY <1>2, <1>4, PriorityFacts
  <2>4. /\ t \notin ToSet(list)
        /\ Inserted(list, t) \in Seq(Tasks)
        /\ ToSet(Inserted(list, t)) = ToSet(list) \cup {t}
        /\ Sorted(Inserted(list, t))
    BY <1>2, <2>3, InsertedFacts
  <2>5. /\ xTasksWaitingToReceive'[m] = Inserted(list, t)
        /\ \A n \in Mutexes : n = m
    BY <1>2, <2>1 DEF IInv, EventLists, Alone
  <2>6. /\ xInheritanceOccurred'[t] = (uxPriority[h] < uxPriority[t] \/
                                       uxBasePriority[h] < uxPriority[t])
        /\ \A u \in Tasks \ {t} :
             xInheritanceOccurred'[u] = xInheritanceOccurred[u]
    BY <2>1 DEF IInv, Types
  <2>7. /\ uxPriority'[h] = IF uxPriority[h] < uxPriority[t]
                            THEN uxPriority[t] ELSE uxPriority[h]
        /\ \A u \in Tasks \ {h} : uxPriority'[u] = uxPriority[u]
    BY <2>1, <2>3 DEF Inherited
  <2> HIDE DEF m, h, list
  <2>8. /\ uxPriority'[h] >= uxPriority[h] /\ uxPriority'[h] >= uxPriority[t]
        /\ uxPriority'[h] \in Nat
    BY <2>3, <2>7
  <2>9. \A u \in ToSet(Inserted(list, t)) :
          u \in Tasks /\ u # h /\ uxPriority'[u] = uxPriority[u]
    BY <1>2, <2>3, <2>4, <2>7 DEF h
  <2>10. HolderIsUrgent'
    <3>1. ASSUME NEW u \in ToSet(list)
          PROVE  uxPriority'[h] >= uxPriority[u]
      <4>1. uxPriority[h] >= uxPriority[u]
        BY <1>2, <1>4
           DEF PInv, InheritsPriority, HolderIsUrgent, h, list
      <4>2. QED
        BY <2>3, <2>8, <4>1
    <3>2. \A u \in ToSet(Inserted(list, t)) :
            uxPriority'[h] >= uxPriority'[u]
      BY <2>4, <2>8, <2>9, <3>1
    <3>3. QED
      BY <1>1, <2>5, <3>2 DEF HolderIsUrgent, h
  <2>11. EventListIsSorted'
    <3>1. \A i, j \in DOMAIN Inserted(list, t) :
            i < j => uxPriority'[Inserted(list, t)[i]]
                       >= uxPriority'[Inserted(list, t)[j]]
      BY <2>4, <2>9, SortedStays
    <3>2. QED
      BY <2>5, <3>1 DEF EventListIsSorted
  <2>12. PriorityIsJustified'
    <3> SUFFICES ASSUME NEW x \in Tasks, uxPriority'[x] # uxBasePriority[x]
                 PROVE  \E u \in Tasks \ {x} :
                          /\ wanted[u] # None /\ xMutexHolder[wanted[u]] = x
                          /\ xInheritanceOccurred'[u]
                          /\ uxPriority'[u] = uxPriority'[x]
      BY <1>1 DEF PriorityIsJustified
    <3>1. x = h
      BY <1>2, <2>7, OwnPriorities DEF h
    <3>2. /\ t # h /\ uxPriority'[t] = uxPriority[t] /\ wanted[t] # None
          /\ xMutexHolder[wanted[t]] = h
      BY <1>2, <2>7 DEF m, h
    <3>3. CASE uxPriority[h] < uxPriority[t]
      BY <2>6, <2>7, <3>1, <3>2, <3>3
    <3>4. CASE ~ (uxPriority[h] < uxPriority[t])
      <4>1. uxPriority'[h] = uxPriority[h]
        BY <2>7, <3>4
      <4>2. PICK u \in Tasks \ {h} :
              /\ wanted[u] # None /\ xMutexHolder[wanted[u]] = h
              /\ xInheritanceOccurred[u]
              /\ uxPriority[u] = uxPriority[h]
        BY <2>3, <3>1, <4>1
           DEF PInv, InheritsPriority, PriorityIsJustified
      <4>3. CASE u = t
        <5>1. uxBasePriority[h] < uxPriority[t]
          BY <2>3, <3>1, <4>1, <4>2, <4>3
        <5>2. QED
          BY <2>6, <3>1, <3>2, <4>1, <4>2, <4>3, <5>1
      <4>4. CASE u # t
        BY <2>6, <2>7, <3>1, <4>1, <4>2, <4>4
      <4>5. QED
        BY <4>3, <4>4
    <3>5. QED
      BY <3>3, <3>4
  <2>13. Noted'
    <3>1. \A u \in Tasks : uxPriority'[u] >= uxBasePriority[u]
      <4>1. uxPriority'[h] >= uxBasePriority[h]
        BY <2>3, <2>8
      <4>2. QED
        BY <2>7, <4>1, PriorityFacts
    <3>2. ASSUME NEW u \in Tasks
          PROVE  /\ pc'[u] = "block" \/ xInheritanceOccurred'[u] =>
                      wait'[u] # "none"
                 /\ xInheritanceOccurred'[u] => wanted'[u] # None
      <4>1. CASE u = t
        BY <1>1, <1>2, <4>1 DEF m
      <4>2. CASE u # t
        BY <1>1, <2>2, <2>6, <4>2 DEF PInv, Noted
      <4>3. QED
        BY <4>1, <4>2
    <3>3. ASSUME NEW u \in ToSet(Inserted(list, t)),
                 uxPriority'[u] > uxBasePriority[h]
          PROVE  xInheritanceOccurred'[u]
      <4>1. uxPriority[u] > uxBasePriority[h]
        BY <2>9, <3>3
      <4>2. CASE u = t
        BY <2>3, <2>6, <4>1, <4>2
      <4>3. CASE u # t
        <5>1. u \in ToSet(list)
          BY <2>4, <4>3
        <5>2. xInheritanceOccurred[u]
          BY <1>2, <1>4, <4>1, <5>1 DEF PInv, Noted, h, list
        <5>3. QED
          BY <2>6, <2>9, <4>3, <5>2
      <4>4. QED
        BY <4>2, <4>3
    <3>4. QED
      BY <1>1, <2>5, <3>1, <3>2, <3>3 DEF Noted, h
  <2>14. TakersAreUrgent'
    BY <1>1, <1>4, <2>5 DEF TakersAreUrgent, h
  <2>15. QED
    BY <2>10, <2>11, <2>12, <2>13, <2>14 DEF PInv, InheritsPriority
<1>5. QED
  BY <1>3, <1>4 DEF Block

(* The holder keeps the priority of the most urgent task still waiting. *)
LEMMA DisinheritUrgent ==
  ASSUME IInv, PInv, Alone, NEW t \in Tasks, DisinheritAfterTimeout(t)
  PROVE  PInv'
<1> DEFINE m == wanted[t]
           h == xMutexHolder[m]
           list == xTasksWaitingToReceive[m]
<1>1. /\ current = t /\ pc[t] = "disinherit" /\ ~ xYieldPending
      /\ Return(t, TRUE)
      /\ UNCHANGED <<current, ready, xYieldPending, xMutexHolder,
                     xTasksWaitingToReceive>>
  BY DEF DisinheritAfterTimeout, At, mutex
<1>2. m \in Mutexes /\ m # None /\ t \in ready
  BY <1>1, Caller
<1>3. /\ pc'[t] = "run" /\ wanted'[t] = None
      /\ wait'[t] = "none" /\ ~ xInheritanceOccurred'[t]
      /\ \A u \in Tasks \ {t} :
           /\ pc'[u] = pc[u] /\ wanted'[u] = wanted[u]
           /\ wait'[u] = wait[u]
           /\ xInheritanceOccurred'[u] = xInheritanceOccurred[u]
  BY <1>1, ReturnFacts
<1>4. CASE h = None
  <2>1. uxPriority' = uxPriority
    BY <1>4 DEF DisinheritAfterTimeout
  <2>2. QED
    BY <1>1, <1>2, <1>3, <1>4, <2>1, CallerPasses
<1>5. CASE h # None
  <2>1. /\ uxPriority \in [Tasks -> Nat] /\ uxBasePriority \in [Tasks -> Nat]
        /\ h \in Tasks /\ list \in Seq(Tasks) /\ Sorted(list)
        /\ uxPriority[h] >= uxBasePriority[h]
        /\ \A u \in ToSet(list) :
             u \in Tasks \ ready /\ wanted[u] = m /\ u # h
        /\ \A n \in Mutexes : n = m
    BY <1>2, <1>5, PriorityFacts DEF Alone
  <2>2. uxPriority' = [uxPriority EXCEPT ![h] =
                         Max({uxBasePriority[h], Highest(m)})]
    <3>1. uxMutexesHeld[h] = 1
      BY <1>2, <2>1, HoldsOne
    <3>2. QED
      BY <1>5, <3>1 DEF DisinheritAfterTimeout
  <2>3. uxBasePriority[h] \in Nat /\ Highest(m) \in Nat
    BY <1>2, <2>1, HighestFacts
  <2>4. Max({uxBasePriority[h], Highest(m)}) =
          IF uxBasePriority[h] >= Highest(m) THEN uxBasePriority[h]
                                             ELSE Highest(m)
    BY <2>3, MaxOfTwo
  <2>5. /\ uxPriority'[h] = IF uxBasePriority[h] >= Highest(m)
                            THEN uxBasePriority[h] ELSE Highest(m)
        /\ \A u \in Tasks \ {h} : uxPriority'[u] = uxPriority[u]
    BY <2>1, <2>2, <2>4
  <2>6. uxPriority'[h] >= uxBasePriority[h] /\ uxPriority'[h] >= Highest(m)
    BY <2>3, <2>5
  <2> HIDE DEF m, h, list
  <2>7. ASSUME NEW u \in ToSet(list)
        PROVE  /\ list # <<>> /\ Highest(m) >= uxPriority[u]
               /\ Highest(m) = uxPriority[Head(list)]
    BY <2>1, HeadIsUrgent DEF Highest, list
  <2>8. \A u \in ToSet(list) :
          u \in Tasks /\ u # h /\ u # t /\ uxPriority'[u] = uxPriority[u]
    BY <1>2, <2>1, <2>5
  <2>9. HolderIsUrgent'
    <3>1. ASSUME NEW u \in ToSet(list)
          PROVE  uxPriority'[h] >= uxPriority'[u]
      <4>1. Highest(m) >= uxPriority[u] /\ uxPriority[u] \in Nat
        BY <2>1, <2>7
      <4>2. uxPriority'[h] \in Nat
        BY <2>3, <2>5
      <4>3. QED
        BY <2>3, <2>6, <2>8, <4>1, <4>2
    <3>2. QED
      BY <1>1, <2>1, <3>1 DEF HolderIsUrgent, h, list
  <2>10. EventListIsSorted'
    <3>1. \A i, j \in DOMAIN list :
            i < j => uxPriority'[list[i]] >= uxPriority'[list[j]]
      BY <2>1, <2>8, SortedStays
    <3>2. QED
      BY <1>1, <2>1, <3>1 DEF EventListIsSorted, list
  <2>11. PriorityIsJustified'
    <3> SUFFICES ASSUME NEW x \in Tasks, uxPriority'[x] # uxBasePriority[x]
                 PROVE  \E u \in Tasks \ {x} :
                          /\ wanted'[u] # None /\ xMutexHolder[wanted'[u]] = x
                          /\ xInheritanceOccurred'[u]
                          /\ uxPriority'[u] = uxPriority'[x]
      BY <1>1 DEF PriorityIsJustified
    <3>1. x = h
      BY <1>2, <2>5, OwnPriorities DEF h
    <3>2. uxPriority'[h] = Highest(m) /\ Highest(m) > uxBasePriority[h]
      BY <2>3, <2>5, <3>1
    <3>3. list # <<>>
      <4>1. SUFFICES ASSUME list = <<>>
                     PROVE  FALSE
        OBVIOUS
      <4>2. Highest(m) = uxBasePriority[Idle]
        BY <4>1 DEF Highest, list
      <4>3. h # Idle
        BY <2>3, <3>2, <4>2
      <4>4. uxBasePriority[h] > uxBasePriority[Idle]
        BY <2>1, <4>3, KernelMutexAssumption
      <4>5. QED
        BY <2>3, <3>2, <4>2, <4>4
    <3> DEFINE u == Head(list)
    <3>4. u \in ToSet(list) /\ Highest(m) = uxPriority[u]
      BY <1>2, <3>3, HighestFacts DEF Highest, list
    <3> HIDE DEF u
    <3>5. /\ u \in Tasks /\ u # h /\ u # t /\ wanted[u] = m
          /\ uxPriority'[u] = uxPriority[u]
      BY <2>1, <2>8, <3>4
    <3>6. xInheritanceOccurred[u]
      BY <1>2, <1>5, <3>2, <3>4 DEF PInv, Noted, h, list
    <3>7. QED
      BY <1>2, <1>3, <3>1, <3>2, <3>4, <3>5, <3>6 DEF h
  <2>12. Noted'
    <3>1. ASSUME NEW u \in Tasks
          PROVE  /\ uxPriority'[u] >= uxBasePriority[u]
                 /\ pc'[u] = "block" \/ xInheritanceOccurred'[u] =>
                      wait'[u] # "none"
                 /\ xInheritanceOccurred'[u] => wanted'[u] # None
      <4>1. uxPriority'[u] >= uxBasePriority[u]
        BY <2>5, <2>6, PriorityFacts
      <4>2. CASE u = t
        BY <1>3, <4>1, <4>2
      <4>3. CASE u # t
        BY <1>3, <4>1, <4>3 DEF PInv, Noted
      <4>4. QED
        BY <4>2, <4>3
    <3>2. ASSUME NEW u \in ToSet(list), uxPriority'[u] > uxBasePriority[h]
          PROVE  xInheritanceOccurred'[u]
      <4>1. uxPriority[u] > uxBasePriority[h]
        BY <2>8, <3>2
      <4>2. xInheritanceOccurred[u]
        BY <1>2, <1>5, <4>1 DEF PInv, Noted, h, list
      <4>3. QED
        BY <1>3, <2>8, <4>2
    <3>3. QED
      BY <1>1, <2>1, <3>1, <3>2 DEF Noted, h, list
  <2>13. TakersAreUrgent'
    BY <1>1, <1>5, <2>1 DEF TakersAreUrgent, h
  <2>14. QED
    BY <2>9, <2>10, <2>11, <2>12, <2>13 DEF PInv, InheritsPriority
<1>6. QED
  BY <1>4, <1>5

(* The holder gives its priority back with the mutex; the task it wakes is *)
(* as urgent as any that still wait, and runs unless the giver is, too.    *)
LEMMA GiveUrgent ==
  ASSUME IInv, PInv, Alone, NEW t \in Tasks, NEW m \in Mutexes,
         GiveRecursive(t, m)
  PROVE  PInv'
<1> DEFINE list == xTasksWaitingToReceive[m]
<1>1. /\ current = t /\ pc[t] = "run" /\ ~ xYieldPending
      /\ xMutexHolder[m] = t
      /\ UNCHANGED <<current, pc, wanted, wait, xInheritanceOccurred>>
  BY DEF GiveRecursive, At, call
<1>2. t \in ready /\ wanted[t] = None /\ t # None /\ \A n \in Mutexes : n = m
  BY <1>1, Caller, KernelMutexAssumption DEF Alone
<1>3. ~ xInheritanceOccurred[t]
  BY <1>2 DEF PInv, Noted
<1>4. CASE uxRecursiveCallCount[m] # 1
  <2>1. UNCHANGED <<xMutexHolder, uxPriority, ready, xTasksWaitingToReceive,
                    xYieldPending>>
    BY <1>4 DEF GiveRecursive
  <2>2. QED
    BY <1>1, <1>2, <1>3, <2>1, CallerPasses DEF PInv, Noted
<1>5. CASE uxRecursiveCallCount[m] = 1
  <2>1. Free(t, m)
    BY <1>5 DEF GiveRecursive
  <2>2. /\ uxPriority \in [Tasks -> Nat] /\ uxBasePriority \in [Tasks -> Nat]
        /\ xMutexHolder \in [Mutexes -> Tasks \cup {None}]
        /\ list \in Seq(Tasks) /\ IsInjective(list) /\ Sorted(list)
        /\ \A u \in ToSet(list) : u \in Tasks \ ready /\ u # t
    BY <1>2, PriorityFacts
  <2>3. xMutexHolder'[m] = None
    BY <2>1, <2>2 DEF Free
  <2>4. /\ uxPriority'[t] = uxBasePriority[t]
        /\ \A u \in Tasks \ {t} : uxPriority'[u] = uxPriority[u]
    <3>1. uxMutexesHeld[t] = 1
      BY <1>1, HoldsOne
    <3>2. uxPriority' = Disinherited(t)
      BY <2>1 DEF Free
    <3>3. QED
      BY <2>2, <3>1, <3>2 DEF Disinherited
  <2>5. \A u \in Tasks : uxPriority'[u] = uxBasePriority[u]
    BY <1>1, <2>4, OwnPriorities
  <2>6. HolderIsUrgent'
    BY <1>2, <2>3 DEF HolderIsUrgent
  <2>7. PriorityIsJustified'
    BY <2>5 DEF PriorityIsJustified
  <2>8. Noted'
    <3>1. \A u \in Tasks : uxPriority'[u] >= uxBasePriority[u]
      BY <2>2, <2>5
    <3>2. QED
      BY <1>1, <1>2, <2>3, <3>1 DEF PInv, Noted
  <2>9. CASE /\ list = <<>>
             /\ xTasksWaitingToReceive' = xTasksWaitingToReceive
    <3>1. xTasksWaitingToReceive'[m] = <<>>
      BY <2>9
    <3>2. DOMAIN <<>> = {}
      OBVIOUS
    <3>3. EventListIsSorted'
      BY <1>2, <3>1, <3>2 DEF EventListIsSorted
    <3>4. TakersAreUrgent'
      BY <1>2, <3>1 DEF TakersAreUrgent
    <3>5. QED
      BY <2>6, <2>7, <2>8, <3>3, <3>4 DEF PInv, InheritsPriority
  <2>10. CASE ~ (/\ list = <<>>
                 /\ xTasksWaitingToReceive' = xTasksWaitingToReceive)
    <3>1. PICK h \in ToSet(list) :
            /\ list # <<>> /\ h = Head(list)
            /\ h \in Tasks \ ready /\ h # t /\ wanted[h] = m
            /\ xTasksWaitingToReceive'[m] = Tail(list)
            /\ ready' = ready \cup {h}
            /\ xYieldPending' = (uxPriority'[h] > uxPriority'[t])
      BY <1>2, <2>1, <2>10, FreeFacts
    <3>2. /\ Tail(list) \in Seq(Tasks) /\ Sorted(Tail(list))
          /\ ToSet(Tail(list)) \subseteq ToSet(list) \ {h}
          /\ \A u \in ToSet(Tail(list)) : uxPriority[h] >= uxPriority[u]
      BY <2>2, <3>1, TailFacts
    <3> HIDE DEF list
    <3>3. \A u \in ToSet(Tail(list)) :
            u \in Tasks /\ uxPriority'[u] = uxPriority[u]
      BY <2>2, <2>4, <3>2
    <3>4. EventListIsSorted'
      <4>1. \A i, j \in DOMAIN Tail(list) :
              i < j => uxPriority'[Tail(list)[i]] >= uxPriority'[Tail(list)[j]]
        BY <3>2, <3>3, SortedStays
      <4>2. QED
        BY <1>2, <3>1, <4>1 DEF EventListIsSorted
    <3>5. \A u \in ToSet(Tail(list)) : uxPriority'[h] >= uxPriority'[u]
      BY <2>4, <3>1, <3>2, <3>3
    <3>6. ASSUME ~ xYieldPending', NEW u \in ToSet(Tail(list))
          PROVE  uxPriority'[t] >= uxPriority'[u]
      <4>1. ~ (uxPriority'[h] > uxPriority'[t])
        BY <3>1, <3>6
      <4>2. /\ uxPriority'[h] \in Nat /\ uxPriority'[t] \in Nat
            /\ uxPriority'[u] \in Nat
        BY <2>2, <2>5, <3>1, <3>3
      <4>3. uxPriority'[h] >= uxPriority'[u]
        BY <3>5, <3>6
      <4>4. QED
        BY <4>1, <4>2, <4>3
    <3>7. pc[h] # "disinherit"
      BY <3>1 DEF IInv, Places
    <3>8. TakersAreUrgent'
      BY <1>1, <1>2, <3>1, <3>5, <3>6, <3>7 DEF TakersAreUrgent
    <3>9. QED
      BY <2>6, <2>7, <2>8, <3>4, <3>8 DEF PInv, InheritsPriority
  <2>11. QED
    BY <2>9, <2>10
<1>6. QED
  BY <1>4, <1>5

(* The most urgent ready task is as urgent as the one that was woken. *)
LEMMA SwitchUrgent ==
  ASSUME IInv, PInv, Switch
  PROVE  PInv'
<1>1. /\ current' \in ready
      /\ \A u \in ready : uxPriority[current'] >= uxPriority[u]
      /\ UNCHANGED <<ready, uxPriority, xMutexHolder, xTasksWaitingToReceive,
                     pc, wanted, wait, xInheritanceOccurred>>
  BY DEF Switch, mutex, call
<1>2. InheritsPriority'
  BY <1>1 DEF PInv, InheritsPriority, HolderIsUrgent, PriorityIsJustified,
              EventListIsSorted
<1>3. Noted'
  BY <1>1 DEF PInv, Noted
<1>4. TakersAreUrgent'
  <2> SUFFICES ASSUME NEW m \in Mutexes, xMutexHolder[m] = None,
                      xTasksWaitingToReceive[m] # <<>>
               PROVE  /\ \E t \in ready :
                           /\ wanted[t] = m /\ pc[t] # "disinherit"
                           /\ \A u \in ToSet(xTasksWaitingToReceive[m]) :
                                uxPriority[t] >= uxPriority[u]
                      /\ \A u \in ToSet(xTasksWaitingToReceive[m]) :
                           uxPriority[current'] >= uxPriority[u]
    BY <1>1 DEF TakersAreUrgent
  <2>1. PICK t \in ready :
          /\ wanted[t] = m /\ pc[t] # "disinherit"
          /\ \A u \in ToSet(xTasksWaitingToReceive[m]) :
               uxPriority[t] >= uxPriority[u]
    BY DEF PInv, TakersAreUrgent
  <2>2. ASSUME NEW u \in ToSet(xTasksWaitingToReceive[m])
        PROVE  uxPriority[current'] >= uxPriority[u]
    <3>1. /\ uxPriority[current'] \in Nat /\ uxPriority[t] \in Nat
          /\ uxPriority[u] \in Nat
      <4>1. current' \in Tasks /\ t \in Tasks /\ u \in Tasks
        BY <1>1, PriorityFacts DEF IInv, Types
      <4>2. QED
        BY <4>1, PriorityFacts
    <3>2. /\ uxPriority[current'] >= uxPriority[t]
          /\ uxPriority[t] >= uxPriority[u]
      BY <1>1, <2>1
    <3>3. QED
      BY <3>1, <3>2
  <2>3. QED
    BY <2>1, <2>2
<1>5. QED
  BY <1>2, <1>3, <1>4 DEF PInv

(* Tasks whose time is up leave the lists. *)
LEMMA TickUrgent ==
  ASSUME IInv, PInv, NEW D \in SUBSET Tasks, Tick(D)
  PROVE  PInv'
<1>1. /\ ready' = ready \cup D
      /\ xTasksWaitingToReceive' =
           [m \in Mutexes |-> Without(xTasksWaitingToReceive[m], D)]
      /\ xYieldPending => xYieldPending'
      /\ UNCHANGED <<current, uxPriority, xMutexHolder, pc, wanted, wait,
                     xInheritanceOccurred>>
  BY DEF Tick, mutex
<1>2. ASSUME NEW m \in Mutexes
      PROVE  /\ Sorted(xTasksWaitingToReceive'[m])
             /\ ToSet(xTasksWaitingToReceive'[m])
                  \subseteq ToSet(xTasksWaitingToReceive[m])
             /\ xTasksWaitingToReceive'[m] # <<>> =>
                  xTasksWaitingToReceive[m] # <<>>
  <2> DEFINE list == xTasksWaitingToReceive[m]
  <2>1. list \in Seq(Tasks) /\ IsInjective(list) /\ Sorted(list)
    BY PriorityFacts
  <2>2. /\ Sorted(Without(list, D))
        /\ ToSet(Without(list, D)) \subseteq ToSet(list)
        /\ Without(list, D) # <<>> => list # <<>>
    BY <2>1, WithoutFacts
  <2> HIDE DEF list
  <2>3. xTasksWaitingToReceive'[m] = Without(list, D)
    BY <1>1 DEF list
  <2>4. QED
    BY <2>2, <2>3 DEF list
<1>3. HolderIsUrgent' /\ PriorityIsJustified'
  BY <1>1, <1>2
     DEF PInv, InheritsPriority, HolderIsUrgent, PriorityIsJustified
<1>4. EventListIsSorted'
  BY <1>1, <1>2 DEF EventListIsSorted, Sorted
<1>5. Noted'
  BY <1>1, <1>2 DEF PInv, Noted
<1>6. TakersAreUrgent'
  <2> SUFFICES ASSUME NEW m \in Mutexes, xMutexHolder[m] = None,
                      xTasksWaitingToReceive'[m] # <<>>
               PROVE  /\ \E t \in ready' :
                           /\ wanted[t] = m /\ pc[t] # "disinherit"
                           /\ \A u \in ToSet(xTasksWaitingToReceive'[m]) :
                                uxPriority[t] >= uxPriority[u]
                      /\ xYieldPending' \/ pc[current] = "yield" \/
                         \A u \in ToSet(xTasksWaitingToReceive'[m]) :
                           uxPriority[current] >= uxPriority[u]
    BY <1>1 DEF TakersAreUrgent
  <2>1. PICK t \in ready :
          /\ wanted[t] = m /\ pc[t] # "disinherit"
          /\ \A u \in ToSet(xTasksWaitingToReceive[m]) :
               uxPriority[t] >= uxPriority[u]
    BY <1>2 DEF PInv, TakersAreUrgent
  <2>2. xYieldPending \/ pc[current] = "yield" \/
        \A u \in ToSet(xTasksWaitingToReceive[m]) :
          uxPriority[current] >= uxPriority[u]
    BY <1>2 DEF PInv, TakersAreUrgent
  <2>3. QED
    BY <1>1, <1>2, <2>1, <2>2
<1>7. QED
  BY <1>3, <1>4, <1>5, <1>6 DEF PInv, InheritsPriority

(* While there is one mutex, its holder has the priority of its most       *)
(* urgent waiter and no longer than that one waits; the list of waiters is *)
(* sorted.  With several, the kernel promises less, and the run with two   *)
(* shows how.                                                              *)
THEOREM PrioritiesAreInherited ==
  ASSUME Alone
  PROVE  Spec => []InheritsPriority
<1>1. Init => PInv
  <2> SUFFICES ASSUME Init
               PROVE  PInv
    OBVIOUS
  <2>1. \A m \in Mutexes : /\ xMutexHolder[m] = None
                           /\ xTasksWaitingToReceive[m] = <<>>
    BY DEF Init
  <2>2. DOMAIN <<>> = {}
    OBVIOUS
  <2>3. InheritsPriority
    BY <2>1, <2>2 DEF Init, InheritsPriority, HolderIsUrgent,
                      PriorityIsJustified, EventListIsSorted
  <2>4. Noted
    <3>1. \A t \in Tasks : uxBasePriority[t] >= uxBasePriority[t]
      BY KernelMutexAssumption
    <3>2. QED
      BY <2>1, <3>1 DEF Init, Noted
  <2>5. TakersAreUrgent
    BY <2>1 DEF TakersAreUrgent
  <2>6. QED
    BY <2>3, <2>4, <2>5 DEF PInv
<1>2. IInv /\ PInv /\ [Next]_vars => PInv'
  <2> SUFFICES ASSUME IInv, PInv, [Next]_vars
               PROVE  PInv'
    OBVIOUS
  <2>1. CASE Switch \/ \E D \in SUBSET Tasks : Tick(D)
    BY <2>1, SwitchUrgent, TickUrgent
  <2>2. ASSUME NEW t \in Tasks, Delay(t) \/ Kernel(t)
        PROVE  PInv'
    BY <2>2, RestUrgent, TakeUrgent, TurnedAwayUrgent, BlockUrgent,
       DisinheritUrgent DEF Kernel
  <2>3. ASSUME NEW t \in Tasks,
               \/ \E m \in Mutexes, w \in Waits : TakeRecursive(t, m, w)
               \/ \E m \in Mutexes : GiveRecursive(t, m)
        PROVE  PInv'
    BY <2>3, TakeRecursiveUrgent, GiveUrgent
  <2>4. CASE UNCHANGED vars
    <3>1. UNCHANGED <<current, ready, xYieldPending, uxPriority, xMutexHolder,
                      xTasksWaitingToReceive, pc, wanted, wait,
                      xInheritanceOccurred>>
      BY <2>4 DEF vars, mutex, call
    <3>2. InheritsPriority'
      BY <3>1 DEF PInv, InheritsPriority, HolderIsUrgent,
                  PriorityIsJustified, EventListIsSorted
    <3>3. Noted' /\ TakersAreUrgent'
      BY <3>1 DEF PInv, Noted, TakersAreUrgent
    <3>4. QED
      BY <3>2, <3>3 DEF PInv
  <2>5. QED
    BY <2>1, <2>2, <2>3, <2>4 DEF Next
<1>3. PInv => InheritsPriority
  BY DEF PInv
<1>4. QED
  BY <1>1, <1>2, <1>3, MutexInvariant, PTL DEF Spec

=============================================================================
