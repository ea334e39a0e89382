---------------------------- MODULE SpiBusProofs ----------------------------
(***************************************************************************)
(* Proofs about the bus of spi.c, for any number of tasks and devices, any *)
(* nesting and any FIFO depth.                                             *)
(***************************************************************************)
EXTENDS SpiBus, FiniteSetTheorems, SequenceTheorems, TLAPS

-----------------------------------------------------------------------------
(* The inductive invariant: either nobody has the bus and everything is at *)
(* rest, or one task has it and all the others are outside or waiting.     *)

(* u has nothing open and is at most waiting for the mutex. *)
Away(u) ==
  /\ open[u] = <<>>
  /\ pc[u] \in {"idle", "mutex", "take"}
  /\ pc[u] # "idle" => running
  /\ pc[u] = "take" => created

(* Before the scheduler runs only the boot context moves, afterwards it    *)
(* never does.                                                             *)
BootFirst ==
  /\ ~running => \A u \in Tasks \ {Boot} : pc[u] = "idle" /\ open[u] = <<>>
  /\ running => pc[Boot] = "idle" /\ open[Boot] = <<>>

(* The recursive mutex: not even created before the scheduler runs. *)
OwnedBy(h) ==
  IF running THEN h # Boot /\ created /\ owner = h /\ count = Holds(h)
  ELSE h = Boot /\ ~created /\ owner = None /\ count = 0

(* Where the call of h stands, and what that call is about. *)
CallOf(h) ==
  /\ pc[h] \in {"mutex", "take"} => running
  /\ pc[h] \in {"select", "assert_cs", "depth", "release_cs"} =>
       target[h] # None
  /\ pc[h] \in {"release_cs", "give", "sent", "answer"} => open[h] # <<>>
  /\ pc[h] \in {"release_cs", "give"} => target[h] = Top(h)

(* Everything h has selected is the one device the bus knows of, and so is *)
(* what it is about to select; but for the last deselection's end.         *)
OneDevice(h) ==
  /\ \/ pc[h] = "give" /\ select_depth = 0
     \/ \A i \in Marks(open[h]) : open[h][i] = selected
  /\ /\ pc[h] \in {"mutex", "take", "select", "assert_cs", "depth", "opened"}
     /\ target[h] # None /\ Marks(open[h]) # {}
     => target[h] = selected
  /\ pc[h] = "opened" /\ target[h] # None => target[h] = selected

(* The depth and the chip select, at each step of h. *)
ChipSelect(h) ==
  /\ select_depth = Selections(h)
  /\ pc[h] = "assert_cs" =>
       select_depth = 0 /\ selected = target[h] /\ low = {}
  /\ pc[h] = "depth" => selected = target[h] /\ low = {selected}
  /\ pc[h] = "release_cs" =>
       select_depth = 0 /\ selected = target[h] /\ low = {selected}
  /\ pc[h] \notin {"assert_cs", "depth", "release_cs"} =>
       IF select_depth = 0 THEN selected = None /\ low = {}
       ELSE selected # None /\ low = {selected}

(* The bytes on their way are those of h, for what is selected. *)
BytesOf(h) ==
  \A i \in DOMAIN tx :
    /\ tx[i].task = h
    /\ tx[i].dev = selected
    /\ \/ pc[h] \in {"sent", "release_cs"}
       \/ select_depth > 0

(* While a device is selected whose driver exchanges bytes, both FIFOs are *)
(* empty but for the byte being exchanged.                                 *)
Quiet(h) ==
  /\ pc[h] = "answer" => selected \in Devices \ Streaming
  /\ selected \in Devices \ Streaming =>
       \/ pc[h] # "answer" /\ tx = <<>> /\ rx = <<>>
       \/ pc[h] = "answer" /\ tx = <<>> /\ rx = <<h>>
       \/ pc[h] = "answer" /\ Len(tx) = 1 /\ rx = <<>>

Free ==
  /\ \A u \in Tasks : Away(u)
  /\ owner = None /\ count = 0
  /\ created => running
  /\ select_depth = 0 /\ selected = None /\ low = {} /\ tx = <<>>

Held(h) ==
  /\ Holds(h) > 0
  /\ \A u \in Tasks \ {h} : Away(u)
  /\ OwnedBy(h)
  /\ CallOf(h)
  /\ OneDevice(h)
  /\ ChipSelect(h)
  /\ BytesOf(h)
  /\ Quiet(h)

IInv ==
  /\ TypeOK
  /\ BootFirst
  /\ Free \/ \E h \in Tasks : Held(h)

-----------------------------------------------------------------------------
(* Counting the selections in what a task has open. *)

(* Finitely many places of a sequence are selections. *)
LEMMA MarksCount ==
  ASSUME NEW S, NEW s \in Seq(S)
  PROVE  /\ IsFiniteSet(Marks(s)) /\ Cardinality(Marks(s)) \in Nat
         /\ (Cardinality(Marks(s)) = 0) <=> (Marks(s) = {})
<1>0. Len(s) \in Nat /\ DOMAIN s = 1 .. Len(s)
  BY LenProperties
<1>1. Marks(s) \in SUBSET (1 .. Len(s)) /\ IsFiniteSet(1 .. Len(s))
  BY <1>0, FS_Interval DEF Marks
<1>2. IsFiniteSet(Marks(s))
  BY <1>1, FS_Subset
<1>3. QED
  BY <1>2, FS_CardinalityType, FS_EmptySet

(* Opening counts if, and only if, it opens a device. *)
LEMMA MarksOpen ==
  ASSUME NEW S, NEW s \in Seq(S), NEW d \in S
  PROVE  /\ Marks(Append(s, d))
              = IF d = None THEN Marks(s) ELSE Marks(s) \cup {Len(s) + 1}
         /\ Cardinality(Marks(Append(s, d)))
              = Cardinality(Marks(s)) + (IF d = None THEN 0 ELSE 1)
<1>1. /\ Len(s) \in Nat /\ DOMAIN s = 1 .. Len(s)
      /\ DOMAIN Append(s, d) = 1 .. Len(s) + 1
      /\ \A i \in 1 .. Len(s) : Append(s, d)[i] = s[i]
      /\ Append(s, d)[Len(s) + 1] = d
  BY AppendProperties, LenProperties
<1>2. /\ Marks(s) \in SUBSET (1 .. Len(s)) /\ Len(s) + 1 \notin Marks(s)
      /\ Marks(Append(s, d))
           = IF d = None THEN Marks(s) ELSE Marks(s) \cup {Len(s) + 1}
  BY <1>1 DEF Marks
<1>3. /\ Cardinality(Marks(s)) \in Nat
      /\ Cardinality(Marks(s) \cup {Len(s) + 1}) = Cardinality(Marks(s)) + 1
  BY <1>2, MarksCount, FS_AddElement
<1>4. QED
  BY <1>2, <1>3

(* What is left when the last one is closed. *)
Closed(s) == SubSeq(s, 1, Len(s) - 1)

(* Closing counts if, and only if, it closes a device. *)
LEMMA MarksClose ==
  ASSUME NEW S, NEW s \in Seq(S), s # <<>>
  PROVE  /\ Closed(s) \in Seq(S) /\ Len(Closed(s)) = Len(s) - 1
         /\ (Closed(s) = <<>>) <=> (Len(s) = 1)
         /\ \A i \in Marks(Closed(s)) : i \in Marks(s) /\ Closed(s)[i] = s[i]
         /\ Cardinality(Marks(Closed(s)))
              = Cardinality(Marks(s))
                - (IF s[Len(s)] = None THEN 0 ELSE 1)
         /\ (s[Len(s)] # None) <=> (Len(s) \in Marks(s))
<1> DEFINE r == Closed(s)
<1>1. Len(s) \in Nat \ {0} /\ DOMAIN s = 1 .. Len(s)
  BY EmptySeq, LenProperties
<1>2. /\ r \in Seq(S) /\ Len(r) = Len(s) - 1
      /\ \A i \in 1 .. Len(s) - 1 : r[i] = s[i]
  <2>1. \A i \in 1 .. Len(s) - 1 : s[i] \in S
    BY <1>1, ElementOfSeq
  <2>2. 1 \in Int /\ Len(s) - 1 \in Int
    BY <1>1
  <2>3. /\ SubSeq(s, 1, Len(s) - 1) \in Seq(S)
        /\ Len(SubSeq(s, 1, Len(s) - 1))
             = IF 1 <= Len(s) - 1 THEN Len(s) - 1 - 1 + 1 ELSE 0
        /\ \A i \in 1 .. Len(s) - 1 - 1 + 1 :
             SubSeq(s, 1, Len(s) - 1)[i] = s[1 + i - 1]
    BY <2>1, <2>2, SubSeqProperties
  <2>4. QED
    BY <2>3, <1>1 DEF Closed
<1> HIDE DEF r
<1>3. DOMAIN r = 1 .. Len(s) - 1 /\ ((r = <<>>) <=> (Len(s) = 1))
  <2>1. DOMAIN r = 1 .. Len(s) - 1
    BY <1>2, LenProperties
  <2>2. (r = <<>>) <=> (Len(r) = 0)
    BY <1>2, EmptySeq
  <2>3. QED
    BY <2>1, <2>2, <1>1, <1>2
<1>4. Marks(r) = Marks(s) \ {Len(s)} /\ Marks(s) \in SUBSET (1 .. Len(s))
  BY <1>1, <1>2, <1>3 DEF Marks
<1>5. (s[Len(s)] # None) <=> (Len(s) \in Marks(s))
  BY <1>1 DEF Marks
<1>6. /\ Cardinality(Marks(s)) \in Nat
      /\ Cardinality(Marks(s) \ {Len(s)})
           = IF Len(s) \in Marks(s) THEN Cardinality(Marks(s)) - 1
             ELSE Cardinality(Marks(s))
  BY MarksCount, FS_RemoveElement
<1>7. \A i \in Marks(r) : i \in Marks(s) /\ r[i] = s[i]
  BY <1>1, <1>2, <1>3, <1>4
<1>8. QED
  BY <1>2, <1>3, <1>4, <1>5, <1>6, <1>7 DEF r

-----------------------------------------------------------------------------
(* Who takes a step. *)

(* A step of t inside the API leaves the other tasks alone. *)
Frame(t) ==
  /\ running' = running
  /\ created => created'
  /\ \A u \in Tasks \ {t} : pc'[u] = pc[u] /\ open'[u] = open[u]

(* A task that is not away is the one that has the bus. *)
LEMMA Caller ==
  ASSUME IInv, NEW t \in Tasks, ~Away(t)
  PROVE  Held(t)
BY DEF IInv, Free, Held

(* An empty receive FIFO, and one answer in it. *)
LEMMA EmptyFifo ==
  /\ <<>> \in Seq(Tasks) /\ Len(<<>>) = 0 /\ Len(<<>>) <= FifoDepth
  /\ 1 <= FifoDepth
BY EmptySeq, SpiBusAssumption

(* The selections a task has open, and the bytes on their way, as sets. *)
LEMMA TypeFacts ==
  ASSUME TypeOK, NEW t \in Tasks
  PROVE  /\ open[t] \in Seq(Devices \cup {None})
         /\ Cardinality(Marks(open[t])) \in Nat
         /\ (Cardinality(Marks(open[t])) = 0) <=> (Marks(open[t]) = {})
         /\ tx # <<>> => 1 \in DOMAIN tx
         /\ select_depth \in Nat /\ target[t] \in Devices \cup {None}
         /\ t # None /\ None \notin Devices
<1>1. open[t] \in Seq(Devices \cup {None})
  BY DEF TypeOK
<1>2. tx # <<>> => 1 \in DOMAIN tx
  <2> DEFINE S == [task : Tasks, dev : Devices \cup {None}]
  <2>1. tx \in Seq(S)
    BY DEF TypeOK
  <2> HIDE DEF S
  <2>2. Len(tx) \in Nat /\ DOMAIN tx = 1 .. Len(tx)
    BY <2>1, LenProperties
  <2>3. tx # <<>> => Len(tx) \in Nat \ {0}
    BY <2>1, EmptySeq
  <2>4. QED
    BY <2>2, <2>3
<1>3. QED
  BY <1>1, <1>2, MarksCount, SpiBusAssumption DEF TypeOK

(* What is selected by a task that is between two calls. *)
LEMMA CurrentFacts ==
  ASSUME TypeOK, NEW t \in Tasks
  PROVE  /\ Marks(open[t]) # {} => open[t] # <<>> /\ Current(t) = selected
         /\ Marks(open[t]) = {} => Current(t) = None
<1>1. DOMAIN <<>> = {}
  OBVIOUS
<1>2. Marks(open[t]) # {} => open[t] # <<>>
  BY <1>1 DEF Marks
<1>3. QED
  BY <1>2 DEF Marks, Current

(* Between two calls, the depth is what the holder has selected. *)
LEMMA IdleDepth ==
  ASSUME TypeOK, NEW t \in Tasks, Held(t), pc[t] = "idle"
  PROVE  /\ select_depth = Cardinality(Marks(open[t]))
         /\ select_depth \in Nat
         /\ (select_depth = 0) <=> (Marks(open[t]) = {})
         /\ IF select_depth = 0 THEN selected = None /\ low = {}
            ELSE selected # None /\ low = {selected}
<1>1. Selections(t) = Cardinality(Marks(open[t]))
  BY DEF Selections, Closing
<1>2. QED
  BY <1>1, TypeFacts DEF Held, ChipSelect

(* While nobody else moves, the task that has the bus carries over what it *)
(* knows, and nothing else is left to show.                                *)
LEMMA HolderMoves ==
  ASSUME IInv, NEW t \in Tasks, Held(t), Frame(t),
         TypeOK', Holds(t)' > 0, OwnedBy(t)', CallOf(t)', OneDevice(t)',
         ChipSelect(t)', BytesOf(t)', Quiet(t)'
  PROVE  IInv'
<1>1. \A u \in Tasks \ {t} : Away(u)'
  BY DEF Held, Away, Frame
<1>2. BootFirst'
  BY SpiBusAssumption DEF IInv, BootFirst, Held, OwnedBy, Frame
<1>3. Held(t)'
  BY <1>1 DEF Held
<1>4. QED
  BY <1>2, <1>3 DEF IInv

-----------------------------------------------------------------------------
(* The steps of the task that has the bus, one by one. *)

(* A select begins with the depth it finds. *)
LEMMA SelectCheckStep ==
  ASSUME IInv, NEW t \in Tasks, SelectCheck(t)
  PROVE  IInv'
<1>1. Held(t)
  BY Caller DEF SelectCheck, At, Away
<1>2. Frame(t)
  BY DEF SelectCheck, Goto, busVars, IInv, TypeOK, Frame
<1>3. /\ pc[t] = "select" /\ pc' = [pc EXCEPT ![t] = pc'[t]]
      /\ pc'[t] = IF select_depth = 0 THEN "assert_cs" ELSE "depth"
  BY DEF SelectCheck, At, Goto, IInv, TypeOK
<1>4. TypeOK'
  <2>1. pc' \in [Tasks -> Steps]
    BY <1>3 DEF SelectCheck, IInv, TypeOK, Steps
  <2>2. rx' \in Seq(Tasks) /\ Len(rx') <= FifoDepth
    BY EmptyFifo DEF SelectCheck, IInv, TypeOK
  <2>3. QED
    BY <2>1, <2>2 DEF SelectCheck, IInv, TypeOK, busVars
<1>5. TypeOK
  BY DEF IInv
<1>6. Holds(t)' > 0 /\ OwnedBy(t)'
  BY <1>1, <1>3 DEF SelectCheck, Held, OwnedBy, Holds, Opening, busVars
<1>7. CallOf(t)'
  BY <1>1, <1>3 DEF SelectCheck, Held, CallOf
<1>8. OneDevice(t)'
  BY <1>1, <1>3, <1>5, TypeFacts
     DEF SelectCheck, Held, OneDevice, ChipSelect, Selections, Closing
<1>9. ChipSelect(t)'
  BY <1>1, <1>3, <1>5, TypeFacts
     DEF SelectCheck, Held, ChipSelect, OneDevice, Selections, Closing, CallOf
<1>10. BytesOf(t)'
  BY <1>1, <1>3 DEF SelectCheck, Held, BytesOf
<1>11. Quiet(t)'
  <2>1. select_depth = 0 => tx = <<>>
    BY <1>1, <1>3, <1>5, TypeFacts DEF Held, BytesOf
  <2>2. select_depth # 0 => tx' = tx /\ rx' = rx /\ selected' = selected
    BY DEF SelectCheck
  <2>3. QED
    BY <1>1, <1>3, <2>1, <2>2 DEF SelectCheck, Held, Quiet
<1>12. QED
  BY <1>1, <1>2, <1>4, <1>6, <1>7, <1>8, <1>9, <1>10, <1>11, HolderMoves

(* The chip select goes low: it was high, and the device is selected. *)
LEMMA AssertCsStep ==
  ASSUME IInv, NEW t \in Tasks, AssertCs(t)
  PROVE  IInv'
<1>1. Held(t) /\ TypeOK
  BY Caller DEF AssertCs, At, Away, IInv
<1>2. /\ pc[t] = "assert_cs" /\ pc' = [pc EXCEPT ![t] = pc'[t]]
      /\ pc'[t] = "depth"
  BY <1>1 DEF AssertCs, At, Goto, TypeOK
<1>3. Frame(t)
  BY <1>1 DEF AssertCs, Goto, busVars, TypeOK, Frame
<1>4. TypeOK'
  <2>1. pc' \in [Tasks -> Steps]
    BY <1>1, <1>2 DEF TypeOK, Steps
  <2>2. target[t] \in Devices
    BY <1>1, <1>2, TypeFacts DEF Held, CallOf
  <2>3. QED
    BY <1>1, <2>1, <2>2 DEF AssertCs, TypeOK, busVars, hwVars
<1>5. Holds(t)' > 0 /\ OwnedBy(t)'
  BY <1>1, <1>2 DEF AssertCs, Held, OwnedBy, Holds, Opening, busVars
<1>6. CallOf(t)'
  BY <1>1, <1>2 DEF AssertCs, Held, CallOf, Top
<1>7. OneDevice(t)'
  BY <1>1, <1>2, TypeFacts
     DEF AssertCs, Held, OneDevice, ChipSelect, Selections, Closing, selVars
<1>8. ChipSelect(t)'
  BY <1>1, <1>2, TypeFacts
     DEF AssertCs, Held, ChipSelect, OneDevice, Selections, Closing, CallOf,
         selVars
<1>9. BytesOf(t)'
  BY <1>1, <1>2 DEF AssertCs, Held, BytesOf, ChipSelect, hwVars, selVars
<1>10. Quiet(t)'
  BY <1>1, <1>2 DEF AssertCs, Held, Quiet, hwVars, selVars
<1>11. QED
  BY <1>1, <1>3, <1>4, <1>5, <1>6, <1>7, <1>8, <1>9, <1>10, HolderMoves

(* The selection is counted, before the call that makes it returns. *)
LEMMA SelectDepthStep ==
  ASSUME IInv, NEW t \in Tasks, SelectDepth(t)
  PROVE  IInv'
<1>1. Held(t) /\ TypeOK
  BY Caller DEF SelectDepth, At, Away, IInv
<1>2. /\ pc[t] = "depth" /\ pc' = [pc EXCEPT ![t] = pc'[t]]
      /\ pc'[t] = "opened"
  BY <1>1 DEF SelectDepth, At, Goto, TypeOK
<1>3. Frame(t)
  BY <1>1 DEF SelectDepth, Goto, busVars, TypeOK, Frame
<1>4. TypeOK'
  <2>1. pc' \in [Tasks -> Steps]
    BY <1>1, <1>2 DEF TypeOK, Steps
  <2>2. QED
    BY <1>1, <2>1, TypeFacts DEF SelectDepth, TypeOK, busVars, selVars, hwVars
<1>5. Holds(t)' > 0 /\ OwnedBy(t)'
  BY <1>1, <1>2 DEF SelectDepth, Held, OwnedBy, Holds, Opening, busVars
<1>6. CallOf(t)'
  BY <1>1, <1>2 DEF SelectDepth, Held, CallOf, Top
<1>7. OneDevice(t)'
  BY <1>1, <1>2, TypeFacts
     DEF SelectDepth, Held, OneDevice, ChipSelect, Selections, Closing, selVars
<1>8. ChipSelect(t)'
  BY <1>1, <1>2, TypeFacts
     DEF SelectDepth, Held, ChipSelect, OneDevice, Selections, Closing, CallOf,
         selVars
<1>9. BytesOf(t)'
  <2>1. select_depth' = select_depth + 1 /\ select_depth \in Nat
    BY <1>1, TypeFacts DEF SelectDepth
  <2>2. QED
    BY <1>1, <2>1 DEF SelectDepth, Held, BytesOf, hwVars
<1>10. Quiet(t)'
  BY <1>1, <1>2 DEF SelectDepth, Held, Quiet, hwVars, selVars
<1>11. QED
  BY <1>1, <1>3, <1>4, <1>5, <1>6, <1>7, <1>8, <1>9, <1>10, HolderMoves

(* The call returns, and what it opened is open. *)
LEMMA OpenedStep ==
  ASSUME IInv, NEW t \in Tasks, Opened(t)
  PROVE  IInv'
<1>1. Held(t) /\ TypeOK
  BY Caller DEF Opened, At, Away, IInv
<1>2. /\ pc[t] = "opened" /\ pc' = [pc EXCEPT ![t] = "idle"]
      /\ pc'[t] = "idle"
      /\ open'[t] = Append(open[t], target[t])
  BY <1>1 DEF Opened, At, Goto, TypeOK
<1> DEFINE s == open[t]
           n == Cardinality(Marks(s))
<1>0. /\ s \in Seq(Devices \cup {None}) /\ Len(s) \in Nat
      /\ open'[t] \in Seq(Devices \cup {None}) /\ Len(open'[t]) = Len(s) + 1
      /\ \A i \in Marks(s) : open'[t][i] = s[i]
      /\ open'[t][Len(s) + 1] = target[t]
      /\ Marks(open'[t]) = IF target[t] = None THEN Marks(s)
                           ELSE Marks(s) \cup {Len(s) + 1}
      /\ Cardinality(Marks(open'[t]))
           = n + (IF target[t] = None THEN 0 ELSE 1)
  <2> DEFINE S == Devices \cup {None}
  <2>1. s \in Seq(S) /\ target[t] \in S
    BY <1>1 DEF TypeOK
  <2> HIDE DEF S
  <2>2. Len(s) \in Nat /\ Marks(s) \subseteq 1 .. Len(s)
    BY <2>1, LenProperties DEF Marks
  <2>3. /\ open'[t] \in Seq(S) /\ Len(open'[t]) = Len(s) + 1
        /\ \A i \in 1 .. Len(s) : open'[t][i] = s[i]
        /\ open'[t][Len(s) + 1] = target[t]
    BY <1>2, <2>1, AppendProperties
  <2>4. /\ Marks(open'[t]) = IF target[t] = None THEN Marks(s)
                             ELSE Marks(s) \cup {Len(s) + 1}
        /\ Cardinality(Marks(open'[t]))
             = n + (IF target[t] = None THEN 0 ELSE 1)
    <3>1. open'[t] = Append(s, target[t])
      BY <1>2
    <3>2. /\ Marks(Append(s, target[t]))
               = IF target[t] = None THEN Marks(s)
                 ELSE Marks(s) \cup {Len(s) + 1}
          /\ Cardinality(Marks(Append(s, target[t])))
               = Cardinality(Marks(s)) + (IF target[t] = None THEN 0 ELSE 1)
      BY <2>1, MarksOpen, Zenon
    <3>3. QED
      BY <3>1, <3>2
  <2>5. QED
    BY <2>1, <2>2, <2>3, <2>4 DEF S
<1>3. Frame(t)
  BY <1>1 DEF Opened, Goto, busVars, TypeOK, Frame
<1>4. TypeOK'
  <2>1. pc' \in [Tasks -> Steps]
    BY <1>1, <1>2 DEF TypeOK, Steps
  <2>2. open' \in [Tasks -> Seq(Devices \cup {None})]
    BY <1>0, <1>1, <1>2 DEF Opened, TypeOK
  <2>3. QED
    BY <1>1, <2>1, <2>2 DEF Opened, TypeOK, busVars, selVars, hwVars
<1>5. Holds(t)' > 0 /\ OwnedBy(t)'
  <2>1. Len(s) \in Nat /\ Len(open'[t]) = Len(s) + 1
    BY <1>0
  <2>2. Opening(t) /\ ~Opening(t)'
    BY <1>2 DEF Opening
  <2>3. Holds(t)' = Len(s) + 1 /\ Holds(t) = Len(s) + 1
    BY <2>1, <2>2 DEF Holds
  <2>4. QED
    BY <1>1, <2>1, <2>2, <2>3 DEF Opened, Held, OwnedBy, busVars
<1>6. CallOf(t)'
  BY <1>1, <1>2 DEF Opened, Held, CallOf, Top
<1>7. OneDevice(t)'
  <2>1. \A i \in Marks(s) : s[i] = selected
    BY <1>1, <1>2 DEF Held, OneDevice
  <2>2. \A i \in Marks(open'[t]) : open'[t][i] = selected
    BY <1>0, <1>1, <1>2, <2>1 DEF Held, OneDevice
  <2>3. QED
    BY <1>2, <2>2 DEF Opened, OneDevice, selVars
<1>8. ChipSelect(t)'
  <2>1. Selections(t)' = Selections(t)
    BY <1>0, <1>2 DEF Opened, Selections, Closing
  <2>2. QED
    BY <1>1, <1>2, <2>1 DEF Opened, Held, ChipSelect, selVars
<1>9. BytesOf(t)'
  BY <1>1, <1>2 DEF Opened, Held, BytesOf, ChipSelect, hwVars, selVars
<1>10. Quiet(t)'
  BY <1>1, <1>2 DEF Opened, Held, Quiet, hwVars, selVars
<1>11. QED
  BY <1>1, <1>3, <1>4, <1>5, <1>6, <1>7, <1>8, <1>9, <1>10, HolderMoves

(* A lock is about to be given back: nothing selected changes. *)
LEMMA UnlockStep ==
  ASSUME IInv, NEW t \in Tasks, Unlock(t)
  PROVE  IInv'
<1>1. Held(t) /\ TypeOK
  BY Caller DEF Unlock, At, Away, IInv
<1>2. /\ pc[t] = "idle" /\ pc' = [pc EXCEPT ![t] = pc'[t]]
      /\ pc'[t] = "give" /\ open[t] # <<>> /\ open' = open
      /\ target'[t] = None /\ Top(t) = None
  BY <1>1 DEF Unlock, At, Goto, TypeOK
<1>3. Frame(t)
  BY <1>1 DEF Unlock, Goto, busVars, TypeOK, Frame
<1>4. TypeOK'
  <2>1. pc' \in [Tasks -> Steps]
    BY <1>1, <1>2 DEF TypeOK, Steps
  <2>2. QED
    BY <1>1, <2>1, TypeFacts DEF Unlock, TypeOK, busVars, selVars, hwVars
<1>5. Holds(t)' > 0 /\ OwnedBy(t)'
  BY <1>1, <1>2 DEF Unlock, Held, OwnedBy, Holds, Opening, busVars
<1>6. CallOf(t)'
  BY <1>1, <1>2 DEF Held, CallOf, Top
<1>7. OneDevice(t)'
  BY <1>1, <1>2, TypeFacts
     DEF Unlock, Held, OneDevice, ChipSelect, Selections, Closing, selVars
<1>8. ChipSelect(t)'
  <2>1. Selections(t)' = Selections(t)
    BY <1>2 DEF Selections, Closing
  <2>2. QED
    BY <1>1, <1>2, <2>1 DEF Unlock, Held, ChipSelect, selVars
<1>9. BytesOf(t)'
  BY <1>1, <1>2 DEF Unlock, Held, BytesOf, ChipSelect, hwVars, selVars
<1>10. Quiet(t)'
  BY <1>1, <1>2 DEF Unlock, Held, Quiet, hwVars, selVars
<1>11. QED
  BY <1>1, <1>3, <1>4, <1>5, <1>6, <1>7, <1>8, <1>9, <1>10, HolderMoves

(* One selection less: the depth was the number of selections, so it does  *)
(* not go below zero and the last one is recognised.                       *)
LEMMA DeselectStep ==
  ASSUME IInv, NEW t \in Tasks, Deselect(t)
  PROVE  IInv'
<1>1. Held(t) /\ TypeOK
  BY Caller DEF Deselect, At, Away, IInv
<1>2. /\ pc[t] = "idle" /\ pc' = [pc EXCEPT ![t] = pc'[t]]
      /\ pc'[t] = IF select_depth = 1 THEN "release_cs" ELSE "give"
      /\ open[t] # <<>> /\ open' = open
      /\ target'[t] = Top(t) /\ Top(t) # None
  BY <1>1 DEF Deselect, At, Goto, TypeOK
<1>0. /\ Top(t) = selected /\ Top(t) \in Devices
      /\ Selections(t) = select_depth /\ select_depth \in Nat \ {0}
      /\ Selections(t)' = Selections(t) - 1
  <2>1. Len(open[t]) \in Marks(open[t])
    <3>1. open[t] \in Seq(Devices \cup {None})
      BY <1>1 DEF TypeOK
    <3>2. Len(open[t]) \in Nat \ {0} /\ DOMAIN open[t] = 1 .. Len(open[t])
      BY <1>2, <3>1, EmptySeq, LenProperties
    <3>3. QED
      BY <1>2, <3>2 DEF Marks, Top
  <2>2. /\ Cardinality(Marks(open[t])) \in Nat \ {0}
        /\ Selections(t) = Cardinality(Marks(open[t]))
    BY <1>1, <1>2, <2>1, TypeFacts DEF Selections, Closing
  <2>3. Top(t) = selected
    BY <1>1, <1>2, <2>1 DEF Held, OneDevice, Top
  <2>4. Selections(t)' = Cardinality(Marks(open[t])) - 1
    BY <1>2 DEF Selections, Closing
  <2>5. QED
    BY <1>1, <1>2, <2>2, <2>3, <2>4 DEF Held, ChipSelect, TypeOK
<1>3. Frame(t)
  BY <1>1 DEF Deselect, Goto, busVars, TypeOK, Frame
<1>4. TypeOK'
  <2>1. pc' \in [Tasks -> Steps]
    BY <1>1, <1>2 DEF TypeOK, Steps
  <2>2. QED
    BY <1>0, <1>1, <2>1 DEF Deselect, TypeOK, busVars, hwVars
<1>5. Holds(t)' > 0 /\ OwnedBy(t)'
  BY <1>1, <1>2 DEF Deselect, Held, OwnedBy, Holds, Opening, busVars
<1>6. CallOf(t)'
  BY <1>2 DEF CallOf, Top
<1>7. OneDevice(t)'
  BY <1>1, <1>2, TypeFacts
     DEF Deselect, Held, OneDevice, ChipSelect, Selections, Closing, selVars
<1>8. ChipSelect(t)'
  <2>1. select_depth' = select_depth - 1
    BY DEF Deselect
  <2>2. selected # None /\ low = {selected}
    BY <1>0, <1>1, <1>2 DEF Held, ChipSelect
  <2>3. QED
    BY <1>0, <1>2, <2>1, <2>2 DEF Deselect, ChipSelect
<1>9. BytesOf(t)'
  <2>1. select_depth' = select_depth - 1
    BY DEF Deselect
  <2>2. QED
    BY <1>0, <1>1, <1>2, <2>1 DEF Deselect, Held, BytesOf, hwVars
<1>10. Quiet(t)'
  BY <1>1, <1>2 DEF Deselect, Held, Quiet, hwVars, selVars
<1>11. QED
  BY <1>1, <1>3, <1>4, <1>5, <1>6, <1>7, <1>8, <1>9, <1>10, HolderMoves

(* The last deselection ends with an idle bus. *)
LEMMA ReleaseCsStep ==
  ASSUME IInv, NEW t \in Tasks, ReleaseCs(t)
  PROVE  IInv'
<1>1. Held(t) /\ TypeOK
  BY Caller DEF ReleaseCs, At, Away, IInv
<1>2. /\ pc[t] = "release_cs" /\ pc' = [pc EXCEPT ![t] = pc'[t]]
      /\ pc'[t] = "give"
  BY <1>1 DEF ReleaseCs, At, Goto, TypeOK
<1>3. Frame(t)
  BY <1>1 DEF ReleaseCs, Goto, busVars, TypeOK, Frame
<1>4. TypeOK'
  <2>1. pc' \in [Tasks -> Steps]
    BY <1>1, <1>2 DEF TypeOK, Steps
  <2>2. rx' \in Seq(Tasks) /\ Len(rx') <= FifoDepth
    BY EmptyFifo DEF ReleaseCs
  <2>3. QED
    BY <1>1, <2>1, <2>2 DEF ReleaseCs, TypeOK, busVars
<1>5. Holds(t)' > 0 /\ OwnedBy(t)'
  BY <1>1, <1>2 DEF ReleaseCs, Held, OwnedBy, Holds, Opening, busVars
<1>6. CallOf(t)'
  BY <1>1, <1>2 DEF ReleaseCs, Held, CallOf, Top
<1>7. OneDevice(t)'
  BY <1>1, <1>2, TypeFacts
     DEF ReleaseCs, Held, OneDevice, ChipSelect, Selections, Closing, selVars
<1>8. ChipSelect(t)'
  BY <1>1, <1>2, TypeFacts
     DEF ReleaseCs, Held, ChipSelect, OneDevice, Selections, Closing, CallOf,
         selVars
<1>9. BytesOf(t)'
  BY <1>1, <1>2 DEF ReleaseCs, Held, BytesOf, ChipSelect, hwVars, selVars
<1>10. Quiet(t)'
  BY <1>1, <1>2 DEF ReleaseCs, Held, Quiet, hwVars, selVars
<1>11. QED
  BY <1>1, <1>3, <1>4, <1>5, <1>6, <1>7, <1>8, <1>9, <1>10, HolderMoves

(* One more byte of t is on its way: its own, as those before it. *)
LEMMA AppendedByte ==
  ASSUME TypeOK, NEW t \in Tasks, NEW d \in Devices \cup {None},
         \A i \in DOMAIN tx : tx[i].task = t /\ tx[i].dev = d,
         tx' = Append(tx, Byte(t, d))
  PROVE  /\ tx' \in Seq([task : Tasks, dev : Devices \cup {None}])
         /\ \A i \in DOMAIN tx' : tx'[i].task = t /\ tx'[i].dev = d
         /\ tx = <<>> => Len(tx') = 1
<1> DEFINE S == [task : Tasks, dev : Devices \cup {None}]
<1>1. tx \in Seq(S) /\ Byte(t, d) \in S
  BY DEF TypeOK, Byte
<1>2. Byte(t, d).task = t /\ Byte(t, d).dev = d
  BY DEF Byte
<1> HIDE DEF S
<1>3. /\ tx' \in Seq(S) /\ Len(tx') = Len(tx) + 1 /\ Len(tx) \in Nat
      /\ \A i \in 1 .. Len(tx) : tx'[i] = tx[i]
      /\ tx'[Len(tx) + 1] = Byte(t, d)
      /\ DOMAIN tx = 1 .. Len(tx) /\ DOMAIN tx' = 1 .. Len(tx) + 1
  <2>1. tx' \in Seq(S)
    BY <1>1, AppendProperties
  <2>2. QED
    BY <1>1, <2>1, AppendProperties, LenProperties
<1>4. \A i \in DOMAIN tx' : tx'[i].task = t /\ tx'[i].dev = d
  BY <1>2, <1>3
<1>5. tx = <<>> => Len(tx') = 1
  BY <1>3, EmptySeq
<1>6. QED
  BY <1>3, <1>4, <1>5 DEF S

(* A byte of a streaming driver. *)
LEMMA StreamStep ==
  ASSUME IInv, NEW t \in Tasks, Stream(t)
  PROVE  IInv'
<1>0. TypeOK
  BY DEF IInv
<1>1. /\ Held(t) /\ TypeOK
      /\ Marks(open[t]) # {} /\ Current(t) = selected
      /\ selected \in Streaming
  <2>1. Marks(open[t]) # {} /\ open[t] # <<>> /\ Current(t) = selected
    BY <1>0, CurrentFacts, SpiBusAssumption DEF Stream
  <2>2. Held(t)
    BY <2>1, Caller DEF Away
  <2>3. QED
    BY <1>0, <2>1, <2>2 DEF Stream
<1>2. /\ pc[t] = "idle" /\ pc' = [pc EXCEPT ![t] = pc'[t]]
      /\ pc'[t] = "idle"
  BY <1>1 DEF Stream, At, Goto, TypeOK
<1>3. Frame(t)
  BY <1>1 DEF Stream, Goto, busVars, TypeOK, Frame
<1>0b. /\ tx' \in Seq([task : Tasks, dev : Devices \cup {None}])
       /\ \A i \in DOMAIN tx' : tx'[i].task = t /\ tx'[i].dev = selected
  <2>1. /\ selected \in Devices \cup {None}
        /\ \A i \in DOMAIN tx : tx[i].task = t /\ tx[i].dev = selected
    BY <1>1 DEF Held, BytesOf, TypeOK
  <2>2. tx' = Append(tx, Byte(t, selected))
    BY DEF Stream
  <2>3. QED
    BY <1>0, <2>1, <2>2, AppendedByte
<1>4. TypeOK'
  <2>2. rx' \in Seq(Tasks) /\ Len(rx') <= FifoDepth
    BY <1>1, EmptyFifo DEF Stream, TypeOK
  <2>3. QED
    BY <1>0b, <1>1, <2>2 DEF Stream, TypeOK, busVars, selVars
<1>5. Holds(t)' > 0 /\ OwnedBy(t)'
  BY <1>1, <1>2 DEF Stream, Held, OwnedBy, Holds, Opening, busVars
<1>6. CallOf(t)'
  BY <1>1, <1>2 DEF Stream, Held, CallOf, Top
<1>7. OneDevice(t)'
  BY <1>1, <1>2, TypeFacts
     DEF Stream, Held, OneDevice, ChipSelect, Selections, Closing, selVars
<1>8. ChipSelect(t)'
  BY <1>1, <1>2, TypeFacts
     DEF Stream, Held, ChipSelect, OneDevice, Selections, Closing, CallOf,
         selVars
<1>9. BytesOf(t)'
  <2>1. select_depth > 0
    BY <1>1, <1>2, IdleDepth
  <2>2. QED
    BY <1>0b, <2>1 DEF Stream, BytesOf, selVars
<1>10. Quiet(t)'
  BY <1>1, <1>2 DEF Stream, Quiet, selVars
<1>11. QED
  BY <1>1, <1>3, <1>4, <1>5, <1>6, <1>7, <1>8, <1>9, <1>10, HolderMoves

(* bsp_spi_transmit returns: its byte has left. *)
LEMMA SentStep ==
  ASSUME IInv, NEW t \in Tasks, Sent(t)
  PROVE  IInv'
<1>1. Held(t) /\ TypeOK
  BY Caller DEF Sent, At, Away, IInv
<1>2. /\ pc[t] = "sent" /\ pc' = [pc EXCEPT ![t] = pc'[t]]
      /\ pc'[t] = "idle"
  BY <1>1 DEF Sent, At, Goto, TypeOK
<1>3. Frame(t)
  BY <1>1 DEF Sent, Goto, busVars, TypeOK, Frame
<1>4. TypeOK'
  <2>1. pc' \in [Tasks -> Steps]
    BY <1>1, <1>2 DEF TypeOK, Steps
  <2>2. QED
    BY <1>1, <2>1, TypeFacts DEF Sent, TypeOK, busVars, selVars, hwVars
<1>5. Holds(t)' > 0 /\ OwnedBy(t)'
  BY <1>1, <1>2 DEF Sent, Held, OwnedBy, Holds, Opening, busVars
<1>6. CallOf(t)'
  BY <1>1, <1>2 DEF Sent, Held, CallOf, Top
<1>7. OneDevice(t)'
  BY <1>1, <1>2, TypeFacts
     DEF Sent, Held, OneDevice, ChipSelect, Selections, Closing, selVars
<1>8. ChipSelect(t)'
  BY <1>1, <1>2, TypeFacts
     DEF Sent, Held, ChipSelect, OneDevice, Selections, Closing, CallOf,
         selVars
<1>9. BytesOf(t)'
  BY <1>1, <1>2 DEF Sent, Held, BytesOf, ChipSelect, hwVars, selVars
<1>10. Quiet(t)'
  BY <1>1, <1>2 DEF Sent, Held, Quiet, hwVars, selVars
<1>11. QED
  BY <1>1, <1>3, <1>4, <1>5, <1>6, <1>7, <1>8, <1>9, <1>10, HolderMoves

(* bsp_spi_transfer returns: both FIFOs are empty again. *)
LEMMA AnswerStep ==
  ASSUME IInv, NEW t \in Tasks, Answer(t)
  PROVE  IInv'
<1>1. Held(t) /\ TypeOK
  BY Caller DEF Answer, At, Away, IInv
<1>2. /\ pc[t] = "answer" /\ pc' = [pc EXCEPT ![t] = pc'[t]]
      /\ pc'[t] = "idle"
  BY <1>1 DEF Answer, At, Goto, TypeOK
<1>3. Frame(t)
  BY <1>1 DEF Answer, Goto, busVars, TypeOK, Frame
<1>4. TypeOK'
  <2>1. pc' \in [Tasks -> Steps]
    BY <1>1, <1>2 DEF TypeOK, Steps
  <2>2. rx' \in Seq(Tasks) /\ Len(rx') <= FifoDepth
    <3>1. rx \in Seq(Tasks) /\ Len(rx) <= FifoDepth /\ Len(rx) \in Nat
      BY <1>1, LenProperties DEF TypeOK
    <3>2. CASE rx = <<>>
      BY <3>1, <3>2 DEF Answer
    <3>3. CASE rx # <<>>
      BY <3>1, <3>3, HeadTailProperties, SpiBusAssumption DEF Answer
    <3>4. QED
      BY <3>2, <3>3
  <2>3. QED
    BY <1>1, <2>1, <2>2 DEF Answer, TypeOK, busVars, selVars
<1>5. Holds(t)' > 0 /\ OwnedBy(t)'
  BY <1>1, <1>2 DEF Answer, Held, OwnedBy, Holds, Opening, busVars
<1>6. CallOf(t)'
  BY <1>1, <1>2 DEF Answer, Held, CallOf, Top
<1>7. OneDevice(t)'
  BY <1>1, <1>2, TypeFacts
     DEF Answer, Held, OneDevice, ChipSelect, Selections, Closing, selVars
<1>8. ChipSelect(t)'
  BY <1>1, <1>2, TypeFacts
     DEF Answer, Held, ChipSelect, OneDevice, Selections, Closing, CallOf,
         selVars
<1>9. BytesOf(t)'
  BY <1>1, <1>2 DEF Answer, Held, BytesOf, ChipSelect, hwVars, selVars
<1>10. Quiet(t)'
  <2>1. Tail(<<t>>) = <<>> /\ Len(<<>>) = 0
    OBVIOUS
  <2>2. selected \in Devices \ Streaming => rx = <<>> \/ rx = <<t>>
    BY <1>1, <1>2 DEF Held, Quiet
  <2>3. QED
    BY <1>2, <2>1, <2>2 DEF Answer, Quiet, selVars
<1>11. QED
  BY <1>1, <1>3, <1>4, <1>5, <1>6, <1>7, <1>8, <1>9, <1>10, HolderMoves

(* A byte is put into the empty FIFO, or behind those being streamed. *)
LEMMA TransmitStep ==
  ASSUME IInv, NEW t \in Tasks, NEW answer \in BOOLEAN, Transmit(t, answer)
  PROVE  IInv'
<1>1. Held(t) /\ TypeOK
  BY Caller DEF Transmit, At, Away, IInv
<1>2. /\ pc[t] = "idle" /\ pc' = [pc EXCEPT ![t] = pc'[t]]
      /\ pc'[t] = IF answer THEN "answer" ELSE "sent"
  BY <1>1 DEF Transmit, At, Goto, TypeOK
<1>0. /\ Current(t) = selected /\ selected \in Devices \cup {None}
      /\ answer => selected \in Devices \ Streaming /\ select_depth > 0
      /\ ~answer => selected \notin Devices \ Streaming
  <2>1. /\ select_depth \in Nat
        /\ (select_depth = 0) <=> (Marks(open[t]) = {})
        /\ select_depth = 0 => selected = None
    BY <1>1, <1>2, IdleDepth
  <2>2. /\ Marks(open[t]) # {} => Current(t) = selected
        /\ Marks(open[t]) = {} => Current(t) = None
    BY <1>1, CurrentFacts
  <2>3. QED
    BY <1>1, <2>1, <2>2, SpiBusAssumption DEF Transmit, TypeOK
<1>0b. /\ tx' \in Seq([task : Tasks, dev : Devices \cup {None}])
       /\ \A i \in DOMAIN tx' : tx'[i].task = t /\ tx'[i].dev = selected
       /\ tx = <<>> => Len(tx') = 1
  <2>1. \A i \in DOMAIN tx : tx[i].task = t /\ tx[i].dev = selected
    BY <1>1 DEF Held, BytesOf
  <2>2. tx' = Append(tx, Byte(t, selected))
    BY <1>0 DEF Transmit
  <2>3. TypeOK /\ selected \in Devices \cup {None}
    BY <1>0, <1>1
  <2>4. QED
    BY <2>1, <2>2, <2>3, AppendedByte
<1>3. Frame(t)
  BY <1>1 DEF Transmit, Goto, busVars, TypeOK, Frame
<1>4. TypeOK'
  <2>1. pc' \in [Tasks -> Steps]
    BY <1>1, <1>2 DEF TypeOK, Steps
  <2>2. QED
    BY <1>0b, <1>1, <2>1 DEF Transmit, TypeOK, busVars, selVars
<1>5. Holds(t)' > 0 /\ OwnedBy(t)'
  BY <1>1, <1>2 DEF Transmit, Held, OwnedBy, Holds, Opening, busVars
<1>6. CallOf(t)'
  BY <1>1, <1>2 DEF Transmit, Held, CallOf, Top
<1>7. OneDevice(t)'
  BY <1>1, <1>2, TypeFacts
     DEF Transmit, Held, OneDevice, ChipSelect, Selections, Closing, selVars
<1>8. ChipSelect(t)'
  BY <1>1, <1>2, TypeFacts
     DEF Transmit, Held, ChipSelect, OneDevice, Selections, Closing, CallOf,
         selVars
<1>9. BytesOf(t)'
  BY <1>0, <1>0b, <1>2 DEF Transmit, BytesOf, selVars
<1>10. Quiet(t)'
  BY <1>0, <1>0b, <1>1, <1>2 DEF Transmit, Held, Quiet, selVars
<1>11. QED
  BY <1>1, <1>3, <1>4, <1>5, <1>6, <1>7, <1>8, <1>9, <1>10, HolderMoves

(* The mutex is given back as often as it was taken; after the last time   *)
(* everything is at rest.                                                  *)
LEMMA GiveStep ==
  ASSUME IInv, NEW t \in Tasks, Give(t)
  PROVE  IInv'
<1> DEFINE s == open[t]
           r == Closed(s)
<1>1. Held(t) /\ TypeOK
  BY Caller DEF Give, At, Away, IInv
<1>2. /\ pc[t] = "give" /\ pc' = [pc EXCEPT ![t] = pc'[t]]
      /\ pc'[t] = "idle" /\ open'[t] = r /\ open[t] # <<>>
      /\ target[t] = Top(t)
  BY <1>1 DEF Give, At, Goto, TypeOK, Held, CallOf, Closed
<1>3. Frame(t)
  BY <1>1 DEF Give, Goto, TypeOK, Frame
<1>4. /\ Len(s) \in Nat \ {0}
      /\ r \in Seq(Devices \cup {None}) /\ Len(r) = Len(s) - 1
      /\ (r = <<>>) <=> (Len(s) = 1)
      /\ \A i \in Marks(r) : i \in Marks(s) /\ r[i] = s[i]
      /\ Cardinality(Marks(r))
           = Cardinality(Marks(s)) - (IF s[Len(s)] = None THEN 0 ELSE 1)
      /\ Cardinality(Marks(r)) \in Nat
      /\ (Cardinality(Marks(r)) = 0) <=> (Marks(r) = {})
  <2> DEFINE S == Devices \cup {None}
  <2>1. s \in Seq(S) /\ s # <<>>
    BY <1>1, <1>2 DEF TypeOK
  <2> HIDE DEF S
  <2>2. Len(s) \in Nat \ {0}
    BY <2>1, EmptySeq
  <2>3. /\ r \in Seq(S) /\ Len(r) = Len(s) - 1
        /\ (r = <<>>) <=> (Len(s) = 1)
        /\ \A i \in Marks(r) : i \in Marks(s) /\ r[i] = s[i]
        /\ Cardinality(Marks(r))
             = Cardinality(Marks(s)) - (IF s[Len(s)] = None THEN 0 ELSE 1)
    BY <2>1, MarksClose
  <2>4. /\ Cardinality(Marks(r)) \in Nat
        /\ (Cardinality(Marks(r)) = 0) <=> (Marks(r) = {})
    BY <2>3, MarksCount
  <2>5. QED
    BY <2>2, <2>3, <2>4 DEF S
<1> HIDE DEF r
<1>5. /\ select_depth = Cardinality(Marks(r))
      /\ Holds(t) = Len(s) /\ Holds(t)' = Len(r)
  <2>1. Selections(t) = Cardinality(Marks(s))
                          - (IF s[Len(s)] = None THEN 0 ELSE 1)
    BY <1>1, <1>2, TypeFacts DEF Selections, Closing, Top
  <2>2. select_depth = Cardinality(Marks(r))
    BY <1>1, <1>4, <2>1 DEF Held, ChipSelect
  <2>3. ~Opening(t) /\ ~Opening(t)'
    BY <1>2 DEF Opening
  <2>4. QED
    BY <1>2, <1>4, <2>2, <2>3 DEF Holds
<1>6. TypeOK'
  <2>1. pc' \in [Tasks -> Steps]
    BY <1>1, <1>2 DEF TypeOK, Steps
  <2>2. open' \in [Tasks -> Seq(Devices \cup {None})]
    BY <1>1, <1>2, <1>4 DEF Give, TypeOK
  <2>3. owner' \in Tasks \cup {None} /\ count' \in Nat
    BY <1>1, <1>4, <1>5 DEF Give, TypeOK, Held, OwnedBy
  <2>4. QED
    BY <1>1, <2>1, <2>2, <2>3 DEF Give, TypeOK, selVars, hwVars
<1>7. CASE Len(s) # 1
  <2>1. Holds(t)' > 0 /\ OwnedBy(t)'
    BY <1>1, <1>4, <1>5, <1>7 DEF Give, Held, OwnedBy
  <2>2. CallOf(t)'
    BY <1>2 DEF CallOf
  <2>3. OneDevice(t)'
    <3>1. CASE select_depth = 0
      BY <1>2, <1>4, <1>5, <3>1 DEF OneDevice
    <3>2. CASE select_depth # 0
      BY <1>1, <1>2, <1>4, <3>2 DEF Give, Held, OneDevice, selVars
    <3>3. QED
      BY <3>1, <3>2
  <2>4. ChipSelect(t)'
    <3>1. Selections(t)' = Cardinality(Marks(r))
      BY <1>2 DEF Selections, Closing
    <3>2. QED
      BY <1>1, <1>2, <1>5, <3>1 DEF Give, Held, ChipSelect, selVars
  <2>5. BytesOf(t)' /\ Quiet(t)'
    BY <1>1, <1>2 DEF Give, Held, BytesOf, Quiet, selVars, hwVars
  <2>6. QED
    BY <1>1, <1>3, <1>6, <2>1, <2>2, <2>3, <2>4, <2>5, HolderMoves
<1>8. CASE Len(s) = 1
  <2>1. Marks(<<>>) = {}
    BY DEF Marks
  <2>2. select_depth = 0 /\ r = <<>>
    BY <1>4, <1>5, <1>8, <2>1
  <2>3. tx = <<>>
    BY <1>1, <1>2, <2>2, TypeFacts DEF Held, BytesOf
  <2>4. \A u \in Tasks : Away(u)'
    BY <1>1, <1>2, <1>3, <2>2 DEF Held, Away, Frame
  <2>5. owner' = None /\ count' = 0 /\ (created' => running')
    BY <1>1, <1>5, <1>8 DEF Give, Held, OwnedBy
  <2>6. selected' = None /\ low' = {} /\ select_depth' = 0 /\ tx' = <<>>
    BY <1>1, <1>2, <2>2, <2>3 DEF Give, Held, ChipSelect, selVars, hwVars
  <2>7. Free'
    BY <2>4, <2>5, <2>6 DEF Free
  <2>8. BootFirst'
    BY <1>1, <1>3, <2>4, SpiBusAssumption
       DEF IInv, BootFirst, Held, OwnedBy, Frame
  <2>9. QED
    BY <1>6, <2>7, <2>8 DEF IInv
<1>9. QED
  BY <1>7, <1>8

(* The SPI shifts a byte of the task that has the bus. *)
LEMMA ShiftStep ==
  ASSUME IInv, Shift
  PROVE  IInv'
<1>1. TypeOK /\ tx # <<>> /\ BootFirst
  BY DEF IInv, Shift
<1>2. PICK h \in Tasks : Held(h)
  BY <1>1 DEF IInv, Free
<1> DEFINE S == [task : Tasks, dev : Devices \cup {None}]
<1>3. tx \in Seq(S) /\ tx' = Tail(tx)
  BY <1>1 DEF TypeOK, Shift
<1>4. Head(tx).task = h
  <2>1. Head(tx) = tx[1]
    BY <1>1, <1>3
  <2>2. 1 \in DOMAIN tx
    BY <1>1, TypeFacts
  <2>3. QED
    BY <1>2, <2>1, <2>2 DEF Held, BytesOf
<1> HIDE DEF S
<1>5. /\ tx' \in Seq(S) /\ Len(tx') = Len(tx) - 1 /\ Len(tx) \in Nat \ {0}
      /\ Len(tx) = 1 => tx' = <<>>
      /\ \A i \in DOMAIN tx' : i + 1 \in DOMAIN tx /\ tx'[i] = tx[i + 1]
  <2>1. /\ tx' \in Seq(S) /\ Len(tx') = Len(tx) - 1
        /\ \A i \in 1 .. Len(tx') : tx'[i] = tx[i + 1]
    BY <1>1, <1>3, HeadTailProperties
  <2>2. Len(tx) \in Nat \ {0} /\ DOMAIN tx = 1 .. Len(tx)
    BY <1>1, <1>3, EmptySeq, LenProperties
  <2>3. DOMAIN tx' = 1 .. Len(tx') /\ (tx' # <<>> => Len(tx') # 0)
    BY <2>1, EmptySeq, LenProperties
  <2>4. QED
    BY <2>1, <2>2, <2>3
<1>6. /\ rx' \in Seq(Tasks) /\ Len(rx') <= FifoDepth
      /\ rx = <<>> => rx' = <<h>>
  <2>1. rx \in Seq(Tasks) /\ Len(rx) <= FifoDepth /\ Len(rx) \in Nat
    BY <1>1, LenProperties DEF TypeOK
  <2>2. Append(rx, h) \in Seq(Tasks) /\ Len(Append(rx, h)) = Len(rx) + 1
    BY <2>1, AppendProperties
  <2>3. Append(<<>>, h) = <<h>> /\ Len(<<>>) = 0
    OBVIOUS
  <2>4. rx' = IF Len(rx) < FifoDepth THEN Append(rx, h) ELSE rx
    BY <1>4 DEF Shift
  <2>5. CASE rx = <<>>
    BY <2>2, <2>3, <2>4, <2>5, SpiBusAssumption
  <2>6. CASE rx # <<>>
    BY <2>1, <2>2, <2>4, <2>6, SpiBusAssumption
  <2>7. QED
    BY <2>5, <2>6
<1>7. TypeOK'
  BY <1>1, <1>5, <1>6 DEF Shift, TypeOK, S, busVars, selVars
<1>8. Held(h)'
  <2>1. /\ Holds(h)' > 0 /\ (\A u \in Tasks \ {h} : Away(u)') /\ OwnedBy(h)'
        /\ CallOf(h)' /\ OneDevice(h)'
    BY <1>2 DEF Shift, Held, Holds, Opening, Away, OwnedBy, CallOf, Top,
                OneDevice, busVars, selVars
  <2>2. ChipSelect(h)'
    BY <1>2 DEF Shift, Held, ChipSelect, Selections, Closing, selVars
  <2>3. BytesOf(h)'
    BY <1>2, <1>5 DEF Shift, Held, BytesOf, selVars
  <2>4. Quiet(h)'
    BY <1>1, <1>2, <1>5, <1>6 DEF Shift, Held, Quiet, selVars
  <2>5. QED
    BY <2>1, <2>2, <2>3, <2>4 DEF Held
<1>9. BootFirst'
  BY <1>1 DEF Shift, BootFirst
<1>10. QED
  BY <1>7, <1>8, <1>9 DEF IInv

-----------------------------------------------------------------------------
(* The steps on the way to the mutex, which others take as well. *)

(* Who is away holds nothing. *)
LEMMA AwayHoldsNothing ==
  ASSUME NEW u, Away(u)
  PROVE  Holds(u) = 0
<1>1. ~Opening(u) /\ Len(open[u]) = 0
  BY DEF Away, Opening
<1>2. QED
  BY <1>1 DEF Holds

(* A step of a task that stays away takes nothing from who has the bus. *)
LEMMA OutsiderMoves ==
  ASSUME IInv, NEW t \in Tasks, Away(t), Away(t)', Frame(t), TypeOK',
         running, UNCHANGED <<owner, count, selVars, hwVars>>,
         t # Boot, created' => running',
         \A u \in Tasks \ {t} : target'[u] = target[u]
  PROVE  IInv'
<1>1. BootFirst'
  BY SpiBusAssumption DEF IInv, BootFirst, Frame
<1>2. ASSUME Free
      PROVE  Free'
  BY <1>2 DEF Free, Away, Frame, selVars, hwVars
<1>3. ASSUME NEW h \in Tasks, Held(h)
      PROVE  Held(h)'
  <2>1. h # t
    BY <1>3, AwayHoldsNothing DEF Held
  <2>2. /\ pc'[h] = pc[h] /\ open'[h] = open[h] /\ target'[h] = target[h]
        /\ UNCHANGED <<running, owner, count, selVars, hwVars>>
    BY <2>1 DEF Frame
  <2>3. \A u \in Tasks \ {h} : Away(u)'
    BY <1>3 DEF Held, Away, Frame
  <2>4. Holds(h)' = Holds(h)
    BY <2>2 DEF Holds, Opening
  <2>5. OwnedBy(h)'
    BY <1>3, <2>2, <2>4 DEF Held, OwnedBy, Frame
  <2>6. CallOf(h)'
    BY <1>3, <2>2 DEF Held, CallOf, Top
  <2>7. OneDevice(h)'
    BY <1>3, <2>2 DEF Held, OneDevice, selVars
  <2>8. ChipSelect(h)'
    <3>1. Selections(h)' = Selections(h)
      BY <2>2 DEF Selections, Closing
    <3>2. QED
      BY <1>3, <2>2, <3>1 DEF Held, ChipSelect, selVars
  <2>9. BytesOf(h)' /\ Quiet(h)'
    BY <1>3, <2>2 DEF Held, BytesOf, Quiet, selVars, hwVars
  <2>10. QED
    BY <1>3, <2>3, <2>4, <2>5, <2>6, <2>7, <2>8, <2>9 DEF Held
<1>4. QED
  BY <1>1, <1>2, <1>3 DEF IInv

(* The first lock or selection of a task finds the bus at rest. *)
LEMMA FirstMoves ==
  ASSUME IInv, NEW t \in Tasks, Free, Frame(t), TypeOK',
         BootFirst', OwnedBy(t)', UNCHANGED <<selVars, hwVars>>,
         open'[t] = <<>>, pc'[t] \in {"select", "opened"},
         target'[t] = None <=> pc'[t] = "opened"
  PROVE  IInv'
<1>1. Marks(<<>>) = {} /\ Len(<<>>) = 0 /\ Cardinality({}) = 0
      /\ DOMAIN <<>> = {}
  BY FS_EmptySet DEF Marks
<1>2. \A u \in Tasks \ {t} : Away(u)'
  BY DEF Free, Away, Frame
<1>3. Holds(t)' > 0
  BY <1>1 DEF Holds, Opening
<1>4. CallOf(t)' /\ OneDevice(t)'
  BY <1>1 DEF CallOf, OneDevice
<1>5. Selections(t)' = 0
  BY <1>1 DEF Selections, Closing
<1>6. ChipSelect(t)'
  BY <1>5 DEF ChipSelect, Free, selVars
<1>7. BytesOf(t)'
  BY <1>1 DEF BytesOf, Free, hwVars
<1>8. Quiet(t)'
  BY SpiBusAssumption DEF Quiet, Free, selVars, hwVars
<1>9. QED
  BY <1>2, <1>3, <1>4, <1>6, <1>7, <1>8 DEF Held, IInv

(* A lock or selection begins, by whoever has the bus or by somebody else. *)
LEMMA CallStep ==
  ASSUME IInv, NEW t \in Tasks, NEW d \in Devices \cup {None}, Call(t, d)
  PROVE  IInv'
<1>1. TypeOK /\ BootFirst
  BY DEF IInv
<1>2. /\ pc[t] = "idle" /\ pc' = [pc EXCEPT ![t] = pc'[t]]
      /\ pc'[t] = IF running THEN "mutex"
                  ELSE IF d = None THEN "opened" ELSE "select"
      /\ target'[t] = d /\ open' = open
      /\ d # None => Current(t) = None \/ Current(t) = d
      /\ running <=> (t # Boot)
      /\ UNCHANGED <<running, busVars, selVars, hwVars>>
  BY <1>1 DEF Call, At, Runs, Goto, TypeOK
<1>3. Frame(t) /\ \A u \in Tasks \ {t} : target'[u] = target[u]
  BY <1>1 DEF Call, Goto, busVars, TypeOK, Frame
<1>4. TypeOK'
  <2>1. pc' \in [Tasks -> Steps]
    BY <1>1, <1>2 DEF TypeOK, Steps
  <2>2. QED
    BY <1>1, <2>1 DEF Call, TypeOK, busVars, selVars, hwVars
<1>5. ASSUME Held(t)
      PROVE  IInv'
  <2>1. Holds(t)' > 0 /\ OwnedBy(t)'
    <3>1. Len(open[t]) \in Nat /\ Len(open[t]) > 0
      <4>1. ~Opening(t)
        BY <1>2 DEF Opening
      <4>2. Len(open[t]) \in Nat
        BY <1>1, TypeFacts, LenProperties
      <4>3. QED
        BY <1>5, <4>1, <4>2 DEF Held, Holds
    <3>2. running => Holds(t)' = Holds(t)
      BY <1>2 DEF Holds, Opening
    <3>3. Holds(t)' > 0
      <4>1. CASE Opening(t)'
        BY <1>2, <3>1, <4>1 DEF Holds
      <4>2. CASE ~Opening(t)'
        BY <1>2, <3>1, <4>2 DEF Holds
      <4>3. QED
        BY <4>1, <4>2
    <3>4. QED
      BY <1>2, <1>5, <3>2, <3>3 DEF Held, OwnedBy, busVars
  <2>2. CallOf(t)'
    BY <1>2 DEF CallOf
  <2>3. OneDevice(t)'
    <3>1. Marks(open[t]) # {} /\ d # None => selected = d
      BY <1>1, <1>2, <1>5, IdleDepth, CurrentFacts
    <3>2. \A i \in Marks(open[t]) : open[t][i] = selected
      BY <1>2, <1>5 DEF Held, OneDevice
    <3>3. pc'[t] = "opened" => d = None
      BY <1>2
    <3>4. QED
      BY <1>2, <3>1, <3>2, <3>3 DEF OneDevice, selVars
  <2>4. ChipSelect(t)'
    <3>1. Selections(t)' = Selections(t)
      BY <1>2 DEF Selections, Closing
    <3>2. QED
      BY <1>2, <1>5, <3>1 DEF Held, ChipSelect, selVars
  <2>5. BytesOf(t)' /\ Quiet(t)'
    BY <1>2, <1>5 DEF Held, BytesOf, Quiet, selVars, hwVars
  <2>6. QED
    BY <1>3, <1>4, <1>5, <2>1, <2>2, <2>3, <2>4, <2>5, HolderMoves
<1>6. CASE Away(t) /\ running
  <2>1. Away(t)' /\ (created' => running')
    BY <1>2, <1>6 DEF Away
  <2>2. QED
    BY <1>2, <1>3, <1>4, <1>6, <2>1, OutsiderMoves DEF busVars
<1>7. CASE Away(t) /\ ~running
  <2>1. Free
    <3>1. ASSUME NEW h \in Tasks, Held(h)
          PROVE  FALSE
      <4>1. h = t
        BY <1>2, <1>7, <3>1 DEF Held, OwnedBy
      <4>2. QED
        BY <1>7, <3>1, <4>1, AwayHoldsNothing DEF Held
    <3>2. QED
      BY <3>1 DEF IInv
  <2>2. OwnedBy(t)'
    BY <1>2, <1>7, <2>1 DEF Free, OwnedBy, busVars
  <2>3. BootFirst'
    BY <1>1, <1>2, <1>3, <1>7 DEF BootFirst, Frame
  <2>4. /\ open'[t] = <<>> /\ pc'[t] \in {"select", "opened"}
        /\ target'[t] = None <=> pc'[t] = "opened"
    BY <1>2, <1>7 DEF Away
  <2>5. QED
    BY <1>2, <1>3, <1>4, <2>1, <2>2, <2>3, <2>4, FirstMoves
<1>8. QED
  BY <1>5, <1>6, <1>7, Caller

(* The mutex is created by whoever comes first, and only then. *)
LEMMA MutexGetStep ==
  ASSUME IInv, NEW t \in Tasks, MutexGet(t)
  PROVE  IInv'
<1>1. TypeOK /\ BootFirst
  BY DEF IInv
<1>2. /\ pc[t] = "mutex" /\ pc' = [pc EXCEPT ![t] = pc'[t]]
      /\ pc'[t] = "take" /\ open' = open /\ created'
      /\ UNCHANGED <<running, selVars, hwVars, target>>
  BY <1>1 DEF MutexGet, At, Goto, TypeOK
<1>3. running /\ t # Boot
  BY <1>1, <1>2, Caller DEF Held, CallOf, Away, BootFirst
<1>4. UNCHANGED <<owner, count>>
  BY <1>3 DEF IInv, Free, Held, OwnedBy, MutexGet
<1>5. Frame(t)
  BY <1>1 DEF MutexGet, Goto, TypeOK, Frame
<1>6. TypeOK'
  <2>1. pc' \in [Tasks -> Steps]
    BY <1>1, <1>2 DEF TypeOK, Steps
  <2>2. QED
    BY <1>1, <1>4, <2>1 DEF MutexGet, TypeOK, selVars, hwVars
<1>7. ASSUME Held(t)
      PROVE  IInv'
  <2>1. Holds(t)' > 0 /\ OwnedBy(t)'
    <3>1. Holds(t)' = Holds(t)
      BY <1>2 DEF Holds, Opening
    <3>2. QED
      BY <1>2, <1>3, <1>4, <1>7, <3>1 DEF Held, OwnedBy
  <2>2. CallOf(t)' /\ OneDevice(t)'
    BY <1>2, <1>3, <1>7 DEF Held, CallOf, OneDevice, selVars
  <2>3. ChipSelect(t)'
    <3>1. Selections(t)' = Selections(t)
      BY <1>2 DEF Selections, Closing
    <3>2. QED
      BY <1>2, <1>7, <3>1 DEF Held, ChipSelect, selVars
  <2>4. BytesOf(t)' /\ Quiet(t)'
    BY <1>2, <1>7 DEF Held, BytesOf, Quiet, selVars, hwVars
  <2>5. QED
    BY <1>5, <1>6, <1>7, <2>1, <2>2, <2>3, <2>4, HolderMoves
<1>8. CASE Away(t)
  <2>1. Away(t)' /\ (created' => running')
    BY <1>2, <1>3, <1>8 DEF Away
  <2>2. QED
    BY <1>2, <1>3, <1>4, <1>5, <1>6, <1>8, <2>1, OutsiderMoves
<1>9. QED
  BY <1>7, <1>8, Caller

(* The mutex is taken: for the first time when the bus is at rest, or once *)
(* more by the task that has it.                                           *)
LEMMA TakeStep ==
  ASSUME IInv, NEW t \in Tasks, Take(t)
  PROVE  IInv'
<1>1. TypeOK /\ BootFirst
  BY DEF IInv
<1>2. /\ pc[t] = "take" /\ pc' = [pc EXCEPT ![t] = pc'[t]]
      /\ pc'[t] = IF target[t] = None THEN "opened" ELSE "select"
      /\ open' = open
      /\ UNCHANGED <<running, created, selVars, hwVars, target>>
  BY <1>1 DEF Take, At, Goto, TypeOK
<1>3. running /\ t # Boot
  BY <1>1, <1>2, Caller DEF Held, CallOf, Away, BootFirst
<1>4. Frame(t)
  BY <1>1 DEF Take, Goto, TypeOK, Frame
<1>5. TypeOK'
  <2>1. pc' \in [Tasks -> Steps]
    BY <1>1, <1>2 DEF TypeOK, Steps
  <2>2. QED
    BY <1>1, <2>1 DEF Take, TypeOK, selVars, hwVars
<1>6. ASSUME Held(t)
      PROVE  IInv'
  <2>1. Holds(t)' > 0 /\ OwnedBy(t)'
    <3>1. Len(open[t]) \in Nat
      BY <1>1, TypeFacts, LenProperties
    <3>2. ~Opening(t) /\ Opening(t)'
      BY <1>2 DEF Opening
    <3>3. Holds(t) = Len(open[t]) /\ Holds(t)' = Len(open[t]) + 1
      BY <1>2, <3>1, <3>2 DEF Holds
    <3>4. QED
      BY <1>2, <1>3, <1>6, <3>1, <3>3 DEF Take, Held, OwnedBy
  <2>2. CallOf(t)'
    BY <1>2 DEF CallOf
  <2>3. OneDevice(t)'
    BY <1>2, <1>6 DEF Held, OneDevice, selVars
  <2>4. ChipSelect(t)'
    <3>1. Selections(t)' = Selections(t)
      BY <1>2 DEF Selections, Closing
    <3>2. QED
      BY <1>2, <1>6, <3>1 DEF Held, ChipSelect, selVars
  <2>5. BytesOf(t)' /\ Quiet(t)'
    BY <1>2, <1>6 DEF Held, BytesOf, Quiet, selVars, hwVars
  <2>6. QED
    BY <1>4, <1>5, <1>6, <2>1, <2>2, <2>3, <2>4, <2>5, HolderMoves
<1>7. CASE Away(t)
  <2>1. Free
    <3>1. ASSUME NEW h \in Tasks, Held(h)
          PROVE  FALSE
      <4>1. h = t
        BY <1>3, <3>1, SpiBusAssumption DEF Held, OwnedBy, Take
      <4>2. QED
        BY <1>7, <3>1, <4>1, AwayHoldsNothing DEF Held
    <3>2. QED
      BY <3>1 DEF IInv
  <2>2. Holds(t)' = 1
    <3>1. Opening(t)' /\ Len(open'[t]) = 0
      BY <1>2, <1>7 DEF Opening, Away
    <3>2. QED
      BY <3>1 DEF Holds
  <2>3. OwnedBy(t)'
    BY <1>2, <1>3, <1>7, <2>1, <2>2 DEF Take, Free, Away, OwnedBy
  <2>4. BootFirst'
    BY <1>1, <1>2, <1>3, <1>4, SpiBusAssumption DEF BootFirst, Frame
  <2>5. /\ open'[t] = <<>> /\ pc'[t] \in {"select", "opened"}
        /\ target'[t] = None <=> pc'[t] = "opened"
    BY <1>2, <1>7 DEF Away
  <2>6. QED
    BY <1>2, <1>4, <1>5, <2>1, <2>3, <2>4, <2>5, FirstMoves
<1>8. QED
  BY <1>6, <1>7, Caller

(* The scheduler starts with the bus at rest. *)
LEMMA StartSchedulerStep ==
  ASSUME IInv, StartScheduler
  PROVE  IInv'
<1>1. Away(Boot) /\ ~running /\ TypeOK /\ BootFirst
  BY DEF StartScheduler, Away, IInv
<1>2. Free
  <2>1. ASSUME NEW h \in Tasks, Held(h)
        PROVE  FALSE
    BY <1>1, <2>1, AwayHoldsNothing DEF Held, OwnedBy
  <2>2. QED
    BY <2>1 DEF IInv
<1>3. Free'
  BY <1>1, <1>2 DEF StartScheduler, Free, Away, busVars, selVars, hwVars
<1>4. BootFirst'
  BY DEF StartScheduler, BootFirst
<1>5. TypeOK'
  BY <1>1 DEF StartScheduler, TypeOK, busVars, selVars, hwVars
<1>6. QED
  BY <1>3, <1>4, <1>5 DEF IInv

-----------------------------------------------------------------------------
(* The invariant, and what follows from it. *)

(* The invariant holds in every state of every behaviour: no step of a     *)
(* task, of the SPI or of the start of the scheduler breaks it.            *)
THEOREM SpiInvariant == Spec => []IInv
<1>1. Init => IInv
  <2> SUFFICES ASSUME Init
               PROVE  IInv
    OBVIOUS
  <2>1. TypeOK
    <3>1. \A S : <<>> \in Seq(S)
      BY EmptySeq
    <3>2. pc \in [Tasks -> Steps] /\ target \in [Tasks -> Devices \cup {None}]
      BY DEF Init, Steps
    <3>3. open \in [Tasks -> Seq(Devices \cup {None})]
      BY <3>1 DEF Init
    <3>4. QED
      BY <3>1, <3>2, <3>3, EmptyFifo DEF Init, TypeOK
  <2>2. BootFirst /\ Free
    BY SpiBusAssumption DEF Init, BootFirst, Free, Away
  <2>3. QED
    BY <2>1, <2>2 DEF IInv
<1>2. IInv /\ [Next]_vars => IInv'
  <2> SUFFICES ASSUME IInv, [Next]_vars
               PROVE  IInv'
    OBVIOUS
  <2>1. CASE StartScheduler
    BY <2>1, StartSchedulerStep
  <2>2. CASE Shift
    BY <2>2, ShiftStep
  <2>3. ASSUME NEW t \in Tasks, TaskStep(t)
        PROVE  IInv'
    <3>1. CASE \E d \in Devices \cup {None} : Call(t, d)
      BY <3>1, CallStep
    <3>2. CASE MutexGet(t) \/ Take(t)
      BY <3>2, MutexGetStep, TakeStep
    <3>3. CASE SelectCheck(t) \/ AssertCs(t) \/ SelectDepth(t) \/ Opened(t)
      BY <3>3, SelectCheckStep, AssertCsStep, SelectDepthStep, OpenedStep
    <3>4. CASE Unlock(t) \/ Deselect(t) \/ ReleaseCs(t) \/ Give(t)
      BY <3>4, UnlockStep, DeselectStep, ReleaseCsStep, GiveStep
    <3>5. CASE Stream(t) \/ Sent(t) \/ Answer(t)
      BY <3>5, StreamStep, SentStep, AnswerStep
    <3>6. CASE \E answer \in BOOLEAN : Transmit(t, answer)
      BY <3>6, TransmitStep
    <3>7. QED
      BY <2>3, <3>1, <3>2, <3>3, <3>4, <3>5, <3>6 DEF TaskStep
  <2>4. CASE UNCHANGED vars
    <3>1. UNCHANGED <<running, busVars, selVars, hwVars, pc, target, open>>
      BY <2>4 DEF vars
    <3> USE <3>1 DEF busVars, selVars, hwVars
    <3>2. TypeOK' /\ BootFirst'
      BY DEF IInv, TypeOK, BootFirst
    <3>3. Free => Free'
      BY DEF Free, Away
    <3>4. ASSUME NEW h \in Tasks, Held(h)
          PROVE  Held(h)'
      <4>1. Selections(h)' = Selections(h) /\ Holds(h)' = Holds(h)
        BY DEF Selections, Closing, Holds, Opening
      <4>2. /\ (\A u \in Tasks \ {h} : Away(u)') /\ OwnedBy(h)'
            /\ CallOf(h)' /\ OneDevice(h)' /\ ChipSelect(h)'
            /\ BytesOf(h)' /\ Quiet(h)'
        BY <3>4, <4>1 DEF Held, Away, OwnedBy, CallOf, Top, OneDevice,
                          ChipSelect, BytesOf, Quiet
      <4>3. QED
        BY <3>4, <4>1, <4>2 DEF Held
    <3>5. QED
      BY <3>2, <3>3, <3>4 DEF IInv
  <2>5. QED
    BY <2>1, <2>2, <2>3, <2>4 DEF Next
<1>3. QED
  BY <1>1, <1>2, PTL DEF Spec

(* Every variable keeps its type. *)
THEOREM TypeCorrect == Spec => []TypeOK
<1>1. IInv => TypeOK
  BY DEF IInv
<1>2. QED
  BY <1>1, SpiInvariant, PTL

(* The bus is at rest, or the one task that holds it is known. *)
LEMMA FreeOrHeld ==
  ASSUME IInv
  PROVE  \/ Free /\ \A u \in Tasks : Holds(u) = 0
         \/ \E h \in Tasks : /\ Held(h) /\ Holds(h) > 0
                             /\ \A u \in Tasks \ {h} : Holds(u) = 0
<1>1. CASE Free
  BY <1>1, AwayHoldsNothing DEF Free
<1>2. ASSUME NEW h \in Tasks, Held(h)
      PROVE  \A u \in Tasks \ {h} : Holds(u) = 0
  BY <1>2, AwayHoldsNothing DEF Held
<1>3. QED
  BY <1>1, <1>2 DEF IInv, Held

(* Locks and selections exclude each other, and the recursive mutex counts *)
(* exactly what its owner has open, however calls nest and tasks preempt.  *)
THEOREM ExclusiveBus == Spec => []BusIsExclusive
<1>1. IInv => BusIsExclusive
  <2> SUFFICES ASSUME IInv
               PROVE  BusIsExclusive
    OBVIOUS
  <2>1. CASE Free /\ \A u \in Tasks : Holds(u) = 0
    BY <2>1 DEF Free, BusIsExclusive
  <2>2. ASSUME NEW h \in Tasks, Held(h), Holds(h) > 0,
               \A u \in Tasks \ {h} : Holds(u) = 0
        PROVE  BusIsExclusive
    <3>1. \A t \in Tasks : Holds(t) > 0 => t = h
      BY <2>2
    <3>2. CASE running
      BY <2>2, <3>1, <3>2 DEF Held, OwnedBy, BusIsExclusive
    <3>3. CASE ~running
      BY <2>2, <3>1, <3>3 DEF Held, OwnedBy, BusIsExclusive
    <3>4. QED
      BY <3>2, <3>3
  <2>3. QED
    BY <2>1, <2>2, FreeOrHeld
<1>2. QED
  BY <1>1, SpiInvariant, PTL

(* select_depth counts what its task has selected, and the chip select is  *)
(* low exactly meanwhile.                                                  *)
THEOREM BalancedSelections == Spec => []SelectionsBalance
<1>1. IInv => SelectionsBalance
  <2> SUFFICES ASSUME IInv
               PROVE  SelectionsBalance
    OBVIOUS
  <2>1. CASE Free /\ \A u \in Tasks : Holds(u) = 0
    BY <2>1 DEF Free, Away, SelectionsBalance
  <2>2. ASSUME NEW h \in Tasks, Held(h), Holds(h) > 0,
               \A u \in Tasks \ {h} : Holds(u) = 0
        PROVE  SelectionsBalance
    <3>1. \A t \in Tasks : Holds(t) > 0 => select_depth = Selections(t)
      BY <2>2 DEF Held, ChipSelect
    <3>2. ~ \A t \in Tasks : Holds(t) = 0
      BY <2>2
    <3>3. ASSUME NEW t \in Tasks
          PROVE  /\ pc[t] = "select" => selected \in {None, target[t]}
                 /\ pc[t] = "release_cs" =>
                      selected = target[t] /\ low = {selected}
                 /\ pc[t] = "idle" /\ select_depth > 0 /\ Holds(t) > 0 =>
                      selected # None /\ low = {selected}
      <4>1. CASE t = h
        <5>1. TypeOK
          BY DEF IInv
        <5>2. pc[t] = "select" /\ selected # None => selected = target[t]
          BY <2>2, <4>1, <5>1, TypeFacts
             DEF Held, ChipSelect, OneDevice, CallOf, Selections, Closing
        <5>3. QED
          BY <2>2, <4>1, <5>1, <5>2, TypeFacts DEF Held, ChipSelect
      <4>2. CASE t # h
        BY <2>2, <4>2 DEF Held, Away
      <4>3. QED
        BY <4>1, <4>2
    <3>4. QED
      BY <3>1, <3>2, <3>3 DEF SelectionsBalance
  <2>3. QED
    BY <2>1, <2>2, FreeOrHeld
<1>2. QED
  BY <1>1, SpiInvariant, PTL

(* No byte leaves while another device, or none, is selected, and none is  *)
(* left behind for the next user of the bus.                               *)
THEOREM DeliveredBytes == Spec => []BytesReachTheirDevice
<1>1. IInv => BytesReachTheirDevice
  <2> SUFFICES ASSUME IInv
               PROVE  BytesReachTheirDevice
    OBVIOUS
  <2>1. CASE Free
    BY <2>1 DEF Free, BytesReachTheirDevice
  <2>2. ASSUME NEW h \in Tasks, Held(h)
        PROVE  BytesReachTheirDevice
    <3> SUFFICES ASSUME NEW i \in DOMAIN tx
                 PROVE  low = {tx[i].dev} \ {None} /\ Holds(tx[i].task) > 0
      BY DEF BytesReachTheirDevice
    <3>1. /\ tx[i].task = h /\ tx[i].dev = selected
          /\ pc[h] \in {"sent", "release_cs"} \/ select_depth > 0
      BY <2>2 DEF Held, BytesOf
    <3>2. TypeOK /\ select_depth \in Nat /\ h # None
      BY TypeFacts DEF IInv
    <3>3. low = {selected} \ {None}
      <4>1. CASE pc[h] \in {"assert_cs", "depth", "release_cs"}
        BY <2>2, <3>1, <3>2, <4>1, TypeFacts DEF Held, ChipSelect, CallOf
      <4>2. CASE pc[h] \notin {"assert_cs", "depth", "release_cs"}
        BY <2>2, <3>1, <3>2, <4>2 DEF Held, ChipSelect
      <4>3. QED
        BY <4>1, <4>2
    <3>4. QED
      BY <2>2, <3>1, <3>3 DEF Held
  <2>3. QED
    BY <2>1, <2>2 DEF IInv
<1>2. QED
  BY <1>1, SpiInvariant, PTL

(* bsp_spi_transfer returns the answer to the byte it sent. *)
THEOREM OwnAnswers == Spec => []AnswersAreOwn
<1>1. IInv => AnswersAreOwn
  <2> SUFFICES ASSUME IInv, NEW t \in Tasks, pc[t] = "answer", tx = <<>>
               PROVE  rx = <<t>>
    BY DEF AnswersAreOwn
  <2>1. Held(t)
    BY Caller DEF Away
  <2>2. Len(tx) # 1
    OBVIOUS
  <2>3. QED
    BY <2>1, <2>2 DEF Held, Quiet
<1>2. QED
  BY <1>1, SpiInvariant, PTL

=============================================================================
