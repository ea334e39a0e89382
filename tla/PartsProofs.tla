---------------------------- MODULE PartsProofs -----------------------------
(***************************************************************************)
(* Proofs about five parts that share no state: the critical sections of   *)
(* sys.h, the kernel's heap, the byte queue, the application's key log and *)
(* the text renderer.  First each for itself, for every value of its       *)
(* constants, then for the behaviours in which they run side by side.      *)
(***************************************************************************)
EXTENDS MCParts, ListProofs, FiniteSetTheorems, TLAPS

-----------------------------------------------------------------------------
(* The inductive invariant: what each context has open, and what the two   *)
(* mechanisms have noted of it.                                            *)

Entries == [kind : {"section", "suspension"}, state : BOOLEAN,
            masked : BOOLEAN]

(* A task suspends the scheduler k times and then opens sections.  The     *)
(* outermost of them finds interrupts on, unless "early", before the       *)
(* scheduler's start; the others find them off.  By the mask, "noted", a   *)
(* section remembers what it found.                                        *)
Stack(s, k, early, noted) ==
  /\ k \in 0 .. Len(s) /\ Len(s) <= MaxNest
  /\ \A i \in 1 .. Len(s) :
       /\ s[i].kind = IF i <= k THEN "suspension" ELSE "section"
       /\ i > k + 1 => s[i].masked
       /\ i = k + 1 => early \/ ~ s[i].masked
       /\ i > k /\ noted => s[i].state = s[i].masked

(* The sections a task opens now are counted by the kernel. *)
Counted == xSchedulerRunning /\ uxSchedulerSuspended = 0

(* A handler starts without anything open and ends so, and the task it     *)
(* interrupts is in no section; a task that does not run has nothing open. *)
Contexts ==
  /\ \A t \in Tasks \ {current} : open[t] = <<>>
  /\ ~ in_isr => open[Isr] = <<>>
  /\ in_isr => Len(open[current]) = uxSchedulerSuspended
  /\ Stack(open[current], uxSchedulerSuspended, ~ xSchedulerRunning,
           ~ Counted)
  /\ Stack(open[Isr], 0, FALSE, TRUE)

(* The count is that of the sections it counts; before the scheduler's     *)
(* start it is out of use.                                                 *)
CountIsExact ==
  ulCriticalNesting =
    IF ~ xSchedulerRunning THEN InitialNesting
    ELSE IF uxSchedulerSuspended = 0 THEN Len(open[current]) ELSE 0

(* How many of the things the runner has open are sections. *)
Sections ==
  Len(open[Critical!Runner]) - (IF in_isr THEN 0 ELSE uxSchedulerSuspended)

(* Interrupts are off in a section, and on outside but for the kernel's    *)
(* calls before the start.                                                 *)
MaskIsExact ==
  /\ Sections > 0 => primask
  /\ Sections = 0 /\ (xSchedulerRunning \/ in_isr) => ~ primask

SectionInv == Critical!TypeOK /\ Contexts /\ CountIsExact /\ MaskIsExact

-----------------------------------------------------------------------------
(* What a context has open, as it opens and closes. *)

(* Opening adds one entry at the end. *)
LEMMA Opened ==
  ASSUME NEW s \in Seq(Entries), NEW e \in Entries
  PROVE  /\ Append(s, e) \in Seq(Entries)
         /\ Len(s) \in Nat /\ Len(Append(s, e)) = Len(s) + 1
         /\ \A i \in 1 .. Len(s) : Append(s, e)[i] = s[i]
         /\ Append(s, e)[Len(s) + 1] = e
BY AppendProperties, LenProperties

(* Closing takes the last one away. *)
LEMMA Closed ==
  ASSUME NEW s \in Seq(Entries), s # <<>>
  PROVE  /\ Critical!Front(s) \in Seq(Entries)
         /\ Len(s) \in Nat \ {0} /\ Len(Critical!Front(s)) = Len(s) - 1
         /\ \A i \in 1 .. Len(s) - 1 : Critical!Front(s)[i] = s[i]
         /\ Critical!Last(s) \in Entries /\ Critical!Last(s) = s[Len(s)]
<1>1. Len(s) \in Nat \ {0}
  BY EmptySeq
<1>2. \A i \in 1 .. Len(s) - 1 : s[i] \in Entries
  BY <1>1, ElementOfSeq
<1>3. 1 \in Int /\ Len(s) - 1 \in Int
  BY <1>1
<1>4. /\ SubSeq(s, 1, Len(s) - 1) \in Seq(Entries)
      /\ Len(SubSeq(s, 1, Len(s) - 1))
           = IF 1 <= Len(s) - 1 THEN Len(s) - 1 - 1 + 1 ELSE 0
      /\ \A i \in 1 .. Len(s) - 1 - 1 + 1 :
           SubSeq(s, 1, Len(s) - 1)[i] = s[1 + i - 1]
  BY <1>2, <1>3, SubSeqProperties
<1>5. s[Len(s)] \in Entries
  BY <1>1, ElementOfSeq
<1>6. /\ Len(s) - 1 - 1 + 1 = Len(s) - 1
      /\ \A i \in 1 .. Len(s) - 1 : 1 + i - 1 = i
  BY <1>1
<1>7. /\ Len(SubSeq(s, 1, Len(s) - 1)) = Len(s) - 1
      /\ \A i \in 1 .. Len(s) - 1 : SubSeq(s, 1, Len(s) - 1)[i] = s[i]
  BY <1>1, <1>4, <1>6
<1>8. QED
  BY <1>1, <1>4, <1>5, <1>7 DEF Critical!Front, Critical!Last

(* A section goes on top of what is open ... *)
LEMMA SectionOpened ==
  ASSUME NEW s \in Seq(Entries), NEW e \in Entries, NEW k,
         NEW early, NEW noted, Stack(s, k, early, noted),
         Len(s) < MaxNest, MaxNest \in Nat, e.kind = "section",
         IF Len(s) = k THEN early \/ ~ e.masked ELSE e.masked,
         noted => e.state = e.masked
  PROVE  Stack(Append(s, e), k, early, noted)
BY Opened DEF Stack

(* ... and leaves the rest as it was. *)
LEMMA SectionClosed ==
  ASSUME NEW s \in Seq(Entries), NEW k, NEW early, NEW noted,
         Stack(s, k, early, noted), Len(s) > k, MaxNest \in Nat
  PROVE  Stack(Critical!Front(s), k, early, noted)
<1>1. s # <<>>
  BY DEF Stack
<1>2. /\ Len(s) \in Nat \ {0} /\ Len(Critical!Front(s)) = Len(s) - 1
      /\ \A i \in 1 .. Len(s) - 1 : Critical!Front(s)[i] = s[i]
  BY <1>1, Closed
<1>3. QED
  BY <1>2 DEF Stack

(* The scheduler is suspended outside sections ... *)
LEMMA SuspensionOpened ==
  ASSUME NEW s \in Seq(Entries), NEW e \in Entries, NEW k,
         NEW early, NEW noted, NEW noted2, Stack(s, k, early, noted),
         Len(s) < MaxNest, MaxNest \in Nat, e.kind = "suspension",
         Len(s) = k
  PROVE  Stack(Append(s, e), k + 1, early, noted2)
BY Opened DEF Stack

(* ... and resumed there. *)
LEMMA SuspensionClosed ==
  ASSUME NEW s \in Seq(Entries), NEW k, NEW early, NEW noted, NEW noted2,
         Stack(s, k, early, noted), Len(s) = k, s # <<>>, MaxNest \in Nat
  PROVE  Stack(Critical!Front(s), k - 1, early, noted2)
<1>1. /\ Len(s) \in Nat \ {0} /\ Len(Critical!Front(s)) = Len(s) - 1
      /\ \A i \in 1 .. Len(s) - 1 : Critical!Front(s)[i] = s[i]
  BY Closed
<1>2. QED
  BY <1>1 DEF Stack

(* A context is in a section if it has more open than suspensions. *)
LEMMA InSection ==
  ASSUME SectionInv, NEW c \in Tasks \cup {Isr}
  PROVE  Critical!Has(c, "section") <=>
           \/ c = current /\ Len(open[current]) > uxSchedulerSuspended
           \/ c = Isr /\ open[Isr] # <<>>
<1> USE DEF SectionInv, Contexts
<1>1. /\ open[c] \in Seq(Entries) /\ open[Isr] \in Seq(Entries)
      /\ current \in Tasks
  BY DEF Critical!TypeOK, Entries
<1>2. Len(open[c]) \in Nat /\ DOMAIN open[c] = 1 .. Len(open[c])
      /\ (open[c] # <<>> => Len(open[c]) # 0) /\ DOMAIN <<>> = {}
  BY <1>1, LenProperties, EmptySeq
<1>3. CASE c = current
  BY <1>2, <1>3 DEF Critical!Has, Stack
<1>4. CASE c = Isr
  BY <1>2, <1>4 DEF Critical!Has, Stack
<1>5. CASE c # current /\ c # Isr
  BY <1>2, <1>5 DEF Critical!Has
<1>6. QED
  BY <1>3, <1>4, <1>5

-----------------------------------------------------------------------------
(* Every step preserves the invariant. *)

(* What the steps need to know of the state they start from. *)
LEMMA SectionFacts ==
  ASSUME Critical!CriticalSectionConstants, SectionInv
  PROVE  /\ current \in Tasks /\ current # Isr /\ Isr \notin Tasks
         /\ Critical!Runner = IF in_isr THEN Isr ELSE current
         /\ MaxNest \in Nat /\ InitialNesting \in Nat
         /\ InitialNesting > MaxNest
         /\ open \in [Tasks \cup {Isr} -> Seq(Entries)]
         /\ open[current] \in Seq(Entries) /\ open[Isr] \in Seq(Entries)
         /\ Len(open[current]) \in Nat /\ Len(open[Isr]) \in Nat
         /\ (open[current] = <<>>) <=> (Len(open[current]) = 0)
         /\ (open[Isr] = <<>>) <=> (Len(open[Isr]) = 0)
         /\ uxSchedulerSuspended \in 0 .. Len(open[current])
         /\ Len(open[current]) <= MaxNest /\ Len(open[Isr]) <= MaxNest
         /\ primask \in BOOLEAN /\ xSchedulerRunning \in BOOLEAN
         /\ in_isr \in BOOLEAN
         /\ Critical!ByMask \in BOOLEAN
<1>1. /\ open \in [Tasks \cup {Isr} -> Seq(Entries)] /\ current \in Tasks
      /\ primask \in BOOLEAN /\ xSchedulerRunning \in BOOLEAN
      /\ in_isr \in BOOLEAN
  BY DEF SectionInv, Critical!TypeOK, Entries
<1>2. open[current] \in Seq(Entries) /\ open[Isr] \in Seq(Entries)
  BY <1>1
<1>3. \A q \in Seq(Entries) :
        Len(q) \in Nat /\ ((q = <<>>) <=> (Len(q) = 0))
  BY EmptySeq, LenProperties
<1>4. /\ uxSchedulerSuspended \in 0 .. Len(open[current])
      /\ Len(open[current]) <= MaxNest /\ Len(open[Isr]) <= MaxNest
  BY DEF SectionInv, Contexts, Stack
<1>5. QED
  BY <1>1, <1>2, <1>3, <1>4
     DEF Critical!CriticalSectionConstants, Critical!Runner, Critical!ByMask

(* The new entry of a context that opens something. *)
Entry(kind, state) == [kind |-> kind, state |-> state, masked |-> primask]

(* A section is entered by the mechanism that will leave it. *)
LEMMA EnterStep ==
  ASSUME Critical!CriticalSectionConstants, SectionInv,
         Critical!bsp_sys_enter_critical
  PROVE  SectionInv'
<1> DEFINE e == Entry("section", Critical!ByMask /\ primask)
<1>1. /\ e \in Entries /\ e.kind = "section" /\ e.masked = primask
      /\ e.state = (Critical!ByMask /\ primask)
  BY SectionFacts DEF Entry, Entries
<1>2. open' = [open EXCEPT ![Critical!Runner] = Append(@, e)]
  BY DEF Critical!bsp_sys_enter_critical, Critical!Opens, Entry
<1> HIDE DEF e
<1>3. Len(open[Critical!Runner]) < MaxNest
  BY DEF Critical!bsp_sys_enter_critical, Critical!Opens
<1>4. CASE in_isr
  <2>1. /\ Critical!Runner = Isr /\ Critical!ByMask
        /\ open'[Isr] = Append(open[Isr], e)
        /\ \A t \in Tasks : open'[t] = open[t]
    BY <1>2, <1>4, SectionFacts DEF Critical!ByMask
  <2>2. Len(open[Isr]) # 0 <=> primask
    BY <1>4, SectionFacts DEF SectionInv, MaskIsExact, Sections
  <2>3. Stack(open'[Isr], 0, FALSE, TRUE)
    <3>1. Stack(open[Isr], 0, FALSE, TRUE)
      BY DEF SectionInv, Contexts
    <3>2. /\ IF Len(open[Isr]) = 0 THEN FALSE \/ ~ e.masked ELSE e.masked
          /\ TRUE => e.state = e.masked
      BY <1>1, <2>1, <2>2, SectionFacts
    <3>3. /\ open[Isr] \in Seq(Entries) /\ Len(open[Isr]) < MaxNest
          /\ MaxNest \in Nat
      BY <1>3, <2>1, SectionFacts
    <3>4. QED
      BY <1>1, <2>1, <3>1, <3>2, <3>3, SectionOpened
  <2>4. Contexts'
    BY <1>4, <2>1, <2>3, SectionFacts
       DEF SectionInv, Contexts, Critical!bsp_sys_enter_critical, Counted
  <2>5. CountIsExact'
    BY <1>4, <2>1, SectionFacts
       DEF SectionInv, CountIsExact, Critical!bsp_sys_enter_critical,
           Critical!TypeOK
  <2>6. Critical!TypeOK'
    <3>1. open' \in [Tasks \cup {Isr} -> Seq(Entries)]
      BY <1>1, <1>2, <2>1, SectionFacts, Opened
    <3>2. QED
      BY <2>1, <3>1
         DEF SectionInv, Critical!TypeOK, Critical!bsp_sys_enter_critical,
             Entries
  <2>7. MaskIsExact'
    BY <1>1, <1>4, <2>1, SectionFacts, Opened
       DEF MaskIsExact, Sections, Critical!Runner,
           Critical!bsp_sys_enter_critical
  <2>8. QED
    BY <2>4, <2>5, <2>6, <2>7 DEF SectionInv
<1>5. CASE ~ in_isr
  <2>1. /\ Critical!Runner = current /\ (Critical!ByMask <=> ~ Counted)
        /\ open'[current] = Append(open[current], e)
        /\ \A t \in (Tasks \cup {Isr}) \ {current} : open'[t] = open[t]
    BY <1>2, <1>5, SectionFacts DEF Critical!ByMask, Counted
  <2>2. /\ Len(open[current]) > uxSchedulerSuspended => primask
        /\ Len(open[current]) = uxSchedulerSuspended =>
             ~ xSchedulerRunning \/ ~ primask
    BY <1>5, SectionFacts DEF SectionInv, MaskIsExact, Sections
  <2>3. Stack(open'[current], uxSchedulerSuspended, ~ xSchedulerRunning,
              ~ Counted)
    <3>1. Stack(open[current], uxSchedulerSuspended, ~ xSchedulerRunning,
                ~ Counted)
      BY DEF SectionInv, Contexts
    <3>2. /\ IF Len(open[current]) = uxSchedulerSuspended
             THEN ~ xSchedulerRunning \/ ~ e.masked ELSE e.masked
          /\ ~ Counted => e.state = e.masked
      BY <1>1, <2>1, <2>2, SectionFacts
    <3>3. QED
      BY <1>1, <1>3, <2>1, <3>1, <3>2, SectionFacts, SectionOpened
  <2>4. Contexts'
    BY <1>5, <2>1, <2>3, SectionFacts
       DEF SectionInv, Contexts, Critical!bsp_sys_enter_critical, Counted
  <2>5. Len(open'[current]) = Len(open[current]) + 1
    BY <1>1, <2>1, SectionFacts, Opened
  <2>6. CountIsExact'
    BY <1>5, <2>1, <2>5, SectionFacts
       DEF SectionInv, CountIsExact, Critical!bsp_sys_enter_critical, Counted
  <2>7. Critical!TypeOK'
    <3>1. open' \in [Tasks \cup {Isr} -> Seq(Entries)]
      BY <1>1, <1>2, <2>1, SectionFacts, Opened
    <3>2. ulCriticalNesting' \in 0 .. InitialNesting
      BY <1>3, <1>5, <2>1, <2>5, <2>6, SectionFacts
         DEF CountIsExact, Critical!bsp_sys_enter_critical
    <3>3. QED
      BY <3>1, <3>2
         DEF SectionInv, Critical!TypeOK, Critical!bsp_sys_enter_critical,
             Entries
  <2>8. MaskIsExact'
    BY <1>5, <2>1, <2>5, SectionFacts
       DEF MaskIsExact, Sections, Critical!Runner,
           Critical!bsp_sys_enter_critical
  <2>9. QED
    BY <2>4, <2>6, <2>7, <2>8 DEF SectionInv
<1>6. QED
  BY <1>4, <1>5

(* A section is left by the mechanism that entered it, which puts the mask *)
(* back.                                                                   *)
LEMMA ExitStep ==
  ASSUME Critical!CriticalSectionConstants, SectionInv,
         Critical!bsp_sys_exit_critical
  PROVE  SectionInv' /\ primask' = Critical!Last(open[Critical!Runner]).masked
<1>1. /\ open[Critical!Runner] # <<>>
      /\ Critical!Last(open[Critical!Runner]).kind = "section"
      /\ open' = [open EXCEPT ![Critical!Runner] = Critical!Front(@)]
  BY DEF Critical!bsp_sys_exit_critical, Critical!Closes
<1>2. CASE in_isr
  <2>1. /\ Critical!Runner = Isr /\ Critical!ByMask
        /\ open'[Isr] = Critical!Front(open[Isr])
        /\ \A t \in Tasks : open'[t] = open[t]
        /\ open[Isr] # <<>>
    BY <1>1, <1>2, SectionFacts DEF Critical!ByMask
  <2>2. /\ Critical!Front(open[Isr]) \in Seq(Entries)
        /\ Len(open[Isr]) \in Nat \ {0}
        /\ Len(open'[Isr]) = Len(open[Isr]) - 1
        /\ Critical!Last(open[Isr]) \in Entries
        /\ Critical!Last(open[Isr]) = open[Isr][Len(open[Isr])]
    BY <2>1, SectionFacts, Closed
  <2>3. /\ primask' = Critical!Last(open[Isr]).masked
        /\ primask' <=> Len(open'[Isr]) # 0
        /\ primask' \in BOOLEAN
    <3>1. Stack(open[Isr], 0, FALSE, TRUE)
      BY DEF SectionInv, Contexts
    <3>2. /\ Critical!Last(open[Isr]).state = Critical!Last(open[Isr]).masked
          /\ Len(open[Isr]) > 1 => Critical!Last(open[Isr]).masked
          /\ Len(open[Isr]) = 1 => ~ Critical!Last(open[Isr]).masked
      BY <2>2, <3>1 DEF Stack
    <3>3. primask' = Critical!Last(open[Isr]).state
      BY <2>1 DEF Critical!bsp_sys_exit_critical
    <3>4. Critical!Last(open[Isr]).masked \in BOOLEAN
      BY <2>2 DEF Entries
    <3>5. CASE Len(open[Isr]) = 1
      <4>1. ~ Critical!Last(open[Isr]).masked /\ ~ (Len(open'[Isr]) # 0)
        BY <2>2, <3>2, <3>5
      <4>2. QED
        BY <3>2, <3>3, <3>4, <4>1
    <3>6. CASE Len(open[Isr]) > 1
      <4>1. Critical!Last(open[Isr]).masked /\ Len(open'[Isr]) # 0
        BY <2>2, <3>2, <3>6
      <4>2. QED
        BY <3>2, <3>3, <3>4, <4>1
    <3>7. Len(open[Isr]) = 1 \/ Len(open[Isr]) > 1
      <4>1. \A n \in Nat \ {0} : n = 1 \/ n > 1
        OBVIOUS
      <4>2. QED
        BY <2>2, <4>1
    <3>8. QED
      BY <3>5, <3>6, <3>7
  <2>4. Contexts'
    <3>1. Stack(open'[Isr], 0, FALSE, TRUE)
      <4>1. Stack(open[Isr], 0, FALSE, TRUE)
        BY DEF SectionInv, Contexts
      <4>2. open[Isr] \in Seq(Entries) /\ Len(open[Isr]) > 0
        BY <2>2, SectionFacts
      <4>3. open'[Isr] = Critical!Front(open[Isr])
        BY <2>1
      <4>4. Stack(Critical!Front(open[Isr]), 0, FALSE, TRUE)
        BY <4>1, <4>2, SectionFacts, SectionClosed
      <4>5. QED
        BY <4>3, <4>4
    <3>2. QED
      BY <1>2, <2>1, <3>1, SectionFacts
         DEF SectionInv, Contexts, Critical!bsp_sys_exit_critical, Counted
  <2>5. CountIsExact'
    BY <1>2, <2>1, SectionFacts
       DEF SectionInv, CountIsExact, Critical!bsp_sys_exit_critical
  <2>6. Critical!TypeOK'
    <3>1. open' \in [Tasks \cup {Isr} -> Seq(Entries)]
      BY <1>1, <2>1, <2>2, SectionFacts
    <3>2. QED
      BY <2>1, <2>3, <3>1
         DEF SectionInv, Critical!TypeOK, Critical!bsp_sys_exit_critical,
             Entries
  <2>7. MaskIsExact'
    BY <1>2, <2>1, <2>2, <2>3, SectionFacts
       DEF MaskIsExact, Sections, Critical!Runner,
           Critical!bsp_sys_exit_critical
  <2>8. QED
    BY <2>1, <2>3, <2>4, <2>5, <2>6, <2>7 DEF SectionInv
<1>3. CASE ~ in_isr
  <2> DEFINE s == open[current]
             k == uxSchedulerSuspended
  <2>1. /\ Critical!Runner = current /\ (Critical!ByMask <=> ~ Counted)
        /\ open'[current] = Critical!Front(s) /\ s # <<>>
        /\ \A t \in (Tasks \cup {Isr}) \ {current} : open'[t] = open[t]
        /\ Critical!Last(s).kind = "section"
    BY <1>1, <1>3, SectionFacts DEF Critical!ByMask, Counted
  <2>2. /\ Critical!Front(s) \in Seq(Entries) /\ Len(s) \in Nat \ {0}
        /\ Len(open'[current]) = Len(s) - 1
        /\ Critical!Last(s) \in Entries /\ Critical!Last(s) = s[Len(s)]
    BY <2>1, SectionFacts, Closed
  <2>3. Stack(s, k, ~ xSchedulerRunning, ~ Counted)
    BY DEF SectionInv, Contexts
  <2>4. /\ Len(s) > k
        /\ ~ Counted => Critical!Last(s).state = Critical!Last(s).masked
        /\ Len(s) > k + 1 => Critical!Last(s).masked
        /\ Len(s) = k + 1 => ~ xSchedulerRunning \/ ~ Critical!Last(s).masked
    <3>1. /\ Critical!Last(s).kind =
               IF Len(s) <= k THEN "suspension" ELSE "section"
          /\ Len(s) > k + 1 => Critical!Last(s).masked
          /\ Len(s) = k + 1 =>
               ~ xSchedulerRunning \/ ~ Critical!Last(s).masked
          /\ Len(s) > k /\ ~ Counted =>
               Critical!Last(s).state = Critical!Last(s).masked
      BY <2>2, <2>3 DEF Stack
    <3>2. Len(s) > k
      BY <2>1, <2>2, <3>1, SectionFacts
    <3>3. QED
      BY <3>1, <3>2
  <2>5. primask /\ (Counted => ulCriticalNesting = Len(s))
    BY <1>3, <2>4, SectionFacts
       DEF SectionInv, MaskIsExact, Sections, CountIsExact, Counted
  <2>6. primask' = Critical!Last(s).masked /\ primask' \in BOOLEAN
    <3>1. Critical!Last(s).masked \in BOOLEAN
      BY <2>2 DEF Entries
    <3>2. CASE Counted
      <4>1. primask' = (primask /\ ulCriticalNesting # 1)
        BY <2>1, <3>2 DEF Critical!bsp_sys_exit_critical
      <4>2. k = 0 /\ xSchedulerRunning
        BY <3>2 DEF Counted
      <4>3. primask' <=> Len(s) # 1
        BY <2>5, <3>2, <4>1
      <4>4. Critical!Last(s).masked <=> Len(s) # 1
        <5>1. CASE Len(s) = 1
          BY <2>4, <4>2, <5>1
        <5>2. CASE Len(s) # 1
          <6>1. Len(s) > k + 1
            <7>1. \A n \in Nat \ {0, 1} : n > 0 + 1
              OBVIOUS
            <7>2. Len(s) > 0 + 1
              BY <2>2, <5>2, <7>1
            <7>3. QED
              BY <4>2, <7>2
          <6>2. QED
            BY <2>4, <5>2, <6>1
        <5>3. QED
          BY <5>1, <5>2
      <4>5. primask' \in BOOLEAN
        BY <4>1
      <4>6. QED
        BY <3>1, <4>3, <4>4, <4>5
    <3>3. CASE ~ Counted
      BY <2>1, <2>4, <3>1, <3>3 DEF Critical!bsp_sys_exit_critical
    <3>4. QED
      BY <3>2, <3>3
  <2>7. Contexts'
    <3>1. Stack(open'[current], k, ~ xSchedulerRunning, ~ Counted)
      BY <2>1, <2>3, <2>4, SectionFacts, SectionClosed
    <3>2. QED
      BY <1>3, <2>1, <3>1, SectionFacts
         DEF SectionInv, Contexts, Critical!bsp_sys_exit_critical, Counted
  <2>8. CountIsExact'
    BY <1>3, <2>1, <2>2, <2>5, SectionFacts
       DEF SectionInv, CountIsExact, Critical!bsp_sys_exit_critical, Counted
  <2>9. Critical!TypeOK'
    <3>1. open' \in [Tasks \cup {Isr} -> Seq(Entries)]
      BY <1>1, <2>1, <2>2, SectionFacts
    <3>2. ulCriticalNesting' \in 0 .. InitialNesting
      BY <1>3, <2>1, <2>2, <2>5, SectionFacts
         DEF SectionInv, Critical!TypeOK, Critical!bsp_sys_exit_critical
    <3>3. QED
      BY <2>6, <3>1, <3>2
         DEF SectionInv, Critical!TypeOK, Critical!bsp_sys_exit_critical,
             Entries
  <2>10. MaskIsExact'
    BY <1>3, <2>1, <2>2, <2>4, <2>6, SectionFacts
       DEF MaskIsExact, Sections, Critical!Runner,
           Critical!bsp_sys_exit_critical
  <2>11. QED
    BY <2>1, <2>6, <2>7, <2>8, <2>9, <2>10 DEF SectionInv
<1>4. QED
  BY <1>2, <1>3

(* Outside sections the task that runs has suspended as often as it has    *)
(* something open, and the kernel's count is zero or not in use yet.       *)
LEMMA NoSection ==
  ASSUME Critical!CriticalSectionConstants, SectionInv,
         ~ in_isr, ~ Critical!Has(current, "section")
  PROVE  /\ Len(open[current]) = uxSchedulerSuspended
         /\ (ulCriticalNesting # 0) <=> ~ xSchedulerRunning
<1>1. Len(open[current]) = uxSchedulerSuspended
  BY SectionFacts, InSection
<1>2. QED
  BY <1>1, SectionFacts DEF SectionInv, CountIsExact

(* A kernel call outside sections leaves interrupts on, once the scheduler *)
(* runs.                                                                   *)
LEMMA KernelCallStep ==
  ASSUME Critical!CriticalSectionConstants, SectionInv, Critical!KernelCall
  PROVE  SectionInv'
<1>1. /\ Len(open[current]) = uxSchedulerSuspended
      /\ primask' <=> ~ xSchedulerRunning
      /\ primask' \in BOOLEAN
  BY NoSection DEF Critical!KernelCall, Critical!CountedInCall
<1>2. Critical!TypeOK' /\ Contexts' /\ CountIsExact'
  BY <1>1
     DEF Critical!KernelCall, Critical!CountedInCall, SectionInv,
         Critical!TypeOK,
         Contexts, Counted, CountIsExact
<1>3. MaskIsExact'
  BY <1>1, SectionFacts
     DEF Critical!KernelCall, Critical!CountedInCall, MaskIsExact, Sections,
         Critical!Runner
<1>4. QED
  BY <1>2, <1>3 DEF SectionInv

(* A task suspends the scheduler. *)
LEMMA SuspendStep ==
  ASSUME Critical!CriticalSectionConstants, SectionInv,
         Critical!vTaskSuspendAll
  PROVE  SectionInv'
<1> DEFINE e == Entry("suspension", FALSE)
           s == open[current]
<1>1. e \in Entries /\ e.kind = "suspension"
  BY SectionFacts DEF Entry, Entries
<1>2. /\ open' = [open EXCEPT ![current] = Append(@, e)]
      /\ Len(s) < MaxNest
  BY SectionFacts DEF Critical!vTaskSuspendAll, Critical!Opens, Entry
<1> HIDE DEF e
<1>3. /\ ~ in_isr /\ Len(s) = uxSchedulerSuspended
      /\ UNCHANGED <<primask, ulCriticalNesting, xSchedulerRunning,
                     current, in_isr>>
      /\ uxSchedulerSuspended' = uxSchedulerSuspended + 1
      /\ (ulCriticalNesting # 0) <=> ~ xSchedulerRunning
  BY NoSection DEF Critical!vTaskSuspendAll
<1>4. /\ open'[current] = Append(s, e)
      /\ \A t \in (Tasks \cup {Isr}) \ {current} : open'[t] = open[t]
      /\ Append(s, e) \in Seq(Entries) /\ Len(Append(s, e)) = Len(s) + 1
  BY <1>1, <1>2, SectionFacts, Opened
<1>5. Stack(open'[current], uxSchedulerSuspended', ~ xSchedulerRunning',
            ~ Counted')
  <2>1. Stack(s, uxSchedulerSuspended, ~ xSchedulerRunning, ~ Counted)
    BY DEF SectionInv, Contexts
  <2>2. QED
    BY <1>1, <1>2, <1>3, <1>4, <2>1, SectionFacts, SuspensionOpened
<1>6. Contexts'
  BY <1>3, <1>4, <1>5, SectionFacts DEF SectionInv, Contexts
<1>7. CountIsExact'
  BY <1>3, <1>4, SectionFacts DEF SectionInv, CountIsExact
<1>8. Critical!TypeOK'
  <2>1. open' \in [Tasks \cup {Isr} -> Seq(Entries)]
    BY <1>2, <1>4, SectionFacts
  <2>2. uxSchedulerSuspended' \in 0 .. MaxNest
    BY <1>2, <1>3, SectionFacts
  <2>3. QED
    BY <1>3, <2>1, <2>2 DEF SectionInv, Critical!TypeOK, Entries
<1>9. MaskIsExact'
  BY <1>3, <1>4, SectionFacts
     DEF SectionInv, MaskIsExact, Sections, Critical!Runner
<1>10. QED
  BY <1>6, <1>7, <1>8, <1>9 DEF SectionInv

(* It resumes the scheduler. *)
LEMMA ResumeStep ==
  ASSUME Critical!CriticalSectionConstants, SectionInv, Critical!xTaskResumeAll
  PROVE  SectionInv'
<1> DEFINE s == open[current]
<1>1. /\ ~ in_isr /\ Len(s) = uxSchedulerSuspended /\ s # <<>>
      /\ UNCHANGED <<ulCriticalNesting, xSchedulerRunning, current, in_isr>>
      /\ uxSchedulerSuspended' = uxSchedulerSuspended - 1
      /\ (ulCriticalNesting # 0) <=> ~ xSchedulerRunning
      /\ primask' = (ulCriticalNesting # 0)
      /\ open' = [open EXCEPT ![current] = Critical!Front(@)]
  BY NoSection, SectionFacts
     DEF Critical!xTaskResumeAll, Critical!CountedInCall, Critical!Closes
<1>2. /\ open'[current] = Critical!Front(s)
      /\ \A t \in (Tasks \cup {Isr}) \ {current} : open'[t] = open[t]
      /\ Critical!Front(s) \in Seq(Entries)
      /\ Len(Critical!Front(s)) = Len(s) - 1
      /\ Len(s) \in Nat \ {0}
  BY <1>1, SectionFacts, Closed
<1>3. Stack(open'[current], uxSchedulerSuspended', ~ xSchedulerRunning',
            ~ Counted')
  <2>1. Stack(s, uxSchedulerSuspended, ~ xSchedulerRunning, ~ Counted)
    BY DEF SectionInv, Contexts
  <2>2. QED
    BY <1>1, <1>2, <2>1, SectionFacts, SuspensionClosed
<1>4. Contexts'
  BY <1>1, <1>2, <1>3, SectionFacts DEF SectionInv, Contexts
<1>5. CountIsExact'
  BY <1>1, <1>2, SectionFacts DEF SectionInv, CountIsExact
<1>6. Critical!TypeOK'
  <2>1. open' \in [Tasks \cup {Isr} -> Seq(Entries)]
    BY <1>1, <1>2, SectionFacts
  <2>2. uxSchedulerSuspended' \in 0 .. MaxNest
    BY <1>1, <1>2, SectionFacts
  <2>3. primask' \in BOOLEAN
    BY <1>1
  <2>4. QED
    BY <1>1, <2>1, <2>2, <2>3 DEF SectionInv, Critical!TypeOK, Entries
<1>7. MaskIsExact'
  BY <1>1, <1>2, SectionFacts DEF MaskIsExact, Sections, Critical!Runner
<1>8. QED
  BY <1>4, <1>5, <1>6, <1>7 DEF SectionInv

(* The scheduler starts with nothing open. *)
LEMMA StartStep ==
  ASSUME Critical!CriticalSectionConstants, SectionInv, Critical!StartScheduler
  PROVE  SectionInv'
<1>1. /\ ~ in_isr /\ uxSchedulerSuspended = 0 /\ open[Isr] = <<>>
      /\ \A t \in Tasks : open[t] = <<>>
  <2>1. ~ in_isr /\ open[current] = <<>>
    BY DEF Critical!StartScheduler
  <2>2. uxSchedulerSuspended = 0
    BY <2>1, SectionFacts
  <2>3. QED
    BY <2>1, <2>2 DEF SectionInv, Contexts
<1>2. /\ xSchedulerRunning' /\ ulCriticalNesting' = 0 /\ ~ primask'
      /\ current' \in Tasks
      /\ UNCHANGED <<uxSchedulerSuspended, in_isr, open>>
  BY DEF Critical!StartScheduler
<1>3. Len(<<>>) = 0
  OBVIOUS
<1>4. Contexts'
  BY <1>1, <1>2, <1>3, SectionFacts DEF Contexts, Stack
<1>5. CountIsExact' /\ MaskIsExact'
  BY <1>1, <1>2, <1>3 DEF CountIsExact, MaskIsExact, Sections, Critical!Runner
<1>6. Critical!TypeOK'
  <2>1. 0 \in 0 .. InitialNesting
    BY SectionFacts
  <2>2. primask' \in BOOLEAN /\ xSchedulerRunning' \in BOOLEAN
    BY DEF Critical!StartScheduler
  <2>3. QED
    BY <1>2, <2>1, <2>2 DEF SectionInv, Critical!TypeOK
<1>7. QED
  BY <1>4, <1>5, <1>6 DEF SectionInv

(* Tasks are switched, and handlers come, outside sections only. *)
LEMMA SwitchStep ==
  ASSUME Critical!CriticalSectionConstants, SectionInv, Critical!Switch
  PROVE  SectionInv'
<1>1. /\ ~ in_isr /\ ~ primask /\ xSchedulerRunning
      /\ uxSchedulerSuspended = 0 /\ current' \in Tasks
      /\ UNCHANGED <<primask, ulCriticalNesting, xSchedulerRunning,
                     uxSchedulerSuspended, in_isr, open>>
  BY DEF Critical!Switch
<1>2. Len(open[current]) = 0
  BY <1>1, SectionFacts DEF SectionInv, MaskIsExact, Sections
<1>3. /\ \A t \in Tasks : open[t] = <<>>
      /\ Len(<<>>) = 0
  BY <1>2, SectionFacts DEF SectionInv, Contexts
<1>4. Contexts'
  BY <1>1, <1>3, SectionFacts DEF SectionInv, Contexts, Stack
<1>5. CountIsExact' /\ MaskIsExact' /\ Critical!TypeOK'
  BY <1>1, <1>2, <1>3, SectionFacts
     DEF SectionInv, CountIsExact, MaskIsExact, Sections, Critical!Runner,
         Critical!TypeOK
<1>6. QED
  BY <1>4, <1>5 DEF SectionInv

(* An interrupt is taken while nothing masks it, and its handler ends with *)
(* nothing open.                                                           *)
LEMMA InterruptStep ==
  ASSUME Critical!CriticalSectionConstants, SectionInv,
         Critical!Interrupt \/ Critical!InterruptEnd
  PROVE  SectionInv'
<1>1. CASE Critical!Interrupt
  <2>1. /\ ~ in_isr /\ in_isr' /\ ~ primask /\ in_isr' \in BOOLEAN
        /\ UNCHANGED <<primask, ulCriticalNesting, xSchedulerRunning,
                       uxSchedulerSuspended, current, open>>
    BY <1>1 DEF Critical!Interrupt
  <2>2. /\ Len(open[current]) = uxSchedulerSuspended
        /\ Len(open[Isr]) = 0
    <3>1. open[Isr] = <<>>
      BY <2>1 DEF SectionInv, Contexts
    <3>2. Len(open[current]) = uxSchedulerSuspended
      BY <2>1, SectionFacts DEF SectionInv, MaskIsExact, Sections
    <3>3. QED
      BY <3>1, <3>2, SectionFacts
  <2>3. Contexts'
    BY <2>1, <2>2 DEF SectionInv, Contexts, Counted
  <2>4. CountIsExact' /\ Critical!TypeOK'
    BY <2>1 DEF SectionInv, CountIsExact, Critical!TypeOK
  <2>5. MaskIsExact'
    BY <2>1, <2>2 DEF MaskIsExact, Sections, Critical!Runner
  <2>6. QED
    BY <2>3, <2>4, <2>5 DEF SectionInv
<1>2. CASE Critical!InterruptEnd
  <2>1. /\ in_isr /\ ~ in_isr' /\ in_isr' \in BOOLEAN /\ open[Isr] = <<>>
        /\ UNCHANGED <<primask, ulCriticalNesting, xSchedulerRunning,
                       uxSchedulerSuspended, current, open>>
    BY <1>2 DEF Critical!InterruptEnd
  <2>2. Len(open[current]) = uxSchedulerSuspended /\ ~ primask
    <3>1. Len(open[current]) = uxSchedulerSuspended
      BY <2>1 DEF SectionInv, Contexts
    <3>2. Sections = 0
      BY <2>1, SectionFacts DEF Sections
    <3>3. QED
      BY <2>1, <3>1, <3>2 DEF SectionInv, MaskIsExact
  <2>3. Contexts'
    BY <2>1 DEF SectionInv, Contexts, Counted
  <2>4. CountIsExact' /\ Critical!TypeOK'
    BY <2>1 DEF SectionInv, CountIsExact, Critical!TypeOK
  <2>5. MaskIsExact'
    BY <2>1, <2>2, SectionFacts DEF MaskIsExact, Sections, Critical!Runner
  <2>6. QED
    BY <2>3, <2>4, <2>5 DEF SectionInv
<1>3. QED
  BY <1>1, <1>2

-----------------------------------------------------------------------------
(* The invariant, and what follows from it. *)

(* The invariant holds initially and survives every step. *)
THEOREM SectionInvariant ==
  ASSUME Critical!CriticalSectionConstants
  PROVE  Critical!Spec => []SectionInv
<1>1. Critical!Init => SectionInv
  <2> SUFFICES ASSUME Critical!Init
               PROVE  SectionInv
    OBVIOUS
  <2>1. <<>> \in Seq(Entries) /\ Len(<<>>) = 0
    BY EmptySeq
  <2>2. Critical!TypeOK
    <3>1. open \in [Tasks \cup {Isr} -> Seq(Entries)]
      BY <2>1 DEF Critical!Init
    <3>2. InitialNesting \in Nat /\ MaxNest \in Nat
      BY DEF Critical!CriticalSectionConstants
    <3>3. /\ 0 \in 0 .. MaxNest
          /\ InitialNesting \in 0 .. InitialNesting
      BY <3>2
    <3>4. QED
      BY <3>1, <3>3 DEF Critical!Init, Critical!TypeOK, Entries
  <2>3. Contexts
    BY <2>1 DEF Critical!Init, Contexts, Stack,
           Critical!CriticalSectionConstants
  <2>4. CountIsExact /\ MaskIsExact
    BY <2>1
       DEF Critical!Init, CountIsExact, MaskIsExact, Sections, Critical!Runner,
           Critical!CriticalSectionConstants
  <2>5. QED
    BY <2>2, <2>3, <2>4 DEF SectionInv
<1>2. SectionInv /\ [Critical!Next]_Critical!vars => SectionInv'
  <2> SUFFICES ASSUME SectionInv, [Critical!Next]_Critical!vars
               PROVE  SectionInv'
    OBVIOUS
  <2>1. CASE Critical!bsp_sys_enter_critical \/ Critical!bsp_sys_exit_critical
    BY <2>1, EnterStep, ExitStep
  <2>2. CASE \/ Critical!KernelCall \/ Critical!vTaskSuspendAll
             \/ Critical!xTaskResumeAll
    BY <2>2, KernelCallStep, SuspendStep, ResumeStep
  <2>3. CASE \/ Critical!StartScheduler \/ Critical!Switch
             \/ Critical!Interrupt \/ Critical!InterruptEnd
    BY <2>3, StartStep, SwitchStep, InterruptStep
  <2>4. CASE UNCHANGED Critical!vars
    BY <2>4
       DEF Critical!vars, SectionInv, Critical!TypeOK, Contexts, Counted,
           CountIsExact, MaskIsExact, Sections, Critical!Runner
  <2>5. QED
    BY <2>1, <2>2, <2>3, <2>4 DEF Critical!Next
<1>3. QED
  BY <1>1, <1>2, PTL DEF Critical!Spec

(* Types, exclusion and the return of interrupts, for every nesting of the *)
(* two mechanisms: the three invariants SectionsAreAtomic is made of.      *)
THEOREM AtomicSections ==
  ASSUME Critical!CriticalSectionConstants
  PROVE  Critical!Spec => [](/\ Critical!TypeOK /\ Critical!SectionsExclude
                             /\ Critical!InterruptsComeBack)
<1>1. SectionInv => /\ Critical!TypeOK /\ Critical!SectionsExclude
                    /\ Critical!InterruptsComeBack
  <2> SUFFICES ASSUME SectionInv
               PROVE  Critical!SectionsExclude /\ Critical!InterruptsComeBack
    BY DEF SectionInv
  <2>1. DOMAIN open = Tasks \cup {Isr}
    BY SectionFacts
  <2>2. ASSUME NEW c \in Tasks \cup {Isr}, Critical!Has(c, "section")
        PROVE  primask /\ c = Critical!Runner
    <3>1. CASE c = current /\ Len(open[current]) > uxSchedulerSuspended
      <4>1. ~ in_isr
        BY <3>1, SectionFacts DEF SectionInv, Contexts
      <4>2. QED
        BY <3>1, <4>1, SectionFacts DEF SectionInv, MaskIsExact, Sections
    <3>2. CASE c = Isr /\ open[Isr] # <<>>
      <4>1. in_isr
        BY <3>2 DEF SectionInv, Contexts
      <4>2. QED
        BY <3>2, <4>1, SectionFacts DEF SectionInv, MaskIsExact, Sections
    <3>3. QED
      BY <2>2, <3>1, <3>2, InSection
  <2>3. ASSUME xSchedulerRunning, primask
        PROVE  \E c \in Tasks \cup {Isr} : Critical!Has(c, "section")
    <3>1. Sections # 0
      BY <2>3 DEF SectionInv, MaskIsExact
    <3>2. /\ Critical!Has(Critical!Runner, "section")
          /\ Critical!Runner \in Tasks \cup {Isr}
      BY <3>1, SectionFacts, InSection DEF Sections
    <3>3. QED
      BY <3>2
  <2>4. QED
    BY <2>1, <2>2, <2>3 DEF Critical!SectionsExclude,
           Critical!InterruptsComeBack
<1>2. QED
  BY <1>1, SectionInvariant, PTL

(* Only leaving a section makes a section disappear, and it puts the mask  *)
(* back to what entering that section found.                               *)
THEOREM ExitRestores ==
  ASSUME Critical!CriticalSectionConstants
  PROVE  Critical!Spec => Critical!ExitUndoesEnter
<1> DEFINE Undone == \A c \in DOMAIN open :
             Len(open'[c]) < Len(open[c])
               /\ Critical!Last(open[c]).kind = "section" =>
             primask' = Critical!Last(open[c]).masked
<1>1. SectionInv /\ [Critical!Next]_Critical!vars => [Undone]_Critical!vars
  <2> SUFFICES ASSUME SectionInv, Critical!Next
               PROVE  Undone
    BY DEF Critical!vars
  <2> SUFFICES ASSUME NEW c \in Tasks \cup {Isr},
                      Len(open'[c]) < Len(open[c]),
                      Critical!Last(open[c]).kind = "section"
               PROVE  primask' = Critical!Last(open[c]).masked
    BY SectionFacts
  <2>1. open[c] \in Seq(Entries) /\ Len(open[c]) \in Nat
    BY SectionFacts, LenProperties
  <2>2. open' # open
    BY <2>1
  <2>3. CASE Critical!bsp_sys_exit_critical
    <3>1. open' = [open EXCEPT ![Critical!Runner] = Critical!Front(@)]
      BY <2>3 DEF Critical!bsp_sys_exit_critical, Critical!Closes
    <3>2. c = Critical!Runner
      BY <2>1, <3>1, SectionFacts
    <3>3. QED
      BY <2>3, <3>2, ExitStep
  <2>4. CASE Critical!bsp_sys_enter_critical \/ Critical!vTaskSuspendAll
    <3>1. PICK e \in Entries :
            open' = [open EXCEPT ![Critical!Runner] = Append(@, e)]
      <4>1. /\ Entry("section", Critical!ByMask /\ primask) \in Entries
            /\ Entry("suspension", FALSE) \in Entries
        BY SectionFacts DEF Entry, Entries
      <4>2. QED
        BY <2>4, <4>1
           DEF Critical!bsp_sys_enter_critical, Critical!vTaskSuspendAll,
               Critical!Opens, Entry
    <3>2. Len(open'[c]) >= Len(open[c])
      <4>1. CASE c = Critical!Runner
        <5>1. Len(Append(open[c], e)) = Len(open[c]) + 1
          BY <2>1, Opened
        <5>2. open'[c] = Append(open[c], e)
          BY <3>1, <4>1, SectionFacts
        <5>3. QED
          BY <2>1, <5>1, <5>2
      <4>2. CASE c # Critical!Runner
        BY <2>1, <3>1, <4>2, SectionFacts
      <4>3. QED
        BY <4>1, <4>2
    <3>3. QED
      BY <2>1, <3>2
  <2>5. CASE Critical!xTaskResumeAll
    <3>1. /\ open' = [open EXCEPT ![Critical!Runner] = Critical!Front(@)]
          /\ Critical!Last(open[Critical!Runner]).kind = "suspension"
      BY <2>5 DEF Critical!xTaskResumeAll, Critical!Closes
    <3>2. c = Critical!Runner
      BY <2>1, <3>1, SectionFacts
    <3>3. QED
      BY <3>1, <3>2
  <2>6. CASE Critical!KernelCall \/ Critical!StartScheduler
            \/ Critical!Switch \/ Critical!Interrupt
             \/ Critical!InterruptEnd
    BY <2>2, <2>6
       DEF Critical!KernelCall, Critical!StartScheduler, Critical!Switch,
           Critical!Interrupt, Critical!InterruptEnd
  <2>7. QED
    BY <2>3, <2>4, <2>5, <2>6 DEF Critical!Next
<1>2. QED
  BY <1>1, SectionInvariant, PTL DEF Critical!Spec, Critical!ExitUndoesEnter

-----------------------------------------------------------------------------
(* Rows of a list. *)

(* A row of a list has its items in their order. *)
LEMMA Row ==
  ASSUME NEW S, NEW list \in Seq(S),
         NEW lo \in 1 .. Len(list) + 1, NEW hi \in lo - 1 .. Len(list)
  PROVE  /\ SubSeq(list, lo, hi) \in Seq(S)
         /\ Len(SubSeq(list, lo, hi)) = hi - lo + 1
         /\ \A i \in 1 .. hi - lo + 1 :
              SubSeq(list, lo, hi)[i] = list[lo + i - 1]
<1> DEFINE n == Len(list)
           r == SubSeq(list, lo, hi)
<1>1. /\ n \in Nat /\ lo \in 1 .. n + 1 /\ hi \in lo - 1 .. n
      /\ \A i \in 1 .. n : list[i] \in S
  BY ElementOfSeq
<1> HIDE DEF n
<1>2. lo \in Int /\ hi \in Int /\ lo .. hi \subseteq 1 .. n
  BY <1>1
<1>3. /\ r \in Seq(S)
      /\ Len(r) = IF lo <= hi THEN hi - lo + 1 ELSE 0
      /\ \A i \in 1 .. hi - lo + 1 : r[i] = list[lo + i - 1]
  BY <1>1, <1>2, SubSeqProperties
<1> HIDE DEF r
<1>4. Len(r) = hi - lo + 1
  BY <1>1, <1>3
<1>5. QED
  BY <1>3, <1>4 DEF r

(* Two rows one behind the other. *)
LEMMA TwoRows ==
  ASSUME NEW S, NEW one \in Seq(S), NEW two \in Seq(S)
  PROVE  /\ one \o two \in Seq(S)
         /\ Len(one) \in Nat /\ Len(two) \in Nat
         /\ Len(one \o two) = Len(one) + Len(two)
         /\ \A i \in 1 .. Len(one) : (one \o two)[i] = one[i]
         /\ \A i \in Len(one) + 1 .. Len(one) + Len(two) :
              (one \o two)[i] = two[i - Len(one)]
<1>1. Len(one) \in Nat /\ Len(two) \in Nat
  OBVIOUS
<1>2. /\ \A i \in 1 .. Len(one) :
           i \in 1 .. Len(one) + Len(two) /\ i <= Len(one)
      /\ \A i \in Len(one) + 1 .. Len(one) + Len(two) :
           i \in 1 .. Len(one) + Len(two) /\ ~ (i <= Len(one))
  BY <1>1
<1>3. QED
  BY <1>1, <1>2, ConcatProperties

(* The list in which e takes the place of the items between lo and hi. *)
Splice(list, e, lo, hi) ==
  SubSeq(list, 1, lo) \o <<e>> \o SubSeq(list, hi, Len(list))

Splices(list, e, lo, hi, r) ==
  /\ Len(r) = lo + 2 + Len(list) - hi
  /\ \A i \in 1 .. lo : r[i] = list[i]
  /\ r[lo + 1] = e
  /\ \A i \in lo + 2 .. Len(r) : r[i] = list[i + hi - lo - 2]

(* Some items in the middle give way to one. *)
LEMMA Spliced ==
  ASSUME NEW S, NEW list \in Seq(S), NEW e \in S,
         NEW lo \in 0 .. Len(list), NEW hi \in lo + 1 .. Len(list) + 1
  PROVE  /\ Splice(list, e, lo, hi) \in Seq(S)
         /\ Splices(list, e, lo, hi, Splice(list, e, lo, hi))
<1> DEFINE n == Len(list)
           a == SubSeq(list, 1, lo)
           b == SubSeq(list, hi, n)
           c == a \o <<e>>
           r == Splice(list, e, lo, hi)
<1>1. n \in Nat /\ lo \in 0 .. n /\ hi \in lo + 1 .. n + 1
  OBVIOUS
<1>2. /\ a \in Seq(S) /\ Len(a) = lo
      /\ \A i \in 1 .. lo : a[i] = list[i]
  <2> HIDE DEF a
  <2>1. /\ 1 \in 1 .. n + 1 /\ lo \in 1 - 1 .. n
        /\ lo - 1 + 1 = lo /\ \A i \in 1 .. lo : 1 + i - 1 = i
    BY <1>1
  <2>2. /\ a \in Seq(S) /\ Len(a) = lo - 1 + 1
        /\ \A i \in 1 .. lo - 1 + 1 : a[i] = list[1 + i - 1]
    BY <2>1, Row DEF a
  <2>3. QED
    BY <2>1, <2>2
<1>3. /\ b \in Seq(S) /\ Len(b) = n - hi + 1
      /\ \A i \in 1 .. n - hi + 1 : b[i] = list[hi + i - 1]
  <2>1. hi \in 1 .. n + 1 /\ n \in hi - 1 .. n
    BY <1>1
  <2>2. QED
    BY <2>1, Row
<1>4. r = c \o b
  BY DEF Splice
<1> HIDE DEF n, a, b, r
<1>5. /\ <<e>> \in Seq(S) /\ Len(<<e>>) = 1 /\ <<e>>[1] = e
  OBVIOUS
<1>6. /\ c \in Seq(S) /\ Len(c) = lo + 1
      /\ \A i \in 1 .. lo : c[i] = list[i]
      /\ c[lo + 1] = e
  <2>1. /\ lo + 1 \in lo + 1 .. lo + 1 /\ lo + 1 - lo = 1
    OBVIOUS
  <2>2. QED
    BY <1>2, <1>5, <2>1, TwoRows
<1> HIDE DEF c
<1>7. /\ r \in Seq(S) /\ Len(r) = lo + 1 + (n - hi + 1)
      /\ \A i \in 1 .. lo + 1 : r[i] = c[i]
      /\ \A i \in lo + 1 + 1 .. lo + 1 + (n - hi + 1) :
           r[i] = b[i - (lo + 1)]
  <2>1. /\ r \in Seq(S) /\ Len(r) = Len(c) + Len(b)
        /\ \A i \in 1 .. Len(c) : r[i] = c[i]
        /\ \A i \in Len(c) + 1 .. Len(c) + Len(b) : r[i] = b[i - Len(c)]
    <3>1. /\ c \o b \in Seq(S) /\ Len(c \o b) = Len(c) + Len(b)
          /\ \A i \in 1 .. Len(c) : (c \o b)[i] = c[i]
          /\ \A i \in Len(c) + 1 .. Len(c) + Len(b) :
               (c \o b)[i] = b[i - Len(c)]
      BY <1>3, <1>6, TwoRows, Zenon
    <3>2. QED
      BY <1>4, <3>1, Zenon
  <2>2. QED
    BY <1>3, <1>6, <2>1, Zenon
<1>8. Len(r) = lo + 2 + n - hi
  <2>1. lo + 1 + (n - hi + 1) = lo + 2 + n - hi
    BY <1>1
  <2>2. QED
    BY <1>7, <2>1, Zenon
<1>9. ASSUME NEW i \in 1 .. lo PROVE r[i] = list[i]
  <2>1. i \in 1 .. lo + 1
    BY <1>1
  <2>2. QED
    BY <1>6, <1>7, <2>1
<1>10. r[lo + 1] = e
  <2>1. lo + 1 \in 1 .. lo + 1
    BY <1>1
  <2>2. QED
    BY <1>6, <1>7, <2>1
<1>11. ASSUME NEW i \in lo + 2 .. Len(r)
       PROVE  r[i] = list[i + hi - lo - 2]
  <2>1. /\ i \in lo + 1 + 1 .. lo + 1 + (n - hi + 1)
        /\ i - (lo + 1) \in 1 .. n - hi + 1
        /\ hi + (i - (lo + 1)) - 1 = i + hi - lo - 2
    <3>1. i \in lo + 2 .. lo + 2 + n - hi
      BY <1>8, Zenon
    <3>2. QED
      BY <1>1, <3>1
  <2>2. QED
    BY <1>3, <1>7, <2>1
<1>12. QED
  BY <1>1, <1>7, <1>8, <1>9, <1>10, <1>11 DEF n, r, Splices

(* One item less. *)
LEMMA Removed ==
  ASSUME NEW S, NEW list \in Seq(S), NEW k \in 1 .. Len(list),
         NEW r, r = Heap!RemoveAt(list, k)
  PROVE  /\ r \in Seq(S)
         /\ Len(list) \in Nat /\ Len(r) = Len(list) - 1
         /\ \A i \in 1 .. Len(r) :
              r[i] = list[IF i < k THEN i ELSE i + 1]
<1> DEFINE n == Len(list)
           a == SubSeq(list, 1, k - 1)
           b == SubSeq(list, k + 1, n)
<1>1. n \in Nat
  OBVIOUS
<1>2. /\ a \in Seq(S) /\ Len(a) = k - 1
      /\ \A i \in 1 .. k - 1 : a[i] = list[i]
  <2> HIDE DEF a
  <2>1. /\ 1 \in 1 .. n + 1 /\ k - 1 \in 1 - 1 .. n
        /\ k - 1 - 1 + 1 = k - 1 /\ \A i \in 1 .. k - 1 : 1 + i - 1 = i
    BY <1>1
  <2>2. /\ a \in Seq(S) /\ Len(a) = k - 1 - 1 + 1
        /\ \A i \in 1 .. k - 1 - 1 + 1 : a[i] = list[1 + i - 1]
    BY <2>1, Row DEF a
  <2>3. QED
    BY <2>1, <2>2
<1>3. /\ b \in Seq(S) /\ Len(b) = n - (k + 1) + 1
      /\ \A i \in 1 .. n - (k + 1) + 1 : b[i] = list[k + 1 + i - 1]
  <2>1. k + 1 \in 1 .. n + 1 /\ n \in k + 1 - 1 .. n
    BY <1>1
  <2>2. QED
    BY <2>1, Row
<1>4. r = a \o b
  BY DEF Heap!RemoveAt
<1> HIDE DEF n, a, b
<1>5. /\ r \in Seq(S) /\ Len(r) = k - 1 + (n - (k + 1) + 1)
      /\ \A i \in 1 .. k - 1 : r[i] = a[i]
      /\ \A i \in k - 1 + 1 .. k - 1 + (n - (k + 1) + 1) :
           r[i] = b[i - (k - 1)]
  <2>1. /\ r \in Seq(S) /\ Len(r) = Len(a) + Len(b)
        /\ \A i \in 1 .. Len(a) : r[i] = a[i]
        /\ \A i \in Len(a) + 1 .. Len(a) + Len(b) : r[i] = b[i - Len(a)]
    <3>1. /\ a \o b \in Seq(S) /\ Len(a \o b) = Len(a) + Len(b)
          /\ \A i \in 1 .. Len(a) : (a \o b)[i] = a[i]
          /\ \A i \in Len(a) + 1 .. Len(a) + Len(b) :
               (a \o b)[i] = b[i - Len(a)]
      BY <1>2, <1>3, TwoRows, Zenon
    <3>2. QED
      BY <1>4, <3>1, Zenon
  <2>2. QED
    BY <1>2, <1>3, <2>1, Zenon
<1>6. k \in 1 .. n /\ Len(r) = n - 1
  BY <1>1, <1>5 DEF n
<1>7. ASSUME NEW i \in 1 .. Len(r)
      PROVE  r[i] = list[IF i < k THEN i ELSE i + 1]
  <2>1. CASE i < k
    <3>1. i \in 1 .. k - 1
      BY <1>6, <2>1
    <3>2. QED
      BY <1>2, <1>5, <2>1, <3>1
  <2>2. CASE ~ (i < k)
    <3>1. /\ i \in k - 1 + 1 .. k - 1 + (n - (k + 1) + 1)
          /\ i - (k - 1) \in 1 .. n - (k + 1) + 1
          /\ k + 1 + (i - (k - 1)) - 1 = i + 1
      BY <1>1, <1>6, <2>2
    <3>2. QED
      BY <1>3, <1>5, <2>2, <3>1
  <2>3. QED
    BY <2>1, <2>2
<1>8. QED
  BY <1>1, <1>5, <1>6, <1>7 DEF n

-----------------------------------------------------------------------------
(* The inductive invariant of the heap: of a list of free blocks, of the   *)
(* blocks that are taken and of a count, at once.                          *)

From == Heap!uxStartAddress
UpTo == Heap!uxEndAddress

Aligned(n) == n % portBYTE_ALIGNMENT = 0

HeapBlock  == [start : Nat, size : Nat]
TakenBlock == [size : Nat, asked : Nat]

EndOf(b) == b.start + b.size

(* The free blocks lie in the heap, each well before the next ...          *)
FreeIsSound(list) ==
  /\ list \in Seq(HeapBlock)
  /\ \A i \in 1 .. Len(list) :
       /\ list[i].start >= From /\ EndOf(list[i]) <= UpTo
       /\ list[i].size > 0 /\ Aligned(list[i].start)
  /\ \A i, j \in 1 .. Len(list) : i < j => EndOf(list[i]) < list[j].start

(* ... and so do those that are taken, each with room for what was asked.  *)
TakenIsSound(tk) ==
  /\ DOMAIN tk \in SUBSET Nat /\ tk \in [DOMAIN tk -> TakenBlock]
  /\ \A a \in DOMAIN tk :
       /\ a >= From /\ a + tk[a].size <= UpTo /\ Aligned(a)
       /\ tk[a].size >= tk[a].asked + xHeapStructSize
  /\ \A a, c \in DOMAIN tk : a < c => a + tk[a].size <= c

(* No block that is free overlaps one that is taken, and every byte is in  *)
(* one or the other.                                                       *)
Apart(list, tk) ==
  \A i \in 1 .. Len(list), a \in DOMAIN tk :
    EndOf(list[i]) <= a \/ a + tk[a].size <= list[i].start

InFree(list, p) ==
  \E i \in 1 .. Len(list) : list[i].start <= p /\ p < EndOf(list[i])
InTaken(tk, p) ==
  \E a \in DOMAIN tk : a <= p /\ p < a + tk[a].size

Covered(list, tk) ==
  \A p \in From .. UpTo - 1 : InFree(list, p) \/ InTaken(tk, p)

BytesOf(list) == {p \in From .. UpTo - 1 : InFree(list, p)}

HeapHolds(list, tk, n) ==
  /\ FreeIsSound(list) /\ TakenIsSound(tk)
  /\ Apart(list, tk) /\ Covered(list, tk)
  /\ n = Cardinality(BytesOf(list))

(* No row of v of the bytes. *)
NoRow(bytes, v) ==
  \A a \in From .. UpTo - 1 : ~ (a .. a + v - 1 \subseteq bytes)

HeapInv ==
  /\ pxEnd \in {0, UpTo} /\ refused \in Nat
  /\ freeing \subseteq DOMAIN taken
  /\ xFreeBytesRemaining \in Nat
  /\ xMinimumEverFreeBytesRemaining \in 0 .. xFreeBytesRemaining
  /\ pxEnd = 0 => free = <<>> /\ taken = <<>> /\ xFreeBytesRemaining = 0
  /\ pxEnd # 0 => HeapHolds(free, taken, xFreeBytesRemaining)
  /\ refused > 0 =>
       NoRow(BytesOf(free), Heap!AlignedUp(refused + xHeapStructSize))

-----------------------------------------------------------------------------
(* Addresses. *)

(* Rounding down to a multiple of w. *)
LEMMA RoundedDown ==
  ASSUME NEW w \in Nat \ {0}, NEW a \in Nat
  PROVE  /\ a - (a % w) \in Nat /\ (a - (a % w)) % w = 0
         /\ a - (a % w) <= a /\ a < a - (a % w) + w
<1> DEFINE q == a \div w
           r == a % w
<1>1. a = q * w + r /\ q \in Nat /\ r \in 0 .. w - 1
  OBVIOUS
<1> HIDE DEF q
<1>2. ASSUME NEW m \in Nat, NEW s \in 0 .. w - 1
      PROVE  (m * w + s) % w = s /\ m * w \in Nat
  OBVIOUS
<1>3. (q * w + 0) % w = 0 /\ q * w \in Nat
  <2>1. 0 \in 0 .. w - 1
    OBVIOUS
  <2>2. QED
    BY <1>1, <1>2, <2>1
<1> HIDE DEF r
<1>4. a - r = q * w + 0
  BY <1>1, <1>3
<1>5. a - r \in Nat /\ a - r <= a /\ a < a - r + w
  BY <1>1, <1>3, <1>4
<1>6. QED
  BY <1>3, <1>4, <1>5 DEF r

(* Multiples of w add up to one. *)
LEMMA MultiplesAdd ==
  ASSUME NEW w \in Nat \ {0}, NEW a \in Nat, NEW b \in Nat,
         a % w = 0, b % w = 0
  PROVE  (a + b) % w = 0
<1> DEFINE p == a \div w
           q == b \div w
<1>1. a = p * w + (a % w) /\ p \in Nat /\ b = q * w + (b % w) /\ q \in Nat
  OBVIOUS
<1> HIDE DEF p, q
<1>2. a = p * w /\ b = q * w
  <2>1. p * w \in Nat /\ q * w \in Nat
    BY <1>1
  <2>2. QED
    BY <1>1, <2>1
<1>3. a + b = (p + q) * w
  BY <1>1, <1>2
<1>4. ASSUME NEW m \in Nat PROVE (m * w) % w = 0
  OBVIOUS
<1>5. p + q \in Nat
  BY <1>1
<1>6. QED
  BY <1>3, <1>4, <1>5

(* Rounding up: the result is one of the multiples not smaller. *)
LEMMA RoundedUp ==
  ASSUME portBYTE_ALIGNMENT \in Nat \ {0}, NEW n \in Nat
  PROVE  /\ Heap!AlignedUp(n) \in Nat /\ Aligned(Heap!AlignedUp(n))
         /\ Heap!AlignedUp(n) >= n
         /\ Heap!AlignedUp(n) < n + portBYTE_ALIGNMENT
<1> DEFINE w == portBYTE_ALIGNMENT
           m == n + portBYTE_ALIGNMENT - 1
<1>1. m \in Nat /\ w \in Nat \ {0}
  OBVIOUS
<1>2. Heap!AlignedUp(n) = m - (m % w)
  BY DEF Heap!AlignedUp, Heap!AlignedDown
<1> DEFINE u == m - (m % w)
<1>3. u \in Nat /\ u % w = 0 /\ u <= m /\ m < u + w
  BY <1>1, RoundedDown
<1> HIDE DEF u
<1>4. u >= n /\ u < n + w
  BY <1>1, <1>3
<1>5. QED
  BY <1>2, <1>3, <1>4 DEF Aligned, u

(* The heap has room for a block, and not as much as marks a block taken.  *)
LEMMA HeapBounds ==
  ASSUME Heap!Heap4Constants
  PROVE  /\ From \in Nat /\ UpTo \in Nat /\ From < UpTo /\ From > 0
         /\ UpTo - From < SizeT \div 2 /\ SizeT \div 2 \in Nat
         /\ SizeT \div 2 <= SizeT /\ SizeT \in Nat
         /\ Aligned(From)
         /\ Heap!Whole = [start |-> From, size |-> UpTo - From]
         /\ Heap!Addresses = From .. UpTo - 1
<1> DEFINE w == portBYTE_ALIGNMENT
           h == xHeapStructSize
           z == configTOTAL_HEAP_SIZE
           top == ucHeap + z - h
<1>1. /\ w \in Nat \ {0} /\ h \in Nat \ {0} /\ z \in Nat
      /\ ucHeap \in Nat \ {0} /\ SizeT \in Nat
      /\ z >= 2 * w + 2 * h /\ z < SizeT \div 2
  BY DEF Heap!Heap4Constants
<1>2. top \in Nat
  BY <1>1
<1>3. /\ From \in Nat /\ Aligned(From) /\ From >= ucHeap
      /\ From < ucHeap + w
  BY <1>1, RoundedUp DEF From, Heap!uxStartAddress
<1>4. UpTo = top - (top % w)
  BY DEF UpTo, Heap!uxEndAddress, Heap!AlignedDown
<1>5. UpTo \in Nat /\ UpTo <= top /\ top < UpTo + w
  BY <1>1, <1>2, <1>4, RoundedDown
<1>6. SizeT \div 2 \in Nat /\ SizeT \div 2 <= SizeT
  BY <1>1
<1>7. From < UpTo /\ From > 0 /\ UpTo - From < z
  BY <1>1, <1>3, <1>5
<1>8. QED
  BY <1>1, <1>3, <1>5, <1>6, <1>7
     DEF From, UpTo, Heap!Whole, Heap!Addresses

-----------------------------------------------------------------------------
(* Searching the list. *)

(* The index of the first item that passes, or 0. *)
LEMMA FirstOf ==
  ASSUME NEW T \in SUBSET Nat, T # {}
  PROVE  Heap!Min(T) \in T /\ \A m \in T : Heap!Min(T) <= m
BY NatMin DEF Heap!Min

(* First fit finds a block that is long enough, if there is one. *)
LEMMA FitFound ==
  ASSUME NEW list \in Seq(HeapBlock), NEW w \in Nat
  PROVE  LET i == Heap!FirstFit(list, w) IN
         \/ i = 0 /\ \A j \in 1 .. Len(list) : list[j].size < w
         \/ i \in 1 .. Len(list) /\ list[i].size >= w
<1> DEFINE T == {j \in 1 .. Len(list) : list[j].size >= w}
           i == Heap!FirstFit(list, w)
<1>1. i = IF T # {} THEN Heap!Min(T) ELSE 0
  BY DEF Heap!FirstFit, Heap!SelectInSeq
<1>2. \A j \in 1 .. Len(list) : list[j].size \in Nat
  <2>1. \A j \in 1 .. Len(list) : list[j] \in HeapBlock
    BY ElementOfSeq
  <2>2. QED
    BY <2>1 DEF HeapBlock
<1>3. CASE T = {}
  <2>1. \A j \in 1 .. Len(list) : list[j].size < w
    BY <1>2, <1>3
  <2>2. QED
    BY <1>1, <1>3, <2>1
<1>4. CASE T # {}
  <2>1. i \in T
    <3>1. T \in SUBSET Nat
      OBVIOUS
    <3> HIDE DEF T, i
    <3>2. QED
      BY <1>1, <1>4, <3>1, FirstOf
  <2>2. QED
    BY <2>1
<1>5. QED
  BY <1>3, <1>4

(* What lies before an address. *)
LEMMA PlaceFound ==
  ASSUME NEW list \in Seq(HeapBlock), NEW a \in Nat,
         \A i, j \in 1 .. Len(list) : i < j => list[i].start < list[j].start
  PROVE  LET n == Heap!Before(list, a) IN
         /\ n \in 0 .. Len(list)
         /\ \A i \in 1 .. n : list[i].start < a
         /\ \A i \in n + 1 .. Len(list) : list[i].start >= a
<1> DEFINE T == {j \in 1 .. Len(list) : list[j].start >= a}
           n == Heap!Before(list, a)
           f == Heap!SelectInSeq(list, LAMBDA b : b.start >= a)
<1>1. f = IF T # {} THEN Heap!Min(T) ELSE 0
  BY DEF Heap!SelectInSeq
<1>2. n = IF f = 0 THEN Len(list) ELSE f - 1
  BY DEF Heap!Before
<1>3. /\ \A j \in 1 .. Len(list) : list[j].start \in Nat
      /\ Len(list) \in Nat
  <2>1. \A j \in 1 .. Len(list) : list[j] \in HeapBlock
    BY ElementOfSeq
  <2>2. QED
    BY <2>1 DEF HeapBlock
<1>4. CASE T = {}
  <2>1. \A j \in 1 .. Len(list) : list[j].start < a
    BY <1>3, <1>4
  <2>2. n = Len(list)
    BY <1>1, <1>2, <1>4
  <2> HIDE DEF n
  <2>3. QED
    BY <1>3, <2>1, <2>2 DEF n
<1>5. CASE T # {}
  <2>1. f \in T /\ \A j \in T : f <= j
    <3>1. T \in SUBSET Nat
      OBVIOUS
    <3> HIDE DEF T, f
    <3>2. QED
      BY <1>1, <1>5, <3>1, FirstOf
  <2>2. f \in 1 .. Len(list) /\ list[f].start >= a
    BY <2>1
  <2> HIDE DEF f
  <2>3. n = f - 1
    BY <1>2, <1>3, <2>2
  <2> HIDE DEF n
  <2>4. n \in 0 .. Len(list)
    BY <1>3, <2>2, <2>3
  <2>5. ASSUME NEW i \in 1 .. n PROVE list[i].start < a
    <3>1. i \in 1 .. Len(list) /\ ~ (f <= i)
      BY <1>3, <2>2, <2>3
    <3>2. i \notin T
      BY <2>1, <3>1
    <3>3. QED
      BY <1>3, <3>1, <3>2
  <2>6. ASSUME NEW i \in n + 1 .. Len(list) PROVE list[i].start >= a
    <3>1. i \in 1 .. Len(list) /\ (i = f \/ f < i)
      BY <1>3, <2>2, <2>3
    <3>2. CASE i = f
      BY <2>2, <3>2
    <3>3. CASE f < i
      BY <1>3, <2>2, <3>1, <3>3
    <3>4. QED
      BY <3>1, <3>2, <3>3
  <2>7. QED
    BY <2>4, <2>5, <2>6 DEF n
<1>6. QED
  BY <1>4, <1>5

-----------------------------------------------------------------------------
(* Counting bytes. *)

(* Taking a row of the bytes away. *)
LEMMA FewerBytes ==
  ASSUME NEW S \in SUBSET (From .. UpTo - 1), NEW s \in Nat, NEW v \in Nat,
         From \in Nat, UpTo \in Nat, s .. s + v - 1 \subseteq S
  PROVE  /\ v <= Cardinality(S) /\ Cardinality(S) \in Nat
         /\ Cardinality(S \ (s .. s + v - 1)) = Cardinality(S) - v
<1> DEFINE R == s .. s + v - 1
<1>1. IsFiniteSet(From .. UpTo - 1)
  BY FS_Interval
<1>2. IsFiniteSet(S)
  BY <1>1, FS_Subset
<1>3. Cardinality(S) \in Nat
  BY <1>2, FS_CardinalityType
<1>4. s \in Int /\ s + v - 1 \in Int
  OBVIOUS
<1>5. Cardinality(R) = IF s > s + v - 1 THEN 0 ELSE s + v - 1 - s + 1
  BY <1>4, FS_Interval
<1> HIDE DEF R
<1>6. Cardinality(R) = v
  BY <1>5
<1>7. S \cap R = R /\ R \in SUBSET S
  BY DEF R
<1>8. Cardinality(R) <= Cardinality(S)
  BY <1>2, <1>7, FS_Subset
<1>9. Cardinality(S \ R) = Cardinality(S) - Cardinality(S \cap R)
  BY <1>2, FS_Difference
<1>10. QED
  BY <1>3, <1>6, <1>7, <1>8, <1>9 DEF R

(* Adding a row of bytes that were none of them. *)
LEMMA MoreBytes ==
  ASSUME NEW S \in SUBSET (From .. UpTo - 1), NEW s \in Nat, NEW v \in Nat,
         From \in Nat, UpTo \in Nat, (s .. s + v - 1) \cap S = {}
  PROVE  Cardinality(S \cup (s .. s + v - 1)) = Cardinality(S) + v
<1> DEFINE R == s .. s + v - 1
<1>1. IsFiniteSet(From .. UpTo - 1)
  BY FS_Interval
<1>2. IsFiniteSet(S)
  BY <1>1, FS_Subset
<1>3. Cardinality(S) \in Nat
  BY <1>2, FS_CardinalityType
<1>4. s \in Int /\ s + v - 1 \in Int
  OBVIOUS
<1>5. /\ IsFiniteSet(R)
      /\ Cardinality(R) = IF s > s + v - 1 THEN 0 ELSE s + v - 1 - s + 1
  BY <1>4, FS_Interval
<1> HIDE DEF R
<1>6. Cardinality(R) = v
  BY <1>5
<1>7. S \cap R = {}
  BY DEF R
<1>8. Cardinality(S \cap R) = 0
  BY <1>7, FS_EmptySet
<1>9. Cardinality(S \cup R) =
        Cardinality(S) + Cardinality(R) - Cardinality(S \cap R)
  BY <1>2, <1>5, FS_Union
<1>10. QED
  BY <1>3, <1>6, <1>8, <1>9 DEF R

(* A heap that nobody has taken anything of. *)
LEMMA WholeHolds ==
  ASSUME Heap!Heap4Constants, NEW tk, DOMAIN tk = {},
         tk \in [{} -> TakenBlock]
  PROVE  HeapHolds(<<Heap!Whole>>, tk, Heap!Whole.size)
<1> DEFINE list == <<Heap!Whole>>
<1>1. /\ From \in Nat /\ UpTo \in Nat /\ From < UpTo /\ Aligned(From)
      /\ Heap!Whole = [start |-> From, size |-> UpTo - From]
  BY HeapBounds
<1>2. Heap!Whole \in HeapBlock /\ EndOf(Heap!Whole) = UpTo
  BY <1>1 DEF HeapBlock, EndOf
<1>3. list \in Seq(HeapBlock) /\ Len(list) = 1 /\ list[1] = Heap!Whole
  BY <1>2
<1> HIDE DEF list
<1>4. \A i \in 1 .. Len(list) : i = 1
  BY <1>3
<1>5. FreeIsSound(list)
  <2>1. ASSUME NEW i \in 1 .. Len(list)
        PROVE  /\ list[i].start >= From /\ EndOf(list[i]) <= UpTo
               /\ list[i].size > 0 /\ Aligned(list[i].start)
    BY <1>1, <1>2, <1>3, <1>4
  <2>2. \A i, j \in 1 .. Len(list) : ~ (i < j)
    BY <1>4
  <2>3. QED
    BY <1>3, <2>1, <2>2 DEF FreeIsSound
<1>6. TakenIsSound(tk) /\ Apart(list, tk)
  BY DEF TakenIsSound, Apart
<1>7. \A p \in From .. UpTo - 1 : InFree(list, p)
  <2> TAKE p \in From .. UpTo - 1
  <2>1. 1 \in 1 .. Len(list) /\ From <= p /\ p < UpTo
    BY <1>1, <1>3
  <2>2. QED
    BY <1>1, <1>2, <1>3, <2>1 DEF InFree
<1>8. BytesOf(list) = From .. UpTo - 1
  BY <1>7 DEF BytesOf
<1>9. Cardinality(From .. UpTo - 1) = UpTo - From
  <2>1. From \in Int /\ UpTo - 1 \in Int /\ ~ (From > UpTo - 1)
    BY <1>1
  <2>2. Cardinality(From .. UpTo - 1) = UpTo - 1 - From + 1
    BY <2>1, FS_Interval
  <2>3. QED
    BY <1>1, <2>2
<1>10. QED
  BY <1>1, <1>5, <1>6, <1>7, <1>8, <1>9 DEF HeapHolds, Covered, list

-----------------------------------------------------------------------------
(* Taking a block. *)

(* What is known of the blocks that are there. *)
LEMMA BlockNumbers ==
  ASSUME Heap!Heap4Constants, NEW list, NEW tk,
         FreeIsSound(list), TakenIsSound(tk)
  PROVE  /\ Len(list) \in Nat
         /\ \A i \in 1 .. Len(list) :
              /\ list[i] \in HeapBlock
              /\ list[i].start \in Nat /\ list[i].size \in Nat
              /\ EndOf(list[i]) = list[i].start + list[i].size
              /\ EndOf(list[i]) \in Nat
         /\ \A a \in DOMAIN tk :
              /\ a \in Nat /\ tk[a] \in TakenBlock
              /\ tk[a].size \in Nat /\ tk[a].asked \in Nat
              /\ tk[a].size > 0
<1>1. \A i \in 1 .. Len(list) : list[i] \in HeapBlock
  BY ElementOfSeq DEF FreeIsSound
<1>2. \A a \in DOMAIN tk : a \in Nat /\ tk[a] \in TakenBlock
  BY DEF TakenIsSound
<1>3. \A a \in DOMAIN tk : tk[a].size \in Nat /\ tk[a].asked \in Nat
  BY <1>2 DEF TakenBlock
<1>4. \A a \in DOMAIN tk : tk[a].size > 0
  BY <1>3 DEF TakenIsSound, Heap!Heap4Constants
<1>5. Len(list) \in Nat
  BY DEF FreeIsSound
<1>6. \A i \in 1 .. Len(list) :
        /\ list[i].start \in Nat /\ list[i].size \in Nat
        /\ EndOf(list[i]) = list[i].start + list[i].size
        /\ EndOf(list[i]) \in Nat
  BY <1>1 DEF HeapBlock, EndOf
<1>7. QED
  BY <1>1, <1>2, <1>3, <1>4, <1>5, <1>6

(* The list when v bytes of its block i, at its beginning, are given away: *)
(* the place k in the new list is m[k] in the old one.                     *)
Shrunk(r, list, i, v, m) ==
  /\ r \in Seq(HeapBlock) /\ m \in [1 .. Len(r) -> 1 .. Len(list)]
  /\ \A k \in 1 .. Len(r) :
       IF m[k] = i
       THEN /\ r[k].start = list[i].start + v
            /\ r[k].size = list[i].size - v /\ v < list[i].size
       ELSE r[k] = list[m[k]]
  /\ \A k, l \in 1 .. Len(r) : k < l => m[k] < m[l]
  /\ \A j \in 1 .. Len(list) :
       (j # i \/ v < list[i].size) => \E k \in 1 .. Len(r) : m[k] = j

(* That is what taking a block makes of the list. *)
LEMMA TakingShrinks ==
  ASSUME Heap!Heap4Constants, NEW list \in Seq(HeapBlock),
         NEW i \in 1 .. Len(list), NEW w \in Nat, w <= list[i].size,
         NEW took, took = Heap!Taking(list, i, w)
  PROVE  /\ took.size \in w .. list[i].size
         /\ took.size = w \/ took.size = list[i].size
         /\ \E m : Shrunk(took.blocks, list, i, took.size, m)
<1> DEFINE b == list[i]
           n == Len(list)
           rest == [start |-> b.start + w, size |-> b.size - w]
           r == took.blocks
<1>1. b \in HeapBlock /\ b.start \in Nat /\ b.size \in Nat /\ n \in Nat
  <2>1. b \in HeapBlock
    BY ElementOfSeq
  <2> HIDE DEF b
  <2>2. QED
    BY <2>1 DEF HeapBlock
<1>2. xHeapStructSize \in Nat \ {0}
  BY DEF Heap!Heap4Constants
<1>3. CASE b.size - w > 2 * xHeapStructSize
  <2>1. took.size = w /\ r = [list EXCEPT ![i] = rest]
    BY <1>3 DEF Heap!Taking
  <2>2. rest \in HeapBlock /\ w < b.size
    <3>1. ASSUME NEW a \in Nat, NEW s \in Nat, NEW h \in Nat \ {0},
                 w <= s, s - w > 2 * h
          PROVE  w < s /\ a + w \in Nat /\ s - w \in Nat
      BY <3>1
    <3>2. w <= b.size
      OBVIOUS
    <3> HIDE DEF b
    <3>3. w < b.size /\ b.start + w \in Nat /\ b.size - w \in Nat
      BY <1>1, <1>2, <1>3, <3>1, <3>2
    <3>4. QED
      BY <3>3 DEF HeapBlock
  <2>3. rest.start = b.start + w /\ rest.size = b.size - w
    OBVIOUS
  <2> HIDE DEF rest, r
  <2>4. /\ r \in Seq(HeapBlock) /\ Len(r) = n
        /\ \A k \in 1 .. n : r[k] = IF k = i THEN rest ELSE list[k]
    BY <2>1, <2>2, ExceptSeq
  <2> DEFINE m == [k \in 1 .. n |-> k]
  <2>5. m \in [1 .. n -> 1 .. n] /\ \A k \in 1 .. n : m[k] = k
    OBVIOUS
  <2> HIDE DEF m, n
  <2>6. \A k \in 1 .. n :
          IF m[k] = i
          THEN /\ r[k].start = b.start + w
               /\ r[k].size = b.size - w /\ w < b.size
          ELSE r[k] = list[m[k]]
    BY <2>2, <2>3, <2>4, <2>5
  <2>7. \A j \in 1 .. n : \E k \in 1 .. n : m[k] = j
    BY <2>5
  <2>8. \A k, l \in 1 .. n : k < l => m[k] < m[l]
    BY <2>5
  <2>9. Shrunk(r, list, i, w, m)
    BY <2>4, <2>5, <2>6, <2>7, <2>8 DEF Shrunk, n
  <2>10. w \in w .. b.size
    BY <1>1, <2>2
  <2>11. QED
    BY <2>1, <2>9, <2>10 DEF r
<1>4. CASE ~ (b.size - w > 2 * xHeapStructSize)
  <2>1. took.size = b.size /\ r = Heap!RemoveAt(list, i)
    BY <1>4 DEF Heap!Taking
  <2> HIDE DEF r
  <2>2. /\ r \in Seq(HeapBlock) /\ Len(r) = n - 1
        /\ \A k \in 1 .. n - 1 : r[k] = list[IF k < i THEN k ELSE k + 1]
    BY <2>1, Removed
  <2> DEFINE m == [k \in 1 .. n - 1 |-> IF k < i THEN k ELSE k + 1]
  <2>3. i \in 1 .. n
    OBVIOUS
  <2> HIDE DEF n
  <2>4. /\ m \in [1 .. n - 1 -> 1 .. n]
        /\ \A k \in 1 .. n - 1 : m[k] = IF k < i THEN k ELSE k + 1
    BY <1>1, <2>3
  <2> HIDE DEF m
  <2>5. \A k \in 1 .. n - 1 : m[k] # i /\ r[k] = list[m[k]]
    <3>1. \A k \in 1 .. n - 1 : m[k] # i
      BY <1>1, <2>3, <2>4
    <3>2. \A k \in 1 .. n - 1 : r[k] = list[m[k]]
      BY <2>2, <2>4, Zenon
    <3>3. QED
      BY <3>1, <3>2
  <2>6. \A k, l \in 1 .. n - 1 : k < l => m[k] < m[l]
    BY <1>1, <2>3, <2>4
  <2>7. ASSUME NEW j \in 1 .. n, j # i
        PROVE  \E k \in 1 .. n - 1 : m[k] = j
    <3>1. CASE j < i
      <4>1. j \in 1 .. n - 1 /\ m[j] = j
        BY <1>1, <2>3, <2>4, <3>1
      <4>2. QED
        BY <4>1
    <3>2. CASE i < j
      <4>1. j - 1 \in 1 .. n - 1 /\ ~ (j - 1 < i) /\ j - 1 + 1 = j
        BY <1>1, <2>3, <3>2
      <4>2. m[j - 1] = j
        BY <2>4, <4>1
      <4>3. QED
        BY <4>1, <4>2
    <3>3. QED
      BY <1>1, <2>3, <2>7, <3>1, <3>2
  <2>8. ~ (b.size < b.size)
    BY <1>1
  <2>9. Shrunk(r, list, i, b.size, m)
    <3>1. \A j \in 1 .. n : (j # i \/ b.size < b.size) =>
            \E k \in 1 .. n - 1 : m[k] = j
      BY <2>7, <2>8
    <3>2. QED
      BY <2>2, <2>4, <2>5, <2>6, <3>1 DEF Shrunk, n
  <2>10. b.size \in w .. b.size
    BY <1>1
  <2>11. QED
    BY <2>1, <2>9, <2>10 DEF r
<1>5. QED
  BY <1>3, <1>4

(* The blocks taken when v bytes at s are given out as well. *)
Given(tk, s, v, asked) ==
  [a \in DOMAIN tk \cup {s} |->
     IF a = s THEN [size |-> v, asked |-> asked] ELSE tk[a]]

(* A block, or its beginning, changes from free to taken. *)
LEMMA ShrunkHolds ==
  ASSUME Heap!Heap4Constants, NEW list, NEW tk, NEW n,
         HeapHolds(list, tk, n), NEW i \in 1 .. Len(list),
         NEW v \in Nat, NEW asked \in Nat,
         v <= list[i].size, asked + xHeapStructSize <= v,
         Aligned(v) \/ v = list[i].size,
         NEW r, NEW m, Shrunk(r, list, i, v, m)
  PROVE  /\ n - v \in Nat
         /\ HeapHolds(r, Given(tk, list[i].start, v, asked), n - v)
<1> DEFINE s == list[i].start
           z == list[i].size
           tk2 == Given(tk, s, v, asked)
<1>1. /\ FreeIsSound(list) /\ TakenIsSound(tk) /\ Apart(list, tk)
      /\ Covered(list, tk) /\ n = Cardinality(BytesOf(list))
  BY DEF HeapHolds
<1>2. /\ Len(list) \in Nat
      /\ \A j \in 1 .. Len(list) :
           /\ list[j] \in HeapBlock
           /\ list[j].start \in Nat /\ list[j].size \in Nat
           /\ EndOf(list[j]) = list[j].start + list[j].size
           /\ EndOf(list[j]) \in Nat
      /\ \A a \in DOMAIN tk :
           /\ a \in Nat /\ tk[a] \in TakenBlock
           /\ tk[a].size \in Nat /\ tk[a].asked \in Nat
           /\ tk[a].size > 0
  BY <1>1, BlockNumbers
<1>3. From \in Nat /\ UpTo \in Nat
  BY HeapBounds
<1>4. /\ s \in Nat /\ z \in Nat /\ v <= z /\ v > 0
      /\ s >= From /\ s + z <= UpTo /\ Aligned(s)
      /\ EndOf(list[i]) = s + z
  <2>1. xHeapStructSize \in Nat \ {0}
    BY DEF Heap!Heap4Constants
  <2>2. QED
    BY <1>1, <1>2, <2>1 DEF FreeIsSound
<1>5. v < z => Aligned(s + v)
  <2>1. portBYTE_ALIGNMENT \in Nat \ {0}
    BY DEF Heap!Heap4Constants
  <2>2. v < z => Aligned(v)
    BY <1>4
  <2>3. QED
    BY <1>4, <2>1, <2>2, MultiplesAdd DEF Aligned
<1>6. /\ r \in Seq(HeapBlock) /\ Len(r) \in Nat
      /\ \A k \in 1 .. Len(r) : m[k] \in 1 .. Len(list)
      /\ \A k \in 1 .. Len(r) : m[k] = i =>
           /\ r[k].start = s + v /\ r[k].size = z - v /\ v < z
           /\ EndOf(r[k]) = s + z
      /\ \A k \in 1 .. Len(r) : m[k] # i => r[k] = list[m[k]]
      /\ \A k, l \in 1 .. Len(r) : k < l => m[k] < m[l]
      /\ \A j \in 1 .. Len(list) :
           (j # i \/ v < z) => \E k \in 1 .. Len(r) : m[k] = j
  <2>1. \A k \in 1 .. Len(r) : m[k] = i =>
           r[k].start = s + v /\ r[k].size = z - v /\ v < z
    BY DEF Shrunk
  <2>2. \A k \in 1 .. Len(r) : m[k] = i => EndOf(r[k]) = s + z
    <3> TAKE k \in 1 .. Len(r)
    <3> HAVE m[k] = i
    <3>1. r[k].start = s + v /\ r[k].size = z - v
      BY <2>1
    <3>2. s + v + (z - v) = s + z
      BY <1>4
    <3>3. QED
      BY <3>1, <3>2 DEF EndOf
  <2>3. r \in Seq(HeapBlock) /\ m \in [1 .. Len(r) -> 1 .. Len(list)]
    BY DEF Shrunk
  <2>4. /\ Len(r) \in Nat
        /\ \A k \in 1 .. Len(r) : m[k] \in 1 .. Len(list)
    BY <2>3
  <2>5. /\ \A k \in 1 .. Len(r) : m[k] # i => r[k] = list[m[k]]
        /\ \A k, l \in 1 .. Len(r) : k < l => m[k] < m[l]
        /\ \A j \in 1 .. Len(list) :
             (j # i \/ v < z) => \E k \in 1 .. Len(r) : m[k] = j
    BY DEF Shrunk
  <2>6. QED
    BY <2>1, <2>2, <2>3, <2>4, <2>5
<1>7. \A a \in DOMAIN tk : s + z <= a \/ a + tk[a].size <= s
  BY <1>1, <1>4 DEF Apart
<1>8. /\ DOMAIN tk2 = DOMAIN tk \cup {s}
      /\ tk2[s] = [size |-> v, asked |-> asked]
      /\ tk2[s].size = v /\ tk2[s].asked = asked
      /\ \A a \in DOMAIN tk : a # s /\ tk2[a] = tk[a]
  <2>1. \A a \in DOMAIN tk : a # s
    BY <1>2, <1>4, <1>7
  <2>2. tk2 = [a \in DOMAIN tk \cup {s} |->
                 IF a = s THEN [size |-> v, asked |-> asked] ELSE tk[a]]
    BY DEF Given
  <2>3. tk2[s] = [size |-> v, asked |-> asked]
    BY <2>2
  <2>4. QED
    BY <2>1, <2>2, <2>3
<1>8a. tk2 = [a \in DOMAIN tk2 |-> tk2[a]]
  BY DEF Given
<1> HIDE DEF s, z, tk2
<1>9. FreeIsSound(r)
  <2>1. ASSUME NEW k \in 1 .. Len(r)
        PROVE  /\ r[k].start >= From /\ EndOf(r[k]) <= UpTo
               /\ r[k].size > 0 /\ Aligned(r[k].start)
    <3>1. CASE m[k] = i
      BY <1>3, <1>4, <1>5, <1>6, <3>1
    <3>2. CASE m[k] # i
      BY <1>1, <1>6, <3>2 DEF FreeIsSound
    <3>3. QED
      BY <3>1, <3>2
  <2>2. ASSUME NEW k \in 1 .. Len(r), NEW l \in 1 .. Len(r), k < l
        PROVE  EndOf(r[k]) < r[l].start
    <3>1. /\ m[k] \in 1 .. Len(list) /\ m[l] \in 1 .. Len(list)
          /\ m[k] < m[l]
      BY <1>6, <2>2
    <3>2. EndOf(list[m[k]]) < list[m[l]].start
      BY <1>1, <3>1 DEF FreeIsSound
    <3>3. EndOf(r[k]) = EndOf(list[m[k]]) /\ EndOf(r[k]) \in Nat
      <4>1. CASE m[k] = i
        BY <1>4, <1>6, <4>1
      <4>2. CASE m[k] # i
        <5>1. r[k] = list[m[k]]
          BY <1>6, <4>2
        <5>2. EndOf(list[m[k]]) \in Nat
          BY <1>2, <3>1
        <5>3. QED
          BY <5>1, <5>2
      <4>3. QED
        BY <4>1, <4>2
    <3>4. /\ r[l].start >= list[m[l]].start
          /\ r[l].start \in Nat /\ list[m[l]].start \in Nat
      <4>1. CASE m[l] = i
        <5>1. r[l].start = s + v /\ list[m[l]].start = s
          BY <1>6, <4>1 DEF s
        <5>2. QED
          BY <1>4, <5>1
      <4>2. CASE m[l] # i
        <5>1. r[l] = list[m[l]]
          BY <1>6, <4>2
        <5>2. list[m[l]].start \in Nat
          BY <1>2, <3>1
        <5>3. QED
          BY <5>1, <5>2
      <4>3. QED
        BY <4>1, <4>2
    <3>5. QED
      BY <3>2, <3>3, <3>4
  <2>3. QED
    BY <1>6, <2>1, <2>2 DEF FreeIsSound
<1>10. TakenIsSound(tk2)
  <2>1. /\ DOMAIN tk2 \in SUBSET Nat
        /\ tk2[s] \in TakenBlock
    BY <1>2, <1>4, <1>8 DEF TakenBlock
  <2>2. tk2 \in [DOMAIN tk2 -> TakenBlock]
    <3>1. \A a \in DOMAIN tk2 : tk2[a] \in TakenBlock
      BY <1>2, <1>8, <2>1
    <3>2. tk2 = [a \in DOMAIN tk2 |-> tk2[a]]
      BY <1>8a
    <3>3. QED
      BY <3>1, <3>2
  <2>3. ASSUME NEW a \in DOMAIN tk2
        PROVE  /\ a >= From /\ a + tk2[a].size <= UpTo /\ Aligned(a)
               /\ tk2[a].size >= tk2[a].asked + xHeapStructSize
    <3>1. CASE a = s
      <4>1. asked + xHeapStructSize \in Nat
        BY DEF Heap!Heap4Constants
      <4>2. QED
        BY <1>3, <1>4, <1>8, <3>1, <4>1
    <3>2. CASE a \in DOMAIN tk
      BY <1>1, <1>8, <3>2 DEF TakenIsSound
    <3>3. QED
      BY <1>8, <3>1, <3>2
  <2>4. ASSUME NEW a \in DOMAIN tk2, NEW c \in DOMAIN tk2, a < c
        PROVE  a + tk2[a].size <= c
    <3>1. CASE a \in DOMAIN tk /\ c \in DOMAIN tk
      BY <1>1, <1>8, <2>4, <3>1 DEF TakenIsSound
    <3>2. CASE a = s /\ c \in DOMAIN tk
      <4>1. tk2[a].size = v /\ c \in Nat /\ tk[c].size \in Nat
        BY <1>2, <1>8, <3>2
      <4>2. s + z <= c \/ c + tk[c].size <= s
        BY <1>7, <3>2
      <4>3. QED
        BY <1>4, <2>4, <3>2, <4>1, <4>2
    <3>3. CASE c = s /\ a \in DOMAIN tk
      BY <1>2, <1>4, <1>7, <1>8, <2>4, <3>3
    <3>4. QED
      BY <1>4, <1>8, <2>4, <3>1, <3>2, <3>3
  <2>5. QED
    BY <2>1, <2>2, <2>3, <2>4 DEF TakenIsSound
<1>11. Apart(r, tk2)
  <2> SUFFICES ASSUME NEW k \in 1 .. Len(r), NEW a \in DOMAIN tk2
               PROVE  EndOf(r[k]) <= a \/ a + tk2[a].size <= r[k].start
    BY DEF Apart
  <2>1. m[k] \in 1 .. Len(list)
    BY <1>6
  <2>2. CASE m[k] = i /\ a = s
    BY <1>4, <1>6, <1>8, <2>2
  <2>3. CASE m[k] = i /\ a \in DOMAIN tk
    BY <1>2, <1>4, <1>6, <1>7, <1>8, <2>3
  <2>4. CASE m[k] # i /\ a \in DOMAIN tk
    BY <1>1, <1>6, <1>8, <2>1, <2>4 DEF Apart
  <2>5. CASE m[k] # i /\ a = s
    <3>1. r[k] = list[m[k]]
      BY <1>6, <2>5
    <3>2. m[k] < i \/ i < m[k]
      BY <1>2, <2>1, <2>5
    <3>3. \/ EndOf(list[m[k]]) < s
          \/ s + z < list[m[k]].start
      BY <1>1, <1>4, <2>1, <3>2 DEF FreeIsSound, s
    <3>4. /\ list[m[k]].start \in Nat /\ EndOf(list[m[k]]) \in Nat
      BY <1>2, <2>1
    <3>5. QED
      BY <1>4, <1>8, <2>5, <3>1, <3>3, <3>4
  <2>6. QED
    BY <1>8, <2>2, <2>3, <2>4, <2>5
<1>12. \A p \in From .. UpTo - 1 :
         InFree(r, p) <=> InFree(list, p) /\ ~ (p \in s .. s + v - 1)
  <2> TAKE p \in From .. UpTo - 1
  <2>0. p \in Nat
    BY <1>3
  <2>1. ASSUME InFree(r, p)
        PROVE  InFree(list, p) /\ ~ (p \in s .. s + v - 1)
    <3>1. PICK k \in 1 .. Len(r) : r[k].start <= p /\ p < EndOf(r[k])
      BY <2>1 DEF InFree
    <3>2. m[k] \in 1 .. Len(list)
      BY <1>6
    <3>3. CASE m[k] = i
      <4>1. s + v <= p /\ p < s + z
        BY <1>6, <3>1, <3>3
      <4>2. /\ list[i].start <= p /\ p < EndOf(list[i])
            /\ ~ (p \in s .. s + v - 1)
        BY <1>4, <2>0, <4>1 DEF s
      <4>3. QED
        BY <4>2 DEF InFree
    <3>4. CASE m[k] # i
      <4>1. list[m[k]].start <= p /\ p < EndOf(list[m[k]])
        BY <1>6, <3>1, <3>4
      <4>2. m[k] < i \/ i < m[k]
        BY <1>2, <3>2, <3>4
      <4>3. EndOf(list[m[k]]) < s \/ s + z < list[m[k]].start
        BY <1>1, <1>4, <3>2, <4>2 DEF FreeIsSound, s
      <4>4. list[m[k]].start \in Nat /\ EndOf(list[m[k]]) \in Nat
        BY <1>2, <3>2
      <4>5. ~ (p \in s .. s + v - 1)
        BY <1>4, <2>0, <4>1, <4>3, <4>4
      <4>6. QED
        BY <3>2, <4>1, <4>5 DEF InFree
    <3>5. QED
      BY <3>3, <3>4
  <2>2. ASSUME InFree(list, p), ~ (p \in s .. s + v - 1)
        PROVE  InFree(r, p)
    <3>1. PICK j \in 1 .. Len(list) :
            list[j].start <= p /\ p < EndOf(list[j])
      BY <2>2 DEF InFree
    <3>2. j = i => s + v <= p /\ p < s + z
      BY <1>4, <2>0, <2>2, <3>1 DEF s
    <3>3. j # i \/ v < z
      BY <1>4, <2>0, <3>2
    <3>4. PICK k \in 1 .. Len(r) : m[k] = j
      BY <1>6, <3>3
    <3>5. r[k].start <= p /\ p < EndOf(r[k])
      BY <1>6, <3>1, <3>2, <3>4
    <3>6. QED
      BY <3>5 DEF InFree
  <2>3. QED
    BY <2>1, <2>2
<1>13. Covered(r, tk2)
  <2> SUFFICES ASSUME NEW p \in From .. UpTo - 1
               PROVE  InFree(r, p) \/ InTaken(tk2, p)
    BY DEF Covered
  <2>1. CASE p \in s .. s + v - 1
    <3>1. s <= p /\ p < s + tk2[s].size
      BY <1>3, <1>4, <1>8, <2>1
    <3>2. QED
      BY <1>8, <3>1 DEF InTaken
  <2>2. CASE InTaken(tk, p)
    BY <1>8, <2>2 DEF InTaken
  <2>3. QED
    BY <1>1, <1>12, <2>1, <2>2 DEF Covered
<1>14. BytesOf(r) = BytesOf(list) \ (s .. s + v - 1)
  BY <1>12 DEF BytesOf
<1>15. s .. s + v - 1 \subseteq BytesOf(list)
  <2> SUFFICES ASSUME NEW p \in s .. s + v - 1 PROVE p \in BytesOf(list)
    OBVIOUS
  <2>1. p \in From .. UpTo - 1 /\ list[i].start <= p /\ p < EndOf(list[i])
    BY <1>3, <1>4 DEF s
  <2>2. QED
    BY <2>1 DEF BytesOf, InFree
<1>16. BytesOf(list) \in SUBSET (From .. UpTo - 1)
  BY DEF BytesOf
<1>17. n - v \in Nat /\ n - v = Cardinality(BytesOf(r))
  <2>1. /\ v <= n /\ n \in Nat
        /\ Cardinality(BytesOf(list) \ (s .. s + v - 1)) = n - v
    BY <1>1, <1>3, <1>4, <1>15, <1>16, FewerBytes
  <2>2. QED
    BY <1>14, <2>1
<1>18. QED
  BY <1>9, <1>10, <1>11, <1>13, <1>17 DEF HeapHolds, tk2, s

-----------------------------------------------------------------------------
(* Giving a block back. *)

(* The list when e takes the place of what lies between lo and hi. *)
Grown(r, list, e, lo, hi) ==
  /\ r \in Seq(HeapBlock) /\ lo \in 0 .. Len(list)
  /\ hi \in lo + 1 .. Len(list) + 1
  /\ Splices(list, e, lo, hi, r)

(* e is a block of the heap that has what the blocks between lo and hi and *)
(* that at a have, and nothing else, and it touches no other.              *)
Joined(list, e, lo, hi, a, z) ==
  /\ e \in HeapBlock /\ Aligned(e.start)
  /\ e.start >= From /\ EndOf(e) <= UpTo
  /\ e.start <= a /\ a + z <= EndOf(e)
  /\ \A k \in 1 .. lo : EndOf(list[k]) < e.start
  /\ \A k \in hi .. Len(list) : EndOf(e) < list[k].start
  /\ \A k \in lo + 1 .. hi - 1 :
       e.start <= list[k].start /\ EndOf(list[k]) <= EndOf(e)
  /\ \A p \in Nat : e.start <= p /\ p < EndOf(e) =>
       \/ a <= p /\ p < a + z
       \/ \E k \in lo + 1 .. hi - 1 :
            list[k].start <= p /\ p < EndOf(list[k])
  /\ \A c \in Nat, w \in Nat \ {0} :
       /\ c + w <= a \/ a + z <= c
       /\ \A k \in 1 .. Len(list) :
            EndOf(list[k]) <= c \/ c + w <= list[k].start
       => EndOf(e) <= c \/ c + w <= e.start

(* Inserting joins. *)
LEMMA InsertedJoins ==
  ASSUME Heap!Heap4Constants, NEW list, NEW tk,
         FreeIsSound(list), TakenIsSound(tk), Apart(list, tk),
         NEW a \in DOMAIN tk,
         NEW r, r = Heap!Inserted(list, [start |-> a, size |-> tk[a].size])
  PROVE  \E e, lo, hi :
           /\ Grown(r, list, e, lo, hi)
           /\ Joined(list, e, lo, hi, a, tk[a].size)
<1> DEFINE n == Len(list)
           z == tk[a].size
           b == [start |-> a, size |-> z]
           p == Heap!Before(list, a)
           joinsLast == p > 0 /\ list[p].start + list[p].size = a
           joinsNext == p < n /\ a + z = list[p + 1].start
           lo == IF joinsLast THEN p - 1 ELSE p
           hi == IF joinsNext THEN p + 2 ELSE p + 1
           e == [start |-> IF joinsLast THEN list[p].start ELSE a,
                 size |-> (IF joinsLast THEN list[p].size ELSE 0) + z
                          + (IF joinsNext THEN list[p + 1].size ELSE 0)]
<1>1. /\ n \in Nat
      /\ \A i \in 1 .. n :
           /\ list[i] \in HeapBlock
           /\ list[i].start \in Nat /\ list[i].size \in Nat
           /\ EndOf(list[i]) = list[i].start + list[i].size
           /\ EndOf(list[i]) \in Nat
      /\ a \in Nat /\ z \in Nat /\ z > 0
  BY BlockNumbers
<1>2. list \in Seq(HeapBlock)
  BY DEF FreeIsSound
<1>3. /\ a >= From /\ a + z <= UpTo /\ Aligned(a)
      /\ From \in Nat /\ UpTo \in Nat
  BY HeapBounds DEF TakenIsSound
<1>4. /\ \A i \in 1 .. n :
           /\ list[i].start >= From /\ EndOf(list[i]) <= UpTo
           /\ list[i].size > 0 /\ Aligned(list[i].start)
      /\ \A i, j \in 1 .. n : i < j => EndOf(list[i]) < list[j].start
  BY DEF FreeIsSound
<1>5. \A i \in 1 .. n : EndOf(list[i]) <= a \/ a + z <= list[i].start
  BY DEF Apart
<1>6. r = SubSeq(list, 1, lo) \o <<e>> \o SubSeq(list, hi, n)
  BY DEF Heap!Inserted
<1>7. /\ p \in 0 .. n
      /\ \A i \in 1 .. p : list[i].start < a
      /\ \A i \in p + 1 .. n : list[i].start >= a
  <2>1. \A i, j \in 1 .. n : i < j => list[i].start < list[j].start
    <3> TAKE i, j \in 1 .. n
    <3> HAVE i < j
    <3>1. EndOf(list[i]) < list[j].start /\ list[j].start \in Nat
      BY <1>1, <1>4
    <3>2. list[i].start <= EndOf(list[i]) /\ EndOf(list[i]) \in Nat
      BY <1>1
    <3>3. list[i].start \in Nat
      BY <1>1
    <3>4. QED
      BY <3>1, <3>2, <3>3
  <2> HIDE DEF p
  <2>2. QED
    BY <1>1, <1>2, <2>1, PlaceFound DEF p
<1> HIDE DEF p, n, z
<1>8. \A i \in 1 .. p : i \in 1 .. n /\ EndOf(list[i]) <= a
  <2> TAKE i \in 1 .. p
  <2>1. i \in 1 .. n /\ list[i].start < a
    BY <1>1, <1>7
  <2>2. list[i].start \in Nat
    BY <1>1, <2>1
  <2>3. ~ (a + z <= list[i].start)
    BY <1>1, <2>1, <2>2
  <2>4. QED
    BY <1>5, <2>1, <2>3
<1>9. \A i \in p + 1 .. n : i \in 1 .. n /\ a + z <= list[i].start
  <2> TAKE i \in p + 1 .. n
  <2>1. i \in 1 .. n /\ list[i].start >= a
    BY <1>1, <1>7
  <2>2. list[i].size > 0 /\ EndOf(list[i]) = list[i].start + list[i].size
        /\ list[i].start \in Nat /\ list[i].size \in Nat
    BY <1>1, <1>4, <2>1
  <2>3. ~ (EndOf(list[i]) <= a)
    BY <1>1, <2>1, <2>2
  <2>4. QED
    BY <1>5, <2>1, <2>3
<1>10. lo \in 0 .. n /\ hi \in lo + 1 .. n + 1
       /\ lo \in Int /\ hi \in Int
  BY <1>1, <1>7
<1>11. joinsLast => /\ p \in 1 .. n /\ EndOf(list[p]) = a
                    /\ list[p].start \in Nat /\ list[p].size \in Nat
                    /\ list[p].start >= From /\ Aligned(list[p].start)
                    /\ list[p].start + list[p].size = a
  <2> SUFFICES ASSUME joinsLast
               PROVE  /\ p \in 1 .. n /\ EndOf(list[p]) = a
                      /\ list[p].start \in Nat /\ list[p].size \in Nat
                      /\ list[p].start >= From /\ Aligned(list[p].start)
                      /\ list[p].start + list[p].size = a
    OBVIOUS
  <2>1. p \in 1 .. n
    BY <1>1, <1>7
  <2>2. QED
    BY <1>1, <1>4, <2>1
<1>12. joinsNext => /\ p + 1 \in 1 .. n /\ a + z = list[p + 1].start
                    /\ list[p + 1].size \in Nat
                    /\ EndOf(list[p + 1]) = a + z + list[p + 1].size
                    /\ EndOf(list[p + 1]) <= UpTo
  <2> SUFFICES ASSUME joinsNext
               PROVE  /\ p + 1 \in 1 .. n /\ a + z = list[p + 1].start
                      /\ list[p + 1].size \in Nat
                      /\ EndOf(list[p + 1]) = a + z + list[p + 1].size
                      /\ EndOf(list[p + 1]) <= UpTo
    OBVIOUS
  <2>1. p + 1 \in 1 .. n
    BY <1>1, <1>7
  <2>2. QED
    BY <1>1, <1>4, <2>1
<1>13. /\ e \in HeapBlock
       /\ e.start = IF joinsLast THEN list[p].start ELSE a
       /\ EndOf(e) = IF joinsNext THEN EndOf(list[p + 1]) ELSE a + z
       /\ e.start \in Nat /\ EndOf(e) \in Nat
  <2> DEFINE start == IF joinsLast THEN list[p].start ELSE a
             before == IF joinsLast THEN list[p].size ELSE 0
             after == IF joinsNext THEN list[p + 1].size ELSE 0
             all == before + z + after
  <2>1. start \in Nat /\ before \in Nat /\ after \in Nat
        /\ start + before = a
    BY <1>1, <1>11, <1>12
  <2>2. e = [start |-> start, size |-> all]
    OBVIOUS
  <2>3. after = (IF joinsNext THEN EndOf(list[p + 1]) ELSE a + z) - (a + z)
    BY <1>1, <1>12
  <2> HIDE DEF before, after
  <2>4. all \in Nat /\ start + all = a + z + after
    BY <1>1, <2>1
  <2>5. /\ e.start = start /\ e.size = all
        /\ e \in HeapBlock
    BY <2>1, <2>2, <2>4 DEF HeapBlock
  <2>6. EndOf(e) = a + z + after /\ EndOf(e) \in Nat
    BY <1>1, <2>1, <2>4, <2>5 DEF EndOf
  <2>7. EndOf(e) = IF joinsNext THEN EndOf(list[p + 1]) ELSE a + z
    <3>1. CASE joinsNext
      BY <1>1, <1>12, <2>1, <2>3, <2>6, <3>1
    <3>2. CASE ~ joinsNext
      BY <1>1, <2>1, <2>3, <2>6, <3>2
    <3>3. QED
      BY <3>1, <3>2
  <2>8. QED
    BY <2>1, <2>5, <2>6, <2>7
<1>14. Grown(r, list, e, lo, hi)
  <2> HIDE DEF e, lo, hi
  <2>1. /\ lo \in 0 .. Len(list) /\ hi \in lo + 1 .. Len(list) + 1
        /\ r = Splice(list, e, lo, hi) /\ e \in HeapBlock
    BY <1>6, <1>10, <1>13 DEF n, Splice
  <2>2. r \in Seq(HeapBlock) /\ Splices(list, e, lo, hi, r)
    BY <1>2, <2>1, Spliced
  <2>3. QED
    BY <2>1, <2>2 DEF Grown
<1>15. /\ \A k \in 1 .. lo : EndOf(list[k]) < e.start
       /\ \A k \in hi .. n : EndOf(e) < list[k].start
  <2>1. ASSUME NEW k \in 1 .. lo PROVE EndOf(list[k]) < e.start
    <3>1. k \in 1 .. p /\ k \in 1 .. n /\ EndOf(list[k]) \in Nat
      BY <1>1, <1>7, <1>10
    <3>2. CASE joinsLast
      <4>1. k < p
        BY <1>7, <3>2
      <4>2. QED
        BY <1>4, <1>11, <1>13, <3>1, <3>2, <4>1
    <3>3. CASE ~ joinsLast
      <4>1. EndOf(list[k]) <= a
        BY <1>8, <3>1
      <4>2. CASE k = p
        <5>1. EndOf(list[p]) # a
          BY <1>1, <3>1, <3>3, <4>2
        <5>2. QED
          BY <1>1, <1>13, <3>1, <3>3, <4>1, <4>2, <5>1
      <4>3. CASE k < p
        <5>1. p \in 1 .. n /\ list[p].start < a
          BY <1>1, <1>7, <3>1
        <5>2. EndOf(list[k]) < list[p].start /\ list[p].start \in Nat
          BY <1>1, <1>4, <3>1, <4>3, <5>1
        <5>3. QED
          BY <1>1, <1>13, <3>1, <3>3, <5>1, <5>2
      <4>4. QED
        BY <1>7, <3>1, <4>2, <4>3
    <3>4. QED
      BY <3>2, <3>3
  <2>2. ASSUME NEW k \in hi .. n PROVE EndOf(e) < list[k].start
    <3>1. k \in p + 1 .. n /\ k \in 1 .. n /\ list[k].start \in Nat
      BY <1>1, <1>7, <1>10
    <3>2. CASE joinsNext
      <4>1. p + 1 < k
        BY <1>7, <1>10, <3>2
      <4>2. EndOf(list[p + 1]) < list[k].start
        BY <1>4, <1>12, <3>1, <3>2, <4>1
      <4>3. QED
        BY <1>13, <3>2, <4>2
    <3>3. CASE ~ joinsNext
      <4>1. a + z <= list[k].start
        BY <1>9, <3>1
      <4>2. CASE k = p + 1
        <5>1. a + z # list[k].start
          BY <1>1, <1>7, <3>1, <3>3, <4>2
        <5>2. QED
          BY <1>1, <1>13, <3>1, <3>3, <4>1, <5>1
      <4>3. CASE p + 1 < k
        <5>1. /\ p + 1 \in 1 .. n /\ p + 1 \in p + 1 .. n
          BY <1>1, <1>7, <3>1
        <5>2. /\ a + z <= list[p + 1].start
              /\ list[p + 1].size > 0 /\ list[p + 1].size \in Nat
              /\ list[p + 1].start \in Nat
              /\ EndOf(list[p + 1]) = list[p + 1].start + list[p + 1].size
          BY <1>1, <1>4, <1>9, <5>1
        <5>3. EndOf(list[p + 1]) < list[k].start
          BY <1>4, <3>1, <4>3, <5>1
        <5>4. EndOf(e) = a + z
          BY <1>13, <3>3
        <5>5. QED
          BY <1>1, <3>1, <5>2, <5>3, <5>4
      <4>4. QED
        BY <1>7, <3>1, <4>2, <4>3
    <3>4. QED
      BY <3>2, <3>3
  <2>3. QED
    BY <2>1, <2>2
<1>16. e.start <= a /\ a + z <= EndOf(e)
  <2>1. e.start <= a
    BY <1>1, <1>11, <1>13
  <2>2. a + z <= EndOf(e)
    BY <1>1, <1>12, <1>13
  <2>3. QED
    BY <2>1, <2>2
<1>17. Aligned(e.start) /\ e.start >= From /\ EndOf(e) <= UpTo
  <2>1. Aligned(e.start) /\ e.start >= From
    BY <1>3, <1>11, <1>13
  <2>2. EndOf(e) <= UpTo
    BY <1>3, <1>12, <1>13
  <2>3. QED
    BY <2>1, <2>2
<1>18. \A k \in lo + 1 .. hi - 1 :
         \/ k = p /\ joinsLast
         \/ k = p + 1 /\ joinsNext
  BY <1>7
<1>19. /\ joinsLast => p \in lo + 1 .. hi - 1
       /\ joinsNext => p + 1 \in lo + 1 .. hi - 1
  BY <1>7
<1> HIDE DEF lo, hi, e, joinsLast, joinsNext
<1>20. \A k \in lo + 1 .. hi - 1 :
         e.start <= list[k].start /\ EndOf(list[k]) <= EndOf(e)
  <2> TAKE k \in lo + 1 .. hi - 1
  <2>1. CASE k = p /\ joinsLast
    <3>1. e.start = list[k].start /\ EndOf(list[k]) = a
      BY <1>11, <1>13, <2>1
    <3>2. QED
      BY <1>1, <1>13, <1>16, <3>1
  <2>2. CASE k = p + 1 /\ joinsNext
    <3>1. EndOf(e) = EndOf(list[k]) /\ list[k].start = a + z
      BY <1>12, <1>13, <2>2
    <3>2. QED
      BY <1>1, <1>13, <1>16, <3>1
  <2>3. QED
    BY <1>18, <2>1, <2>2
<1>21. \A q \in Nat : e.start <= q /\ q < EndOf(e) =>
         \/ a <= q /\ q < a + z
         \/ \E k \in lo + 1 .. hi - 1 :
              list[k].start <= q /\ q < EndOf(list[k])
  <2> TAKE q \in Nat
  <2> HAVE e.start <= q /\ q < EndOf(e)
  <2>1. CASE q < a
    <3>1. joinsLast
      BY <1>13, <2>1
    <3>2. list[p].start <= q /\ q < EndOf(list[p])
      BY <1>11, <1>13, <2>1, <3>1
    <3>3. QED
      BY <1>19, <3>1, <3>2
  <2>2. CASE a + z <= q
    <3>1. joinsNext
      BY <1>1, <1>13, <2>2
    <3>2. list[p + 1].start <= q /\ q < EndOf(list[p + 1])
      BY <1>12, <1>13, <2>2, <3>1
    <3>3. QED
      BY <1>19, <3>1, <3>2
  <2>3. QED
    BY <1>1, <2>1, <2>2
<1>22. ASSUME NEW c \in Nat, NEW w \in Nat \ {0},
              c + w <= a \/ a + z <= c,
              \A k \in 1 .. n :
                EndOf(list[k]) <= c \/ c + w <= list[k].start
       PROVE  EndOf(e) <= c \/ c + w <= e.start
  <2>1. CASE c + w <= a
    <3>1. CASE joinsLast
      <4>1. EndOf(list[p]) <= c \/ c + w <= list[p].start
        BY <1>11, <1>22, <3>1
      <4>2. c + w <= list[p].start
        BY <1>1, <1>11, <2>1, <3>1, <4>1
      <4>3. QED
        BY <1>13, <3>1, <4>2
    <3>2. QED
      BY <1>13, <2>1, <3>1
  <2>2. CASE a + z <= c
    <3>1. CASE joinsNext
      <4>1. EndOf(list[p + 1]) <= c \/ c + w <= list[p + 1].start
        BY <1>12, <1>22, <3>1
      <4>2. EndOf(list[p + 1]) <= c
        BY <1>1, <1>12, <2>2, <3>1, <4>1
      <4>3. QED
        BY <1>13, <3>1, <4>2
    <3>2. QED
      BY <1>13, <2>2, <3>1
  <2>3. QED
    BY <1>22, <2>1, <2>2
<1>23. Joined(list, e, lo, hi, a, z)
  BY <1>13, <1>15, <1>16, <1>17, <1>20, <1>21, <1>22 DEF Joined, n
<1>24. QED
  BY <1>14, <1>23 DEF z

(* A block changes from taken to free, joined with its neighbours.         *)
LEMMA GrownHolds ==
  ASSUME Heap!Heap4Constants, NEW list, NEW tk, NEW n,
         HeapHolds(list, tk, n), NEW a \in DOMAIN tk,
         NEW r, NEW e, NEW lo, NEW hi, Grown(r, list, e, lo, hi),
         Joined(list, e, lo, hi, a, tk[a].size),
         NEW tk2, tk2 = [c \in DOMAIN tk \ {a} |-> tk[c]]
  PROVE  n \in Nat /\ HeapHolds(r, tk2, n + tk[a].size)
<1> DEFINE z == tk[a].size
           l == Len(list)
           g(k) == IF k <= lo THEN k ELSE k + hi - lo - 2
<1>1. /\ FreeIsSound(list) /\ TakenIsSound(tk) /\ Apart(list, tk)
      /\ Covered(list, tk) /\ n = Cardinality(BytesOf(list))
  BY DEF HeapHolds
<1>2. /\ l \in Nat
      /\ \A j \in 1 .. l :
           /\ list[j] \in HeapBlock
           /\ list[j].start \in Nat /\ list[j].size \in Nat
           /\ EndOf(list[j]) = list[j].start + list[j].size
           /\ EndOf(list[j]) \in Nat
      /\ \A c \in DOMAIN tk :
           /\ c \in Nat /\ tk[c] \in TakenBlock
           /\ tk[c].size \in Nat /\ tk[c].asked \in Nat
           /\ tk[c].size > 0
  BY <1>1, BlockNumbers
<1>3. From \in Nat /\ UpTo \in Nat
  BY HeapBounds
<1>4. /\ a \in Nat /\ z \in Nat /\ z > 0
      /\ a >= From /\ a + z <= UpTo
  BY <1>1, <1>2 DEF TakenIsSound
<1>5. /\ r \in Seq(HeapBlock) /\ lo \in 0 .. l /\ hi \in lo + 1 .. l + 1
      /\ Len(r) = lo + 2 + l - hi /\ Len(r) \in Nat
      /\ r[lo + 1] = e /\ lo + 1 \in 1 .. Len(r)
  <2>1. /\ r \in Seq(HeapBlock) /\ lo \in 0 .. l /\ hi \in lo + 1 .. l + 1
        /\ Len(r) = lo + 2 + l - hi /\ r[lo + 1] = e
    BY DEF Grown, Splices
  <2> HIDE DEF l
  <2>2. lo + 2 + l - hi \in Nat /\ lo + 1 \in 1 .. lo + 2 + l - hi
    BY <1>2, <2>1
  <2>3. QED
    BY <2>1, <2>2
<1>6. /\ \A k \in 1 .. lo : r[k] = list[k]
      /\ \A k \in lo + 2 .. Len(r) : r[k] = list[k + hi - lo - 2]
  BY DEF Grown, Splices
<1> HIDE DEF l, z
<1>7. \A k \in 1 .. Len(r) : k # lo + 1 =>
        /\ g(k) \in 1 .. l /\ r[k] = list[g(k)]
        /\ \/ k < lo + 1 /\ g(k) \in 1 .. lo
           \/ lo + 1 < k /\ g(k) \in hi .. l
  <2> TAKE k \in 1 .. Len(r)
  <2> HAVE k # lo + 1
  <2>1. CASE k <= lo
    <3>1. k \in 1 .. lo /\ g(k) = k /\ k \in 1 .. l /\ k < lo + 1
      BY <1>2, <1>5, <2>1
    <3>2. QED
      BY <1>6, <3>1
  <2>2. CASE ~ (k <= lo)
    <3>1. /\ k \in lo + 2 .. Len(r) /\ g(k) = k + hi - lo - 2
          /\ k + hi - lo - 2 \in hi .. l /\ k + hi - lo - 2 \in 1 .. l
          /\ lo + 1 < k
      <4>1. k \in 1 .. lo + 2 + l - hi
        BY <1>5
      <4>2. k \in lo + 2 .. lo + 2 + l - hi
        BY <1>2, <1>5, <2>2, <4>1
      <4>3. QED
        BY <1>2, <1>5, <2>2, <4>2
    <3>2. QED
      BY <1>6, <3>1
  <2>3. QED
    BY <2>1, <2>2
<1>8. \A j \in 1 .. l : j <= lo \/ hi <= j =>
        \E k \in 1 .. Len(r) : k # lo + 1 /\ r[k] = list[j]
  <2> TAKE j \in 1 .. l
  <2>1. CASE j <= lo
    <3>1. j \in 1 .. lo /\ j \in 1 .. Len(r) /\ j # lo + 1
      BY <1>2, <1>5, <2>1
    <3>2. QED
      BY <1>6, <3>1
  <2>2. CASE hi <= j
    <3> DEFINE k == j + lo + 2 - hi
    <3>1. /\ k \in lo + 2 .. lo + 2 + l - hi
          /\ k + hi - lo - 2 = j /\ k \in 1 .. lo + 2 + l - hi
          /\ k # lo + 1
      BY <1>2, <1>5, <2>2
    <3> HIDE DEF k
    <3>2. r[k] = list[j]
      BY <1>5, <1>6, <3>1
    <3>3. QED
      BY <1>5, <3>1, <3>2
  <2>3. QED
    BY <2>1, <2>2
<1>9. \A k, q \in 1 .. Len(r) :
        k < q /\ k # lo + 1 /\ q # lo + 1 => g(k) < g(q)
  BY <1>2, <1>5
<1> HIDE DEF g
<1>10. /\ e \in HeapBlock /\ e.start \in Nat /\ e.size \in Nat
       /\ EndOf(e) = e.start + e.size /\ EndOf(e) \in Nat
       /\ Aligned(e.start) /\ e.start >= From /\ EndOf(e) <= UpTo
       /\ e.start <= a /\ a + z <= EndOf(e) /\ e.size > 0
  <2>1. /\ e \in HeapBlock /\ Aligned(e.start) /\ e.start >= From
        /\ EndOf(e) <= UpTo /\ e.start <= a /\ a + z <= EndOf(e)
    BY DEF Joined, z
  <2>2. e.start \in Nat /\ e.size \in Nat /\ EndOf(e) = e.start + e.size
    BY <2>1 DEF HeapBlock, EndOf
  <2>3. EndOf(e) \in Nat /\ e.size > 0
    BY <1>4, <2>1, <2>2
  <2>4. QED
    BY <2>1, <2>2, <2>3
<1>11. /\ \A k \in 1 .. lo : EndOf(list[k]) < e.start
       /\ \A k \in hi .. l : EndOf(e) < list[k].start
       /\ \A k \in lo + 1 .. hi - 1 :
            e.start <= list[k].start /\ EndOf(list[k]) <= EndOf(e)
       /\ \A p \in Nat : e.start <= p /\ p < EndOf(e) =>
            \/ a <= p /\ p < a + z
            \/ \E k \in lo + 1 .. hi - 1 :
                 list[k].start <= p /\ p < EndOf(list[k])
       /\ \A c \in Nat, w \in Nat \ {0} :
            /\ c + w <= a \/ a + z <= c
            /\ \A k \in 1 .. l :
                 EndOf(list[k]) <= c \/ c + w <= list[k].start
            => EndOf(e) <= c \/ c + w <= e.start
  BY DEF Joined, l, z
<1>12. /\ DOMAIN tk2 = DOMAIN tk \ {a}
       /\ \A c \in DOMAIN tk2 : c \in DOMAIN tk /\ tk2[c] = tk[c] /\ c # a
  OBVIOUS
<1>13. FreeIsSound(r)
  <2>1. ASSUME NEW k \in 1 .. Len(r)
        PROVE  /\ r[k].start >= From /\ EndOf(r[k]) <= UpTo
               /\ r[k].size > 0 /\ Aligned(r[k].start)
    <3>1. CASE k = lo + 1
      BY <1>5, <1>10, <3>1
    <3>2. CASE k # lo + 1
      <4>1. r[k] = list[g(k)] /\ g(k) \in 1 .. l
        BY <1>7, <3>2
      <4>2. QED
        BY <1>1, <4>1 DEF FreeIsSound, l
    <3>3. QED
      BY <3>1, <3>2
  <2>2. ASSUME NEW k \in 1 .. Len(r), NEW q \in 1 .. Len(r), k < q
        PROVE  EndOf(r[k]) < r[q].start
    <3>1. CASE k # lo + 1 /\ q # lo + 1
      <4>1. /\ r[k] = list[g(k)] /\ g(k) \in 1 .. l
            /\ r[q] = list[g(q)] /\ g(q) \in 1 .. l
            /\ g(k) < g(q)
        BY <1>7, <1>9, <2>2, <3>1
      <4>2. QED
        BY <1>1, <4>1 DEF FreeIsSound, l
    <3>2. CASE k = lo + 1
      <4>1. q # lo + 1 /\ ~ (q < lo + 1)
        BY <1>5, <2>2, <3>2
      <4>2. r[q] = list[g(q)] /\ g(q) \in hi .. l
        BY <1>7, <4>1
      <4>3. QED
        BY <1>5, <1>11, <3>2, <4>2
    <3>3. CASE q = lo + 1
      <4>1. k # lo + 1 /\ ~ (lo + 1 < k)
        BY <1>5, <2>2, <3>3
      <4>2. r[k] = list[g(k)] /\ g(k) \in 1 .. lo
        BY <1>7, <4>1
      <4>3. QED
        BY <1>5, <1>11, <3>3, <4>2
    <3>4. QED
      BY <3>1, <3>2, <3>3
  <2>3. QED
    BY <1>5, <2>1, <2>2 DEF FreeIsSound
<1>14. TakenIsSound(tk2)
  <2>1. DOMAIN tk2 \in SUBSET Nat /\ tk2 \in [DOMAIN tk2 -> TakenBlock]
    BY <1>2, <1>12
  <2>2. QED
    BY <1>1, <1>12, <2>1 DEF TakenIsSound
<1>15. Apart(r, tk2)
  <2> SUFFICES ASSUME NEW k \in 1 .. Len(r), NEW c \in DOMAIN tk2
               PROVE  EndOf(r[k]) <= c \/ c + tk2[c].size <= r[k].start
    BY DEF Apart
  <2>1. c \in DOMAIN tk /\ tk2[c].size = tk[c].size /\ c # a
    BY <1>12
  <2>2. \A j \in 1 .. l :
          EndOf(list[j]) <= c \/ c + tk[c].size <= list[j].start
    BY <1>1, <2>1 DEF Apart, l
  <2>3. CASE k # lo + 1
    BY <1>7, <2>1, <2>2, <2>3
  <2>4. CASE k = lo + 1
    <3>1. c + tk[c].size <= a \/ a + z <= c
      <4>1. a < c \/ c < a
        BY <1>2, <1>4, <2>1
      <4>2. QED
        BY <1>1, <2>1, <4>1 DEF TakenIsSound, z
    <3>2. c \in Nat /\ tk[c].size \in Nat \ {0}
      BY <1>2, <2>1
    <3>3. EndOf(e) <= c \/ c + tk[c].size <= e.start
      BY <1>11, <2>2, <3>1, <3>2
    <3>4. QED
      BY <1>5, <2>1, <2>4, <3>3
  <2>5. QED
    BY <2>3, <2>4
<1>16. \A p \in From .. UpTo - 1 :
         InFree(r, p) <=> InFree(list, p) \/ p \in a .. a + z - 1
  <2> TAKE p \in From .. UpTo - 1
  <2>0. p \in Nat
    BY <1>3
  <2>1. ASSUME InFree(r, p)
        PROVE  InFree(list, p) \/ p \in a .. a + z - 1
    <3>1. PICK k \in 1 .. Len(r) : r[k].start <= p /\ p < EndOf(r[k])
      BY <2>1 DEF InFree
    <3>2. CASE k # lo + 1
      BY <1>7, <3>1, <3>2 DEF InFree, l
    <3>3. CASE k = lo + 1
      <4>1. e.start <= p /\ p < EndOf(e)
        BY <1>5, <3>1, <3>3
      <4>2. CASE a <= p /\ p < a + z
        BY <1>4, <2>0, <4>2
      <4>3. ASSUME NEW q \in lo + 1 .. hi - 1,
                   list[q].start <= p, p < EndOf(list[q])
            PROVE  InFree(list, p)
        <5>1. q \in 1 .. l
          BY <1>2, <1>5
        <5>2. QED
          BY <4>3, <5>1 DEF InFree, l
      <4>4. QED
        BY <1>11, <2>0, <4>1, <4>2, <4>3
    <3>4. QED
      BY <3>2, <3>3
  <2>2. ASSUME InFree(list, p) PROVE InFree(r, p)
    <3>1. PICK j \in 1 .. l : list[j].start <= p /\ p < EndOf(list[j])
      BY <2>2 DEF InFree, l
    <3>2. CASE j <= lo \/ hi <= j
      BY <1>8, <3>1, <3>2 DEF InFree
    <3>3. CASE ~ (j <= lo \/ hi <= j)
      <4>1. j \in lo + 1 .. hi - 1
        BY <1>2, <1>5, <3>3
      <4>2. e.start <= list[j].start /\ EndOf(list[j]) <= EndOf(e)
        BY <1>11, <4>1
      <4>3. e.start <= p /\ p < EndOf(e)
        BY <1>2, <1>10, <2>0, <3>1, <4>2
      <4>4. QED
        BY <1>5, <4>3 DEF InFree
    <3>4. QED
      BY <3>2, <3>3
  <2>3. ASSUME p \in a .. a + z - 1 PROVE InFree(r, p)
    <3>1. e.start <= p /\ p < EndOf(e)
      BY <1>4, <1>10, <2>0, <2>3
    <3>2. QED
      BY <1>5, <3>1 DEF InFree
  <2>4. QED
    BY <2>1, <2>2, <2>3
<1>17. Covered(r, tk2)
  <2> SUFFICES ASSUME NEW p \in From .. UpTo - 1
               PROVE  InFree(r, p) \/ InTaken(tk2, p)
    BY DEF Covered
  <2>1. CASE InFree(list, p)
    BY <1>16, <2>1
  <2>2. ASSUME NEW c \in DOMAIN tk, c <= p, p < c + tk[c].size
        PROVE  InFree(r, p) \/ InTaken(tk2, p)
    <3>1. CASE c = a
      <4>1. p \in a .. a + z - 1
        BY <1>3, <1>4, <2>2, <3>1 DEF z
      <4>2. QED
        BY <1>16, <4>1
    <3>2. CASE c # a
      BY <1>12, <2>2, <3>2 DEF InTaken
    <3>3. QED
      BY <3>1, <3>2
  <2>3. QED
    BY <1>1, <2>1, <2>2 DEF Covered, InTaken
<1>18. BytesOf(r) = BytesOf(list) \cup (a .. a + z - 1)
  <2>1. a .. a + z - 1 \subseteq From .. UpTo - 1
    BY <1>3, <1>4
  <2>2. QED
    BY <1>16, <2>1 DEF BytesOf
<1>19. (a .. a + z - 1) \cap BytesOf(list) = {}
  <2> SUFFICES ASSUME NEW p \in a .. a + z - 1, NEW j \in 1 .. l,
                      list[j].start <= p, p < EndOf(list[j])
               PROVE  FALSE
    BY DEF BytesOf, InFree, l
  <2>1. EndOf(list[j]) <= a \/ a + z <= list[j].start
    BY <1>1 DEF Apart, l, z
  <2>2. QED
    BY <1>2, <1>4, <2>1
<1>20. BytesOf(list) \in SUBSET (From .. UpTo - 1)
  BY DEF BytesOf
<1>21. n \in Nat /\ n + z = Cardinality(BytesOf(r))
  <2>1. n \in Nat
    <3>1. IsFiniteSet(From .. UpTo - 1)
      BY <1>3, FS_Interval
    <3>2. IsFiniteSet(BytesOf(list))
      BY <1>20, <3>1, FS_Subset
    <3>3. QED
      BY <1>1, <3>2, FS_CardinalityType
  <2>2. Cardinality(BytesOf(list) \cup (a .. a + z - 1)) =
          Cardinality(BytesOf(list)) + z
    BY <1>3, <1>4, <1>19, <1>20, MoreBytes
  <2>3. QED
    BY <1>1, <1>18, <2>1, <2>2
<1>22. QED
  BY <1>13, <1>14, <1>15, <1>17, <1>21 DEF HeapHolds, z

-----------------------------------------------------------------------------
(* The steps of the heap. *)

(* The size that is looked for has room for the header and is a multiple   *)
(* of the alignment; a size that cannot be is more than the heap has.      *)
LEMMA WantedSize ==
  ASSUME Heap!Heap4Constants, NEW n \in Nat
  PROVE  LET w == Heap!xWantedSize(n)
             v == Heap!AlignedUp(n + xHeapStructSize) IN
         /\ w \in Nat /\ v \in Nat
         /\ n = 0 => w = 0
         /\ Heap!Valid(w) => w = v /\ Aligned(w) /\ n + xHeapStructSize <= w
         /\ n > 0 /\ ~ Heap!Valid(w) => v >= SizeT \div 2
<1> DEFINE s == n + xHeapStructSize
           v == Heap!AlignedUp(s)
           w == Heap!xWantedSize(n)
<1>1. s \in Nat /\ portBYTE_ALIGNMENT \in Nat \ {0} /\ s > 0 /\ s >= n
  BY DEF Heap!Heap4Constants
<1>2. SizeT \in Nat /\ SizeT \div 2 \in Nat /\ SizeT \div 2 <= SizeT
  BY HeapBounds
<1>3. w = IF n = 0 \/ s >= SizeT \/ v >= SizeT THEN 0 ELSE v
  BY DEF Heap!xWantedSize
<1> HIDE DEF s, w
<1>4. v \in Nat /\ Aligned(v) /\ v >= s
  BY <1>1, RoundedUp
<1> HIDE DEF v
<1>5. w \in Nat /\ (n = 0 => w = 0)
  BY <1>3, <1>4
<1>6. ASSUME Heap!Valid(w) PROVE w = v /\ Aligned(w) /\ s <= w
  <2>1. w # 0
    BY <1>5, <1>6 DEF Heap!Valid
  <2>2. w = v
    BY <1>3, <2>1
  <2>3. QED
    BY <1>4, <2>2
<1>7. ASSUME n > 0, ~ Heap!Valid(w) PROVE v >= SizeT \div 2
  <2>1. w = 0 \/ w >= SizeT \div 2
    BY <1>2, <1>5, <1>7 DEF Heap!Valid
  <2>2. w = v \/ v >= SizeT
    BY <1>1, <1>2, <1>3, <1>4, <1>7
  <2>3. QED
    BY <1>1, <1>2, <1>4, <2>1, <2>2
<1>8. QED
  BY <1>4, <1>5, <1>6, <1>7 DEF s, v, w

(* A row longer than the heap is not in it. *)
LEMMA NoLongRow ==
  ASSUME Heap!Heap4Constants, NEW bytes \in SUBSET (From .. UpTo - 1),
         NEW v \in Nat, v >= SizeT \div 2
  PROVE  NoRow(bytes, v)
<1>1. /\ From \in Nat /\ UpTo \in Nat
      /\ UpTo - From < SizeT \div 2 /\ SizeT \div 2 \in Nat
      /\ From < UpTo
  BY HeapBounds
<1>2. v > UpTo - From
  BY <1>1
<1>3. SUFFICES ASSUME NEW a \in From .. UpTo - 1,
                      a .. a + v - 1 \subseteq bytes
               PROVE  FALSE
  BY DEF NoRow
<1>4. a + v - 1 \in a .. a + v - 1 /\ a + v - 1 \notin From .. UpTo - 1
  BY <1>1, <1>2
<1>5. QED
  BY <1>3, <1>4

(* Where no block is long enough, or there are not so many bytes, no row   *)
(* of free bytes is: free blocks do not touch.                             *)
LEMMA NoRowFits ==
  ASSUME Heap!Heap4Constants, NEW list, NEW tk, NEW n,
         HeapHolds(list, tk, n), NEW v \in Nat \ {0},
         v > n \/ \A j \in 1 .. Len(list) : list[j].size < v
  PROVE  NoRow(BytesOf(list), v)
<1>1. From \in Nat /\ UpTo \in Nat
  BY HeapBounds
<1>2. FreeIsSound(list) /\ TakenIsSound(tk) /\ n = Cardinality(BytesOf(list))
  BY DEF HeapHolds
<1>3. /\ Len(list) \in Nat
      /\ \A i \in 1 .. Len(list) :
           /\ list[i].start \in Nat /\ list[i].size \in Nat
           /\ EndOf(list[i]) = list[i].start + list[i].size
           /\ EndOf(list[i]) \in Nat
  BY <1>2, BlockNumbers
<1>4. SUFFICES ASSUME NEW a \in From .. UpTo - 1,
                      a .. a + v - 1 \subseteq BytesOf(list)
               PROVE  FALSE
  BY DEF NoRow
<1>5. a \in Nat
  BY <1>1
<1>6. CASE v > n
  <2>1. BytesOf(list) \in SUBSET (From .. UpTo - 1)
    BY DEF BytesOf
  <2>2. v <= Cardinality(BytesOf(list)) /\ Cardinality(BytesOf(list)) \in Nat
    BY <1>1, <1>4, <1>5, <2>1, FewerBytes
  <2>3. QED
    BY <1>2, <1>6, <2>2
<1>7. CASE \A j \in 1 .. Len(list) : list[j].size < v
  <2>1. InFree(list, a)
    <3>1. a \in a .. a + v - 1
      BY <1>5
    <3>2. QED
      BY <1>4, <3>1 DEF BytesOf
  <2>2. PICK i \in 1 .. Len(list) : list[i].start <= a /\ a < EndOf(list[i])
    BY <2>1 DEF InFree
  <2> DEFINE p == EndOf(list[i])
  <2>3. p \in a .. a + v - 1
    BY <1>3, <1>5, <1>7, <2>2
  <2>4. InFree(list, p)
    BY <1>4, <2>3 DEF BytesOf
  <2>5. PICK j \in 1 .. Len(list) : list[j].start <= p /\ p < EndOf(list[j])
    BY <2>4 DEF InFree
  <2>6. i = j \/ i < j \/ j < i
    BY <1>3
  <2>7. CASE i = j
    BY <1>3, <2>5, <2>7
  <2>8. CASE i < j
    <3>1. EndOf(list[i]) < list[j].start
      BY <1>2, <2>8 DEF FreeIsSound
    <3>2. QED
      BY <1>3, <2>5, <3>1
  <2>9. CASE j < i
    <3>1. EndOf(list[j]) < list[i].start
      BY <1>2, <2>9 DEF FreeIsSound
    <3>2. QED
      BY <1>3, <1>5, <2>2, <2>5, <3>1
  <2>10. QED
    BY <2>6, <2>7, <2>8, <2>9
<1>8. QED
  BY <1>6, <1>7

(* The heap as the first call finds or makes it. *)
Found == IF pxEnd = 0 THEN <<Heap!Whole>> ELSE free
Left  == IF pxEnd = 0 THEN Heap!Whole.size ELSE xFreeBytesRemaining
Least == IF pxEnd = 0 THEN Heap!Whole.size
         ELSE xMinimumEverFreeBytesRemaining
Chosen(n) ==
  LET w == Heap!xWantedSize(n) IN
  IF Heap!Valid(w) /\ w <= Left THEN Heap!FirstFit(Found, w) ELSE 0
Took(n) == Heap!Taking(Found, Chosen(n), Heap!xWantedSize(n))

(* It is as the invariant says. *)
LEMMA FoundHolds ==
  ASSUME Heap!Heap4Constants, HeapInv
  PROVE  /\ HeapHolds(Found, taken, Left) /\ Left \in Nat
         /\ Least \in 0 .. Left
<1>1. CASE pxEnd = 0
  <2>1. taken = <<>>
    BY <1>1 DEF HeapInv
  <2>2. DOMAIN taken = {} /\ taken \in [{} -> TakenBlock]
    BY <2>1
  <2>3. Heap!Whole.size \in Nat
    <3>1. /\ From \in Nat /\ UpTo \in Nat /\ From < UpTo
          /\ Heap!Whole = [start |-> From, size |-> UpTo - From]
      BY HeapBounds
    <3>2. QED
      BY <3>1
  <2>4. HeapHolds(<<Heap!Whole>>, taken, Heap!Whole.size)
    BY <2>2, WholeHolds
  <2>5. QED
    BY <1>1, <2>3, <2>4 DEF Found, Left, Least
<1>2. CASE pxEnd # 0
  BY <1>2 DEF HeapInv, Found, Left, Least
<1>3. QED
  BY <1>1, <1>2

(* What a call changes, block by block. *)
LEMMA MallocChanges ==
  ASSUME NEW n, Heap!Malloc(n, n)
  PROVE  /\ pxEnd' = UpTo /\ freeing' = freeing
         /\ Chosen(n) = 0 =>
              /\ free' = Found /\ refused' = n /\ taken' = taken
              /\ xFreeBytesRemaining' = Left
              /\ xMinimumEverFreeBytesRemaining' = Least
         /\ Chosen(n) # 0 =>
              /\ free' = Took(n).blocks /\ refused' = 0
              /\ taken' =
                   Given(taken, Found[Chosen(n)].start, Took(n).size, n)
              /\ xFreeBytesRemaining' = Left - Took(n).size
              /\ xMinimumEverFreeBytesRemaining' =
                   Heap!Min({Least, Left - Took(n).size})
BY DEF Heap!Malloc, Found, Left, Least, Chosen, Took, UpTo, Given

(* pvPortMalloc keeps the invariant. *)
LEMMA MallocKeepsHeapInv ==
  ASSUME Heap!Heap4Constants, HeapInv, NEW n \in Nat, Heap!Malloc(n, n)
  PROVE  HeapInv'
<1> DEFINE w == Heap!xWantedSize(n)
           v == Heap!AlignedUp(n + xHeapStructSize)
           i == Chosen(n)
           z == Took(n).size
<1>1. /\ HeapHolds(Found, taken, Left) /\ Left \in Nat
      /\ Least \in 0 .. Left
  BY FoundHolds
<1>2. FreeIsSound(Found) /\ TakenIsSound(taken) /\ Found \in Seq(HeapBlock)
  BY <1>1 DEF HeapHolds, FreeIsSound
<1>3. /\ w \in Nat /\ v \in Nat
      /\ n = 0 => w = 0
      /\ Heap!Valid(w) => w = v /\ Aligned(w) /\ n + xHeapStructSize <= w
      /\ n > 0 /\ ~ Heap!Valid(w) => v >= SizeT \div 2
  BY WantedSize
<1>4. UpTo \in Nat /\ UpTo # 0
  BY HeapBounds
<1>5. freeing \subseteq DOMAIN taken
  BY DEF HeapInv
<1>6. i = IF Heap!Valid(w) /\ w <= Left THEN Heap!FirstFit(Found, w) ELSE 0
  BY DEF Chosen
<1> HIDE DEF w, v, i, z
<1>7. CASE i = 0
  <2>1. /\ pxEnd' = UpTo /\ freeing' = freeing
        /\ free' = Found /\ refused' = n /\ taken' = taken
        /\ xFreeBytesRemaining' = Left
        /\ xMinimumEverFreeBytesRemaining' = Least
    BY <1>7, MallocChanges DEF i
  <2>2. ASSUME n > 0 PROVE NoRow(BytesOf(Found), v)
    <3>1. CASE ~ Heap!Valid(w)
      <4>1. BytesOf(Found) \in SUBSET (From .. UpTo - 1)
        BY DEF BytesOf
      <4>2. QED
        BY <1>3, <2>2, <3>1, <4>1, NoLongRow
    <3>2. CASE Heap!Valid(w) /\ w > Left
      <4>1. w \in Nat \ {0} /\ w = v
        BY <1>3, <3>2 DEF Heap!Valid
      <4>2. QED
        BY <1>1, <3>2, <4>1, NoRowFits
    <3>3. CASE Heap!Valid(w) /\ w <= Left
      <4>1. w \in Nat \ {0} /\ w = v
        BY <1>3, <3>3 DEF Heap!Valid
      <4>2. Heap!FirstFit(Found, w) = 0
        BY <1>6, <1>7, <3>3
      <4>3. \A j \in 1 .. Len(Found) : Found[j].size < w
        BY <1>2, <4>1, <4>2, FitFound
      <4>4. QED
        BY <1>1, <4>1, <4>3, NoRowFits
    <3>4. QED
      BY <1>1, <1>3, <3>1, <3>2, <3>3
  <2>3. QED
    BY <1>1, <1>4, <1>5, <2>1, <2>2 DEF HeapInv, v
<1>8. CASE i # 0
  <2>1. /\ pxEnd' = UpTo /\ freeing' = freeing
        /\ free' = Took(n).blocks /\ refused' = 0
        /\ taken' = Given(taken, Found[i].start, z, n)
        /\ xFreeBytesRemaining' = Left - z
        /\ xMinimumEverFreeBytesRemaining' = Heap!Min({Least, Left - z})
    BY <1>8, MallocChanges DEF i, z
  <2>2. Heap!Valid(w) /\ i = Heap!FirstFit(Found, w)
    BY <1>6, <1>8
  <2>3. i \in 1 .. Len(Found) /\ Found[i].size >= w
    BY <1>2, <1>3, <1>8, <2>2, FitFound
  <2>4. Found[i].size \in Nat
    BY <1>2, <2>3, BlockNumbers
  <2>5. /\ z \in w .. Found[i].size
        /\ z = w \/ z = Found[i].size
        /\ \E m : Shrunk(Took(n).blocks, Found, i, z, m)
    BY <1>2, <1>3, <2>3, <2>4, TakingShrinks DEF Took, i, z, w
  <2>6. PICK m : Shrunk(Took(n).blocks, Found, i, z, m)
    BY <2>5
  <2>7. /\ z \in Nat /\ z <= Found[i].size /\ n + xHeapStructSize <= z
        /\ Aligned(z) \/ z = Found[i].size
    <3>1. xHeapStructSize \in Nat
      BY DEF Heap!Heap4Constants
    <3>2. z \in Nat /\ z >= w /\ z <= Found[i].size
      BY <1>3, <2>4, <2>5
    <3>3. n + xHeapStructSize <= w /\ Aligned(w)
      BY <1>3, <2>2
    <3>4. n + xHeapStructSize <= z
      BY <1>3, <3>1, <3>2, <3>3
    <3>5. QED
      BY <2>5, <3>2, <3>3, <3>4
  <2>8. Left - z \in Nat /\ HeapHolds(free', taken', Left - z)
    <3> DEFINE tk2 == Given(taken, Found[i].start, z, n)
    <3>1. Left - z \in Nat /\ HeapHolds(Took(n).blocks, tk2, Left - z)
      BY <1>1, <2>3, <2>6, <2>7, ShrunkHolds
    <3>2. QED
      BY <2>1, <3>1
  <2>9. Heap!Min({Least, Left - z}) \in 0 .. Left - z
    <3>1. Least \in Nat
      BY <1>1
    <3> DEFINE T == {Least, Left - z}
    <3>2. T \in SUBSET Nat /\ T # {}
      BY <2>8, <3>1
    <3>3. Left - z \in T
      OBVIOUS
    <3> HIDE DEF T
    <3>4. Heap!Min(T) \in T /\ Heap!Min(T) <= Left - z
      BY <3>2, <3>3, FirstOf
    <3>5. Heap!Min(T) \in Nat
      BY <3>2, <3>4
    <3>6. QED
      BY <2>8, <3>4, <3>5 DEF T
  <2>10. freeing' \subseteq DOMAIN taken'
    BY <1>5, <2>1 DEF Given
  <2>11. QED
    BY <1>4, <2>1, <2>8, <2>9, <2>10 DEF HeapInv
<1>9. QED
  BY <1>7, <1>8

(* Nothing is lost before the first call. *)
LEMMA HeapInvAtStart ==
  Heap!Init => HeapInv
BY DEF Heap!Init, HeapInv

(* pvPortCalloc: what a size_t does not hold is more than the heap has.    *)
LEMMA CallocKeepsHeapInv ==
  ASSUME Heap!Heap4Constants, HeapInv, NEW num \in Nat, NEW n \in Nat,
         Heap!pvPortCalloc(num, n)
  PROVE  HeapInv'
<1>1. num * n \in Nat
  OBVIOUS
<1>2. CASE num > 0 /\ n > (SizeT - 1) \div num
  <2> DEFINE s == num * n
             v == Heap!AlignedUp(s + xHeapStructSize)
  <2>1. /\ refused' = s
        /\ UNCHANGED <<pxEnd, free, taken, freeing,
             xFreeBytesRemaining, xMinimumEverFreeBytesRemaining>>
    BY <1>2 DEF Heap!pvPortCalloc
  <2>2. /\ SizeT \in Nat \ {0} /\ SizeT \div 2 \in Nat
        /\ SizeT \div 2 <= SizeT
    BY HeapBounds DEF Heap!Heap4Constants
  <2>3. s > SizeT - 1
    <3> DEFINE q == (SizeT - 1) \div num
               r == (SizeT - 1) % num
    <3>1. /\ q \in Nat /\ r \in 0 .. num - 1
          /\ SizeT - 1 = num * q + r
      BY <1>2, <2>2
    <3>2. n >= q + 1
      BY <1>2, <3>1
    <3> HIDE DEF q, r
    <3>3. num * n >= num * (q + 1)
      BY <1>2, <3>1, <3>2
    <3>4. num * (q + 1) = num * q + num
      BY <3>1
    <3>5. num * q \in Nat
      BY <3>1
    <3> DEFINE u == num * q
               t == num * (q + 1)
    <3>6. /\ u \in Nat /\ t = u + num /\ s >= t /\ SizeT - 1 = u + r
          /\ s \in Nat /\ r \in 0 .. num - 1 /\ SizeT \in Nat
      BY <1>1, <2>2, <3>1, <3>3, <3>4, <3>5
    <3> HIDE DEF s, t, u
    <3>7. QED
      BY <3>6
  <2>4. s \in Nat /\ s + xHeapStructSize \in Nat
    BY <1>1 DEF Heap!Heap4Constants
  <2> HIDE DEF s
  <2>5. v \in Nat /\ v >= s + xHeapStructSize
    BY <2>4, RoundedUp DEF Heap!Heap4Constants
  <2> HIDE DEF v
  <2>6. v >= SizeT \div 2
    BY <2>2, <2>3, <2>4, <2>5 DEF Heap!Heap4Constants
  <2>7. BytesOf(free) \in SUBSET (From .. UpTo - 1)
    BY DEF BytesOf
  <2>8. NoRow(BytesOf(free), v)
    BY <2>5, <2>6, <2>7, NoLongRow
  <2>9. QED
    BY <2>1, <2>4, <2>8 DEF HeapInv, v
<1>3. CASE ~ (num > 0 /\ n > (SizeT - 1) \div num)
  <2>1. Heap!Malloc(num * n, num * n)
    BY <1>3 DEF Heap!pvPortCalloc
  <2>2. QED
    BY <1>1, <2>1, MallocKeepsHeapInv
<1>4. QED
  BY <1>2, <1>3

(* vPortFree puts the block back on the list. *)
LEMMA InsertKeepsHeapInv ==
  ASSUME Heap!Heap4Constants, HeapInv, NEW a \in DOMAIN taken,
         Heap!InsertFree(a)
  PROVE  HeapInv'
<1> DEFINE b == [start |-> a, size |-> taken[a].size]
<1>1. /\ xFreeBytesRemaining' = xFreeBytesRemaining + taken[a].size
      /\ free' = Heap!Inserted(free, b)
      /\ freeing' = freeing \ {a}
      /\ taken' = [x1 \in DOMAIN taken \ {a} |-> taken[x1]]
      /\ refused' = 0 /\ pxEnd' = pxEnd
      /\ xMinimumEverFreeBytesRemaining' = xMinimumEverFreeBytesRemaining
  BY DEF Heap!InsertFree
<1>2. pxEnd # 0
  <2>1. SUFFICES ASSUME pxEnd = 0 PROVE FALSE
    OBVIOUS
  <2>2. taken = <<>>
    BY <2>1 DEF HeapInv
  <2>3. DOMAIN taken = {}
    BY <2>2
  <2>4. QED
    BY <2>3
<1>3. HeapHolds(free, taken, xFreeBytesRemaining)
  BY <1>2 DEF HeapInv
<1>4. /\ FreeIsSound(free) /\ TakenIsSound(taken) /\ Apart(free, taken)
  BY <1>3 DEF HeapHolds
<1>5. taken[a].size \in Nat
  BY <1>4, BlockNumbers
<1> DEFINE r == free'
           tk2 == taken'
<1>6. /\ r = Heap!Inserted(free, b)
      /\ tk2 = [c \in DOMAIN taken \ {a} |-> taken[c]]
  BY <1>1
<1> HIDE DEF r, tk2
<1>7. PICK e, lo, hi : /\ Grown(r, free, e, lo, hi)
                       /\ Joined(free, e, lo, hi, a, taken[a].size)
  BY <1>4, <1>6, InsertedJoins
<1>8. /\ xFreeBytesRemaining \in Nat
      /\ HeapHolds(r, tk2, xFreeBytesRemaining + taken[a].size)
  BY <1>3, <1>6, <1>7, GrownHolds
<1>9. freeing' \subseteq DOMAIN taken'
  BY <1>1 DEF HeapInv
<1>10. /\ xFreeBytesRemaining' \in Nat
       /\ xMinimumEverFreeBytesRemaining' \in 0 .. xFreeBytesRemaining'
  BY <1>1, <1>5, <1>8 DEF HeapInv
<1>11. QED
  BY <1>1, <1>2, <1>8, <1>9, <1>10 DEF HeapInv, r, tk2

(* Every step of the heap keeps the invariant. *)
LEMMA HeapStep ==
  ASSUME Heap!Heap4Constants, HeapInv, [Heap!Next]_(Heap!vars)
  PROVE  HeapInv'
<1>1. CASE UNCHANGED Heap!vars
  BY <1>1 DEF HeapInv, Heap!vars
<1>2. ASSUME NEW n \in HeapSizes, Heap!pvPortMalloc(n) PROVE HeapInv'
  <2>1. n \in Nat /\ Heap!Malloc(n, n)
    BY <1>2 DEF Heap!pvPortMalloc, Heap!Heap4Constants
  <2>2. QED
    BY <2>1, MallocKeepsHeapInv
<1>3. ASSUME NEW n \in HeapSizes, NEW num \in Nums,
             Heap!pvPortCalloc(num, n)
      PROVE  HeapInv'
  <2>1. n \in Nat /\ num \in Nat
    BY DEF Heap!Heap4Constants
  <2>2. QED
    BY <1>3, <2>1, CallocKeepsHeapInv
<1>4. ASSUME NEW a \in DOMAIN taken, Heap!MarkFree(a) PROVE HeapInv'
  <2>1. /\ freeing' = freeing \cup {a} /\ refused' = 0
        /\ UNCHANGED <<pxEnd, free, taken, xFreeBytesRemaining,
                       xMinimumEverFreeBytesRemaining>>
    BY <1>4 DEF Heap!MarkFree
  <2>2. QED
    BY <2>1 DEF HeapInv
<1>5. ASSUME NEW a \in DOMAIN taken, Heap!InsertFree(a) PROVE HeapInv'
  BY <1>5, InsertKeepsHeapInv
<1>6. CASE Heap!xPortResetHeapMinimumEverFreeHeapSize
  BY <1>6 DEF Heap!xPortResetHeapMinimumEverFreeHeapSize, HeapInv
<1>7. QED
  BY <1>1, <1>2, <1>3, <1>4, <1>5, <1>6 DEF Heap!Next

-----------------------------------------------------------------------------
(* What the invariant says of the properties. *)

(* The bytes of the blocks on the list. *)
LEMMA SpansOfFree ==
  ASSUME Heap!Heap4Constants, NEW list, NEW tk,
         FreeIsSound(list), TakenIsSound(tk)
  PROVE  UNION {Heap!Span(b) : b \in Heap!ToSet(list)} = BytesOf(list)
<1> DEFINE bytes == UNION {Heap!Span(b) : b \in Heap!ToSet(list)}
<1>1. From \in Nat /\ UpTo \in Nat
  BY HeapBounds
<1>2. /\ Len(list) \in Nat
      /\ \A i \in 1 .. Len(list) :
           /\ list[i].start \in Nat /\ list[i].size \in Nat
           /\ EndOf(list[i]) = list[i].start + list[i].size
           /\ EndOf(list[i]) \in Nat
  BY BlockNumbers
<1>3. DOMAIN list = 1 .. Len(list)
  BY DEF FreeIsSound
<1>4. ASSUME NEW p \in bytes PROVE p \in BytesOf(list)
  <2>1. PICK i \in 1 .. Len(list) : p \in Heap!Span(list[i])
    BY <1>3, <1>4 DEF Heap!ToSet
  <2>2. p \in list[i].start .. list[i].start + list[i].size - 1
    BY <2>1 DEF Heap!Span
  <2>3. /\ p \in Nat /\ list[i].start <= p /\ p < EndOf(list[i])
    BY <1>2, <2>2
  <2>4. list[i].start >= From /\ EndOf(list[i]) <= UpTo
    BY DEF FreeIsSound
  <2>5. p \in From .. UpTo - 1
    BY <1>1, <1>2, <2>3, <2>4
  <2>6. QED
    BY <2>3, <2>5 DEF BytesOf, InFree
<1>5. ASSUME NEW p \in BytesOf(list) PROVE p \in bytes
  <2>1. /\ p \in From .. UpTo - 1 /\ InFree(list, p)
    BY DEF BytesOf
  <2>2. PICK i \in 1 .. Len(list) : list[i].start <= p /\ p < EndOf(list[i])
    BY <2>1 DEF InFree
  <2>3. p \in list[i].start .. list[i].start + list[i].size - 1
    BY <1>1, <1>2, <2>1, <2>2
  <2>4. p \in Heap!Span(list[i]) /\ list[i] \in Heap!ToSet(list)
    BY <1>3, <2>3 DEF Heap!Span, Heap!ToSet
  <2>5. QED
    BY <2>4
<1>6. QED
  BY <1>4, <1>5

(* The types, and a count that is no more than the heap. *)
LEMMA HeapTypes ==
  ASSUME Heap!Heap4Constants, HeapInv
  PROVE  Heap!TypeOK
<1>1. /\ From \in Nat /\ UpTo \in Nat /\ From < UpTo
      /\ UpTo - From < SizeT \div 2 /\ SizeT \div 2 \in Nat
      /\ Heap!Whole = [start |-> From, size |-> UpTo - From]
      /\ Heap!Addresses = From .. UpTo - 1
  BY HeapBounds
<1>2. Heap!Whole.size = UpTo - From
  BY <1>1
<1>3. CASE pxEnd = 0
  <2>1. free = <<>> /\ taken = <<>> /\ xFreeBytesRemaining = 0
    BY <1>3 DEF HeapInv
  <2>2. DOMAIN free = {} /\ DOMAIN taken = {}
    BY <2>1
  <2>3. QED
    BY <1>1, <1>2, <2>1, <2>2 DEF HeapInv, Heap!TypeOK, UpTo
<1>4. CASE pxEnd # 0
  <2>1. HeapHolds(free, taken, xFreeBytesRemaining)
    BY <1>4 DEF HeapInv
  <2>2. /\ FreeIsSound(free) /\ TakenIsSound(taken)
        /\ xFreeBytesRemaining = Cardinality(BytesOf(free))
    BY <2>1 DEF HeapHolds
  <2>3. DOMAIN free = 1 .. Len(free)
    BY <2>2 DEF FreeIsSound
  <2>4. ASSUME NEW i \in DOMAIN free
        PROVE  /\ free[i].start \in Heap!Addresses
               /\ Heap!Valid(free[i].size)
    <3>1. /\ free[i].start \in Nat /\ free[i].size \in Nat
          /\ EndOf(free[i]) = free[i].start + free[i].size
      BY <2>2, <2>3, BlockNumbers
    <3>2. /\ free[i].start >= From /\ EndOf(free[i]) <= UpTo
          /\ free[i].size > 0
      BY <2>2, <2>3 DEF FreeIsSound
    <3>3. QED
      BY <1>1, <3>1, <3>2 DEF Heap!Valid
  <2>5. ASSUME NEW a \in DOMAIN taken
        PROVE  /\ a \in Heap!Addresses /\ Heap!Valid(taken[a].size)
               /\ taken[a].asked \in Nat
    <3>1. /\ a \in Nat /\ taken[a].size \in Nat
          /\ taken[a].asked \in Nat /\ taken[a].size > 0
      BY <2>2, BlockNumbers
    <3>2. a >= From /\ a + taken[a].size <= UpTo
      BY <2>2 DEF TakenIsSound
    <3>3. QED
      BY <1>1, <3>1, <3>2 DEF Heap!Valid
  <2>6. xFreeBytesRemaining <= UpTo - From
    <3>1. From .. UpTo - 1 \subseteq From .. UpTo - 1
      OBVIOUS
    <3>2. IsFiniteSet(From .. UpTo - 1)
      BY <1>1, FS_Interval
    <3>3. UpTo - 1 \in Int /\ UpTo - 1 - From + 1 = UpTo - From
      BY <1>1
    <3>4. Cardinality(From .. UpTo - 1) = UpTo - From
      BY <1>1, <3>3, FS_Interval
    <3>5. BytesOf(free) \in SUBSET (From .. UpTo - 1)
      BY DEF BytesOf
    <3>6. Cardinality(BytesOf(free)) <= Cardinality(From .. UpTo - 1)
      BY <3>2, <3>5, FS_Subset
    <3>7. QED
      BY <2>2, <3>4, <3>6
  <2>7. xFreeBytesRemaining \in 0 .. Heap!Whole.size
    BY <1>1, <1>2, <2>6 DEF HeapInv
  <2>8. QED
    BY <2>4, <2>5, <2>7 DEF HeapInv, Heap!TypeOK, UpTo
<1>5. QED
  BY <1>3, <1>4

(* Every byte belongs to one block. *)
LEMMA HeapIsTiled ==
  ASSUME Heap!Heap4Constants, NEW tk, NEW list,
         list = free, tk = taken,
         FreeIsSound(list), TakenIsSound(tk), Apart(list, tk),
         Covered(list, tk)
  PROVE  Heap!BlocksTileTheHeap
<1> DEFINE TheBlock(a) == [start |-> a, size |-> tk[a].size]
           blocks == {list[i] : i \in 1 .. Len(list)}
                     \cup {TheBlock(a) : a \in DOMAIN tk}
<1>1. /\ From \in Nat /\ UpTo \in Nat
      /\ Heap!Addresses = From .. UpTo - 1
  BY HeapBounds
<1>2. /\ Len(list) \in Nat
      /\ \A i \in 1 .. Len(list) :
           /\ list[i].start \in Nat /\ list[i].size \in Nat
           /\ EndOf(list[i]) = list[i].start + list[i].size
           /\ EndOf(list[i]) \in Nat
           /\ list[i].start >= From /\ EndOf(list[i]) <= UpTo
           /\ list[i].size > 0
           /\ Aligned(list[i].start)
      /\ \A a \in DOMAIN tk :
           /\ a \in Nat /\ tk[a].size \in Nat /\ tk[a].size > 0
           /\ a >= From /\ a + tk[a].size <= UpTo /\ Aligned(a)
  <2>1. \A i \in 1 .. Len(list) :
          /\ list[i].start >= From /\ EndOf(list[i]) <= UpTo
          /\ list[i].size > 0 /\ Aligned(list[i].start)
    BY DEF FreeIsSound
  <2>2. \A a \in DOMAIN tk :
          a >= From /\ a + tk[a].size <= UpTo /\ Aligned(a)
    BY DEF TakenIsSound
  <2>3. QED
    BY <2>1, <2>2, BlockNumbers
<1>3. DOMAIN list = 1 .. Len(list)
  BY DEF FreeIsSound
<1>4. Heap!Blocks = blocks
  BY <1>3 DEF Heap!Blocks, Heap!ToSet
<1>5. ASSUME NEW p \in From .. UpTo - 1
      PROVE  \E b \in blocks : p \in Heap!Span(b)
  <2>1. p \in Nat
    BY <1>1
  <2>2. CASE InFree(list, p)
    <3>1. PICK i \in 1 .. Len(list) :
            list[i].start <= p /\ p < EndOf(list[i])
      BY <2>2 DEF InFree
    <3>2. p \in list[i].start .. list[i].start + list[i].size - 1
      BY <1>2, <2>1, <3>1
    <3>3. QED
      BY <3>2 DEF Heap!Span
  <2>3. CASE InTaken(tk, p)
    <3>1. PICK a \in DOMAIN tk : a <= p /\ p < a + tk[a].size
      BY <2>3 DEF InTaken
    <3>2. p \in a .. a + tk[a].size - 1
      BY <1>2, <2>1, <3>1
    <3>3. p \in Heap!Span(TheBlock(a))
      BY <3>2 DEF Heap!Span
    <3>4. QED
      BY <3>3
  <2>4. QED
    BY <2>2, <2>3 DEF Covered
<1>6. ASSUME NEW b \in blocks
      PROVE  /\ Heap!Span(b) = b.start .. b.start + b.size - 1
             /\ b.start \in Nat /\ b.size \in Nat
             /\ b.start >= From /\ b.start + b.size <= UpTo
             /\ Aligned(b.start)
  <2>1. CASE \E i \in 1 .. Len(list) : b = list[i]
    <3>1. PICK i \in 1 .. Len(list) : b = list[i]
      BY <2>1
    <3>2. QED
      BY <1>2, <3>1 DEF Heap!Span
  <2>2. CASE \E a \in DOMAIN tk : b = TheBlock(a)
    <3>1. PICK a \in DOMAIN tk : b = TheBlock(a)
      BY <2>2
    <3>2. b.start = a /\ b.size = tk[a].size
      BY <3>1
    <3>3. QED
      BY <1>2, <3>2 DEF Heap!Span
  <2>3. QED
    BY <2>1, <2>2
<1>7. ASSUME NEW b \in blocks, NEW c \in blocks, b # c
      PROVE  b.start + b.size <= c.start \/ c.start + c.size <= b.start
  <2>1. CASE \E i, j \in 1 .. Len(list) : b = list[i] /\ c = list[j]
    <3>1. PICK i \in 1 .. Len(list), j \in 1 .. Len(list) :
            b = list[i] /\ c = list[j]
      BY <2>1
    <3>2. i < j \/ j < i
      BY <1>2, <1>7, <3>1
    <3>3. EndOf(b) < c.start \/ EndOf(c) < b.start
      BY <3>1, <3>2 DEF FreeIsSound
    <3>4. QED
      BY <1>2, <3>1, <3>3
  <2>2. CASE \E i \in 1 .. Len(list), a \in DOMAIN tk :
               \/ b = list[i] /\ c = TheBlock(a)
               \/ c = list[i] /\ b = TheBlock(a)
    <3>1. PICK i \in 1 .. Len(list), a \in DOMAIN tk :
               \/ b = list[i] /\ c = TheBlock(a)
               \/ c = list[i] /\ b = TheBlock(a)
      BY <2>2
    <3>2. EndOf(list[i]) <= a \/ a + tk[a].size <= list[i].start
      BY DEF Apart
    <3>3. TheBlock(a).start = a /\ TheBlock(a).size = tk[a].size
      OBVIOUS
    <3> HIDE DEF TheBlock
    <3>4. QED
      BY <1>2, <3>1, <3>2, <3>3
  <2>3. CASE \E a, d \in DOMAIN tk : b = TheBlock(a) /\ c = TheBlock(d)
    <3>1. PICK a \in DOMAIN tk, d \in DOMAIN tk :
            b = TheBlock(a) /\ c = TheBlock(d)
      BY <2>3
    <3>2. /\ b.start = a /\ b.size = tk[a].size
          /\ c.start = d /\ c.size = tk[d].size
      BY <3>1
    <3>3. a # d
      BY <1>7, <3>1
    <3>4. a < d \/ d < a
      BY <1>2, <3>3
    <3>5. a + tk[a].size <= d \/ d + tk[d].size <= a
      BY <3>4 DEF TakenIsSound
    <3>6. QED
      BY <3>2, <3>5
  <2>4. QED
    BY <2>1, <2>2, <2>3
<1>8. ASSUME NEW i \in 1 .. Len(list) PROVE list[i].start \notin DOMAIN tk
  <2>1. SUFFICES ASSUME NEW a \in DOMAIN tk, a = list[i].start PROVE FALSE
    OBVIOUS
  <2>2. EndOf(list[i]) <= a \/ a + tk[a].size <= list[i].start
    BY DEF Apart
  <2>3. QED
    BY <1>2, <2>1, <2>2
<1> HIDE DEF blocks
<1>9. UNION {Heap!Span(b) : b \in blocks} = From .. UpTo - 1
  <2>1. ASSUME NEW b \in blocks, NEW p \in Heap!Span(b)
        PROVE  p \in From .. UpTo - 1
    BY <1>1, <1>6
  <2>2. QED
    BY <1>5, <2>1
<1>10. ASSUME NEW b \in blocks, NEW c \in blocks, b # c
       PROVE  Heap!Span(b) \cap Heap!Span(c) = {}
  <2>1. SUFFICES ASSUME NEW p \in Heap!Span(b), p \in Heap!Span(c)
                 PROVE  FALSE
    OBVIOUS
  <2>2. b.start + b.size <= c.start \/ c.start + c.size <= b.start
    BY <1>7, <1>10
  <2>3. /\ b.start \in Nat /\ b.size \in Nat
        /\ c.start \in Nat /\ c.size \in Nat
    BY <1>6
  <2>4. /\ p \in b.start .. b.start + b.size - 1
        /\ p \in c.start .. c.start + c.size - 1
    BY <1>6, <2>1
  <2>5. QED
    BY <2>2, <2>3, <2>4
<1>11. \A b \in blocks : b.start % portBYTE_ALIGNMENT = 0
  BY <1>6 DEF Aligned
<1>12. \A i \in DOMAIN free : free[i].start \notin DOMAIN taken
  BY <1>3, <1>8
<1>13. QED
  BY <1>1, <1>4, <1>9, <1>10, <1>11, <1>12 DEF Heap!BlocksTileTheHeap

(* The heap counts as everybody does. *)
LEMMA SameCount ==
  ASSUME NEW S
  PROVE  Heap!Cardinality(S) = Cardinality(S)
BY DEF Heap!Cardinality, Cardinality

(* The invariant is what the heap promises. *)
LEMMA HeapInvIsSound ==
  ASSUME Heap!Heap4Constants, HeapInv
  PROVE  Heap!IsSound
<1>1. Heap!TypeOK
  BY HeapTypes
<1>2. CASE pxEnd = 0
  <2>1. free = <<>> /\ taken = <<>> /\ xFreeBytesRemaining = 0
    BY <1>2 DEF HeapInv
  <2>2. DOMAIN free = {} /\ DOMAIN taken = {} /\ Len(free) = 0
    BY <2>1
  <2>3. Heap!FreeBytes = {}
    BY <2>2 DEF Heap!FreeBytes, Heap!ToSet
  <2>4. Heap!BlocksTileTheHeap
    BY <1>2 DEF Heap!BlocksTileTheHeap
  <2>5. Heap!FreeListIsJoined
    BY <2>2 DEF Heap!FreeListIsJoined
  <2>6. Heap!FreeBytesAgree
    BY <2>1, <2>3, FS_EmptySet, SameCount DEF Heap!FreeBytesAgree
  <2>7. Heap!BlockHoldsWhatWasAsked
    BY <2>2 DEF Heap!BlockHoldsWhatWasAsked
  <2>8. BytesOf(free) = {}
    BY <2>2 DEF BytesOf, InFree
  <2>9. Heap!RefusedOnlyIfNoRoom
    <3>1. Heap!Addresses = From .. UpTo - 1
      BY HeapBounds
    <3>2. QED
      BY <2>3, <2>8, <3>1 DEF HeapInv, NoRow, Heap!RefusedOnlyIfNoRoom
  <2>10. QED
    BY <1>1, <2>4, <2>5, <2>6, <2>7, <2>9 DEF Heap!IsSound
<1>3. CASE pxEnd # 0
  <2>1. HeapHolds(free, taken, xFreeBytesRemaining)
    BY <1>3 DEF HeapInv
  <2>2. /\ FreeIsSound(free) /\ TakenIsSound(taken)
        /\ Apart(free, taken) /\ Covered(free, taken)
        /\ xFreeBytesRemaining = Cardinality(BytesOf(free))
    BY <2>1 DEF HeapHolds
  <2>3. Heap!FreeBytes = BytesOf(free)
    BY <2>2, SpansOfFree DEF Heap!FreeBytes
  <2>4. Heap!BlocksTileTheHeap
    BY <2>2, HeapIsTiled
  <2>5. Heap!FreeListIsJoined
    <3>1. SUFFICES ASSUME NEW i \in 1 .. Len(free) - 1
                   PROVE  free[i].start + free[i].size < free[i + 1].start
      BY DEF Heap!FreeListIsJoined
    <3>2. /\ i \in 1 .. Len(free) /\ i + 1 \in 1 .. Len(free)
          /\ i < i + 1
      BY <2>2, BlockNumbers
    <3>3. EndOf(free[i]) < free[i + 1].start
      BY <2>2, <3>2 DEF FreeIsSound
    <3>4. QED
      BY <3>3 DEF EndOf
  <2>6. Heap!FreeBytesAgree
    BY <2>2, <2>3, SameCount DEF Heap!FreeBytesAgree
  <2>7. Heap!BlockHoldsWhatWasAsked
    BY <2>2 DEF TakenIsSound, Heap!BlockHoldsWhatWasAsked
  <2>8. Heap!RefusedOnlyIfNoRoom
    <3>1. Heap!Addresses = From .. UpTo - 1
      BY HeapBounds
    <3>2. QED
      BY <2>3, <3>1 DEF HeapInv, NoRow, Heap!RefusedOnlyIfNoRoom
  <2>9. QED
    BY <1>1, <2>4, <2>5, <2>6, <2>7, <2>8 DEF Heap!IsSound
<1>4. QED
  BY <1>2, <1>3

(* In every behaviour of the heap that starts from its constants as they   *)
(* are assumed, the list, the blocks taken and the count fit together.     *)
THEOREM HeapInvariant ==
  ASSUME Heap!Heap4Constants
  PROVE  Heap!Spec => [](HeapInv /\ Heap!IsSound)
<1>1. Heap!Init => HeapInv
  BY HeapInvAtStart
<1>2. HeapInv /\ [Heap!Next]_(Heap!vars) => HeapInv'
  BY HeapStep
<1>3. HeapInv => Heap!IsSound
  BY HeapInvIsSound
<1>4. QED
  BY <1>1, <1>2, <1>3, PTL DEF Heap!Spec

-----------------------------------------------------------------------------
(* The byte queue. *)

(* An index that runs off the end once, or before the beginning. *)
LEMMA WrapsOnce ==
  ASSUME NEW s \in Nat \ {0}, NEW k \in Int, -s <= k, k < 2 * s
  PROVE  k % s = IF k < 0 THEN k + s ELSE IF k < s THEN k ELSE k - s
<1>1. ASSUME NEW m \in Int, NEW r \in 0 .. s - 1, k = m * s + r
      PROVE  k % s = r
  BY <1>1
<1>2. CASE k < 0
  <2>1. k = (-1) * s + (k + s) /\ k + s \in 0 .. s - 1
    BY <1>2
  <2>2. QED
    BY <1>1, <1>2, <2>1
<1>3. CASE k >= 0 /\ k < s
  <2>1. k = 0 * s + k /\ k \in 0 .. s - 1
    BY <1>3
  <2>2. QED
    BY <1>1, <1>3, <2>1
<1>4. CASE k >= s
  <2>1. k = 1 * s + (k - s) /\ k - s \in 0 .. s - 1
    BY <1>4
  <2>2. QED
    BY <1>1, <1>4, <2>1
<1>5. QED
  BY <1>2, <1>3, <1>4

(* How many bytes lie from one index to another. *)
Distance(s, l, r) == IF r >= l THEN r - l ELSE s - l + r

(* The index e is k steps from l: so far apart, k steps from where more    *)
(* steps lead to, and as far from the other indices as these are from k.   *)
Reaches(s, l, k, e) ==
  /\ e \in 0 .. s - 1 /\ Distance(s, l, e) = k
  /\ \A m \in 0 .. s - 1 - k : (e + m) % s = (l + (k + m)) % s
  /\ \A m \in 0 .. s - 1 :
       (((l + m) % s) - e) % s = IF m >= k THEN m - k ELSE m - k + s

(* Indices, distances and steps agree. *)
LEMMA RingSteps ==
  ASSUME NEW s \in Nat \ {0}, NEW l \in 0 .. s - 1, NEW k \in 0 .. s - 1
  PROVE  Reaches(s, l, k, (l + k) % s)
<1> DEFINE r == (l + k) % s
<1>1. r = IF l + k < s THEN l + k ELSE l + k - s
  <2> DEFINE t == l + k
  <2>1. t \in Int /\ -s <= t /\ t < 2 * s /\ ~ (t < 0)
    OBVIOUS
  <2> HIDE DEF t
  <2>2. t % s = IF t < s THEN t ELSE t - s
    BY <2>1, WrapsOnce
  <2>3. QED
    BY <2>2 DEF t
<1> HIDE DEF r
<1>2. r \in 0 .. s - 1 /\ Distance(s, l, r) = k
  BY <1>1 DEF Distance
<1>3. ASSUME NEW m \in 0 .. s - 1 - k
      PROVE  (r + m) % s = (l + (k + m)) % s
  <2>1. ASSUME NEW e, e = r + m
        PROVE  e % s = IF e < s THEN e ELSE e - s
    <3>1. e \in Int /\ -s <= e /\ e < 2 * s /\ ~ (e < 0)
      BY <1>2, <2>1
    <3>2. QED
      BY <3>1, WrapsOnce
  <2>2. (l + (k + m)) % s =
          IF l + (k + m) < s THEN l + (k + m) ELSE l + (k + m) - s
    <3> DEFINE t == l + (k + m)
    <3>1. t \in Int /\ -s <= t /\ t < 2 * s /\ ~ (t < 0)
      OBVIOUS
    <3> HIDE DEF t
    <3>2. t % s = IF t < s THEN t ELSE t - s
      BY <3>1, WrapsOnce
    <3>3. QED
      BY <3>2 DEF t
  <2> DEFINE t == l + (k + m)
             u == (r + m) % s
             v == t % s
             e == r + m
  <2>3. t = l + k + m /\ e = r + m
    OBVIOUS
  <2>4. /\ u = IF e < s THEN e ELSE e - s
        /\ v = IF t < s THEN t ELSE t - s
    BY <2>1, <2>2
  <2> HIDE DEF t, u, v, e
  <2>5. u = v
    BY <1>1, <2>3, <2>4
  <2>6. QED
    BY <2>5 DEF t, u, v
<1>4. ASSUME NEW m \in 0 .. s - 1
      PROVE  (((l + m) % s) - r) % s = IF m >= k THEN m - k ELSE m - k + s
  <2> DEFINE p == (l + m) % s
  <2>1. p = IF l + m < s THEN l + m ELSE l + m - s
    <3> DEFINE t == l + m
    <3>1. t \in Int /\ -s <= t /\ t < 2 * s /\ ~ (t < 0)
      OBVIOUS
    <3> HIDE DEF t
    <3>2. t % s = IF t < s THEN t ELSE t - s
      BY <3>1, WrapsOnce
    <3>3. QED
      BY <3>2 DEF t
  <2> HIDE DEF p
  <2>2. p \in 0 .. s - 1
    BY <2>1
  <2>3. (p - r) % s = IF p - r < 0 THEN p - r + s ELSE p - r
    <3>1. p - r \in Int /\ -s <= p - r /\ p - r < 2 * s /\ p - r < s
      BY <1>2, <2>2
    <3>2. QED
      BY <3>1, WrapsOnce
  <2>4. (p - r) % s = IF m >= k THEN m - k ELSE m - k + s
    BY <1>1, <2>1, <2>3
  <2>5. QED
    BY <2>4 DEF p
<1>5. /\ \A m \in 0 .. s - 1 - k : (r + m) % s = (l + (k + m)) % s
      /\ \A m \in 0 .. s - 1 :
           (((l + m) % s) - r) % s = IF m >= k THEN m - k ELSE m - k + s
  BY <1>3, <1>4
<1>6. Reaches(s, l, k, r)
  BY <1>2, <1>5 DEF Reaches
<1>7. QED
  BY <1>6 DEF r

(* The indices are as far apart as bytes are counted, and these have all   *)
(* been pushed.                                                            *)
QueueInv ==
  /\ size \in Nat
  /\ size = 0 => left = 0 /\ right = 0
  /\ size > 0 =>
       /\ size >= 2 /\ left \in 0 .. size - 1 /\ right \in 0 .. size - 1
       /\ DOMAIN buf = 0 .. size - 1
  /\ Queue!Queued \in Seq(Bytes)

TheFifo ==
  \/ \E n \in QueueSizes : Queue!Fifo!Create(n)
  \/ \E data \in ShortMessages : Queue!Fifo!Push(data)
  \/ \E data \in ShortMessages : Queue!Fifo!Pop(Len(data))

(* Before it is initialized the queue is empty. *)
LEMMA QueueAtStart ==
  Queue!Init => QueueInv /\ Queue!Fifo!Init
<1> SUFFICES ASSUME Queue!Init PROVE QueueInv /\ Queue!Fifo!Init
  OBVIOUS
<1>1. /\ buf = <<>> /\ size = 0 /\ left = 0 /\ right = 0
      /\ answer = Queue!Answer("init", FALSE, <<>>)
  BY DEF Queue!Init
<1>2. Queue!ds_rq_size = 0
  BY <1>1 DEF Queue!ds_rq_size
<1>3. Queue!Queued = <<>>
  BY <1>2 DEF Queue!Queued
<1>4. Queue!Fifo!Answer("init", FALSE, <<>>)
        = Queue!Answer("init", FALSE, <<>>)
  BY DEF Queue!Fifo!Answer, Queue!Answer
<1>5. <<>> \in Seq(Bytes)
  BY EmptySeq
<1>6. QueueInv
  BY <1>1, <1>3, <1>5 DEF QueueInv
<1>7. Queue!Fifo!Init
  BY <1>1, <1>3, <1>4 DEF Queue!Fifo!Init
<1>8. QED
  BY <1>6, <1>7

(* What is counted lies between the indices, as many bytes. *)
LEMMA QueueFacts ==
  ASSUME QueueInv, size > 0
  PROVE  LET q == Queue!ds_rq_size IN
         /\ size \in Nat \ {0} /\ left \in 0 .. size - 1
         /\ q \in 0 .. size - 1 /\ right = (left + q) % size
         /\ DOMAIN buf = 0 .. size - 1
         /\ Queue!Queued = [i \in 1 .. q |-> buf[(left + (i - 1)) % size]]
         /\ Queue!Queued \in Seq(Bytes) /\ Len(Queue!Queued) = q
<1> DEFINE q == Queue!ds_rq_size
<1>1. /\ size \in Nat \ {0} /\ left \in 0 .. size - 1
      /\ right \in 0 .. size - 1 /\ DOMAIN buf = 0 .. size - 1
      /\ Queue!Queued \in Seq(Bytes)
  BY DEF QueueInv
<1>2. q = IF right >= left THEN right - left ELSE size - left + right
  BY DEF Queue!ds_rq_size
<1>3. Queue!Queued = [i \in 1 .. q |-> buf[(left + (i - 1)) % size]]
  BY DEF Queue!Queued, Queue!Forward
<1> HIDE DEF q
<1>4. q \in 0 .. size - 1
  BY <1>1, <1>2
<1>5. right = (left + q) % size
  <2> DEFINE t == left + q
  <2>1. /\ t \in Int /\ -size <= t /\ t < 2 * size /\ ~ (t < 0)
        /\ t = right \/ t = right + size
    BY <1>1, <1>2, <1>4
  <2> HIDE DEF t
  <2>2. t % size = IF t < size THEN t ELSE t - size
    BY <1>1, <2>1, WrapsOnce
  <2>3. t % size = right
    BY <1>1, <2>1, <2>2
  <2>4. QED
    BY <2>3 DEF t
<1>6. Len(Queue!Queued) = q
  <2>1. DOMAIN Queue!Queued = 1 .. q /\ q \in Nat
    BY <1>3, <1>4
  <2>2. DOMAIN Queue!Queued = 1 .. Len(Queue!Queued)
    BY <1>1
  <2>3. Len(Queue!Queued) \in Nat
    BY <1>1
  <2>4. QED
    BY <2>1, <2>2, <2>3
<1>7. QED
  BY <1>1, <1>3, <1>4, <1>5, <1>6 DEF q

(* Pushing puts the bytes behind those that are queued. *)
LEMMA PushAppends ==
  ASSUME QueueInv, size > 0, NEW data \in Seq(Bytes),
         Queue!ds_rq_push(data)
  PROVE  QueueInv' /\ Queue!Fifo!Push(data)
<1> DEFINE q == Queue!ds_rq_size
           L == Len(data)
           items == Queue!Queued
<1>1. /\ size \in Nat \ {0} /\ left \in 0 .. size - 1
      /\ q \in 0 .. size - 1 /\ right = (left + q) % size
      /\ DOMAIN buf = 0 .. size - 1
      /\ items = [i \in 1 .. q |-> buf[(left + (i - 1)) % size]]
      /\ items \in Seq(Bytes) /\ Len(items) = q
  BY QueueFacts
<1>2. L \in Nat
  OBVIOUS
<1>3. size' = size /\ left' = left
  BY DEF Queue!ds_rq_push
<1>4. Queue!ds_rq_avail = size - 1 - q
  BY DEF Queue!ds_rq_avail
<1>5. Queue!ds_rq_size' = Distance(size', left', right')
  BY DEF Queue!ds_rq_size, Distance
<1>6. Queue!Queued' = [i \in 1 .. Queue!ds_rq_size' |->
                         buf'[(left' + (i - 1)) % size']]
  BY DEF Queue!Queued, Queue!Forward
<1>7. \A s, o, b : Queue!Fifo!Answer(s, o, b) = Queue!Answer(s, o, b)
  BY DEF Queue!Fifo!Answer, Queue!Answer
<1>8. CASE L <= size - 1 - q
  <2>1. /\ buf' = [j \in DOMAIN buf |->
                     IF Queue!FromRight(j) < L
                     THEN data[Queue!FromRight(j) + 1] ELSE buf[j]]
        /\ right' = (right + L) % size
        /\ answer' = Queue!Answer("push", TRUE, <<>>)
    BY <1>4, <1>8 DEF Queue!ds_rq_push, Queue!Forward
  <2> HIDE DEF q, L, items
  <2>2. /\ q + L \in 0 .. size - 1 /\ L \in 0 .. size - 1 - q
        /\ q \in Nat
    BY <1>1, <1>2, <1>8
  <2>3. Reaches(size, left, q, right)
    BY <1>1, RingSteps
  <2>4. right' = (left + (q + L)) % size
    BY <2>1, <2>2, <2>3 DEF Reaches
  <2>5. Reaches(size, left, q + L, right')
    BY <1>1, <2>2, <2>4, RingSteps
  <2>6. Queue!ds_rq_size' = q + L /\ right' \in 0 .. size - 1
    BY <1>3, <1>5, <2>5 DEF Reaches
  <2>7. /\ items \o data \in Seq(Bytes) /\ Len(items \o data) = q + L
        /\ \A i \in 1 .. q : (items \o data)[i] = items[i]
        /\ \A i \in q + 1 .. q + L : (items \o data)[i] = data[i - q]
    <3>1. /\ items \o data \in Seq(Bytes)
          /\ Len(items \o data) = Len(items) + L
          /\ \A i \in 1 .. Len(items) : (items \o data)[i] = items[i]
          /\ \A i \in Len(items) + 1 .. Len(items) + L :
               (items \o data)[i] = data[i - Len(items)]
      BY <1>1, TwoRows DEF L
    <3>2. QED
      BY <1>1, <3>1
  <2>8. ASSUME NEW i \in 1 .. q + L
        PROVE  (items \o data)[i] = buf'[(left + (i - 1)) % size]
    <3> DEFINE m == i - 1
               p == (left + m) % size
    <3>1. m \in 0 .. size - 1 /\ i \in Nat
      BY <1>1, <1>2, <2>2
    <3>2. p \in 0 .. size - 1
      BY <1>1, <3>1, RingSteps DEF Reaches
    <3>3. (p - right) % size = IF m >= q THEN m - q ELSE m - q + size
      BY <2>3, <3>1 DEF Reaches
    <3>4. Queue!FromRight(p) = (p - right) % size
      BY DEF Queue!FromRight
    <3> HIDE DEF p
    <3>5. buf'[p] = IF Queue!FromRight(p) < L
                    THEN data[Queue!FromRight(p) + 1] ELSE buf[p]
      BY <1>1, <2>1, <3>2
    <3>6. CASE i <= q
      <4>1. Queue!FromRight(p) = m - q + size /\ ~ (m - q + size < L)
        BY <1>1, <1>2, <1>8, <2>2, <3>1, <3>3, <3>4, <3>6
      <4>2. buf'[p] = buf[p]
        BY <3>5, <4>1
      <4>3. i \in 1 .. q
        BY <2>2, <3>1, <3>6
      <4>4. items[i] = buf[p]
        BY <1>1, <4>3 DEF p
      <4>5. QED
        BY <2>7, <4>2, <4>3, <4>4 DEF p
    <3>7. CASE i > q
      <4>1. /\ Queue!FromRight(p) = m - q /\ m - q < L
            /\ m - q + 1 = i - q
        BY <1>1, <1>2, <2>2, <3>1, <3>3, <3>4, <3>7
      <4>2. buf'[p] = data[i - q]
        BY <3>5, <4>1
      <4>3. i \in q + 1 .. q + L
        BY <2>2, <3>1, <3>7
      <4>4. QED
        BY <2>7, <4>2, <4>3 DEF p
    <3>8. i <= q \/ i > q
      BY <2>2, <3>1
    <3>9. QED
      BY <3>6, <3>7, <3>8
  <2>9. Queue!Queued' = items \o data
    <3> DEFINE f(i) == buf'[(left + (i - 1)) % size]
               n == q + L
               list == items \o data
    <3>1. n \in Nat /\ list \in Seq(Bytes) /\ Len(list) = n
      BY <2>2, <2>7
    <3>2. \A i \in 1 .. n : list[i] = f(i)
      BY <2>8
    <3>3. Queue!Queued' = [i \in 1 .. n |-> f(i)]
      BY <1>3, <1>6, <2>6
    <3> HIDE DEF f, n, list
    <3>4. [i \in 1 .. n |-> f(i)] = list
      <4>1. DOMAIN list = 1 .. n /\ list = [i \in DOMAIN list |-> list[i]]
        BY <3>1
      <4>2. QED
        BY <3>2, <4>1
    <3>5. QED
      BY <3>3, <3>4 DEF list
  <2>10. DOMAIN buf' = 0 .. size - 1
    BY <1>1, <2>1
  <2>11. QueueInv'
    BY <1>1, <1>3, <2>6, <2>7, <2>9, <2>10 DEF QueueInv
  <2>12. Queue!Fifo!Push(data)
    <3>1. size # 0 /\ size' # 0 /\ q + L <= size - 1
      BY <1>1, <1>3, <2>2
    <3>2. Len(items) + Len(data) <= size - 1
      BY <1>1, <3>1 DEF L
    <3>3. Queue!Fifo!Answer("push", TRUE, <<>>)
            = Queue!Answer("push", TRUE, <<>>)
      BY <1>7
    <3>4. QED
      BY <1>3, <2>1, <2>9, <3>1, <3>2, <3>3 DEF Queue!Fifo!Push, items
  <2>13. QED
    BY <2>11, <2>12
<1>9. CASE ~ (L <= size - 1 - q)
  <2>1. /\ buf' = buf /\ right' = right
        /\ answer' = Queue!Answer("push", FALSE, <<>>)
    BY <1>4, <1>9 DEF Queue!ds_rq_push
  <2>2. Queue!Queued' = Queue!Queued
    BY <1>3, <2>1 DEF Queue!Queued, Queue!Forward, Queue!ds_rq_size
  <2>3. QueueInv'
    BY <1>3, <2>1, <2>2 DEF QueueInv
  <2> HIDE DEF q, L, items
  <2>4. size # 0 /\ ~ (q + L <= size - 1)
    BY <1>1, <1>2, <1>9
  <2>5. ~ (Len(items) + Len(data) <= size - 1)
    BY <1>1, <2>4 DEF L
  <2>6. Queue!Fifo!Answer("push", FALSE, <<>>)
          = Queue!Answer("push", FALSE, <<>>)
    BY <1>7
  <2>7. Queue!Fifo!Push(data)
    BY <1>3, <2>1, <2>2, <2>4, <2>5, <2>6 DEF Queue!Fifo!Push, items
  <2>8. QED
    BY <2>3, <2>7
<1>10. QED
  BY <1>8, <1>9

(* The first n of a list, and the others. *)
LEMMA HeadAndTail ==
  ASSUME NEW S, NEW list \in Seq(S), NEW n \in Nat, n <= Len(list)
  PROVE  /\ SubSeq(list, 1, n) \in Seq(S) /\ Len(SubSeq(list, 1, n)) = n
         /\ \A i \in 1 .. n : SubSeq(list, 1, n)[i] = list[i]
         /\ SubSeq(list, n + 1, Len(list)) \in Seq(S)
         /\ Len(SubSeq(list, n + 1, Len(list))) = Len(list) - n
         /\ \A i \in 1 .. Len(list) - n :
              SubSeq(list, n + 1, Len(list))[i] = list[n + i]
<1> DEFINE q == Len(list)
           a == SubSeq(list, 1, n)
           b == SubSeq(list, n + 1, q)
<1>1. q \in Nat /\ n \in Nat /\ n <= q
  OBVIOUS
<1>2. /\ a \in Seq(S) /\ Len(a) = n
      /\ \A i \in 1 .. n : a[i] = list[i]
  <2>1. /\ 1 \in 1 .. q + 1 /\ n \in 1 - 1 .. q
        /\ n - 1 + 1 = n /\ \A i \in 1 .. n : 1 + i - 1 = i
    BY <1>1
  <2>2. /\ a \in Seq(S) /\ Len(a) = n - 1 + 1
        /\ \A i \in 1 .. n - 1 + 1 : a[i] = list[1 + i - 1]
    BY <2>1, Row DEF a
  <2>3. QED
    BY <2>1, <2>2
<1>3. /\ b \in Seq(S) /\ Len(b) = q - n
      /\ \A i \in 1 .. q - n : b[i] = list[n + i]
  <2> DEFINE p == n + 1
  <2>1. /\ p \in 1 .. q + 1 /\ q \in p - 1 .. q /\ q - p + 1 = q - n
        /\ \A i \in 1 .. q - n : p + i - 1 = n + i
    BY <1>1
  <2> HIDE DEF p
  <2>2. /\ SubSeq(list, p, q) \in Seq(S)
        /\ Len(SubSeq(list, p, q)) = q - p + 1
        /\ \A i \in 1 .. q - p + 1 :
             SubSeq(list, p, q)[i] = list[p + i - 1]
    BY <2>1, Row
  <2>3. b = SubSeq(list, p, q)
    BY DEF p
  <2> HIDE DEF b
  <2>4. QED
    BY <2>1, <2>2, <2>3
<1>4. QED
  BY <1>2, <1>3

(* Popping gives the first bytes and leaves the others. *)
LEMMA PopTakes ==
  ASSUME QueueInv, size > 0, NEW n \in Nat, Queue!ds_rq_pop(n)
  PROVE  QueueInv' /\ Queue!Fifo!Pop(n)
<1> DEFINE q == Queue!ds_rq_size
           items == Queue!Queued
           rest == SubSeq(items, n + 1, Len(items))
           gone == SubSeq(items, 1, n)
<1>1. /\ size \in Nat \ {0} /\ left \in 0 .. size - 1
      /\ q \in 0 .. size - 1 /\ right = (left + q) % size
      /\ DOMAIN buf = 0 .. size - 1
      /\ items = [i \in 1 .. q |-> buf[(left + (i - 1)) % size]]
      /\ items \in Seq(Bytes) /\ Len(items) = q
  BY QueueFacts
<1>2. size' = size /\ right' = right /\ buf' = buf
  BY DEF Queue!ds_rq_pop
<1>3. Queue!ds_rq_size' = Distance(size', left', right')
  BY DEF Queue!ds_rq_size, Distance
<1>4. Queue!Queued' = [i \in 1 .. Queue!ds_rq_size' |->
                         buf'[(left' + (i - 1)) % size']]
  BY DEF Queue!Queued, Queue!Forward
<1>5. \A s, o, b : Queue!Fifo!Answer(s, o, b) = Queue!Answer(s, o, b)
  BY DEF Queue!Fifo!Answer, Queue!Answer
<1>6. CASE n <= q
  <2>1. /\ left' = (left + n) % size
        /\ answer' = Queue!Answer("pop", TRUE,
                       [i \in 1 .. n |-> buf[(left + (i - 1)) % size]])
    BY <1>6 DEF Queue!ds_rq_pop, Queue!Forward
  <2> HIDE DEF q, items
  <2>2. /\ n \in 0 .. size - 1 /\ q - n \in 0 .. size - 1 - n
        /\ q - n \in 0 .. size - 1 /\ q \in Nat /\ n + (q - n) = q
    BY <1>1, <1>6
  <2>3. Reaches(size, left, n, left')
    BY <1>1, <2>1, <2>2, RingSteps
  <2>4. left' \in 0 .. size - 1
    BY <2>3 DEF Reaches
  <2>5. right' = (left' + (q - n)) % size
    <3>1. (left' + (q - n)) % size = (left + (n + (q - n))) % size
      BY <2>2, <2>3 DEF Reaches
    <3>2. QED
      BY <1>1, <1>2, <2>2, <3>1
  <2>6. Reaches(size, left', q - n, right')
    BY <1>1, <2>2, <2>4, <2>5, RingSteps
  <2>7. Queue!ds_rq_size' = q - n /\ right' \in 0 .. size - 1
    BY <1>2, <1>3, <2>6 DEF Reaches
  <2>8. /\ gone \in Seq(Bytes) /\ Len(gone) = n
        /\ \A i \in 1 .. n : gone[i] = items[i]
    BY <1>1, <1>6, HeadAndTail
  <2>9. /\ rest \in Seq(Bytes) /\ Len(rest) = q - n
        /\ \A i \in 1 .. q - n : rest[i] = items[n + i]
    <3>1. items \in Seq(Bytes) /\ n <= Len(items)
      BY <1>1, <1>6
    <3>2. /\ rest \in Seq(Bytes) /\ Len(rest) = Len(items) - n
          /\ \A i \in 1 .. Len(items) - n : rest[i] = items[n + i]
      BY <3>1, HeadAndTail, Zenon
    <3>3. QED
      BY <1>1, <3>2
  <2> HIDE DEF gone, rest
  <2>10. ASSUME NEW i \in 1 .. n
         PROVE  gone[i] = buf[(left + (i - 1)) % size]
    <3>1. i \in 1 .. q
      BY <2>2, <1>6
    <3>2. QED
      BY <1>1, <2>8, <3>1
  <2>11. [i \in 1 .. n |-> buf[(left + (i - 1)) % size]] = gone
    <3>1. DOMAIN gone = 1 .. n /\ gone = [i \in DOMAIN gone |-> gone[i]]
      BY <2>8
    <3>2. QED
      BY <2>10, <3>1
  <2>12. ASSUME NEW i \in 1 .. q - n
         PROVE  rest[i] = buf[(left' + (i - 1)) % size]
    <3>1. /\ n + i \in 1 .. q /\ i - 1 \in 0 .. size - 1 - n
          /\ n + i - 1 = n + (i - 1)
      BY <1>1, <2>2
    <3>2. (left' + (i - 1)) % size = (left + (n + (i - 1))) % size
      BY <2>3, <3>1 DEF Reaches
    <3>3. items[n + i] = buf[(left + (n + i - 1)) % size]
      BY <1>1, <3>1
    <3>4. QED
      BY <2>9, <3>1, <3>2, <3>3
  <2>13. Queue!Queued' = rest
    <3>1. Queue!Queued' = [i \in 1 .. q - n |->
                             buf[(left' + (i - 1)) % size]]
      BY <1>2, <1>4, <2>7
    <3>2. DOMAIN rest = 1 .. q - n /\ rest = [i \in DOMAIN rest |-> rest[i]]
      BY <2>2, <2>9
    <3>3. QED
      BY <2>12, <3>1, <3>2
  <2>14. QueueInv'
    BY <1>1, <1>2, <2>4, <2>7, <2>9, <2>13 DEF QueueInv
  <2>15. Queue!Fifo!Pop(n)
    <3>1. size # 0 /\ n <= Len(items)
      BY <1>1, <1>6
    <3>2. answer' = Queue!Fifo!Answer("pop", TRUE, gone)
      BY <1>5, <2>1, <2>11
    <3>3. QED
      BY <1>2, <2>13, <3>1, <3>2 DEF Queue!Fifo!Pop, items, gone, rest
  <2>16. QED
    BY <2>14, <2>15
<1>7. CASE ~ (n <= q)
  <2>1. /\ left' = left /\ answer' = Queue!Answer("pop", FALSE, <<>>)
    BY <1>7 DEF Queue!ds_rq_pop
  <2>2. Queue!Queued' = Queue!Queued
    BY <1>2, <2>1 DEF Queue!Queued, Queue!Forward, Queue!ds_rq_size
  <2>3. QueueInv'
    BY <1>2, <2>1, <2>2 DEF QueueInv
  <2>4. size # 0 /\ ~ (n <= Len(items))
    BY <1>1, <1>7
  <2>5. answer' = Queue!Fifo!Answer("pop", FALSE, <<>>)
    BY <1>5, <2>1
  <2>6. Queue!Fifo!Pop(n)
    BY <1>2, <2>1, <2>2, <2>4, <2>5 DEF Queue!Fifo!Pop
  <2>7. QED
    BY <2>3, <2>6
<1>8. QED
  BY <1>6, <1>7

(* Initializing empties the queue. *)
LEMMA InitCreates ==
  ASSUME QueueInv, NEW n \in Nat, Queue!ds_rq_init(n)
  PROVE  QueueInv' /\ Queue!Fifo!Create(n)
<1>1. \A s, o, b : Queue!Fifo!Answer(s, o, b) = Queue!Answer(s, o, b)
  BY DEF Queue!Fifo!Answer, Queue!Answer
<1>2. CASE n >= 2
  <2>1. /\ buf' = [j \in 0 .. n - 1 |-> Unset]
        /\ size' = n /\ left' = 0 /\ right' = 0
        /\ answer' = Queue!Answer("init", TRUE, <<>>)
    BY <1>2 DEF Queue!ds_rq_init
  <2>2. Queue!ds_rq_size' = 0
    BY <2>1 DEF Queue!ds_rq_size
  <2>3. Queue!Queued' = <<>>
    BY <2>2 DEF Queue!Queued
  <2>4. <<>> \in Seq(Bytes)
    BY EmptySeq
  <2>5. DOMAIN buf' = 0 .. size' - 1
    BY <2>1
  <2>6. 0 \in 0 .. n - 1
    BY <1>2
  <2>7. QueueInv'
    BY <1>2, <2>1, <2>3, <2>4, <2>5, <2>6 DEF QueueInv
  <2>8. answer' = Queue!Fifo!Answer("init", TRUE, <<>>) /\ size' # 0
    BY <1>1, <1>2, <2>1
  <2>9. Queue!Fifo!Create(n)
    BY <1>2, <2>1, <2>3, <2>8 DEF Queue!Fifo!Create
  <2>10. QED
    BY <2>7, <2>9
<1>3. CASE ~ (n >= 2)
  <2>1. /\ UNCHANGED <<buf, size, left, right>>
        /\ answer' = Queue!Answer("init", FALSE, <<>>)
    BY <1>3 DEF Queue!ds_rq_init
  <2>2. Queue!Queued' = Queue!Queued
    BY <2>1 DEF Queue!Queued, Queue!Forward, Queue!ds_rq_size
  <2>3. QueueInv'
    BY <2>1, <2>2 DEF QueueInv
  <2>4. answer' = Queue!Fifo!Answer("init", FALSE, <<>>)
    BY <1>1, <2>1
  <2>5. Queue!Fifo!Create(n)
    BY <1>3, <2>1, <2>2, <2>4 DEF Queue!Fifo!Create
  <2>6. QED
    BY <2>3, <2>5
<1>4. QED
  BY <1>2, <1>3

(* Every step of the ring is one of the FIFO. *)
LEMMA QueueStep ==
  ASSUME Queue!RingQueueConstants, QueueInv, [Queue!Next]_(Queue!vars)
  PROVE  QueueInv' /\ [TheFifo]_(Queue!Fifo!vars)
<1>1. CASE UNCHANGED Queue!vars
  <2>1. UNCHANGED <<buf, size, left, right, answer>>
    BY <1>1 DEF Queue!vars
  <2>2. Queue!Queued' = Queue!Queued
    BY <2>1 DEF Queue!Queued, Queue!Forward, Queue!ds_rq_size
  <2>3. QueueInv'
    BY <2>1, <2>2 DEF QueueInv
  <2>4. UNCHANGED Queue!Fifo!vars
    BY <2>1, <2>2 DEF Queue!Fifo!vars
  <2>5. QED
    BY <2>3, <2>4
<1>2. ASSUME NEW n \in QueueSizes, Queue!ds_rq_init(n)
      PROVE  QueueInv' /\ TheFifo
  <2>1. n \in Nat
    BY DEF Queue!RingQueueConstants
  <2>2. QED
    BY <1>2, <2>1, InitCreates DEF TheFifo
<1>3. ASSUME size > 0, NEW data \in ShortMessages, Queue!ds_rq_push(data)
      PROVE  QueueInv' /\ TheFifo
  <2>1. data \in Seq(Bytes)
    BY DEF Queue!RingQueueConstants
  <2>2. QED
    BY <1>3, <2>1, PushAppends DEF TheFifo
<1>4. ASSUME size > 0, NEW data \in ShortMessages,
             Queue!ds_rq_pop(Len(data))
      PROVE  QueueInv' /\ TheFifo
  <2>1. data \in Seq(Bytes)
    BY DEF Queue!RingQueueConstants
  <2>2. Len(data) \in Nat
    BY <2>1
  <2>3. QED
    BY <1>4, <2>2, PopTakes DEF TheFifo
<1>5. QED
  BY <1>1, <1>2, <1>3, <1>4 DEF Queue!Next

(* The queue implements the bounded FIFO: what is pushed is popped, in     *)
(* order, all of it or nothing, wherever the ring wraps.                   *)
THEOREM RingIsFifo ==
  ASSUME Queue!RingQueueConstants
  PROVE  Queue!Spec => []QueueInv /\ Queue!ImplementsFifo
<1>1. Queue!Init => QueueInv /\ Queue!Fifo!Init
  BY QueueAtStart
<1>2. QueueInv /\ [Queue!Next]_(Queue!vars) => QueueInv'
  BY QueueStep
<1>3. QueueInv /\ [Queue!Next]_(Queue!vars) =>
        [\/ \E n \in QueueSizes : Queue!Fifo!Create(n)
         \/ \E data \in ShortMessages : Queue!Fifo!Push(data)
         \/ \E data \in ShortMessages : Queue!Fifo!Pop(Len(data))
        ]_(Queue!Fifo!vars)
  BY QueueStep DEF TheFifo
<1>4. QED
  BY <1>1, <1>2, <1>3, PTL DEF Queue!Spec, Queue!ImplementsFifo

-----------------------------------------------------------------------------
(* The key and its log. *)

(* A multiple of w and a rest less than w are a number's only ones. *)
LEMMA RestIsUnique ==
  ASSUME NEW w \in Nat \ {0}, NEW q \in Nat, NEW r \in 0 .. w - 1
  PROVE  (q * w + r) % w = r
OBVIOUS

(* Counting on: the rest of the next number is the next of the rest. *)
LEMMA RestCountsOn ==
  ASSUME NEW w \in Nat \ {0}, NEW a \in Nat
  PROVE  ((a % w) + 1) % w = (a + 1) % w
<1> DEFINE q == a \div w
           r == a % w
           u == q * w
           n == a + 1
<1>1. a = u + r /\ q \in Nat /\ r \in 0 .. w - 1 /\ n = a + 1
  OBVIOUS
<1>2. u \in Nat /\ (q + 1) * w = u + w
  <2>1. q \in Nat
    OBVIOUS
  <2> HIDE DEF q
  <2>2. QED
    BY <2>1
<1> HIDE DEF q, r, n
<1>3. CASE r + 1 < w
  <2>1. r + 1 \in 0 .. w - 1 /\ n = u + (r + 1)
    <3> HIDE DEF u
    <3>1. QED
      BY <1>1, <1>2, <1>3
  <2>2. n % w = r + 1
    BY <1>1, <2>1, RestIsUnique
  <2>3. (r + 1) % w = r + 1
    BY <2>1
  <2>4. QED
    BY <2>2, <2>3 DEF r, n
<1>4. CASE r + 1 = w
  <2>1. n = u + w
    <3> HIDE DEF u
    <3>1. QED
      BY <1>1, <1>2, <1>4
  <2> DEFINE p == q + 1
  <2>2. n = p * w + 0 /\ p \in Nat /\ 0 \in 0 .. w - 1
    <3>1. p * w = u + w /\ p \in Nat
      BY <1>1, <1>2
    <3> HIDE DEF u, p
    <3>2. QED
      BY <1>2, <2>1, <3>1
  <2> HIDE DEF p
  <2>3. n % w = 0
    BY <2>2, RestIsUnique
  <2>4. (r + 1) % w = 0
    <3>1. w % w = 0
      <4>1. w = 1 * w + 0 /\ 0 \in 0 .. w - 1
        OBVIOUS
      <4>2. (1 * w + 0) % w = 0
        BY <4>1, RestIsUnique
      <4>3. QED
        BY <4>1, <4>2
    <3>2. QED
      BY <1>4, <3>1
  <2>5. QED
    BY <2>3, <2>4 DEF r, n
<1>5. QED
  <2> HIDE DEF u
  <2>1. QED
    BY <1>1, <1>3, <1>4

(* In the critical section, and what the task has taken over in it.        *)
Taking == pc \in {"pending", "stamp", "clear"}

StampIsTaken ==
  /\ log_key => pc \in {"stamp", "clear", "log"}
  /\ pc \in {"stamp", "clear"} => log_key = key_log_pending
  /\ pc = "clear" => key_ts = key_log_ts

(* The reads of the identifier are counted, and interrupts masked just in  *)
(* the critical section and when the processor has stopped.                *)
StartIsCounted ==
  /\ pc = "reset" => reads = cnt /\ cnt < MaxReads
  /\ pc = "halted" => reads = MaxReads
  /\ enabled => pc \notin {"reset", "halted", "uart"}
  /\ ~ enabled => accepted = <<>>
  /\ masked <=> pc = "halted" \/ Taking

(* How long the next read of the identifier is still put off. *)
Waits == IF pc = "reset" THEN delay ELSE 0

(* The tick count tells when the last press was, for one turn of it and a  *)
(* debounce time; before the first press, that the board has come up.      *)
PressIsTimed ==
  /\ since < Key!Forever => tick = (lst_key_ts + since) % Word
  /\ accepted = <<>> => since + Waits >= ResetTime

(* The task has a press in its hands that it will log. *)
InHand == pc = "log" /\ log_key

(* The log is made of some of the first m presses, by f; the m-th is the   *)
(* last logged, or in the task's hands; what is pending is a later one.    *)
Handed(f, m) ==
  /\ f \in [1 .. Len(log) -> 1 .. Len(accepted)]
  /\ m \in 0 .. Len(accepted)
  /\ \A i, j \in 1 .. Len(log) : i < j => f[i] < f[j]
  /\ \A i \in 1 .. Len(log) : log[i] = accepted[f[i]] /\ f[i] <= m
  /\ InHand =>
       /\ m > 0 /\ key_ts = accepted[m]
       /\ \A i \in 1 .. Len(log) : f[i] < m
  /\ key_log_pending =>
       m < Len(accepted) /\ key_log_ts = accepted[Len(accepted)]
  /\ ~ key_log_pending => m = Len(accepted)
  /\ m > 0 /\ ~ InHand =>
       Len(log) > 0 /\ log[Len(log)] = accepted[m]

KeyInv ==
  /\ Key!TypeOK /\ StartIsCounted /\ StampIsTaken /\ PressIsTimed
  /\ \E f, m : Handed(f, m)

(* Every variable keeps its type. *)
LEMMA KeyTypes ==
  ASSUME Key!KeyLogConstants, Key!TypeOK, StartIsCounted,
         [Key!Next]_(Key!vars)
  PROVE  Key!TypeOK'
<1>0. CASE UNCHANGED Key!vars
  BY <1>0
     DEF Key!TypeOK, Key!Ticks, Key!KeyLogConstants, Key!vars, Key!board,
         Key!press, Key!local
<1>1. CASE Key!Tick
  <2>1. tick' \in Key!Ticks
    <3>1. Word \in Nat \ {0} /\ tick \in Nat
      BY DEF Key!Ticks, Key!TypeOK, Key!KeyLogConstants
    <3>2. (tick + 1) % Word \in 0 .. Word - 1
      BY <3>1
    <3>3. QED
      BY <1>1, <3>2 DEF Key!Tick, Key!Ticks
  <2>2. since' \in 0 .. Key!Forever
    BY <1>1 DEF Key!Tick, Key!Forever, Key!TypeOK, Key!KeyLogConstants
  <2>3. delay' \in Nat
    BY <1>1 DEF Key!Tick, Key!TypeOK
  <2>4. QED
    BY <1>1, <2>1, <2>2, <2>3
       DEF Key!Tick, Key!TypeOK, Key!board, Key!press, Key!local
<1>2. CASE Key!Press
  BY <1>2
     DEF Key!TypeOK, Key!Ticks, Key!KeyLogConstants, Key!Press, Key!board,
         Key!press, Key!local
<1>3. CASE Key!Release
  BY <1>3
     DEF Key!TypeOK, Key!Ticks, Key!KeyLogConstants, Key!Release, Key!board,
         Key!press, Key!local
<1>4. CASE Key!KeyIsr
  <2>1. /\ edge' = FALSE
        /\ UNCHANGED <<tick, key, enabled, masked, pc, delay, cnt, log_key,
             key_ts, reads, log>>
    BY <1>4 DEF Key!KeyIsr, Key!local
  <2>2. CASE UNCHANGED <<lst_key_ts, key_log_pending, key_log_ts, accepted,
               since>>
    BY <2>1, <2>2 DEF Key!TypeOK
  <2>3. CASE Key!Accept(tick)
    <3>1. accepted' \in Seq(Key!Ticks)
      BY <2>3 DEF Key!Accept, Key!TypeOK
    <3>2. 0 \in 0 .. Key!Forever
      BY DEF Key!Forever, Key!KeyLogConstants
    <3>3. QED
      BY <2>1, <2>3, <3>1, <3>2 DEF Key!Accept, Key!TypeOK
  <2>4. QED
    BY <1>4, <2>2, <2>3 DEF Key!KeyIsr, Key!press
<1>5. CASE Key!ReadId
  <2>1. reads \in Nat /\ cnt \in Nat /\ reads = cnt /\ cnt < MaxReads
    BY <1>5 DEF Key!ReadId, StartIsCounted, Key!TypeOK
  <2>2. MaxReads \in Nat /\ RetryTime \in Nat
    BY DEF Key!KeyLogConstants
  <2>3. reads' \in 0 .. MaxReads
    BY <1>5, <2>1, <2>2 DEF Key!ReadId
  <2>4. cnt' \in 0 .. MaxReads /\ delay' \in Nat
    BY <1>5, <2>1, <2>2 DEF Key!ReadId, Key!Sleep, Key!TypeOK
  <2>5. /\ pc' \in {"reset", "halted", "uart"} /\ masked' \in BOOLEAN
        /\ UNCHANGED <<tick, since, key, edge, enabled, lst_key_ts,
             key_log_pending, key_log_ts, accepted, log_key, key_ts, log>>
    BY <1>5 DEF Key!ReadId, Key!Sleep, Key!board, Key!press
  <2>6. QED
    BY <2>3, <2>4, <2>5 DEF Key!TypeOK
<1>6. CASE Key!EnableKey
  BY <1>6
     DEF Key!TypeOK, Key!Ticks, Key!KeyLogConstants, Key!EnableKey,
         Key!board, Key!press, Key!local
<1>7. CASE Key!EnterCritical
  BY <1>7
     DEF Key!TypeOK, Key!Ticks, Key!KeyLogConstants, Key!EnterCritical,
         Key!board, Key!press, Key!local
<1>8. CASE Key!ReadPending
  BY <1>8
     DEF Key!TypeOK, Key!Ticks, Key!KeyLogConstants, Key!ReadPending,
         Key!board, Key!press, Key!local
<1>9. CASE Key!ReadStamp
  BY <1>9
     DEF Key!TypeOK, Key!Ticks, Key!KeyLogConstants, Key!ReadStamp,
         Key!board, Key!press, Key!local
<1>10. CASE Key!ClearPending
  BY <1>10
     DEF Key!TypeOK, Key!Ticks, Key!KeyLogConstants, Key!ClearPending,
         Key!board, Key!press, Key!local
<1>11. CASE Key!Log
  <2>1. log' \in Seq(Key!Ticks)
    BY <1>11 DEF Key!Log, Key!TypeOK
  <2>2. delay' \in Nat
    BY <1>11 DEF Key!Log, Key!Sleep, Key!KeyLogConstants
  <2>3. QED
    BY <1>11, <2>1, <2>2
       DEF Key!Log, Key!Sleep, Key!TypeOK, Key!board, Key!press
<1>12. CASE Key!Wake
  BY <1>12
     DEF Key!TypeOK, Key!Ticks, Key!KeyLogConstants, Key!Wake, Key!board,
         Key!press, Key!local
<1>13. QED
  BY <1>0, <1>1, <1>2, <1>3, <1>4, <1>5, <1>6, <1>7, <1>8, <1>9,
     <1>10, <1>11, <1>12
     DEF Key!Next, Key!Entrance

(* Reads are counted, and the mask is right, through every step. *)
LEMMA ReadsAreCounted ==
  ASSUME Key!KeyLogConstants, Key!TypeOK, StartIsCounted,
         [Key!Next]_(Key!vars)
  PROVE  StartIsCounted'
<1>0. CASE UNCHANGED Key!vars
  BY <1>0
     DEF StartIsCounted, Taking, Key!vars, Key!board, Key!press, Key!local
<1>1. CASE Key!Tick
  BY <1>1
     DEF StartIsCounted, Taking, Key!Tick, Key!Forever, Key!board, Key!press,
         Key!local
<1>2. CASE Key!Press
  BY <1>2
     DEF StartIsCounted, Taking, Key!Press, Key!board, Key!press, Key!local
<1>3. CASE Key!Release
  BY <1>3
     DEF StartIsCounted, Taking, Key!Release, Key!board, Key!press, Key!local
<1>4. CASE Key!KeyIsr
  BY <1>4
     DEF StartIsCounted, Taking, Key!KeyIsr, Key!Accept, Key!board,
         Key!press, Key!local
<1>5. CASE Key!ReadId
  <2>1. /\ pc = "reset" /\ ~ masked /\ ~ enabled /\ reads' = reads + 1
        /\ masked' = (pc' = "halted")
        /\ UNCHANGED <<enabled, accepted>>
    BY <1>5 DEF Key!ReadId, StartIsCounted, Taking, Key!board, Key!press
  <2>2. \/ pc' = "uart"
        \/ pc' = "halted" /\ cnt' = cnt + 1 /\ cnt + 1 >= MaxReads
        \/ pc' = "reset" /\ cnt' = cnt + 1 /\ ~ (cnt + 1 >= MaxReads)
    BY <1>5 DEF Key!ReadId, Key!GivesUp, Key!Sleep
  <2>3. /\ MaxReads \in Nat /\ cnt \in Nat /\ reads = cnt
        /\ cnt < MaxReads
    BY <2>1 DEF Key!KeyLogConstants, Key!TypeOK, StartIsCounted
  <2>4. /\ cnt' = cnt + 1 => reads' = cnt'
        /\ cnt' = cnt + 1 /\ cnt + 1 >= MaxReads => reads' = MaxReads
        /\ cnt' = cnt + 1 /\ ~ (cnt + 1 >= MaxReads) => cnt' < MaxReads
    BY <2>1, <2>3
  <2>5. QED
    BY <2>1, <2>2, <2>4 DEF StartIsCounted, Taking
<1>6. CASE Key!EnableKey
  BY <1>6
     DEF StartIsCounted, Taking, Key!EnableKey, Key!board, Key!press,
         Key!local
<1>7. CASE Key!EnterCritical
  BY <1>7
     DEF StartIsCounted, Taking, Key!EnterCritical, Key!board, Key!press,
         Key!local
<1>8. CASE Key!ReadPending
  BY <1>8
     DEF StartIsCounted, Taking, Key!ReadPending, Key!board, Key!press,
         Key!local
<1>9. CASE Key!ReadStamp
  BY <1>9
     DEF StartIsCounted, Taking, Key!ReadStamp, Key!board, Key!press,
         Key!local
<1>10. CASE Key!ClearPending
  BY <1>10
     DEF StartIsCounted, Taking, Key!ClearPending, Key!board, Key!press,
         Key!local
<1>11. CASE Key!Log
  BY <1>11
     DEF StartIsCounted, Taking, Key!Log, Key!Sleep, Key!board, Key!press,
         Key!local
<1>12. CASE Key!Wake
  BY <1>12
     DEF StartIsCounted, Taking, Key!Wake, Key!board, Key!press, Key!local
<1>13. QED
  BY <1>0, <1>1, <1>2, <1>3, <1>4, <1>5, <1>6, <1>7, <1>8, <1>9,
     <1>10, <1>11, <1>12
     DEF Key!Next, Key!Entrance

(* What is taken over in the critical section is what is there. *)
LEMMA StampsAreTaken ==
  ASSUME Key!KeyLogConstants, StartIsCounted, StampIsTaken,
         [Key!Next]_(Key!vars)
  PROVE  StampIsTaken'
<1>0. CASE UNCHANGED Key!vars
  BY <1>0
     DEF StartIsCounted, Taking, StampIsTaken, Key!vars, Key!board,
         Key!press, Key!local
<1>1. CASE Key!Tick
  BY <1>1
     DEF StartIsCounted, Taking, StampIsTaken, Key!Tick, Key!Forever,
         Key!board, Key!press, Key!local
<1>2. CASE Key!Press
  BY <1>2
     DEF StartIsCounted, Taking, StampIsTaken, Key!Press, Key!board,
         Key!press, Key!local
<1>3. CASE Key!Release
  BY <1>3
     DEF StartIsCounted, Taking, StampIsTaken, Key!Release, Key!board,
         Key!press, Key!local
<1>4. CASE Key!KeyIsr
  BY <1>4
     DEF StartIsCounted, Taking, StampIsTaken, Key!KeyIsr, Key!Accept,
         Key!board, Key!press, Key!local
<1>5. CASE Key!ReadId
  BY <1>5
     DEF StartIsCounted, Taking, StampIsTaken, Key!ReadId, Key!GivesUp,
         Key!Sleep, Key!board, Key!press, Key!local
<1>6. CASE Key!EnableKey
  BY <1>6
     DEF StartIsCounted, Taking, StampIsTaken, Key!EnableKey, Key!board,
         Key!press, Key!local
<1>7. CASE Key!EnterCritical
  BY <1>7
     DEF StartIsCounted, Taking, StampIsTaken, Key!EnterCritical, Key!board,
         Key!press, Key!local
<1>8. CASE Key!ReadPending
  BY <1>8
     DEF StartIsCounted, Taking, StampIsTaken, Key!ReadPending, Key!board,
         Key!press, Key!local
<1>9. CASE Key!ReadStamp
  BY <1>9
     DEF StartIsCounted, Taking, StampIsTaken, Key!ReadStamp, Key!board,
         Key!press, Key!local
<1>10. CASE Key!ClearPending
  BY <1>10
     DEF StartIsCounted, Taking, StampIsTaken, Key!ClearPending, Key!board,
         Key!press, Key!local
<1>11. CASE Key!Log
  BY <1>11
     DEF StartIsCounted, Taking, StampIsTaken, Key!Log, Key!Sleep, Key!board,
         Key!press, Key!local
<1>12. CASE Key!Wake
  BY <1>12
     DEF StartIsCounted, Taking, StampIsTaken, Key!Wake, Key!board,
         Key!press, Key!local
<1>13. QED
  BY <1>0, <1>1, <1>2, <1>3, <1>4, <1>5, <1>6, <1>7, <1>8, <1>9,
     <1>10, <1>11, <1>12
     DEF Key!Next, Key!Entrance

(* The tick count tells the time since the last press, through every step. *)
LEMMA PressesAreTimed ==
  ASSUME Key!KeyLogConstants, Key!TypeOK, StartIsCounted, PressIsTimed,
         [Key!Next]_(Key!vars)
  PROVE  PressIsTimed'
<1>0. CASE UNCHANGED Key!vars
  BY <1>0
     DEF PressIsTimed, Waits, Key!Forever, Key!vars, Key!board, Key!press,
         Key!local
<1>1. CASE Key!Tick
  <2>1. /\ tick' = (tick + 1) % Word /\ lst_key_ts' = lst_key_ts
        /\ accepted' = accepted /\ pc' = pc
        /\ since' = IF since < Key!Forever THEN since + 1 ELSE since
        /\ delay' = IF delay > 0 THEN delay - 1 ELSE 0
    BY <1>1 DEF Key!Tick, Key!press
  <2>2. /\ Waits \in Nat
        /\ Waits' = IF Waits > 0 THEN Waits - 1 ELSE 0
    <3>1. CASE pc = "reset"
      <4>1. Waits = delay /\ Waits' = delay' /\ delay \in Nat
        BY <2>1, <3>1 DEF Waits, Key!TypeOK
      <4>2. QED
        BY <2>1, <4>1
    <3>2. CASE pc # "reset"
      <4>1. Waits = 0 /\ Waits' = 0
        BY <2>1, <3>2 DEF Waits
      <4>2. QED
        BY <4>1
    <3>3. QED
      BY <3>1, <3>2
  <2>3. /\ since \in 0 .. Key!Forever /\ Key!Forever \in Nat
        /\ Key!Forever >= ResetTime /\ ResetTime \in Nat
        /\ lst_key_ts \in Nat /\ Word \in Nat \ {0}
    <3>1. /\ Word \in Nat \ {0} /\ Debounce \in Nat /\ ResetTime \in Nat
          /\ MaxReads \in Nat /\ RetryTime \in Nat
          /\ ResetTime + MaxReads * RetryTime < Word
      BY DEF Key!KeyLogConstants
    <3>2. MaxReads * RetryTime \in Nat
      BY <3>1
    <3>3. ResetTime < Word
      <4> DEFINE u == MaxReads * RetryTime
      <4>1. u \in Nat /\ ResetTime + u < Word
        BY <3>1, <3>2
      <4> HIDE DEF u
      <4>2. QED
        BY <3>1, <4>1
    <3>4. since \in 0 .. Key!Forever /\ lst_key_ts \in 0 .. Word - 1
      BY DEF Key!TypeOK, Key!Ticks
    <3>5. Key!Forever = Word + Debounce
      BY DEF Key!Forever
    <3>6. QED
      BY <3>1, <3>3, <3>4, <3>5
  <2>4. ASSUME since' < Key!Forever
        PROVE  tick' = (lst_key_ts' + since') % Word
    <3>1. since < Key!Forever /\ since' = since + 1 /\ since \in Nat
      BY <2>1, <2>3, <2>4
    <3> DEFINE n == lst_key_ts + since
    <3>2. tick = n % Word
      BY <3>1 DEF PressIsTimed
    <3>3. n \in Nat /\ lst_key_ts + since' = n + 1
      BY <2>3, <3>1
    <3> HIDE DEF n
    <3>4. ((n % Word) + 1) % Word = (n + 1) % Word
      BY <2>3, <3>3, RestCountsOn
    <3>5. QED
      BY <2>1, <3>2, <3>3, <3>4
  <2>5. ASSUME accepted' = <<>> PROVE since' + Waits' >= ResetTime
    <3>1. since + Waits >= ResetTime
      BY <2>1, <2>5 DEF PressIsTimed
    <3>2. QED
      BY <2>1, <2>2, <2>3, <3>1
  <2>6. Key!Forever' = Key!Forever
    BY DEF Key!Forever
  <2>7. QED
    BY <2>4, <2>5, <2>6 DEF PressIsTimed
<1>2. CASE Key!Press
  <2>1. UNCHANGED <<tick, since, lst_key_ts, accepted>>
    BY <1>2 DEF Key!Press, Key!board, Key!press, Key!local
  <2>2. Waits' = Waits
    BY <1>2 DEF Key!Press, Waits
  <2>3. QED
    BY <2>1, <2>2 DEF PressIsTimed
<1>3. CASE Key!Release
  <2>1. UNCHANGED <<tick, since, lst_key_ts, accepted>>
    BY <1>3 DEF Key!Release, Key!board, Key!press, Key!local
  <2>2. Waits' = Waits
    BY <1>3 DEF Key!Release, Waits
  <2>3. QED
    BY <2>1, <2>2 DEF PressIsTimed
<1>4. CASE Key!KeyIsr
  <2>1. tick' = tick /\ pc' = pc /\ delay' = delay
    BY <1>4 DEF Key!KeyIsr, Key!local
  <2>2. Waits' = Waits
    BY <2>1 DEF Waits
  <2>3. CASE UNCHANGED <<Key!press, since>>
    BY <2>1, <2>2, <2>3 DEF Key!press, PressIsTimed
  <2>4. CASE Key!Accept(tick)
    <3>1. /\ lst_key_ts' = tick /\ since' = 0
          /\ accepted' = Append(accepted, tick)
      BY <2>4 DEF Key!Accept
    <3>2. accepted' # <<>>
      <4>1. Len(accepted') = Len(accepted) + 1 /\ Len(accepted) \in Nat
        BY <3>1 DEF Key!TypeOK
      <4>2. QED
        BY <4>1
    <3>3. tick \in 0 .. Word - 1 /\ Word \in Nat
      BY DEF Key!TypeOK, Key!Ticks, Key!KeyLogConstants
    <3>4. tick = (tick + 0) % Word
      BY <3>3
    <3>5. QED
      BY <2>1, <3>1, <3>2, <3>4 DEF PressIsTimed
  <2>5. QED
    BY <1>4, <2>3, <2>4 DEF Key!KeyIsr
<1>5. CASE Key!ReadId
  <2>1. UNCHANGED <<tick, since, lst_key_ts, accepted>>
    BY <1>5 DEF Key!ReadId, Key!press
  <2>2. Waits = 0
    BY <1>5 DEF Key!ReadId, Waits
  <2>3. delay' \in Nat
    BY KeyTypes, <1>5 DEF Key!Next, Key!Entrance, Key!TypeOK
  <2>4. Waits' \in Nat
    BY <2>3 DEF Waits
  <2>5. since \in Nat /\ ResetTime \in Nat
    <3>1. since \in 0 .. Key!Forever /\ Key!Forever \in Nat
      BY DEF Key!TypeOK, Key!Forever, Key!KeyLogConstants
    <3>2. QED
      BY <3>1 DEF Key!KeyLogConstants
  <2>6. ASSUME accepted' = <<>> PROVE since' + Waits' >= ResetTime
    <3>1. since >= ResetTime
      <4>1. since + Waits >= ResetTime
        BY <2>1, <2>6 DEF PressIsTimed
      <4>2. QED
        BY <2>2, <2>5, <4>1
    <3>2. since' = since
      BY <2>1
    <3> DEFINE w == Waits'
    <3>3. w \in Nat
      BY <2>4
    <3> HIDE DEF w
    <3>4. since + w >= ResetTime
      BY <2>5, <3>1, <3>3
    <3>5. QED
      BY <3>2, <3>4 DEF w
  <2>7. Key!Forever' = Key!Forever
    BY DEF Key!Forever
  <2>8. QED
    BY <2>1, <2>6, <2>7 DEF PressIsTimed
<1>6. CASE Key!EnableKey
  <2>1. UNCHANGED <<tick, since, lst_key_ts, accepted>>
    BY <1>6 DEF Key!EnableKey, Key!board, Key!press, Key!local
  <2>2. Waits' = Waits
    BY <1>6 DEF Key!EnableKey, Waits
  <2>3. QED
    BY <2>1, <2>2 DEF PressIsTimed
<1>7. CASE Key!EnterCritical
  <2>1. UNCHANGED <<tick, since, lst_key_ts, accepted>>
    BY <1>7 DEF Key!EnterCritical, Key!board, Key!press, Key!local
  <2>2. Waits' = Waits
    BY <1>7 DEF Key!EnterCritical, Waits
  <2>3. QED
    BY <2>1, <2>2 DEF PressIsTimed
<1>8. CASE Key!ReadPending
  <2>1. UNCHANGED <<tick, since, lst_key_ts, accepted>>
    BY <1>8 DEF Key!ReadPending, Key!board, Key!press, Key!local
  <2>2. Waits' = Waits
    BY <1>8 DEF Key!ReadPending, Waits
  <2>3. QED
    BY <2>1, <2>2 DEF PressIsTimed
<1>9. CASE Key!ReadStamp
  <2>1. UNCHANGED <<tick, since, lst_key_ts, accepted>>
    BY <1>9 DEF Key!ReadStamp, Key!board, Key!press, Key!local
  <2>2. Waits' = Waits
    BY <1>9 DEF Key!ReadStamp, Waits
  <2>3. QED
    BY <2>1, <2>2 DEF PressIsTimed
<1>10. CASE Key!ClearPending
  <2>1. UNCHANGED <<tick, since, lst_key_ts, accepted>>
    BY <1>10 DEF Key!ClearPending, Key!board, Key!press, Key!local
  <2>2. Waits' = Waits
    BY <1>10 DEF Key!ClearPending, Waits
  <2>3. QED
    BY <2>1, <2>2 DEF PressIsTimed
<1>11. CASE Key!Log
  <2>1. UNCHANGED <<tick, since, lst_key_ts, accepted>>
    BY <1>11 DEF Key!Log, Key!board, Key!press, Key!local
  <2>2. Waits' = Waits
    BY <1>11 DEF Key!Log, Waits, Key!Sleep
  <2>3. QED
    BY <2>1, <2>2 DEF PressIsTimed
<1>12. CASE Key!Wake
  <2>1. UNCHANGED <<tick, since, lst_key_ts, accepted>>
    BY <1>12 DEF Key!Wake, Key!board, Key!press, Key!local
  <2>2. Waits' = Waits
    BY <1>12 DEF Key!Wake, Waits
  <2>3. QED
    BY <2>1, <2>2 DEF PressIsTimed
<1>13. QED
  BY <1>0, <1>1, <1>2, <1>3, <1>4, <1>5, <1>6, <1>7, <1>8, <1>9,
     <1>10, <1>11, <1>12
     DEF Key!Next, Key!Entrance

(* What the log and the handler's variables tell stays as they stay. *)
LEMMA HandedStays ==
  ASSUME NEW f, NEW m, Handed(f, m),
         UNCHANGED <<accepted, log, key_log_pending, key_log_ts>>,
         InHand' <=> InHand, InHand => key_ts' = key_ts
  PROVE  Handed(f, m)'
BY Zenon DEF Handed

(* A press that is accepted is the newest one, and waits. *)
LEMMA HandedWhenAccepted ==
  ASSUME Key!TypeOK, NEW f, NEW m, Handed(f, m), Key!Accept(tick),
         UNCHANGED <<log, key_ts>>, InHand' <=> InHand
  PROVE  Handed(f, m)'
<1> DEFINE n == Len(accepted)
<1>1. /\ accepted' = Append(accepted, tick) /\ key_log_pending'
      /\ key_log_ts' = tick /\ log' = log /\ key_ts' = key_ts
  BY DEF Key!Accept
<1>2. /\ n \in Nat /\ Len(accepted') = n + 1 /\ accepted'[n + 1] = tick
      /\ \A i \in 1 .. n : accepted'[i] = accepted[i]
  BY <1>1 DEF Key!TypeOK
<1>3. /\ f \in [1 .. Len(log) -> 1 .. n] /\ m \in 0 .. n
      /\ \A i, j \in 1 .. Len(log) : i < j => f[i] < f[j]
      /\ \A i \in 1 .. Len(log) : log[i] = accepted[f[i]] /\ f[i] <= m
      /\ InHand => /\ m > 0 /\ key_ts = accepted[m]
                   /\ \A i \in 1 .. Len(log) : f[i] < m
      /\ m > 0 /\ ~ InHand => Len(log) > 0 /\ log[Len(log)] = accepted[m]
  BY DEF Handed
<1> HIDE DEF n
<1>4. f \in [1 .. Len(log) -> 1 .. Len(accepted')] /\ m \in 0 .. n + 1
  BY <1>2, <1>3
<1>5. \A i \in 1 .. Len(log) : log[i] = accepted'[f[i]]
  BY <1>2, <1>3
<1>6. m > 0 => accepted'[m] = accepted[m]
  BY <1>2, <1>3
<1>7. m < n + 1
  BY <1>2, <1>3
<1>8. QED
  BY <1>1, <1>2, <1>3, <1>4, <1>5, <1>6, <1>7 DEF Handed

(* A press that is taken over in the critical section is in the task's     *)
(* hands after it.                                                         *)
LEMMA HandedWhenCleared ==
  ASSUME Key!TypeOK, StampIsTaken, NEW f, NEW m, Handed(f, m),
         Key!ClearPending
  PROVE  Handed(f, Len(accepted))'
<1> DEFINE n == Len(accepted)
<1>1. /\ pc = "clear" /\ pc' = "log" /\ ~ key_log_pending'
      /\ log_key = key_log_pending /\ key_ts = key_log_ts
      /\ accepted' = accepted /\ log' = log
      /\ log_key' = log_key /\ key_ts' = key_ts
  BY DEF Key!ClearPending, StampIsTaken, Key!local
<1>2. ~ InHand /\ (InHand' <=> log_key)
  BY <1>1 DEF InHand
<1>3. /\ f \in [1 .. Len(log) -> 1 .. n] /\ m \in 0 .. n /\ n \in Nat
      /\ \A i, j \in 1 .. Len(log) : i < j => f[i] < f[j]
      /\ \A i \in 1 .. Len(log) : log[i] = accepted[f[i]] /\ f[i] <= m
      /\ log_key => m < n /\ key_ts = accepted[n]
      /\ ~ log_key => m = n
      /\ m > 0 => Len(log) > 0 /\ log[Len(log)] = accepted[m]
  BY <1>1, <1>2 DEF Handed, Key!TypeOK
<1> HIDE DEF n
<1>4. \A i \in 1 .. Len(log) : f[i] <= n /\ (log_key => f[i] < n)
  BY <1>3
<1>5. /\ log_key => n > 0
      /\ n > 0 /\ ~ log_key => Len(log) > 0 /\ log[Len(log)] = accepted[n]
  BY <1>3
<1>6. n \in 0 .. n
  BY <1>3
<1>7. Len(accepted) = n
  BY DEF n
<1>8. QED
  BY <1>1, <1>2, <1>3, <1>4, <1>5, <1>6, <1>7, Zenon DEF Handed

(* A press in the task's hands is the next that is logged. *)
LEMMA HandedWhenLogged ==
  ASSUME Key!TypeOK, NEW f, NEW m, Handed(f, m), Key!Log, log_key
  PROVE  \E g : Handed(g, m)'
<1> DEFINE n == Len(log)
           more == [i \in 1 .. n + 1 |-> IF i <= n THEN f[i] ELSE m]
<1>1. /\ log' = Append(log, key_ts) /\ ~ log_key'
      /\ UNCHANGED <<accepted, key_log_pending, key_log_ts>>
  BY DEF Key!Log, Key!press
<1>2. InHand /\ ~ InHand'
  BY <1>1 DEF InHand, Key!Log
<1>3. /\ n \in Nat /\ Len(log') = n + 1 /\ log'[n + 1] = key_ts
      /\ \A i \in 1 .. n : log'[i] = log[i]
  BY <1>1 DEF Key!TypeOK
<1>4. /\ f \in [1 .. n -> 1 .. Len(accepted)] /\ m \in 0 .. Len(accepted)
      /\ \A i, j \in 1 .. n : i < j => f[i] < f[j]
      /\ \A i \in 1 .. n : log[i] = accepted[f[i]] /\ f[i] < m
      /\ m > 0 /\ key_ts = accepted[m]
      /\ key_log_pending =>
           m < Len(accepted) /\ key_log_ts = accepted[Len(accepted)]
      /\ ~ key_log_pending => m = Len(accepted)
  BY <1>2 DEF Handed
<1>5. Len(accepted) \in Nat
  BY DEF Key!TypeOK
<1>6. PICK g : /\ g \in [1 .. n + 1 -> 1 .. Len(accepted)]
               /\ \A i \in 1 .. n : g[i] = f[i]
               /\ g[n + 1] = m
  <2>1. more \in [1 .. n + 1 -> 1 .. Len(accepted)]
    BY <1>3, <1>4, <1>5
  <2>2. (\A i \in 1 .. n : more[i] = f[i]) /\ more[n + 1] = m
    BY <1>3
  <2>3. QED
    BY <2>1, <2>2
<1>7. g \in [1 .. n + 1 -> 1 .. Len(accepted)]
  BY <1>6
<1> HIDE DEF n
<1>8. \A i \in 1 .. n + 1 : i \in 1 .. n \/ i = n + 1
  BY <1>3
<1>9. \A i, j \in 1 .. n + 1 : i < j => g[i] < g[j]
  <2> SUFFICES ASSUME NEW i \in 1 .. n + 1, NEW j \in 1 .. n + 1, i < j
               PROVE  g[i] < g[j]
    OBVIOUS
  <2>1. i \in 1 .. n
    BY <1>3
  <2>2. CASE j \in 1 .. n
    BY <1>4, <1>6, <2>1, <2>2
  <2>3. CASE j = n + 1
    BY <1>4, <1>6, <2>1, <2>3
  <2>4. QED
    BY <1>8, <2>2, <2>3
<1>10. \A i \in 1 .. n + 1 : log'[i] = accepted[g[i]] /\ g[i] <= m
  <2> SUFFICES ASSUME NEW i \in 1 .. n + 1
               PROVE  log'[i] = accepted[g[i]] /\ g[i] <= m
    OBVIOUS
  <2>1. CASE i \in 1 .. n
    <3>1. f[i] \in 1 .. Len(accepted) /\ f[i] < m /\ m \in Nat
      BY <1>4, <1>5, <2>1
    <3>2. f[i] <= m
      BY <1>5, <3>1
    <3>3. QED
      BY <1>3, <1>4, <1>6, <2>1, <3>2
  <2>2. CASE i = n + 1
    BY <1>3, <1>4, <1>6, <2>2
  <2>3. QED
    BY <1>8, <2>1, <2>2
<1>11. n + 1 > 0 /\ log'[Len(log')] = accepted[m]
  BY <1>3, <1>4
<1>12. Handed(g, m)'
  <2>1. Len(log') = n + 1
    BY <1>3
  <2>2. /\ g \in [1 .. Len(log') -> 1 .. Len(accepted')]
        /\ m \in 0 .. Len(accepted')
        /\ \A i, j \in 1 .. Len(log') : i < j => g[i] < g[j]
        /\ \A i \in 1 .. Len(log') : log'[i] = accepted'[g[i]] /\ g[i] <= m
    BY <1>1, <1>4, <1>7, <1>9, <1>10, <2>1, Zenon
  <2>3. /\ key_log_pending' =>
             m < Len(accepted') /\ key_log_ts' = accepted'[Len(accepted')]
        /\ ~ key_log_pending' => m = Len(accepted')
    BY <1>1, <1>4
  <2>4. Len(log') > 0 /\ log'[Len(log')] = accepted'[m]
    BY <1>1, <1>11, <2>1
  <2>5. QED
    BY <1>2, <2>2, <2>3, <2>4, Zenon DEF Handed
<1>13. QED
  BY <1>12

(* Every step hands the presses on in their order. *)
LEMMA PressesAreHanded ==
  ASSUME Key!TypeOK, StampIsTaken, NEW f, NEW m, Handed(f, m),
         [Key!Next]_(Key!vars)
  PROVE  \E g, k : Handed(g, k)'
<1>1. ASSUME UNCHANGED <<accepted, log, key_log_pending, key_log_ts>>,
             InHand' <=> InHand, InHand => key_ts' = key_ts
      PROVE  \E g, k : Handed(g, k)'
  <2>1. Handed(f, m)'
    BY <1>1, HandedStays
  <2>2. QED
    BY <2>1
<1>2. CASE \/ UNCHANGED Key!vars
           \/ Key!Tick \/ Key!Press \/ Key!Release \/ Key!ReadId
           \/ Key!EnableKey \/ Key!EnterCritical \/ Key!ReadPending
           \/ Key!ReadStamp \/ Key!Wake
  <2>1. UNCHANGED <<accepted, log, key_log_pending, key_log_ts>>
    BY <1>2
       DEF Key!vars, Key!Tick, Key!Press, Key!Release, Key!ReadId,
           Key!EnableKey, Key!EnterCritical, Key!ReadPending, Key!ReadStamp,
           Key!Wake, Key!press, Key!local
  <2>2. (InHand' <=> InHand) /\ (InHand => key_ts' = key_ts)
    BY <1>2
       DEF InHand, Key!vars, Key!Tick, Key!Press, Key!Release, Key!ReadId,
           Key!Sleep, Key!EnableKey, Key!EnterCritical, Key!ReadPending,
           Key!ReadStamp, Key!Wake, Key!press, Key!local
  <2>3. QED
    BY <1>1, <2>1, <2>2
<1>3. CASE Key!KeyIsr
  <2>1. UNCHANGED <<log, key_ts, log_key, pc>>
    BY <1>3 DEF Key!KeyIsr, Key!local
  <2>2. InHand' <=> InHand
    BY <2>1 DEF InHand
  <2>3. CASE UNCHANGED <<Key!press, since>>
    BY <1>1, <2>1, <2>2, <2>3 DEF Key!press
  <2>4. CASE Key!Accept(tick)
    <3>1. Handed(f, m)'
      BY <2>1, <2>2, <2>4, HandedWhenAccepted
    <3>2. QED
      BY <3>1
  <2>5. QED
    BY <1>3, <2>3, <2>4 DEF Key!KeyIsr
<1>4. CASE Key!ClearPending
  <2> DEFINE n == Len(accepted)
  <2>1. n' = n
    BY <1>4 DEF Key!ClearPending
  <2>2. Handed(f, n)'
    BY <1>4, HandedWhenCleared
  <2>3. \E k : Handed(f, k)'
    <3> HIDE DEF n
    <3>1. QED
      BY <2>1, <2>2
  <2>4. QED
    BY <2>3
<1>5. CASE Key!Log
  <2>1. CASE log_key
    BY <1>5, <2>1, HandedWhenLogged
  <2>2. CASE ~ log_key
    <3>1. UNCHANGED <<accepted, log, key_log_pending, key_log_ts>>
      BY <1>5, <2>2 DEF Key!Log, Key!press
    <3>2. ~ InHand /\ ~ InHand'
      BY <1>5, <2>2 DEF Key!Log, InHand
    <3>3. QED
      BY <1>1, <3>1, <3>2
  <2>3. QED
    BY <2>1, <2>2
<1>6. QED
  BY <1>2, <1>3, <1>4, <1>5 DEF Key!Next, Key!Entrance

(* The program starts with nothing accepted and nothing logged. *)
LEMMA KeyInvAtStart ==
  ASSUME Key!KeyLogConstants, Key!Init
  PROVE  KeyInv
<1> USE DEF Key!Init
<1>1. /\ Word \in Nat \ {0} /\ Debounce \in Nat /\ MaxReads \in Nat \ {0}
      /\ ResetTime \in Nat
  BY DEF Key!KeyLogConstants
<1>2. 0 \in Key!Ticks /\ 0 \in 0 .. Key!Forever /\ 0 \in 0 .. MaxReads
  BY <1>1 DEF Key!Ticks, Key!Forever
<1>3. Key!TypeOK
  <2>1. accepted \in Seq(Key!Ticks) /\ log \in Seq(Key!Ticks)
    OBVIOUS
  <2>2. /\ tick \in Key!Ticks /\ lst_key_ts \in Key!Ticks
        /\ key_log_ts \in Key!Ticks /\ key_ts \in Key!Ticks
        /\ since \in 0 .. Key!Forever
    BY <1>2
  <2>3. cnt \in 0 .. MaxReads /\ reads \in 0 .. MaxReads /\ delay \in Nat
    BY <1>1, <1>2
  <2>4. /\ key \in {"up", "down"} /\ {edge, enabled, masked} \subseteq BOOLEAN
        /\ key_log_pending \in BOOLEAN /\ log_key \in BOOLEAN
        /\ pc = "reset"
    OBVIOUS
  <2>5. QED
    BY <2>1, <2>2, <2>3, <2>4 DEF Key!TypeOK
<1>4. StartIsCounted
  BY <1>1 DEF StartIsCounted, Taking
<1>5. StampIsTaken
  BY DEF StampIsTaken
<1>6. PressIsTimed
  <2>1. (0 + 0) % Word = 0 /\ 0 + ResetTime >= ResetTime
    BY <1>1
  <2>2. tick = (lst_key_ts + since) % Word
    BY <2>1
  <2>3. Waits = ResetTime
    BY DEF Waits
  <2>4. QED
    BY <2>1, <2>2, <2>3 DEF PressIsTimed
<1>7. Handed([i \in 1 .. 0 |-> 0], 0)
  BY DEF Handed, InHand
<1>8. QED
  BY <1>3, <1>4, <1>5, <1>6, <1>7 DEF KeyInv

(* The invariant is inductive. *)
LEMMA KeyStep ==
  ASSUME Key!KeyLogConstants, KeyInv, [Key!Next]_(Key!vars)
  PROVE  KeyInv'
<1>1. Key!TypeOK /\ StartIsCounted /\ StampIsTaken /\ PressIsTimed
  BY DEF KeyInv
<1>2. PICK f, m : Handed(f, m)
  BY DEF KeyInv
<1>3. \E g, k : Handed(g, k)'
  BY <1>1, <1>2, PressesAreHanded
<1>4. Key!TypeOK' /\ StartIsCounted'
  BY <1>1, KeyTypes, ReadsAreCounted
<1>5. StampIsTaken' /\ PressIsTimed'
  BY <1>1, StampsAreTaken, PressesAreTimed
<1>6. QED
  BY <1>3, <1>4, <1>5 DEF KeyInv

(* What the invariant says of the log. *)
LEMMA KeyInvTells ==
  ASSUME KeyInv
  PROVE  /\ Key!TypeOK /\ Key!HaltsAfterAllReads
         /\ Key!LogFollowsPresses /\ Key!NewestIsKept
<1>1. Key!TypeOK /\ StartIsCounted
  BY DEF KeyInv
<1>2. PICK f, m : Handed(f, m)
  BY DEF KeyInv
<1>3. Key!HaltsAfterAllReads
  BY <1>1 DEF StartIsCounted, Key!HaltsAfterAllReads
<1>4. DOMAIN log = 1 .. Len(log) /\ DOMAIN accepted = 1 .. Len(accepted)
  BY <1>1 DEF Key!TypeOK
<1>5. Key!LogFollowsPresses
  BY <1>2, <1>4 DEF Handed, Key!LogFollowsPresses
<1>6. Key!NewestIsKept
  <2> SUFFICES ASSUME accepted # <<>>, ~ key_log_pending
               PROVE  \/ log # <<>> /\ log[Len(log)] = accepted[Len(accepted)]
                      \/ /\ log_key /\ pc = "log"
                         /\ key_ts = accepted[Len(accepted)]
    BY <1>2 DEF Handed, Key!NewestIsKept, Key!Last
  <2>1. m = Len(accepted) /\ m > 0
    <3>1. Len(accepted) > 0
      BY <1>1 DEF Key!TypeOK
    <3>2. QED
      BY <1>2, <3>1 DEF Handed
  <2>2. CASE InHand
    BY <1>2, <2>1, <2>2 DEF Handed, InHand
  <2>3. CASE ~ InHand
    <3>1. Len(log) > 0 /\ log[Len(log)] = accepted[m]
      BY <1>2, <2>1, <2>3 DEF Handed
    <3>2. log # <<>>
      BY <3>1
    <3>3. QED
      BY <2>1, <3>1, <3>2
  <2>4. QED
    BY <2>2, <2>3
<1>7. QED
  BY <1>1, <1>3, <1>5, <1>6

(* Within one turn of the tick count, the handler's difference of stamps   *)
(* is the time since the last press.                                       *)
LEMMA StampsTellTime ==
  ASSUME Key!KeyLogConstants, Key!TypeOK, PressIsTimed, since < Word
  PROVE  (tick - lst_key_ts) % Word = since
<1>1. /\ Word \in Nat \ {0} /\ lst_key_ts \in 0 .. Word - 1
      /\ since \in 0 .. Word - 1 /\ since < Key!Forever
  <2>1. Word \in Nat \ {0} /\ Debounce \in Nat
    BY DEF Key!KeyLogConstants
  <2>2. lst_key_ts \in 0 .. Word - 1 /\ since \in 0 .. Word + Debounce
    BY DEF Key!TypeOK, Key!Ticks, Key!Forever
  <2>3. QED
    BY <2>1, <2>2 DEF Key!Forever
<1>2. tick = (lst_key_ts + since) % Word
  BY <1>1 DEF PressIsTimed
<1> DEFINE n == lst_key_ts + since
           d == tick - lst_key_ts
<1>3. n \in Int /\ -Word <= n /\ n < 2 * Word /\ ~ (n < 0)
  BY <1>1
<1>4. n = lst_key_ts + since /\ tick = n % Word
  BY <1>2
<1> HIDE DEF n
<1>5. tick = IF n < Word THEN n ELSE n - Word
  BY <1>1, <1>3, <1>4, WrapsOnce
<1>6. d = IF n < Word THEN since ELSE since - Word
  BY <1>1, <1>3, <1>4, <1>5
<1> HIDE DEF d
<1>7. d \in Int /\ -Word <= d /\ d < 2 * Word
  BY <1>1, <1>6
<1>8. d % Word = IF d < 0 THEN d + Word ELSE IF d < Word THEN d ELSE d - Word
  BY <1>1, <1>7, WrapsOnce
<1>9. d % Word = since
  BY <1>1, <1>6, <1>8
<1>10. QED
  BY <1>9 DEF d

(* Only the handler accepts a press, and it accepts the tick it runs at. *)
LEMMA OnlyIsrAccepts ==
  ASSUME Key!TypeOK, [Key!Next]_(Key!vars), Key!Accepts
  PROVE  Key!KeyIsr /\ Key!FarEnough(tick)
<1>1. accepted' # accepted
  BY DEF Key!Accepts, Key!TypeOK
<1>2. Key!KeyIsr
  BY <1>1
     DEF Key!Next, Key!Entrance, Key!vars, Key!press, Key!Tick, Key!Press,
         Key!Release, Key!ReadId, Key!EnableKey, Key!EnterCritical,
         Key!ReadPending, Key!ReadStamp, Key!ClearPending, Key!Log, Key!Wake
<1>3. QED
  BY <1>1, <1>2 DEF Key!KeyIsr, Key!press

(* A press is accepted if and only if the last one, or the start, is       *)
(* longer ago than Debounce.                                               *)
LEMMA AcceptsWhenApart ==
  ASSUME Key!KeyLogConstants, KeyInv, [Key!Next]_(Key!vars)
  PROVE  /\ Key!Accepts => accepted = <<>> \/ since > Debounce
         /\ /\ edge /\ ~ edge' /\ key = "down"
            /\ accepted = <<>> \/ since > Debounce
            /\ since < Word
            => Key!Accepts
<1>1. Key!TypeOK /\ StartIsCounted /\ PressIsTimed
  BY DEF KeyInv
<1>2. /\ Word \in Nat /\ Debounce \in Nat /\ ResetTime \in Nat
      /\ Debounce < Word /\ Debounce < ResetTime /\ since \in Nat
  <2>1. since \in 0 .. Key!Forever /\ Key!Forever \in Nat
    BY <1>1 DEF Key!TypeOK, Key!Forever, Key!KeyLogConstants
  <2>2. QED
    BY <2>1 DEF Key!KeyLogConstants
<1>3. since < Word => (Key!FarEnough(tick) <=> since > Debounce)
  BY <1>1, StampsTellTime DEF Key!FarEnough
<1>4. ASSUME Key!Accepts PROVE since > Debounce
  <2>1. Key!FarEnough(tick)
    BY <1>1, <1>4, OnlyIsrAccepts
  <2>2. QED
    BY <1>2, <1>3, <2>1
<1>5. ASSUME edge, ~ edge', key = "down", since < Word,
             accepted = <<>> \/ since > Debounce
      PROVE  Key!Accepts
  <2>1. Key!KeyIsr
    BY <1>5
       DEF Key!Next, Key!Entrance, Key!vars, Key!board, Key!Tick, Key!Press,
           Key!Release, Key!ReadId, Key!EnableKey, Key!EnterCritical,
           Key!ReadPending, Key!ReadStamp, Key!ClearPending, Key!Log,
           Key!Wake
  <2>2. since > Debounce
    <3>1. CASE accepted = <<>>
      <4>1. pc # "reset"
        BY <1>1, <2>1 DEF Key!KeyIsr, StartIsCounted
      <4>2. since + 0 >= ResetTime
        BY <1>1, <3>1, <4>1 DEF PressIsTimed, Waits
      <4>3. QED
        BY <1>2, <4>2
    <3>2. QED
      BY <1>5, <3>1
  <2>3. Key!FarEnough(tick)
    BY <1>3, <1>5, <2>2
  <2>4. accepted' = Append(accepted, tick)
    BY <1>5, <2>1, <2>3 DEF Key!KeyIsr, Key!Accept
  <2>5. QED
    BY <1>1, <2>4 DEF Key!Accepts, Key!TypeOK
<1>6. QED
  BY <1>4, <1>5

(* The application's safety, whatever the scheduling: main.cc's handler    *)
(* and task keep what they promise, for every tick range, debounce time    *)
(* and number of presses.                                                  *)
THEOREM KeyLogInvariant ==
  ASSUME Key!KeyLogConstants
  PROVE  Key!Init /\ [][Key!Next]_(Key!vars) =>
           /\ [](KeyInv /\ Key!TypeOK /\ Key!HaltsAfterAllReads
                   /\ Key!LogFollowsPresses /\ Key!NewestIsKept)
           /\ Key!PressesAreApart /\ Key!PressesAreAccepted
<1> DEFINE Spaced == Key!Accepts => accepted = <<>> \/ since > Debounce
           Taken == /\ edge /\ ~ edge' /\ key = "down"
                    /\ accepted = <<>> \/ since > Debounce
                    /\ since < Word
                    => Key!Accepts
<1>1. Key!Init => KeyInv
  BY KeyInvAtStart
<1>2. KeyInv /\ [Key!Next]_(Key!vars) => KeyInv'
  BY KeyStep
<1>3. KeyInv => /\ Key!TypeOK /\ Key!HaltsAfterAllReads
                /\ Key!LogFollowsPresses /\ Key!NewestIsKept
  BY KeyInvTells
<1>4. KeyInv /\ [Key!Next]_(Key!vars) =>
        [Spaced]_(Key!vars) /\ [Taken]_(Key!vars)
  BY AcceptsWhenApart
<1>5. QED
  BY <1>1, <1>2, <1>3, <1>4, PTL
     DEF Key!PressesAreApart, Key!PressesAreAccepted

-----------------------------------------------------------------------------
(* The text renderer. *)

(* Where bsp_lcd_print draws the next character with its cursor at c. *)
WrapOf(c) == IF c.x + Text!char_width > Width THEN Text!NextLine(c) ELSE c

(* The column character n is in, and its place in the layout. *)
Column(n) == (n - Text!Begin(n)) % Text!PerLine
Place(n) == [x |-> x + Column(n) * Text!char_width,
             y |-> y + Text!LineOf(n) * Text!char_height]

(* The cursors do not run past uint16_t: in no line of the text, and if    *)
(* the display is too narrow, not by the one character beyond its edge.    *)
TextIsShort ==
  /\ x + Text!char_width < CursorWord
  /\ y + (Len(text) - 1) * Text!char_height < CursorWord

(* With the cursor at c, character n goes to its place. *)
CursorIsSet(n, c) ==
  /\ text[n] = "char" => WrapOf(c) = Place(n)
  /\ text[n] = "newline" => c.y = y + Text!LineOf(n) * Text!char_height

(* The characters before k that the display has room for, no others, are   *)
(* drawn, each at its place, and in their order.                           *)
DrawnTo(k) ==
  /\ \A i \in 1 .. Len(cells) :
       LET m == cells[i].char IN
       /\ m < k /\ m \in Text!Shown
       /\ cells[i].x = Place(m).x /\ cells[i].y = Place(m).y
  /\ \A m \in Text!Shown :
       m < k => \E i \in 1 .. Len(cells) : cells[i].char = m
  /\ \A i, j \in 1 .. Len(cells) : i < j => cells[i].char < cells[j].char

(* Nothing is drawn on a display that is too narrow for one character. *)
TextInv ==
  /\ Text!TypeOK
  /\ next # 0 => scale > 0
  /\ TextIsShort =>
       /\ DrawnTo(IF next = 0 THEN Len(text) + 1 ELSE next)
       /\ next \in 1 .. Len(text) /\ Text!PerLine > 0 =>
            CursorIsSet(next, cursor)
       /\ next # 0 /\ Text!PerLine = 0 =>
            cursor.x \in {x, x + Text!char_width}

(* Multiplying keeps the order. *)
LEMMA TimesGrows ==
  ASSUME NEW a \in Nat, NEW b \in Nat, NEW w \in Nat, a <= b
  PROVE  a * w \in Nat /\ b * w \in Nat /\ a * w <= b * w
<1> DEFINE c == b - a
<1>1. c \in Nat /\ b = a + c
  OBVIOUS
<1> HIDE DEF c
<1>2. a * w \in Nat /\ c * w \in Nat
  BY <1>1
<1>3. (a + c) * w = a * w + c * w
  BY <1>1
<1> DEFINE u == a * w
           v == c * w
           t == b * w
<1>4. u \in Nat /\ v \in Nat /\ t = u + v
  BY <1>1, <1>2, <1>3
<1> HIDE DEF u, v, t
<1>5. u \in Nat /\ t \in Nat /\ u <= t
  BY <1>4
<1>6. QED
  BY <1>5 DEF u, t

(* A number's quotient and rest. *)
LEMMA QuotientAndRest ==
  ASSUME NEW w \in Nat \ {0}, NEW a \in Nat
  PROVE  /\ a \div w \in Nat /\ a % w \in 0 .. w - 1
         /\ a = (a \div w) * w + (a % w)
OBVIOUS

(* What goes into a number wholly. *)
LEMMA GoesInto ==
  ASSUME NEW w \in Nat \ {0}, NEW a \in Nat, NEW c \in Nat
  PROVE  c * w <= a <=> c <= a \div w
<1> DEFINE q == a \div w
           r == a % w
           u == q * w
           v == c * w
<1>1. q \in Nat /\ r \in 0 .. w - 1 /\ a = u + r
  BY QuotientAndRest
<1> HIDE DEF q, r
<1>2. u \in Nat /\ v \in Nat
  BY <1>1
<1>3. CASE c <= q
  <2>1. v <= u
    BY <1>1, <1>3, TimesGrows
  <2> HIDE DEF u, v
  <2>2. v <= a /\ c <= q
    BY <1>1, <1>2, <1>3, <2>1
  <2>3. QED
    BY <2>2 DEF q, v
<1>4. CASE q < c
  <2>1. q + 1 \in Nat /\ q + 1 <= c
    BY <1>1, <1>4
  <2>2. (q + 1) * w <= v
    <3> DEFINE p == q + 1
    <3>1. p \in Nat /\ p <= c
      BY <2>1
    <3> HIDE DEF p
    <3>2. p * w <= v
      BY <3>1, TimesGrows
    <3>3. QED
      BY <3>2 DEF p
  <2>3. (q + 1) * w = u + w
    BY <1>1
  <2> HIDE DEF u, v
  <2>4. ~ (v <= a) /\ ~ (c <= q)
    BY <1>1, <1>2, <1>4, <2>2, <2>3
  <2>5. QED
    BY <2>4 DEF q, v
<1>5. QED
  BY <1>1, <1>3, <1>4

(* Counting on by j within a multiple, or just to its end. *)
LEMMA RestMoves ==
  ASSUME NEW w \in Nat \ {0}, NEW k \in Nat, NEW j \in Nat
  PROVE  /\ (k % w) + j < w => (k + j) % w = (k % w) + j
         /\ (k % w) + j = w => (k + j) % w = 0
<1> DEFINE q == k \div w
           r == k % w
           u == q * w
           n == k + j
<1>1. q \in Nat /\ r \in 0 .. w - 1 /\ k = u + r
  BY QuotientAndRest
<1>2. n = k + j
  OBVIOUS
<1> HIDE DEF q, r, n
<1>3. u \in Nat
  BY <1>1
<1>4. ASSUME r + j < w PROVE n % w = r + j
  <2> DEFINE s == r + j
  <2>1. s \in 0 .. w - 1
    BY <1>1, <1>4
  <2>2. n = q * w + s
    <3>1. n = u + s
      <4> HIDE DEF u
      <4>1. QED
        BY <1>1, <1>2, <1>3
    <3>2. QED
      BY <3>1
  <2> HIDE DEF s
  <2>3. n % w = s
    BY <1>1, <2>1, <2>2, RestIsUnique
  <2>4. QED
    BY <2>3 DEF s
<1>5. ASSUME r + j = w PROVE n % w = 0
  <2> DEFINE p == q + 1
  <2>1. p * w = u + w /\ p \in Nat
    BY <1>1
  <2> HIDE DEF p
  <2>2. n = p * w + 0
    <3> DEFINE t == p * w
    <3>1. t = u + w
      BY <2>1
    <3> HIDE DEF t, u
    <3>2. n = t + 0
      BY <1>1, <1>2, <1>3, <1>5, <3>1
    <3>3. QED
      BY <3>2 DEF t
  <2>3. 0 \in 0 .. w - 1
    OBVIOUS
  <2>4. QED
    BY <2>1, <2>2, <2>3, RestIsUnique
<1>6. QED
  BY <1>4, <1>5 DEF n, r

(* A set of numbers up to b has a greatest member, and Max is it. *)
LEMMA MaxOfNats ==
  ASSUME NEW b \in Nat, NEW T \in SUBSET (0 .. b), T # {}
  PROVE  Text!Max(T) \in T /\ \A m \in T : m <= Text!Max(T)
<1> DEFINE S == {b - m : m \in T}
<1>1. S \in SUBSET Nat /\ S # {}
  <2>1. \A m \in T : b - m \in Nat
    OBVIOUS
  <2>2. S \in SUBSET Nat
    BY <2>1
  <2>3. PICK m : m \in T
    OBVIOUS
  <2>4. b - m \in S
    BY <2>3
  <2>5. QED
    BY <2>2, <2>4
<1>2. PICK n \in S : \A m \in S : n <= m
  BY <1>1, NatMin
<1>3. PICK t \in T : n = b - t
  BY <1>2
<1>4. \A m \in T : m <= t
  <2> TAKE m \in T
  <2>1. b - m \in S
    OBVIOUS
  <2>2. b - t <= b - m
    BY <1>2, <1>3, <2>1
  <2>3. QED
    BY <2>2
<1>5. QED
  BY <1>3, <1>4 DEF Text!Max

(* The sizes of a character, and how many of them a line holds. *)
LEMMA LineHolds ==
  ASSUME Text!LcdTextConstants, Text!TypeOK
  PROVE  /\ Text!char_width \in Nat /\ Text!char_height \in Nat
         /\ scale > 0 => Text!char_width > 0 /\ Text!char_height > 0
         /\ x \in Nat /\ y \in Nat /\ Width \in Nat /\ Height \in Nat
         /\ Text!PerLine \in Nat
         /\ Text!PerLine > 0 =>
              /\ scale > 0
              /\ \A c \in Nat :
                   x + c * Text!char_width <= Width <=> c <= Text!PerLine
         /\ Text!PerLine = 0 /\ scale > 0 => x + Text!char_width > Width
<1> DEFINE w == Text!char_width
           P == Text!PerLine
<1>1. /\ x \in 0 .. CursorWord - 1 /\ y \in 0 .. CursorWord - 1
      /\ CursorWord \in Nat /\ scale \in Nat
      /\ Width \in Nat \ {0} /\ Height \in Nat \ {0}
      /\ CellWidth \in Nat \ {0} /\ CellHeight \in Nat \ {0}
  BY DEF Text!TypeOK, Text!Points, Text!LcdTextConstants
<1>2. /\ w \in Nat /\ Text!char_height \in Nat
      /\ scale > 0 => w > 0 /\ Text!char_height > 0
  BY <1>1 DEF Text!char_width, Text!char_height
<1>3. P = IF scale > 0 /\ x + w <= Width THEN (Width - x) \div w ELSE 0
  BY DEF Text!PerLine
<1> HIDE DEF w, P
<1>4. ASSUME scale > 0, x + w <= Width
      PROVE  /\ P \in Nat /\ P > 0
             /\ \A c \in Nat : x + c * w <= Width <=> c <= P
  <2> DEFINE a == Width - x
  <2>1. a \in Nat /\ w \in Nat \ {0} /\ P = a \div w /\ w <= a
    BY <1>1, <1>2, <1>3, <1>4
  <2>2. Width = x + a
    BY <1>1
  <2> HIDE DEF a
  <2>3. P \in Nat
    BY <2>1, QuotientAndRest
  <2>4. \A c \in Nat : c * w <= a <=> c <= P
    BY <2>1, GoesInto
  <2>5. \A c \in Nat : x + c * w <= Width <=> c <= P
    <3> TAKE c \in Nat
    <3> DEFINE u == c * w
    <3>1. u \in Nat /\ (u <= a <=> c <= P)
      BY <2>1, <2>4
    <3> HIDE DEF u
    <3>2. x + u <= Width <=> c <= P
      BY <1>1, <2>1, <2>2, <3>1
    <3>3. QED
      BY <3>2 DEF u
  <2>6. 1 <= P
    <3>1. 1 * w <= a
      BY <2>1
    <3>2. QED
      BY <2>4, <3>1
  <2>7. QED
    BY <2>3, <2>5, <2>6
<1>5. CASE scale > 0 /\ x + w <= Width
  BY <1>1, <1>2, <1>4, <1>5 DEF w, P
<1>6. CASE ~ (scale > 0 /\ x + w <= Width)
  <2>1. P = 0
    BY <1>3, <1>6
  <2>2. scale > 0 => x + w > Width
    BY <1>1, <1>2, <1>6
  <2>3. QED
    BY <1>1, <1>2, <2>1, <2>2 DEF w, P
<1>7. QED
  BY <1>5, <1>6

(* Where the paragraph of character n begins: no newline lies between, and *)
(* one before it.                                                          *)
LEMMA BeginFacts ==
  ASSUME Text!TypeOK, NEW n \in Nat \ {0}
  PROVE  LET b == Text!Begin(n) IN
         /\ b \in 1 .. n
         /\ \A m \in b .. n - 1 : text[m] # "newline"
         /\ b > 1 => text[b - 1] = "newline"
<1> DEFINE T == Text!Breaks(n)
           b == Text!Begin(n)
<1>1. T = {m \in 1 .. n - 1 : text[m] = "newline"}
  BY DEF Text!Breaks
<1>2. b = 1 + (IF T = {} THEN 0 ELSE Text!Max(T))
  BY DEF Text!Begin
<1> HIDE DEF b, T
<1>3. CASE T = {}
  <2>1. b = 1
    BY <1>2, <1>3
  <2>2. \A m \in 1 .. n - 1 : text[m] # "newline"
    BY <1>1, <1>3
  <2>3. QED
    BY <2>1, <2>2 DEF b
<1>4. CASE T # {}
  <2> DEFINE t == Text!Max(T)
  <2>1. T \in SUBSET (0 .. n) /\ n \in Nat
    BY <1>1
  <2>2. t \in T /\ \A m \in T : m <= t
    BY <1>4, <2>1, MaxOfNats
  <2>3. b = 1 + t
    BY <1>2, <1>4
  <2> HIDE DEF t
  <2>4. t \in 1 .. n - 1 /\ text[t] = "newline"
    BY <1>1, <2>2
  <2>5. b \in 1 .. n /\ b - 1 = t
    BY <2>3, <2>4
  <2>6. ASSUME NEW m \in b .. n - 1 PROVE text[m] # "newline"
    <3>1. m \in 1 .. n - 1 /\ ~ (m <= t)
      BY <2>3, <2>4, <2>6
    <3>2. m \notin T
      BY <2>2, <3>1
    <3>3. QED
      BY <1>1, <3>1, <3>2
  <2>7. QED
    BY <2>4, <2>5, <2>6 DEF b
<1>5. QED
  BY <1>3, <1>4

(* ... and that is the only such place. *)
LEMMA BeginIs ==
  ASSUME Text!TypeOK, NEW n \in Nat \ {0}, NEW b \in 1 .. n,
         \A m \in b .. n - 1 : text[m] # "newline",
         b > 1 => text[b - 1] = "newline"
  PROVE  Text!Begin(n) = b
<1> DEFINE c == Text!Begin(n)
<1>1. /\ c \in 1 .. n
      /\ \A m \in c .. n - 1 : text[m] # "newline"
      /\ c > 1 => text[c - 1] = "newline"
  BY BeginFacts
<1> HIDE DEF c
<1>2. ASSUME b < c PROVE FALSE
  <2>1. c - 1 \in b .. n - 1 /\ c > 1
    BY <1>1, <1>2
  <2>2. QED
    BY <1>1, <2>1
<1>3. ASSUME c < b PROVE FALSE
  <2>1. b - 1 \in c .. n - 1 /\ b > 1
    BY <1>1, <1>3
  <2>2. QED
    BY <1>1, <2>1
<1>4. c = b
  BY <1>1, <1>2, <1>3
<1>5. QED
  BY <1>4 DEF c

(* Without a newline from m to n, both are in one paragraph. *)
LEMMA SameParagraph ==
  ASSUME Text!TypeOK, NEW m \in Nat \ {0}, NEW n \in Nat, m <= n,
         \A k \in m .. n - 1 : text[k] # "newline"
  PROVE  Text!Begin(n) = Text!Begin(m) /\ Text!Begin(m) \in 1 .. m
<1> DEFINE b == Text!Begin(m)
<1>1. /\ b \in 1 .. m
      /\ \A k \in b .. m - 1 : text[k] # "newline"
      /\ b > 1 => text[b - 1] = "newline"
  BY BeginFacts
<1> HIDE DEF b
<1>2. b \in 1 .. n /\ n \in Nat \ {0}
  BY <1>1
<1>3. \A k \in b .. n - 1 : text[k] # "newline"
  BY <1>1
<1>4. Text!Begin(n) = b
  BY <1>1, <1>2, <1>3, BeginIs
<1>5. QED
  BY <1>1, <1>4 DEF b

(* The layout counts as everybody does. *)
LEMMA TextCount ==
  ASSUME NEW S
  PROVE  Text!Cardinality(S) = Cardinality(S)
BY DEF Text!Cardinality, Cardinality

(* The lines that begin up to character n. *)
BegunTo(n) == {m \in 2 .. n : Text!BeginsLine(m)}

LEMMA BegunIsFinite ==
  ASSUME NEW n \in Nat
  PROVE  /\ IsFiniteSet(BegunTo(n)) /\ Text!LineOf(n) = Cardinality(BegunTo(n))
         /\ Text!LineOf(n) \in Nat
         /\ n > 0 => Text!LineOf(n) <= n - 1
<1>1. IsFiniteSet(2 .. n) /\ BegunTo(n) \subseteq 2 .. n
  BY FS_Interval DEF BegunTo
<1>2. /\ IsFiniteSet(BegunTo(n))
      /\ Cardinality(BegunTo(n)) <= Cardinality(2 .. n)
  BY <1>1, FS_Subset
<1>3. Cardinality(2 .. n) = IF 2 > n THEN 0 ELSE n - 2 + 1
  BY FS_Interval
<1>4. Cardinality(BegunTo(n)) \in Nat
  BY <1>2, FS_CardinalityType
<1>5. Text!LineOf(n) = Cardinality(BegunTo(n))
  BY TextCount DEF Text!LineOf, BegunTo
<1>6. n > 0 => Cardinality(BegunTo(n)) <= n - 1
  <2> DEFINE c == Cardinality(BegunTo(n))
             d == Cardinality(2 .. n)
  <2>1. c \in Nat /\ c <= d /\ d = IF 2 > n THEN 0 ELSE n - 2 + 1
    BY <1>2, <1>3, <1>4
  <2> HIDE DEF c, d
  <2>2. n > 0 => c <= n - 1
    BY <2>1
  <2>3. QED
    BY <2>2 DEF c
<1>7. QED
  BY <1>2, <1>4, <1>5, <1>6

(* Character n + 1 is a line further if it begins one. *)
LEMMA NextLineOf ==
  ASSUME NEW n \in Nat \ {0}
  PROVE  Text!LineOf(n + 1) =
           IF Text!BeginsLine(n + 1) THEN Text!LineOf(n) + 1
           ELSE Text!LineOf(n)
<1> DEFINE k == n + 1
<1>1. 2 .. k = (2 .. n) \cup {k} /\ k \notin 2 .. n
  OBVIOUS
<1>2. n \in Nat /\ k \in Nat
  OBVIOUS
<1>3. /\ IsFiniteSet(BegunTo(n)) /\ Text!LineOf(n) = Cardinality(BegunTo(n))
      /\ Text!LineOf(k) = Cardinality(BegunTo(k))
  BY <1>2, BegunIsFinite
<1> HIDE DEF k
<1>4. CASE Text!BeginsLine(k)
  <2>1. BegunTo(k) = BegunTo(n) \cup {k} /\ k \notin BegunTo(n)
    BY <1>1, <1>4 DEF BegunTo
  <2>2. Cardinality(BegunTo(k)) = Cardinality(BegunTo(n)) + 1
    BY <1>3, <2>1, FS_AddElement
  <2>3. QED
    BY <1>3, <1>4, <2>2 DEF k
<1>5. CASE ~ Text!BeginsLine(k)
  <2>1. BegunTo(k) = BegunTo(n)
    BY <1>1, <1>5 DEF BegunTo
  <2>2. QED
    BY <1>3, <1>5, <2>1 DEF k
<1>6. QED
  BY <1>4, <1>5

(* Lines are counted upwards, and two characters in one line have no       *)
(* beginning of a line between them.                                       *)
LEMMA LinesGoOn ==
  ASSUME NEW m \in Nat, NEW n \in Nat, m <= n
  PROVE  /\ Text!LineOf(m) <= Text!LineOf(n)
         /\ m > 0 /\ Text!LineOf(m) = Text!LineOf(n) <=>
              m > 0 /\ \A k \in m + 1 .. n : ~ Text!BeginsLine(k)
<1>1. BegunTo(m) \subseteq BegunTo(n)
  BY DEF BegunTo
<1>2. /\ IsFiniteSet(BegunTo(m)) /\ Text!LineOf(m) = Cardinality(BegunTo(m))
      /\ IsFiniteSet(BegunTo(n)) /\ Text!LineOf(n) = Cardinality(BegunTo(n))
  BY BegunIsFinite
<1>3. /\ Cardinality(BegunTo(m)) <= Cardinality(BegunTo(n))
      /\ Cardinality(BegunTo(m)) = Cardinality(BegunTo(n)) =>
           BegunTo(m) = BegunTo(n)
  BY <1>1, <1>2, FS_Subset
<1>4. ASSUME m > 0, BegunTo(m) = BegunTo(n), NEW k \in m + 1 .. n
      PROVE  ~ Text!BeginsLine(k)
  <2>1. k \notin BegunTo(m) /\ k \in 2 .. n
    BY <1>4 DEF BegunTo
  <2>2. QED
    BY <1>4, <2>1 DEF BegunTo
<1>5. ASSUME m > 0, \A k \in m + 1 .. n : ~ Text!BeginsLine(k)
      PROVE  BegunTo(m) = BegunTo(n)
  <2>1. \A k \in 2 .. n : k \in 2 .. m \/ k \in m + 1 .. n
    OBVIOUS
  <2>2. QED
    BY <1>1, <1>5, <2>1 DEF BegunTo
<1>6. QED
  BY <1>2, <1>3, <1>4, <1>5

(* The text and the column of one of its characters. *)
LEMMA ColumnFacts ==
  ASSUME Text!LcdTextConstants, Text!TypeOK, Text!PerLine > 0,
         NEW n \in Nat \ {0}
  PROVE  /\ Text!PerLine \in Nat \ {0} /\ n - Text!Begin(n) \in Nat
         /\ Text!Begin(n) \in 1 .. n
         /\ Column(n) = (n - Text!Begin(n)) % Text!PerLine
         /\ Column(n) \in 0 .. Text!PerLine - 1
<1> DEFINE b == Text!Begin(n)
           P == Text!PerLine
           k == n - b
<1>1. P \in Nat \ {0} /\ b \in 1 .. n
  BY LineHolds, BeginFacts
<1>2. k \in Nat
  BY <1>1
<1>3. Column(n) = k % P
  BY DEF Column
<1> HIDE DEF k, P
<1>4. k % P \in 0 .. P - 1
  BY <1>1, <1>2, QuotientAndRest
<1>5. QED
  BY <1>1, <1>2, <1>3, <1>4 DEF P, k

(* Characters that follow one another and have room in the line are in it. *)
LEMMA RowPlaces ==
  ASSUME Text!LcdTextConstants, Text!TypeOK, Text!PerLine > 0,
         NEW n \in Nat \ {0}, NEW c \in Nat,
         \A k \in n .. n + c - 1 : text[k] = "char",
         Column(n) + c <= Text!PerLine,
         NEW j \in Nat, j < c
  PROVE  /\ Column(n + j) = Column(n) + j
         /\ Text!LineOf(n + j) = Text!LineOf(n)
<1> DEFINE b == Text!Begin(n)
           P == Text!PerLine
           k == n - b
<1>1. /\ P \in Nat \ {0} /\ b \in 1 .. n /\ Column(n) = k % P
      /\ Column(n) \in 0 .. P - 1 /\ k \in Nat
  BY ColumnFacts
<1>2. ASSUME NEW i \in Nat, i < c
      PROVE  /\ Text!Begin(n + i) = b
             /\ n + i \in Nat \ {0}
             /\ Column(n + i) = Column(n) + i
  <2> DEFINE e == n + i
  <2>1. e \in Nat \ {0} /\ n <= e
    BY <1>2
  <2>2. \A u \in n .. e - 1 : text[u] # "newline"
    BY <1>2
  <2>3. e - b = k + i
    BY <1>1
  <2> HIDE DEF e
  <2>4. Text!Begin(e) = b
    BY <2>1, <2>2, SameParagraph
  <2>5. Column(e) = (e - b) % P
    BY <2>4 DEF Column
  <2> HIDE DEF b, k, P
  <2>6. Column(e) = (k + i) % P
    BY <2>3, <2>5
  <2>7. (k % P) + i < P
    BY <1>1, <1>2 DEF P
  <2>8. (k + i) % P = (k % P) + i
    BY <1>1, <2>7, RestMoves
  <2>9. QED
    BY <1>1, <2>1, <2>4, <2>6, <2>8 DEF e
<1> HIDE DEF b, k, P
<1>3. ASSUME NEW i \in n + 1 .. n + j PROVE ~ Text!BeginsLine(i)
  <2> DEFINE d == i - n
  <2>1. d \in Nat /\ d > 0 /\ d < c /\ i = n + d /\ i - 1 \in n .. n + c - 1
    BY <1>3
  <2> HIDE DEF d
  <2>2. Text!Begin(i) = b /\ Column(i) = Column(n) + d
    BY <1>2, <2>1
  <2>3. Column(i) # 0
    BY <1>1, <2>1, <2>2
  <2>4. text[i - 1] = "char"
    BY <2>1
  <2>5. QED
    BY <2>3, <2>4 DEF Text!BeginsLine, Column
<1>4. Text!LineOf(n) = Text!LineOf(n + j)
  <2> DEFINE e == n + j
  <2>1. e \in Nat /\ n <= e /\ n \in Nat /\ n > 0
    OBVIOUS
  <2>2. \A i \in n + 1 .. e : ~ Text!BeginsLine(i)
    BY <1>3
  <2> HIDE DEF e
  <2>3. Text!LineOf(n) = Text!LineOf(e)
    BY <2>1, <2>2, LinesGoOn
  <2>4. QED
    BY <2>3 DEF e
<1>5. QED
  BY <1>2, <1>4

(* A paragraph begins at the margin, where a character has room. *)
LEMMA AtMargin ==
  ASSUME Text!LcdTextConstants, Text!TypeOK, Text!PerLine > 0,
         NEW n \in Nat \ {0}, Text!Begin(n) = n,
         NEW c, c = [x |-> x, y |-> y + Text!LineOf(n) * Text!char_height]
  PROVE  CursorIsSet(n, c)
<1> DEFINE w == Text!char_width
<1>1. /\ Text!PerLine \in Nat \ {0} /\ Column(n) \in Nat
      /\ Column(n) = (n - n) % Text!PerLine
  BY ColumnFacts
<1>2. Column(n) = 0
  BY <1>1
<1>3. w \in Nat /\ x \in Nat /\ Width \in Nat /\ ~ (x + w > Width)
  <2>1. w \in Nat /\ x \in Nat /\ Width \in Nat /\ x + 1 * w <= Width
    BY <1>1, LineHolds
  <2>2. 1 * w = w
    BY <2>1
  <2>3. QED
    BY <2>1, <2>2
<1>4. x + Column(n) * w = x
  BY <1>2, <1>3
<1>5. Place(n) = c
  BY <1>4 DEF Place
<1>6. WrapOf(c) = c
  BY <1>3 DEF WrapOf
<1>7. QED
  BY <1>5, <1>6 DEF CursorIsSet

(* No character before the last is in a line past uint16_t. *)
LEMMA LinesAreShort ==
  ASSUME Text!LcdTextConstants, Text!TypeOK, TextIsShort,
         NEW n \in 1 .. Len(text)
  PROVE  /\ y + Text!LineOf(n) * Text!char_height \in 0 .. CursorWord - 1
         /\ Text!LineOf(n) \in Nat /\ CursorWord \in Nat
<1> DEFINE h == Text!char_height
           l == Text!LineOf(n)
           m == Len(text) - 1
<1>1. h \in Nat /\ y \in Nat /\ CursorWord \in Nat
  BY LineHolds DEF Text!LcdTextConstants
<1>2. l \in Nat /\ l <= n - 1 /\ m \in Nat /\ n - 1 <= m
  <2>1. Len(text) \in Nat /\ n \in Nat /\ n > 0 /\ n <= Len(text)
    BY DEF Text!TypeOK
  <2>2. QED
    BY <2>1, BegunIsFinite
<1>3. l <= m
  BY <1>2
<1>4. y + m * h < CursorWord
  BY DEF TextIsShort
<1> HIDE DEF h, l, m
<1>5. l * h \in Nat /\ m * h \in Nat /\ l * h <= m * h
  BY <1>1, <1>2, <1>3, TimesGrows
<1> DEFINE u == l * h
           v == m * h
<1>6. u \in Nat /\ v \in Nat /\ u <= v /\ y + v < CursorWord
  BY <1>4, <1>5
<1> HIDE DEF u, v
<1>7. y + u \in 0 .. CursorWord - 1
  BY <1>1, <1>6
<1>8. QED
  BY <1>1, <1>2, <1>7 DEF u, l, h

(* Behind a character, the next one has its place in the line, or begins   *)
(* another one.                                                            *)
LEMMA BehindCharacter ==
  ASSUME Text!LcdTextConstants, Text!TypeOK, Text!PerLine > 0, TextIsShort,
         NEW n \in Nat \ {0}, n + 1 <= Len(text), text[n] = "char",
         NEW c \in Text!Points,
         c.x = x + (Column(n) + 1) * Text!char_width,
         c.y = y + Text!LineOf(n) * Text!char_height
  PROVE  CursorIsSet(n + 1, c)
<1> DEFINE e == n + 1
           w == Text!char_width
           h == Text!char_height
           P == Text!PerLine
           b == Text!Begin(n)
           k == n - b
           col == Column(n)
<1>1. /\ P \in Nat \ {0} /\ b \in 1 .. n /\ k \in Nat
      /\ col = k % P /\ col \in 0 .. P - 1
  BY ColumnFacts
<1>2. Text!Begin(e) = b
  <2>1. n \in Nat \ {0} /\ e \in Nat /\ n <= e
    OBVIOUS
  <2>2. \A i \in n .. e - 1 : text[i] # "newline"
    OBVIOUS
  <2>3. QED
    BY <2>1, <2>2, SameParagraph
<1>3. e - b = k + 1 /\ e > b /\ e - 1 = n
  BY <1>1
<1>4. Column(e) = (k + 1) % P
  BY <1>2, <1>3 DEF Column
<1>5. /\ Text!LineOf(e) =
           IF Text!BeginsLine(e) THEN Text!LineOf(n) + 1 ELSE Text!LineOf(n)
      /\ Text!LineOf(n) \in Nat
  BY NextLineOf, BegunIsFinite
<1>6. Text!BeginsLine(e) <=> text[e] = "char" /\ Column(e) = 0
  BY <1>2, <1>3 DEF Text!BeginsLine, Column
<1>7. /\ w \in Nat /\ h \in Nat /\ x \in Nat /\ y \in Nat /\ Width \in Nat
      /\ \A i \in Nat : x + i * w <= Width <=> i <= P
  BY LineHolds
<1>8. c = [x |-> c.x, y |-> c.y]
  BY DEF Text!Points
<1>9. /\ col + 1 < P => (k + 1) % P = col + 1
      /\ col + 1 = P => (k + 1) % P = 0
  <2> HIDE DEF P, k, col, e
  <2>1. /\ (k % P) + 1 < P => (k + 1) % P = (k % P) + 1
        /\ (k % P) + 1 = P => (k + 1) % P = 0
    <3>1. P \in Nat \ {0} /\ k \in Nat /\ 1 \in Nat
      BY <1>1
    <3>2. QED
      BY <3>1, RestMoves
  <2>2. col = k % P
    BY <1>1
  <2>3. QED
    BY <2>1, <2>2
<1>10. CASE text[e] = "newline"
  <2>1. Text!LineOf(e) = Text!LineOf(n)
    BY <1>5, <1>6, <1>10
  <2>2. QED
    BY <1>10, <2>1 DEF CursorIsSet
<1>11. CASE text[e] = "char" /\ col + 1 < P
  <2>1. Column(e) = col + 1 /\ Column(e) # 0
    BY <1>1, <1>4, <1>9, <1>11
  <2>2. Text!LineOf(e) = Text!LineOf(n)
    BY <1>5, <1>6, <2>1
  <2>3. ~ (c.x + w > Width)
    <3> DEFINE i == col + 1
               u == i * w
    <3>1. i \in Nat /\ i + 1 \in Nat /\ i + 1 <= P
      BY <1>1, <1>11
    <3>2. x + (i + 1) * w <= Width
      BY <1>7, <3>1
    <3> HIDE DEF i
    <3>3. (i + 1) * w = u + w /\ u \in Nat
      BY <1>7, <3>1
    <3> HIDE DEF w
    <3>4. x + (u + w) <= Width
      BY <3>2, <3>3
    <3>5. c.x = x + u
      BY DEF i, w
    <3> HIDE DEF u
    <3>6. QED
      BY <1>7, <3>3, <3>4, <3>5
  <2>4. WrapOf(c) = c
    BY <2>3 DEF WrapOf
  <2>5. Place(e) = c
    BY <1>8, <2>1, <2>2 DEF Place
  <2>6. QED
    BY <1>11, <2>4, <2>5 DEF CursorIsSet
<1>12. CASE text[e] = "char" /\ col + 1 = P
  <2>1. Column(e) = 0
    BY <1>4, <1>9, <1>12
  <2>2. Text!LineOf(e) = Text!LineOf(n) + 1
    BY <1>5, <1>6, <1>12, <2>1
  <2>3. c.x + w > Width
    <3> DEFINE u == P * w
    <3>1. P + 1 \in Nat /\ ~ (P + 1 <= P)
      BY <1>1
    <3>2. ~ (x + (P + 1) * w <= Width)
      BY <1>7, <3>1
    <3>3. (P + 1) * w = u + w /\ u \in Nat
      BY <1>1, <1>7
    <3>4. c.x = x + u
      BY <1>12
    <3> HIDE DEF u, w, P
    <3>5. ~ (x + (u + w) <= Width)
      BY <3>2, <3>3
    <3>6. QED
      BY <1>7, <3>3, <3>4, <3>5
  <2>4. WrapOf(c) = [x |-> x, y |-> (c.y + h) % CursorWord]
    BY <2>3 DEF WrapOf, Text!NextLine
  <2> DEFINE l == Text!LineOf(n)
             v == l * h
  <2>5. (l + 1) * h = v + h /\ v \in Nat
    BY <1>5, <1>7
  <2>6. y + (l + 1) * h \in 0 .. CursorWord - 1 /\ CursorWord \in Nat
    <3>1. e \in 1 .. Len(text)
      BY DEF Text!TypeOK
    <3>2. y + Text!LineOf(e) * h \in 0 .. CursorWord - 1 /\ CursorWord \in Nat
      BY <3>1, LinesAreShort
    <3>3. QED
      BY <2>2, <3>2
  <2>7. c.y = y + v
    OBVIOUS
  <2>8. (c.y + h) % CursorWord = y + (l + 1) * h
    <3> DEFINE t == c.y + h
               s == y + (l + 1) * h
    <3>1. s = y + (v + h)
      BY <2>5
    <3> HIDE DEF v, h
    <3>2. t = y + v + h
      BY <2>7
    <3> HIDE DEF s
    <3>3. t = s
      BY <1>7, <2>5, <3>1, <3>2
    <3>4. s \in 0 .. CursorWord - 1 /\ CursorWord \in Nat \ {0}
      BY <2>6 DEF s
    <3> HIDE DEF t
    <3>5. t % CursorWord = s
      BY <3>3, <3>4
    <3>6. QED
      BY <3>5 DEF t, s
  <2>9. Place(e) = [x |-> x, y |-> y + (l + 1) * h]
    <3>1. x + Column(e) * w = x
      BY <1>7, <2>1
    <3>2. QED
      BY <2>2, <3>1 DEF Place
  <2>10. QED
    BY <1>12, <2>4, <2>8, <2>9 DEF CursorIsSet
<1>13. text[e] \in {"char", "newline"} /\ (col + 1 < P \/ col + 1 = P)
  <2>1. e \in 1 .. Len(text)
    BY DEF Text!TypeOK
  <2>2. text[e] \in {"char", "newline"}
    BY <2>1 DEF Text!TypeOK
  <2>3. QED
    BY <1>1, <2>2
<1>14. QED
  BY <1>10, <1>11, <1>12, <1>13

(* Behind a newline, the next paragraph begins. *)
LEMMA BehindNewline ==
  ASSUME Text!LcdTextConstants, Text!TypeOK, Text!PerLine > 0, TextIsShort,
         NEW n \in Nat \ {0}, n + 1 <= Len(text), text[n] = "newline",
         NEW c \in Text!Points,
         c.y = y + Text!LineOf(n) * Text!char_height
  PROVE  CursorIsSet(n + 1, Text!NextLine(c))
<1> DEFINE e == n + 1
           h == Text!char_height
           l == Text!LineOf(n)
           v == l * h
<1>1. e \in Nat \ {0} /\ e \in 1 .. e /\ e - 1 = n /\ e \in 1 .. Len(text)
  BY DEF Text!TypeOK
<1>2. Text!Begin(e) = e
  <2>1. \A m \in e .. e - 1 : text[m] # "newline"
    OBVIOUS
  <2>2. text[e - 1] = "newline"
    BY <1>1
  <2> HIDE DEF e
  <2>3. QED
    BY <1>1, <2>1, <2>2, BeginIs
<1>3. Text!LineOf(e) = l + 1
  <2>1. Text!BeginsLine(e)
    BY <1>1 DEF Text!BeginsLine
  <2>2. QED
    BY <2>1, NextLineOf
<1>4. l \in Nat /\ h \in Nat /\ y \in Nat
  BY BegunIsFinite, LineHolds
<1>5. (l + 1) * h = v + h /\ v \in Nat
  BY <1>4
<1>6. y + Text!LineOf(e) * h \in 0 .. CursorWord - 1 /\ CursorWord \in Nat
  BY <1>1, LinesAreShort
<1>7. (c.y + h) % CursorWord = y + Text!LineOf(e) * h
  <2> DEFINE t == c.y + h
             s == y + Text!LineOf(e) * h
  <2>1. s = y + (v + h)
    BY <1>3, <1>5
  <2>2. t = y + v + h
    OBVIOUS
  <2> HIDE DEF v, h, s
  <2>3. t = s
    BY <1>4, <1>5, <2>1, <2>2
  <2>4. s \in 0 .. CursorWord - 1 /\ CursorWord \in Nat \ {0}
    BY <1>6 DEF s, h
  <2> HIDE DEF t
  <2>5. t % CursorWord = s
    BY <2>3, <2>4
  <2>6. QED
    BY <2>5 DEF t, s, h
<1>8. Text!NextLine(c) = [x |-> x, y |-> y + Text!LineOf(e) * h]
  BY <1>7 DEF Text!NextLine
<1> HIDE DEF e
<1>9. CursorIsSet(e, Text!NextLine(c))
  BY <1>1, <1>2, <1>8, AtMargin
<1>10. QED
  BY <1>9 DEF e

(* The layout is in reading order. *)
LEMMA PlacesInOrder ==
  ASSUME Text!LcdTextConstants, Text!TypeOK, Text!PerLine > 0,
         NEW m \in 1 .. Len(text), NEW n \in 1 .. Len(text), m < n,
         text[m] = "char", text[n] = "char"
  PROVE  \/ Text!LineOf(m) + 1 <= Text!LineOf(n)
         \/ /\ Text!LineOf(m) = Text!LineOf(n)
            /\ Column(m) + 1 <= Column(n)
<1> DEFINE b == Text!Begin(m)
           P == Text!PerLine
           k == m - b
           d == n - m
<1>0. m \in Nat \ {0} /\ n \in Nat \ {0} /\ m <= n
  <2>1. Len(text) \in Nat
    BY DEF Text!TypeOK
  <2>2. QED
    BY <2>1
<1>1. /\ m \in Nat \ {0} /\ n \in Nat \ {0} /\ m <= n
      /\ Text!LineOf(m) \in Nat /\ Text!LineOf(n) \in Nat
  BY <1>0, BegunIsFinite
<1>2. Text!LineOf(m) <= Text!LineOf(n)
  BY <1>1, LinesGoOn
<1>3. ASSUME Text!LineOf(m) = Text!LineOf(n)
      PROVE  Column(m) + 1 <= Column(n)
  <2>1. \A i \in m + 1 .. n : ~ Text!BeginsLine(i)
    BY <1>1, <1>3, LinesGoOn
  <2>2. ASSUME NEW i \in m .. n - 1 PROVE text[i] # "newline"
    <3>1. i + 1 \in m + 1 .. n /\ (i + 1) - 1 = i
      OBVIOUS
    <3>2. ~ Text!BeginsLine(i + 1)
      BY <2>1, <3>1
    <3>3. QED
      BY <3>1, <3>2 DEF Text!BeginsLine
  <2>3. /\ P \in Nat \ {0} /\ b \in 1 .. m /\ k \in Nat
        /\ Column(m) = k % P /\ Column(m) \in 0 .. P - 1
    BY <1>1, ColumnFacts
  <2>4. d \in Nat \ {0} /\ n = m + d /\ n - b = k + d
    <3>1. b \in Nat
      BY <1>1, <2>3
    <3> HIDE DEF b
    <3>2. QED
      BY <1>1, <3>1
  <2>5. ASSUME NEW i \in m .. n PROVE Text!Begin(i) = b
    <3>1. i \in Nat /\ m <= i /\ \A u \in m .. i - 1 : text[u] # "newline"
      BY <2>2
    <3>2. QED
      BY <1>1, <3>1, SameParagraph
  <2>6. Text!Begin(n) = b
    BY <1>1, <2>5
  <2>7. Column(n) = (k + d) % P
    BY <2>4, <2>6 DEF Column
  <2>8. ASSUME ~ (Column(m) + d < P) PROVE FALSE
    <3> DEFINE j == P - Column(m)
               i == m + j
    <3> DEFINE col == Column(m)
    <3>1. col \in Nat /\ P \in Nat /\ col < P /\ j = P - col
      BY <2>3
    <3>2. j \in Nat /\ col + j = P /\ j > 0 /\ j <= d
      <4> HIDE DEF P, d, col, j
      <4>1. QED
        BY <2>4, <2>8, <3>1 DEF col
    <3>3. i \in m + 1 .. n /\ i \in m .. n /\ i > b /\ i - b = k + j
      <4>1. b \in Nat /\ b <= m /\ i = m + j
        BY <1>1, <2>3
      <4> HIDE DEF b, d, i, j
      <4>2. QED
        BY <1>1, <2>4, <3>2, <4>1
    <3> HIDE DEF j, k, P
    <3>4. (k + j) % P = 0
      BY <2>3, <3>2, RestMoves DEF col
    <3> HIDE DEF i, b
    <3>5. Text!Begin(i) = b
      BY <2>5, <3>3
    <3>6. (i - Text!Begin(i)) % Text!PerLine = 0
      BY <3>3, <3>4, <3>5 DEF P
    <3>7. text[i] = "char"
      <4>1. CASE i = n
        BY <4>1
      <4>2. CASE i # n
        <5>1. i \in m .. n - 1 /\ i \in 1 .. Len(text)
          BY <1>1, <3>3, <4>2
        <5>2. text[i] # "newline" /\ text[i] \in {"char", "newline"}
          BY <2>2, <5>1 DEF Text!TypeOK
        <5>3. QED
          BY <5>2
      <4>3. QED
        BY <4>1, <4>2
    <3>8. Text!BeginsLine(i)
      BY <3>3, <3>5, <3>6, <3>7 DEF Text!BeginsLine
    <3>9. QED
      BY <2>1, <3>3, <3>8
  <2>9. Column(n) = Column(m) + d
    <3> HIDE DEF k, d, P
    <3>1. (k % P) + d < P
      BY <2>3, <2>8
    <3>2. QED
      BY <2>3, <2>4, <2>7, <3>1, RestMoves
  <2>10. QED
    BY <2>3, <2>4, <2>9
<1>4. QED
  BY <1>1, <1>2, <1>3

(* bsp_lcd_print_line_1x counts a character at least, and each one it      *)
(* counts has room in the line.                                            *)
LEMMA LineFound ==
  ASSUME Text!TypeOK, next \in 1 .. Len(text), text[next] = "char",
         NEW c, Text!Fits(c), c.x \in Nat, Text!char_width \in Nat
  PROVE  LET n == Text!Line(c) IN
         /\ n \in 1 .. Len(text) + 1 - next
         /\ \A k \in 1 .. n :
              /\ next + k - 1 \in 1 .. Len(text)
              /\ text[next + k - 1] = "char"
              /\ c.x + k * Text!char_width <= Width
<1> DEFINE fits(k) == /\ next + k - 1 \in DOMAIN text
                      /\ text[next + k - 1] = "char"
                      /\ c.x + k * Text!char_width <= Width
           L == Len(text) + 1 - next
           T == {n \in 1 .. L : ~ fits(n + 1)}
           n == Text!Line(c)
<1>1. n = CHOOSE i \in 1 .. L : (\A k \in 1 .. i : fits(k)) /\ ~ fits(i + 1)
  BY DEF Text!Line
<1>2. /\ DOMAIN text = 1 .. Len(text) /\ Len(text) \in Nat
      /\ next \in Nat /\ L \in Nat /\ L >= 1
  BY DEF Text!TypeOK
<1>3. L \in T
  <2>1. next + (L + 1) - 1 \notin DOMAIN text
    BY <1>2
  <2>2. QED
    BY <1>2, <2>1
<1>4. fits(1)
  <2>1. 1 * Text!char_width = Text!char_width
    OBVIOUS
  <2>2. c.x + 1 * Text!char_width <= Width
    BY <2>1 DEF Text!Fits
  <2>3. next + 1 - 1 = next
    BY <1>2
  <2>4. QED
    BY <1>2, <2>2, <2>3
<1>5. T \in SUBSET Nat /\ T # {}
  <2>1. T \subseteq 1 .. L
    OBVIOUS
  <2> HIDE DEF T, L
  <2>2. QED
    BY <1>2, <1>3, <2>1
<1>6. PICK m \in T : \A k \in T : m <= k
  BY <1>5, NatMin
<1> HIDE DEF fits
<1>7. m \in 1 .. L /\ ~ fits(m + 1)
  BY <1>6
<1>8. ASSUME NEW k \in 1 .. m PROVE fits(k)
  <2>1. CASE k = 1
    BY <1>4, <2>1
  <2>2. CASE k > 1
    <3> DEFINE j == k - 1
    <3>1. j \in 1 .. L /\ ~ (m <= j) /\ j + 1 = k
      BY <1>2, <1>7, <2>2
    <3>2. j \notin T
      BY <1>6, <3>1
    <3> HIDE DEF j
    <3>3. fits(j + 1)
      BY <3>1, <3>2
    <3>4. QED
      BY <3>1, <3>3
  <2>3. QED
    BY <2>1, <2>2
<1>9. n \in 1 .. L /\ \A k \in 1 .. n : fits(k)
  <2> HIDE DEF n, L
  <2>1. \E i \in 1 .. L : (\A k \in 1 .. i : fits(k)) /\ ~ fits(i + 1)
    BY <1>7, <1>8
  <2>2. QED
    BY <1>1, <2>1
<1>10. QED
  BY <1>2, <1>9 DEF fits

(* The cursor stays on what uint16_t can tell, and so does its wrapping. *)
LEMMA PointsStay ==
  ASSUME Text!LcdTextConstants, Text!TypeOK, NEW c \in Text!Points
  PROVE  /\ Text!NextLine(c) \in Text!Points /\ WrapOf(c) \in Text!Points
         /\ \A i \in Nat :
              [c EXCEPT !.x = (@ + i) % CursorWord] \in Text!Points
<1>1. /\ CursorWord \in Nat \ {0} /\ Text!char_height \in Nat
      /\ x \in 0 .. CursorWord - 1
      /\ c.x \in 0 .. CursorWord - 1 /\ c.y \in 0 .. CursorWord - 1
  <2>1. CursorWord \in Nat /\ x \in 0 .. CursorWord - 1
    BY DEF Text!LcdTextConstants, Text!TypeOK, Text!Points
  <2>2. CursorWord \in Nat \ {0}
    BY <2>1
  <2>3. c.x \in 0 .. CursorWord - 1 /\ c.y \in 0 .. CursorWord - 1
    BY DEF Text!Points
  <2>4. QED
    BY <2>1, <2>2, <2>3, LineHolds
<1>2. ASSUME NEW i \in Nat, NEW j \in 0 .. CursorWord - 1
      PROVE  (j + i) % CursorWord \in 0 .. CursorWord - 1
  BY <1>1
<1>3. Text!NextLine(c) \in Text!Points
  BY <1>1, <1>2 DEF Text!NextLine, Text!Points
<1>4. \A i \in Nat : [c EXCEPT !.x = (@ + i) % CursorWord] \in Text!Points
  <2> TAKE i \in Nat
  <2>1. (c.x + i) % CursorWord \in 0 .. CursorWord - 1
    BY <1>1, <1>2
  <2>2. QED
    BY <2>1 DEF Text!Points
<1>5. QED
  BY <1>3, <1>4 DEF WrapOf

(* Every variable keeps its type. *)
LEMMA TextTypes ==
  ASSUME Text!LcdTextConstants, Text!TypeOK, Text!Next
  PROVE  Text!TypeOK' /\ UNCHANGED <<text, x, y, scale>> /\ next # 0
<1>1. /\ UNCHANGED <<text, x, y, scale>> /\ next # 0
  BY DEF Text!Next, Text!EndOfText, Text!Return, Text!Newline, Text!Full,
         Text!DrawLine, Text!DrawChar, Text!args, Text!TypeOK
<1> SUFFICES Text!TypeOK'
  BY <1>1
<1>2. /\ Len(text) \in Nat /\ DOMAIN text = 1 .. Len(text)
      /\ cursor \in Text!Points /\ next \in 0 .. Len(text) + 1
      /\ Text!char_width \in Nat
  BY LineHolds DEF Text!TypeOK
<1> DEFINE Cell == [x : Nat, y : Nat, char : DOMAIN text]
           c == Text!Wrapped
<1>3. /\ c \in Text!Points /\ Text!NextLine(cursor) \in Text!Points
      /\ \A i \in Nat : [c EXCEPT !.x = (@ + i) % CursorWord] \in Text!Points
  <2>1. c = WrapOf(cursor)
    BY DEF Text!Wrapped, WrapOf
  <2>2. c \in Text!Points /\ Text!NextLine(cursor) \in Text!Points
    BY <1>2, <2>1, PointsStay
  <2> HIDE DEF c
  <2>3. QED
    BY <2>2, PointsStay
<1>4. c.x \in Nat /\ c.y \in Nat
  BY <1>3 DEF Text!Points, Text!LcdTextConstants
<1>5. ASSUME cursor' \in Text!Points, next' \in 0 .. Len(text) + 1,
             cells' \in Seq(Cell)
      PROVE  Text!TypeOK'
  BY <1>1, <1>5 DEF Text!TypeOK, Text!Points
<1>6. cells \in Seq(Cell)
  BY DEF Text!TypeOK
<1> HIDE DEF Cell, c
<1>7. CASE Text!EndOfText \/ Text!Full
  BY <1>2, <1>5, <1>6, <1>7 DEF Text!EndOfText, Text!Full, Text!Return
<1>8. CASE Text!Newline
  <2>1. next' \in 0 .. Len(text) + 1
    BY <1>2, <1>8 DEF Text!Newline
  <2>2. QED
    BY <1>3, <1>5, <1>6, <1>8, <2>1 DEF Text!Newline
<1>9. CASE Text!DrawLine
  <2> DEFINE n == Text!Line(c)
             new == [k \in 1 .. n |->
                       [x |-> c.x + (k - 1) * Text!char_width, y |-> c.y,
                        char |-> next + k - 1]]
  <2>1. /\ next \in 1 .. Len(text) /\ text[next] = "char" /\ Text!Fits(c)
        /\ cells' = cells \o new
        /\ cursor' = [c EXCEPT !.x = (@ + n * Text!char_width) % CursorWord]
        /\ next' = next + n
    BY <1>2, <1>9 DEF Text!DrawLine, c
  <2>2. /\ n \in 1 .. Len(text) + 1 - next
        /\ \A k \in 1 .. n : next + k - 1 \in 1 .. Len(text)
    BY <1>2, <1>4, <2>1, LineFound
  <2> HIDE DEF n
  <2>3. n \in Nat /\ next' \in 0 .. Len(text) + 1
    BY <1>2, <2>1, <2>2
  <2>4. cursor' \in Text!Points
    <3>1. n * Text!char_width \in Nat
      BY <1>2, <2>3
    <3>2. QED
      BY <1>3, <2>1, <3>1
  <2>5. new \in Seq(Cell)
    <3>1. ASSUME NEW k \in 1 .. n
          PROVE  c.x + (k - 1) * Text!char_width \in Nat
      <4>1. k - 1 \in Nat
        OBVIOUS
      <4> DEFINE j == k - 1
                 u == j * Text!char_width
      <4>2. u \in Nat
        BY <1>2, <4>1
      <4> HIDE DEF u
      <4>3. c.x + u \in Nat
        BY <1>4, <4>2
      <4>4. QED
        BY <4>3 DEF u
    <3>2. new \in [1 .. n -> Cell]
      BY <1>2, <1>4, <2>2, <3>1 DEF Cell
    <3> HIDE DEF new
    <3>3. QED
      BY <2>3, <3>2
  <2>6. cells' \in Seq(Cell)
    BY <1>6, <2>1, <2>5, ConcatProperties
  <2>7. QED
    BY <1>5, <2>3, <2>4, <2>6
<1>10. CASE Text!DrawChar
  <2> DEFINE new == [x |-> c.x, y |-> c.y, char |-> next]
  <2>1. /\ next \in 1 .. Len(text) /\ next' = next + 1
        /\ cells' = IF Text!Fits(c) THEN Append(cells, new) ELSE cells
        /\ cursor' = [c EXCEPT !.x = (@ + Text!char_width) % CursorWord]
    BY <1>2, <1>10 DEF Text!DrawChar, c
  <2>2. new \in Cell
    BY <1>2, <1>4, <2>1 DEF Cell
  <2> HIDE DEF new
  <2>3. cells' \in Seq(Cell)
    BY <1>6, <2>1, <2>2
  <2>4. cursor' \in Text!Points /\ next' \in 0 .. Len(text) + 1
    BY <1>2, <1>3, <2>1
  <2>5. QED
    BY <1>5, <2>3, <2>4
<1>11. QED
  BY <1>7, <1>8, <1>9, <1>10 DEF Text!Next

(* A row that the fast path draws fits into its buffer. *)
LEMMA RowsFit ==
  ASSUME Text!LcdTextConstants, Text!TypeOK
  PROVE  Text!RowFitsBuffer
<1> DEFINE c == Text!Wrapped
           w == Text!char_width
           n == Text!Line(c)
<1> SUFFICES ASSUME scale = 1, next \in DOMAIN text, text[next] = "char",
                    Text!Fits(c)
             PROVE  n * w <= MaxWidth
  BY DEF Text!RowFitsBuffer
<1>1. /\ next \in 1 .. Len(text) /\ w \in Nat /\ cursor \in Text!Points
      /\ Len(text) \in Nat
  <2>1. /\ Len(text) \in Nat /\ DOMAIN text = 1 .. Len(text)
        /\ cursor \in Text!Points
    BY DEF Text!TypeOK
  <2>2. QED
    BY <2>1, LineHolds
<1>2. c.x \in Nat
  <2>1. c = WrapOf(cursor)
    BY DEF Text!Wrapped, WrapOf
  <2>2. c \in Text!Points
    BY <1>1, <2>1, PointsStay
  <2> HIDE DEF c
  <2>3. QED
    BY <2>2 DEF Text!Points, Text!LcdTextConstants
<1> HIDE DEF c
<1>3. /\ n \in 1 .. Len(text) + 1 - next
      /\ \A k \in 1 .. n : c.x + k * w <= Width
  BY <1>1, <1>2, LineFound
<1>4. /\ MaxWidth \in Nat /\ Width \in Nat /\ Width <= MaxWidth
  BY DEF Text!LcdTextConstants
<1> HIDE DEF n, w
<1>5. n \in Nat /\ n \in 1 .. n
  BY <1>1, <1>3
<1> DEFINE u == n * w
<1>6. u \in Nat /\ c.x + u <= Width
  BY <1>1, <1>3, <1>5
<1> HIDE DEF u
<1>7. u <= MaxWidth
  BY <1>2, <1>4, <1>6
<1>8. QED
  BY <1>7 DEF u

(* What a call is to draw does not change while it runs. *)
LEMMA LayoutStays ==
  ASSUME UNCHANGED <<text, x, y, scale>>
  PROVE  /\ Text!Shown' = Text!Shown /\ Text!PerLine' = Text!PerLine
         /\ Text!char_width' = Text!char_width
         /\ Text!char_height' = Text!char_height
         /\ \A n : /\ Text!LineOf(n)' = Text!LineOf(n)
                   /\ Place(n)' = Place(n)
         /\ TextIsShort' <=> TextIsShort
<1>1. /\ Text!char_width' = Text!char_width
      /\ Text!char_height' = Text!char_height
  BY DEF Text!char_width, Text!char_height
<1>2. Text!PerLine' = Text!PerLine
  BY <1>1 DEF Text!PerLine
<1>3. \A n : Text!Begin(n)' = Text!Begin(n)
  BY DEF Text!Begin, Text!Breaks
<1>4. \A n : Text!LineOf(n)' = Text!LineOf(n)
  BY <1>2, <1>3 DEF Text!LineOf, Text!BeginsLine
<1>5. \A n : Place(n)' = Place(n)
  BY <1>1, <1>2, <1>3, <1>4 DEF Place, Column
<1>6. Text!Shown' = Text!Shown
  BY <1>1, <1>2, <1>4 DEF Text!Shown
<1>7. TextIsShort' <=> TextIsShort
  BY <1>1 DEF TextIsShort
<1>8. QED
  BY <1>1, <1>2, <1>4, <1>5, <1>6, <1>7

(* Nothing need be drawn where nothing is to be shown. *)
LEMMA NothingToDraw ==
  ASSUME Text!TypeOK, UNCHANGED <<text, x, y, scale, cells>>,
         NEW k \in Nat, NEW e \in Nat, DrawnTo(k), k <= e,
         \A m \in Text!Shown : ~ (k <= m /\ m < e)
  PROVE  DrawnTo(e)'
<1>1. /\ Text!Shown' = Text!Shown /\ \A n : Place(n)' = Place(n)
  BY LayoutStays
<1>2. Text!Shown \subseteq Nat
  BY DEF Text!Shown, Text!TypeOK
<1>3. /\ \A m \in Text!Shown : m < k => m < e
      /\ \A m \in Text!Shown : m < e => m < k
  BY <1>2
<1>4. /\ \A i \in 1 .. Len(cells) :
           LET m == cells[i].char IN
           /\ m < e /\ m \in Text!Shown
           /\ cells[i].x = Place(m).x /\ cells[i].y = Place(m).y
      /\ \A m \in Text!Shown :
           m < e => \E i \in 1 .. Len(cells) : cells[i].char = m
      /\ \A i, j \in 1 .. Len(cells) : i < j => cells[i].char < cells[j].char
  BY <1>3 DEF DrawnTo
<1>5. QED
  BY <1>1, <1>4 DEF DrawnTo

(* The next c characters are drawn, each at its place. *)
LEMMA MoreIsDrawn ==
  ASSUME Text!TypeOK, UNCHANGED <<text, x, y, scale>>,
         NEW k \in Nat, NEW c \in Nat, DrawnTo(k),
         Len(cells') = Len(cells) + c,
         \A i \in 1 .. Len(cells) : cells'[i] = cells[i],
         \A j \in 1 .. c :
           /\ k + j - 1 \in Text!Shown
           /\ cells'[Len(cells) + j].char = k + j - 1
           /\ cells'[Len(cells) + j].x = Place(k + j - 1).x
           /\ cells'[Len(cells) + j].y = Place(k + j - 1).y
  PROVE  DrawnTo(k + c)'
<1> DEFINE n == Len(cells)
           e == k + c
<1>1. /\ Text!Shown' = Text!Shown /\ \A m : Place(m)' = Place(m)
  BY LayoutStays
<1>2. Text!Shown \subseteq Nat /\ n \in Nat
  BY DEF Text!Shown, Text!TypeOK
<1> HIDE DEF n
<1>3. ASSUME NEW i \in 1 .. n + c, i \notin 1 .. n
      PROVE  i - n \in 1 .. c /\ n + (i - n) = i
  BY <1>2, <1>3
<1>4. \A i \in 1 .. n : /\ cells[i].char < k /\ cells[i].char \in Text!Shown
                        /\ cells'[i] = cells[i]
                        /\ cells[i].x = Place(cells[i].char).x
                        /\ cells[i].y = Place(cells[i].char).y
  BY DEF DrawnTo, n
<1>5. ASSUME NEW i \in 1 .. n + c
      PROVE  LET m == cells'[i].char IN
             /\ m < e /\ m \in Text!Shown
             /\ cells'[i].x = Place(m).x /\ cells'[i].y = Place(m).y
  <2>1. CASE i \in 1 .. n
    <3>1. cells[i].char \in Nat /\ cells[i].char < k
      BY <1>2, <1>4, <2>1
    <3>2. cells[i].char < e
      BY <3>1
    <3>3. QED
      BY <1>4, <2>1, <3>2
  <2>2. CASE i \notin 1 .. n
    <3> DEFINE j == i - n
               m == k + j - 1
    <3>1. j \in 1 .. c /\ n + j = i
      BY <1>3, <2>2
    <3>2. m < e
      BY <3>1
    <3>3. /\ m \in Text!Shown /\ cells'[n + j].char = m
          /\ cells'[n + j].x = Place(m).x /\ cells'[n + j].y = Place(m).y
      BY <3>1 DEF n
    <3> HIDE DEF m, e, j
    <3>4. QED
      BY <3>1, <3>2, <3>3
  <2>3. QED
    BY <2>1, <2>2
<1>6. ASSUME NEW m \in Text!Shown, m < e
      PROVE  \E i \in 1 .. n + c : cells'[i].char = m
  <2>1. CASE m < k
    <3>1. PICK i \in 1 .. n : cells[i].char = m
      BY <2>1 DEF DrawnTo, n
    <3>2. i \in 1 .. n + c
      BY <1>2
    <3>3. QED
      BY <1>4, <3>1, <3>2
  <2>2. CASE ~ (m < k)
    <3> DEFINE j == m - k + 1
    <3>1. j \in 1 .. c /\ k + j - 1 = m /\ n + j \in 1 .. n + c
      BY <1>2, <1>6, <2>2
    <3>2. cells'[n + j].char = k + j - 1
      BY <3>1 DEF n
    <3> HIDE DEF j
    <3>3. QED
      BY <3>1, <3>2
  <2>3. QED
    BY <2>1, <2>2
<1>7. ASSUME NEW i \in 1 .. n + c, NEW j \in 1 .. n + c, i < j
      PROVE  cells'[i].char < cells'[j].char
  <2>1. CASE j \in 1 .. n
    <3>1. i \in 1 .. n
      BY <1>2, <1>7, <2>1
    <3>2. cells[i].char < cells[j].char
      BY <1>7, <2>1, <3>1 DEF DrawnTo, n
    <3>3. QED
      BY <1>4, <2>1, <3>1, <3>2
  <2>2. CASE j \notin 1 .. n
    <3> DEFINE b == j - n
    <3>1. b \in 1 .. c /\ n + b = j
      BY <1>3, <2>2
    <3>2. cells'[n + b].char = k + b - 1
      BY <3>1 DEF n
    <3> HIDE DEF b
    <3>3. CASE i \in 1 .. n
      <4>1. cells[i].char \in Nat /\ cells[i].char < k
        BY <1>2, <1>4, <3>3
      <4>2. cells[i].char < k + b - 1
        BY <3>1, <4>1
      <4>3. QED
        BY <1>4, <3>1, <3>2, <3>3, <4>2
    <3>4. CASE i \notin 1 .. n
      <4> DEFINE a == i - n
      <4>1. a \in 1 .. c /\ n + a = i
        BY <1>3, <3>4
      <4>2. cells'[n + a].char = k + a - 1
        BY <4>1 DEF n
      <4>3. a < b
        BY <1>2, <1>7, <3>1
      <4> HIDE DEF a
      <4>4. k + a - 1 < k + b - 1
        BY <3>1, <4>1, <4>3
      <4>5. QED
        BY <3>1, <3>2, <4>1, <4>2, <4>4
    <3>5. QED
      BY <3>3, <3>4
  <2>3. QED
    BY <2>1, <2>2
<1>8. Len(cells') = n + c
  BY DEF n
<1> HIDE DEF e
<1>9. /\ \A i \in 1 .. Len(cells') :
           LET m == cells'[i].char IN
           /\ m < e /\ m \in Text!Shown'
           /\ cells'[i].x = Place(m).x /\ cells'[i].y = Place(m).y
      /\ \A m \in Text!Shown' :
           m < e => \E i \in 1 .. Len(cells') : cells'[i].char = m
      /\ \A i, j \in 1 .. Len(cells') :
           i < j => cells'[i].char < cells'[j].char
  BY <1>1, <1>5, <1>6, <1>7, <1>8
<1>10. PICK b : b = e
  OBVIOUS
<1>11. DrawnTo(b)'
  BY <1>1, <1>9, <1>10 DEF DrawnTo
<1>12. QED
  BY <1>10, <1>11 DEF e

(* What is below the bottom is not shown, nor is anything behind it. *)
LEMMA BelowBottom ==
  ASSUME Text!LcdTextConstants, Text!TypeOK,
         NEW n \in 1 .. Len(text),
         Text!PerLine > 0 => Place(n).y + Text!char_height > Height
  PROVE  \A m \in Text!Shown : m < n
<1> SUFFICES ASSUME NEW m \in Text!Shown, ~ (m < n)
             PROVE  FALSE
  OBVIOUS
<1> DEFINE h == Text!char_height
           a == Text!LineOf(n)
           b == Text!LineOf(m)
<1>1. Text!PerLine \in Nat /\ Text!PerLine # 0 /\ h \in Nat /\ y \in Nat
  BY LineHolds DEF Text!Shown
<1>2. m \in Nat /\ n \in Nat /\ n <= m /\ y + (b + 1) * h <= Height
  BY <1>1 DEF Text!Shown, Text!TypeOK
<1>3. a \in Nat /\ b \in Nat /\ a <= b
  BY <1>2, LinesGoOn, BegunIsFinite
<1>4. y + a * h + h > Height
  BY <1>1 DEF Place
<1>5. Height \in Nat
  BY LineHolds
<1> HIDE DEF a, b, h
<1>6. (a + 1) * h <= (b + 1) * h
  <2> DEFINE p == a + 1
             q == b + 1
  <2>1. p \in Nat /\ q \in Nat /\ p <= q
    BY <1>3
  <2> HIDE DEF p, q
  <2>2. p * h <= q * h
    BY <1>1, <2>1, TimesGrows
  <2>3. QED
    BY <2>2 DEF p, q
<1> DEFINE u == a * h
           v == (b + 1) * h
<1>7. (a + 1) * h = u + h /\ u \in Nat /\ v \in Nat
  BY <1>1, <1>3
<1> HIDE DEF u, v
<1>8. u + h <= v /\ y + v <= Height /\ y + u + h > Height
  BY <1>2, <1>4, <1>6, <1>7 DEF u, v
<1>9. QED
  BY <1>1, <1>5, <1>7, <1>8

(* Shown are characters, within the text. *)
LEMMA ShownAre ==
  ASSUME Text!TypeOK
  PROVE  \A m \in Text!Shown :
           /\ m \in 1 .. Len(text) /\ m \in Nat /\ text[m] = "char"
           /\ Text!PerLine # 0
BY DEF Text!Shown, Text!TypeOK

(* What has to be shown of a step, k being how far it comes. *)
LEMMA TextStepIs ==
  ASSUME Text!LcdTextConstants, TextInv, Text!Next,
         NEW k, k = IF next' = 0 THEN Len(text) + 1 ELSE next',
         NEW p, p = cursor',
         TextIsShort =>
           /\ DrawnTo(k)'
           /\ k \in 1 .. Len(text) /\ Text!PerLine > 0 => CursorIsSet(k, p)
           /\ next' # 0 /\ Text!PerLine = 0 =>
                p.x \in {x, x + Text!char_width}
  PROVE  TextInv'
<1>1. /\ Text!TypeOK /\ Text!TypeOK' /\ next # 0
      /\ UNCHANGED <<text, x, y, scale>>
  BY TextTypes DEF TextInv
<1>2. /\ Text!Shown' = Text!Shown /\ Text!PerLine' = Text!PerLine
      /\ Text!char_width' = Text!char_width
      /\ Text!char_height' = Text!char_height
      /\ \A n : Text!LineOf(n)' = Text!LineOf(n) /\ Place(n)' = Place(n)
      /\ TextIsShort' <=> TextIsShort
  BY <1>1, LayoutStays
<1>3. scale' > 0
  BY <1>1 DEF TextInv
<1>4. ASSUME TextIsShort'
      PROVE  DrawnTo(IF next = 0 THEN Len(text) + 1 ELSE next)'
  <2>1. DrawnTo(k)' /\ text' = text
    BY <1>1, <1>2, <1>4
  <2>2. QED
    BY <1>2, <2>1 DEF DrawnTo
<1>5. ASSUME TextIsShort', next' \in 1 .. Len(text'), Text!PerLine' > 0
      PROVE  CursorIsSet(next, cursor)'
  <2>1. k = next' /\ text' = text /\ x' = x /\ y' = y
    BY <1>1, <1>5
  <2>2. CursorIsSet(next', cursor')
    BY <1>2, <1>5, <2>1
  <2>3. QED
    BY <1>2, <2>1, <2>2 DEF CursorIsSet, WrapOf, Text!NextLine
<1>6. ASSUME TextIsShort', next' # 0, Text!PerLine' = 0
      PROVE  cursor'.x \in {x', x' + Text!char_width'}
  BY <1>1, <1>2, <1>6
<1>7. QED
  BY <1>1, <1>3, <1>4, <1>5, <1>6 DEF TextInv

(* The text has come to its end. *)
LEMMA TextEnds ==
  ASSUME Text!LcdTextConstants, TextInv, Text!EndOfText
  PROVE  TextInv'
<1>1. Text!TypeOK /\ Text!Next
  BY DEF TextInv, Text!Next
<1>2. /\ next' = 0 /\ UNCHANGED <<text, x, y, scale, cells>>
      /\ Len(text) \in Nat /\ next = Len(text) + 1
  BY <1>1 DEF Text!EndOfText, Text!Return, Text!args, Text!TypeOK
<1>3. PICK k, p : k = Len(text) + 1 /\ p = cursor'
  OBVIOUS
<1>4. k \in Nat /\ k = next /\ next # 0
  BY <1>2, <1>3
<1>5. ASSUME TextIsShort PROVE DrawnTo(k)'
  <2>1. DrawnTo(k)
    BY <1>4, <1>5 DEF TextInv
  <2>2. \A m \in Text!Shown : ~ (k <= m /\ m < k)
    <3>1. \A m \in Text!Shown : m \in Nat
      BY <1>1, ShownAre
    <3>2. QED
      BY <1>4, <3>1
  <2>3. k <= k
    BY <1>4
  <2>4. QED
    BY <1>1, <1>2, <1>4, <2>1, <2>2, <2>3, NothingToDraw
<1>6. k = (IF next' = 0 THEN Len(text) + 1 ELSE next') /\ next' = 0
  BY <1>2, <1>3
<1>7. k \notin 1 .. Len(text)
  BY <1>2, <1>3
<1>8. QED
  BY <1>1, <1>3, <1>5, <1>6, <1>7, TextStepIs

(* A newline moves the cursor only. *)
LEMMA TextBreaks ==
  ASSUME Text!LcdTextConstants, TextInv, Text!Newline
  PROVE  TextInv'
<1>1. Text!TypeOK /\ Text!Next
  BY DEF TextInv, Text!Next
<1>2. /\ next' = next + 1 /\ UNCHANGED <<text, x, y, scale, cells>>
      /\ text[next] = "newline" /\ cursor' = Text!NextLine(cursor)
      /\ cursor \in Text!Points
      /\ Len(text) \in Nat /\ next \in 1 .. Len(text)
  BY <1>1 DEF Text!Newline, Text!args, Text!TypeOK
<1>3. PICK n, c : n = next /\ c = cursor
  OBVIOUS
<1>4. PICK k, p : k = n + 1 /\ p = cursor'
  OBVIOUS
<1>5. /\ n \in Nat \ {0} /\ n \in 1 .. Len(text) /\ k \in Nat \ {0}
      /\ k = next' /\ next' # 0 /\ next # 0 /\ c \in Text!Points
      /\ text[n] = "newline"
  BY <1>2, <1>3, <1>4
<1>6. ASSUME TextIsShort PROVE DrawnTo(k)'
  <2>1. DrawnTo(n)
    BY <1>3, <1>5, <1>6 DEF TextInv
  <2>2. \A m \in Text!Shown : ~ (n <= m /\ m < k)
    <3>1. ASSUME NEW m \in Text!Shown, n <= m, m < k PROVE FALSE
      <4>1. m \in Nat /\ text[m] = "char"
        BY <1>1, ShownAre
      <4>2. m = n
        BY <1>4, <1>5, <3>1, <4>1
      <4>3. QED
        BY <1>5, <4>1, <4>2
    <3>2. QED
      BY <3>1
  <2>3. n \in Nat /\ k \in Nat /\ n <= k
    BY <1>4, <1>5
  <2>4. QED
    BY <1>1, <1>2, <2>1, <2>2, <2>3, NothingToDraw
<1>7. ASSUME TextIsShort, k \in 1 .. Len(text), Text!PerLine > 0
      PROVE  CursorIsSet(k, p)
  <2>1. CursorIsSet(n, c)
    BY <1>3, <1>5, <1>7 DEF TextInv
  <2>2. c.y = y + Text!LineOf(n) * Text!char_height
    BY <1>5, <2>1 DEF CursorIsSet
  <2>3. n + 1 <= Len(text)
    BY <1>2, <1>4, <1>7
  <2>4. CursorIsSet(n + 1, Text!NextLine(c))
    BY <1>1, <1>5, <1>7, <2>2, <2>3, BehindNewline
  <2>5. p = Text!NextLine(c)
    BY <1>2, <1>3, <1>4
  <2>6. QED
    BY <1>4, <2>4, <2>5
<1>8. p.x = x
  BY <1>2, <1>4 DEF Text!NextLine
<1>9. k = IF next' = 0 THEN Len(text) + 1 ELSE next'
  BY <1>5
<1>10. QED
  BY <1>1, <1>4, <1>6, <1>7, <1>8, <1>9, TextStepIs

(* The display is full. *)
LEMMA TextIsCut ==
  ASSUME Text!LcdTextConstants, TextInv, Text!Full
  PROVE  TextInv'
<1>1. Text!TypeOK /\ Text!Next
  BY DEF TextInv, Text!Next
<1>2. /\ next' = 0 /\ UNCHANGED <<text, x, y, scale, cells>>
      /\ text[next] = "char"
      /\ \/ Text!Wrapped.y + Text!char_height > Height
         \/ ~ Text!Fits(Text!Wrapped)
      /\ Len(text) \in Nat /\ next \in 1 .. Len(text)
  BY <1>1 DEF Text!Full, Text!Return, Text!args, Text!TypeOK
<1>3. PICK n, c : n = next /\ c = cursor
  OBVIOUS
<1>4. PICK k, p : k = Len(text) + 1 /\ p = cursor'
  OBVIOUS
<1>5. /\ n \in Nat \ {0} /\ n \in 1 .. Len(text) /\ k \in Nat \ {0}
      /\ n <= k /\ next # 0 /\ text[n] = "char" /\ k \notin 1 .. Len(text)
  BY <1>2, <1>3, <1>4
<1>6. ASSUME TextIsShort PROVE DrawnTo(k)'
  <2>1. DrawnTo(n)
    BY <1>3, <1>5, <1>6 DEF TextInv
  <2>2. ASSUME Text!PerLine > 0
        PROVE  Place(n).y + Text!char_height > Height
    <3>1. CursorIsSet(n, c)
      BY <1>3, <1>5, <1>6, <2>2 DEF TextInv
    <3>2. Text!Wrapped = Place(n)
      BY <1>3, <1>5, <3>1 DEF CursorIsSet, WrapOf, Text!Wrapped
    <3> DEFINE w == Text!char_width
               i == Column(n)
               u == i * w
    <3>3. i \in 0 .. Text!PerLine - 1 /\ Text!PerLine \in Nat
      BY <1>1, <1>5, <2>2, ColumnFacts
    <3>4. i \in Nat /\ i + 1 \in Nat /\ i + 1 <= Text!PerLine
      BY <3>3
    <3>5. x + (i + 1) * w <= Width /\ x \in Nat /\ w \in Nat
      BY <1>1, <2>2, <3>4, LineHolds
    <3>6. (i + 1) * w = u + w /\ u \in Nat
      BY <3>4, <3>5
    <3>7. Place(n).x = x + u
      BY DEF Place
    <3> HIDE DEF u
    <3>8. Place(n).x + w <= Width
      <4> HIDE DEF w
      <4>1. x + (u + w) <= Width
        BY <3>5, <3>6
      <4>2. QED
        BY <3>5, <3>6, <3>7, <4>1
    <3>9. Place(n).y + Text!char_height \in Int /\ Height \in Int
      <4>1. Text!LineOf(n) \in Nat
        BY <1>5, BegunIsFinite
      <4>2. Text!char_height \in Nat /\ y \in Nat /\ Height \in Nat
        BY <1>1, LineHolds
      <4>3. QED
        BY <4>1, <4>2 DEF Place
    <3>10. ~ (Place(n).y + Text!char_height <= Height)
      BY <1>2, <3>2, <3>8, <3>9 DEF Text!Fits
    <3>11. QED
      BY <3>9, <3>10
  <2>3. \A m \in Text!Shown : ~ (n <= m /\ m < k)
    <3>1. \A m \in Text!Shown : m < n
      BY <1>1, <1>5, <2>2, BelowBottom
    <3>2. \A m \in Text!Shown : m \in Nat
      BY <1>1, ShownAre
    <3>3. QED
      BY <1>5, <3>1, <3>2
  <2>4. n \in Nat /\ k \in Nat
    BY <1>5
  <2>5. QED
    BY <1>1, <1>2, <1>5, <2>1, <2>3, <2>4, NothingToDraw
<1>7. k = (IF next' = 0 THEN Len(text) + 1 ELSE next') /\ next' = 0
  BY <1>2, <1>4
<1>8. QED
  BY <1>1, <1>4, <1>5, <1>6, <1>7, TextStepIs

(* A character that fits below the lines before it is shown. *)
LEMMA FitsIsShown ==
  ASSUME Text!LcdTextConstants, Text!TypeOK, Text!PerLine > 0,
         NEW n \in 1 .. Len(text), text[n] = "char",
         Place(n).y + Text!char_height <= Height
  PROVE  n \in Text!Shown
<1> DEFINE h == Text!char_height
           l == Text!LineOf(n)
           u == l * h
<1>1. /\ Text!PerLine \in Nat /\ h \in Nat /\ y \in Nat /\ Height \in Nat
      /\ Len(text) \in Nat /\ n \in DOMAIN text
  <2>1. Len(text) \in Nat /\ n \in DOMAIN text
    BY DEF Text!TypeOK
  <2>2. QED
    BY <2>1, LineHolds
<1>2. l \in Nat
  BY <1>1, BegunIsFinite
<1>3. (l + 1) * h = u + h /\ u \in Nat
  BY <1>1, <1>2
<1>4. y + u + h <= Height
  BY DEF Place
<1>5. y + (l + 1) * h <= Height
  <2> HIDE DEF u, h
  <2>1. y + (u + h) <= Height
    BY <1>1, <1>3, <1>4
  <2>2. QED
    BY <1>3, <2>1
<1>6. Text!PerLine # 0
  BY <1>1
<1>7. QED
  BY <1>1, <1>5, <1>6 DEF Text!Shown

(* Where the cursor stands that has drawn i characters from a place on, of *)
(* a line that holds them.                                                 *)
LEMMA CursorMoves ==
  ASSUME Text!LcdTextConstants, Text!TypeOK, Text!PerLine > 0,
         NEW n \in Nat \ {0}, NEW i \in Nat, Column(n) + i <= Text!PerLine
  PROVE  /\ Place(n).x + i * Text!char_width
              = x + (Column(n) + i) * Text!char_width
         /\ (Place(n).x + i * Text!char_width) % CursorWord
              = x + (Column(n) + i) * Text!char_width
<1> DEFINE w == Text!char_width
           col == Column(n)
           j == col + i
           t == j * w
           u == col * w
           v == i * w
<1>1. col \in Nat
  BY ColumnFacts
<1>2. j \in Nat /\ j = col + i
  BY <1>1
<1>3. /\ w \in Nat /\ x \in Nat /\ Width \in Nat /\ x + t <= Width
      /\ CursorWord \in Nat /\ Width \in 1 .. CursorWord - 1
  BY <1>2, LineHolds DEF Text!LcdTextConstants
<1> HIDE DEF j, col, w
<1>4. (col + i) * w = u + v /\ u \in Nat /\ v \in Nat
  BY <1>1, <1>3
<1>5. t = u + v /\ t \in Nat
  BY <1>2, <1>3, <1>4
<1>6. Place(n).x = x + u
  BY DEF Place, col, w
<1> DEFINE s == Place(n).x + v
           r == x + t
<1> HIDE DEF t, u, v
<1>7. s = r
  BY <1>3, <1>4, <1>5, <1>6
<1>8. r \in 0 .. CursorWord - 1 /\ CursorWord \in Nat \ {0}
  BY <1>3, <1>5
<1> HIDE DEF s, r
<1>9. s % CursorWord = r
  BY <1>7, <1>8
<1>10. s = r /\ s % CursorWord = r
  BY <1>7, <1>9
<1>11. QED
  BY <1>10 DEF s, r, t, v, j, col, w

(* On a display that is too narrow the cursor wraps before each character, *)
(* and none fits.                                                          *)
LEMMA TooNarrow ==
  ASSUME Text!LcdTextConstants, Text!TypeOK, Text!PerLine = 0, scale > 0,
         TextIsShort, cursor.x \in {x, x + Text!char_width}
  PROVE  /\ Text!Wrapped.x = x /\ ~ Text!Fits(Text!Wrapped)
         /\ (x + Text!char_width) % CursorWord = x + Text!char_width
<1> DEFINE w == Text!char_width
<1>1. /\ w \in Nat /\ x \in Nat /\ Width \in Nat /\ x + w > Width
      /\ CursorWord \in Nat /\ x + w < CursorWord
  BY LineHolds DEF Text!LcdTextConstants, TextIsShort
<1>2. cursor.x + w > Width
  <2> HIDE DEF w
  <2>1. x + w + w > Width
    BY <1>1
  <2>2. QED
    BY <1>1, <2>1 DEF w
<1>3. Text!Wrapped.x = x
  BY <1>2 DEF Text!Wrapped, Text!NextLine
<1>4. ~ Text!Fits(Text!Wrapped)
  <2>1. ~ (x + w <= Width)
    <3> HIDE DEF w
    <3>1. QED
      BY <1>1
  <2>2. QED
    BY <1>3, <2>1 DEF Text!Fits
<1>5. (x + w) % CursorWord = x + w
  <2> DEFINE s == x + w
  <2>1. s \in 0 .. CursorWord - 1 /\ CursorWord \in Nat \ {0}
    <3> HIDE DEF w
    <3>1. QED
      BY <1>1
  <2> HIDE DEF s
  <2>2. s % CursorWord = s
    BY <2>1
  <2>3. QED
    BY <2>2 DEF s
<1>6. QED
  BY <1>3, <1>4, <1>5

(* At larger scales a character is drawn at its place, or is not shown. *)
LEMMA CharIsDrawn ==
  ASSUME Text!LcdTextConstants, TextInv, Text!DrawChar
  PROVE  TextInv'
<1> DEFINE w == Text!char_width
<1>1. Text!TypeOK /\ Text!Next
  BY DEF TextInv, Text!Next
<1>2. /\ next' = next + 1 /\ UNCHANGED <<text, x, y, scale>>
      /\ text[next] = "char" /\ scale > 0
      /\ Text!Wrapped.y + Text!char_height <= Height
      /\ cells' = IF Text!Fits(Text!Wrapped)
                  THEN Append(cells, [x |-> Text!Wrapped.x,
                                      y |-> Text!Wrapped.y, char |-> next])
                  ELSE cells
      /\ cursor' = [Text!Wrapped EXCEPT !.x = (@ + w) % CursorWord]
      /\ cursor \in Text!Points
      /\ Len(text) \in Nat /\ next \in 1 .. Len(text)
      /\ Len(cells) \in Nat
  <2>1. next # 0
    BY <1>1 DEF Text!DrawChar, Text!TypeOK
  <2>2. scale > 0
    BY <2>1 DEF TextInv
  <2>3. QED
    BY <1>1, <2>2 DEF Text!DrawChar, Text!args, Text!TypeOK
<1>3. PICK n, c, wr : n = next /\ c = cursor /\ wr = Text!Wrapped
  OBVIOUS
<1>4. PICK k, p : k = n + 1 /\ p = cursor'
  OBVIOUS
<1>5. /\ n \in Nat \ {0} /\ n \in 1 .. Len(text) /\ k \in Nat \ {0}
      /\ k = next' /\ next' # 0 /\ next # 0 /\ c \in Text!Points
      /\ text[n] = "char" /\ w \in Nat
  <2>1. /\ n \in Nat \ {0} /\ n \in 1 .. Len(text) /\ k \in Nat \ {0}
        /\ k = next' /\ next' # 0 /\ next # 0
    BY <1>2, <1>3, <1>4
  <2>2. c \in Text!Points /\ text[n] = "char"
    BY <1>2, <1>3
  <2>3. w \in Nat
    BY <1>1, LineHolds
  <2>4. QED
    BY <2>1, <2>2, <2>3
<1>6. wr \in Text!Points /\ wr = [x |-> wr.x, y |-> wr.y] /\ wr = WrapOf(c)
  <2>1. wr = WrapOf(c)
    BY <1>3 DEF Text!Wrapped, WrapOf
  <2>2. wr \in Text!Points
    BY <1>1, <1>5, <2>1, PointsStay
  <2>3. QED
    BY <2>1, <2>2 DEF Text!Points
<1>7. p = [wr EXCEPT !.x = (@ + w) % CursorWord]
  BY <1>2, <1>3, <1>4
<1> HIDE DEF w
<1>8. p.x = (wr.x + w) % CursorWord /\ p.y = wr.y /\ p \in Text!Points
  <2>1. p.x = (wr.x + w) % CursorWord /\ p.y = wr.y
    BY <1>6, <1>7
  <2>2. p \in Text!Points
    BY <1>1, <1>5, <1>6, <1>7, PointsStay
  <2>3. QED
    BY <2>1, <2>2
<1>9. ASSUME TextIsShort, Text!PerLine = 0
      PROVE  DrawnTo(k)' /\ p.x \in {x, x + w}
  <2>1. DrawnTo(n) /\ c.x \in {x, x + w}
    BY <1>3, <1>5, <1>9 DEF TextInv, w
  <2>2. /\ wr.x = x /\ ~ Text!Fits(Text!Wrapped)
        /\ (x + w) % CursorWord = x + w
    BY <1>1, <1>2, <1>3, <1>9, <2>1, TooNarrow DEF w
  <2>3. UNCHANGED <<text, x, y, scale, cells>>
    BY <1>2, <2>2
  <2>4. \A m \in Text!Shown : ~ (n <= m /\ m < k)
    BY <1>1, <1>9, ShownAre
  <2>5. n \in Nat /\ k \in Nat /\ n <= k
    BY <1>4, <1>5
  <2>6. DrawnTo(k)'
    BY <1>1, <2>1, <2>3, <2>4, <2>5, NothingToDraw
  <2>7. QED
    BY <1>8, <2>2, <2>6
<1>10. ASSUME TextIsShort, Text!PerLine > 0
       PROVE  /\ DrawnTo(k)'
              /\ k \in 1 .. Len(text) => CursorIsSet(k, p)
  <2>1. DrawnTo(n) /\ CursorIsSet(n, c)
    BY <1>3, <1>5, <1>10 DEF TextInv
  <2>2. wr = Place(n)
    BY <1>5, <1>6, <2>1 DEF CursorIsSet
  <2>3. Column(n) + 1 <= Text!PerLine /\ Text!PerLine \in Nat
    <3>1. /\ Column(n) \in 0 .. Text!PerLine - 1
          /\ Text!PerLine \in Nat \ {0}
      BY <1>1, <1>5, <1>10, ColumnFacts
    <3>2. QED
      BY <3>1
  <2>4. /\ wr.x + 1 * w = x + (Column(n) + 1) * w
        /\ (wr.x + 1 * w) % CursorWord = x + (Column(n) + 1) * w
    BY <1>1, <1>5, <1>10, <2>2, <2>3, CursorMoves DEF w
  <2>5. /\ wr.x + w = x + (Column(n) + 1) * w
        /\ p.x = x + (Column(n) + 1) * w
    <3>1. 1 * w = w
      BY <1>5
    <3>2. QED
      BY <1>8, <2>4, <3>1
  <2>6. wr.x + w <= Width
    <3>1. Column(n) + 1 \in Nat
      <4>1. Column(n) \in 0 .. Text!PerLine - 1
        BY <1>1, <1>5, <1>10, ColumnFacts
      <4>2. QED
        BY <2>3, <4>1
    <3>2. x + (Column(n) + 1) * w <= Width
      BY <1>1, <1>10, <2>3, <3>1, LineHolds DEF w
    <3>3. QED
      BY <2>5, <3>2
  <2>7. Text!Fits(Text!Wrapped) /\ n \in Text!Shown
    <3>1. wr.y + Text!char_height <= Height
      BY <1>2, <1>3
    <3>2. n \in Text!Shown
      BY <1>1, <1>5, <1>10, <2>2, <3>1, FitsIsShown
    <3>3. QED
      BY <1>3, <2>6, <3>1, <3>2 DEF Text!Fits, w
  <2>8. cells' = Append(cells, [x |-> wr.x, y |-> wr.y, char |-> n])
    BY <1>2, <1>3, <2>7
  <2>9. DrawnTo(n + 1)'
    <3>1. /\ Len(cells') = Len(cells) + 1
          /\ \A i \in 1 .. Len(cells) : cells'[i] = cells[i]
          /\ cells'[Len(cells) + 1] = [x |-> wr.x, y |-> wr.y, char |-> n]
      BY <1>1, <2>8 DEF Text!TypeOK
    <3>2. ASSUME NEW j \in 1 .. 1
          PROVE  /\ n + j - 1 \in Text!Shown
                 /\ cells'[Len(cells) + j].char = n + j - 1
                 /\ cells'[Len(cells) + j].x = Place(n + j - 1).x
                 /\ cells'[Len(cells) + j].y = Place(n + j - 1).y
      <4>1. j = 1 /\ n + j - 1 = n
        BY <1>5
      <4>2. QED
        BY <2>2, <2>7, <3>1, <4>1
    <3>3. n \in Nat /\ 1 \in Nat
      BY <1>5
    <3>4. QED
      BY <1>1, <1>2, <2>1, <3>1, <3>2, <3>3, MoreIsDrawn
  <2>10. DrawnTo(k)'
    BY <1>4, <2>9
  <2>11. ASSUME k \in 1 .. Len(text) PROVE CursorIsSet(k, p)
    <3>1. n + 1 <= Len(text)
      BY <1>2, <1>4, <2>11
    <3>2. p.y = y + Text!LineOf(n) * Text!char_height
      BY <1>8, <2>2 DEF Place
    <3>3. CursorIsSet(n + 1, p)
      BY <1>1, <1>5, <1>8, <1>10, <2>5, <3>1, <3>2, BehindCharacter DEF w
    <3>4. QED
      BY <1>4, <3>3
  <2>12. QED
    BY <2>10, <2>11
<1>11. k = IF next' = 0 THEN Len(text) + 1 ELSE next'
  BY <1>5
<1>12. Text!PerLine = 0 \/ Text!PerLine > 0
  <2>1. Text!PerLine \in Nat
    BY <1>1, LineHolds
  <2>2. QED
    BY <2>1
<1>13. TextIsShort =>
         /\ DrawnTo(k)'
         /\ k \in 1 .. Len(text) /\ Text!PerLine > 0 => CursorIsSet(k, p)
         /\ next' # 0 /\ Text!PerLine = 0 => p.x \in {x, x + Text!char_width}
  BY <1>9, <1>10, <1>12 DEF w
<1>14. QED
  BY <1>1, <1>4, <1>11, <1>13, TextStepIs

(* What a list with a row behind it holds. *)
LEMMA RowBehind ==
  ASSUME NEW S, NEW s \in Seq(S), NEW c \in Nat,
         NEW f, DOMAIN f = 1 .. c, f = [i \in 1 .. c |-> f[i]]
  PROVE  /\ Len(s \o f) = Len(s) + c
         /\ \A i \in 1 .. Len(s) : (s \o f)[i] = s[i]
         /\ \A j \in 1 .. c : (s \o f)[Len(s) + j] = f[j]
<1> DEFINE T == {f[i] : i \in 1 .. c}
           V == S \cup T
<1>1. f \in [1 .. c -> T]
  OBVIOUS
<1> HIDE DEF T
<1>2. f \in Seq(T) /\ Len(f) = c
  BY <1>1
<1>3. s \in Seq(V) /\ f \in Seq(V)
  BY <1>2
<1> HIDE DEF V
<1>4. /\ Len(s \o f) = Len(s) + Len(f)
      /\ \A i \in 1 .. Len(s) + Len(f) :
           (s \o f)[i] = IF i <= Len(s) THEN s[i] ELSE f[i - Len(s)]
  BY <1>3, ConcatProperties
<1>5. Len(s) \in Nat
  OBVIOUS
<1>6. ASSUME NEW i \in 1 .. Len(s) PROVE (s \o f)[i] = s[i]
  BY <1>2, <1>4, <1>5
<1>7. ASSUME NEW j \in 1 .. c PROVE (s \o f)[Len(s) + j] = f[j]
  <2> DEFINE i == Len(s) + j
  <2>1. i \in 1 .. Len(s) + Len(f) /\ ~ (i <= Len(s)) /\ i - Len(s) = j
    BY <1>2, <1>5
  <2> HIDE DEF i
  <2>2. (s \o f)[i] = f[j]
    BY <1>4, <2>1
  <2>3. QED
    BY <2>2 DEF i
<1>8. QED
  BY <1>2, <1>4, <1>6, <1>7

(* At scale 1 the characters of a row are drawn, each at its place. *)
LEMMA RowIsDrawn ==
  ASSUME Text!LcdTextConstants, TextInv, Text!DrawLine
  PROVE  TextInv'
<1> DEFINE w == Text!char_width
<1>1. Text!TypeOK /\ Text!Next
  BY DEF TextInv, Text!Next
<1>2. /\ UNCHANGED <<text, x, y, scale>>
      /\ text[next] = "char" /\ Text!Fits(Text!Wrapped)
      /\ next' = next + Text!Line(Text!Wrapped)
      /\ cells' = cells \o
              [i \in 1 .. Text!Line(Text!Wrapped) |->
                 [x |-> Text!Wrapped.x + (i - 1) * w, y |-> Text!Wrapped.y,
                  char |-> next + i - 1]]
      /\ cursor' = [Text!Wrapped EXCEPT !.x =
                      (@ + Text!Line(Text!Wrapped) * w) % CursorWord]
      /\ cursor \in Text!Points /\ scale > 0
      /\ Len(text) \in Nat /\ next \in 1 .. Len(text)
  BY <1>1 DEF Text!DrawLine, Text!args, Text!TypeOK
<1>3. PICK n, c, wr, count : /\ n = next /\ c = cursor /\ wr = Text!Wrapped
                             /\ count = Text!Line(Text!Wrapped)
  OBVIOUS
<1>4. PICK k, p : k = n + count /\ p = cursor'
  OBVIOUS
<1>5. /\ n \in Nat \ {0} /\ n \in 1 .. Len(text) /\ next # 0
      /\ c \in Text!Points /\ text[n] = "char" /\ w \in Nat
  <2>1. n \in Nat \ {0} /\ n \in 1 .. Len(text) /\ next # 0
    BY <1>2, <1>3
  <2>2. c \in Text!Points /\ text[n] = "char"
    BY <1>2, <1>3
  <2>3. w \in Nat
    BY <1>1, LineHolds
  <2>4. QED
    BY <2>1, <2>2, <2>3
<1>6. wr \in Text!Points /\ wr = [x |-> wr.x, y |-> wr.y] /\ wr = WrapOf(c)
  <2>1. wr = WrapOf(c)
    BY <1>3 DEF Text!Wrapped, WrapOf
  <2>2. wr \in Text!Points
    BY <1>1, <1>5, <2>1, PointsStay
  <2>3. QED
    BY <2>1, <2>2 DEF Text!Points
<1>7. p = [wr EXCEPT !.x = (@ + count * w) % CursorWord]
  BY <1>2, <1>3, <1>4
<1> HIDE DEF w
<1>8. /\ count \in 1 .. Len(text) + 1 - n
      /\ \A i \in 1 .. count : /\ n + i - 1 \in 1 .. Len(text)
                               /\ text[n + i - 1] = "char"
                               /\ wr.x + i * w <= Width
  <2>1. wr.x \in Nat
    BY <1>6 DEF Text!Points, Text!LcdTextConstants
  <2>2. Text!Fits(wr) /\ Text!char_width \in Nat
    BY <1>2, <1>3, <1>5 DEF w
  <2>3. next \in 1 .. Len(text) /\ text[next] = "char"
    BY <1>2
  <2>4. LET m == Text!Line(wr) IN
        /\ m \in 1 .. Len(text) + 1 - next
        /\ \A i \in 1 .. m :
             /\ next + i - 1 \in 1 .. Len(text)
             /\ text[next + i - 1] = "char"
             /\ wr.x + i * Text!char_width <= Width
    BY <1>1, <2>1, <2>2, <2>3, LineFound
  <2>5. count = Text!Line(wr) /\ n = next
    BY <1>3
  <2>6. QED
    BY <2>4, <2>5 DEF w
<1>9. /\ count \in Nat /\ count > 0 /\ k \in Nat \ {0} /\ k = next'
      /\ n <= k /\ next' # 0 /\ k <= Len(text) + 1 /\ Len(text) \in Nat
  <2>1. count \in 1 .. Len(text) + 1 - n /\ next' = n + count
    BY <1>2, <1>3, <1>8
  <2>2. Len(text) \in Nat
    BY <1>2
  <2>3. QED
    BY <1>4, <1>5, <2>1, <2>2
<1>10. /\ p.x = (wr.x + count * w) % CursorWord /\ p.y = wr.y
       /\ p \in Text!Points
  <2>1. count * w \in Nat
    BY <1>5, <1>9
  <2>2. p.x = (wr.x + count * w) % CursorWord /\ p.y = wr.y
    BY <1>6, <1>7
  <2>3. p \in Text!Points
    BY <1>1, <1>6, <1>7, <2>1, PointsStay
  <2>4. QED
    BY <2>2, <2>3
<1>11. ASSUME TextIsShort, Text!PerLine = 0 PROVE FALSE
  <2>1. c.x \in {x, x + w}
    BY <1>3, <1>5, <1>11 DEF TextInv, w
  <2>2. ~ Text!Fits(Text!Wrapped)
    BY <1>1, <1>2, <1>3, <1>11, <2>1, TooNarrow DEF w
  <2>3. QED
    BY <1>2, <2>2
<1>12. ASSUME TextIsShort, Text!PerLine > 0
       PROVE  /\ DrawnTo(k)'
              /\ k \in 1 .. Len(text) => CursorIsSet(k, p)
  <2> DEFINE col == Column(n)
  <2>1. DrawnTo(n) /\ CursorIsSet(n, c)
    BY <1>3, <1>5, <1>12 DEF TextInv
  <2>2. wr = Place(n)
    BY <1>5, <1>6, <2>1 DEF CursorIsSet
  <2>3. col \in Nat /\ Text!PerLine \in Nat \ {0} /\ x \in Nat
    <3>1. col \in 0 .. Text!PerLine - 1 /\ Text!PerLine \in Nat \ {0}
      BY <1>1, <1>5, <1>12, ColumnFacts
    <3>2. x \in Nat
      BY <1>1, LineHolds
    <3>3. QED
      BY <3>1, <3>2
  <2>4. wr.x = x + col * w
    BY <2>2 DEF Place, w
  <2> HIDE DEF col
  <2>5. ASSUME NEW i \in Nat PROVE wr.x + i * w = x + (col + i) * w
    <3> DEFINE u == col * w
               v == i * w
    <3>1. (col + i) * w = u + v /\ u \in Nat /\ v \in Nat
      BY <1>5, <2>3
    <3> HIDE DEF u, v
    <3>2. wr.x + v = x + (u + v)
      BY <2>3, <2>4, <3>1 DEF u
    <3>3. QED
      BY <3>1, <3>2 DEF v
  <2>6. col + count <= Text!PerLine
    <3>1. wr.x + count * w <= Width
      BY <1>8, <1>9
    <3>2. x + (col + count) * w <= Width
      BY <1>9, <2>5, <3>1
    <3>3. col + count \in Nat
      BY <1>9, <2>3
    <3>4. QED
      BY <1>1, <1>12, <3>2, <3>3, LineHolds DEF w
  <2>7. \A m \in n .. n + count - 1 : text[m] = "char"
    <3>1. ASSUME NEW m \in n .. n + count - 1 PROVE text[m] = "char"
      <4>1. m - n + 1 \in 1 .. count /\ n + (m - n + 1) - 1 = m
        BY <1>5, <1>9
      <4>2. QED
        BY <1>8, <4>1
    <3>2. QED
      BY <3>1
  <2>8. ASSUME NEW i \in Nat, i < count
        PROVE  /\ Column(n + i) = col + i
               /\ Text!LineOf(n + i) = Text!LineOf(n)
    BY <1>1, <1>5, <1>9, <1>12, <2>6, <2>7, <2>8, RowPlaces DEF col
  <2>9. ASSUME NEW i \in Nat, i < count
        PROVE  Place(n + i) = [x |-> wr.x + i * w, y |-> wr.y]
    <3>1. Place(n + i).y = wr.y
      BY <2>2, <2>8, <2>9 DEF Place
    <3>2. Place(n + i).x = x + (col + i) * w
      BY <2>8, <2>9 DEF Place, w
    <3>3. Place(n + i).x = wr.x + i * w
      BY <2>5, <3>2
    <3>4. QED
      BY <3>1, <3>3 DEF Place
  <2>10. ASSUME NEW j \in 1 .. count
         PROVE  /\ n + j - 1 \in Text!Shown
                /\ cells'[Len(cells) + j].char = n + j - 1
                /\ cells'[Len(cells) + j].x = Place(n + j - 1).x
                /\ cells'[Len(cells) + j].y = Place(n + j - 1).y
    <3> DEFINE i == j - 1
               m == n + j - 1
    <3>1. i \in Nat /\ i < count /\ m = n + i
      BY <1>5, <1>9
    <3>2. Place(m) = [x |-> wr.x + (j - 1) * w, y |-> wr.y]
      <4>1. Place(n + i) = [x |-> wr.x + i * w, y |-> wr.y]
        BY <2>9, <3>1
      <4>2. QED
        BY <3>1, <4>1
    <3>3. m \in 1 .. Len(text) /\ text[m] = "char"
      BY <1>8
    <3>4. Place(m).y + Text!char_height <= Height
      BY <1>2, <1>3, <3>2 DEF Text!Fits
    <3>5. m \in Text!Shown
      BY <1>1, <1>12, <3>3, <3>4, FitsIsShown
    <3>6. cells'[Len(cells) + j] =
            [x |-> wr.x + (j - 1) * w, y |-> wr.y, char |-> m]
      <4> DEFINE new == [b \in 1 .. count |->
                 [x |-> wr.x + (b - 1) * w, y |-> wr.y, char |-> n + b - 1]]
      <4>1. cells' = cells \o new /\ Len(cells) \in Nat
        BY <1>1, <1>2, <1>3 DEF Text!TypeOK, w
      <4>2. new[j] = [x |-> wr.x + (j - 1) * w, y |-> wr.y, char |-> m]
        OBVIOUS
      <4>3. DOMAIN new = 1 .. count /\ new = [b \in 1 .. count |-> new[b]]
        OBVIOUS
      <4> HIDE DEF new, m
      <4>4. cells \in Seq([x : Nat, y : Nat, char : DOMAIN text])
        BY <1>1 DEF Text!TypeOK
      <4>5. (cells \o new)[Len(cells) + j] = new[j]
        BY <1>9, <4>3, <4>4, RowBehind
      <4>6. QED
        BY <4>1, <4>2, <4>5
    <3> HIDE DEF m
    <3>7. QED
      BY <3>2, <3>5, <3>6 DEF m
  <2>11. /\ Len(cells') = Len(cells) + count
         /\ \A i \in 1 .. Len(cells) : cells'[i] = cells[i]
    <3> DEFINE new == [b \in 1 .. count |->
                 [x |-> wr.x + (b - 1) * w, y |-> wr.y, char |-> n + b - 1]]
    <3>1. cells' = cells \o new
      BY <1>2, <1>3 DEF w
    <3>2. DOMAIN new = 1 .. count /\ new = [b \in 1 .. count |-> new[b]]
      OBVIOUS
    <3> HIDE DEF new
    <3>3. cells \in Seq([x : Nat, y : Nat, char : DOMAIN text])
      BY <1>1 DEF Text!TypeOK
    <3>4. QED
      BY <1>9, <3>1, <3>2, <3>3, RowBehind
  <2>12. DrawnTo(k)'
    <3>1. DrawnTo(n + count)'
      BY <1>1, <1>2, <1>5, <1>9, <2>1, <2>10, <2>11, MoreIsDrawn
    <3>2. QED
      BY <1>4, <3>1
  <2>13. ASSUME k \in 1 .. Len(text) PROVE CursorIsSet(k, p)
    <3> DEFINE d == count - 1
               m == n + d
    <3>1. /\ d \in Nat /\ d < count /\ m + 1 = k /\ m \in Nat \ {0}
          /\ m \in n .. n + count - 1 /\ d + 1 = count
      BY <1>4, <1>5, <1>9
    <3>2. m + 1 <= Len(text) /\ text[m] = "char"
      BY <2>7, <2>13, <3>1
    <3>3. Column(m) = col + d /\ Text!LineOf(m) = Text!LineOf(n)
      BY <2>8, <3>1
    <3> HIDE DEF d, m
    <3>4. Column(m) + 1 = col + count
      BY <2>3, <3>1, <3>3
    <3>5. p.x = x + (col + count) * w
      <4>1. (Place(n).x + count * w) % CursorWord = x + (col + count) * w
        BY <1>1, <1>5, <1>9, <1>12, <2>6, CursorMoves DEF w, col
      <4>2. QED
        BY <1>10, <2>2, <4>1
    <3>6. p.x = x + (Column(m) + 1) * Text!char_width
      BY <3>4, <3>5 DEF w
    <3>7. p.y = y + Text!LineOf(m) * Text!char_height
      BY <1>10, <2>2, <3>3 DEF Place
    <3>8. CursorIsSet(m + 1, p)
      BY <1>1, <1>10, <1>12, <3>1, <3>2, <3>6, <3>7, BehindCharacter
    <3>9. QED
      BY <3>1, <3>8
  <2>14. QED
    BY <2>12, <2>13
<1>13. k = IF next' = 0 THEN Len(text) + 1 ELSE next'
  BY <1>9
<1>14. Text!PerLine = 0 \/ Text!PerLine > 0
  <2>1. Text!PerLine \in Nat
    BY <1>1, LineHolds
  <2>2. QED
    BY <2>1
<1>15. TextIsShort =>
         /\ DrawnTo(k)'
         /\ k \in 1 .. Len(text) /\ Text!PerLine > 0 => CursorIsSet(k, p)
         /\ next' # 0 /\ Text!PerLine = 0 => p.x \in {x, x + Text!char_width}
  BY <1>11, <1>12, <1>14
<1>16. QED
  BY <1>1, <1>4, <1>13, <1>15, TextStepIs

(* What bsp_lcd_printf keeps of a text is a text. *)
LEMMA TruncatedIsText ==
  ASSUME Text!LcdTextConstants, NEW S, NEW s \in Seq(S)
  PROVE  Text!Truncated(s) \in Seq(S)
<1> DEFINE T == {Len(s), BufferSize - 1}
<1>1. Len(s) \in Nat /\ BufferSize - 1 \in Nat
  BY DEF Text!LcdTextConstants
<1>2. PICK m \in T : \A k \in T : m <= k
  BY <1>1
<1>3. m \in 0 .. Len(s)
  BY <1>1, <1>2
<1>4. Text!Min(T) = m
  <2>1. \A k \in T : k \in Nat
    BY <1>1
  <2> HIDE DEF T
  <2>2. \E k \in T : \A l \in T : k <= l
    BY <1>2
  <2>3. Text!Min(T) \in T /\ \A k \in T : Text!Min(T) <= k
    BY <2>2 DEF Text!Min
  <2>4. QED
    BY <1>2, <2>1, <2>3
<1> HIDE DEF T
<1>5. Text!Truncated(s) = SubSeq(s, 1, m)
  BY <1>4 DEF Text!Truncated, T
<1>6. QED
  BY <1>1, <1>3, <1>5

(* A call starts at its margin, with nothing drawn. *)
LEMMA TextInvAtStart ==
  ASSUME Text!LcdTextConstants, Text!Init
  PROVE  TextInv
<1>1. /\ text \in AllTexts \cup {Text!Truncated(t) : t \in AllTexts}
      /\ [x |-> x, y |-> y] \in Text!Points
      /\ cursor = [x |-> x, y |-> y]
      /\ scale \in Nat /\ cells = <<>>
      /\ next = IF scale = 0 THEN 0 ELSE 1
  BY DEF Text!Init, Text!LcdTextConstants, Text!Points
<1>2. text \in Seq({"char", "newline"})
  <2>1. AllTexts \subseteq Seq({"char", "newline"})
    BY DEF Text!LcdTextConstants
  <2>2. \A t \in AllTexts : Text!Truncated(t) \in Seq({"char", "newline"})
    BY <2>1, TruncatedIsText
  <2>3. QED
    BY <1>1, <2>1, <2>2
<1>3. Text!TypeOK
  <2>1. next \in 0 .. Len(text) + 1
    BY <1>1, <1>2
  <2>2. cells \in Seq([x : Nat, y : Nat, char : DOMAIN text])
    BY <1>1
  <2>3. QED
    BY <1>1, <1>2, <2>1, <2>2 DEF Text!TypeOK
<1>4. Len(cells) = 0
  BY <1>1
<1>5. scale = 0 => Text!PerLine = 0
  BY <1>1 DEF Text!PerLine
<1>6. DrawnTo(IF next = 0 THEN Len(text) + 1 ELSE next)
  <2>1. \A m \in Text!Shown : next # 0 /\ m > 0 /\ m \in Nat
    BY <1>1, <1>3, <1>5, ShownAre
  <2>2. \A m \in Text!Shown :
          ~ (m < (IF next = 0 THEN Len(text) + 1 ELSE next))
    BY <1>1, <2>1
  <2>3. QED
    BY <1>4, <2>2 DEF DrawnTo
<1>7. ASSUME Text!PerLine > 0 PROVE CursorIsSet(1, cursor)
  <2>1. Text!Begin(1) = 1
    BY <1>3, BeginFacts
  <2>2. Text!LineOf(1) = 0
    BY BegunIsFinite
  <2>3. cursor = [x |-> x, y |-> y + Text!LineOf(1) * Text!char_height]
    BY <1>1, <1>3, <2>2, LineHolds
  <2>4. QED
    BY <1>3, <1>7, <2>1, <2>3, AtMargin
<1>8. next # 0 => scale > 0 /\ next = 1
  BY <1>1
<1>9. next \in 1 .. Len(text) /\ Text!PerLine > 0 =>
        CursorIsSet(next, cursor)
  BY <1>7, <1>8
<1>10. cursor.x \in {x, x + Text!char_width}
  BY <1>1
<1>11. QED
  BY <1>3, <1>6, <1>8, <1>9, <1>10 DEF TextInv

(* A step keeps the invariant. *)
LEMMA TextStep ==
  ASSUME Text!LcdTextConstants
  PROVE  TextInv /\ [Text!Next]_(Text!vars) => TextInv'
<1> SUFFICES ASSUME TextInv, [Text!Next]_(Text!vars) PROVE TextInv'
  OBVIOUS
<1>1. CASE Text!EndOfText
  BY <1>1, TextEnds
<1>2. CASE Text!Newline
  BY <1>2, TextBreaks
<1>3. CASE Text!Full
  BY <1>3, TextIsCut
<1>4. CASE Text!DrawLine
  BY <1>4, RowIsDrawn
<1>5. CASE Text!DrawChar
  BY <1>5, CharIsDrawn
<1>6. CASE UNCHANGED Text!vars
  <2>1. UNCHANGED <<text, x, y, scale, cursor, next, cells>>
    BY <1>6 DEF Text!vars, Text!args
  <2>2. /\ Text!Shown' = Text!Shown /\ Text!PerLine' = Text!PerLine
        /\ Text!char_width' = Text!char_width
        /\ Text!char_height' = Text!char_height
        /\ \A n : Text!LineOf(n)' = Text!LineOf(n) /\ Place(n)' = Place(n)
        /\ TextIsShort' <=> TextIsShort
    BY <2>1, LayoutStays
  <2>3. Text!TypeOK' <=> Text!TypeOK
    BY <2>1 DEF Text!TypeOK
  <2>4. DrawnTo(IF next = 0 THEN Len(text) + 1 ELSE next)' <=>
          DrawnTo(IF next = 0 THEN Len(text) + 1 ELSE next)
    BY <2>1, <2>2 DEF DrawnTo
  <2>5. CursorIsSet(next, cursor)' <=> CursorIsSet(next, cursor)
    BY <2>1, <2>2 DEF CursorIsSet, WrapOf, Text!NextLine
  <2>6. QED
    BY <2>1, <2>2, <2>3, <2>4, <2>5 DEF TextInv
<1>7. QED
  BY <1>1, <1>2, <1>3, <1>4, <1>5, <1>6 DEF Text!Next

(* What the invariant says of what is drawn: it is in order, ... *)
LEMMA DrawnIsInOrder ==
  ASSUME Text!LcdTextConstants, TextInv, TextIsShort
  PROVE  Text!CellsInOrder
<1> DEFINE w == Text!char_width
           h == Text!char_height
<1>1. Text!TypeOK /\ \E k : DrawnTo(k)
  BY DEF TextInv
<1>2. DOMAIN cells = 1 .. Len(cells)
  BY <1>1 DEF Text!TypeOK
<1>3. PICK k : DrawnTo(k)
  BY <1>1
<1>4. w \in Nat /\ h \in Nat /\ x \in Nat /\ y \in Nat
  BY <1>1, LineHolds
<1>5. ASSUME NEW i \in 1 .. Len(cells)
      PROVE  LET m == cells[i].char IN
             /\ m \in 1 .. Len(text) /\ text[m] = "char"
             /\ Text!PerLine > 0 /\ m \in Nat \ {0}
             /\ Column(m) \in Nat /\ Text!LineOf(m) \in Nat
             /\ cells[i].x = x + Column(m) * w
             /\ cells[i].y = y + Text!LineOf(m) * h
  <2>1. PICK m : m = cells[i].char
    OBVIOUS
  <2>2. /\ m \in Text!Shown
        /\ cells[i].x = Place(m).x /\ cells[i].y = Place(m).y
    BY <1>3, <2>1 DEF DrawnTo
  <2>3. /\ m \in 1 .. Len(text) /\ text[m] = "char" /\ m \in Nat
        /\ Text!PerLine # 0
    BY <1>1, <2>2, ShownAre
  <2>4. Text!PerLine > 0 /\ m \in Nat \ {0}
    <3>1. Text!PerLine \in Nat
      BY <1>1, LineHolds
    <3>2. m > 0
      BY <2>3
    <3>3. QED
      BY <2>3, <3>1, <3>2
  <2>5. Column(m) \in Nat
    <3>1. Column(m) \in 0 .. Text!PerLine - 1
      BY <1>1, <2>4, ColumnFacts
    <3>2. QED
      BY <3>1
  <2>6. Text!LineOf(m) \in Nat
    BY <2>3, BegunIsFinite
  <2>7. QED
    BY <2>1, <2>2, <2>3, <2>4, <2>5, <2>6 DEF Place
<1> HIDE DEF w, h
<1>6. ASSUME NEW i \in 1 .. Len(cells)
      PROVE  cells[i].x >= x
  <2>1. PICK c : c = Column(cells[i].char)
    OBVIOUS
  <2>2. c \in Nat /\ cells[i].x = x + c * w
    BY <1>5, <2>1
  <2>3. c * w \in Nat
    BY <1>4, <2>2
  <2>4. QED
    BY <1>4, <2>2, <2>3
<1>7. ASSUME NEW i \in 1 .. Len(cells), NEW j \in 1 .. Len(cells), i < j
      PROVE  /\ cells[i].char < cells[j].char
             /\ \/ cells[i].y + h <= cells[j].y
                \/ cells[i].y = cells[j].y /\ cells[i].x + w <= cells[j].x
  <2>1. PICK m, n : m = cells[i].char /\ n = cells[j].char
    OBVIOUS
  <2>2. m < n
    BY <1>3, <1>7, <2>1 DEF DrawnTo
  <2>3. PICK a, b, c, d : /\ a = Text!LineOf(m) /\ b = Text!LineOf(n)
                          /\ c = Column(m) /\ d = Column(n)
    OBVIOUS
  <2>4. /\ m \in 1 .. Len(text) /\ n \in 1 .. Len(text)
        /\ text[m] = "char" /\ text[n] = "char" /\ Text!PerLine > 0
    BY <1>5, <2>1
  <2>5. a + 1 <= b \/ (a = b /\ c + 1 <= d)
    BY <1>1, <2>2, <2>3, <2>4, PlacesInOrder
  <2>6. /\ a \in Nat /\ c \in Nat
        /\ cells[i].x = x + c * w /\ cells[i].y = y + a * h
    BY <1>5, <2>1, <2>3
  <2>7. /\ b \in Nat /\ d \in Nat
        /\ cells[j].x = x + d * w /\ cells[j].y = y + b * h
    BY <1>5, <2>1, <2>3
  <2>8. ASSUME NEW p \in Nat, NEW q \in Nat, p + 1 <= q,
               NEW z \in Nat, NEW g \in Nat
        PROVE  (g + p * z) + z <= g + q * z
    <3> DEFINE u == p * z
               v == q * z
               r == (p + 1) * z
    <3>1. r <= v /\ r \in Nat /\ v \in Nat
      BY <2>8, TimesGrows
    <3>2. r = u + z /\ u \in Nat
      OBVIOUS
    <3> HIDE DEF u, v, r
    <3>3. (g + u) + z <= g + v
      BY <3>1, <3>2
    <3>4. QED
      BY <3>3 DEF u, v
  <2>9. CASE a + 1 <= b
    <3>1. cells[i].y + h <= cells[j].y
      BY <1>4, <2>6, <2>7, <2>8, <2>9
    <3>2. QED
      BY <2>1, <2>2, <3>1
  <2>10. CASE a = b /\ c + 1 <= d
    <3>1. cells[i].y = cells[j].y /\ cells[i].x + w <= cells[j].x
      BY <1>4, <2>6, <2>7, <2>8, <2>10
    <3>2. QED
      BY <2>1, <2>2, <3>1
  <2>11. QED
    BY <2>5, <2>9, <2>10
<1>8. QED
  BY <1>2, <1>6, <1>7 DEF Text!CellsInOrder, w, h

(* ... and when the call returns, the layout. *)
LEMMA DrawnIsLayout ==
  ASSUME Text!LcdTextConstants, TextInv, TextIsShort
  PROVE  Text!DrawsLayout
<1> SUFFICES ASSUME next = 0
             PROVE  {<<c.char, c.x, c.y>> :
                       c \in {cells[i] : i \in DOMAIN cells}}
                      = {<<n, Text!Layout[n].x, Text!Layout[n].y>> :
                           n \in Text!Shown}
  BY DEF Text!DrawsLayout
<1>1. Text!TypeOK /\ DrawnTo(Len(text) + 1)
  BY DEF TextInv
<1>2. DOMAIN cells = 1 .. Len(cells)
  BY <1>1 DEF Text!TypeOK
<1>3. \A n \in Text!Shown : Text!Layout[n] = Place(n)
  BY DEF Text!Layout, Place, Column
<1>4. ASSUME NEW i \in 1 .. Len(cells)
      PROVE  LET m == cells[i].char IN
             /\ m \in Text!Shown
             /\ cells[i].x = Text!Layout[m].x
             /\ cells[i].y = Text!Layout[m].y
  BY <1>1, <1>3 DEF DrawnTo
<1>5. ASSUME NEW n \in Text!Shown
      PROVE  \E i \in 1 .. Len(cells) : cells[i].char = n
  <2>1. n < Len(text) + 1
    <3>1. n \in 1 .. Len(text) /\ Len(text) \in Nat
      BY <1>1, ShownAre DEF Text!TypeOK
    <3>2. QED
      BY <3>1
  <2>2. QED
    BY <1>1, <2>1 DEF DrawnTo
<1>6. QED
  BY <1>2, <1>4, <1>5

(* The text renderer's safety, for every size of the display, of its       *)
(* characters and of uint16_t, every text, start and scale: types and the  *)
(* row buffer's size without condition, order and layout where the cursor  *)
(* does not run past uint16_t.                                             *)
THEOREM TextInvariant ==
  ASSUME Text!LcdTextConstants
  PROVE  Text!Init /\ [][Text!Next]_(Text!vars) =>
           [](/\ TextInv /\ Text!TypeOK /\ Text!RowFitsBuffer
              /\ TextIsShort => Text!CellsInOrder /\ Text!DrawsLayout)
<1>1. Text!Init => TextInv
  BY TextInvAtStart
<1>2. TextInv /\ [Text!Next]_(Text!vars) => TextInv'
  BY TextStep
<1>3. TextInv => /\ Text!TypeOK /\ Text!RowFitsBuffer
                 /\ TextIsShort => Text!CellsInOrder /\ Text!DrawsLayout
  <2>1. TextInv => Text!TypeOK
    BY DEF TextInv
  <2>2. Text!TypeOK => Text!RowFitsBuffer
    BY RowsFit
  <2>3. TextInv /\ TextIsShort => Text!CellsInOrder /\ Text!DrawsLayout
    BY DrawnIsInOrder, DrawnIsLayout
  <2>4. QED
    BY <2>1, <2>2, <2>3
<1>4. QED
  BY <1>1, <1>2, <1>3, PTL

-----------------------------------------------------------------------------
(* The parts side by side: each is a behaviour of its own. *)

(* What the others do leaves the heap, the critical sections and the byte  *)
(* queue alone.                                                            *)
LEMMA PartsRunAlone ==
  Spec => Heap!Spec /\ Critical!Spec /\ Queue!Spec
<1> DEFINE all == <<part, keyVars, textVars, queueVars, heapVars, sectionVars>>
<1>1. Init => Heap!Init /\ Critical!Init /\ Queue!Init
  BY DEF Init
<1>2. /\ heapVars = Heap!vars /\ sectionVars = Critical!vars
      /\ queueVars = Queue!vars
  BY DEF heapVars, sectionVars, queueVars, Heap!vars, Critical!vars,
         Queue!vars
<1>3. [Next]_all => [Heap!Next]_(Heap!vars)
  BY <1>2 DEF Next, heapVars, Heap!vars
<1>4. [Next]_all => [Critical!Next]_(Critical!vars)
  BY <1>2 DEF Next, sectionVars, Critical!vars
<1>5. [Next]_all => [Queue!Next]_(Queue!vars)
  BY <1>2 DEF Next, queueVars, Queue!vars
<1>6. QED
  BY <1>1, <1>3, <1>4, <1>5, PTL
     DEF Spec, Heap!Spec, Critical!Spec, Queue!Spec

(* The heap keeps every promise of pvPortMalloc, pvPortCalloc and          *)
(* vPortFree, for every heap, alignment, header and sizes asked for: no    *)
(* byte is given out twice or lost, neighbours that are free are joined,   *)
(* the count is exact, a block has room for what was asked, and nothing    *)
(* is refused that a row of free bytes would hold.                         *)
THEOREM HeapStaysSound ==
  Spec => []HeapIsSound
<1>1. Heap!Heap4Constants
  BY PartsAssumption
<1>2. Heap!Spec => []Heap!IsSound
  <2>1. Heap!Spec => [](HeapInv /\ Heap!IsSound)
    BY <1>1, HeapInvariant
  <2>2. QED
    BY <2>1, PTL
<1>3. HeapIsSound <=> Heap!IsSound
  BY DEF HeapIsSound
<1>4. QED
  BY <1>2, <1>3, PartsRunAlone, PTL

(* A critical section is atomic whichever mechanism it uses, and its end   *)
(* gives interrupts back as its beginning found them, for any number of    *)
(* tasks and any nesting short of the kernel's initial count.              *)
THEOREM SectionsStayAtomic ==
  Spec => SectionsAreAtomic
<1>1. Critical!CriticalSectionConstants
  BY PartsAssumption
<1>2. Critical!Spec => [](/\ Critical!TypeOK /\ Critical!SectionsExclude
                          /\ Critical!InterruptsComeBack)
  BY <1>1, AtomicSections
<1>3. Critical!Spec => Critical!ExitUndoesEnter
  BY <1>1, ExitRestores
<1>4. QED
  BY <1>2, <1>3, PartsRunAlone DEF SectionsAreAtomic

(* The byte queue of ds.c is a bounded FIFO, for any bytes, buffer sizes   *)
(* and messages: a push takes all or nothing, and a pop gives what was     *)
(* pushed first, wherever the ring wraps.                                  *)
THEOREM QueueStaysFifo ==
  Spec => QueueIsFifo
<1>1. Queue!RingQueueConstants
  BY PartsAssumption
<1>2. Queue!Spec => Queue!ImplementsFifo
  BY <1>1, RingIsFifo
<1>3. QED
  BY <1>2, PartsRunAlone DEF QueueIsFifo

(* What KeyIsLogged says of every state and step, of the parts side by     *)
(* side; that a press is logged in the end rests on fairness.              *)
THEOREM KeyLogStaysSafe ==
  Spec => /\ [](/\ Key!TypeOK /\ Key!HaltsAfterAllReads
                /\ Key!LogFollowsPresses /\ Key!NewestIsKept)
          /\ Key!PressesAreApart /\ Key!PressesAreAccepted
<1> DEFINE all == <<part, keyVars, textVars, queueVars, heapVars, sectionVars>>
<1>1. Key!KeyLogConstants
  BY PartsAssumption
<1>2. Init => Key!Init
  BY DEF Init
<1>3. [Next]_all => [Key!Next]_(Key!vars)
  BY DEF Next, keyVars, Key!vars, Key!board, Key!press, Key!local
<1>4. Spec => Key!Init /\ [][Key!Next]_(Key!vars)
  BY <1>2, <1>3, PTL DEF Spec
<1>5. QED
  BY <1>1, <1>4, KeyLogInvariant, PTL

(* What TextIsDrawn says of every state, of the parts side by side; that a *)
(* call returns rests on fairness.                                         *)
THEOREM TextStaysDrawn ==
  Spec => [](/\ Text!TypeOK /\ Text!RowFitsBuffer
             /\ TextIsShort => Text!CellsInOrder /\ Text!DrawsLayout)
<1> DEFINE all == <<part, keyVars, textVars, queueVars, heapVars, sectionVars>>
<1>1. Text!LcdTextConstants
  BY PartsAssumption
<1>2. Init => Text!Init
  BY DEF Init
<1>3. [Next]_all => [Text!Next]_(Text!vars)
  BY DEF Next, textVars, Text!vars, Text!args
<1>4. Spec => Text!Init /\ [][Text!Next]_(Text!vars)
  BY <1>2, <1>3, PTL DEF Spec
<1>5. QED
  BY <1>1, <1>4, TextInvariant, PTL

=============================================================================
