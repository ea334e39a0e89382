----------------------------- MODULE LcdProofs ------------------------------
(***************************************************************************)
(* Proofs about the driver of the display: about module LcdDraw, for any   *)
(* tasks, directions, rectangles and buffer size, and about module LcdWire *)
(* for any calls, FIFO and chunk.                                          *)
(*                                                                         *)
(* What a drawing call sends fills the visible part of its rectangle, and  *)
(* lcd_config and the display agree.  The inductive invariant says of each *)
(* task, by where it is in its call, what is already settled: up to the    *)
(* lock, how far its rectangle has been clipped against the lcd_config in  *)
(* force; behind it, where the window lies and how many pixels are still   *)
(* to come.                                                                *)
(*                                                                         *)
(* The DMA reads the pixels it was started for; and the display takes      *)
(* commands for commands and data for data if every call is orderly, which *)
(* each call with at most one command is, however much data or how many    *)
(* pixels it sends.                                                        *)
(***************************************************************************)
EXTENDS LcdDraw, LcdWire, SequenceTheorems, TLAPS

(* The steps of a call that has the bus lock. *)
Locked == {"window", "fill", "send", "unlock", "stream", "stream fill",
           "stream send", "text", "text fill", "text send", "copy",
           "copy rest", "madctl"}

(* The lock has the owner that behaves as one. *)
Holds(t) == pc[t] \in Locked <=> owner = t

(* A task that turns the display knows the direction, and lcd_config is    *)
(* that of the direction when it tells the display.                        *)
Turns(t) ==
  /\ pc[t] \in {"turn", "copy", "copy rest", "madctl"} =>
       turn[t] \in Directions
  /\ pc[t] = "madctl" => lcd_config = Configs[turn[t]]

(* Axis a of t's rectangle begins on the display and is not empty ...      *)
Begins(t, a) ==
  /\ rect[t][a] = asked[t][a]
  /\ asked[t][a].from < lcd_config[a].size /\ asked[t][a].len > 0

(* ... and it is cut to what the display has of it.                        *)
Fits(t, a) ==
  /\ asked[t][a].from < lcd_config[a].size
  /\ rect[t][a].from = asked[t][a].from
  /\ rect[t][a].len =
       Least(asked[t][a].len, lcd_config[a].size - asked[t][a].from)
  /\ rect[t][a].len > 0

(* What a call knows of its rectangle before it has sent the window. *)
Prepared(t) ==
  /\ pc[t] \in {"check x", "stream lock", "stream", "text x"} =>
       rect[t] = asked[t]
  /\ pc[t] \in {"stream lock", "stream"} =>
       \A a \in Axes : rect[t][a].from + rect[t][a].len <= Word
  /\ t \notin stale =>
       /\ pc[t] = "check y" => rect[t] = asked[t] /\ Begins(t, "x")
       /\ pc[t] = "fit x" => Begins(t, "x") /\ Begins(t, "y")
       /\ pc[t] = "fit y" => Fits(t, "x") /\ Begins(t, "y")
       /\ pc[t] = "text y" => rect[t] = asked[t] /\ Fits(t, "x")
       /\ pc[t] \in {"lock", "window", "text lock", "text"} =>
            Fits(t, "x") /\ Fits(t, "y")

Extent(a) == panel.window[a].to - panel.window[a].from + 1

(* The window is the visible part of what t asked for. *)
Placed(t, a) ==
  LET c == Configs[panel.direction][a] IN
  /\ asked[t][a].from < c.size
  /\ panel.window[a].from = asked[t][a].from + c.offset
  /\ Extent(a) = Least(asked[t][a].len, c.size - asked[t][a].from)
  /\ Extent(a) > 0

(* The window is set, no pixel is in it, and t has as many as it holds. *)
Opened(t) ==
  /\ \A a \in Axes : Placed(t, a) /\ rect[t][a].len = Extent(a)
  /\ panel.by = {} /\ panel.pixels = 0

(* The pixels in the window are t's, and it has the missing ones. *)
Filling(t) ==
  /\ \A a \in Axes : Placed(t, a)
  /\ panel.by \subseteq {t}
  /\ panel.pixels + left[t] = Extent("x") * Extent("y")

(* Where the window and the pixels are while t sends. *)
Sends(t) ==
  /\ pc[t] = "stream fill" \/ (pc[t] \in {"fill", "text fill"} /\
                               t \notin stale) => Opened(t)
  /\ pc[t] = "stream send" \/ (pc[t] \in {"send", "text send"} /\
                               t \notin stale) => Filling(t)
  /\ pc[t] \in {"send", "stream send", "text send"} => lcd_tx_buffer = t

TaskOK(t) == Holds(t) /\ Turns(t) /\ Prepared(t) /\ Sends(t)

(* lcd_config and the display agree, unless somebody is turning it. *)
ConfigFollows ==
  \/ lcd_config = Configs[panel.direction]
  \/ \E t \in Tasks : pc[t] \in {"copy rest", "madctl"}

IInv == TypeOK /\ ConfigFollows /\ \A t \in Tasks : TaskOK(t)

-----------------------------------------------------------------------------
(* Numbers. *)

(* Words are numbers, and a remainder modulo Word is one, once there is a  *)
(* direction and so a size.                                                *)
LEMMA WordsAreNumbers ==
  ASSUME NEW d \in Directions
  PROVE  /\ Word \in Nat \ {0} /\ Words \subseteq Nat /\ 0 \in Words
         /\ \A i \in Int : i % Word \in Words
         /\ \A i \in 0 .. Word - 1 : i % Word = i
<1>1. Configs[d]["x"].size \in Words BY LcdDrawAssumption DEF Axes
<1>2. Word \in Nat BY LcdDrawAssumption
<1>3. Word \in Nat /\ Word > 0 BY <1>1, <1>2 DEF Words
<1>4. \A i \in Int : i % Word \in 0 .. Word - 1 BY <1>3
<1>5. \A i \in 0 .. Word - 1 : i % Word = i BY <1>3
<1> QED BY <1>3, <1>4, <1>5 DEF Words

(* The lesser of two natural numbers. *)
LEMMA LeastOfNats ==
  \A a, b \in Nat : /\ Least(a, b) \in Nat
                    /\ Least(a, b) <= a /\ Least(a, b) <= b
                    /\ Least(a, b) \in {a, b}
BY DEF Least

(* Products of natural numbers grow with their factors. *)
LEMMA ProductsGrow ==
  ASSUME NEW a \in Nat, NEW b \in Nat, NEW c \in Nat, NEW d \in Nat,
         a <= c, b <= d
  PROVE  a * b \in Nat /\ a * b <= c * d
<1>1. a * b <= c * b OBVIOUS
<1>2. c * b <= c * d OBVIOUS
<1>3. a * b \in Nat /\ c * b \in Nat /\ c * d \in Nat OBVIOUS
<1> HIDE <1>1
<1> QED BY <1>1, <1>2, <1>3

(* The numbers in a rectangle. *)
LEMMA RectFacts ==
  ASSUME NEW d \in Directions, NEW r \in Rects, NEW a \in Axes
  PROVE  /\ r[a].from \in Words /\ r[a].len \in Words
         /\ r[a].from \in Nat /\ r[a].len \in Nat
<1>1. r[a].from \in Words /\ r[a].len \in Words
  BY DEF Rects
<1>2. QED
  BY <1>1, WordsAreNumbers

(* Those in a configuration. *)
LEMMA ConfigFacts ==
  ASSUME NEW d \in Directions,
         NEW c \in [Axes -> [size : Words, offset : Words]], NEW a \in Axes
  PROVE  /\ c[a].size \in Words /\ c[a].offset \in Words
         /\ c[a].size \in Nat /\ c[a].offset \in Nat
<1>1. c[a].size \in Words /\ c[a].offset \in Words
  OBVIOUS
<1>2. QED
  BY <1>1, WordsAreNumbers

(* Those of the panel fit a word. *)
LEMMA PanelFacts ==
  ASSUME NEW d \in Directions
  PROVE  /\ Configs[d] \in [Axes -> [size : Words, offset : Words]]
         /\ \A a \in Axes :
              /\ Configs[d][a].size \in Nat /\ Configs[d][a].offset \in Nat
              /\ Configs[d][a].size > 0
              /\ Configs[d][a].size + Configs[d][a].offset <= Word
<1>1. Configs[d] \in [Axes -> [size : Words \ {0}, offset : Words]]
  BY LcdDrawAssumption
<1>2. Configs[d] \in [Axes -> [size : Words, offset : Words]]
  BY <1>1
<1>3. ASSUME NEW a \in Axes
      PROVE  /\ Configs[d][a].size \in Nat /\ Configs[d][a].offset \in Nat
             /\ Configs[d][a].size > 0
  <2>1. Configs[d][a].size # 0
    BY <1>1
  <2>2. Configs[d][a].size \in Nat /\ Configs[d][a].offset \in Nat
    BY <1>2, ConfigFacts
  <2>3. QED
    BY <2>1, <2>2
<1>4. \A a \in Axes : Configs[d][a].size + Configs[d][a].offset <= Word
  BY LcdDrawAssumption
<1>5. QED
  BY <1>2, <1>3, <1>4

(* The window for a rectangle that begins on the display and whose corners *)
(* are words: its visible part, shifted by the offsets (lcd.c:284-312).    *)
LEMMA WindowOfVisible ==
  ASSUME NEW d \in Directions, NEW r \in Rects,
         \A a \in Axes : /\ r[a].from < Configs[d][a].size /\ r[a].len > 0
                         /\ r[a].from + r[a].len <= Word,
         NEW a \in Axes
  PROVE  Window(Configs[d], r)[a] =
           [from |-> r[a].from + Configs[d][a].offset,
            to   |-> r[a].from + Configs[d][a].offset - 1 +
                       Least(r[a].len, Configs[d][a].size - r[a].from)]
<1> DEFINE c == Configs[d]
           end(b) == r[b].from - 1 + Least(r[b].len, c[b].size - r[b].from)
           to(b) == (r[b].from + r[b].len - 1) % Word
           inside == \A b \in Axes : r[b].from < c[b].size
           last(b) == IF inside THEN Least(to(b), c[b].size - 1) ELSE to(b)
           valid == inside /\ \A b \in Axes : r[b].from <= last(b)
           shift(b) == IF valid THEN c[b].offset ELSE 0
<1>1. Window(c, r) = [b \in Axes |->
                        [from |-> (r[b].from + shift(b)) % Word,
                         to   |-> (last(b) + shift(b)) % Word]]
  BY DEF Window
<1>2. ASSUME NEW b \in Axes
      PROVE  /\ r[b].from + r[b].len - 1 \in 0 .. Word - 1
             /\ Least(r[b].from + r[b].len - 1, c[b].size - 1) = end(b)
             /\ r[b].from <= end(b)
             /\ r[b].from + c[b].offset \in 0 .. Word - 1
             /\ end(b) + c[b].offset \in 0 .. Word - 1
             /\ end(b) + c[b].offset =
                  r[b].from + c[b].offset - 1 +
                    Least(r[b].len, c[b].size - r[b].from)
  <2>1. /\ r[b].from \in Nat /\ r[b].len \in Nat /\ Word \in Nat
        /\ c[b].size \in Nat /\ c[b].offset \in Nat
        /\ r[b].from < c[b].size /\ r[b].len > 0
        /\ r[b].from + r[b].len <= Word /\ c[b].size + c[b].offset <= Word
    BY RectFacts, PanelFacts, WordsAreNumbers
  <2> DEFINE f == r[b].from
             l == r[b].len
             s == c[b].size
             o == c[b].offset
  <2>2. /\ f \in Nat /\ l \in Nat /\ s \in Nat /\ o \in Nat
        /\ Word \in Nat
        /\ f < s /\ l > 0 /\ f + l <= Word /\ s + o <= Word
    BY <2>1
  <2> HIDE DEF f, l, s, o, c
  <2>3. /\ f + l - 1 \in 0 .. Word - 1
        /\ Least(f + l - 1, s - 1) = f - 1 + Least(l, s - f)
        /\ f <= f - 1 + Least(l, s - f)
        /\ f + o \in 0 .. Word - 1
        /\ (f - 1 + Least(l, s - f)) + o \in 0 .. Word - 1
        /\ (f - 1 + Least(l, s - f)) + o = f + o - 1 + Least(l, s - f)
    BY <2>2 DEF Least
  <2>4. QED
    BY <2>3 DEF f, l, s, o
<1>3. \A i \in 0 .. Word - 1 : i % Word = i
  BY WordsAreNumbers
<1>4. inside
  OBVIOUS
<1>5. \A b \in Axes : last(b) = end(b)
  <2>1. TAKE b \in Axes
  <2>2. to(b) = r[b].from + r[b].len - 1
    BY <1>2, <1>3
  <2>3. last(b) = Least(r[b].from + r[b].len - 1, c[b].size - 1)
    BY <1>4, <2>2
  <2>4. QED
    BY <1>2, <2>3
<1>6. valid
  <2> HIDE DEF last, end, inside
  <2>1. \A b \in Axes : r[b].from <= last(b)
    BY <1>2, <1>5
  <2>2. QED
    BY <1>4, <2>1
<1>7. shift(a) = c[a].offset
  BY <1>6
<1>8. Window(c, r)[a] = [from |-> (r[a].from + shift(a)) % Word,
                         to   |-> (last(a) + shift(a)) % Word]
  BY <1>1
<1> HIDE DEF last, shift, end, c
<1>9. /\ (r[a].from + shift(a)) % Word = r[a].from + c[a].offset
      /\ (last(a) + shift(a)) % Word = end(a) + c[a].offset
  BY <1>2, <1>3, <1>5, <1>7
<1>10. Window(c, r)[a] =
         [from |-> r[a].from + c[a].offset,
          to   |-> r[a].from + c[a].offset - 1 +
                     Least(r[a].len, c[a].size - r[a].from)]
  BY <1>2, <1>8, <1>9
<1>11. QED
  BY <1>10 DEF c

(* Whatever the rectangle, the window consists of words. *)
LEMMA WindowType ==
  ASSUME NEW d \in Directions, NEW r \in Rects,
         NEW c \in [Axes -> [size : Words, offset : Words]]
  PROVE  Window(c, r) \in [Axes -> [from : Words, to : Words]]
<1> DEFINE to(b) == (r[b].from + r[b].len - 1) % Word
           inside == \A b \in Axes : r[b].from < c[b].size
           last(b) == IF inside THEN Least(to(b), c[b].size - 1) ELSE to(b)
           valid == inside /\ \A b \in Axes : r[b].from <= last(b)
           shift(b) == IF valid THEN c[b].offset ELSE 0
<1>1. Window(c, r) = [b \in Axes |->
                        [from |-> (r[b].from + shift(b)) % Word,
                         to   |-> (last(b) + shift(b)) % Word]]
  BY DEF Window
<1>2. \A i \in Int : i % Word \in Words /\ i % Word \in Int
  BY WordsAreNumbers
<1>3. ASSUME NEW b \in Axes
      PROVE  /\ (r[b].from + shift(b)) % Word \in Words
             /\ (last(b) + shift(b)) % Word \in Words
  <2>1. /\ r[b].from \in Int /\ r[b].len \in Int
        /\ c[b].size \in Int /\ c[b].offset \in Int
    BY RectFacts, ConfigFacts
  <2>2. to(b) \in Int
    BY <1>2, <2>1
  <2> HIDE DEF to
  <2>3. Least(to(b), c[b].size - 1) \in Int
    BY <2>1, <2>2 DEF Least
  <2> HIDE DEF inside
  <2>4. last(b) \in Int
    BY <2>2, <2>3
  <2> HIDE DEF valid
  <2>5. shift(b) \in Int
    BY <2>1
  <2> HIDE DEF last, shift
  <2>6. r[b].from + shift(b) \in Int /\ last(b) + shift(b) \in Int
    BY <2>1, <2>4, <2>5
  <2>7. QED
    BY <1>2, <2>6
<1> HIDE DEF last, shift
<1>4. QED
  BY <1>1, <1>3

-----------------------------------------------------------------------------
(* Steps of one task, seen from the others. *)

(* Nothing of u's own has changed. *)
Same(u) ==
  /\ pc'[u] = pc[u] /\ rect'[u] = rect[u] /\ asked'[u] = asked[u]
  /\ left'[u] = left[u] /\ turn'[u] = turn[u]

(* A call that is not stale afterwards was not before, unless it is over,  *)
(* and lcd_config is what it was when the call read it.                    *)
LEMMA Fresh ==
  ASSUME NEW u \in Tasks, NoteStale, u \notin stale', pc'[u] # "idle"
  PROVE  /\ u \notin stale
         /\ pc[u] \in Unlocked => lcd_config' = lcd_config
BY DEF NoteStale

(* What the lock protects stays as it is for its owner, and what a call    *)
(* has read outside the lock does too, or the call is stale.               *)
LEMMA Untouched ==
  ASSUME NEW u \in Tasks, TaskOK(u), NoteStale, Same(u),
         owner' = u <=> owner = u,
         owner = u => UNCHANGED <<lcd_config, lcd_tx_buffer, panel>>
  PROVE  TaskOK(u)'
<1>1. Holds(u)'
  BY DEF TaskOK, Holds, Same
<1>2. owner = u \/ pc[u] \notin Locked
  BY DEF TaskOK, Holds
<1>3. Turns(u)'
  BY <1>2 DEF TaskOK, Turns, Same, Locked
<1>4. u \notin stale' /\ pc[u] \in Unlocked \cup Locked =>
        u \notin stale /\ lcd_config' = lcd_config
  <2>1. pc[u] \in Unlocked \cup Locked => pc'[u] # "idle"
    BY DEF Same, Unlocked, Locked
  <2>2. QED
    BY <1>2, <2>1, Fresh
<1>5. Prepared(u)'
  <2>1. pc[u] \in {"check y", "fit x", "fit y", "text y", "lock", "window",
                   "text lock", "text"} => pc[u] \in Unlocked \cup Locked
    BY DEF Unlocked, Locked
  <2>2. Prepared(u)
    BY DEF TaskOK
  <2>3. /\ pc'[u] \in {"check x", "stream lock", "stream", "text x"} =>
             rect'[u] = asked'[u]
        /\ pc'[u] \in {"stream lock", "stream"} =>
             \A a \in Axes : rect'[u][a].from + rect'[u][a].len <= Word
    BY <2>2 DEF Prepared, Same
  <2>4. ASSUME u \notin stale',
               pc[u] \in {"check y", "fit x", "fit y", "text y", "lock",
                          "window", "text lock", "text"}
        PROVE  /\ u \notin stale
               /\ Begins(u, "x") => Begins(u, "x")'
               /\ Begins(u, "y") => Begins(u, "y")'
               /\ Fits(u, "x") => Fits(u, "x")'
               /\ Fits(u, "y") => Fits(u, "y")'
    <3>1. u \notin stale /\ lcd_config' = lcd_config
      BY <1>4, <2>1, <2>4
    <3>2. QED
      BY <3>1 DEF Begins, Fits, Same
  <2>5. QED
    BY <2>2, <2>3, <2>4 DEF Prepared, Same
<1>6. Sends(u)'
  <2>1. Sends(u)
    BY DEF TaskOK
  <2>2. CASE pc[u] \in {"fill", "text fill", "stream fill", "send",
                        "text send", "stream send"}
    <3>1. UNCHANGED <<lcd_tx_buffer, panel>>
      BY <1>2, <2>2 DEF Locked
    <3>2. u \notin stale' => u \notin stale
      BY <1>4, <2>2 DEF Locked
    <3>3. Opened(u) => Opened(u)'
      BY <3>1 DEF Opened, Placed, Extent, Same
    <3>4. Filling(u) => Filling(u)'
      BY <3>1 DEF Filling, Placed, Extent, Same
    <3>5. QED
      BY <2>1, <3>1, <3>2, <3>3, <3>4 DEF Sends, Same
  <2>3. CASE pc[u] \notin {"fill", "text fill", "stream fill", "send",
                           "text send", "stream send"}
    BY <2>3 DEF Sends, Same
  <2>4. QED
    BY <2>2, <2>3
<1>7. QED
  BY <1>1, <1>3, <1>5, <1>6 DEF TaskOK

(* A step that leaves lcd_config and the display's direction alone. *)
LEMMA StillFollows ==
  ASSUME NEW t \in Tasks, ConfigFollows, lcd_config' = lcd_config,
         panel'.direction = panel.direction,
         pc[t] \notin {"copy rest", "madctl"},
         \A u \in Tasks \ {t} : pc'[u] = pc[u]
  PROVE  ConfigFollows'
BY DEF ConfigFollows

(* A call returns, with the lock or without. *)
LEMMA ReturnStep ==
  ASSUME IInv, NoteStale, NEW t \in Tasks, Return(t),
         pc[t] \notin {"copy rest", "madctl"},
         owner' = IF owner = t THEN None ELSE owner,
         UNCHANGED <<lcd_config, lcd_tx_buffer, panel>>
  PROVE  IInv'
<1>1. /\ pc' = [pc EXCEPT ![t] = "idle"]
      /\ rect' = [rect EXCEPT ![t] = Empty]
      /\ asked' = [asked EXCEPT ![t] = Empty]
      /\ turn' = [turn EXCEPT ![t] = None] /\ left' = left
  BY DEF Return, Goto
<1>2. TypeOK
  BY DEF IInv
<1>3. /\ pc \in [Tasks -> Steps] /\ rect \in [Tasks -> Rects]
      /\ asked \in [Tasks -> Rects]
      /\ turn \in [Tasks -> Directions \cup {None}]
      /\ panel.direction \in Directions
  BY <1>2 DEF TypeOK
<1>4. Empty \in Rects
  <2>1. 0 \in Words
    BY <1>3, WordsAreNumbers
  <2>2. QED
    BY <2>1 DEF Empty, Rects
<1>5. pc'[t] = "idle" /\ \A u \in Tasks \ {t} : Same(u)
  BY <1>1, <1>3 DEF Same
<1>6. TypeOK'
  <2>1. /\ pc' \in [Tasks -> Steps] /\ rect' \in [Tasks -> Rects]
        /\ asked' \in [Tasks -> Rects]
        /\ turn' \in [Tasks -> Directions \cup {None}]
    BY <1>1, <1>3, <1>4 DEF Steps
  <2>2. stale' \subseteq Tasks /\ owner' \in Tasks \cup {None}
    BY <1>2 DEF NoteStale, TypeOK
  <2>3. QED
    BY <1>1, <1>2, <2>1, <2>2 DEF TypeOK
<1>7. ConfigFollows'
  BY <1>5, StillFollows DEF IInv, Same
<1>8. ASSUME NEW u \in Tasks PROVE TaskOK(u)'
  <2>1. CASE u = t
    <3>1. owner' # t
      BY LcdDrawAssumption
    <3>2. pc'[u] = "idle" /\ owner' # u
      BY <1>5, <2>1, <3>1
    <3>3. QED
      BY <3>2 DEF TaskOK, Holds, Turns, Prepared, Sends, Locked
  <2>2. CASE u # t
    <3>1. TaskOK(u) /\ u # None
      BY LcdDrawAssumption DEF IInv
    <3>2. QED
      BY <1>5, <2>2, <3>1, Untouched
  <2>3. QED
    BY <2>1, <2>2
<1>9. QED
  BY <1>6, <1>7, <1>8 DEF IInv

(* A step before the lock, or between two calls: what is to be shown of it *)
(* is what t then knows of its rectangle.                                  *)
LEMMA UnlockedStep ==
  ASSUME IInv, NoteStale, NEW t \in Tasks,
         pc[t] \notin Locked, pc'[t] \notin Locked,
         \A u \in Tasks \ {t} : Same(u),
         UNCHANGED <<lcd_config, lcd_tx_buffer, owner, panel>>,
         pc' \in [Tasks -> Steps],
         rect' \in [Tasks -> Rects], asked' \in [Tasks -> Rects],
         left' \in [Tasks -> Nat],
         turn' \in [Tasks -> Directions \cup {None}],
         pc'[t] = "turn" => turn'[t] \in Directions,
         Prepared(t)'
  PROVE  IInv'
<1>1. TypeOK'
  BY DEF IInv, TypeOK, NoteStale
<1>2. ConfigFollows'
  <2>1. pc[t] \notin {"copy rest", "madctl"}
    BY DEF Locked
  <2>2. QED
    BY <2>1, StillFollows DEF IInv, Same
<1>3. ASSUME NEW u \in Tasks PROVE TaskOK(u)'
  <2>1. CASE u = t
    <3>1. Holds(t)'
      BY DEF IInv, TaskOK, Holds
    <3>2. Turns(t)' /\ Sends(t)'
      BY DEF Turns, Sends, Locked
    <3>3. QED
      BY <2>1, <3>1, <3>2 DEF TaskOK
  <2>2. CASE u # t
    BY <2>2, Untouched DEF IInv
  <2>3. QED
    BY <2>1, <2>2
<1>4. QED
  BY <1>1, <1>2, <1>3 DEF IInv

(* A step that keeps the lock. *)
LEMMA LockedStep ==
  ASSUME IInv, NoteStale, NEW t \in Tasks, owner = t, owner' = t,
         pc'[t] \in Locked, \A u \in Tasks \ {t} : Same(u),
         TypeOK', ConfigFollows', Turns(t)', Prepared(t)', Sends(t)'
  PROVE  IInv'
<1>1. ASSUME NEW u \in Tasks PROVE TaskOK(u)'
  <2>1. CASE u = t
    BY <2>1 DEF TaskOK, Holds
  <2>2. CASE u # t
    BY <2>2, Untouched DEF IInv
  <2>3. QED
    BY <2>1, <2>2
<1>2. QED
  BY <1>1 DEF IInv

(* The types of the variables a step changes. *)
LEMMA LocalTypes ==
  ASSUME IInv
  PROVE  /\ TypeOK /\ pc \in [Tasks -> Steps]
         /\ rect \in [Tasks -> Rects] /\ asked \in [Tasks -> Rects]
         /\ left \in [Tasks -> Nat]
         /\ turn \in [Tasks -> Directions \cup {None}]
         /\ lcd_config \in [Axes -> [size : Words, offset : Words]]
         /\ panel.direction \in Directions
BY DEF IInv, TypeOK

(* The numbers of a call and of the configuration in force. *)
LEMMA CallNumbers ==
  ASSUME IInv, NEW t \in Tasks, NEW a \in Axes
  PROVE  /\ rect[t] \in Rects /\ asked[t] \in Rects
         /\ rect[t][a].from \in Nat /\ rect[t][a].len \in Nat
         /\ asked[t][a].from \in Nat /\ asked[t][a].len \in Nat
         /\ lcd_config[a].size \in Nat /\ lcd_config[a].offset \in Nat
         /\ lcd_config[a].size \in Words
<1>1. rect[t] \in Rects /\ asked[t] \in Rects
  BY LocalTypes
<1>2. QED
  BY <1>1, LocalTypes, RectFacts, ConfigFacts

(* A length on one axis of a rectangle is replaced. *)
LEMMA NewLength ==
  ASSUME NEW r \in Rects, NEW a \in Axes, NEW n \in Words
  PROVE  [r EXCEPT ![a].len = n] \in Rects
BY DEF Rects

-----------------------------------------------------------------------------
(* The steps before the lock. *)

(* A call begins. *)
LEMMA AskStep ==
  ASSUME IInv, NoteStale, NEW t \in Tasks, NEW r \in Rects,
         NEW step \in {"check x", "clear x", "stream lock", "text x"},
         step = "stream lock" => \A a \in Axes : r[a].from + r[a].len <= Word,
         Ask(t, r, step)
  PROVE  IInv'
<1>1. /\ pc[t] = "idle" /\ pc' = [pc EXCEPT ![t] = step]
      /\ rect' = [rect EXCEPT ![t] = r] /\ asked' = [asked EXCEPT ![t] = r]
      /\ UNCHANGED <<lcd_config, lcd_tx_buffer, owner, left, turn, panel>>
  BY DEF Ask, Goto
<1>2. /\ pc' \in [Tasks -> Steps]
      /\ rect' \in [Tasks -> Rects] /\ asked' \in [Tasks -> Rects]
      /\ pc'[t] = step /\ rect'[t] = r /\ asked'[t] = r
      /\ \A u \in Tasks \ {t} : Same(u)
  BY <1>1, LocalTypes DEF Steps, Same
<1>3. Prepared(t)'
  BY <1>2 DEF Prepared
<1>4. pc[t] \notin Locked /\ pc'[t] \notin Locked /\ pc'[t] # "turn"
  BY <1>1, <1>2 DEF Locked
<1>5. QED
  BY <1>1, <1>2, <1>3, <1>4, LocalTypes, UnlockedStep

(* bsp_lcd_clear reads one of the sizes. *)
LEMMA ReadSizeStep ==
  ASSUME IInv, NoteStale, NEW t \in Tasks,
         \/ ReadSize(t, "x", "clear x", "clear y")
         \/ ReadSize(t, "y", "clear y", "check x")
  PROVE  IInv'
<1>1. PICK a \in Axes, step \in {"clear y", "check x"} :
        /\ pc[t] \in {"clear x", "clear y"}
        /\ pc' = [pc EXCEPT ![t] = step]
        /\ rect' = [rect EXCEPT ![t][a].len = lcd_config[a].size]
        /\ asked' = [asked EXCEPT ![t] = rect'[t]]
        /\ UNCHANGED <<lcd_config, lcd_tx_buffer, owner, left, turn, panel>>
  BY DEF ReadSize, Goto, Axes
<1>2. rect' = [rect EXCEPT ![t] =
                 [rect[t] EXCEPT ![a].len = lcd_config[a].size]]
  BY <1>1, LocalTypes
<1>3. [rect[t] EXCEPT ![a].len = lcd_config[a].size] \in Rects
  BY CallNumbers, NewLength
<1>4. /\ pc' \in [Tasks -> Steps] /\ pc'[t] = step
      /\ rect' \in [Tasks -> Rects] /\ asked' \in [Tasks -> Rects]
      /\ asked'[t] = rect'[t] /\ \A u \in Tasks \ {t} : Same(u)
  BY <1>1, <1>2, <1>3, LocalTypes DEF Steps, Same
<1>5. Prepared(t)'
  BY <1>4 DEF Prepared
<1>6. pc[t] \notin Locked /\ pc'[t] \notin Locked /\ pc'[t] # "turn"
  BY <1>1, <1>4 DEF Locked
<1>7. QED
  BY <1>1, <1>4, <1>5, <1>6, LocalTypes, UnlockedStep

(* A test that an axis passes, and what is then known of it. *)
LEMMA CheckedNumbers ==
  ASSUME IInv, NEW t \in Tasks, NEW a \in Axes, rect[t][a].len # 0
  PROVE  /\ ~ (rect[t][a].from >= lcd_config[a].size) =>
              rect[t][a].from < lcd_config[a].size /\ rect[t][a].len > 0
         /\ ~ (rect[t][a].from + rect[t][a].len > lcd_config[a].size) =>
              /\ rect[t][a].from < lcd_config[a].size
              /\ rect[t][a].len > 0
              /\ rect[t][a].len =
                   Least(rect[t][a].len, lcd_config[a].size - rect[t][a].from)
<1> DEFINE f == rect[t][a].from
           l == rect[t][a].len
           s == lcd_config[a].size
<1>1. f \in Nat /\ l \in Nat /\ s \in Nat
  BY CallNumbers
<1>2. l # 0
  OBVIOUS
<1> HIDE DEF f, l, s
<1>3. /\ ~ (f >= s) => f < s /\ l > 0
      /\ ~ (f + l > s) => f < s /\ l > 0 /\ l = Least(l, s - f)
  BY <1>1, <1>2 DEF Least
<1>4. QED
  BY <1>3 DEF f, l, s

(* The length of an axis, cut to the display. *)
Cut(t, a) ==
  IF rect[t][a].from + rect[t][a].len > lcd_config[a].size
  THEN (lcd_config[a].size - rect[t][a].from) % Word
  ELSE rect[t][a].len

(* It is a word, and what is visible of an axis that begins on the display *)
(* as it is now.                                                           *)
LEMMA CutNumbers ==
  ASSUME IInv, NEW t \in Tasks, NEW a \in Axes
  PROVE  /\ Cut(t, a) \in Words
         /\ Begins(t, a) =>
              /\ Cut(t, a) = Least(asked[t][a].len,
                                   lcd_config[a].size - asked[t][a].from)
              /\ Cut(t, a) > 0
<1> DEFINE f == rect[t][a].from
           l == rect[t][a].len
           s == lcd_config[a].size
           n == IF f + l > s THEN (s - f) % Word ELSE l
<1>1. f \in Nat /\ l \in Nat /\ s \in Nat /\ s \in Words
  BY CallNumbers
<1>2. l \in Words
  BY LocalTypes, CallNumbers, RectFacts
<1>3. /\ \A i \in Int : i % Word \in Words
      /\ \A i \in 0 .. Word - 1 : i % Word = i
      /\ Word \in Nat \ {0}
  BY LocalTypes, WordsAreNumbers
<1>4. s \in 0 .. Word - 1
  BY <1>1 DEF Words
<1>5. Begins(t, a) => /\ asked[t][a].from = f /\ asked[t][a].len = l
                      /\ f < s /\ l > 0
  BY DEF Begins
<1>6. Cut(t, a) = n
  BY DEF Cut
<1> HIDE DEF f, l, s
<1>7. n \in Words
  <2>1. s - f \in Int
    BY <1>1
  <2>2. QED
    BY <1>2, <1>3, <2>1
<1>8. f < s /\ l > 0 => n = Least(l, s - f) /\ n > 0
  <2>1. SUFFICES ASSUME f < s, l > 0 PROVE n = Least(l, s - f) /\ n > 0
    OBVIOUS
  <2>2. s - f \in 0 .. Word - 1
    BY <1>1, <1>3, <1>4, <2>1
  <2>3. (s - f) % Word = s - f
    BY <1>3, <2>2
  <2>4. QED
    BY <1>1, <2>1, <2>3 DEF Least
<1> HIDE DEF n
<1>9. QED
  BY <1>5, <1>6, <1>7, <1>8 DEF s

(* The first test of lcd_clip_rect and of the text calls: the call ends,   *)
(* or the axis begins on the display.                                      *)
LEMMA ClipCheckStep ==
  ASSUME IInv, NoteStale, NEW t \in Tasks,
         \/ ClipCheck(t, "x", "check x", "check y")
         \/ ClipCheck(t, "y", "check y", "fit x")
  PROVE  IInv'
<1>1. PICK a \in Axes, step \in {"check y", "fit x"} :
        /\ a = "x" => pc[t] = "check x" /\ step = "check y"
        /\ a = "y" => pc[t] = "check y" /\ step = "fit x"
        /\ \/ Return(t)
           \/ /\ ~ (rect[t][a].from >= lcd_config[a].size)
              /\ rect[t][a].len # 0
              /\ pc' = [pc EXCEPT ![t] = step]
              /\ UNCHANGED <<rect, left, asked, turn>>
        /\ UNCHANGED <<lcd_config, lcd_tx_buffer, owner, panel>>
  BY DEF ClipCheck, Goto, Axes
<1>2. pc[t] \notin Locked /\ owner # t
  BY <1>1 DEF IInv, TaskOK, Holds, Locked, Axes
<1>3. CASE Return(t)
  <2>1. pc[t] \notin {"copy rest", "madctl"}
    BY <1>2 DEF Locked
  <2>2. QED
    BY <1>1, <1>2, <1>3, <2>1, ReturnStep
<1>4. CASE /\ ~ (rect[t][a].from >= lcd_config[a].size)
           /\ rect[t][a].len # 0
           /\ pc' = [pc EXCEPT ![t] = step]
           /\ UNCHANGED <<rect, left, asked, turn>>
  <2>1. /\ pc' \in [Tasks -> Steps] /\ pc'[t] = step
        /\ \A u \in Tasks \ {t} : Same(u)
    BY <1>4, LocalTypes DEF Steps, Same
  <2>2. rect[t][a].from < lcd_config[a].size /\ rect[t][a].len > 0
    BY <1>4, CheckedNumbers
  <2>3. t \notin stale' => t \notin stale
    BY <2>1, Fresh
  <2>4. Prepared(t)
    BY DEF IInv, TaskOK
  <2>5. UNCHANGED <<rect, asked, lcd_config>>
    BY <1>1, <1>4
  <2>6. CASE a = "x"
    <3>1. rect[t] = asked[t] /\ pc'[t] = "check y" /\ Begins(t, "x")
      BY <1>1, <2>1, <2>2, <2>4, <2>6 DEF Prepared, Begins
    <3>2. Begins(t, "x")'
      BY <2>5, <3>1 DEF Begins
    <3>3. Prepared(t)'
      BY <2>5, <3>1, <3>2 DEF Prepared
    <3>4. QED
      BY <1>1, <1>2, <1>4, <2>1, <3>1, <3>3, LocalTypes, UnlockedStep
         DEF Locked
  <2>7. CASE a = "y"
    <3>1. pc[t] = "check y" /\ pc'[t] = "fit x"
      BY <1>1, <2>1, <2>7
    <3>2. t \notin stale => Begins(t, "x") /\ Begins(t, "y")
      BY <2>2, <2>4, <2>7, <3>1 DEF Prepared, Begins
    <3>3. t \notin stale' => Begins(t, "x")' /\ Begins(t, "y")'
      BY <2>3, <2>5, <3>2 DEF Begins
    <3>4. Prepared(t)'
      BY <3>1, <3>3 DEF Prepared
    <3>5. QED
      BY <1>1, <1>2, <1>4, <2>1, <3>1, <3>4, LocalTypes, UnlockedStep
         DEF Locked
  <2>8. QED
    BY <2>6, <2>7 DEF Axes
<1>5. QED
  BY <1>1, <1>3, <1>4

(* An axis cut to the display. *)
LEMMA CutApplied ==
  ASSUME IInv, NEW t \in Tasks, NEW a \in Axes,
         rect' = [rect EXCEPT ![t][a].len = Cut(t, a)],
         UNCHANGED <<asked, lcd_config>>
  PROVE  /\ rect' \in [Tasks -> Rects]
         /\ \A u \in Tasks \ {t} : rect'[u] = rect[u]
         /\ \A b \in Axes \ {a} : rect'[t][b] = rect[t][b]
         /\ Begins(t, a) => Fits(t, a)'
<1> DEFINE r == rect[t]
           n == Cut(t, a)
           q == [r EXCEPT ![a].len = n]
<1>1. /\ n \in Words /\ rect \in [Tasks -> Rects] /\ r \in Rects
      /\ rect' = [rect EXCEPT ![t][a].len = n]
  BY CutNumbers, LocalTypes
<1> HIDE DEF n
<1>2. rect' = [rect EXCEPT ![t] = q] /\ q \in Rects
  <2>1. q \in Rects
    BY <1>1, NewLength
  <2>2. rect' = [rect EXCEPT ![t] = q]
    BY <1>1
  <2>3. QED
    BY <2>1, <2>2
<1>3. /\ q[a].len = n /\ q[a].from = r[a].from
      /\ \A b \in Axes \ {a} : q[b] = r[b]
  <2>1. DOMAIN r = Axes /\ r[a] \in [from : Words, len : Words]
    BY <1>1 DEF Rects
  <2>2. /\ q[a] = [r[a] EXCEPT !.len = n]
        /\ \A b \in Axes \ {a} : q[b] = r[b]
    BY <2>1
  <2>3. QED
    BY <2>1, <2>2
<1> HIDE DEF q
<1>4. /\ rect'[t] = q /\ rect' \in [Tasks -> Rects]
      /\ \A u \in Tasks \ {t} : rect'[u] = rect[u]
  BY <1>1, <1>2
<1>5. rect'[t][a].len = n /\ rect'[t][a].from = rect[t][a].from
  BY <1>3, <1>4
<1>6. Begins(t, a) => Fits(t, a)'
  <2>1. SUFFICES ASSUME Begins(t, a) PROVE Fits(t, a)'
    OBVIOUS
  <2>2. rect[t][a] = asked[t][a] /\ asked[t][a].from < lcd_config[a].size
    BY <2>1 DEF Begins
  <2>3. /\ Cut(t, a) = Least(asked[t][a].len,
                             lcd_config[a].size - asked[t][a].from)
        /\ Cut(t, a) > 0
    BY <2>1, CutNumbers
  <2>4. QED
    BY <1>5, <2>2, <2>3 DEF Fits, n
<1>7. QED
  BY <1>3, <1>4, <1>6

(* What does not fit is cut off. *)
LEMMA ClipFitStep ==
  ASSUME IInv, NoteStale, NEW t \in Tasks,
         \/ ClipFit(t, "x", "fit x", "fit y")
         \/ ClipFit(t, "y", "fit y", "lock")
  PROVE  IInv'
<1>1. PICK a \in Axes, step \in {"fit y", "lock"} :
        /\ a = "x" => pc[t] = "fit x" /\ step = "fit y"
        /\ a = "y" => pc[t] = "fit y" /\ step = "lock"
        /\ pc' = [pc EXCEPT ![t] = step]
        /\ rect' = [rect EXCEPT ![t][a].len = Cut(t, a)]
        /\ UNCHANGED <<lcd_config, lcd_tx_buffer, owner, left, asked, turn,
                       panel>>
  <2>1. rect[t] \in Rects /\ rect \in [Tasks -> Rects]
    BY LocalTypes
  <2>2. QED
    BY <2>1 DEF ClipFit, Cut, Goto, Axes, Rects
<1>2. /\ rect' \in [Tasks -> Rects]
      /\ \A u \in Tasks \ {t} : rect'[u] = rect[u]
      /\ \A b \in Axes \ {a} : rect'[t][b] = rect[t][b]
      /\ Begins(t, a) => Fits(t, a)'
  BY <1>1, CutApplied
<1>3. /\ pc' \in [Tasks -> Steps] /\ pc'[t] = step
      /\ \A u \in Tasks \ {t} : Same(u)
  BY <1>1, <1>2, LocalTypes DEF Steps, Same
<1>4. pc[t] \notin Locked /\ pc'[t] \notin Locked /\ pc'[t] # "turn"
  BY <1>1, <1>3 DEF Locked, Axes
<1>5. t \notin stale' => t \notin stale
  BY <1>1, <1>3, Fresh
<1>6. Prepared(t)
  BY DEF IInv, TaskOK
<1>7. Prepared(t)'
  <2>1. CASE a = "x"
    <3>1. pc[t] = "fit x" /\ pc'[t] = "fit y"
      BY <1>1, <1>3, <2>1
    <3>2. t \notin stale => Begins(t, "x") /\ Begins(t, "y")
      BY <1>6, <3>1 DEF Prepared
    <3>3. Begins(t, "y") => Begins(t, "y")'
      BY <1>1, <1>2, <2>1 DEF Begins, Axes
    <3>4. QED
      BY <1>2, <1>5, <2>1, <3>1, <3>2, <3>3 DEF Prepared
  <2>2. CASE a = "y"
    <3>1. pc[t] = "fit y" /\ pc'[t] = "lock"
      BY <1>1, <1>3, <2>2
    <3>2. t \notin stale => Fits(t, "x") /\ Begins(t, "y")
      BY <1>6, <3>1 DEF Prepared
    <3>3. Fits(t, "x") => Fits(t, "x")'
      BY <1>1, <1>2, <2>2 DEF Fits, Axes
    <3>4. QED
      BY <1>2, <1>5, <2>2, <3>1, <3>2, <3>3 DEF Prepared
  <2>3. QED
    BY <2>1, <2>2 DEF Axes
<1>8. QED
  BY <1>1, <1>2, <1>3, <1>4, <1>7, LocalTypes, UnlockedStep

(* The test of a text call: the cell is shown whole. *)
LEMMA TextFitsStep ==
  ASSUME IInv, NoteStale, NEW t \in Tasks,
         \/ TextFits(t, "x", "text x", "text y")
         \/ TextFits(t, "y", "text y", "text lock")
  PROVE  IInv'
<1>1. PICK a \in Axes, step \in {"text y", "text lock"} :
        /\ a = "x" => pc[t] = "text x" /\ step = "text y"
        /\ a = "y" => pc[t] = "text y" /\ step = "text lock"
        /\ \/ Return(t)
           \/ /\ ~ (rect[t][a].from + rect[t][a].len > lcd_config[a].size)
              /\ rect[t][a].len # 0
              /\ pc' = [pc EXCEPT ![t] = step]
              /\ UNCHANGED <<rect, left, asked, turn>>
        /\ UNCHANGED <<lcd_config, lcd_tx_buffer, owner, panel>>
  BY DEF TextFits, Goto, Axes
<1>2. pc[t] \notin Locked /\ owner # t
  BY <1>1 DEF IInv, TaskOK, Holds, Locked, Axes
<1>3. CASE Return(t)
  <2>1. pc[t] \notin {"copy rest", "madctl"}
    BY <1>2 DEF Locked
  <2>2. QED
    BY <1>1, <1>2, <1>3, <2>1, ReturnStep
<1>4. CASE /\ ~ (rect[t][a].from + rect[t][a].len > lcd_config[a].size)
           /\ rect[t][a].len # 0
           /\ pc' = [pc EXCEPT ![t] = step]
           /\ UNCHANGED <<rect, left, asked, turn>>
  <2>1. /\ pc' \in [Tasks -> Steps] /\ pc'[t] = step
        /\ \A u \in Tasks \ {t} : Same(u)
    BY <1>4, LocalTypes DEF Steps, Same
  <2>2. t \notin stale' => t \notin stale
    BY <2>1, Fresh
  <2>3. Prepared(t)
    BY DEF IInv, TaskOK
  <2>4. UNCHANGED <<rect, asked, lcd_config>>
    BY <1>1, <1>4
  <2>5. /\ rect[t][a].from < lcd_config[a].size /\ rect[t][a].len > 0
        /\ rect[t][a].len =
             Least(rect[t][a].len, lcd_config[a].size - rect[t][a].from)
    BY <1>4, CheckedNumbers
  <2>6. rect[t] = asked[t] => Fits(t, a)
    BY <2>5 DEF Fits
  <2>7. CASE a = "x"
    <3>1. rect[t] = asked[t] /\ pc'[t] = "text y" /\ Fits(t, "x")
      BY <1>1, <2>1, <2>3, <2>6, <2>7 DEF Prepared
    <3>2. Fits(t, "x")'
      BY <2>4, <3>1 DEF Fits
    <3>3. Prepared(t)'
      BY <2>4, <3>1, <3>2 DEF Prepared
    <3>4. QED
      BY <1>1, <1>2, <1>4, <2>1, <3>1, <3>3, LocalTypes, UnlockedStep
         DEF Locked
  <2>8. CASE a = "y"
    <3>1. pc[t] = "text y" /\ pc'[t] = "text lock"
      BY <1>1, <2>1, <2>8
    <3>2. t \notin stale => Fits(t, "x") /\ Fits(t, "y")
      BY <2>3, <2>6, <2>8, <3>1 DEF Prepared
    <3>3. t \notin stale' => Fits(t, "x")' /\ Fits(t, "y")'
      BY <2>2, <2>4, <3>2 DEF Fits
    <3>4. Prepared(t)'
      BY <3>1, <3>3 DEF Prepared
    <3>5. QED
      BY <1>1, <1>2, <1>4, <2>1, <3>1, <3>4, LocalTypes, UnlockedStep
         DEF Locked
  <2>9. QED
    BY <2>7, <2>8 DEF Axes
<1>5. QED
  BY <1>1, <1>3, <1>4

(* A task decides to turn the display. *)
LEMMA BeginTurnStep ==
  ASSUME IInv, NoteStale, NEW t \in Tasks, NEW d \in Directions, Turn(t, d)
  PROVE  IInv'
<1>1. /\ pc[t] = "idle" /\ pc' = [pc EXCEPT ![t] = "turn"]
      /\ turn' = [turn EXCEPT ![t] = d]
      /\ UNCHANGED <<lcd_config, lcd_tx_buffer, owner, rect, left, asked,
                     panel>>
  BY DEF Turn, Goto
<1>2. /\ pc' \in [Tasks -> Steps] /\ pc'[t] = "turn"
      /\ turn' \in [Tasks -> Directions \cup {None}] /\ turn'[t] = d
      /\ \A u \in Tasks \ {t} : Same(u)
  BY <1>1, LocalTypes DEF Steps, Same
<1>3. Prepared(t)'
  BY <1>2 DEF Prepared
<1>4. pc[t] \notin Locked /\ pc'[t] \notin Locked
  BY <1>1, <1>2 DEF Locked
<1>5. QED
  BY <1>1, <1>2, <1>3, <1>4, LocalTypes, UnlockedStep

-----------------------------------------------------------------------------
(* The steps with the lock. *)

(* A task gets the lock. *)
LEMMA LockStep ==
  ASSUME IInv, NoteStale, NEW t \in Tasks,
         \/ Lock(t, "lock", "window") \/ Lock(t, "stream lock", "stream")
         \/ Lock(t, "text lock", "text") \/ Lock(t, "turn", "copy")
  PROVE  IInv'
<1>1. PICK step \in {"window", "stream", "text", "copy"} :
        /\ step = "window" => pc[t] = "lock"
        /\ step = "stream" => pc[t] = "stream lock"
        /\ step = "text" => pc[t] = "text lock"
        /\ step = "copy" => pc[t] = "turn"
        /\ owner = None /\ owner' = t
        /\ pc' = [pc EXCEPT ![t] = step]
        /\ UNCHANGED <<lcd_config, lcd_tx_buffer, rect, left, asked, turn,
                       panel>>
  BY DEF Lock, Goto
<1>2. /\ pc' \in [Tasks -> Steps] /\ pc'[t] = step
      /\ \A u \in Tasks \ {t} : Same(u)
  BY <1>1, LocalTypes DEF Steps, Same
<1>3. TypeOK'
  BY <1>1, <1>2, LocalTypes DEF TypeOK, NoteStale
<1>4. ConfigFollows'
  BY <1>1, <1>2, StillFollows DEF IInv, Same
<1>5. Prepared(t) /\ Turns(t)
  BY DEF IInv, TaskOK
<1>6. Prepared(t)'
  <2>1. t \notin stale' => t \notin stale
    BY <1>2, Fresh
  <2>2. /\ Fits(t, "x") => Fits(t, "x")'
        /\ Fits(t, "y") => Fits(t, "y")'
    BY <1>1 DEF Fits
  <2>3. QED
    BY <1>1, <1>2, <1>5, <2>1, <2>2 DEF Prepared
<1>7. Turns(t)' /\ Sends(t)' /\ Holds(t)'
  BY <1>1, <1>2, <1>5 DEF Turns, Sends, Holds, Locked
<1>8. ASSUME NEW u \in Tasks PROVE TaskOK(u)'
  <2>1. CASE u = t
    BY <1>6, <1>7, <2>1 DEF TaskOK
  <2>2. CASE u # t
    <3>1. owner' # u /\ owner # u
      BY <1>1, <2>2, LcdDrawAssumption
    <3>2. QED
      BY <1>2, <2>2, <3>1, Untouched DEF IInv
  <2>3. QED
    BY <2>1, <2>2
<1>9. QED
  BY <1>3, <1>4, <1>8 DEF IInv

(* Who is in a step that needs the lock has it. *)
LEMMA Owner ==
  ASSUME IInv, NEW t \in Tasks, pc[t] \in Locked
  PROVE  owner = t
BY DEF IInv, TaskOK, Holds

(* bsp_spi_unlock, and the call returns. *)
LEMMA UnlockStep ==
  ASSUME IInv, NoteStale, NEW t \in Tasks, Unlock(t)
  PROVE  IInv'
<1>1. /\ pc[t] = "unlock" /\ owner' = None /\ Return(t)
      /\ UNCHANGED <<lcd_config, lcd_tx_buffer, panel>>
  BY DEF Unlock
<1>2. owner = t
  BY <1>1, Owner DEF Locked
<1>3. QED
  BY <1>1, <1>2, ReturnStep

(* Who has the lock and is not turning the display finds it in the         *)
(* direction of lcd_config.                                                *)
LEMMA InForce ==
  ASSUME IInv, NEW t \in Tasks, owner = t,
         pc[t] \notin {"copy rest", "madctl"}
  PROVE  lcd_config = Configs[panel.direction]
BY Owner DEF IInv, ConfigFollows, Locked

(* A step that keeps the lock, lcd_config and the display's direction. *)
LEMMA SendingStep ==
  ASSUME IInv, NoteStale, NEW t \in Tasks,
         NEW next \in {"fill", "stream fill", "text fill", "send",
                      "stream send", "text send", "unlock"},
         pc[t] \in Locked \ {"copy rest", "madctl"},
         pc' = [pc EXCEPT ![t] = next],
         rect' \in [Tasks -> Rects], left' \in [Tasks -> Nat],
         \A u \in Tasks \ {t} : rect'[u] = rect[u] /\ left'[u] = left[u],
         lcd_tx_buffer' \in Tasks \cup {None},
         panel' \in [direction : Directions, pixels : Nat,
                     by : SUBSET (Tasks \cup {None}),
                     window : [Axes -> [from : Words, to : Words]]],
         panel'.direction = panel.direction,
         UNCHANGED <<lcd_config, owner, asked, turn>>,
         Sends(t)'
  PROVE  IInv'
<1>1. owner = t
  BY Owner
<1>2. /\ pc' \in [Tasks -> Steps] /\ pc'[t] = next
      /\ pc'[t] \in Locked /\ \A u \in Tasks \ {t} : Same(u)
  BY LocalTypes DEF Same, Steps, Locked
<1>3. TypeOK'
  BY <1>2, LocalTypes DEF TypeOK, NoteStale
<1>4. ConfigFollows'
  BY <1>2, StillFollows DEF IInv, Same
<1>5. Turns(t)' /\ Prepared(t)'
  BY <1>2 DEF Turns, Prepared, Locked
<1>6. QED
  BY <1>1, <1>2, <1>3, <1>4, <1>5, LockedStep

(* The types of what the display is told. *)
Panels == [direction : Directions, pixels : Nat,
           by : SUBSET (Tasks \cup {None}),
           window : [Axes -> [from : Words, to : Words]]]

(* The display gets the window for t's rectangle. *)
LEMMA WindowSent ==
  ASSUME IInv, NEW t \in Tasks, SendWindow(rect[t])
  PROVE  /\ panel' \in Panels /\ panel'.direction = panel.direction
         /\ panel'.by = {} /\ panel'.pixels = 0
         /\ panel'.window = Window(lcd_config, rect[t])
<1>1. panel \in Panels /\ rect[t] \in Rects
  BY LocalTypes DEF TypeOK, Panels
<1>2. Window(lcd_config, rect[t]) \in [Axes -> [from : Words, to : Words]]
  BY <1>1, LocalTypes, WindowType
<1> DEFINE w == Window(lcd_config, rect[t])
<1>3. panel' = [panel EXCEPT !.window = w, !.pixels = 0, !.by = {}]
  BY DEF SendWindow
<1> HIDE DEF w
<1>4. QED
  BY <1>1, <1>2, <1>3 DEF Panels, w

(* If the rectangle begins on the display, what is visible of it is what   *)
(* is visible of the one that was asked for, and the window is that.       *)
LEMMA WindowPlaced ==
  ASSUME IInv, NEW t \in Tasks, lcd_config = Configs[panel.direction],
         SendWindow(rect[t]), asked' = asked,
         \A a \in Axes :
           /\ rect[t][a].from < lcd_config[a].size /\ rect[t][a].len > 0
           /\ rect[t][a].from + rect[t][a].len <= Word
           /\ rect[t][a].from = asked[t][a].from
           /\ Least(rect[t][a].len, lcd_config[a].size - rect[t][a].from) =
                Least(asked[t][a].len, lcd_config[a].size - asked[t][a].from),
         NEW a \in Axes
  PROVE  /\ Placed(t, a)'
         /\ Extent(a)' = Least(rect[t][a].len,
                               lcd_config[a].size - rect[t][a].from)
<1> DEFINE d == panel.direction
           f == rect[t][a].from
           l == rect[t][a].len
           s == lcd_config[a].size
           o == lcd_config[a].offset
<1>1. d \in Directions /\ rect[t] \in Rects /\ lcd_config = Configs[d]
  BY LocalTypes
<1>2. panel'.window[a] = [from |-> f + o, to |-> f + o - 1 + Least(l, s - f)]
  <2>1. Window(lcd_config, rect[t])[a] =
          [from |-> f + o, to |-> f + o - 1 + Least(l, s - f)]
    <3> HIDE DEF d
    <3>1. \A b \in Axes :
            /\ rect[t][b].from < Configs[d][b].size /\ rect[t][b].len > 0
            /\ rect[t][b].from + rect[t][b].len <= Word
      BY <1>1
    <3>2. QED
      BY <1>1, <3>1, WindowOfVisible
  <2>2. QED
    BY <2>1, WindowSent
<1>3. /\ f \in Nat /\ l \in Nat /\ s \in Nat /\ o \in Nat
      /\ f < s /\ l > 0
  BY CallNumbers
<1>4. /\ asked[t][a].from = f
      /\ Least(asked[t][a].len, s - f) = Least(l, s - f)
  OBVIOUS
<1>5. panel'.window[a].from = f + o
      /\ panel'.window[a].to = f + o - 1 + Least(l, s - f)
  BY <1>2
<1>6. /\ panel'.direction = d /\ Configs[panel'.direction][a].size = s
      /\ Configs[panel'.direction][a].offset = o
  BY WindowSent
<1> HIDE DEF d, f, l, s, o
<1>7. Extent(a)' = Least(l, s - f) /\ Least(l, s - f) > 0
  <2>1. Least(l, s - f) \in Nat /\ Least(l, s - f) > 0
    BY <1>3 DEF Least
  <2>2. f + o - 1 + Least(l, s - f) - (f + o) + 1 = Least(l, s - f)
    BY <1>3, <2>1
  <2>3. Extent(a)' = panel'.window[a].to - panel'.window[a].from + 1
    BY DEF Extent
  <2>4. Extent(a)' = f + o - 1 + Least(l, s - f) - (f + o) + 1
    <3>1. panel'.window[a].from = f + o
      BY <1>5
    <3>2. panel'.window[a].to = f + o - 1 + Least(l, s - f)
      BY <1>5
    <3> QED
      BY <2>3, <3>1, <3>2, <1>3, <2>1
  <2>5. QED
    BY <2>1, <2>2, <2>4
<1>8. Placed(t, a)'
  BY <1>3, <1>4, <1>5, <1>6, <1>7 DEF Placed
<1>9. QED
  BY <1>7, <1>8 DEF f, l, s

(* A rectangle that fits is all visible. *)
LEMMA FitsNumbers ==
  ASSUME IInv, NEW t \in Tasks, NEW a \in Axes, Fits(t, a)
  PROVE  /\ rect[t][a].from < lcd_config[a].size /\ rect[t][a].len > 0
         /\ rect[t][a].from + rect[t][a].len <= Word
         /\ rect[t][a].from = asked[t][a].from
         /\ Least(rect[t][a].len, lcd_config[a].size - rect[t][a].from) =
              Least(asked[t][a].len, lcd_config[a].size - asked[t][a].from)
         /\ Least(rect[t][a].len, lcd_config[a].size - rect[t][a].from) =
              rect[t][a].len
<1> DEFINE f == rect[t][a].from
           l == rect[t][a].len
           m == asked[t][a].len
           s == lcd_config[a].size
<1>1. /\ f \in Nat /\ l \in Nat /\ m \in Nat /\ s \in Nat
      /\ f < s /\ l = Least(m, s - f) /\ l > 0 /\ asked[t][a].from = f
  BY CallNumbers DEF Fits
<1>2. s \in 0 .. Word - 1 /\ Word \in Nat
  BY CallNumbers, LocalTypes, WordsAreNumbers DEF Words
<1> HIDE DEF f, l, m, s
<1>3. f + l <= Word /\ Least(l, s - f) = Least(m, s - f)
      /\ Least(l, s - f) = l
  BY <1>1, <1>2 DEF Least
<1>4. QED
  BY <1>1, <1>3 DEF f, l, m, s

(* A call whose rectangle fits the display opens its window. *)
LEMMA WindowOpened ==
  ASSUME IInv, NEW t \in Tasks, lcd_config = Configs[panel.direction],
         SendWindow(rect[t]), UNCHANGED <<asked, rect>>,
         Fits(t, "x"), Fits(t, "y")
  PROVE  Opened(t)'
<1>1. \A a \in Axes : Fits(t, a)
  BY DEF Axes
<1>2. ASSUME NEW a \in Axes
      PROVE  Placed(t, a)' /\ rect'[t][a].len = Extent(a)'
  <2>1. /\ Placed(t, a)'
        /\ Extent(a)' = Least(rect[t][a].len,
                              lcd_config[a].size - rect[t][a].from)
    BY <1>1, FitsNumbers, WindowPlaced
  <2>2. QED
    BY <1>1, <2>1, FitsNumbers
<1>3. QED
  BY <1>2, WindowSent DEF Opened

(* lcd_begin_window. *)
LEMMA BeginWindowStep ==
  ASSUME IInv, NoteStale, NEW t \in Tasks, BeginWindow(t)
  PROVE  IInv'
<1>1. /\ pc[t] = "window" /\ SendWindow(rect[t])
      /\ pc' = [pc EXCEPT ![t] = "fill"]
      /\ UNCHANGED <<lcd_config, lcd_tx_buffer, owner, rect, left, asked,
                     turn>>
  BY DEF BeginWindow, Goto
<1>2. pc'[t] = "fill"
  BY <1>1, LocalTypes
<1>3. lcd_config = Configs[panel.direction]
  BY <1>1, Owner, InForce DEF Locked
<1>4. t \notin stale' => Opened(t)'
  <2>1. t \notin stale' => t \notin stale
    BY <1>2, Fresh
  <2>2. t \notin stale => Fits(t, "x") /\ Fits(t, "y")
    BY <1>1 DEF IInv, TaskOK, Prepared
  <2>3. QED
    BY <1>1, <1>3, <2>1, <2>2, WindowOpened
<1>5. Sends(t)'
  BY <1>2, <1>4 DEF Sends
<1>6. panel' \in Panels /\ panel'.direction = panel.direction
  BY <1>1, WindowSent
<1>7. lcd_tx_buffer' \in Tasks \cup {None}
  BY <1>1 DEF IInv, TypeOK
<1>8. QED
  BY <1>1, <1>5, <1>6, <1>7, LocalTypes, SendingStep DEF Locked, Panels

(* bsp_lcd_set_address in a text call. *)
LEMMA TextAddressStep ==
  ASSUME IInv, NoteStale, NEW t \in Tasks, TextAddress(t)
  PROVE  IInv'
<1> DEFINE shown == \A a \in Axes : rect[t][a].from < lcd_config[a].size
<1>1. /\ pc[t] = "text"
      /\ IF shown THEN SendWindow(rect[t]) ELSE UNCHANGED panel
      /\ pc' = [pc EXCEPT ![t] = "text fill"]
      /\ UNCHANGED <<lcd_config, lcd_tx_buffer, owner, rect, left, asked,
                     turn>>
  BY DEF TextAddress, Goto
<1>2. pc'[t] = "text fill"
  BY <1>1, LocalTypes
<1>3. lcd_config = Configs[panel.direction]
  BY <1>1, Owner, InForce DEF Locked
<1>4. t \notin stale' => Opened(t)'
  <2>1. t \notin stale' => t \notin stale
    BY <1>2, Fresh
  <2>2. t \notin stale => Fits(t, "x") /\ Fits(t, "y")
    BY <1>1 DEF IInv, TaskOK, Prepared
  <2>3. Fits(t, "x") /\ Fits(t, "y") => shown
    BY DEF Fits, Axes
  <2>4. QED
    BY <1>1, <1>3, <2>1, <2>2, <2>3, WindowOpened
<1>5. Sends(t)'
  BY <1>2, <1>4 DEF Sends
<1> HIDE DEF shown
<1>6. panel' \in Panels /\ panel'.direction = panel.direction
  <2>1. CASE shown
    BY <1>1, <2>1, WindowSent
  <2>2. CASE ~ shown
    BY <1>1, <2>2 DEF IInv, TypeOK, Panels
  <2>3. QED
    BY <2>1, <2>2
<1>7. lcd_tx_buffer' \in Tasks \cup {None}
  BY <1>1 DEF IInv, TypeOK
<1>8. QED
  BY <1>1, <1>5, <1>6, <1>7, LocalTypes, SendingStep DEF Locked, Panels

(* bsp_lcd_set_address in a stream: the window is cut to what the display  *)
(* shows, and so is what the caller will send.                             *)
LEMMA SetAddressStep ==
  ASSUME IInv, NoteStale, NEW t \in Tasks, SetAddress(t)
  PROVE  IInv'
<1> DEFINE shown == \A a \in Axes : /\ rect[t][a].from < lcd_config[a].size
                                    /\ rect[t][a].len > 0
           cut(a) == Least(rect[t][a].len,
                           lcd_config[a].size - rect[t][a].from)
           fit == [a \in Axes |-> [rect[t][a] EXCEPT !.len = cut(a)]]
<1>1. /\ pc[t] = "stream"
      /\ IF shown
         THEN /\ SendWindow(rect[t])
              /\ rect' = [rect EXCEPT ![t] = fit]
              /\ pc' = [pc EXCEPT ![t] = "stream fill"]
         ELSE pc' = [pc EXCEPT ![t] = "unlock"] /\ UNCHANGED <<panel, rect>>
      /\ UNCHANGED <<lcd_config, lcd_tx_buffer, owner, left, asked, turn>>
  BY DEF SetAddress, Goto
<1>2. /\ lcd_config = Configs[panel.direction]
      /\ rect[t] = asked[t]
      /\ \A a \in Axes : rect[t][a].from + rect[t][a].len <= Word
  <2>1. Prepared(t)
    BY DEF IInv, TaskOK
  <2>2. QED
    BY <1>1, <2>1, Owner, InForce DEF Locked, Prepared
<1>3. lcd_tx_buffer' \in Tasks \cup {None}
  BY <1>1 DEF IInv, TypeOK
<1>4. CASE shown
  <2>1. /\ SendWindow(rect[t]) /\ rect' = [rect EXCEPT ![t] = fit]
        /\ pc' = [pc EXCEPT ![t] = "stream fill"]
    BY <1>1, <1>4
  <2>2. ASSUME NEW a \in Axes
        PROVE  /\ Placed(t, a)' /\ Extent(a)' = cut(a)
    BY <1>1, <1>2, <1>4, <2>1, WindowPlaced
  <2>3. ASSUME NEW a \in Axes
        PROVE  fit[a] \in [from : Words, len : Words] /\ fit[a].len = cut(a)
    <3>1. rect[t][a] \in [from : Words, len : Words]
      BY CallNumbers DEF Rects
    <3>2. cut(a) \in Words
      <4>1. rect[t][a].len \in Words
        BY <3>1
      <4>2. /\ rect[t][a].from \in Nat /\ rect[t][a].len \in Nat
            /\ lcd_config[a].size \in Nat
            /\ rect[t][a].from < lcd_config[a].size
        BY <1>4, CallNumbers
      <4>3. lcd_config[a].size \in 0 .. Word - 1 /\ Word \in Nat
        BY CallNumbers, LocalTypes, WordsAreNumbers DEF Words
      <4> HIDE DEF shown
      <4>4. lcd_config[a].size - rect[t][a].from \in Words
        BY <4>2, <4>3 DEF Words
      <4>5. QED
        BY <4>1, <4>4 DEF Least
    <3> HIDE DEF cut
    <3>3. fit[a] = [rect[t][a] EXCEPT !.len = cut(a)]
      OBVIOUS
    <3>4. QED
      BY <3>1, <3>2, <3>3
  <2>4. fit \in Rects
    <3> HIDE DEF cut
    <3>1. DOMAIN fit = Axes /\ fit = [a \in Axes |-> fit[a]]
      OBVIOUS
    <3> HIDE DEF fit
    <3>2. QED
      BY <2>3, <3>1 DEF Rects
  <2> HIDE DEF fit, cut, shown
  <2>5. /\ rect' \in [Tasks -> Rects] /\ rect'[t] = fit
        /\ \A u \in Tasks \ {t} : rect'[u] = rect[u]
    BY <2>1, <2>4, LocalTypes
  <2>6. Opened(t)'
    <3>1. panel'.by = {} /\ panel'.pixels = 0
      BY <2>1, WindowSent
    <3>2. \A a \in Axes : Placed(t, a)' /\ rect'[t][a].len = Extent(a)'
      BY <2>2, <2>3, <2>5
    <3>3. QED
      BY <3>1, <3>2 DEF Opened
  <2>7. pc'[t] = "stream fill"
    BY <2>1, LocalTypes
  <2>8. Sends(t)'
    BY <2>6, <2>7 DEF Sends
  <2>9. panel' \in Panels /\ panel'.direction = panel.direction
    BY <2>1, WindowSent
  <2>10. left' \in [Tasks -> Nat]
         /\ \A u \in Tasks \ {t} : rect'[u] = rect[u] /\ left'[u] = left[u]
    BY <1>1, <2>5, LocalTypes
  <2>11. QED
    BY <1>1, <1>3, <2>1, <2>5, <2>8, <2>9, <2>10, SendingStep
       DEF Locked, Panels
<1>5. CASE ~ shown
  <2>1. pc' = [pc EXCEPT ![t] = "unlock"] /\ UNCHANGED <<panel, rect>>
    BY <1>1, <1>5
  <2> HIDE DEF fit, cut, shown
  <2>2. pc'[t] = "unlock"
    BY <2>1, LocalTypes
  <2>3. Sends(t)'
    BY <2>2 DEF Sends
  <2>4. panel' \in Panels /\ panel'.direction = panel.direction
    BY <2>1 DEF IInv, TypeOK, Panels
  <2>5. QED
    BY <1>1, <1>3, <2>1, <2>3, <2>4, LocalTypes, SendingStep
       DEF Locked, Panels
<1>6. QED
  BY <1>4, <1>5

(* A rectangle has a natural number of pixels. *)
LEMMA AreaIsNat ==
  ASSUME NEW d \in Directions, NEW r \in Rects
  PROVE  Area(r) \in Nat
<1>1. r["x"].len \in Nat /\ r["y"].len \in Nat
  BY RectFacts DEF Axes
<1>2. QED
  BY <1>1, ProductsGrow DEF Area

(* Before the first pixel, all that the window holds is still to be sent. *)
LEMMA AllToSend ==
  ASSUME IInv, NEW t \in Tasks, UNCHANGED <<panel, asked>>,
         left'[t] = Area(rect[t]), Opened(t)
  PROVE  Filling(t)'
<1> DEFINE n == Area(rect[t])
<1>1. n \in Nat
  BY CallNumbers, LocalTypes, AreaIsNat DEF Axes
<1>2. \A a \in Axes : Placed(t, a)' /\ Extent(a)' = Extent(a)
  BY DEF Opened, Placed, Extent
<1>3. n = Extent("x") * Extent("y")
  BY DEF Opened, Axes, Area
<1>4. panel'.by = {} /\ panel'.pixels = 0 /\ left'[t] = n
  BY DEF Opened
<1> HIDE DEF n
<1>5. panel'.pixels + left'[t] = n
  BY <1>1, <1>4
<1>6. n = Extent("x")' * Extent("y")'
  BY <1>2, <1>3 DEF Axes
<1>7. QED
  BY <1>2, <1>4, <1>5, <1>6 DEF Filling

(* The buffer is filled, and everything is still to be sent. *)
LEMMA FillBufferStep ==
  ASSUME IInv, NoteStale, NEW t \in Tasks, FillBuffer(t)
  PROVE  IInv'
<1> DEFINE n == Area(rect[t])
<1>1. PICK next \in {"send", "stream send", "text send"} :
        /\ pc[t] \in {"fill", "stream fill", "text fill"}
        /\ next = "send" <=> pc[t] = "fill"
        /\ next = "stream send" <=> pc[t] = "stream fill"
        /\ next = "text send" <=> pc[t] = "text fill"
        /\ lcd_tx_buffer' = t /\ left' = [left EXCEPT ![t] = n]
        /\ pc' = [pc EXCEPT ![t] = next]
        /\ UNCHANGED <<lcd_config, owner, rect, asked, turn, panel>>
  BY DEF FillBuffer, Sending, Goto
<1>2. n \in Nat
  BY CallNumbers, LocalTypes, AreaIsNat DEF Axes
<1> HIDE DEF n
<1>3. /\ left' \in [Tasks -> Nat] /\ left'[t] = n
      /\ \A u \in Tasks \ {t} : rect'[u] = rect[u] /\ left'[u] = left[u]
  BY <1>1, <1>2, LocalTypes
<1>4. pc'[t] = next /\ rect' \in [Tasks -> Rects]
  BY <1>1, LocalTypes
<1>5. t \notin stale' => t \notin stale
  BY <1>1, <1>4, Fresh
<1>6. Opened(t) => Filling(t)'
  BY <1>1, <1>3, AllToSend DEF n
<1>7. Sends(t)
  BY DEF IInv, TaskOK
<1>8. Sends(t)'
  BY <1>1, <1>4, <1>5, <1>6, <1>7 DEF Sends
<1>9. panel' \in Panels /\ panel'.direction = panel.direction
  BY <1>1 DEF IInv, TypeOK, Panels
<1>10. pc[t] \in Locked \ {"copy rest", "madctl"}
  BY <1>1 DEF Locked
<1>11. QED
  BY <1>1, <1>3, <1>4, <1>8, <1>9, <1>10, SendingStep DEF Panels

(* The window a call has placed is no bigger than the display, so its      *)
(* pixels are counted to the last one.                                     *)
LEMMA WindowCounted ==
  ASSUME IInv, NEW t \in Tasks, \A a \in Axes : Placed(t, a)
  PROVE  /\ Extent("x") * Extent("y") \in Nat
         /\ Extent("x") * Extent("y") <= MaxCounted
<1> DEFINE c == Configs[panel.direction]
<1>1. ASSUME NEW a \in Axes
      PROVE  /\ Extent(a) \in Nat /\ c[a].size \in Nat
             /\ Extent(a) <= c[a].size
  <2> DEFINE f == asked[t][a].from
             l == asked[t][a].len
             s == c[a].size
  <2>1. f \in Nat /\ l \in Nat
    BY CallNumbers
  <2>2. s \in Nat
    BY LocalTypes, PanelFacts
  <2>3. f < s /\ Extent(a) = Least(l, s - f)
    BY DEF Placed
  <2> HIDE DEF f, l, s, c
  <2>4. Least(l, s - f) \in Nat /\ Least(l, s - f) <= s
    BY <2>1, <2>2, <2>3 DEF Least
  <2>5. QED
    BY <2>2, <2>3, <2>4 DEF s
<1>2. "x" \in Axes /\ "y" \in Axes
  BY DEF Axes
<1>3. c["x"].size * c["y"].size <= MaxCounted
  BY LocalTypes, LcdDrawAssumption
<1>4. MaxCounted \in Nat
  BY LcdDrawAssumption
<1> HIDE DEF c
<1> DEFINE m == Extent("x")
           n == Extent("y")
           w == c["x"].size
           h == c["y"].size
<1>5. /\ m \in Nat /\ n \in Nat /\ w \in Nat /\ h \in Nat
      /\ m <= w /\ n <= h
  BY <1>1, <1>2
<1> HIDE DEF m, n, w, h
<1>6. m * n \in Nat /\ m * n <= w * h /\ w * h \in Nat
  BY <1>5, ProductsGrow
<1>7. w * h <= MaxCounted
  BY <1>3 DEF w, h
<1>8. m * n <= MaxCounted
  <2> DEFINE p == m * n
             q == w * h
  <2>1. p \in Nat /\ p <= q /\ q \in Nat /\ q <= MaxCounted
    BY <1>6, <1>7
  <2> HIDE DEF p, q
  <2>2. p <= MaxCounted
    BY <1>4, <2>1
  <2>3. QED
    BY <2>2 DEF p
<1>9. QED
  BY <1>6, <1>8 DEF m, n

(* A buffer of pixels is sent: what was missing in the window still is, or *)
(* is there.                                                               *)
LEMMA BufferSent ==
  ASSUME IInv, NEW t \in Tasks, left[t] > 0,
         UNCHANGED asked, lcd_tx_buffer = t,
         left'[t] = left[t] - Least(left[t], MaxPixels),
         panel'.window = panel.window, panel'.direction = panel.direction,
         panel'.pixels = Counted(panel.pixels + Least(left[t], MaxPixels)),
         panel'.by = panel.by \cup {lcd_tx_buffer},
         Filling(t)
  PROVE  Filling(t)'
<1> DEFINE k == left[t]
           p == panel.pixels
           w == Extent("x") * Extent("y")
           n == Least(k, MaxPixels)
<1>1. k \in Nat /\ p \in Nat /\ MaxPixels \in Nat /\ MaxCounted \in Nat
  <2>1. k \in Nat /\ p \in Nat
    BY LocalTypes DEF TypeOK
  <2>2. QED
    BY <2>1, LcdDrawAssumption
<1>2. \A a \in Axes : Placed(t, a)
  BY DEF Filling
<1>3. w \in Nat /\ w <= MaxCounted
  BY <1>2, WindowCounted
<1>4. p + k = w
  BY DEF Filling
<1>5. \A a \in Axes : Placed(t, a)' /\ Extent(a)' = Extent(a)
  BY <1>2 DEF Placed, Extent
<1>6. w = Extent("x")' * Extent("y")'
  BY <1>5 DEF Axes
<1>7. left'[t] = k - n /\ panel'.pixels = Counted(p + n)
  OBVIOUS
<1>8. panel'.by \subseteq {t}
  BY DEF Filling
<1> HIDE DEF k, p, w
<1>9. Counted(p + n) = p + n /\ p + n \in Nat /\ k - n \in Nat
  BY <1>1, <1>3, <1>4 DEF Counted, Least
<1>10. (p + n) + (k - n) = w
  <2>1. n \in Nat
    BY <1>1 DEF Least
  <2> HIDE DEF n
  <2>2. QED
    BY <1>1, <1>3, <1>4, <2>1
<1> HIDE DEF n
<1>11. panel'.pixels + left'[t] = w
  BY <1>7, <1>9, <1>10
<1>12. QED
  BY <1>5, <1>6, <1>8, <1>11 DEF Filling

(* What is left and what is counted stay natural numbers. *)
LEMMA SendNumbers ==
  ASSUME IInv, NEW t \in Tasks
  PROVE  /\ left[t] - Least(left[t], MaxPixels) \in Nat
         /\ Counted(panel.pixels + Least(left[t], MaxPixels)) \in Nat
<1> DEFINE k == left[t]
           p == panel.pixels
<1>1. k \in Nat /\ p \in Nat
  BY LocalTypes DEF TypeOK
<1>2. MaxPixels \in Nat /\ MaxCounted \in Nat
  BY LcdDrawAssumption
<1> HIDE DEF k, p
<1>3. /\ k - Least(k, MaxPixels) \in Nat
      /\ Counted(p + Least(k, MaxPixels)) \in Nat
  BY <1>1, <1>2 DEF Counted, Least
<1>4. QED
  BY <1>3 DEF k, p

(* The pixels in the buffer are sent, or the call is done with them. *)
LEMMA SendBufferStep ==
  ASSUME IInv, NoteStale, NEW t \in Tasks, SendBuffer(t)
  PROVE  IInv'
<1> DEFINE n == Least(left[t], MaxPixels)
           k == left[t] - n
           c == Counted(panel.pixels + n)
<1>1. /\ pc[t] \in {"send", "stream send", "text send"}
      /\ \/ /\ left[t] > 0
            /\ left' = [left EXCEPT ![t] = k]
            /\ panel' = [panel EXCEPT !.pixels = c,
                                      !.by = @ \cup {lcd_tx_buffer}]
            /\ pc' = pc
         \/ pc' = [pc EXCEPT ![t] = "unlock"] /\ UNCHANGED <<left, panel>>
      /\ UNCHANGED <<lcd_config, lcd_tx_buffer, owner, rect, asked, turn>>
  BY DEF SendBuffer, Goto
<1>2. /\ k \in Nat /\ c \in Nat
      /\ k = left[t] - Least(left[t], MaxPixels)
      /\ c = Counted(panel.pixels + Least(left[t], MaxPixels))
  BY SendNumbers
<1> HIDE DEF n, k, c
<1>3. Sends(t) /\ lcd_tx_buffer = t /\ lcd_tx_buffer' \in Tasks \cup {None}
  BY <1>1 DEF IInv, TaskOK, TypeOK, Sends
<1>4. pc[t] \in Locked \ {"copy rest", "madctl"}
  BY <1>1 DEF Locked
<1>5. panel \in Panels /\ pc \in [Tasks -> Steps] /\ left \in [Tasks -> Nat]
  BY LocalTypes DEF TypeOK, Panels
<1>6. CASE /\ left[t] > 0
           /\ left' = [left EXCEPT ![t] = k]
           /\ panel' = [panel EXCEPT !.pixels = c,
                                     !.by = @ \cup {lcd_tx_buffer}]
           /\ pc' = pc
  <2>1. /\ left' \in [Tasks -> Nat] /\ left'[t] = k
        /\ \A u \in Tasks \ {t} : rect'[u] = rect[u] /\ left'[u] = left[u]
    BY <1>1, <1>2, <1>5, <1>6
  <2>2. /\ panel'.pixels = c /\ panel'.by = panel.by \cup {lcd_tx_buffer}
        /\ panel'.window = panel.window
        /\ panel'.direction = panel.direction
    BY <1>5, <1>6 DEF Panels
  <2>3. panel' \in Panels
    <3>1. panel.by \cup {lcd_tx_buffer} \subseteq Tasks \cup {None}
      BY <1>3, <1>5 DEF Panels
    <3>2. QED
      BY <1>2, <1>5, <1>6, <3>1 DEF Panels
  <2>4. Filling(t) => Filling(t)'
    BY <1>1, <1>2, <1>3, <1>6, <2>1, <2>2, BufferSent
  <2>5. pc'[t] = pc[t] /\ pc'[t] # "idle"
    BY <1>1, <1>6
  <2>6. t \notin stale' => t \notin stale
    BY <2>5, Fresh
  <2>7. Sends(t)'
    BY <1>1, <1>3, <2>4, <2>5, <2>6 DEF Sends
  <2>8. pc' = [pc EXCEPT ![t] = pc[t]]
    BY <1>5, <1>6
  <2>9. pc[t] \in {"fill", "stream fill", "text fill", "send",
                   "stream send", "text send", "unlock"}
    BY <1>1
  <2>10. QED
    BY <1>1, <1>3, <1>4, <2>1, <2>2, <2>3, <2>7, <2>8, <2>9, LocalTypes,
       SendingStep DEF Panels
<1>7. CASE pc' = [pc EXCEPT ![t] = "unlock"] /\ UNCHANGED <<left, panel>>
  <2>1. pc'[t] = "unlock"
    BY <1>5, <1>7
  <2>2. Sends(t)'
    BY <2>1 DEF Sends
  <2>3. panel' \in Panels /\ panel'.direction = panel.direction
    BY <1>5, <1>7
  <2>4. QED
    BY <1>1, <1>3, <1>4, <1>7, <2>2, <2>3, LocalTypes, SendingStep
       DEF Panels
<1>8. QED
  BY <1>1, <1>6, <1>7

-----------------------------------------------------------------------------
(* bsp_lcd_set_direction, with the lock. *)

(* Who turns the display knows the direction, which is one of the panel's. *)
LEMMA TurnsKnown ==
  ASSUME IInv, NEW t \in Tasks, pc[t] \in {"copy", "copy rest", "madctl"}
  PROVE  /\ turn[t] \in Directions /\ owner = t
         /\ Configs[turn[t]] \in [Axes -> [size : Words, offset : Words]]
<1>1. turn[t] \in Directions
  BY DEF IInv, TaskOK, Turns
<1>2. owner = t
  BY Owner DEF Locked
<1>3. QED
  BY <1>1, <1>2, PanelFacts

(* The width is copied. *)
LEMMA CopyWidthStep ==
  ASSUME IInv, NoteStale, NEW t \in Tasks, CopyWidth(t)
  PROVE  IInv'
<1> DEFINE n == Configs[turn[t]]["x"].size
<1>1. /\ pc[t] = "copy" /\ pc' = [pc EXCEPT ![t] = "copy rest"]
      /\ lcd_config' = [lcd_config EXCEPT !["x"].size = n]
      /\ UNCHANGED <<lcd_tx_buffer, owner, rect, left, asked, turn, panel>>
  BY DEF CopyWidth, Goto
<1>2. n \in Words /\ owner = t /\ turn[t] \in Directions
  <2>1. /\ turn[t] \in Directions /\ owner = t
        /\ Configs[turn[t]] \in [Axes -> [size : Words, offset : Words]]
    BY <1>1, TurnsKnown
  <2>2. n \in Words
    BY <2>1, ConfigFacts DEF Axes
  <2>3. QED
    BY <2>1, <2>2
<1> HIDE DEF n
<1>3. lcd_config' \in [Axes -> [size : Words, offset : Words]]
  BY <1>1, <1>2, LocalTypes DEF Axes
<1>4. /\ pc' \in [Tasks -> Steps] /\ pc'[t] = "copy rest"
      /\ \A u \in Tasks \ {t} : Same(u)
  BY <1>1, LocalTypes DEF Steps, Same
<1>5. TypeOK'
  BY <1>1, <1>3, <1>4, LocalTypes DEF TypeOK, NoteStale
<1>6. ConfigFollows'
  BY <1>4 DEF ConfigFollows
<1>7. Turns(t)' /\ Prepared(t)' /\ Sends(t)' /\ pc'[t] \in Locked
  BY <1>1, <1>2, <1>4 DEF Turns, Prepared, Sends, Locked
<1>8. QED
  BY <1>1, <1>2, <1>4, <1>5, <1>6, <1>7, LockedStep

(* The rest of the structure is copied: it is the direction's. *)
LEMMA CopyRestStep ==
  ASSUME IInv, NoteStale, NEW t \in Tasks, CopyRest(t)
  PROVE  IInv'
<1>1. /\ pc[t] = "copy rest" /\ pc' = [pc EXCEPT ![t] = "madctl"]
      /\ lcd_config' = Configs[turn[t]]
      /\ UNCHANGED <<lcd_tx_buffer, owner, rect, left, asked, turn, panel>>
  BY DEF CopyRest, Goto
<1>2. /\ turn[t] \in Directions /\ owner = t
      /\ Configs[turn[t]] \in [Axes -> [size : Words, offset : Words]]
  BY <1>1, TurnsKnown
<1>3. /\ pc' \in [Tasks -> Steps] /\ pc'[t] = "madctl"
      /\ \A u \in Tasks \ {t} : Same(u)
  BY <1>1, LocalTypes DEF Steps, Same
<1>4. TypeOK'
  BY <1>1, <1>2, <1>3, LocalTypes DEF TypeOK, NoteStale
<1>5. ConfigFollows'
  BY <1>3 DEF ConfigFollows
<1>6. Turns(t)' /\ Prepared(t)' /\ Sends(t)' /\ pc'[t] \in Locked
  BY <1>1, <1>2, <1>3 DEF Turns, Prepared, Sends, Locked
<1>7. QED
  BY <1>1, <1>2, <1>3, <1>4, <1>5, <1>6, LockedStep

(* The display is told, and lcd_config and it agree again. *)
LEMMA MadctlStep ==
  ASSUME IInv, NoteStale, NEW t \in Tasks, Madctl(t)
  PROVE  IInv'
<1>1. /\ pc[t] = "madctl" /\ pc' = [pc EXCEPT ![t] = "unlock"]
      /\ panel' = [panel EXCEPT !.direction = turn[t]]
      /\ UNCHANGED <<lcd_config, lcd_tx_buffer, owner, rect, left, asked,
                     turn>>
  BY DEF Madctl, Goto
<1>2. turn[t] \in Directions /\ owner = t
  BY <1>1, TurnsKnown
<1>3. lcd_config = Configs[turn[t]]
  BY <1>1 DEF IInv, TaskOK, Turns
<1>4. panel \in Panels
  BY DEF IInv, TypeOK, Panels
<1>5. panel' \in Panels /\ panel'.direction = turn[t]
  BY <1>1, <1>2, <1>4 DEF Panels
<1>6. /\ pc' \in [Tasks -> Steps] /\ pc'[t] = "unlock"
      /\ \A u \in Tasks \ {t} : Same(u)
  BY <1>1, LocalTypes DEF Steps, Same
<1>7. TypeOK'
  BY <1>1, <1>5, <1>6, LocalTypes DEF TypeOK, NoteStale, Panels
<1>8. ConfigFollows'
  BY <1>1, <1>3, <1>5 DEF ConfigFollows
<1>9. Turns(t)' /\ Prepared(t)' /\ Sends(t)' /\ pc'[t] \in Locked
  BY <1>6 DEF Turns, Prepared, Sends, Locked
<1>10. QED
  BY <1>1, <1>2, <1>6, <1>7, <1>8, <1>9, LockedStep

-----------------------------------------------------------------------------
(* The invariant. *)

(* It holds at the start. *)
LEMMA InitIsSound ==
  ASSUME Init
  PROVE  IInv
<1>1. PICK d \in Directions :
        /\ lcd_config = Configs[d] /\ lcd_tx_buffer = None /\ owner = None
        /\ pc = [t \in Tasks |-> "idle"]
        /\ rect = [t \in Tasks |-> Empty] /\ asked = rect
        /\ left = [t \in Tasks |-> 0] /\ turn = [t \in Tasks |-> None]
        /\ stale = {}
        /\ panel = [direction |-> d, pixels |-> 0, by |-> {},
                    window |-> [a \in Axes |-> [from |-> 0, to |-> 0]]]
  BY DEF Init
<1>2. 0 \in Words
  BY WordsAreNumbers
<1>3. lcd_config \in [Axes -> [size : Words, offset : Words]]
  BY <1>1, PanelFacts
<1>4. Empty \in Rects
  BY <1>2 DEF Empty, Rects
<1>5. panel \in Panels
  BY <1>1, <1>2 DEF Panels
<1>6. TypeOK
  BY <1>1, <1>3, <1>4, <1>5 DEF TypeOK, Steps, Panels
<1>7. ConfigFollows
  BY <1>1 DEF ConfigFollows
<1>8. ASSUME NEW t \in Tasks PROVE TaskOK(t)
  <2>1. pc[t] = "idle" /\ owner # t
    BY <1>1, LcdDrawAssumption
  <2>2. QED
    BY <2>1 DEF TaskOK, Holds, Turns, Prepared, Sends, Locked
<1>9. QED
  BY <1>6, <1>7, <1>8 DEF IInv

(* What is asked for is a rectangle. *)
LEMMA AskedAreRects ==
  ASSUME IInv
  PROVE  /\ \A r \in Asked : r \in Rects
         /\ Empty \in Rects
<1>1. 0 \in Words
  BY LocalTypes, WordsAreNumbers
<1>2. QED
  BY <1>1, LcdDrawAssumption DEF Empty, Rects

(* Every step preserves it. *)
LEMMA NextKeeps ==
  ASSUME IInv, [Next]_vars
  PROVE  IInv'
<1>1. CASE Next
  <2>1. NoteStale
    BY <1>1 DEF Next
  <2>2. PICK t \in Tasks :
          DrawStep(t) \/ StreamStep(t) \/ TextStep(t) \/ TurnStep(t)
    BY <1>1 DEF Next
  <2>3. CASE DrawStep(t)
    <3>1. CASE \E r \in Asked : Draw(t, r)
      BY <2>1, <3>1, AskedAreRects, AskStep DEF Draw
    <3>2. CASE Clear(t)
      BY <2>1, <3>2, AskedAreRects, AskStep DEF Clear
    <3>3. CASE \/ ReadSize(t, "x", "clear x", "clear y")
               \/ ReadSize(t, "y", "clear y", "check x")
      BY <2>1, <3>3, ReadSizeStep
    <3>4. CASE \/ ClipCheck(t, "x", "check x", "check y")
               \/ ClipCheck(t, "y", "check y", "fit x")
      BY <2>1, <3>4, ClipCheckStep
    <3>5. CASE \/ ClipFit(t, "x", "fit x", "fit y")
               \/ ClipFit(t, "y", "fit y", "lock")
      BY <2>1, <3>5, ClipFitStep
    <3>6. CASE Lock(t, "lock", "window")
      BY <2>1, <3>6, LockStep
    <3>7. CASE BeginWindow(t)
      BY <2>1, <3>7, BeginWindowStep
    <3>8. CASE FillBuffer(t)
      BY <2>1, <3>8, FillBufferStep
    <3>9. CASE SendBuffer(t)
      BY <2>1, <3>9, SendBufferStep
    <3>10. CASE Unlock(t)
      BY <2>1, <3>10, UnlockStep
    <3>11. QED
      BY <2>3, <3>1, <3>2, <3>3, <3>4, <3>5, <3>6, <3>7, <3>8, <3>9, <3>10
         DEF DrawStep
  <2>4. CASE StreamStep(t)
    <3>1. CASE \E r \in Asked : Stream(t, r)
      BY <2>1, <3>1, AskedAreRects, AskStep DEF Stream
    <3>2. CASE Lock(t, "stream lock", "stream")
      BY <2>1, <3>2, LockStep
    <3>3. CASE SetAddress(t)
      BY <2>1, <3>3, SetAddressStep
    <3>4. QED
      BY <2>4, <3>1, <3>2, <3>3 DEF StreamStep
  <2>5. CASE TextStep(t)
    <3>1. CASE \E r \in Asked : Text(t, r)
      BY <2>1, <3>1, AskedAreRects, AskStep DEF Text
    <3>2. CASE \/ TextFits(t, "x", "text x", "text y")
               \/ TextFits(t, "y", "text y", "text lock")
      BY <2>1, <3>2, TextFitsStep
    <3>3. CASE Lock(t, "text lock", "text")
      BY <2>1, <3>3, LockStep
    <3>4. CASE TextAddress(t)
      BY <2>1, <3>4, TextAddressStep
    <3>5. QED
      BY <2>5, <3>1, <3>2, <3>3, <3>4 DEF TextStep
  <2>6. CASE TurnStep(t)
    <3>1. CASE \E d \in Directions : Turn(t, d)
      BY <2>1, <3>1, BeginTurnStep
    <3>2. CASE Lock(t, "turn", "copy")
      BY <2>1, <3>2, LockStep
    <3>3. CASE CopyWidth(t)
      BY <2>1, <3>3, CopyWidthStep
    <3>4. CASE CopyRest(t)
      BY <2>1, <3>4, CopyRestStep
    <3>5. CASE Madctl(t)
      BY <2>1, <3>5, MadctlStep
    <3>6. QED
      BY <2>6, <3>1, <3>2, <3>3, <3>4, <3>5 DEF TurnStep
  <2>7. QED
    BY <2>2, <2>3, <2>4, <2>5, <2>6
<1>2. CASE UNCHANGED vars
  <2>1. UNCHANGED <<lcd_config, lcd_tx_buffer, owner, pc, rect, left, asked,
                    turn, stale, panel>>
    BY <1>2 DEF vars, locals
  <2>2. TypeOK' /\ ConfigFollows'
    BY <2>1 DEF IInv, TypeOK, ConfigFollows
  <2>3. ASSUME NEW t \in Tasks PROVE TaskOK(t)'
    <3>1. TaskOK(t)
      BY DEF IInv
    <3>2. Holds(t)' /\ Turns(t)'
      BY <2>1, <3>1 DEF TaskOK, Holds, Turns
    <3>3. Prepared(t)'
      BY <2>1, <3>1 DEF TaskOK, Prepared, Begins, Fits
    <3>4. Sends(t)'
      BY <2>1, <3>1 DEF TaskOK, Sends, Opened, Filling, Placed, Extent
    <3>5. QED
      BY <3>2, <3>3, <3>4 DEF TaskOK
  <2>4. QED
    BY <2>2, <2>3 DEF IInv
<1>3. QED
  BY <1>1, <1>2

(* What each call has settled by each of its steps (lcd.c:273-508).        *)
THEOREM DrawInvariant == Spec => []IInv
<1>1. Init => IInv
  BY InitIsSound
<1>2. IInv /\ [Next]_vars => IInv'
  BY NextKeeps
<1>3. QED
  BY <1>1, <1>2, PTL DEF Spec

(* Every variable has its type: the wrapped arithmetic of the clipping and *)
(* of the windows stays within uint16_t (lcd.c:284-312, lcd.c:374-402).    *)
THEOREM TypeCorrect == Spec => []TypeOK
<1>1. IInv => TypeOK
  BY DEF IInv
<1>2. QED
  BY <1>1, DrawInvariant, PTL

-----------------------------------------------------------------------------
(* What the calls promise. *)

(* A window that is placed lies on the display. *)
LEMMA PlacedOnPanel ==
  ASSUME IInv, NEW t \in Tasks, NEW a \in Axes, Placed(t, a)
  PROVE  LET c == Configs[panel.direction][a]
             w == panel.window[a] IN
         c.offset <= w.from /\ w.from <= w.to /\ w.to < c.offset + c.size
<1> DEFINE f == asked[t][a].from
           l == asked[t][a].len
           s == Configs[panel.direction][a].size
           o == Configs[panel.direction][a].offset
           from == panel.window[a].from
           to == panel.window[a].to
<1>1. f \in Nat /\ l \in Nat
  BY CallNumbers
<1>2. s \in Nat /\ o \in Nat
  BY LocalTypes, PanelFacts
<1>3. from \in Nat /\ to \in Nat
  <2>1. panel.window \in [Axes -> [from : Words, to : Words]]
    BY LocalTypes DEF TypeOK
  <2>2. from \in Words /\ to \in Words
    BY <2>1
  <2>3. QED
    BY <2>2, LocalTypes, WordsAreNumbers
<1>4. /\ f < s /\ from = f + o
      /\ to - from + 1 = Least(l, s - f) /\ to - from + 1 > 0
  BY DEF Placed, Extent
<1> HIDE DEF f, l, s, o, from, to
<1>5. o <= from /\ from <= to /\ to < o + s
  BY <1>1, <1>2, <1>3, <1>4 DEF Least
<1>6. QED
  BY <1>5 DEF s, o, from, to

(* Who sends into a placed window shows what was asked for. *)
LEMMA FillingShows ==
  ASSUME IInv, NEW t \in Tasks, Filling(t)
  PROVE  Shows(t)
<1>1. \A a \in Axes : Placed(t, a)
  BY DEF Filling
<1>2. OnPanel
  BY <1>1, PlacedOnPanel DEF OnPanel
<1>3. \A a \in Axes :
        /\ panel.window[a].from =
             asked[t][a].from + Configs[panel.direction][a].offset
        /\ Extent(a) = Least(asked[t][a].len,
                       Configs[panel.direction][a].size - asked[t][a].from)
  BY <1>1 DEF Placed
<1>4. /\ panel.by \subseteq {t}
      /\ panel.pixels + left[t] = Extent("x") * Extent("y")
  BY DEF Filling
<1>5. QED
  BY <1>2, <1>3, <1>4 DEF Shows, Extent

(* Unless the display is turned between its clipping and its lock, a       *)
(* drawing call writes its own pixels, and all of them, into the visible   *)
(* part of its rectangle (lcd.c:448-508, lcd.c:374-446, lcd_font.h:149).   *)
THEOREM DrawsVisible == Spec => []DrawsVisiblePart
<1>1. IInv => DrawsVisiblePart
  <2>1. SUFFICES ASSUME IInv, NEW t \in Tasks \ stale,
                        pc[t] \in {"send", "text send"}
                 PROVE  Shows(t)
    BY DEF DrawsVisiblePart
  <2>2. Filling(t)
    BY <2>1 DEF IInv, TaskOK, Sends
  <2>3. QED
    BY <2>1, <2>2, FillingShows
<1>2. QED
  BY <1>1, DrawInvariant, PTL

(* So does, always, a stream that holds the lock (lcd.h:24-27).            *)
THEOREM StreamsVisible == Spec => []StreamsVisiblePart
<1>1. IInv => StreamsVisiblePart
  <2>1. SUFFICES ASSUME IInv, NEW t \in Tasks, pc[t] = "stream send"
                 PROVE  Shows(t)
    BY DEF StreamsVisiblePart
  <2>2. Filling(t)
    BY <2>1 DEF IInv, TaskOK, Sends
  <2>3. QED
    BY <2>1, <2>2, FillingShows
<1>2. QED
  BY <1>1, DrawInvariant, PTL

(* Whoever has the bus to draw finds lcd_config and the display in the     *)
(* same direction, however many tasks turn it (lcd.c:273-282).             *)
THEOREM DirectionsAgree == Spec => []PanelFollowsConfig
<1>1. IInv => PanelFollowsConfig
  <2>1. SUFFICES ASSUME IInv, lcd_config # Configs[panel.direction]
                 PROVE  PanelFollowsConfig
    BY DEF PanelFollowsConfig
  <2>2. PICK t \in Tasks : pc[t] \in {"copy rest", "madctl"}
    BY <2>1 DEF IInv, ConfigFollows
  <2>3. owner = t
    BY <2>1, <2>2, Owner DEF Locked
  <2>4. QED
    BY <2>2, <2>3 DEF PanelFollowsConfig
<1>2. QED
  BY <1>1, DrawInvariant, PTL

-----------------------------------------------------------------------------
(* The bytes on the wire. *)

(* The steps that change the pin, that send bytes, and that only end when  *)
(* the SPI is idle.                                                        *)
Pins    == {"dc 0", "dc 1"}
SendingSteps == {"command", "data", "dma", "dma end"}
Drains  == {"idle", "dma", "dma end"}

(* What the pin says after a step, and what a step's bytes are. *)
Said(step) == IF step = "dc 0" THEN "command" ELSE "data"
Sent(step) == IF step = "command" THEN "command" ELSE "data"

(* The bytes that the steps s send are what the pin says, if it says p     *)
(* before them.                                                            *)
Told(s, p) ==
  /\ \A i \in 1 .. Len(s) :
       s[i] \in SendingSteps /\ (\A l \in 1 .. i - 1 : s[l] \notin Pins)
         => Sent(s[i]) = p
  /\ \A i, j \in 1 .. Len(s) :
       /\ j < i /\ s[j] \in Pins /\ s[i] \in SendingSteps
       /\ \A l \in j + 1 .. i - 1 : s[l] \notin Pins
       => Sent(s[i]) = Said(s[j])

(* The SPI is waited for before the pin says other than p. *)
Waited(s, p) ==
  \A j \in 1 .. Len(s) :
    s[j] \in Pins /\ Said(s[j]) # p => \E l \in 1 .. j - 1 : s[l] \in Drains

(* It is waited for between a byte and a change of the pin. *)
Waits(s) ==
  \A i, j \in 1 .. Len(s) :
    i < j /\ s[i] \in Kinds /\ s[j] \in Pins /\ Said(s[j]) # Sent(s[i])
      => \E l \in i + 1 .. j - 1 : s[l] \in Drains

(* A call that is right whatever the pin was before. *)
Orderly(call) == Waits(call) /\ \A p \in Kinds : Told(call, p)

(* The inductive invariant: its types, ...                                 *)
Walk == WireSteps \cup {"dma end"}

Types ==
  /\ todo \in Seq(Walk) /\ dc \in Kinds /\ misread \subseteq Kinds
  /\ tx \in Seq(Kinds) /\ Len(tx) <= FifoDepth
  /\ shifting \in Kinds \cup {NoByte}
  /\ dma \in 0 .. ChunkBytes /\ read \in {0, 1} /\ buffer \in {0, 1}

(* ... the DMA only runs while the program waits for it, ...               *)
DmaIsAwaited ==
  dma > 0 => todo # <<>> /\ Head(todo) = "dma end" /\ read = buffer

(* ... and what is under way is what the pin says, and will be to the end. *)
PinIsRight ==
  /\ misread = {}
  /\ \A i \in 1 .. Len(tx) : tx[i] = dc
  /\ shifting \in {NoByte, dc}
  /\ Told(todo, dc) /\ Waits(todo)
  /\ ~ Idle => Waited(todo, dc)

-----------------------------------------------------------------------------
(* Sequences of steps. *)

(* What is left after the first step. *)
LEMMA TailIsRest ==
  ASSUME NEW S, NEW s \in Seq(S), s # <<>>
  PROVE  /\ Len(s) \in Nat /\ Len(s) >= 1 /\ Head(s) = s[1] /\ s[1] \in S
         /\ Tail(s) \in Seq(S) /\ Len(Tail(s)) = Len(s) - 1
         /\ \A i \in 1 .. Len(s) - 1 : Tail(s)[i] = s[i + 1]
OBVIOUS

(* An element in front of a sequence. *)
LEMMA Prepended ==
  ASSUME NEW S, NEW e \in S, NEW s \in Seq(S)
  PROVE  /\ <<e>> \o s \in Seq(S) /\ Len(<<e>> \o s) = Len(s) + 1
         /\ (<<e>> \o s)[1] = e
         /\ \A i \in 2 .. Len(s) + 1 : (<<e>> \o s)[i] = s[i - 1]
OBVIOUS

(* Sequences over a subset. *)
LEMMA WiderSeq ==
  ASSUME NEW S, NEW T, S \subseteq T, NEW s \in Seq(S)
  PROVE  s \in Seq(T)
OBVIOUS

(* The first step is taken. *)
LEMMA StepTaken ==
  ASSUME NEW s \in Seq(Walk), s # <<>>, NEW p
  PROVE  /\ s[1] \in Pins /\ Told(s, p) => Told(Tail(s), Said(s[1]))
         /\ s[1] \notin Pins /\ Told(s, p) => Told(Tail(s), p)
         /\ Waits(s) => Waits(Tail(s))
         /\ s[1] \notin Drains /\ Waited(s, p) => Waited(Tail(s), p)
         /\ s[1] \in Kinds /\ Waits(s) => Waited(Tail(s), Sent(s[1]))
         /\ s[1] \in SendingSteps /\ s[1] \notin Pins /\ Told(s, p) =>
              Sent(s[1]) = p
<1> DEFINE r == Tail(s)
           n == Len(s)
<1>1. /\ n \in Nat /\ n >= 1 /\ Len(r) = n - 1
      /\ \A i \in 1 .. n - 1 : r[i] = s[i + 1]
  BY TailIsRest
<1> HIDE DEF r, n
<1>2. ASSUME s[1] \in Pins, Told(s, p) PROVE Told(r, Said(s[1]))
  <2>1. ASSUME NEW i \in 1 .. Len(r), r[i] \in SendingSteps,
               \A l \in 1 .. i - 1 : r[l] \notin Pins
        PROVE  Sent(r[i]) = Said(s[1])
    <3>1. \A l \in 1 + 1 .. (i + 1) - 1 : s[l] \notin Pins
      <4>1. TAKE l \in 1 + 1 .. (i + 1) - 1
      <4>2. l - 1 \in 1 .. i - 1 /\ l - 1 \in 1 .. n - 1
        BY <1>1
      <4>3. r[l - 1] = s[l - 1 + 1] /\ l - 1 + 1 = l
        BY <1>1, <4>2
      <4>4. QED
        BY <2>1, <4>2, <4>3
    <3>2. i + 1 \in 1 .. n /\ 1 \in 1 .. n /\ 1 < i + 1 /\ r[i] = s[i + 1]
      BY <1>1, <2>1
    <3>3. QED
      BY <1>2, <2>1, <3>1, <3>2 DEF Told, n
  <2>2. ASSUME NEW i \in 1 .. Len(r), NEW j \in 1 .. Len(r), j < i,
               r[j] \in Pins, r[i] \in SendingSteps,
               \A l \in j + 1 .. i - 1 : r[l] \notin Pins
        PROVE  Sent(r[i]) = Said(r[j])
    <3>1. \A l \in (j + 1) + 1 .. (i + 1) - 1 : s[l] \notin Pins
      <4>1. TAKE l \in (j + 1) + 1 .. (i + 1) - 1
      <4>2. l - 1 \in j + 1 .. i - 1 /\ l - 1 \in 1 .. n - 1
        BY <1>1
      <4>3. r[l - 1] = s[l - 1 + 1] /\ l - 1 + 1 = l
        BY <1>1, <4>2
      <4>4. QED
        BY <2>2, <4>2, <4>3
    <3>2. /\ i + 1 \in 1 .. n /\ j + 1 \in 1 .. n /\ j + 1 < i + 1
          /\ r[i] = s[i + 1] /\ r[j] = s[j + 1]
      BY <1>1, <2>2
    <3>3. QED
      BY <1>2, <2>2, <3>1, <3>2 DEF Told, n
  <2>3. QED
    BY <2>1, <2>2 DEF Told
<1>3. ASSUME s[1] \notin Pins, Told(s, p) PROVE Told(r, p)
  <2>1. ASSUME NEW i \in 1 .. Len(r), r[i] \in SendingSteps,
               \A l \in 1 .. i - 1 : r[l] \notin Pins
        PROVE  Sent(r[i]) = p
    <3>1. \A l \in 1 .. (i + 1) - 1 : s[l] \notin Pins
      <4>1. TAKE l \in 1 .. (i + 1) - 1
      <4>2. CASE l = 1
        BY <1>3, <4>2
      <4>3. CASE l # 1
        <5>1. l - 1 \in 1 .. i - 1 /\ l - 1 \in 1 .. n - 1
          BY <1>1, <4>3
        <5>2. r[l - 1] = s[l - 1 + 1] /\ l - 1 + 1 = l
          BY <1>1, <5>1
        <5>3. QED
          BY <2>1, <5>1, <5>2
      <4>4. QED
        BY <4>2, <4>3
    <3>2. i + 1 \in 1 .. n /\ r[i] = s[i + 1]
      BY <1>1, <2>1
    <3>3. QED
      BY <1>3, <2>1, <3>1, <3>2 DEF Told, n
  <2>2. ASSUME NEW i \in 1 .. Len(r), NEW j \in 1 .. Len(r), j < i,
               r[j] \in Pins, r[i] \in SendingSteps,
               \A l \in j + 1 .. i - 1 : r[l] \notin Pins
        PROVE  Sent(r[i]) = Said(r[j])
    <3>1. \A l \in (j + 1) + 1 .. (i + 1) - 1 : s[l] \notin Pins
      <4>1. TAKE l \in (j + 1) + 1 .. (i + 1) - 1
      <4>2. l - 1 \in j + 1 .. i - 1 /\ l - 1 \in 1 .. n - 1
        BY <1>1
      <4>3. r[l - 1] = s[l - 1 + 1] /\ l - 1 + 1 = l
        BY <1>1, <4>2
      <4>4. QED
        BY <2>2, <4>2, <4>3
    <3>2. /\ i + 1 \in 1 .. n /\ j + 1 \in 1 .. n /\ j + 1 < i + 1
          /\ r[i] = s[i + 1] /\ r[j] = s[j + 1]
      BY <1>1, <2>2
    <3>3. QED
      BY <1>3, <2>2, <3>1, <3>2 DEF Told, n
  <2>3. QED
    BY <2>1, <2>2 DEF Told
<1>4. ASSUME Waits(s) PROVE Waits(r)
  <2>1. SUFFICES ASSUME NEW i \in 1 .. Len(r), NEW j \in 1 .. Len(r), i < j,
                        r[i] \in Kinds, r[j] \in Pins,
                        Said(r[j]) # Sent(r[i])
                 PROVE  \E l \in i + 1 .. j - 1 : r[l] \in Drains
    BY DEF Waits
  <2>2. /\ i + 1 \in 1 .. n /\ j + 1 \in 1 .. n /\ i + 1 < j + 1
        /\ r[i] = s[i + 1] /\ r[j] = s[j + 1]
    BY <1>1, <2>1
  <2>3. PICK l \in (i + 1) + 1 .. (j + 1) - 1 : s[l] \in Drains
    BY <1>4, <2>1, <2>2 DEF Waits, n
  <2>4. l - 1 \in i + 1 .. j - 1 /\ r[l - 1] = s[l - 1 + 1] /\ l - 1 + 1 = l
    BY <1>1
  <2>5. QED
    BY <2>3, <2>4
<1>5. ASSUME s[1] \notin Drains, Waited(s, p) PROVE Waited(r, p)
  <2>1. SUFFICES ASSUME NEW j \in 1 .. Len(r), r[j] \in Pins,
                        Said(r[j]) # p
                 PROVE  \E l \in 1 .. j - 1 : r[l] \in Drains
    BY DEF Waited
  <2>2. j + 1 \in 1 .. n /\ r[j] = s[j + 1]
    BY <1>1, <2>1
  <2>3. PICK l \in 1 .. (j + 1) - 1 : s[l] \in Drains
    BY <1>5, <2>1, <2>2 DEF Waited, n
  <2>4. l # 1
    BY <1>5, <2>3
  <2>5. l - 1 \in 1 .. j - 1 /\ r[l - 1] = s[l - 1 + 1] /\ l - 1 + 1 = l
    BY <1>1, <2>4
  <2>6. QED
    BY <2>3, <2>5
<1>6. ASSUME s[1] \in Kinds, Waits(s) PROVE Waited(r, Sent(s[1]))
  <2>1. SUFFICES ASSUME NEW j \in 1 .. Len(r), r[j] \in Pins,
                        Said(r[j]) # Sent(s[1])
                 PROVE  \E l \in 1 .. j - 1 : r[l] \in Drains
    BY DEF Waited
  <2>2. j + 1 \in 1 .. n /\ 1 \in 1 .. n /\ 1 < j + 1 /\ r[j] = s[j + 1]
    BY <1>1, <2>1
  <2>3. PICK l \in 1 + 1 .. (j + 1) - 1 : s[l] \in Drains
    BY <1>6, <2>1, <2>2 DEF Waits, n
  <2>4. l - 1 \in 1 .. j - 1 /\ r[l - 1] = s[l - 1 + 1] /\ l - 1 + 1 = l
    BY <1>1
  <2>5. QED
    BY <2>3, <2>4
<1>7. ASSUME s[1] \in SendingSteps, s[1] \notin Pins, Told(s, p)
      PROVE  Sent(s[1]) = p
  <2>1. 1 \in 1 .. n /\ \A l \in 1 .. 1 - 1 : s[l] \notin Pins
    BY <1>1
  <2>2. QED
    BY <1>7, <2>1 DEF Told, n
<1>8. QED
  BY <1>2, <1>3, <1>4, <1>5, <1>6, <1>7 DEF r

(* Starting the DMA puts "dma end" in place of "dma", which is alike for   *)
(* the pin.                                                                *)
LEMMA DmaReplaced ==
  ASSUME NEW s \in Seq(Walk), s # <<>>, Head(s) = "dma", NEW p
  PROVE  LET r == <<"dma end">> \o Tail(s) IN
         /\ r \in Seq(Walk) /\ r # <<>> /\ Head(r) = "dma end"
         /\ Told(s, p) => Told(r, p)
         /\ Waits(s) => Waits(r)
         /\ Waited(r, p)
<1> DEFINE r == <<"dma end">> \o Tail(s)
           n == Len(s)
<1>1. /\ n \in Nat /\ n >= 1 /\ s[1] = "dma"
      /\ Tail(s) \in Seq(Walk) /\ Len(Tail(s)) = n - 1
      /\ \A i \in 1 .. n - 1 : Tail(s)[i] = s[i + 1]
  BY TailIsRest
<1>2. /\ r \in Seq(Walk) /\ Len(r) = n /\ r[1] = "dma end"
      /\ \A i \in 2 .. n : r[i] = Tail(s)[i - 1]
  <2> DEFINE e == "dma end"
  <2>1. e \in Walk
    BY DEF Walk
  <2> HIDE DEF e
  <2>2. /\ <<e>> \o Tail(s) \in Seq(Walk) /\ (<<e>> \o Tail(s))[1] = e
        /\ Len(<<e>> \o Tail(s)) = Len(Tail(s)) + 1
        /\ \A i \in 2 .. Len(Tail(s)) + 1 :
             (<<e>> \o Tail(s))[i] = Tail(s)[i - 1]
    BY <1>1, <2>1, Prepended
  <2> HIDE DEF n
  <2>3. Len(Tail(s)) + 1 = n
    BY <1>1
  <2>4. QED
    BY <2>2, <2>3 DEF e
<1> HIDE DEF r, n
<1>3. \A i \in 2 .. n : r[i] = s[i]
  <2>1. TAKE i \in 2 .. n
  <2>2. i - 1 \in 1 .. n - 1 /\ i - 1 + 1 = i
    BY <1>1
  <2>3. QED
    BY <1>1, <1>2, <2>2
<1>4. /\ r[1] \notin Pins /\ s[1] \notin Pins
      /\ r[1] \notin Kinds /\ r[1] \in Drains /\ s[1] \in Drains
      /\ r[1] \in SendingSteps /\ s[1] \in SendingSteps
      /\ Sent(r[1]) = Sent(s[1])
  BY <1>1, <1>2 DEF Pins, Kinds, Drains, SendingSteps, Sent
<1>5. \A i \in 1 .. n :
        /\ r[i] \in Pins <=> s[i] \in Pins
        /\ r[i] \in Drains <=> s[i] \in Drains
        /\ r[i] \in SendingSteps <=> s[i] \in SendingSteps
        /\ r[i] \in Kinds => s[i] \in Kinds
        /\ Sent(r[i]) = Sent(s[i])
        /\ r[i] \in Pins => Said(r[i]) = Said(s[i])
  <2>1. TAKE i \in 1 .. n
  <2>2. CASE i = 1
    BY <1>4, <2>2
  <2>3. CASE i # 1
    <3>1. i \in 2 .. n
      BY <1>1, <2>3
    <3>2. r[i] = s[i]
      BY <1>3, <3>1
    <3>3. QED
      BY <3>2
  <2>4. QED
    BY <2>2, <2>3
<1>6. Len(r) = n /\ Len(s) = n
  BY <1>2 DEF n
<1>7. ASSUME Told(s, p) PROVE Told(r, p)
  <2>1. ASSUME NEW i \in 1 .. n, r[i] \in SendingSteps,
               \A l \in 1 .. i - 1 : r[l] \notin Pins
        PROVE  Sent(r[i]) = p
    <3>1. \A l \in 1 .. i - 1 : l \in 1 .. n
      BY <1>1
    <3>2. QED
      BY <1>5, <1>6, <1>7, <2>1, <3>1 DEF Told
  <2>2. ASSUME NEW i \in 1 .. n, NEW j \in 1 .. n, j < i,
               r[j] \in Pins, r[i] \in SendingSteps,
               \A l \in j + 1 .. i - 1 : r[l] \notin Pins
        PROVE  Sent(r[i]) = Said(r[j])
    <3>1. \A l \in j + 1 .. i - 1 : l \in 1 .. n
      BY <1>1
    <3>2. QED
      BY <1>5, <1>6, <1>7, <2>2, <3>1 DEF Told
  <2>3. QED
    BY <1>6, <2>1, <2>2 DEF Told
<1>8. ASSUME Waits(s) PROVE Waits(r)
  <2>1. SUFFICES ASSUME NEW i \in 1 .. n, NEW j \in 1 .. n, i < j,
                        r[i] \in Kinds, r[j] \in Pins,
                        Said(r[j]) # Sent(r[i])
                 PROVE  \E l \in i + 1 .. j - 1 : r[l] \in Drains
    BY <1>6 DEF Waits
  <2>2. \E l \in i + 1 .. j - 1 : s[l] \in Drains
    BY <1>5, <1>6, <1>8, <2>1 DEF Waits
  <2>3. \A l \in i + 1 .. j - 1 : l \in 1 .. n
    BY <1>1
  <2>4. QED
    BY <1>5, <2>2, <2>3
<1>9. Waited(r, p)
  <2>1. SUFFICES ASSUME NEW j \in 1 .. n, r[j] \in Pins
                 PROVE  \E l \in 1 .. j - 1 : r[l] \in Drains
    BY <1>6 DEF Waited
  <2>2. j # 1
    BY <1>4, <2>1
  <2>3. 1 \in 1 .. j - 1
    BY <1>1, <2>1, <2>2
  <2>4. QED
    BY <1>4, <2>3
<1>10. r # <<>> /\ Head(r) = "dma end"
  <2>1. r # <<>>
    <3>1. n \in Nat /\ n >= 1
      BY <1>1
    <3>2. r \in Seq(Walk)
      BY <1>2
    <3>3. QED
      BY <1>6, <3>1, <3>2
  <2>2. Head(r) = r[1]
    BY <1>2, <2>1, TailIsRest
  <2>3. QED
    BY <1>2, <2>1, <2>2
<1>11. QED
  BY <1>2, <1>7, <1>8, <1>9, <1>10 DEF r

-----------------------------------------------------------------------------
(* Types, and the DMA, whatever the calls. *)

(* A step is taken: what is left are steps. *)
LEMMA StepTypes ==
  ASSUME Types, NEW step, Step(step)
  PROVE  /\ todo \in Seq(Walk) /\ todo # <<>> /\ todo[1] = step
         /\ todo' = Tail(todo) /\ todo' \in Seq(Walk)
BY TailIsRest DEF Step, Types

(* The types and the DMA's share of the invariant are kept. *)
LEMMA DmaKept ==
  ASSUME Types, DmaIsAwaited, [WireNext]_wireVars
  PROVE  Types' /\ DmaIsAwaited'
<1>1. FifoDepth \in Nat \ {0} /\ ChunkBytes \in Nat \ {0}
  BY LcdWireAssumption
<1>2. /\ todo \in Seq(Walk) /\ dc \in Kinds /\ misread \subseteq Kinds
      /\ tx \in Seq(Kinds) /\ Len(tx) <= FifoDepth
      /\ shifting \in Kinds \cup {NoByte}
      /\ dma \in 0 .. ChunkBytes /\ read \in {0, 1} /\ buffer \in {0, 1}
  BY DEF Types
<1>3. CASE Begin
  <2>1. /\ todo = <<>> /\ todo' \in Calls
        /\ UNCHANGED <<dc, tx, shifting, misread, dma, read, buffer>>
    BY <1>3 DEF Begin, spi
  <2>2. todo' \in Seq(Walk)
    <3>1. todo' \in Seq(WireSteps) /\ WireSteps \subseteq Walk
      BY <2>1, LcdWireAssumption DEF Walk
    <3>2. QED
      BY <3>1, WiderSeq
  <2>3. ~ (dma > 0)
    BY <2>1 DEF DmaIsAwaited
  <2>4. QED
    BY <1>2, <2>1, <2>2, <2>3 DEF Types, DmaIsAwaited
<1>4. ASSUME NEW kind \in Kinds, NEW step \in Pins, SetDc(kind, step)
      PROVE  Types' /\ DmaIsAwaited'
  <2>1. /\ todo # <<>> /\ Head(todo) = step /\ dc' = kind
        /\ UNCHANGED <<tx, shifting, misread, dma, read, buffer>>
        /\ todo' \in Seq(Walk)
    BY <1>4, StepTypes DEF SetDc, Step, spi
  <2>2. ~ (dma > 0)
    BY <1>4, <2>1 DEF DmaIsAwaited, Pins
  <2>3. QED
    BY <1>2, <2>1, <2>2 DEF Types, DmaIsAwaited
<1>5. ASSUME NEW kind \in Kinds, WriteByte(kind)
      PROVE  Types' /\ DmaIsAwaited'
  <2>1. /\ todo # <<>> /\ Head(todo) = kind /\ Len(tx) < FifoDepth
        /\ tx' = Append(tx, kind)
        /\ UNCHANGED <<dc, shifting, misread, dma, read, buffer>>
        /\ todo' \in Seq(Walk)
    BY <1>5, StepTypes DEF WriteByte, Step
  <2>2. ~ (dma > 0)
    BY <2>1 DEF DmaIsAwaited, Kinds
  <2>3. tx' \in Seq(Kinds) /\ Len(tx') <= FifoDepth
    BY <1>1, <1>2, <2>1
  <2>4. QED
    BY <1>2, <2>1, <2>2, <2>3 DEF Types, DmaIsAwaited
<1>6. CASE WaitIdle
  <2>1. /\ todo # <<>> /\ Head(todo) = "idle"
        /\ UNCHANGED <<dc, tx, shifting, misread, dma, read, buffer>>
        /\ todo' \in Seq(Walk)
    BY <1>6, StepTypes DEF WaitIdle, Step, spi
  <2>2. ~ (dma > 0)
    BY <2>1 DEF DmaIsAwaited
  <2>3. QED
    BY <1>2, <2>1, <2>2 DEF Types, DmaIsAwaited
<1>7. CASE FillChunk
  <2>1. /\ todo # <<>> /\ Head(todo) = "fill" /\ buffer' = 1 - buffer
        /\ UNCHANGED <<dc, tx, shifting, misread, dma, read>>
        /\ todo' \in Seq(Walk)
    BY <1>7, StepTypes DEF FillChunk, Step, spi
  <2>2. ~ (dma > 0)
    BY <2>1 DEF DmaIsAwaited
  <2>3. buffer' \in {0, 1}
    BY <1>2, <2>1
  <2>4. QED
    BY <1>2, <2>1, <2>2, <2>3 DEF Types, DmaIsAwaited
<1>8. CASE StartDma
  <2>1. /\ todo # <<>> /\ Head(todo) = "dma"
        /\ dma' = ChunkBytes /\ read' = buffer
        /\ todo' = <<"dma end">> \o Tail(todo)
        /\ UNCHANGED <<dc, tx, shifting, misread, buffer>>
    BY <1>8 DEF StartDma, spi
  <2>2. todo' \in Seq(Walk) /\ todo' # <<>> /\ Head(todo') = "dma end"
    BY <1>2, <2>1, DmaReplaced
  <2>3. dma' \in 0 .. ChunkBytes
    <3>1. dma' = ChunkBytes
      BY <2>1
    <3>2. QED
      BY <1>1, <3>1
  <2>4. QED
    BY <1>2, <2>1, <2>2, <2>3 DEF Types, DmaIsAwaited
<1>9. CASE EndDma
  <2>1. /\ dma = 0 /\ todo' \in Seq(Walk)
        /\ UNCHANGED <<dc, tx, shifting, misread, dma, read, buffer>>
    BY <1>9, StepTypes DEF EndDma, spi
  <2>2. QED
    BY <1>2, <2>1 DEF Types, DmaIsAwaited
<1>10. CASE DmaMove
  <2>1. /\ dma > 0 /\ Len(tx) < FifoDepth /\ dma' = dma - 1
        /\ tx' = Append(tx, "data")
        /\ UNCHANGED <<todo, dc, shifting, misread, read, buffer>>
    BY <1>10 DEF DmaMove
  <2> DEFINE byte == "data"
  <2>2. tx' = Append(tx, byte) /\ byte \in Kinds
    BY <2>1 DEF Kinds
  <2> HIDE DEF byte
  <2>3. tx' \in Seq(Kinds) /\ Len(tx') <= FifoDepth
    BY <1>1, <1>2, <2>1, <2>2
  <2>4. dma' \in 0 .. ChunkBytes
    BY <1>1, <1>2, <2>1
  <2>5. QED
    BY <1>2, <2>1, <2>3, <2>4 DEF Types, DmaIsAwaited
<1>11. CASE Load
  <2>1. /\ tx # <<>> /\ shifting' = Head(tx) /\ tx' = Tail(tx)
        /\ UNCHANGED <<todo, dc, misread, dma, read, buffer>>
    BY <1>11 DEF Load
  <2>2. /\ tx[1] \in Kinds /\ Head(tx) = tx[1] /\ Tail(tx) \in Seq(Kinds)
        /\ Len(Tail(tx)) = Len(tx) - 1 /\ Len(tx) \in Nat
    BY <1>2, <2>1, TailIsRest
  <2>3. Len(tx') <= FifoDepth
    BY <1>1, <1>2, <2>1, <2>2
  <2>4. QED
    BY <1>2, <2>1, <2>2, <2>3 DEF Types, DmaIsAwaited
<1>12. CASE Shift
  <2>1. /\ shifting # NoByte /\ misread' = misread \cup ({shifting} \ {dc})
        /\ shifting' = NoByte
        /\ UNCHANGED <<todo, dc, tx, dma, read, buffer>>
    BY <1>12 DEF Shift
  <2>2. misread' \subseteq Kinds
    BY <1>2, <2>1
  <2>3. QED
    BY <1>2, <2>1, <2>2 DEF Types, DmaIsAwaited
<1>13. CASE UNCHANGED wireVars
  BY <1>13 DEF wireVars, spi, Types, DmaIsAwaited
<1>14. QED
  <2>1. SetDc("command", "dc 0") \/ SetDc("data", "dc 1") =>
          Types' /\ DmaIsAwaited'
    BY <1>4 DEF Kinds, Pins
  <2>2. QED
    BY <1>3, <1>5, <1>6, <1>7, <1>8, <1>9, <1>10, <1>11, <1>12, <1>13, <2>1
       DEF WireNext, Program, Hardware

-----------------------------------------------------------------------------
(* The pin, if the calls are orderly. *)

(* The program changes the pin. *)
LEMMA PinChanged ==
  ASSUME Types, PinIsRight, NEW kind \in Kinds, NEW step \in Pins,
         Said(step) = kind, SetDc(kind, step)
  PROVE  PinIsRight'
<1>1. /\ todo \in Seq(Walk) /\ todo # <<>> /\ todo[1] = step
      /\ todo' = Tail(todo) /\ dc' = kind
      /\ UNCHANGED <<tx, shifting, misread>>
  BY StepTypes DEF SetDc, spi
<1>2. Told(todo', dc') /\ Waits(todo')
  BY <1>1, StepTaken DEF PinIsRight
<1>3. CASE kind = dc
  <2>1. step \notin Drains
    BY DEF Pins, Drains
  <2>2. ~ Idle => Waited(todo', dc')
    BY <1>1, <1>3, <2>1, StepTaken DEF PinIsRight
  <2>3. Idle' = Idle
    BY <1>1 DEF Idle
  <2>4. QED
    BY <1>1, <1>2, <1>3, <2>2, <2>3 DEF PinIsRight
<1>4. CASE kind # dc
  <2>1. Len(todo) \in Nat /\ Len(todo) >= 1
    BY <1>1, TailIsRest
  <2>2. 1 \in 1 .. Len(todo) /\ \A l \in 1 .. 1 - 1 : FALSE
    BY <2>1
  <2>3. ~ Waited(todo, dc)
    BY <1>1, <1>4, <2>2 DEF Waited
  <2>4. Idle
    BY <2>3 DEF PinIsRight
  <2>5. tx' = <<>> /\ shifting' = NoByte /\ Idle'
    BY <1>1, <2>4 DEF Idle
  <2>6. \A i \in 1 .. Len(tx') : tx'[i] = dc'
    BY <2>5
  <2>7. misread' = {}
    BY <1>1 DEF PinIsRight
  <2>8. QED
    BY <1>2, <2>5, <2>6, <2>7 DEF PinIsRight
<1>5. QED
  BY <1>3, <1>4

(* A byte goes into the FIFO, and the pin says what it is. *)
LEMMA Queued ==
  ASSUME NEW S, NEW s \in Seq(S), NEW e \in S,
         \A i \in 1 .. Len(s) : s[i] = e
  PROVE  \A i \in 1 .. Len(Append(s, e)) : Append(s, e)[i] = e
OBVIOUS

(* lcd_write_byte. *)
LEMMA ByteWritten ==
  ASSUME Types, PinIsRight, NEW kind \in Kinds, WriteByte(kind)
  PROVE  PinIsRight'
<1>1. /\ todo \in Seq(Walk) /\ todo # <<>> /\ todo[1] = kind
      /\ todo' = Tail(todo) /\ tx' = Append(tx, kind)
      /\ UNCHANGED <<dc, shifting, misread>>
  BY StepTypes DEF WriteByte
<1>2. /\ kind \in SendingSteps /\ kind \notin Pins /\ Sent(kind) = kind
  BY DEF Kinds, SendingSteps, Pins, Sent
<1>3. kind = dc /\ Told(todo', dc) /\ Waits(todo') /\ Waited(todo', dc)
  <2>1. Told(todo, dc) /\ Waits(todo)
    BY DEF PinIsRight
  <2>2. kind = dc
    BY <1>1, <1>2, <2>1, StepTaken
  <2>3. Told(todo', dc) /\ Waits(todo') /\ Waited(todo', dc)
    BY <1>1, <1>2, <2>1, <2>2, StepTaken
  <2>4. QED
    BY <2>2, <2>3
<1>4. \A i \in 1 .. Len(tx') : tx'[i] = dc'
  <2>1. tx \in Seq(Kinds) /\ \A i \in 1 .. Len(tx) : tx[i] = kind
    BY <1>3 DEF Types, PinIsRight
  <2>2. QED
    BY <1>1, <1>3, <2>1, Queued
<1>5. QED
  BY <1>1, <1>3, <1>4 DEF PinIsRight

(* A step that neither sends, nor changes the pin. *)
LEMMA StepLeftPin ==
  ASSUME Types, PinIsRight, todo # <<>>, todo' = Tail(todo),
         todo[1] \notin Pins, todo[1] \notin Drains \/ Idle,
         UNCHANGED <<dc, tx, shifting, misread>>
  PROVE  PinIsRight'
<1>1. todo \in Seq(Walk)
  BY DEF Types
<1>2. Told(todo', dc) /\ Waits(todo')
  BY <1>1, StepTaken DEF PinIsRight
<1>3. ~ Idle => Waited(todo', dc)
  BY <1>1, StepTaken DEF PinIsRight
<1>4. Idle' = Idle
  BY DEF Idle
<1>5. QED
  BY <1>2, <1>3, <1>4 DEF PinIsRight

(* The DMA moves a byte, while the program waits for it to end. *)
LEMMA DmaMoved ==
  ASSUME Types, DmaIsAwaited, PinIsRight, DmaMove
  PROVE  PinIsRight'
<1>1. /\ dma > 0 /\ tx' = Append(tx, "data")
      /\ UNCHANGED <<todo, dc, shifting, misread>>
  BY DEF DmaMove
<1>2. todo \in Seq(Walk) /\ todo # <<>> /\ todo[1] = "dma end"
  BY <1>1, TailIsRest DEF Types, DmaIsAwaited
<1>3. /\ "dma end" \in SendingSteps /\ "dma end" \in Drains
      /\ "dma end" \notin Pins /\ Sent("dma end") = "data"
  BY DEF SendingSteps, Drains, Pins, Sent
<1>4. dc = "data"
  BY <1>2, <1>3, StepTaken DEF PinIsRight
<1>5. Waited(todo, dc)
  <2>1. SUFFICES ASSUME NEW j \in 1 .. Len(todo), todo[j] \in Pins
                 PROVE  \E l \in 1 .. j - 1 : todo[l] \in Drains
    BY DEF Waited
  <2>2. j # 1
    BY <1>2, <1>3, <2>1
  <2>3. Len(todo) \in Nat
    <3>1. todo \in Seq(Walk)
      BY <1>2
    <3>2. QED
      BY <3>1
  <2>4. 1 \in 1 .. j - 1
    BY <2>1, <2>2, <2>3
  <2>5. QED
    BY <1>2, <1>3, <2>4
<1>6. \A i \in 1 .. Len(tx') : tx'[i] = dc'
  <2>1. tx \in Seq(Kinds) /\ dc \in Kinds /\ \A i \in 1 .. Len(tx) : tx[i] = dc
    BY DEF Types, PinIsRight
  <2>2. QED
    BY <1>1, <1>4, <2>1, Queued
<1>7. QED
  BY <1>1, <1>5, <1>6 DEF PinIsRight

(* The SPI takes a byte from the FIFO. *)
LEMMA ByteLoaded ==
  ASSUME Types, PinIsRight, Load
  PROVE  PinIsRight'
<1>1. /\ tx # <<>> /\ shifting' = Head(tx) /\ tx' = Tail(tx)
      /\ UNCHANGED <<todo, dc, misread>>
  BY DEF Load
<1>2. /\ tx \in Seq(Kinds) /\ \A i \in 1 .. Len(tx) : tx[i] = dc
      /\ ~ Idle
  BY <1>1 DEF Types, PinIsRight, Idle
<1>3. /\ Len(tx) \in Nat /\ Len(tx) >= 1 /\ Head(tx) = tx[1]
      /\ Len(Tail(tx)) = Len(tx) - 1
      /\ \A i \in 1 .. Len(tx) - 1 : Tail(tx)[i] = tx[i + 1]
  BY <1>1, <1>2, TailIsRest
<1>4. shifting' = dc
  BY <1>1, <1>2, <1>3
<1>5. \A i \in 1 .. Len(tx') : tx'[i] = dc'
  BY <1>1, <1>2, <1>3
<1>6. QED
  BY <1>1, <1>2, <1>4, <1>5 DEF PinIsRight

(* The invariant of the pin is kept. *)
LEMMA PinKept ==
  ASSUME \A call \in Calls : Orderly(call),
         Types, DmaIsAwaited, PinIsRight, [WireNext]_wireVars
  PROVE  PinIsRight'
<1>1. CASE Begin
  <2>1. /\ Idle /\ todo' \in Calls
        /\ UNCHANGED <<dc, tx, shifting, misread>>
    BY <1>1 DEF Begin, spi
  <2>2. Told(todo', dc) /\ Waits(todo')
    BY <2>1 DEF Orderly, Types
  <2>3. Idle'
    BY <2>1 DEF Idle
  <2>4. QED
    BY <2>1, <2>2, <2>3 DEF PinIsRight
<1>2. CASE SetDc("command", "dc 0") \/ SetDc("data", "dc 1")
  BY <1>2, PinChanged DEF Kinds, Pins, Said
<1>3. CASE \E kind \in Kinds : WriteByte(kind)
  BY <1>3, ByteWritten
<1>4. CASE WaitIdle \/ FillChunk \/ EndDma
  <2>1. /\ todo # <<>> /\ todo' = Tail(todo)
        /\ todo[1] \in {"idle", "fill", "dma end"}
        /\ todo[1] \in Drains => Idle
        /\ UNCHANGED <<dc, tx, shifting, misread>>
    <3>1. CASE WaitIdle
      BY <3>1, StepTypes DEF WaitIdle, spi
    <3>2. CASE FillChunk
      <4>1. /\ todo # <<>> /\ todo' = Tail(todo) /\ todo[1] = "fill"
            /\ UNCHANGED <<dc, tx, shifting, misread>>
        BY <3>2, StepTypes DEF FillChunk, spi
      <4>2. QED
        BY <4>1 DEF Drains
    <3>3. CASE EndDma
      BY <3>3, StepTypes DEF EndDma, spi
    <3>4. QED
      BY <1>4, <3>1, <3>2, <3>3
  <2>2. todo[1] \notin Pins
    BY <2>1 DEF Pins
  <2>3. QED
    BY <2>1, <2>2, StepLeftPin
<1>5. CASE StartDma
  <2>1. /\ todo # <<>> /\ Head(todo) = "dma"
        /\ todo' = <<"dma end">> \o Tail(todo)
        /\ UNCHANGED <<dc, tx, shifting, misread>>
    BY <1>5 DEF StartDma, spi
  <2>2. Told(todo', dc) /\ Waits(todo') /\ Waited(todo', dc)
    BY <2>1, DmaReplaced DEF Types, PinIsRight
  <2>3. QED
    BY <2>1, <2>2 DEF PinIsRight
<1>6. CASE DmaMove
  BY <1>6, DmaMoved
<1>7. CASE Load
  BY <1>7, ByteLoaded
<1>8. CASE Shift
  <2>1. /\ shifting # NoByte /\ misread' = misread \cup ({shifting} \ {dc})
        /\ shifting' = NoByte /\ UNCHANGED <<todo, dc, tx>>
    BY <1>8 DEF Shift
  <2>2. misread' = {} /\ Waited(todo, dc)
    BY <2>1 DEF PinIsRight, Idle
  <2>3. QED
    BY <2>1, <2>2 DEF PinIsRight
<1>9. CASE UNCHANGED wireVars
  BY <1>9 DEF wireVars, spi, PinIsRight, Idle
<1>10. QED
  BY <1>1, <1>2, <1>3, <1>4, <1>5, <1>6, <1>7, <1>8, <1>9
     DEF WireNext, Program, Hardware

-----------------------------------------------------------------------------
(* The calls with at most one command. *)

SingleCommand ==
  {Command, WriteData} \cup {CommandData(n) : n \in Nat}
    \cup {Pixels(n) : n \in Nat}

(* A call that sets the pin once, at its beginning, is orderly if it sends *)
(* what the pin then says.                                                 *)
LEMMA OnePinIsOrderly ==
  ASSUME NEW s, Len(s) \in Nat,
         \A i \in 1 .. Len(s) : s[i] \in Pins <=> i = 1,
         \A i \in 1 .. Len(s) :
           s[i] \in SendingSteps => Sent(s[i]) = Said(s[1])
  PROVE  Orderly(s)
<1> DEFINE n == Len(s)
<1>1. n \in Nat
  OBVIOUS
<1>2. Waits(s)
  <2>1. ASSUME NEW i \in 1 .. n, NEW j \in 1 .. n, i < j, s[j] \in Pins
        PROVE  FALSE
    BY <2>1
  <2>2. QED
    BY <2>1 DEF Waits
<1>3. ASSUME NEW p PROVE Told(s, p)
  <2>1. ASSUME NEW i \in 1 .. n, s[i] \in SendingSteps,
               \A l \in 1 .. i - 1 : s[l] \notin Pins
        PROVE  FALSE
    <3>1. i = 1 \/ 1 \in 1 .. i - 1
      OBVIOUS
    <3>2. i # 1
      BY <2>1 DEF SendingSteps, Pins
    <3>3. 1 \in 1 .. n
      OBVIOUS
    <3>4. QED
      BY <2>1, <3>1, <3>2, <3>3
  <2>2. ASSUME NEW i \in 1 .. n, NEW j \in 1 .. n, s[j] \in Pins,
               s[i] \in SendingSteps
        PROVE  Sent(s[i]) = Said(s[j])
    BY <2>2
  <2>3. QED
    BY <2>1, <2>2 DEF Told
<1>4. QED
  BY <1>2, <1>3 DEF Orderly

(* A command that is waited for before the pin is changed, and its data.   *)
LEMMA TwoPinsAreOrderly ==
  ASSUME NEW s, Len(s) \in Nat, Len(s) >= 4,
         \A i \in 1 .. Len(s) : s[i] \in Pins <=> i = 1 \/ i = 4,
         Said(s[1]) = Sent(s[2]), s[3] \in Drains, s[3] \notin SendingSteps,
         \A i \in 1 .. Len(s) :
           i >= 5 => s[i] \notin Drains /\ Sent(s[i]) = Said(s[4])
  PROVE  Orderly(s)
<1> DEFINE n == Len(s)
<1>1. /\ n \in Nat /\ n >= 4
      /\ 1 \in 1 .. n /\ 2 \in 1 .. n /\ 3 \in 1 .. n /\ 4 \in 1 .. n
  OBVIOUS
<1>2. s[1] \in Pins /\ s[4] \in Pins
  BY <1>1
<1>3. s[1] \notin Kinds /\ s[4] \notin Kinds
      /\ s[1] \notin SendingSteps /\ s[4] \notin SendingSteps
  BY <1>2 DEF Pins, Kinds, SendingSteps
<1>4. s[3] \notin Kinds
  BY DEF Drains, Kinds
<1> HIDE DEF n
<1>5. Waits(s)
  <2>1. SUFFICES ASSUME NEW i \in 1 .. n, NEW j \in 1 .. n, i < j,
                        s[i] \in Kinds, s[j] \in Pins
                 PROVE  \E l \in i + 1 .. j - 1 : s[l] \in Drains
    BY DEF Waits, n
  <2>2. i # 1 /\ i # 3 /\ i # 4
    BY <1>3, <1>4, <2>1
  <2>3. j = 1 \/ j = 4
    BY <2>1 DEF n
  <2>4. i = 2 /\ j = 4
    BY <1>1, <2>1, <2>2, <2>3
  <2>5. 3 \in i + 1 .. j - 1
    BY <2>4
  <2>6. QED
    BY <2>5
<1>6. ASSUME NEW p PROVE Told(s, p)
  <2>1. ASSUME NEW i \in 1 .. n, s[i] \in SendingSteps
        PROVE  i = 2 \/ i >= 5
    <3>1. i # 1 /\ i # 3 /\ i # 4
      BY <1>3, <2>1
    <3>2. QED
      BY <1>1, <3>1
  <2>2. ASSUME NEW i \in 1 .. n, s[i] \in SendingSteps,
               \A l \in 1 .. i - 1 : s[l] \notin Pins
        PROVE  FALSE
    <3>1. 1 \in 1 .. i - 1
      BY <2>1, <2>2
    <3>2. QED
      BY <1>2, <2>2, <3>1
  <2>3. ASSUME NEW i \in 1 .. n, NEW j \in 1 .. n, j < i, s[j] \in Pins,
               s[i] \in SendingSteps,
               \A l \in j + 1 .. i - 1 : s[l] \notin Pins
        PROVE  Sent(s[i]) = Said(s[j])
    <3>1. j = 1 \/ j = 4
      BY <2>3 DEF n
    <3>2. CASE i = 2
      <4>1. j = 1
        BY <2>3, <3>1, <3>2
      <4>2. QED
        BY <3>2, <4>1
    <3>3. CASE i >= 5
      <4>1. 4 \in 2 .. i - 1
        BY <1>1, <3>3
      <4>2. j # 1
        BY <1>2, <2>3, <4>1
      <4>3. QED
        BY <3>1, <3>3, <4>2 DEF n
    <3>4. QED
      BY <2>1, <2>3, <3>2, <3>3
  <2>4. QED
    BY <2>2, <2>3 DEF Told, n
<1>7. QED
  BY <1>5, <1>6 DEF Orderly

(* A sequence after four elements. *)
LEMMA Joined ==
  ASSUME NEW S, NEW f \in Seq(S), Len(f) = 4, NEW w \in Seq(S)
  PROVE  /\ Len(f \o w) = Len(w) + 4
         /\ (f \o w)[1] = f[1] /\ (f \o w)[2] = f[2]
         /\ (f \o w)[3] = f[3] /\ (f \o w)[4] = f[4]
         /\ \A i \in 5 .. Len(w) + 4 : (f \o w)[i] = w[i - 4]
<1> DEFINE s == f \o w
           n == Len(w)
<1>1. /\ n \in Nat /\ Len(s) = 4 + n
      /\ \A i \in 1 .. 4 + n : s[i] = IF i <= 4 THEN f[i] ELSE w[i - 4]
  <2>1. /\ Len(s) = Len(f) + Len(w)
        /\ \A i \in 1 .. Len(f) + Len(w) :
             s[i] = IF i <= Len(f) THEN f[i] ELSE w[i - Len(f)]
    BY ConcatProperties
  <2>2. n \in Nat
    BY LenProperties
  <2> HIDE DEF s
  <2>3. QED
    BY <2>1, <2>2
<1> HIDE DEF s, n
<1>2. /\ Len(s) = n + 4
      /\ s[1] = f[1] /\ s[2] = f[2] /\ s[3] = f[3] /\ s[4] = f[4]
      /\ \A i \in 5 .. n + 4 : s[i] = w[i - 4]
  BY <1>1
<1>3. QED
  BY <1>2 DEF s, n

(* Four elements at once. *)
LEMMA FourAtOnce ==
  ASSUME NEW S, NEW a \in S, NEW b \in S, NEW c \in S, NEW d \in S,
         NEW f, f = <<a, b, c, d>>
  PROVE  /\ f \in Seq(S) /\ Len(f) = 4
         /\ f[1] = a /\ f[2] = b /\ f[3] = c /\ f[4] = d
OBVIOUS

(* Two elements and two more. *)
LEMMA TwoAndTwo ==
  ASSUME NEW S, NEW a \in S, NEW b \in S, NEW c \in S, NEW d \in S,
         NEW f, f = <<a, b>> \o <<c, d>>
  PROVE  /\ f \in Seq(S) /\ Len(f) = 4
         /\ f[1] = a /\ f[2] = b /\ f[3] = c /\ f[4] = d
<1>1. <<a, b>> \in Seq(S) /\ <<c, d>> \in Seq(S)
  OBVIOUS
<1>2. QED
  BY <1>1

(* Two steps. *)
LEMMA TwoSteps ==
  ASSUME NEW a, NEW b, NEW s, s = <<a, b>>
  PROVE  /\ Len(s) = 2 /\ s[1] = a /\ s[2] = b
         /\ \A i \in 1 .. Len(s) : i = 1 \/ i = 2
OBVIOUS

(* What follows four steps. *)
LEMMA FourAndData ==
  ASSUME NEW f \in Seq(WireSteps), Len(f) = 4, NEW n \in Nat,
         NEW s, s = f \o Data(n)
  PROVE  /\ Len(s) = n + 4 /\ Len(s) \in Nat /\ Len(s) >= 4
         /\ s[1] = f[1] /\ s[2] = f[2] /\ s[3] = f[3] /\ s[4] = f[4]
         /\ \A i \in 1 .. Len(s) : i >= 5 => s[i] = "data"
<1> DEFINE data == "data"
           w == Data(n)
<1>0. data \in WireSteps
  BY DEF WireSteps, Kinds
<1>1. /\ w \in Seq(WireSteps) /\ Len(w) = n
      /\ \A i \in 1 .. n : w[i] = data
  <2>1. w = [i \in 1 .. n |-> data]
    BY DEF Data
  <2> HIDE DEF data, w
  <2>2. QED
    BY <1>0, <2>1
<1> HIDE DEF data, w
<1>2. s = f \o w
  BY DEF w
<1>3. /\ Len(s) = n + 4
      /\ s[1] = f[1] /\ s[2] = f[2] /\ s[3] = f[3] /\ s[4] = f[4]
      /\ \A i \in 5 .. n + 4 : s[i] = w[i - 4]
  BY <1>1, <1>2, Joined
<1>4. \A i \in 5 .. n + 4 : i - 4 \in 1 .. n
  OBVIOUS
<1>5. \A i \in 1 .. Len(s) : i >= 5 => s[i] = data
  BY <1>1, <1>3, <1>4
<1>6. Len(s) \in Nat /\ Len(s) >= 4
  BY <1>3
<1>7. QED
  BY <1>3, <1>5, <1>6 DEF data

(* Each of them is orderly, whatever the length of its data.               *)
LEMMA SingleCommandsAreOrderly ==
  ASSUME NEW call \in SingleCommand
  PROVE  Orderly(call)
<1>1. CASE call = Command \/ call = WriteData
  <2>1. /\ Len(call) = 2 /\ \A i \in 1 .. Len(call) : i = 1 \/ i = 2
        /\ \/ call[1] = "dc 0" /\ call[2] = "command"
           \/ call[1] = "dc 1" /\ call[2] = "data"
    <3>1. CASE call = Command
      <4>1. call = <<"dc 0", "command">>
        BY <3>1 DEF Command
      <4>2. QED
        BY <4>1, TwoSteps
    <3>2. CASE call = WriteData
      <4>1. call = <<"dc 1", "data">>
        BY <3>2 DEF WriteData
      <4>2. QED
        BY <4>1, TwoSteps
    <3>3. QED
      BY <1>1, <3>1, <3>2
  <2>2. /\ call[1] \in Pins /\ call[2] \notin Pins
        /\ call[1] \notin SendingSteps /\ Sent(call[2]) = Said(call[1])
    BY <2>1 DEF Pins, SendingSteps, Sent, Said
  <2>3. /\ Len(call) \in Nat
        /\ \A i \in 1 .. Len(call) : i = 1 \/ i = 2
    <3>1. Len(call) = 2 /\ \A i \in 1 .. Len(call) : i = 1 \/ i = 2
      BY <2>1
    <3>2. QED
      BY <3>1
  <2>4. /\ \A i \in 1 .. Len(call) : call[i] \in Pins <=> i = 1
        /\ \A i \in 1 .. Len(call) :
             call[i] \in SendingSteps => Sent(call[i]) = Said(call[1])
    BY <2>2, <2>3
  <2>5. QED
    BY <2>3, <2>4, OnePinIsOrderly
<1>2. CASE \E n \in Nat : call = CommandData(n)
  <2>1. PICK n \in Nat : call = CommandData(n)
    BY <1>2
  <2> DEFINE f == <<"dc 0", "command">> \o <<"idle", "dc 1">>
  <2>2. /\ f \in Seq(WireSteps) /\ Len(f) = 4
        /\ f[1] = "dc 0" /\ f[2] = "command" /\ f[3] = "idle"
        /\ f[4] = "dc 1"
    <3> DEFINE a == "dc 0"
               b == "command"
               c == "idle"
               d == "dc 1"
    <3>1. /\ a \in WireSteps /\ b \in WireSteps
          /\ c \in WireSteps /\ d \in WireSteps
      BY DEF WireSteps, Kinds
    <3>2. f = <<a, b>> \o <<c, d>>
      OBVIOUS
    <3> HIDE DEF a, b, c, d, f
    <3>3. /\ f \in Seq(WireSteps) /\ Len(f) = 4
          /\ f[1] = a /\ f[2] = b /\ f[3] = c /\ f[4] = d
      BY <3>1, <3>2, TwoAndTwo
    <3>4. QED
      BY <3>3 DEF a, b, c, d
  <2>3. call = f \o Data(n)
    BY <2>1 DEF CommandData, Command
  <2> HIDE DEF f
  <2>4. /\ Len(call) \in Nat /\ Len(call) >= 4
        /\ call[1] = f[1] /\ call[2] = f[2] /\ call[3] = f[3]
        /\ call[4] = f[4]
        /\ \A i \in 1 .. Len(call) : i >= 5 => call[i] = "data"
    <3>1. f \in Seq(WireSteps) /\ Len(f) = 4
      BY <2>2
    <3>2. QED
      BY <2>3, <3>1, FourAndData
  <2>5. /\ call[1] \in Pins /\ call[2] \notin Pins /\ call[3] \notin Pins
        /\ call[4] \in Pins
        /\ \A i \in 1 .. Len(call) : i >= 5 => call[i] \notin Pins
    BY <2>2, <2>4 DEF Pins
  <2>6. \A i \in 1 .. Len(call) : call[i] \in Pins <=> i = 1 \/ i = 4
    BY <2>4, <2>5
  <2>7. /\ Said(call[1]) = Sent(call[2])
        /\ call[3] \in Drains /\ call[3] \notin SendingSteps
        /\ \A i \in 1 .. Len(call) :
             i >= 5 => call[i] \notin Drains /\ Sent(call[i]) = Said(call[4])
    BY <2>2, <2>4 DEF Said, Sent, Drains, SendingSteps
  <2>8. QED
    BY <2>4, <2>6, <2>7, TwoPinsAreOrderly
<1>3. CASE \E n \in Nat : call = Pixels(n)
  <2>1. PICK n \in Nat : call = Pixels(n)
    BY <1>3
  <2> DEFINE f == <<"dc 1", "fill", "dma", "fill">>
  <2>2. /\ f \in Seq(WireSteps) /\ Len(f) = 4
        /\ f[1] = "dc 1" /\ f[2] = "fill" /\ f[3] = "dma" /\ f[4] = "fill"
    <3> DEFINE a == "dc 1"
               b == "fill"
               c == "dma"
    <3>1. a \in WireSteps /\ b \in WireSteps /\ c \in WireSteps
      BY DEF WireSteps
    <3>2. f = <<a, b, c, b>>
      OBVIOUS
    <3> HIDE DEF a, b, c, f
    <3>3. /\ f \in Seq(WireSteps) /\ Len(f) = 4
          /\ f[1] = a /\ f[2] = b /\ f[3] = c /\ f[4] = b
      BY <3>1, <3>2, FourAtOnce
    <3>4. QED
      BY <3>3 DEF a, b, c
  <2>3. call = f \o Data(n)
    BY <2>1 DEF Pixels
  <2> HIDE DEF f
  <2>4. /\ Len(call) \in Nat /\ Len(call) >= 4
        /\ call[1] = f[1] /\ call[2] = f[2] /\ call[3] = f[3]
        /\ call[4] = f[4]
        /\ \A i \in 1 .. Len(call) : i >= 5 => call[i] = "data"
    <3>1. f \in Seq(WireSteps) /\ Len(f) = 4
      BY <2>2
    <3>2. QED
      BY <2>3, <3>1, FourAndData
  <2>5. /\ call[1] \in Pins /\ call[2] \notin Pins /\ call[3] \notin Pins
        /\ call[4] \notin Pins
        /\ \A i \in 1 .. Len(call) : i >= 5 => call[i] \notin Pins
    BY <2>2, <2>4 DEF Pins
  <2>6. /\ call[1] \notin SendingSteps /\ call[2] \notin SendingSteps
        /\ call[4] \notin SendingSteps
        /\ Sent(call[3]) = Said(call[1])
        /\ \A i \in 1 .. Len(call) : i >= 5 => Sent(call[i]) = Said(call[1])
    BY <2>2, <2>4 DEF SendingSteps, Sent, Said
  <2>7. \A i \in 1 .. Len(call) : i \in {1, 2, 3, 4} \/ i >= 5
    <3>1. Len(call) \in Nat
      BY <2>4
    <3>2. QED
      BY <3>1
  <2>8. /\ \A i \in 1 .. Len(call) : call[i] \in Pins <=> i = 1
        /\ \A i \in 1 .. Len(call) :
             call[i] \in SendingSteps => Sent(call[i]) = Said(call[1])
    BY <2>5, <2>6, <2>7
  <2>9. QED
    BY <2>4, <2>8, OnePinIsOrderly
<1>4. QED
  BY <1>1, <1>2, <1>3 DEF SingleCommand

-----------------------------------------------------------------------------
(* The theorems. *)

(* How the display begins. *)
LEMMA WireInitIsSound ==
  ASSUME WireInit
  PROVE  Types /\ DmaIsAwaited /\ PinIsRight
<1>1. Types
  BY LcdWireAssumption DEF WireInit, Types, Kinds
<1>2. DmaIsAwaited
  BY DEF WireInit, DmaIsAwaited
<1>3. PinIsRight
  BY DEF WireInit, PinIsRight, Idle, Told, Waits
<1>4. QED
  BY <1>1, <1>2, <1>3

(* Whatever the calls, the DMA runs only while the program waits for it.   *)
THEOREM DmaInvariant == WireSpec => [](Types /\ DmaIsAwaited)
<1>1. WireInit => Types /\ DmaIsAwaited
  BY WireInitIsSound
<1>2. Types /\ DmaIsAwaited /\ [WireNext]_wireVars => (Types /\ DmaIsAwaited)'
  BY DmaKept
<1>3. QED
  BY <1>1, <1>2, PTL DEF WireSpec

(* Every variable has its type; the FIFO is never written while full       *)
(* (lcd.c:207-214).                                                        *)
THEOREM WireTypeCorrect == WireSpec => []WireTypeOK
<1>1. Types => WireTypeOK
  <2>1. SUFFICES ASSUME Types PROVE WireTypeOK
    OBVIOUS
  <2>2. /\ \A i \in 1 .. Len(todo) : todo[i] \in Walk
        /\ \A i \in 1 .. Len(tx) : tx[i] \in Kinds
    BY <2>1 DEF Types
  <2>3. QED
    BY <2>1, <2>2 DEF Types, WireTypeOK, Walk
<1>2. QED
  BY <1>1, DmaInvariant, PTL

(* lcd_tx_buffer is not filled again before the DMA has read it, whatever  *)
(* the calls and the lengths (lcd.c:163-205, lcd.c:428-451).               *)
THEOREM DmaReadsPixels == WireSpec => []DmaReadsItsChunk
<1>1. DmaIsAwaited => DmaReadsItsChunk
  BY DEF DmaIsAwaited, DmaReadsItsChunk
<1>2. QED
  BY <1>1, DmaInvariant, PTL

(* What is under way to the display is what the pin says, if every call is *)
(* orderly.                                                                *)
THEOREM PinInvariant ==
  ASSUME \A call \in Calls : Orderly(call)
  PROVE  WireSpec => []PinIsRight
<1>1. WireInit => PinIsRight
  BY WireInitIsSound
<1>2. PinIsRight /\ Types /\ DmaIsAwaited /\ [WireNext]_wireVars => PinIsRight'
  BY PinKept
<1>3. QED
  BY <1>1, <1>2, DmaInvariant, PTL DEF WireSpec

(* The display takes commands for commands and data for data in calls with *)
(* at most one command, however much data they send and however fast the   *)
(* program is (lcd.c:207-241).                                             *)
THEOREM SingleCommandsUnderstood ==
  ASSUME Calls \subseteq SingleCommand
  PROVE  WireSpec => []DisplayUnderstands
<1>1. \A call \in Calls : Orderly(call)
  BY SingleCommandsAreOrderly
<1>2. PinIsRight => DisplayUnderstands
  BY DEF PinIsRight, DisplayUnderstands
<1>3. WireSpec => []PinIsRight
  BY <1>1, PinInvariant
<1>4. QED
  BY <1>2, <1>3, PTL

=============================================================================
