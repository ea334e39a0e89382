------------------------------ MODULE LcdDraw -------------------------------
(***************************************************************************)
(* The drawing calls of bsp/src/lcd.c and the display's direction.  A call *)
(* clips its rectangle against lcd_config, then locks the bus, sends the   *)
(* display an address window, checked against lcd_config once more, and    *)
(* as many pixels as the clipped rectangle has, through one static buffer. *)
(* bsp_lcd_set_direction replaces lcd_config and tells the display, with   *)
(* the bus locked.  The text calls of bsp/lcd_font.h check that a cell     *)
(* fits, then lock the bus and stream its pixels.                          *)
(*                                                                         *)
(* The bus lock is what module SpiBus shows it to be: one owner at a time. *)
(* What is read or written outside it is read or written field by field.   *)
(* Width and height, x and y are two axes treated alike; uint16_t          *)
(* arithmetic wraps at Word.                                               *)
(***************************************************************************)
EXTENDS Integers

CONSTANTS
  Tasks,      \* the tasks that draw
  Setters,    \* those that change the direction
  Directions,
  Configs,    \* lcd_direction_configs: size and offset of each axis
  None,       \* no task, no direction
  Word,       \* the range of uint16_t
  MaxPixels,  \* what lcd_tx_buffer holds
  Asked,      \* bound: the rectangles asked for
  MaxCounted  \* bound: the pixels counted in one window

Axes  == {"x", "y"}
Words == 0 .. Word - 1
Rects == [Axes -> [from : Words, len : Words]]

ASSUME LcdDrawAssumption ==
  /\ Setters \subseteq Tasks /\ None \notin Tasks \cup Directions
  /\ Word \in Nat /\ MaxPixels \in Nat \ {0}
  /\ Asked \subseteq Rects /\ MaxCounted \in Nat
  /\ Configs \in [Directions -> [Axes -> [size : Words \ {0},
                                          offset : Words]]]
  /\ \A d \in Directions :
       /\ \A a \in Axes : Configs[d][a].size + Configs[d][a].offset <= Word
       /\ Configs[d]["x"].size * Configs[d]["y"].size <= MaxCounted

VARIABLES
  lcd_config,     \* the sizes and offsets in force
  lcd_tx_buffer,  \* the task whose pixels it holds
  owner,          \* the task that holds the bus lock
  pc,             \* what each task is doing,
  rect, left,     \* its rectangle, and the pixels it has still to send
  asked,          \* history: the rectangle before it was clipped
  turn,           \* the direction it is setting
  stale,          \* history: the tasks whose call read an lcd_config that
                  \* was replaced before the call had the lock
  panel           \* the display: the direction it was told, the address
                  \* window in its memory, the pixels written there since
                  \* the window was set, and the tasks that wrote them

locals == <<pc, rect, left, asked, turn>>
vars == <<lcd_config, lcd_tx_buffer, owner, locals, stale, panel>>

Empty == [a \in Axes |-> [from |-> 0, len |-> 0]]

Init ==
  \E d \in Directions :
    /\ lcd_config = Configs[d] /\ lcd_tx_buffer = None /\ owner = None
    /\ pc = [t \in Tasks |-> "idle"]
    /\ rect = [t \in Tasks |-> Empty] /\ asked = rect
    /\ left = [t \in Tasks |-> 0] /\ turn = [t \in Tasks |-> None]
    /\ stale = {}
    /\ panel = [direction |-> d, pixels |-> 0, by |-> {},
                window |-> [a \in Axes |-> [from |-> 0, to |-> 0]]]

-----------------------------------------------------------------------------
(* Helpers. *)

Goto(t, step) == pc' = [pc EXCEPT ![t] = step]

(* A call returns: what it had on its stack is gone. *)
Return(t) ==
  /\ Goto(t, "idle")
  /\ rect' = [rect EXCEPT ![t] = Empty] /\ asked' = [asked EXCEPT ![t] = Empty]
  /\ turn' = [turn EXCEPT ![t] = None] /\ UNCHANGED left

Least(a, b) == IF a <= b THEN a ELSE b

Counted(n) == Least(n, MaxCounted)

Area(r) == r["x"].len * r["y"].len

(* Mutant: the end of the window is one too far. *)
WindowTooLong(c, r) ==
  [a \in Axes |-> [from |-> r[a].from + c[a].offset,
                   to   |-> Least(r[a].from + r[a].len, c[a].size)
                              + c[a].offset]]

(* The window for rectangle r under configuration c: lcd_begin_window and  *)
(* lcd_prepare_address.  If the rectangle begins outside the display, or   *)
(* ends before it begins, the coordinates go out as they are.              *)
Window(c, r) ==
  LET to(a)   == (r[a].from + r[a].len - 1) % Word
      inside  == \A a \in Axes : r[a].from < c[a].size
      last(a) == IF inside THEN Least(to(a), c[a].size - 1) ELSE to(a)
      valid   == inside /\ \A a \in Axes : r[a].from <= last(a)
      shift(a) == IF valid THEN c[a].offset ELSE 0
  IN  [a \in Axes |-> [from |-> (r[a].from + shift(a)) % Word,
                       to   |-> (last(a) + shift(a)) % Word]]

(* The display is sent the window for rectangle r. *)
SendWindow(r) ==
  panel' = [panel EXCEPT !.window = Window(lcd_config, r),
                         !.pixels = 0, !.by = {}]

-----------------------------------------------------------------------------
(* bsp_lcd_fill_rect, bsp_lcd_draw_pixel and bsp_lcd_draw_rgb565. *)

Ask(t, r, step) ==
  /\ pc[t] = "idle"
  /\ rect' = [rect EXCEPT ![t] = r] /\ asked' = [asked EXCEPT ![t] = r]
  /\ Goto(t, step)
  /\ UNCHANGED <<lcd_config, lcd_tx_buffer, owner, left, turn, panel>>

Draw(t, r) == Ask(t, r, "check x")

(* bsp_lcd_clear asks for the whole display, whose size it reads first. *)
Clear(t) == Ask(t, Empty, "clear x")

ReadSize(t, a, step, next) ==
  /\ pc[t] = step
  /\ rect' = [rect EXCEPT ![t][a].len = lcd_config[a].size]
  /\ asked' = [asked EXCEPT ![t] = rect'[t]]
  /\ Goto(t, next)
  /\ UNCHANGED <<lcd_config, lcd_tx_buffer, owner, left, turn, panel>>

(* lcd_clip_rect, outside the lock: give up if an axis begins outside the  *)
(* display or is empty ...                                                 *)
ClipCheck(t, a, step, next) ==
  /\ pc[t] = step
  /\ IF rect[t][a].from >= lcd_config[a].size \/ rect[t][a].len = 0
     THEN Return(t)
     ELSE Goto(t, next) /\ UNCHANGED <<rect, left, asked, turn>>
  /\ UNCHANGED <<lcd_config, lcd_tx_buffer, owner, panel>>

(* Mutant: the length is cut to the display's, not to what is left of it. *)
ClipFitToSize(t, a, step, next) ==
  /\ pc[t] = step
  /\ rect' = [rect EXCEPT ![t][a].len = Least(@, lcd_config[a].size)]
  /\ Goto(t, next)
  /\ UNCHANGED <<lcd_config, lcd_tx_buffer, owner, left, asked, turn, panel>>

(* ... and shorten what ends outside; the subtraction may wrap around if   *)
(* the display has shrunk since.  The size is read twice: a call under     *)
(* which it changes in between is as stale as one turned before or after.  *)
ClipFit(t, a, step, next) ==
  /\ pc[t] = step
  /\ rect' = [rect EXCEPT ![t][a].len =
                IF rect[t][a].from + @ > lcd_config[a].size
                THEN (lcd_config[a].size - rect[t][a].from) % Word
                ELSE @]
  /\ Goto(t, next)
  /\ UNCHANGED <<lcd_config, lcd_tx_buffer, owner, left, asked, turn, panel>>

(* Mutant: the bus is taken without waiting for its owner. *)
LockNoWait(t, step, next) ==
  /\ pc[t] = step
  /\ owner' = t
  /\ Goto(t, next)
  /\ UNCHANGED <<lcd_config, lcd_tx_buffer, rect, left, asked, turn, panel>>

(* bsp_spi_lock and bsp_spi_unlock. *)
Lock(t, step, next) ==
  /\ pc[t] = step /\ owner = None
  /\ owner' = t
  /\ Goto(t, next)
  /\ UNCHANGED <<lcd_config, lcd_tx_buffer, rect, left, asked, turn, panel>>

Unlock(t) ==
  /\ pc[t] = "unlock"
  /\ owner' = None
  /\ Return(t)
  /\ UNCHANGED <<lcd_config, lcd_tx_buffer, panel>>

(* lcd_begin_window. *)
BeginWindow(t) ==
  /\ pc[t] = "window"
  /\ SendWindow(rect[t])
  /\ Goto(t, "fill")
  /\ UNCHANGED <<lcd_config, lcd_tx_buffer, owner, rect, left, asked, turn>>

(* What is sent, for a rectangle, a stream or a text. *)
Sending == [s \in {"fill", "stream fill", "text fill"} |->
              CASE s = "fill"        -> "send"
                [] s = "stream fill" -> "stream send"
                [] s = "text fill"   -> "text send"]

(* bsp_lcd_write_color, bsp_lcd_write_rgb565: the buffer is filled ... *)
FillBuffer(t) ==
  /\ pc[t] \in DOMAIN Sending
  /\ lcd_tx_buffer' = t
  /\ left' = [left EXCEPT ![t] = Area(rect[t])]
  /\ Goto(t, Sending[pc[t]])
  /\ UNCHANGED <<lcd_config, owner, rect, asked, turn, panel>>

(* Mutant: a full buffer is subtracted from what is left. *)
SendFullBuffer(t) ==
  /\ pc[t] \in {"send", "stream send", "text send"}
  /\ IF left[t] > 0
     THEN /\ left' = [left EXCEPT ![t] = @ - MaxPixels]
          /\ panel' = [panel EXCEPT !.pixels = Counted(@ + MaxPixels),
                                    !.by = @ \cup {lcd_tx_buffer}]
          /\ UNCHANGED pc
     ELSE Goto(t, "unlock") /\ UNCHANGED <<left, panel>>
  /\ UNCHANGED <<lcd_config, lcd_tx_buffer, owner, rect, asked, turn>>

(* ... and its contents are sent, until every pixel is.  What              *)
(* bsp_lcd_write_rgb565 fills in anew for each chunk is the same task's.   *)
SendBuffer(t) ==
  LET pixels == Least(left[t], MaxPixels) IN
  /\ pc[t] \in {"send", "stream send", "text send"}
  /\ IF left[t] > 0
     THEN /\ left' = [left EXCEPT ![t] = @ - pixels]
          /\ panel' = [panel EXCEPT !.pixels = Counted(@ + pixels),
                                    !.by = @ \cup {lcd_tx_buffer}]
          /\ UNCHANGED pc
     ELSE Goto(t, "unlock") /\ UNCHANGED <<left, panel>>
  /\ UNCHANGED <<lcd_config, lcd_tx_buffer, owner, rect, asked, turn>>

-----------------------------------------------------------------------------
(* The pixel stream, with the bus locked across it as lcd.h asks. *)

(* It is asked for by its corners, each of them a uint16_t.                *)
Stream(t, r) ==
  /\ \A a \in Axes : r[a].from + r[a].len <= Word
  /\ Ask(t, r, "stream lock")

(* bsp_lcd_set_address, then bsp_lcd_write_begin and as many pixels as are *)
(* shown; nothing is sent if nothing is, and the caller goes by the same   *)
(* test.                                                                   *)
SetAddress(t) ==
  LET shown == \A a \in Axes : /\ rect[t][a].from < lcd_config[a].size
                               /\ rect[t][a].len > 0
      fit == [a \in Axes |-> [rect[t][a] EXCEPT !.len =
                Least(@, lcd_config[a].size - rect[t][a].from)]]
  IN
  /\ pc[t] = "stream"
  /\ IF shown
     THEN /\ SendWindow(rect[t])
          /\ rect' = [rect EXCEPT ![t] = fit]
          /\ Goto(t, "stream fill")
     ELSE Goto(t, "unlock") /\ UNCHANGED <<panel, rect>>
  /\ UNCHANGED <<lcd_config, lcd_tx_buffer, owner, left, asked, turn>>

-----------------------------------------------------------------------------
(* bsp_lcd_draw_char and bsp_lcd_print_line_1x: a cell or a line of them. *)

Text(t, r) == Ask(t, r, "text x")

(* Outside the lock: give up if the cell sticks out or is empty. *)
TextFits(t, a, step, next) ==
  /\ pc[t] = step
  /\ IF \/ rect[t][a].from + rect[t][a].len > lcd_config[a].size
        \/ rect[t][a].len = 0
     THEN Return(t)
     ELSE Goto(t, next) /\ UNCHANGED <<rect, left, asked, turn>>
  /\ UNCHANGED <<lcd_config, lcd_tx_buffer, owner, panel>>

(* bsp_lcd_set_address sends nothing if the cell begins outside; the       *)
(* caller does not notice and sends all its pixels.                        *)
TextAddress(t) ==
  /\ pc[t] = "text"
  /\ IF \A a \in Axes : rect[t][a].from < lcd_config[a].size
     THEN SendWindow(rect[t])
     ELSE UNCHANGED panel
  /\ Goto(t, "text fill")
  /\ UNCHANGED <<lcd_config, lcd_tx_buffer, owner, rect, left, asked, turn>>

-----------------------------------------------------------------------------
(* bsp_lcd_set_direction. *)

Turn(t, d) ==
  /\ pc[t] = "idle" /\ t \in Setters
  /\ turn' = [turn EXCEPT ![t] = d]
  /\ Goto(t, "turn")
  /\ UNCHANGED <<lcd_config, lcd_tx_buffer, owner, rect, left, asked, panel>>

(* The structure is copied word by word, the width first; the rest is one  *)
(* step, since of it only the height is read outside the lock ...          *)
CopyWidth(t) ==
  /\ pc[t] = "copy"
  /\ lcd_config' = [lcd_config EXCEPT !["x"].size = Configs[turn[t]]["x"].size]
  /\ Goto(t, "copy rest")
  /\ UNCHANGED <<lcd_tx_buffer, owner, rect, left, asked, turn, panel>>

CopyRest(t) ==
  /\ pc[t] = "copy rest"
  /\ lcd_config' = Configs[turn[t]]
  /\ Goto(t, "madctl")
  /\ UNCHANGED <<lcd_tx_buffer, owner, rect, left, asked, turn, panel>>

(* ... and the display told. *)
Madctl(t) ==
  /\ pc[t] = "madctl"
  /\ panel' = [panel EXCEPT !.direction = turn[t]]
  /\ Goto(t, "unlock")
  /\ UNCHANGED <<lcd_config, lcd_tx_buffer, owner, rect, left, asked, turn>>

-----------------------------------------------------------------------------

DrawStep(t) ==
  \/ \E r \in Asked : Draw(t, r)
  \/ Clear(t)
  \/ ReadSize(t, "x", "clear x", "clear y")
  \/ ReadSize(t, "y", "clear y", "check x")
  \/ ClipCheck(t, "x", "check x", "check y")
  \/ ClipCheck(t, "y", "check y", "fit x")
  \/ ClipFit(t, "x", "fit x", "fit y")
  \/ ClipFit(t, "y", "fit y", "lock")
  \/ Lock(t, "lock", "window")
  \/ BeginWindow(t) \/ FillBuffer(t) \/ SendBuffer(t) \/ Unlock(t)

StreamStep(t) ==
  \/ \E r \in Asked : Stream(t, r)
  \/ Lock(t, "stream lock", "stream")
  \/ SetAddress(t)

TextStep(t) ==
  \/ \E r \in Asked : Text(t, r)
  \/ TextFits(t, "x", "text x", "text y")
  \/ TextFits(t, "y", "text y", "text lock")
  \/ Lock(t, "text lock", "text")
  \/ TextAddress(t)

TurnStep(t) ==
  \/ \E d \in Directions : Turn(t, d)
  \/ Lock(t, "turn", "copy")
  \/ CopyWidth(t) \/ CopyRest(t) \/ Madctl(t)

(* A call is idle, clips or checks, waits for the lock, or has it. *)
Unlocked == {"check x", "check y", "fit x", "fit y", "lock", "clear x",
             "clear y", "stream lock", "text x", "text y", "text lock"}

NoteStale ==
  stale' = {t \in Tasks : /\ pc'[t] # "idle"
                          /\ \/ t \in stale
                             \/ /\ pc[t] \in Unlocked
                                /\ lcd_config' # lcd_config}

Next ==
  /\ \E t \in Tasks :
       DrawStep(t) \/ StreamStep(t) \/ TextStep(t) \/ TurnStep(t)
  /\ NoteStale

Spec == Init /\ [][Next]_vars

-----------------------------------------------------------------------------
(* Properties. *)

Steps == {"idle", "check x", "check y", "fit x", "fit y", "lock", "window",
          "fill", "send", "unlock", "stream lock", "stream", "stream fill",
          "stream send", "turn", "copy", "copy rest", "madctl", "clear x",
          "clear y", "text x", "text y", "text lock", "text", "text fill",
          "text send"}

(* Every variable has its type; the wrapped arithmetic of the clipping and *)
(* of the windows stays within uint16_t.                                   *)
TypeOK ==
  /\ lcd_config \in [Axes -> [size : Words, offset : Words]]
  /\ lcd_tx_buffer \in Tasks \cup {None} /\ owner \in Tasks \cup {None}
  /\ pc \in [Tasks -> Steps]
  /\ rect \in [Tasks -> Rects] /\ asked \in [Tasks -> Rects]
  /\ left \in [Tasks -> Nat] /\ turn \in [Tasks -> Directions \cup {None}]
  /\ panel \in [direction : Directions, pixels : Nat,
                 by : SUBSET (Tasks \cup {None}),
                 window : [Axes -> [from : Words, to : Words]]]
  /\ stale \subseteq Tasks

(* The window lies on the display, in the direction the display was told. *)
OnPanel ==
  \A a \in Axes :
    LET c == Configs[panel.direction][a]
        w == panel.window[a] IN
    c.offset <= w.from /\ w.from <= w.to /\ w.to < c.offset + c.size

(* The window is the visible part of the rectangle t asked for, nobody     *)
(* else's pixels have come into it, and what t has still to send fills it  *)
(* to the last pixel.                                                      *)
Shows(t) ==
  LET len(a) == panel.window[a].to - panel.window[a].from + 1 IN
  /\ OnPanel
  /\ \A a \in Axes :
       LET c == Configs[panel.direction][a] IN
       /\ panel.window[a].from = asked[t][a].from + c.offset
       /\ len(a) = Least(asked[t][a].len, c.size - asked[t][a].from)
  /\ panel.by \subseteq {t}
  /\ panel.pixels + left[t] = len("x") * len("y")

(* Unless the display is turned between its clipping (of a text: the test  *)
(* whether the cell fits) and its lock, a drawing call writes its own      *)
(* pixels, and all of them, into the visible part of its rectangle,        *)
(* whatever other tasks draw and whenever else they turn the display       *)
(* (lcd.c:448-508, lcd.c:374-446, lcd_font.h:149).                         *)
DrawsVisiblePart ==
  \A t \in Tasks \ stale : pc[t] \in {"send", "text send"} => Shows(t)

(* The same, always, for a stream that holds the lock (lcd.h:24-27).       *)
StreamsVisiblePart == \A t \in Tasks : pc[t] = "stream send" => Shows(t)

(* A drawing call only writes where the display shows it: the rectangle    *)
(* was clipped (lcd.h:103).                                                *)
DrawsOnPanel == \A t \in Tasks : pc[t] = "send" => OnPanel

(* Whoever has the bus to draw finds lcd_config and the display in the     *)
(* same direction, though several tasks turn it (lcd.c:273-282).           *)
PanelFollowsConfig ==
  \/ lcd_config = Configs[panel.direction]
  \/ \E t \in Tasks : owner = t /\ pc[t] \in {"copy rest", "madctl"}

=============================================================================
