------------------------------ MODULE LcdText -------------------------------
(***************************************************************************)
(* The text renderer of bsp/lcd_font.h: bsp_lcd_print walks through a text *)
(* with a cursor, wraps at the right edge and stops at the bottom; at      *)
(* scale 1 it hands over a whole line at a time (bsp_lcd_print_line_1x),   *)
(* at larger scales one character (bsp_lcd_draw_char).                     *)
(*                                                                         *)
(* A character is its position in the text, a cell the place it is drawn   *)
(* at; glyphs and colours are left out.  The direction is fixed: module    *)
(* LcdDraw has the text calls race with one that turns the display.        *)
(* Cursors are uint16_t and wrap at Word; the comparisons are in int.      *)
(***************************************************************************)
EXTENDS Integers, Sequences, FiniteSets, FiniteSetsExt

CONSTANTS
  Width, Height,          \* lcd_config's
  MaxWidth,               \* BSP_LCD_MAX_WIDTH, what a row buffer holds
  CellWidth, CellHeight,  \* of a character at scale 1, with its blank lines
  BufferSize,             \* of bsp_lcd_printf
  Word,                   \* the range of uint16_t
  Texts,                  \* bound: the texts, of "char" and "newline"
  Starts, Scales          \* bound: where and how large they are drawn

Points == [x : 0 .. Word - 1, y : 0 .. Word - 1]

LcdTextConstants ==
  /\ Word \in Nat /\ BufferSize \in Nat \ {0}
  /\ Width \in 1 .. Word - 1 /\ Height \in 1 .. Word - 1
  /\ MaxWidth \in Nat /\ Width <= MaxWidth
  /\ CellWidth \in Nat \ {0} /\ CellHeight \in Nat \ {0}
  /\ Texts \subseteq Seq({"char", "newline"})
  /\ Starts \subseteq Points /\ Scales \subseteq Nat

VARIABLES
  text, x, y, scale,  \* the arguments of bsp_lcd_print,
  cursor,             \* its cursor_x and cursor_y,
  next,               \* the character its text points to; 0: it has returned
  cells               \* the display: what was drawn where, in this order

args == <<text, x, y, scale>>
vars == <<args, cursor, next, cells>>

(* What bsp_lcd_printf has room for of what it formats. *)
Truncated(t) == SubSeq(t, 1, Min({Len(t), BufferSize - 1}))

(* One call, of bsp_lcd_print or of bsp_lcd_printf. *)
Init ==
  \E at \in Starts :
    /\ text \in Texts \cup {Truncated(t) : t \in Texts}
    /\ x = at.x /\ y = at.y /\ scale \in Scales
    /\ cursor = at /\ cells = <<>>
    /\ next = IF scale = 0 THEN 0 ELSE 1

char_width  == CellWidth * scale
char_height == CellHeight * scale

-----------------------------------------------------------------------------

Return == next' = 0 /\ UNCHANGED <<args, cursor, cells>>

EndOfText == next > Len(text) /\ Return

(* The beginning of the line after the one c is in. *)
NextLine(c) == [x |-> x, y |-> (c.y + char_height) % Word]

Newline ==
  /\ next \in DOMAIN text /\ text[next] = "newline"
  /\ cursor' = NextLine(cursor)
  /\ next' = next + 1
  /\ UNCHANGED <<args, cells>>

(* Mutant: the last column is not used. *)
WrappedEarly == IF cursor.x + char_width >= Width THEN NextLine(cursor)
                                                  ELSE cursor

(* The cursor, wrapped if the next character sticks out on the right. *)
Wrapped == IF cursor.x + char_width > Width THEN NextLine(cursor) ELSE cursor

Fits(c) == c.x + char_width <= Width /\ c.y + char_height <= Height

(* Nothing is drawn below the bottom; at scale 1, nor right of the edge. *)
Full ==
  /\ next \in DOMAIN text /\ text[next] = "char"
  /\ \/ Wrapped.y + char_height > Height
     \/ scale = 1 /\ ~ Fits(Wrapped)
  /\ Return

(* bsp_lcd_print_line_1x counts the characters that it can draw from c: up *)
(* to the end of their line in the text, and to the edge of the display.   *)
Line(c) ==
  CHOOSE n \in 1 .. Len(text) + 1 - next :
    LET fits(k) == /\ next + k - 1 \in DOMAIN text
                   /\ text[next + k - 1] = "char"
                   /\ c.x + k * char_width <= Width
    IN  (\A k \in 1 .. n : fits(k)) /\ ~ fits(n + 1)

(* ... and draws them, a row of pixels at a time. *)
DrawLine ==
  LET c == Wrapped
      count == Line(c) IN
  /\ scale = 1 /\ next \in DOMAIN text /\ text[next] = "char" /\ Fits(c)
  /\ cells' = cells \o [k \in 1 .. count |->
                [x |-> c.x + (k - 1) * char_width, y |-> c.y,
                 char |-> next + k - 1]]
  /\ cursor' = [c EXCEPT !.x = (@ + count * char_width) % Word]
  /\ next' = next + count
  /\ UNCHANGED args

(* bsp_lcd_draw_char, which draws a character that fits or none; the       *)
(* cursor moves on either way.                                             *)
DrawChar ==
  LET c == Wrapped IN
  /\ scale > 1 /\ next \in DOMAIN text /\ text[next] = "char"
  /\ c.y + char_height <= Height
  /\ cells' = IF Fits(c)
              THEN Append(cells, [x |-> c.x, y |-> c.y, char |-> next])
              ELSE cells
  /\ cursor' = [c EXCEPT !.x = (@ + char_width) % Word]
  /\ next' = next + 1
  /\ UNCHANGED args

Next == EndOfText \/ Newline \/ Full \/ DrawLine \/ DrawChar

Fairness == WF_vars(Next)

Spec == Init /\ [][Next]_vars /\ Fairness

-----------------------------------------------------------------------------
(* The layout lcd_font.h promises, as a function of the text. *)

Breaks(n) == {m \in 1 .. n - 1 : text[m] = "newline"}

(* Where the paragraph begins that character n is in. *)
Begin(n) == 1 + (IF Breaks(n) = {} THEN 0 ELSE Max(Breaks(n)))

(* What fits between the margin and the edge. *)
PerLine == IF scale > 0 /\ x + char_width <= Width
           THEN (Width - x) \div char_width ELSE 0

(* A line begins with character n: after a newline, or because the one     *)
(* before is full; a newline itself always has room.                       *)
BeginsLine(n) ==
  \/ text[n - 1] = "newline"
  \/ /\ text[n] = "char" /\ n > Begin(n)
     /\ (n - Begin(n)) % PerLine = 0

(* The line that character n is in. *)
LineOf(n) == Cardinality({m \in 2 .. n : BeginsLine(m)})

(* The characters of the text that the display has room for. *)
Shown ==
  IF PerLine = 0 THEN {}
  ELSE {n \in DOMAIN text : /\ text[n] = "char"
                            /\ y + (LineOf(n) + 1) * char_height <= Height}

Layout ==
  [n \in Shown |-> [x |-> x + ((n - Begin(n)) % PerLine) * char_width,
                    y |-> y + LineOf(n) * char_height]]

-----------------------------------------------------------------------------
(* Properties. *)

(* Every variable has its type; the cursor stays within uint16_t. *)
TypeOK ==
  /\ text \in Seq({"char", "newline"}) /\ scale \in Nat
  /\ [x |-> x, y |-> y] \in Points /\ cursor \in Points
  /\ next \in 0 .. Len(text) + 1
  /\ cells \in Seq([x : Nat, y : Nat, char : DOMAIN text])

(* A row of the fast path fits into row_buf, which is as wide as the       *)
(* display's longer side (lcd_font.h:206, 231).                            *)
RowFitsBuffer ==
  /\ scale = 1 /\ next \in DOMAIN text /\ text[next] = "char" /\ Fits(Wrapped)
  => Line(Wrapped) * char_width <= MaxWidth

(* A text is drawn in reading order, and no cell on top of another or      *)
(* left of the margin (lcd_font.h:257-284).                                *)
CellsInOrder ==
  /\ \A i \in DOMAIN cells : cells[i].x >= x
  /\ \A i, j \in DOMAIN cells : i < j =>
       /\ cells[i].char < cells[j].char
       /\ \/ cells[i].y + char_height <= cells[j].y
          \/ cells[i].y = cells[j].y /\ cells[i].x + char_width <= cells[j].x

(* What is on the display when a call returns is the layout, whole cells   *)
(* on the display: wrapped at the edge, stopped at the bottom; line by     *)
(* line and character by character alike (lcd_font.h:26-34).               *)
DrawsLayout ==
  next = 0 =>
    {<<c.char, c.x, c.y>> : c \in {cells[i] : i \in DOMAIN cells}}
      = {<<n, Layout[n].x, Layout[n].y>> : n \in Shown}

(* A call returns, wherever it begins and however large it draws: the text *)
(* or the display comes to its end (lcd_font.h:257-284).                   *)
PrintReturns == <>(next = 0)

=============================================================================
