----------------------------- MODULE MCLcdDraw ------------------------------
(* Instances of the display for TLC: an upright direction and one on its   *)
(* side, two by three pixels, at offsets like the real panel's.            *)
EXTENDS LcdDraw, TLC

CONSTANTS Upright, Side

TwoByThree ==
  [d \in {Upright, Side} |->
     IF d = Upright
     THEN [a \in Axes |-> IF a = "x" THEN [size |-> 2, offset |-> 2]
                          ELSE [size |-> 3, offset |-> 1]]
     ELSE [a \in Axes |-> IF a = "x" THEN [size |-> 3, offset |-> 1]
                          ELSE [size |-> 2, offset |-> 2]]]

Rectangle(x, width, y, height) ==
  [a \in Axes |-> IF a = "x" THEN [from |-> x, len |-> width]
                  ELSE [from |-> y, len |-> height]]

(* One that lies inside, one that sticks out on both axes, one in the      *)
(* corner that only a display on its side has, and one that is empty.      *)
Rectangles == {Rectangle(0, 1, 1, 1), Rectangle(1, 3, 1, 3),
               Rectangle(2, 1, 0, 2), Rectangle(0, 2, 1, 0)}

TaskSymmetry == Permutations(Tasks)

=============================================================================
