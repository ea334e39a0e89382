------------------------------ MODULE MCUartRx ------------------------------
(* Instances of the receive half for TLC: a fast and a slow rate, whose    *)
(* idle windows are less and more than one run of the timer.               *)
EXTENDS UartRx

CONSTANTS Fast, Slow

FastSlow == [b \in {Fast, Slow} |-> IF b = Fast THEN 1 ELSE 3]

Board(level, masked, errors, bauds, n, m) ==
  [level |-> level, masked |-> masked, errors |-> errors, bauds |-> bauds,
   bytes |-> [d \in Devices |-> IF d = 0 THEN n ELSE m]]

(* The interrupt fires on the passing of the level. *)
Passing == {Board(FALSE, FALSE, FALSE, {Fast}, 2, 1)}

(* One UART whose interrupt fires on the passing, and which overruns       *)
(* because tasks mask it; one with line errors and prompt handlers; and    *)
(* two UARTs that share the timer.                                         *)
OneAndPair ==
  {Board(FALSE, TRUE, FALSE, {Slow}, 4, 0),
   Board(TRUE, FALSE, TRUE, Bauds, 3, 0),
   Board(TRUE, TRUE, FALSE, {Fast}, 2, 1)}

=============================================================================
