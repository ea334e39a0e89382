----------------------------- MODULE MCLcdWire ------------------------------
(* Instances of the display's wire for TLC.  With a FIFO of two entries,   *)
(* three bytes of data do not fit it at once.                              *)
EXTENDS LcdWire

(* Calls with at most one command. *)
SingleCommands ==
  {Command, WriteData} \cup {CommandData(n) : n \in 1 .. 3}
    \cup {Pixels(n) : n \in 1 .. 3}

(* Drawing. *)
Windows == {SetWindow(2)}

=============================================================================
