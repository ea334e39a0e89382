------------------------------- MODULE TxLink -------------------------------
(***************************************************************************)
(* What the transmit API of bsp/include/bsp/uart.h promises: a call that   *)
(* returns true has accepted its message, and the bytes of the accepted    *)
(* messages leave the UART in the order of acceptance, each message whole, *)
(* none lost, repeated or mixed with another.                              *)
(***************************************************************************)
EXTENDS Naturals, Sequences

CONSTANTS
  MaxLength,    \* the longest message
  MaxMessages   \* bound: messages accepted in one behaviour

VARIABLES
  accepted,     \* messages accepted so far
  pending,      \* their bytes that have not left yet, in order
  wire          \* the bytes that have left

vars == <<accepted, pending, wire>>

(* The bytes of message m of length n. *)
Bytes(m, n) == [k \in 1 .. n |-> <<m, k>>]

Init == accepted = 0 /\ pending = <<>> /\ wire = <<>>

Accept(n) ==
  /\ accepted < MaxMessages
  /\ accepted' = accepted + 1
  /\ pending' = pending \o Bytes(accepted + 1, n)
  /\ UNCHANGED wire

Shift ==
  /\ pending # <<>>
  /\ wire' = Append(wire, Head(pending))
  /\ pending' = Tail(pending)
  /\ UNCHANGED accepted

Next == Shift \/ \E n \in 1 .. MaxLength : Accept(n)

(* Every accepted byte eventually leaves. *)
Spec == Init /\ [][Next]_vars /\ WF_vars(Shift)

=============================================================================
