------------------------------ MODULE MCUartTx ------------------------------
(* Instances of the transmit half for TLC; the numbers are in the .cfg. *)
EXTENDS UartTxRefinement

=============================================================================
