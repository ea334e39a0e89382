------------------------------ MODULE MCSpiBus ------------------------------
(* Instances of the SPI bus for TLC. *)
EXTENDS SpiBus, TLC

(* The tasks other than the boot context are alike. *)
TaskSymmetry == Permutations(Tasks \ {Boot})

=============================================================================
