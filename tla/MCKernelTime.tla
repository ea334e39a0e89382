---------------------------- MODULE MCKernelTime ----------------------------
(* Instances of the kernel's time for TLC; the numbers are in the .cfg. *)
EXTENDS KernelTime, TLC

CONSTANTS t1, t2

Alike == Permutations({t1, t2})

=============================================================================
