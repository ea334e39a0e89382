--------------------------- MODULE MCKernelMutex ----------------------------
(* Instances of the kernel's mutexes for TLC. *)
EXTENDS KernelMutex, TLC

CONSTANTS low, peer, mid, high

(* A priority for each task: two share the lowest. *)
Priorities == [t \in Tasks |-> IF t = Idle THEN 0 ELSE
                 IF t = high THEN 3 ELSE IF t = mid THEN 2 ELSE 1]

=============================================================================
