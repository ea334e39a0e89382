--------------------------- MODULE RecursiveLocks ---------------------------
(* What the kernel's recursive mutexes promise their users, the SPI driver *)
(* among them: one owner at a time, who takes and gives as often as it     *)
(* likes and is rid of the lock with the last of its gives.                *)
EXTENDS Naturals

CONSTANTS Tasks, Locks, None

VARIABLES owner, depth

Init == owner = [m \in Locks |-> None] /\ depth = [m \in Locks |-> 0]

Take(t, m) ==
  /\ owner[m] \in {None, t}
  /\ owner' = [owner EXCEPT ![m] = t]
  /\ depth' = [depth EXCEPT ![m] = @ + 1]

Give(t, m) ==
  /\ owner[m] = t
  /\ depth' = [depth EXCEPT ![m] = @ - 1]
  /\ owner' = [owner EXCEPT ![m] = IF depth[m] = 1 THEN None ELSE @]

Next == \E t \in Tasks, m \in Locks : Take(t, m) \/ Give(t, m)

Spec == Init /\ [][Next]_<<owner, depth>>

=============================================================================
