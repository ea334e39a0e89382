---------------------------- MODULE BoundedFifo -----------------------------
(***************************************************************************)
(* What the byte queue of bsp/internal/bsp/ds.h promises: a first-in       *)
(* first-out queue of bounded capacity, whose operations take or give all  *)
(* the bytes they are asked for, or none.                                  *)
(***************************************************************************)
EXTENDS Integers, Sequences

CONSTANTS
  Bytes,     \* what is queued
  Sizes      \* the buffer sizes the queue may be initialized with

VARIABLES
  capacity,  \* how many bytes there is room for; 0 before initialization
  items,     \* the bytes in the queue
  answer     \* the last operation, its result, and the bytes
             \* it gave

vars == <<capacity, items, answer>>

Answer(call, ok, bytes) == [call |-> call, ok |-> ok, bytes |-> bytes]

Init == capacity = 0 /\ items = <<>> /\ answer = Answer("init", FALSE, <<>>)

(* A buffer of one byte has no room for one. *)
Create(n) ==
  IF n >= 2
  THEN /\ capacity' = n - 1 /\ items' = <<>>
       /\ answer' = Answer("init", TRUE, <<>>)
  ELSE /\ UNCHANGED <<capacity, items>>
       /\ answer' = Answer("init", FALSE, <<>>)

Push(data) ==
  /\ UNCHANGED capacity
  /\ IF Len(items) + Len(data) <= capacity
     THEN items' = items \o data /\ answer' = Answer("push", TRUE, <<>>)
     ELSE UNCHANGED items /\ answer' = Answer("push", FALSE, <<>>)

Pop(n) ==
  /\ UNCHANGED capacity
  /\ IF n <= Len(items)
     THEN /\ items' = SubSeq(items, n + 1, Len(items))
          /\ answer' = Answer("pop", TRUE, SubSeq(items, 1, n))
     ELSE UNCHANGED items /\ answer' = Answer("pop", FALSE, <<>>)

Next ==
  \/ \E n \in Sizes : Create(n)
  \/ \E data \in Seq(Bytes) : Push(data)
  \/ \E n \in Nat : Pop(n)

Spec == Init /\ [][Next]_vars

=============================================================================
