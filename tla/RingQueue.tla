----------------------------- MODULE RingQueue ------------------------------
(***************************************************************************)
(* The byte queue of bsp/src/ds.c: a ring of which one entry stays unused, *)
(* so that left = right means empty.  The calls are not made concurrently, *)
(* so each is one step; indices count from zero, as in C.                  *)
(***************************************************************************)
EXTENDS Integers, Sequences

CONSTANTS
  Bytes,     \* what is queued
  Unset,     \* the contents of a buffer nobody has written to
  Sizes,     \* bound: the sizes of the buffers a queue is initialized with,
  Messages   \* bound: and the messages pushed

RingQueueConstants ==
  /\ Sizes \subseteq Nat
  /\ Messages \subseteq Seq(Bytes) /\ Unset \notin Bytes

VARIABLES
  buf, size, left, right,  \* ds_rq_t; size 0 before ds_rq_init
  answer                   \* the last call, what it returned and gave

vars == <<buf, size, left, right, answer>>

Answer(call, ok, bytes) == [call |-> call, ok |-> ok, bytes |-> bytes]

Init ==
  /\ buf = <<>> /\ size = 0 /\ left = 0 /\ right = 0
  /\ answer = Answer("init", FALSE, <<>>)

-----------------------------------------------------------------------------

ds_rq_size == IF right >= left THEN right - left ELSE size - left + right

(* Mutant: no entry stays unused. *)
ds_rq_avail_all == size - ds_rq_size

ds_rq_avail == size - 1 - ds_rq_size

(* i steps from entry j. *)
Forward(j, i) == (j + i) % size

(* How far entry j lies from the one that right points to. *)
FromRight(j) == (j - right) % size

ds_rq_init(n) ==
  IF n >= 2
  THEN /\ buf' = [j \in 0 .. n - 1 |-> Unset]
       /\ size' = n /\ left' = 0 /\ right' = 0
       /\ answer' = Answer("init", TRUE, <<>>)
  ELSE /\ UNCHANGED <<buf, size, left, right>>
       /\ answer' = Answer("init", FALSE, <<>>)

ds_rq_push(data) ==
  /\ IF Len(data) <= ds_rq_avail
     THEN /\ buf' = [j \in DOMAIN buf |->
                       IF FromRight(j) < Len(data) THEN data[FromRight(j) + 1]
                                                   ELSE buf[j]]
          /\ right' = Forward(right, Len(data))
          /\ answer' = Answer("push", TRUE, <<>>)
     ELSE UNCHANGED <<buf, right>> /\ answer' = Answer("push", FALSE, <<>>)
  /\ UNCHANGED <<size, left>>

ds_rq_pop(n) ==
  /\ IF n <= ds_rq_size
     THEN /\ answer' =
               Answer("pop", TRUE,
                      [i \in 1 .. n |-> buf[Forward(left, i - 1)]])
          /\ left' = Forward(left, n)
     ELSE UNCHANGED left /\ answer' = Answer("pop", FALSE, <<>>)
  /\ UNCHANGED <<buf, size, right>>

(* The queue is used once it is initialized. *)
Next ==
  \/ \E n \in Sizes : ds_rq_init(n)
  \/ size > 0 /\ \E data \in Messages : ds_rq_push(data)
  \/ size > 0 /\ \E n \in {Len(data) : data \in Messages} : ds_rq_pop(n)

Spec == Init /\ [][Next]_vars

-----------------------------------------------------------------------------
(* Properties. *)

(* Every variable has its type; the indices lie in the buffer.             *)
TypeOK ==
  /\ size \in Nat /\ buf \in [0 .. size - 1 -> Bytes \cup {Unset}]
  /\ left \in 0 .. size /\ right \in 0 .. size
  /\ size > 0 => left < size /\ right < size
  /\ answer \in [call : {"init", "push", "pop"}, ok : BOOLEAN,
              bytes : Seq(Bytes)]

(* The bytes between left and right, in their order. *)
Queued == [i \in 1 .. ds_rq_size |-> buf[Forward(left, i - 1)]]

(* What is counted as queued has been written, wherever the ring wraps,    *)
(* and so nothing is popped that was never pushed (ds.c:19-28, 43-54).     *)
QueuedWasPushed ==
  size > 0 => ds_rq_size \in 0 .. size - 1 /\ Queued \in Seq(Bytes)

(* The ring implements the bounded FIFO, whatever sequence of operations   *)
(* fills and empties it (ds.h:21-27).                                      *)
Fifo == INSTANCE BoundedFifo WITH
          capacity <- IF size = 0 THEN 0 ELSE size - 1, items <- Queued

ImplementsFifo ==
  Fifo!Init /\ [][\/ \E n \in Sizes : Fifo!Create(n)
                  \/ \E data \in Messages : Fifo!Push(data)
                  \/ \E data \in Messages : Fifo!Pop(Len(data))]_Fifo!vars

=============================================================================
