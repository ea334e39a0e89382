-------------------------- MODULE UartTxRefinement --------------------------
(***************************************************************************)
(* The transmit half of the UART driver implements TxLink.                 *)
(***************************************************************************)
EXTENDS UartTx, FiniteSets

(* The order in which bytes are accepted. *)
Precedes(a, b) == a[1] < b[1] \/ (a[1] = b[1] /\ a[2] < b[2])

(* The members of a set of bytes, in this order. *)
Before(S, b) == {a \in S : Precedes(a, b)}
Listed(S) == [i \in 1 .. Cardinality(S) |->
                CHOOSE b \in S : Cardinality(Before(S, b)) = i - 1]

(* The bytes slot i will send: its data once it is ready, and before that  *)
(* the bytes of the message the filling task was called with.              *)
SlotBytes(i) ==
  IF tx_slots[i].ready
  THEN {<<tx_slots[i].data[k], k>> : k \in 1 .. tx_slots[i].length}
  ELSE UNION {{<<caller[t].msg, k>> : k \in 1 .. caller[t].length} :
                t \in {u \in Tasks : Filling(u) /\ caller[u].slot = i}}

(* What slot i still has to put into the FIFO.  Once its transfer is over  *)
(* (the completion is only pending), nothing.                              *)
SlotRest(i) ==
  IF i = tx_head /\ tx_busy
  THEN {b \in SlotBytes(i) : dma.enabled /\ b[2] > dma.moved}
  ELSE SlotBytes(i)

(* What a blocking send still has to put into the FIFO. *)
SenderRest(t) ==
  IF caller[t].pc = "send"
  THEN {<<caller[t].msg, k>> : k \in caller[t].done + 1 .. caller[t].length}
  ELSE {}

InSlots == UNION {SlotRest(i) : i \in Window}
InCalls == UNION {SenderRest(t) : t \in Tasks}
Waiting == InSlots \cup InCalls

Unsent == {fifo[i] : i \in 1 .. Len(fifo)} \cup Waiting

Link == INSTANCE TxLink WITH pending <- Listed(Unsent)

(* Every accepted message leaves whole, once, in the order of acceptance;  *)
(* under Fairness every accepted byte eventually leaves.                   *)
ImplementsTxLink == Link!Spec

=============================================================================
