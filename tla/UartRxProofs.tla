---------------------------- MODULE UartRxProofs ----------------------------
(***************************************************************************)
(* Proofs about the receive half of the UART driver, for any number of     *)
(* UARTs, any rates, and any sizes of the FIFO and of the buffer.          *)
(***************************************************************************)
EXTENDS UartRx, ListProofs, FiniteSetTheorems

-----------------------------------------------------------------------------
(* The inductive invariant. *)

(* What a handler knows where it is, and that it arms only what it has     *)
(* read.  The timer's interrupt is pending only while no handler runs.     *)
Handlers ==
  /\ cpu.isr = "none" => cpu \in {AtTask, Chained}
  /\ cpu.isr = "uart" =>
       /\ cpu.step \in {"next", "drain", "error", "arm", "error arm", "reset"}
       /\ initialized[cpu.dev]
  /\ cpu.isr = "timer" =>
       /\ cpu.step \in {"drain", "arm", "scan", "restart"}
       /\ cpu.step = "arm" => initialized[cpu.dev]
  /\ cpu.step \in {"arm", "error arm"} => rx_data[cpu.dev] # <<>>
  /\ timer_irq => cpu = AtTask /\ timer = 0

(* Only a UART in use receives, and the timer is ready for it; its rate is *)
(* one of the board's.                                                     *)
InUse ==
  /\ \A d \in Devices : /\ rx_pending[d] => initialized[d]
                        /\ initialized[d] => uart_idle_timer_ready
  /\ baud \in [Devices -> board.bauds]

(* The FIFO holds the first of the bytes that have come since it was read. *)
FifoIsNext(d) ==
  /\ drained[d] <= Len(line[d])
  /\ Len(fifo[d]) = Least(Len(line[d]) - drained[d], FifoDepth)
  /\ \A i \in 1 .. Len(fifo[d]) : fifo[d][i] = drained[d] + i

(* The handler of this UART is at one of the steps of an error. *)
Erring(d, steps) == cpu.isr = "uart" /\ cpu.dev = d /\ cpu.step \in steps

(* All the bytes that have come since are in the FIFO, and they are good. *)
Clean(d) ==
  /\ Len(line[d]) - drained[d] = Len(fifo[d])
  /\ \A i \in 1 .. Len(line[d]) : i > drained[d] => line[d][i].good

(* When they are not, an error is to be handled. *)
ErrorIsNoted(d) == Clean(d) \/ error_irq[d] \/ Erring(d, {"error"})

(* The buffer holds the first of the bytes read since the last message was *)
(* delivered or dropped, and they are good.                                *)
Exact(d) ==
  /\ Len(rx_data[d]) = Least(drained[d] - floor[d], RxBufferSize)
  /\ \A i \in 1 .. Len(rx_data[d]) : rx_data[d][i] = floor[d] + i
  /\ \A i \in 1 .. Len(line[d]) :
       floor[d] < i /\ i <= drained[d] => line[d][i].good

(* The timer's handler has read this UART, or will not deliver it.         *)
Passed(d) ==
  \/ cpu.step \in {"drain", "arm"} /\ cpu.dev > d /\ rx_ticks[d] >= 2
  \/ cpu.step = "arm" /\ cpu.dev = d
  \/ cpu.step = "scan" /\ (cpu.dev > d \/ rx_ticks[d] >= 2)
  \/ cpu.step = "restart"

(* When it does not, the UART's handler drops it before anything can be    *)
(* delivered: it runs, or runs next, or after a timer's handler that has   *)
(* just begun the idle window anew.                                        *)
ToBeDropped(d) ==
  \/ Erring(d, {"error", "error arm", "reset"})
  \/ /\ error_irq[d] /\ initialized[d]
     /\ \/ cpu = Chained \/ cpu.isr = "uart"
        \/ cpu.isr = "timer" /\ Passed(d)

BufferIsExact(d) ==
  floor[d] <= drained[d] /\ (Exact(d) \/ ToBeDropped(d))

(* The last message: its bytes are those that came after the one before,   *)
(* as far as the buffer held them, and are good.                           *)
MessageIsExact(d) ==
  /\ last[d].start <= last[d].upto /\ last[d].upto <= Len(line[d])
  /\ Len(last[d].bytes) = Least(last[d].upto - last[d].start, RxBufferSize)
  /\ \A i \in 1 .. Len(last[d].bytes) : last[d].bytes[i] = last[d].start + i
  /\ \A i \in 1 .. Len(line[d]) :
       last[d].start < i /\ i <= last[d].upto => line[d][i].good

Bytes(d) ==
  FifoIsNext(d) /\ ErrorIsNoted(d) /\ BufferIsExact(d) /\ MessageIsExact(d)

IInv == /\ TypeOK /\ Handlers /\ InUse /\ IdleTimerServes
        /\ \A d \in Devices : Bytes(d)

(* The sets of records that TypeOK names. *)
Places == [isr : {"none", "uart", "timer"}, dev : Devices,
           step : {"none", "chained", "next", "drain", "arm", "error",
                   "error arm", "reset", "scan", "restart"},
           pending : BOOLEAN]
Arrivals == [good : BOOLEAN, gap : {"close", "idle", "apart"}]
Messages == [bytes : Seq(Nat), start : Nat, upto : Nat]

-----------------------------------------------------------------------------
(* Numbers. *)

(* Least returns the lesser of two numbers. *)
LEMMA LeastIsLess ==
  ASSUME NEW a \in Int, NEW b \in Int
  PROVE  /\ Least(a, b) \in Int /\ Least(a, b) <= a /\ Least(a, b) <= b
         /\ Least(a, b) = a \/ Least(a, b) = b
BY DEF Least

(* A window is two runs of the timer at least. *)
LEMMA TwoRunsAtLeast ==
  ASSUME UartRxAssumption, NEW b \in Bauds
  PROVE  IdleTicks(b) \in Nat /\ IdleTicks(b) >= 2
<1>1. IdleUnits[b] \in Nat \ {0} /\ Period \in Nat \ {0}
  BY DEF UartRxAssumption
<1>2. \A u, p \in Nat \ {0} :
        /\ (u + p - 1) \div p \in Nat
        /\ (u + p - 1) \div p >= 1
  OBVIOUS
<1> DEFINE q == (IdleUnits[b] + Period - 1) \div Period
<1>3. q \in Nat /\ q >= 1
  BY <1>1, <1>2
<1> HIDE DEF q
<1>4. q + 1 \in Nat /\ q + 1 >= 2
  BY <1>3
<1>5. QED
  BY <1>4 DEF IdleTicks, q

(* A set of rates has a slowest. *)
LEMMA SlowestExists ==
  ASSUME UartRxAssumption, NEW B \in SUBSET Bauds, B # {}
  PROVE  \E b \in B : \A c \in B : IdleUnits[c] <= IdleUnits[b]
<1> DEFINE Has(C) == \E b \in C : \A c \in C : IdleUnits[c] <= IdleUnits[b]
           bad == {n \in Nat : \E C \in SUBSET Bauds :
                     C # {} /\ Cardinality(C) = n /\ ~ Has(C)}
<1>1. \A b \in Bauds : IdleUnits[b] \in Nat
  BY DEF UartRxAssumption
<1>2. \A C \in SUBSET Bauds : IsFiniteSet(C) /\ Cardinality(C) \in Nat
  BY FS_Subset, FS_CardinalityType DEF UartRxAssumption
<1>3. SUFFICES bad = {}
  BY <1>2
<1>4. SUFFICES ASSUME bad # {}
               PROVE  FALSE
  OBVIOUS
<1>5. PICK n \in bad : \A m \in bad : n <= m
  <2>1. bad \in SUBSET Nat
    OBVIOUS
  <2>2. QED
    BY <1>4, <2>1, NatMin
<1>6. PICK C \in SUBSET Bauds : C # {} /\ Cardinality(C) = n /\ ~ Has(C)
  BY <1>5
<1>7. PICK x \in C : TRUE
  BY <1>6
<1>8. Cardinality(C \ {x}) = n - 1 /\ n \in Nat /\ n - 1 \in Nat
  <2>1. IsFiniteSet(C) /\ Cardinality(C) = n /\ n \in Nat
    BY <1>2, <1>5, <1>6
  <2>2. Cardinality(C \ {x}) = n - 1 /\ C \ {x} \in SUBSET Bauds
    BY <1>7, <2>1, FS_RemoveElement
  <2>3. Cardinality(C \ {x}) \in Nat
    BY <1>2, <2>2
  <2>4. QED
    BY <2>1, <2>2, <2>3
<1>9. ~ (n <= n - 1)
  BY <1>8
<1>10. C \ {x} \in SUBSET Bauds
  OBVIOUS
<1>11. CASE C \ {x} = {}
  <2>1. C = {x} /\ IdleUnits[x] <= IdleUnits[x]
    BY <1>1, <1>7, <1>11
  <2>2. QED
    BY <1>6, <2>1
<1>12. CASE C \ {x} # {}
  <2>1. Has(C \ {x})
    BY <1>5, <1>8, <1>9, <1>10, <1>12
  <2>2. PICK y \in C \ {x} : \A c \in C \ {x} : IdleUnits[c] <= IdleUnits[y]
    BY <2>1
  <2>3. IdleUnits[x] \in Nat /\ IdleUnits[y] \in Nat
        /\ \A c \in C : IdleUnits[c] \in Nat
    BY <1>1
  <2>4. CASE IdleUnits[x] <= IdleUnits[y]
    <3>1. \A c \in C : IdleUnits[c] <= IdleUnits[y]
      BY <2>2, <2>4
    <3>2. QED
      BY <1>6, <3>1
  <2>5. CASE IdleUnits[y] <= IdleUnits[x]
    <3>1. \A c \in C : IdleUnits[c] <= IdleUnits[x]
      BY <2>2, <2>3, <2>5
    <3>2. QED
      BY <1>6, <3>1
  <2>6. QED
    BY <2>3, <2>4, <2>5
<1>13. QED
  BY <1>11, <1>12

(* The history of silence has a bound. *)
LEMMA SilenceIsBounded ==
  ASSUME UartRxAssumption, board \in Boards, InUse
  PROVE  MaxSince \in Nat
<1> DEFINE slowest == CHOOSE b \in board.bauds :
                        \A c \in board.bauds : IdleUnits[c] <= IdleUnits[b]
<1>1. board.bauds \in SUBSET Bauds /\ 0 \in Devices
  BY DEF UartRxAssumption, Devices
<1>2. board.bauds # {}
  BY <1>1 DEF InUse
<1>3. slowest \in board.bauds
  BY <1>1, <1>2, SlowestExists
<1> HIDE DEF slowest
<1>4. IdleUnits[slowest] \in Nat /\ Period \in Nat
  BY <1>1, <1>3 DEF UartRxAssumption
<1>5. MaxSince = 2 * Period + IdleUnits[slowest]
  BY DEF MaxSince, slowest
<1>6. QED
  BY <1>4, <1>5

(* The buffer with what fits of the FIFO behind it. *)
LEMMA StoreAppends ==
  ASSUME NEW d, NEW size \in Nat \ {0},
         rx_data[d] \in Seq(Nat), fifo[d] \in Seq(Nat),
         RxBufferSize = size
  PROVE  /\ Store(d) \in Seq(Nat)
         /\ Len(Store(d)) = Least(Len(rx_data[d]) + Len(fifo[d]), size)
         /\ \A i \in 1 .. Len(Store(d)) :
              Store(d)[i] = IF i <= Len(rx_data[d]) THEN rx_data[d][i]
                            ELSE fifo[d][i - Len(rx_data[d])]
<1> DEFINE all == rx_data[d] \o fifo[d]
           n == Len(rx_data[d])
           m == Len(fifo[d])
           k == Least(n + m, size)
<1>1. n \in Nat /\ m \in Nat
  BY LenProperties
<1>2. /\ all \in Seq(Nat) /\ Len(all) = n + m
      /\ \A i \in 1 .. n + m :
           all[i] = IF i <= n THEN rx_data[d][i] ELSE fifo[d][i - n]
  BY ConcatProperties
<1>3. Store(d) = SubSeq(all, 1, k)
  BY <1>2 DEF Store
<1> HIDE DEF all, n, m
<1>4. k \in Nat /\ k <= n + m
  BY <1>1 DEF Least
<1> HIDE DEF k
<1>5. 1 .. k \subseteq 1 .. n + m /\ \A i \in 1 .. n + m : all[i] \in Nat
  <2>1. 1 .. k \subseteq 1 .. n + m
    BY <1>1, <1>4
  <2>2. QED
    BY <1>2, <2>1, ElementOfSeq
<1>6. /\ SubSeq(all, 1, k) \in Seq(Nat)
      /\ Len(SubSeq(all, 1, k)) = IF 1 <= k THEN k - 1 + 1 ELSE 0
      /\ \A i \in 1 .. k - 1 + 1 : SubSeq(all, 1, k)[i] = all[1 + i - 1]
  BY <1>4, <1>5, SubSeqProperties
<1>7. /\ k - 1 + 1 = k /\ \A i \in 1 .. k : 1 + i - 1 = i
      /\ (IF 1 <= k THEN k ELSE 0) = k
  BY <1>4
<1>8. /\ Len(SubSeq(all, 1, k)) = k
      /\ \A i \in 1 .. k : SubSeq(all, 1, k)[i] = all[i]
  BY <1>6, <1>7
<1>9. QED
  BY <1>2, <1>3, <1>5, <1>6, <1>8 DEF n, m, k

-----------------------------------------------------------------------------
(* What a step keeps, and what a read does. *)

(* The types of the numbers and sequences at one UART. *)
LEMMA DeviceFacts ==
  ASSUME UartRxAssumption, TypeOK, NEW d \in Devices
  PROVE  /\ rx_data[d] \in Seq(Nat) /\ Len(rx_data[d]) \in Nat
         /\ fifo[d] \in Seq(Nat) /\ Len(fifo[d]) \in Nat
         /\ line[d] \in Seq(Arrivals) /\ Len(line[d]) \in Nat
         /\ drained[d] \in Nat /\ floor[d] \in Nat /\ rx_ticks[d] \in Nat
         /\ baud[d] \in Bauds /\ threshold[d] \in {1, HalfLevel}
         /\ rx_pending[d] \in BOOLEAN /\ initialized[d] \in BOOLEAN
         /\ callback[d] \in BOOLEAN /\ last[d] \in Messages
         /\ error_irq[d] \in BOOLEAN /\ rx_irq[d] \in BOOLEAN
         /\ Len(rx_data[d]) <= RxBufferSize /\ Len(fifo[d]) <= FifoDepth
         /\ RxBufferSize \in Nat \ {0} /\ FifoDepth \in Nat \ {0}
         /\ HalfLevel \in Nat \ {0} /\ Period \in Nat \ {0}
         /\ IdleTicks(baud[d]) \in Nat /\ IdleTicks(baud[d]) >= 2
<1>1. /\ rx_data[d] \in Seq(Nat) /\ fifo[d] \in Seq(Nat)
      /\ line[d] \in Seq(Arrivals) /\ last[d] \in Messages
      /\ drained[d] \in Nat /\ floor[d] \in Nat /\ rx_ticks[d] \in Nat
      /\ baud[d] \in Bauds /\ threshold[d] \in {1, HalfLevel}
      /\ rx_pending[d] \in BOOLEAN /\ initialized[d] \in BOOLEAN
      /\ callback[d] \in BOOLEAN
      /\ error_irq[d] \in BOOLEAN /\ rx_irq[d] \in BOOLEAN
      /\ Len(rx_data[d]) <= RxBufferSize /\ Len(fifo[d]) <= FifoDepth
  BY DEF TypeOK, Arrivals, Messages
<1>2. /\ RxBufferSize \in Nat \ {0} /\ FifoDepth \in Nat \ {0}
      /\ HalfLevel \in Nat \ {0} /\ Period \in Nat \ {0}
  BY DEF UartRxAssumption
<1>3. Len(rx_data[d]) \in Nat /\ Len(fifo[d]) \in Nat /\ Len(line[d]) \in Nat
  BY <1>1, LenProperties
<1>4. IdleTicks(baud[d]) \in Nat /\ IdleTicks(baud[d]) >= 2
  BY <1>1, TwoRunsAtLeast
<1>5. QED
  BY <1>1, <1>2, <1>3, <1>4

(* What does not touch the bytes of a UART keeps what is said of them. *)
LEMMA UntouchedBytes ==
  ASSUME NEW u \in Devices,
         rx_data'[u] = rx_data[u], fifo'[u] = fifo[u], line'[u] = line[u],
         drained'[u] = drained[u], floor'[u] = floor[u], last'[u] = last[u]
  PROVE  /\ FifoIsNext(u) => FifoIsNext(u)'
         /\ Clean(u) => Clean(u)'
         /\ Exact(u) => Exact(u)'
         /\ MessageIsExact(u) => MessageIsExact(u)'
         /\ floor[u] <= drained[u] => floor'[u] <= drained'[u]
BY DEF FifoIsNext, Clean, Exact, MessageIsExact

(* An empty FIFO has lost nothing. *)
LEMMA EmptyIsClean ==
  ASSUME UartRxAssumption, TypeOK, NEW u \in Devices, FifoIsNext(u),
         fifo[u] = <<>>
  PROVE  Clean(u) /\ drained[u] = Len(line[u])
<1> DEFINE n == Len(line[u])
           p == drained[u]
<1>1. n \in Nat /\ p \in Nat /\ FifoDepth \in Nat \ {0} /\ p <= n
  BY DeviceFacts DEF FifoIsNext
<1>2. Least(n - p, FifoDepth) = 0
  BY EmptySeq DEF FifoIsNext
<1> HIDE DEF n, p
<1>3. n - p = 0
  BY <1>1, <1>2 DEF Least
<1>4. n = p /\ \A i \in 1 .. n : ~ (i > p)
  BY <1>1, <1>3
<1>5. Len(fifo[u]) = 0
  BY EmptySeq
<1>6. QED
  BY <1>3, <1>4, <1>5 DEF Clean, n, p

(* Reading the FIFO to its end is reading all that has come: nothing but   *)
(* good bytes if no error is noted.                                        *)
LEMMA ReadIsExact ==
  ASSUME UartRxAssumption, TypeOK, NEW u \in Devices,
         FifoIsNext(u), Clean(u), Exact(u), floor[u] <= drained[u],
         rx_data'[u] = Store(u), drained'[u] = Len(line[u]),
         line'[u] = line[u], floor'[u] = floor[u]
  PROVE  Exact(u)'
<1> DEFINE n == Len(line[u])
           p == drained[u]
           f == floor[u]
           size == RxBufferSize
           a == Len(rx_data[u])
           b == Len(fifo[u])
           s == Store(u)
<1>1. /\ n \in Nat /\ p \in Nat /\ f \in Nat /\ size \in Nat \ {0}
      /\ a \in Nat /\ b \in Nat
      /\ f <= p /\ p <= n /\ a = Least(p - f, size) /\ n - p = b
  BY DeviceFacts DEF FifoIsNext, Clean, Exact
<1>2. /\ Len(s) = Least(a + b, size)
      /\ \A i \in 1 .. Len(s) :
           s[i] = IF i <= a THEN rx_data[u][i] ELSE fifo[u][i - a]
  BY DeviceFacts, StoreAppends
<1>3. /\ \A i \in 1 .. a : rx_data[u][i] = f + i
      /\ \A i \in 1 .. b : fifo[u][i] = p + i
  BY DEF Exact, FifoIsNext
<1>4. /\ \A i \in 1 .. n : f < i /\ i <= p => line[u][i].good
      /\ \A i \in 1 .. n : i > p => line[u][i].good
  BY DEF Exact, Clean
<1> HIDE DEF n, p, f, size, a, b, s
<1>5. Len(s) = Least(n - f, size)
  BY <1>1, <1>2 DEF Least
<1>6. ASSUME NEW i \in 1 .. Len(s)
      PROVE  s[i] = f + i
  <2>1. /\ i \in Nat \ {0} /\ i <= size /\ i <= n - f
    BY <1>1, <1>5 DEF Least
  <2>2. CASE i <= a
    <3>1. i \in 1 .. a
      BY <2>1, <2>2, <1>1
    <3>2. QED
      BY <1>2, <1>3, <2>2, <3>1
  <2>3. CASE ~ (i <= a)
    <3>1. a = p - f /\ i - a \in 1 .. b /\ p + (i - a) = f + i
      BY <1>1, <2>1, <2>3 DEF Least
    <3>2. QED
      BY <1>2, <1>3, <2>3, <3>1
  <2>4. QED
    BY <2>2, <2>3
<1>7. \A i \in 1 .. n : f < i /\ i <= n => line[u][i].good
  BY <1>1, <1>4
<1>8. QED
  BY <1>5, <1>6, <1>7 DEF Exact, n, p, f, size, a, b, s

(* A message that ends leaves an empty buffer. *)
LEMMA EmptiedIsExact ==
  ASSUME UartRxAssumption, NEW u \in Devices, rx_data'[u] = <<>>,
         floor'[u] = drained'[u], drained'[u] \in Nat
  PROVE  Exact(u)' /\ floor'[u] <= drained'[u]
<1>1. Len(rx_data'[u]) = 0 /\ 1 .. 0 = {}
  BY EmptySeq
<1>2. RxBufferSize \in Nat \ {0}
  BY DEF UartRxAssumption
<1>3. Least(drained'[u] - floor'[u], RxBufferSize) = 0
  BY <1>2 DEF Least
<1>4. \A i \in 1 .. Len(line'[u]) : ~ (floor'[u] < i /\ i <= drained'[u])
  OBVIOUS
<1>5. QED
  BY <1>1, <1>3, <1>4 DEF Exact

(* What is stored fits, and is something if there was something. *)
LEMMA StoreIsFit ==
  ASSUME UartRxAssumption, TypeOK, NEW d \in Devices
  PROVE  /\ Store(d) \in Seq(Nat) /\ Len(Store(d)) <= RxBufferSize
         /\ rx_data[d] # <<>> \/ fifo[d] # <<>> => Store(d) # <<>>
         /\ Len(line[d]) \in Nat
<1> DEFINE a == Len(rx_data[d])
           b == Len(fifo[d])
           size == RxBufferSize
<1>1. /\ rx_data[d] \in Seq(Nat) /\ fifo[d] \in Seq(Nat)
      /\ a \in Nat /\ b \in Nat /\ size \in Nat \ {0} /\ Len(line[d]) \in Nat
  BY DeviceFacts
<1>2. Store(d) \in Seq(Nat) /\ Len(Store(d)) = Least(a + b, size)
  BY <1>1, StoreAppends
<1>3. rx_data[d] # <<>> \/ fifo[d] # <<>> => a # 0 \/ b # 0
  BY <1>1, EmptySeq
<1> HIDE DEF a, b, size
<1>4. /\ Least(a + b, size) <= size
      /\ a # 0 \/ b # 0 => Least(a + b, size) # 0
  BY <1>1 DEF Least
<1>5. Len(<<>>) = 0
  BY EmptySeq
<1>6. QED
  BY <1>1, <1>2, <1>3, <1>4, <1>5 DEF size

(* After a read the FIFO is empty, and nothing is missing. *)
LEMMA ReadFifo ==
  ASSUME UartRxAssumption, TypeOK, NEW u \in Devices,
         fifo'[u] = <<>>, line'[u] = line[u], last'[u] = last[u],
         drained'[u] = Len(line[u]), MessageIsExact(u)
  PROVE  FifoIsNext(u)' /\ Clean(u)' /\ MessageIsExact(u)'
<1> DEFINE n == Len(line[u])
<1>1. n \in Nat /\ FifoDepth \in Nat \ {0}
  BY DeviceFacts
<1>2. Len(fifo'[u]) = 0 /\ 1 .. 0 = {}
  BY EmptySeq
<1>3. MessageIsExact(u)'
  BY DEF MessageIsExact
<1>4. /\ drained'[u] = n /\ line'[u] = line[u] /\ Len(line'[u]) = n
      /\ fifo'[u] = <<>>
  OBVIOUS
<1> HIDE DEF n
<1>5. /\ Least(n - n, FifoDepth) = 0 /\ n - n = 0 /\ n <= n
      /\ \A i \in 1 .. n : ~ (i > n)
  BY <1>1 DEF Least
<1>6. QED
  BY <1>2, <1>3, <1>4, <1>5 DEF FifoIsNext, Clean

(* No handler, and the next to come. *)
LEMMA NoHandler ==
  ASSUME UartRxAssumption
  PROVE  /\ 0 \in Devices /\ AtTask \in Places /\ Chained \in Places
         /\ AtTask.isr = "none" /\ Chained.isr = "none"
         /\ AtTask.step = "none" /\ Chained.step = "chained"
         /\ AtTask.dev = 0 /\ Chained.dev = 0 /\ AtTask # Chained
<1>1. 0 \in Devices
  BY DEF Devices, UartRxAssumption
<1>2. AtTask \in Places
  BY <1>1 DEF AtTask, Places
<1>3. /\ AtTask.isr = "none" /\ AtTask.step = "none" /\ AtTask.dev = 0
      /\ Chained.isr = "none" /\ Chained.step = "chained" /\ Chained.dev = 0
  BY DEF AtTask, Chained
<1>4. Chained \in Places
  BY <1>2 DEF Chained, Places
<1>5. QED
  BY <1>1, <1>2, <1>3, <1>4

(* A handler that runs has a place, and the timer's interrupt is taken. *)
LEMMA RunningHandler ==
  ASSUME UartRxAssumption, TypeOK, Handlers
  PROVE  cpu \in Places /\ (cpu.isr # "none" => ~ timer_irq)
<1>1. cpu \in Places
  BY DEF TypeOK, Places
<1>2. timer_irq => cpu.isr = "none"
  BY NoHandler DEF Handlers
<1>3. QED
  BY <1>1, <1>2

(* Arming gives the UART a window and makes the timer run. *)
LEMMA ArmServes ==
  ASSUME UartRxAssumption, IInv, NEW d \in Devices, Arm(d),
         initialized[d], rx_data[d] # <<>>, ~ timer_irq, cpu' \in Places,
         UNCHANGED <<board, initialized, callback, baud, rx_data,
                     uart_idle_timer_ready, fifo, error_irq, since, line,
                     floor, drained, last>>
  PROVE  /\ TypeOK' /\ InUse' /\ IdleTimerServes' /\ ~ timer_irq'
         /\ rx_ticks'[d] >= 2
         /\ \A u \in Devices \ {d} : rx_ticks'[u] = rx_ticks[u]
<1> USE DEF IInv
<1>1. /\ rx_pending \in [Devices -> BOOLEAN] /\ rx_ticks \in [Devices -> Nat]
      /\ threshold \in [Devices -> {1, HalfLevel}]
      /\ rx_irq \in [Devices -> BOOLEAN] /\ timer \in 0 .. Period
      /\ uart_idle_timer_running \in BOOLEAN
      /\ Period \in Nat \ {0} /\ HalfLevel \in Nat \ {0}
  BY DeviceFacts DEF TypeOK
<1>2. IdleTicks(baud[d]) \in Nat /\ IdleTicks(baud[d]) >= 2
  BY DeviceFacts
<1>3. /\ rx_pending' = [rx_pending EXCEPT ![d] = TRUE]
      /\ rx_ticks' = [rx_ticks EXCEPT ![d] = IdleTicks(baud[d])]
  BY DEF Arm
<1>4. /\ threshold' \in [Devices -> {1, HalfLevel}]
      /\ rx_irq' \in [Devices -> BOOLEAN]
      /\ \A u \in Devices \ {d} : threshold'[u] = threshold[u]
      /\ rx_pending[d] => threshold'[d] = threshold[d]
      /\ ~ rx_pending[d] => threshold'[d] = HalfLevel
  <2>1. CASE rx_pending[d]
    BY <1>1, <2>1 DEF Arm
  <2>2. CASE ~ rx_pending[d]
    <3>1. /\ threshold' = [threshold EXCEPT ![d] = HalfLevel]
          /\ rx_irq' = [rx_irq EXCEPT ![d] =
                          @ \/ (board.level /\ Len(fifo[d]) >= HalfLevel)]
      BY <2>2 DEF Arm, SetThreshold
    <3>2. QED
      BY <1>1, <2>2, <3>1
  <2>3. QED
    BY <2>1, <2>2
<1>5. /\ uart_idle_timer_running' /\ ~ timer_irq' /\ timer' \in 0 .. Period
      /\ timer' > 0 /\ uart_idle_timer_running' \in BOOLEAN
      /\ timer_irq' \in BOOLEAN
  <2>1. StartTimer
    BY DEF Arm
  <2>2. CASE uart_idle_timer_running
    <3>1. UNCHANGED <<uart_idle_timer_running, timer, timer_irq>>
      BY <2>1, <2>2 DEF StartTimer
    <3>2. timer > 0
      BY <2>2 DEF IdleTimerServes, TimerFlagIsTrue
    <3>3. uart_idle_timer_running \in BOOLEAN /\ timer_irq \in BOOLEAN
      BY DEF TypeOK
    <3>4. QED
      BY <1>1, <2>2, <3>1, <3>2, <3>3
  <2>3. CASE ~ uart_idle_timer_running
    <3>1. uart_idle_timer_running' = TRUE /\ timer_irq' = FALSE
      BY <2>1, <2>3 DEF StartTimer
    <3>2. timer' = Period
      BY <2>1, <2>3 DEF StartTimer
    <3>3. timer' \in 0 .. Period /\ timer' > 0
      BY <1>1, <3>2
    <3>4. QED
      BY <3>1, <3>3
  <2>4. QED
    BY <2>2, <2>3
<1>6. /\ rx_pending' \in [Devices -> BOOLEAN]
      /\ rx_ticks' \in [Devices -> Nat]
      /\ rx_pending'[d] /\ rx_ticks'[d] = IdleTicks(baud[d])
      /\ \A u \in Devices \ {d} : /\ rx_pending'[u] = rx_pending[u]
                                  /\ rx_ticks'[u] = rx_ticks[u]
  BY <1>1, <1>2, <1>3
<1>7. TypeOK'
  BY <1>4, <1>5, <1>6 DEF TypeOK, MaxSince, Places
<1>8. InUse'
  <2>1. \A u \in Devices : rx_pending'[u] => initialized'[u]
    BY <1>6 DEF InUse
  <2>2. QED
    BY <2>1 DEF InUse
<1>9. TimerFlagIsTrue' /\ PendingHasTimer'
  BY <1>5 DEF TimerFlagIsTrue, PendingHasTimer
<1>10. ThresholdFollowsPending'
  <2> SUFFICES ASSUME NEW u \in Devices
               PROVE  /\ rx_pending'[u] => /\ threshold'[u] = HalfLevel
                                           /\ rx_data'[u] # <<>>
                      /\ threshold'[u] = HalfLevel =>
                           rx_pending'[u] \/ HalfLevel = 1
                      /\ rx_ticks'[u] > 0 <=> rx_pending'[u]
    BY DEF ThresholdFollowsPending
  <2>1. /\ rx_pending[u] => threshold[u] = HalfLevel /\ rx_data[u] # <<>>
        /\ threshold[u] = HalfLevel => rx_pending[u] \/ HalfLevel = 1
        /\ rx_ticks[u] > 0 <=> rx_pending[u]
    BY DEF IdleTimerServes, ThresholdFollowsPending
  <2>2. CASE u = d
    <3>1. rx_ticks'[d] > 0
      BY <1>2, <1>6
    <3>2. QED
      BY <1>4, <1>6, <2>1, <2>2, <3>1
  <2>3. CASE u # d
    BY <1>4, <1>6, <2>1, <2>3
  <2>4. QED
    BY <2>2, <2>3
<1>11. QED
  BY <1>2, <1>5, <1>6, <1>7, <1>8, <1>9, <1>10 DEF IdleTimerServes

(* The end of a message resets its UART, and leaves the timer alone. *)
LEMMA EndServes ==
  ASSUME UartRxAssumption, IInv, NEW d \in Devices, NEW f,
         EndReception(d, f),
         UNCHANGED <<board, uart_idle_timer_running, timer, timer_irq>>
  PROVE  /\ rx_data' \in [Devices -> Seq(Nat)] /\ rx_data'[d] = <<>>
         /\ \A u \in Devices : Len(rx_data'[u]) <= RxBufferSize
         /\ \A u \in Devices \ {d} : /\ rx_data'[u] = rx_data[u]
                                     /\ rx_ticks'[u] = rx_ticks[u]
         /\ rx_ticks' \in [Devices -> Nat]
         /\ rx_pending' \in [Devices -> BOOLEAN]
         /\ threshold' \in [Devices -> {1, HalfLevel}]
         /\ rx_irq' \in [Devices -> BOOLEAN]
         /\ \A u \in Devices : rx_pending'[u] => rx_pending[u] /\ u # d
         /\ TimerFlagIsTrue' /\ ThresholdFollowsPending'
<1> USE DEF IInv
<1>1. /\ rx_pending \in [Devices -> BOOLEAN] /\ rx_ticks \in [Devices -> Nat]
      /\ threshold \in [Devices -> {1, HalfLevel}]
      /\ rx_irq \in [Devices -> BOOLEAN] /\ rx_data \in [Devices -> Seq(Nat)]
      /\ \A u \in Devices : Len(rx_data[u]) <= RxBufferSize
  BY DEF TypeOK
<1>2. /\ rx_data' = [rx_data EXCEPT ![d] = <<>>]
      /\ rx_ticks' = [rx_ticks EXCEPT ![d] = 0]
      /\ rx_pending' = [rx_pending EXCEPT ![d] = FALSE]
      /\ threshold' = [threshold EXCEPT ![d] = 1]
      /\ rx_irq' = [rx_irq EXCEPT ![d] = @ \/ (board.level /\ Len(f) >= 1)]
  BY DEF EndReception, SetThreshold
<1>3. <<>> \in Seq(Nat) /\ Len(<<>>) = 0 /\ 0 <= RxBufferSize
  BY EmptySeq DEF UartRxAssumption
<1>4. /\ rx_data' \in [Devices -> Seq(Nat)] /\ rx_ticks' \in [Devices -> Nat]
      /\ rx_pending' \in [Devices -> BOOLEAN]
      /\ threshold' \in [Devices -> {1, HalfLevel}]
      /\ rx_data'[d] = <<>> /\ rx_ticks'[d] = 0 /\ ~ rx_pending'[d]
      /\ threshold'[d] = 1
      /\ \A u \in Devices \ {d} : /\ rx_data'[u] = rx_data[u]
                                  /\ rx_ticks'[u] = rx_ticks[u]
                                  /\ rx_pending'[u] = rx_pending[u]
                                  /\ threshold'[u] = threshold[u]
  BY <1>1, <1>2, <1>3
<1>5. rx_irq' \in [Devices -> BOOLEAN]
  BY <1>1, <1>2
<1>6. \A u \in Devices : Len(rx_data'[u]) <= RxBufferSize
  BY <1>1, <1>3, <1>4
<1>7. TimerFlagIsTrue'
  BY DEF IdleTimerServes, TimerFlagIsTrue
<1>8. ThresholdFollowsPending'
  <2>1. \A u \in Devices \ {d} :
          /\ rx_pending[u] => threshold[u] = HalfLevel /\ rx_data[u] # <<>>
          /\ threshold[u] = HalfLevel => rx_pending[u] \/ HalfLevel = 1
          /\ rx_ticks[u] > 0 <=> rx_pending[u]
    BY DEF IdleTimerServes, ThresholdFollowsPending
  <2>2. \A u \in Devices \ {d} :
          /\ rx_pending'[u] => threshold'[u] = HalfLevel /\ rx_data'[u] # <<>>
          /\ threshold'[u] = HalfLevel => rx_pending'[u] \/ HalfLevel = 1
          /\ rx_ticks'[u] > 0 <=> rx_pending'[u]
    BY <1>4, <2>1
  <2>3. ~ (rx_ticks'[d] > 0) /\ (threshold'[d] = HalfLevel => HalfLevel = 1)
    BY <1>4
  <2>4. QED
    BY <1>4, <2>2, <2>3 DEF ThresholdFollowsPending
<1>9. \A u \in Devices : rx_pending'[u] => rx_pending[u] /\ u # d
  BY <1>4
<1>10. QED
  BY <1>4, <1>5, <1>6, <1>7, <1>8, <1>9

-----------------------------------------------------------------------------
(* The steps of a UART's handler. *)

(* An interrupt is taken: whatever waits to be dropped is next. *)
LEMMA UartEnterStep ==
  ASSUME UartRxAssumption, IInv, NEW d \in Devices, UartEnter(d),
         UNCHANGED board
  PROVE  IInv'
<1> USE DEF IInv
<1>1. /\ cpu.isr = "none" /\ initialized[d] /\ ~ timer_irq
      /\ cpu' = [isr |-> "uart", dev |-> d, step |-> "next",
                 pending |-> FALSE]
      /\ UNCHANGED <<initialized, callback, baud, rx_data, rx_ticks,
                     rx_pending, uart_idle_timer_ready,
                     uart_idle_timer_running, threshold, fifo, rx_irq,
                     error_irq, timer, timer_irq, since, line, floor,
                     drained, last>>
  BY DEF UartEnter, UartPending, swVars, hwVars, histVars
<1>2. TypeOK'
  BY <1>1 DEF TypeOK, MaxSince
<1>3. Handlers'
  BY <1>1 DEF Handlers, AtTask, Chained
<1>4. InUse'
  BY <1>1 DEF InUse
<1>5. IdleTimerServes'
  BY <1>1 DEF IdleTimerServes, TimerFlagIsTrue, PendingHasTimer,
              ThresholdFollowsPending
<1>6. ASSUME NEW u \in Devices
      PROVE  Bytes(u)'
  <2>1. cpu = AtTask \/ cpu = Chained
    BY <1>1 DEF Handlers
  <2>2. ToBeDropped(u) => error_irq[u] /\ initialized[u]
    BY <1>1 DEF ToBeDropped, Erring
  <2>3. ToBeDropped(u) => ToBeDropped(u)'
    BY <1>1, <2>2 DEF ToBeDropped
  <2>4. ErrorIsNoted(u) => ErrorIsNoted(u)'
    BY <1>1, UntouchedBytes DEF ErrorIsNoted, Erring
  <2>5. QED
    BY <1>1, <2>3, <2>4, UntouchedBytes DEF Bytes, BufferIsExact
<1>7. QED
  BY <1>2, <1>3, <1>4, <1>5, <1>6

(* The next of its interrupts, or the end of the handler, after which it   *)
(* runs again at once if an error has been noted.                          *)
LEMMA UartNextStep ==
  ASSUME UartRxAssumption, IInv, NEW d \in Devices, UartNext(d),
         UNCHANGED board
  PROVE  IInv'
<1> USE DEF IInv
<1>1. /\ cpu.isr = "uart" /\ cpu.dev = d /\ cpu.step = "next"
      /\ UNCHANGED <<initialized, callback, baud, rx_data, rx_ticks,
                     rx_pending, uart_idle_timer_ready,
                     uart_idle_timer_running, threshold, fifo, timer,
                     timer_irq, since, line, floor, drained, last>>
      /\ \/ /\ error_irq[d] /\ error_irq' = [error_irq EXCEPT ![d] = FALSE]
            /\ cpu' = [cpu EXCEPT !.step = "error"] /\ rx_irq' = rx_irq
         \/ /\ rx_irq' = [rx_irq EXCEPT ![d] = FALSE]
            /\ cpu' = [cpu EXCEPT !.step = "drain"]
            /\ error_irq' = error_irq
         \/ /\ ~ error_irq[d] /\ UNCHANGED <<rx_irq, error_irq>>
            /\ cpu' = IF IrqPending THEN Chained ELSE AtTask
  BY DEF UartNext, Return, swVars, histVars
<1>2. /\ cpu \in Places /\ ~ timer_irq
      /\ initialized \in [Devices -> BOOLEAN]
      /\ rx_irq \in [Devices -> BOOLEAN] /\ error_irq \in [Devices -> BOOLEAN]
  BY <1>1, RunningHandler DEF TypeOK
<1>3. /\ AtTask \in Places /\ Chained \in Places
      /\ AtTask.isr = "none" /\ Chained.isr = "none"
      /\ AtTask.step = "none" /\ Chained.step = "chained"
  BY NoHandler
<1>4. /\ cpu' \in Places
      /\ \/ /\ cpu'.isr = "uart" /\ cpu'.dev = d /\ cpu'.step = "error"
            /\ error_irq' = [error_irq EXCEPT ![d] = FALSE]
         \/ /\ cpu'.isr = "uart" /\ cpu'.dev = d /\ cpu'.step = "drain"
            /\ error_irq' = error_irq
         \/ /\ cpu'.isr = "none" /\ error_irq' = error_irq /\ ~ error_irq[d]
            /\ cpu' = IF IrqPending THEN Chained ELSE AtTask
      /\ rx_irq' \in [Devices -> BOOLEAN]
      /\ error_irq' \in [Devices -> BOOLEAN]
  BY <1>1, <1>2, <1>3 DEF Places
<1>5. TypeOK'
  BY <1>1, <1>4 DEF TypeOK, MaxSince, Places
<1>6. Handlers'
  BY <1>1, <1>2, <1>3, <1>4 DEF Handlers
<1>7. InUse'
  BY <1>1 DEF InUse
<1>8. IdleTimerServes'
  BY <1>1 DEF IdleTimerServes, TimerFlagIsTrue, PendingHasTimer,
              ThresholdFollowsPending
<1>9. ASSUME NEW u \in Devices
      PROVE  Bytes(u)'
  <2>1. ToBeDropped(u) => error_irq[u] /\ initialized[u]
    BY <1>1 DEF ToBeDropped, Erring
  <2>2. ToBeDropped(u) => ToBeDropped(u)'
    <3> SUFFICES ASSUME error_irq[u], initialized[u]
                 PROVE  ToBeDropped(u)'
      BY <2>1
    <3>1. CASE u = d
      <4>1. initialized'[d]
        BY <1>1, <3>1
      <4>2. CASE cpu'.step = "error"
        BY <1>4, <3>1, <4>2 DEF ToBeDropped, Erring
      <4>3. CASE cpu'.step # "error"
        <5>1. error_irq'[d] /\ cpu'.isr = "uart"
          BY <1>4, <3>1, <4>3
        <5>2. QED
          BY <3>1, <4>1, <5>1 DEF ToBeDropped
      <4>4. QED
        BY <4>2, <4>3
    <3>2. CASE u # d
      <4>1. error_irq'[u] /\ initialized'[u] /\ IrqPending
        BY <1>1, <1>2, <3>2 DEF IrqPending, UartPending
      <4>2. QED
        BY <1>4, <4>1 DEF ToBeDropped
    <3>3. QED
      BY <3>1, <3>2
  <2>3. ErrorIsNoted(u) => ErrorIsNoted(u)'
    <3> SUFFICES ASSUME Clean(u) \/ error_irq[u]
                 PROVE  ErrorIsNoted(u)'
      BY <1>1 DEF ErrorIsNoted, Erring
    <3>1. CASE Clean(u)
      BY <1>1, <3>1, UntouchedBytes DEF ErrorIsNoted
    <3>2. CASE error_irq[u]
      BY <1>2, <1>4, <3>2 DEF ErrorIsNoted, Erring
    <3>3. QED
      BY <3>1, <3>2
  <2>4. QED
    BY <1>1, <2>2, <2>3, UntouchedBytes DEF Bytes, BufferIsExact
<1>10. QED
  BY <1>5, <1>6, <1>7, <1>8, <1>9

(* What came is read: without an error it is good, with one noted the      *)
(* buffer is to be dropped.                                                *)
LEMMA UartReadStep ==
  ASSUME UartRxAssumption, IInv, NEW d \in Devices, UartRead(d),
         UNCHANGED board
  PROVE  IInv'
<1> USE DEF IInv
<1>1. /\ cpu.isr = "uart" /\ cpu.dev = d /\ cpu.step \in {"drain", "error"}
      /\ rx_data' = [rx_data EXCEPT ![d] = Store(d)]
      /\ fifo' = [fifo EXCEPT ![d] = <<>>]
      /\ drained' = [drained EXCEPT ![d] = Len(line[d])]
      /\ cpu' = [cpu EXCEPT !.step =
                   IF @ = "drain"
                   THEN IF fifo[d] # <<>> THEN "arm" ELSE "next"
                   ELSE IF fifo[d] # <<>> THEN "error arm" ELSE "reset"]
      /\ UNCHANGED <<initialized, callback, baud, rx_ticks, rx_pending,
                     uart_idle_timer_ready, uart_idle_timer_running,
                     threshold, rx_irq, error_irq, timer, timer_irq, since,
                     line, floor, last>>
  BY DEF UartRead, Read, MarkDrained
<1>2. /\ cpu \in Places /\ ~ timer_irq /\ initialized[d]
      /\ rx_data \in [Devices -> Seq(Nat)] /\ fifo \in [Devices -> Seq(Nat)]
      /\ drained \in [Devices -> Nat]
  BY <1>1, RunningHandler DEF TypeOK, Handlers
<1>3. /\ cpu' \in Places /\ cpu'.isr = "uart" /\ cpu'.dev = d
      /\ \/ cpu.step = "drain" /\ cpu'.step \in {"arm", "next"}
         \/ cpu.step = "error" /\ cpu'.step \in {"error arm", "reset"}
      /\ cpu'.step \in {"arm", "error arm"} => fifo[d] # <<>>
  BY <1>1, <1>2 DEF Places
<1>4. /\ rx_data'[d] = Store(d) /\ fifo'[d] = <<>>
      /\ drained'[d] = Len(line[d])
      /\ \A u \in Devices \ {d} : /\ rx_data'[u] = rx_data[u]
                                  /\ fifo'[u] = fifo[u]
                                  /\ drained'[u] = drained[u]
  BY <1>1, <1>2
<1>5. /\ Store(d) \in Seq(Nat) /\ Len(Store(d)) <= RxBufferSize
      /\ rx_data[d] # <<>> \/ fifo[d] # <<>> => Store(d) # <<>>
      /\ Len(line[d]) \in Nat
  BY StoreIsFit
<1>6. TypeOK'
  <2>1. /\ rx_data' \in [Devices -> Seq(Nat)]
        /\ fifo' \in [Devices -> Seq(Nat)]
        /\ drained' \in [Devices -> Nat]
    BY <1>1, <1>2, <1>5, EmptySeq
  <2>2. \A u \in Devices : /\ Len(rx_data'[u]) <= RxBufferSize
                           /\ Len(fifo'[u]) <= FifoDepth
    <3>1. Len(fifo'[d]) = 0 /\ 0 <= FifoDepth
      BY <1>4, EmptySeq DEF UartRxAssumption
    <3>2. QED
      BY <1>4, <1>5, <3>1 DEF TypeOK
  <2>3. UNCHANGED <<board, initialized, callback, baud, rx_ticks, rx_pending,
                    uart_idle_timer_ready, uart_idle_timer_running, threshold,
                    rx_irq, error_irq, timer, timer_irq, since, line, floor,
                    last>>
    BY <1>1
  <2>4. cpu' \in Places
    BY <1>3
  <2>5. QED
    BY <2>1, <2>2, <2>3, <2>4 DEF TypeOK, MaxSince, Places
<1>7. Handlers'
  BY <1>1, <1>2, <1>3, <1>4, <1>5 DEF Handlers
<1>8. InUse'
  BY <1>1 DEF InUse
<1>9. IdleTimerServes'
  <2>1. \A u \in Devices : rx_data[u] # <<>> => rx_data'[u] # <<>>
    BY <1>4, <1>5
  <2>2. QED
    BY <1>1, <2>1 DEF IdleTimerServes, TimerFlagIsTrue, PendingHasTimer,
                      ThresholdFollowsPending
<1>10. ASSUME NEW u \in Devices
       PROVE  Bytes(u)'
  <2>1. CASE u = d
    <3>1. FifoIsNext(d)' /\ Clean(d)' /\ MessageIsExact(d)'
      BY <1>1, <1>4, ReadFifo DEF Bytes
    <3>2. floor'[d] <= drained'[d]
      <4>1. /\ floor[d] \in Nat /\ drained[d] \in Nat
            /\ Len(line[d]) \in Nat
            /\ floor[d] <= drained[d] /\ drained[d] <= Len(line[d])
        BY DeviceFacts DEF Bytes, FifoIsNext, BufferIsExact
      <4>2. floor'[d] = floor[d] /\ drained'[d] = Len(line[d])
        BY <1>1, <1>4
      <4>3. QED
        BY <4>1, <4>2
    <3>3. CASE cpu.step = "error"
      <4>1. ToBeDropped(d)'
        BY <1>3, <3>3 DEF ToBeDropped, Erring
      <4>2. QED
        BY <2>1, <3>1, <3>2, <4>1 DEF Bytes, BufferIsExact, ErrorIsNoted
    <3>4. CASE cpu.step = "drain"
      <4>1. CASE error_irq[d]
        <5>1. ToBeDropped(d)'
          BY <1>1, <1>2, <1>3, <4>1 DEF ToBeDropped
        <5>2. QED
          BY <2>1, <3>1, <3>2, <5>1 DEF Bytes, BufferIsExact, ErrorIsNoted
      <4>2. CASE ~ error_irq[d]
        <5>1. Clean(d) /\ Exact(d)
          BY <1>1, <3>4, <4>2
             DEF Bytes, ErrorIsNoted, BufferIsExact, ToBeDropped, Erring
        <5>2. Exact(d)'
          BY <1>1, <1>4, <5>1, ReadIsExact DEF Bytes, BufferIsExact
        <5>3. QED
          BY <2>1, <3>1, <3>2, <5>2 DEF Bytes, BufferIsExact, ErrorIsNoted
      <4>3. QED
        BY <4>1, <4>2
    <3>5. QED
      BY <1>3, <3>3, <3>4
  <2>2. CASE u # d
    <3>1. ToBeDropped(u) => ToBeDropped(u)'
      BY <1>1, <1>3, <2>2 DEF ToBeDropped, Erring
    <3>2. ErrorIsNoted(u) => ErrorIsNoted(u)'
      BY <1>1, <1>4, <2>2, UntouchedBytes DEF ErrorIsNoted, Erring
    <3>3. QED
      BY <1>1, <1>4, <2>2, <3>1, <3>2, UntouchedBytes
         DEF Bytes, BufferIsExact
  <2>3. QED
    BY <2>1, <2>2
<1>11. QED
  BY <1>6, <1>7, <1>8, <1>9, <1>10

(* The window begins anew. *)
LEMMA UartArmStep ==
  ASSUME UartRxAssumption, IInv, NEW d \in Devices, UartArm(d),
         UNCHANGED board
  PROVE  IInv'
<1> USE DEF IInv
<1>1. /\ cpu.isr = "uart" /\ cpu.dev = d
      /\ cpu.step \in {"arm", "error arm"} /\ Arm(d)
      /\ cpu' = [cpu EXCEPT !.step = IF @ = "arm" THEN "next" ELSE "reset"]
      /\ UNCHANGED <<board, initialized, callback, baud, rx_data,
                     uart_idle_timer_ready, fifo, error_irq, since, line,
                     floor, drained, last>>
  BY DEF UartArm, histVars
<1>2. /\ cpu \in Places /\ ~ timer_irq /\ initialized[d]
      /\ rx_data[d] # <<>>
  BY <1>1, RunningHandler DEF Handlers
<1>3. /\ cpu' \in Places /\ cpu'.isr = "uart" /\ cpu'.dev = d
      /\ \/ cpu.step = "arm" /\ cpu'.step = "next"
         \/ cpu.step = "error arm" /\ cpu'.step = "reset"
  BY <1>1, <1>2 DEF Places
<1>4. TypeOK' /\ InUse' /\ IdleTimerServes' /\ ~ timer_irq'
  BY <1>1, <1>2, <1>3, ArmServes
<1>5. Handlers'
  BY <1>1, <1>2, <1>3, <1>4 DEF Handlers
<1>6. ASSUME NEW u \in Devices
      PROVE  Bytes(u)'
  <2>1. ToBeDropped(u) => ToBeDropped(u)'
    BY <1>1, <1>3 DEF ToBeDropped, Erring
  <2>2. ErrorIsNoted(u) => ErrorIsNoted(u)'
    BY <1>1, UntouchedBytes DEF ErrorIsNoted, Erring
  <2>3. QED
    BY <1>1, <2>1, <2>2, UntouchedBytes DEF Bytes, BufferIsExact
<1>7. QED
  BY <1>4, <1>5, <1>6

(* What was received is dropped. *)
LEMMA UartResetStep ==
  ASSUME UartRxAssumption, IInv, NEW d \in Devices, UartReset(d),
         UNCHANGED board
  PROVE  IInv'
<1> USE DEF IInv
<1>1. /\ cpu.isr = "uart" /\ cpu.dev = d /\ cpu.step = "reset"
      /\ EndReception(d, fifo[d])
      /\ floor' = [floor EXCEPT ![d] = drained[d]]
      /\ cpu' = [cpu EXCEPT !.step = "next"]
      /\ UNCHANGED <<board, initialized, callback, baud,
                     uart_idle_timer_ready, uart_idle_timer_running, fifo,
                     error_irq, timer, timer_irq, since, line, drained, last>>
  BY DEF UartReset
<1>2. /\ cpu \in Places /\ ~ timer_irq /\ initialized[d]
      /\ floor \in [Devices -> Nat] /\ drained[d] \in Nat
  BY <1>1, RunningHandler, DeviceFacts DEF Handlers, TypeOK
<1>3. /\ cpu' \in Places /\ cpu'.isr = "uart" /\ cpu'.dev = d
      /\ cpu'.step = "next"
  BY <1>1, <1>2 DEF Places
<1>4. /\ floor' \in [Devices -> Nat] /\ floor'[d] = drained'[d]
      /\ \A u \in Devices \ {d} : floor'[u] = floor[u]
  BY <1>1, <1>2
<1>5. /\ rx_data' \in [Devices -> Seq(Nat)] /\ rx_data'[d] = <<>>
      /\ \A u \in Devices : Len(rx_data'[u]) <= RxBufferSize
      /\ \A u \in Devices \ {d} : rx_data'[u] = rx_data[u]
      /\ rx_ticks' \in [Devices -> Nat]
      /\ rx_pending' \in [Devices -> BOOLEAN]
      /\ threshold' \in [Devices -> {1, HalfLevel}]
      /\ rx_irq' \in [Devices -> BOOLEAN]
      /\ \A u \in Devices : rx_pending'[u] => rx_pending[u] /\ u # d
      /\ TimerFlagIsTrue' /\ ThresholdFollowsPending'
  BY <1>1, EndServes
<1>6. TypeOK'
  <2>1. UNCHANGED <<board, initialized, callback, baud, fifo, error_irq,
                    uart_idle_timer_ready, uart_idle_timer_running, timer,
                    timer_irq, since, line, drained, last>>
    BY <1>1
  <2>2. /\ cpu' \in Places /\ floor' \in [Devices -> Nat]
    BY <1>3, <1>4
  <2>3. QED
    BY <1>5, <2>1, <2>2 DEF TypeOK, MaxSince, Places
<1>7. Handlers'
  BY <1>1, <1>2, <1>3 DEF Handlers
<1>8. InUse'
  BY <1>1, <1>5 DEF InUse
<1>9. PendingHasTimer'
  <2>1. \A u \in Devices : rx_pending[u] => uart_idle_timer_running
    BY <1>1 DEF IdleTimerServes, PendingHasTimer
  <2>2. QED
    BY <1>1, <1>5, <2>1 DEF PendingHasTimer
<1>10. ASSUME NEW u \in Devices
       PROVE  Bytes(u)'
  <2>1. ErrorIsNoted(u)'
    <3>1. Clean(u) \/ error_irq[u]
      BY <1>1 DEF Bytes, ErrorIsNoted, Erring
    <3>2. Clean(u) => Clean(u)'
      BY <1>1 DEF Clean
    <3>3. QED
      BY <1>1, <3>1, <3>2 DEF ErrorIsNoted
  <2>2. FifoIsNext(u)' /\ MessageIsExact(u)'
    BY <1>1 DEF Bytes, FifoIsNext, MessageIsExact
  <2>3. CASE u = d
    <3>1. drained'[u] \in Nat
      BY <1>1, <1>2, <2>3
    <3>2. Exact(u)' /\ floor'[u] <= drained'[u]
      BY <1>4, <1>5, <2>3, <3>1, EmptiedIsExact
    <3>3. QED
      BY <2>1, <2>2, <3>2 DEF Bytes, BufferIsExact
  <2>4. CASE u # d
    <3>1. ToBeDropped(u) => ToBeDropped(u)'
      BY <1>1, <1>3, <2>4 DEF ToBeDropped, Erring
    <3>2. QED
      BY <1>1, <1>4, <1>5, <2>1, <2>2, <2>4, <3>1, UntouchedBytes
         DEF Bytes, BufferIsExact
  <2>5. QED
    BY <2>3, <2>4
<1>11. QED
  BY <1>5, <1>6, <1>7, <1>8, <1>9, <1>10 DEF IdleTimerServes

-----------------------------------------------------------------------------
(* The steps of the timer's handler. *)

(* It begins when no other handler waits to go on, and so with nothing to  *)
(* be dropped.                                                             *)
LEMMA TimerEnterStep ==
  ASSUME UartRxAssumption, IInv, TimerEnter, UNCHANGED board
  PROVE  IInv'
<1> USE DEF IInv
<1>1. /\ cpu.isr = "none" /\ timer_irq
      /\ timer_irq' = FALSE /\ uart_idle_timer_running' = FALSE
      /\ cpu' = [isr |-> "timer", dev |-> 0, step |-> "drain",
                 pending |-> FALSE]
      /\ UNCHANGED <<board, initialized, callback, baud, rx_data, rx_ticks,
                     rx_pending, uart_idle_timer_ready, threshold, fifo,
                     rx_irq, error_irq, timer, since, line, floor, drained,
                     last>>
  BY DEF TimerEnter, histVars
<1>2. cpu = AtTask /\ timer = 0
  BY <1>1 DEF Handlers
<1>3. /\ cpu' \in Places /\ cpu'.isr = "timer" /\ cpu'.dev = 0
      /\ cpu'.step = "drain"
  BY <1>1, NoHandler DEF Places
<1>4. TypeOK'
  BY <1>1, <1>3 DEF TypeOK, MaxSince, Places
<1>5. Handlers'
  BY <1>1, <1>3 DEF Handlers
<1>6. InUse'
  BY <1>1 DEF InUse
<1>7. IdleTimerServes'
  <2>1. TimerFlagIsTrue'
    <3>1. ~ (timer' > 0)
      BY <1>1, <1>2
    <3>2. QED
      BY <1>1, <3>1 DEF TimerFlagIsTrue
  <2>2. PendingHasTimer'
    BY <1>3 DEF PendingHasTimer
  <2>3. ThresholdFollowsPending'
    BY <1>1 DEF IdleTimerServes, ThresholdFollowsPending
  <2>4. QED
    BY <2>1, <2>2, <2>3 DEF IdleTimerServes
<1>8. ASSUME NEW u \in Devices
      PROVE  Bytes(u)'
  <2>1. ~ ToBeDropped(u)
    BY <1>1, <1>2, NoHandler DEF ToBeDropped, Erring
  <2>2. ErrorIsNoted(u) => ErrorIsNoted(u)'
    BY <1>1, UntouchedBytes DEF ErrorIsNoted, Erring
  <2>3. QED
    BY <1>1, <2>1, <2>2, UntouchedBytes DEF Bytes, BufferIsExact
<1>9. QED
  BY <1>4, <1>5, <1>6, <1>7, <1>8

(* Where a loop goes on. *)
LEMMA NextDevicePlace ==
  ASSUME UartRxAssumption, cpu \in Places,
         NEW step \in {"drain", "scan", "restart"},
         NEW after \in {"drain", "scan", "restart"}
  PROVE  LET c == NextDevice(step, after)
         IN  /\ c \in Places
             /\ c.isr = cpu.isr /\ c.pending = cpu.pending
             /\ \/ c.step = step /\ c.dev = cpu.dev + 1
                \/ /\ c.step = after /\ c.dev = 0
                   /\ \A u \in Devices : u <= cpu.dev
             /\ cpu.dev \in Nat /\ \A u \in Devices : u \in Nat
<1>1. /\ cpu.dev \in 0 .. DeviceCount - 1 /\ DeviceCount \in Nat \ {0}
      /\ cpu.dev \in Nat /\ \A u \in Devices : u \in Nat
  <2>1. cpu.dev \in Devices
    BY DEF Places
  <2>2. QED
    BY <2>1 DEF Devices, UartRxAssumption
<1>2. CASE cpu.dev + 1 < DeviceCount
  <2>1. cpu.dev + 1 \in Devices
    BY <1>1, <1>2 DEF Devices
  <2>2. NextDevice(step, after)
          = [cpu EXCEPT !.dev = cpu.dev + 1, !.step = step]
    BY <1>2 DEF NextDevice
  <2>3. QED
    BY <1>1, <2>1, <2>2 DEF Places
<1>3. CASE ~ (cpu.dev + 1 < DeviceCount)
  <2>1. 0 \in Devices /\ \A u \in Devices : u <= cpu.dev
    BY <1>1, <1>3 DEF Devices
  <2>2. NextDevice(step, after) = [cpu EXCEPT !.dev = 0, !.step = after]
    BY <1>3 DEF NextDevice
  <2>3. QED
    BY <1>1, <2>1, <2>2 DEF Places
<1>4. QED
  BY <1>2, <1>3

(* What came is read; the buffer to be dropped is the one just read into,  *)
(* which gets a new window.                                                *)
LEMMA TimerReadStep ==
  ASSUME UartRxAssumption, IInv, NEW d \in Devices, TimerRead(d),
         UNCHANGED board
  PROVE  IInv'
<1> USE DEF IInv
<1>1. /\ cpu.isr = "timer" /\ cpu.dev = d /\ cpu.step = "drain"
      /\ IF initialized[d]
         THEN /\ rx_data' = [rx_data EXCEPT ![d] = Store(d)]
              /\ fifo' = [fifo EXCEPT ![d] = <<>>]
              /\ drained' = [drained EXCEPT ![d] = Len(line[d])]
         ELSE UNCHANGED <<rx_data, fifo, drained>>
      /\ cpu' = IF initialized[d] /\ fifo[d] # <<>>
                THEN [cpu EXCEPT !.step = "arm"]
                ELSE NextDevice("drain", "scan")
      /\ UNCHANGED <<board, initialized, callback, baud, rx_ticks, rx_pending,
                     uart_idle_timer_ready, uart_idle_timer_running,
                     threshold, rx_irq, error_irq, timer, timer_irq, since,
                     line, floor, last>>
  BY DEF TimerRead, Read, MarkDrained
<1>2. /\ cpu \in Places /\ ~ timer_irq
      /\ rx_data \in [Devices -> Seq(Nat)] /\ fifo \in [Devices -> Seq(Nat)]
      /\ drained \in [Devices -> Nat]
      /\ cpu.dev \in Nat /\ \A u \in Devices : u \in Nat
  BY <1>1, RunningHandler, NextDevicePlace DEF TypeOK
<1>3. /\ cpu' \in Places /\ cpu'.isr = "timer"
      /\ \/ cpu'.step = "arm" /\ cpu'.dev = d /\ initialized[d]
            /\ fifo[d] # <<>>
         \/ /\ ~ (initialized[d] /\ fifo[d] # <<>>)
            /\ \/ cpu'.step = "drain" /\ cpu'.dev = d + 1
               \/ cpu'.step = "scan" /\ cpu'.dev = 0
  <2>1. CASE initialized[d] /\ fifo[d] # <<>>
    <3>1. cpu' = [cpu EXCEPT !.step = "arm"]
      BY <1>1, <2>1
    <3>2. QED
      BY <1>1, <1>2, <2>1, <3>1 DEF Places
  <2>2. CASE ~ (initialized[d] /\ fifo[d] # <<>>)
    <3>1. cpu' = NextDevice("drain", "scan")
      BY <1>1, <2>2
    <3>2. QED
      BY <1>1, <1>2, <2>2, <3>1, NextDevicePlace
  <2>3. QED
    BY <2>1, <2>2
<1>4. /\ initialized[d] => /\ rx_data'[d] = Store(d) /\ fifo'[d] = <<>>
                           /\ drained'[d] = Len(line[d])
      /\ \A u \in Devices :
           u # d \/ ~ initialized[u] =>
             /\ rx_data'[u] = rx_data[u] /\ fifo'[u] = fifo[u]
             /\ drained'[u] = drained[u]
  BY <1>1, <1>2
<1>5. /\ Store(d) \in Seq(Nat) /\ Len(Store(d)) <= RxBufferSize
      /\ rx_data[d] # <<>> \/ fifo[d] # <<>> => Store(d) # <<>>
      /\ Len(line[d]) \in Nat
  BY StoreIsFit
<1>6. TypeOK'
  <2>1. /\ rx_data' \in [Devices -> Seq(Nat)]
        /\ fifo' \in [Devices -> Seq(Nat)]
        /\ drained' \in [Devices -> Nat]
    <3>1. CASE initialized[d]
      <4>1. /\ rx_data' = [rx_data EXCEPT ![d] = Store(d)]
            /\ fifo' = [fifo EXCEPT ![d] = <<>>]
            /\ drained' = [drained EXCEPT ![d] = Len(line[d])]
        BY <1>1, <3>1
      <4>2. <<>> \in Seq(Nat)
        BY EmptySeq
      <4>3. QED
        BY <1>2, <1>5, <4>1, <4>2
    <3>2. CASE ~ initialized[d]
      BY <1>1, <1>2, <3>2
    <3>3. QED
      BY <3>1, <3>2
  <2>2. \A u \in Devices : /\ Len(rx_data'[u]) <= RxBufferSize
                           /\ Len(fifo'[u]) <= FifoDepth
    <3>1. Len(<<>>) = 0 /\ 0 <= FifoDepth
      BY EmptySeq DEF UartRxAssumption
    <3>2. QED
      BY <1>4, <1>5, <3>1 DEF TypeOK
  <2>3. QED
    BY <1>1, <1>3, <2>1, <2>2 DEF TypeOK, MaxSince, Places
<1>7. Handlers'
  <2>1. cpu'.step = "arm" =>
          initialized'[cpu'.dev] /\ rx_data'[cpu'.dev] # <<>>
    BY <1>1, <1>3, <1>4, <1>5
  <2>2. QED
    BY <1>1, <1>2, <1>3, <2>1 DEF Handlers
<1>8. InUse'
  BY <1>1 DEF InUse
<1>9. IdleTimerServes'
  <2>1. \A u \in Devices : rx_data[u] # <<>> => rx_data'[u] # <<>>
    BY <1>4, <1>5
  <2>2. TimerFlagIsTrue' /\ ThresholdFollowsPending'
    BY <1>1, <2>1
       DEF IdleTimerServes, TimerFlagIsTrue, ThresholdFollowsPending
  <2>3. PendingHasTimer'
    <3>1. \A u \in Devices : 0 <= u
      BY <1>2
    <3>2. QED
      BY <1>3, <3>1 DEF PendingHasTimer
  <2>4. QED
    BY <2>2, <2>3 DEF IdleTimerServes
<1>10. ASSUME NEW u \in Devices, u # d \/ ~ initialized[u]
       PROVE  Bytes(u)'
  <2>1. ErrorIsNoted(u) => ErrorIsNoted(u)'
    BY <1>1, <1>4, <1>10, UntouchedBytes DEF ErrorIsNoted, Erring
  <2>2. ToBeDropped(u) => ToBeDropped(u)'
    <3>1. SUFFICES ASSUME ToBeDropped(u)
                   PROVE  ToBeDropped(u)'
      OBVIOUS
    <3>2. error_irq[u] /\ initialized[u] /\ Passed(u)
      BY <1>1, <3>1, NoHandler DEF ToBeDropped, Erring
    <3>3. d > u /\ rx_ticks[u] >= 2
      BY <1>1, <1>2, <1>10, <3>2 DEF Passed
    <3>4. d + 1 > u
      BY <1>1, <1>2, <3>3
    <3>5. Passed(u)'
      BY <1>1, <1>3, <3>3, <3>4 DEF Passed
    <3>6. QED
      BY <1>1, <1>3, <3>2, <3>5 DEF ToBeDropped
  <2>3. QED
    BY <1>1, <1>4, <1>10, <2>1, <2>2, UntouchedBytes DEF Bytes, BufferIsExact
<1>11. ASSUME initialized[d]
       PROVE  Bytes(d)'
  <2>1. FifoIsNext(d)' /\ Clean(d)' /\ MessageIsExact(d)'
    BY <1>1, <1>4, <1>11, ReadFifo DEF Bytes
  <2>2. floor'[d] <= drained'[d]
    <3>1. /\ floor[d] \in Nat /\ drained[d] \in Nat /\ Len(line[d]) \in Nat
          /\ floor[d] <= drained[d] /\ drained[d] <= Len(line[d])
      BY DeviceFacts DEF Bytes, FifoIsNext, BufferIsExact
    <3>2. floor'[d] = floor[d] /\ drained'[d] = Len(line[d])
      BY <1>1, <1>4, <1>11
    <3>3. QED
      BY <3>1, <3>2
  <2>3. Exact(d)
    <3>1. ~ Passed(d)
      BY <1>1, <1>2 DEF Passed
    <3>2. ~ ToBeDropped(d)
      BY <1>1, <3>1, NoHandler DEF ToBeDropped, Erring
    <3>3. QED
      BY <3>2 DEF Bytes, BufferIsExact
  <2>4. CASE Clean(d)
    <3>1. Exact(d)'
      BY <1>1, <1>4, <1>11, <2>3, <2>4, ReadIsExact DEF Bytes, BufferIsExact
    <3>2. QED
      BY <2>1, <2>2, <3>1 DEF Bytes, BufferIsExact, ErrorIsNoted
  <2>5. CASE ~ Clean(d)
    <3>1. fifo[d] # <<>>
      BY <2>5, EmptyIsClean DEF Bytes
    <3>2. error_irq[d]
      BY <1>1, <2>5 DEF Bytes, ErrorIsNoted, Erring
    <3>3. Passed(d)'
      BY <1>3, <1>11, <3>1 DEF Passed
    <3>4. ToBeDropped(d)'
      BY <1>1, <1>3, <1>11, <3>2, <3>3 DEF ToBeDropped
    <3>5. QED
      BY <2>1, <2>2, <3>4 DEF Bytes, BufferIsExact, ErrorIsNoted
  <2>6. QED
    BY <2>4, <2>5
<1>12. \A u \in Devices : Bytes(u)'
  BY <1>10, <1>11
<1>13. QED
  BY <1>6, <1>7, <1>8, <1>9, <1>12

(* The window begins anew. *)
LEMMA TimerArmStep ==
  ASSUME UartRxAssumption, IInv, NEW d \in Devices, TimerArm(d),
         UNCHANGED board
  PROVE  IInv'
<1> USE DEF IInv
<1>1. /\ cpu.isr = "timer" /\ cpu.dev = d /\ cpu.step = "arm" /\ Arm(d)
      /\ cpu' = NextDevice("drain", "scan")
      /\ UNCHANGED <<board, initialized, callback, baud, rx_data,
                     uart_idle_timer_ready, fifo, error_irq, since, line,
                     floor, drained, last>>
  BY DEF TimerArm, histVars
<1>2. /\ cpu \in Places /\ ~ timer_irq /\ initialized[d]
      /\ rx_data[d] # <<>>
  BY <1>1, RunningHandler DEF Handlers
<1>3. /\ cpu' \in Places /\ cpu'.isr = "timer"
      /\ \/ cpu'.step = "drain" /\ cpu'.dev = d + 1
         \/ cpu'.step = "scan" /\ cpu'.dev = 0
      /\ cpu.dev \in Nat /\ \A u \in Devices : u \in Nat
  BY <1>1, <1>2, NextDevicePlace
<1>4. /\ TypeOK' /\ InUse' /\ IdleTimerServes' /\ ~ timer_irq'
      /\ rx_ticks'[d] >= 2
      /\ \A u \in Devices \ {d} : rx_ticks'[u] = rx_ticks[u]
  BY <1>1, <1>2, <1>3, ArmServes
<1>5. Handlers'
  BY <1>1, <1>3, <1>4 DEF Handlers
<1>6. ASSUME NEW u \in Devices
      PROVE  Bytes(u)'
  <2>1. ErrorIsNoted(u) => ErrorIsNoted(u)'
    BY <1>1, UntouchedBytes DEF ErrorIsNoted, Erring
  <2>2. ToBeDropped(u) => ToBeDropped(u)'
    <3>1. SUFFICES ASSUME ToBeDropped(u)
                   PROVE  ToBeDropped(u)'
      OBVIOUS
    <3>2. error_irq[u] /\ initialized[u] /\ Passed(u)
      BY <1>1, <3>1, NoHandler DEF ToBeDropped, Erring
    <3>3. d >= u /\ rx_ticks'[u] >= 2
      <4>1. CASE u = d
        BY <1>1, <1>3, <1>4, <4>1
      <4>2. CASE u # d
        <5>1. d > u /\ rx_ticks[u] >= 2
          BY <1>1, <3>2, <4>2 DEF Passed
        <5>2. QED
          BY <1>1, <1>3, <1>4, <4>2, <5>1
      <4>3. QED
        BY <4>1, <4>2
    <3>4. d + 1 > u
      BY <1>1, <1>3, <3>3
    <3>5. Passed(u)'
      BY <1>3, <3>3, <3>4 DEF Passed
    <3>6. QED
      BY <1>1, <1>3, <3>2, <3>5 DEF ToBeDropped
  <2>3. QED
    BY <1>1, <2>1, <2>2, UntouchedBytes DEF Bytes, BufferIsExact
<1>7. QED
  BY <1>4, <1>5, <1>6

(* A window is counted down, or there is none: the timer is needed again   *)
(* if there is one.                                                        *)
LEMMA TimerCountStep ==
  ASSUME UartRxAssumption, IInv, NEW d \in Devices, TimerCount(d),
         UNCHANGED board
  PROVE  IInv'
<1> USE DEF IInv
<1> DEFINE receives == initialized[d] /\ rx_pending[d]
<1>1. /\ cpu.isr = "timer" /\ cpu.dev = d /\ cpu.step = "scan"
      /\ receives => ~ (rx_ticks[d] <= 1)
      /\ rx_ticks' = IF receives THEN [rx_ticks EXCEPT ![d] = @ - 1]
                                 ELSE rx_ticks
      /\ cpu' = IF receives
                THEN [NextDevice("scan", "restart") EXCEPT !.pending = TRUE]
                ELSE NextDevice("scan", "restart")
      /\ UNCHANGED <<board, initialized, callback, baud, rx_data, rx_pending,
                     uart_idle_timer_ready, uart_idle_timer_running,
                     threshold, fifo, rx_irq, error_irq, timer, timer_irq,
                     since, line, floor, drained, last>>
  BY DEF TimerCount, hwVars, histVars
<1>2. /\ cpu \in Places /\ ~ timer_irq
      /\ rx_ticks \in [Devices -> Nat]
      /\ cpu.dev \in Nat /\ \A u \in Devices : u \in Nat
  BY <1>1, RunningHandler, NextDevicePlace DEF TypeOK
<1>3. /\ cpu' \in Places /\ cpu'.isr = "timer"
      /\ \/ cpu'.step = "scan" /\ cpu'.dev = d + 1
         \/ /\ cpu'.step = "restart" /\ cpu'.dev = 0
            /\ \A u \in Devices : u <= d
      /\ receives \/ cpu.pending => cpu'.pending
  <2> DEFINE c == NextDevice("scan", "restart")
  <2>1. /\ c \in Places /\ c.isr = "timer" /\ c.pending = cpu.pending
        /\ \/ c.step = "scan" /\ c.dev = d + 1
           \/ /\ c.step = "restart" /\ c.dev = 0
              /\ \A u \in Devices : u <= d
    BY <1>1, <1>2, NextDevicePlace
  <2> HIDE DEF c
  <2>2. CASE receives
    <3>1. cpu' = [c EXCEPT !.pending = TRUE]
      BY <1>1, <2>2 DEF c
    <3>2. /\ cpu' \in Places /\ cpu'.isr = c.isr /\ cpu'.step = c.step
          /\ cpu'.dev = c.dev /\ cpu'.pending
      BY <2>1, <3>1 DEF Places
    <3>3. QED
      BY <2>1, <3>2
  <2>3. CASE ~ receives
    <3>1. cpu' = c
      BY <1>1, <2>3 DEF c
    <3>2. QED
      BY <2>1, <2>3, <3>1
  <2>4. QED
    BY <2>2, <2>3
<1>4. /\ rx_ticks' \in [Devices -> Nat]
      /\ \A u \in Devices : rx_ticks'[u] > 0 <=> rx_ticks[u] > 0
      /\ \A u \in Devices \ {d} : rx_ticks'[u] = rx_ticks[u]
  <2>1. CASE receives
    <3>1. rx_ticks[d] \in Nat /\ rx_ticks[d] > 1
      BY <1>1, <1>2, <2>1
    <3>2. rx_ticks' = [rx_ticks EXCEPT ![d] = rx_ticks[d] - 1]
      BY <1>1, <2>1
    <3>3. rx_ticks[d] - 1 \in Nat /\ rx_ticks[d] - 1 > 0 /\ rx_ticks[d] > 0
      BY <3>1
    <3>4. QED
      BY <1>2, <3>2, <3>3
  <2>2. CASE ~ receives
    BY <1>1, <1>2, <2>2
  <2>3. QED
    BY <2>1, <2>2
<1>5. TypeOK'
  BY <1>1, <1>3, <1>4 DEF TypeOK, MaxSince, Places
<1>6. Handlers'
  BY <1>1, <1>2, <1>3 DEF Handlers
<1>7. InUse'
  BY <1>1 DEF InUse
<1>8. IdleTimerServes'
  <2>1. TimerFlagIsTrue'
    BY <1>1 DEF IdleTimerServes, TimerFlagIsTrue
  <2>2. ThresholdFollowsPending'
    BY <1>1, <1>4 DEF IdleTimerServes, ThresholdFollowsPending
  <2>3. PendingHasTimer'
    <3> SUFFICES ASSUME NEW u \in Devices, rx_pending[u],
                        ~ uart_idle_timer_running
                 PROVE  /\ cpu'.isr = "timer"
                        /\ \/ cpu'.pending
                           \/ cpu'.step = "scan" /\ cpu'.dev <= u
      BY <1>1 DEF PendingHasTimer
    <3>1. cpu.pending \/ d <= u
      BY <1>1 DEF IdleTimerServes, PendingHasTimer
    <3>2. CASE cpu.pending \/ receives
      <4>1. cpu'.isr = "timer" /\ cpu'.pending
        BY <1>3, <3>2, Zenon
      <4>2. QED
        BY <4>1, Zenon
    <3>3. CASE ~ (cpu.pending \/ receives)
      <4>1. u # d
        BY <3>3 DEF InUse
      <4>2. d + 1 <= u /\ ~ (u <= d)
        BY <1>1, <1>2, <3>1, <3>3, <4>1
      <4>3. QED
        BY <1>3, <4>2
    <3>4. QED
      BY <3>2, <3>3
  <2>4. QED
    BY <2>1, <2>2, <2>3 DEF IdleTimerServes
<1>9. ASSUME NEW u \in Devices
      PROVE  Bytes(u)'
  <2>1. ErrorIsNoted(u) => ErrorIsNoted(u)'
    BY <1>1, UntouchedBytes DEF ErrorIsNoted, Erring
  <2>2. ToBeDropped(u) => ToBeDropped(u)'
    <3>1. SUFFICES ASSUME ToBeDropped(u)
                   PROVE  ToBeDropped(u)'
      OBVIOUS
    <3>2. error_irq[u] /\ initialized[u] /\ Passed(u)
      BY <1>1, <3>1, NoHandler DEF ToBeDropped, Erring
    <3>3. Passed(u)'
      <4>1. CASE u = d
        <5>1. d + 1 > u
          BY <1>1, <1>2, <4>1
        <5>2. QED
          BY <1>3, <5>1 DEF Passed
      <4>2. CASE u # d
        <5>1. d > u \/ rx_ticks'[u] >= 2
          BY <1>1, <1>4, <3>2, <4>2 DEF Passed
        <5>2. d + 1 > u \/ rx_ticks'[u] >= 2
          BY <1>1, <1>2, <5>1
        <5>3. QED
          BY <1>3, <5>2 DEF Passed
      <4>3. QED
        BY <4>1, <4>2
    <3>4. QED
      BY <1>1, <1>3, <3>2, <3>3 DEF ToBeDropped
  <2>3. QED
    BY <1>1, <2>1, <2>2, UntouchedBytes DEF Bytes, BufferIsExact
<1>10. QED
  BY <1>5, <1>6, <1>7, <1>8, <1>9

(* What is delivered has been read by this handler and is not to be        *)
(* dropped.                                                                *)
LEMMA TimerDeliverStep ==
  ASSUME UartRxAssumption, IInv, NEW d \in Devices, TimerDeliver(d),
         UNCHANGED board
  PROVE  IInv'
<1> USE DEF IInv
<1> DEFINE message == [bytes |-> rx_data[d], start |-> floor[d],
                       upto |-> drained[d]]
<1>1. /\ cpu.isr = "timer" /\ cpu.dev = d /\ cpu.step = "scan"
      /\ initialized[d] /\ rx_pending[d] /\ rx_ticks[d] <= 1
      /\ EndReception(d, fifo[d])
      /\ last' = [last EXCEPT ![d] = message] \/ last' = last
      /\ floor' = [floor EXCEPT ![d] = drained[d]]
      /\ cpu' = NextDevice("scan", "restart")
      /\ callback' = callback \/ callback' \in CallbacksAfter
      /\ UNCHANGED <<board, initialized, baud, uart_idle_timer_ready,
                     uart_idle_timer_running, fifo, error_irq, timer,
                     timer_irq, since, line, drained>>
  BY DEF TimerDeliver
<1>2. /\ cpu \in Places /\ ~ timer_irq
      /\ floor \in [Devices -> Nat] /\ drained[d] \in Nat
      /\ floor[d] \in Nat /\ rx_ticks[d] \in Nat
      /\ rx_data[d] \in Seq(Nat) /\ last \in [Devices -> Messages]
      /\ cpu.dev \in Nat /\ \A u \in Devices : u \in Nat
  BY <1>1, RunningHandler, DeviceFacts, NextDevicePlace DEF TypeOK, Messages
<1>3. /\ cpu' \in Places /\ cpu'.isr = "timer" /\ cpu'.pending = cpu.pending
      /\ \/ cpu'.step = "scan" /\ cpu'.dev = d + 1
         \/ /\ cpu'.step = "restart" /\ cpu'.dev = 0
            /\ \A u \in Devices : u <= d
  BY <1>1, <1>2, NextDevicePlace
<1>4. /\ floor' \in [Devices -> Nat] /\ floor'[d] = drained'[d]
      /\ \A u \in Devices \ {d} : floor'[u] = floor[u]
  BY <1>1, <1>2
<1>5. /\ rx_data' \in [Devices -> Seq(Nat)] /\ rx_data'[d] = <<>>
      /\ \A u \in Devices : Len(rx_data'[u]) <= RxBufferSize
      /\ \A u \in Devices \ {d} : /\ rx_data'[u] = rx_data[u]
                                  /\ rx_ticks'[u] = rx_ticks[u]
      /\ rx_ticks' \in [Devices -> Nat]
      /\ rx_pending' \in [Devices -> BOOLEAN]
      /\ threshold' \in [Devices -> {1, HalfLevel}]
      /\ rx_irq' \in [Devices -> BOOLEAN]
      /\ \A u \in Devices : rx_pending'[u] => rx_pending[u] /\ u # d
      /\ TimerFlagIsTrue' /\ ThresholdFollowsPending'
  BY <1>1, EndServes
<1>6. /\ last' \in [Devices -> Messages]
      /\ last'[d] = message \/ last'[d] = last[d]
      /\ \A u \in Devices \ {d} : last'[u] = last[u]
  <2>1. message \in Messages
    BY <1>2 DEF Messages
  <2> HIDE DEF message
  <2>2. QED
    BY <1>1, <1>2, <2>1
<1>7. TypeOK'
  <2>1. UNCHANGED <<board, initialized, baud, uart_idle_timer_ready,
                    uart_idle_timer_running, fifo, error_irq, timer,
                    timer_irq, since, line, drained>>
    BY <1>1
  <2>2. cpu' \in Places
    BY <1>3
  <2>3. callback' \in [Devices -> BOOLEAN]
    <3>1. callback \in [Devices -> BOOLEAN]
      BY DEF TypeOK
    <3>2. \A e \in Devices, registered \in BOOLEAN :
            [callback EXCEPT ![e] = registered] \in [Devices -> BOOLEAN]
      BY <3>1
    <3>3. callback' \in CallbacksAfter => callback' \in [Devices -> BOOLEAN]
      BY <3>1, <3>2 DEF CallbacksAfter
    <3>4. QED
      BY <1>1, <3>1, <3>3
  <2>4. QED
    BY <1>4, <1>5, <1>6, <2>1, <2>2, <2>3
       DEF TypeOK, MaxSince, Places, Messages
<1>8. Handlers'
  BY <1>1, <1>2, <1>3 DEF Handlers
<1>9. InUse'
  BY <1>1, <1>5 DEF InUse
<1>10. PendingHasTimer'
  <2> SUFFICES ASSUME NEW u \in Devices, rx_pending'[u],
                      ~ uart_idle_timer_running
               PROVE  /\ cpu'.isr = "timer"
                      /\ \/ cpu'.pending
                         \/ cpu'.step = "scan" /\ cpu'.dev <= u
    BY <1>1 DEF PendingHasTimer
  <2>1. rx_pending[u] /\ u # d
    BY <1>5
  <2>2. cpu.pending \/ d <= u
    BY <1>1, <2>1 DEF IdleTimerServes, PendingHasTimer
  <2>3. CASE d <= u
    <3>1. d + 1 <= u /\ ~ (u <= d)
      BY <1>1, <1>2, <2>1, <2>3
    <3>2. cpu'.isr = "timer" /\ cpu'.step = "scan" /\ cpu'.dev <= u
      BY <1>3, <3>1
    <3>3. QED
      BY <3>2
  <2>4. CASE cpu.pending
    <3>1. cpu'.isr = "timer" /\ cpu'.pending
      BY <1>3, <2>4, Zenon
    <3>2. QED
      BY <3>1, Zenon
  <2>5. QED
    BY <2>2, <2>3, <2>4
<1>11. ASSUME NEW u \in Devices
       PROVE  ErrorIsNoted(u)' /\ FifoIsNext(u)'
  <2>1. Clean(u) \/ error_irq[u]
    BY <1>1 DEF Bytes, ErrorIsNoted, Erring
  <2>2. Clean(u) => Clean(u)'
    BY <1>1 DEF Clean
  <2>3. FifoIsNext(u)'
    BY <1>1 DEF Bytes, FifoIsNext
  <2>4. QED
    BY <1>1, <2>1, <2>2, <2>3 DEF ErrorIsNoted
<1>12. ASSUME NEW u \in Devices, u # d
       PROVE  Bytes(u)'
  <2>1. ToBeDropped(u) => ToBeDropped(u)'
    <3>1. SUFFICES ASSUME ToBeDropped(u)
                   PROVE  ToBeDropped(u)'
      OBVIOUS
    <3>2. error_irq[u] /\ initialized[u] /\ Passed(u)
      BY <1>1, <3>1, NoHandler DEF ToBeDropped, Erring
    <3>3. d > u \/ rx_ticks'[u] >= 2
      BY <1>1, <1>5, <1>12, <3>2 DEF Passed
    <3>4. d + 1 > u \/ rx_ticks'[u] >= 2
      BY <1>1, <1>2, <3>3
    <3>5. Passed(u)'
      BY <1>3, <3>4 DEF Passed
    <3>6. QED
      BY <1>1, <1>3, <3>2, <3>5 DEF ToBeDropped
  <2>2. QED
    BY <1>1, <1>4, <1>5, <1>6, <1>11, <1>12, <2>1, UntouchedBytes
       DEF Bytes, BufferIsExact
<1>13. Bytes(d)'
  <2>1. drained'[d] \in Nat
    BY <1>1, <1>2
  <2>2. Exact(d)' /\ floor'[d] <= drained'[d]
    BY <1>4, <1>5, <2>1, EmptiedIsExact
  <2>3. Exact(d)
    <3>1. ~ Passed(d)
      BY <1>1, <1>2 DEF Passed
    <3>2. ~ ToBeDropped(d)
      BY <1>1, <3>1, NoHandler DEF ToBeDropped, Erring
    <3>3. QED
      BY <3>2 DEF Bytes, BufferIsExact
  <2>4. MessageIsExact(d)'
    <3>1. CASE last'[d] = last[d]
      BY <1>1, <3>1 DEF Bytes, MessageIsExact
    <3>2. CASE last'[d] = message
      <4>1. /\ last'[d].bytes = rx_data[d] /\ last'[d].start = floor[d]
            /\ last'[d].upto = drained[d] /\ line'[d] = line[d]
        BY <1>1, <3>2
      <4>2. floor[d] <= drained[d] /\ drained[d] <= Len(line[d])
        BY DEF Bytes, BufferIsExact, FifoIsNext
      <4>3. QED
        BY <2>3, <4>1, <4>2 DEF MessageIsExact, Exact
    <3>3. QED
      BY <1>6, <3>1, <3>2
  <2>5. QED
    BY <1>11, <2>2, <2>4 DEF Bytes, BufferIsExact
<1>14. QED
  BY <1>5, <1>7, <1>8, <1>9, <1>10, <1>12, <1>13 DEF IdleTimerServes

(* The handler ends; a UART with an error noted is served next.            *)
LEMMA TimerRestartStep ==
  ASSUME UartRxAssumption, IInv, TimerRestart, UNCHANGED board
  PROVE  IInv'
<1> USE DEF IInv
<1>1. /\ cpu.isr = "timer" /\ cpu.step = "restart"
      /\ IF cpu.pending THEN StartTimer
         ELSE UNCHANGED <<uart_idle_timer_running, timer, timer_irq>>
      /\ cpu' = IF timer_irq' \/ \E d \in Devices : UartPending(d)
                THEN Chained ELSE AtTask
      /\ UNCHANGED <<board, initialized, callback, baud, rx_data, rx_ticks,
                     rx_pending, uart_idle_timer_ready, threshold, fifo,
                     rx_irq, error_irq, since, line, floor, drained, last>>
  BY DEF TimerRestart, Return, histVars
<1>2. /\ cpu \in Places /\ ~ timer_irq /\ timer \in 0 .. Period
      /\ Period \in Nat \ {0} /\ uart_idle_timer_running \in BOOLEAN
  BY <1>1, RunningHandler DEF TypeOK, UartRxAssumption
<1>3. /\ cpu' \in Places /\ cpu'.isr = "none" /\ cpu' \in {AtTask, Chained}
      /\ cpu'.step \notin {"arm", "error arm"}
  BY <1>1, NoHandler
<1>4. /\ ~ timer_irq' /\ timer_irq' \in BOOLEAN /\ timer' \in 0 .. Period
      /\ uart_idle_timer_running' \in BOOLEAN
      /\ uart_idle_timer_running' <=> timer' > 0
      /\ cpu.pending \/ uart_idle_timer_running => uart_idle_timer_running'
  <2>1. CASE cpu.pending /\ ~ uart_idle_timer_running
    <3>1. uart_idle_timer_running' = TRUE /\ timer_irq' = FALSE
      BY <1>1, <2>1 DEF StartTimer
    <3>2. timer' = Period
      BY <1>1, <2>1 DEF StartTimer
    <3>3. timer' \in 0 .. Period /\ timer' > 0
      BY <1>2, <3>2
    <3>4. QED
      BY <3>1, <3>3
  <2>2. CASE ~ cpu.pending \/ uart_idle_timer_running
    <3>1. UNCHANGED <<uart_idle_timer_running, timer, timer_irq>>
      BY <1>1, <2>2 DEF StartTimer
    <3>2. uart_idle_timer_running <=> timer > 0
      BY <1>2 DEF IdleTimerServes, TimerFlagIsTrue
    <3>3. timer_irq \in BOOLEAN
      BY DEF TypeOK
    <3>4. QED
      BY <1>2, <2>2, <3>1, <3>2, <3>3
  <2>3. QED
    BY <2>1, <2>2
<1>5. TypeOK'
  BY <1>1, <1>3, <1>4 DEF TypeOK, MaxSince, Places
<1>6. Handlers'
  BY <1>3, <1>4 DEF Handlers
<1>7. InUse'
  BY <1>1 DEF InUse
<1>8. IdleTimerServes'
  <2>1. TimerFlagIsTrue'
    BY <1>4 DEF TimerFlagIsTrue
  <2>2. ThresholdFollowsPending'
    BY <1>1 DEF IdleTimerServes, ThresholdFollowsPending
  <2>3. PendingHasTimer'
    <3>1. \A u \in Devices :
            rx_pending[u] => uart_idle_timer_running \/ cpu.pending
      BY <1>1 DEF IdleTimerServes, PendingHasTimer
    <3>2. QED
      BY <1>1, <1>4, <3>1 DEF PendingHasTimer
  <2>4. QED
    BY <2>1, <2>2, <2>3 DEF IdleTimerServes
<1>9. ASSUME NEW u \in Devices
      PROVE  Bytes(u)'
  <2>1. ErrorIsNoted(u) => ErrorIsNoted(u)'
    BY <1>1, UntouchedBytes DEF ErrorIsNoted, Erring
  <2>2. ToBeDropped(u) => ToBeDropped(u)'
    <3>1. SUFFICES ASSUME ToBeDropped(u)
                   PROVE  ToBeDropped(u)'
      OBVIOUS
    <3>2. error_irq[u] /\ initialized[u]
      BY <1>1, <3>1 DEF ToBeDropped, Erring
    <3>3. UartPending(u)
      BY <3>2 DEF UartPending
    <3>4. cpu' = Chained
      BY <1>1, <3>3
    <3>5. QED
      BY <1>1, <3>2, <3>4 DEF ToBeDropped
  <2>3. QED
    BY <1>1, <2>1, <2>2, UntouchedBytes DEF Bytes, BufferIsExact
<1>10. QED
  BY <1>5, <1>6, <1>7, <1>8, <1>9

-----------------------------------------------------------------------------
(* The steps of tasks. *)

(* The receive half of a UART begins empty; the first that begins gets the *)
(* timer ready, which nothing can need yet.                                *)
LEMMA UartInitStep ==
  ASSUME UartRxAssumption, IInv, NEW d \in Devices, UartInit(d),
         UNCHANGED board
  PROVE  IInv'
<1> USE DEF IInv
<1>1. /\ cpu = AtTask /\ ~ initialized[d]
      /\ initialized' = [initialized EXCEPT ![d] = TRUE]
      /\ callback' = [callback EXCEPT ![d] = FALSE]
      /\ rx_data' = [rx_data EXCEPT ![d] = <<>>]
      /\ rx_ticks' = [rx_ticks EXCEPT ![d] = 0]
      /\ rx_pending' = [rx_pending EXCEPT ![d] = FALSE]
      /\ threshold' = [threshold EXCEPT ![d] = 1]
      /\ fifo' = [fifo EXCEPT ![d] = <<>>]
      /\ \E raised \in BOOLEAN : rx_irq' = [rx_irq EXCEPT ![d] = raised]
      /\ error_irq' = [error_irq EXCEPT ![d] = FALSE]
      /\ drained' = [drained EXCEPT ![d] = Len(line[d])]
      /\ floor' = [floor EXCEPT ![d] = Len(line[d])]
      /\ UNCHANGED <<board, baud, cpu, since, line, last>>
  BY DEF UartInit, MarkDrained
<1>2. /\ uart_idle_timer_ready' = TRUE
      /\ IF uart_idle_timer_ready
         THEN UNCHANGED <<uart_idle_timer_running, timer, timer_irq>>
         ELSE /\ uart_idle_timer_running' = FALSE /\ timer' = 0
              /\ timer_irq' = FALSE
  BY DEF UartInit
<1>3. /\ initialized \in [Devices -> BOOLEAN]
      /\ callback \in [Devices -> BOOLEAN]
      /\ rx_data \in [Devices -> Seq(Nat)] /\ rx_ticks \in [Devices -> Nat]
      /\ rx_pending \in [Devices -> BOOLEAN]
      /\ threshold \in [Devices -> {1, HalfLevel}]
      /\ fifo \in [Devices -> Seq(Nat)] /\ rx_irq \in [Devices -> BOOLEAN]
      /\ error_irq \in [Devices -> BOOLEAN]
      /\ drained \in [Devices -> Nat] /\ floor \in [Devices -> Nat]
      /\ Len(line[d]) \in Nat
  BY DeviceFacts DEF TypeOK
<1>4. /\ <<>> \in Seq(Nat) /\ Len(<<>>) = 0
      /\ 0 <= RxBufferSize /\ 0 <= FifoDepth
  BY EmptySeq DEF UartRxAssumption
<1>5. /\ initialized' \in [Devices -> BOOLEAN]
      /\ callback' \in [Devices -> BOOLEAN]
      /\ rx_pending' \in [Devices -> BOOLEAN]
      /\ error_irq' \in [Devices -> BOOLEAN]
      /\ initialized'[d] /\ ~ rx_pending'[d]
      /\ \A u \in Devices \ {d} : /\ initialized'[u] = initialized[u]
                                  /\ rx_pending'[u] = rx_pending[u]
                                  /\ error_irq'[u] = error_irq[u]
  BY <1>1, <1>3
<1>6. rx_irq' \in [Devices -> BOOLEAN]
  BY <1>1, <1>3
<1>7. /\ rx_data' \in [Devices -> Seq(Nat)] /\ rx_ticks' \in [Devices -> Nat]
      /\ threshold' \in [Devices -> {1, HalfLevel}]
      /\ fifo' \in [Devices -> Seq(Nat)]
      /\ drained' \in [Devices -> Nat] /\ floor' \in [Devices -> Nat]
      /\ rx_data'[d] = <<>> /\ rx_ticks'[d] = 0 /\ threshold'[d] = 1
      /\ fifo'[d] = <<>> /\ drained'[d] = Len(line[d])
      /\ floor'[d] = drained'[d]
      /\ \A u \in Devices \ {d} : /\ rx_data'[u] = rx_data[u]
                                  /\ rx_ticks'[u] = rx_ticks[u]
                                  /\ threshold'[u] = threshold[u]
                                  /\ fifo'[u] = fifo[u]
                                  /\ drained'[u] = drained[u]
                                  /\ floor'[u] = floor[u]
  BY <1>1, <1>3, <1>4
<1>8. \A u \in Devices : /\ Len(rx_data'[u]) <= RxBufferSize
                         /\ Len(fifo'[u]) <= FifoDepth
  <2> TAKE u \in Devices
  <2>1. CASE u = d
    BY <1>4, <1>7, <2>1
  <2>2. CASE u # d
    BY <1>7, <2>2 DEF TypeOK
  <2>3. QED
    BY <2>1, <2>2
<1>9. /\ uart_idle_timer_running' \in BOOLEAN /\ timer' \in 0 .. Period
      /\ timer_irq' \in BOOLEAN
      /\ TimerFlagIsTrue'
      /\ timer_irq' => timer_irq /\ timer' = timer
      /\ uart_idle_timer_ready => uart_idle_timer_running'
                                    = uart_idle_timer_running
  <2>1. CASE uart_idle_timer_ready
    BY <1>2, <2>1 DEF TypeOK, IdleTimerServes, TimerFlagIsTrue
  <2>2. CASE ~ uart_idle_timer_ready
    <3>1. timer' = 0
      BY <1>2, <2>2
    <3>2. timer' \in 0 .. Period /\ ~ (timer' > 0)
      BY <3>1 DEF UartRxAssumption
    <3>3. ~ timer_irq' /\ ~ uart_idle_timer_running'
          /\ timer_irq' \in BOOLEAN /\ uart_idle_timer_running' \in BOOLEAN
      BY <1>2, <2>2
    <3>4. QED
      BY <2>2, <3>2, <3>3 DEF TimerFlagIsTrue
  <2>3. QED
    BY <2>1, <2>2
<1>10. TypeOK'
  <2>1. /\ UNCHANGED <<board, baud, cpu, since, line, last>>
        /\ uart_idle_timer_ready' \in BOOLEAN
    BY <1>1, <1>2
  <2>2. /\ initialized' \in [Devices -> BOOLEAN]
        /\ callback' \in [Devices -> BOOLEAN]
        /\ rx_pending' \in [Devices -> BOOLEAN]
        /\ error_irq' \in [Devices -> BOOLEAN]
        /\ rx_irq' \in [Devices -> BOOLEAN]
    BY <1>5, <1>6
  <2>3. /\ rx_data' \in [Devices -> Seq(Nat)]
        /\ rx_ticks' \in [Devices -> Nat]
        /\ threshold' \in [Devices -> {1, HalfLevel}]
        /\ fifo' \in [Devices -> Seq(Nat)]
        /\ drained' \in [Devices -> Nat] /\ floor' \in [Devices -> Nat]
    BY <1>7
  <2>4. /\ uart_idle_timer_running' \in BOOLEAN /\ timer' \in 0 .. Period
        /\ timer_irq' \in BOOLEAN
    BY <1>9
  <2>5. QED
    BY <1>8, <2>1, <2>2, <2>3, <2>4 DEF TypeOK, MaxSince
<1>11. Handlers'
  <2>1. cpu' = AtTask /\ (timer_irq' => timer' = 0)
    BY <1>1, <1>9 DEF Handlers
  <2>2. QED
    BY <2>1, NoHandler DEF Handlers
<1>12. InUse'
  <2>1. \A u \in Devices : rx_pending'[u] => initialized'[u]
    BY <1>5 DEF InUse
  <2>2. QED
    BY <1>1, <1>2, <2>1 DEF InUse
<1>13. IdleTimerServes'
  <2>1. PendingHasTimer'
    <3> SUFFICES ASSUME NEW u \in Devices, rx_pending'[u]
                 PROVE  uart_idle_timer_running'
      BY DEF PendingHasTimer
    <3>1. rx_pending[u]
      BY <1>5
    <3>2. uart_idle_timer_running /\ uart_idle_timer_ready
      BY <1>1, <3>1, NoHandler DEF IdleTimerServes, PendingHasTimer, InUse
    <3>3. QED
      BY <1>9, <3>2
  <2>2. ThresholdFollowsPending'
    <3> SUFFICES ASSUME NEW u \in Devices
                 PROVE  /\ rx_pending'[u] => /\ threshold'[u] = HalfLevel
                                             /\ rx_data'[u] # <<>>
                        /\ threshold'[u] = HalfLevel =>
                             rx_pending'[u] \/ HalfLevel = 1
                        /\ rx_ticks'[u] > 0 <=> rx_pending'[u]
      BY DEF ThresholdFollowsPending
    <3>1. CASE u = d
      <4>1. /\ ~ (rx_ticks'[d] > 0)
            /\ threshold'[d] = HalfLevel => HalfLevel = 1
        BY <1>7
      <4>2. QED
        BY <1>5, <3>1, <4>1
    <3>2. CASE u # d
      <4>1. /\ rx_pending'[u] = rx_pending[u] /\ rx_data'[u] = rx_data[u]
            /\ rx_ticks'[u] = rx_ticks[u] /\ threshold'[u] = threshold[u]
        BY <1>5, <1>7, <3>2
      <4>2. QED
        BY <4>1 DEF IdleTimerServes, ThresholdFollowsPending
    <3>3. QED
      BY <3>1, <3>2
  <2>3. QED
    BY <1>9, <2>1, <2>2 DEF IdleTimerServes
<1>14. ASSUME NEW u \in Devices, u # d
       PROVE  Bytes(u)'
  <2>1. ~ ToBeDropped(u)
    BY <1>1, NoHandler DEF ToBeDropped, Erring
  <2>2. ErrorIsNoted(u) => ErrorIsNoted(u)'
    BY <1>1, <1>5, <1>7, <1>14, UntouchedBytes DEF ErrorIsNoted, Erring
  <2>3. QED
    BY <1>1, <1>7, <1>14, <2>1, <2>2, UntouchedBytes DEF Bytes, BufferIsExact
<1>15. Bytes(d)'
  <2>1. FifoIsNext(d)' /\ Clean(d)' /\ MessageIsExact(d)'
    BY <1>1, <1>7, ReadFifo DEF Bytes
  <2>2. Exact(d)' /\ floor'[d] <= drained'[d]
    BY <1>3, <1>7, EmptiedIsExact
  <2>3. QED
    BY <2>1, <2>2 DEF Bytes, BufferIsExact, ErrorIsNoted
<1>16. QED
  BY <1>10, <1>11, <1>12, <1>13, <1>14, <1>15

(* A callback is registered or removed. *)
LEMMA SetCallbackStep ==
  ASSUME UartRxAssumption, IInv, NEW d \in Devices,
         NEW registered \in BOOLEAN, SetCallback(d, registered),
         UNCHANGED board
  PROVE  IInv'
<1> USE DEF IInv
<1>1. /\ callback' = [callback EXCEPT ![d] = registered]
      /\ UNCHANGED <<board, initialized, baud, rx_data, rx_ticks, rx_pending,
                     uart_idle_timer_ready, uart_idle_timer_running, cpu,
                     threshold, fifo, rx_irq, error_irq, timer, timer_irq,
                     since, line, floor, drained, last>>
  BY DEF SetCallback, hwVars, histVars
<1>2. callback' \in [Devices -> BOOLEAN]
  BY <1>1 DEF TypeOK
<1>3. TypeOK'
  <2>1. UNCHANGED <<board, initialized, baud, rx_data, rx_ticks, rx_pending,
                    uart_idle_timer_ready, uart_idle_timer_running, cpu,
                    threshold, fifo, rx_irq, error_irq, timer, timer_irq,
                    since, line, floor, drained, last>>
    BY <1>1
  <2>2. QED
    BY <1>2, <2>1 DEF TypeOK, MaxSince
<1>4. Handlers' /\ InUse'
  BY <1>1 DEF Handlers, InUse
<1>5. IdleTimerServes'
  BY <1>1 DEF IdleTimerServes, TimerFlagIsTrue, PendingHasTimer,
              ThresholdFollowsPending
<1>6. ASSUME NEW u \in Devices
      PROVE  Bytes(u)'
  <2>1. ErrorIsNoted(u) => ErrorIsNoted(u)'
    BY <1>1, UntouchedBytes DEF ErrorIsNoted, Erring
  <2>2. ToBeDropped(u) => ToBeDropped(u)'
    BY <1>1 DEF ToBeDropped, Erring, Passed
  <2>3. QED
    BY <1>1, <2>1, <2>2, UntouchedBytes DEF Bytes, BufferIsExact
<1>7. QED
  BY <1>3, <1>4, <1>5, <1>6

(* Another rate drops what was received, and perhaps what is in the FIFO.  *)
LEMMA SetBaudStep ==
  ASSUME UartRxAssumption, IInv, NEW d \in Devices, NEW b \in board.bauds,
         SetBaud(d, b), UNCHANGED board
  PROVE  IInv'
<1> USE DEF IInv
<1>1. /\ cpu = AtTask /\ baud' = [baud EXCEPT ![d] = b]
      /\ \/ /\ fifo' = [fifo EXCEPT ![d] = <<>>]
            /\ drained' = [drained EXCEPT ![d] = Len(line[d])]
         \/ fifo' = fifo /\ drained' = drained
      /\ EndReception(d, fifo'[d])
      /\ floor' = [floor EXCEPT ![d] = drained'[d]]
      /\ UNCHANGED <<board, initialized, callback, uart_idle_timer_ready,
                     uart_idle_timer_running, cpu, error_irq, timer,
                     timer_irq, since, line, last>>
  BY DEF SetBaud, MarkDrained
<1>2. /\ fifo \in [Devices -> Seq(Nat)] /\ drained \in [Devices -> Nat]
      /\ floor \in [Devices -> Nat] /\ Len(line[d]) \in Nat
      /\ <<>> \in Seq(Nat)
  BY DeviceFacts, EmptySeq DEF TypeOK
<1>3. /\ fifo' \in [Devices -> Seq(Nat)] /\ drained' \in [Devices -> Nat]
      /\ \/ fifo'[d] = <<>> /\ drained'[d] = Len(line[d])
         \/ fifo'[d] = fifo[d] /\ drained'[d] = drained[d]
      /\ \A u \in Devices \ {d} : /\ fifo'[u] = fifo[u]
                                  /\ drained'[u] = drained[u]
  BY <1>1, <1>2
<1>4. /\ floor' \in [Devices -> Nat] /\ floor'[d] = drained'[d]
      /\ \A u \in Devices \ {d} : floor'[u] = floor[u]
  BY <1>1, <1>2, <1>3
<1>5. /\ rx_data' \in [Devices -> Seq(Nat)] /\ rx_data'[d] = <<>>
      /\ \A u \in Devices : Len(rx_data'[u]) <= RxBufferSize
      /\ \A u \in Devices \ {d} : rx_data'[u] = rx_data[u]
      /\ rx_ticks' \in [Devices -> Nat]
      /\ rx_pending' \in [Devices -> BOOLEAN]
      /\ threshold' \in [Devices -> {1, HalfLevel}]
      /\ rx_irq' \in [Devices -> BOOLEAN]
      /\ \A u \in Devices : rx_pending'[u] => rx_pending[u] /\ u # d
      /\ TimerFlagIsTrue' /\ ThresholdFollowsPending'
  BY <1>1, EndServes
<1>6. /\ baud' \in [Devices -> board.bauds] /\ baud' \in [Devices -> Bauds]
  <2>1. board.bauds \in SUBSET Bauds
    BY DEF TypeOK, UartRxAssumption
  <2>2. QED
    BY <1>1, <2>1 DEF InUse, TypeOK
<1>7. TypeOK'
  <2>1. UNCHANGED <<board, initialized, callback, uart_idle_timer_ready,
                    uart_idle_timer_running, cpu, error_irq, timer,
                    timer_irq, since, line, last>>
    BY <1>1
  <2>2. \A u \in Devices : Len(fifo'[u]) <= FifoDepth
    <3>1. Len(<<>>) = 0 /\ 0 <= FifoDepth
      BY EmptySeq DEF UartRxAssumption
    <3>2. QED
      BY <1>3, <3>1 DEF TypeOK
  <2>3. /\ fifo' \in [Devices -> Seq(Nat)] /\ drained' \in [Devices -> Nat]
        /\ floor' \in [Devices -> Nat] /\ baud' \in [Devices -> Bauds]
    BY <1>3, <1>4, <1>6
  <2>4. QED
    BY <1>5, <2>1, <2>2, <2>3 DEF TypeOK, MaxSince
<1>8. Handlers'
  <2>1. cpu' = AtTask /\ (timer_irq' => timer' = 0)
    BY <1>1 DEF Handlers
  <2>2. QED
    BY <2>1, NoHandler DEF Handlers
<1>9. InUse'
  BY <1>1, <1>5, <1>6 DEF InUse
<1>10. PendingHasTimer'
  <2>1. \A u \in Devices : rx_pending[u] => uart_idle_timer_running
    BY <1>1, NoHandler DEF IdleTimerServes, PendingHasTimer
  <2>2. QED
    BY <1>1, <1>5, <2>1 DEF PendingHasTimer
<1>11. ASSUME NEW u \in Devices, u # d
       PROVE  Bytes(u)'
  <2>1. ~ ToBeDropped(u)
    BY <1>1, NoHandler DEF ToBeDropped, Erring
  <2>2. ErrorIsNoted(u) => ErrorIsNoted(u)'
    BY <1>1, <1>3, <1>4, <1>5, <1>11, UntouchedBytes DEF ErrorIsNoted, Erring
  <2>3. QED
    BY <1>1, <1>3, <1>4, <1>5, <1>11, <2>1, <2>2, UntouchedBytes
       DEF Bytes, BufferIsExact
<1>12. Bytes(d)'
  <2>1. Exact(d)' /\ floor'[d] <= drained'[d]
    BY <1>3, <1>4, <1>5, EmptiedIsExact
  <2>2. CASE fifo'[d] = <<>> /\ drained'[d] = Len(line[d])
    <3>1. FifoIsNext(d)' /\ Clean(d)' /\ MessageIsExact(d)'
      BY <1>1, <2>2, ReadFifo DEF Bytes
    <3>2. QED
      BY <2>1, <3>1 DEF Bytes, BufferIsExact, ErrorIsNoted
  <2>3. CASE fifo'[d] = fifo[d] /\ drained'[d] = drained[d]
    <3>1. /\ FifoIsNext(d)' /\ MessageIsExact(d)'
          /\ Clean(d) => Clean(d)'
      BY <1>1, <2>3 DEF Bytes, FifoIsNext, MessageIsExact, Clean
    <3>2. ErrorIsNoted(d)'
      BY <1>1, <3>1 DEF Bytes, ErrorIsNoted, Erring
    <3>3. QED
      BY <2>1, <3>1, <3>2 DEF Bytes, BufferIsExact
  <2>4. QED
    BY <1>3, <2>2, <2>3
<1>13. QED
  BY <1>5, <1>7, <1>8, <1>9, <1>10, <1>11, <1>12 DEF IdleTimerServes

-----------------------------------------------------------------------------
(* The steps of the hardware and the line. *)

(* A byte comes: it is the next in the FIFO and good, or an error is       *)
(* noted.                                                                  *)
LEMMA ArriveStep ==
  ASSUME UartRxAssumption, IInv, NEW d \in Devices, NEW good \in BOOLEAN,
         Arrive(d, good), UNCHANGED board
  PROVE  IInv'
<1> USE DEF IInv
<1> DEFINE n == Len(line[d]) + 1
           room == Len(fifo[d]) < FifoDepth
           byte == [good |-> good, gap |-> GapClass(d, since[d])]
<1>1. /\ line' = [line EXCEPT ![d] = Append(line[d], byte)]
      /\ since' = [since EXCEPT ![d] = 0]
      /\ fifo' = IF room THEN [fifo EXCEPT ![d] = Append(fifo[d], n)] ELSE fifo
      /\ error_irq' = [error_irq EXCEPT ![d] = @ \/ ~good \/ ~room]
      /\ UNCHANGED <<board, initialized, callback, baud, rx_data, rx_ticks,
                     rx_pending, uart_idle_timer_ready,
                     uart_idle_timer_running, cpu, threshold, timer,
                     timer_irq, floor, drained, last>>
  BY DEF Arrive, swVars
<1>2. rx_irq' = [rx_irq EXCEPT ![d] =
                   \/ @
                   \/ room /\ Len(fifo[d]) + 1 = threshold[d]
                   \/ room /\ board.level /\ Len(fifo[d]) + 1 >= threshold[d]]
  BY DEF Arrive
<1>3. /\ line \in [Devices -> Seq(Arrivals)]
      /\ fifo \in [Devices -> Seq(Nat)]
      /\ since \in [Devices -> 0 .. MaxSince]
      /\ rx_irq \in [Devices -> BOOLEAN] /\ error_irq \in [Devices -> BOOLEAN]
  BY DEF TypeOK, Arrivals
<1>4. /\ line[d] \in Seq(Arrivals) /\ Len(line[d]) \in Nat
      /\ fifo[d] \in Seq(Nat) /\ Len(fifo[d]) \in Nat /\ n \in Nat
      /\ FifoDepth \in Nat \ {0} /\ drained[d] \in Nat /\ floor[d] \in Nat
      /\ last[d] \in Messages
  BY DeviceFacts
<1>5. byte \in Arrivals /\ byte.good = good
  BY DEF Arrivals, GapClass
<1> HIDE DEF byte
<1>6. /\ Append(line[d], byte) \in Seq(Arrivals)
      /\ Len(Append(line[d], byte)) = n
      /\ \A i \in 1 .. Len(line[d]) : Append(line[d], byte)[i] = line[d][i]
      /\ Append(line[d], byte)[n] = byte
  BY <1>4, <1>5, AppendProperties
<1>7. /\ Append(fifo[d], n) \in Seq(Nat)
      /\ Len(Append(fifo[d], n)) = Len(fifo[d]) + 1
      /\ \A i \in 1 .. Len(fifo[d]) : Append(fifo[d], n)[i] = fifo[d][i]
      /\ Append(fifo[d], n)[Len(fifo[d]) + 1] = n
  BY <1>4, AppendProperties
<1>8. /\ line' \in [Devices -> Seq(Arrivals)]
      /\ line'[d] = Append(line[d], byte)
      /\ \A u \in Devices \ {d} : line'[u] = line[u]
  BY <1>1, <1>3, <1>6
<1>9. /\ fifo' \in [Devices -> Seq(Nat)]
      /\ fifo'[d] = IF room THEN Append(fifo[d], n) ELSE fifo[d]
      /\ \A u \in Devices \ {d} : fifo'[u] = fifo[u]
  <2>1. CASE room
    BY <1>1, <1>3, <1>7, <2>1
  <2>2. CASE ~ room
    BY <1>1, <1>3, <2>2
  <2>3. QED
    BY <2>1, <2>2
<1>10. /\ error_irq' \in [Devices -> BOOLEAN]
       /\ \A u \in Devices : error_irq[u] => error_irq'[u]
       /\ ~ good \/ ~ room => error_irq'[d]
  BY <1>1, <1>3
<1>11. rx_irq' \in [Devices -> BOOLEAN]
  BY <1>2, <1>3
<1>12. since' \in [Devices -> 0 .. MaxSince]
  <2>1. MaxSince \in Nat
    BY SilenceIsBounded DEF TypeOK
  <2> HIDE DEF MaxSince
  <2>2. 0 \in 0 .. MaxSince
    BY <2>1
  <2>3. QED
    BY <1>1, <1>3, <2>2
<1> HIDE DEF n, room
<1>13. TypeOK'
  <2>1. UNCHANGED <<board, initialized, callback, baud, rx_data, rx_ticks,
                    rx_pending, uart_idle_timer_ready,
                    uart_idle_timer_running, cpu, threshold, timer,
                    timer_irq, floor, drained, last>>
    BY <1>1
  <2>2. \A u \in Devices : Len(fifo'[u]) <= FifoDepth
    <3>1. CASE room
      <4>1. Len(fifo[d]) + 1 <= FifoDepth
        BY <1>4, <3>1 DEF room
      <4>2. Len(fifo'[d]) = Len(fifo[d]) + 1
        BY <1>7, <1>9, <3>1
      <4>3. QED
        BY <1>9, <4>1, <4>2 DEF TypeOK
    <3>2. CASE ~ room
      BY <1>9, <3>2 DEF TypeOK
    <3>3. QED
      BY <3>1, <3>2
  <2>3. MaxSince' = MaxSince
    BY <1>1 DEF MaxSince
  <2>4. QED
    BY <1>8, <1>9, <1>10, <1>11, <1>12, <2>1, <2>2, <2>3 DEF TypeOK, Arrivals
<1>14. Handlers' /\ InUse'
  BY <1>1 DEF Handlers, InUse
<1>15. IdleTimerServes'
  BY <1>1 DEF IdleTimerServes, TimerFlagIsTrue, PendingHasTimer,
              ThresholdFollowsPending
<1>16. ASSUME NEW u \in Devices
       PROVE  ToBeDropped(u) => ToBeDropped(u)'
  BY <1>1, <1>10 DEF ToBeDropped, Erring, Passed
<1>17. ASSUME NEW u \in Devices, u # d
       PROVE  Bytes(u)'
  <2>1. ErrorIsNoted(u) => ErrorIsNoted(u)'
    BY <1>1, <1>8, <1>9, <1>10, <1>17, UntouchedBytes
       DEF ErrorIsNoted, Erring
  <2>2. QED
    BY <1>1, <1>8, <1>9, <1>16, <1>17, <2>1, UntouchedBytes
       DEF Bytes, BufferIsExact
<1>18. Bytes(d)'
  <2> DEFINE k == Len(line[d])
             p == drained[d]
             f == Len(fifo[d])
  <2>1. /\ k \in Nat /\ p \in Nat /\ f \in Nat /\ n = k + 1
        /\ Len(line'[d]) = k + 1 /\ drained'[d] = p
        /\ \A i \in 1 .. k : line'[d][i] = line[d][i]
        /\ line'[d][k + 1] = byte
        /\ p <= k /\ f = Least(k - p, FifoDepth)
        /\ \A i \in 1 .. f : fifo[d][i] = p + i
    BY <1>1, <1>4, <1>6, <1>8 DEF n, Bytes, FifoIsNext
  <2>2. room <=> f < FifoDepth
    BY DEF room
  <2>3. /\ room => /\ Len(fifo'[d]) = f + 1
                   /\ \A i \in 1 .. f : fifo'[d][i] = fifo[d][i]
                   /\ fifo'[d][f + 1] = k + 1
        /\ ~ room => fifo'[d] = fifo[d] /\ Len(fifo'[d]) = f
    BY <1>7, <1>9 DEF n
  <2>4. Exact(d) => Exact(d)'
    <3>1. SUFFICES ASSUME Exact(d)
                   PROVE  Exact(d)'
      OBVIOUS
    <3>2. UNCHANGED <<rx_data, floor, drained>>
      BY <1>1
    <3>3. ASSUME NEW i \in 1 .. Len(line'[d]), floor[d] < i, i <= p
          PROVE  line'[d][i].good
      <4>1. i \in 1 .. k
        BY <2>1, <3>3
      <4>2. line[d][i].good
        BY <3>1, <3>3, <4>1 DEF Exact
      <4>3. QED
        BY <2>1, <4>1, <4>2
    <3>4. QED
      BY <3>1, <3>2, <3>3 DEF Exact
  <2>5. MessageIsExact(d)'
    <3>1. /\ last[d].start \in Nat /\ last[d].upto \in Nat
          /\ last[d].start <= last[d].upto /\ last[d].upto <= k
          /\ Len(last[d].bytes)
               = Least(last[d].upto - last[d].start, RxBufferSize)
          /\ \A i \in 1 .. Len(last[d].bytes) :
               last[d].bytes[i] = last[d].start + i
          /\ \A i \in 1 .. k :
               last[d].start < i /\ i <= last[d].upto => line[d][i].good
      BY <1>4 DEF Bytes, MessageIsExact, Messages
    <3>2. ASSUME NEW i \in 1 .. Len(line'[d]), last[d].start < i,
                 i <= last[d].upto
          PROVE  line'[d][i].good
      <4>1. i \in 1 .. k
        BY <2>1, <3>1, <3>2
      <4>2. line[d][i].good
        BY <3>1, <3>2, <4>1
      <4>3. QED
        BY <2>1, <4>1, <4>2
    <3>3. last[d].upto <= Len(line'[d])
      BY <2>1, <3>1
    <3>4. UNCHANGED last
      BY <1>1
    <3>5. QED
      BY <3>1, <3>2, <3>3, <3>4 DEF MessageIsExact
  <2> HIDE DEF k, p, f
  <2>6. FifoIsNext(d)'
    <3>1. p <= k + 1
      BY <2>1
    <3>2. CASE room
      <4>1. /\ f = k - p /\ Least(k + 1 - p, FifoDepth) = f + 1
            /\ k + 1 = p + (f + 1)
        BY <1>4, <2>1, <2>2, <3>2 DEF Least
      <4>2. \A i \in 1 .. f + 1 : i \in 1 .. f \/ i = f + 1
        BY <2>1
      <4>3. \A i \in 1 .. f + 1 : fifo'[d][i] = p + i
        BY <2>1, <2>3, <3>2, <4>1, <4>2
      <4>4. QED
        BY <2>1, <2>3, <3>1, <3>2, <4>1, <4>3 DEF FifoIsNext
    <3>3. CASE ~ room
      <4>1. Least(k + 1 - p, FifoDepth) = f
        BY <1>4, <2>1, <2>2, <3>3 DEF Least
      <4>2. QED
        BY <2>1, <2>3, <3>1, <3>3, <4>1 DEF FifoIsNext
    <3>4. QED
      BY <3>2, <3>3
  <2>7. ErrorIsNoted(d)'
    <3>1. CASE error_irq[d] \/ Erring(d, {"error"})
      BY <1>1, <1>10, <3>1 DEF ErrorIsNoted, Erring
    <3>2. CASE ~ good \/ ~ room
      BY <1>10, <3>2 DEF ErrorIsNoted
    <3>3. CASE Clean(d) /\ good /\ room
      <4>1. k - p = f /\ \A i \in 1 .. k : i > p => line[d][i].good
        BY <3>3 DEF Clean, k, p, f
      <4>2. /\ k + 1 - p = f + 1
            /\ \A i \in 1 .. k + 1 : i \in 1 .. k \/ i = k + 1
        BY <2>1, <4>1
      <4>3. \A i \in 1 .. k + 1 : i > p => line'[d][i].good
        BY <1>5, <2>1, <3>3, <4>1, <4>2
      <4>4. Clean(d)'
        BY <2>1, <2>3, <3>3, <4>2, <4>3 DEF Clean
      <4>5. QED
        BY <4>4 DEF ErrorIsNoted
    <3>4. QED
      BY <3>1, <3>2, <3>3 DEF Bytes, ErrorIsNoted
  <2>8. BufferIsExact(d)'
    BY <1>1, <1>16, <2>4 DEF Bytes, BufferIsExact
  <2>9. QED
    BY <2>5, <2>6, <2>7, <2>8 DEF Bytes
<1>19. QED
  BY <1>13, <1>14, <1>15, <1>17, <1>18

(* Time passes at task level, where every buffer is what it should be.     *)
LEMMA TickStep ==
  ASSUME UartRxAssumption, IInv, Tick
  PROVE  IInv'
<1> USE DEF IInv
<1>1. /\ cpu = AtTask
      /\ since' = [d \in Devices |-> Least(since[d] + 1, MaxSince)]
      /\ timer' = IF timer = 0 THEN 0 ELSE timer - 1
      /\ timer_irq' = (timer_irq \/ timer = 1)
      /\ UNCHANGED <<board, initialized, callback, baud, rx_data, rx_ticks,
                     rx_pending, uart_idle_timer_ready,
                     uart_idle_timer_running, cpu, threshold, fifo, rx_irq,
                     error_irq, line, floor, drained, last>>
  BY DEF Tick, swVars
<1>2. /\ timer \in 0 .. Period /\ Period \in Nat
      /\ since \in [Devices -> 0 .. MaxSince]
  BY DEF TypeOK, UartRxAssumption
<1>3. since' \in [Devices -> 0 .. MaxSince]
  <2>1. MaxSince \in Nat
    BY SilenceIsBounded DEF TypeOK
  <2> HIDE DEF MaxSince
  <2>2. ASSUME NEW d \in Devices
        PROVE  Least(since[d] + 1, MaxSince) \in 0 .. MaxSince
    <3>1. since[d] \in 0 .. MaxSince
      BY <1>2
    <3>2. QED
      BY <2>1, <3>1 DEF Least
  <2>3. QED
    BY <1>1, <2>2
<1>4. /\ timer' \in 0 .. Period
      /\ timer > 0 => timer' > 0 \/ timer = 1
      /\ timer' > 0 => timer > 0
      /\ timer = 1 => timer' = 0 /\ timer > 0
      /\ timer = 0 => timer' = 0
  BY <1>1, <1>2
<1>5. timer_irq' \in BOOLEAN /\ (timer_irq' <=> timer_irq \/ timer = 1)
  BY <1>1
<1>6. TypeOK'
  <2>1. UNCHANGED <<board, initialized, callback, baud, rx_data, rx_ticks,
                    rx_pending, uart_idle_timer_ready,
                    uart_idle_timer_running, cpu, threshold, fifo, rx_irq,
                    error_irq, line, floor, drained, last>>
    BY <1>1
  <2>2. MaxSince' = MaxSince
    BY <1>1 DEF MaxSince
  <2>3. QED
    BY <1>3, <1>4, <1>5, <2>1, <2>2 DEF TypeOK
<1>7. Handlers'
  <2>1. cpu' = AtTask /\ (timer_irq' => timer' = 0)
    BY <1>1, <1>4, <1>5 DEF Handlers
  <2>2. QED
    BY <2>1, NoHandler DEF Handlers
<1>8. InUse'
  BY <1>1 DEF InUse
<1>9. IdleTimerServes'
  <2>1. TimerFlagIsTrue'
    <3>1. (timer' > 0 \/ timer_irq') <=> (timer > 0 \/ timer_irq)
      BY <1>4, <1>5
    <3>2. QED
      BY <1>1, <3>1 DEF IdleTimerServes, TimerFlagIsTrue
  <2>2. PendingHasTimer' /\ ThresholdFollowsPending'
    BY <1>1 DEF IdleTimerServes, PendingHasTimer, ThresholdFollowsPending
  <2>3. QED
    BY <2>1, <2>2 DEF IdleTimerServes
<1>10. ASSUME NEW u \in Devices
       PROVE  Bytes(u)'
  <2>1. ErrorIsNoted(u) => ErrorIsNoted(u)'
    BY <1>1, UntouchedBytes DEF ErrorIsNoted, Erring
  <2>2. ~ ToBeDropped(u)
    BY <1>1, NoHandler DEF ToBeDropped, Erring
  <2>3. QED
    BY <1>1, <2>1, <2>2, UntouchedBytes DEF Bytes, BufferIsExact
<1>11. QED
  BY <1>6, <1>7, <1>8, <1>9, <1>10

-----------------------------------------------------------------------------
(* Theorems. *)

(* Nothing has begun. *)
LEMMA InitIsSound ==
  ASSUME UartRxAssumption, Init
  PROVE  IInv
<1>1. /\ 0 \in Devices /\ AtTask \in Places
      /\ RxBufferSize \in Nat \ {0} /\ FifoDepth \in Nat \ {0}
      /\ HalfLevel \in Nat \ {0} /\ Period \in Nat \ {0}
  BY NoHandler DEF UartRxAssumption
<1>2. InUse
  BY DEF Init, InUse
<1>3. /\ <<>> \in Seq(Nat) /\ <<>> \in Seq(Arrivals) /\ Len(<<>>) = 0
      /\ 1 .. 0 = {}
  BY EmptySeq
<1>4. NoMessage \in Messages /\ NoMessage.bytes = <<>>
      /\ NoMessage.start = 0 /\ NoMessage.upto = 0
  BY <1>3 DEF NoMessage, Messages
<1>5. MaxSince \in Nat
  BY <1>2, SilenceIsBounded DEF Init
<1>6. TypeOK
  <2>1. since \in [Devices -> 0 .. MaxSince]
    <3> HIDE DEF MaxSince
    <3>1. MaxSince \in 0 .. MaxSince
      BY <1>5
    <3>2. QED
      BY <3>1 DEF Init
  <2>2. /\ board \in Boards /\ baud \in [Devices -> Bauds]
    <3>1. board \in Boards /\ board.bauds \in SUBSET Bauds
      BY DEF Init, UartRxAssumption
    <3>2. QED
      BY <1>2, <3>1 DEF InUse
  <2>3. /\ initialized \in [Devices -> BOOLEAN]
        /\ callback \in [Devices -> BOOLEAN]
        /\ rx_pending \in [Devices -> BOOLEAN]
        /\ rx_irq \in [Devices -> BOOLEAN]
        /\ error_irq \in [Devices -> BOOLEAN]
        /\ uart_idle_timer_ready \in BOOLEAN
        /\ uart_idle_timer_running \in BOOLEAN /\ timer_irq \in BOOLEAN
    BY DEF Init
  <2>4. /\ rx_data \in [Devices -> Seq(Nat)] /\ fifo \in [Devices -> Seq(Nat)]
        /\ line \in [Devices -> Seq(Arrivals)]
        /\ rx_ticks \in [Devices -> Nat]
        /\ threshold \in [Devices -> {1, HalfLevel}]
        /\ floor \in [Devices -> Nat] /\ drained \in [Devices -> Nat]
        /\ timer \in 0 .. Period
    BY <1>1, <1>3 DEF Init
  <2>5. last \in [Devices -> Messages]
    BY <1>4 DEF Init
  <2>6. cpu \in Places
    BY <1>1 DEF Init
  <2>7. \A d \in Devices : /\ Len(rx_data[d]) <= RxBufferSize
                           /\ Len(fifo[d]) <= FifoDepth
    <3>1. \A d \in Devices : rx_data[d] = <<>> /\ fifo[d] = <<>>
      BY DEF Init
    <3>2. 0 <= RxBufferSize /\ 0 <= FifoDepth
      BY <1>1
    <3>3. QED
      BY <1>3, <3>1, <3>2
  <2>8. QED
    BY <2>1, <2>2, <2>3, <2>4, <2>5, <2>6, <2>7
       DEF TypeOK, Arrivals, Messages, Places
<1>7. Handlers
  <2>1. cpu = AtTask /\ ~ timer_irq
    BY DEF Init
  <2>2. QED
    BY <2>1, NoHandler DEF Handlers
<1>8. IdleTimerServes
  <2>1. TimerFlagIsTrue
    <3>1. ~ uart_idle_timer_running /\ ~ timer_irq
      BY DEF Init
    <3>2. timer = 0
      BY DEF Init
    <3>3. ~ (timer > 0)
      BY <3>2
    <3>4. QED
      BY <3>1, <3>3 DEF TimerFlagIsTrue
  <2>2. PendingHasTimer
    BY DEF Init, PendingHasTimer
  <2>3. ThresholdFollowsPending
    <3>1. \A d \in Devices : ~ rx_pending[d]
      BY DEF Init
    <3>2. \A d \in Devices : threshold[d] = 1 /\ rx_ticks[d] = 0
      BY DEF Init
    <3>3. \A d \in Devices : /\ threshold[d] = HalfLevel => HalfLevel = 1
                             /\ ~ (rx_ticks[d] > 0)
      BY <3>2
    <3>4. QED
      BY <3>1, <3>3 DEF ThresholdFollowsPending
  <2>4. QED
    BY <2>1, <2>2, <2>3 DEF IdleTimerServes
<1>9. ASSUME NEW d \in Devices
      PROVE  Bytes(d)
  <2>1. /\ Len(line[d]) = 0 /\ Len(fifo[d]) = 0 /\ Len(rx_data[d]) = 0
        /\ drained[d] = 0 /\ floor[d] = 0
        /\ last[d].start = 0 /\ last[d].upto = 0 /\ Len(last[d].bytes) = 0
    BY <1>3, <1>4 DEF Init
  <2>2. /\ Least(0 - 0, FifoDepth) = 0 /\ Least(0 - 0, RxBufferSize) = 0
        /\ 0 - 0 = 0 /\ 0 <= 0
    BY <1>1 DEF Least
  <2>3. FifoIsNext(d) /\ Clean(d)
    BY <1>3, <2>1, <2>2 DEF FifoIsNext, Clean
  <2>4. Exact(d) /\ MessageIsExact(d)
    BY <1>3, <2>1, <2>2 DEF Exact, MessageIsExact
  <2>5. floor[d] <= drained[d]
    BY <2>1
  <2>6. QED
    BY <2>3, <2>4, <2>5 DEF Bytes, ErrorIsNoted, BufferIsExact
<1>10. QED
  BY <1>2, <1>6, <1>7, <1>8, <1>9 DEF IInv

(* Every step of the driver, the hardware and the line keeps the           *)
(* invariant.                                                              *)
LEMMA NextKeeps ==
  ASSUME UartRxAssumption, IInv, [Next]_vars
  PROVE  IInv'
<1>1. CASE TimerStep
  <2>1. CASE TimerEnter
    BY <1>1, <2>1, TimerEnterStep DEF TimerStep
  <2>2. CASE TimerRestart
    BY <1>1, <2>2, TimerRestartStep DEF TimerStep
  <2>3. ASSUME NEW d \in Devices,
               \/ TimerRead(d) \/ TimerArm(d) \/ TimerCount(d)
               \/ TimerDeliver(d)
        PROVE  IInv'
    <3>1. UNCHANGED board
      BY <1>1 DEF TimerStep
    <3>2. QED
      BY <2>3, <3>1, TimerReadStep, TimerArmStep, TimerCountStep,
         TimerDeliverStep
  <2>4. QED
    BY <1>1, <2>1, <2>2, <2>3 DEF TimerStep
<1>2. CASE Tick
  BY <1>2, TickStep
<1>3. ASSUME NEW d \in Devices, TaskStep(d)
      PROVE  IInv'
  <2>1. UNCHANGED board
    BY <1>3 DEF TaskStep
  <2>2. CASE UartInit(d)
    BY <2>1, <2>2, UartInitStep
  <2>3. CASE \E registered \in BOOLEAN : SetCallback(d, registered)
    BY <2>1, <2>3, SetCallbackStep
  <2>4. CASE \E b \in board.bauds : SetBaud(d, b)
    BY <2>1, <2>4, SetBaudStep
  <2>5. QED
    BY <1>3, <2>2, <2>3, <2>4 DEF TaskStep
<1>4. ASSUME NEW d \in Devices, UartStep(d)
      PROVE  IInv'
  <2>1. UNCHANGED board
    BY <1>4 DEF UartStep
  <2>2. \/ UartEnter(d) \/ UartNext(d) \/ UartRead(d) \/ UartArm(d)
        \/ UartReset(d)
    BY <1>4 DEF UartStep
  <2>3. QED
    BY <2>1, <2>2, UartEnterStep, UartNextStep, UartReadStep, UartArmStep,
       UartResetStep
<1>5. ASSUME NEW d \in Devices, LineStep(d)
      PROVE  IInv'
  <2>1. PICK good \in BOOLEAN : Arrive(d, good)
    BY <1>5 DEF LineStep
  <2>2. UNCHANGED board
    BY <1>5 DEF LineStep
  <2>3. QED
    BY <2>1, <2>2, ArriveStep
<1>6. CASE UNCHANGED vars
  <2>1. UNCHANGED <<board, initialized, callback, baud, rx_data, rx_ticks,
                    rx_pending, uart_idle_timer_ready,
                    uart_idle_timer_running, cpu, threshold, fifo, rx_irq,
                    error_irq, timer, timer_irq, since, line, floor, drained,
                    last>>
    BY <1>6 DEF vars, swVars, hwVars, histVars
  <2>2. TypeOK'
    BY <2>1 DEF IInv, TypeOK, MaxSince
  <2>3. Handlers' /\ InUse'
    BY <2>1 DEF IInv, Handlers, InUse
  <2>4. IdleTimerServes'
    BY <2>1 DEF IInv, IdleTimerServes, TimerFlagIsTrue, PendingHasTimer,
                ThresholdFollowsPending
  <2>5. ASSUME NEW u \in Devices
        PROVE  Bytes(u)'
    <3>1. ErrorIsNoted(u) => ErrorIsNoted(u)'
      BY <2>1, UntouchedBytes DEF ErrorIsNoted, Erring
    <3>2. ToBeDropped(u) => ToBeDropped(u)'
      BY <2>1 DEF ToBeDropped, Erring, Passed
    <3>3. QED
      BY <2>1, <3>1, <3>2, UntouchedBytes DEF IInv, Bytes, BufferIsExact
  <2>6. QED
    BY <2>2, <2>3, <2>4, <2>5 DEF IInv
<1>7. QED
  BY <1>1, <1>2, <1>3, <1>4, <1>5, <1>6 DEF Next

(* The invariant holds in every state: what the handlers know, whom the    *)
(* timer serves, and where every byte that came is.                        *)
THEOREM ReceiveInvariant ==
  ASSUME UartRxAssumption
  PROVE  Spec => []IInv
<1>1. Init => IInv
  BY InitIsSound
<1>2. IInv /\ [Next]_vars => IInv'
  BY NextKeeps
<1>3. QED
  BY <1>1, <1>2, PTL DEF Spec

(* uart_drain_rx never fills a buffer beyond its end, and every variable   *)
(* has its type.                                                           *)
THEOREM TypeCorrect ==
  ASSUME UartRxAssumption
  PROVE  Spec => []TypeOK
<1>1. IInv => TypeOK
  BY DEF IInv
<1>2. QED
  BY <1>1, ReceiveInvariant, PTL

(* The shared idle timer of uart.c serves every UART that receives:        *)
(* uart_idle_timer_start returns early only while the timer counts or its  *)
(* interrupt waits.                                                        *)
THEOREM TimerServes ==
  ASSUME UartRxAssumption
  PROVE  Spec => []IdleTimerServes
<1>1. IInv => IdleTimerServes
  BY DEF IInv
<1>2. QED
  BY <1>1, ReceiveInvariant, PTL

(* A message given to the callback is the first bytes of what came since   *)
(* the one before: none lost, repeated or exchanged, none with an error,   *)
(* whatever the order of interrupts, overruns and line errors.             *)
THEOREM PrefixDelivered ==
  ASSUME UartRxAssumption
  PROVE  Spec => []DeliversPrefix
<1>1. IInv => DeliversPrefix
  <2> SUFFICES ASSUME IInv, NEW d \in Devices
               PROVE  /\ last[d].bytes =
                           [i \in 1 .. Least(last[d].upto - last[d].start,
                                             RxBufferSize)
                              |-> last[d].start + i]
                      /\ \A i \in 1 .. Len(last[d].bytes) :
                           line[d][last[d].bytes[i]].good
    BY DEF DeliversPrefix
  <2> DEFINE m == last[d]
             k == Len(m.bytes)
             n == Len(line[d])
  <2>1. /\ m \in Messages /\ n \in Nat /\ RxBufferSize \in Nat
    BY DeviceFacts DEF IInv
  <2>2. /\ m.bytes \in Seq(Nat) /\ m.start \in Nat /\ m.upto \in Nat
    BY <2>1 DEF Messages
  <2>3. k \in Nat /\ DOMAIN m.bytes = 1 .. k /\ m.bytes \in [1 .. k -> Nat]
    BY <2>2, LenProperties
  <2>4. /\ m.start <= m.upto /\ m.upto <= n
        /\ k = Least(m.upto - m.start, RxBufferSize)
        /\ \A i \in 1 .. k : m.bytes[i] = m.start + i
        /\ \A i \in 1 .. n : m.start < i /\ i <= m.upto => line[d][i].good
    BY DEF IInv, Bytes, MessageIsExact
  <2>5. m.bytes = [i \in 1 .. k |-> m.start + i]
    BY <2>3, <2>4
  <2> HIDE DEF m, k, n
  <2>6. k <= m.upto - m.start
    BY <2>1, <2>2, <2>4 DEF Least
  <2>7. ASSUME NEW i \in 1 .. k
        PROVE  line[d][m.bytes[i]].good
    <3>1. /\ m.start + i \in 1 .. n /\ m.start < m.start + i
          /\ m.start + i <= m.upto
      BY <2>1, <2>2, <2>3, <2>4, <2>6
    <3>2. QED
      BY <2>4, <3>1
  <2>8. QED
    BY <2>4, <2>5, <2>7 DEF m, k
<1>2. QED
  BY <1>1, ReceiveInvariant, PTL

-----------------------------------------------------------------------------
(* Time. *)

(* An interrupt that looks at the level of the FIFO, and no task that      *)
(* masks it while time passes.                                             *)
Prompt == board.level /\ ~ board.masked

(* The runs of the timer that are left of r of them, after the current one. *)
Runs(r) == (r - 1) * Period

(* A handler has read this UART and has not armed it yet. *)
AtArm(d) == cpu.step \in {"arm", "error arm"} /\ cpu.dev = d

(* The timer's handler has looked into the UART's FIFO ... *)
Looked(d) ==
  \/ cpu.step \in {"drain", "arm"} /\ cpu.dev > d
  \/ cpu.step = "arm" /\ cpu.dev = d
  \/ cpu.step \in {"scan", "restart"}

(* ... and has counted its window down. *)
Counted(d) ==
  \/ cpu.step = "scan" /\ cpu.dev > d
  \/ cpu.step = "restart"

(* The time until the timer's next interrupt, if it is started now. *)
RunLeft == IF uart_idle_timer_running THEN timer ELSE Period

(* The time until the UART's window is next counted down, and until its    *)
(* FIFO is next looked into.                                               *)
ToCount(d) == IF cpu.isr # "timer" THEN RunLeft
              ELSE IF Counted(d) THEN Period ELSE 0
ToLook(d) == IF cpu.isr # "timer" THEN RunLeft
             ELSE IF Looked(d) THEN Period ELSE 0

(* While its handler runs, the timer has not counted yet. *)
RunIsWhole ==
  cpu.isr = "timer" /\ uart_idle_timer_running => timer = Period

(* A message is not delivered before the window has passed since its last  *)
(* byte.  If another byte has come since then, it is read before that, or  *)
(* it came after the window.                                               *)
NotEarly(d) ==
  /\ rx_pending[d] /\ drained[d] = Len(line[d]) /\ ~ AtArm(d) =>
       since[d] + ToCount(d) + Runs(rx_ticks[d]) >= Runs(IdleTicks(baud[d]))
  /\ /\ rx_pending[d] /\ drained[d] < Len(line[d])
     /\ cpu.isr = "timer" /\ Looked(d) /\ ~ AtArm(d) /\ ~ Counted(d)
     /\ rx_ticks[d] <= 1
     => line[d][drained[d] + 1].gap # "close"

(* Bytes up to the threshold are noted. *)
LevelIsNoted(d) ==
  Len(fifo[d]) >= threshold[d] =>
    \/ rx_irq[d]
    \/ cpu.isr = "uart" /\ cpu.dev = d /\ cpu.step = "drain"

(* What is in the buffer is being received, and so is what was read. *)
BufferIsTimed(d) ==
  /\ rx_data[d] # <<>> => rx_pending[d] \/ AtArm(d)
  /\ floor[d] < drained[d] => rx_data[d] # <<>>

(* A byte is looked at within a run of the timer, and a message delivered  *)
(* within its window and a run.                                            *)
NotLate(d) ==
  /\ fifo[d] # <<>> => since[d] + ToLook(d) <= Period
  /\ AtArm(d) => since[d] + ToCount(d) <= Period
  /\ rx_pending[d] /\ ~ AtArm(d) =>
       since[d] + ToCount(d) + Runs(rx_ticks[d])
         <= Runs(IdleTicks(baud[d])) + Period

(* No byte of what is being received came apart from the one before. *)
Together(d) ==
  \A i \in 1 .. Len(line[d]) :
    floor[d] + 1 < i => line[d][i].gap # "apart"

(* Nor did one of the last message. *)
MessageIsTogether(d) ==
  \A i \in 1 .. Len(line[d]) :
    last[d].start + 1 < i /\ i <= last[d].upto => line[d][i].gap # "apart"

Timing(d) ==
  /\ initialized[d] => NotEarly(d) /\ BufferIsTimed(d)
  /\ Prompt /\ initialized[d] =>
       LevelIsNoted(d) /\ NotLate(d) /\ Together(d)
  /\ Prompt => MessageIsTogether(d)

TimingInv == RunIsWhole /\ \A d \in Devices : Timing(d)

-----------------------------------------------------------------------------
(* Numbers of time. *)

(* The runs that are left, counted down. *)
LEMMA RunsCount ==
  ASSUME UartRxAssumption, NEW r \in Nat
  PROVE  /\ Runs(r) \in Int
         /\ r > 0 => Runs(r) >= 0
         /\ r > 0 => Runs(r - 1) \in Int /\ Runs(r) = Runs(r - 1) + Period
<1>1. Period \in Nat \ {0}
  BY DEF UartRxAssumption
<1>2. \A p \in Nat, k \in Int : k * p \in Int /\ (k >= 0 => k * p >= 0)
  OBVIOUS
<1>3. \A p \in Nat, k \in Int : k * p = (k - 1) * p + p
  OBVIOUS
<1>4. r - 1 \in Int /\ r - 1 - 1 \in Int /\ (r > 0 => r - 1 >= 0)
  OBVIOUS
<1>5. QED
  BY <1>1, <1>2, <1>3, <1>4 DEF Runs

(* All the runs but the first take the idle window at least, and less than *)
(* a run more.                                                             *)
LEMMA RunsOfWindow ==
  ASSUME UartRxAssumption, NEW b \in Bauds
  PROVE  /\ IdleUnits[b] \in Nat /\ Period \in Nat \ {0}
         /\ IdleTicks(b) \in Nat /\ Runs(IdleTicks(b)) \in Nat
         /\ Runs(IdleTicks(b)) >= IdleUnits[b]
         /\ Runs(IdleTicks(b)) < IdleUnits[b] + Period
<1>1. IdleUnits[b] \in Nat \ {0} /\ Period \in Nat \ {0}
  BY DEF UartRxAssumption
<1> DEFINE q == (IdleUnits[b] + Period - 1) \div Period
<1>2. q \in Nat
  BY <1>1
<1>3. /\ q * Period <= IdleUnits[b] + Period - 1
      /\ IdleUnits[b] + Period - 1 < q * Period + Period
  <2>1. \A n \in Nat, p \in Nat \ {0} :
          (n \div p) * p <= n /\ n < (n \div p) * p + p
    OBVIOUS
  <2>2. IdleUnits[b] + Period - 1 \in Nat
    BY <1>1
  <2>3. QED
    BY <1>1, <2>1, <2>2
<1>4. q * Period \in Nat
  BY <1>1, <1>2
<1>5. IdleTicks(b) = q + 1
  BY DEF IdleTicks
<1> HIDE DEF q
<1>6. IdleTicks(b) - 1 = q /\ IdleTicks(b) \in Nat
  BY <1>2, <1>5
<1>7. Runs(IdleTicks(b)) = q * Period
  BY <1>6 DEF Runs
<1> DEFINE w == q * Period
           u == IdleUnits[b]
<1>8. w \in Nat /\ w <= u + Period - 1 /\ u + Period - 1 < w + Period
      /\ u \in Nat \ {0} /\ Period \in Nat \ {0}
  BY <1>1, <1>3, <1>4
<1> HIDE DEF w, u
<1>9. w >= u /\ w < u + Period /\ u \in Nat
  BY <1>8
<1>10. Runs(IdleTicks(b)) = w
  BY <1>7 DEF w
<1>11. QED
  BY <1>6, <1>8, <1>9, <1>10 DEF u

(* The next run of the timer is a run away at most. *)
LEMMA RunIsNear ==
  ASSUME UartRxAssumption, TypeOK, NEW d \in Devices
  PROVE  /\ RunLeft \in 0 .. Period /\ ToCount(d) \in 0 .. Period
         /\ ToLook(d) \in 0 .. Period /\ Period \in Nat \ {0}
<1>1. timer \in 0 .. Period /\ Period \in Nat \ {0}
  BY DEF TypeOK, UartRxAssumption
<1>2. RunLeft \in 0 .. Period /\ 0 \in 0 .. Period /\ Period \in 0 .. Period
  BY <1>1 DEF RunLeft
<1>3. QED
  BY <1>1, <1>2 DEF ToCount, ToLook

(* The types of the times at a UART. *)
LEMMA TimeFacts ==
  ASSUME UartRxAssumption, TypeOK, NEW d \in Devices
  PROVE  /\ since[d] \in Nat /\ ToCount(d) \in Nat /\ ToLook(d) \in Nat
         /\ ToCount(d) <= Period /\ ToLook(d) <= Period
         /\ RunLeft \in Nat /\ RunLeft <= Period
         /\ Runs(rx_ticks[d]) \in Int /\ rx_ticks[d] \in Nat
         /\ rx_ticks[d] > 0 => Runs(rx_ticks[d]) >= 0
         /\ Runs(IdleTicks(baud[d])) \in Nat /\ Period \in Nat \ {0}
         /\ Runs(IdleTicks(baud[d])) >= IdleUnits[baud[d]]
         /\ Runs(IdleTicks(baud[d])) < IdleUnits[baud[d]] + Period
         /\ IdleUnits[baud[d]] \in Nat
<1>1. since[d] \in Nat
  <2>1. since \in [Devices -> 0 .. MaxSince]
    BY DEF TypeOK
  <2> HIDE DEF MaxSince
  <2>2. since[d] \in 0 .. MaxSince
    BY <2>1
  <2>3. QED
    BY <2>2
<1>2. RunLeft \in 0 .. Period /\ ToCount(d) \in 0 .. Period
      /\ ToLook(d) \in 0 .. Period /\ Period \in Nat \ {0}
  BY RunIsNear
<1>3. /\ RunLeft \in Nat /\ ToCount(d) \in Nat /\ ToLook(d) \in Nat
      /\ RunLeft <= Period /\ ToCount(d) <= Period /\ ToLook(d) <= Period
  BY <1>2
<1>4. rx_ticks[d] \in Nat /\ baud[d] \in Bauds
  BY DeviceFacts
<1>5. QED
  BY <1>1, <1>2, <1>3, <1>4, RunsCount, RunsOfWindow

-----------------------------------------------------------------------------
(* What a step keeps. *)

(* What is a UART's own. *)
Own(d) == <<initialized[d], baud[d], rx_ticks[d], rx_pending[d],
            threshold[d], fifo[d], since[d], line[d], floor[d], drained[d],
            last[d]>>

(* The UART's handler is about to read it. *)
Draining(d) == cpu.isr = "uart" /\ cpu.dev = d /\ cpu.step = "drain"

(* The timer's handler has looked and will count. *)
Between(d) ==
  cpu.isr = "timer" /\ Looked(d) /\ ~ AtArm(d) /\ ~ Counted(d)

(* A step that is none of this UART's, and leaves the time to its next     *)
(* ones as it was.                                                         *)
LEMMA TimedAlike ==
  ASSUME NEW u \in Devices, Timing(u), board' = board, Own(u)' = Own(u),
         rx_data'[u] = <<>> <=> rx_data[u] = <<>>,
         AtArm(u)' <=> AtArm(u),
         initialized[u] /\ (rx_pending[u] \/ AtArm(u)) =>
           ToCount(u)' = ToCount(u),
         initialized[u] /\ fifo[u] # <<>> => ToLook(u)' = ToLook(u),
         Between(u)' => Between(u) \/ ~ (drained[u] < Len(line[u]))
                        \/ ~ rx_pending[u] \/ ~ initialized[u],
         Len(fifo[u]) >= threshold[u] /\ (rx_irq[u] \/ Draining(u)) =>
           rx_irq'[u] \/ Draining(u)'
  PROVE  Timing(u)'
<1>1. /\ initialized'[u] = initialized[u] /\ baud'[u] = baud[u]
      /\ rx_ticks'[u] = rx_ticks[u] /\ rx_pending'[u] = rx_pending[u]
      /\ threshold'[u] = threshold[u] /\ fifo'[u] = fifo[u]
      /\ since'[u] = since[u] /\ line'[u] = line[u] /\ floor'[u] = floor[u]
      /\ drained'[u] = drained[u] /\ last'[u] = last[u]
  BY DEF Own
<1>2. Prompt' <=> Prompt
  BY DEF Prompt
<1>3. ASSUME initialized[u], NotEarly(u)
      PROVE  NotEarly(u)'
  <2>1. ASSUME rx_pending[u], drained[u] = Len(line[u]), ~ AtArm(u)
        PROVE  since'[u] + ToCount(u)' + Runs(rx_ticks[u])'
                 >= Runs(IdleTicks(baud[u]))'
    <3>1. since[u] + ToCount(u) + Runs(rx_ticks[u])
            >= Runs(IdleTicks(baud[u]))
      BY <1>3, <2>1 DEF NotEarly
    <3>2. /\ Runs(rx_ticks[u])' = Runs(rx_ticks[u])
          /\ Runs(IdleTicks(baud[u]))' = Runs(IdleTicks(baud[u]))
      BY <1>1 DEF Runs, IdleTicks
    <3>3. ToCount(u)' = ToCount(u) /\ since'[u] = since[u]
      BY <1>1, <1>3, <2>1
    <3>4. QED
      BY <3>1, <3>2, <3>3, Zenon
  <2>2. ASSUME rx_pending[u], drained[u] < Len(line[u]), Between(u)',
               rx_ticks[u] <= 1
        PROVE  line[u][drained[u] + 1].gap # "close"
    <3>1. Between(u)
      BY <1>3, <2>2
    <3>2. QED
      BY <1>3, <2>2, <3>1 DEF NotEarly, Between
  <2>3. QED
    BY <1>1, <2>1, <2>2 DEF NotEarly, Between
<1>4. ASSUME initialized[u], NotLate(u)
      PROVE  NotLate(u)'
  <2>1. /\ Runs(rx_ticks[u])' = Runs(rx_ticks[u])
        /\ Runs(IdleTicks(baud[u]))' = Runs(IdleTicks(baud[u]))
    BY <1>1 DEF Runs, IdleTicks
  <2>2. fifo'[u] # <<>> => since'[u] + ToLook(u)' <= Period
    BY <1>1, <1>4 DEF NotLate
  <2>3. AtArm(u)' => since'[u] + ToCount(u)' <= Period
    BY <1>1, <1>4 DEF NotLate
  <2>4. rx_pending'[u] /\ ~ AtArm(u)' =>
          since'[u] + ToCount(u)' + Runs(rx_ticks[u])'
            <= Runs(IdleTicks(baud[u]))' + Period
    BY <1>1, <1>4, <2>1 DEF NotLate
  <2>5. QED
    BY <2>2, <2>3, <2>4 DEF NotLate
<1>5. LevelIsNoted(u) => LevelIsNoted(u)'
  BY <1>1 DEF LevelIsNoted, Draining
<1>6. BufferIsTimed(u) => BufferIsTimed(u)'
  BY <1>1 DEF BufferIsTimed
<1>7. Together(u) => Together(u)'
  BY <1>1 DEF Together
<1>8. MessageIsTogether(u) => MessageIsTogether(u)'
  BY <1>1 DEF MessageIsTogether
<1>9. QED
  BY <1>1, <1>2, <1>3, <1>4, <1>5, <1>6, <1>7, <1>8 DEF Timing

(* A UART that had bytes is read: they came a run of the timer ago at most *)
(* and are to be armed.                                                    *)
LEMMA TimedRead ==
  ASSUME UartRxAssumption, IInv, NEW d \in Devices, Timing(d),
         board' = board, initialized[d], fifo[d] # <<>>,
         initialized'[d] = initialized[d], rx_data'[d] = Store(d),
         fifo'[d] = <<>>, drained'[d] = Len(line[d]),
         threshold'[d] = threshold[d], since'[d] = since[d],
         line'[d] = line[d], floor'[d] = floor[d], last'[d] = last[d],
         AtArm(d)', ToCount(d)' = ToLook(d)
  PROVE  Timing(d)'
<1>1. NotEarly(d)'
  <2>1. ~ (drained'[d] < Len(line'[d]))
    <3>1. Len(line[d]) \in Nat
      BY DeviceFacts DEF IInv
    <3>2. QED
      BY <3>1
  <2>2. QED
    BY <2>1 DEF NotEarly
<1>2. BufferIsTimed(d)'
  BY StoreIsFit DEF BufferIsTimed, IInv
<1>3. ASSUME Prompt
      PROVE  LevelIsNoted(d)' /\ NotLate(d)' /\ Together(d)'
  <2>1. LevelIsNoted(d)'
    <3>1. Len(fifo'[d]) = 0
      BY EmptySeq
    <3>2. threshold'[d] \in {1, HalfLevel} /\ HalfLevel \in Nat \ {0}
      BY DeviceFacts DEF IInv
    <3>3. ~ (Len(fifo'[d]) >= threshold'[d])
      BY <3>1, <3>2
    <3>4. QED
      BY <3>3 DEF LevelIsNoted
  <2>2. since'[d] + ToCount(d)' <= Period
    BY <1>3 DEF Timing, NotLate
  <2>3. QED
    BY <1>3, <2>1, <2>2 DEF Timing, NotLate, Together
<1>4. Prompt' <=> Prompt
  BY DEF Prompt
<1>5. MessageIsTogether(d) => MessageIsTogether(d)'
  BY DEF MessageIsTogether
<1>6. QED
  BY <1>1, <1>2, <1>3, <1>4, <1>5 DEF Timing

(* A window begins. *)
LEMMA TimedArm ==
  ASSUME UartRxAssumption, IInv, IInv', NEW d \in Devices, Timing(d),
         board' = board, initialized[d], AtArm(d), ~ AtArm(d)', Arm(d),
         UNCHANGED <<initialized, baud, rx_data, fifo, since, line, floor,
                     drained, last>>,
         ToCount(d)' = ToCount(d), ToLook(d)' = ToLook(d)
  PROVE  Timing(d)'
<1>1. /\ rx_pending \in [Devices -> BOOLEAN] /\ rx_ticks \in [Devices -> Nat]
      /\ threshold \in [Devices -> {1, HalfLevel}]
      /\ rx_irq \in [Devices -> BOOLEAN]
  BY DEF IInv, TypeOK
<1>2. rx_pending'[d] /\ rx_ticks'[d] = IdleTicks(baud[d])
  BY <1>1 DEF Arm
<1>3. /\ since[d] \in Nat /\ ToCount(d) \in Nat
      /\ Runs(IdleTicks(baud[d])) \in Nat /\ Period \in Nat
  BY TimeFacts DEF IInv
<1>4. /\ Runs(rx_ticks[d])' = Runs(IdleTicks(baud[d]))
      /\ Runs(IdleTicks(baud[d]))' = Runs(IdleTicks(baud[d]))
  BY <1>2 DEF Runs, IdleTicks
<1>5. NotEarly(d)'
  <2>1. since[d] + ToCount(d) + Runs(IdleTicks(baud[d]))
          >= Runs(IdleTicks(baud[d]))
    BY <1>3
  <2>2. ~ (rx_ticks'[d] <= 1)
    <3>1. IdleTicks(baud[d]) \in Nat /\ IdleTicks(baud[d]) >= 2
      BY DeviceFacts DEF IInv
    <3>2. QED
      BY <1>2, <3>1
  <2>3. since'[d] + ToCount(d)' + Runs(rx_ticks[d])'
          >= Runs(IdleTicks(baud[d]))'
    BY <1>4, <2>1
  <2>4. QED
    BY <2>2, <2>3 DEF NotEarly
<1>6. BufferIsTimed(d) => BufferIsTimed(d)'
  BY <1>2 DEF BufferIsTimed
<1>7. ASSUME Prompt
      PROVE  LevelIsNoted(d)' /\ NotLate(d)' /\ Together(d)'
  <2>1. LevelIsNoted(d)'
    <3>1. CASE rx_pending[d]
      <4>1. threshold'[d] = threshold[d] /\ rx_irq'[d] = rx_irq[d]
        BY <3>1 DEF Arm
      <4>2. ~ Draining(d)
        BY DEF Draining, AtArm
      <4>3. QED
        BY <1>7, <4>1, <4>2 DEF Timing, LevelIsNoted, Draining
    <3>2. CASE ~ rx_pending[d]
      <4>1. /\ threshold' = [threshold EXCEPT ![d] = HalfLevel]
            /\ rx_irq' = [rx_irq EXCEPT ![d] =
                            @ \/ (board.level /\ Len(fifo[d]) >= HalfLevel)]
        BY <3>2 DEF Arm, SetThreshold
      <4>2. /\ threshold'[d] = HalfLevel
            /\ board.level /\ Len(fifo[d]) >= HalfLevel => rx_irq'[d]
        BY <1>1, <4>1
      <4>3. QED
        BY <1>7, <4>2 DEF LevelIsNoted, Prompt
    <3>3. QED
      BY <3>1, <3>2
  <2>2. since[d] + ToCount(d) <= Period
    BY <1>7 DEF Timing, NotLate
  <2>3. since[d] + ToCount(d) + Runs(IdleTicks(baud[d]))
          <= Runs(IdleTicks(baud[d])) + Period
    BY <1>3, <2>2
  <2>4. since'[d] + ToCount(d)' + Runs(rx_ticks[d])'
          <= Runs(IdleTicks(baud[d]))' + Period
    BY <1>4, <2>3
  <2>5. fifo'[d] # <<>> => since'[d] + ToLook(d)' <= Period
    BY <1>7 DEF Timing, NotLate
  <2>6. NotLate(d)'
    BY <2>4, <2>5 DEF NotLate
  <2>7. Together(d)'
    BY <1>7 DEF Timing, Together
  <2>8. QED
    BY <2>1, <2>6, <2>7
<1>8. Prompt' <=> Prompt
  BY DEF Prompt
<1>9. MessageIsTogether(d) => MessageIsTogether(d)'
  BY DEF MessageIsTogether
<1>10. QED
  BY <1>5, <1>6, <1>7, <1>8, <1>9 DEF Timing

(* A message is over: what is left in the FIFO is noted. *)
LEMMA TimedEnd ==
  ASSUME UartRxAssumption, IInv, IInv', NEW d \in Devices, Timing(d),
         board' = board, initialized[d], initialized'[d] = initialized[d],
         EndReception(d, fifo'[d]), ~ AtArm(d)',
         since'[d] = since[d], line'[d] = line[d],
         floor'[d] = drained'[d],
         \/ fifo'[d] = fifo[d] /\ drained'[d] = drained[d]
            /\ (fifo[d] # <<>> => ToLook(d)' = ToLook(d))
         \/ fifo'[d] = <<>> /\ drained'[d] = Len(line[d]),
         \/ last'[d] = last[d]
         \/ last'[d].start = floor[d]
  PROVE  Timing(d)'
<1>1. /\ rx_pending \in [Devices -> BOOLEAN]
      /\ threshold \in [Devices -> {1, HalfLevel}]
      /\ rx_data \in [Devices -> Seq(Nat)]
      /\ rx_irq \in [Devices -> BOOLEAN]
  BY DEF IInv, TypeOK
<1>2. /\ rx_data'[d] = <<>> /\ ~ rx_pending'[d] /\ threshold'[d] = 1
      /\ board.level /\ Len(fifo'[d]) >= 1 => rx_irq'[d]
  BY <1>1 DEF EndReception, SetThreshold
<1>3. /\ floor[d] \in Nat /\ drained[d] \in Nat /\ drained'[d] \in Nat
      /\ Len(line[d]) \in Nat
      /\ floor[d] <= drained[d] /\ drained[d] <= Len(line[d])
  <2>1. drained'[d] \in Nat
    BY DEF IInv, TypeOK
  <2>2. QED
    BY <2>1, DeviceFacts DEF IInv, Bytes, BufferIsExact, FifoIsNext
<1>4. NotEarly(d)'
  BY <1>2 DEF NotEarly
<1>5. BufferIsTimed(d)'
  <2>1. ~ (floor'[d] < drained'[d])
    BY <1>3
  <2>2. QED
    BY <1>2, <2>1 DEF BufferIsTimed
<1>6. ASSUME Prompt
      PROVE  LevelIsNoted(d)' /\ NotLate(d)' /\ Together(d)'
  <2>1. LevelIsNoted(d)'
    BY <1>2, <1>6 DEF LevelIsNoted, Prompt
  <2>2. NotLate(d)'
    BY <1>2, <1>6 DEF Timing, NotLate
  <2>3. Together(d)'
    <3>1. \A i \in 1 .. Len(line[d]) :
            floor[d] + 1 < i => line[d][i].gap # "apart"
      BY <1>6 DEF Timing, Together
    <3>2. \A i \in 1 .. Len(line[d]) :
            floor'[d] + 1 < i => floor[d] + 1 < i
      BY <1>3
    <3>3. QED
      BY <3>1, <3>2 DEF Together
  <2>4. QED
    BY <2>1, <2>2, <2>3
<1>7. Prompt' <=> Prompt
  BY DEF Prompt
<1>8. ASSUME Prompt
      PROVE  MessageIsTogether(d)'
  <2>1. CASE last'[d] = last[d]
    BY <1>8, <2>1 DEF Timing, MessageIsTogether
  <2>2. CASE last'[d].start = floor[d]
    BY <1>8, <2>2 DEF Timing, Together, MessageIsTogether
  <2>3. QED
    BY <2>1, <2>2
<1>9. QED
  BY <1>4, <1>5, <1>6, <1>7, <1>8 DEF Timing

(* An empty FIFO is read. *)
LEMMA TimedEmptyRead ==
  ASSUME UartRxAssumption, IInv, NEW d \in Devices, Timing(d),
         board' = board, fifo[d] = <<>>,
         rx_data'[d] = Store(d), fifo'[d] = <<>>, drained'[d] = Len(line[d]),
         UNCHANGED <<initialized, baud, rx_ticks, rx_pending, threshold,
                     since, line, floor, last>>,
         AtArm(d)' <=> AtArm(d), ToCount(d)' = ToCount(d)
  PROVE  Timing(d)'
<1>1. drained[d] = Len(line[d])
  BY EmptyIsClean DEF IInv, Bytes
<1>2. Own(d)' = Own(d)
  BY <1>1 DEF Own
<1>3. rx_data'[d] = <<>> <=> rx_data[d] = <<>>
  <2> DEFINE a == Len(rx_data[d])
             size == RxBufferSize
  <2>1. /\ rx_data[d] \in Seq(Nat) /\ fifo[d] \in Seq(Nat)
        /\ a \in Nat /\ size \in Nat \ {0} /\ Len(fifo[d]) = 0
    BY DeviceFacts, EmptySeq DEF IInv
  <2>2. Store(d) \in Seq(Nat) /\ Len(Store(d)) = Least(a + 0, size)
    BY <2>1, StoreAppends
  <2>3. a = 0 <=> Least(a + 0, size) = 0
    BY <2>1 DEF Least
  <2>4. /\ rx_data[d] = <<>> <=> a = 0
        /\ Store(d) = <<>> <=> Len(Store(d)) = 0
    BY <2>1, <2>2, EmptySeq
  <2>5. QED
    BY <2>2, <2>3, <2>4
<1>4. ~ (drained[d] < Len(line[d])) /\ ~ (Len(fifo[d]) >= threshold[d])
  <2>1. Len(line[d]) \in Nat /\ Len(fifo[d]) = 0
        /\ threshold[d] \in {1, HalfLevel} /\ HalfLevel \in Nat \ {0}
    BY DeviceFacts, EmptySeq DEF IInv
  <2>2. QED
    BY <1>1, <2>1
<1>5. QED
  BY <1>2, <1>3, <1>4, TimedAlike

(* The window of one UART leaves the others alone. *)
LEMMA ArmOthers ==
  ASSUME TypeOK, NEW d \in Devices, Arm(d), NEW u \in Devices, u # d
  PROVE  /\ rx_ticks'[u] = rx_ticks[u] /\ rx_pending'[u] = rx_pending[u]
         /\ threshold'[u] = threshold[u] /\ rx_irq'[u] = rx_irq[u]
<1>1. /\ rx_pending \in [Devices -> BOOLEAN] /\ rx_ticks \in [Devices -> Nat]
      /\ threshold \in [Devices -> {1, HalfLevel}]
      /\ rx_irq \in [Devices -> BOOLEAN]
  BY DEF TypeOK
<1>2. CASE rx_pending[d]
  BY <1>1, <1>2 DEF Arm
<1>3. CASE ~ rx_pending[d]
  BY <1>1, <1>3 DEF Arm, SetThreshold
<1>4. QED
  BY <1>2, <1>3

(* So does the end of its message. *)
LEMMA EndOthers ==
  ASSUME TypeOK, NEW d \in Devices, NEW f, EndReception(d, f),
         NEW u \in Devices, u # d
  PROVE  /\ rx_ticks'[u] = rx_ticks[u] /\ rx_pending'[u] = rx_pending[u]
         /\ threshold'[u] = threshold[u] /\ rx_irq'[u] = rx_irq[u]
         /\ rx_data'[u] = rx_data[u]
<1>1. /\ rx_pending \in [Devices -> BOOLEAN] /\ rx_ticks \in [Devices -> Nat]
      /\ threshold \in [Devices -> {1, HalfLevel}]
      /\ rx_data \in [Devices -> Seq(Nat)] /\ rx_irq \in [Devices -> BOOLEAN]
  BY DEF TypeOK
<1>2. QED
  BY <1>1 DEF EndReception, SetThreshold

(* To start the timer does not change the time it has left. *)
LEMMA StartKeepsRun ==
  ASSUME TypeOK, StartTimer
  PROVE  /\ RunLeft' = RunLeft /\ uart_idle_timer_running'
         /\ uart_idle_timer_running => timer' = timer
         /\ ~ uart_idle_timer_running => timer' = Period
<1>1. uart_idle_timer_running \in BOOLEAN
  BY DEF TypeOK
<1>2. CASE uart_idle_timer_running
  <2>1. UNCHANGED <<uart_idle_timer_running, timer>>
    BY <1>2 DEF StartTimer
  <2>2. QED
    BY <1>2, <2>1 DEF RunLeft
<1>3. CASE ~ uart_idle_timer_running
  <2>1. uart_idle_timer_running' = TRUE /\ timer' = Period
    BY <1>3 DEF StartTimer
  <2>2. QED
    BY <1>3, <2>1 DEF RunLeft
<1>4. QED
  BY <1>1, <1>2, <1>3

-----------------------------------------------------------------------------
(* The times across the steps of a UART's handler. *)

(* No time passes for a UART that nothing is done to, as long as the       *)
(* timer's handler does not run.                                           *)
LEMMA TimedApart ==
  ASSUME NEW u \in Devices, Timing(u), board' = board, Own(u)' = Own(u),
         rx_data'[u] = rx_data[u], rx_irq'[u] = rx_irq[u],
         ~ AtArm(u), ~ AtArm(u)', ~ Draining(u), RunLeft' = RunLeft,
         cpu.isr # "timer", cpu'.isr # "timer"
  PROVE  Timing(u)'
<1>1. ToCount(u)' = ToCount(u) /\ ToLook(u)' = ToLook(u)
  BY DEF ToCount, ToLook
<1>2. ~ Between(u)'
  BY DEF Between
<1>3. QED
  BY <1>1, <1>2, TimedAlike

(* An interrupt is taken. *)
LEMMA UartEnterTimed ==
  ASSUME UartRxAssumption, IInv, TimingInv, NEW d \in Devices,
         UartEnter(d), UNCHANGED board
  PROVE  TimingInv'
<1>1. /\ cpu.isr = "none"
      /\ cpu' = [isr |-> "uart", dev |-> d, step |-> "next",
                 pending |-> FALSE]
      /\ UNCHANGED <<initialized, baud, rx_data, rx_ticks, rx_pending,
                     uart_idle_timer_running, threshold, fifo, rx_irq,
                     timer, since, line, floor, drained, last>>
  BY DEF UartEnter, swVars, hwVars, histVars
<1>2. cpu'.isr = "uart" /\ cpu'.step = "next"
  BY <1>1
<1>3. RunLeft' = RunLeft
  BY <1>1 DEF RunLeft
<1>4. ASSUME NEW u \in Devices
      PROVE  Timing(u)'
  <2>1. ~ AtArm(u) /\ ~ Draining(u)
    BY <1>1, NoHandler DEF IInv, Handlers, AtArm, Draining
  <2>2. ~ AtArm(u)'
    BY <1>2 DEF AtArm
  <2>3. Own(u)' = Own(u) /\ rx_data'[u] = rx_data[u] /\ rx_irq'[u] = rx_irq[u]
    BY <1>1 DEF Own
  <2>4. QED
    BY <1>1, <1>2, <1>3, <2>1, <2>2, <2>3, TimedApart DEF TimingInv
<1>5. QED
  BY <1>2, <1>4 DEF TimingInv, RunIsWhole

(* The next of its interrupts: the one that was noted is being served.     *)
LEMMA UartNextTimed ==
  ASSUME UartRxAssumption, IInv, TimingInv, NEW d \in Devices,
         UartNext(d), UNCHANGED board
  PROVE  TimingInv'
<1>1. /\ cpu.isr = "uart" /\ cpu.dev = d /\ cpu.step = "next"
      /\ UNCHANGED <<initialized, baud, rx_data, rx_ticks, rx_pending,
                     uart_idle_timer_running, threshold, fifo, timer, since,
                     line, floor, drained, last>>
      /\ \/ cpu' = [cpu EXCEPT !.step = "error"] /\ rx_irq' = rx_irq
         \/ /\ rx_irq' = [rx_irq EXCEPT ![d] = FALSE]
            /\ cpu' = [cpu EXCEPT !.step = "drain"]
         \/ /\ rx_irq' = rx_irq
            /\ cpu' = IF IrqPending THEN Chained ELSE AtTask
  BY DEF UartNext, Return, swVars, histVars
<1>2. cpu \in Places /\ rx_irq \in [Devices -> BOOLEAN]
  BY RunningHandler DEF IInv, TypeOK
<1>3. /\ cpu'.isr \in {"uart", "none"}
      /\ cpu'.step \in {"error", "drain", "chained", "none"}
  <2>1. CASE cpu' = [cpu EXCEPT !.step = "error"]
    BY <1>1, <1>2, <2>1 DEF Places
  <2>2. CASE cpu' = [cpu EXCEPT !.step = "drain"]
    BY <1>1, <1>2, <2>2 DEF Places
  <2>3. CASE cpu' = Chained \/ cpu' = AtTask
    <3>1. cpu'.isr = "none" /\ cpu'.step \in {"chained", "none"}
      BY <2>3, NoHandler
    <3>2. QED
      BY <3>1
  <2>4. QED
    BY <1>1, <2>1, <2>2, <2>3
<1>4. ASSUME NEW u \in Devices
      PROVE  rx_irq'[u] = rx_irq[u] \/ Draining(u)'
  <2>1. CASE rx_irq' = rx_irq
    BY <2>1
  <2>2. CASE /\ rx_irq' = [rx_irq EXCEPT ![d] = FALSE]
             /\ cpu' = [cpu EXCEPT !.step = "drain"]
    <3>1. cpu'.isr = "uart" /\ cpu'.dev = d /\ cpu'.step = "drain"
      BY <1>1, <1>2, <2>2 DEF Places
    <3>2. u # d => rx_irq'[u] = rx_irq[u]
      BY <1>2, <2>2
    <3>3. QED
      BY <3>1, <3>2 DEF Draining
  <2>3. QED
    BY <1>1, <2>1, <2>2
<1>5. RunLeft' = RunLeft
  BY <1>1 DEF RunLeft
<1>6. ASSUME NEW u \in Devices
      PROVE  Timing(u)'
  <2>1. ~ AtArm(u) /\ ~ Draining(u) /\ ~ AtArm(u)' /\ ~ Between(u)'
    BY <1>1, <1>3 DEF AtArm, Draining, Between
  <2>2. ToCount(u)' = ToCount(u) /\ ToLook(u)' = ToLook(u)
    BY <1>1, <1>3, <1>5 DEF ToCount, ToLook
  <2>3. rx_irq'[u] = rx_irq[u] \/ Draining(u)'
    BY <1>4
  <2>4. Own(u)' = Own(u) /\ rx_data'[u] = rx_data[u]
    BY <1>1 DEF Own
  <2>5. QED
    BY <2>1, <2>2, <2>3, <2>4, TimedAlike DEF TimingInv
<1>7. QED
  BY <1>3, <1>6 DEF TimingInv, RunIsWhole

(* What came is read. *)
LEMMA UartReadTimed ==
  ASSUME UartRxAssumption, IInv, TimingInv, NEW d \in Devices,
         UartRead(d), UNCHANGED board
  PROVE  TimingInv'
<1>1. /\ cpu.isr = "uart" /\ cpu.dev = d /\ cpu.step \in {"drain", "error"}
      /\ rx_data' = [rx_data EXCEPT ![d] = Store(d)]
      /\ fifo' = [fifo EXCEPT ![d] = <<>>]
      /\ drained' = [drained EXCEPT ![d] = Len(line[d])]
      /\ cpu' = [cpu EXCEPT !.step =
                   IF @ = "drain"
                   THEN IF fifo[d] # <<>> THEN "arm" ELSE "next"
                   ELSE IF fifo[d] # <<>> THEN "error arm" ELSE "reset"]
      /\ UNCHANGED <<initialized, baud, rx_ticks, rx_pending,
                     uart_idle_timer_running, threshold, rx_irq, timer,
                     since, line, floor, last>>
  BY DEF UartRead, Read, MarkDrained
<1>2. /\ cpu \in Places /\ initialized[d]
      /\ rx_data \in [Devices -> Seq(Nat)] /\ fifo \in [Devices -> Seq(Nat)]
      /\ drained \in [Devices -> Nat]
  BY <1>1, RunningHandler DEF IInv, TypeOK, Handlers
<1>3. /\ cpu'.isr = "uart" /\ cpu'.dev = d
      /\ fifo[d] # <<>> => cpu'.step \in {"arm", "error arm"}
      /\ fifo[d] = <<>> => cpu'.step \in {"next", "reset"}
  BY <1>1, <1>2 DEF Places
<1>4. /\ rx_data'[d] = Store(d) /\ fifo'[d] = <<>>
      /\ drained'[d] = Len(line[d])
      /\ \A u \in Devices \ {d} : /\ rx_data'[u] = rx_data[u]
                                  /\ fifo'[u] = fifo[u]
                                  /\ drained'[u] = drained[u]
  BY <1>1, <1>2
<1>5. RunLeft' = RunLeft
  BY <1>1 DEF RunLeft
<1>6. ASSUME NEW u \in Devices, u # d
      PROVE  Timing(u)'
  <2>1. ~ AtArm(u) /\ ~ AtArm(u)' /\ ~ Draining(u)
    BY <1>1, <1>3, <1>6 DEF AtArm, Draining
  <2>2. Own(u)' = Own(u) /\ rx_data'[u] = rx_data[u] /\ rx_irq'[u] = rx_irq[u]
    BY <1>1, <1>4, <1>6 DEF Own
  <2>3. QED
    BY <1>1, <1>3, <1>5, <2>1, <2>2, TimedApart DEF TimingInv
<1>7. /\ ToCount(d)' = ToCount(d) /\ ToCount(d)' = ToLook(d)
      /\ ~ AtArm(d) /\ (AtArm(d)' <=> fifo[d] # <<>>)
  BY <1>1, <1>3, <1>5 DEF ToCount, ToLook, AtArm
<1>8. Timing(d)'
  <2>1. CASE fifo[d] # <<>>
    BY <1>1, <1>2, <1>4, <1>7, <2>1, TimedRead DEF TimingInv
  <2>2. CASE fifo[d] = <<>>
    BY <1>1, <1>4, <1>7, <2>2, TimedEmptyRead DEF TimingInv
  <2>3. QED
    BY <2>1, <2>2
<1>9. QED
  BY <1>3, <1>6, <1>8 DEF TimingInv, RunIsWhole

(* The window begins. *)
LEMMA UartArmTimed ==
  ASSUME UartRxAssumption, IInv, IInv', TimingInv, NEW d \in Devices,
         UartArm(d), UNCHANGED board
  PROVE  TimingInv'
<1>1. /\ cpu.isr = "uart" /\ cpu.dev = d
      /\ cpu.step \in {"arm", "error arm"} /\ Arm(d)
      /\ cpu' = [cpu EXCEPT !.step = IF @ = "arm" THEN "next" ELSE "reset"]
      /\ UNCHANGED <<initialized, baud, rx_data, fifo, since, line, floor,
                     drained, last>>
  BY DEF UartArm, histVars
<1>2. cpu \in Places /\ initialized[d]
  BY <1>1, RunningHandler DEF IInv, Handlers
<1>3. cpu'.isr = "uart" /\ cpu'.dev = d /\ cpu'.step \in {"next", "reset"}
  BY <1>1, <1>2 DEF Places
<1>4. RunLeft' = RunLeft
  BY <1>1, StartKeepsRun DEF Arm, IInv
<1>5. ASSUME NEW u \in Devices, u # d
      PROVE  Timing(u)'
  <2>1. ~ AtArm(u) /\ ~ AtArm(u)' /\ ~ Draining(u)
    BY <1>1, <1>3, <1>5 DEF AtArm, Draining
  <2>2. /\ rx_ticks'[u] = rx_ticks[u] /\ rx_pending'[u] = rx_pending[u]
        /\ threshold'[u] = threshold[u] /\ rx_irq'[u] = rx_irq[u]
    BY <1>1, <1>5, ArmOthers DEF IInv
  <2>3. Own(u)' = Own(u) /\ rx_data'[u] = rx_data[u]
    BY <1>1, <2>2 DEF Own
  <2>4. QED
    BY <1>1, <1>3, <1>4, <2>1, <2>2, <2>3, TimedApart DEF TimingInv
<1>6. /\ ToCount(d)' = ToCount(d) /\ ToLook(d)' = ToLook(d)
      /\ AtArm(d) /\ ~ AtArm(d)'
  BY <1>1, <1>3, <1>4 DEF ToCount, ToLook, AtArm
<1>7. Timing(d)'
  BY <1>1, <1>2, <1>6, TimedArm DEF TimingInv
<1>8. QED
  BY <1>3, <1>5, <1>7 DEF TimingInv, RunIsWhole

(* What was received is dropped. *)
LEMMA UartResetTimed ==
  ASSUME UartRxAssumption, IInv, IInv', TimingInv, NEW d \in Devices,
         UartReset(d), UNCHANGED board
  PROVE  TimingInv'
<1>1. /\ cpu.isr = "uart" /\ cpu.dev = d /\ cpu.step = "reset"
      /\ EndReception(d, fifo[d])
      /\ floor' = [floor EXCEPT ![d] = drained[d]]
      /\ cpu' = [cpu EXCEPT !.step = "next"]
      /\ UNCHANGED <<initialized, baud, uart_idle_timer_running, fifo, timer,
                     since, line, drained, last>>
  BY DEF UartReset
<1>2. cpu \in Places /\ initialized[d] /\ floor \in [Devices -> Nat]
  BY <1>1, RunningHandler DEF IInv, Handlers, TypeOK
<1>3. cpu'.isr = "uart" /\ cpu'.dev = d /\ cpu'.step = "next"
  BY <1>1, <1>2 DEF Places
<1>4. RunLeft' = RunLeft
  BY <1>1 DEF RunLeft
<1>5. ASSUME NEW u \in Devices, u # d
      PROVE  Timing(u)'
  <2>1. ~ AtArm(u) /\ ~ AtArm(u)' /\ ~ Draining(u)
    BY <1>1, <1>3, <1>5 DEF AtArm, Draining
  <2>2. /\ rx_ticks'[u] = rx_ticks[u] /\ rx_pending'[u] = rx_pending[u]
        /\ threshold'[u] = threshold[u] /\ rx_irq'[u] = rx_irq[u]
        /\ rx_data'[u] = rx_data[u]
    BY <1>1, <1>5, EndOthers DEF IInv
  <2>3. Own(u)' = Own(u)
    BY <1>1, <1>2, <1>5, <2>2 DEF Own
  <2>4. QED
    BY <1>1, <1>3, <1>4, <2>1, <2>2, <2>3, TimedApart DEF TimingInv
<1>6. ToLook(d)' = ToLook(d) /\ ~ AtArm(d)'
  BY <1>1, <1>3, <1>4 DEF ToLook, AtArm
<1>7. Timing(d)'
  <2>1. floor'[d] = drained'[d] /\ EndReception(d, fifo'[d])
    BY <1>1, <1>2
  <2>2. QED
    BY <1>1, <1>2, <1>6, <2>1, TimedEnd DEF TimingInv
<1>8. QED
  BY <1>3, <1>5, <1>7 DEF TimingInv, RunIsWhole

-----------------------------------------------------------------------------
(* The times across the steps of the timer's handler. *)

(* A run is over, and is counted from now on. *)
LEMMA TimerEnterTimed ==
  ASSUME UartRxAssumption, IInv, TimingInv, TimerEnter, UNCHANGED board
  PROVE  TimingInv'
<1>1. /\ cpu.isr = "none" /\ timer_irq /\ uart_idle_timer_running' = FALSE
      /\ cpu' = [isr |-> "timer", dev |-> 0, step |-> "drain",
                 pending |-> FALSE]
      /\ UNCHANGED <<initialized, baud, rx_data, rx_ticks, rx_pending,
                     threshold, fifo, rx_irq, since, line, floor, drained,
                     last>>
  BY DEF TimerEnter, histVars
<1>2. cpu'.isr = "timer" /\ cpu'.step = "drain" /\ cpu'.dev = 0
  BY <1>1
<1>3. RunLeft = 0
  <2>1. timer = 0 /\ uart_idle_timer_running
    BY <1>1 DEF IInv, Handlers, IdleTimerServes, TimerFlagIsTrue
  <2>2. QED
    BY <2>1 DEF RunLeft
<1>4. ASSUME NEW u \in Devices
      PROVE  Timing(u)'
  <2>1. ~ AtArm(u) /\ ~ Draining(u) /\ ~ AtArm(u)'
    BY <1>1, <1>2, NoHandler DEF IInv, Handlers, AtArm, Draining
  <2>2. ~ (0 > u)
    BY DEF Devices, UartRxAssumption
  <2>3. ~ Looked(u)' /\ ~ Counted(u)'
    BY <1>2, <2>2 DEF Looked, Counted
  <2>4. ToCount(u)' = ToCount(u) /\ ToLook(u)' = ToLook(u) /\ ~ Between(u)'
    BY <1>1, <1>2, <1>3, <2>3 DEF ToCount, ToLook, Between
  <2>5. Own(u)' = Own(u) /\ rx_data'[u] = rx_data[u] /\ rx_irq'[u] = rx_irq[u]
    BY <1>1 DEF Own
  <2>6. QED
    BY <1>1, <2>1, <2>4, <2>5, TimedAlike DEF TimingInv
<1>5. QED
  BY <1>1, <1>4 DEF TimingInv, RunIsWhole

(* No time passes for a UART that the timer's handler does nothing to.     *)
LEMMA TimedAside ==
  ASSUME NEW u \in Devices, Timing(u), board' = board, Own(u)' = Own(u),
         rx_data'[u] = rx_data[u], rx_irq'[u] = rx_irq[u],
         cpu.isr = "timer", cpu'.isr = "timer",
         ~ AtArm(u), ~ AtArm(u)', Looked(u)' <=> Looked(u),
         Counted(u)' <=> Counted(u)
  PROVE  Timing(u)'
<1>1. ToCount(u)' = ToCount(u) /\ ToLook(u)' = ToLook(u)
  BY DEF ToCount, ToLook
<1>2. Between(u)' => Between(u)
  BY DEF Between
<1>3. ~ Draining(u)
  BY DEF Draining
<1>4. QED
  BY <1>1, <1>2, <1>3, TimedAlike

(* Its first loop passes the other UARTs by. *)
LEMMA LookPasses ==
  ASSUME UartRxAssumption, cpu \in Places, cpu.step \in {"drain", "arm"},
         NEW u \in Devices, u # cpu.dev,
         \/ cpu'.step = "arm" /\ cpu'.dev = cpu.dev
         \/ cpu' = NextDevice("drain", "scan")
  PROVE  /\ ~ AtArm(u) /\ ~ AtArm(u)' /\ (Looked(u)' <=> Looked(u))
         /\ ~ Counted(u) /\ ~ Counted(u)'
<1>1. cpu.dev \in Nat /\ u \in Nat /\ ~ (0 > u)
      /\ (cpu.dev + 1 > u <=> cpu.dev > u)
      /\ (u <= cpu.dev => cpu.dev > u)
  <2>1. cpu.dev \in Nat /\ u \in Nat
    BY NextDevicePlace
  <2>2. QED
    BY <2>1
<1>2. \/ cpu'.step = "arm" /\ cpu'.dev = cpu.dev
      \/ cpu'.step = "drain" /\ cpu'.dev = cpu.dev + 1
      \/ cpu'.step = "scan" /\ cpu'.dev = 0 /\ u <= cpu.dev
  BY NextDevicePlace
<1>3. QED
  BY <1>1, <1>2 DEF AtArm, Looked, Counted

(* What came is read. *)
LEMMA TimerReadTimed ==
  ASSUME UartRxAssumption, IInv, TimingInv, NEW d \in Devices,
         TimerRead(d), UNCHANGED board
  PROVE  TimingInv'
<1>1. /\ cpu.isr = "timer" /\ cpu.dev = d /\ cpu.step = "drain"
      /\ IF initialized[d]
         THEN /\ rx_data' = [rx_data EXCEPT ![d] = Store(d)]
              /\ fifo' = [fifo EXCEPT ![d] = <<>>]
              /\ drained' = [drained EXCEPT ![d] = Len(line[d])]
         ELSE UNCHANGED <<rx_data, fifo, drained>>
      /\ cpu' = IF initialized[d] /\ fifo[d] # <<>>
                THEN [cpu EXCEPT !.step = "arm"]
                ELSE NextDevice("drain", "scan")
      /\ UNCHANGED <<initialized, baud, rx_ticks, rx_pending,
                     uart_idle_timer_running, threshold, rx_irq, timer,
                     since, line, floor, last>>
  BY DEF TimerRead, Read, MarkDrained
<1>2. /\ cpu \in Places
      /\ rx_data \in [Devices -> Seq(Nat)] /\ fifo \in [Devices -> Seq(Nat)]
      /\ drained \in [Devices -> Nat]
      /\ ~ (d > d) /\ ~ (0 > d)
  <2>1. d \in Nat
    BY DEF Devices, UartRxAssumption
  <2>2. ~ (d > d) /\ ~ (0 > d)
    BY <2>1
  <2>3. QED
    BY <2>2, RunningHandler DEF IInv, TypeOK
<1>3. /\ cpu'.isr = "timer"
      /\ \/ /\ cpu'.step = "arm" /\ cpu'.dev = d
            /\ initialized[d] /\ fifo[d] # <<>>
         \/ /\ cpu' = NextDevice("drain", "scan")
            /\ cpu'.step \in {"drain", "scan"}
            /\ cpu'.step = "scan" => cpu'.dev = 0
            /\ ~ (initialized[d] /\ fifo[d] # <<>>)
  <2>1. CASE initialized[d] /\ fifo[d] # <<>>
    <3>1. cpu' = [cpu EXCEPT !.step = "arm"]
      BY <1>1, <2>1
    <3>2. QED
      BY <1>1, <1>2, <2>1, <3>1 DEF Places
  <2>2. CASE ~ (initialized[d] /\ fifo[d] # <<>>)
    <3>1. cpu' = NextDevice("drain", "scan")
      BY <1>1, <2>2
    <3>2. QED
      BY <1>1, <1>2, <2>2, <3>1, NextDevicePlace
  <2>3. QED
    BY <2>1, <2>2
<1>4. /\ initialized[d] => /\ rx_data'[d] = Store(d) /\ fifo'[d] = <<>>
                           /\ drained'[d] = Len(line[d])
      /\ \A u \in Devices :
           u # d \/ ~ initialized[u] =>
             /\ rx_data'[u] = rx_data[u] /\ fifo'[u] = fifo[u]
             /\ drained'[u] = drained[u]
  BY <1>1, <1>2
<1>5. ASSUME NEW u \in Devices, u # d
      PROVE  Timing(u)'
  <2>1. Own(u)' = Own(u) /\ rx_data'[u] = rx_data[u] /\ rx_irq'[u] = rx_irq[u]
    BY <1>1, <1>4, <1>5 DEF Own
  <2>2. /\ ~ AtArm(u) /\ ~ AtArm(u)' /\ (Looked(u)' <=> Looked(u))
        /\ ~ Counted(u) /\ ~ Counted(u)'
    BY <1>1, <1>2, <1>3, <1>5, LookPasses
  <2>3. QED
    BY <1>1, <1>3, <2>1, <2>2, TimedAside DEF TimingInv
<1>6. /\ ~ AtArm(d) /\ ~ Looked(d) /\ ~ Counted(d) /\ ~ Counted(d)'
      /\ ~ Draining(d)
  BY <1>1, <1>2, <1>3 DEF AtArm, Looked, Counted, Draining
<1>7. ToCount(d)' = ToCount(d) /\ ToCount(d)' = ToLook(d)
  BY <1>1, <1>3, <1>6 DEF ToCount, ToLook
<1>8. Timing(d)'
  <2>1. CASE initialized[d] /\ fifo[d] # <<>>
    <3>1. AtArm(d)'
      BY <1>3, <2>1 DEF AtArm
    <3>2. QED
      BY <1>1, <1>4, <1>7, <2>1, <3>1, TimedRead DEF TimingInv
  <2>2. CASE initialized[d] /\ fifo[d] = <<>>
    <3>1. ~ AtArm(d)'
      BY <1>3, <2>2 DEF AtArm
    <3>2. QED
      BY <1>1, <1>4, <1>6, <1>7, <2>2, <3>1, TimedEmptyRead DEF TimingInv
  <2>3. CASE ~ initialized[d]
    <3>1. ~ AtArm(d)'
      BY <1>3, <2>3 DEF AtArm
    <3>2. Own(d)' = Own(d) /\ rx_data'[d] = rx_data[d]
          /\ rx_irq'[d] = rx_irq[d]
      BY <1>1, <1>4, <2>3 DEF Own
    <3>3. QED
      BY <1>6, <2>3, <3>1, <3>2, TimedAlike DEF TimingInv
  <2>4. QED
    BY <2>1, <2>2, <2>3
<1>9. QED
  BY <1>1, <1>5, <1>8 DEF TimingInv, RunIsWhole

(* The window begins. *)
LEMMA TimerArmTimed ==
  ASSUME UartRxAssumption, IInv, IInv', TimingInv, NEW d \in Devices,
         TimerArm(d), UNCHANGED board
  PROVE  TimingInv'
<1>1. /\ cpu.isr = "timer" /\ cpu.dev = d /\ cpu.step = "arm" /\ Arm(d)
      /\ cpu' = NextDevice("drain", "scan")
      /\ UNCHANGED <<initialized, baud, rx_data, fifo, since, line, floor,
                     drained, last>>
  BY DEF TimerArm, histVars
<1>2. /\ cpu \in Places /\ initialized[d]
      /\ d \in Nat /\ d + 1 > d /\ ~ (0 > d)
  <2>1. cpu \in Places /\ initialized[d]
    BY <1>1, RunningHandler DEF IInv, Handlers
  <2>2. d \in Nat
    BY <2>1, NextDevicePlace
  <2>3. QED
    BY <2>1, <2>2
<1>3. /\ cpu'.isr = "timer"
      /\ \/ cpu'.step = "drain" /\ cpu'.dev = d + 1
         \/ cpu'.step = "scan" /\ cpu'.dev = 0
  BY <1>1, <1>2, NextDevicePlace
<1>4. ASSUME NEW u \in Devices, u # d
      PROVE  Timing(u)'
  <2>1. /\ rx_ticks'[u] = rx_ticks[u] /\ rx_pending'[u] = rx_pending[u]
        /\ threshold'[u] = threshold[u] /\ rx_irq'[u] = rx_irq[u]
    BY <1>1, <1>4, ArmOthers DEF IInv
  <2>2. Own(u)' = Own(u) /\ rx_data'[u] = rx_data[u]
    BY <1>1, <2>1 DEF Own
  <2>3. /\ ~ AtArm(u) /\ ~ AtArm(u)' /\ (Looked(u)' <=> Looked(u))
        /\ ~ Counted(u) /\ ~ Counted(u)'
    BY <1>1, <1>2, <1>4, LookPasses
  <2>4. QED
    BY <1>1, <1>3, <2>1, <2>2, <2>3, TimedAside DEF TimingInv
<1>5. /\ AtArm(d) /\ ~ AtArm(d)' /\ Looked(d) /\ Looked(d)'
      /\ ~ Counted(d) /\ ~ Counted(d)'
  BY <1>1, <1>2, <1>3 DEF AtArm, Looked, Counted
<1>6. ToCount(d)' = ToCount(d) /\ ToLook(d)' = ToLook(d)
  BY <1>1, <1>3, <1>5 DEF ToCount, ToLook
<1>7. Timing(d)'
  BY <1>1, <1>2, <1>5, <1>6, TimedArm DEF TimingInv
<1>8. RunIsWhole'
  BY <1>1, StartKeepsRun DEF Arm, IInv, TimingInv, RunIsWhole
<1>9. QED
  BY <1>4, <1>7, <1>8 DEF TimingInv

(* Its second loop passes the other UARTs by. *)
LEMMA CountPasses ==
  ASSUME UartRxAssumption, NEW d \in Devices, NEW u \in Devices, u # d,
         cpu.step = "scan", cpu.dev = d,
         \/ cpu'.step = "scan" /\ cpu'.dev = d + 1
         \/ cpu'.step = "restart" /\ u <= d
  PROVE  /\ ~ AtArm(u) /\ ~ AtArm(u)' /\ Looked(u) /\ Looked(u)'
         /\ (Counted(u)' <=> Counted(u))
<1>1. (d + 1 > u <=> d > u) /\ (u <= d => d > u)
  <2>1. d \in Nat /\ u \in Nat
    BY DEF Devices, UartRxAssumption
  <2>2. QED
    BY <2>1
<1>2. QED
  BY <1>1 DEF AtArm, Looked, Counted

(* And is through with this one. *)
LEMMA CountEnds ==
  ASSUME UartRxAssumption, NEW d \in Devices,
         cpu.isr = "timer", cpu'.isr = "timer",
         cpu.step = "scan", cpu.dev = d,
         \/ cpu'.step = "scan" /\ cpu'.dev = d + 1
         \/ cpu'.step = "restart"
  PROVE  /\ ~ AtArm(d) /\ ~ AtArm(d)' /\ ~ Draining(d)
         /\ ~ Between(d)' /\ ToCount(d) = 0 /\ ToCount(d)' = Period
         /\ ToLook(d)' = ToLook(d)
<1>1. d + 1 > d /\ ~ (d > d)
  <2>1. d \in Nat
    BY DEF Devices, UartRxAssumption
  <2>2. QED
    BY <2>1
<1>2. Looked(d) /\ Looked(d)' /\ ~ Counted(d) /\ Counted(d)'
  BY <1>1 DEF Looked, Counted
<1>3. QED
  BY <1>2 DEF AtArm, Draining, Between, ToCount, ToLook

(* A run of the window is counted. *)
LEMMA TimedCount ==
  ASSUME UartRxAssumption, IInv, NEW d \in Devices, Timing(d),
         board' = board, rx_ticks[d] > 0, rx_ticks'[d] = rx_ticks[d] - 1,
         UNCHANGED <<initialized, baud, rx_data, rx_pending, threshold, fifo,
                     rx_irq, since, line, floor, drained, last>>,
         ~ AtArm(d), ~ AtArm(d)', ~ Draining(d), ~ Between(d)',
         ToCount(d) = 0, ToCount(d)' = Period, ToLook(d)' = ToLook(d)
  PROVE  Timing(d)'
<1> DEFINE r == rx_ticks[d]
           w == Runs(IdleTicks(baud[d]))
           s == since[d]
<1>1. /\ r \in Nat /\ Runs(r) \in Int /\ s \in Nat /\ w \in Nat
      /\ Period \in Nat
  BY TimeFacts DEF IInv
<1>2. Runs(r - 1) \in Int /\ Runs(r) = Runs(r - 1) + Period
  BY <1>1, RunsCount
<1>3. /\ Runs(rx_ticks[d])' = Runs(r - 1)
      /\ Runs(IdleTicks(baud[d]))' = w /\ since'[d] = s
  BY DEF Runs, IdleTicks
<1>4. /\ s + 0 + Runs(r) >= w => s + Period + Runs(r - 1) >= w
      /\ s + 0 + Runs(r) <= w + Period =>
           s + Period + Runs(r - 1) <= w + Period
  <2> HIDE DEF r, w, s
  <2> DEFINE a == Runs(r)
             b == Runs(r - 1)
  <2>1. a \in Int /\ b \in Int /\ a = b + Period
    BY <1>1, <1>2
  <2> HIDE DEF a, b
  <2>2. /\ s + 0 + a >= w => s + Period + b >= w
        /\ s + 0 + a <= w + Period => s + Period + b <= w + Period
    BY <1>1, <2>1
  <2>3. QED
    BY <2>2 DEF a, b
<1>5. NotEarly(d) => NotEarly(d)'
  <2> SUFFICES ASSUME NotEarly(d)
               PROVE  NotEarly(d)'
    OBVIOUS
  <2>1. rx_pending'[d] /\ drained'[d] = Len(line'[d]) =>
          since'[d] + ToCount(d)' + Runs(rx_ticks[d])'
            >= Runs(IdleTicks(baud[d]))'
    BY <1>3, <1>4 DEF NotEarly
  <2>2. QED
    BY <2>1 DEF NotEarly, Between
<1>6. NotLate(d) => NotLate(d)'
  <2> SUFFICES ASSUME NotLate(d)
               PROVE  NotLate(d)'
    OBVIOUS
  <2>1. rx_pending'[d] =>
          since'[d] + ToCount(d)' + Runs(rx_ticks[d])'
            <= Runs(IdleTicks(baud[d]))' + Period
    BY <1>3, <1>4 DEF NotLate
  <2>2. fifo'[d] # <<>> => since'[d] + ToLook(d)' <= Period
    BY DEF NotLate
  <2>3. QED
    BY <2>1, <2>2 DEF NotLate
<1>7. /\ BufferIsTimed(d) => BufferIsTimed(d)'
      /\ LevelIsNoted(d) => LevelIsNoted(d)'
      /\ Together(d) => Together(d)'
      /\ MessageIsTogether(d) => MessageIsTogether(d)'
  BY DEF BufferIsTimed, LevelIsNoted, Together, MessageIsTogether, Draining
<1>8. Prompt' <=> Prompt
  BY DEF Prompt
<1>9. QED
  BY <1>5, <1>6, <1>7, <1>8 DEF Timing

(* A window is counted down, or there is none. *)
LEMMA TimerCountTimed ==
  ASSUME UartRxAssumption, IInv, TimingInv, NEW d \in Devices,
         TimerCount(d), UNCHANGED board
  PROVE  TimingInv'
<1> DEFINE receives == initialized[d] /\ rx_pending[d]
<1>1. /\ cpu.isr = "timer" /\ cpu.dev = d /\ cpu.step = "scan"
      /\ receives => ~ (rx_ticks[d] <= 1)
      /\ rx_ticks' = IF receives THEN [rx_ticks EXCEPT ![d] = @ - 1]
                                 ELSE rx_ticks
      /\ cpu' = IF receives
                THEN [NextDevice("scan", "restart") EXCEPT !.pending = TRUE]
                ELSE NextDevice("scan", "restart")
      /\ UNCHANGED <<initialized, baud, rx_data, rx_pending,
                     uart_idle_timer_running, threshold, fifo, rx_irq, timer,
                     since, line, floor, drained, last>>
  BY DEF TimerCount, hwVars, histVars
<1>2. cpu \in Places /\ rx_ticks \in [Devices -> Nat]
  BY RunningHandler DEF IInv, TypeOK
<1>3. /\ cpu'.isr = "timer"
      /\ \/ cpu'.step = "scan" /\ cpu'.dev = d + 1
         \/ cpu'.step = "restart" /\ \A u \in Devices : u <= d
  <2> DEFINE c == NextDevice("scan", "restart")
  <2>1. /\ c \in Places /\ c.isr = "timer"
        /\ \/ c.step = "scan" /\ c.dev = d + 1
           \/ c.step = "restart" /\ \A u \in Devices : u <= d
    BY <1>1, <1>2, NextDevicePlace
  <2>2. cpu' = c \/ cpu' = [c EXCEPT !.pending = TRUE]
    BY <1>1
  <2> HIDE DEF c
  <2>3. cpu'.isr = c.isr /\ cpu'.step = c.step /\ cpu'.dev = c.dev
    BY <2>1, <2>2 DEF Places
  <2>4. QED
    BY <2>1, <2>3
<1>4. ASSUME NEW u \in Devices, u # d
      PROVE  Timing(u)'
  <2>1. rx_ticks'[u] = rx_ticks[u]
    BY <1>1, <1>2, <1>4
  <2>2. Own(u)' = Own(u)
    BY <1>1, <2>1 DEF Own
  <2>3. /\ ~ AtArm(u) /\ ~ AtArm(u)' /\ Looked(u) /\ Looked(u)'
        /\ (Counted(u)' <=> Counted(u))
    BY <1>1, <1>3, <1>4, CountPasses
  <2>4. QED
    BY <1>1, <1>3, <2>2, <2>3, TimedAside DEF TimingInv
<1>5. /\ ~ AtArm(d) /\ ~ AtArm(d)' /\ ~ Draining(d)
      /\ ~ Between(d)' /\ ToCount(d) = 0 /\ ToCount(d)' = Period
      /\ ToLook(d)' = ToLook(d)
  BY <1>1, <1>3, CountEnds
<1>6. Timing(d)'
  <2>1. CASE receives
    <3>1. rx_ticks' = [rx_ticks EXCEPT ![d] = rx_ticks[d] - 1]
          /\ rx_ticks[d] \in Nat
      BY <1>1, <1>2, <2>1
    <3>2. rx_ticks[d] > 0 /\ rx_ticks'[d] = rx_ticks[d] - 1
      BY <1>1, <1>2, <2>1, <3>1
    <3>3. QED
      BY <1>1, <1>5, <3>2, TimedCount DEF TimingInv
  <2>2. CASE ~ receives
    <3>1. Own(d)' = Own(d)
      BY <1>1, <2>2 DEF Own
    <3>2. QED
      BY <1>1, <1>5, <2>2, <3>1, TimedAlike DEF TimingInv
  <2>3. QED
    BY <2>1, <2>2
<1>7. QED
  BY <1>1, <1>4, <1>6 DEF TimingInv, RunIsWhole

(* A message is delivered. *)
LEMMA TimerDeliverTimed ==
  ASSUME UartRxAssumption, IInv, IInv', TimingInv, NEW d \in Devices,
         TimerDeliver(d), UNCHANGED board
  PROVE  TimingInv'
<1>1. /\ cpu.isr = "timer" /\ cpu.dev = d /\ cpu.step = "scan"
      /\ initialized[d] /\ EndReception(d, fifo[d])
      /\ \/ last' = [last EXCEPT ![d] =
                       [bytes |-> rx_data[d], start |-> floor[d],
                        upto |-> drained[d]]]
         \/ last' = last
      /\ floor' = [floor EXCEPT ![d] = drained[d]]
      /\ cpu' = NextDevice("scan", "restart")
      /\ UNCHANGED <<initialized, baud, uart_idle_timer_running, fifo, timer,
                     since, line, drained>>
  BY DEF TimerDeliver
<1>2. /\ cpu \in Places /\ floor \in [Devices -> Nat]
      /\ last \in [Devices -> Messages]
  BY RunningHandler DEF IInv, TypeOK, Messages
<1>3. /\ cpu'.isr = "timer"
      /\ \/ cpu'.step = "scan" /\ cpu'.dev = d + 1
         \/ cpu'.step = "restart" /\ \A u \in Devices : u <= d
  BY <1>1, <1>2, NextDevicePlace
<1>4. ASSUME NEW u \in Devices, u # d
      PROVE  Timing(u)'
  <2>1. /\ rx_ticks'[u] = rx_ticks[u] /\ rx_pending'[u] = rx_pending[u]
        /\ threshold'[u] = threshold[u] /\ rx_irq'[u] = rx_irq[u]
        /\ rx_data'[u] = rx_data[u]
    BY <1>1, <1>4, EndOthers DEF IInv
  <2>2. floor'[u] = floor[u] /\ last'[u] = last[u]
    BY <1>1, <1>2, <1>4
  <2>3. Own(u)' = Own(u)
    BY <1>1, <2>1, <2>2 DEF Own
  <2>4. /\ ~ AtArm(u) /\ ~ AtArm(u)' /\ Looked(u) /\ Looked(u)'
        /\ (Counted(u)' <=> Counted(u))
    BY <1>1, <1>3, <1>4, CountPasses
  <2>5. QED
    BY <1>1, <1>3, <2>1, <2>3, <2>4, TimedAside DEF TimingInv
<1>5. ~ AtArm(d)' /\ ToLook(d)' = ToLook(d)
  BY <1>1, <1>3, CountEnds
<1>6. Timing(d)'
  <2>1. floor'[d] = drained'[d] /\ EndReception(d, fifo'[d])
    BY <1>1, <1>2
  <2>2. last'[d] = last[d] \/ last'[d].start = floor[d]
    BY <1>1, <1>2
  <2>3. QED
    BY <1>1, <1>5, <2>1, <2>2, TimedEnd DEF TimingInv
<1>7. QED
  BY <1>1, <1>4, <1>6 DEF TimingInv, RunIsWhole

(* The next run begins, if there is need for one. *)
LEMMA TimerRestartTimed ==
  ASSUME UartRxAssumption, IInv, TimingInv, TimerRestart, UNCHANGED board
  PROVE  TimingInv'
<1>1. /\ cpu.isr = "timer" /\ cpu.step = "restart"
      /\ IF cpu.pending THEN StartTimer
         ELSE UNCHANGED <<uart_idle_timer_running, timer, timer_irq>>
      /\ cpu' = Chained \/ cpu' = AtTask
      /\ UNCHANGED <<initialized, baud, rx_data, rx_ticks, rx_pending,
                     threshold, fifo, rx_irq, since, line, floor, drained,
                     last>>
  BY DEF TimerRestart, Return, histVars
<1>2. cpu'.isr = "none" /\ cpu'.step \in {"chained", "none"}
  BY <1>1, NoHandler
<1>3. RunLeft' = Period
  <2>1. RunLeft = Period
    BY <1>1 DEF TimingInv, RunIsWhole, RunLeft
  <2>2. RunLeft' = RunLeft
    <3>1. CASE cpu.pending
      BY <1>1, <3>1, StartKeepsRun DEF IInv
    <3>2. CASE ~ cpu.pending
      BY <1>1, <3>2 DEF RunLeft
    <3>3. QED
      BY <3>1, <3>2
  <2>3. QED
    BY <2>1, <2>2
<1>4. ASSUME NEW u \in Devices
      PROVE  Timing(u)'
  <2>1. /\ ~ AtArm(u) /\ ~ AtArm(u)' /\ ~ Draining(u) /\ ~ Between(u)'
        /\ Looked(u) /\ Counted(u)
    BY <1>1, <1>2 DEF AtArm, Draining, Between, Looked, Counted
  <2>2. ToCount(u)' = ToCount(u) /\ ToLook(u)' = ToLook(u)
    BY <1>1, <1>2, <1>3, <2>1 DEF ToCount, ToLook
  <2>3. Own(u)' = Own(u) /\ rx_data'[u] = rx_data[u] /\ rx_irq'[u] = rx_irq[u]
    BY <1>1 DEF Own
  <2>4. QED
    BY <1>1, <2>1, <2>2, <2>3, TimedAlike DEF TimingInv
<1>5. QED
  BY <1>2, <1>4 DEF TimingInv, RunIsWhole

-----------------------------------------------------------------------------
(* The times across the steps of tasks. *)

(* A UART that nothing is done to, while tasks run. *)
LEMMA TimedAtTask ==
  ASSUME UartRxAssumption, NEW u \in Devices, Timing(u), board' = board,
         cpu = AtTask, cpu' = cpu, Own(u)' = Own(u),
         rx_data'[u] = rx_data[u], rx_irq'[u] = rx_irq[u],
         initialized[u] => RunLeft' = RunLeft
  PROVE  Timing(u)'
<1>1. /\ cpu.isr = "none" /\ cpu.step = "none"
      /\ cpu'.isr = "none" /\ cpu'.step = "none"
  BY NoHandler
<1>2. ~ AtArm(u) /\ ~ AtArm(u)' /\ ~ Draining(u) /\ ~ Between(u)'
  BY <1>1 DEF AtArm, Draining, Between
<1>3. initialized[u] => ToCount(u)' = ToCount(u) /\ ToLook(u)' = ToLook(u)
  BY <1>1 DEF ToCount, ToLook
<1>4. QED
  BY <1>2, <1>3, TimedAlike

(* A UART begins: there is nothing in it. *)
LEMMA UartInitTimed ==
  ASSUME UartRxAssumption, IInv, TimingInv, NEW d \in Devices, UartInit(d),
         UNCHANGED board
  PROVE  TimingInv'
<1>1. /\ cpu = AtTask /\ ~ initialized[d]
      /\ initialized' = [initialized EXCEPT ![d] = TRUE]
      /\ rx_data' = [rx_data EXCEPT ![d] = <<>>]
      /\ rx_ticks' = [rx_ticks EXCEPT ![d] = 0]
      /\ rx_pending' = [rx_pending EXCEPT ![d] = FALSE]
      /\ threshold' = [threshold EXCEPT ![d] = 1]
      /\ fifo' = [fifo EXCEPT ![d] = <<>>]
      /\ \E raised \in BOOLEAN : rx_irq' = [rx_irq EXCEPT ![d] = raised]
      /\ drained' = [drained EXCEPT ![d] = Len(line[d])]
      /\ floor' = [floor EXCEPT ![d] = Len(line[d])]
      /\ uart_idle_timer_ready =>
           UNCHANGED <<uart_idle_timer_running, timer>>
      /\ UNCHANGED <<board, baud, cpu, since, line, last>>
  BY DEF UartInit, MarkDrained
<1>2. /\ initialized \in [Devices -> BOOLEAN]
      /\ rx_data \in [Devices -> Seq(Nat)] /\ rx_ticks \in [Devices -> Nat]
      /\ rx_pending \in [Devices -> BOOLEAN]
      /\ threshold \in [Devices -> {1, HalfLevel}]
      /\ fifo \in [Devices -> Seq(Nat)] /\ rx_irq \in [Devices -> BOOLEAN]
      /\ drained \in [Devices -> Nat] /\ floor \in [Devices -> Nat]
  BY DEF IInv, TypeOK
<1>3. cpu'.isr = "none" /\ cpu'.step = "none"
  BY <1>1, NoHandler
<1>4. ASSUME NEW u \in Devices, u # d
      PROVE  Timing(u)'
  <2>1. /\ rx_data'[u] = rx_data[u] /\ rx_irq'[u] = rx_irq[u]
        /\ Own(u)' = Own(u)
    BY <1>1, <1>2, <1>4 DEF Own
  <2>2. initialized[u] => RunLeft' = RunLeft
    BY <1>1 DEF IInv, InUse, RunLeft
  <2>3. QED
    BY <1>1, <2>1, <2>2, TimedAtTask DEF TimingInv
<1>5. Timing(d)'
  <2>1. /\ rx_data'[d] = <<>> /\ ~ rx_pending'[d] /\ threshold'[d] = 1
        /\ fifo'[d] = <<>> /\ floor'[d] = Len(line[d])
        /\ drained'[d] = Len(line[d]) /\ line'[d] = line[d]
    BY <1>1, <1>2
  <2>2. ~ AtArm(d)'
    BY <1>3 DEF AtArm
  <2>3. Len(line[d]) \in Nat /\ Len(fifo'[d]) = 0
    BY <2>1, DeviceFacts, EmptySeq DEF IInv
  <2>4. NotEarly(d)'
    BY <2>1 DEF NotEarly
  <2>5. BufferIsTimed(d)'
    <3>1. ~ (floor'[d] < drained'[d])
      BY <2>1, <2>3
    <3>2. QED
      BY <2>1, <3>1 DEF BufferIsTimed
  <2>6. LevelIsNoted(d)'
    <3>1. ~ (Len(fifo'[d]) >= threshold'[d])
      BY <2>1, <2>3
    <3>2. QED
      BY <3>1 DEF LevelIsNoted
  <2>7. NotLate(d)'
    BY <2>1, <2>2 DEF NotLate
  <2>8. Together(d)'
    <3>1. \A i \in 1 .. Len(line[d]) : ~ (Len(line[d]) + 1 < i)
      BY <2>3
    <3>2. QED
      BY <2>1, <3>1 DEF Together
  <2>9. Prompt => MessageIsTogether(d)'
    BY <1>1 DEF TimingInv, Timing, MessageIsTogether
  <2>10. QED
    BY <1>1, <2>4, <2>5, <2>6, <2>7, <2>8, <2>9 DEF Timing, Prompt
<1>6. QED
  BY <1>3, <1>4, <1>5 DEF TimingInv, RunIsWhole

(* Another rate ends the message. *)
LEMMA SetBaudTimed ==
  ASSUME UartRxAssumption, IInv, IInv', TimingInv, NEW d \in Devices,
         NEW b \in board.bauds, SetBaud(d, b), UNCHANGED board
  PROVE  TimingInv'
<1>1. /\ cpu = AtTask /\ initialized[d] /\ baud' = [baud EXCEPT ![d] = b]
      /\ \/ /\ fifo' = [fifo EXCEPT ![d] = <<>>]
            /\ drained' = [drained EXCEPT ![d] = Len(line[d])]
         \/ fifo' = fifo /\ drained' = drained
      /\ EndReception(d, fifo'[d])
      /\ floor' = [floor EXCEPT ![d] = drained'[d]]
      /\ UNCHANGED <<board, initialized, uart_idle_timer_running, cpu, timer,
                     since, line, last>>
  BY DEF SetBaud, MarkDrained
<1>2. /\ fifo \in [Devices -> Seq(Nat)] /\ drained \in [Devices -> Nat]
      /\ floor \in [Devices -> Nat] /\ baud \in [Devices -> Bauds]
  BY DEF IInv, TypeOK
<1>3. cpu'.isr = "none" /\ cpu'.step = "none" /\ cpu.isr = "none"
  BY <1>1, NoHandler
<1>4. RunLeft' = RunLeft
  BY <1>1 DEF RunLeft
<1>5. ASSUME NEW u \in Devices, u # d
      PROVE  Timing(u)'
  <2>1. /\ rx_ticks'[u] = rx_ticks[u] /\ rx_pending'[u] = rx_pending[u]
        /\ threshold'[u] = threshold[u] /\ rx_irq'[u] = rx_irq[u]
        /\ rx_data'[u] = rx_data[u]
    BY <1>1, <1>5, EndOthers DEF IInv
  <2>2. /\ fifo'[u] = fifo[u] /\ drained'[u] = drained[u]
        /\ floor'[u] = floor[u] /\ baud'[u] = baud[u]
    BY <1>1, <1>2, <1>5
  <2>3. Own(u)' = Own(u)
    BY <1>1, <2>1, <2>2 DEF Own
  <2>4. QED
    BY <1>1, <1>4, <2>1, <2>3, TimedAtTask DEF TimingInv
<1>6. Timing(d)'
  <2>1. \/ fifo'[d] = fifo[d] /\ drained'[d] = drained[d]
        \/ fifo'[d] = <<>> /\ drained'[d] = Len(line[d])
    BY <1>1, <1>2
  <2>2. floor'[d] = drained'[d]
    BY <1>1, <1>2
  <2>3. ToLook(d)' = ToLook(d) /\ ~ AtArm(d)'
    BY <1>3, <1>4 DEF ToLook, AtArm
  <2>4. QED
    BY <1>1, <2>1, <2>2, <2>3, TimedEnd DEF TimingInv
<1>7. QED
  BY <1>3, <1>5, <1>6 DEF TimingInv, RunIsWhole

(* What does not touch any UART, or registers a callback. *)
LEMMA UntouchedTimed ==
  ASSUME TimingInv,
         UNCHANGED <<board, initialized, baud, rx_data, rx_ticks, rx_pending,
                     uart_idle_timer_running, cpu, threshold, fifo, rx_irq,
                     timer, since, line, floor, drained, last>>
  PROVE  TimingInv'
<1>1. ASSUME NEW u \in Devices
      PROVE  Timing(u)'
  <2>1. Own(u)' = Own(u)
    BY DEF Own
  <2>2. /\ AtArm(u)' <=> AtArm(u)
        /\ Draining(u)' <=> Draining(u)
        /\ Between(u)' <=> Between(u)
    BY DEF AtArm, Draining, Between, Looked, Counted
  <2>3. ToCount(u)' = ToCount(u) /\ ToLook(u)' = ToLook(u)
    BY DEF ToCount, ToLook, RunLeft, Looked, Counted
  <2>4. QED
    BY <2>1, <2>2, <2>3, TimedAlike DEF TimingInv
<1>2. QED
  BY <1>1 DEF TimingInv, RunIsWhole

-----------------------------------------------------------------------------
(* The times across the steps of the line and of time. *)

(* What has come since the last message came a short time ago. *)
LEMMA SilenceIsShort ==
  ASSUME UartRxAssumption, IInv, NEW d \in Devices, BufferIsTimed(d),
         NotLate(d), floor[d] < Len(line[d])
  PROVE  since[d] < IdleUnits[baud[d]] + 2 * Period
<1> DEFINE s == since[d]
           u == IdleUnits[baud[d]]
           w == Runs(IdleTicks(baud[d]))
           r == Runs(rx_ticks[d])
           c == ToCount(d)
           l == ToLook(d)
<1>1. /\ s \in Nat /\ c \in Nat /\ l \in Nat /\ u \in Nat /\ w \in Nat
      /\ r \in Int /\ Period \in Nat \ {0} /\ w < u + Period
      /\ rx_ticks[d] > 0 => r >= 0
  BY TimeFacts DEF IInv
<1>2. rx_pending[d] => r >= 0
  BY <1>1 DEF IInv, IdleTimerServes, ThresholdFollowsPending
<1>3. /\ fifo[d] # <<>> => s + l <= Period
      /\ AtArm(d) => s + c <= Period
      /\ rx_pending[d] /\ ~ AtArm(d) => s + c + r <= w + Period
  BY DEF NotLate
<1>4. fifo[d] # <<>> \/ AtArm(d) \/ rx_pending[d]
  <2>1. SUFFICES ASSUME fifo[d] = <<>>
                 PROVE  AtArm(d) \/ rx_pending[d]
    OBVIOUS
  <2>2. drained[d] = Len(line[d])
    BY <2>1, EmptyIsClean DEF IInv, Bytes
  <2>3. QED
    BY <2>2 DEF BufferIsTimed
<1> HIDE DEF s, u, w, r, c, l
<1>5. CASE fifo[d] # <<>>
  <2>1. s + l <= Period
    BY <1>3, <1>5
  <2>2. s < u + 2 * Period
    BY <1>1, <2>1
  <2>3. QED
    BY <2>2 DEF s, u
<1>6. CASE AtArm(d)
  <2>1. s + c <= Period
    BY <1>3, <1>6
  <2>2. s < u + 2 * Period
    BY <1>1, <2>1
  <2>3. QED
    BY <2>2 DEF s, u
<1>7. CASE rx_pending[d] /\ ~ AtArm(d)
  <2>1. s + c + r <= w + Period /\ r >= 0
    BY <1>2, <1>3, <1>7
  <2>2. s < u + 2 * Period
    BY <1>1, <2>1
  <2>3. QED
    BY <2>2 DEF s, u
<1>8. QED
  BY <1>4, <1>5, <1>6, <1>7

(* A byte that comes before the count of the last run of a window came     *)
(* after the window.                                                       *)
LEMMA LastRunIsLate ==
  ASSUME UartRxAssumption, IInv, NEW d \in Devices, NotEarly(d),
         rx_pending[d], drained[d] = Len(line[d]), Between(d),
         rx_ticks[d] <= 1
  PROVE  GapClass(d, since[d]) # "close"
<1> DEFINE s == since[d]
           u == IdleUnits[baud[d]]
           w == Runs(IdleTicks(baud[d]))
<1>1. /\ s \in Nat /\ u \in Nat /\ w \in Nat /\ w >= u
      /\ rx_ticks[d] \in Nat
  BY TimeFacts DEF IInv
<1>2. rx_ticks[d] = 1
  <2>1. rx_ticks[d] > 0
    BY DEF IInv, IdleTimerServes, ThresholdFollowsPending
  <2>2. QED
    BY <1>1, <2>1
<1>3. Runs(rx_ticks[d]) = 0
  <2>1. Period \in Nat
    BY DEF UartRxAssumption
  <2>2. (1 - 1) * Period = 0
    BY <2>1
  <2>3. QED
    BY <1>2, <2>2 DEF Runs
<1>4. ToCount(d) = 0
  BY DEF Between, ToCount
<1>5. s + 0 + 0 >= w
  BY <1>3, <1>4 DEF NotEarly, Between
<1> HIDE DEF s, u, w
<1>6. ~ (s < u)
  BY <1>1, <1>5
<1>7. ~ (since[d] < IdleUnits[baud[d]])
  BY <1>6 DEF s, u
<1>8. QED
  BY <1>7 DEF GapClass

(* A byte comes. *)
LEMMA ArriveTimed ==
  ASSUME UartRxAssumption, IInv, TimingInv, NEW d \in Devices,
         NEW good \in BOOLEAN, Arrive(d, good), UNCHANGED board
  PROVE  TimingInv'
<1> DEFINE n == Len(line[d])
           room == Len(fifo[d]) < FifoDepth
           byte == [good |-> good, gap |-> GapClass(d, since[d])]
<1>1. /\ line' = [line EXCEPT ![d] = Append(line[d], byte)]
      /\ since' = [since EXCEPT ![d] = 0]
      /\ fifo' = IF room THEN [fifo EXCEPT ![d] = Append(fifo[d], n + 1)]
                 ELSE fifo
      /\ UNCHANGED <<board, initialized, baud, rx_data, rx_ticks, rx_pending,
                     uart_idle_timer_running, cpu, threshold, timer, floor,
                     drained, last>>
  BY DEF Arrive, swVars
<1>2. rx_irq' = [rx_irq EXCEPT ![d] =
                   \/ @
                   \/ room /\ Len(fifo[d]) + 1 = threshold[d]
                   \/ room /\ board.level /\ Len(fifo[d]) + 1 >= threshold[d]]
  BY DEF Arrive
<1>3. /\ line \in [Devices -> Seq(Arrivals)]
      /\ fifo \in [Devices -> Seq(Nat)]
      /\ since \in [Devices -> 0 .. MaxSince]
      /\ rx_irq \in [Devices -> BOOLEAN]
  BY DEF IInv, TypeOK, Arrivals
<1>4. /\ line[d] \in Seq(Arrivals) /\ n \in Nat
      /\ fifo[d] \in Seq(Nat) /\ Len(fifo[d]) \in Nat /\ n + 1 \in Nat
      /\ drained[d] \in Nat /\ floor[d] \in Nat
      /\ last[d] \in Messages /\ drained[d] <= n
  BY DeviceFacts DEF IInv, Bytes, FifoIsNext
<1>5. byte \in Arrivals /\ byte.gap = GapClass(d, since[d])
  BY DEF Arrivals, GapClass
<1> HIDE DEF byte
<1>6. /\ line'[d] = Append(line[d], byte) /\ Len(line'[d]) = n + 1
      /\ \A i \in 1 .. n : line'[d][i] = line[d][i]
      /\ line'[d][n + 1] = byte
  BY <1>1, <1>3, <1>4, <1>5, AppendProperties
<1>7. /\ room => Len(fifo'[d]) = Len(fifo[d]) + 1
      /\ ~ room => fifo'[d] = fifo[d]
      /\ \A u \in Devices \ {d} : fifo'[u] = fifo[u]
  <2>1. CASE room
    BY <1>1, <1>3, <1>4, <2>1, AppendProperties
  <2>2. CASE ~ room
    BY <1>1, <1>3, <2>2
  <2>3. QED
    BY <2>1, <2>2
<1>8. /\ \A u \in Devices \ {d} : rx_irq'[u] = rx_irq[u]
      /\ rx_irq[d] => rx_irq'[d]
      /\ room /\ board.level /\ Len(fifo[d]) + 1 >= threshold[d] => rx_irq'[d]
  BY <1>2, <1>3
<1>9. since'[d] = 0 /\ \A u \in Devices \ {d} : since'[u] = since[u]
  BY <1>1, <1>3
<1> HIDE DEF room
<1>10. ASSUME NEW u \in Devices
       PROVE  /\ AtArm(u)' <=> AtArm(u)
              /\ Draining(u)' <=> Draining(u)
              /\ Between(u)' <=> Between(u)
              /\ ToCount(u)' = ToCount(u) /\ ToLook(u)' = ToLook(u)
  <2>1. Looked(u)' <=> Looked(u)
    BY <1>1 DEF Looked
  <2>2. Counted(u)' <=> Counted(u)
    BY <1>1 DEF Counted
  <2>3. RunLeft' = RunLeft
    BY <1>1 DEF RunLeft
  <2>4. QED
    BY <1>1, <2>1, <2>2, <2>3 DEF AtArm, Draining, Between, ToCount, ToLook
<1>11. ASSUME NEW u \in Devices, u # d
       PROVE  Timing(u)'
  <2>1. Own(u)' = Own(u) /\ rx_data'[u] = rx_data[u] /\ rx_irq'[u] = rx_irq[u]
    BY <1>1, <1>3, <1>7, <1>8, <1>9, <1>11 DEF Own
  <2>2. QED
    BY <1>1, <1>10, <2>1, TimedAlike DEF TimingInv
<1>12. ASSUME initialized[d]
       PROVE  NotEarly(d)' /\ BufferIsTimed(d)'
  <2>1. NotEarly(d) /\ BufferIsTimed(d)
    BY <1>12 DEF TimingInv, Timing
  <2>2. drained'[d] # Len(line'[d])
    BY <1>1, <1>4, <1>6
  <2>3. ASSUME rx_pending[d], Between(d), rx_ticks[d] <= 1
        PROVE  line'[d][drained[d] + 1].gap # "close"
    <3>1. CASE drained[d] = n
      <4>1. GapClass(d, since[d]) # "close"
        BY <2>1, <2>3, <3>1, LastRunIsLate
      <4>2. line'[d][drained[d] + 1] = byte
        BY <1>6, <3>1
      <4>3. QED
        BY <1>5, <4>1, <4>2
    <3>2. CASE drained[d] < n
      <4>1. line[d][drained[d] + 1].gap # "close"
        BY <2>1, <2>3, <3>2 DEF NotEarly, Between
      <4>2. drained[d] + 1 \in 1 .. n
        BY <1>4, <3>2
      <4>3. QED
        BY <1>6, <4>1, <4>2
    <3>3. QED
      BY <1>4, <3>1, <3>2
  <2>4. NotEarly(d)'
    <3>1. /\ rx_pending'[d] = rx_pending[d] /\ rx_ticks'[d] = rx_ticks[d]
          /\ drained'[d] = drained[d]
      BY <1>1
    <3>2. Between(d)' => Between(d)
      BY <1>10
    <3>3. QED
      BY <2>2, <2>3, <3>1, <3>2 DEF NotEarly, Between
  <2>5. BufferIsTimed(d)'
    BY <1>1, <1>10, <2>1 DEF BufferIsTimed
  <2>6. QED
    BY <2>4, <2>5
<1>13. ASSUME Prompt, initialized[d]
       PROVE  LevelIsNoted(d)' /\ NotLate(d)' /\ Together(d)'
  <2>1. LevelIsNoted(d) /\ NotLate(d) /\ Together(d) /\ BufferIsTimed(d)
    BY <1>13 DEF TimingInv, Timing
  <2>2. LevelIsNoted(d)'
    <3>1. SUFFICES ASSUME Len(fifo'[d]) >= threshold[d]
                   PROVE  rx_irq'[d] \/ Draining(d)'
      BY <1>1 DEF LevelIsNoted, Draining
    <3>2. CASE room
      BY <1>7, <1>8, <1>13, <3>1, <3>2 DEF Prompt
    <3>3. CASE ~ room
      BY <1>7, <1>8, <1>10, <2>1, <3>1, <3>3 DEF LevelIsNoted, Draining
    <3>4. QED
      BY <3>2, <3>3
  <2>3. NotLate(d)'
    <3> DEFINE s == since[d]
               w == Runs(IdleTicks(baud[d]))
               r == Runs(rx_ticks[d])
               c == ToCount(d)
               l == ToLook(d)
    <3>1. /\ s \in Nat /\ c \in Nat /\ l \in Nat /\ w \in Nat /\ r \in Int
          /\ Period \in Nat /\ c <= Period /\ l <= Period
      BY TimeFacts DEF IInv
    <3>2. /\ Runs(rx_ticks[d])' = r /\ Runs(IdleTicks(baud[d]))' = w
          /\ since'[d] = 0 /\ ToCount(d)' = c /\ ToLook(d)' = l
          /\ rx_pending'[d] = rx_pending[d]
      BY <1>1, <1>9, <1>10 DEF Runs, IdleTicks
    <3>3. rx_pending[d] /\ ~ AtArm(d) => s + c + r <= w + Period
      BY <2>1 DEF NotLate
    <3> HIDE DEF s, w, r, c, l
    <3>4. /\ 0 + l <= Period /\ 0 + c <= Period
          /\ s + c + r <= w + Period => 0 + c + r <= w + Period
      BY <3>1
    <3>5. /\ since'[d] + ToLook(d)' <= Period
          /\ since'[d] + ToCount(d)' <= Period
          /\ rx_pending'[d] /\ ~ AtArm(d)' =>
               since'[d] + ToCount(d)' + Runs(rx_ticks[d])'
                 <= Runs(IdleTicks(baud[d]))' + Period
      BY <1>10, <3>2, <3>3, <3>4
    <3>6. QED
      BY <3>5 DEF NotLate
  <2>4. Together(d)'
    <3>1. SUFFICES ASSUME NEW i \in 1 .. n + 1, floor[d] + 1 < i
                   PROVE  line'[d][i].gap # "apart"
      BY <1>1, <1>6 DEF Together
    <3>2. CASE i \in 1 .. n
      BY <1>6, <2>1, <3>1, <3>2 DEF Together
    <3>3. CASE i = n + 1
      <4>1. floor[d] < n
        BY <1>4, <3>1, <3>3
      <4>2. since[d] < IdleUnits[baud[d]] + 2 * Period
        BY <2>1, <4>1, SilenceIsShort
      <4>3. GapClass(d, since[d]) # "apart"
        BY <4>2 DEF GapClass
      <4>4. QED
        BY <1>5, <1>6, <3>3, <4>3
    <3>4. i \in 1 .. n \/ i = n + 1
      <4> HIDE DEF n
      <4>1. QED
        BY <1>4, <3>1
    <3>5. QED
      BY <3>2, <3>3, <3>4
  <2>5. QED
    BY <2>2, <2>3, <2>4
<1>14. ASSUME Prompt
       PROVE  MessageIsTogether(d)'
  <2>1. SUFFICES ASSUME NEW i \in 1 .. n + 1, last[d].start + 1 < i,
                        i <= last[d].upto
                 PROVE  line'[d][i].gap # "apart"
    BY <1>1, <1>6 DEF MessageIsTogether
  <2>2. last[d].upto \in Nat /\ last[d].upto <= n
    BY <1>4 DEF IInv, Bytes, MessageIsExact, Messages
  <2>3. i \in 1 .. n
    BY <1>4, <2>1, <2>2
  <2>4. QED
    BY <1>6, <1>14, <2>1, <2>3 DEF TimingInv, Timing, MessageIsTogether
<1>15. Timing(d)'
  BY <1>1, <1>12, <1>13, <1>14 DEF Timing, Prompt
<1>16. QED
  BY <1>1, <1>11, <1>15 DEF TimingInv, RunIsWhole

(* The history of silence reaches beyond the window of every UART.         *)
LEMMA SilenceCoversWindow ==
  ASSUME UartRxAssumption, TypeOK, InUse, NEW d \in Devices
  PROVE  MaxSince \in Nat /\ IdleUnits[baud[d]] + 2 * Period <= MaxSince
<1> DEFINE slowest == CHOOSE b \in board.bauds :
                        \A c \in board.bauds : IdleUnits[c] <= IdleUnits[b]
<1>1. board.bauds \in SUBSET Bauds /\ baud[d] \in board.bauds
  BY DEF TypeOK, InUse, UartRxAssumption
<1>2. slowest \in board.bauds
      /\ \A c \in board.bauds : IdleUnits[c] <= IdleUnits[slowest]
  BY <1>1, SlowestExists
<1> HIDE DEF slowest
<1>3. /\ IdleUnits[slowest] \in Nat /\ IdleUnits[baud[d]] \in Nat
      /\ Period \in Nat /\ IdleUnits[baud[d]] <= IdleUnits[slowest]
  BY <1>1, <1>2 DEF UartRxAssumption
<1>4. MaxSince = 2 * Period + IdleUnits[slowest]
  BY DEF MaxSince, slowest
<1>5. QED
  BY <1>3, <1>4

(* With nothing waiting, time passes at a UART only as it passes for the   *)
(* timer.                                                                  *)
LEMMA TickTimed ==
  ASSUME UartRxAssumption, IInv, TimingInv, Tick
  PROVE  TimingInv'
<1>1. /\ cpu = AtTask /\ (IrqPending => board.masked)
      /\ since' = [d \in Devices |-> Least(since[d] + 1, MaxSince)]
      /\ UNCHANGED <<board, initialized, baud, rx_data, rx_ticks, rx_pending,
                     uart_idle_timer_running, cpu, threshold, fifo, rx_irq,
                     line, floor, drained, last>>
  BY DEF Tick, swVars
<1>2. timer' = IF timer = 0 THEN 0 ELSE timer - 1
  BY DEF Tick
<1>3. /\ cpu.isr = "none" /\ cpu.step = "none"
      /\ cpu'.isr = "none" /\ cpu'.step = "none"
  BY <1>1, NoHandler
<1>4. /\ timer \in Nat /\ timer' \in Nat /\ timer - 1 <= timer'
      /\ timer > 0 => timer' = timer - 1
  <2>1. timer \in 0 .. Period /\ Period \in Nat
    BY DEF IInv, TypeOK, UartRxAssumption
  <2>2. QED
    BY <1>2, <2>1
<1>5. ASSUME NEW u \in Devices
      PROVE  Timing(u)'
  <2> DEFINE s == since[u]
             t == since'[u]
             w == Runs(IdleTicks(baud[u]))
             r == Runs(rx_ticks[u])
  <2>1. /\ ~ AtArm(u) /\ ~ AtArm(u)'
        /\ ToCount(u) = RunLeft /\ ToCount(u)' = RunLeft'
        /\ ToLook(u) = RunLeft /\ ToLook(u)' = RunLeft'
    BY <1>3 DEF AtArm, ToCount, ToLook
  <2>2. /\ s \in Nat /\ w \in Nat /\ r \in Int /\ Period \in Nat
        /\ w < IdleUnits[baud[u]] + Period /\ IdleUnits[baud[u]] \in Nat
    BY TimeFacts DEF IInv
  <2>3. t \in Nat /\ t <= s + 1 /\ (t >= s + 1 \/ t >= w)
    <3>1. MaxSince \in Nat /\ IdleUnits[baud[u]] + 2 * Period <= MaxSince
      BY SilenceCoversWindow DEF IInv
    <3>2. t = Least(s + 1, MaxSince)
      BY <1>1
    <3> DEFINE m == MaxSince
               i == IdleUnits[baud[u]]
    <3> HIDE DEF m, i, s, t, w, r
    <3>3. /\ m \in Nat /\ i + 2 * Period <= m /\ t = Least(s + 1, m)
          /\ w < i + Period /\ i \in Nat
      BY <2>2, <3>1, <3>2 DEF m, i
    <3>4. QED
      BY <2>2, <3>3 DEF Least
  <2>4. rx_pending[u] => r >= 0
    <3>1. rx_ticks[u] > 0 => r >= 0
      BY TimeFacts DEF IInv
    <3>2. QED
      BY <3>1 DEF IInv, IdleTimerServes, ThresholdFollowsPending
  <2>5. rx_pending[u] => RunLeft = timer /\ RunLeft' = timer'
    <3>1. rx_pending[u] => uart_idle_timer_running
      BY <1>3 DEF IInv, IdleTimerServes, PendingHasTimer
    <3>2. QED
      BY <1>1, <3>1 DEF RunLeft
  <2>6. /\ Runs(rx_ticks[u])' = r /\ Runs(IdleTicks(baud[u]))' = w
    BY <1>1 DEF Runs, IdleTicks
  <2>7. Prompt /\ initialized[u] /\ rx_pending[u] => timer > 0
    <3>1. ASSUME Prompt, rx_pending[u]
          PROVE  timer > 0
      <4>1. ~ timer_irq
        BY <1>1, <3>1 DEF Prompt, IrqPending
      <4>2. uart_idle_timer_running
        BY <1>3, <3>1 DEF IInv, IdleTimerServes, PendingHasTimer
      <4>3. QED
        BY <4>1, <4>2 DEF IInv, IdleTimerServes, TimerFlagIsTrue
    <3>2. QED
      BY <3>1
  <2>8. Prompt /\ initialized[u] /\ fifo[u] # <<>> => rx_pending[u]
    <3> SUFFICES ASSUME Prompt, initialized[u], fifo[u] # <<>>,
                        ~ rx_pending[u]
                 PROVE  FALSE
      OBVIOUS
    <3>1. threshold[u] = 1
      BY DeviceFacts DEF IInv, IdleTimerServes, ThresholdFollowsPending
    <3>2. Len(fifo[u]) >= 1
      BY DeviceFacts, EmptySeq DEF IInv
    <3>3. rx_irq[u]
      BY <1>3, <3>1, <3>2 DEF TimingInv, Timing, LevelIsNoted
    <3>4. QED
      BY <1>1, <3>3 DEF Prompt, IrqPending, UartPending
  <2> HIDE DEF s, t, w, r
  <2>9. ASSUME NotEarly(u)
        PROVE  NotEarly(u)'
    <3>1. rx_pending[u] /\ drained[u] = Len(line[u]) => s + timer + r >= w
      BY <2>1, <2>5, <2>9 DEF NotEarly, s, r, w
    <3>2. rx_pending[u] /\ drained[u] = Len(line[u]) => t + timer' + r >= w
      BY <1>4, <2>2, <2>3, <2>4, <3>1
    <3>3. rx_pending[u] /\ drained[u] = Len(line[u]) =>
            since'[u] + ToCount(u)' + Runs(rx_ticks[u])'
              >= Runs(IdleTicks(baud[u]))'
      BY <2>1, <2>5, <2>6, <3>2 DEF t
    <3>4. QED
      BY <1>1, <1>3, <3>3 DEF NotEarly
  <2>10. BufferIsTimed(u) => BufferIsTimed(u)'
    BY <1>1, <2>1 DEF BufferIsTimed
  <2>11. ASSUME Prompt, initialized[u]
         PROVE  LevelIsNoted(u)' /\ NotLate(u)' /\ Together(u)'
    <3>1. LevelIsNoted(u) /\ NotLate(u) /\ Together(u)
      BY <2>11 DEF TimingInv, Timing
    <3>2. LevelIsNoted(u)' /\ Together(u)'
      BY <1>1, <3>1 DEF LevelIsNoted, Together
    <3>3. fifo[u] # <<>> => since'[u] + ToLook(u)' <= Period
      <4>1. fifo[u] # <<>> => s + timer <= Period /\ timer > 0
        BY <2>1, <2>5, <2>7, <2>8, <2>11, <3>1 DEF NotLate, s
      <4>2. fifo[u] # <<>> => t + timer' <= Period
        BY <1>4, <2>2, <2>3, <4>1
      <4>3. QED
        BY <2>1, <2>5, <2>8, <2>11, <4>2 DEF t
    <3>4. rx_pending[u] => since'[u] + ToCount(u)' + Runs(rx_ticks[u])'
                             <= Runs(IdleTicks(baud[u]))' + Period
      <4>1. rx_pending[u] => s + timer + r <= w + Period /\ timer > 0
        BY <2>1, <2>5, <2>7, <2>11, <3>1 DEF NotLate, s, r, w
      <4>2. rx_pending[u] => t + timer' + r <= w + Period
        BY <1>4, <2>2, <2>3, <4>1
      <4>3. QED
        BY <2>1, <2>5, <2>6, <4>2 DEF t
    <3>5. NotLate(u)'
      BY <1>1, <2>1, <3>3, <3>4 DEF NotLate
    <3>6. QED
      BY <3>2, <3>5
  <2>12. MessageIsTogether(u) => MessageIsTogether(u)'
    BY <1>1 DEF MessageIsTogether
  <2>13. QED
    BY <1>1, <2>9, <2>10, <2>11, <2>12 DEF TimingInv, Timing, Prompt
<1>6. QED
  BY <1>3, <1>5 DEF TimingInv, RunIsWhole

-----------------------------------------------------------------------------
(* Theorems on time. *)

(* Nothing has come yet. *)
LEMMA InitIsTimed ==
  ASSUME UartRxAssumption, Init
  PROVE  TimingInv
<1>1. cpu.isr = "none"
  BY NoHandler DEF Init
<1>2. ASSUME NEW d \in Devices
      PROVE  Timing(d)
  <2>1. ~ initialized[d] /\ line[d] = <<>>
    BY <1>2 DEF Init
  <2>2. Len(line[d]) = 0 /\ 1 .. 0 = {}
    BY <2>1, EmptySeq
  <2>3. MessageIsTogether(d)
    BY <2>2 DEF MessageIsTogether
  <2>4. QED
    BY <2>1, <2>3 DEF Timing
<1>3. QED
  BY <1>1, <1>2 DEF TimingInv, RunIsWhole

(* Every step keeps what is said of the times. *)
LEMMA NextIsTimed ==
  ASSUME UartRxAssumption, IInv, IInv', TimingInv, [Next]_vars
  PROVE  TimingInv'
<1>1. CASE TimerStep
  <2>1. CASE TimerEnter
    BY <1>1, <2>1, TimerEnterTimed DEF TimerStep
  <2>2. CASE TimerRestart
    BY <1>1, <2>2, TimerRestartTimed DEF TimerStep
  <2>3. ASSUME NEW d \in Devices,
               \/ TimerRead(d) \/ TimerArm(d) \/ TimerCount(d)
               \/ TimerDeliver(d)
        PROVE  TimingInv'
    <3>1. UNCHANGED board
      BY <1>1 DEF TimerStep
    <3>2. QED
      BY <2>3, <3>1, TimerReadTimed, TimerArmTimed, TimerCountTimed,
         TimerDeliverTimed
  <2>4. QED
    BY <1>1, <2>1, <2>2, <2>3 DEF TimerStep
<1>2. CASE Tick
  BY <1>2, TickTimed
<1>3. ASSUME NEW d \in Devices, TaskStep(d)
      PROVE  TimingInv'
  <2>1. UNCHANGED board
    BY <1>3 DEF TaskStep
  <2>2. CASE UartInit(d)
    BY <2>1, <2>2, UartInitTimed
  <2>3. CASE \E registered \in BOOLEAN : SetCallback(d, registered)
    <3>1. UNCHANGED <<board, initialized, baud, rx_data, rx_ticks,
                      rx_pending, uart_idle_timer_running, cpu, threshold,
                      fifo, rx_irq, timer, since, line, floor, drained,
                      last>>
      BY <2>1, <2>3 DEF SetCallback, hwVars, histVars
    <3>2. QED
      BY <3>1, UntouchedTimed
  <2>4. CASE \E b \in board.bauds : SetBaud(d, b)
    BY <2>1, <2>4, SetBaudTimed
  <2>5. QED
    BY <1>3, <2>2, <2>3, <2>4 DEF TaskStep
<1>4. ASSUME NEW d \in Devices, UartStep(d)
      PROVE  TimingInv'
  <2>1. UNCHANGED board
    BY <1>4 DEF UartStep
  <2>2. \/ UartEnter(d) \/ UartNext(d) \/ UartRead(d) \/ UartArm(d)
        \/ UartReset(d)
    BY <1>4 DEF UartStep
  <2>3. QED
    BY <2>1, <2>2, UartEnterTimed, UartNextTimed, UartReadTimed,
       UartArmTimed, UartResetTimed
<1>5. ASSUME NEW d \in Devices, LineStep(d)
      PROVE  TimingInv'
  <2>1. PICK good \in BOOLEAN : Arrive(d, good)
    BY <1>5 DEF LineStep
  <2>2. UNCHANGED board
    BY <1>5 DEF LineStep
  <2>3. QED
    BY <2>1, <2>2, ArriveTimed
<1>6. CASE UNCHANGED vars
  <2>1. UNCHANGED <<board, initialized, baud, rx_data, rx_ticks, rx_pending,
                    uart_idle_timer_running, cpu, threshold, fifo, rx_irq,
                    timer, since, line, floor, drained, last>>
    BY <1>6 DEF vars, swVars, hwVars, histVars
  <2>2. QED
    BY <2>1, UntouchedTimed
<1>7. QED
  BY <1>1, <1>2, <1>3, <1>4, <1>5, <1>6 DEF Next

(* How long ago the last byte of every UART came, against the time that is *)
(* left of its window: never so short ago that the window could be found   *)
(* over too early, and, if no handler is kept waiting and the interrupt    *)
(* looks at the level of the FIFO, never so long ago that a byte could     *)
(* follow after two runs more than the window into the same message.       *)
THEOREM TimingInvariant ==
  ASSUME UartRxAssumption
  PROVE  Spec => []TimingInv
<1>1. Init => TimingInv
  BY InitIsTimed
<1>2. IInv /\ IInv' /\ TimingInv /\ [Next]_vars => TimingInv'
  BY NextIsTimed
<1>3. QED
  BY <1>1, <1>2, ReceiveInvariant, PTL DEF Spec

(* uart.c rounds the window up and adds a run, because the first may be    *)
(* nearly over: bytes that come apart by two runs more than the window are *)
(* never put into one message.                                             *)
THEOREM NeverMerged ==
  ASSUME UartRxAssumption
  PROVE  Spec => []NeverMerges
<1>1. IInv /\ TimingInv => NeverMerges
  <2> SUFFICES ASSUME IInv, TimingInv, Prompt, NEW d \in Devices,
                      NEW i \in 2 .. Len(last[d].bytes)
               PROVE  line[d][last[d].bytes[i]].gap # "apart"
    BY DEF NeverMerges, Prompt
  <2> DEFINE m == last[d]
             k == Len(m.bytes)
             n == Len(line[d])
  <2>1. /\ m \in Messages /\ n \in Nat /\ RxBufferSize \in Nat
    BY DeviceFacts DEF IInv
  <2>2. /\ m.bytes \in Seq(Nat) /\ m.start \in Nat /\ m.upto \in Nat
    BY <2>1 DEF Messages
  <2>3. k \in Nat
    BY <2>2, LenProperties
  <2>4. /\ m.start <= m.upto /\ m.upto <= n
        /\ k = Least(m.upto - m.start, RxBufferSize)
        /\ \A j \in 1 .. k : m.bytes[j] = m.start + j
    BY DEF IInv, Bytes, MessageIsExact
  <2>5. \A j \in 1 .. n :
          m.start + 1 < j /\ j <= m.upto => line[d][j].gap # "apart"
    BY DEF TimingInv, Timing, MessageIsTogether
  <2>6. i \in 2 .. k
    OBVIOUS
  <2> HIDE DEF m, k, n
  <2>7. k <= m.upto - m.start
    BY <2>1, <2>2, <2>4 DEF Least
  <2>8. /\ i \in 1 .. k /\ m.start + i \in 1 .. n
        /\ m.start + 1 < m.start + i /\ m.start + i <= m.upto
    BY <2>1, <2>2, <2>3, <2>4, <2>6, <2>7
  <2>9. line[d][m.bytes[i]].gap # "apart"
    BY <2>4, <2>5, <2>8
  <2>10. QED
    BY <2>9 DEF m
<1>2. QED
  BY <1>1, ReceiveInvariant, TimingInvariant, PTL

(* A message that is delivered is over: the window has passed since the    *)
(* last of its bytes, whether kept or ignored, and the byte after it.      *)
LEMMA DeliveredIsQuiet ==
  ASSUME UartRxAssumption, IInv, TimingInv, NEW d \in Devices,
         TimerDeliver(d), last'[d] # last[d]
  PROVE  QuietAfter(d, last'[d].upto)
<1>1. /\ cpu.isr = "timer" /\ cpu.dev = d /\ cpu.step = "scan"
      /\ initialized[d] /\ rx_pending[d] /\ rx_ticks[d] <= 1
      /\ \/ last' = [last EXCEPT ![d] =
                       [bytes |-> rx_data[d], start |-> floor[d],
                        upto |-> drained[d]]]
         \/ last' = last
  BY DEF TimerDeliver
<1>2. last \in [Devices -> Messages] /\ NotEarly(d)
      /\ drained[d] \in Nat /\ Len(line[d]) \in Nat
      /\ drained[d] <= Len(line[d])
  BY <1>1, DeviceFacts DEF IInv, TypeOK, Messages, TimingInv, Timing, Bytes,
                           FifoIsNext
<1>3. last'[d].upto = drained[d]
  BY <1>1, <1>2
<1>4. Between(d)
  <2>1. ~ (d > d)
    BY DEF Devices, UartRxAssumption
  <2>2. QED
    BY <1>1, <2>1 DEF Between, Looked, AtArm, Counted
<1>5. CASE drained[d] < Len(line[d])
  BY <1>1, <1>2, <1>3, <1>4, <1>5 DEF QuietAfter, NotEarly, Between
<1>6. CASE ~ (drained[d] < Len(line[d]))
  <2>1. drained[d] = Len(line[d])
    BY <1>2, <1>6
  <2>2. QED
    BY <1>1, <1>2, <1>3, <1>4, <1>6, <2>1, LastRunIsLate DEF QuietAfter
<1>7. QED
  BY <1>5, <1>6

(* A receive is delivered once: whenever uart.c delivers a message, two    *)
(* frames have passed since its last byte, kept or ignored, on any board   *)
(* and however long handlers are kept waiting.                             *)
THEOREM DeliveredAfterIdle ==
  ASSUME UartRxAssumption
  PROVE  Spec => DeliversAfterIdle
<1> DEFINE A == \A d \in Devices :
                  last'[d] # last[d] => QuietAfter(d, last'[d].upto)
<1>1. IInv /\ TimingInv /\ [Next]_vars => [A]_vars
  <2> SUFFICES ASSUME IInv, TimingInv, [Next]_vars,
                      NEW d \in Devices, last'[d] # last[d]
               PROVE  QuietAfter(d, last'[d].upto)
    OBVIOUS
  <2>1. last' # last
    OBVIOUS
  <2>2. PICK e \in Devices : TimerDeliver(e)
    BY <2>1 DEF Next, TaskStep, UartStep, LineStep, TimerStep, Tick,
                UartInit, SetCallback, SetBaud, UartEnter, UartNext,
                UartRead, UartArm, UartReset, TimerEnter, TimerRead,
                TimerArm, TimerCount, TimerRestart, Arrive, vars, histVars
  <2>3. e = d
    BY <2>2 DEF TimerDeliver, IInv, TypeOK
  <2>4. QED
    BY <2>2, <2>3, DeliveredIsQuiet
<1>2. QED
  BY <1>1, ReceiveInvariant, TimingInvariant, PTL DEF Spec, DeliversAfterIdle
=============================================================================
