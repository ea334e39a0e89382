------------------------------- MODULE Heap4 --------------------------------
(***************************************************************************)
(* The kernel's heap (heap_4.c), that tasks, mutexes and queues are made   *)
(* from: first fit, blocks that are split, and neighbours that are joined  *)
(* again.  The linked list of free blocks is a sequence; a block begins    *)
(* with its header, and addresses are numbers of bytes.                    *)
(*                                                                         *)
(* A step is what a task does with the scheduler suspended, or before.     *)
(***************************************************************************)
EXTENDS Integers, Sequences, FiniteSets, SequencesExt, FiniteSetsExt

CONSTANTS
  ucHeap,               \* the address of the array
  configTOTAL_HEAP_SIZE,
  portBYTE_ALIGNMENT,
  xHeapStructSize,      \* the size of a header
  SizeT,                \* the range of size_t
  Sizes, Nums           \* the sizes, and numbers of items, asked for

Heap4Constants ==
  /\ ucHeap \in Nat \ {0} /\ configTOTAL_HEAP_SIZE \in Nat
  /\ portBYTE_ALIGNMENT \in Nat \ {0} /\ xHeapStructSize \in Nat \ {0}
  /\ xHeapStructSize % portBYTE_ALIGNMENT = 0
  /\ SizeT \in Nat /\ SizeT % 2 = 0
  /\ configTOTAL_HEAP_SIZE >= 2 * portBYTE_ALIGNMENT + 2 * xHeapStructSize
  /\ configTOTAL_HEAP_SIZE < SizeT \div 2
  /\ ucHeap + configTOTAL_HEAP_SIZE < SizeT
  /\ Sizes \subseteq 0 .. SizeT - 1 /\ Nums \subseteq 0 .. SizeT - 1

VARIABLES
  pxEnd,     \* the address of the end marker, 0 before the first call
  free,      \* the free blocks, in the order of their list
  taken,     \* the other blocks: their size and what was asked for, by address
  freeing,   \* those marked free, that are not on the list yet
  xFreeBytesRemaining, xMinimumEverFreeBytesRemaining,
  refused    \* history: the number of bytes that was just refused, or 0

vars == <<pxEnd, free, taken, freeing, xFreeBytesRemaining,
          xMinimumEverFreeBytesRemaining, refused>>

Init ==
  /\ pxEnd = 0 /\ free = <<>> /\ taken = <<>> /\ freeing = {}
  /\ xFreeBytesRemaining = 0 /\ xMinimumEverFreeBytesRemaining = 0
  /\ refused = 0

-----------------------------------------------------------------------------

AlignedDown(n) == n - (n % portBYTE_ALIGNMENT)

AlignedUp(n) == AlignedDown(n + portBYTE_ALIGNMENT - 1)

uxStartAddress == AlignedUp(ucHeap)

uxEndAddress ==
  AlignedDown(ucHeap + configTOTAL_HEAP_SIZE - xHeapStructSize)

(* prvHeapInit: one block that takes up all but the end marker. *)
Whole == [start |-> uxStartAddress, size |-> uxEndAddress - uxStartAddress]

(* The size of the block for n bytes, 0 if that is not a size.             *)
xWantedSize(n) ==
  LET w == n + xHeapStructSize
      aligned == AlignedUp(w) IN
  IF n = 0 \/ w >= SizeT \/ aligned >= SizeT THEN 0 ELSE aligned

(* The highest bit of a size marks blocks that are taken. *)
Valid(w) == w > 0 /\ w < SizeT \div 2

-----------------------------------------------------------------------------
(* pvPortMalloc. *)

(* Mutant: a rest too small for a block of its own goes to nobody. *)
TakingExact(blocks, i, w) ==
  LET b == blocks[i] IN
  IF b.size - w > 2 * xHeapStructSize
  THEN [blocks |-> [blocks EXCEPT ![i] = [start |-> b.start + w,
                                          size |-> b.size - w]],
        size |-> w]
  ELSE [blocks |-> RemoveAt(blocks, i), size |-> w]

(* Take w bytes from the i-th of the blocks, or all of it if the rest is   *)
(* too small for a block of its own.                                       *)
Taking(blocks, i, w) ==
  LET b == blocks[i] IN
  IF b.size - w > 2 * xHeapStructSize
  THEN [blocks |-> [blocks EXCEPT ![i] = [start |-> b.start + w,
                                          size |-> b.size - w]],
        size |-> w]
  ELSE [blocks |-> RemoveAt(blocks, i), size |-> b.size]

(* The first of the blocks that is long enough, 0 if there is none. *)
FirstFit(blocks, w) == SelectInSeq(blocks, LAMBDA b : b.size >= w)

(* asked is what the caller wants room for. *)
Malloc(n, asked) ==
  LET blocks == IF pxEnd = 0 THEN <<Whole>> ELSE free
      remaining == IF pxEnd = 0 THEN Whole.size ELSE xFreeBytesRemaining
      minimum == IF pxEnd = 0 THEN Whole.size
                 ELSE xMinimumEverFreeBytesRemaining
      w == xWantedSize(n)
      i == IF Valid(w) /\ w <= remaining
           THEN FirstFit(blocks, w) ELSE 0
      took == Taking(blocks, i, w) IN
  /\ pxEnd' = uxEndAddress
  /\ IF i = 0
     THEN /\ free' = blocks /\ refused' = asked
          /\ xFreeBytesRemaining' = remaining
          /\ xMinimumEverFreeBytesRemaining' = minimum
          /\ UNCHANGED taken
     ELSE /\ free' = took.blocks /\ refused' = 0
          /\ taken' = [a \in DOMAIN taken \cup {blocks[i].start} |->
               IF a = blocks[i].start
               THEN [size |-> took.size, asked |-> asked] ELSE taken[a]]
          /\ xFreeBytesRemaining' = remaining - took.size
          /\ xMinimumEverFreeBytesRemaining' =
               Min({minimum, remaining - took.size})
  /\ UNCHANGED freeing

pvPortMalloc(n) == Malloc(n, n)

(* The product may be more than a size_t holds. *)
pvPortCalloc(num, n) ==
  IF num > 0 /\ n > (SizeT - 1) \div num
  THEN refused' = num * n /\ UNCHANGED <<pxEnd, free, taken, freeing,
         xFreeBytesRemaining, xMinimumEverFreeBytesRemaining>>
  ELSE Malloc(num * n, num * n)

-----------------------------------------------------------------------------
(* vPortFree. *)

(* How many of the blocks lie at lower addresses than a. *)
Before(list, a) ==
  LET i == SelectInSeq(list, LAMBDA f : f.start >= a) IN
  IF i = 0 THEN Len(list) ELSE i - 1

(* prvInsertBlockIntoFreeList: behind the blocks at lower addresses, and   *)
(* in one with its neighbours if nothing lies between.                     *)
Inserted(list, b) ==
  LET n == Before(list, b.start)
      Joins(x, y) == x.start + x.size = y.start
      joinsLast == n > 0 /\ Joins(list[n], b)
      joinsNext == n < Len(list) /\ Joins(b, list[n + 1]) IN
  SubSeq(list, 1, IF joinsLast THEN n - 1 ELSE n)
    \o <<[start |-> IF joinsLast THEN list[n].start ELSE b.start,
          size |-> (IF joinsLast THEN list[n].size ELSE 0) + b.size
                   + (IF joinsNext THEN list[n + 1].size ELSE 0)]>>
    \o SubSeq(list, IF joinsNext THEN n + 2 ELSE n + 1, Len(list))

(* The caller's own block is marked before the scheduler is suspended. *)
MarkFree(a) ==
  /\ a \in DOMAIN taken \ freeing
  /\ freeing' = freeing \cup {a} /\ refused' = 0
  /\ UNCHANGED <<pxEnd, free, taken, xFreeBytesRemaining,
                 xMinimumEverFreeBytesRemaining>>

InsertFree(a) ==
  /\ a \in freeing
  /\ xFreeBytesRemaining' = xFreeBytesRemaining + taken[a].size
  /\ free' = Inserted(free, [start |-> a, size |-> taken[a].size])
  /\ freeing' = freeing \ {a}
  /\ taken' = [x \in DOMAIN taken \ {a} |-> taken[x]]
  /\ refused' = 0
  /\ UNCHANGED <<pxEnd, xMinimumEverFreeBytesRemaining>>

xPortResetHeapMinimumEverFreeHeapSize ==
  /\ xMinimumEverFreeBytesRemaining' = xFreeBytesRemaining
  /\ refused' = 0
  /\ UNCHANGED <<pxEnd, free, taken, freeing, xFreeBytesRemaining>>

Next ==
  \/ \E n \in Sizes : pvPortMalloc(n) \/ \E num \in Nums : pvPortCalloc(num, n)
  \/ \E a \in DOMAIN taken : MarkFree(a) \/ InsertFree(a)
  \/ xPortResetHeapMinimumEverFreeHeapSize

Spec == Init /\ [][Next]_vars

-----------------------------------------------------------------------------

Addresses == uxStartAddress .. uxEndAddress - 1

(* Every variable keeps its type, and no size reaches the bit that marks a *)
(* block as taken.                                                         *)
TypeOK ==
  /\ pxEnd \in {0, uxEndAddress}
  /\ \A i \in DOMAIN free : /\ free[i].start \in Addresses
                            /\ Valid(free[i].size)
  /\ \A a \in DOMAIN taken : /\ a \in Addresses
                             /\ Valid(taken[a].size)
                             /\ taken[a].asked \in Nat
  /\ freeing \subseteq DOMAIN taken
  /\ xFreeBytesRemaining \in 0 .. Whole.size
  /\ xMinimumEverFreeBytesRemaining \in 0 .. xFreeBytesRemaining
  /\ refused \in Nat

Blocks == ToSet(free) \cup
          {[start |-> a, size |-> taken[a].size] : a \in DOMAIN taken}

Span(b) == b.start .. b.start + b.size - 1

(* Every byte of the heap belongs to one block, free or taken but not      *)
(* both: none is given out twice and none gets lost, through all splitting *)
(* and joining.                                                            *)
BlocksTileTheHeap ==
  pxEnd # 0 =>
    /\ UNION {Span(b) : b \in Blocks} = Addresses
    /\ \A b, c \in Blocks : b # c => Span(b) \cap Span(c) = {}
    /\ \A i \in DOMAIN free : free[i].start \notin DOMAIN taken
    /\ \A b \in Blocks : b.start % portBYTE_ALIGNMENT = 0

(* The list of free blocks is in the order of their addresses, and between *)
(* two of them lies a block that is taken: neighbours are always joined.   *)
FreeListIsJoined ==
  \A i \in 1 .. Len(free) - 1 :
    free[i].start + free[i].size < free[i + 1].start

FreeBytes == UNION {Span(b) : b \in ToSet(free)}

(* xFreeBytesRemaining, which decides whether the list is looked at at     *)
(* all, is the number of bytes in the blocks on it.                        *)
FreeBytesAgree == xFreeBytesRemaining = Cardinality(FreeBytes)

(* Who got a block has room in it for all that was asked for, behind the   *)
(* header: also where sizes come near the end of size_t, or a number of    *)
(* items is multiplied by their size.                                      *)
BlockHoldsWhatWasAsked ==
  \A a \in DOMAIN taken : taken[a].size >= taken[a].asked + xHeapStructSize

(* A request is refused only if no row of free bytes is long enough for it *)
(* and its header, whichever blocks these bytes were freed as.             *)
RefusedOnlyIfNoRoom ==
  refused > 0 =>
    ~ \E a \in Addresses :
        a .. a + AlignedUp(refused + xHeapStructSize) - 1 \subseteq FreeBytes

(* The heap is sound: every promise of pvPortMalloc, pvPortCalloc and      *)
(* vPortFree at once.                                                      *)
IsSound ==
  /\ TypeOK /\ BlocksTileTheHeap /\ FreeListIsJoined /\ FreeBytesAgree
  /\ BlockHoldsWhatWasAsked /\ RefusedOnlyIfNoRoom

=============================================================================
