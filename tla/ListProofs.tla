----------------------------- MODULE ListProofs -----------------------------
(***************************************************************************)
(* Facts about lists that the proofs about the kernel rest on.  What a     *)
(* recursive function computes is proved with the least number for which   *)
(* it fails.                                                               *)
(***************************************************************************)
EXTENDS Lists, SequencesExt, FiniteSetsExt, SequenceTheorems,
        WellFoundedInduction, TLAPS

-----------------------------------------------------------------------------
(* The least number. *)

Less == {ss \in Nat \X Nat : ss[1] < ss[2]}

(* A set of numbers that is not empty has a least member. *)
LEMMA NatMin ==
  ASSUME NEW T \in SUBSET Nat, T # {}
  PROVE  \E n \in T : \A m \in T : n <= m
<1>1. IsWellFoundedOn(OpToRel(<, Nat), Nat)
  BY NatLessThanWellFounded
<1>2. OpToRel(<, Nat) = Less
  BY DEF OpToRel, Less
<1>3. IsWellFoundedOn(Less, Nat)
  BY <1>1, <1>2
<1>4. PICK x \in T : \A y \in T : ~ (<<y, x>> \in Less)
  BY <1>3, WFMin
<1>5. \A y \in T : x <= y
  <2> TAKE y \in T
  <2>1. x \in Nat /\ y \in Nat
    OBVIOUS
  <2>2. ~ (y < x)
    BY <1>4, <2>1 DEF Less
  <2>3. QED
    BY <2>1, <2>2
<1>6. QED
  BY <1>5

(* Min is that member. *)
LEMMA MinOfNats ==
  ASSUME NEW T \in SUBSET Nat, T # {}
  PROVE  Min(T) \in T /\ \A m \in T : Min(T) <= m
BY NatMin DEF Min

-----------------------------------------------------------------------------
(* A list with an item more, or without its first. *)

(* The item goes to its place, those behind it move up. *)
LEMMA InsertAtPlace ==
  ASSUME NEW S, NEW list \in Seq(S), NEW x \in S, NEW k \in 1 .. Len(list) + 1
  PROVE  /\ InsertAt(list, k, x) \in Seq(S)
         /\ Len(list) \in Nat /\ Len(InsertAt(list, k, x)) = Len(list) + 1
         /\ \A i \in 1 .. Len(list) + 1 :
              InsertAt(list, k, x)[i] =
                IF i < k THEN list[i] ELSE IF i = k THEN x ELSE list[i - 1]
<1> DEFINE n == Len(list)
           a == SubSeq(list, 1, k - 1)
           b == SubSeq(list, k, n)
<1>1. /\ n \in Nat /\ k \in Nat \ {0} /\ k <= n + 1
      /\ \A i \in 1 .. n : list[i] \in S
  BY ElementOfSeq
<1> HIDE DEF n
<1>2. /\ 1 \in Int /\ k - 1 \in Int /\ k \in Int /\ n \in Int
      /\ 1 .. k - 1 \subseteq 1 .. n /\ k .. n \subseteq 1 .. n
  BY <1>1
<1>3. /\ a \in Seq(S) /\ Len(a) = k - 1
      /\ \A i \in 1 .. k - 1 : a[i] = list[i]
  <2>1. /\ a \in Seq(S)
        /\ Len(a) = IF 1 <= k - 1 THEN k - 1 - 1 + 1 ELSE 0
        /\ \A i \in 1 .. k - 1 - 1 + 1 : a[i] = list[1 + i - 1]
    BY <1>1, <1>2, SubSeqProperties
  <2>2. /\ k - 1 - 1 + 1 = k - 1
        /\ \A i \in 1 .. k - 1 : 1 + i - 1 = i
    BY <1>1
  <2> HIDE DEF a
  <2>3. Len(a) = k - 1
    BY <1>1, <2>1
  <2>4. QED
    BY <2>1, <2>2, <2>3
<1>4. /\ b \in Seq(S) /\ Len(b) = n - k + 1
      /\ \A i \in 1 .. n - k + 1 : b[i] = list[k + i - 1]
  <2>1. /\ b \in Seq(S)
        /\ Len(b) = IF k <= n THEN n - k + 1 ELSE 0
        /\ \A i \in 1 .. n - k + 1 : b[i] = list[k + i - 1]
    BY <1>1, <1>2, SubSeqProperties
  <2> HIDE DEF b
  <2>2. Len(b) = n - k + 1
    BY <1>1, <2>1
  <2>3. QED
    BY <2>1, <2>2
<1> HIDE DEF a, b
<1> DEFINE c == a \o <<x>>
<1>5. /\ <<x>> \in Seq(S) /\ Len(<<x>>) = 1 /\ <<x>>[1] = x
  OBVIOUS
<1>6. /\ c \in Seq(S) /\ Len(c) = k
      /\ \A i \in 1 .. k - 1 : c[i] = list[i]
      /\ c[k] = x
  <2>1. /\ c \in Seq(S) /\ Len(c) = Len(a) + 1
        /\ \A i \in 1 .. Len(a) + 1 :
             c[i] = IF i <= Len(a) THEN a[i] ELSE <<x>>[i - Len(a)]
    BY <1>3, <1>5, ConcatProperties
  <2> HIDE DEF c
  <2>2. /\ k - 1 + 1 = k /\ k \in 1 .. k /\ ~ (k <= k - 1)
        /\ k - (k - 1) = 1
        /\ \A i \in 1 .. k - 1 : i \in 1 .. k /\ i <= k - 1
    BY <1>1
  <2>3. Len(c) = k /\ c[k] = x
    BY <1>3, <1>5, <2>1, <2>2
  <2>4. \A i \in 1 .. k - 1 : c[i] = list[i]
    BY <1>3, <2>1, <2>2
  <2>5. QED
    BY <2>1, <2>3, <2>4
<1> HIDE DEF c
<1>7. /\ c \o b \in Seq(S) /\ Len(c \o b) = k + (n - k + 1)
      /\ \A i \in 1 .. k + (n - k + 1) :
           (c \o b)[i] = IF i <= k THEN c[i] ELSE b[i - k]
  <2>1. /\ c \o b \in Seq(S) /\ Len(c \o b) = Len(c) + Len(b)
        /\ \A i \in 1 .. Len(c) + Len(b) :
             (c \o b)[i] = IF i <= Len(c) THEN c[i] ELSE b[i - Len(c)]
    BY <1>4, <1>6, ConcatProperties
  <2>2. Len(c) = k /\ Len(b) = n - k + 1
    BY <1>4, <1>6
  <2>3. QED
    BY <2>1, <2>2, Zenon
<1>8. k + (n - k + 1) = n + 1
  BY <1>1
<1>9. ASSUME NEW i \in 1 .. n + 1
      PROVE  (c \o b)[i] =
               IF i < k THEN list[i] ELSE IF i = k THEN x ELSE list[i - 1]
  <2>1. CASE i < k
    <3>1. i <= k /\ i \in 1 .. k - 1
      BY <1>1, <2>1
    <3>2. QED
      BY <1>6, <1>7, <1>8, <2>1, <3>1
  <2>2. CASE i = k
    <3>1. i <= k /\ ~ (i < k)
      BY <1>1, <2>2
    <3>2. QED
      BY <1>6, <1>7, <1>8, <2>2, <3>1
  <2>3. CASE i > k
    <3>1. /\ ~ (i <= k) /\ ~ (i < k) /\ i # k
          /\ i - k \in 1 .. n - k + 1 /\ k + (i - k) - 1 = i - 1
      BY <1>1, <2>3
    <3>2. b[i - k] = list[i - 1]
      BY <1>4, <3>1
    <3>3. QED
      BY <1>7, <1>8, <3>1, <3>2
  <2>4. i < k \/ i = k \/ i > k
    BY <1>1
  <2>5. QED
    BY <2>1, <2>2, <2>3, <2>4
<1>10. InsertAt(list, k, x) = c \o b
  BY DEF InsertAt, a, b, c, n
<1>11. QED
  BY <1>1, <1>7, <1>8, <1>9, <1>10 DEF n

-----------------------------------------------------------------------------
(* What remains of a list. *)

(* The recursive function of Kept, up to n. *)
Follows(f, list, keep, n) ==
  f = [i \in 0 .. n |-> IF i = 0 THEN <<>>
                        ELSE IF i \in keep THEN Append(f[i - 1], list[i])
                                           ELSE f[i - 1]]

(* There is such a function. *)
LEMMA KeptExists ==
  ASSUME NEW list, NEW keep
  PROVE  \A n \in Nat : \E f : Follows(f, list, keep, n)
<1> DEFINE bad == {n \in Nat : ~ \E f : Follows(f, list, keep, n)}
<1>1. SUFFICES ASSUME bad # {}
               PROVE  FALSE
  OBVIOUS
<1>2. PICK n \in bad : \A m \in bad : n <= m
  BY <1>1, NatMin
<1>3. n # 0
  <2> DEFINE f == [i \in 0 .. 0 |-> <<>>]
  <2>1. Follows(f, list, keep, 0)
    BY DEF Follows
  <2>2. QED
    BY <2>1
<1>4. n \in Nat /\ n - 1 \in Nat /\ ~ (n <= n - 1)
  BY <1>3
<1>5. PICK f : Follows(f, list, keep, n - 1)
  BY <1>2, <1>4
<1> DEFINE last == IF n \in keep THEN Append(f[n - 1], list[n]) ELSE f[n - 1]
           g == [i \in 0 .. n |-> IF i = n THEN last ELSE f[i]]
<1>6. ASSUME NEW i \in 0 .. n
      PROVE  g[i] = IF i = 0 THEN <<>>
                    ELSE IF i \in keep THEN Append(g[i - 1], list[i])
                                       ELSE g[i - 1]
  <2>1. CASE i = n
    <3>1. n - 1 \in 0 .. n /\ n - 1 # n /\ n # 0 /\ n \in 0 .. n
      BY <1>4, <1>3
    <3>2. g[n - 1] = f[n - 1] /\ g[n] = last
      BY <3>1
    <3>3. QED
      BY <2>1, <3>1, <3>2
  <2>2. CASE i # n /\ i # 0
    <3>1. i \in 0 .. n - 1 /\ i - 1 \in 0 .. n /\ i - 1 # n
      BY <1>4, <2>2
    <3>2. g[i] = f[i] /\ g[i - 1] = f[i - 1]
      BY <2>2, <3>1
    <3>3. QED
      BY <1>5, <2>2, <3>1, <3>2 DEF Follows
  <2>3. CASE i # n /\ i = 0
    <3>1. 0 \in 0 .. n - 1
      BY <1>4
    <3>2. f[0] = <<>>
      BY <1>5, <3>1 DEF Follows
    <3>3. QED
      BY <2>3, <3>2
  <2>4. QED
    BY <2>1, <2>2, <2>3
<1>7. Follows(g, list, keep, n)
  BY <1>6 DEF Follows
<1>8. QED
  BY <1>7

(* What remains are the items at the places kept, in their order. *)
Remains(r, list, keep, n) ==
  \E at \in [1 .. Len(r) -> (1 .. n) \cap keep] :
    /\ \A i \in 1 .. Len(r) : r[i] = list[at[i]]
    /\ \A i, j \in 1 .. Len(r) : i < j => at[i] < at[j]

(* Kept returns such a list. *)
LEMMA KeptRemains ==
  ASSUME NEW S, NEW list \in Seq(S), NEW keep
  PROVE  /\ Kept(list, keep) \in Seq(S)
         /\ Remains(Kept(list, keep), list, keep, Len(list))
<1> DEFINE f == CHOOSE f : Follows(f, list, keep, Len(list))
<1>1. Len(list) \in Nat
  OBVIOUS
<1>2. Follows(f, list, keep, Len(list))
  BY <1>1, KeptExists
<1>3. Kept(list, keep) = f[Len(list)]
  BY DEF Kept, Follows
<1> HIDE DEF f
<1>4. /\ f[0] = <<>>
      /\ \A i \in 1 .. Len(list) :
           f[i] = IF i \in keep THEN Append(f[i - 1], list[i]) ELSE f[i - 1]
  <2>1. /\ 0 \in 0 .. Len(list)
        /\ \A i \in 1 .. Len(list) : i \in 0 .. Len(list) /\ i # 0
    BY <1>1
  <2>2. \A i \in 0 .. Len(list) :
          f[i] = IF i = 0 THEN <<>>
                 ELSE IF i \in keep THEN Append(f[i - 1], list[i])
                                    ELSE f[i - 1]
    BY <1>2, Zenon DEF Follows
  <2>3. QED
    BY <2>1, <2>2
<1> DEFINE Good(i) == f[i] \in Seq(S) /\ Remains(f[i], list, keep, i)
           bad == {i \in 0 .. Len(list) : ~ Good(i)}
<1>5. Good(0)
  <2>1. <<>> \in Seq(S) /\ Len(<<>>) = 0
    BY EmptySeq
  <2>2. 1 .. 0 = {}
    OBVIOUS
  <2>3. Remains(<<>>, list, keep, 0)
    <3> DEFINE at == [i \in 1 .. 0 |-> i]
    <3>1. at \in [1 .. 0 -> (1 .. 0) \cap keep]
      BY <2>2
    <3>2. QED
      BY <2>1, <2>2, <3>1 DEF Remains
  <2>4. QED
    BY <1>4, <2>1, <2>3
<1>6. ASSUME NEW i \in 1 .. Len(list), Good(i - 1)
      PROVE  Good(i)
  <2> DEFINE r == f[i - 1]
  <2>1. r \in Seq(S) /\ i \in Nat /\ i - 1 \in Nat
    BY <1>1, <1>6
  <2>2. PICK at \in [1 .. Len(r) -> (1 .. i - 1) \cap keep] :
          /\ \A j \in 1 .. Len(r) : r[j] = list[at[j]]
          /\ \A j, k \in 1 .. Len(r) : j < k => at[j] < at[k]
    BY <1>6 DEF Remains
  <2>3. f[i] = IF i \in keep THEN Append(r, list[i]) ELSE r
    BY <1>4
  <2>4. 1 .. i - 1 \subseteq 1 .. i
    BY <2>1
  <2>5. CASE i \notin keep
    <3>1. at \in [1 .. Len(r) -> (1 .. i) \cap keep]
      BY <2>4
    <3>2. Remains(r, list, keep, i)
      BY <2>2, <3>1 DEF Remains
    <3>3. QED
      BY <2>1, <2>3, <2>5, <3>2
  <2>6. CASE i \in keep
    <3> DEFINE x == list[i]
               a == [j \in 1 .. Len(r) + 1 |->
                       IF j = Len(r) + 1 THEN i ELSE at[j]]
    <3>1. x \in S
      BY ElementOfSeq
    <3>2. /\ Append(r, x) \in Seq(S) /\ Len(Append(r, x)) = Len(r) + 1
          /\ \A j \in 1 .. Len(r) : Append(r, x)[j] = r[j]
          /\ Append(r, x)[Len(r) + 1] = x
      BY <2>1, <3>1, AppendProperties
    <3> HIDE DEF r
    <3>3. Len(r) \in Nat
      BY <2>1, LenProperties
    <3>4. /\ \A j \in 1 .. Len(r) : a[j] = at[j] /\ at[j] \in 1 .. i - 1
          /\ a[Len(r) + 1] = i
          /\ \A j \in 1 .. Len(r) + 1 : j \in 1 .. Len(r) \/ j = Len(r) + 1
      BY <3>3
    <3>5. a \in [1 .. Len(r) + 1 -> (1 .. i) \cap keep]
      BY <2>1, <2>4, <2>6, <3>4
    <3>6. \A j \in 1 .. Len(r) + 1 : Append(r, x)[j] = list[a[j]]
      BY <2>2, <3>2, <3>4
    <3>7. \A j, k \in 1 .. Len(r) + 1 : j < k => a[j] < a[k]
      <4> SUFFICES ASSUME NEW j \in 1 .. Len(r) + 1,
                          NEW k \in 1 .. Len(r) + 1, j < k
                   PROVE  a[j] < a[k]
        OBVIOUS
      <4>1. j \in 1 .. Len(r)
        BY <3>3
      <4>2. CASE k \in 1 .. Len(r)
        BY <2>2, <3>4, <4>1, <4>2
      <4>3. CASE k = Len(r) + 1
        <5>1. a[k] = i /\ a[j] \in 1 .. i - 1
          BY <3>4, <4>1, <4>3
        <5>2. QED
          BY <2>1, <5>1
      <4>4. QED
        BY <3>4, <4>2, <4>3
    <3>8. Remains(Append(r, x), list, keep, i)
      <4> DEFINE p == Append(r, x)
      <4>1. /\ Len(p) = Len(r) + 1
            /\ a \in [1 .. Len(p) -> (1 .. i) \cap keep]
            /\ \A j \in 1 .. Len(p) : p[j] = list[a[j]]
            /\ \A j, k \in 1 .. Len(p) : j < k => a[j] < a[k]
        BY <3>2, <3>5, <3>6, <3>7
      <4> HIDE DEF p, a
      <4>2. Remains(p, list, keep, i)
        BY <4>1 DEF Remains
      <4>3. QED
        BY <4>2 DEF p
    <3>9. QED
      BY <2>3, <2>6, <3>2, <3>8
  <2>7. QED
    BY <2>5, <2>6
<1> HIDE DEF Good
<1>7. bad = {}
  <2> SUFFICES ASSUME bad # {}
               PROVE  FALSE
    OBVIOUS
  <2>1. bad \in SUBSET Nat
    BY <1>1
  <2>2. PICK n \in bad : \A m \in bad : n <= m
    BY <2>1, NatMin
  <2>3. n \in 1 .. Len(list)
    BY <1>1, <1>5
  <2>4. n - 1 \in 0 .. Len(list) /\ ~ (n <= n - 1)
    BY <1>1, <2>3
  <2>5. Good(n - 1)
    BY <2>2, <2>4
  <2>6. QED
    BY <1>6, <2>3, <2>5
<1>8. Good(Len(list))
  BY <1>1, <1>7
<1>9. QED
  BY <1>3, <1>8 DEF Good

=============================================================================
