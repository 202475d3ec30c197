---------------------------- MODULE Sums_proofs ----------------------------
(***************************************************************************)
(* Proofs about Sums, for any logits, labels, shapes, sizes and orders of   *)
(* the threads: that a token's sum is of its own best experts, that the     *)
(* tiles take each routed row once, that a slot's entropy counts each token *)
(* once.  Then the processor's products: what an image or a vector of       *)
(* weights holds at a place is the weight that the reference reads, sums    *)
(* made by pieces are those pieces put together again, and each index of a  *)
(* result is in one block of rows, where it is stored once.                 *)
(***************************************************************************)
EXTENDS Sums, FoldLemmas

-----------------------------------------------------------------------------
(* What a search for the best keeps.  A number is ahead of another when its *)
(* logit is greater, or equal and it comes first.                           *)

Ahead(row, a, b) == row[a + 1] > row[b + 1] \/ (row[a + 1] = row[b + 1] /\ a < b)

Choice == [id : Int, value : Int]

(* The best K of the first j numbers, of which m are kept; the other places  *)
(* are as they began.                                                        *)
RankedTo(c, row, j, K, m, least) ==
  /\ c \in [1..K -> Choice]
  /\ \A k \in 1..m : c[k].id \in 0..(j - 1) /\ c[k].value = row[c[k].id + 1]
  /\ \A k \in (m + 1)..K : c[k].value = least
  /\ \A k, l \in 1..m : k < l => Ahead(row, c[k].id, c[l].id)
  /\ \A i \in 0..(j - 1) : (\E k \in 1..m : c[k].id = i) \/ (m = K /\ Ahead(row, c[K].id, i))

Kept(j, K) == IF j < K THEN j ELSE K

Ranked(c, row, j, K, least) == RankedTo(c, row, j, K, Kept(j, K), least)

(* A number takes the place of the first it beats. *)
TakesPlace(c, d, K, i, v, a) ==
  /\ v > c[a].value /\ \A k \in 1..(a - 1) : v <= c[k].value /\ d[k] = c[k]
  /\ d[a] = [id |-> i, value |-> v]
  /\ \A k \in (a + 1)..K : d[k] = c[k - 1]

Entered(c, d, K, i, v) ==
  /\ d \in [1..K -> Choice]
  /\ \/ d = c /\ \A k \in 1..K : v <= c[k].value
     \/ \E a \in 1..K : TakesPlace(c, d, K, i, v, a)

LogitsAbove(row, n, least) == row \in [1..n -> Int] /\ \A i \in 1..n : row[i] > least

LEMMA AheadIsOrder ==
  ASSUME NEW n \in Nat, NEW row \in [1..n -> Int],
         NEW a \in 0..(n - 1), NEW b \in 0..(n - 1), NEW c \in 0..(n - 1)
  PROVE  /\ Ahead(row, a, b) /\ Ahead(row, b, c) => Ahead(row, a, c)
         /\ ~Ahead(row, a, a)
         /\ Ahead(row, a, b) \/ Ahead(row, b, a) \/ a = b
         /\ Ahead(row, a, b) => row[a + 1] >= row[b + 1]
<1>1. row[a + 1] \in Int /\ row[b + 1] \in Int /\ row[c + 1] \in Int
  OBVIOUS
<1>2. QED
  BY <1>1 DEF Ahead

LEMMA RankedStays ==
  ASSUME NEW n \in Nat, NEW least \in Int, NEW row, LogitsAbove(row, n, least), NEW K \in Nat \ {0},
         NEW j \in 0..(n - 1), NEW c, Ranked(c, row, j, K, least),
         \A k \in 1..K : row[j + 1] <= c[k].value
  PROVE  Ranked(c, row, j + 1, K, least)
<1> DEFINE m == Kept(j, K)
           v == row[j + 1]
<1>1. v \in Int /\ v > least /\ row \in [1..n -> Int]
  BY DEF LogitsAbove
<1>2. RankedTo(c, row, j, K, m, least)
  BY DEF Ranked
<1>3. m = K /\ K <= j /\ Kept(j + 1, K) = K
  <2>1. CASE j < K
    <3>1. m = j /\ j + 1 \in (m + 1)..K /\ j + 1 \in 1..K
      BY <2>1 DEF Kept
    <3>2. c[j + 1].value = least
      BY <1>2, <3>1 DEF RankedTo
    <3>3. QED
      BY <1>1, <3>1, <3>2
  <2>2. CASE ~(j < K)
    BY <2>2 DEF Kept
  <2>3. QED
    BY <2>1, <2>2
<1> HIDE DEF m, v
<1>4. c[K].id \in 0..(j - 1) /\ c[K].value = row[c[K].id + 1] /\ v <= c[K].value
  <2>1. K \in 1..K /\ K \in 1..m
    BY <1>3
  <2>2. QED
    BY <1>2, <2>1 DEF RankedTo, v
<1>5. Ahead(row, c[K].id, j)
  <2>1. PICK a \in Nat, d \in Int : a = c[K].id /\ d = row[a + 1] /\ a < j /\ v <= d
    <3>1. c[K].value \in Int
      BY <1>2 DEF RankedTo, Choice
    <3>2. c[K].id \in Nat /\ c[K].id < j
      BY <1>4
    <3>3. QED
      BY Zenon, <1>4, <3>1, <3>2
  <2>2. d > v \/ (d = v /\ a < j)
    BY <1>1, <2>1
  <2>3. QED
    BY Zenon, <2>1, <2>2 DEF Ahead, v
<1>6. \A k \in 1..K : c[k].id \in 0..((j + 1) - 1) /\ c[k].value = row[c[k].id + 1]
  BY <1>2, <1>3 DEF RankedTo
<1>7. ASSUME NEW i \in 0..((j + 1) - 1)
      PROVE  (\E k \in 1..K : c[k].id = i) \/ (K = K /\ Ahead(row, c[K].id, i))
  <2>1. CASE i = j
    BY <1>5, <2>1
  <2>2. CASE i # j
    <3>1. i \in 0..(j - 1)
      BY <2>2
    <3>2. QED
      BY <1>2, <1>3, <3>1 DEF RankedTo
  <2>3. QED
    BY <2>1, <2>2
<1>8. c \in [1..K -> Choice] /\ (\A k \in (K + 1)..K : c[k].value = least)
      /\ \A k, l \in 1..K : k < l => Ahead(row, c[k].id, c[l].id)
  BY <1>2, <1>3 DEF RankedTo
<1>9. RankedTo(c, row, j + 1, K, K, least)
  BY <1>6, <1>7, <1>8 DEF RankedTo
<1>10. QED
  BY <1>3, <1>9 DEF Ranked

LEMMA RankedTakes ==
  ASSUME NEW n \in Nat, NEW least \in Int, NEW row, LogitsAbove(row, n, least), NEW K \in Nat \ {0},
         NEW j \in 0..(n - 1), NEW c, NEW d \in [1..K -> Choice], Ranked(c, row, j, K, least),
         NEW a \in 1..K, TakesPlace(c, d, K, j, row[j + 1], a)
  PROVE  Ranked(d, row, j + 1, K, least)
<1> DEFINE m == Kept(j, K)
           p == Kept(j + 1, K)
           v == row[j + 1]
<1>1. v \in Int /\ v > least /\ row \in [1..n -> Int]
  BY DEF LogitsAbove
<1> DEFINE N == 0..(n - 1)
<1>0. \A x, w, z \in N : /\ Ahead(row, x, w) => row[x + 1] >= row[w + 1]
                         /\ Ahead(row, x, w) /\ Ahead(row, w, z) => Ahead(row, x, z)
  BY Zenon, <1>1, AheadIsOrder
<1>2. RankedTo(c, row, j, K, m, least)
  BY DEF Ranked
<1>3. m \in 0..K /\ p \in 1..K /\ m <= j /\ p <= m + 1 /\ (m < K => p = m + 1 /\ m = j) /\ (m = K => p = K)
  BY DEF Kept
<1> HIDE DEF m, p
<1>4. /\ v > c[a].value /\ \A k \in 1..(a - 1) : v <= c[k].value /\ d[k] = c[k]
      /\ d[a] = [id |-> j, value |-> v]
      /\ \A k \in (a + 1)..K : d[k] = c[k - 1]
  BY DEF TakesPlace
<1> HIDE DEF v
<1>5. /\ c \in [1..K -> Choice]
      /\ \A k \in 1..m : c[k].id \in 0..(j - 1) /\ c[k].value = row[c[k].id + 1]
      /\ \A k \in (m + 1)..K : c[k].value = least
      /\ \A k, l \in 1..m : k < l => Ahead(row, c[k].id, c[l].id)
      /\ \A i \in 0..(j - 1) : (\E k \in 1..m : c[k].id = i) \/ (m = K /\ Ahead(row, c[K].id, i))
  BY <1>2 DEF RankedTo
<1>6. a <= p
  <2>1. CASE m < K
    <3>1. m + 1 \in (m + 1)..K
      BY <1>3, <2>1
    <3>2. c[m + 1].value = least
      BY <1>5, <3>1
    <3>3. ~(m + 1 \in 1..(a - 1))
      BY <1>1, <1>4, <3>2
    <3>4. QED
      BY <1>3, <2>1, <3>3
  <2>2. CASE m = K
    BY <1>3, <2>2
  <2>3. QED
    BY <1>3, <2>1, <2>2
<1>7. \A k \in 1..m : c[k].id \in 0..(n - 1) /\ c[k].id < j /\ c[k].id \in Int /\ row[c[k].id + 1] \in Int
      /\ c[k].id \in 0..((j + 1) - 1)
  <2>1. ASSUME NEW k \in 1..m
        PROVE  c[k].id \in 0..(n - 1) /\ c[k].id < j /\ c[k].id \in Int /\ row[c[k].id + 1] \in Int
               /\ c[k].id \in 0..((j + 1) - 1)
    <3>1. c[k].id \in 0..(j - 1)
      BY <1>5
    <3>2. \A i \in 0..(j - 1) : i \in 0..(n - 1) /\ i < j /\ i \in Int /\ i + 1 \in 1..n /\ i \in 0..((j + 1) - 1)
      OBVIOUS
    <3>3. c[k].id \in Int /\ c[k].id + 1 \in 1..n
      BY Zenon, <3>1, <3>2
    <3>4. row[c[k].id + 1] \in Int
      BY Zenon, <1>1, <3>3
    <3>5. QED
      BY Zenon, <3>1, <3>2, <3>4
  <2>2. QED
    BY <2>1
<1>8. \A k \in 1..(a - 1) : k \in 1..m /\ d[k] = c[k]
  BY <1>3, <1>4, <1>6
<1>9. \A k \in (a + 1)..p : k - 1 \in 1..m /\ k - 1 >= a /\ d[k] = c[k - 1]
  BY <1>3, <1>4, <1>6
<1>10. d[a].id = j /\ d[a].value = v /\ v = row[j + 1] /\ j \in 0..((j + 1) - 1)
  BY <1>4 DEF v
<1>11. \A k \in 1..p : k \in 1..(a - 1) \/ k = a \/ k \in (a + 1)..p
  BY <1>3
<1>12. ASSUME NEW k \in 1..p
       PROVE  d[k].id \in 0..((j + 1) - 1) /\ d[k].value = row[d[k].id + 1]
  <2>1. CASE k \in 1..(a - 1)
    BY <1>5, <1>7, <1>8, <2>1
  <2>2. CASE k = a
    BY <1>10, <2>2
  <2>3. CASE k \in (a + 1)..p
    BY <1>5, <1>7, <1>9, <2>3
  <2>4. QED
    BY <1>11, <2>1, <2>2, <2>3
<1>13. ASSUME NEW k \in (p + 1)..K PROVE d[k].value = least
  <2>1. k \in (a + 1)..K /\ k - 1 \in (m + 1)..K
    BY <1>3, <1>6
  <2>2. QED
    BY <1>4, <1>5, <2>1
<1>14. \A k \in 1..(a - 1) : Ahead(row, c[k].id, j)
  <2>1. ASSUME NEW k \in 1..(a - 1) PROVE Ahead(row, c[k].id, j)
    <3>1. v <= c[k].value /\ c[k].value = row[c[k].id + 1] /\ c[k].id < j
      BY <1>4, <1>5, <1>7, <1>8
    <3>2. row[c[k].id + 1] \in Int
      BY <1>7, <1>8
    <3>3. QED
      BY <1>1, <1>10, <3>1, <3>2 DEF Ahead
  <2>2. QED
    BY <2>1
<1>15. \A k \in 1..m : k >= a => Ahead(row, j, c[k].id)
  <2>1. ASSUME NEW k \in 1..m, k >= a PROVE Ahead(row, j, c[k].id)
    <3>1. a \in 1..m
      BY <1>3, <2>1
    <3>2. row[c[a].id + 1] >= row[c[k].id + 1]
      <4>1. CASE k = a
        BY <1>7, <3>1, <4>1
      <4>2. CASE k # a
        <5>1. Ahead(row, c[a].id, c[k].id)
          BY <1>5, <2>1, <3>1, <4>2
        <5>2. QED
          BY Zenon, <1>0, <1>7, <2>1, <3>1, <5>1
      <4>3. QED
        BY <4>1, <4>2
    <3>3. row[j + 1] > row[c[a].id + 1]
      BY <1>4, <1>5, <1>10, <3>1
    <3>4. row[c[a].id + 1] \in Int /\ row[c[k].id + 1] \in Int /\ row[j + 1] \in Int
      BY <1>1, <1>7, <1>10, <3>1
    <3>5. row[j + 1] > row[c[k].id + 1]
      BY <3>2, <3>3, <3>4
    <3>6. QED
      BY <3>5 DEF Ahead
  <2>2. QED
    BY <2>1
<1>16. ASSUME NEW k \in 1..p, NEW l \in 1..p, k < l PROVE Ahead(row, d[k].id, d[l].id)
  <2>1. CASE l \in 1..(a - 1)
    <3>1. k \in 1..(a - 1)
      BY <1>16, <2>1
    <3>2. QED
      BY <1>5, <1>8, <1>16, <2>1, <3>1
  <2>2. CASE l = a
    <3>1. k \in 1..(a - 1)
      BY <1>16, <2>2
    <3>2. QED
      BY <1>8, <1>10, <1>14, <2>2, <3>1
  <2>3. CASE l \in (a + 1)..p
    <3>1. CASE k \in 1..(a - 1)
      <4>1. k \in 1..m /\ l - 1 \in 1..m /\ k < l - 1
        BY <1>8, <1>9, <2>3, <3>1
      <4>2. Ahead(row, c[k].id, c[l - 1].id)
        BY <1>5, <4>1
      <4>3. QED
        BY <1>8, <1>9, <2>3, <3>1, <4>2
    <3>2. CASE k = a
      BY <1>9, <1>10, <1>15, <2>3, <3>2
    <3>3. CASE k \in (a + 1)..p
      <4>1. k - 1 \in 1..m /\ l - 1 \in 1..m /\ k - 1 < l - 1
        BY <1>9, <1>16, <2>3, <3>3
      <4>2. Ahead(row, c[k - 1].id, c[l - 1].id)
        BY <1>5, <4>1
      <4>3. QED
        BY <1>9, <2>3, <3>3, <4>2
    <3>4. QED
      BY <1>11, <3>1, <3>2, <3>3
  <2>4. QED
    BY <1>11, <2>1, <2>2, <2>3
<1>17. ASSUME NEW k \in 1..m
       PROVE  (\E l \in 1..p : d[l].id = c[k].id) \/ (k = K /\ m = K /\ p = K)
  <2>1. CASE k < a
    <3>1. k \in 1..(a - 1) /\ k \in 1..p
      BY <1>6, <2>1, <1>3
    <3>2. QED
      BY <1>8, <3>1
  <2>2. CASE k >= a /\ k < p
    <3>1. k + 1 \in (a + 1)..p /\ k + 1 \in 1..p /\ (k + 1) - 1 = k
      BY <2>2, <1>3
    <3>2. d[k + 1] = c[k]
      BY <1>9, <3>1
    <3>3. QED
      BY <3>1, <3>2
  <2>3. CASE k >= p
    BY <1>3, <2>3
  <2>4. QED
    BY <1>3, <2>1, <2>2, <2>3
<1>18. ASSUME m = K PROVE Ahead(row, d[K].id, c[K].id) /\ d[K].id \in 0..(n - 1)
  <2>1. p = K /\ K \in 1..m /\ K \in 1..p
    BY <1>3, <1>18
  <2>2. CASE a = K
    BY <1>10, <1>15, <2>1, <2>2
  <2>3. CASE a # K
    <3>1. K \in (a + 1)..p /\ K - 1 \in 1..m
      BY <1>3, <1>18, <2>1, <2>3
    <3>2. d[K] = c[K - 1]
      BY <1>9, <3>1
    <3>3. Ahead(row, c[K - 1].id, c[K].id)
      BY <1>5, <2>1, <3>1
    <3>4. QED
      BY <1>7, <3>1, <3>2, <3>3
  <2>4. QED
    BY <2>2, <2>3
<1>19. ASSUME NEW i \in 0..((j + 1) - 1)
       PROVE  (\E k \in 1..p : d[k].id = i) \/ (p = K /\ Ahead(row, d[K].id, i))
  <2>1. CASE i = j
    <3>1. a \in 1..p
      BY <1>6
    <3>2. QED
      BY <1>10, <2>1, <3>1
  <2>2. CASE i # j
    <3>1. i \in 0..(j - 1) /\ i \in 0..(n - 1)
      BY <2>2
    <3>2. CASE \E k \in 1..m : c[k].id = i
      <4>1. PICK k \in 1..m : c[k].id = i
        BY <3>2
      <4>2. CASE k = K /\ m = K /\ p = K
        BY <1>18, <4>1, <4>2
      <4>3. CASE \E l \in 1..p : d[l].id = c[k].id
        BY <4>1, <4>3
      <4>4. QED
        BY <1>17, <4>2, <4>3
    <3>3. CASE m = K /\ Ahead(row, c[K].id, i)
      <4>1. K \in 1..m /\ p = K
        BY <1>3, <3>3
      <4>2. c[K].id \in 0..(n - 1)
        BY <1>7, <4>1
      <4>3. Ahead(row, d[K].id, c[K].id) /\ d[K].id \in 0..(n - 1)
        BY <1>18, <3>3
      <4>4. Ahead(row, d[K].id, i)
        BY Zenon, <1>0, <3>1, <3>3, <4>2, <4>3
      <4>5. QED
        BY <4>1, <4>4
    <3>4. QED
      BY <1>5, <3>1, <3>2, <3>3
  <2>3. QED
    BY <2>1, <2>2
<1>20. RankedTo(d, row, j + 1, K, p, least)
  BY <1>12, <1>13, <1>16, <1>19 DEF RankedTo
<1>21. QED
  BY <1>20 DEF Ranked, p

LEMMA RankedGoesOn ==
  ASSUME NEW n \in Nat, NEW least \in Int, NEW row, LogitsAbove(row, n, least), NEW K \in Nat \ {0},
         NEW j \in 0..(n - 1), NEW c, NEW d, Ranked(c, row, j, K, least),
         Entered(c, d, K, j, row[j + 1])
  PROVE  Ranked(d, row, j + 1, K, least)
<1>1. CASE d = c /\ \A k \in 1..K : row[j + 1] <= c[k].value
  BY <1>1, RankedStays
<1>2. CASE \E a \in 1..K : TakesPlace(c, d, K, j, row[j + 1], a)
  <2>1. PICK a \in 1..K : TakesPlace(c, d, K, j, row[j + 1], a)
    BY <1>2
  <2>2. d \in [1..K -> Choice]
    BY DEF Entered
  <2>3. QED
    BY <2>1, <2>2, RankedTakes
<1>3. QED
  BY <1>1, <1>2 DEF Entered

(* How many are ahead of a number tells which it is. *)
AheadOf(row, n, b) == {i \in 0..(n - 1) : Ahead(row, i, b)}

LEMMA FiniteAhead ==
  ASSUME NEW n \in Nat, NEW row, NEW b
  PROVE  IsFiniteSet(AheadOf(row, n, b))
<1>1. IsFiniteSet(0..(n - 1))
  <2>1. 0 \in Int /\ n - 1 \in Int
    OBVIOUS
  <2>2. QED
    BY <2>1, FS_Interval
<1>2. AheadOf(row, n, b) \in SUBSET (0..(n - 1))
  BY DEF AheadOf
<1>3. QED
  BY <1>1, <1>2, FS_Subset

LEMMA SamePlace ==
  ASSUME NEW n \in Nat, NEW row \in [1..n -> Int], NEW a \in 0..(n - 1), NEW b \in 0..(n - 1),
         Cardinality(AheadOf(row, n, a)) = Cardinality(AheadOf(row, n, b))
  PROVE  a = b
<1>1. ASSUME NEW x \in 0..(n - 1), NEW v \in 0..(n - 1), Ahead(row, x, v),
             Cardinality(AheadOf(row, n, x)) = Cardinality(AheadOf(row, n, v))
      PROVE  FALSE
  <2>1. \A i \in 0..(n - 1) : Ahead(row, i, x) => Ahead(row, i, v)
    BY Zenon, <1>1, AheadIsOrder
  <2>2. AheadOf(row, n, x) \in SUBSET AheadOf(row, n, v)
    BY <2>1 DEF AheadOf
  <2>3. x \in AheadOf(row, n, v)
    BY <1>1 DEF AheadOf
  <2>4. x \notin AheadOf(row, n, x)
    <3>1. ~Ahead(row, x, x)
      BY Zenon, <1>1, AheadIsOrder
    <3>2. QED
      BY <3>1 DEF AheadOf
  <2>5. IsFiniteSet(AheadOf(row, n, v))
    BY FiniteAhead
  <2>6. AheadOf(row, n, x) = AheadOf(row, n, v)
    BY Zenon, <1>1, <2>2, <2>5, FS_Subset
  <2>7. QED
    BY <2>3, <2>4, <2>6
<1>2. Ahead(row, a, b) \/ Ahead(row, b, a) \/ a = b
  BY Zenon, AheadIsOrder
<1>3. QED
  BY Zenon, <1>1, <1>2

LEMMA RankIs ==
  ASSUME NEW n \in Nat, NEW least \in Int, NEW row, LogitsAbove(row, n, least), NEW K \in Nat \ {0},
         K <= n, NEW c, Ranked(c, row, n, K, least), NEW k \in 1..K
  PROVE  c[k].id \in 0..(n - 1) /\ Cardinality(AheadOf(row, n, c[k].id)) = k - 1
<1> DEFINE N == 0..(n - 1)
           f == [l \in 1..(k - 1) |-> c[l].id]
           A == AheadOf(row, n, c[k].id)
<1>1. RankedTo(c, row, n, K, K, least)
  <2>1. Kept(n, K) = K
    BY DEF Kept
  <2>2. QED
    BY <2>1 DEF Ranked
<1>2. \A l \in 1..K : c[l].id \in N
  BY <1>1 DEF RankedTo
<1>3. row \in [1..n -> Int]
  BY DEF LogitsAbove
<1>4. \A x, v \in N : Ahead(row, x, v) => ~Ahead(row, v, x) /\ x # v
  <2>1. ASSUME NEW x \in N, NEW v \in N, Ahead(row, x, v) PROVE ~Ahead(row, v, x) /\ x # v
    <3>1. row[x + 1] \in Int /\ row[v + 1] \in Int
      BY <1>3
    <3>2. QED
      BY <2>1, <3>1 DEF Ahead
  <2>2. QED
    BY <2>1
<1>5. \A x, v, z \in N : Ahead(row, x, v) /\ Ahead(row, v, z) => Ahead(row, x, z)
  BY Zenon, <1>3, AheadIsOrder
<1>6. /\ \A l, j \in 1..K : l < j => Ahead(row, c[l].id, c[j].id)
      /\ \A i \in N : (\E l \in 1..K : c[l].id = i) \/ Ahead(row, c[K].id, i)
  BY <1>1 DEF RankedTo
<1>7. \A l \in 1..(k - 1) : l \in 1..K /\ l < k
  OBVIOUS
<1>8. \A l \in 1..(k - 1) : c[l].id \in A
  BY Zenon, <1>2, <1>6, <1>7 DEF AheadOf
<1>9. ASSUME NEW i \in A PROVE \E l \in 1..(k - 1) : c[l].id = i
  <2>1. i \in N /\ Ahead(row, i, c[k].id)
    BY DEF AheadOf
  <2>2. K \in 1..K /\ (k = K \/ k < K)
    OBVIOUS
  <2>3. ~Ahead(row, c[K].id, i)
    <3>1. CASE k = K
      BY Zenon, <1>2, <1>4, <2>1, <3>1
    <3>2. CASE k < K
      <4>1. SUFFICES ASSUME Ahead(row, c[K].id, i) PROVE FALSE
        OBVIOUS
      <4>2. Ahead(row, c[k].id, c[K].id)
        BY Zenon, <1>6, <2>2, <3>2
      <4>3. Ahead(row, c[K].id, c[k].id)
        BY Zenon, <1>2, <1>5, <2>1, <2>2, <4>1
      <4>4. QED
        BY Zenon, <1>2, <1>4, <2>2, <4>2, <4>3
    <3>3. QED
      BY <2>2, <3>1, <3>2
  <2>4. PICK l \in 1..K : c[l].id = i
    BY Zenon, <1>6, <2>1, <2>3
  <2>5. ~(k < l) /\ l # k
    BY Zenon, <1>2, <1>4, <1>6, <2>1, <2>4
  <2>6. l \in 1..(k - 1)
    BY <2>5
  <2>7. QED
    BY <2>4, <2>6
<1>10. \A l, j \in 1..(k - 1) : c[l].id = c[j].id => l = j
  <2>1. ASSUME NEW l \in 1..(k - 1), NEW j \in 1..(k - 1), c[l].id = c[j].id PROVE l = j
    <3>1. l \in 1..K /\ j \in 1..K
      BY <1>7
    <3>2. ~(l < j) /\ ~(j < l)
      BY Zenon, <1>2, <1>4, <1>6, <2>1, <3>1
    <3>3. QED
      BY <3>1, <3>2
  <2>2. QED
    BY <2>1
<1> HIDE DEF A
<1>11. f \in Bijection(1..(k - 1), A)
  BY Zenon, <1>8, <1>9, <1>10 DEF Bijection, Injection, Surjection, IsInjective
<1>12. Cardinality(A) = k - 1
  <2>1. k - 1 \in Nat
    OBVIOUS
  <2>2. ExistsBijection(1..(k - 1), A)
    BY Zenon, <1>11 DEF ExistsBijection
  <2>3. QED
    BY Zenon, <2>1, <2>2, FS_CountingElements
<1>13. QED
  BY <1>2, <1>12 DEF A

(* What a search finds: the one of which so many are ahead. *)
LEMMA RankChosen ==
  ASSUME NEW n \in Nat, NEW least \in Int, NEW row, LogitsAbove(row, n, least), NEW K \in Nat \ {0},
         K <= n, NEW c, Ranked(c, row, n, K, least), NEW k \in 1..K, NEW e \in 0..(n - 1),
         Cardinality(AheadOf(row, n, e)) = k - 1
  PROVE  e = c[k].id
<1>1. c[k].id \in 0..(n - 1) /\ Cardinality(AheadOf(row, n, c[k].id)) = k - 1
  BY RankIs
<1>2. row \in [1..n -> Int]
  BY DEF LogitsAbove
<1>3. QED
  BY Zenon, <1>1, <1>2, SamePlace

LEMMA RanksDiffer ==
  ASSUME NEW n \in Nat, NEW least \in Int, NEW row, LogitsAbove(row, n, least), NEW K \in Nat \ {0},
         K <= n, NEW c, Ranked(c, row, n, K, least), NEW k \in 1..K, NEW l \in 1..K,
         c[k].id = c[l].id
  PROVE  k = l
<1>1. Cardinality(AheadOf(row, n, c[k].id)) = k - 1 /\ Cardinality(AheadOf(row, n, c[l].id)) = l - 1
  BY RankIs
<1>2. k - 1 = l - 1
  BY Zenon, <1>1
<1>3. QED
  BY <1>2

-----------------------------------------------------------------------------
(* An item put in the place of another, which the others make room for.      *)
Displacing(c, K, a, x) ==
  [k \in 1..K |-> IF k < a THEN c[k] ELSE IF k = a THEN x ELSE c[k - 1]]

LEMMA Displaced ==
  ASSUME NEW n \in Nat, NEW c, Listed(c, n), NEW a \in 1..(n + 1), NEW x, NEW K \in Nat, K <= n + 1
  PROVE  SubSeq(SubSeq(c, 1, a - 1) \o <<x>> \o SubSeq(c, a, Len(c)), 1, K) = Displacing(c, K, a, x)
<1> DEFINE p == a - 1
           q == n - a + 1
           h == SubSeq(c, 1, p)
           t == SubSeq(c, a, n)
           o == <<x>>
           m == p + 1
           u == m + q
           g == h \o o
           j == g \o t
<1>1. Len(c) = n
  BY Zenon, ListedLen
<1>2. p \in Nat /\ q \in Nat /\ m \in Nat /\ m = a /\ p = a - 1 /\ u = n + 1
  OBVIOUS
<1>3. h = [i \in 1..p |-> c[i]]
  <2>1. h = [i \in 1..(p - 1 + 1) |-> c[1 + i - 1]]
    <3>1. 1 \in Int /\ p \in Int
      OBVIOUS
    <3>2. QED
      BY <3>1, ListedSub
  <2> HIDE DEF h
  <2>2. QED
    BY <2>1, <1>2
<1>4. t = [i \in 1..q |-> c[a + i - 1]]
  BY ListedSub
<1> HIDE DEF h, t, p, q
<1>5. Listed(h, p) /\ Listed(t, q) /\ Listed(o, 1)
  BY <1>3, <1>4 DEF Listed
<1>6. g = [i \in 1..(p + 1) |-> IF i <= p THEN h[i] ELSE o[i - p]]
  <2>1. JoinedTo(h, p, o, 1)
    <3>1. 1 \in Nat
      OBVIOUS
    <3>2. QED
      BY Zenon, <1>2, <1>5, <3>1, ListedConcat
  <2>2. QED
    BY Zenon, <2>1 DEF JoinedTo
<1> HIDE DEF g
<1>7. Listed(g, m)
  BY <1>6 DEF Listed
<1>8. j = [i \in 1..(m + q) |-> IF i <= m THEN g[i] ELSE t[i - m]]
  <2>1. JoinedTo(g, m, t, q)
    BY Zenon, <1>2, <1>5, <1>7, ListedConcat
  <2>2. QED
    BY Zenon, <2>1 DEF JoinedTo
<1> HIDE DEF j
<1>9. SubSeq(j, 1, K) = [i \in 1..K |-> j[i]]
  <2>1. SubSeq(j, 1, K) = [i \in 1..(K - 1 + 1) |-> j[1 + i - 1]]
    BY ListedSub
  <2>2. QED
    BY <2>1
<1>10. ASSUME NEW i \in 1..K
       PROVE  j[i] = IF i < a THEN c[i] ELSE IF i = a THEN x ELSE c[i - 1]
  <2>1. i \in 1..(m + q)
    BY <1>2
  <2>2. CASE i < a
    <3>1. i <= m /\ i <= p /\ i \in 1..p /\ i \in 1..(p + 1)
      BY <1>2, <2>2
    <3>2. j[i] = g[i] /\ g[i] = h[i] /\ h[i] = c[i]
      BY <1>3, <1>6, <1>8, <2>1, <3>1
    <3>3. QED
      BY <2>2, <3>2
  <2>3. CASE i = a
    <3>1. i <= m /\ ~(i <= p) /\ i - p = 1 /\ i \in 1..(p + 1)
      BY <1>2, <2>3
    <3>2. j[i] = g[i] /\ g[i] = o[1]
      BY <1>6, <1>8, <2>1, <3>1
    <3>3. o[1] = x
      OBVIOUS
    <3>4. QED
      BY <2>3, <3>2, <3>3
  <2>4. CASE i > a
    <3>1. ~(i <= m) /\ i - m \in 1..q /\ a + (i - m) - 1 = i - 1
      BY <1>2, <2>1, <2>4
    <3>2. j[i] = t[i - m] /\ t[i - m] = c[i - 1]
      BY <1>4, <1>8, <2>1, <3>1
    <3>3. QED
      BY <2>4, <3>2
  <2>5. QED
    BY <2>2, <2>3, <2>4
<1>11. SubSeq(j, 1, K) = Displacing(c, K, a, x)
  BY <1>9, <1>10 DEF Displacing
<1>12. QED
  BY Zenon, <1>1, <1>11 DEF j, g, h, t, p

LEMMA DisplacedTakesPlace ==
  ASSUME NEW K \in Nat \ {0}, NEW c \in [1..K -> Choice], NEW a \in 1..K, NEW i \in Int, NEW v \in Int,
         v > c[a].value, \A k \in 1..(a - 1) : v <= c[k].value
  PROVE  Entered(c, Displacing(c, K, a, [id |-> i, value |-> v]), K, i, v)
<1> DEFINE x == [id |-> i, value |-> v]
           d == Displacing(c, K, a, x)
<1>1. x \in Choice
  BY DEF Choice
<1> HIDE DEF x
<1>2. d = [k \in 1..K |-> IF k < a THEN c[k] ELSE IF k = a THEN x ELSE c[k - 1]]
  BY DEF Displacing
<1> HIDE DEF d
<1>3. ASSUME NEW k \in 1..K
      PROVE  (IF k < a THEN c[k] ELSE IF k = a THEN x ELSE c[k - 1]) \in Choice
  <2>1. CASE k < a
    BY <2>1
  <2>2. CASE k = a
    BY <1>1, <2>2
  <2>3. CASE k > a
    <3>1. k - 1 \in 1..K
      BY <2>3
    <3>2. QED
      BY <2>3, <3>1
  <2>4. QED
    BY <2>1, <2>2, <2>3
<1>4. d \in [1..K -> Choice]
  BY <1>2, <1>3
<1>5. \A k \in 1..(a - 1) : d[k] = c[k]
  BY <1>2
<1>6. d[a] = x
  BY <1>2
<1>7. \A k \in (a + 1)..K : d[k] = c[k - 1]
  BY <1>2
<1>8. TakesPlace(c, d, K, i, v, a)
  BY <1>5, <1>6, <1>7 DEF TakesPlace, x
<1>9. Entered(c, d, K, i, v)
  BY Zenon, <1>4, <1>8 DEF Entered
<1>10. QED
  BY Zenon, <1>9 DEF d, x

LEMMA FirstBeaten ==
  ASSUME NEW K \in Nat \ {0}, NEW T, T \subseteq 1..K, T # {}
  PROVE  /\ X!Min(T) \in T /\ \A k \in T : X!Min(T) <= k
         /\ S!Min(T) = X!Min(T)
<1>1. T \subseteq Nat
  OBVIOUS
<1>2. \E k \in T : \A l \in T : k <= l
  BY <1>1, Least
<1>3. QED
  BY Zenon, <1>2 DEF X!Min, S!Min

LEMMA InsertedEnters ==
  ASSUME NEW c \in [1..TopK -> Choice], NEW i \in Int, NEW v \in Int
  PROVE  Entered(c, X!Inserted(c, i, v), TopK, i, v)
<1> DEFINE beaten == {k \in 1..TopK : v > c[k].value}
           a == X!Min(beaten)
           x == [id |-> i, value |-> v]
<1>1. TopK \in Nat \ {0}
  BY ExpertsAssumption
<1>2. X!Inserted(c, i, v) =
        IF beaten = {} THEN c
        ELSE SubSeq(SubSeq(c, 1, a - 1) \o <<x>> \o SubSeq(c, a, Len(c)), 1, TopK)
  BY DEF X!Inserted, X!Beats, X!InsertAt
<1> HIDE DEF x
<1>3. \A k \in 1..TopK : c[k].value \in Int
  BY DEF Choice
<1>4. CASE beaten = {}
  <2>1. \A k \in 1..TopK : v <= c[k].value
    BY <1>3, <1>4
  <2>2. X!Inserted(c, i, v) = c
    BY <1>2, <1>4
  <2>3. QED
    BY <2>1, <2>2 DEF Entered
<1>5. CASE beaten # {}
  <2>1. a \in beaten /\ \A k \in beaten : a <= k
    BY <1>1, <1>5, FirstBeaten
  <2>2. a \in 1..TopK /\ v > c[a].value
    BY <2>1
  <2>3. ASSUME NEW k \in 1..(a - 1) PROVE v <= c[k].value
    <3>1. k \in 1..TopK /\ ~(a <= k)
      BY <1>1, <2>2
    <3>2. ~(v > c[k].value)
      BY <2>1, <3>1
    <3>3. QED
      BY <1>3, <3>1, <3>2
  <2> HIDE DEF beaten, a
  <2>4. Listed(c, TopK) /\ a \in 1..(TopK + 1) /\ TopK <= TopK + 1 /\ TopK \in Nat
    BY <1>1, <2>2 DEF Listed
  <2>5. X!Inserted(c, i, v) = Displacing(c, TopK, a, x)
    BY Zenon, <1>2, <1>5, <2>4, Displaced
  <2>6. QED
    BY Zenon, <1>1, <2>2, <2>3, <2>5, DisplacedTakesPlace DEF x
<1>6. QED
  BY <1>4, <1>5

LEMMA Least1000 ==
  X!Least = -1000 /\ S!Least = -1000 /\ -1000 \in Int
BY DEF X!Least, S!Least

(* The best of a row are what a fold over its numbers comes to. *)
SearchedBy(r, row, n, K, steps) ==
  /\ r \in [0..n -> [1..K -> Choice]]
  /\ \A k \in 1..n : Entered(r[k - 1], r[k], K, k - 1, row[k])
  /\ r[0] = [k \in 1..K |-> steps[k]]

LEMMA SearchRanks ==
  ASSUME NEW n \in Nat, NEW row, LogitsAbove(row, n, -1000), NEW K \in Nat \ {0}, NEW r,
         NEW first \in [1..K -> Choice], \A k \in 1..K : first[k].value = -1000,
         SearchedBy(r, row, n, K, first)
  PROVE  Ranked(r[n], row, n, K, -1000)
<1> DEFINE T == {j \in 0..n : Ranked(r[j], row, j, K, -1000)}
<1>1. 0 \in T
  <2>1. Kept(0, K) = 0
    BY DEF Kept
  <2>2. r[0] = first
    BY DEF SearchedBy
  <2>3. \A k \in (0 + 1)..K : first[k].value = -1000
    OBVIOUS
  <2>4. RankedTo(first, row, 0, K, 0, -1000)
    BY <2>3 DEF RankedTo
  <2>5. Ranked(r[0], row, 0, K, -1000)
    BY <2>1, <2>2, <2>4 DEF Ranked
  <2>6. QED
    BY <2>5
<1>2. ASSUME NEW j \in 0..(n - 1), j \in T PROVE j + 1 \in T
  <2>1. j + 1 \in 1..n /\ (j + 1) - 1 = j /\ j + 1 \in 0..n
    OBVIOUS
  <2>2. Entered(r[j], r[j + 1], K, j, row[j + 1])
    BY <2>1 DEF SearchedBy
  <2>3. Ranked(r[j], row, j, K, -1000)
    BY <1>2
  <2>4. -1000 \in Int
    OBVIOUS
  <2>5. Ranked(r[j + 1], row, j + 1, K, -1000)
    BY <2>2, <2>3, <2>4, RankedGoesOn
  <2>6. QED
    BY <2>1, <2>5
<1> HIDE DEF T
<1>3. \A j \in 0..n : j \in T
  BY Zenon, <1>1, <1>2, InductionTo
<1>4. n \in 0..n
  OBVIOUS
<1>5. QED
  BY <1>3, <1>4 DEF T

FirstChoices == [k \in 1..TopK |-> [id |-> k - 1, value |-> X!Least]]

LEMMA RoutedSearches ==
  ASSUME NEW n \in Nat, NEW row \in [1..n -> Int]
  PROVE  \E r : SearchedBy(r, row, n, TopK, FirstChoices) /\ X!Routed(row) = r[n]
<1> DEFINE A == [1..TopK -> Choice]
           at == [i \in DOMAIN row |-> i]
           f == [i \in 1..n |-> [c \in A |-> X!Inserted(c, i - 1, row[i])]]
           G(g) == g = [s \in SUBSET DOMAIN at |->
                          IF s = {} THEN FirstChoices
                          ELSE X!Inserted(g[s \ {Max(s)}], at[Max(s)] - 1, row[at[Max(s)]])]
           g == CHOOSE g : G(g)
<1>1. DOMAIN at = 1..n /\ \A i \in 1..n : at[i] = i
  OBVIOUS
<1>2. \A c \in A : \A i \in 1..n : Entered(c, X!Inserted(c, i - 1, row[i]), TopK, i - 1, row[i])
  <2>1. ASSUME NEW c \in A, NEW i \in 1..n
        PROVE  Entered(c, X!Inserted(c, i - 1, row[i]), TopK, i - 1, row[i])
    <3>1. i - 1 \in Int /\ row[i] \in Int
      OBVIOUS
    <3>2. QED
      BY Zenon, <3>1, InsertedEnters
  <2>2. QED
    BY Zenon, <2>1
<1>3. FirstChoices \in A
  BY Least1000 DEF FirstChoices, Choice
<1>4. f \in Turns(n, A)
  <2>1. \A c \in A : \A i \in 1..n : X!Inserted(c, i - 1, row[i]) \in A
    BY Zenon, <1>2 DEF Entered
  <2>2. QED
    BY Zenon, <2>1 DEF Turns
<1>5. \A i \in 1..n : \A c \in A : f[i][c] = X!Inserted(c, i - 1, row[i])
  BY Zenon
<1>6. X!Routed(row) = g[DOMAIN at]
  <2>1. \A s : X!Max(s) = Max(s)
    BY Zenon DEF X!Max, Max
  <2>2. QED
    BY Zenon DEF X!Routed, X!FoldLeftDomain, X!FoldLeft, X!MapThenFoldSet, X!Max, Max, FirstChoices
<1> HIDE DEF f, at, A
<1>7. \E h : G(h)
  <2>1. PICK h : Iterates(h, f, FirstChoices, n, A)
    BY Zenon, <1>3, <1>4, IterationExists
  <2>2. ASSUME NEW s \in SUBSET (1..n)
        PROVE  h[s] = IF s = {} THEN FirstChoices
                      ELSE X!Inserted(h[s \ {Max(s)}], at[Max(s)] - 1, row[at[Max(s)]])
    BY Zenon, <1>1, <1>5, <2>1 DEF Iterates
  <2>3. h = [s \in SUBSET (1..n) |-> h[s]]
    BY Zenon, <2>1 DEF Iterates
  <2>4. G(h)
    BY Zenon, <1>1, <2>2, <2>3
  <2>5. QED
    BY Zenon, <2>4
<1>8. G(g)
  BY Zenon, <1>7
<1> HIDE DEF g
<1>9. GoesBy(g, f, FirstChoices, n, A)
  <2>1. ASSUME NEW s \in SUBSET (1..n)
        PROVE  /\ s = {} => g[s] = FirstChoices
               /\ s # {} /\ g[s \ {Max(s)}] \in A => g[s] = f[Max(s)][g[s \ {Max(s)}]]
    <3>1. g[s] = IF s = {} THEN FirstChoices
                 ELSE X!Inserted(g[s \ {Max(s)}], at[Max(s)] - 1, row[at[Max(s)]])
      BY Zenon, <1>1, <1>8
    <3>2. s # {} => Max(s) \in 1..n
      BY MaxIn
    <3>3. QED
      BY Zenon, <1>1, <1>5, <3>1, <3>2
  <2>2. QED
    BY Zenon, <2>1 DEF GoesBy
<1>10. PICK r : RunsTo(r, f, FirstChoices, n, A, g[1..n])
  BY Zenon, <1>3, <1>4, <1>9, FoldGoes
<1>11. r \in [0..n -> A] /\ r[0] = FirstChoices /\ r[n] = X!Routed(row)
       /\ \A k \in 1..n : r[k] = f[k][r[k - 1]]
  BY Zenon, <1>1, <1>6, <1>10 DEF RunsTo, Runs
<1>12. \A k \in 1..n : Entered(r[k - 1], r[k], TopK, k - 1, row[k])
  <2>1. ASSUME NEW k \in 1..n PROVE Entered(r[k - 1], r[k], TopK, k - 1, row[k])
    <3>1. k - 1 \in 0..n
      OBVIOUS
    <3>2. r[k - 1] \in A
      BY Zenon, <1>11, <3>1
    <3>3. QED
      BY Zenon, <1>2, <1>5, <1>11, <3>2
  <2>2. QED
    BY Zenon, <2>1
<1>13. FirstChoices = [k \in 1..TopK |-> FirstChoices[k]]
  BY DEF FirstChoices
<1>14. SearchedBy(r, row, n, TopK, FirstChoices)
  BY Zenon, <1>11, <1>12, <1>13 DEF SearchedBy, A
<1>15. QED
  BY Zenon, <1>11, <1>14

-----------------------------------------------------------------------------
(* The experts of a token. *)

Width == Len(CHOOSE r \in Logits : TRUE)

LEMMA WidthIs ==
  /\ Width \in Nat \ {0} /\ TopK <= Width /\ X!Experts = 0..(Width - 1)
  /\ \A row \in Logits : LogitsAbove(row, Width, -1000)
<1>1. PICK row \in Logits : row = CHOOSE r \in Logits : TRUE
  BY ExpertsAssumption DEF LogitRows
<1>2. Width = Len(row) /\ X!Experts = 0..(Width - 1)
  BY <1>1 DEF Width, X!Experts
<1>3. TopK \in Nat \ {0} /\ Len(row) \in Nat /\ Len(row) >= TopK
  BY ExpertsAssumption DEF LogitRows
<1>4. ASSUME NEW r \in Logits PROVE LogitsAbove(r, Width, -1000)
  <2>1. r \in Seq(Int) /\ Len(r) = Len(row) /\ \A i \in DOMAIN r : r[i] > -1000
    BY Least1000, ExpertsAssumption DEF LogitRows
  <2>2. r \in [1..Width -> Int]
    BY <1>2, <2>1
  <2>3. QED
    BY <2>1, <2>2 DEF LogitsAbove
<1>5. QED
  BY <1>2, <1>3, <1>4

(* A row's best experts, best first. *)
BestOf(row, best) ==
  /\ best \in [1..TopK -> 0..(Width - 1)]
  /\ \A k \in 1..TopK : Cardinality(AheadOf(row, Width, best[k])) = k - 1
  /\ \A k \in 1..TopK : \A e \in 0..(Width - 1) :
       Cardinality(AheadOf(row, Width, e)) = k - 1 => e = best[k]
  /\ \A k, l \in 1..TopK : best[k] = best[l] => k = l

LEMMA TopIsBest ==
  ASSUME NEW row \in Logits
  PROVE  BestOf(row, X!TopOf(row))
<1>1. PICK n \in Nat \ {0} : n = Width
  BY WidthIs
<1>2. PICK least \in Int : least = -1000
  BY Least1000
<1>3. LogitsAbove(row, n, least) /\ TopK <= n /\ TopK \in Nat \ {0}
  BY <1>1, <1>2, WidthIs, ExpertsAssumption
<1>4. row \in [1..n -> Int]
  BY <1>3 DEF LogitsAbove
<1>5. PICK r : SearchedBy(r, row, n, TopK, FirstChoices) /\ X!Routed(row) = r[n]
  BY <1>4, RoutedSearches
<1>6. FirstChoices \in [1..TopK -> Choice] /\ \A k \in 1..TopK : FirstChoices[k].value = -1000
  BY Least1000 DEF FirstChoices, Choice
<1>7. Ranked(r[n], row, n, TopK, -1000)
  BY <1>2, <1>3, <1>5, <1>6, SearchRanks
<1> DEFINE c == r[n]
           best == X!TopOf(row)
<1>8. Ranked(c, row, n, TopK, least)
  BY Zenon, <1>2, <1>7
<1>9. best = [k \in 1..TopK |-> c[k].id]
  BY Zenon, <1>5 DEF X!TopOf
<1> HIDE DEF c, best
<1>10. \A k \in 1..TopK : best[k] = c[k].id
  BY Zenon, <1>9
<1>11. \A k \in 1..TopK : best[k] \in 0..(n - 1) /\ Cardinality(AheadOf(row, n, best[k])) = k - 1
  <2>1. ASSUME NEW k \in 1..TopK
        PROVE  c[k].id \in 0..(n - 1) /\ Cardinality(AheadOf(row, n, c[k].id)) = k - 1
    BY <1>3, <1>8, RankIs
  <2>2. QED
    BY Zenon, <1>10, <2>1
<1>12. \A k \in 1..TopK : \A e \in 0..(n - 1) :
         Cardinality(AheadOf(row, n, e)) = k - 1 => e = best[k]
  <2>1. ASSUME NEW k \in 1..TopK, NEW e \in 0..(n - 1), Cardinality(AheadOf(row, n, e)) = k - 1
        PROVE  e = c[k].id
    BY <1>3, <1>8, <2>1, RankChosen
  <2>2. QED
    BY Zenon, <1>10, <2>1
<1>13. \A k, l \in 1..TopK : best[k] = best[l] => k = l
  <2>1. ASSUME NEW k \in 1..TopK, NEW l \in 1..TopK, c[k].id = c[l].id PROVE k = l
    BY <1>3, <1>8, <2>1, RanksDiffer
  <2>2. QED
    BY Zenon, <1>10, <2>1
<1>14. best \in [1..TopK -> 0..(n - 1)]
  <2>1. \A k \in 1..TopK : c[k].id \in 0..(n - 1)
    BY Zenon, <1>10, <1>11
  <2>2. QED
    BY Zenon, <1>9, <2>1
<1>15. BestOf(row, best)
  BY Zenon, <1>1, <1>11, <1>12, <1>13, <1>14 DEF BestOf
<1>16. QED
  BY <1>15 DEF best

(* The expert the mixture is stated to take. *)
LEMMA BestIsPlaced ==
  ASSUME NEW row \in Logits, NEW k \in 1..TopK
  PROVE  (CHOOSE e \in X!Experts : X!Place(row, e) = k - 1) = X!TopOf(row)[k]
<1> DEFINE best == X!TopOf(row)
           N == 0..(Width - 1)
<1>1. \A e \in N : X!Place(row, e) = Cardinality(AheadOf(row, Width, e))
  <2>1. ASSUME NEW e \in N PROVE X!Place(row, e) = Cardinality(AheadOf(row, Width, e))
    <3>1. {i \in X!Experts : row[i + 1] > row[e + 1] \/ (row[i + 1] = row[e + 1] /\ i < e)}
            = AheadOf(row, Width, e)
      BY WidthIs DEF AheadOf, Ahead
    <3>2. \A A : X!Cardinality(A) = Cardinality(A)
      BY DEF X!Cardinality, Cardinality
    <3>3. QED
      BY Zenon, <3>1, <3>2 DEF X!Place
  <2>2. QED
    BY <2>1
<1>2. X!Experts = N
  BY WidthIs
<1>3. BestOf(row, best)
  BY TopIsBest
<1> HIDE DEF best, N
<1>4. best[k] \in N /\ X!Place(row, best[k]) = k - 1
      /\ \A e \in N : X!Place(row, e) = k - 1 => e = best[k]
  BY Zenon, <1>1, <1>3 DEF BestOf, N
<1>5. (CHOOSE e \in N : X!Place(row, e) = k - 1) = best[k]
  BY Zenon, <1>4
<1>6. QED
  BY Zenon, <1>2, <1>5 DEF best

-----------------------------------------------------------------------------
(* Sums of counts. *)

Summing(r, s, n) ==
  /\ r \in [0..n -> Nat] /\ r[0] = 0 /\ \A k \in 1..n : r[k] = r[k - 1] + s[k]
  /\ X!Total(s) = r[n]

LEMMA TotalSums ==
  ASSUME NEW n \in Nat, NEW s \in [1..n -> Nat]
  PROVE  \E r : Summing(r, s, n)
<1> DEFINE f == [i \in 1..n |-> [a \in Nat |-> a + s[i]]]
           G(g) == g = [t \in SUBSET DOMAIN s |->
                          IF t = {} THEN 0 ELSE g[t \ {Max(t)}] + s[Max(t)]]
           g == CHOOSE g : G(g)
<1>1. DOMAIN s = 1..n /\ 0 \in Nat /\ \A i \in 1..n : s[i] \in Nat
  OBVIOUS
<1>2. f \in Turns(n, Nat)
  <2>1. \A a \in Nat : \A i \in 1..n : a + s[i] \in Nat
    BY <1>1
  <2>2. QED
    BY Zenon, <2>1 DEF Turns
<1>3. \A i \in 1..n : \A a \in Nat : f[i][a] = a + s[i]
  BY Zenon
<1>4. X!Total(s) = g[DOMAIN s]
  BY Zenon DEF X!Total, X!FoldLeft, X!MapThenFoldSet, X!Max, Max
<1> HIDE DEF f
<1>5. \E h : G(h)
  <2>1. PICK h : Iterates(h, f, 0, n, Nat)
    BY Zenon, <1>1, <1>2, IterationExists
  <2>2. ASSUME NEW t \in SUBSET (1..n)
        PROVE  h[t] = IF t = {} THEN 0 ELSE h[t \ {Max(t)}] + s[Max(t)]
    BY Zenon, <1>3, <2>1 DEF Iterates
  <2>3. h = [t \in SUBSET (1..n) |-> h[t]]
    BY Zenon, <2>1 DEF Iterates
  <2>4. G(h)
    BY Zenon, <1>1, <2>2, <2>3
  <2>5. QED
    BY Zenon, <2>4
<1>6. G(g)
  BY Zenon, <1>5
<1> HIDE DEF g
<1>7. GoesBy(g, f, 0, n, Nat)
  <2>1. ASSUME NEW t \in SUBSET (1..n)
        PROVE  /\ t = {} => g[t] = 0
               /\ t # {} /\ g[t \ {Max(t)}] \in Nat => g[t] = f[Max(t)][g[t \ {Max(t)}]]
    <3>1. g[t] = IF t = {} THEN 0 ELSE g[t \ {Max(t)}] + s[Max(t)]
      BY Zenon, <1>1, <1>6
    <3>2. t # {} => Max(t) \in 1..n
      BY MaxIn
    <3>3. QED
      BY Zenon, <1>3, <3>1, <3>2
  <2>2. QED
    BY Zenon, <2>1 DEF GoesBy
<1>8. PICK r : RunsTo(r, f, 0, n, Nat, g[1..n])
  BY Zenon, <1>1, <1>2, <1>7, FoldGoes
<1>9. r \in [0..n -> Nat] /\ r[0] = 0 /\ r[n] = X!Total(s)
      /\ \A k \in 1..n : r[k] = f[k][r[k - 1]]
  BY Zenon, <1>1, <1>4, <1>8 DEF RunsTo, Runs
<1>10. \A k \in 1..n : r[k] = r[k - 1] + s[k]
  <2>1. ASSUME NEW k \in 1..n PROVE r[k] = r[k - 1] + s[k]
    <3>1. k - 1 \in 0..n
      OBVIOUS
    <3>2. r[k - 1] \in Nat
      BY Zenon, <1>9, <3>1
    <3>3. QED
      BY Zenon, <1>3, <1>9, <3>2
  <2>2. QED
    BY Zenon, <2>1
<1>11. QED
  BY Zenon, <1>9, <1>10 DEF Summing

LEMMA SummingAgrees ==
  ASSUME NEW n \in Nat, NEW m \in Nat, n <= m, NEW a, NEW b, NEW s, NEW t,
         Summing(a, s, n), Summing(b, t, m), \A i \in 1..n : s[i] = t[i]
  PROVE  a[n] = b[n]
<1> DEFINE T == {k \in 0..n : a[k] = b[k]}
<1>1. 0 \in T
  BY DEF Summing
<1>2. ASSUME NEW k \in 0..(n - 1), k \in T PROVE k + 1 \in T
  <2>1. k + 1 \in 1..n /\ k + 1 \in 1..m /\ k + 1 \in 0..n /\ (k + 1) - 1 = k /\ a[k] = b[k]
    BY <1>2
  <2>2. a[k + 1] = a[k] + s[k + 1] /\ b[k + 1] = b[k] + t[k + 1]
    BY <2>1 DEF Summing
  <2>3. QED
    BY <2>1, <2>2
<1> HIDE DEF T
<1>3. \A k \in 0..n : k \in T
  BY Zenon, <1>1, <1>2, InductionTo
<1>4. n \in 0..n
  OBVIOUS
<1>5. QED
  BY <1>3, <1>4 DEF T

(* Where counts start when each begins at the sum of those before it.        *)
Starting(o, c, n) ==
  /\ o \in [0..n -> Nat] /\ o[0] = 0 /\ \A e \in 0..(n - 1) : o[e + 1] = o[e] + c[e]

LEMMA TotalsStart ==
  ASSUME NEW n \in Nat, NEW c \in [0..(n - 1) -> Nat]
  PROVE  Starting([e \in 0..n |-> X!Total([i \in 1..e |-> c[i - 1]])], c, n)
<1> DEFINE s == [i \in 1..n |-> c[i - 1]]
           o == [e \in 0..n |-> X!Total([i \in 1..e |-> c[i - 1]])]
<1>1. s \in [1..n -> Nat] /\ \A i \in 1..n : s[i] = c[i - 1]
  OBVIOUS
<1> HIDE DEF s
<1>2. PICK r : Summing(r, s, n)
  BY Zenon, <1>1, TotalSums
<1>3. ASSUME NEW e \in 0..n PROVE X!Total([i \in 1..e |-> c[i - 1]]) = r[e]
  <2> DEFINE p == [i \in 1..e |-> c[i - 1]]
  <2>1. e \in Nat /\ e <= n /\ p \in [1..e -> Nat] /\ \A i \in 1..e : p[i] = s[i]
    <3>1. \A i \in 1..e : i - 1 \in 0..(n - 1) /\ i \in 1..n
      OBVIOUS
    <3>2. QED
      BY <1>1, <3>1
  <2> HIDE DEF p
  <2>2. PICK q : Summing(q, p, e)
    BY Zenon, <2>1, TotalSums
  <2>3. q[e] = r[e]
    BY Zenon, <1>2, <2>1, <2>2, SummingAgrees
  <2>4. X!Total(p) = r[e]
    BY Zenon, <2>2, <2>3 DEF Summing
  <2>5. QED
    BY <2>4 DEF p
<1>4. o = [e \in 0..n |-> r[e]]
  BY Zenon, <1>3
<1> HIDE DEF o
<1>5. r \in [0..n -> Nat] /\ r[0] = 0 /\ \A k \in 1..n : r[k] = r[k - 1] + s[k]
  BY <1>2 DEF Summing
<1>6. ASSUME NEW e \in 0..(n - 1) PROVE o[e + 1] = o[e] + c[e]
  <2>1. e \in 0..n /\ e + 1 \in 0..n /\ e + 1 \in 1..n /\ (e + 1) - 1 = e
    OBVIOUS
  <2>2. r[e + 1] = r[e] + s[e + 1] /\ s[e + 1] = c[e]
    BY <1>1, <1>5, <2>1
  <2>3. o[e + 1] = r[e + 1] /\ o[e] = r[e]
    BY Zenon, <1>4, <2>1
  <2>4. QED
    BY Zenon, <2>2, <2>3
<1>7. o \in [0..n -> Nat] /\ o[0] = 0
  BY <1>4, <1>5
<1>8. Starting(o, c, n)
  BY Zenon, <1>6, <1>7 DEF Starting
<1>9. QED
  BY <1>8 DEF o

LEMMA StartsInOrder ==
  ASSUME NEW n \in Nat, NEW c \in [0..(n - 1) -> Nat], NEW o, Starting(o, c, n),
         NEW a \in 0..n, NEW b \in 0..n, a < b
  PROVE  o[a] + c[a] <= o[b]
<1> DEFINE m == b - a - 1
           T == {k \in 0..m : o[a] + c[a] <= o[a + 1 + k]}
<1>1. m \in Nat /\ a \in 0..(n - 1) /\ c[a] \in Nat
  OBVIOUS
<1> HIDE DEF m
<1>2. o \in [0..n -> Nat] /\ \A e \in 0..(n - 1) : o[e + 1] = o[e] + c[e]
  BY DEF Starting
<1>3. 0 \in T
  <2>1. o[a + 1] = o[a] + c[a] /\ o[a] \in Nat
    BY <1>1, <1>2
  <2>2. 0 \in 0..m /\ a + 1 + 0 = a + 1
    BY <1>1
  <2>3. QED
    BY <1>1, <2>1, <2>2
<1>4. ASSUME NEW k \in 0..(m - 1), k \in T PROVE k + 1 \in T
  <2>1. k + 1 \in 0..m /\ a + 1 + k \in 0..(n - 1) /\ (a + 1 + k) + 1 = a + 1 + (k + 1)
    BY <1>1 DEF m
  <2>2. o[a + 1 + (k + 1)] = o[a + 1 + k] + c[a + 1 + k]
    BY <1>2, <2>1
  <2>3. c[a + 1 + k] \in Nat /\ o[a + 1 + k] \in Nat /\ o[a] \in Nat /\ c[a] \in Nat
    BY <1>1, <1>2, <2>1
  <2>4. o[a] + c[a] <= o[a + 1 + k]
    BY <1>4
  <2>5. o[a] + c[a] <= o[a + 1 + (k + 1)]
    BY <2>2, <2>3, <2>4
  <2>6. QED
    BY <2>1, <2>5
<1> HIDE DEF T
<1>5. \A k \in 0..m : k \in T
  BY Zenon, <1>1, <1>3, <1>4, InductionTo
<1>6. m \in 0..m /\ a + 1 + m = b
  BY <1>1 DEF m
<1>7. m \in T
  BY <1>5, <1>6
<1>8. QED
  BY <1>6, <1>7 DEF T

(* Every number up to the sum is of one of the counts. *)
LEMMA StartsCover ==
  ASSUME NEW n \in Nat, NEW c \in [0..(n - 1) -> Nat], NEW o, Starting(o, c, n),
         NEW r \in 1..o[n]
  PROVE  \E e \in 0..(n - 1) : r \in (o[e] + 1)..(o[e] + c[e])
<1> DEFINE T == {e \in 0..n : r <= o[e]}
<1>1. o \in [0..n -> Nat] /\ o[0] = 0 /\ \A e \in 0..(n - 1) : o[e + 1] = o[e] + c[e]
  BY DEF Starting
<1>2. n \in T /\ T \subseteq Nat
  <2>1. n \in 0..n /\ o[n] \in Nat
    BY <1>1
  <2>2. QED
    BY <2>1
<1>3. PICK e \in T : \A a \in T : e <= a
  BY <1>2, Least
<1>4. e # 0 /\ e \in 0..n
  BY <1>1, <1>3
<1>5. e - 1 \in 0..(n - 1) /\ e - 1 \in 0..n /\ (e - 1) + 1 = e
  BY <1>4
<1>6. e - 1 \notin T
  BY <1>3, <1>4, <1>5
<1>7. o[e - 1] \in Nat /\ ~(r <= o[e - 1]) /\ r <= o[e] /\ o[e] = o[e - 1] + c[e - 1] /\ c[e - 1] \in Nat
  <2>1. o[(e - 1) + 1] = o[e - 1] + c[e - 1]
    BY <1>1, <1>5
  <2>2. o[e] = o[e - 1] + c[e - 1]
    BY <1>5, <2>1
  <2>3. r <= o[e]
    BY <1>3
  <2>4. ~(r <= o[e - 1])
    BY <1>5, <1>6
  <2>5. QED
    BY <1>1, <1>5, <2>2, <2>3, <2>4
<1>8. r \in (o[e - 1] + 1)..(o[e - 1] + c[e - 1])
  BY <1>7
<1>9. QED
  BY <1>5, <1>8

LEMMA StartsOnce ==
  ASSUME NEW n \in Nat, NEW c \in [0..(n - 1) -> Nat], NEW o, Starting(o, c, n), NEW r \in Int,
         NEW a \in 0..(n - 1), NEW b \in 0..(n - 1),
         r \in (o[a] + 1)..(o[a] + c[a]), r \in (o[b] + 1)..(o[b] + c[b])
  PROVE  a = b
<1>1. o[a] \in Nat /\ o[b] \in Nat /\ c[a] \in Nat /\ c[b] \in Nat /\ a \in 0..n /\ b \in 0..n
  BY DEF Starting
<1>2. ~(a < b)
  <2>1. a < b => o[a] + c[a] <= o[b]
    BY Zenon, <1>1, StartsInOrder
  <2>2. QED
    BY <1>1, <2>1
<1>3. ~(b < a)
  <2>1. b < a => o[b] + c[b] <= o[a]
    BY Zenon, <1>1, StartsInOrder
  <2>2. QED
    BY <1>1, <2>1
<1>4. QED
  BY <1>2, <1>3

LEMMA StartsBelow ==
  ASSUME NEW n \in Nat, NEW c \in [0..(n - 1) -> Nat], NEW o, Starting(o, c, n), NEW a \in 0..(n - 1)
  PROVE  o[a] \in Nat /\ c[a] \in Nat /\ o[n] \in Nat /\ o[a] + c[a] <= o[n]
<1>1. a \in 0..n /\ n \in 0..n /\ a < n
  OBVIOUS
<1>2. o[a] + c[a] <= o[n]
  BY Zenon, <1>1, StartsInOrder
<1>3. QED
  BY <1>1, <1>2 DEF Starting

(* Positions, each of one of n: those of any are as many as there are.       *)
Of(x, R, e) == {i \in 1..R : x[i] = e}

LEMMA OfFinite ==
  ASSUME NEW R \in Nat, NEW A \in SUBSET (1..R)
  PROVE  IsFiniteSet(A) /\ Cardinality(A) \in Nat
<1>1. IsFiniteSet(1..R)
  <2>1. 1 \in Int /\ R \in Int
    OBVIOUS
  <2>2. QED
    BY <2>1, FS_Interval
<1>2. IsFiniteSet(A)
  BY <1>1, FS_Subset
<1>3. QED
  BY <1>2, FS_CardinalityType

LEMMA CountsAddUp ==
  ASSUME NEW R \in Nat, NEW n \in Nat, NEW x \in [1..R -> 0..(n - 1)], NEW c, NEW o,
         Starting(o, c, n), \A e \in 0..(n - 1) : c[e] = Cardinality(Of(x, R, e))
  PROVE  o[n] = R
<1> DEFINE B(e) == {i \in 1..R : x[i] < e}
           T == {e \in 0..n : o[e] = Cardinality(B(e))}
<1>1. o \in [0..n -> Nat] /\ o[0] = 0 /\ \A e \in 0..(n - 1) : o[e + 1] = o[e] + c[e]
  BY DEF Starting
<1>2. 0 \in T
  <2>1. B(0) = {} /\ 0 \in 0..n
    OBVIOUS
  <2>2. Cardinality(B(0)) = 0
    BY Zenon, <2>1, FS_EmptySet
  <2>3. QED
    BY Zenon, <1>1, <2>1, <2>2
<1>3. ASSUME NEW e \in 0..(n - 1), e \in T PROVE e + 1 \in T
  <2>1. B(e + 1) = B(e) \cup Of(x, R, e) /\ B(e) \cap Of(x, R, e) = {}
    BY DEF Of
  <2>2. B(e) \in SUBSET (1..R) /\ Of(x, R, e) \in SUBSET (1..R)
    BY DEF Of
  <2>3. /\ IsFiniteSet(B(e)) /\ Cardinality(B(e)) \in Nat
        /\ IsFiniteSet(Of(x, R, e)) /\ Cardinality(Of(x, R, e)) \in Nat
    BY <2>2, OfFinite
  <2> DEFINE b == B(e)
             d == Of(x, R, e)
             u == B(e + 1)
  <2>4. o[e + 1] = o[e] + c[e] /\ o[e] = Cardinality(b) /\ c[e] = Cardinality(d)
    BY <1>1, <1>3
  <2> HIDE DEF b, d, u, B
  <2>5. Cardinality(u) = Cardinality(b) + Cardinality(d) - Cardinality(b \cap d)
    BY Zenon, <2>1, <2>3, FS_Union DEF b, d, u
  <2>6. Cardinality(b \cap d) = 0
    BY Zenon, <2>1, FS_EmptySet DEF b, d
  <2>7. Cardinality(b) \in Nat /\ Cardinality(d) \in Nat
    BY <2>3 DEF b, d
  <2>8. Cardinality(u) = o[e + 1]
    BY <2>4, <2>5, <2>6, <2>7
  <2>9. e + 1 \in 0..n
    OBVIOUS
  <2>10. QED
    BY Zenon, <2>8, <2>9 DEF u
<1>4. B(n) = 1..R
  OBVIOUS
<1> HIDE DEF T
<1>5. \A e \in 0..n : e \in T
  BY Zenon, <1>2, <1>3, InductionTo
<1>6. n \in 0..n
  OBVIOUS
<1>7. o[n] = Cardinality(1..R)
  BY <1>4, <1>5, <1>6 DEF T
<1>8. Cardinality(1..R) = R
  <2>1. 1 \in Int /\ R \in Int
    OBVIOUS
  <2>2. Cardinality(1..R) = IF 1 > R THEN 0 ELSE R - 1 + 1
    BY <2>1, FS_Interval
  <2>3. QED
    BY <2>2
<1>9. QED
  BY <1>7, <1>8

-----------------------------------------------------------------------------
(* AllChoices of tokens, numbered in the order of the loops over them. *)

LEMMA PairNumbered ==
  ASSUME NEW T \in Nat, NEW K \in Nat \ {0}
  PROVE  /\ \A i \in 1..(T * K) : (i - 1) \div K + 1 \in 1..T /\ ((i - 1) % K) + 1 \in 1..K
                                  /\ i = ((i - 1) \div K) * K + ((i - 1) % K) + 1
         /\ \A t \in 1..T : \A k \in 1..K :
              \E i \in 1..(T * K) : (i - 1) \div K + 1 = t /\ ((i - 1) % K) + 1 = k
<1>1. T * K \in Nat
  OBVIOUS
<1>2. ASSUME NEW i \in 1..(T * K)
      PROVE  (i - 1) \div K + 1 \in 1..T /\ ((i - 1) % K) + 1 \in 1..K
             /\ i = ((i - 1) \div K) * K + ((i - 1) % K) + 1
  <2> DEFINE j == i - 1
  <2>1. j \in Nat /\ j < T * K /\ i = j + 1
    BY <1>1
  <2> HIDE DEF j
  <2>2. j \div K \in 0..(T - 1)
    BY <2>1, DivBelow
  <2>3. j % K \in 0..(K - 1) /\ j = (j \div K) * K + (j % K) /\ j \div K \in Nat
    BY <2>1, DivMod
  <2> DEFINE q == j \div K
             r == j % K
             p == q * K
  <2>4. q \in 0..(T - 1) /\ r \in 0..(K - 1) /\ j = p + r /\ p \in Int
    BY <2>2, <2>3
  <2> HIDE DEF q, r, p
  <2>5. q + 1 \in 1..T /\ r + 1 \in 1..K /\ i = p + r + 1
    BY <2>1, <2>4
  <2>6. QED
    BY <2>5 DEF q, r, p, j
<1>3. ASSUME NEW t \in 1..T, NEW k \in 1..K
      PROVE  \E i \in 1..(T * K) : (i - 1) \div K + 1 = t /\ ((i - 1) % K) + 1 = k
  <2> DEFINE q == t - 1
             r == k - 1
             j == q * K + r
             i == j + 1
  <2>1. q \in Nat /\ q < T /\ r \in 0..(K - 1) /\ t = q + 1 /\ k = r + 1
    OBVIOUS
  <2> HIDE DEF q, r
  <2>2. j \in 0..(T * K - 1)
    BY <2>1, PairBelow
  <2>3. j \div K = q /\ j % K = r
    BY <2>1, DivModOf
  <2> HIDE DEF j
  <2>4. i \in 1..(T * K) /\ i - 1 = j
    BY <1>1, <2>2
  <2> HIDE DEF i
  <2>5. (i - 1) \div K + 1 = t /\ ((i - 1) % K) + 1 = k
    BY <2>1, <2>3, <2>4
  <2>6. QED
    BY <2>4, <2>5
<1>4. QED
  BY Zenon, <1>2, <1>3

(* A layer whose tokens have been routed. *)
TokensRouted ==
  /\ logits \in [1..Len(logits) -> Logits] /\ Len(logits) \in 1..MaxTokens
  /\ top = [t \in DOMAIN logits |-> X!TopOf(logits[t])]

AllChoices == (1..Len(logits)) \X (1..TopK)

ExpertOf(c) == top[c[1]][c[2]]

LEMMA RoutedIs ==
  ASSUME TokensRouted
  PROVE  /\ Len(logits) \in Nat \ {0} /\ TopK \in Nat \ {0} /\ X!Rows = Len(logits) * TopK
         /\ X!Rows \in Nat \ {0} /\ X!Tokens = 1..Len(logits)
         /\ \A t \in 1..Len(logits) : top[t] = X!TopOf(logits[t]) /\ BestOf(logits[t], top[t])
         /\ \A c \in AllChoices : ExpertOf(c) \in 0..(Width - 1)
<1>1. Len(logits) \in Nat \ {0} /\ TopK \in Nat \ {0} /\ DOMAIN logits = 1..Len(logits)
  BY ExpertsAssumption DEF TokensRouted
<1>2. X!Rows = Len(logits) * TopK /\ X!Tokens = 1..Len(logits)
  BY <1>1 DEF X!Rows, X!Tokens
<1>3. X!Rows \in Nat \ {0}
  BY <1>1, <1>2
<1>4. \A t \in 1..Len(logits) : top[t] = X!TopOf(logits[t]) /\ logits[t] \in Logits
  BY <1>1 DEF TokensRouted
<1>5. \A t \in 1..Len(logits) : BestOf(logits[t], top[t])
  BY Zenon, <1>4, TopIsBest
<1>6. ASSUME NEW c \in AllChoices PROVE ExpertOf(c) \in 0..(Width - 1)
  <2>1. c[1] \in 1..Len(logits) /\ c[2] \in 1..TopK
    BY DEF AllChoices
  <2>2. top[c[1]] \in [1..TopK -> 0..(Width - 1)]
    BY <1>5, <2>1 DEF BestOf
  <2>3. QED
    BY <2>1, <2>2 DEF ExpertOf
<1>7. QED
  BY Zenon, <1>1, <1>2, <1>3, <1>4, <1>5, <1>6

LEMMA AssignedIs ==
  ASSUME TokensRouted
  PROVE  /\ X!Assigned \in [1..X!Rows -> AllChoices]
         /\ \A c \in AllChoices : \E i \in 1..X!Rows : X!Assigned[i] = c
         /\ \A i, j \in 1..X!Rows : X!Assigned[i] = X!Assigned[j] => i = j
<1>1. PICK T \in Nat \ {0}, K \in Nat \ {0} : T = Len(logits) /\ K = TopK /\ X!Rows = T * K
  BY RoutedIs
<1>2. X!Assigned = [i \in 1..(T * K) |-> <<(i - 1) \div K + 1, ((i - 1) % K) + 1>>]
  BY Zenon, <1>1 DEF X!Assigned
<1>3. /\ \A i \in 1..(T * K) : (i - 1) \div K + 1 \in 1..T /\ ((i - 1) % K) + 1 \in 1..K
                               /\ i = ((i - 1) \div K) * K + ((i - 1) % K) + 1
      /\ \A t \in 1..T : \A k \in 1..K :
           \E i \in 1..(T * K) : (i - 1) \div K + 1 = t /\ ((i - 1) % K) + 1 = k
  <2>1. T \in Nat
    OBVIOUS
  <2>2. QED
    BY Zenon, <2>1, PairNumbered
<1> DEFINE A == X!Assigned
           F(i) == (i - 1) \div K + 1
           G(i) == ((i - 1) % K) + 1
           N == 1..(T * K)
<1>4. \A i \in N : F(i) \in 1..T /\ G(i) \in 1..K
  BY Zenon, <1>3
<1>5. \A t \in 1..T : \A k \in 1..K : \E i \in N : F(i) = t /\ G(i) = k
  BY Zenon, <1>3
<1>6. \A i, j \in N : F(i) = F(j) /\ G(i) = G(j) => i = j
  <2>1. ASSUME NEW i \in N, NEW j \in N, F(i) = F(j), G(i) = G(j) PROVE i = j
    <3>1. (i - 1) \div K \in Int /\ (j - 1) \div K \in Int /\ (i - 1) % K \in Int /\ (j - 1) % K \in Int
      OBVIOUS
    <3>2. (i - 1) \div K = (j - 1) \div K /\ (i - 1) % K = (j - 1) % K
      BY <2>1, <3>1
    <3>3. i = ((i - 1) \div K) * K + ((i - 1) % K) + 1
      BY Zenon, <1>3
    <3>4. j = ((j - 1) \div K) * K + ((j - 1) % K) + 1
      BY Zenon, <1>3
    <3>5. QED
      BY Zenon, <3>2, <3>3, <3>4
  <2>2. QED
    BY Zenon, <2>1
<1>7. A = [i \in N |-> <<F(i), G(i)>>]
  BY Zenon, <1>2
<1> HIDE DEF A, F, G, N
<1>8. \A i \in N : A[i] = <<F(i), G(i)>>
  BY <1>7
<1>9. A \in [N -> (1..T) \X (1..K)]
  <2>1. \A i \in N : <<F(i), G(i)>> \in (1..T) \X (1..K)
    BY <1>4
  <2>2. QED
    BY <1>7, <2>1
<1>10. \A c \in (1..T) \X (1..K) : \E i \in N : A[i] = c
  <2>1. ASSUME NEW c \in (1..T) \X (1..K) PROVE \E i \in N : A[i] = c
    <3>1. PICK t \in 1..T, k \in 1..K : c = <<t, k>>
      OBVIOUS
    <3>2. PICK i \in N : F(i) = t /\ G(i) = k
      BY <1>5
    <3>3. QED
      BY <1>8, <3>1, <3>2
  <2>2. QED
    BY <2>1
<1>11. \A i, j \in N : A[i] = A[j] => i = j
  <2>1. ASSUME NEW i \in N, NEW j \in N, A[i] = A[j] PROVE i = j
    <3>1. <<F(i), G(i)>> = <<F(j), G(j)>>
      BY Zenon, <1>8, <2>1
    <3>2. F(i) = F(j) /\ G(i) = G(j)
      BY <3>1
    <3>3. QED
      BY <1>6, <3>2
  <2>2. QED
    BY <2>1
<1>12. AllChoices = (1..T) \X (1..K) /\ 1..X!Rows = N
  BY <1>1 DEF AllChoices, N
<1>13. QED
  BY Zenon, <1>9, <1>10, <1>11, <1>12 DEF A

(* The choices of an expert, as the loops list them. *)
Appended(e, w, c) == IF top[c[1]][c[2]] = e THEN Append(w, c) ELSE w

OwnedBy(r, e, n) ==
  /\ r \in [0..n -> Seq(AllChoices)] /\ r[0] = <<>>
  /\ \A i \in 1..n : r[i] = Appended(e, r[i - 1], X!Assigned[i])
  /\ X!Owned(e) = r[n]

LEMMA OwnedRuns ==
  ASSUME TokensRouted, NEW e
  PROVE  \E r : OwnedBy(r, e, X!Rows)
<1> DEFINE n == X!Rows
           Ws == Seq(AllChoices)
           s == X!Assigned
           f == [i \in 1..n |-> [w \in Ws |-> Appended(e, w, s[i])]]
           G(g) == g = [t \in SUBSET DOMAIN s |->
                          IF t = {} THEN <<>> ELSE Appended(e, g[t \ {Max(t)}], s[Max(t)])]
           g == CHOOSE g : G(g)
<1>1. n \in Nat /\ DOMAIN s = 1..n /\ s \in [1..n -> AllChoices]
  BY RoutedIs, AssignedIs
<1>2. <<>> \in Ws
  OBVIOUS
<1>3. f \in Turns(n, Ws)
  <2>1. ASSUME NEW w \in Seq(AllChoices), NEW c \in AllChoices PROVE Appended(e, w, c) \in Seq(AllChoices)
    <3>1. Append(w, c) \in Seq(AllChoices)
      OBVIOUS
    <3>2. QED
      BY Zenon, <3>1 DEF Appended
  <2>2. \A i \in 1..n : s[i] \in AllChoices
    BY Zenon, <1>1
  <2>3. \A w \in Ws : \A i \in 1..n : Appended(e, w, s[i]) \in Ws
    BY Zenon, <2>1, <2>2
  <2>4. QED
    BY Zenon, <2>3 DEF Turns
<1>4. \A i \in 1..n : \A w \in Ws : f[i][w] = Appended(e, w, s[i])
  BY Zenon
<1>5. X!Owned(e) = g[DOMAIN s]
  BY Zenon DEF X!Owned, X!FoldLeft, X!MapThenFoldSet, X!Max, Max, Appended
<1> HIDE DEF f, n, s, Ws
<1>6. \E h : G(h)
  <2>1. PICK h : Iterates(h, f, <<>>, n, Ws)
    BY Zenon, <1>1, <1>2, <1>3, IterationExists
  <2>2. ASSUME NEW t \in SUBSET (1..n)
        PROVE  h[t] = IF t = {} THEN <<>> ELSE Appended(e, h[t \ {Max(t)}], s[Max(t)])
    BY Zenon, <1>4, <2>1 DEF Iterates
  <2>3. h = [t \in SUBSET (1..n) |-> h[t]]
    BY Zenon, <2>1 DEF Iterates
  <2>4. G(h)
    BY Zenon, <1>1, <2>2, <2>3
  <2>5. QED
    BY Zenon, <2>4
<1>7. G(g)
  BY Zenon, <1>6
<1> HIDE DEF g
<1>8. GoesBy(g, f, <<>>, n, Ws)
  <2>1. ASSUME NEW t \in SUBSET (1..n)
        PROVE  /\ t = {} => g[t] = <<>>
               /\ t # {} /\ g[t \ {Max(t)}] \in Ws => g[t] = f[Max(t)][g[t \ {Max(t)}]]
    <3>1. g[t] = IF t = {} THEN <<>> ELSE Appended(e, g[t \ {Max(t)}], s[Max(t)])
      BY Zenon, <1>1, <1>7
    <3>2. t # {} => Max(t) \in 1..n
      BY <1>1, MaxIn
    <3>3. QED
      BY Zenon, <1>4, <3>1, <3>2
  <2>2. QED
    BY Zenon, <2>1 DEF GoesBy
<1>9. PICK r : RunsTo(r, f, <<>>, n, Ws, g[1..n])
  BY Zenon, <1>1, <1>2, <1>3, <1>8, FoldGoes
<1>10. r \in [0..n -> Ws] /\ r[0] = <<>> /\ r[n] = X!Owned(e)
       /\ \A k \in 1..n : r[k] = f[k][r[k - 1]]
  BY Zenon, <1>1, <1>5, <1>9 DEF RunsTo, Runs
<1>11. \A k \in 1..n : r[k] = Appended(e, r[k - 1], s[k])
  <2>1. ASSUME NEW k \in 1..n PROVE r[k] = Appended(e, r[k - 1], s[k])
    <3>1. k - 1 \in 0..n
      BY <1>1
    <3>2. r[k - 1] \in Ws
      BY Zenon, <1>10, <3>1
    <3>3. QED
      BY Zenon, <1>4, <1>10, <3>2
  <2>2. QED
    BY Zenon, <2>1
<1>12. OwnedBy(r, e, n)
  BY Zenon, <1>10, <1>11 DEF OwnedBy, s, Ws
<1>13. QED
  BY Zenon, <1>12 DEF n

(* Positions of an expert's choices. *)
Positions(e, n) == {i \in 1..n : ExpertOf(X!Assigned[i]) = e}

Lists(w, e, n) ==
  /\ w \in Seq(AllChoices) /\ Len(w) = Cardinality(Positions(e, n))
  /\ \A q \in 1..Len(w) : ExpertOf(w[q]) = e
  /\ \A i \in Positions(e, n) : \E q \in 1..Len(w) : w[q] = X!Assigned[i]

LEMMA AppendedLists ==
  ASSUME TokensRouted, NEW e, NEW w, NEW n \in 0..(X!Rows - 1), Lists(w, e, n)
  PROVE  Lists(Appended(e, w, X!Assigned[n + 1]), e, n + 1)
<1> DEFINE c == X!Assigned[n + 1]
           v == Append(w, c)
<1>1. X!Rows \in Nat /\ n \in Nat /\ n + 1 \in 1..X!Rows /\ c \in AllChoices
  BY RoutedIs, AssignedIs
<1>2. w \in Seq(AllChoices) /\ Len(w) \in Nat /\ Len(w) = Cardinality(Positions(e, n))
  BY DEF Lists
<1>3. CASE ExpertOf(c) = e
  <2>1. Appended(e, w, c) = v
    BY <1>3 DEF Appended, ExpertOf
  <2>2. /\ v \in Seq(AllChoices) /\ Len(v) = Len(w) + 1 /\ v[Len(w) + 1] = c
        /\ \A q \in 1..Len(w) : v[q] = w[q]
    BY <1>1, <1>2
  <2>3. Positions(e, n + 1) = Positions(e, n) \cup {n + 1} /\ n + 1 \notin Positions(e, n)
    BY <1>1, <1>3 DEF Positions
  <2>4. IsFiniteSet(Positions(e, n)) /\ Cardinality(Positions(e, n)) \in Nat
    <3>1. Positions(e, n) \in SUBSET (1..n)
      BY DEF Positions
    <3>2. QED
      BY <1>1, <3>1, OfFinite
  <2>5. Cardinality(Positions(e, n + 1)) = Cardinality(Positions(e, n)) + 1
    BY Zenon, <2>3, <2>4, FS_AddElement
  <2> HIDE DEF v, c
  <2>6. ASSUME NEW q \in 1..Len(v) PROVE ExpertOf(v[q]) = e
    <3>1. q \in 1..Len(w) \/ q = Len(w) + 1
      BY <1>2, <2>2
    <3>2. QED
      BY Zenon, <1>3, <2>2, <3>1 DEF Lists
  <2>7. ASSUME NEW i \in Positions(e, n + 1) PROVE \E q \in 1..Len(v) : v[q] = X!Assigned[i]
    <3>1. CASE i = n + 1
      <4>1. Len(w) + 1 \in 1..Len(v)
        BY <1>2, <2>2
      <4>2. QED
        BY Zenon, <2>2, <3>1, <4>1 DEF c
    <3>2. CASE i # n + 1
      <4>1. i \in Positions(e, n)
        BY <2>3, <3>2
      <4>2. PICK q \in 1..Len(w) : w[q] = X!Assigned[i]
        BY <4>1 DEF Lists
      <4>3. q \in 1..Len(v)
        BY <1>2, <2>2
      <4>4. QED
        BY Zenon, <2>2, <4>2, <4>3
    <3>3. QED
      BY <3>1, <3>2
  <2>8. Len(v) = Cardinality(Positions(e, n + 1))
    BY Zenon, <1>2, <2>2, <2>5
  <2>9. Lists(v, e, n + 1)
    BY Zenon, <2>2, <2>6, <2>7, <2>8 DEF Lists
  <2>10. QED
    BY Zenon, <2>1, <2>9 DEF c
<1>4. CASE ExpertOf(c) # e
  <2>1. Appended(e, w, c) = w
    BY <1>4 DEF Appended, ExpertOf
  <2>2. Positions(e, n + 1) = Positions(e, n)
    BY <1>1, <1>4 DEF Positions
  <2>3. Lists(w, e, n + 1)
    BY Zenon, <2>2 DEF Lists
  <2>4. QED
    BY Zenon, <2>1, <2>3
<1>5. QED
  BY <1>3, <1>4

LEMMA OwnedLists ==
  ASSUME TokensRouted, NEW e
  PROVE  Lists(X!Owned(e), e, X!Rows)
<1>1. PICK r : OwnedBy(r, e, X!Rows)
  BY OwnedRuns
<1>2. PICK n \in Nat : n = X!Rows
  BY RoutedIs
<1> DEFINE T == {j \in 0..n : Lists(r[j], e, j)}
<1>3. 0 \in T
  <2>1. Positions(e, 0) = {} /\ 0 \in 0..n
    BY DEF Positions
  <2>2. r[0] = <<>> /\ <<>> \in Seq(AllChoices) /\ Len(<<>>) = 0 /\ 1..0 = {}
    BY <1>1 DEF OwnedBy
  <2>3. Cardinality(Positions(e, 0)) = 0
    BY Zenon, <2>1, FS_EmptySet
  <2>4. Lists(r[0], e, 0)
    BY Zenon, <2>1, <2>2, <2>3 DEF Lists
  <2>5. QED
    BY <2>1, <2>4
<1>4. ASSUME NEW j \in 0..(n - 1), j \in T PROVE j + 1 \in T
  <2>1. j + 1 \in 1..n /\ j + 1 \in 0..n /\ (j + 1) - 1 = j
    OBVIOUS
  <2>2. Lists(r[j], e, j)
    BY <1>4
  <2>3. r[j + 1] = Appended(e, r[j], X!Assigned[j + 1])
    BY Zenon, <1>1, <1>2, <2>1 DEF OwnedBy
  <2>4. Lists(r[j + 1], e, j + 1)
    BY Zenon, <1>2, <2>2, <2>3, AppendedLists
  <2>5. QED
    BY <2>1, <2>4
<1> HIDE DEF T
<1>5. \A j \in 0..n : j \in T
  BY Zenon, <1>3, <1>4, InductionTo
<1>6. n \in T /\ X!Owned(e) = r[n]
  <2>1. n \in 0..n
    OBVIOUS
  <2>2. QED
    BY Zenon, <1>1, <1>2, <1>5, <2>1 DEF OwnedBy
<1>7. QED
  BY Zenon, <1>2, <1>6 DEF T

-----------------------------------------------------------------------------
(* Where an expert's rows and tiles are. *)

LEMMA CountIs ==
  ASSUME TokensRouted, NEW e
  PROVE  /\ X!Count(e) = Cardinality(Positions(e, X!Rows)) /\ X!Count(e) \in Nat
         /\ X!Count(e) <= Len(logits)
<1> DEFINE A == X!Assigned
           P == Positions(e, X!Rows)
           f == [i \in P |-> A[i][1]]
           T == 1..Len(logits)
<1>1. X!Count(e) = Cardinality(P)
  BY Zenon, OwnedLists DEF Lists, X!Count
<1>2. /\ A \in [1..X!Rows -> AllChoices]
      /\ \A i, j \in 1..X!Rows : A[i] = A[j] => i = j
  BY AssignedIs
<1>3. X!Rows \in Nat /\ Len(logits) \in Nat
  BY RoutedIs
<1>4. P \subseteq 1..X!Rows /\ \A i \in P : top[A[i][1]][A[i][2]] = e
  BY DEF Positions, ExpertOf
<1>5. X!Count(e) \in Nat
  <2>1. P \in SUBSET (1..X!Rows)
    BY <1>4
  <2> HIDE DEF P
  <2>2. Cardinality(P) \in Nat
    BY <1>3, <2>1, OfFinite
  <2>3. QED
    BY <1>1, <2>2
<1> HIDE DEF A, P
<1>6. \A i \in P : A[i][1] \in T /\ A[i][2] \in 1..TopK /\ A[i] = <<A[i][1], A[i][2]>>
  BY <1>2, <1>4 DEF AllChoices
<1>7. f \in [P -> T]
  BY <1>6
<1>8. \A i, j \in P : f[i] = f[j] => i = j
  <2>1. ASSUME NEW i \in P, NEW j \in P, A[i][1] = A[j][1] PROVE i = j
    <3> DEFINE t == A[i][1]
    <3>1. t \in T /\ top[t][A[i][2]] = top[t][A[j][2]]
      BY Zenon, <1>4, <1>6, <2>1
    <3>2. BestOf(logits[t], top[t])
      BY Zenon, <3>1, RoutedIs
    <3>3. A[i][2] = A[j][2]
      BY Zenon, <1>6, <3>1, <3>2 DEF BestOf
    <3>4. A[i] = A[j]
      BY Zenon, <1>6, <2>1, <3>3
    <3>5. QED
      BY Zenon, <1>2, <1>4, <3>4
  <2>2. QED
    BY <2>1
<1>9. f \in Injection(P, T)
  BY Zenon, <1>7, <1>8 DEF Injection, IsInjective
<1>10. IsFiniteSet(T) /\ Cardinality(T) = Len(logits)
  <2>1. 1 \in Int /\ Len(logits) \in Int
    BY <1>3
  <2>2. IsFiniteSet(T) /\ Cardinality(T) = IF 1 > Len(logits) THEN 0 ELSE Len(logits) - 1 + 1
    BY <2>1, FS_Interval
  <2>3. QED
    BY <1>3, <2>2
<1> HIDE DEF f, T
<1>11. Cardinality(P) <= Cardinality(T)
  BY Zenon, <1>9, <1>10, FS_Injection
<1>12. X!Count(e) <= Len(logits)
  BY <1>1, <1>10, <1>11
<1>13. QED
  BY <1>1, <1>5, <1>12 DEF P

LEMMA TilesOfIs ==
  ASSUME NEW n \in Nat
  PROVE  /\ X!TilesOf(n) \in Nat /\ X!TilesOf(n) <= n
         /\ \A j \in Nat : j < X!TilesOf(n) <=> j * TileTokens < n
<1>1. PICK m \in Nat \ {0} : m = TileTokens
  BY ExpertsAssumption
<1> DEFINE h == n + m - 1
           q == h \div m
           r == h % m
<1>2. X!TilesOf(n) = q
  BY <1>1 DEF X!TilesOf
<1>3. h \in Nat
  OBVIOUS
<1> HIDE DEF h
<1>4. q \in Nat /\ r \in 0..(m - 1) /\ h = q * m + r
  BY <1>3, DivMod
<1> HIDE DEF q, r
<1>5. n = q * m + r - (m - 1)
  BY <1>4 DEF h
<1>6. q <= n
  <2>1. CASE q = 0
    BY <2>1
  <2>2. CASE q # 0
    <3>1. q * m >= q + m - 1
      <4>1. (q - 1) * (m - 1) >= 0
        BY <1>4, <2>2
      <4>2. (q - 1) * (m - 1) = q * m - q - m + 1
        BY <1>4
      <4>3. q * m \in Int
        BY <1>4
      <4>4. QED
        BY <1>4, <4>1, <4>2, <4>3
    <3>2. q * m \in Int
      BY <1>4
    <3>3. QED
      BY <1>4, <1>5, <3>1, <3>2
  <2>3. QED
    BY <2>1, <2>2
<1>7. ASSUME NEW j \in Nat PROVE j < q <=> j * m < n
  <2>1. ASSUME j < q PROVE j * m < n
    <3>1. (j + 1) * m <= q * m /\ (j + 1) * m = j * m + m
      BY <1>4, <2>1
    <3>2. j * m \in Int /\ q * m \in Int
      BY <1>4
    <3>3. QED
      BY <1>4, <1>5, <3>1, <3>2
  <2>2. ASSUME ~(j < q) PROVE ~(j * m < n)
    <3>1. j * m >= q * m
      BY <1>4, <2>2
    <3>2. j * m \in Int /\ q * m \in Int
      BY <1>4
    <3>3. QED
      BY <1>4, <1>5, <3>1, <3>2
  <2>3. QED
    BY <2>1, <2>2
<1>8. QED
  BY <1>1, <1>2, <1>4, <1>6, <1>7

Counts == [e \in 0..(Width - 1) |-> X!Count(e)]
TileCounts == [e \in 0..(Width - 1) |-> X!TilesOf(X!Count(e))]
RowStarts == [e \in 0..Width |-> X!RowOffset(e)]
TileStarts == [e \in 0..Width |-> X!TileOffset(e)]

LEMMA RowsStart ==
  ASSUME TokensRouted
  PROVE  /\ Counts \in [0..(Width - 1) -> Nat] /\ Starting(RowStarts, Counts, Width)
         /\ RowStarts[Width] = X!Rows
<1>1. PICK n \in Nat : n = Width
  BY WidthIs
<1>2. Counts \in [0..(n - 1) -> Nat] /\ \A e \in 0..(n - 1) : Counts[e] = X!Count(e)
  BY <1>1, CountIs DEF Counts
<1>3. ASSUME NEW e \in 0..n PROVE X!RowOffset(e) = X!Total([i \in 1..e |-> Counts[i - 1]])
  <2>1. \A i \in 1..e : i - 1 \in 0..(n - 1)
    OBVIOUS
  <2>2. [i \in 1..e |-> X!Count(i - 1)] = [i \in 1..e |-> Counts[i - 1]]
    BY Zenon, <1>2, <2>1
  <2>3. QED
    BY Zenon, <2>2 DEF X!RowOffset
<1>4. RowStarts = [e \in 0..n |-> X!Total([i \in 1..e |-> Counts[i - 1]])]
  BY Zenon, <1>1, <1>3 DEF RowStarts
<1>5. Starting(RowStarts, Counts, n)
  BY Zenon, <1>2, <1>4, TotalsStart
<1> DEFINE A == X!Assigned
           x == [i \in 1..X!Rows |-> ExpertOf(A[i])]
<1>6. PICK R \in Nat : R = X!Rows
  BY RoutedIs
<1>7. x \in [1..R -> 0..(n - 1)]
  <2>1. \A i \in 1..R : A[i] \in AllChoices
    BY <1>6, AssignedIs
  <2>2. \A i \in 1..R : ExpertOf(A[i]) \in 0..(n - 1)
    BY Zenon, <1>1, <2>1, RoutedIs
  <2>3. QED
    BY Zenon, <1>6, <2>2
<1>8. \A e \in 0..(n - 1) : Counts[e] = Cardinality(Of(x, R, e))
  <2>1. ASSUME NEW e \in 0..(n - 1) PROVE Counts[e] = Cardinality(Of(x, R, e))
    <3>1. Of(x, R, e) = Positions(e, R)
      BY <1>6 DEF Of, Positions
    <3>2. X!Count(e) = Cardinality(Positions(e, R))
      BY Zenon, <1>6, CountIs
    <3>3. QED
      BY Zenon, <1>2, <3>1, <3>2
  <2>2. QED
    BY Zenon, <2>1
<1> HIDE DEF x
<1>9. RowStarts[n] = R
  BY Zenon, <1>5, <1>7, <1>8, CountsAddUp
<1>10. QED
  BY Zenon, <1>1, <1>2, <1>5, <1>6, <1>9

LEMMA TilesStart ==
  ASSUME TokensRouted
  PROVE  /\ TileCounts \in [0..(Width - 1) -> Nat] /\ Starting(TileStarts, TileCounts, Width)
         /\ X!NTiles = TileStarts[Width] /\ X!NTiles \in Nat /\ X!NTiles <= X!Rows
<1>1. PICK n \in Nat \ {0} : n = Width
  BY WidthIs
<1>2. /\ Counts \in [0..(n - 1) -> Nat] /\ Starting(RowStarts, Counts, n)
      /\ RowStarts[n] = X!Rows /\ \A e \in 0..(n - 1) : Counts[e] = X!Count(e)
  <2>1. \A e \in 0..(n - 1) : Counts[e] = X!Count(e)
    BY Zenon, <1>1 DEF Counts
  <2>2. QED
    BY Zenon, <1>1, <2>1, RowsStart
<1>3. \A e \in 0..(n - 1) : /\ TileCounts[e] = X!TilesOf(X!Count(e))
                            /\ TileCounts[e] \in Nat /\ TileCounts[e] <= Counts[e]
  <2>1. ASSUME NEW e \in 0..(n - 1)
        PROVE  /\ TileCounts[e] = X!TilesOf(X!Count(e))
               /\ TileCounts[e] \in Nat /\ TileCounts[e] <= Counts[e]
    <3>1. TileCounts[e] = X!TilesOf(X!Count(e))
      BY Zenon, <1>1 DEF TileCounts
    <3>2. Counts[e] \in Nat /\ Counts[e] = X!Count(e)
      BY <1>2
    <3>3. X!TilesOf(Counts[e]) \in Nat /\ X!TilesOf(Counts[e]) <= Counts[e]
      BY Zenon, <3>2, TilesOfIs
    <3>4. QED
      BY Zenon, <3>1, <3>2, <3>3
  <2>2. QED
    BY Zenon, <2>1
<1>4. TileCounts \in [0..(n - 1) -> Nat]
  <2>1. TileCounts = [e \in 0..(n - 1) |-> TileCounts[e]]
    BY Zenon, <1>1 DEF TileCounts
  <2>2. QED
    BY Zenon, <1>3, <2>1
<1>5. ASSUME NEW e \in 0..n PROVE X!TileOffset(e) = X!Total([i \in 1..e |-> TileCounts[i - 1]])
  <2>1. \A i \in 1..e : i - 1 \in 0..(n - 1)
    OBVIOUS
  <2>2. [i \in 1..e |-> X!TilesOf(X!Count(i - 1))] = [i \in 1..e |-> TileCounts[i - 1]]
    BY Zenon, <1>3, <2>1
  <2>3. QED
    BY Zenon, <2>2 DEF X!TileOffset
<1>6. TileStarts = [e \in 0..n |-> X!Total([i \in 1..e |-> TileCounts[i - 1]])]
  BY Zenon, <1>1, <1>5 DEF TileStarts
<1>7. Starting(TileStarts, TileCounts, n)
  <2>1. n \in Nat
    OBVIOUS
  <2>2. QED
    BY Zenon, <1>4, <1>6, <2>1, TotalsStart
<1>8. X!NTiles = TileStarts[n]
  <2>1. X!Max(0..(n - 1)) = n - 1
    <3>1. \A z \in 0..(n - 1) : (\A v \in 0..(n - 1) : z >= v) <=> z = n - 1
      OBVIOUS
    <3>2. n - 1 \in 0..(n - 1)
      OBVIOUS
    <3>3. QED
      BY Zenon, <3>1, <3>2 DEF X!Max
  <2>2. X!NTiles = X!TileOffset((n - 1) + 1)
    BY Zenon, <1>1, <2>1, WidthIs DEF X!NTiles
  <2>3. (n - 1) + 1 = n /\ n \in 0..n
    OBVIOUS
  <2>4. QED
    BY Zenon, <1>1, <2>2, <2>3 DEF TileStarts
<1> DEFINE T == {e \in 0..n : TileStarts[e] <= RowStarts[e]}
<1>9. /\ TileStarts \in [0..n -> Nat] /\ TileStarts[0] = 0
      /\ \A e \in 0..(n - 1) : TileStarts[e + 1] = TileStarts[e] + TileCounts[e]
      /\ RowStarts \in [0..n -> Nat] /\ RowStarts[0] = 0
      /\ \A e \in 0..(n - 1) : RowStarts[e + 1] = RowStarts[e] + Counts[e]
  BY Zenon, <1>2, <1>7 DEF Starting
<1>10. 0 \in T
  BY <1>9
<1>11. ASSUME NEW e \in 0..(n - 1), e \in T PROVE e + 1 \in T
  <2>1. e + 1 \in 0..n /\ e \in 0..n /\ TileStarts[e] <= RowStarts[e]
    BY <1>11
  <2>2. TileStarts[e + 1] = TileStarts[e] + TileCounts[e] /\ RowStarts[e + 1] = RowStarts[e] + Counts[e]
    BY <1>9
  <2>3. TileStarts[e] \in Nat /\ RowStarts[e] \in Nat /\ TileCounts[e] \in Nat /\ Counts[e] \in Nat
        /\ TileCounts[e] <= Counts[e]
    BY <1>2, <1>3, <1>9, <2>1
  <2>4. QED
    BY <2>1, <2>2, <2>3
<1> HIDE DEF T
<1>12. \A e \in 0..n : e \in T
  BY Zenon, <1>10, <1>11, InductionTo
<1>13. TileStarts[n] <= RowStarts[n] /\ TileStarts[n] \in Nat
  <2>1. n \in 0..n
    OBVIOUS
  <2>2. QED
    BY <1>9, <1>12, <2>1 DEF T
<1>14. QED
  BY Zenon, <1>1, <1>2, <1>4, <1>7, <1>8, <1>13

(* Offsets and counts do not depend on more than the tokens and their experts. *)
LEMMA SameLayout ==
  ASSUME logits' = logits, top' = top
  PROVE  /\ \A e : /\ X!Owned(e)' = X!Owned(e) /\ X!Count(e)' = X!Count(e)
                   /\ X!RowOffset(e)' = X!RowOffset(e) /\ X!TileOffset(e)' = X!TileOffset(e)
         /\ X!Rows' = X!Rows /\ X!NTiles' = X!NTiles /\ X!Grid' = X!Grid /\ X!Tokens' = X!Tokens
<1>1. X!Rows' = X!Rows /\ X!Tokens' = X!Tokens
  BY DEF X!Rows, X!Tokens
<1>2. X!Assigned' = X!Assigned
  BY <1>1 DEF X!Assigned
<1>3. ASSUME NEW e PROVE X!Owned(e)' = X!Owned(e)
  BY <1>2 DEF X!Owned, X!FoldLeft, X!MapThenFoldSet
<1>4. ASSUME NEW e PROVE X!Count(e)' = X!Count(e)
  BY <1>3 DEF X!Count
<1>5. ASSUME NEW e PROVE X!RowOffset(e)' = X!RowOffset(e)
  BY <1>4 DEF X!RowOffset
<1>6. ASSUME NEW e PROVE X!TileOffset(e)' = X!TileOffset(e)
  BY <1>4 DEF X!TileOffset
<1>7. X!NTiles' = X!NTiles
  BY <1>6 DEF X!NTiles
<1>8. X!Grid' = X!Grid
  BY <1>1 DEF X!Grid
<1>9. QED
  BY <1>1, <1>3, <1>4, <1>5, <1>6, <1>7, <1>8

LEMMA LayoutIs ==
  ASSUME TokensRouted
  PROVE  /\ Counts \in [0..(Width - 1) -> Nat] /\ Starting(RowStarts, Counts, Width)
         /\ TileCounts \in [0..(Width - 1) -> Nat] /\ Starting(TileStarts, TileCounts, Width)
         /\ RowStarts[Width] = X!Rows /\ TileStarts[Width] = X!NTiles /\ Width \in Nat
         /\ \A e \in 0..(Width - 1) :
              /\ X!RowOffset(e) = RowStarts[e] /\ X!TileOffset(e) = TileStarts[e]
              /\ X!Count(e) = Counts[e] /\ X!TilesOf(X!Count(e)) = TileCounts[e]
<1>1. \A e \in 0..(Width - 1) : e \in 0..Width
  BY WidthIs
<1>2. ASSUME NEW e \in 0..(Width - 1)
      PROVE  /\ X!RowOffset(e) = RowStarts[e] /\ X!TileOffset(e) = TileStarts[e]
             /\ X!Count(e) = Counts[e] /\ X!TilesOf(X!Count(e)) = TileCounts[e]
  BY Zenon, <1>1 DEF RowStarts, TileStarts, Counts, TileCounts
<1>3. Width \in Nat
  BY WidthIs
<1>4. QED
  BY Zenon, <1>2, <1>3, RowsStart, TilesStart

(* An expert's rows and tiles are within the tables, and are no other's.     *)
LEMMA RowsAreOwn ==
  ASSUME TokensRouted, NEW e \in 0..(Width - 1), NEW q \in 1..X!Count(e)
  PROVE  /\ X!RowOffset(e) \in Nat /\ X!RowOffset(e) + q \in 1..X!Rows
         /\ \A g \in 0..(Width - 1) : (X!RowOffset(e) + q) - X!RowOffset(g) \in 1..X!Count(g) => g = e
<1>1. PICK n \in Nat : n = Width
  BY WidthIs
<1>2. PICK c, o : c \in [0..(n - 1) -> Nat] /\ c = Counts /\ o = RowStarts /\ Starting(o, c, n) /\ o[n] = X!Rows
  BY Zenon, <1>1, LayoutIs
<1>3. \A g \in 0..(n - 1) : X!RowOffset(g) = o[g] /\ X!Count(g) = c[g] /\ o[g] \in Nat /\ c[g] \in Nat
  <2>1. \A g \in 0..(n - 1) : X!RowOffset(g) = o[g] /\ X!Count(g) = c[g]
    BY Zenon, <1>1, <1>2, LayoutIs
  <2>2. \A g \in 0..(n - 1) : o[g] \in Nat /\ c[g] \in Nat
    BY <1>2, StartsBelow
  <2>3. QED
    BY Zenon, <2>1, <2>2
<1>4. e \in 0..(n - 1) /\ q \in 1..c[e] /\ X!RowOffset(e) = o[e]
  BY Zenon, <1>1, <1>3
<1>5. o[e] + c[e] <= o[n] /\ o[n] \in Nat
  BY <1>2, <1>4, StartsBelow
<1>6. o[e] + q \in 1..o[n]
  BY <1>3, <1>4, <1>5
<1>7. ASSUME NEW g \in 0..(n - 1), (o[e] + q) - o[g] \in 1..c[g] PROVE g = e
  <2> DEFINE r == o[e] + q
  <2>1. r \in Int /\ r \in (o[g] + 1)..(o[g] + c[g]) /\ r \in (o[e] + 1)..(o[e] + c[e])
    BY <1>3, <1>4, <1>7
  <2> HIDE DEF r
  <2>2. QED
    BY <1>2, <1>4, <2>1, StartsOnce
<1>8. QED
  BY Zenon, <1>1, <1>2, <1>3, <1>4, <1>6, <1>7

LEMMA TilesAreOwn ==
  ASSUME TokensRouted, NEW e \in 0..(Width - 1), NEW j \in 0..(X!TilesOf(X!Count(e)) - 1)
  PROVE  /\ X!TileOffset(e) \in Nat /\ X!TileOffset(e) + j + 1 \in 1..X!NTiles
         /\ X!NTiles \in Nat /\ X!NTiles <= X!Rows
         /\ \A g \in 0..(Width - 1) : \A i \in 0..(X!TilesOf(X!Count(g)) - 1) :
              X!TileOffset(g) + i = X!TileOffset(e) + j => g = e /\ i = j
<1>1. PICK n \in Nat : n = Width
  BY WidthIs
<1>2. PICK c, o : c \in [0..(n - 1) -> Nat] /\
        c = TileCounts /\ o = TileStarts /\ Starting(o, c, n) /\ o[n] = X!NTiles
  BY Zenon, <1>1, LayoutIs
<1>3. \A g \in 0..(n - 1) :
        X!TileOffset(g) = o[g] /\ X!TilesOf(X!Count(g)) = c[g] /\ o[g] \in Nat /\ c[g] \in Nat
  <2>1. \A g \in 0..(n - 1) : X!TileOffset(g) = o[g] /\ X!TilesOf(X!Count(g)) = c[g]
    BY Zenon, <1>1, <1>2, LayoutIs
  <2>2. \A g \in 0..(n - 1) : o[g] \in Nat /\ c[g] \in Nat
    BY <1>2, StartsBelow
  <2>3. QED
    BY Zenon, <2>1, <2>2
<1>4. e \in 0..(n - 1) /\ j \in 0..(c[e] - 1) /\ X!TileOffset(e) = o[e]
  BY Zenon, <1>1, <1>3
<1>5. o[e] + c[e] <= o[n] /\ o[n] \in Nat
  BY <1>2, <1>4, StartsBelow
<1>6. o[e] + j + 1 \in 1..o[n]
  BY <1>3, <1>4, <1>5
<1>7. ASSUME NEW g \in 0..(n - 1), NEW i \in 0..(c[g] - 1), o[g] + i = o[e] + j
      PROVE  g = e /\ i = j
  <2> DEFINE r == o[e] + j + 1
  <2>0. o[g] \in Nat /\ c[g] \in Nat /\ o[e] \in Nat /\ c[e] \in Nat /\ i \in Nat /\ i < c[g]
    BY <1>3, <1>4, <1>7
  <2>1. r \in Int /\ r \in (o[g] + 1)..(o[g] + c[g]) /\ r \in (o[e] + 1)..(o[e] + c[e])
    <3>1. r = o[e] + j + 1 /\ r = o[g] + i + 1
      BY <1>4, <1>7, <2>0
    <3>2. j \in Nat /\ j < c[e]
      BY <1>4, <2>0
    <3> HIDE DEF r
    <3>3. r \in Int /\ r \in (o[e] + 1)..(o[e] + c[e])
      <4>1. r = o[e] + j + 1
        BY <3>1
      <4>2. QED
        BY <2>0, <3>2, <4>1
    <3>4. r \in (o[g] + 1)..(o[g] + c[g])
      <4>1. r = o[g] + i + 1
        BY <3>1
      <4>2. QED
        BY <2>0, <4>1
    <3>5. QED
      BY <3>3, <3>4
  <2> HIDE DEF r
  <2>2. g = e
    BY <1>2, <1>4, <2>1, StartsOnce
  <2>3. QED
    BY <1>3, <1>4, <1>7, <2>2
<1>8. X!NTiles \in Nat /\ X!NTiles <= X!Rows
  BY TilesStart
<1>9. QED
  BY Zenon, <1>1, <1>2, <1>3, <1>4, <1>6, <1>7, <1>8

-----------------------------------------------------------------------------
(* The rows of an expert that a thread has grouped. *)

TileAt(e, j) ==
  [start |-> X!RowOffset(e) + j * TileTokens,
   count |-> X!Min({X!Count(e) - j * TileTokens, TileTokens}), group |-> e]

RowsPlaced(e) == \A q \in 1..X!Count(e) : index[X!RowOffset(e) + q] = X!Owned(e)[q][1]

SlotsPlaced(e) ==
  \A t \in 1..Len(logits) : \A k \in 1..TopK : top[t][k] = e =>
    \E q \in 1..X!Count(e) : X!Owned(e)[q] = <<t, k>> /\ slot[t][k] = X!RowOffset(e) + q

TilesPlaced(e) ==
  \A j \in 0..(X!TilesOf(X!Count(e)) - 1) : tiles[X!TileOffset(e) + j + 1] = TileAt(e, j)

Placed(e) == RowsPlaced(e) /\ SlotsPlaced(e) /\ TilesPlaced(e)

LEMMA StaysPlaced ==
  ASSUME logits' = logits, top' = top, index' = index, slot' = slot, tiles' = tiles,
         NEW e, Placed(e)
  PROVE  Placed(e)'
<1>1. RowsPlaced(e)'
  BY SameLayout DEF Placed, RowsPlaced
<1>2. SlotsPlaced(e)'
  <2>1. /\ X!Owned(e)' = X!Owned(e) /\ X!Count(e)' = X!Count(e)
        /\ X!RowOffset(e)' = X!RowOffset(e)
    BY SameLayout
  <2>2. SlotsPlaced(e)
    BY DEF Placed
  <2>3. SUFFICES ASSUME NEW t \in 1..Len(logits'), NEW k \in 1..TopK, top'[t][k] = e
                 PROVE  \E q \in 1..X!Count(e)' : /\ X!Owned(e)'[q] = <<t, k>>
                                                  /\ slot'[t][k] = X!RowOffset(e)' + q
    BY Zenon DEF SlotsPlaced
  <2>4. t \in 1..Len(logits) /\ top[t][k] = e
    BY <2>3
  <2>5. \E q \in 1..X!Count(e) : X!Owned(e)[q] = <<t, k>> /\ slot[t][k] = X!RowOffset(e) + q
    BY Zenon, <2>2, <2>4 DEF SlotsPlaced
  <2>6. QED
    BY Zenon, <2>1, <2>5
<1>3. TilesPlaced(e)'
  <2>1. \A j : TileAt(e, j)' = TileAt(e, j)
    BY SameLayout DEF TileAt
  <2>2. X!TilesOf(X!Count(e))' = X!TilesOf(X!Count(e))
    BY SameLayout DEF X!TilesOf
  <2>3. QED
    BY SameLayout, <2>1, <2>2 DEF Placed, TilesPlaced
<1>4. QED
  BY <1>1, <1>2, <1>3 DEF Placed

(* A choice of an expert is in its list. *)
LEMMA ChoiceListed ==
  ASSUME TokensRouted, NEW t \in 1..Len(logits), NEW k \in 1..TopK
  PROVE  \E q \in 1..X!Count(top[t][k]) : X!Owned(top[t][k])[q] = <<t, k>>
<1> DEFINE e == top[t][k]
           c == <<t, k>>
<1>1. c \in AllChoices /\ ExpertOf(c) = e
  BY DEF AllChoices, ExpertOf
<1> HIDE DEF c, e
<1>2. PICK i \in 1..X!Rows : X!Assigned[i] = c
  BY Zenon, <1>1, AssignedIs
<1>3. i \in Positions(e, X!Rows)
  BY <1>1, <1>2 DEF Positions
<1>4. PICK q \in 1..Len(X!Owned(e)) : X!Owned(e)[q] = X!Assigned[i]
  BY Zenon, <1>3, OwnedLists DEF Lists
<1>5. QED
  BY Zenon, <1>2, <1>4 DEF e, c, X!Count

LEMMA OwnedDomain ==
  ASSUME TokensRouted, NEW e
  PROVE  DOMAIN X!Owned(e) = 1..X!Count(e)
<1>1. X!Owned(e) \in Seq(AllChoices)
  BY Zenon, OwnedLists DEF Lists
<1>2. DOMAIN X!Owned(e) = 1..Len(X!Owned(e))
  BY Zenon, <1>1, SeqListed
<1>3. QED
  BY Zenon, <1>2 DEF X!Count

(* A thread of the kernel places its expert's rows and leaves the others'.   *)
LEMMA ThreadPlaces ==
  ASSUME TokensRouted, NEW e \in 0..(Width - 1), X!GroupThread(e)
  PROVE  Placed(e)'
<1>1. logits' = logits /\ top' = top
  BY DEF X!GroupThread
<1>2. /\ X!Owned(e)' = X!Owned(e) /\ X!Count(e)' = X!Count(e)
      /\ X!RowOffset(e)' = X!RowOffset(e) /\ X!TileOffset(e)' = X!TileOffset(e)
      /\ X!Rows \in Nat
  BY <1>1, SameLayout, RoutedIs
<1> DEFINE w == X!Owned(e)
           o == X!RowOffset(e)
           n == X!Count(e)
           u == X!TileOffset(e)
<1>3. DOMAIN w = 1..n
  BY OwnedDomain
<1>4. /\ index' = [r \in 1..X!Rows |->
                    IF r - o \in DOMAIN w THEN w[r - o][1] ELSE index[r]]
      /\ slot' = [t \in X!Tokens |-> [k \in 1..TopK |->
                    IF top[t][k] = e THEN o + (CHOOSE q \in DOMAIN w : w[q] = <<t, k>>)
                    ELSE slot[t][k]]]
      /\ tiles' = [i \in 1..X!Rows |->
                    LET j == i - 1 - u
                    IN  IF j >= 0 /\ j * TileTokens < n
                        THEN [start |-> o + j * TileTokens,
                              count |-> X!Min({n - j * TileTokens, TileTokens}), group |-> e]
                        ELSE tiles[i]]
  BY Zenon DEF X!GroupThread
<1>5. n \in Nat
  BY CountIs
<1>6. \A q \in 1..n : o \in Nat /\ o + q \in 1..X!Rows
  BY Zenon, RowsAreOwn
<1>7. \A j \in 0..(X!TilesOf(n) - 1) :
         /\ u \in Nat /\ u + j + 1 \in 1..X!NTiles /\ X!NTiles \in Nat /\ X!NTiles <= X!Rows
  BY Zenon, TilesAreOwn
<1>8. \A j \in Nat : j < X!TilesOf(n) <=> j * TileTokens < n
  BY Zenon, <1>5, TilesOfIs
<1>9. X!TilesOf(n) \in Nat
  BY Zenon, <1>5, TilesOfIs
<1> HIDE DEF w, o, n, u
<1>10. ASSUME NEW q \in 1..n PROVE index'[o + q] = w[q][1]
  <2>1. o \in Nat /\ o + q \in 1..X!Rows
    BY <1>6
  <2>2. (o + q) - o = q
    BY <2>1
  <2>3. QED
    BY <1>3, <1>4, <2>1, <2>2
<1>11. RowsPlaced(e)'
  BY Zenon, <1>2, <1>10 DEF RowsPlaced, w, o, n
<1>12. ASSUME NEW t \in 1..Len(logits), NEW k \in 1..TopK, top[t][k] = e
       PROVE  \E q \in 1..n : w[q] = <<t, k>> /\ slot'[t][k] = o + q
  <2>1. \E q \in DOMAIN w : w[q] = <<t, k>>
    BY Zenon, <1>3, <1>12, ChoiceListed DEF w, n
  <2> DEFINE q == CHOOSE q \in DOMAIN w : w[q] = <<t, k>>
  <2>2. q \in DOMAIN w /\ w[q] = <<t, k>>
    BY Zenon, <2>1
  <2>3. t \in X!Tokens
    BY RoutedIs
  <2>4. slot'[t][k] = o + q
    BY Zenon, <1>4, <1>12, <2>3
  <2>5. QED
    BY Zenon, <1>3, <2>2, <2>4
<1>13. SlotsPlaced(e)'
  <2>1. SUFFICES ASSUME NEW t \in 1..Len(logits'), NEW k \in 1..TopK, top'[t][k] = e
                 PROVE  \E q \in 1..X!Count(e)' : /\ X!Owned(e)'[q] = <<t, k>>
                                                  /\ slot'[t][k] = X!RowOffset(e)' + q
    BY Zenon DEF SlotsPlaced
  <2>2. t \in 1..Len(logits) /\ top[t][k] = e
    BY <1>1, <2>1
  <2>3. \E q \in 1..n : w[q] = <<t, k>> /\ slot'[t][k] = o + q
    BY Zenon, <1>12, <2>2
  <2>4. QED
    BY Zenon, <1>2, <2>3 DEF w, o, n
<1>14. ASSUME NEW j \in 0..(X!TilesOf(n) - 1)
       PROVE  tiles'[u + j + 1] = [start |-> o + j * TileTokens,
                count |-> X!Min({n - j * TileTokens, TileTokens}), group |-> e]
  <2>1. u \in Nat /\ u + j + 1 \in 1..X!Rows
    BY <1>2, <1>7
  <2>2. (u + j + 1) - 1 - u = j /\ j \in Nat /\ j >= 0 /\ j < X!TilesOf(n)
    BY <1>9, <2>1
  <2>3. j * TileTokens < n
    BY <1>8, <2>2
  <2> DEFINE i == u + j + 1
  <2>4. i \in 1..X!Rows /\ i - 1 - u = j
    BY <2>1, <2>2
  <2> HIDE DEF i
  <2>5. tiles'[i] = IF i - 1 - u >= 0 /\ (i - 1 - u) * TileTokens < n
                    THEN [start |-> o + (i - 1 - u) * TileTokens,
                          count |-> X!Min({n - (i - 1 - u) * TileTokens, TileTokens}), group |-> e]
                    ELSE tiles[i]
    BY Zenon, <1>4, <2>4
  <2>6. QED
    BY Zenon, <2>2, <2>3, <2>4, <2>5 DEF i
<1>15. TilesPlaced(e)'
  <2>1. X!TilesOf(X!Count(e))' = X!TilesOf(X!Count(e))
    BY <1>2 DEF X!TilesOf
  <2>2. \A j : TileAt(e, j)' = [start |-> o + j * TileTokens,
                  count |-> X!Min({n - j * TileTokens, TileTokens}), group |-> e]
    BY <1>2 DEF TileAt, o, n
  <2>3. SUFFICES ASSUME NEW j \in 0..(X!TilesOf(X!Count(e))' - 1)
                 PROVE  tiles'[X!TileOffset(e)' + j + 1] = TileAt(e, j)'
    BY Zenon DEF TilesPlaced
  <2>4. j \in 0..(X!TilesOf(n) - 1)
    BY Zenon, <2>1, <2>3 DEF n
  <2>5. QED
    BY Zenon, <1>2, <1>14, <2>2, <2>4 DEF u
<1>16. QED
  BY Zenon, <1>11, <1>13, <1>15 DEF Placed

LEMMA ThreadKeeps ==
  ASSUME TokensRouted, NEW e \in 0..(Width - 1), X!GroupThread(e),
         NEW g \in 0..(Width - 1), g # e, Placed(g)
  PROVE  Placed(g)'
<1>1. logits' = logits /\ top' = top
  BY DEF X!GroupThread
<1>2. /\ X!Owned(g)' = X!Owned(g) /\ X!Count(g)' = X!Count(g)
      /\ X!RowOffset(g)' = X!RowOffset(g) /\ X!TileOffset(g)' = X!TileOffset(g)
      /\ X!Rows \in Nat
  BY <1>1, SameLayout, RoutedIs
<1> DEFINE w == X!Owned(e)
           o == X!RowOffset(e)
           n == X!Count(e)
           u == X!TileOffset(e)
           p == X!RowOffset(g)
           m == X!Count(g)
           v == X!TileOffset(g)
<1>3. DOMAIN w = 1..n
  BY OwnedDomain
<1>4. /\ index' = [r \in 1..X!Rows |->
                    IF r - o \in DOMAIN w THEN w[r - o][1] ELSE index[r]]
      /\ slot' = [t \in X!Tokens |-> [k \in 1..TopK |->
                    IF top[t][k] = e THEN o + (CHOOSE q \in DOMAIN w : w[q] = <<t, k>>)
                    ELSE slot[t][k]]]
      /\ tiles' = [i \in 1..X!Rows |->
                    LET j == i - 1 - u
                    IN  IF j >= 0 /\ j * TileTokens < n
                        THEN [start |-> o + j * TileTokens,
                              count |-> X!Min({n - j * TileTokens, TileTokens}), group |-> e]
                        ELSE tiles[i]]
  BY Zenon DEF X!GroupThread
<1>5. n \in Nat
  BY CountIs
<1>6. \A q \in 1..m : p + q \in 1..X!Rows /\ ~((p + q) - o \in 1..n)
  <2>1. ASSUME NEW q \in 1..m PROVE p + q \in 1..X!Rows /\ ~((p + q) - o \in 1..n)
    <3>1. /\ p + q \in 1..X!Rows
          /\ \A h \in 0..(Width - 1) : (p + q) - X!RowOffset(h) \in 1..X!Count(h) => h = g
      BY Zenon, RowsAreOwn
    <3>2. QED
      BY Zenon, <3>1
  <2>2. QED
    BY Zenon, <2>1
<1>7. \A j \in 0..(X!TilesOf(m) - 1) :
         /\ v \in Nat /\ v + j + 1 \in 1..X!NTiles /\ X!NTiles \in Nat /\ X!NTiles <= X!Rows
         /\ \A i \in 0..(X!TilesOf(n) - 1) : u + i # v + j
  <2>1. ASSUME NEW j \in 0..(X!TilesOf(m) - 1)
        PROVE  /\ v \in Nat /\ v + j + 1 \in 1..X!NTiles /\ X!NTiles \in Nat /\ X!NTiles <= X!Rows
               /\ \A i \in 0..(X!TilesOf(n) - 1) : u + i # v + j
    <3>1. /\ v \in Nat /\ v + j + 1 \in 1..X!NTiles /\ X!NTiles \in Nat /\ X!NTiles <= X!Rows
          /\ \A h \in 0..(Width - 1) : \A i \in 0..(X!TilesOf(X!Count(h)) - 1) :
               X!TileOffset(h) + i = v + j => h = g /\ i = j
      BY Zenon, TilesAreOwn
    <3>2. QED
      BY Zenon, <3>1
  <2>2. QED
    BY Zenon, <2>1
<1>8. (\A j \in Nat : j < X!TilesOf(n) <=> j * TileTokens < n) /\ X!TilesOf(n) \in Nat
  BY Zenon, <1>5, TilesOfIs
<1>9. u \in Nat
  <2>1. PICK c \in Nat : c = Width
    BY WidthIs
  <2>2. e \in 0..c /\ u = TileStarts[e] /\ TileStarts \in [0..c -> Nat]
    <3>1. u = TileStarts[e] /\ TileStarts \in [0..c -> Nat]
      BY Zenon, <2>1, LayoutIs DEF Starting
    <3>2. QED
      BY <2>1, <3>1
  <2>3. QED
    BY <2>2
<1>10. Placed(g) /\ RowsPlaced(g) /\ SlotsPlaced(g) /\ TilesPlaced(g)
  BY Zenon DEF Placed
<1> HIDE DEF w, o, n, u, p, m, v
<1>11. ASSUME NEW q \in 1..m PROVE index'[p + q] = index[p + q]
  <2>1. p + q \in 1..X!Rows /\ ~((p + q) - o \in DOMAIN w)
    BY Zenon, <1>3, <1>6
  <2>2. QED
    BY Zenon, <1>4, <2>1
<1>12. RowsPlaced(g)'
  <2>1. \A q \in 1..m : index[p + q] = X!Owned(g)[q][1]
    BY Zenon, <1>10 DEF RowsPlaced, p, m
  <2>2. QED
    BY Zenon, <1>2, <1>11, <2>1 DEF RowsPlaced, p, m
<1>13. SlotsPlaced(g)'
  <2>1. SUFFICES ASSUME NEW t \in 1..Len(logits'), NEW k \in 1..TopK, top'[t][k] = g
                 PROVE  \E q \in 1..X!Count(g)' : /\ X!Owned(g)'[q] = <<t, k>>
                                                  /\ slot'[t][k] = X!RowOffset(g)' + q
    BY Zenon DEF SlotsPlaced
  <2>2. t \in 1..Len(logits) /\ top[t][k] = g /\ top[t][k] # e
    BY <1>1, <2>1
  <2>3. t \in X!Tokens
    BY <2>2, RoutedIs
  <2>4. slot'[t][k] = slot[t][k]
    BY Zenon, <1>4, <2>2, <2>3
  <2>5. \E q \in 1..m : X!Owned(g)[q] = <<t, k>> /\ slot[t][k] = p + q
    BY Zenon, <1>10, <2>2 DEF SlotsPlaced, p, m
  <2>6. QED
    BY Zenon, <1>2, <2>4, <2>5 DEF p, m
<1>14. ASSUME NEW j \in 0..(X!TilesOf(m) - 1) PROVE tiles'[v + j + 1] = tiles[v + j + 1]
  <2> DEFINE i == v + j + 1
             h == i - 1 - u
  <2>1. v \in Nat /\ i \in 1..X!Rows /\ \A k \in 0..(X!TilesOf(n) - 1) : u + k # v + j
    BY <1>2, <1>7
  <2>2. h \in Int /\ u + h = v + j
    BY <1>9, <2>1
  <2> HIDE DEF i
  <2>3. tiles'[i] = IF h >= 0 /\ h * TileTokens < n
                    THEN [start |-> o + h * TileTokens,
                          count |-> X!Min({n - h * TileTokens, TileTokens}), group |-> e]
                    ELSE tiles[i]
    BY Zenon, <1>4, <2>1
  <2> HIDE DEF h
  <2>4. ~(h >= 0 /\ h * TileTokens < n)
    <3>1. SUFFICES ASSUME h >= 0, h * TileTokens < n PROVE FALSE
      OBVIOUS
    <3>2. h \in Nat
      BY <2>2, <3>1
    <3>3. h < X!TilesOf(n)
      BY <1>8, <3>1, <3>2
    <3>4. h \in 0..(X!TilesOf(n) - 1)
      BY <1>8, <3>2, <3>3
    <3>5. QED
      BY Zenon, <2>1, <2>2, <3>4
  <2>5. QED
    BY Zenon, <2>3, <2>4 DEF i
<1>15. TilesPlaced(g)'
  <2>1. X!TilesOf(X!Count(g))' = X!TilesOf(X!Count(g))
    BY <1>2 DEF X!TilesOf
  <2>2. \A j : TileAt(g, j)' = TileAt(g, j)
    BY <1>2 DEF TileAt
  <2>3. SUFFICES ASSUME NEW j \in 0..(X!TilesOf(X!Count(g))' - 1)
                 PROVE  tiles'[X!TileOffset(g)' + j + 1] = TileAt(g, j)'
    BY Zenon DEF TilesPlaced
  <2>4. j \in 0..(X!TilesOf(m) - 1)
    BY Zenon, <2>1, <2>3 DEF m
  <2>5. tiles[v + j + 1] = TileAt(g, j)
    BY Zenon, <1>10, <2>4 DEF TilesPlaced, v, m
  <2>6. QED
    BY Zenon, <1>2, <1>14, <2>2, <2>4, <2>5 DEF v
<1>16. QED
  BY Zenon, <1>12, <1>13, <1>15 DEF Placed

(* The tile that covers a row when every expert's rows are placed.           *)
Covers(i, r) == r - tiles[i].start \in 1..tiles[i].count

CoveredOnce(r, i, e) ==
  /\ Covers(i, r) /\ tiles[i].group = e
  /\ \A h \in 1..X!NTiles : Covers(h, r) => h = i

HoldsPlace(q, m, n, j) ==
  q - j * m \in 1..X!Min({n - j * m, m}) <=> q \in 1..n /\ (q - 1) \div m = j

LEMMA TileHolds ==
  ASSUME NEW m \in Nat \ {0}, NEW n \in Nat, NEW j \in Nat, j * m < n, NEW q \in Int
  PROVE  HoldsPlace(q, m, n, j)
<1> DEFINE a == j * m
<1>1. a \in Nat /\ n - a \in Nat \ {0}
  OBVIOUS
<1>2. PICK c \in Int : c = X!Min({n - a, m}) /\ c <= n - a /\ c <= m /\ (c = n - a \/ c = m)
  <2> DEFINE b == n - a
             d == IF b <= m THEN b ELSE m
  <2>1. b \in Int /\ m \in Int
    BY <1>1
  <2> HIDE DEF b
  <2>2. d \in {b, m} /\ \A v \in {b, m} : d <= v
    BY <2>1
  <2>3. \A x \in {b, m} : (\A v \in {b, m} : x <= v) => x = d
    BY <2>1
  <2>4. d \in Int /\ d <= b /\ d <= m /\ (d = b \/ d = m)
    BY <2>1
  <2> HIDE DEF d
  <2>5. X!Min({b, m}) = d
    BY Zenon, <2>2, <2>3 DEF X!Min
  <2>6. QED
    BY Zenon, <2>4, <2>5 DEF b
<1>3. (j + 1) * m = a + m
  OBVIOUS
<1>4. ASSUME q - a \in 1..c PROVE q \in 1..n /\ (q - 1) \div m = j
  <2>1. q \in 1..n /\ q - 1 - a \in 0..(m - 1)
    BY <1>1, <1>2, <1>4
  <2> DEFINE s == q - 1 - a
  <2>2. q - 1 = j * m + s
    BY <1>1
  <2>3. s \in 0..(m - 1)
    BY <2>1
  <2> HIDE DEF s
  <2>4. (q - 1) \div m = j
    BY <2>2, <2>3, DivModOf
  <2>5. QED
    BY <2>1, <2>4
<1>5. ASSUME q \in 1..n, (q - 1) \div m = j PROVE q - a \in 1..c
  <2>1. q - 1 \in Nat
    BY <1>5
  <2> DEFINE p == q - 1
             s == p % m
  <2>2. s \in 0..(m - 1) /\ p = a + s
    <3>1. p % m \in 0..(m - 1) /\ p = (p \div m) * m + (p % m)
      BY <2>1, DivMod
    <3>2. QED
      BY <1>5, <3>1
  <2> HIDE DEF s
  <2>3. q = a + s + 1
    BY <1>1, <2>2
  <2> HIDE DEF a
  <2>4. QED
    BY <1>1, <1>2, <1>5, <2>2, <2>3
<1>6. QED
  BY Zenon, <1>2, <1>4, <1>5 DEF HoldsPlace

LEMMA TileFound ==
  ASSUME TokensRouted, NEW i \in 1..X!NTiles, \A e \in 0..(Width - 1) : Placed(e)
  PROVE  \E e \in 0..(Width - 1) : \E j \in 0..(X!TilesOf(X!Count(e)) - 1) :
           i = X!TileOffset(e) + j + 1 /\ tiles[i] = TileAt(e, j)
<1>1. PICK n \in Nat : n = Width
  BY WidthIs
<1>2. PICK c, o : c \in [0..(n - 1) -> Nat] /\
        c = TileCounts /\ o = TileStarts /\ Starting(o, c, n) /\ o[n] = X!NTiles
  BY Zenon, <1>1, LayoutIs
<1>3. PICK e \in 0..(n - 1) : i \in (o[e] + 1)..(o[e] + c[e])
  BY <1>2, StartsCover
<1>4. X!TileOffset(e) = o[e] /\ X!TilesOf(X!Count(e)) = c[e]
  BY Zenon, <1>1, <1>2, <1>3, LayoutIs
<1>5. o[e] \in Nat /\ c[e] \in Nat
  BY <1>2, StartsBelow
<1> DEFINE j == i - o[e] - 1
<1>6. j \in 0..(c[e] - 1) /\ i = o[e] + j + 1
  BY <1>3, <1>5
<1> HIDE DEF j
<1>7. tiles[i] = TileAt(e, j)
  BY Zenon, <1>1, <1>4, <1>6 DEF Placed, TilesPlaced
<1>8. QED
  BY Zenon, <1>1, <1>4, <1>6, <1>7

LEMMA TileAtCovers ==
  ASSUME TokensRouted, NEW e \in 0..(Width - 1), NEW j \in 0..(X!TilesOf(X!Count(e)) - 1),
         NEW i, tiles[i] = TileAt(e, j), NEW r \in Int
  PROVE  Covers(i, r) <=> /\ r - X!RowOffset(e) \in 1..X!Count(e)
                          /\ (r - X!RowOffset(e) - 1) \div TileTokens = j
<1>1. PICK m \in Nat \ {0} : m = TileTokens
  BY ExpertsAssumption
<1>2. PICK n \in Nat : n = X!Count(e)
  BY CountIs
<1>3. PICK o \in Nat : o = X!RowOffset(e)
  <2>1. PICK w \in Nat : w = Width
    BY WidthIs
  <2>2. e \in 0..w /\ X!RowOffset(e) = RowStarts[e] /\ RowStarts \in [0..w -> Nat]
    <3>1. X!RowOffset(e) = RowStarts[e] /\ RowStarts \in [0..w -> Nat]
      BY Zenon, <2>1, LayoutIs DEF Starting
    <3>2. QED
      BY <2>1, <3>1
  <2>3. QED
    BY <2>2
<1>4. j \in Nat /\ j * m < n
  <2>1. X!TilesOf(n) \in Nat /\ \A k \in Nat : k < X!TilesOf(n) <=> k * m < n
    BY Zenon, <1>1, TilesOfIs
  <2>2. j \in Nat /\ j < X!TilesOf(n)
    BY <1>2, <2>1
  <2>3. QED
    BY <2>1, <2>2
<1>5. tiles[i].start = o + j * m /\ tiles[i].count = X!Min({n - j * m, m})
  BY <1>1, <1>2, <1>3 DEF TileAt
<1> DEFINE q == r - o
<1>6. q \in Int /\ r - (o + j * m) = q - j * m /\ q - 1 = r - o - 1
  <2>1. j * m \in Int
    BY <1>4
  <2>2. QED
    BY <2>1
<1> HIDE DEF q
<1>7. q - j * m \in 1..X!Min({n - j * m, m}) <=> q \in 1..n /\ (q - 1) \div m = j
  <2>1. HoldsPlace(q, m, n, j)
    BY Zenon, <1>4, <1>6, TileHolds
  <2>2. QED
    BY Zenon, <2>1 DEF HoldsPlace
<1>8. Covers(i, r) <=> q - j * m \in 1..X!Min({n - j * m, m})
  BY Zenon, <1>5, <1>6 DEF Covers
<1>9. QED
  BY Zenon, <1>1, <1>2, <1>3, <1>6, <1>7, <1>8 DEF q

LEMMA RowCovered ==
  ASSUME TokensRouted, NEW r \in 1..X!Rows, \A e \in 0..(Width - 1) : Placed(e)
  PROVE  \E e \in 0..(Width - 1) : \E i \in 1..X!NTiles : \E q \in 1..X!Count(e) :
           r = X!RowOffset(e) + q /\ CoveredOnce(r, i, e)
<1>1. PICK n \in Nat : n = Width
  BY WidthIs
<1>2. PICK c, o : c \in [0..(n - 1) -> Nat] /\
        c = Counts /\ o = RowStarts /\ Starting(o, c, n) /\ o[n] = X!Rows
  BY Zenon, <1>1, LayoutIs
<1>3. PICK e \in 0..(n - 1) : r \in (o[e] + 1)..(o[e] + c[e])
  BY <1>2, StartsCover
<1>4. X!RowOffset(e) = o[e] /\ X!Count(e) = c[e]
  BY Zenon, <1>1, <1>2, <1>3, LayoutIs
<1>5. o[e] \in Nat /\ c[e] \in Nat
  BY <1>2, StartsBelow
<1> DEFINE q == r - o[e]
           j == (q - 1) \div TileTokens
<1>6. q \in 1..c[e] /\ r = o[e] + q /\ r \in Int /\ q - 1 \in Nat
  BY <1>3, <1>5
<1> HIDE DEF q
<1>7. j \in 0..(X!TilesOf(c[e]) - 1)
  <2>1. PICK m \in Nat \ {0} : m = TileTokens
    BY ExpertsAssumption
  <2>2. (q - 1) \div m \in Nat /\ (q - 1) % m \in 0..(m - 1)
        /\ q - 1 = ((q - 1) \div m) * m + ((q - 1) % m)
    BY <1>6, DivMod
  <2>3. j \in Nat /\ j * m < c[e]
    <3>0. j = (q - 1) \div m
      BY <2>1
    <3> HIDE DEF j
    <3>1. j \in Nat /\ q - 1 = j * m + ((q - 1) % m)
      BY Zenon, <2>2, <3>0
    <3>2. j * m \in Nat
      BY <3>1
    <3>3. QED
      BY <1>5, <1>6, <2>2, <3>1, <3>2
  <2>4. X!TilesOf(c[e]) \in Nat /\ \A k \in Nat : k < X!TilesOf(c[e]) <=> k * TileTokens < c[e]
    BY Zenon, <1>5, TilesOfIs
  <2> HIDE DEF j
  <2>5. j < X!TilesOf(c[e])
    BY <2>1, <2>3, <2>4
  <2>6. QED
    BY <2>3, <2>4, <2>5
<1> DEFINE i == X!TileOffset(e) + j + 1
<1>8. i \in 1..X!NTiles /\ tiles[i] = TileAt(e, j)
  <2>1. j \in 0..(X!TilesOf(X!Count(e)) - 1) /\ e \in 0..(Width - 1)
    BY Zenon, <1>1, <1>4, <1>7
  <2>2. i \in 1..X!NTiles
    BY Zenon, <2>1, TilesAreOwn
  <2>3. QED
    BY Zenon, <2>1, <2>2 DEF Placed, TilesPlaced
<1>9. (r - X!RowOffset(e) \in 1..X!Count(e)) /\ (r - X!RowOffset(e) - 1) \div TileTokens = j
  <2>1. r - o[e] = q /\ r - o[e] - 1 = q - 1
    BY <1>3, <1>5 DEF q
  <2>2. QED
    BY Zenon, <1>4, <1>6, <2>1
<1> HIDE DEF i, j
<1>10. Covers(i, r)
  <2>1. j \in 0..(X!TilesOf(X!Count(e)) - 1) /\ e \in 0..(Width - 1)
    BY Zenon, <1>1, <1>4, <1>7
  <2>2. QED
    BY <1>6, <1>8, <1>9, <2>1, TileAtCovers
<1>11. tiles[i].group = e
  BY <1>8 DEF TileAt
<1>12. ASSUME NEW h \in 1..X!NTiles, Covers(h, r) PROVE h = i
  <2>1. PICK g \in 0..(Width - 1) : \E k \in 0..(X!TilesOf(X!Count(g)) - 1) :
          h = X!TileOffset(g) + k + 1 /\ tiles[h] = TileAt(g, k)
    BY Zenon, TileFound
  <2>2. PICK k \in 0..(X!TilesOf(X!Count(g)) - 1) :
          h = X!TileOffset(g) + k + 1 /\ tiles[h] = TileAt(g, k)
    BY Zenon, <2>1
  <2>3. /\ r - X!RowOffset(g) \in 1..X!Count(g)
        /\ (r - X!RowOffset(g) - 1) \div TileTokens = k
    BY <1>6, <1>12, <2>2, TileAtCovers
  <2>4. g = e
    <3>1. e \in 0..(Width - 1) /\ q \in 1..X!Count(e) /\ r = X!RowOffset(e) + q
      BY Zenon, <1>1, <1>4, <1>6
    <3>2. QED
      BY Zenon, <2>3, <3>1, RowsAreOwn
  <2>5. k = j
    BY Zenon, <1>9, <2>3, <2>4
  <2>6. QED
    BY Zenon, <2>2, <2>4, <2>5 DEF i
<1>13. CoveredOnce(r, i, e)
  BY Zenon, <1>10, <1>11, <1>12 DEF CoveredOnce
<1>14. QED
  BY Zenon, <1>1, <1>4, <1>6, <1>8, <1>13

(* The blocks of the grouped product share its tiles out. *)
LEMMA GridIs ==
  ASSUME TokensRouted
  PROVE  X!Grid \in Nat \ {0}
<1>1. PICK w \in Nat \ {0} : w = Width
  BY WidthIs
<1>2. PICK m \in Nat \ {0} : m = TileTokens
  BY ExpertsAssumption
<1>3. PICK b \in Nat \ {0} : b = GridY
  BY ExpertsAssumption
<1>4. PICK R \in Nat \ {0} : R = X!Rows
  BY RoutedIs
<1>5. X!Cardinality(X!Experts) = w
  <2>1. 0 \in Int /\ w - 1 \in Int
    OBVIOUS
  <2>2. Cardinality(0..(w - 1)) = IF 0 > w - 1 THEN 0 ELSE (w - 1) - 0 + 1
    BY <2>1, FS_Interval
  <2>3. Cardinality(0..(w - 1)) = w
    BY <2>2
  <2>4. \A A : X!Cardinality(A) = Cardinality(A)
    BY DEF X!Cardinality, Cardinality
  <2>5. X!Experts = 0..(w - 1)
    BY <1>1, WidthIs
  <2>6. QED
    BY Zenon, <2>3, <2>4, <2>5
<1>6. PICK a \in Nat \ {0} : a = R \div m + w
  <2>1. R \div m \in Nat
    BY DivMod
  <2>2. R \div m + w \in Nat \ {0}
    BY <2>1
  <2>3. QED
    BY <2>2
<1>7. X!Grid = X!Min({a, R, b})
  BY Zenon, <1>2, <1>3, <1>4, <1>5, <1>6 DEF X!Grid
<1> DEFINE d == IF a <= R /\ a <= b THEN a ELSE IF R <= b THEN R ELSE b
           D == {a, R, b}
<1>8. d \in D /\ \A v \in D : d <= v
  OBVIOUS
<1>9. \A x \in D : (\A v \in D : x <= v) => x = d
  OBVIOUS
<1>10. D \subseteq Nat \ {0}
  OBVIOUS
<1> HIDE DEF d, D
<1>11. X!Min(D) = d
  BY Zenon, <1>8, <1>9 DEF X!Min
<1>12. QED
  BY Zenon, <1>7, <1>8, <1>10, <1>11 DEF D

AllPlaced == \A e \in 0..(Width - 1) : Placed(e)

(* The block that takes a tile. *)
BlockOf(i) == (i - 1) % X!Grid

LEMMA BlockIs ==
  ASSUME TokensRouted, NEW i \in 1..X!NTiles
  PROVE  BlockOf(i) \in 0..(X!Grid - 1)
<1>1. PICK g \in Nat \ {0} : g = X!Grid
  BY GridIs
<1>2. i - 1 \in Nat
  BY TilesStart
<1>3. (i - 1) % g \in 0..(g - 1)
  BY <1>2, DivMod
<1>4. QED
  BY Zenon, <1>1, <1>3 DEF BlockOf

Taken(r, i, e, b) == eo'[r] = IF BlockOf(i) = b THEN X!Product(e, index[r]) ELSE eo[r]

LEMMA BlockTakes ==
  ASSUME TokensRouted, NEW b, X!RunBlock(b), NEW r \in 1..X!Rows, NEW e,
         NEW i \in 1..X!NTiles, CoveredOnce(r, i, e)
  PROVE  Taken(r, i, e, b)
<1> DEFINE Cover == {h \in X!BlockTiles(b) : r - tiles[h + 1].start \in 1..tiles[h + 1].count}
<1>1. eo'[r] = IF Cover = {} THEN eo[r] ELSE X!Product(tiles[X!Max(Cover) + 1].group, index[r])
  BY Zenon DEF X!RunBlock
<1>2. PICK N \in Nat : N = X!NTiles
  BY TilesStart
<1>3. \A h : h \in Cover <=> h \in 0..(N - 1) /\ h % X!Grid = b /\ Covers(h + 1, r)
  BY Zenon, <1>2 DEF X!BlockTiles, Covers
<1>4. i - 1 \in 0..(N - 1) /\ (i - 1) + 1 = i
  BY <1>2
<1>5. \A h \in Cover : h = i - 1
  <2>1. ASSUME NEW h \in 0..(N - 1), Covers(h + 1, r) PROVE h = i - 1
    <3>1. h + 1 \in 1..N
      OBVIOUS
    <3>2. h + 1 = i
      BY Zenon, <1>2, <2>1, <3>1 DEF CoveredOnce
    <3>3. QED
      BY <1>2, <3>2
  <2>2. QED
    BY Zenon, <1>3, <2>1
<1> HIDE DEF Cover
<1>6. CASE BlockOf(i) = b
  <2>1. i - 1 \in Cover
    BY Zenon, <1>3, <1>4, <1>6 DEF BlockOf, CoveredOnce
  <2>2. PICK h \in Nat : h = i - 1
    BY <1>4
  <2>3. Cover = {h}
    BY Zenon, <1>5, <2>1, <2>2
  <2>4. X!Max({h}) = h
    <3>1. \A x \in {h} : (\A v \in {h} : x >= v) <=> x = h
      OBVIOUS
    <3>2. QED
      BY <3>1 DEF X!Max
  <2>5. tiles[X!Max(Cover) + 1].group = e
    BY Zenon, <1>4, <2>2, <2>3, <2>4 DEF CoveredOnce
  <2>6. eo'[r] = X!Product(e, index[r])
    BY Zenon, <1>1, <2>1, <2>5
  <2>7. QED
    BY Zenon, <1>6, <2>6 DEF Taken
<1>7. CASE BlockOf(i) # b
  <2>1. Cover = {}
    BY Zenon, <1>3, <1>5, <1>7 DEF BlockOf
  <2>2. QED
    BY Zenon, <1>1, <1>7, <2>1 DEF Taken
<1>8. QED
  BY <1>6, <1>7

-----------------------------------------------------------------------------
(* The layer's invariant, by phase. *)

(* Nothing has been routed or summed. *)
Unrouted == top = <<>> /\ sums = <<>> /\ grouped = {} /\ blocks = {}

(* Products are of each token's own experts. *)
OwnProducts(s) ==
  /\ DOMAIN s = 1..Len(logits)
  /\ \A t \in 1..Len(logits) : \A k \in 1..TopK : s[t][k] = X!Product(top[t][k], t)

(* The experts the host has been at have been multiplied. *)
HostDone ==
  /\ expert \in 0..Width /\ DOMAIN contrib = 1..Len(logits)
  /\ \A t \in 1..Len(logits) : \A k \in 1..TopK :
       top[t][k] < expert => contrib[t][k] = X!Product(top[t][k], t)

ThreadsDone == grouped \subseteq 0..(Width - 1) /\ \A e \in grouped : Placed(e)

(* The rows whose tile a block has taken are multiplied. *)
BlocksDone ==
  \A r \in 1..X!Rows : \A e \in 0..(Width - 1) : \A i \in 1..X!NTiles :
    CoveredOnce(r, i, e) /\ BlockOf(i) \in blocks => eo[r] = X!Product(e, index[r])

XInv ==
  \/ routing = "rest" /\ Unrouted
  \/ routing = "route" /\ Unrouted
       /\ logits \in [1..Len(logits) -> Logits] /\ Len(logits) \in 1..MaxTokens
  \/ routing = "experts" /\ TokensRouted /\ sums = <<>> /\ HostDone
  \/ routing = "group" /\ TokensRouted /\ sums = <<>> /\ ThreadsDone /\ blocks = {}
  \/ routing = "product" /\ TokensRouted /\ sums = <<>> /\ AllPlaced /\ BlocksDone
  \/ routing = "summed" /\ TokensRouted /\ OwnProducts(sums)

(* A choice's product is at the row it was given. *)
LEMMA SlotIsOwn ==
  ASSUME TokensRouted, AllPlaced, BlocksDone, blocks = 0..(X!Grid - 1),
         NEW t \in 1..Len(logits), NEW k \in 1..TopK
  PROVE  eo[slot[t][k]] = X!Product(top[t][k], t)
<1> DEFINE e == top[t][k]
<1>1. e \in 0..(Width - 1)
  <2>1. <<t, k>> \in AllChoices /\ ExpertOf(<<t, k>>) = e
    BY DEF AllChoices, ExpertOf
  <2>2. QED
    BY Zenon, <2>1, RoutedIs
<1>2. PICK q \in 1..X!Count(e) : X!Owned(e)[q] = <<t, k>> /\ slot[t][k] = X!RowOffset(e) + q
  BY Zenon, <1>1 DEF AllPlaced, Placed, SlotsPlaced
<1> DEFINE r == X!RowOffset(e) + q
<1>3. r \in 1..X!Rows
  BY Zenon, <1>1, RowsAreOwn
<1>4. index[r] = t
  <2>1. index[r] = X!Owned(e)[q][1]
    BY Zenon, <1>1 DEF AllPlaced, Placed, RowsPlaced
  <2>2. <<t, k>>[1] = t
    OBVIOUS
  <2>3. QED
    BY Zenon, <1>2, <2>1, <2>2
<1> HIDE DEF r
<1>5. PICK g \in 0..(Width - 1) : \E i \in 1..X!NTiles : \E p \in 1..X!Count(g) :
        r = X!RowOffset(g) + p /\ CoveredOnce(r, i, g)
  BY Zenon, <1>3, RowCovered DEF AllPlaced
<1>6. PICK i \in 1..X!NTiles : \E p \in 1..X!Count(g) : r = X!RowOffset(g) + p /\ CoveredOnce(r, i, g)
  BY Zenon, <1>5
<1>7. PICK p \in 1..X!Count(g) : r = X!RowOffset(g) + p /\ CoveredOnce(r, i, g)
  BY Zenon, <1>6
<1>8. g = e
  <2>1. /\ X!RowOffset(e) \in Nat
        /\ \A h \in 0..(Width - 1) : r - X!RowOffset(h) \in 1..X!Count(h) => h = e
    BY Zenon, <1>1, RowsAreOwn DEF r
  <2>2. PICK o \in Nat : o = X!RowOffset(g)
    BY Zenon, <1>7, RowsAreOwn
  <2>3. PICK n \in Nat : n = X!Count(g)
    BY CountIs
  <2>4. p \in 1..n /\ r = o + p
    BY Zenon, <1>7, <2>2, <2>3
  <2>5. r - o \in 1..n
    BY <2>4
  <2>6. QED
    BY Zenon, <2>1, <2>2, <2>3, <2>5
<1>9. BlockOf(i) \in blocks
  BY Zenon, BlockIs
<1>10. eo[r] = X!Product(g, index[r])
  BY Zenon, <1>3, <1>7, <1>9 DEF BlocksDone
<1>11. QED
  BY Zenon, <1>2, <1>4, <1>8, <1>10 DEF r

LEMMA StaysRouted ==
  ASSUME TokensRouted, logits' = logits, top' = top
  PROVE  TokensRouted'
BY DEF TokensRouted

LEMMA MixtureBegins ==
  X!Init => XInv
BY DEF X!Init, X!Nothing, XInv, Unrouted

LEMMA StartKeeps ==
  ASSUME XInv, NEW n \in 1..MaxTokens, NEW rows \in [1..n -> Logits], NEW a \in BOOLEAN,
         X!Start(rows, a)
  PROVE  XInv'
<1>1. routing = "rest" /\ Unrouted
  BY DEF XInv, X!Start
<1>2. Unrouted' /\ routing' = "route" /\ logits' = rows
  BY <1>1 DEF X!Start, X!device, Unrouted
<1>3. Len(rows) = n
  <2>1. MaxTokens \in Nat
    BY ExpertsAssumption
  <2>2. n \in Nat
    BY <2>1
  <2>3. rows \in Seq(Logits) /\ Len(rows) = n
    BY <2>2
  <2>4. QED
    BY <2>3
<1>4. (logits \in [1..Len(logits) -> Logits] /\ Len(logits) \in 1..MaxTokens)'
  <2>1. Len(logits)' = n
    BY <1>2, <1>3
  <2>2. QED
    BY <1>2, <2>1
<1>5. QED
  BY Zenon, <1>2, <1>4 DEF XInv

LEMMA RouteKeeps ==
  ASSUME XInv, X!Route
  PROVE  XInv'
<1>1. /\ routing = "route" /\ Unrouted
      /\ logits \in [1..Len(logits) -> Logits] /\ Len(logits) \in 1..MaxTokens
  BY DEF XInv, X!Route
<1>2. /\ logits' = logits /\ sums' = <<>> /\ grouped' = {} /\ blocks' = {} /\ expert' = 0
      /\ routing' \in {"group", "experts"}
      /\ top' = [t \in DOMAIN logits |-> X!TopOf(logits[t])]
      /\ contrib' = [t \in DOMAIN logits |-> [k \in 1..TopK |-> X!Nobody]]
  BY <1>1 DEF X!Route, Unrouted, X!Tokens
<1>3. TokensRouted'
  BY <1>1, <1>2 DEF TokensRouted
<1>4. ThreadsDone'
  BY <1>2 DEF ThreadsDone
<1>5. HostDone'
  <2>1. DOMAIN logits = 1..Len(logits)
    BY <1>1
  <2>2. DOMAIN contrib' = 1..Len(logits')
    BY <1>2, <2>1
  <2>3. 0 \in 0..Width
    BY WidthIs
  <2>4. \A t \in 1..Len(logits') : \A k \in 1..TopK : ~(top'[t][k] < 0)
    <3>1. ASSUME NEW t \in 1..Len(logits'), NEW k \in 1..TopK PROVE ~(top'[t][k] < 0)
      <4>1. logits[t] \in Logits /\ top'[t] = X!TopOf(logits[t])
        BY <1>1, <1>2, <2>1, <3>1
      <4>2. BestOf(logits[t], top'[t])
        BY Zenon, <4>1, TopIsBest
      <4>3. PICK w \in Nat : w = Width
        BY WidthIs
      <4>4. top'[t][k] \in 0..(w - 1)
        BY <4>2, <4>3 DEF BestOf
      <4>5. QED
        BY <4>4
    <3>2. QED
      BY <3>1
  <2>5. QED
    BY Zenon, <1>2, <2>2, <2>3, <2>4 DEF HostDone
<1>6. QED
  BY Zenon, <1>2, <1>3, <1>4, <1>5 DEF XInv

LEMMA RunExpertKeeps ==
  ASSUME XInv, X!RunExpert
  PROVE  XInv'
<1>1. routing = "experts" /\ TokensRouted /\ sums = <<>> /\ HostDone
  BY DEF XInv, X!RunExpert
<1>2. PICK w \in Nat \ {0} : w = Width /\ X!Experts = 0..(w - 1)
  BY WidthIs
<1>3. expert \in 0..(w - 1) /\ expert' = expert + 1 /\ logits' = logits /\ top' = top
      /\ sums' = sums /\ routing' = routing
  BY <1>2 DEF X!RunExpert
<1>4. expert' \in 0..Width /\ expert \in 0..(Width - 1)
  BY <1>2, <1>3
<1> DEFINE own == X!Owned(expert)
           gather == [q \in DOMAIN own |-> own[q][1]]
           out == [q \in DOMAIN gather |-> X!Product(expert, gather[q])]
           Row(t, k) == CHOOSE q \in DOMAIN gather : own[q] = <<t, k>>
<1>5. contrib' = [t \in X!Tokens |-> [k \in 1..TopK |->
                   IF top[t][k] = expert THEN out[Row(t, k)] ELSE contrib[t][k]]]
  BY Zenon DEF X!RunExpert
<1>6. DOMAIN gather = DOMAIN own /\ DOMAIN own = 1..X!Count(expert)
  BY Zenon, <1>1, OwnedDomain
<1>7. X!Tokens = 1..Len(logits)
  BY Zenon, <1>1, RoutedIs
<1>8. ASSUME NEW t \in 1..Len(logits), NEW k \in 1..TopK, top[t][k] = expert
      PROVE  out[Row(t, k)] = X!Product(expert, t)
  <2>1. \E q \in 1..X!Count(expert) : own[q] = <<t, k>>
    BY Zenon, <1>1, <1>8, ChoiceListed
  <2> DEFINE q == Row(t, k)
  <2>2. \E p \in DOMAIN gather : own[p] = <<t, k>>
    BY Zenon, <1>6, <2>1
  <2>3. q \in DOMAIN gather /\ own[q] = <<t, k>>
    BY Zenon, <2>2
  <2> HIDE DEF q
  <2>4. gather[q] = own[q][1]
    BY Zenon, <1>6, <2>3
  <2>5. <<t, k>>[1] = t
    OBVIOUS
  <2>6. out[q] = X!Product(expert, t)
    BY Zenon, <2>3, <2>4, <2>5
  <2>7. QED
    BY Zenon, <2>6 DEF q
<1> HIDE DEF own, gather, out, Row
<1>9. ASSUME NEW t \in 1..Len(logits), NEW k \in 1..TopK, top[t][k] < expert + 1
      PROVE  contrib'[t][k] = X!Product(top[t][k], t)
  <2>1. CASE top[t][k] = expert
    BY Zenon, <1>5, <1>7, <1>8, <2>1
  <2>2. CASE top[t][k] # expert
    <3>1. top[t][k] \in 0..(w - 1)
      <4>1. BestOf(logits[t], top[t])
        BY Zenon, <1>1, RoutedIs
      <4>2. QED
        BY Zenon, <1>2, <4>1 DEF BestOf
    <3>2. top[t][k] < expert
      BY <1>3, <1>9, <2>2, <3>1
    <3>3. contrib[t][k] = X!Product(top[t][k], t)
      BY Zenon, <1>1, <3>2 DEF HostDone
    <3>4. QED
      BY Zenon, <1>5, <1>7, <2>2, <3>3
  <2>3. QED
    BY <2>1, <2>2
<1>10. DOMAIN contrib' = 1..Len(logits)
  BY Zenon, <1>5, <1>7
<1>11. HostDone'
  BY Zenon, <1>3, <1>4, <1>9, <1>10 DEF HostDone
<1>12. TokensRouted'
  BY Zenon, <1>1, <1>3, StaysRouted
<1>13. QED
  BY Zenon, <1>1, <1>3, <1>11, <1>12 DEF XInv

LEMMA SumOnHostKeeps ==
  ASSUME XInv, X!SumOnHost
  PROVE  XInv'
<1>1. routing = "experts" /\ TokensRouted /\ HostDone
  BY DEF XInv, X!SumOnHost
<1>2. PICK w \in Nat \ {0} : w = Width /\ X!Experts = 0..(w - 1)
  BY WidthIs
<1>3. expert \notin X!Experts /\ sums' = contrib /\ routing' = "summed" /\ logits' = logits /\ top' = top
  BY DEF X!SumOnHost
<1>4. expert = w
  BY <1>1, <1>2, <1>3 DEF HostDone
<1>5. ASSUME NEW t \in 1..Len(logits), NEW k \in 1..TopK
      PROVE  contrib[t][k] = X!Product(top[t][k], t)
  <2>1. BestOf(logits[t], top[t])
    BY Zenon, <1>1, RoutedIs
  <2>2. top[t][k] \in 0..(w - 1)
    BY Zenon, <1>2, <2>1 DEF BestOf
  <2>3. top[t][k] < expert
    BY <1>4, <2>2
  <2>4. QED
    BY Zenon, <1>1, <2>3 DEF HostDone
<1>6. DOMAIN contrib = 1..Len(logits)
  BY <1>1 DEF HostDone
<1>7. OwnProducts(sums)'
  BY Zenon, <1>3, <1>5, <1>6 DEF OwnProducts
<1>8. TokensRouted'
  BY Zenon, <1>1, <1>3, StaysRouted
<1>9. QED
  BY Zenon, <1>3, <1>7, <1>8 DEF XInv

LEMMA GroupThreadKeeps ==
  ASSUME XInv, NEW e \in X!Experts, X!GroupThread(e)
  PROVE  XInv'
<1>1. routing = "group" /\ TokensRouted /\ sums = <<>> /\ ThreadsDone /\ blocks = {}
  BY DEF XInv, X!GroupThread
<1>2. e \in 0..(Width - 1) /\ logits' = logits /\ top' = top /\ sums' = <<>> /\ blocks' = {}
      /\ routing' = "group" /\ grouped' = grouped \cup {e} /\ e \notin grouped
  BY <1>1, WidthIs DEF X!GroupThread
<1>3. Placed(e)'
  BY Zenon, <1>1, <1>2, ThreadPlaces
<1>4. ASSUME NEW g \in grouped PROVE Placed(g)'
  <2>1. g \in 0..(Width - 1) /\ g # e /\ Placed(g)
    BY <1>1, <1>2 DEF ThreadsDone
  <2>2. QED
    BY Zenon, <1>1, <1>2, <2>1, ThreadKeeps
<1>5. ThreadsDone'
  <2>1. grouped' \subseteq 0..(Width - 1)
    BY <1>1, <1>2 DEF ThreadsDone
  <2>2. ASSUME NEW g \in grouped' PROVE Placed(g)'
    BY Zenon, <1>2, <1>3, <1>4, <2>2
  <2>3. QED
    BY Zenon, <2>1, <2>2 DEF ThreadsDone
<1>6. TokensRouted'
  BY Zenon, <1>1, <1>2, StaysRouted
<1>7. QED
  BY Zenon, <1>2, <1>5, <1>6 DEF XInv

LEMMA LaunchKeeps ==
  ASSUME XInv, X!Launch
  PROVE  XInv'
<1>1. routing = "group" /\ TokensRouted /\ sums = <<>> /\ ThreadsDone /\ blocks = {}
  BY DEF XInv, X!Launch
<1>2. /\ grouped = X!Experts /\ routing' = "product" /\ logits' = logits /\ top' = top
      /\ index' = index /\ slot' = slot /\ tiles' = tiles /\ blocks' = {} /\ sums' = <<>>
  BY <1>1 DEF X!Launch, X!device
<1>3. ASSUME NEW e \in 0..(Width - 1) PROVE Placed(e)'
  <2>1. Placed(e)
    BY Zenon, <1>1, <1>2, WidthIs DEF ThreadsDone
  <2>2. QED
    BY Zenon, <1>2, <2>1, StaysPlaced
<1>4. AllPlaced'
  BY <1>3 DEF AllPlaced
<1>5. BlocksDone'
  BY Zenon, <1>2 DEF BlocksDone
<1>6. TokensRouted'
  BY Zenon, <1>1, <1>2, StaysRouted
<1>7. QED
  BY Zenon, <1>2, <1>4, <1>5, <1>6 DEF XInv

LEMMA RunBlockKeeps ==
  ASSUME XInv, NEW b, X!RunBlock(b)
  PROVE  XInv'
<1>1. routing = "product" /\ TokensRouted /\ sums = <<>> /\ AllPlaced /\ BlocksDone
  BY DEF XInv, X!RunBlock
<1>2. /\ routing' = "product" /\ logits' = logits /\ top' = top /\ sums' = <<>>
      /\ index' = index /\ slot' = slot /\ tiles' = tiles /\ blocks' = blocks \cup {b}
  BY <1>1 DEF X!RunBlock
<1>3. /\ X!Rows' = X!Rows /\ X!NTiles' = X!NTiles /\ X!Grid' = X!Grid
  BY Zenon, <1>2, SameLayout
<1>4. \A i, r, e : CoveredOnce(r, i, e)' <=> CoveredOnce(r, i, e)
  BY <1>2, <1>3 DEF CoveredOnce, Covers
<1>5. \A i : BlockOf(i)' = BlockOf(i)
  BY <1>3 DEF BlockOf
<1>6. ASSUME NEW r \in 1..X!Rows, NEW e \in 0..(Width - 1), NEW i \in 1..X!NTiles,
             CoveredOnce(r, i, e), BlockOf(i) \in blocks'
      PROVE  eo'[r] = X!Product(e, index'[r])
  <2>1. Taken(r, i, e, b)
    BY Zenon, <1>1, <1>6, BlockTakes
  <2>2. CASE BlockOf(i) = b
    BY Zenon, <1>2, <2>1, <2>2 DEF Taken
  <2>3. CASE BlockOf(i) # b
    <3>1. BlockOf(i) \in blocks
      BY <1>2, <1>6, <2>3
    <3>2. eo[r] = X!Product(e, index[r])
      BY Zenon, <1>1, <1>6, <3>1 DEF BlocksDone
    <3>3. QED
      BY Zenon, <1>2, <2>1, <2>3, <3>2 DEF Taken
  <2>4. QED
    BY <2>2, <2>3
<1>7. BlocksDone'
  <2>1. SUFFICES ASSUME NEW r \in 1..X!Rows', NEW e \in 0..(Width - 1), NEW i \in 1..X!NTiles',
                        CoveredOnce(r, i, e)', BlockOf(i)' \in blocks'
                 PROVE  eo'[r] = X!Product(e, index'[r])
    BY Zenon DEF BlocksDone
  <2>2. r \in 1..X!Rows /\ i \in 1..X!NTiles /\ CoveredOnce(r, i, e) /\ BlockOf(i) \in blocks'
    BY Zenon, <1>3, <1>4, <1>5, <2>1
  <2>3. QED
    BY Zenon, <1>6, <2>2
<1>8. AllPlaced'
  <2>1. ASSUME NEW e \in 0..(Width - 1) PROVE Placed(e)'
    <3>1. Placed(e)
      BY <1>1 DEF AllPlaced
    <3>2. QED
      BY Zenon, <1>2, <3>1, StaysPlaced
  <2>2. QED
    BY <2>1 DEF AllPlaced
<1>9. TokensRouted'
  BY Zenon, <1>1, <1>2, StaysRouted
<1>10. QED
  BY Zenon, <1>2, <1>7, <1>8, <1>9 DEF XInv

LEMMA SumOnDeviceKeeps ==
  ASSUME XInv, X!SumOnDevice
  PROVE  XInv'
<1>1. routing = "product" /\ TokensRouted /\ AllPlaced /\ BlocksDone
  BY DEF XInv, X!SumOnDevice
<1>2. /\ routing' = "summed" /\ logits' = logits /\ top' = top /\ blocks = 0..(X!Grid - 1)
      /\ sums' = [t \in X!Tokens |-> [k \in 1..TopK |-> eo[slot[t][k]]]]
  BY DEF X!SumOnDevice
<1>3. X!Tokens = 1..Len(logits)
  BY Zenon, <1>1, RoutedIs
<1>4. ASSUME NEW t \in 1..Len(logits), NEW k \in 1..TopK
      PROVE  sums'[t][k] = X!Product(top[t][k], t)
  <2>1. eo[slot[t][k]] = X!Product(top[t][k], t)
    BY Zenon, <1>1, <1>2, SlotIsOwn
  <2>2. QED
    BY Zenon, <1>2, <1>3, <2>1
<1>5. DOMAIN sums' = 1..Len(logits)
  BY Zenon, <1>2, <1>3
<1>6. OwnProducts(sums)'
  BY Zenon, <1>2, <1>4, <1>5 DEF OwnProducts
<1>7. TokensRouted'
  BY Zenon, <1>1, <1>2, StaysRouted
<1>8. QED
  BY Zenon, <1>2, <1>6, <1>7 DEF XInv

LEMMA ReturnKeeps ==
  ASSUME XInv, X!Return
  PROVE  XInv'
BY DEF X!Return, XInv, Unrouted

LEMMA MixtureStutters ==
  ASSUME XInv, UNCHANGED X!vars
  PROVE  XInv'
<1>1. /\ logits' = logits /\ top' = top /\ expert' = expert /\ contrib' = contrib
      /\ grouped' = grouped /\ index' = index /\ slot' = slot /\ tiles' = tiles /\ eo' = eo
      /\ blocks' = blocks /\ sums' = sums /\ routing' = routing
  BY DEF X!vars
<1>2. TokensRouted => TokensRouted'
  BY Zenon, <1>1, StaysRouted
<1>3. \A e : Placed(e) => Placed(e)'
  BY Zenon, <1>1, StaysPlaced
<1>4. Unrouted' = Unrouted /\ HostDone' = HostDone /\ \A s : OwnProducts(s)' = OwnProducts(s)
  BY <1>1 DEF Unrouted, HostDone, OwnProducts
<1>5. ThreadsDone => ThreadsDone'
  BY Zenon, <1>1, <1>3 DEF ThreadsDone
<1>6. AllPlaced => AllPlaced'
  BY Zenon, <1>3 DEF AllPlaced
<1>7. BlocksDone => BlocksDone'
  <2>1. /\ X!Rows' = X!Rows /\ X!NTiles' = X!NTiles /\ X!Grid' = X!Grid
    BY Zenon, <1>1, SameLayout
  <2>2. QED
    BY <1>1, <2>1 DEF BlocksDone, CoveredOnce, Covers, BlockOf
<1>8. OwnProducts(sums) => OwnProducts(sums)'
  BY <1>1 DEF OwnProducts
<1>9. CASE routing = "rest" /\ Unrouted
  BY <1>1, <1>9 DEF XInv, Unrouted
<1>10. CASE routing = "route" /\ Unrouted
            /\ logits \in [1..Len(logits) -> Logits] /\ Len(logits) \in 1..MaxTokens
  BY <1>1, <1>10 DEF XInv, Unrouted
<1>11. CASE routing = "experts" /\ TokensRouted /\ sums = <<>> /\ HostDone
  <2>1. HostDone'
    BY <1>1, <1>11 DEF HostDone
  <2>2. QED
    BY Zenon, <1>1, <1>2, <1>11, <2>1 DEF XInv
<1>12. CASE routing = "group" /\ TokensRouted /\ sums = <<>> /\ ThreadsDone /\ blocks = {}
  BY Zenon, <1>1, <1>2, <1>5, <1>12 DEF XInv
<1>13. CASE routing = "product" /\ TokensRouted /\ sums = <<>> /\ AllPlaced /\ BlocksDone
  BY Zenon, <1>1, <1>2, <1>6, <1>7, <1>13 DEF XInv
<1>14. CASE routing = "summed" /\ TokensRouted /\ OwnProducts(sums)
  BY Zenon, <1>1, <1>2, <1>8, <1>14 DEF XInv
<1>15. QED
  BY Zenon, <1>9, <1>10, <1>11, <1>12, <1>13, <1>14 DEF XInv

LEMMA MixtureKeeps ==
  XInv /\ [X!Next]_(X!vars) => XInv'
<1>1. SUFFICES ASSUME XInv, [X!Next]_(X!vars) PROVE XInv'
  OBVIOUS
<1>2. CASE \E n \in 1..MaxTokens : \E rows \in [1..n -> Logits], a \in BOOLEAN : X!Start(rows, a)
  BY Zenon, <1>1, <1>2, StartKeeps
<1>3. CASE X!Route
  BY Zenon, <1>1, <1>3, RouteKeeps
<1>4. CASE X!RunExpert
  BY Zenon, <1>1, <1>4, RunExpertKeeps
<1>5. CASE X!SumOnHost
  BY Zenon, <1>1, <1>5, SumOnHostKeeps
<1>6. CASE \E e \in X!Experts : X!GroupThread(e)
  BY Zenon, <1>1, <1>6, GroupThreadKeeps
<1>7. CASE X!Launch
  BY Zenon, <1>1, <1>7, LaunchKeeps
<1>8. CASE \E b \in 0..(MaxTokens * TopK) : X!RunBlock(b)
  BY Zenon, <1>1, <1>8, RunBlockKeeps
<1>9. CASE X!SumOnDevice
  BY Zenon, <1>1, <1>9, SumOnDeviceKeeps
<1>10. CASE X!Return
  BY Zenon, <1>1, <1>10, ReturnKeeps
<1>11. CASE UNCHANGED X!vars
  BY Zenon, <1>1, <1>11, MixtureStutters
<1>12. QED
  BY Zenon, <1>1, <1>2, <1>3, <1>4, <1>5, <1>6, <1>7, <1>8, <1>9, <1>10, <1>11 DEF X!Next

LEMMA MixtureShows ==
  XInv => MixtureIsTheTokensOwn /\ TilesCoverRows
<1>1. SUFFICES ASSUME XInv PROVE MixtureIsTheTokensOwn /\ TilesCoverRows
  OBVIOUS
<1>2. sums = <<>> \/ (TokensRouted /\ OwnProducts(sums))
  BY <1>1 DEF XInv, Unrouted
<1>3. top = <<>> \/ TokensRouted
  BY <1>1 DEF XInv, Unrouted
<1>4. routing = "product" => TokensRouted /\ AllPlaced
  BY <1>1 DEF XInv
<1>5. MixtureIsTheTokensOwn
  <2>1. CASE sums = <<>>
    <3>1. DOMAIN <<>> = {}
      OBVIOUS
    <3>2. QED
      BY Zenon, <2>1, <3>1 DEF MixtureIsTheTokensOwn, X!MixtureIsTheTokensOwn
  <2>2. CASE TokensRouted /\ OwnProducts(sums)
    <3>1. ASSUME NEW t \in DOMAIN sums, NEW k \in 1..TopK
          PROVE  sums[t][k] = X!Product(CHOOSE e \in X!Experts : X!Place(logits[t], e) = k - 1, t)
      <4>1. t \in 1..Len(logits) /\ sums[t][k] = X!Product(top[t][k], t)
        BY Zenon, <2>2, <3>1 DEF OwnProducts
      <4>2. top[t] = X!TopOf(logits[t])
        BY Zenon, <2>2, <4>1, RoutedIs
      <4>3. logits[t] \in Logits
        BY <2>2, <4>1 DEF TokensRouted
      <4>4. (CHOOSE e \in X!Experts : X!Place(logits[t], e) = k - 1) = top[t][k]
        BY Zenon, <4>2, <4>3, BestIsPlaced
      <4>5. QED
        BY Zenon, <4>1, <4>4
    <3>2. QED
      BY Zenon, <3>1 DEF MixtureIsTheTokensOwn, X!MixtureIsTheTokensOwn
  <2>3. QED
    BY <1>2, <2>1, <2>2
<1>6. top # <<>> => \A e \in X!Experts : X!Count(e) <= Len(logits)
  BY Zenon, <1>3, CountIs
<1>7. ASSUME routing = "product"
      PROVE  /\ X!NTiles <= X!Rows
             /\ \A r \in 1..X!Rows :
                  X!Cardinality({i \in 1..X!NTiles : r - tiles[i].start \in 1..tiles[i].count}) = 1
  <2>1. X!NTiles <= X!Rows
    BY Zenon, <1>4, <1>7, TilesStart
  <2>2. ASSUME NEW r \in 1..X!Rows
        PROVE  X!Cardinality({i \in 1..X!NTiles : r - tiles[i].start \in 1..tiles[i].count}) = 1
    <3>0. PICK e \in 0..(Width - 1) : \E i \in 1..X!NTiles : \E q \in 1..X!Count(e) :
            r = X!RowOffset(e) + q /\ CoveredOnce(r, i, e)
      BY Zenon, <1>4, <1>7, RowCovered DEF AllPlaced
    <3>1. PICK i \in 1..X!NTiles : CoveredOnce(r, i, e)
      BY Zenon, <3>0
    <3>2. {h \in 1..X!NTiles : r - tiles[h].start \in 1..tiles[h].count} = {i}
      BY Zenon, <3>1 DEF CoveredOnce, Covers
    <3>3. Cardinality({i}) = 1
      BY FS_Singleton
    <3>4. \A A : X!Cardinality(A) = Cardinality(A)
      BY DEF X!Cardinality, Cardinality
    <3>5. QED
      BY Zenon, <3>2, <3>3, <3>4
  <2>3. QED
    BY Zenon, <2>1, <2>2
<1>8. TilesCoverRows
  BY Zenon, <1>6, <1>7 DEF TilesCoverRows, X!TilesCoverRows
<1>9. QED
  BY <1>5, <1>8

(* Every layer of every pass sums each token's products of its own best      *)
(* experts, whatever the order of threads and blocks.                        *)
THEOREM MixtureCorrect == X!Spec => []MixtureIsTheTokensOwn
<1>1. X!Spec => []XInv
  BY MixtureBegins, MixtureKeeps, PTL DEF X!Spec
<1>2. QED
  BY <1>1, MixtureShows, PTL

(* The tiles of the grouped product are within their table and take each     *)
(* routed row once.                                                          *)
THEOREM TilesCorrect == X!Spec => []TilesCoverRows
<1>1. X!Spec => []XInv
  BY MixtureBegins, MixtureKeeps, PTL DEF X!Spec
<1>2. QED
  BY <1>1, MixtureShows, PTL

-----------------------------------------------------------------------------
(* The best tokens of a slot. *)

VocabSize == Len(CHOOSE r \in SlotLogits : TRUE)

LEMMA VocabIs ==
  /\ VocabSize \in Nat \ {0} /\ TopN <= VocabSize /\ TopN \in Nat \ {0} /\ S!Vocab = 0..(VocabSize - 1)
  /\ \A row \in SlotLogits : LogitsAbove(row, VocabSize, -1000)
<1>1. PICK row \in SlotLogits : row = CHOOSE r \in SlotLogits : TRUE
  BY ScoresAssumption DEF LogitRows
<1>2. VocabSize = Len(row) /\ S!Vocab = 0..(VocabSize - 1)
  BY <1>1 DEF VocabSize, S!Vocab
<1>3. TopN \in Nat \ {0} /\ Len(row) \in Nat /\ Len(row) >= TopN
  BY ScoresAssumption DEF LogitRows
<1>4. ASSUME NEW r \in SlotLogits PROVE LogitsAbove(r, VocabSize, -1000)
  <2>1. r \in Seq(Int) /\ Len(r) = Len(row) /\ \A i \in DOMAIN r : r[i] > -1000
    BY Least1000, ScoresAssumption DEF LogitRows
  <2>2. r \in [1..VocabSize -> Int]
    BY <1>2, <2>1
  <2>3. QED
    BY <2>1, <2>2 DEF LogitsAbove
<1>5. QED
  BY <1>2, <1>3, <1>4

(* A slot's best are kept best first, so what does not beat the last beats none. *)
Descends(c, K) == \A k, l \in 1..K : k <= l => c[k].value >= c[l].value

LEMMA EnteredDescends ==
  ASSUME NEW K \in Nat \ {0}, NEW c \in [1..K -> Choice], Descends(c, K), NEW d, NEW i \in Int,
         NEW v \in Int, Entered(c, d, K, i, v)
  PROVE  d \in [1..K -> Choice] /\ Descends(d, K)
<1>1. d \in [1..K -> Choice]
  BY DEF Entered
<1>2. CASE d = c
  BY <1>1, <1>2
<1>3. CASE \E a \in 1..K : TakesPlace(c, d, K, i, v, a)
  <2>1. PICK a \in 1..K : TakesPlace(c, d, K, i, v, a)
    BY <1>3
  <2>2. /\ v > c[a].value /\ \A k \in 1..(a - 1) : v <= c[k].value /\ d[k] = c[k]
        /\ d[a].value = v
        /\ \A k \in (a + 1)..K : d[k] = c[k - 1]
    BY <2>1 DEF TakesPlace
  <2>3. \A k \in 1..K : c[k].value \in Int
    BY DEF Choice
  <2>4. ASSUME NEW k \in 1..K, NEW l \in 1..K, k <= l PROVE d[k].value >= d[l].value
    <3>1. CASE l < a
      <4>1. k \in 1..(a - 1) /\ l \in 1..(a - 1)
        BY <2>4, <3>1
      <4>2. c[k].value >= c[l].value
        BY <2>4 DEF Descends
      <4>3. QED
        BY <2>2, <4>1, <4>2
    <3>2. CASE l = a
      <4>1. CASE k = a
        BY <2>2, <3>2, <4>1
      <4>2. CASE k < a
        <5>1. k \in 1..(a - 1)
          BY <4>2
        <5>2. QED
          BY <2>2, <2>3, <3>2, <5>1
      <4>3. QED
        BY <2>4, <3>2, <4>1, <4>2
    <3>3. CASE l > a
      <4>1. l \in (a + 1)..K /\ l - 1 \in 1..K /\ a <= l - 1
        BY <3>3
      <4>2. d[l].value = c[l - 1].value
        BY <2>2, <4>1
      <4>3. CASE k < a
        <5>1. k \in 1..(a - 1) /\ k <= l - 1
          BY <4>1, <4>3
        <5>2. c[k].value >= c[l - 1].value
          BY <4>1, <5>1 DEF Descends
        <5>3. QED
          BY <2>2, <4>2, <5>1, <5>2
      <4>4. CASE k = a
        <5>1. c[a].value >= c[l - 1].value
          BY <4>1 DEF Descends
        <5>2. QED
          BY <2>2, <2>3, <4>1, <4>2, <4>4, <5>1
      <4>5. CASE k > a
        <5>1. k \in (a + 1)..K /\ k - 1 \in 1..K /\ k - 1 <= l - 1
          BY <2>4, <4>5
        <5>2. c[k - 1].value >= c[l - 1].value
          BY <4>1, <5>1 DEF Descends
        <5>3. QED
          BY <2>2, <4>2, <5>1, <5>2
      <4>6. QED
        BY <4>3, <4>4, <4>5
    <3>4. QED
      BY <3>1, <3>2, <3>3
  <2>5. QED
    BY <1>1, <2>4 DEF Descends
<1>4. QED
  BY <1>2, <1>3 DEF Entered

LEMMA EnteringEnters ==
  ASSUME NEW c \in [1..TopN -> Choice], Descends(c, TopN), NEW i \in Int, NEW v \in Int
  PROVE  Entered(c, S!Entering(c, i, v), TopN, i, v)
<1> DEFINE beaten == {k \in 1..TopN : v > c[k].value}
           a == S!Min(beaten)
           x == [id |-> i, value |-> v]
<1>1. TopN \in Nat \ {0} /\ TopN \in 1..TopN
  BY VocabIs
<1>2. S!Entering(c, i, v) =
        IF v <= c[TopN].value THEN c
        ELSE SubSeq(SubSeq(c, 1, a - 1) \o <<x>> \o SubSeq(c, a, Len(c)), 1, TopN)
  BY DEF S!Entering, S!InsertAt
<1> HIDE DEF x
<1>3. \A k \in 1..TopN : c[k].value \in Int
  BY DEF Choice
<1>4. CASE v <= c[TopN].value
  <2>1. \A k \in 1..TopN : c[k].value >= c[TopN].value
    BY <1>1 DEF Descends
  <2>2. \A k \in 1..TopN : v <= c[k].value
    BY <1>1, <1>3, <1>4, <2>1
  <2>3. S!Entering(c, i, v) = c
    BY <1>2, <1>4
  <2>4. QED
    BY <2>2, <2>3 DEF Entered
<1>5. CASE ~(v <= c[TopN].value)
  <2>0. TopN \in beaten
    BY <1>1, <1>3, <1>5
  <2>1. a \in beaten /\ \A k \in beaten : a <= k
    BY <1>1, <2>0, FirstBeaten
  <2>2. a \in 1..TopN /\ v > c[a].value
    BY <2>1
  <2>3. ASSUME NEW k \in 1..(a - 1) PROVE v <= c[k].value
    <3>1. k \in 1..TopN /\ ~(a <= k)
      BY <1>1, <2>2
    <3>2. ~(v > c[k].value)
      BY <2>1, <3>1
    <3>3. QED
      BY <1>3, <3>1, <3>2
  <2> HIDE DEF beaten, a
  <2>4. Listed(c, TopN) /\ a \in 1..(TopN + 1) /\ TopN <= TopN + 1 /\ TopN \in Nat
    BY <1>1, <2>2 DEF Listed
  <2>5. S!Entering(c, i, v) = Displacing(c, TopN, a, x)
    BY Zenon, <1>2, <1>5, <2>4, Displaced
  <2>6. QED
    BY Zenon, <1>1, <2>2, <2>3, <2>5, DisplacedTakesPlace DEF x
<1>6. QED
  BY <1>4, <1>5

FirstTokens == [k \in 1..TopN |-> [id |-> S!NoToken, value |-> S!Least]]

LEMMA BestSearches ==
  ASSUME NEW n \in Nat, NEW row \in [1..n -> Int]
  PROVE  \E r : SearchedBy(r, row, n, TopN, FirstTokens) /\ S!Best(row) = r[n]
<1> DEFINE A == {c \in [1..TopN -> Choice] : Descends(c, TopN)}
           at == [i \in DOMAIN row |-> i]
           f == [i \in 1..n |-> [c \in A |-> S!Entering(c, i - 1, row[i])]]
           G(g) == g = [s \in SUBSET DOMAIN at |->
                          IF s = {} THEN FirstTokens
                          ELSE S!Entering(g[s \ {Max(s)}], at[Max(s)] - 1, row[at[Max(s)]])]
           g == CHOOSE g : G(g)
<1>1. DOMAIN at = 1..n /\ \A i \in 1..n : at[i] = i
  OBVIOUS
<1>2. \A c \in A : \A i \in 1..n : /\ Entered(c, S!Entering(c, i - 1, row[i]), TopN, i - 1, row[i])
                                   /\ S!Entering(c, i - 1, row[i]) \in A
  <2>1. ASSUME NEW c \in A, NEW i \in 1..n
        PROVE  /\ Entered(c, S!Entering(c, i - 1, row[i]), TopN, i - 1, row[i])
               /\ S!Entering(c, i - 1, row[i]) \in A
    <3>1. i - 1 \in Int /\ row[i] \in Int /\ c \in [1..TopN -> Choice] /\ Descends(c, TopN)
      OBVIOUS
    <3>2. Entered(c, S!Entering(c, i - 1, row[i]), TopN, i - 1, row[i])
      BY Zenon, <3>1, EnteringEnters
    <3>3. S!Entering(c, i - 1, row[i]) \in A
      BY Zenon, <3>1, <3>2, EnteredDescends, VocabIs
    <3>4. QED
      BY <3>2, <3>3
  <2>2. QED
    BY Zenon, <2>1
<1>3. FirstTokens \in A
  BY Least1000 DEF FirstTokens, Choice, Descends, S!NoToken
<1>4. f \in Turns(n, A)
  BY Zenon, <1>2 DEF Turns
<1>5. \A i \in 1..n : \A c \in A : f[i][c] = S!Entering(c, i - 1, row[i])
  BY Zenon
<1>6. S!Best(row) = g[DOMAIN at]
  BY Zenon DEF S!Best, S!FoldLeftDomain, S!FoldLeft, S!MapThenFoldSet, S!Max, Max, FirstTokens
<1>17. \A c \in A : c \in [1..TopN -> Choice]
  OBVIOUS
<1> HIDE DEF f, at, A
<1>7. \E h : G(h)
  <2>1. PICK h : Iterates(h, f, FirstTokens, n, A)
    BY Zenon, <1>3, <1>4, IterationExists
  <2>2. ASSUME NEW s \in SUBSET (1..n)
        PROVE  h[s] = IF s = {} THEN FirstTokens
                      ELSE S!Entering(h[s \ {Max(s)}], at[Max(s)] - 1, row[at[Max(s)]])
    BY Zenon, <1>1, <1>5, <2>1 DEF Iterates
  <2>3. h = [s \in SUBSET (1..n) |-> h[s]]
    BY Zenon, <2>1 DEF Iterates
  <2>4. G(h)
    BY Zenon, <1>1, <2>2, <2>3
  <2>5. QED
    BY Zenon, <2>4
<1>8. G(g)
  BY Zenon, <1>7
<1> HIDE DEF g
<1>9. GoesBy(g, f, FirstTokens, n, A)
  <2>1. ASSUME NEW s \in SUBSET (1..n)
        PROVE  /\ s = {} => g[s] = FirstTokens
               /\ s # {} /\ g[s \ {Max(s)}] \in A => g[s] = f[Max(s)][g[s \ {Max(s)}]]
    <3>1. g[s] = IF s = {} THEN FirstTokens
                 ELSE S!Entering(g[s \ {Max(s)}], at[Max(s)] - 1, row[at[Max(s)]])
      BY Zenon, <1>1, <1>8
    <3>2. s # {} => Max(s) \in 1..n
      BY MaxIn
    <3>3. QED
      BY Zenon, <1>1, <1>5, <3>1, <3>2
  <2>2. QED
    BY Zenon, <2>1 DEF GoesBy
<1>10. PICK r : RunsTo(r, f, FirstTokens, n, A, g[1..n])
  BY Zenon, <1>3, <1>4, <1>9, FoldGoes
<1>11. r \in [0..n -> A] /\ r[0] = FirstTokens /\ r[n] = S!Best(row)
       /\ \A k \in 1..n : r[k] = f[k][r[k - 1]]
  BY Zenon, <1>1, <1>6, <1>10 DEF RunsTo, Runs
<1>12. \A k \in 1..n : Entered(r[k - 1], r[k], TopN, k - 1, row[k])
  <2>1. ASSUME NEW k \in 1..n PROVE Entered(r[k - 1], r[k], TopN, k - 1, row[k])
    <3>1. k - 1 \in 0..n
      OBVIOUS
    <3>2. r[k - 1] \in A
      BY Zenon, <1>11, <3>1
    <3>3. QED
      BY Zenon, <1>2, <1>5, <1>11, <3>2
  <2>2. QED
    BY Zenon, <2>1
<1>13. FirstTokens = [k \in 1..TopN |-> FirstTokens[k]]
  BY DEF FirstTokens
<1>14. r \in [0..n -> [1..TopN -> Choice]]
  <2>1. \A k \in 0..n : r[k] \in [1..TopN -> Choice]
    BY Zenon, <1>11, <1>17
  <2>2. r = [k \in 0..n |-> r[k]]
    BY Zenon, <1>11
  <2>3. QED
    BY Zenon, <2>1, <2>2
<1>15. SearchedBy(r, row, n, TopN, FirstTokens)
  BY Zenon, <1>11, <1>12, <1>13, <1>14 DEF SearchedBy
<1>16. QED
  BY Zenon, <1>11, <1>15

(* A slot's best tokens, best first. *)
TopIds(row) == [k \in 1..TopN |-> S!Best(row)[k].id]

TopTokens(row) == {v \in S!Vocab : S!Cardinality(S!Before(row, v)) < TopN}

Topmost(row) ==
  /\ TopIds(row) \in [1..TopN -> S!Vocab]
  /\ \A k \in 1..TopN :
       (CHOOSE v \in TopTokens(row) : S!Cardinality(S!Before(row, v)) = k - 1) = TopIds(row)[k]
  /\ \A v : v \in TopTokens(row) <=> \E k \in 1..TopN : TopIds(row)[k] = v

LEMMA BestTokens ==
  ASSUME NEW row \in SlotLogits
  PROVE  Topmost(row)
<1>1. PICK n \in Nat \ {0} : n = VocabSize
  BY VocabIs
<1>2. PICK least \in Int : least = -1000
  BY Least1000
<1>3. LogitsAbove(row, n, least) /\ TopN <= n /\ TopN \in Nat \ {0}
  BY <1>1, <1>2, VocabIs
<1>4. row \in [1..n -> Int]
  BY <1>3 DEF LogitsAbove
<1>5. PICK r : SearchedBy(r, row, n, TopN, FirstTokens) /\ S!Best(row) = r[n]
  BY <1>4, BestSearches
<1>6. FirstTokens \in [1..TopN -> Choice] /\ \A k \in 1..TopN : FirstTokens[k].value = -1000
  BY Least1000 DEF FirstTokens, Choice, S!NoToken
<1>7. Ranked(r[n], row, n, TopN, -1000)
  BY <1>2, <1>3, <1>5, <1>6, SearchRanks
<1> DEFINE c == r[n]
           best == TopIds(row)
           N == 0..(n - 1)
           T == TopTokens(row)
<1>8. Ranked(c, row, n, TopN, least)
  BY Zenon, <1>2, <1>7
<1>9. best = [k \in 1..TopN |-> c[k].id]
  BY Zenon, <1>5 DEF TopIds
<1> HIDE DEF c, best
<1>10. \A k \in 1..TopN : best[k] = c[k].id
  BY Zenon, <1>9
<1>11. \A k \in 1..TopN : best[k] \in N /\ Cardinality(AheadOf(row, n, best[k])) = k - 1
  <2>1. ASSUME NEW k \in 1..TopN
        PROVE  c[k].id \in N /\ Cardinality(AheadOf(row, n, c[k].id)) = k - 1
    BY <1>3, <1>8, RankIs
  <2>2. QED
    BY Zenon, <1>10, <2>1
<1>12. \A k \in 1..TopN : \A e \in N : Cardinality(AheadOf(row, n, e)) = k - 1 => e = best[k]
  <2>1. ASSUME NEW k \in 1..TopN, NEW e \in N, Cardinality(AheadOf(row, n, e)) = k - 1
        PROVE  e = c[k].id
    BY <1>3, <1>8, <2>1, RankChosen
  <2>2. QED
    BY Zenon, <1>10, <2>1
<1>13. S!Vocab = N
  BY <1>1, VocabIs
<1>14. \A v \in N : S!Cardinality(S!Before(row, v)) = Cardinality(AheadOf(row, n, v))
  <2>1. ASSUME NEW v \in N PROVE S!Before(row, v) = AheadOf(row, n, v)
    BY <1>13 DEF S!Before, AheadOf, Ahead
  <2>2. \A A : S!Cardinality(A) = Cardinality(A)
    BY DEF S!Cardinality, Cardinality
  <2>3. QED
    BY Zenon, <2>1, <2>2
<1>15. \A v : v \in T <=> v \in N /\ Cardinality(AheadOf(row, n, v)) < TopN
  BY Zenon, <1>13, <1>14 DEF TopTokens
<1> HIDE DEF N, T
<1>16. \A k \in 1..TopN : best[k] \in T
  <2>1. ASSUME NEW k \in 1..TopN PROVE best[k] \in T
    <3>1. k - 1 < TopN
      BY <1>3
    <3>2. QED
      BY Zenon, <1>11, <1>15, <3>1
  <2>2. QED
    BY <2>1
<1>17. ASSUME NEW v \in T PROVE \E k \in 1..TopN : best[k] = v
  <2>1. v \in N /\ Cardinality(AheadOf(row, n, v)) < TopN
    BY Zenon, <1>15
  <2>2. PICK a \in Nat : a = Cardinality(AheadOf(row, n, v))
    BY Zenon, FiniteAhead, FS_CardinalityType
  <2>3. a + 1 \in 1..TopN /\ (a + 1) - 1 = a
    BY <1>3, <2>1, <2>2
  <2>4. QED
    BY Zenon, <1>12, <2>1, <2>2, <2>3
<1>18. ASSUME NEW k \in 1..TopN
       PROVE  (CHOOSE v \in T : S!Cardinality(S!Before(row, v)) = k - 1) = best[k]
  <2>1. best[k] \in T /\ S!Cardinality(S!Before(row, best[k])) = k - 1
    BY Zenon, <1>11, <1>14, <1>16
  <2>2. \A v \in T : S!Cardinality(S!Before(row, v)) = k - 1 => v = best[k]
    BY Zenon, <1>12, <1>14, <1>15
  <2>3. QED
    BY Zenon, <2>1, <2>2
<1>19. best \in [1..TopN -> S!Vocab]
  <2>1. \A k \in 1..TopN : c[k].id \in S!Vocab
    BY Zenon, <1>10, <1>11, <1>13
  <2>2. QED
    BY Zenon, <1>9, <2>1
<1>20. QED
  BY Zenon, <1>16, <1>17, <1>18, <1>19 DEF Topmost, best, T

-----------------------------------------------------------------------------
(* The labels asked for: the smallest of them, rising, as many as are kept. *)

KeptLists ==
  {ids \in Seq(Int) : /\ Len(ids) <= MostLabels
                      /\ \A k, l \in 1..Len(ids) : k < l => ids[k] < ids[l]}

Smallest(ids, A) ==
  /\ ids \in KeptLists /\ \A k \in 1..Len(ids) : ids[k] \in A
  /\ \A a \in A : \/ \E k \in 1..Len(ids) : ids[k] = a
                  \/ Len(ids) = MostLabels /\ ids[MostLabels] < a

(* An identifier among those kept, or put after the a smaller ones. *)
PutAfter(ids, d, id, n, a, p) ==
  /\ \A k \in 1..a : ids[k] < id
  /\ \A k \in (a + 1)..n : id < ids[k]
  /\ d = Displacing(ids, p, a + 1, id)

Joins(ids, d, id, n) ==
  \/ d = ids /\ \E k \in 1..n : ids[k] = id
  \/ \E a \in 0..n : PutAfter(ids, d, id, n, a, IF n < MostLabels THEN n + 1 ELSE MostLabels)

LEMMA KeptIs ==
  ASSUME NEW ids \in KeptLists
  PROVE  /\ ids \in Seq(Int) /\ Len(ids) \in Nat /\ Len(ids) <= MostLabels /\ MostLabels \in Nat \ {0}
         /\ Listed(ids, Len(ids)) /\ DOMAIN ids = 1..Len(ids)
         /\ \A k \in 1..Len(ids) : ids[k] \in Int
         /\ \A k, l \in 1..Len(ids) : k < l => ids[k] < ids[l]
<1>1. ids \in Seq(Int) /\ Len(ids) <= MostLabels /\ MostLabels \in Nat \ {0}
      /\ \A k, l \in 1..Len(ids) : k < l => ids[k] < ids[l]
  BY ScoresAssumption DEF KeptLists
<1>2. Len(ids) \in Nat /\ Listed(ids, Len(ids)) /\ DOMAIN ids = 1..Len(ids)
  BY Zenon, <1>1, SeqListed
<1>3. \A k \in 1..Len(ids) : ids[k] \in Int
  BY <1>1
<1>4. QED
  BY <1>1, <1>2, <1>3

LEMMA CutIs ==
  ASSUME NEW ids \in KeptLists, NEW id \in Int
  PROVE  \E a \in 0..Len(ids) : /\ {k \in DOMAIN ids : ids[k] < id} = 1..a
                                /\ S!Cardinality({k \in DOMAIN ids : ids[k] < id}) = a
<1>1. PICK n \in Nat : n = Len(ids)
  BY KeptIs
<1>2. /\ DOMAIN ids = 1..n /\ \A k \in 1..n : ids[k] \in Int
      /\ \A k, l \in 1..n : k < l => ids[k] < ids[l]
  BY <1>1, KeptIs
<1> DEFINE T == {k \in 1..n : ids[k] < id}
<1>3. \E a \in 0..n : T = 1..a
  <2>1. CASE T = {}
    <3>1. 0 \in 0..n /\ 1..0 = {}
      OBVIOUS
    <3>2. QED
      BY <2>1, <3>1
  <2>2. CASE T # {}
    <3> DEFINE a == Max(T)
    <3>1. a \in T /\ \A v \in T : v <= a
      <4>1. T \subseteq 1..n
        OBVIOUS
      <4> HIDE DEF T
      <4>2. QED
        BY <2>2, <4>1, MaxIn
    <3> HIDE DEF a
    <3>2. a \in 1..n /\ ids[a] < id
      BY <3>1
    <3>3. ASSUME NEW k \in 1..a PROVE k \in T
      <4>1. k \in 1..n /\ (k = a \/ k < a)
        BY <3>2
      <4>2. ids[k] <= ids[a]
        BY <1>2, <3>2, <4>1
      <4>3. QED
        BY <1>2, <3>2, <4>1, <4>2
    <3>4. \A k \in T : k \in 1..a
      BY <3>1
    <3>5. T = 1..a /\ a \in 0..n
      BY <3>2, <3>3, <3>4
    <3>6. QED
      BY <3>5
  <2>3. QED
    BY <2>1, <2>2
<1>4. PICK a \in 0..n : T = 1..a
  BY <1>3
<1>5. Cardinality(1..a) = a
  <2>1. 1 \in Int /\ a \in Int
    OBVIOUS
  <2>2. Cardinality(1..a) = IF 1 > a THEN 0 ELSE a - 1 + 1
    BY <2>1, FS_Interval
  <2>3. QED
    BY <2>2
<1>6. \A A : S!Cardinality(A) = Cardinality(A)
  BY DEF S!Cardinality, Cardinality
<1>7. {k \in DOMAIN ids : ids[k] < id} = T
  BY <1>2
<1> HIDE DEF T
<1>8. QED
  BY Zenon, <1>1, <1>4, <1>5, <1>6, <1>7

LEMMA WithJoins ==
  ASSUME NEW ids \in KeptLists, NEW id \in Int
  PROVE  Joins(ids, S!With(ids, id), id, Len(ids))
<1>1. PICK n \in Nat : n = Len(ids)
  BY KeptIs
<1>2. /\ Listed(ids, n) /\ DOMAIN ids = 1..n /\ n <= MostLabels /\ MostLabels \in Nat \ {0}
      /\ \A k \in 1..n : ids[k] \in Int
      /\ \A k, l \in 1..n : k < l => ids[k] < ids[l]
  BY <1>1, KeptIs
<1>3. PICK a \in 0..n : /\ {k \in DOMAIN ids : ids[k] < id} = 1..a
                        /\ S!Cardinality({k \in DOMAIN ids : ids[k] < id}) = a
  BY Zenon, <1>1, CutIs
<1> DEFINE b == a + 1
           p == S!Min({n + 1, MostLabels})
<1>4. S!With(ids, id) = IF b <= n /\ ids[b] = id THEN ids
                        ELSE SubSeq(SubSeq(ids, 1, b - 1) \o <<id>> \o SubSeq(ids, b, Len(ids)), 1, p)
  BY Zenon, <1>1, <1>3 DEF S!With, S!InsertAt
<1>5. p = IF n < MostLabels THEN n + 1 ELSE MostLabels
  <2> DEFINE d == IF n < MostLabels THEN n + 1 ELSE MostLabels
             D == {n + 1, MostLabels}
  <2>1. d \in D /\ \A v \in D : d <= v
    BY <1>2
  <2>2. \A x \in D : (\A v \in D : x <= v) => x = d
    BY <1>2
  <2> HIDE DEF d, D
  <2>3. S!Min(D) = d
    BY Zenon, <2>1, <2>2 DEF S!Min
  <2>4. QED
    BY Zenon, <2>3 DEF D, d
<1>6. p \in Nat /\ p <= n + 1
  BY <1>2, <1>5
<1> HIDE DEF p
<1>7. CASE b <= n /\ ids[b] = id
  <2>1. b \in 1..n
    BY <1>7
  <2>2. S!With(ids, id) = ids
    BY Zenon, <1>4, <1>7
  <2>3. QED
    BY Zenon, <1>1, <1>7, <2>1, <2>2 DEF Joins
<1>8. CASE ~(b <= n /\ ids[b] = id)
  <2>1. b \in 1..(n + 1)
    OBVIOUS
  <2>2. S!With(ids, id) = SubSeq(SubSeq(ids, 1, b - 1) \o <<id>> \o SubSeq(ids, b, Len(ids)), 1, p)
    BY Zenon, <1>4, <1>8
  <2>3. S!With(ids, id) = Displacing(ids, p, b, id)
    <3>1. n \in Nat /\ p \in Nat /\ p <= n + 1 /\ Listed(ids, n) /\ b \in 1..(n + 1)
      BY <1>2, <1>6, <2>1
    <3> HIDE DEF b
    <3>2. SubSeq(SubSeq(ids, 1, b - 1) \o <<id>> \o SubSeq(ids, b, Len(ids)), 1, p)
            = Displacing(ids, p, b, id)
      BY Zenon, <3>1, Displaced
    <3>3. QED
      BY Zenon, <2>2, <3>2
  <2>4. \A k \in 1..a : ids[k] < id
    BY <1>3
  <2>5. ASSUME NEW k \in b..n PROVE id < ids[k]
    <3>1. b \in 1..n /\ k \in 1..n /\ (k = b \/ b < k)
      OBVIOUS
    <3>2. b \notin 1..a
      OBVIOUS
    <3>3. ~(ids[b] < id)
      BY <1>2, <1>3, <3>1, <3>2
    <3>4. id < ids[b]
      BY <1>2, <1>8, <3>1, <3>3
    <3>5. QED
      BY <1>2, <3>1, <3>4
  <2>6. PutAfter(ids, S!With(ids, id), id, n, a, p)
    BY Zenon, <2>3, <2>4, <2>5 DEF PutAfter
  <2>7. QED
    BY Zenon, <1>1, <1>5, <2>6 DEF Joins
<1>9. QED
  BY <1>7, <1>8

LEMMA PutIs ==
  ASSUME NEW ids \in KeptLists, NEW id \in Int, NEW n \in Nat, n = Len(ids), NEW a \in 0..n, NEW d,
         NEW p \in Nat, p = IF n < MostLabels THEN n + 1 ELSE MostLabels,
         PutAfter(ids, d, id, n, a, p)
  PROVE  /\ d \in KeptLists /\ Len(d) = p
         /\ \A k \in 1..p : d[k] = IF k <= a THEN ids[k] ELSE IF k = a + 1 THEN id ELSE ids[k - 1]
<1>1. /\ n <= MostLabels /\ MostLabels \in Nat \ {0} /\ \A k \in 1..n : ids[k] \in Int
      /\ \A k, l \in 1..n : k < l => ids[k] < ids[l]
  BY KeptIs
<1>2. /\ \A k \in 1..a : ids[k] < id
      /\ \A k \in (a + 1)..n : id < ids[k]
      /\ d = [k \in 1..p |-> IF k < a + 1 THEN ids[k] ELSE IF k = a + 1 THEN id ELSE ids[k - 1]]
  BY DEF PutAfter, Displacing
<1>3. p <= n + 1 /\ p <= MostLabels
  BY <1>1
<1>4. \A k \in 1..p : d[k] = IF k <= a THEN ids[k] ELSE IF k = a + 1 THEN id ELSE ids[k - 1]
  BY <1>2
<1>5. ASSUME NEW k \in 1..p
      PROVE  /\ k <= a => k \in 1..n /\ k \in 1..a /\ d[k] = ids[k]
             /\ k = a + 1 => d[k] = id
             /\ k > a + 1 => k - 1 \in 1..n /\ k - 1 \in (a + 1)..n /\ d[k] = ids[k - 1]
             /\ d[k] \in Int
  <2>1. CASE k <= a
    BY <1>1, <1>4, <2>1
  <2>2. CASE k = a + 1
    BY <1>4, <2>2
  <2>3. CASE k > a + 1
    <3>1. k - 1 \in 1..n /\ k - 1 \in (a + 1)..n
      BY <1>3, <2>3
    <3>2. QED
      BY <1>1, <1>4, <2>3, <3>1
  <2>4. QED
    BY <2>1, <2>2, <2>3
<1>6. d \in [1..p -> Int]
  <2>1. d = [k \in 1..p |-> d[k]]
    BY <1>2
  <2>2. QED
    BY Zenon, <1>5, <2>1
<1>7. d \in Seq(Int) /\ Len(d) = p
  BY <1>6
<1>8. ASSUME NEW k \in 1..p, NEW l \in 1..p, k < l PROVE d[k] < d[l]
  <2>1. CASE l <= a
    <3>1. k <= a
      BY <1>8, <2>1
    <3>2. QED
      BY <1>1, <1>5, <1>8, <2>1, <3>1
  <2>2. CASE l = a + 1
    <3>1. k <= a
      BY <1>8, <2>2
    <3>2. QED
      BY <1>2, <1>5, <2>2, <3>1
  <2>3. CASE l > a + 1
    <3>1. l - 1 \in 1..n /\ l - 1 \in (a + 1)..n /\ d[l] = ids[l - 1]
      BY <1>5, <2>3
    <3>2. CASE k <= a
      <4>1. k \in 1..n /\ d[k] = ids[k] /\ k < l - 1
        BY <1>5, <2>3, <3>2
      <4>2. QED
        BY <1>1, <3>1, <4>1
    <3>3. CASE k = a + 1
      BY <1>2, <1>5, <3>1, <3>3
    <3>4. CASE k > a + 1
      <4>1. k - 1 \in 1..n /\ d[k] = ids[k - 1] /\ k - 1 < l - 1
        BY <1>5, <1>8, <3>4
      <4>2. QED
        BY <1>1, <3>1, <4>1
    <3>5. QED
      BY <3>2, <3>3, <3>4
  <2>4. QED
    BY <2>1, <2>2, <2>3
<1>9. d \in KeptLists
  BY <1>3, <1>7, <1>8 DEF KeptLists
<1>10. QED
  BY <1>4, <1>7, <1>9

LEMMA PutSmallest ==
  ASSUME NEW A, A \subseteq Int, NEW ids, Smallest(ids, A), NEW id \in Int, NEW n \in Nat, n = Len(ids),
         NEW a \in 0..n, NEW d, NEW p \in Nat, p = IF n < MostLabels THEN n + 1 ELSE MostLabels,
         PutAfter(ids, d, id, n, a, p)
  PROVE  Smallest(d, A \cup {id})
<1>1. /\ ids \in KeptLists /\ \A k \in 1..n : ids[k] \in A
      /\ \A b \in A : (\E k \in 1..n : ids[k] = b) \/ (n = MostLabels /\ ids[MostLabels] < b)
  BY DEF Smallest
<1>2. /\ n <= MostLabels /\ MostLabels \in Nat \ {0} /\ \A k \in 1..n : ids[k] \in Int
      /\ \A k, l \in 1..n : k < l => ids[k] < ids[l]
  BY <1>1, KeptIs
<1>3. /\ d \in KeptLists /\ Len(d) = p
      /\ \A k \in 1..p : d[k] = IF k <= a THEN ids[k] ELSE IF k = a + 1 THEN id ELSE ids[k - 1]
  BY <1>1, PutIs
<1>4. /\ \A k \in 1..a : ids[k] < id
      /\ \A k \in (a + 1)..n : id < ids[k]
  BY DEF PutAfter
<1>5. ASSUME NEW k \in 1..p PROVE d[k] \in A \cup {id}
  <2>1. CASE k <= a
    <3>1. k \in 1..n /\ d[k] = ids[k]
      BY <1>3, <2>1
    <3>2. QED
      BY <1>1, <3>1
  <2>2. CASE k = a + 1
    BY <1>3, <2>2
  <2>3. CASE k > a + 1
    <3>1. k - 1 \in 1..n /\ d[k] = ids[k - 1]
      BY <1>2, <1>3, <2>3
    <3>2. QED
      BY <1>1, <3>1
  <2>4. QED
    BY <2>1, <2>2, <2>3
<1> DEFINE In(b) == (\E k \in 1..p : d[k] = b) \/ (p = MostLabels /\ d[MostLabels] < b)
<1>6. In(id)
  <2>1. CASE a + 1 <= p
    <3>1. a + 1 \in 1..p /\ d[a + 1] = id
      BY <1>3, <2>1
    <3>2. QED
      BY <3>1
  <2>2. CASE a + 1 > p
    <3>1. p = MostLabels /\ a = p /\ p \in 1..p /\ p \in 1..a
      BY <1>2, <2>2
    <3>2. d[p] = ids[p] /\ ids[p] < id
      BY <1>3, <1>4, <3>1
    <3>3. QED
      BY <3>1, <3>2
  <2>3. QED
    BY <2>1, <2>2
(* When there is no room for more, the last is no greater than it was. *)
<1>7. n = MostLabels => p = MostLabels /\ d[MostLabels] <= ids[MostLabels]
                        /\ (a < MostLabels => d[MostLabels] < ids[MostLabels])
  <2>1. SUFFICES ASSUME n = MostLabels PROVE p = MostLabels /\ d[MostLabels] <= ids[MostLabels]
                        /\ (a < MostLabels => d[MostLabels] < ids[MostLabels])
    OBVIOUS
  <2>2. p = MostLabels /\ p \in 1..p /\ p \in 1..n /\ p = n
    BY <1>2, <2>1
  <2>3. CASE p <= a
    <3>1. d[p] = ids[p] /\ ids[p] \in Int
      BY <1>2, <1>3, <2>2, <2>3
    <3>2. QED
      BY <2>2, <2>3, <3>1
  <2>4. CASE p = a + 1
    <3>1. d[p] = id /\ p \in (a + 1)..n
      BY <1>3, <2>2, <2>4
    <3>2. id < ids[p] /\ ids[p] \in Int
      BY <1>2, <1>4, <2>2, <3>1
    <3>3. QED
      BY <2>2, <3>1, <3>2
  <2>5. CASE p > a + 1
    <3>1. d[p] = ids[p - 1] /\ p - 1 \in 1..n /\ p - 1 < p
      BY <1>3, <2>2, <2>5
    <3>2. ids[p - 1] < ids[p] /\ ids[p] \in Int /\ ids[p - 1] \in Int
      BY <1>2, <2>2, <3>1
    <3>3. QED
      BY <2>2, <3>1, <3>2
  <2>6. QED
    BY <2>2, <2>3, <2>4, <2>5
<1>8. ASSUME NEW j \in 1..n PROVE In(ids[j])
  <2>1. CASE j <= a
    <3>1. CASE j <= p
      BY <1>3, <2>1, <3>1
    <3>2. CASE j > p
      BY <1>2, <3>2
    <3>3. QED
      BY <3>1, <3>2
  <2>2. CASE j > a
    <3>1. CASE j + 1 <= p
      <4>1. j + 1 \in 1..p /\ ~(j + 1 <= a) /\ j + 1 # a + 1 /\ (j + 1) - 1 = j
        BY <2>2, <3>1
      <4>2. d[j + 1] = ids[j]
        BY <1>3, <4>1
      <4>3. QED
        BY <4>1, <4>2
    <3>2. CASE j + 1 > p
      <4>1. j = MostLabels /\ n = MostLabels /\ a < MostLabels
        BY <1>2, <2>2, <3>2
      <4>2. QED
        BY <1>7, <4>1
    <3>3. QED
      BY <3>1, <3>2
  <2>3. QED
    BY <2>1, <2>2
<1>9. ASSUME NEW b \in A PROVE In(b)
  <2>1. CASE \E k \in 1..n : ids[k] = b
    BY <1>8, <2>1
  <2>2. CASE n = MostLabels /\ ids[MostLabels] < b
    <3>1. p = MostLabels /\ d[MostLabels] <= ids[MostLabels] /\ MostLabels \in 1..n
      BY <1>2, <1>7, <2>2
    <3>2. ids[MostLabels] \in Int /\ b \in Int
      BY <1>2, <3>1
    <3>4. d[MostLabels] \in Int
      BY <1>3, <3>1, KeptIs
    <3>3. QED
      BY <2>2, <3>1, <3>2, <3>4
  <2>3. QED
    BY <1>1, <2>1, <2>2
<1>10. QED
  BY <1>3, <1>5, <1>6, <1>9 DEF Smallest

LEMMA WithSmallest ==
  ASSUME NEW ids \in KeptLists, NEW id \in Int
  PROVE  /\ S!With(ids, id) \in KeptLists
         /\ \A A : A \subseteq Int /\ Smallest(ids, A) => Smallest(S!With(ids, id), A \cup {id})
<1> DEFINE d == S!With(ids, id)
           n == Len(ids)
           p == IF n < MostLabels THEN n + 1 ELSE MostLabels
<1>1. n \in Nat /\ n <= MostLabels /\ MostLabels \in Nat \ {0}
  BY KeptIs
<1>2. p \in Nat
  BY <1>1
<1>3. Joins(ids, d, id, n)
  BY Zenon, WithJoins
<1> HIDE DEF d
<1>4. CASE d = ids /\ \E k \in 1..n : ids[k] = id
  <2>1. ASSUME NEW A, Smallest(ids, A) PROVE Smallest(d, A \cup {id})
    <3>1. A \cup {id} = A
      BY <1>4, <2>1 DEF Smallest
    <3>2. QED
      BY Zenon, <1>4, <2>1, <3>1
  <2>2. QED
    BY Zenon, <1>4, <2>1 DEF d
<1>5. CASE \E a \in 0..n : PutAfter(ids, d, id, n, a, p)
  <2>1. PICK a \in 0..n : PutAfter(ids, d, id, n, a, p)
    BY <1>5
  <2>2. PICK m \in Nat, q \in Nat : m = n /\ q = p
    BY <1>1, <1>2
  <2>3. /\ a \in 0..m /\ PutAfter(ids, d, id, m, a, q) /\ m = Len(ids)
        /\ q = IF m < MostLabels THEN m + 1 ELSE MostLabels
    BY <2>1, <2>2
  <2>4. d \in KeptLists
    BY Zenon, <2>3, PutIs
  <2>5. ASSUME NEW A, A \subseteq Int, Smallest(ids, A) PROVE Smallest(d, A \cup {id})
    BY Zenon, <2>3, <2>5, PutSmallest
  <2>6. QED
    BY Zenon, <2>4, <2>5 DEF d
<1>6. QED
  BY Zenon, <1>3, <1>4, <1>5 DEF Joins

(* The labels of one slot are put one after another. *)
MergedBy(r, ids, labels, n) ==
  /\ r \in [0..n -> KeptLists] /\ r[0] = ids
  /\ \A i \in 1..n : r[i] = S!With(r[i - 1], labels[i])
  /\ S!Merged(ids, labels) = r[n]

LEMMA MergedRuns ==
  ASSUME NEW n \in Nat, NEW labels \in [1..n -> Int], NEW ids \in KeptLists
  PROVE  \E r : MergedBy(r, ids, labels, n)
<1> DEFINE f == [i \in 1..n |-> [w \in KeptLists |-> S!With(w, labels[i])]]
           G(g) == g = [t \in SUBSET DOMAIN labels |->
                          IF t = {} THEN ids ELSE S!With(g[t \ {Max(t)}], labels[Max(t)])]
           g == CHOOSE g : G(g)
<1>1. DOMAIN labels = 1..n /\ \A i \in 1..n : labels[i] \in Int
  OBVIOUS
<1>2. f \in Turns(n, KeptLists)
  <2>1. \A w \in KeptLists : \A i \in 1..n : S!With(w, labels[i]) \in KeptLists
    BY Zenon, <1>1, WithSmallest
  <2>2. QED
    BY Zenon, <2>1 DEF Turns
<1>3. \A i \in 1..n : \A w \in KeptLists : f[i][w] = S!With(w, labels[i])
  BY Zenon
<1>4. S!Merged(ids, labels) = g[DOMAIN labels]
  BY Zenon DEF S!Merged, S!FoldLeft, S!MapThenFoldSet, S!Max, Max
<1> HIDE DEF f
<1>5. \E h : G(h)
  <2>1. PICK h : Iterates(h, f, ids, n, KeptLists)
    BY Zenon, <1>2, IterationExists
  <2>2. ASSUME NEW t \in SUBSET (1..n)
        PROVE  h[t] = IF t = {} THEN ids ELSE S!With(h[t \ {Max(t)}], labels[Max(t)])
    BY Zenon, <1>3, <2>1 DEF Iterates
  <2>3. h = [t \in SUBSET (1..n) |-> h[t]]
    BY Zenon, <2>1 DEF Iterates
  <2>4. G(h)
    BY Zenon, <1>1, <2>2, <2>3
  <2>5. QED
    BY Zenon, <2>4
<1>6. G(g)
  BY Zenon, <1>5
<1> HIDE DEF g
<1>7. GoesBy(g, f, ids, n, KeptLists)
  <2>1. ASSUME NEW t \in SUBSET (1..n)
        PROVE  /\ t = {} => g[t] = ids
               /\ t # {} /\ g[t \ {Max(t)}] \in KeptLists => g[t] = f[Max(t)][g[t \ {Max(t)}]]
    <3>1. g[t] = IF t = {} THEN ids ELSE S!With(g[t \ {Max(t)}], labels[Max(t)])
      BY Zenon, <1>1, <1>6
    <3>2. t # {} => Max(t) \in 1..n
      BY MaxIn
    <3>3. QED
      BY Zenon, <1>3, <3>1, <3>2
  <2>2. QED
    BY Zenon, <2>1 DEF GoesBy
<1>8. PICK r : RunsTo(r, f, ids, n, KeptLists, g[1..n])
  BY Zenon, <1>2, <1>7, FoldGoes
<1>9. r \in [0..n -> KeptLists] /\ r[0] = ids /\ r[n] = S!Merged(ids, labels)
      /\ \A k \in 1..n : r[k] = f[k][r[k - 1]]
  BY Zenon, <1>1, <1>4, <1>8 DEF RunsTo, Runs
<1>10. \A k \in 1..n : r[k] = S!With(r[k - 1], labels[k])
  <2>1. ASSUME NEW k \in 1..n PROVE r[k] = S!With(r[k - 1], labels[k])
    <3>1. k - 1 \in 0..n
      OBVIOUS
    <3>2. r[k - 1] \in KeptLists
      BY Zenon, <1>9, <3>1
    <3>3. QED
      BY Zenon, <1>3, <1>9, <3>2
  <2>2. QED
    BY Zenon, <2>1
<1>11. QED
  BY Zenon, <1>9, <1>10 DEF MergedBy

First(labels, n) == {labels[i] : i \in 1..n}

LEMMA MergedSmallest ==
  ASSUME NEW n \in Nat, NEW labels \in [1..n -> Int], NEW ids \in KeptLists
  PROVE  /\ S!Merged(ids, labels) \in KeptLists
         /\ \A A : A \subseteq Int /\ Smallest(ids, A)
                     => Smallest(S!Merged(ids, labels), A \cup First(labels, n))
<1>1. PICK r : MergedBy(r, ids, labels, n)
  BY MergedRuns
<1>2. r \in [0..n -> KeptLists] /\ r[0] = ids /\ S!Merged(ids, labels) = r[n]
      /\ \A i \in 1..n : r[i] = S!With(r[i - 1], labels[i])
  BY <1>1 DEF MergedBy
<1>3. ASSUME NEW A, A \subseteq Int, Smallest(ids, A)
      PROVE  Smallest(r[n], A \cup First(labels, n))
  <2> DEFINE T == {j \in 0..n : Smallest(r[j], A \cup First(labels, j))}
  <2>1. 0 \in T
    <3>1. A \cup First(labels, 0) = A
      BY DEF First
    <3>2. 0 \in 0..n
      OBVIOUS
    <3>3. QED
      BY Zenon, <1>2, <1>3, <3>1, <3>2
  <2>2. ASSUME NEW j \in 0..(n - 1), j \in T PROVE j + 1 \in T
    <3>1. j + 1 \in 1..n /\ j + 1 \in 0..n /\ j \in 0..n /\ (j + 1) - 1 = j
      OBVIOUS
    <3> DEFINE B == A \cup First(labels, j)
    <3>2. Smallest(r[j], B)
      BY <2>2
    <3>3. B \subseteq Int /\ labels[j + 1] \in Int
      <4>1. labels[j + 1] \in Int /\ \A i \in 1..j : labels[i] \in Int
        BY <3>1
      <4>2. First(labels, j) \subseteq Int
        BY Zenon, <4>1 DEF First
      <4>3. QED
        BY Zenon, <1>3, <4>1, <4>2
    <3>4. A \cup First(labels, j + 1) = B \cup {labels[j + 1]}
      <4>1. 1..(j + 1) = 1..j \cup {j + 1}
        OBVIOUS
      <4>2. First(labels, j + 1) = First(labels, j) \cup {labels[j + 1]}
        BY <4>1 DEF First
      <4>3. QED
        BY <4>2
    <3> HIDE DEF B
    <3>5. r[j] \in KeptLists /\ r[j + 1] = S!With(r[j], labels[j + 1])
      BY Zenon, <1>2, <3>1
    <3>6. Smallest(r[j + 1], B \cup {labels[j + 1]})
      BY Zenon, <3>2, <3>3, <3>5, WithSmallest
    <3>7. QED
      BY Zenon, <3>1, <3>4, <3>6
  <2> HIDE DEF T
  <2>3. \A j \in 0..n : j \in T
    BY Zenon, <2>1, <2>2, InductionTo
  <2>4. n \in T
    BY <2>3
  <2>5. QED
    BY Zenon, <2>4 DEF T
<1>4. r[n] \in KeptLists
  <2>1. n \in 0..n
    OBVIOUS
  <2>2. QED
    BY Zenon, <1>2, <2>1
<1>5. QED
  BY Zenon, <1>2, <1>3, <1>4

-----------------------------------------------------------------------------
(* What the slots of a canvas ask for. *)

SlotsOf(n) == [1..n -> [row : SlotLogits, labels : LabelLists]]

AskedBy(s, n) == UNION {S!ToSet(s[t].labels) : t \in 1..n}

LEMMA LabelsAre ==
  ASSUME NEW labels \in LabelLists
  PROVE  /\ Len(labels) \in Nat /\ labels \in [1..Len(labels) -> Int] /\ DOMAIN labels = 1..Len(labels)
         /\ S!ToSet(labels) = First(labels, Len(labels)) /\ S!ToSet(labels) \subseteq S!Vocab
<1>1. labels \in Seq(S!Vocab)
  BY ScoresAssumption
<1>2. Len(labels) \in Nat /\ DOMAIN labels = 1..Len(labels) /\ Listed(labels, Len(labels))
  BY Zenon, <1>1, SeqListed
<1>3. \A i \in 1..Len(labels) : labels[i] \in S!Vocab
  BY <1>1
<1>4. S!Vocab \subseteq Int
  BY VocabIs
<1>5. labels \in [1..Len(labels) -> Int]
  <2>1. \A i \in 1..Len(labels) : labels[i] \in Int
    BY <1>3, <1>4
  <2>2. QED
    BY Zenon, <1>2, <2>1 DEF Listed
<1>6. S!ToSet(labels) = First(labels, Len(labels))
  BY Zenon, <1>2 DEF S!ToSet, First
<1>7. S!ToSet(labels) \subseteq S!Vocab
  BY Zenon, <1>3, <1>6 DEF First
<1>8. QED
  BY <1>2, <1>5, <1>6, <1>7

RequestedBy(r, s, n) ==
  /\ r \in [0..n -> KeptLists] /\ r[0] = <<>>
  /\ \A i \in 1..n : r[i] = S!Merged(r[i - 1], s[i].labels)
  /\ S!Requested(s) = r[n]

LEMMA RequestedRuns ==
  ASSUME NEW n \in Nat, NEW s \in SlotsOf(n)
  PROVE  \E r : RequestedBy(r, s, n)
<1> DEFINE f == [i \in 1..n |-> [w \in KeptLists |-> S!Merged(w, s[i].labels)]]
           G(g) == g = [t \in SUBSET DOMAIN s |->
                          IF t = {} THEN <<>> ELSE S!Merged(g[t \ {Max(t)}], s[Max(t)].labels)]
           g == CHOOSE g : G(g)
<1>1. DOMAIN s = 1..n /\ \A i \in 1..n : s[i].labels \in LabelLists
  BY DEF SlotsOf
<1>2. <<>> \in KeptLists
  BY ScoresAssumption DEF KeptLists
<1>3. f \in Turns(n, KeptLists)
  <2>1. \A w \in KeptLists : \A i \in 1..n : S!Merged(w, s[i].labels) \in KeptLists
    BY Zenon, <1>1, LabelsAre, MergedSmallest
  <2>2. QED
    BY Zenon, <2>1 DEF Turns
<1>4. \A i \in 1..n : \A w \in KeptLists : f[i][w] = S!Merged(w, s[i].labels)
  BY Zenon
<1>5. S!Requested(s) = g[DOMAIN s]
  BY Zenon DEF S!Requested, S!FoldLeft, S!MapThenFoldSet, S!Max, Max
<1> HIDE DEF f
<1>6. \E h : G(h)
  <2>1. PICK h : Iterates(h, f, <<>>, n, KeptLists)
    BY Zenon, <1>2, <1>3, IterationExists
  <2>2. ASSUME NEW t \in SUBSET (1..n)
        PROVE  h[t] = IF t = {} THEN <<>> ELSE S!Merged(h[t \ {Max(t)}], s[Max(t)].labels)
    BY Zenon, <1>4, <2>1 DEF Iterates
  <2>3. h = [t \in SUBSET (1..n) |-> h[t]]
    BY Zenon, <2>1 DEF Iterates
  <2>4. G(h)
    BY Zenon, <1>1, <2>2, <2>3
  <2>5. QED
    BY Zenon, <2>4
<1>7. G(g)
  BY Zenon, <1>6
<1> HIDE DEF g
<1>8. GoesBy(g, f, <<>>, n, KeptLists)
  <2>1. ASSUME NEW t \in SUBSET (1..n)
        PROVE  /\ t = {} => g[t] = <<>>
               /\ t # {} /\ g[t \ {Max(t)}] \in KeptLists => g[t] = f[Max(t)][g[t \ {Max(t)}]]
    <3>1. g[t] = IF t = {} THEN <<>> ELSE S!Merged(g[t \ {Max(t)}], s[Max(t)].labels)
      BY Zenon, <1>1, <1>7
    <3>2. t # {} => Max(t) \in 1..n
      BY MaxIn
    <3>3. QED
      BY Zenon, <1>4, <3>1, <3>2
  <2>2. QED
    BY Zenon, <2>1 DEF GoesBy
<1>9. PICK r : RunsTo(r, f, <<>>, n, KeptLists, g[1..n])
  BY Zenon, <1>2, <1>3, <1>8, FoldGoes
<1>10. r \in [0..n -> KeptLists] /\ r[0] = <<>> /\ r[n] = S!Requested(s)
      /\ \A k \in 1..n : r[k] = f[k][r[k - 1]]
  BY Zenon, <1>1, <1>5, <1>9 DEF RunsTo, Runs
<1>11. \A k \in 1..n : r[k] = S!Merged(r[k - 1], s[k].labels)
  <2>1. ASSUME NEW k \in 1..n PROVE r[k] = S!Merged(r[k - 1], s[k].labels)
    <3>1. k - 1 \in 0..n
      OBVIOUS
    <3>2. r[k - 1] \in KeptLists
      BY Zenon, <1>10, <3>1
    <3>3. QED
      BY Zenon, <1>4, <1>10, <3>2
  <2>2. QED
    BY Zenon, <2>1
<1>12. QED
  BY Zenon, <1>10, <1>11 DEF RequestedBy

(* Those kept of all the slots are the smallest of all they ask for. *)
LEMMA RequestedSmallest ==
  ASSUME NEW n \in Nat, NEW s \in SlotsOf(n)
  PROVE  Smallest(S!Requested(s), AskedBy(s, n))
<1>1. PICK r : RequestedBy(r, s, n)
  BY RequestedRuns
<1>2. r \in [0..n -> KeptLists] /\ r[0] = <<>> /\ S!Requested(s) = r[n]
      /\ \A i \in 1..n : r[i] = S!Merged(r[i - 1], s[i].labels)
  BY <1>1 DEF RequestedBy
<1> DEFINE T == {j \in 0..n : Smallest(r[j], AskedBy(s, j))}
<1>3. 0 \in T
  <2>1. 0 \in 0..n /\ AskedBy(s, 0) = {} /\ Len(<<>>) = 0 /\ 1..0 = {}
    BY DEF AskedBy
  <2>2. <<>> \in KeptLists
    BY Zenon, <1>2, <2>1
  <2>3. Smallest(<<>>, {})
    BY Zenon, <2>1, <2>2 DEF Smallest
  <2>4. QED
    BY Zenon, <1>2, <2>1, <2>3
<1>4. ASSUME NEW j \in 0..(n - 1), j \in T PROVE j + 1 \in T
  <2>1. j + 1 \in 1..n /\ j + 1 \in 0..n /\ j \in 0..n /\ (j + 1) - 1 = j
    OBVIOUS
  <2> DEFINE l == s[j + 1].labels
             A == AskedBy(s, j)
  <2>2. l \in LabelLists /\ \A i \in 1..j : s[i].labels \in LabelLists
    BY <2>1 DEF SlotsOf
  <2>3. A \subseteq Int
    <3>1. \A i \in 1..j : S!ToSet(s[i].labels) \subseteq S!Vocab
      BY Zenon, <2>2, LabelsAre
    <3>2. S!Vocab \subseteq Int
      BY VocabIs
    <3>3. QED
      BY <3>1, <3>2 DEF AskedBy
  <2>4. AskedBy(s, j + 1) = A \cup S!ToSet(l)
    <3>1. 1..(j + 1) = 1..j \cup {j + 1}
      OBVIOUS
    <3>2. QED
      BY <3>1 DEF AskedBy
  <2>5. Smallest(r[j], A)
    BY <1>4
  <2> HIDE DEF A, l
  <2>6. r[j] \in KeptLists /\ r[j + 1] = S!Merged(r[j], l)
    BY Zenon, <1>2, <2>1 DEF l
  <2>7. /\ Len(l) \in Nat /\ l \in [1..Len(l) -> Int] /\ S!ToSet(l) = First(l, Len(l))
    BY Zenon, <2>2, LabelsAre
  <2>8. Smallest(r[j + 1], A \cup First(l, Len(l)))
    BY Zenon, <2>3, <2>5, <2>6, <2>7, MergedSmallest
  <2>9. QED
    BY Zenon, <2>1, <2>4, <2>7, <2>8
<1> HIDE DEF T
<1>5. \A j \in 0..n : j \in T
  BY Zenon, <1>3, <1>4, InductionTo
<1>6. n \in T
  BY <1>5
<1>7. QED
  BY Zenon, <1>2, <1>6 DEF T

Under(A, v) == {o \in A : o < v}

(* Those kept are the ones with fewer below them than are kept. *)
LEMMA SmallestAre ==
  ASSUME NEW A, A \subseteq Int, IsFiniteSet(A), NEW ids, Smallest(ids, A)
  PROVE  \A v : (\E k \in 1..Len(ids) : ids[k] = v) <=> v \in A /\ Cardinality(Under(A, v)) < MostLabels
<1>1. /\ ids \in KeptLists /\ \A k \in 1..Len(ids) : ids[k] \in A
      /\ \A a \in A : (\E k \in 1..Len(ids) : ids[k] = a) \/ (Len(ids) = MostLabels /\ ids[MostLabels] < a)
  BY DEF Smallest
<1>2. PICK n \in Nat : n = Len(ids)
  BY <1>1, KeptIs
<1>3. PICK M \in Nat \ {0} : M = MostLabels
  BY <1>1, KeptIs
<1>4. /\ n <= M /\ \A k \in 1..n : ids[k] \in Int
      /\ \A k, l \in 1..n : k < l => ids[k] < ids[l]
      /\ \A k \in 1..n : ids[k] \in A
      /\ \A a \in A : (\E k \in 1..n : ids[k] = a) \/ (n = M /\ ids[M] < a)
  BY <1>1, <1>2, <1>3, KeptIs
<1>5. \A k, l \in 1..n : ids[k] = ids[l] => k = l
  <2>1. ASSUME NEW k \in 1..n, NEW l \in 1..n, ids[k] = ids[l] PROVE k = l
    <3>1. ~(k < l) /\ ~(l < k)
      BY <1>4, <2>1
    <3>2. QED
      BY <3>1
  <2>2. QED
    BY <2>1
<1>6. \A v : IsFiniteSet(Under(A, v)) /\ Cardinality(Under(A, v)) \in Nat
  <2>1. \A v : Under(A, v) \in SUBSET A
    BY DEF Under
  <2>2. QED
    BY Zenon, <2>1, FS_Subset, FS_CardinalityType
<1>7. ASSUME NEW k \in 1..n PROVE Cardinality(Under(A, ids[k])) < M
  <2> DEFINE B == Under(A, ids[k])
             f == [l \in 1..(k - 1) |-> ids[l]]
  <2>1. \A l \in 1..(k - 1) : l \in 1..n /\ ids[l] \in B
    BY <1>4 DEF Under
  <2>2. ASSUME NEW o \in B PROVE \E l \in 1..(k - 1) : ids[l] = o
    <3>1. o \in A /\ o < ids[k] /\ o \in Int /\ ids[k] \in Int
      BY <1>4 DEF Under
    <3>2. ~(n = M /\ ids[M] < o)
      <4>1. SUFFICES ASSUME n = M, ids[M] < o PROVE FALSE
        OBVIOUS
      <4>2. M \in 1..n /\ (k = M \/ k < M) /\ ids[M] \in Int
        BY <1>4, <4>1
      <4>3. ids[k] <= ids[M]
        BY <1>4, <4>2
      <4>4. QED
        BY <3>1, <4>1, <4>2, <4>3
    <3>3. PICK l \in 1..n : ids[l] = o
      BY Zenon, <1>4, <3>1, <3>2
    <3>4. ~(k < l) /\ l # k
      <4>1. k < l => ids[k] < ids[l]
        BY <1>4
      <4>2. QED
        BY <3>1, <3>3, <4>1
    <3>5. l \in 1..(k - 1)
      BY <3>4
    <3>6. QED
      BY <3>3, <3>5
  <2>3. \A l, j \in 1..(k - 1) : ids[l] = ids[j] => l = j
    BY Zenon, <1>5, <2>1
  <2> HIDE DEF B
  <2>4. f \in Bijection(1..(k - 1), B)
    BY Zenon, <2>1, <2>2, <2>3 DEF Bijection, Injection, Surjection, IsInjective
  <2>5. Cardinality(B) = k - 1
    <3>1. k - 1 \in Nat
      OBVIOUS
    <3>2. ExistsBijection(1..(k - 1), B)
      BY Zenon, <2>4 DEF ExistsBijection
    <3>3. QED
      BY Zenon, <3>1, <3>2, FS_CountingElements
  <2>6. k - 1 < M
    BY <1>4
  <2>7. QED
    BY Zenon, <2>5, <2>6 DEF B
<1>8. ASSUME NEW v \in A, ~\E k \in 1..n : ids[k] = v PROVE ~(Cardinality(Under(A, v)) < M)
  <2>1. n = M /\ ids[M] < v
    BY Zenon, <1>4, <1>8
  <2> DEFINE B == Under(A, v)
             g == [l \in 1..M |-> ids[l]]
  <2>2. ASSUME NEW l \in 1..M PROVE ids[l] \in B
    <3>1. M \in 1..n /\ l \in 1..n /\ (l = M \/ l < M) /\ v \in Int
      BY <2>1
    <3>2. ids[l] <= ids[M] /\ ids[l] \in Int /\ ids[M] \in Int /\ ids[l] \in A
      BY <1>4, <3>1
    <3>3. QED
      BY <2>1, <3>1, <3>2 DEF Under
  <2> HIDE DEF B
  <2>3. \A l, j \in 1..M : ids[l] = ids[j] => l = j
    BY Zenon, <1>5, <2>1
  <2>4. g \in Injection(1..M, B)
    BY Zenon, <2>2, <2>3 DEF Injection, IsInjective
  <2>5. Cardinality(1..M) = M
    <3>1. 1 \in Int /\ M \in Int
      OBVIOUS
    <3>2. Cardinality(1..M) = IF 1 > M THEN 0 ELSE M - 1 + 1
      BY <3>1, FS_Interval
    <3>3. QED
      BY <3>2
  <2>6. IsFiniteSet(B) /\ Cardinality(B) \in Nat
    BY Zenon, <1>6 DEF B
  <2> HIDE DEF g
  <2>7. Cardinality(1..M) <= Cardinality(B)
    BY Zenon, <2>4, <2>6, FS_Injection
  <2>8. QED
    BY <2>5, <2>6, <2>7 DEF B
<1>9. ASSUME NEW v, NEW k \in 1..n, ids[k] = v PROVE v \in A /\ Cardinality(Under(A, v)) < M
  BY <1>4, <1>7, <1>9
<1>10. ASSUME NEW v \in A, Cardinality(Under(A, v)) < M PROVE \E k \in 1..n : ids[k] = v
  BY Zenon, <1>8, <1>10
<1>11. QED
  BY Zenon, <1>2, <1>3, <1>9, <1>10

-----------------------------------------------------------------------------
(* The tokens a slot's entropy counts. *)

After(best, w, id) == IF id \in S!ToSet(best) THEN w ELSE Append(w, id)

CountingBy(r, best, ids, n) ==
  /\ r \in [0..n -> Seq(Int)] /\ r[0] = best
  /\ \A i \in 1..n : r[i] = After(best, r[i - 1], ids[i])
  /\ S!WithLabels(best, ids) = r[n]

LEMMA CountingRuns ==
  ASSUME NEW n \in Nat, NEW ids \in [1..n -> Int], NEW best \in Seq(Int)
  PROVE  \E r : CountingBy(r, best, ids, n)
<1> DEFINE f == [i \in 1..n |-> [w \in Seq(Int) |-> After(best, w, ids[i])]]
           G(g) == g = [t \in SUBSET DOMAIN ids |->
                          IF t = {} THEN best ELSE After(best, g[t \ {Max(t)}], ids[Max(t)])]
           g == CHOOSE g : G(g)
<1>1. DOMAIN ids = 1..n /\ \A i \in 1..n : ids[i] \in Int
  OBVIOUS
<1>2. f \in Turns(n, Seq(Int))
  <2>1. \A w \in Seq(Int) : \A i \in 1..n : After(best, w, ids[i]) \in Seq(Int)
    BY <1>1 DEF After
  <2>2. QED
    BY Zenon, <2>1 DEF Turns
<1>3. \A i \in 1..n : \A w \in Seq(Int) : f[i][w] = After(best, w, ids[i])
  BY Zenon
<1>4. S!WithLabels(best, ids) = g[DOMAIN ids]
  BY Zenon DEF S!WithLabels, S!FoldLeft, S!MapThenFoldSet, S!Max, Max, After
<1> HIDE DEF f
<1>5. \E h : G(h)
  <2>1. PICK h : Iterates(h, f, best, n, Seq(Int))
    BY Zenon, <1>2, IterationExists
  <2>2. ASSUME NEW t \in SUBSET (1..n)
        PROVE  h[t] = IF t = {} THEN best ELSE After(best, h[t \ {Max(t)}], ids[Max(t)])
    BY Zenon, <1>3, <2>1 DEF Iterates
  <2>3. h = [t \in SUBSET (1..n) |-> h[t]]
    BY Zenon, <2>1 DEF Iterates
  <2>4. G(h)
    BY Zenon, <1>1, <2>2, <2>3
  <2>5. QED
    BY Zenon, <2>4
<1>6. G(g)
  BY Zenon, <1>5
<1> HIDE DEF g
<1>7. GoesBy(g, f, best, n, Seq(Int))
  <2>1. ASSUME NEW t \in SUBSET (1..n)
        PROVE  /\ t = {} => g[t] = best
               /\ t # {} /\ g[t \ {Max(t)}] \in Seq(Int) => g[t] = f[Max(t)][g[t \ {Max(t)}]]
    <3>1. g[t] = IF t = {} THEN best ELSE After(best, g[t \ {Max(t)}], ids[Max(t)])
      BY Zenon, <1>1, <1>6
    <3>2. t # {} => Max(t) \in 1..n
      BY MaxIn
    <3>3. QED
      BY Zenon, <1>3, <3>1, <3>2
  <2>2. QED
    BY Zenon, <2>1 DEF GoesBy
<1>8. PICK r : RunsTo(r, f, best, n, Seq(Int), g[1..n])
  BY Zenon, <1>2, <1>7, FoldGoes
<1>9. r \in [0..n -> Seq(Int)] /\ r[0] = best /\ r[n] = S!WithLabels(best, ids)
      /\ \A k \in 1..n : r[k] = f[k][r[k - 1]]
  BY Zenon, <1>1, <1>4, <1>8 DEF RunsTo, Runs
<1>10. \A k \in 1..n : r[k] = After(best, r[k - 1], ids[k])
  <2>1. ASSUME NEW k \in 1..n PROVE r[k] = After(best, r[k - 1], ids[k])
    <3>1. k - 1 \in 0..n
      OBVIOUS
    <3>2. r[k - 1] \in Seq(Int)
      BY Zenon, <1>9, <3>1
    <3>3. QED
      BY Zenon, <1>3, <1>9, <3>2
  <2>2. QED
    BY Zenon, <2>1
<1>11. QED
  BY Zenon, <1>9, <1>10 DEF CountingBy

(* The K best, and then those of the first j identifiers that are not of them, rising. *)
CountsTo(w, best, K, ids, j) ==
  /\ w \in Seq(Int) /\ Len(w) >= K
  /\ \A k \in 1..K : w[k] = best[k]
  /\ \A k \in (K + 1)..Len(w) :
       (\E i \in 1..j : w[k] = ids[i]) /\ ~\E l \in 1..K : best[l] = w[k]
  /\ \A i \in 1..j : (\E l \in 1..K : best[l] = ids[i]) \/ \E k \in (K + 1)..Len(w) : w[k] = ids[i]
  /\ \A k, l \in (K + 1)..Len(w) : k < l => w[k] < w[l]

LEMMA CountsOn ==
  ASSUME NEW n \in Nat, NEW ids \in [1..n -> Int], \A i, l \in 1..n : i < l => ids[i] < ids[l],
         NEW K \in Nat, NEW best \in [1..K -> Int], NEW j \in 0..(n - 1), NEW w,
         CountsTo(w, best, K, ids, j)
  PROVE  CountsTo(After(best, w, ids[j + 1]), best, K, ids, j + 1)
<1> DEFINE x == ids[j + 1]
<1>1. j + 1 \in 1..n /\ x \in Int
  OBVIOUS
<1>2. PICK m \in Nat : m = Len(w) /\ w \in Seq(Int) /\ m >= K
  BY DEF CountsTo
<1>3. /\ \A k \in 1..K : w[k] = best[k]
      /\ \A k \in (K + 1)..m : (\E i \in 1..j : w[k] = ids[i]) /\ ~\E l \in 1..K : best[l] = w[k]
      /\ \A i \in 1..j : (\E l \in 1..K : best[l] = ids[i]) \/ \E k \in (K + 1)..m : w[k] = ids[i]
      /\ \A k, l \in (K + 1)..m : k < l => w[k] < w[l]
  BY Zenon, <1>2 DEF CountsTo
<1>4. \A v : v \in S!ToSet(best) <=> \E l \in 1..K : best[l] = v
  <2>1. DOMAIN best = 1..K
    OBVIOUS
  <2>2. S!ToSet(best) = {best[l] : l \in 1..K}
    BY Zenon, <2>1 DEF S!ToSet
  <2>3. QED
    BY Zenon, <2>2
<1>5. \A i \in 1..(j + 1) : i = j + 1 \/ i \in 1..j
  OBVIOUS
<1>6. \A i \in 1..j : i \in 1..(j + 1) /\ i \in 1..n
  OBVIOUS
<1> HIDE DEF x
<1>7. CASE x \in S!ToSet(best)
  <2>1. After(best, w, x) = w
    BY <1>7 DEF After
  <2>2. \E l \in 1..K : best[l] = x
    BY Zenon, <1>4, <1>7
  <2>3. \A i \in 1..(j + 1) : (\E l \in 1..K : best[l] = ids[i]) \/ \E k \in (K + 1)..m : w[k] = ids[i]
    BY Zenon, <1>3, <1>5, <2>2 DEF x
  <2>4. \A k \in (K + 1)..m : (\E i \in 1..(j + 1) : w[k] = ids[i]) /\ ~\E l \in 1..K : best[l] = w[k]
    BY Zenon, <1>3, <1>6
  <2>5. CountsTo(w, best, K, ids, j + 1)
    BY Zenon, <1>2, <1>3, <2>3, <2>4 DEF CountsTo
  <2>6. QED
    BY Zenon, <2>1, <2>5 DEF x
<1>8. CASE x \notin S!ToSet(best)
  <2> DEFINE u == Append(w, x)
  <2>1. After(best, w, x) = u
    BY <1>8 DEF After
  <2>2. /\ u \in Seq(Int) /\ Len(u) = m + 1
        /\ \A k \in 1..m : u[k] = w[k] 
        /\ u[m + 1] = x
    <3>1. /\ u \in Seq(Int) /\ Len(u) = Len(w) + 1
          /\ \A k \in 1..Len(w) : u[k] = w[k]
          /\ u[Len(w) + 1] = x
      BY <1>1, <1>2, AppendProperties
    <3>2. QED
      BY <1>2, <3>1
  <2> HIDE DEF u
  <2>3. m + 1 \in (K + 1)..(m + 1) /\ m + 1 >= K
    BY <1>2
  <2>4. \A k \in (K + 1)..(m + 1) : k = m + 1 \/ (k \in (K + 1)..m /\ k \in 1..m /\ k < m + 1)
    BY <1>2
  <2>5. \A k \in (K + 1)..m : k \in (K + 1)..(m + 1) /\ k \in 1..m
    BY <1>2
  <2>6. \A k \in 1..K : u[k] = best[k]
    <3>1. \A k \in 1..K : k \in 1..m
      BY <1>2
    <3>2. QED
      BY Zenon, <1>3, <2>2, <3>1
  <2>7. ASSUME NEW k \in (K + 1)..(m + 1)
        PROVE  (\E i \in 1..(j + 1) : u[k] = ids[i]) /\ ~\E l \in 1..K : best[l] = u[k]
    <3>1. CASE k = m + 1
      <4>1. j + 1 \in 1..(j + 1)
        OBVIOUS
      <4>2. QED
        BY Zenon, <1>4, <1>8, <2>2, <3>1, <4>1 DEF x
    <3>2. CASE k # m + 1
      <4>1. k \in (K + 1)..m /\ u[k] = w[k]
        BY Zenon, <2>2, <2>4, <3>2
      <4>2. QED
        BY Zenon, <1>3, <1>6, <4>1
    <3>3. QED
      BY <3>1, <3>2
  <2>8. ASSUME NEW i \in 1..(j + 1)
        PROVE  (\E l \in 1..K : best[l] = ids[i]) \/ \E k \in (K + 1)..(m + 1) : u[k] = ids[i]
    <3>1. CASE i = j + 1
      BY Zenon, <2>2, <2>3, <3>1 DEF x
    <3>2. CASE i # j + 1
      <4>1. (\E l \in 1..K : best[l] = ids[i]) \/ \E k \in (K + 1)..m : w[k] = ids[i]
        BY Zenon, <1>3, <1>5, <3>2
      <4>2. QED
        BY Zenon, <2>2, <2>5, <4>1
    <3>3. QED
      BY <3>1, <3>2
  <2>9. ASSUME NEW k \in (K + 1)..(m + 1), NEW l \in (K + 1)..(m + 1), k < l PROVE u[k] < u[l]
    <3>0. k \in (K + 1)..m /\ u[k] = w[k]
      <4>1. k # m + 1
        BY <1>2, <2>9
      <4>2. QED
        BY Zenon, <2>2, <2>4, <4>1
    <3>1. CASE l = m + 1
      <4>1. PICK i \in 1..j : w[k] = ids[i]
        BY Zenon, <1>3, <3>0
      <4>2. i \in 1..n /\ i < j + 1
        OBVIOUS
      <4>3. ids[i] < ids[j + 1]
        BY <1>1, <4>2
      <4>4. QED
        BY Zenon, <2>2, <3>0, <3>1, <4>1, <4>3 DEF x
    <3>2. CASE l # m + 1
      <4>1. l \in (K + 1)..m /\ u[l] = w[l]
        BY Zenon, <2>2, <2>4, <3>2
      <4>2. QED
        BY Zenon, <1>3, <2>9, <3>0, <4>1
    <3>3. QED
      BY <3>1, <3>2
  <2>10. CountsTo(u, best, K, ids, j + 1)
    BY Zenon, <2>2, <2>3, <2>6, <2>7, <2>8, <2>9 DEF CountsTo
  <2>11. QED
    BY Zenon, <2>1, <2>10 DEF x
<1>9. QED
  BY <1>7, <1>8

LEMMA WithLabelsCounts ==
  ASSUME NEW ids \in KeptLists, NEW K \in Nat, NEW best \in [1..K -> Int]
  PROVE  CountsTo(S!WithLabels(best, ids), best, K, ids, Len(ids))
<1>1. PICK n \in Nat : n = Len(ids)
  BY KeptIs
<1>2. ids \in [1..n -> Int] /\ \A i, l \in 1..n : i < l => ids[i] < ids[l]
  <2>1. /\ Listed(ids, n) /\ \A i \in 1..n : ids[i] \in Int
        /\ \A i, l \in 1..n : i < l => ids[i] < ids[l]
    BY Zenon, <1>1, KeptIs
  <2>2. QED
    BY Zenon, <2>1 DEF Listed
<1>3. best \in Seq(Int) /\ Len(best) = K
  OBVIOUS
<1>4. PICK r : CountingBy(r, best, ids, n)
  BY Zenon, <1>2, <1>3, CountingRuns
<1>5. r[0] = best /\ S!WithLabels(best, ids) = r[n]
      /\ \A i \in 1..n : r[i] = After(best, r[i - 1], ids[i])
  BY <1>4 DEF CountingBy
<1> DEFINE T == {j \in 0..n : CountsTo(r[j], best, K, ids, j)}
<1>6. 0 \in T
  <2>1. 1..0 = {} /\ (K + 1)..K = {} /\ K >= K /\ 0 \in 0..n
    OBVIOUS
  <2>2. CountsTo(best, best, K, ids, 0)
    BY Zenon, <1>3, <2>1 DEF CountsTo
  <2>3. QED
    BY Zenon, <1>5, <2>1, <2>2
<1>7. ASSUME NEW j \in 0..(n - 1), j \in T PROVE j + 1 \in T
  <2>1. j + 1 \in 1..n /\ j + 1 \in 0..n /\ (j + 1) - 1 = j
    OBVIOUS
  <2>2. CountsTo(r[j], best, K, ids, j)
    BY <1>7
  <2>3. r[j + 1] = After(best, r[j], ids[j + 1])
    BY Zenon, <1>5, <2>1
  <2>4. CountsTo(After(best, r[j], ids[j + 1]), best, K, ids, j + 1)
    BY Zenon, <1>2, <2>2, CountsOn
  <2>5. QED
    BY Zenon, <2>1, <2>3, <2>4
<1> HIDE DEF T
<1>8. \A j \in 0..n : j \in T
  BY Zenon, <1>6, <1>7, InductionTo
<1>9. n \in T
  BY <1>8
<1>10. QED
  BY Zenon, <1>1, <1>5, <1>9 DEF T

-----------------------------------------------------------------------------
(* What is counted for a slot and the logits it is scored by. *)
SlotCounted(s) == S!WithLabels(TopIds(s.row), requested)
SlotScored(s) == [c \in DOMAIN s.labels |-> s.row[s.labels[c] + 1]]

SlotsCounted(m) ==
  /\ Listed(counted, m) /\ Listed(scores, m)
  /\ \A t \in 1..m : counted[t] = SlotCounted(slots[t]) /\ scores[t] = SlotScored(slots[t])

Scoring(n, m) ==
  /\ slots \in SlotsOf(n) /\ Len(slots) = n /\ requested = S!Requested(slots)
  /\ SlotsCounted(m)

SInv ==
  \/ slots = <<>> /\ counted = <<>> /\ scores = <<>>
  \/ \E n \in 1..MaxSlots : \E m \in 0..n : Scoring(n, m)

LEMMA ScoresBegin ==
  S!Init => SInv
BY DEF S!Init, SInv

LEMMA ScoreKeeps ==
  ASSUME SInv, NEW n \in 1..MaxSlots, NEW s \in SlotsOf(n), S!Score(s)
  PROVE  SInv'
<1>1. slots = <<>> /\ slots' = s /\ requested' = S!Requested(s) /\ counted' = counted /\ scores' = scores
  BY DEF S!Score
<1>2. n \in Nat \ {0}
  BY ScoresAssumption
<1>3. s \in [1..n -> [row : SlotLogits, labels : LabelLists]]
  BY DEF SlotsOf
<1>4. Len(s) = n
  BY <1>2, <1>3
<1>5. counted = <<>> /\ scores = <<>>
  <2>1. CASE \E k \in 1..MaxSlots : \E m \in 0..k : Scoring(k, m)
    <3>1. PICK k \in 1..MaxSlots : \E m \in 0..k : Scoring(k, m)
      BY <2>1
    <3>2. Len(slots) = k /\ Len(<<>>) = 0 /\ k # 0
      BY <3>1, ScoresAssumption DEF Scoring
    <3>3. QED
      BY <1>1, <3>2
  <2>2. QED
    BY <2>1 DEF SInv
<1>6. Listed(<<>>, 0) /\ 1..0 = {} /\ 0 \in 0..n
  BY <1>2 DEF Listed
<1>7. SlotsCounted(0)'
  BY Zenon, <1>1, <1>5, <1>6 DEF SlotsCounted
<1>8. Scoring(n, 0)'
  BY Zenon, <1>1, <1>4, <1>7 DEF Scoring
<1>9. QED
  BY Zenon, <1>6, <1>8 DEF SInv

LEMMA CountKeeps ==
  ASSUME SInv, S!Count
  PROVE  SInv'
<1>1. Len(counted) < Len(slots) /\ slots' = slots /\ requested' = requested
  BY DEF S!Count
<1>2. PICK n \in 1..MaxSlots : \E m \in 0..n : Scoring(n, m)
  <2>1. CASE slots = <<>> /\ counted = <<>> /\ scores = <<>>
    BY <1>1, <2>1
  <2>2. QED
    BY <2>1 DEF SInv
<1>3. PICK m \in 0..n : Scoring(n, m)
  BY <1>2
<1>4. n \in Nat \ {0} /\ m \in Nat
  BY ScoresAssumption
<1>5. slots \in SlotsOf(n) /\ Len(slots) = n /\ requested = S!Requested(slots)
      /\ Listed(counted, m) /\ Listed(scores, m)
      /\ \A t \in 1..m : counted[t] = SlotCounted(slots[t]) /\ scores[t] = SlotScored(slots[t])
  BY <1>3 DEF Scoring, SlotsCounted
<1>6. Len(counted) = m
  BY Zenon, <1>4, <1>5, ListedLen
<1>7. m + 1 \in 0..n /\ m < n
  BY <1>1, <1>4, <1>5, <1>6
<1> DEFINE s == slots[m + 1]
           x == SlotCounted(s)
           v == SlotScored(s)
<1>8. counted' = Append(counted, x) /\ scores' = Append(scores, v)
  BY Zenon, <1>6 DEF S!Count, SlotCounted, SlotScored, TopIds
<1> HIDE DEF x, v
<1>9. /\ Listed(counted', m + 1) /\ \A i \in 1..m : counted'[i] = counted[i]
      /\ counted'[m + 1] = x
  <2>1. m \in Nat /\ Listed(counted, m)
    BY <1>4, <1>5
  <2>2. Longer(Append(counted, x), counted, m, x)
    BY Zenon, <2>1, ListedAppend
  <2>3. QED
    BY Zenon, <1>8, <2>2 DEF Longer
<1>10. /\ Listed(scores', m + 1) /\ \A i \in 1..m : scores'[i] = scores[i]
       /\ scores'[m + 1] = v
  <2>1. m \in Nat /\ Listed(scores, m)
    BY <1>4, <1>5
  <2>2. Longer(Append(scores, v), scores, m, v)
    BY Zenon, <2>1, ListedAppend
  <2>3. QED
    BY Zenon, <1>8, <2>2 DEF Longer
<1>11. \A t \in 1..(m + 1) : t = m + 1 \/ t \in 1..m
  BY <1>4
<1>12. \A z : SlotCounted(z)' = SlotCounted(z)
  BY <1>1 DEF SlotCounted
<1>13. ASSUME NEW t \in 1..(m + 1)
       PROVE  counted'[t] = SlotCounted(slots[t]) /\ scores'[t] = SlotScored(slots[t])
  <2>1. CASE t = m + 1
    BY Zenon, <1>9, <1>10, <2>1 DEF x, v
  <2>2. CASE t # m + 1
    BY Zenon, <1>5, <1>9, <1>10, <1>11, <2>2
  <2>3. QED
    BY <2>1, <2>2
<1>14. \A t : SlotCounted(slots[t])' = SlotCounted(slots[t]) /\ SlotScored(slots[t])' = SlotScored(slots[t])
  BY <1>1 DEF SlotCounted, SlotScored
<1>15. SlotsCounted(m + 1)'
  BY Zenon, <1>9, <1>10, <1>13, <1>14 DEF SlotsCounted
<1>16. Scoring(n, m + 1)'
  BY Zenon, <1>1, <1>5, <1>15 DEF Scoring
<1>17. QED
  BY Zenon, <1>7, <1>16 DEF SInv

LEMMA ScoresReturn ==
  ASSUME SInv, S!Return
  PROVE  SInv'
BY DEF S!Return, SInv

LEMMA ScoresStutter ==
  ASSUME SInv, UNCHANGED S!vars
  PROVE  SInv'
<1>1. slots' = slots /\ requested' = requested /\ counted' = counted /\ scores' = scores
  BY DEF S!vars
<1>2. CASE slots = <<>> /\ counted = <<>> /\ scores = <<>>
  BY <1>1, <1>2 DEF SInv
<1>3. CASE \E n \in 1..MaxSlots : \E m \in 0..n : Scoring(n, m)
  <2>1. \A n, m : Scoring(n, m) => Scoring(n, m)'
    BY <1>1 DEF Scoring, SlotsCounted, SlotCounted, SlotScored
  <2>2. \E n \in 1..MaxSlots : \E m \in 0..n : Scoring(n, m)'
    BY Zenon, <1>3, <2>1
  <2>3. QED
    BY Zenon, <2>2 DEF SInv
<1>4. QED
  BY Zenon, <1>2, <1>3 DEF SInv

LEMMA ScoresKeep ==
  SInv /\ [S!Next]_(S!vars) => SInv'
<1>1. SUFFICES ASSUME SInv, [S!Next]_(S!vars) PROVE SInv'
  OBVIOUS
<1>2. CASE \E n \in 1..MaxSlots : \E s \in [1..n -> [row : SlotLogits, labels : LabelLists]] : S!Score(s)
  <2>1. PICK n \in 1..MaxSlots : \E s \in SlotsOf(n) : S!Score(s)
    BY Zenon, <1>2 DEF SlotsOf
  <2>2. QED
    BY Zenon, <1>1, <2>1, ScoreKeeps
<1>3. CASE S!Count
  BY Zenon, <1>1, <1>3, CountKeeps
<1>4. CASE S!Return
  BY Zenon, <1>1, <1>4, ScoresReturn
<1>5. CASE UNCHANGED S!vars
  BY Zenon, <1>1, <1>5, ScoresStutter
<1>6. QED
  BY Zenon, <1>1, <1>2, <1>3, <1>4, <1>5 DEF S!Next

(* The smallest of the labels asked for. *)
SmallestOf(A) == {id \in A : S!Cardinality({o \in A : o < id}) < MostLabels}

LEMMA RequestedAre ==
  ASSUME NEW n \in Nat, NEW s \in SlotsOf(n)
  PROVE  \A v : v \in SmallestOf(AskedBy(s, n))
                  <=> \E k \in 1..Len(S!Requested(s)) : S!Requested(s)[k] = v
<1> DEFINE A == AskedBy(s, n)
<1>1. Smallest(S!Requested(s), A)
  BY RequestedSmallest
<1>2. A \subseteq S!Vocab
  <2>1. \A t \in 1..n : S!ToSet(s[t].labels) \subseteq S!Vocab
    <3>1. \A t \in 1..n : s[t].labels \in LabelLists
      BY DEF SlotsOf
    <3>2. QED
      BY Zenon, <3>1, LabelsAre
  <2>2. QED
    BY <2>1 DEF AskedBy
<1> HIDE DEF A
<1>3. A \subseteq Int /\ IsFiniteSet(A)
  <2>1. PICK w \in Nat : w = VocabSize
    BY VocabIs
  <2>2. S!Vocab = 0..(w - 1)
    BY <2>1, VocabIs
  <2>3. IsFiniteSet(0..(w - 1))
    <3>1. 0 \in Int /\ w - 1 \in Int
      OBVIOUS
    <3>2. QED
      BY <3>1, FS_Interval
  <2>4. A \in SUBSET (0..(w - 1))
    BY <1>2, <2>2
  <2>5. IsFiniteSet(A)
    BY Zenon, <2>3, <2>4, FS_Subset
  <2>6. QED
    BY <2>4, <2>5
<1>4. \A v : (\E k \in 1..Len(S!Requested(s)) : S!Requested(s)[k] = v)
               <=> v \in A /\ Cardinality(Under(A, v)) < MostLabels
  BY Zenon, <1>1, <1>3, SmallestAre
<1>5. \A B : S!Cardinality(B) = Cardinality(B)
  BY DEF S!Cardinality, Cardinality
<1>6. \A v : v \in SmallestOf(A) <=> v \in A /\ Cardinality(Under(A, v)) < MostLabels
  BY Zenon, <1>5 DEF SmallestOf, Under
<1>7. QED
  BY Zenon, <1>4, <1>6 DEF A

OthersOf(w) == (TopN + 1)..Len(w)

(* What EachCountedOnce says of a slot. *)
CountedRight(s, w, u, A) ==
  /\ \A k \in 1..TopN :
       w[k] = CHOOSE v \in TopTokens(s.row) : S!Cardinality(S!Before(s.row, v)) = k - 1
  /\ {w[k] : k \in OthersOf(w)} = SmallestOf(A) \ TopTokens(s.row)
  /\ \A j, k \in OthersOf(w) : j < k => w[j] < w[k]
  /\ \A c \in DOMAIN s.labels : u[c] = s.row[s.labels[c] + 1]

LEMMA SlotRight ==
  ASSUME NEW n \in Nat, slots \in SlotsOf(n), requested = S!Requested(slots), NEW t \in 1..n
  PROVE  CountedRight(slots[t], SlotCounted(slots[t]), SlotScored(slots[t]), AskedBy(slots, n))
<1> DEFINE s == slots[t]
           best == TopIds(s.row)
           ids == requested
           w == SlotCounted(s)
           A == AskedBy(slots, n)
           T == TopTokens(s.row)
<1>1. s.row \in SlotLogits
  BY DEF SlotsOf
<1>2. Topmost(s.row)
  BY Zenon, <1>1, BestTokens
<1>3. TopN \in Nat \ {0} /\ S!Vocab \subseteq Int
  BY VocabIs
<1>4. best \in [1..TopN -> Int]
  <2>1. best \in [1..TopN -> S!Vocab]
    BY <1>2 DEF Topmost
  <2>2. QED
    BY <1>3, <2>1
<1>5. ids \in KeptLists
  BY Zenon, RequestedSmallest DEF Smallest
<1>6. CountsTo(w, best, TopN, ids, Len(ids))
  <2>1. TopN \in Nat
    BY <1>3
  <2>2. CountsTo(S!WithLabels(best, ids), best, TopN, ids, Len(ids))
    BY Zenon, <1>4, <1>5, <2>1, WithLabelsCounts
  <2>3. QED
    BY Zenon, <2>2 DEF SlotCounted
<1>7. \A v : v \in SmallestOf(A) <=> \E i \in 1..Len(ids) : ids[i] = v
  BY Zenon, RequestedAre
<1>8. \A v : v \in T <=> \E k \in 1..TopN : best[k] = v
  BY Zenon, <1>2 DEF Topmost
<1>9. \A k \in 1..TopN :
        (CHOOSE v \in T : S!Cardinality(S!Before(s.row, v)) = k - 1) = best[k]
  BY Zenon, <1>2 DEF Topmost
<1>10. \A k \in 1..TopN : w[k] = best[k]
  BY Zenon, <1>6 DEF CountsTo
<1>11. \A j, k \in OthersOf(w) : j < k => w[j] < w[k]
  BY Zenon, <1>6 DEF CountsTo, OthersOf
<1>12. \A c \in DOMAIN s.labels : SlotScored(s)[c] = s.row[s.labels[c] + 1]
  BY Zenon DEF SlotScored
<1>13. \A k \in OthersOf(w) : (\E i \in 1..Len(ids) : w[k] = ids[i]) /\ ~\E l \in 1..TopN : best[l] = w[k]
  BY Zenon, <1>6 DEF CountsTo, OthersOf
<1>14. \A i \in 1..Len(ids) : (\E l \in 1..TopN : best[l] = ids[i]) \/ \E k \in OthersOf(w) : w[k] = ids[i]
  BY Zenon, <1>6 DEF CountsTo, OthersOf
<1> HIDE DEF A, T, best, w, s
<1>15. \A k \in OthersOf(w) : w[k] \in SmallestOf(A) \ T
  BY Zenon, <1>7, <1>8, <1>13
<1>16. ASSUME NEW v \in SmallestOf(A) \ T PROVE \E k \in OthersOf(w) : w[k] = v
  <2>1. PICK i \in 1..Len(ids) : ids[i] = v
    BY Zenon, <1>7
  <2>2. ~\E l \in 1..TopN : best[l] = ids[i]
    BY Zenon, <1>8, <2>1
  <2>3. QED
    BY Zenon, <1>14, <2>1, <2>2
<1>17. {w[k] : k \in OthersOf(w)} = SmallestOf(A) \ T
  BY Zenon, <1>15, <1>16
<1>18. \A k \in 1..TopN :
         w[k] = CHOOSE v \in T : S!Cardinality(S!Before(s.row, v)) = k - 1
  BY Zenon, <1>9, <1>10
<1>19. QED
  BY Zenon, <1>11, <1>12, <1>17, <1>18 DEF CountedRight, A, T, best, w, s

LEMMA ScoresShow ==
  SInv => EachCountedOnce
<1>1. SUFFICES ASSUME SInv PROVE EachCountedOnce
  OBVIOUS
<1> DEFINE B == UNION {S!ToSet(slots[t].labels) : t \in DOMAIN slots}
<1>2. CASE slots = <<>> /\ counted = <<>> /\ scores = <<>>
  <2>1. DOMAIN <<>> = {}
    OBVIOUS
  <2>2. QED
    BY Zenon, <1>2, <2>1 DEF EachCountedOnce, S!EachCountedOnce
<1>3. CASE \E n \in 1..MaxSlots : \E m \in 0..n : Scoring(n, m)
  <2>1. PICK n \in 1..MaxSlots : \E m \in 0..n : Scoring(n, m)
    BY Zenon, <1>3
  <2>2. PICK m \in 0..n : Scoring(n, m)
    BY Zenon, <2>1
  <2>3. n \in Nat /\ m \in Nat /\ \A t \in 1..m : t \in 1..n
    BY ScoresAssumption
  <2>4. slots \in SlotsOf(n) /\ requested = S!Requested(slots) /\ SlotsCounted(m)
    BY Zenon, <2>2 DEF Scoring
  <2>5. DOMAIN counted = 1..m /\ DOMAIN slots = 1..n
    <3>1. Listed(counted, m)
      BY Zenon, <2>4 DEF SlotsCounted
    <3>2. DOMAIN counted = 1..m
      BY Zenon, <2>3, <3>1, ListedLen
    <3>3. DOMAIN slots = 1..n
      BY <2>4 DEF SlotsOf
    <3>4. QED
      BY <3>2, <3>3
  <2>6. B = AskedBy(slots, n)
    BY Zenon, <2>5 DEF AskedBy
  <2>7. \A t \in 1..m : CountedRight(slots[t], counted[t], scores[t], B)
    <3>1. ASSUME NEW t \in 1..m PROVE CountedRight(slots[t], counted[t], scores[t], B)
      <4>1. counted[t] = SlotCounted(slots[t]) /\ scores[t] = SlotScored(slots[t])
        BY Zenon, <2>4 DEF SlotsCounted
      <4>2. CountedRight(slots[t], SlotCounted(slots[t]), SlotScored(slots[t]), AskedBy(slots, n))
        BY Zenon, <2>3, <2>4, SlotRight
      <4>3. QED
        BY Zenon, <2>6, <4>1, <4>2
    <3>2. QED
      BY <3>1
  <2>8. QED
    BY Zenon, <2>5, <2>7
       DEF EachCountedOnce, S!EachCountedOnce, CountedRight, OthersOf, SmallestOf, TopTokens
<1>4. QED
  BY Zenon, <1>1, <1>2, <1>3 DEF SInv

(* A slot's entropy counts its best tokens, and then the smallest labels     *)
(* asked for that are not of them, each once.                                *)
THEOREM CountedCorrect == S!Spec => []EachCountedOnce
<1>1. S!Spec => []SInv
  BY ScoresBegin, ScoresKeep, PTL DEF S!Spec
<1>2. QED
  BY <1>1, ScoresShow, PTL

-----------------------------------------------------------------------------
(* The processor's products.  What a product is launched with. *)

Formats == {"bf16", "nvfp4"}

Called ==
  /\ call \in [kernel : {"scalar", "neon", "exact", "dots"}, format : Formats,
               tokens : Nat \ {0}, rows : Nat \ {0}, cols : Nat \ {0}]
  /\ call.format = "nvfp4" => call.cols % (2 * ScaleCols) = 0
  /\ call.kernel = "exact" => call.rows % ExactRows = 0
  /\ call.kernel = "dots" => call.format = "bf16"

LEMMA CalledIs ==
  ASSUME Called
  PROVE  /\ C!tokens \in Nat \ {0} /\ C!rows \in Nat \ {0} /\ C!cols \in Nat \ {0}
         /\ call.kernel \in {"scalar", "neon", "exact", "dots"} /\ call.format \in Formats
BY DEF Called, C!tokens, C!rows, C!cols

LEMMA KernelSizes ==
  /\ NeonRows \in Nat \ {0} /\ NeonKeys \in Nat \ {0} /\ ExactRows \in Nat \ {0}
  /\ TokenBlock \in Nat \ {0} /\ ScaleCols \in Nat \ {0}
BY KernelsAssumption

LEMMA Halves ==
  ASSUME NEW n \in Nat \ {0}, n % 2 = 0
  PROVE  \E h \in Nat \ {0} : n = 2 * h
<1>1. n \div 2 \in Nat \ {0} /\ n = 2 * (n \div 2)
  OBVIOUS
<1>2. QED
  BY <1>1

(* A row of NVFP4 weights is whole scales, and a scale is whole bytes. *)
Quantized(n, h) == C!cols = n * ScaleCols /\ ScaleCols = 2 * h

LEMMA QuantizedIs ==
  ASSUME Called, call.format = "nvfp4"
  PROVE  \E n, h \in Nat \ {0} : Quantized(n, h)
<1>1. PICK h \in Nat \ {0} : ScaleCols = 2 * h
  BY KernelsAssumption, KernelSizes, Halves
<1>2. PICK m \in Nat \ {0} : m = 2 * ScaleCols
  BY KernelSizes
<1>3. C!cols \in Nat \ {0} /\ C!cols % m = 0
  BY <1>2, CalledIs DEF Called, C!cols
<1>4. PICK q \in Nat : q = C!cols \div m
  BY <1>3, DivMod
<1>5. C!cols = q * m + 0
  BY <1>3, <1>4, DivMod
<1>6. q # 0
  BY <1>3, <1>5
<1>7. C!cols = (2 * q) * ScaleCols
  BY <1>2, <1>5, KernelSizes
<1>8. QED
  BY <1>1, <1>6, <1>7 DEF Quantized

-----------------------------------------------------------------------------
(* What is in memory. *)

LEMMA WeightAt ==
  ASSUME C!cols \in Nat \ {0}, NEW r \in Nat, NEW c \in 0..(C!cols - 1)
  PROVE  C!Weight(r * C!cols + c) = <<r, c>>
<1>1. PICK n \in Nat \ {0} : n = C!cols
  OBVIOUS
<1>2. (r * n + c) \div n = r /\ (r * n + c) % n = c
  BY <1>1, DivModOf
<1>3. QED
  BY Zenon, <1>1, <1>2 DEF C!Weight

LEMMA InputAt ==
  ASSUME C!cols \in Nat \ {0}, NEW t \in Nat, NEW c \in 0..(C!cols - 1)
  PROVE  C!Input(t, c) = <<t, c>>
BY Zenon, WeightAt DEF C!Input

(* The columns of a byte, and a row of bytes. *)
Even(k) == 2 * (k - 1)

Halved(h) == C!cols = 2 * h

LEMMA ByteAt ==
  ASSUME C!cols \in Nat \ {0}, NEW h \in Nat, Halved(h), NEW r \in Nat, NEW k \in 1..h
  PROVE  C!Byte((r * C!cols) \div 2 + (k - 1)) = [low |-> <<r, Even(k)>>, high |-> <<r, Even(k) + 1>>]
<1>1. PICK n \in Nat \ {0} : n = C!cols
  OBVIOUS
<1>2. PICK a \in Nat : a = r * h
  OBVIOUS
<1>3. r * n = 2 * a /\ n = 2 * h
  BY <1>1, <1>2 DEF Halved
<1>4. (r * n) \div 2 = a
  BY <1>3
<1>5. /\ 2 * (a + (k - 1)) = r * n + Even(k) /\ 2 * (a + (k - 1)) + 1 = r * n + (Even(k) + 1)
      /\ Even(k) \in 0..(n - 1) /\ Even(k) + 1 \in 0..(n - 1)
  BY <1>1, <1>3 DEF Even
<1>6. C!Weight(2 * (a + (k - 1))) = <<r, Even(k)>> /\ C!Weight(2 * (a + (k - 1)) + 1) = <<r, Even(k) + 1>>
  BY Zenon, <1>1, <1>5, WeightAt
<1>7. QED
  BY Zenon, <1>1, <1>4, <1>6 DEF C!Byte

LEMMA ScaleAt ==
  ASSUME C!cols \in Nat \ {0}, ScaleCols \in Nat \ {0}, NEW n \in Nat \ {0}, C!cols = n * ScaleCols,
         NEW r \in Nat, NEW b \in 0..(n - 1)
  PROVE  C!Scale((r * C!cols) \div ScaleCols + b) = <<r, b>>
<1>1. PICK m \in Nat \ {0}, s \in Nat \ {0} : m = C!cols /\ s = ScaleCols
  OBVIOUS
<1>2. PICK a \in Nat : a = r * n
  OBVIOUS
<1>3. m \div s = n
  <2>1. 0 \in 0..(s - 1) /\ m = n * s + 0
    BY <1>1
  <2>2. QED
    BY Zenon, <2>1, DivModOf
<1>4. (r * m) \div s = a
  <2>1. 0 \in 0..(s - 1) /\ r * m = a * s + 0
    BY <1>1, <1>2
  <2>2. QED
    BY Zenon, <2>1, DivModOf
<1>5. (a + b) \div n = r /\ (a + b) % n = b
  BY <1>2, DivModOf
<1>6. QED
  BY Zenon, <1>1, <1>3, <1>4, <1>5 DEF C!Scale

-----------------------------------------------------------------------------
(* Columns, and what is done for each. *)

LEMMA ColumnsAre ==
  ASSUME C!cols \in Nat \ {0}
  PROVE  C!Columns = [k \in 1..C!cols |-> k - 1]
<1>1. PICK n \in Nat \ {0} : n = C!cols
  OBVIOUS
<1>2. ((n - 0) + (1 - 1)) \div 1 = n
  OBVIOUS
<1>3. \A k \in 1..n : 0 + (k - 1) * 1 = k - 1
  OBVIOUS
<1>4. QED
  BY <1>1, <1>2, <1>3 DEF C!Columns, C!UpTo

LEMMA EvensAre ==
  ASSUME C!cols \in Nat \ {0}, NEW h \in Nat \ {0}, Halved(h)
  PROVE  C!Evens = [k \in 1..h |-> Even(k)]
<1>1. PICK n \in Nat \ {0} : n = C!cols
  OBVIOUS
<1>2. ((n - 0) + (2 - 1)) \div 2 = h
  BY <1>1 DEF Halved
<1>3. \A k \in 1..h : 0 + (k - 1) * 2 = Even(k)
  BY DEF Even
<1>4. QED
  BY <1>1, <1>2, <1>3 DEF C!Evens, C!UpTo

(* What the reference adds up. *)
BfTerm(r, t, c) == C!Term(<<r, c>>, <<t, c>>)

FpTerm(r, t, c) ==
  [scale |-> <<r, c \div ScaleCols>>,
   low |-> C!Term(<<r, c>>, <<t, c>>), high |-> C!Term(<<r, c + 1>>, <<t, c + 1>>)]

LEMMA BfReference ==
  ASSUME call.format = "bf16", NEW r, NEW t
  PROVE  C!ReferenceSum(r, t) = [k \in 1..C!cols |-> BfTerm(r, t, k - 1)]
BY Zenon DEF C!ReferenceSum, BfTerm

LEMMA FpReference ==
  ASSUME Called, call.format = "nvfp4", NEW h \in Nat \ {0}, Halved(h), NEW r, NEW t
  PROVE  C!ReferenceSum(r, t) = [k \in 1..h |-> FpTerm(r, t, Even(k))]
<1>1. C!cols \div 2 = h /\ call.format # "bf16"
  BY DEF Halved
<1>2. ASSUME NEW k \in 1..h
      PROVE  2 * k - 2 = Even(k) /\ 2 * k - 1 = Even(k) + 1
  BY DEF Even
<1>3. ASSUME NEW k \in 1..h
      PROVE  [scale |-> <<r, (2 * k - 2) \div ScaleCols>>,
              low |-> C!Term(<<r, 2 * k - 2>>, <<t, 2 * k - 2>>),
              high |-> C!Term(<<r, 2 * k - 1>>, <<t, 2 * k - 1>>)] = FpTerm(r, t, Even(k))
  BY Zenon, <1>2 DEF FpTerm
<1>4. QED
  BY Zenon, <1>1, <1>3 DEF C!ReferenceSum

(* A pair of what is in memory where a row has it. *)
LEMMA PairIs ==
  ASSUME C!cols \in Nat \ {0}, NEW h \in Nat \ {0}, Halved(h), NEW k \in 1..h,
         NEW r \in Nat, NEW t \in Nat
  PROVE  C!Pair(<<r, Even(k) \div ScaleCols>>, <<r, Even(k)>>, <<r, Even(k) + 1>>, t, Even(k))
           = FpTerm(r, t, Even(k))
<1>1. Even(k) \in 0..(C!cols - 1) /\ Even(k) + 1 \in 0..(C!cols - 1)
  BY DEF Halved, Even
<1>2. C!Input(t, Even(k)) = <<t, Even(k)>> /\ C!Input(t, Even(k) + 1) = <<t, Even(k) + 1>>
  BY Zenon, <1>1, InputAt
<1>3. QED
  BY Zenon, <1>2 DEF C!Pair, FpTerm

LEMMA ScalarRight ==
  ASSUME Called, NEW r \in Nat, NEW t \in Nat
  PROVE  C!ScalarSum(r, t) = C!ReferenceSum(r, t)
<1>1. C!cols \in Nat \ {0} /\ call.format \in Formats
  BY CalledIs
<1>2. CASE call.format = "bf16"
  <2>1. ASSUME NEW k \in 1..C!cols
        PROVE  C!Term(C!Weight(r * C!cols + (k - 1)), C!Input(t, k - 1)) = BfTerm(r, t, k - 1)
    <3>1. k - 1 \in 0..(C!cols - 1)
      BY <1>1
    <3>2. QED
      BY Zenon, <1>1, <3>1, WeightAt, InputAt DEF BfTerm
  <2>2. C!ScalarSum(r, t)
          = C!Each(C!Columns, LAMBDA c : C!Term(C!Weight(r * C!cols + c), C!Input(t, c)))
    BY Zenon, <1>2 DEF C!ScalarSum
  <2>3. C!ScalarSum(r, t) = [k \in 1..C!cols |-> BfTerm(r, t, k - 1)]
    BY Zenon, <1>1, <2>1, <2>2, ColumnsAre DEF C!Each
  <2>4. QED
    BY Zenon, <1>2, <2>3, BfReference
<1>3. CASE call.format = "nvfp4"
  <2>1. PICK n \in Nat \ {0}, m \in Nat \ {0} : Quantized(n, m)
    BY <1>3, QuantizedIs
  <2>2. PICK h \in Nat \ {0} : h = n * m
    BY <2>1
  <2>3. Halved(h) /\ C!cols = n * ScaleCols
    BY <2>1, <2>2 DEF Quantized, Halved
  <2> DEFINE v(c) == C!Byte((r * C!cols) \div 2 + c \div 2)
             s(c) == C!Scale((r * C!cols) \div ScaleCols + c \div ScaleCols)
  <2>4. ASSUME NEW k \in 1..h
        PROVE  C!Pair(s(Even(k)), v(Even(k)).low, v(Even(k)).high, t, Even(k)) = FpTerm(r, t, Even(k))
    <3>1. Even(k) \div 2 = k - 1 /\ Even(k) \in Nat /\ Even(k) < n * ScaleCols
      BY <2>3 DEF Even, Halved
    <3>2. Even(k) \div ScaleCols \in 0..(n - 1)
      BY Zenon, <3>1, KernelSizes, DivBelow
    <3>3. v(Even(k)) = [low |-> <<r, Even(k)>>, high |-> <<r, Even(k) + 1>>]
      BY Zenon, <1>1, <2>3, <3>1, ByteAt
    <3>4. v(Even(k)).low = <<r, Even(k)>> /\ v(Even(k)).high = <<r, Even(k) + 1>>
      BY <3>3
    <3>5. s(Even(k)) = <<r, Even(k) \div ScaleCols>>
      BY Zenon, <1>1, <2>3, <3>2, KernelSizes, ScaleAt
    <3>6. QED
      BY Zenon, <1>1, <2>3, <3>4, <3>5, PairIs
  <2>5. C!ScalarSum(r, t) = C!Each(C!Evens, LAMBDA c : C!Pair(s(c), v(c).low, v(c).high, t, c))
    BY <1>3 DEF C!ScalarSum
  <2> HIDE DEF v, s
  <2>6. C!ScalarSum(r, t) = [k \in 1..h |-> FpTerm(r, t, Even(k))]
    BY Zenon, <1>1, <2>3, <2>4, <2>5, EvensAre DEF C!Each
  <2>7. C!ReferenceSum(r, t) = [k \in 1..h |-> FpTerm(r, t, Even(k))]
    BY <1>3, <2>3, FpReference
  <2>8. QED
    BY Zenon, <2>6, <2>7
<1>4. QED
  BY <1>1, <1>2, <1>3 DEF Formats

-----------------------------------------------------------------------------
(* Pieces one after another, all of one length but the last, which may be   *)
(* shorter: where a place is.                                               *)

PieceOf(p, m) == (p - 1) \div m + 1

PlaceIn(p, m) == ((p - 1) % m) + 1

Flat(s, m, n) == [p \in 1..n |-> s[PieceOf(p, m)][PlaceIn(p, m)]]

LEMMA PieceIs ==
  ASSUME NEW k \in Nat \ {0}, NEW m \in Nat \ {0}, NEW j \in 1..m
  PROVE  PieceOf((k - 1) * m + j, m) = k /\ PlaceIn((k - 1) * m + j, m) = j
<1>1. PICK q \in Nat, r \in 0..(m - 1) : q = k - 1 /\ r = j - 1
  OBVIOUS
<1>2. (q * m + r) \div m = q /\ (q * m + r) % m = r
  BY DivModOf
<1>3. PICK a \in Nat : a = q * m
  OBVIOUS
<1>4. (a + j) - 1 = a + r /\ q + 1 = k /\ r + 1 = j /\ (k - 1) * m = a
  BY <1>1, <1>3
<1>5. QED
  BY Zenon, <1>2, <1>3, <1>4 DEF PieceOf, PlaceIn

Pieces(s, n, m, l) ==
  Listed(s, n) /\ (\A i \in 1..(n - 1) : Listed(s[i], m)) /\ Listed(s[n], l)

LengthTo(k, n, m, l) == IF k < n THEN k * m ELSE (n - 1) * m + l

LEMMA FirstPiece ==
  ASSUME NEW n \in Nat \ {0}, NEW m \in Nat \ {0}, NEW l \in 1..m, NEW s, Pieces(s, n, m, l)
  PROVE  s[1] = Flat(s, m, LengthTo(1, n, m, l))
<1>1. PICK l1 \in 1..m : l1 = IF 1 < n THEN m ELSE l
  OBVIOUS
<1>2. LengthTo(1, n, m, l) = l1
  BY <1>1 DEF LengthTo
<1>3. Listed(s[1], l1)
  BY <1>1 DEF Pieces
<1>4. ASSUME NEW p \in 1..l1 PROVE PieceOf(p, m) = 1 /\ PlaceIn(p, m) = p
  <2>1. p \in 1..m /\ (1 - 1) * m + p = p
    BY <1>1
  <2>2. 1 \in Nat \ {0}
    OBVIOUS
  <2>3. PieceOf((1 - 1) * m + p, m) = 1 /\ PlaceIn((1 - 1) * m + p, m) = p
    BY Zenon, <2>1, <2>2, PieceIs
  <2>4. QED
    BY Zenon, <2>1, <2>3
<1>5. QED
  BY Zenon, <1>2, <1>3, <1>4 DEF Listed, Flat

LEMMA NextPiece ==
  ASSUME NEW n \in Nat \ {0}, NEW m \in Nat \ {0}, NEW l \in 1..m, NEW s, Pieces(s, n, m, l),
         NEW k \in 2..n
  PROVE  Flat(s, m, LengthTo(k - 1, n, m, l)) \o s[k] = Flat(s, m, LengthTo(k, n, m, l))
<1>1. PICK lk \in 1..m : lk = IF k < n THEN m ELSE l
  OBVIOUS
<1>2. PICK a \in Nat : a = (k - 1) * m
  OBVIOUS
<1>3. LengthTo(k - 1, n, m, l) = a /\ LengthTo(k, n, m, l) = a + lk
  <2>1. k * m = (k - 1) * m + m
    OBVIOUS
  <2>2. QED
    BY <1>1, <1>2, <2>1 DEF LengthTo
<1>4. Listed(s[k], lk)
  BY <1>1 DEF Pieces
<1>5. Listed(Flat(s, m, a), a)
  BY Zenon DEF Listed, Flat
<1>6. JoinedTo(Flat(s, m, a), a, s[k], lk)
  BY <1>4, <1>5, ListedConcat
<1>7. ASSUME NEW p \in 1..(a + lk)
      PROVE  (IF p <= a THEN Flat(s, m, a)[p] ELSE s[k][p - a]) = s[PieceOf(p, m)][PlaceIn(p, m)]
  <2>1. CASE p <= a
    <3>1. p \in 1..a
      BY <2>1
    <3>2. QED
      BY Zenon, <2>1, <3>1 DEF Flat
  <2>2. CASE ~(p <= a)
    <3>1. PICK j \in 1..m : j = p - a
      BY <1>1, <2>2
    <3>2. p = (k - 1) * m + j /\ k \in Nat \ {0}
      BY <1>2, <3>1
    <3>3. PieceOf(p, m) = k /\ PlaceIn(p, m) = j
      BY Zenon, <3>2, PieceIs
    <3>4. QED
      BY Zenon, <2>2, <3>1, <3>3
  <2>3. QED
    BY Zenon, <2>1, <2>2
<1>8. Flat(s, m, a) \o s[k] = Flat(s, m, a + lk)
  BY Zenon, <1>6, <1>7 DEF JoinedTo, Flat
<1>9. QED
  BY Zenon, <1>3, <1>8

LEMMA Flattened ==
  ASSUME NEW n \in Nat \ {0}, NEW m \in Nat \ {0}, NEW l \in 1..m, NEW s, Pieces(s, n, m, l)
  PROVE  C!FlattenSeq(s) = Flat(s, m, (n - 1) * m + l)
<1> DEFINE G(f) == f = [i \in 1..Len(s) |-> IF i = 1 THEN s[i] ELSE f[i - 1] \o s[i]]
           f == CHOOSE f : G(f)
           F == [k \in 1..n |-> Flat(s, m, LengthTo(k, n, m, l))]
<1>1. Len(s) = n /\ DOMAIN s = 1..n
  BY ListedLen DEF Pieces
<1>2. C!FlattenSeq(s) = f[n]
  BY <1>1 DEF C!FlattenSeq
<1>3. \A k \in 1..n : F[k] = Flat(s, m, LengthTo(k, n, m, l))
  BY Zenon
<1>4. F = [k \in 1..n |-> F[k]]
  BY Zenon
<1> HIDE DEF F
<1>5. \E g : G(g)
  <2>1. ASSUME NEW i \in 1..n PROVE F[i] = IF i = 1 THEN s[i] ELSE F[i - 1] \o s[i]
    <3>1. CASE i = 1
      BY Zenon, <1>3, <3>1, FirstPiece
    <3>2. CASE i # 1
      <4>1. i \in 2..n /\ i - 1 \in 1..n
        BY <3>2
      <4>2. Flat(s, m, LengthTo(i - 1, n, m, l)) \o s[i] = Flat(s, m, LengthTo(i, n, m, l))
        BY Zenon, <4>1, NextPiece
      <4>3. F[i - 1] = Flat(s, m, LengthTo(i - 1, n, m, l)) /\ F[i] = Flat(s, m, LengthTo(i, n, m, l))
        BY Zenon, <1>3, <4>1
      <4>4. QED
        BY Zenon, <3>2, <4>2, <4>3
    <3>3. QED
      BY Zenon, <3>1, <3>2
  <2>2. G(F)
    BY Zenon, <1>1, <1>4, <2>1
  <2>3. QED
    BY Zenon, <2>2
<1>6. G(f)
  BY Zenon, <1>5
<1> HIDE DEF f
<1>7. \A i \in 1..n : f[i] = IF i = 1 THEN s[i] ELSE f[i - 1] \o s[i]
  BY Zenon, <1>1, <1>6
<1> DEFINE T == {k \in 0..n : k = 0 \/ f[k] = F[k]}
<1>8. 0 \in T
  OBVIOUS
<1>9. ASSUME NEW k \in 0..(n - 1), k \in T PROVE k + 1 \in T
  <2>1. PICK i \in 1..n : i = k + 1
    OBVIOUS
  <2>2. CASE i = 1
    <3>1. f[i] = F[i]
      BY Zenon, <1>3, <1>7, <2>2, FirstPiece
    <3>2. QED
      BY <2>1, <3>1
  <2>3. CASE i # 1
    <3>1. i \in 2..n /\ i - 1 \in 1..n /\ i - 1 = k /\ k # 0
      BY <2>1, <2>3
    <3>2. f[i - 1] = F[i - 1]
      BY <1>9, <3>1
    <3>3. f[i] = f[i - 1] \o s[i]
      BY Zenon, <1>7, <2>3
    <3>4. F[i] = F[i - 1] \o s[i]
      <4> i \in 2..n
        BY <3>1
      <4>1. Flat(s, m, LengthTo(i - 1, n, m, l)) \o s[i] = Flat(s, m, LengthTo(i, n, m, l))
        BY Zenon, NextPiece
      <4>2. F[i - 1] = Flat(s, m, LengthTo(i - 1, n, m, l)) /\ F[i] = Flat(s, m, LengthTo(i, n, m, l))
        BY Zenon, <1>3, <3>1
      <4>3. QED
        BY Zenon, <4>1, <4>2
    <3>5. f[i] = F[i]
      BY Zenon, <3>2, <3>3, <3>4
    <3>6. QED
      BY <2>1, <3>5
  <2>4. QED
    BY <2>2, <2>3
<1> HIDE DEF T
<1>10. \A k \in 0..n : k \in T
  BY Zenon, <1>8, <1>9, InductionTo
<1>11. n \in T /\ n # 0 /\ n \in 1..n /\ LengthTo(n, n, m, l) = (n - 1) * m + l
  BY <1>10 DEF LengthTo
<1>12. QED
  BY Zenon, <1>2, <1>3, <1>11 DEF T

(* What is cut in pieces is what it was when they are put together again.   *)
CutOf(g, i, m, l) == [j \in 1..l |-> g[(i - 1) * m + j]]

Cut(s, g, n, m, l) ==
  /\ Listed(s, n) /\ \A i \in 1..(n - 1) : s[i] = CutOf(g, i, m, m)
  /\ n # 0 => s[n] = CutOf(g, n, m, l)

Rejoins(s, g, n, m, l) ==
  C!FlattenSeq(s) = [p \in 1..(IF n = 0 THEN 0 ELSE (n - 1) * m + l) |-> g[p]]

LEMMA Rejoined ==
  ASSUME NEW n \in Nat, NEW m \in Nat \ {0}, NEW l \in 1..m, NEW s, NEW g, Cut(s, g, n, m, l)
  PROVE  Rejoins(s, g, n, m, l)
<1>1. CASE n = 0
  <2>1. Len(s) = 0 /\ Listed(s, 0)
    <3>1. Listed(s, n)
      BY DEF Cut
    <3>2. Len(s) = n
      BY Zenon, <3>1, ListedLen
    <3>3. QED
      BY <1>1, <3>1, <3>2
  <2>2. C!FlattenSeq(s) = s
    BY <2>1 DEF C!FlattenSeq
  <2>3. s = [p \in 1..0 |-> g[p]]
    BY <2>1 DEF Listed
  <2>4. QED
    BY <1>1, <2>2, <2>3 DEF Rejoins
<1>2. CASE n # 0
  <2>1. n \in Nat \ {0} /\ n \in 1..n
    BY <1>2
  <2>2. /\ Listed(s, n) /\ \A i \in 1..(n - 1) : s[i] = CutOf(g, i, m, m)
        /\ s[n] = CutOf(g, n, m, l)
    BY <1>2 DEF Cut
  <2>3. \A i, k : Listed(CutOf(g, i, m, k), k)
    BY Zenon DEF Listed, CutOf
  <2>4. Pieces(s, n, m, l)
    BY Zenon, <2>2, <2>3 DEF Pieces
  <2>5. C!FlattenSeq(s) = Flat(s, m, (n - 1) * m + l)
    BY Zenon, <2>1, <2>4, Flattened
  <2>6. ASSUME NEW p \in 1..((n - 1) * m + l)
        PROVE  s[PieceOf(p, m)][PlaceIn(p, m)] = g[p]
    <3>1. PICK q \in Nat : q = p - 1
      OBVIOUS
    <3>2. q < n * m
      <4>1. n * m = (n - 1) * m + m
        BY <2>1
      <4>2. PICK a \in Nat : a = (n - 1) * m
        BY <2>1
      <4>3. QED
        BY <3>1, <4>1, <4>2
    <3>3. q \div m \in 0..(n - 1) /\ q % m \in 0..(m - 1) /\ q = (q \div m) * m + (q % m)
      <4>1. q \div m \in 0..(n - 1)
        BY Zenon, <2>1, <3>2, DivBelow
      <4>2. QED
        BY Zenon, <4>1, DivMod
    <3>4. PICK i \in 1..n, j \in 1..m : i = q \div m + 1 /\ j = (q % m) + 1
      <4>1. PICK b \in 0..(n - 1), c \in 0..(m - 1) : b = q \div m /\ c = q % m
        BY Zenon, <3>3
      <4>2. b + 1 \in 1..n /\ c + 1 \in 1..m
        OBVIOUS
      <4>3. QED
        BY Zenon, <4>1, <4>2
    <3>5. PieceOf(p, m) = i /\ PlaceIn(p, m) = j
      BY Zenon, <3>1, <3>4 DEF PieceOf, PlaceIn
    <3>6. q \div m = i - 1 /\ q % m = j - 1
      BY <3>3, <3>4
    <3>7. (i - 1) * m + j = p
      <4>1. q = (i - 1) * m + (j - 1)
        BY Zenon, <3>3, <3>6
      <4>2. PICK a \in Nat : a = (i - 1) * m
        OBVIOUS
      <4>3. QED
        BY <3>1, <4>1, <4>2
    <3>8. CASE i # n
      <4>1. i \in 1..(n - 1)
        BY <3>8
      <4>2. s[i] = CutOf(g, i, m, m)
        BY Zenon, <2>2, <4>1
      <4>3. s[i][j] = g[(i - 1) * m + j]
        BY Zenon, <4>2 DEF CutOf
      <4>4. QED
        BY Zenon, <3>5, <3>7, <4>3
    <3>9. CASE i = n
      <4>1. j \in 1..l
        <5>1. PICK a \in Nat : a = (n - 1) * m
          BY <2>1
        <5>2. a + j = p /\ p <= a + l
          BY <3>7, <3>9, <5>1
        <5>3. QED
          BY <5>2
      <4>2. s[n][j] = g[(n - 1) * m + j]
        BY Zenon, <2>2, <4>1 DEF CutOf
      <4>3. QED
        BY Zenon, <3>5, <3>7, <3>9, <4>2
    <3>10. QED
      BY Zenon, <3>8, <3>9
  <2>7. QED
    BY Zenon, <1>2, <2>5, <2>6 DEF Flat, Rejoins
<1>3. QED
  BY <1>1, <1>2

-----------------------------------------------------------------------------
(* A lane that is not past the end has its own row. *)
LEMMA OwnRow ==
  ASSUME NEW r0 \in Nat, NEW i \in Nat, r0 + i < C!rows
  PROVE  C!NeonRow(r0, i, C!rows) = r0 + i
BY DEF C!NeonRow

Steps(a, n, m) == [k \in 1..n |-> a + (k - 1) * m]

LEMMA UpToOf ==
  ASSUME NEW a \in Nat, NEW n \in Nat, NEW m \in Nat \ {0}, NEW b, b = a + n * m
  PROVE  C!UpTo(a, b, m) = Steps(a, n, m)
<1>1. PICK c \in Nat : c = n * m
  OBVIOUS
<1>2. (b - a) + (m - 1) = n * m + (m - 1) /\ m - 1 \in 0..(m - 1)
  BY <1>1
<1>3. ((b - a) + (m - 1)) \div m = n
  BY Zenon, <1>2, DivModOf
<1>4. QED
  BY Zenon, <1>3 DEF C!UpTo, Steps

BfRow(r, t) == [k \in 1..C!cols |-> BfTerm(r, t, k - 1)]

LEMMA NeonRight ==
  ASSUME Called, call.format = "bf16", NEW r0 \in Nat, NEW i \in Nat, r0 + i < C!rows, NEW t \in Nat
  PROVE  C!NeonSum(r0, i, t) = C!ReferenceSum(r0 + i, t)
<1> DEFINE vector == (i \div NeonRows) * NeonRows
           lane == i - vector + 1
           p(j) == C!NeonRow(r0, j, C!rows) * C!cols
           c4 == (C!cols \div NeonRows) * NeonRows
           Rows(c) == [j \in 1..NeonRows |->
                        [k \in 1..NeonRows |-> C!Weight(p(vector + j - 1) + c + k - 1)]]
           Four(c) == C!Transposed(Rows(c))
           Quad(c) == [k \in 1..NeonRows |-> C!Term(Four(c)[k][lane], C!Input(t, c + k - 1))]
           Rest(c) == C!Term(C!Weight(p(i) + c), C!Input(t, c))
           quads == C!Each(C!UpTo(0, c4, NeonRows), Quad)
           rest == C!Each(C!UpTo(c4, C!cols, 1), Rest)
<1>1. C!NeonSum(r0, i, t) = C!FlattenSeq(quads) \o rest
  BY DEF C!NeonSum
<1>2. PICK n \in Nat \ {0} : n = C!cols
  BY CalledIs
<1>3. NeonRows \in Nat \ {0}
  BY KernelSizes
<1>4. PICK q \in Nat, e \in 0..(NeonRows - 1) : q = n \div NeonRows /\ n = q * NeonRows + e
  BY <1>2, <1>3, DivMod
<1>5. PICK a \in Nat : a = q * NeonRows
  BY <1>3
<1>6. c4 = a /\ a + e = n
  BY <1>2, <1>4, <1>5
<1>7. PICK r \in Nat : r = r0 + i
  OBVIOUS
<1>8. p(i) = r * n
  BY <1>2, <1>7, OwnRow
<1>9. PICK v \in Nat, l \in 1..NeonRows : v = vector /\ l = lane /\ v + l - 1 = i
  <2>1. /\ i = (i \div NeonRows) * NeonRows + (i % NeonRows)
        /\ i % NeonRows \in 0..(NeonRows - 1) /\ i \div NeonRows \in Nat
    BY Zenon, <1>3, DivMod
  <2>2. PICK v \in Nat : v = vector
    BY <1>3, <2>1
  <2>3. PICK m \in 0..(NeonRows - 1) : m = i % NeonRows /\ i = v + m
    BY Zenon, <2>1, <2>2
  <2> HIDE DEF vector
  <2>4. lane \in 1..NeonRows /\ v + lane - 1 = i
    BY <1>3, <2>2, <2>3
  <2>5. QED
    BY <2>2, <2>4
<1>10. ASSUME NEW c \in Nat, NEW k \in 1..NeonRows, c + k <= n
       PROVE  Quad(c)[k] = BfTerm(r, t, c + (k - 1))
  <2>1. /\ DOMAIN Rows(c) = 1..NeonRows /\ DOMAIN Rows(c)[1] = 1..NeonRows
        /\ \A j \in 1..NeonRows : Rows(c)[j][k] = C!Weight(p(v + j - 1) + c + k - 1)
    BY <1>3, <1>9
  <2> HIDE DEF Rows, p
  <2>2. Four(c)[k][l] = Rows(c)[l][k]
    BY <1>9, <2>1 DEF C!Transposed
  <2>3. Rows(c)[l][k] = C!Weight(p(i) + c + k - 1)
    BY <1>9, <2>1
  <2>4. PICK d \in 0..(n - 1) : d = c + (k - 1) /\ c + k - 1 = d
    BY <1>3, <1>10
  <2>5. C!Weight(p(i) + c + k - 1) = C!Weight(r * n + d)
    <3>1. PICK b \in Nat : b = r * n
      OBVIOUS
    <3>2. p(i) + c + k - 1 = b + d
      BY <1>3, <1>8, <2>4, <3>1
    <3>3. QED
      BY Zenon, <3>1, <3>2
  <2>6. C!Weight(r * n + d) = <<r, d>> /\ C!Input(t, d) = <<t, d>>
    BY Zenon, <1>2, <2>4, CalledIs, WeightAt, InputAt
  <2>7. Quad(c)[k] = C!Term(Four(c)[k][l], C!Input(t, d))
    BY Zenon, <1>9, <2>4
  <2>8. QED
    BY Zenon, <2>2, <2>3, <2>4, <2>5, <2>6, <2>7 DEF BfTerm
<1>11. ASSUME NEW d \in 0..(n - 1) PROVE Rest(d) = BfTerm(r, t, d)
  BY Zenon, <1>2, <1>8, CalledIs, WeightAt, InputAt DEF BfTerm
<1>12. C!UpTo(0, c4, NeonRows) = Steps(0, q, NeonRows)
  <2>1. PICK z \in Nat : z = 0
    OBVIOUS
  <2>2. a = z + q * NeonRows
    BY <1>3, <1>5, <2>1
  <2>3. C!UpTo(z, a, NeonRows) = Steps(z, q, NeonRows)
    BY Zenon, <1>3, <2>2, UpToOf
  <2>4. QED
    BY Zenon, <1>6, <2>1, <2>3
<1>13. C!UpTo(c4, C!cols, 1) = Steps(a, e, 1)
  <2>1. PICK o \in Nat \ {0} : o = 1
    OBVIOUS
  <2>2. n = a + e * o /\ e \in Nat
    BY <1>3, <1>6, <2>1
  <2>3. C!UpTo(a, n, o) = Steps(a, e, o)
    BY <2>2, UpToOf
  <2>4. QED
    BY Zenon, <1>2, <1>6, <2>1, <2>3
<1> DEFINE g == BfRow(r, t)
<1>14. \A k \in 1..n : g[k] = BfTerm(r, t, k - 1)
  BY Zenon, <1>2 DEF BfRow
<1> HIDE DEF c4, p, vector, lane, Four, Rest, Quad, g
<1>15. Cut(quads, g, q, NeonRows, NeonRows)
  <2>1. quads = [k \in 1..q |-> Quad(0 + (k - 1) * NeonRows)]
    BY Zenon, <1>12 DEF C!Each, Steps
  <2>2. ASSUME NEW k \in 1..q PROVE quads[k] = CutOf(g, k, NeonRows, NeonRows)
    <3>1. PICK c \in Nat : c = (k - 1) * NeonRows
      BY <1>3
    <3>2. c + NeonRows <= n
      <4>1. (k - 1) * NeonRows + NeonRows = k * NeonRows /\ k * NeonRows <= q * NeonRows
        BY <1>3
      <4>2. PICK b \in Nat : b = k * NeonRows
        BY <1>3
      <4>3. QED
        BY <1>3, <1>5, <1>6, <3>1, <4>1, <4>2
    <3>3. quads[k] = Quad(c)
      <4>1. 0 + c = c
        OBVIOUS
      <4>2. QED
        BY Zenon, <2>1, <3>1, <4>1
    <3>4. ASSUME NEW j \in 1..NeonRows PROVE Quad(c)[j] = g[c + j]
      <4>1. c + j \in 1..n /\ c + j <= n /\ c + j - 1 = c + (j - 1)
        BY <1>3, <3>2
      <4>2. Quad(c)[j] = BfTerm(r, t, c + (j - 1))
        BY Zenon, <1>10, <4>1
      <4>3. (c + j) - 1 = c + (j - 1)
        BY <1>3
      <4>4. QED
        BY Zenon, <1>14, <4>1, <4>2, <4>3
    <3>5. Quad(c) = [j \in 1..NeonRows |-> Quad(c)[j]]
      BY Zenon DEF Quad
    <3>6. QED
      BY Zenon, <3>1, <3>3, <3>4, <3>5 DEF CutOf
  <2>3. \A k \in 1..(q - 1) : k \in 1..q
    OBVIOUS
  <2>4. q # 0 => q \in 1..q
    OBVIOUS
  <2>5. Listed(quads, q)
    BY Zenon, <2>1 DEF Listed
  <2>6. QED
    BY Zenon, <2>2, <2>3, <2>4, <2>5 DEF Cut
<1>16. C!FlattenSeq(quads) = [k \in 1..a |-> g[k]]
  <2>1. NeonRows \in 1..NeonRows
    BY <1>3
  <2> HIDE DEF quads
  <2>2. Rejoins(quads, g, q, NeonRows, NeonRows)
    BY Zenon, <1>3, <1>15, <2>1, Rejoined
  <2>3. (IF q = 0 THEN 0 ELSE (q - 1) * NeonRows + NeonRows) = a
    <3>1. q * NeonRows = (q - 1) * NeonRows + NeonRows /\ (q = 0 => q * NeonRows = 0)
      BY <1>3
    <3>2. QED
      BY Zenon, <1>5, <3>1
  <2>4. QED
    BY Zenon, <2>2, <2>3 DEF Rejoins
<1>17. rest = [k \in 1..e |-> g[a + k]]
  <2>1. rest = [k \in 1..e |-> Rest(a + (k - 1) * 1)]
    BY Zenon, <1>13 DEF C!Each, Steps
  <2>2. ASSUME NEW k \in 1..e PROVE Rest(a + (k - 1) * 1) = g[a + k]
    <3>1. a + (k - 1) * 1 = (a + k) - 1 /\ a + k \in 1..n /\ (a + k) - 1 \in 0..(n - 1)
      BY <1>6
    <3>2. QED
      BY Zenon, <1>11, <1>14, <3>1
  <2>3. QED
    BY Zenon, <2>1, <2>2
<1> HIDE DEF quads, rest
<1>18. C!FlattenSeq(quads) \o rest = [k \in 1..n |-> g[k]]
  <2>1. JoinedTo(C!FlattenSeq(quads), a, rest, e)
    <3>1. Listed(C!FlattenSeq(quads), a) /\ Listed(rest, e)
      BY Zenon, <1>16, <1>17 DEF Listed
    <3>2. e \in Nat
      BY <1>3
    <3>3. QED
      BY Zenon, <3>1, <3>2, ListedConcat
  <2>2. ASSUME NEW k \in 1..(a + e)
        PROVE  (IF k <= a THEN C!FlattenSeq(quads)[k] ELSE rest[k - a]) = g[k]
    <3>1. CASE k <= a
      <4>1. k \in 1..a
        BY <3>1
      <4>2. QED
        BY Zenon, <1>16, <3>1, <4>1
    <3>2. CASE ~(k <= a)
      <4>1. k - a \in 1..e /\ a + (k - a) = k
        BY <3>2
      <4>2. QED
        BY Zenon, <1>17, <3>2, <4>1
    <3>3. QED
      BY Zenon, <3>1, <3>2
  <2>3. QED
    BY Zenon, <1>6, <2>1, <2>2 DEF JoinedTo
<1>19. C!ReferenceSum(r, t) = [k \in 1..n |-> g[k]]
  <2>1. C!ReferenceSum(r, t) = [k \in 1..C!cols |-> BfTerm(r, t, k - 1)]
    BY BfReference
  <2>2. QED
    BY Zenon, <1>2, <1>14, <2>1
<1>20. QED
  BY Zenon, <1>1, <1>7, <1>18, <1>19

(* Where a row's pair is among its scales and bytes. *)
LEMMA PairPlace ==
  ASSUME NEW n \in Nat \ {0}, NEW h \in Nat \ {0}, Quantized(n, h), NEW b \in 0..(n - 1), NEW k \in 1..h
  PROVE  /\ b * h + k \in 1..(n * h) /\ Even(b * h + k) = b * ScaleCols + 2 * k - 2
         /\ Even(b * h + k) \div ScaleCols = b
<1>1. PICK s \in Nat \ {0} : s = ScaleCols /\ s = 2 * h
  BY DEF Quantized
<1>2. PICK a \in Nat : a = b * h
  OBVIOUS
<1>3. b * s = 2 * a
  BY <1>1, <1>2
<1>4. Even(a + k) = b * s + 2 * k - 2 /\ Even(a + k) = b * s + (2 * (k - 1))
  BY <1>2, <1>3 DEF Even
<1>5. b \in Nat /\ 2 * (k - 1) \in 0..(s - 1)
  BY <1>1
<1>6. (b * s + (2 * (k - 1))) \div s = b
  BY Zenon, <1>5, DivModOf
<1>7. a + k \in 1..(n * h)
  <2>1. PICK r \in 0..(h - 1) : r = k - 1
    OBVIOUS
  <2>2. b * h + r \in 0..(n * h - 1)
    <3>1. b \in Nat /\ b < n
      OBVIOUS
    <3>2. QED
      BY <3>1, PairBelow
  <2>3. PICK m \in Nat : m = n * h
    OBVIOUS
  <2>4. a + r \in 0..(m - 1)
    BY <1>2, <2>2, <2>3
  <2>5. a + k \in 1..m
    BY <2>1, <2>4
  <2>6. QED
    BY <2>3, <2>5
<1>8. QED
  BY Zenon, <1>1, <1>2, <1>4, <1>6, <1>7

LEMMA QuantizedHalves ==
  ASSUME NEW n \in Nat \ {0}, NEW h \in Nat \ {0}, Quantized(n, h)
  PROVE  n * h \in Nat \ {0} /\ Halved(n * h) /\ C!cols = n * ScaleCols
<1>1. n * (2 * h) = 2 * (n * h) /\ n * h # 0
  OBVIOUS
<1>2. QED
  BY <1>1 DEF Quantized, Halved

FpRow(r, t, n) == [k \in 1..n |-> FpTerm(r, t, Even(k))]

(* The bytes of a block, split in even and odd columns. *)
SplitBlock(r, h, t, b) ==
  LET q == (r * C!cols) \div 2 + b * h
      even == [k \in 1..h |-> C!Byte(q + k - 1).low]
      odd == [k \in 1..h |-> C!Byte(q + k - 1).high]
  IN  [k \in 1..h |->
        C!Pair(C!Scale((r * C!cols) \div ScaleCols + b), even[k], odd[k], t, b * ScaleCols + 2 * k - 2)]

LEMMA NeonPairsRight ==
  ASSUME Called, call.format = "nvfp4", NEW r0 \in Nat, NEW i \in Nat, r0 + i < C!rows, NEW t \in Nat
  PROVE  C!NeonPairs(r0, i, t) = C!ReferenceSum(r0 + i, t)
<1>1. PICK r \in Nat : r = r0 + i
  OBVIOUS
<1>2. C!NeonRow(r0, i, C!rows) = r
  BY <1>1, OwnRow
<1>3. PICK n \in Nat \ {0}, h \in Nat \ {0} : Quantized(n, h)
  BY QuantizedIs
<1>4. PICK p \in Nat \ {0} : p = n * h
  OBVIOUS
<1>5. Halved(p) /\ C!cols = n * ScaleCols /\ C!cols \in Nat \ {0} /\ ScaleCols \in Nat \ {0}
  BY <1>3, <1>4, QuantizedHalves, CalledIs, KernelSizes
<1>6. ScaleCols \div 2 = h
  BY <1>3, <1>5 DEF Quantized
<1>7. C!cols \div ScaleCols = n
  <2>1. PICK s \in Nat \ {0} : s = ScaleCols
    BY <1>5
  <2>2. 0 \in 0..(s - 1) /\ C!cols = n * s + 0
    BY <1>5, <2>1
  <2>3. QED
    BY Zenon, <2>1, <2>2, DivModOf
<1> DEFINE q(b) == (r * C!cols) \div 2 + b * h
           Block(b) == [k \in 1..h |->
             C!Pair(C!Scale((r * C!cols) \div ScaleCols + b),
                    C!Byte(q(b) + k - 1).low, C!Byte(q(b) + k - 1).high, t, b * ScaleCols + 2 * k - 2)]
           units == C!Each(C!UpTo(0, n, 1), Block)
           g == FpRow(r, t, p)
<1>8. C!NeonPairs(r0, i, t) = C!FlattenSeq(units)
  <2>1. C!NeonPairs(r0, i, t)
          = C!FlattenSeq(C!Each(C!UpTo(0, C!cols \div ScaleCols, 1),
                                LAMBDA b : SplitBlock(C!NeonRow(r0, i, C!rows), ScaleCols \div 2, t, b)))
    BY DEF C!NeonPairs, SplitBlock
  <2>2. \A b : SplitBlock(r, h, t, b) = Block(b)
    BY Zenon DEF SplitBlock
  <2> HIDE DEF Block
  <2>3. C!Each(C!UpTo(0, C!cols \div ScaleCols, 1),
               LAMBDA b : SplitBlock(C!NeonRow(r0, i, C!rows), ScaleCols \div 2, t, b)) = units
    BY Zenon, <1>2, <1>6, <1>7, <2>2 DEF C!Each
  <2>4. QED
    BY Zenon, <2>1, <2>3
<1>9. ASSUME NEW b \in 0..(n - 1), NEW k \in 1..h
      PROVE  Block(b)[k] = g[b * h + k]
  <2>1. PICK j \in 1..p : j = b * h + k
    BY <1>3, <1>4, PairPlace
  <2>2. Even(j) = b * ScaleCols + 2 * k - 2 /\ Even(j) \div ScaleCols = b
    BY <1>3, <2>1, PairPlace
  <2>3. q(b) + k - 1 = (r * C!cols) \div 2 + (j - 1)
    <3>1. PICK a \in Nat : a = (r * C!cols) \div 2
      BY <1>5
    <3>2. PICK c \in Nat : c = b * h
      OBVIOUS
    <3>3. a + c + k - 1 = a + ((c + k) - 1)
      OBVIOUS
    <3>4. QED
      BY Zenon, <2>1, <3>1, <3>2, <3>3
  <2>4. C!Byte((r * C!cols) \div 2 + (j - 1)) = [low |-> <<r, Even(j)>>, high |-> <<r, Even(j) + 1>>]
    BY Zenon, <1>5, ByteAt
  <2>5. C!Byte(q(b) + k - 1).low = <<r, Even(j)>> /\ C!Byte(q(b) + k - 1).high = <<r, Even(j) + 1>>
    BY <2>3, <2>4
  <2>6. C!Scale((r * C!cols) \div ScaleCols + b) = <<r, Even(j) \div ScaleCols>>
    BY Zenon, <1>5, <2>2, ScaleAt
  <2>7. C!Pair(<<r, Even(j) \div ScaleCols>>, <<r, Even(j)>>, <<r, Even(j) + 1>>, t, Even(j))
          = FpTerm(r, t, Even(j))
    BY Zenon, <1>5, PairIs
  <2>8. g[j] = FpTerm(r, t, Even(j))
    BY Zenon DEF FpRow
  <2>9. Block(b)[k] = FpTerm(r, t, Even(j))
    BY Zenon, <2>2, <2>5, <2>6, <2>7
  <2>10. QED
    BY Zenon, <2>1, <2>8, <2>9
<1>10. units = [k \in 1..n |-> Block(0 + (k - 1) * 1)]
  <2>1. PICK z \in Nat, o \in Nat \ {0} : z = 0 /\ o = 1
    OBVIOUS
  <2>2. n = z + n * o
    BY <2>1
  <2>3. C!UpTo(z, n, o) = Steps(z, n, o)
    BY <2>2, UpToOf
  <2> HIDE DEF Block
  <2>4. QED
    BY Zenon, <2>1, <2>3 DEF C!Each, Steps
<1>11. ASSUME NEW k \in 1..n PROVE units[k] = CutOf(g, k, h, h)
  <2>1. PICK b \in 0..(n - 1) : b = k - 1 /\ b = 0 + (k - 1) * 1
    OBVIOUS
  <2>2. units[k] = Block(b)
    BY Zenon, <1>10, <2>1
  <2>3. Block(b) = [j \in 1..h |-> Block(b)[j]]
    BY Zenon
  <2> HIDE DEF Block
  <2>4. QED
    BY Zenon, <1>9, <2>1, <2>2, <2>3 DEF CutOf
<1>12. Listed(units, n)
  <2> HIDE DEF Block
  <2>1. QED
    BY Zenon, <1>10 DEF Listed
<1> HIDE DEF units, g, Block
<1>13. Cut(units, g, n, h, h)
  <2>1. (\A k \in 1..(n - 1) : k \in 1..n) /\ n \in 1..n
    OBVIOUS
  <2>2. QED
    BY Zenon, <1>11, <1>12, <2>1 DEF Cut
<1>14. C!FlattenSeq(units) = [k \in 1..p |-> g[k]]
  <2>1. n \in Nat /\ h \in 1..h /\ (IF n = 0 THEN 0 ELSE (n - 1) * h + h) = p
    <3>1. n * h = (n - 1) * h + h
      OBVIOUS
    <3>2. QED
      BY <1>4, <3>1
  <2>2. Rejoins(units, g, n, h, h)
    BY Zenon, <1>13, <2>1, Rejoined
  <2>3. QED
    BY Zenon, <2>1, <2>2 DEF Rejoins
<1>15. C!ReferenceSum(r, t) = [k \in 1..p |-> FpTerm(r, t, Even(k))]
  BY <1>5, FpReference
<1>16. \A k \in 1..p : g[k] = FpTerm(r, t, Even(k))
  BY Zenon DEF g, FpRow
<1>17. QED
  BY Zenon, <1>1, <1>8, <1>14, <1>15, <1>16

-----------------------------------------------------------------------------
(* Images: some rows side by side for every column. *)

(* Of place p: its lane of n, its column of m, and its tile. *)
Imaged(p, T, n, m, c, l) == p % n = l /\ (p \div n) % m = c /\ p \div (n * m) = T

LEMMA ImageAt ==
  ASSUME NEW T \in Nat, NEW n \in Nat \ {0}, NEW m \in Nat \ {0}, NEW c \in 0..(m - 1),
         NEW l \in 0..(n - 1)
  PROVE  Imaged((T * m + c) * n + l, T, n, m, c, l)
<1>1. PICK a \in Nat : a = T * m + c
  OBVIOUS
<1>2. (a * n + l) % n = l /\ (a * n + l) \div n = a
  BY DivModOf
<1>3. a % m = c
  BY <1>1, DivModOf
<1>4. PICK p \in Nat \ {0}, d \in Nat : p = n * m /\ d = c * n + l
  OBVIOUS
<1>5. d \in 0..(p - 1)
  <2>1. c \in Nat /\ c < m
    OBVIOUS
  <2>2. c * n + l \in 0..(m * n - 1)
    BY <2>1, PairBelow
  <2>3. m * n = n * m
    OBVIOUS
  <2>4. QED
    BY Zenon, <1>4, <2>2, <2>3
<1>6. (T * p + d) \div p = T
  BY <1>5, DivModOf
<1>7. a * n + l = T * p + d
  <2>1. a * n = (T * m) * n + c * n
    BY <1>1
  <2>2. (T * m) * n = T * (n * m)
    OBVIOUS
  <2>3. PICK e \in Nat, f \in Nat, b \in Nat : e = T * p /\ f = c * n /\ b = a * n
    BY <1>1, <1>4
  <2>4. T * p = (T * m) * n
    BY Zenon, <1>4, <2>2
  <2>5. b = e + f
    BY Zenon, <2>1, <2>3, <2>4
  <2>6. b + l = e + (f + l)
    BY <2>5
  <2>7. QED
    BY Zenon, <1>4, <2>3, <2>6
<1>8. QED
  BY Zenon, <1>1, <1>2, <1>3, <1>4, <1>6, <1>7 DEF Imaged

LEMMA ExactWeightAt ==
  ASSUME Called, NEW T \in Nat, NEW c \in 0..(C!cols - 1), NEW l \in 0..(ExactRows - 1)
  PROVE  C!ExactWeight((T * C!cols + c) * ExactRows + l) = <<T * ExactRows + l, c>>
<1>1. PICK n \in Nat \ {0}, m \in Nat \ {0} : n = ExactRows /\ m = C!cols
  BY KernelSizes, CalledIs
<1>2. PICK p : p = (T * m + c) * n + l
  OBVIOUS
<1>3. p % n = l /\ (p \div n) % m = c /\ p \div (n * m) = T
  <2>1. c \in 0..(m - 1) /\ l \in 0..(n - 1)
    BY <1>1
  <2>2. Imaged((T * m + c) * n + l, T, n, m, c, l)
    BY Zenon, <2>1, ImageAt
  <2>3. QED
    BY Zenon, <1>2, <2>2 DEF Imaged
<1>4. PICK r \in Nat : r = T * n + l
  BY <1>1
<1>5. C!Weight(r * m + c) = <<r, c>>
  BY Zenon, <1>1, CalledIs, WeightAt
<1>6. C!ExactWeight(p) = C!Weight((((p \div (n * m)) * n) + (p % n)) * m + ((p \div n) % m))
  BY Zenon, <1>1 DEF C!ExactWeight
<1>7. QED
  BY Zenon, <1>1, <1>2, <1>3, <1>4, <1>5, <1>6

LEMMA ExactScaleAt ==
  ASSUME Called, NEW n \in Nat \ {0}, NEW h \in Nat \ {0}, Quantized(n, h),
         NEW T \in Nat, NEW b \in 0..(n - 1), NEW l \in 0..(ExactRows - 1)
  PROVE  C!ExactScale((T * n + b) * ExactRows + l) = <<T * ExactRows + l, b>>
<1>1. PICK e \in Nat \ {0}, m \in Nat \ {0} : e = ExactRows /\ m = C!cols
  BY KernelSizes, CalledIs
<1>2. PICK p : p = (T * n + b) * e + l
  OBVIOUS
<1>3. p % e = l /\ (p \div e) % n = b /\ p \div (e * n) = T
  <2>1. l \in 0..(e - 1)
    BY <1>1
  <2>2. Imaged((T * n + b) * e + l, T, e, n, b, l)
    BY Zenon, <2>1, ImageAt
  <2>3. QED
    BY Zenon, <1>2, <2>2 DEF Imaged
<1>4. m \div ScaleCols = n
  <2>1. PICK s \in Nat \ {0} : s = ScaleCols
    BY KernelSizes
  <2>2. 0 \in 0..(s - 1) /\ m = n * s + 0
    BY <1>1, <2>1, QuantizedHalves
  <2>3. QED
    BY Zenon, <2>1, <2>2, DivModOf
<1>5. PICK r \in Nat : r = T * e + l
  BY <1>1
<1>6. C!Scale((r * m) \div ScaleCols + b) = <<r, b>>
  BY Zenon, <1>1, CalledIs, KernelSizes, QuantizedHalves, ScaleAt
<1>7. C!ExactScale(p)
        = C!Scale(((((p \div (e * n)) * e) + (p % e)) * m) \div ScaleCols + ((p \div e) % n))
  BY Zenon, <1>1, <1>4 DEF C!ExactScale
<1>8. QED
  BY Zenon, <1>1, <1>2, <1>3, <1>5, <1>6, <1>7

LEMMA HalfLanes ==
  C!Half \in Nat \ {0} /\ ExactRows = C!Half + C!Half
<1>1. PICK h \in Nat \ {0} : ExactRows = 2 * h
  BY KernelsAssumption, KernelSizes, Halves
<1>2. QED
  BY <1>1 DEF C!Half

(* A column's weight of a row, in the byte the row has it in. *)
NibbleOf(r, c) ==
  LET b == C!Byte((r * C!cols) \div 2 + c \div 2) IN IF c % 2 = 1 THEN b.high ELSE b.low

LEMMA NibbleAt ==
  ASSUME Called, NEW p \in Nat \ {0}, Halved(p), NEW r \in Nat, NEW k \in 1..p
  PROVE  NibbleOf(r, Even(k)) = <<r, Even(k)>> /\ NibbleOf(r, Even(k) + 1) = <<r, Even(k) + 1>>
<1>1. /\ Even(k) \div 2 = k - 1 /\ (Even(k) + 1) \div 2 = k - 1
      /\ Even(k) % 2 = 0 /\ (Even(k) + 1) % 2 = 1
  BY DEF Even
<1>2. C!Byte((r * C!cols) \div 2 + (k - 1)) = [low |-> <<r, Even(k)>>, high |-> <<r, Even(k) + 1>>]
  BY Zenon, CalledIs, ByteAt
<1>3. PICK b : b = C!Byte((r * C!cols) \div 2 + (k - 1))
  OBVIOUS
<1>4. b.low = <<r, Even(k)>> /\ b.high = <<r, Even(k) + 1>>
  BY <1>2, <1>3
<1>5. NibbleOf(r, Even(k)) = b.low /\ NibbleOf(r, Even(k) + 1) = b.high
  BY <1>1, <1>3 DEF NibbleOf
<1>6. QED
  BY <1>4, <1>5

LEMMA ExactCodeAt ==
  ASSUME Called, NEW T \in Nat, NEW c \in 0..(C!cols - 1), NEW l \in 0..(ExactRows - 1)
  PROVE  C!ExactCode((T * C!cols + c) * C!Half, l) = NibbleOf(T * ExactRows + l, c)
<1>1. PICK h \in Nat \ {0}, m \in Nat \ {0}, e \in Nat \ {0} :
        h = C!Half /\ m = C!cols /\ e = ExactRows /\ e = h + h
  BY HalfLanes, KernelSizes, CalledIs
<1>2. PICK a \in Nat : a = (T * m + c) * h
  BY <1>1
<1>3. ASSUME NEW k \in 0..(h - 1)
      PROVE  C!ExactByte(a + k) = [low |-> NibbleOf(T * e + k, c), high |-> NibbleOf(T * e + k + h, c)]
  <2>1. PICK p : p = (T * m + c) * h + k
    OBVIOUS
  <2>2. p % h = k /\ (p \div h) % m = c /\ p \div (h * m) = T
    <3>1. c \in 0..(m - 1)
      BY <1>1
    <3>2. Imaged((T * m + c) * h + k, T, h, m, c, k)
      BY Zenon, <3>1, ImageAt
    <3>3. QED
      BY Zenon, <2>1, <3>2 DEF Imaged
  <2>3. C!ExactByte(p) = [low |-> NibbleOf(((p \div (h * m)) * e) + (p % h), (p \div h) % m),
                         high |-> NibbleOf((((p \div (h * m)) * e) + (p % h)) + h, (p \div h) % m)]
    BY Zenon, <1>1 DEF C!ExactByte, NibbleOf
  <2>4. QED
    BY Zenon, <1>2, <2>1, <2>2, <2>3
<1>4. CASE l < h
  <2>1. l \in 0..(h - 1)
    BY <1>4
  <2>2. C!ExactCode(a, l) = C!ExactByte(a + l).low
    BY Zenon, <1>1, <1>4 DEF C!ExactCode
  <2>3. C!ExactByte(a + l).low = NibbleOf(T * e + l, c)
    <3>1. C!ExactByte(a + l)
            = [low |-> NibbleOf(T * e + l, c), high |-> NibbleOf(T * e + l + h, c)]
      BY Zenon, <1>3, <2>1
    <3>2. QED
      BY <3>1
  <2>4. QED
    BY Zenon, <1>1, <1>2, <2>2, <2>3
<1>5. CASE ~(l < h)
  <2>1. PICK k \in 0..(h - 1) : k = l - h /\ k + h = l
    BY <1>1, <1>5
  <2>2. C!ExactCode(a, l) = C!ExactByte(a + l - h).high
    BY Zenon, <1>1, <1>5 DEF C!ExactCode
  <2>3. a + l - h = a + k
    BY <2>1
  <2>4. C!ExactByte(a + k).high = NibbleOf(T * e + k + h, c)
    <3>1. C!ExactByte(a + k)
            = [low |-> NibbleOf(T * e + k, c), high |-> NibbleOf(T * e + k + h, c)]
      BY Zenon, <1>3
    <3>2. QED
      BY <3>1
  <2>5. T * e + k + h = T * e + l
    <3>1. PICK b \in Nat : b = T * e
      BY <1>1
    <3>2. b + k + h = b + l
      BY <2>1
    <3>3. QED
      BY Zenon, <3>1, <3>2
  <2>6. QED
    BY Zenon, <1>1, <1>2, <2>2, <2>3, <2>4, <2>5
<1>6. QED
  BY <1>4, <1>5

LEMMA ExactBf ==
  ASSUME Called, call.format = "bf16", NEW T \in Nat, NEW l \in 0..(ExactRows - 1), NEW t \in Nat
  PROVE  C!ExactSum(T * ExactRows, l, t) = C!ReferenceSum(T * ExactRows + l, t)
<1>1. PICK n \in Nat \ {0}, e \in Nat \ {0}, r \in Nat, rt \in Nat :
        n = C!cols /\ e = ExactRows /\ r = T * ExactRows + l /\ rt = T * ExactRows
  BY KernelSizes, CalledIs
<1>2. C!ExactSum(rt, l, t)
        = C!Each(C!Columns, LAMBDA c : C!Term(C!ExactWeight(rt * C!cols + c * ExactRows + l), C!Input(t, c)))
  BY DEF C!ExactSum
<1>3. ASSUME NEW c \in 0..(n - 1)
      PROVE  C!Term(C!ExactWeight(rt * C!cols + c * ExactRows + l), C!Input(t, c)) = BfTerm(r, t, c)
  <2>1. rt * n + c * e + l = (T * n + c) * e + l
    <3>1. rt * n = (T * n) * e
      <4>1. rt = T * e
        BY <1>1
      <4>2. (T * e) * n = (T * n) * e
        OBVIOUS
      <4>3. QED
        BY Zenon, <4>1, <4>2
    <3>2. (T * n + c) * e = (T * n) * e + c * e
      OBVIOUS
    <3>3. QED
      BY Zenon, <3>1, <3>2
  <2>2. C!ExactWeight((T * n + c) * e + l) = <<r, c>>
    BY Zenon, <1>1, ExactWeightAt
  <2>3. C!Input(t, c) = <<t, c>>
    BY Zenon, <1>1, InputAt
  <2>4. QED
    BY Zenon, <1>1, <2>1, <2>2, <2>3 DEF BfTerm
<1>4. \A k \in 1..n : k - 1 \in 0..(n - 1)
  OBVIOUS
<1>5. C!Columns = [k \in 1..n |-> k - 1]
  BY Zenon, <1>1, ColumnsAre
<1>6. C!ExactSum(rt, l, t) = [k \in 1..n |-> BfTerm(r, t, k - 1)]
  BY Zenon, <1>2, <1>3, <1>4, <1>5 DEF C!Each
<1>7. C!ReferenceSum(r, t) = [k \in 1..C!cols |-> BfTerm(r, t, k - 1)]
  BY BfReference
<1>8. QED
  BY Zenon, <1>1, <1>6, <1>7

LEMMA ExactFp ==
  ASSUME Called, call.format = "nvfp4", NEW T \in Nat, NEW l \in 0..(ExactRows - 1), NEW t \in Nat
  PROVE  C!ExactSum(T * ExactRows, l, t) = C!ReferenceSum(T * ExactRows + l, t)
<1>1. PICK m \in Nat \ {0}, e \in Nat \ {0}, r \in Nat, rt \in Nat :
        m = C!cols /\ e = ExactRows /\ r = T * ExactRows + l /\ rt = T * ExactRows
  BY KernelSizes, CalledIs
<1>2. PICK n \in Nat \ {0}, h \in Nat \ {0} : Quantized(n, h)
  BY QuantizedIs
<1>3. PICK p \in Nat \ {0} : p = n * h
  OBVIOUS
<1>4. Halved(p) /\ C!cols = n * ScaleCols
  BY <1>2, <1>3, QuantizedHalves
<1>5. C!cols \div ScaleCols = n
  <2>1. PICK s \in Nat \ {0} : s = ScaleCols
    BY KernelSizes
  <2>2. 0 \in 0..(s - 1) /\ C!cols = n * s + 0
    BY <1>4, <2>1
  <2>3. QED
    BY Zenon, <2>1, <2>2, DivModOf
<1>6. rt \div ExactRows = T
  <2>1. 0 \in 0..(e - 1) /\ rt = T * e + 0
    BY <1>1
  <2>2. (T * e + 0) \div e = T
    BY <2>1, DivModOf
  <2>3. QED
    BY Zenon, <1>1, <2>1, <2>2
<1> DEFINE Each(u, v, c) ==
      C!Pair(C!ExactScale((u * v + c \div ScaleCols) * ExactRows + l),
             C!ExactCode((u * C!cols + c) * C!Half, l),
             C!ExactCode((u * C!cols + c + 1) * C!Half, l), t, c)
<1>7. C!ExactSum(rt, l, t)
        = C!Each(C!Evens, LAMBDA c : Each(rt \div ExactRows, C!cols \div ScaleCols, c))
  BY DEF C!ExactSum
<1>8. ASSUME NEW k \in 1..p
      PROVE  Each(T, n, Even(k)) = FpTerm(r, t, Even(k))
  <2>1. PICK c \in Nat : c = Even(k)
    BY DEF Even
  <2>2. c \in 0..(m - 1) /\ c + 1 \in 0..(m - 1) /\ c < n * ScaleCols
    BY <1>1, <1>4, <2>1 DEF Even, Halved
  <2>3. c \div ScaleCols \in 0..(n - 1)
    BY Zenon, <2>2, KernelSizes, DivBelow
  <2>4. C!ExactScale((T * n + c \div ScaleCols) * ExactRows + l) = <<r, c \div ScaleCols>>
    <3>1. PICK d \in Nat : d = c \div ScaleCols
      BY <2>3
    <3>2. d \in 0..(n - 1)
      BY Zenon, <2>3, <3>1
    <3>3. C!ExactScale((T * n + d) * ExactRows + l) = <<T * ExactRows + l, d>>
      BY Zenon, <1>2, <3>2, ExactScaleAt
    <3>4. QED
      BY Zenon, <1>1, <3>1, <3>3
  <2>5. C!ExactCode((T * m + c) * C!Half, l) = NibbleOf(r, c)
    BY Zenon, <1>1, <2>2, ExactCodeAt
  <2>6. T * m + c + 1 = T * m + (c + 1)
    <3>1. PICK a \in Nat : a = T * m
      OBVIOUS
    <3>2. a + c + 1 = a + (c + 1)
      OBVIOUS
    <3>3. QED
      BY Zenon, <3>1, <3>2
  <2>7. C!ExactCode((T * m + (c + 1)) * C!Half, l) = NibbleOf(r, c + 1)
    BY Zenon, <1>1, <2>2, ExactCodeAt
  <2>8. NibbleOf(r, c) = <<r, c>> /\ NibbleOf(r, c + 1) = <<r, c + 1>>
    BY Zenon, <1>4, <2>1, NibbleAt
  <2>9. C!Pair(<<r, c \div ScaleCols>>, <<r, c>>, <<r, c + 1>>, t, c) = FpTerm(r, t, c)
    BY Zenon, <1>4, <2>1, CalledIs, PairIs
  <2>10. Each(T, n, c) = FpTerm(r, t, c)
    BY Zenon, <1>1, <2>4, <2>5, <2>6, <2>7, <2>8, <2>9
  <2>11. QED
    BY Zenon, <2>1, <2>10
<1> HIDE DEF Each
<1>9. C!Evens = [k \in 1..p |-> Even(k)]
  BY Zenon, <1>4, CalledIs, EvensAre
<1>10. C!ExactSum(rt, l, t) = [k \in 1..p |-> FpTerm(r, t, Even(k))]
  BY Zenon, <1>5, <1>6, <1>7, <1>8, <1>9 DEF C!Each
<1>11. C!ReferenceSum(r, t) = [k \in 1..p |-> FpTerm(r, t, Even(k))]
  BY <1>4, FpReference
<1>12. QED
  BY Zenon, <1>1, <1>10, <1>11

-----------------------------------------------------------------------------
(* Whatever takes a row, the sum is the reference's. *)

LEMMA LanesAre ==
  ASSUME Called
  PROVE  /\ C!Lanes \in Nat \ {0}
         /\ call.kernel = "exact" => C!Lanes = ExactRows
         /\ call.kernel = "scalar" => C!Lanes = 1
BY CalledIs, KernelSizes DEF C!Lanes

LEMMA SumsRight ==
  ASSUME Called, NEW b \in Nat, NEW i \in 0..(C!Lanes - 1), b * C!Lanes + i < C!rows, NEW t \in Nat
  PROVE  C!SumOf(b * C!Lanes, i, t) = C!ReferenceSum(b * C!Lanes + i, t)
<1>1. PICK n \in Nat \ {0}, r0 \in Nat : n = C!Lanes /\ r0 = b * C!Lanes
  BY LanesAre
<1>2. i \in Nat /\ r0 + i < C!rows /\ r0 + i \in Nat
  BY <1>1
<1>3. CASE call.kernel = "scalar"
  <2>1. i = 0 /\ r0 + i = r0
    BY <1>1, <1>3, LanesAre
  <2>2. C!SumOf(r0, i, t) = C!ScalarSum(r0, t)
    BY <1>3 DEF C!SumOf
  <2>3. C!ScalarSum(r0, t) = C!ReferenceSum(r0, t)
    BY Zenon, ScalarRight
  <2>4. QED
    BY Zenon, <1>1, <2>1, <2>2, <2>3
<1>4. CASE call.kernel = "exact"
  <2>1. C!Lanes = ExactRows
    BY <1>4, LanesAre
  <2>2. C!SumOf(r0, i, t) = C!ExactSum(r0, i, t)
    BY <1>4 DEF C!SumOf
  <2>3. i \in 0..(ExactRows - 1)
    BY <2>1
  <2>4. call.format = "bf16" \/ call.format = "nvfp4"
    BY CalledIs DEF Formats
  <2>5. C!ExactSum(b * ExactRows, i, t) = C!ReferenceSum(b * ExactRows + i, t)
    <3>1. CASE call.format = "bf16"
      BY <2>3, <3>1, ExactBf
    <3>2. CASE call.format = "nvfp4"
      BY <2>3, <3>2, ExactFp
    <3>3. QED
      BY <2>4, <3>1, <3>2
  <2>6. QED
    BY Zenon, <1>1, <2>1, <2>2, <2>5
<1>5. CASE call.kernel = "neon" /\ call.format = "nvfp4"
  <2>1. C!SumOf(r0, i, t) = C!NeonPairs(r0, i, t)
    BY <1>5 DEF C!SumOf
  <2>2. C!NeonPairs(r0, i, t) = C!ReferenceSum(r0 + i, t)
    BY <1>2, <1>5, NeonPairsRight
  <2>3. QED
    BY Zenon, <1>1, <2>1, <2>2
<1>6. CASE call.kernel \in {"neon", "dots"} /\ call.format = "bf16"
  <2>1. C!SumOf(r0, i, t) = C!NeonSum(r0, i, t)
    BY <1>6 DEF C!SumOf
  <2>2. C!NeonSum(r0, i, t) = C!ReferenceSum(r0 + i, t)
    BY <1>2, <1>6, NeonRight
  <2>3. QED
    BY Zenon, <1>1, <2>1, <2>2
<1>7. QED
  BY <1>3, <1>4, <1>5, <1>6, CalledIs DEF Formats, Called

-----------------------------------------------------------------------------
(* What is stored, item by item. *)

Stores(V) == UNION {[D0 -> Seq(V)] : D0 \in SUBSET Nat}

StoredBy(r, items, n, V, w0) ==
  /\ r \in [0..n -> Stores(V)] /\ r[0] = w0
  /\ \A i \in 1..n : r[i] = C!Store(r[i - 1], items[i])
  /\ C!FoldLeft(C!Store, w0, items) = r[n]

(* At an index that holds nothing, a sum is stored alone. *)
StoredAlone(w1, w, a, e) ==
  w1 = [i \in DOMAIN w \cup {a} |-> IF i = a THEN <<e>> ELSE w[i]]

LEMMA StoreAlone ==
  ASSUME NEW w, NEW s, s.at \notin DOMAIN w
  PROVE  StoredAlone(C!Store(w, s), w, s.at, s.sum)
<1>1. Append(<<>>, s.sum) = <<s.sum>>
  OBVIOUS
<1>2. QED
  BY Zenon, <1>1 DEF C!Store, StoredAlone

LEMMA StoreIn ==
  ASSUME NEW V, NEW w \in Stores(V), NEW s, s.at \in Nat, s.sum \in V
  PROVE  C!Store(w, s) \in Stores(V)
<1>1. PICK D0 \in SUBSET Nat : w \in [D0 -> Seq(V)]
  BY DEF Stores
<1>2. PICK a \in Nat : a = s.at
  OBVIOUS
<1> DEFINE v == IF a \in D0 THEN w[a] ELSE <<>>
           u == Append(v, s.sum)
<1>3. v \in Seq(V)
  <2>1. CASE a \in D0
    BY <1>1, <2>1
  <2>2. CASE a \notin D0
    BY <2>2
  <2>3. QED
    BY <2>1, <2>2
<1> HIDE DEF v
<1>4. u \in Seq(V)
  BY <1>3
<1> HIDE DEF u
<1>5. C!Store(w, s) = [i \in D0 \cup {a} |-> IF i = a THEN u ELSE w[i]]
  BY Zenon, <1>1, <1>2 DEF C!Store, u, v
<1>7. C!Store(w, s) \in [D0 \cup {a} -> Seq(V)]
  BY <1>1, <1>4, <1>5
<1>8. D0 \cup {a} \in SUBSET Nat
  OBVIOUS
<1>9. QED
  BY Zenon, <1>7, <1>8 DEF Stores

LEMMA StoredRuns ==
  ASSUME NEW V, NEW n \in Nat, NEW items, DOMAIN items = 1..n,
         \A i \in 1..n : items[i].at \in Nat /\ items[i].sum \in V,
         NEW w0 \in Stores(V)
  PROVE  \E r : StoredBy(r, items, n, V, w0)
<1> DEFINE f == [i \in 1..n |-> [w \in Stores(V) |-> C!Store(w, items[i])]]
           G(g) == g = [t \in SUBSET DOMAIN items |->
                          IF t = {} THEN w0 ELSE C!Store(g[t \ {Max(t)}], items[Max(t)])]
           g == CHOOSE g : G(g)
<1>1. f \in Turns(n, Stores(V))
  <2>1. \A i \in 1..n : \A w \in Stores(V) : C!Store(w, items[i]) \in Stores(V)
    BY Zenon, StoreIn
  <2>2. QED
    BY Zenon, <2>1 DEF Turns
<1>2. \A i \in 1..n : \A w \in Stores(V) : f[i][w] = C!Store(w, items[i])
  BY Zenon
<1>3. C!FoldLeft(C!Store, w0, items) = g[DOMAIN items]
  BY Zenon DEF C!FoldLeft, C!MapThenFoldSet, C!Max, Max
<1> HIDE DEF f
<1>4. \E h : G(h)
  <2>1. PICK h : Iterates(h, f, w0, n, Stores(V))
    BY Zenon, <1>1, IterationExists
  <2>2. ASSUME NEW t \in SUBSET (1..n)
        PROVE  h[t] = IF t = {} THEN w0 ELSE C!Store(h[t \ {Max(t)}], items[Max(t)])
    BY Zenon, <1>2, <2>1 DEF Iterates
  <2>3. h = [t \in SUBSET (1..n) |-> h[t]]
    BY Zenon, <2>1 DEF Iterates
  <2>4. G(h)
    BY Zenon, <2>2, <2>3
  <2>5. QED
    BY Zenon, <2>4
<1>5. G(g)
  BY Zenon, <1>4
<1> HIDE DEF g
<1>6. GoesBy(g, f, w0, n, Stores(V))
  <2>1. ASSUME NEW t \in SUBSET (1..n)
        PROVE  /\ t = {} => g[t] = w0
               /\ t # {} /\ g[t \ {Max(t)}] \in Stores(V) => g[t] = f[Max(t)][g[t \ {Max(t)}]]
    <3>1. g[t] = IF t = {} THEN w0 ELSE C!Store(g[t \ {Max(t)}], items[Max(t)])
      BY Zenon, <1>5
    <3>2. t # {} => Max(t) \in 1..n
      BY MaxIn
    <3>3. QED
      BY Zenon, <1>2, <3>1, <3>2
  <2>2. QED
    BY Zenon, <2>1 DEF GoesBy
<1>7. PICK r : RunsTo(r, f, w0, n, Stores(V), g[1..n])
  BY Zenon, <1>1, <1>6, FoldGoes
<1>8. /\ r \in [0..n -> Stores(V)] /\ r[0] = w0 /\ C!FoldLeft(C!Store, w0, items) = r[n]
      /\ \A k \in 1..n : r[k] = f[k][r[k - 1]]
  BY Zenon, <1>3, <1>7 DEF RunsTo, Runs
<1>9. \A k \in 1..n : r[k] = C!Store(r[k - 1], items[k])
  <2>1. ASSUME NEW k \in 1..n PROVE r[k] = C!Store(r[k - 1], items[k])
    <3>1. k - 1 \in 0..n
      OBVIOUS
    <3>2. r[k - 1] \in Stores(V)
      BY Zenon, <1>8, <3>1
    <3>3. QED
      BY Zenon, <1>2, <1>8, <3>2
  <2>2. QED
    BY Zenon, <2>1
<1>10. QED
  BY Zenon, <1>8, <1>9 DEF StoredBy

(* Each index of D0 holds its own sum, once. *)
Once(D0, F) == [a \in D0 |-> <<F[a]>>]

(* The first k indices of a list. *)
Firsts(A, k) == {A[i] : i \in 1..k}

(* A list that gives each new index its own sum. *)
Fresh(items, A, F, D0, n) ==
  /\ A \in [1..n -> Nat] /\ \A i, j \in 1..n : A[i] = A[j] => i = j
  /\ \A i \in 1..n : A[i] \notin D0
  /\ items = [i \in 1..n |-> [at |-> A[i], sum |-> F[A[i]]]]

AllStored(items, A, F, D0, n) ==
  C!FoldLeft(C!Store, Once(D0, F), items) = Once(D0 \cup Firsts(A, n), F)

LEMMA StoresEach ==
  ASSUME NEW V, NEW F \in [Nat -> V], NEW D0 \in SUBSET Nat, NEW n \in Nat, NEW A, NEW items,
         Fresh(items, A, F, D0, n)
  PROVE  AllStored(items, A, F, D0, n)
<1>1. /\ A \in [1..n -> Nat] /\ \A i, j \in 1..n : A[i] = A[j] => i = j
      /\ \A i \in 1..n : A[i] \notin D0
      /\ DOMAIN items = 1..n
  BY DEF Fresh
<1>2. \A i \in 1..n : items[i].at = A[i] /\ items[i].sum = F[A[i]] /\ F[A[i]] \in V /\ A[i] \in Nat
  BY <1>1 DEF Fresh
<1>3. Once(D0, F) \in Stores(V)
  <2>1. \A a \in D0 : <<F[a]>> \in Seq(V)
    OBVIOUS
  <2>2. Once(D0, F) \in [D0 -> Seq(V)]
    BY <2>1 DEF Once
  <2>3. QED
    BY <2>2 DEF Stores
<1>4. PICK r : StoredBy(r, items, n, V, Once(D0, F))
  <2>1. \A i \in 1..n : items[i].at \in Nat /\ items[i].sum \in V
    BY Zenon, <1>2
  <2>2. QED
    BY Zenon, <1>1, <1>3, <2>1, StoredRuns
<1>5. /\ r[0] = Once(D0, F) /\ \A i \in 1..n : r[i] = C!Store(r[i - 1], items[i])
      /\ C!FoldLeft(C!Store, Once(D0, F), items) = r[n]
  BY Zenon, <1>4 DEF StoredBy
<1> DEFINE T == {k \in 0..n : r[k] = Once(D0 \cup Firsts(A, k), F)}
<1>6. 0 \in T
  <2>1. D0 \cup Firsts(A, 0) = D0
    BY DEF Firsts
  <2>2. 0 \in 0..n
    OBVIOUS
  <2>3. QED
    BY Zenon, <1>5, <2>1, <2>2
<1>7. ASSUME NEW k \in 0..(n - 1), k \in T PROVE k + 1 \in T
  <2>1. PICK i \in 1..n : i = k + 1
    OBVIOUS
  <2>2. i - 1 = k /\ i \in 0..n
    BY <2>1
  <2> DEFINE E == D0 \cup Firsts(A, k)
  <2>3. r[k] = Once(E, F)
    BY <1>7
  <2>4. A[i] \notin E
    <3>1. ASSUME NEW j \in 1..k PROVE A[j] # A[i]
      <4>1. j \in 1..n /\ j # i
        BY <2>1
      <4>2. QED
        BY Zenon, <1>1, <4>1
    <3>2. QED
      BY Zenon, <1>1, <3>1 DEF Firsts
  <2>5. D0 \cup Firsts(A, i) = E \cup {A[i]}
    <3>1. 1..i = 1..k \cup {i}
      BY <2>1
    <3>2. QED
      BY <3>1 DEF Firsts
  <2> HIDE DEF E
  <2>6. items[i].at \notin DOMAIN Once(E, F)
    BY Zenon, <1>2, <2>4 DEF Once
  <2>7. StoredAlone(C!Store(Once(E, F), items[i]), Once(E, F), items[i].at, items[i].sum)
    BY Zenon, <2>6, StoreAlone
  <2>8. StoredAlone(r[i], Once(E, F), A[i], F[A[i]])
    BY Zenon, <1>2, <1>5, <2>2, <2>3, <2>7
  <2>9. r[i] = Once(E \cup {A[i]}, F)
    BY Zenon, <2>8 DEF StoredAlone, Once
  <2>10. QED
    BY Zenon, <2>1, <2>2, <2>5, <2>9
<1> HIDE DEF T
<1>8. \A k \in 0..n : k \in T
  BY Zenon, <1>6, <1>7, InductionTo
<1>9. n \in T
  BY <1>8
<1>10. QED
  BY Zenon, <1>5, <1>9 DEF T, AllStored

-----------------------------------------------------------------------------
(* What a turn of the loop over units of rows stores. *)

Valid(b) ==
  IF call.kernel = "exact" THEN C!Lanes ELSE C!Min({C!rows - b * C!Lanes, C!Lanes})

RowAt(b, t) ==
  [i \in 1..Valid(b) |->
    [at |-> t * C!rows + b * C!Lanes + i - 1, sum |-> C!SumOf(b * C!Lanes, i - 1, t)]]

HeldAt(b, tb) ==
  C!FlattenSeq(C!Each(C!UpTo(tb, C!Min({C!tokens, tb + TokenBlock}), 1), LAMBDA t : RowAt(b, t)))

ItemsOf(b) == C!FlattenSeq(C!Each(C!UpTo(0, C!tokens, TokenBlock), LAMBDA tb : HeldAt(b, tb)))

LEMMA LesserIs ==
  ASSUME NEW p \in Int, NEW q \in Int
  PROVE  C!Min({p, q}) = IF p <= q THEN p ELSE q
<1>1. PICK m \in {p, q} : m = IF p <= q THEN p ELSE q
  OBVIOUS
<1>2. \A n \in {p, q} : (\A o \in {p, q} : n <= o) <=> n = m
  BY <1>1
<1>3. C!Min({p, q}) = m
  BY <1>2 DEF C!Min
<1>4. QED
  BY <1>1, <1>3

(* A block begins inside of the rows, and ends with its lanes or with them. *)
LEMMA BlockStarts ==
  ASSUME NEW n \in Nat \ {0}, NEW m \in Nat \ {0}, NEW b \in 0..((n + m - 1) \div m - 1)
  PROVE  b \in Nat /\ b * m < n
<1>1. PICK q \in Nat, r \in 0..(m - 1) : q = (n + m - 1) \div m /\ n + m - 1 = q * m + r
  <2>1. n + m - 1 \in Nat
    OBVIOUS
  <2>2. QED
    BY Zenon, <2>1, DivMod
<1>2. b + 1 <= q /\ b \in Nat
  BY <1>1
<1>3. PICK d \in Nat : q = b + 1 + d
  <2>1. q - b - 1 \in Nat /\ q = b + 1 + (q - b - 1)
    BY <1>2
  <2>2. QED
    BY <2>1
<1>4. q * m = b * m + m + d * m
  BY <1>3
<1>5. PICK e \in Nat, f \in Nat : e = d * m /\ f = b * m
  OBVIOUS
<1>6. QED
  BY <1>1, <1>2, <1>4, <1>5

Within(b, v) ==
  /\ b \in Nat /\ b * C!Lanes \in Nat /\ v \in 1..C!Lanes /\ b * C!Lanes + v <= C!rows
  /\ v = C!Lanes \/ b * C!Lanes + v = C!rows

LEMMA ValidIs ==
  ASSUME Called, NEW b \in C!Blocks
  PROVE  Within(b, Valid(b))
<1>1. PICK n \in Nat \ {0}, m \in Nat \ {0} : n = C!rows /\ m = C!Lanes
  BY CalledIs, LanesAre
<1>2. b \in 0..((n + m - 1) \div m - 1)
  BY Zenon, <1>1 DEF C!Blocks
<1>3. b \in Nat /\ b * m < n
  BY <1>2, BlockStarts
<1>4. PICK a \in Nat : a = b * m
  BY <1>3
<1>5. CASE call.kernel = "exact"
  <2>1. Valid(b) = m
    BY <1>1, <1>5 DEF Valid
  <2>2. n % m = 0
    BY <1>1, <1>5, LanesAre DEF Called, C!rows
  <2>3. PICK q \in Nat : n = q * m + 0
    BY Zenon, <2>2, DivMod
  <2>4. b < q
    BY <1>3, <2>3
  <2>5. PICK d \in Nat : q = b + 1 + d
    <3>1. q - b - 1 \in Nat /\ q = b + 1 + (q - b - 1)
      BY <1>3, <2>4
    <3>2. QED
      BY <3>1
  <2>6. q * m = b * m + m + d * m
    BY <1>3, <2>5
  <2>7. a + m <= n
    <3>1. PICK e \in Nat : e = d * m
      OBVIOUS
    <3>2. QED
      BY <1>4, <2>3, <2>6, <3>1
  <2>8. m \in 1..m
    OBVIOUS
  <2>9. QED
    BY Zenon, <1>1, <1>3, <1>4, <2>1, <2>7, <2>8 DEF Within
<1>6. CASE call.kernel # "exact"
  <2>1. PICK v : v = C!Min({n - a, m})
    OBVIOUS
  <2>2. v = IF n - a <= m THEN n - a ELSE m
    BY <2>1, LesserIs
  <2>3. v \in 1..m /\ a + v <= n /\ (v = m \/ a + v = n)
    BY <1>3, <1>4, <2>2
  <2>4. Valid(b) = v
    BY Zenon, <1>1, <1>4, <1>6, <2>1 DEF Valid
  <2>5. QED
    BY Zenon, <1>1, <1>3, <1>4, <2>3, <2>4 DEF Within
<1>7. QED
  BY <1>5, <1>6

(* The items in order: a token's lanes, then those of the next. *)
Index(b, t, i) == t * C!rows + (b * C!Lanes + i)

ItemOf(b, t, i) == [at |-> Index(b, t, i), sum |-> C!ReferenceSum(b * C!Lanes + i, t)]

ItemAt(b, v, p) == ItemOf(b, PieceOf(p, v) - 1, PlaceIn(p, v) - 1)

RowListed(b, v, t) == RowAt(b, t) = [j \in 1..v |-> ItemAt(b, v, t * v + j)]

LEMMA RowItemsAre ==
  ASSUME Called, NEW b \in C!Blocks, NEW t \in Nat, NEW v, v = Valid(b)
  PROVE  RowListed(b, v, t)
<1>1. PICK n \in Nat \ {0}, m \in Nat \ {0}, a \in Nat : n = C!rows /\ m = C!Lanes /\ a = b * C!Lanes
  BY CalledIs, LanesAre, ValidIs DEF Within
<1>2. b \in Nat /\ v \in 1..m /\ a + v <= n
  BY <1>1, ValidIs DEF Within
<1>3. ASSUME NEW j \in 1..v
      PROVE  [at |-> t * n + a + j - 1, sum |-> C!SumOf(a, j - 1, t)] = ItemAt(b, v, t * v + j)
  <2>1. PICK i \in Nat : i = j - 1
    OBVIOUS
  <2>2. i \in 0..(m - 1) /\ a + i < n /\ v \in Nat \ {0}
    BY <1>2, <2>1
  <2>3. C!SumOf(a, i, t) = C!ReferenceSum(a + i, t)
    BY Zenon, <1>1, <1>2, <2>2, SumsRight
  <2>4. PICK c \in Nat : c = t * n
    OBVIOUS
  <2>5. t * n + a + j - 1 = t * n + (a + i)
    BY <2>1, <2>4
  <2>6. [at |-> t * n + a + j - 1, sum |-> C!SumOf(a, j - 1, t)] = ItemOf(b, t, i)
    BY Zenon, <1>1, <2>1, <2>3, <2>5 DEF ItemOf, Index
  <2>7. PICK k \in Nat \ {0} : k = t + 1
    OBVIOUS
  <2>8. PieceOf((k - 1) * v + j, v) = k /\ PlaceIn((k - 1) * v + j, v) = j
    BY Zenon, <2>2, PieceIs
  <2>9. k - 1 = t
    BY <2>7
  <2>10. QED
    BY Zenon, <2>1, <2>6, <2>8, <2>9 DEF ItemAt
<1>4. QED
  BY Zenon, <1>1, <1>3 DEF RowAt, RowListed

(* What is held of some tokens at once. *)
HeldListed(b, v, tb, c) == HeldAt(b, tb) = [p \in 1..(c * v) |-> ItemAt(b, v, tb * v + p)]

LEMMA HeldIs ==
  ASSUME Called, NEW b \in C!Blocks, NEW v, v = Valid(b), NEW tb \in Nat, NEW c \in 1..TokenBlock,
         C!Min({C!tokens, tb + TokenBlock}) = tb + c
  PROVE  HeldListed(b, v, tb, c)
<1>1. v \in Nat \ {0} /\ v \in 1..v /\ c \in Nat /\ c # 0
  <2>1. PICK m \in Nat : m = C!Lanes
    BY LanesAre
  <2>2. v \in 1..m
    BY <2>1, ValidIs DEF Within
  <2>3. TokenBlock \in Nat
    BY KernelSizes
  <2>4. QED
    BY <2>2, <2>3
<1>2. PICK o \in Nat \ {0} : o = 1
  OBVIOUS
<1>3. C!UpTo(tb, tb + c, o) = Steps(tb, c, o)
  <2>1. tb + c = tb + c * o
    BY <1>1, <1>2
  <2>2. QED
    BY <1>1, <2>1, UpToOf
<1> DEFINE s == C!Each(C!UpTo(tb, tb + c, o), LAMBDA t : RowAt(b, t))
           g == [p \in 1..(c * v) |-> ItemAt(b, v, tb * v + p)]
<1>4. HeldAt(b, tb) = C!FlattenSeq(s)
  BY Zenon, <1>2 DEF HeldAt
<1>5. s = [i \in 1..c |-> RowAt(b, tb + (i - 1) * o)]
  BY Zenon, <1>3 DEF C!Each, Steps
<1>6. g = [p \in 1..(c * v) |-> g[p]] /\ \A p \in 1..(c * v) : g[p] = ItemAt(b, v, tb * v + p)
  BY Zenon
<1> HIDE DEF s, g
<1>7. ASSUME NEW i \in 1..c PROVE s[i] = CutOf(g, i, v, v)
  <2>1. PICK t \in Nat : t = tb + (i - 1) * o
    BY <1>1, <1>2
  <2>2. RowAt(b, t) = [j \in 1..v |-> ItemAt(b, v, t * v + j)]
    <3>1. RowListed(b, v, t)
      BY RowItemsAre
    <3>2. QED
      BY Zenon, <3>1 DEF RowListed
  <2>3. ASSUME NEW j \in 1..v PROVE ItemAt(b, v, t * v + j) = g[(i - 1) * v + j]
    <3>1. t * v = tb * v + (i - 1) * v
      <4>1. t = tb + (i - 1) /\ i - 1 \in Nat
        BY <1>1, <1>2, <2>1
      <4>2. PICK d \in Nat : d = i - 1
        BY <4>1
      <4>3. (tb + d) * v = tb * v + d * v
        BY <1>1
      <4>4. QED
        BY Zenon, <4>1, <4>2, <4>3
    <3>2. PICK e \in Nat, f \in Nat : e = (i - 1) * v /\ f = tb * v
      BY <1>1
    <3>3. c * v = (i - 1) * v + v + (c - i) * v
      BY <1>1
    <3>4. PICK h \in Nat : h = (c - i) * v
      BY <1>1
    <3>5. e + j \in 1..(c * v)
      BY <1>1, <3>2, <3>3, <3>4
    <3>6. t * v + j = tb * v + (e + j)
      BY <1>1, <3>1, <3>2
    <3>7. QED
      BY Zenon, <1>6, <3>2, <3>5, <3>6
  <2>4. QED
    BY Zenon, <1>5, <2>1, <2>2, <2>3 DEF CutOf
<1>8. Cut(s, g, c, v, v)
  <2>1. Listed(s, c)
    BY Zenon, <1>5 DEF Listed
  <2>2. \A i \in 1..(c - 1) : i \in 1..c
    BY <1>1
  <2>3. c \in 1..c
    BY <1>1
  <2>4. QED
    BY Zenon, <1>7, <2>1, <2>2, <2>3 DEF Cut
<1>9. Rejoins(s, g, c, v, v)
  BY Zenon, <1>1, <1>8, Rejoined
<1>10. (IF c = 0 THEN 0 ELSE (c - 1) * v + v) = c * v
  <2>1. c * v = (c - 1) * v + v
    BY <1>1
  <2>2. QED
    BY Zenon, <1>1, <2>1
<1>11. C!FlattenSeq(s) = [p \in 1..(c * v) |-> g[p]]
  BY Zenon, <1>9, <1>10 DEF Rejoins
<1>12. QED
  BY Zenon, <1>4, <1>6, <1>11 DEF HeldListed

LEMMA ItemsAre ==
  ASSUME Called, NEW b \in C!Blocks, NEW v, v = Valid(b)
  PROVE  ItemsOf(b) = [p \in 1..(C!tokens * v) |-> ItemAt(b, v, p)]
<1>1. v \in Nat \ {0}
  <2>1. PICK m \in Nat : m = C!Lanes
    BY LanesAre
  <2>2. v \in 1..m
    BY <2>1, ValidIs DEF Within
  <2>3. QED
    BY <2>2
<1>2. PICK n \in Nat \ {0}, e \in Nat \ {0}, M \in Nat \ {0} :
        n = C!tokens /\ e = TokenBlock /\ M = TokenBlock * v
  BY <1>1, CalledIs, KernelSizes
<1>3. PICK q \in Nat \ {0}, l \in 1..e : n = (q - 1) * e + l /\ ((n - 0) + (e - 1)) \div e = q
  <2>1. PICK d \in Nat, r \in 0..(e - 1) : n - 1 = d * e + r
    <3>1. n - 1 \in Nat
      OBVIOUS
    <3>2. QED
      BY Zenon, <3>1, DivMod
  <2>2. PICK k \in Nat : k = d + 1
    OBVIOUS
  <2>3. (n - 0) + (e - 1) = k * e + r
    BY <2>1, <2>2
  <2>4. (k * e + r) \div e = k
    BY DivModOf
  <2>5. n = (k - 1) * e + (r + 1) /\ r + 1 \in 1..e /\ k \in Nat \ {0}
    BY <2>1, <2>2
  <2>6. ((n - 0) + (e - 1)) \div e = k
    BY Zenon, <2>3, <2>4
  <2>7. QED
    BY <2>5, <2>6
<1> DEFINE s == C!Each(C!UpTo(0, n, e), LAMBDA tb : HeldAt(b, tb))
           g == [p \in 1..(n * v) |-> ItemAt(b, v, p)]
<1>4. ItemsOf(b) = C!FlattenSeq(s)
  BY Zenon, <1>2 DEF ItemsOf
<1>5. s = [i \in 1..q |-> HeldAt(b, 0 + (i - 1) * e)]
  BY Zenon, <1>3 DEF C!Each, C!UpTo
<1>6. g = [p \in 1..(n * v) |-> g[p]] /\ \A p \in 1..(n * v) : g[p] = ItemAt(b, v, p)
  BY Zenon
<1> HIDE DEF s, g
<1>7. ASSUME NEW i \in 1..q, NEW c \in 1..e, (i - 1) * e + c <= n, C!Min({n, (i - 1) * e + e}) = (i - 1) * e + c
      PROVE  s[i] = CutOf(g, i, M, c * v)
  <2>1. PICK t \in Nat : t = (i - 1) * e /\ t = 0 + (i - 1) * e
    <3>1. i - 1 \in Nat
      OBVIOUS
    <3>2. QED
      BY <3>1
  <2>2. HeldAt(b, t) = [p \in 1..(c * v) |-> ItemAt(b, v, t * v + p)]
    <3>1. C!Min({C!tokens, t + TokenBlock}) = t + c /\ c \in 1..TokenBlock
      BY Zenon, <1>2, <1>7, <2>1
    <3>2. HeldListed(b, v, t, c)
      BY <3>1, HeldIs
    <3>3. QED
      BY Zenon, <3>2 DEF HeldListed
  <2>3. ASSUME NEW p \in 1..(c * v) PROVE ItemAt(b, v, t * v + p) = g[(i - 1) * M + p]
    <3>1. (i - 1) * M = t * v
      <4>1. PICK d \in Nat : d = i - 1
        OBVIOUS
      <4>2. d * (e * v) = (d * e) * v
        BY <1>1
      <4>3. QED
        BY Zenon, <1>2, <2>1, <4>1, <4>2
    <3>2. t * v + p \in 1..(n * v)
      <4>1. PICK d \in Nat : n = t + c + d
        <5>1. n - t - c \in Nat /\ n = t + c + (n - t - c)
          BY <1>7, <2>1
        <5>2. QED
          BY <5>1
      <4>2. n * v = t * v + c * v + d * v
        BY <1>1, <4>1
      <4>3. PICK x1 \in Nat, x2 \in Nat, x3 \in Nat : x1 = t * v /\ x2 = c * v /\ x3 = d * v
        BY <1>1
      <4>4. QED
        BY <4>2, <4>3
    <3>3. QED
      BY Zenon, <1>6, <3>1, <3>2
  <2>4. QED
    BY Zenon, <1>5, <2>1, <2>2, <2>3 DEF CutOf
<1>8. ASSUME NEW i \in 1..(q - 1) PROVE s[i] = CutOf(g, i, M, M)
  <2>1. (i - 1) * e + e = i * e /\ (q - 1) * e = i * e + (q - 1 - i) * e /\ q - 1 - i \in Nat
    OBVIOUS
  <2>2. PICK x1 \in Nat, x2 \in Nat : x1 = (i - 1) * e /\ x2 = (q - 1 - i) * e
    BY <2>1
  <2>3. x1 + e <= n
    BY <1>3, <2>1, <2>2
  <2>4. C!Min({n, x1 + e}) = x1 + e
    BY <2>3, LesserIs
  <2>5. i \in 1..q /\ e \in 1..e
    OBVIOUS
  <2>6. s[i] = CutOf(g, i, M, e * v)
    BY Zenon, <1>7, <2>2, <2>3, <2>4, <2>5
  <2>7. QED
    BY Zenon, <1>2, <2>6
<1>9. s[q] = CutOf(g, q, M, l * v)
  <2>1. PICK x1 \in Nat : x1 = (q - 1) * e
    OBVIOUS
  <2>2. n = x1 + l /\ x1 + l <= n
    BY <1>3, <2>1
  <2>3. C!Min({n, x1 + e}) = x1 + l
    BY <2>2, LesserIs
  <2>4. q \in 1..q
    OBVIOUS
  <2>5. QED
    BY Zenon, <1>7, <2>1, <2>2, <2>3, <2>4
<1>10. PICK k \in 1..M : k = l * v
  <2>1. e * v = l * v + (e - l) * v /\ e - l \in Nat
    BY <1>1
  <2>2. PICK x1 \in Nat \ {0}, x2 \in Nat : x1 = l * v /\ x2 = (e - l) * v
    BY <1>1, <2>1
  <2>3. M = e * v
    BY <1>2
  <2>4. x1 \in 1..M
    BY <2>1, <2>2, <2>3
  <2>5. QED
    BY <2>2, <2>4
<1>11. Cut(s, g, q, M, k)
  <2>1. Listed(s, q)
    BY Zenon, <1>5 DEF Listed
  <2>2. QED
    BY Zenon, <1>8, <1>9, <1>10, <2>1 DEF Cut
<1>12. Rejoins(s, g, q, M, k)
  <2>1. q \in Nat
    OBVIOUS
  <2>2. QED
    BY Zenon, <1>11, <2>1, Rejoined
<1>13. (IF q = 0 THEN 0 ELSE (q - 1) * M + k) = n * v
  <2>1. (q - 1) * (e * v) + l * v = ((q - 1) * e + l) * v
    BY <1>1
  <2>2. (q - 1) * M + k = n * v
    BY Zenon, <1>2, <1>3, <1>10, <2>1
  <2>3. q # 0
    OBVIOUS
  <2>4. QED
    BY Zenon, <2>2, <2>3
<1>14. C!FlattenSeq(s) = [p \in 1..(n * v) |-> g[p]]
  BY Zenon, <1>12, <1>13 DEF Rejoins
<1>15. QED
  BY Zenon, <1>2, <1>4, <1>6, <1>14

-----------------------------------------------------------------------------
(* Where a block's sums go. *)

StoredOf(R) == {a \in 0..(C!tokens * C!rows - 1) : (a % C!rows) \div C!Lanes \in R}

OwnSum == [a \in Nat |-> C!ReferenceSum(a % C!rows, a \div C!rows)]

IsAt(a, b, t, i) ==
  /\ a \in Nat /\ a % C!rows = b * C!Lanes + i /\ a \div C!rows = t
  /\ (a % C!rows) \div C!Lanes = b
  /\ t < C!tokens => a \in 0..(C!tokens * C!rows - 1)
  /\ i < C!Lanes /\ b * C!Lanes + i < C!rows

LEMMA IndexHolds ==
  ASSUME Called, NEW b \in C!Blocks, NEW v, v = Valid(b), NEW t \in Nat, NEW i \in 0..(v - 1)
  PROVE  /\ IsAt(Index(b, t, i), b, t, i)
         /\ t < C!tokens => Index(b, t, i) \in 0..(C!tokens * C!rows - 1)
<1>1. PICK n \in Nat \ {0}, m \in Nat \ {0}, k \in Nat \ {0} : n = C!rows /\ m = C!Lanes /\ k = C!tokens
  BY CalledIs, LanesAre
<1>2. b \in Nat /\ v \in 1..m /\ b * m \in Nat /\ b * m + v <= n
  BY Zenon, <1>1, ValidIs DEF Within
<1>3. PICK a \in Nat, c \in Nat : a = t * n + c /\ c = b * m + i /\ c \in 0..(n - 1) /\ i \in 0..(m - 1)
  <2>1. PICK d \in Nat : d = b * m
    BY <1>2
  <2>2. d + i \in 0..(n - 1) /\ i \in 0..(m - 1)
    BY <1>2, <2>1
  <2>3. t * n + (d + i) \in Nat
    BY <2>2
  <2>4. d + i \in Nat
    BY <2>2
  <2>5. QED
    BY Zenon, <2>1, <2>2, <2>3, <2>4
<1>4. (t * n + c) \div n = t /\ (t * n + c) % n = c
  BY <1>3, DivModOf
<1>5. (b * m + i) \div m = b
  BY <1>2, <1>3, DivModOf
<1>6. t < k => t * n + c \in 0..(k * n - 1)
  BY <1>3, PairBelow
<1>7. i < m /\ c < n
  BY <1>3
<1>8. Index(b, t, i) = a
  BY Zenon, <1>1, <1>3 DEF Index
<1>9. QED
  BY Zenon, <1>1, <1>3, <1>4, <1>5, <1>6, <1>7, <1>8 DEF IsAt

(* Every place of a block's list is a token's and a lane's. *)
InPiece(p, n, v) ==
  \E t \in 0..(n - 1), i \in 0..(v - 1) :
    PieceOf(p, v) - 1 = t /\ PlaceIn(p, v) - 1 = i /\ p - 1 = t * v + i

LEMMA PlaceIs ==
  ASSUME NEW n \in Nat, NEW v \in Nat \ {0}, NEW p \in 1..(n * v)
  PROVE  InPiece(p, n, v)
<1>1. PICK q \in Nat : q = p - 1
  OBVIOUS
<1>2. q < n * v
  <2>1. PICK a \in Nat : a = n * v
    OBVIOUS
  <2>2. QED
    BY <1>1, <2>1
<1>3. q \div v \in 0..(n - 1)
  BY Zenon, <1>2, DivBelow
<1>4. q % v \in 0..(v - 1) /\ q = (q \div v) * v + (q % v)
  BY Zenon, DivMod
<1>5. PICK t \in 0..(n - 1), i \in 0..(v - 1) : t = q \div v /\ i = q % v
  BY Zenon, <1>3, <1>4
<1>6. (t + 1) - 1 = t /\ (i + 1) - 1 = i
  OBVIOUS
<1>7. QED
  BY Zenon, <1>1, <1>4, <1>5, <1>6 DEF PieceOf, PlaceIn, InPiece

IndexOf(b, v, p) == Index(b, PieceOf(p, v) - 1, PlaceIn(p, v) - 1)

Indices(b, v, n) == [p \in 1..n |-> IndexOf(b, v, p)]

LEMMA BlockIsFresh ==
  ASSUME Called, NEW b \in C!Blocks, NEW v, v = Valid(b), NEW R, b \notin R, NEW N, N = C!tokens * v
  PROVE  Fresh(ItemsOf(b), Indices(b, v, N), OwnSum, StoredOf(R), N)
<1>1. PICK k \in Nat \ {0} : k = C!tokens
  BY CalledIs
<1>2. v \in Nat \ {0}
  <2>1. PICK m \in Nat : m = C!Lanes
    BY LanesAre
  <2>2. v \in 1..m
    BY <2>1, ValidIs DEF Within
  <2>3. QED
    BY <2>2
<1>3. ASSUME NEW p \in 1..N
      PROVE  \E t \in Nat, i \in 0..(v - 1) :
               /\ PieceOf(p, v) - 1 = t /\ PlaceIn(p, v) - 1 = i /\ p - 1 = t * v + i
               /\ IsAt(IndexOf(b, v, p), b, t, i)
  <2>1. p \in 1..(k * v)
    BY Zenon, <1>1
  <2>2. PICK t \in 0..(k - 1), i \in 0..(v - 1) :
          PieceOf(p, v) - 1 = t /\ PlaceIn(p, v) - 1 = i /\ p - 1 = t * v + i
    <3>1. k \in Nat
      OBVIOUS
    <3>2. InPiece(p, k, v)
      BY Zenon, <1>2, <2>1, <3>1, PlaceIs
    <3>3. QED
      BY Zenon, <3>2 DEF InPiece
  <2>3. t \in Nat
    OBVIOUS
  <2>4. IsAt(Index(b, t, i), b, t, i)
    BY Zenon, <2>3, IndexHolds
  <2>5. QED
    BY Zenon, <2>2, <2>3, <2>4 DEF IndexOf
<1>4. Indices(b, v, N) \in [1..N -> Nat]
  <2>1. \A p \in 1..N : IndexOf(b, v, p) \in Nat
    BY Zenon, <1>3 DEF IsAt
  <2>2. QED
    BY Zenon, <2>1 DEF Indices
<1>5. \A p \in 1..N : Indices(b, v, N)[p] = IndexOf(b, v, p)
  BY Zenon DEF Indices
<1>6. ASSUME NEW p \in 1..N, NEW q \in 1..N, IndexOf(b, v, p) = IndexOf(b, v, q)
      PROVE  p = q
  <2>1. PICK t \in Nat, i \in 0..(v - 1) : p - 1 = t * v + i /\ IsAt(IndexOf(b, v, p), b, t, i)
    BY Zenon, <1>3
  <2>2. PICK u \in Nat, j \in 0..(v - 1) : q - 1 = u * v + j /\ IsAt(IndexOf(b, v, q), b, u, j)
    BY Zenon, <1>3
  <2>3. t = u /\ b * C!Lanes + i = b * C!Lanes + j
    BY Zenon, <1>6, <2>1, <2>2 DEF IsAt
  <2>4. PICK d \in Nat : d = b * C!Lanes
    BY ValidIs DEF Within
  <2>5. i = j
    BY <1>2, <2>3, <2>4
  <2>6. p - 1 = q - 1
    BY Zenon, <2>1, <2>2, <2>3, <2>5
  <2>7. p \in Int /\ q \in Int
    OBVIOUS
  <2>8. QED
    BY <2>6, <2>7
<1>7. ASSUME NEW p \in 1..N PROVE IndexOf(b, v, p) \notin StoredOf(R)
  <2>1. (IndexOf(b, v, p) % C!rows) \div C!Lanes = b
    BY Zenon, <1>3 DEF IsAt
  <2>2. QED
    BY Zenon, <2>1 DEF StoredOf
<1>8. ItemsOf(b) = [p \in 1..N |-> ItemAt(b, v, p)]
  BY ItemsAre
<1>9. ASSUME NEW p \in 1..N
      PROVE  ItemAt(b, v, p) = [at |-> IndexOf(b, v, p), sum |-> OwnSum[IndexOf(b, v, p)]]
  <2>1. PICK t \in Nat, i \in 0..(v - 1) :
          PieceOf(p, v) - 1 = t /\ PlaceIn(p, v) - 1 = i /\ IsAt(IndexOf(b, v, p), b, t, i)
    BY Zenon, <1>3
  <2>2. ItemAt(b, v, p) = [at |-> IndexOf(b, v, p), sum |-> C!ReferenceSum(b * C!Lanes + i, t)]
    BY Zenon, <2>1 DEF ItemAt, ItemOf, IndexOf
  <2>3. OwnSum[IndexOf(b, v, p)] = C!ReferenceSum(b * C!Lanes + i, t)
    BY Zenon, <2>1 DEF OwnSum, IsAt
  <2>4. QED
    BY Zenon, <2>2, <2>3
<1> DEFINE A == Indices(b, v, N)
<1>10. \A p \in 1..N : ItemAt(b, v, p) = [at |-> A[p], sum |-> OwnSum[A[p]]]
  BY Zenon, <1>5, <1>9
<1>11. ItemsOf(b) = [p \in 1..N |-> [at |-> A[p], sum |-> OwnSum[A[p]]]]
  BY Zenon, <1>8, <1>10
<1>12. \A p, q \in 1..N : A[p] = A[q] => p = q
  <2>1. \A p \in 1..N : A[p] = IndexOf(b, v, p)
    BY Zenon, <1>5
  <2> HIDE DEF A
  <2>2. ASSUME NEW p \in 1..N, NEW q \in 1..N, A[p] = A[q] PROVE p = q
    <3>1. IndexOf(b, v, p) = IndexOf(b, v, q)
      BY Zenon, <2>1, <2>2
    <3>2. QED
      BY Zenon, <1>6, <3>1
  <2>3. QED
    BY Zenon, <2>2
<1>13. \A p \in 1..N : A[p] \notin StoredOf(R)
  BY Zenon, <1>5, <1>7
<1> HIDE DEF A
<1>14. QED
  BY Zenon, <1>4, <1>11, <1>12, <1>13 DEF Fresh, A

LEMMA BlockIsStored ==
  ASSUME Called, NEW b \in C!Blocks, NEW v, v = Valid(b), NEW R, NEW N, N = C!tokens * v
  PROVE  StoredOf(R) \cup Firsts(Indices(b, v, N), N) = StoredOf(R \cup {b})
<1>1. PICK k \in Nat \ {0}, n \in Nat \ {0}, m \in Nat \ {0}, r0 \in Nat :
        k = C!tokens /\ n = C!rows /\ m = C!Lanes /\ r0 = b * m
  <2>1. b * C!Lanes \in Nat
    BY ValidIs DEF Within
  <2>2. QED
    BY Zenon, <2>1, CalledIs, LanesAre
<1>2. b \in Nat /\ v \in 1..m /\ r0 + v <= n /\ (v = m \/ r0 + v = n) /\ v \in Nat \ {0}
  <2>1. b \in Nat /\ v \in 1..m /\ r0 + v <= n /\ (v = m \/ r0 + v = n)
    BY Zenon, <1>1, ValidIs DEF Within
  <2>2. QED
    BY <2>1
<1>3. v \in Nat \ {0}
  BY Zenon, <1>2
<1>4. ASSUME NEW p \in 1..N
      PROVE  IndexOf(b, v, p) \in StoredOf({b})
  <2>1. p \in 1..(k * v)
    BY Zenon, <1>1
  <2>2. PICK t \in 0..(k - 1), i \in 0..(v - 1) :
          PieceOf(p, v) - 1 = t /\ PlaceIn(p, v) - 1 = i /\ p - 1 = t * v + i
    <3>1. k \in Nat
      OBVIOUS
    <3>2. InPiece(p, k, v)
      BY Zenon, <1>3, <2>1, <3>1, PlaceIs
    <3>3. QED
      BY Zenon, <3>2 DEF InPiece
  <2>3. t \in Nat /\ t < k
    OBVIOUS
  <2>4. IsAt(Index(b, t, i), b, t, i) /\ Index(b, t, i) \in 0..(C!tokens * C!rows - 1)
    BY Zenon, <1>1, <2>3, IndexHolds
  <2>5. IndexOf(b, v, p) = Index(b, t, i)
    BY Zenon, <2>2 DEF IndexOf
  <2>6. (Index(b, t, i) % C!rows) \div C!Lanes = b
    BY Zenon, <2>4 DEF IsAt
  <2>7. QED
    BY Zenon, <2>4, <2>5, <2>6 DEF StoredOf
<1>5. ASSUME NEW a \in StoredOf({b}) PROVE \E p \in 1..N : IndexOf(b, v, p) = a
  <2>1. a \in 0..(k * n - 1) /\ (a % n) \div m = b
    BY Zenon, <1>1 DEF StoredOf
  <2>2. PICK x1 \in Nat : x1 = k * n
    OBVIOUS
  <2>3. a \in Nat /\ a < k * n
    BY <2>1, <2>2
  <2>4. a \div n \in 0..(k - 1)
    BY Zenon, <2>3, DivBelow
  <2>5. a % n \in 0..(n - 1) /\ a = (a \div n) * n + (a % n)
    BY Zenon, <2>3, DivMod
  <2>6. PICK t \in 0..(k - 1), c \in 0..(n - 1) : t = a \div n /\ c = a % n
    BY Zenon, <2>4, <2>5
  <2>7. c \in Nat /\ t \in Nat
    OBVIOUS
  <2>8. c % m \in 0..(m - 1) /\ c = (c \div m) * m + (c % m)
    BY Zenon, <2>7, DivMod
  <2>9. PICK i \in 0..(m - 1) : i = c % m
    BY Zenon, <2>8
  <2>10. c = r0 + i
    BY Zenon, <1>1, <2>1, <2>6, <2>8, <2>9
  <2>11. i \in 0..(v - 1)
    BY <1>2, <2>10
  <2>12. PICK j \in 1..v : j = i + 1 /\ j - 1 = i
    <3>1. i + 1 \in 1..v /\ (i + 1) - 1 = i
      BY <2>11, <1>2
    <3>2. QED
      BY <3>1
  <2>13. PICK u \in Nat \ {0} : u = t + 1 /\ u - 1 = t
    OBVIOUS
  <2>14. PieceOf((u - 1) * v + j, v) = u /\ PlaceIn((u - 1) * v + j, v) = j
    BY Zenon, <1>2, PieceIs
  <2>15. t * v + j \in 1..(k * v)
    <3>1. t * v + i \in 0..(k * v - 1)
      BY <1>2, <2>7, <2>11, PairBelow
    <3>2. PICK x2 \in Nat, x3 \in Nat : x2 = t * v /\ x3 = k * v
      BY <1>2
    <3>3. QED
      BY <2>12, <3>1, <3>2
  <2>16. IndexOf(b, v, t * v + j) = Index(b, t, i)
    BY Zenon, <2>12, <2>13, <2>14 DEF IndexOf
  <2>17. Index(b, t, i) = a
    BY Zenon, <1>1, <2>5, <2>6, <2>10 DEF Index
  <2>18. QED
    BY Zenon, <1>1, <2>15, <2>16, <2>17
<1>6. Firsts(Indices(b, v, N), N) = StoredOf({b})
  <2>1. \A p \in 1..N : Indices(b, v, N)[p] = IndexOf(b, v, p)
    BY Zenon DEF Indices
  <2>2. Firsts(Indices(b, v, N), N) = {IndexOf(b, v, p) : p \in 1..N}
    BY Zenon, <2>1 DEF Firsts
  <2>3. \A a : a \in Firsts(Indices(b, v, N), N) <=> \E p \in 1..N : IndexOf(b, v, p) = a
    BY Zenon, <2>2
  <2>4. \A a : a \in Firsts(Indices(b, v, N), N) <=> a \in StoredOf({b})
    BY Zenon, <1>4, <1>5, <2>3
  <2>5. QED
    BY Zenon, <2>4
<1>7. StoredOf(R) \cup StoredOf({b}) = StoredOf(R \cup {b})
  BY Zenon DEF StoredOf
<1>8. QED
  BY Zenon, <1>6, <1>7

-----------------------------------------------------------------------------
(* What holds at every step of a product. *)

Multiplied == Called /\ ran \subseteq C!Blocks /\ y = Once(StoredOf(ran), OwnSum)

ProductInv == C!Init \/ Multiplied

LEMMA ProductMultiply ==
  ASSUME NEW backend \in {"scalar", "neon", "exact", "dots"}, NEW format \in {"bf16", "nvfp4"},
         NEW shape \in Shapes, C!Init, C!Multiply(backend, format, shape)
  PROVE  Multiplied'
<1> DEFINE kernel == C!Selected(backend, format, shape)
<1>1. /\ C!Accepted(kernel, format, shape)
      /\ call' = [kernel |-> kernel, format |-> format, tokens |-> shape.tokens,
                  rows |-> shape.rows, cols |-> shape.cols]
      /\ y' = y /\ ran' = ran
  BY DEF C!Multiply
<1>2. shape.tokens \in Nat \ {0} /\ shape.rows \in Nat \ {0} /\ shape.cols \in Nat \ {0}
  BY KernelsAssumption
<1>3. kernel \in {"scalar", "neon", "exact", "dots"} /\ (kernel = "exact" => shape.rows % ExactRows = 0)
  BY DEF C!Selected
<1>4. /\ kernel = "dots" => format = "bf16"
      /\ format = "nvfp4" => shape.cols % (2 * ScaleCols) = 0
  BY <1>1 DEF C!Accepted
<1> HIDE DEF kernel
<1>5. Called'
  BY <1>1, <1>2, <1>3, <1>4 DEF Called, Formats
<1>6. ran' = {} /\ y' = <<>>
  BY <1>1 DEF C!Init
<1>7. Once(StoredOf({})', OwnSum') = <<>>
  BY DEF Once, StoredOf
<1>8. StoredOf(ran)' = StoredOf({})'
  BY Zenon, <1>6
<1>9. QED
  BY <1>5, <1>6, <1>7, <1>8 DEF Multiplied

LEMMA CallStays ==
  ASSUME call' = call
  PROVE  /\ (Called)' <=> Called
         /\ (C!Blocks)' = C!Blocks /\ OwnSum' = OwnSum
<1>1. (C!rows)' = C!rows /\ (C!tokens)' = C!tokens /\ (C!cols)' = C!cols /\ (C!Lanes)' = C!Lanes
  BY Zenon DEF C!rows, C!tokens, C!cols, C!Lanes
<1>2. (C!Blocks)' = C!Blocks
  BY Zenon, <1>1 DEF C!Blocks
<1>3. \A r, t : C!ReferenceSum(r, t)' = C!ReferenceSum(r, t)
  BY Zenon, <1>1 DEF C!ReferenceSum
<1>4. OwnSum' = OwnSum
  BY Zenon, <1>1, <1>3 DEF OwnSum
<1>5. (Called)' <=> Called
  BY Zenon DEF Called
<1>6. QED
  BY Zenon, <1>2, <1>4, <1>5

LEMMA SameStored ==
  ASSUME call' = call, NEW R, ran' = R
  PROVE  StoredOf(ran)' = StoredOf(R)
<1>1. (C!rows)' = C!rows /\ (C!tokens)' = C!tokens /\ (C!Lanes)' = C!Lanes
  BY Zenon DEF C!rows, C!tokens, C!Lanes
<1>2. QED
  BY Zenon, <1>1 DEF StoredOf

LEMMA ProductRunRows ==
  ASSUME Multiplied, NEW b, C!RunRows(b)
  PROVE  Multiplied'
<1>1. b \in C!Blocks /\ b \notin ran /\ ran' = ran \cup {b} /\ call' = call
  BY DEF C!RunRows
<1>2. y' = C!FoldLeft(C!Store, y, ItemsOf(b))
  BY Zenon DEF C!RunRows, ItemsOf, HeldAt, RowAt, Valid
<1>3. Called /\ ran \subseteq C!Blocks /\ y = Once(StoredOf(ran), OwnSum)
  BY DEF Multiplied
<1>4. PICK v, N : v = Valid(b) /\ N = C!tokens * v /\ N \in Nat
  <2>1. PICK m \in Nat : m = C!Lanes
    BY <1>3, LanesAre
  <2>2. Valid(b) \in 1..m
    BY <1>1, <1>3, <2>1, ValidIs DEF Within
  <2>3. PICK v \in Nat : v = Valid(b)
    BY <2>2
  <2>4. C!tokens * v \in Nat
    BY <1>3, CalledIs
  <2>5. QED
    BY Zenon, <2>3, <2>4
<1>5. Fresh(ItemsOf(b), Indices(b, v, N), OwnSum, StoredOf(ran), N)
  BY <1>1, <1>3, <1>4, BlockIsFresh
<1>6. StoredOf(ran) \cup Firsts(Indices(b, v, N), N) = StoredOf(ran \cup {b})
  BY <1>1, <1>3, <1>4, BlockIsStored
<1>7. PICK V : OwnSum \in [Nat -> V]
  <2>1. OwnSum \in [Nat -> {OwnSum[a] : a \in Nat}]
    BY DEF OwnSum
  <2>2. QED
    BY <2>1
<1>8. StoredOf(ran) \in SUBSET Nat
  <2>1. \A k \in Int : 0..k \subseteq Nat
    OBVIOUS
  <2>2. (C!tokens * C!rows) - 1 \in Int
    BY <1>3, CalledIs
  <2>3. QED
    BY Zenon, <2>1, <2>2 DEF StoredOf
<1>9. C!FoldLeft(C!Store, Once(StoredOf(ran), OwnSum), ItemsOf(b))
        = Once(StoredOf(ran) \cup Firsts(Indices(b, v, N), N), OwnSum)
  <2>1. AllStored(ItemsOf(b), Indices(b, v, N), OwnSum, StoredOf(ran), N)
    BY Zenon, <1>4, <1>5, <1>7, <1>8, StoresEach
  <2>2. QED
    BY Zenon, <2>1 DEF AllStored
<1>10. y' = Once(StoredOf(ran \cup {b}), OwnSum)
  BY Zenon, <1>2, <1>3, <1>6, <1>9
<1>11. Called' /\ (C!Blocks)' = C!Blocks /\ OwnSum' = OwnSum
  BY <1>1, <1>3, CallStays
<1>12. StoredOf(ran)' = StoredOf(ran \cup {b})
  BY Zenon, <1>1, SameStored
<1>13. Once(StoredOf(ran), OwnSum)' = Once(StoredOf(ran \cup {b}), OwnSum)
  BY Zenon, <1>11, <1>12 DEF Once
<1>14. ran' \subseteq (C!Blocks)'
  BY <1>1, <1>3, <1>11
<1>15. QED
  BY Zenon, <1>10, <1>11, <1>13, <1>14 DEF Multiplied

LEMMA ProductInvariant == C!Spec => []ProductInv
<1>1. C!Init => ProductInv
  BY DEF ProductInv
<1>2. ProductInv /\ [C!Next]_(C!vars) => ProductInv'
  <2> SUFFICES ASSUME ProductInv, [C!Next]_(C!vars) PROVE ProductInv'
    OBVIOUS
  <2>1. ASSUME NEW backend \in {"scalar", "neon", "exact", "dots"}, NEW format \in {"bf16", "nvfp4"},
               NEW shape \in Shapes, C!Multiply(backend, format, shape)
        PROVE  ProductInv'
    <3>1. C!Init
      <4>1. call.kernel = "none"
        BY <2>1 DEF C!Multiply, C!NoCall
      <4>2. ~Multiplied
        BY <4>1 DEF Multiplied, Called
      <4>3. QED
        BY <4>2 DEF ProductInv
    <3>2. QED
      BY <2>1, <3>1, ProductMultiply DEF ProductInv
  <2>2. ASSUME NEW b, C!RunRows(b) PROVE ProductInv'
    <3>1. Multiplied
      BY <2>2 DEF C!RunRows, ProductInv, C!Init
    <3>2. QED
      BY <2>2, <3>1, ProductRunRows DEF ProductInv
  <2>3. CASE C!Done
    BY <2>3 DEF C!Done, C!Init, ProductInv, C!NoCall
  <2>4. CASE UNCHANGED C!vars
    <3>1. call' = call /\ y' = y /\ ran' = ran
      BY <2>4 DEF C!vars
    <3>2. CASE C!Init
      BY <3>1, <3>2 DEF ProductInv, C!Init, C!NoCall
    <3>3. CASE Multiplied
      <4>1. Called' /\ (C!Blocks)' = C!Blocks /\ OwnSum' = OwnSum
        BY <3>1, <3>3, CallStays DEF Multiplied
      <4>2. StoredOf(ran)' = StoredOf(ran)
        BY Zenon, <3>1, SameStored
      <4>3. Once(StoredOf(ran), OwnSum)' = Once(StoredOf(ran), OwnSum)
        BY Zenon, <4>1, <4>2 DEF Once
      <4>4. Multiplied'
        BY Zenon, <3>1, <3>3, <4>1, <4>3 DEF Multiplied
      <4>5. QED
        BY <4>4 DEF ProductInv
    <3>4. QED
      BY <3>2, <3>3 DEF ProductInv
  <2>5. QED
    BY <2>1, <2>2, <2>3, <2>4 DEF C!Next
<1>3. QED
  BY <1>1, <1>2, PTL DEF C!Spec

LEMMA ProductsAreInOrder ==
  ASSUME Multiplied
  PROVE  EverySumInOrder
<1>1. PICK k \in Nat \ {0}, n \in Nat \ {0}, m \in Nat \ {0} :
        k = C!tokens /\ n = C!rows /\ m = C!Lanes
  BY CalledIs, LanesAre DEF Multiplied
<1>2. call # C!NoCall
  BY DEF Multiplied, Called, C!NoCall
<1>3. DOMAIN y = StoredOf(ran) /\ \A a \in StoredOf(ran) : y[a] = <<OwnSum[a]>>
  BY Zenon DEF Multiplied, Once
<1>4. StoredOf(ran) \subseteq 0..((C!tokens * C!rows) - 1)
  BY Zenon DEF StoredOf
<1>5. \A a \in 0..(k * n - 1) : a \in Nat
  BY <1>1
<1>6. \A a \in StoredOf(ran) : y[a] = <<C!ReferenceSum(a % C!rows, a \div C!rows)>>
  <2>1. \A a \in StoredOf(ran) : a \in Nat
    BY Zenon, <1>1, <1>4, <1>5
  <2>2. QED
    BY Zenon, <1>3, <2>1 DEF OwnSum
<1>7. ASSUME ran = C!Blocks, NEW a \in 0..(k * n - 1) PROVE a \in StoredOf(ran)
  <2>1. a \in Nat
    BY <1>5
  <2>2. a % n \in 0..(n - 1)
    BY Zenon, <2>1, DivMod
  <2>3. PICK r \in 0..(n - 1) : r = a % n
    BY Zenon, <2>2
  <2>4. r \in Nat
    OBVIOUS
  <2>5. r \div m <= (n + m - 1) \div m - 1 /\ r \div m \in Nat
    BY <2>4, DivTop
  <2>6. (n + m - 1) \div m - 1 \in Int
    <3>1. n + m - 1 \in Nat
      OBVIOUS
    <3>2. (n + m - 1) \div m \in Nat
      BY <3>1
    <3>3. QED
      BY <3>2
  <2>7. r \div m \in 0..((n + m - 1) \div m - 1)
    <3>1. PICK p \in Nat, q \in Int : p = r \div m /\ q = (n + m - 1) \div m - 1
      BY Zenon, <2>5, <2>6
    <3>2. p \in 0..q
      BY <2>5, <3>1
    <3>3. QED
      BY Zenon, <3>1, <3>2
  <2>8. (a % n) \div m \in C!Blocks
    BY Zenon, <1>1, <2>3, <2>7 DEF C!Blocks
  <2>9. QED
    BY Zenon, <1>1, <1>7, <2>8 DEF StoredOf
<1>8. ran = C!Blocks => DOMAIN y = 0..((C!tokens * C!rows) - 1)
  <2>1. ASSUME ran = C!Blocks PROVE 0..(k * n - 1) \subseteq StoredOf(ran)
    BY Zenon, <1>7, <2>1
  <2>2. StoredOf(ran) \subseteq 0..(k * n - 1)
    BY Zenon, <1>1, <1>4
  <2>3. ran = C!Blocks => StoredOf(ran) = 0..(k * n - 1)
    BY Zenon, <2>1, <2>2
  <2>4. QED
    BY Zenon, <1>1, <1>3, <2>3
<1>9. QED
  BY Zenon, <1>2, <1>3, <1>4, <1>6, <1>8 DEF EverySumInOrder, C!EverySumInOrder

(* Whatever the backend, the shapes and the order in which threads take      *)
(* units of rows, each sum of a product is stored once, at its own index,   *)
(* and adds what the reference adds in the reference's order                 *)
(* (kernels_neon.inc:1-4, kernels_avx512.inc:1-4).                           *)
THEOREM ProductsAddAsTheReference == C!Spec => []EverySumInOrder
<1>1. ProductInv => EverySumInOrder
  <2>1. C!Init => EverySumInOrder
    BY DEF C!Init, EverySumInOrder, C!EverySumInOrder
  <2>2. QED
    BY <2>1, ProductsAreInOrder DEF ProductInv
<1>2. QED
  BY <1>1, ProductInvariant, PTL
=============================================================================
