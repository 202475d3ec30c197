------------------------------ MODULE FoldLemmas ------------------------------
(***************************************************************************)
(* Induction, quotients, sequences as functions, and what the folds of the  *)
(* community modules compute, in the form the other proofs use them: an     *)
(* induction is over a set of numbers, a fold is the last of the values it  *)
(* goes through.                                                            *)
(***************************************************************************)
EXTENDS Integers, Sequences, FiniteSets, SequencesExt, FiniteSetsExt, TLAPS,
        SequenceTheorems, FiniteSetTheorems, WellFoundedInduction

-----------------------------------------------------------------------------
(* Numbers. *)

LEMMA Least ==
  ASSUME NEW T, T \subseteq Nat, T # {}
  PROVE  \E x \in T : \A y \in T : x <= y
<1> DEFINE R == OpToRel(<, Nat)
<1>1. IsWellFoundedOn(R, Nat)
  BY NatLessThanWellFounded
<1>2. \A x, y \in Nat : x < y => <<x, y>> \in R
  BY DEF OpToRel
<1> HIDE DEF R
<1>3. PICK x \in T : \A y \in T : ~(<<y, x>> \in R)
  BY <1>1, WFMin
<1>4. ASSUME NEW y \in T PROVE x <= y
  <2>1. x \in Nat /\ y \in Nat
    OBVIOUS
  <2>2. ~(y < x)
    BY Zenon, <1>2, <1>3, <2>1
  <2>3. QED
    BY <2>1, <2>2
<1>5. QED
  BY <1>4

(* Induction up to n over the numbers of which something holds. *)
LEMMA InductionTo ==
  ASSUME NEW n \in Nat, NEW T, 0 \in T, \A k \in 0..(n - 1) : k \in T => k + 1 \in T
  PROVE  \A k \in 0..n : k \in T
<1> DEFINE U == {k \in 0..n : k \notin T}
<1>1. SUFFICES ASSUME U # {} PROVE FALSE
  OBVIOUS
<1>2. U \subseteq Nat
  OBVIOUS
<1>3. PICK k \in U : \A j \in U : k <= j
  BY <1>1, <1>2, Least
<1>4. k \in Nat \ {0} /\ k <= n
  OBVIOUS
<1>5. k - 1 \in 0..(n - 1) /\ k - 1 \in 0..n
  BY <1>4
<1>6. k - 1 \in T
  BY <1>3, <1>4, <1>5
<1>7. (k - 1) + 1 = k
  BY <1>4
<1>8. QED
  BY <1>5, <1>6, <1>7

-----------------------------------------------------------------------------
(* Quotients and remainders. *)

LEMMA DivMod ==
  ASSUME NEW n \in Nat, NEW m \in Nat \ {0}
  PROVE  n \div m \in Nat /\ n % m \in 0..(m - 1) /\ n = (n \div m) * m + (n % m)
<1>1. n % m \in 0..(m - 1)
  OBVIOUS
<1>2. n \div m \in Nat
  OBVIOUS
<1>3. n = (n \div m) * m + (n % m)
  OBVIOUS
<1>4. QED
  BY <1>1, <1>2, <1>3

LEMMA DivModOf ==
  ASSUME NEW q \in Nat, NEW m \in Nat \ {0}, NEW r \in 0..(m - 1)
  PROVE  (q * m + r) \div m = q /\ (q * m + r) % m = r
  OBVIOUS

LEMMA DivBelow ==
  ASSUME NEW n \in Nat, NEW q \in Nat, NEW m \in Nat \ {0}, n < q * m
  PROVE  n \div m \in 0..(q - 1)
  OBVIOUS

LEMMA DivTop ==
  ASSUME NEW n \in Nat, NEW m \in Nat \ {0}, NEW r \in 0..(n - 1)
  PROVE  r \div m <= (n + m - 1) \div m - 1
  OBVIOUS

LEMMA PairBelow ==
  ASSUME NEW q \in Nat, NEW n \in Nat, q < n, NEW m \in Nat \ {0}, NEW r \in 0..(m - 1)
  PROVE  q * m + r \in 0..(n * m - 1)
  OBVIOUS

LEMMA NextResidue ==
  ASSUME NEW k \in Nat, NEW m \in Nat \ {0}
  PROVE  (k + m) % m = k % m
<1>1. PICK q \in Nat, r \in 0..(m - 1) : k = q * m + r
  BY DivMod
<1> DEFINE p == q + 1
<1>2. k + m = p * m + r /\ p \in Nat
  BY <1>1
<1> HIDE DEF p
<1>3. k % m = r
  BY <1>1, DivModOf
<1>4. (k + m) % m = r
  BY <1>2, DivModOf
<1>5. QED
  BY <1>3, <1>4

LEMMA SameResidue ==
  ASSUME NEW k \in Nat, NEW j \in Nat, NEW m \in Nat \ {0}, k % m = j % m, j <= k, k < j + m
  PROVE  k = j
<1>1. PICK q \in Nat, r \in 0..(m - 1) : k = q * m + r /\ r = k % m
  BY DivMod
<1>2. PICK p \in Nat, s \in 0..(m - 1) : j = p * m + s /\ s = j % m
  BY DivMod
<1>3. r = s
  BY <1>1, <1>2
<1>4. p <= q /\ q < p + 1
  BY <1>1, <1>2, <1>3
<1>5. QED
  BY <1>1, <1>2, <1>3, <1>4

-----------------------------------------------------------------------------
(* Sequences, as functions of 1..n. *)

Listed(s, n) == s = [i \in 1..n |-> s[i]]

LEMMA ListedLen ==
  ASSUME NEW n \in Nat, NEW s, Listed(s, n)
  PROVE  s \in Seq({s[i] : i \in 1..n}) /\ Len(s) = n /\ DOMAIN s = 1..n
<1> DEFINE R == {s[i] : i \in 1..n}
<1>1. \A i \in 1..n : s[i] \in R
  OBVIOUS
<1>2. s \in [1..n -> R]
  BY Zenon, <1>1 DEF Listed
<1> HIDE DEF R
<1>3. s \in Seq(R) /\ Len(s) = n
  BY <1>2
<1>4. DOMAIN s = 1..n
  BY <1>2
<1>5. QED
  BY <1>3, <1>4 DEF R

LEMMA SeqListed ==
  ASSUME NEW A, NEW s \in Seq(A)
  PROVE  Len(s) \in Nat /\ Listed(s, Len(s)) /\ DOMAIN s = 1..Len(s)
<1>1. Len(s) \in Nat /\ DOMAIN s = 1..Len(s) /\ s \in [1..Len(s) -> A]
  BY LenProperties
<1>2. Listed(s, Len(s))
  BY <1>1 DEF Listed
<1>3. QED
  BY <1>1, <1>2

JoinedTo(s, n, t, m) ==
  s \o t = [i \in 1..(n + m) |-> IF i <= n THEN s[i] ELSE t[i - n]]

LEMMA ListedConcat ==
  ASSUME NEW n \in Nat, NEW m \in Nat, NEW s, NEW t, Listed(s, n), Listed(t, m)
  PROVE  JoinedTo(s, n, t, m)
<1> DEFINE A == {s[i] : i \in 1..n} \cup {t[i] : i \in 1..m}
<1>1. s \in Seq({s[i] : i \in 1..n}) /\ Len(s) = n
  BY ListedLen
<1>2. t \in Seq({t[i] : i \in 1..m}) /\ Len(t) = m
  BY ListedLen
<1>3. s \in Seq(A)
  <2>1. {s[i] : i \in 1..n} \subseteq A
    OBVIOUS
  <2> HIDE DEF A
  <2>2. QED
    BY Zenon, <1>1, <2>1, SeqMonotonic
<1>4. t \in Seq(A)
  <2>1. {t[i] : i \in 1..m} \subseteq A
    OBVIOUS
  <2> HIDE DEF A
  <2>2. QED
    BY Zenon, <1>2, <2>1, SeqMonotonic
<1> HIDE DEF A
<1>5. /\ s \o t \in Seq(A) /\ Len(s \o t) = n + m
      /\ \A i \in 1..(n + m) : (s \o t)[i] = IF i <= n THEN s[i] ELSE t[i - n]
  <2>1. /\ s \o t \in Seq(A) /\ Len(s \o t) = Len(s) + Len(t)
        /\ \A i \in 1..(Len(s) + Len(t)) :
             (s \o t)[i] = IF i <= Len(s) THEN s[i] ELSE t[i - Len(s)]
    BY Zenon, <1>3, <1>4, ConcatProperties
  <2>2. QED
    BY Zenon, <1>1, <1>2, <2>1
<1>6. s \o t = [i \in 1..(n + m) |-> (s \o t)[i]]
  BY Zenon, <1>5, SeqListed DEF Listed
<1>7. QED
  BY Zenon, <1>5, <1>6 DEF JoinedTo

LEMMA ListedSub ==
  ASSUME NEW s, NEW m \in Int, NEW n \in Int
  PROVE  SubSeq(s, m, n) = [i \in 1..(n - m + 1) |-> s[m + i - 1]]
<1> DEFINE A == {s[i] : i \in m..n}
<1>1. \A i \in m..n : s[i] \in A
  OBVIOUS
<1> HIDE DEF A
<1>2. /\ SubSeq(s, m, n) \in Seq(A)
      /\ Len(SubSeq(s, m, n)) = (IF m <= n THEN n - m + 1 ELSE 0)
      /\ \A i \in 1..(n - m + 1) : SubSeq(s, m, n)[i] = s[m + i - 1]
  BY <1>1, SubSeqProperties
<1>3. 1..Len(SubSeq(s, m, n)) = 1..(n - m + 1)
  BY <1>2
<1>4. SubSeq(s, m, n) = [i \in 1..(n - m + 1) |-> SubSeq(s, m, n)[i]]
  BY Zenon, <1>2, <1>3, SeqListed DEF Listed
<1>5. QED
  BY Zenon, <1>2, <1>4

Longer(u, s, n, x) ==
  Listed(u, n + 1) /\ u[n + 1] = x /\ \A i \in 1..n : u[i] = s[i]

LEMMA ListedAppend ==
  ASSUME NEW n \in Nat, NEW s, Listed(s, n), NEW x
  PROVE  Longer(Append(s, x), s, n, x)
<1> DEFINE B == {s[i] : i \in 1..n} \cup {x}
           u == Append(s, x)
<1>1. s \in Seq({s[i] : i \in 1..n}) /\ Len(s) = n
  BY ListedLen
<1>2. s \in Seq(B)
  <2>1. {s[i] : i \in 1..n} \subseteq B
    OBVIOUS
  <2> HIDE DEF B
  <2>2. QED
    BY Zenon, <1>1, <2>1, SeqMonotonic
<1>3. x \in B
  OBVIOUS
<1> HIDE DEF B
<1>4. /\ u \in Seq(B) /\ Len(u) = Len(s) + 1
      /\ \A i \in 1..Len(s) : u[i] = s[i]
      /\ u[Len(s) + 1] = x
  BY <1>2, <1>3, AppendProperties
<1> HIDE DEF u
<1>5. Len(u) = n + 1 /\ (\A i \in 1..n : u[i] = s[i]) /\ u[n + 1] = x
  BY <1>1, <1>4
<1>6. Listed(u, n + 1)
  BY Zenon, <1>4, <1>5, SeqListed
<1>7. QED
  BY Zenon, <1>5, <1>6 DEF Longer, u

-----------------------------------------------------------------------------
(* The greatest of a set of numbers that begins at one. *)
LEMMA MaxOfRange ==
  ASSUME NEW k \in Nat \ {0}
  PROVE  Max(1..k) = k /\ (1..k) \ {k} = 1..(k - 1) /\ 1..k # {}
<1>1. \A x \in 1..k : (\A y \in 1..k : x >= y) <=> x = k
  OBVIOUS
<1>2. QED
  BY <1>1 DEF Max

(* A bounded set of natural numbers has a greatest element, which is its    *)
(* maximum.                                                                 *)
LEMMA Greatest ==
  ASSUME NEW n \in Nat, NEW T, T \subseteq 0..n, T # {}
  PROVE  Max(T) \in T /\ \A y \in T : y <= Max(T)
<1> DEFINE U == {n - x : x \in T}
<1>1. U \subseteq Nat /\ U # {}
  <2>1. \A x \in T : n - x \in Nat
    OBVIOUS
  <2>2. QED
    BY <2>1
<1>2. PICK u \in U : \A v \in U : u <= v
  BY <1>1, Least
<1>3. PICK x \in T : u = n - x
  OBVIOUS
<1>4. ASSUME NEW y \in T PROVE x >= y
  <2>1. u <= n - y
    BY <1>2
  <2>2. x \in 0..n /\ y \in 0..n
    OBVIOUS
  <2>3. QED
    BY <1>3, <2>1, <2>2
<1>5. \E z \in T : \A y \in T : z >= y
  BY <1>4
<1>6. Max(T) \in T /\ \A y \in T : Max(T) >= y
  BY Zenon, <1>5 DEF Max
<1>7. QED
  BY <1>6

LEMMA MaxIn ==
  ASSUME NEW n \in Nat, NEW T, T \subseteq 1..n, T # {}
  PROVE  Max(T) \in T /\ \A y \in T : y <= Max(T)
<1>1. T \subseteq 0..n
  OBVIOUS
<1>2. QED
  BY Zenon, <1>1, Greatest

(* What a fold from the left of n values goes by: of a set of positions it   *)
(* takes the greatest last.                                                  *)
FoldsBy(g, f, base, n) ==
  \A s \in SUBSET (1..n) : g[s] = IF s = {} THEN base ELSE f[Max(s)][g[s \ {Max(s)}]]

LEMMA FoldExists ==
  ASSUME NEW S, NEW base \in S, NEW n \in Nat, NEW f \in [1..n -> [S -> S]]
  PROVE  \E g \in [SUBSET (1..n) -> S] : FoldsBy(g, f, base, n)
<1> DEFINE T == {k \in 0..n : \E g \in [SUBSET (1..k) -> S] : FoldsBy(g, f, base, k)}
<1>1. 0 \in T
  <2> DEFINE g == [s \in SUBSET (1..0) |-> base]
  <2>1. g \in [SUBSET (1..0) -> S]
    OBVIOUS
  <2>2. FoldsBy(g, f, base, 0)
    <3>1. \A s \in SUBSET (1..0) : s = {}
      OBVIOUS
    <3>2. QED
      BY <3>1 DEF FoldsBy
  <2>3. 0 \in 0..n
    OBVIOUS
  <2>4. QED
    BY Zenon, <2>1, <2>2, <2>3
<1>2. ASSUME NEW k \in 0..(n - 1), k \in T PROVE k + 1 \in T
  <2>1. PICK g \in [SUBSET (1..k) -> S] : FoldsBy(g, f, base, k)
    BY Zenon, <1>2
  <2> DEFINE m == k + 1
             h == [s \in SUBSET (1..m) |-> IF m \in s THEN f[m][g[s \ {m}]] ELSE g[s]]
  <2>2. m \in Nat \ {0} /\ m \in 1..n /\ m \in 0..n /\ 1..m = (1..k) \cup {m} /\ m \notin 1..k
    OBVIOUS
  <2> HIDE DEF m
  <2>3. ASSUME NEW s \in SUBSET (1..m)
        PROVE  s \ {m} \in SUBSET (1..k) /\ (m \notin s => s \in SUBSET (1..k))
    BY <2>2
  <2>4. h \in [SUBSET (1..m) -> S]
    <3>1. ASSUME NEW s \in SUBSET (1..m) PROVE h[s] \in S
      BY <2>2, <2>3
    <3>2. QED
      BY <3>1
  <2>5. ASSUME NEW s \in SUBSET (1..m)
        PROVE  h[s] = IF s = {} THEN base ELSE f[Max(s)][h[s \ {Max(s)}]]
    <3>1. CASE m \in s
      <4>1. Max(s) = m
        <5>1. Max(s) \in s /\ \A y \in s : y <= Max(s)
          BY <2>2, <3>1, MaxIn
        <5>2. m <= Max(s) /\ Max(s) \in 1..m
          BY <3>1, <5>1
        <5>3. QED
          BY <2>2, <5>2
      <4>2. s \ {m} \in SUBSET (1..m) /\ m \notin s \ {m} /\ s # {}
        BY <2>2, <3>1
      <4>3. h[s \ {m}] = g[s \ {m}] /\ h[s] = f[m][g[s \ {m}]]
        BY Zenon, <3>1, <4>2
      <4>4. QED
        BY Zenon, <4>1, <4>2, <4>3
    <3>2. CASE m \notin s
      <4>1. s \in SUBSET (1..k)
        BY <2>3, <3>2
      <4>2. h[s] = g[s] /\ h[s \ {Max(s)}] = g[s \ {Max(s)}]
        <5>1. s \ {Max(s)} \in SUBSET (1..m) /\ m \notin s \ {Max(s)}
          BY <3>2
        <5>2. QED
          BY Zenon, <3>2, <5>1
      <4>3. g[s] = IF s = {} THEN base ELSE f[Max(s)][g[s \ {Max(s)}]]
        BY <2>1, <4>1 DEF FoldsBy
      <4>4. QED
        BY Zenon, <4>2, <4>3
    <3>3. QED
      BY <3>1, <3>2
  <2> HIDE DEF h
  <2>6. FoldsBy(h, f, base, m)
    BY Zenon, <2>5 DEF FoldsBy
  <2>7. m \in T
    BY Zenon, <2>2, <2>4, <2>6
  <2>8. QED
    BY Zenon, <2>7 DEF m
<1> HIDE DEF T
<1>3. n \in T
  <2>1. \A k \in 0..n : k \in T
    BY Zenon, <1>1, <1>2, InductionTo
  <2>2. QED
    BY <2>1
<1>4. QED
  BY Zenon, <1>3 DEF T

(* The values it goes through. *)
Runs(r, f, base, n) ==
  r[0] = base /\ \A k \in 1..n : r[k] = f[k][r[k - 1]]

GoesOn(g, f, base, n, S) ==
  /\ g[1..0] = base
  /\ \A k \in 1..n : g[1..(k - 1)] \in S => g[1..k] = f[k][g[1..(k - 1)]]

(* The values r a fold goes through, from base to x. *)
RunsTo(r, f, base, n, S, x) == r \in [0..n -> S] /\ Runs(r, f, base, n) /\ r[n] = x

Turns(n, S) == [1..n -> [S -> S]]

LEMMA FoldRuns ==
  ASSUME NEW S, NEW base \in S, NEW n \in Nat, NEW f \in Turns(n, S), NEW g,
         GoesOn(g, f, base, n, S)
  PROVE  \E r : RunsTo(r, f, base, n, S, g[1..n])
<1> DEFINE r == [k \in 0..n |-> g[1..k]]
           T == {k \in 0..n : g[1..k] \in S}
<1>1. 0 \in T
  BY DEF GoesOn
<1>2. ASSUME NEW k \in 0..(n - 1), k \in T PROVE k + 1 \in T
  <2>1. k + 1 \in 1..n /\ k + 1 \in 0..n /\ (k + 1) - 1 = k /\ g[1..k] \in S
    BY <1>2
  <2>2. g[1..(k + 1)] = f[k + 1][g[1..k]]
    BY <2>1 DEF GoesOn
  <2>3. f[k + 1][g[1..k]] \in S
    BY <2>1 DEF Turns
  <2>4. QED
    BY Zenon, <2>1, <2>2, <2>3
<1> HIDE DEF T
<1>3. \A k \in 0..n : k \in T
  BY Zenon, <1>1, <1>2, InductionTo
<1>4. \A k \in 0..n : g[1..k] \in S
  BY <1>3 DEF T
<1>5. r \in [0..n -> S] /\ r[n] = g[1..n]
  BY <1>4
<1>6. Runs(r, f, base, n)
  <2>1. r[0] = base
    BY DEF GoesOn
  <2>2. ASSUME NEW k \in 1..n PROVE r[k] = f[k][r[k - 1]]
    <3>1. k \in 0..n /\ k - 1 \in 0..n
      OBVIOUS
    <3>2. r[k] = g[1..k] /\ r[k - 1] = g[1..(k - 1)] /\ g[1..(k - 1)] \in S
      BY <1>4, <3>1
    <3>3. QED
      BY <3>2 DEF GoesOn
  <2>3. QED
    BY <2>1, <2>2 DEF Runs
<1>7. QED
  BY Zenon, <1>5, <1>6 DEF RunsTo

(* What a fold's values go by, of a set of positions, wherever they are of S. *)
GoesBy(g, f, base, n, S) ==
  \A s \in SUBSET (1..n) :
    /\ s = {} => g[s] = base
    /\ s # {} /\ g[s \ {Max(s)}] \in S => g[s] = f[Max(s)][g[s \ {Max(s)}]]

LEMMA FoldGoes ==
  ASSUME NEW S, NEW base \in S, NEW n \in Nat, NEW f \in Turns(n, S), NEW g,
         GoesBy(g, f, base, n, S)
  PROVE  \E r : RunsTo(r, f, base, n, S, g[1..n])
<1>1. g[1..0] = base
  <2>1. 1..0 = {} /\ {} \in SUBSET (1..n)
    OBVIOUS
  <2>2. QED
    BY Zenon, <2>1 DEF GoesBy
<1>2. ASSUME NEW k \in 1..n, g[1..(k - 1)] \in S PROVE g[1..k] = f[k][g[1..(k - 1)]]
  <2>1. k \in Nat \ {0} /\ 1..k \in SUBSET (1..n)
    OBVIOUS
  <2>2. Max(1..k) = k /\ (1..k) \ {k} = 1..(k - 1) /\ 1..k # {}
    BY Zenon, <2>1, MaxOfRange
  <2>3. QED
    BY Zenon, <1>2, <2>1, <2>2 DEF GoesBy
<1>3. GoesOn(g, f, base, n, S)
  BY Zenon, <1>1, <1>2 DEF GoesOn
<1>4. QED
  BY Zenon, <1>3, FoldRuns

(* Values of S that the steps of f go through exist. *)
Iterates(h, f, base, n, S) ==
  /\ h \in [SUBSET (1..n) -> S]
  /\ \A s \in SUBSET (1..n) :
       /\ s = {} => h[s] = base
       /\ s # {} => Max(s) \in 1..n /\ h[s \ {Max(s)}] \in S /\ h[s] = f[Max(s)][h[s \ {Max(s)}]]

LEMMA IterationExists ==
  ASSUME NEW S, NEW base \in S, NEW n \in Nat, NEW f \in Turns(n, S)
  PROVE  \E h : Iterates(h, f, base, n, S)
<1>1. PICK h \in [SUBSET (1..n) -> S] : FoldsBy(h, f, base, n)
  BY Zenon, FoldExists DEF Turns
<1>2. ASSUME NEW s \in SUBSET (1..n), s # {}
      PROVE  Max(s) \in 1..n /\ h[s \ {Max(s)}] \in S /\ h[s] = f[Max(s)][h[s \ {Max(s)}]]
  <2>1. Max(s) \in s
    BY Zenon, <1>2, MaxIn
  <2>2. s \ {Max(s)} \in SUBSET (1..n) /\ Max(s) \in 1..n
    BY <2>1
  <2>3. QED
    BY Zenon, <1>1, <1>2, <2>2 DEF FoldsBy
<1>3. \A s \in SUBSET (1..n) : s = {} => h[s] = base
  BY Zenon, <1>1 DEF FoldsBy
<1>4. QED
  BY Zenon, <1>1, <1>2, <1>3 DEF Iterates
=============================================================================
