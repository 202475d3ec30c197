---------------------------- MODULE Forward_proofs ----------------------------
(***************************************************************************)
(* Proofs about Forward.  First the sums of the accelerator's products: the *)
(* threads of a block go through a chunk together, because a barrier lets  *)
(* none go before all have come: they wait, or stage, or everything of the  *)
(* chunk is staged and they compute.  So what a thread adds up was staged,  *)
(* by it or by others, and is not staged over before all are past.          *)
(*                                                                         *)
(* Then the passes: whatever shares a pass with a segment, the rows of the  *)
(* segment are those of its prompt and canvas by themselves, because what a *)
(* row takes is the same stretch of keys on either side, and because a row  *)
(* of a prompt depends on no token after it, which is what lets a prefix be *)
(* kept and shared.                                                        *)
(***************************************************************************)
EXTENDS Forward, FoldLemmas

-----------------------------------------------------------------------------
(* Numbers. *)

LEMMA MinOfTwo ==
  ASSUME NEW m \in Nat, NEW n \in Nat
  PROVE  D!Min({m, n}) = IF m <= n THEN m ELSE n
BY DEF D!Min

LEMMA MaxOfTwo ==
  ASSUME NEW m \in Nat, NEW n \in Nat
  PROVE  D!Max({m, n}) = IF m <= n THEN n ELSE m
BY DEF D!Max

-----------------------------------------------------------------------------
(* The accelerator's products.  Tiles. *)

Tile == [start : Nat, count : Nat, group : Nat]

LEMMA LaunchIs ==
  ASSUME launch \in Launches
  PROVE  /\ D!rows \in Nat \ {0} /\ D!units \in Nat \ {0} /\ D!count \in Nat \ {0}
         /\ launch.groups \in [1..D!count -> Nat]
         /\ launch.kernel \in {"nvfp4_mm", "bf16_mm", "bf16_body"}
BY DeviceAssumption DEF D!rows, D!units, D!count

LEMMA DeviceSizes ==
  /\ BlockRows \in Nat \ {0} /\ BlockTokens \in Nat \ {0} /\ Slices \in Nat \ {0}
  /\ ChunkUnits \in Nat \ {0} /\ BlockGridY \in Nat \ {0} /\ BlockTokens % Slices = 0
BY DeviceAssumption

(* A token begins a tile, or goes with the last. *)
Began(made, t) ==
  Append(made, [start |-> t, count |-> 1, group |-> launch.groups[t + 1]])

Grown(made) == [made EXCEPT ![Len(made)].count = @ + 1]

LEMMA TiledIs ==
  ASSUME NEW made \in Seq(Tile), NEW t
  PROVE  /\ D!Closes(made, t) => D!Tiled(made, t) = Began(made, t)
         /\ ~D!Closes(made, t) =>
              /\ D!Tiled(made, t) = Grown(made)
              /\ Len(made) \in Nat \ {0} /\ made[Len(made)].count # BlockTokens
              /\ made[Len(made)].group = launch.groups[t + 1]
<1>1. D!Closes(made, t) => D!Tiled(made, t) = Began(made, t)
  BY DEF D!Tiled, Began
<1>2. ASSUME ~D!Closes(made, t)
      PROVE  /\ D!Tiled(made, t) = Grown(made)
             /\ Len(made) \in Nat \ {0} /\ made[Len(made)].count # BlockTokens
             /\ made[Len(made)].group = launch.groups[t + 1]
  <2>1. made # <<>> /\ made[Len(made)].count # BlockTokens
        /\ made[Len(made)].group = launch.groups[t + 1]
    BY <1>2 DEF D!Closes, D!Last
  <2>2. Len(made) \in Nat \ {0}
    BY <2>1
  <2>3. D!Tiled(made, t) = Grown(made)
    BY Zenon, <1>2 DEF D!Tiled, Grown
  <2>4. QED
    BY <2>1, <2>2, <2>3
<1>3. QED
  BY Zenon, <1>1, <1>2

LEMMA GrownIs ==
  ASSUME NEW made \in Seq(Tile), Len(made) \in Nat \ {0}
  PROVE  /\ Grown(made) \in Seq(Tile) /\ Len(Grown(made)) = Len(made)
         /\ \A i \in 1..(Len(made) - 1) : Grown(made)[i] = made[i]
         /\ LET last == Grown(made)[Len(made)]
            IN  /\ last.start = made[Len(made)].start /\ last.group = made[Len(made)].group
                /\ last.count = made[Len(made)].count + 1
<1> DEFINE n == Len(made)
           m == made[n]
           last == [start |-> m.start, count |-> m.count + 1, group |-> m.group]
<1>1. n \in 1..n /\ m \in Tile
  BY ElementOfSeq
<1>2. last \in Tile /\ last.start = m.start /\ last.group = m.group /\ last.count = m.count + 1
  BY <1>1 DEF Tile
<1>3. Grown(made) = [made EXCEPT ![n] = last]
  <2>1. m = [start |-> m.start, count |-> m.count, group |-> m.group]
    BY <1>1 DEF Tile
  <2>2. [m EXCEPT !.count = m.count + 1] = last
    BY <1>1 DEF Tile
  <2>3. QED
    BY <2>2 DEF Grown
<1> HIDE DEF last, m
<1>4. [made EXCEPT ![n] = last] \in Seq(Tile) /\ Len([made EXCEPT ![n] = last]) = n
  BY <1>1, <1>2
<1>5. /\ \A i \in 1..(n - 1) : [made EXCEPT ![n] = last][i] = made[i]
      /\ [made EXCEPT ![n] = last][n] = last
  BY <1>1
<1>6. QED
  BY Zenon, <1>2, <1>3, <1>4, <1>5 DEF m

LEMMA BeganIs ==
  ASSUME launch \in Launches, NEW made \in Seq(Tile), NEW t \in 0..(D!count - 1)
  PROVE  /\ Began(made, t) \in Seq(Tile) /\ Len(Began(made, t)) = Len(made) + 1
         /\ \A i \in 1..Len(made) : Began(made, t)[i] = made[i]
         /\ LET last == Began(made, t)[Len(made) + 1]
            IN  last.start = t /\ last.count = 1 /\ last.group = launch.groups[t + 1]
<1> DEFINE last == [start |-> t, count |-> 1, group |-> launch.groups[t + 1]]
<1>1. launch.groups[t + 1] \in Nat /\ t \in Nat
  BY LaunchIs
<1>2. last \in Tile /\ last.start = t /\ last.count = 1 /\ last.group = launch.groups[t + 1]
  BY <1>1 DEF Tile
<1> HIDE DEF last
<1>3. Began(made, t) = Append(made, last)
  BY Zenon DEF Began, last
<1>4. /\ Append(made, last) \in Seq(Tile) /\ Len(Append(made, last)) = Len(made) + 1
      /\ \A i \in 1..Len(made) : Append(made, last)[i] = made[i]
      /\ Append(made, last)[Len(made) + 1] = last
  BY <1>2
<1>5. QED
  BY Zenon, <1>2, <1>3, <1>4

LEMMA TiledTyped ==
  ASSUME launch \in Launches, NEW made \in Seq(Tile), NEW t \in 0..(D!count - 1)
  PROVE  D!Tiled(made, t) \in Seq(Tile)
<1>1. CASE D!Closes(made, t)
  BY <1>1, TiledIs, BeganIs
<1>2. CASE ~D!Closes(made, t)
  BY <1>2, TiledIs, GrownIs
<1>3. QED
  BY <1>1, <1>2

(* The values the tiles of n tokens go through. *)
TiledBy(r, n) ==
  /\ r \in [0..n -> Seq(Tile)] /\ r[0] = <<>>
  /\ \A k \in 1..n : r[k] = D!Tiled(r[k - 1], k - 1)
  /\ D!Tiles = r[n]

LEMMA TilesRun ==
  ASSUME launch \in Launches
  PROVE  \E r : TiledBy(r, D!count)
<1> DEFINE n == D!count
           ts == [t \in 1..n |-> t - 1]
           f == [i \in 1..n |-> [made \in Seq(Tile) |-> D!Tiled(made, i - 1)]]
           G(g) == g = [s \in SUBSET DOMAIN ts |->
                          IF s = {} THEN <<>>
                          ELSE D!Tiled(g[s \ {Max(s)}], ts[Max(s)])]
           g == CHOOSE g : G(g)
<1>1. n \in Nat /\ DOMAIN ts = 1..n /\ \A i \in 1..n : ts[i] = i - 1 /\ i - 1 \in 0..(n - 1)
  BY LaunchIs
<1>2. f \in [1..n -> [Seq(Tile) -> Seq(Tile)]]
  <2>1. ASSUME NEW i \in 1..n, NEW made \in Seq(Tile) PROVE D!Tiled(made, i - 1) \in Seq(Tile)
    BY Zenon, <1>1, TiledTyped
  <2>2. QED
    BY Zenon, <2>1
<1>3. \A i \in 1..n : \A made \in Seq(Tile) : f[i][made] = D!Tiled(made, i - 1)
  BY Zenon
<1>4. D!Tiles = g[DOMAIN ts]
  <2>1. \A s : D!Max(s) = Max(s)
    BY Zenon DEF D!Max, Max
  <2>2. QED
    BY Zenon DEF D!Tiles, D!FoldLeft, D!MapThenFoldSet, D!Max, Max
<1>5. <<>> \in Seq(Tile)
  OBVIOUS
<1> HIDE DEF f, n, ts
<1>6. \E h : G(h)
  <2>1. PICK h \in [SUBSET (1..n) -> Seq(Tile)] : FoldsBy(h, f, <<>>, n)
    BY Zenon, <1>1, <1>2, <1>5, FoldExists
  <2>2. ASSUME NEW s \in SUBSET (1..n)
        PROVE  h[s] = IF s = {} THEN <<>> ELSE D!Tiled(h[s \ {Max(s)}], ts[Max(s)])
    <3>1. CASE s = {}
      BY Zenon, <2>1, <3>1 DEF FoldsBy
    <3>2. CASE s # {}
      <4>1. Max(s) \in s /\ s \ {Max(s)} \in SUBSET (1..n)
        BY Zenon, <1>1, <3>2, MaxIn
      <4>2. Max(s) \in 1..n /\ h[s \ {Max(s)}] \in Seq(Tile)
        BY Zenon, <2>1, <4>1
      <4>3. h[s] = f[Max(s)][h[s \ {Max(s)}]]
        BY Zenon, <2>1, <3>2 DEF FoldsBy
      <4>4. QED
        BY Zenon, <1>1, <1>3, <3>2, <4>2, <4>3
    <3>3. QED
      BY Zenon, <3>1, <3>2
  <2>3. h = [s \in SUBSET (1..n) |-> h[s]]
    BY Zenon, <2>1
  <2>4. G(h)
    BY Zenon, <1>1, <2>2, <2>3
  <2>5. QED
    BY Zenon, <2>4
<1>7. G(g)
  BY Zenon, <1>6
<1> HIDE DEF g
<1>8. \A s \in SUBSET DOMAIN ts :
         g[s] = IF s = {} THEN <<>> ELSE D!Tiled(g[s \ {Max(s)}], ts[Max(s)])
  BY Zenon, <1>7
<1> HIDE DEF G
<1>9. g[1..0] = <<>>
  <2>1. 1..0 = {} /\ {} \in SUBSET DOMAIN ts
    OBVIOUS
  <2>2. QED
    BY Zenon, <1>8, <2>1
<1>10. ASSUME NEW k \in 1..n, g[1..(k - 1)] \in Seq(Tile) PROVE g[1..k] = f[k][g[1..(k - 1)]]
  <2>1. Max(1..k) = k /\ (1..k) \ {k} = 1..(k - 1) /\ 1..k # {}
    <3>1. k \in Nat \ {0}
      BY <1>1
    <3>2. QED
      BY Zenon, <3>1, MaxOfRange
  <2>2. 1..k \in SUBSET DOMAIN ts
    BY <1>1
  <2>3. g[1..k] = D!Tiled(g[(1..k) \ {Max(1..k)}], ts[Max(1..k)])
    BY Zenon, <1>8, <2>1, <2>2
  <2>4. ts[k] = k - 1
    BY Zenon, <1>1
  <2>5. g[1..k] = D!Tiled(g[1..(k - 1)], k - 1)
    BY Zenon, <2>1, <2>3, <2>4
  <2>6. QED
    BY Zenon, <1>3, <1>10, <2>5
<1>11. PICK r : RunsTo(r, f, <<>>, n, Seq(Tile), g[1..n])
  <2>1. GoesOn(g, f, <<>>, n, Seq(Tile))
    BY Zenon, <1>9, <1>10 DEF GoesOn
  <2>2. f \in Turns(n, Seq(Tile))
    BY Zenon, <1>2 DEF Turns
  <2>3. QED
    BY Zenon, <1>1, <1>5, <2>1, <2>2, FoldRuns
<1>12. r \in [0..n -> Seq(Tile)] /\ Runs(r, f, <<>>, n) /\ r[n] = g[1..n]
  BY Zenon, <1>11 DEF RunsTo
<1>13. \A k \in 1..n : r[k] = D!Tiled(r[k - 1], k - 1)
  <2>1. ASSUME NEW k \in 1..n PROVE r[k] = D!Tiled(r[k - 1], k - 1)
    <3>1. k - 1 \in 0..n
      BY <1>1
    <3>2. r[k - 1] \in Seq(Tile)
      BY Zenon, <1>12, <3>1
    <3>3. QED
      BY Zenon, <1>3, <1>12, <3>2 DEF Runs
  <2>2. QED
    BY Zenon, <2>1
<1>14. TiledBy(r, n)
  BY Zenon, <1>1, <1>4, <1>12, <1>13 DEF TiledBy, Runs
<1>15. QED
  BY Zenon, <1>14 DEF n

(* Tiles of the first n tokens: of tokens in a row of one matrix, in order,  *)
(* and of every token.                                                       *)
Tiling(made, n) ==
  /\ n > 0 => made # <<>> /\ made[Len(made)].start + made[Len(made)].count = n
  /\ \A i \in 1..Len(made) :
       /\ made[i].count \in 1..BlockTokens /\ made[i].start + made[i].count <= n
       /\ \A t \in made[i].start..(made[i].start + made[i].count - 1) :
            launch.groups[t + 1] = made[i].group
  /\ \A i, j \in 1..Len(made) : i < j => made[i].start + made[i].count <= made[j].start
  /\ \A t \in 0..(n - 1) : \E i \in 1..Len(made) :
       t \in made[i].start..(made[i].start + made[i].count - 1)

LEMMA TilingGoesOn ==
  ASSUME launch \in Launches, NEW made \in Seq(Tile), NEW n \in 0..(D!count - 1),
         Tiling(made, n)
  PROVE  Tiling(D!Tiled(made, n), n + 1)
<1> DEFINE made2 == D!Tiled(made, n)
           m == Len(made)
<1>1. m \in Nat /\ n \in Nat /\ \A i \in 1..m : made[i] \in Tile
  BY LaunchIs
<1>2. \A i \in 1..m : made[i].start \in Nat /\ made[i].count \in Nat
  BY <1>1 DEF Tile
<1> DEFINE Covers(i) == \A t \in made[i].start..(made[i].start + made[i].count - 1) :
                          launch.groups[t + 1] = made[i].group
<1> DEFINE Ordered(i) == made[i].count \in 1..BlockTokens /\ made[i].start + made[i].count <= n
<1>6. \A i \in 1..m : Ordered(i) /\ Covers(i)
  BY DEF Tiling
<1>3. CASE D!Closes(made, n)
  <2>1. made2 = Began(made, n)
    BY Zenon, <1>3, TiledIs
  <2>2. made2 \in Seq(Tile) /\ Len(made2) = m + 1 /\ \A i \in 1..m : made2[i] = made[i]
    BY <2>1, BeganIs
  <2>3. /\ made2[m + 1].start = n /\ made2[m + 1].count = 1
        /\ made2[m + 1].group = launch.groups[n + 1]
    BY <2>1, BeganIs
  <2> HIDE DEF made2
  <2>4. made2 # <<>> /\ made2[Len(made2)].start + made2[Len(made2)].count = n + 1
    BY <1>1, <2>2, <2>3
  <2>5. ASSUME NEW i \in 1..Len(made2)
        PROVE  /\ made2[i].count \in 1..BlockTokens
               /\ made2[i].start + made2[i].count <= n + 1
               /\ \A t \in made2[i].start..(made2[i].start + made2[i].count - 1) :
                    launch.groups[t + 1] = made2[i].group
    <3>1. CASE i \in 1..m
      <4>1. made2[i] = made[i] /\ Covers(i)
        BY Zenon, <1>6, <2>2, <3>1
      <4>2. made[i].count \in 1..BlockTokens /\ made[i].start + made[i].count <= n + 1
        BY <1>1, <1>2, <1>6, <3>1
      <4>3. QED
        BY Zenon, <4>1, <4>2
    <3>2. CASE i = m + 1
      BY <1>1, <2>3, <3>2, DeviceSizes
    <3>3. QED
      BY <1>1, <2>2, <2>5, <3>1, <3>2
  <2>6. ASSUME NEW i \in 1..Len(made2), NEW j \in 1..Len(made2), i < j
        PROVE  made2[i].start + made2[i].count <= made2[j].start
    <3>1. i \in 1..m
      BY <1>1, <2>2, <2>6
    <3>2. CASE j \in 1..m
      BY <2>2, <2>6, <3>1, <3>2 DEF Tiling
    <3>3. CASE j = m + 1
      BY <2>2, <2>3, <3>1, <3>3 DEF Tiling
    <3>4. QED
      BY <1>1, <2>2, <2>6, <3>2, <3>3
  <2>7. ASSUME NEW t \in 0..n
        PROVE  \E i \in 1..Len(made2) :
                 t \in made2[i].start..(made2[i].start + made2[i].count - 1)
    <3>1. CASE t = n
      <4>1. /\ m + 1 \in 1..Len(made2)
            /\ t \in made2[m + 1].start..(made2[m + 1].start + made2[m + 1].count - 1)
        BY <1>1, <2>2, <2>3, <3>1
      <4>2. QED
        BY <4>1
    <3>2. CASE t \in 0..(n - 1)
      <4>1. PICK i \in 1..m : t \in made[i].start..(made[i].start + made[i].count - 1)
        BY <3>2 DEF Tiling
      <4>2. i \in 1..Len(made2) /\ made2[i] = made[i]
        BY <1>1, <2>2
      <4>3. QED
        BY <4>1, <4>2
    <3>3. QED
      BY <1>1, <2>7, <3>1, <3>2
  <2>8. QED
    BY <1>1, <2>4, <2>5, <2>6, <2>7 DEF Tiling, made2
<1>4. CASE ~D!Closes(made, n)
  <2>1. /\ made2 = Grown(made) /\ m \in Nat \ {0} /\ made[m].count # BlockTokens
        /\ made[m].group = launch.groups[n + 1]
    BY Zenon, <1>4, TiledIs
  <2>2. made2 \in Seq(Tile) /\ Len(made2) = m /\ \A i \in 1..(m - 1) : made2[i] = made[i]
    BY <2>1, GrownIs
  <2>3. made2[m].start = made[m].start /\ made2[m].count = made[m].count + 1
        /\ made2[m].group = made[m].group
    BY <2>1, GrownIs
  <2>4. made[m].count \in 1..BlockTokens /\ m \in 1..m
    BY <1>1, <2>1 DEF Tiling
  <2>5. made[m].start + made[m].count = n
    <3>1. n > 0
      BY <1>1, <1>2, <2>4 DEF Tiling
    <3>2. QED
      BY <3>1 DEF Tiling
  <2> HIDE DEF made2
  <2>6. made2 # <<>> /\ made2[Len(made2)].start + made2[Len(made2)].count = n + 1
    BY <1>1, <1>2, <2>1, <2>2, <2>3, <2>4, <2>5
  <2>7. ASSUME NEW i \in 1..Len(made2)
        PROVE  /\ made2[i].count \in 1..BlockTokens
               /\ made2[i].start + made2[i].count <= n + 1
               /\ \A t \in made2[i].start..(made2[i].start + made2[i].count - 1) :
                    launch.groups[t + 1] = made2[i].group
    <3>1. CASE i \in 1..(m - 1)
      <4>1. i \in 1..m
        BY <1>1, <3>1
      <4>2. made2[i] = made[i] /\ Covers(i)
        BY Zenon, <1>6, <2>2, <3>1, <4>1
      <4>3. made[i].count \in 1..BlockTokens /\ made[i].start + made[i].count <= n + 1
        BY <1>1, <1>2, <1>6, <4>1
      <4>4. QED
        BY Zenon, <4>2, <4>3
    <3>2. CASE i = m
      <4>1. made2[i].count \in 1..BlockTokens /\ made2[i].start + made2[i].count = n + 1
        <5>1. made[m].count + 1 \in 1..BlockTokens
          BY <2>1, <2>4, DeviceSizes
        <5>2. made[m].start \in Nat /\ made[m].count \in Nat
          BY <1>2, <2>4
        <5>3. PICK j \in Nat, l \in Nat : j = made[m].start /\ l = made[m].count
          BY Zenon, <5>2
        <5>4. j + (l + 1) = n + 1
          <6>1. j + l = n /\ n \in Nat
            BY Zenon, <1>1, <2>5, <5>3
          <6>2. QED
            BY <6>1
        <5>5. made2[i].count = l + 1 /\ made2[i].start = j
          BY Zenon, <2>3, <3>2, <5>3
        <5>6. QED
          BY Zenon, <5>1, <5>3, <5>4, <5>5
      <4>2. ASSUME NEW t \in made2[i].start..(made2[i].start + made2[i].count - 1)
            PROVE  launch.groups[t + 1] = made2[i].group
        <5>1. CASE t = n
          BY <2>1, <2>3, <3>2, <5>1
        <5>2. CASE t # n
          <6>1. t \in made[m].start..(made[m].start + made[m].count - 1)
            <7>1. PICK j \in Nat, l \in Nat : j = made[m].start /\ l = made[m].count
              BY Zenon, <1>2, <2>4
            <7>2. made2[i].count = l + 1 /\ made2[i].start = j
              BY Zenon, <2>3, <3>2, <7>1
            <7>3. t \in j..(j + (l + 1) - 1)
              BY Zenon, <7>2
            <7>4. j + l = n
              BY Zenon, <2>5, <7>1
            <7>5. t \in j..(j + l - 1)
              BY <5>2, <7>3, <7>4
            <7>6. QED
              BY Zenon, <7>1, <7>5
          <6>2. QED
            BY <2>3, <2>4, <3>2, <6>1 DEF Tiling
        <5>3. QED
          BY <5>1, <5>2
      <4>3. QED
        BY <1>1, <4>1, <4>2
    <3>3. QED
      BY <1>1, <2>2, <2>7, <3>1, <3>2
  <2>8. ASSUME NEW i \in 1..Len(made2), NEW j \in 1..Len(made2), i < j
        PROVE  made2[i].start + made2[i].count <= made2[j].start
    <3>1. i \in 1..(m - 1) /\ made2[i] = made[i] /\ made2[j].start = made[j].start
      BY <1>1, <2>2, <2>3, <2>8
    <3>2. QED
      BY <2>2, <2>8, <3>1 DEF Tiling
  <2>9. ASSUME NEW t \in 0..n
        PROVE  \E i \in 1..Len(made2) :
                 t \in made2[i].start..(made2[i].start + made2[i].count - 1)
    <3>1. CASE t = n
      <4>1. t \in made2[m].start..(made2[m].start + made2[m].count - 1)
        BY <1>1, <1>2, <2>3, <2>4, <2>5, <3>1
      <4>2. QED
        BY <2>2, <2>4, <4>1
    <3>2. CASE t \in 0..(n - 1)
      <4>1. PICK i \in 1..m : t \in made[i].start..(made[i].start + made[i].count - 1)
        BY <3>2 DEF Tiling
      <4>2. t \in made2[i].start..(made2[i].start + made2[i].count - 1)
        <5>1. CASE i = m
          <6>1. made[m].start \in Nat /\ made[m].count \in Nat
            BY <1>2, <2>4
          <6>2. QED
            <7>1. PICK j \in Nat, l \in Nat : j = made[m].start /\ l = made[m].count
              BY Zenon, <6>1
            <7>2. t \in j..(j + l - 1)
              BY Zenon, <4>1, <5>1, <7>1
            <7>3. t \in j..(j + (l + 1) - 1)
              BY <7>2
            <7>4. made2[i].start = j /\ made2[i].count = l + 1
              BY Zenon, <2>3, <5>1, <7>1
            <7>5. QED
              BY Zenon, <7>3, <7>4
        <5>2. CASE i # m
          <6>1. i \in 1..(m - 1)
            BY <1>1, <4>1, <5>2
          <6>2. QED
            BY <2>2, <4>1, <6>1
        <5>3. QED
          BY <5>1, <5>2
      <4>3. QED
        BY <2>2, <4>1, <4>2
    <3>3. QED
      BY <1>1, <2>9, <3>1, <3>2
  <2>10. QED
    BY <1>1, <2>6, <2>7, <2>8, <2>9 DEF Tiling, made2
<1>5. QED
  BY <1>3, <1>4

TileIds == 0..(Len(D!Tiles) - 1)
First(k) == D!Tiles[k + 1].start
Size(k) == D!Tiles[k + 1].count
Matrix(k) == D!Tiles[k + 1].group

(* The token is one of the tile's. *)
InTile(t, k) == First(k) <= t /\ t < First(k) + Size(k)

TilesSound ==
  /\ Len(D!Tiles) \in Nat \ {0}
  /\ \A k \in TileIds :
       First(k) \in Nat /\ Size(k) \in 1..BlockTokens /\ First(k) + Size(k) <= D!count
  /\ \A k \in TileIds : \A t \in 0..(Size(k) - 1) : launch.groups[First(k) + t + 1] = Matrix(k)
  /\ \A k, j \in TileIds : k < j => First(k) + Size(k) <= First(j)
  /\ \A t \in 0..(D!count - 1) : \E k \in TileIds : InTile(t, k)

LEMMA TilesAre ==
  ASSUME launch \in Launches
  PROVE  TilesSound
<1> DEFINE n == D!count
           ts == D!Tiles
<1>1. n \in Nat \ {0}
  BY LaunchIs
<1> HIDE DEF n, ts
<1>2. PICK r : TiledBy(r, n)
  BY TilesRun DEF n
<1>3. /\ r \in [0..n -> Seq(Tile)] /\ r[0] = <<>> /\ ts = r[n]
      /\ \A k \in 1..n : r[k] = D!Tiled(r[k - 1], k - 1)
  BY <1>2 DEF TiledBy, ts
<1> DEFINE U == {k \in 0..n : Tiling(r[k], k)}
<1>4. 0 \in U
  <2>1. Tiling(<<>>, 0)
    BY DEF Tiling
  <2>2. QED
    BY <1>1, <1>3, <2>1
<1>5. ASSUME NEW k \in 0..(n - 1), k \in U PROVE k + 1 \in U
  <2>1. k + 1 \in 1..n /\ k + 1 \in 0..n /\ (k + 1) - 1 = k /\ k \in 0..n
    BY <1>1
  <2>2. r[k] \in Seq(Tile) /\ r[k + 1] = D!Tiled(r[k], k)
    BY <1>3, <2>1
  <2>3. Tiling(r[k + 1], k + 1)
    BY <1>5, <2>2, TilingGoesOn DEF n
  <2>4. QED
    BY <2>1, <2>3
<1> HIDE DEF U
<1>6. \A k \in 0..n : k \in U
  BY Zenon, <1>1, <1>4, <1>5, InductionTo
<1>7. n \in 0..n
  BY <1>1
<1>8. Tiling(ts, n) /\ ts \in Seq(Tile)
  BY Zenon, <1>3, <1>6, <1>7 DEF U
<1>9. Len(ts) \in Nat \ {0}
  BY <1>1, <1>8 DEF Tiling
<1>10. \A k \in 0..(Len(ts) - 1) : k + 1 \in 1..Len(ts)
  BY <1>9
<1>11. ASSUME NEW k \in 0..(Len(ts) - 1)
       PROVE  /\ ts[k + 1].start \in Nat /\ ts[k + 1].count \in 1..BlockTokens
              /\ ts[k + 1].start + ts[k + 1].count <= n
  <2>1. ts[k + 1] \in Tile
    BY <1>8, <1>9, <1>10
  <2>2. ts[k + 1].start \in Nat
    BY <2>1 DEF Tile
  <2>3. QED
    BY <1>8, <1>10, <2>2 DEF Tiling
<1>12. ASSUME NEW k \in 0..(Len(ts) - 1), NEW t \in 0..(ts[k + 1].count - 1)
       PROVE  launch.groups[ts[k + 1].start + t + 1] = ts[k + 1].group
  <2>1. ts[k + 1].start + t \in ts[k + 1].start..(ts[k + 1].start + ts[k + 1].count - 1)
    BY <1>11, DeviceSizes
  <2>2. QED
    BY <1>8, <1>10, <2>1 DEF Tiling
<1>13. ASSUME NEW k \in 0..(Len(ts) - 1), NEW j \in 0..(Len(ts) - 1), k < j
       PROVE  ts[k + 1].start + ts[k + 1].count <= ts[j + 1].start
  <2>1. k + 1 < j + 1
    BY <1>9, <1>13
  <2>2. QED
    BY <1>8, <1>10, <2>1 DEF Tiling
<1>14. ASSUME NEW t \in 0..(n - 1)
       PROVE  \E k \in 0..(Len(ts) - 1) :
                ts[k + 1].start <= t /\ t < ts[k + 1].start + ts[k + 1].count
  <2>1. PICK i \in 1..Len(ts) : t \in ts[i].start..(ts[i].start + ts[i].count - 1)
    BY <1>8 DEF Tiling
  <2> DEFINE k == i - 1
  <2>2. k \in 0..(Len(ts) - 1) /\ k + 1 = i
    BY <1>9
  <2>3. ts[k + 1].start \in Nat /\ ts[k + 1].count \in 1..BlockTokens
    BY <1>11, <2>2
  <2>4. ts[k + 1].start <= t /\ t < ts[k + 1].start + ts[k + 1].count
    BY <1>1, <2>1, <2>2, <2>3, DeviceSizes
  <2>5. QED
    BY <2>2, <2>4
<1>15. QED
  BY <1>9, <1>11, <1>12, <1>13, <1>14 
     DEF TilesSound, TileIds, First, Size, Matrix, InTile, n, ts

(* A token is in one tile. *)
LEMMA OneTile ==
  ASSUME TilesSound, NEW t \in Nat, NEW k \in TileIds, NEW j \in TileIds,
         InTile(t, k), InTile(t, j)
  PROVE  k = j
<1>1. k \in Nat /\ j \in Nat
  BY DEF TileIds
<1>2. First(k) \in Nat /\ Size(k) \in Nat /\ First(j) \in Nat /\ Size(j) \in Nat
  BY DeviceSizes DEF TilesSound
<1>3. ~(k < j)
  BY <1>2 DEF TilesSound, InTile
<1>4. ~(j < k)
  BY <1>2 DEF TilesSound, InTile
<1>5. QED
  BY <1>1, <1>3, <1>4

-----------------------------------------------------------------------------
(* The grid. *)

Stride == D!GridBlocks(Len(D!Tiles), 1, BlockGridY)

LEMMA StrideIs ==
  ASSUME TilesSound
  PROVE  Stride \in Nat \ {0} /\ Stride <= Len(D!Tiles)
<1> DEFINE n == Len(D!Tiles)
<1>1. n \in Nat \ {0}
  BY DEF TilesSound
<1> HIDE DEF n
<1>2. D!Ceiling(n, 1) = n
  BY <1>1 DEF D!Ceiling
<1>3. D!Max({n, 1}) = n
  BY <1>1, MaxOfTwo
<1>4. Stride = D!Min({n, BlockGridY})
  BY <1>2, <1>3 DEF Stride, D!GridBlocks, n
<1>5. QED
  BY <1>1, <1>4, MinOfTwo, DeviceSizes DEF n

RowBlocks == D!Ceiling(D!rows, BlockRows)

LEMMA GridIs ==
  /\ \A b \in D!Grid : /\ b = <<b[1], b[2]>>
                       /\ b[1] \in 0..(RowBlocks - 1) /\ b[2] \in 0..(Stride - 1)
  /\ \A i \in 0..(RowBlocks - 1), j \in 0..(Stride - 1) : <<i, j>> \in D!Grid
BY DEF D!Grid, RowBlocks, Stride

-----------------------------------------------------------------------------
(* The threads of a block: which tokens each adds up, and which slots of     *)
(* shared memory it fills.                                                   *)

Per == BlockTokens \div D!TY

LEMMA ThreadsAre ==
  ASSUME launch \in Launches
  PROVE  /\ D!TY \in Nat \ {0} /\ D!NT \in Nat \ {0} /\ D!NT = D!TY * BlockRows
         /\ Per \in Nat \ {0} /\ Per * D!TY = BlockTokens
         /\ ~D!Piped => D!TY = 1 /\ Per = BlockTokens
<1>1. D!TY \in Nat \ {0} /\ (~D!Piped => D!TY = 1)
  BY DeviceSizes DEF D!TY
<1>2. BlockTokens % D!TY = 0
  BY DeviceSizes DEF D!TY
<1> HIDE DEF Per
<1>3. BlockTokens = (BlockTokens \div D!TY) * D!TY + (BlockTokens % D!TY)
      /\ BlockTokens \div D!TY \in Nat
  BY <1>1, DivMod, DeviceSizes
<1>4. Per \in Nat /\ Per * D!TY = BlockTokens
  BY <1>1, <1>2, <1>3 DEF Per
<1>5. Per # 0
  BY <1>1, <1>4, DeviceSizes
<1>6. ~D!Piped => Per = BlockTokens
  BY <1>1, <1>4
<1>7. D!NT = BlockRows * D!TY
  BY DEF D!NT
<1>8. BlockRows * D!TY = D!TY * BlockRows /\ BlockRows * D!TY \in Nat \ {0}
  BY <1>1, DeviceSizes
<1>9. QED
  BY <1>1, <1>4, <1>5, <1>6, <1>7, <1>8

LEMMA ThreadIs ==
  ASSUME launch \in Launches, NEW id \in D!Threads
  PROVE  /\ id \in Nat /\ D!TX(id) \in 0..(BlockRows - 1) /\ D!SlicesOf(id) \in 0..(D!TY - 1)
         /\ id = D!SlicesOf(id) * BlockRows + D!TX(id)
<1>1. id \in Nat /\ id < D!TY * BlockRows
  BY ThreadsAre DEF D!Threads
<1>2. /\ id % BlockRows \in 0..(BlockRows - 1)
      /\ id = (id \div BlockRows) * BlockRows + (id % BlockRows)
  BY <1>1, DivMod, DeviceSizes
<1>3. id \div BlockRows \in 0..(D!TY - 1)
  BY <1>1, DivBelow, DeviceSizes, ThreadsAre
<1>4. QED
  BY <1>1, <1>2, <1>3 DEF D!TX, D!SlicesOf

LEMMA TokensAre ==
  ASSUME launch \in Launches, NEW id \in D!Threads
  PROVE  D!Tokens(id) = {t \in 0..(BlockTokens - 1) : t \div Per = D!SlicesOf(id)}
<1> DEFINE q == D!SlicesOf(id)
<1>1. /\ q \in Nat /\ q < D!TY /\ Per \in Nat \ {0} /\ D!TY \in Nat \ {0}
      /\ Per * D!TY = BlockTokens
  BY ThreadIs, ThreadsAre
<1> HIDE DEF q
<1>2. CASE D!Piped
  <2>1. D!Tokens(id) = {q * Per + k : k \in 0..(Per - 1)}
    BY <1>2 DEF D!Tokens, Per, q
  <2>2. ASSUME NEW k \in 0..(Per - 1)
        PROVE  q * Per + k \in 0..(BlockTokens - 1) /\ (q * Per + k) \div Per = q
    <3>1. q * Per + k \in 0..(D!TY * Per - 1)
      BY <1>1, PairBelow
    <3>2. D!TY * Per = BlockTokens
      BY <1>1
    <3>3. (q * Per + k) \div Per = q
      BY <1>1, DivModOf
    <3>4. QED
      BY <3>1, <3>2, <3>3
  <2>3. ASSUME NEW t \in 0..(BlockTokens - 1), t \div Per = q
        PROVE  \E k \in 0..(Per - 1) : t = q * Per + k
    <3>1. t \in Nat
      BY DeviceSizes
    <3>2. t % Per \in 0..(Per - 1) /\ t = (t \div Per) * Per + (t % Per)
      BY <1>1, <3>1, DivMod
    <3>3. QED
      BY <2>3, <3>2
  <2>4. QED
    BY <2>1, <2>2, <2>3 DEF q
<1>3. CASE ~D!Piped
  <2>1. D!Tokens(id) = 0..(BlockTokens - 1)
    BY <1>3 DEF D!Tokens
  <2>2. D!TY = 1 /\ Per = BlockTokens /\ q = 0
    BY <1>1, <1>3, ThreadsAre
  <2>3. ASSUME NEW t \in 0..(BlockTokens - 1) PROVE t \div BlockTokens = 0
    <3>1. t \in Nat /\ t < 1 * BlockTokens
      BY DeviceSizes
    <3>2. t \div BlockTokens \in 0..(1 - 1)
      BY <3>1, DivBelow, DeviceSizes
    <3>3. QED
      BY <3>2
  <2>4. QED
    BY <2>1, <2>2, <2>3 DEF q
<1>4. QED
  BY <1>2, <1>3

(* The thread of a block that adds up a row's sum of a token of a tile. *)
Owner(r, t) == (t \div Per) * BlockRows + (r % BlockRows)

LEMMA OwnerIs ==
  ASSUME launch \in Launches, NEW r \in Nat, NEW t \in 0..(BlockTokens - 1)
  PROVE  /\ Owner(r, t) \in D!Threads
         /\ \A id \in D!Threads :
              Owner(r, t) = id <=> (r % BlockRows = D!TX(id) /\ t \in D!Tokens(id))
<1> DEFINE q == t \div Per
           m == r % BlockRows
<1>1. Per \in Nat \ {0} /\ D!TY \in Nat \ {0} /\ t < D!TY * Per /\ t \in Nat
  BY ThreadsAre, DeviceSizes
<1>2. q \in Nat /\ q < D!TY
  BY <1>1, DivBelow
<1>3. m \in 0..(BlockRows - 1)
  BY DivMod, DeviceSizes
<1> HIDE DEF q, m
<1>4. q * BlockRows + m \in 0..(D!TY * BlockRows - 1)
  BY <1>1, <1>2, <1>3, PairBelow, DeviceSizes
<1>5. Owner(r, t) \in D!Threads
  BY <1>4, ThreadsAre DEF Owner, D!Threads, q, m
<1>6. (q * BlockRows + m) \div BlockRows = q /\ (q * BlockRows + m) % BlockRows = m
  BY <1>2, <1>3, DivModOf, DeviceSizes
<1>7. ASSUME NEW id \in D!Threads
      PROVE  Owner(r, t) = id <=> (r % BlockRows = D!TX(id) /\ t \in D!Tokens(id))
  <2>1. t \in D!Tokens(id) <=> q = D!SlicesOf(id)
    BY TokensAre DEF q
  <2>2. id = D!SlicesOf(id) * BlockRows + D!TX(id)
    BY ThreadIs
  <2>3. Owner(r, t) = q * BlockRows + m
    BY DEF Owner, q, m
  <2>4. ASSUME Owner(r, t) = id PROVE q = D!SlicesOf(id) /\ m = D!TX(id)
    BY <1>6, <2>3, <2>4 DEF D!SlicesOf, D!TX
  <2>5. ASSUME q = D!SlicesOf(id), m = D!TX(id) PROVE Owner(r, t) = id
    BY <2>2, <2>3, <2>5
  <2>6. QED
    BY <2>1, <2>4, <2>5 DEF m
<1>8. QED
  BY <1>5, <1>7

(* Every slot is some thread's to fill. *)
LEMMA SlotFilled ==
  ASSUME launch \in Launches, NEW n \in Nat \ {0}, NEW w \in Nat \ {0},
         NEW i \in 0..(n - 1), NEW j \in 0..(w - 1)
  PROVE  \E id \in D!Threads : <<i, j>> \in D!Mine(id, n, w)
<1> DEFINE s == i * w + j
           id == s % D!NT
<1>1. s \in 0..(n * w - 1) /\ s \in Nat
  BY PairBelow
<1>2. s \div w = i /\ s % w = j
  BY DivModOf
<1> HIDE DEF s
<1>3. id \in D!Threads
  BY <1>1, DivMod, ThreadsAre DEF D!Threads
<1>4. <<i, j>> \in D!Mine(id, n, w)
  BY <1>1, <1>2 DEF D!Mine
<1>5. QED
  BY <1>3, <1>4

-----------------------------------------------------------------------------
(* Nothing of a product depends on more than its launch. *)
LEMMA SameProduct ==
  ASSUME launch' = launch
  PROVE  /\ D!Tiles' = D!Tiles /\ D!Grid' = D!Grid /\ Stride' = Stride /\ TileIds' = TileIds
         /\ D!rows' = D!rows /\ D!units' = D!units /\ D!count' = D!count
         /\ D!Piped' = D!Piped /\ D!Threads' = D!Threads /\ Per' = Per
         /\ \A id : D!Tokens(id)' = D!Tokens(id)
         /\ \A r, t : Owner(r, t)' = Owner(r, t)
         /\ \A t, k : InTile(t, k)' = InTile(t, k)
         /\ \A k : First(k)' = First(k) /\ Size(k)' = Size(k) /\ Matrix(k)' = Matrix(k)
<1>1. D!Tiles' = D!Tiles
  BY DEF D!Tiles, D!Tiled, D!Closes, D!count, D!FoldLeft, D!MapThenFoldSet, D!Last
<1>2. D!rows' = D!rows /\ D!units' = D!units /\ D!count' = D!count /\ D!Piped' = D!Piped
  BY DEF D!rows, D!units, D!count, D!Piped
<1>3. D!TY' = D!TY
  BY <1>2 DEF D!TY
<1>4. D!Threads' = D!Threads /\ Per' = Per
  BY <1>3 DEF D!Threads, D!NT, Per
<1>5. \A id : D!Tokens(id)' = D!Tokens(id)
  BY <1>2, <1>3 DEF D!Tokens
<1>6. Stride' = Stride /\ TileIds' = TileIds
  BY <1>1 DEF Stride, TileIds
<1>7. D!Grid' = D!Grid
  BY <1>1, <1>2 DEF D!Grid
<1>8. \A r, t : Owner(r, t)' = Owner(r, t)
  BY <1>4 DEF Owner
<1>9. \A k : First(k)' = First(k) /\ Size(k)' = Size(k) /\ Matrix(k)' = Matrix(k)
  BY <1>1 DEF First, Size, Matrix
<1>10. \A t, k : InTile(t, k)' = InTile(t, k)
  BY <1>9 DEF InTile
<1>11. QED
  BY <1>1, <1>2, <1>4, <1>5, <1>6, <1>7, <1>8, <1>9, <1>10

-----------------------------------------------------------------------------
(* A block's state. *)

(* A row's sum with a token of a tile, of the first n units. *)
Sums(k, r, t, n) ==
  [u \in 1..n |-> <<D!WeightUnit(Matrix(k), r, u - 1), D!InputUnit(First(k) + t, u - 1)>>]

AddedUp(id, k, n) ==
  \A t \in D!Tokens(id) : t < Size(k) => sum[id][t] = Sums(k, D!Clamped(D!TX(id)), t, n)

(* What a chunk's slots of shared memory hold once it is staged. *)
Weight(k, c, p) == D!WeightUnit(Matrix(k), D!Clamped(p[2]), c + p[1])
Input(k, c, p) == D!InputUnit(First(k) + p[1], c + p[2])

(* The slots of a chunk. *)
WeightsOf(c) == {p \in D!WeightSlots : p[1] < D!InChunk(c)}
InputsOf(k, c) == {p \in D!InputSlots : p[1] < Size(k) /\ p[2] < D!InChunk(c)}

(* Those of a thread. *)
StagesWeight(id, c, p) == <<p[2], p[1]>> \in D!Mine(id, BlockRows, D!Width(c))
StagesInput(id, p) == p \in D!Mine(id, BlockTokens, ChunkUnits)

Staged(id, k, c) ==
  /\ \A p \in WeightsOf(c) : StagesWeight(id, c, p) => ws[p] = Weight(k, c, p)
  /\ \A p \in InputsOf(k, c) : StagesInput(id, p) => xs[p] = Input(k, c, p)

AllStaged(k, c) ==
  /\ \A p \in WeightsOf(c) : ws[p] = Weight(k, c, p)
  /\ \A p \in InputsOf(k, c) : xs[p] = Input(k, c, p)

(* A thread is at a chunk of a tile, whose units before it are added up. *)
Here(id, k, c) ==
  /\ ti[id] = k /\ chunk[id] = c /\ (D!Piped => held[id] = c)
  /\ AddedUp(id, k, c)

Waits(id, k, c) == pc[id] = "sync before" /\ Here(id, k, c)

Stages(id, k, c) ==
  /\ Here(id, k, c)
  /\ pc[id] = "stage" \/ (pc[id] = "sync after" /\ Staged(id, k, c))

(* It has added up a chunk: it waits for the next, or has the whole sums, or *)
(* has stored them and waits for its next tile or is at its end.             *)
Past(id, k, c) ==
  \/ c + ChunkUnits < D!units /\ Waits(id, k, c + ChunkUnits)
  \/ /\ c + ChunkUnits >= D!units
     /\ \/ pc[id] = "store" /\ ti[id] = k /\ AddedUp(id, k, D!units)
        \/ k + Stride < Len(D!Tiles) /\ Waits(id, k + Stride, 0)
        \/ k + Stride >= Len(D!Tiles) /\ pc[id] = "end" /\ ti[id] = k + Stride

Computes(id, k, c) == (pc[id] = "compute" /\ Here(id, k, c)) \/ Past(id, k, c)

(* The threads go through a chunk together: they wait for it, they stage it, *)
(* or it is staged and they compute.                                         *)
Round(k, c) ==
  \/ \A id \in D!Threads : Waits(id, k, c)
  \/ \A id \in D!Threads : Stages(id, k, c)
  \/ AllStaged(k, c) /\ \A id \in D!Threads : Computes(id, k, c)

Rounds ==
  \E k \in TileIds, c \in 0..(D!units - 1) : k % Stride = block[2] /\ Round(k, c)

Typed ==
  /\ DOMAIN pc = D!Threads /\ DOMAIN ti = D!Threads /\ DOMAIN chunk = D!Threads
  /\ DOMAIN held = D!Threads /\ DOMAIN sum = D!Threads
  /\ \A id \in D!Threads : DOMAIN sum[id] = D!Tokens(id)
  /\ DOMAIN ws = D!WeightSlots /\ DOMAIN xs = D!InputSlots

(* A row's sum of a token is stored: its block has ended, or runs and has    *)
(* left the token's tile.                                                    *)
Stored(r, t) ==
  \E k \in TileIds :
    /\ InTile(t, k)
    /\ \/ <<r \div BlockRows, k % Stride>> \in finished
       \/ /\ block = <<r \div BlockRows, k % Stride>>
          /\ k < ti[Owner(r, t - First(k))]

ResultSound ==
  /\ DOMAIN dy = {a \in 0..(D!count * D!rows - 1) : Stored(a % D!rows, a \div D!rows)}
  /\ \A a \in DOMAIN dy : dy[a] = <<D!ReferenceSum(a % D!rows, a \div D!rows)>>

DeviceFree == launch = D!NoLaunch /\ dy = <<>> /\ finished = {} /\ block = D!NoBlock
BetweenBlocks ==
  launch \in Launches /\ block = D!NoBlock /\ finished \subseteq D!Grid /\ ResultSound
InBlock ==
  /\ launch \in Launches /\ block \in D!Grid \ finished /\ finished \subseteq D!Grid
  /\ ResultSound /\ Typed /\ Rounds

DeviceInv == DeviceFree \/ BetweenBlocks \/ InBlock

-----------------------------------------------------------------------------
LEMMA SameBlock ==
  ASSUME launch' = launch, block' = block
  PROVE  /\ \A r : D!Clamped(r)' = D!Clamped(r)
         /\ \A c : WeightsOf(c)' = WeightsOf(c)
         /\ \A k, c : InputsOf(k, c)' = InputsOf(k, c)
         /\ \A k, c, p : Weight(k, c, p)' = Weight(k, c, p) /\ Input(k, c, p)' = Input(k, c, p)
         /\ \A id, c, p : StagesWeight(id, c, p)' = StagesWeight(id, c, p)
         /\ \A id, p : StagesInput(id, p)' = StagesInput(id, p)
         /\ \A k, r, t, n : Sums(k, r, t, n)' = Sums(k, r, t, n)
<1>1. D!units' = D!units /\ D!rows' = D!rows /\ D!NT' = D!NT
  BY DEF D!units, D!rows, D!NT, D!TY, D!Piped
<1>2. \A k : First(k)' = First(k) /\ Size(k)' = Size(k) /\ Matrix(k)' = Matrix(k)
  BY SameProduct
<1>3. \A r : D!Clamped(r)' = D!Clamped(r)
  BY <1>1 DEF D!Clamped, D!R0
<1>4. \A c : D!InChunk(c)' = D!InChunk(c) /\ D!Width(c)' = D!Width(c)
  BY <1>1 DEF D!InChunk, D!Width
<1>5. \A c : WeightsOf(c)' = WeightsOf(c)
  BY Zenon, <1>4 DEF WeightsOf, D!WeightSlots
<1>6. \A k, c : InputsOf(k, c)' = InputsOf(k, c)
  BY Zenon, <1>2, <1>4 DEF InputsOf, D!InputSlots
<1>7. \A k, c, p : Weight(k, c, p)' = Weight(k, c, p) /\ Input(k, c, p)' = Input(k, c, p)
  BY Zenon, <1>2, <1>3 DEF Weight, Input, D!WeightUnit, D!InputUnit
<1>8. \A id, c, p : StagesWeight(id, c, p)' = StagesWeight(id, c, p)
  BY Zenon, <1>1, <1>4 DEF StagesWeight, D!Mine
<1>9. \A id, p : StagesInput(id, p)' = StagesInput(id, p)
  BY Zenon, <1>1 DEF StagesInput, D!Mine
<1>10. \A k, r, t, n : Sums(k, r, t, n)' = Sums(k, r, t, n)
  BY Zenon, <1>2 DEF Sums, D!WeightUnit, D!InputUnit
<1>11. QED
  BY Zenon, <1>3, <1>5, <1>6, <1>7, <1>8, <1>9, <1>10

(* A thread that stays where it is. *)
LEMMA SameThread ==
  ASSUME launch' = launch, block' = block, NEW id,
         ti'[id] = ti[id], chunk'[id] = chunk[id], held'[id] = held[id], sum'[id] = sum[id]
  PROVE  /\ \A k, n : AddedUp(id, k, n)' = AddedUp(id, k, n)
         /\ \A k, c : Here(id, k, c)' = Here(id, k, c)
         /\ pc'[id] = pc[id] => \A k, c : Waits(id, k, c)' = Waits(id, k, c)
         /\ pc'[id] = pc[id] => \A k, c : Past(id, k, c)' = Past(id, k, c)
         /\ pc'[id] = pc[id] => \A k, c : Computes(id, k, c)' = Computes(id, k, c)
<1>1. /\ \A k : Size(k)' = Size(k)
      /\ D!Tokens(id)' = D!Tokens(id) /\ D!Piped' = D!Piped /\ D!units' = D!units
      /\ D!Tiles' = D!Tiles /\ Stride' = Stride
  BY SameProduct
<1>2. /\ D!Clamped(D!TX(id))' = D!Clamped(D!TX(id))
      /\ \A k, r, t, n : Sums(k, r, t, n)' = Sums(k, r, t, n)
  <2>1. D!TX(id)' = D!TX(id)
    BY DEF D!TX
  <2>2. QED
    BY <2>1, SameBlock
<1>3. \A k, n : AddedUp(id, k, n)' = AddedUp(id, k, n)
  BY Zenon, <1>1, <1>2 DEF AddedUp
<1>4. \A k, c : Here(id, k, c)' = Here(id, k, c)
  BY Zenon, <1>1, <1>3 DEF Here
<1>5. ASSUME pc'[id] = pc[id] PROVE \A k, c : Waits(id, k, c)' = Waits(id, k, c)
  BY Zenon, <1>4, <1>5 DEF Waits
<1>6. ASSUME pc'[id] = pc[id] PROVE \A k, c : Past(id, k, c)' = Past(id, k, c)
  BY Zenon, <1>1, <1>3, <1>5, <1>6 DEF Past
<1>7. ASSUME pc'[id] = pc[id] PROVE \A k, c : Computes(id, k, c)' = Computes(id, k, c)
  BY Zenon, <1>4, <1>6, <1>7 DEF Computes
<1>8. QED
  BY Zenon, <1>3, <1>4, <1>5, <1>6, <1>7

LEMMA InChunkIs ==
  ASSUME launch \in Launches, NEW c \in 0..(D!units - 1)
  PROVE  /\ D!InChunk(c) \in 1..ChunkUnits
         /\ c + ChunkUnits >= D!units => c + D!InChunk(c) = D!units
         /\ c + ChunkUnits < D!units => D!InChunk(c) = ChunkUnits
<1>1. D!units - c \in Nat \ {0}
  BY LaunchIs
<1>2. D!InChunk(c) = IF D!units - c <= ChunkUnits THEN D!units - c ELSE ChunkUnits
  BY <1>1, MinOfTwo, DeviceSizes DEF D!InChunk
<1>3. QED
  BY <1>1, <1>2, LaunchIs, DeviceSizes

(* A thread computes with every token of the tile, and more. *)
LEMMA ComputedIs ==
  ASSUME NEW n \in 1..BlockTokens
  PROVE  n <= D!Computed(n) /\ D!Computed(n) \in Nat
<1> DEFINE U == {s \in {1, 2, 4, BlockTokens} : s >= n}
           m == CHOOSE p \in U : \A q \in U : p <= q
<1>1. U \subseteq Nat /\ U # {} /\ \A s \in U : n <= s
  BY DeviceSizes
<1> HIDE DEF U
<1>2. m \in U
  <2>1. \E p \in U : \A q \in U : p <= q
    BY <1>1, Least
  <2>2. QED
    BY Zenon, <2>1
<1>3. n <= m /\ m \in Nat
  BY Zenon, <1>1, <1>2
<1>4. D!Min(U) = m
  BY Zenon DEF D!Min
<1>5. CASE launch.kernel = "nvfp4_mm"
  <2>1. D!Computed(n) = m
    BY Zenon, <1>4, <1>5 DEF D!Computed, U
  <2>2. QED
    BY Zenon, <1>3, <2>1
<1>6. CASE launch.kernel # "nvfp4_mm"
  <2>1. D!Computed(n) = n
    BY Zenon, <1>6 DEF D!Computed
  <2>2. QED
    BY <2>1, DeviceSizes
<1>7. QED
  BY Zenon, <1>5, <1>6

(* What a launch is made of, in one. *)
LEMMA TileIs ==
  ASSUME launch \in Launches, NEW k \in TileIds
  PROVE  /\ k \in Nat /\ k < Len(D!Tiles) /\ First(k) \in Nat /\ Size(k) \in 1..BlockTokens
         /\ First(k) + Size(k) <= D!count
BY TilesAre, DeviceSizes DEF TilesSound, TileIds

-----------------------------------------------------------------------------
(* A product begins, and is taken. *)

LEMMA NothingStored ==
  ASSUME finished = {}, block = D!NoBlock, NEW r, NEW t
  PROVE  ~Stored(r, t)
BY DEF Stored, D!NoBlock

LEMMA MultiplyKeeps ==
  ASSUME DeviceFree, NEW l \in Launches, D!Multiply(l)
  PROVE  BetweenBlocks'
<1>1. launch' \in Launches /\ dy' = <<>> /\ finished' = {} /\ block' = D!NoBlock
  BY DEF DeviceFree, D!Multiply
<1>2. \A r, t : ~Stored(r, t)'
  BY <1>1 DEF Stored, D!NoBlock
<1>3. ResultSound'
  <2>1. DOMAIN dy' = {}
    BY <1>1
  <2>2. QED
    BY <1>2, <2>1 DEF ResultSound
<1>4. QED
  BY <1>1, <1>3 DEF BetweenBlocks, D!NoBlock

LEMMA DoneKeeps ==
  ASSUME BetweenBlocks, D!Done
  PROVE  DeviceFree'
BY DEF BetweenBlocks, DeviceFree, D!Done, D!NoBlock

-----------------------------------------------------------------------------
(* A block begins. *)

LEMMA OwnerOf ==
  ASSUME launch \in Launches, NEW r \in Nat, NEW t \in Nat, NEW k \in TileIds, InTile(t, k)
  PROVE  /\ t - First(k) \in 0..(BlockTokens - 1) /\ t - First(k) < Size(k)
         /\ Owner(r, t - First(k)) \in D!Threads
<1>1. t - First(k) \in 0..(BlockTokens - 1) /\ t - First(k) < Size(k)
  BY TileIs, DeviceSizes DEF InTile
<1>2. QED
  BY <1>1, OwnerIs

LEMMA IndexIs ==
  ASSUME launch \in Launches, NEW a \in 0..(D!count * D!rows - 1)
  PROVE  /\ a % D!rows \in 0..(D!rows - 1) /\ a \div D!rows \in 0..(D!count - 1)
         /\ a = (a \div D!rows) * D!rows + (a % D!rows) /\ a \in Nat
         /\ a % D!rows \in Nat /\ a \div D!rows \in Nat
<1>1. D!rows \in Nat \ {0} /\ D!count \in Nat \ {0}
  BY LaunchIs
<1>2. a \in Nat /\ a < D!count * D!rows
  BY <1>1
<1>3. a % D!rows \in 0..(D!rows - 1) /\ a = (a \div D!rows) * D!rows + (a % D!rows)
  BY <1>1, <1>2, DivMod
<1>4. a \div D!rows \in 0..(D!count - 1)
  BY <1>1, <1>2, DivBelow
<1>5. QED
  BY <1>1, <1>2, <1>3, <1>4

(* The result stays sound while nothing is stored and the same is to be. *)
LEMMA ResultStays ==
  ASSUME launch \in Launches, ResultSound, launch' = launch, dy' = dy,
         \A r, t \in Nat : Stored(r, t)' <=> Stored(r, t)
  PROVE  ResultSound'
<1>1. D!count' = D!count /\ D!rows' = D!rows /\ D!units' = D!units
  BY SameProduct
<1>2. \A r, t : D!ReferenceSum(r, t)' = D!ReferenceSum(r, t)
  BY Zenon, <1>1 DEF D!ReferenceSum, D!WeightUnit, D!InputUnit
<1> DEFINE S1 == {a \in 0..(D!count * D!rows - 1) : Stored(a % D!rows, a \div D!rows)}
           S2 == {a \in 0..(D!count * D!rows - 1) : Stored(a % D!rows, a \div D!rows)'}
<1>3. S1 = S2
  <2>1. ASSUME NEW a \in 0..(D!count * D!rows - 1)
        PROVE  Stored(a % D!rows, a \div D!rows)' <=> Stored(a % D!rows, a \div D!rows)
    <3>1. a % D!rows \in Nat /\ a \div D!rows \in Nat
      BY IndexIs
    <3>2. QED
      BY Zenon, <3>1, <1>1
  <2>2. QED
    BY Zenon, <2>1
<1>4. QED
  BY Zenon, <1>1, <1>2, <1>3 DEF ResultSound

LEMMA StartBlockKeeps ==
  ASSUME BetweenBlocks, NEW b \in D!Grid, D!StartBlock(b)
  PROVE  InBlock'
<1>1. launch \in Launches /\ launch' = launch /\ finished' = finished /\ dy' = dy
      /\ block = D!NoBlock /\ block' = b /\ b \in D!Grid \ finished /\ finished \subseteq D!Grid
      /\ ResultSound
  BY DEF BetweenBlocks, D!StartBlock
<1>2. /\ pc' = [id \in D!Threads |-> "sync before"] /\ ti' = [id \in D!Threads |-> b[2]]
      /\ chunk' = [id \in D!Threads |-> 0] /\ held' = [id \in D!Threads |-> 0]
      /\ sum' = [id \in D!Threads |-> D!NoSums(id)]
      /\ ws' = [p \in D!WeightSlots |-> D!Stale] /\ xs' = [p \in D!InputSlots |-> D!Stale]
  BY Zenon DEF D!StartBlock
<1>3. D!Threads' = D!Threads /\ (\A id : D!Tokens(id)' = D!Tokens(id)) /\ D!Grid' = D!Grid
      /\ D!WeightSlots' = D!WeightSlots /\ D!InputSlots' = D!InputSlots
  <2>1. D!WeightSlots' = D!WeightSlots /\ D!InputSlots' = D!InputSlots
    BY Zenon DEF D!WeightSlots, D!InputSlots
  <2>2. QED
    BY <1>1, <2>1, SameProduct
<1>4. \A id \in D!Threads : sum'[id] = [t \in D!Tokens(id) |-> <<>>]
  BY <1>2 DEF D!NoSums
<1>5. Typed'
  BY Zenon, <1>2, <1>3, <1>4 DEF Typed
<1>6. Stride \in Nat \ {0} /\ Stride <= Len(D!Tiles) /\ b[2] \in 0..(Stride - 1)
  BY <1>1, TilesAre, StrideIs, GridIs
<1> DEFINE k == b[2]
<1>7. k \in TileIds /\ k \in Nat /\ k % Stride = k
  <2>1. Len(D!Tiles) \in Nat
    BY <1>1, TilesAre DEF TilesSound
  <2>2. k \in TileIds /\ k \in Nat
    BY <1>6, <2>1 DEF TileIds
  <2>3. (0 * Stride + k) % Stride = k
    BY <1>6, DivModOf
  <2>4. 0 * Stride + k = k
    BY <1>6, <2>2
  <2>5. QED
    BY Zenon, <2>2, <2>3, <2>4
<1>8. 0 \in 0..(D!units - 1)
  BY <1>1, LaunchIs
<1>9. ASSUME NEW id \in D!Threads PROVE Waits(id, k, 0)'
  <2>1. Sums(k, D!Clamped(D!TX(id)), 0, 0)' = <<>>
    BY DEF Sums
  <2>2. \A t : Sums(k, D!Clamped(D!TX(id)), t, 0)' = <<>>
    BY DEF Sums
  <2>3. \A t \in D!Tokens(id)' : sum'[id][t] = <<>>
    BY Zenon, <1>3, <1>4
  <2>4. AddedUp(id, k, 0)'
    BY Zenon, <2>2, <2>3 DEF AddedUp
  <2>5. pc'[id] = "sync before" /\ ti'[id] = k /\ chunk'[id] = 0 /\ held'[id] = 0
    BY Zenon, <1>2
  <2>6. QED
    BY Zenon, <2>4, <2>5 DEF Waits, Here
<1>10. Rounds'
  <2>1. Round(k, 0)'
    BY Zenon, <1>3, <1>9 DEF Round
  <2>2. k \in TileIds' /\ 0 \in 0..(D!units' - 1) /\ k % Stride' = block'[2]
    BY <1>1, <1>7, <1>8, SameProduct
  <2>3. \E j \in TileIds', c \in 0..(D!units' - 1) : j % Stride' = block'[2] /\ Round(j, c)'
    BY Zenon, <2>1, <2>2
  <2>4. QED
    BY <2>3 DEF Rounds
<1>11. ASSUME NEW r \in Nat, NEW t \in Nat PROVE Stored(r, t)' <=> Stored(r, t)
  <2>1. ASSUME NEW j \in TileIds, InTile(t, j), block' = <<r \div BlockRows, j % Stride>>
        PROVE  ~(j < ti'[Owner(r, t - First(j))])
    <3>1. Owner(r, t - First(j)) \in D!Threads
      BY <1>1, <2>1, OwnerOf
    <3>2. ti'[Owner(r, t - First(j))] = k
      BY Zenon, <1>2, <3>1
    <3>3. j \in Nat /\ j % Stride = k
      BY <1>1, <2>1, TileIs
    <3>4. k <= j
      <4>1. j = (j \div Stride) * Stride + (j % Stride) /\ j \div Stride \in Nat
        BY <1>6, <3>3, DivMod
      <4>2. (j \div Stride) * Stride \in Nat
        BY <1>6, <4>1
      <4>3. \A n \in Nat : j = n + k => k <= j
        BY <1>7, <3>3
      <4>4. QED
        BY Zenon, <3>3, <4>1, <4>2, <4>3
    <3>5. QED
      BY <1>7, <3>2, <3>3, <3>4
  <2>2. block = <<>>
    BY <1>1 DEF D!NoBlock
  <2>3. /\ TileIds' = TileIds /\ Stride' = Stride
        /\ \A j : InTile(t, j)' = InTile(t, j) /\ First(j)' = First(j)
        /\ \A s : Owner(r, s)' = Owner(r, s)
    BY <1>1, SameProduct
  <2>4. \A j : block # <<r \div BlockRows, j % Stride>>
    BY <2>2
  <2>5. QED
    BY Zenon, <1>1, <2>1, <2>3, <2>4 DEF Stored
<1>12. ResultSound'
  BY <1>1, <1>11, ResultStays
<1>13. QED
  BY <1>1, <1>3, <1>5, <1>10, <1>12 DEF InBlock

-----------------------------------------------------------------------------
(* The barrier lets go. *)

(* What a block leaves alone that stores nothing. *)
LEMMA StoredStays ==
  ASSUME launch' = launch, block' = block, finished' = finished, ti' = ti,
         NEW r \in Nat, NEW t \in Nat
  PROVE  Stored(r, t)' <=> Stored(r, t)
<1>1. /\ TileIds' = TileIds /\ Stride' = Stride
      /\ \A j : InTile(t, j)' = InTile(t, j) /\ First(j)' = First(j)
      /\ \A s : Owner(r, s)' = Owner(r, s)
  BY SameProduct
<1>2. QED
  BY Zenon, <1>1 DEF Stored

(* A block goes on that keeps the result and its threads' shape, and has a   *)
(* round.                                                                    *)
LEMMA BlockGoesOn ==
  ASSUME InBlock, launch' = launch, block' = block, finished' = finished,
         ResultSound', Typed',
         NEW k \in TileIds, NEW c \in 0..(D!units - 1), k % Stride = block[2], Round(k, c)'
  PROVE  InBlock'
<1>1. TileIds' = TileIds /\ D!units' = D!units /\ Stride' = Stride /\ D!Grid' = D!Grid
  BY SameProduct
<1>2. Rounds'
  BY Zenon, <1>1 DEF Rounds
<1>3. QED
  BY Zenon, <1>1, <1>2 DEF InBlock

LEMMA SameShape ==
  ASSUME Typed, launch' = launch, DOMAIN pc' = DOMAIN pc, DOMAIN ti' = DOMAIN ti,
         DOMAIN chunk' = DOMAIN chunk, DOMAIN held' = DOMAIN held, DOMAIN sum' = DOMAIN sum,
         \A id \in D!Threads : DOMAIN sum'[id] = DOMAIN sum[id],
         DOMAIN ws' = DOMAIN ws, DOMAIN xs' = DOMAIN xs
  PROVE  Typed'
<1>1. D!Threads' = D!Threads /\ \A id : D!Tokens(id)' = D!Tokens(id)
  BY SameProduct
<1>2. D!WeightSlots' = D!WeightSlots /\ D!InputSlots' = D!InputSlots
  BY Zenon DEF D!WeightSlots, D!InputSlots
<1>3. QED
  BY Zenon, <1>1, <1>2 DEF Typed

(* What every thread has staged is staged. *)
LEMMA AllOfThem ==
  ASSUME launch \in Launches, NEW k \in TileIds, NEW c \in 0..(D!units - 1),
         \A id \in D!Threads : Staged(id, k, c)
  PROVE  AllStaged(k, c)
<1>1. D!InChunk(c) \in 1..ChunkUnits
  BY InChunkIs
<1>2. ASSUME NEW p \in WeightsOf(c) PROVE ws[p] = Weight(k, c, p)
  <2>1. p \in D!WeightSlots /\ p[1] < D!InChunk(c)
    BY DEF WeightsOf
  <2>2. p[1] \in 0..(ChunkUnits - 1) /\ p[2] \in 0..(BlockRows - 1)
    BY <2>1 DEF D!WeightSlots
  <2>3. D!Width(c) \in Nat \ {0} /\ p[1] \in 0..(D!Width(c) - 1)
    BY <1>1, <2>1, <2>2, DeviceSizes DEF D!Width
  <2>4. \E id \in D!Threads : <<p[2], p[1]>> \in D!Mine(id, BlockRows, D!Width(c))
    BY <2>2, <2>3, SlotFilled, DeviceSizes
  <2>5. QED
    BY Zenon, <2>4 DEF Staged, StagesWeight
<1>3. ASSUME NEW p \in InputsOf(k, c) PROVE xs[p] = Input(k, c, p)
  <2>1. p \in D!InputSlots
    BY DEF InputsOf
  <2>2. p[1] \in 0..(BlockTokens - 1) /\ p[2] \in 0..(ChunkUnits - 1) /\ p = <<p[1], p[2]>>
    BY <2>1 DEF D!InputSlots
  <2>3. \E id \in D!Threads : <<p[1], p[2]>> \in D!Mine(id, BlockTokens, ChunkUnits)
    BY <2>2, SlotFilled, DeviceSizes
  <2>4. QED
    BY Zenon, <2>2, <2>3 DEF Staged, StagesInput
<1>4. QED
  BY Zenon, <1>2, <1>3 DEF AllStaged

LEMMA BarrierKeeps ==
  ASSUME InBlock, D!Barrier
  PROVE  InBlock'
<1>1. /\ launch' = launch /\ dy' = dy /\ finished' = finished /\ block' = block /\ ti' = ti
      /\ chunk' = chunk /\ held' = held /\ sum' = sum /\ ws' = ws /\ xs' = xs
  BY DEF D!Barrier, D!shared
<1>2. /\ \A id \in D!Threads : pc[id] \in {"sync before", "sync after"}
      /\ pc' = [id \in D!Threads |-> IF pc[id] = "sync before" THEN "stage" ELSE "compute"]
  BY Zenon DEF D!Barrier
<1>3. launch \in Launches /\ ResultSound /\ Typed /\ Rounds
  BY DEF InBlock
<1>4. DOMAIN pc' = DOMAIN pc
  BY Zenon, <1>2, <1>3 DEF Typed
<1>5. Typed'
  BY Zenon, <1>1, <1>3, <1>4, SameShape
<1>6. ResultSound'
  BY <1>1, <1>3, StoredStays, ResultStays
<1>7. PICK k \in TileIds, c \in 0..(D!units - 1) : k % Stride = block[2] /\ Round(k, c)
  BY <1>3 DEF Rounds
<1>8. D!Threads' = D!Threads
  BY <1>1, SameProduct
<1>9. \A id \in D!Threads : \A j, n : Here(id, j, n)' = Here(id, j, n)
  BY Zenon, <1>1, SameThread
<1>10. CASE \A id \in D!Threads : Waits(id, k, c)
  <2>1. ASSUME NEW id \in D!Threads PROVE Stages(id, k, c)'
    <3>1. pc'[id] = "stage" /\ Here(id, k, c)
      BY Zenon, <1>2, <1>10 DEF Waits
    <3>2. Here(id, k, c)'
      BY Zenon, <1>9, <3>1
    <3>3. QED
      BY Zenon, <3>1, <3>2 DEF Stages
  <2>2. Round(k, c)'
    BY Zenon, <1>8, <2>1 DEF Round
  <2>3. QED
    BY Zenon, <1>1, <1>5, <1>6, <1>7, <2>2, BlockGoesOn
<1>11. CASE \A id \in D!Threads : Stages(id, k, c)
  <2>1. ASSUME NEW id \in D!Threads PROVE Computes(id, k, c)' /\ Staged(id, k, c)
    <3>1. pc[id] = "sync after" /\ Here(id, k, c) /\ Staged(id, k, c)
      BY <1>2, <1>11 DEF Stages
    <3>2. pc'[id] = "compute"
      BY <1>2, <3>1
    <3>3. Here(id, k, c)'
      BY Zenon, <1>9, <3>1
    <3>4. QED
      BY Zenon, <3>1, <3>2, <3>3 DEF Computes
  <2>2. AllStaged(k, c)
    BY Zenon, <1>3, <2>1, AllOfThem
  <2>3. AllStaged(k, c)'
    BY Zenon, <1>1, <2>2, SameBlock DEF AllStaged
  <2>4. Round(k, c)'
    BY Zenon, <1>8, <2>1, <2>3 DEF Round
  <2>5. QED
    BY Zenon, <1>1, <1>5, <1>6, <1>7, <2>4, BlockGoesOn
<1>12. CASE \A id \in D!Threads : Computes(id, k, c)
  <2>1. ASSUME NEW id \in D!Threads
        PROVE  \/ c + ChunkUnits < D!units /\ Waits(id, k, c + ChunkUnits)
               \/ /\ c + ChunkUnits >= D!units /\ k + Stride < Len(D!Tiles)
                  /\ Waits(id, k + Stride, 0)
    BY <1>2, <1>12 DEF Computes, Past
  <2>2. ASSUME NEW j, NEW n, \A id \in D!Threads : Waits(id, j, n)
        PROVE  Round(j, n)'
    <3>1. ASSUME NEW id \in D!Threads PROVE Stages(id, j, n)'
      <4>1. pc'[id] = "stage" /\ Here(id, j, n)
        BY Zenon, <1>2, <2>2 DEF Waits
      <4>2. Here(id, j, n)'
        BY Zenon, <1>9, <4>1
      <4>3. QED
        BY Zenon, <4>1, <4>2 DEF Stages
    <3>2. QED
      BY Zenon, <1>8, <3>1 DEF Round
  <2>3. c \in Nat /\ D!units \in Nat /\ ChunkUnits \in Nat /\ Stride \in Nat \ {0}
        /\ k \in Nat /\ Len(D!Tiles) \in Nat
    BY <1>3, LaunchIs, DeviceSizes, TilesAre, StrideIs DEF TileIds, TilesSound
  <2>4. CASE c + ChunkUnits < D!units
    <3>1. \A id \in D!Threads : Waits(id, k, c + ChunkUnits)
      BY <2>1, <2>3, <2>4
    <3>2. c + ChunkUnits \in 0..(D!units - 1)
      BY <2>3, <2>4
    <3>3. Round(k, c + ChunkUnits)'
      BY Zenon, <2>2, <3>1
    <3>4. QED
      BY Zenon, <1>1, <1>5, <1>6, <1>7, <3>2, <3>3, BlockGoesOn
  <2>5. CASE ~(c + ChunkUnits < D!units)
    <3>1. \A id \in D!Threads : k + Stride < Len(D!Tiles) /\ Waits(id, k + Stride, 0)
      BY Zenon, <2>1, <2>5
    <3>2. 0 \in D!Threads
      BY <1>3, ThreadsAre DEF D!Threads
    <3>3. k + Stride \in TileIds /\ (k + Stride) % Stride = k % Stride
      <4>1. k + Stride < Len(D!Tiles)
        BY Zenon, <3>1, <3>2
      <4>2. (k + Stride) % Stride = k % Stride
        BY Zenon, <2>3, NextResidue
      <4>3. k + Stride \in TileIds
        BY <2>3, <4>1 DEF TileIds
      <4>4. QED
        BY <4>2, <4>3
    <3>4. 0 \in 0..(D!units - 1)
      BY <1>3, LaunchIs
    <3>5. PICK j \in TileIds : j = k + Stride
      BY Zenon, <3>3
    <3>6. Round(j, 0)'
      BY Zenon, <2>2, <3>1, <3>5
    <3>7. j % Stride = block[2]
      BY Zenon, <1>7, <3>3, <3>5
    <3>8. QED
      BY Zenon, <1>1, <1>5, <1>6, <3>4, <3>6, <3>7, BlockGoesOn
  <2>6. QED
    BY Zenon, <2>4, <2>5
<1>13. QED
  BY Zenon, <1>7, <1>10, <1>11, <1>12 DEF Round

-----------------------------------------------------------------------------
(* A thread stages. *)

LEMMA TileHere ==
  ASSUME NEW id, NEW k, ti[id] = k
  PROVE  /\ D!TileOf(id).count = Size(k) /\ D!TileOf(id).group = Matrix(k)
         /\ D!TileOf(id).start = First(k)
BY DEF D!TileOf, Size, Matrix, First

(* Each slot of the chunk that is the thread's now holds what it should, and *)
(* the others what they held.                                                *)
LEMMA StageWrites ==
  ASSUME Typed, NEW id \in D!Threads, D!Stage(id), NEW k, NEW c, Here(id, k, c)
  PROVE  /\ DOMAIN ws' = DOMAIN ws /\ DOMAIN xs' = DOMAIN xs
         /\ \A p \in WeightsOf(c) :
              ws'[p] = IF StagesWeight(id, c, p) THEN Weight(k, c, p) ELSE ws[p]
         /\ \A p \in InputsOf(k, c) :
              xs'[p] = IF StagesInput(id, p) THEN Input(k, c, p) ELSE xs[p]
<1>1. D!Source(id) = c /\ ti[id] = k
  BY DEF D!Source, Here
<1>2. /\ D!TileOf(id).count = Size(k) /\ D!TileOf(id).group = Matrix(k)
      /\ D!TileOf(id).start = First(k)
  BY <1>1, TileHere
<1> DEFINE weights == {s \in D!Mine(id, BlockRows, D!Width(c)) : s[2] < D!InChunk(c)}
           inputs == {s \in D!Mine(id, BlockTokens, ChunkUnits) :
                        s[1] < Size(k) /\ s[2] < D!InChunk(c)}
<1>3. ws' = [p \in DOMAIN ws |-> IF <<p[2], p[1]>> \in weights
                                 THEN D!WeightUnit(Matrix(k), D!Clamped(p[2]), c + p[1])
                                 ELSE ws[p]]
  BY <1>1, <1>2 DEF D!Stage
<1>4. xs' = [p \in DOMAIN xs |-> IF p \in inputs
                                 THEN D!InputUnit(First(k) + p[1], c + p[2]) ELSE xs[p]]
  BY <1>1, <1>2 DEF D!Stage
<1>5. \A p : <<p[2], p[1]>> \in weights <=> (StagesWeight(id, c, p) /\ p[1] < D!InChunk(c))
  BY DEF StagesWeight
<1>6. \A p : p \in inputs <=> (StagesInput(id, p) /\ p[1] < Size(k) /\ p[2] < D!InChunk(c))
  BY DEF StagesInput
<1> HIDE DEF weights, inputs
<1>7. ASSUME NEW p \in WeightsOf(c)
      PROVE  ws'[p] = IF StagesWeight(id, c, p) THEN Weight(k, c, p) ELSE ws[p]
  <2>1. p \in DOMAIN ws /\ p[1] < D!InChunk(c)
    BY Zenon DEF WeightsOf, Typed
  <2>2. QED
    BY Zenon, <1>3, <1>5, <2>1 DEF Weight
<1>8. ASSUME NEW p \in InputsOf(k, c)
      PROVE  xs'[p] = IF StagesInput(id, p) THEN Input(k, c, p) ELSE xs[p]
  <2>1. p \in DOMAIN xs /\ p[1] < Size(k) /\ p[2] < D!InChunk(c)
    BY Zenon DEF InputsOf, Typed
  <2>2. QED
    BY Zenon, <1>4, <1>6, <2>1 DEF Input
<1>9. DOMAIN ws' = DOMAIN ws /\ DOMAIN xs' = DOMAIN xs
  BY Zenon, <1>3, <1>4
<1>10. QED
  BY Zenon, <1>7, <1>8, <1>9

LEMMA StageKeeps ==
  ASSUME InBlock, NEW id \in D!Threads, D!Stage(id)
  PROVE  InBlock'
<1>1. /\ launch' = launch /\ dy' = dy /\ finished' = finished /\ block' = block /\ ti' = ti
      /\ chunk' = chunk /\ held' = held /\ sum' = sum
  BY DEF D!Stage
<1>2. pc[id] = "stage" /\ pc' = [pc EXCEPT ![id] = "sync after"]
  BY Zenon DEF D!Stage
<1>3. launch \in Launches /\ ResultSound /\ Typed /\ Rounds
  BY DEF InBlock
<1>4. DOMAIN pc = D!Threads /\ DOMAIN pc' = DOMAIN pc
  BY Zenon, <1>2, <1>3 DEF Typed
<1>5. PICK k \in TileIds, c \in 0..(D!units - 1) : k % Stride = block[2] /\ Round(k, c)
  BY <1>3 DEF Rounds
<1>6. \A other \in D!Threads : Stages(other, k, c)
  <2>1. ~Waits(id, k, c)
    BY <1>2 DEF Waits
  <2>2. ~Computes(id, k, c)
    BY <1>2 DEF Computes, Past, Waits
  <2>3. QED
    BY Zenon, <1>5, <2>1, <2>2 DEF Round
<1>7. Here(id, k, c)
  BY <1>6 DEF Stages
<1>8. /\ DOMAIN ws' = DOMAIN ws /\ DOMAIN xs' = DOMAIN xs
      /\ \A p \in WeightsOf(c) :
           ws'[p] = IF StagesWeight(id, c, p) THEN Weight(k, c, p) ELSE ws[p]
      /\ \A p \in InputsOf(k, c) :
           xs'[p] = IF StagesInput(id, p) THEN Input(k, c, p) ELSE xs[p]
  BY Zenon, <1>3, <1>7, StageWrites
<1>9. Typed'
  BY Zenon, <1>1, <1>3, <1>4, <1>8, SameShape
<1>10. ResultSound'
  BY <1>1, <1>3, StoredStays, ResultStays
<1>11. /\ WeightsOf(c)' = WeightsOf(c) /\ InputsOf(k, c)' = InputsOf(k, c)
       /\ \A p : Weight(k, c, p)' = Weight(k, c, p) /\ Input(k, c, p)' = Input(k, c, p)
       /\ \A other, p : StagesWeight(other, c, p)' = StagesWeight(other, c, p)
       /\ \A other, p : StagesInput(other, p)' = StagesInput(other, p)
  BY Zenon, <1>1, SameBlock
<1>12. ASSUME NEW other \in D!Threads, other = id \/ Staged(other, k, c)
       PROVE  Staged(other, k, c)'
  <2>1. ASSUME NEW p \in WeightsOf(c), StagesWeight(other, c, p) PROVE ws'[p] = Weight(k, c, p)
    BY Zenon, <1>8, <1>12, <2>1 DEF Staged
  <2>2. ASSUME NEW p \in InputsOf(k, c), StagesInput(other, p) PROVE xs'[p] = Input(k, c, p)
    BY Zenon, <1>8, <1>12, <2>2 DEF Staged
  <2>3. QED
    BY Zenon, <1>11, <2>1, <2>2 DEF Staged
<1>13. ASSUME NEW other \in D!Threads PROVE Stages(other, k, c)'
  <2>1. Here(other, k, c)'
    BY Zenon, <1>1, <1>6, SameThread DEF Stages
  <2>2. CASE other = id
    <3>1. pc'[other] = "sync after"
      BY Zenon, <1>2, <1>4, <2>2
    <3>2. QED
      BY Zenon, <1>12, <2>1, <2>2, <3>1 DEF Stages
  <2>3. CASE other # id
    <3>1. pc'[other] = pc[other]
      BY Zenon, <1>2, <1>4, <2>3
    <3>2. CASE pc[other] = "stage"
      BY Zenon, <2>1, <3>1, <3>2 DEF Stages
    <3>3. CASE pc[other] # "stage"
      <4>1. pc[other] = "sync after" /\ Staged(other, k, c)
        BY Zenon, <1>6, <3>3 DEF Stages
      <4>2. QED
        BY Zenon, <1>12, <2>1, <3>1, <4>1 DEF Stages
    <3>4. QED
      BY Zenon, <3>2, <3>3
  <2>4. QED
    BY Zenon, <2>2, <2>3
<1>14. Round(k, c)'
  BY Zenon, <1>1, <1>13, SameProduct DEF Round
<1>15. QED
  BY Zenon, <1>1, <1>5, <1>9, <1>10, <1>14, BlockGoesOn

-----------------------------------------------------------------------------
(* A thread computes. *)

(* Sums of the first units and of the next are sums of all of them. *)
LEMMA Joined ==
  ASSUME NEW c \in Nat, NEW n \in Nat, NEW k, NEW r, NEW t
  PROVE  Sums(k, r, t, c) \o [u \in 1..n |-> <<D!WeightUnit(Matrix(k), r, c + (u - 1)),
                                             D!InputUnit(First(k) + t, c + (u - 1))>>]
           = Sums(k, r, t, c + n)
<1> DEFINE more == [u \in 1..n |-> <<D!WeightUnit(Matrix(k), r, c + (u - 1)),
                                    D!InputUnit(First(k) + t, c + (u - 1))>>]
           W(u) == <<D!WeightUnit(Matrix(k), r, u), D!InputUnit(First(k) + t, u)>>
<1>1. /\ Sums(k, r, t, c) = [u \in 1..c |-> W(u - 1)]
      /\ Sums(k, r, t, c + n) = [u \in 1..(c + n) |-> W(u - 1)]
      /\ more = [u \in 1..n |-> W(c + (u - 1))]
  BY Zenon DEF Sums
<1> HIDE DEF W
<1> DEFINE a == [u \in 1..c |-> W(u - 1)]
           b == [u \in 1..n |-> W(c + (u - 1))]
           e == [u \in 1..(c + n) |-> W(u - 1)]
           Values == {W(u - 1) : u \in 1..c} \cup {W(c + (u - 1)) : u \in 1..n}
<1>2. a \in Seq(Values) /\ b \in Seq(Values) /\ Len(a) = c /\ Len(b) = n
  <2>1. a \in [1..c -> Values] /\ b \in [1..n -> Values]
    BY Zenon
  <2> HIDE DEF a, b, Values
  <2>2. QED
    BY <2>1
<1>3. \A u \in 1..(c + n) : (a \o b)[u] = W(u - 1)
  <2>1. ASSUME NEW u \in 1..(c + n) PROVE (a \o b)[u] = W(u - 1)
    <3>1. CASE u <= c
      <4>1. (a \o b)[u] = a[u]
        BY <1>2, <3>1
      <4>2. QED
        BY <3>1, <4>1
    <3>2. CASE ~(u <= c)
      <4>1. (a \o b)[u] = b[u - c] /\ u - c \in 1..n
        BY <1>2, <3>2
      <4>2. c + ((u - c) - 1) = u - 1
        OBVIOUS
      <4>3. QED
        BY <4>1, <4>2
    <3>3. QED
      BY <3>1, <3>2
  <2>2. QED
    BY Zenon, <2>1
<1>4. a \o b \in Seq(Values) /\ Len(a \o b) = c + n
  BY <1>2
<1>5. a \o b = [u \in 1..(c + n) |-> (a \o b)[u]]
  BY <1>4
<1>6. a \o b = e
  BY Zenon, <1>3, <1>5
<1>7. QED
  BY Zenon, <1>1, <1>6

LEMMA ComputeAdds ==
  ASSUME launch \in Launches, Typed, NEW id \in D!Threads, D!Compute(id),
         NEW k \in TileIds, NEW c \in 0..(D!units - 1), Here(id, k, c), AllStaged(k, c),
         NEW n \in Nat, n = c + D!InChunk(c)
  PROVE  /\ AddedUp(id, k, n)'
         /\ \A other \in D!Threads \ {id} : sum'[other] = sum[other]
         /\ DOMAIN sum' = DOMAIN sum
         /\ \A other \in D!Threads : DOMAIN sum'[other] = DOMAIN sum[other]
<1>1. ti[id] = k /\ chunk[id] = c /\ AddedUp(id, k, c)
  BY DEF Here
<1>2. D!TileOf(id).count = Size(k)
  BY <1>1, TileHere
<1> DEFINE m == D!InChunk(c)
           more(t) == [u \in 1..m |-> <<ws[<<u - 1, D!TX(id)>>], xs[<<t, u - 1>>]>>]
           g == [t \in DOMAIN sum[id] |->
                   IF t < D!Computed(Size(k)) THEN sum[id][t] \o more(t) ELSE sum[id][t]]
<1>3. sum' = [sum EXCEPT ![id] = g]
  BY Zenon, <1>1, <1>2 DEF D!Compute
<1>4. m \in 1..ChunkUnits /\ c \in Nat /\ m \in Nat
  <2>1. m \in 1..ChunkUnits
    BY Zenon, InChunkIs
  <2> HIDE DEF m, more, g
  <2>2. D!units \in Nat /\ ChunkUnits \in Nat
    BY LaunchIs, DeviceSizes
  <2>3. QED
    BY <2>1, <2>2
<1>5. id \in DOMAIN sum /\ DOMAIN sum = D!Threads /\ DOMAIN sum[id] = D!Tokens(id)
  BY Zenon DEF Typed
<1> HIDE DEF m
<1>6. /\ DOMAIN sum' = DOMAIN sum /\ sum'[id] = g
      /\ \A other \in D!Threads \ {id} : sum'[other] = sum[other]
  BY Zenon, <1>3, <1>5
<1>7. ASSUME NEW t \in D!Tokens(id), t < Size(k)
      PROVE  g[t] = Sums(k, D!Clamped(D!TX(id)), t, n)
  <2>1. t \in 0..(BlockTokens - 1)
    BY TokensAre
  <2>2. t < D!Computed(Size(k))
    <3>1. Size(k) \in 1..BlockTokens
      BY TileIs
    <3>2. Size(k) <= D!Computed(Size(k)) /\ D!Computed(Size(k)) \in Nat
      BY <3>1, ComputedIs
    <3>3. QED
      BY <1>7, <2>1, <3>1, <3>2, DeviceSizes
  <2>3. g[t] = sum[id][t] \o more(t)
    BY Zenon, <1>5, <2>2
  <2>4. sum[id][t] = Sums(k, D!Clamped(D!TX(id)), t, c)
    BY Zenon, <1>1, <1>7 DEF AddedUp
  <2>5. ASSUME NEW u \in 1..m
        PROVE  /\ ws[<<u - 1, D!TX(id)>>] =
                    D!WeightUnit(Matrix(k), D!Clamped(D!TX(id)), c + (u - 1))
               /\ xs[<<t, u - 1>>] = D!InputUnit(First(k) + t, c + (u - 1))
    <3>1. u - 1 \in 0..(ChunkUnits - 1) /\ u - 1 < m
      BY <1>4, DeviceSizes
    <3>2. D!TX(id) \in 0..(BlockRows - 1)
      BY ThreadIs
    <3> DEFINE v == u - 1
    <3>3. <<v, D!TX(id)>> \in WeightsOf(c)
      BY <3>1, <3>2 DEF WeightsOf, D!WeightSlots, m
    <3>4. <<t, v>> \in InputsOf(k, c)
      BY <1>7, <2>1, <3>1 DEF InputsOf, D!InputSlots, m
    <3> HIDE DEF v
    <3>5. ws[<<v, D!TX(id)>>] = Weight(k, c, <<v, D!TX(id)>>)
      BY Zenon, <3>3 DEF AllStaged
    <3>6. xs[<<t, v>>] = Input(k, c, <<t, v>>)
      BY Zenon, <3>4 DEF AllStaged
    <3>7. /\ Weight(k, c, <<v, D!TX(id)>>) =
               D!WeightUnit(Matrix(k), D!Clamped(D!TX(id)), c + v)
          /\ Input(k, c, <<t, v>>) = D!InputUnit(First(k) + t, c + v)
      BY DEF Weight, Input
    <3>8. QED
      BY Zenon, <3>5, <3>6, <3>7 DEF v
  <2>6. more(t) = [u \in 1..m |->
                     <<D!WeightUnit(Matrix(k), D!Clamped(D!TX(id)), c + (u - 1)),
                       D!InputUnit(First(k) + t, c + (u - 1))>>]
    BY Zenon, <2>5
  <2> HIDE DEF more, g
  <2>7. Sums(k, D!Clamped(D!TX(id)), t, c) \o more(t) =
          Sums(k, D!Clamped(D!TX(id)), t, c + m)
    <3> DEFINE r == D!Clamped(D!TX(id))
    <3> HIDE DEF r
    <3>1. Sums(k, r, t, c) \o [u \in 1..m |-> <<D!WeightUnit(Matrix(k), r, c + (u - 1)),
                                               D!InputUnit(First(k) + t, c + (u - 1))>>]
            = Sums(k, r, t, c + m)
      BY Zenon, <1>4, Joined
    <3>2. QED
      BY Zenon, <2>6, <3>1 DEF r
  <2>8. QED
    BY Zenon, <2>3, <2>4, <2>7 DEF m
<1>8. DOMAIN g = DOMAIN sum[id]
  BY Zenon
<1> HIDE DEF g
<1>9. launch' = launch /\ block' = block
  BY DEF D!Compute
<1>10. AddedUp(id, k, n)'
  <2>1. /\ Size(k)' = Size(k) /\ D!Tokens(id)' = D!Tokens(id)
        /\ \A j, r, t, i : Sums(j, r, t, i)' = Sums(j, r, t, i)
        /\ D!Clamped(D!TX(id))' = D!Clamped(D!TX(id))
    <3>1. D!TX(id)' = D!TX(id)
      BY DEF D!TX
    <3>2. QED
      BY <1>9, <3>1, SameProduct, SameBlock
  <2>2. QED
    BY Zenon, <1>6, <1>7, <2>1 DEF AddedUp
<1>11. ASSUME NEW other \in D!Threads PROVE DOMAIN sum'[other] = DOMAIN sum[other]
  BY Zenon, <1>6, <1>8
<1>12. QED
  BY Zenon, <1>6, <1>10, <1>11

LEMMA ComputeKeeps ==
  ASSUME InBlock, NEW id \in D!Threads, D!Compute(id)
  PROVE  InBlock'
<1>1. /\ launch' = launch /\ dy' = dy /\ finished' = finished /\ block' = block /\ ti' = ti
      /\ ws' = ws /\ xs' = xs
  BY DEF D!Compute, D!shared
<1>2. launch \in Launches /\ ResultSound /\ Typed /\ Rounds
  BY DEF InBlock
<1>3. /\ pc[id] = "compute"
      /\ pc' = [pc EXCEPT ![id] = D!AfterCompute(id)]
      /\ chunk' = [chunk EXCEPT ![id] = IF D!Ends(id) THEN @ ELSE @ + ChunkUnits]
      /\ held' = [held EXCEPT ![id] = IF D!Piped /\ ~D!Ends(id) THEN chunk[id] + ChunkUnits
                                      ELSE @]
  BY Zenon DEF D!Compute
<1>4. /\ DOMAIN pc = D!Threads /\ DOMAIN chunk = D!Threads /\ DOMAIN held = D!Threads
      /\ DOMAIN ti = D!Threads
  BY Zenon, <1>2 DEF Typed
<1>5. /\ DOMAIN pc' = DOMAIN pc /\ DOMAIN chunk' = DOMAIN chunk /\ DOMAIN held' = DOMAIN held
      /\ \A other \in D!Threads \ {id} :
           pc'[other] = pc[other] /\ chunk'[other] = chunk[other] /\ held'[other] = held[other]
      /\ pc'[id] = D!AfterCompute(id)
      /\ chunk'[id] = (IF D!Ends(id) THEN chunk[id] ELSE chunk[id] + ChunkUnits)
      /\ held'[id] = (IF D!Piped /\ ~D!Ends(id) THEN chunk[id] + ChunkUnits ELSE held[id])
  BY Zenon, <1>3, <1>4
<1>6. PICK k \in TileIds, c \in 0..(D!units - 1) : k % Stride = block[2] /\ Round(k, c)
  BY <1>2 DEF Rounds
<1>7. AllStaged(k, c) /\ \A other \in D!Threads : Computes(other, k, c)
  <2>1. ~Waits(id, k, c)
    BY <1>3 DEF Waits
  <2>2. ~Stages(id, k, c)
    BY <1>3 DEF Stages
  <2>3. QED
    BY Zenon, <1>6, <2>1, <2>2 DEF Round
<1>8. Here(id, k, c)
  <2>1. ~Past(id, k, c)
    BY <1>3 DEF Past, Waits
  <2>2. QED
    BY Zenon, <1>7, <2>1 DEF Computes
<1>9. ti[id] = k /\ chunk[id] = c
  BY Zenon, <1>8 DEF Here
<1>10. PICK n \in Nat : n = c + D!InChunk(c)
  <2>1. c + D!InChunk(c) \in Nat
    BY <1>2, InChunkIs, LaunchIs, DeviceSizes
  <2>2. QED
    BY Zenon, <2>1
<1>11. /\ AddedUp(id, k, n)'
       /\ \A other \in D!Threads \ {id} : sum'[other] = sum[other]
       /\ DOMAIN sum' = DOMAIN sum
       /\ \A other \in D!Threads : DOMAIN sum'[other] = DOMAIN sum[other]
  BY Zenon, <1>2, <1>7, <1>8, <1>10, ComputeAdds
<1>12. Typed'
  BY Zenon, <1>1, <1>2, <1>5, <1>11, SameShape
<1>13. ResultSound'
  BY <1>1, <1>2, StoredStays, ResultStays
<1>14. D!Piped' = D!Piped /\ D!units' = D!units
  BY <1>1, SameProduct
<1>15. Past(id, k, c)'
  <2>1. CASE c + ChunkUnits >= D!units
    <3>1. D!Ends(id)
      BY Zenon, <1>9, <2>1 DEF D!Ends
    <3>2. pc'[id] = "store" /\ ti'[id] = k
      BY Zenon, <1>1, <1>5, <1>9, <3>1 DEF D!AfterCompute
    <3>3. n = D!units
      BY <1>2, <1>10, <2>1, InChunkIs
    <3>4. AddedUp(id, k, D!units)'
      <4>1. n = D!units'
        BY Zenon, <1>14, <3>3
      <4>2. QED
        BY Zenon, <1>11, <4>1 DEF AddedUp
    <3>5. QED
      BY Zenon, <1>14, <2>1, <3>2, <3>4 DEF Past
  <2>2. CASE ~(c + ChunkUnits >= D!units)
    <3>1. ~D!Ends(id)
      BY Zenon, <1>9, <2>2 DEF D!Ends
    <3>2. /\ pc'[id] = "sync before" /\ ti'[id] = k /\ chunk'[id] = c + ChunkUnits
          /\ D!Piped => held'[id] = c + ChunkUnits
      BY Zenon, <1>1, <1>5, <1>9, <3>1 DEF D!AfterCompute
    <3>3. c + ChunkUnits < D!units
      BY <1>2, <2>2, LaunchIs, DeviceSizes
    <3>4. n = c + ChunkUnits
      BY <1>2, <1>10, <3>3, InChunkIs
    <3>5. AddedUp(id, k, c + ChunkUnits)'
      BY Zenon, <1>11, <3>4
    <3>6. Waits(id, k, c + ChunkUnits)'
      BY Zenon, <1>14, <3>2, <3>5 DEF Waits, Here
    <3>7. QED
      BY Zenon, <1>14, <3>3, <3>6 DEF Past
  <2>3. QED
    BY Zenon, <2>1, <2>2
<1>16. ASSUME NEW other \in D!Threads PROVE Computes(other, k, c)'
  <2>1. CASE other = id
    BY Zenon, <1>15, <2>1 DEF Computes
  <2>2. CASE other # id
    <3>1. /\ ti'[other] = ti[other] /\ chunk'[other] = chunk[other] /\ pc'[other] = pc[other]
          /\ held'[other] = held[other] /\ sum'[other] = sum[other]
      BY Zenon, <1>1, <1>5, <1>11, <2>2
    <3>2. Computes(other, k, c)' = Computes(other, k, c)
      BY Zenon, <1>1, <3>1, SameThread
    <3>3. QED
      BY Zenon, <1>7, <3>2
  <2>3. QED
    BY Zenon, <2>1, <2>2
<1>17. AllStaged(k, c)'
  BY Zenon, <1>1, <1>7, SameBlock DEF AllStaged
<1>18. Round(k, c)'
  BY Zenon, <1>1, <1>16, <1>17, SameProduct DEF Round
<1>19. QED
  BY Zenon, <1>1, <1>6, <1>12, <1>13, <1>18, BlockGoesOn

-----------------------------------------------------------------------------
(* A block ends. *)

LEMMA EndBlockKeeps ==
  ASSUME InBlock, D!EndBlock
  PROVE  BetweenBlocks'
<1>1. /\ launch' = launch /\ dy' = dy /\ finished' = finished \cup {block}
      /\ block' = D!NoBlock /\ \A id \in D!Threads : pc[id] = "end"
  BY DEF D!EndBlock
<1>2. /\ launch \in Launches /\ ResultSound /\ Rounds /\ block \in D!Grid
      /\ finished \subseteq D!Grid
  BY DEF InBlock
<1>3. PICK k \in TileIds, c \in 0..(D!units - 1) : k % Stride = block[2] /\ Round(k, c)
  BY <1>2 DEF Rounds
<1>4. ASSUME NEW id \in D!Threads PROVE k + Stride >= Len(D!Tiles) /\ ti[id] = k + Stride
  <2>1. ~Waits(id, k, c) /\ ~Stages(id, k, c)
    BY <1>1 DEF Waits, Stages
  <2>2. Computes(id, k, c)
    BY Zenon, <1>3, <2>1 DEF Round
  <2>3. QED
    BY <1>1, <2>2 DEF Computes, Past, Waits
<1>5. ASSUME NEW r \in Nat, NEW t \in Nat PROVE Stored(r, t)' <=> Stored(r, t)
  <2>1. ASSUME NEW j \in TileIds, InTile(t, j) PROVE j < ti[Owner(r, t - First(j))]
    <3>1. Owner(r, t - First(j)) \in D!Threads
      BY <1>2, <2>1, OwnerOf
    <3>2. j \in Nat /\ j < Len(D!Tiles) /\ k \in Nat /\ Len(D!Tiles) \in Nat /\ Stride \in Nat
      BY <1>2, TileIs, TilesAre, StrideIs DEF TilesSound
    <3>3. ti[Owner(r, t - First(j))] = k + Stride /\ k + Stride >= Len(D!Tiles)
      BY Zenon, <1>4, <3>1
    <3>4. QED
      BY <3>2, <3>3
  <2>2. /\ TileIds' = TileIds /\ Stride' = Stride
        /\ \A j : InTile(t, j)' = InTile(t, j)
    BY <1>1, SameProduct
  <2>3. \A j : block' # <<r \div BlockRows, j % Stride>>
    BY <1>1 DEF D!NoBlock
  <2> DEFINE Pair(j) == <<r \div BlockRows, j % Stride>>
  <2>4. Stored(r, t) <=>
          \E j \in TileIds : InTile(t, j) /\ (Pair(j) \in finished \/ block = Pair(j))
    BY Zenon, <2>1 DEF Stored
  <2>5. Stored(r, t)' <=> \E j \in TileIds : InTile(t, j) /\ Pair(j) \in finished'
    BY Zenon, <2>2, <2>3 DEF Stored
  <2> HIDE DEF Pair
  <2>6. \A j : Pair(j) \in finished' <=> Pair(j) \in finished \/ block = Pair(j)
    BY <1>1
  <2>7. QED
    BY Zenon, <2>4, <2>5, <2>6
<1>6. ResultSound'
  BY <1>1, <1>2, <1>5, ResultStays
<1>7. launch' \in Launches /\ finished' \subseteq D!Grid'
  BY <1>1, <1>2, SameProduct
<1>8. block' = D!NoBlock'
  BY <1>1 DEF D!NoBlock
<1>9. QED
  BY Zenon, <1>6, <1>7, <1>8 DEF BetweenBlocks

-----------------------------------------------------------------------------
(* A thread stores its sums of a tile. *)

(* The tokens of a tile whose sums are a thread's to store, and where. *)
Kept(id, k) == {t \in D!Tokens(id) : D!R0 + D!TX(id) < D!rows /\ t < Size(k)}
At(id, k, t) == (First(k) + t) * D!rows + (D!R0 + D!TX(id))

LEMMA KeptIs ==
  ASSUME launch \in Launches, block \in D!Grid, NEW id \in D!Threads, NEW k \in TileIds,
         NEW t \in Kept(id, k)
  PROVE  /\ D!R0 + D!TX(id) \in 0..(D!rows - 1) /\ t \in Nat /\ t < Size(k)
         /\ First(k) + t \in 0..(D!count - 1)
         /\ At(id, k, t) \in 0..(D!count * D!rows - 1)
         /\ At(id, k, t) % D!rows = D!R0 + D!TX(id)
         /\ At(id, k, t) \div D!rows = First(k) + t
<1> DEFINE r == D!R0 + D!TX(id)
           s == First(k) + t
<1>1. r \in Nat /\ r < D!rows /\ D!rows \in Nat \ {0} /\ r \in 0..(D!rows - 1)
  <2>1. block[1] \in Nat
    BY GridIs
  <2>2. block[1] * BlockRows \in Nat
    BY <2>1, DeviceSizes
  <2>3. D!TX(id) \in Nat
    BY ThreadIs, DeviceSizes
  <2>4. r \in Nat
    BY <2>2, <2>3 DEF D!R0
  <2>5. r < D!rows
    BY DEF Kept
  <2> HIDE DEF r
  <2>6. QED
    BY <2>4, <2>5, LaunchIs
<1>2. t \in 0..(BlockTokens - 1) /\ t < Size(k)
  BY TokensAre DEF Kept
<1>3. s \in Nat /\ s < D!count /\ t \in Nat
  BY <1>2, TileIs, DeviceSizes, LaunchIs
<1>4. At(id, k, t) = s * D!rows + r
  BY DEF At
<1> HIDE DEF r, s
<1>5. s * D!rows + r \in 0..(D!count * D!rows - 1)
  BY <1>1, <1>3, PairBelow, LaunchIs
<1>6. (s * D!rows + r) \div D!rows = s /\ (s * D!rows + r) % D!rows = r
  BY <1>1, <1>3, DivModOf
<1>7. s \in 0..(D!count - 1)
  BY <1>3, LaunchIs
<1>8. QED
  BY <1>1, <1>2, <1>3, <1>4, <1>5, <1>6, <1>7 DEF r, s

(* An index is in the thread's part of a tile if its row is the thread's and *)
(* its token the tile's.                                                     *)
LEMMA KeptOf ==
  ASSUME launch \in Launches, block \in D!Grid, NEW id \in D!Threads, NEW k \in TileIds,
         NEW a \in 0..(D!count * D!rows - 1),
         (a % D!rows) \div BlockRows = block[1], InTile(a \div D!rows, k),
         Owner(a % D!rows, (a \div D!rows) - First(k)) = id
  PROVE  \E t \in Kept(id, k) : At(id, k, t) = a
<1> DEFINE r == a % D!rows
           s == a \div D!rows
           t == s - First(k)
<1>1. r \in Nat /\ s \in Nat /\ a = s * D!rows + r /\ r < D!rows /\ D!rows \in Nat
  BY IndexIs, LaunchIs
<1> HIDE DEF r, s
<1>2. r \div BlockRows = block[1] /\ InTile(s, k)
  BY DEF r, s
<1>3. t \in 0..(BlockTokens - 1) /\ t < Size(k)
  BY <1>1, <1>2, OwnerOf
<1>4. r % BlockRows = D!TX(id) /\ t \in D!Tokens(id)
  <2>1. Owner(r, t) = id
    BY DEF r, s
  <2> HIDE DEF t
  <2>2. QED
    BY <1>1, <1>3, <2>1, OwnerIs
<1>5. r = D!R0 + D!TX(id)
  <2>1. r = (r \div BlockRows) * BlockRows + (r % BlockRows)
    BY <1>1, DivMod, DeviceSizes
  <2>2. QED
    BY <1>2, <1>4, <2>1 DEF D!R0
<1>6. t \in Kept(id, k)
  BY <1>1, <1>3, <1>4, <1>5 DEF Kept
<1>7. First(k) + t = s
  BY <1>1, TileIs
<1>8. At(id, k, t) = a
  BY <1>1, <1>5, <1>7 DEF At
<1>9. QED
  BY <1>6, <1>8

(* Those indices, and the token of one of them. *)
Part(id, k) == {At(id, k, t) : t \in Kept(id, k)}
TokenAt(id, k, a) == CHOOSE t \in Kept(id, k) : At(id, k, t) = a

(* The result is what it was, and the thread's sums at the tile's indices. *)
PartStored(id, k) ==
  dy' = [a \in DOMAIN dy \cup Part(id, k) |->
           (IF a \in DOMAIN dy THEN dy[a] ELSE <<>>)
             \o (IF a \in Part(id, k) THEN <<sum[id][TokenAt(id, k, a)]>> ELSE <<>>)]

LEMMA StoreWrites ==
  ASSUME NEW id, NEW k, ti[id] = k, D!StoreSums(id)
  PROVE  PartStored(id, k)
<1>1. D!TileOf(id).count = Size(k) /\ D!TileOf(id).start = First(k)
  BY TileHere
<1> DEFINE r == D!R0 + D!TX(id)
           at1(t) == (D!TileOf(id).start + t) * D!rows + r
           kept1 == {t \in D!Tokens(id) : r < D!rows /\ t < D!TileOf(id).count}
           part1 == {at1(t) : t \in kept1}
           pick1(a) == CHOOSE t \in kept1 : at1(t) = a
<1>2. kept1 = Kept(id, k)
  BY Zenon, <1>1 DEF Kept
<1>3. \A t : at1(t) = At(id, k, t)
  BY Zenon, <1>1 DEF At
<1>4. dy' = [a \in DOMAIN dy \cup part1 |->
               (IF a \in DOMAIN dy THEN dy[a] ELSE <<>>)
                 \o (IF a \in part1 THEN <<sum[id][pick1(a)]>> ELSE <<>>)]
  BY Zenon DEF D!StoreSums
<1> HIDE DEF kept1, at1
<1>5. part1 = Part(id, k)
  BY Zenon, <1>2, <1>3 DEF Part
<1>6. \A a : pick1(a) = TokenAt(id, k, a)
  BY Zenon, <1>2, <1>3 DEF TokenAt
<1> HIDE DEF part1, pick1
<1>7. QED
  BY Zenon, <1>4, <1>5, <1>6 DEF PartStored

LEMMA OneAndNone ==
  ASSUME NEW v
  PROVE  <<v>> \o <<>> = <<v>> /\ <<>> \o <<v>> = <<v>>
OBVIOUS

(* A thread's sum of a tile's token is the reference's. *)
LEMMA SumIsReference ==
  ASSUME launch \in Launches, block \in D!Grid, NEW id \in D!Threads, NEW k \in TileIds,
         AddedUp(id, k, D!units), NEW t \in Kept(id, k)
  PROVE  sum[id][t] = D!ReferenceSum(D!R0 + D!TX(id), First(k) + t)
<1>1. t \in D!Tokens(id) /\ t < Size(k) /\ D!R0 + D!TX(id) < D!rows
  BY DEF Kept
<1>2. sum[id][t] = Sums(k, D!Clamped(D!TX(id)), t, D!units)
  BY Zenon, <1>1 DEF AddedUp
<1>3. D!Clamped(D!TX(id)) = D!R0 + D!TX(id)
  BY Zenon, <1>1 DEF D!Clamped
<1>4. launch.groups[(First(k) + t) + 1] = Matrix(k)
  <2>1. t \in 0..(Size(k) - 1)
    BY <1>1, KeptIs, TileIs, DeviceSizes
  <2>2. launch.groups[First(k) + t + 1] = Matrix(k)
    BY Zenon, <2>1, TilesAre DEF TilesSound
  <2>3. QED
    BY Zenon, <2>2
<1>5. QED
  BY Zenon, <1>2, <1>3, <1>4 DEF Sums, D!ReferenceSum

(* Its indices are of its block, of the tile, and its own. *)
LEMMA KeptIsMine ==
  ASSUME launch \in Launches, block \in D!Grid, NEW id \in D!Threads, NEW k \in TileIds,
         k % Stride = block[2], NEW t \in Kept(id, k), NEW r, r = D!R0 + D!TX(id)
  PROVE  /\ r \in Nat /\ First(k) + t \in Nat /\ InTile(First(k) + t, k)
         /\ block = <<r \div BlockRows, k % Stride>>
         /\ (First(k) + t) - First(k) = t /\ Owner(r, t) = id
<1>1. /\ t \in D!Tokens(id) /\ t \in Nat /\ t < Size(k) /\ r \in Nat
      /\ First(k) \in Nat /\ Size(k) \in 1..BlockTokens
  BY KeptIs, TileIs, LaunchIs DEF Kept
<1>2. InTile(First(k) + t, k) /\ (First(k) + t) - First(k) = t /\ First(k) + t \in Nat
  BY <1>1, DeviceSizes DEF InTile
<1>3. block = <<block[1], block[2]>> /\ block[1] \in Nat
  BY GridIs
<1>4. r = block[1] * BlockRows + D!TX(id) /\ D!TX(id) \in 0..(BlockRows - 1)
  BY ThreadIs DEF D!R0
<1>5. r \div BlockRows = block[1] /\ r % BlockRows = D!TX(id)
  BY <1>3, <1>4, DivModOf, DeviceSizes
<1>6. Owner(r, t) = id
  <2>1. t \in 0..(BlockTokens - 1)
    BY <1>1, TokensAre
  <2>2. QED
    BY <1>1, <1>5, <2>1, OwnerIs
<1>7. block = <<r \div BlockRows, k % Stride>>
  BY <1>3, <1>5
<1>8. QED
  BY <1>1, <1>2, <1>6, <1>7

(* What is stored then: what was, and the thread's part of the tile. *)
LEMMA StoredGrows ==
  ASSUME InBlock, NEW id \in D!Threads, NEW k \in TileIds, k % Stride = block[2], ti[id] = k,
         launch' = launch, block' = block, finished' = finished,
         ti' = [ti EXCEPT ![id] = k + Stride],
         NEW a \in 0..(D!count * D!rows - 1)
  PROVE  LET is == Stored(a % D!rows, a \div D!rows)
             mine == \E t \in Kept(id, k) : At(id, k, t) = a
         IN  /\ Stored(a % D!rows, a \div D!rows)' <=> is \/ mine
             /\ ~(is /\ mine)
<1> DEFINE r == a % D!rows
           s == a \div D!rows
           mine == \E t \in Kept(id, k) : At(id, k, t) = a
<1>1. /\ launch \in Launches /\ block \in D!Grid \ finished /\ DOMAIN ti = D!Threads
      /\ r \in Nat /\ s \in Nat
  BY IndexIs DEF InBlock, Typed
<1>2. k \in Nat /\ Stride \in Nat \ {0}
  BY <1>1, TileIs, TilesAre, StrideIs
<1>3. /\ TileIds' = TileIds /\ Stride' = Stride /\ r' = r /\ s' = s
      /\ \A t, j : InTile(t, j)' = InTile(t, j)
      /\ \A j : First(j)' = First(j)
      /\ \A t, i : Owner(t, i)' = Owner(t, i)
  BY SameProduct
<1> HIDE DEF r, s
<1> DEFINE Pair(j) == <<r \div BlockRows, j % Stride>>
           Own(j) == Owner(r, s - First(j))
<1>4. Stored(r, s) <=>
        \E j \in TileIds :
          InTile(s, j) /\ (Pair(j) \in finished \/ (block = Pair(j) /\ j < ti[Own(j)]))
  BY Zenon DEF Stored
<1>5. Stored(r, s)' <=>
        \E j \in TileIds :
          InTile(s, j) /\ (Pair(j) \in finished \/ (block = Pair(j) /\ j < ti'[Own(j)]))
  BY Zenon, <1>3 DEF Stored
<1>6. ASSUME mine
      PROVE  /\ InTile(s, k) /\ block = Pair(k) /\ Own(k) = id /\ ~Stored(r, s) /\ Stored(r, s)'
  <2>1. PICK t \in Kept(id, k) : At(id, k, t) = a
    BY <1>6
  <2>2. r = D!R0 + D!TX(id) /\ s = First(k) + t
    BY <1>1, <2>1, KeptIs DEF r, s
  <2>3. /\ InTile(s, k) /\ block = <<r \div BlockRows, k % Stride>> /\ s - First(k) = t
        /\ Owner(r, t) = id
    BY Zenon, <1>1, <2>2, KeptIsMine
  <2>4. Own(k) = id /\ block = Pair(k)
    BY Zenon, <2>3
  <2>5. ~Stored(r, s)
    <3>1. \A j \in TileIds : InTile(s, j) => j = k
      BY <1>1, <2>3, TilesAre, OneTile
    <3>2. Pair(k) \notin finished /\ ~(k < ti[Own(k)])
      BY <1>1, <1>2, <2>4
    <3>3. QED
      BY Zenon, <1>4, <3>1, <3>2
  <2>6. Stored(r, s)'
    <3>1. ti'[Own(k)] = k + Stride
      BY Zenon, <1>1, <2>4
    <3>2. k < ti'[Own(k)]
      BY <1>2, <3>1
    <3>3. QED
      BY Zenon, <1>5, <2>3, <2>4, <3>2
  <2>7. QED
    BY Zenon, <2>3, <2>4, <2>5, <2>6
<1>7. ASSUME Stored(r, s) PROVE Stored(r, s)'
  <2>1. PICK j \in TileIds :
          InTile(s, j) /\ (Pair(j) \in finished \/ (block = Pair(j) /\ j < ti[Own(j)]))
    BY Zenon, <1>4, <1>7
  <2>2. j < ti[Own(j)] => j < ti'[Own(j)]
    <3>1. Own(j) \in D!Threads /\ j \in Nat
      BY <1>1, <2>1, OwnerOf, TileIs
    <3>2. CASE Own(j) = id
      <4>1. ti[Own(j)] = k /\ ti'[Own(j)] = k + Stride
        BY Zenon, <1>1, <3>2
      <4>2. QED
        BY <1>2, <3>1, <4>1
    <3>3. CASE Own(j) # id
      BY Zenon, <1>1, <3>1, <3>3
    <3>4. QED
      BY Zenon, <3>2, <3>3
  <2>3. QED
    BY Zenon, <1>5, <2>1, <2>2
<1>8. ASSUME Stored(r, s)', ~Stored(r, s) PROVE mine
  <2>1. PICK j \in TileIds :
          InTile(s, j) /\ (Pair(j) \in finished \/ (block = Pair(j) /\ j < ti'[Own(j)]))
    BY Zenon, <1>5, <1>8
  <2>2. block = Pair(j) /\ j < ti'[Own(j)] /\ ~(j < ti[Own(j)])
    BY Zenon, <1>4, <1>8, <2>1
  <2>3. Own(j) \in D!Threads /\ j \in Nat
    BY <1>1, <2>1, OwnerOf, TileIs
  <2>4. Own(j) = id
    BY Zenon, <1>1, <2>2, <2>3
  <2>5. ti[Own(j)] = k /\ ti'[Own(j)] = k + Stride
    BY Zenon, <1>1, <2>4
  <2>6. j % Stride = k % Stride /\ block[1] = r \div BlockRows
    BY <2>2
  <2>7. j = k
    <3>1. k <= j /\ j < k + Stride
      BY <1>2, <2>2, <2>3, <2>5
    <3>2. QED
      BY <1>2, <2>3, <2>6, <3>1, SameResidue
  <2>8. InTile(s, k) /\ Owner(r, s - First(k)) = id /\ r \div BlockRows = block[1]
    BY Zenon, <2>1, <2>4, <2>6, <2>7
  <2>9. QED
    BY <1>1, <2>8, KeptOf DEF r, s
<1> HIDE DEF mine
<1>9. Stored(r, s)' <=> Stored(r, s) \/ mine
  BY Zenon, <1>6, <1>7, <1>8
<1>10. ~(Stored(r, s) /\ mine)
  BY Zenon, <1>6
<1>11. QED
  BY Zenon, <1>9, <1>10 DEF r, s, mine

LEMMA ResultGrows ==
  ASSUME InBlock, NEW id \in D!Threads, NEW k \in TileIds, k % Stride = block[2], ti[id] = k,
         AddedUp(id, k, D!units), D!StoreSums(id), ti' = [ti EXCEPT ![id] = k + Stride]
  PROVE  ResultSound'
<1>1. launch' = launch /\ block' = block /\ finished' = finished
  BY DEF D!StoreSums
<1>2. launch \in Launches /\ block \in D!Grid /\ ResultSound
  BY DEF InBlock
<1> DEFINE part == Part(id, k)
           All == 0..(D!count * D!rows - 1)
           Is(a) == Stored(a % D!rows, a \div D!rows)
           Ref(a) == D!ReferenceSum(a % D!rows, a \div D!rows)
           pick(a) == TokenAt(id, k, a)
<1>3. dy' = [a \in DOMAIN dy \cup part |->
               (IF a \in DOMAIN dy THEN dy[a] ELSE <<>>)
                 \o (IF a \in part THEN <<sum[id][pick(a)]>> ELSE <<>>)]
  <2>1. PartStored(id, k)
    BY Zenon, StoreWrites
  <2>2. QED
    BY Zenon, <2>1 DEF PartStored
<1>4. ASSUME NEW a \in All
      PROVE  (Is(a)' <=> Is(a) \/ a \in part) /\ ~(Is(a) /\ a \in part)
  <2>1. a \in part <=> \E t \in Kept(id, k) : At(id, k, t) = a
    BY Zenon DEF Part
  <2>2. QED
    BY Zenon, <1>1, <2>1, StoredGrows
<1>5. part \subseteq All
  BY <1>2, KeptIs DEF Part
<1>6. DOMAIN dy = {a \in All : Is(a)} /\ \A a \in DOMAIN dy : dy[a] = <<Ref(a)>>
  BY Zenon, <1>2 DEF ResultSound
<1>7. D!count' = D!count /\ D!rows' = D!rows /\ D!units' = D!units
  BY <1>1, SameProduct
<1>8. \A a : Ref(a)' = Ref(a)
  BY Zenon, <1>1, <1>7 DEF D!ReferenceSum, D!WeightUnit, D!InputUnit
<1>9. ASSUME NEW a \in part PROVE sum[id][pick(a)] = Ref(a)
  <2>1. \E t \in Kept(id, k) : At(id, k, t) = a
    BY Zenon DEF Part
  <2>2. pick(a) \in Kept(id, k) /\ At(id, k, pick(a)) = a
    BY Zenon, <2>1 DEF TokenAt
  <2> HIDE DEF pick
  <2>3. sum[id][pick(a)] = D!ReferenceSum(D!R0 + D!TX(id), First(k) + pick(a))
    BY Zenon, <1>2, <2>2, SumIsReference
  <2>4. a % D!rows = D!R0 + D!TX(id) /\ a \div D!rows = First(k) + pick(a)
    BY <1>2, <2>2, KeptIs
  <2>5. QED
    BY Zenon, <2>3, <2>4
<1> HIDE DEF pick
<1>10. ASSUME NEW a \in DOMAIN dy' PROVE dy'[a] = <<Ref(a)>>
  <2>1. a \in DOMAIN dy \cup part
    BY Zenon, <1>3
  <2>2. CASE a \in part
    <3>1. a \notin DOMAIN dy
      BY Zenon, <1>4, <1>5, <1>6, <2>2
    <3>2. dy'[a] = <<>> \o <<sum[id][pick(a)]>>
      BY Zenon, <1>3, <2>1, <2>2, <3>1
    <3>3. QED
      BY Zenon, <1>9, <2>2, <3>2, OneAndNone
  <2>3. CASE a \notin part
    <3>1. a \in DOMAIN dy
      BY Zenon, <2>1, <2>3
    <3>2. dy'[a] = dy[a] \o <<>> /\ dy[a] = <<Ref(a)>>
      BY Zenon, <1>3, <1>6, <2>1, <2>3, <3>1
    <3>3. QED
      BY Zenon, <3>2, OneAndNone
  <2>4. QED
    BY Zenon, <2>2, <2>3
<1>11. DOMAIN dy' = {a \in All : Is(a)'}
  <2>1. DOMAIN dy' = DOMAIN dy \cup part
    BY Zenon, <1>3
  <2> HIDE DEF part, Is
  <2>2. QED
    BY Zenon, <1>4, <1>5, <1>6, <2>1
<1>12. ResultSound'
  <2>1. All' = All
    BY Zenon, <1>7
  <2>2. DOMAIN dy' = {a \in All' : Is(a)'} /\ \A a \in DOMAIN dy' : dy'[a] = <<Ref(a)'>>
    BY Zenon, <1>8, <1>10, <1>11, <2>1
  <2>3. QED
    BY <2>2 DEF ResultSound
<1>13. QED
  BY <1>12

LEMMA StoreKeeps ==
  ASSUME InBlock, NEW id \in D!Threads, D!StoreSums(id)
  PROVE  InBlock'
<1>1. /\ launch' = launch /\ finished' = finished /\ block' = block /\ ws' = ws /\ xs' = xs
      /\ pc[id] = "store"
  BY DEF D!StoreSums, D!shared
<1>2. launch \in Launches /\ Typed /\ Rounds
  BY DEF InBlock
<1>3. /\ chunk' = [chunk EXCEPT ![id] = 0] /\ held' = [held EXCEPT ![id] = 0]
      /\ sum' = [sum EXCEPT ![id] = D!NoSums(id)]
      /\ ti' = [ti EXCEPT ![id] = ti[id] + Stride]
      /\ pc' = [pc EXCEPT ![id] =
                   IF ti[id] + Stride < Len(D!Tiles) THEN "sync before" ELSE "end"]
  BY Zenon DEF D!StoreSums, Stride
<1>4. /\ DOMAIN pc = D!Threads /\ DOMAIN chunk = D!Threads /\ DOMAIN held = D!Threads
      /\ DOMAIN ti = D!Threads /\ DOMAIN sum = D!Threads
  BY Zenon, <1>2 DEF Typed
<1>5. /\ DOMAIN pc' = DOMAIN pc /\ DOMAIN chunk' = DOMAIN chunk /\ DOMAIN held' = DOMAIN held
      /\ DOMAIN ti' = DOMAIN ti /\ DOMAIN sum' = DOMAIN sum
  BY Zenon, <1>3
<1>6. ASSUME NEW other \in D!Threads \ {id}
      PROVE  /\ ti'[other] = ti[other] /\ chunk'[other] = chunk[other]
             /\ held'[other] = held[other] /\ sum'[other] = sum[other] /\ pc'[other] = pc[other]
  BY Zenon, <1>3, <1>4
<1>7. PICK k \in TileIds, c \in 0..(D!units - 1) : k % Stride = block[2] /\ Round(k, c)
  BY <1>2 DEF Rounds
<1>8. AllStaged(k, c) /\ \A other \in D!Threads : Computes(other, k, c)
  <2>1. ~Waits(id, k, c)
    BY <1>1 DEF Waits
  <2>2. ~Stages(id, k, c)
    BY <1>1 DEF Stages
  <2>3. QED
    BY Zenon, <1>7, <2>1, <2>2 DEF Round
<1>9. c + ChunkUnits >= D!units /\ ti[id] = k /\ AddedUp(id, k, D!units)
  BY <1>1, <1>8 DEF Computes, Past, Waits
<1>10. ti'[id] = k + Stride /\ chunk'[id] = 0 /\ held'[id] = 0 /\ sum'[id] = D!NoSums(id)
       /\ pc'[id] = (IF k + Stride < Len(D!Tiles) THEN "sync before" ELSE "end")
  BY Zenon, <1>3, <1>4, <1>9
<1>11. ResultSound'
  <2>1. ti' = [ti EXCEPT ![id] = k + Stride]
    BY Zenon, <1>3, <1>9
  <2>2. QED
    BY Zenon, <1>7, <1>9, <2>1, ResultGrows
<1>12. ASSUME NEW other \in D!Threads PROVE DOMAIN sum'[other] = DOMAIN sum[other]
  <2>1. CASE other = id
    <3>1. DOMAIN sum'[id] = D!Tokens(id)
      BY Zenon, <1>10 DEF D!NoSums
    <3>2. DOMAIN sum[id] = D!Tokens(id)
      BY Zenon, <1>2 DEF Typed
    <3>3. QED
      BY Zenon, <2>1, <3>1, <3>2
  <2>2. CASE other # id
    BY Zenon, <1>6, <2>2
  <2>3. QED
    BY Zenon, <2>1, <2>2
<1>13. Typed'
  BY Zenon, <1>1, <1>2, <1>5, <1>12, SameShape
<1>14. /\ Stride' = Stride /\ D!Tiles' = D!Tiles /\ D!units' = D!units /\ D!Threads' = D!Threads
       /\ D!Tokens(id)' = D!Tokens(id)
  BY <1>1, SameProduct
<1>15. Past(id, k, c)'
  <2>1. CASE k + Stride < Len(D!Tiles)
    <3>1. AddedUp(id, k + Stride, 0)'
      <4>1. \A j, r, t : Sums(j, r, t, 0)' = <<>>
        BY DEF Sums
      <4>2. \A t \in D!Tokens(id) : sum'[id][t] = <<>>
        BY Zenon, <1>10 DEF D!NoSums
      <4>3. QED
        BY Zenon, <1>14, <4>1, <4>2 DEF AddedUp
    <3>2. Waits(id, k + Stride, 0)'
      BY Zenon, <1>10, <1>14, <2>1, <3>1 DEF Waits, Here
    <3>3. QED
      BY Zenon, <1>9, <1>14, <2>1, <3>2 DEF Past
  <2>2. CASE ~(k + Stride < Len(D!Tiles))
    <3>1. k + Stride >= Len(D!Tiles)
      BY <1>2, <2>2, TileIs, TilesAre, StrideIs DEF TilesSound
    <3>2. QED
      BY Zenon, <1>9, <1>10, <1>14, <2>2, <3>1 DEF Past
  <2>3. QED
    BY Zenon, <2>1, <2>2
<1>16. ASSUME NEW other \in D!Threads PROVE Computes(other, k, c)'
  <2>1. CASE other = id
    BY Zenon, <1>15, <2>1 DEF Computes
  <2>2. CASE other # id
    <3>1. Computes(other, k, c)' = Computes(other, k, c)
      BY Zenon, <1>1, <1>6, <2>2, SameThread
    <3>2. QED
      BY Zenon, <1>8, <3>1
  <2>3. QED
    BY Zenon, <2>1, <2>2
<1>17. AllStaged(k, c)'
  BY Zenon, <1>1, <1>8, SameBlock DEF AllStaged
<1>18. Round(k, c)'
  BY Zenon, <1>14, <1>16, <1>17 DEF Round
<1>19. QED
  BY Zenon, <1>1, <1>7, <1>11, <1>13, <1>18, BlockGoesOn

-----------------------------------------------------------------------------
(* The accelerator's steps, and the others'. *)

LEMMA DeviceStays ==
  ASSUME DeviceInv, UNCHANGED launching
  PROVE  DeviceInv'
<1>1. /\ launch' = launch /\ dy' = dy /\ finished' = finished /\ block' = block /\ pc' = pc
      /\ ti' = ti /\ chunk' = chunk /\ held' = held /\ sum' = sum /\ ws' = ws /\ xs' = xs
  BY DEF launching
<1>2. CASE DeviceFree
  <2>1. DeviceFree'
    BY <1>1, <1>2 DEF DeviceFree, D!NoLaunch, D!NoBlock
  <2>2. QED
    BY Zenon, <2>1 DEF DeviceInv
<1>3. ASSUME launch \in Launches, ResultSound PROVE ResultSound'
  BY <1>1, <1>3, StoredStays, ResultStays
<1>4. CASE BetweenBlocks
  <2>1. /\ launch' \in Launches /\ block' = D!NoBlock' /\ finished' \subseteq D!Grid'
    BY <1>1, <1>4, SameProduct DEF BetweenBlocks, D!NoBlock
  <2>2. ResultSound'
    BY Zenon, <1>3, <1>4 DEF BetweenBlocks
  <2>3. QED
    BY Zenon, <2>1, <2>2 DEF DeviceInv, BetweenBlocks
<1>5. CASE InBlock
  <2>1. launch \in Launches /\ ResultSound /\ Typed /\ Rounds
    BY <1>5 DEF InBlock
  <2>2. Typed' /\ ResultSound'
    BY Zenon, <1>1, <1>3, <2>1, SameShape
  <2>3. PICK k \in TileIds, c \in 0..(D!units - 1) : k % Stride = block[2] /\ Round(k, c)
    BY <2>1 DEF Rounds
  <2>4. ASSUME AllStaged(k, c) PROVE AllStaged(k, c)'
    BY Zenon, <1>1, <2>4, SameBlock DEF AllStaged
  <2>5. ASSUME NEW id, Staged(id, k, c) PROVE Staged(id, k, c)'
    <3>1. WeightsOf(c)' = WeightsOf(c) /\ InputsOf(k, c)' = InputsOf(k, c)
      BY Zenon, <1>1, SameBlock
    <3>2. \A p : /\ Weight(k, c, p)' = Weight(k, c, p) /\ Input(k, c, p)' = Input(k, c, p)
                /\ StagesWeight(id, c, p)' = StagesWeight(id, c, p)
                /\ StagesInput(id, p)' = StagesInput(id, p)
      BY Zenon, <1>1, SameBlock
    <3>3. QED
      BY Zenon, <1>1, <2>5, <3>1, <3>2 DEF Staged
  <2>6. \A id : /\ Waits(id, k, c)' = Waits(id, k, c) /\ Here(id, k, c)' = Here(id, k, c)
                /\ Computes(id, k, c)' = Computes(id, k, c)
    BY Zenon, <1>1, SameThread
  <2>7. \A id : Stages(id, k, c) => Stages(id, k, c)'
    BY Zenon, <1>1, <2>5, <2>6 DEF Stages
  <2>8. D!Threads' = D!Threads
    BY <1>1, SameProduct
  <2>9. Round(k, c)'
    BY Zenon, <2>3, <2>4, <2>6, <2>7, <2>8 DEF Round
  <2>10. InBlock'
    BY Zenon, <1>1, <1>5, <2>2, <2>3, <2>9, BlockGoesOn
  <2>11. QED
    BY Zenon, <2>10 DEF DeviceInv
<1>6. QED
  BY Zenon, <1>2, <1>4, <1>5 DEF DeviceInv

LEMMA OneOfThree ==
  ASSUME DeviceInv
  PROVE  /\ launch = D!NoLaunch => DeviceFree
         /\ launch # D!NoLaunch /\ block = D!NoBlock => BetweenBlocks
         /\ block # D!NoBlock => InBlock
<1>1. D!NoLaunch \notin Launches
  BY DeviceAssumption DEF D!NoLaunch
<1>2. D!NoBlock \notin D!Grid
  BY GridIs DEF D!NoBlock
<1>3. QED
  BY <1>1, <1>2 DEF DeviceInv, DeviceFree, BetweenBlocks, InBlock

LEMMA DeviceKeeps ==
  ASSUME DeviceInv, D!Next
  PROVE  DeviceInv'
<1>1. CASE \E l \in Launches : D!Multiply(l)
  <2>1. launch = D!NoLaunch
    BY <1>1 DEF D!Multiply
  <2>2. QED
    BY <1>1, <2>1, OneOfThree, MultiplyKeeps DEF DeviceInv
<1>2. CASE launch # D!NoLaunch /\ \E b \in D!Grid : D!StartBlock(b)
  <2>1. PICK b \in D!Grid : D!StartBlock(b)
    BY <1>2
  <2>2. block = D!NoBlock
    BY <2>1 DEF D!StartBlock
  <2>3. QED
    BY <1>2, <2>1, <2>2, OneOfThree, StartBlockKeeps DEF DeviceInv
<1>3. CASE D!Barrier
  <2>1. block # D!NoBlock
    BY <1>3 DEF D!Barrier
  <2>2. QED
    BY <1>3, <2>1, OneOfThree, BarrierKeeps DEF DeviceInv
<1>4. ASSUME NEW id, D!Stage(id) \/ D!Compute(id) \/ D!StoreSums(id)
      PROVE  DeviceInv'
  <2>1. block # D!NoBlock /\ id \in D!Threads
    BY <1>4 DEF D!Stage, D!Compute, D!StoreSums
  <2>2. InBlock
    BY <2>1, OneOfThree
  <2>3. InBlock'
    BY <1>4, <2>1, <2>2, StageKeeps, ComputeKeeps, StoreKeeps
  <2>4. QED
    BY <2>3 DEF DeviceInv
<1>5. CASE D!EndBlock
  <2>1. block # D!NoBlock
    BY <1>5 DEF D!EndBlock
  <2>2. QED
    BY <1>5, <2>1, OneOfThree, EndBlockKeeps DEF DeviceInv
<1>6. CASE D!Done
  <2>1. launch # D!NoLaunch /\ block = D!NoBlock
    BY <1>6 DEF D!Done
  <2>2. QED
    BY <1>6, <2>1, OneOfThree, DoneKeeps DEF DeviceInv
<1>7. QED
  BY Zenon, <1>1, <1>2, <1>3, <1>4, <1>5, <1>6 DEF D!Next

(* A sum that is stored is the reference's, and once every block has ended    *)
(* every sum is.                                                             *)
LEMMA DeviceInvSums ==
  ASSUME DeviceInv
  PROVE  DeviceSumsInOrder
<1>1. CASE launch = D!NoLaunch
  BY <1>1 DEF DeviceSumsInOrder, D!DeviceSumsInOrder
<1>2. CASE launch # D!NoLaunch
  <2>1. /\ launch \in Launches /\ finished \subseteq D!Grid /\ ResultSound
    BY <1>2, OneOfThree DEF BetweenBlocks, InBlock
  <2> DEFINE All == 0..(D!count * D!rows - 1)
             Is(a) == Stored(a % D!rows, a \div D!rows)
  <2>2. DOMAIN dy = {a \in All : Is(a)}
        /\ \A a \in DOMAIN dy : dy[a] = <<D!ReferenceSum(a % D!rows, a \div D!rows)>>
    BY Zenon, <2>1 DEF ResultSound
  <2>3. ASSUME finished = D!Grid, NEW a \in All PROVE Is(a)
    <3> DEFINE r == a % D!rows
               t == a \div D!rows
    <3>1. r \in 0..(D!rows - 1) /\ t \in 0..(D!count - 1)
      BY <2>1, IndexIs
    <3> HIDE DEF r, t
    <3>2. PICK k \in TileIds : InTile(t, k)
      BY <2>1, <3>1, TilesAre DEF TilesSound
    <3>3. k % Stride \in 0..(Stride - 1)
      BY <2>1, DivMod, TileIs, TilesAre, StrideIs
    <3>4. r \div BlockRows \in 0..(RowBlocks - 1)
      <4>1. r \in Nat /\ r \div BlockRows \in Nat
        <5>1. r \in Nat
          BY <2>1, <3>1, LaunchIs
        <5>2. QED
          BY <5>1, DivMod, DeviceSizes
      <4>2. r \div BlockRows <= (D!rows + BlockRows - 1) \div BlockRows - 1
        BY <2>1, <3>1, LaunchIs, DivTop, DeviceSizes
      <4>3. (D!rows + BlockRows - 1) \div BlockRows \in Int
        BY <2>1, LaunchIs, DeviceSizes
      <4>4. QED
        BY <4>1, <4>2, <4>3 DEF RowBlocks, D!Ceiling
    <3>5. <<r \div BlockRows, k % Stride>> \in finished
      BY Zenon, <2>3, <3>3, <3>4, GridIs
    <3>6. Stored(r, t)
      BY Zenon, <3>2, <3>5 DEF Stored
    <3>7. QED
      BY Zenon, <3>6 DEF r, t
  <2> HIDE DEF Is
  <2>4. finished = D!Grid => DOMAIN dy = All
    BY Zenon, <2>2, <2>3
  <2>5. DOMAIN dy \subseteq All
    BY Zenon, <2>2
  <2>6. QED
    BY Zenon, <2>2, <2>4, <2>5 DEF DeviceSumsInOrder, D!DeviceSumsInOrder
<1>3. QED
  BY <1>1, <1>2

(* Every sum the accelerator stores is the reference's: in any order of      *)
(* threads and blocks, of any launch, nothing is stored twice or out of      *)
(* bounds, and all of it when the blocks have ended (cuda.inc:233-413,       *)
(* 611-712).                                                                 *)
THEOREM DeviceSumsAreReference == D!Spec => []DeviceSumsInOrder
<1>1. D!Init => DeviceInv
  BY DEF D!Init, DeviceInv, DeviceFree
<1>2. DeviceInv /\ [D!Next]_(D!vars) => DeviceInv'
  <2> SUFFICES ASSUME DeviceInv, [D!Next]_(D!vars) PROVE DeviceInv'
    OBVIOUS
  <2>1. CASE D!Next
    BY Zenon, <2>1, DeviceKeeps
  <2>2. CASE UNCHANGED D!vars
    <3>1. UNCHANGED launching
      BY <2>2 DEF launching, D!vars, D!threads, D!shared
    <3>2. QED
      BY Zenon, <3>1, DeviceStays
  <2>3. QED
    BY Zenon, <2>1, <2>2
<1>3. DeviceInv => DeviceSumsInOrder
  BY DeviceInvSums
<1>4. QED
  BY <1>1, <1>2, <1>3, PTL DEF D!Spec

-----------------------------------------------------------------------------
(* The rows of a prompt and of a canvas after it, layer by layer. *)

(* The row at a position, of the rows a layer before. *)
NextRow(p, c, m, rows, i) ==
  P!Attending(m, rows[i], i, IF i <= Len(p) THEN i ELSE Len(p \o c), rows)

FirstRow(p, c, i) == P!Embedded((p \o c)[i], i > Len(p))

LayerOf(p, c, m, rows) ==
  [i \in DOMAIN (p \o c) |-> IF m = 0 THEN FirstRow(p, c, i) ELSE NextRow(p, c, m, rows, i)]

Layers(p, c, f, n) == f = [m \in 0..n |-> LayerOf(p, c, m, f[m - 1])]

AfterOf(p, c) == CHOOSE f : Layers(p, c, f, L)

LEMMA RowsAfterIs ==
  ASSUME NEW p, NEW c, NEW l
  PROVE  P!RowsAfter(p, c, l) = AfterOf(p, c)[l]
BY DEF P!RowsAfter, AfterOf, Layers, LayerOf, FirstRow, NextRow

LEMMA LayersExist ==
  ASSUME NEW p, NEW c
  PROVE  \E f : Layers(p, c, f, L)
<1>1. L \in Nat
  BY PassesAssumption
<1> DEFINE Ks == {k \in 0..L : \E f : Layers(p, c, f, k)}
<1>2. 0 \in Ks
  <2> DEFINE f == [m \in 0..0 |-> LayerOf(p, c, m, <<>>)]
  <2>1. \A r : LayerOf(p, c, 0, r) = LayerOf(p, c, 0, <<>>)
    BY DEF LayerOf
  <2>2. \A m \in 0..0 : m = 0
    OBVIOUS
  <2>3. f = [m \in 0..0 |-> LayerOf(p, c, m, f[m - 1])]
    <3>1. \A m \in 0..0 : LayerOf(p, c, m, <<>>) = LayerOf(p, c, m, f[m - 1])
      BY Zenon, <2>1, <2>2
    <3>2. QED
      BY Zenon, <3>1
  <2> HIDE DEF f
  <2>4. Layers(p, c, f, 0)
    BY Zenon, <2>3 DEF Layers
  <2>5. 0 \in 0..L
    BY <1>1
  <2>6. QED
    BY Zenon, <2>4, <2>5
<1>3. ASSUME NEW k \in 0..(L - 1), k \in Ks PROVE k + 1 \in Ks
  <2>1. PICK f : Layers(p, c, f, k)
    BY Zenon, <1>3
  <2> DEFINE n == k + 1
             h == [m \in 0..n |-> IF m = n THEN LayerOf(p, c, n, f[k]) ELSE f[m]]
  <2>2. n \in Nat \ {0} /\ n \in 0..L /\ n - 1 = k /\ k \in 0..n /\ k # n
    BY <1>1
  <2>3. ASSUME NEW m \in 0..n PROVE h[m] = LayerOf(p, c, m, h[m - 1])
    <3>1. CASE m = n
      <4>1. h[m] = LayerOf(p, c, n, f[k]) /\ h[k] = f[k]
        BY Zenon, <2>2, <3>1
      <4>2. QED
        BY Zenon, <2>2, <3>1, <4>1
    <3>2. CASE m # n
      <4>1. m \in 0..k
        BY <2>2, <3>2
      <4>2. h[m] = f[m] /\ f[m] = LayerOf(p, c, m, f[m - 1])
        BY Zenon, <2>1, <3>2, <4>1 DEF Layers
      <4>3. CASE m = 0
        <5>1. LayerOf(p, c, 0, f[m - 1]) = LayerOf(p, c, 0, h[m - 1])
          BY DEF LayerOf
        <5>2. QED
          BY Zenon, <4>2, <4>3, <5>1
      <4>4. CASE m # 0
        <5>1. m - 1 \in 0..n /\ m - 1 # n
          BY <2>2, <4>1, <4>4
        <5>2. h[m - 1] = f[m - 1]
          BY Zenon, <5>1
        <5>3. QED
          BY Zenon, <4>2, <5>2
      <4>5. QED
        BY Zenon, <4>3, <4>4
    <3>3. QED
      BY Zenon, <3>1, <3>2
  <2>4. h = [m \in 0..n |-> LayerOf(p, c, m, h[m - 1])]
    <3>1. h = [m \in 0..n |-> h[m]]
      BY Zenon
    <3> HIDE DEF h
    <3>2. QED
      BY Zenon, <2>3, <3>1
  <2> HIDE DEF h
  <2>5. Layers(p, c, h, n)
    BY Zenon, <2>4 DEF Layers
  <2>6. QED
    BY Zenon, <2>2, <2>5
<1>4. \A k \in 0..L : k \in Ks
  <2> HIDE DEF Ks
  <2>1. QED
    BY Zenon, <1>1, <1>2, <1>3, InductionTo
<1>5. L \in Ks
  BY <1>1, <1>4
<1>6. QED
  BY Zenon, <1>5

(* The embeddings, and then a layer from the one before. *)
LEMMA RowsAfterLayers ==
  ASSUME NEW p, NEW c, NEW l \in 0..L
  PROVE  P!RowsAfter(p, c, l) = LayerOf(p, c, l, P!RowsAfter(p, c, l - 1))
<1>1. Layers(p, c, AfterOf(p, c), L)
  BY Zenon, LayersExist DEF AfterOf
<1>2. AfterOf(p, c)[l] = LayerOf(p, c, l, AfterOf(p, c)[l - 1])
  BY Zenon, <1>1 DEF Layers
<1>3. QED
  BY Zenon, <1>2, RowsAfterIs

-----------------------------------------------------------------------------
(* The positions a row attends to are consecutive. *)

Least1(u, v) == IF u <= v THEN u ELSE v
Most(u, v) == IF u >= v THEN u ELSE v

(* A set has one cardinality. *)
LEMMA SameCardinality ==
  ASSUME NEW R
  PROVE  P!Cardinality(R) = Cardinality(R)
BY DEF P!Cardinality, Cardinality

LEMMA InOrderOfRange ==
  ASSUME NEW u \in Int, NEW v \in Int, u <= v + 1
  PROVE  P!InOrder(u..v) = [k \in 1..(v - u + 1) |-> u + k - 1]
<1> DEFINE R == u..v
<1>1. Cardinality(R) = v - u + 1
  BY FS_Interval
<1>2. ASSUME NEW i \in R PROVE Cardinality({j \in R : j < i}) = i - u
  <2>1. {j \in R : j < i} = u..(i - 1)
    OBVIOUS
  <2>2. Cardinality(u..(i - 1)) = i - u
    <3>1. i - 1 \in Int /\ i >= u
      OBVIOUS
    <3>2. Cardinality(u..(i - 1)) = IF u > i - 1 THEN 0 ELSE (i - 1) - u + 1
      BY <3>1, FS_Interval
    <3>3. QED
      BY <3>1, <3>2
  <2>3. QED
    BY Zenon, <2>1, <2>2
<1>3. ASSUME NEW k \in 1..(v - u + 1)
      PROVE  (CHOOSE i \in R : Cardinality({j \in R : j < i}) = k - 1) = u + k - 1
  <2> DEFINE w == u + k - 1
             Q(i) == Cardinality({j \in R : j < i}) = k - 1
  <2>1. w \in R /\ w - u = k - 1
    OBVIOUS
  <2>2. Q(w)
    BY Zenon, <1>2, <2>1
  <2>3. ASSUME NEW i \in R, Q(i) PROVE i = w
    <3>1. i - u = k - 1
      BY Zenon, <1>2, <2>3
    <3>2. QED
      BY <3>1
  <2> HIDE DEF w, Q
  <2>4. (CHOOSE i \in R : Q(i)) = w
    BY Zenon, <2>1, <2>2, <2>3
  <2>5. QED
    BY Zenon, <2>4 DEF Q, w
<1>4. P!InOrder(R) = [k \in 1..(v - u + 1) |->
                       CHOOSE i \in R : Cardinality({j \in R : j < i}) = k - 1]
  <2>1. P!InOrder(R) = [k \in 1..P!Cardinality(R) |->
                         CHOOSE i \in R : P!Cardinality({j \in R : j < i}) = k - 1]
    BY Zenon DEF P!InOrder
  <2>2. \A i : P!Cardinality({j \in R : j < i}) = Cardinality({j \in R : j < i})
    BY Zenon, SameCardinality
  <2>3. P!Cardinality(R) = v - u + 1
    BY Zenon, <1>1, SameCardinality
  <2> HIDE DEF R
  <2>4. QED
    BY Zenon, <2>1, <2>2, <2>3
<1>5. QED
  BY Zenon, <1>3, <1>4

(* The first and the last position a row sees. *)
SeenFrom(l, i) == IF P!IsFull(l) THEN 1 ELSE Most(1, i - Window + 1)
SeenTo(l, i, n) == IF P!IsFull(l) THEN n ELSE Least1(n, i + Window - 1)

LEMMA SeenIs ==
  ASSUME NEW l, NEW n \in Nat, NEW i \in 1..n
  PROVE  /\ SeenFrom(l, i) \in 1..i /\ SeenTo(l, i, n) \in i..n
         /\ P!Seen(l, i, n) = [k \in 1..(SeenTo(l, i, n) - SeenFrom(l, i) + 1) |->
                                SeenFrom(l, i) + k - 1]
<1> DEFINE u == SeenFrom(l, i)
           v == SeenTo(l, i, n)
<1>1. Window \in Nat \ {0}
  BY PassesAssumption
<1>2. u \in 1..i /\ v \in i..n
  BY <1>1 DEF SeenFrom, SeenTo, Most, Least1
<1>3. {j \in 1..n : P!Sees(l, i, j)} = u..v
  <2>1. CASE P!IsFull(l)
    <3>1. \A j \in 1..n : P!Sees(l, i, j)
      BY Zenon, <2>1 DEF P!Sees
    <3>2. u = 1 /\ v = n
      BY Zenon, <2>1 DEF SeenFrom, SeenTo
    <3>3. QED
      BY Zenon, <3>1, <3>2
  <2>2. CASE ~P!IsFull(l)
    <3>1. u = Most(1, i - Window + 1) /\ v = Least1(n, i + Window - 1)
      BY Zenon, <2>2 DEF SeenFrom, SeenTo
    <3>2. \A j \in 1..n : P!Sees(l, i, j) <=> (i - j < Window /\ j - i < Window)
      BY Zenon, <2>2 DEF P!Sees
    <3> HIDE DEF u, v
    <3>3. \A j \in 1..n : (i - j < Window /\ j - i < Window) <=> (u <= j /\ j <= v)
      BY <1>1, <3>1 DEF Most, Least1
    <3>4. \A j \in u..v : j \in 1..n
      BY <1>2
    <3>5. QED
      BY <1>2, <3>2, <3>3, <3>4
  <2>3. QED
    BY Zenon, <2>1, <2>2
<1>4. u \in Int /\ v \in Int /\ u <= v + 1
  BY <1>2
<1> HIDE DEF u, v
<1>5. P!InOrder(u..v) = [k \in 1..(v - u + 1) |-> u + k - 1]
  BY Zenon, <1>4, InOrderOfRange
<1>6. P!Seen(l, i, n) = P!InOrder(u..v)
  BY Zenon, <1>3 DEF P!Seen
<1>7. QED
  BY Zenon, <1>2, <1>5, <1>6 DEF u, v

(* What a row of ids is made of. *)
AttendsTo(l, row, i, n, rows) ==
  P!Mixed(row, i - 1,
    [k \in 1..(SeenTo(l, i, n) - SeenFrom(l, i) + 1) |->
      [row |-> rows[SeenFrom(l, i) + k - 1], pos |-> SeenFrom(l, i) + k - 2]])

LEMMA AttendingIs ==
  ASSUME NEW l, NEW n \in Nat, NEW i \in 1..n, NEW row, NEW rows
  PROVE  P!Attending(l, row, i, n, rows) = AttendsTo(l, row, i, n, rows)
<1> DEFINE u == SeenFrom(l, i)
           w == SeenTo(l, i, n) - SeenFrom(l, i) + 1
           seen == P!Seen(l, i, n)
<1>1. seen = [k \in 1..w |-> u + k - 1] /\ u \in Int
  BY SeenIs
<1> HIDE DEF u, w, seen
<1>2. DOMAIN seen = 1..w /\ \A k \in 1..w : seen[k] = u + k - 1 /\ seen[k] - 1 = u + k - 2
  BY <1>1
<1>3. [k \in DOMAIN seen |-> [row |-> rows[seen[k]], pos |-> seen[k] - 1]] =
      [k \in 1..w |-> [row |-> rows[u + k - 1], pos |-> u + k - 2]]
  BY <1>2
<1>4. P!Attending(l, row, i, n, rows) =
      P!Mixed(row, i - 1, [k \in DOMAIN seen |-> [row |-> rows[seen[k]], pos |-> seen[k] - 1]])
  BY DEF P!Attending, seen
<1>5. QED
  BY Zenon, <1>3, <1>4 DEF AttendsTo, u, w

(* How far a row attends: a prompt's to itself, a canvas's to the end. *)
Until(p, c, i) == IF i <= Len(p) THEN i ELSE Len(p) + Len(c)

LEMMA Concatenation ==
  ASSUME NEW p \in Seq(Nat), NEW c \in Seq(Nat)
  PROVE  /\ Len(p) \in Nat /\ Len(c) \in Nat /\ Len(p \o c) = Len(p) + Len(c)
         /\ DOMAIN (p \o c) = 1..(Len(p) + Len(c))
         /\ \A i \in 1..(Len(p) + Len(c)) :
              (p \o c)[i] = IF i <= Len(p) THEN p[i] ELSE c[i - Len(p)]
<1>1. p \o c \in Seq(Nat) /\ Len(p \o c) = Len(p) + Len(c) /\ Len(p) \in Nat /\ Len(c) \in Nat
  BY ConcatProperties, LenProperties
<1>2. DOMAIN (p \o c) = 1..Len(p \o c)
  BY <1>1, LenProperties
<1>3. \A i \in 1..(Len(p) + Len(c)) :
        (p \o c)[i] = IF i <= Len(p) THEN p[i] ELSE c[i - Len(p)]
  BY ConcatProperties
<1>4. QED
  BY Zenon, <1>1, <1>2, <1>3

RowAtFirst(p, c, i) ==
  P!RowsAfter(p, c, 0)[i] =
    P!Embedded(IF i <= Len(p) THEN p[i] ELSE c[i - Len(p)], i > Len(p))

RowFollows(p, c, l, i) ==
  P!RowsAfter(p, c, l)[i] =
    AttendsTo(l, P!RowsAfter(p, c, l - 1)[i], i, Until(p, c, i), P!RowsAfter(p, c, l - 1))

LEMMA RowIs ==
  ASSUME NEW p \in Seq(Nat), NEW c \in Seq(Nat), NEW i \in 1..(Len(p) + Len(c))
  PROVE  RowAtFirst(p, c, i) /\ \A l \in 1..L : RowFollows(p, c, l, i)
<1>1. /\ Len(p) \in Nat /\ Len(c) \in Nat /\ Len(p \o c) = Len(p) + Len(c)
      /\ i \in DOMAIN (p \o c)
      /\ (p \o c)[i] = IF i <= Len(p) THEN p[i] ELSE c[i - Len(p)]
  BY Zenon, Concatenation
<1>2. L \in Nat /\ 0 \in 0..L /\ \A l \in 1..L : l \in 0..L /\ l # 0
  BY PassesAssumption
<1>3. P!RowsAfter(p, c, 0)[i] = FirstRow(p, c, i)
  <2>1. P!RowsAfter(p, c, 0) = LayerOf(p, c, 0, P!RowsAfter(p, c, 0 - 1))
    BY Zenon, <1>2, RowsAfterLayers
  <2>2. QED
    BY Zenon, <1>1, <2>1 DEF LayerOf
<1>4. ASSUME NEW l \in 1..L
      PROVE  P!RowsAfter(p, c, l)[i] =
               AttendsTo(l, P!RowsAfter(p, c, l - 1)[i], i, Until(p, c, i),
                         P!RowsAfter(p, c, l - 1))
  <2> DEFINE r == P!RowsAfter(p, c, l - 1)
             n == Until(p, c, i)
  <2>1. P!RowsAfter(p, c, l) = LayerOf(p, c, l, r)
    BY Zenon, <1>2, RowsAfterLayers
  <2>2. n \in Nat /\ i \in 1..n /\ n = IF i <= Len(p) THEN i ELSE Len(p \o c)
    BY <1>1 DEF Until
  <2> HIDE DEF r, n
  <2>3. LayerOf(p, c, l, r)[i] = NextRow(p, c, l, r, i)
    BY Zenon, <1>1, <1>2 DEF LayerOf
  <2>4. NextRow(p, c, l, r, i) = P!Attending(l, r[i], i, n, r)
    BY Zenon, <2>2 DEF NextRow
  <2>5. P!Attending(l, r[i], i, n, r) = AttendsTo(l, r[i], i, n, r)
    BY <2>2, AttendingIs
  <2>6. QED
    BY Zenon, <2>1, <2>3, <2>4, <2>5 DEF r, n
<1>5. QED
  BY Zenon, <1>1, <1>3, <1>4 DEF FirstRow, RowAtFirst, RowFollows

(* Rows that two lists agree on up to a position are attended to alike. *)
Alike(l, i, r, h) == AttendsTo(l, r[i], i, i, r) = AttendsTo(l, h[i], i, i, h)

LEMMA AttendsAlike ==
  ASSUME NEW l, NEW i \in Nat \ {0}, NEW r, NEW h, \A j \in 1..i : r[j] = h[j]
  PROVE  Alike(l, i, r, h)
<1> DEFINE u == SeenFrom(l, i)
           w == SeenTo(l, i, i) - SeenFrom(l, i) + 1
<1>1. i \in 1..i
  OBVIOUS
<1>2. u \in 1..i /\ SeenTo(l, i, i) \in i..i
  BY <1>1, SeenIs
<1>3. w = i - u + 1
  BY <1>2
<1> HIDE DEF u, w
<1>4. \A k \in 1..w : u + k - 1 \in 1..i
  BY <1>2, <1>3
<1>5. [k \in 1..w |-> [row |-> r[u + k - 1], pos |-> u + k - 2]] =
      [k \in 1..w |-> [row |-> h[u + k - 1], pos |-> u + k - 2]]
  BY <1>4
<1>6. r[i] = h[i]
  BY <1>1
<1>7. QED
  BY Zenon, <1>5, <1>6 DEF Alike, AttendsTo, u, w

(* A prompt's rows are those of every prompt it begins, and no canvas       *)
(* changes them: a row attends to no later one.                             *)
LEMMA Causal ==
  ASSUME NEW p \in Seq(Nat), NEW c \in Seq(Nat), NEW q \in Seq(Nat),
         Len(q) <= Len(p), \A i \in 1..Len(q) : q[i] = p[i]
  PROVE  \A l \in 0..L : \A i \in 1..Len(q) :
           P!RowsAfter(p, c, l)[i] = P!RowsAfter(q, <<>>, l)[i]
<1>2. PICK none \in Seq(Nat) : none = <<>> /\ Len(none) = 0
  BY EmptySeq
<1> DEFINE n == Len(q)
           Ks == {k \in 0..L : \A i \in 1..n :
                   P!RowsAfter(p, c, k)[i] = P!RowsAfter(q, none, k)[i]}
<1>1. L \in Nat /\ n \in Nat /\ Len(p) \in Nat /\ Len(c) \in Nat
  BY PassesAssumption, LenProperties
<1>3. ASSUME NEW i \in 1..n
      PROVE  /\ i \in 1..(Len(p) + Len(c)) /\ i \in 1..(n + Len(none))
             /\ i <= Len(p) /\ i <= n /\ ~(i > Len(p)) /\ ~(i > n)
             /\ i \in Nat \ {0} /\ \A j \in 1..i : j \in 1..n
  BY <1>1, <1>2
<1>4. 0 \in Ks
  <2>1. ASSUME NEW i \in 1..n
        PROVE  P!RowsAfter(p, c, 0)[i] = P!RowsAfter(q, none, 0)[i]
    <3>1. P!RowsAfter(p, c, 0)[i] =
            P!Embedded(IF i <= Len(p) THEN p[i] ELSE c[i - Len(p)], i > Len(p))
      <4>1. RowAtFirst(p, c, i)
        BY Zenon, <1>3, RowIs
      <4>2. QED
        BY Zenon, <4>1 DEF RowAtFirst
    <3>2. P!RowsAfter(q, none, 0)[i] =
            P!Embedded(IF i <= Len(q) THEN q[i] ELSE none[i - Len(q)], i > Len(q))
      <4>1. RowAtFirst(q, none, i)
        BY Zenon, <1>2, <1>3, RowIs
      <4>2. QED
        BY Zenon, <4>1 DEF RowAtFirst
    <3>3. (i > Len(p)) = FALSE /\ (i > Len(q)) = FALSE
      BY <1>1, <1>3
    <3>4. QED
      BY Zenon, <1>3, <3>1, <3>2, <3>3
  <2>2. 0 \in 0..L
    BY <1>1
  <2>3. QED
    BY Zenon, <2>1, <2>2
<1>5. ASSUME NEW k \in 0..(L - 1), k \in Ks PROVE k + 1 \in Ks
  <2> DEFINE m == k + 1
             r == P!RowsAfter(p, c, k)
             h == P!RowsAfter(q, none, k)
  <2>1. m \in 1..L /\ m \in 0..L /\ m - 1 = k
    BY <1>1
  <2>2. \A i \in 1..n : r[i] = h[i]
    BY Zenon, <1>5
  <2> HIDE DEF m
  <2>3. ASSUME NEW i \in 1..n
        PROVE  P!RowsAfter(p, c, m)[i] = P!RowsAfter(q, none, m)[i]
    <3>1. P!RowsAfter(p, c, m)[i] = AttendsTo(m, r[i], i, i, r)
      <4>1. Until(p, c, i) = i
        BY Zenon, <1>3 DEF Until
      <4>2. QED
        <5>1. RowFollows(p, c, m, i)
          BY Zenon, <1>3, <2>1, RowIs
        <5>2. QED
          BY Zenon, <2>1, <4>1, <5>1 DEF RowFollows
    <3>2. P!RowsAfter(q, none, m)[i] = AttendsTo(m, h[i], i, i, h)
      <4>1. Until(q, none, i) = i
        BY Zenon, <1>3 DEF Until
      <4>2. QED
        <5>1. RowFollows(q, none, m, i)
          BY Zenon, <1>2, <1>3, <2>1, RowIs
        <5>2. QED
          BY Zenon, <2>1, <4>1, <5>1 DEF RowFollows
    <3>3. AttendsTo(m, r[i], i, i, r) = AttendsTo(m, h[i], i, i, h)
      <4> HIDE DEF r, h
      <4>1. \A j \in 1..i : r[j] = h[j]
        BY Zenon, <1>3, <2>2
      <4>2. i \in Nat \ {0}
        BY Zenon, <1>3
      <4>3. QED
        <5>1. Alike(m, i, r, h)
          BY Zenon, <4>1, <4>2, AttendsAlike
        <5>2. QED
          BY Zenon, <5>1 DEF Alike
    <3>4. QED
      BY Zenon, <3>1, <3>2, <3>3
  <2>4. QED
    BY Zenon, <2>1, <2>3 DEF m
<1>6. \A k \in 0..L : k \in Ks
  <2> HIDE DEF Ks
  <2>1. QED
    BY Zenon, <1>1, <1>4, <1>5, InductionTo
<1>7. QED
  BY Zenon, <1>2, <1>6

-----------------------------------------------------------------------------
(* The keys a row attends to, on either side. *)

LEMMA LeastOfTwo ==
  ASSUME NEW u \in Int, NEW v \in Int
  PROVE  P!Min({u, v}) = (IF u <= v THEN u ELSE v) /\ P!Max({u, v}) = (IF u >= v THEN u ELSE v)
<1>1. P!Min({u, v}) = IF u <= v THEN u ELSE v
  <2> DEFINE w == IF u <= v THEN u ELSE v
  <2>1. w \in {u, v} /\ \A j \in {u, v} : w <= j
    OBVIOUS
  <2>2. \A i \in {u, v} : (\A j \in {u, v} : i <= j) => i = w
    OBVIOUS
  <2> HIDE DEF w
  <2>3. (CHOOSE i \in {u, v} : \A j \in {u, v} : i <= j) = w
    BY Zenon, <2>1, <2>2
  <2>4. QED
    BY Zenon, <2>3 DEF P!Min, w
<1>2. P!Max({u, v}) = IF u >= v THEN u ELSE v
  <2> DEFINE w == IF u >= v THEN u ELSE v
  <2>1. w \in {u, v} /\ \A j \in {u, v} : w >= j
    OBVIOUS
  <2>2. \A i \in {u, v} : (\A j \in {u, v} : i >= j) => i = w
    OBVIOUS
  <2> HIDE DEF w
  <2>3. (CHOOSE i \in {u, v} : \A j \in {u, v} : i >= j) = w
    BY Zenon, <2>1, <2>2
  <2>4. QED
    BY Zenon, <2>3 DEF P!Max, w
<1>3. QED
  BY <1>1, <1>2

Shaped ==
  /\ pass.segments \in Nat \ {0} /\ pass.seq \in Nat \ {0} /\ pass.canvas \in BOOLEAN
  /\ layer \in 0..(L - 1)
  /\ \A s \in 1..pass.segments : P!Old(s) \in Nat /\ Listed(P!Cache(s), P!Old(s))

Row(s, t) == (s - 1) * pass.seq + t + 1

LEMMA RowPlace ==
  ASSUME pass.segments \in Nat \ {0}, pass.seq \in Nat \ {0},
         NEW s \in 1..pass.segments, NEW t \in 0..(pass.seq - 1)
  PROVE  Row(s, t) \in 1..P!N /\ P!SegmentOf(Row(s, t)) = s /\ P!Step(Row(s, t)) = t
<1>1. PICK g \in Nat \ {0} : g = pass.segments
  OBVIOUS
<1>2. PICK w \in Nat \ {0} : w = pass.seq
  OBVIOUS
<1>3. s \in 1..g /\ t \in 0..(w - 1)
  BY <1>1, <1>2
<1> DEFINE b == s - 1
           i == b * w + t
<1>4. b \in Nat /\ b < g /\ b + 1 = s
  BY <1>3
<1> HIDE DEF b
<1>5. i \in 0..(g * w - 1)
  BY <1>3, <1>4, PairBelow
<1>6. i \div w = b /\ i % w = t
  BY <1>3, <1>4, DivModOf
<1>7. Row(s, t) = i + 1
  BY <1>2, <1>3 DEF Row, b
<1> HIDE DEF i
<1>8. Row(s, t) \in 1..(g * w) /\ Row(s, t) - 1 = i
  <2>1. g * w \in Nat
    OBVIOUS
  <2>2. QED
    BY <1>5, <1>7, <2>1
<1>9. P!N = g * w
  BY <1>1, <1>2 DEF P!N
<1>10. P!SegmentOf(Row(s, t)) = b + 1 /\ P!Step(Row(s, t)) = t
  BY Zenon, <1>2, <1>6, <1>8 DEF P!SegmentOf, P!Step
<1>11. QED
  BY <1>4, <1>8, <1>9, <1>10

LEMMA RowOf ==
  ASSUME pass.segments \in Nat \ {0}, pass.seq \in Nat \ {0}, NEW i \in 1..P!N
  PROVE  /\ P!SegmentOf(i) \in 1..pass.segments /\ P!Step(i) \in 0..(pass.seq - 1)
         /\ i = Row(P!SegmentOf(i), P!Step(i))
<1>1. PICK g \in Nat \ {0} : g = pass.segments
  OBVIOUS
<1>2. PICK w \in Nat \ {0} : w = pass.seq
  OBVIOUS
<1>3. P!N = g * w /\ g * w \in Nat
  BY <1>1, <1>2 DEF P!N
<1>4. i - 1 \in Nat /\ i - 1 < g * w
  BY <1>3
<1> DEFINE b == (i - 1) \div w
           t == (i - 1) % w
<1>5. b \in Nat /\ t \in 0..(w - 1) /\ i - 1 = b * w + t
  BY Zenon, <1>4, DivMod
<1>6. b \in 0..(g - 1)
  BY <1>4, DivBelow
<1> HIDE DEF b, t
<1>7. P!SegmentOf(i) = b + 1 /\ P!Step(i) = t
  BY Zenon, <1>2 DEF P!SegmentOf, P!Step, b, t
<1>8. b + 1 \in 1..g /\ (b + 1) - 1 = b /\ b * w \in Nat
  BY <1>5, <1>6
<1>9. i = ((b + 1) - 1) * w + t + 1
  <2>1. PICK bw \in Nat : bw = b * w
    BY <1>8
  <2>2. ((b + 1) - 1) * w = bw
    BY Zenon, <1>8, <2>1
  <2>3. QED
    BY <1>5, <2>1, <2>2
<1>10. QED
  BY Zenon, <1>1, <1>2, <1>5, <1>7, <1>8, <1>9 DEF Row

(* How far a row of a segment attends. *)
Ends(old, t) == IF pass.canvas THEN old + pass.seq ELSE old + t + 1

LEMMA SpanIs ==
  ASSUME Shaped, NEW old \in Nat, NEW t \in 0..(pass.seq - 1)
  PROVE  /\ P!Span(old, t)[1] = SeenFrom(layer + 1, old + t + 1) - 1
         /\ P!Span(old, t)[2] = SeenTo(layer + 1, old + t + 1, Ends(old, t))
         /\ P!Span(old, t)[1] \in 0..(old + t)
         /\ P!Span(old, t)[2] \in (old + t + 1)..Ends(old, t)
         /\ Ends(old, t) \in (old + t + 1)..(old + pass.seq)
<1>1. PICK w \in Nat \ {0} : w = pass.seq
  BY DEF Shaped
<1>2. PICK z \in BOOLEAN : z = pass.canvas
  BY DEF Shaped
<1>3. Window \in Nat \ {0}
  BY PassesAssumption
<1> DEFINE pos == old + t
           e == IF z THEN old + w ELSE pos + 1
<1>4. t \in 0..(w - 1) /\ pos \in Nat
  BY <1>1
<1>5. Ends(old, t) = e
  BY Zenon, <1>1, <1>2 DEF Ends
<1>6. e \in (pos + 1)..(old + w)
  BY <1>4
<1>7. P!Span(old, t) =
        IF P!IsFull(layer + 1) THEN <<0, e>>
        ELSE IF z
        THEN <<IF pos >= Window THEN pos - Window + 1 ELSE 0, P!Min({e, pos + Window})>>
        ELSE <<IF e > Window THEN e - Window ELSE 0, e>>
  BY Zenon, <1>1, <1>2 DEF P!Span
<1>8. P!Min({e, pos + Window}) = IF e <= pos + Window THEN e ELSE pos + Window
  <2>1. e \in Int /\ pos + Window \in Int
    BY <1>3, <1>4, <1>6
  <2>2. QED
    BY Zenon, <2>1, LeastOfTwo
<1>9. /\ P!Span(old, t)[1] = SeenFrom(layer + 1, pos + 1) - 1
      /\ P!Span(old, t)[2] = SeenTo(layer + 1, pos + 1, e)
      /\ P!Span(old, t)[1] \in 0..pos
      /\ P!Span(old, t)[2] \in (pos + 1)..e
  <2>1. CASE P!IsFull(layer + 1)
    <3>1. P!Span(old, t)[1] = 0 /\ P!Span(old, t)[2] = e
      BY <1>7, <2>1
    <3>2. SeenFrom(layer + 1, pos + 1) = 1 /\ SeenTo(layer + 1, pos + 1, e) = e
      BY Zenon, <2>1 DEF SeenFrom, SeenTo
    <3>3. QED
      BY <1>4, <1>6, <3>1, <3>2
  <2>2. CASE ~P!IsFull(layer + 1)
    <3>1. /\ SeenFrom(layer + 1, pos + 1) = Most(1, (pos + 1) - Window + 1)
          /\ SeenTo(layer + 1, pos + 1, e) = Least1(e, (pos + 1) + Window - 1)
      BY Zenon, <2>2 DEF SeenFrom, SeenTo
    <3>2. CASE z
      <4>1. /\ P!Span(old, t)[1] = IF pos >= Window THEN pos - Window + 1 ELSE 0
            /\ P!Span(old, t)[2] = IF e <= pos + Window THEN e ELSE pos + Window
        BY <1>7, <1>8, <2>2, <3>2
      <4> HIDE DEF pos, e
      <4>2. QED
        BY <1>3, <1>4, <1>6, <3>1, <4>1 DEF Most, Least1
    <3>3. CASE ~z
      <4>1. P!Span(old, t)[1] = (IF e > Window THEN e - Window ELSE 0) /\ P!Span(old, t)[2] = e
        BY <1>7, <2>2, <3>3
      <4>2. e = pos + 1
        BY Zenon, <3>3
      <4> HIDE DEF pos, e
      <4>3. QED
        BY <1>3, <1>4, <1>6, <3>1, <4>1, <4>2 DEF Most, Least1
    <3>4. QED
      BY Zenon, <3>2, <3>3
  <2>3. QED
    BY Zenon, <2>1, <2>2
<1>10. QED
  BY Zenon, <1>1, <1>5, <1>6, <1>9

(* The key at a position of a segment, cached or the segment's own. *)
KeyOf(s, j) ==
  IF j < P!Old(s) THEN P!Cache(s)[j + 1] ELSE P!Own[Row(s, j - P!Old(s))]

LEMMA KeyCases ==
  ASSUME NEW s, NEW j, NEW old, old = P!Old(s)
  PROVE  /\ j < old => KeyOf(s, j) = P!Cache(s)[j + 1]
         /\ ~(j < old) => KeyOf(s, j) = P!Own[Row(s, j - old)]
BY Zenon DEF KeyOf

Keys(s, t) ==
  [k \in 1..(P!Span(P!Old(s), t)[2] - P!Span(P!Old(s), t)[1]) |->
    KeyOf(s, P!Span(P!Old(s), t)[1] + k - 1)]

(* What a row's span is, in numbers. *)
Spans(s, t, old, start, end) ==
  /\ old = P!Old(s) /\ start = P!Span(old, t)[1] /\ end = P!Span(old, t)[2]
  /\ old \in Nat /\ start \in 0..(old + t) /\ end \in (old + t + 1)..(old + pass.seq)

LEMMA HasSpan ==
  ASSUME Shaped, NEW s \in 1..pass.segments, NEW t \in 0..(pass.seq - 1)
  PROVE  \E old, start, end \in Nat : Spans(s, t, old, start, end)
<1>1. PICK w \in Nat \ {0} : w = pass.seq
  BY DEF Shaped
<1>2. PICK old \in Nat : old = P!Old(s)
  BY DEF Shaped
<1>3. t \in 0..(w - 1)
  BY <1>1
<1>4. /\ P!Span(old, t)[1] \in 0..(old + t)
      /\ P!Span(old, t)[2] \in (old + t + 1)..Ends(old, t)
      /\ Ends(old, t) \in (old + t + 1)..(old + w)
  BY Zenon, <1>1, SpanIs
<1>5. P!Span(old, t)[2] \in (old + t + 1)..(old + w)
  BY <1>3, <1>4
<1>6. P!Span(old, t)[1] \in Nat /\ P!Span(old, t)[2] \in Nat
  BY <1>3, <1>4
<1>7. Spans(s, t, old, P!Span(old, t)[1], P!Span(old, t)[2])
  BY Zenon, <1>1, <1>2, <1>4, <1>5 DEF Spans
<1>8. QED
  BY Zenon, <1>6, <1>7

LEMMA OwnListed ==
  ASSUME Shaped
  PROVE  P!N \in Nat /\ Listed(P!Own, P!N)
<1>1. P!N \in Nat
  <2>1. PICK g \in Nat, w \in Nat : g = pass.segments /\ w = pass.seq
    BY DEF Shaped
  <2>2. g * w \in Nat
    OBVIOUS
  <2>3. QED
    BY <2>1, <2>2 DEF P!N
<1>2. Listed(P!Own, P!N)
  BY DEF P!Own, Listed
<1>3. QED
  BY <1>1, <1>2

LEMMA HostTakes ==
  ASSUME Shaped, NEW s \in 1..pass.segments, NEW t \in 0..(pass.seq - 1)
  PROVE  P!TakenByHost(s, t) = Keys(s, t)
<1>1. PICK old \in Nat, start \in Nat, end \in Nat : Spans(s, t, old, start, end)
  BY Zenon, HasSpan
<1>2. PICK w \in Nat \ {0} : w = pass.seq
  BY DEF Shaped
<1>3. /\ t \in 0..(w - 1) /\ start \in 0..(old + t) /\ end \in (old + t + 1)..(old + w)
      /\ old = P!Old(s) /\ start = P!Span(old, t)[1] /\ end = P!Span(old, t)[2]
  BY Zenon, <1>1, <1>2 DEF Spans
<1> DEFINE fresh == IF start >= old THEN start ELSE old
           b == (s - 1) * w
           first == SubSeq(P!Cache(s), start + 1, old)
           second == SubSeq(P!Own, b + fresh - old + 1, b + fresh - old + end - fresh)
<1>4. b \in Int
  <2>1. s - 1 \in Int
    OBVIOUS
  <2>2. QED
    BY <2>1
<1> HIDE DEF b
<1>5. P!Min({end, old}) = old /\ P!Max({start, old}) = fresh
  <2>0. end \in Int /\ old \in Int /\ start \in Int
    OBVIOUS
  <2>1. ~(end <= old)
    BY <1>3
  <2>2. P!Min({end, old}) = IF end <= old THEN end ELSE old
    BY Zenon, <2>0, LeastOfTwo
  <2>3. P!Max({start, old}) = IF start >= old THEN start ELSE old
    BY Zenon, <2>0, LeastOfTwo DEF fresh
  <2>4. QED
    BY Zenon, <2>1, <2>2, <2>3
<1>6. P!TakenByHost(s, t) = first \o second
  BY Zenon, <1>2, <1>3, <1>5 DEF P!TakenByHost, b
<1> HIDE DEF fresh
<1>7. fresh \in Int /\ fresh = IF start >= old THEN start ELSE old
  BY DEF fresh
<1>8. first = [i \in 1..(old - (start + 1) + 1) |-> P!Cache(s)[start + 1 + i - 1]]
  <2>1. start + 1 \in Int /\ old \in Int
    OBVIOUS
  <2>2. QED
    BY <2>1, ListedSub
<1>9. second = [i \in 1..((b + fresh - old + end - fresh) - (b + fresh - old + 1) + 1) |->
                 P!Own[b + fresh - old + 1 + i - 1]]
  <2>1. b + fresh - old + 1 \in Int /\ b + fresh - old + end - fresh \in Int
    BY <1>4, <1>7
  <2>2. QED
    BY <2>1, ListedSub
<1> DEFINE n == IF start >= old THEN 0 ELSE old - start
           m == end - fresh
<1>10. n \in Nat /\ m \in Nat /\ n + m = end - start
  BY <1>3, <1>7
<1>11. 1..(old - (start + 1) + 1) = 1..n
  OBVIOUS
<1>12. (b + fresh - old + end - fresh) - (b + fresh - old + 1) + 1 = m
  BY <1>4, <1>7
<1> HIDE DEF first, second, m, n
<1>13. Listed(first, n)
  BY Zenon, <1>8, <1>11 DEF Listed
<1>14. Listed(second, m)
  BY Zenon, <1>9, <1>12 DEF Listed
<1>15. first \o second = [i \in 1..(n + m) |-> IF i <= n THEN first[i] ELSE second[i - n]]
  <2>1. JoinedTo(first, n, second, m)
    BY Zenon, <1>10, <1>13, <1>14, ListedConcat
  <2>2. QED
    BY Zenon, <2>1 DEF JoinedTo
<1>16. ASSUME NEW k \in 1..(n + m)
       PROVE  (IF k <= n THEN first[k] ELSE second[k - n]) = KeyOf(s, start + k - 1)
  <2>1. CASE k <= n
    <3>1. k \in 1..(old - (start + 1) + 1) /\ start + 1 + k - 1 = (start + k - 1) + 1
      BY <1>10, <1>11, <2>1
    <3>2. first[k] = P!Cache(s)[(start + k - 1) + 1]
      BY Zenon, <1>8, <3>1
    <3>3. start + k - 1 < old
      BY <3>1
    <3>4. QED
      BY Zenon, <1>3, <2>1, <3>2, <3>3 DEF KeyOf
  <2>2. CASE ~(k <= n)
    <3>1. k - n \in 1..m /\ ~(start + k - 1 < old)
      BY <1>10, <2>2 DEF n
    <3>2. second[k - n] = P!Own[b + fresh - old + 1 + (k - n) - 1]
      BY Zenon, <1>9, <1>12, <3>1
    <3>3. b + fresh - old + 1 + (k - n) - 1 = b + ((start + k - 1) - old) + 1
      BY <1>4, <1>7, <1>10 DEF n
    <3>4. Row(s, (start + k - 1) - old) = b + ((start + k - 1) - old) + 1
      BY Zenon, <1>2 DEF Row, b
    <3>5. second[k - n] = P!Own[Row(s, (start + k - 1) - old)]
      BY Zenon, <3>2, <3>3, <3>4
    <3>6. QED
      <4>1. KeyOf(s, start + k - 1) = P!Own[Row(s, (start + k - 1) - old)]
        BY Zenon, <1>3, <3>1, KeyCases
      <4>2. QED
        BY Zenon, <2>2, <3>5, <4>1
  <2>3. QED
    BY Zenon, <2>1, <2>2
<1>17. Keys(s, t) = [k \in 1..(n + m) |-> KeyOf(s, start + k - 1)]
  BY Zenon, <1>3, <1>10 DEF Keys
<1>18. QED
  BY Zenon, <1>6, <1>15, <1>16, <1>17

LEMMA FirstSharerIs ==
  ASSUME NEW s \in Nat \ {0}
  PROVE  /\ P!FirstSharer(s) \in 1..s
         /\ P!Cache(P!FirstSharer(s)) = P!Cache(s)
         /\ P!FirstSharer(P!FirstSharer(s)) = P!FirstSharer(s)
<1> DEFINE R(i) == {e \in 1..i : pass.cache[e] = pass.cache[i]}
           f == P!FirstSharer(s)
<1>1. ASSUME NEW i \in Nat \ {0}
      PROVE  P!FirstSharer(i) \in R(i) /\ \A e \in R(i) : P!FirstSharer(i) <= e
  <2>1. R(i) \subseteq Nat /\ i \in R(i)
    OBVIOUS
  <2>2. \E e \in R(i) : \A j \in R(i) : e <= j
    <3> HIDE DEF R
    <3>1. R(i) # {}
      BY <2>1
    <3>2. QED
      BY Zenon, <2>1, <3>1, Least
  <2>3. P!FirstSharer(i) = CHOOSE e \in R(i) : \A j \in R(i) : e <= j
    BY Zenon DEF P!FirstSharer, P!Min
  <2> HIDE DEF R
  <2>4. QED
    BY Zenon, <2>2, <2>3
<1>2. f \in 1..s /\ pass.cache[f] = pass.cache[s] /\ \A e \in R(s) : f <= e
  BY <1>1
<1>3. P!Cache(f) = P!Cache(s)
  BY Zenon, <1>2 DEF P!Cache
<1> HIDE DEF f
<1>4. f \in Nat \ {0}
  BY <1>2
<1>5. P!FirstSharer(f) \in 1..f /\ pass.cache[P!FirstSharer(f)] = pass.cache[f]
  BY <1>1, <1>4
<1>6. P!FirstSharer(f) \in R(s)
  BY <1>2, <1>5
<1>7. f <= P!FirstSharer(f)
  BY Zenon, <1>2, <1>6
<1>8. P!FirstSharer(f) = f
  BY <1>4, <1>5, <1>7
<1>9. QED
  BY Zenon, <1>2, <1>3, <1>8 DEF f

UploadedAfter(s, u) ==
  IF s = 0 THEN <<>> ELSE IF P!FirstSharer(s) = s THEN u \o P!Cache(s) ELSE u

Uploads(f, n) == f = [s \in 0..n |-> UploadedAfter(s, f[s - 1])]

LEMMA UploadsExist ==
  ASSUME NEW g \in Nat
  PROVE  \E f : Uploads(f, g)
<1> DEFINE Ks == {k \in 0..g : \E f : Uploads(f, k)}
<1>1. 0 \in Ks
  <2> DEFINE f == [s \in 0..0 |-> <<>>]
  <2>1. \A u : UploadedAfter(0, u) = <<>>
    BY Zenon DEF UploadedAfter
  <2>2. \A s \in 0..0 : s = 0
    OBVIOUS
  <2>3. f = [s \in 0..0 |-> UploadedAfter(s, f[s - 1])]
    <3>1. \A s \in 0..0 : UploadedAfter(s, f[s - 1]) = <<>>
      BY Zenon, <2>1, <2>2
    <3>2. QED
      BY Zenon, <3>1
  <2> HIDE DEF f
  <2>4. Uploads(f, 0)
    BY Zenon, <2>3 DEF Uploads
  <2>5. 0 \in 0..g
    OBVIOUS
  <2>6. QED
    BY Zenon, <2>4, <2>5
<1>2. ASSUME NEW k \in 0..(g - 1), k \in Ks PROVE k + 1 \in Ks
  <2>1. PICK f : Uploads(f, k)
    BY Zenon, <1>2
  <2> DEFINE n == k + 1
             h == [s \in 0..n |-> IF s = n THEN UploadedAfter(n, f[k]) ELSE f[s]]
  <2>2. n \in Nat \ {0} /\ n \in 0..g /\ n - 1 = k /\ k \in 0..n /\ k # n
    OBVIOUS
  <2>3. ASSUME NEW s \in 0..n PROVE h[s] = UploadedAfter(s, h[s - 1])
    <3>1. CASE s = n
      <4>1. h[s] = UploadedAfter(n, f[k]) /\ h[k] = f[k]
        BY Zenon, <2>2, <3>1
      <4>2. QED
        BY Zenon, <2>2, <3>1, <4>1
    <3>2. CASE s # n
      <4>1. s \in 0..k
        BY <2>2, <3>2
      <4>2. h[s] = f[s] /\ f[s] = UploadedAfter(s, f[s - 1])
        BY Zenon, <2>1, <3>2, <4>1 DEF Uploads
      <4>3. CASE s = 0
        <5>1. UploadedAfter(0, f[s - 1]) = UploadedAfter(0, h[s - 1])
          BY Zenon DEF UploadedAfter
        <5>2. QED
          BY Zenon, <4>2, <4>3, <5>1
      <4>4. CASE s # 0
        <5>1. s - 1 \in 0..n /\ s - 1 # n
          BY <2>2, <4>1, <4>4
        <5>2. h[s - 1] = f[s - 1]
          BY Zenon, <5>1
        <5>3. QED
          BY Zenon, <4>2, <5>2
      <4>5. QED
        BY Zenon, <4>3, <4>4
    <3>3. QED
      BY Zenon, <3>1, <3>2
  <2>4. h = [s \in 0..n |-> UploadedAfter(s, h[s - 1])]
    <3>1. h = [s \in 0..n |-> h[s]]
      BY Zenon
    <3> HIDE DEF h
    <3>2. QED
      BY Zenon, <2>3, <3>1
  <2> HIDE DEF h
  <2>5. Uploads(h, n)
    BY Zenon, <2>4 DEF Uploads
  <2>6. QED
    BY Zenon, <2>2, <2>5
<1>3. \A k \in 0..g : k \in Ks
  <2> HIDE DEF Ks
  <2>1. QED
    BY Zenon, <1>1, <1>2, InductionTo
<1>4. g \in Ks
  BY <1>3
<1>5. QED
  BY Zenon, <1>4

LEMMA UploadedIs ==
  ASSUME pass.segments \in Nat
  PROVE  \A s \in 0..pass.segments : P!Uploaded[s] = UploadedAfter(s, P!Uploaded[s - 1])
<1>1. \E f : Uploads(f, pass.segments)
  <2>1. PICK g \in Nat : g = pass.segments
    OBVIOUS
  <2>2. QED
    BY Zenon, <2>1, UploadsExist
<1>2. P!Uploaded = CHOOSE f : Uploads(f, pass.segments)
  BY DEF P!Uploaded, Uploads, UploadedAfter
<1>3. Uploads(P!Uploaded, pass.segments)
  BY Zenon, <1>1, <1>2
<1>4. QED
  BY Zenon, <1>3 DEF Uploads

(* Where a cache has been uploaded to, among n rows. *)
Holds(u, n, b, e) ==
  /\ b \in Nat /\ b + P!Old(e) <= n
  /\ \A j \in 1..P!Old(e) : u[b + j] = P!Cache(e)[j]

UploadedFor(s, n) ==
  /\ n \in Nat /\ Listed(P!Uploaded[s], n)
  /\ \A e \in 1..s : P!FirstSharer(e) = e => Holds(P!Uploaded[s], n, Len(P!Uploaded[e - 1]), e)

LEMMA UploadedHolds ==
  ASSUME Shaped
  PROVE  \A s \in 0..pass.segments : \E n : UploadedFor(s, n)
<1>1. PICK g \in Nat : g = pass.segments
  BY DEF Shaped
<1>2. \A s \in 0..g : P!Uploaded[s] = UploadedAfter(s, P!Uploaded[s - 1])
  BY Zenon, <1>1, UploadedIs
<1>3. \A s \in 1..g : P!Old(s) \in Nat /\ Listed(P!Cache(s), P!Old(s))
  BY <1>1 DEF Shaped
<1> DEFINE Ks == {k \in 0..g : \E n : UploadedFor(k, n)}
<1>4. 0 \in Ks
  <2>1. P!Uploaded[0] = <<>>
    <3>1. 0 \in 0..g
      OBVIOUS
    <3>2. QED
      BY Zenon, <1>2, <3>1 DEF UploadedAfter
  <2>2. Listed(<<>>, 0)
    BY DEF Listed
  <2>3. \A e \in 1..0 : FALSE
    OBVIOUS
  <2>4. UploadedFor(0, 0)
    BY <2>1, <2>2, <2>3 DEF UploadedFor
  <2>5. 0 \in 0..g
    OBVIOUS
  <2>6. QED
    BY Zenon, <2>4, <2>5
<1>5. ASSUME NEW k \in 0..(g - 1), k \in Ks PROVE k + 1 \in Ks
  <2>1. PICK n : UploadedFor(k, n)
    BY Zenon, <1>5
  <2>2. n \in Nat /\ Listed(P!Uploaded[k], n)
    BY Zenon, <2>1 DEF UploadedFor
  <2> DEFINE s == k + 1
             u == P!Uploaded[k]
  <2>3. s \in Nat \ {0} /\ s \in 0..g /\ s \in 1..g /\ s - 1 = k /\ s # 0
    OBVIOUS
  <2>4. \A e \in 1..s : e = s \/ e \in 1..k
    OBVIOUS
  <2> HIDE DEF s
  <2>5. P!Uploaded[s] = IF P!FirstSharer(s) = s THEN u \o P!Cache(s) ELSE u
    BY Zenon, <1>2, <2>3 DEF UploadedAfter
  <2> HIDE DEF Ks
  <2>6. CASE P!FirstSharer(s) = s
    <3> DEFINE v == P!Uploaded[s]
               c == P!Cache(s)
    <3>1. PICK m \in Nat : m = P!Old(s)
      BY Zenon, <1>3, <2>3
    <3>2. Listed(c, m)
      BY Zenon, <1>3, <2>3, <3>1
    <3>3. v = u \o c
      BY Zenon, <2>5, <2>6
    <3> HIDE DEF u, v, c
    <3>4. v = [i \in 1..(n + m) |-> IF i <= n THEN u[i] ELSE c[i - n]]
      <4>1. JoinedTo(u, n, c, m)
        BY Zenon, <2>2, <3>1, <3>2, ListedConcat DEF u
      <4>2. QED
        BY Zenon, <3>3, <4>1 DEF JoinedTo
    <3>5. Listed(v, n + m) /\ n + m \in Nat
      BY <2>2, <3>4 DEF Listed
    <3>6. Len(P!Uploaded[s - 1]) = n
      BY Zenon, <2>2, <2>3, ListedLen
    <3>7. Holds(v, n + m, n, s)
      <4>1. \A j \in 1..m : n + j \in 1..(n + m) /\ ~(n + j <= n) /\ (n + j) - n = j
        BY <2>2
      <4>2. \A j \in 1..m : v[n + j] = c[j]
        BY Zenon, <3>4, <4>1
      <4>3. n + m <= n + m
        BY <2>2
      <4>4. QED
        BY Zenon, <2>2, <3>1, <4>2, <4>3 DEF Holds, c
    <3>8. ASSUME NEW e \in 1..k, P!FirstSharer(e) = e
          PROVE  Holds(v, n + m, Len(P!Uploaded[e - 1]), e)
      <4> DEFINE b == Len(P!Uploaded[e - 1])
      <4>1. Holds(u, n, b, e)
        BY Zenon, <2>1, <3>8 DEF UploadedFor, u
      <4>2. e \in 1..g
        BY <3>8
      <4>3. PICK o \in Nat : o = P!Old(e)
        BY Zenon, <1>3, <4>2
      <4> HIDE DEF b
      <4>4. b \in Nat /\ b + o <= n /\ \A j \in 1..o : u[b + j] = P!Cache(e)[j]
        BY Zenon, <4>1, <4>3 DEF Holds
      <4>5. b + o <= n + m /\ \A j \in 1..o : b + j \in 1..(n + m) /\ b + j <= n
        BY <2>2, <4>4
      <4>6. \A j \in 1..o : v[b + j] = P!Cache(e)[j]
        BY Zenon, <3>4, <4>4, <4>5
      <4>7. QED
        BY Zenon, <4>3, <4>4, <4>5, <4>6 DEF Holds, b
    <3>9. UploadedFor(s, n + m)
      <4>1. \A e \in 1..s : P!FirstSharer(e) = e => Holds(v, n + m, Len(P!Uploaded[e - 1]), e)
        BY Zenon, <2>4, <3>6, <3>7, <3>8
      <4>2. QED
        BY Zenon, <3>5, <4>1 DEF UploadedFor, v
    <3>10. QED
      BY Zenon, <2>3, <3>9 DEF Ks, s
  <2>7. CASE P!FirstSharer(s) # s
    <3>1. P!Uploaded[s] = u
      BY Zenon, <2>5, <2>7
    <3>2. UploadedFor(s, n)
      <4>1. \A e \in 1..k : P!FirstSharer(e) = e => Holds(u, n, Len(P!Uploaded[e - 1]), e)
        BY Zenon, <2>1 DEF UploadedFor
      <4>2. \A e \in 1..s : P!FirstSharer(e) = e => Holds(u, n, Len(P!Uploaded[e - 1]), e)
        BY Zenon, <2>4, <2>7, <4>1
      <4>3. QED
        BY Zenon, <2>2, <3>1, <4>2 DEF UploadedFor
    <3>3. QED
      BY Zenon, <2>3, <3>2 DEF Ks, s
  <2>8. QED
    BY Zenon, <2>6, <2>7
<1>6. \A k \in 0..g : k \in Ks
  <2> HIDE DEF Ks
  <2>1. QED
    BY Zenon, <1>1, <1>4, <1>5, InductionTo
<1>7. QED
  BY Zenon, <1>1, <1>6

LEMMA DeviceTakes ==
  ASSUME Shaped, NEW s \in 1..pass.segments, NEW t \in 0..(pass.seq - 1)
  PROVE  P!TakenByDevice(s, t) = Keys(s, t)
<1>1. PICK old \in Nat, start \in Nat, end \in Nat : Spans(s, t, old, start, end)
  BY Zenon, HasSpan
<1>2. PICK w \in Nat \ {0} : w = pass.seq
  BY DEF Shaped
<1>3. PICK g \in Nat \ {0} : g = pass.segments
  BY DEF Shaped
<1>4. /\ t \in 0..(w - 1) /\ start \in 0..(old + t) /\ end \in (old + t + 1)..(old + w)
      /\ old = P!Old(s) /\ start = P!Span(old, t)[1] /\ end = P!Span(old, t)[2]
  BY Zenon, <1>1, <1>2 DEF Spans
<1>5. g \in 0..g
  OBVIOUS
<1>6. PICK n : UploadedFor(g, n)
  BY Zenon, <1>3, <1>5, UploadedHolds
<1>7. n \in Nat /\ Listed(P!Uploaded[g], n)
  BY Zenon, <1>6 DEF UploadedFor
<1>8. PICK rows \in Nat : rows = P!N /\ Listed(P!Own, rows)
  BY Zenon, OwnListed
<1> DEFINE u == P!Uploaded[g]
           own == P!Own
           r == P!Resident
           f == P!FirstSharer(s)
           b == P!SegmentBase(s)
<1>9. r = u \o own
  BY Zenon, <1>3 DEF P!Resident
<1> HIDE DEF u, own, r
<1>10. r = [i \in 1..(n + rows) |-> IF i <= n THEN u[i] ELSE own[i - n]]
  <2>1. JoinedTo(u, n, own, rows)
    BY Zenon, <1>7, <1>8, ListedConcat DEF u, own
  <2>2. QED
    BY Zenon, <1>9, <2>1 DEF JoinedTo
<1>11. Len(r) - rows = n
  <2>1. Listed(r, n + rows) /\ n + rows \in Nat
    BY <1>7, <1>10 DEF Listed
  <2>2. Len(r) = n + rows
    BY Zenon, <2>1, ListedLen
  <2>3. QED
    BY <1>7, <2>2
<1>12. f \in 1..g /\ P!Cache(f) = P!Cache(s) /\ P!FirstSharer(f) = f
  <2>1. s \in Nat \ {0} /\ \A i \in 1..s : i \in 1..g
    BY <1>3
  <2>2. QED
    BY Zenon, <2>1, FirstSharerIs
<1>13. P!Old(f) = old
  BY Zenon, <1>4, <1>12 DEF P!Old
<1> HIDE DEF f
<1>14. b \in Nat /\ b + old <= n /\ \A j \in 1..old : u[b + j] = P!Cache(s)[j]
  <2>1. Holds(u, n, Len(P!Uploaded[f - 1]), f)
    BY Zenon, <1>6, <1>12 DEF UploadedFor, u
  <2>2. b = Len(P!Uploaded[f - 1])
    BY Zenon DEF P!SegmentBase, f
  <2> HIDE DEF b
  <2>3. QED
    BY Zenon, <1>12, <1>13, <2>1, <2>2 DEF Holds
<1> HIDE DEF b
<1> DEFINE Key(j) == IF j < old THEN b + j ELSE n + (s - 1) * w + (j - old)
<1>15. P!TakenByDevice(s, t) = [k \in 1..(end - start) |-> r[Key(start + k - 1) + 1]]
  BY Zenon, <1>2, <1>4, <1>8, <1>11 DEF P!TakenByDevice, r, b
<1>16. ASSUME NEW j \in Nat, j < end PROVE r[Key(j) + 1] = KeyOf(s, j)
  <2>1. CASE j < old
    <3>1. Key(j) + 1 = b + (j + 1)
      BY <1>14, <2>1
    <3>2. j + 1 \in 1..old /\ b + (j + 1) \in 1..(n + rows) /\ b + (j + 1) <= n
      BY <1>7, <1>14, <2>1
    <3> HIDE DEF Key
    <3>3. r[b + (j + 1)] = P!Cache(s)[j + 1]
      BY Zenon, <1>10, <1>14, <3>2
    <3>4. QED
      BY Zenon, <1>4, <2>1, <3>1, <3>3, KeyCases
  <2>2. CASE ~(j < old)
    <3>1. j - old \in 0..(w - 1)
      BY <1>4, <1>16, <2>2
    <3> DEFINE q == Row(s, j - old)
    <3>2. q \in 1..rows
      BY Zenon, <1>2, <1>3, <1>8, <3>1, RowPlace
    <3>3. PICK sw \in Int : sw = (s - 1) * w
      <4>1. s - 1 \in Int
        BY <1>3
      <4>2. (s - 1) * w \in Int
        BY <4>1
      <4>3. QED
        BY <4>2
    <3>4. Key(j) = n + sw + (j - old)
      BY Zenon, <2>2, <3>3
    <3>5. q = sw + (j - old) + 1
      BY Zenon, <1>2, <3>3 DEF Row
    <3> HIDE DEF Key, q
    <3>6. Key(j) + 1 = n + q /\ n + q \in 1..(n + rows) /\ ~(n + q <= n) /\ (n + q) - n = q
      BY <1>7, <3>2, <3>3, <3>4, <3>5
    <3>7. r[n + q] = own[q]
      BY Zenon, <1>10, <3>6
    <3>8. KeyOf(s, j) = own[q]
      BY Zenon, <1>4, <2>2, KeyCases DEF own, q
    <3>9. QED
      BY Zenon, <3>6, <3>7, <3>8
  <2>3. QED
    BY Zenon, <2>1, <2>2
<1>17. ASSUME NEW k \in 1..(end - start)
       PROVE  r[Key(start + k - 1) + 1] = KeyOf(s, start + k - 1)
  <2>1. start + k - 1 \in Nat /\ start + k - 1 < end
    BY <1>4
  <2> HIDE DEF Key
  <2>2. QED
    BY Zenon, <1>16, <2>1
<1>18. Keys(s, t) = [k \in 1..(end - start) |-> KeyOf(s, start + k - 1)]
  BY Zenon, <1>4 DEF Keys
<1>19. QED
  <2> HIDE DEF Key
  <2>1. QED
    BY Zenon, <1>15, <1>17, <1>18

LEMMA Takes ==
  ASSUME Shaped, NEW s \in 1..pass.segments, NEW t \in 0..(pass.seq - 1)
  PROVE  P!Taken(s, t) = Keys(s, t)
BY Zenon, HostTakes, DeviceTakes DEF P!Taken

-----------------------------------------------------------------------------
(* The invariant. *)

(* The prompt and the canvas of a segment, and how many rows of it are cached. *)
PromptOf(s) == IF pass.canvas THEN docs[canvas[s].doc] ELSE docs[s]
CanvasOf(s) == IF pass.canvas THEN canvas[s].ids ELSE <<>>
Before(s) == IF pass.canvas THEN Len(PromptOf(s)) ELSE Len(PromptOf(s)) - pass.lens[s]

KVOf(p, l) == [i \in 1..Len(p) |-> P!PromptKV(p, l, i)]

(* The prefix cache has the rows of its tokens. *)
PrefixHolds ==
  prefix.ids \in Seq(Nat) /\ \A l \in 1..L : prefix.kv[l] = KVOf(prefix.ids, l)

DocsHave ==
  /\ docs \in Seq(Prompts) /\ DOMAIN kv = 1..Len(docs)
  /\ \A d \in 1..Len(docs) : DOMAIN kv[d] = 1..L

(* Every prompt has its rows. *)
Filled == \A d \in 1..Len(docs) : \A l \in 1..L : kv[d][l] = KVOf(docs[d], l)

PassShape ==
  /\ pass.segments \in Nat \ {0} /\ pass.seq \in Nat \ {0}
  /\ pass.canvas \in BOOLEAN /\ pass.accel \in BOOLEAN
  /\ \A s \in 1..pass.segments : pass.lens[s] \in 1..pass.seq
  /\ layer \in 0..L
  /\ Listed(x, P!N)

Begins(q, p) == \A i \in 1..Len(q) : q[i] = p[i]

(* A segment fills a prompt: from nothing, or after the cached prefix. *)
FillsFrom(s) ==
  \/ pass.cache[s] = 0 /\ pass.lens[s] = Len(docs[s])
  \/ /\ pass.cache[s] = -1 /\ pass.lens[s] = Len(docs[s]) - Len(prefix.ids)
     /\ Begins(prefix.ids, docs[s])

FilledSoFar(d, l) ==
  IF l > layer THEN <<>>
  ELSE [i \in 1..Len(docs[d]) |->
         IF pass.accel /\ i > Before(d) THEN P!Unset ELSE P!PromptKV(docs[d], l, i)]

StagedRows ==
  /\ Listed(kv_out, P!N * layer)
  /\ \A l \in 1..layer : \A s \in 1..pass.segments : \A t \in 0..(pass.lens[s] - 1) :
       kv_out[P!StageOffset(l) + Row(s, t)] = P!PromptKV(docs[s], l, Before(s) + t + 1)

Fills ==
  /\ pass.segments = Len(docs)
  /\ pass.name = "prefill" => Common < Len(docs[1])
  /\ \A s \in 1..pass.segments : FillsFrom(s)
  /\ \A d \in 1..Len(docs) : \A l \in 1..L : kv[d][l] = FilledSoFar(d, l)
  /\ pass.accel => StagedRows

ReadsFrom(s) ==
  /\ canvas[s].doc \in 1..Len(docs) /\ pass.cache[s] = canvas[s].doc
  /\ canvas[s].ids \in Canvases /\ Len(canvas[s].ids) = pass.seq /\ pass.lens[s] = pass.seq

Reads ==
  /\ DOMAIN canvas = 1..pass.segments
  /\ \A s \in 1..pass.segments : ReadsFrom(s)

(* The rows of a pass are those of its segments, each by itself. *)
RowsHold ==
  \A s \in 1..pass.segments : \A t \in 0..(pass.lens[s] - 1) :
    x[Row(s, t)] = P!RowsAfter(PromptOf(s), CanvasOf(s), layer)[Before(s) + t + 1]

PassHolds ==
  pass # P!Idle =>
    PassShape /\ RowsHold /\ (IF pass.canvas THEN Reads ELSE Fills)

Complete == (pass = P!Idle \/ pass.canvas) => Filled

PassesInv == PrefixHolds /\ DocsHave /\ PassHolds /\ Complete

-----------------------------------------------------------------------------
(* The caches of a pass's segments have the rows of their prompts. *)

LEMMA PromptsAre ==
  ASSUME DocsHave, NEW d \in 1..Len(docs)
  PROVE  docs[d] \in Seq(Nat) /\ Len(docs[d]) \in Nat
<1>1. docs[d] \in Prompts
  BY DEF DocsHave
<1>2. docs[d] \in Seq(Nat)
  BY <1>1, PassesAssumption
<1>3. QED
  BY <1>2, LenProperties

(* What segments are of: numbers, tokens. *)
SegmentIs(s) ==
  /\ PromptOf(s) \in Seq(Nat) /\ CanvasOf(s) \in Seq(Nat)
  /\ Len(PromptOf(s)) \in Nat /\ Len(CanvasOf(s)) \in Nat
  /\ Before(s) \in Nat
  /\ pass.lens[s] \in 1..pass.seq
  /\ Before(s) + pass.lens[s] = Len(PromptOf(s)) + Len(CanvasOf(s))
  /\ pass.canvas => Len(CanvasOf(s)) = pass.seq /\ pass.lens[s] = pass.seq /\ Before(s) = Len(PromptOf(s))
  /\ ~pass.canvas => Len(CanvasOf(s)) = 0

LEMMA SegmentsAre ==
  ASSUME PassesInv, pass # P!Idle, NEW s \in 1..pass.segments
  PROVE  SegmentIs(s)
<1>1. PassShape /\ (IF pass.canvas THEN Reads ELSE Fills) /\ DocsHave /\ PrefixHolds
  BY Zenon DEF PassesInv, PassHolds
<1>2. pass.lens[s] \in 1..pass.seq
  BY Zenon, <1>1 DEF PassShape
<1>3. PICK w \in Nat \ {0} : w = pass.seq
  BY <1>1 DEF PassShape
<1>4. PICK n \in 1..w : n = pass.lens[s]
  BY <1>2, <1>3
<1>5. CASE pass.canvas
  <2>1. ReadsFrom(s)
    BY Zenon, <1>1, <1>5 DEF Reads
  <2> DEFINE d == canvas[s].doc
             c == canvas[s].ids
  <2>2. d \in 1..Len(docs) /\ c \in Canvases /\ Len(c) = w /\ n = w
    BY Zenon, <2>1, <1>3, <1>4 DEF ReadsFrom
  <2> HIDE DEF d, c
  <2>3. c \in Seq(Nat)
    BY <2>2, PassesAssumption
  <2>4. docs[d] \in Seq(Nat) /\ Len(docs[d]) \in Nat
    BY Zenon, <1>1, <2>2, PromptsAre
  <2>5. PromptOf(s) = docs[d] /\ CanvasOf(s) = c
    BY Zenon, <1>5 DEF PromptOf, CanvasOf, d, c
  <2>6. Before(s) = Len(docs[d])
    BY Zenon, <1>5, <2>5 DEF Before
  <2>7. QED
    BY Zenon, <1>2, <1>3, <1>4, <1>5, <2>2, <2>3, <2>4, <2>5, <2>6 DEF SegmentIs
<1>6. CASE ~pass.canvas
  <2>1. FillsFrom(s) /\ s \in 1..Len(docs)
    BY Zenon, <1>1, <1>6 DEF Fills
  <2>2. docs[s] \in Seq(Nat) /\ Len(docs[s]) \in Nat
    BY Zenon, <1>1, <2>1, PromptsAre
  <2>3. PromptOf(s) = docs[s] /\ CanvasOf(s) = <<>>
    BY Zenon, <1>6 DEF PromptOf, CanvasOf
  <2>4. Before(s) = Len(docs[s]) - n
    BY Zenon, <1>4, <1>6, <2>3 DEF Before
  <2>5. Len(docs[s]) - n \in Nat
    <3>1. prefix.ids \in Seq(Nat)
      BY Zenon, <1>1 DEF PrefixHolds
    <3>2. PICK m \in Nat : m = Len(prefix.ids)
      BY <3>1, LenProperties
    <3>3. n = Len(docs[s]) \/ n = Len(docs[s]) - m
      BY Zenon, <1>4, <2>1, <3>2 DEF FillsFrom
    <3>4. QED
      BY <2>2, <3>3
  <2>6. <<>> \in Seq(Nat) /\ Len(<<>>) = 0
    BY EmptySeq
  <2>7. (Len(docs[s]) - n) + n = Len(docs[s]) + 0
    BY <1>4, <2>2
  <2>8. /\ Before(s) \in Nat /\ Before(s) + pass.lens[s] = Len(PromptOf(s)) + Len(CanvasOf(s))
    BY Zenon, <1>4, <2>3, <2>4, <2>5, <2>6, <2>7
  <2>9. 0 \in Nat
    OBVIOUS
  <2>10. QED
    BY Zenon, <1>2, <1>6, <2>2, <2>3, <2>6, <2>8, <2>9 DEF SegmentIs
<1>7. QED
  BY Zenon, <1>5, <1>6

(* A layer is still to run. *)
Runs1 == PassesInv /\ pass # P!Idle /\ layer < L

LEMMA LayerIs ==
  ASSUME Runs1
  PROVE  layer \in 0..(L - 1) /\ layer \in 0..L /\ layer + 1 \in 1..L /\ (layer + 1) - 1 = layer
<1>1. layer \in 0..L /\ layer < L
  BY Zenon DEF Runs1, PassesInv, PassHolds, PassShape
<1>2. L \in Nat
  BY PassesAssumption
<1>3. QED
  BY <1>1, <1>2

CacheHolds(s) ==
  P!Cache(s) = [i \in 1..Before(s) |-> P!PromptKV(PromptOf(s), layer + 1, i)]

LEMMA CacheIs ==
  ASSUME Runs1, NEW s \in 1..pass.segments
  PROVE  CacheHolds(s)
<1>1. PassShape /\ (IF pass.canvas THEN Reads ELSE Fills) /\ DocsHave /\ PrefixHolds /\ Complete
  BY Zenon DEF PassesInv, PassHolds, Runs1
<1>2. SegmentIs(s)
  BY Zenon, SegmentsAre DEF Runs1
<1> DEFINE m == layer + 1
<1>3. m \in 1..L /\ layer \in 0..L /\ m - 1 = layer
  BY Zenon, LayerIs
<1> HIDE DEF m
<1>4. CASE pass.canvas
  <2>1. ReadsFrom(s) /\ Filled
    BY Zenon, <1>1, <1>4 DEF Reads, Complete
  <2> DEFINE d == canvas[s].doc
  <2>2. d \in 1..Len(docs) /\ pass.cache[s] = d
    BY Zenon, <2>1 DEF ReadsFrom
  <2> HIDE DEF d
  <2>3. pass.cache[s] # 0 /\ pass.cache[s] # -1
    BY <2>2
  <2>4. P!Cache(s) = kv[d][m]
    BY Zenon, <2>2, <2>3 DEF P!Cache, P!NoCache, P!InPrefix, m
  <2>5. kv[d][m] = KVOf(docs[d], m)
    BY Zenon, <1>3, <2>1, <2>2 DEF Filled
  <2>6. PromptOf(s) = docs[d] /\ Before(s) = Len(docs[d])
    BY Zenon, <1>4 DEF PromptOf, Before, d
  <2>7. QED
    BY Zenon, <2>4, <2>5, <2>6 DEF CacheHolds, KVOf, m
<1>5. CASE ~pass.canvas
  <2>1. FillsFrom(s) /\ s \in 1..Len(docs)
    BY Zenon, <1>1, <1>5 DEF Fills
  <2>2. PromptOf(s) = docs[s] /\ docs[s] \in Seq(Nat) /\ Len(docs[s]) \in Nat /\ CanvasOf(s) = <<>>
    BY Zenon, <1>2, <1>5 DEF PromptOf, CanvasOf, SegmentIs
  <2>3. Before(s) = Len(docs[s]) - pass.lens[s] /\ Before(s) \in Nat
    BY Zenon, <1>2, <1>5, <2>2 DEF Before, SegmentIs
  <2>4. PICK n \in Nat : n = pass.lens[s]
    <3>1. pass.lens[s] \in 1..pass.seq /\ pass.seq \in Nat
      BY <1>1, <1>2 DEF SegmentIs, PassShape
    <3>2. QED
      BY <3>1
  <2>5. CASE pass.cache[s] = 0
    <3>1. n = Len(docs[s])
      <4>1. 0 # -1
        OBVIOUS
      <4>2. QED
        BY Zenon, <2>1, <2>4, <2>5, <4>1 DEF FillsFrom
    <3>2. Before(s) = 0
      BY <2>2, <2>3, <2>4, <3>1
    <3>3. P!Cache(s) = <<>>
      BY Zenon, <2>5 DEF P!Cache, P!NoCache
    <3>4. <<>> = [i \in 1..0 |-> P!PromptKV(PromptOf(s), m, i)]
      OBVIOUS
    <3>5. QED
      BY Zenon, <3>2, <3>3, <3>4 DEF CacheHolds, m
  <2>6. CASE pass.cache[s] # 0
    <3>1. /\ pass.cache[s] = -1 /\ n = Len(docs[s]) - Len(prefix.ids)
          /\ Begins(prefix.ids, docs[s])
      BY Zenon, <2>1, <2>4, <2>6 DEF FillsFrom
    <3> DEFINE q == prefix.ids
    <3>2. q \in Seq(Nat) /\ Len(q) \in Nat /\ prefix.kv[m] = KVOf(q, m)
      BY Zenon, <1>1, <1>3, LenProperties DEF PrefixHolds
    <3>3. Begins(q, docs[s])
      BY Zenon, <3>1
    <3>4. n = Len(docs[s]) - Len(q)
      BY Zenon, <3>1
    <3>5. P!Cache(s) = prefix.kv[m]
      BY Zenon, <2>6, <3>1 DEF P!Cache, P!NoCache, P!InPrefix, m
    <3> HIDE DEF q
    <3>6. Before(s) = Len(q) /\ Len(q) <= Len(docs[s])
      BY <2>2, <2>3, <2>4, <3>2, <3>4
    <3>7. \A i \in 1..Len(q) :
            P!RowsAfter(docs[s], CanvasOf(s), layer)[i] = P!RowsAfter(q, <<>>, layer)[i]
      <4>1. CanvasOf(s) \in Seq(Nat)
        BY Zenon, <1>2 DEF SegmentIs
      <4>2. \A i \in 1..Len(q) : q[i] = docs[s][i]
        BY Zenon, <3>3 DEF Begins
      <4>3. docs[s] \in Seq(Nat)
        BY Zenon, <2>2
      <4>4. \A l \in 0..L : \A i \in 1..Len(q) :
              P!RowsAfter(docs[s], CanvasOf(s), l)[i] = P!RowsAfter(q, <<>>, l)[i]
        BY Zenon, <3>2, <3>6, <4>1, <4>2, <4>3, Causal
      <4>5. QED
        BY Zenon, <1>3, <4>4
    <3>8. \A i \in 1..Len(q) : P!PromptKV(q, m, i) = P!PromptKV(docs[s], m, i)
      BY Zenon, <1>3, <2>2, <3>7 DEF P!PromptKV
    <3>9. KVOf(q, m) = [i \in 1..Len(q) |-> P!PromptKV(docs[s], m, i)]
      BY Zenon, <3>8 DEF KVOf
    <3>10. QED
      BY Zenon, <2>2, <3>2, <3>5, <3>6, <3>9 DEF CacheHolds, m
  <2>7. QED
    BY Zenon, <2>5, <2>6
<1>6. QED
  BY Zenon, <1>4, <1>5

LEMMA ShapedIs ==
  ASSUME Runs1
  PROVE  Shaped /\ \A s \in 1..pass.segments : P!Old(s) = Before(s)
<1>1. PassShape
  BY Zenon DEF PassesInv, PassHolds, Runs1
<1>2. ASSUME NEW s \in 1..pass.segments
      PROVE  P!Old(s) = Before(s) /\ Before(s) \in Nat /\ Listed(P!Cache(s), Before(s))
  <2>1. Before(s) \in Nat
    BY Zenon, SegmentsAre DEF Runs1, SegmentIs
  <2>2. CacheHolds(s)
    BY Zenon, CacheIs
  <2>3. Listed(P!Cache(s), Before(s))
    BY <2>2 DEF CacheHolds, Listed
  <2>4. P!Old(s) = Before(s)
    BY Zenon, <2>1, <2>3, ListedLen DEF P!Old
  <2>5. QED
    BY Zenon, <2>1, <2>3, <2>4
<1>3. layer \in 0..(L - 1)
  BY Zenon, LayerIs
<1>4. QED
  BY Zenon, <1>1, <1>2, <1>3 DEF PassShape, Shaped

-----------------------------------------------------------------------------
(* A layer takes a segment's rows to its rows after the layer. *)

RowsOf(s) == P!RowsAfter(PromptOf(s), CanvasOf(s), layer)

LEMMA KeyIs ==
  ASSUME Runs1, NEW s \in 1..pass.segments, NEW j \in Nat, j < Before(s) + pass.lens[s]
  PROVE  KeyOf(s, j) = [row |-> RowsOf(s)[j + 1], pos |-> j]
<1>1. SegmentIs(s) /\ PassShape /\ RowsHold
  BY Zenon, SegmentsAre DEF Runs1, PassesInv, PassHolds
<1>2. PICK o \in Nat : o = Before(s)
  BY Zenon, <1>1 DEF SegmentIs
<1>3. PICK w \in Nat \ {0} : w = pass.seq
  BY Zenon, <1>1 DEF PassShape
<1>4. PICK n \in 1..w : n = pass.lens[s]
  BY Zenon, <1>1, <1>3 DEF SegmentIs
<1>5. P!Old(s) = o
  BY Zenon, <1>2, ShapedIs
<1>6. layer \in 0..L /\ (layer + 1) - 1 = layer
  BY Zenon, LayerIs
<1>7. j < o + n
  BY Zenon, <1>2, <1>4
<1> DEFINE p == PromptOf(s)
           c == CanvasOf(s)
           rows == RowsOf(s)
<1>8. CASE j < o
  <2>1. KeyOf(s, j) = P!Cache(s)[j + 1]
    BY Zenon, <1>5, <1>8, KeyCases
  <2>2. j + 1 \in 1..o /\ (j + 1) - 1 = j
    BY <1>8
  <2>3. P!Cache(s)[j + 1] = P!PromptKV(p, layer + 1, j + 1)
    <3>1. CacheHolds(s)
      BY Zenon, CacheIs
    <3>2. QED
      BY Zenon, <1>2, <2>2, <3>1 DEF CacheHolds
  <2>4. P!PromptKV(p, layer + 1, j + 1) = [row |-> P!RowsAfter(p, <<>>, layer)[j + 1], pos |-> j]
    BY Zenon, <1>6, <2>2 DEF P!PromptKV
  <2>5. rows[j + 1] = P!RowsAfter(p, <<>>, layer)[j + 1]
    <3>1. /\ p \in Seq(Nat) /\ c \in Seq(Nat) /\ Len(p) \in Nat /\ Len(c) \in Nat
          /\ o + n = Len(p) + Len(c)
          /\ (pass.canvas => o = Len(p)) /\ (~pass.canvas => Len(c) = 0)
      BY Zenon, <1>1, <1>2, <1>4 DEF SegmentIs
    <3>2. j + 1 \in 1..Len(p) /\ Len(p) <= Len(p)
      <4> HIDE DEF p, c
      <4>1. CASE pass.canvas
        BY <2>2, <3>1, <4>1
      <4>2. CASE ~pass.canvas
        <5>1. o + n = Len(p)
          BY <3>1, <4>2
        <5>2. QED
          BY <2>2, <3>1, <5>1
      <4>3. QED
        BY Zenon, <4>1, <4>2
    <3> HIDE DEF p, c
    <3>3. \A i \in 1..Len(p) : p[i] = p[i]
      OBVIOUS
    <3>4. P!RowsAfter(p, c, layer)[j + 1] = P!RowsAfter(p, <<>>, layer)[j + 1]
      BY Zenon, <1>6, <3>1, <3>2, <3>3, Causal
    <3>5. QED
      BY Zenon, <3>4 DEF RowsOf, p, c
  <2>6. QED
    BY Zenon, <2>1, <2>3, <2>4, <2>5
<1>9. CASE ~(j < o)
  <2>1. KeyOf(s, j) = P!Own[Row(s, j - o)]
    BY Zenon, <1>5, <1>9, KeyCases
  <2>2. j - o \in 0..(n - 1) /\ j - o \in 0..(w - 1) /\ o + (j - o) = j /\ o + (j - o) + 1 = j + 1
    BY <1>7, <1>9
  <2> DEFINE t == j - o
             i == Row(s, t)
  <2>3. i \in 1..P!N /\ P!SegmentOf(i) = s /\ P!Step(i) = t
    <3>1. t \in 0..(w - 1)
      BY Zenon, <2>2
    <3> HIDE DEF t
    <3>2. QED
      BY Zenon, <1>1, <1>3, <3>1, RowPlace DEF PassShape
  <2>4. P!Own[i] = [row |-> x[i], pos |-> o + t]
    <3> HIDE DEF i, t
    <3>1. QED
      BY Zenon, <1>5, <2>3 DEF P!Own
  <2>5. x[i] = rows[o + t + 1]
    <3>1. t \in 0..(pass.lens[s] - 1)
      BY Zenon, <1>4, <2>2
    <3> HIDE DEF t
    <3>2. QED
      BY Zenon, <1>1, <1>2, <3>1 DEF RowsHold, RowsOf, i
  <2>6. QED
    BY Zenon, <2>1, <2>2, <2>4, <2>5
<1>10. QED
  BY Zenon, <1>8, <1>9

LEMMA UntilIs ==
  ASSUME Runs1, NEW s \in 1..pass.segments, NEW t \in 0..(pass.lens[s] - 1)
  PROVE  /\ Before(s) + t + 1 \in 1..(Len(PromptOf(s)) + Len(CanvasOf(s)))
         /\ Until(PromptOf(s), CanvasOf(s), Before(s) + t + 1) = Ends(Before(s), t)
         /\ Ends(Before(s), t) <= Before(s) + pass.lens[s]
<1>1. SegmentIs(s) /\ PassShape
  BY Zenon, SegmentsAre DEF Runs1, PassesInv, PassHolds
<1> DEFINE p == Len(PromptOf(s))
           c == Len(CanvasOf(s))
           o == Before(s)
           n == pass.lens[s]
           w == pass.seq
<1>2. /\ p \in Nat /\ c \in Nat /\ o \in Nat /\ w \in Nat \ {0} /\ n \in 1..w /\ o + n = p + c
      /\ (pass.canvas => c = w /\ n = w /\ o = p) /\ (~pass.canvas => c = 0)
      /\ t \in 0..(n - 1)
  BY Zenon, <1>1 DEF SegmentIs, PassShape
<1>3. /\ Ends(o, t) = (IF pass.canvas THEN o + w ELSE o + t + 1)
      /\ Until(PromptOf(s), CanvasOf(s), o + t + 1) =
           (IF o + t + 1 <= p THEN o + t + 1 ELSE p + c)
  BY Zenon DEF Ends, Until
<1> HIDE DEF p, c, o, n, w
<1>4. o + t + 1 \in 1..(p + c)
  BY <1>2
<1>5. Until(PromptOf(s), CanvasOf(s), o + t + 1) = Ends(o, t) /\ Ends(o, t) <= o + n
  <2>1. CASE pass.canvas
    BY <1>2, <1>3, <2>1
  <2>2. CASE ~pass.canvas
    <3>1. c = 0 /\ o + n = p /\ o + t + 1 <= p
      BY <1>2, <2>2
    <3>2. QED
      BY <1>2, <1>3, <2>2, <3>1
  <2>3. QED
    BY Zenon, <2>1, <2>2
<1>6. QED
  BY Zenon, <1>4, <1>5 DEF p, c, o, n

LEMMA RowStep ==
  ASSUME Runs1, NEW s \in 1..pass.segments, NEW t \in 0..(pass.lens[s] - 1)
  PROVE  P!Mixed(x[Row(s, t)], P!Own[Row(s, t)].pos, P!Taken(s, t)) =
           P!RowsAfter(PromptOf(s), CanvasOf(s), layer + 1)[Before(s) + t + 1]
<1>1. SegmentIs(s) /\ PassShape /\ RowsHold
  BY Zenon, SegmentsAre DEF Runs1, PassesInv, PassHolds
<1>2. PICK o \in Nat : o = Before(s)
  BY Zenon, <1>1 DEF SegmentIs
<1>3. PICK w \in Nat \ {0} : w = pass.seq
  BY Zenon, <1>1 DEF PassShape
<1>4. PICK n \in 1..w : n = pass.lens[s]
  BY Zenon, <1>1, <1>3 DEF SegmentIs
<1>5. t \in 0..(n - 1) /\ t \in 0..(w - 1)
  BY <1>4
<1>6. P!Old(s) = o /\ Shaped
  BY Zenon, <1>2, ShapedIs
<1> DEFINE p == PromptOf(s)
           c == CanvasOf(s)
           m == layer + 1
           i == o + t + 1
           e == Ends(o, t)
           rows == RowsOf(s)
<1>7. m \in 1..L /\ m - 1 = layer
  BY Zenon, LayerIs
<1>8. i \in 1..(Len(p) + Len(c)) /\ Until(p, c, i) = e /\ e <= o + n
  BY Zenon, <1>2, <1>4, UntilIs
<1>9. P!RowsAfter(p, c, m)[i] = AttendsTo(m, rows[i], i, e, rows)
  <2>1. p \in Seq(Nat) /\ c \in Seq(Nat)
    BY Zenon, <1>1 DEF SegmentIs
  <2>2. rows = P!RowsAfter(p, c, layer)
    BY Zenon DEF RowsOf
  <2> HIDE DEF p, c, m, i, e, rows
  <2>3. RowFollows(p, c, m, i)
    BY Zenon, <1>7, <1>8, <2>1, RowIs
  <2>4. QED
    BY Zenon, <1>7, <1>8, <2>2, <2>3 DEF RowFollows
<1> DEFINE from == SeenFrom(m, i)
           to == SeenTo(m, i, e)
<1>10. /\ P!Span(o, t)[1] = from - 1 /\ P!Span(o, t)[2] = to
       /\ P!Span(o, t)[1] \in 0..(o + t)
       /\ P!Span(o, t)[2] \in (o + t + 1)..e
  BY Zenon, <1>3, <1>5, <1>6, SpanIs
<1>11. i - 1 = o + t
  BY <1>5
<1>12. AttendsTo(m, rows[i], i, e, rows) =
         P!Mixed(rows[i], o + t,
           [k \in 1..(to - from + 1) |-> [row |-> rows[from + k - 1], pos |-> from + k - 2]])
  BY Zenon, <1>11 DEF AttendsTo
<1> HIDE DEF from, to
<1>13. from \in Int /\ to \in Int /\ to - from + 1 = to - (from - 1) /\ from >= 1 /\ to <= o + n
  <2>1. SeenFrom(m, i) \in Int
    <3>1. Window \in Nat
      BY PassesAssumption
    <3>2. i \in Int
      BY <1>5
    <3> HIDE DEF m, i
    <3>3. QED
      BY <3>1, <3>2 DEF SeenFrom, Most
  <2>2. e \in Int
    BY <1>3, <1>5 DEF Ends
  <2> HIDE DEF i, e, m
  <2>3. QED
    BY <1>5, <1>8, <1>10, <2>1, <2>2 DEF from
<1>14. P!Taken(s, t) = [k \in 1..(to - from + 1) |-> KeyOf(s, (from - 1) + k - 1)]
  <2>1. P!Taken(s, t) = Keys(s, t)
    BY Zenon, <1>3, <1>5, <1>6, Takes
  <2>2. Keys(s, t) = [k \in 1..(to - (from - 1)) |-> KeyOf(s, (from - 1) + k - 1)]
    BY Zenon, <1>6, <1>10 DEF Keys
  <2>3. QED
    BY Zenon, <1>13, <2>1, <2>2
<1>15. ASSUME NEW k \in 1..(to - from + 1)
       PROVE  KeyOf(s, (from - 1) + k - 1) = [row |-> rows[from + k - 1], pos |-> from + k - 2]
  <2> DEFINE j == (from - 1) + k - 1
  <2>1. j \in Nat /\ j < o + n /\ j + 1 = from + k - 1 /\ j = from + k - 2
    BY <1>13
  <2> HIDE DEF j
  <2>2. KeyOf(s, j) = [row |-> rows[j + 1], pos |-> j]
    BY Zenon, <1>2, <1>4, <2>1, KeyIs
  <2>3. QED
    BY Zenon, <2>1, <2>2 DEF j
<1>16. P!Taken(s, t) =
         [k \in 1..(to - from + 1) |-> [row |-> rows[from + k - 1], pos |-> from + k - 2]]
  BY Zenon, <1>14, <1>15
<1>17. x[Row(s, t)] = rows[i]
  BY Zenon, <1>1, <1>2 DEF RowsHold, RowsOf
<1>18. P!Own[Row(s, t)].pos = o + t
  <2>1. Row(s, t) \in 1..P!N /\ P!SegmentOf(Row(s, t)) = s /\ P!Step(Row(s, t)) = t
    BY Zenon, <1>1, <1>3, <1>5, RowPlace DEF PassShape
  <2>2. P!Own[Row(s, t)] = [row |-> x[Row(s, t)], pos |-> o + t]
    BY Zenon, <1>6, <2>1 DEF P!Own
  <2>3. QED
    BY <2>2
<1>19. QED
  BY Zenon, <1>2, <1>9, <1>12, <1>16, <1>17, <1>18

-----------------------------------------------------------------------------
(* The rows a filling layer leaves. *)

LEMMA OwnIs ==
  ASSUME Runs1, ~pass.canvas, NEW s \in 1..pass.segments, NEW t \in 0..(pass.lens[s] - 1)
  PROVE  P!Own[Row(s, t)] = P!PromptKV(docs[s], layer + 1, Before(s) + t + 1)
<1>1. SegmentIs(s) /\ PassShape
  BY Zenon, SegmentsAre DEF Runs1, PassesInv, PassHolds
<1>2. PICK o \in Nat : o = Before(s)
  BY Zenon, <1>1 DEF SegmentIs
<1>3. PICK n \in Nat : n = pass.lens[s]
  <2>1. pass.lens[s] \in 1..pass.seq /\ pass.seq \in Nat
    BY <1>1 DEF SegmentIs, PassShape
  <2>2. QED
    BY <2>1
<1>4. t \in 0..(n - 1)
  BY <1>3
<1> DEFINE j == o + t
<1>5. j \in Nat /\ j < o + n /\ ~(j < o) /\ j - o = t /\ (j + 1) - 1 = j
  BY <1>4
<1>6. P!Old(s) = o
  BY Zenon, <1>2, ShapedIs
<1> HIDE DEF j
<1>7. KeyOf(s, j) = [row |-> RowsOf(s)[j + 1], pos |-> j]
  BY Zenon, <1>2, <1>3, <1>5, KeyIs
<1>8. KeyOf(s, j) = P!Own[Row(s, t)]
  BY Zenon, <1>5, <1>6, KeyCases
<1>9. RowsOf(s) = P!RowsAfter(docs[s], <<>>, layer)
  BY Zenon DEF RowsOf, PromptOf, CanvasOf
<1>10. (layer + 1) - 1 = layer
  BY Zenon, LayerIs
<1>11. P!PromptKV(docs[s], layer + 1, j + 1) = [row |-> RowsOf(s)[j + 1], pos |-> j]
  BY Zenon, <1>5, <1>9, <1>10 DEF P!PromptKV
<1>12. j + 1 = o + t + 1
  BY <1>4 DEF j
<1>13. QED
  BY Zenon, <1>2, <1>7, <1>8, <1>11, <1>12

WrittenAs(s) ==
  P!Written(s) =
    [i \in 1..Len(docs[s]) |->
      IF pass.accel /\ i > Before(s) THEN P!Unset ELSE P!PromptKV(docs[s], layer + 1, i)]

LEMMA WrittenIs ==
  ASSUME Runs1, ~pass.canvas, NEW s \in 1..pass.segments
  PROVE  WrittenAs(s)
<1>1. SegmentIs(s) /\ PassShape /\ CacheHolds(s)
  BY Zenon, SegmentsAre, CacheIs DEF Runs1, PassesInv, PassHolds
<1>2. PICK o \in Nat : o = Before(s)
  BY Zenon, <1>1 DEF SegmentIs
<1>3. PICK w \in Nat \ {0} : w = pass.seq
  BY Zenon, <1>1 DEF PassShape
<1>4. PICK n \in 1..w : n = pass.lens[s]
  BY Zenon, <1>1, <1>3 DEF SegmentIs
<1>5. PromptOf(s) = docs[s] /\ o + n = Len(docs[s])
  <2>1. PromptOf(s) = docs[s]
    BY Zenon DEF PromptOf
  <2>2. o + n = Len(docs[s]) + 0 /\ Len(docs[s]) \in Nat
    BY Zenon, <1>1, <1>2, <1>4, <2>1 DEF SegmentIs
  <2>3. QED
    BY <2>1, <2>2
<1> DEFINE m == layer + 1
           c == P!Cache(s)
           f == P!OwnRows(P!Own, s)
           h == IF pass.accel THEN [i \in 1..n |-> P!Unset] ELSE f
<1>6. c = [i \in 1..o |-> P!PromptKV(docs[s], m, i)]
  BY Zenon, <1>1, <1>2, <1>5 DEF CacheHolds
<1>7. f = [i \in 1..n |-> P!PromptKV(docs[s], m, o + i)]
  <2>1. PICK b \in Int : b = (s - 1) * w
    <3>1. s - 1 \in Int /\ w \in Int
      BY <1>1 DEF PassShape
    <3>2. (s - 1) * w \in Int
      BY <3>1
    <3>3. QED
      BY <3>2
  <2>2. f = SubSeq(P!Own, b + 1, b + n)
    BY Zenon, <1>3, <1>4, <2>1 DEF P!OwnRows
  <2> HIDE DEF f
  <2>3. f = [i \in 1..((b + n) - (b + 1) + 1) |-> P!Own[b + 1 + i - 1]]
    BY <2>2, ListedSub
  <2>4. (b + n) - (b + 1) + 1 = n
    BY <2>1
  <2>5. ASSUME NEW i \in 1..n PROVE P!Own[b + 1 + i - 1] = P!PromptKV(docs[s], m, o + i)
    <3>1. i - 1 \in 0..(n - 1) /\ o + (i - 1) + 1 = o + i /\ b + 1 + i - 1 = b + (i - 1) + 1
      BY <2>1
    <3>2. P!Own[Row(s, i - 1)] = P!PromptKV(docs[s], m, o + (i - 1) + 1)
      BY Zenon, <1>2, <1>4, <3>1, OwnIs
    <3>3. Row(s, i - 1) = b + (i - 1) + 1
      BY Zenon, <1>3, <2>1 DEF Row
    <3>4. QED
      BY Zenon, <3>1, <3>2, <3>3
  <2>6. QED
    BY Zenon, <2>3, <2>4, <2>5
<1>8. P!Written(s) = c \o h
  BY Zenon, <1>4 DEF P!Written
<1> HIDE DEF m, c, f
<1>9. Listed(c, o)
  BY <1>6 DEF Listed
<1>10. Listed(h, n)
  <2>1. Listed([i \in 1..n |-> P!Unset], n) /\ Listed(f, n)
    BY <1>7 DEF Listed
  <2>2. QED
    BY Zenon, <2>1
<1>11. \A i \in 1..n : h[i] = IF pass.accel THEN P!Unset ELSE P!PromptKV(docs[s], m, o + i)
  BY Zenon, <1>7
<1> HIDE DEF h
<1>12. c \o h = [i \in 1..(o + n) |-> IF i <= o THEN c[i] ELSE h[i - o]]
  <2>1. n \in Nat
    OBVIOUS
  <2>2. JoinedTo(c, o, h, n)
    BY Zenon, <1>9, <1>10, <2>1, ListedConcat
  <2>3. QED
    BY Zenon, <2>2 DEF JoinedTo
<1>13. ASSUME NEW i \in 1..(o + n)
       PROVE  (IF i <= o THEN c[i] ELSE h[i - o]) =
                IF pass.accel /\ i > o THEN P!Unset ELSE P!PromptKV(docs[s], m, i)
  <2>1. CASE i <= o
    <3>1. i \in 1..o /\ ~(i > o)
      BY <2>1
    <3>2. c[i] = P!PromptKV(docs[s], m, i)
      BY Zenon, <1>6, <3>1
    <3>3. QED
      BY Zenon, <2>1, <3>1, <3>2
  <2>2. CASE ~(i <= o)
    <3>1. i - o \in 1..n /\ i > o /\ o + (i - o) = i
      BY <2>2
    <3>2. h[i - o] = IF pass.accel THEN P!Unset ELSE P!PromptKV(docs[s], m, i)
      BY Zenon, <1>11, <3>1
    <3>3. QED
      BY Zenon, <2>2, <3>1, <3>2
  <2>3. QED
    BY Zenon, <2>1, <2>2
<1>14. c \o h = [i \in 1..(o + n) |->
                  IF pass.accel /\ i > o THEN P!Unset ELSE P!PromptKV(docs[s], m, i)]
  BY Zenon, <1>12, <1>13
<1>15. QED
  BY Zenon, <1>2, <1>5, <1>8, <1>14 DEF WrittenAs, m

LEMMA SamePass ==
  ASSUME UNCHANGED <<docs, canvas, pass>>
  PROVE  /\ \A s : PromptOf(s)' = PromptOf(s) /\ CanvasOf(s)' = CanvasOf(s) /\ Before(s)' = Before(s)
         /\ \A s, t : Row(s, t)' = Row(s, t)
         /\ P!N' = P!N /\ \A l : P!StageOffset(l)' = P!StageOffset(l)
<1>1. docs' = docs /\ canvas' = canvas /\ pass' = pass
  OBVIOUS
<1>2. \A s : PromptOf(s)' = PromptOf(s) /\ CanvasOf(s)' = CanvasOf(s)
  BY <1>1 DEF PromptOf, CanvasOf
<1>3. \A s : Before(s)' = Before(s)
  BY <1>1 DEF Before, PromptOf
<1>4. \A s, t : Row(s, t)' = Row(s, t)
  BY <1>1 DEF Row
<1>5. P!N' = P!N
  BY <1>1 DEF P!N
<1>6. \A l : P!StageOffset(l)' = P!StageOffset(l)
  BY <1>1 DEF P!StageOffset, P!N
<1>7. QED
  BY Zenon, <1>2, <1>3, <1>4, <1>5, <1>6

LEMMA StagedGrows ==
  ASSUME Runs1, ~pass.canvas, StagedRows, UNCHANGED <<docs, canvas, pass>>,
         kv_out' = kv_out \o P!Own, layer' = layer + 1
  PROVE  StagedRows'
<1>1. PassShape
  BY Zenon DEF Runs1, PassesInv, PassHolds
<1>2. PICK n \in Nat : n = P!N /\ Listed(P!Own, n)
  BY Zenon, ShapedIs, OwnListed
<1>3. PICK m \in Nat : m = layer
  <2>1. layer \in 0..L /\ L \in Nat
    BY <1>1, PassesAssumption DEF PassShape
  <2>2. QED
    BY <2>1
<1>4. PICK a \in Nat : a = n * m
  <2>1. n * m \in Nat
    OBVIOUS
  <2>2. QED
    BY <2>1
<1>5. a + n = n * (m + 1)
  <2>1. n * (m + 1) = n * m + n
    OBVIOUS
  <2>2. QED
    BY <1>4, <2>1
<1>6. Listed(kv_out, a)
  BY Zenon, <1>2, <1>3, <1>4 DEF StagedRows
<1>7. kv_out' = [i \in 1..(a + n) |-> IF i <= a THEN kv_out[i] ELSE P!Own[i - a]]
  <2>1. JoinedTo(kv_out, a, P!Own, n)
    BY Zenon, <1>2, <1>4, <1>6, ListedConcat
  <2>2. QED
    BY Zenon, <2>1 DEF JoinedTo
<1>8. /\ pass' = pass /\ docs' = docs /\ P!N' = n /\ layer' = m + 1
      /\ \A s, t : Row(s, t)' = Row(s, t)
      /\ \A l : P!StageOffset(l)' = P!StageOffset(l)
      /\ \A s : Before(s)' = Before(s)
  <2>1. UNCHANGED <<docs, canvas, pass>>
    OBVIOUS
  <2>2. QED
    BY Zenon, <1>2, <1>3, <2>1, SamePass
<1>9. Listed(kv_out', a + n)
  BY <1>7 DEF Listed
<1>10. ASSUME NEW l \in 1..(m + 1), NEW s \in 1..pass.segments, NEW t \in 0..(pass.lens[s] - 1)
       PROVE  kv_out'[P!StageOffset(l) + Row(s, t)] = P!PromptKV(docs[s], l, Before(s) + t + 1)
  <2>1. SegmentIs(s)
    BY Zenon, SegmentsAre DEF Runs1
  <2>2. t \in 0..(pass.seq - 1)
    <3>1. pass.lens[s] \in 1..pass.seq /\ pass.seq \in Nat
      BY <1>1, <2>1 DEF SegmentIs, PassShape
    <3>2. QED
      BY <3>1
  <2>3. PICK q \in 1..n : q = Row(s, t)
    <3>1. Row(s, t) \in 1..P!N
      BY Zenon, <1>1, <2>2, RowPlace DEF PassShape
    <3>2. QED
      BY <1>2, <3>1
  <2>4. P!StageOffset(l) = n * (l - 1)
    BY Zenon, <1>2 DEF P!StageOffset
  <2>5. CASE l = m + 1
    <3>1. (m + 1) - 1 = m
      OBVIOUS
    <3>2. P!StageOffset(l) = a
      BY Zenon, <1>4, <2>4, <2>5, <3>1
    <3>3. a + q \in 1..(a + n) /\ ~(a + q <= a) /\ (a + q) - a = q
      BY <2>3
    <3>4. kv_out'[a + q] = P!Own[q]
      BY Zenon, <1>7, <3>3
    <3>5. P!Own[Row(s, t)] = P!PromptKV(docs[s], layer + 1, Before(s) + t + 1)
      BY Zenon, OwnIs
    <3>6. QED
      BY Zenon, <1>3, <2>3, <2>5, <3>2, <3>4, <3>5
  <2>6. CASE l # m + 1
    <3>1. l \in 1..m /\ l - 1 \in Nat /\ l - 1 < m
      BY <2>6
    <3>2. PICK b \in Nat : b = n * (l - 1)
      <4>1. n * (l - 1) \in Nat
        BY <3>1
      <4>2. QED
        BY <4>1
    <3>3. b + q \in 1..a
      <4>1. n \in Nat \ {0} /\ q - 1 \in 0..(n - 1)
        BY <2>3
      <4> DEFINE v == (l - 1) * n + (q - 1)
      <4>2. v \in 0..(m * n - 1)
        BY <3>1, <4>1, PairBelow
      <4>3. m * n = a /\ (l - 1) * n = b
        BY <1>4, <3>1, <3>2
      <4>4. v = b + (q - 1)
        BY Zenon, <4>3
      <4> HIDE DEF v
      <4>5. v \in 0..(a - 1)
        BY Zenon, <4>2, <4>3
      <4>6. QED
        BY <4>4, <4>5
    <3>4. b + q \in 1..(a + n) /\ b + q <= a
      BY <3>3
    <3>5. kv_out'[b + q] = kv_out[b + q]
      BY Zenon, <1>7, <3>4
    <3>6. kv_out[P!StageOffset(l) + Row(s, t)] = P!PromptKV(docs[s], l, Before(s) + t + 1)
      BY Zenon, <1>3, <3>1 DEF StagedRows
    <3>7. QED
      BY Zenon, <2>3, <2>4, <3>2, <3>5, <3>6
  <2>7. QED
    BY Zenon, <2>5, <2>6
<1>11. Listed(kv_out', P!N' * layer')
  BY Zenon, <1>5, <1>8, <1>9
<1>12. \A l \in 1..layer' : \A s \in 1..pass'.segments : \A t \in 0..(pass'.lens[s] - 1) :
          kv_out'[P!StageOffset(l)' + Row(s, t)'] = P!PromptKV(docs'[s], l, Before(s)' + t + 1)
  <2>1. ASSUME NEW l \in 1..layer', NEW s \in 1..pass'.segments, NEW t \in 0..(pass'.lens[s] - 1)
        PROVE  kv_out'[P!StageOffset(l)' + Row(s, t)'] = P!PromptKV(docs'[s], l, Before(s)' + t + 1)
    <3>1. l \in 1..(m + 1) /\ s \in 1..pass.segments /\ t \in 0..(pass.lens[s] - 1)
      BY Zenon, <1>8
    <3>2. kv_out'[P!StageOffset(l) + Row(s, t)] = P!PromptKV(docs[s], l, Before(s) + t + 1)
      BY Zenon, <1>10, <3>1
    <3>3. P!StageOffset(l)' = P!StageOffset(l) /\ Row(s, t)' = Row(s, t) /\ Before(s)' = Before(s)
      BY Zenon, <1>8
    <3>4. docs'[s] = docs[s]
      BY Zenon, <1>8
    <3>5. QED
      BY Zenon, <3>2, <3>3, <3>4
  <2>2. QED
    BY Zenon, <2>1
<1>13. QED
  BY Zenon, <1>11, <1>12 DEF StagedRows

LEMMA LayerHolds ==
  ASSUME PassesInv, P!Layer
  PROVE  PassesInv'
<1>1. Runs1
  BY Zenon DEF Runs1, P!Layer
<1>2. /\ PassShape /\ RowsHold /\ (IF pass.canvas THEN Reads ELSE Fills)
      /\ DocsHave /\ PrefixHolds /\ Complete
  BY Zenon, <1>1 DEF PassesInv, PassHolds, Runs1
<1>3. /\ x' = [i \in 1..P!N |-> P!Mixed(x[i], P!Own[i].pos, P!Taken(P!SegmentOf(i), P!Step(i)))]
      /\ kv' = (IF pass.canvas THEN kv
                ELSE [d \in DOMAIN kv |-> [kv[d] EXCEPT ![layer + 1] = P!Written(d)]])
      /\ kv_out' = (IF pass.accel /\ ~pass.canvas THEN kv_out \o P!Own ELSE kv_out)
      /\ layer' = layer + 1
      /\ prefix' = prefix /\ docs' = docs /\ canvas' = canvas /\ pass' = pass
  BY Zenon DEF P!Layer
<1>4. /\ \A s : PromptOf(s)' = PromptOf(s) /\ CanvasOf(s)' = CanvasOf(s) /\ Before(s)' = Before(s)
      /\ \A s, t : Row(s, t)' = Row(s, t)
      /\ P!N' = P!N
  <2>1. UNCHANGED <<docs, canvas, pass>>
    BY <1>3
  <2>2. QED
    BY Zenon, <2>1, SamePass
<1>5. layer + 1 \in 1..L /\ layer + 1 \in 0..L /\ layer \in 0..L /\ layer \in Nat
  <2>1. layer + 1 \in 1..L /\ layer \in 0..L
    BY Zenon, <1>1, LayerIs
  <2>2. L \in Nat
    BY PassesAssumption
  <2>3. QED
    BY <2>1, <2>2
<1>6. PrefixHolds'
  BY Zenon, <1>2, <1>3 DEF PrefixHolds, KVOf
<1>7. DocsHave'
  <2>1. DOMAIN kv' = DOMAIN kv
    BY <1>3
  <2>2. \A d \in DOMAIN kv : DOMAIN kv'[d] = DOMAIN kv[d]
    BY <1>3
  <2>3. QED
    BY Zenon, <1>2, <1>3, <2>1, <2>2 DEF DocsHave
<1>8. PassShape'
  <2>1. Listed(x', P!N)
    BY <1>3 DEF Listed
  <2>2. QED
    BY Zenon, <1>2, <1>3, <1>4, <1>5, <2>1 DEF PassShape
<1>9. RowsHold'
  <2>1. ASSUME NEW s \in 1..pass.segments, NEW t \in 0..(pass.lens[s] - 1)
        PROVE  x'[Row(s, t)] = P!RowsAfter(PromptOf(s), CanvasOf(s), layer + 1)[Before(s) + t + 1]
    <3>1. t \in 0..(pass.seq - 1)
      <4>1. pass.lens[s] \in 1..pass.seq /\ pass.seq \in Nat
        BY <1>2 DEF PassShape
      <4>2. QED
        BY <4>1
    <3>2. Row(s, t) \in 1..P!N /\ P!SegmentOf(Row(s, t)) = s /\ P!Step(Row(s, t)) = t
      BY Zenon, <1>2, <3>1, RowPlace DEF PassShape
    <3>3. x'[Row(s, t)] = P!Mixed(x[Row(s, t)], P!Own[Row(s, t)].pos, P!Taken(s, t))
      BY Zenon, <1>3, <3>2
    <3>4. QED
      BY Zenon, <1>1, <3>3, RowStep
  <2>2. QED
    BY Zenon, <1>3, <1>4, <2>1 DEF RowsHold
<1>10. CASE pass.canvas
  <2>1. Reads'
    <3>1. Reads
      BY Zenon, <1>2, <1>10
    <3>2. QED
      BY Zenon, <1>3, <3>1 DEF Reads, ReadsFrom
  <2>2. Filled'
    <3>1. Filled /\ kv' = kv
      BY Zenon, <1>2, <1>3, <1>10 DEF Complete
    <3>2. docs' = docs
      BY Zenon, <1>3
    <3>3. QED
      BY Zenon, <3>1, <3>2 DEF Filled
  <2>3. PassHolds'
    BY Zenon, <1>3, <1>8, <1>9, <1>10, <2>1 DEF PassHolds
  <2>4. QED
    BY Zenon, <1>6, <1>7, <2>2, <2>3 DEF PassesInv, Complete
<1>11. CASE ~pass.canvas
  <2>1. Fills /\ pass # P!Idle
    BY Zenon, <1>1, <1>2, <1>11 DEF Runs1
  <2>2. ASSUME NEW d \in 1..Len(docs), NEW l \in 1..L
        PROVE  kv'[d][l] = FilledSoFar(d, l)'
    <3>1. d \in 1..pass.segments /\ d \in DOMAIN kv /\ DOMAIN kv[d] = 1..L
      BY Zenon, <1>2, <2>1 DEF Fills, DocsHave
    <3>2. kv'[d] = [kv[d] EXCEPT ![layer + 1] = P!Written(d)]
      BY Zenon, <1>3, <1>11, <3>1
    <3>3. FilledSoFar(d, l)' =
            IF l > layer + 1 THEN <<>>
            ELSE [i \in 1..Len(docs[d]) |->
                   IF pass.accel /\ i > Before(d) THEN P!Unset ELSE P!PromptKV(docs[d], l, i)]
      <4>1. P!Unset' = P!Unset
        BY Zenon DEF P!Unset
      <4>2. QED
        BY Zenon, <1>3, <1>4, <4>1 DEF FilledSoFar
    <3>4. CASE l = layer + 1
      <4>1. kv'[d][l] = P!Written(d)
        BY Zenon, <1>5, <3>1, <3>2, <3>4
      <4>2. WrittenAs(d)
        BY Zenon, <1>1, <1>11, <3>1, WrittenIs
      <4>3. ~(l > layer + 1)
        BY <1>5, <3>4
      <4>4. QED
        BY Zenon, <3>3, <3>4, <4>1, <4>2, <4>3 DEF WrittenAs
    <3>5. CASE l # layer + 1
      <4>1. kv'[d][l] = kv[d][l]
        BY Zenon, <3>1, <3>2, <3>5
      <4>2. kv[d][l] = FilledSoFar(d, l)
        BY Zenon, <2>1 DEF Fills
      <4>3. (l > layer + 1) <=> (l > layer)
        BY <1>5, <3>5
      <4>4. QED
        BY Zenon, <3>3, <4>1, <4>2, <4>3 DEF FilledSoFar
    <3>6. QED
      BY Zenon, <3>4, <3>5
  <2>3. pass.accel => StagedRows'
    <3>1. ASSUME pass.accel PROVE StagedRows'
      <4>1. StagedRows
        BY Zenon, <2>1, <3>1 DEF Fills
      <4>2. kv_out' = kv_out \o P!Own
        BY Zenon, <1>3, <1>11, <3>1
      <4>3. UNCHANGED <<docs, canvas, pass>>
        BY <1>3
      <4>4. layer' = layer + 1
        BY Zenon, <1>3
      <4>5. QED
        BY Zenon, <1>1, <1>11, <4>1, <4>2, <4>3, <4>4, StagedGrows
    <3>2. QED
      BY Zenon, <3>1
  <2>4. Fills'
    <3>1. \A s \in 1..pass.segments : FillsFrom(s)'
      BY Zenon, <1>3, <2>1 DEF Fills, FillsFrom, Begins
    <3>2. QED
      BY Zenon, <1>3, <2>1, <2>2, <2>3, <3>1 DEF Fills
  <2>5. PassHolds'
    BY Zenon, <1>3, <1>8, <1>9, <1>11, <2>4 DEF PassHolds
  <2>6. Complete'
    <3>1. pass' # P!Idle' /\ ~pass'.canvas
      BY Zenon, <1>3, <1>11, <2>1 DEF P!Idle
    <3>2. QED
      BY Zenon, <3>1 DEF Complete
  <2>7. QED
    BY Zenon, <1>6, <1>7, <2>5, <2>6 DEF PassesInv
<1>12. QED
  BY Zenon, <1>10, <1>11

-----------------------------------------------------------------------------
(* A pass begins with the embeddings of its segments. *)

LEMMA EmptyIsListed == Listed(<<>>, 0)
BY DEF Listed

LEMMA NoRows ==
  ASSUME NEW p, NEW l, p = <<>>
  PROVE  KVOf(p, l) = <<>>
<1>1. Len(p) = 0
  BY EmptySeq
<1>2. \A f : [i \in 1..0 |-> f[i]] = <<>>
  OBVIOUS
<1> DEFINE f == [i \in 1..0 |-> P!PromptKV(p, l, i)]
<1>3. f = [i \in 1..0 |-> f[i]]
  BY Zenon
<1> HIDE DEF f
<1>4. f = <<>>
  BY Zenon, <1>2, <1>3
<1>5. QED
  BY Zenon, <1>1, <1>4 DEF KVOf, f

LEMMA Bounded ==
  ASSUME NEW n \in Nat, NEW f, \A i \in 1..n : f[i] \in Nat
  PROVE  \E b \in Nat : \A i \in 1..n : f[i] <= b
<1> DEFINE Ks == {k \in 0..n : \E b \in Nat : \A i \in 1..k : f[i] <= b}
<1>1. 0 \in Ks
  <2>1. 0 \in 0..n /\ 0 \in Nat /\ \A i \in 1..0 : f[i] <= 0
    OBVIOUS
  <2>2. QED
    BY Zenon, <2>1
<1>2. ASSUME NEW k \in 0..(n - 1), k \in Ks PROVE k + 1 \in Ks
  <2>1. PICK b \in Nat : \A i \in 1..k : f[i] <= b
    BY Zenon, <1>2
  <2>2. k + 1 \in 1..n /\ k + 1 \in 0..n
    OBVIOUS
  <2>3. PICK v \in Nat : v = f[k + 1]
    BY Zenon, <2>2
  <2>4. b + v \in Nat
    OBVIOUS
  <2>5. ASSUME NEW i \in 1..(k + 1) PROVE f[i] <= b + v
    <3>1. CASE i = k + 1
      BY <2>3, <3>1
    <3>2. CASE i # k + 1
      <4>1. i \in 1..k /\ i \in 1..n
        BY <3>2
      <4>2. f[i] <= b /\ f[i] \in Nat
        BY Zenon, <2>1, <4>1
      <4>3. QED
        BY <4>2
    <3>3. QED
      BY Zenon, <3>1, <3>2
  <2>6. QED
    BY Zenon, <2>2, <2>4, <2>5
<1>3. \A k \in 0..n : k \in Ks
  <2> HIDE DEF Ks
  <2>1. QED
    BY Zenon, <1>1, <1>2, InductionTo
<1>4. n \in Ks
  <2>1. n \in 0..n
    OBVIOUS
  <2>2. QED
    BY Zenon, <1>3, <2>1
<1>5. QED
  BY Zenon, <1>4

LEMMA LongestIs ==
  ASSUME NEW n \in Nat \ {0}, NEW f, \A i \in 1..n : f[i] \in Nat \ {0}
  PROVE  /\ P!Max({f[d] : d \in 1..n}) \in Nat \ {0}
         /\ \A i \in 1..n : f[i] \in 1..P!Max({f[d] : d \in 1..n})
<1> DEFINE Ks == {f[d] : d \in 1..n}
<1>1. PICK b \in Nat : \A i \in 1..n : f[i] <= b
  <2>1. \A i \in 1..n : f[i] \in Nat
    OBVIOUS
  <2>2. QED
    BY Zenon, <2>1, Bounded
<1>2. \A i \in 1..n : f[i] \in 1..b
  BY <1>1
<1>3. 1 \in 1..n
  OBVIOUS
<1>4. Ks \subseteq 1..b /\ Ks # {}
  BY Zenon, <1>2, <1>3
<1>5. \A i \in 1..n : f[i] \in Ks
  BY Zenon
<1> HIDE DEF Ks
<1>6. Max(Ks) \in Ks /\ \A y \in Ks : y <= Max(Ks)
  BY Zenon, <1>4, MaxIn
<1>7. P!Max(Ks) = Max(Ks)
  BY DEF P!Max, Max
<1>8. PICK m \in 1..b : m = P!Max(Ks)
  BY Zenon, <1>4, <1>6, <1>7
<1>9. m \in Nat \ {0}
  OBVIOUS
<1>10. \A i \in 1..n : f[i] \in 1..m
  <2>1. ASSUME NEW i \in 1..n PROVE f[i] \in 1..m
    <3>1. f[i] \in 1..b /\ f[i] <= m
      BY Zenon, <1>2, <1>5, <1>6, <1>7, <1>8
    <3>2. QED
      BY <3>1
  <2>2. QED
    BY Zenon, <2>1
<1>11. QED
  BY Zenon, <1>8, <1>9, <1>10 DEF Ks

(* Rows of tokens packed: the place of the t-th of row s. *)
PackedAt(rows, n, w, s, t) ==
  /\ (s - 1) * w + t + 1 \in 1..(n * w)
  /\ P!Packed(rows, w)[(s - 1) * w + t + 1] = rows[s][t + 1]

LEMMA PackedIs ==
  ASSUME NEW n \in Nat \ {0}, NEW w \in Nat \ {0}, NEW rows, Listed(rows, n)
  PROVE  /\ DOMAIN P!Packed(rows, w) = 1..(n * w)
         /\ \A s \in 1..n : \A t \in 0..(w - 1) : PackedAt(rows, n, w, s, t)
<1>1. Len(rows) = n
  <2>1. n \in Nat
    OBVIOUS
  <2>2. QED
    BY Zenon, <2>1, ListedLen
<1>2. P!Packed(rows, w) =
        [i \in 1..(n * w) |-> rows[(i - 1) \div w + 1][((i - 1) % w) + 1]]
  BY Zenon, <1>1 DEF P!Packed
<1>3. ASSUME NEW s \in 1..n, NEW t \in 0..(w - 1) PROVE PackedAt(rows, n, w, s, t)
  <2> DEFINE b == s - 1
             i == b * w + t
  <2>1. b \in Nat /\ b < n /\ b + 1 = s
    OBVIOUS
  <2> HIDE DEF b
  <2>2. i \in 0..(n * w - 1)
    BY <2>1, PairBelow
  <2>3. i \div w = b /\ i % w = t
    BY <2>1, DivModOf
  <2>4. i \in Nat
    BY <2>2
  <2> HIDE DEF i
  <2>5. n * w \in Nat
    OBVIOUS
  <2>6. i + 1 \in 1..(n * w) /\ (i + 1) - 1 = i
    BY <2>2, <2>4, <2>5
  <2>7. P!Packed(rows, w)[i + 1] = rows[s][t + 1]
    BY Zenon, <1>2, <2>1, <2>3, <2>6
  <2>8. i + 1 = (s - 1) * w + t + 1
    BY Zenon DEF i, b
  <2>9. QED
    BY Zenon, <2>6, <2>7, <2>8 DEF PackedAt
<1>4. QED
  BY Zenon, <1>2, <1>3

LEMMA FirstPromptRow ==
  ASSUME NEW p \in Seq(Nat), NEW k \in 1..Len(p)
  PROVE  P!RowsAfter(p, <<>>, 0)[k] = P!Embedded(p[k], FALSE)
<1>1. PICK none \in Seq(Nat) : none = <<>> /\ Len(none) = 0
  BY EmptySeq
<1>2. PICK n \in Nat : n = Len(p)
  BY LenProperties
<1>3. k \in 1..n /\ k \in 1..(n + 0) /\ k <= n /\ (k > n) = FALSE
  BY <1>2
<1>4. k \in 1..(Len(p) + Len(none))
  BY Zenon, <1>1, <1>2, <1>3
<1>5. RowAtFirst(p, none, k)
  BY Zenon, <1>4, RowIs
<1>6. QED
  BY Zenon, <1>1, <1>2, <1>3, <1>5 DEF RowAtFirst

LEMMA FirstCanvasRow ==
  ASSUME NEW p \in Seq(Nat), NEW c \in Seq(Nat), NEW k \in 1..Len(c)
  PROVE  P!RowsAfter(p, c, 0)[Len(p) + k] = P!Embedded(c[k], TRUE)
<1>1. PICK n \in Nat : n = Len(p)
  BY LenProperties
<1>2. PICK m \in Nat : m = Len(c)
  BY LenProperties
<1>3. k \in 1..m
  BY <1>2
<1>4. n + k \in 1..(n + m) /\ ~(n + k <= n) /\ (n + k) - n = k /\ (n + k > n) = TRUE
  BY <1>3
<1>5. RowAtFirst(p, c, n + k)
  BY Zenon, <1>1, <1>2, <1>4, RowIs
<1>6. QED
  BY Zenon, <1>1, <1>4, <1>5 DEF RowAtFirst

-----------------------------------------------------------------------------
(* The passes that fill prompts. *)

(* A pass of n segments of width w begins with rows of tokens. *)
Starts(n, w, tokens, decoder) ==
  /\ pass'.segments = n /\ pass'.seq = w /\ pass'.canvas = decoder /\ pass'.accel \in BOOLEAN
  /\ pass'.name # "none" /\ layer' = 0 /\ kv_out' = <<>>
  /\ \A s \in 1..n : pass'.lens[s] \in 1..w
  /\ x' = [i \in 1..(n * w) |-> P!Embedded(tokens[i], decoder)]

LEMMA ShapeStarts ==
  ASSUME NEW n \in Nat \ {0}, NEW w \in Nat \ {0}, NEW tokens, NEW decoder \in BOOLEAN,
         Starts(n, w, tokens, decoder)
  PROVE  /\ PassShape' /\ pass' # P!Idle
         /\ \A s, t : Row(s, t)' = (s - 1) * w + t + 1
<1>1. /\ pass'.segments = n /\ pass'.seq = w /\ pass'.canvas \in BOOLEAN /\ pass'.accel \in BOOLEAN
      /\ layer' = 0 /\ \A s \in 1..n : pass'.lens[s] \in 1..w
  BY Zenon DEF Starts
<1>2. pass' # P!Idle
  <2>1. pass'.name # "none"
    BY Zenon DEF Starts
  <2>2. QED
    BY <2>1 DEF P!Idle
<1>3. Listed(x', n * w)
  <2>1. x' = [i \in 1..(n * w) |-> P!Embedded(tokens[i], decoder)]
    BY Zenon DEF Starts
  <2>2. QED
    BY <2>1 DEF Listed
<1>4. P!N' = n * w
  BY Zenon, <1>1 DEF P!N
<1>5. 0 \in 0..L
  BY PassesAssumption
<1>6. PassShape'
  BY Zenon, <1>1, <1>3, <1>4, <1>5 DEF PassShape
<1>7. \A s, t : Row(s, t)' = (s - 1) * w + t + 1
  BY Zenon, <1>1 DEF Row
<1>8. QED
  BY Zenon, <1>2, <1>6, <1>7

(* It fills prompts, of which the prefix has the first o tokens. *)
FillsPast(n, w, o, ds, tokens) ==
  /\ docs' = ds /\ kv' = P!EmptyKV(ds)
  /\ pass'.name = "prefill" => Common < Len(ds[1])
  /\ \A s \in 1..n :
       /\ pass'.lens[s] = Len(ds[s]) - o
       /\ \A t \in 0..(Len(ds[s]) - o - 1) : tokens[(s - 1) * w + t + 1] = ds[s][o + t + 1]
       /\ \/ pass'.cache[s] = 0 /\ o = 0
          \/ pass'.cache[s] = -1 /\ o = Len(prefix'.ids) /\ Begins(prefix'.ids, ds[s])

LEMMA FillStarts ==
  ASSUME NEW n \in Nat \ {0}, NEW w \in Nat \ {0}, NEW o \in Nat, NEW tokens,
         NEW ds \in [1..n -> Prompts],
         Starts(n, w, tokens, FALSE), FillsPast(n, w, o, ds, tokens), PrefixHolds'
  PROVE  PassesInv'
<1>1. /\ PassShape' /\ pass' # P!Idle /\ \A s, t : Row(s, t)' = (s - 1) * w + t + 1
  BY Zenon, ShapeStarts
<1>2. /\ pass'.segments = n /\ pass'.seq = w /\ pass'.canvas = FALSE
      /\ layer' = 0 /\ kv_out' = <<>>
      /\ x' = [i \in 1..(n * w) |-> P!Embedded(tokens[i], FALSE)]
      /\ \A s \in 1..n : pass'.lens[s] \in 1..w
  BY Zenon DEF Starts
<1>3. docs' = ds /\ kv' = P!EmptyKV(ds)
  BY Zenon DEF FillsPast
<1>4. ds \in Seq(Prompts) /\ Len(ds) = n /\ DOMAIN ds = 1..n
  OBVIOUS
<1>5. \A d \in 1..n : ds[d] \in Seq(Nat) /\ Len(ds[d]) \in Nat
  <2>1. ASSUME NEW d \in 1..n PROVE ds[d] \in Seq(Nat) /\ Len(ds[d]) \in Nat
    <3>1. ds[d] \in Prompts
      OBVIOUS
    <3>2. ds[d] \in Seq(Nat)
      BY <3>1, PassesAssumption
    <3>3. QED
      BY <3>2, LenProperties
  <2>2. QED
    BY Zenon, <2>1
<1>6. DOMAIN kv' = 1..n /\ \A d \in 1..n : kv'[d] = [l \in 1..L |-> <<>>]
  BY Zenon, <1>3, <1>4 DEF P!EmptyKV
<1>7. DocsHave'
  BY Zenon, <1>3, <1>4, <1>6 DEF DocsHave
<1>8. ASSUME NEW s \in 1..n
      PROVE  /\ PromptOf(s)' = ds[s] /\ CanvasOf(s)' = <<>> /\ Before(s)' = o
             /\ pass'.lens[s] = Len(ds[s]) - o /\ pass'.lens[s] \in 1..w
             /\ o <= Len(ds[s])
  <2>1. pass'.lens[s] = Len(ds[s]) - o /\ pass'.lens[s] \in 1..w
    BY Zenon, <1>2 DEF FillsPast
  <2>2. PromptOf(s)' = ds[s] /\ CanvasOf(s)' = <<>>
    BY Zenon, <1>2, <1>3 DEF PromptOf, CanvasOf
  <2>3. PICK m \in Nat : m = Len(ds[s])
    BY Zenon, <1>5
  <2>4. Before(s)' = m - (m - o)
    BY Zenon, <1>2, <2>1, <2>2, <2>3 DEF Before
  <2>5. m - (m - o) = o
    OBVIOUS
  <2>6. m - o \in 1..w
    BY Zenon, <2>1, <2>3
  <2>7. o <= m
    BY <2>6
  <2>8. QED
    BY Zenon, <2>1, <2>2, <2>3, <2>4, <2>5, <2>7
<1>9. RowsHold'
  <2>1. ASSUME NEW s \in 1..n, NEW t \in 0..(pass'.lens[s] - 1)
        PROVE  x'[Row(s, t)'] = P!RowsAfter(PromptOf(s)', CanvasOf(s)', 0)[Before(s)' + t + 1]
    <3>1. PICK m \in Nat : m = Len(ds[s])
      BY Zenon, <1>5
    <3>2. t \in 0..(m - o - 1) /\ m - o \in 1..w
      BY Zenon, <1>8, <3>1
    <3>3. o + t + 1 \in 1..m /\ t \in 0..(w - 1)
      BY <3>2
    <3> DEFINE i == (s - 1) * w + t + 1
    <3>4. i \in 1..(n * w)
      <4> DEFINE b == s - 1
                 v == b * w + t
      <4>1. b \in Nat /\ b < n
        OBVIOUS
      <4> HIDE DEF b
      <4>2. v \in 0..(n * w - 1)
        BY <3>3, <4>1, PairBelow
      <4> HIDE DEF v
      <4>3. n * w \in Nat
        OBVIOUS
      <4>4. v + 1 \in 1..(n * w)
        BY <4>2, <4>3
      <4>5. QED
        BY Zenon, <4>4 DEF v, b
    <3>5. tokens[i] = ds[s][o + t + 1]
      BY Zenon, <3>1, <3>2 DEF FillsPast
    <3> HIDE DEF i
    <3>6. x'[i] = P!Embedded(ds[s][o + t + 1], FALSE)
      BY Zenon, <1>2, <3>4, <3>5
    <3>7. P!RowsAfter(ds[s], <<>>, 0)[o + t + 1] = P!Embedded(ds[s][o + t + 1], FALSE)
      BY Zenon, <1>5, <3>1, <3>3, FirstPromptRow
    <3>8. Row(s, t)' = i
      BY Zenon, <1>1 DEF i
    <3>9. QED
      BY Zenon, <1>8, <3>6, <3>7, <3>8
  <2>2. QED
    BY Zenon, <1>2, <2>1 DEF RowsHold
<1>10. ASSUME NEW d \in 1..n, NEW l \in 1..L PROVE kv'[d][l] = FilledSoFar(d, l)'
  <2>1. kv'[d][l] = <<>>
    BY Zenon, <1>6
  <2>2. l > 0
    BY PassesAssumption
  <2>3. FilledSoFar(d, l)' = <<>>
    BY Zenon, <1>2, <2>2 DEF FilledSoFar
  <2>4. QED
    BY Zenon, <2>1, <2>3
<1>11. StagedRows'
  <2>1. P!N' = n * w
    BY Zenon, <1>2 DEF P!N
  <2>2. (n * w) * 0 = 0
    <3>1. n * w \in Nat
      OBVIOUS
    <3>2. QED
      BY <3>1
  <2>3. Listed(kv_out', P!N' * layer')
    BY Zenon, <1>2, <2>1, <2>2, EmptyIsListed
  <2>4. \A l \in 1..0 : FALSE
    OBVIOUS
  <2>5. \A l \in 1..layer' : FALSE
    BY Zenon, <1>2, <2>4
  <2>6. QED
    BY Zenon, <2>3, <2>5 DEF StagedRows
<1>12. \A s \in 1..n : FillsFrom(s)'
  <2>1. ASSUME NEW s \in 1..n PROVE FillsFrom(s)'
    <3>1. pass'.lens[s] = Len(ds[s]) - o /\ docs'[s] = ds[s]
      BY Zenon, <1>3, <1>8
    <3>2. \/ pass'.cache[s] = 0 /\ o = 0
          \/ pass'.cache[s] = -1 /\ o = Len(prefix'.ids) /\ Begins(prefix'.ids, ds[s])
      BY Zenon DEF FillsPast
    <3>3. CASE pass'.cache[s] = 0 /\ o = 0
      <4>1. Len(ds[s]) - 0 = Len(ds[s])
        BY <1>5
      <4>2. QED
        BY Zenon, <3>1, <3>3, <4>1 DEF FillsFrom
    <3>4. CASE pass'.cache[s] = -1 /\ o = Len(prefix'.ids) /\ Begins(prefix'.ids, ds[s])
      <4>1. Begins(prefix.ids, docs[s])'
        BY Zenon, <1>3, <3>4 DEF Begins
      <4>2. QED
        BY Zenon, <3>1, <3>4, <4>1 DEF FillsFrom
    <3>5. QED
      BY Zenon, <3>2, <3>3, <3>4
  <2>2. QED
    BY Zenon, <2>1
<1>13. Fills'
  <2>1. pass'.name = "prefill" => Common < Len(docs'[1])
    BY Zenon, <1>3 DEF FillsPast
  <2>2. pass'.segments = Len(docs')
    BY Zenon, <1>2, <1>3, <1>4
  <2>3. \A d \in 1..Len(docs') : \A l \in 1..L : kv'[d][l] = FilledSoFar(d, l)'
    BY Zenon, <1>3, <1>4, <1>10
  <2>4. \A s \in 1..pass'.segments : FillsFrom(s)'
    BY Zenon, <1>2, <1>12
  <2>5. QED
    BY Zenon, <1>11, <2>1, <2>2, <2>3, <2>4 DEF Fills
<1>14. PassHolds'
  BY Zenon, <1>1, <1>2, <1>9, <1>13 DEF PassHolds
<1>15. Complete'
  <2>1. pass' # P!Idle' /\ ~pass'.canvas
    BY Zenon, <1>1, <1>2 DEF P!Idle
  <2>2. QED
    BY Zenon, <2>1 DEF Complete
<1>16. QED
  BY Zenon, <1>7, <1>14, <1>15 DEF PassesInv

-----------------------------------------------------------------------------
(* A prompt filled whole, and prompts after the cached prefix. *)

LEMMA NoPrefixHolds ==
  ASSUME prefix' = P!NoPrefix
  PROVE  PrefixHolds'
<1>1. prefix'.ids = <<>> /\ \A l \in 1..L : prefix'.kv[l] = <<>>
  BY DEF P!NoPrefix
<1>2. <<>> \in Seq(Nat)
  BY EmptySeq
<1>3. \A l \in 1..L : KVOf(prefix.ids, l)' = <<>>
  <2>1. ASSUME NEW l \in 1..L PROVE KVOf(prefix'.ids, l) = <<>>
    BY Zenon, <1>1, NoRows
  <2>2. QED
    BY Zenon, <2>1 DEF KVOf
<1>4. QED
  BY Zenon, <1>1, <1>2, <1>3 DEF PrefixHolds

LEMMA PrefillHolds ==
  ASSUME PassesInv, NEW p \in Prompts, NEW a \in Accels, P!Prefill(p, a)
  PROVE  PassesInv'
<1>1. /\ Common < Len(p) /\ docs' = <<p>> /\ kv' = P!EmptyKV(<<p>>)
      /\ prefix' = P!NoPrefix
      /\ P!Begin([name |-> "prefill", segments |-> 1, seq |-> Len(p), cache |-> <<P!NoCache>>,
                  lens |-> <<Len(p)>>, canvas |-> FALSE, accel |-> a], p, FALSE)
  BY Zenon DEF P!Prefill
<1>2. PICK w \in Nat \ {0} : w = Len(p) /\ DOMAIN p = 1..w
  <2>1. p \in Seq(Nat) /\ Common \in Nat
    BY PassesAssumption
  <2>2. Len(p) \in Nat /\ DOMAIN p = 1..Len(p)
    BY <2>1, LenProperties
  <2>3. Len(p) \in Nat \ {0}
    BY <1>1, <2>1, <2>2
  <2>4. QED
    BY Zenon, <2>2, <2>3
<1>3. /\ pass' = [name |-> "prefill", segments |-> 1, seq |-> w, cache |-> <<0>>,
                  lens |-> <<w>>, canvas |-> FALSE, accel |-> a]
      /\ layer' = 0 /\ kv_out' = <<>>
      /\ x' = [i \in 1..w |-> P!Embedded(p[i], FALSE)]
  BY Zenon, <1>1, <1>2 DEF P!Begin, P!NoCache
<1>4. /\ pass'.name = "prefill" /\ pass'.segments = 1 /\ pass'.seq = w /\ pass'.cache[1] = 0
      /\ pass'.lens[1] = w /\ pass'.canvas = FALSE /\ pass'.accel = a
  BY <1>3
<1>5. a \in BOOLEAN
  BY PassesAssumption
<1>6. <<p>> \in [1..1 -> Prompts] /\ <<p>>[1] = p
  OBVIOUS
<1>7. PICK ds \in [1..1 -> Prompts] : ds = <<p>> /\ ds[1] = p
  BY Zenon, <1>6
<1>8. 1 * w = w /\ w \in 1..w /\ w - 0 = w /\ \A s \in 1..1 : s = 1
  OBVIOUS
<1>9. Starts(1, w, p, FALSE)
  <2>1. "prefill" # "none"
    OBVIOUS
  <2>2. \A s \in 1..1 : pass'.lens[s] \in 1..w
    BY Zenon, <1>4, <1>8
  <2>3. QED
    BY Zenon, <1>3, <1>4, <1>5, <1>8, <2>1, <2>2 DEF Starts
<1>10. FillsPast(1, w, 0, ds, p)
  <2>1. ASSUME NEW t \in 0..(w - 0 - 1) PROVE p[(1 - 1) * w + t + 1] = p[0 + t + 1]
    <3>1. (1 - 1) * w + t + 1 = 0 + t + 1
      OBVIOUS
    <3>2. QED
      BY Zenon, <3>1
  <2>2. ASSUME NEW s \in 1..1
        PROVE  /\ pass'.lens[s] = Len(ds[s]) - 0
               /\ \A t \in 0..(Len(ds[s]) - 0 - 1) : p[(s - 1) * w + t + 1] = ds[s][0 + t + 1]
               /\ pass'.cache[s] = 0
    <3>1. s = 1 /\ ds[s] = p /\ Len(ds[s]) = w
      BY Zenon, <1>2, <1>7, <1>8
    <3>2. QED
      BY Zenon, <1>4, <1>8, <2>1, <3>1
  <2>3. QED
    BY Zenon, <1>1, <1>7, <2>2 DEF FillsPast
<1>11. PrefixHolds'
  BY Zenon, <1>1, NoPrefixHolds
<1>12. 1 \in Nat \ {0} /\ 0 \in Nat
  OBVIOUS
<1>13. QED
  BY Zenon, <1>9, <1>10, <1>11, <1>12, FillStarts

LEMMA PrefillSuffixHolds ==
  ASSUME PassesInv, NEW k \in 1..MaxSegments, NEW ds \in [1..k -> Prompts],
         NEW a \in Accels, P!PrefillSuffix(ds, a)
  PROVE  PassesInv'
<1> DEFINE q == prefix.ids
           lens == [d \in 1..k |-> Len(P!Rest(ds[d]))]
           w == P!Max({lens[d] : d \in 1..k})
           Padded(s) == [i \in 1..w |-> IF i <= Len(s) THEN s[i] ELSE 0]
           rows == [d \in 1..k |-> Padded(P!Rest(ds[d]))]
           tokens == P!Packed(rows, w)
<1>1. k \in Nat \ {0} /\ DOMAIN ds = 1..k /\ Len(ds) = k
  BY PassesAssumption
<1>2. /\ \A d \in 1..k : P!Hits(ds[d]) /\ Len(ds[d]) > Len(q)
      /\ docs' = ds /\ kv' = P!EmptyKV(ds) /\ prefix' = prefix
  BY Zenon, <1>1 DEF P!PrefillSuffix
<1>3. {Len(P!Rest(ds[d])) : d \in DOMAIN ds} = {lens[d] : d \in 1..k}
  BY Zenon, <1>1
<1>4. P!Begin([name |-> "suffix", segments |-> k, seq |-> w,
                cache |-> [d \in 1..k |-> -1],
                lens |-> lens, canvas |-> FALSE, accel |-> a], tokens, FALSE)
  <2>1. P!Begin([name |-> "suffix", segments |-> Len(ds), seq |-> w,
                cache |-> [d \in DOMAIN ds |-> P!InPrefix],
                lens |-> [d \in DOMAIN ds |-> Len(P!Rest(ds[d]))],
                canvas |-> FALSE, accel |-> a],
               P!Packed([d \in DOMAIN ds |-> Padded(P!Rest(ds[d]))], w), FALSE)
    <3> HIDE DEF lens
    <3>1. QED
      BY Zenon, <1>3 DEF P!PrefillSuffix
  <2>2. QED
    BY Zenon, <1>1, <2>1 DEF P!InPrefix
<1>5. q \in Seq(Nat) /\ PrefixHolds
  BY Zenon DEF PassesInv, PrefixHolds
<1>6. PICK o \in Nat : o = Len(q)
  BY <1>5, LenProperties
<1>7. ASSUME NEW d \in 1..k
      PROVE  /\ lens[d] = Len(ds[d]) - o /\ lens[d] \in Nat \ {0} /\ Begins(q, ds[d])
             /\ P!Rest(ds[d]) = [i \in 1..lens[d] |-> ds[d][o + i]]
             /\ Len(P!Rest(ds[d])) = lens[d]
  <2>1. ds[d] \in Seq(Nat)
    <3>1. ds[d] \in Prompts
      OBVIOUS
    <3>2. QED
      BY <3>1, PassesAssumption
  <2>2. PICK m \in Nat : m = Len(ds[d])
    BY <2>1, LenProperties
  <2>3. m > o /\ m - o \in Nat \ {0} /\ m - (o + 1) + 1 = m - o
    <3>1. m > o
      BY Zenon, <1>2, <1>6, <2>2
    <3>2. QED
      BY <3>1
  <2>4. P!Rest(ds[d]) = SubSeq(ds[d], o + 1, m)
    BY Zenon, <1>6, <2>2 DEF P!Rest
  <2>5. P!Rest(ds[d]) = [i \in 1..(m - (o + 1) + 1) |-> ds[d][o + 1 + i - 1]]
    <3>1. o + 1 \in Int /\ m \in Int
      OBVIOUS
    <3>2. QED
      BY <2>4, <3>1, ListedSub
  <2>6. \A i \in 1..(m - o) : o + 1 + i - 1 = o + i
    OBVIOUS
  <2>7. P!Rest(ds[d]) = [i \in 1..(m - o) |-> ds[d][o + i]]
    BY Zenon, <2>3, <2>5, <2>6
  <2>8. Len(P!Rest(ds[d])) = m - o
    <3>1. Listed(P!Rest(ds[d]), m - o)
      BY Zenon, <2>7 DEF Listed
    <3>2. m - o \in Nat
      BY <2>3
    <3>3. QED
      BY Zenon, <3>1, <3>2, ListedLen
  <2>9. Begins(q, ds[d])
    <3>1. P!IsPrefix(q, ds[d])
      BY Zenon, <1>2 DEF P!Hits
    <3>2. SubSeq(q, 1, o) = SubSeq(ds[d], 1, o)
      BY Zenon, <1>6, <3>1 DEF P!IsPrefix
    <3>3. 1 \in Int /\ o \in Int
      OBVIOUS
    <3>4. /\ SubSeq(q, 1, o) = [i \in 1..(o - 1 + 1) |-> q[1 + i - 1]]
          /\ SubSeq(ds[d], 1, o) = [i \in 1..(o - 1 + 1) |-> ds[d][1 + i - 1]]
      BY <3>3, ListedSub
    <3>5. o - 1 + 1 = o /\ \A i \in 1..o : 1 + i - 1 = i
      OBVIOUS
    <3>6. \A i \in 1..o : q[i] = ds[d][i]
      BY Zenon, <3>2, <3>4, <3>5
    <3>7. QED
      BY Zenon, <1>6, <3>6 DEF Begins
  <2>10. QED
    BY Zenon, <2>2, <2>3, <2>7, <2>8, <2>9
<1>8. w \in Nat \ {0} /\ \A d \in 1..k : lens[d] \in 1..w
  <2>1. \A d \in 1..k : lens[d] \in Nat \ {0}
    BY Zenon, <1>7
  <2> HIDE DEF lens
  <2>2. QED
    BY Zenon, <1>1, <2>1, LongestIs
<1> HIDE DEF w, lens
<1>9. Listed(rows, k)
  BY DEF Listed
<1>10. /\ DOMAIN tokens = 1..(k * w)
       /\ \A s \in 1..k : \A t \in 0..(w - 1) : PackedAt(rows, k, w, s, t)
  <2> HIDE DEF rows
  <2>1. QED
    BY Zenon, <1>1, <1>8, <1>9, PackedIs
<1>11. ASSUME NEW s \in 1..k, NEW t \in 0..(Len(ds[s]) - o - 1)
       PROVE  tokens[(s - 1) * w + t + 1] = ds[s][o + t + 1]
  <2>1. PICK n \in 1..w : n = lens[s]
    BY Zenon, <1>8
  <2>2. t \in 0..(n - 1)
    <3>1. n = Len(ds[s]) - o
      BY Zenon, <1>7, <2>1
    <3>2. QED
      BY Zenon, <3>1
  <2>3. t \in 0..(w - 1) /\ t + 1 \in 1..w /\ t + 1 \in 1..n /\ t + 1 <= n /\ o + t + 1 = o + (t + 1)
    BY <1>8, <2>2
  <2>4. tokens[(s - 1) * w + t + 1] = rows[s][t + 1]
    <3> HIDE DEF rows
    <3>1. QED
      BY Zenon, <1>10, <2>3 DEF PackedAt
  <2>5. rows[s][t + 1] = P!Rest(ds[s])[t + 1]
    <3>1. Len(P!Rest(ds[s])) = n
      BY Zenon, <1>7, <2>1
    <3>2. QED
      BY Zenon, <2>3, <3>1
  <2>6. P!Rest(ds[s])[t + 1] = ds[s][o + (t + 1)]
    BY Zenon, <1>7, <2>1, <2>3
  <2>7. QED
    BY Zenon, <2>3, <2>4, <2>5, <2>6
<1> HIDE DEF rows, tokens
<1>12. /\ pass' = [name |-> "suffix", segments |-> k, seq |-> w,
                   cache |-> [d \in 1..k |-> -1],
                   lens |-> lens, canvas |-> FALSE, accel |-> a]
       /\ layer' = 0 /\ kv_out' = <<>>
       /\ x' = [i \in 1..(k * w) |-> P!Embedded(tokens[i], FALSE)]
  BY Zenon, <1>4, <1>10 DEF P!Begin
<1>13. /\ pass'.name = "suffix" /\ pass'.segments = k /\ pass'.seq = w
       /\ pass'.cache = [d \in 1..k |-> -1]
       /\ pass'.lens = lens /\ pass'.canvas = FALSE /\ pass'.accel = a
  BY <1>12
<1>14. Starts(k, w, tokens, FALSE)
  <2>1. "suffix" # "none" /\ a \in BOOLEAN
    BY PassesAssumption
  <2>2. QED
    BY Zenon, <1>8, <1>12, <1>13, <2>1 DEF Starts
<1>15. FillsPast(k, w, o, ds, tokens)
  <2>1. "suffix" # "prefill"
    OBVIOUS
  <2>2. \A s \in 1..k : pass'.cache[s] = -1
    BY Zenon, <1>13
  <2>3. \A s \in 1..k : pass'.lens[s] = Len(ds[s]) - o /\ o = Len(prefix'.ids) /\ Begins(prefix'.ids, ds[s])
    BY Zenon, <1>2, <1>6, <1>7, <1>13
  <2>4. QED
    BY Zenon, <1>2, <1>11, <1>13, <2>1, <2>2, <2>3 DEF FillsPast
<1>16. PrefixHolds'
  BY Zenon, <1>2, <1>5 DEF PrefixHolds, KVOf
<1>17. QED
  BY Zenon, <1>1, <1>6, <1>8, <1>14, <1>15, <1>16, FillStarts

-----------------------------------------------------------------------------
(* A pass that reads canvases begins. *)

LEMMA CanvasIs ==
  ASSUME NEW c \in Canvases
  PROVE  c \in Seq(Nat) /\ Len(c) \in Nat \ {0}
<1>1. c \in Seq(Nat) /\ c # <<>>
  BY PassesAssumption
<1>2. Len(c) \in Nat /\ Len(c) # 0
  BY <1>1, LenProperties, EmptySeq
<1>3. QED
  BY <1>1, <1>2

LEMMA DecodeHolds ==
  ASSUME PassesInv, NEW k \in 1..MaxSegments,
         NEW what \in [1..k -> [doc : DOMAIN docs, ids : Canvases]],
         NEW a \in Accels, P!Decode(what, a)
  PROVE  PassesInv'
<1> DEFINE w == Len(what[1].ids)
           rows == [s \in 1..k |-> what[s].ids]
           tokens == P!Packed(rows, w)
<1>1. k \in Nat \ {0} /\ DOMAIN what = 1..k /\ Len(what) = k /\ 1 \in 1..k
  BY PassesAssumption
<1>2. /\ pass = P!Idle /\ canvas' = what /\ prefix' = prefix /\ docs' = docs /\ kv' = kv
      /\ P!Begin([name |-> "decode", segments |-> k, seq |-> w,
                  cache |-> [s \in 1..k |-> what[s].doc],
                  lens |-> [s \in 1..k |-> Len(what[s].ids)],
                  canvas |-> TRUE, accel |-> a], tokens, TRUE)
  BY Zenon, <1>1 DEF P!Decode
<1>3. DocsHave /\ PrefixHolds /\ Filled
  BY Zenon, <1>2 DEF PassesInv, Complete
<1>4. ASSUME NEW s \in 1..k
      PROVE  what[s].doc \in 1..Len(docs) /\ what[s].ids \in Canvases
  <2>1. what[s] \in [doc : DOMAIN docs, ids : Canvases]
    OBVIOUS
  <2>2. docs \in Seq(Prompts)
    BY Zenon, <1>3 DEF DocsHave
  <2>3. DOMAIN docs = 1..Len(docs)
    BY <2>2, LenProperties
  <2>4. what[s].doc \in DOMAIN docs /\ what[s].ids \in Canvases
    BY <2>1
  <2>5. QED
    BY Zenon, <2>3, <2>4
<1>5. w \in Nat \ {0} /\ \A s \in 1..k : Len(what[s].ids) = w /\ what[s].ids \in Seq(Nat)
  <2>1. w \in Nat \ {0}
    BY Zenon, <1>1, <1>4, CanvasIs
  <2>2. \A s \in 1..k : what[s].ids \in Seq(Nat)
    BY Zenon, <1>4, CanvasIs
  <2>3. \A s \in 2..k : Len(what[s].ids) = w
    BY Zenon, <1>1 DEF P!Decode
  <2>4. \A s \in 1..k : s = 1 \/ s \in 2..k
    OBVIOUS
  <2>5. \A s \in 1..k : Len(what[s].ids) = w
    BY Zenon, <2>3, <2>4
  <2>6. QED
    BY Zenon, <2>1, <2>2, <2>5
<1> HIDE DEF w
<1>6. Listed(rows, k)
  BY DEF Listed
<1>7. /\ DOMAIN tokens = 1..(k * w)
      /\ \A s \in 1..k : \A t \in 0..(w - 1) : PackedAt(rows, k, w, s, t)
  <2> HIDE DEF rows
  <2>1. QED
    BY Zenon, <1>1, <1>5, <1>6, PackedIs
<1>8. ASSUME NEW s \in 1..k, NEW t \in 0..(w - 1)
      PROVE  /\ (s - 1) * w + t + 1 \in 1..(k * w)
             /\ tokens[(s - 1) * w + t + 1] = what[s].ids[t + 1]
  <2>1. PackedAt(rows, k, w, s, t)
    BY Zenon, <1>7
  <2>2. rows[s] = what[s].ids
    BY Zenon
  <2> HIDE DEF rows
  <2>3. QED
    BY Zenon, <2>1, <2>2 DEF PackedAt
<1> HIDE DEF rows, tokens
<1>9. /\ pass' = [name |-> "decode", segments |-> k, seq |-> w,
                  cache |-> [s \in 1..k |-> what[s].doc],
                  lens |-> [s \in 1..k |-> Len(what[s].ids)],
                  canvas |-> TRUE, accel |-> a]
      /\ layer' = 0 /\ kv_out' = <<>>
      /\ x' = [i \in 1..(k * w) |-> P!Embedded(tokens[i], TRUE)]
  BY Zenon, <1>2, <1>7 DEF P!Begin
<1>10. /\ pass'.name = "decode" /\ pass'.segments = k /\ pass'.seq = w
       /\ pass'.cache = [s \in 1..k |-> what[s].doc]
       /\ pass'.lens = [s \in 1..k |-> Len(what[s].ids)]
       /\ pass'.canvas = TRUE /\ pass'.accel = a
  BY <1>9
<1>11. ASSUME NEW s \in 1..k
       PROVE  pass'.lens[s] = w /\ pass'.cache[s] = what[s].doc
  <2>1. Len(what[s].ids) = w
    BY Zenon, <1>5
  <2>2. pass'.lens[s] = Len(what[s].ids)
    BY Zenon, <1>10
  <2>3. pass'.cache[s] = what[s].doc
    <3>1. pass'.cache = [d \in 1..k |-> what[d].doc]
      BY Zenon, <1>10
    <3>2. QED
      BY Zenon, <3>1
  <2>4. QED
    BY Zenon, <2>1, <2>2, <2>3
<1>12. Starts(k, w, tokens, TRUE)
  <2>1. "decode" # "none" /\ a \in BOOLEAN
    BY PassesAssumption
  <2>2. w \in 1..w
    BY <1>5
  <2>3. QED
    BY Zenon, <1>9, <1>10, <1>11, <2>1, <2>2 DEF Starts
<1>13. PassShape' /\ \A s, t : Row(s, t)' = (s - 1) * w + t + 1
  <2>1. TRUE \in BOOLEAN
    OBVIOUS
  <2>2. QED
    BY Zenon, <1>1, <1>5, <1>12, <2>1, ShapeStarts
<1>14. Reads'
  <2>1. \A s \in 1..k : ReadsFrom(s)'
    BY Zenon, <1>2, <1>4, <1>5, <1>10, <1>11 DEF ReadsFrom
  <2>2. QED
    BY Zenon, <1>1, <1>2, <1>10, <2>1 DEF Reads
<1>15. RowsHold'
  <2>1. ASSUME NEW s \in 1..k, NEW t \in 0..(w - 1)
        PROVE  x'[Row(s, t)'] = P!RowsAfter(PromptOf(s)', CanvasOf(s)', 0)[Before(s)' + t + 1]
    <3> DEFINE p == docs[what[s].doc]
               c == what[s].ids
               i == (s - 1) * w + t + 1
    <3>1. PromptOf(s)' = p /\ CanvasOf(s)' = c /\ Before(s)' = Len(p)
      BY Zenon, <1>2, <1>10 DEF PromptOf, CanvasOf, Before
    <3>2. x'[i] = P!Embedded(c[t + 1], TRUE)
      <4>1. i \in 1..(k * w) /\ tokens[i] = c[t + 1]
        BY Zenon, <1>8
      <4> HIDE DEF i, c
      <4>2. QED
        BY Zenon, <1>9, <4>1
    <3>3. p \in Seq(Nat) /\ Len(p) \in Nat /\ c \in Seq(Nat) /\ Len(c) = w
      BY Zenon, <1>3, <1>4, <1>5, PromptsAre
    <3> HIDE DEF p, c, i
    <3>4. t + 1 \in 1..w /\ Len(p) + (t + 1) = Len(p) + t + 1
      BY <1>5, <3>3
    <3>5. P!RowsAfter(p, c, 0)[Len(p) + (t + 1)] = P!Embedded(c[t + 1], TRUE)
      BY Zenon, <3>3, <3>4, FirstCanvasRow
    <3>6. Row(s, t)' = i
      BY Zenon, <1>13 DEF i
    <3>7. QED
      BY Zenon, <3>1, <3>2, <3>4, <3>5, <3>6
  <2>2. layer' = 0 /\ pass'.segments = k
    BY Zenon, <1>9, <1>10
  <2>3. ASSUME NEW s \in 1..k, NEW t \in 0..(pass'.lens[s] - 1)
        PROVE  x'[Row(s, t)'] = P!RowsAfter(PromptOf(s)', CanvasOf(s)', layer')[Before(s)' + t + 1]
    <3>1. t \in 0..(w - 1)
      BY Zenon, <1>11
    <3>2. QED
      BY Zenon, <2>1, <2>2, <3>1
  <2>4. QED
    BY Zenon, <2>2, <2>3 DEF RowsHold
<1>16. PassHolds'
  BY Zenon, <1>10, <1>13, <1>14, <1>15 DEF PassHolds
<1>17. DocsHave' /\ PrefixHolds' /\ Filled'
  <2>1. docs' = docs /\ kv' = kv /\ prefix' = prefix
    BY Zenon, <1>2
  <2>2. DocsHave'
    BY Zenon, <1>3, <2>1 DEF DocsHave
  <2>3. PrefixHolds'
    BY Zenon, <1>3, <2>1 DEF PrefixHolds, KVOf
  <2>4. Filled'
    BY Zenon, <1>3, <2>1 DEF Filled
  <2>5. QED
    BY Zenon, <2>2, <2>3, <2>4
<1>18. QED
  BY Zenon, <1>16, <1>17 DEF PassesInv, Complete

-----------------------------------------------------------------------------
(* The rows of a prompt are fetched. *)

FetchedAs(d, l) == P!Fetched(d, l) = KVOf(docs[d], l)

LEMMA FetchedIs ==
  ASSUME PassesInv, pass # P!Idle, ~pass.canvas, pass.accel, layer = L,
         NEW d \in 1..Len(docs), NEW l \in 1..L
  PROVE  FetchedAs(d, l)
<1>1. PassShape /\ Fills /\ StagedRows
  BY Zenon DEF PassesInv, PassHolds, Fills
<1>2. d \in 1..pass.segments
  BY Zenon, <1>1 DEF Fills
<1>3. SegmentIs(d)
  BY Zenon, <1>2, SegmentsAre
<1>4. PICK o \in Nat : o = Before(d)
  BY Zenon, <1>3 DEF SegmentIs
<1>5. PICK w \in Nat \ {0} : w = pass.seq
  BY Zenon, <1>1 DEF PassShape
<1>6. PICK n \in 1..w : n = pass.lens[d]
  BY Zenon, <1>3, <1>5 DEF SegmentIs
<1>7. o + n = Len(docs[d])
  <2>1. PromptOf(d) = docs[d]
    BY Zenon DEF PromptOf
  <2>2. o + n = Len(docs[d]) + 0 /\ Len(docs[d]) \in Nat
    BY Zenon, <1>3, <1>4, <1>6, <2>1 DEF SegmentIs
  <2>3. QED
    BY <2>2
<1> DEFINE V(i) == P!PromptKV(docs[d], l, i)
           stored == kv[d][l]
<1>8. stored = [i \in 1..(o + n) |-> IF i > o THEN P!Unset ELSE V(i)]
  <2>1. stored = FilledSoFar(d, l)
    BY Zenon, <1>1 DEF Fills
  <2>2. ~(l > layer)
    BY PassesAssumption
  <2>3. QED
    BY Zenon, <1>4, <1>7, <2>1, <2>2 DEF FilledSoFar
<1> HIDE DEF stored
<1>9. Len(stored) = o + n
  <2>1. Listed(stored, o + n) /\ o + n \in Nat
    BY <1>8 DEF Listed
  <2>2. QED
    BY Zenon, <2>1, ListedLen
<1>10. (o + n) - n = o
  OBVIOUS
<1> DEFINE f == P!StageOffset(l)
           own == SubSeq(kv_out, f + 1, f + P!N)
           first == SubSeq(stored, 1, o)
           rest == P!OwnRows(own, d)
<1>11. P!Fetched(d, l) = first \o rest
  <2>1. Len(stored) - pass.lens[d] = o
    BY Zenon, <1>6, <1>9, <1>10
  <2>2. QED
    BY Zenon, <2>1 DEF P!Fetched, stored
<1>12. first = [i \in 1..o |-> V(i)]
  <2>1. first = [i \in 1..(o - 1 + 1) |-> stored[1 + i - 1]]
    BY ListedSub
  <2>2. o - 1 + 1 = o /\ \A i \in 1..o : 1 + i - 1 = i /\ i \in 1..(o + n) /\ ~(i > o)
    OBVIOUS
  <2>3. \A i \in 1..o : stored[i] = V(i)
    BY Zenon, <1>8, <2>2
  <2> HIDE DEF V, first
  <2>4. QED
    BY Zenon, <2>1, <2>2, <2>3
<1>13. PICK g \in Nat : g = P!N
  <2>1. pass.segments \in Nat
    BY Zenon, <1>1 DEF PassShape
  <2>2. pass.segments * w \in Nat
    BY <2>1
  <2>3. QED
    BY Zenon, <1>5, <2>2 DEF P!N
<1>14. PICK b \in Nat : b = f
  <2>1. l - 1 \in Nat
    BY PassesAssumption
  <2>2. g * (l - 1) \in Nat
    BY <2>1
  <2>3. QED
    BY Zenon, <1>13, <2>2 DEF P!StageOffset
<1>15. own = [i \in 1..g |-> kv_out[b + i]]
  <2>1. own = SubSeq(kv_out, b + 1, b + g)
    BY Zenon, <1>13, <1>14
  <2> HIDE DEF own
  <2>2. own = [i \in 1..((b + g) - (b + 1) + 1) |-> kv_out[b + 1 + i - 1]]
    BY <2>1, ListedSub
  <2>3. (b + g) - (b + 1) + 1 = g /\ \A i \in 1..g : b + 1 + i - 1 = b + i
    OBVIOUS
  <2>4. QED
    BY Zenon, <2>2, <2>3
<1>16. PICK e \in Nat : e = (d - 1) * w
  <2>1. d - 1 \in Nat
    BY <1>2
  <2>2. (d - 1) * w \in Nat
    BY <2>1
  <2>3. QED
    BY Zenon, <2>2
<1>17. rest = [i \in 1..n |-> V(o + i)]
  <2>1. rest = SubSeq(own, e + 1, e + n)
    BY Zenon, <1>5, <1>6, <1>16 DEF P!OwnRows
  <2> HIDE DEF rest, own
  <2>2. rest = [i \in 1..((e + n) - (e + 1) + 1) |-> own[e + 1 + i - 1]]
    BY <2>1, ListedSub
  <2>3. (e + n) - (e + 1) + 1 = n
    OBVIOUS
  <2>4. ASSUME NEW i \in 1..n PROVE own[e + 1 + i - 1] = V(o + i)
    <3>1. /\ i - 1 \in 0..(n - 1) /\ i - 1 \in 0..(w - 1)
          /\ o + (i - 1) + 1 = o + i /\ e + (i - 1) + 1 = e + 1 + i - 1
      OBVIOUS
    <3>2. Row(d, i - 1) = e + 1 + i - 1
      BY Zenon, <1>5, <1>16, <3>1 DEF Row
    <3>3. Row(d, i - 1) \in 1..g
      BY Zenon, <1>1, <1>2, <1>5, <1>13, <3>1, RowPlace DEF PassShape
    <3>4. own[e + 1 + i - 1] = kv_out[b + Row(d, i - 1)]
      BY Zenon, <1>15, <3>2, <3>3
    <3>5. kv_out[b + Row(d, i - 1)] = P!PromptKV(docs[d], l, Before(d) + (i - 1) + 1)
      BY Zenon, <1>1, <1>2, <1>6, <1>14, <3>1 DEF StagedRows
    <3>6. QED
      BY Zenon, <1>4, <3>1, <3>4, <3>5
  <2> HIDE DEF V
  <2>5. QED
    BY Zenon, <2>2, <2>3, <2>4
<1> HIDE DEF first, rest
<1>18. first \o rest = [i \in 1..(o + n) |-> IF i <= o THEN first[i] ELSE rest[i - o]]
  <2>1. Listed(first, o) /\ Listed(rest, n)
    BY <1>12, <1>17 DEF Listed
  <2>2. n \in Nat
    OBVIOUS
  <2>3. JoinedTo(first, o, rest, n)
    BY Zenon, <2>1, <2>2, ListedConcat
  <2>4. QED
    BY Zenon, <2>3 DEF JoinedTo
<1>19. ASSUME NEW i \in 1..(o + n)
       PROVE  (IF i <= o THEN first[i] ELSE rest[i - o]) = V(i)
  <2>1. CASE i <= o
    <3>1. i \in 1..o
      BY <2>1
    <3>2. QED
      BY Zenon, <1>12, <2>1, <3>1
  <2>2. CASE ~(i <= o)
    <3>1. i - o \in 1..n /\ o + (i - o) = i
      BY <2>2
    <3>2. QED
      BY Zenon, <1>17, <2>2, <3>1
  <2>3. QED
    BY Zenon, <2>1, <2>2
<1>20. first \o rest = [i \in 1..(o + n) |-> V(i)]
  <2> HIDE DEF V
  <2>1. QED
    BY Zenon, <1>18, <1>19
<1>21. QED
  BY Zenon, <1>7, <1>11, <1>20 DEF FetchedAs, KVOf

-----------------------------------------------------------------------------
(* A fill ends: every prompt has its rows, and the prefix those of its schema. *)

Starting(s, n) == SubSeq(s, 1, n) = [i \in 1..n |-> s[i]]

LEMMA StartIs ==
  ASSUME NEW s, NEW n \in Nat
  PROVE  Starting(s, n)
<1>1. SubSeq(s, 1, n) = [i \in 1..(n - 1 + 1) |-> s[1 + i - 1]]
  BY ListedSub
<1>2. n - 1 + 1 = n /\ \A i \in 1..n : 1 + i - 1 = i
  OBVIOUS
<1>3. QED
  BY Zenon, <1>1, <1>2 DEF Starting

LEMMA EndFillHolds ==
  ASSUME PassesInv, P!EndFill
  PROVE  PassesInv'
<1> DEFINE filled == [d \in DOMAIN kv |-> [l \in 1..L |->
                       IF pass.accel THEN P!Fetched(d, l) ELSE kv[d][l]]]
<1>1. /\ pass # P!Idle /\ layer = L /\ ~pass.canvas /\ kv' = filled
      /\ prefix' = (IF pass.name # "prefill" THEN prefix
                    ELSE [ids |-> SubSeq(docs[1], 1, Common),
                          kv |-> [l \in 1..L |-> SubSeq(filled[1][l], 1, Common)]])
      /\ pass' = P!Idle /\ docs' = docs
  BY Zenon DEF P!EndFill
<1>2. PassShape /\ Fills /\ DocsHave /\ PrefixHolds
  BY Zenon, <1>1 DEF PassesInv, PassHolds
<1>3. ASSUME NEW d \in 1..Len(docs), NEW l \in 1..L
      PROVE  filled[d][l] = KVOf(docs[d], l)
  <2>1. d \in DOMAIN kv
    BY Zenon, <1>2 DEF DocsHave
  <2>2. CASE pass.accel
    <3>1. filled[d][l] = P!Fetched(d, l)
      BY Zenon, <2>1, <2>2
    <3>2. FetchedAs(d, l)
      BY Zenon, <1>1, <2>2, FetchedIs
    <3> HIDE DEF filled
    <3>3. QED
      BY Zenon, <3>1, <3>2 DEF FetchedAs
  <2>3. CASE ~pass.accel
    <3>1. filled[d][l] = kv[d][l]
      BY Zenon, <2>1, <2>3
    <3>2. kv[d][l] = FilledSoFar(d, l)
      BY Zenon, <1>2 DEF Fills
    <3>3. ~(l > layer)
      <4>1. L \in Nat
        BY PassesAssumption
      <4>2. ~(l > L)
        BY <4>1
      <4>3. QED
        BY Zenon, <1>1, <4>2
    <3> HIDE DEF filled
    <3>4. QED
      BY Zenon, <2>3, <3>1, <3>2, <3>3 DEF FilledSoFar, KVOf
  <2>4. QED
    BY Zenon, <2>2, <2>3
<1>4. DOMAIN filled = 1..Len(docs) /\ \A d \in 1..Len(docs) : DOMAIN filled[d] = 1..L
  BY Zenon, <1>2 DEF DocsHave
<1> HIDE DEF filled
<1>5. DocsHave'
  BY Zenon, <1>1, <1>2, <1>4 DEF DocsHave
<1>6. Filled'
  <2>1. \A d \in 1..Len(docs') : \A l \in 1..L : kv'[d][l] = KVOf(docs'[d], l)
    BY Zenon, <1>1, <1>3
  <2>2. QED
    BY Zenon, <2>1 DEF Filled, KVOf
<1>7. PrefixHolds'
  <2>1. CASE pass.name # "prefill"
    <3>1. prefix' = prefix
      BY Zenon, <1>1, <2>1
    <3>2. QED
      BY Zenon, <1>2, <3>1 DEF PrefixHolds, KVOf
  <2>2. CASE pass.name = "prefill"
    <3> DEFINE p == docs[1]
               q == SubSeq(p, 1, Common)
               c == Common
    <3>1. prefix' = [ids |-> q, kv |-> [l \in 1..L |-> SubSeq(filled[1][l], 1, c)]]
      BY Zenon, <1>1, <2>2
    <3>2. prefix'.ids = q /\ \A l \in 1..L : prefix'.kv[l] = SubSeq(filled[1][l], 1, c)
      <4> HIDE DEF p, q, c
      <4>1. QED
        BY <3>1
    <3>3. 1 \in 1..Len(docs)
      <4>1. pass.segments \in Nat \ {0} /\ pass.segments = Len(docs)
        BY Zenon, <1>2 DEF PassShape, Fills
      <4>2. QED
        BY <4>1
    <3>4. p \in Seq(Nat) /\ Len(p) \in Nat
      BY Zenon, <1>2, <3>3, PromptsAre
    <3>5. PICK m \in Nat : m = Len(p)
      BY Zenon, <3>4
    <3>6. c \in Nat /\ c < m
      <4>1. c \in Nat
        BY PassesAssumption
      <4>2. c < m
        BY Zenon, <1>2, <2>2, <3>5 DEF Fills
      <4>3. QED
        BY Zenon, <4>1, <4>2
    <3>7. c - 1 + 1 = c /\ \A i \in 1..c : 1 + i - 1 = i /\ i \in 1..m
      <4> HIDE DEF c
      <4>1. QED
        BY <3>6
    <3>8. q = [i \in 1..c |-> p[i]]
      <4> HIDE DEF p, c
      <4>1. Starting(p, c)
        BY Zenon, <3>6, StartIs
      <4>2. q = SubSeq(p, 1, c)
        BY Zenon DEF c
      <4>3. QED
        BY Zenon, <4>1, <4>2 DEF Starting
    <3>9. q \in Seq(Nat) /\ Len(q) = c
      <4> HIDE DEF p, c, q
      <4>1. \A i \in 1..c : p[i] \in Nat
        <5>1. \A i \in 1..m : p[i] \in Nat
          BY <3>4, <3>5
        <5>2. QED
          BY Zenon, <3>7, <5>1
      <4>2. q \in [1..c -> Nat]
        BY Zenon, <3>8, <4>1
      <4>3. QED
        BY <3>6, <4>2
    <3>10. ASSUME NEW l \in 1..L PROVE prefix'.kv[l] = KVOf(q, l)
      <4> HIDE DEF p, c, q
      <4>1. filled[1][l] = [i \in 1..m |-> P!PromptKV(p, l, i)]
        BY Zenon, <1>3, <3>3, <3>5 DEF KVOf, p
      <4>2. Starting(filled[1][l], c)
        BY Zenon, <3>6, StartIs
      <4>3. SubSeq(filled[1][l], 1, c) = [i \in 1..c |-> P!PromptKV(p, l, i)]
        <5>1. \A i \in 1..c : filled[1][l][i] = P!PromptKV(p, l, i)
          BY Zenon, <3>7, <4>1
        <5>2. QED
          BY Zenon, <4>2, <5>1 DEF Starting
      <4>4. PICK none \in Seq(Nat) : none = <<>>
        BY EmptySeq
      <4>5. \A i \in 1..Len(q) : q[i] = p[i]
        BY Zenon, <3>8, <3>9
      <4>6. Len(q) <= Len(p)
        BY <3>5, <3>6, <3>9
      <4>7. l - 1 \in 0..L
        BY PassesAssumption
      <4>8. \A i \in 1..c : P!RowsAfter(p, none, l - 1)[i] = P!RowsAfter(q, <<>>, l - 1)[i]
        BY Zenon, <3>4, <3>9, <4>5, <4>6, <4>7, Causal
      <4>9. \A i \in 1..c : P!PromptKV(p, l, i) = P!PromptKV(q, l, i)
        BY Zenon, <4>4, <4>8 DEF P!PromptKV
      <4>10. QED
        BY Zenon, <3>2, <3>9, <4>3, <4>9 DEF KVOf
    <3> HIDE DEF p, c, q
    <3>11. \A l \in 1..L : prefix'.kv[l] = KVOf(prefix'.ids, l)
      BY Zenon, <3>2, <3>10
    <3>12. QED
      BY Zenon, <3>2, <3>9, <3>11 DEF PrefixHolds, KVOf
  <2>3. QED
    BY Zenon, <2>1, <2>2
<1>8. PassHolds'
  <2>1. pass' = P!Idle'
    BY Zenon, <1>1 DEF P!Idle
  <2>2. QED
    BY Zenon, <2>1 DEF PassHolds
<1>9. QED
  BY Zenon, <1>5, <1>6, <1>7, <1>8 DEF PassesInv, Complete

LEMMA EndDecodeHolds ==
  ASSUME PassesInv, P!EndDecode
  PROVE  PassesInv'
<1>1. /\ pass # P!Idle /\ pass.canvas /\ pass' = P!Idle
      /\ prefix' = prefix /\ docs' = docs /\ kv' = kv
  BY Zenon DEF P!EndDecode
<1>2. DocsHave /\ PrefixHolds /\ Filled
  BY Zenon, <1>1 DEF PassesInv, Complete
<1>3. DocsHave'
  BY Zenon, <1>1, <1>2 DEF DocsHave
<1>4. PrefixHolds'
  BY Zenon, <1>1, <1>2 DEF PrefixHolds, KVOf
<1>5. Filled'
  BY Zenon, <1>1, <1>2 DEF Filled
<1>6. PassHolds'
  <2>1. pass' = P!Idle'
    BY Zenon, <1>1 DEF P!Idle
  <2>2. QED
    BY Zenon, <2>1 DEF PassHolds
<1>7. QED
  BY Zenon, <1>3, <1>4, <1>5, <1>6 DEF PassesInv, Complete

-----------------------------------------------------------------------------
(* Nothing is asked, or a request is gone: the prefix is what is kept. *)

LEMMA InitHolds ==
  ASSUME P!Init
  PROVE  PassesInv
<1>1. prefix = P!NoPrefix /\ docs = <<>> /\ kv = <<>> /\ pass = P!Idle
  BY Zenon DEF P!Init
<1>2. PrefixHolds
  <2>1. prefix.ids = <<>> /\ \A l \in 1..L : prefix.kv[l] = <<>>
    BY <1>1 DEF P!NoPrefix
  <2>2. <<>> \in Seq(Nat)
    BY EmptySeq
  <2>3. \A l \in 1..L : KVOf(prefix.ids, l) = <<>>
    BY Zenon, <2>1, NoRows
  <2>4. QED
    BY Zenon, <2>1, <2>2, <2>3 DEF PrefixHolds
<1>3. /\ docs \in Seq(Prompts) /\ DOMAIN kv = 1..Len(docs) /\ \A d \in 1..Len(docs) : FALSE
  BY <1>1
<1>4. DocsHave /\ Filled
  BY Zenon, <1>3 DEF DocsHave, Filled
<1>5. QED
  BY Zenon, <1>1, <1>2, <1>4 DEF PassesInv, PassHolds, Complete

LEMMA GoneHolds ==
  ASSUME docs' = <<>>, DocsHave', pass' = P!Idle, PrefixHolds'
  PROVE  PassesInv'
<1>1. \A d \in 1..Len(docs') : FALSE
  OBVIOUS
<1>2. Filled'
  BY Zenon, <1>1 DEF Filled
<1>3. PassHolds'
  <2>1. pass' = P!Idle'
    BY Zenon DEF P!Idle
  <2>2. QED
    BY Zenon, <2>1 DEF PassHolds
<1>4. QED
  BY Zenon, <1>2, <1>3 DEF PassesInv, Complete

LEMMA RequestGoneHolds ==
  ASSUME PassesInv, P!Answered \/ P!Fail
  PROVE  PassesInv'
<1>1. docs' = <<>> /\ kv' = <<>> /\ pass' = P!Idle /\ prefix' = prefix
  BY Zenon DEF P!Answered, P!Fail, P!RequestGone
<1>2. PrefixHolds'
  <2>1. PrefixHolds
    BY Zenon DEF PassesInv
  <2>2. QED
    BY Zenon, <1>1, <2>1 DEF PrefixHolds, KVOf
<1>3. DocsHave'
  <2>1. /\ docs' \in Seq(Prompts) /\ DOMAIN kv' = 1..Len(docs') /\ \A d \in 1..Len(docs') : FALSE
    BY <1>1
  <2>2. QED
    BY Zenon, <2>1 DEF DocsHave
<1>4. QED
  BY Zenon, <1>1, <1>2, <1>3, GoneHolds

LEMMA Unmoved ==
  ASSUME PassesInv, UNCHANGED P!vars
  PROVE  PassesInv'
<1>1. /\ prefix' = prefix /\ docs' = docs /\ kv' = kv /\ canvas' = canvas
      /\ pass' = pass /\ layer' = layer /\ x' = x /\ kv_out' = kv_out
  BY DEF P!vars
<1>2. UNCHANGED <<docs, canvas, pass>>
  BY <1>1
<1>3. /\ \A s : PromptOf(s)' = PromptOf(s) /\ CanvasOf(s)' = CanvasOf(s) /\ Before(s)' = Before(s)
      /\ \A s, t : Row(s, t)' = Row(s, t)
      /\ P!N' = P!N /\ \A l : P!StageOffset(l)' = P!StageOffset(l)
  BY Zenon, <1>2, SamePass
<1>4. PrefixHolds'
  <2>1. PrefixHolds
    BY Zenon DEF PassesInv
  <2>2. QED
    BY Zenon, <1>1, <2>1 DEF PrefixHolds, KVOf
<1>5. DocsHave'
  <2>1. DocsHave
    BY Zenon DEF PassesInv
  <2>2. QED
    BY Zenon, <1>1, <2>1 DEF DocsHave
<1>6. Complete'
  <2>1. Complete
    BY Zenon DEF PassesInv
  <2>2. ASSUME pass = P!Idle \/ pass.canvas PROVE Filled'
    <3>1. Filled
      BY Zenon, <2>1, <2>2 DEF Complete
    <3>2. QED
      BY Zenon, <1>1, <3>1 DEF Filled
  <2>3. P!Idle' = P!Idle
    BY Zenon DEF P!Idle
  <2>4. QED
    BY Zenon, <1>1, <2>2, <2>3 DEF Complete
<1>7. ASSUME pass # P!Idle PROVE PassHolds'
  <2>1. PassShape /\ RowsHold /\ (IF pass.canvas THEN Reads ELSE Fills)
    BY Zenon, <1>7 DEF PassesInv, PassHolds
  <2>2. PassShape'
    BY Zenon, <1>1, <1>3, <2>1 DEF PassShape
  <2>3. RowsHold'
    <3>1. ASSUME NEW s \in 1..pass.segments, NEW t \in 0..(pass.lens[s] - 1)
          PROVE  x'[Row(s, t)'] = P!RowsAfter(PromptOf(s)', CanvasOf(s)', layer')[Before(s)' + t + 1]
      <4>1. x[Row(s, t)] = P!RowsAfter(PromptOf(s), CanvasOf(s), layer)[Before(s) + t + 1]
        BY Zenon, <2>1 DEF RowsHold
      <4>2. QED
        BY Zenon, <1>1, <1>3, <4>1
    <3>2. QED
      BY Zenon, <1>1, <3>1 DEF RowsHold
  <2>4. CASE pass.canvas
    <3>1. Reads'
      BY Zenon, <1>1, <2>1, <2>4 DEF Reads, ReadsFrom
    <3>2. QED
      BY Zenon, <1>1, <2>2, <2>3, <2>4, <3>1 DEF PassHolds
  <2>5. CASE ~pass.canvas
    <3>1. Fills
      BY Zenon, <2>1, <2>5
    <3>2. \A s \in 1..pass.segments : FillsFrom(s)'
      BY Zenon, <1>1, <3>1 DEF Fills, FillsFrom, Begins
    <3>3. ASSUME NEW d \in 1..Len(docs), NEW l \in 1..L PROVE kv'[d][l] = FilledSoFar(d, l)'
      <4>1. kv[d][l] = FilledSoFar(d, l)
        BY Zenon, <3>1 DEF Fills
      <4>2. P!Unset' = P!Unset
        BY Zenon DEF P!Unset
      <4>3. QED
        BY Zenon, <1>1, <1>3, <4>1, <4>2 DEF FilledSoFar
    <3>4. ASSUME pass.accel PROVE StagedRows'
      <4>1. StagedRows
        BY Zenon, <3>1, <3>4 DEF Fills
      <4>2. ASSUME NEW l \in 1..layer, NEW s \in 1..pass.segments, NEW t \in 0..(pass.lens[s] - 1)
            PROVE  kv_out'[P!StageOffset(l)' + Row(s, t)'] = P!PromptKV(docs'[s], l, Before(s)' + t + 1)
        <5>1. kv_out[P!StageOffset(l) + Row(s, t)] = P!PromptKV(docs[s], l, Before(s) + t + 1)
          BY Zenon, <4>1 DEF StagedRows
        <5>2. P!StageOffset(l)' = P!StageOffset(l) /\ Row(s, t)' = Row(s, t) /\ Before(s)' = Before(s)
          BY Zenon, <1>3
        <5>3. QED
          BY Zenon, <1>1, <5>1, <5>2
      <4>3. Listed(kv_out', P!N' * layer')
        BY Zenon, <1>1, <1>3, <4>1 DEF StagedRows
      <4>4. QED
        BY Zenon, <1>1, <4>2, <4>3 DEF StagedRows
    <3>5. Fills'
      BY Zenon, <1>1, <3>1, <3>2, <3>3, <3>4 DEF Fills
    <3>6. QED
      BY Zenon, <1>1, <2>2, <2>3, <2>5, <3>5 DEF PassHolds
  <2>6. QED
    BY Zenon, <2>4, <2>5
<1>8. PassHolds'
  <2>1. P!Idle' = P!Idle
    BY Zenon DEF P!Idle
  <2>2. QED
    BY Zenon, <1>1, <1>7, <2>1 DEF PassHolds
<1>9. QED
  BY Zenon, <1>4, <1>5, <1>6, <1>8 DEF PassesInv

LEMMA ForgetHolds ==
  ASSUME PassesInv, P!Forget
  PROVE  PassesInv'
<1>1. /\ docs = <<>> /\ prefix' = P!NoPrefix /\ docs' = docs /\ kv' = kv
      /\ canvas' = canvas /\ pass' = pass /\ layer' = layer /\ x' = x /\ kv_out' = kv_out
  BY Zenon DEF P!Forget
<1>2. pass = P!Idle
  <2>1. ASSUME pass # P!Idle PROVE FALSE
    <3>1. pass.segments \in Nat \ {0} /\ (IF pass.canvas THEN Reads ELSE Fills)
      BY Zenon, <2>1 DEF PassesInv, PassHolds, PassShape
    <3>2. Len(docs) = 0 /\ 1 \in 1..pass.segments /\ \A d \in 1..Len(docs) : FALSE
      BY <1>1, <3>1
    <3>3. CASE pass.canvas
      <4>1. canvas[1].doc \in 1..Len(docs)
        BY Zenon, <3>1, <3>2, <3>3 DEF Reads, ReadsFrom
      <4>2. QED
        BY Zenon, <3>2, <4>1
    <3>4. CASE ~pass.canvas
      <4>1. pass.segments = 0
        BY Zenon, <3>1, <3>2, <3>4 DEF Fills
      <4>2. QED
        BY Zenon, <3>1, <4>1
    <3>5. QED
      BY Zenon, <3>3, <3>4
  <2>2. QED
    BY Zenon, <2>1
<1>3. DocsHave'
  <2>1. DocsHave
    BY Zenon DEF PassesInv
  <2>2. QED
    BY Zenon, <1>1, <2>1 DEF DocsHave
<1>4. PrefixHolds'
  BY Zenon, <1>1, NoPrefixHolds
<1>5. docs' = <<>> /\ pass' = P!Idle
  BY Zenon, <1>1, <1>2
<1>6. QED
  BY Zenon, <1>3, <1>4, <1>5, GoneHolds

-----------------------------------------------------------------------------
(* Every step keeps the invariant, and it has what the runs check. *)

LEMMA PassesStep ==
  ASSUME PassesInv, P!Next \/ UNCHANGED P!vars
  PROVE  PassesInv'
<1>1. CASE UNCHANGED P!vars
  BY Zenon, <1>1, Unmoved
<1>2. ASSUME NEW a \in Accels,
             \/ \E p \in Prompts : P!Prefill(p, a)
             \/ \E ds \in P!UpTo(Prompts, MaxSegments) : P!PrefillSuffix(ds, a)
             \/ \E what \in P!UpTo([doc : DOMAIN docs, ids : Canvases], MaxSegments) :
                  P!Decode(what, a)
      PROVE  PassesInv'
  <2>1. ASSUME NEW p \in Prompts, P!Prefill(p, a) PROVE PassesInv'
    BY Zenon, <2>1, PrefillHolds
  <2>2. ASSUME NEW ds \in P!UpTo(Prompts, MaxSegments), P!PrefillSuffix(ds, a) PROVE PassesInv'
    <3>1. PICK k \in 1..MaxSegments : ds \in [1..k -> Prompts]
      BY Zenon DEF P!UpTo
    <3>2. QED
      BY Zenon, <2>2, <3>1, PrefillSuffixHolds
  <2>3. ASSUME NEW what \in P!UpTo([doc : DOMAIN docs, ids : Canvases], MaxSegments),
               P!Decode(what, a)
        PROVE  PassesInv'
    <3>1. PICK k \in 1..MaxSegments : what \in [1..k -> [doc : DOMAIN docs, ids : Canvases]]
      BY Zenon DEF P!UpTo
    <3>2. QED
      BY Zenon, <2>3, <3>1, DecodeHolds
  <2>4. QED
    BY Zenon, <1>2, <2>1, <2>2, <2>3
<1>3. CASE P!Layer
  BY Zenon, <1>3, LayerHolds
<1>4. CASE P!EndFill
  BY Zenon, <1>4, EndFillHolds
<1>5. CASE P!EndDecode
  BY Zenon, <1>5, EndDecodeHolds
<1>6. CASE P!Answered \/ P!Fail
  BY Zenon, <1>6, RequestGoneHolds
<1>7. CASE P!Forget
  BY Zenon, <1>7, ForgetHolds
<1>8. QED
  BY Zenon, <1>1, <1>2, <1>3, <1>4, <1>5, <1>6, <1>7 DEF P!Next

LEMMA KVIs ==
  ASSUME PassesInv
  PROVE  P!KVIsThePrompts
<1>1. DocsHave /\ PrefixHolds /\ Complete
  BY Zenon DEF PassesInv
<1>2. ASSUME NEW d \in 1..Len(docs)
      PROVE  Len(docs[d]) \in Nat
  BY Zenon, <1>1, PromptsAre
<1>3. ASSUME NEW d \in 1..Len(docs), NEW l \in 1..L, NEW i \in DOMAIN kv[d][l]
      PROVE  \/ kv[d][l][i] = P!PromptKV(docs[d], l, i)
             \/ pass # P!Idle /\ kv[d][l][i] = P!Unset
  <2>1. CASE pass = P!Idle \/ pass.canvas
    <3>1. kv[d][l] = KVOf(docs[d], l)
      BY Zenon, <1>1, <2>1 DEF Complete, Filled
    <3>2. QED
      BY Zenon, <3>1 DEF KVOf
  <2>2. CASE pass # P!Idle /\ ~pass.canvas
    <3>1. kv[d][l] = FilledSoFar(d, l)
      BY Zenon, <2>2 DEF PassesInv, PassHolds, Fills
    <3>2. CASE l > layer
      <4>1. kv[d][l] = <<>>
        BY Zenon, <3>1, <3>2 DEF FilledSoFar
      <4>2. \A j \in DOMAIN <<>> : FALSE
        OBVIOUS
      <4>3. QED
        BY Zenon, <4>1, <4>2
    <3>3. CASE ~(l > layer)
      <4>1. kv[d][l] = [j \in 1..Len(docs[d]) |->
                        IF pass.accel /\ j > Before(d) THEN P!Unset ELSE P!PromptKV(docs[d], l, j)]
        BY Zenon, <3>1, <3>3 DEF FilledSoFar
      <4>2. QED
        BY Zenon, <2>2, <4>1
    <3>4. QED
      BY Zenon, <3>2, <3>3
  <2>3. QED
    BY Zenon, <2>1, <2>2
<1>4. \A d \in DOMAIN kv : \A l \in 1..L : \A i \in DOMAIN kv[d][l] :
        kv[d][l][i] \in {P!PromptKV(docs[d], l, i)} \cup (IF pass = P!Idle THEN {} ELSE {P!Unset})
  BY Zenon, <1>1, <1>3 DEF DocsHave
<1>5. ASSUME NEW p, NEW l, Len(p) \in Nat PROVE Len(KVOf(p, l)) = Len(p)
  <2>1. Listed(KVOf(p, l), Len(p))
    BY Zenon DEF KVOf, Listed
  <2>2. QED
    BY Zenon, <1>5, <2>1, ListedLen
<1>6. pass = P!Idle => \A d \in DOMAIN kv : \A l \in 1..L : Len(kv[d][l]) = Len(docs[d])
  BY Zenon, <1>1, <1>2, <1>5 DEF Complete, Filled, DocsHave
<1>7. ASSUME NEW l \in 1..L
      PROVE  /\ Len(prefix.kv[l]) = Len(prefix.ids)
             /\ \A i \in DOMAIN prefix.ids : prefix.kv[l][i] = P!PromptKV(prefix.ids, l, i)
  <2>1. prefix.ids \in Seq(Nat) /\ prefix.kv[l] = KVOf(prefix.ids, l)
    BY Zenon, <1>1 DEF PrefixHolds
  <2>2. Len(prefix.ids) \in Nat /\ DOMAIN prefix.ids = 1..Len(prefix.ids)
    BY <2>1, LenProperties
  <2>3. QED
    BY Zenon, <1>5, <2>1, <2>2 DEF KVOf
<1>8. QED
  BY Zenon, <1>4, <1>6, <1>7 DEF P!KVIsThePrompts

LEMMA CanvasesAre ==
  ASSUME PassesInv
  PROVE  P!CanvasesReadAlone
<1>1. SUFFICES ASSUME pass # P!Idle, layer = L, pass.canvas,
                      NEW s \in DOMAIN canvas, NEW t \in DOMAIN canvas[s].ids
               PROVE  x[(s - 1) * pass.seq + t] =
                        P!RowsAfter(docs[canvas[s].doc], canvas[s].ids, L)[Len(docs[canvas[s].doc]) + t]
  BY Zenon DEF P!CanvasesReadAlone
<1>2. PassShape /\ RowsHold /\ Reads /\ DocsHave
  BY Zenon, <1>1 DEF PassesInv, PassHolds
<1>3. s \in 1..pass.segments /\ ReadsFrom(s)
  BY Zenon, <1>2 DEF Reads
<1> DEFINE c == canvas[s].ids
           p == docs[canvas[s].doc]
<1>4. c \in Canvases /\ Len(c) = pass.seq /\ pass.lens[s] = pass.seq /\ Len(p) \in Nat
  BY Zenon, <1>2, <1>3, PromptsAre DEF ReadsFrom
<1>5. PromptOf(s) = p /\ CanvasOf(s) = c /\ Before(s) = Len(p)
  BY Zenon, <1>1 DEF PromptOf, CanvasOf, Before
<1> HIDE DEF c, p
<1>6. PICK w \in Nat \ {0} : w = pass.seq
  BY Zenon, <1>2 DEF PassShape
<1>7. DOMAIN c = 1..w
  <2>1. c \in Seq(Nat)
    BY Zenon, <1>4, CanvasIs
  <2>2. DOMAIN c = 1..Len(c)
    BY <2>1, LenProperties
  <2>3. QED
    BY Zenon, <1>4, <1>6, <2>2
<1>8. t \in 1..w
  BY Zenon, <1>1, <1>7 DEF c
<1>9. t - 1 \in 0..(w - 1) /\ Len(p) + (t - 1) + 1 = Len(p) + t
  BY <1>4, <1>8
<1>10. x[Row(s, t - 1)] = P!RowsAfter(p, c, L)[Len(p) + t]
  BY Zenon, <1>1, <1>2, <1>3, <1>4, <1>5, <1>6, <1>9 DEF RowsHold
<1>11. Row(s, t - 1) = (s - 1) * w + t
  <2>1. s - 1 \in Int
    BY <1>2, <1>3 DEF PassShape
  <2>2. (s - 1) * w \in Int
    BY <2>1
  <2>3. PICK b \in Int : b = (s - 1) * w
    BY Zenon, <2>2
  <2>4. b + (t - 1) + 1 = b + t
    BY <1>8
  <2>5. QED
    BY Zenon, <1>6, <2>3, <2>4 DEF Row
<1>12. QED
  BY Zenon, <1>6, <1>10, <1>11 DEF c, p

-----------------------------------------------------------------------------
(* The invariant of the passes, and what it says of prompts and canvases. *)

LEMMA PassesInvariant == P!Spec => []PassesInv
<1>1. P!Init => PassesInv
  BY Zenon, InitHolds
<1>2. PassesInv /\ [P!Next]_(P!vars) => PassesInv'
  BY Zenon, PassesStep
<1>3. QED
  BY <1>1, <1>2, PTL DEF P!Spec

(* The rows kept for a prompt, of a request or in the prefix cache, are the  *)
(* prompt's own, each in its place, however they were computed: whole or     *)
(* after a cached prefix, alone or packed and padded, on either side, and    *)
(* whatever failed before (engine.inc:359-690, 934-1251).                    *)
THEOREM KVRowsAreThePrompts == P!Spec => []KVIsThePrompts
<1>1. PassesInv => KVIsThePrompts
  BY Zenon, KVIs DEF KVIsThePrompts
<1>2. QED
  BY <1>1, PassesInvariant, PTL

(* A canvas reads what it would read alone, whatever prompts and canvases    *)
(* share its pass (engine.inc:1208-1251).                                    *)
THEOREM CanvasesReadWhatTheyWouldAlone == P!Spec => []CanvasesReadAlone
<1>1. PassesInv => CanvasesReadAlone
  BY Zenon, CanvasesAre DEF CanvasesReadAlone
<1>2. QED
  BY <1>1, PassesInvariant, PTL
=============================================================================
