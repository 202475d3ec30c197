------------------------------- MODULE Experts -------------------------------
(***************************************************************************)
(* The mixture of experts of a layer: each token's top experts, its rows   *)
(* grouped by expert so that an expert's weights are read once, and the    *)
(* tokens' sums.  The host loops over the experts; the accelerator's       *)
(* threads group the rows, one for each expert, and its blocks take the    *)
(* rows of an expert by tiles.                                             *)
(* src/engine.inc:682-870, 895-916; src/cuda.inc:262-334, 479-498,         *)
(* 784-876, 1896-1905.                                                     *)
(***************************************************************************)
EXTENDS Integers, Sequences, SequencesExt, FiniteSets, FiniteSetsExt

CONSTANTS
  Logits,              \* router logits a token may have, one for each expert; finite
  MaxTokens,           \* bound: tokens of a pass
  TopK,                \* DG_TOPK
  TileTokens,          \* DG_CUDA_TOKENS
  GridY                \* DG_CUDA_GRID_Y: blocks of a launch

VARIABLES
  logits,              \* the tokens of the layer
  accel,
  top,                 \* the experts of each token, best first
  expert,              \* the expert the host is at
  contrib,             \* the host's products, for each token and choice
  grouped,             \* threads that have grouped their expert's rows
  index, slot, tiles,  \* rows to tokens; choices to rows; tiles of rows
  eo,                  \* the device's products, for each row
  blocks,              \* blocks of the grouped product that have run
  sums,                \* the tokens' products in the order they are summed
  phase

vars == <<logits, accel, top, expert, contrib, grouped, index, slot, tiles, eo, blocks, sums, phase>>
device == <<grouped, index, slot, tiles, eo, blocks>>

Experts == 0..(Len(CHOOSE r \in Logits : TRUE) - 1)
Tokens == DOMAIN logits
Nobody == -1                   \* a place nothing has been written to
Least == -1000                 \* -FLT_MAX, below every logit

-----------------------------------------------------------------------------
(* Definitions called Faulty... are mistakes a run must tell from the code. *)

(* An equal logit displaces an earlier one. *)
FaultyBeats(r, e) == r >= e

Beats(r, e) == r > e

(* dg_route_token: an expert displaces the first it beats. *)
Inserted(chosen, e, r) ==
  LET beaten == {k \in 1..TopK : Beats(r, chosen[k].value)}
  IN  IF beaten = {} THEN chosen
      ELSE SubSeq(InsertAt(chosen, Min(beaten), [id |-> e, value |-> r]), 1, TopK)

Routed(row) ==
  FoldLeftDomain(LAMBDA chosen, i : Inserted(chosen, i - 1, row[i]),
                 [k \in 1..TopK |-> [id |-> k - 1, value |-> Least]], row)

TopOf(row) == [k \in 1..TopK |-> Routed(row)[k].id]

Rows == Len(logits) * TopK

(* Tokens and choices in the order of the loops over them. *)
Assigned == [i \in 1..Rows |-> <<(i - 1) \div TopK + 1, ((i - 1) % TopK) + 1>>]

(* The loops append to an expert's rows the choices of it. *)
Owned(e) ==
  FoldLeft(LAMBDA owner, c : IF top[c[1]][c[2]] = e THEN Append(owner, c) ELSE owner,
           <<>>, Assigned)

Product(e, t) == [expert |-> e, token |-> t]

Total(counts) == FoldLeft(LAMBDA sum, c : sum + c, 0, counts)

(* The kernel's counts, and where each expert's rows and tiles start. *)
Count(e) == Len(Owned(e))

RowOffset(e) == Total([i \in 1..e |-> Count(i - 1)])

TilesOf(n) == (n + TileTokens - 1) \div TileTokens

FaultyTileOffset(e) == TilesOf(RowOffset(e))

TileOffset(e) == Total([i \in 1..e |-> TilesOf(Count(i - 1))])

NTiles == TileOffset(Max(Experts) + 1)

(* Blocks along the grid's second dimension; each takes every so many tiles. *)
Grid ==
  LET bound == Rows \div TileTokens + Cardinality(Experts)
  IN  Min({bound, Rows, GridY})

BlockTiles(b) == {i \in 0..(NTiles - 1) : i % Grid = b}

-----------------------------------------------------------------------------
Nothing ==
  /\ top = <<>> /\ expert = 0 /\ contrib = <<>>
  /\ grouped = {} /\ index = <<>> /\ slot = <<>> /\ tiles = <<>> /\ eo = <<>>
  /\ blocks = {} /\ sums = <<>>

Init == logits = <<>> /\ accel = FALSE /\ Nothing /\ phase = "rest"

Start(rows, a) ==
  /\ phase = "rest" /\ phase' = "route"
  /\ logits' = rows /\ accel' = a
  /\ UNCHANGED <<top, expert, contrib, device, sums>>

(* dg_route_token on the host, or the kernel with one token per block. *)
Route ==
  /\ phase = "route" /\ phase' = IF accel THEN "group" ELSE "experts"
  /\ top' = [t \in Tokens |-> TopOf(logits[t])]
  /\ expert' = 0
  /\ contrib' = [t \in Tokens |-> [k \in 1..TopK |-> Nobody]]
  /\ index' = [r \in 1..Rows |-> Nobody] /\ eo' = [r \in 1..Rows |-> Nobody]
  /\ tiles' = [i \in 1..Rows |-> Nobody]
  /\ slot' = [t \in Tokens |-> [k \in 1..TopK |-> Nobody]]
  /\ UNCHANGED <<logits, accel, grouped, blocks, sums>>

(* One turn of dg_ff's loop over the experts. *)
RunExpert ==
  /\ phase = "experts" /\ expert \in Experts
  /\ LET gather == [q \in DOMAIN Owned(expert) |-> Owned(expert)[q][1]]
         out == [q \in DOMAIN gather |-> Product(expert, gather[q])]
         Row(t, k) == CHOOSE q \in DOMAIN gather : Owned(expert)[q] = <<t, k>>
     IN  contrib' = [t \in Tokens |-> [k \in 1..TopK |->
                       IF top[t][k] = expert THEN out[Row(t, k)] ELSE contrib[t][k]]]
  /\ expert' = expert + 1
  /\ UNCHANGED <<logits, accel, top, device, sums, phase>>

SumOnHost ==
  /\ phase = "experts" /\ expert \notin Experts
  /\ sums' = contrib /\ phase' = "summed"
  /\ UNCHANGED <<logits, accel, top, expert, contrib, device>>

(* dg_group after its barriers: a thread's part, in any order. *)
GroupThread(e) ==
  /\ phase = "group" /\ e \notin grouped
  /\ LET mine == Owned(e)
         RowOf(q) == RowOffset(e) + q
     IN  /\ index' = [r \in 1..Rows |->
              IF r - RowOffset(e) \in DOMAIN mine THEN mine[r - RowOffset(e)][1] ELSE index[r]]
         /\ slot' = [t \in Tokens |-> [k \in 1..TopK |->
              IF top[t][k] = e THEN RowOf(CHOOSE q \in DOMAIN mine : mine[q] = <<t, k>>)
              ELSE slot[t][k]]]
         /\ tiles' = [i \in 1..Rows |->
              LET j == i - 1 - TileOffset(e)
              IN  IF j >= 0 /\ j * TileTokens < Count(e)
                  THEN [start |-> RowOffset(e) + j * TileTokens,
                        count |-> Min({Count(e) - j * TileTokens, TileTokens}), group |-> e]
                  ELSE tiles[i]]
  /\ grouped' = grouped \cup {e}
  /\ UNCHANGED <<logits, accel, top, expert, contrib, eo, blocks, sums, phase>>

Launch ==
  /\ phase = "group" /\ grouped = Experts /\ phase' = "product"
  /\ UNCHANGED <<logits, accel, top, expert, contrib, device, sums>>

(* dg_nvfp4_mm of gathered rows: a block's tiles, blocks in any order. *)
RunBlock(b) ==
  /\ phase = "product" /\ b < Grid /\ b \notin blocks
  /\ eo' = [r \in 1..Rows |->
       LET covering == {i \in BlockTiles(b) : r - tiles[i + 1].start \in 1..tiles[i + 1].count}
       IN  IF covering = {} THEN eo[r]
           ELSE Product(tiles[Max(covering) + 1].group, index[r])]
  /\ blocks' = blocks \cup {b}
  /\ UNCHANGED <<logits, accel, top, expert, contrib, grouped, index, slot, tiles, sums, phase>>

(* dg_moe_tail, one token per block. *)
SumOnDevice ==
  /\ phase = "product" /\ blocks = 0..(Grid - 1)
  /\ sums' = [t \in Tokens |-> [k \in 1..TopK |-> eo[slot[t][k]]]]
  /\ phase' = "summed"
  /\ UNCHANGED <<logits, accel, top, expert, contrib, device>>

Return ==
  /\ phase = "summed" /\ phase' = "rest"
  /\ logits' = <<>> /\ accel' = FALSE /\ top' = <<>> /\ expert' = 0 /\ contrib' = <<>>
  /\ grouped' = {} /\ index' = <<>> /\ slot' = <<>> /\ tiles' = <<>> /\ eo' = <<>>
  /\ blocks' = {} /\ sums' = <<>>

Next ==
  \/ \E n \in 1..MaxTokens : \E rows \in [1..n -> Logits], a \in BOOLEAN : Start(rows, a)
  \/ Route \/ RunExpert \/ SumOnHost
  \/ \E e \in Experts : GroupThread(e)
  \/ Launch
  \/ \E b \in 0..(MaxTokens * TopK) : RunBlock(b)
  \/ SumOnDevice \/ Return

Spec == Init /\ [][Next]_vars

-----------------------------------------------------------------------------
(* An expert's place: how many come before it, by logit and then by number. *)
Place(row, e) ==
  Cardinality({i \in Experts : row[i + 1] > row[e + 1] \/ (row[i + 1] = row[e + 1] /\ i < e)})

(* A token's sum is of its own rows through its own best experts, the best   *)
(* first, ties to the lower number, each once: whatever the order of threads *)
(* and blocks, however rows are tiled, and next to whatever tokens, so that  *)
(* host and accelerator agree bit for bit (README.md:46-47).                 *)
MixtureIsTheTokensOwn ==
  \A t \in DOMAIN sums : \A k \in 1..TopK :
    sums[t][k] = Product(CHOOSE e \in Experts : Place(logits[t], e) = k - 1, t)

(* The tiles of the grouped product fit the table planned for them, which has *)
(* one for each routed row, and cover every row exactly once; a host expert's *)
(* rows fit the room of one row for each token.                               *)
TilesCoverRows ==
  /\ top # <<>> => \A e \in Experts : Count(e) <= Len(logits)
  /\ phase = "product" =>
       /\ NTiles <= Rows
       /\ \A r \in 1..Rows :
            Cardinality({i \in 1..NTiles : r - tiles[i].start \in 1..tiles[i].count}) = 1
=============================================================================
