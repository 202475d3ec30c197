------------------------------ MODULE CudaBlocks ------------------------------
(***************************************************************************)
(* The matrix products of the accelerator: a grid of blocks, each of       *)
(* threads that stage weights and activations for each other in shared     *)
(* memory, chunk by chunk, between barriers.  dg_nvfp4_mm and dg_bf16_mm   *)
(* load a chunk and stage it at once; dg_bf16_body, of column counts that  *)
(* are a multiple of a chunk, loads the next chunk while it computes.  A   *)
(* unit of a row is what is staged of it at a time: a block of NVFP4       *)
(* weights or some columns of BF16 weights.  Blocks share nothing but the  *)
(* result, so one runs at a time, in any order.                            *)
(* src/cuda.inc:233-413, 611-712, 1770-1773, 1887-1892, 1904-1994.         *)
(***************************************************************************)
EXTENDS Integers, Sequences, SequencesExt, FiniteSets, FiniteSetsExt

CONSTANTS
  Launches,     \* [kernel, groups, rows, units]: a matrix for each token, of one shape
  BlockRows,    \* DG_ROWS, ROWS: rows of a block
  BlockTokens,  \* DG_TOKENS, DG_BTOKENS, TOKENS: tokens of a tile
  Slices,       \* TY of dg_bf16_body: threads that share a row, each for some tokens
  ChunkUnits,   \* DG_BLOCKS, DG_BCOLS: units staged at a time
  GridY         \* DG_CUDA_GRID_Y: the most blocks along the tiles

VARIABLES
  launch,       \* the product that runs, or NoLaunch
  dy,           \* what has been stored at each index of the result, in order
  finished,     \* blocks that have ended
  block,        \* the block that runs: along the rows and along the tiles; or NoBlock
  pc, ti,       \* where each thread is, and in which tile
  chunk,        \* the first unit of the chunk it is at
  held,         \* and of that in its registers
  sum,          \* its sums, one for each of its tokens
  ws, xs        \* shared: units of the block's rows, units of the tile's tokens

threads == <<pc, ti, chunk, held, sum>>
shared == <<ws, xs>>
vars == <<launch, dy, finished, block, threads, shared>>

NoLaunch == [kernel |-> "none"]
NoBlock == <<>>
Stale == "stale"               \* what nothing has been staged over

rows == launch.rows
units == launch.units
count == Len(launch.groups)    \* tokens
Piped == launch.kernel = "bf16_body"

TY == IF Piped THEN Slices ELSE 1
NT == BlockRows * TY
Threads == 0..(NT - 1)
TX(id) == id % BlockRows
SlicesOf(id) == id \div BlockRows

-----------------------------------------------------------------------------
(* dg_cuda_nvfp4_mm: up to BlockTokens tokens in a row that share a matrix.   *)
(* The BF16 kernels' tiles are those of one matrix.                          *)
Closes(made, t) ==
  \/ made = <<>> \/ Last(made).count = BlockTokens
  \/ Last(made).group # launch.groups[t + 1]

Tiled(made, t) ==
  IF Closes(made, t) THEN Append(made, [start |-> t, count |-> 1, group |-> launch.groups[t + 1]])
  ELSE [made EXCEPT ![Len(made)].count = @ + 1]

Tiles == FoldLeft(Tiled, <<>>, [t \in 1..count |-> t - 1])

Ceiling(n, per) == (n + per - 1) \div per

(* dg_cuda_blocks *)
GridBlocks(work, per, most) == Min({Max({Ceiling(work, per), 1}), most})

Grid == {<<bx, by>> : bx \in 0..(Ceiling(rows, BlockRows) - 1),
                      by \in 0..(GridBlocks(Len(Tiles), 1, GridY) - 1)}

TileOf(id) == Tiles[ti[id] + 1]

(* Units of shared memory: by unit and row, and by token and unit. *)
WeightSlots == (0..(ChunkUnits - 1)) \X (0..(BlockRows - 1))
InputSlots == (0..(BlockTokens - 1)) \X (0..(ChunkUnits - 1))

-----------------------------------------------------------------------------
(* A unit of a row in memory, and of a token's activations. *)
WeightUnit(group, r, u) == <<group, r, u>>
InputUnit(t, u) == <<t, u>>

R0 == block[1] * BlockRows

InChunk(c0) == Min({units - c0, ChunkUnits})

(* The slots of shared memory a thread fills, of so many for each row: every *)
(* NT-th, so that most belong to other threads' rows.                        *)
Mine(id, n, width) == {<<i \div width, i % width>> : i \in {j \in 0..(n * width - 1) : j % NT = id}}

Clamped(row) == IF R0 + row < rows THEN R0 + row ELSE rows - 1

(* A last chunk of dg_bf16_mm is shared out by the units there are. *)
Width(c0) == IF launch.kernel = "bf16_mm" THEN InChunk(c0) ELSE ChunkUnits

(* The chunk a thread stages: what its registers hold, or loaded now. *)
Source(id) == IF Piped THEN held[id] ELSE chunk[id]

(* dg_nvfp4_chunk<S>: sums of as many tokens as the least S that covers the  *)
(* tile, the surplus of stale activations.                                   *)
Computed(n) ==
  IF launch.kernel = "nvfp4_mm" THEN Min({s \in {1, 2, 4, BlockTokens} : s >= n}) ELSE n

(* A thread's tokens of a tile. *)
Tokens(id) ==
  IF Piped THEN {SlicesOf(id) * (BlockTokens \div TY) + k : k \in 0..(BlockTokens \div TY - 1)}
  ELSE 0..(BlockTokens - 1)

-----------------------------------------------------------------------------
AtRest ==
  /\ pc = <<>> /\ ti = <<>> /\ chunk = <<>> /\ held = <<>> /\ sum = <<>>
  /\ ws = <<>> /\ xs = <<>>

Init == launch = NoLaunch /\ dy = <<>> /\ finished = {} /\ block = NoBlock /\ AtRest

(* dg_cuda_nvfp4_mm, dg_cuda_bf16_mm *)
Multiply(l) ==
  /\ launch = NoLaunch /\ launch' = l
  /\ l.kernel = "bf16_body" => l.units % ChunkUnits = 0
  /\ UNCHANGED <<dy, finished, block, threads, shared>>

NoSums(id) == [t \in Tokens(id) |-> <<>>]

StartBlock(b) ==
  /\ launch # NoLaunch /\ block = NoBlock /\ b \in Grid \ finished
  /\ block' = b
  /\ pc' = [id \in Threads |-> "sync before"] /\ ti' = [id \in Threads |-> b[2]]
  /\ chunk' = [id \in Threads |-> 0] /\ held' = [id \in Threads |-> 0]
  /\ sum' = [id \in Threads |-> NoSums(id)]
  /\ ws' = [p \in WeightSlots |-> Stale]
  /\ xs' = [p \in InputSlots |-> Stale]
  /\ UNCHANGED <<launch, dy, finished>>

(* __syncthreads lets go when every thread of the block has arrived at one. *)
Barrier ==
  /\ block # NoBlock /\ \A id \in Threads : pc[id] \in {"sync before", "sync after"}
  /\ pc' = [id \in Threads |-> IF pc[id] = "sync before" THEN "stage" ELSE "compute"]
  /\ UNCHANGED <<launch, dy, finished, block, ti, chunk, held, sum, shared>>

(* Rows past the end repeat the last one. *)
Stage(id) ==
  /\ block # NoBlock /\ id \in Threads /\ pc[id] = "stage"
  /\ LET c0 == Source(id)
         weights == {s \in Mine(id, BlockRows, Width(c0)) : s[2] < InChunk(c0)}
         inputs == {s \in Mine(id, BlockTokens, ChunkUnits) :
                      s[1] < TileOf(id).count /\ s[2] < InChunk(c0)}
     IN  /\ ws' = [p \in DOMAIN ws |->
              IF <<p[2], p[1]>> \in weights
              THEN WeightUnit(TileOf(id).group, Clamped(p[2]), c0 + p[1]) ELSE ws[p]]
         /\ xs' = [p \in DOMAIN xs |->
              IF p \in inputs THEN InputUnit(TileOf(id).start + p[1], c0 + p[2]) ELSE xs[p]]
  /\ pc' = [pc EXCEPT ![id] = "sync after"]
  /\ UNCHANGED <<launch, dy, finished, block, ti, chunk, held, sum>>

Ends(id) == chunk[id] + ChunkUnits >= units

(* Definitions called Faulty... are mistakes a run must tell from the code:  *)
(* a thread stages the next chunk while others compute this one.             *)
FaultyAfterCompute(id) == IF Ends(id) THEN "store" ELSE "stage"

AfterCompute(id) == IF Ends(id) THEN "store" ELSE "sync before"

(* A thread's row by its tokens, unit by unit; the next chunk is loaded first *)
(* when there is one.                                                         *)
Compute(id) ==
  /\ block # NoBlock /\ id \in Threads /\ pc[id] = "compute"
  /\ sum' = [sum EXCEPT ![id] = [t \in DOMAIN @ |->
               IF t < Computed(TileOf(id).count)
               THEN @[t] \o [u \in 1..InChunk(chunk[id]) |-> <<ws[<<u - 1, TX(id)>>], xs[<<t, u - 1>>]>>]
               ELSE @[t]]]
  /\ held' = [held EXCEPT ![id] = IF Piped /\ ~Ends(id) THEN chunk[id] + ChunkUnits ELSE @]
  /\ chunk' = [chunk EXCEPT ![id] = IF Ends(id) THEN @ ELSE @ + ChunkUnits]
  /\ pc' = [pc EXCEPT ![id] = AfterCompute(id)]
  /\ UNCHANGED <<launch, dy, finished, block, ti, shared>>

(* A tile's sums, of a row that there is and of the tile's tokens; then the  *)
(* block's next tile, with its first chunk in the registers.                 *)
StoreSums(id) ==
  /\ block # NoBlock /\ id \in Threads /\ pc[id] = "store"
  /\ LET r == R0 + TX(id)
         At(t) == (TileOf(id).start + t) * rows + r
         kept == {t \in Tokens(id) : r < rows /\ t < TileOf(id).count}
         stored == {At(t) : t \in kept}
         next == ti[id] + GridBlocks(Len(Tiles), 1, GridY)
     IN  /\ dy' = [a \in DOMAIN dy \cup stored |->
              (IF a \in DOMAIN dy THEN dy[a] ELSE <<>>)
                \o (IF a \in stored THEN <<sum[id][CHOOSE t \in kept : At(t) = a]>> ELSE <<>>)]
         /\ ti' = [ti EXCEPT ![id] = next]
         /\ pc' = [pc EXCEPT ![id] = IF next < Len(Tiles) THEN "sync before" ELSE "end"]
  /\ chunk' = [chunk EXCEPT ![id] = 0] /\ held' = [held EXCEPT ![id] = 0]
  /\ sum' = [sum EXCEPT ![id] = NoSums(id)]
  /\ UNCHANGED <<launch, finished, block, shared>>

EndBlock ==
  /\ block # NoBlock /\ \A id \in Threads : pc[id] = "end"
  /\ finished' = finished \cup {block} /\ block' = NoBlock
  /\ pc' = <<>> /\ ti' = <<>> /\ chunk' = <<>> /\ held' = <<>> /\ sum' = <<>>
  /\ ws' = <<>> /\ xs' = <<>>
  /\ UNCHANGED <<launch, dy>>

Done ==
  /\ launch # NoLaunch /\ finished = Grid /\ block = NoBlock
  /\ launch' = NoLaunch /\ dy' = <<>> /\ finished' = {}
  /\ UNCHANGED <<block, threads, shared>>

Next ==
  \/ \E l \in Launches : Multiply(l)
  \/ launch # NoLaunch /\ \E b \in Grid : StartBlock(b)
  \/ Barrier
  \/ \E id \in 0..(BlockRows * Slices - 1) : Stage(id) \/ Compute(id) \/ StoreSums(id)
  \/ EndBlock \/ Done

Spec == Init /\ [][Next]_vars

-----------------------------------------------------------------------------
(* A token's sum of a row, as the reference adds it. *)
ReferenceSum(r, t) ==
  [u \in 1..units |-> <<WeightUnit(launch.groups[t + 1], r, u - 1), InputUnit(t, u - 1)>>]

(* Whatever the order of threads and blocks, each sum of the result is       *)
(* stored once, in bounds, and adds its own row's units by its own token's,  *)
(* of the token's matrix, in the reference's order: no thread reads a chunk  *)
(* another has not staged or has staged over, or a tile's stale rows          *)
(* (cuda.inc:22-24, 233-236, 255-261).                                        *)
DeviceSumsInOrder ==
  launch # NoLaunch =>
    /\ DOMAIN dy \subseteq 0..(count * rows - 1)
    /\ \A a \in DOMAIN dy : dy[a] = <<ReferenceSum(a % rows, a \div rows)>>
    /\ finished = Grid => DOMAIN dy = 0..(count * rows - 1)
=============================================================================
