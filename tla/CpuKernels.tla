------------------------------ MODULE CpuKernels ------------------------------
(***************************************************************************)
(* The matrix products and dots of the CPU backends that promise the       *)
(* reference's bits: scalar, NEON and strict AVX-512, of BF16 and of NVFP4 *)
(* weights.  A sum is the sequence of the products added to it, and a      *)
(* product names the weights and activations it is of, so that equal sums  *)
(* are equal bits.  OpenMP gives blocks of rows to threads in any order.   *)
(* src/kernels_scalar.inc:105-136, 273-302, 340-384;                       *)
(* src/kernels_neon.inc; src/kernels_avx512.inc:1-199.                     *)
(***************************************************************************)
EXTENDS Integers, Sequences, SequencesExt, FiniteSetsExt

CONSTANTS
  Shapes,       \* [tokens, rows, cols] of the products and [1, keys, n] of the dots
  NeonRows,     \* rows of a NEON block, and columns it transposes at a time: 4
  NeonKeys,     \* DG_NEON_KEYS
  ExactRows,    \* DG_EXACT_ROWS
  TokenBlock,   \* tokens whose sums are held at once: DG_NEON_TOKENS, 8
  ScaleCols     \* columns that share an NVFP4 scale: 16

VARIABLES
  call,         \* the product that runs: kernel, format and shape; or NoCall
  y,            \* what has been stored at each index of the result, in order
  ran           \* blocks of rows whose thread is done

vars == <<call, y, ran>>

NoCall == [kernel |-> "none"]

tokens == call.tokens
rows == call.rows
cols == call.cols

(* A backend's selected kernel: an AVX-512 matrix whose rows do not fill the *)
(* lanes has no image, and the reference's kernel takes it.                  *)
Selected(backend, format, shape) ==
  IF backend = "exact" /\ shape.rows % ExactRows # 0 THEN "scalar" ELSE backend

(* The shapes that are not refused, and that a kernel is called with. *)
Accepted(kernel, format, shape) ==
  /\ kernel # "dots" => shape.rows >= 2 /\ shape.rows % 2 = 0
  /\ kernel = "dots" => shape.tokens = 1 /\ format = "bf16"
  /\ format = "nvfp4" => shape.cols % (2 * ScaleCols) = 0

-----------------------------------------------------------------------------
(* What is in memory at an index: a weight by its row and column, a byte of  *)
(* two NVFP4 weights, their scale, an activation.                            *)
Weight(i) == <<i \div cols, i % cols>>
Byte(i) == [low |-> Weight(2 * i), high |-> Weight(2 * i + 1)]
Scale(i) == <<i \div (cols \div ScaleCols), i % (cols \div ScaleCols)>>
Input(t, c) == Weight(t * cols + c)

Term(w, x) == [weight |-> w, input |-> x]

(* scale * (wl * a[2k] + wh * a[2k + 1]) *)
Pair(s, l, h, t, c) == [scale |-> s, low |-> Term(l, Input(t, c)), high |-> Term(h, Input(t, c + 1))]

UpTo(from, to, step) == [k \in 1..((to - from + step - 1) \div step) |-> from + (k - 1) * step]

Each(items, Op(_)) == [k \in DOMAIN items |-> Op(items[k])]

Columns == UpTo(0, cols, 1)
Evens == UpTo(0, cols, 2)

-----------------------------------------------------------------------------
(* dg_mm_data_ref, dg_nvfp4_mm_ref. *)
ScalarSum(r, t) ==
  IF call.format = "bf16"
  THEN Each(Columns, LAMBDA c : Term(Weight(r * cols + c), Input(t, c)))
  ELSE Each(Evens, LAMBDA c :
         LET v == Byte((r * cols) \div 2 + c \div 2)
         IN  Pair(Scale((r * cols) \div ScaleCols + c \div ScaleCols), v.low, v.high, t, c))

(* dg_neon_row: lanes past the end repeat the last row. *)
NeonRow(r0, i, n) == IF r0 + i < n THEN r0 + i ELSE n - 1

Transposed(v) == [k \in DOMAIN v[1] |-> [i \in DOMAIN v |-> v[i][k]]]

(* dg_mm_data_neon, dg_dots_neon: columns by vectors of four rows, then one by *)
(* one.                                                                        *)
NeonSum(r0, i, t) ==
  LET vector == (i \div NeonRows) * NeonRows         \* the first lane of i's vector
      lane == i - vector + 1
      p(j) == NeonRow(r0, j, rows) * cols
      c4 == (cols \div NeonRows) * NeonRows
      Four(c) == Transposed([j \in 1..NeonRows |->
                   [k \in 1..NeonRows |-> Weight(p(vector + j - 1) + c + k - 1)]])
      Quad(c) == [k \in 1..NeonRows |-> Term(Four(c)[k][lane], Input(t, c + k - 1))]
  IN  FlattenSeq(Each(UpTo(0, c4, NeonRows), Quad))
        \o Each(UpTo(c4, cols, 1), LAMBDA c : Term(Weight(p(i) + c), Input(t, c)))

(* dg_nvfp4_rows4_neon: the bytes of a block from each row, split in even and *)
(* odd columns.                                                               *)
NeonPairs(r0, i, t) ==
  LET r == NeonRow(r0, i, rows)
      Block(b) ==
        LET q == (r * cols) \div 2 + b * (ScaleCols \div 2)
            even == [k \in 1..(ScaleCols \div 2) |-> Byte(q + k - 1).low]
            odd == [k \in 1..(ScaleCols \div 2) |-> Byte(q + k - 1).high]
        IN  [k \in 1..(ScaleCols \div 2) |->
              Pair(Scale((r * cols) \div ScaleCols + b), even[k], odd[k], t, b * ScaleCols + 2 * k - 2)]
  IN  FlattenSeq(Each(UpTo(0, cols \div ScaleCols, 1), Block))

-----------------------------------------------------------------------------
(* The images made at load: sixteen rows side by side for every column.      *)

(* dg_exact_pack_bf16 *)
ExactWeight(i) ==
  LET lane == i % ExactRows
      c == (i \div ExactRows) % cols
      r == (i \div (ExactRows * cols)) * ExactRows
  IN  Weight((r + lane) * cols + c)

Half == ExactRows \div 2

(* dg_exact_pack_nvfp4: a byte has a row's weight and that of the row half as *)
(* far on as there are lanes.                                                 *)
ExactByte(i) ==
  LET lane == i % Half
      c == (i \div Half) % cols
      r == (i \div (Half * cols)) * ExactRows
      Nibble(row) == LET b == Byte((row * cols) \div 2 + c \div 2)
                     IN  IF c % 2 = 1 THEN b.high ELSE b.low
  IN  [low |-> Nibble(r + lane), high |-> Nibble(r + lane + Half)]

ExactScale(i) ==
  LET lane == i % ExactRows
      nb == cols \div ScaleCols
      b == (i \div ExactRows) % nb
      r == (i \div (ExactRows * nb)) * ExactRows
  IN  Scale(((r + lane) * cols) \div ScaleCols + b)

(* Definitions called Faulty... are mistakes a run must tell from the code:  *)
(* here, neighbouring lanes take the two nibbles of a byte.                  *)
FaultyExactCode(p, lane) ==
  IF lane % 2 = 0 THEN ExactByte(p + lane \div 2).low ELSE ExactByte(p + lane \div 2).high

(* dg_nvfp4_exact_codes *)
ExactCode(p, lane) ==
  IF lane < Half THEN ExactByte(p + lane).low ELSE ExactByte(p + lane - Half).high

(* dg_mm_exact_avx512, dg_nvfp4_exact_avx512 *)
ExactSum(rt, lane, t) ==
  LET tile == rt \div ExactRows
      nb == cols \div ScaleCols
  IN  IF call.format = "bf16"
      THEN Each(Columns, LAMBDA c :
             Term(ExactWeight(rt * cols + c * ExactRows + lane), Input(t, c)))
      ELSE Each(Evens, LAMBDA c :
             Pair(ExactScale((tile * nb + c \div ScaleCols) * ExactRows + lane),
                  ExactCode((tile * cols + c) * Half, lane),
                  ExactCode((tile * cols + c + 1) * Half, lane), t, c))

-----------------------------------------------------------------------------
Lanes == CASE call.kernel = "neon" -> NeonRows
           [] call.kernel = "dots" -> NeonKeys
           [] call.kernel = "exact" -> ExactRows
           [] OTHER -> 1

Blocks == 0..((rows + Lanes - 1) \div Lanes - 1)

SumOf(r0, lane, t) ==
  CASE call.kernel = "scalar" -> ScalarSum(r0, t)
    [] call.kernel = "exact" -> ExactSum(r0, lane, t)
    [] call.kernel = "neon" /\ call.format = "nvfp4" -> NeonPairs(r0, lane, t)
    [] OTHER -> NeonSum(r0, lane, t)

Init == call = NoCall /\ y = <<>> /\ ran = {}

Multiply(backend, format, shape) ==
  LET kernel == Selected(backend, format, shape)
  IN  /\ call = NoCall /\ Accepted(kernel, format, shape)
      /\ backend = "exact" /\ format = "nvfp4" => shape.rows % ExactRows = 0
      /\ call' = [kernel |-> kernel, format |-> format, tokens |-> shape.tokens,
                  rows |-> shape.rows, cols |-> shape.cols]
      /\ UNCHANGED <<y, ran>>

(* What has been stored at an index, in order. *)
Store(result, s) ==
  LET before == IF s.at \in DOMAIN result THEN result[s.at] ELSE <<>>
  IN  [a \in DOMAIN result \cup {s.at} |-> IF a = s.at THEN Append(before, s.sum) ELSE result[a]]

(* A turn of the loop over blocks of rows: its tokens by blocks, its valid   *)
(* lanes stored.                                                             *)
RunRows(b) ==
  /\ call # NoCall /\ b \in Blocks \ ran
  /\ LET r0 == b * Lanes
         valid == IF call.kernel = "exact" THEN Lanes ELSE Min({rows - r0, Lanes})
         Row(t) == [i \in 1..valid |-> [at |-> t * rows + r0 + i - 1, sum |-> SumOf(r0, i - 1, t)]]
         Held(tb) == FlattenSeq(Each(UpTo(tb, Min({tokens, tb + TokenBlock}), 1), Row))
     IN  y' = FoldLeft(Store, y, FlattenSeq(Each(UpTo(0, tokens, TokenBlock), Held)))
  /\ ran' = ran \cup {b}
  /\ UNCHANGED call

Done == call # NoCall /\ ran = Blocks /\ call' = NoCall /\ y' = <<>> /\ ran' = {}

Next ==
  \/ \E backend \in {"scalar", "neon", "exact", "dots"}, format \in {"bf16", "nvfp4"},
        shape \in Shapes : Multiply(backend, format, shape)
  \/ \E b \in 0..Max({s.rows : s \in Shapes}) : RunRows(b)
  \/ Done

Spec == Init /\ [][Next]_vars

-----------------------------------------------------------------------------
(* Of row r and token t, what the reference adds up, in its order. *)
ReferenceSum(r, t) ==
  IF call.format = "bf16" THEN [k \in 1..cols |-> Term(<<r, k - 1>>, <<t, k - 1>>)]
  ELSE [k \in 1..(cols \div 2) |->
         [scale |-> <<r, (2 * k - 2) \div ScaleCols>>,
          low |-> Term(<<r, 2 * k - 2>>, <<t, 2 * k - 2>>),
          high |-> Term(<<r, 2 * k - 1>>, <<t, 2 * k - 1>>)]]

(* Whatever the backend and the order of the threads, every sum of the       *)
(* result is stored once, in bounds, and adds the products of its own row    *)
(* and token in the reference's order: kernels_neon.inc:1-4 and              *)
(* kernels_avx512.inc:1-4 promise the reference's bits.                      *)
EverySumInOrder ==
  /\ DOMAIN y \subseteq 0..(IF call = NoCall THEN 0 ELSE tokens * rows - 1)
  /\ \A a \in DOMAIN y : y[a] = <<ReferenceSum(a % rows, a \div rows)>>
  /\ call # NoCall /\ ran = Blocks => DOMAIN y = 0..(tokens * rows - 1)
=============================================================================
