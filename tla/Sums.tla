-------------------------------- MODULE Sums --------------------------------
(***************************************************************************)
(* The parts of Inference that take sums apart: the processor's matrix      *)
(* products by blocks of rows and of columns, a layer's experts by tiles of *)
(* the rows routed to them, and the scores of the answer slots by the       *)
(* tokens they ask for.  Their properties are proved.                       *)
(***************************************************************************)
EXTENDS Integers, Sequences

CONSTANTS
  Shapes, NeonRows, NeonKeys, ExactRows, TokenBlock, ScaleCols,          \* CpuKernels
  Logits, MaxTokens, TopK, TileTokens, GridY,                            \* Experts
  SlotLogits, LabelLists, MaxSlots, MostLabels, TopN                     \* Scores

VARIABLES
  call, y, ran,
  logits, accel, top, expert, contrib, grouped, index, slot, tiles, eo, blocks, sums, routing,
  slots, requested, counted, scores

C == INSTANCE CpuKernels
X == INSTANCE Experts WITH phase <- routing
S == INSTANCE Scores WITH Rows <- SlotLogits

(* Rows of logits of one width, each logit above the one a search begins with. *)
LogitRows(rows, most, least) ==
  /\ rows # {}
  /\ \A r, s \in rows :
       /\ r \in Seq(Int) /\ Len(r) = Len(s) /\ Len(r) >= most
       /\ \A i \in DOMAIN r : r[i] > least

(* A token has an expert for each choice; the router's logits are finite.     *)
ASSUME ExpertsAssumption ==
  /\ {MaxTokens, TopK, TileTokens, GridY} \subseteq Nat \ {0}
  /\ LogitRows(Logits, TopK, X!Least)

(* Labels are tokens, and there are as many tokens as the best are.           *)
ASSUME ScoresAssumption ==
  /\ {MaxSlots, MostLabels, TopN} \subseteq Nat \ {0}
  /\ LogitRows(SlotLogits, TopN, S!Least)
  /\ LabelLists \subseteq Seq(S!Vocab)

(* A product has a token, a row and a column.  Two NVFP4 weights share a    *)
(* byte, and so do two rows of an image's lanes.                             *)
ASSUME KernelsAssumption ==
  /\ {NeonRows, NeonKeys, ExactRows, TokenBlock, ScaleCols} \subseteq Nat \ {0}
  /\ ExactRows % 2 = 0 /\ ScaleCols % 2 = 0
  /\ \A s \in Shapes : {s.tokens, s.rows, s.cols} \subseteq Nat \ {0}

multiplying == <<call, y, ran>>
mixing ==
  <<logits, accel, top, expert, contrib, grouped, index, slot, tiles, eo, blocks, sums, routing>>
scoring == <<slots, requested, counted, scores>>

(* The CPU's backends add what the reference adds (kernels_neon.inc:1-4).     *)
EverySumInOrder == C!EverySumInOrder

(* A token's experts and their order are its own (engine.inc:682-870).        *)
MixtureIsTheTokensOwn == X!MixtureIsTheTokensOwn

(* The grouped product takes each routed row once (cuda.inc:842-876).         *)
TilesCoverRows == X!TilesCoverRows

(* Entropy counts each token once (kernels_scalar.inc:404-418).               *)
EachCountedOnce == S!EachCountedOnce
=============================================================================
