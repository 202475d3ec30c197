------------------------------- MODULE Forward -------------------------------
(***************************************************************************)
(* The parts of Inference whose properties are proved: the forward passes,  *)
(* and the matrix products an accelerator computes for them.                *)
(***************************************************************************)
EXTENDS Naturals, Sequences

CONSTANTS
  Prompts, Canvases, Accels, L, FullEvery, Window, Common, MaxSegments,  \* Passes
  Launches, BlockRows, BlockTokens, Slices, ChunkUnits, BlockGridY       \* CudaBlocks

(* There is a layer, and prompts and canvases are tokens.                    *)
ASSUME PassesAssumption ==
  /\ {L, FullEvery, Window} \subseteq Nat \ {0}
  /\ {Common, MaxSegments} \subseteq Nat
  /\ Prompts \subseteq Seq(Nat)
  /\ Canvases \subseteq Seq(Nat) \ {<<>>}
  /\ Accels \subseteq BOOLEAN

(* What a product is launched with: some tokens, and a matrix for each.      *)
ASSUME DeviceAssumption ==
  /\ {BlockRows, BlockTokens, Slices, ChunkUnits, BlockGridY} \subseteq Nat \ {0}
  /\ BlockTokens % Slices = 0
  /\ \A l \in Launches :
       /\ l.kernel \in {"nvfp4_mm", "bf16_mm", "bf16_body"}
       /\ l.groups \in Seq(Nat) \ {<<>>}
       /\ {l.rows, l.units} \subseteq Nat \ {0}

VARIABLES
  prefix, docs, kv, canvas, pass, layer, x, kv_out,
  launch, dy, finished, block, pc, ti, chunk, held, sum, ws, xs

P == INSTANCE Passes
D == INSTANCE CudaBlocks WITH GridY <- BlockGridY

passing == <<prefix, docs, kv, canvas, pass, layer, x, kv_out>>
launching == <<launch, dy, finished, block, pc, ti, chunk, held, sum, ws, xs>>

(* K/V rows are the prompt's, however they were computed (engine.inc:934-1251).*)
KVIsThePrompts == P!KVIsThePrompts

(* Canvases packed in one pass read nothing of each other (engine.inc:1208).  *)
CanvasesReadAlone == P!CanvasesReadAlone

(* A block of the accelerator adds what the reference adds, between its       *)
(* barriers (cuda.inc:22-24).                                                 *)
DeviceSumsInOrder == D!DeviceSumsInOrder
=============================================================================
