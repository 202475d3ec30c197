------------------------------ MODULE Workspace ------------------------------
(***************************************************************************)
(* The storage of a session: three arenas that only grow, each laid out in *)
(* advance for the call, pass or score it is about to hold, the device     *)
(* memory of accelerated passes, and the storage of the prefix cache.      *)
(* src/foundation.inc:566-632, src/engine.inc:28-390, 715-1260, and the    *)
(* storage of src/decision.inc:1091-1185, 1190-1322, 1438-1518.            *)
(*                                                                         *)
(* Twice the code says how large an array is: when it plans the arena and  *)
(* when it takes the array from it.  Both are kept here, in bytes, because *)
(* the call dies of an internal error when they disagree.                  *)
(***************************************************************************)
EXTENDS Integers, Sequences, FiniteSets, SequencesExt, FiniteSetsExt

CONSTANTS
  Models,                        \* models: on an accelerator or not, quantized or not
  H, Dense, Moe, TopK, Experts, Heads, FullDim, LocalDim, FullHeads,
  LocalHeads, Vocab, Layers, FullEvery,          \* DG_H, DG_DENSE, ...
  DeviceMatrix, DeviceTile,      \* sizeof DGCudaMatrix, DGCudaTile
  Calls,                         \* bound: the calls made
  None

ASSUME WorkspaceAssumption ==
  /\ Models \subseteq [accel : BOOLEAN, nvfp4 : BOOLEAN]
  /\ {H, Dense, Moe, TopK, Experts, Heads, FullDim, LocalDim, FullHeads,
      LocalHeads, Vocab, Layers, FullEvery} \subseteq Nat \ {0}
  /\ {DeviceMatrix, DeviceTile} \subseteq Nat
  /\ None \notin [n : Nat, meta : Nat, kv : Nat]
  /\ \A c \in Calls :
       /\ c.lens \in Seq(Nat \ {0}) /\ c.lens # <<>>
       /\ {c.common, c.schema, c.questions, c.choices, c.reads, c.context} \subseteq Nat
       /\ {c.width, c.groups} \subseteq Nat \ {0} /\ c.automatic \in BOOLEAN
       /\ c.width * c.groups <= c.context          \* dg_job_prepare_request

(* The model's own widths: arrays end where the next may begin, and some layer *)
(* is full, which takes no less to attend than a local one.                    *)
ASSUME WidthsAssumption ==
  /\ H % 16 = 0 /\ FullDim % 16 = 0 /\ LocalDim % 16 = 0
  /\ FullEvery <= Layers
  /\ (Heads + LocalHeads) * LocalDim <= (Heads + FullHeads) * FullDim

Float32 == 4
Int32 == 4
Double == 8
Pointer == 8
KVRecord == 24                   \* sizeof DGKV

Arenas == {"pass", "kv", "control"}
Memories == {"activations", "pinned", "scratch"}

VARIABLES
  model,        \* the session's model
  arena,        \* for each arena: its block, capacity, size, used and peak
  active,       \* arenas in use: active, kv_active, control_active
  host,         \* live blocks of host memory and their sizes
  tracked,      \* those a failure of the call releases
  gpu,          \* live blocks of device and page-locked memory
  memory,       \* what the session knows of them: block and bytes
  prefix,       \* the prefix cache's storage, None when empty
  fresh,        \* its replacement while it is built
  call,         \* the call in progress
  pass,         \* the pass in progress
  layer,        \* its next layer
  read,         \* the next read
  at,           \* where the call is
  poisoned,
  internal      \* a plan disagreed with what was taken from the arena

vars == <<model, arena, active, host, tracked, gpu, memory, prefix, fresh, call, pass,
          layer, read, at, poisoned, internal>>

Accel == model.accel
NVFP4 == model.nvfp4

Sum(s) == FoldLeft(LAMBDA sum, n : sum + n, 0, s)
Larger(a, b) == IF a > b THEN a ELSE b

AlignUp(n, alignment) == ((n + alignment - 1) \div alignment) * alignment

(* One array after another, each where it is aligned. *)
Laid(used, arrays, alignment) ==
  FoldLeft(LAMBDA end, bytes : AlignUp(end, alignment) + bytes, used, arrays)

(* jb_workspace_plan of each. *)
Planned(used, arrays) == Laid(used, arrays, 64)

(* jb_arena_alloc of one array after another. *)
Take(a, arrays) ==
  LET end == Planned(a.used, arrays)
  IN  [a EXCEPT !.used = end, !.peak = Larger(@, end)]

(* jb_arena_mark, the arrays, jb_arena_reset. *)
TakeBriefly(a, arrays) == [Take(a, arrays) EXCEPT !.used = a.used]

Unallocated == [block |-> 0, capacity |-> 0, size |-> 0, used |-> 0, peak |-> 0]

(* A block's number: the least that is free. *)
NewBlock(live) == CHOOSE b \in 1..(Cardinality(live) + 1) :
                    b \notin live /\ \A c \in 1..(b - 1) : c \in live

Without(f, S) == [x \in DOMAIN f \ S |-> f[x]]
With(f, x, y) == [z \in DOMAIN f \cup {x} |-> IF z = x THEN y ELSE f[z]]

-----------------------------------------------------------------------------
(* Definitions called Faulty... are mistakes the runs must be able to tell   *)
(* from the code: each replaces the definition it precedes, in turn.        *)

(* The old block is kept: nobody points at it any more. *)
FaultyGrown(a, required) ==
  LET b == NewBlock(DOMAIN host)
  IN  [arena |-> [block |-> b, capacity |-> required, size |-> required,
                  used |-> 0, peak |-> 0],
       host |-> With(host, b, required)]

(* jb_arena_reserve: a larger plan gets a new block before the old one goes. *)
Grown(a, required) ==
  LET b == NewBlock(DOMAIN host)
  IN  [arena |-> [block |-> b, capacity |-> required, size |-> required,
                  used |-> 0, peak |-> 0],
       host |-> Without(With(host, b, required), {a.block})]

Reserved(a, required) ==
  IF required > a.capacity THEN Grown(a, required)
  ELSE [arena |-> [a EXCEPT !.size = required, !.used = 0, !.peak = 0],
        host |-> host]

Begin(name, required) ==
  /\ name \notin active
  /\ active' = active \cup {name}
  /\ LET r == Reserved(arena[name], required)
     IN  /\ arena' = [arena EXCEPT ![name] = r.arena]
         /\ host' = r.host

(* The arena with arrays taken from it; the call dies if they do not fit. *)
Holds(name, a) ==
  /\ arena' = [arena EXCEPT ![name] = a]
  /\ internal' = (internal \/ a.peak > a.size)

(* dg_workspace_end, after everything was given back, and dg_worker_kv_end  *)
(* and dg_control_end, which want everything still there.                   *)
End(name) ==
  /\ active' = active \ {name}
  /\ LET a == IF name = "pass" THEN [arena[name] EXCEPT !.used = 0] ELSE arena[name]
         left == IF name = "pass" THEN 0 ELSE a.size
     IN  /\ arena' = [arena EXCEPT ![name] = a]
         /\ internal' = (internal \/ a.used # left \/ a.peak # a.size)

-----------------------------------------------------------------------------
(* What a pass takes from its arena.                                        *)

IsFull(l) == l % FullEvery = FullEvery - 1
Dim(l) == IF IsFull(l) THEN FullDim ELSE LocalDim
KeyWidth(l) == IF IsFull(l) THEN FullHeads * FullDim ELSE LocalHeads * LocalDim
WidestKey == Larger(LocalHeads * LocalDim, FullHeads * FullDim)

(* The wrapper's tables are forgotten where the accelerator's are planned. *)
FaultyAttentionPlan(p) ==
  IF Accel THEN <<p.n * FullDim * Float32, p.segments * Int32, p.segments * Int32>>
  ELSE (IF p.wrapper /\ p.segments > 1
          THEN <<p.segments * Pointer, p.segments * Int32>> ELSE <<>>) \o
       <<p.n * Heads * FullDim * Float32, p.n * FullHeads * FullDim * Float32,
         p.n * FullHeads * FullDim * Float32, p.n * Heads * FullDim * Float32,
         p.n * (p.old + p.seq) * Float32>>

AttentionPlan(p) ==
  (IF p.wrapper /\ p.segments > 1
     THEN <<p.segments * Pointer, p.segments * Int32>> ELSE <<>>) \o
  (IF Accel
     THEN <<p.n * FullDim * Float32, p.segments * Int32, p.segments * Int32>>
     ELSE <<p.n * Heads * FullDim * Float32, p.n * FullHeads * FullDim * Float32,
            p.n * FullHeads * FullDim * Float32, p.n * Heads * FullDim * Float32,
            p.n * (p.old + p.seq) * Float32>>)

(* dg_attention's tables for several canvases, then what dg_attention_accel *)
(* or dg_attention_segments takes, the widths being the layer's own.        *)
AttentionTaken(p, l) ==
  (IF p.batch > 1 THEN <<p.batch * Pointer, p.batch * Int32>> ELSE <<>>) \o
  (IF Accel
     THEN <<p.n * FullDim * Float32, p.segments * Int32, p.segments * Int32>>
     ELSE <<p.n * Heads * Dim(l) * Float32, p.n * KeyWidth(l) * Float32,
            p.n * KeyWidth(l) * Float32, p.n * Heads * Dim(l) * Float32,
            p.n * (Max(p.cached) + p.seq) * Float32>>)

FeedForwardPlan(p) ==
  IF Accel THEN <<>>
  ELSE <<p.n * H * Float32, p.n * Dense * Float32, p.n * Dense * Float32,
         p.n * H * Float32, p.n * H * Float32, p.n * H * Float32,
         p.n * Experts * Float32, p.n * TopK * Int32, p.n * TopK * Float32,
         p.n * TopK * H * Float32, p.n * H * Float32, p.n * 2 * Moe * Float32,
         p.n * Moe * Float32, p.n * H * Float32>> \o
       (IF NVFP4 THEN <<p.n * H * Float32>> ELSE <<>>) \o
       <<p.n * 2 * Int32>> \o
       (IF NVFP4 THEN <<p.n * Moe * Float32>> ELSE <<>>) \o
       <<H * Float32, H * Float32>>

(* dg_ff; dg_ff_accel keeps everything on the device. *)
FeedForwardTaken(p) ==
  IF Accel THEN <<>>
  ELSE <<p.n * H * Float32, p.n * Dense * Float32, p.n * Dense * Float32,
         p.n * H * Float32, p.n * H * Float32, p.n * H * Float32,
         p.n * Experts * Float32, p.n * TopK * Int32, p.n * TopK * Float32,
         p.n * TopK * H * Float32, p.n * H * Float32, p.n * 2 * Moe * Float32,
         p.n * Moe * Float32, p.n * H * Float32>> \o
       (IF NVFP4 THEN <<p.n * H * Float32, p.n * Moe * Float32>> ELSE <<>>) \o
       <<p.n * 2 * Int32, H * Float32, H * Float32>>

(* The residual and the normalized input; the device has its own. *)
Residual(p) == IF Accel THEN <<>> ELSE <<p.n * H * Float32, p.n * H * Float32>>

(* dg_workspace_bytes. *)
LayerBytes(p) ==
  Planned(0, Residual(p)) +
    Larger(Planned(0, AttentionPlan(p)), Planned(0, FeedForwardPlan(p)))

(* dg_forward_workspace_bytes: the output, and over it the layers, then     *)
(* whatever the caller takes after them.                                    *)
PassBytes(p) == Planned(0, <<p.n * H * Float32>>) + Larger(LayerBytes(p), p.tail)

-----------------------------------------------------------------------------
(* Scores.                                                                  *)

(* The first of automatic reads decides from entropies over every logit. *)
Decides(r) == call.automatic /\ r = 0

(* What dg_job_score_bytes plans and dg_job_score takes, in the same order. *)
ScoreArrays(r) ==
  <<call.questions * Pointer, call.questions * call.choices * Double>> \o
  (IF Decides(r)
     THEN <<call.questions * H * Float32, call.questions * Int32,
            call.questions * Vocab * Float32, Vocab * Double>>
     ELSE <<>>) \o
  <<call.choices * Double>>

ScoreBytes(r) == Planned(0, ScoreArrays(r))

-----------------------------------------------------------------------------
(* Passes.  cached: the K/V lengths its segments read; uploads: those the   *)
(* device is sent, a cache shared by segments once.                         *)

NoCache == {0}

Prefill(n) ==
  [n |-> n, old |-> 0, seq |-> n, segments |-> 1, batch |-> 1, wrapper |-> FALSE,
   tail |-> 0, cached |-> NoCache, rows |-> 0, uploads |-> 0]

PrefillSuffix(n, old) ==
  [n |-> n, old |-> old, seq |-> n, segments |-> 1, batch |-> 1,
   wrapper |-> FALSE, tail |-> 0, cached |-> {old}, rows |-> old, uploads |-> old]

PrefillSuffixMulti(rows, seq, old) ==
  [n |-> rows * seq, old |-> old, seq |-> seq, segments |-> rows, batch |-> 0,
   wrapper |-> FALSE, tail |-> 0, cached |-> {old}, rows |-> old, uploads |-> old]

Decode(width, canvases, old, tail) ==
  [n |-> width * canvases, old |-> old, seq |-> width, segments |-> canvases,
   batch |-> canvases, wrapper |-> canvases > 1, tail |-> tail,
   cached |-> {old}, rows |-> old, uploads |-> old]

DecodeMulti(width, groups, lens, tail) ==
  LET segments == Len(lens) * groups
      longest == Max(ToSet(lens))
  IN  [n |-> segments * width, old |-> longest, seq |-> width,
       segments |-> segments, batch |-> 0, wrapper |-> FALSE, tail |-> tail,
       cached |-> ToSet(lens), rows |-> segments * longest, uploads |-> Sum(lens)]

(* dg_kv_stage_offset(n, DG_L). *)
StagedFloats(n) == Sum([l \in 1..Layers |-> 2 * n * KeyWidth(l - 1)])

(* dg_cuda_nvfp4_scratch. *)
TableBytes(tokens) ==
  AlignUp(Experts * DeviceMatrix, 16) + AlignUp(tokens * DeviceTile, 16) + 16

(* dg_device_layout. *)
DeviceBytes(p) ==
  LET token == p.n * Float32
      routed == p.n * TopK
      wide == WidestKey * Float32
      arrays ==
        <<token * H, token * H, token * H, token * Heads * FullDim, p.n * wide,
          p.n * wide, token * Heads * FullDim, token * Dense, token * Dense,
          token * H, token * H, token * H, token * Experts, token * H,
          routed * Float32, routed * Int32, routed * Int32, Int32, routed * H * Float32,
          routed * Moe * Float32, routed * Moe * Float32, routed * Moe * Float32,
          routed * H * Float32, TableBytes(routed), token * FullDim, p.n * Int32,
          p.n * Int32, p.rows * wide, p.rows * wide, (p.n + p.rows) * wide,
          routed * Int32, TableBytes(routed), Int32, StagedFloats(p.n) * Float32>>
  IN  Laid(0, arrays, 256)

PinnedBytes(p) == StagedFloats(p.n) * Float32

(* The K/V of documents: dg_kv_bytes plans and dg_kv_bind takes, for each    *)
(* document and layer, its keys and its values.                             *)
KVArrays(lens) ==
  [i \in 1..(Len(lens) * Layers * 2) |->
     lens[(i - 1) \div (2 * Layers) + 1] * KeyWidth(((i - 1) \div 2) % Layers) * Float32]

(* The control storage of a microbatch. *)
ControlArrays(rows, seq, segments, width) ==
  <<rows * Int32, rows * seq * Int32, rows * Layers * KVRecord, rows * Int32,
    segments * width * Int32, segments * Int32, rows * Int32, segments * Int32,
    segments * Pointer, rows * KVRecord>>

-----------------------------------------------------------------------------
Init ==
  /\ model \in Models
  /\ arena = [a \in Arenas |-> Unallocated] /\ active = {}
  /\ host = <<>> /\ tracked = {} /\ gpu = <<>>
  /\ memory = [m \in Memories |-> [block |-> 0, bytes |-> 0]]
  /\ prefix = None /\ fresh = None
  /\ call = None /\ pass = None /\ layer = 0 /\ read = 0
  /\ at = "idle" /\ poisoned = FALSE /\ internal = FALSE

storage == <<model, arena, active, host, tracked, gpu, memory, prefix, fresh, internal>>

SuffixLens == [i \in DOMAIN call.lens |-> call.lens[i] - prefix.n]
Longest == Max(ToSet(SuffixLens))

(* A call of one row, or of rows that all go on from the cached prefix. *)
Ask(c) ==
  /\ at = "idle" /\ ~poisoned
  /\ Len(c.lens) > 1 => prefix # None /\ \A i \in DOMAIN c.lens : c.lens[i] > prefix.n
  /\ call' = c /\ read' = 0
  /\ at' = IF Len(c.lens) > 1 THEN "control" ELSE "kv"
  /\ UNCHANGED <<storage, pass, layer, poisoned>>

ControlBegin ==
  /\ at = "control" /\ at' = "kv"
  /\ LET rows == Len(call.lens)
         arrays == ControlArrays(rows, Longest, rows * call.groups, call.width)
         r == Reserved(arena["control"], Planned(0, arrays))
     IN  /\ active' = active \cup {"control"}
         /\ host' = r.host
         /\ Holds("control", Take(r.arena, arrays))
  /\ UNCHANGED <<model, tracked, gpu, memory, prefix, fresh, call, pass, layer, read, poisoned>>

(* dg_worker_kv_begin, up to the choice of a pass. *)
KVBegin ==
  /\ at = "kv"
  /\ LET r == Reserved(arena["kv"], Planned(0, KVArrays(call.lens)))
         bound == Take(r.arena, KVArrays(call.lens))
     IN  /\ active' = active \cup {"kv"}
         /\ host' = r.host
         /\ arena' = [arena EXCEPT !["kv"] = bound]
         /\ internal' = (internal \/ bound.peak # bound.size)
  /\ IF Len(call.lens) > 1
       THEN /\ pass' = [shape |-> PrefillSuffixMulti(Len(call.lens), Longest, prefix.n),
                        reads |-> 0, then |-> "reads"]
            /\ at' = "begin"
       ELSE /\ at' = "lookup"
            /\ UNCHANGED pass
  /\ UNCHANGED <<model, tracked, gpu, memory, prefix, fresh, call, layer, read, poisoned>>

PrefixBlocks(x) == IF x = None THEN {} ELSE {x.meta, x.kv}

(* The cached prefix begins this prompt, *)
Hit ==
  /\ at = "lookup" /\ at' = "begin"
  /\ prefix # None /\ prefix.n < call.lens[1]
  /\ pass' = [shape |-> PrefillSuffix(call.lens[1] - prefix.n, prefix.n),
              reads |-> 0, then |-> "reads"]
  /\ UNCHANGED <<storage, call, layer, read, poisoned>>

(* or it is freed before its replacement is built. *)
Miss ==
  /\ at = "lookup" /\ at' = "metadata"
  /\ host' = Without(host, PrefixBlocks(prefix))
  /\ prefix' = None
  /\ UNCHANGED <<model, arena, active, tracked, gpu, memory, fresh, call, pass, layer,
                 read, poisoned, internal>>

Metadata ==
  /\ at = "metadata" /\ at' = "begin"
  /\ LET b == NewBlock(DOMAIN host)
         bytes == Planned(0, <<call.schema, call.common * Int32>>)
     IN  /\ host' = With(host, b, bytes)
         /\ tracked' = tracked \cup {b}
         /\ fresh' = [n |-> call.common, meta |-> b, kv |-> 0]
  /\ pass' = [shape |-> Prefill(call.lens[1]), reads |-> 0, then |-> "prefix"]
  /\ UNCHANGED <<model, arena, active, gpu, memory, prefix, call, layer, read, poisoned, internal>>

(* dg_kv_init of the replacement, the copy of its K/V, and its installation. *)
Install ==
  /\ at = "prefix" /\ at' = "reads"
  /\ LET b == NewBlock(DOMAIN host)
     IN  /\ host' = With(host, b, Planned(0, KVArrays(<<fresh.n>>)))
         /\ prefix' = [fresh EXCEPT !.kv = b]
         /\ tracked' = tracked \ {fresh.meta, b}
  /\ fresh' = None
  /\ UNCHANGED <<model, arena, active, gpu, memory, call, pass, layer, read, poisoned, internal>>

-----------------------------------------------------------------------------
(* A pass.                                                                  *)

PassBegin ==
  /\ at = "begin"
  /\ at' = IF Accel THEN "activations" ELSE "embed"
  /\ Begin("pass", PassBytes(pass.shape))
  /\ UNCHANGED <<model, tracked, gpu, memory, prefix, fresh, call, pass, layer, read,
                 poisoned, internal>>

(* Memory that is too small is freed before more is asked for. *)
Freed(m) == Without(gpu, {memory[m].block})

Renewed(m, bytes) ==
  LET b == NewBlock(DOMAIN Freed(m))
  IN  /\ gpu' = With(Freed(m), b, bytes)
      /\ memory' = [memory EXCEPT ![m] = [block |-> b, bytes |-> bytes]]

(* The size is left as it was when the device refuses. *)
FaultyRefused(m) ==
  /\ gpu' = Freed(m)
  /\ memory' = [memory EXCEPT ![m].block = 0]

Refused(m) ==
  /\ gpu' = Freed(m)
  /\ memory' = [memory EXCEPT ![m] = [block |-> 0, bytes |-> 0]]

(* dg_device_begin, for the activations and for the staged K/V. *)
DeviceBytesOf(m) ==
  IF m = "activations" THEN DeviceBytes(pass.shape) ELSE PinnedBytes(pass.shape)

DeviceBegin(m) ==
  /\ at = m
  /\ at' = IF m = "activations" THEN "pinned" ELSE "embed"
  /\ IF memory[m].bytes < DeviceBytesOf(m) THEN Renewed(m, DeviceBytesOf(m))
     ELSE UNCHANGED <<gpu, memory>>
  /\ UNCHANGED <<model, arena, active, host, tracked, prefix, fresh, call, pass, layer, read,
                 poisoned, internal>>

(* The pass's output and its first values. *)
Embed ==
  /\ at = "embed" /\ at' = "layers" /\ layer' = 0
  /\ Holds("pass", Take(arena["pass"], <<pass.shape.n * H * Float32>>))
  /\ UNCHANGED <<model, active, host, tracked, gpu, memory, prefix, fresh, call, pass, read, poisoned>>

(* dg_layer, dg_layer_multi and dg_layer_accel. *)
Layer ==
  /\ at = "layers"
  /\ LET p == pass.shape
         a == arena["pass"]
         within == Take(a, Residual(p))
         attended == TakeBriefly(within, AttentionTaken(p, layer))
         done == TakeBriefly(attended, FeedForwardTaken(p))
         crowded == Accel /\ p.uploads * KeyWidth(layer) > p.rows * WidestKey
     IN  /\ arena' = [arena EXCEPT !["pass"] = [done EXCEPT !.used = a.used]]
         /\ internal' = (internal \/ done.peak > done.size \/ crowded)
  /\ layer' = layer + 1
  /\ at' = IF layer + 1 < Layers THEN "layers"
           ELSE IF pass.reads > 0 THEN "score" ELSE "end"
  /\ UNCHANGED <<model, active, host, tracked, gpu, memory, prefix, fresh, call, pass, read, poisoned>>

(* Where the first automatic read multiplies: the session's device scratch, *)
(* or the CPU when the device has no room for it.                           *)
Scratch ==
  LET bytes == call.questions * H * Float32 + call.questions * Vocab * Float32
  IN  IF Accel /\ Decides(read) /\ memory["scratch"].bytes < bytes
        THEN Renewed("scratch", bytes) \/ Refused("scratch")
        ELSE UNCHANGED <<gpu, memory>>

(* dg_job_score, once for every read of the pass. *)
Score ==
  /\ at = "score"
  /\ Holds("pass", TakeBriefly(arena["pass"], ScoreArrays(read)))
  /\ Scratch
  /\ read' = read + 1
  /\ pass' = [pass EXCEPT !.reads = @ - 1]
  /\ at' = IF pass.reads > 1 THEN "score" ELSE "end"
  /\ UNCHANGED <<model, active, host, tracked, prefix, fresh, call, layer, poisoned>>

PassEnd ==
  /\ at = "end" /\ at' = pass.then /\ pass' = None
  /\ End("pass")
  /\ UNCHANGED <<model, host, tracked, gpu, memory, prefix, fresh, call, layer, read, poisoned>>

-----------------------------------------------------------------------------
(* Reads.                                                                   *)

(* The reads that a call of one row decodes together. *)
Grouped ==
  LET most == call.context \div (call.width * call.groups)
      wanted == IF Decides(read) THEN 1 ELSE call.reads - read
  IN  Min({wanted, most})

ReadAlone ==
  /\ at = "reads" /\ Len(call.lens) = 1 /\ read < call.reads
  /\ pass' = [shape |-> Decode(call.width, call.groups * Grouped, call.lens[1], ScoreBytes(read)),
              reads |-> Grouped, then |-> "reads"]
  /\ at' = "begin"
  /\ UNCHANGED <<storage, call, layer, read, poisoned>>

(* The rows of a microbatch that go on, all of them at first. *)
ReadTogether ==
  /\ at = "reads" /\ Len(call.lens) > 1 /\ read < call.reads
  /\ \E n \in 1..Len(call.lens) : \E rows \in [1..n -> DOMAIN call.lens] :
       /\ \A i, j \in 1..n : i < j => rows[i] < rows[j]
       /\ ~(call.automatic /\ read > 0) => n = Len(call.lens)
       /\ LET lens == [i \in 1..n |-> call.lens[rows[i]]]
          IN  pass' = [shape |-> DecodeMulti(call.width, call.groups, lens, ScoreBytes(read)),
                       reads |-> 1, then |-> "reads"]
  /\ at' = "begin"
  /\ UNCHANGED <<storage, call, layer, read, poisoned>>

(* No read is left, or the first has decided. *)
KVEnd ==
  /\ at = "reads"
  /\ read = call.reads \/ (call.automatic /\ read > 0)
  /\ End("kv")
  /\ at' = IF Len(call.lens) > 1 THEN "unwind" ELSE "idle"
  /\ call' = IF Len(call.lens) > 1 THEN call ELSE None
  /\ UNCHANGED <<model, host, tracked, gpu, memory, prefix, fresh, pass, layer, read, poisoned>>

ControlEnd ==
  /\ at = "unwind" /\ at' = "idle" /\ call' = None
  /\ End("control")
  /\ UNCHANGED <<model, host, tracked, gpu, memory, prefix, fresh, pass, layer, read, poisoned>>

-----------------------------------------------------------------------------
(* Failures.                                                                *)

(* Blocks are released without being taken off the list. *)
FaultyStillTracked == tracked

StillTracked == {}

(* The frame releases what the call allocated and still tracks, and         *)
(* jb_call_cleanup poisons a session whose storage was in use.              *)
Abandon ==
  /\ host' = Without(host, tracked)
  /\ tracked' = StillTracked /\ fresh' = None
  /\ poisoned' = (poisoned \/ active # {})
  /\ active' = {}
  /\ call' = None /\ pass' = None /\ layer' = 0 /\ read' = 0
  /\ at' = "idle"
  /\ UNCHANGED <<model, arena, prefix, internal>>

(* An allocation is refused, or anything else dies, before a step. *)
Fail ==
  /\ at \notin {"idle", "freed"}
  /\ Abandon
  /\ UNCHANGED <<gpu, memory>>

(* The device refuses memory after the smaller block was freed. *)
DeviceFails(m) ==
  /\ at = m
  /\ memory[m].bytes < DeviceBytesOf(m)
  /\ Refused(m)
  /\ Abandon

(* jb_session_free: dg_workspace_destroy and dg_prefix_free.  Page-locked      *)
(* memory is easily forgotten.                                              *)
FaultyDestroyed(m) == IF m = "pinned" THEN 0 ELSE memory[m].block

Destroyed(m) == memory[m].block

SessionFree ==
  /\ at = "idle" /\ at' = "freed"
  /\ host' = Without(host, {arena[a].block : a \in Arenas} \cup PrefixBlocks(prefix))
  /\ gpu' = Without(gpu, {Destroyed(m) : m \in Memories})
  /\ arena' = [a \in Arenas |-> Unallocated]
  /\ memory' = [m \in Memories |-> [block |-> 0, bytes |-> 0]]
  /\ prefix' = None
  /\ UNCHANGED <<model, active, tracked, fresh, call, pass, layer, read, poisoned, internal>>

Next ==
  \/ \E c \in Calls : Ask(c)
  \/ ControlBegin \/ KVBegin \/ Hit \/ Miss \/ Metadata \/ Install
  \/ PassBegin \/ Embed \/ Layer \/ Score \/ PassEnd
  \/ \E m \in {"activations", "pinned"} : DeviceBegin(m) \/ DeviceFails(m)
  \/ ReadAlone \/ ReadTogether \/ KVEnd \/ ControlEnd
  \/ Fail \/ SessionFree

Spec == Init /\ [][Next]_vars

-----------------------------------------------------------------------------
(* No call dies of an internal error of the storage: what is planned for a   *)
(* call, a pass and its scores is exactly what they take, alignment          *)
(* included, and the device has room for the K/V it is sent.                 *)
PlansAreExact == ~internal

(* A block of host memory is always someone's and of the size its owner      *)
(* knows: an arena's, the prefix cache's, or tracked for a failure to        *)
(* release.  Nothing leaks and nothing points at memory that was released,   *)
(* wherever growing or a call failed.                                        *)
BlocksAreOwned ==
  LET named == {a \in Arenas : arena[a].block # 0}
  IN  /\ \A a \in named : /\ arena[a].block \in DOMAIN host
                          /\ host[arena[a].block] = arena[a].capacity
      /\ \A a, b \in named : arena[a].block = arena[b].block => a = b
      /\ PrefixBlocks(prefix) \subseteq DOMAIN host \ tracked
      /\ DOMAIN host = {arena[a].block : a \in named} \cup PrefixBlocks(prefix) \cup tracked
      /\ at = "idle" => tracked = {}

(* What the session knows of device memory is so: a size that is not zero    *)
(* is that of a live block, and a pass runs in memory as large as its        *)
(* layout.                                                                   *)
DeviceMemoryHolds ==
  /\ \A m \in Memories :
       IF memory[m].bytes = 0 THEN memory[m].block = 0
       ELSE memory[m].block \in DOMAIN gpu /\ gpu[memory[m].block] = memory[m].bytes
  /\ Accel /\ at \in {"embed", "layers", "score", "end"} =>
       /\ memory["activations"].bytes >= DeviceBytes(pass.shape)
       /\ memory["pinned"].bytes >= PinnedBytes(pass.shape)

(* Freeing a session, poisoned or not, leaves no memory behind. *)
FreedWithSession == at = "freed" => host = <<>> /\ gpu = <<>>
=============================================================================
