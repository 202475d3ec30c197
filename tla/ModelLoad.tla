------------------------------ MODULE ModelLoad ------------------------------
(***************************************************************************)
(* Loading a model and destroying it, by threads of one process: shards    *)
(* that are mapped or read, the descriptors, the tokenizer, the            *)
(* accelerator, which whoever first loads a quantized model opens for all, *)
(* its memory, and the strict AVX-512 image.  Any step may fail, and what  *)
(* was taken is given back: blocks by the call's error frame (see          *)
(* ErrorFrames), the rest by jb_model_load_cleanup.                        *)
(* src/api.inc:97-215; src/model.inc:177-613, 709-833;                     *)
(* src/foundation.inc:702-760; src/cuda.inc:1604-1823, 2083-2145;          *)
(* src/kernels_avx512.inc:46-71.                                           *)
(***************************************************************************)
EXTENDS Naturals, FiniteSets

CONSTANTS
  Threads,
  Shards, Matrices,      \* of a model: indices from 1, met in order
  Fp4,                   \* whether the device has FP4 tensor cores and the build uses them
  Exact                  \* whether the kernels are the strict AVX-512 ones

VARIABLES
  once,                  \* pthread_once: "never", "opening", "done"
  opener,                \* the thread that opens, or none
  attempt,               \* the kernels: "none", "fp4" or "plain" tried, "found"
  ready,                 \* dg_cuda.ready
  faulted,               \* the device fails every call from now on
  context,               \* each thread's current device context
  previous, entered,     \* what a call saved of it
  model,                 \* each thread's model
  held,                  \* what the process holds for it
  tracked,               \* blocks a failure of the call releases
  twice,                 \* something was released that was not held
  pc

opening == <<once, opener, attempt, ready, faulted>>
vars == <<once, opener, attempt, ready, faulted, context, previous, entered, model, held, tracked,
          twice, pc>>

Nobody == "nobody"
Own == "own"                     \* the application's context
Library == "library"             \* dg_cuda.ctx

Empty ==
  [nvfp4 |-> FALSE, shard |-> [s \in Shards |-> "none"], blocks |-> {}, accel |-> FALSE,
   weights |-> FALSE, embedding |-> FALSE, handles |-> {}, placed |-> FALSE]

Shard(s) == <<"shard", s>>
Names(s) == <<"names", s>>
Handle(k) == <<"handle", k>>
Block(name) == <<name, 0>>
Weights == <<"weights", 0>>
Embedding == <<"embedding", 0>>
Mapping(s) == <<"mapping", s>>

-----------------------------------------------------------------------------
Init ==
  /\ once = "never" /\ opener = Nobody /\ attempt = "none" /\ ready = FALSE /\ faulted = FALSE
  /\ context = [t \in Threads |-> Own] /\ previous = [t \in Threads |-> Own]
  /\ entered = [t \in Threads |-> FALSE]
  /\ model = [t \in Threads |-> Empty]
  /\ held = [t \in Threads |-> {}] /\ tracked = [t \in Threads |-> {}]
  /\ twice = FALSE
  /\ pc = [t \in Threads |-> "rest"]

Goto(t, where) == pc' = [pc EXCEPT ![t] = where]

(* A block of the call: tracked until its frame is left. *)
Take(t, blocks) ==
  /\ held' = [held EXCEPT ![t] = @ \cup blocks]
  /\ tracked' = [tracked EXCEPT ![t] = @ \cup blocks]

Keep(t, m) == model' = [model EXCEPT ![t] = m]

unopened == <<once, opener, attempt, ready>>
contexts == <<context, previous, entered>>

Load(t, nvfp4) ==
  /\ pc[t] = "rest"
  /\ Take(t, {Block("model")})
  /\ Keep(t, [Empty EXCEPT !.nvfp4 = nvfp4])
  /\ Goto(t, "shards")
  /\ UNCHANGED <<opening, contexts, twice>>

Unread(t) == {s \in Shards : model[t].shard[s] = "none"}

(* map_file: a shard that cannot be mapped is read into a block. *)
MapShard(t, s, how) ==
  /\ pc[t] = "shards" /\ s \in Unread(t) /\ \A r \in Unread(t) : s <= r
  /\ IF how = "mapped"
     THEN held' = [held EXCEPT ![t] = @ \cup {Mapping(s)}] /\ UNCHANGED tracked
     ELSE Take(t, {Shard(s)})
  /\ Keep(t, [model[t] EXCEPT !.shard[s] = how])
  /\ Goto(t, "parse")
  /\ UNCHANGED <<opening, contexts, twice>>

(* dg_parse_shard_data: the names, and the tensors of all shards. *)
ParseShard(t) ==
  /\ pc[t] = "parse"
  /\ \E s \in Shards :
       /\ model[t].shard[s] # "none" /\ Names(s) \notin model[t].blocks
       /\ Take(t, {Names(s), Block("tensors")})
       /\ Keep(t, [model[t] EXCEPT !.blocks = @ \cup {Names(s), Block("tensors")}])
  /\ Goto(t, IF Unread(t) = {} THEN "validate" ELSE "shards")
  /\ UNCHANGED <<opening, contexts, twice>>

(* dg_finalize_tensor_index, what dg_load expects, and the experts. *)
Validate(t) ==
  /\ pc[t] = "validate"
  /\ LET experts == IF model[t].nvfp4 THEN {Block("experts")} ELSE {}
     IN  /\ Take(t, experts)
         /\ Keep(t, [model[t] EXCEPT !.blocks = @ \cup experts])
  /\ Goto(t, "tokenizer")
  /\ UNCHANGED <<opening, contexts, twice>>

(* dgt_load. *)
LoadTokenizer(t) ==
  /\ pc[t] = "tokenizer"
  /\ Take(t, {Block("tokenizer")})
  /\ Keep(t, [model[t] EXCEPT !.blocks = @ \cup {Block("tokenizer")}])
  /\ Goto(t, IF model[t].nvfp4 THEN "accel" ELSE "enter")
  /\ UNCHANGED <<opening, contexts, twice>>

-----------------------------------------------------------------------------
(* dg_accel: the first to come opens the device; the others wait. *)
AwaitAccel(t) ==
  /\ pc[t] = "accel" /\ once = "done"
  /\ Goto(t, "enter")
  /\ UNCHANGED <<opening, contexts, model, held, tracked, twice>>

(* dg_cuda_open finds no device, or is told to look for none. *)
OpenNothing(t) ==
  /\ pc[t] = "accel" /\ once = "never"
  /\ once' = "done"
  /\ Goto(t, "enter")
  /\ UNCHANGED <<opener, attempt, ready, faulted, contexts, model, held, tracked, twice>>

Open(t) ==
  /\ pc[t] = "accel" /\ once = "never" /\ ~faulted
  /\ once' = "opening" /\ opener' = t
  /\ attempt' = IF Fp4 THEN "fp4" ELSE "plain"
  /\ previous' = [previous EXCEPT ![t] = context[t]]
  /\ context' = [context EXCEPT ![t] = Library]
  /\ Goto(t, "compile")
  /\ UNCHANGED <<ready, faulted, entered, model, held, tracked, twice>>

(* dg_cuda_compile up to the kernels: it is ready before it has found them. *)
Compile(t) ==
  /\ pc[t] = "compile"
  /\ ready' = TRUE
  /\ Goto(t, "kernels")
  /\ UNCHANGED <<once, opener, attempt, faulted, contexts, model, held, tracked, twice>>

Opened(t) ==
  /\ once' = "done" /\ opener' = Nobody
  /\ context' = [context EXCEPT ![t] = previous[t]]
  /\ Goto(t, "enter")

FindKernels(t) ==
  /\ pc[t] = "kernels" /\ ~faulted /\ Opened(t)
  /\ attempt' = "found"
  /\ UNCHANGED <<ready, faulted, previous, entered, model, held, tracked, twice>>

(* Definitions called Faulty... are mistakes a run must tell from the code. *)

(* A kernel that is not found does not count. *)
FaultyReadyAfter(t) == pc[t] = "kernels"

(* What is left of ready when compiling or finding the kernels fails. *)
ReadyAfter(t) == FALSE

(* Kernels that do not compile or are not all found; those for FP4 tensor *)
(* cores are given up for the others.                                     *)
CompileFails(t) ==
  /\ pc[t] \in {"compile", "kernels"}
  /\ ready' = ReadyAfter(t)
  /\ IF attempt = "fp4" /\ ~ready'
     THEN /\ attempt' = "plain" /\ Goto(t, "compile")
          /\ UNCHANGED <<once, opener, context>>
     ELSE Opened(t) /\ attempt' = "none"
  /\ UNCHANGED <<faulted, previous, entered, model, held, tracked, twice>>

-----------------------------------------------------------------------------
(* jb_accel_context_enter; models that are not quantized read ready unawaited. *)
Enter(t) ==
  /\ pc[t] = "enter"
  /\ IF ready
     THEN /\ ~faulted
          /\ previous' = [previous EXCEPT ![t] = context[t]]
          /\ context' = [context EXCEPT ![t] = Library]
          /\ entered' = [entered EXCEPT ![t] = TRUE]
     ELSE UNCHANGED contexts
  /\ Goto(t, "upload")
  /\ UNCHANGED <<opening, model, held, tracked, twice>>

(* The first pass of dg_upload_model: all the weights in one allocation. *)
Allocate(t) ==
  /\ pc[t] = "upload" /\ model[t].nvfp4 /\ ready /\ ~faulted
  /\ held' = [held EXCEPT ![t] = @ \cup {Weights}]
  /\ Keep(t, [model[t] EXCEPT !.accel = TRUE, !.weights = TRUE])
  /\ Goto(t, "place")
  /\ UNCHANGED <<opening, contexts, tracked, twice>>

(* No accelerator, or not the room: the model stays on the CPU. *)
StayOnCPU(t) ==
  /\ pc[t] = "upload" /\ (model[t].nvfp4 /\ ready => ~faulted)
  /\ Goto(t, "exact")
  /\ UNCHANGED <<opening, contexts, model, held, tracked, twice>>

(* The second pass: a handle for every matrix, *)
Place(t, k) ==
  /\ pc[t] = "place" /\ model[t].handles = 1..(k - 1) /\ ~faulted
  /\ Take(t, {Handle(k)})
  /\ Keep(t, [model[t] EXCEPT !.handles = @ \cup {k}])
  /\ UNCHANGED <<opening, contexts, twice, pc>>

(* then the tensors and the tables of matrices, *)
PlaceTensors(t) ==
  /\ pc[t] = "place" /\ model[t].handles = Matrices /\ ~faulted
  /\ Keep(t, [model[t] EXCEPT !.placed = TRUE])
  /\ Goto(t, "embedding")
  /\ UNCHANGED <<opening, contexts, held, tracked, twice>>

(* and the embedding if there is room for it. *)
PlaceEmbedding(t) ==
  /\ pc[t] = "embedding" /\ ~faulted
  /\ \/ UNCHANGED <<held, model>> /\ Goto(t, "exact")
     \/ /\ held' = [held EXCEPT ![t] = @ \cup {Embedding}]
        /\ Keep(t, [model[t] EXCEPT !.embedding = TRUE])
        /\ Goto(t, "filled")
  /\ UNCHANGED <<opening, contexts, tracked, twice>>

FillEmbedding(t) ==
  /\ pc[t] = "filled" /\ ~faulted
  /\ Goto(t, "exact")
  /\ UNCHANGED <<opening, contexts, model, held, tracked, twice>>

-----------------------------------------------------------------------------
(* dg_release_accel. *)
OfAccel(m) ==
  IF ~m.accel THEN {}
  ELSE {Handle(k) : k \in m.handles} \cup (IF m.weights THEN {Weights} ELSE {})
       \cup (IF m.embedding THEN {Embedding} ELSE {})

(* Shards that were read are left to the frame, which is gone by the end. *)
FaultyOfShards(m) == {Mapping(s) : s \in {r \in Shards : m.shard[r] = "mapped"}}

(* dg_unmap_shards. *)
OfShards(m) ==
  {Mapping(s) : s \in {r \in Shards : m.shard[r] = "mapped"}}
  \cup {Shard(s) : s \in {r \in Shards : m.shard[r] = "read"}}

(* jb_model_load_cleanup. *)
Abandon(t) == OfAccel(model[t]) \cup OfShards(model[t])

(* jb_frame_fail after a cleanup. *)
GiveBack(t, released) ==
  /\ twice' = (twice \/ ~(released \subseteq held[t]))
  /\ held' = [held EXCEPT ![t] = @ \ (released \cup tracked[t])]
  /\ tracked' = [tracked EXCEPT ![t] = {}]
  /\ Keep(t, Empty)
  /\ Goto(t, "rest")

(* Only a call that returns its model restores the context. *)
FaultyLeft(t) == [context EXCEPT ![t] = IF pc[t] = "exact" THEN previous[t] ELSE @]

(* jb_accel_context_leave. *)
Left(t) == [context EXCEPT ![t] = IF entered[t] /\ ~faulted THEN previous[t] ELSE @]

CanFail(t) ==
  \/ pc[t] \in {"shards", "parse", "validate", "tokenizer", "place", "filled"}
  \/ pc[t] = "enter" /\ ready
  \/ pc[t] \in {"upload", "embedding"} /\ faulted /\ model[t].nvfp4 /\ ready
  \/ pc[t] = "exact" /\ Exact /\ ~model[t].accel

(* Out of memory, a file that cannot be read or is not what is expected, a   *)
(* device call that fails: jb_model_load_cleanup, then the frame.            *)
Fail(t) ==
  /\ CanFail(t)
  /\ GiveBack(t, Abandon(t))
  /\ context' = Left(t)
  /\ entered' = [entered EXCEPT ![t] = FALSE]
  /\ UNCHANGED <<opening, previous>>

(* dg_prepare_exact_model, and the call returns the model. *)
Return(t) ==
  /\ pc[t] = "exact"
  /\ LET image == IF Exact /\ ~model[t].accel THEN {Block("exact")} ELSE {}
     IN  /\ held' = [held EXCEPT ![t] = @ \cup image]
         /\ Keep(t, [model[t] EXCEPT !.blocks = @ \cup image])
  /\ tracked' = [tracked EXCEPT ![t] = {}]
  /\ context' = Left(t)
  /\ entered' = [entered EXCEPT ![t] = FALSE]
  /\ Goto(t, "loaded")
  /\ UNCHANGED <<opening, previous, twice>>

(* jb_model_release of the last reference. *)
Destroy(t) ==
  /\ pc[t] = "loaded"
  /\ GiveBack(t, OfAccel(model[t]) \cup OfShards(model[t]) \cup model[t].blocks \cup {Block("model")})
  /\ UNCHANGED <<opening, contexts>>

(* A device may fail for good at any time. *)
Fault ==
  /\ ready /\ ~faulted /\ faulted' = TRUE
  /\ UNCHANGED <<once, opener, attempt, ready, contexts, model, held, tracked, twice, pc>>

Step(t) ==
  \/ \E s \in Shards, how \in {"mapped", "read"} : MapShard(t, s, how)
  \/ ParseShard(t) \/ Validate(t) \/ LoadTokenizer(t)
  \/ AwaitAccel(t) \/ OpenNothing(t) \/ Open(t) \/ Compile(t) \/ FindKernels(t) \/ CompileFails(t)
  \/ Enter(t) \/ Allocate(t) \/ StayOnCPU(t)
  \/ \E k \in Matrices : Place(t, k)
  \/ PlaceTensors(t) \/ PlaceEmbedding(t) \/ FillEmbedding(t) \/ Return(t)
  \/ Fail(t)

Next ==
  \/ \E t \in Threads :
       \/ \E nvfp4 \in BOOLEAN : Load(t, nvfp4)
       \/ Step(t) \/ Destroy(t)
  \/ Fault

Spec == Init /\ [][Next]_vars

-----------------------------------------------------------------------------
Busy(t) == pc[t] \notin {"rest", "loaded"}

Device(S) == {r \in S : r \in {Weights, Embedding} \/ r[1] = "handle"}

(* A call that fails keeps nothing and one that returns keeps what its model *)
(* names and destroying gives back, each thing once, wherever it failed, and *)
(* leaves the thread the device context the application had made current.    *)
LoadGivesBack ==
  /\ ~twice
  /\ \A t \in Threads :
       /\ pc[t] = "rest" => held[t] = {} /\ tracked[t] = {}
       /\ pc[t] = "loaded" =>
            held[t] = OfAccel(model[t]) \cup OfShards(model[t]) \cup model[t].blocks
                      \cup {Block("model")}
       /\ ~Busy(t) /\ ~faulted => context[t] = Own

(* A model is on the accelerator whole, with every kernel it needs, or not at *)
(* all (model.inc:539-542): one that stayed on the CPU holds no device memory,*)
(* and the accelerator is opened once and not lost to those who use it.       *)
AcceleratorIsWhole ==
  \A t \in Threads :
    /\ model[t].accel => ready /\ once = "done" /\ attempt = "found"
    /\ pc[t] = "loaded" =>
         IF model[t].accel
         THEN /\ model[t].weights /\ model[t].placed /\ model[t].handles = Matrices
              /\ Block("exact") \notin model[t].blocks
         ELSE Device(held[t]) = {}
    /\ pc[t] \in {"compile", "kernels"} => opener = t
=============================================================================
