# Jev Bush: models, checks and proofs

Jev Bush is a C library and command line that answers structured questions
about a JSON state with a DiffusionGemma model. This directory holds TLA+
models of its control: who owns which memory when a call fails, how long a
model lives, what a session is left like after a call, who holds the
accelerator; and of what it computes with: which rows, products and tokens go
where, and in which order. The contract is `jb.h`. The source is written in
`src/src/*.inc`, quoted here and in the modules as `engine.inc:102`;
`PROJECT.json` names the same lines in their amalgamation `src/jb.c`. Line `n`
of a file is line `n` plus this of `jb.c`:

| | | | |
|---|---|---|---|
| foundation 1 | json 851 | model 1188 | kernels_scalar 2276 |
| kernels_avx2 2826 | kernels_avx512 2978 | kernels_neon 3363 | kernels_dispatch 3646 |
| cuda 3736 | engine 5951 | decision 7211 | api 8773 |

## Inventory

| Part | State it keeps | Operations | What is hard, and what makes it correct |
|---|---|---|---|
| Error frames and tracked allocation (`foundation.inc:207-564`) | per thread: frame stack, status, message, list of tracked blocks, allocation number, cleanup stack; per block: number and flag | `jb_frame_enter/leave/abandon/fail`, `die*`, `xmalloc/xcalloc/xrealloc`, `jb_release`, `jb_untrack`, `jb_cleanup_push/disarm` | failure at any depth of nested calls by `longjmp`. A failed call releases what it allocated, runs what it armed, reports its own status; nothing else |
| Arenas and growing buffers (`foundation.inc:566-850`) | base, used, peak, size, capacity | `jb_arena_init/alloc/reset/reserve/free`, `db_*`, `Tokens` | exact plans, growth that fails half way |
| JSON parser (`json.inc`) | token array | `json_tokens`, `jt_*` | recursion over text, limits |
| Model loading (`model.inc:1-613`, `api.inc:97-164`) | shards, mappings, tensors, device weights | `dg_load`, `dg_upload_model`, `dg_free`, `jb_model_load*` | failure at each step, in or out of the accelerator's context. Whatever was taken is given back once, and no model is half on the accelerator |
| Tokenizer (`model.inc:615-1088`) | vocabulary, merges | `dgt_load`, `dgt_tokenize` | a heap with stale entries. It merges what repeated scanning merges; the tokens spell the text |
| Model references (`api.inc:190-219`) | one atomic count | `jb_model_retain`, `jb_model_free` | concurrent, saturating. Destroyed once, after the last reference |
| Sessions (`api.inc:312-667`) | busy flag, poisoned flag, workspace, prefix, last error, cleanup record | create, four decide calls, free | calls from any thread and from log callbacks; failure at any point. One call at a time; a session is poisoned exactly when its workspace is half written; errors are the right call's |
| Inference workspace (`engine.inc:102-386`) | three arenas and their active flags, device memory | begin/end of control, K/V and pass | phases nest; failure leaves them active |
| Forward pass (`engine.inc:396-1251`) | activations, K/V rows, routed rows | prefill, decode, experts | cached and packed rows, local windows, padding, groups. A row is computed from the same rows in the same order whichever pass it runs in |
| Decision (`decision.inc:927-1562`) | job, prefix cache | `dg_systemone*`, `dg_system_batch*` | cache replacement under failure, adaptive sampling, microbatch equals row by row |
| Numeric locale (`decision.inc:81-99`) | one atomic state | created once | racing first users. Nobody uses it before it is whole, nobody spins for ever |
| Accelerator (`cuda.inc:1560-2215`) | driver, context, call mutex | opening, call lock/unlock, context enter/leave, device operations | opened once by racing loads; lock and current context on every failure path |
| Device kernels (`cuda.inc:22-1558`) | a block's shared memory and registers | matrix products, routing, attention, norms | threads stage data for each other between barriers. A sum adds what the reference adds, in its order |
| CPU kernels (`kernels_*.inc`) | images packed at load | products, dots, dispatch, scores of slots | lanes, blocks and tails. Every exact backend adds what the scalar one adds, in its order; entropy counts each token once |
| Command line and tests (`cli_tests.inc`) | files, rows | eval, ask, bench, self-tests | I/O |

How they interact: every public call enters an error frame; a decide call takes
the session's busy flag, then a frame, then a cleanup that resets the
workspace, then the accelerator's lock, and then runs the decision, which
begins and ends the workspace's phases. A failure anywhere jumps to the frame,
which runs the cleanup; then the outcome is recorded on the session, the busy
flag cleared and the log callback called, which may call back into the library.
Sessions hold a reference to their model; the callback runs under one more.

## Modules

| Module | Models | Correspondence |
|---|---|---|
| `ErrorFrames` | error frames | one variable per thread-local; a block is an address with `number` (`link.sequence`), membership of `tracked` (`link.tracked`) and of `list` (the linked list, kept as a set because the code always walks all of it). Each function is an action; `die()` and the frame's `setjmp` branch are one action, `FrameAbandon` |
| `CallOwnership` | what those functions promise | no marks or numbers: each call under way owns blocks, armed cleanups and a status |
| `ModelRefs` | reference count | one atomic access per action; a release that has found the last reference goes on to `Destroy` |
| `SharedModel` | what the count promises | the set of references, and how often the model was destroyed |
| `Sessions` | sessions, the workspace's phases, the accelerator's lock | a stack of decide calls per thread, one action per step that another thread or a failure can separate from the next; instantiates `SharedModel` for the model's life |
| `Decision` | decide calls inside: prefix cache, reads, microbatch | one call at a time, which `Sessions` ensures; the call's place and the rows being executed, one or all of a microbatch. `Lookup`, `Build` and `Install` are the replacement of an entry as `dg_systemone_execute` orders it |
| `Answers` | what a decide call promises of its answers | a call answers all its rows or none, each as alone |
| `Workspace` | a session's storage: arenas, device, page-locked and scratch memory, the prefix cache's | a layout is computed twice, as the code does: when an arena is planned and when arrays are carved from it, both in bytes. One action per phase, growth or failing request |
| `ModelLoad` | loading and destroying models by several threads | a step per thing taken or given back; `once`, `ready`, `context` are the driver's, `held` what a model under construction has |
| `NumericLocale` | the locale's creation | `state` is the atomic, one access per action |
| `Startup` | `ModelLoad` and `NumericLocale` in one process | threads that load, and threads that format |
| `Tokenizer` | `dgt_load`, `dgt_tokenize`, `dgt_piece` | the heap is the code's array, sifted as there; links are positions |
| `BpeScan` | what byte-pair encoding promises | repeated scanning of the whole piece |
| `Passes` | prefill and decode: prefix, packing, windows, staged K/V | a row of activations is what it was computed from |
| `Experts` | top experts, grouping by expert, tiles, sums | host loop and device threads over the same logits |
| `CpuKernels` | products and dots of the exact backends | a sum is the sequence of products added to it; OpenMP's blocks run in any order |
| `CudaBlocks` | the device's matrix products | threads of a block between barriers: where each is, its registers, shared memory |
| `Scores` | labels, best tokens and entropy of answer slots | tables as the code's sorted arrays |
| `Forward` | `Passes` and `CudaBlocks` side by side | parts of `Inference` that are proved about: their constants, what is assumed of them, their three properties |
| `Sums` | `CpuKernels`, `Experts` and `Scores` side by side | the same, of the parts that take a sum apart: four properties |
| `Inference` | all of these in one session | extends `Forward` and `Sums` by the tokenizer; one action per part |
| `RefCount` | `ModelRefs` beside `Sessions` | `ModelRefs` under names of its own: what is assumed of it, and its properties |
| `ErrorFrames_proofs`, `Decision_proofs`, `Startup_proofs`, `Sessions_proofs`, `Workspace_proofs`, `Forward_proofs`, `Sums_proofs` | | theorems; `ModelRefs`' are in `Sessions_proofs` |
| `FoldLemmas` | | what proofs need of folds, maxima, quotients and sequences |
| `MC*` | | values for the model checker |

Definitions called `Faulty...` are not part of a model: each is a plausible
mistake that a property has to be able to notice when it replaces the
definition after it.

In `Sessions` a call's place is `ready`, `validate` (arguments, cleanup
record), `lock`, `context` (in the mutex, context not yet entered), `prepare`
(a row is parsed, or all rows if they may run as a microbatch), `execute`
(phases are begun and ended around forward passes), `format`, `finish` (cleanup
disarmed, lock given back), `release`, `log` (in the callback). The four decide
functions differ only in how rows are parsed and in whether success clears
`jb_error_message`; `Finish` allows both. A message is represented by the number
of the call that wrote it. `latest` and a call's `ran` and `caller` are not in
the program: they remember what the properties compare with.

In `Decision` a request is what its preparation yields: its schema, the tokens
of the system turn and of the whole prompt, the size of its canvases, the reads
asked for, and whether its first read is decided enough to be the only one.
Canvases of one size are taken to have one shape: the code compares width,
groups and questions. The K/V computed for a prompt are represented by the
tokens they were computed from; that the layers compute the same numbers in
whichever pass they run is arithmetic, and the repository's own tests compare
it. An answer is the list of reads it averages, each with the tokens it was
made over. A failed decide call is `Fail`, enabled at every step; it poisons
the session if a phase is active, so an entry that was being replaced when a
call failed is never asked again, and the care with which it is replaced is a
second line of defence. `CacheComplete` holds of poisoned sessions too.

In `Workspace` sizes are the real ones: the widths are the model's, the layers
one period of local and full ones. `tracked` names the blocks a failure
releases by itself; everything else has to belong to an arena or to the prefix.
An allocation may be refused at any step, and device memory separately, after
the smaller block is gone.

The numbers in `Passes`, `Experts`, `CpuKernels` and `CudaBlocks` are symbolic:
a row is the record of what it was mixed from, a sum the sequence of products
added to it, in order. Two equal sums are then equal bits whatever the
arithmetic is, since floating-point addition is a function; the converse is not
claimed, so the models are stricter than the code has to be, and the code meets
them. Logits are integers: finite, and above `Least`, which stands for
`-FLT_MAX`. A lane past the end of a row is not stored and what it holds is not
stated. In `CudaBlocks` a thread's step runs from one barrier, or one exchange
through shared memory, to the next, and is atomic: threads of a block write
disjoint places between barriers. A thread waits at a barrier until all threads
of the block have reached it; blocks share only the result, each place of which
one of them stores, so one block at a time in any order shows what all at once
do.

In `Inference` one part moves while the others are at rest. They share no
variable, and in the code each returns to rest inside one call of a session:
interleaving them would multiply states and show nothing else. A behaviour of
`Inference` is therefore one of each of its parts with pauses, and what
`Forward_proofs` and `Sums_proofs` prove of their specifications holds in it.
`Startup` does the same for loading and formatting, each of which interleaves freely among
threads of its own.

In `ModelLoad` a device that has failed for good refuses everything; memory
handed to `cuMemFree` then counts as given back, since nobody else can return
it, and what the properties ask is that it was handed over exactly once.

### Assumptions on callers

They keep the header's contract where the code relies on it: a reference is
retained through one that stays valid, and given up once; a session is created
through a held reference, called only while it lives, and freed only when no
call is in it. Callers do call one session from several threads at once,
because the code has a refusal for that, and log callbacks call anything.

## Runs

| Run | Asks | Bounds, and why they are enough |
|---|---|---|
| `error_frames` | do marks, numbers and one list implement ownership by call? | 2 addresses, depth 2, 3 allocations, 2 cleanups per frame and 3 per thread. A block per call, a move to the address another left, an address used again under a younger number, and each cleanup limit reached on its own |
| `model_refs` | is the count exact, the model destroyed once, last, and eventually? | 3 threads, 4 references, limit 5 (not reached): retries, two releases of the last two references, and a retain between them |
| `model_refs_saturated` | does an over-retained model leak rather than die? | 1 thread, 5 references, limit 3 |
| `model_refs_saturation_race` | and with two threads? Violated, see below | 2 threads, 4 references, limit 3 |
| `sessions` | session integrity on the CPU under calls from two threads and their callbacks | 1 session, 3 calls nested up to 2 deep, batches of 2. A call that fails, one its callback makes, and one of the other thread in between |
| `sessions_accelerator` | do lock and context follow the calls, and does every call return? | 2 sessions, 2 threads, 2 calls: contention for the mutex, a callback that uses or frees the other session |
| `decision` | is each row answered as alone, whatever is cached and whatever failed; do passes fit; do reads end? | 4 requests of 2 schemas, calls of up to 3 rows, a context of 6 tokens, 9 tokens of K/V. Hits, misses because of the schema and because of a merged token, microbatches and each reason against one, reads in one decode and in two, automatic reads that stop and that go on, fixed reads |
| `workspace` | do plans equal what is taken, has every block one owner, are device sizes true, does freeing leave nothing? | one session, calls of three shapes in any order (one row with automatic reads; one with a merged token and reads two at a time; a microbatch of two), on the CPU quantized or not and on an accelerator, failing at any step. A call grows arenas, keeps them, or follows one that failed |
| `inference` | does the heap merge what scanning merges; are rows, canvases, experts, products and scores the same however they are computed? | below |
| `load` | is what a load took given back once, is the accelerator whole, does every load and format return? | 2 threads, 2 shards, 2 matrices, one model each: both reach for the accelerator, or for the locale, before either has it; any step fails, or the device for good |
| `sessions_poison` | the header's sentence on poisoning. Violated, see below | 1 thread, 1 call of 2 rows |
| `sessions_last_error` | the header's sentence on `jb_last_error`. Violated, see below | 1 thread, 2 calls |

The bounds of `inference`, part by part. *Tokenizer*: every order of four merges
that compete for two letters, over all texts of up to six of them; a merge whose
token is absent; special tokens one of which begins another; characters with
all, some or none of their bytes known, and bytes that are no character; files
that are refused. *Passes*: three layers, one of them full, a window of 2;
prompts shorter and longer than it, of two schemas; up to three segments, so
that two canvases share a prompt while another does not, and packing pads.
*Experts*: up to three tokens, two experts of three, ties of two and of three;
tiles of 2 and a grid of 3, so that blocks stride. *CpuKernels*: rows, columns and
tokens that fill a block, and that leave a tail in each direction. *CudaBlocks*:
tiles of four, three, two and one tokens, a block with two tiles of which the
second is shorter, rows and units that do not fill a block, two chunks, so that
a fast thread could overwrite what a slow one still reads. *Scores*: two slots,
lists of labels out of order and with repetitions, a cap of 2 that later labels
reach from below, best two of four tokens with ties.

Bounds that are in the models: `MaxDepth`, `MaxSequence` (`ErrorFrames`);
`MaxNesting`, `MaxCalls`, `MaxRows`, `MaxPasses` (`Sessions`); `MaxRows`
(`Decision`), for `JB_MAX_BATCH_INPUTS`; `Calls` (`Workspace`);
`MaxSegments` (`Passes`), `MaxTokens` (`Experts`), `MaxSlots` (`Scores`, for
`DG_AUTO_READ_MAX_QUESTIONS`). `Saturated`
stands for `UINT_MAX`, `CleanupMax` and `CleanupStackMax` for the code's limits
of 16 and 64. Deadlock is checked for `ErrorFrames`, which can always make a
step. In the other runs the system does stop: when the model is freed, or the
bounded number of calls has been made, or the session is poisoned.

Fairness. `ModelRefs`: a thread that has given up the last reference goes on to
destroy the model, since nothing on that way blocks. `Decision`: a call takes
its next step, nothing in it waits. `Sessions`: a thread in a
call makes its next step whenever it can; this includes returning from the
callback, which the contract leaves to the embedder but which any deadlock
claim needs. `Startup`: a thread in a load or in a format makes its next step;
one that spins for the locale, or waits for the accelerator to be opened, needs
the other thread to be scheduled, which an operating system with preemption
does. No fairness is assumed of callers, of failures (each failing
branch shares an action with the successful one, except `LockFails`, which is
not fair), nor that a waiter gets the mutex ahead of others: a finite number of
calls makes weak fairness enough.

## What the runs showed

1. *Saturation race* (`api.inc:205-207`). The comment at `api.inc:194` says
   saturation leaks the model "instead of allowing wraparound and premature
   destruction". A release tests for `UINT_MAX` and then decrements: between
   the two another thread can saturate the count, after which retains are not
   counted, and the decrement starts counting the uncounted references down. It
   takes 2^32 - 1 references, so it matters to the comment, hardly to a user.
   One thread at a time (`model_refs_saturated`) the comment holds.
2. *Poisoning* (`api.inc:37`, `jb.h:192`). The header: "A failure after
   inference workspace execution begins poisons it". The code poisons only if a
   phase is active at the failure: out of memory while the answer is formatted
   leaves the session usable. `PoisonFollowsPhase` states what the code does,
   which is safe: nothing is half written then.
3. *Erased message* (`api.inc:595`, `jb.h:173`). The log callback may call the
   library; a successful call that clears `jb_error_message` leaves the failed
   call to return with an empty `jb_last_error()`. `jb_session_last_error()` is
   not affected (`ErrorIsLatest`).
4. *Context after free* (`cuda.inc:1799-1802`, not a run: nothing promises
   otherwise). `jb_session_free()` of a session that has run on the accelerator
   leaves the library's CUDA context current on the calling thread, unlike every
   decide call and the model's own destruction, which make the caller's current
   again.

## What is proved

`ErrorFrames_proofs`, under `FrameAssumption` only, for any blocks, cleanups,
statuses, limits and depth. The inductive invariant is `TypeOK`, the agreement
of flags and list, `TrackedInsideCalls` and `MarksOrdered` together. None is
inductive alone: leaving the outermost frame clears the list only if it is the
flags that are cleared with it; a block is inside the outermost call only
because marks are ordered and no number exceeds the sequence; a frame that is
abandoned leaves the cleanup stack at its mark only because marks do not exceed
the stack. The proof has one lemma for what every kind of leaving does
(`PoppedInv`), one for abandoning, and one per operation. From it: `TypeCorrect`,
`FlagsCorrect`, `CallersKeepTheirBlocks`, `MarksCorrect`.

It ends with the refinement, under the same assumption: `Refinement`, every step of
`ErrorFrames` is a step of `CallOwnership` or changes nothing it sees, so
`ImplementsOwnership` holds for any depth of calls and any number of blocks. It
needs one thing the invariant above does not say, `Covered`: some call under way
owns every listed block. That the block's own call exists would be an induction
over the frames; as part of the invariant it is one over steps. The proof has a
lemma per operation, each of which says what becomes of the blocks, cleanups and
status of every call, and leaving a frame, by success or failure, shares
`PoppedFacts`.

`Decision_proofs`, under `DecisionAssumption` (prepared requests, as the code
accepts them), for any requests, vocabulary, limits and number of rows. The
invariant says where an entry can come from (it is what `Entry` makes of the
full K/V of some request's prompt), and what a call has at each step: rows that
hit the entry before a suffix is computed after it, K/V that are the row's own
prompt's before they are installed or read. `CacheComplete` by itself does not
say that an entry's tokens begin the prompt they are used for; `Hit` does,
and `ExtendedIsOwn` puts both together. From it: `CacheAlwaysComplete`, and
`ReadsAreOwn`: no read is made over another prompt's K/V. `PassesFit` is that no
forward pass is empty or exceeds the context. That a hit leaves some of the
prompt to compute takes an argument about the longest common prefix: an entry's
tokens begin both the system turn, which the schema determines, and the prompt
that hits, so they are no longer than what the two have in common
(`CommonIsLongest`, `HitLeavesSome`), and a prompt goes on beyond that. That
rows and reads fit together is what they were tried for: `Fits` keeps it while
they run, `GroupTokens` has the division. The maxima in these definitions exist
because a bounded set of naturals has a greatest element (`FoldLemmas!Greatest`), which
comes from the well-foundedness of their order.

It ends with the refinement, under the same assumption: `AnsweredAsAlone`, every step of
`Decision` is a step of `Answers` or changes nothing it sees, so
`ImplementsAnswers` holds for any requests, vocabulary, limits and rows. Beside
the invariant above, which says over which K/V a read is made, it needs
`CallSound`, which counts. The rows being executed are the next ones not
answered (`JobsAreNext`); before read number n a row has the first n, or all it
wants, unless its first read stopped it (`RowSound`), whether reads come one at
a time, in groups, or with other rows'; and answers given are those of the first
rows (`AnswersSound`). `ScoredSound` is the step: a group never goes past what
the row wants, and an automatic row's first read is alone in its group, which is
why a row that stops has exactly one. `TypeCorrect` follows from the same
invariant with what a call is made of (`CallTyped`): the type says that scores and
answers are reads within the largest number any request asks for, which only
`CallSound` gives.

`Sessions_proofs` begins with the reference count (`RefCount`), for any threads
and any finite set of references of fewer than `Saturated`. The invariant
counts: the number of references is the count, and while the model is being
destroyed or has been, it is zero, no retain is under way and exactly one thread
is or was the destroyer. A retain is safe because the reference it is made
through is not given up meanwhile; that is in the invariant too. From it:
`RefsTypeCorrect`, `CountCorrect`, `AliveCorrect`, and `CountRefines`: every
step of `ModelRefs` is a step of `SharedModel` or changes nothing it sees. The
assumption is a hypothesis of the theorems, since the runs at saturation are
outside it.

It goes on with sessions, under `SessionsAssumption`, for any threads, sessions,
nesting, batches and passes, with and without an accelerator. What makes it
possible to speak of stacks of calls without induction over them: on every
thread only the innermost call works, those under it are in their log callbacks
and have given everything back. So the invariant says four things of the
innermost call of each thread and its session's record (`PhasesSound`,
`PoisonSound`, `LockSound`, and that what it will report is its own failure),
`SessionSound` of a session at rest, `Exclusive` that two threads' calls are in
different sessions, and that every session and call holds a reference. A lemma,
`Advance`, says what a step of one thread must leave alone for the rest to hold;
then there is one lemma per action. From it: `CallsExclude`,
`IdleSessionsQuiescent`, `LockNeverLeaks`, `ModelAlwaysOutlives`, `PoisonExact`,
`ErrorAlwaysLatest`, `PoisonedForGood`, each the property of the run with the
same meaning; and `UsesSharedModel`: what sessions and calls do with references
is what `SharedModel` allows, so `ModelRefs` and `Sessions` meet in one
abstract model.

`Workspace_proofs`, for every model's widths and any calls the code accepts:
`EveryBlockIsOwned`, `DeviceMemoryIsAsRemembered`, `FreeingLeavesNothing` and
`WhatIsPlannedIsTaken`, each the property of the run with the same meaning, and
`TypesAreKept`. Two assumptions, which the run's constants meet.
`WorkspaceAssumption` types the constants, and a prepared request's canvases fit
the context, which `dg_job_prepare_request` checks. `WidthsAssumption` is what
the program's own widths satisfy (`foundation.inc:114-129`) and its plans rely on:
rows of activations end where the next array may begin, some layer is full, and a
full layer attends over no less than a local one. Without the last a plan would be
short: `dg_attention_workspace_bytes` counts full layers only, "Full attention has
the largest Q/K/V projections in this model" (`engine.inc:45`).

The invariant is `Types` with four parts. `HostSound`: the blocks of the heap are
those of arenas, of the prefix and of the entry under construction, all
different, each as large as its owner says; `BlocksAreOwned` is the first half
of it, and not inductive, since growing an arena frees the block it names.
`DeviceSound` says the same of device memory, with `DeviceHolds`: a pass has what
it has got past asking for. `PlansSound` says how much of an arena is taken at
each phase. A plan is exact because some layer of a period takes the most, so the
peak is at the planned size once the first full layer has run (`LayerPeak`), and
what the tail of a pass takes is planned for by the shape of the call
(`ReadsSound`); until then only bounds are known, which is why the invariant has
an interval there.

A layout is a fold over arrays, so most of the module is arithmetic of folds:
arrays laid one after another end where they are aligned to (`LaidRuns`), a plan
that starts further on is shifted by as much (`PlannedShift`), and the plans of
attention and of the feed-forward are what a layer carves (`AttentionFits`,
`FeedForwardExact`).

`FoldLemmas` is what makes folds provable. The library's induction theorems take
an operator; here induction is the absence of a least counterexample in a set of
numbers (`InductionTo`), and a fold is the last of a run of values, one for each
prefix of what is folded (`FoldRuns`), whose existence is by the same induction
over prefixes (`FoldExists`). Whatever holds of the first value and is kept from
one to the next then holds of the fold. `Decision_proofs`, `Workspace_proofs`,
`Forward_proofs` and `Sums_proofs` share it.

`Forward_proofs` begins with the accelerator's matrix products
(`DeviceSumsAreReference`): `DeviceSumsInOrder` for any launch, any number of
rows, units, tokens and matrices, any size of blocks and chunks, and any order of
threads and blocks. `DeviceAssumption` is what a launch is, a matrix for each of
some tokens, and that a tile's tokens divide among the threads of a row, as the
kernels' sizes do when they are compiled (`TS = TOKENS / TY`). The invariant is
about rounds. A barrier lets no thread go before all have come, so the threads of a
block are at one chunk of one tile: all wait for it; or each stages or has staged
its slots; or every slot is staged and each computes or is past it, at the next
barrier, storing, at its next tile's barrier or at its end (`Round`). That a thread
stages into slots others read is harmless because those who are past wait
(`Past`), and what one thread's slots hold no other thread's staging changes
(`StageWrites`). Then `ResultSound` says which sums are stored, by the tile a
token is in and by how far the thread has come that owns its row (`Stored`): a
thread goes from tile to tile by a stride, so it takes each tile of its residue once
(`StoredGrows`). It rests on what the tiles are, a fold over tokens (`TilesAre`:
contiguous, of one matrix, in order, of every token), and on the division of a
chunk's slots among threads (`SlotFilled`: each is some thread's).

It goes on with the forward passes: `KVIsThePrompts` (`KVRowsAreThePrompts`) and
`CanvasesReadAlone` (`CanvasesReadWhatTheyWouldAlone`), for any number of
layers, period of full attention, window, common prefix and segments, any
prompts and canvases, on the host and on the device. `PassesAssumption` asks
only that prompts and canvases are sequences of tokens, no canvas empty, and
that there is a layer, a period and a window, which are constants of the code
(`DG_L`, `DG_FULL_EVERY`, `DG_LOCAL_WINDOW`). The property itself is not
inductive: it is about a pass that is over. `PassesInv` says where one is. Its
K/V so far is the prompts' for the layers done (`FilledSoFar`), or staged for
them on the device (`StagedRows`); the activations in each segment's places are
those its prompt and canvas have by themselves after as many layers
(`RowsHold`), which a segment's padding has no part in; and the prefix in the
cache is that of its own tokens (`PrefixHolds`). Two things make a layer keep
that. What a row takes is one stretch of its segment's keys, cached ones and
then its own, whether the host goes through them (`HostTakes`) or the device
finds them in what was uploaded once for all segments that share it
(`DeviceTakes`, by `UploadedHolds`: a segment's base is where the first segment
with its cache put it). And a prompt's row takes none after it, so the rows of a
prefix do not depend on what follows (`Causal`, by induction over layers): that
is what lets a prefix be kept for other prompts, and a prompt's K/V for other
canvases. A canvas attends both ways, and then only within itself and its
prompt, which is why a segment must not see its neighbour and why its window
ends at its own last row.

`Sums_proofs` begins with the mixture of experts: `MixtureIsTheTokensOwn`
(`MixtureCorrect`) and `TilesCoverRows` (`TilesCorrect`), for any number of experts,
choices, tokens, any size of tiles and grid, and any order of threads and blocks.
`ExpertsAssumption` asks that a token has at least as many experts as choices and
that its logits are above `Least`. `dg_ff` refuses a pass whose logits are not
finite; a finite one of exactly `-FLT_MAX` would beat no place of the search, which
the assumption leaves out. The invariant (`XInv`) follows the phases. On the host, the
choices of the experts it has been at are multiplied (`HostDone`). On the device, a
thread that is done has placed its expert's rows, choices and tiles where nobody
else's are (`Placed`, `ThreadsDone`); once all are (`AllPlaced`), the rows whose tile's
block has run are multiplied (`BlocksDone`). Then all sums are the tokens' own
(`OwnProducts`). It rests on three things about folds. The search keeps the best of
what it has seen, in order, ties by number (`SearchRanks`), and how many are ahead
tells which it is (`RankIs`), so its places are the property's (`BestIsPlaced`). The
rows of an expert are its choices in the order of the loops, and all experts' add up
to all (`OwnedLists`, `CountsAddUp`). And what starts where another ends covers
everything once, rows as well as tiles, so each row is in exactly one tile
(`StartsCover`, `StartsOnce`, `RowCovered`), which some block takes by its stride.

It goes on with the scores: `EachCountedOnce` (`CountedCorrect`), for any vocabulary,
labels, cap and number of slots. `ScoresAssumption` asks that labels are tokens, that
there are at least as many as the best kept, and that logits are above `Least`, which
the softcap makes them: they are within 30 of zero. The invariant (`SInv`) is that what
is requested is what the slots' labels merge to, and that the slots so far are counted
and scored. The best tokens are a search like the experts', except that it looks at
the last place first; that is the same because the best descend
(`EnteredDescends`). What is requested stays the smallest labels so far, in order: one
that was dropped for the cap never comes back, since those that displaced it stay
ahead of it (`PutSmallest`, `RequestedSmallest`).

It ends with the processor's products: `EverySumInOrder`
(`ProductsAddAsTheReference`), for any shapes, any size of vectors, images and blocks
of tokens, every kernel that promises the reference's bits, and any order in which
threads take blocks of rows. `KernelsAssumption` asks that a product has a token, a
row and a column, and that the lanes of an image and the columns of a scale are even,
since two NVFP4 weights share a byte (they are `DG_EXACT_ROWS` and 16). Three things
make it true. What is read is what the reference reads: an image of rows side by
side, its nibbles and scales hold at a place the weight and the scale of the row and
column it is read for (`ExactWeightAt`, `ExactCodeAt`, `ExactScaleAt`), and a lane
that is stored is never one that repeats the last row (`OwnRow`). What is added in
pieces, by vectors of columns and then the tail, or by scales, is the reference's
sum cut and put together again (`Rejoined`), so it is in the reference's order
(`SumsRight`). And what a block stores, token by token and lane by lane, is one list
whose indices are the block's rows of every token, each once (`ItemsAre`,
`BlockIsFresh`, `BlockIsStored`), so storing it gives each of them its own sum and
nothing twice (`StoresEach`). The invariant (`ProductInv`) is then that exactly the
indices of the blocks that ran hold a sum, each its own.

`Startup_proofs` begins with the numeric locale, for any threads. The invariant:
who creates does so alone and while the state says so, the state that is
published is what whoever goes by it finds, and nobody spins before there is a
creator; the last is why a spinning thread never takes the initial 0 for an
outcome. From it: `LocaleAlwaysComplete`, and `LocaleDecidedForGood`: an outcome
is never revised. Then: every step of a process whose threads load models and
format numbers is a step of the numeric locale or leaves it alone
(`StartupRunsLocale`), so `LocaleIsComplete` holds in it
(`StartupFormatsWhole`), whatever loads go on and fail; and it is a step of
`ModelLoad` or leaves that alone (`StartupLoads`). Of loading the module proves,
for any threads, shards, matrices, devices and kernels, that `LoadGivesBack`
(`EveryLoadGivesBack`) and `AcceleratorIsWhole` (`AcceleratorAlwaysWhole`). The
invariant (`LoadInvariant`) says exactly what a thread holds at every step: what
its model names, of which the frame releases one part and the cleanup the rest
(`HoldsSound`); where in the call a model can be on the accelerator, and when it
is whole (`ModelSound`); that the application's context is current, or saved by
whoever changed it (`ContextSound`); and that one thread opens the accelerator,
which has what it needs once a model uses it (`AcceleratorSound`). The last is
what `AcceleratorIsWhole` lacks to be inductive: a failed compilation takes
`ready` back, which is harmless only because no model can be on an accelerator
that is still being opened. One lemma says what each taking adds to what must be
given back, then there is one per action.

Only model-checked: `TokensSpell` and `ImplementsScan` of texts, an induction over
the tokens of a text that a recursive definition repeats, and everything under
fairness (the proof system does not handle `ENABLED` or fairness):
`EveryCallReturns`, `CallEnds` and the liveness part of `ImplementsSharedModel`.
What a recursive definition computes on all inputs is also out of the prover's reach
and is left to bounded checks.

## What is not modelled, and why

*Arithmetic of single numbers.* Norms, rotations, activation functions,
quantization, exponentials and the rounding of a product are functions of their
inputs here. The fast-math AVX2 and AVX-512 kernels and the tensor-core and FP4
kernels of the device add in an order of their own and promise no bits: there is
nothing to check but a tolerance, which the repository's tests do.

*Text.* The JSON parser is a grammar over one text, the request and schema
parser reads its tokens, and answers are worded from scores: `Decision` has what
they decide for the execution. The safetensors header's checks are steps of
`ModelLoad` that may fail. Vocabularies or merges with duplicates that the
loader accepts are left out of `Tokenizer`.

*Clients.* The command line, the evaluation loop, tools, fuzzers, examples and
tests keep no state beyond a command; `src/jb.c` is a concatenation.

*Details.* Without a frame `die()` ends the process; inside an OpenMP region it
aborts: neither is a behaviour to recover from, and both are excluded by the
guards. The active allocator is a thread-local that each call saves and restores
on both its ways out; a block remembers its own, so no property depends on it.
`JB_PROFILE` builds add a pointer that the cleanup resets; `JB_CANVAS_SEQUENTIAL`
builds decode one canvas at a time; the command line may run without a prefix
cache: all three are left out. Relaxed atomics are modelled by interleaving:
each access is to a single location.

## What is left

In this order: the grouping of JSONL rows into
batches by the evaluation loop; the fast-math kernels, if a bound on their order
of additions were ever promised.
