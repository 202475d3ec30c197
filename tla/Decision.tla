------------------------------- MODULE Decision -------------------------------
(***************************************************************************)
(* How a session executes decide calls: its prefix cache, the reads of a   *)
(* request, and rows run one by one or together as a microbatch.           *)
(* src/decision.inc:935-1562.                                              *)
(*                                                                         *)
(* A request is modelled by what its preparation yields: the schema's      *)
(* text, the tokens of the system turn and of the whole prompt, and the    *)
(* shape of its answer canvases.  K/V for a prompt are modelled by the     *)
(* tokens they were computed from, since a causal model computes a token's *)
(* K/V from it and those before it.                                        *)
(*                                                                         *)
(* A session is in one call at a time (Sessions), so nothing here is       *)
(* concurrent; what is hard is that a call can fail at every step and the  *)
(* cache outlives it.                                                      *)
(***************************************************************************)
EXTENDS Integers, Sequences, FiniteSets, SequencesExt, FiniteSetsExt

CONSTANTS
  Tokens,       \* the vocabulary
  Requests,     \* requests that can be prepared
  Empty,        \* no cache entry
  Context,      \* JB_MAX_CTX
  KVLimit,      \* JB_MICROBATCH_KV_LIMIT, in tokens
  MaxRows       \* bound: rows of a call

AutomaticReads == 4
MaxSamples == 32

(* The number of tokens the system turn has in common with the prompt. *)
Common(q) == Len(LongestCommonPrefix({q.system, q.prompt}))

(* dg_request_parse, dg_request_parts and dg_job_prepare_request accept a   *)
(* request: prompt and canvases fit the context, the samples asked for are  *)
(* allowed, 0 standing for automatic.  Prompts begin with the system turn,  *)
(* at least its first token, and go on beyond it.                           *)
Prepared(q) ==
  /\ q.system \in Seq(Tokens) /\ q.prompt \in Seq(Tokens)
  /\ Len(q.prompt) <= Context
  /\ Common(q) \in 1..(Len(q.prompt) - 1)
  /\ q.canvas \in 1..Context
  /\ q.samples \in 0..MaxSamples
  /\ q.decided \in BOOLEAN

ASSUME DecisionAssumption ==
  /\ Context \in Nat /\ KVLimit \in Nat /\ MaxRows \in Nat
  /\ \A q \in Requests : Prepared(q)
  /\ \A p, q \in Requests : p.schema = q.schema => p.system = q.system

VARIABLES
  cache,        \* DGPrefixCache: a schema, the prefix's tokens and their K/V
  rows,         \* the requests of the call in progress
  at,           \* where the call is
  jobs,         \* the rows being executed: one, or all of a microbatch
  read,         \* the next read
  answers,      \* answers to the rows executed
  output,       \* what the last call returned
  poisoned      \* the session is unusable

vars == <<cache, rows, at, jobs, read, answers, output, poisoned>>

Batches == UNION {[1..n -> Requests] : n \in 1..MaxRows}

(* A prepared row: its K/V, the reads scored, and whether it goes on. *)
Job(q) == [request |-> q, kv |-> <<>>, scores |-> <<>>, active |-> TRUE]

Init ==
  /\ cache = Empty
  /\ rows = <<>> /\ at = "idle"
  /\ jobs = <<>> /\ read = 0 /\ answers = <<>>
  /\ output = <<>>
  /\ poisoned = FALSE

-----------------------------------------------------------------------------
(* Definitions called Faulty... are mistakes the runs must be able to tell   *)
(* from the code: each replaces the definition it precedes, in turn.        *)

(* The entry's tokens are not compared with the prompt's. *)
FaultyHit(q) == cache # Empty /\ cache.schema = q.schema

(* The cache holds a prefix of this very prompt. *)
Hit(q) == cache # Empty /\ cache.schema = q.schema /\ IsPrefix(cache.ids, q.prompt)

Suffix(q) == Len(q.prompt) - Len(cache.ids)

Longest == Max({Suffix(rows[i]) : i \in DOMAIN rows})

(* The batch is tried against the limit with its first row's canvases once. *)
FaultyTogether ==
  /\ Len(rows) > 1
  /\ \A i \in DOMAIN rows : Hit(rows[i]) /\ rows[i].canvas = rows[1].canvas
  /\ rows[1].canvas <= Context
  /\ Longest <= Context

(* The rows can run as one microbatch: they hit the entry, have canvases of *)
(* one shape, and fit the context and the K/V limit together.               *)
Together ==
  /\ Len(rows) > 1
  /\ \A i \in DOMAIN rows : Hit(rows[i]) /\ rows[i].canvas = rows[1].canvas
  /\ Len(rows) * rows[1].canvas <= Context
  /\ Len(rows) * Longest <= Context
  /\ FoldSeq(LAMBDA q, sum : Len(q.prompt) + sum, 0, rows) <= KVLimit

(* A decide call enters a session that is usable. *)
Ask(batch) ==
  /\ at = "idle"
  /\ ~poisoned
  /\ rows' = batch
  /\ at' = "choose"
  /\ output' = <<>>
  /\ UNCHANGED <<cache, jobs, read, answers, poisoned>>

(* dg_system_batch and its siblings: prepare every row if there may be a    *)
(* microbatch, and begin it; or leave the rows to be executed in order.     *)
Choose ==
  /\ at = "choose"
  /\ IF Together
       THEN /\ jobs' = [i \in DOMAIN rows |-> Job(rows[i])]
            /\ at' = "suffix"
       ELSE /\ at' = "prepare"
            /\ UNCHANGED jobs
  /\ UNCHANGED <<cache, rows, read, answers, output, poisoned>>

(* dg_systemone up to dg_worker_kv_begin, for the next row. *)
Prepare ==
  /\ at = "prepare"
  /\ jobs' = <<Job(rows[Len(answers) + 1])>>
  /\ at' = "lookup"
  /\ UNCHANGED <<cache, rows, read, answers, output, poisoned>>

-----------------------------------------------------------------------------
(* The prefix cache.  An entry that does not match is discarded before its  *)
(* replacement is built.                                                    *)
Lookup ==
  /\ at = "lookup"
  /\ IF Hit(jobs[1].request)
       THEN /\ at' = "suffix"
            /\ UNCHANGED cache
       ELSE /\ at' = "build"
            /\ cache' = Empty
  /\ UNCHANGED <<rows, jobs, read, answers, output, poisoned>>

(* dg_prefill over the whole prompt. *)
Build ==
  /\ at = "build"
  /\ jobs' = <<[jobs[1] EXCEPT !.kv = jobs[1].request.prompt]>>
  /\ at' = "install"
  /\ UNCHANGED <<cache, rows, read, answers, output, poisoned>>

(* The whole system turn is taken for the prefix, as if the tokens after it *)
(* never merged with its last ones.                                         *)
FaultyEntry(job) ==
  [schema |-> job.request.schema, ids |-> job.request.system,
   kv |-> SubSeq(job.kv, 1, Len(job.request.system))]

(* The replacement: the tokens the prompt has in common with the system     *)
(* turn, and a copy of their K/V.                                           *)
Entry(job) ==
  LET q == job.request
  IN  [schema |-> q.schema,
       ids |-> SubSeq(q.prompt, 1, Common(q)), kv |-> SubSeq(job.kv, 1, Common(q))]

Install ==
  /\ at = "install"
  /\ cache' = Entry(jobs[1])
  /\ at' = "read"
  /\ UNCHANGED <<rows, jobs, read, answers, output, poisoned>>

(* dg_prefill_suffix, dg_prefill_suffix_multi: the entry's K/V, and the     *)
(* rest of each prompt computed after it.                                   *)
Extended(q) == cache.kv \o SubSeq(q.prompt, Len(cache.ids) + 1, Len(q.prompt))

PrefillSuffix ==
  /\ at = "suffix"
  /\ jobs' = [i \in DOMAIN jobs |-> [jobs[i] EXCEPT !.kv = Extended(jobs[i].request)]]
  /\ at' = "read"
  /\ UNCHANGED <<cache, rows, read, answers, output, poisoned>>

-----------------------------------------------------------------------------
(* Reads *)

MaxReads(q) == IF q.samples = 0 THEN AutomaticReads ELSE q.samples

(* The row has another read to make. *)
Wants(job) == job.active /\ read < MaxReads(job.request)

Wanting == {i \in DOMAIN jobs : Wants(jobs[i])}

(* A group one token short of what fits. *)
FaultyMostButOne(q) == (Context - 1) \div q.canvas

(* Reads whose canvases fit one decode. *)
Most(q) == Context \div q.canvas

(* The reads one decode of a single row makes: automatic reads run the      *)
(* first alone.                                                             *)
Group(q) ==
  LET left == IF q.samples = 0 /\ read = 0 THEN 1 ELSE MaxReads(q) - read
  IN  IF left > Most(q) THEN Most(q) ELSE left

(* The first automatic read decides whether more follow. *)
Stops(q) == q.samples = 0 /\ read = 0 /\ q.decided

(* The group's reads are numbered from one. *)
FaultyScored(job, count) ==
  [job EXCEPT
     !.scores = @ \o [k \in 1..count |-> [read |-> read + k, over |-> job.kv]],
     !.active = @ /\ ~Stops(job.request)]

(* dg_job_score of `count` reads over the row's K/V. *)
Scored(job, count) ==
  [job EXCEPT
     !.scores = @ \o [k \in 1..count |-> [read |-> read + k - 1, over |-> job.kv]],
     !.active = @ /\ ~Stops(job.request)]

(* One row: a group of reads in one decode. *)
ReadAlone ==
  /\ at = "read"
  /\ Len(jobs) = 1
  /\ Wanting # {}
  /\ LET count == Group(jobs[1].request)
     IN  /\ jobs' = <<Scored(jobs[1], count)>>
         /\ read' = read + count
  /\ UNCHANGED <<cache, rows, at, answers, output, poisoned>>

(* A microbatch: one read of every row that wants one. *)
ReadTogether ==
  /\ at = "read"
  /\ Len(jobs) > 1
  /\ Wanting # {}
  /\ jobs' = [i \in DOMAIN jobs |->
               IF i \in Wanting THEN Scored(jobs[i], 1) ELSE jobs[i]]
  /\ read' = read + 1
  /\ UNCHANGED <<cache, rows, at, answers, output, poisoned>>

(* dg_worker_kv_end, dg_control_end *)
EndReads ==
  /\ at = "read"
  /\ Wanting = {}
  /\ at' = "format"
  /\ read' = 0
  /\ UNCHANGED <<cache, rows, jobs, answers, output, poisoned>>

(* The rows executed are answered, each from its own scores; then the next  *)
(* row, or the call returns.                                                *)
Format ==
  /\ at = "format"
  /\ answers' = answers \o [i \in DOMAIN jobs |-> jobs[i].scores]
  /\ jobs' = <<>>
  /\ at' = "return"
  /\ UNCHANGED <<cache, rows, read, output, poisoned>>

Return ==
  /\ at = "return"
  /\ IF Len(answers) < Len(rows)
       THEN /\ at' = "prepare"
            /\ UNCHANGED <<rows, answers, output>>
       ELSE /\ at' = "idle"
            /\ output' = answers
            /\ rows' = <<>> /\ answers' = <<>>
  /\ UNCHANGED <<cache, jobs, read, poisoned>>

(* Whatever dies: the job and a replacement entry under construction are    *)
(* released with the call's other allocations, the entry installed stays.   *)
(* The session is poisoned if a phase of its workspace is active.  The      *)
(* phases of a microbatch begin one after the other in Choose.              *)
InPhase == at \in {"lookup", "build", "install", "suffix", "read"}

Fail ==
  /\ at # "idle"
  /\ \/ poisoned' = InPhase
     \/ at = "choose" /\ Together /\ poisoned' = TRUE
  /\ at' = "idle"
  /\ rows' = <<>> /\ jobs' = <<>> /\ answers' = <<>> /\ read' = 0
  /\ UNCHANGED <<cache, output>>

Step ==
  \/ Choose
  \/ Prepare
  \/ Lookup
  \/ Build
  \/ Install
  \/ PrefillSuffix
  \/ ReadAlone
  \/ ReadTogether
  \/ EndReads
  \/ Format
  \/ Return

Next == (\E batch \in Batches : Ask(batch)) \/ Step \/ Fail

Spec == Init /\ [][Next]_vars

(* A call that is under way goes on until it returns or dies. *)
FairSpec == Spec /\ WF_vars(Step)

-----------------------------------------------------------------------------
(* The type of every variable. *)
Read == [read : 0..(Max({MaxReads(q) : q \in Requests}) - 1),
         over : {q.prompt : q \in Requests}]

TypeOK ==
  /\ cache = Empty \/ cache.schema \in {q.schema : q \in Requests}
  /\ rows \in Batches \cup {<<>>}
  /\ at \in {"idle", "choose", "prepare", "lookup", "build", "install", "suffix",
             "read", "format", "return"}
  /\ Len(jobs) \in {0, 1, Len(rows)}
  /\ \A i \in DOMAIN jobs : jobs[i].scores \in Seq(Read)
  /\ read \in 0..MaxSamples
  /\ answers \in Seq(Seq(Read))
  /\ output \in Seq(Seq(Read))
  /\ poisoned \in BOOLEAN

(* Whatever calls have failed and wherever, an entry in the cache is        *)
(* complete: its K/V are those of its tokens, it begins some prompt of its  *)
(* schema and leaves a rest of it to compute (decision.inc:1232-1258).      *)
CacheComplete ==
  cache # Empty =>
    /\ cache.kv = cache.ids
    /\ \E q \in Requests : /\ q.schema = cache.schema
                           /\ IsStrictPrefix(cache.ids, q.prompt)

(* The tokens of the forward pass the call is about to make. *)
PassTokens ==
  CASE at = "build"  -> Len(jobs[1].request.prompt)
    [] at = "suffix" -> Len(jobs) * Max({Suffix(jobs[i].request) : i \in DOMAIN jobs})
    [] at = "read" /\ Len(jobs) = 1 -> Group(jobs[1].request) * jobs[1].request.canvas
    [] OTHER -> Cardinality(Wanting) * jobs[1].request.canvas

(* No forward pass is empty or exceeds the context, so no call fails for    *)
(* how its rows or reads were grouped: rows that fit alone but not together *)
(* run in sequence (decision.inc:1414-1423), and reads that do not fit one  *)
(* decode are split (decision.inc:1300-1304).                               *)
PassFits ==
  at \in {"build", "suffix"} \/ (at = "read" /\ Wanting # {})
    => PassTokens \in 1..Context

(* Every call returns: the reads come to an end (decision.inc:1301-1314).   *)
CallEnds == at # "idle" ~> at = "idle"

ReadsOf(q) == IF q.samples = 0 /\ q.decided THEN 1 ELSE MaxReads(q)

Promised == INSTANCE Answers WITH Reads <- ReadsOf

(* The cache, the grouping of reads and the microbatch do not show: every   *)
(* row is answered as it would be alone, all rows or none ("Each read is    *)
(* scored in order, as it would be alone", decision.inc:1298).              *)
ImplementsAnswers == Promised!Spec

=============================================================================
