-------------------------------- MODULE Passes --------------------------------
(***************************************************************************)
(* The forward passes: filling the K/V of prompts, whole or after a shared *)
(* prefix, alone or packed and padded, and reading canvases against them,  *)
(* on the CPU or on an accelerator.  A row of activations is what it was   *)
(* computed from: the row a layer before, its position, and the cached     *)
(* rows its attention took, in the order it took them.                     *)
(* src/engine.inc:359-690, 934-1251; src/decision.inc:1219-1312, 1396-1516.*)
(***************************************************************************)
EXTENDS Integers, Sequences, SequencesExt, FiniteSets, FiniteSetsExt

CONSTANTS
  Prompts, Canvases,       \* sequences of tokens
  Accels,                  \* whether there is an accelerator: a set of BOOLEAN
  L, FullEvery, Window,    \* DG_L, DG_FULL_EVERY, DG_LOCAL_WINDOW
  Common,                  \* how many tokens prompts of a schema share
  MaxSegments              \* bound: documents and canvases in a pass

VARIABLES
  prefix,    \* the prefix cache: tokens, and K/V rows of each layer
  docs,      \* the prompts of the request
  kv,        \* the K/V rows of each prompt and layer
  canvas,    \* what is read: a document and a canvas for each segment
  pass,      \* the pass that runs, or Idle
  layer,     \* layers it has run
  x,         \* its activations, a row for each token
  kv_out     \* K/V rows staged on the accelerator

vars == <<prefix, docs, kv, canvas, pass, layer, x, kv_out>>

NoPrefix == [ids |-> <<>>, kv |-> [l \in 1..L |-> <<>>]]
Idle == [name |-> "none"]
NoCache == 0                   \* where a segment's cached rows are: none, the prefix or a document
InPrefix == -1
Unset == [unset |-> TRUE]      \* a K/V row that is planned and not yet written

-----------------------------------------------------------------------------
(* Rows of activations and of K/V. *)

Embedded(token, decoder) == [token |-> token, decoder |-> decoder]

Mixed(row, pos, taken) == [row |-> row, pos |-> pos, taken |-> taken]

IsFull(l) == l % FullEvery = 0

N == pass.segments * pass.seq
SegmentOf(i) == (i - 1) \div pass.seq + 1
Step(i) == (i - 1) % pass.seq

(* The cache a segment attends to: the prefix, a document's or none. *)
Cache(s) ==
  IF pass.cache[s] = NoCache THEN <<>>
  ELSE IF pass.cache[s] = InPrefix THEN prefix.kv[layer + 1]
  ELSE kv[pass.cache[s]][layer + 1]

Old(s) == Len(Cache(s))

(* K and V of this pass's rows: K is rotated to the row's position. *)
Own == [i \in 1..N |-> [row |-> x[i], pos |-> Old(SegmentOf(i)) + Step(i)]]

(* The keys row t of a segment attends to: from the first to before the second. *)
Span(old, t) ==
  LET pos == old + t
      end == IF pass.canvas THEN old + pass.seq ELSE pos + 1
  IN  IF IsFull(layer + 1) THEN <<0, end>>
      ELSE IF pass.canvas
      THEN <<IF pos >= Window THEN pos - Window + 1 ELSE 0, Min({end, pos + Window})>>
      ELSE <<IF end > Window THEN end - Window ELSE 0, end>>

(* Cached keys first, then the segment's own. *)
TakenByHost(s, t) ==
  LET old == Old(s)
      start == Span(old, t)[1]
      end == Span(old, t)[2]
      split == Min({end, old})
      fresh == Max({start, old})
      own == (s - 1) * pass.seq + fresh - old
  IN  SubSeq(Cache(s), start + 1, split) \o SubSeq(Own, own + 1, own + end - fresh)

(* The first segment with the same cache. *)
FirstSharer(s) == Min({e \in 1..s : pass.cache[e] = pass.cache[s]})

(* The caches uploaded for the first segments, once each, one after another. *)
Uploaded[s \in 0..pass.segments] ==
  IF s = 0 THEN <<>>
  ELSE IF FirstSharer(s) = s THEN Uploaded[s - 1] \o Cache(s) ELSE Uploaded[s - 1]

(* Definitions called Faulty... are mistakes a run must tell from the code:  *)
(* here, every cache is taken to be the first one uploaded.                  *)
FaultySegmentBase(s) == 0

(* seg_base *)
SegmentBase(s) == Len(Uploaded[FirstSharer(s) - 1])

(* dg_transpose_keys: the cached rows uploaded, then the pass's own. *)
Resident == Uploaded[pass.segments] \o Own

(* The attention kernel, which finds each key among the resident rows. *)
TakenByDevice(s, t) ==
  LET old == Old(s)
      start == Span(old, t)[1]
      keys == Span(old, t)[2] - start
      old_rows == Len(Resident) - N
      Key(j) == IF j < old THEN SegmentBase(s) + j ELSE old_rows + (s - 1) * pass.seq + (j - old)
  IN  [k \in 1..keys |-> Resident[Key(start + k - 1) + 1]]

Taken(s, t) == IF pass.accel THEN TakenByDevice(s, t) ELSE TakenByHost(s, t)

(* dg_kv_output, and its cached half, which the host writes at once. *)
OwnRows(rows, s) == SubSeq(rows, (s - 1) * pass.seq + 1, (s - 1) * pass.seq + pass.lens[s])

Written(s) ==
  Cache(s) \o IF pass.accel THEN [i \in 1..pass.lens[s] |-> Unset] ELSE OwnRows(Own, s)

(* dg_kv_stage_offset, in rows. *)
StageOffset(l) == N * (l - 1)

(* The first segment's rows are taken for every document. *)
FaultyFetched(d, l) ==
  LET old == Len(kv[d][l]) - pass.lens[d]
  IN  SubSeq(kv[d][l], 1, old) \o OwnRows(SubSeq(kv_out, StageOffset(l) + 1, StageOffset(l) + N), 1)

(* dg_kv_fetch: a segment's own rows follow its cached ones. *)
Fetched(d, l) ==
  LET old == Len(kv[d][l]) - pass.lens[d]
      rows == SubSeq(kv_out, StageOffset(l) + 1, StageOffset(l) + N)
  IN  SubSeq(kv[d][l], 1, old) \o OwnRows(rows, d)

-----------------------------------------------------------------------------
Init ==
  /\ prefix = NoPrefix /\ docs = <<>> /\ kv = <<>> /\ canvas = <<>>
  /\ pass = Idle /\ layer = 0 /\ x = <<>> /\ kv_out = <<>>

(* dg_embed of the rows a pass starts from. *)
Begin(p, tokens, decoder) ==
  /\ pass' = p /\ layer' = 0 /\ kv_out' = <<>>
  /\ x' = [i \in DOMAIN tokens |-> Embedded(tokens[i], decoder)]

(* Rows of tokens, each of the pass's width, one after another. *)
Packed(rows, seq) ==
  [i \in 1..(Len(rows) * seq) |-> rows[(i - 1) \div seq + 1][((i - 1) % seq) + 1]]

EmptyKV(ds) == [d \in DOMAIN ds |-> [l \in 1..L |-> <<>>]]

Hits(p) == prefix.ids # <<>> /\ IsPrefix(prefix.ids, p)

Rest(p) == SubSeq(p, Len(prefix.ids) + 1, Len(p))

(* A prompt whose schema is not the cached one is filled whole; the entry is *)
(* empty until its replacement is complete.                                  *)
Prefill(p, accel) ==
  /\ pass = Idle /\ docs = <<>> /\ ~Hits(p) /\ Common < Len(p)
  /\ docs' = <<p>> /\ kv' = EmptyKV(<<p>>)
  /\ prefix' = NoPrefix
  /\ Begin([name |-> "prefill", segments |-> 1, seq |-> Len(p), cache |-> <<NoCache>>,
            lens |-> <<Len(p)>>, canvas |-> FALSE, accel |-> accel], p, FALSE)
  /\ UNCHANGED canvas

(* The rest of prompts that share the cached prefix: dg_prefill_suffix of one, *)
(* dg_prefill_suffix_multi of several, each padded to the longest.             *)
PrefillSuffix(ds, accel) ==
  LET seq == Max({Len(Rest(ds[d])) : d \in DOMAIN ds})
      Padded(s) == [i \in 1..seq |-> IF i <= Len(s) THEN s[i] ELSE 0]
  IN  /\ pass = Idle /\ docs = <<>> /\ \A d \in DOMAIN ds : Hits(ds[d]) /\ Len(ds[d]) > Len(prefix.ids)
      /\ docs' = ds /\ kv' = EmptyKV(ds)
      /\ Begin([name |-> "suffix", segments |-> Len(ds), seq |-> seq,
                cache |-> [d \in DOMAIN ds |-> InPrefix],
                lens |-> [d \in DOMAIN ds |-> Len(Rest(ds[d]))],
                canvas |-> FALSE, accel |-> accel],
               Packed([d \in DOMAIN ds |-> Padded(Rest(ds[d]))], seq), FALSE)
      /\ UNCHANGED <<prefix, canvas>>

(* dg_decode of canvases of one prompt, dg_decode_multi of several: what is  *)
(* read names the document of each canvas.  They have one width: that of the *)
(* widest template of the request, and rows of other widths share no pass.    *)
Decode(what, accel) ==
  /\ pass = Idle /\ docs # <<>> /\ kv[1][1] # <<>>
  /\ \A s \in DOMAIN what : what[s].doc \in DOMAIN docs
  /\ \A s \in 2..Len(what) : /\ what[s - 1].doc <= what[s].doc
                             /\ Len(what[s].ids) = Len(what[1].ids)
  /\ canvas' = what
  /\ Begin([name |-> "decode", segments |-> Len(what), seq |-> Len(what[1].ids),
            cache |-> [s \in DOMAIN what |-> what[s].doc],
            lens |-> [s \in DOMAIN what |-> Len(what[s].ids)],
            canvas |-> TRUE, accel |-> accel],
           Packed([s \in DOMAIN what |-> what[s].ids], Len(what[1].ids)), TRUE)
  /\ UNCHANGED <<prefix, docs, kv>>

(* dg_layer, dg_layer_multi, dg_layer_accel. *)
Layer ==
  /\ pass # Idle /\ layer < L
  /\ x' = [i \in 1..N |->
            Mixed(x[i], Own[i].pos, Taken(SegmentOf(i), Step(i)))]
  /\ kv' = IF pass.canvas THEN kv
           ELSE [d \in DOMAIN kv |-> [kv[d] EXCEPT ![layer + 1] = Written(d)]]
  /\ kv_out' = IF pass.accel /\ ~pass.canvas THEN kv_out \o Own ELSE kv_out
  /\ layer' = layer + 1
  /\ UNCHANGED <<prefix, docs, canvas, pass>>

(* The pass returns: K/V staged on the accelerator comes down, and a prompt  *)
(* filled whole gives its schema's rows to the prefix.                       *)
EndFill ==
  /\ pass # Idle /\ layer = L /\ ~pass.canvas
  /\ LET filled == [d \in DOMAIN kv |-> [l \in 1..L |->
                      IF pass.accel THEN Fetched(d, l) ELSE kv[d][l]]]
     IN  /\ kv' = filled
         /\ prefix' =
              IF pass.name # "prefill" THEN prefix
              ELSE [ids |-> SubSeq(docs[1], 1, Common),
                    kv |-> [l \in 1..L |-> SubSeq(filled[1][l], 1, Common)]]
  /\ pass' = Idle /\ layer' = 0 /\ x' = <<>> /\ kv_out' = <<>>
  /\ UNCHANGED <<docs, canvas>>

(* The canvases are scored. *)
EndDecode ==
  /\ pass # Idle /\ layer = L /\ pass.canvas
  /\ pass' = Idle /\ layer' = 0 /\ x' = <<>> /\ kv_out' = <<>> /\ canvas' = <<>>
  /\ UNCHANGED <<prefix, docs, kv>>

RequestGone ==
  /\ docs' = <<>> /\ kv' = <<>> /\ canvas' = <<>> /\ pass' = Idle /\ layer' = 0
  /\ x' = <<>> /\ kv_out' = <<>>

Answered == pass = Idle /\ docs # <<>> /\ RequestGone /\ UNCHANGED prefix

(* Activations that are not finite, or an accelerator that fails. *)
Fail == pass # Idle /\ RequestGone /\ UNCHANGED prefix

(* jb_session_free. *)
Forget ==
  /\ docs = <<>> /\ prefix # NoPrefix /\ prefix' = NoPrefix
  /\ UNCHANGED <<docs, kv, canvas, pass, layer, x, kv_out>>

UpTo(S, n) == UNION {[1..k -> S] : k \in 1..n}

Next ==
  \/ \E accel \in Accels :
       \/ \E p \in Prompts : Prefill(p, accel)
       \/ \E ds \in UpTo(Prompts, MaxSegments) : PrefillSuffix(ds, accel)
       \/ \E what \in UpTo([doc : DOMAIN docs, ids : Canvases], MaxSegments) : Decode(what, accel)
  \/ Layer \/ EndFill \/ EndDecode \/ Answered \/ Fail \/ Forget

Spec == Init /\ [][Next]_vars

-----------------------------------------------------------------------------
(* What a prompt means by itself, by the distance between positions: a token *)
(* of a prompt attends to itself and those before it, a token of a canvas to *)
(* the prompt and the whole canvas, in local layers to those within Window.  *)
Sees(l, from, to) == IsFull(l) \/ (from - to < Window /\ to - from < Window)

(* Numbers in their order: the k-th has k - 1 of them before it. *)
InOrder(set) ==
  [k \in 1..Cardinality(set) |-> CHOOSE i \in set : Cardinality({j \in set : j < i}) = k - 1]

Seen(l, from, n) == InOrder({to \in 1..n : Sees(l, from, to)})

Attending(l, row, from, n, rows) ==
  LET seen == Seen(l, from, n)
  IN  Mixed(row, from - 1, [k \in DOMAIN seen |-> [row |-> rows[seen[k]], pos |-> seen[k] - 1]])

(* The rows of a prompt and of a canvas after it, when l layers have run. *)
RowsAfter(p, c, l) ==
  LET ids == p \o c
      Until(i) == IF i <= Len(p) THEN i ELSE Len(ids)
      After[m \in 0..L] ==
        [i \in DOMAIN ids |->
          IF m = 0 THEN Embedded(ids[i], i > Len(p))
          ELSE Attending(m, After[m - 1][i], i, Until(i), After[m - 1])]
  IN  After[l]

PromptKV(p, l, i) == [row |-> RowsAfter(p, <<>>, l - 1)[i], pos |-> i - 1]

(* The rows kept for a prompt are the prompt's, each in its place, bit for   *)
(* bit, however they were computed: whole or after a cached prefix, alone or *)
(* packed with others and padded, on the CPU or the accelerator, and whatever*)
(* failed before: README.md:174, cached and monolithic results are the same.  *)
KVIsThePrompts ==
  /\ \A d \in DOMAIN kv : \A l \in 1..L : \A i \in DOMAIN kv[d][l] :
       kv[d][l][i] \in {PromptKV(docs[d], l, i)} \cup (IF pass = Idle THEN {} ELSE {Unset})
  /\ pass = Idle => \A d \in DOMAIN kv : \A l \in 1..L : Len(kv[d][l]) = Len(docs[d])
  /\ \A l \in 1..L : /\ Len(prefix.kv[l]) = Len(prefix.ids)
                     /\ \A i \in DOMAIN prefix.ids : prefix.kv[l][i] = PromptKV(prefix.ids, l, i)

(* A canvas reads what it would read alone, next to no other canvas and no   *)
(* other prompt, on either side: segments never attend to each other.        *)
CanvasesReadAlone ==
  pass # Idle /\ layer = L /\ pass.canvas =>
    \A s \in DOMAIN canvas : \A t \in DOMAIN canvas[s].ids :
      LET p == docs[canvas[s].doc]
      IN  x[(s - 1) * pass.seq + t] = RowsAfter(p, canvas[s].ids, L)[Len(p) + t]
=============================================================================
