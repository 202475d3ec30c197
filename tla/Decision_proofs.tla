--------------------------- MODULE Decision_proofs ---------------------------
(***************************************************************************)
(* Proofs about Decision for any requests, vocabulary and limits: its      *)
(* invariants, then that it implements Answers.                            *)
(***************************************************************************)
EXTENDS Decision, FoldLemmas

Score == [read : Nat, over : Seq(Tokens)]

JobType == [request : Requests, kv : Seq(Tokens), scores : Seq(Score), active : BOOLEAN]

Types ==
  /\ rows \in Seq(Requests)
  /\ jobs \in Seq(JobType)
  /\ answers \in Seq(Seq(Score))
  /\ read \in Nat

(* The cache is empty or was built from the prompt of some request. *)
CacheBuilt ==
  \/ cache = Empty
  \/ \E q \in Requests : cache = Entry([request |-> q, kv |-> q.prompt])

(* A row is prepared only while some are left, and is alone while it uses   *)
(* the cache.                                                               *)
RowsLeft ==
  /\ at \in {"idle", "choose"} => answers = <<>>
  /\ at = "choose" => rows # <<>>
  /\ at = "prepare" => Len(answers) < Len(rows)
  /\ at \in {"lookup", "build", "install"} => Len(jobs) = 1

(* Rows whose prefix is taken from the cache hit it; K/V that are complete   *)
(* are those of the row's own prompt.                                       *)
OwnKV ==
  /\ at = "suffix" => \A i \in DOMAIN jobs : Hit(jobs[i].request)
  /\ at \in {"install", "read"} =>
       \A i \in DOMAIN jobs : jobs[i].kv = jobs[i].request.prompt

(* Every read has been made over its own row's prompt, whatever the cache    *)
(* held and whichever rows ran with it (decision.inc:1258-1265, 1402).      *)
ReadsOverOwnPrompt ==
  \A i \in DOMAIN jobs : \A k \in DOMAIN jobs[i].scores :
    jobs[i].scores[k].over = jobs[i].request.prompt

IInv == Types /\ CacheBuilt /\ RowsLeft /\ OwnKV /\ ReadsOverOwnPrompt

-----------------------------------------------------------------------------
(* What an entry built from a prompt holds. *)
LEMMA EntryBuilt ==
  ASSUME NEW q \in Requests
  PROVE  LET e == Entry([request |-> q, kv |-> q.prompt])
         IN  /\ e.schema = q.schema
             /\ e.ids \in Seq(Tokens)
             /\ e.kv = e.ids
             /\ IsStrictPrefix(e.ids, q.prompt)
<1> DEFINE ids == SubSeq(q.prompt, 1, Common(q))
<1>1. q.prompt \in Seq(Tokens) /\ Common(q) \in 1..(Len(q.prompt) - 1)
  BY DecisionAssumption DEF Prepared
<1>2. Len(q.prompt) \in Nat
  BY <1>1, LenProperties
<1>3. \A i \in 1..Common(q) : q.prompt[i] \in Tokens
  BY <1>1, <1>2, ElementOfSeq
<1>4. /\ ids \in Seq(Tokens) /\ Len(ids) = Common(q)
  BY <1>1, <1>2, <1>3, SubSeqProperties
<1>5. SubSeq(ids, 1, Len(ids)) = SubSeq(q.prompt, 1, Len(ids))
  BY <1>4, SubSeqFull
<1>6. IsStrictPrefix(ids, q.prompt)
  BY <1>1, <1>2, <1>4, <1>5 DEF IsStrictPrefix, IsPrefix
<1>7. QED
  BY <1>4, <1>6 DEF Entry

(* The entry in the cache, when there is one. *)
LEMMA CacheHolds ==
  ASSUME CacheBuilt, cache # Empty
  PROVE  /\ cache.ids \in Seq(Tokens)
         /\ cache.kv = cache.ids
         /\ \E q \in Requests : /\ q.schema = cache.schema
                                /\ IsStrictPrefix(cache.ids, q.prompt)
<1>1. PICK q \in Requests : cache = Entry([request |-> q, kv |-> q.prompt])
  BY DEF CacheBuilt
<1>2. QED
  BY <1>1, EntryBuilt

(* After a hit, the entry's K/V and the rest's are those of the prompt. *)
LEMMA ExtendedIsOwn ==
  ASSUME CacheBuilt, NEW q \in Requests, Hit(q)
  PROVE  Extended(q) = q.prompt /\ q.prompt \in Seq(Tokens)
<1>1. /\ cache.ids \in Seq(Tokens) /\ cache.kv = cache.ids
      /\ IsPrefix(cache.ids, q.prompt)
  BY CacheHolds DEF Hit
<1>2. q.prompt \in Seq(Tokens)
  BY DecisionAssumption DEF Prepared
<1> DEFINE n == Len(cache.ids)
<1>3. n \in 0..Len(q.prompt) /\ Len(q.prompt) \in Nat
  BY <1>1, <1>2, LenProperties DEF IsPrefix
<1>4. cache.ids = SubSeq(q.prompt, 1, n)
  BY <1>1, SubSeqFull DEF IsPrefix
<1>5. SubSeq(q.prompt, 1, n) \o SubSeq(q.prompt, n + 1, Len(q.prompt))
        = SubSeq(q.prompt, 1, Len(q.prompt))
  <2>1. /\ 1 \in 1..(Len(q.prompt) + 1) /\ n \in (1 - 1)..Len(q.prompt)
        /\ Len(q.prompt) \in n..Len(q.prompt)
    BY <1>3
  <2>2. QED
    BY <1>2, <2>1, ConcatAdjacentSubSeq
<1>6. QED
  BY <1>1, <1>2, <1>4, <1>5, SubSeqFull DEF Extended

-----------------------------------------------------------------------------
(* The rows being executed, and what they ask. *)
LEMMA JobsTyped ==
  ASSUME Types
  PROVE  /\ Len(jobs) \in Nat
         /\ DOMAIN jobs = 1..Len(jobs)
         /\ \A i \in DOMAIN jobs : /\ jobs[i] \in JobType
                                   /\ jobs[i].request \in Requests
                                   /\ jobs[i].request.prompt \in Seq(Tokens)
<1>1. jobs \in Seq(JobType)
  BY DEF Types
<1>2. /\ Len(jobs) \in Nat /\ DOMAIN jobs = 1..Len(jobs)
      /\ \A i \in DOMAIN jobs : jobs[i] \in JobType
  BY <1>1, LenProperties, ElementOfSeq
<1>3. \A job \in JobType : job.request \in Requests /\ job.request.prompt \in Seq(Tokens)
  BY DecisionAssumption DEF JobType, Prepared
<1>4. QED
  BY <1>2, <1>3

(* A function from the first n numbers is a sequence of length n. *)
LEMMA FunctionIsSeq ==
  ASSUME NEW S, NEW n \in Nat, NEW f \in [1..n -> S]
  PROVE  f \in Seq(S) /\ Len(f) = n
  OBVIOUS

(* A row as prepared, before anything has been computed for it. *)
LEMMA JobPrepared ==
  ASSUME NEW q \in Requests
  PROVE  /\ Job(q) \in JobType
         /\ Job(q).request = q
         /\ Job(q).scores = <<>>
  BY DEF Job, JobType

(* The reads a row makes at once are some of those it has left. *)
LEMMA GroupIsSome ==
  ASSUME Types, NEW job \in JobType, Wants(job)
  PROVE  Group(job.request) \in Nat
<1> DEFINE q == job.request
<1>1. q \in Requests /\ q.samples \in 0..MaxSamples /\ q.canvas \in 1..Context
  BY DecisionAssumption DEF Prepared, JobType
<1>2. MaxReads(q) \in Nat /\ read \in Nat /\ read < MaxReads(q)
  <2>1. read < MaxReads(q)
    BY Zenon DEF Wants
  <2>2. MaxReads(q) \in Nat
    <3>1. q.samples \in Nat /\ AutomaticReads \in Nat
      BY <1>1 DEF AutomaticReads, MaxSamples
    <3>2. QED
      BY <3>1 DEF MaxReads
  <2>3. read \in Nat
    BY DEF Types
  <2>4. QED
    BY <2>1, <2>2, <2>3
<1>3. Most(q) \in Nat
  BY <1>1, DecisionAssumption DEF Most
<1>4. QED
  BY <1>2, <1>3 DEF Group

(* Scoring adds reads over the K/V of the row. *)
LEMMA ScoredOverKV ==
  ASSUME NEW job \in JobType, read \in Nat, NEW count \in Nat
  PROVE  /\ Scored(job, count) \in JobType
         /\ Scored(job, count).request = job.request
         /\ Scored(job, count).kv = job.kv
         /\ \A k \in DOMAIN Scored(job, count).scores :
              \/ /\ k \in DOMAIN job.scores
                 /\ Scored(job, count).scores[k] = job.scores[k]
              \/ Scored(job, count).scores[k].over = job.kv
<1> DEFINE new == [k \in 1..count |-> [read |-> read + k - 1, over |-> job.kv]]
           go == job.active /\ ~Stops(job.request)
<1>1. job.scores \in Seq(Score) /\ job.kv \in Seq(Tokens) /\ job.request \in Requests
  BY DEF JobType
<1>2. new \in Seq(Score) /\ Len(new) = count
  <2>1. \A k \in 1..count : new[k] \in Score
    BY <1>1 DEF Score
  <2>2. QED
    BY <2>1
<1>3. \A k \in 1..count : new[k].over = job.kv
  OBVIOUS
<1>4. Scored(job, count) = [job EXCEPT !.scores = job.scores \o new, !.active = go]
  BY Zenon DEF Scored
<1>5. go \in BOOLEAN
  OBVIOUS
<1> HIDE DEF new, go
<1>6. /\ job.scores \o new \in Seq(Score)
      /\ \A k \in DOMAIN (job.scores \o new) :
           \/ /\ k \in DOMAIN job.scores
              /\ (job.scores \o new)[k] = job.scores[k]
           \/ (job.scores \o new)[k].over = job.kv
  BY <1>1, <1>2, <1>3, ConcatProperties, LenProperties
<1>7. QED
  BY <1>1, <1>4, <1>5, <1>6 DEF JobType

-----------------------------------------------------------------------------
(* The invariant holds at first, and every action preserves it. *)
LEMMA InitInv == Init => IInv
<1> SUFFICES ASSUME Init PROVE IInv
  OBVIOUS
<1>1. Types
  BY DEF Init, Types
<1>2. QED
  BY <1>1 DEF Init, IInv, CacheBuilt, RowsLeft, OwnKV, ReadsOverOwnPrompt

LEMMA AskInv == ASSUME IInv, NEW batch \in Batches, Ask(batch) PROVE IInv'
<1>1. batch \in Seq(Requests) /\ batch # <<>>
  BY DecisionAssumption DEF Batches
<1>2. Types'
  BY <1>1 DEF IInv, Types, Ask
<1>3. RowsLeft'
  BY <1>1 DEF IInv, RowsLeft, Ask
<1>4. QED
  BY <1>2, <1>3 DEF IInv, Ask, CacheBuilt, OwnKV, ReadsOverOwnPrompt

LEMMA ChooseInv == ASSUME IInv, Choose PROVE IInv'
<1>1. /\ at = "choose" /\ rows \in Seq(Requests) /\ rows # <<>> /\ answers = <<>>
      /\ UNCHANGED <<cache, rows, read, answers>>
  BY DEF Choose, IInv, Types, RowsLeft
<1>2. CASE Together
  <2>1. jobs' = [i \in DOMAIN rows |-> Job(rows[i])] /\ at' = "suffix"
    BY <1>2 DEF Choose
  <2>2. \A i \in DOMAIN rows : rows[i] \in Requests /\ Hit(rows[i])
    <3>1. \A i \in DOMAIN rows : Hit(rows[i])
      BY <1>2, Zenon DEF Together
    <3>2. \A i \in DOMAIN rows : rows[i] \in Requests
      BY <1>1
    <3>3. QED
      BY <3>1, <3>2
  <2>3. \A i \in DOMAIN rows : /\ Job(rows[i]) \in JobType
                                /\ Job(rows[i]).request = rows[i]
                                /\ Job(rows[i]).scores = <<>>
    BY <2>2, JobPrepared
  <2>4. DOMAIN rows = 1..Len(rows) /\ Len(rows) \in Nat
    BY <1>1
  <2>5. jobs' \in Seq(JobType)
    BY <2>1, <2>3, <2>4
  <2>6. OwnKV'
    BY <1>1, <2>1, <2>2, <2>3 DEF OwnKV, Hit
  <2>7. ReadsOverOwnPrompt'
    BY <2>1, <2>3 DEF ReadsOverOwnPrompt
  <2>8. QED
    BY <1>1, <2>1, <2>5, <2>6, <2>7 DEF IInv, Types, CacheBuilt, RowsLeft
<1>3. CASE ~Together
  <2>1. at' = "prepare" /\ jobs' = jobs
    BY <1>3 DEF Choose
  <2>2. Len(answers) < Len(rows)
    BY <1>1
  <2>3. QED
    BY <1>1, <2>1, <2>2 DEF IInv, Types, CacheBuilt, RowsLeft, OwnKV, ReadsOverOwnPrompt
<1>4. QED
  BY <1>2, <1>3

LEMMA PrepareInv == ASSUME IInv, Prepare PROVE IInv'
<1> DEFINE q == rows[Len(answers) + 1]
<1>1. q \in Requests
  BY DEF Prepare, IInv, Types, RowsLeft
<1>2. jobs' = <<Job(q)>> /\ at' = "lookup" /\ UNCHANGED <<cache, rows, read, answers>>
  BY DEF Prepare
<1> HIDE DEF q
<1>3. Job(q) \in JobType /\ Job(q).scores = <<>>
  BY <1>1, JobPrepared
<1>4. /\ jobs' \in Seq(JobType) /\ Len(jobs') = 1
      /\ \A i \in DOMAIN jobs' : jobs'[i] = Job(q)
  BY <1>2, <1>3
<1>5. ReadsOverOwnPrompt'
  BY <1>3, <1>4 DEF ReadsOverOwnPrompt
<1>6. QED
  BY <1>2, <1>4, <1>5 DEF IInv, Types, CacheBuilt, RowsLeft, OwnKV

LEMMA LookupInv == ASSUME IInv, Lookup PROVE IInv'
<1>1. at = "lookup" /\ Len(jobs) = 1 /\ UNCHANGED <<rows, jobs, read, answers>>
  BY DEF Lookup, IInv, RowsLeft
<1>2. DOMAIN jobs = {1}
  BY <1>1 DEF IInv, Types
<1>3. CASE Hit(jobs[1].request)
  <2>1. at' = "suffix" /\ cache' = cache
    BY <1>3 DEF Lookup
  <2>2. OwnKV'
    BY <1>1, <1>2, <1>3, <2>1 DEF OwnKV, Hit
  <2>3. QED
    BY <1>1, <2>1, <2>2 DEF IInv, Types, CacheBuilt, RowsLeft, ReadsOverOwnPrompt
<1>4. CASE ~Hit(jobs[1].request)
  <2>1. at' = "build" /\ cache' = Empty
    BY <1>4 DEF Lookup
  <2>2. QED
    BY <1>1, <2>1 DEF IInv, Types, CacheBuilt, RowsLeft, OwnKV, ReadsOverOwnPrompt
<1>5. QED
  BY <1>3, <1>4

LEMMA BuildInv == ASSUME IInv, Build PROVE IInv'
<1> DEFINE job == [jobs[1] EXCEPT !.kv = jobs[1].request.prompt]
<1>1. /\ jobs' = <<job>> /\ at' = "install" /\ Len(jobs) = 1
      /\ UNCHANGED <<cache, rows, read, answers>>
  BY DEF Build, IInv, RowsLeft
<1>2. jobs[1] \in JobType /\ 1 \in DOMAIN jobs
  BY <1>1, JobsTyped DEF IInv
<1>3. jobs[1].request.prompt \in Seq(Tokens)
  BY <1>2, JobsTyped DEF IInv
<1>4. /\ job \in JobType
      /\ job.request = jobs[1].request /\ job.scores = jobs[1].scores
      /\ job.kv = job.request.prompt
  BY <1>2, <1>3 DEF JobType
<1> HIDE DEF job
<1>5. jobs' \in Seq(JobType) /\ Len(jobs') = 1 /\ DOMAIN jobs' = {1} /\ jobs'[1] = job
  BY <1>1, <1>4
<1>6. OwnKV'
  BY <1>1, <1>4, <1>5 DEF OwnKV
<1>7. ReadsOverOwnPrompt'
  BY <1>2, <1>4, <1>5 DEF IInv, ReadsOverOwnPrompt
<1>8. QED
  BY <1>1, <1>5, <1>6, <1>7 DEF IInv, Types, CacheBuilt, RowsLeft

(* What is installed was built from the prompt of the row. *)
LEMMA InstallInv == ASSUME IInv, Install PROVE IInv'
<1> DEFINE q == jobs[1].request
<1>1. /\ at = "install" /\ Len(jobs) = 1
      /\ cache' = Entry(jobs[1]) /\ at' = "read"
      /\ UNCHANGED <<rows, jobs, read, answers>>
  BY DEF Install, IInv, RowsLeft
<1>2. 1 \in DOMAIN jobs /\ jobs[1] \in JobType
  BY <1>1, JobsTyped DEF IInv
<1>3. q \in Requests /\ jobs[1].kv = q.prompt
  BY <1>1, <1>2 DEF IInv, OwnKV, JobType
<1>4. Entry(jobs[1]) = Entry([request |-> q, kv |-> q.prompt])
  BY <1>3 DEF Entry
<1>5. CacheBuilt'
  BY <1>1, <1>3, <1>4 DEF CacheBuilt, Entry, Common
<1>6. QED
  BY <1>1, <1>5 DEF IInv, Types, RowsLeft, OwnKV, ReadsOverOwnPrompt

LEMMA PrefillSuffixInv == ASSUME IInv, PrefillSuffix PROVE IInv'
<1>1. /\ at = "suffix" /\ at' = "read"
      /\ jobs' = [i \in DOMAIN jobs |->
                   [jobs[i] EXCEPT !.kv = Extended(jobs[i].request)]]
      /\ UNCHANGED <<cache, rows, read, answers>>
  BY DEF PrefillSuffix
<1>2. DOMAIN jobs = 1..Len(jobs) /\ Len(jobs) \in Nat
  BY JobsTyped DEF IInv
<1>3. \A i \in DOMAIN jobs :
        /\ jobs[i] \in JobType
        /\ Extended(jobs[i].request) = jobs[i].request.prompt
        /\ jobs[i].request.prompt \in Seq(Tokens)
  <2> TAKE i \in DOMAIN jobs
  <2>1. jobs[i] \in JobType /\ jobs[i].request \in Requests
    BY JobsTyped DEF IInv
  <2>2. CacheBuilt /\ Hit(jobs[i].request)
    BY <1>1 DEF IInv, OwnKV
  <2>3. QED
    BY <2>1, <2>2, ExtendedIsOwn
<1>4. \A i \in DOMAIN jobs :
        /\ jobs'[i] \in JobType
        /\ jobs'[i].request = jobs[i].request /\ jobs'[i].scores = jobs[i].scores
        /\ jobs'[i].kv = jobs'[i].request.prompt
  BY <1>1, <1>3 DEF JobType
<1>5. DOMAIN jobs' = DOMAIN jobs /\ jobs' \in Seq(JobType)
  <2>1. jobs' \in [1..Len(jobs) -> JobType]
    BY <1>1, <1>2, <1>4
  <2>2. QED
    BY <1>2, <2>1, FunctionIsSeq
<1>6. OwnKV'
  BY <1>1, <1>4, <1>5 DEF OwnKV
<1>7. ReadsOverOwnPrompt'
  BY <1>4, <1>5 DEF IInv, ReadsOverOwnPrompt
<1>8. QED
  BY <1>1, <1>5, <1>6, <1>7 DEF IInv, Types, CacheBuilt, RowsLeft

(* A row scored over the K/V of its own prompt stays so. *)
LEMMA ScoredOwn ==
  ASSUME IInv, at = "read", NEW i \in DOMAIN jobs, NEW count \in Nat
  PROVE  LET job == Scored(jobs[i], count)
         IN  /\ job \in JobType
             /\ job.kv = job.request.prompt
             /\ \A k \in DOMAIN job.scores : job.scores[k].over = job.request.prompt
<1> DEFINE job == Scored(jobs[i], count)
<1>1. jobs[i] \in JobType /\ read \in Nat
  BY JobsTyped DEF IInv, Types
<1>2. /\ job \in JobType /\ job.request = jobs[i].request /\ job.kv = jobs[i].kv
      /\ \A k \in DOMAIN job.scores :
           \/ k \in DOMAIN jobs[i].scores /\ job.scores[k] = jobs[i].scores[k]
           \/ job.scores[k].over = jobs[i].kv
  BY <1>1, ScoredOverKV
<1>3. /\ jobs[i].kv = jobs[i].request.prompt
      /\ \A k \in DOMAIN jobs[i].scores :
           jobs[i].scores[k].over = jobs[i].request.prompt
  BY DEF IInv, OwnKV, ReadsOverOwnPrompt
<1> HIDE DEF job
<1>4. QED
  BY <1>2, <1>3 DEF job

LEMMA ReadAloneInv == ASSUME IInv, ReadAlone PROVE IInv'
<1> DEFINE count == Group(jobs[1].request)
           job == Scored(jobs[1], count)
<1>1. /\ at = "read" /\ Len(jobs) = 1 /\ Wanting # {}
      /\ jobs' = <<job>> /\ read' = read + count
      /\ UNCHANGED <<cache, rows, at, answers>>
  BY DEF ReadAlone
<1>2. DOMAIN jobs = {1} /\ jobs[1] \in JobType /\ read \in Nat
  BY <1>1, JobsTyped DEF IInv, Types
<1>3. Wants(jobs[1])
  BY <1>1, <1>2, Zenon DEF Wanting
<1>4. count \in Nat
  BY <1>2, <1>3, GroupIsSome DEF IInv
<1>5. /\ job \in JobType /\ job.kv = job.request.prompt
      /\ \A k \in DOMAIN job.scores : job.scores[k].over = job.request.prompt
  BY <1>1, <1>2, <1>4, ScoredOwn
<1> HIDE DEF job, count
<1>6. jobs' \in Seq(JobType) /\ DOMAIN jobs' = {1} /\ jobs'[1] = job
  BY <1>1, <1>5
<1>7. OwnKV' /\ ReadsOverOwnPrompt'
  BY <1>1, <1>5, <1>6 DEF OwnKV, ReadsOverOwnPrompt
<1>8. Types'
  BY <1>1, <1>2, <1>4, <1>6 DEF IInv, Types
<1>9. QED
  BY <1>1, <1>7, <1>8 DEF IInv, CacheBuilt, RowsLeft

LEMMA ReadTogetherInv == ASSUME IInv, ReadTogether PROVE IInv'
<1> DEFINE scored(i) == Scored(jobs[i], 1)
<1>1. /\ at = "read" /\ read' = read + 1
      /\ jobs' = [i \in DOMAIN jobs |-> IF i \in Wanting THEN scored(i) ELSE jobs[i]]
      /\ UNCHANGED <<cache, rows, at, answers>>
  BY DEF ReadTogether
<1>2. DOMAIN jobs = 1..Len(jobs) /\ Len(jobs) \in Nat
  BY JobsTyped DEF IInv
<1>3. \A i \in DOMAIN jobs :
        /\ scored(i) \in JobType /\ scored(i).kv = scored(i).request.prompt
        /\ \A k \in DOMAIN scored(i).scores :
             scored(i).scores[k].over = scored(i).request.prompt
  BY <1>1, ScoredOwn
<1>4. \A i \in DOMAIN jobs :
        /\ jobs[i] \in JobType /\ jobs[i].kv = jobs[i].request.prompt
        /\ \A k \in DOMAIN jobs[i].scores :
             jobs[i].scores[k].over = jobs[i].request.prompt
  BY <1>1, JobsTyped DEF IInv, OwnKV, ReadsOverOwnPrompt
<1> HIDE DEF scored
<1>5. DOMAIN jobs' = DOMAIN jobs
      /\ \A i \in DOMAIN jobs : jobs'[i] = scored(i) \/ jobs'[i] = jobs[i]
  BY <1>1
<1>6. \A i \in DOMAIN jobs :
        /\ jobs'[i] \in JobType /\ jobs'[i].kv = jobs'[i].request.prompt
        /\ \A k \in DOMAIN jobs'[i].scores :
             jobs'[i].scores[k].over = jobs'[i].request.prompt
  BY <1>3, <1>4, <1>5
<1>7. jobs' \in Seq(JobType)
  <2>1. jobs' \in [1..Len(jobs) -> JobType]
    BY <1>1, <1>2, <1>5, <1>6
  <2>2. QED
    BY <1>2, <2>1, FunctionIsSeq
<1>8. OwnKV' /\ ReadsOverOwnPrompt'
  BY <1>1, <1>5, <1>6 DEF OwnKV, ReadsOverOwnPrompt
<1>9. Types'
  <2>1. rows \in Seq(Requests) /\ answers \in Seq(Seq(Score)) /\ read \in Nat
    BY DEF IInv, Types
  <2>2. QED
    BY <1>1, <1>7, <2>1 DEF Types
<1>10. QED
  BY <1>1, <1>8, <1>9 DEF IInv, CacheBuilt, RowsLeft

LEMMA EndReadsInv == ASSUME IInv, EndReads PROVE IInv'
<1>1. /\ at = "read" /\ at' = "format" /\ read' = 0
      /\ UNCHANGED <<cache, rows, jobs, answers>>
  BY DEF EndReads
<1>2. QED
  BY <1>1 DEF IInv, Types, CacheBuilt, RowsLeft, OwnKV, ReadsOverOwnPrompt

LEMMA FormatInv == ASSUME IInv, Format PROVE IInv'
<1> DEFINE new == [i \in DOMAIN jobs |-> jobs[i].scores]
<1>1. /\ at' = "return" /\ jobs' = <<>> /\ answers' = answers \o new
      /\ UNCHANGED <<cache, rows, read>>
  BY DEF Format
<1>2. new \in [1..Len(jobs) -> Seq(Score)] /\ Len(jobs) \in Nat
  BY JobsTyped DEF IInv, JobType
<1> HIDE DEF new
<1>3. new \in Seq(Seq(Score))
  BY <1>2, FunctionIsSeq
<1>4. answers' \in Seq(Seq(Score))
  BY <1>1, <1>3, ConcatProperties DEF IInv, Types
<1>5. Types'
  BY <1>1, <1>4 DEF IInv, Types
<1>6. QED
  BY <1>1, <1>5 DEF IInv, CacheBuilt, RowsLeft, OwnKV, ReadsOverOwnPrompt

LEMMA ReturnInv == ASSUME IInv, Return PROVE IInv'
<1>1. UNCHANGED <<cache, jobs, read>> /\ at' \in {"prepare", "idle"}
  BY DEF Return
<1>2. Types'
  <2>1. /\ rows \in Seq(Requests) /\ jobs \in Seq(JobType)
        /\ answers \in Seq(Seq(Score)) /\ read \in Nat
    BY DEF IInv, Types
  <2>2. /\ rows' = rows \/ rows' = <<>>
        /\ answers' = answers \/ answers' = <<>>
    BY DEF Return
  <2>3. rows' \in Seq(Requests) /\ answers' \in Seq(Seq(Score))
    BY <2>1, <2>2, EmptySeq
  <2>4. QED
    BY <1>1, <2>1, <2>3 DEF Types
<1>3. RowsLeft'
  BY DEF Return, RowsLeft
<1>4. QED
  BY <1>1, <1>2, <1>3 DEF IInv, CacheBuilt, OwnKV, ReadsOverOwnPrompt

LEMMA FailInv == ASSUME IInv, Fail PROVE IInv'
<1>1. /\ at' = "idle" /\ rows' = <<>> /\ jobs' = <<>> /\ answers' = <<>> /\ read' = 0
      /\ cache' = cache
  BY Zenon DEF Fail
<1>2. Types'
  BY <1>1, EmptySeq DEF Types
<1>3. CacheBuilt'
  BY <1>1 DEF IInv, CacheBuilt
<1>4. RowsLeft' /\ OwnKV' /\ ReadsOverOwnPrompt'
  BY <1>1 DEF RowsLeft, OwnKV, ReadsOverOwnPrompt
<1>5. QED
  BY <1>2, <1>3, <1>4 DEF IInv

LEMMA NextInv == ASSUME IInv, [Next]_vars PROVE IInv'
<1>1. CASE UNCHANGED vars
  BY <1>1 DEF vars, IInv, Types, CacheBuilt, RowsLeft, OwnKV, ReadsOverOwnPrompt, Hit
<1>2. CASE \E batch \in Batches : Ask(batch)
  BY <1>2, AskInv
<1>3. CASE Step
  BY <1>3, ChooseInv, PrepareInv, LookupInv, BuildInv, InstallInv, PrefillSuffixInv,
     ReadAloneInv, ReadTogetherInv, EndReadsInv, FormatInv, ReturnInv DEF Step
<1>4. CASE Fail
  BY <1>4, FailInv
<1>5. QED
  BY <1>1, <1>2, <1>3, <1>4 DEF Next

(* The invariant the theorems below are parts of. *)
THEOREM Invariant == Spec => []IInv
<1>1. IInv /\ [Next]_vars => IInv'
  BY NextInv
<1>2. QED
  BY InitInv, <1>1, PTL DEF Spec

(* Wherever calls have failed, an entry in the cache is complete: its K/V   *)
(* are those of its tokens, and they begin, and do not exhaust, a prompt of *)
(* its schema (decision.inc:1232-1258).                                     *)
THEOREM CacheAlwaysComplete == Spec => []CacheComplete
<1>1. IInv => CacheComplete
  BY CacheHolds DEF IInv, CacheComplete
<1>2. QED
  BY Invariant, <1>1, PTL

(* No read is made over K/V of another prompt, whatever the cache held and  *)
(* whichever rows ran with the row (decision.inc:1258-1265, 1402-1466).     *)
THEOREM ReadsAreOwn == Spec => []ReadsOverOwnPrompt
<1>1. IInv => ReadsOverOwnPrompt
  BY DEF IInv
<1>2. QED
  BY Invariant, <1>1, PTL

-----------------------------------------------------------------------------
-----------------------------------------------------------------------------
(* The longest common prefix of the system turn and the prompt. *)
LEMMA CommonIsLongest ==
  ASSUME NEW q \in Requests
  PROVE  LET ids == SubSeq(q.prompt, 1, Common(q))
         IN  /\ IsPrefix(ids, q.system)
             /\ \A other \in Seq(Tokens) :
                  IsPrefix(other, q.system) /\ IsPrefix(other, q.prompt)
                    => Len(other) <= Common(q)
<1> DEFINE S == {q.system, q.prompt}
           C == CommonPrefixes(S)
           longest == LongestCommonPrefix(S)
<1>1. q.system \in Seq(Tokens) /\ q.prompt \in Seq(Tokens)
  BY DecisionAssumption DEF Prepared
<1>2. \A s \in Seq(Tokens) : Len(s) \in Nat /\ s = SubSeq(s, 1, Len(s))
  BY LenProperties, SubSeqFull
<1>3. ASSUME NEW c \in C
      PROVE  /\ IsPrefix(c, q.system) /\ IsPrefix(c, q.prompt)
             /\ c \in Seq(Tokens)
  <2>1. IsPrefix(c, q.system) /\ IsPrefix(c, q.prompt)
    BY DEF CommonPrefixes
  <2>2. PICK s \in S : c \in Prefixes(s)
    BY DEF CommonPrefixes
  <2>3. PICK n \in 0..Len(s) : c = SubSeq(s, 1, n)
    BY <2>2 DEF Prefixes
  <2>4. s \in Seq(Tokens) /\ Len(s) \in Nat
    BY <1>1, <1>2
  <2>5. /\ 1 \in Int /\ n \in Int
        /\ \A i \in 1..n : s[i] \in Tokens
    BY <2>3, <2>4, ElementOfSeq
  <2>6. c \in Seq(Tokens)
    BY <2>3, <2>4, <2>5, SubSeqProperties
  <2>7. QED
    BY <2>1, <2>6
<1>4. ASSUME NEW other \in Seq(Tokens), IsPrefix(other, q.system), IsPrefix(other, q.prompt)
      PROVE  other \in C
  <2>1. other = SubSeq(q.prompt, 1, Len(other)) /\ Len(other) \in 0..Len(q.prompt)
    BY <1>1, <1>2, <1>4 DEF IsPrefix
  <2>2. other \in Prefixes(q.prompt)
    BY <2>1 DEF Prefixes
  <2>3. QED
    BY <1>4, <2>2 DEF CommonPrefixes
<1>5. <<>> \in C
  <2>1. <<>> \in Seq(Tokens) /\ Len(<<>>) = 0
    OBVIOUS
  <2>2. \A s \in Seq(Tokens) : IsPrefix(<<>>, s)
    BY <1>2, <2>1, EmptySeq, SubSeqProperties DEF IsPrefix
  <2>3. QED
    BY <1>1, <1>4, <2>1, <2>2
<1> HIDE DEF C
<1>6. \E c \in C : \A other \in C : Len(other) <= Len(c)
  <2> DEFINE T == {Len(c) : c \in C}
  <2>1. T \subseteq 0..Len(q.prompt) /\ T # {}
    <3>1. \A c \in C : Len(c) \in 0..Len(q.prompt)
      BY <1>2, <1>3 DEF IsPrefix
    <3>2. QED
      BY <1>5, <3>1
  <2>2. Len(q.prompt) \in Nat
    BY <1>1, <1>2
  <2>3. Max(T) \in T /\ \A y \in T : y <= Max(T)
    BY <2>1, <2>2, Greatest
  <2>4. PICK c \in C : Max(T) = Len(c)
    BY <2>3
  <2>5. QED
    BY <2>3, <2>4
<1>7. longest \in C /\ \A other \in C : Len(other) <= Len(longest)
  BY Zenon, <1>6 DEF LongestCommonPrefix, C
<1>8. Common(q) = Len(longest)
  BY DEF Common
<1> HIDE DEF longest
<1>9. SubSeq(q.prompt, 1, Common(q)) = longest
  BY <1>2, <1>3, <1>7, <1>8 DEF IsPrefix
<1>10. QED
  BY <1>3, <1>4, <1>7, <1>8, <1>9

(* A hit leaves a rest of the prompt to compute, and one that fits. *)
LEMMA HitLeavesSome ==
  ASSUME CacheBuilt, NEW q \in Requests, Hit(q)
  PROVE  Suffix(q) \in 1..Context
<1>1. /\ q.prompt \in Seq(Tokens) /\ Len(q.prompt) \in Nat /\ Len(q.prompt) <= Context
      /\ Common(q) \in 1..(Len(q.prompt) - 1) /\ Context \in Nat
  BY DecisionAssumption, LenProperties DEF Prepared
<1>2. /\ cache.ids \in Seq(Tokens) /\ Len(cache.ids) \in Nat
  BY CacheHolds, LenProperties DEF Hit
<1>3. PICK p \in Requests : cache = Entry([request |-> p, kv |-> p.prompt])
  BY DEF CacheBuilt, Hit
<1>4. cache.schema = p.schema /\ cache.ids = SubSeq(p.prompt, 1, Common(p))
  BY <1>3 DEF Entry
<1>5. p.system = q.system
  BY <1>4, DecisionAssumption DEF Hit
<1>6. IsPrefix(cache.ids, q.system) /\ IsPrefix(cache.ids, q.prompt)
  BY <1>4, <1>5, CommonIsLongest DEF Hit
<1>7. Len(cache.ids) <= Common(q)
  BY <1>2, <1>6, CommonIsLongest
<1>8. QED
  BY <1>1, <1>2, <1>7 DEF Suffix

-----------------------------------------------------------------------------
(* Rows that run together were tried against the context together. *)
Fits ==
  /\ at = "suffix" => Len(jobs) >= 1
  /\ at \in {"suffix", "read"} /\ Len(jobs) > 1
       => Len(jobs) * jobs[1].request.canvas <= Context
  /\ at = "suffix" /\ Len(jobs) > 1
       => Len(jobs) * Max({Suffix(jobs[i].request) : i \in DOMAIN jobs}) <= Context

LEMMA ChooseFits == ASSUME IInv, Choose PROVE Fits'
<1>1. /\ rows \in Seq(Requests) /\ rows # <<>>
  BY DEF Choose, IInv, Types, RowsLeft
<1>2. /\ DOMAIN rows = 1..Len(rows) /\ Len(rows) \in Nat
  BY <1>1, LenProperties
<1>3. CASE ~Together
  <2>1. at' = "prepare"
    BY <1>3 DEF Choose
  <2>2. QED
    BY <2>1 DEF Fits
<1>4. CASE Together
  <2>1. jobs' = [i \in DOMAIN rows |-> Job(rows[i])] /\ cache' = cache
    BY <1>4 DEF Choose
  <2>2. /\ DOMAIN jobs' = DOMAIN rows /\ Len(jobs') = Len(rows)
        /\ \A i \in DOMAIN rows : jobs'[i].request = rows[i]
    BY <1>2, <2>1 DEF Job
  <2>3. /\ Len(rows) > 1 /\ Len(rows) * rows[1].canvas <= Context
        /\ Len(rows) * Longest <= Context
    BY Zenon, <1>4 DEF Together
  <2>4. {Suffix(jobs[i].request) : i \in DOMAIN jobs}' = {Suffix(rows[i]) : i \in DOMAIN rows}
    <3>1. \A i \in DOMAIN rows : Suffix(jobs[i].request)' = Suffix(rows[i])
      BY Zenon, <2>1, <2>2 DEF Suffix
    <3>2. QED
      BY <2>2, <3>1
  <2>5. Max({Suffix(jobs[i].request) : i \in DOMAIN jobs})' = Longest
    BY Zenon, <2>4 DEF Longest, Max
  <2>6. Len(jobs') * Max({Suffix(jobs[i].request) : i \in DOMAIN jobs})' <= Context
    BY Zenon, <2>2, <2>3, <2>5
  <2>7. 1 \in DOMAIN rows
    BY <1>2, <2>3
  <2>8. Len(jobs') * jobs'[1].request.canvas <= Context
    BY Zenon, <2>2, <2>3, <2>7
  <2>9. Len(jobs') >= 1
    BY <1>2, <2>2, <2>3
  <2>10. QED
    BY Zenon, <2>6, <2>8, <2>9 DEF Fits
<1>5. QED
  BY <1>3, <1>4

(* While rows are read they stay the same rows. *)
LEMMA SameRows ==
  ASSUME Fits, at \in {"suffix", "read"}, at' = "read", Len(jobs') = Len(jobs),
         Len(jobs) > 1 => jobs'[1].request = jobs[1].request
  PROVE  Fits'
BY DEF Fits

LEMMA PrefillSuffixFits == ASSUME IInv, Fits, PrefillSuffix PROVE Fits'
<1> DEFINE job(i) == [jobs[i] EXCEPT !.kv = Extended(jobs[i].request)]
<1>1. /\ at = "suffix" /\ at' = "read" /\ jobs' = [i \in DOMAIN jobs |-> job(i)]
  BY DEF PrefillSuffix
<1>2. /\ DOMAIN jobs = 1..Len(jobs) /\ Len(jobs) \in Nat
      /\ \A i \in DOMAIN jobs : jobs[i] \in JobType
  BY JobsTyped DEF IInv
<1>3. \A i \in DOMAIN jobs : job(i).request = jobs[i].request
  BY <1>2 DEF JobType
<1> HIDE DEF job
<1>4. Len(jobs') = Len(jobs) /\ \A i \in DOMAIN jobs : jobs'[i] = job(i)
  BY <1>1, <1>2
<1>5. Len(jobs) > 1 => jobs'[1].request = jobs[1].request
  BY <1>2, <1>3, <1>4
<1>6. QED
  BY <1>1, <1>4, <1>5, SameRows

LEMMA ReadTogetherFits == ASSUME IInv, Fits, ReadTogether PROVE Fits'
<1> DEFINE job(i) == IF i \in Wanting THEN Scored(jobs[i], 1) ELSE jobs[i]
<1>1. /\ at = "read" /\ at' = "read" /\ jobs' = [i \in DOMAIN jobs |-> job(i)]
  BY DEF ReadTogether
<1>2. /\ DOMAIN jobs = 1..Len(jobs) /\ Len(jobs) \in Nat /\ read \in Nat
      /\ \A i \in DOMAIN jobs : jobs[i] \in JobType
  BY JobsTyped DEF IInv, Types
<1>3. \A i \in DOMAIN jobs : job(i).request = jobs[i].request
  BY <1>2, ScoredOverKV
<1> HIDE DEF job
<1>4. Len(jobs') = Len(jobs) /\ \A i \in DOMAIN jobs : jobs'[i] = job(i)
  BY <1>1, <1>2
<1>5. Len(jobs) > 1 => jobs'[1].request = jobs[1].request
  BY <1>2, <1>3, <1>4
<1>6. QED
  BY <1>1, <1>4, <1>5, SameRows

LEMMA AloneFits ==
  ASSUME Len(jobs) = 1, Len(jobs') = 1
  PROVE  Fits'
BY DEF Fits

LEMMA NextFits == ASSUME IInv, Fits, [Next]_vars PROVE Fits'
<1>1. CASE Lookup \/ Install
  BY <1>1, AloneFits DEF Lookup, Install, IInv, RowsLeft
<1>2. CASE ReadAlone
  BY <1>2, AloneFits DEF ReadAlone
<1>3. CASE \/ \E batch \in Batches : Ask(batch)
           \/ Prepare \/ Build \/ EndReads \/ Format \/ Return \/ Fail
  <2>1. at' \notin {"suffix", "read"}
    BY <1>3 DEF Ask, Prepare, Build, EndReads, Format, Return, Fail
  <2>2. QED
    BY <2>1 DEF Fits
<1>4. CASE UNCHANGED vars
  BY <1>4 DEF vars, Fits, Suffix
<1>5. QED
  BY <1>1, <1>2, <1>3, <1>4, ChooseFits, PrefillSuffixFits, ReadTogetherFits DEF Next, Step

-----------------------------------------------------------------------------
(* Facts of arithmetic: products of sizes, and what fits a decode. *)
LEMMA Product ==
  ASSUME NEW a \in Nat, NEW b \in Nat, a >= 1, b >= 1
  PROVE  a * b \in Nat /\ a * b >= 1
  OBVIOUS

LEMMA ProductGrows ==
  ASSUME NEW a \in Nat, NEW b \in Nat, NEW c \in Nat, a <= b
  PROVE  a * c <= b * c
  OBVIOUS

LEMMA DivFits ==
  ASSUME NEW n \in Nat, NEW c \in 1..n
  PROVE  n \div c \in Nat /\ (n \div c) * c <= n
  OBVIOUS

(* A decode of one row's group is not empty and fits the context. *)
LEMMA GroupTokens ==
  ASSUME Types, NEW job \in JobType, Wants(job)
  PROVE  Group(job.request) * job.request.canvas \in 1..Context
<1> DEFINE q == job.request
<1>1. /\ q \in Requests /\ q.samples \in 0..MaxSamples
      /\ q.canvas \in 1..Context /\ Context \in Nat
  BY DecisionAssumption DEF Prepared, JobType
<1>2. Group(q) \in Nat /\ read \in Nat
  BY GroupIsSome DEF Types
<1>3. MaxReads(q) \in Nat
  <2>1. q.samples \in Nat
    BY <1>1 DEF MaxSamples
  <2>2. QED
    BY <2>1 DEF MaxReads, AutomaticReads
<1>4. read < MaxReads(q)
  BY Zenon DEF Wants
<1> HIDE DEF q
<1>5. Most(q) \in Nat /\ Most(q) * q.canvas <= Context /\ Most(q) >= 1
  <2>1. ASSUME NEW n \in Nat, NEW c \in 1..n PROVE n \div c >= 1
    OBVIOUS
  <2>2. QED
    BY <1>1, <2>1, DivFits DEF Most
<1>6. Group(q) >= 1 /\ Group(q) <= Most(q)
  BY <1>1, <1>2, <1>3, <1>4, <1>5 DEF Group
<1>7. q.canvas \in Nat /\ q.canvas >= 1
  BY <1>1
<1>8. Group(q) * q.canvas <= Most(q) * q.canvas
  BY <1>2, <1>5, <1>6, <1>7, ProductGrows
<1>9. Group(q) * q.canvas \in Nat /\ Group(q) * q.canvas >= 1
  BY <1>2, <1>6, <1>7, Product
<1>10. Most(q) * q.canvas \in Nat
  BY <1>5, <1>7
<1>11. Group(q) * q.canvas \in 1..Context
  BY <1>1, <1>5, <1>8, <1>9, <1>10
<1>12. QED
  BY <1>11 DEF q

LEMMA InvPassFits == ASSUME IInv, Fits PROVE PassFits
<1>1. /\ DOMAIN jobs = 1..Len(jobs) /\ Len(jobs) \in Nat
      /\ \A i \in DOMAIN jobs : jobs[i] \in JobType /\ jobs[i].request \in Requests
  BY JobsTyped DEF IInv
<1>2. Context \in Nat
  BY DecisionAssumption
<1>3. CASE at = "build"
  <2>1. PassTokens = Len(jobs[1].request.prompt)
    BY <1>3 DEF PassTokens
  <2>2. jobs[1].request \in Requests
    BY <1>1, <1>3 DEF IInv, RowsLeft
  <2>3. /\ Len(jobs[1].request.prompt) \in Nat /\ Len(jobs[1].request.prompt) <= Context
        /\ Common(jobs[1].request) \in 1..(Len(jobs[1].request.prompt) - 1)
    BY <2>2, DecisionAssumption, LenProperties DEF Prepared
  <2>4. QED
    BY <1>2, <2>1, <2>3 DEF PassFits
<1>4. CASE at = "suffix"
  <2> DEFINE S == {Suffix(jobs[i].request) : i \in DOMAIN jobs}
  <2>1. PassTokens = Len(jobs) * Max(S)
    BY <1>4 DEF PassTokens
  <2>2. Len(jobs) >= 1
    BY <1>4 DEF Fits
  <2>3. S \subseteq 1..Context /\ S # {}
    <3>1. \A i \in DOMAIN jobs : Suffix(jobs[i].request) \in 1..Context
      BY <1>1, <1>4, HitLeavesSome DEF IInv, OwnKV
    <3>2. 1 \in DOMAIN jobs
      BY <1>1, <2>2
    <3>3. QED
      BY <3>1, <3>2
  <2>4. Max(S) \in 1..Context
    <3>1. S \subseteq 0..Context
      BY <2>3
    <3>2. QED
      BY <1>2, <2>3, <3>1, Greatest
  <2>5. Len(jobs) > 1 => Len(jobs) * Max(S) <= Context
    BY <1>4 DEF Fits
  <2> HIDE DEF S
  <2>6. Len(jobs) * Max(S) \in 1..Context
    <3>1. CASE Len(jobs) = 1
      BY <1>2, <2>4, <3>1
    <3>2. CASE Len(jobs) > 1
      <4>1. Max(S) \in Nat /\ Max(S) >= 1
        BY <1>2, <2>4
      <4>2. Len(jobs) * Max(S) \in Nat /\ Len(jobs) * Max(S) >= 1
        BY <1>1, <2>2, <4>1, Product
      <4>3. QED
        BY <1>2, <2>5, <3>2, <4>2
    <3>3. QED
      BY <1>1, <2>2, <3>1, <3>2
  <2>7. QED
    BY <2>1, <2>6 DEF PassFits
<1>5. CASE at = "read" /\ Wanting # {}
  <2>1. PICK w \in DOMAIN jobs : Wants(jobs[w])
    BY <1>5 DEF Wanting
  <2>2. CASE Len(jobs) = 1
    <3>1. w = 1 /\ jobs[1] \in JobType
      BY <1>1, <2>1, <2>2
    <3>2. PassTokens = Group(jobs[1].request) * jobs[1].request.canvas
      BY <1>5, <2>2 DEF PassTokens
    <3>3. PassTokens \in 1..Context
      BY <2>1, <3>1, <3>2, GroupTokens DEF IInv
    <3>4. QED
      BY <3>3 DEF PassFits
  <2>3. CASE Len(jobs) # 1
    <3> DEFINE c == jobs[1].request.canvas
    <3>1. Len(jobs) > 1
      BY <1>1, <2>1, <2>3
    <3>2. PassTokens = Cardinality(Wanting) * c
      BY <1>5, <2>3 DEF PassTokens
    <3>3. c \in Nat /\ c >= 1
      <4>1. jobs[1].request \in Requests
        BY <1>1, <3>1
      <4>2. c \in 1..Context
        BY <4>1, DecisionAssumption DEF Prepared
      <4>3. QED
        BY <1>2, <4>2
    <3>4. /\ Cardinality(Wanting) \in Nat /\ Cardinality(Wanting) >= 1
          /\ Cardinality(Wanting) <= Len(jobs)
      <4>1. IsFiniteSet(1..Len(jobs)) /\ Cardinality(1..Len(jobs)) = Len(jobs)
        BY <1>1, <3>1, FS_Interval
      <4>2. Wanting \in SUBSET (1..Len(jobs))
        BY <1>1 DEF Wanting
      <4>3. IsFiniteSet(Wanting) /\ Cardinality(Wanting) <= Len(jobs)
        BY <4>1, <4>2, FS_Subset
      <4>4. Cardinality(Wanting) \in Nat
        BY <4>3, FS_CardinalityType
      <4>5. Cardinality(Wanting) # 0
        BY <1>5, <4>3, FS_EmptySet
      <4>6. QED
        BY <4>3, <4>4, <4>5
    <3>5. Len(jobs) * c <= Context
      BY <1>5, <3>1 DEF Fits
    <3> HIDE DEF c
    <3>6. Cardinality(Wanting) * c <= Len(jobs) * c
      BY <1>1, <3>3, <3>4, ProductGrows
    <3>7. Cardinality(Wanting) * c \in Nat /\ Cardinality(Wanting) * c >= 1
      BY <3>3, <3>4, Product
    <3>8. Len(jobs) * c \in Nat
      BY <1>1, <3>3
    <3>9. PassTokens \in 1..Context
      BY <1>2, <3>2, <3>5, <3>6, <3>7, <3>8
    <3>10. QED
      BY <3>9 DEF PassFits
  <2>4. QED
    BY <2>2, <2>3
<1>6. QED
  BY <1>3, <1>4, <1>5 DEF PassFits

(* No forward pass is empty or exceeds the context, for any requests and    *)
(* limits: a hit leaves some of the prompt to compute, and rows and reads   *)
(* were grouped so that they fit (decision.inc:1300-1304, 1414-1423).        *)
THEOREM PassesFit == Spec => []PassFits
<1>1. Init => IInv /\ Fits
  BY InitInv DEF Init, Fits
<1>2. IInv /\ Fits /\ [Next]_vars => (IInv /\ Fits)'
  BY NextInv, NextFits
<1>3. IInv /\ Fits => PassFits
  BY InvPassFits
<1>4. QED
  BY <1>1, <1>2, <1>3, PTL DEF Spec

-----------------------------------------------------------------------------
(* Decision implements Answers, for any requests, vocabulary and limits:     *)
(* neither the prefix cache, nor the grouping of reads, nor the microbatch   *)
(* shows in an answer.                                                       *)

(* The first n reads of a request. *)
FirstReads(q, n) == [r \in 1..n |-> [read |-> r - 1, over |-> q.prompt]]

(* The request's first automatic read is decided, and is its only one. *)
OneRead(q) == q.samples = 0 /\ q.decided

(* While reads are made, a row has made all those before the next, as far   *)
(* as it wants them, unless its first read stopped it.                      *)
RowSound(job, next) ==
  LET q == job.request
  IN  /\ job.scores = FirstReads(q, Len(job.scores))
      /\ job.active => /\ Len(job.scores) = IF next < MaxReads(q) THEN next ELSE MaxReads(q)
                       /\ next > 0 => ~OneRead(q)
      /\ ~job.active => OneRead(q) /\ Len(job.scores) = 1

Executing == at \in {"lookup", "build", "install", "suffix", "read", "format"}

(* The rows being executed are the next of the call's. *)
JobsAreNext ==
  Executing => /\ Len(answers) + Len(jobs) <= Len(rows)
               /\ \A i \in DOMAIN jobs : jobs[i].request = rows[Len(answers) + i]

AnswersSound ==
  /\ Len(answers) <= Len(rows)
  /\ \A i \in 1..Len(answers) : answers[i] = FirstReads(rows[i], ReadsOf(rows[i]))

ScoresSound ==
  /\ at # "read" => read = 0
  /\ at \in {"lookup", "build", "install", "suffix"}
       => \A i \in DOMAIN jobs : jobs[i].scores = <<>> /\ jobs[i].active
  /\ at = "read" => \A i \in DOMAIN jobs : RowSound(jobs[i], read)
  /\ at = "format" => \A i \in DOMAIN jobs :
       jobs[i].scores = FirstReads(jobs[i].request, ReadsOf(jobs[i].request))

CallSound ==
  /\ at = "idle" <=> rows = <<>>
  /\ JobsAreNext
  /\ AnswersSound
  /\ ScoresSound

-----------------------------------------------------------------------------
(* A request makes at least one read. *)
LEMMA ReadsPositive ==
  ASSUME NEW q \in Requests
  PROVE  /\ q.samples \in Nat /\ q.decided \in BOOLEAN
         /\ q.canvas \in 1..Context /\ Context \in Nat
         /\ MaxReads(q) \in Nat /\ MaxReads(q) >= 1
         /\ ReadsOf(q) \in Nat
         /\ ReadsOf(q) = IF OneRead(q) THEN 1 ELSE MaxReads(q)
<1>1. /\ q.samples \in 0..MaxSamples /\ q.decided \in BOOLEAN
      /\ q.canvas \in 1..Context /\ Context \in Nat
  BY DecisionAssumption DEF Prepared
<1>2. q.samples \in Nat
  BY <1>1 DEF MaxSamples
<1>3. MaxReads(q) \in Nat /\ MaxReads(q) >= 1
  BY <1>2 DEF MaxReads, AutomaticReads
<1>4. QED
  BY <1>1, <1>2, <1>3 DEF ReadsOf, OneRead

(* The first reads of a request, as a sequence. *)
LEMMA FirstReadsTyped ==
  ASSUME NEW q \in Requests, NEW n \in Nat
  PROVE  /\ FirstReads(q, n) \in Seq(Score)
         /\ Len(FirstReads(q, n)) = n
         /\ \A r \in 1..n : FirstReads(q, n)[r] = [read |-> r - 1, over |-> q.prompt]
<1>1. q.prompt \in Seq(Tokens)
  BY DecisionAssumption DEF Prepared
<1>2. \A r \in 1..n : [read |-> r - 1, over |-> q.prompt] \in Score
  BY <1>1 DEF Score
<1>3. FirstReads(q, n) \in [1..n -> Score]
  BY <1>2 DEF FirstReads
<1>4. QED
  BY <1>3, FunctionIsSeq DEF FirstReads

(* A row that has made no read. *)
LEMMA NewRow ==
  ASSUME NEW job \in JobType, job.scores = <<>>, job.active
  PROVE  RowSound(job, 0)
<1>1. job.request \in Requests
  BY DEF JobType
<1>2. MaxReads(job.request) \in Nat /\ MaxReads(job.request) >= 1
  BY <1>1, ReadsPositive
<1>3. FirstReads(job.request, 0) = <<>>
  <2>1. FirstReads(job.request, 0) \in Seq(Score) /\ Len(FirstReads(job.request, 0)) = 0
    BY <1>1, FirstReadsTyped
  <2>2. QED
    BY <2>1, EmptySeq
<1>4. Len(job.scores) = 0
  OBVIOUS
<1>5. QED
  BY <1>2, <1>3, <1>4 DEF RowSound

(* A group of reads is not empty, and none beyond what the row wants. *)
LEMMA GroupFits ==
  ASSUME Types, NEW job \in JobType, Wants(job)
  PROVE  LET q == job.request
             n == Group(q)
         IN  /\ n \in Nat /\ n >= 1
             /\ read + n <= MaxReads(q)
             /\ OneRead(q) /\ read = 0 => n = 1
<1> DEFINE q == job.request
<1>1. q \in Requests /\ read \in Nat
  BY DEF JobType, Types
<1>2. /\ q.canvas \in 1..Context /\ Context \in Nat
      /\ MaxReads(q) \in Nat /\ MaxReads(q) >= 1
  BY <1>1, ReadsPositive
<1>3. read < MaxReads(q)
  BY Zenon DEF Wants
<1>4. Most(q) \in Nat /\ Most(q) >= 1
  <2>1. ASSUME NEW a \in Nat, NEW b \in 1..a
        PROVE  a \div b \in Nat /\ a \div b >= 1
    OBVIOUS
  <2>2. QED
    BY <1>2, <2>1 DEF Most
<1> HIDE DEF q
<1>5. QED
  BY <1>1, <1>2, <1>3, <1>4 DEF Group, OneRead, q

(* What scoring changes of a row. *)
LEMMA ScoredFields ==
  ASSUME NEW job \in JobType, NEW count
  PROVE  LET new == [k \in 1..count |-> [read |-> read + k - 1, over |-> job.kv]]
         IN  /\ Scored(job, count).scores = job.scores \o new
             /\ Scored(job, count).active = (job.active /\ ~Stops(job.request))
             /\ Scored(job, count).request = job.request
<1> DEFINE new == [k \in 1..count |-> [read |-> read + k - 1, over |-> job.kv]]
           go == job.active /\ ~Stops(job.request)
<1>1. Scored(job, count) = [job EXCEPT !.scores = job.scores \o new, !.active = go]
  BY Zenon DEF Scored
<1> HIDE DEF new, go
<1>2. /\ Scored(job, count).scores = job.scores \o new
      /\ Scored(job, count).active = go
      /\ Scored(job, count).request = job.request
  BY <1>1 DEF JobType
<1>3. QED
  BY <1>2 DEF new, go

(* A sequence that begins with one and goes on with the other. *)
LEMMA Concatenated ==
  ASSUME NEW S, NEW s \in Seq(S), NEW t \in Seq(S), NEW f \in Seq(S),
         Len(f) = Len(s) + Len(t),
         \A i \in 1..Len(s) : f[i] = s[i],
         \A k \in 1..Len(t) : f[Len(s) + k] = t[k]
  PROVE  s \o t = f
<1>1. /\ s \o t \in Seq(S) /\ Len(s \o t) = Len(s) + Len(t)
      /\ \A i \in 1..(Len(s) + Len(t)) :
           (s \o t)[i] = IF i <= Len(s) THEN s[i] ELSE t[i - Len(s)]
  BY ConcatProperties
<1>2. Len(s) \in Nat /\ Len(t) \in Nat
  BY LenProperties
<1>3. ASSUME NEW i \in 1..Len(s \o t)
      PROVE  (s \o t)[i] = f[i]
  <2>1. CASE i <= Len(s)
    <3>1. i \in 1..Len(s) /\ i \in 1..(Len(s) + Len(t))
      BY <1>1, <1>2, <2>1
    <3>2. (s \o t)[i] = s[i]
      BY <1>1, <2>1, <3>1
    <3>3. QED
      BY <3>1, <3>2
  <2>2. CASE ~(i <= Len(s))
    <3>1. /\ i \in 1..(Len(s) + Len(t)) /\ i - Len(s) \in 1..Len(t)
          /\ Len(s) + (i - Len(s)) = i
      BY <1>1, <1>2, <2>2
    <3>2. (s \o t)[i] = t[i - Len(s)]
      BY <1>1, <2>2, <3>1
    <3>3. f[Len(s) + (i - Len(s))] = t[i - Len(s)]
      BY <3>1
    <3>4. QED
      BY <3>1, <3>2, <3>3
  <2>3. QED
    BY <2>1, <2>2
<1>4. QED
  BY <1>1, <1>3, SeqEqual

(* Reads scored over the row's own prompt are the next of its reads. *)
LEMMA ScoredSound ==
  ASSUME Types, NEW job \in JobType, RowSound(job, read), Wants(job),
         job.kv = job.request.prompt,
         NEW count \in Nat, count >= 1,
         read + count <= MaxReads(job.request),
         OneRead(job.request) /\ read = 0 => count = 1
  PROVE  /\ RowSound(Scored(job, count), read + count)
         /\ Scored(job, count).request = job.request
<1> DEFINE q == job.request
           new == [k \in 1..count |-> [read |-> read + k - 1, over |-> job.kv]]
           go == job.active /\ ~Stops(q)
           next == Scored(job, count)
<1>1. /\ q \in Requests /\ read \in Nat
      /\ job.scores \in Seq(Score) /\ job.active \in BOOLEAN
  BY DEF JobType, Types
<1>2. job.active /\ read < MaxReads(q) /\ MaxReads(q) \in Nat
  BY <1>1, ReadsPositive, Zenon DEF Wants
<1>3. job.scores = FirstReads(q, read) /\ Len(job.scores) = read
  BY <1>1, <1>2 DEF RowSound
<1>4. q.prompt \in Seq(Tokens)
  BY <1>1, DecisionAssumption DEF Prepared
<1>5. /\ new \in Seq(Score) /\ Len(new) = count
      /\ \A k \in 1..count : new[k] = [read |-> read + k - 1, over |-> q.prompt]
  <2>1. \A k \in 1..count : [read |-> read + k - 1, over |-> job.kv] \in Score
    BY <1>1, <1>4 DEF Score
  <2>2. new \in [1..count -> Score]
    BY <2>1
  <2>3. QED
    BY <2>2, FunctionIsSeq
<1>6. /\ next.scores = job.scores \o new
      /\ next.active = go /\ next.request = q
  BY Zenon, <1>1, ScoredFields
<1> HIDE DEF new
<1>7. next.scores = FirstReads(q, read + count) /\ Len(next.scores) = read + count
  <2> DEFINE f == FirstReads(q, read + count)
  <2>1. /\ f \in Seq(Score) /\ Len(f) = read + count
        /\ \A r \in 1..(read + count) : f[r] = [read |-> r - 1, over |-> q.prompt]
    <3>1. read + count \in Nat
      BY <1>1
    <3>2. QED
      BY Zenon, <1>1, <3>1, FirstReadsTyped
  <2>2. \A r \in 1..read : job.scores[r] = [read |-> r - 1, over |-> q.prompt]
    BY <1>1, <1>3, FirstReadsTyped
  <2> HIDE DEF f
  <2>3. \A i \in 1..read : f[i] = job.scores[i]
    <3>1. TAKE i \in 1..read
    <3>2. i \in 1..(read + count)
      BY <1>1
    <3>3. QED
      BY <2>1, <2>2, <3>2
  <2>4. \A k \in 1..count : f[read + k] = new[k]
    <3>1. TAKE k \in 1..count
    <3>2. read + k \in 1..(read + count) /\ read + k - 1 = (read + k) - 1
      BY <1>1
    <3>3. f[read + k] = [read |-> (read + k) - 1, over |-> q.prompt]
      BY Zenon, <2>1, <3>2
    <3>4. new[k] = [read |-> read + k - 1, over |-> q.prompt]
      BY Zenon, <1>5
    <3>5. QED
      BY Zenon, <3>2, <3>3, <3>4
  <2>5. job.scores \o new = f
    BY <1>1, <1>3, <1>5, <2>1, <2>3, <2>4, Concatenated
  <2>6. QED
    BY <1>6, <2>1, <2>5 DEF f
<1>8. go => ~OneRead(q)
  BY <1>1, <1>2 DEF RowSound, Stops, OneRead
<1>9. ~go => OneRead(q) /\ read = 0
  BY <1>2 DEF Stops, OneRead
<1>10. next.active <=> go
  BY <1>6
<1> HIDE DEF next, go, q
<1>11. RowSound(next, read + count)
  <2>1. ~next.active => OneRead(q) /\ Len(next.scores) = 1
    <3>1. SUFFICES ASSUME ~next.active
                   PROVE  OneRead(q) /\ Len(next.scores) = 1
      OBVIOUS
    <3>2. OneRead(q) /\ read = 0
      BY Zenon, <1>9, <1>10, <3>1
    <3>3. count = 1
      BY <3>2 DEF q
    <3>4. QED
      BY <1>7, <3>2, <3>3
  <2>2. next.active => /\ Len(next.scores) = IF read + count < MaxReads(q) THEN read + count ELSE MaxReads(q)
                       /\ ~OneRead(q)
    BY <1>1, <1>2, <1>7, <1>8, <1>10 DEF q
  <2>3. QED
    BY <1>6, <1>7, <2>1, <2>2 DEF RowSound
<1>12. QED
  BY <1>6, <1>11 DEF next, q

(* A row that wants no read stays as it is while others go on. *)
LEMMA KeepRow ==
  ASSUME Types, NEW job \in JobType, RowSound(job, read), ~Wants(job)
  PROVE  RowSound(job, read + 1)
<1> DEFINE q == job.request
<1>1. /\ q \in Requests /\ read \in Nat /\ job.active \in BOOLEAN
  BY DEF JobType, Types
<1>2. MaxReads(q) \in Nat /\ MaxReads(q) >= 1
  BY <1>1, ReadsPositive
<1>3. job.active => ~(read < MaxReads(q))
  BY Zenon DEF Wants
<1> HIDE DEF q
<1>4. /\ job.scores = FirstReads(q, Len(job.scores))
      /\ job.active => /\ Len(job.scores) = IF read < MaxReads(q) THEN read ELSE MaxReads(q)
                       /\ read > 0 => ~OneRead(q)
      /\ ~job.active => OneRead(q) /\ Len(job.scores) = 1
  BY DEF RowSound, q
<1>5. job.active => /\ Len(job.scores) = IF read + 1 < MaxReads(q) THEN read + 1 ELSE MaxReads(q)
                    /\ read + 1 > 0 => ~OneRead(q)
  BY <1>1, <1>2, <1>3, <1>4
<1>6. QED
  BY Zenon, <1>4, <1>5 DEF RowSound, q

(* A row that wants no more reads has made all that answer it. *)
LEMMA RowDone ==
  ASSUME Types, NEW job \in JobType, RowSound(job, read), ~Wants(job)
  PROVE  job.scores = FirstReads(job.request, ReadsOf(job.request))
<1> DEFINE q == job.request
<1>1. /\ q \in Requests /\ read \in Nat /\ job.active \in BOOLEAN
  BY DEF JobType, Types
<1>2. /\ MaxReads(q) \in Nat /\ MaxReads(q) >= 1
      /\ ReadsOf(q) = IF OneRead(q) THEN 1 ELSE MaxReads(q)
  BY <1>1, ReadsPositive
<1>3. job.active => ~(read < MaxReads(q))
  BY Zenon DEF Wants
<1> HIDE DEF q
<1>4. /\ job.scores = FirstReads(q, Len(job.scores))
      /\ job.active => /\ Len(job.scores) = IF read < MaxReads(q) THEN read ELSE MaxReads(q)
                       /\ read > 0 => ~OneRead(q)
      /\ ~job.active => OneRead(q) /\ Len(job.scores) = 1
  BY DEF RowSound, q
<1>5. Len(job.scores) = ReadsOf(q)
  <2>1. CASE job.active
    <3>1. Len(job.scores) = MaxReads(q) /\ read > 0
      BY <1>1, <1>2, <1>3, <1>4, <2>1
    <3>2. ReadsOf(q) = MaxReads(q)
      BY Zenon, <1>2, <1>4, <2>1, <3>1
    <3>3. QED
      BY Zenon, <3>1, <3>2
  <2>2. CASE ~job.active
    BY Zenon, <1>2, <1>4, <2>2
  <2>3. QED
    BY Zenon, <2>1, <2>2
<1>6. QED
  BY Zenon, <1>4, <1>5 DEF q

-----------------------------------------------------------------------------
(* CallSound holds at first, and every action preserves it. *)
LEMMA InitSound == Init => CallSound
<1>1. SUFFICES ASSUME Init PROVE CallSound
  OBVIOUS
<1>2. rows = <<>> /\ at = "idle" /\ read = 0 /\ answers = <<>> /\ Len(answers) = 0 /\ Len(rows) = 0
  BY <1>1 DEF Init
<1>3. JobsAreNext /\ ScoresSound
  BY <1>2 DEF JobsAreNext, Executing, ScoresSound
<1>4. AnswersSound
  BY <1>2 DEF AnswersSound
<1>5. QED
  BY <1>2, <1>3, <1>4 DEF CallSound

LEMMA AskSound == ASSUME IInv, CallSound, NEW batch \in Batches, Ask(batch) PROVE CallSound'
<1>1. rows' = batch /\ at' = "choose" /\ read' = 0 /\ answers' = <<>>
  BY DEF Ask, CallSound, ScoresSound, IInv, RowsLeft
<1>2. batch # <<>> /\ Len(batch) \in Nat
  BY DecisionAssumption DEF Batches
<1>3. JobsAreNext' /\ ScoresSound'
  BY <1>1 DEF JobsAreNext, Executing, ScoresSound
<1>4. AnswersSound'
  <2>1. Len(answers') = 0
    BY <1>1
  <2>2. QED
    BY <1>1, <1>2, <2>1 DEF AnswersSound
<1>5. QED
  BY <1>1, <1>2, <1>3, <1>4 DEF CallSound

LEMMA ChooseSound == ASSUME IInv, CallSound, Choose PROVE CallSound'
<1>1. /\ rows \in Seq(Requests) /\ rows # <<>> /\ answers = <<>> /\ read = 0
      /\ UNCHANGED <<rows, answers, read>>
  BY DEF Choose, IInv, Types, RowsLeft, CallSound, ScoresSound
<1>2. AnswersSound'
  BY <1>1 DEF CallSound, AnswersSound
<1>3. CASE Together
  <2>1. jobs' = [i \in DOMAIN rows |-> Job(rows[i])] /\ at' = "suffix"
    BY <1>3 DEF Choose
  <2>2. /\ DOMAIN rows = 1..Len(rows) /\ Len(rows) \in Nat
        /\ \A i \in DOMAIN rows : rows[i] \in Requests
    BY <1>1, LenProperties, ElementOfSeq
  <2>3. /\ DOMAIN jobs' = DOMAIN rows
        /\ \A i \in DOMAIN rows : /\ jobs'[i].request = rows[i]
                                  /\ jobs'[i].scores = <<>> /\ jobs'[i].active
    BY <2>1 DEF Job
  <2>4. Len(jobs') = Len(rows) /\ Len(answers') = 0
    BY <1>1, <2>1, <2>2
  <2>5. JobsAreNext'
    <3>1. \A i \in DOMAIN jobs' : jobs'[i].request = rows'[Len(answers') + i]
      BY <1>1, <2>2, <2>3, <2>4
    <3>2. Len(answers') + Len(jobs') <= Len(rows')
      BY <1>1, <2>2, <2>4
    <3>3. QED
      BY Zenon, <3>1, <3>2 DEF JobsAreNext
  <2>6. ScoresSound'
    BY <1>1, <2>1, <2>3 DEF ScoresSound
  <2>7. QED
    BY <1>1, <1>2, <2>1, <2>5, <2>6 DEF CallSound
<1>4. CASE ~Together
  <2>1. at' = "prepare"
    BY <1>4 DEF Choose
  <2>2. JobsAreNext' /\ ScoresSound'
    BY <1>1, <2>1 DEF JobsAreNext, Executing, ScoresSound
  <2>3. QED
    BY <1>1, <1>2, <2>1, <2>2 DEF CallSound
<1>5. QED
  BY <1>3, <1>4

LEMMA PrepareSound == ASSUME IInv, CallSound, Prepare PROVE CallSound'
<1> DEFINE q == rows[Len(answers) + 1]
<1>1. /\ at = "prepare" /\ at' = "lookup" /\ jobs' = <<Job(q)>> /\ read = 0
      /\ Len(answers) < Len(rows) /\ rows # <<>>
      /\ rows' = rows /\ answers' = answers /\ read' = read
  BY DEF Prepare, IInv, RowsLeft, CallSound, ScoresSound
<1>2. Len(answers) \in Nat /\ Len(rows) \in Nat
  BY LenProperties DEF IInv, Types
<1>3. /\ DOMAIN jobs' = {1} /\ Len(jobs') = 1
      /\ jobs'[1].request = q /\ jobs'[1].scores = <<>> /\ jobs'[1].active
  BY <1>1 DEF Job
<1>4. AnswersSound'
  BY <1>1 DEF CallSound, AnswersSound
<1>5. JobsAreNext'
  <2>1. Len(answers') + Len(jobs') <= Len(rows')
    BY <1>1, <1>2, <1>3
  <2>2. \A i \in DOMAIN jobs' : jobs'[i].request = rows'[Len(answers') + i]
    BY <1>1, <1>3
  <2>3. QED
    BY Zenon, <2>1, <2>2 DEF JobsAreNext
<1>6. ScoresSound'
  BY <1>1, <1>3 DEF ScoresSound
<1>7. QED
  BY <1>1, <1>4, <1>5, <1>6 DEF CallSound

LEMMA LookupSound == ASSUME IInv, CallSound, Lookup PROVE CallSound'
<1>1. /\ at = "lookup" /\ at' \in {"suffix", "build"}
      /\ rows' = rows /\ jobs' = jobs /\ answers' = answers /\ read' = read
  BY DEF Lookup
<1>2. JobsAreNext' /\ AnswersSound'
  BY <1>1 DEF CallSound, JobsAreNext, AnswersSound, Executing
<1>3. ScoresSound'
  BY <1>1 DEF CallSound, ScoresSound
<1>4. QED
  BY <1>1, <1>2, <1>3 DEF CallSound

(* A change of K/V is none to what CallSound says of a row. *)
LEMMA BuildSound == ASSUME IInv, CallSound, Build PROVE CallSound'
<1> DEFINE job == [jobs[1] EXCEPT !.kv = jobs[1].request.prompt]
<1>1. /\ at = "build" /\ at' = "install" /\ jobs' = <<job>> /\ Len(jobs) = 1
      /\ rows' = rows /\ answers' = answers /\ read' = read
  BY DEF Build, IInv, RowsLeft
<1>2. DOMAIN jobs = {1} /\ jobs[1] \in JobType
  BY <1>1, JobsTyped DEF IInv
<1>3. job.request = jobs[1].request /\ job.scores = jobs[1].scores /\ job.active = jobs[1].active
  BY <1>2 DEF JobType
<1> HIDE DEF job
<1>4. DOMAIN jobs' = {1} /\ Len(jobs') = 1 /\ jobs'[1] = job
  BY <1>1
<1>5. AnswersSound'
  BY <1>1 DEF CallSound, AnswersSound
<1>6. JobsAreNext'
  <2>1. /\ Len(answers) + Len(jobs) <= Len(rows)
        /\ jobs[1].request = rows[Len(answers) + 1]
    BY <1>1, <1>2 DEF CallSound, JobsAreNext, Executing
  <2>2. Len(answers') + Len(jobs') <= Len(rows')
    BY <1>1, <1>4, <2>1
  <2>3. \A i \in DOMAIN jobs' : jobs'[i].request = rows'[Len(answers') + i]
    BY <1>1, <1>3, <1>4, <2>1
  <2>4. QED
    BY Zenon, <2>2, <2>3 DEF JobsAreNext
<1>7. ScoresSound'
  BY <1>1, <1>2, <1>3, <1>4 DEF CallSound, ScoresSound
<1>8. QED
  BY <1>1, <1>5, <1>6, <1>7 DEF CallSound

LEMMA InstallSound == ASSUME IInv, CallSound, Install PROVE CallSound'
<1>1. /\ at = "install" /\ at' = "read" /\ read = 0
      /\ rows' = rows /\ jobs' = jobs /\ answers' = answers /\ read' = read
  BY DEF Install, CallSound, ScoresSound
<1>2. JobsAreNext' /\ AnswersSound'
  BY <1>1 DEF CallSound, JobsAreNext, AnswersSound, Executing
<1>3. \A i \in DOMAIN jobs : RowSound(jobs[i], 0)
  <2>1. TAKE i \in DOMAIN jobs
  <2>2. jobs[i] \in JobType
    BY JobsTyped DEF IInv
  <2>3. jobs[i].scores = <<>> /\ jobs[i].active
    BY <1>1 DEF CallSound, ScoresSound
  <2>4. QED
    BY Zenon, <2>2, <2>3, NewRow
<1>4. ScoresSound'
  BY <1>1, <1>3 DEF ScoresSound
<1>5. QED
  BY <1>1, <1>2, <1>4 DEF CallSound

LEMMA PrefillSuffixSound == ASSUME IInv, CallSound, PrefillSuffix PROVE CallSound'
<1> DEFINE job(i) == [jobs[i] EXCEPT !.kv = Extended(jobs[i].request)]
<1>1. /\ at = "suffix" /\ at' = "read" /\ read = 0
      /\ jobs' = [i \in DOMAIN jobs |-> job(i)]
      /\ rows' = rows /\ answers' = answers /\ read' = read
  BY DEF PrefillSuffix, CallSound, ScoresSound
<1>2. DOMAIN jobs = 1..Len(jobs) /\ Len(jobs) \in Nat
  BY LenProperties DEF IInv, Types
<1>3. ASSUME NEW i \in DOMAIN jobs
      PROVE  /\ job(i) \in JobType /\ job(i).request = jobs[i].request
             /\ RowSound(job(i), 0)
  <2>1. jobs[i] \in JobType
    BY JobsTyped DEF IInv
  <2>2. Hit(jobs[i].request) /\ jobs[i].request \in Requests
    BY <1>1, <2>1 DEF IInv, OwnKV, JobType
  <2>3. Extended(jobs[i].request) = jobs[i].request.prompt
    BY <2>2, ExtendedIsOwn DEF IInv
  <2>4. Extended(jobs[i].request) \in Seq(Tokens)
    BY <2>2, <2>3, DecisionAssumption DEF Prepared
  <2>5. jobs[i].scores = <<>> /\ jobs[i].active
    BY <1>1 DEF CallSound, ScoresSound
  <2>6. /\ job(i) \in JobType /\ job(i).request = jobs[i].request
        /\ job(i).scores = <<>> /\ job(i).active
    BY <2>1, <2>4, <2>5 DEF JobType
  <2>7. QED
    BY Zenon, <2>6, NewRow
<1> HIDE DEF job
<1>4. /\ DOMAIN jobs' = DOMAIN jobs /\ Len(jobs') = Len(jobs)
      /\ \A i \in DOMAIN jobs' : jobs'[i] = job(i)
  BY <1>1, <1>2
<1>5. AnswersSound'
  BY <1>1 DEF CallSound, AnswersSound
<1>6. JobsAreNext'
  <2>1. /\ Len(answers) + Len(jobs) <= Len(rows)
        /\ \A i \in DOMAIN jobs : jobs[i].request = rows[Len(answers) + i]
    BY <1>1 DEF CallSound, JobsAreNext, Executing
  <2>2. Len(answers') + Len(jobs') <= Len(rows')
    BY <1>1, <1>4, <2>1
  <2>3. \A i \in DOMAIN jobs' : jobs'[i].request = rows'[Len(answers') + i]
    BY <1>1, <1>3, <1>4, <2>1
  <2>4. QED
    BY Zenon, <2>2, <2>3 DEF JobsAreNext
<1>7. ScoresSound'
  BY <1>1, <1>3, <1>4 DEF ScoresSound
<1>8. QED
  BY <1>1, <1>5, <1>6, <1>7 DEF CallSound

(* A read of one row, by itself or with others. *)
LEMMA ReadSound ==
  ASSUME IInv, CallSound, at = "read", NEW i \in DOMAIN jobs, Wants(jobs[i]),
         NEW count \in Nat, count >= 1,
         read + count <= MaxReads(jobs[i].request),
         OneRead(jobs[i].request) /\ read = 0 => count = 1
  PROVE  /\ RowSound(Scored(jobs[i], count), read + count)
         /\ Scored(jobs[i], count).request = jobs[i].request
<1> DEFINE job == jobs[i]
<1>1. Types /\ job \in JobType
  BY JobsTyped DEF IInv
<1>2. RowSound(job, read) /\ job.kv = job.request.prompt
  BY DEF CallSound, ScoresSound, IInv, OwnKV
<1> HIDE DEF job
<1>3. /\ Wants(job) /\ read + count <= MaxReads(job.request)
      /\ OneRead(job.request) /\ read = 0 => count = 1
  BY Zenon DEF job
<1>4. /\ RowSound(Scored(job, count), read + count)
      /\ Scored(job, count).request = job.request
  BY <1>1, <1>2, <1>3, ScoredSound
<1>5. QED
  BY Zenon, <1>4 DEF job

LEMMA ReadAloneSound == ASSUME IInv, CallSound, ReadAlone PROVE CallSound'
<1> DEFINE count == Group(jobs[1].request)
           job == Scored(jobs[1], count)
<1>1. /\ at = "read" /\ at' = at /\ Len(jobs) = 1
      /\ jobs' = <<job>> /\ read' = read + count
      /\ rows' = rows /\ answers' = answers
  BY DEF ReadAlone
<1>2. DOMAIN jobs = {1} /\ jobs[1] \in JobType
  BY <1>1, JobsTyped DEF IInv
<1>3. Wants(jobs[1])
  BY <1>2 DEF ReadAlone, Wanting
<1>4. RowSound(job, read + count) /\ job.request = jobs[1].request
  <2>1. /\ count \in Nat /\ count >= 1
        /\ read + count <= MaxReads(jobs[1].request)
        /\ OneRead(jobs[1].request) /\ read = 0 => count = 1
    BY <1>2, <1>3, GroupFits DEF IInv
  <2>2. 1 \in DOMAIN jobs
    BY <1>2
  <2> HIDE DEF count
  <2>3. QED
    BY Zenon, <1>1, <1>3, <2>1, <2>2, ReadSound
<1> HIDE DEF job, count
<1>5. DOMAIN jobs' = {1} /\ Len(jobs') = 1 /\ jobs'[1] = job
  BY <1>1
<1>6. AnswersSound'
  BY <1>1 DEF CallSound, AnswersSound
<1>7. JobsAreNext'
  <2>1. /\ Len(answers) + Len(jobs) <= Len(rows)
        /\ jobs[1].request = rows[Len(answers) + 1]
    BY <1>1, <1>2 DEF CallSound, JobsAreNext, Executing
  <2>2. Len(answers') + Len(jobs') <= Len(rows')
    BY <1>1, <1>5, <2>1
  <2>3. \A i \in DOMAIN jobs' : jobs'[i].request = rows'[Len(answers') + i]
    BY <1>1, <1>4, <1>5, <2>1
  <2>4. QED
    BY Zenon, <2>2, <2>3 DEF JobsAreNext
<1>8. ScoresSound'
  <2>1. \A i \in DOMAIN jobs' : RowSound(jobs'[i], read')
    BY Zenon, <1>1, <1>4, <1>5
  <2>2. QED
    BY <1>1, <2>1 DEF ScoresSound
<1>9. QED
  BY <1>1, <1>6, <1>7, <1>8 DEF CallSound

LEMMA ReadTogetherSound == ASSUME IInv, CallSound, ReadTogether PROVE CallSound'
<1> DEFINE job(i) == IF i \in Wanting THEN Scored(jobs[i], 1) ELSE jobs[i]
<1>1. /\ at = "read" /\ at' = at
      /\ jobs' = [i \in DOMAIN jobs |-> job(i)] /\ read' = read + 1
      /\ rows' = rows /\ answers' = answers
  BY DEF ReadTogether
<1>2. DOMAIN jobs = 1..Len(jobs) /\ Len(jobs) \in Nat
  BY JobsTyped DEF IInv
<1>3. ASSUME NEW i \in DOMAIN jobs
      PROVE  RowSound(job(i), read + 1) /\ job(i).request = jobs[i].request
  <2>1. jobs[i] \in JobType /\ Types /\ RowSound(jobs[i], read)
    BY <1>1, JobsTyped DEF IInv, CallSound, ScoresSound
  <2>2. CASE i \in Wanting
    <3>1. Wants(jobs[i]) /\ job(i) = Scored(jobs[i], 1)
      BY Zenon, <2>2 DEF Wanting
    <3>2. read + 1 <= MaxReads(jobs[i].request)
      <4>1. read < MaxReads(jobs[i].request)
        BY Zenon, <3>1 DEF Wants
      <4>2. jobs[i].request \in Requests /\ read \in Nat
        BY <2>1 DEF JobType, Types
      <4>3. MaxReads(jobs[i].request) \in Nat
        BY Zenon, <4>2, ReadsPositive
      <4>4. QED
        BY <4>1, <4>2, <4>3
    <3>3. 1 \in Nat /\ 1 >= 1
      OBVIOUS
    <3>4. /\ RowSound(Scored(jobs[i], 1), read + 1)
          /\ Scored(jobs[i], 1).request = jobs[i].request
      BY Zenon, <1>1, <3>1, <3>2, <3>3, ReadSound
    <3>5. QED
      BY Zenon, <3>1, <3>4
  <2>3. CASE i \notin Wanting
    <3>1. ~Wants(jobs[i]) /\ job(i) = jobs[i]
      BY Zenon, <2>3 DEF Wanting
    <3>2. RowSound(jobs[i], read + 1)
      BY Zenon, <2>1, <3>1, KeepRow
    <3>3. QED
      BY Zenon, <3>1, <3>2
  <2>4. QED
    BY Zenon, <2>2, <2>3
<1> HIDE DEF job
<1>4. /\ DOMAIN jobs' = DOMAIN jobs /\ Len(jobs') = Len(jobs)
      /\ \A i \in DOMAIN jobs' : jobs'[i] = job(i)
  BY <1>1, <1>2
<1>5. AnswersSound'
  BY <1>1 DEF CallSound, AnswersSound
<1>6. JobsAreNext'
  <2>1. /\ Len(answers) + Len(jobs) <= Len(rows)
        /\ \A i \in DOMAIN jobs : jobs[i].request = rows[Len(answers) + i]
    BY <1>1 DEF CallSound, JobsAreNext, Executing
  <2>2. Len(answers') + Len(jobs') <= Len(rows')
    BY <1>1, <1>4, <2>1
  <2>3. \A i \in DOMAIN jobs' : jobs'[i].request = rows'[Len(answers') + i]
    BY <1>1, <1>3, <1>4, <2>1
  <2>4. QED
    BY Zenon, <2>2, <2>3 DEF JobsAreNext
<1>7. ScoresSound'
  <2>1. \A i \in DOMAIN jobs' : RowSound(jobs'[i], read')
    BY Zenon, <1>1, <1>3, <1>4
  <2>2. QED
    BY <1>1, <2>1 DEF ScoresSound
<1>8. QED
  BY <1>1, <1>5, <1>6, <1>7 DEF CallSound

LEMMA EndReadsSound == ASSUME IInv, CallSound, EndReads PROVE CallSound'
<1>1. /\ at = "read" /\ at' = "format" /\ read' = 0 /\ Wanting = {}
      /\ rows' = rows /\ jobs' = jobs /\ answers' = answers
  BY DEF EndReads
<1>2. JobsAreNext' /\ AnswersSound'
  BY <1>1 DEF CallSound, JobsAreNext, AnswersSound, Executing
<1>3. \A i \in DOMAIN jobs :
        jobs[i].scores = FirstReads(jobs[i].request, ReadsOf(jobs[i].request))
  <2>1. TAKE i \in DOMAIN jobs
  <2>2. jobs[i] \in JobType /\ Types /\ RowSound(jobs[i], read)
    BY <1>1, JobsTyped DEF IInv, CallSound, ScoresSound
  <2>3. ~Wants(jobs[i])
    BY Zenon, <1>1 DEF Wanting
  <2>4. QED
    BY Zenon, <2>2, <2>3, RowDone
<1>4. ScoresSound'
  BY <1>1, <1>3 DEF ScoresSound
<1>5. QED
  BY <1>1, <1>2, <1>4 DEF CallSound

LEMMA FormatSound == ASSUME IInv, CallSound, Format PROVE CallSound'
<1> DEFINE new == [i \in DOMAIN jobs |-> jobs[i].scores]
<1>1. /\ at = "format" /\ at' = "return" /\ answers' = answers \o new
      /\ rows' = rows /\ read' = read /\ read = 0
  BY DEF Format, CallSound, ScoresSound
<1>2. /\ DOMAIN jobs = 1..Len(jobs) /\ Len(jobs) \in Nat
      /\ \A i \in DOMAIN jobs : jobs[i].scores \in Seq(Score)
  BY JobsTyped DEF IInv, JobType
<1>3. /\ new \in Seq(Seq(Score)) /\ Len(new) = Len(jobs)
      /\ \A i \in 1..Len(jobs) : new[i] = jobs[i].scores
  <2>1. new \in [1..Len(jobs) -> Seq(Score)]
    BY <1>2
  <2>2. QED
    BY <1>2, <2>1, FunctionIsSeq
<1>4. answers \in Seq(Seq(Score)) /\ Len(answers) \in Nat
  BY LenProperties DEF IInv, Types
<1>5. /\ Len(answers) + Len(jobs) <= Len(rows)
      /\ \A i \in 1..Len(jobs) : jobs[i].request = rows[Len(answers) + i]
  BY <1>1, <1>2 DEF CallSound, JobsAreNext, Executing
<1>6. \A i \in 1..Len(jobs) :
        jobs[i].scores = FirstReads(jobs[i].request, ReadsOf(jobs[i].request))
  BY <1>1, <1>2 DEF CallSound, ScoresSound
<1>7. \A i \in 1..Len(answers) : answers[i] = FirstReads(rows[i], ReadsOf(rows[i]))
  BY DEF CallSound, AnswersSound
<1> HIDE DEF new
<1>8. /\ Len(answers') = Len(answers) + Len(jobs)
      /\ \A i \in 1..(Len(answers) + Len(jobs)) :
           answers'[i] = IF i <= Len(answers) THEN answers[i] ELSE new[i - Len(answers)]
  <2>1. new \in Seq(Seq(Score))
    BY <1>3
  <2>2. /\ Len(answers \o new) = Len(answers) + Len(new)
        /\ \A i \in 1..(Len(answers) + Len(new)) :
             (answers \o new)[i] = IF i <= Len(answers) THEN answers[i] ELSE new[i - Len(answers)]
    BY <1>4, <2>1, ConcatProperties
  <2>3. Len(new) = Len(jobs) /\ answers' = answers \o new
    BY <1>1, <1>3
  <2>4. QED
    BY Zenon, <2>2, <2>3
<1>9. ASSUME NEW i \in 1..(Len(answers) + Len(jobs))
      PROVE  answers'[i] = FirstReads(rows[i], ReadsOf(rows[i]))
  <2>1. CASE i <= Len(answers)
    <3>1. i \in 1..Len(answers)
      BY <1>4, <2>1
    <3>2. answers'[i] = answers[i]
      BY <1>8, <2>1
    <3>3. QED
      BY Zenon, <1>7, <3>1, <3>2
  <2>2. CASE ~(i <= Len(answers))
    <3>1. i - Len(answers) \in 1..Len(jobs) /\ Len(answers) + (i - Len(answers)) = i
      BY <1>2, <1>4, <2>2
    <3>2. answers'[i] = new[i - Len(answers)]
      BY <1>8, <2>2
    <3>3. new[i - Len(answers)] = jobs[i - Len(answers)].scores
      BY Zenon, <1>3, <3>1
    <3>4. jobs[i - Len(answers)].request = rows[i]
      BY <1>5, <3>1
    <3>5. QED
      BY Zenon, <1>6, <3>1, <3>2, <3>3, <3>4
  <2>3. QED
    BY <2>1, <2>2
<1>10. AnswersSound'
  <2>1. Len(answers') <= Len(rows')
    BY <1>1, <1>5, <1>8
  <2>2. \A i \in 1..Len(answers') : answers'[i] = FirstReads(rows'[i], ReadsOf(rows'[i]))
    BY Zenon, <1>1, <1>8, <1>9
  <2>3. QED
    BY Zenon, <2>1, <2>2 DEF AnswersSound, FirstReads, ReadsOf, MaxReads
<1>11. JobsAreNext' /\ ScoresSound'
  BY <1>1 DEF JobsAreNext, Executing, ScoresSound
<1>12. QED
  BY <1>1, <1>10, <1>11 DEF CallSound

LEMMA ReturnSound == ASSUME IInv, CallSound, Return PROVE CallSound'
<1>1. at = "return" /\ read' = read /\ read = 0
  BY DEF Return, CallSound, ScoresSound
<1>2. CASE Len(answers) < Len(rows)
  <2>1. at' = "prepare" /\ rows' = rows /\ answers' = answers
    BY <1>2 DEF Return
  <2>2. JobsAreNext' /\ ScoresSound' /\ AnswersSound'
    BY <1>1, <2>1 DEF CallSound, JobsAreNext, Executing, ScoresSound, AnswersSound
  <2>3. QED
    BY <1>1, <2>1, <2>2 DEF CallSound
<1>3. CASE ~(Len(answers) < Len(rows))
  <2>1. at' = "idle" /\ rows' = <<>> /\ answers' = <<>>
    BY <1>3 DEF Return
  <2>2. Len(answers') = 0 /\ Len(rows') = 0
    BY <2>1
  <2>3. JobsAreNext' /\ ScoresSound'
    BY <1>1, <2>1 DEF JobsAreNext, Executing, ScoresSound
  <2>4. AnswersSound'
    BY <2>2 DEF AnswersSound
  <2>5. QED
    BY <2>1, <2>3, <2>4 DEF CallSound
<1>4. QED
  BY <1>2, <1>3

LEMMA FailSound == ASSUME IInv, CallSound, Fail PROVE CallSound'
<1>1. at' = "idle" /\ rows' = <<>> /\ answers' = <<>> /\ read' = 0
  BY DEF Fail
<1>2. Len(answers') = 0 /\ Len(rows') = 0
  BY <1>1
<1>3. JobsAreNext' /\ ScoresSound'
  BY <1>1 DEF JobsAreNext, Executing, ScoresSound
<1>4. AnswersSound'
  BY <1>2 DEF AnswersSound
<1>5. QED
  BY <1>1, <1>3, <1>4 DEF CallSound

LEMMA NextSound == ASSUME IInv, CallSound, [Next]_vars PROVE CallSound'
<1>1. CASE Next
  BY <1>1, AskSound, ChooseSound, PrepareSound, LookupSound, BuildSound, InstallSound,
     PrefillSuffixSound, ReadAloneSound, ReadTogetherSound, EndReadsSound, FormatSound,
     ReturnSound, FailSound DEF Next, Step
<1>2. CASE UNCHANGED vars
  BY <1>2 DEF vars, CallSound, JobsAreNext, Executing, AnswersSound, ScoresSound
<1>3. QED
  BY <1>1, <1>2

LEMMA AlwaysSound == Spec => [](IInv /\ CallSound)
<1>1. Init => IInv /\ CallSound
  BY InitInv, InitSound
<1>2. IInv /\ CallSound /\ [Next]_vars => (IInv /\ CallSound)'
  BY NextInv, NextSound
<1>3. QED
  BY <1>1, <1>2, PTL DEF Spec

-----------------------------------------------------------------------------
(* A call that returns has answered all its rows, each as alone. *)
LEMMA ReturnAnswers ==
  ASSUME IInv, CallSound, Return, ~(Len(answers) < Len(rows))
  PROVE  Promised!Answer
<1>1. /\ rows # <<>> /\ rows' = <<>> /\ output' = answers
  BY DEF Return, CallSound
<1>2. /\ Len(answers) \in Nat /\ Len(rows) \in Nat
      /\ DOMAIN answers = 1..Len(answers) /\ DOMAIN rows = 1..Len(rows)
      /\ answers \in Seq(Seq(Score))
  BY LenProperties DEF IInv, Types
<1>3. /\ Len(answers) <= Len(rows)
      /\ \A i \in 1..Len(answers) : answers[i] = FirstReads(rows[i], ReadsOf(rows[i]))
  BY DEF CallSound, AnswersSound
<1>4. Len(answers) = Len(rows)
  <2>1. ASSUME NEW a \in Nat, NEW b \in Nat, a <= b, ~(a < b)
        PROVE  a = b
    BY <2>1
  <2>2. QED
    BY Zenon, <1>2, <1>3, <2>1
<1>5. \A i \in DOMAIN rows : answers[i] = Promised!Alone(rows[i])
  BY Zenon, <1>2, <1>3, <1>4 DEF FirstReads, Promised!Alone
<1>6. answers = [i \in DOMAIN rows |-> answers[i]]
  BY <1>2, <1>4
<1>7. answers = [i \in DOMAIN rows |-> Promised!Alone(rows[i])]
  BY Zenon, <1>5, <1>6
<1>8. QED
  BY <1>1, <1>7 DEF Promised!Answer

(* Every step of Decision is a step of Answers, or changes nothing it sees. *)
LEMMA StepAnswers ==
  ASSUME IInv, CallSound, [Next]_vars
  PROVE  [Promised!Next]_(Promised!vars)
<1>1. ASSUME NEW batch \in Batches, Ask(batch) PROVE Promised!Ask(batch)
  BY <1>1 DEF Ask, Promised!Ask, CallSound
<1>2. CASE Fail
  <2>1. rows # <<>>
    BY <1>2 DEF Fail, CallSound
  <2>2. Promised!Fail
    BY <1>2, <2>1 DEF Fail, Promised!Fail
  <2>3. QED
    BY <2>2 DEF Promised!Next
<1>3. CASE Return
  <2>1. CASE Len(answers) < Len(rows)
    BY <1>3, <2>1 DEF Return, Promised!vars
  <2>2. CASE ~(Len(answers) < Len(rows))
    BY <1>3, <2>2, ReturnAnswers DEF Promised!Next
  <2>3. QED
    BY <2>1, <2>2
<1>4. CASE Choose \/ Prepare \/ Lookup \/ Build \/ Install \/ PrefillSuffix
  BY <1>4 DEF Choose, Prepare, Lookup, Build, Install, PrefillSuffix, Promised!vars
<1>5. CASE ReadAlone \/ ReadTogether \/ EndReads \/ Format
  BY <1>5 DEF ReadAlone, ReadTogether, EndReads, Format, Promised!vars
<1>6. CASE UNCHANGED vars
  BY <1>6 DEF vars, Promised!vars
<1>7. CASE \E batch \in Batches : Ask(batch)
  BY <1>1, <1>7 DEF Promised!Next
<1>8. QED
  BY <1>2, <1>3, <1>4, <1>5, <1>6, <1>7 DEF Next, Step

(* For any requests, vocabulary and limits: a call answers all its rows or   *)
(* none, and each as it would be alone, whatever the cache held, however     *)
(* its reads were grouped and whichever rows ran with it                     *)
(* (decision.inc:1298-1314, 1402-1423).                                      *)
THEOREM AnsweredAsAlone == Spec => ImplementsAnswers
<1>1. Init => Promised!Init
  BY DEF Init, Promised!Init
<1>2. IInv /\ CallSound /\ [Next]_vars => [Promised!Next]_(Promised!vars)
  BY StepAnswers
<1>3. QED
  BY <1>1, <1>2, AlwaysSound, PTL DEF Spec, ImplementsAnswers, Promised!Spec

-----------------------------------------------------------------------------
(* What TypeOK needs beside the above: rows are a batch, one of them or all  *)
(* are executed and only while Executing says so, and the reads are bounded. *)
CallTyped ==
  /\ rows \in Batches \cup {<<>>}
  /\ Executing \/ at \in {"idle", "choose", "prepare", "return"}
  /\ ~Executing => jobs = <<>>
  /\ Len(jobs) \in {0, 1, Len(rows)}
  /\ read <= MaxSamples
  /\ output \in Seq(Seq(Read))
  /\ poisoned \in BOOLEAN

(* The reads of a request, in order, are reads. *)
LEMMA FirstReadsAreReads ==
  ASSUME NEW q \in Requests, NEW n \in Nat, n <= MaxReads(q)
  PROVE  FirstReads(q, n) \in Seq(Read)
<1> DEFINE M == {MaxReads(r) : r \in Requests}
           top == Max(M)
<1>1. \A r \in Requests : MaxReads(r) \in 0..MaxSamples
  <2>1. \A r \in Requests : r.samples \in 0..MaxSamples
    BY DecisionAssumption DEF Prepared
  <2>2. QED
    BY <2>1 DEF MaxReads, AutomaticReads, MaxSamples
<1>2. M \subseteq 0..MaxSamples /\ MaxReads(q) \in M /\ MaxSamples \in Nat
  BY <1>1 DEF MaxSamples
<1>3. top \in M /\ MaxReads(q) <= top
  <2>1. M # {}
    BY <1>2
  <2> HIDE DEF M
  <2>2. QED
    BY <1>2, <2>1, Greatest
<1>4. top \in Nat /\ MaxReads(q) \in Nat
  BY <1>2, <1>3
<1>5. Read = [read : 0..(top - 1), over : {r.prompt : r \in Requests}]
  BY Zenon DEF Read
<1> HIDE DEF M, top
<1>6. \A r \in 1..n : [read |-> r - 1, over |-> q.prompt] \in Read
  <2>1. TAKE r \in 1..n
  <2>2. r - 1 \in 0..(top - 1)
    BY <1>3, <1>4
  <2>3. QED
    BY <1>5, <2>2
<1>7. FirstReads(q, n) \in [1..n -> Read]
  BY <1>6 DEF FirstReads
<1>8. QED
  BY <1>7, FunctionIsSeq

(* Answers given and scores so far are reads. *)
LEMMA AnswersAreReads ==
  ASSUME IInv, CallSound
  PROVE  answers \in Seq(Seq(Read))
<1>1. /\ Len(answers) \in Nat /\ answers = [i \in 1..Len(answers) |-> answers[i]]
      /\ rows \in Seq(Requests) /\ Len(rows) \in Nat
  BY LenProperties DEF IInv, Types
<1>2. /\ Len(answers) <= Len(rows)
      /\ \A i \in 1..Len(answers) : answers[i] = FirstReads(rows[i], ReadsOf(rows[i]))
  BY DEF CallSound, AnswersSound
<1>3. ASSUME NEW i \in 1..Len(answers)
      PROVE  answers[i] \in Seq(Read)
  <2>1. rows[i] \in Requests
    BY <1>1, <1>2, ElementOfSeq
  <2>2. ReadsOf(rows[i]) \in Nat /\ ReadsOf(rows[i]) <= MaxReads(rows[i])
    BY <2>1, ReadsPositive
  <2>3. QED
    BY <1>2, <2>1, <2>2, FirstReadsAreReads
<1>4. answers \in [1..Len(answers) -> Seq(Read)]
  BY <1>1, <1>3
<1>5. QED
  BY <1>1, <1>4, FunctionIsSeq

LEMMA ScoresAreReads ==
  ASSUME IInv, CallSound, CallTyped, NEW i \in DOMAIN jobs
  PROVE  jobs[i].scores \in Seq(Read)
<1> DEFINE job == jobs[i]
           q == job.request
<1>1. job \in JobType /\ q \in Requests /\ read \in Nat
  BY JobsTyped DEF IInv, Types
<1>2. /\ MaxReads(q) \in Nat /\ MaxReads(q) >= 1
      /\ ReadsOf(q) \in Nat /\ ReadsOf(q) <= MaxReads(q)
  BY <1>1, ReadsPositive
<1>3. Executing
  BY DEF CallTyped
<1>4. CASE at \in {"lookup", "build", "install", "suffix"}
  <2>1. job.scores = <<>>
    BY <1>4 DEF CallSound, ScoresSound
  <2> HIDE DEF job
  <2>2. job.scores \in Seq(Read)
    BY <2>1, EmptySeq
  <2>3. QED
    BY <2>2 DEF job
<1>5. CASE at = "read"
  <2>1. RowSound(job, read)
    BY <1>5 DEF CallSound, ScoresSound
  <2>2. /\ job.scores = FirstReads(q, Len(job.scores))
        /\ job.active => Len(job.scores) = IF read < MaxReads(q) THEN read ELSE MaxReads(q)
        /\ ~job.active => Len(job.scores) = 1
    BY Zenon, <2>1 DEF RowSound
  <2>3. Len(job.scores) \in Nat /\ Len(job.scores) <= MaxReads(q)
    <3>1. CASE job.active
      <4>1. Len(job.scores) = IF read < MaxReads(q) THEN read ELSE MaxReads(q)
        BY Zenon, <2>2, <3>1
      <4>2. QED
        BY <1>1, <1>2, <4>1
    <3>2. CASE ~job.active
      <4>1. Len(job.scores) = 1
        BY Zenon, <2>2, <3>2
      <4>2. QED
        BY <1>2, <4>1
    <3>3. QED
      BY <3>1, <3>2
  <2> HIDE DEF job, q
  <2>4. FirstReads(q, Len(job.scores)) \in Seq(Read)
    BY <1>1, <2>3, FirstReadsAreReads
  <2>5. job.scores \in Seq(Read)
    BY Zenon, <2>2, <2>4
  <2>6. QED
    BY <2>5 DEF job
<1>6. CASE at = "format"
  <2>1. job.scores = FirstReads(q, ReadsOf(q))
    BY <1>6 DEF CallSound, ScoresSound
  <2>2. QED
    BY <1>1, <1>2, <2>1, FirstReadsAreReads
<1>7. QED
  BY <1>3, <1>4, <1>5, <1>6 DEF Executing

LEMMA InvTypeOK == ASSUME IInv, CallSound, CallTyped PROVE TypeOK
<1>1. cache = Empty \/ cache.schema \in {q.schema : q \in Requests}
  BY CacheHolds DEF IInv
<1>2. at \in {"idle", "choose", "prepare", "lookup", "build", "install", "suffix",
              "read", "format", "return"}
  BY DEF CallTyped, Executing
<1>3. read \in 0..MaxSamples
  BY DEF CallTyped, IInv, Types, MaxSamples
<1>4. rows \in Batches \cup {<<>>} /\ Len(jobs) \in {0, 1, Len(rows)}
      /\ output \in Seq(Seq(Read)) /\ poisoned \in BOOLEAN
  BY DEF CallTyped
<1>5. \A i \in DOMAIN jobs : jobs[i].scores \in Seq(Read)
  BY ScoresAreReads
<1>6. QED
  BY <1>1, <1>2, <1>3, <1>4, <1>5, AnswersAreReads DEF TypeOK

-----------------------------------------------------------------------------
(* Reading keeps the bound: no group goes past what its row wants. *)
LEMMA ReadBounded ==
  ASSUME IInv, ReadAlone \/ ReadTogether
  PROVE  read' <= MaxSamples
<1>1. ASSUME NEW i \in DOMAIN jobs, Wants(jobs[i])
      PROVE  /\ jobs[i] \in JobType /\ read \in Nat
             /\ MaxReads(jobs[i].request) \in Nat
             /\ MaxReads(jobs[i].request) <= MaxSamples
             /\ read < MaxReads(jobs[i].request)
  <2>1. jobs[i] \in JobType /\ jobs[i].request \in Requests /\ read \in Nat
    BY JobsTyped DEF IInv, Types
  <2>2. jobs[i].request.samples \in 0..MaxSamples
    BY <2>1, DecisionAssumption DEF Prepared
  <2>3. /\ MaxReads(jobs[i].request) \in Nat
        /\ MaxReads(jobs[i].request) <= MaxSamples
    BY <2>2 DEF MaxReads, AutomaticReads, MaxSamples
  <2>4. QED
    BY Zenon, <1>1, <2>1, <2>3 DEF Wants
<1>2. PICK w \in DOMAIN jobs : Wants(jobs[w])
  BY DEF ReadAlone, ReadTogether, Wanting
<1>3. CASE ReadTogether
  BY <1>1, <1>2, <1>3 DEF ReadTogether, MaxSamples
<1>4. CASE ReadAlone
  <2>1. w = 1 /\ read' = read + Group(jobs[1].request)
    BY <1>2, <1>4, JobsTyped DEF IInv, ReadAlone
  <2>2. /\ jobs[1] \in JobType /\ Wants(jobs[1]) /\ read \in Nat
        /\ MaxReads(jobs[1].request) \in Nat
        /\ MaxReads(jobs[1].request) <= MaxSamples
    BY <1>1, <1>2, <2>1
  <2>3. /\ Group(jobs[1].request) \in Nat
        /\ read + Group(jobs[1].request) <= MaxReads(jobs[1].request)
    BY <2>2, GroupFits DEF IInv
  <2>4. QED
    BY <2>1, <2>2, <2>3 DEF MaxSamples
<1>5. QED
  BY <1>3, <1>4

(* Steps that execute the same rows. *)
LEMMA SameRowsTyped ==
  ASSUME CallTyped, Executing, Executing', Len(jobs') = Len(jobs), read' <= MaxSamples,
         rows' = rows, output' = output, poisoned' = poisoned
  PROVE  CallTyped'
  BY DEF CallTyped

LEMMA NextTyped ==
  ASSUME IInv, CallSound, CallTyped, [Next]_vars
  PROVE  CallTyped'
<1>1. /\ DOMAIN jobs = 1..Len(jobs) /\ Len(jobs) \in Nat
      /\ read \in Nat /\ at # "read" => read = 0
  BY JobsTyped DEF IInv, Types, CallSound, ScoresSound
<1>2. ASSUME NEW batch \in Batches, Ask(batch) PROVE CallTyped'
  <2>1. jobs' = <<>> /\ at' = "choose" /\ rows' = batch /\ output' = <<>>
        /\ UNCHANGED <<read, poisoned>>
    BY <1>2 DEF Ask, CallTyped, Executing
  <2>2. QED
    BY <2>1 DEF CallTyped, Executing
<1>3. CASE Choose
  <2>1. jobs = <<>> /\ UNCHANGED <<rows, read, output, poisoned>>
    BY <1>3 DEF Choose, CallTyped, Executing
  <2>2. CASE Together
    <3>1. jobs' = [i \in DOMAIN rows |-> Job(rows[i])] /\ at' = "suffix"
      BY <1>3, <2>2 DEF Choose
    <3>2. DOMAIN rows = 1..Len(rows) /\ Len(rows) \in Nat
      BY LenProperties DEF IInv, Types
    <3>3. Len(jobs') = Len(rows)
      BY <3>1, <3>2
    <3>4. QED
      BY <2>1, <3>1, <3>3 DEF CallTyped, Executing
  <2>3. CASE ~Together
    <3>1. jobs' = jobs /\ at' = "prepare"
      BY <1>3, <2>3 DEF Choose
    <3>2. QED
      BY <2>1, <3>1 DEF CallTyped, Executing
  <2>4. QED
    BY <2>2, <2>3
<1>4. CASE Prepare
  <2>1. Len(jobs') = 1 /\ at' = "lookup" /\ UNCHANGED <<rows, read, output, poisoned>>
    BY <1>4 DEF Prepare
  <2>2. QED
    BY <2>1 DEF CallTyped, Executing
<1>5. CASE Lookup \/ Install \/ EndReads
  BY <1>5, SameRowsTyped DEF Lookup, Install, EndReads, Executing, CallTyped, MaxSamples
<1>6. CASE Build
  BY <1>6, SameRowsTyped DEF Build, Executing, IInv, RowsLeft, CallTyped
<1>7. CASE PrefillSuffix
  <2> DEFINE job(i) == [jobs[i] EXCEPT !.kv = Extended(jobs[i].request)]
  <2>1. /\ jobs' = [i \in DOMAIN jobs |-> job(i)]
        /\ Executing /\ Executing' /\ UNCHANGED <<rows, read, output, poisoned>>
    BY <1>7 DEF PrefillSuffix, Executing
  <2> HIDE DEF job
  <2>2. Len(jobs') = Len(jobs)
    BY <1>1, <2>1
  <2>3. QED
    BY <2>1, <2>2, SameRowsTyped DEF CallTyped
<1>8. CASE ReadAlone
  BY <1>8, ReadBounded, SameRowsTyped DEF ReadAlone, Executing
<1>9. CASE ReadTogether
  <2> DEFINE job(i) == IF i \in Wanting THEN Scored(jobs[i], 1) ELSE jobs[i]
  <2>1. /\ jobs' = [i \in DOMAIN jobs |-> job(i)]
        /\ Executing /\ Executing' /\ UNCHANGED <<rows, output, poisoned>>
    BY <1>9 DEF ReadTogether, Executing
  <2> HIDE DEF job
  <2>2. Len(jobs') = Len(jobs)
    BY <1>1, <2>1
  <2>3. QED
    BY <1>9, <2>1, <2>2, ReadBounded, SameRowsTyped
<1>10. CASE Format
  <2>1. jobs' = <<>> /\ at' = "return" /\ UNCHANGED <<rows, read, output, poisoned>>
    BY <1>10 DEF Format
  <2>2. QED
    BY <2>1 DEF CallTyped, Executing
<1>11. CASE Return
  <2>1. /\ jobs' = jobs /\ jobs = <<>> /\ UNCHANGED <<read, poisoned>>
        /\ at' \in {"prepare", "idle"}
        /\ rows' = rows \/ rows' = <<>>
        /\ output' = output \/ output' = answers
    BY <1>11 DEF Return, CallTyped, Executing
  <2>2. output' \in Seq(Seq(Read))
    BY <2>1, AnswersAreReads DEF CallTyped
  <2>3. QED
    BY <2>1, <2>2 DEF CallTyped, Executing
<1>12. CASE Fail
  <2>1. /\ jobs' = <<>> /\ at' = "idle" /\ rows' = <<>> /\ read' = 0
        /\ output' = output
    BY <1>12 DEF Fail
  <2>2. poisoned' \in BOOLEAN
    <3>1. InPhase \in BOOLEAN
      BY DEF InPhase
    <3>2. poisoned' = InPhase \/ poisoned' = TRUE
      BY Zenon, <1>12 DEF Fail
    <3>3. QED
      BY Zenon, <3>1, <3>2
  <2>3. QED
    BY <2>1, <2>2 DEF CallTyped, Executing, MaxSamples
<1>13. CASE UNCHANGED vars
  BY <1>13 DEF vars, CallTyped, Executing
<1>14. CASE Step
  BY Zenon, <1>3, <1>4, <1>5, <1>6, <1>7, <1>8, <1>9, <1>10, <1>11, <1>14 DEF Step
<1>15. QED
  BY Zenon, <1>2, <1>12, <1>13, <1>14 DEF Next

(* Every variable has its type, for any requests and any number of rows: no *)
(* read goes past the samples a request may ask for, and what is answered   *)
(* are reads of its prompt (decision.inc:1298-1314).                        *)
THEOREM TypeCorrect == Spec => []TypeOK
<1>1. ASSUME Init PROVE CallTyped
  <2>1. /\ rows = <<>> /\ at = "idle" /\ jobs = <<>> /\ read = 0
        /\ output = <<>> /\ poisoned = FALSE
    BY <1>1 DEF Init
  <2>2. <<>> \in Seq(Seq(Read)) /\ Len(<<>>) = 0
    BY EmptySeq
  <2>3. Len(jobs) = 0 /\ output \in Seq(Seq(Read))
    BY Zenon, <2>1, <2>2
  <2>4. /\ ~Executing /\ read <= MaxSamples /\ rows \in Batches \cup {<<>>}
        /\ at \in {"idle", "choose", "prepare", "return"}
        /\ Len(jobs) \in {0, 1, Len(rows)} /\ poisoned \in BOOLEAN
    <3>1. ~Executing /\ read <= MaxSamples /\ at \in {"idle", "choose", "prepare", "return"}
      BY <2>1 DEF Executing, MaxSamples
    <3>2. Len(jobs) \in {0, 1, Len(rows)} /\ poisoned \in BOOLEAN
      BY Zenon, <2>1, <2>3
    <3>3. QED
      BY Zenon, <2>1, <3>1, <3>2
  <2>5. QED
    BY Zenon, <2>1, <2>3, <2>4 DEF CallTyped
<1>2. IInv /\ CallSound /\ CallTyped /\ [Next]_vars => CallTyped'
  BY NextTyped
<1>3. IInv /\ CallSound /\ CallTyped => TypeOK
  BY InvTypeOK
<1>4. QED
  BY <1>1, <1>2, <1>3, AlwaysSound, PTL DEF Spec

=============================================================================
