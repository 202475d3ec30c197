---------------------------- MODULE Startup_proofs ----------------------------
(***************************************************************************)
(* Proofs about Startup for any number of threads, shards and matrices:    *)
(* what NumericLocale's theorems say of the threads that format holds of   *)
(* them among those that load models, and what a load takes is given back. *)
(***************************************************************************)
EXTENDS Startup, Integers, TLAPS

LEMMA SameVars == localevars = Locale!vars
BY DEF localevars, Locale!vars

(* A step of the process is a step of its numeric locale, or leaves it alone. *)
LEMMA LocaleStepOrStutter == [StartupNext]_all => [Locale!Next]_(Locale!vars)
<1>1. ASSUME Faults PROVE localevars' = localevars
  BY <1>1 DEF Faults, localevars
<1>2. ASSUME NEW t \in Threads, Loading(t) PROVE localevars' = localevars
  BY <1>2 DEF Loading, localevars
<1>3. ASSUME NEW t \in Threads, Formatting(t) PROVE Locale!Next
  BY <1>3 DEF Formatting, Locale!Next
<1>4. ASSUME UNCHANGED all PROVE localevars' = localevars
  BY <1>4 DEF all, localevars
<1> QED
  BY <1>1, <1>2, <1>3, <1>4, SameVars DEF StartupNext, localevars, Locale!vars

(* The process runs the numeric locale as NumericLocale specifies it.         *)
THEOREM StartupRunsLocale == StartupSpec => Locale!Spec
<1>1. StartupInit => Locale!Init
  BY DEF StartupInit
<1> QED
  BY <1>1, LocaleStepOrStutter, PTL DEF StartupSpec, Locale!Spec

-----------------------------------------------------------------------------
(* The numeric locale, of the threads that format. *)

LocalePlaces == {"out", "claim", "spin", "create", "publish", "check", "use", "fail"}

LocaleTypes ==
  /\ state \in {0, 1, 2, -1}
  /\ locale \in {"none", "numeric"}
  /\ at \in [Threads -> LocalePlaces]

Creating(t) == at[t] \in {"create", "publish"}

(* Who creates does so alone, and only while the state says so. *)
OneCreator ==
  /\ \A t \in Threads : Creating(t) => state = 1
  /\ \A t, u \in Threads : Creating(t) /\ Creating(u) => t = u

(* The outcome is out, and final, for those who go by it. *)
Decided ==
  /\ state = 2 => locale = "numeric"
  /\ \A t \in Threads : at[t] = "check" => state \in {2, -1}
  /\ \A t \in Threads : at[t] = "use" => state = 2
  /\ \A t \in Threads : at[t] = "fail" => state = -1

(* Where a spinning thread may go on: nobody spins before there is a creator. *)
Begun == \A t \in Threads : at[t] = "spin" => state # 0

LocaleInv == LocaleTypes /\ OneCreator /\ Decided /\ Begun

LEMMA LocaleInit == Locale!Init => LocaleInv
BY DEF Locale!Init, LocaleInv, LocaleTypes, LocalePlaces, OneCreator, Creating, Decided, Begun

(* A thread that moves elsewhere moves no other. *)
LEMMA LocaleMoved ==
  ASSUME LocaleTypes, NEW t \in Threads, NEW where \in LocalePlaces, Locale!Goto(t, where)
  PROVE  /\ at' \in [Threads -> LocalePlaces]
         /\ at'[t] = where
         /\ \A u \in Threads : u # t => at'[u] = at[u]
BY DEF LocaleTypes, Locale!Goto

LEMMA LocaleNext == LocaleInv /\ [Locale!Next]_(Locale!vars) => LocaleInv'
<1> SUFFICES ASSUME LocaleInv, [Locale!Next]_(Locale!vars) PROVE LocaleInv'
  OBVIOUS
<1> USE DEF LocaleInv, OneCreator, Creating, Decided, Begun
<1>1. ASSUME NEW t \in Threads, Locale!Format(t) PROVE LocaleInv'
  <2>1. /\ at' \in [Threads -> LocalePlaces] /\ at'[t] = "claim"
        /\ \A u \in Threads : u # t => at'[u] = at[u]
    BY <1>1, LocaleMoved DEF Locale!Format, LocalePlaces
  <2>2. QED
    BY <1>1, <2>1 DEF Locale!Format, LocaleTypes
<1>2. ASSUME NEW t \in Threads, Locale!Claim(t) PROVE LocaleInv'
  <2>1. /\ at' \in [Threads -> LocalePlaces] /\ at'[t] = "create"
        /\ \A u \in Threads : u # t => at'[u] = at[u]
    BY <1>2, LocaleMoved DEF Locale!Claim, LocalePlaces
  <2>2. QED
    BY <1>2, <2>1 DEF Locale!Claim, LocaleTypes
<1>3. ASSUME NEW t \in Threads, Locale!Lose(t) PROVE LocaleInv'
  <2>1. /\ at' \in [Threads -> LocalePlaces] /\ at'[t] = "spin"
        /\ \A u \in Threads : u # t => at'[u] = at[u]
    BY <1>3, LocaleMoved DEF Locale!Lose, LocalePlaces
  <2>2. QED
    BY <1>3, <2>1 DEF Locale!Lose, LocaleTypes
<1>4. ASSUME NEW t \in Threads, Locale!Create(t) PROVE LocaleInv'
  <2>1. /\ at' \in [Threads -> LocalePlaces] /\ at'[t] = "publish"
        /\ \A u \in Threads : u # t => at'[u] = at[u]
    BY <1>4, LocaleMoved DEF Locale!Create, LocalePlaces
  <2>2. state = 1 /\ state' = 1 /\ locale' \in {"none", "numeric"}
    BY <1>4 DEF Locale!Create
  <2>3. QED
    BY <1>4, <2>1, <2>2 DEF Locale!Create, LocaleTypes
<1>5. ASSUME NEW t \in Threads, Locale!Publish(t) PROVE LocaleInv'
  <2>1. /\ at' \in [Threads -> LocalePlaces] /\ at'[t] = "check"
        /\ \A u \in Threads : u # t => at'[u] = at[u]
    BY <1>5, LocaleMoved DEF Locale!Publish, LocalePlaces
  <2>2. /\ state = 1 /\ state' \in {2, -1} /\ locale' = locale
        /\ state' = 2 => locale = "numeric"
    BY <1>5 DEF Locale!Publish, LocaleTypes
  <2>3. QED
    BY <1>5, <2>1, <2>2 DEF Locale!Publish, LocaleTypes
<1>6. ASSUME NEW t \in Threads, Locale!Leave(t) PROVE LocaleInv'
  <2>1. /\ at' \in [Threads -> LocalePlaces] /\ at'[t] = "check"
        /\ \A u \in Threads : u # t => at'[u] = at[u]
    BY <1>6, LocaleMoved DEF Locale!Leave, LocalePlaces
  <2>2. state \in {2, -1}
    BY <1>6 DEF Locale!Leave, Locale!Spun, LocaleTypes
  <2>3. QED
    BY <1>6, <2>1, <2>2 DEF Locale!Leave, LocaleTypes
<1>7. ASSUME NEW t \in Threads, Locale!Use(t) PROVE LocaleInv'
  <2>1. /\ at' \in [Threads -> LocalePlaces] /\ at'[t] = IF state = 2 THEN "use" ELSE "fail"
        /\ \A u \in Threads : u # t => at'[u] = at[u]
    BY <1>7, LocaleMoved DEF Locale!Use, LocalePlaces
  <2>2. state \in {2, -1}
    BY <1>7 DEF Locale!Use
  <2>3. QED
    BY <1>7, <2>1, <2>2 DEF Locale!Use, LocaleTypes
<1>8. ASSUME NEW t \in Threads, Locale!Return(t) PROVE LocaleInv'
  <2>1. /\ at' \in [Threads -> LocalePlaces] /\ at'[t] = "out"
        /\ \A u \in Threads : u # t => at'[u] = at[u]
    BY <1>8, LocaleMoved DEF Locale!Return, LocalePlaces
  <2>2. QED
    BY <1>8, <2>1 DEF Locale!Return, LocaleTypes
<1>9. ASSUME UNCHANGED Locale!vars PROVE LocaleInv'
  BY <1>9 DEF Locale!vars, LocaleTypes
<1>10. QED
  BY <1>1, <1>2, <1>3, <1>4, <1>5, <1>6, <1>7, <1>8, <1>9 DEF Locale!Next, Locale!Step

LEMMA LocaleInvComplete == LocaleInv => Locale!LocaleIsComplete
BY DEF LocaleInv, OneCreator, Creating, Decided, Locale!LocaleIsComplete

(* However many threads format at once, each uses the whole locale or fails  *)
(* because there is none, and it is created at most once (decision.inc:81-100).*)
THEOREM LocaleAlwaysComplete == Locale!Spec => []Locale!LocaleIsComplete
<1>1. Locale!Spec => []LocaleInv
  BY LocaleInit, LocaleNext, PTL DEF Locale!Spec
<1>2. QED
  BY <1>1, LocaleInvComplete, PTL

(* What a thread found out stays so: a locale that was created is never       *)
(* changed or created anew, and one that is not to be had stays so.           *)
DecidedForGood ==
  [][(state \in {2, -1}) => UNCHANGED <<state, locale>>]_(Locale!vars)

LEMMA StepDecided ==
  LocaleInv /\ [Locale!Next]_(Locale!vars) => (state \in {2, -1} => UNCHANGED <<state, locale>>)
<1> SUFFICES ASSUME LocaleInv, [Locale!Next]_(Locale!vars), state \in {2, -1} 
              PROVE  UNCHANGED <<state, locale>>
  OBVIOUS
<1>1. \A t \in Threads : ~Creating(t)
  BY DEF LocaleInv, OneCreator
<1>2. CASE UNCHANGED Locale!vars
  BY <1>2 DEF Locale!vars
<1>3. CASE Locale!Next
  BY <1>1, <1>3 DEF Locale!Next, Locale!Step, Locale!Format, Locale!Claim,
         Locale!Lose, Locale!Create, Locale!Publish,
         Locale!Leave, Locale!Use, Locale!Return, Creating
<1>4. QED
  BY <1>2, <1>3

(* The outcome is final, for any number of threads (decision.inc:81-100). *)
THEOREM LocaleDecidedForGood == Locale!Spec => DecidedForGood
<1>1. Locale!Spec => []LocaleInv
  BY LocaleInit, LocaleNext, PTL DEF Locale!Spec
<1>2. QED
  BY <1>1, StepDecided, PTL DEF Locale!Spec, DecidedForGood

(* Whoever formats does so with the whole locale, whatever loads of models    *)
(* go on: jb_numeric_locale, src/decision.inc:81.                            *)
THEOREM StartupFormatsWhole == StartupSpec => []LocaleIsComplete
  BY StartupRunsLocale, LocaleAlwaysComplete, PTL DEF LocaleIsComplete

-----------------------------------------------------------------------------
(* Loading.  The invariant speaks of each thread, of what it holds for its    *)
(* model, where its model is and which context is current, and of the        *)
(* accelerator, which they share.                                            *)
Places == {"rest", "shards", "parse", "validate", "tokenizer", "accel", "compile", "kernels",
           "enter", "upload", "place", "embedding", "filled", "exact", "loaded"}

LoadBlocks ==
  {Block("tensors"), Block("experts"), Block("tokenizer")} \cup {Names(s) : s \in Shards}

Models ==
  [nvfp4 : BOOLEAN, shard : [Shards -> {"none", "mapped", "read"}],
   blocks : SUBSET (LoadBlocks \cup {Block("exact")}), accel : BOOLEAN,
   weights : BOOLEAN, embedding : BOOLEAN, handles : SUBSET Matrices, placed : BOOLEAN]

Types ==
  /\ once \in {"never", "opening", "done"} /\ ready \in BOOLEAN /\ faulted \in BOOLEAN
  /\ context = [t \in Threads |-> context[t]] /\ previous = [t \in Threads |-> previous[t]]
  /\ entered \in [Threads -> BOOLEAN]
  /\ model \in [Threads -> Models]
  /\ held = [t \in Threads |-> held[t]] /\ tracked = [t \in Threads |-> tracked[t]]
  /\ pc \in [Threads -> Places]

(* What a call that makes model m holds, and which of it a failure releases *)
(* by itself.                                                                *)
ForModel(m) == {Block("model")} \cup m.blocks \cup OfShards(m) \cup OfAccel(m)

ByFrame(m) ==
  {Block("model")} \cup m.blocks \cup {Shard(s) : s \in {r \in Shards : m.shard[r] = "read"}}
  \cup {Handle(k) : k \in m.handles}

HoldsSound(p, m, h, k) ==
  IF p = "rest" THEN h = {} /\ k = {}
  ELSE /\ h = ForModel(m)
       /\ k = IF p = "loaded" THEN {} ELSE ByFrame(m)

(* Where a model m can be that is, or will be, on the accelerator. *)
ModelSound(p, m) ==
  /\ ~m.accel => m.handles = {} /\ ~m.weights /\ ~m.embedding
  /\ p \in {"place", "embedding", "filled"} => m.accel
  /\ m.accel => m.weights /\ p \in {"place", "embedding", "filled", "exact", "loaded"}
  /\ m.accel /\ p # "place" => m.placed /\ m.handles = Matrices
  /\ Block("exact") \in m.blocks => p = "loaded" /\ ~m.accel

(* The application's context is current, or saved. *)
ContextSound(p, c, saved, e) ==
  /\ e => p \in {"upload", "place", "embedding", "filled", "exact"}
  /\ ~faulted => /\ e \/ p \in {"compile", "kernels"} => saved = Own
                 /\ ~e /\ p \notin {"compile", "kernels"} => c = Own

(* The accelerator is opened by one thread, once, and is then as found. *)
AcceleratorSound ==
  /\ once = "never" => ~ready
  /\ once = "done" /\ ready => attempt = "found"
  /\ \A t \in Threads :
       /\ pc[t] \in {"compile", "kernels"} => once = "opening" /\ opener = t
       /\ model[t].nvfp4 /\ pc[t] \in {"enter", "upload", "place", "embedding", "filled", "exact"}
            => once = "done"
       /\ model[t].accel => ready /\ once = "done"

ThreadSound(t) ==
  /\ HoldsSound(pc[t], model[t], held[t], tracked[t])
  /\ ModelSound(pc[t], model[t])
  /\ ContextSound(pc[t], context[t], previous[t], entered[t])

IInv ==
  /\ Types
  /\ ~twice
  /\ \A t \in Threads : ThreadSound(t)
  /\ AcceleratorSound

-----------------------------------------------------------------------------
(* What a step of the load does to what it must give back. *)
LEMMA MoreShards ==
  ASSUME NEW m \in Models, NEW s \in Shards, m.shard[s] = "none", NEW how \in {"mapped", "read"}
  PROVE  LET n == [m EXCEPT !.shard[s] = how]
             r == IF how = "mapped" THEN {Mapping(s)} ELSE {Shard(s)}
         IN  /\ n \in Models
             /\ ForModel(n) = ForModel(m) \cup r
             /\ ByFrame(n) = ByFrame(m) \cup (IF how = "mapped" THEN {} ELSE r)
             /\ \A p : ModelSound(p, n) <=> ModelSound(p, m)
             /\ n.nvfp4 = m.nvfp4 /\ n.accel = m.accel
<1> DEFINE n == [m EXCEPT !.shard[s] = how]
<1>1. /\ n \in Models
      /\ n.nvfp4 = m.nvfp4 /\ n.blocks = m.blocks /\ n.accel = m.accel /\ n.weights = m.weights
      /\ n.embedding = m.embedding /\ n.handles = m.handles /\ n.placed = m.placed
      /\ n.shard[s] = how /\ \A r \in Shards : r # s => n.shard[r] = m.shard[r]
  BY DEF Models
<1> HIDE DEF n
<1>2. OfAccel(n) = OfAccel(m) /\ \A p : ModelSound(p, n) <=> ModelSound(p, m)
  BY <1>1 DEF OfAccel, ModelSound
<1>3. CASE how = "mapped"
  <2>1. {r \in Shards : n.shard[r] = "mapped"} = {r \in Shards : m.shard[r] = "mapped"} \cup {s}
    BY <1>1, <1>3
  <2>2. {r \in Shards : n.shard[r] = "read"} = {r \in Shards : m.shard[r] = "read"}
    BY <1>1, <1>3
  <2>3. OfShards(n) = OfShards(m) \cup {Mapping(s)}
    BY <2>1, <2>2 DEF OfShards
  <2>4. QED
    BY <1>1, <1>2, <1>3, <2>2, <2>3 DEF ForModel, ByFrame, n
<1>4. CASE how = "read"
  <2>1. {r \in Shards : n.shard[r] = "mapped"} = {r \in Shards : m.shard[r] = "mapped"}
    BY <1>1, <1>4
  <2>2. {r \in Shards : n.shard[r] = "read"} = {r \in Shards : m.shard[r] = "read"} \cup {s}
    BY <1>1, <1>4
  <2>3. {Shard(r) : r \in {q \in Shards : n.shard[q] = "read"}}
          = {Shard(r) : r \in {q \in Shards : m.shard[q] = "read"}} \cup {Shard(s)}
    BY <2>2
  <2>4. OfShards(n) = OfShards(m) \cup {Shard(s)}
    BY <2>1, <2>3 DEF OfShards
  <2>5. QED
    BY <1>1, <1>2, <1>4, <2>3, <2>4 DEF ForModel, ByFrame, n
<1>5. QED
  BY <1>3, <1>4

LEMMA MoreBlocks ==
  ASSUME NEW m \in Models, NEW B \in SUBSET (LoadBlocks \cup {Block("exact")})
  PROVE  LET n == [m EXCEPT !.blocks = @ \cup B]
         IN  /\ n \in Models
             /\ ForModel(n) = ForModel(m) \cup B
             /\ ByFrame(n) = ByFrame(m) \cup B
             /\ \A p : (Block("exact") \in B => p = "loaded" /\ ~m.accel)
                         => (ModelSound(p, m) => ModelSound(p, n))
             /\ n.nvfp4 = m.nvfp4 /\ n.accel = m.accel
<1> DEFINE n == [m EXCEPT !.blocks = @ \cup B]
<1>1. /\ n \in Models
      /\ n.nvfp4 = m.nvfp4 /\ n.shard = m.shard /\ n.accel = m.accel /\ n.weights = m.weights
      /\ n.embedding = m.embedding /\ n.handles = m.handles /\ n.placed = m.placed
      /\ n.blocks = m.blocks \cup B
  BY DEF Models
<1> HIDE DEF n
<1>2. OfAccel(n) = OfAccel(m) /\ OfShards(n) = OfShards(m)
  BY <1>1 DEF OfAccel, OfShards
<1>3. ForModel(n) = ForModel(m) \cup B /\ ByFrame(n) = ByFrame(m) \cup B
  BY <1>1, <1>2 DEF ForModel, ByFrame
<1>4. \A p : (Block("exact") \in B => p = "loaded" /\ ~m.accel)
               => (ModelSound(p, m) => ModelSound(p, n))
  BY <1>1 DEF ModelSound
<1>5. QED
  BY <1>1, <1>3, <1>4 DEF n

LEMMA WithWeights ==
  ASSUME NEW m \in Models, ModelSound("upload", m)
  PROVE  LET n == [m EXCEPT !.accel = TRUE, !.weights = TRUE]
         IN  /\ n \in Models
             /\ ForModel(n) = ForModel(m) \cup {Weights}
             /\ ByFrame(n) = ByFrame(m)
             /\ ModelSound("place", n)
             /\ n.nvfp4 = m.nvfp4 /\ n.accel
<1> DEFINE n == [m EXCEPT !.accel = TRUE, !.weights = TRUE]
<1>1. /\ n \in Models
      /\ n.nvfp4 = m.nvfp4 /\ n.shard = m.shard /\ n.accel /\ n.weights
      /\ n.embedding = m.embedding /\ n.handles = m.handles /\ n.placed = m.placed
      /\ n.blocks = m.blocks
  BY DEF Models
<1>2. ~m.accel /\ m.handles = {} /\ ~m.weights /\ ~m.embedding /\ Block("exact") \notin m.blocks
  BY DEF ModelSound
<1> HIDE DEF n
<1>3. OfAccel(m) = {} /\ OfAccel(n) = {Weights}
  BY <1>1, <1>2 DEF OfAccel
<1>4. OfShards(n) = OfShards(m)
  BY <1>1 DEF OfShards
<1>5. ForModel(n) = ForModel(m) \cup {Weights} /\ ByFrame(n) = ByFrame(m)
  BY <1>1, <1>3, <1>4 DEF ForModel, ByFrame
<1>6. ModelSound("place", n)
  BY <1>1, <1>2 DEF ModelSound
<1>7. QED
  BY <1>1, <1>5, <1>6 DEF n

LEMMA MoreHandles ==
  ASSUME NEW m \in Models, ModelSound("place", m), NEW k \in Matrices
  PROVE  LET n == [m EXCEPT !.handles = @ \cup {k}]
         IN  /\ n \in Models
             /\ ForModel(n) = ForModel(m) \cup {Handle(k)}
             /\ ByFrame(n) = ByFrame(m) \cup {Handle(k)}
             /\ ModelSound("place", n)
             /\ n.nvfp4 = m.nvfp4 /\ n.accel
<1> DEFINE n == [m EXCEPT !.handles = @ \cup {k}]
<1>1. /\ n \in Models
      /\ n.nvfp4 = m.nvfp4 /\ n.shard = m.shard /\ n.accel = m.accel /\ n.weights = m.weights
      /\ n.embedding = m.embedding /\ n.handles = m.handles \cup {k} /\ n.placed = m.placed
      /\ n.blocks = m.blocks
  BY DEF Models
<1>2. m.accel
  BY DEF ModelSound
<1> HIDE DEF n
<1>3. OfAccel(n) = OfAccel(m) \cup {Handle(k)}
  BY <1>1, <1>2 DEF OfAccel
<1>4. OfShards(n) = OfShards(m)
  BY <1>1 DEF OfShards
<1>5. ForModel(n) = ForModel(m) \cup {Handle(k)} /\ ByFrame(n) = ByFrame(m) \cup {Handle(k)}
  BY <1>1, <1>3, <1>4 DEF ForModel, ByFrame
<1>6. ModelSound("place", n)
  BY <1>1, <1>2 DEF ModelSound
<1>7. QED
  BY <1>1, <1>2, <1>5, <1>6 DEF n

LEMMA AllPlaced ==
  ASSUME NEW m \in Models, ModelSound("place", m), m.handles = Matrices
  PROVE  LET n == [m EXCEPT !.placed = TRUE]
         IN  /\ n \in Models
             /\ ForModel(n) = ForModel(m) /\ ByFrame(n) = ByFrame(m)
             /\ ModelSound("embedding", n)
             /\ n.nvfp4 = m.nvfp4 /\ n.accel
<1> DEFINE n == [m EXCEPT !.placed = TRUE]
<1>1. /\ n \in Models
      /\ n.nvfp4 = m.nvfp4 /\ n.shard = m.shard /\ n.accel = m.accel /\ n.weights = m.weights
      /\ n.embedding = m.embedding /\ n.handles = m.handles /\ n.placed
      /\ n.blocks = m.blocks
  BY DEF Models
<1>2. m.accel
  BY DEF ModelSound
<1> HIDE DEF n
<1>3. ForModel(n) = ForModel(m) /\ ByFrame(n) = ByFrame(m)
  BY <1>1 DEF ForModel, ByFrame, OfShards, OfAccel
<1>4. ModelSound("embedding", n)
  BY <1>1, <1>2 DEF ModelSound
<1>5. QED
  BY <1>1, <1>2, <1>3, <1>4 DEF n

LEMMA WithEmbedding ==
  ASSUME NEW m \in Models, ModelSound("embedding", m)
  PROVE  LET n == [m EXCEPT !.embedding = TRUE]
         IN  /\ n \in Models
             /\ ForModel(n) = ForModel(m) \cup {Embedding}
             /\ ByFrame(n) = ByFrame(m)
             /\ ModelSound("filled", n)
             /\ n.nvfp4 = m.nvfp4 /\ n.accel
<1> DEFINE n == [m EXCEPT !.embedding = TRUE]
<1>1. /\ n \in Models
      /\ n.nvfp4 = m.nvfp4 /\ n.shard = m.shard /\ n.accel = m.accel /\ n.weights = m.weights
      /\ n.embedding /\ n.handles = m.handles /\ n.placed = m.placed
      /\ n.blocks = m.blocks
  BY DEF Models
<1>2. m.accel
  BY DEF ModelSound
<1> HIDE DEF n
<1>3. OfAccel(n) = OfAccel(m) \cup {Embedding}
  BY <1>1, <1>2 DEF OfAccel
<1>4. OfShards(n) = OfShards(m)
  BY <1>1 DEF OfShards
<1>5. ForModel(n) = ForModel(m) \cup {Embedding} /\ ByFrame(n) = ByFrame(m)
  BY <1>1, <1>3, <1>4 DEF ForModel, ByFrame
<1>6. ModelSound("filled", n)
  BY <1>1, <1>2 DEF ModelSound
<1>7. QED
  BY <1>1, <1>2, <1>5, <1>6 DEF n

(* A model that nothing has been taken for. *)
LEMMA NoModel ==
  ASSUME NEW n, n \in BOOLEAN
  PROVE  LET m == [Empty EXCEPT !.nvfp4 = n]
         IN  /\ m \in Models /\ Empty \in Models
             /\ ForModel(m) = {Block("model")} /\ ByFrame(m) = {Block("model")}
             /\ ModelSound("shards", m) /\ ModelSound("rest", Empty)
             /\ m.nvfp4 = n /\ ~m.accel /\ ~Empty.accel
<1> DEFINE m == [Empty EXCEPT !.nvfp4 = n]
<1>1. /\ m \in Models /\ Empty \in Models
      /\ m.nvfp4 = n /\ ~m.accel /\ ~m.weights /\ ~m.embedding /\ m.handles = {} /\ m.blocks = {}
      /\ m.shard = [s \in Shards |-> "none"]
      /\ ~Empty.accel /\ ~Empty.weights /\ ~Empty.embedding /\ Empty.handles = {}
      /\ Empty.blocks = {}
  BY DEF Empty, Models
<1> HIDE DEF m
<1>2. OfAccel(m) = {}
  BY <1>1 DEF OfAccel
<1>3. OfShards(m) = {} /\ {Shard(s) : s \in {r \in Shards : m.shard[r] = "read"}} = {}
  BY <1>1 DEF OfShards
<1>4. ForModel(m) = {Block("model")} /\ ByFrame(m) = {Block("model")}
  BY <1>1, <1>2, <1>3 DEF ForModel, ByFrame
<1>5. ModelSound("shards", m) /\ ModelSound("rest", Empty)
  BY <1>1 DEF ModelSound
<1>6. QED
  BY <1>1, <1>4, <1>5 DEF m

(* What the cleanup and the frame release is all, and nothing else. *)
LEMMA AllReleased ==
  ASSUME NEW m \in Models
  PROVE  LET released == OfAccel(m) \cup OfShards(m)
         IN  /\ released \subseteq ForModel(m)
             /\ ForModel(m) \ (released \cup ByFrame(m)) = {}
BY DEF ForModel, ByFrame

-----------------------------------------------------------------------------
(* A step of t that takes nothing from the other threads, and after which t *)
(* and the accelerator are as they should be.                               *)
Alone(t) ==
  /\ \A u \in Threads : u # t =>
       /\ pc'[u] = pc[u] /\ model'[u] = model[u] /\ held'[u] = held[u]
       /\ tracked'[u] = tracked[u] /\ context'[u] = context[u]
       /\ previous'[u] = previous[u] /\ entered'[u] = entered[u]
  /\ faulted' = faulted

LEMMA Advance ==
  ASSUME IInv, NEW t \in Threads, Alone(t), Types', ~twice', ThreadSound(t)', AcceleratorSound'
  PROVE  IInv'
<1>1. ASSUME NEW u \in Threads PROVE ThreadSound(u)'
  <2>1. CASE u = t
    BY <2>1
  <2>2. CASE u # t
    BY <2>2 DEF IInv, ThreadSound, ContextSound, Alone
  <2>3. QED
    BY <2>1, <2>2
<1>2. QED
  BY <1>1 DEF IInv

(* What the invariant says of a thread, its model and the accelerator. *)
LEMMA Before ==
  ASSUME IInv, NEW t \in Threads
  PROVE  /\ model[t] \in Models /\ pc[t] \in Places /\ entered[t] \in BOOLEAN
         /\ HoldsSound(pc[t], model[t], held[t], tracked[t])
         /\ ModelSound(pc[t], model[t])
         /\ ContextSound(pc[t], context[t], previous[t], entered[t])
BY DEF IInv, Types, ThreadSound

(* A thread that goes on without taking or giving back anything, and is not *)
(* yet, or not to be, on the accelerator.                                    *)
Going == {"accel", "compile", "kernels", "enter", "upload", "exact"}

LEMMA GoesOn ==
  ASSUME IInv, NEW t \in Threads, pc[t] \in Going \ {"exact"}, pc'[t] \in Going,
         model'[t] = model[t], held'[t] = held[t], tracked'[t] = tracked[t]
  PROVE  /\ HoldsSound(pc'[t], model'[t], held'[t], tracked'[t])
         /\ ModelSound(pc'[t], model'[t])
         /\ ~model[t].accel
<1>1. HoldsSound(pc'[t], model'[t], held'[t], tracked'[t])
  BY Before DEF HoldsSound, Going
<1>2. ~model[t].accel /\ ModelSound(pc'[t], model'[t])
  BY Before DEF ModelSound, Going
<1>3. QED
  BY <1>1, <1>2

(* Every action preserves the invariant. *)
LEMMA LoadSound ==
  ASSUME IInv, NEW t \in Threads, NEW nvfp4 \in BOOLEAN, Load(t, nvfp4)
  PROVE  IInv'
<1> DEFINE n == [Empty EXCEPT !.nvfp4 = nvfp4]
<1>1. /\ n \in Models /\ ForModel(n) = {Block("model")} /\ ByFrame(n) = {Block("model")}
      /\ ModelSound("shards", n) /\ ~n.accel
  BY NoModel
<1> HIDE DEF n
<1>2. /\ pc[t] = "rest" /\ pc'[t] = "shards" /\ model'[t] = n
      /\ held'[t] = held[t] \cup {Block("model")} /\ tracked'[t] = tracked[t] \cup {Block("model")}
      /\ Alone(t) /\ Types' /\ ~twice' /\ UNCHANGED <<once, opener, attempt, ready>>
      /\ context'[t] = context[t] /\ previous'[t] = previous[t] /\ entered'[t] = entered[t]
  BY <1>1 DEF Load, Take, Keep, Goto, Types, Places, IInv, Alone, contexts, opening, n
<1>3. ThreadSound(t)'
  <2>1. HoldsSound(pc'[t], model'[t], held'[t], tracked'[t])
    <3>1. held[t] = {} /\ tracked[t] = {}
      BY <1>2, Before DEF HoldsSound
    <3>2. held'[t] = {Block("model")} /\ tracked'[t] = {Block("model")}
      BY <1>2, <3>1
    <3>3. QED
      BY <1>1, <1>2, <3>2 DEF HoldsSound
  <2>2. ModelSound(pc'[t], model'[t])
    BY Zenon, <1>1, <1>2
  <2>3. ContextSound(pc[t], context[t], previous[t], entered[t])'
    BY <1>2, Before DEF ContextSound, Alone
  <2>4. QED
    BY <2>1, <2>2, <2>3 DEF ThreadSound
<1>4. AcceleratorSound'
  BY <1>1, <1>2 DEF IInv, AcceleratorSound, Alone
<1>5. QED
  BY <1>2, <1>3, <1>4, Advance

LEMMA MapShardSound ==
  ASSUME IInv, NEW t \in Threads, NEW s \in Shards, NEW how \in {"mapped", "read"},
         MapShard(t, s, how)
  PROVE  IInv'
<1> DEFINE n == [model[t] EXCEPT !.shard[s] = how]
           r == IF how = "mapped" THEN {Mapping(s)} ELSE {Shard(s)}
<1>1. /\ n \in Models /\ ForModel(n) = ForModel(model[t]) \cup r
      /\ ByFrame(n) = ByFrame(model[t]) \cup (IF how = "mapped" THEN {} ELSE r)
      /\ \A p : ModelSound(p, n) <=> ModelSound(p, model[t])
      /\ n.nvfp4 = model[t].nvfp4 /\ n.accel = model[t].accel
  <2> DEFINE m == model[t]
  <2>1. m \in Models /\ m.shard[s] = "none"
    BY Before DEF MapShard, Unread
  <2> HIDE DEF m
  <2>2. LET k == [m EXCEPT !.shard[s] = how]
            q == IF how = "mapped" THEN {Mapping(s)} ELSE {Shard(s)}
        IN  /\ k \in Models
            /\ ForModel(k) = ForModel(m) \cup q
            /\ ByFrame(k) = ByFrame(m) \cup (IF how = "mapped" THEN {} ELSE q)
            /\ \A p : ModelSound(p, k) <=> ModelSound(p, m)
            /\ k.nvfp4 = m.nvfp4 /\ k.accel = m.accel
    BY Zenon, <2>1, MoreShards
  <2>3. QED
    BY Zenon, <2>2 DEF m
<1>2. held'[t] = held[t] \cup r /\ tracked'[t] = tracked[t] \cup (IF how = "mapped" THEN {} ELSE r)
  BY DEF MapShard, Take, IInv, Types
<1> HIDE DEF n, r
<1>3. /\ pc[t] = "shards" /\ pc'[t] = "parse" /\ model'[t] = n
      /\ Alone(t) /\ Types' /\ ~twice' /\ UNCHANGED <<once, opener, attempt, ready>>
      /\ context'[t] = context[t] /\ previous'[t] = previous[t] /\ entered'[t] = entered[t]
  BY <1>1 DEF MapShard, Take, Keep, Goto, Types, Places, IInv, Alone, contexts, opening, n
<1>4. ThreadSound(t)'
  <2>1. HoldsSound(pc'[t], model'[t], held'[t], tracked'[t])
    <3>1. held[t] = ForModel(model[t]) /\ tracked[t] = ByFrame(model[t])
      BY <1>3, Before DEF HoldsSound, MapShard
    <3>2. QED
      BY <1>1, <1>2, <1>3, <3>1 DEF HoldsSound
  <2>2. ModelSound(pc'[t], model'[t])
    <3>1. ModelSound("shards", model[t]) => ModelSound("parse", model[t])
      BY DEF ModelSound
    <3>2. QED
      BY Zenon, <1>1, <1>3, <3>1, Before
  <2>3. ContextSound(pc[t], context[t], previous[t], entered[t])'
    BY <1>3, Before DEF ContextSound, Alone
  <2>4. QED
    BY <2>1, <2>2, <2>3 DEF ThreadSound
<1>5. AcceleratorSound'
  BY <1>1, <1>3 DEF IInv, AcceleratorSound, Alone
<1>6. QED
  BY <1>3, <1>4, <1>5, Advance

LEMMA ParseShardSound == ASSUME IInv, NEW t \in Threads, ParseShard(t) PROVE IInv'
<1> PICK s \in Shards :
      /\ held' = [held EXCEPT ![t] = @ \cup {Names(s), Block("tensors")}]
      /\ tracked' = [tracked EXCEPT ![t] = @ \cup {Names(s), Block("tensors")}]
      /\ model' = [model EXCEPT ![t] = [model[t] EXCEPT !.blocks = @ \cup {Names(s), Block("tensors")}]]
  BY Zenon DEF ParseShard, Take, Keep
<1>0. /\ pc[t] = "parse" /\ Goto(t, IF Unread(t) = {} THEN "validate" ELSE "shards")
      /\ UNCHANGED <<opening, contexts, twice>>
  BY Zenon DEF ParseShard
<1> DEFINE B == {Names(s), Block("tensors")}
           n == [model[t] EXCEPT !.blocks = @ \cup B]
<1>1. /\ n \in Models /\ ForModel(n) = ForModel(model[t]) \cup B
      /\ ByFrame(n) = ByFrame(model[t]) \cup B
      /\ \A q : ModelSound(q, model[t]) => ModelSound(q, n)
      /\ n.nvfp4 = model[t].nvfp4 /\ n.accel = model[t].accel
  <2>1. model[t] \in Models
    BY Before
  <2>2. B \in SUBSET (LoadBlocks \cup {Block("exact")}) /\ Block("exact") \notin B
    BY DEF LoadBlocks, Block, Names
  <2> HIDE DEF B
  <2>3. QED
    BY Zenon, <2>1, <2>2, MoreBlocks
<1>2. held'[t] = held[t] \cup B /\ tracked'[t] = tracked[t] \cup B
  BY DEF IInv, Types
<1>3. /\ pc[t] = "parse" /\ pc'[t] \in {"validate", "shards"} /\ model'[t] = n
      /\ Alone(t) /\ Types' /\ ~twice' /\ UNCHANGED <<once, opener, attempt, ready>>
      /\ context'[t] = context[t] /\ previous'[t] = previous[t] /\ entered'[t] = entered[t]
  <2> HIDE DEF n
  <2>1. model' = [model EXCEPT ![t] = n]
    BY DEF n
  <2> HIDE DEF B
  <2>2. QED
    BY <1>0, <1>1, <2>1 DEF Goto, Types, Places, IInv, Alone, contexts, opening
<1> HIDE DEF n, B
<1>4. ThreadSound(t)'
  <2>1. HoldsSound(pc'[t], model'[t], held'[t], tracked'[t])
    <3>1. held[t] = ForModel(model[t]) /\ tracked[t] = ByFrame(model[t])
      BY <1>3, Before DEF HoldsSound
    <3>2. QED
      BY <1>1, <1>2, <1>3, <3>1 DEF HoldsSound
  <2>2. ModelSound(pc'[t], model'[t])
    <3>1. ModelSound(pc[t], model[t])
      BY Before
    <3>2. ModelSound(pc'[t], model[t])
      BY <1>3, <3>1 DEF ModelSound
    <3>3. QED
      BY Zenon, <1>1, <1>3, <3>2
  <2>3. ContextSound(pc[t], context[t], previous[t], entered[t])'
    BY <1>3, Before DEF ContextSound, Alone
  <2>4. QED
    BY <2>1, <2>2, <2>3 DEF ThreadSound
<1>5. AcceleratorSound'
  BY <1>1, <1>3 DEF IInv, AcceleratorSound, Alone
<1>6. QED
  BY <1>3, <1>4, <1>5, Advance

LEMMA ValidateSound == ASSUME IInv, NEW t \in Threads, Validate(t) PROVE IInv'
<1> DEFINE B == (IF model[t].nvfp4 THEN {Block("experts")} ELSE {})
           n == [model[t] EXCEPT !.blocks = @ \cup B]
<1>1. /\ n \in Models /\ ForModel(n) = ForModel(model[t]) \cup B
      /\ ByFrame(n) = ByFrame(model[t]) \cup B
      /\ \A q : ModelSound(q, model[t]) => ModelSound(q, n)
      /\ n.nvfp4 = model[t].nvfp4 /\ n.accel = model[t].accel
  <2>1. model[t] \in Models
    BY Before
  <2>2. B \in SUBSET (LoadBlocks \cup {Block("exact")}) /\ Block("exact") \notin B
    BY DEF LoadBlocks, Block, Names
  <2> HIDE DEF B
  <2>3. QED
    BY Zenon, <2>1, <2>2, MoreBlocks
<1>2. held'[t] = held[t] \cup B /\ tracked'[t] = tracked[t] \cup B
  BY DEF Validate, Take, IInv, Types
<1>3. /\ pc[t] = "validate" /\ pc'[t] \in {"tokenizer"} /\ model'[t] = n
      /\ Alone(t) /\ Types' /\ ~twice' /\ UNCHANGED <<once, opener, attempt, ready>>
      /\ context'[t] = context[t] /\ previous'[t] = previous[t] /\ entered'[t] = entered[t]
  <2> HIDE DEF n
  <2>1. model' = [model EXCEPT ![t] = n]
    BY DEF Validate, Keep, n
  <2> HIDE DEF B
  <2>2. QED
    BY <1>1, <2>1 DEF Validate, Take, Goto, Types, Places, IInv, Alone, contexts, opening
<1> HIDE DEF n, B
<1>4. ThreadSound(t)'
  <2>1. HoldsSound(pc'[t], model'[t], held'[t], tracked'[t])
    <3>1. held[t] = ForModel(model[t]) /\ tracked[t] = ByFrame(model[t])
      BY <1>3, Before DEF HoldsSound
    <3>2. QED
      BY <1>1, <1>2, <1>3, <3>1 DEF HoldsSound
  <2>2. ModelSound(pc'[t], model'[t])
    <3>1. ModelSound(pc[t], model[t])
      BY Before
    <3>2. ModelSound(pc'[t], model[t])
      BY <1>3, <3>1 DEF ModelSound
    <3>3. QED
      BY Zenon, <1>1, <1>3, <3>2
  <2>3. ContextSound(pc[t], context[t], previous[t], entered[t])'
    BY <1>3, Before DEF ContextSound, Alone
  <2>4. QED
    BY <2>1, <2>2, <2>3 DEF ThreadSound
<1>5. AcceleratorSound'
  BY <1>1, <1>3 DEF IInv, AcceleratorSound, Alone
<1>6. QED
  BY <1>3, <1>4, <1>5, Advance

LEMMA LoadTokenizerSound == ASSUME IInv, NEW t \in Threads, LoadTokenizer(t) PROVE IInv'
<1> DEFINE B == {Block("tokenizer")}
           n == [model[t] EXCEPT !.blocks = @ \cup B]
<1>1. /\ n \in Models /\ ForModel(n) = ForModel(model[t]) \cup B
      /\ ByFrame(n) = ByFrame(model[t]) \cup B
      /\ \A q : ModelSound(q, model[t]) => ModelSound(q, n)
      /\ n.nvfp4 = model[t].nvfp4 /\ n.accel = model[t].accel
  <2>1. model[t] \in Models
    BY Before
  <2>2. B \in SUBSET (LoadBlocks \cup {Block("exact")}) /\ Block("exact") \notin B
    BY DEF LoadBlocks, Block, Names
  <2> HIDE DEF B
  <2>3. QED
    BY Zenon, <2>1, <2>2, MoreBlocks
<1>2. held'[t] = held[t] \cup B /\ tracked'[t] = tracked[t] \cup B
  BY DEF LoadTokenizer, Take, IInv, Types
<1>3. /\ pc[t] = "tokenizer" /\ pc'[t] \in {"accel", "enter"} /\ model'[t] = n
      /\ Alone(t) /\ Types' /\ ~twice' /\ UNCHANGED <<once, opener, attempt, ready>>
      /\ context'[t] = context[t] /\ previous'[t] = previous[t] /\ entered'[t] = entered[t]
      /\ pc'[t] = "enter" => ~model[t].nvfp4
  <2> HIDE DEF n
  <2>1. model' = [model EXCEPT ![t] = n]
    BY DEF LoadTokenizer, Keep, n
  <2> HIDE DEF B
  <2>2. QED
    BY <1>1, <2>1 DEF LoadTokenizer, Take, Goto, Types, Places, IInv, Alone, contexts, opening
<1> HIDE DEF n, B
<1>4. ThreadSound(t)'
  <2>1. HoldsSound(pc'[t], model'[t], held'[t], tracked'[t])
    <3>1. held[t] = ForModel(model[t]) /\ tracked[t] = ByFrame(model[t])
      BY <1>3, Before DEF HoldsSound
    <3>2. QED
      BY <1>1, <1>2, <1>3, <3>1 DEF HoldsSound
  <2>2. ModelSound(pc'[t], model'[t])
    <3>1. ModelSound(pc[t], model[t])
      BY Before
    <3>2. ModelSound(pc'[t], model[t])
      BY <1>3, <3>1 DEF ModelSound
    <3>3. QED
      BY Zenon, <1>1, <1>3, <3>2
  <2>3. ContextSound(pc[t], context[t], previous[t], entered[t])'
    BY <1>3, Before DEF ContextSound, Alone
  <2>4. QED
    BY <2>1, <2>2, <2>3 DEF ThreadSound
<1>5. AcceleratorSound'
  BY <1>1, <1>3 DEF IInv, AcceleratorSound, Alone
<1>6. QED
  BY <1>3, <1>4, <1>5, Advance

LEMMA AwaitAccelSound == ASSUME IInv, NEW t \in Threads, AwaitAccel(t) PROVE IInv'
<1>1. /\ pc[t] \in {"accel"} /\ pc'[t] \in {"enter"}
      /\ Alone(t) /\ Types' /\ ~twice'
      /\ model'[t] = model[t] /\ held'[t] = held[t] /\ tracked'[t] = tracked[t]
  BY DEF AwaitAccel, Opened, Goto, Types, Places, IInv, Alone, contexts, opening, ReadyAfter
<1>2. ThreadSound(t)'
  <2>1. ContextSound(pc[t], context[t], previous[t], entered[t])'
    BY <1>1, Before DEF AwaitAccel, Opened, Goto, Types, IInv, Alone, contexts, opening, ContextSound
  <2>2. QED
    BY <1>1, <2>1, GoesOn DEF ThreadSound, Going
<1>3. AcceleratorSound'
  BY <1>1, GoesOn DEF AwaitAccel, Opened, Goto, IInv, Types, AcceleratorSound, Alone, contexts, opening, Going
<1>4. QED
  BY <1>1, <1>2, <1>3, Advance

LEMMA OpenNothingSound == ASSUME IInv, NEW t \in Threads, OpenNothing(t) PROVE IInv'
<1>1. /\ pc[t] \in {"accel"} /\ pc'[t] \in {"enter"}
      /\ Alone(t) /\ Types' /\ ~twice'
      /\ model'[t] = model[t] /\ held'[t] = held[t] /\ tracked'[t] = tracked[t]
  BY DEF OpenNothing, Opened, Goto, Types, Places, IInv, Alone, contexts, opening, ReadyAfter
<1>2. ThreadSound(t)'
  <2>1. ContextSound(pc[t], context[t], previous[t], entered[t])'
    BY <1>1, Before DEF OpenNothing, Opened, Goto, Types, IInv, Alone, contexts, opening, ContextSound
  <2>2. QED
    BY <1>1, <2>1, GoesOn DEF ThreadSound, Going
<1>3. AcceleratorSound'
  BY <1>1, GoesOn DEF OpenNothing, Opened, Goto, IInv, Types, AcceleratorSound, Alone, contexts, opening, Going
<1>4. QED
  BY <1>1, <1>2, <1>3, Advance

LEMMA OpenSound == ASSUME IInv, NEW t \in Threads, Open(t) PROVE IInv'
<1>1. /\ pc[t] \in {"accel"} /\ pc'[t] \in {"compile"}
      /\ Alone(t) /\ Types' /\ ~twice'
      /\ model'[t] = model[t] /\ held'[t] = held[t] /\ tracked'[t] = tracked[t]
  BY DEF Open, Opened, Goto, Types, Places, IInv, Alone, contexts, opening, ReadyAfter
<1>2. ThreadSound(t)'
  <2>1. ContextSound(pc[t], context[t], previous[t], entered[t])'
    BY <1>1, Before DEF Open, Opened, Goto, Types, IInv, Alone, contexts, opening, ContextSound
  <2>2. QED
    BY <1>1, <2>1, GoesOn DEF ThreadSound, Going
<1>3. AcceleratorSound'
  BY <1>1, GoesOn DEF Open, Opened, Goto, IInv, Types, AcceleratorSound, Alone, contexts, opening, Going
<1>4. QED
  BY <1>1, <1>2, <1>3, Advance

LEMMA CompileSound == ASSUME IInv, NEW t \in Threads, Compile(t) PROVE IInv'
<1>1. /\ pc[t] \in {"compile"} /\ pc'[t] \in {"kernels"}
      /\ Alone(t) /\ Types' /\ ~twice'
      /\ model'[t] = model[t] /\ held'[t] = held[t] /\ tracked'[t] = tracked[t]
  BY DEF Compile, Opened, Goto, Types, Places, IInv, Alone, contexts, opening, ReadyAfter
<1>2. ThreadSound(t)'
  <2>1. ContextSound(pc[t], context[t], previous[t], entered[t])'
    BY <1>1, Before DEF Compile, Opened, Goto, Types, IInv, Alone, contexts, opening, ContextSound
  <2>2. QED
    BY <1>1, <2>1, GoesOn DEF ThreadSound, Going
<1>3. AcceleratorSound'
  BY <1>1, GoesOn DEF Compile, Opened, Goto, IInv, Types, AcceleratorSound, Alone, contexts, opening, Going
<1>4. QED
  BY <1>1, <1>2, <1>3, Advance

LEMMA FindKernelsSound == ASSUME IInv, NEW t \in Threads, FindKernels(t) PROVE IInv'
<1>1. /\ pc[t] \in {"kernels"} /\ pc'[t] \in {"enter"}
      /\ Alone(t) /\ Types' /\ ~twice'
      /\ model'[t] = model[t] /\ held'[t] = held[t] /\ tracked'[t] = tracked[t]
  BY DEF FindKernels, Opened, Goto, Types, Places, IInv, Alone, contexts, opening, ReadyAfter
<1>2. ThreadSound(t)'
  <2>1. ContextSound(pc[t], context[t], previous[t], entered[t])'
    BY <1>1, Before DEF FindKernels, Opened, Goto, Types, IInv, Alone, contexts, opening, ContextSound
  <2>2. QED
    BY <1>1, <2>1, GoesOn DEF ThreadSound, Going
<1>3. AcceleratorSound'
  BY <1>1, GoesOn DEF FindKernels, Opened, Goto, IInv, Types, AcceleratorSound, Alone, contexts, opening, Going
<1>4. QED
  BY <1>1, <1>2, <1>3, Advance

LEMMA CompileFailsSound == ASSUME IInv, NEW t \in Threads, CompileFails(t) PROVE IInv'
<1>1. /\ pc[t] \in {"compile", "kernels"} /\ pc'[t] \in {"compile", "enter"}
      /\ Alone(t) /\ Types' /\ ~twice'
      /\ model'[t] = model[t] /\ held'[t] = held[t] /\ tracked'[t] = tracked[t]
  BY DEF CompileFails, Opened, Goto, Types, Places, IInv, Alone, contexts, opening, ReadyAfter
<1>2. ThreadSound(t)'
  <2>1. ContextSound(pc[t], context[t], previous[t], entered[t])'
    BY <1>1, Before DEF CompileFails, Opened, Goto, Types, IInv, Alone, contexts, opening, ContextSound
  <2>2. QED
    BY <1>1, <2>1, GoesOn DEF ThreadSound, Going
<1>3. AcceleratorSound'
  <2>1. /\ once = "opening" /\ opener = t
        /\ \A u \in Threads : pc[u] \in {"compile", "kernels"} => u = t
        /\ \A u \in Threads : ~model[u].accel
    BY <1>1 DEF IInv, AcceleratorSound
  <2>2. /\ ~ready' /\ \A u \in Threads : model'[u] = model[u]
        /\ \A u \in Threads : u # t => pc'[u] = pc[u]
    BY <1>1 DEF CompileFails, ReadyAfter, Alone
  <2>3. \A u \in Threads : ~model'[u].accel
    BY <2>1, <2>2
  <2>4. CASE attempt = "fp4"
    <3>1. pc'[t] = "compile" /\ once' = "opening" /\ opener' = t
      BY <1>1, <2>1, <2>4 DEF CompileFails, Goto, IInv, Types, ReadyAfter
    <3>2. QED
      BY <2>1, <2>2, <2>3, <3>1 DEF IInv, AcceleratorSound
  <2>5. CASE attempt # "fp4"
    <3>1. pc'[t] = "enter" /\ once' = "done"
      BY <1>1, <2>5 DEF CompileFails, Opened, Goto, IInv, Types, ReadyAfter
    <3>2. QED
      BY <2>1, <2>2, <2>3, <3>1 DEF IInv, AcceleratorSound
  <2>6. QED
    BY <2>4, <2>5
<1>4. QED
  BY <1>1, <1>2, <1>3, Advance

LEMMA EnterSound == ASSUME IInv, NEW t \in Threads, Enter(t) PROVE IInv'
<1>1. /\ pc[t] \in {"enter"} /\ pc'[t] \in {"upload"}
      /\ Alone(t) /\ Types' /\ ~twice'
      /\ model'[t] = model[t] /\ held'[t] = held[t] /\ tracked'[t] = tracked[t]
  BY DEF Enter, Opened, Goto, Types, Places, IInv, Alone, contexts, opening, ReadyAfter
<1>2. ThreadSound(t)'
  <2>1. ContextSound(pc[t], context[t], previous[t], entered[t])'
    BY <1>1, Before DEF Enter, Opened, Goto, Types, IInv, Alone, contexts, opening, ContextSound
  <2>2. QED
    BY <1>1, <2>1, GoesOn DEF ThreadSound, Going
<1>3. AcceleratorSound'
  BY <1>1, GoesOn DEF Enter, Opened, Goto, IInv, Types, AcceleratorSound, Alone, contexts, opening, Going
<1>4. QED
  BY <1>1, <1>2, <1>3, Advance

LEMMA StayOnCPUSound == ASSUME IInv, NEW t \in Threads, StayOnCPU(t) PROVE IInv'
<1>1. /\ pc[t] \in {"upload"} /\ pc'[t] \in {"exact"}
      /\ Alone(t) /\ Types' /\ ~twice'
      /\ model'[t] = model[t] /\ held'[t] = held[t] /\ tracked'[t] = tracked[t]
  BY DEF StayOnCPU, Opened, Goto, Types, Places, IInv, Alone, contexts, opening, ReadyAfter
<1>2. ThreadSound(t)'
  <2>1. ContextSound(pc[t], context[t], previous[t], entered[t])'
    BY <1>1, Before DEF StayOnCPU, Opened, Goto, Types, IInv, Alone, contexts, opening, ContextSound
  <2>2. QED
    BY <1>1, <2>1, GoesOn DEF ThreadSound, Going
<1>3. AcceleratorSound'
  BY <1>1, GoesOn DEF StayOnCPU, Opened, Goto, IInv, Types, AcceleratorSound, Alone, contexts, opening, Going
<1>4. QED
  BY <1>1, <1>2, <1>3, Advance

LEMMA AllocateSound == ASSUME IInv, NEW t \in Threads, Allocate(t) PROVE IInv'
<1> DEFINE n == [model[t] EXCEPT !.accel = TRUE, !.weights = TRUE]
<1>1. /\ n \in Models /\ ForModel(n) = ForModel(model[t]) \cup {Weights}
      /\ ByFrame(n) = ByFrame(model[t])
      /\ ModelSound("place", n) /\ n.nvfp4 = model[t].nvfp4 /\ n.accel
  <2>1. model[t] \in Models /\ ModelSound("upload", model[t])
    BY Before DEF Allocate
  <2>2. QED
    BY <2>1, WithWeights
<1>2. held'[t] = held[t] \cup {Weights} /\ tracked'[t] = tracked[t]
  BY DEF Allocate, Take, IInv, Types
<1>3. /\ pc[t] = "upload" /\ pc'[t] = "place" /\ model'[t] = n
      /\ Alone(t) /\ Types' /\ ~twice' /\ UNCHANGED <<once, opener, attempt, ready>>
      /\ context'[t] = context[t] /\ previous'[t] = previous[t] /\ entered'[t] = entered[t]
  <2>1. model' = [model EXCEPT ![t] = n]
    BY Zenon DEF Allocate, Keep
  <2> HIDE DEF n
  <2>2. QED
    BY <1>1, <2>1 DEF Allocate, Take, Goto, Types, Places, IInv, Alone, contexts, opening
<1>4. ready /\ once = "done"
  BY DEF Allocate, IInv, AcceleratorSound
<1> HIDE DEF n
<1>5. ThreadSound(t)'
  <2>1. HoldsSound(pc'[t], model'[t], held'[t], tracked'[t])
    <3>1. held[t] = ForModel(model[t]) /\ tracked[t] = ByFrame(model[t])
      BY <1>3, Before DEF HoldsSound
    <3>2. QED
      BY <1>1, <1>2, <1>3, <3>1 DEF HoldsSound
  <2>2. ModelSound(pc'[t], model'[t])
    BY Zenon, <1>1, <1>3
  <2>3. ContextSound(pc[t], context[t], previous[t], entered[t])'
    BY <1>3, Before DEF ContextSound, Alone
  <2>4. QED
    BY <2>1, <2>2, <2>3 DEF ThreadSound
<1>6. AcceleratorSound'
  BY <1>1, <1>3, <1>4 DEF IInv, AcceleratorSound, Alone
<1>7. QED
  BY <1>3, <1>5, <1>6, Advance

LEMMA PlaceSound ==
  ASSUME IInv, NEW t \in Threads, NEW k \in Matrices, Place(t, k)
  PROVE  IInv'
<1> DEFINE n == [model[t] EXCEPT !.handles = @ \cup {k}]
<1>1. /\ n \in Models /\ ForModel(n) = ForModel(model[t]) \cup {Handle(k)}
      /\ ByFrame(n) = ByFrame(model[t]) \cup {Handle(k)}
      /\ ModelSound("place", n) /\ n.nvfp4 = model[t].nvfp4 /\ n.accel
  <2>1. model[t] \in Models /\ ModelSound("place", model[t])
    BY Before DEF Place
  <2>2. QED
    BY <2>1, MoreHandles
<1>2. held'[t] = held[t] \cup {Handle(k)} /\ tracked'[t] = tracked[t] \cup {Handle(k)}
  BY DEF Place, Take, IInv, Types
<1>3. /\ pc[t] = "place" /\ pc'[t] = "place" /\ model'[t] = n
      /\ Alone(t) /\ Types' /\ ~twice' /\ UNCHANGED <<once, opener, attempt, ready>>
      /\ context'[t] = context[t] /\ previous'[t] = previous[t] /\ entered'[t] = entered[t]
  <2>1. model' = [model EXCEPT ![t] = n]
    BY Zenon DEF Place, Keep
  <2> HIDE DEF n
  <2>2. QED
    BY <1>1, <2>1 DEF Place, Take, Goto, Types, Places, IInv, Alone, contexts, opening
<1>4. ready /\ once = "done"
  <2>1. model[t].accel
    BY <1>3, Before DEF ModelSound
  <2>2. QED
    BY <2>1 DEF IInv, AcceleratorSound
<1> HIDE DEF n
<1>5. ThreadSound(t)'
  <2>1. HoldsSound(pc'[t], model'[t], held'[t], tracked'[t])
    <3>1. held[t] = ForModel(model[t]) /\ tracked[t] = ByFrame(model[t])
      BY <1>3, Before DEF HoldsSound
    <3>2. QED
      BY <1>1, <1>2, <1>3, <3>1 DEF HoldsSound
  <2>2. ModelSound(pc'[t], model'[t])
    BY Zenon, <1>1, <1>3
  <2>3. ContextSound(pc[t], context[t], previous[t], entered[t])'
    BY <1>3, Before DEF ContextSound, Alone
  <2>4. QED
    BY <2>1, <2>2, <2>3 DEF ThreadSound
<1>6. AcceleratorSound'
  BY <1>1, <1>3, <1>4 DEF IInv, AcceleratorSound, Alone
<1>7. QED
  BY <1>3, <1>5, <1>6, Advance

LEMMA PlaceTensorsSound == ASSUME IInv, NEW t \in Threads, PlaceTensors(t) PROVE IInv'
<1> DEFINE n == [model[t] EXCEPT !.placed = TRUE]
<1>1. /\ n \in Models /\ ForModel(n) = ForModel(model[t])
      /\ ByFrame(n) = ByFrame(model[t])
      /\ ModelSound("embedding", n) /\ n.nvfp4 = model[t].nvfp4 /\ n.accel
  <2>1. model[t] \in Models /\ ModelSound("place", model[t]) /\ model[t].handles = Matrices
    BY Before DEF PlaceTensors
  <2>2. QED
    BY <2>1, AllPlaced
<1>2. held'[t] = held[t] /\ tracked'[t] = tracked[t]
  BY DEF PlaceTensors, Take, IInv, Types
<1>3. /\ pc[t] = "place" /\ pc'[t] = "embedding" /\ model'[t] = n
      /\ Alone(t) /\ Types' /\ ~twice' /\ UNCHANGED <<once, opener, attempt, ready>>
      /\ context'[t] = context[t] /\ previous'[t] = previous[t] /\ entered'[t] = entered[t]
  <2>1. model' = [model EXCEPT ![t] = n]
    BY Zenon DEF PlaceTensors, Keep
  <2> HIDE DEF n
  <2>2. QED
    BY <1>1, <2>1 DEF PlaceTensors, Take, Goto, Types, Places, IInv, Alone, contexts, opening
<1>4. ready /\ once = "done"
  <2>1. model[t].accel
    BY <1>3, Before DEF ModelSound
  <2>2. QED
    BY <2>1 DEF IInv, AcceleratorSound
<1> HIDE DEF n
<1>5. ThreadSound(t)'
  <2>1. HoldsSound(pc'[t], model'[t], held'[t], tracked'[t])
    <3>1. held[t] = ForModel(model[t]) /\ tracked[t] = ByFrame(model[t])
      BY <1>3, Before DEF HoldsSound
    <3>2. QED
      BY <1>1, <1>2, <1>3, <3>1 DEF HoldsSound
  <2>2. ModelSound(pc'[t], model'[t])
    BY Zenon, <1>1, <1>3
  <2>3. ContextSound(pc[t], context[t], previous[t], entered[t])'
    BY <1>3, Before DEF ContextSound, Alone
  <2>4. QED
    BY <2>1, <2>2, <2>3 DEF ThreadSound
<1>6. AcceleratorSound'
  BY <1>1, <1>3, <1>4 DEF IInv, AcceleratorSound, Alone
<1>7. QED
  BY <1>3, <1>5, <1>6, Advance

LEMMA EmbeddingPlaced ==
  ASSUME IInv, NEW t \in Threads, PlaceEmbedding(t), pc'[t] # "exact"
  PROVE  IInv'
<1>0. /\ pc[t] = "embedding" /\ Goto(t, "filled")
      /\ held' = [held EXCEPT ![t] = @ \cup {Embedding}]
      /\ Keep(t, [model[t] EXCEPT !.embedding = TRUE])
      /\ UNCHANGED <<opening, contexts, tracked, twice>>
  <2>1. Goto(t, "exact") => pc'[t] = "exact"
    BY DEF Goto, IInv, Types
  <2>2. QED
    BY Zenon, <2>1 DEF PlaceEmbedding
<1> DEFINE n == [model[t] EXCEPT !.embedding = TRUE]
<1>1. /\ n \in Models /\ ForModel(n) = ForModel(model[t]) \cup {Embedding}
      /\ ByFrame(n) = ByFrame(model[t])
      /\ ModelSound("filled", n) /\ n.nvfp4 = model[t].nvfp4 /\ n.accel
  <2>1. model[t] \in Models /\ ModelSound("embedding", model[t])
    BY Before DEF PlaceEmbedding
  <2>2. QED
    BY <2>1, WithEmbedding
<1>2. held'[t] = held[t] \cup {Embedding} /\ tracked'[t] = tracked[t]
  BY <1>0 DEF IInv, Types
<1>3. /\ pc[t] = "embedding" /\ pc'[t] = "filled" /\ model'[t] = n
      /\ Alone(t) /\ Types' /\ ~twice' /\ UNCHANGED <<once, opener, attempt, ready>>
      /\ context'[t] = context[t] /\ previous'[t] = previous[t] /\ entered'[t] = entered[t]
  <2>1. model' = [model EXCEPT ![t] = n]
    BY Zenon, <1>0 DEF Keep
  <2> HIDE DEF n
  <2>2. QED
    BY <1>0, <1>1, <2>1 DEF Goto, Types, Places, IInv, Alone, contexts, opening
<1>4. ready /\ once = "done"
  <2>1. model[t].accel
    BY <1>3, Before DEF ModelSound
  <2>2. QED
    BY <2>1 DEF IInv, AcceleratorSound
<1> HIDE DEF n
<1>5. ThreadSound(t)'
  <2>1. HoldsSound(pc'[t], model'[t], held'[t], tracked'[t])
    <3>1. held[t] = ForModel(model[t]) /\ tracked[t] = ByFrame(model[t])
      BY <1>3, Before DEF HoldsSound
    <3>2. QED
      BY <1>1, <1>2, <1>3, <3>1 DEF HoldsSound
  <2>2. ModelSound(pc'[t], model'[t])
    BY Zenon, <1>1, <1>3
  <2>3. ContextSound(pc[t], context[t], previous[t], entered[t])'
    BY <1>3, Before DEF ContextSound, Alone
  <2>4. QED
    BY <2>1, <2>2, <2>3 DEF ThreadSound
<1>6. AcceleratorSound'
  BY <1>1, <1>3, <1>4 DEF IInv, AcceleratorSound, Alone
<1>7. QED
  BY <1>3, <1>5, <1>6, Advance

(* A model that is on the accelerator, and stays as it is. *)
LEMMA StaysPlaced ==
  ASSUME IInv, NEW t \in Threads, pc[t] \in {"embedding", "filled"}, pc'[t] = "exact",
         Alone(t), Types', ~twice', UNCHANGED <<once, opener, attempt, ready>>,
         model'[t] = model[t], held'[t] = held[t], tracked'[t] = tracked[t],
         context'[t] = context[t], previous'[t] = previous[t], entered'[t] = entered[t]
  PROVE  IInv'
<1>1. ThreadSound(t)'
  <2>1. HoldsSound(pc'[t], model'[t], held'[t], tracked'[t])
    BY Before DEF HoldsSound
  <2>2. ModelSound(pc'[t], model'[t])
    BY Before DEF ModelSound
  <2>3. ContextSound(pc[t], context[t], previous[t], entered[t])'
    BY Before DEF ContextSound, Alone
  <2>4. QED
    BY <2>1, <2>2, <2>3 DEF ThreadSound
<1>2. AcceleratorSound'
  <2>1. model[t].accel
    BY Before DEF ModelSound
  <2>2. QED
    BY <2>1 DEF IInv, AcceleratorSound, Alone
<1>3. QED
  BY <1>1, <1>2, Advance

LEMMA PlaceEmbeddingSound == ASSUME IInv, NEW t \in Threads, PlaceEmbedding(t) PROVE IInv'
<1>1. CASE pc'[t] = "exact"
  <2>1. /\ pc[t] = "embedding" /\ UNCHANGED <<held, model>>
    BY <1>1 DEF PlaceEmbedding, Goto, IInv, Types
  <2>2. /\ Alone(t) /\ Types' /\ ~twice' /\ UNCHANGED <<once, opener, attempt, ready>>
        /\ model'[t] = model[t] /\ held'[t] = held[t] /\ tracked'[t] = tracked[t]
        /\ context'[t] = context[t] /\ previous'[t] = previous[t] /\ entered'[t] = entered[t]
    BY <1>1, <2>1 DEF PlaceEmbedding, Goto, Types, Places, IInv, Alone, contexts, opening
  <2>3. QED
    BY <1>1, <2>1, <2>2, StaysPlaced
<1>2. CASE pc'[t] # "exact"
  BY <1>2, EmbeddingPlaced
<1>3. QED
  BY <1>1, <1>2

LEMMA FillEmbeddingSound == ASSUME IInv, NEW t \in Threads, FillEmbedding(t) PROVE IInv'
<1>1. /\ pc[t] = "filled" /\ pc'[t] = "exact"
      /\ Alone(t) /\ Types' /\ ~twice' /\ UNCHANGED <<once, opener, attempt, ready>>
      /\ model'[t] = model[t] /\ held'[t] = held[t] /\ tracked'[t] = tracked[t]
      /\ context'[t] = context[t] /\ previous'[t] = previous[t] /\ entered'[t] = entered[t]
  BY DEF FillEmbedding, Goto, Types, Places, IInv, Alone, contexts, opening
<1>2. QED
  BY <1>1, StaysPlaced

(* A thread that restores the application's context has it. *)
LEMMA ContextLeft ==
  ASSUME IInv, NEW t \in Threads, pc[t] \notin {"compile", "kernels"}, context' = Left(t)
  PROVE  ~faulted => context'[t] = Own
BY Before DEF Left, ContextSound, IInv, Types

LEMMA ReturnSound == ASSUME IInv, NEW t \in Threads, Return(t) PROVE IInv'
<1> DEFINE B == IF Exact /\ ~model[t].accel THEN {Block("exact")} ELSE {}
           n == [model[t] EXCEPT !.blocks = @ \cup B]
<1>1. /\ n \in Models /\ ForModel(n) = ForModel(model[t]) \cup B
      /\ ModelSound("loaded", model[t]) => ModelSound("loaded", n)
      /\ n.nvfp4 = model[t].nvfp4 /\ n.accel = model[t].accel
  <2>1. model[t] \in Models
    BY Before
  <2>2. B \in SUBSET (LoadBlocks \cup {Block("exact")})
    OBVIOUS
  <2>3. Block("exact") \in B => "loaded" = "loaded" /\ ~model[t].accel
    OBVIOUS
  <2> HIDE DEF B
  <2>4. QED
    BY Zenon, <2>1, <2>2, <2>3, MoreBlocks
<1>2. held'[t] = held[t] \cup B /\ tracked'[t] = {}
  BY DEF Return, IInv, Types
<1>3. /\ pc[t] = "exact" /\ pc'[t] = "loaded" /\ model'[t] = n
      /\ Alone(t) /\ Types' /\ ~twice' /\ UNCHANGED <<once, opener, attempt, ready>>
      /\ context' = Left(t) /\ previous'[t] = previous[t] /\ entered'[t] = FALSE
  <2>1. model' = [model EXCEPT ![t] = n]
    BY Zenon DEF Return, Keep
  <2> HIDE DEF n
  <2>2. QED
    BY <1>1, <2>1 DEF Return, Left, Goto, Types, Places, IInv, Alone, opening
<1> HIDE DEF n, B
<1>4. ThreadSound(t)'
  <2>1. HoldsSound(pc'[t], model'[t], held'[t], tracked'[t])
    <3>1. held[t] = ForModel(model[t])
      BY <1>3, Before DEF HoldsSound
    <3>2. QED
      BY <1>1, <1>2, <1>3, <3>1 DEF HoldsSound
  <2>2. ModelSound(pc'[t], model'[t])
    <3>1. ModelSound("loaded", model[t])
      BY <1>3, Before DEF ModelSound
    <3>2. QED
      BY Zenon, <1>1, <1>3, <3>1
  <2>3. ContextSound(pc[t], context[t], previous[t], entered[t])'
    BY <1>3, ContextLeft DEF ContextSound, Alone
  <2>4. QED
    BY <2>1, <2>2, <2>3 DEF ThreadSound
<1>5. AcceleratorSound'
  BY <1>1, <1>3 DEF IInv, AcceleratorSound, Alone
<1>6. QED
  BY <1>3, <1>4, <1>5, Advance

(* A thread that has given everything back is at rest. *)
LEMMA AtRest ==
  ASSUME IInv, NEW t \in Threads, NEW released,
         released \subseteq held[t], held[t] \ (released \cup tracked[t]) = {},
         GiveBack(t, released), opening' = opening, previous' = previous,
         \A u \in Threads : u # t => context'[u] = context[u] /\ entered'[u] = entered[u],
         ~faulted => context'[t] = Own, entered'[t] = FALSE,
         context' = [u \in Threads |-> context'[u]], entered' \in [Threads -> BOOLEAN]
  PROVE  IInv'
<1>1. Empty \in Models /\ ModelSound("rest", Empty) /\ ~Empty.accel
  BY NoModel
<1>2. held'[t] = {} /\ tracked'[t] = {} /\ ~twice'
  BY DEF GiveBack, IInv, Types
<1>3. /\ pc'[t] = "rest" /\ model'[t] = Empty /\ Alone(t) /\ Types'
      /\ UNCHANGED <<once, opener, attempt, ready>>
  BY <1>1 DEF GiveBack, Keep, Goto, IInv, Types, Places, Alone, opening
<1>4. ThreadSound(t)'
  <2>1. HoldsSound(pc'[t], model'[t], held'[t], tracked'[t])
    BY <1>2, <1>3 DEF HoldsSound
  <2>2. ModelSound(pc'[t], model'[t])
    BY Zenon, <1>1, <1>3
  <2>3. ContextSound(pc[t], context[t], previous[t], entered[t])'
    BY <1>3 DEF ContextSound, Alone
  <2>4. QED
    BY <2>1, <2>2, <2>3 DEF ThreadSound
<1>5. AcceleratorSound'
  BY <1>1, <1>3 DEF IInv, AcceleratorSound, Alone
<1>6. QED
  BY <1>2, <1>3, <1>4, <1>5, Advance

LEMMA FailSound == ASSUME IInv, NEW t \in Threads, Fail(t) PROVE IInv'
<1>1. pc[t] \notin {"rest", "loaded", "compile", "kernels"}
  BY DEF Fail, CanFail
<1>2. /\ model[t] \in Models
      /\ held[t] = ForModel(model[t]) /\ tracked[t] = ByFrame(model[t])
  BY <1>1, Before DEF HoldsSound
<1>3. /\ Abandon(t) \subseteq held[t] /\ held[t] \ (Abandon(t) \cup tracked[t]) = {}
  BY <1>2, AllReleased DEF Abandon
<1>4. ~faulted => context'[t] = Own
  BY <1>1, ContextLeft DEF Fail
<1>5. /\ GiveBack(t, Abandon(t)) /\ opening' = opening /\ previous' = previous
      /\ \A u \in Threads : u # t => context'[u] = context[u] /\ entered'[u] = entered[u]
      /\ entered'[t] = FALSE /\ entered' \in [Threads -> BOOLEAN]
      /\ context' = [u \in Threads |-> context'[u]]
  BY DEF Fail, Left, IInv, Types
<1>6. QED
  BY <1>3, <1>4, <1>5, AtRest

LEMMA DestroySound == ASSUME IInv, NEW t \in Threads, Destroy(t) PROVE IInv'
<1> DEFINE released == OfAccel(model[t]) \cup OfShards(model[t]) \cup model[t].blocks
                         \cup {Block("model")}
<1>1. pc[t] = "loaded"
  BY DEF Destroy
<1>2. held[t] = ForModel(model[t]) /\ tracked[t] = {}
  BY <1>1, Before DEF HoldsSound
<1>3. released \subseteq held[t] /\ held[t] \ (released \cup tracked[t]) = {}
  BY <1>2 DEF ForModel
<1>4. /\ GiveBack(t, released) /\ opening' = opening /\ previous' = previous
      /\ context' = context /\ entered' = entered
  BY DEF Destroy, contexts
<1>5. (~faulted => context[t] = Own) /\ entered[t] = FALSE
  BY <1>1, Before DEF ContextSound
<1>6. context = [u \in Threads |-> context[u]] /\ entered \in [Threads -> BOOLEAN]
  BY DEF IInv, Types
<1> HIDE DEF released
<1>7. QED
  BY <1>3, <1>4, <1>5, <1>6, AtRest

LEMMA FaultSound == ASSUME IInv, Fault PROVE IInv'
<1>1. /\ Types' /\ ~twice' /\ faulted' = TRUE
      /\ UNCHANGED <<once, opener, attempt, ready, context, previous, entered, model, held,
                     tracked, pc>>
  BY DEF Fault, IInv, Types, contexts
<1>2. ASSUME NEW t \in Threads PROVE ThreadSound(t)'
  BY <1>1, Before DEF ThreadSound, ContextSound
<1>3. AcceleratorSound'
  BY <1>1 DEF IInv, AcceleratorSound
<1>4. QED
  BY <1>1, <1>2, <1>3 DEF IInv

LEMMA InitSound == Init => IInv
<1>1. SUFFICES ASSUME Init PROVE IInv
  OBVIOUS
<1>2. Empty \in Models /\ ModelSound("rest", Empty) /\ ~Empty.accel
  BY NoModel
<1>3. Types /\ ~twice
  BY <1>1, <1>2 DEF Init, Types, Places
<1>4. ASSUME NEW t \in Threads PROVE ThreadSound(t)
  <2>1. /\ pc[t] = "rest" /\ model[t] = Empty /\ held[t] = {} /\ tracked[t] = {}
        /\ context[t] = Own /\ entered[t] = FALSE
    BY <1>1 DEF Init
  <2>2. HoldsSound(pc[t], model[t], held[t], tracked[t])
    BY <2>1 DEF HoldsSound
  <2>3. ModelSound(pc[t], model[t])
    BY Zenon, <1>2, <2>1
  <2>4. ContextSound(pc[t], context[t], previous[t], entered[t])
    BY <2>1 DEF ContextSound
  <2>5. QED
    BY <2>2, <2>3, <2>4 DEF ThreadSound
<1>5. AcceleratorSound
  BY <1>1, <1>2 DEF Init, AcceleratorSound
<1>6. QED
  BY <1>3, <1>4, <1>5 DEF IInv

LEMMA NextSound == ASSUME IInv, [Next]_vars PROVE IInv'
<1>1. ASSUME NEW t \in Threads, Step(t) PROVE IInv'
  BY <1>1, MapShardSound, ParseShardSound, ValidateSound, LoadTokenizerSound, AwaitAccelSound,
     OpenNothingSound, OpenSound, CompileSound, FindKernelsSound, CompileFailsSound, EnterSound,
     AllocateSound, StayOnCPUSound, PlaceSound, PlaceTensorsSound, PlaceEmbeddingSound,
     FillEmbeddingSound, ReturnSound, FailSound DEF Step
<1>2. CASE UNCHANGED vars
  <2>1. ASSUME NEW t \in Threads PROVE ThreadSound(t)'
    BY <1>2, Before DEF vars, ThreadSound, ContextSound
  <2>2. QED
    BY <1>2, <2>1 DEF vars, IInv, Types, AcceleratorSound
<1>3. QED
  BY <1>1, <1>2, LoadSound, DestroySound, FaultSound DEF Next

(* However many threads load and destroy models, what each holds, where its  *)
(* context is and how far the accelerator is opened agree at every step.     *)
THEOREM LoadInvariant == Spec => []IInv
  BY InitSound, NextSound, PTL DEF Spec

-----------------------------------------------------------------------------
(* Something a model holds that is not on the accelerator is not the device's. *)
LEMMA NotOfDevice ==
  ASSUME NEW m \in Models, ~m.accel
  PROVE  Device(ForModel(m)) = {}
<1>1. OfAccel(m) = {}
  BY DEF OfAccel
<1>2. ASSUME NEW r \in m.blocks \cup {Block("model")}
      PROVE  r[1] \in {"model", "tensors", "experts", "tokenizer", "names", "exact"}
  BY <1>2 DEF Models, LoadBlocks, Block, Names
<1>3. ASSUME NEW r \in OfShards(m) PROVE r[1] \in {"mapping", "shard"}
  BY <1>3 DEF OfShards, Mapping, Shard
<1>4. ASSUME NEW r \in ForModel(m)
      PROVE  r \notin {Weights, Embedding} /\ r[1] # "handle"
  <2>1. r[1] \in {"model", "tensors", "experts", "tokenizer", "names", "exact", "mapping", "shard"}
    BY <1>1, <1>2, <1>3 DEF ForModel
  <2>2. Weights[1] = "weights" /\ Embedding[1] = "embedding"
    BY DEF Weights, Embedding
  <2>3. QED
    BY <2>1, <2>2
<1>5. QED
  BY <1>4 DEF Device

LEMMA InvGivesBack == IInv => LoadGivesBack
<1>1. SUFFICES ASSUME IInv PROVE LoadGivesBack
  OBVIOUS
<1>2. ASSUME NEW t \in Threads
      PROVE  /\ pc[t] = "rest" => held[t] = {} /\ tracked[t] = {}
             /\ pc[t] = "loaded" =>
                  held[t] = OfAccel(model[t]) \cup OfShards(model[t]) \cup model[t].blocks
                            \cup {Block("model")}
             /\ ~Busy(t) /\ ~faulted => context[t] = Own
  <2>1. pc[t] = "rest" => held[t] = {} /\ tracked[t] = {}
    BY <1>1, Before DEF HoldsSound
  <2>2. pc[t] = "loaded" => held[t] = ForModel(model[t])
    BY <1>1, Before DEF HoldsSound
  <2>3. ~Busy(t) /\ ~faulted => context[t] = Own
    BY <1>1, Before DEF ContextSound, Busy
  <2>4. ForModel(model[t]) = OfAccel(model[t]) \cup OfShards(model[t]) \cup model[t].blocks
                               \cup {Block("model")}
    BY DEF ForModel
  <2>5. QED
    BY Zenon, <2>1, <2>2, <2>3, <2>4
<1>3. QED
  BY <1>1, <1>2 DEF IInv, LoadGivesBack

LEMMA InvWhole == IInv => AcceleratorIsWhole
<1>1. SUFFICES ASSUME IInv PROVE AcceleratorIsWhole
  OBVIOUS
<1>2. ASSUME NEW t \in Threads
      PROVE  /\ model[t].accel => ready /\ once = "done" /\ attempt = "found"
             /\ pc[t] = "loaded" =>
                  IF model[t].accel
                  THEN /\ model[t].weights /\ model[t].placed /\ model[t].handles = Matrices
                       /\ Block("exact") \notin model[t].blocks
                  ELSE Device(held[t]) = {}
             /\ pc[t] \in {"compile", "kernels"} => opener = t
  <2>1. /\ model[t].accel => ready /\ once = "done" /\ attempt = "found"
        /\ pc[t] \in {"compile", "kernels"} => opener = t
    BY <1>1 DEF IInv, AcceleratorSound
  <2>2. pc[t] = "loaded" /\ model[t].accel =>
          /\ model[t].weights /\ model[t].placed /\ model[t].handles = Matrices
          /\ Block("exact") \notin model[t].blocks
    BY <1>1, Before DEF ModelSound
  <2>3. pc[t] = "loaded" /\ ~model[t].accel => Device(held[t]) = {}
    <3>1. pc[t] = "loaded" => held[t] = ForModel(model[t])
      BY <1>1, Before DEF HoldsSound
    <3>2. model[t] \in Models
      BY <1>1, Before
    <3>3. QED
      BY Zenon, <3>1, <3>2, NotOfDevice
  <2>4. QED
    BY <2>1, <2>2, <2>3
<1>3. QED
  BY <1>2 DEF AcceleratorIsWhole

-----------------------------------------------------------------------------
(* A step of the process is a step of its loads, or leaves them alone. *)
LEMMA LoadStepOrStutter == [StartupNext]_all => [Next]_vars
<1>1. ASSUME Faults PROVE Next
  BY <1>1 DEF Faults, Next
<1>2. ASSUME NEW t \in Threads, Loading(t) PROVE Next
  BY <1>2 DEF Loading, Next
<1>3. ASSUME NEW t \in Threads, Formatting(t) PROVE UNCHANGED vars
  BY <1>3 DEF Formatting
<1>4. ASSUME UNCHANGED all PROVE UNCHANGED vars
  BY <1>4 DEF all
<1> QED
  BY <1>1, <1>2, <1>3, <1>4 DEF StartupNext

(* The process loads models as ModelLoad specifies it. *)
THEOREM StartupLoads == StartupSpec => Spec
<1>1. StartupInit => Init
  BY DEF StartupInit
<1> QED
  BY <1>1, LoadStepOrStutter, PTL DEF StartupSpec, Spec

(* Wherever a load fails, on whichever thread, it keeps nothing, and what a   *)
(* model holds is given back once: jb_model_load_cleanup, src/api.inc:97, and *)
(* jb_model_release.                                                         *)
THEOREM EveryLoadGivesBack == StartupSpec => []LoadGivesBack
  BY StartupLoads, LoadInvariant, InvGivesBack, PTL

(* For any threads, shards and matrices a model is on the accelerator whole   *)
(* or not at all: dg_upload_model, src/model.inc:539.                         *)
THEOREM AcceleratorAlwaysWhole == StartupSpec => []AcceleratorIsWhole
  BY StartupLoads, LoadInvariant, InvWhole, PTL
=============================================================================
