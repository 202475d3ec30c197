-------------------------- MODULE Workspace_proofs --------------------------
(***************************************************************************)
(* The storage of a session, proved: for every model's widths and every     *)
(* call, what is planned is what is taken, every block has one owner, and    *)
(* device memory is what the session remembers of it.                        *)
(*                                                                           *)
(* Plans are folds over arrays, so most of this is arithmetic: arrays laid   *)
(* one after another (LaidRuns to PlannedShift), the attention and           *)
(* feed-forward plans against what a layer takes (FeedForwardExact,          *)
(* AttentionFits), a pass's peak (LayerPeak) and the shapes callers ask for. *)
(* The invariant follows, one part at a time: Types, HostSound, DeviceSound  *)
(* with DeviceHolds, and PlansSound, each kept by every action.              *)
(***************************************************************************)
EXTENDS Workspace, FoldLemmas

-----------------------------------------------------------------------------
Memory == [block : Nat, bytes : Nat]
Entry == [n : Nat, meta : Nat, kv : Nat]
Region == [block : Nat, capacity : Nat, size : Nat, used : Nat, peak : Nat]

(* A pass whose tables are those of its canvases, whose longest cache is the *)
(* one it is planned for, and whose uploads have room.                      *)
Shape ==
  [n : Nat, old : Nat, seq : Nat, segments : Nat, batch : Nat, wrapper : BOOLEAN,
   tail : Nat, cached : SUBSET Nat, rows : Nat, uploads : Nat]

ShapeSound(p) ==
  /\ p.cached # {} /\ Max(p.cached) = p.old
  /\ p.batch > 1 <=> p.wrapper /\ p.segments > 1
  /\ p.batch > 1 => p.batch = p.segments
  /\ p.uploads <= p.rows

Passing == {"begin", "activations", "pinned", "embed", "layers", "score", "end"}
Filling == {"lookup", "metadata", "prefix", "reads"}

Building == at = "prefix" \/ (at \in Passing /\ pass.then = "prefix")

Stored ==
  /\ model \in Models /\ arena \in [Arenas -> Region] /\ active \subseteq Arenas
  /\ memory \in [Memories -> Memory]
  /\ prefix \in Entry \cup {None}

Going ==
  /\ IF Building THEN fresh \in Entry /\ prefix = None ELSE fresh = None
  /\ layer \in Nat /\ read \in Nat
  /\ at \in {"idle", "freed", "control", "kv", "unwind"} \cup Filling \cup Passing
  /\ at \notin {"idle", "freed"} => call \in Calls
  /\ at \in {"control", "unwind"} => Len(call.lens) > 1
  /\ at \in {"control", "kv"} /\ Len(call.lens) > 1 =>
       prefix # None /\ \A i \in DOMAIN call.lens : call.lens[i] > prefix.n
  /\ at \in {"metadata", "prefix"} => prefix = None
  /\ at \in Passing =>
       /\ pass \in [shape : Shape, reads : Nat, then : {"reads", "prefix"}]
       /\ ShapeSound(pass.shape)
  /\ at = "score" => pass.reads > 0

Types == Stored /\ Going

-----------------------------------------------------------------------------
Blocks == {arena[a].block : a \in Arenas} \ {0}

(* Every block of host memory has one owner. *)
HostSound ==
  /\ IsFiniteSet(DOMAIN host) /\ DOMAIN host \subseteq Nat \ {0}
  /\ DOMAIN host = Blocks \cup PrefixBlocks(prefix) \cup tracked
  /\ \A a \in Arenas : arena[a].block # 0 => host[arena[a].block] = arena[a].capacity
  /\ \A a, b \in Arenas : arena[a].block = arena[b].block /\ arena[a].block # 0 => a = b
  /\ Blocks \cap PrefixBlocks(prefix) = {} /\ Blocks \cap tracked = {}
  /\ PrefixBlocks(prefix) \cap tracked = {}
  /\ tracked = IF fresh = None THEN {} ELSE {fresh.meta}
  /\ at = "freed" => host = <<>>

-----------------------------------------------------------------------------
Live == {m \in Memories : memory[m].bytes # 0}

(* Every block of device memory is the session's, and is as large as it says. *)
DeviceOwned ==
  /\ IsFiniteSet(DOMAIN gpu) /\ DOMAIN gpu \subseteq Nat \ {0}
  /\ DOMAIN gpu = {memory[m].block : m \in Live}
  /\ \A m \in Memories : IF m \in Live THEN gpu[memory[m].block] = memory[m].bytes
                         ELSE memory[m].block = 0
  /\ \A m, k \in Live : memory[m].block = memory[k].block => m = k

DeviceSound == DeviceOwned /\ (at = "freed" => gpu = <<>>)

(* A pass has the memory it has got past asking for. *)
Asked ==
  CASE at = "pinned" -> {"activations"}
    [] Accel /\ at \in {"embed", "layers", "score", "end"} -> {"activations", "pinned"}
    [] OTHER -> {}

DeviceHolds == \A m \in Asked : memory[m].bytes >= DeviceBytesOf(m)

-----------------------------------------------------------------------------
(* An arena with all that was planned taken from it, and no more. *)
Full(name) ==
  /\ arena[name].used = arena[name].size
  /\ arena[name].peak = arena[name].size

Base(p) == p.n * H * Float32

PassSound ==
  LET p == pass.shape
      a == arena["pass"]
      most == Base(p) + LayerBytes(p)
  IN  /\ at \in {"activations", "pinned", "embed"} => a.used = 0 /\ a.peak = 0
      /\ at \in {"activations", "pinned", "embed", "layers", "score", "end"} =>
           a.size = Base(p) + Larger(LayerBytes(p), p.tail)
      /\ at = "layers" => /\ a.used = Base(p) /\ layer < Layers
                          /\ Base(p) <= a.peak /\ a.peak <= most
                          /\ (\E l \in 0..(layer - 1) : IsFull(l)) => a.peak = most
      /\ at = "score" => a.used = Base(p) /\ a.peak \in {most, a.size}
      /\ at = "end" => a.peak = a.size

(* The reads of a pass are scored alike, and their scores planned for. *)
ReadsSound ==
  at \in Passing \ {"end"} =>
    /\ pass.shape.tail = IF pass.reads = 0 THEN 0 ELSE ScoreBytes(read)
    /\ pass.reads > 1 => ~Decides(read)

PlansSound ==
  /\ ~internal
  /\ at \in Filling \cup Passing => Full("kv")
  /\ at \in Filling \cup Passing \cup {"kv", "unwind"} /\ Len(call.lens) > 1 => Full("control")
  /\ at \in Passing => PassSound
  /\ ReadsSound

(* The inductive invariant. *)
IInv == Types /\ HostSound /\ DeviceSound /\ DeviceHolds /\ PlansSound
-----------------------------------------------------------------------------
(* Planning an arena. *)

Alignments == {16, 64, 256}

LEMMA Aligned ==
  ASSUME NEW n \in Nat, NEW alignment \in Alignments
  PROVE  AlignUp(n, alignment) \in Nat /\ n <= AlignUp(n, alignment)
<1>1. CASE alignment = 16
  BY <1>1 DEF AlignUp
<1>2. CASE alignment = 64
  BY <1>2 DEF AlignUp
<1>3. CASE alignment = 256
  BY <1>3 DEF AlignUp
<1>4. QED
  BY <1>1, <1>2, <1>3 DEF Alignments

(* Arrays are laid out one end after another. *)
Ends(r, used, s, n, alignment) ==
  /\ r \in [0..n -> Nat] /\ r[0] = used
  /\ \A k \in 1..n : r[k] = AlignUp(r[k - 1], alignment) + s[k]
  /\ Laid(used, s, alignment) = r[n]

LEMMA LaidRuns ==
  ASSUME NEW used \in Nat, NEW n \in Nat, NEW s \in [1..n -> Nat], NEW alignment \in Alignments
  PROVE  \E r : Ends(r, used, s, n, alignment)
<1> DEFINE f == [i \in 1..n |-> [end \in Nat |-> AlignUp(end, alignment) + s[i]]]
           G(g) == g = [t \in SUBSET DOMAIN s |->
                          IF t = {} THEN used
                          ELSE AlignUp(g[t \ {Max(t)}], alignment) + s[Max(t)]]
           g == CHOOSE g : G(g)
<1>1. DOMAIN s = 1..n /\ \A i \in 1..n : s[i] \in Nat
  OBVIOUS
<1>2. f \in [1..n -> [Nat -> Nat]]
  <2>1. ASSUME NEW i \in 1..n, NEW end \in Nat PROVE AlignUp(end, alignment) + s[i] \in Nat
    <3>1. AlignUp(end, alignment) \in Nat /\ s[i] \in Nat
      BY Zenon, <1>1, Aligned
    <3>2. QED
      BY <3>1
  <2>2. QED
    BY Zenon, <2>1
<1>3. \A i \in 1..n : \A end \in Nat : f[i][end] = AlignUp(end, alignment) + s[i]
  OBVIOUS
<1> HIDE DEF f
<1>4. \E h : G(h)
  <2>1. PICK h \in [SUBSET (1..n) -> Nat] : FoldsBy(h, f, used, n)
    BY <1>2, FoldExists
  <2>2. ASSUME NEW t \in SUBSET (1..n)
        PROVE  h[t] = IF t = {} THEN used
                      ELSE AlignUp(h[t \ {Max(t)}], alignment) + s[Max(t)]
    <3>1. CASE t = {}
      BY <2>1, <3>1 DEF FoldsBy
    <3>2. CASE t # {}
      <4>1. Max(t) \in t /\ t \ {Max(t)} \in SUBSET (1..n)
        BY Zenon, <3>2, MaxIn
      <4>2. Max(t) \in 1..n /\ h[t \ {Max(t)}] \in Nat
        BY <2>1, <4>1
      <4>3. h[t] = f[Max(t)][h[t \ {Max(t)}]]
        BY <2>1, <3>2 DEF FoldsBy
      <4>4. QED
        BY Zenon, <1>3, <3>2, <4>2, <4>3
    <3>3. QED
      BY <3>1, <3>2
  <2>3. G(h)
    BY <1>1, <2>2
  <2>4. QED
    BY <2>3
<1>5. G(g)
  BY <1>4
<1>6. Laid(used, s, alignment) = g[DOMAIN s]
  BY DEF Laid, FoldLeft, MapThenFoldSet
<1> HIDE DEF g
<1>7. \A t \in SUBSET DOMAIN s :
         g[t] = IF t = {} THEN used ELSE AlignUp(g[t \ {Max(t)}], alignment) + s[Max(t)]
  BY Zenon, <1>5
<1> HIDE DEF G
<1>8. g[1..0] = used
  <2>1. 1..0 = {} /\ {} \in SUBSET DOMAIN s
    OBVIOUS
  <2>2. QED
    BY Zenon, <1>7, <2>1
<1>9. ASSUME NEW k \in 1..n, g[1..(k - 1)] \in Nat PROVE g[1..k] = f[k][g[1..(k - 1)]]
  <2>1. Max(1..k) = k /\ (1..k) \ {k} = 1..(k - 1) /\ 1..k # {}
    <3>1. k \in Nat \ {0}
      OBVIOUS
    <3>2. QED
      BY Zenon, <3>1, MaxOfRange
  <2>2. 1..k \in SUBSET DOMAIN s
    BY <1>1
  <2>3. g[1..k] = AlignUp(g[(1..k) \ {Max(1..k)}], alignment) + s[Max(1..k)]
    BY Zenon, <1>7, <2>1, <2>2
  <2>4. f[k][g[1..(k - 1)]] = AlignUp(g[1..(k - 1)], alignment) + s[k]
    BY Zenon, <1>3, <1>9
  <2>5. QED
    BY Zenon, <2>1, <2>3, <2>4
<1> HIDE DEF Laid
<1>10. \A k \in 1..n : g[1..(k - 1)] \in Nat => g[1..k] = f[k][g[1..(k - 1)]]
  BY Zenon, <1>9
<1>11. PICK r : r \in [0..n -> Nat] /\ Runs(r, f, used, n) /\ r[n] = g[1..n]
  <2>1. GoesOn(g, f, used, n, Nat)
    BY Zenon, <1>8, <1>10 DEF GoesOn
  <2>2. f \in Turns(n, Nat)
    BY Zenon, <1>2 DEF Turns
  <2>3. PICK r : RunsTo(r, f, used, n, Nat, g[1..n])
    BY Zenon, <2>1, <2>2, FoldRuns
  <2>4. QED
    BY Zenon, <2>3 DEF RunsTo
<1>12. r[0] = used /\ \A k \in 1..n : r[k] = f[k][r[k - 1]]
  BY Zenon, <1>11 DEF Runs
<1>13. \A k \in 1..n : r[k] = AlignUp(r[k - 1], alignment) + s[k]
  <2>1. ASSUME NEW k \in 1..n PROVE r[k] = AlignUp(r[k - 1], alignment) + s[k]
    <3>1. k - 1 \in 0..n
      OBVIOUS
    <3>2. r[k - 1] \in Nat
      BY Zenon, <1>11, <3>1
    <3>3. QED
      BY Zenon, <1>3, <1>12, <3>2
  <2>2. QED
    BY Zenon, <2>1
<1>14. Laid(used, s, alignment) = r[n]
  BY Zenon, <1>1, <1>6, <1>11
<1>15. QED
  BY Zenon, <1>11, <1>12, <1>13, <1>14 DEF Ends
(* A sum goes through the sums of the first so many. *)
Adds(r, s, n) ==
  /\ r \in [0..n -> Nat] /\ r[0] = 0
  /\ \A k \in 1..n : r[k] = r[k - 1] + s[k]
  /\ Sum(s) = r[n]

LEMMA SumRuns ==
  ASSUME NEW n \in Nat, NEW s \in [1..n -> Nat]
  PROVE  \E r : Adds(r, s, n)
<1> DEFINE f == [i \in 1..n |-> [end \in Nat |-> end + s[i]]]
           G(g) == g = [t \in SUBSET DOMAIN s |->
                          IF t = {} THEN 0
                          ELSE g[t \ {Max(t)}] + s[Max(t)]]
           g == CHOOSE g : G(g)
<1>1. DOMAIN s = 1..n /\ \A i \in 1..n : s[i] \in Nat
  OBVIOUS
<1>2. f \in [1..n -> [Nat -> Nat]]
  <2>1. ASSUME NEW i \in 1..n, NEW end \in Nat PROVE end + s[i] \in Nat
    BY <1>1
  <2>2. QED
    BY Zenon, <2>1
<1>3. \A i \in 1..n : \A end \in Nat : f[i][end] = end + s[i]
  OBVIOUS
<1> HIDE DEF f
<1>4. \E h : G(h)
  <2>1. PICK h \in [SUBSET (1..n) -> Nat] : FoldsBy(h, f, 0, n)
    BY <1>2, FoldExists
  <2>2. ASSUME NEW t \in SUBSET (1..n)
        PROVE  h[t] = IF t = {} THEN 0
                      ELSE h[t \ {Max(t)}] + s[Max(t)]
    <3>1. CASE t = {}
      BY <2>1, <3>1 DEF FoldsBy
    <3>2. CASE t # {}
      <4>1. Max(t) \in t /\ t \ {Max(t)} \in SUBSET (1..n)
        BY Zenon, <3>2, MaxIn
      <4>2. Max(t) \in 1..n /\ h[t \ {Max(t)}] \in Nat
        BY <2>1, <4>1
      <4>3. h[t] = f[Max(t)][h[t \ {Max(t)}]]
        BY <2>1, <3>2 DEF FoldsBy
      <4>4. QED
        BY Zenon, <1>3, <3>2, <4>2, <4>3
    <3>3. QED
      BY <3>1, <3>2
  <2>3. G(h)
    BY <1>1, <2>2
  <2>4. QED
    BY <2>3
<1>5. G(g)
  BY <1>4
<1>6. Sum(s) = g[DOMAIN s]
  BY DEF Sum, FoldLeft, MapThenFoldSet
<1> HIDE DEF g
<1>7. \A t \in SUBSET DOMAIN s :
         g[t] = IF t = {} THEN 0 ELSE g[t \ {Max(t)}] + s[Max(t)]
  BY Zenon, <1>5
<1> HIDE DEF G
<1>8. g[1..0] = 0
  <2>1. 1..0 = {} /\ {} \in SUBSET DOMAIN s
    OBVIOUS
  <2>2. QED
    BY Zenon, <1>7, <2>1
<1>9. ASSUME NEW k \in 1..n, g[1..(k - 1)] \in Nat PROVE g[1..k] = f[k][g[1..(k - 1)]]
  <2>1. Max(1..k) = k /\ (1..k) \ {k} = 1..(k - 1) /\ 1..k # {}
    <3>1. k \in Nat \ {0}
      OBVIOUS
    <3>2. QED
      BY Zenon, <3>1, MaxOfRange
  <2>2. 1..k \in SUBSET DOMAIN s
    BY <1>1
  <2>3. g[1..k] = g[(1..k) \ {Max(1..k)}] + s[Max(1..k)]
    BY Zenon, <1>7, <2>1, <2>2
  <2>4. f[k][g[1..(k - 1)]] = g[1..(k - 1)] + s[k]
    BY Zenon, <1>3, <1>9
  <2>5. QED
    BY Zenon, <2>1, <2>3, <2>4
<1> HIDE DEF Sum
<1>10. \A k \in 1..n : g[1..(k - 1)] \in Nat => g[1..k] = f[k][g[1..(k - 1)]]
  BY Zenon, <1>9
<1>11. PICK r : r \in [0..n -> Nat] /\ Runs(r, f, 0, n) /\ r[n] = g[1..n]
  <2>1. GoesOn(g, f, 0, n, Nat)
    BY Zenon, <1>8, <1>10 DEF GoesOn
  <2>2. f \in Turns(n, Nat)
    BY Zenon, <1>2 DEF Turns
  <2>3. PICK r : RunsTo(r, f, 0, n, Nat, g[1..n])
    BY Zenon, <2>1, <2>2, FoldRuns
  <2>4. QED
    BY Zenon, <2>3 DEF RunsTo
<1>12. r[0] = 0 /\ \A k \in 1..n : r[k] = f[k][r[k - 1]]
  BY Zenon, <1>11 DEF Runs
<1>13. \A k \in 1..n : r[k] = r[k - 1] + s[k]
  <2>1. ASSUME NEW k \in 1..n PROVE r[k] = r[k - 1] + s[k]
    <3>1. k - 1 \in 0..n
      OBVIOUS
    <3>2. r[k - 1] \in Nat
      BY Zenon, <1>11, <3>1
    <3>3. QED
      BY Zenon, <1>3, <1>12, <3>2
  <2>2. QED
    BY Zenon, <2>1
<1>14. Sum(s) = r[n]
  BY Zenon, <1>1, <1>6, <1>11
<1>15. QED
  BY Zenon, <1>11, <1>12, <1>13, <1>14 DEF Adds

(* Two runs that go on alike from the same end stay alike. *)
Follows(a, b, n, m) ==
  \A i \in 1..n : a[i - 1] = b[m + (i - 1)] => a[i] = b[m + i]

LEMMA RunsAgree ==
  ASSUME NEW n \in Nat, NEW m \in Nat, NEW a, NEW b, a[0] = b[m], Follows(a, b, n, m)
  PROVE  a[n] = b[m + n]
<1> DEFINE T == {i \in 0..n : a[i] = b[m + i]}
<1>1. 0 \in T
  OBVIOUS
<1>2. ASSUME NEW i \in 0..(n - 1), i \in T PROVE i + 1 \in T
  <2>1. i + 1 \in 1..n /\ i + 1 \in 0..n /\ (i + 1) - 1 = i
    OBVIOUS
  <2>2. a[i] = b[m + i]
    BY <1>2
  <2>3. a[i + 1] = b[m + (i + 1)]
    BY <2>1, <2>2 DEF Follows
  <2>4. QED
    BY <2>1, <2>3
<1> HIDE DEF T
<1>3. n \in T
  <2>1. \A i \in 0..n : i \in T
    BY Zenon, <1>1, <1>2, InductionTo
  <2>2. n \in 0..n
    OBVIOUS
  <2>3. QED
    BY Zenon, <2>1, <2>2
<1>4. QED
  BY <1>3 DEF T

LEMMA LaidGrows ==
  ASSUME NEW used \in Nat, NEW s \in Seq(Nat), NEW alignment \in Alignments
  PROVE  Laid(used, s, alignment) \in Nat /\ used <= Laid(used, s, alignment)
<1> DEFINE n == Len(s)
<1>1. n \in Nat /\ s \in [1..n -> Nat]
  BY LenProperties
<1> HIDE DEF n
<1>2. PICK r : Ends(r, used, s, n, alignment)
  BY Zenon, <1>1, LaidRuns
<1> DEFINE T == {k \in 0..n : used <= r[k]}
<1>3. 0 \in T
  BY <1>1, <1>2 DEF Ends
<1>4. ASSUME NEW k \in 0..(n - 1), k \in T PROVE k + 1 \in T
  <2>1. k + 1 \in 1..n /\ k + 1 \in 0..n /\ (k + 1) - 1 = k /\ k \in 0..n
    BY <1>1
  <2>2. r[k + 1] = AlignUp(r[k], alignment) + s[k + 1]
    BY <1>2, <2>1 DEF Ends
  <2>3. r[k] \in Nat /\ s[k + 1] \in Nat /\ used <= r[k]
    BY <1>1, <1>2, <1>4, <2>1 DEF Ends
  <2>4. AlignUp(r[k], alignment) \in Nat /\ r[k] <= AlignUp(r[k], alignment)
    BY Zenon, <2>3, Aligned
  <2>5. used <= r[k + 1]
    BY <2>2, <2>3, <2>4
  <2>6. QED
    BY <2>1, <2>5
<1> HIDE DEF T
<1>5. \A k \in 0..n : k \in T
  BY Zenon, <1>1, <1>3, <1>4, InductionTo
<1>6. n \in 0..n
  BY <1>1
<1>7. used <= r[n] /\ r[n] \in Nat
  BY <1>2, <1>5, <1>6 DEF T, Ends
<1>8. QED
  BY <1>2, <1>7 DEF Ends

LEMMA LaidConcat ==
  ASSUME NEW used \in Nat, NEW s \in Seq(Nat), NEW t \in Seq(Nat), NEW alignment \in Alignments
  PROVE  Laid(used, s \o t, alignment) = Laid(Laid(used, s, alignment), t, alignment)
<1> DEFINE n == Len(s)
           m == Len(t)
           u == s \o t
<1>1. n \in Nat /\ m \in Nat /\ n + m \in Nat /\ s \in [1..n -> Nat] /\ t \in [1..m -> Nat]
  BY LenProperties
<1>2. u \in Seq(Nat) /\ Len(u) = n + m /\ \A i \in 1..(n + m) :
         u[i] = IF i <= n THEN s[i] ELSE t[i - n]
  BY ConcatProperties
<1>3. u \in [1..(n + m) -> Nat]
  BY <1>2, LenProperties
<1> HIDE DEF n, m, u
<1>4. PICK r : Ends(r, used, s, n, alignment)
  BY Zenon, <1>1, LaidRuns
<1>5. r[n] \in Nat
  BY <1>1, <1>4 DEF Ends
<1>6. PICK q : Ends(q, r[n], t, m, alignment)
  BY Zenon, <1>1, <1>5, LaidRuns
<1>7. PICK w : Ends(w, used, u, n + m, alignment)
  BY Zenon, <1>1, <1>3, LaidRuns
<1>8. r[n] = w[n]
  <2>1. ASSUME NEW i \in 1..n, r[i - 1] = w[0 + (i - 1)] PROVE r[i] = w[0 + i]
    <3>1. i \in 1..(n + m) /\ 0 + (i - 1) = i - 1 /\ 0 + i = i /\ i <= n
      BY <1>1
    <3>2. w[i] = AlignUp(w[i - 1], alignment) + s[i]
      BY Zenon, <1>2, <1>7, <3>1 DEF Ends
    <3>3. r[i] = AlignUp(r[i - 1], alignment) + s[i]
      BY Zenon, <1>4 DEF Ends
    <3>4. QED
      BY Zenon, <2>1, <3>1, <3>2, <3>3
  <2>2. r[0] = w[0] /\ 0 \in Nat
    BY <1>4, <1>7 DEF Ends
  <2>3. Follows(r, w, n, 0)
    BY Zenon, <2>1 DEF Follows
  <2>4. r[n] = w[0 + n]
    BY Zenon, <1>1, <2>2, <2>3, RunsAgree
  <2>5. QED
    BY <1>1, <2>4
<1>9. q[m] = w[n + m]
  <2>1. ASSUME NEW i \in 1..m, q[i - 1] = w[n + (i - 1)] PROVE q[i] = w[n + i]
    <3>1. n + i \in 1..(n + m) /\ ~(n + i <= n) /\ (n + i) - n = i
          /\ (n + i) - 1 = n + (i - 1)
      BY <1>1
    <3>2. u[n + i] = t[i]
      BY <1>2, <3>1
    <3>3. w[n + i] = AlignUp(w[(n + i) - 1], alignment) + u[n + i]
      BY Zenon, <1>7, <3>1 DEF Ends
    <3>4. q[i] = AlignUp(q[i - 1], alignment) + t[i]
      BY Zenon, <1>6 DEF Ends
    <3>5. QED
      BY Zenon, <2>1, <3>1, <3>2, <3>3, <3>4
  <2>2. q[0] = w[n]
    BY Zenon, <1>6, <1>8 DEF Ends
  <2>3. Follows(q, w, m, n)
    BY Zenon, <2>1 DEF Follows
  <2>4. QED
    BY Zenon, <1>1, <2>2, <2>3, RunsAgree
<1>10. QED
  BY Zenon, <1>4, <1>6, <1>7, <1>8, <1>9 DEF u, Ends

LEMMA LaidEmpty ==
  ASSUME NEW used \in Nat, NEW alignment \in Alignments
  PROVE  Laid(used, <<>>, alignment) = used
<1>1. <<>> \in [1..0 -> Nat] /\ 0 \in Nat
  OBVIOUS
<1>2. PICK r : Ends(r, used, <<>>, 0, alignment)
  BY Zenon, <1>1, LaidRuns
<1>3. QED
  BY Zenon, <1>2 DEF Ends

(* The end of an array that follows what ends at end. *)
Then(end, bytes) == AlignUp(end, 64) + bytes

LEMMA ThenEnds ==
  ASSUME NEW end \in Nat, NEW bytes \in Nat
  PROVE  Then(end, bytes) \in Nat /\ end <= Then(end, bytes) /\ bytes <= Then(end, bytes)
BY DEF Then, AlignUp

LEMMA PlannedOne ==
  ASSUME NEW used \in Nat, NEW a \in Nat
  PROVE  Planned(used, <<a>>) = Then(used, a)
<1>1. <<a>> \in [1..1 -> Nat] /\ 1 \in Nat /\ 64 \in Alignments
  BY DEF Alignments
<1>2. PICK r : Ends(r, used, <<a>>, 1, 64)
  BY Zenon, <1>1, LaidRuns
<1>3. QED
  BY <1>2 DEF Ends, Planned, Then

LEMMA PlannedTwo ==
  ASSUME NEW used \in Nat, NEW a \in Nat, NEW b \in Nat
  PROVE  Planned(used, <<a, b>>) = Then(Then(used, a), b)
<1>1. <<a, b>> \in [1..2 -> Nat] /\ 2 \in Nat /\ 64 \in Alignments
  BY DEF Alignments
<1>2. PICK r : Ends(r, used, <<a, b>>, 2, 64)
  BY Zenon, <1>1, LaidRuns
<1>3. r[1] = Then(used, a) /\ r[2] = Then(r[1], b)
  BY <1>2 DEF Ends, Then
<1>4. QED
  BY <1>2, <1>3 DEF Ends, Planned

LEMMA PlannedThree ==
  ASSUME NEW used \in Nat, NEW a \in Nat, NEW b \in Nat, NEW c \in Nat
  PROVE  Planned(used, <<a, b, c>>) = Then(Then(Then(used, a), b), c)
<1>1. <<a, b, c>> \in [1..3 -> Nat] /\ 3 \in Nat /\ 64 \in Alignments
  BY DEF Alignments
<1>2. PICK r : Ends(r, used, <<a, b, c>>, 3, 64)
  BY Zenon, <1>1, LaidRuns
<1>3. r[1] = Then(used, a) /\ r[2] = Then(r[1], b) /\ r[3] = Then(r[2], c)
  BY <1>2 DEF Ends, Then
<1>4. QED
  BY <1>2, <1>3 DEF Ends, Planned

LEMMA PlannedConcat ==
  ASSUME NEW used \in Nat, NEW s \in Seq(Nat), NEW t \in Seq(Nat)
  PROVE  /\ s \o t \in Seq(Nat)
         /\ Planned(used, s) \in Nat /\ used <= Planned(used, s)
         /\ Planned(used, s \o t) = Planned(Planned(used, s), t)
<1>1. 64 \in Alignments
  BY DEF Alignments
<1>2. s \o t \in Seq(Nat)
  OBVIOUS
<1>3. Laid(used, s, 64) \in Nat /\ used <= Laid(used, s, 64)
  BY <1>1, LaidGrows
<1>4. Laid(used, s \o t, 64) = Laid(Laid(used, s, 64), t, 64)
  BY <1>1, LaidConcat
<1>5. QED
  BY <1>2, <1>3, <1>4 DEF Planned

LEMMA PlannedAfter ==
  ASSUME NEW used \in Nat, NEW s \in Seq(Nat), NEW t \in Seq(Nat)
  PROVE  Planned(used, s \o t) = Planned(Planned(used, s), t)
BY Zenon, PlannedConcat

LEMMA PlannedNone ==
  ASSUME NEW used \in Nat
  PROVE  Planned(used, <<>>) = used
<1>1. 64 \in Alignments
  BY DEF Alignments
<1>2. QED
  BY Zenon, <1>1, LaidEmpty DEF Planned

LEMMA PlannedThenNone ==
  ASSUME NEW used \in Nat, NEW s \in Seq(Nat)
  PROVE  /\ s \o <<>> \in Seq(Nat)
         /\ Planned(used, s \o <<>>) = Planned(used, s)
<1>1. <<>> \in Seq(Nat)
  OBVIOUS
<1>2. Planned(used, s \o <<>>) = Planned(Planned(used, s), <<>>)
  BY Zenon, <1>1, PlannedConcat
<1>3. Planned(used, s) \in Nat /\ s \o <<>> \in Seq(Nat)
  BY Zenon, <1>1, PlannedConcat
<1>4. QED
  BY Zenon, <1>2, <1>3, PlannedNone

LEMMA PlannedThen ==
  ASSUME NEW used \in Nat, NEW s \in Seq(Nat), NEW e, Planned(used, s) = e,
         NEW a \in Nat
  PROVE  /\ s \o <<a>> \in Seq(Nat)
         /\ Planned(used, s \o <<a>>) = Then(e, a)
<1>1. <<a>> \in Seq(Nat)
  OBVIOUS
<1>2. Planned(used, s \o <<a>>) = Planned(e, <<a>>)
  BY Zenon, <1>1, PlannedConcat
<1>3. e \in Nat /\ s \o <<a>> \in Seq(Nat)
  BY Zenon, <1>1, PlannedConcat
<1>4. QED
  BY Zenon, <1>2, <1>3, PlannedOne

LEMMA PlannedThenTwo ==
  ASSUME NEW used \in Nat, NEW s \in Seq(Nat), NEW e, Planned(used, s) = e,
         NEW a \in Nat, NEW b \in Nat
  PROVE  /\ s \o <<a, b>> \in Seq(Nat)
         /\ Planned(used, s \o <<a, b>>) = Then(Then(e, a), b)
<1>1. <<a, b>> \in Seq(Nat)
  OBVIOUS
<1>2. Planned(used, s \o <<a, b>>) = Planned(e, <<a, b>>)
  BY Zenon, <1>1, PlannedConcat
<1>3. e \in Nat /\ s \o <<a, b>> \in Seq(Nat)
  BY Zenon, <1>1, PlannedConcat
<1>4. QED
  BY Zenon, <1>2, <1>3, PlannedTwo

LEMMA PlannedThenThree ==
  ASSUME NEW used \in Nat, NEW s \in Seq(Nat), NEW e, Planned(used, s) = e,
         NEW a \in Nat, NEW b \in Nat, NEW c \in Nat
  PROVE  /\ s \o <<a, b, c>> \in Seq(Nat)
         /\ Planned(used, s \o <<a, b, c>>) = Then(Then(Then(e, a), b), c)
<1>1. <<a, b, c>> \in Seq(Nat)
  OBVIOUS
<1>2. Planned(used, s \o <<a, b, c>>) = Planned(e, <<a, b, c>>)
  BY Zenon, <1>1, PlannedConcat
<1>3. e \in Nat /\ s \o <<a, b, c>> \in Seq(Nat)
  BY Zenon, <1>1, PlannedConcat
<1>4. QED
  BY <1>2, <1>3, PlannedThree

-----------------------------------------------------------------------------
(* Where arrays begin on their own, they begin where another may have ended. *)
Aligns(n) == \E q \in Nat : n = 64 * q

LEMMA AlignsSum ==
  ASSUME NEW a, NEW b, Aligns(a), Aligns(b)
  PROVE  a \in Nat /\ b \in Nat /\ Aligns(a + b)
<1>1. PICK p \in Nat : a = 64 * p
  BY DEF Aligns
<1>2. PICK q \in Nat : b = 64 * q
  BY DEF Aligns
<1>3. p + q \in Nat /\ a + b = 64 * (p + q)
  BY <1>1, <1>2
<1>4. QED
  BY <1>1, <1>2, <1>3 DEF Aligns

LEMMA AlignsEnd ==
  ASSUME NEW a, Aligns(a), NEW u \in Nat
  PROVE  AlignUp(a + u, 64) = a + AlignUp(u, 64) /\ AlignUp(a, 64) = a
<1>1. PICK p \in Nat : a = 64 * p
  BY DEF Aligns
<1>2. QED
  BY <1>1 DEF AlignUp

LEMMA AlignsUp ==
  ASSUME NEW n \in Nat
  PROVE  Aligns(AlignUp(n, 64))
<1> DEFINE q == (n + 64 - 1) \div 64
<1>1. q \in Nat /\ AlignUp(n, 64) = 64 * q
  BY DEF AlignUp
<1>2. QED
  BY Zenon, <1>1 DEF Aligns

LEMMA PlannedShift ==
  ASSUME NEW a, Aligns(a), NEW u \in Nat, NEW s \in Seq(Nat)
  PROVE  Planned(a + u, s) = a + Planned(u, s)
<1> DEFINE n == Len(s)
<1>1. n \in Nat /\ s \in [1..n -> Nat] /\ 64 \in Alignments /\ 0 \in Nat
  BY LenProperties DEF Alignments
<1> HIDE DEF n
<1>2. a \in Nat /\ a + u \in Nat
  <2>1. PICK q \in Nat : a = 64 * q
    BY DEF Aligns
  <2>2. QED
    BY <2>1
<1>3. PICK r : Ends(r, u, s, n, 64)
  BY Zenon, <1>1, LaidRuns
<1>4. PICK w : Ends(w, a + u, s, n, 64)
  BY Zenon, <1>1, <1>2, LaidRuns
<1> DEFINE v == [k \in 0..n |-> a + r[k]]
<1>5. \A k \in 0..n : v[k] = a + r[k] /\ r[k] \in Nat
  BY <1>3 DEF Ends
<1> HIDE DEF v
<1>6. ASSUME NEW k \in 1..n, v[k - 1] = w[0 + (k - 1)] PROVE v[k] = w[0 + k]
  <2>1. k \in 0..n /\ k - 1 \in 0..n /\ 0 + (k - 1) = k - 1 /\ 0 + k = k /\ s[k] \in Nat
    BY <1>1
  <2>2. w[k - 1] = a + r[k - 1] /\ r[k - 1] \in Nat /\ v[k] = a + r[k]
    BY Zenon, <1>5, <1>6, <2>1
  <2>3. w[k] = AlignUp(w[k - 1], 64) + s[k] /\ r[k] = AlignUp(r[k - 1], 64) + s[k]
    BY Zenon, <1>3, <1>4 DEF Ends
  <2>4. AlignUp(w[k - 1], 64) = a + AlignUp(r[k - 1], 64)
    <3>1. AlignUp(a + r[k - 1], 64) = a + AlignUp(r[k - 1], 64)
      BY <2>2, AlignsEnd
    <3>2. QED
      BY <2>2, <3>1
  <2>5. AlignUp(r[k - 1], 64) \in Nat
    BY Zenon, <1>1, <2>2, Aligned
  <2>6. QED
    BY <1>2, <2>1, <2>2, <2>3, <2>4, <2>5
<1>7. Follows(v, w, n, 0)
  BY Zenon, <1>6 DEF Follows
<1>8. v[0] = w[0]
  <2>1. 0 \in 0..n
    BY <1>1
  <2>2. QED
    BY Zenon, <1>3, <1>4, <1>5, <2>1 DEF Ends
<1>9. v[n] = w[0 + n]
  BY Zenon, <1>1, <1>7, <1>8, RunsAgree
<1>10. 0 + n = n /\ n \in 0..n
  BY <1>1
<1>11. QED
  BY Zenon, <1>3, <1>4, <1>5, <1>9, <1>10 DEF Ends, Planned

-----------------------------------------------------------------------------
(* What a layer takes. *)

LEMMA Times ==
  ASSUME NEW a \in Nat, NEW b \in Nat
  PROVE  a * b \in Nat
OBVIOUS

LEMMA Numbers ==
  /\ H \in Nat /\ Dense \in Nat /\ Moe \in Nat /\ TopK \in Nat /\ Experts \in Nat
  /\ Heads \in Nat /\ FullDim \in Nat /\ LocalDim \in Nat /\ FullHeads \in Nat
  /\ LocalHeads \in Nat /\ Vocab \in Nat /\ Layers \in Nat \ {0} /\ FullEvery \in Nat \ {0}
  /\ DeviceMatrix \in Nat /\ DeviceTile \in Nat
  /\ Float32 \in Nat /\ Int32 \in Nat /\ Double \in Nat /\ Pointer \in Nat /\ KVRecord \in Nat
  /\ 2 \in Nat /\ 16 \in Nat
BY WorkspaceAssumption DEF Float32, Int32, Double, Pointer, KVRecord

(* The arrays both name, and those they do not take in the same order. *)
LEMMA FeedForwardExact ==
  ASSUME NEW p, p.n \in Nat
  PROVE  /\ FeedForwardPlan(p) \in Seq(Nat) /\ FeedForwardTaken(p) \in Seq(Nat)
         /\ \A used \in Nat : Planned(used, FeedForwardTaken(p)) = Planned(used, FeedForwardPlan(p))
<1> DEFINE n == p.n
           hidden == n * H * Float32
           m == n * 2 * Int32
           y == n * Moe * Float32
           v == H * Float32
           dense == n * Dense * Float32
           scores == n * Experts * Float32
           ids == n * TopK * Int32
           weights == n * TopK * Float32
           routed == n * TopK * H * Float32
           both == n * 2 * Moe * Float32
           A == <<hidden, dense, dense, hidden, hidden, hidden, scores, ids, weights, routed,
                  hidden, both, y, hidden>>
           x == IF NVFP4 THEN <<hidden>> ELSE <<>>
           z == IF NVFP4 THEN <<y>> ELSE <<>>
           xz == IF NVFP4 THEN <<hidden, y>> ELSE <<>>
<1>1. FeedForwardPlan(p) = IF Accel THEN <<>> ELSE A \o x \o <<m>> \o z \o <<v, v>>
  BY Zenon DEF FeedForwardPlan
<1>2. FeedForwardTaken(p) = IF Accel THEN <<>> ELSE A \o xz \o <<m, v, v>>
  BY Zenon DEF FeedForwardTaken
<1>3. hidden \in Nat /\ m \in Nat /\ y \in Nat /\ v \in Nat
  BY Zenon, Times, Numbers
<1>n. /\ dense \in Nat /\ scores \in Nat /\ ids \in Nat /\ weights \in Nat /\ routed \in Nat
      /\ both \in Nat
  BY Zenon, Times, Numbers
<1> HIDE DEF hidden, m, y, v, dense, scores, ids, weights, routed, both
<1>4. A \in Seq(Nat) /\ x \in Seq(Nat) /\ z \in Seq(Nat) /\ xz \in Seq(Nat)
      /\ <<m>> \in Seq(Nat) /\ <<v, v>> \in Seq(Nat) /\ <<m, v, v>> \in Seq(Nat)
      /\ <<>> \in Seq(Nat)
  BY <1>3, <1>n
<1>5. Aligns(hidden)
  <2>1. PICK k \in Nat : H = 16 * k
    <3>1. H = 16 * (H \div 16) /\ H \div 16 \in Nat
      BY Numbers, WidthsAssumption
    <3>2. QED
      BY Zenon, <3>1
  <2>2. n * k \in Nat
    BY <2>1, Times
  <2>3. hidden = 64 * (n * k)
    BY <2>1 DEF hidden, Float32
  <2>4. QED
    BY Zenon, <2>2, <2>3 DEF Aligns
<1> HIDE DEF A
<1>6. ASSUME NEW used \in Nat, ~Accel
      PROVE  Planned(used, FeedForwardTaken(p)) = Planned(used, FeedForwardPlan(p))
  <2> DEFINE a == Planned(used, A)
  <2>1. a \in Nat
    BY Zenon, <1>4, PlannedConcat
  <2>2. CASE ~NVFP4
    <3> DEFINE s1 == A \o <<>>
               s2 == s1 \o <<m>>
               s3 == s2 \o <<>>
    <3>1. s1 \in Seq(Nat) /\ Planned(used, s1) = a
      BY Zenon, <1>4, PlannedThenNone
    <3> HIDE DEF s1
    <3>2. s2 \in Seq(Nat) /\ Planned(used, s2) = Then(a, m)
      BY <1>3, <3>1, PlannedThen
    <3> HIDE DEF s2
    <3>3. s3 \in Seq(Nat) /\ Planned(used, s3) = Then(a, m)
      BY Zenon, <3>2, PlannedThenNone
    <3> HIDE DEF s3
    <3>4. Planned(used, s3 \o <<v, v>>) = Then(Then(Then(a, m), v), v)
      BY <1>3, <3>3, PlannedThenTwo
    <3>5. Planned(used, s1 \o <<m, v, v>>) = Then(Then(Then(a, m), v), v)
      BY <1>3, <3>1, PlannedThenThree
    <3>6. FeedForwardPlan(p) = s3 \o <<v, v>> /\ FeedForwardTaken(p) = s1 \o <<m, v, v>>
      BY Zenon, <1>1, <1>2, <1>6, <2>2 DEF s1, s2, s3
    <3>7. QED
      BY Zenon, <3>4, <3>5, <3>6
  <2>3. CASE NVFP4
    <3> DEFINE b == Then(a, hidden)
               s0 == A \o <<hidden, y>>
               s1 == A \o <<hidden>>
               s2 == s1 \o <<m>>
               s3 == s2 \o <<y>>
    <3>1. b \in Nat
      BY Zenon, <1>3, <2>1, ThenEnds
    <3>2. Planned(used, s0 \o <<m, v, v>>) = Then(Then(Then(Then(b, y), m), v), v)
      <4>1. s0 \in Seq(Nat) /\ Planned(used, s0) = Then(b, y)
        BY <1>3, <1>4, PlannedThenTwo
      <4> HIDE DEF s0, b
      <4>2. QED
        BY <1>3, <4>1, PlannedThenThree
    <3>3. Planned(used, s3 \o <<v, v>>) = Then(Then(Then(Then(b, m), y), v), v)
      <4>1. s1 \in Seq(Nat) /\ Planned(used, s1) = b
        BY <1>3, <1>4, PlannedThen
      <4> HIDE DEF s1, b
      <4>2. s2 \in Seq(Nat) /\ Planned(used, s2) = Then(b, m)
        BY <1>3, <4>1, PlannedThen
      <4> HIDE DEF s2
      <4>3. s3 \in Seq(Nat) /\ Planned(used, s3) = Then(Then(b, m), y)
        BY <1>3, <4>2, PlannedThen
      <4> HIDE DEF s3
      <4>4. QED
        BY <1>3, <4>3, PlannedThenTwo
    <3>6. FeedForwardPlan(p) = s3 \o <<v, v>> /\ FeedForwardTaken(p) = s0 \o <<m, v, v>>
      BY Zenon, <1>1, <1>2, <1>6, <2>3
    <3> HIDE DEF a, b, s0, s1, s2, s3
    <3>4. Then(Then(Then(b, m), y), v) = Then(Then(Then(b, y), m), v)
      <4> DEFINE e == AlignUp(b, 64)
                 d == AlignUp(m, 64)
                 c == AlignUp(y, 64)
      <4>1. Aligns(e) /\ Aligns(d) /\ Aligns(c) /\ e \in Nat /\ d \in Nat /\ c \in Nat
        BY <1>3, <3>1, AlignsUp, AlignsSum
      <4>2. AlignUp(e + m, 64) = e + d /\ AlignUp(e + y, 64) = e + c
        <5>1. \A u \in Nat : AlignUp(e + u, 64) = e + AlignUp(u, 64)
          BY Zenon, <4>1, AlignsEnd
        <5>2. QED
          BY Zenon, <1>3, <5>1
      <4>3. Aligns(e + d) /\ Aligns(e + c)
        BY Zenon, <4>1, AlignsSum
      <4>4. AlignUp((e + d) + y, 64) = (e + d) + c /\ AlignUp((e + c) + m, 64) = (e + c) + d
        BY <1>3, <4>2, <4>3, AlignsEnd
      <4> HIDE DEF e, d, c
      <4>5. Then(b, m) = e + m /\ Then(b, y) = e + y
        BY Zenon DEF Then, e
      <4>6. Then(Then(b, m), y) = (e + d) + y /\ Then(Then(b, y), m) = (e + c) + m
        BY Zenon, <4>2, <4>5 DEF Then
      <4>7. (e + d) + c = (e + c) + d
        BY <4>1
      <4>8. QED
        BY Zenon, <4>4, <4>6, <4>7 DEF Then
    <3>5. QED
      BY Zenon, <3>2, <3>3, <3>4, <3>6
  <2>4. QED
    BY Zenon, <2>2, <2>3
<1>7. FeedForwardPlan(p) \in Seq(Nat) /\ FeedForwardTaken(p) \in Seq(Nat)
  BY <1>1, <1>2, <1>4
<1>8. QED
  BY Zenon, <1>1, <1>2, <1>6, <1>7

(* A row of a head is as wide as an alignment. *)
LEMMA AlignsRow ==
  ASSUME NEW a \in Nat, NEW b \in Nat, b % 16 = 0
  PROVE  Aligns(a * b * Float32)
<1>1. PICK k \in Nat : b = 16 * k
  <2>1. b = 16 * (b \div 16) /\ b \div 16 \in Nat
    OBVIOUS
  <2>2. QED
    BY Zenon, <2>1
<1>2. a * k \in Nat /\ a * b * Float32 = 64 * (a * k)
  BY <1>1 DEF Float32
<1>3. QED
  BY Zenon, <1>2 DEF Aligns

LEMMA PlannedRows ==
  ASSUME NEW used \in Nat, NEW a, NEW b, Aligns(a), Aligns(b), NEW c \in Nat
  PROVE  Planned(used, <<a, b, b, a, c>>) = AlignUp(used, 64) + 2 * (a + b) + c
<1> DEFINE e == AlignUp(used, 64)
<1>1. Aligns(e) /\ e \in Nat /\ a \in Nat /\ b \in Nat
  BY AlignsUp, AlignsSum
<1> HIDE DEF e
<1>2. Aligns(e + a) /\ Aligns((e + a) + b) /\ Aligns(((e + a) + b) + b)
      /\ Aligns((((e + a) + b) + b) + a)
  BY Zenon, <1>1, AlignsSum
<1>3. Then(used, a) = e + a
  BY DEF Then, e
<1>4. \A x : Aligns(x) => AlignUp(x, 64) = x
  <2>1. TAKE x
  <2>2. HAVE Aligns(x)
  <2>3. PICK q \in Nat : x = 64 * q
    BY <2>2 DEF Aligns
  <2>4. QED
    BY <2>3 DEF AlignUp
<1>5. /\ Then(e + a, b) = (e + a) + b
      /\ Then((e + a) + b, b) = ((e + a) + b) + b
      /\ Then(((e + a) + b) + b, a) = (((e + a) + b) + b) + a
      /\ Then((((e + a) + b) + b) + a, c) = ((((e + a) + b) + b) + a) + c
  BY Zenon, <1>2, <1>4 DEF Then
<1>6. Planned(used, <<a, b, b, a, c>>) = Then(Then(Then(Then(Then(used, a), b), b), a), c)
  <2>1. <<a, b, b, a, c>> \in [1..5 -> Nat] /\ 5 \in Nat /\ 64 \in Alignments
    BY <1>1 DEF Alignments
  <2>2. PICK r : Ends(r, used, <<a, b, b, a, c>>, 5, 64)
    BY Zenon, <2>1, LaidRuns
  <2>3. /\ r[1] = Then(used, a) /\ r[2] = Then(r[1], b) /\ r[3] = Then(r[2], b)
        /\ r[4] = Then(r[3], a) /\ r[5] = Then(r[4], c)
    BY <2>2 DEF Ends, Then
  <2>4. QED
    BY <2>2, <2>3 DEF Ends, Planned
<1>7. Planned(used, <<a, b, b, a, c>>) = ((((e + a) + b) + b) + a) + c
  BY Zenon, <1>3, <1>5, <1>6
<1>8. QED
  BY <1>1, <1>7 DEF e

LEMMA KeyWidths ==
  ASSUME NEW l \in Nat
  PROVE  KeyWidth(l) \in Nat /\ Dim(l) \in Nat /\ WidestKey \in Nat /\ KeyWidth(l) <= WidestKey
<1>1. FullHeads * FullDim \in Nat /\ LocalHeads * LocalDim \in Nat
  BY Zenon, Numbers, Times
<1>2. QED
  BY <1>1, Numbers DEF KeyWidth, Dim, WidestKey, Larger

(* Some layer attends with the widths that are planned for. *)
LEMMA SomeLayerIsFull == FullEvery - 1 \in 0..(Layers - 1) /\ IsFull(FullEvery - 1)
<1>1. FullEvery \in Nat \ {0} /\ Layers \in Nat /\ FullEvery <= Layers
  BY Numbers, WidthsAssumption
<1>2. (FullEvery - 1) % FullEvery = FullEvery - 1
  BY <1>1
<1>3. QED
  BY <1>1, <1>2 DEF IsFull

(* No layer takes more than is planned, and a full one takes all of it. *)
LEMMA AttentionFits ==
  ASSUME NEW p \in Shape, ShapeSound(p), NEW l \in Nat
  PROVE  /\ AttentionPlan(p) \in Seq(Nat) /\ AttentionTaken(p, l) \in Seq(Nat)
         /\ \A used \in Nat :
              /\ Planned(used, AttentionTaken(p, l)) <= Planned(used, AttentionPlan(p))
              /\ IsFull(l) =>
                   Planned(used, AttentionTaken(p, l)) = Planned(used, AttentionPlan(p))
<1> DEFINE n == p.n
           longest == p.old + p.seq
           c == n * longest * Float32
           a == n * Heads * FullDim * Float32
           b == n * FullHeads * FullDim * Float32
           d == n * Heads * Dim(l) * Float32
           k == n * KeyWidth(l) * Float32
           tables == IF p.batch > 1 THEN <<p.batch * Pointer, p.batch * Int32>> ELSE <<>>
           device == <<n * FullDim * Float32, p.segments * Int32, p.segments * Int32>>
<1>1. n \in Nat /\ p.old \in Nat /\ p.seq \in Nat /\ p.segments \in Nat /\ p.batch \in Nat
  BY DEF Shape
<1>2. Max(p.cached) = p.old
  BY DEF ShapeSound
<1>3. p.batch > 1 <=> p.wrapper /\ p.segments > 1
  BY DEF ShapeSound
<1>4. p.batch > 1 => p.batch = p.segments
  BY DEF ShapeSound
<1>5. AttentionTaken(p, l) = tables \o (IF Accel THEN device ELSE <<d, k, k, d, c>>)
  BY Zenon, <1>2 DEF AttentionTaken
<1>6. AttentionPlan(p) = tables \o (IF Accel THEN device ELSE <<a, b, b, a, c>>)
  BY Zenon, <1>3, <1>4 DEF AttentionPlan
<1>7. KeyWidth(l) \in Nat /\ Dim(l) \in Nat
  BY Zenon, KeyWidths
<1>8. longest \in Nat
  BY <1>1
<1> HIDE DEF longest
<1>9. c \in Nat /\ a \in Nat /\ b \in Nat /\ d \in Nat /\ k \in Nat
  BY Zenon, <1>1, <1>7, <1>8, Numbers, Times
<1>10. tables \in Seq(Nat) /\ device \in Seq(Nat)
  <2>1. p.batch * Pointer \in Nat /\ p.batch * Int32 \in Nat /\ n * FullDim * Float32 \in Nat
        /\ p.segments * Int32 \in Nat
    BY Zenon, <1>1, Numbers, Times
  <2>2. QED
    BY <2>1
<1>11. Aligns(a) /\ Aligns(b) /\ Aligns(d) /\ Aligns(k)
  <2>1. n * Heads \in Nat /\ n * FullHeads \in Nat /\ n * LocalHeads \in Nat
    BY Zenon, <1>1, Numbers, Times
  <2>2. Dim(l) % 16 = 0
    BY WidthsAssumption DEF Dim
  <2>3. Aligns(a) /\ Aligns(b) /\ Aligns(d)
    BY <1>7, <2>1, <2>2, Numbers, WidthsAssumption, AlignsRow
  <2>4. k = IF IsFull(l) THEN b ELSE (n * LocalHeads) * LocalDim * Float32
    BY <1>1, Numbers DEF KeyWidth
  <2>5. Aligns((n * LocalHeads) * LocalDim * Float32)
    BY <2>1, Numbers, WidthsAssumption, AlignsRow
  <2>6. QED
    BY Zenon, <2>3, <2>4, <2>5
<1>12. IsFull(l) => d = a /\ k = b
  BY <1>1, Numbers DEF KeyWidth, Dim
<1>13. d + k <= a + b
  <2>1. CASE IsFull(l)
    BY <1>9, <1>12, <2>1
  <2>2. CASE ~IsFull(l)
    <3> DEFINE small == (Heads + LocalHeads) * LocalDim
               large == (Heads + FullHeads) * FullDim
    <3>1. small \in Nat /\ large \in Nat /\ small <= large
      BY Numbers, WidthsAssumption
    <3>2. d + k = n * Float32 * small
      BY <1>1, <2>2, Numbers DEF KeyWidth, Dim, Float32
    <3>3. a + b = n * Float32 * large
      BY <1>1, Numbers DEF Float32
    <3>4. n * Float32 \in Nat
      BY Zenon, <1>1, Numbers, Times
    <3> HIDE DEF small, large, a, b, d, k
    <3>5. (n * Float32) * small <= (n * Float32) * large
      BY <3>1, <3>4
    <3>6. QED
      BY Zenon, <3>2, <3>3, <3>5
  <2>3. QED
    BY <2>1, <2>2
<1> HIDE DEF a, b, c, d, k, tables, device
<1>14. <<d, k, k, d, c>> \in Seq(Nat) /\ <<a, b, b, a, c>> \in Seq(Nat)
  BY <1>9
<1>15. ASSUME NEW used \in Nat
       PROVE  /\ Planned(used, AttentionTaken(p, l)) <= Planned(used, AttentionPlan(p))
              /\ IsFull(l) =>
                   Planned(used, AttentionTaken(p, l)) = Planned(used, AttentionPlan(p))
  <2>1. CASE Accel
    <3>1. AttentionTaken(p, l) = AttentionPlan(p) /\ AttentionPlan(p) = tables \o device
      BY Zenon, <1>5, <1>6, <2>1
    <3>2. Planned(used, tables) \in Nat
      BY Zenon, <1>10, PlannedConcat
    <3>3. tables \o device \in Seq(Nat)
      BY Zenon, <1>10, PlannedConcat
    <3>4. Planned(used, AttentionPlan(p)) \in Nat
      BY Zenon, <3>1, <3>3, PlannedConcat
    <3>5. QED
      BY <3>1, <3>4
  <2>2. CASE ~Accel
    <3> DEFINE e == Planned(used, tables)
               u == AlignUp(e, 64)
    <3>1. e \in Nat
      BY Zenon, <1>10, PlannedConcat
    <3> HIDE DEF e
    <3>2. u \in Nat
      BY <3>1, AlignsUp, AlignsSum
    <3> HIDE DEF u
    <3>3. Planned(used, tables \o <<d, k, k, d, c>>) = Planned(e, <<d, k, k, d, c>>)
      <4>1. \A s \in Seq(Nat) : Planned(used, tables \o s) = Planned(Planned(used, tables), s)
        BY Zenon, <1>10, PlannedAfter
      <4>2. QED
        BY Zenon, <1>14, <4>1 DEF e
    <3>4. Planned(used, tables \o <<a, b, b, a, c>>) = Planned(e, <<a, b, b, a, c>>)
      <4>1. \A s \in Seq(Nat) : Planned(used, tables \o s) = Planned(Planned(used, tables), s)
        BY Zenon, <1>10, PlannedAfter
      <4>2. QED
        BY Zenon, <1>14, <4>1 DEF e
    <3>5. Planned(used, AttentionTaken(p, l)) = u + 2 * (d + k) + c
      <4>1. Planned(e, <<d, k, k, d, c>>) = AlignUp(e, 64) + 2 * (d + k) + c
        BY <1>9, <1>11, <3>1, PlannedRows
      <4>2. QED
        BY Zenon, <1>5, <2>2, <3>3, <4>1 DEF u
    <3>6. Planned(used, AttentionPlan(p)) = u + 2 * (a + b) + c
      <4>1. Planned(e, <<a, b, b, a, c>>) = AlignUp(e, 64) + 2 * (a + b) + c
        BY <1>9, <1>11, <3>1, PlannedRows
      <4>2. QED
        BY Zenon, <1>6, <2>2, <3>4, <4>1 DEF u
    <3>7. QED
      BY <1>9, <1>12, <1>13, <3>2, <3>5, <3>6
  <2>3. QED
    BY Zenon, <2>1, <2>2
<1>16. AttentionPlan(p) \in Seq(Nat) /\ AttentionTaken(p, l) \in Seq(Nat)
  <2>1. tables \o device \in Seq(Nat)
    BY Zenon, <1>10, PlannedConcat
  <2>2. tables \o <<d, k, k, d, c>> \in Seq(Nat) /\ tables \o <<a, b, b, a, c>> \in Seq(Nat)
    BY Zenon, <1>10, <1>14, PlannedConcat
  <2>3. QED
    BY Zenon, <1>5, <1>6, <2>1, <2>2
<1>17. QED
  BY Zenon, <1>15, <1>16

LEMMA TakeSound ==
  ASSUME NEW a \in Region, NEW arrays \in Seq(Nat)
  PROVE  /\ Take(a, arrays) \in Region /\ TakeBriefly(a, arrays) \in Region
         /\ Take(a, arrays).used = Planned(a.used, arrays)
         /\ Take(a, arrays).peak = Larger(a.peak, Planned(a.used, arrays))
         /\ Take(a, arrays).size = a.size /\ Take(a, arrays).block = a.block
         /\ Take(a, arrays).capacity = a.capacity
         /\ TakeBriefly(a, arrays) = [Take(a, arrays) EXCEPT !.used = a.used]
<1> DEFINE end == Planned(a.used, arrays)
<1>1. end \in Nat
  <2>1. a.used \in Nat
    BY DEF Region
  <2>2. QED
    BY Zenon, <2>1, PlannedConcat
<1>2. Take(a, arrays) = [a EXCEPT !.used = end, !.peak = Larger(a.peak, end)]
  BY Zenon DEF Take
<1> HIDE DEF end
<1>3. Larger(a.peak, end) \in Nat
  BY <1>1 DEF Larger, Region
<1>4. Take(a, arrays) \in Region
  BY <1>1, <1>2, <1>3 DEF Region
<1>5. TakeBriefly(a, arrays) = [Take(a, arrays) EXCEPT !.used = a.used]
  BY Zenon DEF TakeBriefly
<1>6. TakeBriefly(a, arrays) \in Region
  BY <1>4, <1>5 DEF Region
<1>7. /\ Take(a, arrays).used = end /\ Take(a, arrays).peak = Larger(a.peak, end)
      /\ Take(a, arrays).size = a.size /\ Take(a, arrays).block = a.block
      /\ Take(a, arrays).capacity = a.capacity
  BY <1>2 DEF Region
<1>8. QED
  BY Zenon, <1>4, <1>5, <1>6, <1>7 DEF end

LEMMA BrieflyKeeps ==
  ASSUME NEW a \in Region, NEW arrays \in Seq(Nat)
  PROVE  /\ TakeBriefly(a, arrays) \in Region
         /\ TakeBriefly(a, arrays).used = a.used
         /\ TakeBriefly(a, arrays).peak = Larger(a.peak, Planned(a.used, arrays))
         /\ TakeBriefly(a, arrays).size = a.size /\ TakeBriefly(a, arrays).block = a.block
         /\ TakeBriefly(a, arrays).capacity = a.capacity
<1> DEFINE t == Take(a, arrays)
<1>1. /\ t \in Region /\ t.size = a.size /\ t.block = a.block /\ t.capacity = a.capacity
      /\ t.peak = Larger(a.peak, Planned(a.used, arrays))
  BY Zenon, TakeSound
<1>2. TakeBriefly(a, arrays) = [t EXCEPT !.used = a.used]
  BY Zenon, TakeSound
<1> HIDE DEF t
<1>3. a.used \in Nat
  BY DEF Region
<1>4. QED
  BY <1>1, <1>2, <1>3 DEF Region

LEMMA BaseAligns ==
  ASSUME NEW p \in Shape
  PROVE  Base(p) \in Nat /\ Aligns(Base(p))
<1>1. p.n \in Nat
  BY DEF Shape
<1>2. Aligns(p.n * H * Float32)
  BY <1>1, Numbers, WidthsAssumption, AlignsRow
<1>3. p.n * H * Float32 \in Nat
  BY Zenon, <1>1, Numbers, Times
<1>4. QED
  BY <1>2, <1>3 DEF Base

LEMMA ResidualAligns ==
  ASSUME NEW p \in Shape
  PROVE  /\ Residual(p) \in Seq(Nat)
         /\ Planned(0, Residual(p)) \in Nat /\ Aligns(Planned(0, Residual(p)))
<1> DEFINE b == Base(p)
<1>1. b \in Nat /\ Aligns(b)
  BY Zenon, BaseAligns
<1>2. Residual(p) = IF Accel THEN <<>> ELSE <<b, b>>
  BY Zenon DEF Residual, Base
<1> HIDE DEF b
<1>3. Residual(p) \in Seq(Nat)
  BY <1>1, <1>2
<1>4. Planned(0, <<b, b>>) = b + b
  <2>1. Planned(0, <<b, b>>) = Then(Then(0, b), b)
    BY Zenon, <1>1, PlannedTwo
  <2>2. Then(0, b) = b
    BY <1>1 DEF Then, AlignUp
  <2>3. AlignUp(b, 64) = b
    BY <1>1, AlignsEnd
  <2>4. QED
    BY Zenon, <2>1, <2>2, <2>3 DEF Then
<1>5. Planned(0, <<>>) = 0
  BY Zenon, PlannedNone
<1>6. Aligns(0) /\ Aligns(b + b)
  <2>1. 0 = 64 * 0 /\ 0 \in Nat
    OBVIOUS
  <2>2. Aligns(0)
    BY <2>1 DEF Aligns
  <2>3. Aligns(b + b)
    BY Zenon, <1>1, AlignsSum
  <2>4. QED
    BY Zenon, <2>2, <2>3
<1>7. Aligns(Planned(0, Residual(p)))
  BY Zenon, <1>2, <1>4, <1>5, <1>6
<1>8. Planned(0, Residual(p)) \in Nat
  BY Zenon, <1>7, AlignsSum
<1>9. QED
  BY Zenon, <1>3, <1>7, <1>8

LEMMA LayerBytesNat ==
  ASSUME NEW p \in Shape, ShapeSound(p)
  PROVE  /\ LayerBytes(p) \in Nat
         /\ Planned(0, AttentionPlan(p)) \in Nat /\ Planned(0, FeedForwardPlan(p)) \in Nat
<1>1. p.n \in Nat /\ 0 \in Nat
  BY DEF Shape
<1>2. FeedForwardPlan(p) \in Seq(Nat)
  BY Zenon, <1>1, FeedForwardExact
<1>3. AttentionPlan(p) \in Seq(Nat)
  BY Zenon, <1>1, AttentionFits
<1>4. Planned(0, AttentionPlan(p)) \in Nat /\ Planned(0, FeedForwardPlan(p)) \in Nat
  BY Zenon, <1>1, <1>2, <1>3, PlannedConcat
<1>5. Planned(0, Residual(p)) \in Nat
  BY Zenon, ResidualAligns
<1>6. QED
  BY <1>4, <1>5 DEF LayerBytes, Larger

(* A pass is planned as its output and, over that, the larger of its layers *)
(* and what is taken after them.                                            *)
LEMMA PassBytesAre ==
  ASSUME NEW p \in Shape, ShapeSound(p)
  PROVE  PassBytes(p) \in Nat /\ PassBytes(p) = Base(p) + Larger(LayerBytes(p), p.tail)
<1>1. Base(p) \in Nat /\ LayerBytes(p) \in Nat /\ p.tail \in Nat
  BY BaseAligns, LayerBytesNat DEF Shape
<1>2. Planned(0, <<Base(p)>>) = Then(0, Base(p))
  BY Zenon, <1>1, PlannedOne
<1>3. Then(0, Base(p)) = Base(p)
  BY <1>1 DEF Then, AlignUp
<1>4. PassBytes(p) = Base(p) + Larger(LayerBytes(p), p.tail)
  BY Zenon, <1>2, <1>3 DEF PassBytes, Base
<1>5. QED
  BY <1>1, <1>4 DEF Larger

(* The arena after a layer. *)
AfterLayer(a, p, l) ==
  TakeBriefly(TakeBriefly(Take(a, Residual(p)), AttentionTaken(p, l)), FeedForwardTaken(p))

LEMMA LayerPeak ==
  ASSUME NEW p \in Shape, ShapeSound(p), NEW l \in Nat, NEW a \in Region,
         a.used = Base(p), Base(p) <= a.peak, a.peak <= Base(p) + LayerBytes(p)
  PROVE  /\ AfterLayer(a, p, l) \in Region
         /\ AfterLayer(a, p, l).size = a.size /\ AfterLayer(a, p, l).block = a.block
         /\ AfterLayer(a, p, l).capacity = a.capacity
         /\ Base(p) <= AfterLayer(a, p, l).peak
         /\ AfterLayer(a, p, l).peak <= Base(p) + LayerBytes(p)
         /\ IsFull(l) \/ a.peak = Base(p) + LayerBytes(p) =>
              AfterLayer(a, p, l).peak = Base(p) + LayerBytes(p)
<1> DEFINE base == Base(p)
           r == Planned(0, Residual(p))
           x == Planned(0, AttentionPlan(p))
           y == Planned(0, FeedForwardPlan(p))
           b == Take(a, Residual(p))
           c == TakeBriefly(b, AttentionTaken(p, l))
           d == AfterLayer(a, p, l)
<1>1. p.n \in Nat /\ 0 \in Nat
  BY DEF Shape
<1>2. base \in Nat /\ Aligns(base) /\ Aligns(r) /\ r \in Nat /\ Residual(p) \in Seq(Nat)
  BY Zenon, BaseAligns, ResidualAligns
<1>3. Aligns(base + r) /\ base + r \in Nat
  BY Zenon, <1>2, AlignsSum
<1>4. x \in Nat /\ y \in Nat /\ LayerBytes(p) = r + Larger(x, y)
  BY Zenon, LayerBytesNat DEF LayerBytes
<1>5. AttentionPlan(p) \in Seq(Nat) /\ AttentionTaken(p, l) \in Seq(Nat)
  BY Zenon, AttentionFits
<1>6. FeedForwardPlan(p) \in Seq(Nat) /\ FeedForwardTaken(p) \in Seq(Nat)
  BY Zenon, <1>1, FeedForwardExact
<1>7. \A s \in Seq(Nat) : Planned(base + 0, s) = base + Planned(0, s)
  BY Zenon, <1>1, <1>2, PlannedShift
<1>8. \A s \in Seq(Nat) : Planned((base + r) + 0, s) = (base + r) + Planned(0, s)
  BY Zenon, <1>1, <1>3, PlannedShift
<1>9. base + 0 = base /\ (base + r) + 0 = base + r
  BY <1>2
<1> HIDE DEF base, r, x, y
<1>10. /\ b \in Region /\ b.used = base + r /\ b.peak = Larger(a.peak, base + r)
       /\ b.size = a.size /\ b.block = a.block /\ b.capacity = a.capacity
  <2>1. Planned(a.used, Residual(p)) = base + r
    BY Zenon, <1>2, <1>7, <1>9 DEF base, r
  <2>2. QED
    BY Zenon, <1>2, <2>1, TakeSound
<1> HIDE DEF b
<1> DEFINE taken == Planned(0, AttentionTaken(p, l))
<1>11. taken \in Nat /\ taken <= x /\ (IsFull(l) => taken = x)
  <2>1. taken \in Nat
    BY Zenon, <1>1, <1>5, PlannedConcat
  <2>2. QED
    BY Zenon, <1>1, <2>1, AttentionFits DEF x
<1>12. /\ c \in Region /\ c.used = base + r /\ c.peak = Larger(b.peak, (base + r) + taken)
       /\ c.size = a.size /\ c.block = a.block /\ c.capacity = a.capacity
  <2>1. Planned(b.used, AttentionTaken(p, l)) = (base + r) + taken
    BY Zenon, <1>5, <1>8, <1>9, <1>10
  <2>2. Take(b, AttentionTaken(p, l)) \in Region
        /\ c = [Take(b, AttentionTaken(p, l)) EXCEPT !.used = b.used]
        /\ c \in Region
    BY Zenon, <1>5, <1>10, TakeSound
  <2>3. /\ Take(b, AttentionTaken(p, l)).peak = Larger(b.peak, (base + r) + taken)
        /\ Take(b, AttentionTaken(p, l)).size = b.size
        /\ Take(b, AttentionTaken(p, l)).block = b.block
        /\ Take(b, AttentionTaken(p, l)).capacity = b.capacity
    BY Zenon, <1>5, <1>10, <2>1, TakeSound
  <2> HIDE DEF c
  <2>4. QED
    BY <1>10, <2>2, <2>3 DEF Region
<1>13. d = TakeBriefly(c, FeedForwardTaken(p))
  BY Zenon DEF AfterLayer, b
<1> HIDE DEF c, d, taken
<1>14. /\ d \in Region /\ d.peak = Larger(c.peak, (base + r) + y)
       /\ d.size = a.size /\ d.block = a.block /\ d.capacity = a.capacity
  <2>1. Planned(c.used, FeedForwardTaken(p)) = (base + r) + y
    BY Zenon, <1>1, <1>3, <1>6, <1>8, <1>9, <1>12, FeedForwardExact DEF y
  <2>2. Take(c, FeedForwardTaken(p)) \in Region
        /\ d = [Take(c, FeedForwardTaken(p)) EXCEPT !.used = c.used]
        /\ d \in Region
    BY Zenon, <1>6, <1>12, <1>13, TakeSound
  <2>3. /\ Take(c, FeedForwardTaken(p)).peak = Larger(c.peak, (base + r) + y)
        /\ Take(c, FeedForwardTaken(p)).size = c.size
        /\ Take(c, FeedForwardTaken(p)).block = c.block
        /\ Take(c, FeedForwardTaken(p)).capacity = c.capacity
    BY Zenon, <1>6, <1>12, <2>1, TakeSound
  <2>4. QED
    BY <1>12, <2>2, <2>3 DEF Region
<1>15. a.peak \in Nat /\ base <= a.peak /\ a.peak <= base + LayerBytes(p)
  BY DEF Region, base
<1>16. /\ base <= d.peak /\ d.peak <= base + LayerBytes(p)
       /\ IsFull(l) \/ a.peak = base + LayerBytes(p) => d.peak = base + LayerBytes(p)
  <2> DEFINE u == base + r
             m == u + Larger(x, y)
             Raised(old, peak, end) ==
               /\ peak = Larger(old, end)
               /\ old \in Nat /\ base <= old /\ old <= m /\ end \in Nat /\ end <= m
  <2>1. base + LayerBytes(p) = m /\ u \in Nat /\ u <= m /\ u + taken <= m /\ u + y <= m
        /\ u + taken \in Nat /\ u + y \in Nat
        /\ (IsFull(l) => Larger(u + taken, u + y) = m)
    BY <1>2, <1>4, <1>11 DEF Larger
  <2>3. m \in Nat
    BY <1>2, <1>4 DEF Larger
  <2> HIDE DEF u, m
  <2>2. \A old, peak, end : Raised(old, peak, end) =>
          /\ peak \in Nat /\ base <= peak /\ peak <= m /\ old <= peak /\ end <= peak
    BY <1>2, <2>3 DEF Larger
  <2>4. Raised(a.peak, b.peak, u)
    BY <1>10, <1>15, <2>1 DEF u
  <2>5. Raised(b.peak, c.peak, u + taken)
    BY <1>12, <2>1, <2>2, <2>4 DEF u
  <2>6. Raised(c.peak, d.peak, u + y)
    BY <1>14, <2>1, <2>2, <2>5 DEF u
  <2>7. /\ d.peak \in Nat /\ base <= d.peak /\ d.peak <= m
        /\ a.peak <= b.peak /\ b.peak <= c.peak /\ c.peak <= d.peak
        /\ u + taken <= c.peak /\ u + y <= d.peak
    BY Zenon, <2>2, <2>4, <2>5, <2>6
  <2> HIDE DEF Raised
  <2>8. b.peak \in Nat /\ c.peak \in Nat
    BY <1>10, <1>12 DEF Region
  <2>9. a.peak = m => d.peak = m
    BY <1>15, <2>3, <2>7, <2>8
  <2>10. IsFull(l) => d.peak = m
    <3>1. Larger(u + taken, u + y) <= d.peak
      BY <2>1, <2>7, <2>8 DEF Larger
    <3>2. QED
      BY <2>1, <2>3, <2>7, <3>1
  <2>11. QED
    BY Zenon, <2>1, <2>7, <2>9, <2>10
<1>17. QED
  BY Zenon, <1>14, <1>16 DEF base, d

-----------------------------------------------------------------------------
(* What calls ask for. *)

LEMMA CallTypes ==
  ASSUME NEW c \in Calls
  PROVE  /\ c.lens \in Seq(Nat \ {0}) /\ c.lens \in Seq(Nat) /\ c.lens # <<>>
         /\ Len(c.lens) \in Nat \ {0}
         /\ c.common \in Nat /\ c.schema \in Nat /\ c.questions \in Nat /\ c.choices \in Nat
         /\ c.reads \in Nat /\ c.context \in Nat
         /\ c.width \in Nat \ {0} /\ c.groups \in Nat \ {0} /\ c.automatic \in BOOLEAN
         /\ c.width * c.groups <= c.context
<1>1. /\ c.lens \in Seq(Nat \ {0}) /\ c.lens # <<>>
      /\ {c.common, c.schema, c.questions, c.choices, c.reads, c.context} \subseteq Nat
      /\ {c.width, c.groups} \subseteq Nat \ {0} /\ c.automatic \in BOOLEAN
      /\ c.width * c.groups <= c.context
  BY Zenon, WorkspaceAssumption
<1>2. c.lens \in Seq(Nat) /\ Len(c.lens) \in Nat \ {0}
  BY <1>1, EmptySeq, LenProperties
<1>3. QED
  BY <1>1, <1>2

LEMMA ScoresTaken ==
  ASSUME call \in Calls, NEW r
  PROVE  ScoreArrays(r) \in Seq(Nat) /\ ScoreBytes(r) \in Nat
<1> DEFINE a == call.questions * Pointer
           b == call.questions * call.choices * Double
           c == call.questions * H * Float32
           d == call.questions * Int32
           e == call.questions * Vocab * Float32
           f == Vocab * Double
           g == call.choices * Double
           s == IF Decides(r) THEN <<c, d, e, f>> ELSE <<>>
<1>1. call.questions \in Nat /\ call.choices \in Nat
  BY Zenon, CallTypes
<1>2. /\ a \in Nat /\ b \in Nat /\ c \in Nat /\ d \in Nat /\ e \in Nat /\ f \in Nat
      /\ g \in Nat
  BY Zenon, <1>1, Numbers, Times
<1>3. ScoreArrays(r) = <<a, b>> \o s \o <<g>>
  BY Zenon DEF ScoreArrays
<1> HIDE DEF a, b, c, d, e, f, g
<1>4. <<a, b>> \in Seq(Nat) /\ s \in Seq(Nat) /\ <<g>> \in Seq(Nat) /\ 0 \in Nat
  BY <1>2
<1> HIDE DEF s
<1>5. (<<a, b>> \o s) \o <<g>> \in Seq(Nat)
  BY <1>4
<1>6. QED
  BY Zenon, <1>3, <1>4, <1>5, PlannedConcat DEF ScoreBytes

LEMMA ControlTaken ==
  ASSUME NEW rows \in Nat, NEW seq \in Nat, NEW segments \in Nat, NEW width \in Nat
  PROVE  /\ ControlArrays(rows, seq, segments, width) \in Seq(Nat)
         /\ Planned(0, ControlArrays(rows, seq, segments, width)) \in Nat
<1> DEFINE a == rows * Int32
           b == rows * seq * Int32
           c == rows * Layers * KVRecord
           d == segments * width * Int32
           e == segments * Int32
           f == segments * Pointer
           g == rows * KVRecord
<1>1. /\ a \in Nat /\ b \in Nat /\ c \in Nat /\ d \in Nat /\ e \in Nat /\ f \in Nat
      /\ g \in Nat /\ 0 \in Nat
  BY Zenon, Numbers, Times
<1>2. ControlArrays(rows, seq, segments, width) = <<a, b, c, a, d, e, a, e, f, g>>
  BY Zenon DEF ControlArrays
<1> HIDE DEF a, b, c, d, e, f, g
<1>3. <<a, b, c, a, d, e, a, e, f, g>> \in Seq(Nat)
  BY <1>1
<1>4. QED
  BY Zenon, <1>1, <1>2, <1>3, PlannedConcat

LEMMA KVTaken ==
  ASSUME NEW lens \in Seq(Nat)
  PROVE  KVArrays(lens) \in Seq(Nat) /\ Planned(0, KVArrays(lens)) \in Nat
<1> DEFINE n == Len(lens) * Layers * 2
           each == 2 * Layers
<1>1. Len(lens) \in Nat /\ Layers \in Nat \ {0} /\ lens \in [1..Len(lens) -> Nat]
  BY Numbers, LenProperties
<1>2. n \in Nat /\ each \in Nat \ {0} /\ n = Len(lens) * each
  BY <1>1
<1> HIDE DEF n, each
<1>3. ASSUME NEW i \in 1..n
      PROVE  lens[(i - 1) \div each + 1] * KeyWidth(((i - 1) \div 2) % Layers) * Float32 \in Nat
  <2> DEFINE q == (i - 1) \div each
             l == ((i - 1) \div 2) % Layers
  <2>1. q \in Nat /\ each * q <= i - 1
    BY <1>2
  <2>2. q < Len(lens)
    <3>1. SUFFICES ASSUME q >= Len(lens) PROVE FALSE
      BY <1>1, <2>1
    <3> HIDE DEF q
    <3>2. q * each >= Len(lens) * each
      BY <1>1, <1>2, <2>1, <3>1
    <3>3. i - 1 < n
      BY <1>2
    <3>4. QED
      BY <1>1, <1>2, <2>1, <3>2, <3>3
  <2> HIDE DEF q
  <2>3. lens[q + 1] \in Nat
    <3>1. q + 1 \in 1..Len(lens)
      BY <1>1, <2>1, <2>2
    <3>2. QED
      BY Zenon, <1>1, <3>1
  <2>4. l \in Nat
    <3>1. (i - 1) \div 2 \in Nat
      BY <1>2
    <3>2. QED
      BY <1>1, <3>1
  <2> HIDE DEF l
  <2>5. KeyWidth(l) \in Nat
    BY Zenon, <2>4, KeyWidths
  <2>6. lens[q + 1] * KeyWidth(l) * Float32 \in Nat
    BY Zenon, <2>3, <2>5, Numbers, Times
  <2>7. QED
    BY <2>6 DEF q, l
<1>4. KVArrays(lens) = [i \in 1..n |->
         lens[(i - 1) \div each + 1] * KeyWidth(((i - 1) \div 2) % Layers) * Float32]
  BY Zenon DEF KVArrays, n, each
<1>5. KVArrays(lens) \in [1..n -> Nat]
  BY Zenon, <1>3, <1>4
<1>6. KVArrays(lens) \in Seq(Nat) /\ 0 \in Nat
  BY <1>2, <1>5
<1>7. QED
  BY Zenon, <1>6, PlannedConcat

LEMMA StagedNat ==
  ASSUME NEW n \in Nat
  PROVE  StagedFloats(n) \in Nat
<1> DEFINE s == [l \in 1..Layers |-> 2 * n * KeyWidth(l - 1)]
<1>1. \A l \in 1..Layers : 2 * n * KeyWidth(l - 1) \in Nat
  <2>1. TAKE l \in 1..Layers
  <2>2. l - 1 \in Nat
    BY Numbers
  <2>3. KeyWidth(l - 1) \in Nat
    BY Zenon, <2>2, KeyWidths
  <2>4. QED
    BY Zenon, <2>3, Numbers, Times
<1>2. s \in [1..Layers -> Nat] /\ Layers \in Nat
  BY Zenon, <1>1, Numbers
<1>3. StagedFloats(n) = Sum(s)
  BY Zenon DEF StagedFloats
<1> HIDE DEF s
<1>4. PICK r : Adds(r, s, Layers)
  BY Zenon, <1>2, SumRuns
<1>5. Layers \in 0..Layers
  BY <1>2
<1>6. QED
  BY <1>3, <1>4, <1>5 DEF Adds

LEMMA DeviceNat ==
  ASSUME NEW p \in Shape
  PROVE  DeviceBytes(p) \in Nat /\ PinnedBytes(p) \in Nat
<1> DEFINE token == p.n * Float32
           routed == p.n * TopK
           wide == WidestKey * Float32
           a == token * H
           b == token * Heads * FullDim
           c == p.n * wide
           d == token * Dense
           e == token * Experts
           f == routed * Float32
           g == routed * Int32
           h == routed * H * Float32
           i == routed * Moe * Float32
           j == TableBytes(routed)
           k == token * FullDim
           l == p.n * Int32
           m == p.rows * wide
           o == (p.n + p.rows) * wide
           q == StagedFloats(p.n) * Float32
           s == <<a, a, a, b, c, c, b, d, d, a, a, a, e, a, f, g, g, Int32, h, i, i, i, h, j,
                  k, l, l, m, m, o, g, j, Int32, q>>
<1>1. p.n \in Nat /\ p.rows \in Nat /\ p.n + p.rows \in Nat
  BY DEF Shape
<1>2. 0 \in Nat /\ WidestKey \in Nat /\ StagedFloats(p.n) \in Nat
  BY Zenon, <1>1, KeyWidths, StagedNat, Numbers
<1>3. token \in Nat /\ routed \in Nat /\ wide \in Nat
  BY Zenon, <1>1, <1>2, Numbers, Times
<1>4. q \in Nat /\ l \in Nat
  BY Zenon, <1>1, <1>2, Numbers, Times
<1>5. j \in Nat
  <2>1. Experts * DeviceMatrix \in Nat /\ routed * DeviceTile \in Nat
    BY Zenon, <1>3, Numbers, Times
  <2>2. AlignUp(Experts * DeviceMatrix, 16) \in Nat /\ AlignUp(routed * DeviceTile, 16) \in Nat
    <3>1. 16 \in Alignments
      BY DEF Alignments
    <3>2. QED
      BY Zenon, <2>1, <3>1, Aligned
  <2>3. QED
    BY <2>2 DEF TableBytes
<1>6. DeviceBytes(p) = Laid(0, s, 256)
  BY Zenon DEF DeviceBytes
<1> HIDE DEF token, routed, wide
<1>7. /\ a \in Nat /\ b \in Nat /\ c \in Nat /\ d \in Nat /\ e \in Nat
      /\ f \in Nat /\ g \in Nat /\ h \in Nat /\ i \in Nat /\ k \in Nat
  BY Zenon, <1>1, <1>3, Numbers, Times
<1>8. m \in Nat /\ o \in Nat
  BY Zenon, <1>1, <1>3, Numbers, Times
<1> HIDE DEF a, b, c, d, e, f, g, h, i, j, k, l, m, o, q
<1>9. s \in Seq(Nat)
  BY <1>4, <1>5, <1>7, <1>8, Numbers
<1> HIDE DEF s
<1>10. 256 \in Alignments
  BY DEF Alignments
<1>11. Laid(0, s, 256) \in Nat
  BY Zenon, <1>2, <1>9, <1>10, LaidGrows
<1>12. PinnedBytes(p) = q
  BY Zenon DEF PinnedBytes, q
<1>13. QED
  BY Zenon, <1>4, <1>6, <1>11, <1>12

-----------------------------------------------------------------------------
(* The shapes of passes. *)

LEMMA MaxOfOne ==
  ASSUME NEW x \in Nat
  PROVE  Max({x}) = x
BY DEF Max

(* Some member of a sequence is the greatest. *)
LEMMA MaxOfSeq ==
  ASSUME NEW n \in Nat \ {0}, NEW s \in [1..n -> Nat]
  PROVE  Max(ToSet(s)) \in Nat /\ \A i \in 1..n : s[i] <= Max(ToSet(s))
<1> DEFINE Tops(i, k) == i \in 1..n /\ \A j \in 1..k : s[j] <= s[i]
           T == {k \in 0..(n - 1) : \E i : Tops(i, k + 1)}
<1>1. 0 \in T
  <2>1. Tops(1, 0 + 1) /\ 0 \in 0..(n - 1)
    OBVIOUS
  <2>2. QED
    BY Zenon, <2>1
<1>2. ASSUME NEW k \in 0..((n - 1) - 1), k \in T PROVE k + 1 \in T
  <2>1. PICK i : Tops(i, k + 1)
    BY Zenon, <1>2
  <2>2. k + 1 \in 0..(n - 1) /\ k + 2 \in 1..n /\ (k + 1) + 1 = k + 2
        /\ \A j \in 1..(k + 2) : j = k + 2 \/ j \in 1..(k + 1)
    OBVIOUS
  <2>3. s[i] \in Nat /\ s[k + 2] \in Nat /\ \A j \in 1..(k + 1) : s[j] \in Nat
    BY <2>1, <2>2
  <2>4. \E j : Tops(j, (k + 1) + 1)
    <3>1. CASE s[k + 2] <= s[i]
      <4>1. Tops(i, (k + 1) + 1)
        BY <2>1, <2>2, <3>1
      <4>2. QED
        BY Zenon, <4>1
    <3>2. CASE ~(s[k + 2] <= s[i])
      <4>1. Tops(k + 2, (k + 1) + 1)
        BY <2>1, <2>2, <2>3, <3>2
      <4>2. QED
        BY Zenon, <4>1
    <3>3. QED
      BY <3>1, <3>2
  <2>5. QED
    BY Zenon, <2>2, <2>4
<1> HIDE DEF T
<1>3. n - 1 \in T
  <2>1. n - 1 \in Nat /\ n - 1 \in 0..(n - 1)
    OBVIOUS
  <2>2. \A k \in 0..(n - 1) : k \in T
    BY Zenon, <1>1, <1>2, <2>1, InductionTo
  <2>3. QED
    BY Zenon, <2>1, <2>2
<1>4. PICK i : Tops(i, (n - 1) + 1)
  BY Zenon, <1>3 DEF T
<1>5. i \in 1..n /\ s[i] \in Nat /\ \A j \in 1..n : s[j] <= s[i] /\ s[j] \in Nat
  BY <1>4
<1> HIDE DEF Tops
<1>6. ToSet(s) = {s[j] : j \in 1..n}
  BY DEF ToSet
<1>7. s[i] \in ToSet(s) /\ \A y \in ToSet(s) : s[i] >= y /\ y \in Nat
  BY <1>5, <1>6
<1>8. Max(ToSet(s)) \in ToSet(s) /\ \A y \in ToSet(s) : Max(ToSet(s)) >= y
  BY <1>7 DEF Max
<1>9. \A j \in 1..n : s[j] \in ToSet(s)
  BY <1>6
<1>10. QED
  BY <1>7, <1>8, <1>9

(* What is added up is no more than as many of the greatest. *)
LEMMA SumAtMost ==
  ASSUME NEW n \in Nat, NEW s \in [1..n -> Nat], NEW m \in Nat, \A i \in 1..n : s[i] <= m
  PROVE  Sum(s) \in Nat /\ Sum(s) <= n * m
<1>1. PICK r : Adds(r, s, n)
  BY Zenon, SumRuns
<1> DEFINE T == {k \in 0..n : r[k] <= k * m}
<1>2. 0 \in T
  BY <1>1 DEF Adds
<1>3. ASSUME NEW k \in 0..(n - 1), k \in T PROVE k + 1 \in T
  <2>1. k + 1 \in 1..n /\ k + 1 \in 0..n /\ (k + 1) - 1 = k /\ k \in 0..n
    OBVIOUS
  <2>2. r[k + 1] = r[k] + s[k + 1] /\ r[k] \in Nat
    BY <1>1, <2>1 DEF Adds
  <2>3. s[k + 1] \in Nat /\ s[k + 1] <= m /\ r[k] <= k * m
    BY <1>3, <2>1
  <2>4. (k + 1) * m = k * m + m
    OBVIOUS
  <2>5. k * m \in Nat
    OBVIOUS
  <2>6. r[k + 1] <= (k + 1) * m
    BY <2>2, <2>3, <2>4, <2>5
  <2>7. QED
    BY Zenon, <2>1, <2>6
<1> HIDE DEF T
<1>4. \A k \in 0..n : k \in T
  BY Zenon, <1>2, <1>3, InductionTo
<1>5. n \in 0..n
  OBVIOUS
<1>6. r[n] <= n * m
  BY Zenon, <1>4, <1>5 DEF T
<1>7. QED
  BY <1>1, <1>5, <1>6 DEF Adds

LEMMA PrefillShape ==
  ASSUME NEW n \in Nat
  PROVE  Prefill(n) \in Shape /\ ShapeSound(Prefill(n))
BY MaxOfOne DEF Prefill, Shape, ShapeSound, NoCache

LEMMA SuffixShape ==
  ASSUME NEW n \in Nat, NEW old \in Nat
  PROVE  PrefillSuffix(n, old) \in Shape /\ ShapeSound(PrefillSuffix(n, old))
BY MaxOfOne DEF PrefillSuffix, Shape, ShapeSound

LEMMA SuffixMultiShape ==
  ASSUME NEW rows \in Nat, NEW seq \in Nat, NEW old \in Nat
  PROVE  PrefillSuffixMulti(rows, seq, old) \in Shape /\ ShapeSound(PrefillSuffixMulti(rows, seq, old))
<1>1. rows * seq \in Nat
  BY Times
<1>2. QED
  BY <1>1, MaxOfOne DEF PrefillSuffixMulti, Shape, ShapeSound

LEMMA DecodeShape ==
  ASSUME NEW width \in Nat, NEW canvases \in Nat, NEW old \in Nat, NEW tail \in Nat
  PROVE  Decode(width, canvases, old, tail) \in Shape /\ ShapeSound(Decode(width, canvases, old, tail))
<1>1. width * canvases \in Nat
  BY Times
<1> DEFINE d == Decode(width, canvases, old, tail)
           several == canvases > 1
<1>2. several \in BOOLEAN /\ {old} \in SUBSET Nat
  OBVIOUS
<1>3. d = [n |-> width * canvases, old |-> old, seq |-> width, segments |-> canvases,
           batch |-> canvases, wrapper |-> several, tail |-> tail,
           cached |-> {old}, rows |-> old, uploads |-> old]
  BY Zenon DEF Decode
<1> HIDE DEF d, several
<1>4. d \in Shape
  BY <1>1, <1>2, <1>3 DEF Shape
<1>5. /\ d.cached = {old} /\ d.old = old /\ d.batch = canvases /\ d.segments = canvases
      /\ d.wrapper = several /\ d.uploads = old /\ d.rows = old
  BY <1>3
<1>6. ShapeSound(d)
  <2>1. Max(d.cached) = d.old /\ d.cached # {}
    BY <1>5, MaxOfOne
  <2>2. d.batch > 1 <=> d.wrapper /\ d.segments > 1
    BY <1>5 DEF several
  <2>3. d.uploads <= d.rows
    BY <1>5
  <2>4. QED
    BY <1>5, <2>1, <2>2, <2>3 DEF ShapeSound
<1>7. QED
  BY Zenon, <1>4, <1>6 DEF d

LEMMA DecodeMultiShape ==
  ASSUME NEW width \in Nat, NEW groups \in Nat \ {0}, NEW n \in Nat \ {0}, NEW lens \in [1..n -> Nat],
         NEW tail \in Nat
  PROVE  /\ DecodeMulti(width, groups, lens, tail) \in Shape
         /\ ShapeSound(DecodeMulti(width, groups, lens, tail))
<1> DEFINE longest == Max(ToSet(lens))
           segments == n * groups
           d == [n |-> segments * width, old |-> longest, seq |-> width,
                 segments |-> segments, batch |-> 0, wrapper |-> FALSE, tail |-> tail,
                 cached |-> ToSet(lens), rows |-> segments * longest, uploads |-> Sum(lens)]
<1>1. Len(lens) = n
  OBVIOUS
<1>2. longest \in Nat /\ \A i \in 1..n : lens[i] <= longest
  BY MaxOfSeq
<1>3. Sum(lens) \in Nat /\ Sum(lens) <= n * longest
  BY Zenon, <1>2, SumAtMost
<1>4. segments \in Nat /\ segments * longest \in Nat /\ segments * width \in Nat
  BY Zenon, <1>2, Times
<1>5. n * longest <= segments * longest
  <2>1. n <= segments
    OBVIOUS
  <2>2. QED
    BY <1>2, <1>4, <2>1
<1>6. ToSet(lens) \in SUBSET Nat /\ ToSet(lens) # {}
  <2>1. ToSet(lens) = {lens[j] : j \in 1..n}
    BY DEF ToSet
  <2>2. 1 \in 1..n
    OBVIOUS
  <2>3. QED
    BY <2>1, <2>2
<1>7. DecodeMulti(width, groups, lens, tail) = d
  BY Zenon, <1>1 DEF DecodeMulti
<1>8. Sum(lens) <= segments * longest
  <2>1. n * longest \in Nat
    BY <1>2
  <2>2. QED
    BY <1>3, <1>4, <1>5, <2>1
<1> HIDE DEF longest, segments
<1>9. d \in Shape
  BY <1>2, <1>3, <1>4, <1>6 DEF Shape
<1>10. ShapeSound(d)
  BY <1>2, <1>6, <1>8 DEF ShapeSound, longest
<1>11. QED
  BY Zenon, <1>7, <1>9, <1>10

-----------------------------------------------------------------------------
(* Blocks. *)

LEMMA NewBlockIsNew ==
  ASSUME NEW live, IsFiniteSet(live)
  PROVE  NewBlock(live) \in Nat \ {0} /\ NewBlock(live) \notin live
<1> DEFINE n == Cardinality(live) + 1
           free == (Nat \ {0}) \ live
           Fits(b) == b \in 1..n /\ b \notin live /\ \A c \in 1..(b - 1) : c \in live
<1>1. n \in Nat /\ Cardinality(live) \in Nat
  BY FS_CardinalityType
<1>2. PICK x : x \in 1..n /\ x \notin live
  <2>1. SUFFICES ASSUME \A x \in 1..n : x \in live PROVE FALSE
    BY Zenon
  <2>2. 1..n \subseteq live
    BY Zenon, <2>1
  <2>3. Cardinality(1..n) <= Cardinality(live)
    BY Zenon, <2>2, FS_Subset
  <2>4. Cardinality(1..n) = n
    BY <1>1, FS_Interval
  <2>5. QED
    BY <1>1, <2>3, <2>4
<1>3. free \subseteq Nat /\ x \in free
  BY <1>1, <1>2
<1>4. PICK b \in free : \A y \in free : b <= y
  BY <1>3, Least
<1>5. Fits(b)
  <2>1. b \in Nat \ {0} /\ b <= x
    BY <1>3, <1>4
  <2>2. ASSUME NEW c \in 1..(b - 1) PROVE c \in live
    <3>1. c \in Nat \ {0} /\ ~(b <= c)
      BY <2>1
    <3>2. QED
      BY <1>4, <3>1
  <2>3. b \in 1..n
    BY <1>1, <1>2, <2>1
  <2>4. QED
    BY <1>4, <2>2, <2>3
<1>6. Fits(NewBlock(live))
  BY <1>5 DEF NewBlock
<1>7. QED
  BY <1>1, <1>6

LEMMA WithoutSome ==
  ASSUME NEW f, NEW S
  PROVE  /\ DOMAIN Without(f, S) = DOMAIN f \ S
         /\ \A x \in DOMAIN f \ S : Without(f, S)[x] = f[x]
         /\ IsFiniteSet(DOMAIN f) => IsFiniteSet(DOMAIN f \ S)
<1>1. IsFiniteSet(DOMAIN f) => IsFiniteSet(DOMAIN f \ S)
  BY FS_Subset
<1>2. QED
  BY <1>1 DEF Without

LEMMA WithDomain ==
  ASSUME NEW f, NEW x, NEW y
  PROVE  DOMAIN With(f, x, y) = DOMAIN f \cup {x}
BY DEF With

LEMMA WithNew ==
  ASSUME NEW f, NEW x, NEW y
  PROVE  With(f, x, y)[x] = y
BY DEF With

LEMMA WithOld ==
  ASSUME NEW f, NEW x, NEW y
  PROVE  \A z \in DOMAIN f : z # x => With(f, x, y)[z] = f[z]
BY DEF With

-----------------------------------------------------------------------------
(* Types. *)

LEMMA ReservedSound ==
  ASSUME NEW a \in Region, NEW required \in Nat, IsFiniteSet(DOMAIN host)
  PROVE  LET r == Reserved(a, required)
         IN  /\ r.arena \in Region
             /\ r.arena.used = 0 /\ r.arena.peak = 0 /\ r.arena.size = required
             /\ IF required > a.capacity
                  THEN /\ r.host = Without(With(host, NewBlock(DOMAIN host), required), {a.block})
                       /\ r.arena.block = NewBlock(DOMAIN host) /\ r.arena.capacity = required
                  ELSE r.host = host /\ r.arena.block = a.block /\ r.arena.capacity = a.capacity
<1> DEFINE b == NewBlock(DOMAIN host)
           w == Without(With(host, b, required), {a.block})
<1>1. b \in Nat
  BY NewBlockIsNew
<1>2. CASE required > a.capacity
  <2>1. Reserved(a, required) =
          [arena |-> [block |-> b, capacity |-> required, size |-> required,
                      used |-> 0, peak |-> 0],
           host |-> w]
    BY Zenon, <1>2 DEF Reserved, Grown
  <2> HIDE DEF b, w
  <2>2. Reserved(a, required).arena \in Region
    BY <1>1, <2>1 DEF Region
  <2>3. /\ Reserved(a, required).host = w
        /\ Reserved(a, required).arena.block = b /\ Reserved(a, required).arena.capacity = required
        /\ Reserved(a, required).arena.used = 0 /\ Reserved(a, required).arena.peak = 0
        /\ Reserved(a, required).arena.size = required
    BY <2>1
  <2>4. QED
    BY Zenon, <1>2, <2>2, <2>3 DEF b, w
<1>3. CASE ~(required > a.capacity)
  <2>1. Reserved(a, required) =
          [arena |-> [a EXCEPT !.size = required, !.used = 0, !.peak = 0], host |-> host]
    BY Zenon, <1>3 DEF Reserved
  <2>2. /\ Reserved(a, required).arena = [a EXCEPT !.size = required, !.used = 0, !.peak = 0]
        /\ Reserved(a, required).host = host
    BY <2>1
  <2>3. /\ [a EXCEPT !.size = required, !.used = 0, !.peak = 0] \in Region
        /\ [a EXCEPT !.size = required, !.used = 0, !.peak = 0].size = required
        /\ [a EXCEPT !.size = required, !.used = 0, !.peak = 0].used = 0
        /\ [a EXCEPT !.size = required, !.used = 0, !.peak = 0].peak = 0
        /\ [a EXCEPT !.size = required, !.used = 0, !.peak = 0].block = a.block
        /\ [a EXCEPT !.size = required, !.used = 0, !.peak = 0].capacity = a.capacity
    BY DEF Region
  <2>4. QED
    BY Zenon, <1>3, <2>2, <2>3
<1>4. QED
  BY Zenon, <1>2, <1>3

LEMMA InitTypes == Init => Types
BY DEF Init, Types, Stored, Going, Region, Memory, Unallocated, Building, Passing, Filling

LEMMA AskTypes ==
  ASSUME Types, NEW c \in Calls, Ask(c)
  PROVE  Types'
<1>1. Len(c.lens) \in Nat \ {0}
  BY CallTypes
<1>2. QED
  BY <1>1 DEF Ask, storage, Types, Stored, Going, Building, Passing, Filling

LEMMA HitTypes ==
  ASSUME Types, Hit
  PROVE  Types'
<1> DEFINE shape == PrefillSuffix(call.lens[1] - prefix.n, prefix.n)
<1>1. call \in Calls /\ prefix \in Entry
  BY DEF Hit, Types, Stored, Going
<1>2. call.lens[1] \in Nat
  BY <1>1, CallTypes
<1>3. prefix.n \in Nat /\ call.lens[1] - prefix.n \in Nat
  BY <1>1, <1>2 DEF Hit, Entry
<1>4. shape \in Shape /\ ShapeSound(shape)
  BY Zenon, <1>3, SuffixShape
<1> HIDE DEF shape
<1>5. pass' = [shape |-> shape, reads |-> 0, then |-> "reads"]
  BY Zenon DEF Hit, shape
<1>6. Stored'
  BY DEF Hit, storage, Types, Stored
<1>7. Going'
  BY <1>1, <1>4, <1>5 DEF Hit, storage, Types, Going, Building, Passing, Filling
<1>8. QED
  BY <1>6, <1>7 DEF Types

LEMMA MissTypes ==
  ASSUME Types, Miss
  PROVE  Types'
BY DEF Miss, Types, Stored, Going, Building, Passing, Filling

LEMMA MetadataTypes ==
  ASSUME Types, IsFiniteSet(DOMAIN host), Metadata
  PROVE  Types'
<1> DEFINE shape == Prefill(call.lens[1])
           b == NewBlock(DOMAIN host)
<1>1. call \in Calls /\ prefix = None /\ fresh = None
  BY DEF Metadata, Types, Going, Building, Passing
<1>2. call.lens[1] \in Nat /\ call.common \in Nat
  BY <1>1, CallTypes
<1>3. shape \in Shape /\ ShapeSound(shape)
  BY Zenon, <1>2, PrefillShape
<1>4. b \in Nat
  BY NewBlockIsNew
<1> HIDE DEF shape, b
<1>5. pass' = [shape |-> shape, reads |-> 0, then |-> "prefix"]
      /\ fresh' = [n |-> call.common, meta |-> b, kv |-> 0]
  BY Zenon DEF Metadata, shape, b
<1>6. fresh' \in Entry
  BY <1>2, <1>4, <1>5 DEF Entry
<1>7. Stored'
  BY DEF Metadata, Types, Stored
<1>8. Going'
  BY <1>1, <1>3, <1>5, <1>6 DEF Metadata, Types, Going, Building, Passing, Filling
<1>9. QED
  BY <1>7, <1>8 DEF Types

LEMMA InstallTypes ==
  ASSUME Types, IsFiniteSet(DOMAIN host), Install
  PROVE  Types'
<1> DEFINE b == NewBlock(DOMAIN host)
<1>1. fresh \in Entry
  BY DEF Install, Types, Going, Building
<1>2. b \in Nat
  BY NewBlockIsNew
<1>3. prefix' = [fresh EXCEPT !.kv = b]
  BY Zenon DEF Install
<1> HIDE DEF b
<1>4. prefix' \in Entry
  BY <1>1, <1>2, <1>3 DEF Entry
<1>5. QED
  BY <1>4 DEF Install, Types, Stored, Going, Building, Passing, Filling

LEMMA LongestNat ==
  ASSUME call \in Calls, prefix \in Entry, \A i \in DOMAIN call.lens : call.lens[i] > prefix.n
  PROVE  Longest \in Nat
<1> DEFINE n == Len(call.lens)
<1>1. n \in Nat \ {0} /\ call.lens \in [1..n -> Nat]
  BY CallTypes, LenProperties
<1>2. prefix.n \in Nat
  BY DEF Entry
<1>3. SuffixLens \in [1..n -> Nat]
  BY <1>1, <1>2 DEF SuffixLens
<1>4. QED
  BY Zenon, <1>1, <1>3, MaxOfSeq DEF Longest

LEMMA ControlBeginTypes ==
  ASSUME Types, IsFiniteSet(DOMAIN host), ControlBegin
  PROVE  Types'
<1> DEFINE rows == Len(call.lens)
           arrays == ControlArrays(rows, Longest, rows * call.groups, call.width)
           r == Reserved(arena["control"], Planned(0, arrays))
<1>1. call \in Calls /\ prefix \in Entry /\ \A i \in DOMAIN call.lens : call.lens[i] > prefix.n
  BY DEF ControlBegin, Types, Stored, Going
<1>2. rows \in Nat /\ call.groups \in Nat /\ call.width \in Nat /\ rows * call.groups \in Nat
  BY <1>1, CallTypes, Times
<1>3. Longest \in Nat
  BY Zenon, <1>1, LongestNat
<1>4. arrays \in Seq(Nat) /\ Planned(0, arrays) \in Nat
  BY Zenon, <1>2, <1>3, ControlTaken
<1>5. arena \in [Arenas -> Region] /\ "control" \in Arenas
  BY DEF Types, Stored, Arenas
<1>6. arena["control"] \in Region
  BY <1>5
<1> HIDE DEF arrays
<1>7. r.arena \in Region
  BY Zenon, <1>4, <1>6, ReservedSound
<1>8. Take(r.arena, arrays) \in Region
  BY Zenon, <1>4, <1>7, TakeSound
<1>9. arena' = [arena EXCEPT !["control"] = Take(r.arena, arrays)]
      /\ active' = active \cup {"control"}
  BY Zenon DEF ControlBegin, Holds, arrays
<1> HIDE DEF r
<1>10. arena' \in [Arenas -> Region] /\ active' \subseteq Arenas
  BY <1>5, <1>8, <1>9 DEF Types, Stored
<1>11. Stored'
  BY <1>10 DEF ControlBegin, Types, Stored
<1>12. Going'
  BY DEF ControlBegin, Types, Going, Building, Passing, Filling
<1>13. QED
  BY <1>11, <1>12 DEF Types

LEMMA KVBeginTypes ==
  ASSUME Types, IsFiniteSet(DOMAIN host), KVBegin
  PROVE  Types'
<1> DEFINE arrays == KVArrays(call.lens)
           r == Reserved(arena["kv"], Planned(0, arrays))
           shape == PrefillSuffixMulti(Len(call.lens), Longest, prefix.n)
<1>1. call \in Calls
  BY DEF KVBegin, Types, Going
<1>2. call.lens \in Seq(Nat) /\ Len(call.lens) \in Nat
  BY <1>1, CallTypes
<1>3. arrays \in Seq(Nat) /\ Planned(0, arrays) \in Nat
  BY Zenon, <1>2, KVTaken
<1>4. arena \in [Arenas -> Region] /\ "kv" \in Arenas
  BY DEF Types, Stored, Arenas
<1>5. arena["kv"] \in Region
  BY <1>4
<1> HIDE DEF arrays
<1>6. r.arena \in Region
  BY Zenon, <1>3, <1>5, ReservedSound
<1>7. Take(r.arena, arrays) \in Region
  BY Zenon, <1>3, <1>6, TakeSound
<1>8. arena' = [arena EXCEPT !["kv"] = Take(r.arena, arrays)]
      /\ active' = active \cup {"kv"}
  BY Zenon DEF KVBegin, arrays
<1> HIDE DEF r
<1>9. arena' \in [Arenas -> Region] /\ active' \subseteq Arenas
  BY <1>4, <1>7, <1>8 DEF Types, Stored
<1>10. Stored'
  BY <1>9 DEF KVBegin, Types, Stored
<1>11. CASE Len(call.lens) > 1
  <2>1. prefix \in Entry /\ \A i \in DOMAIN call.lens : call.lens[i] > prefix.n
    BY <1>11 DEF KVBegin, Types, Stored, Going
  <2>2. Longest \in Nat
    BY Zenon, <1>1, <2>1, LongestNat
  <2>3. prefix.n \in Nat
    BY <2>1 DEF Entry
  <2>4. shape \in Shape /\ ShapeSound(shape)
    BY Zenon, <1>2, <2>2, <2>3, SuffixMultiShape
  <2>5. pass' = [shape |-> shape, reads |-> 0, then |-> "reads"]
    BY Zenon, <1>11 DEF KVBegin
  <2> HIDE DEF shape
  <2>6. Going'
    BY <1>1, <1>11, <2>4, <2>5 DEF KVBegin, Types, Going, Building, Passing, Filling
  <2>7. QED
    BY <1>10, <2>6 DEF Types
<1>12. CASE ~(Len(call.lens) > 1)
  <2>1. Going'
    BY <1>12 DEF KVBegin, Types, Going, Building, Passing, Filling
  <2>2. QED
    BY <1>10, <2>1 DEF Types
<1>13. QED
  BY Zenon, <1>11, <1>12

LEMMA PassBeginTypes ==
  ASSUME Types, IsFiniteSet(DOMAIN host), PassBegin
  PROVE  Types'
<1> DEFINE r == Reserved(arena["pass"], PassBytes(pass.shape))
<1>1. pass.shape \in Shape /\ ShapeSound(pass.shape)
  BY DEF PassBegin, Types, Going, Passing
<1>2. PassBytes(pass.shape) \in Nat
  BY Zenon, <1>1, PassBytesAre
<1>3. arena \in [Arenas -> Region] /\ "pass" \in Arenas
  BY DEF Types, Stored, Arenas
<1>4. arena["pass"] \in Region
  BY <1>3
<1>5. r.arena \in Region
  BY Zenon, <1>2, <1>4, ReservedSound
<1>6. arena' = [arena EXCEPT !["pass"] = r.arena] /\ active' = active \cup {"pass"}
  BY Zenon DEF PassBegin, Begin
<1> HIDE DEF r
<1>7. arena' \in [Arenas -> Region] /\ active' \subseteq Arenas
  BY <1>3, <1>5, <1>6 DEF Types, Stored
<1>8. Stored'
  BY <1>7 DEF PassBegin, Types, Stored
<1>9. Going'
  BY DEF PassBegin, Types, Going, Building, Passing, Filling
<1>10. QED
  BY <1>8, <1>9 DEF Types

LEMMA RenewedTypes ==
  ASSUME memory \in [Memories -> Memory], NEW m \in Memories, IsFiniteSet(DOMAIN gpu),
         NEW bytes \in Nat, Renewed(m, bytes)
  PROVE  memory' \in [Memories -> Memory]
<1> DEFINE b == NewBlock(DOMAIN Freed(m))
<1>1. IsFiniteSet(DOMAIN Freed(m))
  <2>1. DOMAIN Without(gpu, {memory[m].block}) = DOMAIN gpu \ {memory[m].block}
        /\ IsFiniteSet(DOMAIN gpu \ {memory[m].block})
    BY Zenon, WithoutSome
  <2>2. QED
    BY Zenon, <2>1 DEF Freed
<1>2. b \in Nat
  BY Zenon, <1>1, NewBlockIsNew
<1>3. memory' = [memory EXCEPT ![m] = [block |-> b, bytes |-> bytes]]
  BY Zenon DEF Renewed
<1> HIDE DEF b
<1>4. [block |-> b, bytes |-> bytes] \in Memory
  BY <1>2 DEF Memory
<1>5. QED
  BY <1>3, <1>4

LEMMA RefusedTypes ==
  ASSUME memory \in [Memories -> Memory], NEW m \in Memories, Refused(m)
  PROVE  memory' \in [Memories -> Memory]
<1>1. [block |-> 0, bytes |-> 0] \in Memory
  BY DEF Memory
<1>2. QED
  BY <1>1 DEF Refused

LEMMA DeviceBytesNat ==
  ASSUME Types, NEW m, at \in Passing
  PROVE  DeviceBytesOf(m) \in Nat
<1>1. pass.shape \in Shape
  BY DEF Types, Going
<1>2. QED
  BY Zenon, <1>1, DeviceNat DEF DeviceBytesOf

LEMMA DeviceBeginTypes ==
  ASSUME Types, IsFiniteSet(DOMAIN gpu), NEW m \in {"activations", "pinned"}, DeviceBegin(m)
  PROVE  Types'
<1>1. m \in Memories /\ at \in Passing /\ memory \in [Memories -> Memory]
  BY DEF DeviceBegin, Memories, Passing, Types, Stored
<1>2. DeviceBytesOf(m) \in Nat
  BY Zenon, <1>1, DeviceBytesNat
<1>3. memory' \in [Memories -> Memory]
  <2>1. CASE Renewed(m, DeviceBytesOf(m))
    BY Zenon, <1>1, <1>2, <2>1, RenewedTypes
  <2>2. CASE UNCHANGED <<gpu, memory>>
    BY <1>1, <2>2
  <2>3. QED
    BY Zenon, <2>1, <2>2 DEF DeviceBegin
<1>4. Stored'
  BY <1>3 DEF DeviceBegin, Types, Stored
<1>5. Going'
  BY DEF DeviceBegin, Types, Going, Building, Passing, Filling
<1>6. QED
  BY <1>4, <1>5 DEF Types

LEMMA EmbedTypes ==
  ASSUME Types, Embed
  PROVE  Types'
<1> DEFINE arrays == <<pass.shape.n * H * Float32>>
<1>1. pass.shape \in Shape
  BY DEF Embed, Types, Going, Passing
<1>2. pass.shape.n * H * Float32 \in Nat
  BY Zenon, <1>1, BaseAligns DEF Base
<1>3. arrays \in Seq(Nat)
  BY <1>2
<1> HIDE DEF arrays
<1>4. arena \in [Arenas -> Region] /\ arena["pass"] \in Region
  BY DEF Types, Stored, Arenas
<1>5. Take(arena["pass"], arrays) \in Region
  BY Zenon, <1>3, <1>4, TakeSound
<1>6. arena' = [arena EXCEPT !["pass"] = Take(arena["pass"], arrays)]
  BY Zenon DEF Embed, Holds, arrays
<1>7. arena' \in [Arenas -> Region]
  BY <1>4, <1>5, <1>6
<1>8. Stored'
  BY <1>7 DEF Embed, Types, Stored
<1>9. Going'
  BY DEF Embed, Types, Going, Building, Passing, Filling
<1>10. QED
  BY <1>8, <1>9 DEF Types

LEMMA LayerArena ==
  ASSUME Layer
  PROVE  arena' = [arena EXCEPT !["pass"] =
                     [AfterLayer(arena["pass"], pass.shape, layer) EXCEPT
                        !.used = arena["pass"].used]]
BY Zenon DEF Layer, AfterLayer

LEMMA LayerTypes ==
  ASSUME Types, Layer
  PROVE  Types'
<1> DEFINE p == pass.shape
           a == arena["pass"]
           d == AfterLayer(a, p, layer)
<1>1. p \in Shape /\ ShapeSound(p) /\ p.n \in Nat /\ layer \in Nat
  BY DEF Layer, Types, Going, Passing, Shape
<1>2. arena \in [Arenas -> Region] /\ a \in Region
  BY DEF Types, Stored, Arenas
<1>3. Residual(p) \in Seq(Nat) /\ AttentionTaken(p, layer) \in Seq(Nat)
      /\ FeedForwardTaken(p) \in Seq(Nat)
  BY Zenon, <1>1, ResidualAligns, AttentionFits, FeedForwardExact
<1>4. d \in Region
  <2>1. Take(a, Residual(p)) \in Region
    BY Zenon, <1>2, <1>3, TakeSound
  <2>2. TakeBriefly(Take(a, Residual(p)), AttentionTaken(p, layer)) \in Region
    BY Zenon, <1>3, <2>1, TakeSound
  <2>3. QED
    BY Zenon, <1>3, <2>2, TakeSound DEF AfterLayer
<1> HIDE DEF d
<1>5. [d EXCEPT !.used = a.used] \in Region
  BY <1>2, <1>4 DEF Region
<1>6. arena' = [arena EXCEPT !["pass"] = [d EXCEPT !.used = a.used]]
  BY Zenon, LayerArena DEF d
<1>7. arena' \in [Arenas -> Region]
  BY <1>2, <1>5, <1>6
<1>8. Stored'
  BY <1>7 DEF Layer, Types, Stored
<1>9. Going'
  BY <1>1 DEF Layer, Types, Going, Building, Passing, Filling
<1>10. QED
  BY <1>8, <1>9 DEF Types

LEMMA ScoreTypes ==
  ASSUME Types, IsFiniteSet(DOMAIN gpu), Score
  PROVE  Types'
<1>1. call \in Calls /\ read \in Nat
      /\ pass \in [shape : Shape, reads : Nat, then : {"reads", "prefix"}]
      /\ ShapeSound(pass.shape) /\ pass.reads > 0
  BY DEF Score, Types, Going, Passing
<1>2. ScoreArrays(read) \in Seq(Nat)
  BY Zenon, <1>1, ScoresTaken
<1>3. arena \in [Arenas -> Region] /\ arena["pass"] \in Region
      /\ memory \in [Memories -> Memory] /\ "scratch" \in Memories
  BY DEF Types, Stored, Arenas, Memories
<1>4. TakeBriefly(arena["pass"], ScoreArrays(read)) \in Region
  BY Zenon, <1>2, <1>3, TakeSound
<1>5. arena' = [arena EXCEPT !["pass"] = TakeBriefly(arena["pass"], ScoreArrays(read))]
  BY Zenon DEF Score, Holds
<1>6. arena' \in [Arenas -> Region]
  BY <1>3, <1>4, <1>5
<1>7. memory' \in [Memories -> Memory]
  <2> DEFINE bytes == call.questions * H * Float32 + call.questions * Vocab * Float32
  <2>1. bytes \in Nat
    <3>1. call.questions \in Nat
      BY <1>1, CallTypes
    <3>2. call.questions * H * Float32 \in Nat /\ call.questions * Vocab * Float32 \in Nat
      BY Zenon, <3>1, Numbers, Times
    <3>3. QED
      BY <3>2
  <2>2. Renewed("scratch", bytes) \/ Refused("scratch") \/ UNCHANGED <<gpu, memory>>
    BY Zenon DEF Score, Scratch
  <2> HIDE DEF bytes
  <2>3. CASE Renewed("scratch", bytes)
    BY Zenon, <1>3, <2>1, <2>3, RenewedTypes
  <2>4. CASE Refused("scratch")
    BY Zenon, <1>3, <2>4, RefusedTypes
  <2>5. QED
    BY <1>3, <2>2, <2>3, <2>4
<1>8. Stored'
  BY <1>6, <1>7 DEF Score, Types, Stored
<1>9. Going'
  BY <1>1 DEF Score, Types, Going, Building, Passing, Filling
<1>10. QED
  BY <1>8, <1>9 DEF Types

LEMMA EndArena ==
  ASSUME arena \in [Arenas -> Region], active \subseteq Arenas, NEW name \in Arenas, End(name)
  PROVE  /\ arena' \in [Arenas -> Region] /\ active' \subseteq Arenas
         /\ \A a \in Arenas : /\ arena'[a].block = arena[a].block
                              /\ arena'[a].capacity = arena[a].capacity
         /\ \A a \in Arenas \ {"pass"} : arena'[a] = arena[a]
<1>1. arena[name] \in Region
  OBVIOUS
<1>2. CASE name = "pass"
  BY <1>1, <1>2 DEF End, Region
<1>3. CASE name # "pass"
  BY <1>1, <1>3 DEF End
<1>4. QED
  BY Zenon, <1>2, <1>3

LEMMA PassEndTypes ==
  ASSUME Types, PassEnd
  PROVE  Types'
<1>1. arena' \in [Arenas -> Region] /\ active' \subseteq Arenas
  <2>1. "pass" \in Arenas
    BY DEF Arenas
  <2>2. QED
    BY Zenon, <2>1, EndArena DEF PassEnd, Types, Stored
<1>2. Stored'
  BY <1>1 DEF PassEnd, Types, Stored
<1>3. Going'
  BY DEF PassEnd, Types, Going, Building, Passing, Filling
<1>4. QED
  BY <1>2, <1>3 DEF Types

LEMMA KVEndTypes ==
  ASSUME Types, KVEnd
  PROVE  Types'
<1>1. arena' \in [Arenas -> Region] /\ active' \subseteq Arenas
  <2>1. "kv" \in Arenas
    BY DEF Arenas
  <2>2. QED
    BY Zenon, <2>1, EndArena DEF KVEnd, Types, Stored
<1>2. Stored'
  BY <1>1 DEF KVEnd, Types, Stored
<1>3. Going'
  BY DEF KVEnd, Types, Going, Building, Passing, Filling
<1>4. QED
  BY <1>2, <1>3 DEF Types

LEMMA ControlEndTypes ==
  ASSUME Types, ControlEnd
  PROVE  Types'
<1>1. arena' \in [Arenas -> Region] /\ active' \subseteq Arenas
  <2>1. "control" \in Arenas
    BY DEF Arenas
  <2>2. QED
    BY Zenon, <2>1, EndArena DEF ControlEnd, Types, Stored
<1>2. Stored'
  BY <1>1 DEF ControlEnd, Types, Stored
<1>3. Going'
  BY DEF ControlEnd, Types, Going, Building, Passing, Filling
<1>4. QED
  BY <1>2, <1>3 DEF Types

(* A call of one row decodes one read at least, and the first of automatic ones alone. *)
LEMMA GroupedSound ==
  ASSUME call \in Calls, read \in Nat, read < call.reads
  PROVE  Grouped \in Nat \ {0} /\ (Grouped > 1 => ~Decides(read))
<1> DEFINE room == call.width * call.groups
           most == call.context \div room
           wanted == IF Decides(read) THEN 1 ELSE call.reads - read
<1>1. call.context \in Nat /\ call.width \in Nat \ {0} /\ call.groups \in Nat \ {0}
      /\ call.reads \in Nat /\ room <= call.context
  BY Zenon, CallTypes
<1>2. room \in Nat \ {0}
  BY <1>1
<1>3. wanted \in Nat \ {0} /\ (wanted > 1 => ~Decides(read))
  BY <1>1
<1> HIDE DEF room, wanted
<1>4. most \in Nat \ {0}
  BY <1>1, <1>2
<1> HIDE DEF most
<1>5. Min({wanted, most}) \in {wanted, most} /\ Min({wanted, most}) <= wanted
  BY <1>3, <1>4 DEF Min
<1>6. Grouped = Min({wanted, most})
  BY Zenon DEF Grouped, room, most, wanted
<1>7. Grouped \in Nat \ {0} /\ (Grouped > 1 => wanted > 1)
  BY <1>3, <1>4, <1>5, <1>6
<1>8. QED
  BY Zenon, <1>3, <1>7

LEMMA ReadAloneTypes ==
  ASSUME Types, ReadAlone
  PROVE  /\ Types'
         /\ pass' = [shape |-> pass'.shape, reads |-> Grouped, then |-> "reads"]
         /\ pass'.shape.tail = ScoreBytes(read)
<1> DEFINE shape == Decode(call.width, call.groups * Grouped, call.lens[1], ScoreBytes(read))
<1>1. call \in Calls /\ read \in Nat /\ read < call.reads
  BY DEF ReadAlone, Types, Going
<1>2. Grouped \in Nat /\ ScoreBytes(read) \in Nat
  BY <1>1, GroupedSound, ScoresTaken
<1>3. call.width \in Nat /\ call.groups * Grouped \in Nat /\ call.lens[1] \in Nat
  BY <1>1, <1>2, CallTypes, Times
<1>4. shape \in Shape /\ ShapeSound(shape)
  BY Zenon, <1>2, <1>3, DecodeShape
<1>5. shape.tail = ScoreBytes(read)
  BY DEF Decode
<1> HIDE DEF shape
<1>6. pass' = [shape |-> shape, reads |-> Grouped, then |-> "reads"]
  BY Zenon DEF ReadAlone, shape
<1>7. Stored'
  BY DEF ReadAlone, storage, Types, Stored
<1>8. Going'
  BY <1>2, <1>4, <1>6 DEF ReadAlone, storage, Types, Going, Building, Passing, Filling
<1>9. QED
  BY <1>5, <1>6, <1>7, <1>8 DEF Types

LEMMA ReadTogetherTypes ==
  ASSUME Types, ReadTogether
  PROVE  /\ Types'
         /\ pass' = [shape |-> pass'.shape, reads |-> 1, then |-> "reads"]
         /\ pass'.shape.tail = ScoreBytes(read)
<1>1. call \in Calls /\ read \in Nat
  BY DEF ReadTogether, Types, Going
<1>2. PICK n \in 1..Len(call.lens) : \E rows \in [1..n -> DOMAIN call.lens] :
         pass' = [shape |-> DecodeMulti(call.width, call.groups,
                                        [i \in 1..n |-> call.lens[rows[i]]], ScoreBytes(read)),
                  reads |-> 1, then |-> "reads"]
  BY Zenon DEF ReadTogether
<1>3. PICK rows \in [1..n -> DOMAIN call.lens] :
         pass' = [shape |-> DecodeMulti(call.width, call.groups,
                                        [i \in 1..n |-> call.lens[rows[i]]], ScoreBytes(read)),
                  reads |-> 1, then |-> "reads"]
  BY <1>2
<1> DEFINE lens == [i \in 1..n |-> call.lens[rows[i]]]
           shape == DecodeMulti(call.width, call.groups, lens, ScoreBytes(read))
<1>4. n \in Nat \ {0} /\ call.width \in Nat /\ call.groups \in Nat \ {0}
  BY <1>1, CallTypes
<1>5. lens \in [1..n -> Nat]
  <2>1. call.lens \in [1..Len(call.lens) -> Nat]
    BY <1>1, CallTypes, LenProperties
  <2>2. QED
    BY <2>1
<1>6. ScoreBytes(read) \in Nat
  BY Zenon, <1>1, ScoresTaken
<1> HIDE DEF lens
<1>7. shape \in Shape /\ ShapeSound(shape)
  BY Zenon, <1>4, <1>5, <1>6, DecodeMultiShape
<1>8. shape.tail = ScoreBytes(read)
  BY DEF DecodeMulti
<1> HIDE DEF shape
<1>9. pass' = [shape |-> shape, reads |-> 1, then |-> "reads"]
  BY Zenon, <1>3 DEF shape, lens
<1>10. Stored'
  BY DEF ReadTogether, storage, Types, Stored
<1>11. Going'
  BY <1>7, <1>9 DEF ReadTogether, storage, Types, Going, Building, Passing, Filling
<1>12. QED
  BY <1>8, <1>9, <1>10, <1>11 DEF Types

LEMMA AbandonTypes ==
  ASSUME Types, Abandon, memory' \in [Memories -> Memory]
  PROVE  Types'
BY DEF Abandon, StillTracked, Types, Stored, Going, Building, Passing, Filling

LEMMA FailTypes ==
  ASSUME Types, Fail
  PROVE  Types'
<1>1. memory' \in [Memories -> Memory]
  BY DEF Fail, Types, Stored
<1>2. QED
  BY Zenon, <1>1, AbandonTypes DEF Fail

LEMMA DeviceFailsTypes ==
  ASSUME Types, NEW m \in {"activations", "pinned"}, DeviceFails(m)
  PROVE  Types'
<1>1. memory' \in [Memories -> Memory]
  <2>1. m \in Memories
    BY DEF Memories
  <2>2. QED
    BY Zenon, <2>1, RefusedTypes DEF DeviceFails, Types, Stored
<1>2. QED
  BY Zenon, <1>1, AbandonTypes DEF DeviceFails

LEMMA SessionFreeTypes ==
  ASSUME Types, SessionFree
  PROVE  Types'
<1>1. Unallocated \in Region /\ [block |-> 0, bytes |-> 0] \in Memory
  BY DEF Unallocated, Region, Memory
<1>2. Stored'
  BY <1>1 DEF SessionFree, Types, Stored
<1>3. Going'
  BY DEF SessionFree, Types, Going, Building, Passing, Filling
<1>4. QED
  BY <1>2, <1>3 DEF Types

-----------------------------------------------------------------------------
(* Host memory. *)

LEMMA InitHost == Init => HostSound
<1> SUFFICES ASSUME Init PROVE HostSound
  OBVIOUS
<1>1. DOMAIN host = {} /\ IsFiniteSet(DOMAIN host)
  BY FS_EmptySet DEF Init
<1>2. \A a \in Arenas : arena[a].block = 0
  BY DEF Init, Unallocated
<1>3. Blocks = {} /\ PrefixBlocks(prefix) = {}
  BY <1>2 DEF Init, Blocks, PrefixBlocks
<1>4. QED
  BY <1>1, <1>2, <1>3 DEF Init, HostSound

LEMMA HostKept ==
  ASSUME HostSound, UNCHANGED <<host, prefix, tracked, fresh>>, at' # "freed",
         \A a \in Arenas : arena'[a].block = arena[a].block /\ arena'[a].capacity = arena[a].capacity
  PROVE  HostSound'
<1>1. Blocks' = Blocks
  BY DEF Blocks
<1>2. PrefixBlocks(prefix)' = PrefixBlocks(prefix)
  BY DEF PrefixBlocks
<1>3. /\ (IsFiniteSet(DOMAIN host) /\ DOMAIN host \subseteq Nat \ {0})'
      /\ (DOMAIN host = Blocks \cup PrefixBlocks(prefix) \cup tracked)'
      /\ (Blocks \cap PrefixBlocks(prefix) = {} /\ Blocks \cap tracked = {})'
      /\ (PrefixBlocks(prefix) \cap tracked = {})'
      /\ (tracked = IF fresh = None THEN {} ELSE {fresh.meta})'
  BY <1>1, <1>2 DEF HostSound
<1>4. (\A a \in Arenas : arena[a].block # 0 => host[arena[a].block] = arena[a].capacity)'
  BY DEF HostSound
<1>5. (\A a, b \in Arenas : arena[a].block = arena[b].block /\ arena[a].block # 0 => a = b)'
  BY DEF HostSound
<1>6. QED
  BY Zenon, <1>3, <1>4, <1>5 DEF HostSound

(* An arena moves to a new block, and the old one goes. *)
Moves(name, required) ==
  /\ UNCHANGED <<prefix, tracked, fresh>> /\ at' # "freed"
  /\ \A a \in Arenas \ {name} : arena'[a] = arena[a]
  /\ arena'[name].block = NewBlock(DOMAIN host) /\ arena'[name].capacity = required
  /\ host' = Without(With(host, NewBlock(DOMAIN host), required), {arena[name].block})

LEMMA HostGrows ==
  ASSUME HostSound, arena \in [Arenas -> Region], arena' \in [Arenas -> Region],
         NEW name \in Arenas, NEW required \in Nat, Moves(name, required)
  PROVE  HostSound'
<1> DEFINE b == NewBlock(DOMAIN host)
           o == arena[name].block
           w == With(host, b, required)
<1>1. b \in Nat \ {0} /\ b \notin DOMAIN host
  BY NewBlockIsNew DEF HostSound
<1>2. o \in Nat
  BY DEF Region
<1>p. host' = Without(w, {o})
  BY Zenon DEF Moves
<1>q. /\ arena'[name].block = b /\ arena'[name].capacity = required
      /\ \A a \in Arenas : a # name => arena'[a] = arena[a]
      /\ UNCHANGED <<prefix, tracked, fresh>>
  BY DEF Moves
<1> HIDE DEF b
<1>3. /\ DOMAIN w = DOMAIN host \cup {b} /\ w[b] = required
      /\ \A z \in DOMAIN host : z # b => w[z] = host[z]
      /\ IsFiniteSet(DOMAIN host \cup {b})
  <2>1. IsFiniteSet(DOMAIN host)
    BY DEF HostSound
  <2>2. DOMAIN w = DOMAIN host \cup {b} /\ w[b] = required
        /\ \A z \in DOMAIN host : z # b => w[z] = host[z]
    <3>1. DOMAIN w = DOMAIN host \cup {b}
      BY Zenon, WithDomain
    <3>2. w[b] = required
      BY SMT, WithNew
    <3>3. \A z \in DOMAIN host : z # b => w[z] = host[z]
      BY Zenon, WithOld
    <3>4. QED
      BY Zenon, <3>1, <3>2, <3>3
  <2>3. IsFiniteSet(DOMAIN host \cup {b})
    BY Zenon, <2>1, FS_AddElement
  <2>4. QED
    BY Zenon, <2>2, <2>3
<1> HIDE DEF w
<1>4. /\ DOMAIN host' = DOMAIN w \ {o}
      /\ \A x \in DOMAIN w \ {o} : host'[x] = w[x]
      /\ IsFiniteSet(DOMAIN w) => IsFiniteSet(DOMAIN w \ {o})
  <2>1. /\ DOMAIN Without(w, {o}) = DOMAIN w \ {o}
        /\ \A x \in DOMAIN w \ {o} : Without(w, {o})[x] = w[x]
        /\ IsFiniteSet(DOMAIN w) => IsFiniteSet(DOMAIN w \ {o})
    BY Zenon, WithoutSome
  <2>2. QED
    BY Zenon, <1>p, <2>1
<1> HIDE DEF o
<1>5. arena'[name].block = b /\ arena'[name].capacity = required
  BY Zenon, <1>q
<1>6. \A a \in Arenas : a # name => arena'[a] = arena[a]
  BY Zenon, <1>q
<1>7. \A a \in Arenas : arena[a].block # 0 => arena[a].block \in DOMAIN host
                                           /\ arena[a].block # b
  BY <1>1 DEF HostSound, Blocks
<1>8. \A a \in Arenas : arena[a].block = o /\ o # 0 => a = name
  BY DEF HostSound, o
<1>9. Blocks' = (Blocks \ {o}) \cup {b}
  <2>1. ASSUME NEW x PROVE x \in Blocks' <=> x \in (Blocks \ {o}) \cup {b}
    <3>1. x \in Blocks' <=> x # 0 /\ \E a \in Arenas : x = arena'[a].block
      BY DEF Blocks
    <3>2. x \in Blocks <=> x # 0 /\ \E a \in Arenas : x = arena[a].block
      BY DEF Blocks
    <3>3. CASE x = b
      BY <1>1, <1>5, <3>1, <3>3
    <3>4. CASE x # b /\ x = o
      BY <1>5, <1>6, <1>8, <3>1, <3>4
    <3>5. CASE x # b /\ x # o
      BY <1>5, <1>6, <3>1, <3>2, <3>5 DEF o
    <3>6. QED
      BY <3>3, <3>4, <3>5
  <2>2. QED
    BY Zenon, <2>1
<1>10. PrefixBlocks(prefix)' = PrefixBlocks(prefix)
  BY <1>q DEF PrefixBlocks
<1>11. o \in Blocks \/ o = 0
  BY DEF Blocks, o
<1>12. (IsFiniteSet(DOMAIN host) /\ DOMAIN host \subseteq Nat \ {0})'
  BY <1>1, <1>3, <1>4 DEF HostSound
<1>13. (DOMAIN host = Blocks \cup PrefixBlocks(prefix) \cup tracked)'
  <2>1. o \notin PrefixBlocks(prefix) /\ o \notin tracked /\ o # b
    BY <1>1, <1>11 DEF HostSound
  <2>2. DOMAIN host = Blocks \cup PrefixBlocks(prefix) \cup tracked
    BY DEF HostSound
  <2>3. (DOMAIN host)' = (DOMAIN host \cup {b}) \ {o}
    BY <1>3, <1>4
  <2>4. (DOMAIN host)' = Blocks' \cup PrefixBlocks(prefix) \cup tracked
    BY <1>9, <2>1, <2>2, <2>3
  <2>5. QED
    BY <1>10, <1>q, <2>4
<1>14. /\ (Blocks \cap PrefixBlocks(prefix) = {} /\ Blocks \cap tracked = {})'
       /\ (PrefixBlocks(prefix) \cap tracked = {})'
       /\ (tracked = IF fresh = None THEN {} ELSE {fresh.meta})'
  BY <1>1, <1>9, <1>10, <1>q DEF HostSound
<1>15. (\A a \in Arenas : arena[a].block # 0 => host[arena[a].block] = arena[a].capacity)'
  <2>1. ASSUME NEW a \in Arenas, arena'[a].block # 0
        PROVE  host'[arena'[a].block] = arena'[a].capacity
    <3>1. CASE a = name
      <4>1. b \in DOMAIN w \ {o}
        BY <1>1, <1>2, <1>3, <1>7, <1>11 DEF HostSound
      <4>2. QED
        BY Zenon, <1>3, <1>4, <1>5, <3>1, <4>1
    <3>2. CASE a # name
      <4>1. arena'[a] = arena[a]
        BY Zenon, <1>6, <3>2
      <4>2. arena[a].block \in DOMAIN host /\ arena[a].block # b
            /\ host[arena[a].block] = arena[a].capacity
        BY Zenon, <1>7, <2>1, <4>1 DEF HostSound
      <4>3. arena[a].block # o
        BY Zenon, <1>8, <2>1, <3>2, <4>1
      <4>4. arena[a].block \in DOMAIN w \ {o} /\ w[arena[a].block] = host[arena[a].block]
        BY <1>3, <4>2, <4>3
      <4>5. host'[arena[a].block] = w[arena[a].block]
        BY Zenon, <1>4, <4>4
      <4>6. QED
        BY Zenon, <4>1, <4>2, <4>4, <4>5
    <3>3. QED
      BY Zenon, <3>1, <3>2
  <2>2. QED
    BY <2>1
<1>16. (\A a, c \in Arenas : arena[a].block = arena[c].block /\ arena[a].block # 0 => a = c)'
  <2>1. ASSUME NEW a \in Arenas, NEW c \in Arenas, arena'[a].block = arena'[c].block,
               arena'[a].block # 0
        PROVE  a = c
    <3>1. CASE a = name
      BY Zenon, <1>5, <1>6, <1>7, <2>1, <3>1
    <3>2. CASE c = name
      BY Zenon, <1>5, <1>6, <1>7, <2>1, <3>2
    <3>3. CASE a # name /\ c # name
      BY Zenon, <1>6, <2>1, <3>3 DEF HostSound
    <3>4. QED
      BY Zenon, <3>1, <3>2, <3>3
  <2>2. QED
    BY <2>1
<1>17. QED
  BY Zenon, <1>12, <1>13, <1>14, <1>15, <1>16 DEF HostSound, Moves

LEMMA HostReserves ==
  ASSUME HostSound, arena \in [Arenas -> Region], arena' \in [Arenas -> Region],
         NEW name \in Arenas, NEW required \in Nat,
         UNCHANGED <<prefix, tracked, fresh>>, at' # "freed",
         \A a \in Arenas \ {name} : arena'[a] = arena[a],
         arena'[name].block = Reserved(arena[name], required).arena.block,
         arena'[name].capacity = Reserved(arena[name], required).arena.capacity,
         host' = Reserved(arena[name], required).host
  PROVE  HostSound'
<1> DEFINE a == arena[name]
           r == Reserved(a, required)
<1>1. a \in Region /\ IsFiniteSet(DOMAIN host)
  BY DEF HostSound
<1>2. IF required > a.capacity
        THEN /\ r.host = Without(With(host, NewBlock(DOMAIN host), required), {a.block})
             /\ r.arena.block = NewBlock(DOMAIN host) /\ r.arena.capacity = required
        ELSE r.host = host /\ r.arena.block = a.block /\ r.arena.capacity = a.capacity
  BY Zenon, <1>1, ReservedSound
<1>3. CASE required > a.capacity
  <2>1. arena'[name].block = NewBlock(DOMAIN host) /\ arena'[name].capacity = required
        /\ host' = Without(With(host, NewBlock(DOMAIN host), required), {arena[name].block})
    BY Zenon, <1>2, <1>3
  <2>2. Moves(name, required)
    BY Zenon, <2>1 DEF Moves
  <2>3. QED
    BY Zenon, <2>2, HostGrows
<1>4. CASE ~(required > a.capacity)
  <2>1. arena'[name].block = a.block /\ arena'[name].capacity = a.capacity /\ host' = host
    BY Zenon, <1>2, <1>4
  <2>2. \A c \in Arenas : arena'[c].block = arena[c].block /\ arena'[c].capacity = arena[c].capacity
    BY <2>1
  <2>3. QED
    BY Zenon, <2>1, <2>2, HostKept
<1>5. QED
  BY Zenon, <1>3, <1>4

LEMMA ControlBeginHost ==
  ASSUME Types, Types', HostSound, ControlBegin
  PROVE  HostSound'
<1> DEFINE rows == Len(call.lens)
           arrays == ControlArrays(rows, Longest, rows * call.groups, call.width)
           required == Planned(0, arrays)
           r == Reserved(arena["control"], required)
<1>1. call \in Calls /\ prefix \in Entry /\ \A i \in DOMAIN call.lens : call.lens[i] > prefix.n
  BY DEF ControlBegin, Types, Stored, Going
<1>2. rows \in Nat /\ call.groups \in Nat /\ call.width \in Nat /\ rows * call.groups \in Nat
  BY <1>1, CallTypes, Times
<1>3. Longest \in Nat
  BY Zenon, <1>1, LongestNat
<1>4. arrays \in Seq(Nat) /\ required \in Nat
  BY Zenon, <1>2, <1>3, ControlTaken
<1>5. arena \in [Arenas -> Region] /\ arena' \in [Arenas -> Region] /\ "control" \in Arenas
  BY DEF Types, Stored, Arenas
<1>6. arena["control"] \in Region /\ IsFiniteSet(DOMAIN host)
  BY <1>5 DEF HostSound
<1> HIDE DEF arrays
<1>7. arena' = [arena EXCEPT !["control"] = Take(r.arena, arrays)] /\ host' = r.host
  BY Zenon DEF ControlBegin, Holds, arrays
<1>8. UNCHANGED <<prefix, tracked, fresh>> /\ at' # "freed"
  BY DEF ControlBegin
<1> HIDE DEF required
<1>9. r.arena \in Region
  BY Zenon, <1>4, <1>6, ReservedSound
<1>10. Take(r.arena, arrays).block = r.arena.block /\ Take(r.arena, arrays).capacity = r.arena.capacity
  BY Zenon, <1>4, <1>9, TakeSound
<1> HIDE DEF r
<1>11. /\ arena'["control"].block = r.arena.block /\ arena'["control"].capacity = r.arena.capacity
       /\ \A a \in Arenas \ {"control"} : arena'[a] = arena[a]
  BY <1>5, <1>7, <1>10
<1>12. QED
  BY Zenon, <1>4, <1>5, <1>7, <1>8, <1>11, HostReserves DEF r

LEMMA KVBeginHost ==
  ASSUME Types, Types', HostSound, KVBegin
  PROVE  HostSound'
<1> DEFINE arrays == KVArrays(call.lens)
           required == Planned(0, arrays)
           r == Reserved(arena["kv"], required)
<1>1. call.lens \in Seq(Nat)
  <2>1. call \in Calls
    BY DEF KVBegin, Types, Going
  <2>2. QED
    BY Zenon, <2>1, CallTypes
<1>2. arrays \in Seq(Nat) /\ required \in Nat
  BY Zenon, <1>1, KVTaken
<1>3. arena \in [Arenas -> Region] /\ arena' \in [Arenas -> Region] /\ "kv" \in Arenas
  BY DEF Types, Stored, Arenas
<1>4. arena["kv"] \in Region /\ IsFiniteSet(DOMAIN host)
  BY <1>3 DEF HostSound
<1> HIDE DEF arrays
<1>5. arena' = [arena EXCEPT !["kv"] = Take(r.arena, arrays)] /\ host' = r.host
  BY Zenon DEF KVBegin, arrays
<1>6. UNCHANGED <<prefix, tracked, fresh>> /\ at' # "freed"
  BY DEF KVBegin
<1> HIDE DEF required
<1>7. r.arena \in Region
  BY Zenon, <1>2, <1>4, ReservedSound
<1>8. Take(r.arena, arrays).block = r.arena.block /\ Take(r.arena, arrays).capacity = r.arena.capacity
  BY Zenon, <1>2, <1>7, TakeSound
<1> HIDE DEF r
<1>9. /\ arena'["kv"].block = r.arena.block /\ arena'["kv"].capacity = r.arena.capacity
      /\ \A a \in Arenas \ {"kv"} : arena'[a] = arena[a]
  BY <1>3, <1>5, <1>8
<1>10. QED
  BY Zenon, <1>2, <1>3, <1>5, <1>6, <1>9, HostReserves DEF r

LEMMA PassBeginHost ==
  ASSUME Types, Types', HostSound, PassBegin
  PROVE  HostSound'
<1> DEFINE required == PassBytes(pass.shape)
           r == Reserved(arena["pass"], required)
<1>1. pass.shape \in Shape /\ ShapeSound(pass.shape)
  BY DEF PassBegin, Types, Going, Passing
<1>2. required \in Nat
  BY Zenon, <1>1, PassBytesAre
<1>3. arena \in [Arenas -> Region] /\ arena' \in [Arenas -> Region] /\ "pass" \in Arenas
  BY DEF Types, Stored, Arenas
<1>4. arena' = [arena EXCEPT !["pass"] = r.arena] /\ host' = r.host
  BY Zenon DEF PassBegin, Begin
<1>5. UNCHANGED <<prefix, tracked, fresh>> /\ at' # "freed"
  BY DEF PassBegin
<1> HIDE DEF required, r
<1>6. /\ arena'["pass"].block = r.arena.block /\ arena'["pass"].capacity = r.arena.capacity
      /\ \A a \in Arenas \ {"pass"} : arena'[a] = arena[a]
  BY <1>3, <1>4
<1>7. QED
  BY Zenon, <1>2, <1>3, <1>4, <1>5, <1>6, HostReserves DEF r

(* Memory that no arena has may go, *)
LEMMA HostFrees ==
  ASSUME HostSound, NEW gone, gone \cap Blocks = {}, UNCHANGED arena, at' # "freed",
         host' = Without(host, gone),
         PrefixBlocks(prefix)' \cup tracked' = (PrefixBlocks(prefix) \cup tracked) \ gone,
         PrefixBlocks(prefix)' \subseteq PrefixBlocks(prefix), tracked' \subseteq tracked,
         tracked' = IF fresh' = None THEN {} ELSE {fresh'.meta}
  PROVE  HostSound'
<1>1. /\ DOMAIN host' = DOMAIN host \ gone
      /\ \A x \in DOMAIN host \ gone : host'[x] = host[x]
      /\ IsFiniteSet(DOMAIN host \ gone)
  <2>1. host' = Without(host, gone) /\ IsFiniteSet(DOMAIN host)
    BY DEF HostSound
  <2>2. /\ DOMAIN Without(host, gone) = DOMAIN host \ gone
        /\ \A x \in DOMAIN host \ gone : Without(host, gone)[x] = host[x]
        /\ IsFiniteSet(DOMAIN host) => IsFiniteSet(DOMAIN host \ gone)
    BY Zenon, WithoutSome
  <2>3. QED
    BY Zenon, <2>1, <2>2
<1>2. Blocks' = Blocks
  BY DEF Blocks
<1>3. (IsFiniteSet(DOMAIN host) /\ DOMAIN host \subseteq Nat \ {0})'
  BY <1>1 DEF HostSound
<1>4. (DOMAIN host = Blocks \cup PrefixBlocks(prefix) \cup tracked)'
  BY <1>1, <1>2 DEF HostSound
<1>5. /\ (Blocks \cap PrefixBlocks(prefix) = {} /\ Blocks \cap tracked = {})'
      /\ (PrefixBlocks(prefix) \cap tracked = {})'
  BY <1>2 DEF HostSound
<1>6. (\A a \in Arenas : arena[a].block # 0 => host[arena[a].block] = arena[a].capacity)'
  <2>1. ASSUME NEW a \in Arenas, arena[a].block # 0
        PROVE  host'[arena[a].block] = arena[a].capacity
    <3>1. arena[a].block \in Blocks /\ arena[a].block \in DOMAIN host
      BY <2>1 DEF Blocks, HostSound
    <3>2. host'[arena[a].block] = host[arena[a].block]
      BY <1>1, <3>1
    <3>3. QED
      BY <2>1, <3>2 DEF HostSound
  <2>2. QED
    BY <2>1
<1>7. (\A a, b \in Arenas : arena[a].block = arena[b].block /\ arena[a].block # 0 => a = b)'
  BY DEF HostSound
<1>8. QED
  BY Zenon, <1>3, <1>4, <1>5, <1>6, <1>7 DEF HostSound

(* and a new block be the call's or the prefix cache's. *)
LEMMA HostGets ==
  ASSUME HostSound, NEW bytes, UNCHANGED arena, at' # "freed",
         host' = With(host, NewBlock(DOMAIN host), bytes),
         PrefixBlocks(prefix)' \cup tracked' =
           PrefixBlocks(prefix) \cup tracked \cup {NewBlock(DOMAIN host)},
         PrefixBlocks(prefix)' \cap tracked' = {},
         tracked' = IF fresh' = None THEN {} ELSE {fresh'.meta}
  PROVE  HostSound'
<1> DEFINE b == NewBlock(DOMAIN host)
<1>1. b \in Nat \ {0} /\ b \notin DOMAIN host
  BY NewBlockIsNew DEF HostSound
<1>2. DOMAIN host' = DOMAIN host \cup {b}
  BY WithDomain
<1>3. \A x \in DOMAIN host : x # b => host'[x] = host[x]
  <2>1. \A x \in DOMAIN host : x # b => With(host, b, bytes)[x] = host[x]
    BY WithOld
  <2>2. QED
    BY <2>1
<1>4. IsFiniteSet(DOMAIN host \cup {b})
  BY FS_AddElement DEF HostSound
<1>5. PrefixBlocks(prefix)' \cup tracked' = PrefixBlocks(prefix) \cup tracked \cup {b}
  OBVIOUS
<1> HIDE DEF b
<1>6. Blocks' = Blocks
  BY DEF Blocks
<1>7. (IsFiniteSet(DOMAIN host) /\ DOMAIN host \subseteq Nat \ {0})'
  BY <1>1, <1>2, <1>4 DEF HostSound
<1>8. (DOMAIN host = Blocks \cup PrefixBlocks(prefix) \cup tracked)'
  BY <1>2, <1>5, <1>6 DEF HostSound
<1>9. (Blocks \cap PrefixBlocks(prefix) = {} /\ Blocks \cap tracked = {})'
  BY <1>1, <1>5, <1>6 DEF HostSound
<1>10. (\A a \in Arenas : arena[a].block # 0 => host[arena[a].block] = arena[a].capacity)'
  <2>1. ASSUME NEW a \in Arenas, arena[a].block # 0
        PROVE  host'[arena[a].block] = arena[a].capacity
    <3>1. arena[a].block \in DOMAIN host
      BY <2>1 DEF Blocks, HostSound
    <3>2. host'[arena[a].block] = host[arena[a].block]
      BY <1>1, <1>3, <3>1
    <3>3. QED
      BY <2>1, <3>2 DEF HostSound
  <2>2. QED
    BY <2>1
<1>11. (\A a, c \in Arenas : arena[a].block = arena[c].block /\ arena[a].block # 0 => a = c)'
  BY DEF HostSound
<1>12. QED
  BY Zenon, <1>7, <1>8, <1>9, <1>10, <1>11 DEF HostSound

LEMMA MissHost ==
  ASSUME Types, HostSound, Miss
  PROVE  HostSound'
<1>1. fresh = None /\ tracked = {} /\ fresh' = None /\ tracked' = {}
  BY DEF Miss, Types, Going, Building, Passing, HostSound
<1>2. PrefixBlocks(prefix)' = {}
  BY DEF Miss, PrefixBlocks
<1>3. PrefixBlocks(prefix) \cap Blocks = {}
  BY DEF HostSound
<1>4. host' = Without(host, PrefixBlocks(prefix)) /\ UNCHANGED arena /\ at' # "freed"
  BY DEF Miss
<1>5. QED
  BY <1>1, <1>2, <1>3, <1>4, HostFrees

LEMMA NoneIsNoEntry == None \notin Entry
BY WorkspaceAssumption DEF Entry

LEMMA MetadataHost ==
  ASSUME Types, Types', HostSound, Metadata
  PROVE  HostSound'
<1> DEFINE b == NewBlock(DOMAIN host)
<1>1. fresh = None /\ tracked = {} /\ prefix = None /\ prefix' = None
  BY DEF Metadata, Types, Going, Building, Passing, HostSound
<1>2. host' = With(host, b, Planned(0, <<call.schema, call.common * Int32>>))
      /\ tracked' = tracked \cup {b} /\ fresh' = [n |-> call.common, meta |-> b, kv |-> 0]
  BY Zenon DEF Metadata
<1>3. UNCHANGED arena /\ at' # "freed"
  BY DEF Metadata
<1>4. fresh' # None /\ fresh'.meta = b
  <2>1. fresh' \in Entry
    <3>1. Building'
      <4>1. pass'.then = "prefix" /\ at' = "begin"
        BY DEF Metadata
      <4>2. QED
        BY <4>1 DEF Building, Passing
    <3>2. QED
      BY <3>1 DEF Types, Going
  <2>2. QED
    BY <1>2, <2>1, NoneIsNoEntry
<1> DEFINE bytes == Planned(0, <<call.schema, call.common * Int32>>)
<1> HIDE DEF b, bytes
<1>5. PrefixBlocks(prefix) = {} /\ PrefixBlocks(prefix)' = {} /\ tracked' = {b}
  BY <1>1, <1>2 DEF PrefixBlocks
<1>6. host' = With(host, NewBlock(DOMAIN host), bytes)
  BY Zenon, <1>2 DEF b, bytes
<1>7. PrefixBlocks(prefix)' \cup tracked' =
        PrefixBlocks(prefix) \cup tracked \cup {NewBlock(DOMAIN host)}
  BY <1>1, <1>5 DEF b
<1>8. PrefixBlocks(prefix)' \cap tracked' = {}
  BY <1>5
<1>9. tracked' = IF fresh' = None THEN {} ELSE {fresh'.meta}
  BY <1>4, <1>5
<1>10. QED
  BY Zenon, <1>3, <1>6, <1>7, <1>8, <1>9, HostGets

LEMMA InstallHost ==
  ASSUME Types, Types', HostSound, Install
  PROVE  HostSound'
<1> DEFINE b == NewBlock(DOMAIN host)
           bytes == Planned(0, KVArrays(<<fresh.n>>))
<1>1. fresh \in Entry /\ prefix = None
  BY DEF Install, Types, Going, Building
<1>2. fresh # None /\ tracked = {fresh.meta}
  BY <1>1, NoneIsNoEntry DEF HostSound
<1>3. host' = With(host, b, bytes) /\ prefix' = [fresh EXCEPT !.kv = b]
      /\ tracked' = tracked \ {fresh.meta, b} /\ fresh' = None
  BY Zenon DEF Install
<1>4. UNCHANGED arena /\ at' # "freed"
  BY DEF Install
<1>b. b \in Nat
  BY NewBlockIsNew DEF HostSound
<1> HIDE DEF b, bytes
<1>5. prefix' \in Entry
  BY <1>1, <1>3, <1>b DEF Entry
<1>6. prefix'.meta = fresh.meta /\ prefix'.kv = b /\ prefix' # None
  BY <1>1, <1>3, <1>5, NoneIsNoEntry DEF Entry
<1>7. PrefixBlocks(prefix)' = {fresh.meta, b} /\ PrefixBlocks(prefix) = {} /\ tracked' = {}
  BY <1>1, <1>2, <1>3, <1>6 DEF PrefixBlocks
<1>8. host' = With(host, NewBlock(DOMAIN host), bytes)
  BY Zenon, <1>3 DEF b
<1>9. PrefixBlocks(prefix)' \cup tracked' =
        PrefixBlocks(prefix) \cup tracked \cup {NewBlock(DOMAIN host)}
  BY <1>2, <1>7 DEF b
<1>10. PrefixBlocks(prefix)' \cap tracked' = {}
  BY <1>7
<1>11. tracked' = IF fresh' = None THEN {} ELSE {fresh'.meta}
  BY <1>3, <1>7
<1>12. QED
  BY Zenon, <1>4, <1>8, <1>9, <1>10, <1>11, HostGets

LEMMA AbandonHost ==
  ASSUME HostSound, Abandon
  PROVE  HostSound'
<1>1. host' = Without(host, tracked) /\ UNCHANGED arena /\ at' # "freed" /\ UNCHANGED prefix
      /\ fresh' = None /\ tracked' = {}
  BY DEF Abandon, StillTracked
<1>2. PrefixBlocks(prefix)' = PrefixBlocks(prefix)
  BY <1>1 DEF PrefixBlocks
<1>3. tracked \cap Blocks = {} /\ PrefixBlocks(prefix) \cap tracked = {}
  BY DEF HostSound
<1>4. QED
  BY <1>1, <1>2, <1>3, HostFrees

LEMMA SessionFreeHost ==
  ASSUME Types, HostSound, SessionFree
  PROVE  HostSound'
<1> DEFINE gone == {arena[a].block : a \in Arenas} \cup PrefixBlocks(prefix)
<1>1. fresh = None /\ tracked = {}
  BY DEF SessionFree, Types, Going, Building, Passing, HostSound
<1>2. host' = Without(host, gone) /\ prefix' = None /\ UNCHANGED <<tracked, fresh>>
      /\ arena' = [a \in Arenas |-> Unallocated]
  BY DEF SessionFree
<1>3. DOMAIN host' = DOMAIN host \ gone
  BY <1>2, WithoutSome
<1>4. DOMAIN host' = {}
  BY <1>1, <1>3 DEF HostSound, Blocks
<1>5. host' = <<>>
  <2>1. host' = [x \in DOMAIN host \ gone |-> host[x]]
    BY <1>2 DEF Without
  <2>2. DOMAIN host \ gone = {}
    BY <1>3, <1>4
  <2>3. host' = [x \in {} |-> host[x]]
    BY <2>1, <2>2
  <2>4. QED
    BY <2>3
<1>6. \A a \in Arenas : arena'[a].block = 0
  BY <1>2 DEF Unallocated
<1>7. Blocks' = {} /\ PrefixBlocks(prefix)' = {}
  BY <1>2, <1>6 DEF Blocks, PrefixBlocks
<1>8. IsFiniteSet((DOMAIN host)')
  BY <1>4, FS_EmptySet
<1>9. QED
  BY <1>1, <1>2, <1>4, <1>5, <1>6, <1>7, <1>8 DEF HostSound

(* The other steps leave every block where it is. *)
LEMMA EmbedHost ==
  ASSUME Types, HostSound, Embed
  PROVE  HostSound'
<1> DEFINE arrays == <<pass.shape.n * H * Float32>>
           d == Take(arena["pass"], arrays)
<1>1. pass.shape \in Shape
  BY DEF Embed, Types, Going, Passing
<1>2. pass.shape.n * H * Float32 \in Nat
  BY Zenon, <1>1, BaseAligns DEF Base
<1>3. arrays \in Seq(Nat)
  BY <1>2
<1> HIDE DEF arrays
<1>4. arena \in [Arenas -> Region] /\ arena["pass"] \in Region
  BY DEF Types, Stored, Arenas
<1>5. d.block = arena["pass"].block /\ d.capacity = arena["pass"].capacity
  BY Zenon, <1>3, <1>4, TakeSound
<1>6. arena' = [arena EXCEPT !["pass"] = d]
  BY Zenon DEF Embed, Holds, arrays
<1> HIDE DEF d
<1>7. \A a \in Arenas : arena'[a].block = arena[a].block /\ arena'[a].capacity = arena[a].capacity
  BY <1>4, <1>5, <1>6
<1>8. UNCHANGED <<host, prefix, tracked, fresh>> /\ at' # "freed"
  BY DEF Embed
<1>9. QED
  BY Zenon, <1>7, <1>8, HostKept

LEMMA LayerHost ==
  ASSUME Types, HostSound, Layer
  PROVE  HostSound'
<1> DEFINE p == pass.shape
           a == arena["pass"]
           b == Take(a, Residual(p))
           c == TakeBriefly(b, AttentionTaken(p, layer))
           d == TakeBriefly(c, FeedForwardTaken(p))
<1>1. p \in Shape /\ ShapeSound(p) /\ p.n \in Nat /\ layer \in Nat
  BY DEF Layer, Types, Going, Passing, Shape
<1>2. arena \in [Arenas -> Region] /\ a \in Region
  BY DEF Types, Stored, Arenas
<1>3. Residual(p) \in Seq(Nat) /\ AttentionTaken(p, layer) \in Seq(Nat)
      /\ FeedForwardTaken(p) \in Seq(Nat)
  BY Zenon, <1>1, ResidualAligns, AttentionFits, FeedForwardExact
<1>4. b \in Region /\ b.block = a.block /\ b.capacity = a.capacity
  BY Zenon, <1>2, <1>3, TakeSound
<1> HIDE DEF b
<1>5. c \in Region /\ c.block = b.block /\ c.capacity = b.capacity
  BY Zenon, <1>3, <1>4, BrieflyKeeps
<1> HIDE DEF c
<1>6. d \in Region /\ d.block = c.block /\ d.capacity = c.capacity
  BY Zenon, <1>3, <1>5, BrieflyKeeps
<1>7. arena' = [arena EXCEPT !["pass"] = [d EXCEPT !.used = a.used]]
  BY Zenon, LayerArena DEF AfterLayer, b, c
<1> HIDE DEF d
<1>8. [d EXCEPT !.used = a.used].block = a.block /\ [d EXCEPT !.used = a.used].capacity = a.capacity
  BY <1>4, <1>5, <1>6 DEF Region
<1>9. \A x \in Arenas : arena'[x].block = arena[x].block /\ arena'[x].capacity = arena[x].capacity
  BY <1>2, <1>7, <1>8
<1>10. UNCHANGED <<host, prefix, tracked, fresh>> /\ at' # "freed"
  BY DEF Layer
<1>11. QED
  BY Zenon, <1>9, <1>10, HostKept

LEMMA ScoreHost ==
  ASSUME Types, HostSound, Score
  PROVE  HostSound'
<1> DEFINE d == TakeBriefly(arena["pass"], ScoreArrays(read))
<1>1. call \in Calls
  BY DEF Score, Types, Going
<1>2. ScoreArrays(read) \in Seq(Nat)
  BY Zenon, <1>1, ScoresTaken
<1>3. arena \in [Arenas -> Region] /\ arena["pass"] \in Region
  BY DEF Types, Stored, Arenas
<1>4. d.block = arena["pass"].block /\ d.capacity = arena["pass"].capacity
  BY Zenon, <1>2, <1>3, BrieflyKeeps
<1>5. arena' = [arena EXCEPT !["pass"] = d]
  BY Zenon DEF Score, Holds
<1> HIDE DEF d
<1>6. \A a \in Arenas : arena'[a].block = arena[a].block /\ arena'[a].capacity = arena[a].capacity
  BY <1>3, <1>4, <1>5
<1>7. UNCHANGED <<host, prefix, tracked, fresh>> /\ at' # "freed"
  BY DEF Score
<1>8. QED
  BY Zenon, <1>6, <1>7, HostKept

LEMMA EndsHost ==
  ASSUME Types, HostSound, PassEnd \/ KVEnd \/ ControlEnd
  PROVE  HostSound'
<1>1. "pass" \in Arenas /\ "kv" \in Arenas /\ "control" \in Arenas
  BY DEF Arenas
<1>2. arena \in [Arenas -> Region] /\ active \subseteq Arenas
  BY DEF Types, Stored
<1>3. PICK name \in Arenas : End(name)
  BY Zenon, <1>1 DEF PassEnd, KVEnd, ControlEnd
<1>4. \A a \in Arenas : arena'[a].block = arena[a].block /\ arena'[a].capacity = arena[a].capacity
  BY Zenon, <1>2, <1>3, EndArena
<1>5. UNCHANGED <<host, prefix, tracked, fresh>> /\ at' # "freed"
  BY DEF PassEnd, KVEnd, ControlEnd, Types, Going, Passing
<1>6. QED
  BY Zenon, <1>4, <1>5, HostKept

LEMMA OthersHost ==
  ASSUME Types, HostSound,
         \/ \E c \in Calls : Ask(c)
         \/ Hit \/ ReadAlone \/ ReadTogether
         \/ \E m \in {"activations", "pinned"} : DeviceBegin(m)
  PROVE  HostSound'
<1>1. UNCHANGED <<arena, host, prefix, tracked, fresh>> /\ at' # "freed"
  BY DEF Ask, Hit, ReadAlone, ReadTogether, DeviceBegin, storage
<1>2. \A a \in Arenas : arena'[a].block = arena[a].block /\ arena'[a].capacity = arena[a].capacity
  BY <1>1
<1>3. QED
  BY Zenon, <1>1, <1>2, HostKept

-----------------------------------------------------------------------------
(* Device memory. *)

LEMMA InitDevice == Init => DeviceSound /\ DeviceHolds
<1> SUFFICES ASSUME Init PROVE DeviceSound /\ DeviceHolds
  OBVIOUS
<1>1. DOMAIN gpu = {} /\ IsFiniteSet(DOMAIN gpu) /\ gpu = <<>>
  BY FS_EmptySet DEF Init
<1>2. \A m \in Memories : memory[m].bytes = 0 /\ memory[m].block = 0
  BY DEF Init
<1>3. Live = {}
  BY <1>2 DEF Live
<1>4. DeviceSound
  BY <1>1, <1>2, <1>3 DEF DeviceSound, DeviceOwned
<1>5. DeviceHolds
  BY DEF Init, DeviceHolds, Asked
<1>6. QED
  BY <1>4, <1>5

(* What is left when a block is freed. *)
LEMMA FreedBlock ==
  ASSUME DeviceOwned, memory \in [Memories -> Memory], NEW m \in Memories
  PROVE  /\ DOMAIN Freed(m) = {memory[k].block : k \in Live \ {m}}
         /\ IsFiniteSet(DOMAIN Freed(m)) /\ DOMAIN Freed(m) \subseteq Nat \ {0}
         /\ \A k \in Live \ {m} : Freed(m)[memory[k].block] = memory[k].bytes
<1> DEFINE o == memory[m].block
<1>1. /\ DOMAIN Freed(m) = DOMAIN gpu \ {o}
      /\ \A x \in DOMAIN gpu \ {o} : Freed(m)[x] = gpu[x]
      /\ IsFiniteSet(DOMAIN gpu \ {o})
  <2>1. /\ DOMAIN Without(gpu, {o}) = DOMAIN gpu \ {o}
        /\ \A x \in DOMAIN gpu \ {o} : Without(gpu, {o})[x] = gpu[x]
        /\ IsFiniteSet(DOMAIN gpu) => IsFiniteSet(DOMAIN gpu \ {o})
    BY Zenon, WithoutSome
  <2>2. Freed(m) = Without(gpu, {o}) /\ IsFiniteSet(DOMAIN gpu)
    BY DEF Freed, DeviceOwned
  <2>3. QED
    BY Zenon, <2>1, <2>2
<1>2. \A k \in Live \ {m} : memory[k].block \in DOMAIN gpu /\ memory[k].block # o
  <2>1. ASSUME NEW k \in Live \ {m} PROVE memory[k].block \in DOMAIN gpu /\ memory[k].block # o
    <3>1. memory[k].block \in DOMAIN gpu
      BY DEF DeviceOwned
    <3>2. CASE m \in Live
      BY <3>1, <3>2 DEF DeviceOwned
    <3>3. CASE m \notin Live
      BY <3>1, <3>3 DEF DeviceOwned
    <3>4. QED
      BY Zenon, <3>1, <3>2, <3>3
  <2>2. QED
    BY Zenon, <2>1
<1>3. DOMAIN gpu \ {o} = {memory[k].block : k \in Live \ {m}}
  <2>1. DOMAIN gpu = {memory[k].block : k \in Live}
    BY DEF DeviceOwned
  <2>2. QED
    BY <1>2, <2>1
<1>4. \A k \in Live \ {m} : Freed(m)[memory[k].block] = memory[k].bytes
  <2>1. ASSUME NEW k \in Live \ {m} PROVE Freed(m)[memory[k].block] = memory[k].bytes
    <3>1. Freed(m)[memory[k].block] = gpu[memory[k].block]
      BY Zenon, <1>1, <1>2
    <3>2. k \in Memories /\ k \in Live
      BY DEF Live
    <3>3. QED
      BY Zenon, <3>1, <3>2 DEF DeviceOwned
  <2>2. QED
    BY Zenon, <2>1
<1>5. DOMAIN Freed(m) \subseteq Nat \ {0}
  BY <1>1 DEF DeviceOwned
<1>6. QED
  BY Zenon, <1>1, <1>3, <1>4, <1>5

LEMMA RefusedOwned ==
  ASSUME DeviceOwned, memory \in [Memories -> Memory], NEW m \in Memories, Refused(m)
  PROVE  DeviceOwned'
<1>1. gpu' = Freed(m) /\ memory' = [memory EXCEPT ![m] = [block |-> 0, bytes |-> 0]]
  BY Zenon DEF Refused
<1>2. memory'[m].block = 0 /\ memory'[m].bytes = 0
  BY <1>1
<1>3. \A k \in Memories : k # m => memory'[k] = memory[k]
  BY <1>1
<1>4. Live' = Live \ {m}
  BY <1>2, <1>3 DEF Live
<1>5. \A k \in Live \ {m} : k \in Memories /\ memory'[k] = memory[k]
  BY <1>3 DEF Live
<1>6. /\ DOMAIN gpu' = {memory[k].block : k \in Live \ {m}}
      /\ \A k \in Live \ {m} : gpu'[memory[k].block] = memory[k].bytes
      /\ IsFiniteSet(DOMAIN gpu') /\ DOMAIN gpu' \subseteq Nat \ {0}
  BY Zenon, <1>1, FreedBlock
<1>7. (DOMAIN gpu)' = {memory'[k].block : k \in Live'}
  <2>1. {memory'[k].block : k \in Live \ {m}} = {memory[k].block : k \in Live \ {m}}
    BY <1>5
  <2>2. QED
    BY Zenon, <1>4, <1>6, <2>1
<1>8. ASSUME NEW k \in Memories
      PROVE  IF k \in Live' THEN gpu'[memory'[k].block] = memory'[k].bytes
             ELSE memory'[k].block = 0
  <2>1. CASE k = m
    BY <1>2, <1>4, <2>1
  <2>2. CASE k # m
    <3>1. k \in Live' <=> k \in Live
      BY <1>4, <2>2
    <3>2. memory'[k] = memory[k]
      BY Zenon, <1>3, <2>2
    <3>3. k \notin Live => memory[k].block = 0
      BY DEF DeviceOwned
    <3>4. k \in Live => gpu'[memory[k].block] = memory[k].bytes
      BY <1>6, <2>2
    <3>5. QED
      BY Zenon, <3>1, <3>2, <3>3, <3>4
  <2>3. QED
    BY Zenon, <2>1, <2>2
<1>9. ASSUME NEW j \in Live', NEW k \in Live', memory'[j].block = memory'[k].block
      PROVE  j = k
  BY <1>4, <1>5, <1>9 DEF DeviceOwned
<1>10. (\A j \in Memories : IF j \in Live THEN gpu[memory[j].block] = memory[j].bytes
                           ELSE memory[j].block = 0)'
  BY Zenon, <1>8
<1>11. (\A j, k \in Live : memory[j].block = memory[k].block => j = k)'
  BY Zenon, <1>9
<1>12. QED
  BY Zenon, <1>6, <1>7, <1>10, <1>11 DEF DeviceOwned

LEMMA RenewedOwned ==
  ASSUME DeviceOwned, memory \in [Memories -> Memory], NEW m \in Memories,
         NEW bytes \in Nat \ {0}, Renewed(m, bytes)
  PROVE  DeviceOwned'
<1> DEFINE b == NewBlock(DOMAIN Freed(m))
<1>1. gpu' = With(Freed(m), b, bytes)
      /\ memory' = [memory EXCEPT ![m] = [block |-> b, bytes |-> bytes]]
  BY Zenon DEF Renewed
<1>2. memory'[m].block = b /\ memory'[m].bytes = bytes
  BY <1>1
<1>3. \A k \in Memories : k # m => memory'[k] = memory[k]
  BY <1>1
<1>4. Live' = Live \cup {m}
  BY <1>2, <1>3 DEF Live
<1>5. \A k \in Live \ {m} : k \in Memories /\ memory'[k] = memory[k]
  BY <1>3 DEF Live
<1>6. /\ DOMAIN Freed(m) = {memory[k].block : k \in Live \ {m}}
      /\ \A k \in Live \ {m} : Freed(m)[memory[k].block] = memory[k].bytes
      /\ IsFiniteSet(DOMAIN Freed(m)) /\ DOMAIN Freed(m) \subseteq Nat \ {0}
  BY Zenon, FreedBlock
<1>7. b \in Nat \ {0} /\ b \notin DOMAIN Freed(m)
  BY Zenon, <1>6, NewBlockIsNew
<1> HIDE DEF b
<1>8. DOMAIN gpu' = DOMAIN Freed(m) \cup {b}
  BY Zenon, <1>1, WithDomain
<1>9. gpu'[b] = bytes
  <2>1. With(Freed(m), b, bytes)[b] = bytes
    BY SMT, WithNew
  <2>2. QED
    BY Zenon, <1>1, <2>1
<1>10. \A x \in DOMAIN Freed(m) : x # b => gpu'[x] = Freed(m)[x]
  BY Zenon, <1>1, WithOld
<1>11. IsFiniteSet(DOMAIN gpu')
  <2>1. IsFiniteSet(DOMAIN Freed(m) \cup {b})
    BY Zenon, <1>6, FS_AddElement
  <2>2. QED
    BY Zenon, <1>8, <2>1
<1>12. DOMAIN gpu' \subseteq Nat \ {0}
  BY <1>6, <1>7, <1>8
<1>13. \A k \in Live \ {m} : memory[k].block \in DOMAIN Freed(m) /\ memory[k].block # b
  BY <1>6, <1>7
<1>14. (DOMAIN gpu)' = {memory'[k].block : k \in Live'}
  <2>1. {memory'[k].block : k \in Live'} = {memory'[k].block : k \in Live \ {m}} \cup {memory'[m].block}
    BY <1>4
  <2>2. {memory'[k].block : k \in Live \ {m}} = {memory[k].block : k \in Live \ {m}}
    BY <1>5
  <2>3. QED
    BY Zenon, <1>2, <1>6, <1>8, <2>1, <2>2
<1>15. ASSUME NEW k \in Memories
       PROVE  IF k \in Live' THEN gpu'[memory'[k].block] = memory'[k].bytes
              ELSE memory'[k].block = 0
  <2>1. CASE k = m
    BY <1>2, <1>4, <1>9, <2>1
  <2>2. CASE k # m
    <3>1. k \in Live' <=> k \in Live
      BY <1>4, <2>2
    <3>2. memory'[k] = memory[k]
      BY Zenon, <1>3, <2>2
    <3>3. k \notin Live => memory[k].block = 0
      BY DEF DeviceOwned
    <3>4. k \in Live => gpu'[memory[k].block] = memory[k].bytes
      <4>1. SUFFICES ASSUME k \in Live PROVE gpu'[memory[k].block] = memory[k].bytes
        OBVIOUS
      <4>2. k \in Live \ {m}
        BY <2>2, <4>1
      <4>3. QED
        BY Zenon, <1>6, <1>10, <1>13, <4>2
    <3>5. QED
      BY Zenon, <3>1, <3>2, <3>3, <3>4
  <2>3. QED
    BY Zenon, <2>1, <2>2
<1>16. ASSUME NEW j \in Live', NEW k \in Live', memory'[j].block = memory'[k].block
       PROVE  j = k
  <2>1. CASE j = m /\ k # m
    BY <1>2, <1>4, <1>5, <1>13, <1>16, <2>1
  <2>2. CASE k = m /\ j # m
    BY <1>2, <1>4, <1>5, <1>13, <1>16, <2>2
  <2>3. CASE j # m /\ k # m
    BY <1>4, <1>5, <1>16, <2>3 DEF DeviceOwned
  <2>4. QED
    BY Zenon, <2>1, <2>2, <2>3
<1>17. (\A j \in Memories : IF j \in Live THEN gpu[memory[j].block] = memory[j].bytes
                            ELSE memory[j].block = 0)'
  BY Zenon, <1>15
<1>18. (\A j, k \in Live : memory[j].block = memory[k].block => j = k)'
  BY Zenon, <1>16
<1>19. QED
  BY Zenon, <1>11, <1>12, <1>14, <1>17, <1>18 DEF DeviceOwned

LEMMA DeviceKept ==
  ASSUME DeviceSound, UNCHANGED <<gpu, memory>>, at' # "freed"
  PROVE  DeviceSound'
<1>1. Live' = Live
  BY DEF Live
<1>2. DeviceOwned'
  BY <1>1 DEF DeviceSound, DeviceOwned
<1>3. QED
  BY <1>2 DEF DeviceSound

LEMMA OthersDevice ==
  ASSUME Types, DeviceSound,
         \/ \E c \in Calls : Ask(c)
         \/ ControlBegin \/ KVBegin \/ Hit \/ Miss \/ Metadata \/ Install
         \/ PassBegin \/ PassEnd \/ ReadAlone \/ ReadTogether \/ KVEnd \/ ControlEnd \/ Fail
  PROVE  DeviceSound' /\ DeviceHolds'
<1>1. UNCHANGED <<gpu, memory>> /\ at' # "freed" /\ Asked' = {}
  <2>1. CASE (\E c \in Calls : Ask(c)) \/ ControlBegin \/ KVBegin
    BY <2>1 DEF Ask, ControlBegin, KVBegin, storage, Asked
  <2>2. CASE Hit \/ Miss \/ Metadata \/ Install
    BY <2>2 DEF Hit, Miss, Metadata, Install, storage, Asked
  <2>3. CASE PassBegin
    BY <2>3 DEF PassBegin, Asked, Accel
  <2>4. CASE PassEnd
    BY <2>4 DEF PassEnd, Asked, Types, Going, Passing
  <2>5. CASE ReadAlone \/ ReadTogether \/ KVEnd \/ ControlEnd
    BY <2>5 DEF ReadAlone, ReadTogether, KVEnd, ControlEnd, storage, Asked
  <2>6. CASE Fail
    BY <2>6 DEF Fail, Abandon, Asked
  <2>7. QED
    BY Zenon, <2>1, <2>2, <2>3, <2>4, <2>5, <2>6
<1>2. DeviceSound'
  BY Zenon, <1>1, DeviceKept
<1>3. DeviceHolds'
  BY <1>1 DEF DeviceHolds
<1>4. QED
  BY <1>2, <1>3

LEMMA DeviceBeginDevice ==
  ASSUME Types, DeviceSound, DeviceHolds, NEW m \in {"activations", "pinned"}, DeviceBegin(m)
  PROVE  DeviceSound' /\ DeviceHolds'
<1> DEFINE bytes == DeviceBytesOf(m)
<1>1. m \in Memories /\ at \in Passing /\ memory \in [Memories -> Memory] /\ at' # "freed"
  BY DEF DeviceBegin, Memories, Passing, Types, Stored
<1>2. \A k : DeviceBytesOf(k) \in Nat
  BY Zenon, <1>1, DeviceBytesNat
<1>3. \A k : DeviceBytesOf(k)' = DeviceBytesOf(k)
  BY DEF DeviceBegin, DeviceBytesOf, DeviceBytes, PinnedBytes, StagedFloats
<1>4. /\ IF memory[m].bytes < bytes THEN Renewed(m, bytes) ELSE UNCHANGED <<gpu, memory>>
      /\ DeviceOwned /\ memory[m].bytes \in Nat
  BY <1>1 DEF DeviceBegin, DeviceSound, Memory
<1>5. DeviceSound' /\ memory'[m].bytes >= bytes
      /\ \A k \in Memories : k # m => memory'[k] = memory[k]
  <2>1. CASE memory[m].bytes < bytes
    <3>1. bytes \in Nat \ {0}
      BY <1>2, <1>4, <2>1
    <3>2. Renewed(m, bytes)
      BY Zenon, <1>4, <2>1
    <3>3. DeviceOwned'
      BY Zenon, <1>1, <1>4, <3>1, <3>2, RenewedOwned
    <3>4. memory' = [memory EXCEPT ![m] = [block |-> memory'[m].block, bytes |-> bytes]]
      <4>1. memory' = [memory EXCEPT ![m] = [block |-> NewBlock(DOMAIN Freed(m)), bytes |-> bytes]]
        BY Zenon, <3>2 DEF Renewed
      <4> HIDE DEF bytes
      <4>2. memory'[m].block = NewBlock(DOMAIN Freed(m))
        BY <1>1, <4>1
      <4>3. QED
        BY <4>1, <4>2
    <3> HIDE DEF bytes
    <3>5. memory'[m].bytes = bytes /\ \A k \in Memories : k # m => memory'[k] = memory[k]
      BY <1>1, <3>4
    <3>6. QED
      BY <1>1, <3>1, <3>3, <3>5 DEF DeviceSound
  <2>2. CASE ~(memory[m].bytes < bytes)
    <3>1. UNCHANGED <<gpu, memory>>
      BY Zenon, <1>4, <2>2
    <3>2. DeviceSound'
      BY Zenon, <1>1, <3>1, DeviceKept
    <3>3. bytes \in Nat
      BY Zenon, <1>2
    <3> HIDE DEF bytes
    <3>4. QED
      BY <1>4, <2>2, <3>1, <3>2, <3>3
  <2>3. QED
    BY Zenon, <2>1, <2>2
<1>6. Asked' \subseteq Asked \cup {m}
  BY DEF DeviceBegin, Asked, Accel
<1>7. Asked \subseteq Memories
  BY DEF Asked, Memories
<1> HIDE DEF bytes
<1>8. ASSUME NEW k \in Asked' PROVE memory'[k].bytes >= DeviceBytesOf(k)'
  <2>1. CASE k = m
    BY <1>3, <1>5, <2>1 DEF bytes
  <2>2. CASE k # m
    <3>1. k \in Asked /\ memory'[k] = memory[k]
      BY <1>5, <1>6, <1>7, <2>2
    <3>2. memory[k].bytes >= DeviceBytesOf(k)
      BY Zenon, <3>1 DEF DeviceHolds
    <3>3. QED
      BY Zenon, <1>3, <3>1, <3>2
  <2>3. QED
    BY Zenon, <2>1, <2>2
<1>9. QED
  BY Zenon, <1>5, <1>8 DEF DeviceHolds

LEMMA HoldsOn ==
  ASSUME DeviceHolds, UNCHANGED <<model>>, pass'.shape = pass.shape, Asked' \subseteq Asked,
         \A k \in Asked : memory'[k] = memory[k]
  PROVE  DeviceHolds'
<1>1. \A k : DeviceBytesOf(k)' = DeviceBytesOf(k)
  BY DEF DeviceBytesOf, DeviceBytes, PinnedBytes, StagedFloats
<1>2. ASSUME NEW k \in Asked' PROVE memory'[k].bytes >= DeviceBytesOf(k)'
  <2>1. k \in Asked /\ memory'[k] = memory[k]
    OBVIOUS
  <2>2. memory[k].bytes >= DeviceBytesOf(k)
    BY Zenon, <2>1 DEF DeviceHolds
  <2>3. QED
    BY Zenon, <1>1, <2>1, <2>2
<1>3. QED
  BY Zenon, <1>2 DEF DeviceHolds

LEMMA EmbedDevice ==
  ASSUME Types, DeviceSound, DeviceHolds, Embed \/ Layer
  PROVE  DeviceSound' /\ DeviceHolds'
<1>1. UNCHANGED <<gpu, memory, model, pass>> /\ at' # "freed" /\ Asked' \subseteq Asked
  BY DEF Embed, Layer, Asked, Accel
<1>2. DeviceSound'
  BY Zenon, <1>1, DeviceKept
<1>3. DeviceHolds'
  BY Zenon, <1>1, HoldsOn
<1>4. QED
  BY <1>2, <1>3

LEMMA ScoreDevice ==
  ASSUME Types, DeviceSound, DeviceHolds, Score
  PROVE  DeviceSound' /\ DeviceHolds'
<1> DEFINE s == "scratch"
           bytes == call.questions * H * Float32 + call.questions * Vocab * Float32
<1>1. s \in Memories /\ memory \in [Memories -> Memory] /\ DeviceOwned /\ at' # "freed"
      /\ memory[s].bytes \in Nat
  BY DEF Score, Memories, Types, Stored, DeviceSound, Memory
<1>2. UNCHANGED model /\ pass'.shape = pass.shape /\ Asked' \subseteq Asked
      /\ Asked \subseteq Memories \ {s}
  BY DEF Score, Asked, Accel, Memories, Types, Going, Passing
<1>3. bytes \in Nat
  <2>1. call.questions \in Nat
    BY CallTypes DEF Score, Types, Going
  <2>2. H \in Nat /\ Vocab \in Nat
    BY WorkspaceAssumption
  <2>3. call.questions * H * Float32 \in Nat /\ call.questions * Vocab * Float32 \in Nat
    BY <2>1, <2>2, Times DEF Float32
  <2>4. QED
    BY <2>3
<1>4. \/ memory[s].bytes < bytes /\ (Renewed(s, bytes) \/ Refused(s))
      \/ UNCHANGED <<gpu, memory>>
  BY Zenon DEF Score, Scratch
<1> HIDE DEF bytes, s
<1>5. DeviceSound' /\ \A k \in Memories \ {s} : memory'[k] = memory[k]
  <2>1. CASE memory[s].bytes < bytes /\ Renewed(s, bytes)
    <3>1. bytes \in Nat \ {0}
      BY <1>1, <1>3, <2>1
    <3>2. DeviceOwned'
      BY Zenon, <1>1, <2>1, <3>1, RenewedOwned
    <3>3. memory' = [memory EXCEPT ![s] = [block |-> NewBlock(DOMAIN Freed(s)), bytes |-> bytes]]
      BY Zenon, <2>1 DEF Renewed
    <3>4. QED
      BY <1>1, <3>2, <3>3 DEF DeviceSound
  <2>2. CASE Refused(s)
    <3>1. DeviceOwned'
      BY Zenon, <1>1, <2>2, RefusedOwned
    <3>2. memory' = [memory EXCEPT ![s] = [block |-> 0, bytes |-> 0]]
      BY Zenon, <2>2 DEF Refused
    <3>3. QED
      BY <1>1, <3>1, <3>2 DEF DeviceSound
  <2>3. CASE UNCHANGED <<gpu, memory>>
    <3>1. DeviceSound'
      BY Zenon, <1>1, <2>3, DeviceKept
    <3>2. QED
      BY <2>3, <3>1
  <2>4. QED
    BY Zenon, <1>4, <2>1, <2>2, <2>3
<1>6. \A k \in Asked : memory'[k] = memory[k]
  BY Zenon, <1>2, <1>5
<1>7. DeviceHolds'
  BY Zenon, <1>2, <1>6, HoldsOn
<1>8. QED
  BY <1>5, <1>7

LEMMA DeviceFailsDevice ==
  ASSUME Types, DeviceSound, NEW m \in {"activations", "pinned"}, DeviceFails(m)
  PROVE  DeviceSound' /\ DeviceHolds'
<1>1. m \in Memories /\ memory \in [Memories -> Memory] /\ DeviceOwned
  BY DEF Memories, Types, Stored, DeviceSound
<1>2. Refused(m) /\ at' = "idle"
  BY DEF DeviceFails, Abandon
<1>3. DeviceOwned'
  BY Zenon, <1>1, <1>2, RefusedOwned
<1>4. QED
  BY <1>2, <1>3 DEF DeviceSound, DeviceHolds, Asked

LEMMA SessionFreeDevice ==
  ASSUME Types, DeviceSound, SessionFree
  PROVE  DeviceSound' /\ DeviceHolds'
<1> DEFINE gone == {Destroyed(m) : m \in Memories}
<1>1. gpu' = Without(gpu, gone) /\ memory' = [m \in Memories |-> [block |-> 0, bytes |-> 0]]
      /\ at' = "freed"
  BY Zenon DEF SessionFree
<1>2. DOMAIN gpu \subseteq gone
  BY DEF DeviceSound, DeviceOwned, Live, Destroyed
<1>3. gpu' = <<>>
  <2>1. gpu' = [x \in DOMAIN gpu \ gone |-> gpu[x]]
    BY Zenon, <1>1 DEF Without
  <2>2. DOMAIN gpu \ gone = {}
    BY <1>2
  <2> HIDE DEF gone
  <2>3. gpu' = [x \in {} |-> gpu[x]]
    BY <2>1, <2>2
  <2>4. QED
    BY <2>3
<1>4. DOMAIN gpu' = {} /\ IsFiniteSet((DOMAIN gpu)')
  BY <1>3, FS_EmptySet
<1>5. \A m \in Memories : memory'[m].bytes = 0 /\ memory'[m].block = 0
  BY <1>1
<1>6. Live' = {}
  BY <1>5 DEF Live
<1>7. DeviceOwned'
  BY <1>4, <1>5, <1>6 DEF DeviceOwned
<1>8. QED
  BY <1>1, <1>3, <1>7 DEF DeviceSound, DeviceHolds, Asked

-----------------------------------------------------------------------------
(* What is planned is what is taken. *)

LEMMA InitPlans == Init => PlansSound
BY DEF Init, PlansSound, ReadsSound, Passing, Filling

(* Both arenas of a call stay full while its passes run. *)
LEMMA StillFull ==
  ASSUME PlansSound, at \in Filling \cup Passing, UNCHANGED call,
         arena'["kv"] = arena["kv"], arena'["control"] = arena["control"]
  PROVE  Full("kv")' /\ (Len(call.lens) > 1 => Full("control"))'
BY DEF PlansSound, Full

LEMMA ReadsKept ==
  ASSUME ReadsSound, at \in Passing \ {"end"}, UNCHANGED <<call, read, pass>>
  PROVE  ReadsSound'
<1>1. ScoreBytes(read)' = ScoreBytes(read) /\ (Decides(read) <=> Decides(read)')
  BY DEF ScoreBytes, ScoreArrays, Decides
<1>2. QED
  BY <1>1 DEF ReadsSound

LEMMA NoReads ==
  ASSUME at' \in Passing => pass'.shape.tail = 0 /\ pass'.reads = 0
  PROVE  ReadsSound'
BY DEF ReadsSound

LEMMA AskPlans ==
  ASSUME Types, PlansSound, NEW c \in Calls, Ask(c)
  PROVE  PlansSound'
<1>1. ~internal'
  BY DEF Ask, storage, PlansSound
<1>2. at' \notin Filling \cup Passing /\ at' # "unwind"
      /\ (at' = "kv" => ~(Len(call'.lens) > 1))
  BY DEF Ask, Filling, Passing
<1>3. QED
  BY <1>1, <1>2 DEF PlansSound, ReadsSound

(* A plan for an arena, and all of it taken. *)
LEMMA FilledUp ==
  ASSUME NEW a \in Region, NEW arrays \in Seq(Nat), Planned(0, arrays) \in Nat,
         IsFiniteSet(DOMAIN host)
  PROVE  LET b == Take(Reserved(a, Planned(0, arrays)).arena, arrays)
         IN  b \in Region /\ b.used = b.size /\ b.peak = b.size
<1> DEFINE planned == Planned(0, arrays)
           r == Reserved(a, planned).arena
           b == Take(r, arrays)
<1>1. r \in Region /\ r.used = 0 /\ r.peak = 0 /\ r.size = planned
  BY Zenon, ReservedSound
<1> HIDE DEF r
<1>2. b \in Region /\ b.used = Planned(r.used, arrays)
      /\ b.peak = Larger(r.peak, Planned(r.used, arrays)) /\ b.size = r.size
  BY Zenon, <1>1, TakeSound
<1> HIDE DEF b
<1>3. b.used = planned /\ b.peak = Larger(0, planned) /\ b.size = planned
  BY Zenon, <1>1, <1>2
<1>4. Larger(0, planned) = planned
  BY DEF Larger
<1>5. b \in Region /\ b.used = b.size /\ b.peak = b.size
  BY Zenon, <1>2, <1>3, <1>4
<1>6. QED
  BY Zenon, <1>5 DEF b, r

LEMMA ControlBeginPlans ==
  ASSUME Types, HostSound, PlansSound, ControlBegin
  PROVE  PlansSound'
<1> DEFINE rows == Len(call.lens)
           arrays == ControlArrays(rows, Longest, rows * call.groups, call.width)
           required == Planned(0, arrays)
           b == Take(Reserved(arena["control"], required).arena, arrays)
<1>1. call \in Calls /\ prefix \in Entry /\ \A i \in DOMAIN call.lens : call.lens[i] > prefix.n
  BY DEF ControlBegin, Types, Stored, Going
<1>2. rows \in Nat /\ call.groups \in Nat /\ call.width \in Nat /\ rows * call.groups \in Nat
  BY <1>1, CallTypes, Times
<1>3. Longest \in Nat
  BY Zenon, <1>1, LongestNat
<1>4. arrays \in Seq(Nat) /\ required \in Nat
  BY Zenon, <1>2, <1>3, ControlTaken
<1>5. arena \in [Arenas -> Region] /\ "control" \in Arenas
  BY DEF Types, Stored, Arenas
<1>6. arena["control"] \in Region /\ IsFiniteSet(DOMAIN host)
  BY <1>5 DEF HostSound
<1> HIDE DEF arrays
<1>7. arena' = [arena EXCEPT !["control"] = b] /\ internal' = (internal \/ b.peak > b.size)
  BY Zenon DEF ControlBegin, Holds, arrays
<1>8. b \in Region /\ b.used = b.size /\ b.peak = b.size
  BY Zenon, <1>4, <1>6, FilledUp
<1> HIDE DEF b
<1>9. arena'["control"] = b
  BY <1>5, <1>7
<1>10. ~internal'
  <2>1. ~(b.peak > b.size)
    BY <1>8 DEF Region
  <2>2. QED
    BY Zenon, <1>7, <2>1 DEF PlansSound
<1>11. Full("control")'
  BY <1>8, <1>9 DEF Full
<1>12. at' = "kv"
  BY DEF ControlBegin
<1>13. QED
  BY <1>10, <1>11, <1>12 DEF PlansSound, ReadsSound, Filling, Passing

LEMMA KVBeginPlans ==
  ASSUME Types, HostSound, PlansSound, KVBegin
  PROVE  PlansSound'
<1> DEFINE arrays == KVArrays(call.lens)
           required == Planned(0, arrays)
           b == Take(Reserved(arena["kv"], required).arena, arrays)
<1>1. call.lens \in Seq(Nat)
  <2>1. call \in Calls
    BY DEF KVBegin, Types, Going
  <2>2. QED
    BY Zenon, <2>1, CallTypes
<1>2. arrays \in Seq(Nat) /\ required \in Nat
  BY Zenon, <1>1, KVTaken
<1>3. arena \in [Arenas -> Region] /\ "kv" \in Arenas
  BY DEF Types, Stored, Arenas
<1>4. arena["kv"] \in Region /\ IsFiniteSet(DOMAIN host)
  BY <1>3 DEF HostSound
<1> HIDE DEF arrays
<1>5. arena' = [arena EXCEPT !["kv"] = b] /\ internal' = (internal \/ b.peak # b.size)
  BY Zenon DEF KVBegin, arrays
<1>6. b \in Region /\ b.used = b.size /\ b.peak = b.size
  BY Zenon, <1>2, <1>4, FilledUp
<1> HIDE DEF b
<1>7. arena'["kv"] = b /\ arena'["control"] = arena["control"]
  BY <1>3, <1>5
<1>8. ~internal'
  BY <1>5, <1>6 DEF PlansSound
<1>9. Full("kv")'
  BY <1>6, <1>7 DEF Full
<1>10. (Len(call.lens) > 1 => Full("control"))'
  BY <1>7 DEF KVBegin, PlansSound, Full
<1>11. at' \in {"lookup", "begin"} /\ ReadsSound'
  <2>1. CASE Len(call.lens) > 1
    <3>1. pass'.shape.tail = 0 /\ pass'.reads = 0 /\ at' = "begin"
      BY <2>1 DEF KVBegin, PrefillSuffixMulti
    <3>2. QED
      BY <3>1, NoReads
  <2>2. CASE ~(Len(call.lens) > 1)
    <3>1. at' = "lookup"
      BY <2>2 DEF KVBegin
    <3>2. QED
      BY <3>1, NoReads DEF Passing
  <2>3. QED
    BY Zenon, <2>1, <2>2
<1>12. at' \in Passing => PassSound'
  BY <1>11 DEF Passing, PassSound
<1>13. QED
  BY Zenon, <1>8, <1>9, <1>10, <1>11, <1>12 DEF PlansSound

LEMMA FillingPlans ==
  ASSUME Types, PlansSound, Hit \/ Miss \/ Metadata \/ Install
  PROVE  PlansSound'
<1>1. at \in Filling /\ UNCHANGED <<call, arena, internal>>
      /\ at' \in Filling \cup {"begin"}
  BY DEF Hit, Miss, Metadata, Install, storage, Filling
<1>2. at' = "begin" => pass'.shape.tail = 0 /\ pass'.reads = 0
  BY DEF Hit, Miss, Metadata, Install, PrefillSuffix, Prefill
<1>3. ReadsSound'
  BY <1>1, <1>2, NoReads DEF Filling, Passing
<1>4. at' \in Passing => PassSound'
  BY <1>1 DEF Filling, Passing, PassSound
<1>5. Full("kv")' /\ (Len(call.lens) > 1 => Full("control"))'
  BY <1>1, StillFull
<1>6. ~internal'
  BY <1>1 DEF PlansSound
<1>7. QED
  BY Zenon, <1>3, <1>4, <1>5, <1>6 DEF PlansSound

LEMMA PassBeginPlans ==
  ASSUME Types, HostSound, PlansSound, PassBegin
  PROVE  PlansSound'
<1> DEFINE p == pass.shape
           required == PassBytes(p)
           r == Reserved(arena["pass"], required)
<1>1. p \in Shape /\ ShapeSound(p)
  BY DEF PassBegin, Types, Going, Passing
<1>2. required \in Nat /\ required = Base(p) + Larger(LayerBytes(p), p.tail)
  BY Zenon, <1>1, PassBytesAre
<1>3. arena \in [Arenas -> Region] /\ "pass" \in Arenas
  BY DEF Types, Stored, Arenas
<1>4. arena["pass"] \in Region /\ IsFiniteSet(DOMAIN host)
  BY <1>3 DEF HostSound
<1>5. arena' = [arena EXCEPT !["pass"] = r.arena]
  BY Zenon DEF PassBegin, Begin
<1>6. r.arena.used = 0 /\ r.arena.peak = 0 /\ r.arena.size = required
  BY Zenon, <1>2, <1>4, ReservedSound
<1>7. UNCHANGED <<model, call, read, pass, internal>> /\ at = "begin"
      /\ at' \in {"activations", "embed"}
  BY DEF PassBegin
<1> HIDE DEF r
<1>8. arena'["pass"] = r.arena /\ arena'["kv"] = arena["kv"] /\ arena'["control"] = arena["control"]
  BY <1>3, <1>5
<1>9. (Base(p) + Larger(LayerBytes(p), p.tail))' = Base(p) + Larger(LayerBytes(p), p.tail)
  BY <1>7 DEF Base, LayerBytes, Residual, AttentionPlan, FeedForwardPlan, Accel, NVFP4
<1> HIDE DEF required
<1>10. PassSound'
  <2>1. arena'["pass"].used = 0 /\ arena'["pass"].peak = 0
        /\ arena'["pass"].size = (Base(p) + Larger(LayerBytes(p), p.tail))'
    BY Zenon, <1>2, <1>6, <1>8, <1>9
  <2>2. QED
    BY <1>7, <2>1 DEF PassSound
<1>11. ReadsSound'
  BY <1>7, ReadsKept DEF PlansSound, Passing
<1>12. Full("kv")' /\ (Len(call.lens) > 1 => Full("control"))'
  BY <1>7, <1>8, StillFull DEF Passing
<1>13. ~internal'
  BY <1>7 DEF PlansSound
<1>14. QED
  BY Zenon, <1>10, <1>11, <1>12, <1>13 DEF PlansSound

LEMMA DeviceBeginPlans ==
  ASSUME Types, PlansSound, NEW m \in {"activations", "pinned"}, DeviceBegin(m)
  PROVE  PlansSound'
<1>1. UNCHANGED <<model, arena, call, read, pass, internal>> /\ at \in {"activations", "pinned"}
      /\ at' \in {"pinned", "embed"}
  BY DEF DeviceBegin
<1>2. PassSound'
  <2>1. (Base(pass.shape) + Larger(LayerBytes(pass.shape), pass.shape.tail))'
        = Base(pass.shape) + Larger(LayerBytes(pass.shape), pass.shape.tail)
    BY <1>1 DEF Base, LayerBytes, Residual, AttentionPlan, FeedForwardPlan, Accel, NVFP4
  <2>2. PassSound
    BY <1>1 DEF PlansSound, Passing
  <2>3. arena'["pass"].used = 0 /\ arena'["pass"].peak = 0
        /\ arena'["pass"].size = (Base(pass.shape) + Larger(LayerBytes(pass.shape), pass.shape.tail))'
    BY <1>1, <2>1, <2>2 DEF PassSound
  <2>4. QED
    BY <1>1, <2>3 DEF PassSound
<1>3. ReadsSound'
  BY <1>1, ReadsKept DEF PlansSound, Passing
<1>4. Full("kv")' /\ (Len(call.lens) > 1 => Full("control"))'
  BY <1>1, StillFull DEF Passing
<1>5. ~internal'
  BY <1>1 DEF PlansSound
<1>6. QED
  BY Zenon, <1>2, <1>3, <1>4, <1>5 DEF PlansSound

(* The bytes of a pass do not change while it runs. *)
LEMMA SameBytes ==
  ASSUME UNCHANGED model, pass'.shape = pass.shape
  PROVE  /\ Base(pass.shape)' = Base(pass.shape)
         /\ LayerBytes(pass.shape)' = LayerBytes(pass.shape)
         /\ pass.shape.tail' = pass.shape.tail
BY DEF Base, LayerBytes, Residual, AttentionPlan, FeedForwardPlan, Accel, NVFP4

LEMMA EmbedPlans ==
  ASSUME Types, PlansSound, Embed
  PROVE  PlansSound'
<1> DEFINE p == pass.shape
           a == arena["pass"]
           base == Base(p)
           layers == LayerBytes(p)
           b == Take(a, <<base>>)
<1>1. p \in Shape /\ ShapeSound(p) /\ p.tail \in Nat
  BY DEF Embed, Types, Going, Passing, Shape
<1>2. base \in Nat /\ layers \in Nat
  BY Zenon, <1>1, BaseAligns, LayerBytesNat
<1>3. arena \in [Arenas -> Region] /\ "pass" \in Arenas
  BY DEF Types, Stored, Arenas
<1>4. a \in Region /\ a.used = 0 /\ a.peak = 0 /\ a.size = base + Larger(layers, p.tail)
  <2>1. PassSound /\ at = "embed"
    BY DEF Embed, PlansSound, Passing
  <2>2. QED
    BY <1>3, <2>1 DEF PassSound
<1>5. UNCHANGED <<model, call, read, pass>> /\ at = "embed" /\ at' = "layers" /\ layer' = 0
  BY DEF Embed
<1>6. arena' = [arena EXCEPT !["pass"] = b] /\ internal' = (internal \/ b.peak > b.size)
  BY Zenon DEF Embed, Holds, Base
<1>7. Base(p)' = base /\ LayerBytes(p)' = layers /\ p.tail' = p.tail
  BY Zenon, <1>5, SameBytes
<1> HIDE DEF base, layers
<1>8. <<base>> \in Seq(Nat)
  BY <1>2
<1>9. Planned(0, <<base>>) = base
  <2>1. Planned(0, <<base>>) = Then(0, base)
    BY Zenon, <1>2, PlannedOne, Numbers
  <2>2. Then(0, base) = base
    BY <1>2 DEF Then, AlignUp
  <2>3. QED
    BY <2>1, <2>2
<1>10. b.used = base /\ b.peak = Larger(0, base) /\ b.size = a.size
  <2>1. b.used = Planned(a.used, <<base>>) /\ b.peak = Larger(a.peak, Planned(a.used, <<base>>))
        /\ b.size = a.size
    BY Zenon, <1>4, <1>8, TakeSound
  <2>2. QED
    BY Zenon, <1>4, <1>9, <2>1
<1> HIDE DEF b
<1>11. b.peak = base /\ b.size = base + Larger(layers, p.tail) /\ ~(b.peak > b.size)
  BY <1>1, <1>2, <1>4, <1>10 DEF Larger
<1>12. arena'["pass"] = b /\ arena'["kv"] = arena["kv"] /\ arena'["control"] = arena["control"]
  BY <1>3, <1>6
<1>13. PassSound'
  <2>1. 0 < Layers /\ Layers \in Nat
    BY WorkspaceAssumption
  <2>2. arena'["pass"].size = Base(p)' + Larger(LayerBytes(p)', p.tail')
        /\ arena'["pass"].used = Base(p)' /\ Base(p)' <= arena'["pass"].peak
        /\ arena'["pass"].peak <= Base(p)' + LayerBytes(p)'
    BY <1>2, <1>7, <1>10, <1>11, <1>12
  <2>3. layer' < Layers /\ ~(\E l \in 0..(layer' - 1) : IsFull(l))
    BY <1>5, <2>1
  <2>4. QED
    BY <1>5, <2>2, <2>3 DEF PassSound
<1>14. ReadsSound'
  BY <1>5, ReadsKept DEF PlansSound, Passing
<1>15. Full("kv")' /\ (Len(call.lens) > 1 => Full("control"))'
  BY <1>5, <1>12, StillFull DEF Passing
<1>16. ~internal'
  BY <1>6, <1>11 DEF PlansSound
<1>17. QED
  BY Zenon, <1>13, <1>14, <1>15, <1>16 DEF PlansSound

LEMMA RoomForUploads ==
  ASSUME NEW p \in Shape, ShapeSound(p), NEW l \in Nat
  PROVE  ~(p.uploads * KeyWidth(l) > p.rows * WidestKey)
<1>1. p.uploads \in Nat /\ p.rows \in Nat /\ p.uploads <= p.rows
  BY DEF Shape, ShapeSound
<1>2. KeyWidth(l) \in Nat /\ WidestKey \in Nat /\ KeyWidth(l) <= WidestKey
  BY Zenon, KeyWidths
<1>3. ASSUME NEW u \in Nat, NEW r \in Nat, u <= r, NEW k \in Nat, NEW w \in Nat, k <= w
      PROVE  ~(u * k > r * w)
  <2>1. u * k <= u * w
    BY <1>3
  <2>2. u * w <= r * w
    BY <1>3
  <2>3. u * k \in Nat /\ u * w \in Nat /\ r * w \in Nat
    OBVIOUS
  <2>4. QED
    BY <2>1, <2>2, <2>3
<1>4. QED
  BY Zenon, <1>1, <1>2, <1>3

LEMMA LayerPlans ==
  ASSUME Types, PlansSound, Layer
  PROVE  PlansSound'
<1> DEFINE p == pass.shape
           a == arena["pass"]
           base == Base(p)
           layers == LayerBytes(p)
           d == AfterLayer(a, p, layer)
           most == base + layers
<1>1. p \in Shape /\ ShapeSound(p) /\ p.tail \in Nat /\ layer \in Nat /\ pass.reads \in Nat
  BY DEF Layer, Types, Going, Passing, Shape
<1>2. base \in Nat /\ layers \in Nat
  BY Zenon, <1>1, BaseAligns, LayerBytesNat
<1>3. arena \in [Arenas -> Region] /\ "pass" \in Arenas /\ a \in Region
  BY DEF Types, Stored, Arenas
<1>4. PassSound /\ ReadsSound /\ at = "layers"
  BY DEF Layer, PlansSound, Passing
<1>5. a.size = base + Larger(layers, p.tail) /\ a.used = base /\ layer < Layers
      /\ base <= a.peak /\ a.peak <= most
      /\ ((\E l \in 0..(layer - 1) : IsFull(l)) => a.peak = most)
  BY <1>4 DEF PassSound
<1>6. /\ d \in Region /\ d.size = a.size /\ base <= d.peak /\ d.peak <= most
      /\ IsFull(layer) \/ a.peak = most => d.peak = most
  BY Zenon, <1>1, <1>3, <1>5, LayerPeak
<1>7. arena' = [arena EXCEPT !["pass"] = [d EXCEPT !.used = a.used]]
  BY Zenon, LayerArena
<1>8. internal' = (internal \/ d.peak > d.size
                   \/ (Accel /\ p.uploads * KeyWidth(layer) > p.rows * WidestKey))
  BY Zenon DEF Layer, AfterLayer
<1>9. UNCHANGED <<model, call, read, pass>> /\ layer' = layer + 1
      /\ at' = IF layer + 1 < Layers THEN "layers"
               ELSE IF pass.reads > 0 THEN "score" ELSE "end"
  BY DEF Layer
<1>10. Base(p)' = base /\ LayerBytes(p)' = layers /\ p.tail' = p.tail
  BY Zenon, <1>9, SameBytes
<1> HIDE DEF base, layers, d, most
<1>11. most = base + layers /\ most <= a.size
  BY <1>1, <1>2, <1>5 DEF most, Larger
<1>12. ~internal'
  <2>1. ~(d.peak > d.size)
    BY <1>2, <1>3, <1>6, <1>11 DEF Region
  <2>2. ~(p.uploads * KeyWidth(layer) > p.rows * WidestKey)
    BY Zenon, <1>1, RoomForUploads
  <2>3. QED
    BY Zenon, <1>8, <2>1, <2>2 DEF PlansSound
<1>13. /\ arena'["pass"].used = base /\ arena'["pass"].peak = d.peak
       /\ arena'["pass"].size = a.size
       /\ arena'["kv"] = arena["kv"] /\ arena'["control"] = arena["control"]
  BY <1>3, <1>5, <1>6, <1>7 DEF Region
<1>14. ASSUME NEW l \in 0..layer, IsFull(l) PROVE d.peak = most
  <2>1. CASE l = layer
    BY Zenon, <1>6, <1>14, <2>1
  <2>2. CASE l # layer
    <3>1. l \in 0..(layer - 1)
      BY <1>1, <2>2
    <3>2. QED
      BY Zenon, <1>5, <1>6, <1>14, <3>1
  <2>3. QED
    BY Zenon, <2>1, <2>2
<1>15. Layers \in Nat
  BY WorkspaceAssumption
<1>16. ~(layer + 1 < Layers) => d.peak = most
  <2>1. SUFFICES ASSUME ~(layer + 1 < Layers) PROVE d.peak = most
    OBVIOUS
  <2>2. Layers - 1 = layer
    BY <1>1, <1>5, <1>15, <2>1
  <2>3. FullEvery - 1 \in 0..layer /\ IsFull(FullEvery - 1)
    BY <2>2, SomeLayerIsFull
  <2>4. QED
    BY Zenon, <1>14, <2>3
<1>17. pass.reads = 0 => most = a.size
  <2>1. SUFFICES ASSUME pass.reads = 0 PROVE most = a.size
    OBVIOUS
  <2>2. p.tail = 0
    BY <1>4, <2>1 DEF ReadsSound, Passing
  <2>3. QED
    BY <1>2, <1>5, <1>11, <2>2 DEF Larger
<1>18. PassSound'
  <2>1. arena'["pass"].size = Base(p)' + Larger(LayerBytes(p)', p.tail')
    BY <1>5, <1>10, <1>13
  <2>2. CASE layer + 1 < Layers
    <3>1. at' = "layers" /\ layer' < Layers /\ layer' - 1 = layer
      BY <1>1, <1>9, <2>2
    <3>2. (\E l \in 0..(layer' - 1) : IsFull(l)) => arena'["pass"].peak = Base(p)' + LayerBytes(p)'
      BY <1>10, <1>11, <1>13, <1>14, <3>1
    <3>3. arena'["pass"].used = Base(p)' /\ Base(p)' <= arena'["pass"].peak
          /\ arena'["pass"].peak <= Base(p)' + LayerBytes(p)'
      BY <1>6, <1>10, <1>11, <1>13
    <3>4. QED
      BY <2>1, <3>1, <3>2, <3>3 DEF PassSound
  <2>3. CASE ~(layer + 1 < Layers)
    <3>1. d.peak = most
      BY <1>16, <2>3
    <3>2. arena'["pass"].used = Base(p)' /\ arena'["pass"].peak = Base(p)' + LayerBytes(p)'
      BY <1>10, <1>11, <1>13, <3>1
    <3>3. CASE pass.reads > 0
      <4>1. at' = "score"
        BY <1>9, <2>3, <3>3
      <4>2. QED
        BY <2>1, <3>2, <4>1 DEF PassSound
    <3>4. CASE ~(pass.reads > 0)
      <4>1. at' = "end"
        BY <1>9, <2>3, <3>4
      <4>2. arena'["pass"].peak = arena'["pass"].size
        BY <1>1, <1>13, <1>17, <3>1, <3>4
      <4>3. QED
        BY <2>1, <4>1, <4>2 DEF PassSound
    <3>5. QED
      BY Zenon, <3>3, <3>4
  <2>4. QED
    BY Zenon, <2>2, <2>3
<1>19. ReadsSound'
  BY <1>4, <1>9, ReadsKept DEF Passing
<1>20. Full("kv")' /\ (Len(call.lens) > 1 => Full("control"))'
  BY <1>4, <1>9, <1>13, StillFull DEF Passing
<1>21. QED
  BY Zenon, <1>12, <1>18, <1>19, <1>20 DEF PlansSound

LEMMA ScorePlans ==
  ASSUME Types, PlansSound, Score
  PROVE  PlansSound'
<1> DEFINE p == pass.shape
           a == arena["pass"]
           base == Base(p)
           layers == LayerBytes(p)
           scores == ScoreBytes(read)
           d == TakeBriefly(a, ScoreArrays(read))
<1>1. p \in Shape /\ ShapeSound(p) /\ p.tail \in Nat /\ pass.reads \in Nat /\ pass.reads > 0
      /\ read \in Nat /\ call \in Calls
  BY DEF Score, Types, Going, Passing, Shape
<1>2. base \in Nat /\ layers \in Nat /\ Aligns(base)
  BY Zenon, <1>1, BaseAligns, LayerBytesNat
<1>3. arena \in [Arenas -> Region] /\ "pass" \in Arenas /\ a \in Region
  BY DEF Types, Stored, Arenas
<1>4. PassSound /\ ReadsSound /\ at = "score"
  BY DEF Score, PlansSound, Passing
<1>5. p.tail = scores /\ (pass.reads > 1 => ~Decides(read))
  BY <1>1, <1>4 DEF ReadsSound, Passing
<1>6. a.size = base + Larger(layers, p.tail) /\ a.used = base
      /\ a.peak \in {base + layers, a.size}
  BY <1>4 DEF PassSound
<1>7. ScoreArrays(read) \in Seq(Nat) /\ scores \in Nat
  BY Zenon, <1>1, ScoresTaken
<1>8. Planned(base, ScoreArrays(read)) = base + scores
  <2>1. Planned(base + 0, ScoreArrays(read)) = base + Planned(0, ScoreArrays(read))
    BY SMT, <1>2, <1>7, PlannedShift
  <2>2. base + 0 = base
    BY <1>2
  <2>3. QED
    BY Zenon, <2>1, <2>2 DEF ScoreBytes
<1>9. d.used = a.used /\ d.size = a.size /\ d.peak = Larger(a.peak, Planned(a.used, ScoreArrays(read)))
  BY Zenon, <1>3, <1>7, BrieflyKeeps
<1>10. arena' = [arena EXCEPT !["pass"] = d] /\ internal' = (internal \/ d.peak > d.size)
  BY Zenon DEF Score, Holds
<1>11. UNCHANGED <<model, call>> /\ read' = read + 1
       /\ pass' = [pass EXCEPT !.reads = pass.reads - 1]
       /\ at' = IF pass.reads > 1 THEN "score" ELSE "end"
  BY DEF Score
<1>12. pass'.shape = p /\ pass'.reads = pass.reads - 1
  BY <1>11 DEF Score, Types, Going, Passing
<1>13. Base(p)' = base /\ LayerBytes(p)' = layers /\ p.tail' = p.tail
  BY Zenon, <1>11, <1>12, SameBytes
<1>14. d.peak = Larger(a.peak, base + scores)
  BY Zenon, <1>6, <1>8, <1>9
<1> HIDE DEF base, layers, scores, d
<1>15. d.peak = a.size /\ ~(d.peak > d.size)
  BY <1>1, <1>2, <1>5, <1>6, <1>7, <1>9, <1>14 DEF Larger
<1>16. arena'["pass"] = d /\ arena'["kv"] = arena["kv"] /\ arena'["control"] = arena["control"]
  BY <1>3, <1>10
<1>17. PassSound'
  <2>1. arena'["pass"].size = Base(p)' + Larger(LayerBytes(p)', p.tail')
        /\ arena'["pass"].used = Base(p)' /\ arena'["pass"].peak = arena'["pass"].size
    BY <1>5, <1>6, <1>9, <1>13, <1>15, <1>16
  <2>2. at' \in {"score", "end"}
    BY <1>11
  <2>3. QED
    BY <2>1, <2>2 DEF PassSound
<1>18. ReadsSound'
  <2>1. CASE pass.reads > 1
    <3>1. ~Decides(read) /\ ~Decides(read)'
      BY <1>1, <1>5, <1>11, <2>1 DEF Decides
    <3>2. ScoreBytes(read)' = scores
      BY <1>11, <3>1 DEF ScoreBytes, ScoreArrays, scores
    <3>3. pass'.reads # 0 /\ pass'.shape.tail = ScoreBytes(read)'
      BY <1>1, <1>5, <1>12, <2>1, <3>2
    <3>4. QED
      BY <3>1, <3>3 DEF ReadsSound
  <2>2. CASE ~(pass.reads > 1)
    BY <1>11, <2>2 DEF ReadsSound
  <2>3. QED
    BY Zenon, <2>1, <2>2
<1>19. Full("kv")' /\ (Len(call.lens) > 1 => Full("control"))'
  BY <1>4, <1>11, <1>16, StillFull DEF Passing
<1>20. ~internal'
  BY <1>10, <1>15 DEF PlansSound
<1>21. QED
  BY Zenon, <1>17, <1>18, <1>19, <1>20 DEF PlansSound

LEMMA PassEndPlans ==
  ASSUME Types, PlansSound, PassEnd
  PROVE  PlansSound'
<1>1. arena \in [Arenas -> Region] /\ "pass" \in Arenas
  BY DEF Types, Stored, Arenas
<1>2. at = "end" /\ at' \in {"reads", "prefix"} /\ UNCHANGED call
  BY DEF PassEnd, Types, Going, Passing
<1>3. arena["pass"].peak = arena["pass"].size
  BY <1>2 DEF PlansSound, PassSound, Passing
<1> DEFINE a == [arena["pass"] EXCEPT !.used = 0]
<1>4. arena' = [arena EXCEPT !["pass"] = a]
      /\ internal' = (internal \/ a.used # 0 \/ a.peak # a.size)
  BY DEF PassEnd, End
<1>5. a.used = 0 /\ a.peak = a.size
  BY <1>1, <1>3 DEF Region
<1> HIDE DEF a
<1>6. ~internal'
  BY <1>4, <1>5 DEF PlansSound
<1>7. arena'["kv"] = arena["kv"] /\ arena'["control"] = arena["control"]
  BY <1>1, <1>4
<1>8. Full("kv")' /\ (Len(call.lens) > 1 => Full("control"))'
  BY <1>2, <1>7, StillFull DEF Passing
<1>9. at' \notin Passing
  BY <1>2 DEF Passing
<1>10. QED
  BY Zenon, <1>6, <1>8, <1>9 DEF PlansSound, ReadsSound

LEMMA ReadAlonePlans ==
  ASSUME Types, PlansSound, ReadAlone
  PROVE  PlansSound'
<1>1. UNCHANGED <<call, read, arena, internal>> /\ at = "reads" /\ at' = "begin"
      /\ call \in Calls /\ read \in Nat /\ read < call.reads
  BY DEF ReadAlone, storage, Types, Going
<1>2. /\ pass' = [shape |-> pass'.shape, reads |-> Grouped, then |-> "reads"]
      /\ pass'.shape.tail = ScoreBytes(read)
  BY Zenon, ReadAloneTypes
<1>3. Grouped \in Nat \ {0} /\ (Grouped > 1 => ~Decides(read))
  BY Zenon, <1>1, GroupedSound
<1>4. pass'.reads = Grouped
  BY <1>2
<1>5. ReadsSound'
  <2>1. ScoreBytes(read)' = ScoreBytes(read) /\ (Decides(read)' <=> Decides(read))
    BY <1>1 DEF ScoreBytes, ScoreArrays, Decides
  <2>2. pass'.reads # 0
    BY <1>3, <1>4
  <2>3. QED
    BY <1>2, <1>3, <1>4, <2>1, <2>2 DEF ReadsSound
<1>6. PassSound'
  BY <1>1 DEF PassSound
<1>7. Full("kv")' /\ (Len(call.lens) > 1 => Full("control"))'
  BY <1>1, StillFull DEF Filling
<1>8. ~internal'
  BY <1>1 DEF PlansSound
<1>9. QED
  BY Zenon, <1>5, <1>6, <1>7, <1>8 DEF PlansSound

LEMMA ReadTogetherPlans ==
  ASSUME Types, PlansSound, ReadTogether
  PROVE  PlansSound'
<1>1. UNCHANGED <<call, read, arena, internal>> /\ at = "reads" /\ at' = "begin"
  BY DEF ReadTogether, storage
<1>2. /\ pass' = [shape |-> pass'.shape, reads |-> 1, then |-> "reads"]
      /\ pass'.shape.tail = ScoreBytes(read)
  BY Zenon, ReadTogetherTypes
<1>3. pass'.reads = 1
  BY <1>2
<1>4. ReadsSound'
  <2>1. ScoreBytes(read)' = ScoreBytes(read)
    BY <1>1 DEF ScoreBytes, ScoreArrays, Decides
  <2>2. QED
    BY <1>2, <1>3, <2>1 DEF ReadsSound
<1>5. PassSound'
  BY <1>1 DEF PassSound
<1>6. Full("kv")' /\ (Len(call.lens) > 1 => Full("control"))'
  BY <1>1, StillFull DEF Filling
<1>7. ~internal'
  BY <1>1 DEF PlansSound
<1>8. QED
  BY Zenon, <1>4, <1>5, <1>6, <1>7 DEF PlansSound

LEMMA EndsFull ==
  ASSUME NEW name \in {"kv", "control"}, arena \in [Arenas -> Region], Full(name), ~internal,
         End(name)
  PROVE  ~internal' /\ arena' = arena
<1>1. name \in Arenas /\ name # "pass"
  BY DEF Arenas
<1>2. arena' = [arena EXCEPT ![name] = arena[name]]
      /\ internal' = (internal \/ arena[name].used # arena[name].size
                      \/ arena[name].peak # arena[name].size)
  BY Zenon, <1>1 DEF End
<1>3. QED
  BY <1>1, <1>2 DEF Full

LEMMA KVEndPlans ==
  ASSUME Types, PlansSound, KVEnd
  PROVE  PlansSound'
<1>1. at = "reads" /\ End("kv") /\ Full("kv") /\ ~internal /\ arena \in [Arenas -> Region]
  BY DEF KVEnd, PlansSound, Filling, Types, Stored
<1>2. ~internal' /\ arena' = arena
  BY Zenon, <1>1, EndsFull
<1>3. CASE Len(call.lens) > 1
  <2>1. Full("control") /\ at' = "unwind" /\ call' = call
    BY <1>1, <1>3 DEF KVEnd, PlansSound, Filling
  <2>2. Full("control")'
    BY <1>2, <2>1 DEF Full
  <2>3. QED
    BY <1>2, <2>1, <2>2 DEF PlansSound, ReadsSound, Filling, Passing
<1>4. CASE ~(Len(call.lens) > 1)
  <2>1. at' = "idle"
    BY <1>4 DEF KVEnd
  <2>2. QED
    BY <1>2, <2>1 DEF PlansSound, ReadsSound, Filling, Passing
<1>5. QED
  BY Zenon, <1>3, <1>4

LEMMA ControlEndPlans ==
  ASSUME Types, PlansSound, ControlEnd
  PROVE  PlansSound'
<1>1. at = "unwind" /\ at' = "idle" /\ End("control") /\ ~internal /\ arena \in [Arenas -> Region]
  BY DEF ControlEnd, PlansSound, Types, Stored
<1>2. Full("control")
  BY <1>1 DEF PlansSound, Types, Going
<1>3. ~internal'
  BY Zenon, <1>1, <1>2, EndsFull
<1>4. QED
  BY <1>1, <1>3 DEF PlansSound, ReadsSound, Filling, Passing

LEMMA StopPlans ==
  ASSUME PlansSound, \/ Fail \/ SessionFree
                     \/ \E m \in {"activations", "pinned"} : DeviceFails(m)
  PROVE  PlansSound'
<1>1. UNCHANGED internal /\ at' \in {"idle", "freed"}
  BY DEF Fail, DeviceFails, Abandon, SessionFree
<1>2. QED
  BY <1>1 DEF PlansSound, ReadsSound, Filling, Passing

-----------------------------------------------------------------------------
(* The invariant holds initially, *)
LEMMA InitInv == Init => IInv
BY Zenon, InitTypes, InitHost, InitDevice, InitPlans DEF IInv

(* and every step keeps it. *)
LEMMA NextInv ==
  ASSUME IInv, Next
  PROVE  IInv'
<1>0. /\ Types /\ HostSound /\ DeviceSound /\ DeviceHolds /\ PlansSound
      /\ IsFiniteSet(DOMAIN host) /\ IsFiniteSet(DOMAIN gpu)
  BY DEF IInv, HostSound, DeviceSound, DeviceOwned
<1>1. ASSUME NEW c \in Calls, Ask(c) PROVE IInv'
  BY Zenon, <1>0, <1>1, AskTypes, OthersHost, OthersDevice, AskPlans DEF IInv
<1>2. CASE ControlBegin
  <2>1. Types'
    BY Zenon, <1>0, <1>2, ControlBeginTypes
  <2>2. QED
    BY Zenon, <1>0, <1>2, <2>1, ControlBeginHost, OthersDevice, ControlBeginPlans DEF IInv
<1>3. CASE KVBegin
  <2>1. Types'
    BY Zenon, <1>0, <1>3, KVBeginTypes
  <2>2. QED
    BY Zenon, <1>0, <1>3, <2>1, KVBeginHost, OthersDevice, KVBeginPlans DEF IInv
<1>4. CASE Hit
  BY Zenon, <1>0, <1>4, HitTypes, OthersHost, OthersDevice, FillingPlans DEF IInv
<1>5. CASE Miss
  BY Zenon, <1>0, <1>5, MissTypes, MissHost, OthersDevice, FillingPlans DEF IInv
<1>6. CASE Metadata
  <2>1. Types'
    BY Zenon, <1>0, <1>6, MetadataTypes
  <2>2. QED
    BY Zenon, <1>0, <1>6, <2>1, MetadataHost, OthersDevice, FillingPlans DEF IInv
<1>7. CASE Install
  <2>1. Types'
    BY Zenon, <1>0, <1>7, InstallTypes
  <2>2. QED
    BY Zenon, <1>0, <1>7, <2>1, InstallHost, OthersDevice, FillingPlans DEF IInv
<1>8. CASE PassBegin
  <2>1. Types'
    BY Zenon, <1>0, <1>8, PassBeginTypes
  <2>2. QED
    BY Zenon, <1>0, <1>8, <2>1, PassBeginHost, OthersDevice, PassBeginPlans DEF IInv
<1>9. CASE Embed
  BY Zenon, <1>0, <1>9, EmbedTypes, EmbedHost, EmbedDevice, EmbedPlans DEF IInv
<1>10. CASE Layer
  BY Zenon, <1>0, <1>10, LayerTypes, LayerHost, EmbedDevice, LayerPlans DEF IInv
<1>11. CASE Score
  BY Zenon, <1>0, <1>11, ScoreTypes, ScoreHost, ScoreDevice, ScorePlans DEF IInv
<1>12. CASE PassEnd
  BY Zenon, <1>0, <1>12, PassEndTypes, EndsHost, OthersDevice, PassEndPlans DEF IInv
<1>13. ASSUME NEW m \in {"activations", "pinned"}, DeviceBegin(m) PROVE IInv'
  BY Zenon, <1>0, <1>13, DeviceBeginTypes, OthersHost, DeviceBeginDevice, DeviceBeginPlans DEF IInv
<1>14. ASSUME NEW m \in {"activations", "pinned"}, DeviceFails(m) PROVE IInv'
  <2>1. Abandon
    BY Zenon, <1>14 DEF DeviceFails
  <2>2. QED
    BY Zenon, <1>0, <1>14, <2>1, DeviceFailsTypes, AbandonHost, DeviceFailsDevice, StopPlans DEF IInv
<1>15. CASE ReadAlone
  BY Zenon, <1>0, <1>15, ReadAloneTypes, OthersHost, OthersDevice, ReadAlonePlans DEF IInv
<1>16. CASE ReadTogether
  BY Zenon, <1>0, <1>16, ReadTogetherTypes, OthersHost, OthersDevice, ReadTogetherPlans DEF IInv
<1>17. CASE KVEnd
  BY Zenon, <1>0, <1>17, KVEndTypes, EndsHost, OthersDevice, KVEndPlans DEF IInv
<1>18. CASE ControlEnd
  BY Zenon, <1>0, <1>18, ControlEndTypes, EndsHost, OthersDevice, ControlEndPlans DEF IInv
<1>19. CASE Fail
  <2>1. Abandon
    BY Zenon, <1>19 DEF Fail
  <2>2. QED
    BY Zenon, <1>0, <1>19, <2>1, FailTypes, AbandonHost, OthersDevice, StopPlans DEF IInv
<1>20. CASE SessionFree
  BY Zenon, <1>0, <1>20, SessionFreeTypes, SessionFreeHost, SessionFreeDevice, StopPlans DEF IInv
<1>21. QED
  BY Zenon, <1>1, <1>2, <1>3, <1>4, <1>5, <1>6, <1>7, <1>8, <1>9, <1>10, <1>11, <1>12, <1>13,
     <1>14, <1>15, <1>16, <1>17, <1>18, <1>19, <1>20 DEF Next

LEMMA SameTypes ==
  ASSUME Types, UNCHANGED vars
  PROVE  Types'
BY DEF Types, Stored, Going, Building, vars

LEMMA StepInv ==
  ASSUME IInv, [Next]_vars
  PROVE  IInv'
<1>1. CASE UNCHANGED vars
  <2>1. /\ UNCHANGED <<model, arena, active, host, tracked, gpu, memory, prefix, fresh, call, pass>>
        /\ UNCHANGED <<layer, read, at, poisoned, internal>>
    BY <1>1 DEF vars
  <2>2. Types'
    BY Zenon, <1>1, SameTypes DEF IInv
  <2>3. HostSound'
    <3>1. Blocks' = Blocks /\ PrefixBlocks(prefix)' = PrefixBlocks(prefix)
      BY <2>1 DEF Blocks, PrefixBlocks
    <3>2. QED
      BY <2>1, <3>1 DEF IInv, HostSound
  <2>4. DeviceSound'
    BY <2>1 DEF IInv, DeviceSound, DeviceOwned, Live
  <2>5. DeviceHolds'
    <3>1. Asked' \subseteq Asked
      BY <2>1 DEF Asked, Accel
    <3>2. pass'.shape = pass.shape /\ UNCHANGED <<model>> /\ \A k \in Asked : memory'[k] = memory[k]
      BY <2>1
    <3>3. QED
      BY Zenon, <3>1, <3>2, HoldsOn DEF IInv
  <2>6. PlansSound'
    <3>1. PassSound' = PassSound
      BY <2>1 DEF PassSound, Base, LayerBytes, Residual, AttentionPlan, FeedForwardPlan, Accel, NVFP4
    <3>2. ReadsSound' = ReadsSound
      BY <2>1 DEF ReadsSound, ScoreBytes, ScoreArrays, Decides
    <3>3. Full("kv")' = Full("kv") /\ Full("control")' = Full("control")
      BY <2>1 DEF Full
    <3>4. QED
      BY <2>1, <3>1, <3>2, <3>3 DEF IInv, PlansSound
  <2>7. QED
    BY Zenon, <2>2, <2>3, <2>4, <2>5, <2>6 DEF IInv
<1>2. CASE Next
  BY Zenon, <1>2, NextInv
<1>3. QED
  BY Zenon, <1>1, <1>2

LEMMA AlwaysInv == Spec => []IInv
<1>1. Init => IInv
  BY InitInv
<1>2. IInv /\ [Next]_vars => IInv'
  BY Zenon, StepInv
<1>3. QED
  BY <1>1, <1>2, PTL DEF Spec

-----------------------------------------------------------------------------
(* Types are kept: sizes, blocks and counts are natural numbers, a pass has  *)
(* a shape its caller could have asked for, and the control storage is only  *)
(* ever begun for a call of several rows that go on from a cached prefix.    *)
THEOREM TypesAreKept == Spec => []Types
<1>1. IInv => Types
  BY DEF IInv
<1>2. QED
  BY <1>1, AlwaysInv, PTL

(* Whatever the widths of the model, the calls made and the steps that fail, *)
(* nothing a session allocates on the host leaks, is forgotten or is owned   *)
(* twice: jb_arena_reserve, dg_prefix_free and the frame's list agree.       *)
THEOREM EveryBlockIsOwned == Spec => []BlocksAreOwned
<1>1. ASSUME IInv PROVE BlocksAreOwned
  <2>1. HostSound /\ (at = "idle" => fresh = None)
    BY <1>1 DEF IInv, Types, Going, Building, Passing
  <2>2. \A a \in Arenas : arena[a].block # 0 => arena[a].block \in DOMAIN host
                                             /\ host[arena[a].block] = arena[a].capacity
    BY <2>1 DEF HostSound, Blocks
  <2>3. {arena[a].block : a \in {a \in Arenas : arena[a].block # 0}} = Blocks
    BY DEF Blocks
  <2>4. DOMAIN host = Blocks \cup PrefixBlocks(prefix) \cup tracked
        /\ PrefixBlocks(prefix) \subseteq DOMAIN host \ tracked
        /\ (at = "idle" => tracked = {})
    BY <2>1 DEF HostSound
  <2>5. \A a, b \in {a \in Arenas : arena[a].block # 0} : arena[a].block = arena[b].block => a = b
    BY <2>1 DEF HostSound
  <2>6. QED
    BY <2>2, <2>3, <2>4, <2>5 DEF BlocksAreOwned
<1>2. QED
  BY <1>1, AlwaysInv, PTL

(* What dg_device_begin remembers of device memory is true of it after every *)
(* growth and every refusal, and no pass runs in less than its layout.       *)
THEOREM DeviceMemoryIsAsRemembered == Spec => []DeviceMemoryHolds
<1>1. ASSUME IInv PROVE DeviceMemoryHolds
  <2>1. DeviceOwned /\ DeviceHolds
    BY <1>1 DEF IInv, DeviceSound
  <2>2. \A m \in Memories :
          IF memory[m].bytes = 0 THEN memory[m].block = 0
          ELSE memory[m].block \in DOMAIN gpu /\ gpu[memory[m].block] = memory[m].bytes
    BY <2>1 DEF DeviceOwned, Live
  <2>3. Accel /\ at \in {"embed", "layers", "score", "end"} =>
          /\ memory["activations"].bytes >= DeviceBytesOf("activations")
          /\ memory["pinned"].bytes >= DeviceBytesOf("pinned")
    <3>1. Accel /\ at \in {"embed", "layers", "score", "end"} => Asked = {"activations", "pinned"}
      BY DEF Asked
    <3>2. QED
      BY <2>1, <3>1 DEF DeviceHolds
  <2>4. QED
    BY <2>2, <2>3 DEF DeviceMemoryHolds, DeviceBytesOf
<1>2. QED
  BY <1>1, AlwaysInv, PTL

(* jb_session_free leaves nothing behind, after any calls and failures. *)
THEOREM FreeingLeavesNothing == Spec => []FreedWithSession
<1>1. IInv => FreedWithSession
  BY DEF IInv, HostSound, DeviceSound, FreedWithSession
<1>2. QED
  BY <1>1, AlwaysInv, PTL

(* For every model's widths and every call, jb_arena_alloc takes what        *)
(* jb_workspace_plan planned: the call never dies of its own storage.        *)
THEOREM WhatIsPlannedIsTaken == Spec => []PlansAreExact
<1>1. IInv => PlansAreExact
  BY DEF IInv, PlansSound, PlansAreExact
<1>2. QED
  BY <1>1, AlwaysInv, PTL
=============================================================================
