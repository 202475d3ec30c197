-------------------------------- MODULE Scores --------------------------------
(***************************************************************************)
(* What the answer slots of a canvas are scored by: the labels asked for   *)
(* in any of them, kept sorted, unique and capped, each slot's best tokens *)
(* of the whole vocabulary, and the tokens its entropy counts, in order.   *)
(* src/kernels_scalar.inc:404-510                                          *)
(***************************************************************************)
EXTENDS Integers, Sequences, SequencesExt, FiniteSets, FiniteSetsExt

CONSTANTS
  Rows,         \* logits a slot may have, one for each token; finite
  LabelLists,   \* labels a slot may be asked for
  MaxSlots,     \* DG_AUTO_READ_MAX_QUESTIONS
  MostLabels,   \* DG_CHOICE_LABELS
  TopN          \* 20

VARIABLES
  slots,        \* [row, labels] of each slot
  requested,    \* the labels the entropy counts, ascending
  counted,      \* the tokens counted for each slot so far, in order
  scores        \* and the logits of its labels

vars == <<slots, requested, counted, scores>>

Least == -1000                 \* -FLT_MAX, below every logit
NoToken == -1

Vocab == 0..(Len(CHOOSE r \in Rows : TRUE) - 1)

-----------------------------------------------------------------------------
(* Definitions called Faulty... are mistakes a run must tell from the code: *)
(* a label past the cap is dropped though it is among the smallest.         *)
FaultyWith(ids, id) ==
  IF id \in ToSet(ids) \/ Len(ids) = MostLabels THEN ids
  ELSE InsertAt(ids, Cardinality({k \in DOMAIN ids : ids[k] < id}) + 1, id)

(* A label takes its place among those kept; the last makes room for it. *)
With(ids, id) ==
  LET at == Cardinality({k \in DOMAIN ids : ids[k] < id}) + 1
  IN  IF at <= Len(ids) /\ ids[at] = id THEN ids
      ELSE SubSeq(InsertAt(ids, at, id), 1, Min({Len(ids) + 1, MostLabels}))

Merged(ids, labels) == FoldLeft(With, ids, labels)

Requested(s) == FoldLeft(LAMBDA ids, slot : Merged(ids, slot.labels), <<>>, s)

(* A token displaces the first of the best it beats, and is not looked at    *)
(* when it does not beat the last.                                           *)
Entering(best, v, z) ==
  IF z <= best[TopN].value THEN best
  ELSE SubSeq(InsertAt(best, Min({k \in 1..TopN : z > best[k].value}), [id |-> v, value |-> z]),
              1, TopN)

Best(row) ==
  FoldLeftDomain(LAMBDA best, i : Entering(best, i - 1, row[i]),
                 [k \in 1..TopN |-> [id |-> NoToken, value |-> Least]], row)

-----------------------------------------------------------------------------
Init == slots = <<>> /\ requested = <<>> /\ counted = <<>> /\ scores = <<>>

Score(s) ==
  /\ slots = <<>> /\ slots' = s
  /\ requested' = Requested(s)
  /\ UNCHANGED <<counted, scores>>

(* The labels that are not seen among the best are counted after them. *)
WithLabels(best, ids) ==
  FoldLeft(LAMBDA all, id : IF id \in ToSet(best) THEN all ELSE Append(all, id), best, ids)

(* A slot: its best tokens, and then the labels asked for. *)
Count ==
  /\ Len(counted) < Len(slots)
  /\ LET s == slots[Len(counted) + 1]
         best == Best(s.row)
     IN  /\ counted' = Append(counted, WithLabels([k \in 1..TopN |-> best[k].id], requested))
         /\ scores' = Append(scores, [c \in DOMAIN s.labels |-> s.row[s.labels[c] + 1]])
  /\ UNCHANGED <<slots, requested>>

Return ==
  /\ slots # <<>> /\ Len(counted) = Len(slots)
  /\ slots' = <<>> /\ requested' = <<>> /\ counted' = <<>> /\ scores' = <<>>

Next ==
  \/ \E n \in 1..MaxSlots : \E s \in [1..n -> [row : Rows, labels : LabelLists]] : Score(s)
  \/ Count \/ Return

Spec == Init /\ [][Next]_vars

-----------------------------------------------------------------------------
Before(row, v) == {u \in Vocab : row[u + 1] > row[v + 1] \/ (row[u + 1] = row[v + 1] /\ u < v)}

(* A slot's entropy counts each token once: the best of the vocabulary, the  *)
(* best first and ties by number, and the smallest of the labels asked for   *)
(* in any slot, wherever they were asked for and in whatever order           *)
(* (kernels_scalar.inc:404-418); its scores are its own labels' logits.      *)
EachCountedOnce ==
  LET asked == UNION {ToSet(slots[t].labels) : t \in DOMAIN slots}
      smallest == {id \in asked : Cardinality({o \in asked : o < id}) < MostLabels}
  IN  \A t \in DOMAIN counted :
        LET row == slots[t].row
            top == {v \in Vocab : Cardinality(Before(row, v)) < TopN}
            others == TopN + 1..Len(counted[t])
        IN  /\ \A k \in 1..TopN :
                 counted[t][k] = CHOOSE v \in top : Cardinality(Before(row, v)) = k - 1
            /\ {counted[t][k] : k \in others} = smallest \ top
            /\ \A j, k \in others : j < k => counted[t][j] < counted[t][k]
            /\ \A c \in DOMAIN slots[t].labels : scores[t][c] = row[slots[t].labels[c] + 1]
=============================================================================
