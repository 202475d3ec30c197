------------------------------- MODULE BpeScan -------------------------------
(***************************************************************************)
(* What byte-pair encoding promises of a piece of text: as long as two     *)
(* neighbours can be merged, those of the lowest rank are, the leftmost    *)
(* first, found by looking at the whole piece again each time.             *)
(* src/model.inc:892-894 states it of dgt_piece, which keeps a heap.       *)
(***************************************************************************)
EXTENDS Naturals, Sequences, SequencesExt, FiniteSetsExt

VARIABLES
  known,                      \* what the tokens of the vocabulary spell
  merges,                     \* pairs of spellings, by rank
  word                        \* the piece, a spelling for each token; <<>> between pieces

Pair(w, i) == <<w[i], w[i + 1]>>

Mergeable(w) ==
  {i \in 1..(Len(w) - 1) : Contains(merges, Pair(w, i))}

Rank(w, i) == Min({r \in DOMAIN merges : merges[r] = Pair(w, i)})

Best(w) ==
  CHOOSE i \in Mergeable(w) :
    \A j \in Mergeable(w) : Rank(w, i) < Rank(w, j) \/ (Rank(w, i) = Rank(w, j) /\ i <= j)

Joined(w, i) == w[i] \o w[i + 1]

Init == known = {} /\ merges = <<>> /\ word = <<>>

(* A tokenizer is loaded or freed; its merges are of spellings it knows. *)
Change ==
  /\ word = <<>> /\ word' = <<>>
  /\ \A p \in ToSet(merges') : p[1] \in known' /\ p[2] \in known'

NewPiece ==
  /\ word = <<>>
  /\ word' \in Seq(known) \ {<<>>}
  /\ UNCHANGED <<known, merges>>

Merge ==
  /\ Mergeable(word) # {}
  /\ LET i == Best(word)
     IN  /\ Joined(word, i) \in known
         /\ word' = SubSeq(word, 1, i - 1) \o <<Joined(word, i)>> \o SubSeq(word, i + 2, Len(word))
  /\ UNCHANGED <<known, merges>>

(* A piece is done when nothing is left to merge. *)
EndPiece ==
  /\ word # <<>> /\ Mergeable(word) = {}
  /\ word' = <<>>
  /\ UNCHANGED <<known, merges>>

(* The call fails when the vocabulary has no token for a merge. *)
Absent ==
  /\ Mergeable(word) # {} /\ Joined(word, Best(word)) \notin known
  /\ word' = <<>>
  /\ UNCHANGED <<known, merges>>

Next == Change \/ NewPiece \/ Merge \/ EndPiece \/ Absent

Spec == Init /\ [][Next]_<<known, merges, word>>
=============================================================================
