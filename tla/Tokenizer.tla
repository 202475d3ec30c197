------------------------------ MODULE Tokenizer ------------------------------
(***************************************************************************)
(* Tokenizing a text: special tokens are taken where they stand, the       *)
(* longest first; what lies between them is split into characters, or into *)
(* bytes where the vocabulary has no such character, and merged pair by    *)
(* pair with a heap of candidates whose stale entries are skipped.         *)
(* src/model.inc:615-627, 835-992.                                         *)
(***************************************************************************)
EXTENDS Naturals, Sequences, SequencesExt, FiniteSetsExt, Functions

CONSTANTS
  Files,                     \* tokenizer.json: vocab, merges, added
  Texts,                     \* texts to tokenize, sequences of bytes
  None

VARIABLES
  spelling,                  \* by_id: what each token spells, in bytes
  merges,                    \* merge: pairs of tokens, by rank
  special,                   \* special: tokens taken where they stand
  text, at, plain,           \* the text, i and plain of dgt_tokenize
  out,                       \* the tokens so far
  hit,                       \* the special token that follows the piece, None at the end
  ids, next, prev,           \* the piece's tokens, linked
  heap,                      \* candidates, an array
  phase

tokenizer == <<spelling, merges, special>>
piece == <<ids, next, prev, heap>>
vars == <<tokenizer, text, at, plain, out, hit, piece, phase>>

NoLink == 0                  \* UINT32_MAX; positions count from 1 here

-----------------------------------------------------------------------------
(* dgt_vfind, dgt_mfind. *)
Found(bytes) == {t \in DOMAIN spelling : spelling[t] = bytes}

Ranked(a, b) == {r \in DOMAIN merges : merges[r] = <<a, b>>}

Less(x, y) == x.rank < y.rank \/ (x.rank = y.rank /\ x.pos < y.pos)

Swapped(h, i, j) == [h EXCEPT ![i] = h[j], ![j] = h[i]]

Parent(i) == i \div 2

(* A place of an array and what one turn of a loop makes of both: no loop    *)
(* turns more often than the array has places.                               *)
Sifted(Turn(_), h, i) == FoldLeft(LAMBDA s, p : Turn(s), [heap |-> h, at |-> i], h).heap

SiftedUp(h, i) ==
  LET Up(s) == IF s.at > 1 /\ Less(s.heap[s.at], s.heap[Parent(s.at)])
               THEN [heap |-> Swapped(s.heap, s.at, Parent(s.at)), at |-> Parent(s.at)]
               ELSE s
  IN  Sifted(Up, h, i)

(* dgt_bpe_push. *)
Pushed(h, tokens, i, j) ==
  IF Ranked(tokens[i], tokens[j]) = {} THEN h
  ELSE SiftedUp(Append(h, [rank |-> Min(Ranked(tokens[i], tokens[j])), pos |-> i,
                           a |-> tokens[i], b |-> tokens[j]]), Len(h) + 1)

SiftedDown(h, i) ==
  LET Down(s) ==
        LET smaller == {c \in {2 * s.at, 2 * s.at + 1} :
                          c <= Len(s.heap) /\ Less(s.heap[c], s.heap[s.at])}
            least == CHOOSE c \in smaller : \A d \in smaller : ~Less(s.heap[d], s.heap[c])
        IN  IF smaller = {} THEN s ELSE [heap |-> Swapped(s.heap, s.at, least), at |-> least]
  IN  Sifted(Down, h, i)

Popped(h) ==
  IF Len(h) = 1 THEN <<>> ELSE SiftedDown([Front(h) EXCEPT ![1] = Last(h)], 1)

(* next_cp: how many bytes follow the first of a character. *)
More(c) == IF c >= 240 THEN 3 ELSE IF c >= 224 THEN 2 ELSE IF c >= 194 THEN 1 ELSE 0

Value(s) ==
  FoldLeft(LAMBDA v, c : 64 * v + (c % 64), s[1] % 2 ^ (8 - Len(s)), Tail(s))

(* A character is encoded in the bytes it needs, and is not half a pair. *)
WellFormed(s) ==
  \/ Len(s) = 1 /\ s[1] < 128
  \/ /\ s[1] >= 194 /\ Len(s) = More(s[1]) + 1
     /\ \A i \in 2..Len(s) : s[i] \in 128..191
     /\ Value(s) >= <<0, 128, 2048, 65536>>[Len(s)]
     /\ Value(s) <= 1114111 /\ Value(s) \notin 55296..57343

Characters(s) ==
  LET from[i \in 1..(Len(s) + 1)] ==
        IF i > Len(s) THEN <<>>
        ELSE LET after == Min({i + More(s[i]) + 1, Len(s) + 1})
             IN  <<SubSeq(s, i, after - 1)>> \o from[after]
  IN  from[1]

(* A space is U+2581 in the vocabulary. *)
Normal(s) == FlattenSeq([i \in DOMAIN s |-> IF s[i] = 32 THEN <<226, 150, 129>> ELSE <<s[i]>>])

(* The text <0xHH> that stands for a byte, one symbol here. *)
Byte(b) == <<256 + b>>

(* A character's token, or those of its bytes. *)
Tokens(c) == IF Found(c) # {} THEN <<c>> ELSE [i \in DOMAIN c |-> Byte(c[i])]

(* What the piece's tokens spell, one after another. *)
Split(s) ==
  LET chars == Characters(Normal(s))
  IN  FlattenSeq([i \in DOMAIN chars |-> Tokens(chars[i])])

Spelled(bytes) == CHOOSE t \in Found(bytes) : TRUE

Linked(k) ==
  /\ next' = [i \in 1..k |-> IF i < k THEN i + 1 ELSE NoLink]
  /\ prev' = [i \in 1..k |-> i - 1]

-----------------------------------------------------------------------------
NoPiece == /\ ids = <<>> /\ next = <<>> /\ prev = <<>> /\ heap = <<>>

Init ==
  /\ spelling = <<>> /\ merges = <<>> /\ special = {}
  /\ text = <<>> /\ at = 1 /\ plain = 1 /\ out = <<>> /\ hit = None /\ NoPiece
  /\ phase = "unloaded"

(* A vocabulary gives every token an id of its own, and what refers to a token *)
(* finds it; a special token spells something and has its own id.              *)
Accepted(f) ==
  LET spelled == {e.spells : e \in ToSet(f.vocab)}
  IN  /\ Cardinality({e.id : e \in ToSet(f.vocab)}) = Len(f.vocab)
      /\ \A e \in ToSet(f.vocab) : e.id < Len(f.vocab)
      /\ \A m \in ToSet(f.merges) : m[1] \in spelled /\ m[2] \in spelled
      /\ \A e \in f.added : e \in ToSet(f.vocab) /\ e.spells # <<>>

IdOf(f, bytes) == (CHOOSE e \in ToSet(f.vocab) : e.spells = bytes).id

(* dgt_load; what fails is freed with the call's frame. *)
Load(f) ==
  /\ phase = "unloaded" /\ Accepted(f)
  /\ spelling' = [t \in {e.id : e \in ToSet(f.vocab)} |->
                    (CHOOSE e \in ToSet(f.vocab) : e.id = t).spells]
  /\ merges' = [r \in DOMAIN f.merges |-> <<IdOf(f, f.merges[r][1]), IdOf(f, f.merges[r][2])>>]
  /\ special' = {e.id : e \in f.added}
  /\ phase' = "rest"
  /\ UNCHANGED <<text, at, plain, out, hit, piece>>

Free ==
  /\ phase = "rest" /\ phase' = "unloaded"
  /\ spelling' = <<>> /\ merges' = <<>> /\ special' = {}
  /\ UNCHANGED <<text, at, plain, out, hit, piece>>

Tokenize(t) ==
  /\ phase = "rest" /\ phase' = "scan"
  /\ text' = t /\ at' = 1 /\ plain' = 1 /\ out' = <<>>
  /\ UNCHANGED <<tokenizer, hit, piece>>

(* The special tokens that stand at a place, and the longest of them. *)
SpecialAt(i) ==
  {s \in special : IsPrefix(spelling[s], SubSeq(text, i, Len(text)))}

(* Definitions called Faulty... are mistakes a run must tell from the code:  *)
(* any special token will do.                                                *)
FaultyTaken(S) == CHOOSE s \in S : \A r \in S : Len(spelling[s]) <= Len(spelling[r])

Taken(S) == CHOOSE s \in S : \A r \in S : Len(spelling[s]) >= Len(spelling[r])

Advance ==
  /\ phase = "scan" /\ at <= Len(text)
  /\ SpecialAt(at) = {}
  /\ at' = at + 1
  /\ UNCHANGED <<tokenizer, text, plain, out, hit, piece, phase>>

(* A special token, or the end of the text, ends the plain text before it. *)
Stop ==
  /\ phase = "scan"
  /\ at > Len(text) \/ SpecialAt(at) # {}
  /\ hit' = IF at > Len(text) THEN None ELSE Taken(SpecialAt(at))
  /\ phase' = IF at > plain THEN "split" ELSE "special"
  /\ UNCHANGED <<tokenizer, text, at, plain, out, piece>>

Piece == SubSeq(text, plain, at - 1)

(* What cannot be split: bytes that are no character, or have no token. *)
Splits ==
  /\ \A c \in ToSet(Characters(Normal(Piece))) : WellFormed(c)
  /\ \A s \in ToSet(Split(Piece)) : Found(s) # {}

(* dgt_piece up to the heap. *)
StartPiece ==
  /\ phase = "split" /\ Splits
  /\ LET spellings == Split(Piece)
         tokens == [i \in DOMAIN spellings |-> Spelled(spellings[i])]
     IN  /\ ids' = tokens /\ Linked(Len(tokens))
         /\ heap' = FoldLeftDomain(LAMBDA h, i :
                      IF i < Len(tokens) THEN Pushed(h, tokens, i, i + 1) ELSE h, <<>>, tokens)
  /\ phase' = "merge"
  /\ UNCHANGED <<tokenizer, text, at, plain, out, hit>>

(* The right neighbour is not compared. *)
FaultyCurrent(c) == ids[c.pos] = c.a /\ next[c.pos] # NoLink

(* A candidate is current if its tokens still stand side by side. *)
Current(c) == ids[c.pos] = c.a /\ next[c.pos] # NoLink /\ ids[next[c.pos]] = c.b

Discard ==
  /\ phase = "merge" /\ heap # <<>> /\ ~Current(heap[1])
  /\ heap' = Popped(heap)
  /\ UNCHANGED <<tokenizer, text, at, plain, out, hit, ids, next, prev, phase>>

Both(c) == spelling[c.a] \o spelling[c.b]

Merge ==
  /\ phase = "merge" /\ heap # <<>> /\ Current(heap[1])
  /\ Found(Both(heap[1])) # {}
  /\ LET left == heap[1].pos
         right == next[left]
         after == next[right]
         tokens == [ids EXCEPT ![left] = Spelled(Both(heap[1])), ![right] = None]
         before == prev[left]
         popped == Popped(heap)
         pushed == IF before # NoLink THEN Pushed(popped, tokens, before, left) ELSE popped
     IN  /\ ids' = tokens
         /\ next' = [next EXCEPT ![left] = after]
         /\ prev' = IF after # NoLink THEN [prev EXCEPT ![after] = left] ELSE prev
         /\ heap' = IF after # NoLink THEN Pushed(pushed, tokens, left, after) ELSE pushed
  /\ UNCHANGED <<tokenizer, text, at, plain, out, hit, phase>>

(* The tokens left, from the first. *)
Chain(i) ==
  LET from[j \in 0..Len(ids)] == IF j = NoLink THEN <<>> ELSE <<ids[j]>> \o from[next[j]]
  IN  from[i]

EndPiece ==
  /\ phase = "merge" /\ heap = <<>>
  /\ out' = out \o Chain(1)
  /\ ids' = <<>> /\ next' = <<>> /\ prev' = <<>> /\ heap' = <<>>
  /\ phase' = "special"
  /\ UNCHANGED <<tokenizer, text, at, plain, hit>>

PushSpecial ==
  /\ phase = "special" /\ hit # None
  /\ out' = Append(out, hit)
  /\ at' = at + Len(spelling[hit]) /\ plain' = at + Len(spelling[hit])
  /\ hit' = None /\ phase' = "scan"
  /\ UNCHANGED <<tokenizer, text, piece>>

Rest ==
  /\ text' = <<>> /\ at' = 1 /\ plain' = 1 /\ out' = <<>> /\ hit' = None
  /\ ids' = <<>> /\ next' = <<>> /\ prev' = <<>> /\ heap' = <<>>
  /\ phase' = "rest"
  /\ UNCHANGED tokenizer

Return == phase = "special" /\ hit = None /\ Rest

(* jb_call_fail: the call and all it holds are given up. *)
NotSplit == phase = "split" /\ ~Splits /\ Rest

(* The vocabulary lacks the token of a merge. *)
AbsentMerge ==
  /\ phase = "merge" /\ heap # <<>> /\ Current(heap[1])
  /\ Found(Both(heap[1])) = {}
  /\ Rest

Next ==
  \/ \E f \in Files : Load(f)
  \/ \E t \in Texts : Tokenize(t)
  \/ Advance \/ Stop \/ StartPiece \/ Discard \/ Merge \/ EndPiece \/ PushSpecial \/ Return
  \/ NotSplit \/ AbsentMerge \/ Free

Spec == Init /\ [][Next]_vars

-----------------------------------------------------------------------------
(* The tokens of a piece are those that repeated scanning finds: skipping    *)
(* stale candidates never loses or reorders a merge, whatever ranks tie.     *)
Scan ==
  INSTANCE BpeScan WITH
    known <- {spelling[t] : t \in DOMAIN spelling},
    merges <- [r \in DOMAIN merges |-> <<spelling[merges[r][1]], spelling[merges[r][2]]>>],
    word <- IF ids = <<>> THEN <<>>
            ELSE LET tokens == Chain(1) IN [i \in DOMAIN tokens |-> spelling[tokens[i]]]
ImplementsScan == Scan!Spec

(* No text is lost, repeated or taken out of order: the tokens spell what    *)
(* was read, special tokens included, and the longest of those that start    *)
(* together is the one taken.  The candidates always fit the room dgt_piece  *)
(* plans for them, three for each byte of the piece.                         *)
TokensSpell ==
  LET Text(t) == IF t \in special THEN spelling[t]
                 ELSE [i \in DOMAIN spelling[t] |-> spelling[t][i] % 256]
      done == IF phase = "special" THEN at - 1 ELSE plain - 1
  IN  /\ Normal(FlattenSeq([i \in DOMAIN out |-> Text(out[i])])) = Normal(SubSeq(text, 1, done))
      /\ hit # None => \A s \in SpecialAt(at) : Len(spelling[s]) <= Len(spelling[hit])
      /\ phase = "merge" => Len(heap) <= 3 * Len(Normal(Piece))
=============================================================================
