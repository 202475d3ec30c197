----------------------------- MODULE MCInference -----------------------------
(* Constants for checking Inference. *)
EXTENDS Inference, SequencesExt

a == <<97>>
b == <<98>>
Low == <<226, 150, 129>>

Entries(spellings) == [i \in DOMAIN spellings |-> [id |-> i - 1, spells |-> spellings[i]]]

MCVocab ==
  Entries(<< <<60, 97>>, b, a, Low, <<60>>, a \o b, b \o a, a \o a, a \o b \o a,
             <<256 + 195>>, <<256 + 169>>, <<60, 97, 97>> >>)

File(orders) == {[vocab |-> MCVocab, merges |-> o, added |-> {MCVocab[1], MCVocab[12]}] : o \in orders}

(* Every order of four merges that compete for letters, a merge whose token is *)
(* absent, and files that are refused.                                         *)
MCFiles ==
  File(SetToSeqs({<<a, b>>, <<b, a>>, <<a, a>>, <<a \o b, a>>}))
  \cup File({<< <<a, b>>, <<Low, a>>, <<a, a>> >>, << <<a, <<99>> >> >>})
  \cup {[vocab |-> Append(MCVocab, MCVocab[1]), merges |-> <<>>, added |-> {}],
        [vocab |-> Entries(<<<<>>>>), merges |-> <<>>, added |-> {[id |-> 0, spells |-> <<>>]}],
        [vocab |-> MCVocab, merges |-> <<>>, added |-> {[id |-> 1, spells |-> a]}]}

(* Letters that merge; then spaces, specials, a character with bytes only, one *)
(* with a byte missing, and what is no character.                              *)
Concatenated(units, n) ==
  UNION {{FlattenSeq(s) : s \in [1..k -> units]} : k \in 0..n}

MCTexts ==
  Concatenated({a, b}, 6)
  \cup Concatenated({a, <<32>>, <<60>>, <<195, 169>>}, 3)
  \cup {a \o s : s \in {<<255>>, <<195>>, <<195, 170>>, <<195, 97>>, <<224, 130, 130>>,
                       <<237, 160, 128>>, <<244, 144, 128, 128>>}}

(* Two schemas, prompts shorter and longer than the window, that share a schema *)
(* or not.                                                                      *)
MCPrompts == {<<1, 2, 1>>, <<1, 2, 2, 1>>, <<1, 2, 3, 3, 1>>, <<2, 1, 3>>}
MCCanvases == {<<1, 3>>, <<3, 3>>, <<3>>}

(* Clear winners and ties. *)
MCLogits == {<<3, 2, 1>>, <<0, 0, 1>>, <<1, 1, 1>>, <<0, 2, 2>>}

(* Full and partial blocks of rows, of lanes, of tokens and of columns. *)
Shape(t, r, c) == [tokens |-> t, rows |-> r, cols |-> c]
MCShapes == {Shape(3, 6, 5), Shape(3, 8, 8), Shape(3, 6, 8), Shape(1, 9, 6)}

(* Tiles of four, three, two and one; rows and units that do not fill a block; *)
(* a block with two tiles, the second shorter.                                *)
Product(kernel, groups, rows, units) ==
  [kernel |-> kernel, groups |-> groups, rows |-> rows, units |-> units]
MCLaunches ==
  {Product("nvfp4_mm", <<0, 0, 0, 0, 1, 1, 1>>, 3, 3), Product("nvfp4_mm", <<0, 0, 0, 1, 2, 2>>, 2, 4),
   Product("bf16_mm", <<0, 0, 0, 0, 0>>, 3, 3),
   Product("bf16_body", [t \in 1..9 |-> 0], 3, 4)}

MCSlotLogits == {<<3, 1, 2, 0>>, <<1, 1, 1, 1>>, <<0, 2, 0, 2>>, <<0, 1, 2, 3>>}
MCLabelLists == {<<1>>, <<3, 0>>, <<2, 1, 0>>, <<0, 3, 2>>, <<3, 3>>}
=============================================================================
