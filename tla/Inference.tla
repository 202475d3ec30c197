------------------------------ MODULE Inference ------------------------------
(***************************************************************************)
(* What a decision computes with, between the calls of Decision: the       *)
(* tokenizer, the forward passes, the mixture of experts, the matrix       *)
(* products of either side and the scores of the answer slots.  Each starts *)
(* from rest and comes back to rest within one call of a session, and they *)
(* share no state, so one moves at a time.                                 *)
(***************************************************************************)
EXTENDS Forward, Sums

CONSTANTS
  Files, Texts, None                                                     \* Tokenizer

VARIABLES
  spelling, merges, special, text, at, plain, out, hit, ids, next, prev, heap, phase

T == INSTANCE Tokenizer

tokenizing ==
  <<spelling, merges, special, text, at, plain, out, hit, ids, next, prev, heap, phase>>
vars == <<tokenizing, passing, mixing, multiplying, launching, scoring>>

Init == T!Init /\ P!Init /\ X!Init /\ C!Init /\ D!Init /\ S!Init

AtRest ==
  [tokenizer |-> T!Init, passes |-> P!Init, experts |-> X!Init,
   cpu |-> C!Init, device |-> D!Init, scores |-> S!Init]

Alone(part) == \A other \in DOMAIN AtRest \ {part} : AtRest[other]

Tokenizes ==
  /\ Alone("tokenizer") /\ T!Next
  /\ UNCHANGED <<passing, mixing, multiplying, launching, scoring>>
Passes ==
  /\ Alone("passes") /\ P!Next
  /\ UNCHANGED <<tokenizing, mixing, multiplying, launching, scoring>>
Mixes ==
  /\ Alone("experts") /\ X!Next
  /\ UNCHANGED <<tokenizing, passing, multiplying, launching, scoring>>
Multiplies ==
  /\ Alone("cpu") /\ C!Next
  /\ UNCHANGED <<tokenizing, passing, mixing, launching, scoring>>
Launched ==
  /\ Alone("device") /\ D!Next
  /\ UNCHANGED <<tokenizing, passing, mixing, multiplying, scoring>>
Scored ==
  /\ Alone("scores") /\ S!Next
  /\ UNCHANGED <<tokenizing, passing, mixing, multiplying, launching>>

Next == Tokenizes \/ Passes \/ Mixes \/ Multiplies \/ Launched \/ Scored

Spec == Init /\ [][Next]_vars

-----------------------------------------------------------------------------
(* The properties of the parts, stated where they are defined.               *)

(* A piece's tokens are those that repeated scanning finds (model.inc:892).   *)
ImplementsScan == T!ImplementsScan

(* Tokens spell the text, and the heap has room (model.inc:872-992).          *)
TokensSpell == T!TokensSpell
=============================================================================
