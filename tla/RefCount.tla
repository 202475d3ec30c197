------------------------------- MODULE RefCount -------------------------------
(***************************************************************************)
(* The count of a model's references under names of its own, so that it    *)
(* can be reasoned about beside the sessions that retain and release it.   *)
(***************************************************************************)
EXTENDS Naturals, FiniteSets

CONSTANTS
  Owners,       \* threads
  References,   \* references that may exist at a time
  Saturated     \* UINT_MAX

VARIABLES references, counted, op, ended

Refs == INSTANCE ModelRefs
  WITH Threads <- Owners, Handles <- References, held <- counted, destructions <- ended

(* A count can hold one reference. *)
ASSUME RefsAssumption ==
  /\ IsFiniteSet(References)
  /\ Saturated \in Nat \ {0}

(* The type of every variable. *)
TypeOK == Refs!TypeOK

(* The count is the number of references (api.inc:197-199, 207).            *)
CountExact == Refs!CountExact

(* No destruction while anyone holds a reference or makes one                *)
(* (api.inc:205-213).                                                        *)
AliveWhileHeld == Refs!AliveWhileHeld

(* The model is destroyed once, last, and eventually (jb.h:178-181).         *)
ImplementsSharedModel == Refs!ImplementsSharedModel
=============================================================================
