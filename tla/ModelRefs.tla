------------------------------ MODULE ModelRefs ------------------------------
(***************************************************************************)
(* The reference count of a model, src/api.inc:190-219, one atomic access  *)
(* per step.                                                               *)
(*                                                                         *)
(* A handle is one reference: a caller's, a session's, or the one a failed *)
(* call holds while it logs.  Callers keep the contract of the header: the *)
(* reference a retain is made through stays valid until it returns, and    *)
(* each reference is released once.                                        *)
(*                                                                         *)
(* The relaxed loads may return an older value than the count's latest; a  *)
(* thread may also have made the load that much earlier, so the            *)
(* interleavings of the steps below cover them.                            *)
(***************************************************************************)
EXTENDS Naturals, FiniteSets

CONSTANTS
  Threads,
  Handles,      \* references that may exist at a time
  Saturated     \* UINT_MAX

VARIABLES
  references,   \* jb_model.references
  held,         \* references handed out and not given up
  op,           \* where each thread is in a retain or a release
  destructions  \* completed destructions of the model

vars == <<references, held, op, destructions>>

Idle == [at |-> "idle"]
Destroying == [at |-> "destroy"]

Op ==
  {Idle, Destroying}
    \cup [at : {"retain"}, via : Handles, new : Handles, seen : 0..Saturated]
    \cup [at : {"release"}, old : Handles]

Retaining == {t \in Threads : op[t].at = "retain"}
Releasing == {t \in Threads : op[t].at = "release"}
Destroyers == {t \in Threads : op[t].at = "destroy"}

Lent == {op[t].via : t \in Retaining}
Promised == {op[t].new : t \in Retaining}
Leaving == {op[t].old : t \in Releasing}

Init ==
  /\ references = 1
  /\ \E h \in Handles : held = {h}
  /\ op = [t \in Threads |-> Idle]
  /\ destructions = 0

-----------------------------------------------------------------------------
(* jb_model_retain *)

RetainLoad(t, via, new) ==
  /\ op[t] = Idle
  /\ via \in held \ Leaving
  /\ new \in Handles \ (held \cup Promised)
  /\ op' = [op EXCEPT ![t] = [at |-> "retain", via |-> via, new |-> new,
                              seen |-> references]]
  /\ UNCHANGED <<references, held, destructions>>

(* Definitions called Faulty... are mistakes the runs must be able to tell   *)
(* from the code: each replaces the definition it precedes, in turn.        *)

(* The count is stored without being compared. *)
FaultyCanSwap(expected) == TRUE

CanSwap(expected) == references = expected

Retained(t) ==
  /\ held' = held \cup {op[t].new}
  /\ op' = [op EXCEPT ![t] = Idle]
  /\ UNCHANGED destructions

(* The saturated count is not looked for. *)
FaultyRetainSwap(t) ==
  /\ t \in Retaining
  /\ CanSwap(op[t].seen)
  /\ references' = op[t].seen + 1
  /\ Retained(t)

RetainSwap(t) ==
  /\ t \in Retaining
  /\ op[t].seen # Saturated
  /\ CanSwap(op[t].seen)
  /\ references' = op[t].seen + 1
  /\ Retained(t)

(* The exchange fails, on a changed count or spuriously, and loads again. *)
RetainRetry(t) ==
  /\ t \in Retaining
  /\ op[t].seen # Saturated
  /\ op' = [op EXCEPT ![t].seen = references]
  /\ UNCHANGED <<references, held, destructions>>

(* The count has saturated: this reference is not counted. *)
RetainSaturated(t) ==
  /\ t \in Retaining
  /\ op[t].seen = Saturated
  /\ Retained(t)
  /\ UNCHANGED references

-----------------------------------------------------------------------------
(* jb_model_release, jb_model_free *)

(* The saturated count is decremented like any other. *)
FaultyReleaseLoad(t, old) ==
  /\ op[t] = Idle
  /\ old \in held \ (Lent \cup Leaving)
  /\ op' = [op EXCEPT ![t] = [at |-> "release", old |-> old]]
  /\ UNCHANGED <<references, held, destructions>>

ReleaseLoad(t, old) ==
  /\ op[t] = Idle
  /\ old \in held \ (Lent \cup Leaving)
  /\ references # Saturated
  /\ op' = [op EXCEPT ![t] = [at |-> "release", old |-> old]]
  /\ UNCHANGED <<references, held, destructions>>

(* A saturated count is never decremented: the model leaks. *)
ReleaseSaturated(t, old) ==
  /\ op[t] = Idle
  /\ old \in held \ (Lent \cup Leaving)
  /\ references = Saturated
  /\ held' = held \ {old}
  /\ UNCHANGED <<references, op, destructions>>

(* The value before the subtraction is taken for the value after it... *)
FaultyWasLast(count) == count = 0

(* ... or the last but one reference for the last. *)
FaultyWasLastButOne(count) == count <= 2

WasLast(count) == count = 1

(* atomic_fetch_sub on an unsigned count; the value it had decides. *)
ReleaseSub(t) ==
  /\ t \in Releasing
  /\ references' = (references + Saturated) % (Saturated + 1)
  /\ held' = held \ {op[t].old}
  /\ op' = [op EXCEPT ![t] = IF WasLast(references) THEN Destroying ELSE Idle]
  /\ UNCHANGED destructions

Destroy(t) ==
  /\ t \in Destroyers
  /\ destructions' = destructions + 1
  /\ op' = [op EXCEPT ![t] = Idle]
  /\ UNCHANGED <<references, held>>

Next ==
  \E t \in Threads :
    \/ \E via, new \in Handles : RetainLoad(t, via, new)
    \/ RetainSwap(t)
    \/ RetainRetry(t)
    \/ RetainSaturated(t)
    \/ \E old \in Handles : ReleaseLoad(t, old) \/ ReleaseSaturated(t, old)
    \/ ReleaseSub(t)
    \/ Destroy(t)

Spec == Init /\ [][Next]_vars

(* A thread that has given up the last reference goes on to free the model: *)
(* nothing on the way blocks.                                               *)
FairSpec == Spec /\ \A t \in Threads : WF_vars(Destroy(t))

-----------------------------------------------------------------------------
(* The type of every variable. *)
TypeOK ==
  /\ references \in 0..Saturated
  /\ held \subseteq Handles
  /\ op \in [Threads -> Op]
  /\ destructions \in Nat

(* Between the atomic steps of any threads the count is the number of        *)
(* references (api.inc:197-199, 207): no retain is lost to a concurrent one, *)
(* and a release counts down exactly once.  Below saturation only.           *)
CountExact == references = Cardinality(held)

(* No thread destroys the model, or has destroyed it, while anyone holds a  *)
(* reference to it or is making one (api.inc:205-213).                      *)
AliveWhileHeld ==
  held # {} \/ Promised # {} => destructions = 0 /\ Destroyers = {}

Shared == INSTANCE SharedModel

(* The count implements references without one: the model is destroyed once, *)
(* only when the last reference has been given up, and then eventually.      *)
ImplementsSharedModel == Shared!FairSpec

=============================================================================
