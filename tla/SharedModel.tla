----------------------------- MODULE SharedModel -----------------------------
(***************************************************************************)
(* What jb.h:178-181 promises of a model shared by sessions and threads:   *)
(* it is destroyed once, and not before its last reference is given up.    *)
(***************************************************************************)
EXTENDS Naturals

CONSTANT Handles    \* references a caller, a session or a call may hold

VARIABLES
  held,             \* the references in existence
  destructions      \* how many times the model has been destroyed

vars == <<held, destructions>>

Init ==
  /\ \E h \in Handles : held = {h}
  /\ destructions = 0

(* Only the holder of a reference can make another. *)
Acquire(h) ==
  /\ held # {}
  /\ h \notin held
  /\ held' = held \cup {h}
  /\ UNCHANGED destructions

Drop(h) ==
  /\ h \in held
  /\ held' = held \ {h}
  /\ UNCHANGED destructions

Destroy ==
  /\ held = {}
  /\ destructions = 0
  /\ destructions' = 1
  /\ UNCHANGED held

Next == (\E h \in Handles : Acquire(h) \/ Drop(h)) \/ Destroy

Spec == Init /\ [][Next]_vars

FairSpec == Spec /\ WF_vars(Destroy)

=============================================================================
