---------------------------- MODULE CallOwnership ----------------------------
(***************************************************************************)
(* What the allocation discipline of src/foundation.inc promises to the    *)
(* calls of one thread, stated without marks, sequence numbers or lists.   *)
(*                                                                         *)
(* Calls nest.  Each call under way owns the blocks allocated since it     *)
(* began and not handed on, the cleanups it armed, and the status it will  *)
(* report if it fails.  A call that succeeds hands its blocks to the call  *)
(* around it, or, when it is outermost, to the caller; a call that fails   *)
(* runs its cleanups, last armed first, and releases the blocks it owns    *)
(* and no others.                                                          *)
(***************************************************************************)
EXTENDS Naturals, Sequences, SequencesExt

CONSTANTS
  Blocks,     \* addresses an allocator may return
  Cleanups,   \* (function, context) pairs a call may arm
  Defaults,   \* statuses a call may begin with
  Raised,     \* statuses a failure may name itself
  Invalid     \* the status of a call refused for its arguments

VARIABLES
  calls,      \* the calls under way, innermost last: the blocks each owns,
              \* the cleanups it has armed, the status it will fail with
  kept,       \* blocks the caller or a long-lived object owns
  outcome     \* how the call that failed last ended, by die() or by returning,
              \* the status it reported and the cleanups it ran

vars == <<calls, kept, outcome>>

Top == Len(calls)

Owned == UNION {calls[i].owned : i \in DOMAIN calls}

Free == Blocks \ (Owned \cup kept)

(* The calls with block b taken away from the call that owns it, if any. *)
Without(b) == [i \in DOMAIN calls |-> [calls[i] EXCEPT !.owned = @ \ {b}]]

-----------------------------------------------------------------------------

Init ==
  /\ calls = <<>>
  /\ kept = {}
  /\ outcome = [by |-> "return", status |-> Invalid, ran |-> <<>>]

Begin(s) ==
  /\ calls' = Append(calls, [owned |-> {}, armed |-> <<>>, status |-> s])
  /\ UNCHANGED <<kept, outcome>>

Allocate(b) ==
  /\ calls # <<>>
  /\ b \in Free
  /\ calls' = [calls EXCEPT ![Top].owned = @ \cup {b}]
  /\ UNCHANGED <<kept, outcome>>

(* A resized block keeps its owner, wherever its contents move to. *)
Move(b, c) ==
  /\ b \in Owned \cup kept
  /\ c \in Free \cup {b}
  /\ calls' = [i \in DOMAIN calls |->
                [calls[i] EXCEPT !.owned =
                  IF b \in @ THEN (@ \ {b}) \cup {c} ELSE @]]
  /\ kept' = IF b \in kept THEN (kept \ {b}) \cup {c} ELSE kept
  /\ UNCHANGED outcome

Release(b) ==
  /\ b \in Owned \cup kept
  /\ calls' = Without(b)
  /\ kept' = kept \ {b}
  /\ UNCHANGED outcome

(* The block is installed into an object that outlives the call. *)
Keep(b) ==
  /\ b \in Owned
  /\ calls' = Without(b)
  /\ kept' = kept \cup {b}
  /\ UNCHANGED outcome

Arm(c) ==
  /\ calls # <<>>
  /\ calls' = [calls EXCEPT ![Top].armed = Append(@, c)]
  /\ UNCHANGED <<kept, outcome>>

Disarm ==
  /\ calls # <<>>
  /\ calls[Top].armed # <<>>
  /\ calls' = [calls EXCEPT ![Top].armed = SubSeq(@, 1, Len(@) - 1)]
  /\ UNCHANGED <<kept, outcome>>

Succeed ==
  /\ calls # <<>>
  /\ calls[Top].armed = <<>>
  /\ IF Top = 1
       THEN /\ calls' = <<>>
            /\ kept' = kept \cup calls[1].owned
       ELSE /\ calls' = [i \in 1..(Top - 1) |->
                          IF i = Top - 1
                            THEN [calls[i] EXCEPT !.owned = @ \cup calls[Top].owned]
                            ELSE calls[i]]
            /\ UNCHANGED kept
  /\ UNCHANGED outcome

End(by, s) ==
  /\ calls # <<>>
  /\ calls' = SubSeq(calls, 1, Top - 1)
  /\ outcome' = [by |-> by, status |-> s, ran |-> Reverse(calls[Top].armed)]
  /\ UNCHANGED kept

(* die() reports the status it names, or else the one the call began with: *)
(* never one that a call nested in this one left behind.                   *)
Die == calls # <<>> /\ \E s \in Raised \cup {calls[Top].status} : End("die", s)

(* A call may also give up on its own and pass on the failure of a call it *)
(* made, or a refusal of its arguments.                                    *)
GiveUp == \E s \in {Invalid, outcome.status} : End("return", s)

Next ==
  \/ \E s \in Defaults : Begin(s)
  \/ \E b \in Blocks : Allocate(b) \/ Release(b) \/ Keep(b)
  \/ \E b, c \in Blocks : Move(b, c)
  \/ \E c \in Cleanups : Arm(c)
  \/ Disarm
  \/ Succeed
  \/ Die
  \/ GiveUp

Spec == Init /\ [][Next]_vars

=============================================================================
