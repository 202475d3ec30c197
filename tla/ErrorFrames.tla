----------------------------- MODULE ErrorFrames -----------------------------
(***************************************************************************)
(* Error frames and tracked allocations, src/foundation.inc:207-564.       *)
(*                                                                         *)
(* Everything here is thread-local in the code, so one thread is modelled. *)
(* A block is the address of an allocation; its header carries the         *)
(* sequence number it was given when it was allocated and a flag that says *)
(* whether the thread's tracked list holds it.  The list is walked to its  *)
(* end wherever it is read, so it is kept as a set; the flag is kept apart *)
(* from it because the code stores it apart and must keep the two agreed.  *)
(*                                                                         *)
(* die() longjmps to the innermost frame, whose setjmp branch calls        *)
(* jb_frame_fail() at once: the two are one action.                        *)
(***************************************************************************)
EXTENDS Naturals, Sequences, SequencesExt

CONSTANTS
  Blocks,           \* addresses the allocator may return
  Cleanups,         \* (function, context) pairs
  Defaults,         \* statuses passed to jb_frame_enter()
  Raised,           \* statuses passed to die_status()
  Ok,               \* JB_OK, the status of a thread that has made no call
  Invalid,          \* JB_ERROR_INVALID_ARGUMENT
  OutOfMemory,      \* JB_ERROR_OUT_OF_MEMORY
  Internal,         \* JB_ERROR_INTERNAL
  CleanupMax,       \* JB_CLEANUP_MAX, per frame
  CleanupStackMax,  \* JB_CLEANUP_STACK_MAX, per thread
  MaxDepth,         \* bound: nested frames
  MaxSequence       \* bound: allocations made

ASSUME FrameAssumption ==
  /\ {OutOfMemory, Internal} \subseteq Raised
  /\ CleanupMax \in Nat /\ CleanupStackMax \in Nat
  /\ MaxDepth \in Nat /\ MaxSequence \in Nat

Statuses == Defaults \cup Raised \cup {Ok, Invalid}

VARIABLES
  frames,      \* jb_error_frame and the frames before it, innermost last
  status,      \* jb_error_status
  sequence,    \* jb_allocation_sequence
  live,        \* blocks allocated and not released
  number,      \* a block's link.sequence
  tracked,     \* blocks whose link.tracked is set
  list,        \* blocks linked into jb_tracked
  cleanups,    \* jb_cleanup_stack[0 .. jb_cleanup_count)
  outcome      \* what the call that failed last reported and ran

vars == <<frames, status, sequence, live, number, tracked, list, cleanups, outcome>>

memory == <<sequence, live, number, tracked, list>>

Frame == [mark : Nat, previousStatus : Statuses, cleanupMark : Nat]

Depth == Len(frames)

InFrame == frames # <<>>

Innermost == frames[Depth]

Armed == Len(cleanups) > Innermost.cleanupMark

-----------------------------------------------------------------------------
(* A thread starts outside every call, with its thread-locals zeroed.  No   *)
(* call has failed yet: outcome starts as a refusal with nothing to run.    *)

Init ==
  /\ frames = <<>>
  /\ status = Ok
  /\ sequence = 0
  /\ live = {} /\ tracked = {} /\ list = {}
  /\ number = <<>>
  /\ cleanups = <<>>
  /\ outcome = [by |-> "return", status |-> Invalid, ran |-> <<>>]

(* Definitions called Faulty... are mistakes the runs must be able to tell   *)
(* from the code: each replaces the definition it precedes, in turn.        *)

(* jb_unlink leaves the node in the list. *)
FaultyUnlink(listed, b) == listed

(* jb_link and jb_unlink *)
Link(listed, b) == listed \cup {b}
Unlink(listed, b) == listed \ {b}

(* jb_frame_enter *)
FrameEnter(s) ==
  /\ Depth < MaxDepth
  /\ frames' = Append(frames, [mark |-> sequence,
                               previousStatus |-> status,
                               cleanupMark |-> Len(cleanups)])
  /\ status' = s
  /\ UNCHANGED <<memory, cleanups, outcome>>

(* The frame and status jb_frame_leave() restores. *)
Unwind ==
  /\ frames' = SubSeq(frames, 1, Depth - 1)
  /\ status' = Innermost.previousStatus

(* The flags of the blocks handed over are not cleared. *)
FaultyHandOverFlags(listed, flagged) ==
  /\ list' = IF Depth = 1 THEN {} ELSE listed
  /\ tracked' = flagged

(* The list is kept when the outermost frame is left. *)
FaultyHandOverNothing(listed, flagged) ==
  /\ list' = listed
  /\ tracked' = flagged

(* Leaving the outermost frame empties the list and clears its flags. *)
HandOver(listed, flagged) ==
  IF Depth = 1
    THEN /\ list' = {}
         /\ tracked' = flagged \ listed
    ELSE /\ list' = listed
         /\ tracked' = flagged

(* The block numbered when the frame was entered is taken for the frame's. *)
FaultyDoomed(listed) == {b \in listed : number[b] >= Innermost.mark}

(* What a failed frame releases: every listed block numbered after its mark. *)
Doomed(listed) == {b \in listed : number[b] > Innermost.mark}

(* The cleanups jb_cleanup_run() pops, in the order it runs them. *)
RunOrder == Reverse(SubSeq(cleanups, Innermost.cleanupMark + 1, Len(cleanups)))

(* jb_frame_abandon with the tracked list as it stands when the call fails: *)
(* run the cleanups, release, leave.                                        *)
FrameAbandon(listed, by, s) ==
  /\ InFrame
  /\ outcome' = [by |-> by, status |-> s, ran |-> RunOrder]
  /\ cleanups' = SubSeq(cleanups, 1, Innermost.cleanupMark)
  /\ live' = live \ Doomed(listed)
  /\ number' = Restrict(number, live')
  /\ HandOver(listed \ Doomed(listed), tracked \ Doomed(listed))
  /\ Unwind
  /\ UNCHANGED sequence

(* die(), and die_status() when the failure names a status; jb_frame_fail() *)
(* then reports jb_error_status as it stands.                               *)
Die == FrameAbandon(list, "die", status)

DieStatus(s) == FrameAbandon(list, "die", s)

(* jb_session_create(), which arms no cleanup, abandons its frame itself    *)
(* and returns the status of the call it made, or of its own refusal.       *)
GiveUp ==
  /\ InFrame
  /\ ~Armed
  /\ \E s \in {Invalid, outcome.status} : FrameAbandon(list, "return", s)

(* jb_frame_leave on the successful path. *)
FrameLeave ==
  /\ InFrame
  /\ \/ /\ ~Armed
        /\ HandOver(list, tracked)
        /\ Unwind
        /\ UNCHANGED <<sequence, live, number, cleanups, outcome>>
     \/ /\ Armed
        /\ DieStatus(Internal)

-----------------------------------------------------------------------------
(* jb_allocate() under a frame: the block is numbered, flagged and linked. *)
(* When the allocator refuses, the call dies: DieStatus(OutOfMemory).      *)

Allocate(b) ==
  /\ InFrame
  /\ sequence < MaxSequence
  /\ b \in Blocks \ live
  /\ sequence' = sequence + 1
  /\ live' = live \cup {b}
  /\ number' = [d \in live' |-> IF d = b THEN sequence + 1 ELSE number[d]]
  /\ tracked' = tracked \cup {b}
  /\ list' = Link(list, b)
  /\ UNCHANGED <<frames, status, cleanups, outcome>>

(* The header after a reallocation is a copy of the old one: the sequence  *)
(* number is not drawn anew.                                               *)
MovedNumber(b) == number[b]

Moved(S, b, c) == IF b \in S THEN (S \ {b}) \cup {c} ELSE S

(* xrealloc: the block may stay at b or move to c. *)
Reallocate(b, c) ==
  /\ InFrame
  /\ b \in live
  /\ c \in (Blocks \ live) \cup {b}
  /\ live' = Moved(live, b, c)
  /\ number' = [d \in live' |-> IF d = c THEN MovedNumber(b) ELSE number[d]]
  /\ tracked' = Moved(tracked, b, c)
  /\ list' = IF b \in tracked THEN Link(Unlink(list, b), c) ELSE list
  /\ UNCHANGED <<frames, status, sequence, cleanups, outcome>>

(* The list once xrealloc() has unlinked b, the allocator has refused and   *)
(* the block is linked again.                                               *)
Relinked(b) == IF b \in tracked THEN Link(Unlink(list, b), b) ELSE list

ReallocateFails(b) ==
  /\ b \in live
  /\ FrameAbandon(Relinked(b), "die", OutOfMemory)

(* jb_release *)
Release(b) ==
  /\ b \in live
  /\ live' = live \ {b}
  /\ number' = Restrict(number, live')
  /\ list' = IF b \in tracked THEN Unlink(list, b) ELSE list
  /\ tracked' = tracked \ {b}
  /\ UNCHANGED <<frames, status, sequence, cleanups, outcome>>

(* jb_untrack: a long-lived object now owns the block. *)
Untrack(b) ==
  /\ b \in live
  /\ list' = IF b \in tracked THEN Unlink(list, b) ELSE list
  /\ tracked' = tracked \ {b}
  /\ UNCHANGED <<frames, status, sequence, live, number, cleanups, outcome>>

-----------------------------------------------------------------------------
(* jb_cleanup_push and jb_cleanup_disarm, misuse included. *)

CanPush ==
  /\ Len(cleanups) - Innermost.cleanupMark < CleanupMax
  /\ Len(cleanups) < CleanupStackMax

CleanupPush(c) ==
  /\ InFrame
  /\ \/ /\ CanPush
        /\ cleanups' = Append(cleanups, c)
        /\ UNCHANGED <<frames, status, memory, outcome>>
     \/ /\ ~CanPush
        /\ DieStatus(Internal)

(* The innermost frame's mark is not consulted. *)
FaultyCanDisarm(c) == cleanups # <<>> /\ cleanups[Len(cleanups)] = c

CanDisarm(c) == Armed /\ cleanups[Len(cleanups)] = c

CleanupDisarm(c) ==
  /\ InFrame
  /\ \/ /\ CanDisarm(c)
        /\ cleanups' = SubSeq(cleanups, 1, Len(cleanups) - 1)
        /\ UNCHANGED <<frames, status, memory, outcome>>
     \/ /\ ~CanDisarm(c)
        /\ DieStatus(Internal)

Next ==
  \/ \E s \in Defaults : FrameEnter(s)
  \/ FrameLeave
  \/ Die
  \/ \E s \in Raised : DieStatus(s)
  \/ GiveUp
  \/ \E b \in Blocks : Allocate(b) \/ ReallocateFails(b) \/ Release(b) \/ Untrack(b)
  \/ \E b, c \in Blocks : Reallocate(b, c)
  \/ \E c \in Cleanups : CleanupPush(c) \/ CleanupDisarm(c)

Spec == Init /\ [][Next]_vars

-----------------------------------------------------------------------------
(* The type of every variable, and that only live blocks are flagged or    *)
(* linked: an unlinked-but-freed header would be a dangling list node.     *)
TypeOK ==
  /\ frames \in Seq(Frame)
  /\ status \in Statuses
  /\ sequence \in Nat
  /\ live \subseteq Blocks
  /\ number \in [live -> Nat]
  /\ tracked \subseteq live
  /\ list \subseteq live
  /\ cleanups \in Seq(Cleanups)
  /\ outcome \in [by : {"die", "return"}, status : Statuses, ran : Seq(Cleanups)]

(* A block is flagged exactly when it is linked (foundation.inc:409-410): a *)
(* flagged block that is not linked would make jb_release() unlink a node   *)
(* no list holds, a linked one without the flag would be released under its *)
(* new owner.                                                               *)
ListMatchesFlags == tracked = list

(* "When the outermost call succeeds, its allocations stop being tracked"   *)
(* (foundation.inc:212): whatever is tracked was numbered inside the        *)
(* outermost call still under way, so no frame a later call enters can      *)
(* release it.                                                              *)
TrackedInsideCalls ==
  \A b \in list : InFrame /\ frames[1].mark < number[b] /\ number[b] <= sequence

(* Marks grow inwards, so that a block is released by exactly the frames it *)
(* was allocated under, and each armed cleanup belongs to exactly one frame. *)
MarksOrdered ==
  /\ \A i \in 1..Depth : /\ frames[i].mark <= sequence
                          /\ frames[i].cleanupMark <= Len(cleanups)
  /\ \A i, j \in 1..Depth : i <= j => /\ frames[i].mark <= frames[j].mark
                                      /\ frames[i].cleanupMark <= frames[j].cleanupMark
  /\ IF InFrame THEN frames[1].cleanupMark = 0 ELSE cleanups = <<>>

(* The calls these frames stand for.  Call i owns the listed blocks numbered *)
(* after its mark and not after the next one's, has armed the cleanups       *)
(* between the two marks, and will report the status the next frame saved.   *)
OwnedBy(i) ==
  {b \in list : /\ frames[i].mark < number[b]
                /\ i < Depth => number[b] <= frames[i + 1].mark}

ArmedBy(i) ==
  SubSeq(cleanups, frames[i].cleanupMark + 1,
         IF i < Depth THEN frames[i + 1].cleanupMark ELSE Len(cleanups))

StatusOf(i) == IF i < Depth THEN frames[i + 1].previousStatus ELSE status

Calls ==
  [i \in 1..Depth |-> [owned |-> OwnedBy(i), armed |-> ArmedBy(i), status |-> StatusOf(i)]]

Ownership == INSTANCE CallOwnership WITH calls <- Calls, kept <- live \ list

(* Marks, sequence numbers and the one list per thread implement ownership  *)
(* by call: a failed call releases exactly the blocks it allocated and did  *)
(* not hand on, runs exactly the cleanups it armed, last first, and reports *)
(* its own status (foundation.inc:207-221).                                 *)
ImplementsOwnership == Ownership!Spec

=============================================================================
