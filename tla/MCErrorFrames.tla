---------------------------- MODULE MCErrorFrames ----------------------------
(* Two addresses, a call and a call nested in it, and three allocations: a   *)
(* block for each call, one that moves to the address another left, and an   *)
(* address used again under a younger number.  One call can arm two cleanups *)
(* (CleanupMax) and the thread three (CleanupStackMax), so that each limit   *)
(* is reached without the other.                                             *)
EXTENDS ErrorFrames

CONSTANTS b1, b2, c1, c2

MCBlocks == {b1, b2}
MCCleanups == {c1, c2}
MCDefaults == {"model", "request"}
MCRaised == {"out of memory", "internal"}

Symmetry == Permutations(MCBlocks) \cup Permutations(MCCleanups)
=============================================================================
