----------------------------- MODULE MCSessions -----------------------------
(* Two threads.  With one session, three calls: a call that fails, one its   *)
(* callback makes, and one of the other thread, on the session in between.   *)
(* With two sessions, two calls: two threads meet in the accelerator's mutex *)
(* and a callback uses the other session, or frees the one that failed.      *)
EXTENDS Sessions

CONSTANTS t1, t2, s1, s2

MCThreads == {t1, t2}
MCOneThread == {t1}
MCOneId == {s1}
MCTwoIds == {s1, s2}

Symmetry == Permutations(MCThreads)
=============================================================================
