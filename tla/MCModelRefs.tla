---------------------------- MODULE MCModelRefs ----------------------------
(* Model values for the runs of ModelRefs.  Below saturation: three threads  *)
(* and four references under a limit of five, so that retains, retries and   *)
(* the release of the last reference overlap.  At saturation: a limit of     *)
(* three, and four or five references.                                       *)
EXTENDS RefCount

CONSTANTS t1, t2, t3, h1, h2, h3, h4, h5

MCThreads == {t1, t2, t3}
MCHandles == {h1, h2, h3, h4}
MCOneThread == {t1}
MCManyHandles == {h1, h2, h3, h4, h5}
MCTwoThreads == {t1, t2}

Spec == Refs!Spec
FairSpec == Refs!FairSpec
=============================================================================
